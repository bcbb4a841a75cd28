---------------------------- MODULE MCInMemoryBus -----------------------------
(* Two topics, two subscriptions, two publishing tasks: concurrent and nested   *)
(* publishes of three messages over a registry that changes in between.         *)
EXTENDS InMemoryBus, TLC

\* Topics, subscriptions and tasks are interchangeable.
Symmetry == Permutations(Topics) \union Permutations(Subs) \union Permutations(Tasks)
===============================================================================
