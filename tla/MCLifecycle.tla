------------------------------ MODULE MCLifecycle ------------------------------
(* Three service objects: two versions of one id, and another one of the same name. *)
EXTENDS Lifecycle
MCServices == {[id |-> "i1", name |-> "a", version |-> 1], [id |-> "i1", name |-> "b", version |-> 2],
               [id |-> "i2", name |-> "a", version |-> 1]}
MCMaxHooks == [start |-> 1, stop |-> 1, terminate |-> 2]
===============================================================================
