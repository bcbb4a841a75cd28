-------------------------------- MODULE PubSub --------------------------------
(***************************************************************************)
(* What a topic event bus of tinySOA promises its users, whatever carries  *)
(* the messages: a message is owed to exactly the subscriptions its topic  *)
(* had when it was published, each of them is handed it at most once, and  *)
(* a message that is given up on is given up for good.                     *)
(***************************************************************************)
EXTENDS Naturals, Sequences

CONSTANTS Topics,      \* topic names
          Subs,        \* subscriptions, each identified by its own id
          Msgs         \* published messages

VARIABLES members,     \* the subscriptions of each topic
          issued,      \* the messages published so far
          owed,        \* to whom each message has still to be handed
          got          \* what each subscription was handed, oldest first

vars == <<members, issued, owed, got>>

Init ==
    /\ members = [t \in Topics |-> {}]
    /\ issued = {}
    /\ owed = [m \in Msgs |-> {}]
    /\ got = [s \in Subs |-> <<>>]

Join(s, t) ==
    /\ \A u \in Topics : s \notin members[u]
    /\ members' = [members EXCEPT ![t] = @ \union {s}]
    /\ UNCHANGED <<issued, owed, got>>

Leave(S) ==
    /\ members' = [t \in Topics |-> members[t] \ S]
    /\ UNCHANGED <<issued, owed, got>>

\* The bus may hand the message to a first subscription (now) as it is published.
Publish(m, t, now) ==
    /\ m \notin issued
    /\ issued' = issued \union {m}
    /\ owed' = [owed EXCEPT ![m] = members[t] \ now]
    /\ got' = [s \in Subs |-> IF s \in now THEN Append(got[s], m) ELSE got[s]]
    /\ UNCHANGED members

Deliver(m, s) ==
    /\ s \in owed[m]
    /\ owed' = [owed EXCEPT ![m] = @ \ {s}]
    /\ got' = [got EXCEPT ![s] = Append(@, m)]
    /\ UNCHANGED <<members, issued>>

Abandon(m) ==
    /\ owed' = [owed EXCEPT ![m] = {}]
    /\ UNCHANGED <<members, issued, got>>

Next ==
    \/ \E s \in Subs, t \in Topics : Join(s, t)
    \/ \E S \in SUBSET Subs : Leave(S)
    \/ \E m \in Msgs, t \in Topics :
          \/ Publish(m, t, {})
          \/ \E s \in members[t] : Publish(m, t, {s})
    \/ \E m \in Msgs, s \in Subs : Deliver(m, s)
    \/ \E m \in Msgs : Abandon(m)

Spec == Init /\ [][Next]_vars
===============================================================================
