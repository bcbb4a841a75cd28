---------------------------- MODULE TcpServerProofs ----------------------------
(***************************************************************************)
(* The lock of the TCP server, for any number of connections and topics:   *)
(* while no send has failed, a removal in progress is the only one, and    *)
(* the registry is exact but for what that removal has still to take out.  *)
(***************************************************************************)
EXTENDS TcpServer, ListsProofs

\* A thread inside _remove_client, or in the part of "unsubscribe" that is the same.
Removing == {"testing", "unlisting", "filtering", "writing", "dropping"}
Places == {"none", "accepted", "looping", "reading", "sending", "raised", "closed", "dead"}
          \union Removing
Local == [targets : Seq(Conns), who : Conns \union {Free}, todo : SUBSET Topics,
          topic : Topics \union {Free}, keep : Seq(Conns)]

\* The places of the threads and the types of their variables.
ThreadsOK ==
    /\ at \in [Conns -> Places] /\ local \in [Conns -> Local]
    /\ \A c \in Conns : at[c] = "writing" => local[c].topic \in Topics

\* Who holds the lock is in the middle of a removal of its own connection, or of an
\* "unsubscribe", and what it has read of the registry still holds.
HolderOf(c) ==
    /\ at[c] \in Removing <=> lock = c
    /\ lock # c => local[c].who = Free /\ local[c].todo = {}
    /\ lock = c =>
          /\ \/ local[c].who = c /\ wants[c] = {}
             \/ /\ local[c].who = Free /\ local[c].todo = {}
                /\ at[c] \in {"writing", "dropping", "filtering"}
          /\ at[c] = "unlisting" => c \in clients
          /\ local[c].todo \subseteq DOMAIN topic_clients
          /\ at[c] \in {"writing", "dropping"} => local[c].topic \notin local[c].todo
          /\ at[c] = "writing" => /\ local[c].keep = Without(ListOf(local[c].topic), c)
                                  /\ local[c].topic \notin wants[c]
          /\ at[c] = "dropping" => local[c].topic \in DOMAIN topic_clients

HolderInv == ~crashed /\ \A c \in Conns : HolderOf(c)

\* The topics that the removal which c runs has still to deal with.
Pending(c) ==
    CASE at[c] \in {"testing", "unlisting"} -> Topics
      [] at[c] = "writing" -> local[c].todo \union {local[c].topic}
      [] at[c] \in {"filtering", "dropping"} -> local[c].todo
      [] OTHER -> {}

\* The lists are exact but for what the holder of the lock has still to take out, and an
\* empty one is about to be dropped.
RegistryInv ==
    /\ \A t \in Topics, c \in Conns :
          (t \notin Pending(c)) => (c \in Range(ListOf(t)) <=> t \in wants[c])
    /\ \A t \in DOMAIN topic_clients : topic_clients[t] = <<>> =>
          \E c \in Conns : at[c] = "dropping" /\ local[c].topic = t

Inv ==
    /\ TypeOK /\ ThreadsOK
    /\ ~unlocked => HolderInv
    /\ ~unlocked /\ ~stopped => RegistryInv
-------------------------------------------------------------------------------
\* The variables of a thread that is removing nothing.
LEMMA IdleType == Idle \in Local /\ Idle.who = Free /\ Idle.todo = {}
BY DEF Idle, Local

\* A list is one of connections, whether the topic has one or not.
LEMMA ListType ==
    ASSUME TypeOK
    PROVE  \A t : ListOf(t) \in Seq(Conns)
BY DEF TypeOK, ListOf

\* A list put under one topic leaves the others as they are.
LEMMA PutType ==
    ASSUME TypeOK, NEW t \in Topics, NEW list \in Seq(Conns), topic_clients' = Put(t, list)
    PROVE  /\ DOMAIN topic_clients' \subseteq Topics
           /\ \A u \in DOMAIN topic_clients' : topic_clients'[u] \in Seq(Conns)
           /\ \A u \in Topics : ListOf(u)' = IF u = t THEN list ELSE ListOf(u)
           /\ DOMAIN topic_clients' = DOMAIN topic_clients \union {t}
<1>1. /\ DOMAIN topic_clients' = DOMAIN topic_clients \union {t}
      /\ \A u \in DOMAIN topic_clients' : topic_clients'[u] = IF u = t THEN list ELSE topic_clients[u]
  BY DEF Put
<1>2. QED
  BY <1>1 DEF TypeOK, ListOf

\* At first nothing is connected.
LEMMA InitInv == Init => Inv
<1> SUFFICES ASSUME Init PROVE Inv
  OBVIOUS
<1>1. DOMAIN topic_clients = {} /\ \A t : ListOf(t) = <<>>
  BY DEF Init, ListOf
<1>2. \A t : Range(ListOf(t)) = {}
  BY <1>1 DEF Range
<1>3. /\ at \in [Conns -> Places] /\ local \in [Conns -> Local]
      /\ \A c \in Conns : at[c] = "none" /\ local[c] = Idle /\ wants[c] = {}
  BY IdleType DEF Init, Places
<1>4. TypeOK
  <2>1. \A c \in Conns : local[c].targets \in Seq(Conns) /\ local[c].keep \in Seq(Conns)
    BY <1>3 DEF Local
  <2>2. QED
    BY <1>1, <2>1 DEF Init, TypeOK
<1>5. ThreadsOK
  BY <1>3 DEF ThreadsOK
<1>6. HolderInv
  BY <1>3, IdleType, ServerAssumption DEF Init, HolderInv, HolderOf, Removing
<1>7. RegistryInv
  BY <1>1, <1>2, <1>3 DEF RegistryInv
<1>8. QED
  BY <1>4, <1>5, <1>6, <1>7 DEF Inv

-------------------------------------------------------------------------------
\* The steps of the accept thread and of the threads that start and stop the server.
ServerStep ==
    \/ \E c \in Conns : Connect(c) \/ ClientGoes(c)
    \/ Start \/ StartFails \/ StopSet \/ StopClears \/ AcceptEnds

\* What connection c's thread does with the lock free or without it.
LoopStep(c) ==
    \/ \E t \in Topics : Publish(c, t) \/ Subscribe(c, t) \/ Unsubscribe(c, t)
    \/ Accepted(c) \/ Loops(c) \/ Sends(c) \/ SendFails(c) \/ Ends(c) \/ FinallyRemoves(c)

\* What it does in a removal.
RemovalStep(c) ==
    \/ TestsClients(c) \/ Unlists(c) \/ (\E t \in Topics : Filters(c, t))
    \/ Writes(c) \/ DropsEmpty(c) \/ Returns(c) \/ Crashes(c)

\* A step is the server's, a thread's in its loop, or a thread's in a removal.
LEMMA StepCases ==
    ASSUME [Next]_vars
    PROVE  ServerStep \/ (\E c \in Conns : LoopStep(c) \/ RemovalStep(c)) \/ UNCHANGED vars
BY DEF Next, ThreadStep, ServerStep, LoopStep, RemovalStep

\* The server's own steps keep the types.
LEMMA ServerTypes ==
    ASSUME TypeOK, ThreadsOK, ServerStep
    PROVE  TypeOK' /\ ThreadsOK'
<1>1. ASSUME NEW c \in Conns, Connect(c) PROVE TypeOK' /\ ThreadsOK'
  BY <1>1 DEF Connect, TypeOK, ThreadsOK, Goes, registry, history, Places
<1>2. ASSUME NEW c \in Conns, ClientGoes(c) PROVE TypeOK' /\ ThreadsOK'
  BY <1>2 DEF ClientGoes, TypeOK, ThreadsOK, registry, history
<1>3. CASE Start
  BY <1>3 DEF Start, TypeOK, ThreadsOK, registry, history
<1>4. CASE StartFails
  BY <1>4 DEF StartFails, TypeOK, ThreadsOK, registry, history
<1>5. CASE StopSet
  BY <1>5 DEF StopSet, TypeOK, ThreadsOK, registry, history
<1>6. CASE StopClears
  BY <1>6 DEF StopClears, TypeOK, ThreadsOK, registry, history
<1>7. CASE AcceptEnds
  BY <1>7 DEF AcceptEnds, TypeOK, ThreadsOK, registry, history
<1>8. QED
  BY <1>1, <1>2, <1>3, <1>4, <1>5, <1>6, <1>7 DEF ServerStep

\* The thread of c goes to a place with these variables.
MovesTo(c, place, mine) ==
    /\ place \in Places /\ mine \in Local
    /\ at' = [at EXCEPT ![c] = place] /\ local' = [local EXCEPT ![c] = mine]
    /\ place = "writing" => mine.topic \in Topics

\* So does a thread that goes to another place, which leaves the other threads alone.
LEMMA ThreadGoes ==
    ASSUME TypeOK, ThreadsOK, NEW c \in Conns, NEW place, NEW mine, MovesTo(c, place, mine)
    PROVE  /\ ThreadsOK' /\ at'[c] = place /\ local'[c] = mine
           /\ \A d \in Conns \ {c} : at'[d] = at[d] /\ local'[d] = local[d]
           /\ \A d \in Conns : local'[d].targets \in Seq(Conns) /\ local'[d].keep \in Seq(Conns)
<1>1. /\ at'[c] = place /\ local'[c] = mine
      /\ \A d \in Conns \ {c} : at'[d] = at[d] /\ local'[d] = local[d]
      /\ at' \in [Conns -> Places] /\ local' \in [Conns -> Local]
  BY DEF ThreadsOK, MovesTo
<1>2. \A d \in Conns : at'[d] = "writing" => local'[d].topic \in Topics
  BY <1>1 DEF ThreadsOK, MovesTo
<1>3. \A d \in Conns : local'[d].targets \in Seq(Conns) /\ local'[d].keep \in Seq(Conns)
  BY <1>1 DEF Local
<1>4. QED
  BY <1>1, <1>2, <1>3 DEF ThreadsOK

\* Where each step takes its thread and what it does to the thread's variables.
LEMMA LoopMoves ==
    ASSUME TypeOK, ThreadsOK, NEW c \in Conns, LoopStep(c)
    PROVE  \E place, mine : MovesTo(c, place, mine)
<1>1. local[c] \in Local /\ local = [local EXCEPT ![c] = local[c]] /\ at[c] \in Places
  BY DEF ThreadsOK
<1>2. {"looping", "reading", "sending", "closed", "testing", "writing"} \subseteq Places
  BY DEF Places, Removing
<1>3. ASSUME NEW t \in Topics, Publish(c, t) PROVE \E place, mine : MovesTo(c, place, mine)
  <2>1. ListOf(t) \in Seq(Conns)
    BY ListType
  <2>2. [local[c] EXCEPT !.targets = ListOf(t)] \in Local
    BY <1>1, <2>1 DEF Local
  <2>3. MovesTo(c, "sending", [local[c] EXCEPT !.targets = ListOf(t)])
    BY <1>2, <1>3, <2>2 DEF Publish, Goes, MovesTo
  <2>4. QED
    BY <2>3
<1>4. ASSUME NEW t \in Topics, Subscribe(c, t) PROVE \E place, mine : MovesTo(c, place, mine)
  <2>1. MovesTo(c, "looping", local[c])
    BY <1>1, <1>2, <1>4 DEF Subscribe, Goes, MovesTo
  <2>2. QED
    BY <2>1
<1>5. ASSUME NEW t \in Topics, Unsubscribe(c, t) PROVE \E place, mine : MovesTo(c, place, mine)
  <2> DEFINE mine == [local[c] EXCEPT !.topic = t, !.keep = Without(ListOf(t), c)]
  <2>1. Without(ListOf(t), c) \in Seq(Conns)
    BY ListType, WithoutSound
  <2>2. mine \in Local /\ mine.topic = t
    BY <1>1, <2>1 DEF Local
  <2>3. local' = [local EXCEPT ![c] = mine] /\ at' = [at EXCEPT ![c] = "writing"]
    BY <1>5 DEF Unsubscribe, Goes
  <2> HIDE DEF mine
  <2>4. MovesTo(c, "writing", mine)
    BY <1>2, <2>2, <2>3 DEF MovesTo
  <2>5. QED
    BY <2>4
<1>6. ASSUME NEW place \in {"looping", "reading"}, Goes(c, place), UNCHANGED local
      PROVE  \E p, mine : MovesTo(c, p, mine)
  <2>1. MovesTo(c, place, local[c])
    BY <1>1, <1>2, <1>6 DEF Goes, MovesTo
  <2>2. QED
    BY <2>1
<1>7. ASSUME Sends(c), local[c].targets # <<>> PROVE \E place, mine : MovesTo(c, place, mine)
  <2>1. Tail(local[c].targets) \in Seq(Conns)
    BY <1>1, <1>7 DEF Local
  <2>2. [local[c] EXCEPT !.targets = Tail(local[c].targets)] \in Local
    BY <1>1, <2>1 DEF Local
  <2>3. /\ local' = [local EXCEPT ![c] = [local[c] EXCEPT !.targets = Tail(local[c].targets)]]
        /\ at' = [at EXCEPT ![c] = at[c]] /\ at[c] = "sending"
    BY <1>7 DEF Sends, ThreadsOK
  <2>4. MovesTo(c, at[c], [local[c] EXCEPT !.targets = Tail(local[c].targets)])
    BY <1>1, <2>2, <2>3 DEF MovesTo
  <2>5. QED
    BY <2>4
<1>8. ASSUME SendFails(c) PROVE \E place, mine : MovesTo(c, place, mine)
  <2> DEFINE targets == local[c].targets
             mine == [local[c] EXCEPT !.targets = Tail(targets), !.who = Head(targets)]
  <2>1. targets \in Seq(Conns) /\ targets # <<>>
    BY <1>1, <1>8 DEF SendFails, Local
  <2>2. Tail(targets) \in Seq(Conns) /\ Head(targets) \in Conns
    BY <2>1
  <2>3. mine \in Local
    BY <1>1, <2>2 DEF Local
  <2>4. local' = [local EXCEPT ![c] = mine] /\ at' = [at EXCEPT ![c] = "testing"]
    BY <1>8 DEF SendFails, Goes
  <2> HIDE DEF mine
  <2>5. MovesTo(c, "testing", mine)
    BY <1>2, <2>3, <2>4 DEF MovesTo
  <2>6. QED
    BY <2>5
<1>9. ASSUME Ends(c) PROVE \E place, mine : MovesTo(c, place, mine)
  <2>1. MovesTo(c, "closed", Idle)
    BY <1>2, <1>9, IdleType DEF Ends, Goes, MovesTo
  <2>2. QED
    BY <2>1
<1>10. ASSUME FinallyRemoves(c) PROVE \E place, mine : MovesTo(c, place, mine)
  <2>1. [local[c] EXCEPT !.who = c] \in Local
    BY <1>1 DEF Local
  <2>2. MovesTo(c, "testing", [local[c] EXCEPT !.who = c])
    BY <1>2, <1>10, <2>1 DEF FinallyRemoves, Goes, MovesTo
  <2>3. QED
    BY <2>2
<1>11. QED
  BY <1>3, <1>4, <1>5, <1>6, <1>7, <1>8, <1>9, <1>10 DEF LoopStep, Accepted, Loops, Sends

\* The steps of a removal take the thread to another place.
LEMMA RemovalMoves ==
    ASSUME TypeOK, ThreadsOK, NEW c \in Conns, RemovalStep(c)
    PROVE  \E place, mine : MovesTo(c, place, mine)
<1>1. local[c] \in Local /\ local = [local EXCEPT ![c] = local[c]]
  BY DEF ThreadsOK
<1>2. {"unlisting", "filtering", "writing", "dropping", "sending", "dead", "looping", "raised"}
      \subseteq Places
  BY DEF Places, Removing
<1>3. ASSUME Goes(c, "filtering"), local' = [local EXCEPT ![c].todo = DOMAIN topic_clients]
      PROVE  \E place, mine : MovesTo(c, place, mine)
  <2>1. [local[c] EXCEPT !.todo = DOMAIN topic_clients] \in Local
    BY <1>1 DEF Local, TypeOK
  <2>2. MovesTo(c, "filtering", [local[c] EXCEPT !.todo = DOMAIN topic_clients])
    BY <1>2, <1>3, <2>1 DEF Goes, MovesTo
  <2>3. QED
    BY <2>2
<1>4. ASSUME NEW place \in {"unlisting", "dropping"}, Goes(c, place), UNCHANGED local
      PROVE  \E p, mine : MovesTo(c, p, mine)
  <2>1. MovesTo(c, place, local[c])
    BY <1>1, <1>2, <1>4 DEF Goes, MovesTo
  <2>2. QED
    BY <2>1
<1>5. ASSUME NEW t \in Topics, Filters(c, t) PROVE \E place, mine : MovesTo(c, place, mine)
  <2> DEFINE mine == [local[c] EXCEPT !.todo = @ \ {t}, !.topic = t,
                                      !.keep = Without(topic_clients[t], local[c].who)]
  <2>1. Without(topic_clients[t], local[c].who) \in Seq(Conns)
    BY <1>5, WithoutSound DEF Filters, TypeOK
  <2>2. mine \in Local /\ mine.topic = t
    BY <1>1, <2>1 DEF Local
  <2>3. local' = [local EXCEPT ![c] = mine] /\ at' = [at EXCEPT ![c] = "writing"]
    BY <1>5 DEF Filters, Goes
  <2> HIDE DEF mine
  <2>4. MovesTo(c, "writing", mine)
    BY <1>2, <2>2, <2>3 DEF MovesTo
  <2>5. QED
    BY <2>4
<1>6. ASSUME DropsEmpty(c) PROVE \E place, mine : MovesTo(c, place, mine)
  <2>1. <<>> \in Seq(Conns)
    OBVIOUS
  <2>2. [local[c] EXCEPT !.topic = Free, !.keep = <<>>] \in Local
    BY <1>1, <2>1 DEF Local
  <2>3. MovesTo(c, "filtering", [local[c] EXCEPT !.topic = Free, !.keep = <<>>])
    BY <1>2, <1>6, <2>2 DEF DropsEmpty, Goes, MovesTo
  <2>4. QED
    BY <2>3
<1>7. ASSUME NEW place \in {"sending", "dead", "looping", "raised"}, Over(c, place)
      PROVE  \E p, mine : MovesTo(c, p, mine)
  <2>1. [Idle EXCEPT !.targets = local[c].targets] \in Local
    BY <1>1, IdleType DEF Local
  <2>2. MovesTo(c, place, [Idle EXCEPT !.targets = local[c].targets])
    BY <1>2, <1>7, <2>1 DEF Over, Goes, MovesTo
  <2>3. QED
    BY <2>2
<1>8. Calls(c) \in {"sending", "dead", "looping", "raised"}
  BY DEF Calls
<1>9. QED
  BY <1>3, <1>4, <1>5, <1>6, <1>7, <1>8
  DEF RemovalStep, TestsClients, Unlists, Writes, Returns, Crashes

\* Every step keeps the types.
LEMMA StepTypes ==
    ASSUME TypeOK, ThreadsOK, [Next]_vars
    PROVE  /\ TypeOK' /\ ThreadsOK'
           /\ \A c \in Conns : LoopStep(c) \/ RemovalStep(c) =>
                 \A d \in Conns \ {c} : at'[d] = at[d] /\ local'[d] = local[d]
<1>1. ASSUME NEW c \in Conns, LoopStep(c) \/ RemovalStep(c)
      PROVE  /\ ThreadsOK'
             /\ \A d \in Conns \ {c} : at'[d] = at[d] /\ local'[d] = local[d]
             /\ \A d \in Conns : local'[d].targets \in Seq(Conns) /\ local'[d].keep \in Seq(Conns)
  BY <1>1, LoopMoves, RemovalMoves, ThreadGoes
<1>2. ASSUME NEW c \in Conns, LoopStep(c)
      PROVE  /\ listening' \in {"none", "open", "unbound"}
             /\ {stopped', accepting', unlocked', crashed'} \subseteq BOOLEAN
             /\ lock' \in Conns \union {Free} /\ clients' \subseteq Conns
             /\ DOMAIN topic_clients' \subseteq Topics
             /\ \A t \in DOMAIN topic_clients' : topic_clients'[t] \in Seq(Conns)
             /\ sock' \in [Conns -> {"none", "open", "broken", "closed"}]
             /\ wants' \in [Conns -> SUBSET Topics]
  <2>1. ASSUME NEW t \in Topics, Subscribe(c, t)
        PROVE  /\ DOMAIN topic_clients' \subseteq Topics
               /\ \A u \in DOMAIN topic_clients' : topic_clients'[u] \in Seq(Conns)
    <3>1. Append(ListOf(t), c) \in Seq(Conns)
      BY ListType
    <3>2. QED
      BY <2>1, <3>1, PutType DEF Subscribe
  <2>2. ASSUME NEW t \in Topics, Subscribe(c, t) PROVE wants' \in [Conns -> SUBSET Topics]
    BY <2>2 DEF Subscribe, TypeOK
  <2>3. ASSUME NEW t \in Topics, Publish(c, t) \/ Unsubscribe(c, t)
        PROVE  wants' \in [Conns -> SUBSET Topics]
    BY <2>3 DEF Publish, Unsubscribe, TypeOK, history
  <2>4. CASE \E t \in Topics : Publish(c, t) \/ Subscribe(c, t) \/ Unsubscribe(c, t)
    BY <2>1, <2>2, <2>3, <2>4 DEF Publish, Subscribe, Unsubscribe, TypeOK, history, registry
  <2>5. CASE Accepted(c)
    BY <2>5 DEF Accepted, TypeOK, history
  <2>6. CASE Loops(c) \/ Sends(c) \/ SendFails(c)
    BY <2>6 DEF Loops, Sends, SendFails, TypeOK, history, registry
  <2>7. CASE Ends(c) \/ FinallyRemoves(c)
    BY <2>7 DEF Ends, FinallyRemoves, TypeOK, history, registry
  <2>8. QED
    BY <1>2, <2>4, <2>5, <2>6, <2>7 DEF LoopStep
<1>3. ASSUME NEW c \in Conns, RemovalStep(c)
      PROVE  /\ listening' \in {"none", "open", "unbound"}
             /\ {stopped', accepting', unlocked', crashed'} \subseteq BOOLEAN
             /\ lock' \in Conns \union {Free} /\ clients' \subseteq Conns
             /\ DOMAIN topic_clients' \subseteq Topics
             /\ \A t \in DOMAIN topic_clients' : topic_clients'[t] \in Seq(Conns)
             /\ sock' \in [Conns -> {"none", "open", "broken", "closed"}]
             /\ wants' \in [Conns -> SUBSET Topics]
  <2>1. CASE TestsClients(c) \/ Unlists(c) \/ \E t \in Topics : Filters(c, t)
    BY <2>1 DEF TestsClients, Unlists, Filters, TypeOK, history, registry
  <2>2. CASE Writes(c)
    <3>1. local[c].topic \in Topics /\ local[c].keep \in Seq(Conns)
      BY <2>2 DEF Writes, ThreadsOK, TypeOK
    <3>2. QED
      BY <2>2, <3>1, PutType DEF Writes, TypeOK, history
  <2>3. CASE DropsEmpty(c)
    BY <2>3 DEF DropsEmpty, Restrict, TypeOK, history
  <2>4. CASE Returns(c) \/ Crashes(c)
    BY <2>4 DEF Returns, Crashes, Over, TypeOK, registry
  <2>5. QED
    BY <1>3, <2>1, <2>2, <2>3, <2>4 DEF RemovalStep
<1>4. CASE ServerStep
  BY <1>1, <1>4, ServerTypes
<1>5. CASE UNCHANGED vars
  BY <1>1, <1>5 DEF vars, registry, history, TypeOK, ThreadsOK
<1>6. CASE \E c \in Conns : LoopStep(c) \/ RemovalStep(c)
  BY <1>1, <1>2, <1>3, <1>6 DEF TypeOK
<1>7. QED
  BY <1>1, <1>4, <1>5, <1>6, StepCases

-------------------------------------------------------------------------------
\* A thread that does not hold the lock and gives nothing of the registry away.
LEMMA FreeThreadKeepsHolders ==
    ASSUME HolderInv, NEW c \in Conns, lock # c, at'[c] \notin Removing,
           local'[c].who = Free, local'[c].todo = {},
           \A d \in Conns \ {c} : at'[d] = at[d] /\ local'[d] = local[d],
           UNCHANGED <<lock, registry, wants, crashed>>
    PROVE  HolderInv'
<1>1. ASSUME NEW d \in Conns PROVE HolderOf(d)'
  <2>1. CASE d = c
    BY <2>1 DEF HolderOf
  <2>2. CASE d # c
    <3>1. \A t : ListOf(t)' = ListOf(t)
      BY DEF ListOf, registry
    <3>2. at'[d] = at[d] /\ local'[d] = local[d]
      BY <2>2
    <3>3. QED
      BY <3>1, <3>2 DEF HolderInv, HolderOf, registry
  <2>3. QED
    BY <2>1, <2>2
<1>2. QED
  BY <1>1 DEF HolderInv

\* One that takes the lock, has it or gives it back: nobody else holds it.
LEMMA HolderKeepsHolders ==
    ASSUME HolderInv, NEW c \in Conns, lock \in {Free, c}, lock' \in {Free, c},
           \A d \in Conns \ {c} : at'[d] = at[d] /\ local'[d] = local[d],
           UNCHANGED crashed, HolderOf(c)'
    PROVE  HolderInv'
<1>1. ASSUME NEW d \in Conns \ {c} PROVE HolderOf(d)'
  <2>1. lock # d /\ lock' # d
    BY ServerAssumption
  <2>2. HolderOf(d)
    BY DEF HolderInv
  <2>3. QED
    BY <2>1, <2>2 DEF HolderOf
<1>2. QED
  BY <1>1 DEF HolderInv

\* The lock's holder is where the code holds it: after the server's steps,
LEMMA ServerKeepsHolders ==
    ASSUME HolderInv, TypeOK, ThreadsOK, ServerStep
    PROVE  HolderInv'
<1>1. ASSUME NEW c \in Conns, Connect(c) PROVE HolderInv'
  <2>1. /\ at[c] = "none" /\ at' = [at EXCEPT ![c] = "accepted"]
        /\ UNCHANGED <<lock, registry, local, wants, crashed>>
    BY <1>1 DEF Connect, Goes, history
  <2>2. lock # c /\ local[c].who = Free /\ local[c].todo = {}
    BY <2>1 DEF HolderInv, HolderOf, Removing
  <2>3. at'[c] = "accepted" /\ \A d \in Conns \ {c} : at'[d] = at[d]
    BY <2>1 DEF ThreadsOK
  <2>4. QED
    BY <2>1, <2>2, <2>3, FreeThreadKeepsHolders DEF Removing
<1>2. CASE UNCHANGED <<lock, registry, at, local, history>>
  BY <1>2 DEF HolderInv, HolderOf, ListOf, registry, history
<1>3. CASE StopClears
  <2>1. lock = Free /\ UNCHANGED <<lock, at, local, history>>
    BY <1>3 DEF StopClears
  <2>2. \A c \in Conns : lock # c /\ lock' # c
    BY <2>1, ServerAssumption
  <2>3. QED
    BY <2>1, <2>2 DEF HolderInv, HolderOf, history
<1>4. QED
  BY <1>1, <1>2, <1>3 DEF ServerStep, ClientGoes, Start, StartFails, StopSet, AcceptEnds

\* after those of a loop,
LEMMA LoopKeepsHolders ==
    ASSUME HolderInv, TypeOK, ThreadsOK, NEW c \in Conns, LoopStep(c), ~unlocked',
           \A d \in Conns \ {c} : at'[d] = at[d] /\ local'[d] = local[d]
    PROVE  HolderInv'
<1>1. at[c] \notin Removing /\ lock # c /\ local[c].who = Free /\ local[c].todo = {}
  BY DEF LoopStep, Publish, Subscribe, Unsubscribe, Accepted, Loops, Sends, SendFails, Ends,
         FinallyRemoves, Removing, HolderInv, HolderOf
<1>2. local[c] \in Local /\ at \in [Conns -> Places] /\ local \in [Conns -> Local]
  BY DEF ThreadsOK
<1>3. ASSUME NEW t \in Topics, Publish(c, t) PROVE HolderInv'
  <2>1. /\ at'[c] = "sending" /\ local'[c] = [local[c] EXCEPT !.targets = ListOf(t)]
        /\ UNCHANGED <<lock, registry, wants, crashed>>
    BY <1>2, <1>3 DEF Publish, Goes, history
  <2>2. local'[c].who = Free /\ local'[c].todo = {}
    BY <1>1, <1>2, <2>1 DEF Local
  <2>3. QED
    BY <1>1, <2>1, <2>2, FreeThreadKeepsHolders DEF Removing
<1>4. ASSUME NEW t \in Topics, Subscribe(c, t) PROVE HolderInv'
  <2>1. /\ at'[c] = "looping" /\ local'[c] = local[c] /\ lock = Free /\ lock' = lock
        /\ UNCHANGED crashed
    BY <1>2, <1>4 DEF Subscribe, Goes
  <2>2. HolderOf(c)'
    BY <1>1, <2>1 DEF HolderOf, Removing
  <2>3. QED
    BY <2>1, <2>2, HolderKeepsHolders
<1>5. ASSUME NEW t \in Topics, Unsubscribe(c, t) PROVE HolderInv'
  <2>1. /\ at'[c] = "writing" /\ lock = Free /\ lock' = c
        /\ local'[c] = [local[c] EXCEPT !.topic = t, !.keep = Without(ListOf(t), c)]
        /\ wants'[c] = wants[c] \ {t} /\ UNCHANGED <<registry, crashed>>
    BY <1>2, <1>5 DEF Unsubscribe, Goes, TypeOK
  <2>2. /\ local'[c].who = Free /\ local'[c].todo = {} /\ local'[c].topic = t
        /\ local'[c].keep = Without(ListOf(t), c)
    BY <1>1, <1>2, <2>1 DEF Local
  <2>3. \A u : ListOf(u)' = ListOf(u)
    BY <2>1 DEF ListOf, registry
  <2>4. HolderOf(c)'
    BY <2>1, <2>2, <2>3 DEF HolderOf, Removing
  <2>5. QED
    BY <2>1, <2>4, HolderKeepsHolders
<1>6. CASE Accepted(c)
  <2>1. /\ at'[c] = "looping" /\ local'[c] = local[c] /\ lock = Free /\ lock' = lock
        /\ UNCHANGED crashed
    BY <1>2, <1>6 DEF Accepted, Goes, history
  <2>2. HolderOf(c)'
    BY <1>1, <2>1 DEF HolderOf, Removing
  <2>3. QED
    BY <2>1, <2>2, HolderKeepsHolders
<1>7. CASE Loops(c) \/ Sends(c) \/ Ends(c)
  <2>1. UNCHANGED <<lock, registry, wants, crashed>>
    BY <1>7 DEF Loops, Sends, Ends, history
  <2>2. at'[c] \notin Removing
    BY <1>1, <1>2, <1>7 DEF Loops, Sends, Ends, Goes, Removing
  <2>3. local'[c].who = Free /\ local'[c].todo = {}
    <3>1. CASE local'[c] = local[c]
      BY <1>1, <3>1
    <3>2. CASE local'[c] = [local[c] EXCEPT !.targets = Tail(local[c].targets)]
      BY <1>1, <1>2, <3>2 DEF Local
    <3>3. CASE local'[c] = Idle
      BY <3>3, IdleType
    <3>4. QED
      BY <1>2, <1>7, <3>1, <3>2, <3>3 DEF Loops, Sends, Ends
  <2>4. QED
    BY <1>1, <2>1, <2>2, <2>3, FreeThreadKeepsHolders
<1>8. CASE FinallyRemoves(c)
  <2>1. /\ at'[c] = "testing" /\ lock = Free /\ lock' = c
        /\ local'[c] = [local[c] EXCEPT !.who = c]
        /\ wants'[c] = {} /\ UNCHANGED <<registry, crashed>>
    BY <1>2, <1>8 DEF FinallyRemoves, Goes, TypeOK
  <2>2. local'[c].who = c /\ local'[c].todo = {}
    BY <1>1, <1>2, <2>1 DEF Local
  <2>3. HolderOf(c)'
    BY <2>1, <2>2 DEF HolderOf, Removing
  <2>4. QED
    BY <2>1, <2>3, HolderKeepsHolders
<1>9. ~SendFails(c)
  BY DEF SendFails
<1>10. QED
  BY <1>3, <1>4, <1>5, <1>6, <1>7, <1>8, <1>9 DEF LoopStep

\* The thread of a removal holds the lock, and nothing it has read has vanished.
LEMMA RemovalHolds ==
    ASSUME HolderInv, NEW c \in Conns, RemovalStep(c)
    PROVE  lock = c /\ ~Vanished(c)
<1>1. at[c] \in Removing
  BY DEF RemovalStep, TestsClients, Unlists, Filters, Writes, DropsEmpty, Returns, Crashes,
         Vanished, Removing
<1>2. lock = c /\ HolderOf(c)
  BY <1>1 DEF HolderInv, HolderOf
<1>3. ~Vanished(c)
  BY <1>2 DEF HolderOf, Vanished
<1>4. QED
  BY <1>2, <1>3

\* and after those of a removal.
LEMMA RemovalKeepsHolders ==
    ASSUME HolderInv, TypeOK, ThreadsOK, NEW c \in Conns, RemovalStep(c),
           \A d \in Conns \ {c} : at'[d] = at[d] /\ local'[d] = local[d]
    PROVE  HolderInv'
<1>1. lock = c /\ ~Vanished(c) /\ HolderOf(c)
  BY RemovalHolds DEF HolderInv
<1>2. local[c] \in Local /\ at \in [Conns -> Places] /\ local \in [Conns -> Local]
  BY DEF ThreadsOK
<1>3. CASE TestsClients(c)
  <2>1. /\ at[c] = "testing" /\ lock' = lock /\ UNCHANGED <<registry, wants, crashed>>
        /\ local[c].who = c /\ wants[c] = {}
    BY <1>1, <1>3 DEF TestsClients, history, HolderOf
  <2>2. CASE c \in clients
    <3>1. at'[c] = "unlisting" /\ local' = local
      BY <1>2, <1>3, <2>1, <2>2 DEF TestsClients, Goes
    <3>2. HolderOf(c)'
      BY <1>1, <2>1, <2>2, <3>1 DEF HolderOf, Removing, registry
    <3>3. QED
      BY <1>1, <2>1, <3>2, HolderKeepsHolders
  <2>3. CASE c \notin clients
    <3>1. at'[c] = "filtering" /\ local'[c] = [local[c] EXCEPT !.todo = DOMAIN topic_clients]
      BY <1>2, <1>3, <2>1, <2>3 DEF TestsClients, Goes
    <3>2. local'[c].who = c /\ local'[c].todo = DOMAIN topic_clients
      BY <1>2, <2>1, <3>1 DEF Local
    <3>3. HolderOf(c)'
      BY <1>1, <2>1, <3>1, <3>2 DEF HolderOf, Removing, registry
    <3>4. QED
      BY <1>1, <2>1, <3>3, HolderKeepsHolders
  <2>4. QED
    BY <2>2, <2>3
<1>4. CASE Unlists(c)
  <2>1. /\ at'[c] = "filtering" /\ local'[c] = [local[c] EXCEPT !.todo = DOMAIN topic_clients]
        /\ lock' = lock /\ UNCHANGED <<topic_clients, wants, crashed>>
        /\ local[c].who = c /\ wants[c] = {}
    BY <1>1, <1>2, <1>4 DEF Unlists, Goes, history, HolderOf
  <2>2. local'[c].who = c /\ local'[c].todo = DOMAIN topic_clients
    BY <1>2, <2>1 DEF Local
  <2>3. HolderOf(c)'
    BY <1>1, <2>1, <2>2 DEF HolderOf, Removing
  <2>4. QED
    BY <1>1, <2>1, <2>3, HolderKeepsHolders
<1>5. ASSUME NEW t \in Topics, Filters(c, t) PROVE HolderInv'
  <2>1. /\ at[c] = "filtering" /\ at'[c] = "writing" /\ t \in local[c].todo
        /\ local'[c] = [local[c] EXCEPT !.todo = @ \ {t}, !.topic = t,
                                        !.keep = Without(topic_clients[t], local[c].who)]
        /\ lock' = lock /\ UNCHANGED <<registry, wants, crashed>>
    BY <1>2, <1>5 DEF Filters, Goes, history
  <2>2. local[c].who = c /\ wants[c] = {}
    BY <1>1, <2>1 DEF HolderOf
  <2>3. /\ local'[c].who = c /\ local'[c].todo = local[c].todo \ {t} /\ local'[c].topic = t
        /\ local'[c].keep = Without(topic_clients[t], c)
    BY <1>2, <2>1, <2>2 DEF Local
  <2>4. ListOf(t)' = topic_clients[t] /\ t \in DOMAIN topic_clients
    BY <1>5, <2>1 DEF ListOf, registry, Filters
  <2>5. HolderOf(c)'
    BY <1>1, <2>1, <2>2, <2>3, <2>4 DEF HolderOf, Removing, registry
  <2>6. QED
    BY <1>1, <2>1, <2>5, HolderKeepsHolders
<1>6. CASE Writes(c)
  <2>1. /\ at[c] = "writing" /\ at'[c] = "dropping" /\ local' = local
        /\ lock' = lock /\ UNCHANGED <<clients, wants, crashed>>
        /\ DOMAIN topic_clients' = DOMAIN topic_clients \union {local[c].topic}
    BY <1>2, <1>6 DEF Writes, Goes, history, Put
  <2>2. HolderOf(c)'
    BY <1>1, <2>1 DEF HolderOf, Removing
  <2>3. QED
    BY <1>1, <2>1, <2>2, HolderKeepsHolders
<1>7. CASE DropsEmpty(c)
  <2>1. /\ at[c] = "dropping" /\ at'[c] = "filtering"
        /\ local'[c] = [local[c] EXCEPT !.topic = Free, !.keep = <<>>]
        /\ lock' = lock /\ UNCHANGED <<clients, wants, crashed>>
        /\ DOMAIN topic_clients \ {local[c].topic} \subseteq DOMAIN topic_clients'
    BY <1>2, <1>7 DEF DropsEmpty, Goes, history, Restrict
  <2>2. local'[c].who = local[c].who /\ local'[c].todo = local[c].todo
    BY <1>2, <2>1 DEF Local
  <2>3. HolderOf(c)'
    BY <1>1, <2>1, <2>2 DEF HolderOf, Removing
  <2>4. QED
    BY <1>1, <2>1, <2>3, HolderKeepsHolders
<1>8. CASE Returns(c)
  <2>1. /\ at'[c] \in {"dead", "looping"} /\ lock' = Free /\ UNCHANGED crashed
        /\ local'[c] = [Idle EXCEPT !.targets = local[c].targets]
    BY <1>1, <1>2, <1>8 DEF Returns, Over, Goes, Calls
  <2>2. local'[c].who = Free /\ local'[c].todo = {}
    BY <2>1, IdleType DEF Local
  <2>3. HolderOf(c)'
    BY <2>1, <2>2, ServerAssumption DEF HolderOf, Removing
  <2>4. QED
    BY <1>1, <2>1, <2>3, HolderKeepsHolders
<1>9. ~Crashes(c)
  BY <1>1 DEF Crashes
<1>10. QED
  BY <1>3, <1>4, <1>5, <1>6, <1>7, <1>8, <1>9 DEF RemovalStep

-------------------------------------------------------------------------------
\* Whoever is not in the middle of a removal has nothing to take out.
LEMMA OnlyHolderPends ==
    ASSUME HolderInv, NEW c \in Conns, lock # c
    PROVE  Pending(c) = {}
BY DEF HolderInv, HolderOf, Pending, Removing

\* With the registry and what the connections want unchanged, a step that leaves a thread
\* no more than it had to take out, and none of the lists it has to drop, keeps it exact.
LEMMA SameRegistry ==
    ASSUME RegistryInv, NEW c \in Conns, UNCHANGED <<topic_clients, wants>>,
           \A d \in Conns \ {c} : at'[d] = at[d] /\ local'[d] = local[d],
           at[c] # "dropping",
           \A t \in Topics : t \notin Pending(c)' =>
              t \notin Pending(c) \/ (c \notin Range(ListOf(t)) /\ t \notin wants[c])
    PROVE  RegistryInv'
<1>1. \A t : ListOf(t)' = ListOf(t)
  BY DEF ListOf
<1>2. \A d \in Conns \ {c} : Pending(d)' = Pending(d)
  BY DEF Pending
<1>3. ASSUME NEW t \in Topics, NEW d \in Conns, t \notin Pending(d)'
      PROVE  d \in Range(ListOf(t)') <=> t \in wants'[d]
  <2>1. CASE d = c
    BY <1>1, <1>3, <2>1 DEF RegistryInv
  <2>2. CASE d # c
    BY <1>1, <1>2, <1>3, <2>2 DEF RegistryInv
  <2>3. QED
    BY <2>1, <2>2
<1>4. ASSUME NEW t \in DOMAIN topic_clients, topic_clients[t] = <<>>
      PROVE  \E d \in Conns : at'[d] = "dropping" /\ local'[d].topic = t
  <2>1. PICK d \in Conns : at[d] = "dropping" /\ local[d].topic = t
    BY <1>4 DEF RegistryInv
  <2>2. d # c
    BY <2>1
  <2>3. QED
    BY <2>1, <2>2
<1>5. QED
  BY <1>3, <1>4 DEF RegistryInv

\* The registry is as it should be: after the server's steps,
LEMMA ServerKeepsRegistry ==
    ASSUME HolderInv, RegistryInv, ThreadsOK, ServerStep, ~stopped'
    PROVE  RegistryInv'
<1>1. ASSUME NEW c \in Conns, Connect(c) PROVE RegistryInv'
  <2>1. /\ at[c] = "none" /\ at'[c] = "accepted" /\ \A d \in Conns \ {c} : at'[d] = at[d]
        /\ UNCHANGED <<local, topic_clients, wants>>
    BY <1>1 DEF Connect, Goes, history, registry, ThreadsOK
  <2>2. Pending(c) = {}
    BY <2>1 DEF Pending
  <2>3. QED
    BY <2>1, <2>2, SameRegistry
<1>2. CASE UNCHANGED <<registry, at, local, history>>
  BY <1>2 DEF RegistryInv, ListOf, Pending, registry, history
<1>3. ~StopClears
  BY DEF StopClears
<1>4. QED
  BY <1>1, <1>2, <1>3 DEF ServerStep, ClientGoes, Start, StartFails, StopSet, AcceptEnds

\* after those of a loop,
LEMMA LoopKeepsRegistry ==
    ASSUME HolderInv, RegistryInv, TypeOK, ThreadsOK, NEW c \in Conns, LoopStep(c), ~unlocked',
           \A d \in Conns \ {c} : at'[d] = at[d] /\ local'[d] = local[d]
    PROVE  RegistryInv'
<1>1. lock # c /\ at[c] \notin Removing
  BY DEF LoopStep, Publish, Subscribe, Unsubscribe, Accepted, Loops, Sends, SendFails, Ends,
         FinallyRemoves, Removing, HolderInv, HolderOf
<1>2. local[c] \in Local /\ at \in [Conns -> Places] /\ local \in [Conns -> Local]
  BY DEF ThreadsOK
<1>3. Pending(c) = {}
  BY <1>1, OnlyHolderPends
<1>4. ASSUME NEW t \in Topics, Subscribe(c, t) PROVE RegistryInv'
  <2>1. /\ topic_clients' = Put(t, Append(ListOf(t), c)) /\ lock = Free
        /\ wants' = [wants EXCEPT ![c] = wants[c] \union {t}]
        /\ at'[c] = "looping" /\ UNCHANGED local
    BY <1>2, <1>4 DEF Subscribe, Goes
  <2>2. ListOf(t) \in Seq(Conns)
    BY ListType
  <2>3. Append(ListOf(t), c) \in Seq(Conns) /\ Append(ListOf(t), c) # <<>>
    BY <2>2
  <2>4. Range(Append(ListOf(t), c)) = Range(ListOf(t)) \union {c}
    BY <2>2, AppendSound
  <2>5. \A u \in Topics : ListOf(u)' = IF u = t THEN Append(ListOf(t), c) ELSE ListOf(u)
    BY <2>1, <2>3, PutType
  <2>6. \A d \in Conns : Pending(d) = {}
    BY <2>1, OnlyHolderPends, ServerAssumption
  <2>7. \A d \in Conns : at[d] # "dropping"
    BY <2>1, ServerAssumption DEF HolderInv, HolderOf, Removing
  <2>8. ASSUME NEW u \in Topics, NEW d \in Conns
        PROVE  d \in Range(ListOf(u)') <=> u \in wants'[d]
    <3>1. d \in Range(ListOf(u)) <=> u \in wants[d]
      BY <2>6 DEF RegistryInv
    <3>2. wants'[d] = IF d = c THEN wants[c] \union {t} ELSE wants[d]
      BY <2>1 DEF TypeOK
    <3>3. CASE u = t
      BY <2>4, <2>5, <3>1, <3>2, <3>3
    <3>4. CASE u # t
      BY <2>5, <3>1, <3>2, <3>4
    <3>5. QED
      BY <3>3, <3>4
  <2>9. \A u \in DOMAIN topic_clients' : topic_clients'[u] # <<>>
    <3>1. \A u \in DOMAIN topic_clients : topic_clients[u] # <<>>
      BY <2>7 DEF RegistryInv
    <3>2. \A u \in DOMAIN topic_clients' : \/ u = t /\ topic_clients'[u] = Append(ListOf(t), c)
                                           \/ u \in DOMAIN topic_clients /\ topic_clients'[u] = topic_clients[u]
      BY <2>1 DEF Put
    <3>3. QED
      BY <2>3, <3>1, <3>2
  <2>10. QED
    BY <2>8, <2>9 DEF RegistryInv
<1>5. ASSUME NEW t \in Topics, Unsubscribe(c, t) PROVE RegistryInv'
  <2>1. /\ at'[c] = "writing" /\ lock = Free /\ UNCHANGED topic_clients
        /\ local'[c] = [local[c] EXCEPT !.topic = t, !.keep = Without(ListOf(t), c)]
        /\ wants' = [wants EXCEPT ![c] = wants[c] \ {t}]
    BY <1>2, <1>5 DEF Unsubscribe, Goes, registry
  <2>2. Pending(c)' = local'[c].todo \union {t}
    BY <1>2, <2>1 DEF Pending, Local
  <2>3. /\ \A d \in Conns : Pending(d) = {}
        /\ \A d \in Conns \ {c} : wants'[d] = wants[d]
        /\ wants'[c] = wants[c] \ {t}
    BY <2>1, OnlyHolderPends, ServerAssumption DEF TypeOK
  <2>4. \A u : ListOf(u)' = ListOf(u)
    BY <2>1 DEF ListOf
  <2>5. ASSUME NEW u \in Topics, NEW d \in Conns, u \notin Pending(d)'
        PROVE  d \in Range(ListOf(u)') <=> u \in wants'[d]
    <3>1. d \in Range(ListOf(u)) <=> u \in wants[d]
      BY <2>3 DEF RegistryInv
    <3>2. CASE d = c
      BY <2>2, <2>3, <2>4, <2>5, <3>1, <3>2
    <3>3. CASE d # c
      BY <2>3, <2>4, <3>1, <3>3
    <3>4. QED
      BY <3>2, <3>3
  <2>6. \A d \in Conns : at[d] # "dropping"
    BY <2>1, ServerAssumption DEF HolderInv, HolderOf, Removing
  <2>7. QED
    BY <2>1, <2>5, <2>6 DEF RegistryInv
<1>6. CASE FinallyRemoves(c)
  <2>1. /\ at'[c] = "testing" /\ lock = Free /\ UNCHANGED topic_clients
        /\ wants' = [wants EXCEPT ![c] = {}]
    BY <1>2, <1>6 DEF FinallyRemoves, Goes, registry
  <2>2. Pending(c)' = Topics
    BY <2>1 DEF Pending
  <2>3. \A u : ListOf(u)' = ListOf(u)
    BY <2>1 DEF ListOf
  <2>4. ASSUME NEW u \in Topics, NEW d \in Conns, u \notin Pending(d)'
        PROVE  d \in Range(ListOf(u)') <=> u \in wants'[d]
    <3>1. d # c
      BY <2>2, <2>4
    <3>2. Pending(d) = {} /\ wants'[d] = wants[d]
      BY <2>1, <3>1, OnlyHolderPends, ServerAssumption DEF TypeOK
    <3>3. QED
      BY <2>3, <3>2 DEF RegistryInv
  <2>5. \A d \in Conns : at[d] # "dropping"
    BY <2>1, ServerAssumption DEF HolderInv, HolderOf, Removing
  <2>6. QED
    BY <2>1, <2>4, <2>5 DEF RegistryInv
<1>7. ASSUME UNCHANGED <<topic_clients, wants>> PROVE RegistryInv'
  <2>1. at[c] # "dropping" /\ \A t \in Topics : t \notin Pending(c)
    BY <1>1, <1>3 DEF Removing
  <2>2. QED
    BY <1>7, <2>1, SameRegistry
<1>8. QED
  BY <1>4, <1>5, <1>6, <1>7
  DEF LoopStep, Publish, Accepted, Loops, Sends, SendFails, Ends, registry, history

\* and after those of a removal.
LEMMA RemovalKeepsRegistry ==
    ASSUME HolderInv, RegistryInv, TypeOK, ThreadsOK, NEW c \in Conns, RemovalStep(c),
           \A d \in Conns \ {c} : at'[d] = at[d] /\ local'[d] = local[d]
    PROVE  RegistryInv'
<1>1. lock = c /\ ~Vanished(c) /\ HolderOf(c)
  BY RemovalHolds DEF HolderInv
<1>2. local[c] \in Local /\ at \in [Conns -> Places] /\ local \in [Conns -> Local]
  BY DEF ThreadsOK
<1>3. \A d \in Conns \ {c} : Pending(d) = {} /\ Pending(d)' = {} /\ at[d] # "dropping"
  BY <1>1, OnlyHolderPends DEF Pending, HolderInv, HolderOf, Removing
<1>4. ASSUME wants[c] = {}, UNCHANGED <<topic_clients, wants>>, at[c] # "dropping",
             at'[c] = "filtering", local'[c] = [local[c] EXCEPT !.todo = DOMAIN topic_clients]
      PROVE  RegistryInv'
  <2>1. Pending(c)' = DOMAIN topic_clients
    BY <1>2, <1>4 DEF Pending, Local
  <2>2. \A t \in Topics : t \notin DOMAIN topic_clients => c \notin Range(ListOf(t))
    BY DEF ListOf, Range
  <2>3. QED
    BY <1>4, <2>1, <2>2, SameRegistry
<1>5. CASE TestsClients(c)
  <2>1. at[c] = "testing" /\ local[c].who = c /\ wants[c] = {} /\ UNCHANGED <<topic_clients, wants>>
    BY <1>1, <1>5 DEF TestsClients, HolderOf, registry, history
  <2>2. CASE c \in clients
    <3>1. at'[c] = "unlisting"
      BY <1>2, <1>5, <2>1, <2>2 DEF TestsClients, Goes
    <3>2. Pending(c)' = Topics /\ Pending(c) = Topics
      BY <2>1, <3>1 DEF Pending
    <3>3. QED
      BY <2>1, <3>2, SameRegistry
  <2>3. CASE c \notin clients
    BY <1>2, <1>4, <1>5, <2>1, <2>3 DEF TestsClients, Goes
  <2>4. QED
    BY <2>2, <2>3
<1>6. CASE Unlists(c)
  <2>1. at[c] = "unlisting" /\ wants[c] = {} /\ UNCHANGED <<topic_clients, wants>>
    BY <1>1, <1>6 DEF Unlists, HolderOf, history
  <2>2. QED
    BY <1>2, <1>4, <1>6, <2>1 DEF Unlists, Goes
<1>7. ASSUME NEW t \in Topics, Filters(c, t) PROVE RegistryInv'
  <2>1. /\ at[c] = "filtering" /\ at'[c] = "writing" /\ t \in local[c].todo
        /\ local'[c] = [local[c] EXCEPT !.todo = @ \ {t}, !.topic = t,
                                        !.keep = Without(topic_clients[t], local[c].who)]
        /\ UNCHANGED <<topic_clients, wants>>
    BY <1>2, <1>7 DEF Filters, Goes, history, registry
  <2>2. local'[c].todo = local[c].todo \ {t} /\ local'[c].topic = t
    BY <1>2, <2>1 DEF Local
  <2>3. Pending(c)' = Pending(c)
    BY <2>1, <2>2 DEF Pending
  <2>4. QED
    BY <2>1, <2>3, SameRegistry
<1>8. CASE Writes(c)
  <2> DEFINE t == local[c].topic
             list == Without(ListOf(t), c)
  <2>1. /\ at[c] = "writing" /\ at'[c] = "dropping" /\ t \in Topics /\ t \notin local[c].todo
        /\ t \notin wants[c] /\ topic_clients' = Put(t, list) /\ UNCHANGED <<local, wants>>
    BY <1>1, <1>2, <1>8 DEF Writes, Goes, history, HolderOf, ThreadsOK
  <2>2. list \in Seq(Conns) /\ Range(list) = Range(ListOf(t)) \ {c}
    BY ListType, WithoutSound
  <2> HIDE DEF list
  <2>3. \A u \in Topics : ListOf(u)' = IF u = t THEN list ELSE ListOf(u)
    BY <2>1, <2>2, PutType
  <2>4. Pending(c) = Pending(c)' \union {t}
    BY <2>1 DEF Pending
  <2>5. ASSUME NEW u \in Topics, NEW d \in Conns, u \notin Pending(d)'
        PROVE  d \in Range(ListOf(u)') <=> u \in wants'[d]
    <3>1. CASE d = c /\ u = t
      BY <2>1, <2>2, <2>3, <3>1
    <3>2. CASE d = c /\ u # t
      BY <2>1, <2>3, <2>4, <2>5, <3>2 DEF RegistryInv
    <3>3. CASE d # c
      <4>1. d \in Range(ListOf(u)) <=> u \in wants[d]
        BY <1>3, <3>3 DEF RegistryInv
      <4>2. QED
        BY <2>1, <2>2, <2>3, <3>3, <4>1
    <3>4. QED
      BY <3>1, <3>2, <3>3
  <2>6. ASSUME NEW u \in DOMAIN topic_clients', topic_clients'[u] = <<>>
        PROVE  at'[c] = "dropping" /\ local'[c].topic = u
    <3>1. \A v \in DOMAIN topic_clients : topic_clients[v] # <<>>
      BY <1>3, <2>1 DEF RegistryInv
    <3>2. u = t
      BY <2>1, <2>6, <3>1 DEF Put
    <3>3. QED
      BY <2>1, <3>2
  <2>7. QED
    BY <2>5, <2>6 DEF RegistryInv
<1>9. CASE DropsEmpty(c)
  <2> DEFINE t == local[c].topic
  <2>1. /\ at[c] = "dropping" /\ at'[c] = "filtering" /\ UNCHANGED wants
        /\ local'[c] = [local[c] EXCEPT !.topic = Free, !.keep = <<>>]
        /\ t \in DOMAIN topic_clients
    BY <1>2, <1>9 DEF DropsEmpty, Goes, history
  <2>2. Pending(c)' = Pending(c)
    BY <1>2, <2>1 DEF Pending, Local
  <2>3. \/ topic_clients[t] # <<>> /\ topic_clients' = topic_clients
        \/ /\ topic_clients[t] = <<>> /\ DOMAIN topic_clients' = DOMAIN topic_clients \ {t}
           /\ \A u \in DOMAIN topic_clients' : topic_clients'[u] = topic_clients[u]
    BY <1>9 DEF DropsEmpty, Restrict
  <2>4. \A u : ListOf(u)' = ListOf(u)
    BY <2>1, <2>3 DEF ListOf
  <2>5. ASSUME NEW u \in Topics, NEW d \in Conns, u \notin Pending(d)'
        PROVE  d \in Range(ListOf(u)') <=> u \in wants'[d]
    BY <1>3, <2>1, <2>2, <2>4, <2>5 DEF RegistryInv
  <2>6. \A u \in DOMAIN topic_clients' : topic_clients'[u] # <<>>
    <3>1. \A u \in DOMAIN topic_clients : u # t => topic_clients[u] # <<>>
      BY <1>3 DEF RegistryInv
    <3>2. QED
      BY <2>3, <3>1
  <2>7. QED
    BY <2>5, <2>6 DEF RegistryInv
<1>10. CASE Returns(c)
  <2>1. /\ at[c] = "filtering" /\ local[c].todo = {} /\ UNCHANGED <<topic_clients, wants>>
    BY <1>10 DEF Returns, Over, registry
  <2>2. Pending(c) = {}
    BY <2>1 DEF Pending
  <2>3. QED
    BY <2>1, <2>2, SameRegistry
<1>11. ~Crashes(c)
  BY <1>1 DEF Crashes
<1>12. QED
  BY <1>5, <1>6, <1>7, <1>8, <1>9, <1>10, <1>11 DEF RemovalStep

-------------------------------------------------------------------------------
\* Every step keeps the invariant.
LEMMA StepInv == Inv /\ [Next]_vars => Inv'
<1> SUFFICES ASSUME Inv, [Next]_vars PROVE Inv'
  OBVIOUS
<1>1. /\ TypeOK /\ ThreadsOK /\ TypeOK' /\ ThreadsOK'
      /\ \A c \in Conns : LoopStep(c) \/ RemovalStep(c) =>
            \A d \in Conns \ {c} : at'[d] = at[d] /\ local'[d] = local[d]
  BY StepTypes DEF Inv
<1>2. (unlocked => unlocked') /\ (stopped => stopped')
  <2>1. CASE ServerStep
    <3>1. UNCHANGED unlocked
      BY <2>1 DEF ServerStep, Connect, ClientGoes, Start, StartFails, StopSet, StopClears,
                  AcceptEnds, history
    <3>2. UNCHANGED stopped \/ stopped' = TRUE
      BY <2>1 DEF ServerStep, Connect, ClientGoes, Start, StartFails, StopSet, StopClears,
                  AcceptEnds
    <3>3. QED
      BY <3>1, <3>2
  <2>2. ASSUME NEW c \in Conns, LoopStep(c) PROVE UNCHANGED stopped /\ (UNCHANGED unlocked \/ unlocked' = TRUE)
    BY <2>2 DEF LoopStep, Subscribe, Unsubscribe, Publish, Accepted, Loops, Sends, SendFails,
                Ends, FinallyRemoves, history
  <2>3. ASSUME NEW c \in Conns, RemovalStep(c) PROVE UNCHANGED <<stopped, unlocked>>
    BY <2>3 DEF RemovalStep, TestsClients, Unlists, Filters, Writes, DropsEmpty, Returns,
                Crashes, Over, history
  <2>4. CASE UNCHANGED vars
    BY <2>4 DEF vars, history
  <2>5. QED
    BY <2>1, <2>2, <2>3, <2>4, StepCases
<1>3. ASSUME ~unlocked' PROVE HolderInv'
  <2>1. HolderInv
    BY <1>2, <1>3 DEF Inv
  <2>2. CASE UNCHANGED vars
    BY <2>1, <2>2 DEF vars, registry, history, HolderInv, HolderOf, ListOf
  <2>3. QED
    BY <1>1, <1>3, <2>1, <2>2, StepCases, ServerKeepsHolders, LoopKeepsHolders,
       RemovalKeepsHolders
<1>4. ASSUME ~unlocked', ~stopped' PROVE RegistryInv'
  <2>1. HolderInv /\ RegistryInv
    BY <1>2, <1>4 DEF Inv
  <2>2. CASE UNCHANGED vars
    BY <2>1, <2>2 DEF vars, registry, history, RegistryInv, ListOf, Pending
  <2>3. QED
    BY <1>1, <1>4, <2>1, <2>2, StepCases, ServerKeepsRegistry, LoopKeepsRegistry,
       RemovalKeepsRegistry
<1>5. QED
  BY <1>1, <1>3, <1>4 DEF Inv

\* The fields of the server and the variables of its threads have their types, whether the
\* lock is taken or not.
THEOREM TypeCorrect == Spec => []TypeOK
<1>1. Inv => TypeOK
  BY DEF Inv
<1>2. QED
  BY <1>1, InitInv, StepInv, PTL DEF Spec

\* While no send has failed, no thread of the server dies of KeyError or ValueError, and
\* with the lock free a topic lists exactly those that were told they are subscribed.
THEOREM LockProtectsRegistry == Spec => []LockProtects
<1>1. Inv => LockProtects
  <2> SUFFICES ASSUME Inv, ~unlocked PROVE LockProtects
    BY DEF LockProtects
  <2>1. HolderInv
    BY DEF Inv
  <2>2. ASSUME lock = Free, ~stopped
        PROVE  \A t \in Topics : /\ Range(ListOf(t)) = {c \in Conns : t \in wants[c]}
                                 /\ t \in DOMAIN topic_clients => topic_clients[t] # <<>>
    <3>1. \A c \in Conns : Pending(c) = {} /\ at[c] # "dropping"
      BY <2>1, <2>2, OnlyHolderPends, ServerAssumption DEF HolderInv, HolderOf, Removing
    <3>2. \A t \in Topics : Range(ListOf(t)) \subseteq Conns
      BY ListType DEF Inv, Range
    <3>3. QED
      BY <2>2, <3>1, <3>2 DEF Inv, RegistryInv
  <2>3. QED
    BY <2>1, <2>2 DEF LockProtects, HolderInv
<1>2. QED
  BY <1>1, InitInv, StepInv, PTL DEF Spec
===============================================================================
