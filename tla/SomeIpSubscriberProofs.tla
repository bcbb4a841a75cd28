--------------------------- MODULE SomeIpSubscriberProofs ----------------------
(***************************************************************************)
(* The receiving side of the SOME/IP bus, for any number of topics with    *)
(* keys of their own, subscriptions, restarts and notifications: away from *)
(* the three named races no socket is lost and no handler is called twice  *)
(* with a notification.                                                    *)
(***************************************************************************)
EXTENDS SomeIpSubscriber, ListsProofs, FiniteSetTheorems

\* No two topics are mapped to the same receiver.
OwnKeys == \A t, u \in Topics : Key[t] = Key[u] => t = u

\* The bus is started when it has a subscriber side, which is that of its last stack; a
\* receiver is bound for a stack that was built.
StackInv ==
    /\ started <=> subscriber # NoStack
    /\ subscriber # NoStack => subscriber = Len(sd)
    /\ \A i \in DOMAIN tasks :
          /\ tasks[i].stage = "binding" => tasks[i].stack # NoStack
          /\ tasks[i].kind = "stop" => tasks[i].stage = "new"

\* A list holds subscriptions of its topic, each once, and is never left empty.
ListsInv ==
    \A t \in DOMAIN subscriptions :
        /\ subscriptions[t] # <<>> /\ OneEach(subscriptions[t])
        /\ \A i \in DOMAIN subscriptions[t] : home[subscriptions[t][i]] = t

\* What is dispatched or was received has been sent; a handler is running.
SentInv ==
    /\ \A i \in DOMAIN dispatching : /\ dispatching[i].msg <= Len(sent)
                                     /\ dispatching[i].stage = "calling" => dispatching[i].subs # <<>>
    /\ \A s \in Subs : \A i \in DOMAIN received[s] : received[s][i] <= Len(sent)

IsTask(i, kind, t) == i \in DOMAIN tasks /\ tasks[i].kind = kind /\ tasks[i].topic = t
IsBound(t) == subscriber # NoStack /\ Key[t] \in DOMAIN receivers[subscriber]

\* Away from the races a topic has one start task at most, as long as it has subscribers,
\* and a receiver is bound for the stack there is.
StartsCalm ==
    /\ \A t \in Topics : \A i, j \in DOMAIN tasks :
          IsTask(i, "start", t) /\ IsTask(j, "start", t) => i = j
    /\ \A t \in Topics : \A i \in DOMAIN tasks : IsTask(i, "start", t) => t \in DOMAIN subscriptions
    /\ \A i \in DOMAIN tasks :
          tasks[i].stage = "binding" => tasks[i].stack = subscriber /\ sd[subscriber] # "none"

\* The topic has subscribers or a stop task, and a start task it has is still behind that.
Behind(t) ==
    /\ t \notin DOMAIN subscriptions => \E j \in DOMAIN tasks : IsTask(j, "stop", t)
    /\ \A i \in DOMAIN tasks : IsTask(i, "start", t) =>
          /\ tasks[i].stage = "new"
          /\ \E j \in DOMAIN tasks : j < i /\ IsTask(j, "stop", t)

\* A topic that has a receiver opens no other before a stop task has closed that one.
BoundCalm ==
    \A t \in Topics : IsBound(t) => Behind(t) /\ rx[receivers[subscriber][Key[t]]].topic = t

\* The open receivers are those of the stack there is.
SocketsCalm ==
    /\ \A r \in OpenSockets : subscriber # NoStack /\ r \in Range(receivers[subscriber])
    /\ subscriber # NoStack /\ sd[subscriber] = "none" => DOMAIN receivers[subscriber] = {}

\* A notification is dispatched once, to handlers that have not received it.
DispatchCalm ==
    /\ \A i, j \in DOMAIN dispatching : dispatching[i].msg = dispatching[j].msg => i = j
    /\ \A i \in DOMAIN dispatching : \A s \in Subs :
          dispatching[i].msg \in Range(received[s]) =>
             dispatching[i].stage = "calling" /\ s \notin Range(Tail(dispatching[i].subs))
    /\ \A i \in DOMAIN dispatching : OneEach(dispatching[i].subs)
    /\ \A s \in Subs : OneEach(received[s])

Calm == StartsCalm /\ BoundCalm /\ SocketsCalm
CalmInv == races = {} => Calm /\ DispatchCalm
IInv == TypeOK /\ StackInv /\ ListsInv /\ SentInv /\ CalmInv

-------------------------------------------------------------------------------
(* The types, and what they rest on.                                       *)

TaskOf(n) == [kind : {"start", "stop"}, topic : Topics, stack : 0..n,
              stage : {"new", "sleeping", "binding"}]
Dispatch == [topic : Topics, msg : 1..MaxMsgs, subs : Seq(Subs), stage : {"new", "calling"}]
Maps(D) == UNION {[K -> D] : K \in SUBSET Keys}
Status == {"running", "stopped", "none"}

\* A dictionary of receivers is a function on some of the keys.
LEMMA MapsIs ==
    ASSUME NEW D, NEW f
    PROVE  f \in Maps(D) <=> DOMAIN f \subseteq Keys /\ f \in [DOMAIN f -> D]
BY DEF Maps

\* What the types say of the sequences.
LEMMA TypesAre ==
    TypeOK <=>
       /\ started \in BOOLEAN /\ starting \in Nat /\ sd \in Seq(Status)
       /\ (started => sd # <<>>)
       /\ subscriber \in 0..Len(sd)
       /\ Len(receivers) = Len(sd) /\ receivers \in Seq(Maps(DOMAIN rx))
       /\ rx \in Seq(Receiver)
       /\ DOMAIN subscriptions \subseteq Topics
       /\ \A t \in DOMAIN subscriptions : subscriptions[t] \in Seq(Subs)
       /\ tasks \in Seq(TaskOf(Len(sd)))
       /\ dispatching \in Seq(Dispatch)
       /\ home \in [Subs -> Topics \union {NoTopic}]
       /\ sent \in Seq(Topics)
       /\ received \in [Subs -> Seq(1..MaxMsgs)]
BY DEF TypeOK, StackTypeOK, TaskOf, Dispatch, Maps, Status

\* The same of the next state.
LEMMA TypesWillBe ==
    TypeOK' <=>
       /\ started' \in BOOLEAN /\ starting' \in Nat /\ sd' \in Seq(Status)
       /\ (started' => sd' # <<>>)
       /\ subscriber' \in 0..Len(sd')
       /\ Len(receivers') = Len(sd') /\ receivers' \in Seq(Maps(DOMAIN rx'))
       /\ rx' \in Seq(Receiver)
       /\ DOMAIN subscriptions' \subseteq Topics
       /\ \A t \in DOMAIN subscriptions' : subscriptions'[t] \in Seq(Subs)
       /\ tasks' \in Seq(TaskOf(Len(sd')))
       /\ dispatching' \in Seq(Dispatch)
       /\ home' \in [Subs -> Topics \union {NoTopic}]
       /\ sent' \in Seq(Topics)
       /\ received' \in [Subs -> Seq(1..MaxMsgs)]
BY DEF TypeOK, StackTypeOK, TaskOf, Dispatch, Maps, Status

\* A receiver or a stack more does no harm.
LEMMA MapsGrow ==
    ASSUME NEW D, NEW E, D \subseteq E, NEW l \in Seq(Maps(D)) PROVE l \in Seq(Maps(E))
<1>1. Maps(D) \subseteq Maps(E)
  BY DEF Maps
<1>2. QED
  BY <1>1

\* Nor does it to the tasks.
LEMMA TasksGrow ==
    ASSUME NEW m \in Nat, NEW n \in Nat, m <= n, NEW l \in Seq(TaskOf(m)) PROVE l \in Seq(TaskOf(n))
<1>1. TaskOf(m) \subseteq TaskOf(n)
  BY DEF TaskOf
<1>2. QED
  BY <1>1

\* Replacing an item of a list.
LEMMA ExceptKeeps ==
    ASSUME NEW S, NEW l \in Seq(S), NEW x \in S, NEW i \in DOMAIN l
    PROVE  [l EXCEPT ![i] = x] \in Seq(S) /\ Len([l EXCEPT ![i] = x]) = Len(l)
BY ExceptSeq

\* Types, step by step: at first everything is empty,
LEMMA InitTypes == Init => TypeOK /\ StackInv
<1> SUFFICES ASSUME Init PROVE TypeOK /\ StackInv
  OBVIOUS
<1>1. /\ started = FALSE /\ starting = 0 /\ sd = <<>> /\ subscriber = 0 /\ receivers = <<>>
      /\ rx = <<>> /\ subscriptions = <<>> /\ tasks = <<>> /\ dispatching = <<>>
      /\ home = [s \in Subs |-> NoTopic] /\ sent = <<>> /\ received = [s \in Subs |-> <<>>]
  BY DEF Init, StackInit, NoStack
<1>2. \A S : <<>> \in Seq(S)
  BY EmptySeq
<1>3. Len(<<>>) = 0 /\ DOMAIN <<>> = {}
  BY EmptySeq
<1>4. TypeOK
  <2>1. /\ sd \in Seq(Status) /\ receivers \in Seq(Maps(DOMAIN rx)) /\ rx \in Seq(Receiver)
        /\ tasks \in Seq(TaskOf(Len(sd))) /\ dispatching \in Seq(Dispatch) /\ sent \in Seq(Topics)
    BY <1>1, <1>2
  <2>2. home \in [Subs -> Topics \union {NoTopic}] /\ received \in [Subs -> Seq(1..MaxMsgs)]
    BY <1>1, <1>2
  <2>3. subscriber \in 0..Len(sd) /\ Len(receivers) = Len(sd) /\ DOMAIN subscriptions = {}
    BY <1>1, <1>3
  <2>4. started \in BOOLEAN /\ starting \in Nat /\ ~started
    BY <1>1
  <2>5. QED
    BY <2>1, <2>2, <2>3, <2>4, TypesAre
<1>5. StackInv
  BY <1>1, <1>3 DEF StackInv, NoStack
<1>6. QED
  BY <1>4, <1>5

\* start() only notes that it was called,
LEMMA StartTypes == TypeOK /\ StackInv /\ Start => (TypeOK /\ StackInv)'
<1> SUFFICES ASSUME TypeOK, StackInv, Start PROVE (TypeOK /\ StackInv)'
  OBVIOUS
<1>1. /\ starting' = starting + 1 /\ started' = started /\ sd' = sd
      /\ UNCHANGED <<subscriber, receivers, rx, subscriptions, tasks, dispatching, home, sent, received>>
  BY DEF Start, StartCalled, user
<1>2. TypeOK'
  BY <1>1, TypesAre, TypesWillBe
<1>3. QED
  BY <1>1, <1>2 DEF StackInv

\* a new stack brings an empty dictionary of receivers,
LEMMA StartedTypes ==
    ASSUME TypeOK, StackInv, NEW discovery \in {"running", "none"}, Started(discovery)
    PROVE  (TypeOK /\ StackInv)'
<1>1. /\ starting > 0 /\ starting' = starting - 1 /\ started' /\ sd' = Append(sd, discovery)
      /\ receivers' = Append(receivers, <<>>) /\ subscriber' = Len(sd) + 1
      /\ UNCHANGED <<rx, subscriptions, tasks, dispatching, home, sent, received>>
  BY DEF Started, StartReturns, NewSubscriber, user
<1>2. discovery \in Status /\ sd \in Seq(Status)
  BY TypesAre DEF Status
<1>3. sd' \in Seq(Status) /\ Len(sd') = Len(sd) + 1 /\ sd' # <<>> /\ Len(sd) \in Nat
  BY <1>1, <1>2, ListWithOneMore
<1>4. <<>> \in Maps(DOMAIN rx)
  BY DEF Maps
<1>5. Len(receivers') = Len(sd') /\ receivers' \in Seq(Maps(DOMAIN rx'))
  BY <1>1, <1>3, <1>4, TypesAre, ListWithOneMore
<1>6. tasks' \in Seq(TaskOf(Len(sd')))
  BY <1>1, <1>3, TypesAre, TasksGrow
<1>7. starting' \in Nat /\ subscriber' \in 0..Len(sd')
  BY <1>1, <1>3, TypesAre
<1>8. TypeOK'
  BY <1>1, <1>3, <1>5, <1>6, <1>7, TypesAre, TypesWillBe
<1>9. StackInv'
  <2>1. started' /\ subscriber' # NoStack /\ subscriber' = Len(sd')
    BY <1>1, <1>3 DEF NoStack
  <2>2. QED
    BY <1>1, <2>1 DEF StackInv
<1>10. QED
  BY <1>8, <1>9

\* Closing receivers changes whether they are open and nothing else.
LEMMA ClosedIs ==
    ASSUME rx \in Seq(Receiver), NEW ids
    PROVE  /\ Closed(ids) \in Seq(Receiver) /\ DOMAIN Closed(ids) = DOMAIN rx
           /\ \A r \in DOMAIN rx : /\ Closed(ids)[r].open <=> rx[r].open /\ r \notin ids
                                   /\ Closed(ids)[r].topic = rx[r].topic
<1> DEFINE c == Closed(ids)
<1>1. DOMAIN c = DOMAIN rx /\ DOMAIN rx = 1..Len(rx) /\ Len(rx) \in Nat
  BY DEF Closed
<1>2. \A r \in DOMAIN rx : rx[r] \in Receiver
  OBVIOUS
<1>3. ASSUME NEW r \in DOMAIN rx
      PROVE  /\ c[r] \in Receiver /\ c[r].topic = rx[r].topic
             /\ c[r].open <=> rx[r].open /\ r \notin ids
  <2>1. c[r] = IF r \in ids THEN [rx[r] EXCEPT !.open = FALSE] ELSE rx[r]
    BY DEF Closed
  <2> HIDE DEF c
  <2>2. CASE r \in ids
    <3>1. c[r] = [rx[r] EXCEPT !.open = FALSE]
      BY <2>1, <2>2
    <3>2. c[r] \in Receiver /\ ~c[r].open /\ c[r].topic = rx[r].topic
      BY <1>2, <3>1 DEF Receiver
    <3>3. QED
      BY <2>2, <3>2
  <2>3. CASE r \notin ids
    BY <1>2, <2>1, <2>3
  <2>4. QED
    BY <2>2, <2>3
<1>4. c = [r \in 1..Len(rx) |-> c[r]]
  BY <1>1 DEF Closed
<1> HIDE DEF c
<1>5. c \in [1..Len(rx) -> Receiver]
  BY <1>1, <1>3, <1>4
<1>6. c \in Seq(Receiver)
  BY <1>1, <1>5, SeqDef
<1>7. QED
  BY <1>1, <1>3, <1>6 DEF c

\* stop() empties the present dictionary,
LEMMA StopTypes == TypeOK /\ StackInv /\ Stop => (TypeOK /\ StackInv)'
<1> SUFFICES ASSUME TypeOK, StackInv, Stop PROVE (TypeOK /\ StackInv)'
  OBVIOUS
<1>1. /\ started /\ ~started' /\ starting' = starting
      /\ sd' = [sd EXCEPT ![Len(sd)] = IF sd[Len(sd)] = "running" THEN "stopped" ELSE sd[Len(sd)]]
      /\ receivers' = [receivers EXCEPT ![subscriber] = <<>>] /\ subscriber' = NoStack
      /\ rx' = Closed(Range(receivers[subscriber]))
      /\ UNCHANGED <<subscriptions, tasks, dispatching, home, sent, received>>
  BY DEF Stop, StackStops, user
<1>2. sd' \in Seq(Status) /\ Len(sd') = Len(sd)
  <2>1. sd \in Seq(Status) /\ Len(sd) \in DOMAIN sd
    BY <1>1, TypesAre
  <2>2. sd[Len(sd)] \in Status /\ "stopped" \in Status
    BY <2>1 DEF Status
  <2>3. QED
    BY <1>1, <2>1, <2>2
<1>3. rx' \in Seq(Receiver) /\ DOMAIN rx' = DOMAIN rx
  BY <1>1, TypesAre, ClosedIs
<1>4. <<>> \in Maps(DOMAIN rx)
  BY DEF Maps
<1>5. Len(receivers') = Len(sd') /\ receivers' \in Seq(Maps(DOMAIN rx'))
  <2>1. receivers \in Seq(Maps(DOMAIN rx)) /\ Len(receivers) = Len(sd)
    BY TypesAre
  <2>2. subscriber \in DOMAIN receivers
    BY <1>1, <2>1, TypesAre DEF StackInv, NoStack
  <2>3. receivers' \in Seq(Maps(DOMAIN rx)) /\ Len(receivers') = Len(receivers)
    BY <1>1, <1>4, <2>1, <2>2, ExceptKeeps
  <2>4. QED
    BY <1>2, <1>3, <2>1, <2>3
<1>6. TypeOK'
  <2>1. Len(sd) \in Nat /\ subscriber' \in 0..Len(sd')
    BY <1>1, <1>2, TypesAre DEF NoStack
  <2>2. started' \in BOOLEAN /\ (started' => sd' # <<>>)
    BY <1>1 DEF Stop, StackStops
  <2>3. tasks' \in Seq(TaskOf(Len(sd')))
    BY <1>1, <1>2, TypesAre
  <2>4. QED
    BY <1>1, <1>2, <1>3, <1>5, <2>1, <2>2, <2>3, TypesAre, TypesWillBe
<1>7. StackInv'
  BY <1>1 DEF StackInv
<1>8. QED
  BY <1>6, <1>7

\* The tasks alone decide what is left to show when the stack does not change.
LEMMA TasksTypes ==
    ASSUME TypeOK, StackInv, UNCHANGED <<bus, home>>, tasks' \in Seq(TaskOf(Len(sd))),
           \A j \in DOMAIN tasks' : /\ tasks'[j].stage = "binding" => tasks'[j].stack # NoStack
                                    /\ tasks'[j].kind = "stop" => tasks'[j].stage = "new",
           Len(receivers') = Len(sd), receivers' \in Seq(Maps(DOMAIN rx')), rx' \in Seq(Receiver),
           DOMAIN subscriptions' \subseteq Topics,
           \A t \in DOMAIN subscriptions' : subscriptions'[t] \in Seq(Subs),
           UNCHANGED <<dispatching, sent, received>>
    PROVE  (TypeOK /\ StackInv)'
<1>1. UNCHANGED <<started, starting, sd, subscriber, home, dispatching, sent, received>>
  BY DEF bus, stack
<1>2. TypeOK'
  BY <1>1, TypesAre, TypesWillBe
<1>3. StackInv'
  BY <1>1 DEF StackInv
<1>4. QED
  BY <1>2, <1>3

\* A task is created.
LEMMA TaskAdded ==
    ASSUME TypeOK, StackInv, NEW k \in {"start", "stop"}, NEW t \in Topics,
           tasks' = Append(tasks, Task(k, t))
    PROVE  /\ tasks' \in Seq(TaskOf(Len(sd)))
           /\ \A j \in DOMAIN tasks' : /\ tasks'[j].stage = "binding" => tasks'[j].stack # NoStack
                                       /\ tasks'[j].kind = "stop" => tasks'[j].stage = "new"
           /\ DOMAIN tasks' = DOMAIN tasks \union {Len(tasks) + 1} /\ Len(tasks) + 1 \notin DOMAIN tasks
           /\ \A j \in DOMAIN tasks : j \in Nat /\ j < Len(tasks) + 1 /\ tasks'[j] = tasks[j]
           /\ tasks'[Len(tasks) + 1] = Task(k, t)
<1>1. Len(sd) \in Nat /\ tasks \in Seq(TaskOf(Len(sd)))
  BY TypesAre
<1>2. Task(k, t) \in TaskOf(Len(sd)) /\ Task(k, t).stage = "new"
  BY <1>1 DEF Task, TaskOf, NoStack
<1>3. /\ tasks' \in Seq(TaskOf(Len(sd)))
      /\ DOMAIN tasks' = DOMAIN tasks \union {Len(tasks) + 1} /\ Len(tasks) + 1 \notin DOMAIN tasks
      /\ \A j \in DOMAIN tasks : j \in Nat /\ j < Len(tasks) + 1 /\ tasks'[j] = tasks[j]
      /\ tasks'[Len(tasks) + 1] = Task(k, t)
  BY <1>1, <1>2, ListWithOneMore
<1>4. QED
  BY <1>2, <1>3 DEF StackInv

\* A task ends.
LEMMA TaskDone ==
    ASSUME TypeOK, StackInv, NEW i \in DOMAIN tasks, Done(i)
    PROVE  /\ tasks' \in Seq(TaskOf(Len(sd)))
           /\ \A j \in DOMAIN tasks' : /\ tasks'[j].stage = "binding" => tasks'[j].stack # NoStack
                                       /\ tasks'[j].kind = "stop" => tasks'[j].stage = "new"
           /\ \A j \in DOMAIN tasks' : /\ Old(i, j) \in DOMAIN tasks /\ Old(i, j) # i
                                       /\ tasks'[j] = tasks[Old(i, j)]
           /\ \A j, k \in DOMAIN tasks' : /\ Old(i, j) = Old(i, k) => j = k
                                          /\ Old(i, j) < Old(i, k) => j < k
           /\ \A h \in DOMAIN tasks : h # i =>
                 /\ New(i, h) \in DOMAIN tasks' /\ Old(i, New(i, h)) = h
                 /\ tasks'[New(i, h)] = tasks[h]
<1>1. tasks \in Seq(TaskOf(Len(sd))) /\ tasks' = RemoveAt(tasks, i)
  BY TypesAre DEF Done
<1>2. /\ tasks' \in Seq(TaskOf(Len(sd)))
      /\ \A j \in DOMAIN tasks' : /\ Old(i, j) \in DOMAIN tasks /\ Old(i, j) # i
                                  /\ tasks'[j] = tasks[Old(i, j)]
      /\ \A j, k \in DOMAIN tasks' : /\ Old(i, j) = Old(i, k) => j = k
                                     /\ Old(i, j) < Old(i, k) => j < k
      /\ \A h \in DOMAIN tasks : h # i =>
            /\ New(i, h) \in DOMAIN tasks' /\ Old(i, New(i, h)) = h
            /\ tasks'[New(i, h)] = tasks[h]
  BY <1>1, OthersStay
<1>3. QED
  BY <1>2 DEF StackInv

\* A start task goes on to its next stage.
LEMMA TaskMoves ==
    ASSUME TypeOK, StackInv, NEW i \in DOMAIN tasks, tasks[i].kind = "start",
           NEW r \in TaskOf(Len(sd)), r.kind = "start", r.topic = tasks[i].topic,
           r.stage = "binding" => r.stack # NoStack, tasks' = [tasks EXCEPT ![i] = r]
    PROVE  /\ tasks' \in Seq(TaskOf(Len(sd)))
           /\ \A j \in DOMAIN tasks' : /\ tasks'[j].stage = "binding" => tasks'[j].stack # NoStack
                                       /\ tasks'[j].kind = "stop" => tasks'[j].stage = "new"
           /\ DOMAIN tasks' = DOMAIN tasks
           /\ \A j \in DOMAIN tasks : /\ tasks'[j].kind = tasks[j].kind
                                      /\ tasks'[j].topic = tasks[j].topic
                                      /\ j # i => tasks'[j] = tasks[j]
           /\ tasks'[i] = r
<1>1. tasks \in Seq(TaskOf(Len(sd))) /\ Len(sd) \in Nat
  BY TypesAre
<1>2. tasks' \in Seq(TaskOf(Len(sd))) /\ Len(tasks') = Len(tasks)
  BY <1>1, ExceptKeeps
<1>3. DOMAIN tasks' = DOMAIN tasks /\ tasks'[i] = r /\ \A j \in DOMAIN tasks : j # i => tasks'[j] = tasks[j]
  BY <1>1
<1>4. QED
  BY <1>2, <1>3 DEF StackInv

-------------------------------------------------------------------------------
\* A subscription is one more item in the list of its topic,
LEMMA SubscribeTypes ==
    ASSUME TypeOK, StackInv, NEW s \in Subs, NEW t \in Topics, Subscribe(s, t)
    PROVE  (TypeOK /\ StackInv)'
<1>1. /\ home' = [home EXCEPT ![s] = t]
      /\ subscriptions' = [u \in DOMAIN subscriptions \union {t} |->
                              IF u = t THEN Append(ListOf(t), s) ELSE subscriptions[u]]
      /\ UNCHANGED <<started, starting, sd, subscriber, receivers, rx, dispatching, sent, received>>
  BY DEF Subscribe, bus, stack
<1>2. /\ tasks' \in Seq(TaskOf(Len(sd)))
      /\ \A j \in DOMAIN tasks' : /\ tasks'[j].stage = "binding" => tasks'[j].stack # NoStack
                                  /\ tasks'[j].kind = "stop" => tasks'[j].stage = "new"
  <2>1. CASE t \in DOMAIN subscriptions
    BY <2>1, TypesAre DEF Subscribe, StackInv
  <2>2. CASE t \notin DOMAIN subscriptions
    BY <2>2, TaskAdded DEF Subscribe
  <2>3. QED
    BY <2>1, <2>2
<1>3. DOMAIN subscriptions' \subseteq Topics /\ home' \in [Subs -> Topics \union {NoTopic}]
  BY <1>1, TypesAre
<1>4. ASSUME NEW u \in DOMAIN subscriptions' PROVE subscriptions'[u] \in Seq(Subs)
  <2>1. ListOf(t) \in Seq(Subs)
    BY EmptySeq, TypesAre DEF ListOf
  <2>2. Append(ListOf(t), s) \in Seq(Subs)
    BY <2>1, AppendProperties
  <2>3. QED
    BY <1>1, <2>2, TypesAre
<1>5. TypeOK'
  BY <1>1, <1>2, <1>3, <1>4, TypesAre, TypesWillBe
<1>6. StackInv'
  BY <1>1, <1>2 DEF StackInv
<1>7. QED
  BY <1>5, <1>6

\* What unsubscribing does to the lists.
LEMMA UnsubscribeIs ==
    ASSUME TypeOK, ListsInv, NEW s \in Subs, Unsubscribe(s)
    PROVE  /\ home[s] \in DOMAIN subscriptions /\ s \in Range(subscriptions[home[s]])
           /\ Removed(subscriptions[home[s]], s) \in Seq(Subs)
           /\ OneEach(Removed(subscriptions[home[s]], s))
           /\ Range(Removed(subscriptions[home[s]], s)) = Range(subscriptions[home[s]]) \ {s}
           /\ LET last == Removed(subscriptions[home[s]], s) = <<>>
              IN  /\ DOMAIN subscriptions' =
                        IF last THEN DOMAIN subscriptions \ {home[s]} ELSE DOMAIN subscriptions
                  /\ \A u \in DOMAIN subscriptions' : subscriptions'[u] =
                        IF u = home[s] THEN Removed(subscriptions[home[s]], s) ELSE subscriptions[u]
                  /\ tasks' = IF last /\ subscriber # NoStack
                                 THEN Append(tasks, Task("stop", home[s])) ELSE tasks
<1> DEFINE t == home[s]
           l == subscriptions[t]
           rest == Removed(l, s)
<1>1. t \in DOMAIN subscriptions /\ s \in Range(l) /\ ListOf(t) = l
  <2>1. s \in Range(ListOf(t))
    BY DEF Unsubscribe
  <2>2. t \in DOMAIN subscriptions
    <3>1. Range(<<>>) = {}
      BY DEF Range
    <3>2. QED
      BY <2>1, <3>1 DEF ListOf
  <2>3. QED
    BY <2>1, <2>2 DEF ListOf
<1>2. l \in Seq(Subs) /\ OneEach(l)
  BY <1>1, TypesAre DEF ListsInv
<1>3. rest \in Seq(Subs) /\ OneEach(rest) /\ Range(rest) = Range(l) \ {s}
  BY <1>1, <1>2, RemovedIs
<1>4. /\ subscriptions' = IF rest = <<>> THEN Restrict(subscriptions, DOMAIN subscriptions \ {t})
                                         ELSE [subscriptions EXCEPT ![t] = rest]
      /\ tasks' = IF rest = <<>> /\ subscriber # NoStack THEN Append(tasks, Task("stop", t)) ELSE tasks
  BY <1>1 DEF Unsubscribe
<1> HIDE DEF rest
<1>5. /\ DOMAIN subscriptions' = IF rest = <<>> THEN DOMAIN subscriptions \ {t} ELSE DOMAIN subscriptions
      /\ \A u \in DOMAIN subscriptions' : subscriptions'[u] = IF u = t THEN rest ELSE subscriptions[u]
  <2>1. CASE rest = <<>>
    BY <1>4, <2>1 DEF Restrict
  <2>2. CASE rest # <<>>
    BY <1>1, <1>4, <2>2
  <2>3. QED
    BY <2>1, <2>2
<1>6. QED
  BY <1>1, <1>3, <1>4, <1>5 DEF rest

\* and one less when it goes.
LEMMA UnsubscribeTypes ==
    ASSUME TypeOK, StackInv, ListsInv, NEW s \in Subs, Unsubscribe(s)
    PROVE  (TypeOK /\ StackInv)'
<1> DEFINE t == home[s]
           rest == Removed(subscriptions[t], s)
<1>1. /\ t \in DOMAIN subscriptions /\ rest \in Seq(Subs)
      /\ DOMAIN subscriptions' = IF rest = <<>> THEN DOMAIN subscriptions \ {t} ELSE DOMAIN subscriptions
      /\ \A u \in DOMAIN subscriptions' : subscriptions'[u] = IF u = t THEN rest ELSE subscriptions[u]
      /\ tasks' = IF rest = <<>> /\ subscriber # NoStack THEN Append(tasks, Task("stop", t)) ELSE tasks
  BY UnsubscribeIs
<1>2. UNCHANGED <<bus, home, receivers, rx, dispatching, sent, received>>
  BY DEF Unsubscribe
<1> HIDE DEF rest
<1>3. t \in Topics
  BY <1>1, TypesAre
<1>4. DOMAIN subscriptions' \subseteq Topics /\ \A u \in DOMAIN subscriptions' : subscriptions'[u] \in Seq(Subs)
  BY <1>1, TypesAre
<1> HIDE DEF t
<1>5. /\ tasks' \in Seq(TaskOf(Len(sd)))
      /\ \A j \in DOMAIN tasks' : /\ tasks'[j].stage = "binding" => tasks'[j].stack # NoStack
                                  /\ tasks'[j].kind = "stop" => tasks'[j].stage = "new"
  <2>1. CASE rest = <<>> /\ subscriber # NoStack
    BY <1>1, <1>3, <2>1, TaskAdded
  <2>2. CASE ~(rest = <<>> /\ subscriber # NoStack)
    BY <1>1, <2>2, TypesAre DEF StackInv
  <2>3. QED
    BY <2>1, <2>2
<1>6. receivers' \in Seq(Maps(DOMAIN rx')) /\ Len(receivers') = Len(sd) /\ rx' \in Seq(Receiver)
  BY <1>2, TypesAre
<1>7. QED
  BY <1>2, <1>4, <1>5, <1>6, TasksTypes

\* What the steps of a task do to the tasks.
LEMMA BeginsIs ==
    ASSUME TypeOK, StackInv, NEW i \in DOMAIN tasks, StartTaskBegins(i)
    PROVE  \/ subscriber = NoStack /\ Done(i)
           \/ \E r \in TaskOf(Len(sd)) :
                 /\ r.kind = "start" /\ r.topic = tasks[i].topic /\ r.stage = "sleeping"
                 /\ tasks' = [tasks EXCEPT ![i] = r]
<1>1. tasks[i] \in TaskOf(Len(sd)) /\ tasks[i].kind = "start"
  BY TypesAre DEF StartTaskBegins
<1> DEFINE r == [tasks[i] EXCEPT !.stage = "sleeping"]
<1>2. CASE subscriber = NoStack
  BY <1>2 DEF StartTaskBegins
<1>3. CASE subscriber # NoStack
  <2>1. tasks' = [tasks EXCEPT ![i] = r]
    BY <1>3 DEF StartTaskBegins
  <2>2. r \in TaskOf(Len(sd)) /\ r.kind = "start" /\ r.topic = tasks[i].topic /\ r.stage = "sleeping"
    BY <1>1 DEF TaskOf
  <2> HIDE DEF r
  <2>3. QED
    BY <2>1, <2>2
<1>4. QED
  BY <1>2, <1>3

\* A start task that wakes up ends, or binds a receiver for the present stack.
LEMMA WakesIs ==
    ASSUME TypeOK, StackInv, NEW i \in DOMAIN tasks, StartTaskWakes(i)
    PROVE  \/ Done(i)
           \/ \E r \in TaskOf(Len(sd)) :
                 /\ r.kind = "start" /\ r.topic = tasks[i].topic /\ r.stage = "binding"
                 /\ r.stack = subscriber /\ subscriber # NoStack /\ sd[subscriber] # "none"
                 /\ tasks' = [tasks EXCEPT ![i] = r]
<1>1. tasks[i] \in TaskOf(Len(sd)) /\ tasks[i].kind = "start" /\ subscriber \in 0..Len(sd)
  <2>1. tasks[i] \in TaskOf(Len(sd)) /\ subscriber \in 0..Len(sd) /\ tasks[i].stage = "sleeping"
    BY TypesAre DEF StartTaskWakes, FirstAt
  <2>2. QED
    BY <2>1 DEF StackInv, TaskOf
<1> DEFINE r == [[tasks[i] EXCEPT !.stage = "binding"] EXCEPT !.stack = subscriber]
<1>2. CASE subscriber = NoStack \/ sd[subscriber] = "none"
  BY <1>2 DEF StartTaskWakes
<1>3. CASE ~(subscriber = NoStack \/ sd[subscriber] = "none")
  <2>1. tasks' = [tasks EXCEPT ![i] = r]
    BY <1>3, TypesAre DEF StartTaskWakes
  <2>2. /\ r \in TaskOf(Len(sd)) /\ r.kind = "start" /\ r.topic = tasks[i].topic
        /\ r.stage = "binding" /\ r.stack = subscriber
    BY <1>1 DEF TaskOf
  <2> HIDE DEF r
  <2>3. QED
    BY <1>3, <2>1, <2>2
<1>4. QED
  BY <1>2, <1>3

\* A start task goes to sleep or ends, and wakes up to bind or to end,
LEMMA BeginsTypes ==
    ASSUME TypeOK, StackInv, NEW i \in DOMAIN tasks, StartTaskBegins(i) \/ StartTaskWakes(i)
    PROVE  (TypeOK /\ StackInv)'
<1>1. UNCHANGED <<bus, subscriptions, home, receivers, rx, dispatching, sent, received>>
  BY DEF StartTaskBegins, StartTaskWakes, user
<1>2. tasks[i].kind = "start"
  <2>1. tasks[i] \in TaskOf(Len(sd))
    BY TypesAre
  <2>2. QED
    BY <2>1 DEF StartTaskBegins, StartTaskWakes, FirstAt, StackInv, TaskOf
<1>3. /\ tasks' \in Seq(TaskOf(Len(sd)))
      /\ \A j \in DOMAIN tasks' : /\ tasks'[j].stage = "binding" => tasks'[j].stack # NoStack
                                  /\ tasks'[j].kind = "stop" => tasks'[j].stage = "new"
  <2>1. CASE Done(i)
    BY <2>1, TaskDone
  <2>2. CASE \E r \in TaskOf(Len(sd)) :
                /\ r.kind = "start" /\ r.topic = tasks[i].topic
                /\ r.stage = "binding" => r.stack # NoStack
                /\ tasks' = [tasks EXCEPT ![i] = r]
    BY <1>2, <2>2, TaskMoves
  <2>3. QED
    BY <2>1, <2>2, BeginsIs, WakesIs
<1>4. QED
  BY <1>1, <1>3, TypesAre, TasksTypes

\* A receiver that is bound is the last, open, and takes its place under its key.
LEMMA BoundIs ==
    ASSUME TypeOK, StackInv, NEW i \in DOMAIN tasks, EndpointBound(i)
    PROVE  /\ tasks[i].kind = "start" /\ tasks[i].topic \in Topics /\ tasks[i].stage = "binding"
           /\ tasks[i].stack \in DOMAIN receivers /\ tasks[i].stack # NoStack
           /\ rx' \in Seq(Receiver) /\ DOMAIN rx' = DOMAIN rx \union {Len(rx) + 1}
           /\ Len(rx) + 1 \notin DOMAIN rx
           /\ \A r \in DOMAIN rx : rx'[r] = rx[r]
           /\ rx'[Len(rx) + 1].topic = tasks[i].topic
           /\ receivers' \in Seq(Maps(DOMAIN rx')) /\ Len(receivers') = Len(sd)
           /\ \A g \in DOMAIN receivers : g # tasks[i].stack => receivers'[g] = receivers[g]
           /\ DOMAIN receivers'[tasks[i].stack] =
                 DOMAIN receivers[tasks[i].stack] \union {Key[tasks[i].topic]}
           /\ \A k \in DOMAIN receivers'[tasks[i].stack] : receivers'[tasks[i].stack][k] =
                 IF k = Key[tasks[i].topic] THEN Len(rx) + 1 ELSE receivers[tasks[i].stack][k]
<1> DEFINE g == tasks[i].stack
           t == tasks[i].topic
           n == Len(rx) + 1
           new == [stack |-> g, topic |-> t, open |-> TRUE, searched |-> TRUE]
           old == receivers[g]
           map == [x \in DOMAIN old \union {Key[t]} |-> IF x = Key[t] THEN n ELSE old[x]]
<1>1. tasks[i] \in TaskOf(Len(sd)) /\ tasks[i].stage = "binding" /\ Len(sd) \in Nat
  BY TypesAre DEF EndpointBound, FirstAt
<1>2. tasks[i].kind = "start" /\ t \in Topics /\ g \in 1..Len(sd) /\ g # NoStack
  BY <1>1 DEF TaskOf, StackInv, NoStack
<1>3. g \in DOMAIN receivers /\ receivers \in Seq(Maps(DOMAIN rx)) /\ Len(receivers) = Len(sd)
  BY <1>2, TypesAre
<1>4. new \in Receiver
  BY <1>2 DEF Receiver
<1>5. rx \in Seq(Receiver) /\ rx' = Append(rx, new) /\ receivers' = [receivers EXCEPT ![g] = map]
  BY TypesAre DEF EndpointBound
<1>6. new.topic = t
  OBVIOUS
<1> HIDE DEF new
<1>7. /\ rx' \in Seq(Receiver) /\ DOMAIN rx' = DOMAIN rx \union {n} /\ n \notin DOMAIN rx
      /\ \A r \in DOMAIN rx : rx'[r] = rx[r]
      /\ rx'[n] = new
  BY <1>4, <1>5, ListWithOneMore
<1>8. old \in Maps(DOMAIN rx)
  BY <1>3
<1>9. DOMAIN old \subseteq Keys /\ old \in [DOMAIN old -> DOMAIN rx]
  BY <1>8, MapsIs
<1>10. Key[t] \in Keys
  BY <1>2 DEF Keys
<1>11. map \in [DOMAIN old \union {Key[t]} -> DOMAIN rx']
  BY <1>7, <1>9
<1>12. map \in Maps(DOMAIN rx')
  BY <1>9, <1>10, <1>11, MapsIs
<1>13. receivers \in Seq(Maps(DOMAIN rx'))
  BY <1>3, <1>7, MapsGrow
<1> HIDE DEF map, g
<1>14. receivers' \in Seq(Maps(DOMAIN rx')) /\ Len(receivers') = Len(sd)
  BY <1>3, <1>5, <1>12, <1>13, ExceptKeeps
<1>15. /\ \A h \in DOMAIN receivers : h # g => receivers'[h] = receivers[h]
       /\ receivers'[g] = map
  BY <1>3, <1>5
<1>16. /\ DOMAIN map = DOMAIN old \union {Key[t]}
       /\ \A k \in DOMAIN map : map[k] = IF k = Key[t] THEN n ELSE old[k]
  BY DEF map
<1> HIDE DEF old
<1>17. /\ DOMAIN receivers'[g] = DOMAIN old \union {Key[t]}
       /\ \A k \in DOMAIN receivers'[g] : receivers'[g][k] = IF k = Key[t] THEN n ELSE old[k]
  BY <1>15, <1>16
<1>18. QED
  BY <1>1, <1>2, <1>3, <1>6, <1>7, <1>14, <1>15, <1>17 DEF g, old

\* a bound receiver is entered under a key,
LEMMA BoundTypes ==
    ASSUME TypeOK, StackInv, NEW i \in DOMAIN tasks, EndpointBound(i)
    PROVE  (TypeOK /\ StackInv)'
<1>1. UNCHANGED <<bus, subscriptions, home, dispatching, sent, received>> /\ Done(i)
  BY DEF EndpointBound, user
<1>2. QED
  BY <1>1, BoundIs, TaskDone, TypesAre, TasksTypes

\* one that fails leaves no trace,
LEMMA FailsTypes ==
    ASSUME TypeOK, StackInv, NEW i \in DOMAIN tasks, EndpointFails(i)
    PROVE  (TypeOK /\ StackInv)'
<1>1. UNCHANGED <<bus, subscriptions, home, receivers, rx, dispatching, sent, received>> /\ Done(i)
  BY DEF EndpointFails, user
<1>2. QED
  BY <1>1, TaskDone, TypesAre, TasksTypes

\* A receiver that goes is closed and out of its place; the others stay.
LEMMA GoesIs ==
    ASSUME TypeOK, StackInv, subscriber # NoStack, NEW t \in Topics, IsBound(t),
           sd[subscriber] # "none", ReceiverGoes(Key[t])
    PROVE  /\ subscriber \in DOMAIN receivers
           /\ rx' \in Seq(Receiver) /\ DOMAIN rx' = DOMAIN rx
           /\ receivers[subscriber][Key[t]] \in DOMAIN rx
           /\ \A r \in DOMAIN rx : r # receivers[subscriber][Key[t]] => rx'[r] = rx[r]
           /\ ~rx'[receivers[subscriber][Key[t]]].open
           /\ receivers' \in Seq(Maps(DOMAIN rx')) /\ Len(receivers') = Len(sd)
           /\ DOMAIN receivers'[subscriber] = DOMAIN receivers[subscriber] \ {Key[t]}
           /\ \A k \in DOMAIN receivers'[subscriber] :
                 receivers'[subscriber][k] = receivers[subscriber][k]
<1> DEFINE g == subscriber
           old == receivers[g]
           k == Key[t]
           x == old[k]
           map == Restrict(old, DOMAIN old \ {k})
           gone == [[rx[x] EXCEPT !.open = FALSE] EXCEPT !.searched = FALSE]
<1>1. /\ g \in DOMAIN receivers /\ receivers \in Seq(Maps(DOMAIN rx)) /\ Len(receivers) = Len(sd)
      /\ rx \in Seq(Receiver) /\ k \in DOMAIN old
  BY TypesAre DEF NoStack, IsBound
<1>2. old \in Maps(DOMAIN rx)
  BY <1>1
<1>3. DOMAIN old \subseteq Keys /\ old \in [DOMAIN old -> DOMAIN rx]
  BY <1>2, MapsIs
<1>4. x \in DOMAIN rx /\ rx[x] \in Receiver
  BY <1>1, <1>3
<1>5. gone \in Receiver /\ ~gone.open
  BY <1>4 DEF Receiver
<1>6. rx' = [rx EXCEPT ![x] = gone] /\ receivers' = [receivers EXCEPT ![g] = map]
  BY <1>1, <1>4 DEF ReceiverGoes
<1>7. map \in [DOMAIN old \ {k} -> DOMAIN rx] /\ \A y \in DOMAIN old \ {k} : map[y] = old[y]
  BY <1>3 DEF Restrict
<1> HIDE DEF map, gone, x, old, g
<1>8. map \in Maps(DOMAIN rx)
  BY <1>3, <1>7, MapsIs
<1>9. rx' \in Seq(Receiver) /\ Len(rx') = Len(rx)
  BY <1>1, <1>4, <1>5, <1>6, ExceptKeeps
<1>10. DOMAIN rx' = DOMAIN rx /\ rx'[x] = gone /\ \A r \in DOMAIN rx : r # x => rx'[r] = rx[r]
  BY <1>1, <1>4, <1>6
<1>11. receivers' \in Seq(Maps(DOMAIN rx)) /\ Len(receivers') = Len(sd) /\ receivers'[g] = map
  BY <1>1, <1>6, <1>8, ExceptKeeps
<1>12. QED
  BY <1>1, <1>4, <1>5, <1>7, <1>9, <1>10, <1>11 DEF x, old, g

\* A stop task takes out the receiver under its key, or changes nothing but the tasks.
LEMMA StopTaskIs ==
    ASSUME TypeOK, StackInv, NEW i \in DOMAIN tasks, StopTask(i)
    PROVE  /\ tasks[i].kind = "stop" /\ tasks[i].topic \in Topics /\ Done(i)
           /\ \/ /\ IsBound(tasks[i].topic) /\ sd[subscriber] # "none"
                 /\ ReceiverGoes(Key[tasks[i].topic])
              \/ /\ ~(IsBound(tasks[i].topic) /\ sd[subscriber] # "none")
                 /\ UNCHANGED <<receivers, rx>>
           /\ UNCHANGED <<bus, subscriptions, home, dispatching, sent, received>>
<1>1. tasks[i] \in TaskOf(Len(sd))
  BY TypesAre
<1>2. tasks[i].topic \in Topics
  BY <1>1 DEF TaskOf
<1>3. QED
  BY <1>2 DEF StopTask, ReceiverGoes, IsBound, user

\* and a stop task takes one out.
LEMMA StopTaskTypes ==
    ASSUME TypeOK, StackInv, NEW i \in DOMAIN tasks, StopTask(i)
    PROVE  (TypeOK /\ StackInv)'
<1>1. receivers' \in Seq(Maps(DOMAIN rx')) /\ Len(receivers') = Len(sd) /\ rx' \in Seq(Receiver)
  <2>1. CASE UNCHANGED <<receivers, rx>>
    BY <2>1, TypesAre
  <2>2. CASE ~UNCHANGED <<receivers, rx>>
    BY <2>2, StopTaskIs, GoesIs DEF IsBound
  <2>3. QED
    BY <2>1, <2>2
<1>2. QED
  BY <1>1, StopTaskIs, TaskDone, TypesAre, TasksTypes

-------------------------------------------------------------------------------
(* Notifications and their handlers.                                       *)

\* The notifications keep the types when they change nothing else.
LEMMA DispatchTypes ==
    ASSUME TypeOK, StackInv, UNCHANGED <<bus, subscriptions, home, receivers, rx, tasks>>,
           dispatching' \in Seq(Dispatch), sent' \in Seq(Topics), received' \in [Subs -> Seq(1..MaxMsgs)]
    PROVE  (TypeOK /\ StackInv)'
<1>1. UNCHANGED <<started, starting, sd, subscriber>>
  BY DEF bus, stack
<1>2. TypeOK'
  BY <1>1, TypesAre, TypesWillBe
<1>3. StackInv'
  BY <1>1 DEF StackInv
<1>4. QED
  BY <1>2, <1>3

\* Every receiver that hears of a notification has it dispatched once.
LEMMA NotifiedIs ==
    ASSUME TypeOK, NEW t \in Topics, NEW heard \in SUBSET DOMAIN rx, Notified(t, heard)
    PROVE  /\ Len(sent) \in Nat /\ Len(sent) + 1 \in 1..MaxMsgs
           /\ sent' \in Seq(Topics) /\ Len(sent') = Len(sent) + 1
           /\ dispatching' \in Seq(Dispatch)
           /\ \A i \in DOMAIN dispatching :
                 i \in DOMAIN dispatching' /\ dispatching'[i] = dispatching[i]
           /\ \A i \in DOMAIN dispatching' \ DOMAIN dispatching :
                 /\ dispatching'[i].msg = Len(sent) + 1 /\ dispatching'[i].stage = "new"
                 /\ dispatching'[i].subs = <<>>
           /\ (\A q, r \in heard : q = r) =>
                 \A i, j \in DOMAIN dispatching' \ DOMAIN dispatching : i = j
<1> DEFINE m == Len(sent) + 1
           Entry(r) == [topic |-> rx[r].topic, msg |-> m, stage |-> "new", subs |-> <<>>]
<1>1. sent \in Seq(Topics) /\ rx \in Seq(Receiver) /\ dispatching \in Seq(Dispatch) /\ MaxMsgs \in Nat
  BY TypesAre, SubscriberAssumption
<1>2. Len(sent) \in Nat /\ m \in 1..MaxMsgs /\ sent' \in Seq(Topics) /\ Len(sent') = m
  BY <1>1, AppendProperties DEF Notified
<1>3. Cardinality(heard) \in Nat
  <2>1. IsFiniteSet(1..Len(rx)) /\ DOMAIN rx = 1..Len(rx)
    BY <1>1, FS_Interval
  <2>2. QED
    BY <2>1, FS_Subset, FS_CardinalityType
<1>4. PICK order \in SetToSeqs(heard) :
         dispatching' = dispatching \o [i \in DOMAIN order |-> Entry(order[i])]
  BY DEF Notified
<1> DEFINE n == Cardinality(heard)
           new == [i \in DOMAIN order |-> Entry(order[i])]
<1>5. order \in [1..n -> heard] /\ \A i, j \in 1..n : i # j => order[i] # order[j]
  BY <1>4 DEF SetToSeqs
<1>6. \A r \in heard : Entry(r) \in Dispatch /\ Entry(r).msg = m /\ Entry(r).stage = "new" /\ Entry(r).subs = <<>>
  <2> TAKE r \in heard
  <2>1. rx[r] \in Receiver /\ <<>> \in Seq(Subs)
    BY <1>1, EmptySeq
  <2>2. QED
    BY <1>2, <2>1 DEF Receiver, Dispatch
<1> HIDE DEF Entry
<1>7. new \in [1..n -> Dispatch] /\ \A i \in 1..n : new[i] = Entry(order[i])
  BY <1>5, <1>6
<1> HIDE DEF n
<1>8. new \in Seq(Dispatch) /\ Len(new) = n
  <2> HIDE DEF new
  <2>1. new \in Seq(Dispatch)
    BY <1>3, <1>7, SeqDef DEF n
  <2>2. QED
    BY <1>3, <1>7, <2>1 DEF n
<1> DEFINE l == Len(dispatching)
<1> HIDE DEF new
<1>9. /\ dispatching' \in Seq(Dispatch) /\ Len(dispatching') = l + n
      /\ \A i \in 1..(l + n) : dispatching'[i] = IF i <= l THEN dispatching[i] ELSE new[i - l]
  BY <1>1, <1>4, <1>8, ConcatProperties DEF new
<1>10. l \in Nat /\ n \in Nat /\ DOMAIN dispatching = 1..l /\ DOMAIN dispatching' = 1..(l + n)
  BY <1>1, <1>3, <1>9 DEF n
<1>11. \A i \in DOMAIN dispatching : i \in DOMAIN dispatching' /\ dispatching'[i] = dispatching[i]
  BY <1>9, <1>10
<1>12. \A i \in DOMAIN dispatching' \ DOMAIN dispatching :
          i - l \in 1..n /\ dispatching'[i] = Entry(order[i - l]) /\ order[i - l] \in heard
  BY <1>5, <1>7, <1>9, <1>10
<1>13. ASSUME \A q, r \in heard : q = r,
              NEW i \in DOMAIN dispatching' \ DOMAIN dispatching,
              NEW j \in DOMAIN dispatching' \ DOMAIN dispatching
       PROVE  i = j
  <2>1. i - l = j - l
    BY <1>5, <1>12, <1>13
  <2>2. QED
    BY <1>10, <2>1
<1>14. QED
  BY <1>2, <1>6, <1>9, <1>11, <1>12, <1>13

\* A dispatch calls its next handler, or ends.
Ends(i) == dispatching' = RemoveAt(dispatching, i) /\ UNCHANGED received
Calls(i, r) ==
    /\ r \in Dispatch /\ r.msg = dispatching[i].msg /\ r.stage = "calling" /\ r.subs # <<>>
    /\ dispatching' = [dispatching EXCEPT ![i] = r]
    /\ Handed(Head(r.subs), r.msg) /\ Head(r.subs) \in Subs
    /\ \/ dispatching[i].stage = "new" /\ OneEach(r.subs)
       \/ dispatching[i].stage = "calling" /\ r.subs = Tail(dispatching[i].subs)

\* A dispatch that begins copies the handlers and calls the first, or ends.
LEMMA DispatchBeginsIs ==
    ASSUME TypeOK, ListsInv, NEW i \in DOMAIN dispatching, DispatchBegins(i)
    PROVE  Ends(i) \/ \E r : Calls(i, r)
<1> DEFINE d == dispatching[i]
           subs == ListOf(d.topic)
           r == [[d EXCEPT !.stage = "calling"] EXCEPT !.subs = subs]
<1>1. d \in Dispatch /\ d.stage = "new"
  BY TypesAre DEF DispatchBegins
<1>2. CASE subs = <<>>
  BY <1>2 DEF DispatchBegins, Ends
<1>3. CASE subs # <<>>
  <2>1. d.topic \in DOMAIN subscriptions /\ subs = subscriptions[d.topic]
    BY <1>3 DEF ListOf
  <2>2. subs \in Seq(Subs) /\ OneEach(subs)
    BY <2>1, TypesAre DEF ListsInv
  <2>3. Head(subs) \in Subs
    BY <1>3, <2>2
  <2>4. dispatching' = [dispatching EXCEPT ![i] = r] /\ Handed(Head(subs), d.msg)
    BY <1>3, TypesAre DEF DispatchBegins
  <2> HIDE DEF subs
  <2>5. r \in Dispatch /\ r.msg = d.msg /\ r.stage = "calling" /\ r.subs = subs
    BY <1>1, <2>2 DEF Dispatch
  <2> HIDE DEF r
  <2>6. Calls(i, r)
    BY <1>1, <1>3, <2>2, <2>3, <2>4, <2>5 DEF Calls
  <2>7. QED
    BY <2>6
<1>4. QED
  BY <1>2, <1>3

\* A handler that ends is followed by the next, or by the end of the dispatch.
LEMMA HandlerEndsIs ==
    ASSUME TypeOK, SentInv, NEW i \in DOMAIN dispatching, HandlerEnds(i)
    PROVE  Ends(i) \/ \E r : Calls(i, r)
<1> DEFINE d == dispatching[i]
           rest == Tail(d.subs)
           r == [d EXCEPT !.subs = rest]
<1>1. d \in Dispatch /\ d.stage = "calling" /\ d.subs # <<>>
  BY TypesAre DEF HandlerEnds, SentInv
<1>2. CASE rest = <<>>
  BY <1>2 DEF HandlerEnds, Ends
<1>3. CASE rest # <<>>
  <2>1. d.subs \in Seq(Subs)
    BY <1>1 DEF Dispatch
  <2>2. rest \in Seq(Subs)
    BY <1>1, <2>1
  <2>3. Head(rest) \in Subs
    BY <1>3, <2>2
  <2>4. dispatching' = [dispatching EXCEPT ![i] = r] /\ Handed(Head(rest), d.msg)
    BY <1>3 DEF HandlerEnds
  <2> HIDE DEF rest
  <2>5. r \in Dispatch /\ r.msg = d.msg /\ r.stage = "calling" /\ r.subs = rest
    BY <1>1, <2>2 DEF Dispatch
  <2> HIDE DEF r
  <2>6. Calls(i, r)
    BY <1>1, <1>3, <2>3, <2>4, <2>5 DEF Calls, rest
  <2>7. QED
    BY <2>6
<1>4. QED
  BY <1>2, <1>3

\* What is handed to a handler joins what it has received.
LEMMA HandedIs ==
    ASSUME TypeOK, NEW s \in Subs, NEW m \in 1..MaxMsgs, Handed(s, m)
    PROVE  /\ received' \in [Subs -> Seq(1..MaxMsgs)]
           /\ \A x \in Subs : Range(received'[x]) =
                 IF x = s THEN Range(received[x]) \union {m} ELSE Range(received[x])
           /\ \A x \in Subs : OneEach(received[x]) /\ ~(x = s /\ m \in Range(received[s]))
                 => OneEach(received'[x])
<1>1. received \in [Subs -> Seq(1..MaxMsgs)] /\ received' = [received EXCEPT ![s] = Append(received[s], m)]
  BY TypesAre DEF Handed
<1> DEFINE l == received[s]
           a == Append(l, m)
<1>2. /\ a \in Seq(1..MaxMsgs) /\ Range(a) = Range(l) \union {m}
      /\ OneEach(l) /\ m \notin Range(l) => OneEach(a)
  <2> DEFINE M == 1..MaxMsgs
  <2>1. l \in Seq(M) /\ m \in M
    BY <1>1
  <2> HIDE DEF l, M
  <2>2. /\ Append(l, m) \in Seq(M) /\ Range(Append(l, m)) = Range(l) \union {m}
        /\ OneEach(l) /\ m \notin Range(l) => OneEach(Append(l, m))
    BY <2>1, ListWithOneMore
  <2>3. QED
    BY <2>2 DEF M
<1> HIDE DEF a
<1>3. /\ received' \in [Subs -> Seq(1..MaxMsgs)]
      /\ \A x \in Subs : received'[x] = IF x = s THEN a ELSE received[x]
  BY <1>1, <1>2 DEF a
<1>4. QED
  BY <1>2, <1>3

\* What is handed out, or dropped, keeps the types.
LEMMA DispatchStepTypes ==
    ASSUME TypeOK, NEW i \in DOMAIN dispatching, Ends(i) \/ \E r : Calls(i, r)
    PROVE  dispatching' \in Seq(Dispatch) /\ received' \in [Subs -> Seq(1..MaxMsgs)]
<1>1. dispatching \in Seq(Dispatch)
  BY TypesAre
<1>2. CASE Ends(i)
  BY <1>1, <1>2, OthersStay, TypesAre DEF Ends
<1>3. ASSUME NEW r, Calls(i, r) PROVE dispatching' \in Seq(Dispatch) /\ received' \in [Subs -> Seq(1..MaxMsgs)]
  <2>1. dispatching' \in Seq(Dispatch)
    BY <1>1, <1>3, ExceptKeeps DEF Calls
  <2>2. r.msg \in 1..MaxMsgs
    BY <1>3 DEF Calls, Dispatch
  <2>3. QED
    BY <1>3, <2>1, <2>2, HandedIs DEF Calls
<1>4. QED
  BY <1>2, <1>3

-------------------------------------------------------------------------------
\* Every step keeps the types and the facts about stacks.
LEMMA StepTypes ==
    ASSUME TypeOK, StackInv, ListsInv, SentInv, [Next]_vars
    PROVE  (TypeOK /\ StackInv)'
<1>1. CASE Start
  BY <1>1, StartTypes
<1>2. ASSUME NEW discovery \in {"running", "none"}, Started(discovery) PROVE (TypeOK /\ StackInv)'
  BY <1>2, StartedTypes
<1>3. CASE Stop
  BY <1>3, StopTypes
<1>4. ASSUME NEW s \in Subs, NEW t \in Topics, Subscribe(s, t) PROVE (TypeOK /\ StackInv)'
  BY <1>4, SubscribeTypes
<1>5. ASSUME NEW s \in Subs, Unsubscribe(s) PROVE (TypeOK /\ StackInv)'
  BY <1>5, UnsubscribeTypes
<1>6. ASSUME NEW i \in DOMAIN tasks, TaskSteps(i) PROVE (TypeOK /\ StackInv)'
  BY <1>6, BeginsTypes, BoundTypes, FailsTypes, StopTaskTypes DEF TaskSteps
<1>7. ASSUME NEW t \in Topics, NEW heard \in SUBSET DOMAIN rx, Notified(t, heard)
      PROVE  (TypeOK /\ StackInv)'
  <2>1. UNCHANGED <<bus, subscriptions, home, receivers, rx, tasks, received>>
    BY <1>7 DEF Notified, user
  <2>2. QED
    BY <1>7, <2>1, NotifiedIs, TypesAre, DispatchTypes
<1>8. ASSUME NEW i \in DOMAIN dispatching, DispatchBegins(i) \/ HandlerEnds(i)
      PROVE  (TypeOK /\ StackInv)'
  <2>1. UNCHANGED <<bus, subscriptions, home, receivers, rx, tasks, sent>>
    BY <1>8 DEF DispatchBegins, HandlerEnds, user
  <2>2. Ends(i) \/ \E r : Calls(i, r)
    BY <1>8, DispatchBeginsIs, HandlerEndsIs
  <2>3. QED
    BY <2>1, <2>2, DispatchStepTypes, TypesAre, DispatchTypes
<1>9. CASE UNCHANGED vars
  <2>1. UNCHANGED <<bus, subscriptions, home, receivers, rx, tasks, dispatching, sent, received>>
    BY <1>9 DEF vars, user
  <2>2. QED
    BY <2>1, TypesAre, DispatchTypes
<1>10. QED
  BY <1>1, <1>2, <1>3, <1>4, <1>5, <1>6, <1>7, <1>8, <1>9 DEF Next, TaskSteps

-------------------------------------------------------------------------------
(* The lists of subscriptions, and what was sent.                          *)

\* The items of a list.
LEMMA ItemOf == ASSUME NEW S, NEW l \in Seq(S), NEW i \in DOMAIN l PROVE l[i] \in S
OBVIOUS

\* Lists keep their subscriptions: a new one goes into the list of its own topic,
LEMMA SubscribeLists ==
    ASSUME TypeOK, ListsInv, NEW s \in Subs, NEW t \in Topics, Subscribe(s, t) PROVE ListsInv'
<1>1. /\ home[s] = NoTopic /\ home' = [home EXCEPT ![s] = t]
      /\ DOMAIN subscriptions' = DOMAIN subscriptions \union {t}
      /\ \A u \in DOMAIN subscriptions' : subscriptions'[u] =
            IF u = t THEN Append(ListOf(t), s) ELSE subscriptions[u]
  BY DEF Subscribe
<1>2. /\ home \in [Subs -> Topics \union {NoTopic}] /\ DOMAIN subscriptions \subseteq Topics
      /\ \A u \in DOMAIN subscriptions : subscriptions[u] \in Seq(Subs)
  BY TypesAre
<1>3. home'[s] = t /\ \A x \in Subs : x # s => home'[x] = home[x]
  BY <1>1, <1>2
<1>4. ASSUME NEW u \in DOMAIN subscriptions, NEW i \in DOMAIN subscriptions[u]
      PROVE  /\ subscriptions[u][i] \in Subs /\ subscriptions[u][i] # s
             /\ home'[subscriptions[u][i]] = u
  <2>1. home[subscriptions[u][i]] = u /\ u # NoTopic
    BY <1>2, SubscriberAssumption DEF ListsInv
  <2>2. subscriptions[u][i] \in Subs
    BY <1>2
  <2>3. QED
    BY <1>1, <1>3, <2>1, <2>2
<1>5. /\ ListOf(t) \in Seq(Subs) /\ OneEach(ListOf(t))
      /\ \A i \in DOMAIN ListOf(t) : ListOf(t)[i] # s /\ home'[ListOf(t)[i]] = t
  <2>1. CASE t \in DOMAIN subscriptions
    BY <1>2, <1>4, <2>1 DEF ListOf, ListsInv
  <2>2. CASE t \notin DOMAIN subscriptions
    <3>1. ListOf(t) = <<>> /\ DOMAIN <<>> = {} /\ <<>> \in Seq(Subs)
      BY <2>2, EmptySeq DEF ListOf
    <3>2. QED
      BY <3>1 DEF OneEach
  <2>3. QED
    BY <2>1, <2>2
<1> DEFINE l == ListOf(t)
           a == Append(l, s)
<1> HIDE DEF l
<1>6. /\ a # <<>> /\ DOMAIN a = DOMAIN l \union {Len(l) + 1} /\ \A i \in DOMAIN l : a[i] = l[i]
      /\ a[Len(l) + 1] = s /\ (OneEach(l) /\ s \notin Range(l) => OneEach(a))
  BY <1>5, ListWithOneMore DEF l
<1>7. s \notin Range(l)
  BY <1>5 DEF l, Range
<1> HIDE DEF a
<1>8. OneEach(a) /\ \A i \in DOMAIN a : home'[a[i]] = t
  BY <1>3, <1>5, <1>6, <1>7 DEF l
<1>9. ASSUME NEW u \in DOMAIN subscriptions'
      PROVE  /\ subscriptions'[u] # <<>> /\ OneEach(subscriptions'[u])
             /\ \A i \in DOMAIN subscriptions'[u] : home'[subscriptions'[u][i]] = u
  <2>1. CASE u = t
    BY <1>1, <1>6, <1>8, <2>1 DEF a, l
  <2>2. CASE u # t
    BY <1>1, <1>4, <2>2 DEF ListsInv
  <2>3. QED
    BY <2>1, <2>2
<1>10. QED
  BY <1>9 DEF ListsInv

\* and one that goes leaves the others, or an absent list.
LEMMA UnsubscribeLists ==
    ASSUME TypeOK, ListsInv, NEW s \in Subs, Unsubscribe(s) PROVE ListsInv'
<1> DEFINE t == home[s]
           l == subscriptions[t]
           rest == Removed(l, s)
<1>1. /\ t \in DOMAIN subscriptions /\ OneEach(rest) /\ Range(rest) = Range(l) \ {s}
      /\ DOMAIN subscriptions' = IF rest = <<>> THEN DOMAIN subscriptions \ {t} ELSE DOMAIN subscriptions
      /\ \A u \in DOMAIN subscriptions' : subscriptions'[u] = IF u = t THEN rest ELSE subscriptions[u]
  BY UnsubscribeIs
<1>2. home' = home
  BY DEF Unsubscribe
<1> HIDE DEF rest
<1>3. \A i \in DOMAIN rest : home[rest[i]] = t
  <2> TAKE i \in DOMAIN rest
  <2>1. rest[i] \in Range(rest)
    BY DEF Range
  <2>2. PICK j \in DOMAIN l : l[j] = rest[i]
    BY <1>1, <2>1 DEF Range
  <2>3. QED
    BY <1>1, <2>2 DEF ListsInv
<1>4. ASSUME NEW u \in DOMAIN subscriptions'
      PROVE  /\ subscriptions'[u] # <<>> /\ OneEach(subscriptions'[u])
             /\ \A i \in DOMAIN subscriptions'[u] : home[subscriptions'[u][i]] = u
  <2>1. CASE u = t
    BY <1>1, <1>3, <2>1
  <2>2. CASE u # t
    BY <1>1, <2>2 DEF ListsInv
  <2>3. QED
    BY <2>1, <2>2
<1>5. QED
  BY <1>2, <1>4 DEF ListsInv

\* Every step keeps the lists.
LEMMA StepLists == ASSUME TypeOK, ListsInv, [Next]_vars PROVE ListsInv'
<1>1. ASSUME NEW s \in Subs, NEW t \in Topics, Subscribe(s, t) PROVE ListsInv'
  BY <1>1, SubscribeLists
<1>2. ASSUME NEW s \in Subs, Unsubscribe(s) PROVE ListsInv'
  BY <1>2, UnsubscribeLists
<1>3. CASE UNCHANGED <<subscriptions, home>>
  BY <1>3 DEF ListsInv
<1>4. QED
  BY <1>1, <1>2, <1>3
  DEF Next, vars, user, Start, Started, Stop, StartTaskBegins, StartTaskWakes, EndpointBound,
      EndpointFails, StopTask, Notified, DispatchBegins, HandlerEnds

\* A dispatch that ends or calls a handler stays within what was sent.
LEMMA DispatchSent ==
    ASSUME TypeOK, SentInv, sent' = sent, NEW i \in DOMAIN dispatching, Ends(i) \/ \E r : Calls(i, r)
    PROVE  SentInv'
<1>1. dispatching \in Seq(Dispatch) /\ received \in [Subs -> Seq(1..MaxMsgs)]
  BY TypesAre
<1>2. CASE Ends(i)
  <2>1. \A j \in DOMAIN dispatching' : \E h \in DOMAIN dispatching : dispatching'[j] = dispatching[h]
    BY <1>1, <1>2, OthersStay DEF Ends
  <2>2. received' = received
    BY <1>2 DEF Ends
  <2>3. QED
    BY <2>1, <2>2 DEF SentInv
<1>3. ASSUME NEW r, Calls(i, r) PROVE SentInv'
  <2>1. /\ r.msg = dispatching[i].msg /\ r.subs # <<>> /\ r.msg \in 1..MaxMsgs
        /\ DOMAIN dispatching' = DOMAIN dispatching /\ dispatching'[i] = r
        /\ \A j \in DOMAIN dispatching : j # i => dispatching'[j] = dispatching[j]
    BY <1>1, <1>3 DEF Calls, Dispatch
  <2>2. r.msg <= Len(sent)
    BY <2>1 DEF SentInv
  <2>3. \A x \in Subs : Range(received'[x]) \subseteq Range(received[x]) \union {r.msg}
    BY <1>3, <2>1, HandedIs DEF Calls
  <2>4. \A x \in Subs : \A j \in DOMAIN received'[x] : received'[x][j] <= Len(sent)
    <3> TAKE x \in Subs
    <3> TAKE j \in DOMAIN received'[x]
    <3>1. received'[x][j] \in Range(received[x]) \union {r.msg}
      BY <2>3 DEF Range
    <3>2. QED
      BY <2>2, <3>1 DEF SentInv, Range
  <2>5. \A j \in DOMAIN dispatching' : /\ dispatching'[j].msg <= Len(sent)
                                       /\ dispatching'[j].stage = "calling" => dispatching'[j].subs # <<>>
    BY <2>1, <2>2 DEF SentInv
  <2>6. QED
    BY <2>4, <2>5 DEF SentInv
<1>4. QED
  BY <1>2, <1>3

\* Every step keeps what was dispatched and received within what was sent.
LEMMA StepSent == ASSUME TypeOK, ListsInv, SentInv, [Next]_vars PROVE SentInv'
<1>1. ASSUME NEW t \in Topics, NEW heard \in SUBSET DOMAIN rx, Notified(t, heard) PROVE SentInv'
  <2>1. /\ Len(sent) \in Nat /\ Len(sent') = Len(sent) + 1
        /\ \A i \in DOMAIN dispatching : i \in DOMAIN dispatching' /\ dispatching'[i] = dispatching[i]
        /\ \A i \in DOMAIN dispatching' \ DOMAIN dispatching :
              dispatching'[i].msg = Len(sent) + 1 /\ dispatching'[i].stage = "new"
    BY <1>1, NotifiedIs
  <2>2. received' = received
    BY <1>1 DEF Notified
  <2>3. /\ \A i \in DOMAIN dispatching : dispatching[i].msg \in Nat
        /\ \A s \in Subs : \A i \in DOMAIN received[s] : received[s][i] \in Nat
    <3>1. dispatching \in Seq(Dispatch) /\ received \in [Subs -> Seq(1..MaxMsgs)]
      BY TypesAre
    <3>2. \A i \in DOMAIN dispatching : dispatching[i] \in Dispatch
      BY <3>1
    <3>3. \A i \in DOMAIN dispatching : dispatching[i].msg \in Nat
      BY <3>2 DEF Dispatch
    <3>4. \A s \in Subs : \A i \in DOMAIN received[s] : received[s][i] \in Nat
      <4> TAKE s \in Subs
      <4> TAKE i \in DOMAIN received[s]
      <4>1. received[s] \in Seq(1..MaxMsgs)
        BY <3>1
      <4>2. received[s][i] \in 1..MaxMsgs
        BY <4>1, ItemOf
      <4>3. QED
        BY <4>2
    <3>5. QED
      BY <3>3, <3>4
  <2>4. ASSUME NEW i \in DOMAIN dispatching'
        PROVE  /\ dispatching'[i].msg <= Len(sent')
               /\ dispatching'[i].stage = "calling" => dispatching'[i].subs # <<>>
    BY <2>1, <2>3 DEF SentInv
  <2>5. ASSUME NEW s \in Subs, NEW i \in DOMAIN received'[s] PROVE received'[s][i] <= Len(sent')
    BY <2>1, <2>2, <2>3 DEF SentInv
  <2>6. QED
    BY <2>4, <2>5 DEF SentInv
<1>2. ASSUME NEW i \in DOMAIN dispatching, DispatchBegins(i) \/ HandlerEnds(i) PROVE SentInv'
  <2>1. sent' = sent
    BY <1>2 DEF DispatchBegins, HandlerEnds
  <2>2. QED
    BY <1>2, <2>1, DispatchBeginsIs, HandlerEndsIs, DispatchSent
<1>3. CASE UNCHANGED <<dispatching, sent, received>>
  BY <1>3 DEF SentInv
<1>4. QED
  BY <1>1, <1>2, <1>3
  DEF Next, vars, Start, Started, Stop, Subscribe, Unsubscribe, StartTaskBegins, StartTaskWakes,
      EndpointBound, EndpointFails, StopTask

\* At first there is neither a list nor a notification.
LEMMA InitListsSent == Init => ListsInv /\ SentInv
<1>1. DOMAIN <<>> = {}
  OBVIOUS
<1>2. QED
  BY <1>1 DEF Init, ListsInv, SentInv

\* The types, and what they rest on, hold in every state.
THEOREM TypesInductive == Spec => [](TypeOK /\ StackInv /\ ListsInv /\ SentInv)
<1>1. Init => TypeOK /\ StackInv /\ ListsInv /\ SentInv
  BY InitTypes, InitListsSent
<1>2. TypeOK /\ StackInv /\ ListsInv /\ SentInv /\ [Next]_vars
         => (TypeOK /\ StackInv /\ ListsInv /\ SentInv)'
  BY StepTypes, StepLists, StepSent
<1>3. QED
  BY <1>1, <1>2, PTL DEF Spec

\* The types of the bus's fields, of its tasks and of the history, in every state.
THEOREM TypeCorrect == Spec => []TypeOK
BY TypesInductive, PTL

-------------------------------------------------------------------------------
(* The sockets, away from the races.                                       *)

\* A race that happened is not forgotten.
LEMMA RacesStay == [Next]_vars => races \subseteq races'
BY DEF Next, vars, Start, Started, Stop, Subscribe, Unsubscribe, StartTaskBegins, StartTaskWakes,
       EndpointBound, EndpointFails, StopTask, Notified, DispatchBegins, HandlerEnds

\* A step of the tasks and the lists alone.
LEMMA TasksCalm ==
    ASSUME Calm, UNCHANGED <<bus, receivers, rx>>, StartsCalm',
           \A t \in Topics : IsBound(t) => Behind(t)'
    PROVE  Calm'
<1>1. sd' = sd /\ subscriber' = subscriber
  BY DEF bus, stack
<1>2. SocketsCalm'
  BY <1>1 DEF Calm, SocketsCalm, OpenSockets
<1>3. \A t \in Topics : IsBound(t)' <=> IsBound(t)
  BY <1>1 DEF IsBound
<1>4. BoundCalm'
  BY <1>1, <1>3 DEF Calm, BoundCalm
<1>5. QED
  BY <1>2, <1>4 DEF Calm

\* Calm speaks of tasks, lists, stacks and receivers and of nothing else.
LEMMA NothingCalm ==
    ASSUME Calm, UNCHANGED <<subscriber, sd, receivers, rx, tasks, subscriptions>> PROVE Calm'
BY DEF Calm, StartsCalm, BoundCalm, SocketsCalm, OpenSockets, Behind, IsBound, IsTask

\* Calm, step by step: a new stack replaces none, for that would be a race,
LEMMA StartedCalm ==
    ASSUME TypeOK, StackInv, Calm, NEW discovery \in {"running", "none"}, Started(discovery), races' = {}
    PROVE  Calm'
<1>1. ~started /\ subscriber = NoStack
  BY DEF Started, StackInv
<1>2. /\ sd' = Append(sd, discovery) /\ receivers' = Append(receivers, <<>>)
      /\ subscriber' = Len(sd) + 1 /\ UNCHANGED <<rx, tasks, subscriptions>>
  BY DEF Started, StartReturns, NewSubscriber, user
<1>3. \A i \in DOMAIN tasks : tasks[i].stage # "binding"
  BY <1>1 DEF Calm, StartsCalm, StackInv
<1>4. StartsCalm'
  BY <1>2, <1>3 DEF Calm, StartsCalm, IsTask
<1>5. DOMAIN receivers'[subscriber'] = {}
  <2>1. receivers \in Seq(Maps(DOMAIN rx)) /\ Len(receivers) = Len(sd)
    BY TypesAre
  <2>2. <<>> \in Maps(DOMAIN rx)
    BY DEF Maps
  <2>3. receivers'[Len(receivers) + 1] = <<>>
    BY <1>2, <2>1, <2>2, ListWithOneMore
  <2>4. QED
    BY <1>2, <2>1, <2>3
<1>6. BoundCalm'
  BY <1>5 DEF BoundCalm, IsBound
<1>7. SocketsCalm'
  BY <1>1, <1>2, <1>5 DEF Calm, SocketsCalm, OpenSockets
<1>8. QED
  BY <1>4, <1>6, <1>7 DEF Calm

\* stop() closes every receiver there is, and no start task is binding one,
LEMMA StopCalm == ASSUME TypeOK, StackInv, Calm, Stop, races' = {} PROVE Calm'
<1>1. /\ subscriber' = NoStack /\ rx' = Closed(Range(receivers[subscriber]))
      /\ UNCHANGED <<tasks, subscriptions>>
  BY DEF Stop, user
<1>2. \A i \in DOMAIN tasks : tasks[i].stage # "binding"
  BY DEF Stop
<1>3. StartsCalm'
  BY <1>1, <1>2 DEF Calm, StartsCalm, IsTask
<1>4. BoundCalm'
  BY <1>1 DEF BoundCalm, IsBound
<1>5. \A r \in DOMAIN rx' : ~rx'[r].open
  <2>1. /\ DOMAIN rx' = DOMAIN rx
        /\ \A r \in DOMAIN rx : rx'[r].open => rx[r].open /\ r \notin Range(receivers[subscriber])
    BY <1>1, ClosedIs, TypesAre
  <2>2. QED
    BY <2>1 DEF Calm, SocketsCalm, OpenSockets
<1>6. SocketsCalm'
  BY <1>1, <1>5 DEF SocketsCalm, OpenSockets
<1>7. QED
  BY <1>3, <1>4, <1>6 DEF Calm

\* a first subscription starts a task behind any stop task of the topic,
LEMMA SubscribeCalm ==
    ASSUME TypeOK, StackInv, Calm, NEW s \in Subs, NEW t \in Topics, Subscribe(s, t)
    PROVE  Calm'
<1>1. /\ DOMAIN subscriptions' = DOMAIN subscriptions \union {t} /\ UNCHANGED <<bus, receivers, rx>>
      /\ sd' = sd /\ subscriber' = subscriber
  BY DEF Subscribe, bus, stack
<1>2. CASE t \in DOMAIN subscriptions
  <2>1. tasks' = tasks /\ DOMAIN subscriptions' = DOMAIN subscriptions
    BY <1>1, <1>2 DEF Subscribe
  <2>2. StartsCalm'
    BY <1>1, <2>1 DEF Calm, StartsCalm, IsTask
  <2>3. \A u \in Topics : IsBound(u) => Behind(u)'
    BY <2>1 DEF Calm, BoundCalm, Behind, IsTask
  <2>4. QED
    BY <1>1, <2>2, <2>3, TasksCalm
<1>3. CASE t \notin DOMAIN subscriptions
  <2> DEFINE n == Len(tasks) + 1
  <2>1. /\ DOMAIN tasks' = DOMAIN tasks \union {n} /\ n \notin DOMAIN tasks
        /\ \A j \in DOMAIN tasks : j < n /\ tasks'[j] = tasks[j]
        /\ tasks'[n] = Task("start", t)
    BY <1>3, TaskAdded DEF Subscribe
  <2>2. tasks'[n].kind = "start" /\ tasks'[n].topic = t /\ tasks'[n].stage = "new"
    BY <2>1 DEF Task
  <2> HIDE DEF n
  <2>3. \A i \in DOMAIN tasks : ~IsTask(i, "start", t)
    BY <1>3 DEF Calm, StartsCalm
  <2>4. \A u \in Topics : \A i \in DOMAIN tasks' :
           IsTask(i, "start", u)' <=> IsTask(i, "start", u) \/ (i = n /\ u = t)
    BY <2>1, <2>2 DEF IsTask
  <2>5. \A u \in Topics : \A i \in DOMAIN tasks : IsTask(i, "stop", u)' <=> IsTask(i, "stop", u)
    BY <2>1 DEF IsTask
  <2>6. StartsCalm'
    <3>1. \A u \in Topics : \A i, j \in DOMAIN tasks' :
             IsTask(i, "start", u)' /\ IsTask(j, "start", u)' => i = j
      BY <2>1, <2>3, <2>4 DEF Calm, StartsCalm, IsTask
    <3>2. \A u \in Topics : \A i \in DOMAIN tasks' : IsTask(i, "start", u)' => u \in DOMAIN subscriptions'
      BY <1>1, <2>1, <2>4 DEF Calm, StartsCalm, IsTask
    <3>3. \A i \in DOMAIN tasks' :
             tasks'[i].stage = "binding" => tasks'[i].stack = subscriber' /\ sd'[subscriber'] # "none"
      BY <1>1, <2>1, <2>2 DEF Calm, StartsCalm
    <3>4. QED
      BY <3>1, <3>2, <3>3 DEF StartsCalm
  <2>7. ASSUME NEW u \in Topics, IsBound(u) PROVE Behind(u)'
    <3>1. Behind(u)
      BY <2>7 DEF Calm, BoundCalm
    <3>2. u \notin DOMAIN subscriptions' => \E j \in DOMAIN tasks' : IsTask(j, "stop", u)'
      BY <1>1, <2>1, <2>5, <3>1 DEF Behind
    <3>3. ASSUME NEW i \in DOMAIN tasks', IsTask(i, "start", u)'
          PROVE  tasks'[i].stage = "new" /\ \E j \in DOMAIN tasks' : j < i /\ IsTask(j, "stop", u)'
      <4>1. CASE i = n /\ u = t
        <5>1. PICK j \in DOMAIN tasks : IsTask(j, "stop", u)
          BY <1>3, <3>1, <4>1 DEF Behind
        <5>2. QED
          BY <2>1, <2>2, <2>5, <4>1, <5>1
      <4>2. CASE i \in DOMAIN tasks /\ IsTask(i, "start", u)
        <5>1. PICK j \in DOMAIN tasks : j < i /\ IsTask(j, "stop", u)
          BY <3>1, <4>2 DEF Behind
        <5>2. tasks[i].stage = "new"
          BY <3>1, <4>2 DEF Behind
        <5>3. QED
          BY <2>1, <2>5, <4>2, <5>1, <5>2
      <4>3. QED
        BY <2>4, <3>3, <4>1, <4>2 DEF IsTask
    <3>4. QED
      BY <3>2, <3>3 DEF Behind
  <2>8. QED
    BY <1>1, <2>6, <2>7, TasksCalm
<1>4. QED
  BY <1>2, <1>3

\* a last unsubscribe starts a stop task, and finds no start task of the topic,
LEMMA UnsubscribeCalm ==
    ASSUME TypeOK, StackInv, ListsInv, Calm, NEW s \in Subs, Unsubscribe(s), races' = {}
    PROVE  Calm'
<1>0. PICK t, n : t = home[s] /\ n = Len(tasks) + 1
  OBVIOUS
<1> DEFINE rest == Removed(subscriptions[t], s)
<1>1. /\ t \in DOMAIN subscriptions
      /\ DOMAIN subscriptions' = IF rest = <<>> THEN DOMAIN subscriptions \ {t} ELSE DOMAIN subscriptions
      /\ tasks' = IF rest = <<>> /\ subscriber # NoStack THEN Append(tasks, Task("stop", t)) ELSE tasks
  BY <1>0, UnsubscribeIs
<1>2. /\ UNCHANGED <<bus, receivers, rx>> /\ sd' = sd /\ subscriber' = subscriber /\ t \in Topics
  BY <1>1, TypesAre DEF Unsubscribe, bus, stack
<1>3. rest = <<>> => \A i \in DOMAIN tasks : ~IsTask(i, "start", t)
  <2>1. ListOf(t) = subscriptions[t]
    BY <1>1 DEF ListOf
  <2>2. QED
    BY <1>0, <2>1 DEF Unsubscribe, IsTask
<1> HIDE DEF rest
<1>4. CASE ~(rest = <<>> /\ subscriber # NoStack)
  <2>1. tasks' = tasks
    BY <1>1, <1>4
  <2>2. StartsCalm'
    BY <1>1, <1>2, <1>3, <2>1 DEF Calm, StartsCalm, IsTask
  <2>3. \A u \in Topics : IsBound(u) => Behind(u)'
    BY <1>1, <1>4, <2>1 DEF Calm, BoundCalm, Behind, IsTask, IsBound
  <2>4. QED
    BY <1>2, <2>2, <2>3, TasksCalm
<1>5. CASE rest = <<>> /\ subscriber # NoStack
  <2>1. /\ DOMAIN tasks' = DOMAIN tasks \union {n} /\ n \notin DOMAIN tasks
        /\ \A j \in DOMAIN tasks : tasks'[j] = tasks[j]
        /\ tasks'[n] = Task("stop", t)
    BY <1>0, <1>1, <1>2, <1>5, TaskAdded
  <2>2. tasks'[n].kind = "stop" /\ tasks'[n].topic = t /\ tasks'[n].stage = "new"
    BY <2>1 DEF Task
  <2>3. \A u \in Topics : \A i \in DOMAIN tasks' :
           IsTask(i, "start", u)' <=> IsTask(i, "start", u)
    BY <2>1, <2>2 DEF IsTask
  <2>4. \A u \in Topics : \A i \in DOMAIN tasks : IsTask(i, "stop", u) => IsTask(i, "stop", u)'
    BY <2>1 DEF IsTask
  <2>5. IsTask(n, "stop", t)' /\ n \in DOMAIN tasks'
    BY <2>1, <2>2 DEF IsTask
  <2>6. StartsCalm'
    <3>1. \A u \in Topics : \A i, j \in DOMAIN tasks' :
             IsTask(i, "start", u)' /\ IsTask(j, "start", u)' => i = j
      BY <2>3 DEF Calm, StartsCalm, IsTask
    <3>2. \A u \in Topics : \A i \in DOMAIN tasks' : IsTask(i, "start", u)' => u \in DOMAIN subscriptions'
      BY <1>1, <1>3, <1>5, <2>3 DEF Calm, StartsCalm, IsTask
    <3>3. \A i \in DOMAIN tasks' :
             tasks'[i].stage = "binding" => tasks'[i].stack = subscriber' /\ sd'[subscriber'] # "none"
      BY <1>2, <2>1, <2>2 DEF Calm, StartsCalm
    <3>4. QED
      BY <3>1, <3>2, <3>3 DEF StartsCalm
  <2>7. ASSUME NEW u \in Topics, IsBound(u) PROVE Behind(u)'
    <3>1. Behind(u)
      BY <2>7 DEF Calm, BoundCalm
    <3>2. u \notin DOMAIN subscriptions' => \E j \in DOMAIN tasks' : IsTask(j, "stop", u)'
      BY <1>1, <2>1, <2>4, <2>5, <3>1 DEF Behind
    <3>3. ASSUME NEW i \in DOMAIN tasks', IsTask(i, "start", u)'
          PROVE  tasks'[i].stage = "new" /\ \E j \in DOMAIN tasks' : j < i /\ IsTask(j, "stop", u)'
      <4>1. i \in DOMAIN tasks /\ IsTask(i, "start", u)
        BY <2>3, <3>3 DEF IsTask
      <4>2. PICK j \in DOMAIN tasks : j < i /\ IsTask(j, "stop", u)
        BY <3>1, <4>1 DEF Behind
      <4>3. tasks[i].stage = "new"
        BY <3>1, <4>1 DEF Behind
      <4>4. QED
        BY <2>1, <2>4, <4>1, <4>2, <4>3
    <3>4. QED
      BY <3>2, <3>3 DEF Behind
  <2>8. QED
    BY <1>2, <2>6, <2>7, TasksCalm
<1>6. QED
  BY <1>4, <1>5

\* A task that is done leaves the start tasks as they should be ...
LEMMA DoneStarts ==
    ASSUME TypeOK, StackInv, StartsCalm, NEW i \in DOMAIN tasks, Done(i),
           UNCHANGED <<subscriptions, subscriber, sd>>
    PROVE  StartsCalm'
<1>1. /\ \A j \in DOMAIN tasks' : Old(i, j) \in DOMAIN tasks /\ tasks'[j] = tasks[Old(i, j)]
      /\ \A j, k \in DOMAIN tasks' : Old(i, j) = Old(i, k) => j = k
  BY TaskDone
<1>2. \A u \in Topics : \A j \in DOMAIN tasks' :
         IsTask(j, "start", u)' => IsTask(Old(i, j), "start", u)
  BY <1>1 DEF IsTask
<1>3. \A u \in Topics : \A j, k \in DOMAIN tasks' :
         IsTask(j, "start", u)' /\ IsTask(k, "start", u)' => j = k
  BY <1>1, <1>2 DEF StartsCalm
<1>4. \A u \in Topics : \A j \in DOMAIN tasks' : IsTask(j, "start", u)' => u \in DOMAIN subscriptions'
  BY <1>1, <1>2 DEF StartsCalm
<1>5. \A j \in DOMAIN tasks' :
         tasks'[j].stage = "binding" => tasks'[j].stack = subscriber' /\ sd'[subscriber'] # "none"
  BY <1>1 DEF StartsCalm
<1>6. QED
  BY <1>3, <1>4, <1>5 DEF StartsCalm

\* ... and every topic behind the stop task it was behind, unless it was that.
LEMMA DoneBehind ==
    ASSUME TypeOK, StackInv, NEW i \in DOMAIN tasks, Done(i), UNCHANGED subscriptions,
           NEW u \in Topics, ~IsTask(i, "stop", u), Behind(u)
    PROVE  Behind(u)'
<1>1. /\ \A j \in DOMAIN tasks' : Old(i, j) \in DOMAIN tasks /\ tasks'[j] = tasks[Old(i, j)]
      /\ \A j, k \in DOMAIN tasks' : Old(i, j) < Old(i, k) => j < k
      /\ \A h \in DOMAIN tasks : h # i =>
            /\ New(i, h) \in DOMAIN tasks' /\ Old(i, New(i, h)) = h
            /\ tasks'[New(i, h)] = tasks[h]
  BY TaskDone
<1>2. \A h \in DOMAIN tasks : IsTask(h, "stop", u) =>
         New(i, h) \in DOMAIN tasks' /\ Old(i, New(i, h)) = h /\ IsTask(New(i, h), "stop", u)'
  <2> TAKE h \in DOMAIN tasks
  <2> HAVE IsTask(h, "stop", u)
  <2> PICK j : j = New(i, h)
    OBVIOUS
  <2>1. j \in DOMAIN tasks' /\ Old(i, j) = h /\ tasks'[j] = tasks[h]
    BY <1>1
  <2>2. IsTask(j, "stop", u)'
    BY <2>1 DEF IsTask
  <2>3. QED
    BY <2>1, <2>2 DEF New
<1>3. u \notin DOMAIN subscriptions' => \E j \in DOMAIN tasks' : IsTask(j, "stop", u)'
  BY <1>2 DEF Behind
<1>4. ASSUME NEW j \in DOMAIN tasks', IsTask(j, "start", u)'
      PROVE  tasks'[j].stage = "new" /\ \E k \in DOMAIN tasks' : k < j /\ IsTask(k, "stop", u)'
  <2>1. Old(i, j) \in DOMAIN tasks /\ IsTask(Old(i, j), "start", u)
    BY <1>1, <1>4 DEF IsTask
  <2>2. PICK h \in DOMAIN tasks : h < Old(i, j) /\ IsTask(h, "stop", u)
    BY <2>1 DEF Behind
  <2>3. tasks[Old(i, j)].stage = "new"
    BY <2>1 DEF Behind
  <2>4. PICK k \in DOMAIN tasks' : Old(i, k) = h /\ IsTask(k, "stop", u)'
    BY <1>2, <2>2
  <2>5. k < j
    BY <1>1, <2>2, <2>4
  <2>6. QED
    BY <1>1, <2>3, <2>4, <2>5
<1>5. QED
  BY <1>3, <1>4 DEF Behind

\* A start task goes on for a topic without a receiver.
LEMMA MovesCalm ==
    ASSUME TypeOK, StackInv, Calm, NEW i \in DOMAIN tasks, NEW r \in TaskOf(Len(sd)),
           tasks[i].kind = "start", r.kind = "start", r.topic = tasks[i].topic,
           r.stage = "binding" => r.stack = subscriber /\ subscriber # NoStack /\ sd[subscriber] # "none",
           tasks' = [tasks EXCEPT ![i] = r], ~IsBound(tasks[i].topic),
           UNCHANGED <<bus, subscriptions, receivers, rx>>
    PROVE  Calm'
<1>1. sd' = sd /\ subscriber' = subscriber
  BY DEF bus, stack
<1>2. /\ DOMAIN tasks' = DOMAIN tasks /\ tasks'[i] = r
      /\ \A j \in DOMAIN tasks : /\ tasks'[j].kind = tasks[j].kind /\ tasks'[j].topic = tasks[j].topic
                                 /\ j # i => tasks'[j] = tasks[j]
  BY TaskMoves
<1>3. \A u \in Topics : \A j \in DOMAIN tasks : \A k \in {"start", "stop"} : IsTask(j, k, u)' <=> IsTask(j, k, u)
  BY <1>2 DEF IsTask
<1>4. StartsCalm'
  <2>1. \A u \in Topics : \A j, k \in DOMAIN tasks' :
           IsTask(j, "start", u)' /\ IsTask(k, "start", u)' => j = k
    BY <1>2, <1>3 DEF Calm, StartsCalm
  <2>2. \A u \in Topics : \A j \in DOMAIN tasks' : IsTask(j, "start", u)' => u \in DOMAIN subscriptions'
    BY <1>2, <1>3 DEF Calm, StartsCalm
  <2>3. \A j \in DOMAIN tasks' :
           tasks'[j].stage = "binding" => tasks'[j].stack = subscriber' /\ sd'[subscriber'] # "none"
    BY <1>1, <1>2 DEF Calm, StartsCalm
  <2>4. QED
    BY <2>1, <2>2, <2>3 DEF StartsCalm
<1>5. ASSUME NEW u \in Topics, IsBound(u) PROVE Behind(u)'
  <2>1. Behind(u)
    BY <1>5 DEF Calm, BoundCalm
  <2>2. u \notin DOMAIN subscriptions' => \E j \in DOMAIN tasks' : IsTask(j, "stop", u)'
    BY <1>2, <1>3, <2>1 DEF Behind
  <2>3. ASSUME NEW j \in DOMAIN tasks', IsTask(j, "start", u)'
        PROVE  tasks'[j].stage = "new" /\ \E k \in DOMAIN tasks' : k < j /\ IsTask(k, "stop", u)'
    <3>1. j \in DOMAIN tasks /\ IsTask(j, "start", u)
      BY <1>2, <1>3, <2>3
    <3>2. j # i
      BY <1>5, <3>1 DEF IsTask
    <3>3. tasks[j].stage = "new" /\ \E k \in DOMAIN tasks : k < j /\ IsTask(k, "stop", u)
      BY <2>1, <3>1 DEF Behind
    <3>4. QED
      BY <1>2, <1>3, <3>1, <3>2, <3>3
  <2>4. QED
    BY <2>2, <2>3 DEF Behind
<1>6. QED
  BY <1>4, <1>5, TasksCalm

\* A start task is done, without a receiver.
LEMMA GivesUpCalm ==
    ASSUME TypeOK, StackInv, Calm, NEW i \in DOMAIN tasks, tasks[i].kind = "start", Done(i),
           UNCHANGED <<bus, subscriptions, receivers, rx>>
    PROVE  Calm'
<1>1. sd' = sd /\ subscriber' = subscriber
  BY DEF bus, stack
<1>2. StartsCalm'
  BY <1>1, DoneStarts DEF Calm
<1>3. ASSUME NEW u \in Topics, IsBound(u) PROVE Behind(u)'
  <2>1. Behind(u) /\ ~IsTask(i, "stop", u)
    BY <1>3 DEF Calm, BoundCalm, IsTask
  <2>2. QED
    BY <2>1, DoneBehind
<1>4. QED
  BY <1>2, <1>3, TasksCalm

\* start tasks begin,
LEMMA BeginsCalm ==
    ASSUME TypeOK, StackInv, Calm, NEW i \in DOMAIN tasks, StartTaskBegins(i) PROVE Calm'
<1>1. UNCHANGED <<bus, subscriptions, receivers, rx>> /\ tasks[i].kind = "start" /\ FirstAt(i, "new")
  BY DEF StartTaskBegins, user
<1>2. tasks \in Seq(TaskOf(Len(sd))) /\ tasks[i].topic \in Topics
  <2>1. tasks[i] \in TaskOf(Len(sd)) /\ tasks \in Seq(TaskOf(Len(sd)))
    BY TypesAre
  <2>2. QED
    BY <2>1 DEF TaskOf
<1>3. ~IsBound(tasks[i].topic)
  <2> SUFFICES ASSUME IsBound(tasks[i].topic) PROVE FALSE
    OBVIOUS
  <2>1. IsTask(i, "start", tasks[i].topic) /\ Behind(tasks[i].topic)
    BY <1>1, <1>2 DEF IsTask, Calm, BoundCalm
  <2>2. PICK j \in DOMAIN tasks : j < i /\ IsTask(j, "stop", tasks[i].topic)
    BY <2>1 DEF Behind
  <2>3. tasks[j].stage = "new" /\ j \in 1..(i - 1)
    BY <1>2, <2>2 DEF StackInv, IsTask
  <2>4. QED
    BY <1>1, <2>3 DEF FirstAt
<1>4. QED
  BY <1>1, <1>3, BeginsIs, MovesCalm, GivesUpCalm

\* A task that has gone on from its first stage has no receiver to wait for.
LEMMA BeyondNew ==
    ASSUME TypeOK, StackInv, Calm, NEW i \in DOMAIN tasks, tasks[i].stage # "new"
    PROVE  tasks[i].kind = "start" /\ tasks[i].topic \in Topics /\ ~IsBound(tasks[i].topic)
<1>1. tasks[i] \in TaskOf(Len(sd))
  BY TypesAre
<1>2. tasks[i].kind = "start" /\ tasks[i].topic \in Topics
  BY <1>1 DEF TaskOf, StackInv
<1>3. IsTask(i, "start", tasks[i].topic)
  BY <1>2 DEF IsTask
<1>4. ~IsBound(tasks[i].topic)
  BY <1>2, <1>3 DEF Calm, BoundCalm, Behind
<1>5. QED
  BY <1>2, <1>4

\* wake up,
LEMMA WakesCalm ==
    ASSUME TypeOK, StackInv, Calm, NEW i \in DOMAIN tasks, StartTaskWakes(i) PROVE Calm'
<1>1. UNCHANGED <<bus, subscriptions, receivers, rx>> /\ tasks[i].stage = "sleeping"
  BY DEF StartTaskWakes, user, FirstAt
<1>2. tasks[i].kind = "start" /\ ~IsBound(tasks[i].topic)
  BY <1>1, BeyondNew
<1>3. QED
  BY <1>1, <1>2, WakesIs, MovesCalm, GivesUpCalm

\* or fail;
LEMMA FailsCalm ==
    ASSUME TypeOK, StackInv, Calm, NEW i \in DOMAIN tasks, EndpointFails(i) PROVE Calm'
<1>1. UNCHANGED <<bus, subscriptions, receivers, rx>> /\ tasks[i].stage = "binding" /\ Done(i)
  BY DEF EndpointFails, user, FirstAt
<1>2. QED
  BY <1>1, BeyondNew, GivesUpCalm

\* a receiver is bound under a key where there is none, for the stack there is,
LEMMA BoundSocketCalm ==
    ASSUME OwnKeys, TypeOK, StackInv, Calm, NEW i \in DOMAIN tasks, EndpointBound(i) PROVE Calm'
<1>0. PICK t, n : t = tasks[i].topic /\ n = Len(rx) + 1
  OBVIOUS
<1> DEFINE old == receivers[subscriber]
<1>1. UNCHANGED <<subscriptions, sd, subscriber>> /\ Done(i) /\ tasks[i].stage = "binding"
  BY DEF EndpointBound, FirstAt, bus, stack, user
<1>2. /\ tasks[i].kind = "start" /\ t \in Topics /\ ~IsBound(t)
      /\ tasks[i].stack = subscriber /\ subscriber # NoStack /\ sd[subscriber] # "none"
  BY <1>0, <1>1, BeyondNew DEF Calm, StartsCalm, StackInv
<1>3. /\ DOMAIN rx' = DOMAIN rx \union {n} /\ n \notin DOMAIN rx
      /\ \A r \in DOMAIN rx : rx'[r] = rx[r]
      /\ rx'[n].topic = t
      /\ DOMAIN receivers'[subscriber] = DOMAIN old \union {Key[t]}
      /\ \A k \in DOMAIN receivers'[subscriber] :
            receivers'[subscriber][k] = IF k = Key[t] THEN n ELSE old[k]
  BY <1>0, <1>2, BoundIs
<1>4. \A k \in DOMAIN old : old[k] \in DOMAIN rx
  <2>1. subscriber \in DOMAIN receivers /\ receivers \in Seq(Maps(DOMAIN rx))
    BY <1>2, TypesAre DEF NoStack
  <2>2. old \in Maps(DOMAIN rx)
    BY <2>1
  <2>3. QED
    BY <2>2, MapsIs
<1>5. Key[t] \notin DOMAIN old
  BY <1>2 DEF IsBound
<1>6. StartsCalm'
  BY <1>1, DoneStarts DEF Calm
<1>7. SocketsCalm'
  <2>1. ASSUME NEW r \in DOMAIN rx', rx'[r].open PROVE r \in Range(receivers'[subscriber])
    <3>1. CASE r = n
      BY <1>3, <3>1 DEF Range
    <3>2. CASE r \in DOMAIN rx
      <4>1. r \in Range(old)
        BY <1>3, <2>1, <3>2 DEF Calm, SocketsCalm, OpenSockets
      <4>2. PICK k \in DOMAIN old : old[k] = r
        BY <4>1 DEF Range
      <4>3. QED
        BY <1>3, <1>5, <4>2 DEF Range
    <3>3. QED
      BY <1>3, <3>1, <3>2
  <2>2. QED
    BY <1>1, <1>2, <2>1 DEF SocketsCalm, OpenSockets
<1>8. ASSUME NEW u \in Topics, IsBound(u)' PROVE Behind(u)' /\ (rx[receivers[subscriber][Key[u]]].topic = u)'
  <2>1. Key[u] \in DOMAIN old \union {Key[t]} /\ Key[u] \in DOMAIN receivers'[subscriber]
    BY <1>1, <1>3, <1>8 DEF IsBound
  <2>2. CASE u = t
    <3>1. IsTask(i, "start", t)
      BY <1>0, <1>2 DEF IsTask
    <3>2. t \in DOMAIN subscriptions'
      BY <1>1, <1>2, <3>1 DEF Calm, StartsCalm
    <3>3. \A j \in DOMAIN tasks' : ~IsTask(j, "start", t)'
      <4> SUFFICES ASSUME NEW j \in DOMAIN tasks', IsTask(j, "start", t)' PROVE FALSE
        OBVIOUS
      <4>1. Old(i, j) \in DOMAIN tasks /\ Old(i, j) # i /\ tasks'[j] = tasks[Old(i, j)]
        BY <1>1, TaskDone
      <4>2. IsTask(Old(i, j), "start", t)
        BY <4>1 DEF IsTask
      <4>3. QED
        BY <1>2, <3>1, <4>1, <4>2 DEF Calm, StartsCalm
    <3>4. Behind(t)'
      BY <3>2, <3>3 DEF Behind
    <3>5. rx'[receivers'[subscriber][Key[t]]].topic = t
      BY <1>3
    <3>6. QED
      BY <1>1, <2>2, <3>4, <3>5
  <2>3. CASE u # t
    <3>1. Key[u] # Key[t]
      BY <1>2, <2>3 DEF OwnKeys
    <3>2. IsBound(u) /\ Key[u] \in DOMAIN old
      BY <1>2, <2>1, <3>1 DEF IsBound
    <3>3. Behind(u) /\ rx[old[Key[u]]].topic = u
      BY <3>2 DEF Calm, BoundCalm
    <3>4. Behind(u)'
      BY <1>1, <1>2, <3>3, DoneBehind DEF IsTask
    <3>5. rx'[receivers'[subscriber][Key[u]]].topic = u
      BY <1>3, <1>4, <2>1, <3>1, <3>2, <3>3
    <3>6. QED
      BY <1>1, <3>4, <3>5
  <2>4. QED
    BY <2>2, <2>3
<1>9. BoundCalm'
  BY <1>8 DEF BoundCalm
<1>10. QED
  BY <1>6, <1>7, <1>9 DEF Calm

\* and a stop task closes the receiver that its topic has.
LEMMA StopTaskCalm ==
    ASSUME OwnKeys, TypeOK, StackInv, Calm, NEW i \in DOMAIN tasks, StopTask(i) PROVE Calm'
<1>0. PICK t : t = tasks[i].topic
  OBVIOUS
<1>1. /\ tasks[i].kind = "stop" /\ t \in Topics /\ Done(i)
      /\ UNCHANGED <<bus, subscriptions>> /\ sd' = sd /\ subscriber' = subscriber
  BY <1>0, StopTaskIs DEF bus, stack
<1>2. StartsCalm'
  BY <1>1, DoneStarts DEF Calm
<1>3. ASSUME NEW u \in Topics, u # t, Behind(u) PROVE Behind(u)'
  <2>1. ~IsTask(i, "stop", u)
    BY <1>0, <1>3 DEF IsTask
  <2>2. QED
    BY <1>1, <1>3, <2>1, DoneBehind
<1>4. CASE ~IsBound(t) \/ sd[subscriber] = "none"
  <2>1. ~IsBound(t)
    BY <1>4 DEF Calm, SocketsCalm, IsBound
  <2>2. UNCHANGED <<receivers, rx>>
    BY <1>0, <2>1, StopTaskIs
  <2>3. \A u \in Topics : IsBound(u) => Behind(u)'
    BY <1>3, <2>1 DEF Calm, BoundCalm
  <2>4. QED
    BY <1>1, <1>2, <2>2, <2>3, TasksCalm
<1>5. CASE IsBound(t) /\ sd[subscriber] # "none"
  <2>1. subscriber # NoStack /\ ReceiverGoes(Key[t])
    BY <1>0, <1>5, StopTaskIs DEF IsBound
  <2> DEFINE old == receivers[subscriber]
  <2>2. PICK x : x = old[Key[t]]
    OBVIOUS
  <2>3. /\ DOMAIN rx' = DOMAIN rx /\ x \in DOMAIN rx /\ ~rx'[x].open
        /\ \A r \in DOMAIN rx : r # x => rx'[r] = rx[r]
        /\ DOMAIN receivers'[subscriber] = DOMAIN old \ {Key[t]}
        /\ \A k \in DOMAIN receivers'[subscriber] : receivers'[subscriber][k] = old[k]
    BY <1>1, <1>5, <2>1, <2>2, GoesIs
  <2>4. \A k \in DOMAIN old : old[k] \in DOMAIN rx
    <3>1. subscriber \in DOMAIN receivers /\ receivers \in Seq(Maps(DOMAIN rx))
      BY <2>1, TypesAre DEF NoStack
    <3>2. old \in Maps(DOMAIN rx)
      BY <3>1
    <3>3. QED
      BY <3>2, MapsIs
  <2>5. SocketsCalm'
    <3>1. ASSUME NEW r \in DOMAIN rx', rx'[r].open PROVE r \in Range(receivers'[subscriber])
      <4>1. r # x /\ rx[r].open /\ r \in DOMAIN rx
        BY <2>3, <3>1
      <4>2. PICK k \in DOMAIN old : old[k] = r
        BY <4>1 DEF Calm, SocketsCalm, OpenSockets, Range
      <4>3. k \in DOMAIN receivers'[subscriber] /\ receivers'[subscriber][k] = r
        BY <2>2, <2>3, <4>1, <4>2
      <4>4. QED
        BY <4>3 DEF Range
    <3>2. QED
      BY <1>1, <1>5, <2>1, <3>1 DEF SocketsCalm, OpenSockets
  <2>6. ASSUME NEW u \in Topics, IsBound(u)' PROVE Behind(u)' /\ (rx[receivers[subscriber][Key[u]]].topic = u)'
    <3>1. Key[u] \in DOMAIN old /\ Key[u] # Key[t] /\ Key[u] \in DOMAIN receivers'[subscriber]
      BY <1>1, <2>3, <2>6 DEF IsBound
    <3>2. u # t /\ IsBound(u)
      BY <2>1, <3>1 DEF IsBound
    <3>3. Behind(u) /\ rx[old[Key[u]]].topic = u /\ rx[x].topic = t
      BY <1>1, <1>5, <2>2, <3>2 DEF Calm, BoundCalm
    <3>4. rx'[receivers'[subscriber][Key[u]]].topic = u
      BY <2>3, <2>4, <3>1, <3>2, <3>3
    <3>5. QED
      BY <1>1, <1>3, <3>2, <3>3, <3>4
  <2>7. BoundCalm'
    BY <2>6 DEF BoundCalm
  <2>8. QED
    BY <1>2, <2>5, <2>7 DEF Calm
<1>6. QED
  BY <1>4, <1>5

-------------------------------------------------------------------------------
(* The deliveries, away from the races.                                    *)

\* Of the open receivers one at most hears of an eventgroup.
LEMMA OneHears ==
    ASSUME TypeOK, Calm, NEW t \in Topics, NEW q \in DOMAIN rx, NEW r \in DOMAIN rx,
           Hears(q, Key[t]), Hears(r, Key[t])
    PROVE  q = r
<1>1. ASSUME NEW x \in DOMAIN rx, Hears(x, Key[t]) PROVE x = receivers[subscriber][Key[t]]
  <2>1. subscriber # NoStack /\ x \in Range(receivers[subscriber]) /\ Key[rx[x].topic] = Key[t]
    BY <1>1 DEF Calm, SocketsCalm, OpenSockets, Hears
  <2>2. PICK k \in DOMAIN receivers[subscriber] : receivers[subscriber][k] = x
    BY <2>1 DEF Range
  <2>3. subscriber \in DOMAIN receivers /\ receivers \in Seq(Maps(DOMAIN rx))
    BY <2>1, TypesAre DEF NoStack
  <2>4. receivers[subscriber] \in Maps(DOMAIN rx)
    BY <2>3
  <2>5. k \in Keys
    BY <2>2, <2>4, MapsIs
  <2>6. PICK u \in Topics : k = Key[u]
    BY <2>5 DEF Keys
  <2>7. rx[x].topic = u
    BY <2>1, <2>2, <2>6 DEF Calm, BoundCalm, IsBound
  <2>8. QED
    BY <2>1, <2>2, <2>6, <2>7
<1>2. QED
  BY <1>1

\* A notification reaches one receiver at most, and so is dispatched once.
LEMMA NotifiedDispatch ==
    ASSUME TypeOK, SentInv, Calm, DispatchCalm,
           NEW t \in Topics, NEW heard \in SUBSET DOMAIN rx, Notified(t, heard)
    PROVE  DispatchCalm'
<1>1. \A q, r \in heard : q = r
  <2>1. \A r \in heard : r \in DOMAIN rx /\ Hears(r, Key[t])
    BY DEF Notified
  <2>2. QED
    BY <2>1, OneHears
<1>2. /\ Len(sent) \in Nat
      /\ \A i \in DOMAIN dispatching : i \in DOMAIN dispatching' /\ dispatching'[i] = dispatching[i]
      /\ \A i \in DOMAIN dispatching' \ DOMAIN dispatching :
            /\ dispatching'[i].msg = Len(sent) + 1 /\ dispatching'[i].stage = "new"
            /\ dispatching'[i].subs = <<>>
      /\ \A i, j \in DOMAIN dispatching' \ DOMAIN dispatching : i = j
  BY <1>1, NotifiedIs
<1>3. received' = received
  BY DEF Notified
<1>4. Len(sent) + 1 # Len(sent) /\ ~(Len(sent) + 1 <= Len(sent))
  BY <1>2
<1>5. /\ \A i \in DOMAIN dispatching : dispatching[i].msg # Len(sent) + 1
      /\ \A s \in Subs : Len(sent) + 1 \notin Range(received[s])
  BY <1>4 DEF SentInv, Range
<1>6. \A i, j \in DOMAIN dispatching' : dispatching'[i].msg = dispatching'[j].msg => i = j
  BY <1>2, <1>5 DEF DispatchCalm
<1>7. \A i \in DOMAIN dispatching' : \A s \in Subs : dispatching'[i].msg \in Range(received'[s]) =>
         dispatching'[i].stage = "calling" /\ s \notin Range(Tail(dispatching'[i].subs))
  BY <1>2, <1>3, <1>5 DEF DispatchCalm
<1>8. \A i \in DOMAIN dispatching' : OneEach(dispatching'[i].subs)
  <2>1. DOMAIN <<>> = {}
    OBVIOUS
  <2>2. OneEach(<<>>)
    BY <2>1 DEF OneEach
  <2>3. QED
    BY <1>2, <2>2 DEF DispatchCalm
<1>9. \A s \in Subs : OneEach(received'[s])
  BY <1>3 DEF DispatchCalm
<1>10. QED
  BY <1>6, <1>7, <1>8, <1>9 DEF DispatchCalm

\* A dispatch that ends leaves the others as they are.
LEMMA EndsDispatch ==
    ASSUME TypeOK, DispatchCalm, NEW i \in DOMAIN dispatching, Ends(i) PROVE DispatchCalm'
<1>1. dispatching \in Seq(Dispatch) /\ dispatching' = RemoveAt(dispatching, i) /\ received' = received
  BY TypesAre DEF Ends
<1>2. /\ \A j \in DOMAIN dispatching' : /\ Old(i, j) \in DOMAIN dispatching
                                        /\ dispatching'[j] = dispatching[Old(i, j)]
      /\ \A j, k \in DOMAIN dispatching' : Old(i, j) = Old(i, k) => j = k
  BY <1>1, OthersStay
<1>3. \A j, k \in DOMAIN dispatching' : dispatching'[j].msg = dispatching'[k].msg => j = k
  BY <1>2 DEF DispatchCalm
<1>4. QED
  BY <1>1, <1>2, <1>3 DEF DispatchCalm

\* A handler is called with a notification it has not received.
LEMMA CallsDispatch ==
    ASSUME TypeOK, SentInv, DispatchCalm, NEW i \in DOMAIN dispatching, NEW r, Calls(i, r)
    PROVE  DispatchCalm'
<1> DEFINE d == dispatching[i]
           h == Head(r.subs)
           m == r.msg
<1>1. /\ dispatching \in Seq(Dispatch) /\ d \in Dispatch /\ r \in Dispatch
      /\ r.msg = d.msg /\ r.stage = "calling" /\ r.subs # <<>> /\ r.subs \in Seq(Subs)
      /\ d.subs \in Seq(Subs) /\ m \in 1..MaxMsgs /\ h \in Subs /\ Handed(h, m)
  <2>1. dispatching \in Seq(Dispatch) /\ d \in Dispatch
    BY TypesAre
  <2>2. QED
    BY <2>1 DEF Calls, Dispatch
<1>2. /\ DOMAIN dispatching' = DOMAIN dispatching /\ dispatching'[i] = r
      /\ \A j \in DOMAIN dispatching : j # i => dispatching'[j] = dispatching[j]
  BY <1>1 DEF Calls
<1>3. d.stage = "calling" => /\ r.subs = Tail(d.subs)
                             /\ OneEach(Tail(d.subs))
  <2> SUFFICES ASSUME d.stage = "calling" PROVE r.subs = Tail(d.subs) /\ OneEach(Tail(d.subs))
    OBVIOUS
  <2>1. r.subs = Tail(d.subs) /\ d.subs # <<>> /\ OneEach(d.subs)
    BY DEF Calls, SentInv, DispatchCalm
  <2>2. QED
    BY <1>1, <2>1, TailIs
<1>4. OneEach(r.subs)
  BY <1>3 DEF Calls
<1>5. h \in Range(r.subs) /\ Range(Tail(r.subs)) = Range(r.subs) \ {h}
  BY <1>1, <1>4, TailIs
<1>6. \A s \in Subs : m \in Range(received[s]) => d.stage = "calling" /\ s \notin Range(r.subs)
  BY <1>1, <1>3 DEF DispatchCalm
<1>7. m \notin Range(received[h])
  BY <1>1, <1>5, <1>6
<1>8. /\ \A x \in Subs : Range(received'[x]) =
            IF x = h THEN Range(received[x]) \union {m} ELSE Range(received[x])
      /\ \A x \in Subs : OneEach(received'[x])
  BY <1>1, <1>7, HandedIs DEF DispatchCalm
<1> HIDE DEF h
<1>9. \A j, k \in DOMAIN dispatching' : dispatching'[j].msg = dispatching'[k].msg => j = k
  BY <1>1, <1>2 DEF DispatchCalm
<1>10. ASSUME NEW j \in DOMAIN dispatching', NEW s \in Subs, dispatching'[j].msg \in Range(received'[s])
       PROVE  dispatching'[j].stage = "calling" /\ s \notin Range(Tail(dispatching'[j].subs))
  <2>1. CASE j = i
    <3>1. s = h \/ m \in Range(received[s])
      BY <1>2, <1>8, <1>10, <2>1
    <3>2. s \notin Range(Tail(r.subs))
      BY <1>5, <1>6, <3>1
    <3>3. QED
      BY <1>1, <1>2, <2>1, <3>2
  <2>2. CASE j # i
    <3>1. dispatching'[j] = dispatching[j] /\ j \in DOMAIN dispatching
      BY <1>2, <2>2
    <3>2. dispatching[j].msg # m
      BY <1>1, <2>2, <3>1 DEF DispatchCalm
    <3>3. dispatching[j].msg \in Range(received[s])
      BY <1>8, <1>10, <3>1, <3>2
    <3>4. QED
      BY <3>1, <3>3 DEF DispatchCalm
  <2>3. QED
    BY <2>1, <2>2
<1>11. \A j \in DOMAIN dispatching' : OneEach(dispatching'[j].subs)
  BY <1>2, <1>4 DEF DispatchCalm
<1>12. QED
  BY <1>8, <1>9, <1>10, <1>11 DEF DispatchCalm

-------------------------------------------------------------------------------
\* A step after which there is no race yet keeps Calm and the dispatches.
LEMMA StepCalm ==
    ASSUME OwnKeys, TypeOK, StackInv, ListsInv, SentInv, CalmInv, [Next]_vars PROVE CalmInv'
<1> SUFFICES ASSUME races' = {} PROVE (Calm /\ DispatchCalm)'
  BY DEF CalmInv
<1>1. Calm /\ DispatchCalm
  BY RacesStay DEF CalmInv
<1>2. CASE Start \/ UNCHANGED vars
  <2>1. UNCHANGED <<subscriber, sd, receivers, rx, tasks, subscriptions, dispatching, received>>
    BY <1>2 DEF Start, StartCalled, vars, bus, stack, user
  <2>2. QED
    BY <1>1, <2>1, NothingCalm DEF DispatchCalm
<1>3. CASE UNCHANGED <<dispatching, received>> /\ Calm'
  BY <1>1, <1>3 DEF DispatchCalm
<1>4. ASSUME NEW discovery \in {"running", "none"}, Started(discovery)
      PROVE  Calm' /\ UNCHANGED <<dispatching, received>>
  BY <1>1, <1>4, StartedCalm DEF Started
<1>5. CASE Stop
  BY <1>1, <1>3, <1>5, StopCalm DEF Stop
<1>6. ASSUME NEW s \in Subs, NEW t \in Topics, Subscribe(s, t)
      PROVE  Calm' /\ UNCHANGED <<dispatching, received>>
  BY <1>1, <1>6, SubscribeCalm DEF Subscribe
<1>7. ASSUME NEW s \in Subs, Unsubscribe(s) PROVE Calm' /\ UNCHANGED <<dispatching, received>>
  BY <1>1, <1>7, UnsubscribeCalm DEF Unsubscribe
<1>8. ASSUME NEW i \in DOMAIN tasks, TaskSteps(i) PROVE Calm' /\ UNCHANGED <<dispatching, received>>
  <2>1. UNCHANGED <<dispatching, received>>
    BY <1>8 DEF TaskSteps, StartTaskBegins, StartTaskWakes, EndpointBound, EndpointFails, StopTask
  <2>2. QED
    BY <1>1, <1>8, <2>1, BeginsCalm, WakesCalm, BoundSocketCalm, FailsCalm, StopTaskCalm DEF TaskSteps
<1>9. ASSUME NEW t \in Topics, NEW heard \in SUBSET DOMAIN rx, Notified(t, heard)
      PROVE  (Calm /\ DispatchCalm)'
  <2>1. UNCHANGED <<subscriber, sd, receivers, rx, tasks, subscriptions>>
    BY <1>9 DEF Notified, bus, stack, user
  <2>2. QED
    BY <1>1, <1>9, <2>1, NothingCalm, NotifiedDispatch
<1>10. ASSUME NEW i \in DOMAIN dispatching, DispatchBegins(i) \/ HandlerEnds(i)
       PROVE  (Calm /\ DispatchCalm)'
  <2>1. UNCHANGED <<subscriber, sd, receivers, rx, tasks, subscriptions>>
    BY <1>10 DEF DispatchBegins, HandlerEnds, bus, stack, user
  <2>2. Ends(i) \/ \E r : Calls(i, r)
    BY <1>10, DispatchBeginsIs, HandlerEndsIs
  <2>3. QED
    BY <1>1, <2>1, <2>2, NothingCalm, EndsDispatch, CallsDispatch
<1>11. QED
  BY <1>2, <1>3, <1>4, <1>5, <1>6, <1>7, <1>8, <1>9, <1>10 DEF Next, TaskSteps

\* At first there are no tasks, receivers or dispatches.
LEMMA InitCalm == Init => CalmInv
<1> SUFFICES ASSUME Init PROVE Calm /\ DispatchCalm
  BY DEF CalmInv
<1>1. /\ DOMAIN <<>> = {} /\ subscriber = NoStack /\ rx = <<>> /\ tasks = <<>> /\ dispatching = <<>>
      /\ \A s \in Subs : received[s] = <<>>
  BY DEF Init
<1>2. Calm
  BY <1>1 DEF Calm, StartsCalm, BoundCalm, IsBound, SocketsCalm, OpenSockets
<1>3. DispatchCalm
  BY <1>1 DEF DispatchCalm, OneEach
<1>4. QED
  BY <1>2, <1>3

\* The strengthened invariant holds in every state, when every topic has a key of its own.
THEOREM Inductive == ASSUME OwnKeys PROVE Spec => []IInv
<1>1. Init => IInv
  BY InitTypes, InitListsSent, InitCalm DEF IInv
<1>2. IInv /\ [Next]_vars => IInv'
  BY StepTypes, StepLists, StepSent, StepCalm DEF IInv
<1>3. QED
  BY <1>1, <1>2, PTL DEF Spec

\* The bus owns the sockets it opened: away from the races every open receiver is where
\* stop() and the stop task of its topic find it.
THEOREM SocketsAreKept == ASSUME OwnKeys PROVE Spec => []NoSocketLost
<1>1. IInv => NoSocketLost
  BY DEF IInv, TypeOK, StackTypeOK, StackInv, CalmInv, Calm, SocketsCalm, NoSocketLost
<1>2. QED
  BY <1>1, Inductive, PTL

\* Away from the races no handler is called twice with a notification.
THEOREM DeliveredAtMostOnce == ASSUME OwnKeys PROVE Spec => []AtMostOnce
<1>1. IInv => AtMostOnce
  <2> SUFFICES ASSUME IInv, races = {}, NEW s \in Subs, NEW m \in DOMAIN sent PROVE Times(s, m) <= 1
    BY DEF AtMostOnce
  <2> DEFINE I == {i \in DOMAIN received[s] : received[s][i] = m}
  <2>1. \A i, j \in I : i = j
    BY DEF IInv, CalmInv, DispatchCalm, OneEach
  <2>2. CASE I = {}
    BY <2>2, FS_EmptySet DEF Times
  <2>3. CASE I # {}
    <3>1. PICK i : I = {i}
      BY <2>1, <2>3
    <3>2. Cardinality(I) = 1
      BY <3>1, FS_Singleton
    <3>3. QED
      BY <3>2 DEF Times
  <2>4. QED
    BY <2>2, <2>3
<1>2. QED
  BY <1>1, Inductive, PTL

===============================================================================
