--------------------------- MODULE SomeIpSubscriber ----------------------------
(***************************************************************************)
(* eventbus/someip.py: the receiving side of SomeIPEventBus, run by one    *)
(* asyncio event loop.                                                     *)
(*                                                                         *)
(* subscribe() and unsubscribe() return at once and leave the work to      *)
(* background tasks.  The task of a topic's first subscription sleeps for  *)
(* more than five seconds and opens a UDP receiver; the task of its last   *)
(* unsubscribe closes the receiver it finds under the topic's key at that  *)
(* moment.  stop() cancels none of these tasks and start() builds a new    *)
(* stack, so a task can wake up in a bus that was stopped or restarted.    *)
(* Each notification is dispatched to the local handlers by a task of its  *)
(* own.                                                                    *)
(*                                                                         *)
(* External: Service Discovery and UDP.  A receiver hears a notification   *)
(* of its eventgroup when its socket is open, its eventgroup is being      *)
(* searched and the Service Discovery it was registered with runs; UDP may *)
(* lose the notification.                                                  *)
(***************************************************************************)
EXTENDS SomeIpStack, Lists, FiniteSets

CONSTANTS Topics,        \* the topics with a mapping
          Key,           \* their (service_id, instance_id, eventgroup_id)
          Subs,          \* the Subscription objects that may be created
          MaxMsgs,       \* bound: notifications sent by remote publishers
          MaxFailures,   \* bound: receivers whose endpoint cannot be created
          NoTopic        \* "this Subscription has not been created yet"

ASSUME SubscriberAssumption ==
    /\ MaxMsgs \in Nat /\ MaxFailures \in Nat
    /\ NoTopic \notin Topics
    /\ DOMAIN Key = Topics

VARIABLES
    subscriber,     \* self._subscriber: the number of its stack, or NoStack
    receivers,      \* _receivers of each SomeIPSubscriber: key -> receiver
    rx,             \* every receiver ever opened
    subscriptions,  \* self._subscriptions
    tasks,          \* _start_subscription and _stop_subscription, oldest first
    dispatching,    \* on_notification tasks, oldest first
    \* History, read by no action but for the bounds:
    home,           \* the topic of each Subscription created
    sent,           \* the topic of each notification
    received,       \* the notifications each handler was called with
    failures,       \* endpoints that could not be created
    stops,          \* calls of stop() on a started bus
    races           \* the timing hazards this behaviour went through

bus  == <<stack, subscriber>>
user == <<subscriptions, home>>
vars == <<bus, user, receivers, rx, tasks, dispatching, sent, received,
          failures, stops, races>>

NoStack == 0
Keys == {Key[t] : t \in Topics}
ListOf(t) == IF t \in DOMAIN subscriptions THEN subscriptions[t] ELSE <<>>

Init ==
    /\ StackInit
    /\ subscriber = NoStack
    /\ receivers = <<>> /\ rx = <<>>
    /\ subscriptions = <<>>
    /\ tasks = <<>> /\ dispatching = <<>>
    /\ home = [s \in Subs |-> NoTopic]
    /\ sent = <<>>
    /\ received = [s \in Subs |-> <<>>]
    /\ failures = 0 /\ stops = 0 /\ races = {}

-------------------------------------------------------------------------------
(* start() and stop() *)

Start ==
    /\ StartCalled
    /\ UNCHANGED <<subscriber, user, receivers, rx, tasks, dispatching, sent, received,
                   failures, stops, races>>

\* A new SomeIPSubscriber, which has no receivers yet and whose start() only looks whether
\* there is a Service Discovery, replaces the one there may be.
NewSubscriber ==
    /\ receivers' = Append(receivers, <<>>)
    /\ subscriber' = Len(sd) + 1

Started(discovery) ==
    /\ StartReturns(discovery)
    /\ NewSubscriber
    /\ races' = IF started THEN races \union {"started twice"} ELSE races
    /\ UNCHANGED <<user, rx, tasks, dispatching, sent, received, failures, stops>>

Closed(ids) == [r \in DOMAIN rx |-> IF r \in ids THEN [rx[r] EXCEPT !.open = FALSE] ELSE rx[r]]

\* The receivers of the present SomeIPSubscriber are closed and its Service Discovery
\* ends.  _subscriptions and the tasks stay.
Stop ==
    /\ StackStops
    /\ rx' = Closed(Range(receivers[subscriber]))
    /\ receivers' = [receivers EXCEPT ![subscriber] = <<>>]
    /\ subscriber' = NoStack
    /\ stops' = stops + 1
    /\ races' = IF \E i \in DOMAIN tasks : tasks[i].stage = "binding"
                   THEN races \union {"stopped while binding"} ELSE races
    /\ UNCHANGED <<user, tasks, dispatching, sent, received, failures>>

-------------------------------------------------------------------------------
(* subscribe() and unsubscribe() *)

Task(k, t) == [kind |-> k, topic |-> t, stage |-> "new", stack |-> NoStack]

\* Mutants: every subscription of a topic starts a search; none does.
SubscribeAlwaysSearches(s, t) ==
    /\ started /\ home[s] = NoTopic
    /\ home' = [home EXCEPT ![s] = t]
    /\ subscriptions' = [u \in DOMAIN subscriptions \union {t} |->
                            IF u = t THEN Append(ListOf(t), s) ELSE subscriptions[u]]
    /\ tasks' = Append(tasks, Task("start", t))
    /\ UNCHANGED <<bus, receivers, rx, dispatching, sent, received, failures, stops, races>>
SubscribeNeverSearches(s, t) ==
    /\ started /\ home[s] = NoTopic
    /\ home' = [home EXCEPT ![s] = t]
    /\ subscriptions' = [u \in DOMAIN subscriptions \union {t} |->
                            IF u = t THEN Append(ListOf(t), s) ELSE subscriptions[u]]
    /\ UNCHANGED <<bus, receivers, rx, tasks, dispatching, sent, received, failures, stops, races>>

Subscribe(s, t) ==
    /\ started
    /\ home[s] = NoTopic
    /\ home' = [home EXCEPT ![s] = t]
    /\ subscriptions' = [u \in DOMAIN subscriptions \union {t} |->
                            IF u = t THEN Append(ListOf(t), s) ELSE subscriptions[u]]
    /\ tasks' = IF t \in DOMAIN subscriptions THEN tasks ELSE Append(tasks, Task("start", t))
    /\ UNCHANGED <<bus, receivers, rx, dispatching, sent, received, failures, stops, races>>

\* A subscription is in a list once.  A second unsubscribe of s finds nothing, or raises ValueError and changes nothing.
Unsubscribe(s) ==
    LET t    == home[s]
        rest == Removed(ListOf(t), s)
        last == rest = <<>>
    IN /\ t # NoTopic /\ s \in Range(ListOf(t))
       /\ subscriptions' = IF last THEN Restrict(subscriptions, DOMAIN subscriptions \ {t})
                                   ELSE [subscriptions EXCEPT ![t] = rest]
       /\ tasks' = IF last /\ subscriber # NoStack THEN Append(tasks, Task("stop", t)) ELSE tasks
       /\ races' = IF last /\ \E i \in DOMAIN tasks : tasks[i].kind = "start" /\ tasks[i].topic = t
                      THEN races \union {"unsubscribed early"} ELSE races
       /\ UNCHANGED <<bus, receivers, rx, dispatching, home, sent, received, failures, stops>>

-------------------------------------------------------------------------------
(* The background tasks *)

\* Tasks reach each of their stages in the order they were created: the loop runs
\* new tasks in that order, and a later task sleeps longer.
FirstAt(i, stage) ==
    /\ i \in DOMAIN tasks /\ tasks[i].stage = stage
    /\ \A j \in 1..(i - 1) : tasks[j].stage # stage

Done(i) == tasks' = RemoveAt(tasks, i)

\* _start_subscription up to its sleep of 5 + 0.8 * seq_num seconds.
StartTaskBegins(i) ==
    /\ FirstAt(i, "new") /\ tasks[i].kind = "start"
    /\ IF subscriber = NoStack THEN Done(i)
                               ELSE tasks' = [tasks EXCEPT ![i].stage = "sleeping"]
    /\ UNCHANGED <<bus, user, receivers, rx, dispatching, sent, received, failures, stops, races>>

\* It wakes up and calls SomeIPSubscriber.subscribe on what _subscriber is now: None
\* raises AttributeError, which is caught; without Service Discovery it gives up.
StartTaskWakes(i) ==
    /\ FirstAt(i, "sleeping")
    /\ IF subscriber = NoStack \/ sd[subscriber] = "none"
          THEN Done(i)
          ELSE tasks' = [tasks EXCEPT ![i].stage = "binding", ![i].stack = subscriber]
    /\ UNCHANGED <<bus, user, receivers, rx, dispatching, sent, received, failures, stops, races>>

\* Mutants: the receiver is searched for but never entered in _receivers; it is
\* entered but was never opened.
EndpointBoundUnregistered(i) ==
    /\ FirstAt(i, "binding")
    /\ rx' = Append(rx, [stack |-> tasks[i].stack, topic |-> tasks[i].topic,
                         open |-> TRUE, searched |-> TRUE])
    /\ Done(i)
    /\ UNCHANGED <<bus, user, receivers, dispatching, sent, received, failures, stops, races>>
EndpointRegisteredUnbound(i) ==
    LET g == tasks[i].stack
        k == Key[tasks[i].topic]
    IN /\ FirstAt(i, "binding")
       /\ receivers' = [receivers EXCEPT ![g] =
                           [x \in DOMAIN @ \union {k} |-> IF x = k THEN Len(rx) + 1 ELSE @[x]]]
       /\ Done(i)
       /\ UNCHANGED <<bus, user, rx, dispatching, sent, received, failures, stops, races>>

\* The endpoint exists: its eventgroup is searched and the receiver takes the place
\* of the one there may be under its key, which stays open.
EndpointBound(i) ==
    LET g == tasks[i].stack
        k == Key[tasks[i].topic]
        r == Len(rx) + 1
    IN /\ FirstAt(i, "binding")
       /\ rx' = Append(rx, [stack |-> g, topic |-> tasks[i].topic,
                            open |-> TRUE, searched |-> TRUE])
       /\ receivers' = [receivers EXCEPT ![g] =
                           [x \in DOMAIN @ \union {k} |-> IF x = k THEN r ELSE @[x]]]
       /\ Done(i)
       /\ UNCHANGED <<bus, user, dispatching, sent, received, failures, stops, races>>

\* create_datagram_endpoint raises OSError: logged, and nobody tries again.
EndpointFails(i) ==
    /\ FirstAt(i, "binding")
    /\ failures < MaxFailures
    /\ failures' = failures + 1
    /\ Done(i)
    /\ UNCHANGED <<bus, user, receivers, rx, dispatching, sent, received, stops, races>>

\* SomeIPSubscriber.unsubscribe takes out the receiver that is there now under the key, if
\* there is one, ends its search and closes it.
ReceiverGoes(k) ==
    IF sd[subscriber] # "none" /\ k \in DOMAIN receivers[subscriber]
       THEN /\ rx' = [rx EXCEPT ![receivers[subscriber][k]].open = FALSE,
                                ![receivers[subscriber][k]].searched = FALSE]
            /\ receivers' = [receivers EXCEPT ![subscriber] = Restrict(@, DOMAIN @ \ {k})]
       ELSE UNCHANGED <<rx, receivers>>

\* _stop_subscription has no await.
StopTask(i) ==
    /\ FirstAt(i, "new") /\ tasks[i].kind = "stop"
    /\ IF subscriber # NoStack THEN ReceiverGoes(Key[tasks[i].topic]) ELSE UNCHANGED <<rx, receivers>>
    /\ Done(i)
    /\ UNCHANGED <<bus, user, dispatching, sent, received, failures, stops, races>>

-------------------------------------------------------------------------------
(* Notifications *)

Hears(r, k) ==
    /\ rx[r].open /\ rx[r].searched
    /\ sd[rx[r].stack] = "running"
    /\ Key[rx[r].topic] = k

\* A remote publish of topic t reaches some of the receivers of its eventgroup, in an order
\* that is UDP's: message_received creates a task for each.
Notified(t, heard) ==
    LET m == Len(sent) + 1 IN
    /\ Len(sent) < MaxMsgs
    /\ heard \subseteq {r \in DOMAIN rx : Hears(r, Key[t])}
    /\ sent' = Append(sent, t)
    /\ \E order \in SetToSeqs(heard) :
          dispatching' = dispatching
             \o [i \in DOMAIN order |->
                    [topic |-> rx[order[i]].topic, msg |-> m, stage |-> "new", subs |-> <<>>]]
    /\ UNCHANGED <<bus, user, receivers, rx, tasks, received, failures, stops, races>>

Handed(s, m) == received' = [received EXCEPT ![s] = Append(@, m)]

\* on_notification: the handlers subscribed to the receiver's topic by now are
\* copied and the first is called.
DispatchBegins(i) ==
    LET d == dispatching[i]
        subs == ListOf(d.topic)
    IN /\ i \in DOMAIN dispatching /\ d.stage = "new"
       /\ \A j \in 1..(i - 1) : dispatching[j].stage # "new"
       /\ IF subs = <<>>
             THEN /\ dispatching' = RemoveAt(dispatching, i)
                  /\ UNCHANGED received
             ELSE /\ dispatching' = [dispatching EXCEPT ![i].stage = "calling", ![i].subs = subs]
                  /\ Handed(Head(subs), d.msg)
       /\ UNCHANGED <<bus, user, receivers, rx, tasks, sent, failures, stops, races>>

\* A handler returns or raises, which is logged; the next one is called.
HandlerEnds(i) ==
    LET d == dispatching[i]
        rest == Tail(d.subs)
    IN /\ i \in DOMAIN dispatching /\ d.stage = "calling"
       /\ IF rest = <<>>
             THEN /\ dispatching' = RemoveAt(dispatching, i)
                  /\ UNCHANGED received
             ELSE /\ dispatching' = [dispatching EXCEPT ![i].subs = rest]
                  /\ Handed(Head(rest), d.msg)
       /\ UNCHANGED <<bus, user, receivers, rx, tasks, sent, failures, stops, races>>

-------------------------------------------------------------------------------
TaskSteps(i) == \/ StartTaskBegins(i) \/ StartTaskWakes(i)
                \/ EndpointBound(i) \/ EndpointFails(i) \/ StopTask(i)

Next ==
    \/ Start
    \/ \E discovery \in {"running", "none"} : Started(discovery)
    \/ Stop
    \/ \E s \in Subs, t \in Topics : Subscribe(s, t)
    \/ \E s \in Subs : Unsubscribe(s)
    \/ \E i \in DOMAIN tasks : StartTaskBegins(i)
    \/ \E i \in DOMAIN tasks : StartTaskWakes(i)
    \/ \E i \in DOMAIN tasks : EndpointBound(i)
    \/ \E i \in DOMAIN tasks : EndpointFails(i)
    \/ \E i \in DOMAIN tasks : StopTask(i)
    \/ \E t \in Topics : \E heard \in SUBSET DOMAIN rx : Notified(t, heard)
    \/ \E i \in DOMAIN dispatching : DispatchBegins(i)
    \/ \E i \in DOMAIN dispatching : HandlerEnds(i)

Spec == Init /\ [][Next]_vars

\* The loop runs its background tasks: sleeps end and endpoints get created or fail.
FairSpec == Spec /\ WF_vars(\E i \in DOMAIN tasks : TaskSteps(i))
-------------------------------------------------------------------------------
Receiver == [stack : Nat \ {0}, topic : Topics, open : BOOLEAN, searched : BOOLEAN]

\* The types of the bus's fields, of its tasks and of the history.
TypeOK ==
    /\ StackTypeOK
    /\ subscriber \in 0..Len(sd)
    /\ Len(receivers) = Len(sd) /\ receivers \in Seq(UNION {[K -> DOMAIN rx] : K \in SUBSET Keys})
    /\ rx \in Seq(Receiver)
    /\ DOMAIN subscriptions \subseteq Topics
    /\ \A t \in DOMAIN subscriptions : subscriptions[t] \in Seq(Subs)
    /\ tasks \in Seq([kind : {"start", "stop"}, topic : Topics, stack : 0..Len(sd),
                      stage : {"new", "sleeping", "binding"}])
    /\ dispatching \in Seq([topic : Topics, msg : 1..MaxMsgs, subs : Seq(Subs),
                            stage : {"new", "calling"}])
    /\ home \in [Subs -> Topics \union {NoTopic}]
    /\ sent \in Seq(Topics)
    /\ received \in [Subs -> Seq(1..MaxMsgs)]

Hearing(t) == {r \in DOMAIN rx : Hears(r, Key[t]) /\ rx[r].topic = t}
OpenSockets == {r \in DOMAIN rx : rx[r].open}

\* The bus owns the sockets it opened: every open receiver is the one entered under
\* its key in the present SomeIPSubscriber, where stop() and _stop_subscription find
\* it.  Unsubscribing a topic whose start task is still to finish, stopping while a
\* receiver is being bound and calling start() twice at once are the ways to lose one.
NoSocketLost ==
    races = {} => /\ started = (subscriber # NoStack)
                  /\ \A r \in OpenSockets :
                        subscriber # NoStack /\ r \in Range(receivers[subscriber])

Times(s, m) == Cardinality({i \in DOMAIN received[s] : received[s][i] = m})

\* A handler is called at most once with a notification, whatever subscriptions,
\* stops and restarts went before; only the races above make two receivers hear it.
AtMostOnce ==
    races = {} => \A s \in Subs : \A m \in DOMAIN sent : Times(s, m) <= 1

\* A topic with a subscriber is listened to before long, unless its last subscriber
\* leaves, the bus is stopped, it has no Service Discovery or no socket can be had.
TopicGetsHeard ==
    \A t \in Topics :
        (t \in DOMAIN subscriptions)
            ~> \/ t \notin DOMAIN subscriptions
               \/ Hearing(t) # {}
               \/ stops > 0 \/ failures > 0 \/ "none" \in Range(sd)
===============================================================================
