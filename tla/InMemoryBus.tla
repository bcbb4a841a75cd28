----------------------------- MODULE InMemoryBus ------------------------------
(***************************************************************************)
(* eventbus/bus.py: InMemoryEventBus, run by one asyncio event loop.       *)
(*                                                                         *)
(* publish() copies its topic's subscription list and awaits the handlers  *)
(* one after the other.  Every await lets the other tasks of the loop run: *)
(* they publish, subscribe, unsubscribe, clear, reset the metrics.  A      *)
(* handler may itself await publish(): a task therefore has a stack of     *)
(* publishes in progress, of which only the innermost can move.            *)
(***************************************************************************)
EXTENDS Lists, FiniteSets

CONSTANTS Topics,      \* topic names
          Subs,        \* the Subscription objects that may be created (uuid ids)
          Tasks,       \* the asyncio tasks that publish
          MaxMsgs,     \* bound: messages published in a behaviour
          MaxDepth,    \* bound: publishes nested in one another's handlers
          MaxResets,   \* bound: calls of reset_metrics
          NoTopic      \* "this Subscription has not been created yet"

ASSUME BusAssumption ==
    /\ MaxMsgs \in Nat /\ MaxDepth \in Nat /\ MaxResets \in Nat
    /\ IsFiniteSet(Subs) /\ NoTopic \notin Topics

VARIABLES
    enableMetrics,     \* self._enable_metrics
    subscribers,       \* self._subscribers: its keys are the topics with an entry
    published,         \* self._published_count
    delivered,         \* self._delivered_count
    errors,            \* self._error_count
    home,              \* subscription.topic of each Subscription created
    stack,             \* publishes in progress per task, the innermost last
    \* History, read by no action:
    pub,               \* what publish m was: its task, its snapshot, how it ended
    received,          \* the messages each handler was called with, oldest first
    left,              \* publishes begun before the subscription was removed
    discarded,         \* deliveries and errors wiped by reset_metrics
    resets             \* calls of reset_metrics

registry == <<subscribers, home, left>>
counters == <<published, delivered, errors, discarded, resets>>
vars == <<enableMetrics, registry, counters, stack, pub, received>>

Msgs == 1..MaxMsgs
StillIn == MaxMsgs + 1         \* left[s] of a subscription nobody removed

\* self._subscribers.get(topic, [])
ListOf(t) == IF t \in DOMAIN subscribers THEN subscribers[t] ELSE <<>>

\* Subscriptions that were made and have not been taken away again.
Live == {s \in Subs : home[s] # NoTopic /\ left[s] = StillIn}

-------------------------------------------------------------------------------
Init ==
    /\ enableMetrics \in BOOLEAN
    /\ subscribers = <<>>
    /\ published = 0 /\ delivered = 0 /\ errors = 0
    /\ home = [s \in Subs |-> NoTopic]
    /\ stack = [k \in Tasks |-> <<>>]
    /\ pub = <<>>
    /\ received = [s \in Subs |-> <<>>]
    /\ left = [s \in Subs |-> StillIn]
    /\ discarded = 0 /\ resets = 0

\* Subscription.new draws a fresh uuid: a Subscription is made once.
Subscribe(s, t) ==
    /\ home[s] = NoTopic
    /\ home' = [home EXCEPT ![s] = t]
    /\ subscribers' = [u \in DOMAIN subscribers \union {t} |->
                          IF u = t THEN Append(ListOf(t), s) ELSE subscribers[u]]
    /\ UNCHANGED <<enableMetrics, left, counters, stack, pub, received>>

\* The comprehension that keeps every other id: ids are unique in a list.
Dropped(l, s) == IF s \in Range(l) THEN Removed(l, s) ELSE l

\* Mutants: the emptied list stays; the newest subscription is dropped instead.
WithoutKeepsEmpty(s) ==
    [t \in DOMAIN subscribers |-> Dropped(subscribers[t], s)]
WithoutNewest(s) ==
    [t \in DOMAIN subscribers |-> IF t = home[s] THEN Front(subscribers[t])
                                                ELSE subscribers[t]]

\* self._subscribers without s, a topic whose list became empty dropped.
SubscribersWithout(s) ==
    LET rest == [t \in DOMAIN subscribers |-> IF t = home[s] THEN Dropped(subscribers[t], s)
                                                             ELSE subscribers[t]]
    IN Restrict(rest, {t \in DOMAIN rest : t = home[s] => rest[t] # <<>>})

\* The caller may hold its Subscription for long and unsubscribe it twice.
Unsubscribe(s) ==
    /\ home[s] # NoTopic
    /\ subscribers' = SubscribersWithout(s)
    /\ left' = [left EXCEPT ![s] = IF s \in Live THEN Len(pub) ELSE @]
    /\ UNCHANGED <<enableMetrics, home, counters, stack, pub, received>>

ClearAllSubscriptions ==
    /\ subscribers' = <<>>
    /\ left' = [s \in Subs |-> IF s \in Live THEN Len(pub) ELSE left[s]]
    /\ UNCHANGED <<enableMetrics, home, counters, stack, pub, received>>

ResetMetrics ==
    /\ resets < MaxResets
    /\ resets' = resets + 1
    /\ published' = 0 /\ delivered' = 0 /\ errors' = 0
    /\ discarded' = discarded + delivered + errors
    /\ UNCHANGED <<enableMetrics, registry, stack, pub, received>>

\* What the bus tells of itself.
GetSubscribersCount(t) == Len(ListOf(t))
GetAllTopics == DOMAIN subscribers
GetMetrics ==
    [published |-> published, delivered |-> delivered, errors |-> errors,
     topics |-> Cardinality(GetAllTopics),
     total_subscribers |-> SumFunction([t \in GetAllTopics |-> GetSubscribersCount(t)])]

-------------------------------------------------------------------------------
Top(k) == stack[k][Len(stack[k])]
Below(k) == SubSeq(stack[k], 1, Len(stack[k]) - 1)

\* Messages whose publish is waiting for a handler that task k is running.
InProgress(k) == {stack[k][i].msg : i \in DOMAIN stack[k]}

Handed(s, m) == received' = [received EXCEPT ![s] = Append(@, m)]

\* Mutant: the publisher does not await the publish and goes on to the next one.
PublishNotAwaited(k, t) ==
    /\ Len(pub) < MaxMsgs /\ Len(stack[k]) < MaxDepth /\ ListOf(t) # <<>>
    /\ published' = published + 1
    /\ pub' = Append(pub, [by |-> k, snap |-> ListOf(t), within |-> {}, ended |-> "no"])
    /\ stack' = [stack EXCEPT ![k] = Append(@, [msg |-> Len(pub) + 1, subs |-> ListOf(t)])]
    /\ Handed(Head(ListOf(t)), Len(pub) + 1)
    /\ UNCHANGED <<enableMetrics, registry, delivered, errors, discarded, resets>>

\* publish(message): the snapshot, then the call of its first handler.  The
\* task is idle, or runs a handler that publishes in its turn.
Publish(k, t) ==
    LET m    == Len(pub) + 1
        snap == ListOf(t)
    IN /\ Len(pub) < MaxMsgs
       /\ Len(stack[k]) < MaxDepth
       /\ published' = published + 1
       /\ pub' = Append(pub, [by |-> k, snap |-> snap, within |-> InProgress(k),
                              ended |-> IF snap = <<>> THEN "returned" ELSE "no"])
       /\ IF snap = <<>>
             THEN UNCHANGED <<stack, received>>
             ELSE /\ stack' = [stack EXCEPT ![k] = Append(@, [msg |-> m, subs |-> snap])]
                  /\ Handed(Head(snap), m)
       /\ UNCHANGED <<enableMetrics, registry, delivered, errors, discarded, resets>>

\* The for loop goes on to the next subscription of the snapshot or returns.
Advance(k) ==
    LET m    == Top(k).msg
        rest == Tail(Top(k).subs)
    IN IF rest = <<>>
          THEN /\ stack' = [stack EXCEPT ![k] = Below(k)]
               /\ pub' = [pub EXCEPT ![m].ended = "returned"]
               /\ UNCHANGED received
          ELSE /\ stack' = [stack EXCEPT ![k] = Append(Below(k), [msg |-> m, subs |-> rest])]
               /\ Handed(Head(rest), m)
               /\ UNCHANGED pub

HandlerReturns(k) ==
    /\ stack[k] # <<>>
    /\ delivered' = IF enableMetrics THEN delivered + 1 ELSE delivered
    /\ Advance(k)
    /\ UNCHANGED <<enableMetrics, registry, published, errors, discarded, resets>>

\* Mutants: the failure ends the fan-out; it is counted as a delivery too; it is
\* taken back from the deliveries; the handler is called once more.
HandlerRaisesOutOfPublish(k) ==
    /\ stack[k] # <<>>
    /\ errors' = IF enableMetrics THEN errors + 1 ELSE errors
    /\ stack' = [stack EXCEPT ![k] = Below(k)]
    /\ pub' = [pub EXCEPT ![Top(k).msg].ended = "returned"]
    /\ UNCHANGED <<enableMetrics, registry, published, delivered, discarded, resets, received>>
HandlerRaisesCountedTwice(k) ==
    /\ stack[k] # <<>>
    /\ errors' = IF enableMetrics THEN errors + 1 ELSE errors
    /\ delivered' = IF enableMetrics THEN delivered + 1 ELSE delivered
    /\ Advance(k)
    /\ UNCHANGED <<enableMetrics, registry, published, discarded, resets>>
HandlerRaisesTakenBack(k) ==
    /\ stack[k] # <<>>
    /\ delivered' = delivered - 1
    /\ Advance(k)
    /\ UNCHANGED <<enableMetrics, registry, published, errors, discarded, resets>>
HandlerRaisesAndIsRetried(k) ==
    /\ stack[k] # <<>>
    /\ Len(received[Head(Top(k).subs)]) < MaxMsgs
    /\ Handed(Head(Top(k).subs), Top(k).msg)
    /\ UNCHANGED <<enableMetrics, registry, counters, stack, pub>>

HandlerRaises(k) ==
    /\ stack[k] # <<>>
    /\ errors' = IF enableMetrics THEN errors + 1 ELSE errors
    /\ Advance(k)
    /\ UNCHANGED <<enableMetrics, registry, published, delivered, discarded, resets>>

\* CancelledError is no Exception: it leaves the for loop and publish().  The
\* handler this publish was nested in sees it and ends in any of the three ways.
HandlerCancelled(k) ==
    /\ stack[k] # <<>>
    /\ stack' = [stack EXCEPT ![k] = Below(k)]
    /\ pub' = [pub EXCEPT ![Top(k).msg].ended = "cancelled"]
    /\ UNCHANGED <<enableMetrics, registry, counters, received>>

Next ==
    \/ \E s \in Subs, t \in Topics : Subscribe(s, t)
    \/ \E s \in Subs : Unsubscribe(s)
    \/ ClearAllSubscriptions
    \/ ResetMetrics
    \/ \E k \in Tasks, t \in Topics : Publish(k, t)
    \/ \E k \in Tasks : HandlerReturns(k)
    \/ \E k \in Tasks : HandlerRaises(k)
    \/ \E k \in Tasks : HandlerCancelled(k)

Spec == Init /\ [][Next]_vars
-------------------------------------------------------------------------------
Frame == [msg : Msgs, subs : Seq(Subs)]
Publication == [by : Tasks, snap : Seq(Subs), within : SUBSET Msgs,
                ended : {"no", "returned", "cancelled"}]

\* The types of the bus's fields, of the publishes in progress and of the history.
TypeOK ==
    /\ enableMetrics \in BOOLEAN
    /\ DOMAIN subscribers \subseteq Topics
    /\ \A t \in DOMAIN subscribers : subscribers[t] \in Seq(Subs)
    /\ published \in Nat /\ delivered \in Nat /\ errors \in Nat
    /\ home \in [Subs -> Topics \union {NoTopic}]
    /\ stack \in [Tasks -> Seq(Frame)]
    /\ pub \in Seq(Publication)
    /\ received \in [Subs -> Seq(Msgs)]
    /\ left \in [Subs -> 0..StillIn]
    /\ discarded \in Nat /\ resets \in Nat

\* The registry holds each live subscription once, under its own topic, and no
\* topic with an empty list: what get_all_topics, get_subscribers_count and the
\* topic and subscriber figures of get_metrics report is exact.
RegistryExact ==
    /\ \A t \in DOMAIN subscribers : subscribers[t] # <<>>
    /\ \A t \in Topics :
          /\ Range(ListOf(t)) = {s \in Live : home[s] = t}
          /\ Len(ListOf(t)) = Cardinality(Range(ListOf(t)))

\* How far the fan-out of message m has come: calls made from its snapshot.
Called(m) ==
    LET frames == {f \in UNION {Range(stack[k]) : k \in Tasks} : f.msg = m}
    IN IF frames = {} THEN Len(pub[m].snap)
       ELSE Len(pub[m].snap) - Len((CHOOSE f \in frames : TRUE).subs) + 1

Times(s, m) == Cardinality({i \in DOMAIN received[s] : received[s][i] = m})

\* Every handler of the snapshot is called exactly once and in turn, whatever
\* the handlers before it did and whoever subscribed or unsubscribed meanwhile;
\* nobody else is called.  Only a cancelled publish stops short.
FanOutExact ==
    \A m \in DOMAIN pub : \A s \in Subs :
        /\ pub[m].ended = "no" =>
              Times(s, m) = IF s \in Range(SubSeq(pub[m].snap, 1, Called(m))) THEN 1 ELSE 0
        /\ pub[m].ended = "returned" =>
              Times(s, m) = IF s \in Range(pub[m].snap) THEN 1 ELSE 0
        /\ pub[m].ended = "cancelled" =>
              Times(s, m) <= IF s \in Range(pub[m].snap) THEN 1 ELSE 0

\* A handler may still be called after unsubscribe() returned, but only with a
\* message whose publish had begun before: later publishes never reach it.
NoLateDelivery ==
    \A s \in Subs : \A m \in Range(received[s]) : m <= left[s]

\* A subscription sees the messages of one task in the order they were published,
\* except a message published from inside a handler of an earlier one: only
\* that one may overtake.
OrderPerPublisher ==
    \A s \in Subs : \A i, j \in DOMAIN received[s] :
        LET early == received[s][i]
            late  == received[s][j]
        IN i < j /\ early > late /\ pub[early].by = pub[late].by
              => late \in pub[early].within

\* Handlers running now, and handlers that a cancellation ended uncounted.
Uncounted == Cardinality({m \in DOMAIN pub : pub[m].ended \in {"no", "cancelled"}})

HandlerCalls == SumFunction([s \in Subs |-> Len(received[s])])

\* Every call of a handler is counted once, as delivered or as an error, unless
\* it still runs or was cancelled; a reset in mid-publish loses no more than it
\* wipes.  Without metrics nothing is counted.  Topics and subscribers are those of
\* the subscriptions that are alive.
MetricsAddUp ==
    LET counted == GetMetrics.delivered + GetMetrics.errors + discarded IN
    /\ IF enableMetrics THEN counted + Uncounted = HandlerCalls ELSE counted = 0
    /\ GetMetrics.topics = Cardinality({home[s] : s \in Live})
    /\ GetMetrics.total_subscribers = Cardinality(Live)

-------------------------------------------------------------------------------
\* The subscriptions of m's snapshot that have not been called yet.
StillOwed(m) ==
    IF \E k \in Tasks : m \in InProgress(k)
       THEN LET k == CHOOSE k \in Tasks : m \in InProgress(k)
                i == CHOOSE i \in DOMAIN stack[k] : stack[k][i].msg = m
            IN Range(Tail(stack[k][i].subs))
       ELSE {}

\* The bus keeps the promise of a topic bus.
PS == INSTANCE PubSub WITH
         members <- [t \in Topics |-> Range(ListOf(t))],
         issued  <- DOMAIN pub,
         owed    <- [m \in Msgs |-> StillOwed(m)],
         got     <- received
ImplementsPubSub == PS!Spec
===============================================================================
