-------------------------- MODULE InMemoryBusProofs ---------------------------
(***************************************************************************)
(* The in-memory bus, for any number of topics, subscriptions and tasks,   *)
(* and publishes nested to any depth.  Its registry is exact and no        *)
(* handler is called with a message published after its subscription was   *)
(* removed; every handler of a snapshot is called exactly once, in the     *)
(* publisher's order; its metrics add up; and the bus implements PubSub.   *)
(***************************************************************************)
EXTENDS InMemoryBus, ListsProofs, FiniteSetTheorems

\* The entries of a list are live, of its topic, and each there once ...
ListExact(t) ==
    /\ subscribers[t] # <<>> /\ OneEach(subscribers[t])
    /\ \A i \in DOMAIN subscribers[t] :
          subscribers[t][i] \in Live /\ home[subscribers[t][i]] = t

\* ... and every live subscription is listed: why a removal that looks for one entry
\* under one topic takes out all there is of a subscription.
RegistryInv ==
    /\ \A t \in DOMAIN subscribers : ListExact(t)
    /\ \A s \in Live : /\ home[s] \in DOMAIN subscribers
                       /\ \E i \in DOMAIN subscribers[home[s]] : subscribers[home[s]][i] = s
    /\ \A s \in Subs : home[s] = NoTopic => left[s] = StillIn

\* A publish in progress began before any subscription it has still to call was
\* removed.
Fits(f) == /\ f.msg <= Len(pub) /\ f.subs # <<>>
           /\ \A j \in DOMAIN f.subs : f.msg <= left[f.subs[j]]

InFlightInv ==
    /\ Len(pub) <= MaxMsgs
    /\ \A k \in Tasks : \A i \in DOMAIN stack[k] : Fits(stack[k][i])
    /\ \A s \in Subs : \A i \in DOMAIN received[s] :
          received[s][i] <= left[s] /\ received[s][i] <= Len(pub)

IInv == TypeOK /\ RegistryInv /\ InFlightInv

-------------------------------------------------------------------------------
\* Dropping an element of a list without repetitions leaves the others, once each.
LEMMA DroppedLeavesOthers ==
    ASSUME NEW S, NEW l \in Seq(S), OneEach(l), NEW s
    PROVE  /\ Dropped(l, s) \in Seq(S)
           /\ OneEach(Dropped(l, s))
           /\ Range(Dropped(l, s)) = Range(l) \ {s}
<1>1. CASE s \notin Range(l)
  BY <1>1 DEF Dropped, Range
<1>2. CASE s \in Range(l)
  BY <1>2, RemovedIs DEF Dropped
<1>3. QED
  BY <1>1, <1>2

-------------------------------------------------------------------------------
\* A new bus has no entry, no publish and no call.
LEMMA InitEstablishes == Init => IInv
<1> SUFFICES ASSUME Init PROVE IInv
  OBVIOUS
<1> USE BusAssumption DEF Init
<1>1. StillIn \in 0..StillIn /\ MaxMsgs < StillIn
  BY DEF StillIn
<1>2. TypeOK
  BY <1>1 DEF TypeOK
<1>3. RegistryInv
  BY DEF RegistryInv, Live
<1>4. InFlightInv
  BY DEF InFlightInv
<1>5. QED
  BY <1>2, <1>3, <1>4 DEF IInv

\* The list of a topic, present or not, holds subscriptions.
LEMMA ListsTyped == ASSUME TypeOK, NEW t PROVE ListOf(t) \in Seq(Subs)
  BY DEF TypeOK, ListOf

\* What type correctness says of the publishes in progress.
LEMMA FramesTyped ==
    ASSUME TypeOK, NEW k \in Tasks, NEW i \in DOMAIN stack[k]
    PROVE  stack[k][i].msg \in Msgs /\ stack[k][i].subs \in Seq(Subs)
<1>1. stack[k] \in Seq(Frame)
  BY DEF TypeOK
<1>2. stack[k][i] \in Frame
  BY <1>1
<1>3. QED
  BY <1>2 DEF Frame

\* A new subscription is live, the last of its list, and owed nothing yet.
LEMMA SubscribePreserves ==
    ASSUME IInv, NEW s \in Subs, NEW t \in Topics, Subscribe(s, t) PROVE IInv'
<1> DEFINE l == ListOf(t)
<1> USE BusAssumption
<1>1. TypeOK /\ RegistryInv /\ InFlightInv
  BY DEF IInv
<1>2. l \in Seq(Subs)
  BY <1>1, ListsTyped
<1>3. /\ DOMAIN subscribers' = DOMAIN subscribers \union {t}
      /\ subscribers'[t] = Append(l, s)
      /\ \A u \in DOMAIN subscribers : u # t => subscribers'[u] = subscribers[u]
  BY DEF Subscribe
<1>4. TypeOK'
  <2>1. ASSUME NEW u \in DOMAIN subscribers' PROVE subscribers'[u] \in Seq(Subs)
    <3> HIDE DEF l
    <3>1. Append(l, s) \in Seq(Subs)
      BY <1>2
    <3>2. QED
      BY <1>1, <1>3, <3>1 DEF TypeOK
  <2>2. home' \in [Subs -> Topics \union {NoTopic}]
    BY <1>1 DEF TypeOK, Subscribe
  <2>3. QED
    BY <1>1, <1>3, <2>1, <2>2 DEF TypeOK, Subscribe, counters, registry, StillIn, Msgs, Frame, Publication
<1>5. home[s] = NoTopic /\ s \notin Live /\ left[s] = StillIn
  BY <1>1 DEF Subscribe, Live, RegistryInv
<1>6. Live' = Live \union {s} /\ home'[s] = t /\ \A x \in Live : home'[x] = home[x]
  BY <1>1, <1>5 DEF Subscribe, Live, TypeOK, StillIn
<1>7. RegistryInv'
  <2>1. ASSUME NEW u \in DOMAIN subscribers' PROVE ListExact(u)'
    <3>1. CASE u # t
      BY <1>1, <1>3, <1>6, <2>1, <3>1 DEF RegistryInv, ListExact, OneEach
    <3>2. CASE u = t
      <4>1. OneEach(l) /\ \A i \in DOMAIN l : l[i] \in Live /\ home[l[i]] = t
        BY <1>1 DEF RegistryInv, ListExact, ListOf, OneEach
      <4>2. \A i \in DOMAIN l : l[i] # s
        BY <1>5, <4>1
      <4> HIDE DEF l
      <4>3. /\ Append(l, s) # <<>> /\ OneEach(Append(l, s))
            /\ \A i \in DOMAIN Append(l, s) : Append(l, s)[i] = s \/ \E j \in DOMAIN l : Append(l, s)[i] = l[j]
        BY <1>2, <4>1, <4>2 DEF OneEach
      <4>4. QED
        BY <1>3, <1>6, <3>2, <4>1, <4>3 DEF ListExact, OneEach
    <3>3. QED
      BY <3>1, <3>2
  <2>2. ASSUME NEW x \in Live'
        PROVE  /\ home'[x] \in DOMAIN subscribers'
               /\ \E i \in DOMAIN subscribers'[home'[x]] : subscribers'[home'[x]][i] = x
    <3>1. CASE x = s
      <4> HIDE DEF l
      <4>1. Len(l) + 1 \in DOMAIN Append(l, s) /\ Append(l, s)[Len(l) + 1] = s
        BY <1>2
      <4>2. QED
        BY <1>3, <1>6, <3>1, <4>1
    <3>2. CASE x # s
      <4>1. PICK i \in DOMAIN subscribers[home[x]] : subscribers[home[x]][i] = x
        BY <1>1, <1>6, <3>2 DEF RegistryInv
      <4>2. x \in Live /\ home[x] \in DOMAIN subscribers /\ home'[x] = home[x]
        BY <1>1, <1>6, <3>2 DEF RegistryInv
      <4>3. CASE home[x] # t
        BY <1>3, <4>1, <4>2, <4>3
      <4>4. CASE home[x] = t
        <5>1. l = subscribers[t] /\ i \in DOMAIN l /\ l[i] = x
          BY <4>1, <4>2, <4>4 DEF ListOf
        <5> HIDE DEF l
        <5>2. i \in DOMAIN Append(l, s) /\ Append(l, s)[i] = x
          BY <1>2, <5>1
        <5>3. QED
          BY <1>3, <4>2, <4>4, <5>2
      <4>5. QED
        BY <4>3, <4>4
    <3>3. QED
      BY <3>1, <3>2
  <2>3. \A x \in Subs : home'[x] = NoTopic => left'[x] = StillIn
    BY <1>1, <1>6 DEF RegistryInv, Subscribe, TypeOK
  <2>4. QED
    BY <2>1, <2>2, <2>3 DEF RegistryInv, StillIn
<1>8. InFlightInv'
  BY <1>1 DEF InFlightInv, Fits, Subscribe
<1>9. QED
  BY <1>4, <1>7, <1>8 DEF IInv

\* What is removed was listed once, and leaves after every publish begun so far.
LEMMA UnsubscribePreserves ==
    ASSUME IInv, NEW s \in Subs, Unsubscribe(s) PROVE IInv'
<1> DEFINE t == home[s]
           l == subscribers[t]
<1> USE BusAssumption
<1>1. TypeOK /\ RegistryInv /\ InFlightInv
  BY DEF IInv
<1>2. t \in Topics
  BY <1>1 DEF Unsubscribe, TypeOK
<1>3. /\ DOMAIN subscribers' = {u \in DOMAIN subscribers : u = t => Dropped(l, s) # <<>>}
      /\ \A u \in DOMAIN subscribers' :
            subscribers'[u] = IF u = t THEN Dropped(l, s) ELSE subscribers[u]
  BY DEF Unsubscribe, SubscribersWithout, Restrict
<1>4. t \in DOMAIN subscribers => /\ Dropped(l, s) \in Seq(Subs)
                                  /\ OneEach(Dropped(l, s))
                                  /\ Range(Dropped(l, s)) = Range(l) \ {s}
  BY <1>1, DroppedLeavesOthers DEF TypeOK, RegistryInv, ListExact
<1>5. left' \in [Subs -> 0..StillIn] /\ Len(pub) \in 0..MaxMsgs
  BY <1>1 DEF Unsubscribe, TypeOK, InFlightInv, StillIn
<1>6. /\ \A x \in Subs : x # s => left'[x] = left[x]
      /\ left'[s] = IF s \in Live THEN Len(pub) ELSE left[s]
      /\ home' = home /\ home[s] # NoTopic
  BY <1>1 DEF Unsubscribe, TypeOK
<1>7. Live' = Live \ {s}
  BY <1>1, <1>5, <1>6 DEF Live, StillIn
<1>8. TypeOK'
  <2>1. ASSUME NEW u \in DOMAIN subscribers' PROVE subscribers'[u] \in Seq(Subs)
    BY <1>1, <1>3, <1>4 DEF TypeOK
  <2>2. QED
    BY <1>1, <1>3, <1>5, <2>1 DEF TypeOK, Unsubscribe, counters, StillIn, Msgs, Frame, Publication
<1>9. RegistryInv'
  <2>1. ASSUME NEW u \in DOMAIN subscribers' PROVE ListExact(u)'
    <3>1. CASE u # t
      <4>1. /\ subscribers'[u] = subscribers[u] /\ u \in DOMAIN subscribers
            /\ ListExact(u)
        BY <1>1, <1>3, <3>1 DEF RegistryInv
      <4>2. \A i \in DOMAIN subscribers[u] : subscribers[u][i] # s
        BY <3>1, <4>1 DEF ListExact
      <4>3. QED
        BY <1>6, <1>7, <4>1, <4>2 DEF ListExact, OneEach
    <3>2. CASE u = t
      <4> DEFINE d == Dropped(l, s)
      <4>1. subscribers'[u] = d /\ d # <<>> /\ t \in DOMAIN subscribers /\ ListExact(t)
        BY <1>1, <1>3, <3>2 DEF RegistryInv
      <4>2. \A i \in DOMAIN d : d[i] # s /\ \E j \in DOMAIN l : d[i] = l[j]
        BY <1>4, <4>1 DEF Range
      <4>3. OneEach(d)
        BY <1>4, <4>1
      <4> HIDE DEF d
      <4>4. QED
        BY <1>6, <1>7, <3>2, <4>1, <4>2, <4>3 DEF ListExact, OneEach
    <3>3. QED
      BY <3>1, <3>2
  <2>2. ASSUME NEW x \in Live'
        PROVE  /\ home'[x] \in DOMAIN subscribers'
               /\ \E i \in DOMAIN subscribers'[home'[x]] : subscribers'[home'[x]][i] = x
    <3>1. /\ x # s /\ home'[x] = home[x] /\ home[x] \in DOMAIN subscribers
          /\ \E i \in DOMAIN subscribers[home[x]] : subscribers[home[x]][i] = x
      BY <1>1, <1>6, <1>7 DEF RegistryInv
    <3>2. CASE home[x] # t
      BY <1>3, <3>1, <3>2
    <3>3. CASE home[x] = t
      <4> DEFINE d == Dropped(l, s)
      <4>1. x \in Range(d)
        BY <1>4, <3>1, <3>3 DEF Range
      <4>2. \E i \in DOMAIN d : d[i] = x
        BY <4>1 DEF Range
      <4>3. d # <<>>
        BY <4>2
      <4> HIDE DEF d
      <4>4. home[x] \in DOMAIN subscribers' /\ subscribers'[home[x]] = d
        BY <1>3, <3>1, <3>3, <4>3 DEF d
      <4>5. QED
        BY <3>1, <4>2, <4>4
    <3>4. QED
      BY <3>2, <3>3
  <2>3. \A x \in Subs : home'[x] = NoTopic => left'[x] = StillIn
    BY <1>1, <1>6 DEF RegistryInv
  <2>4. QED
    BY <2>1, <2>2, <2>3 DEF RegistryInv, StillIn
<1>10. InFlightInv'
  <2>1. pub' = pub /\ stack' = stack /\ received' = received
    BY DEF Unsubscribe
  <2>2. ASSUME NEW k \in Tasks, NEW i \in DOMAIN stack[k], NEW j \in DOMAIN stack[k][i].subs
        PROVE  stack[k][i].msg <= left'[stack[k][i].subs[j]]
    <3>1. stack[k][i].msg <= Len(pub) /\ stack[k][i].msg <= left[stack[k][i].subs[j]]
      BY <1>1 DEF InFlightInv, Fits
    <3>2. stack[k][i].subs[j] \in Subs
      BY <1>1, FramesTyped
    <3>3. QED
      BY <1>6, <3>1, <3>2
  <2>3. ASSUME NEW x \in Subs, NEW i \in DOMAIN received[x]
        PROVE  received[x][i] <= left'[x]
    BY <1>1, <1>6 DEF InFlightInv
  <2>4. QED
    BY <1>1, <2>1, <2>2, <2>3 DEF InFlightInv, Fits
<1>11. QED
  BY <1>8, <1>9, <1>10 DEF IInv

\* Everybody leaves after every publish begun so far.
LEMMA ClearPreserves == ASSUME IInv, ClearAllSubscriptions PROVE IInv'
<1> USE BusAssumption
<1>1. TypeOK /\ RegistryInv /\ InFlightInv
  BY DEF IInv
<1>2. left' \in [Subs -> 0..StillIn] /\ Len(pub) \in 0..MaxMsgs
  BY <1>1 DEF ClearAllSubscriptions, TypeOK, InFlightInv, StillIn
<1>3. \A x \in Subs : left'[x] = IF x \in Live THEN Len(pub) ELSE left[x]
  BY DEF ClearAllSubscriptions
<1>4. Live' = {}
  BY <1>1, <1>2, <1>3 DEF Live, StillIn, ClearAllSubscriptions
<1>5. TypeOK'
  <2>1. DOMAIN subscribers' = {}
    BY DEF ClearAllSubscriptions
  <2>2. QED
    BY <1>1, <1>2, <2>1
    DEF TypeOK, ClearAllSubscriptions, counters, StillIn, Msgs, Frame, Publication
<1>6. RegistryInv'
  <2>1. \A x \in Subs : home'[x] = NoTopic => left'[x] = StillIn
    BY <1>1, <1>3 DEF RegistryInv, ClearAllSubscriptions, Live
  <2>2. DOMAIN subscribers' = {}
    BY DEF ClearAllSubscriptions
  <2>3. QED
    BY <1>4, <2>1, <2>2 DEF RegistryInv, StillIn
<1>7. InFlightInv'
  <2>1. pub' = pub /\ stack' = stack /\ received' = received
    BY DEF ClearAllSubscriptions
  <2>2. ASSUME NEW k \in Tasks, NEW i \in DOMAIN stack[k], NEW j \in DOMAIN stack[k][i].subs
        PROVE  stack[k][i].msg <= left'[stack[k][i].subs[j]]
    <3>1. stack[k][i].msg <= Len(pub) /\ stack[k][i].msg <= left[stack[k][i].subs[j]]
      BY <1>1 DEF InFlightInv, Fits
    <3>2. stack[k][i].subs[j] \in Subs
      BY <1>1, FramesTyped
    <3>3. QED
      BY <1>3, <3>1, <3>2
  <2>3. ASSUME NEW x \in Subs, NEW i \in DOMAIN received[x]
        PROVE  received[x][i] <= left'[x]
    BY <1>1, <1>3 DEF InFlightInv
  <2>4. QED
    BY <1>1, <2>1, <2>2, <2>3 DEF InFlightInv, Fits
<1>8. QED
  BY <1>5, <1>6, <1>7 DEF IInv

\* What the fan-out leaves alone ...
LEMMA RegistryUntouched ==
    ASSUME RegistryInv, UNCHANGED registry PROVE RegistryInv'
  BY DEF RegistryInv, registry, ListExact, OneEach, Live, StillIn

\* ... and what it must keep typed.
LEMMA FanOutTyped ==
    ASSUME TypeOK, UNCHANGED <<registry, enableMetrics, discarded, resets>>,
           stack' \in [Tasks -> Seq(Frame)], pub' \in Seq(Publication),
           received' \in [Subs -> Seq(Msgs)], {published', delivered', errors'} \subseteq Nat
    PROVE  TypeOK'
  BY DEF TypeOK, registry

\* A handler called with m, while no publish after m has begun for it to miss.
LEMMA HandedPreserves ==
    ASSUME IInv, NEW s \in Subs, NEW m \in Msgs, Handed(s, m), m <= left[s], m <= Len(pub)',
           Len(pub) <= Len(pub)', pub' \in Seq(Publication), left' = left
    PROVE  /\ received' \in [Subs -> Seq(Msgs)]
           /\ \A x \in Subs : \A i \in DOMAIN received'[x] :
                 received'[x][i] <= left'[x] /\ received'[x][i] <= Len(pub)'
<1>1. /\ received \in [Subs -> Seq(Msgs)] /\ Len(pub) \in Nat /\ Len(pub)' \in Nat
      /\ \A x \in Subs : \A i \in DOMAIN received[x] :
            received[x][i] <= left[x] /\ received[x][i] <= Len(pub)
  BY DEF IInv, TypeOK, InFlightInv
<1>2. /\ received'[s] = Append(received[s], m)
      /\ \A x \in Subs : x # s => received'[x] = received[x]
      /\ received' \in [Subs -> Seq(Msgs)]
  BY <1>1 DEF Handed
<1>3. ASSUME NEW x \in Subs, NEW i \in DOMAIN received'[x]
      PROVE  received'[x][i] <= left'[x] /\ received'[x][i] <= Len(pub)'
  <2>1. received[x] \in Seq(Msgs) /\ received[s] \in Seq(Msgs)
    BY <1>1
  <2>2. CASE x # s
    <3>1. i \in DOMAIN received[x] /\ received'[x][i] = received[x][i]
      BY <1>2, <2>2
    <3>2. received[x][i] \in Msgs
      BY <2>1, <3>1
    <3>3. QED
      BY <1>1, <3>1, <3>2 DEF Msgs
  <2>3. CASE x = s /\ i = Len(received[s]) + 1
    BY <1>2, <2>1, <2>3
  <2>4. CASE x = s /\ i # Len(received[s]) + 1
    <3>1. i \in DOMAIN received[s] /\ received'[s][i] = received[s][i]
      BY <1>2, <2>1, <2>4
    <3>2. received[s][i] \in Msgs
      BY <2>1, <3>1
    <3>3. QED
      BY <1>1, <2>4, <3>1, <3>2 DEF Msgs
  <2>5. QED
    BY <2>2, <2>3, <2>4
<1>4. QED
  BY <1>2, <1>3

\* The snapshot of a new publish holds live subscriptions only.
LEMMA PublishPreserves ==
    ASSUME IInv, NEW k \in Tasks, NEW t \in Topics, Publish(k, t) PROVE IInv'
<1> DEFINE m    == Len(pub) + 1
           snap == ListOf(t)
           f    == [msg |-> m, subs |-> snap]
           p    == [by |-> k, snap |-> snap, within |-> InProgress(k),
                    ended |-> IF snap = <<>> THEN "returned" ELSE "no"]
<1> USE BusAssumption
<1>1. TypeOK /\ RegistryInv /\ InFlightInv
  BY DEF IInv
<1>2. /\ m \in Msgs /\ m < StillIn /\ pub \in Seq(Publication) /\ snap \in Seq(Subs)
  BY <1>1, ListsTyped DEF Publish, TypeOK, Msgs, StillIn
<1>3. \A i \in DOMAIN snap : snap[i] \in Subs /\ left[snap[i]] = StillIn
  BY <1>1 DEF ListOf, RegistryInv, ListExact, Live
<1>4. pub' = Append(pub, p) /\ pub' \in Seq(Publication) /\ Len(pub)' = m
  <2>1. InProgress(k) \in SUBSET Msgs
    BY <1>1, FramesTyped DEF InProgress
  <2>2. p \in Publication
    BY <1>2, <2>1 DEF Publication
  <2>3. pub' = Append(pub, p)
    BY DEF Publish
  <2> HIDE DEF p
  <2>4. QED
    BY <1>2, <2>2, <2>3
<1>5. CASE snap = <<>>
  <2>1. UNCHANGED <<stack, received, registry, enableMetrics>>
    BY <1>5 DEF Publish
  <2>2. TypeOK'
    <3>1. /\ stack' \in [Tasks -> Seq(Frame)] /\ received' \in [Subs -> Seq(Msgs)]
          /\ {published', delivered', errors'} \subseteq Nat /\ UNCHANGED <<discarded, resets>>
      BY <1>1, <2>1 DEF TypeOK, Publish
    <3>2. QED
      BY <1>1, <1>4, <2>1, <3>1, FanOutTyped
  <2>3. RegistryInv'
    BY <1>1, <2>1, RegistryUntouched
  <2>4. InFlightInv'
    <3>1. ASSUME NEW q \in Tasks, NEW i \in DOMAIN stack[q] PROVE Fits(stack[q][i])'
      <4>1. stack[q][i].msg \in Nat /\ Fits(stack[q][i])
        BY <1>1, FramesTyped DEF InFlightInv, Msgs
      <4>2. QED
        BY <1>2, <1>4, <2>1, <4>1 DEF Fits, registry
    <3>2. ASSUME NEW x \in Subs, NEW i \in DOMAIN received[x]
          PROVE  received[x][i] <= left[x] /\ received[x][i] <= m
      <4>1. received[x] \in Seq(Msgs)
        BY <1>1 DEF TypeOK
      <4>2. received[x][i] \in Msgs
        BY <4>1
      <4>3. QED
        BY <1>1, <1>2, <4>2 DEF InFlightInv, Msgs
    <3>3. QED
      BY <1>2, <1>4, <2>1, <3>1, <3>2 DEF InFlightInv, registry, Msgs
  <2>5. QED
    BY <2>2, <2>3, <2>4 DEF IInv
<1>6. CASE snap # <<>>
  <2>1. /\ UNCHANGED <<registry, enableMetrics>>
        /\ stack' = [stack EXCEPT ![k] = Append(@, f)]
        /\ Handed(Head(snap), m)
    BY <1>6 DEF Publish
  <2>2. Head(snap) \in Subs /\ left[Head(snap)] = StillIn
    BY <1>2, <1>3, <1>6
  <2>3. /\ received' \in [Subs -> Seq(Msgs)]
        /\ \A x \in Subs : \A i \in DOMAIN received'[x] :
              received'[x][i] <= left'[x] /\ received'[x][i] <= Len(pub)'
    BY <1>2, <1>4, <2>1, <2>2, HandedPreserves DEF registry, Msgs, StillIn
  <2>4. f \in Frame /\ \A q \in Tasks : stack[q] \in Seq(Frame)
    BY <1>1, <1>2 DEF TypeOK, Frame
  <2>5. stack' \in [Tasks -> Seq(Frame)]
    BY <1>1, <2>1, <2>4 DEF TypeOK
  <2>6. TypeOK'
    <3>1. {published', delivered', errors'} \subseteq Nat /\ UNCHANGED <<discarded, resets>>
      BY <1>1 DEF TypeOK, Publish
    <3>2. QED
      BY <1>1, <1>4, <2>1, <2>3, <2>5, <3>1, FanOutTyped
  <2>7. RegistryInv'
    BY <1>1, <2>1, RegistryUntouched
  <2>8. ASSUME NEW q \in Tasks, NEW i \in DOMAIN stack'[q] PROVE Fits(stack[q][i])'
    <3>1. CASE q = k /\ i = Len(stack[k]) + 1
      <4>1. stack'[q][i] = f
        BY <1>1, <2>1, <2>4, <3>1 DEF TypeOK
      <4>2. f.msg = m /\ f.subs = snap /\ left' = left
        BY <2>1 DEF registry
      <4> HIDE DEF snap
      <4>3. \A j \in DOMAIN snap : m <= left[snap[j]]
        BY <1>2, <1>3 DEF Msgs, StillIn
      <4> HIDE DEF f, m
      <4>4. m \in Nat
        BY <1>2 DEF Msgs
      <4>5. QED
        BY <1>4, <1>6, <4>1, <4>2, <4>3, <4>4 DEF Fits
    <3>2. CASE ~(q = k /\ i = Len(stack[k]) + 1)
      <4>1. i \in DOMAIN stack[q] /\ stack'[q][i] = stack[q][i]
        BY <1>1, <2>1, <2>4, <3>2 DEF TypeOK
      <4>2. stack[q][i].msg \in Nat /\ Fits(stack[q][i])
        BY <1>1, <4>1, FramesTyped DEF InFlightInv, Msgs
      <4>3. QED
        BY <1>2, <1>4, <2>1, <4>1, <4>2 DEF Fits, registry
    <3>3. QED
      BY <3>1, <3>2
  <2>9. QED
    BY <1>2, <1>4, <2>3, <2>6, <2>7, <2>8 DEF IInv, InFlightInv, Msgs
<1>7. QED
  BY <1>5, <1>6

Counted == /\ {published', delivered', errors'} \subseteq Nat
           /\ UNCHANGED <<registry, enableMetrics, discarded, resets>>

\* The innermost publish of a task, and the frames under it.
LEMMA TopAndBelow ==
    ASSUME IInv, NEW k \in Tasks, stack[k] # <<>>
    PROVE  /\ Top(k).msg \in Msgs /\ Top(k).subs \in Seq(Subs) /\ Fits(Top(k))
           /\ Below(k) \in Seq(Frame) /\ Len(Below(k)) = Len(stack[k]) - 1
           /\ \A i \in 1..(Len(stack[k]) - 1) : Below(k)[i] = stack[k][i]
<1>1. stack[k] \in Seq(Frame) /\ Len(stack[k]) \in DOMAIN stack[k]
  BY DEF IInv, TypeOK
<1>2. Top(k).msg \in Msgs /\ Top(k).subs \in Seq(Subs) /\ Fits(Top(k))
  BY <1>1, FramesTyped DEF Top, IInv, InFlightInv
<1>3. QED
  BY <1>1, <1>2 DEF Below

\* A publish that returns or is cancelled.
LEMMA EndOfPublishPreserves ==
    ASSUME IInv, NEW k \in Tasks, stack[k] # <<>>, Counted, UNCHANGED received,
           stack' = [stack EXCEPT ![k] = Below(k)],
           NEW how \in {"returned", "cancelled"},
           pub' = [pub EXCEPT ![Top(k).msg].ended = how]
    PROVE  IInv'
<1> DEFINE m == Top(k).msg
<1>1. TypeOK /\ RegistryInv /\ InFlightInv
  BY DEF IInv
<1>2. /\ Below(k) \in Seq(Frame) /\ Len(Below(k)) = Len(stack[k]) - 1
      /\ \A i \in 1..(Len(stack[k]) - 1) : Below(k)[i] = stack[k][i]
  BY TopAndBelow
<1>3. pub' \in Seq(Publication) /\ Len(pub)' = Len(pub)
  <2>1. pub \in Seq(Publication)
    BY <1>1 DEF TypeOK
  <2>2. m \in 1..Len(pub)
    BY <2>1, TopAndBelow DEF Fits, Msgs
  <2> DEFINE e == [pub[m] EXCEPT !.ended = how]
  <2>3. e \in Publication
    <3>1. pub[m] \in Publication
      BY <2>1, <2>2
    <3>2. QED
      BY <3>1 DEF Publication
  <2>4. pub' = [pub EXCEPT ![m] = e]
    OBVIOUS
  <2> HIDE DEF e, m
  <2>5. /\ [pub EXCEPT ![m] = e] \in Seq(Publication)
        /\ Len([pub EXCEPT ![m] = e]) = Len(pub)
    BY ONLY <2>1, <2>2, <2>3, ExceptSeq
  <2>6. QED
    BY ONLY <2>4, <2>5
<1>4. stack' \in [Tasks -> Seq(Frame)]
  BY <1>1, <1>2 DEF TypeOK
<1>5. TypeOK'
  BY <1>1, <1>3, <1>4, FanOutTyped DEF TypeOK, Counted
<1>6. RegistryInv'
  BY <1>1, RegistryUntouched DEF Counted
<1>7. ASSUME NEW q \in Tasks, NEW i \in DOMAIN stack'[q] PROVE Fits(stack[q][i])'
  <2>1. stack[q] \in Seq(Frame) /\ stack[k] \in Seq(Frame)
    BY <1>1 DEF TypeOK
  <2>2. i \in DOMAIN stack[q] /\ stack'[q][i] = stack[q][i]
    <3>1. stack'[q] = IF q = k THEN Below(k) ELSE stack[q]
      BY <1>1 DEF TypeOK
    <3>2. CASE q = k
      <4>1. i \in DOMAIN Below(k)
        BY <3>1, <3>2
      <4>2. i \in 1..(Len(stack[k]) - 1)
        BY <1>2, <4>1
      <4>3. i \in DOMAIN stack[k]
        BY <2>1, <4>2
      <4>4. QED
        BY <1>2, <3>1, <3>2, <4>2, <4>3
    <3>3. CASE q # k
      BY <3>1, <3>3
    <3>4. QED
      BY <3>2, <3>3
  <2>3. Fits(stack[q][i])
    BY <1>1, <2>2 DEF InFlightInv
  <2>4. QED
    BY <1>3, <2>2, <2>3 DEF Fits, Counted, registry
<1>8. QED
  BY <1>1, <1>3, <1>5, <1>6, <1>7 DEF IInv, InFlightInv, Counted, registry

\* A publish that goes on to the next handler of its snapshot.
LEMMA NextHandlerPreserves ==
    ASSUME IInv, NEW k \in Tasks, stack[k] # <<>>, Counted, UNCHANGED pub,
           Tail(Top(k).subs) # <<>>,
           stack' = [stack EXCEPT
              ![k] = Append(Below(k), [msg |-> Top(k).msg, subs |-> Tail(Top(k).subs)])],
           Handed(Head(Tail(Top(k).subs)), Top(k).msg)
    PROVE  IInv'
<1> DEFINE m    == Top(k).msg
           rest == Tail(Top(k).subs)
           f    == [msg |-> m, subs |-> rest]
<1>1. TypeOK /\ RegistryInv /\ InFlightInv
  BY DEF IInv
<1>2. /\ m \in Msgs /\ Top(k).subs \in Seq(Subs) /\ Fits(Top(k))
      /\ Below(k) \in Seq(Frame) /\ Len(Below(k)) = Len(stack[k]) - 1
      /\ \A i \in 1..(Len(stack[k]) - 1) : Below(k)[i] = stack[k][i]
  BY TopAndBelow
<1>3. /\ rest \in Seq(Subs) /\ m <= Len(pub)
      /\ \A j \in DOMAIN rest : rest[j] \in Subs /\ m <= left[rest[j]]
  <2>1. Top(k).subs # <<>>
    BY <1>2 DEF Fits
  <2>2. /\ rest \in Seq(Subs) /\ Len(rest) = Len(Top(k).subs) - 1
        /\ \A j \in 1..Len(rest) : rest[j] = Top(k).subs[j + 1]
    BY <1>2, <2>1
  <2>3. QED
    BY <1>2, <2>2 DEF Fits
<1>4. Head(rest) \in Subs /\ m <= left[Head(rest)]
  <2>1. 1 \in DOMAIN rest /\ Head(rest) = rest[1]
    BY <1>3
  <2>2. QED
    BY <1>3, <2>1
<1>5. /\ received' \in [Subs -> Seq(Msgs)]
      /\ \A x \in Subs : \A i \in DOMAIN received'[x] :
            received'[x][i] <= left'[x] /\ received'[x][i] <= Len(pub)'
  <2>1. left' = left /\ pub' \in Seq(Publication) /\ Len(pub) <= Len(pub)' /\ m <= Len(pub)'
    BY <1>1, <1>3 DEF TypeOK, Counted, registry
  <2>2. Handed(Head(rest), m)
    OBVIOUS
  <2> HIDE DEF m, rest
  <2>3. QED
    BY <1>2, <1>4, <2>1, <2>2, HandedPreserves
<1> HIDE DEF m, rest
<1>6. f \in Frame
  BY <1>2, <1>3 DEF Frame
<1>7. stack' = [stack EXCEPT ![k] = Append(Below(k), f)]
  BY DEF m, rest
<1> HIDE DEF f
<1>8. stack' \in [Tasks -> Seq(Frame)]
  BY <1>1, <1>2, <1>6, <1>7 DEF TypeOK
<1>9. TypeOK'
  BY <1>1, <1>5, <1>8, FanOutTyped DEF TypeOK, Counted
<1>10. RegistryInv'
  BY <1>1, RegistryUntouched DEF Counted
<1>11. ASSUME NEW q \in Tasks, NEW i \in DOMAIN stack'[q] PROVE Fits(stack[q][i])'
  <2>1. stack[q] \in Seq(Frame) /\ stack[k] \in Seq(Frame)
    BY <1>1 DEF TypeOK
  <2> DEFINE row == Append(Below(k), f)
  <2>new. /\ Len(row) = Len(stack[k]) /\ row[Len(stack[k])] = f /\ DOMAIN row = 1..Len(stack[k])
        /\ \A j \in 1..(Len(stack[k]) - 1) : row[j] = Below(k)[j]
    BY <1>2, <1>6, <2>1, AppendProperties
  <2>its. stack'[q] = IF q = k THEN row ELSE stack[q]
    BY <1>1, <1>7 DEF TypeOK
  <2> HIDE DEF row
  <2>2. CASE q = k /\ i = Len(stack[k])
    <3>1. stack'[q][i] = f
      BY <2>new, <2>its, <2>2
    <3>2. rest # <<>> /\ f.msg = m /\ f.subs = rest
      BY DEF f, rest
    <3>3. QED
      BY <1>3, <3>1, <3>2 DEF Fits, Counted, registry
  <2>3. CASE ~(q = k /\ i = Len(stack[k]))
    <3>1. i \in DOMAIN stack[q] /\ stack'[q][i] = stack[q][i]
      <4>1. CASE q = k
        <5>1. i \in 1..(Len(stack[k]) - 1)
          BY <2>1, <2>new, <2>its, <2>3, <4>1
        <5>2. i \in DOMAIN stack[k]
          BY <2>1, <5>1
        <5>3. QED
          BY <1>2, <2>new, <2>its, <4>1, <5>1, <5>2
      <4>2. CASE q # k
        BY <2>its, <4>2
      <4>3. QED
        BY <4>1, <4>2
    <3>2. Fits(stack[q][i])
      BY <1>1, <3>1 DEF InFlightInv
    <3>3. QED
      BY <3>1, <3>2 DEF Fits, Counted, registry
  <2>4. QED
    BY <2>2, <2>3
<1>12. QED
  BY <1>1, <1>5, <1>9, <1>10, <1>11 DEF IInv, InFlightInv

\* A handler has ended: the publish ends or calls the next one.
LEMMA AdvancePreserves ==
    ASSUME IInv, NEW k \in Tasks, stack[k] # <<>>, Counted, Advance(k) PROVE IInv'
<1>1. CASE Tail(Top(k).subs) = <<>>
  BY <1>1, EndOfPublishPreserves DEF Advance
<1>2. CASE Tail(Top(k).subs) # <<>>
  BY <1>2, NextHandlerPreserves DEF Advance
<1>3. QED
  BY <1>1, <1>2

\* Every step keeps the invariant.
LEMMA StepPreserves ==
    ASSUME IInv, [Next]_vars PROVE IInv'
<1>1. ASSUME NEW s \in Subs, NEW t \in Topics, Subscribe(s, t) PROVE IInv'
  BY <1>1, SubscribePreserves
<1>2. ASSUME NEW s \in Subs, Unsubscribe(s) PROVE IInv'
  BY <1>2, UnsubscribePreserves
<1>3. CASE ClearAllSubscriptions
  BY <1>3, ClearPreserves
<1>4. CASE ResetMetrics
  <2>1. TypeOK'
    BY <1>4 DEF ResetMetrics, registry, IInv, TypeOK
  <2>2. RegistryInv'
    BY <1>4, RegistryUntouched DEF ResetMetrics, IInv
  <2>3. InFlightInv'
    BY <1>4 DEF ResetMetrics, registry, IInv, InFlightInv, Fits
  <2>4. QED
    BY <2>1, <2>2, <2>3 DEF IInv
<1>5. ASSUME NEW k \in Tasks, NEW t \in Topics, Publish(k, t) PROVE IInv'
  BY <1>5, PublishPreserves
<1>6. ASSUME NEW k \in Tasks, HandlerReturns(k) PROVE IInv'
  <2>1. Counted
    BY <1>6 DEF HandlerReturns, Counted, IInv, TypeOK
  <2>2. QED
    BY <1>6, <2>1, AdvancePreserves DEF HandlerReturns
<1>7. ASSUME NEW k \in Tasks, HandlerRaises(k) PROVE IInv'
  <2>1. Counted
    BY <1>7 DEF HandlerRaises, Counted, IInv, TypeOK
  <2>2. QED
    BY <1>7, <2>1, AdvancePreserves DEF HandlerRaises
<1>8. ASSUME NEW k \in Tasks, HandlerCancelled(k) PROVE IInv'
  <2>1. Counted
    BY <1>8 DEF HandlerCancelled, Counted, counters, IInv, TypeOK
  <2>2. QED
    BY <1>8, <2>1, EndOfPublishPreserves DEF HandlerCancelled
<1>9. CASE UNCHANGED vars
  <2>1. TypeOK'
    BY <1>9 DEF vars, counters, registry, IInv, TypeOK
  <2>2. RegistryInv'
    BY <1>9, RegistryUntouched DEF vars, IInv
  <2>3. InFlightInv'
    BY <1>9 DEF vars, registry, IInv, InFlightInv, Fits
  <2>4. QED
    BY <2>1, <2>2, <2>3 DEF IInv
<1>10. QED
  BY <1>1, <1>2, <1>3, <1>4, <1>5, <1>6, <1>7, <1>8, <1>9 DEF Next

-------------------------------------------------------------------------------
\* The strengthened invariant holds in every state of the bus.
THEOREM Inductive == Spec => []IInv
  BY InitEstablishes, StepPreserves, PTL DEF Spec

\* The fields of the bus, its publishes in progress and its history keep their types.
THEOREM TypeCorrect == Spec => []TypeOK
<1>1. IInv => TypeOK
  BY DEF IInv
<1>2. QED
  BY <1>1, Inductive, PTL

\* A handler is never called with a message published after unsubscribe() or
\* clear_all_subscriptions() took its subscription out of the registry.
THEOREM NothingLate == Spec => []NoLateDelivery
<1>1. IInv => NoLateDelivery
  BY DEF IInv, InFlightInv, NoLateDelivery, Range
<1>2. QED
  BY <1>1, Inductive, PTL

\* A list without repetitions is as long as it has elements.
LEMMA OneEachCounts ==
    ASSUME NEW S, NEW l \in Seq(S), OneEach(l) PROVE Len(l) = Cardinality(Range(l))
<1>1. Len(l) \in Nat /\ DOMAIN l = 1..Len(l)
  BY LenProperties
<1>2. l \in [1..Len(l) -> Range(l)]
  BY <1>1 DEF Range
<1>3. l \in Bijection(1..Len(l), Range(l))
  BY <1>1, <1>2 DEF OneEach, Bijection, Injection, Surjection, IsInjective, Range
<1>4. QED
  BY <1>1, <1>3, FS_CountingElements DEF ExistsBijection

\* What the topic and subscriber figures report is exact: each live subscription
\* is listed once, under its own topic, and no topic has an empty list.
THEOREM RegistryStaysExact == Spec => []RegistryExact
<1>1. ASSUME TypeOK, RegistryInv PROVE RegistryExact
  <2>1. ASSUME NEW t \in Topics PROVE Range(ListOf(t)) = {s \in Live : home[s] = t}
    BY <1>1 DEF RegistryInv, ListExact, ListOf, Range, Live
  <2>2. ASSUME NEW t \in Topics PROVE Len(ListOf(t)) = Cardinality(Range(ListOf(t)))
    <3>1. ListOf(t) \in Seq(Subs)
      BY <1>1, ListsTyped
    <3>2. OneEach(ListOf(t))
      BY <1>1 DEF RegistryInv, ListExact, ListOf, OneEach
    <3>3. QED
      BY <3>1, <3>2, OneEachCounts
  <2>3. QED
    BY <1>1, <2>1, <2>2 DEF RegistryExact, RegistryInv, ListExact
<1>2. IInv => RegistryExact
  BY <1>1 DEF IInv
<1>3. QED
  BY <1>2, Inductive, PTL
-------------------------------------------------------------------------------
(* The fan-out: who is called with what, how often and in which order.     *)

\* Calls made from the snapshot of a publish p that is in progress in frame f.
Place(f, p) == Len(p.snap) - Len(f.subs) + 1

\* The publish has its task's name, and the frame the end of its snapshot.
Continues(k, f, p) ==
    /\ p.by = k /\ p.ended = "no" /\ Len(f.subs) <= Len(p.snap)
    /\ \A j \in DOMAIN f.subs : f.subs[j] = p.snap[Place(f, p) + j - 1]

\* A handler of the snapshot that has been called.
IsCalled(s, f, p) == \E j \in 1..Place(f, p) : p.snap[j] = s

\* Every publish that has not ended is in progress, in one place.
FramesInv ==
    /\ \A k \in Tasks : \A i \in DOMAIN stack[k] :
          Continues(k, stack[k][i], pub[stack[k][i].msg])
    /\ \A k \in Tasks : \A i, j \in DOMAIN stack[k] : stack[k][i].msg = stack[k][j].msg => i = j
    /\ \A m \in DOMAIN pub : pub[m].ended = "no" =>
          \E k \in Tasks : \E i \in DOMAIN stack[k] : stack[k][i].msg = m

\* What a task published after a publish that it still has in progress, it published from
\* inside that.
NestedInv ==
    \A k \in Tasks : \A i \in DOMAIN stack[k] : \A e \in DOMAIN pub :
        pub[e].by = k /\ stack[k][i].msg < e => stack[k][i].msg \in pub[e].within

\* Nobody is in a snapshot twice or is called twice; nobody is called who is not in it; of
\* one that was seen to its end everybody has been called; and of one in progress those
\* before the place the loop has come to.
CallsInv ==
    /\ \A m \in DOMAIN pub : OneEach(pub[m].snap)
    /\ \A s \in Subs : OneEach(received[s])
    /\ \A m \in DOMAIN pub, s \in Subs :
          /\ m \in Range(received[s]) => s \in Range(pub[m].snap)
          /\ pub[m].ended = "returned" /\ s \in Range(pub[m].snap) => m \in Range(received[s])
    /\ \A k \in Tasks : \A i \in DOMAIN stack[k] : \A s \in Subs :
          stack[k][i].msg \in Range(received[s])
              <=> IsCalled(s, stack[k][i], pub[stack[k][i].msg])

FanOutInv == FramesInv /\ NestedInv /\ CallsInv /\ OrderPerPublisher

\* A publish in progress is one of those begun; the place it has come to is in its snapshot.
LEMMA FrameFacts ==
    ASSUME IInv, FramesInv, NEW k \in Tasks, NEW i \in DOMAIN stack[k]
    PROVE  /\ stack[k][i].msg \in DOMAIN pub /\ stack[k][i].subs \in Seq(Subs)
           /\ stack[k][i].subs # <<>> /\ Continues(k, stack[k][i], pub[stack[k][i].msg])
           /\ pub[stack[k][i].msg] \in Publication
           /\ Place(stack[k][i], pub[stack[k][i].msg]) \in 1..Len(pub[stack[k][i].msg].snap)
<1> DEFINE f == stack[k][i]
<1>1. f.msg \in Msgs /\ f.subs \in Seq(Subs) /\ Fits(f) /\ pub \in Seq(Publication)
  BY FramesTyped DEF IInv, InFlightInv, TypeOK
<1>2. f.msg \in DOMAIN pub /\ f.subs # <<>>
  BY <1>1 DEF Fits, Msgs
<1>3. Continues(k, f, pub[f.msg])
  BY DEF FramesInv
<1>4. pub[f.msg] \in Publication
  BY <1>1, <1>2
<1> HIDE DEF f
<1>5. pub[f.msg].snap \in Seq(Subs)
  BY <1>4 DEF Publication
<1>6. Place(f, pub[f.msg]) \in 1..Len(pub[f.msg].snap)
  <2>1. Len(f.subs) \in Nat /\ Len(f.subs) # 0 /\ Len(pub[f.msg].snap) \in Nat
    BY <1>1, <1>2, <1>5
  <2>2. Len(f.subs) <= Len(pub[f.msg].snap)
    BY <1>3 DEF Continues
  <2>3. Place(f, pub[f.msg]) = Len(pub[f.msg].snap) - Len(f.subs) + 1
    BY DEF Place
  <2>4. \A a, b \in Nat : a # 0 /\ a <= b => b - a + 1 \in 1..b
    OBVIOUS
  <2>5. QED
    BY <2>1, <2>2, <2>3, <2>4
<1>7. QED
  BY <1>1, <1>2, <1>3, <1>4, <1>6 DEF f

\* What m is handed to s changes.
LEMMA HandedIs ==
    ASSUME TypeOK, NEW s \in Subs, NEW m \in Msgs, Handed(s, m)
    PROVE  /\ received[s] \in Seq(Msgs) /\ Range(received'[s]) = Range(received[s]) \union {m}
           /\ \A x \in Subs : x # s => received'[x] = received[x]
           /\ OneEach(received[s]) /\ m \notin Range(received[s]) => OneEach(received'[s])
           /\ \A i \in DOMAIN received'[s] :
                 \/ i \in DOMAIN received[s] /\ i <= Len(received[s])
                    /\ received'[s][i] = received[s][i]
                 \/ i = Len(received[s]) + 1 /\ received'[s][i] = m
<1>1. received[s] \in Seq(Msgs) /\ received' = [received EXCEPT ![s] = Append(received[s], m)]
  BY DEF TypeOK, Handed
<1>2. received'[s] = Append(received[s], m) /\ \A x \in Subs : x # s => received'[x] = received[x]
  BY <1>1 DEF TypeOK
<1>3. QED
  BY <1>1, <1>2, ListWithOneMore

\* Publishes keep their task and what they were published in.
RecordsKept == \A e \in DOMAIN pub : /\ e \in DOMAIN pub' /\ pub'[e].by = pub[e].by
                                     /\ pub'[e].within = pub[e].within

\* A list that is not added to keeps its order.
LEMMA OrderKept ==
    ASSUME IInv, OrderPerPublisher, RecordsKept, UNCHANGED received
    PROVE  OrderPerPublisher'
<1>1. \A s \in Subs : \A i \in DOMAIN received[s] : received[s][i] \in DOMAIN pub
  <2>1. \A s \in Subs : received[s] \in Seq(Msgs)
    BY DEF IInv, TypeOK
  <2>2. \A s \in Subs : \A i \in DOMAIN received[s] : received[s][i] \in Msgs
    BY <2>1
  <2>3. QED
    BY <2>2 DEF IInv, InFlightInv, TypeOK, Msgs
<1>2. QED
  BY <1>1 DEF OrderPerPublisher, RecordsKept

\* A handler is called with m, and all of m's task that it can have seen and that came later
\* was published from inside m.
LEMMA OrderHanded ==
    ASSUME IInv, OrderPerPublisher, RecordsKept, NEW s \in Subs, NEW m \in Msgs, Handed(s, m),
           \A e \in DOMAIN pub : m < e /\ pub[e].by = pub'[m].by => m \in pub[e].within
    PROVE  OrderPerPublisher'
<1>1. \A x \in Subs : \A i \in DOMAIN received[x] : received[x][i] \in DOMAIN pub
  <2>1. \A x \in Subs : received[x] \in Seq(Msgs)
    BY DEF IInv, TypeOK
  <2>2. \A x \in Subs : \A i \in DOMAIN received[x] : received[x][i] \in Msgs
    BY <2>1
  <2>3. QED
    BY <2>2 DEF IInv, InFlightInv, TypeOK, Msgs
<1>2. /\ received[s] \in Seq(Msgs) /\ \A x \in Subs : x # s => received'[x] = received[x]
      /\ \A i \in DOMAIN received'[s] :
            \/ i \in DOMAIN received[s] /\ i <= Len(received[s]) /\ received'[s][i] = received[s][i]
            \/ i = Len(received[s]) + 1 /\ received'[s][i] = m
  BY HandedIs DEF IInv
<1>3. ASSUME NEW x \in Subs, NEW i \in DOMAIN received'[x], NEW j \in DOMAIN received'[x],
             i < j, received'[x][i] > received'[x][j],
             pub'[received'[x][i]].by = pub'[received'[x][j]].by
      PROVE  received'[x][j] \in pub'[received'[x][i]].within
  <2>1. CASE i \in DOMAIN received[x] /\ received'[x][i] = received[x][i]
             /\ j \in DOMAIN received[x] /\ received'[x][j] = received[x][j]
    BY <1>1, <1>3, <2>1 DEF OrderPerPublisher, RecordsKept
  <2>2. CASE x = s /\ j = Len(received[s]) + 1 /\ received'[s][j] = m
    <3>1. i \in DOMAIN received[s] /\ received'[s][i] = received[s][i]
      BY <1>2, <1>3, <2>2
    <3>2. received[s][i] \in DOMAIN pub /\ DOMAIN pub \subseteq Nat
      BY <1>1, <3>1 DEF IInv, TypeOK
    <3>3. QED
      BY <1>3, <2>2, <3>1, <3>2 DEF RecordsKept, Msgs
  <2>3. CASE x = s /\ i = Len(received[s]) + 1
    <3>1. j <= Len(received[s]) + 1 /\ j \in Nat /\ Len(received[s]) \in Nat
      BY <1>2, <1>3, <2>3
    <3>2. QED
      BY <1>3, <2>3, <3>1
  <2>4. QED
    BY <1>2, <2>1, <2>2, <2>3
<1>4. QED
  BY <1>3 DEF OrderPerPublisher

-------------------------------------------------------------------------------
\* What a publish adds to the records, and that nobody has seen its message.
LEMMA PublishIs ==
    ASSUME IInv, NEW k \in Tasks, NEW t \in Topics, Publish(k, t)
    PROVE  /\ Len(pub) + 1 \in Msgs /\ Len(pub) + 1 \notin DOMAIN pub
           /\ DOMAIN pub' = DOMAIN pub \union {Len(pub) + 1}
           /\ \A e \in DOMAIN pub : pub'[e] = pub[e]
           /\ pub'[Len(pub) + 1].by = k /\ pub'[Len(pub) + 1].snap = ListOf(t)
           /\ pub'[Len(pub) + 1].within = InProgress(k)
           /\ pub'[Len(pub) + 1].ended = (IF ListOf(t) = <<>> THEN "returned" ELSE "no")
           /\ ListOf(t) \in Seq(Subs) /\ OneEach(ListOf(t))
           /\ \A s \in Subs : Len(pub) + 1 \notin Range(received[s])
<1> DEFINE p == [by |-> k, snap |-> ListOf(t), within |-> InProgress(k),
                 ended |-> IF ListOf(t) = <<>> THEN "returned" ELSE "no"]
<1>1. pub \in Seq(Publication) /\ Len(pub) \in Nat /\ pub' = Append(pub, p) /\ Len(pub) < MaxMsgs
  BY DEF Publish, IInv, TypeOK
<1>p. /\ p.by = k /\ p.snap = ListOf(t) /\ p.within = InProgress(k)
      /\ p.ended = (IF ListOf(t) = <<>> THEN "returned" ELSE "no")
  OBVIOUS
<1> HIDE DEF p
<1>2. /\ DOMAIN pub = 1..Len(pub) /\ DOMAIN pub' = 1..(Len(pub) + 1)
      /\ pub'[Len(pub) + 1] = p /\ \A e \in 1..Len(pub) : pub'[e] = pub[e]
  BY <1>1
<1>3. ListOf(t) \in Seq(Subs) /\ OneEach(ListOf(t))
  BY ListsTyped DEF IInv, RegistryInv, ListExact, ListOf, OneEach
<1>4. ASSUME NEW s \in Subs PROVE Len(pub) + 1 \notin Range(received[s])
  BY <1>1 DEF IInv, InFlightInv, Range
<1>5. Len(pub) + 1 \in Msgs
  BY <1>1, BusAssumption DEF Msgs
<1>6. QED
  BY <1>p, <1>2, <1>3, <1>4, <1>5

\* Nobody has subscribed: the publish has ended as it began.
LEMMA PublishToNobody ==
    ASSUME IInv, FanOutInv, NEW k \in Tasks, NEW t \in Topics, Publish(k, t), ListOf(t) = <<>>
    PROVE  FanOutInv'
<1> DEFINE m == Len(pub) + 1
<1>1. /\ m \notin DOMAIN pub /\ DOMAIN pub' = DOMAIN pub \union {m}
      /\ \A e \in DOMAIN pub : pub'[e] = pub[e]
      /\ pub'[m].by = k /\ pub'[m].snap = <<>> /\ pub'[m].within = InProgress(k)
      /\ pub'[m].ended = "returned" /\ \A s \in Subs : m \notin Range(received[s])
  BY PublishIs
<1> HIDE DEF m
<1>2. UNCHANGED <<stack, received>>
  BY DEF Publish
<1>3. ASSUME NEW q \in Tasks, NEW i \in DOMAIN stack[q]
      PROVE  /\ stack[q][i].msg \in DOMAIN pub /\ Continues(q, stack[q][i], pub[stack[q][i].msg])
             /\ pub'[stack[q][i].msg] = pub[stack[q][i].msg]
  BY <1>1, FrameFacts DEF FanOutInv
<1>4. FramesInv'
  <2>1. \A q \in Tasks : \A i \in DOMAIN stack[q] :
            Continues(q, stack[q][i], pub'[stack[q][i].msg])
    BY <1>3
  <2>2. QED
    BY <1>1, <1>2, <2>1 DEF FramesInv, FanOutInv
<1>5. NestedInv'
  <2>1. \A i \in DOMAIN stack[k] : stack[k][i].msg \in pub'[m].within
    BY <1>1 DEF InProgress
  <2>2. QED
    BY <1>1, <1>2, <2>1 DEF NestedInv, FanOutInv
<1>6. CallsInv'
  <2>1. \A e \in DOMAIN pub' : OneEach(pub'[e].snap)
    BY <1>1 DEF CallsInv, FanOutInv, OneEach
  <2>2. \A e \in DOMAIN pub', s \in Subs :
          /\ e \in Range(received[s]) => s \in Range(pub'[e].snap)
          /\ pub'[e].ended = "returned" /\ s \in Range(pub'[e].snap) => e \in Range(received[s])
    <3>1. Range(pub'[m].snap) = {}
      BY <1>1 DEF Range
    <3>2. QED
      BY <1>1, <3>1 DEF CallsInv, FanOutInv
  <2>3. \A q \in Tasks : \A i \in DOMAIN stack[q] : \A s \in Subs :
          stack[q][i].msg \in Range(received[s])
              <=> IsCalled(s, stack[q][i], pub'[stack[q][i].msg])
    BY <1>2, <1>3 DEF CallsInv, FanOutInv
  <2>4. QED
    BY <1>2, <2>1, <2>2, <2>3 DEF CallsInv, FanOutInv
<1>7. OrderPerPublisher'
  BY <1>1, <1>2, OrderKept DEF RecordsKept, FanOutInv
<1>8. QED
  BY <1>4, <1>5, <1>6, <1>7 DEF FanOutInv

\* A frame that is put on a task's stack.
LEMMA FrameAdded ==
    ASSUME IInv, NEW k \in Tasks, NEW f \in Frame,
           stack' = [stack EXCEPT ![k] = Append(stack[k], f)]
    PROVE  /\ \A q \in Tasks : \A i \in DOMAIN stack[q] :
                 i \in DOMAIN stack'[q] /\ stack'[q][i] = stack[q][i]
           /\ \A q \in Tasks : \A i \in DOMAIN stack'[q] :
                 \/ i \in DOMAIN stack[q] /\ stack'[q][i] = stack[q][i]
                 \/ q = k /\ i = Len(stack[k]) + 1 /\ stack'[q][i] = f
           /\ Len(stack[k]) + 1 \in DOMAIN stack'[k] /\ stack'[k][Len(stack[k]) + 1] = f
<1>1. /\ stack[k] \in Seq(Frame) /\ stack \in [Tasks -> Seq(Frame)]
      /\ DOMAIN stack[k] = 1..Len(stack[k]) /\ Len(stack[k]) \in Nat
  BY DEF IInv, TypeOK
<1>2. stack'[k] = Append(stack[k], f) /\ \A q \in Tasks : q # k => stack'[q] = stack[q]
  BY <1>1
<1>3. /\ DOMAIN Append(stack[k], f) = 1..(Len(stack[k]) + 1)
      /\ Append(stack[k], f)[Len(stack[k]) + 1] = f
      /\ \A i \in 1..Len(stack[k]) : Append(stack[k], f)[i] = stack[k][i]
  BY <1>1, AppendProperties
<1>4. ASSUME NEW q \in Tasks, NEW i \in DOMAIN stack[q]
      PROVE  i \in DOMAIN stack'[q] /\ stack'[q][i] = stack[q][i]
  BY <1>1, <1>2, <1>3
<1>5. ASSUME NEW q \in Tasks, NEW i \in DOMAIN stack'[q]
      PROVE  \/ i \in DOMAIN stack[q] /\ stack'[q][i] = stack[q][i]
             \/ q = k /\ i = Len(stack[k]) + 1 /\ stack'[q][i] = f
  BY <1>1, <1>2, <1>3
<1>6. QED
  BY <1>1, <1>2, <1>3, <1>4, <1>5

\* The first handler of the snapshot is called.
LEMMA PublishToFirst ==
    ASSUME IInv, FanOutInv, NEW k \in Tasks, NEW t \in Topics, Publish(k, t), ListOf(t) # <<>>
    PROVE  FanOutInv'
<1> DEFINE m == Len(pub) + 1
           snap == ListOf(t)
           f == [msg |-> m, subs |-> snap]
           s == Head(snap)
<1>0. pub \in Seq(Publication) /\ DOMAIN pub = 1..Len(pub) /\ Len(pub) \in Nat
  BY DEF IInv, TypeOK
<1>1. /\ m \in Msgs /\ m \notin DOMAIN pub /\ DOMAIN pub' = DOMAIN pub \union {m}
      /\ \A e \in DOMAIN pub : pub'[e] = pub[e]
      /\ pub'[m].by = k /\ pub'[m].snap = snap /\ pub'[m].within = InProgress(k)
      /\ pub'[m].ended = "no" /\ \A x \in Subs : m \notin Range(received[x])
      /\ snap \in Seq(Subs) /\ OneEach(snap)
  BY PublishIs
<1>2. stack' = [stack EXCEPT ![k] = Append(stack[k], f)] /\ Handed(s, m)
  BY DEF Publish
<1>3. f \in Frame /\ f.msg = m /\ f.subs = snap
  BY <1>1 DEF Frame
<1>4. s \in Subs /\ s = snap[1] /\ Len(snap) \in Nat \ {0} /\ DOMAIN snap = 1..Len(snap)
  BY <1>1
<1> HIDE DEF f, m, snap, s
<1>5. /\ stack[k] \in Seq(Frame) /\ stack \in [Tasks -> Seq(Frame)] /\ TypeOK
      /\ DOMAIN stack[k] = 1..Len(stack[k]) /\ Len(stack[k]) \in Nat
  BY DEF IInv, TypeOK
<1>6. /\ \A q \in Tasks : \A i \in DOMAIN stack[q] :
            i \in DOMAIN stack'[q] /\ stack'[q][i] = stack[q][i]
      /\ \A q \in Tasks : \A i \in DOMAIN stack'[q] :
            \/ i \in DOMAIN stack[q] /\ stack'[q][i] = stack[q][i]
            \/ q = k /\ i = Len(stack[k]) + 1 /\ stack'[q][i] = f
      /\ Len(stack[k]) + 1 \in DOMAIN stack'[k] /\ stack'[k][Len(stack[k]) + 1] = f
  BY <1>2, <1>3, FrameAdded
<1>7. ASSUME NEW q \in Tasks, NEW i \in DOMAIN stack[q]
      PROVE  /\ stack[q][i].msg \in DOMAIN pub /\ Continues(q, stack[q][i], pub[stack[q][i].msg])
             /\ pub'[stack[q][i].msg] = pub[stack[q][i].msg] /\ stack[q][i].msg # m
  BY <1>1, FrameFacts DEF FanOutInv
<1>8. FramesInv'
  <2>1. ASSUME NEW q \in Tasks, NEW i \in DOMAIN stack'[q] 
        PROVE  Continues(q, stack'[q][i], pub'[stack'[q][i].msg])
    <3>1. CASE i \in DOMAIN stack[q] /\ stack'[q][i] = stack[q][i]
      BY <1>7, <3>1
    <3>2. CASE q = k /\ i = Len(stack[k]) + 1 /\ stack'[q][i] = f
      <4>1. Place(f, pub'[m]) = 1
        BY <1>1, <1>3, <1>4 DEF Place
      <4>2. \A j \in DOMAIN snap : snap[j] = snap[1 + j - 1]
        BY <1>4
      <4>3. Continues(k, f, pub'[m])
        BY <1>1, <1>3, <1>4, <4>1, <4>2 DEF Continues
      <4>4. QED
        BY <1>3, <3>2, <4>3
    <3>3. QED
      BY <1>6, <3>1, <3>2
  <2>2. \A q \in Tasks : \A i, j \in DOMAIN stack'[q] : stack'[q][i].msg = stack'[q][j].msg => i = j
    BY <1>3, <1>6, <1>7 DEF FramesInv, FanOutInv
  <2>3. ASSUME NEW e \in DOMAIN pub', pub'[e].ended = "no"
        PROVE  \E q \in Tasks : \E i \in DOMAIN stack'[q] : stack'[q][i].msg = e
    BY <1>1, <1>3, <1>6, <2>3 DEF FramesInv, FanOutInv
  <2>4. QED
    BY <2>1, <2>2, <2>3 DEF FramesInv
<1>9. NestedInv'
  <2>1. ASSUME NEW q \in Tasks, NEW i \in DOMAIN stack'[q], NEW e \in DOMAIN pub',
               pub'[e].by = q, stack'[q][i].msg < e
        PROVE  stack'[q][i].msg \in pub'[e].within
    <3>1. CASE i \in DOMAIN stack[q] /\ stack'[q][i] = stack[q][i]
      <4>1. CASE e \in DOMAIN pub
        BY <1>1, <2>1, <3>1, <4>1 DEF NestedInv, FanOutInv
      <4>2. CASE e = m
        BY <1>1, <2>1, <3>1, <4>2 DEF InProgress
      <4>3. QED
        BY <1>1, <4>1, <4>2
    <3>2. CASE stack'[q][i] = f
      <4>1. e \in 1..m
        BY <1>0, <1>1, <2>1 DEF m
      <4>2. m \in Nat
        BY <1>0 DEF m
      <4>3. QED
        BY <1>3, <2>1, <3>2, <4>1, <4>2
    <3>3. QED
      BY <1>6, <3>1, <3>2
  <2>2. QED
    BY <2>1 DEF NestedInv
<1>10. /\ \A x \in Subs : Range(received'[x]) = IF x = s THEN Range(received[x]) \union {m}
                                                        ELSE Range(received[x])
       /\ \A x \in Subs : OneEach(received'[x])
  <2>1. \A x \in Subs : OneEach(received[x])
    BY DEF CallsInv, FanOutInv
  <2>2. m \notin Range(received[s])
    BY <1>1, <1>4
  <2>3. /\ Range(received'[s]) = Range(received[s]) \union {m}
        /\ \A x \in Subs : x # s => received'[x] = received[x]
        /\ OneEach(received'[s])
    BY <1>1, <1>2, <1>4, <1>5, <2>1, <2>2, HandedIs
  <2>4. QED
    BY <2>1, <2>3
<1>11. CallsInv'
  <2>1. \A e \in DOMAIN pub' : OneEach(pub'[e].snap)
    BY <1>1 DEF CallsInv, FanOutInv
  <2>2. ASSUME NEW e \in DOMAIN pub', NEW x \in Subs
        PROVE  /\ e \in Range(received'[x]) => x \in Range(pub'[e].snap)
               /\ pub'[e].ended = "returned" /\ x \in Range(pub'[e].snap) => e \in Range(received'[x])
    <3>1. CASE e \in DOMAIN pub
      <4>1. e \in Range(received'[x]) <=> e \in Range(received[x])
        BY <1>1, <1>10, <3>1
      <4>2. QED
        BY <1>1, <3>1, <4>1 DEF CallsInv, FanOutInv
    <3>2. CASE e = m
      <4>1. s \in Range(snap)
        BY <1>4 DEF Range
      <4>2. QED
        BY <1>1, <1>10, <3>2, <4>1
    <3>3. QED
      BY <1>1, <3>1, <3>2
  <2>3. ASSUME NEW q \in Tasks, NEW i \in DOMAIN stack'[q], NEW x \in Subs
        PROVE  stack'[q][i].msg \in Range(received'[x])
                  <=> IsCalled(x, stack'[q][i], pub'[stack'[q][i].msg])
    <3>1. CASE i \in DOMAIN stack[q] /\ stack'[q][i] = stack[q][i]
      <4>1. stack[q][i].msg \in Range(received'[x]) <=> stack[q][i].msg \in Range(received[x])
        BY <1>7, <1>10, <3>1
      <4>2. QED
        BY <1>7, <3>1, <4>1 DEF CallsInv, FanOutInv
    <3>2. CASE stack'[q][i] = f
      <4>1. Place(f, pub'[m]) = 1
        BY <1>1, <1>3, <1>4 DEF Place
      <4>2. IsCalled(x, f, pub'[m]) <=> x = s
        BY <1>1, <1>4, <4>1 DEF IsCalled
      <4>3. m \in Range(received'[x]) <=> x = s
        BY <1>1, <1>10
      <4>4. QED
        BY <1>3, <3>2, <4>2, <4>3
    <3>3. QED
      BY <1>6, <3>1, <3>2
  <2>4. QED
    BY <1>10, <2>1, <2>2, <2>3 DEF CallsInv
<1>12. OrderPerPublisher'
  <2>1. \A e \in DOMAIN pub : ~(m < e)
    BY <1>0 DEF m
  <2>2. RecordsKept
    BY <1>1 DEF RecordsKept
  <2>3. QED
    BY <1>1, <1>2, <1>4, <2>1, <2>2, OrderHanded DEF FanOutInv
<1>13. QED
  BY <1>8, <1>9, <1>11, <1>12 DEF FanOutInv

\* The frame on top of a task's stack is the one that moves.
LEMMA TopFacts ==
    ASSUME IInv, FramesInv, NEW k \in Tasks, stack[k] # <<>>
    PROVE  /\ Len(stack[k]) \in DOMAIN stack[k] /\ Len(stack[k]) \in Nat \ {0}
           /\ DOMAIN stack[k] = 1..Len(stack[k])
           /\ Top(k) = stack[k][Len(stack[k])]
           /\ Top(k).msg \in DOMAIN pub /\ Top(k).msg \in Msgs
           /\ Top(k).subs \in Seq(Subs) /\ Top(k).subs # <<>>
           /\ Continues(k, Top(k), pub[Top(k).msg]) /\ pub[Top(k).msg] \in Publication
           /\ Place(Top(k), pub[Top(k).msg]) \in 1..Len(pub[Top(k).msg].snap)
           /\ \A q \in Tasks : \A i \in DOMAIN stack[q] :
                 stack[q][i].msg = Top(k).msg => q = k /\ i = Len(stack[k])
<1>1. stack[k] \in Seq(Frame)
  BY DEF IInv, TypeOK
<1>2. /\ Len(stack[k]) \in DOMAIN stack[k] /\ Len(stack[k]) \in Nat \ {0}
      /\ DOMAIN stack[k] = 1..Len(stack[k])
  BY <1>1
<1>3. Top(k) = stack[k][Len(stack[k])]
  BY DEF Top
<1>4. Top(k).msg \in Msgs
  BY <1>2, <1>3, FramesTyped DEF IInv
<1>5. ASSUME NEW q \in Tasks, NEW i \in DOMAIN stack[q], stack[q][i].msg = Top(k).msg
      PROVE  q = k /\ i = Len(stack[k])
  <2>1. /\ Continues(q, stack[q][i], pub[stack[q][i].msg])
        /\ Continues(k, stack[k][Len(stack[k])], pub[stack[k][Len(stack[k])].msg])
    BY <1>2 DEF FramesInv
  <2>2. pub[Top(k).msg].by = q /\ pub[Top(k).msg].by = k
    BY <1>3, <1>5, <2>1 DEF Continues
  <2>3. QED
    BY <1>2, <1>3, <1>5, <2>2 DEF FramesInv
<1>6. QED
  BY <1>2, <1>3, <1>4, <1>5, FrameFacts

\* A frame that is taken off a task's stack.
LEMMA FrameRemoved ==
    ASSUME IInv, FramesInv, NEW k \in Tasks, stack[k] # <<>>,
           stack' = [stack EXCEPT ![k] = Below(k)]
    PROVE  /\ \A q \in Tasks : \A i \in DOMAIN stack'[q] :
                 i \in DOMAIN stack[q] /\ stack'[q][i] = stack[q][i] /\ stack[q][i].msg # Top(k).msg
           /\ \A q \in Tasks : \A i \in DOMAIN stack[q] :
                 stack[q][i].msg # Top(k).msg => i \in DOMAIN stack'[q] /\ stack'[q][i] = stack[q][i]
<1> DEFINE m == Top(k).msg
<1>1. /\ Len(stack[k]) \in DOMAIN stack[k] /\ Len(stack[k]) \in Nat \ {0}
      /\ DOMAIN stack[k] = 1..Len(stack[k]) /\ stack[k][Len(stack[k])].msg = m
      /\ \A q \in Tasks : \A i \in DOMAIN stack[q] :
            stack[q][i].msg = m => q = k /\ i = Len(stack[k])
  BY TopFacts
<1>2. /\ stack \in [Tasks -> Seq(Frame)]
      /\ Below(k) \in Seq(Frame) /\ Len(Below(k)) = Len(stack[k]) - 1
      /\ \A i \in 1..(Len(stack[k]) - 1) : Below(k)[i] = stack[k][i]
  BY TopAndBelow DEF IInv, TypeOK
<1> HIDE DEF m
<1>3. stack'[k] = Below(k) /\ \A q \in Tasks : q # k => stack'[q] = stack[q]
  BY <1>2
<1>4. DOMAIN Below(k) = 1..(Len(stack[k]) - 1)
  BY <1>1, <1>2
<1>5. ASSUME NEW q \in Tasks, NEW i \in DOMAIN stack'[q]
      PROVE  i \in DOMAIN stack[q] /\ stack'[q][i] = stack[q][i] /\ stack[q][i].msg # m
  <2>1. CASE q = k
    <3>1. i \in 1..(Len(stack[k]) - 1)
      BY <1>3, <1>4, <2>1
    <3>2. i \in DOMAIN stack[k] /\ i # Len(stack[k])
      BY <1>1, <3>1
    <3>3. QED
      BY <1>1, <1>2, <1>3, <2>1, <3>1, <3>2
  <2>2. CASE q # k
    BY <1>1, <1>3, <2>2
  <2>3. QED
    BY <2>1, <2>2
<1>6. ASSUME NEW q \in Tasks, NEW i \in DOMAIN stack[q], stack[q][i].msg # m
      PROVE  i \in DOMAIN stack'[q] /\ stack'[q][i] = stack[q][i]
  <2>1. CASE q = k
    <3>1. i \in 1..(Len(stack[k]) - 1)
      BY <1>1, <1>6, <2>1
    <3>2. QED
      BY <1>2, <1>3, <1>4, <2>1, <3>1
  <2>2. CASE q # k
    BY <1>3, <2>2
  <2>3. QED
    BY <2>1, <2>2
<1>7. QED
  BY <1>5, <1>6 DEF m

\* A publish returns after its last handler, or is cancelled: its frame is gone.
LEMMA EndOfPublish ==
    ASSUME IInv, FanOutInv, NEW k \in Tasks, stack[k] # <<>>, UNCHANGED received,
           stack' = [stack EXCEPT ![k] = Below(k)],
           NEW how \in {"returned", "cancelled"},
           how = "returned" => Tail(Top(k).subs) = <<>>,
           pub' = [pub EXCEPT ![Top(k).msg].ended = how]
    PROVE  FanOutInv'
<1> DEFINE m == Top(k).msg
<1>1. /\ Len(stack[k]) \in DOMAIN stack[k] /\ Len(stack[k]) \in Nat \ {0}
      /\ DOMAIN stack[k] = 1..Len(stack[k])
      /\ stack[k][Len(stack[k])].msg = m /\ m \in DOMAIN pub
      /\ Top(k).subs \in Seq(Subs) /\ Top(k).subs # <<>> /\ pub[m] \in Publication
      /\ \A q \in Tasks : \A i \in DOMAIN stack[q] :
            stack[q][i].msg = m => q = k /\ i = Len(stack[k])
  BY TopFacts DEF FanOutInv
<1>2. /\ stack \in [Tasks -> Seq(Frame)] /\ pub \in Seq(Publication)
      /\ Below(k) \in Seq(Frame) /\ Len(Below(k)) = Len(stack[k]) - 1
      /\ \A i \in 1..(Len(stack[k]) - 1) : Below(k)[i] = stack[k][i]
  BY TopAndBelow DEF IInv, TypeOK
<1>3. /\ DOMAIN pub' = DOMAIN pub /\ \A e \in DOMAIN pub : e # m => pub'[e] = pub[e]
      /\ pub'[m] = [pub[m] EXCEPT !.ended = how]
  BY <1>1, <1>2
<1>4. /\ pub'[m].by = pub[m].by /\ pub'[m].snap = pub[m].snap /\ pub'[m].within = pub[m].within
      /\ pub'[m].ended = how
  BY <1>1, <1>3 DEF Publication
<1> HIDE DEF m
<1>5. /\ \A q \in Tasks : \A i \in DOMAIN stack'[q] :
            i \in DOMAIN stack[q] /\ stack'[q][i] = stack[q][i] /\ stack[q][i].msg # m
      /\ \A q \in Tasks : \A i \in DOMAIN stack[q] :
            stack[q][i].msg # m => i \in DOMAIN stack'[q] /\ stack'[q][i] = stack[q][i]
  BY FrameRemoved DEF FanOutInv, m
<1>6. \A q \in Tasks : \A i \in DOMAIN stack'[q] :
          stack[q][i].msg \in DOMAIN pub /\ pub'[stack'[q][i].msg] = pub[stack[q][i].msg]
  BY <1>3, <1>5, FrameFacts DEF FanOutInv
<1>7. FramesInv'
  <2>1. \A q \in Tasks : \A i \in DOMAIN stack'[q] :
            Continues(q, stack'[q][i], pub'[stack'[q][i].msg])
    BY <1>5, <1>6 DEF FramesInv, FanOutInv
  <2>2. \A q \in Tasks : \A i, j \in DOMAIN stack'[q] : stack'[q][i].msg = stack'[q][j].msg => i = j
    BY <1>5 DEF FramesInv, FanOutInv
  <2>3. ASSUME NEW e \in DOMAIN pub', pub'[e].ended = "no"
        PROVE  \E q \in Tasks : \E i \in DOMAIN stack'[q] : stack'[q][i].msg = e
    <3>1. e # m /\ e \in DOMAIN pub /\ pub[e].ended = "no"
      BY <1>3, <1>4, <2>3
    <3>2. PICK q \in Tasks : \E i \in DOMAIN stack[q] : stack[q][i].msg = e
      BY <3>1 DEF FramesInv, FanOutInv
    <3>3. QED
      BY <1>5, <3>1, <3>2
  <2>4. QED
    BY <2>1, <2>2, <2>3 DEF FramesInv
<1>8. \A e \in DOMAIN pub : /\ pub'[e].by = pub[e].by /\ pub'[e].within = pub[e].within
                            /\ pub'[e].snap = pub[e].snap
                            /\ e # m => pub'[e].ended = pub[e].ended
  BY <1>3, <1>4
<1>9. NestedInv'
  BY <1>3, <1>5, <1>8 DEF NestedInv, FanOutInv
<1>10. CallsInv'
  <2>1. \A e \in DOMAIN pub' : OneEach(pub'[e].snap)
    BY <1>3, <1>8 DEF CallsInv, FanOutInv
  <2>2. ASSUME NEW e \in DOMAIN pub', NEW x \in Subs
        PROVE  /\ e \in Range(received[x]) => x \in Range(pub'[e].snap)
               /\ pub'[e].ended = "returned" /\ x \in Range(pub'[e].snap) => e \in Range(received[x])
    <3>1. e \in Range(received[x]) => x \in Range(pub'[e].snap)
      BY <1>3, <1>8 DEF CallsInv, FanOutInv
    <3>2. CASE e # m
      BY <1>3, <1>8, <3>1, <3>2 DEF CallsInv, FanOutInv
    <3>3. ASSUME e = m, pub'[e].ended = "returned", x \in Range(pub'[e].snap)
          PROVE  e \in Range(received[x])
      <4>1. Len(Top(k).subs) = 1
        <5>1. Tail(Top(k).subs) = <<>>
          BY <1>4, <3>3
        <5>2. Len(Tail(Top(k).subs)) = Len(Top(k).subs) - 1 /\ Len(Top(k).subs) \in Nat
          BY <1>1
        <5>3. Len(Tail(Top(k).subs)) = 0
          BY <5>1, EmptySeq
        <5>4. QED
          BY <5>2, <5>3
      <4>2. Place(Top(k), pub[m]) = Len(pub[m].snap)
        <5>1. Len(pub[m].snap) \in Nat
          BY <1>1 DEF Publication
        <5>2. QED
          BY <4>1, <5>1 DEF Place
      <4>3. PICK j \in DOMAIN pub[m].snap : pub[m].snap[j] = x
        BY <1>4, <3>3 DEF Range
      <4>4. j \in 1..Place(Top(k), pub[m])
        BY <1>1, <4>2 DEF Publication
      <4>5. IsCalled(x, Top(k), pub[m])
        BY <4>3, <4>4 DEF IsCalled
      <4>6. QED
        BY <1>1, <3>3, <4>5 DEF CallsInv, FanOutInv, Top, m
    <3>4. QED
      BY <3>1, <3>2, <3>3
  <2>3. \A q \in Tasks : \A i \in DOMAIN stack'[q] : \A x \in Subs :
            stack'[q][i].msg \in Range(received[x])
                <=> IsCalled(x, stack'[q][i], pub'[stack'[q][i].msg])
    BY <1>5, <1>6 DEF CallsInv, FanOutInv
  <2>4. QED
    BY <2>1, <2>2, <2>3 DEF CallsInv, FanOutInv
<1>11. OrderPerPublisher'
  BY <1>3, <1>8, OrderKept DEF RecordsKept, FanOutInv
<1>12. QED
  BY <1>7, <1>9, <1>10, <1>11 DEF FanOutInv

\* A frame that moves on.
LEMMA FrameMoved ==
    ASSUME IInv, FramesInv, NEW k \in Tasks, stack[k] # <<>>, NEW f \in Frame,
           stack' = [stack EXCEPT ![k] = Append(Below(k), f)]
    PROVE  /\ stack'[k][Len(stack[k])] = f
           /\ \A q \in Tasks : DOMAIN stack'[q] = DOMAIN stack[q]
           /\ \A q \in Tasks : \A i \in DOMAIN stack[q] : ~(q = k /\ i = Len(stack[k])) =>
                 stack'[q][i] = stack[q][i] /\ stack[q][i].msg # Top(k).msg
<1> DEFINE n == Len(stack[k])
           m == Top(k).msg
<1>1. /\ n \in Nat \ {0} /\ DOMAIN stack[k] = 1..n
      /\ \A q \in Tasks : \A i \in DOMAIN stack[q] : stack[q][i].msg = m => q = k /\ i = n
  BY TopFacts
<1>2. /\ stack \in [Tasks -> Seq(Frame)]
      /\ Below(k) \in Seq(Frame) /\ Len(Below(k)) = n - 1
      /\ \A i \in 1..(n - 1) : Below(k)[i] = stack[k][i]
  BY TopAndBelow DEF IInv, TypeOK
<1> HIDE DEF m, n
<1>3. stack'[k] = Append(Below(k), f) /\ \A q \in Tasks : q # k => stack'[q] = stack[q]
  BY <1>2
<1>4. /\ Len(Append(Below(k), f)) = n /\ Append(Below(k), f)[n] = f
      /\ DOMAIN Append(Below(k), f) = 1..n
      /\ \A i \in 1..(n - 1) : Append(Below(k), f)[i] = Below(k)[i]
  BY <1>1, <1>2, AppendProperties
<1>5. stack'[k][n] = f /\ \A q \in Tasks : DOMAIN stack'[q] = DOMAIN stack[q]
  BY <1>1, <1>3, <1>4
<1>6. ASSUME NEW q \in Tasks, NEW i \in DOMAIN stack[q], ~(q = k /\ i = n)
      PROVE  stack'[q][i] = stack[q][i] /\ stack[q][i].msg # m
  <2>1. stack[q][i].msg # m
    BY <1>1, <1>6
  <2>2. CASE q = k
    <3>1. i \in 1..(n - 1)
      BY <1>1, <1>6, <2>2
    <3>2. QED
      BY <1>2, <1>3, <1>4, <2>1, <2>2, <3>1
  <2>3. CASE q # k
    BY <1>3, <2>1, <2>3
  <2>4. QED
    BY <2>2, <2>3
<1>7. QED
  BY <1>5, <1>6 DEF m, n

\* The loop goes on: the next handler of the snapshot, which nobody has called yet.
LEMMA NextHandler ==
    ASSUME IInv, FanOutInv, NEW k \in Tasks, stack[k] # <<>>, UNCHANGED pub,
           Tail(Top(k).subs) # <<>>,
           stack' = [stack EXCEPT
              ![k] = Append(Below(k), [msg |-> Top(k).msg, subs |-> Tail(Top(k).subs)])],
           Handed(Head(Tail(Top(k).subs)), Top(k).msg)
    PROVE  FanOutInv'
<1> DEFINE m    == Top(k).msg
           old  == Top(k).subs
           rest == Tail(old)
           f    == [msg |-> m, subs |-> rest]
           s    == Head(rest)
           n    == Len(stack[k])
           p    == pub[m]
           c    == Place(Top(k), p)
<1>1. /\ n \in DOMAIN stack[k] /\ n \in Nat \ {0} /\ DOMAIN stack[k] = 1..n
      /\ Top(k) = stack[k][n] /\ m \in DOMAIN pub /\ m \in Msgs
      /\ old \in Seq(Subs) /\ old # <<>> /\ Continues(k, Top(k), p) /\ p \in Publication
      /\ c \in 1..Len(p.snap)
      /\ \A q \in Tasks : \A i \in DOMAIN stack[q] : stack[q][i].msg = m => q = k /\ i = n
  BY TopFacts DEF FanOutInv
<1>2. /\ stack \in [Tasks -> Seq(Frame)] /\ TypeOK
      /\ Below(k) \in Seq(Frame) /\ Len(Below(k)) = n - 1
      /\ \A i \in 1..(n - 1) : Below(k)[i] = stack[k][i]
  BY TopAndBelow DEF IInv, TypeOK
<1>3. /\ rest \in Seq(Subs) /\ Len(rest) = Len(old) - 1 /\ Len(rest) \in Nat \ {0}
      /\ Len(old) \in Nat /\ \A j \in 1..Len(rest) : rest[j] = old[j + 1]
      /\ s = rest[1] /\ s \in Subs /\ DOMAIN rest = 1..Len(rest) /\ DOMAIN old = 1..Len(old)
  BY <1>1
<1>4. f \in Frame /\ f.msg = m /\ f.subs = rest /\ Handed(s, m)
  BY <1>1, <1>3 DEF Frame
<1>5. stack' = [stack EXCEPT ![k] = Append(Below(k), f)]
  OBVIOUS
<1>6. /\ p.by = k /\ p.ended = "no" /\ Len(old) <= Len(p.snap)
      /\ \A j \in DOMAIN old : old[j] = p.snap[c + j - 1]
      /\ c = Len(p.snap) - Len(old) + 1 /\ p.snap \in Seq(Subs)
  BY <1>1 DEF Continues, Place, Publication
<1> HIDE DEF m, old, rest, f, s, n, p, c
<1>7. /\ stack'[k][n] = f
      /\ \A q \in Tasks : DOMAIN stack'[q] = DOMAIN stack[q]
      /\ \A q \in Tasks : \A i \in DOMAIN stack[q] : ~(q = k /\ i = n) =>
            stack'[q][i] = stack[q][i] /\ stack[q][i].msg # m
  BY <1>4, <1>5, FrameMoved DEF FanOutInv, m, n
<1>l. Len(p.snap) \in Nat /\ DOMAIN p.snap = 1..Len(p.snap)
  BY <1>6
<1>8. Place(f, p) = c + 1
  <2>1. Place(f, p) = Len(p.snap) - Len(rest) + 1
    BY <1>4 DEF Place
  <2>2. QED
    BY <1>l, <1>3, <1>6, <2>1
<1>9. s = p.snap[c + 1] /\ c + 1 \in DOMAIN p.snap /\ c \in Nat
  <2>1. c + 1 \in 1..Len(p.snap) /\ c \in Nat /\ Len(p.snap) \in Nat
    <3>1. \A a, b \in Nat : a - 1 # 0 /\ a # 0 /\ a <= b => b - a + 1 \in Nat /\ b - a + 1 + 1 \in 1..b
      OBVIOUS
    <3>2. Len(old) # 0 /\ Len(old) - 1 # 0
      BY <1>3
    <3>3. QED
      BY <1>l, <1>3, <1>6, <3>1, <3>2
  <2>2. s = old[2] /\ 2 \in DOMAIN old
    BY <1>3
  <2>3. old[2] = p.snap[c + 2 - 1]
    BY <1>6, <2>2
  <2>4. c + 2 - 1 = c + 1
    BY <2>1
  <2>5. QED
    BY <1>6, <2>1, <2>2, <2>3, <2>4
<1>10. \A x \in Subs : m \in Range(received[x]) <=> IsCalled(x, Top(k), p)
  BY <1>1 DEF CallsInv, FanOutInv, m, p
<1>11. OneEach(p.snap)
  BY <1>1 DEF CallsInv, FanOutInv, p
<1>12. m \notin Range(received[s])
  <2>1. ASSUME NEW j \in 1..c, p.snap[j] = s PROVE FALSE
    <3>1. j \in DOMAIN p.snap /\ j # c + 1
      BY <1>l, <1>1, <1>9
    <3>2. QED
      BY <1>9, <1>11, <2>1, <3>1 DEF OneEach
  <2>2. QED
    BY <1>3, <1>10, <2>1 DEF IsCalled, c
<1>13. /\ \A x \in Subs : Range(received'[x]) = IF x = s THEN Range(received[x]) \union {m}
                                                        ELSE Range(received[x])
       /\ \A x \in Subs : OneEach(received'[x])
  <2>1. \A x \in Subs : OneEach(received[x])
    BY DEF CallsInv, FanOutInv
  <2>2. /\ Range(received'[s]) = Range(received[s]) \union {m}
        /\ \A x \in Subs : x # s => received'[x] = received[x]
        /\ OneEach(received'[s])
    BY <1>1, <1>2, <1>3, <1>4, <1>12, <2>1, HandedIs
  <2>3. QED
    BY <2>1, <2>2
<1>14. FramesInv'
  <2>1. Continues(k, f, p)
    <3>1. Len(rest) <= Len(p.snap)
      BY <1>3, <1>6
    <3>2. ASSUME NEW j \in DOMAIN rest PROVE rest[j] = p.snap[c + 1 + j - 1]
      <4>1. j + 1 \in DOMAIN old /\ rest[j] = old[j + 1] /\ j \in Nat
        BY <1>3
      <4>2. old[j + 1] = p.snap[c + (j + 1) - 1]
        BY <1>6, <4>1
      <4>3. c + (j + 1) - 1 = c + 1 + j - 1
        BY <1>9, <4>1
      <4>4. QED
        BY <4>1, <4>2, <4>3
    <3>3. QED
      BY <1>4, <1>6, <1>8, <3>1, <3>2 DEF Continues
  <2>2. \A q \in Tasks : \A i \in DOMAIN stack'[q] :
            Continues(q, stack'[q][i], pub[stack'[q][i].msg])
    <3>1. ASSUME NEW q \in Tasks, NEW i \in DOMAIN stack[q]
          PROVE  Continues(q, stack'[q][i], pub[stack'[q][i].msg])
      <4>1. CASE q = k /\ i = n
        <5>1. stack'[q][i] = f /\ pub[f.msg] = p
          BY <1>4, <1>7, <4>1 DEF p
        <5>2. QED
          BY <2>1, <4>1, <5>1
      <4>2. CASE ~(q = k /\ i = n)
        <5>1. stack'[q][i] = stack[q][i]
          BY <1>7, <4>2
        <5>2. Continues(q, stack[q][i], pub[stack[q][i].msg])
          BY DEF FramesInv, FanOutInv
        <5>3. QED
          BY <5>1, <5>2
      <4>3. QED
        BY <4>1, <4>2
    <3>2. QED
      BY <1>7, <3>1
  <2>3. \A q \in Tasks : \A i \in DOMAIN stack[q] : stack'[q][i].msg = stack[q][i].msg
    BY <1>1, <1>4, <1>7 DEF m
  <2>4. \A q \in Tasks : \A i, j \in DOMAIN stack'[q] : stack'[q][i].msg = stack'[q][j].msg => i = j
    BY <1>7, <2>3 DEF FramesInv, FanOutInv
  <2>5. ASSUME NEW e \in DOMAIN pub, pub[e].ended = "no"
        PROVE  \E q \in Tasks : \E i \in DOMAIN stack'[q] : stack'[q][i].msg = e
    <3>1. PICK q \in Tasks : \E i \in DOMAIN stack[q] : stack[q][i].msg = e
      BY <2>5 DEF FramesInv, FanOutInv
    <3>2. PICK i \in DOMAIN stack[q] : stack[q][i].msg = e
      BY <3>1
    <3>3. i \in DOMAIN stack'[q] /\ stack'[q][i].msg = e
      BY <1>7, <2>3, <3>2
    <3>4. QED
      BY <3>3
  <2>6. QED
    BY <2>2, <2>4, <2>5 DEF FramesInv
<1>15. NestedInv'
  <2>1. \A q \in Tasks : \A i \in DOMAIN stack[q] : stack'[q][i].msg = stack[q][i].msg
    BY <1>1, <1>4, <1>7 DEF m
  <2>2. QED
    BY <1>7, <2>1 DEF NestedInv, FanOutInv
<1>16. CallsInv'
  <2>1. ASSUME NEW e \in DOMAIN pub, NEW x \in Subs
        PROVE  /\ e \in Range(received'[x]) => x \in Range(pub[e].snap)
               /\ pub[e].ended = "returned" /\ x \in Range(pub[e].snap) => e \in Range(received'[x])
    <3>1. s \in Range(p.snap)
      BY <1>9 DEF Range
    <3>2. e \in Range(received'[x]) <=> e \in Range(received[x]) \/ (x = s /\ e = m)
      BY <1>13
    <3>3. QED
      BY <3>1, <3>2 DEF CallsInv, FanOutInv, p
  <2>2. ASSUME NEW q \in Tasks, NEW i \in DOMAIN stack[q], NEW x \in Subs
        PROVE  stack'[q][i].msg \in Range(received'[x])
                   <=> IsCalled(x, stack'[q][i], pub[stack'[q][i].msg])
    <3>1. CASE q = k /\ i = n
      <4>1. IsCalled(x, f, p) <=> IsCalled(x, Top(k), p) \/ x = s
        <5>1. 1..(c + 1) = 1..c \union {c + 1}
          BY <1>9
        <5>2. IsCalled(x, f, p) <=> \E j \in 1..(c + 1) : p.snap[j] = x
          BY <1>8 DEF IsCalled
        <5>3. IsCalled(x, Top(k), p) <=> \E j \in 1..c : p.snap[j] = x
          BY DEF IsCalled, c
        <5>4. QED
          BY <1>9, <5>1, <5>2, <5>3
      <4>2. m \in Range(received'[x]) <=> m \in Range(received[x]) \/ x = s
        BY <1>13
      <4>3. m \in Range(received'[x]) <=> IsCalled(x, f, p)
        BY <1>10, <4>1, <4>2
      <4>4. QED
        BY <1>4, <1>7, <3>1, <4>3 DEF p
    <3>2. CASE ~(q = k /\ i = n)
      <4>1. stack[q][i].msg \in Range(received'[x]) <=> stack[q][i].msg \in Range(received[x])
        BY <1>7, <1>13, <3>2
      <4>2. QED
        BY <1>7, <3>2, <4>1 DEF CallsInv, FanOutInv
    <3>3. QED
      BY <3>1, <3>2
  <2>3. \A e \in DOMAIN pub : OneEach(pub[e].snap)
    BY DEF CallsInv, FanOutInv
  <2>4. QED
    BY <1>7, <1>13, <2>1, <2>2, <2>3 DEF CallsInv
<1>17. OrderPerPublisher'
  <2>1. RecordsKept
    BY DEF RecordsKept
  <2>2. \A e \in DOMAIN pub : m < e /\ pub[e].by = pub'[m].by => m \in pub[e].within
    BY <1>1, <1>6 DEF NestedInv, FanOutInv, m, p
  <2>3. QED
    BY <1>1, <1>3, <1>4, <2>1, <2>2, OrderHanded DEF FanOutInv
<1>18. QED
  BY <1>14, <1>15, <1>16, <1>17 DEF FanOutInv

\* The registry's operations and the counters leave the fan-out alone.
LEMMA FanOutUntouched ==
    ASSUME FanOutInv, UNCHANGED <<stack, pub, received>> PROVE FanOutInv'
<1>1. FramesInv' /\ NestedInv'
  BY DEF FanOutInv, FramesInv, NestedInv
<1>2. CallsInv' /\ OrderPerPublisher'
  BY DEF FanOutInv, CallsInv, OrderPerPublisher
<1>3. QED
  BY <1>1, <1>2 DEF FanOutInv

\* A publish moves on to its next handler or ends: the fan-out stays as it should be.
LEMMA AdvanceFanOut ==
    ASSUME IInv, FanOutInv, NEW k \in Tasks, stack[k] # <<>>, Advance(k) PROVE FanOutInv'
<1>1. CASE Tail(Top(k).subs) = <<>>
  BY <1>1, EndOfPublish DEF Advance
<1>2. CASE Tail(Top(k).subs) # <<>>
  BY <1>2, NextHandler DEF Advance
<1>3. QED
  BY <1>1, <1>2

\* Every step keeps the fan-out as it should be ...
LEMMA StepFanOut == ASSUME IInv, FanOutInv, [Next]_vars PROVE FanOutInv'
<1>1. ASSUME NEW k \in Tasks, NEW t \in Topics, Publish(k, t) PROVE FanOutInv'
  BY <1>1, PublishToNobody, PublishToFirst
<1>2. ASSUME NEW k \in Tasks, HandlerReturns(k) \/ HandlerRaises(k) PROVE FanOutInv'
  BY <1>2, AdvanceFanOut DEF HandlerReturns, HandlerRaises
<1>3. ASSUME NEW k \in Tasks, HandlerCancelled(k) PROVE FanOutInv'
  <2>1. /\ stack[k] # <<>> /\ UNCHANGED received /\ stack' = [stack EXCEPT ![k] = Below(k)]
        /\ pub' = [pub EXCEPT ![Top(k).msg].ended = "cancelled"]
    BY <1>3 DEF HandlerCancelled
  <2>2. QED
    BY <2>1, EndOfPublish
<1>4. CASE \/ \E s \in Subs, t \in Topics : Subscribe(s, t)
           \/ \E s \in Subs : Unsubscribe(s)
           \/ ClearAllSubscriptions \/ ResetMetrics \/ UNCHANGED vars
  <2>1. UNCHANGED <<stack, pub, received>>
    BY <1>4 DEF Subscribe, Unsubscribe, ClearAllSubscriptions, ResetMetrics, vars
  <2>2. QED
    BY <2>1, FanOutUntouched
<1>5. QED
  BY <1>1, <1>2, <1>3, <1>4 DEF Next

\* ... and it is so in the beginning, when nothing has been published.
LEMMA InitFanOut == Init => FanOutInv
<1> SUFFICES ASSUME Init PROVE FanOutInv
  OBVIOUS
<1>1. /\ \A k \in Tasks : DOMAIN stack[k] = {}
      /\ DOMAIN pub = {} /\ \A s \in Subs : received[s] = <<>>
  BY DEF Init
<1>2. FramesInv /\ NestedInv
  BY <1>1 DEF FramesInv, NestedInv
<1>3. CallsInv /\ OrderPerPublisher
  BY <1>1 DEF CallsInv, OrderPerPublisher, OneEach
<1>4. QED
  BY <1>2, <1>3 DEF FanOutInv

\* Both invariants hold in every state of the bus.
THEOREM FanOutInductive == Spec => [](IInv /\ FanOutInv)
<1>1. Init => IInv /\ FanOutInv
  BY InitEstablishes, InitFanOut
<1>2. IInv /\ FanOutInv /\ [Next]_vars => (IInv /\ FanOutInv)'
  BY StepPreserves, StepFanOut
<1>3. QED
  BY <1>1, <1>2, PTL DEF Spec

\* However the tasks' publishes interleave and nest, a subscription sees the messages of a
\* task in the order they were published, but for one published from inside a handler of an
\* earlier one.
THEOREM OrderIsKept == Spec => []OrderPerPublisher
<1>1. FanOutInv => OrderPerPublisher
  BY DEF FanOutInv
<1>2. QED
  BY <1>1, FanOutInductive, PTL

\* A message is in a list that has none twice once or not at all.
LEMMA TimesOnce ==
    ASSUME NEW s \in Subs, NEW m, OneEach(received[s])
    PROVE  Times(s, m) = IF m \in Range(received[s]) THEN 1 ELSE 0
<1> DEFINE at == {i \in DOMAIN received[s] : received[s][i] = m}
<1>1. CASE m \in Range(received[s])
  <2>1. PICK i \in DOMAIN received[s] : received[s][i] = m
    BY <1>1 DEF Range
  <2>2. at = {i}
    BY <2>1 DEF OneEach
  <2>3. QED
    BY <1>1, <2>2, FS_Singleton DEF Times
<1>2. CASE m \notin Range(received[s])
  <2>1. at = {}
    BY <1>2 DEF Range
  <2>2. QED
    BY <1>2, <2>1, FS_EmptySet DEF Times
<1>3. QED
  BY <1>1, <1>2

\* The frame of a publish that has not ended tells how far it has come.
LEMMA CalledIsPlace ==
    ASSUME IInv, FanOutInv, NEW k \in Tasks, NEW i \in DOMAIN stack[k]
    PROVE  Called(stack[k][i].msg) = Place(stack[k][i], pub[stack[k][i].msg])
<1> DEFINE m == stack[k][i].msg
           frames == {f \in UNION {Range(stack[q]) : q \in Tasks} : f.msg = m}
<1>1. stack[k][i] \in frames
  BY DEF Range
<1>2. ASSUME NEW f \in frames PROVE f = stack[k][i]
  <2>0. PICK q \in Tasks : f \in Range(stack[q])
    BY <1>2
  <2>1. PICK j \in DOMAIN stack[q] : stack[q][j] = f
    BY <2>0 DEF Range
  <2>2. Continues(q, stack[q][j], pub[m]) /\ Continues(k, stack[k][i], pub[m])
    BY <2>1 DEF FanOutInv, FramesInv
  <2>3. q = k
    BY <2>2 DEF Continues
  <2>4. QED
    BY <2>1, <2>3 DEF FanOutInv, FramesInv
<1>3. (CHOOSE f \in frames : TRUE) = stack[k][i] /\ frames # {}
  BY <1>1, <1>2
<1>4. Called(m) = IF frames = {} THEN Len(pub[m].snap)
                  ELSE Len(pub[m].snap) - Len((CHOOSE f \in frames : TRUE).subs) + 1
  BY DEF Called
<1> HIDE DEF frames, m
<1>5. QED
  BY <1>3, <1>4 DEF Place, m

\* Every handler of a publish's snapshot is called exactly once and in turn, whoever
\* subscribes or unsubscribes meanwhile and however the handlers before it end; nobody else
\* is.  A cancelled publish stops short.
THEOREM FanOutIsExact == Spec => []FanOutExact
<1>1. ASSUME IInv, FanOutInv PROVE FanOutExact
  <2>1. ASSUME NEW m \in DOMAIN pub, NEW s \in Subs
        PROVE  /\ pub[m].ended = "no" =>
                     Times(s, m) = IF s \in Range(SubSeq(pub[m].snap, 1, Called(m))) THEN 1 ELSE 0
               /\ pub[m].ended = "returned" =>
                     Times(s, m) = IF s \in Range(pub[m].snap) THEN 1 ELSE 0
               /\ pub[m].ended = "cancelled" =>
                     Times(s, m) <= IF s \in Range(pub[m].snap) THEN 1 ELSE 0
    <3>1. Times(s, m) = IF m \in Range(received[s]) THEN 1 ELSE 0
      BY <1>1, TimesOnce DEF FanOutInv, CallsInv
    <3>2. m \in Range(received[s]) => s \in Range(pub[m].snap)
      BY <1>1 DEF FanOutInv, CallsInv
    <3>3. pub[m].ended = "returned" /\ s \in Range(pub[m].snap) => m \in Range(received[s])
      BY <1>1 DEF FanOutInv, CallsInv
    <3>4. ASSUME pub[m].ended = "no"
          PROVE  m \in Range(received[s]) <=> s \in Range(SubSeq(pub[m].snap, 1, Called(m)))
      <4>0. PICK k \in Tasks : \E i \in DOMAIN stack[k] : stack[k][i].msg = m
        BY <1>1, <3>4 DEF FanOutInv, FramesInv
      <4>1. PICK i \in DOMAIN stack[k] : stack[k][i].msg = m
        BY <4>0
      <4> DEFINE c == Place(stack[k][i], pub[m])
                 snap == pub[m].snap
      <4>2. Called(m) = c
        BY <1>1, <4>1, CalledIsPlace
      <4>3. pub[m] \in Publication /\ c \in 1..Len(snap)
        BY <1>1, <4>1, FrameFacts DEF FanOutInv
      <4>4. snap \in Seq(Subs)
        BY <4>3 DEF Publication
      <4>5. m \in Range(received[s]) <=> \E j \in 1..c : snap[j] = s
        <5>1. m \in Range(received[s]) <=> IsCalled(s, stack[k][i], pub[m])
          BY <1>1, <4>1 DEF FanOutInv, CallsInv
        <5>2. QED
          BY <5>1 DEF IsCalled
      <4> HIDE DEF c, snap
      <4>6. /\ DOMAIN SubSeq(snap, 1, c) = 1..c
            /\ \A j \in 1..c : SubSeq(snap, 1, c)[j] = snap[j]
        BY <4>3, <4>4
      <4>7. s \in Range(SubSeq(snap, 1, c)) <=> \E j \in 1..c : snap[j] = s
        BY <4>6 DEF Range
      <4>8. QED
        BY <4>2, <4>5, <4>7 DEF snap
    <3>5. QED
      BY <3>1, <3>2, <3>3, <3>4
  <2>2. QED
    BY <2>1 DEF FanOutExact
<1>2. QED
  BY <1>1, FanOutInductive, PTL

-------------------------------------------------------------------------------
(* The metrics: sums over functions are counted cell by cell.              *)

\* The cells of a bar chart of f over the set s.
Cells(f, s) == {c \in s \X Nat : c[2] \in 1..f[c[1]]}

\* One bar has as many cells as it is high.
LEMMA CellsOfOne ==
    ASSUME NEW x, NEW n \in Nat
    PROVE  LET bar == {c \in {x} \X Nat : c[2] \in 1..n}
           IN  IsFiniteSet(bar) /\ Cardinality(bar) = n
<1> DEFINE bar == {c \in {x} \X Nat : c[2] \in 1..n}
           g == [i \in 1..n |-> <<x, i>>]
<1>1. g \in Bijection(1..n, bar)
  <2>1. g \in [1..n -> bar]
    OBVIOUS
  <2>2. \A i, j \in 1..n : g[i] = g[j] => i = j
    OBVIOUS
  <2>3. \A c \in bar : \E i \in 1..n : g[i] = c
    <3> TAKE c \in bar
    <3>1. c[2] \in 1..n /\ c = <<x, c[2]>>
      OBVIOUS
    <3>2. QED
      BY <3>1
  <2> HIDE DEF g, bar
  <2>4. QED
    BY <2>1, <2>2, <2>3 DEF Bijection, Injection, Surjection, IsInjective
<1>2. ExistsBijection(1..n, bar)
  BY <1>1 DEF ExistsBijection
<1>3. IsFiniteSet(1..n) /\ Cardinality(1..n) = n
  BY FS_Interval
<1> HIDE DEF bar
<1>4. IsFiniteSet(bar) /\ Cardinality(bar) = n
  BY <1>2, <1>3, FS_Bijection
<1>5. QED
  BY <1>4 DEF bar

\* A bar more.
LEMMA CellsGrow ==
    ASSUME NEW S, NEW f \in [S -> Nat], NEW s \in SUBSET S, NEW x \in S \ s,
           IsFiniteSet(Cells(f, s))
    PROVE  /\ IsFiniteSet(Cells(f, s \union {x}))
           /\ Cardinality(Cells(f, s \union {x})) = Cardinality(Cells(f, s)) + f[x]
<1> DEFINE bar == {c \in {x} \X Nat : c[2] \in 1..f[x]}
<1>1. IsFiniteSet(bar) /\ Cardinality(bar) = f[x] /\ f[x] \in Nat
  BY CellsOfOne
<1>2. Cells(f, s \union {x}) = Cells(f, s) \union bar
  BY DEF Cells
<1>3. Cells(f, s) \cap bar = {}
  BY DEF Cells
<1> HIDE DEF bar
<1>4. Cardinality(Cells(f, s)) \in Nat
  BY FS_CardinalityType
<1>5. /\ IsFiniteSet(Cells(f, s) \union bar)
      /\ Cardinality(Cells(f, s) \union bar)
            = Cardinality(Cells(f, s)) + Cardinality(bar) - Cardinality({})
  BY <1>1, <1>3, FS_Union
<1>6. Cardinality({}) = 0
  BY FS_EmptySet
<1>7. Cardinality(Cells(f, s) \union bar) = Cardinality(Cells(f, s)) + f[x]
  <2>1. \A a, b \in Nat : a + b - 0 = a + b
    OBVIOUS
  <2>2. QED
    BY <1>1, <1>4, <1>5, <1>6, <2>1
<1>8. QED
  BY <1>2, <1>5, <1>7

\* The sum that a fold over the set computes, in whatever order, is the number of cells.
LEMMA SumIsCells ==
    ASSUME NEW S, IsFiniteSet(S), NEW f \in [S -> Nat]
    PROVE  /\ IsFiniteSet(Cells(f, S))
           /\ SumFunction(f) = Cardinality(Cells(f, S))
<1> DEFINE sum[s \in SUBSET S] == IF s = {} THEN 0
                                  ELSE LET x == CHOOSE y \in s : TRUE
                                       IN  f[x] + sum[s \ {x}]
<1>1. SumFunction(f) = sum[S]
  BY DEF SumFunction, SumFunctionOnSet, FoldFunctionOnSet, MapThenFoldSet
<1> DEFINE Step(g) == [s \in SUBSET S |-> IF s = {} THEN 0
                                         ELSE LET x == CHOOSE y \in s : TRUE
                                              IN  f[x] + g[s \ {x}]]
           cells == [s \in SUBSET S |-> Cardinality(Cells(f, s))]
<1>2. Cells(f, {}) = {}
  BY DEF Cells
<1>3. \A s \in SUBSET S : IsFiniteSet(s) /\ Cardinality(s) \in Nat
  BY FS_Subset, FS_CardinalityType
\* By the size of the subset: its cells are finitely many.
<1> DEFINE F == {n \in Nat : \A s \in SUBSET S : Cardinality(s) = n => IsFiniteSet(Cells(f, s))}
<1>4. \A s \in SUBSET S : IsFiniteSet(Cells(f, s))
  <2>1. 0 \in F
    BY <1>2, <1>3, FS_EmptySet
  <2>2. ASSUME NEW n \in Nat, n \in F PROVE n + 1 \in F
    <3>1. ASSUME NEW s \in SUBSET S, Cardinality(s) = n + 1 PROVE IsFiniteSet(Cells(f, s))
      <4>1. s # {}
        BY <3>1, FS_EmptySet
      <4>2. PICK x \in s : TRUE
        BY <4>1
      <4>3. Cardinality(s \ {x}) = n
        <5>1. IsFiniteSet(s)
          BY <1>3
        <5>2. Cardinality(s \ {x}) = Cardinality(s) - 1
          BY <5>1, FS_RemoveElement
        <5>3. (n + 1) - 1 = n
          OBVIOUS
        <5>4. QED
          BY <3>1, <5>2, <5>3
      <4>4. IsFiniteSet(Cells(f, s \ {x}))
        BY <2>2, <4>3
      <4>5. (s \ {x}) \union {x} = s /\ x \in S \ (s \ {x}) /\ s \ {x} \in SUBSET S
        BY <4>2
      <4>6. QED
        BY <4>4, <4>5, CellsGrow
    <3>2. QED
      BY <3>1
  <2> HIDE DEF F
  <2>3. Nat \subseteq F
    BY <2>1, <2>2, SetInduction
  <2>4. QED
    BY <1>3, <2>3 DEF F
<1>5. ASSUME NEW s \in SUBSET S, NEW x \in s
      PROVE  Cardinality(Cells(f, s)) = f[x] + Cardinality(Cells(f, s \ {x}))
  <2>1. (s \ {x}) \union {x} = s /\ x \in S \ (s \ {x}) /\ s \ {x} \in SUBSET S
    OBVIOUS
  <2>2. Cardinality(Cells(f, s)) = Cardinality(Cells(f, s \ {x})) + f[x]
    BY <1>4, <2>1, CellsGrow
  <2>3. Cardinality(Cells(f, s \ {x})) \in Nat /\ f[x] \in Nat
    BY <1>4, <2>1, FS_CardinalityType
  <2>4. QED
    BY <2>2, <2>3
<1>6. cells = Step(cells)
  <2>1. ASSUME NEW s \in SUBSET S
        PROVE  cells[s] = IF s = {} THEN 0
                          ELSE LET x == CHOOSE y \in s : TRUE IN f[x] + cells[s \ {x}]
    <3>1. CASE s = {}
      BY <1>2, <3>1, FS_EmptySet
    <3>2. CASE s # {}
      <4>1. PICK x \in s : x = CHOOSE y \in s : TRUE
        BY <3>2
      <4>2. cells[s] = f[x] + cells[s \ {x}]
        BY <1>5
      <4>3. QED
        BY <3>2, <4>1, <4>2
    <3>3. QED
      BY <3>1, <3>2
  <2>2. QED
    BY <2>1
<1>7. sum = Step(sum)
  BY <1>6
<1> HIDE DEF sum
<1>8. ASSUME NEW s \in SUBSET S
      PROVE  sum[s] = IF s = {} THEN 0
                      ELSE LET x == CHOOSE y \in s : TRUE IN f[x] + sum[s \ {x}]
  BY <1>7
\* By the size of the subset: its sum is the number of its cells.
<1> DEFINE T == {n \in Nat : \A s \in SUBSET S :
                     Cardinality(s) = n => sum[s] = Cardinality(Cells(f, s))}
<1>9. \A s \in SUBSET S : sum[s] = Cardinality(Cells(f, s))
  <2>1. 0 \in T
    BY <1>2, <1>3, <1>8, FS_EmptySet
  <2>2. ASSUME NEW n \in Nat, n \in T PROVE n + 1 \in T
    <3>1. ASSUME NEW s \in SUBSET S, Cardinality(s) = n + 1
          PROVE  sum[s] = Cardinality(Cells(f, s))
      <4>1. s # {}
        BY <3>1, FS_EmptySet
      <4>2. PICK x \in s : x = CHOOSE y \in s : TRUE
        BY <4>1
      <4>3. Cardinality(s \ {x}) = n
        <5>1. IsFiniteSet(s)
          BY <1>3
        <5>2. Cardinality(s \ {x}) = Cardinality(s) - 1
          BY <5>1, FS_RemoveElement
        <5>3. (n + 1) - 1 = n
          OBVIOUS
        <5>4. QED
          BY <3>1, <5>2, <5>3
      <4>4. sum[s \ {x}] = Cardinality(Cells(f, s \ {x}))
        BY <2>2, <4>3
      <4>5. sum[s] = f[x] + sum[s \ {x}]
        BY <1>8, <4>1, <4>2
      <4>6. QED
        BY <1>5, <4>4, <4>5
    <3>2. QED
      BY <3>1
  <2> HIDE DEF T
  <2>3. Nat \subseteq T
    BY <2>1, <2>2, SetInduction
  <2>4. QED
    BY <1>3, <2>3 DEF T
<1>10. QED
  BY <1>1, <1>4, <1>9

\* One more at one place is one more in the sum.
LEMMA SumOneMore ==
    ASSUME NEW S, IsFiniteSet(S), NEW f \in [S -> Nat], NEW s \in S, NEW g \in [S -> Nat],
           g[s] = f[s] + 1, \A x \in S \ {s} : g[x] = f[x]
    PROVE  SumFunction(f) \in Nat /\ SumFunction(g) = SumFunction(f) + 1
<1>1. IsFiniteSet(Cells(f, S)) /\ SumFunction(f) = Cardinality(Cells(f, S))
  BY SumIsCells
<1>2. SumFunction(g) = Cardinality(Cells(g, S))
  BY SumIsCells
<1>3. f[s] \in Nat
  OBVIOUS
<1>4. <<s, f[s] + 1>> \notin Cells(f, S)
  BY <1>3 DEF Cells
<1>5. Cells(g, S) = Cells(f, S) \union {<<s, f[s] + 1>>}
  <2>1. ASSUME NEW c \in S \X Nat
        PROVE  c[2] \in 1..g[c[1]] <=> c[2] \in 1..f[c[1]] \/ c = <<s, f[s] + 1>>
    <3>1. c = <<c[1], c[2]>> /\ c[1] \in S /\ c[2] \in Nat /\ f[c[1]] \in Nat
      OBVIOUS
    <3>2. CASE c[1] = s
      BY <1>3, <3>1, <3>2
    <3>3. CASE c[1] # s
      BY <3>1, <3>3
    <3>4. QED
      BY <3>2, <3>3
  <2>2. <<s, f[s] + 1>> \in S \X Nat
    BY <1>3
  <2>3. QED
    BY <2>1, <2>2 DEF Cells
<1>6. SumFunction(f) \in Nat
  BY <1>1, FS_CardinalityType
<1>7. Cardinality(Cells(f, S) \union {<<s, f[s] + 1>>}) = Cardinality(Cells(f, S)) + 1
  BY <1>1, <1>4, FS_AddElement
<1>8. QED
  BY <1>1, <1>2, <1>5, <1>6, <1>7

\* Calls of handlers that still run, or were cancelled.
Pending == {m \in DOMAIN pub : pub[m].ended \in {"no", "cancelled"}}

\* They are finitely many.
LEMMA PendingFinite ==
    ASSUME TypeOK
    PROVE  IsFiniteSet(Pending) /\ Uncounted = Cardinality(Pending) /\ Uncounted \in Nat
<1>1. DOMAIN pub = 1..Len(pub) /\ Len(pub) \in Nat
  BY DEF TypeOK
<1>2. IsFiniteSet(DOMAIN pub)
  BY <1>1, FS_Interval
<1>3. Pending \in SUBSET DOMAIN pub
  BY DEF Pending
<1>4. IsFiniteSet(Pending)
  BY <1>2, <1>3, FS_Subset
<1>5. QED
  BY <1>4, FS_CardinalityType DEF Uncounted, Pending

\* The number of calls follows from what has been received.
LEMMA HandlerCallsKept == UNCHANGED received => HandlerCalls' = HandlerCalls
  BY DEF HandlerCalls

\* A call of a handler is one call more.
LEMMA HandlerCallsOneMore ==
    ASSUME TypeOK, NEW s \in Subs, NEW m \in Msgs, Handed(s, m)
    PROVE  HandlerCalls \in Nat /\ HandlerCalls' = HandlerCalls + 1
<1> DEFINE f == [x \in Subs |-> Len(received[x])]
           g == [x \in Subs |-> Len(received'[x])]
<1>1. \A x \in Subs : received[x] \in Seq(Msgs)
  BY DEF TypeOK
<1>2. /\ received'[s] = Append(received[s], m)
      /\ \A x \in Subs \ {s} : received'[x] = received[x]
  BY DEF TypeOK, Handed
<1>3. f \in [Subs -> Nat]
  BY <1>1
<1>4. Len(received'[s]) = Len(received[s]) + 1 /\ Len(received[s]) \in Nat
  BY <1>1, <1>2, AppendProperties
<1>5. g \in [Subs -> Nat] /\ g[s] = f[s] + 1 /\ \A x \in Subs \ {s} : g[x] = f[x]
  <2>1. \A x \in Subs \ {s} : Len(received'[x]) = Len(received[x]) /\ Len(received[x]) \in Nat
    BY <1>1, <1>2
  <2>2. \A x \in Subs : Len(received'[x]) \in Nat
    BY <1>4, <2>1
  <2>3. QED
    BY <1>4, <2>1, <2>2
<1>6. HandlerCalls = SumFunction(f) /\ HandlerCalls' = SumFunction(g)
  BY DEF HandlerCalls
<1> HIDE DEF f, g
<1>7. QED
  BY <1>3, <1>5, <1>6, BusAssumption, SumOneMore

\* What is counted, wiped, running or cancelled is what was called.
Adds ==
    LET counted == delivered + errors + discarded IN
    IF enableMetrics THEN counted + Uncounted = HandlerCalls ELSE counted = 0

\* A publish that nobody has subscribed to is neither pending nor a call; any other is both.
LEMMA PublishAdds ==
    ASSUME IInv, Adds, NEW k \in Tasks, NEW t \in Topics, Publish(k, t)
    PROVE  Adds'
<1>1. TypeOK /\ pub \in Seq(Publication) /\ Len(pub) \in Nat /\ DOMAIN pub = 1..Len(pub)
  BY DEF IInv, TypeOK
<1>2. UNCHANGED <<enableMetrics, delivered, errors, discarded>>
  BY DEF Publish
<1>3. PICK p : /\ pub' = Append(pub, p)
               /\ p.ended = IF ListOf(t) = <<>> THEN "returned" ELSE "no"
  BY DEF Publish
<1>4. /\ DOMAIN pub' = 1..(Len(pub) + 1) /\ pub'[Len(pub) + 1] = p
      /\ \A m \in 1..Len(pub) : pub'[m] = pub[m]
  BY <1>1, <1>3
<1>5. delivered \in Nat /\ errors \in Nat /\ discarded \in Nat
  BY <1>1 DEF TypeOK
<1>6. CASE ListOf(t) = <<>>
  <2>1. Pending' = Pending
    BY <1>1, <1>3, <1>4, <1>6 DEF Pending
  <2>2. Uncounted' = Uncounted
    BY <2>1 DEF Uncounted, Pending
  <2>3. HandlerCalls' = HandlerCalls
    BY <1>6, HandlerCallsKept DEF Publish
  <2>4. QED
    BY <1>2, <2>2, <2>3 DEF Adds
<1>7. CASE ListOf(t) # <<>>
  <2>1. Pending' = Pending \union {Len(pub) + 1} /\ Len(pub) + 1 \notin Pending
    BY <1>1, <1>3, <1>4, <1>7 DEF Pending
  <2>2. Cardinality(Pending') = Cardinality(Pending) + 1
    BY <1>1, <2>1, PendingFinite, FS_AddElement
  <2>3. Uncounted' = Uncounted + 1 /\ Uncounted \in Nat
    <3>1. Uncounted' = Cardinality(Pending')
      BY DEF Uncounted, Pending
    <3>2. QED
      BY <1>1, <2>2, <3>1, PendingFinite
  <2>4. HandlerCalls \in Nat /\ HandlerCalls' = HandlerCalls + 1
    <3>1. Head(ListOf(t)) \in Subs
      BY <1>1, <1>7, ListsTyped
    <3>2. Len(pub) + 1 \in Msgs
      BY <1>1, BusAssumption DEF Publish, Msgs
    <3>3. Handed(Head(ListOf(t)), Len(pub) + 1)
      BY <1>7 DEF Publish
    <3>4. QED
      BY <1>1, <3>1, <3>2, <3>3, HandlerCallsOneMore
  <2>5. QED
    BY <1>2, <1>5, <2>3, <2>4 DEF Adds
<1>8. QED
  BY <1>6, <1>7

\* A publish ends: it is pending no more, unless it is cancelled.
LEMMA EndPending ==
    ASSUME IInv, FramesInv, NEW k \in Tasks, stack[k] # <<>>, NEW e \in {"returned", "cancelled"},
           pub' = [pub EXCEPT ![Top(k).msg].ended = e]
    PROVE  /\ Uncounted \in Nat /\ Uncounted' \in Nat
           /\ e = "returned" => Uncounted' + 1 = Uncounted
           /\ e = "cancelled" => Uncounted' = Uncounted
<1>1. PICK m \in DOMAIN pub : m = Top(k).msg /\ pub[m] \in Publication /\ pub[m].ended = "no"
  BY TopFacts DEF Continues
<1>2. TypeOK /\ pub \in Seq(Publication)
  BY DEF IInv, TypeOK
<1>3. /\ DOMAIN pub' = DOMAIN pub /\ pub'[m].ended = e
      /\ \A n \in DOMAIN pub \ {m} : pub'[n] = pub[n]
  BY <1>1, <1>2 DEF Publication
<1>4. /\ m \in Pending
      /\ Pending' = IF e = "cancelled" THEN Pending ELSE Pending \ {m}
  BY <1>1, <1>3 DEF Pending
<1>5. Uncounted' = Cardinality(Pending')
  BY DEF Uncounted, Pending
<1>6. /\ IsFiniteSet(Pending) /\ Uncounted = Cardinality(Pending) /\ Uncounted \in Nat
      /\ Cardinality(Pending \ {m}) \in Nat
      /\ Cardinality(Pending \ {m}) = Cardinality(Pending) - 1
  BY <1>2, <1>4, PendingFinite, FS_RemoveElement, FS_CardinalityType
<1>7. ASSUME e = "returned" PROVE Uncounted' \in Nat /\ Uncounted' + 1 = Uncounted
  <2>1. Uncounted' = Cardinality(Pending \ {m})
    BY <1>4, <1>5, <1>7
  <2>2. QED
    BY <1>6, <2>1
<1>8. ASSUME e = "cancelled" PROVE Uncounted' = Uncounted
  BY <1>4, <1>5, <1>6, <1>8
<1>9. QED
  BY <1>6, <1>7, <1>8

\* The loop goes on: one pending call less or one call more.
LEMMA AdvanceCalls ==
    ASSUME IInv, FramesInv, NEW k \in Tasks, stack[k] # <<>>, Advance(k),
           HandlerCalls \in Nat
    PROVE  /\ Uncounted \in Nat /\ Uncounted' \in Nat /\ HandlerCalls' \in Nat
           /\ Uncounted' + HandlerCalls + 1 = Uncounted + HandlerCalls'
<1>1. TypeOK
  BY DEF IInv
<1>2. CASE Tail(Top(k).subs) = <<>>
  <2>1. pub' = [pub EXCEPT ![Top(k).msg].ended = "returned"] /\ received' = received
    BY <1>2 DEF Advance
  <2>2. Uncounted \in Nat /\ Uncounted' \in Nat /\ Uncounted' + 1 = Uncounted
    BY <2>1, EndPending
  <2>3. HandlerCalls' = HandlerCalls
    BY <2>1, HandlerCallsKept
  <2>4. \A a, b, h \in Nat : b + 1 = a => b + h + 1 = a + h
    OBVIOUS
  <2>5. QED
    BY <2>2, <2>3, <2>4
<1>3. CASE Tail(Top(k).subs) # <<>>
  <2>1. pub' = pub /\ Handed(Head(Tail(Top(k).subs)), Top(k).msg)
    BY <1>3 DEF Advance
  <2>2. Head(Tail(Top(k).subs)) \in Subs /\ Top(k).msg \in Msgs
    <3>1. Top(k).subs \in Seq(Subs) /\ Top(k).subs # <<>> /\ Top(k).msg \in Msgs
      BY TopFacts
    <3>2. QED
      BY <1>3, <3>1
  <2>3. HandlerCalls' = HandlerCalls + 1
    BY <1>1, <2>1, <2>2, HandlerCallsOneMore
  <2>4. Uncounted' = Uncounted /\ Uncounted \in Nat
    BY <1>1, <2>1, PendingFinite DEF Uncounted
  <2>5. QED
    BY <2>3, <2>4
<1>4. QED
  BY <1>2, <1>3

\* The calls are finitely many.
LEMMA CallsCounted == ASSUME TypeOK PROVE HandlerCalls \in Nat
<1>1. [s \in Subs |-> Len(received[s])] \in [Subs -> Nat]
  BY DEF TypeOK
<1>2. QED
  BY <1>1, SumIsCells, FS_CardinalityType, BusAssumption DEF HandlerCalls

\* The sum stands in every step: a reset moves what it wipes, the registry's steps call nobody.
LEMMA StepAdds == ASSUME IInv, FanOutInv, Adds, [Next]_vars PROVE Adds'
<1>1. TypeOK /\ FramesInv /\ delivered \in Nat /\ errors \in Nat /\ discarded \in Nat
  BY DEF IInv, TypeOK, FanOutInv
<1>2. HandlerCalls \in Nat /\ Uncounted \in Nat
  BY <1>1, CallsCounted, PendingFinite
<1>3. ASSUME NEW k \in Tasks, NEW t \in Topics, Publish(k, t) PROVE Adds'
  BY <1>3, PublishAdds
<1>4. ASSUME NEW k \in Tasks, HandlerReturns(k) \/ HandlerRaises(k) PROVE Adds'
  <2>1. /\ stack[k] # <<>> /\ Advance(k) /\ UNCHANGED <<enableMetrics, discarded>>
        /\ ~ enableMetrics => UNCHANGED <<delivered, errors>>
    BY <1>4 DEF HandlerReturns, HandlerRaises
  <2>2. enableMetrics => \/ delivered' = delivered + 1 /\ errors' = errors
                         \/ delivered' = delivered /\ errors' = errors + 1
    BY <1>4 DEF HandlerReturns, HandlerRaises
  <2>3. /\ Uncounted' \in Nat /\ HandlerCalls' \in Nat
        /\ Uncounted' + HandlerCalls + 1 = Uncounted + HandlerCalls'
    BY <1>1, <1>2, <2>1, AdvanceCalls
  <2>4. CASE enableMetrics
    <3>1. delivered + errors + discarded + Uncounted = HandlerCalls
      BY <2>4 DEF Adds
    <3>2. delivered' + errors' + discarded' = delivered + errors + discarded + 1
      BY <1>1, <2>1, <2>2, <2>4
    <3>3. delivered' + errors' + discarded' + Uncounted' = HandlerCalls'
      <4>1. \A c, u, h, u1, h1 \in Nat :
               c + u = h /\ u1 + h + 1 = u + h1 => c + 1 + u1 = h1
        OBVIOUS
      <4>2. delivered + errors + discarded \in Nat
        BY <1>1
      <4>3. QED
        BY <1>2, <2>3, <3>1, <3>2, <4>1, <4>2
    <3>4. QED
      BY <2>1, <2>4, <3>3 DEF Adds
  <2>5. CASE ~ enableMetrics
    BY <2>1, <2>5 DEF Adds
  <2>6. QED
    BY <2>4, <2>5
<1>5. ASSUME NEW k \in Tasks, HandlerCancelled(k) PROVE Adds'
  <2>1. /\ stack[k] # <<>> /\ UNCHANGED <<enableMetrics, delivered, errors, discarded, received>>
        /\ pub' = [pub EXCEPT ![Top(k).msg].ended = "cancelled"]
    BY <1>5 DEF HandlerCancelled, counters
  <2>2. Uncounted' = Uncounted
    BY <1>1, <2>1, EndPending
  <2>3. HandlerCalls' = HandlerCalls
    BY <2>1, HandlerCallsKept
  <2>4. QED
    BY <2>1, <2>2, <2>3 DEF Adds
<1>6. CASE ResetMetrics
  <2>1. /\ UNCHANGED <<enableMetrics, pub, received>>
        /\ delivered' = 0 /\ errors' = 0 /\ discarded' = discarded + delivered + errors
    BY <1>6 DEF ResetMetrics
  <2>2. delivered' + errors' + discarded' = delivered + errors + discarded
    BY <1>1, <2>1
  <2>3. Uncounted' = Uncounted /\ HandlerCalls' = HandlerCalls
    BY <2>1, HandlerCallsKept DEF Uncounted
  <2>4. QED
    BY <2>1, <2>2, <2>3 DEF Adds
<1>7. CASE \/ \E s \in Subs, t \in Topics : Subscribe(s, t)
           \/ \E s \in Subs : Unsubscribe(s)
           \/ ClearAllSubscriptions \/ UNCHANGED vars
  <2>1. UNCHANGED <<enableMetrics, delivered, errors, discarded, pub, received>>
    BY <1>7 DEF Subscribe, Unsubscribe, ClearAllSubscriptions, vars, counters
  <2>2. Uncounted' = Uncounted /\ HandlerCalls' = HandlerCalls
    BY <2>1, HandlerCallsKept DEF Uncounted
  <2>3. QED
    BY <2>1, <2>2 DEF Adds
<1>8. QED
  BY <1>3, <1>4, <1>5, <1>6, <1>7 DEF Next

\* Nothing has been called yet.
LEMMA InitAdds == Init => Adds
<1> SUFFICES ASSUME Init PROVE Adds
  OBVIOUS
<1>1. DOMAIN pub = {} /\ delivered = 0 /\ errors = 0 /\ discarded = 0
  BY DEF Init
<1>2. Uncounted = 0
  BY <1>1, FS_EmptySet DEF Uncounted
<1> DEFINE f == [s \in Subs |-> Len(received[s])]
<1>3. f \in [Subs -> Nat] /\ \A s \in Subs : f[s] = 0
  BY DEF Init
<1> HIDE DEF f
<1>4. Cells(f, Subs) = {}
  BY <1>3 DEF Cells
<1>5. SumFunction(f) = 0
  BY <1>3, <1>4, SumIsCells, FS_EmptySet, BusAssumption
<1>6. HandlerCalls = 0
  BY <1>5 DEF HandlerCalls, f
<1>7. QED
  BY <1>1, <1>2, <1>6 DEF Adds

\* Every live subscription has its place in the list of its topic, and every place is that of
\* one: the figures of get_metrics count the live subscriptions and their topics.
LEMMA FiguresExact ==
    ASSUME TypeOK, RegistryInv
    PROVE  /\ GetAllTopics = {home[s] : s \in Live}
           /\ SumFunction([t \in GetAllTopics |-> GetSubscribersCount(t)]) = Cardinality(Live)
<1> DEFINE D == DOMAIN subscribers
           f == [t \in D |-> GetSubscribersCount(t)]
           h == [s \in Live |-> home[s]]
           g == [c \in Cells(f, D) |-> subscribers[c[1]][c[2]]]
<1>1. /\ \A t \in D : /\ subscribers[t] \in Seq(Subs) /\ Len(subscribers[t]) \in Nat
                      /\ DOMAIN subscribers[t] = 1..Len(subscribers[t])
      /\ \A t \in D : ListExact(t)
  BY DEF TypeOK, RegistryInv
<1>2. D = {home[s] : s \in Live}
  <2>1. ASSUME NEW t \in D PROVE \E s \in Live : home[s] = t
    <3>1. subscribers[t] # <<>> /\ 1 \in DOMAIN subscribers[t]
      BY <1>1 DEF ListExact
    <3>2. QED
      BY <1>1, <3>1 DEF ListExact
  <2>2. ASSUME NEW s \in Live PROVE home[s] \in D
    BY DEF RegistryInv
  <2>3. QED
    BY <2>1, <2>2
<1>3. IsFiniteSet(Live)
  BY BusAssumption, FS_Subset DEF Live
<1>4. IsFiniteSet(D)
  <2>1. h \in Surjection(Live, D)
    BY <1>2 DEF Surjection
  <2>2. QED
    BY <1>3, <2>1, FS_Surjection
<1>5. f \in [D -> Nat] /\ \A t \in D : f[t] = Len(subscribers[t])
  BY <1>1 DEF GetSubscribersCount, ListOf
<1>6. IsFiniteSet(Cells(f, D)) /\ SumFunction(f) = Cardinality(Cells(f, D))
  <2> HIDE DEF f, D
  <2>1. QED
    BY <1>4, <1>5, SumIsCells
<1>7. ASSUME NEW c \in Cells(f, D)
      PROVE  /\ c = <<c[1], c[2]>> /\ c[1] \in D /\ c[2] \in DOMAIN subscribers[c[1]]
             /\ g[c] = subscribers[c[1]][c[2]] /\ g[c] \in Live /\ home[g[c]] = c[1]
  <2>1. c = <<c[1], c[2]>> /\ c[1] \in D /\ c[2] \in 1..f[c[1]]
    BY <1>7 DEF Cells
  <2>2. c[2] \in DOMAIN subscribers[c[1]]
    BY <1>1, <1>5, <2>1
  <2>3. g[c] = subscribers[c[1]][c[2]]
    OBVIOUS
  <2>4. QED
    BY <1>1, <2>1, <2>2, <2>3 DEF ListExact
<1>8. g \in Bijection(Cells(f, D), Live)
  <2>1. g \in [Cells(f, D) -> Live]
    BY <1>7
  <2>2. ASSUME NEW a \in Cells(f, D), NEW b \in Cells(f, D), g[a] = g[b] PROVE a = b
    <3>1. a[1] = b[1]
      BY <1>7, <2>2
    <3>2. a[2] = b[2]
      BY <1>1, <1>7, <2>2, <3>1 DEF ListExact, OneEach
    <3>3. QED
      BY <1>7, <3>1, <3>2
  <2>3. ASSUME NEW s \in Live PROVE \E c \in Cells(f, D) : g[c] = s
    <3>1. home[s] \in D
      BY DEF RegistryInv
    <3>2. PICK i \in DOMAIN subscribers[home[s]] : subscribers[home[s]][i] = s
      BY DEF RegistryInv
    <3>3. i \in 1..f[home[s]] /\ i \in Nat
      BY <1>1, <1>5, <3>1
    <3>4. <<home[s], i>> \in Cells(f, D)
      BY <3>1, <3>3 DEF Cells
    <3>5. QED
      BY <3>2, <3>4
  <2> HIDE DEF g, f, D
  <2>4. QED
    BY <2>1, <2>2, <2>3 DEF Bijection, Injection, Surjection, IsInjective
<1>9. Cardinality(Cells(f, D)) = Cardinality(Live)
  <2>1. ExistsBijection(Cells(f, D), Live)
    BY <1>8 DEF ExistsBijection
  <2> HIDE DEF f, D
  <2>2. QED
    BY <1>6, <2>1, FS_Bijection
<1>10. QED
  BY <1>2, <1>6, <1>9 DEF GetAllTopics

\* Whatever raises, is cancelled, nests or is reset in mid-publish, the counters of a bus with
\* metrics add up to the calls it made, and its figures are those of the live subscriptions.
THEOREM MetricsAlwaysAddUp == Spec => []MetricsAddUp
<1>1. IInv /\ Adds => MetricsAddUp
  <2> SUFFICES ASSUME IInv, Adds PROVE MetricsAddUp
    OBVIOUS
  <2>1. /\ GetAllTopics = {home[s] : s \in Live}
        /\ SumFunction([t \in GetAllTopics |-> GetSubscribersCount(t)]) = Cardinality(Live)
    BY FiguresExact DEF IInv
  <2>2. /\ GetMetrics.topics = Cardinality({home[s] : s \in Live})
        /\ GetMetrics.total_subscribers = Cardinality(Live)
    BY <2>1 DEF GetMetrics
  <2>3. GetMetrics.delivered = delivered /\ GetMetrics.errors = errors
    BY DEF GetMetrics
  <2>4. QED
    BY <2>2, <2>3 DEF Adds, MetricsAddUp
<1>2. IInv /\ FanOutInv /\ Adds /\ [Next]_vars => Adds'
  BY StepAdds
<1>3. QED
  BY <1>1, <1>2, InitAdds, FanOutInductive, PTL DEF Spec
-------------------------------------------------------------------------------
(* The bus implements PubSub: each of its steps is one of PubSub's, or none. *)

Members == [t \in Topics |-> Range(ListOf(t))]
Owed == [m \in Msgs |-> StillOwed(m)]

\* To whom a message is still owed, as a function of the tasks' stacks.
OwedOn(st, m) ==
    IF \E k \in Tasks : m \in {st[k][i].msg : i \in DOMAIN st[k]}
       THEN LET k == CHOOSE k \in Tasks : m \in {st[k][i].msg : i \in DOMAIN st[k]}
                i == CHOOSE i \in DOMAIN st[k] : st[k][i].msg = m
            IN Range(Tail(st[k][i].subs))
       ELSE {}

\* StillOwed reads the stacks and nothing else: now ...
LEMMA OwedNow == Owed = [m \in Msgs |-> OwedOn(stack, m)]
BY DEF Owed, StillOwed, OwedOn, InProgress

\* ... and in the next state.
LEMMA OwedNext == Owed' = [m \in Msgs |-> OwedOn(stack', m)]
BY DEF Owed, StillOwed, OwedOn, InProgress

OneFrame(st) ==
    \A k, l \in Tasks : \A i \in DOMAIN st[k], j \in DOMAIN st[l] :
        st[k][i].msg = st[l][j].msg => k = l /\ i = j

\* A message is in progress in one place: the task that published it is its task.
LEMMA FramesAreOne ==
    ASSUME NEW st, NEW pb,
           \A k \in Tasks : \A i \in DOMAIN st[k] : Continues(k, st[k][i], pb[st[k][i].msg]),
           \A k \in Tasks : \A i, j \in DOMAIN st[k] : st[k][i].msg = st[k][j].msg => i = j
    PROVE  OneFrame(st)
<1> SUFFICES ASSUME NEW k \in Tasks, NEW l \in Tasks, NEW i \in DOMAIN st[k],
                    NEW j \in DOMAIN st[l], st[k][i].msg = st[l][j].msg
             PROVE  k = l /\ i = j
  BY DEF OneFrame
<1>1. pb[st[k][i].msg].by = k /\ pb[st[l][j].msg].by = l
  BY DEF Continues
<1>2. QED
  BY <1>1

\* The message of a frame is owed to those the frame has still to call after this one.
LEMMA OwedOnFrame ==
    ASSUME NEW st, OneFrame(st), NEW k \in Tasks, NEW i \in DOMAIN st[k]
    PROVE  OwedOn(st, st[k][i].msg) = Range(Tail(st[k][i].subs))
<1> DEFINE m == st[k][i].msg
           l == CHOOSE l \in Tasks : m \in {st[l][j].msg : j \in DOMAIN st[l]}
           j == CHOOSE j \in DOMAIN st[l] : st[l][j].msg = m
<1>1. m \in {st[k][h].msg : h \in DOMAIN st[k]}
  OBVIOUS
<1>2. l \in Tasks /\ m \in {st[l][h].msg : h \in DOMAIN st[l]}
  BY <1>1
<1>3. OwedOn(st, m) = Range(Tail(st[l][j].subs))
  BY <1>1 DEF OwedOn
<1>4. \E h \in DOMAIN st[l] : st[l][h].msg = m
  BY <1>2
<1>5. j \in DOMAIN st[l] /\ st[l][j].msg = m
  BY <1>4
<1> HIDE DEF l, j
<1>6. l = k /\ j = i
  BY <1>2, <1>5 DEF OneFrame
<1>7. QED
  BY <1>3, <1>6

\* A message of no frame is owed to nobody.
LEMMA OwedOnNone ==
    ASSUME NEW st, NEW m, \A k \in Tasks : \A i \in DOMAIN st[k] : st[k][i].msg # m
    PROVE  OwedOn(st, m) = {}
BY DEF OwedOn

\* A message whose frames are the same is owed to the same.
LEMMA OwedOnSame ==
    ASSUME NEW st, NEW su, OneFrame(st), OneFrame(su), NEW m,
           \A k \in Tasks : \A i \in DOMAIN st[k] :
               st[k][i].msg = m => i \in DOMAIN su[k] /\ su[k][i] = st[k][i],
           \A k \in Tasks : \A i \in DOMAIN su[k] :
               su[k][i].msg = m => i \in DOMAIN st[k] /\ su[k][i] = st[k][i]
    PROVE  OwedOn(su, m) = OwedOn(st, m)
<1>1. CASE \E k \in Tasks : \E i \in DOMAIN st[k] : st[k][i].msg = m
  <2>1. PICK k \in Tasks : \E i \in DOMAIN st[k] : st[k][i].msg = m
    BY <1>1
  <2>2. PICK i \in DOMAIN st[k] : st[k][i].msg = m
    BY <2>1
  <2>3. i \in DOMAIN su[k] /\ su[k][i] = st[k][i]
    BY <2>2
  <2>4. OwedOn(st, m) = Range(Tail(st[k][i].subs))
    BY <2>2, OwedOnFrame
  <2>5. OwedOn(su, m) = Range(Tail(su[k][i].subs))
    BY <2>2, <2>3, OwedOnFrame
  <2>6. QED
    BY <2>3, <2>4, <2>5
<1>2. CASE \A k \in Tasks : \A i \in DOMAIN st[k] : st[k][i].msg # m
  <2>1. \A k \in Tasks : \A i \in DOMAIN su[k] : su[k][i].msg # m
    BY <1>2
  <2>2. OwedOn(st, m) = {}
    BY <1>2, OwedOnNone
  <2>3. OwedOn(su, m) = {}
    BY <2>1, OwedOnNone
  <2>4. QED
    BY <2>2, <2>3
<1>3. QED
  BY <1>1, <1>2

\* A message has one frame before a step ...
LEMMA OneFrameBefore == FramesInv => OneFrame(stack)
BY FramesAreOne DEF FramesInv

\* ... and after it.
LEMMA OneFrameAfter == FramesInv' => OneFrame(stack')
BY FramesAreOne DEF FramesInv

-------------------------------------------------------------------------------
\* Members are what is live.
LEMMA MembersBefore ==
    ASSUME RegistryInv, TypeOK
    PROVE  Members = [t \in Topics |-> {s \in Live : home[s] = t}]
<1>1. ASSUME NEW t \in Topics PROVE Range(ListOf(t)) = {s \in Live : home[s] = t}
  BY DEF RegistryInv, ListExact, ListOf, Range, Live
<1>2. QED
  BY <1>1 DEF Members

\* So they are after a step.
LEMMA MembersAfter ==
    ASSUME RegistryInv', TypeOK'
    PROVE  Members' = [t \in Topics |-> {s \in Live' : home'[s] = t}]
<1>1. ASSUME NEW t \in Topics PROVE Range(ListOf(t)') = {s \in Live' : home'[s] = t}
  BY DEF RegistryInv, ListExact, ListOf, Range, Live
<1>2. QED
  BY <1>1 DEF Members

\* Subscribing is joining.
LEMMA SubscribeJoins ==
    ASSUME IInv, IInv', NEW s \in Subs, NEW t \in Topics, Subscribe(s, t)
    PROVE  PS!Join(s, t)
<1>1. /\ Members = [u \in Topics |-> {x \in Live : home[x] = u}]
      /\ Members' = [u \in Topics |-> {x \in Live' : home'[x] = u}]
  BY MembersBefore, MembersAfter DEF IInv
<1>2. /\ home[s] = NoTopic /\ home' = [home EXCEPT ![s] = t] /\ left' = left
      /\ UNCHANGED <<pub, stack, received>>
  BY DEF Subscribe
<1>3. s \notin Live /\ left[s] = StillIn /\ home \in [Subs -> Topics \union {NoTopic}]
  BY <1>2 DEF Live, IInv, RegistryInv, TypeOK
<1>4. Live' = Live \union {s} /\ home'[s] = t /\ \A x \in Subs : x # s => home'[x] = home[x]
  BY <1>2, <1>3, BusAssumption DEF Live, StillIn
<1>5. Members' = [Members EXCEPT ![t] = Members[t] \union {s}]
  <2>1. ASSUME NEW u \in Topics
        PROVE  Members'[u] = IF u = t THEN Members[u] \union {s} ELSE Members[u]
    <3>1. {x \in Live' : home'[x] = u} = {x \in Live : home[x] = u} \union {x \in {s} : t = u}
      BY <1>3, <1>4 DEF Live
    <3>2. QED
      BY <1>1, <3>1
  <2>2. QED
    BY <1>1, <2>1
<1>6. \A u \in Topics : s \notin Members[u]
  BY <1>1, <1>3
<1>7. Owed' = Owed
  BY <1>2, OwedNow, OwedNext
<1>8. QED
  BY <1>2, <1>5, <1>6, <1>7 DEF PS!Join, Members, Owed

\* A set of subscriptions that are no longer live has left.
LEMMA Leaves ==
    ASSUME IInv, IInv', NEW S \in SUBSET Subs, Live' = Live \ S, home' = home,
           UNCHANGED <<pub, stack, received>>
    PROVE  PS!Leave(S)
<1>1. /\ Members = [u \in Topics |-> {x \in Live : home[x] = u}]
      /\ Members' = [u \in Topics |-> {x \in Live' : home'[x] = u}]
  BY MembersBefore, MembersAfter DEF IInv
<1>2. Members' = [u \in Topics |-> Members[u] \ S]
  BY <1>1
<1>3. Owed' = Owed
  BY OwedNow, OwedNext
<1>4. QED
  BY <1>2, <1>3 DEF PS!Leave, Members, Owed

\* Unsubscribing is leaving, also when nothing is left to leave.
LEMMA UnsubscribeLeaves ==
    ASSUME IInv, IInv', NEW s \in Subs, Unsubscribe(s) PROVE PS!Leave({s})
<1>1. Len(pub) < StillIn /\ Len(pub) \in Nat /\ left \in [Subs -> 0..StillIn]
  BY BusAssumption DEF IInv, InFlightInv, TypeOK, StillIn
<1>2. /\ home' = home /\ UNCHANGED <<pub, stack, received>>
      /\ left' = [left EXCEPT ![s] = IF s \in Live THEN Len(pub) ELSE left[s]]
  BY DEF Unsubscribe
<1>3. Live' = Live \ {s}
  BY <1>1, <1>2, BusAssumption DEF Live, StillIn, Unsubscribe
<1>4. QED
  BY <1>2, <1>3, Leaves

\* Clearing is everybody's leaving.
LEMMA ClearLeaves ==
    ASSUME IInv, IInv', ClearAllSubscriptions PROVE PS!Leave(Subs)
<1>1. Len(pub) < StillIn /\ Len(pub) \in Nat
  BY BusAssumption DEF IInv, InFlightInv, TypeOK, StillIn
<1>2. /\ home' = home /\ UNCHANGED <<pub, stack, received>>
      /\ left' = [s \in Subs |-> IF s \in Live THEN Len(pub) ELSE left[s]]
  BY DEF ClearAllSubscriptions
<1>3. Live' = Live \ Subs
  BY <1>1, <1>2, BusAssumption DEF Live, StillIn
<1>4. QED
  BY <1>2, <1>3, Leaves

-------------------------------------------------------------------------------
\* Who is a member depends on the registry alone.
LEMMA MembersKept == UNCHANGED registry => Members' = Members
BY DEF registry, Members, ListOf

\* The head of a list without duplicates is the one that leaves it.
LEMMA HeadLeaves ==
    ASSUME NEW S, NEW l \in Seq(S), l # <<>>, OneEach(l)
    PROVE  Head(l) \in Range(l) /\ Range(Tail(l)) = Range(l) \ {Head(l)}
<1>1. /\ Len(l) \in Nat \ {0} /\ DOMAIN l = 1..Len(l) /\ DOMAIN Tail(l) = 1..(Len(l) - 1)
      /\ Head(l) = l[1] /\ \A i \in 1..(Len(l) - 1) : Tail(l)[i] = l[i + 1]
  OBVIOUS
<1>2. Head(l) \in Range(l)
  BY <1>1 DEF Range
<1>3. ASSUME NEW x \in Range(Tail(l)) PROVE x \in Range(l) \ {Head(l)}
  <2>1. PICK i \in 1..(Len(l) - 1) : l[i + 1] = x
    BY <1>1 DEF Range
  <2>2. i + 1 \in DOMAIN l /\ i + 1 # 1 /\ 1 \in DOMAIN l
    BY <1>1
  <2>3. QED
    BY <1>1, <2>1, <2>2 DEF Range, OneEach
<1>4. ASSUME NEW x \in Range(l), x # Head(l) PROVE x \in Range(Tail(l))
  <2>1. PICK i \in DOMAIN l : l[i] = x
    BY DEF Range
  <2>2. i # 1
    BY <1>1, <1>4, <2>1
  <2>3. i - 1 \in DOMAIN Tail(l) /\ Tail(l)[i - 1] = x
    BY <1>1, <2>1, <2>2
  <2>4. QED
    BY <2>3 DEF Range
<1>5. QED
  BY <1>2, <1>3, <1>4

\* The places from c on, when a of b places are left.
LEMMA PlaceBound ==
    ASSUME NEW a \in Nat, NEW b \in Nat, NEW c, c = b - a + 1, c \in 1..b, NEW j \in 1..a
    PROVE  c + j - 1 \in 1..b
<1>1. c \in Nat /\ j \in Nat /\ 1 <= c /\ c <= b /\ 1 <= j /\ j <= a
  OBVIOUS
<1>2. c + j - 1 \in Nat /\ c + j - 1 <= b /\ 1 <= c + j - 1
  BY <1>1
<1>3. QED
  BY <1>2

\* What a frame has still to call, each is there once.
LEMMA RestOnce ==
    ASSUME IInv, FanOutInv, NEW k \in Tasks, NEW i \in DOMAIN stack[k]
    PROVE  OneEach(stack[k][i].subs)
<1> DEFINE f == stack[k][i]
           p == pub[f.msg]
           c == Place(f, p)
<1>1. /\ f.msg \in DOMAIN pub /\ f.subs \in Seq(Subs) /\ Continues(k, f, p)
      /\ p \in Publication /\ c \in 1..Len(p.snap)
  BY FrameFacts DEF FanOutInv
<1>2. OneEach(p.snap) /\ p.snap \in Seq(Subs)
  BY <1>1 DEF FanOutInv, CallsInv, Publication
<1>3. c = Len(p.snap) - Len(f.subs) + 1
  BY DEF Place
<1>4. \A j \in DOMAIN f.subs : f.subs[j] = p.snap[c + j - 1]
  BY <1>1 DEF Continues
<1> HIDE DEF f, p, c
<1>5. Len(f.subs) \in Nat /\ Len(p.snap) \in Nat /\ c \in Nat /\ DOMAIN f.subs = 1..Len(f.subs)
      /\ DOMAIN p.snap = 1..Len(p.snap)
  BY <1>1, <1>2
<1>6. \A j \in DOMAIN f.subs : c + j - 1 \in DOMAIN p.snap
  <2> TAKE j \in DOMAIN f.subs
  <2>1. j \in 1..Len(f.subs) /\ c \in 1..Len(p.snap)
    BY <1>1, <1>5
  <2>2. PICK a \in Nat, b \in Nat : a = Len(f.subs) /\ b = Len(p.snap)
    BY <1>5
  <2>3. c = b - a + 1 /\ c \in 1..b /\ j \in 1..a
    BY <1>3, <2>1, <2>2
  <2> HIDE DEF f, p, c
  <2>4. c + j - 1 \in 1..b
    BY <2>2, <2>3, PlaceBound
  <2>5. QED
    BY <1>5, <2>2, <2>4
<1>7. ASSUME NEW a \in DOMAIN f.subs, NEW b \in DOMAIN f.subs, f.subs[a] = f.subs[b] PROVE a = b
  <2>1. c + a - 1 = c + b - 1
    BY <1>2, <1>4, <1>6, <1>7 DEF OneEach
  <2>2. QED
    BY <1>5, <2>1
<1>8. QED
  BY <1>7 DEF OneEach, f

\* A publish that calls its first handler as it begins, or ends with no handler to call.
LEMMA PublishIssues ==
    ASSUME IInv, FanOutInv, FanOutInv', NEW k \in Tasks, NEW t \in Topics, Publish(k, t)
    PROVE  PS!Next
<1> DEFINE m == Len(pub) + 1
           snap == ListOf(t)
<1>1. /\ m \in Msgs /\ m \notin DOMAIN pub /\ DOMAIN pub' = DOMAIN pub \union {m}
      /\ snap \in Seq(Subs) /\ OneEach(snap)
  BY PublishIs
<1>2. OneFrame(stack) /\ OneFrame(stack')
  BY OneFrameBefore, OneFrameAfter DEF FanOutInv
<1>3. Members' = Members
  BY MembersKept DEF Publish
<1>4. received \in [Subs -> Seq(Msgs)]
  BY DEF IInv, TypeOK
<1>5. \A q \in Tasks : \A i \in DOMAIN stack[q] : stack[q][i].msg # m
  BY <1>1, FrameFacts DEF FanOutInv
<1>6. Members[t] = Range(snap)
  BY DEF Members
<1>7. CASE snap = <<>>
  <2>1. UNCHANGED <<stack, received>>
    BY <1>7 DEF Publish
  <2>2. Members[t] = {} /\ OwedOn(stack, m) = {}
    BY <1>5, <1>6, <1>7, OwedOnNone DEF Range
  <2>3. Owed' = [Owed EXCEPT ![m] = Members[t] \ {}]
    BY <1>1, <2>1, <2>2, OwedNow, OwedNext
  <2>4. received' = [x \in Subs |-> IF x \in {} THEN Append(received[x], m) ELSE received[x]]
    BY <1>4, <2>1
  <2> HIDE DEF m
  <2>5. PS!Publish(m, t, {})
    BY <1>1, <1>3, <2>3, <2>4 DEF PS!Publish, Members, Owed
  <2>6. QED
    BY <1>1, <2>5 DEF PS!Next
<1>8. CASE snap # <<>>
  <2> DEFINE s == Head(snap)
             f == [msg |-> m, subs |-> snap]
  <2>1. stack' = [stack EXCEPT ![k] = Append(stack[k], f)] /\ Handed(s, m)
    BY <1>8 DEF Publish
  <2>2. f \in Frame /\ f.msg = m /\ f.subs = snap
    BY <1>1 DEF Frame
  <2>3. s \in Range(snap) /\ Range(Tail(snap)) = Range(snap) \ {s}
    BY <1>1, <1>8, HeadLeaves
  <2> HIDE DEF m, snap, s, f
  <2>4. /\ \A q \in Tasks : \A i \in DOMAIN stack[q] :
              i \in DOMAIN stack'[q] /\ stack'[q][i] = stack[q][i]
        /\ \A q \in Tasks : \A i \in DOMAIN stack'[q] :
              \/ i \in DOMAIN stack[q] /\ stack'[q][i] = stack[q][i]
              \/ q = k /\ i = Len(stack[k]) + 1 /\ stack'[q][i] = f
        /\ Len(stack[k]) + 1 \in DOMAIN stack'[k] /\ stack'[k][Len(stack[k]) + 1] = f
    BY <2>1, <2>2, FrameAdded
  <2>5. OwedOn(stack', m) = Members[t] \ {s}
    <3>1. OwedOn(stack', m) = Range(Tail(snap))
      BY <1>2, <2>2, <2>4, OwedOnFrame
    <3>2. QED
      BY <1>6, <2>3, <3>1
  <2>6. ASSUME NEW x \in Msgs, x # m PROVE OwedOn(stack', x) = OwedOn(stack, x)
    <3>1. /\ \A q \in Tasks : \A i \in DOMAIN stack[q] :
                stack[q][i].msg = x => i \in DOMAIN stack'[q] /\ stack'[q][i] = stack[q][i]
          /\ \A q \in Tasks : \A i \in DOMAIN stack'[q] :
                stack'[q][i].msg = x => i \in DOMAIN stack[q] /\ stack'[q][i] = stack[q][i]
      BY <2>2, <2>4, <2>6
    <3>2. QED
      BY <1>2, <3>1, OwedOnSame
  <2>7. Owed' = [Owed EXCEPT ![m] = Members[t] \ {s}]
    BY <1>1, <2>5, <2>6, OwedNow, OwedNext
  <2>8. received' = [x \in Subs |-> IF x \in {s} THEN Append(received[x], m) ELSE received[x]]
    BY <1>4, <2>1 DEF Handed
  <2>9. PS!Publish(m, t, {s})
    BY <1>1, <1>3, <2>7, <2>8 DEF PS!Publish, Members, Owed
  <2>10. s \in Members[t]
    BY <1>6, <2>3
  <2>11. QED
    BY <1>1, <2>9, <2>10 DEF PS!Next, Members
<1>9. QED
  BY <1>7, <1>8

\* A publish that returns owes nobody any more; one that is cancelled gives up.
LEMMA EndAbandons ==
    ASSUME IInv, FanOutInv, FanOutInv', NEW k \in Tasks, stack[k] # <<>>,
           UNCHANGED <<received, registry>>, stack' = [stack EXCEPT ![k] = Below(k)],
           DOMAIN pub' = DOMAIN pub
    PROVE  PS!Abandon(Top(k).msg) /\ Top(k).msg \in Msgs
<1> DEFINE m == Top(k).msg
<1>1. m \in Msgs
  BY TopFacts DEF FanOutInv
<1>2. OneFrame(stack) /\ OneFrame(stack')
  BY OneFrameBefore, OneFrameAfter DEF FanOutInv
<1>3. /\ \A q \in Tasks : \A i \in DOMAIN stack'[q] :
            i \in DOMAIN stack[q] /\ stack'[q][i] = stack[q][i] /\ stack[q][i].msg # m
      /\ \A q \in Tasks : \A i \in DOMAIN stack[q] :
            stack[q][i].msg # m => i \in DOMAIN stack'[q] /\ stack'[q][i] = stack[q][i]
  BY FrameRemoved DEF FanOutInv
<1> HIDE DEF m
<1>4. OwedOn(stack', m) = {}
  <2>1. \A q \in Tasks : \A i \in DOMAIN stack'[q] : stack'[q][i].msg # m
    BY <1>3
  <2>2. QED
    BY <2>1, OwedOnNone
<1>5. ASSUME NEW x \in Msgs, x # m PROVE OwedOn(stack', x) = OwedOn(stack, x)
  <2>1. \A q \in Tasks : \A i \in DOMAIN stack[q] :
           stack[q][i].msg = x => i \in DOMAIN stack'[q] /\ stack'[q][i] = stack[q][i]
    BY <1>3, <1>5
  <2>2. \A q \in Tasks : \A i \in DOMAIN stack'[q] :
           stack'[q][i].msg = x => i \in DOMAIN stack[q] /\ stack'[q][i] = stack[q][i]
    BY <1>3, <1>5
  <2> DEFINE st == stack
             su == stack'
  <2> HIDE DEF st, su
  <2>3. OneFrame(st) /\ OneFrame(su)
    BY <1>2 DEF st, su
  <2>4. \A q \in Tasks : \A i \in DOMAIN st[q] :
           st[q][i].msg = x => i \in DOMAIN su[q] /\ su[q][i] = st[q][i]
    BY <2>1 DEF st, su
  <2>5. \A q \in Tasks : \A i \in DOMAIN su[q] :
           su[q][i].msg = x => i \in DOMAIN st[q] /\ su[q][i] = st[q][i]
    BY <2>2 DEF st, su
  <2>6. OwedOn(su, x) = OwedOn(st, x)
    BY <2>3, <2>4, <2>5, OwedOnSame
  <2>7. QED
    BY <2>6 DEF st, su
<1>6. Owed' = [Owed EXCEPT ![m] = {}]
  BY <1>1, <1>4, <1>5, OwedNow, OwedNext
<1>7. Members' = Members
  BY MembersKept
<1>8. PS!Abandon(m)
  BY <1>6, <1>7 DEF PS!Abandon, Members, Owed
<1>9. QED
  BY <1>1, <1>8 DEF m

\* The loop hands the message to the next that it is owed to.
LEMMA NextDelivers ==
    ASSUME IInv, FanOutInv, FanOutInv', NEW k \in Tasks, stack[k] # <<>>,
           UNCHANGED <<pub, registry>>, Tail(Top(k).subs) # <<>>,
           stack' = [stack EXCEPT
              ![k] = Append(Below(k), [msg |-> Top(k).msg, subs |-> Tail(Top(k).subs)])],
           Handed(Head(Tail(Top(k).subs)), Top(k).msg)
    PROVE  PS!Next
<1> DEFINE m    == Top(k).msg
           old  == Top(k).subs
           rest == Tail(old)
           f    == [msg |-> m, subs |-> rest]
           s    == Head(rest)
           n    == Len(stack[k])
<1>1. /\ n \in DOMAIN stack[k] /\ Top(k) = stack[k][n] /\ m \in Msgs
      /\ old \in Seq(Subs) /\ old # <<>>
  BY TopFacts DEF FanOutInv
<1>2. rest \in Seq(Subs) /\ rest # <<>> /\ Handed(s, m)
  BY <1>1
<1>3. OneEach(rest)
  <2>1. OneEach(old)
    BY <1>1, RestOnce
  <2>2. /\ Len(old) \in Nat \ {0} /\ DOMAIN old = 1..Len(old) /\ DOMAIN rest = 1..(Len(old) - 1)
        /\ \A i \in 1..(Len(old) - 1) : rest[i] = old[i + 1]
    BY <1>1
  <2> HIDE DEF old, rest
  <2>3. ASSUME NEW a \in DOMAIN rest, NEW b \in DOMAIN rest, rest[a] = rest[b] PROVE a = b
    <3>1. a + 1 \in DOMAIN old /\ b + 1 \in DOMAIN old /\ old[a + 1] = old[b + 1]
      BY <2>2, <2>3
    <3>2. a + 1 = b + 1
      BY <2>1, <3>1 DEF OneEach
    <3>3. QED
      BY <2>2, <3>2
  <2>4. QED
    BY <2>3 DEF OneEach
<1>4. f \in Frame /\ f.msg = m /\ f.subs = rest
  BY <1>1, <1>2 DEF Frame
<1>5. stack' = [stack EXCEPT ![k] = Append(Below(k), f)]
  OBVIOUS
<1>6. s \in Range(rest) /\ Range(Tail(rest)) = Range(rest) \ {s} /\ Range(rest) \subseteq Subs
  <2> HIDE DEF rest
  <2>1. Range(rest) \subseteq Subs
    BY <1>2 DEF Range
  <2>2. Head(rest) \in Range(rest) /\ Range(Tail(rest)) = Range(rest) \ {Head(rest)}
    BY <1>2, <1>3, HeadLeaves
  <2>3. QED
    BY <2>1, <2>2
<1>7. OneFrame(stack) /\ OneFrame(stack')
  BY OneFrameBefore, OneFrameAfter DEF FanOutInv
<1> HIDE DEF f
<1>8. /\ stack'[k][n] = f
      /\ \A q \in Tasks : DOMAIN stack'[q] = DOMAIN stack[q]
      /\ \A q \in Tasks : \A i \in DOMAIN stack[q] : ~(q = k /\ i = n) =>
            stack'[q][i] = stack[q][i] /\ stack[q][i].msg # m
  BY <1>4, <1>5, FrameMoved DEF FanOutInv
<1>9. OwedOn(stack, m) = Range(rest)
  BY <1>1, <1>7, OwedOnFrame
<1> HIDE DEF m, old, rest, s, n
<1>10. OwedOn(stack', m) = Range(rest) \ {s}
  <2>1. n \in DOMAIN stack'[k] /\ stack'[k][n].msg = m /\ stack'[k][n].subs = rest
    BY <1>1, <1>4, <1>8
  <2>2. OwedOn(stack', m) = Range(Tail(rest))
    BY <1>7, <2>1, OwedOnFrame
  <2>3. QED
    BY <1>6, <2>2
<1>11. ASSUME NEW x \in Msgs, x # m PROVE OwedOn(stack', x) = OwedOn(stack, x)
  <2>1. stack[k][n].msg = m /\ stack'[k][n].msg = m
    BY <1>1, <1>4, <1>8 DEF m
  <2> DEFINE st == stack
             su == stack'
  <2>2. \A q \in Tasks : \A i \in DOMAIN stack[q] :
           stack[q][i].msg = x => i \in DOMAIN stack'[q] /\ stack'[q][i] = stack[q][i]
    BY <1>8, <1>11, <2>1
  <2>3. \A q \in Tasks : \A i \in DOMAIN stack'[q] :
           stack'[q][i].msg = x => i \in DOMAIN stack[q] /\ stack'[q][i] = stack[q][i]
    BY <1>8, <1>11, <2>1
  <2> HIDE DEF st, su
  <2>4. OneFrame(st) /\ OneFrame(su)
    BY <1>7 DEF st, su
  <2>5. \A q \in Tasks : \A i \in DOMAIN st[q] :
           st[q][i].msg = x => i \in DOMAIN su[q] /\ su[q][i] = st[q][i]
    BY <2>2 DEF st, su
  <2>6. \A q \in Tasks : \A i \in DOMAIN su[q] :
           su[q][i].msg = x => i \in DOMAIN st[q] /\ su[q][i] = st[q][i]
    BY <2>3 DEF st, su
  <2>7. OwedOn(su, x) = OwedOn(st, x)
    BY <2>4, <2>5, <2>6, OwedOnSame
  <2>8. QED
    BY <2>7 DEF st, su
<1>12. Owed[m] = Range(rest) /\ Owed' = [Owed EXCEPT ![m] = Owed[m] \ {s}]
  BY <1>1, <1>9, <1>10, <1>11, OwedNow, OwedNext
<1>13. Members' = Members
  BY MembersKept
<1>14. received' = [received EXCEPT ![s] = Append(received[s], m)]
  BY <1>2 DEF Handed
<1>15. PS!Deliver(m, s)
  BY <1>6, <1>12, <1>13, <1>14 DEF PS!Deliver, Members, Owed
<1>16. QED
  BY <1>1, <1>6, <1>15 DEF PS!Next

\* A handler that returns or raises: the next delivery, or the end.
LEMMA AdvanceImplements ==
    ASSUME IInv, FanOutInv, FanOutInv', NEW k \in Tasks, stack[k] # <<>>, UNCHANGED registry,
           Advance(k)
    PROVE  PS!Next
<1>1. CASE Tail(Top(k).subs) = <<>>
  <2>1. /\ UNCHANGED received /\ stack' = [stack EXCEPT ![k] = Below(k)]
        /\ DOMAIN pub' = DOMAIN pub
    BY <1>1 DEF Advance
  <2>2. QED
    BY <2>1, EndAbandons DEF PS!Next
<1>2. CASE Tail(Top(k).subs) # <<>>
  BY <1>2, NextDelivers DEF Advance
<1>3. QED
  BY <1>1, <1>2

\* Every step of the bus is a step of the topic bus, or none.
LEMMA StepImplements ==
    ASSUME IInv, FanOutInv, IInv', FanOutInv', [Next]_vars
    PROVE  [PS!Next]_(PS!vars)
<1>1. ASSUME NEW s \in Subs, NEW t \in Topics, Subscribe(s, t) PROVE PS!Next
  BY <1>1, SubscribeJoins DEF PS!Next
<1>2. ASSUME NEW s \in Subs, Unsubscribe(s) PROVE PS!Next
  BY <1>2, UnsubscribeLeaves DEF PS!Next
<1>3. ASSUME ClearAllSubscriptions PROVE PS!Next
  BY <1>3, ClearLeaves DEF PS!Next
<1>4. ASSUME NEW k \in Tasks, NEW t \in Topics, Publish(k, t) PROVE PS!Next
  BY <1>4, PublishIssues
<1>5. ASSUME NEW k \in Tasks, HandlerReturns(k) \/ HandlerRaises(k) PROVE PS!Next
  BY <1>5, AdvanceImplements DEF HandlerReturns, HandlerRaises
<1>6. ASSUME NEW k \in Tasks, HandlerCancelled(k) PROVE PS!Next
  <2>1. /\ stack[k] # <<>> /\ UNCHANGED <<received, registry>>
        /\ stack' = [stack EXCEPT ![k] = Below(k)] /\ DOMAIN pub' = DOMAIN pub
    BY <1>6 DEF HandlerCancelled
  <2>2. QED
    BY <2>1, EndAbandons DEF PS!Next
<1>7. CASE ResetMetrics \/ UNCHANGED vars
  <2>1. UNCHANGED <<registry, stack, pub, received>>
    BY <1>7 DEF ResetMetrics, vars
  <2>2. Members' = Members /\ Owed' = Owed
    BY <2>1, MembersKept, OwedNow, OwedNext
  <2>3. QED
    BY <2>1, <2>2 DEF PS!vars, Members, Owed
<1>8. QED
  BY <1>1, <1>2, <1>3, <1>4, <1>5, <1>6, <1>7 DEF Next

\* The bus begins as the topic bus does.
LEMMA InitImplements == Init => PS!Init
<1> SUFFICES ASSUME Init PROVE PS!Init
  OBVIOUS
<1>1. Members = [t \in Topics |-> {}]
  BY DEF Init, Members, ListOf, Range
<1>2. Owed = [m \in Msgs |-> {}]
  <2>1. \A m \in Msgs : OwedOn(stack, m) = {}
    BY OwedOnNone DEF Init
  <2>2. QED
    BY <2>1, OwedNow
<1>3. DOMAIN pub = {} /\ received = [s \in Subs |-> <<>>]
  BY DEF Init
<1>4. QED
  BY <1>1, <1>2, <1>3 DEF PS!Init, Members, Owed

\* The bus keeps the promise of a topic bus: a message is owed to exactly the subscriptions
\* its topic had when it was published, and each of them is handed it at most once.
THEOREM ImplementsTopicBus == Spec => ImplementsPubSub
<1>1. IInv /\ FanOutInv /\ (IInv /\ FanOutInv)' /\ [Next]_vars => [PS!Next]_(PS!vars)
  BY StepImplements
<1>2. QED
  BY <1>1, InitImplements, FanOutInductive, PTL DEF Spec, ImplementsPubSub, PS!Spec
===============================================================================
