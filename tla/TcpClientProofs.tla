---------------------------- MODULE TcpClientProofs ----------------------------
(***************************************************************************)
(* The TCP client and the server's bookkeeping for it, for any number of   *)
(* subscriptions, topics and messages.  What the server knows lags behind  *)
(* by the requests it has not read: the invariant says what its entries    *)
(* will be after each of them.                                             *)
(***************************************************************************)
EXTENDS TcpClient, ListsProofs

Requests == [action : {"publish", "subscribe", "unsubscribe"}, topic : Topics, n : Nat,
             sub : SUBSET Subs]
Messages == [topic : Topics, n : 1..MaxMsgs, due : SUBSET Subs]

ChannelsOK ==
    /\ requests \in Seq(Requests) /\ incoming \in Seq(Messages)
    /\ at = "handling" => current \in Messages
    /\ current.n \in Nat /\ current.n <= published

\* A subscription that is made and not given up is in one list, and there once; a topic
\* whose subscriptions have not been two at a time has one at most; and one whose last
\* unsubscribe left handlers still has some.
HandlersInv ==
    /\ \A t \in Topics : IsInjective(handlers[t]) /\ Range(handlers[t]) \subseteq made \ left
    /\ \A t, u \in Topics : t # u => Range(handlers[t]) \cap Range(handlers[u]) = {}
    /\ \A t \in Topics : t \notin shared => Len(handlers[t]) <= 1
    /\ \A t \in silenced : handlers[t] # <<>>

\* The reader calls each handler of its snapshot once, and what it calls late it does not
\* call again.
SnapshotInv ==
    /\ IsInjective(todo)
    /\ \A s \in Subs : /\ late[s] \in {0, 1}
                       /\ s \notin left => late[s] = 0
                       /\ late[s] = 1 => s \notin Range(todo)

\* A message is in one place: asked to be published, on its way to the client, or with the
\* reader.  Only one of a topic whose subscriptions have been two at a time comes twice.
AskedOnce ==
    \A i \in DOMAIN requests : requests[i].action = "publish" =>
        /\ requests[i].n \in 1..published
        /\ requests[i].n # current.n /\ \A s \in Subs : requests[i].n \notin got[s]
        /\ \A j \in DOMAIN incoming : requests[i].n # incoming[j].n
        /\ \A j \in DOMAIN requests :
              requests[j].action = "publish" /\ requests[j].n = requests[i].n => i = j
NoneAhead ==
    /\ \A i \in DOMAIN incoming : incoming[i].n <= published
    /\ \A s \in Subs : \A n \in got[s] : n <= published
SentOnce ==
    \A i \in DOMAIN incoming : incoming[i].topic \notin shared =>
        /\ incoming[i].n # current.n /\ \A s \in Subs : incoming[i].n \notin got[s]
        /\ \A j \in DOMAIN incoming : incoming[j].n = incoming[i].n => i = j
CalledOnce ==
    /\ current.topic \notin shared => \A s \in Range(todo) : current.n \notin got[s]
    /\ twice \subseteq shared
OncePublished == AskedOnce /\ NoneAhead /\ SentOnce /\ CalledOnce

\* The server's entries after it has handled a request.
Counted(e, request) ==
    [e EXCEPT ![request.topic] =
        IF request.action = "subscribe" THEN @ + 1
        ELSE IF request.action = "unsubscribe" THEN 0 ELSE @]

\* f has the server's entries now and after each of the requests it has not read yet.
Foresees(f) ==
    /\ f \in [0..Len(requests) -> [Topics -> Nat]]
    /\ f[0] = entries
    /\ \A i \in 1..Len(requests) : f[i] = Counted(f[i - 1], requests[i])

\* What they are to be in the end, and never more than.
Agreed(e) == \A t \in Topics : t \notin silenced => e[t] = Len(handlers[t])
AtMostOnce(e) == \A t \in Topics : t \notin shared => e[t] <= 1

EntriesInv ==
    \E f : /\ Foresees(f)
           /\ \A i \in 0..Len(requests) : AtMostOnce(f[i])
           /\ conn = "up" /\ closing # "done" => Agreed(f[Len(requests)])

Inv == TypeOK /\ ChannelsOK /\ HandlersInv /\ SnapshotInv /\ OncePublished /\ EntriesInv

-------------------------------------------------------------------------------
(* Types *)

\* No message is none of those that are published.
LEMMA NothingType == Nothing.n = 0
BY DEF Nothing

\* A request is added at the end of the channel, or is lost.
LEMMA WritesSound ==
    ASSUME requests \in Seq(Requests), NEW r \in Requests, Writes(r)
    PROVE  /\ requests' \in Seq(Requests)
           /\ \/ requests' = requests /\ (conn # "up" \/ closing = "done")
              \/ /\ conn = "up" /\ closing # "done" /\ requests' = Append(requests, r)
                 /\ Len(requests') = Len(requests) + 1 /\ requests'[Len(requests')] = r
                 /\ \A i \in 1..Len(requests) : requests'[i] = requests[i]
BY DEF Writes

\* Requests are of the type that the channel carries.
LEMMA RequestTypes ==
    ASSUME NEW t \in Topics, NEW n \in Nat, NEW sub \in SUBSET Subs
    PROVE  /\ Request("publish", t, n, sub) \in Requests
           /\ Request("subscribe", t, n, sub) \in Requests
           /\ Request("unsubscribe", t, n, sub) \in Requests
BY DEF Request, Requests

\* The copies of a message, all alike, as many as the connection is listed.
LEMMA CopiesSound ==
    ASSUME TypeOK, NEW t \in Topics, NEW n \in 1..MaxMsgs
    PROVE  /\ Copies(t, n) \in Seq(Messages) /\ Len(Copies(t, n)) = entries[t]
           /\ \A i \in 1..entries[t] : Copies(t, n)[i].topic = t /\ Copies(t, n)[i].n = n
<1> DEFINE due == Range(handlers[t]) \ UNION {requests[i].sub : i \in DOMAIN requests}
<1>1. entries[t] \in Nat /\ due \subseteq Subs
  BY DEF TypeOK, Range
<1>2. Copies(t, n) = [i \in 1..entries[t] |-> [topic |-> t, n |-> n, due |-> due]]
  BY DEF Copies
<1> HIDE DEF due
<1>3. [topic |-> t, n |-> n, due |-> due] \in Messages
  BY <1>1 DEF Messages
<1>4. QED
  BY <1>1, <1>2, <1>3

\* So is what the server forwards, in the other channel.
LEMMA ForwardType ==
    ASSUME TypeOK, ChannelsOK, NEW t \in Topics, NEW n \in 1..MaxMsgs, Forward(t, n)
    PROVE  incoming' \in Seq(Messages)
BY CopiesSound DEF Forward, ChannelsOK

\* The types of what is read, and of what is left then.
LEMMA HeadTypes ==
    ASSUME ChannelsOK
    PROVE  /\ requests # <<>> => Head(requests) \in Requests /\ Tail(requests) \in Seq(Requests)
           /\ incoming # <<>> => Head(incoming) \in Messages /\ Tail(incoming) \in Seq(Messages)
BY DEF ChannelsOK

\* TypeOK's parts about the two channels follow from the types of what is in them.
LEMMA TypeParts ==
    ASSUME requests' \in Seq(Requests), incoming' \in Seq(Messages),
           handlers' \in [Topics -> Seq(Subs)],
           at' \in {"reading", "handling", "ended"}, todo' \in Seq(Subs),
           closing' \in {"no", "wanted", "done"}, conn' \in {"up", "gone"},
           entries' \in [Topics -> Nat], published' \in 0..MaxMsgs,
           left' \subseteq made', made' \subseteq Subs,
           shared' \subseteq Topics, silenced' \subseteq Topics, extra' \in 0..MaxExtra,
           got' \in [Subs -> SUBSET (1..MaxMsgs)], late' \in [Subs -> Nat]
    PROVE  TypeOK'
<1>1. ASSUME NEW i \in DOMAIN requests'
      PROVE  requests'[i].action \in {"publish", "subscribe", "unsubscribe"}
  <2>1. requests'[i] \in Requests
    OBVIOUS
  <2>2. QED
    BY <2>1 DEF Requests
<1>2. ASSUME NEW i \in DOMAIN incoming' PROVE incoming'[i].n \in 1..MaxMsgs
  <2>1. incoming'[i] \in Messages
    OBVIOUS
  <2>2. QED
    BY <2>1 DEF Messages
<1>3. QED
  BY <1>1, <1>2 DEF TypeOK

\* At first the channels are empty.
LEMMA InitTypes == Init => TypeOK /\ ChannelsOK
<1> SUFFICES ASSUME Init PROVE TypeOK /\ ChannelsOK
  OBVIOUS
<1>1. <<>> \in Seq(Subs) /\ <<>> \in Seq(Requests) /\ <<>> \in Seq(Messages)
  OBVIOUS
<1>2. ChannelsOK
  BY <1>1, NothingType DEF Init, ChannelsOK
<1>3. TypeOK
  BY <1>1, ClientAssumption DEF Init, TypeOK
<1>4. QED
  BY <1>2, <1>3

\* Every step keeps the types and what the channels carry.
LEMMA StepTypes ==
    ASSUME TypeOK, ChannelsOK, HandlersInv, OncePublished, [Next]_vars
    PROVE  TypeOK' /\ ChannelsOK'
<1> USE ClientAssumption
<1>1. ASSUME NEW t \in Topics, Publish(t) PROVE TypeOK' /\ ChannelsOK'
  <2>1. Request("publish", t, published + 1, {}) \in Requests
    <3>1. published + 1 \in Nat /\ {} \in SUBSET Subs
      BY DEF TypeOK
    <3>2. QED
      BY <3>1, RequestTypes
  <2>2. requests' \in Seq(Requests) /\ published' \in 0..MaxMsgs /\ published' = published + 1
    BY <1>1, <2>1, WritesSound DEF Publish, TypeOK, ChannelsOK
  <2>3. UNCHANGED <<handlers, at, todo, current, closing, incoming, entries, conn, made, left, shared, silenced, extra, got, late>>
    BY <1>1 DEF Publish, reader, history
  <2>4. TypeOK'
    BY <2>2, <2>3, TypeParts DEF TypeOK, ChannelsOK
  <2>5. QED
    BY <2>2, <2>3, <2>4 DEF ChannelsOK, TypeOK
<1>2. ASSUME NEW t \in Topics, OthersPublish(t) PROVE TypeOK' /\ ChannelsOK'
  <2>1. published' \in 1..MaxMsgs /\ published' = published + 1
    BY <1>2 DEF OthersPublish, TypeOK
  <2>2. incoming' \in Seq(Messages)
    BY <1>2, <2>1, ForwardType DEF OthersPublish
  <2>3. UNCHANGED <<handlers, at, todo, current, closing, requests, entries, conn, made, left, shared, silenced, extra, got, late>>
    BY <1>2 DEF OthersPublish, reader, history
  <2>4. TypeOK'
    BY <2>1, <2>2, <2>3, TypeParts DEF TypeOK, ChannelsOK
  <2>5. QED
    BY <2>1, <2>2, <2>3, <2>4 DEF ChannelsOK, TypeOK
<1>3. ASSUME NEW s \in Subs, NEW t \in Topics, Subscribe(s, t) PROVE TypeOK' /\ ChannelsOK'
  <2>1. Request("subscribe", t, 0, {s}) \in Requests
    BY RequestTypes
  <2>2. requests' \in Seq(Requests)
    BY <1>3, <2>1, WritesSound DEF Subscribe, ChannelsOK
  <2>3. Append(handlers[t], s) \in Seq(Subs)
    BY DEF TypeOK
  <2>4. handlers' \in [Topics -> Seq(Subs)]
    BY <1>3, <2>3 DEF Subscribe, TypeOK
  <2>5. /\ UNCHANGED <<at, todo, current, closing, incoming, entries, conn, published, left, silenced, extra, got, late>>
        /\ made' = made \union {s} /\ shared' \subseteq Topics
    BY <1>3 DEF Subscribe, reader, TypeOK
  <2>6. TypeOK'
    BY <2>2, <2>4, <2>5, TypeParts DEF TypeOK, ChannelsOK
  <2>7. QED
    BY <2>2, <2>5, <2>6 DEF ChannelsOK
<1>4. ASSUME NEW s \in Subs, SubscribeRaises(s) PROVE TypeOK' /\ ChannelsOK'
  BY <1>4 DEF SubscribeRaises, TypeOK, ChannelsOK, reader, connection, history
<1>5. ASSUME NEW s \in Subs, NEW t \in Topics, Unsubscribe(s, t) PROVE TypeOK' /\ ChannelsOK'
  <2>1. Request("unsubscribe", t, 0, {}) \in Requests
    BY RequestTypes
  <2>2. requests' \in Seq(Requests)
    BY <1>5, <2>1, WritesSound DEF Unsubscribe, ChannelsOK
  <2>3. Without(handlers[t], s) \in Seq(Subs)
    BY WithoutSound DEF TypeOK
  <2>4. handlers' \in [Topics -> Seq(Subs)]
    BY <1>5, <2>3 DEF Unsubscribe, Drop, TypeOK
  <2>5. /\ UNCHANGED <<at, todo, current, closing, incoming, entries, conn, published, made, shared, got, late>>
    BY <1>5 DEF Unsubscribe, reader
  <2>6. left' \subseteq made'
    BY <1>5, <2>5 DEF Unsubscribe, HandlersInv, TypeOK
  <2>7. silenced' \subseteq Topics /\ extra' \in 0..MaxExtra
    BY <1>5 DEF Unsubscribe, TypeOK
  <2>8. TypeOK'
    BY <2>2, <2>4, <2>5, <2>6, <2>7, TypeParts DEF ChannelsOK, TypeOK
  <2>9. QED
    BY <2>2, <2>5, <2>8 DEF ChannelsOK
<1>6. CASE Close \/ CloseReturns
  BY <1>6 DEF Close, CloseReturns, TypeOK, ChannelsOK, reader, connection, history
<1>7. CASE Reads
  <2>1. /\ Head(incoming) \in Messages /\ Tail(incoming) \in Seq(Messages)
        /\ Head(incoming) = incoming[1] /\ 1 \in DOMAIN incoming
    BY <1>7, HeadTypes DEF Reads, ChannelsOK
  <2>2. /\ current' = Head(incoming) /\ incoming' = Tail(incoming) /\ at' = "handling"
        /\ todo' = handlers[Head(incoming).topic]
        /\ UNCHANGED <<handlers, closing, requests, entries, conn, published, made, left, shared, silenced, extra, got, late>>
    BY <1>7 DEF Reads, history
  <2>3. todo' \in Seq(Subs)
    BY <2>1, <2>2 DEF TypeOK, Messages
  <2>4. current'.n \in Nat /\ current'.n <= published
    BY <2>1, <2>2 DEF OncePublished, NoneAhead, Messages
  <2>5. QED
    BY <2>1, <2>2, <2>3, <2>4, TypeParts DEF ChannelsOK, TypeOK
<1>8. CASE ReadsEnd
  BY <1>8 DEF ReadsEnd, TypeOK, ChannelsOK, connection, history
<1>9. CASE Call
  <2>1. Head(todo) \in Subs /\ Tail(todo) \in Seq(Subs) /\ current.n \in 1..MaxMsgs
    BY <1>9 DEF Call, TypeOK, ChannelsOK, Messages
  <2>2. /\ todo' = Tail(todo)
        /\ got' = [got EXCEPT ![Head(todo)] = got[Head(todo)] \union {current.n}]
        /\ late' = [late EXCEPT ![Head(todo)] = IF Head(todo) \in left THEN late[Head(todo)] + 1 ELSE late[Head(todo)]]
        /\ UNCHANGED <<handlers, at, current, closing, requests, incoming, entries, conn, published, made, left, shared, silenced, extra>>
    BY <1>9 DEF Call, connection
  <2>3. got' \in [Subs -> SUBSET (1..MaxMsgs)] /\ late' \in [Subs -> Nat]
    BY <2>1, <2>2 DEF TypeOK
  <2>4. QED
    BY <2>1, <2>2, <2>3, TypeParts DEF ChannelsOK, TypeOK
<1>10. CASE Handled
  BY <1>10, NothingType DEF Handled, TypeOK, ChannelsOK, connection, history
<1>11. CASE ServerReads
  <2> DEFINE request == Head(requests)
  <2>1. /\ request \in Requests /\ Tail(requests) \in Seq(Requests)
        /\ request = requests[1] /\ 1 \in DOMAIN requests
    BY <1>11, HeadTypes DEF ServerReads, ChannelsOK
  <2>2. /\ requests' = Tail(requests) /\ entries' = EntriesAfter(request)
        /\ UNCHANGED <<handlers, at, todo, current, closing, conn, published, made, left, shared, silenced, extra, got, late>>
    BY <1>11 DEF ServerReads, reader, history
  <2>3. incoming' \in Seq(Messages)
    <3>1. CASE request.action = "publish"
      <4>1. request.n \in 1..MaxMsgs /\ request.topic \in Topics
        BY <2>1, <3>1 DEF OncePublished, AskedOnce, TypeOK, Requests
      <4>2. Forward(request.topic, request.n)
        BY <1>11, <3>1 DEF ServerReads
      <4>3. QED
        BY <4>1, <4>2, ForwardType
    <3>2. CASE request.action # "publish"
      BY <1>11, <3>2 DEF ServerReads, ChannelsOK
    <3>3. QED
      BY <3>1, <3>2
  <2>4. entries' \in [Topics -> Nat]
    BY <2>1, <2>2 DEF EntriesAfter, TypeOK, Requests
  <2>5. QED
    BY <2>1, <2>2, <2>3, <2>4, TypeParts DEF ChannelsOK, TypeOK
<1>12. CASE ServerGoes
  <2>1. /\ requests' = <<>> /\ entries' = [t \in Topics |-> 0] /\ conn' = "gone"
        /\ UNCHANGED <<handlers, at, todo, current, closing, published, made, left, shared, silenced, extra, got, late>>
    BY <1>12 DEF ServerGoes, reader, history
  <2>2. PICK k \in 0..Len(incoming) : incoming' = SubSeq(incoming, 1, k)
    BY <1>12 DEF ServerGoes
  <2>3. incoming' \in Seq(Messages)
    BY <2>2 DEF ChannelsOK
  <2>4. requests' \in Seq(Requests)
    BY <2>1
  <2>5. QED
    BY <2>1, <2>3, <2>4, TypeParts DEF ChannelsOK, TypeOK
<1>13. CASE UNCHANGED vars
  BY <1>13 DEF vars, TypeOK, ChannelsOK, reader, connection, history
<1>14. QED
  BY <1>1, <1>2, <1>3, <1>4, <1>5, <1>6, <1>7, <1>8, <1>9, <1>10, <1>11, <1>12, <1>13
  DEF Next, ReaderStep

-------------------------------------------------------------------------------
(* The lists of handlers *)

\* A topic without a list has no handlers.
LEMMA EmptyList ==
    ASSUME NEW S, NEW list \in Seq(S), Range(list) = {}
    PROVE  list = <<>> /\ Len(list) = 0
<1>1. list # <<>> => 1 \in DOMAIN list
  OBVIOUS
<1>2. QED
  BY <1>1 DEF Range

\* A list of one has one at most when items are taken out.
LEMMA ShortStays ==
    ASSUME NEW S, NEW list \in Seq(S), NEW s, Len(list) <= 1
    PROVE  Len(Without(list, s)) <= 1
<1> DEFINE w == Without(list, s)
<1>1. \A i, j \in DOMAIN list : i = j
  OBVIOUS
<1>2. IsInjective(list)
  BY <1>1 DEF IsInjective
<1>3. w \in Seq(S) /\ IsInjective(w) /\ Range(w) \subseteq Range(list)
  BY <1>2, WithoutSound
<1> HIDE DEF w
<1>4. SUFFICES ASSUME Len(w) > 1 PROVE FALSE
  BY <1>3 DEF w
<1>5. 1 \in DOMAIN w /\ 2 \in DOMAIN w
  BY <1>3, <1>4
<1>6. w[1] \in Range(list) /\ w[2] \in Range(list)
  <2>1. w[1] \in Range(w) /\ w[2] \in Range(w)
    BY <1>5 DEF Range
  <2>2. QED
    BY <1>3, <2>1
<1>7. w[1] = w[2]
  <2>1. PICK i \in DOMAIN list : w[1] = list[i]
    BY <1>6 DEF Range
  <2>2. PICK j \in DOMAIN list : w[2] = list[j]
    BY <1>6 DEF Range
  <2>3. QED
    BY <1>1, <2>1, <2>2
<1>8. QED
  BY <1>3, <1>5, <1>7 DEF IsInjective

\* A new handler is listed once,
LEMMA SubscribeHandlers ==
    ASSUME TypeOK, HandlersInv, NEW s \in Subs, NEW t \in Topics, Subscribe(s, t)
    PROVE  HandlersInv'
<1>1. /\ handlers' = [handlers EXCEPT ![t] = Append(handlers[t], s)]
      /\ s \notin made /\ made' = made \union {s} /\ left' = left /\ silenced' = silenced
      /\ shared' = IF handlers[t] = <<>> THEN shared ELSE shared \union {t}
  BY DEF Subscribe
<1>2. handlers[t] \in Seq(Subs) /\ handlers \in [Topics -> Seq(Subs)] /\ left \subseteq made
  BY DEF TypeOK
<1>3. handlers'[t] = Append(handlers[t], s) /\ \A u \in Topics : u # t => handlers'[u] = handlers[u]
  BY <1>1, <1>2
<1>4. /\ IsInjective(handlers'[t]) /\ Range(handlers'[t]) = Range(handlers[t]) \union {s}
      /\ Len(handlers'[t]) = Len(handlers[t]) + 1
  BY <1>1, <1>2, <1>3, AppendSound DEF HandlersInv
<1>5. \A u \in Topics : IsInjective(handlers'[u]) /\ Range(handlers'[u]) \subseteq made' \ left'
  BY <1>1, <1>2, <1>3, <1>4 DEF HandlersInv
<1>6. \A u, v \in Topics : u # v => Range(handlers'[u]) \cap Range(handlers'[v]) = {}
  BY <1>1, <1>2, <1>3, <1>4 DEF HandlersInv
<1>7. \A u \in Topics : u \notin shared' => Len(handlers'[u]) <= 1
  <2>1. t \notin shared' => Len(handlers'[t]) = 1
    BY <1>1, <1>4
  <2>2. QED
    BY <1>1, <1>3, <2>1 DEF HandlersInv
<1>8. handlers'[t] # <<>>
  BY <1>2, <1>3
<1>9. \A u \in silenced' : handlers'[u] # <<>>
  BY <1>1, <1>3, <1>8 DEF HandlersInv, TypeOK
<1>10. QED
  BY <1>5, <1>6, <1>7, <1>9 DEF HandlersInv

\* and one that goes is not listed any more.
LEMMA UnsubscribeHandlers ==
    ASSUME TypeOK, HandlersInv, NEW s \in Subs, NEW t \in Topics, Unsubscribe(s, t)
    PROVE  HandlersInv'
<1>1. /\ handlers' = [handlers EXCEPT ![t] = Without(handlers[t], s)]
      /\ \A u \in Topics \ {t} : s \notin Range(handlers[u])
      /\ left' \subseteq left \union {s} /\ made' = made /\ shared' = shared
      /\ silenced' = IF Range(handlers[t]) \subseteq {s} THEN silenced \ {t}
                                                       ELSE silenced \union {t}
  BY DEF Unsubscribe, Drop
<1>2. handlers[t] \in Seq(Subs) /\ handlers \in [Topics -> Seq(Subs)]
  BY DEF TypeOK
<1>3. handlers'[t] = Without(handlers[t], s) /\ \A u \in Topics : u # t => handlers'[u] = handlers[u]
  BY <1>1, <1>2
<1>4. IsInjective(handlers'[t]) /\ Range(handlers'[t]) = Range(handlers[t]) \ {s}
  BY <1>1, <1>2, <1>3, WithoutSound DEF HandlersInv
<1>5. \A u \in Topics : IsInjective(handlers'[u]) /\ Range(handlers'[u]) \subseteq made' \ left'
  BY <1>1, <1>3, <1>4 DEF HandlersInv
<1>6. \A u, v \in Topics : u # v => Range(handlers'[u]) \cap Range(handlers'[v]) = {}
  BY <1>3, <1>4 DEF HandlersInv
<1>7. \A u \in Topics : u \notin shared' => Len(handlers'[u]) <= 1
  <2>1. t \notin shared => Len(handlers'[t]) <= 1
    BY <1>2, <1>3, ShortStays DEF HandlersInv
  <2>2. QED
    BY <1>1, <1>3, <2>1 DEF HandlersInv
<1>8. \A u \in silenced' : handlers'[u] # <<>>
  <2>1. t \in silenced' => Range(handlers'[t]) # {}
    BY <1>1, <1>4
  <2>2. Range(<<>>) = {}
    BY DEF Range
  <2>3. QED
    BY <1>1, <1>3, <2>1, <2>2 DEF HandlersInv, TypeOK
<1>9. QED
  BY <1>5, <1>6, <1>7, <1>8 DEF HandlersInv

\* Every step keeps the lists of handlers.
LEMMA StepHandlers ==
    ASSUME TypeOK, HandlersInv, [Next]_vars
    PROVE  HandlersInv'
<1>1. ASSUME NEW s \in Subs, SubscribeRaises(s) PROVE HandlersInv'
  <2>1. UNCHANGED <<handlers, left, shared, silenced>> /\ made' = made \union {s}
    BY <1>1 DEF SubscribeRaises, history
  <2>2. QED
    BY <2>1 DEF HandlersInv
<1>2. UNCHANGED <<handlers, made, left, shared, silenced>> => HandlersInv'
  BY DEF HandlersInv
<1>3. CASE \/ \E t \in Topics : Publish(t) \/ OthersPublish(t)
           \/ Close \/ CloseReturns \/ ReaderStep \/ ServerReads \/ ServerGoes
           \/ UNCHANGED vars
  <2>1. UNCHANGED <<handlers, made, left, shared, silenced>>
    BY <1>3 DEF Publish, OthersPublish, Close, CloseReturns, ReaderStep, Reads, ReadsEnd, Call,
                Handled, ServerReads, ServerGoes, history, vars
  <2>2. QED
    BY <1>2, <2>1
<1>4. QED
  BY <1>1, <1>3, SubscribeHandlers, UnsubscribeHandlers DEF Next

-------------------------------------------------------------------------------
(* The reader's snapshot *)

\* What is left of a list without duplicates no longer has its head.
LEMMA TailSound ==
    ASSUME NEW S, NEW list \in Seq(S), list # <<>>
    PROVE  /\ Head(list) \in Range(list) /\ Range(Tail(list)) \subseteq Range(list)
           /\ IsInjective(list) => /\ IsInjective(Tail(list))
                                   /\ Head(list) \notin Range(Tail(list))
<1>1. /\ Tail(list) \in Seq(S) /\ Len(Tail(list)) = Len(list) - 1 /\ Len(list) \in Nat \ {0}
      /\ \A i \in 1..Len(Tail(list)) : Tail(list)[i] = list[i + 1]
      /\ Head(list) = list[1]
  OBVIOUS
<1>2. DOMAIN list = 1..Len(list) /\ DOMAIN Tail(list) = 1..(Len(list) - 1)
  BY <1>1
<1>3. QED
  BY <1>1, <1>2 DEF Range, IsInjective

\* What the reader has still to call is what is left of its copy of a list.
LEMMA CallSnapshot ==
    ASSUME TypeOK, SnapshotInv, Call
    PROVE  SnapshotInv'
<1> DEFINE s == Head(todo)
<1>1. /\ todo' = Tail(todo) /\ todo # <<>> /\ left' = left /\ todo \in Seq(Subs)
      /\ late' = [late EXCEPT ![s] = IF s \in left THEN late[s] + 1 ELSE late[s]]
  BY DEF Call, TypeOK
<1>2. /\ s \in Range(todo) /\ Range(todo') \subseteq Range(todo)
      /\ IsInjective(todo') /\ s \notin Range(todo')
  BY <1>1, TailSound DEF SnapshotInv
<1>3. s \in Subs /\ late \in [Subs -> Nat]
  BY <1>1 DEF TypeOK
<1>4. late[s] = 0
  BY <1>2, <1>3 DEF SnapshotInv
<1>5. late'[s] = (IF s \in left THEN 1 ELSE 0) /\ \A u \in Subs : u # s => late'[u] = late[u]
  BY <1>1, <1>3, <1>4
<1> HIDE DEF s
<1>6. QED
  BY <1>1, <1>2, <1>5 DEF SnapshotInv

\* Every step keeps the reader's copy.
LEMMA StepSnapshot ==
    ASSUME TypeOK, ChannelsOK, HandlersInv, SnapshotInv, [Next]_vars
    PROVE  SnapshotInv'
<1>1. CASE Reads
  <2>1. Head(incoming).topic \in Topics
    BY <1>1, HeadTypes DEF Reads, Messages
  <2>2. todo' = handlers[Head(incoming).topic] /\ UNCHANGED <<late, left>>
    BY <1>1 DEF Reads, history
  <2>3. IsInjective(todo') /\ Range(todo') \cap left = {}
    BY <2>1, <2>2 DEF HandlersInv
  <2>4. QED
    BY <2>2, <2>3 DEF SnapshotInv
<1>2. ASSUME NEW s \in Subs, NEW t \in Topics, Unsubscribe(s, t) PROVE SnapshotInv'
  <2>1. UNCHANGED <<todo, late>> /\ left \subseteq left'
    BY <1>2 DEF Unsubscribe, reader
  <2>2. QED
    BY <2>1 DEF SnapshotInv
<1>3. UNCHANGED <<todo, late, left>> => SnapshotInv'
  BY DEF SnapshotInv
<1>4. CASE \/ \E t \in Topics : Publish(t) \/ OthersPublish(t)
           \/ \E s \in Subs : SubscribeRaises(s) \/ \E t \in Topics : Subscribe(s, t)
           \/ Close \/ CloseReturns \/ ReadsEnd \/ Handled \/ ServerReads \/ ServerGoes
           \/ UNCHANGED vars
  <2>1. UNCHANGED <<todo, late, left>>
    BY <1>4 DEF Publish, OthersPublish, SubscribeRaises, Subscribe, Close, CloseReturns, ReadsEnd,
                Handled, ServerReads, ServerGoes, reader, history, vars
  <2>2. QED
    BY <1>3, <2>1
<1>5. QED
  BY <1>1, <1>2, <1>4, CallSnapshot DEF Next, ReaderStep

-------------------------------------------------------------------------------
(* Where a message is *)

\* What the server sends comes last; of a topic that is not shared, one copy.
LEMMA ForwardSound ==
    ASSUME TypeOK, ChannelsOK, NEW t \in Topics, NEW n \in 1..MaxMsgs, Forward(t, n),
           t \notin shared => entries[t] <= 1
    PROVE  /\ incoming' \in Seq(Messages)
           /\ \A i \in DOMAIN incoming :
                 i \in DOMAIN incoming' /\ incoming'[i] = incoming[i]
           /\ \A i \in DOMAIN incoming' : i \notin DOMAIN incoming =>
                 /\ incoming'[i].topic = t /\ incoming'[i].n = n
                 /\ t \notin shared => i = Len(incoming) + 1
<1> DEFINE c == Copies(t, n)
<1>1. /\ c \in Seq(Messages) /\ Len(c) = entries[t] /\ entries[t] \in Nat
      /\ \A i \in 1..Len(c) : c[i].topic = t /\ c[i].n = n
  BY CopiesSound DEF TypeOK
<1>2. incoming \in Seq(Messages) /\ incoming' = incoming \o c
  BY DEF Forward, ChannelsOK
<1> HIDE DEF c
<1>3. /\ incoming' \in Seq(Messages) /\ Len(incoming') = Len(incoming) + Len(c)
      /\ Len(incoming) \in Nat /\ Len(c) \in Nat
      /\ \A i \in 1..Len(incoming) : incoming'[i] = incoming[i]
      /\ \A i \in (Len(incoming) + 1)..(Len(incoming) + Len(c)) : incoming'[i] = c[i - Len(incoming)]
  BY <1>1, <1>2
<1>4. DOMAIN incoming = 1..Len(incoming) /\ DOMAIN incoming' = 1..(Len(incoming) + Len(c))
  BY <1>2, <1>3
<1>5. ASSUME NEW i \in DOMAIN incoming', i \notin DOMAIN incoming
      PROVE  /\ incoming'[i].topic = t /\ incoming'[i].n = n
             /\ t \notin shared => i = Len(incoming) + 1
  <2>1. i - Len(incoming) \in 1..Len(c) /\ incoming'[i] = c[i - Len(incoming)]
    BY <1>3, <1>4, <1>5
  <2>2. QED
    BY <1>1, <1>3, <2>1
<1>6. QED
  BY <1>3, <1>4, <1>5

\* Nothing is said of requests other than "publish", and sharing a topic only permits more.
LEMMA OtherRequest ==
    ASSUME OncePublished, ChannelsOK,
           UNCHANGED <<current, got, todo, twice, published, incoming>>, shared \subseteq shared',
           \/ requests' = requests
           \/ \E r \in Requests : requests' = Append(requests, r) /\ r.action # "publish"
    PROVE  OncePublished'
<1>1. \A i \in DOMAIN requests' : requests'[i].action = "publish" =>
          i \in DOMAIN requests /\ requests'[i] = requests[i]
  BY DEF ChannelsOK
<1>2. AskedOnce'
  BY <1>1 DEF OncePublished, AskedOnce
<1>3. NoneAhead' /\ SentOnce'
  BY DEF OncePublished, NoneAhead, SentOnce
<1>4. CalledOnce'
  BY DEF OncePublished, CalledOnce
<1>5. QED
  BY <1>2, <1>3, <1>4 DEF OncePublished

\* A message is in one place at a time: one that is published is new,
LEMMA PublishOnce ==
    ASSUME TypeOK, ChannelsOK, OncePublished, NEW t \in Topics, Publish(t)
    PROVE  OncePublished'
<1>1. /\ UNCHANGED <<current, got, todo, twice, shared, incoming>>
      /\ published' = published + 1 /\ published \in Nat
      /\ Writes(Request("publish", t, published + 1, {}))
  BY DEF Publish, reader, history, TypeOK
<1>2. \A i \in DOMAIN requests : requests[i].action = "publish" => requests[i].n \in 1..published
  BY DEF OncePublished, AskedOnce
<1>3. \/ requests' = requests
      \/ requests' = Append(requests, Request("publish", t, published + 1, {}))
  BY <1>1 DEF Writes
<1>4. \A i \in DOMAIN requests' :
         \/ i \in DOMAIN requests /\ requests'[i] = requests[i]
         \/ i = Len(requests) + 1 /\ i \notin DOMAIN requests /\ requests'[i].n = published + 1
  BY <1>3 DEF ChannelsOK, Request
<1>5. \A j \in DOMAIN incoming : incoming[j].n \in 1..published
  <2>1. \A j \in DOMAIN incoming : incoming[j].n \in 1..MaxMsgs
    BY DEF TypeOK
  <2>2. QED
    BY <1>1, <2>1, ClientAssumption DEF OncePublished, NoneAhead
<1>6. \A s \in Subs : got[s] \subseteq 1..published
  <2>1. \A s \in Subs : got[s] \subseteq 1..MaxMsgs
    BY DEF TypeOK
  <2>2. QED
    BY <1>1, <2>1, ClientAssumption DEF OncePublished, NoneAhead
<1>7. current.n \in Nat /\ current.n <= published
  BY DEF ChannelsOK
<1>8. ASSUME NEW i \in DOMAIN requests', requests'[i].action = "publish"
      PROVE  /\ requests'[i].n \in 1..published'
             /\ requests'[i].n # current'.n /\ \A s \in Subs : requests'[i].n \notin got'[s]
             /\ \A j \in DOMAIN incoming' : requests'[i].n # incoming'[j].n
             /\ \A j \in DOMAIN requests' :
                   requests'[j].action = "publish" /\ requests'[j].n = requests'[i].n => i = j
  <2>1. CASE i \in DOMAIN requests /\ requests'[i] = requests[i]
    <3>1. requests[i].n \in 1..published
      BY <1>2, <1>8, <2>1
    <3>2. \A j \in DOMAIN requests' :
             requests'[j].action = "publish" /\ requests'[j].n = requests'[i].n => i = j
      BY <1>1, <1>4, <1>8, <2>1, <3>1 DEF OncePublished, AskedOnce
    <3>3. QED
      BY <1>1, <1>8, <2>1, <3>1, <3>2 DEF OncePublished, AskedOnce
  <2>2. CASE i = Len(requests) + 1 /\ i \notin DOMAIN requests /\ requests'[i].n = published + 1
    <3>1. \A j \in DOMAIN requests' :
             requests'[j].action = "publish" /\ requests'[j].n = requests'[i].n => i = j
      BY <1>1, <1>2, <1>4, <2>2
    <3>2. QED
      BY <1>1, <1>5, <1>6, <1>7, <2>2, <3>1
  <2>3. QED
    BY <1>4, <2>1, <2>2
<1>9. NoneAhead'
  BY <1>1, <1>5, <1>6 DEF NoneAhead
<1>10. SentOnce' /\ CalledOnce'
  BY <1>1 DEF OncePublished, SentOnce, CalledOnce
<1>11. QED
  BY <1>8, <1>9, <1>10 DEF OncePublished, AskedOnce

\* A message that is nowhere is sent to the client.
LEMMA SentNew ==
    ASSUME TypeOK, ChannelsOK, OncePublished, NEW t \in Topics, NEW n \in 1..MaxMsgs,
           Forward(t, n), t \notin shared => entries[t] <= 1,
           UNCHANGED <<current, got, todo, twice, shared>>,
           published' \in Nat, published <= published', n <= published',
           n # current.n, \A s \in Subs : n \notin got[s],
           \A j \in DOMAIN incoming : incoming[j].n # n,
           \A i \in DOMAIN requests' : requests'[i].action = "publish" => requests'[i].n # n,
           \E d \in {0, 1} : \A i \in DOMAIN requests' :
               i + d \in DOMAIN requests /\ requests'[i] = requests[i + d],
           requests' \in Seq(Requests)
    PROVE  OncePublished'
<1>1. /\ incoming' \in Seq(Messages)
      /\ \A i \in DOMAIN incoming : i \in DOMAIN incoming' /\ incoming'[i] = incoming[i]
      /\ \A i \in DOMAIN incoming' : i \notin DOMAIN incoming =>
            /\ incoming'[i].topic = t /\ incoming'[i].n = n
            /\ t \notin shared => i = Len(incoming) + 1
  BY ForwardSound
<1>2. PICK d \in {0, 1} : \A i \in DOMAIN requests' :
          i + d \in DOMAIN requests /\ requests'[i] = requests[i + d]
  OBVIOUS
<1>3. DOMAIN requests' \subseteq Nat /\ published \in Nat
  BY DEF TypeOK
<1>4. ASSUME NEW i \in DOMAIN requests', requests'[i].action = "publish"
      PROVE  /\ requests'[i].n \in 1..published'
             /\ requests'[i].n # current'.n /\ \A s \in Subs : requests'[i].n \notin got'[s]
             /\ \A j \in DOMAIN incoming' : requests'[i].n # incoming'[j].n
             /\ \A j \in DOMAIN requests' :
                   requests'[j].action = "publish" /\ requests'[j].n = requests'[i].n => i = j
  <2>1. i + d \in DOMAIN requests /\ requests'[i] = requests[i + d]
    BY <1>2
  <2>2. /\ requests[i + d].n \in 1..published
        /\ requests[i + d].n # current.n /\ \A s \in Subs : requests[i + d].n \notin got[s]
        /\ \A j \in DOMAIN incoming : requests[i + d].n # incoming[j].n
        /\ \A j \in DOMAIN requests :
              requests[j].action = "publish" /\ requests[j].n = requests[i + d].n => i + d = j
    BY <1>4, <2>1 DEF OncePublished, AskedOnce
  <2>3. \A j \in DOMAIN incoming' : requests'[i].n # incoming'[j].n
    BY <1>1, <1>4, <2>1, <2>2
  <2>4. ASSUME NEW j \in DOMAIN requests', requests'[j].action = "publish",
               requests'[j].n = requests'[i].n
        PROVE  i = j
    <3>1. j + d \in DOMAIN requests /\ requests'[j] = requests[j + d]
      BY <1>2
    <3>2. i + d = j + d
      BY <2>1, <2>2, <2>4, <3>1
    <3>3. QED
      BY <1>3, <3>2
  <2>5. requests'[i].n \in 1..published'
    BY <1>3, <2>1, <2>2
  <2>6. QED
    BY <2>1, <2>2, <2>3, <2>4, <2>5
<1>5. NoneAhead'
  <2>1. ASSUME NEW i \in DOMAIN incoming' PROVE incoming'[i].n <= published'
    <3>1. CASE i \in DOMAIN incoming
      <4>1. incoming'[i] = incoming[i] /\ incoming[i].n <= published /\ incoming[i].n \in 1..MaxMsgs
        BY <1>1, <3>1 DEF OncePublished, NoneAhead, TypeOK
      <4>2. QED
        BY <1>3, <4>1, ClientAssumption
    <3>2. CASE i \notin DOMAIN incoming
      BY <1>1, <3>2
    <3>3. QED
      BY <3>1, <3>2
  <2>2. ASSUME NEW s \in Subs, NEW m \in got'[s] PROVE m <= published'
    <3>1. m <= published /\ m \in 1..MaxMsgs
      BY <2>2 DEF OncePublished, NoneAhead, TypeOK
    <3>2. QED
      BY <1>3, <3>1, ClientAssumption
  <2>3. QED
    BY <2>1, <2>2 DEF NoneAhead
<1>6. SentOnce'
  <2>1. ASSUME NEW i \in DOMAIN incoming', incoming'[i].topic \notin shared
        PROVE  /\ incoming'[i].n # current.n /\ \A s \in Subs : incoming'[i].n \notin got[s]
               /\ \A j \in DOMAIN incoming' : incoming'[j].n = incoming'[i].n => i = j
    <3>1. CASE i \in DOMAIN incoming
      BY <1>1, <2>1, <3>1 DEF OncePublished, SentOnce
    <3>2. CASE i \notin DOMAIN incoming
      BY <1>1, <2>1, <3>2
    <3>3. QED
      BY <3>1, <3>2
  <2>2. QED
    BY <2>1 DEF SentOnce
<1>7. CalledOnce'
  BY DEF OncePublished, CalledOnce
<1>8. QED
  BY <1>4, <1>5, <1>6, <1>7 DEF OncePublished, AskedOnce

\* The server's list has this connection at most once for a topic that is not shared.
LEMMA ListedOnce ==
    ASSUME EntriesInv, ChannelsOK, NEW t \in Topics, t \notin shared
    PROVE  entries[t] <= 1
<1>1. PICK f : /\ Foresees(f)
               /\ \A i \in 0..Len(requests) : AtMostOnce(f[i])
  BY DEF EntriesInv
<1>2. 0 \in 0..Len(requests) /\ f[0] = entries
  BY <1>1 DEF Foresees, ChannelsOK
<1>3. QED
  BY <1>1, <1>2 DEF AtMostOnce

\* one that the server reads goes to the other channel,
LEMMA ServerReadsOnce ==
    ASSUME TypeOK, ChannelsOK, OncePublished, EntriesInv, ServerReads
    PROVE  OncePublished'
<1> DEFINE request == Head(requests)
<1>1. /\ requests # <<>> /\ requests' = Tail(requests)
      /\ UNCHANGED <<current, got, todo, twice, shared, published>>
      /\ IF request.action = "publish" THEN Forward(request.topic, request.n)
                                       ELSE UNCHANGED incoming
  BY DEF ServerReads, reader, history
<1>2. /\ request \in Requests /\ requests' \in Seq(Requests) /\ request = requests[1]
      /\ 1 \in DOMAIN requests
      /\ \A i \in DOMAIN requests' : i + 1 \in DOMAIN requests /\ requests'[i] = requests[i + 1]
                                     /\ i \in Nat \ {0}
  BY <1>1 DEF ChannelsOK
<1> HIDE DEF request
<1>3. CASE request.action = "publish"
  <2>1. /\ request.n \in 1..published
        /\ request.n # current.n /\ \A s \in Subs : request.n \notin got[s]
        /\ \A j \in DOMAIN incoming : request.n # incoming[j].n
        /\ \A j \in DOMAIN requests :
              requests[j].action = "publish" /\ requests[j].n = request.n => 1 = j
    BY <1>2, <1>3 DEF OncePublished, AskedOnce
  <2>2. \A i \in DOMAIN requests' : requests'[i].action = "publish" => requests'[i].n # request.n
    BY <1>2, <2>1
  <2>3. request.n \in 1..MaxMsgs /\ request.topic \in Topics
    BY <1>2, <2>1, ClientAssumption DEF Requests, TypeOK
  <2>4. request.topic \notin shared => entries[request.topic] <= 1
    BY <2>3, ListedOnce
  <2>5. published' \in Nat /\ published <= published' /\ request.n <= published'
    BY <1>1, <2>1 DEF TypeOK
  <2>6. Forward(request.topic, request.n)
    BY <1>1, <1>3
  <2>7. QED
    BY <1>1, <1>2, <2>1, <2>2, <2>3, <2>4, <2>5, <2>6, SentNew
<1>4. CASE request.action # "publish"
  <2>1. AskedOnce'
    <3>1. ASSUME NEW i \in DOMAIN requests', requests'[i].action = "publish"
          PROVE  /\ requests'[i].n \in 1..published'
                 /\ requests'[i].n # current'.n /\ \A s \in Subs : requests'[i].n \notin got'[s]
                 /\ \A j \in DOMAIN incoming' : requests'[i].n # incoming'[j].n
                 /\ \A j \in DOMAIN requests' :
                       requests'[j].action = "publish" /\ requests'[j].n = requests'[i].n => i = j
      <4>1. i + 1 \in DOMAIN requests /\ requests'[i] = requests[i + 1]
        BY <1>2
      <4>2. \A j \in DOMAIN requests' :
               requests'[j].action = "publish" /\ requests'[j].n = requests'[i].n => i + 1 = j + 1
        BY <1>2, <3>1, <4>1 DEF OncePublished, AskedOnce
      <4>3. \A j \in DOMAIN requests' :
               requests'[j].action = "publish" /\ requests'[j].n = requests'[i].n => i = j
        BY <1>2, <4>2
      <4>4. QED
        BY <1>1, <1>4, <3>1, <4>1, <4>3 DEF OncePublished, AskedOnce
    <3>2. QED
      BY <3>1 DEF AskedOnce
  <2>2. NoneAhead' /\ SentOnce' /\ CalledOnce'
    BY <1>1, <1>4 DEF OncePublished, NoneAhead, SentOnce, CalledOnce
  <2>3. QED
    BY <2>1, <2>2 DEF OncePublished
<1>5. QED
  BY <1>3, <1>4

\* one of another client is new as well,
LEMMA OthersPublishOnce ==
    ASSUME TypeOK, ChannelsOK, OncePublished, EntriesInv, NEW t \in Topics, OthersPublish(t)
    PROVE  OncePublished'
<1>1. /\ UNCHANGED <<current, got, todo, twice, shared, requests>>
      /\ published' = published + 1 /\ published \in Nat /\ published + 1 \in 1..MaxMsgs
      /\ Forward(t, published + 1)
  BY ClientAssumption DEF OthersPublish, reader, history, TypeOK
<1>2. t \notin shared => entries[t] <= 1
  BY ListedOnce
<1>3. published + 1 # current.n
  BY <1>1 DEF ChannelsOK
<1>4. \A s \in Subs : published + 1 \notin got[s]
  BY <1>1 DEF OncePublished, NoneAhead
<1>5. \A j \in DOMAIN incoming : incoming[j].n # published + 1
  BY <1>1 DEF OncePublished, NoneAhead
<1>6. \A i \in DOMAIN requests' : requests'[i].action = "publish" => requests'[i].n # published + 1
  BY <1>1 DEF OncePublished, AskedOnce
<1>7. /\ requests' \in Seq(Requests)
      /\ \A i \in DOMAIN requests' : i + 0 \in DOMAIN requests /\ requests'[i] = requests[i + 0]
  BY <1>1 DEF ChannelsOK
<1>8. published' \in Nat /\ published <= published' /\ published + 1 <= published'
  BY <1>1
<1>9. QED
  BY <1>1, <1>2, <1>3, <1>4, <1>5, <1>6, <1>7, <1>8, SentNew

\* one that the reader takes leaves the channel,
LEMMA ReadsOnce ==
    ASSUME TypeOK, ChannelsOK, OncePublished, Reads
    PROVE  OncePublished'
<1>1. /\ incoming # <<>> /\ incoming' = Tail(incoming) /\ current' = Head(incoming)
      /\ UNCHANGED <<requests, published, got, twice, shared>>
  BY DEF Reads, history
<1>2. /\ current' = incoming[1] /\ 1 \in DOMAIN incoming
      /\ \A i \in DOMAIN incoming' :
            i \in Nat \ {0} /\ i + 1 \in DOMAIN incoming /\ incoming'[i] = incoming[i + 1]
  BY <1>1 DEF ChannelsOK
<1>3. AskedOnce'
  BY <1>1, <1>2 DEF OncePublished, AskedOnce
<1>4. NoneAhead'
  BY <1>1, <1>2 DEF OncePublished, NoneAhead
<1>5. ASSUME NEW i \in DOMAIN incoming', incoming'[i].topic \notin shared
      PROVE  /\ incoming'[i].n # current'.n /\ \A s \in Subs : incoming'[i].n \notin got[s]
             /\ \A j \in DOMAIN incoming' : incoming'[j].n = incoming'[i].n => i = j
  <2>1. /\ i \in Nat \ {0} /\ i + 1 \in DOMAIN incoming /\ incoming'[i] = incoming[i + 1]
    BY <1>2
  <2>2. /\ \A s \in Subs : incoming[i + 1].n \notin got[s]
        /\ \A j \in DOMAIN incoming : incoming[j].n = incoming[i + 1].n => i + 1 = j
    BY <1>5, <2>1 DEF OncePublished, SentOnce
  <2>3. incoming[i + 1].n # incoming[1].n
    BY <1>2, <2>1, <2>2
  <2>4. ASSUME NEW j \in DOMAIN incoming', incoming'[j].n = incoming'[i].n PROVE i = j
    <3>1. /\ j \in Nat \ {0} /\ j + 1 \in DOMAIN incoming /\ incoming'[j] = incoming[j + 1]
      BY <1>2
    <3>2. i + 1 = j + 1
      BY <2>1, <2>2, <2>4, <3>1
    <3>3. QED
      BY <2>1, <3>1, <3>2
  <2>5. QED
    BY <1>2, <2>1, <2>2, <2>3, <2>4
<1>6. SentOnce'
  BY <1>1, <1>5 DEF SentOnce
<1>7. CalledOnce'
  <2>1. todo' = handlers[Head(incoming).topic] /\ Head(incoming).topic \in Topics
    BY HeadTypes, <1>1 DEF Reads, Messages
  <2>2. Range(todo') \subseteq Subs
    BY <2>1 DEF TypeOK, Range
  <2>3. current'.topic \notin shared => \A s \in Subs : current'.n \notin got[s]
    BY <1>2 DEF OncePublished, SentOnce
  <2>4. QED
    BY <1>1, <2>2, <2>3 DEF OncePublished, CalledOnce
<1>8. QED
  BY <1>3, <1>4, <1>6, <1>7 DEF OncePublished

\* one that a handler is called with is taken off what it has still to see,
LEMMA CallOnce ==
    ASSUME TypeOK, ChannelsOK, SnapshotInv, OncePublished, Call
    PROVE  OncePublished'
<1> DEFINE s == Head(todo)
<1>1. /\ todo # <<>> /\ todo \in Seq(Subs) /\ todo' = Tail(todo)
      /\ twice' = (IF current.n \in got[s] THEN twice \union {current.topic} ELSE twice)
      /\ got' = [got EXCEPT ![s] = got[s] \union {current.n}]
      /\ UNCHANGED <<current, requests, incoming, published, shared>>
  BY DEF Call, connection, TypeOK
<1>2. /\ s \in Range(todo) /\ Range(todo') \subseteq Range(todo) /\ s \notin Range(todo')
      /\ Range(todo) \subseteq Subs
  BY <1>1, TailSound DEF SnapshotInv, Range
<1>3. /\ got'[s] = got[s] \union {current.n} /\ \A u \in Subs : u # s => got'[u] = got[u]
  BY <1>1, <1>2 DEF TypeOK
<1> HIDE DEF s
<1>4. \A u \in Subs : \A n : n \in got'[u] => n \in got[u] \/ n = current.n
  BY <1>2, <1>3
<1>5. AskedOnce'
  BY <1>1, <1>4 DEF OncePublished, AskedOnce
<1>6. NoneAhead'
  BY <1>1, <1>4 DEF OncePublished, NoneAhead, ChannelsOK
<1>7. SentOnce'
  BY <1>1, <1>4 DEF OncePublished, SentOnce
<1>8. CalledOnce'
  <2>1. current.topic \notin shared => \A u \in Range(todo') : current.n \notin got'[u]
    BY <1>2, <1>3 DEF OncePublished, CalledOnce
  <2>2. current.n \in got[s] => current.topic \in shared
    BY <1>2 DEF OncePublished, CalledOnce
  <2>3. QED
    BY <1>1, <2>1, <2>2 DEF OncePublished, CalledOnce
<1>9. QED
  BY <1>5, <1>6, <1>7, <1>8 DEF OncePublished

\* a reader that is done with a message has none,
LEMMA HandledOnce ==
    ASSUME TypeOK, ChannelsOK, OncePublished, Handled
    PROVE  OncePublished'
<1>1. /\ todo = <<>> /\ todo' = <<>> /\ current'.n = 0
      /\ UNCHANGED <<requests, incoming, published, got, twice, shared>>
  BY NothingType DEF Handled, connection, history
<1>2. AskedOnce'
  BY <1>1 DEF OncePublished, AskedOnce
<1>3. NoneAhead'
  BY <1>1 DEF OncePublished, NoneAhead
<1>4. SentOnce'
  <2>1. \A i \in DOMAIN incoming : incoming[i].n # 0
    BY DEF TypeOK
  <2>2. QED
    BY <1>1, <2>1 DEF OncePublished, SentOnce
<1>5. CalledOnce'
  BY <1>1 DEF OncePublished, CalledOnce, Range
<1>6. QED
  BY <1>2, <1>3, <1>4, <1>5 DEF OncePublished

\* and a server that goes adds nothing.
LEMMA ServerGoesOnce ==
    ASSUME TypeOK, ChannelsOK, OncePublished, ServerGoes
    PROVE  OncePublished'
<1>1. requests' = <<>> /\ UNCHANGED <<current, todo, published, got, twice, shared>>
  BY DEF ServerGoes, reader, history
<1>2. \A i \in DOMAIN incoming' : i \in DOMAIN incoming /\ incoming'[i] = incoming[i]
  BY DEF ServerGoes, ChannelsOK
<1>3. AskedOnce'
  BY <1>1 DEF AskedOnce
<1>4. NoneAhead'
  BY <1>1, <1>2 DEF OncePublished, NoneAhead
<1>5. SentOnce'
  BY <1>1, <1>2 DEF OncePublished, SentOnce
<1>6. CalledOnce'
  BY <1>1 DEF OncePublished, CalledOnce
<1>7. QED
  BY <1>3, <1>4, <1>5, <1>6 DEF OncePublished

\* Every step keeps messages in one place.
LEMMA StepOnce ==
    ASSUME TypeOK, ChannelsOK, SnapshotInv, OncePublished, EntriesInv, [Next]_vars
    PROVE  OncePublished'
<1>1. ASSUME NEW s \in Subs, NEW t \in Topics, Subscribe(s, t) PROVE OncePublished'
  <2>1. Request("subscribe", t, 0, {s}) \in Requests /\ Request("subscribe", t, 0, {s}).action # "publish"
    BY RequestTypes DEF Request
  <2>2. Writes(Request("subscribe", t, 0, {s})) /\ shared \subseteq shared'
        /\ UNCHANGED <<current, got, todo, twice, published, incoming>>
    BY <1>1 DEF Subscribe, reader
  <2>3. QED
    BY <2>1, <2>2, OtherRequest DEF Writes
<1>2. ASSUME NEW s \in Subs, NEW t \in Topics, Unsubscribe(s, t) PROVE OncePublished'
  <2>1. Request("unsubscribe", t, 0, {}) \in Requests /\ Request("unsubscribe", t, 0, {}).action # "publish"
    BY RequestTypes DEF Request
  <2>2. Writes(Request("unsubscribe", t, 0, {})) /\ shared \subseteq shared'
        /\ UNCHANGED <<current, got, todo, twice, published, incoming>>
    BY <1>2 DEF Unsubscribe, reader
  <2>3. QED
    BY <2>1, <2>2, OtherRequest DEF Writes
<1>3. CASE \/ \E s \in Subs : SubscribeRaises(s)
           \/ Close \/ CloseReturns \/ ReadsEnd \/ UNCHANGED vars
  <2>1. UNCHANGED <<current, got, todo, twice, published, incoming, requests, shared>>
    BY <1>3 DEF SubscribeRaises, Close, CloseReturns, ReadsEnd, reader, connection, history, vars
  <2>2. QED
    BY <2>1, OtherRequest
<1>4. QED
  BY <1>1, <1>2, <1>3, PublishOnce, OthersPublishOnce, ReadsOnce, CallOnce, HandledOnce,
     ServerReadsOnce, ServerGoesOnce DEF Next, ReaderStep

-------------------------------------------------------------------------------
(* The server's entries *)

\* Counting one request more leaves natural numbers.
LEMMA CountedType ==
    ASSUME NEW e \in [Topics -> Nat], NEW r \in Requests
    PROVE  Counted(e, r) \in [Topics -> Nat]
BY DEF Counted, Requests

\* A step that sends no request and after which more need not agree than before.
LEMMA EntriesKeep ==
    ASSUME EntriesInv, UNCHANGED <<requests, entries>>, shared \subseteq shared',
           conn' = "up" /\ closing' # "done" =>
               conn = "up" /\ closing # "done" /\ UNCHANGED <<handlers, silenced>>
    PROVE  EntriesInv'
<1>1. PICK f : /\ Foresees(f)
               /\ \A i \in 0..Len(requests) : AtMostOnce(f[i])
               /\ conn = "up" /\ closing # "done" => Agreed(f[Len(requests)])
  BY DEF EntriesInv
<1>2. Foresees(f)'
  BY <1>1 DEF Foresees
<1>3. \A i \in 0..Len(requests') : AtMostOnce(f[i])'
  BY <1>1 DEF AtMostOnce
<1>4. ASSUME conn' = "up", closing' # "done" PROVE Agreed(f[Len(requests)])'
  <2>1. Agreed(f[Len(requests)]) /\ UNCHANGED <<handlers, silenced>>
    BY <1>1, <1>4
  <2>2. QED
    BY <2>1 DEF Agreed
<1>5. QED
  BY <1>2, <1>3, <1>4 DEF EntriesInv

\* A step that sends a request after which the handlers agree with what the server will
\* have counted.
LEMMA EntriesExtend ==
    ASSUME EntriesInv, ChannelsOK, NEW r \in Requests,
           requests' = Append(requests, r), entries' = entries, conn = "up", closing # "done",
           shared \subseteq shared',
           \A e \in [Topics -> Nat] : Agreed(e) /\ AtMostOnce(e) =>
               \A t \in Topics :
                   /\ t \notin silenced' => Counted(e, r)[t] = Len(handlers'[t])
                   /\ t \notin shared' => Counted(e, r)[t] <= 1
    PROVE  EntriesInv'
<1> DEFINE m == Len(requests)
<1>1. PICK f : /\ Foresees(f)
               /\ \A i \in 0..m : AtMostOnce(f[i])
               /\ Agreed(f[m])
  BY DEF EntriesInv
<1>2. m \in Nat /\ Len(requests') = m + 1 /\ requests'[m + 1] = r
      /\ \A i \in 1..m : requests'[i] = requests[i]
  BY DEF ChannelsOK
<1>3. f[m] \in [Topics -> Nat]
  BY <1>1, <1>2 DEF Foresees
<1>4. PICK g : g = [i \in 0..(m + 1) |-> IF i = m + 1 THEN Counted(f[m], r) ELSE f[i]]
  OBVIOUS
<1> HIDE DEF m
<1>5. /\ g[m + 1] = Counted(f[m], r) /\ \A i \in 0..m : g[i] = f[i]
      /\ DOMAIN g = 0..(m + 1)
  BY <1>2, <1>4
<1>6. g \in [0..(m + 1) -> [Topics -> Nat]]
  <2>1. Counted(f[m], r) \in [Topics -> Nat] /\ \A i \in 0..m : f[i] \in [Topics -> Nat]
    BY <1>1, <1>3, CountedType DEF Foresees, m
  <2>2. \A i \in 0..(m + 1) : g[i] \in [Topics -> Nat]
    BY <1>2, <1>5, <2>1
  <2>3. QED
    BY <1>4, <2>2
<1>7. g[0] = entries'
  BY <1>1, <1>2, <1>5 DEF Foresees
<1>8. ASSUME NEW i \in 1..(m + 1) PROVE g[i] = Counted(g[i - 1], requests'[i])
  <2>1. CASE i = m + 1
    <3>1. g[i - 1] = f[m]
      BY <1>2, <1>5, <2>1
    <3>2. QED
      BY <1>2, <1>5, <2>1, <3>1
  <2>2. CASE i \in 1..m
    <3>1. g[i] = f[i] /\ g[i - 1] = f[i - 1]
      BY <1>2, <1>5, <2>2
    <3>2. f[i] = Counted(f[i - 1], requests[i])
      BY <1>1, <2>2 DEF Foresees, m
    <3>3. QED
      BY <1>2, <2>2, <3>1, <3>2
  <2>3. QED
    BY <1>2, <2>1, <2>2
<1>9. Foresees(g)'
  BY <1>2, <1>6, <1>7, <1>8 DEF Foresees
<1>10. AtMostOnce(f[m])
  BY <1>1, <1>2
<1>11. \A t \in Topics : /\ t \notin silenced' => g[m + 1][t] = Len(handlers'[t])
                         /\ t \notin shared' => g[m + 1][t] <= 1
  BY <1>1, <1>3, <1>5, <1>10
<1>12. Agreed(g[Len(requests)])'
  BY <1>2, <1>11 DEF Agreed
<1>13. ASSUME NEW i \in 0..Len(requests') PROVE AtMostOnce(g[i])'
  <2>1. CASE i \in 0..m
    BY <1>1, <1>5, <2>1 DEF AtMostOnce
  <2>2. CASE i = m + 1
    BY <1>11, <2>2 DEF AtMostOnce
  <2>3. QED
    BY <1>2, <2>1, <2>2
<1>14. QED
  BY <1>9, <1>12, <1>13 DEF EntriesInv

\* What the server lists, and will list after the requests on their way: a request that is read,
LEMMA ServerReadsEntries ==
    ASSUME EntriesInv, ChannelsOK, ServerReads
    PROVE  EntriesInv'
<1> DEFINE m == Len(requests)
<1>1. PICK f : /\ Foresees(f)
               /\ \A i \in 0..m : AtMostOnce(f[i])
               /\ conn = "up" /\ closing # "done" => Agreed(f[m])
  BY DEF EntriesInv
<1>2. /\ requests # <<>> /\ requests' = Tail(requests) /\ entries' = EntriesAfter(Head(requests))
      /\ UNCHANGED <<handlers, conn, closing, shared, silenced>>
  BY DEF ServerReads, history
<1>3. /\ m \in Nat \ {0} /\ Len(requests') = m - 1 /\ Head(requests) = requests[1]
      /\ \A i \in 1..(m - 1) : requests'[i] = requests[i + 1]
  BY <1>2 DEF ChannelsOK
<1>4. PICK g : g = [i \in 0..(m - 1) |-> f[i + 1]]
  OBVIOUS
<1>5. \A i \in 0..m : f[i] \in [Topics -> Nat]
  BY <1>1 DEF Foresees
<1>6. \A i \in 1..m : f[i] = Counted(f[i - 1], requests[i])
  BY <1>1 DEF Foresees
<1>7. f[0] = entries
  BY <1>1 DEF Foresees
<1> HIDE DEF m
<1>8. g \in [0..(m - 1) -> [Topics -> Nat]] /\ \A i \in 0..(m - 1) : g[i] = f[i + 1]
  BY <1>3, <1>4, <1>5
<1>9. g[0] = entries'
  <2>1. g[0] = f[1]
    BY <1>3, <1>8
  <2>2. f[1] = Counted(f[0], requests[1])
    BY <1>3, <1>6
  <2>3. entries' = Counted(entries, requests[1])
    BY <1>2, <1>3 DEF EntriesAfter, Counted
  <2>4. QED
    BY <1>7, <2>1, <2>2, <2>3
<1>10. ASSUME NEW i \in 1..(m - 1) PROVE g[i] = Counted(g[i - 1], requests'[i])
  <2>1. g[i] = f[i + 1] /\ g[i - 1] = f[i] /\ requests'[i] = requests[i + 1]
    BY <1>3, <1>8
  <2>2. f[i + 1] = Counted(f[i], requests[i + 1])
    BY <1>3, <1>6
  <2>3. QED
    BY <2>1, <2>2
<1>11. Foresees(g)'
  BY <1>3, <1>8, <1>9, <1>10 DEF Foresees
<1>12. \A i \in 0..Len(requests') : AtMostOnce(g[i])'
  BY <1>1, <1>2, <1>3, <1>8 DEF AtMostOnce
<1>13. ASSUME conn' = "up", closing' # "done" PROVE Agreed(g[Len(requests)])'
  <2>1. g[Len(requests')] = f[m]
    BY <1>3, <1>8
  <2>2. QED
    BY <1>1, <1>2, <1>13, <2>1 DEF Agreed
<1>14. QED
  BY <1>11, <1>12, <1>13 DEF EntriesInv

\* a server that goes,
LEMMA ServerGoesEntries == ServerGoes => EntriesInv'
<1> SUFFICES ASSUME ServerGoes PROVE EntriesInv'
  OBVIOUS
<1>1. requests' = <<>> /\ entries' = [t \in Topics |-> 0] /\ conn' = "gone"
  BY DEF ServerGoes
<1>2. PICK g : g = [i \in {0} |-> [t \in Topics |-> 0]]
  OBVIOUS
<1>3. Len(requests') = 0 /\ 0..0 = {0} /\ 1..0 = {}
  BY <1>1
<1>4. g \in [0..0 -> [Topics -> Nat]] /\ g[0] = entries'
  BY <1>1, <1>2, <1>3
<1>5. Foresees(g)'
  BY <1>3, <1>4 DEF Foresees
<1>6. \A i \in 0..Len(requests') : AtMostOnce(g[i])'
  BY <1>1, <1>3, <1>4 DEF AtMostOnce
<1>7. QED
  BY <1>1, <1>5, <1>6 DEF EntriesInv

\* a publish,
LEMMA PublishEntries ==
    ASSUME TypeOK, ChannelsOK, EntriesInv, NEW t \in Topics, Publish(t)
    PROVE  EntriesInv'
<1> DEFINE r == Request("publish", t, published + 1, {})
<1>1. UNCHANGED <<handlers, entries, conn, closing, shared, silenced>> /\ Writes(r)
  BY DEF Publish, history
<1>2. published + 1 \in Nat /\ {} \in SUBSET Subs
  BY DEF TypeOK
<1>3. r \in Requests /\ r.action = "publish" /\ r.topic = t
  BY <1>2, RequestTypes DEF Request
<1> HIDE DEF r
<1>4. CASE requests' = requests
  BY <1>1, <1>4, EntriesKeep
<1>5. CASE requests' = Append(requests, r) /\ conn = "up" /\ closing # "done"
  <2>1. \A e \in [Topics -> Nat] : Counted(e, r) = e
    BY <1>3 DEF Counted
  <2>2. \A e \in [Topics -> Nat] : Agreed(e) /\ AtMostOnce(e) =>
            \A u \in Topics : /\ u \notin silenced' => Counted(e, r)[u] = Len(handlers'[u])
                              /\ u \notin shared' => Counted(e, r)[u] <= 1
    BY <1>1, <2>1 DEF Agreed, AtMostOnce
  <2>3. QED
    BY <1>1, <1>3, <1>5, <2>2, EntriesExtend
<1>6. QED
  BY <1>1, <1>4, <1>5 DEF Writes

\* a subscription,
LEMMA SubscribeEntries ==
    ASSUME TypeOK, ChannelsOK, HandlersInv, EntriesInv, NEW s \in Subs, NEW t \in Topics,
           Subscribe(s, t)
    PROVE  EntriesInv'
<1> DEFINE r == Request("subscribe", t, 0, {s})
<1>1. /\ UNCHANGED <<entries, conn, closing, silenced>> /\ Writes(r)
      /\ handlers' = [handlers EXCEPT ![t] = Append(handlers[t], s)]
      /\ shared' = IF handlers[t] = <<>> THEN shared ELSE shared \union {t}
  BY DEF Subscribe
<1>2. r \in Requests /\ r.action = "subscribe" /\ r.topic = t
  BY RequestTypes DEF Request
<1>3. /\ Len(handlers'[t]) = Len(handlers[t]) + 1 /\ handlers'[t] # <<>> /\ Len(<<>>) = 0
      /\ \A u \in Topics : u # t => handlers'[u] = handlers[u]
  BY <1>1 DEF TypeOK
<1> HIDE DEF r
<1>4. CASE requests' = requests /\ ~(conn = "up" /\ closing # "done")
  BY <1>1, <1>4, EntriesKeep
<1>5. CASE requests' = Append(requests, r) /\ conn = "up" /\ closing # "done"
  <2>1. \A e \in [Topics -> Nat] : /\ Counted(e, r)[t] = e[t] + 1
                                   /\ \A u \in Topics : u # t => Counted(e, r)[u] = e[u]
    BY <1>2 DEF Counted
  <2>2. ASSUME NEW e \in [Topics -> Nat], Agreed(e), AtMostOnce(e), NEW u \in Topics
        PROVE  /\ u \notin silenced' => Counted(e, r)[u] = Len(handlers'[u])
               /\ u \notin shared' => Counted(e, r)[u] <= 1
    <3>1. CASE u = t
      <4>1. t \notin silenced => e[t] = Len(handlers[t])
        BY <2>2 DEF Agreed
      <4>2. t \notin shared' => e[t] = 0
        BY <1>1, <1>3, <4>1 DEF HandlersInv
      <4>3. QED
        BY <1>1, <1>3, <2>1, <3>1, <4>1, <4>2
    <3>2. CASE u # t
      BY <1>1, <1>3, <2>1, <2>2, <3>2 DEF Agreed, AtMostOnce
    <3>3. QED
      BY <3>1, <3>2
  <2>3. shared \subseteq shared'
    BY <1>1
  <2>4. QED
    BY <1>1, <1>2, <1>5, <2>2, <2>3, EntriesExtend
<1>6. QED
  BY <1>1, <1>4, <1>5 DEF Writes

\* and one that goes.
LEMMA UnsubscribeEntries ==
    ASSUME TypeOK, ChannelsOK, EntriesInv, NEW s \in Subs, NEW t \in Topics, Unsubscribe(s, t)
    PROVE  EntriesInv'
<1> DEFINE r == Request("unsubscribe", t, 0, {})
<1>1. /\ UNCHANGED <<entries, conn, closing, shared>> /\ Writes(r)
      /\ handlers' = [handlers EXCEPT ![t] = Without(handlers[t], s)]
      /\ silenced' = IF Range(handlers[t]) \subseteq {s} THEN silenced \ {t}
                                                       ELSE silenced \union {t}
  BY DEF Unsubscribe, Drop
<1>2. r \in Requests /\ r.action = "unsubscribe" /\ r.topic = t
  BY RequestTypes DEF Request
<1>3. /\ handlers'[t] = Without(handlers[t], s)
      /\ \A u \in Topics : u # t => handlers'[u] = handlers[u]
  BY <1>1 DEF TypeOK
<1>4. t \notin silenced' => Len(handlers'[t]) = 0
  <2>1. handlers[t] \in Seq(Subs)
    BY DEF TypeOK
  <2>2. t \notin silenced' => Range(Without(handlers[t], s)) = {}
    BY <1>1, <2>1, WithoutSound
  <2>3. QED
    BY <1>3, <2>1, <2>2, WithoutSound, EmptyList
<1> HIDE DEF r
<1>5. CASE requests' = requests /\ ~(conn = "up" /\ closing # "done")
  BY <1>1, <1>5, EntriesKeep
<1>6. CASE requests' = Append(requests, r) /\ conn = "up" /\ closing # "done"
  <2>1. \A e \in [Topics -> Nat] : /\ Counted(e, r)[t] = 0
                                   /\ \A u \in Topics : u # t => Counted(e, r)[u] = e[u]
    BY <1>2 DEF Counted
  <2>2. ASSUME NEW e \in [Topics -> Nat], Agreed(e), AtMostOnce(e), NEW u \in Topics
        PROVE  /\ u \notin silenced' => Counted(e, r)[u] = Len(handlers'[u])
               /\ u \notin shared' => Counted(e, r)[u] <= 1
    BY <1>1, <1>3, <1>4, <2>1, <2>2 DEF Agreed, AtMostOnce
  <2>3. QED
    BY <1>1, <1>2, <1>6, <2>2, EntriesExtend
<1>7. QED
  BY <1>1, <1>5, <1>6 DEF Writes

\* Every step keeps what the server will list.
LEMMA StepEntries ==
    ASSUME TypeOK, ChannelsOK, HandlersInv, EntriesInv, [Next]_vars
    PROVE  EntriesInv'
<1>1. CASE \/ \E t \in Topics : OthersPublish(t)
           \/ \E s \in Subs : SubscribeRaises(s)
           \/ Close \/ CloseReturns \/ ReaderStep \/ UNCHANGED vars
  <2>1. /\ UNCHANGED <<requests, entries, handlers, conn, shared, silenced>>
        /\ closing' # "done" => closing # "done"
    BY <1>1 DEF OthersPublish, SubscribeRaises, Close, CloseReturns, ReaderStep, Reads, ReadsEnd,
                Call, Handled, connection, history, vars
  <2>2. QED
    BY <2>1, EntriesKeep
<1>2. QED
  BY <1>1, PublishEntries, SubscribeEntries, UnsubscribeEntries, ServerReadsEntries,
     ServerGoesEntries DEF Next

-------------------------------------------------------------------------------
\* At first nothing is listed nor on its way.
LEMMA InitInv == Init => Inv
<1> SUFFICES ASSUME Init PROVE Inv
  OBVIOUS
<1>1. TypeOK /\ ChannelsOK
  BY InitTypes
<1>2. HandlersInv
  BY DEF Init, HandlersInv, Range, IsInjective
<1>3. SnapshotInv
  BY DEF Init, SnapshotInv, Range, IsInjective
<1>4. OncePublished
  <2>1. /\ DOMAIN requests = {} /\ DOMAIN incoming = {} /\ Range(todo) = {} /\ twice = {}
        /\ \A s \in Subs : got[s] = {}
    BY DEF Init, Range
  <2>2. AskedOnce
    BY <2>1 DEF AskedOnce
  <2>3. NoneAhead /\ SentOnce /\ CalledOnce
    BY <2>1 DEF NoneAhead, SentOnce, CalledOnce
  <2>4. QED
    BY <2>2, <2>3 DEF OncePublished
<1>5. EntriesInv
  <2>1. requests = <<>> /\ entries = [t \in Topics |-> 0] /\ handlers = [t \in Topics |-> <<>>]
    BY DEF Init
  <2>2. Len(requests) = 0 /\ 0..0 = {0} /\ 1..0 = {} /\ Len(<<>>) = 0
    BY <2>1
  <2> DEFINE g == [i \in {0} |-> [t \in Topics |-> 0]]
  <2>3. g \in [0..0 -> [Topics -> Nat]] /\ g[0] = entries
    BY <2>1, <2>2
  <2> HIDE DEF g
  <2>4. Foresees(g)
    BY <2>2, <2>3 DEF Foresees
  <2>5. \A i \in 0..Len(requests) : AtMostOnce(g[i])
    BY <2>1, <2>2, <2>3 DEF AtMostOnce
  <2>6. Agreed(g[Len(requests)])
    BY <2>1, <2>2, <2>3 DEF Agreed
  <2>7. QED
    BY <2>4, <2>5, <2>6 DEF EntriesInv
<1>6. QED
  BY <1>1, <1>2, <1>3, <1>4, <1>5 DEF Inv

\* Every step keeps the invariant.
LEMMA StepInv == Inv /\ [Next]_vars => Inv'
<1> SUFFICES ASSUME Inv, [Next]_vars PROVE Inv'
  OBVIOUS
<1>1. TypeOK /\ ChannelsOK /\ HandlersInv /\ SnapshotInv /\ OncePublished /\ EntriesInv
  BY DEF Inv
<1>2. TypeOK' /\ ChannelsOK'
  BY <1>1, StepTypes
<1>3. HandlersInv'
  BY <1>1, StepHandlers
<1>4. SnapshotInv' /\ OncePublished'
  BY <1>1, StepSnapshot, StepOnce
<1>5. EntriesInv'
  BY <1>1, StepEntries
<1>6. QED
  BY <1>2, <1>3, <1>4, <1>5 DEF Inv

\* The invariant holds in every state.
THEOREM Invariance == Spec => []Inv
BY InitInv, StepInv, PTL DEF Spec

\* The types of the client, of both channels and of the history.
THEOREM TypeCorrect == Spec => []TypeOK
<1>1. Inv => TypeOK
  BY DEF Inv
<1>2. QED
  BY <1>1, Invariance, PTL

\* Once its requests are read, the server has this connection listed under a topic as often
\* as the client has handlers of it, unless the last unsubscribe of the topic left a handler.
THEOREM ServerAndClientAgree == Spec => []ServerAgrees
<1>1. Inv => ServerAgrees
  <2> SUFFICES ASSUME Inv, conn = "up", closing # "done", requests = <<>>
               PROVE  Agreed(entries) /\ \A t \in silenced : handlers[t] # <<>>
    BY DEF ServerAgrees, Agreed
  <2>1. PICK f : Foresees(f) /\ Agreed(f[Len(requests)])
    BY DEF Inv, EntriesInv
  <2>2. QED
    BY <2>1 DEF Foresees, Inv, HandlersInv
<1>2. QED
  BY <1>1, Invariance, PTL

\* No handler is called twice with a message unless its topic has been shared, and none more
\* than once after its subscription was given up.
THEOREM HandlersCalledInBounds == Spec => []CalledInBounds
<1>1. Inv => CalledInBounds
  BY DEF Inv, OncePublished, CalledOnce, SnapshotInv, CalledInBounds
<1>2. QED
  BY <1>1, Invariance, PTL
===============================================================================
