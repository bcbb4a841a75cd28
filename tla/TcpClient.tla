------------------------------- MODULE TcpClient -------------------------------
(***************************************************************************)
(* eventbus/tcp.py: one TCPEventBusClient, its reader thread, and the end  *)
(* of its connection in the server's thread for it.                        *)
(*                                                                         *)
(* publish, subscribe and unsubscribe hold _lock throughout and the reader *)
(* takes its snapshot of the handlers under it, so each is one step.  The  *)
(* handlers run outside it, one after another.  A handler that raises is a *)
(* handler that was called.                                                *)
(*                                                                         *)
(* External: the connection, lossless and in order in both directions, and *)
(* io.BufferedReader, whose lock a readline() holds until a line has come: *)
(* close() of the same object by another thread waits for that.            *)
(***************************************************************************)
EXTENDS Lists

CONSTANTS Subs,       \* subscriptions, each made at most once
          Topics,     \* topic names
          MaxMsgs,    \* bound: messages published
          MaxExtra    \* bound: calls of unsubscribe with a subscription that is not listed

ASSUME ClientAssumption == MaxMsgs \in Nat /\ MaxExtra \in Nat

VARIABLES
    handlers,    \* self._handlers: topic -> subscriptions
    at,          \* the reader: in readline(), in the handlers of a message, or ended
    todo,        \* the handlers it has still to call
    current,     \* the message it calls them with
    closing,     \* close(): "no", "wanted" once called, "done" once it has returned
    conn,        \* "up", or "gone" once the server has closed the connection
    requests,    \* sent and not yet read by the server
    incoming,    \* sent by the server and not yet read
    entries,     \* server: how often a topic's list has this connection
    published,   \* messages so far
    \* History, read by no action:
    made,        \* the subscriptions made so far ...
    left,        \* ... and those given up
    shared,      \* topics that have had two subscriptions at a time
    silenced,    \* topics whose last unsubscribe left a handler listed
    extra,       \* calls of unsubscribe with a subscription that is not listed
    got,         \* the messages each handler was called with
    twice,       \* topics with a message that a handler was called with twice
    late         \* calls of each handler since its subscription was given up

connection == <<requests, incoming, entries, conn, published>>
reader == <<at, todo, current>>
history == <<shared, silenced, extra, got, twice, late>>
vars == <<handlers, reader, closing, connection, made, left, history>>

Nothing == [topic |-> CHOOSE t \in Topics : TRUE, n |-> 0, due |-> {}]

Init ==
    /\ handlers = [t \in Topics |-> <<>>]
    /\ at = "reading" /\ todo = <<>> /\ current = Nothing
    /\ closing = "no" /\ conn = "up"
    /\ requests = <<>> /\ incoming = <<>> /\ entries = [t \in Topics |-> 0]
    /\ published = 0
    /\ made = {} /\ left = {} /\ shared = {} /\ silenced = {} /\ extra = 0
    /\ got = [s \in Subs |-> {}] /\ twice = {}
    /\ late = [s \in Subs |-> 0]

\* A line for the server.  "sub" is history: the subscription it asks for.
Request(action, t, n, sub) == [action |-> action, topic |-> t, n |-> n, sub |-> sub]

\* What is written once the server has gone is lost; on a closed file it raises.
Writes(request) == requests' = IF conn = "up" /\ closing # "done"
                                  THEN Append(requests, request) ELSE requests
CanRaise == conn = "gone" \/ closing = "done"

-------------------------------------------------------------------------------
(* The application's calls; one that raises changes nothing. *)

Publish(t) ==
    /\ published < MaxMsgs
    /\ closing # "done"
    /\ Writes(Request("publish", t, published + 1, {}))
    /\ published' = published + 1
    /\ UNCHANGED <<handlers, reader, closing, incoming, entries, conn, made, left, history>>

\* Mutant: the topic is filed with the subscription.
SubscribePair(s, t) ==
    /\ s \notin made
    /\ Writes(Request("subscribe", t, 0, {s}))
    /\ handlers' = [handlers EXCEPT ![t] = Append(@, <<s, t>>)]
    /\ made' = made \union {s}
    /\ UNCHANGED <<reader, closing, incoming, entries, conn, published, left, history>>

Subscribe(s, t) ==
    /\ s \notin made
    /\ closing # "done"
    /\ Writes(Request("subscribe", t, 0, {s}))
    /\ handlers' = [handlers EXCEPT ![t] = Append(@, s)]
    /\ made' = made \union {s}
    /\ shared' = IF handlers[t] = <<>> THEN shared ELSE shared \union {t}
    /\ UNCHANGED <<reader, closing, incoming, entries, conn, published, left, silenced, extra,
                   got, twice, late>>

\* A failure to write raises before the handler is added.
SubscribeRaises(s) ==
    /\ s \notin made
    /\ CanRaise
    /\ made' = made \union {s}
    /\ UNCHANGED <<handlers, reader, closing, connection, left, history>>

Drop(s, t) == handlers' = [handlers EXCEPT ![t] = Without(@, s)]

\* Mutant: the server is not told.
UnsubscribeSilently(s, t) ==
    /\ s \in Range(handlers[t])
    /\ Drop(s, t) /\ left' = left \union {s}
    /\ UNCHANGED <<reader, closing, connection, made, history>>

\* It asks the server in any case, for a subscription given up before too, or one that
\* another client was given.  A failure to write is ignored.
Unsubscribe(s, t) ==
    LET listed == s \in Range(handlers[t]) IN
    /\ \A u \in Topics \ {t} : s \notin Range(handlers[u])   \* t is its topic
    /\ listed \/ extra < MaxExtra
    /\ Writes(Request("unsubscribe", t, 0, {}))
    /\ Drop(s, t)
    /\ left' = IF listed THEN left \union {s} ELSE left
    /\ extra' = IF listed THEN extra ELSE extra + 1
    /\ silenced' = IF Range(handlers[t]) \subseteq {s} THEN silenced \ {t}
                                                     ELSE silenced \union {t}
    /\ UNCHANGED <<reader, closing, incoming, entries, conn, published, made, shared,
                   got, twice, late>>

Close ==
    /\ closing = "no" /\ closing' = "wanted"
    /\ UNCHANGED <<handlers, reader, connection, made, left, history>>

\* _file_r.close() is through, and the rest waits for nobody.
CloseReturns ==
    /\ closing = "wanted" /\ at # "reading"
    /\ closing' = "done"
    /\ UNCHANGED <<handlers, reader, connection, made, left, history>>

-------------------------------------------------------------------------------
(* _read_loop *)

Reads ==
    /\ at = "reading" /\ incoming # <<>>
    /\ incoming' = Tail(incoming)
    /\ current' = Head(incoming)
    /\ todo' = handlers[Head(incoming).topic]
    /\ at' = "handling"
    /\ UNCHANGED <<handlers, closing, requests, entries, conn, published, made, left, history>>

\* End of file: the loop is left.
ReadsEnd ==
    /\ at = "reading" /\ incoming = <<>> /\ conn = "gone"
    /\ at' = "ended"
    /\ UNCHANGED <<handlers, todo, current, closing, connection, made, left, history>>

Call ==
    LET s == Head(todo) IN
    /\ at = "handling" /\ todo # <<>>
    /\ todo' = Tail(todo)
    /\ twice' = IF current.n \in got[s] THEN twice \union {current.topic} ELSE twice
    /\ got' = [got EXCEPT ![s] = @ \union {current.n}]
    /\ late' = [late EXCEPT ![s] = IF s \in left THEN @ + 1 ELSE @]
    /\ UNCHANGED <<handlers, at, current, closing, connection, made, left, shared, silenced, extra>>

\* Mutant: a handler that raises ends the loop.
HandledEnds ==
    /\ at = "handling" /\ todo = <<>>
    /\ at' \in {"reading", "ended"}
    /\ current' = Nothing
    /\ UNCHANGED <<handlers, todo, closing, connection, made, left, history>>

\* The next readline(), which raises if the file has been closed meanwhile.
Handled ==
    /\ at = "handling" /\ todo = <<>>
    /\ at' = IF closing = "done" THEN "ended" ELSE "reading"
    /\ current' = Nothing
    /\ UNCHANGED <<handlers, todo, closing, connection, made, left, history>>

-------------------------------------------------------------------------------
(* The server's thread for this connection, and messages of other clients *)

\* One copy for each time the connection is listed.  "due" is history: the
\* subscriptions the message must reach, those whose request the server has handled.
Copies(t, n) ==
    LET pending == UNION {requests[i].sub : i \in DOMAIN requests} IN
    [i \in 1..entries[t] |-> [topic |-> t, n |-> n, due |-> Range(handlers[t]) \ pending]]

Forward(t, n) == incoming' = incoming \o Copies(t, n)

\* Mutant: "unsubscribe" leaves the entries.
EntriesKept(request) ==
    [entries EXCEPT ![request.topic] = IF request.action = "subscribe" THEN @ + 1 ELSE @]
\* "unsubscribe" takes out all entries of the connection, not one.
EntriesAfter(request) ==
    [entries EXCEPT ![request.topic] =
        IF request.action = "subscribe" THEN @ + 1
        ELSE IF request.action = "unsubscribe" THEN 0 ELSE @]

ServerReads ==
    LET request == Head(requests) IN
    /\ requests # <<>> /\ conn = "up"
    /\ requests' = Tail(requests)
    /\ entries' = EntriesAfter(request)
    /\ IF request.action = "publish" THEN Forward(request.topic, request.n)
                                     ELSE UNCHANGED incoming
    /\ UNCHANGED <<handlers, reader, closing, conn, published, made, left, history>>

OthersPublish(t) ==
    /\ published < MaxMsgs /\ conn = "up" /\ closing # "done"
    /\ published' = published + 1
    /\ Forward(t, published + 1)
    /\ UNCHANGED <<handlers, reader, closing, requests, entries, conn, made, left, history>>

\* The server stops, or has read the end of a closed connection.  What the client has
\* not read by then may be lost with a reset.
ServerGoes ==
    /\ conn = "up" /\ conn' = "gone"
    /\ requests' = <<>> /\ entries' = [t \in Topics |-> 0]
    /\ \E k \in 0..Len(incoming) : incoming' = SubSeq(incoming, 1, k)
    /\ UNCHANGED <<handlers, reader, closing, published, made, left, history>>

-------------------------------------------------------------------------------
ReaderStep == Reads \/ ReadsEnd \/ Call \/ Handled

Next ==
    \/ \E t \in Topics : Publish(t) \/ OthersPublish(t)
    \/ \E s \in Subs, t \in Topics : Subscribe(s, t) \/ Unsubscribe(s, t)
    \/ \E s \in Subs : SubscribeRaises(s)
    \/ Close \/ CloseReturns
    \/ ReaderStep
    \/ ServerReads \/ ServerGoes

Spec == Init /\ [][Next]_vars

\* Both threads are scheduled, and a close() that can have the file gets it.
FairSpec == Spec /\ WF_vars(ReaderStep) /\ WF_vars(ServerReads) /\ SF_vars(CloseReturns)
-------------------------------------------------------------------------------
\* The types of the client's fields, of the two channels and of the history.
TypeOK ==
    /\ handlers \in [Topics -> Seq(Subs)]
    /\ at \in {"reading", "handling", "ended"} /\ todo \in Seq(Subs)
    /\ closing \in {"no", "wanted", "done"} /\ conn \in {"up", "gone"}
    /\ \A i \in DOMAIN requests : requests[i].action \in {"publish", "subscribe", "unsubscribe"}
    /\ \A i \in DOMAIN incoming : incoming[i].n \in 1..MaxMsgs
    /\ entries \in [Topics -> Nat] /\ published \in 0..MaxMsgs
    /\ left \subseteq made /\ made \subseteq Subs
    /\ shared \subseteq Topics /\ silenced \subseteq Topics /\ extra \in 0..MaxExtra
    /\ got \in [Subs -> SUBSET (1..MaxMsgs)] /\ late \in [Subs -> Nat]

\* Once its requests are read, the server has this client listed under a topic as often
\* as the client has handlers of it, so that it is sent no topic it has no handler for;
\* except a topic whose last unsubscribe left a handler listed, because it was of
\* another subscription of the topic, or of one given up before: that took all of them.
ServerAgrees ==
    conn = "up" /\ closing # "done" /\ requests = <<>> =>
        \A t \in Topics : /\ t \notin silenced => entries[t] = Len(handlers[t])
                          /\ t \in silenced => handlers[t] # <<>>

\* A handler is called once with a message, however subscriptions follow each other,
\* unless the topic has had two at a time; and after unsubscribe has returned at most once
\* more: with the message whose snapshot the reader already had.
CalledInBounds == twice \subseteq shared /\ \A s \in Subs : late[s] <= 1

Owed(s, n) == \E i \in DOMAIN incoming : incoming[i].n = n /\ s \in incoming[i].due

EveryHandlerHears ==
    \A s \in Subs, n \in 1..MaxMsgs :
        Owed(s, n) ~> (n \in got[s] \/ s \in left \/ closing # "no" \/ conn = "gone")

CloseEnds == closing = "wanted" /\ conn = "gone" ~> closing = "done"

\* A message the server has sent after it read a subscription reaches its handler,
\* whatever other handlers do, unless the subscription or the connection ends first; and
\* close(), which waits for the reader's readline(), returns once the server has gone.
ReaderServes == EveryHandlerHears /\ CloseEnds
===============================================================================
