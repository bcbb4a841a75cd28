------------------------------- MODULE TcpServer -------------------------------
(***************************************************************************)
(* eventbus/tcp.py: TCPEventBusServer, with a thread per connection, the   *)
(* accept thread and the thread that calls start() and stop().             *)
(*                                                                         *)
(* _lock guards the registry, but a publish that meets a broken connection *)
(* calls _remove_client without it, so a removal is as many steps as it    *)
(* reads and writes of the registry, each atomic under the interpreter's   *)
(* own lock.  What is done in one read or write, or under _lock in the     *)
(* company of threads that all take it, is one step.                       *)
(*                                                                         *)
(* External: TCP.  A send to a connection whose client has gone fails or   *)
(* is still buffered, and so are lines the client sent before it went.     *)
(***************************************************************************)
EXTENDS Lists, FiniteSets

CONSTANTS Conns,         \* connections, each accepted at most once
          Topics,        \* topic names
          MaxEntries,    \* bound: the length of a topic's list
          Free           \* "nobody holds the lock"

ASSUME ServerAssumption == MaxEntries \in Nat /\ Free \notin Conns

VARIABLES
    listening,       \* self._server_sock: "none", "open", or "unbound" if bind() failed
    stopped,         \* self._stopped
    accepting,       \* the accept thread has not left its loop
    lock,            \* who holds self._lock
    clients,         \* self._clients
    topic_clients,   \* self._topic_clients: topic -> connections
    sock,            \* each connection: "broken" once its client has gone
    at,              \* where the thread of each connection is
    local,           \* its variables: the targets of a publish; of a removal, whom to
                     \* take out, the topics left and the list to write back
    \* History, read by no action:
    wants,           \* the topics each connection was told it is subscribed to
    unlocked,        \* _remove_client has run without the lock
    crashed          \* a thread has met KeyError or ValueError

registry == <<clients, topic_clients>>
history == <<wants, unlocked, crashed>>
vars == <<listening, stopped, accepting, lock, registry, sock, at, local, history>>

Idle == [targets |-> <<>>, who |-> Free, todo |-> {}, topic |-> Free, keep |-> <<>>]

Init ==
    /\ listening = "none" /\ stopped = FALSE /\ accepting = FALSE /\ lock = Free
    /\ clients = {} /\ topic_clients = <<>>
    /\ sock = [c \in Conns |-> "none"] /\ at = [c \in Conns |-> "none"]
    /\ local = [c \in Conns |-> Idle]
    /\ wants = [c \in Conns |-> {}] /\ unlocked = FALSE /\ crashed = FALSE

ListOf(t) == IF t \in DOMAIN topic_clients THEN topic_clients[t] ELSE <<>>
Put(t, list) == [u \in DOMAIN topic_clients \union {t} |->
                    IF u = t THEN list ELSE topic_clients[u]]
Goes(c, where) == at' = [at EXCEPT ![c] = where]

-------------------------------------------------------------------------------
(* start(), clients, the accept thread and stop() *)

\* A port on which a socket still listens cannot be bound.  _stopped is never cleared: the
\* accept thread of a server that was stopped before ends at once.
Start ==
    /\ listening # "open" /\ ~(listening = "unbound" /\ accepting)
    /\ listening' = "open" /\ accepting' = (accepting \/ ~stopped)
    /\ UNCHANGED <<stopped, lock, registry, sock, at, local, history>>

\* start() of a server that has been started: bind() raises OSError, and the new socket has
\* replaced the one that listens.
StartFails ==
    /\ listening = "open" /\ listening' = "unbound"
    /\ UNCHANGED <<stopped, accepting, lock, registry, sock, at, local, history>>

\* accept() returns c.  Its thread may have tested _stopped before stop() set it.
Connect(c) ==
    /\ accepting /\ at[c] = "none" /\ \A d \in Conns : at[d] # "accepted"
    /\ sock' = [sock EXCEPT ![c] = "open"] /\ Goes(c, "accepted")
    /\ UNCHANGED <<listening, stopped, accepting, lock, registry, local, history>>

\* Mutant: what accept() returns, the connection and its address, is listed whole.
AcceptedPair(c) ==
    /\ at[c] = "accepted" /\ lock = Free
    /\ clients' = clients \union {<<c, Free>>} /\ Goes(c, "looping")
    /\ accepting' = (~stopped /\ listening = "open")
    /\ UNCHANGED <<listening, stopped, lock, topic_clients, sock, local, history>>

\* It is listed and gets its thread, which may be after stop() has cleared the list.
Accepted(c) ==
    /\ at[c] = "accepted" /\ lock = Free
    /\ clients' = clients \union {c} /\ Goes(c, "looping")
    /\ accepting' = (~stopped /\ listening = "open")
    /\ UNCHANGED <<listening, stopped, lock, topic_clients, sock, local, history>>

\* A timeout of accept() and the test of _stopped, or a socket that is closed or not bound.
AcceptEnds ==
    /\ accepting /\ (stopped \/ listening # "open") /\ \A c \in Conns : at[c] # "accepted"
    /\ accepting' = FALSE
    /\ UNCHANGED <<listening, stopped, lock, registry, sock, at, local, history>>

ClientGoes(c) ==
    /\ sock[c] = "open"
    /\ sock' = [sock EXCEPT ![c] = "broken"]
    /\ UNCHANGED <<listening, stopped, accepting, lock, registry, at, local, history>>

StopSet ==
    /\ ~stopped /\ stopped' = TRUE
    /\ UNCHANGED <<listening, accepting, lock, registry, sock, at, local, history>>

StopClears ==
    /\ stopped /\ lock = Free
    /\ sock' = [c \in Conns |-> IF c \in clients THEN "closed" ELSE sock[c]]
    /\ clients' = {} /\ topic_clients' = <<>> /\ listening' = "none"
    /\ UNCHANGED <<stopped, accepting, lock, at, local, history>>

-------------------------------------------------------------------------------
(* The loop of a connection's thread: readline(), then one of three actions *)

Loops(c) ==
    /\ at[c] = "looping" /\ ~stopped
    /\ Goes(c, "reading")
    /\ UNCHANGED <<listening, stopped, accepting, lock, registry, sock, local, history>>

Subscribe(c, t) ==
    /\ at[c] = "reading" /\ lock = Free /\ Len(ListOf(t)) < MaxEntries
    /\ topic_clients' = Put(t, Append(ListOf(t), c))
    /\ wants' = [wants EXCEPT ![c] = @ \union {t}] /\ Goes(c, "looping")
    /\ UNCHANGED <<listening, stopped, accepting, lock, clients, sock, local, unlocked, crashed>>

\* Mutant: without "with self._lock".
UnsubscribeUnlocked(c, t) ==
    /\ at[c] = "reading"
    /\ local' = [local EXCEPT ![c].topic = t, ![c].keep = Without(ListOf(t), c)]
    /\ wants' = [wants EXCEPT ![c] = @ \ {t}] /\ Goes(c, "writing")
    /\ UNCHANGED <<listening, stopped, accepting, lock, registry, sock, unlocked, crashed>>

\* The lock is taken and the filtered list made: a topic without a list is none yet.
Unsubscribe(c, t) ==
    /\ at[c] = "reading" /\ lock = Free
    /\ lock' = c
    /\ local' = [local EXCEPT ![c].topic = t, ![c].keep = Without(ListOf(t), c)]
    /\ wants' = [wants EXCEPT ![c] = @ \ {t}] /\ Goes(c, "writing")
    /\ UNCHANGED <<listening, stopped, accepting, registry, sock, unlocked, crashed>>

Publish(c, t) ==
    /\ at[c] = "reading" /\ lock = Free
    /\ local' = [local EXCEPT ![c].targets = ListOf(t)] /\ Goes(c, "sending")
    /\ UNCHANGED <<listening, stopped, accepting, lock, registry, sock, history>>

Sends(c) ==
    /\ at[c] = "sending"
    /\ IF local[c].targets = <<>>
          THEN Goes(c, "looping") /\ UNCHANGED local
          ELSE /\ sock[Head(local[c].targets)] # "closed"
               /\ local' = [local EXCEPT ![c].targets = Tail(@)] /\ UNCHANGED at
    /\ UNCHANGED <<listening, stopped, accepting, lock, registry, sock, history>>

\* sendall raises: _remove_client(client), and the lock is not taken.
SendFails(c) ==
    /\ at[c] = "sending" /\ local[c].targets # <<>>
    /\ sock[Head(local[c].targets)] # "open"
    /\ local' = [local EXCEPT ![c].targets = Tail(@), ![c].who = Head(local[c].targets)]
    /\ unlocked' = TRUE /\ Goes(c, "testing")
    /\ UNCHANGED <<listening, stopped, accepting, lock, registry, sock, wants, crashed>>

\* End of file, a broken or closed socket, _stopped, or an exception: finally.
Ends(c) ==
    /\ \/ at[c] = "looping" /\ stopped
       \/ at[c] = "reading" /\ sock[c] # "open"
       \/ at[c] = "raised"
    /\ sock' = [sock EXCEPT ![c] = "closed"]
    /\ local' = [local EXCEPT ![c] = Idle] /\ Goes(c, "closed")
    /\ UNCHANGED <<listening, stopped, accepting, lock, registry, history>>

FinallyRemoves(c) ==
    /\ at[c] = "closed" /\ lock = Free
    /\ lock' = c
    /\ local' = [local EXCEPT ![c].who = c]
    /\ wants' = [wants EXCEPT ![c] = {}] /\ Goes(c, "testing")
    /\ UNCHANGED <<listening, stopped, accepting, registry, sock, unlocked, crashed>>

-------------------------------------------------------------------------------
(* _remove_client(who), and from "writing" on also the "unsubscribe" of a topic *)

\* The removal is over, or has failed: the lock, if held, is given back, and whoever
\* called goes on.  A thread that held it for its own connection was in finally.
Calls(c) == IF lock # c THEN "sending" ELSE IF local[c].who = c THEN "dead" ELSE "looping"
Over(c, where) ==
    /\ lock' = IF lock = c THEN Free ELSE lock
    /\ local' = [local EXCEPT ![c] = [Idle EXCEPT !.targets = local[c].targets]]
    /\ Goes(c, where)
    /\ UNCHANGED <<listening, stopped, accepting, registry, sock, wants, unlocked>>

\* if conn in self._clients; if it is not, the topics are listed at once.
TestsClients(c) ==
    /\ at[c] = "testing"
    /\ IF local[c].who \in clients
          THEN Goes(c, "unlisting") /\ UNCHANGED local
          ELSE /\ local' = [local EXCEPT ![c].todo = DOMAIN topic_clients]
               /\ Goes(c, "filtering")
    /\ UNCHANGED <<listening, stopped, accepting, lock, registry, sock, history>>

Unlists(c) ==
    /\ at[c] = "unlisting" /\ local[c].who \in clients
    /\ clients' = clients \ {local[c].who}
    /\ local' = [local EXCEPT ![c].todo = DOMAIN topic_clients]
    /\ Goes(c, "filtering")
    /\ UNCHANGED <<listening, stopped, accepting, lock, topic_clients, sock, history>>

Filters(c, t) ==
    /\ at[c] = "filtering" /\ t \in local[c].todo /\ t \in DOMAIN topic_clients
    /\ local' = [local EXCEPT ![c].todo = @ \ {t}, ![c].topic = t,
                              ![c].keep = Without(topic_clients[t], local[c].who)]
    /\ Goes(c, "writing")
    /\ UNCHANGED <<listening, stopped, accepting, lock, registry, sock, history>>

Writes(c) ==
    /\ at[c] = "writing"
    /\ topic_clients' = Put(local[c].topic, local[c].keep)
    /\ Goes(c, "dropping")
    /\ UNCHANGED <<listening, stopped, accepting, lock, clients, sock, local, history>>

\* if not lst: del, read and deleted as one.
DropsEmpty(c) ==
    /\ at[c] = "dropping" /\ local[c].topic \in DOMAIN topic_clients
    /\ topic_clients' = IF topic_clients[local[c].topic] = <<>>
                           THEN Restrict(topic_clients, DOMAIN topic_clients \ {local[c].topic})
                           ELSE topic_clients
    /\ local' = [local EXCEPT ![c].topic = Free, ![c].keep = <<>>]
    /\ Goes(c, "filtering")
    /\ UNCHANGED <<listening, stopped, accepting, lock, clients, sock, history>>

Returns(c) ==
    /\ at[c] = "filtering" /\ local[c].todo = {}
    /\ Over(c, Calls(c)) /\ UNCHANGED crashed

\* The entry seen before has gone: ValueError in remove(), KeyError in the rest.  Only
\* the finally block is not inside the try: its thread is dead at once.
Vanished(c) ==
    \/ at[c] = "unlisting" /\ local[c].who \notin clients
    \/ at[c] = "filtering" /\ \E t \in local[c].todo : t \notin DOMAIN topic_clients
    \/ at[c] = "dropping" /\ local[c].topic \notin DOMAIN topic_clients

\* Mutant: the lock is kept by the thread that fails.
CrashesLocked(c) ==
    /\ Vanished(c) /\ crashed' = TRUE
    /\ Goes(c, IF Calls(c) = "dead" THEN "dead" ELSE "raised")
    /\ UNCHANGED <<listening, stopped, accepting, lock, registry, sock, local, wants, unlocked>>

Crashes(c) ==
    /\ Vanished(c) /\ crashed' = TRUE
    /\ Over(c, IF Calls(c) = "dead" THEN "dead" ELSE "raised")

-------------------------------------------------------------------------------
\* What the server's threads do without waiting for their client.
ThreadStep(c) ==
    \/ Accepted(c) \/ Loops(c) \/ Sends(c) \/ SendFails(c) \/ Ends(c) \/ FinallyRemoves(c)
    \/ TestsClients(c) \/ Unlists(c) \/ (\E t \in Topics : Filters(c, t))
    \/ Writes(c) \/ DropsEmpty(c) \/ Returns(c) \/ Crashes(c)

Next ==
    \/ \E c \in Conns : Connect(c) \/ ClientGoes(c)
    \/ Start \/ StartFails \/ StopSet \/ StopClears \/ AcceptEnds
    \/ \E c \in Conns, t \in Topics : Subscribe(c, t) \/ Unsubscribe(c, t) \/ Publish(c, t)
    \/ \E c \in Conns : ThreadStep(c)

Spec == Init /\ [][Next]_vars

\* Threads are scheduled, and the lock is handed on to each that waits for it.
FairSpec == Spec /\ SF_vars(StopClears) /\ WF_vars(AcceptEnds) /\ \A c \in Conns : SF_vars(ThreadStep(c))
-------------------------------------------------------------------------------
\* The types of the server's fields, of its threads' variables and of the history.
TypeOK ==
    /\ listening \in {"none", "open", "unbound"}
    /\ {stopped, accepting, unlocked, crashed} \subseteq BOOLEAN
    /\ lock \in Conns \union {Free}
    /\ clients \subseteq Conns
    /\ DOMAIN topic_clients \subseteq Topics
    /\ \A t \in DOMAIN topic_clients : topic_clients[t] \in Seq(Conns)
    /\ sock \in [Conns -> {"none", "open", "broken", "closed"}]
    /\ \A c \in Conns : local[c].targets \in Seq(Conns) /\ local[c].keep \in Seq(Conns)
    /\ wants \in [Conns -> SUBSET Topics]

\* As long as no send has failed, the lock protects the registry: no thread dies of
\* it, and with the lock free and the server running each topic lists exactly the
\* connections that were told they are subscribed, and no topic is listed empty.
LockProtects ==
    ~unlocked =>
        /\ ~crashed
        /\ lock = Free /\ ~stopped =>
              \A t \in Topics :
                 /\ Range(ListOf(t)) = {c \in Conns : t \in wants[c]}
                 /\ t \in DOMAIN topic_clients => topic_clients[t] # <<>>

\* tcp.py:130 "Drop broken client from all topics": while the server runs and no
\* removal is under way, a connection whose thread has ended is in no topic's list.
DroppedFromAll ==
    ~stopped /\ (\A c \in Conns : at[c] \notin {"unlisting", "testing", "filtering", "writing", "dropping"})
    => \A t \in DOMAIN topic_clients, c \in Conns :
          at[c] = "dead" => c \notin Range(topic_clients[t])

\* stop() leaves no connection open and no thread running, a connection accepted at
\* the same moment included, whatever threads die of the unlocked removal.
StopEndsAll ==
    stopped ~> ~accepting /\ \A c \in Conns : sock[c] \in {"none", "closed"} /\ at[c] \in {"none", "dead"}
===============================================================================
