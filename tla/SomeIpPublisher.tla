---------------------------- MODULE SomeIpPublisher ----------------------------
(***************************************************************************)
(* eventbus/someip.py: the sending side of SomeIPEventBus in publisher     *)
(* mode, run by one asyncio event loop.                                    *)
(*                                                                         *)
(* The first publish() for a service makes its SomeIPPublisher, awaits its *)
(* UDP endpoint and then enters it in _publishers.  Other publish() calls, *)
(* stop() and start() run in between, and a caller that gives up cancels   *)
(* the publish there.                                                      *)
(*                                                                         *)
(* External: the socket of local_ip (an address, not a name) is bound when *)
(* the endpoint is asked for, and a port that is taken raises OSError; a   *)
(* service is found by remote subscribers while the announcer it was given *)
(* belongs to a running Service Discovery.  Of the other buses of the      *)
(* process only what they share with this one is modelled: the allocator,  *)
(* and the ports they bind where they have the same local_ip.              *)
(***************************************************************************)
EXTENDS SomeIpStack, PortAllocator, FiniteSets, Functions, Sequences

CONSTANTS Topics,        \* the topics with a mapping
          Service,       \* the (service_id, instance_id) of each topic
          Group,         \* the eventgroup_id of each topic
          Callers,       \* tasks that call publish()
          BasePorts,     \* publisher_port of the buses of this process
          MaxPort,       \* the highest UDP port
          ForeignPorts,  \* ports bound by other processes
          MaxPublishes   \* bound: publish() calls

ASSUME PublisherAssumption ==
    /\ Topics # {}
    /\ DOMAIN Service = Topics /\ DOMAIN Group = Topics
    /\ Range(Service) \subseteq ServiceKeys
    /\ BasePorts \subseteq Nat /\ MaxPort \in Nat /\ MaxPublishes \in Nat

VARIABLES
    base,          \* self.publisher_port_base
    alloc,         \* _NEXT_PORT and _ALLOCATED_PORTS
    elsewhere,     \* this bus's services whose port another bus of the process has bound
    ports,         \* self._service_ports
    publishers,    \* self._publishers: service -> publisher
    objs,          \* every SomeIPPublisher whose endpoint was asked for
    calls,         \* the publish() call of each task
    \* History, read by no action but for the bound:
    last,          \* how the latest publish() ended
    ended,         \* how many have ended
    races          \* the timing hazards this behaviour went through

vars == <<stack, base, alloc, elsewhere, ports, publishers, objs, calls, last, ended, races>>

NoObj == 0
NoAnnouncer == 0
Idle == [topic |-> CHOOSE t \in Topics : TRUE, obj |-> NoObj]
Services == Range(Service)

Init ==
    /\ StackInit
    /\ base \in BasePorts
    /\ alloc = Fresh /\ elsewhere = {} /\ ports = <<>>
    /\ publishers = <<>> /\ objs = <<>>
    /\ calls = [c \in Callers |-> Idle]
    /\ last = [outcome |-> "none", topic |-> Idle.topic, obj |-> NoObj]
    /\ ended = 0 /\ races = {}

Open(o) == objs[o].open
Bound(port) ==
    \/ port \in ForeignPorts
    \/ \E k \in elsewhere : alloc.ports[k] = port
    \/ \E o \in DOMAIN objs : Open(o) /\ objs[o].port = port
Binding == {c \in Callers : calls[c].obj # NoObj}

Made == DOMAIN ports = Services

MayPublish(c) == Made /\ c \notin Binding /\ ended + Cardinality(Binding) < MaxPublishes

-------------------------------------------------------------------------------
\* __init__ asks for the ports of its services one after the other ...
PreallocatesPort(k) ==
    /\ k \in Services \ DOMAIN ports
    /\ alloc' = GetServicePort(alloc, k, base)
    /\ ports' = [x \in DOMAIN ports \union {k} |-> alloc'.ports[x]]
    /\ UNCHANGED <<stack, base, elsewhere, publishers, objs, calls, last, ended, races>>

\* ... and so do other buses of the process, before, meanwhile and after.
OtherBusAsks(k, itsBase) ==
    /\ alloc' = GetServicePort(alloc, k, itsBase)
    /\ UNCHANGED <<stack, base, elsewhere, ports, publishers, objs, calls, last, ended, races>>

\* One with a service of this bus is given the same port, binds it for its own publish()
\* and closes it with its stop().
OtherBusBinds(k) ==
    /\ k \in DOMAIN alloc.ports /\ alloc.ports[k] <= MaxPort /\ ~Bound(alloc.ports[k])
    /\ elsewhere' = elsewhere \union {k}
    /\ UNCHANGED <<stack, base, alloc, ports, publishers, objs, calls, last, ended, races>>

OtherBusCloses(k) ==
    /\ k \in elsewhere
    /\ elsewhere' = elsewhere \ {k}
    /\ UNCHANGED <<stack, base, alloc, ports, publishers, objs, calls, last, ended, races>>

Start ==
    /\ Made /\ StartCalled
    /\ UNCHANGED <<base, alloc, elsewhere, ports, publishers, objs, calls, last, ended, races>>

Started(discovery) ==
    /\ StartReturns(discovery)
    /\ races' = IF started THEN races \union {"started twice"} ELSE races
    /\ UNCHANGED <<base, alloc, elsewhere, ports, publishers, objs, calls, last, ended>>

\* SomeIPPublisher.stop() of those in O closes their endpoints.
Closed(O) == [o \in DOMAIN objs |-> IF o \in O THEN [objs[o] EXCEPT !.open = FALSE] ELSE objs[o]]

\* Mutant: the stopped publishers stay entered.
StopKeepsPublishers ==
    /\ StackStops
    /\ objs' = Closed(Range(publishers))
    /\ races' = IF Binding # {} THEN races \union {"stopped while binding"} ELSE races
    /\ UNCHANGED <<base, alloc, elsewhere, ports, publishers, calls, last, ended>>

\* The publishers entered in _publishers are stopped; one that is still being bound
\* is not among them.
Stop ==
    /\ StackStops
    /\ objs' = Closed(Range(publishers))
    /\ publishers' = <<>>
    /\ races' = IF Binding # {} THEN races \union {"stopped while binding"} ELSE races
    /\ UNCHANGED <<base, alloc, elsewhere, ports, calls, last, ended>>

Ends(t, outcome, o) ==
    /\ last' = [outcome |-> outcome, topic |-> t, obj |-> o]
    /\ ended' = ended + 1

\* SomeIPPublisher.notify: an eventgroup that was not registered raises ValueError.
Notified(t, o, groups) == Ends(t, IF Group[t] \in groups THEN "sent" ELSE "ValueError", o)

\* publish() on a bus that is not started logs a warning and returns.
PublishDropped(c, t) ==
    /\ MayPublish(c)
    /\ ~started
    /\ Ends(t, "dropped", NoObj)
    /\ UNCHANGED <<stack, base, alloc, elsewhere, ports, publishers, objs, calls, races>>

\* publish() for a service that has its publisher.
PublishNotifies(c, t) ==
    /\ MayPublish(c)
    /\ started /\ Service[t] \in DOMAIN publishers
    /\ Notified(t, publishers[Service[t]], objs[publishers[Service[t]]].groups)
    /\ UNCHANGED <<stack, base, alloc, elsewhere, ports, publishers, objs, calls, races>>

\* publish() for a service without publisher asks the allocator for its port, though
\* __init__ did, and makes a publisher with the one eventgroup of this topic.
NeedsPublisher(c, t) ==
    /\ MayPublish(c)
    /\ started /\ Service[t] \notin DOMAIN publishers
    /\ alloc' = GetServicePort(alloc, Service[t], base)

PublishFails(c, t) ==
    LET port == ports[Service[t]] IN
    /\ NeedsPublisher(c, t)
    /\ \/ port > MaxPort /\ Ends(t, "OverflowError", NoObj)
       \/ port <= MaxPort /\ Bound(port) /\ Ends(t, "OSError", NoObj)
    /\ UNCHANGED <<stack, base, elsewhere, ports, publishers, objs, calls, races>>

\* add_eventgroup() queues the one eventgroup of a topic; start() registers what is queued.
AddEventgroup(t) == {Group[t]}

\* Mutant: the publisher that is being bound is forgotten.
PublishBindsUnkept(c, t) ==
    /\ NeedsPublisher(c, t)
    /\ ports[Service[t]] <= MaxPort /\ ~Bound(ports[Service[t]])
    /\ calls' = [calls EXCEPT ![c] = [topic |-> t, obj |-> Len(objs) + 1]]
    /\ UNCHANGED <<stack, base, elsewhere, ports, publishers, objs, last, ended, races>>

\* self._sd_announcer: of the stack built last, unless start() met OSError.
Announcer == IF sd[Len(sd)] = "none" THEN NoAnnouncer ELSE Len(sd)

PublishBinds(c, t) ==
    LET port == ports[Service[t]] IN
    /\ NeedsPublisher(c, t)
    /\ port <= MaxPort /\ ~Bound(port)
    /\ objs' = Append(objs, [service |-> Service[t], port |-> port, open |-> TRUE,
                             groups |-> AddEventgroup(t), announcer |-> Announcer])
    /\ calls' = [calls EXCEPT ![c] = [topic |-> t, obj |-> Len(objs) + 1]]
    /\ UNCHANGED <<stack, base, elsewhere, ports, publishers, last, ended, races>>

\* Mutant: the new publisher is not entered.
PublisherBoundUnregistered(c) ==
    /\ c \in Binding
    /\ Notified(calls[c].topic, calls[c].obj, objs[calls[c].obj].groups)
    /\ calls' = [calls EXCEPT ![c] = Idle]
    /\ UNCHANGED <<stack, base, alloc, elsewhere, ports, publishers, objs, races>>

\* The endpoint exists: the service is announced with the announcer publish() read
\* before, the publisher is entered, and the message is sent, started or not.
PublisherBound(c) ==
    LET o == calls[c].obj IN
    /\ c \in Binding
    /\ publishers' = [s \in DOMAIN publishers \union {objs[o].service} |->
                         IF s = objs[o].service THEN o ELSE publishers[s]]
    /\ Notified(calls[c].topic, o, objs[o].groups)
    /\ calls' = [calls EXCEPT ![c] = Idle]
    /\ UNCHANGED <<stack, base, alloc, elsewhere, ports, objs, races>>

\* The caller gives up waiting: the endpoint is closed again.
PublishCancelled(c) ==
    /\ c \in Binding
    /\ objs' = Closed({calls[c].obj})
    /\ Ends(calls[c].topic, "cancelled", NoObj)
    /\ calls' = [calls EXCEPT ![c] = Idle]
    /\ UNCHANGED <<stack, base, alloc, elsewhere, ports, publishers, races>>

Next ==
    \/ \E k \in Services : PreallocatesPort(k)
    \/ \E k \in ServiceKeys, itsBase \in BasePorts : OtherBusAsks(k, itsBase)
    \/ \E k \in Services : OtherBusBinds(k)
    \/ \E k \in Services : OtherBusCloses(k)
    \/ Start
    \/ \E discovery \in {"running", "none"} : Started(discovery)
    \/ Stop
    \/ \E c \in Callers, t \in Topics : PublishDropped(c, t)
    \/ \E c \in Callers, t \in Topics : PublishNotifies(c, t)
    \/ \E c \in Callers, t \in Topics : PublishFails(c, t)
    \/ \E c \in Callers, t \in Topics : PublishBinds(c, t)
    \/ \E c \in Callers : PublisherBound(c)
    \/ \E c \in Callers : PublishCancelled(c)

Spec == Init /\ [][Next]_vars
-------------------------------------------------------------------------------
\* The types of the bus's fields, of its calls and of the history.
TypeOK ==
    /\ StackTypeOK
    /\ IsAllocator(alloc)
    /\ base \in BasePorts /\ elsewhere \subseteq Services \intersect DOMAIN alloc.ports
    /\ DOMAIN ports \subseteq Services /\ \A k \in DOMAIN ports : ports[k] \in Nat
    /\ DOMAIN publishers \subseteq Services
    /\ Range(publishers) \subseteq DOMAIN objs
    /\ objs \in Seq([service : Services, port : Nat, open : BOOLEAN,
                     groups : SUBSET Range(Group), announcer : 0..Len(sd)])
    /\ \A c \in Callers : calls[c].topic \in Topics /\ calls[c].obj \in {NoObj} \union DOMAIN objs
    /\ ended \in 0..MaxPublishes

\* The services of the process keep distinct ports, whatever bases its buses ask for
\* and however often, and the bus keeps the ports it was given.
PortsDistinct ==
    /\ Sound(alloc)
    /\ \A k \in DOMAIN ports : k \in DOMAIN alloc.ports /\ ports[k] = alloc.ports[k]

\* The bus owns the endpoints it opened: each is the publisher of its service, where
\* stop() finds it, or is being bound by a publish().  Stopping while one is being
\* bound and calling start() twice at once are the ways to lose one.
NoServiceLost ==
    /\ \A s \in DOMAIN publishers : Open(publishers[s]) /\ objs[publishers[s]].service = s
    /\ races = {} =>
          \A o \in DOMAIN objs : Open(o) =>
              /\ started
              /\ o \in Range(publishers) \/ \E c \in Binding : calls[c].obj = o

\* A message goes out through a service that was announced to the Service Discovery that
\* runs now, or, where the start() in force met OSError and so found none, through one that
\* was announced to none; and publish() raises OSError, with which the message is lost,
\* only while another publish() is starting the same service, another bus of the process
\* has it, or another process has its port.
OutcomesExplained ==
    [][ended' # ended /\ races' = {} =>
         /\ last'.outcome = "sent" =>
              /\ started
              /\ \/ sd[Len(sd)] = "running" /\ objs[last'.obj].announcer = Len(sd)
                 \/ sd[Len(sd)] = "none" /\ objs[last'.obj].announcer = NoAnnouncer
         /\ last'.outcome = "OSError" =>
              \/ ports[Service[last'.topic]] \in ForeignPorts
              \/ Service[last'.topic] \in elsewhere
              \/ \E c \in Binding : Service[calls[c].topic] = Service[last'.topic]]_vars
===============================================================================
