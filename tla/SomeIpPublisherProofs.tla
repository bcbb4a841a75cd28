------------------------- MODULE SomeIpPublisherProofs -------------------------
(***************************************************************************)
(* For any number of services, buses, base ports and concurrent publish()  *)
(* calls: the ports of the services of a process, and then the endpoints   *)
(* the bus opens on them, which it keeps and whose failures it explains.   *)
(***************************************************************************)
EXTENDS SomeIpPublisher, FiniteSetTheorems, TLAPS

\* _get_service_port keeps the allocator well-formed and its ports distinct, never
\* changes a port it gave, and gives the asked service one that is at least the base
\* unless the service had its port before.
LEMMA GetServicePortSound ==
    ASSUME NEW a, IsAllocator(a), Sound(a), NEW key \in ServiceKeys, NEW b \in Nat
    PROVE  /\ IsAllocator(GetServicePort(a, key, b))
           /\ Sound(GetServicePort(a, key, b))
           /\ key \in DOMAIN GetServicePort(a, key, b).ports
           /\ \A k \in DOMAIN a.ports : /\ k \in DOMAIN GetServicePort(a, key, b).ports
                                        /\ GetServicePort(a, key, b).ports[k] = a.ports[k]
           /\ key \in DOMAIN a.ports \/ GetServicePort(a, key, b).ports[key] >= b
<1>1. CASE key \in DOMAIN a.ports
  BY <1>1 DEF GetServicePort
<1>2. CASE key \notin DOMAIN a.ports
  <2> DEFINE port == IF a.next < b THEN b ELSE a.next
             new  == GetServicePort(a, key, b)
  <2>1. port \in Nat /\ port >= a.next /\ port >= b
    BY DEF IsAllocator
  <2>2. /\ new.next = port + 1
        /\ DOMAIN new.ports = DOMAIN a.ports \union {key}
        /\ new.ports[key] = port
        /\ \A k \in DOMAIN a.ports : new.ports[k] = a.ports[k]
    BY <1>2 DEF GetServicePort
  <2>3. \A k \in DOMAIN a.ports : a.ports[k] \in Nat /\ a.ports[k] < port
    BY <2>1 DEF IsAllocator, Sound
  <2>4. new.ports \in [DOMAIN new.ports -> Nat]
    BY <1>2, <2>1, <2>3 DEF GetServicePort
  <2>5. IsAllocator(new)
    BY <2>1, <2>2, <2>4 DEF IsAllocator
  <2>6. \A k \in DOMAIN new.ports : new.ports[k] < new.next
    BY <2>1, <2>2, <2>3
  <2>7. \A k, l \in DOMAIN new.ports : new.ports[k] = new.ports[l] => k = l
    <3> SUFFICES ASSUME NEW k \in DOMAIN new.ports, NEW l \in DOMAIN new.ports,
                        new.ports[k] = new.ports[l]
                 PROVE  k = l
      OBVIOUS
    <3>1. CASE k \in DOMAIN a.ports /\ l \in DOMAIN a.ports
      BY <2>2, <3>1 DEF Sound
    <3>2. CASE k = key /\ l = key
      BY <3>2
    <3>3. CASE k \in DOMAIN a.ports /\ l = key
      BY <2>1, <2>2, <2>3, <3>3
    <3>4. CASE k = key /\ l \in DOMAIN a.ports
      BY <2>1, <2>2, <2>3, <3>4
    <3>5. QED
      BY <2>2, <3>1, <3>2, <3>3, <3>4
  <2>8. QED
    BY <2>1, <2>2, <2>5, <2>6, <2>7 DEF Sound
<1>3. QED
  BY <1>1, <1>2

-------------------------------------------------------------------------------
\* What the allocator's users rely on, and what keeps it so.
PortInv == IsAllocator(alloc) /\ base \in BasePorts /\ PortsDistinct

\* The services of the topics are services the allocator may know.
LEMMA ServicesAreKeys == Services \subseteq ServiceKeys /\ \A t \in Topics : Service[t] \in Services
  BY PublisherAssumption DEF Services, Range

\* At first no port is given away.
LEMMA InitPorts == Init => PortInv
<1> SUFFICES ASSUME Init PROVE PortInv
  OBVIOUS
<1>1. alloc.next = FirstPort /\ DOMAIN alloc.ports = {} /\ alloc.ports = [k \in {} |-> 0]
  BY DEF Init, Fresh
<1>2. IsAllocator(alloc)
  BY <1>1, AllocatorAssumption DEF IsAllocator
<1>3. DOMAIN ports = {}
  BY DEF Init
<1>4. QED
  BY <1>1, <1>2, <1>3 DEF Init, PortInv, PortsDistinct, Sound

\* Any bus may ask for a port at any time: the others keep theirs.
LEMMA AskPreserves ==
    ASSUME PortInv, NEW key \in ServiceKeys, NEW b \in BasePorts,
           alloc' = GetServicePort(alloc, key, b), UNCHANGED <<base, ports>>
    PROVE  PortInv'
<1>1. b \in Nat
  BY PublisherAssumption
<1>2. QED
  BY <1>1, GetServicePortSound DEF PortInv, PortsDistinct

\* Every step keeps the ports distinct.
LEMMA StepPorts == PortInv /\ [Next]_vars => PortInv'
<1> SUFFICES ASSUME PortInv, [Next]_vars PROVE PortInv'
  OBVIOUS
<1>1. ASSUME NEW k \in Services, PreallocatesPort(k) PROVE PortInv'
  <2>1. k \in ServiceKeys /\ base \in Nat
    BY ServicesAreKeys, PublisherAssumption DEF PortInv
  <2>2. /\ IsAllocator(alloc') /\ Sound(alloc')
        /\ k \in DOMAIN alloc'.ports
        /\ \A x \in DOMAIN alloc.ports : /\ x \in DOMAIN alloc'.ports
                                         /\ alloc'.ports[x] = alloc.ports[x]
    BY <1>1, <2>1, GetServicePortSound DEF PreallocatesPort, PortInv, PortsDistinct
  <2>3. \A x \in DOMAIN ports' : x \in DOMAIN alloc'.ports /\ ports'[x] = alloc'.ports[x]
    BY <1>1, <2>2 DEF PreallocatesPort, PortInv, PortsDistinct
  <2>4. QED
    BY <1>1, <2>2, <2>3 DEF PreallocatesPort, PortInv, PortsDistinct
<1>2. ASSUME NEW k \in ServiceKeys, NEW b \in BasePorts, OtherBusAsks(k, b) PROVE PortInv'
  BY <1>2, AskPreserves DEF OtherBusAsks
<1>3. ASSUME NEW c \in Callers, NEW t \in Topics, PublishFails(c, t) \/ PublishBinds(c, t)
      PROVE  PortInv'
  <2>1. /\ alloc' = GetServicePort(alloc, Service[t], base)
        /\ UNCHANGED <<base, ports>>
    BY <1>3 DEF PublishFails, PublishBinds, NeedsPublisher
  <2>2. Service[t] \in ServiceKeys /\ base \in BasePorts
    BY ServicesAreKeys DEF PortInv
  <2>3. QED
    BY <2>1, <2>2, AskPreserves
<1>4. CASE UNCHANGED <<base, alloc, ports>>
  BY <1>4 DEF PortInv, PortsDistinct
<1>5. QED
  BY <1>1, <1>2, <1>3, <1>4
  DEF Next, vars, OtherBusBinds, OtherBusCloses, Start, Started, Stop, PublishDropped,
      PublishNotifies, PublisherBound, PublishCancelled

\* No two services of a process ever share a port, and a bus keeps the ports it was
\* given, however many buses ask, from whatever bases, in whatever order.
THEOREM PortsStayDistinct == Spec => []PortsDistinct
<1>1. PortInv => PortsDistinct
  BY DEF PortInv
<1>2. QED
  BY <1>1, InitPorts, StepPorts, PTL DEF Spec
-------------------------------------------------------------------------------
\* What the bus relies on: a publish() that binds an endpoint has one of its own, open and
\* not entered yet, and the calls that have ended or bind are within the bound ...
CallsInv ==
    /\ calls \in [Callers -> [topic : Topics, obj : Nat]]
    /\ \A c \in Binding :
          /\ calls[c].obj \in DOMAIN objs /\ Open(calls[c].obj)
          /\ calls[c].obj \notin Range(publishers)
          /\ objs[calls[c].obj].service = Service[calls[c].topic]
    /\ \A c, d \in Binding : calls[c].obj = calls[d].obj => c = d
    /\ IsFiniteSet(Binding) /\ ended + Cardinality(Binding) <= MaxPublishes

\* ... a publisher has the port of its service, and at most one of a service is open ...
ObjsInv ==
    /\ \A o \in DOMAIN objs : /\ objs[o].service \in DOMAIN ports
                              /\ objs[o].port = ports[objs[o].service]
    /\ \A o, p \in DOMAIN objs : Open(o) /\ Open(p) /\ objs[o].service = objs[p].service => o = p

\* ... those entered are open and entered under their service ...
PublishersInv ==
    \A s \in DOMAIN publishers : Open(publishers[s]) /\ objs[publishers[s]].service = s

\* ... a bus that is started has a stack, whose Service Discovery has not been stopped ...
RunningInv == started => sd # <<>> /\ sd[Len(sd)] # "stopped"

\* ... a port that another bus has bound is one that was allocated ...
ElsewhereInv == elsewhere \subseteq Services \intersect DOMAIN alloc.ports

\* ... and away from the two races each open endpoint is held by the bus, and was given the
\* announcer that the bus has now.
AnnouncedInv ==
    races = {} =>
        \A o \in DOMAIN objs : Open(o) =>
            /\ started
            /\ o \in Range(publishers) \/ \E c \in Binding : calls[c].obj = o
            /\ objs[o].announcer = Announcer

Inv == PortInv /\ TypeOK /\ CallsInv /\ ObjsInv /\ PublishersInv /\ RunningInv /\ ElsewhereInv
       /\ AnnouncedInv

\* A caller outside publish() has no endpoint.
LEMMA IdleType == Idle \in [topic : Topics, obj : Nat] /\ Idle.obj = NoObj /\ Idle.topic \in Topics
  BY PublisherAssumption DEF Idle, NoObj

\* At first the bus has no endpoints.
LEMMA InitInv == Init => Inv
<1> SUFFICES ASSUME Init PROVE Inv
  OBVIOUS
<1>1. Binding = {}
  BY IdleType DEF Init, Binding
<1>2. PortInv
  BY InitPorts
<1>3. IsFiniteSet(Binding) /\ Cardinality(Binding) = 0
  BY <1>1, FS_EmptySet
<1>4. CallsInv
  BY <1>1, <1>3, IdleType, PublisherAssumption DEF Init, CallsInv
<1>5. TypeOK
  <2>1. DOMAIN publishers = {} /\ DOMAIN ports = {} /\ objs = <<>> /\ DOMAIN objs = {}
    BY DEF Init
  <2>2. StackTypeOK
    <3>1. started = FALSE /\ starting = 0 /\ sd = <<>>
      BY DEF Init, StackInit
    <3>2. sd \in Seq({"running", "stopped", "none"})
      BY <3>1
    <3>3. QED
      BY <3>1, <3>2 DEF StackTypeOK
  <2>3. IsAllocator(alloc) /\ base \in BasePorts
    BY <1>2 DEF PortInv
  <2>4. QED
    BY <2>1, <2>2, <2>3, IdleType, PublisherAssumption DEF Init, TypeOK, Range
<1>6. ObjsInv /\ PublishersInv /\ RunningInv /\ ElsewhereInv /\ AnnouncedInv
  BY DEF Init, StackInit, ObjsInv, PublishersInv, RunningInv, ElsewhereInv, AnnouncedInv
<1>7. QED
  BY <1>2, <1>4, <1>5, <1>6 DEF Inv

-------------------------------------------------------------------------------
\* The Service Discovery steps keep the stack's types, and stacks are only added.
LEMMA StackKeepsType ==
    ASSUME StackTypeOK,
           \/ StartCalled \/ StackStops \/ UNCHANGED stack
           \/ \E discovery \in {"running", "none"} : StartReturns(discovery)
    PROVE  StackTypeOK' /\ Len(sd') >= Len(sd) /\ Len(sd) \in Nat /\ Len(sd') \in Nat
<1>1. CASE StartCalled
  BY <1>1 DEF StackTypeOK, StartCalled
<1>2. CASE StackStops
  <2> DEFINE state == IF sd[Len(sd)] = "running" THEN "stopped" ELSE sd[Len(sd)]
  <2>1. sd \in Seq({"running", "stopped", "none"}) /\ Len(sd) \in 1..Len(sd)
    BY <1>2 DEF StackTypeOK, StackStops
  <2>2. state \in {"running", "stopped", "none"}
    BY <2>1
  <2>3. sd' = [sd EXCEPT ![Len(sd)] = state]
    BY <1>2 DEF StackStops
  <2>4. sd' \in Seq({"running", "stopped", "none"}) /\ Len(sd') = Len(sd)
    BY <2>1, <2>2, <2>3
  <2>5. ~started' /\ started' \in BOOLEAN /\ starting' \in Nat
    BY <1>2 DEF StackTypeOK, StackStops
  <2>6. QED
    BY <2>1, <2>4, <2>5 DEF StackTypeOK
<1>3. CASE UNCHANGED stack
  BY <1>3 DEF StackTypeOK, stack
<1>4. ASSUME NEW discovery \in {"running", "none"}, StartReturns(discovery)
      PROVE  StackTypeOK' /\ Len(sd') >= Len(sd) /\ Len(sd) \in Nat /\ Len(sd') \in Nat
  BY <1>4 DEF StackTypeOK, StartReturns
<1>5. QED
  BY <1>1, <1>2, <1>3, <1>4

\* A publisher, as far as the number of the stack it belongs to.
Publisher(n) == [service : Services, port : Nat, open : BOOLEAN,
                 groups : SUBSET Range(Group), announcer : 0..n]

\* What was announced in an earlier stack stays so when there are more.
LEMMA PublishersLater ==
    ASSUME NEW n \in Nat, NEW m \in Nat, n <= m, NEW s \in Seq(Publisher(n))
    PROVE  s \in Seq(Publisher(m))
<1>1. Publisher(n) \subseteq Publisher(m)
  BY DEF Publisher
<1>2. QED
  BY <1>1

\* Stopping publishers changes nothing of them but that they are closed.
LEMMA ClosedKeeps ==
    ASSUME NEW n \in Nat, objs \in Seq(Publisher(n)), NEW O
    PROVE  /\ Closed(O) \in Seq(Publisher(n))
           /\ DOMAIN Closed(O) = DOMAIN objs
           /\ \A o \in DOMAIN objs :
                 /\ Closed(O)[o].service = objs[o].service /\ Closed(O)[o].port = objs[o].port
                 /\ Closed(O)[o].announcer = objs[o].announcer
                 /\ Closed(O)[o].open <=> objs[o].open /\ o \notin O
<1>1. \A o \in DOMAIN objs : objs[o] \in Publisher(n)
  OBVIOUS
<1>2. \A o \in DOMAIN objs : Closed(O)[o] \in Publisher(n)
  BY <1>1 DEF Closed, Publisher
<1>3. DOMAIN Closed(O) = 1..Len(objs) /\ Len(objs) \in Nat
  BY DEF Closed
<1>4. Closed(O) \in Seq(Publisher(n))
  BY <1>2, <1>3 DEF Closed
<1>5. QED
  BY <1>1, <1>3, <1>4 DEF Closed, Publisher

\* What the invariant says of each field.
LEMMA InvTypes ==
    ASSUME Inv
    PROVE  /\ Len(sd) \in Nat /\ Len(objs) \in Nat
           /\ objs \in Seq(Publisher(Len(sd))) /\ DOMAIN objs = 1..Len(objs)
           /\ \A o \in DOMAIN objs : objs[o] \in Publisher(Len(sd))
           /\ \A c \in Callers : calls[c] \in [topic : Topics, obj : Nat]
           /\ \A c \in Binding : c \in Callers /\ calls[c].obj # NoObj
           /\ ended \in Nat /\ MaxPublishes \in Nat
           /\ Cardinality(Binding) \in Nat
<1>1. Len(sd) \in Nat /\ objs \in Seq(Publisher(Len(sd)))
  BY DEF Inv, TypeOK, StackTypeOK, Publisher
<1>2. Cardinality(Binding) \in Nat
  BY FS_CardinalityType DEF Inv, CallsInv
<1>3. QED
  BY <1>1, <1>2, PublisherAssumption DEF Inv, CallsInv, TypeOK, Binding

\* A stack that runs is the one built last.
LEMMA StackRuns ==
    ASSUME StackTypeOK, RunningInv,
           \/ StartCalled \/ StackStops \/ UNCHANGED stack
           \/ \E discovery \in {"running", "none"} : StartReturns(discovery)
    PROVE  RunningInv'
<1>1. CASE StartCalled
  BY <1>1 DEF StartCalled, RunningInv
<1>2. CASE StackStops
  BY <1>2 DEF StackStops, RunningInv
<1>3. CASE UNCHANGED stack
  BY <1>3 DEF stack, RunningInv
<1>4. ASSUME NEW discovery \in {"running", "none"}, StartReturns(discovery) PROVE RunningInv'
  <2>1. sd \in Seq({"running", "stopped", "none"}) /\ sd' = Append(sd, discovery)
    BY <1>4 DEF StartReturns, StackTypeOK
  <2>2. sd' # <<>> /\ sd'[Len(sd')] = discovery
    BY <2>1
  <2>3. QED
    BY <2>2 DEF RunningInv
<1>5. QED
  BY <1>1, <1>2, <1>3, <1>4

\* Every step leaves the allocator, or asks it for a port of a service.
LEMMA AllocatorSteps ==
    ASSUME Inv, [Next]_vars
    PROVE  alloc' = alloc \/ \E k \in ServiceKeys, b \in Nat : alloc' = GetServicePort(alloc, k, b)
<1> USE PublisherAssumption, ServicesAreKeys
<1>1. ASSUME NEW k \in Services, PreallocatesPort(k)
      PROVE  \E x \in ServiceKeys, b \in Nat : alloc' = GetServicePort(alloc, x, b)
  BY <1>1 DEF PreallocatesPort, Inv, PortInv
<1>2. ASSUME NEW k \in ServiceKeys, NEW b \in BasePorts, OtherBusAsks(k, b)
      PROVE  \E x \in ServiceKeys, n \in Nat : alloc' = GetServicePort(alloc, x, n)
  BY <1>2 DEF OtherBusAsks
<1>3. ASSUME NEW c \in Callers, NEW t \in Topics, NeedsPublisher(c, t)
      PROVE  \E x \in ServiceKeys, b \in Nat : alloc' = GetServicePort(alloc, x, b)
  BY <1>3 DEF NeedsPublisher, Inv, PortInv
<1>4. QED
  BY <1>1, <1>2, <1>3
  DEF Next, vars, OtherBusBinds, OtherBusCloses, Start, Started, Stop, PublishDropped,
      PublishNotifies, PublishFails, PublishBinds, PublisherBound, PublishCancelled

\* Every step changes what other buses have bound in one of three ways.
LEMMA ElsewhereSteps ==
    ASSUME Next
    PROVE  elsewhere' = elsewhere
           \/ \E k \in Services : OtherBusBinds(k) \/ OtherBusCloses(k)
BY DEF Next, PreallocatesPort, OtherBusAsks, Start, Started, Stop, PublishDropped,
       PublishNotifies, PublishFails, NeedsPublisher, PublishBinds, PublisherBound, PublishCancelled

\* The invariants of the ports and of the stack are kept by every step.
LEMMA StepCommon ==
    ASSUME Inv, [Next]_vars
    PROVE  /\ PortInv' /\ StackTypeOK' /\ RunningInv' /\ ElsewhereInv'
           /\ Len(sd') \in Nat /\ Len(sd') >= Len(sd)
<1>1. PortInv'
  BY StepPorts DEF Inv
<1>2. \/ StartCalled \/ StackStops \/ UNCHANGED stack
      \/ \E discovery \in {"running", "none"} : StartReturns(discovery)
  BY DEF Next, vars, PreallocatesPort, OtherBusAsks, OtherBusBinds, OtherBusCloses, Start, Started,
         Stop, PublishDropped, PublishNotifies, PublishFails, PublishBinds, PublisherBound,
         PublishCancelled
<1>3. DOMAIN alloc.ports \subseteq DOMAIN alloc'.ports
  BY AllocatorSteps, GetServicePortSound DEF Inv, PortInv, PortsDistinct
<1>4. ElsewhereInv'
  <2>1. elsewhere' \subseteq Services \intersect DOMAIN alloc.ports
    BY ElsewhereSteps DEF Inv, ElsewhereInv, OtherBusBinds, OtherBusCloses, vars
  <2>2. QED
    BY <1>3, <2>1 DEF ElsewhereInv
<1>5. QED
  BY <1>1, <1>2, <1>4, StackKeepsType, StackRuns DEF Inv, TypeOK

\* A step that touches neither publishers nor calls, but may end one of them at once.
LEMMA QuietStep ==
    ASSUME Inv, PortInv', StackTypeOK', RunningInv', ElsewhereInv',
           sd' = sd, started' = started,
           UNCHANGED <<publishers, objs, calls, races>>,
           DOMAIN ports \subseteq DOMAIN ports', DOMAIN ports' \subseteq Services,
           \A k \in DOMAIN ports : ports'[k] = ports[k],
           \A k \in DOMAIN ports' : ports'[k] \in Nat,
           ended' \in Nat, ended' + Cardinality(Binding) <= MaxPublishes
    PROVE  Inv'
<1>1. Binding' = Binding /\ \A o : Open(o)' = Open(o)
  BY DEF Binding, Open
<1>2. ended' \in 0..MaxPublishes
  BY InvTypes
<1>3. TypeOK'
  <2>1. objs' \in Seq(Publisher(Len(sd')))
    BY InvTypes
  <2>2. QED
    BY <1>2, <2>1 DEF Inv, TypeOK, PortInv, ElsewhereInv, Publisher
<1>4. CallsInv'
  BY <1>1 DEF Inv, CallsInv
<1>5. ObjsInv'
  BY <1>1 DEF Inv, ObjsInv
<1>6. PublishersInv'
  BY <1>1 DEF Inv, PublishersInv
<1>7. AnnouncedInv'
  BY <1>1 DEF Inv, AnnouncedInv, Announcer
<1>8. QED
  BY <1>3, <1>4, <1>5, <1>6, <1>7 DEF Inv

\* start() builds a new stack: publishers that were announced to the one before it are
\* what the race "started twice" stands for.
LEMMA StartedStep ==
    ASSUME Inv, NEW discovery \in {"running", "none"}, Started(discovery),
           PortInv', StackTypeOK', RunningInv', ElsewhereInv'
    PROVE  Inv'
<1>1. /\ Len(sd') = Len(sd) + 1
      /\ UNCHANGED <<base, ports, publishers, objs, calls, ended>>
  <2>1. sd \in Seq({"running", "stopped", "none"}) /\ sd' = Append(sd, discovery)
    BY DEF Started, StartReturns, Inv, TypeOK, StackTypeOK
  <2>2. Len(sd') = Len(sd) + 1
    BY <2>1
  <2>3. QED
    BY <2>2 DEF Started
<1>2. Binding' = Binding /\ \A o : Open(o)' = Open(o)
  BY <1>1 DEF Binding, Open
<1>3. TypeOK'
  <2>1. objs' \in Seq(Publisher(Len(sd')))
    BY <1>1, InvTypes, PublishersLater
  <2>2. QED
    BY <1>1, <2>1 DEF Inv, TypeOK, PortInv, ElsewhereInv, Publisher
<1>4. CallsInv' /\ ObjsInv' /\ PublishersInv'
  BY <1>1, <1>2 DEF Inv, CallsInv, ObjsInv, PublishersInv
<1>5. AnnouncedInv'
  <2>1. SUFFICES ASSUME races' = {} PROVE \A o \in DOMAIN objs' : ~Open(o)'
    BY DEF AnnouncedInv
  <2>2. ~started /\ races = {}
    BY <2>1 DEF Started
  <2>3. QED
    BY <1>1, <1>2, <2>2 DEF Inv, AnnouncedInv
<1>6. QED
  BY <1>3, <1>4, <1>5 DEF Inv

\* stop() closes what is entered.  What is being bound survives it, which is a race.
LEMMA StopStep ==
    ASSUME Inv, Stop, PortInv', StackTypeOK', RunningInv', ElsewhereInv'
    PROVE  Inv'
<1>1. /\ Len(sd') = Len(sd) /\ ~started'
      /\ objs' = Closed(Range(publishers)) /\ publishers' = <<>>
      /\ UNCHANGED <<base, ports, calls, ended>>
  <2>1. sd \in Seq({"running", "stopped", "none"})
    BY DEF Inv, TypeOK, StackTypeOK
  <2>2. sd' = [sd EXCEPT ![Len(sd)] = IF @ = "running" THEN "stopped" ELSE @]
    BY DEF Stop, StackStops
  <2>3. Len(sd') = Len(sd)
    BY <2>1, <2>2
  <2>4. ~started'
    BY DEF Stop, StackStops
  <2>5. QED
    BY <2>3, <2>4 DEF Stop
<1>2. Binding' = Binding
  BY <1>1 DEF Binding
<1>3. /\ objs' \in Seq(Publisher(Len(sd'))) /\ DOMAIN objs' = DOMAIN objs
      /\ \A o \in DOMAIN objs :
            /\ objs'[o].service = objs[o].service /\ objs'[o].port = objs[o].port
            /\ objs'[o].open <=> Open(o) /\ o \notin Range(publishers)
  BY <1>1, InvTypes, ClosedKeeps DEF Open
<1>4. DOMAIN publishers' = {} /\ Range(publishers') = {}
  BY <1>1 DEF Range
<1>5. TypeOK'
  BY <1>1, <1>3, <1>4 DEF Inv, TypeOK, PortInv, ElsewhereInv, Publisher
<1>6. CallsInv'
  BY <1>1, <1>2, <1>3, <1>4 DEF Inv, CallsInv, Open
<1>7. ObjsInv' /\ PublishersInv'
  <2>1. ObjsInv'
    BY <1>1, <1>3 DEF Inv, ObjsInv, Open
  <2>2. PublishersInv'
    BY <1>4 DEF PublishersInv
  <2>3. QED
    BY <2>1, <2>2
<1>8. AnnouncedInv'
  <2>1. SUFFICES ASSUME races' = {} PROVE \A o \in DOMAIN objs' : ~objs'[o].open
    BY DEF AnnouncedInv, Open
  <2>2. Binding = {} /\ races = {}
    BY <2>1 DEF Stop
  <2>3. QED
    BY <1>3, <2>2 DEF Inv, AnnouncedInv
<1>9. QED
  BY <1>5, <1>6, <1>7, <1>8 DEF Inv

\* No open endpoint has the port that is free: the new one is the only one of its service.
LEMMA PublishBindsStep ==
    ASSUME Inv, NEW c \in Callers, NEW t \in Topics, PublishBinds(c, t),
           PortInv', StackTypeOK', RunningInv', ElsewhereInv'
    PROVE  Inv'
<1> DEFINE s   == Service[t]
           new == Len(objs) + 1
           obj == [service |-> s, port |-> ports[s], open |-> TRUE,
                   groups |-> AddEventgroup(t), announcer |-> Announcer]
<1>1. /\ objs' = Append(objs, obj) /\ ~Bound(ports[s])
      /\ calls' = [calls EXCEPT ![c] = [topic |-> t, obj |-> new]]
      /\ c \notin Binding /\ ended + Cardinality(Binding) < MaxPublishes
      /\ started /\ s \notin DOMAIN publishers /\ DOMAIN ports = Services
      /\ UNCHANGED <<started, sd, base, ports, publishers, ended, races>>
  BY DEF PublishBinds, NeedsPublisher, MayPublish, Made, stack
<1>2. /\ Len(objs) \in Nat /\ objs \in Seq(Publisher(Len(sd))) /\ Len(sd) \in Nat
      /\ DOMAIN objs = 1..Len(objs) /\ new \in Nat /\ new \notin DOMAIN objs /\ new # NoObj
  BY InvTypes DEF NoObj
<1>3. s \in Services /\ s \in DOMAIN ports /\ ports[s] \in Nat
  BY <1>1, ServicesAreKeys DEF Inv, TypeOK
<1>4. obj \in Publisher(Len(sd)) /\ Announcer \in 0..Len(sd)
  <2>1. Group[t] \in Range(Group)
    BY PublisherAssumption DEF Range
  <2>2. QED
    BY <1>2, <1>3, <2>1 DEF Publisher, AddEventgroup, Announcer, NoAnnouncer
<1>5. /\ objs' \in Seq(Publisher(Len(sd'))) /\ DOMAIN objs' = DOMAIN objs \union {new}
      /\ objs'[new] = obj /\ \A o \in DOMAIN objs : objs'[o] = objs[o]
  <2> HIDE DEF obj
  <2>1. QED
    BY <1>1, <1>2, <1>4
<1>6. /\ objs'[new].open /\ objs'[new].service = s /\ objs'[new].port = ports[s]
      /\ objs'[new].announcer = Announcer
      /\ \A o \in DOMAIN objs : objs'[o].open = Open(o)
  <2>1. obj.open /\ obj.service = s /\ obj.port = ports[s] /\ obj.announcer = Announcer
    OBVIOUS
  <2> HIDE DEF obj
  <2>2. QED
    BY <1>5, <2>1 DEF Open
<1>7. /\ Binding' = Binding \union {c} /\ calls'[c] = [topic |-> t, obj |-> new]
      /\ \A d \in Binding : calls'[d] = calls[d] /\ d # c
      /\ calls' \in [Callers -> [topic : Topics, obj : Nat]]
  BY <1>1, <1>2 DEF Binding, Inv, CallsInv
<1>8. IsFiniteSet(Binding') /\ Cardinality(Binding') = Cardinality(Binding) + 1
  BY <1>1, <1>7, FS_AddElement DEF Inv, CallsInv
<1>9. \A o \in DOMAIN objs : Open(o) => objs[o].service # s
  BY <1>1 DEF Bound, Inv, ObjsInv
<1>10. TypeOK'
  <2>1. \A d \in Callers : calls'[d].topic \in Topics /\ calls'[d].obj \in {NoObj} \union DOMAIN objs'
    BY <1>1, <1>5, <1>7 DEF Inv, TypeOK, CallsInv
  <2>2. QED
    BY <1>1, <1>5, <2>1 DEF Inv, TypeOK, PortInv, ElsewhereInv, Publisher
<1>11. CallsInv'
  <2>1. ended' + Cardinality(Binding') <= MaxPublishes
    BY <1>1, <1>8, InvTypes
  <2>2. \A o \in Range(publishers) : o \in DOMAIN objs
    BY DEF Inv, TypeOK
  <2>3. ASSUME NEW d \in Binding'
        PROVE  /\ calls'[d].obj \in DOMAIN objs' /\ objs'[calls'[d].obj].open
               /\ calls'[d].obj \notin Range(publishers)
               /\ objs'[calls'[d].obj].service = Service[calls'[d].topic]
    <3>1. CASE d = c
      BY <1>2, <1>5, <1>6, <1>7, <2>2, <3>1
    <3>2. CASE d \in Binding
      BY <1>5, <1>6, <1>7, <3>2 DEF Inv, CallsInv
    <3>3. QED
      BY <1>7, <3>1, <3>2
  <2>4. \A d, e \in Binding' : calls'[d].obj = calls'[e].obj => d = e
    BY <1>2, <1>7 DEF Inv, CallsInv
  <2>5. QED
    BY <1>1, <1>7, <1>8, <2>1, <2>3, <2>4 DEF CallsInv, Open
<1>12. ObjsInv'
  BY <1>1, <1>3, <1>5, <1>6, <1>9 DEF Inv, ObjsInv, Open
<1>13. PublishersInv'
  <2>1. \A k \in DOMAIN publishers : publishers[k] \in DOMAIN objs
    BY DEF Inv, TypeOK, Range
  <2>2. QED
    BY <1>1, <1>5, <1>6, <2>1 DEF Inv, PublishersInv, Open
<1>14. AnnouncedInv'
  <2>1. SUFFICES ASSUME races = {}, NEW o \in DOMAIN objs', objs'[o].open
                 PROVE  /\ started /\ objs'[o].announcer = Announcer
                        /\ o \in Range(publishers) \/ \E d \in Binding' : calls'[d].obj = o
    BY <1>1 DEF AnnouncedInv, Announcer, Open
  <2>2. CASE o = new
    BY <1>1, <1>6, <1>7, <2>2
  <2>3. CASE o \in DOMAIN objs
    <3>1. /\ objs[o].announcer = Announcer
          /\ o \in Range(publishers) \/ \E d \in Binding : calls[d].obj = o
      BY <1>6, <2>1, <2>3 DEF Inv, AnnouncedInv
    <3>2. QED
      BY <1>1, <1>5, <1>7, <2>3, <3>1
  <2>4. QED
    BY <1>5, <2>2, <2>3
<1>15. QED
  BY <1>10, <1>11, <1>12, <1>13, <1>14 DEF Inv

\* A call that ends binds no longer.
LEMMA CallEnds ==
    ASSUME Inv, NEW c \in Binding, calls' = [calls EXCEPT ![c] = Idle], ended' = ended + 1
    PROVE  /\ Binding' = Binding \ {c} /\ calls' \in [Callers -> [topic : Topics, obj : Nat]]
           /\ \A d \in Binding' : calls'[d] = calls[d] /\ calls[d].obj # calls[c].obj
           /\ \A d \in Callers : calls'[d] = calls[d] \/ calls'[d] = Idle
           /\ IsFiniteSet(Binding') /\ ended' + Cardinality(Binding') <= MaxPublishes
           /\ ended' \in 0..MaxPublishes
<1>1. c \in Callers
  BY DEF Binding
<1>2. /\ Binding' = Binding \ {c} /\ calls' \in [Callers -> [topic : Topics, obj : Nat]]
      /\ \A d \in Callers \ {c} : calls'[d] = calls[d]
      /\ calls'[c] = Idle
  BY <1>1, IdleType DEF Inv, CallsInv, Binding
<1>3. IsFiniteSet(Binding') /\ Cardinality(Binding') = Cardinality(Binding) - 1
  BY <1>2, FS_RemoveElement DEF Inv, CallsInv
<1>4. Cardinality(Binding') \in Nat
  BY <1>3, FS_CardinalityType
<1>5. ended' + Cardinality(Binding') <= MaxPublishes /\ ended' \in 0..MaxPublishes
  BY <1>3, <1>4, InvTypes DEF Inv, CallsInv
<1>6. \A d \in Binding' : calls'[d] = calls[d] /\ calls[d].obj # calls[c].obj
  BY <1>2 DEF Inv, CallsInv, Binding
<1>7. QED
  BY <1>2, <1>3, <1>5, <1>6

\* The publisher that is entered is its service's only open one: it replaces none.
LEMMA PublisherBoundStep ==
    ASSUME Inv, NEW c \in Callers, PublisherBound(c), PortInv', StackTypeOK', RunningInv', ElsewhereInv'
    PROVE  Inv'
<1> DEFINE o == calls[c].obj
           s == objs[o].service
<1>1. /\ c \in Binding /\ calls' = [calls EXCEPT ![c] = Idle] /\ ended' = ended + 1
      /\ publishers' = [k \in DOMAIN publishers \union {s} |-> IF k = s THEN o ELSE publishers[k]]
      /\ UNCHANGED <<started, sd, base, ports, objs, races>>
  BY DEF PublisherBound, Notified, Ends, stack
<1>2. /\ o \in DOMAIN objs /\ Open(o) /\ o \notin Range(publishers) /\ s \in Services
  BY <1>1, InvTypes DEF Inv, CallsInv, Publisher
<1>3. s \notin DOMAIN publishers
  <2>1. ASSUME s \in DOMAIN publishers PROVE FALSE
    <3>1. publishers[s] \in Range(publishers) /\ publishers[s] \in DOMAIN objs
      BY <2>1 DEF Inv, TypeOK, Range
    <3>2. Open(publishers[s]) /\ objs[publishers[s]].service = s
      BY <2>1 DEF Inv, PublishersInv
    <3>3. publishers[s] = o
      BY <1>2, <3>1, <3>2 DEF Inv, ObjsInv
    <3>4. QED
      BY <1>2, <3>1, <3>3
  <2>2. QED
    BY <2>1
<1>4. /\ DOMAIN publishers' = DOMAIN publishers \union {s}
      /\ publishers'[s] = o /\ \A k \in DOMAIN publishers : publishers'[k] = publishers[k]
      /\ Range(publishers') = Range(publishers) \union {o}
  BY <1>1, <1>3 DEF Range
<1>5. TypeOK'
  <2>1. \A d \in Callers : calls'[d].topic \in Topics /\ calls'[d].obj \in {NoObj} \union DOMAIN objs'
    BY <1>1, CallEnds, IdleType DEF Inv, TypeOK
  <2>2. ended' \in 0..MaxPublishes
    BY <1>1, CallEnds
  <2>3. QED
    BY <1>1, <1>2, <1>4, <2>1, <2>2 DEF Inv, TypeOK, PortInv, ElsewhereInv
<1>6. CallsInv'
  <2>1. /\ Binding' = Binding \ {c} /\ calls' \in [Callers -> [topic : Topics, obj : Nat]]
        /\ \A d \in Binding' : calls'[d] = calls[d] /\ calls[d].obj # o
        /\ IsFiniteSet(Binding') /\ ended' + Cardinality(Binding') <= MaxPublishes
    BY <1>1, CallEnds
  <2>2. ASSUME NEW d \in Binding'
        PROVE  /\ calls'[d].obj \in DOMAIN objs /\ objs[calls'[d].obj].open
               /\ calls'[d].obj \notin Range(publishers')
               /\ objs[calls'[d].obj].service = Service[calls'[d].topic]
    BY <1>4, <2>1, <2>2 DEF Inv, CallsInv, Open
  <2>3. \A d, e \in Binding' : calls'[d].obj = calls'[e].obj => d = e
    BY <2>1 DEF Inv, CallsInv
  <2>4. QED
    BY <1>1, <2>1, <2>2, <2>3 DEF CallsInv, Open
<1>7. ObjsInv'
  BY <1>1 DEF Inv, ObjsInv, Open
<1>8. PublishersInv'
  BY <1>1, <1>2, <1>4 DEF Inv, PublishersInv, Open
<1>9. AnnouncedInv'
  <2>1. SUFFICES ASSUME races = {}, NEW p \in DOMAIN objs, Open(p)
                 PROVE  /\ started /\ objs[p].announcer = Announcer
                        /\ p \in Range(publishers') \/ \E d \in Binding' : calls'[d].obj = p
    BY <1>1 DEF AnnouncedInv, Announcer, Open
  <2>2. CASE \E d \in Binding : calls[d].obj = p
    <3>1. PICK d \in Binding : calls[d].obj = p
      BY <2>2
    <3>2. CASE d = c
      BY <1>4, <2>1, <3>1, <3>2 DEF Inv, AnnouncedInv
    <3>3. CASE d # c
      <4>1. Binding' = Binding \ {c} /\ \A e \in Binding' : calls'[e] = calls[e]
        BY <1>1, CallEnds
      <4>2. QED
        BY <2>1, <3>1, <3>3, <4>1 DEF Inv, AnnouncedInv
    <3>4. QED
      BY <3>2, <3>3
  <2>3. CASE p \in Range(publishers)
    BY <1>4, <2>1, <2>3 DEF Inv, AnnouncedInv
  <2>4. QED
    BY <2>1, <2>2, <2>3 DEF Inv, AnnouncedInv
<1>10. QED
  BY <1>5, <1>6, <1>7, <1>8, <1>9 DEF Inv

\* A cancelled publish() closes what it was binding.
LEMMA PublishCancelledStep ==
    ASSUME Inv, NEW c \in Callers, PublishCancelled(c), PortInv', StackTypeOK', RunningInv', ElsewhereInv'
    PROVE  Inv'
<1> DEFINE o == calls[c].obj
<1>1. /\ c \in Binding /\ calls' = [calls EXCEPT ![c] = Idle] /\ ended' = ended + 1
      /\ objs' = Closed({o})
      /\ UNCHANGED <<started, sd, base, ports, publishers, races>>
  BY DEF PublishCancelled, Ends, stack
<1>2. o \in DOMAIN objs /\ o \notin Range(publishers)
  BY <1>1 DEF Inv, CallsInv
<1>3. /\ objs' \in Seq(Publisher(Len(sd'))) /\ DOMAIN objs' = DOMAIN objs
      /\ \A p \in DOMAIN objs :
            /\ objs'[p].service = objs[p].service /\ objs'[p].port = objs[p].port
            /\ objs'[p].announcer = objs[p].announcer
            /\ objs'[p].open <=> Open(p) /\ p # o
  BY <1>1, InvTypes, ClosedKeeps DEF Open
<1>4. /\ Binding' = Binding \ {c} /\ calls' \in [Callers -> [topic : Topics, obj : Nat]]
      /\ \A d \in Binding' : calls'[d] = calls[d] /\ calls[d].obj # o
      /\ \A d \in Callers : calls'[d] = calls[d] \/ calls'[d] = Idle
      /\ IsFiniteSet(Binding') /\ ended' + Cardinality(Binding') <= MaxPublishes
      /\ ended' \in 0..MaxPublishes
  BY <1>1, CallEnds
<1>5. TypeOK'
  <2>1. \A d \in Callers : calls'[d].topic \in Topics /\ calls'[d].obj \in {NoObj} \union DOMAIN objs'
    BY <1>3, <1>4, IdleType DEF Inv, TypeOK
  <2>2. QED
    BY <1>1, <1>3, <1>4, <2>1 DEF Inv, TypeOK, PortInv, ElsewhereInv, Publisher
<1>6. CallsInv'
  <2>1. ASSUME NEW d \in Binding'
        PROVE  /\ calls'[d].obj \in DOMAIN objs /\ objs'[calls'[d].obj].open
               /\ calls'[d].obj \notin Range(publishers)
               /\ objs'[calls'[d].obj].service = Service[calls'[d].topic]
    <3>1. d \in Binding /\ calls'[d] = calls[d] /\ calls[d].obj # o
      BY <1>4
    <3>2. QED
      BY <1>3, <3>1 DEF Inv, CallsInv
  <2>2. \A d, e \in Binding' : calls'[d].obj = calls'[e].obj => d = e
    BY <1>4 DEF Inv, CallsInv
  <2>3. QED
    BY <1>1, <1>3, <1>4, <2>1, <2>2 DEF CallsInv, Open
<1>7. ObjsInv'
  <2>1. \A p, q \in DOMAIN objs' :
           objs'[p].open /\ objs'[q].open /\ objs'[p].service = objs'[q].service => p = q
    BY <1>3 DEF Inv, ObjsInv
  <2>2. ASSUME NEW p \in DOMAIN objs'
        PROVE  objs'[p].service \in DOMAIN ports' /\ objs'[p].port = ports'[objs'[p].service]
    <3>1. p \in DOMAIN objs /\ objs'[p].service = objs[p].service /\ objs'[p].port = objs[p].port
      BY <1>3
    <3>2. ports' = ports
      BY <1>1
    <3>3. QED
      BY <3>1, <3>2 DEF Inv, ObjsInv
  <2>3. QED
    BY <2>1, <2>2 DEF ObjsInv, Open
<1>8. PublishersInv'
  <2>1. \A k \in DOMAIN publishers : publishers[k] \in DOMAIN objs /\ publishers[k] # o
    BY <1>2 DEF Inv, TypeOK, Range
  <2>2. QED
    BY <1>1, <1>3, <2>1 DEF Inv, PublishersInv, Open
<1>9. AnnouncedInv'
  <2>1. SUFFICES ASSUME races = {}, NEW p \in DOMAIN objs, Open(p), p # o
                 PROVE  /\ started /\ objs[p].announcer = Announcer
                        /\ p \in Range(publishers) \/ \E d \in Binding' : calls'[d].obj = p
    BY <1>1, <1>3 DEF AnnouncedInv, Announcer, Open
  <2>2. CASE \E d \in Binding : calls[d].obj = p
    BY <1>4, <2>1, <2>2 DEF Inv, AnnouncedInv
  <2>3. CASE p \in Range(publishers)
    BY <2>1, <2>3 DEF Inv, AnnouncedInv
  <2>4. QED
    BY <2>1, <2>2, <2>3 DEF Inv, AnnouncedInv
<1>10. QED
  BY <1>5, <1>6, <1>7, <1>8, <1>9 DEF Inv

-------------------------------------------------------------------------------
\* Every step keeps the invariant.
LEMMA StepInv == Inv /\ [Next]_vars => Inv'
<1> SUFFICES ASSUME Inv, [Next]_vars PROVE Inv'
  OBVIOUS
<1>1. PortInv' /\ StackTypeOK' /\ RunningInv' /\ ElsewhereInv'
  BY StepCommon
<1>2. /\ DOMAIN ports \subseteq Services /\ \A k \in DOMAIN ports : ports[k] \in Nat
      /\ ended \in Nat /\ ended + Cardinality(Binding) <= MaxPublishes
      /\ MaxPublishes \in Nat /\ Cardinality(Binding) \in Nat
  BY InvTypes DEF Inv, TypeOK, CallsInv
<1>3. ASSUME NEW k \in Services, PreallocatesPort(k) PROVE Inv'
  <2>1. /\ DOMAIN ports' = DOMAIN ports \union {k}
        /\ UNCHANGED <<started, sd, publishers, objs, calls, races, ended>>
    BY <1>3 DEF PreallocatesPort, stack
  <2>2. alloc' = GetServicePort(alloc, k, base) /\ k \in ServiceKeys /\ base \in Nat
    BY <1>3, ServicesAreKeys, PublisherAssumption DEF PreallocatesPort, Inv, PortInv
  <2>3. \A x \in DOMAIN alloc.ports : alloc'.ports[x] = alloc.ports[x]
    BY <2>2, GetServicePortSound DEF Inv, PortInv, PortsDistinct
  <2>4. \A x \in DOMAIN ports : ports'[x] = ports[x]
    BY <1>3, <2>3 DEF PreallocatesPort, Inv, PortInv, PortsDistinct
  <2>5. \A x \in DOMAIN ports' : ports'[x] \in Nat
    BY <1>1 DEF PortInv, PortsDistinct, IsAllocator
  <2>6. QED
    BY <1>1, <1>2, <2>1, <2>4, <2>5, QuietStep
<1>4. ASSUME NEW k \in ServiceKeys, NEW b \in BasePorts, OtherBusAsks(k, b) PROVE Inv'
  BY <1>1, <1>2, <1>4, QuietStep DEF OtherBusAsks, stack
<1>14. ASSUME NEW k \in Services, OtherBusBinds(k) \/ OtherBusCloses(k) PROVE Inv'
  BY <1>1, <1>2, <1>14, QuietStep DEF OtherBusBinds, OtherBusCloses, stack
<1>5. CASE Start
  BY <1>1, <1>2, <1>5, QuietStep DEF Start, StartCalled
<1>6. ASSUME NEW discovery \in {"running", "none"}, Started(discovery) PROVE Inv'
  BY <1>1, <1>6, StartedStep
<1>7. CASE Stop
  BY <1>1, <1>7, StopStep
<1>8. ASSUME NEW c \in Callers, NEW t \in Topics,
             PublishDropped(c, t) \/ PublishNotifies(c, t) \/ PublishFails(c, t)
      PROVE  Inv'
  <2>1. /\ ended' = ended + 1 /\ ended + Cardinality(Binding) < MaxPublishes
        /\ UNCHANGED <<started, sd, ports, publishers, objs, calls, races>>
    BY <1>8 DEF PublishDropped, PublishNotifies, PublishFails, NeedsPublisher, MayPublish,
                Notified, Ends, stack
  <2>2. ended' \in Nat /\ ended' + Cardinality(Binding) <= MaxPublishes
    BY <1>2, <2>1
  <2>3. QED
    BY <1>1, <1>2, <2>1, <2>2, QuietStep
<1>9. ASSUME NEW c \in Callers, NEW t \in Topics, PublishBinds(c, t) PROVE Inv'
  BY <1>1, <1>9, PublishBindsStep
<1>10. ASSUME NEW c \in Callers, PublisherBound(c) PROVE Inv'
  BY <1>1, <1>10, PublisherBoundStep
<1>11. ASSUME NEW c \in Callers, PublishCancelled(c) PROVE Inv'
  BY <1>1, <1>11, PublishCancelledStep
<1>12. CASE UNCHANGED vars
  BY <1>1, <1>2, <1>12, QuietStep DEF vars, stack
<1>13. QED
  BY <1>3, <1>4, <1>5, <1>6, <1>7, <1>8, <1>9, <1>10, <1>11, <1>12, <1>14 DEF Next

\* The fields of the bus, its calls and the history have their types.
THEOREM TypeCorrect == Spec => []TypeOK
<1>1. Inv => TypeOK
  BY DEF Inv
<1>2. QED
  BY <1>1, InitInv, StepInv, PTL DEF Spec

\* However many tasks publish, stop and start the bus: what is entered in _publishers is
\* open and its service's, and unless stop() ran while an endpoint was being bound or two
\* start() ran at once, every endpoint that is open is held by the bus.
THEOREM ServicesAreKept == Spec => []NoServiceLost
<1>1. Inv => NoServiceLost
  BY DEF Inv, PublishersInv, AnnouncedInv, NoServiceLost
<1>2. QED
  BY <1>1, InitInv, StepInv, PTL DEF Spec

\* A port that is bound in this process is its service's: another bus has it, or its
\* publisher is entered or is being bound.
LEMMA BusyPortIsOurs ==
    ASSUME Inv, races = {}, NEW t \in Topics, Service[t] \in DOMAIN ports,
           Service[t] \notin DOMAIN publishers,
           Bound(ports[Service[t]]), ports[Service[t]] \notin ForeignPorts
    PROVE  Service[t] \in elsewhere \/ \E c \in Binding : Service[calls[c].topic] = Service[t]
<1>1. CASE \E k \in elsewhere : alloc.ports[k] = ports[Service[t]]
  <2>1. PICK k \in elsewhere : alloc.ports[k] = ports[Service[t]]
    BY <1>1
  <2>2. k \in DOMAIN alloc.ports /\ Service[t] \in DOMAIN alloc.ports
        /\ ports[Service[t]] = alloc.ports[Service[t]]
    BY DEF Inv, ElsewhereInv, PortInv, PortsDistinct
  <2>3. k = Service[t]
    BY <2>1, <2>2 DEF Inv, PortInv, PortsDistinct, Sound
  <2>4. QED
    BY <2>3
<1>2. ASSUME NEW o \in DOMAIN objs, Open(o), objs[o].port = ports[Service[t]]
      PROVE  \E c \in Binding : Service[calls[c].topic] = Service[t]
  <2>1. objs[o].service \in DOMAIN ports /\ ports[objs[o].service] = ports[Service[t]]
    BY <1>2 DEF Inv, ObjsInv
  <2>2. objs[o].service = Service[t]
    BY <2>1 DEF Inv, PortInv, PortsDistinct, Sound
  <2>3. o \notin Range(publishers)
    BY <2>2 DEF Inv, PublishersInv, Range
  <2>4. PICK c \in Binding : calls[c].obj = o
    BY <1>2, <2>3 DEF Inv, AnnouncedInv
  <2>5. QED
    BY <2>2, <2>4 DEF Inv, CallsInv
<1>3. QED
  BY <1>1, <1>2 DEF Bound

\* An endpoint that is open away from the races is announced to the Service Discovery that
\* runs, or to none where start() found none.
LEMMA OpenIsAnnounced ==
    ASSUME Inv, races = {}, NEW o \in DOMAIN objs, Open(o)
    PROVE  /\ started
           /\ \/ sd[Len(sd)] = "running" /\ objs[o].announcer = Len(sd)
              \/ sd[Len(sd)] = "none" /\ objs[o].announcer = NoAnnouncer
<1>1. started /\ objs[o].announcer = Announcer
  BY DEF Inv, AnnouncedInv
<1>2. sd \in Seq({"running", "stopped", "none"}) /\ sd # <<>> /\ sd[Len(sd)] # "stopped"
  BY <1>1 DEF Inv, RunningInv, TypeOK, StackTypeOK
<1>3. sd[Len(sd)] \in {"running", "none"}
  BY <1>2
<1>4. QED
  BY <1>1, <1>3 DEF Announcer

\* Away from those races a message that is sent goes out through the Service Discovery that
\* runs, or through none where start() found none; and publish() raises OSError only for a
\* port of another process or another bus, or while another task binds the endpoint of the
\* same service.
THEOREM OutcomesAreExplained == Spec => OutcomesExplained
<1> DEFINE Explained == ended' # ended /\ races' = {} =>
         /\ last'.outcome = "sent" =>
              /\ started
              /\ \/ sd[Len(sd)] = "running" /\ objs[last'.obj].announcer = Len(sd)
                 \/ sd[Len(sd)] = "none" /\ objs[last'.obj].announcer = NoAnnouncer
         /\ last'.outcome = "OSError" =>
              \/ ports[Service[last'.topic]] \in ForeignPorts
              \/ Service[last'.topic] \in elsewhere
              \/ \E c \in Binding : Service[calls[c].topic] = Service[last'.topic]
<1>1. Inv /\ [Next]_vars => [Explained]_vars
  <2> SUFFICES ASSUME Inv, Next, ended' # ended, races' = {} PROVE Explained
    OBVIOUS
  <2>1. ASSUME NEW c \in Callers, NEW t \in Topics, PublishDropped(c, t) PROVE Explained
    BY <2>1 DEF PublishDropped, Ends
  <2>2. ASSUME NEW c \in Callers, NEW t \in Topics, PublishNotifies(c, t) PROVE Explained
    <3>1. /\ last'.obj = publishers[Service[t]] /\ last'.outcome # "OSError" /\ races = {}
          /\ Service[t] \in DOMAIN publishers
      BY <2>2 DEF PublishNotifies, Notified, Ends
    <3>2. publishers[Service[t]] \in DOMAIN objs /\ Open(publishers[Service[t]])
      BY <3>1 DEF Inv, TypeOK, PublishersInv, Range
    <3>3. QED
      BY <3>1, <3>2, OpenIsAnnounced
  <2>3. ASSUME NEW c \in Callers, NEW t \in Topics, PublishFails(c, t) PROVE Explained
    <3>1. /\ last'.topic = t /\ last'.outcome # "sent" /\ races = {}
          /\ last'.outcome = "OSError" => Bound(ports[Service[t]])
          /\ Service[t] \in DOMAIN ports /\ Service[t] \notin DOMAIN publishers
      BY <2>3, ServicesAreKeys DEF PublishFails, Ends, NeedsPublisher, MayPublish, Made
    <3>2. QED
      BY <3>1, BusyPortIsOurs
  <2>4. ASSUME NEW c \in Callers, NEW t \in Topics, PublishBinds(c, t) PROVE Explained
    BY <2>4 DEF PublishBinds
  <2>5. ASSUME NEW c \in Callers, PublisherBound(c) PROVE Explained
    <3>1. /\ last'.obj = calls[c].obj /\ last'.outcome # "OSError" /\ races = {}
          /\ c \in Binding
      BY <2>5 DEF PublisherBound, Notified, Ends
    <3>2. calls[c].obj \in DOMAIN objs /\ Open(calls[c].obj)
      BY <3>1 DEF Inv, CallsInv
    <3>3. QED
      BY <3>1, <3>2, OpenIsAnnounced
  <2>6. ASSUME NEW c \in Callers, PublishCancelled(c) PROVE Explained
    BY <2>6 DEF PublishCancelled, Ends
  <2>7. QED
    BY <2>1, <2>2, <2>3, <2>4, <2>5, <2>6
    DEF Next, PreallocatesPort, OtherBusAsks, OtherBusBinds, OtherBusCloses, Start, Started, Stop
<1>2. QED
  BY <1>1, InitInv, StepInv, PTL DEF Spec, OutcomesExplained
===============================================================================
