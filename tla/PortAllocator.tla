----------------------------- MODULE PortAllocator -----------------------------
(***************************************************************************)
(* eventbus/someip.py: the port allocator that all buses of a process      *)
(* share.  _get_service_port runs under _PORT_LOCK and is one step.        *)
(***************************************************************************)
EXTENDS Integers

CONSTANTS ServiceKeys,      \* (service_id, instance_id) pairs
          FirstPort         \* what _NEXT_PORT begins with: 30490

ASSUME AllocatorAssumption == FirstPort \in Nat

\* An allocator has the fields next, _NEXT_PORT, and ports, _ALLOCATED_PORTS.
IsAllocator(a) ==
    /\ a.next \in Nat
    /\ DOMAIN a.ports \subseteq ServiceKeys
    /\ a.ports \in [DOMAIN a.ports -> Nat]

Fresh == [next |-> FirstPort, ports |-> [k \in {} |-> 0]]

\* Mutant: the counter is not moved past a port taken at base_port.
GetServicePortKeepsCounter(a, key, base) ==
    IF key \in DOMAIN a.ports THEN a
    ELSE [next  |-> a.next,
          ports |-> [k \in DOMAIN a.ports \union {key} |->
                        IF k = key THEN IF a.next < base THEN base ELSE a.next ELSE a.ports[k]]]

\* The allocator after _get_service_port(*key, base); the port it returns is
\* ports[key].  A key keeps the port of its first request, whatever its base.
GetServicePort(a, key, base) ==
    LET port == IF a.next < base THEN base ELSE a.next
    IN IF key \in DOMAIN a.ports THEN a
       ELSE [next  |-> port + 1,
             ports |-> [k \in DOMAIN a.ports \union {key} |->
                           IF k = key THEN port ELSE a.ports[k]]]

\* No two services share a port, and the next port is beyond all of them.
Sound(a) ==
    /\ \A k, l \in DOMAIN a.ports : a.ports[k] = a.ports[l] => k = l
    /\ \A k \in DOMAIN a.ports : a.ports[k] < a.next
===============================================================================
