------------------------------ MODULE SomeIpStack ------------------------------
(***************************************************************************)
(* eventbus/someip.py: SomeIPEventBus.start() and stop(), as far as both   *)
(* sides of the bus see them.  start() tests _started, awaits the Service  *)
(* Discovery endpoints and sets _started; stop() has no await.  Every      *)
(* start() that gets through builds a new stack.                           *)
(***************************************************************************)
EXTENDS Naturals, Sequences

CONSTANT MaxStacks     \* bound: calls of start() that get past its first test

ASSUME StackAssumption == MaxStacks \in Nat

VARIABLES started,     \* self._started
          starting,    \* calls of start() awaiting create_endpoints
          sd           \* the Service Discovery of each stack built so far

stack == <<started, starting, sd>>

StackInit == started = FALSE /\ starting = 0 /\ sd = <<>>

\* start() up to its await: whoever calls it before it ends gets as far.
StartCalled ==
    /\ ~started
    /\ Len(sd) + starting < MaxStacks
    /\ starting' = starting + 1
    /\ UNCHANGED <<started, sd>>

\* The endpoints exist, or OSError leaves the bus without Service Discovery.
StartReturns(discovery) ==
    /\ starting > 0
    /\ starting' = starting - 1
    /\ started' = TRUE
    /\ sd' = Append(sd, discovery)

\* stop() ends the Service Discovery of the stack built last.
StackStops ==
    /\ started
    /\ started' = FALSE
    /\ sd' = [sd EXCEPT ![Len(sd)] = IF @ = "running" THEN "stopped" ELSE @]
    /\ UNCHANGED starting

StackTypeOK ==
    /\ started \in BOOLEAN /\ starting \in Nat
    /\ sd \in Seq({"running", "stopped", "none"})
    /\ started => sd # <<>>
===============================================================================
