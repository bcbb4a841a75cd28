---------------------------- MODULE CircuitBreaker -----------------------------
(***************************************************************************)
(* policies/circuit_breaker.py: one CircuitBreaker shared by the tasks of  *)
(* an event loop.                                                          *)
(*                                                                         *)
(* call() looks at the circuit, awaits the operation and records how it    *)
(* ended.  Between the two any number of other calls begin and end, and    *)
(* the clock runs: an outcome may be recorded in another state of the      *)
(* circuit, or in a later period of the same state, than the one the call  *)
(* was admitted in.                                                        *)
(***************************************************************************)
EXTENDS Integers, FiniteSets

CONSTANTS Callers,             \* tasks, each with at most one call in progress
          FailureThreshold,    \* self.failure_threshold
          RecoveryTimeout,     \* self.recovery_timeout, in ticks of the clock
          HalfOpenMaxCalls     \* self.half_open_max_calls

\* What __init__ accepts; anything else raises ValueError.
ASSUME BreakerAssumption ==
    /\ FailureThreshold \in Nat \ {0}
    /\ RecoveryTimeout \in Nat \ {0}
    /\ HalfOpenMaxCalls \in Nat \ {0}

VARIABLES
    state,             \* self.state
    failure_count,     \* self.failure_count
    elapsed,           \* time.monotonic() - self.last_failure_time, or NeverOpened;
                       \* capped at RecoveryTimeout: nothing tells more apart
    half_open_calls,   \* self._half_open_calls
    inflight,          \* callers awaiting their operation inside call()
    operation,         \* external: "erratic", then perhaps "healthy" for good
    \* History, read by no action:
    cooldown,          \* ticks left of the recovery timeout of the last opening
    streak             \* failures recorded in a row since the circuit last closed,
                       \* FailureThreshold standing for any more

NeverOpened == -1

vars == <<state, failure_count, elapsed, half_open_calls, inflight, operation,
          cooldown, streak>>

Init ==
    /\ state = "CLOSED"
    /\ failure_count = 0
    /\ elapsed = NeverOpened
    /\ half_open_calls = 0
    /\ inflight = {}
    /\ operation = "erratic"
    /\ cooldown = 0
    /\ streak = 0

-------------------------------------------------------------------------------
\* One tick of time.monotonic().
Tick ==
    /\ elapsed' = IF elapsed \in 0..(RecoveryTimeout - 1) THEN elapsed + 1 ELSE elapsed
    /\ cooldown' = IF cooldown > 0 THEN cooldown - 1 ELSE 0
    /\ UNCHANGED <<state, failure_count, half_open_calls, inflight, operation, streak>>

Heals ==
    /\ operation = "erratic" /\ operation' = "healthy"
    /\ UNCHANGED <<state, failure_count, elapsed, half_open_calls, inflight,
                   cooldown, streak>>

\* The test of _transition_to_half_open_if_ready.
Ready == state = "OPEN" /\ elapsed # NeverOpened /\ elapsed >= RecoveryTimeout

\* call() up to the await: HALF_OPEN if ready, the operation starts.
Admitted(c) ==
    /\ c \notin inflight
    /\ state # "OPEN" \/ Ready
    /\ inflight' = inflight \union {c}
    /\ IF Ready
          THEN /\ state' = "HALF_OPEN"
               /\ failure_count' = 0
               /\ half_open_calls' = 0
          ELSE UNCHANGED <<state, failure_count, half_open_calls>>
    /\ UNCHANGED <<elapsed, operation, cooldown, streak>>

\* call() raises CircuitOpenError and leaves the circuit as it is.
Blocked(c) ==
    /\ c \notin inflight
    /\ state = "OPEN" /\ ~Ready
    /\ UNCHANGED vars

-------------------------------------------------------------------------------
\* Mutant: the moment of opening is not kept.
TransitionToOpenUndated ==
    /\ state' = "OPEN"
    /\ elapsed' = NeverOpened
    /\ half_open_calls' = 0
    /\ cooldown' = RecoveryTimeout

\* _transition_to_open
TransitionToOpen ==
    /\ state' = "OPEN"
    /\ elapsed' = 0
    /\ half_open_calls' = 0
    /\ cooldown' = RecoveryTimeout

\* Mutants of _record_success: any success closes the circuit; a success forgets
\* to clear the failures; trial successes are not counted.
RecordSuccessClosesAlways ==
    /\ state' = "CLOSED" /\ failure_count' = 0 /\ half_open_calls' = 0
    /\ streak' = 0
    /\ UNCHANGED <<elapsed, cooldown>>
RecordSuccessKeepsCount ==
    /\ IF state = "HALF_OPEN" /\ half_open_calls + 1 >= HalfOpenMaxCalls
          THEN state' = "CLOSED" /\ failure_count' = 0 /\ half_open_calls' = 0 /\ streak' = 0
          ELSE /\ half_open_calls' = IF state = "HALF_OPEN" THEN half_open_calls + 1 ELSE 0
               /\ streak' = 0
               /\ UNCHANGED <<state, failure_count>>
    /\ UNCHANGED <<elapsed, cooldown>>
RecordSuccessNeverCloses ==
    /\ failure_count' = IF state = "CLOSED" THEN 0 ELSE failure_count
    /\ streak' = 0
    /\ UNCHANGED <<state, half_open_calls, elapsed, cooldown>>

\* _record_success.  A success that comes while the circuit is OPEN is ignored.
RecordSuccess ==
    /\ \/ /\ state = "HALF_OPEN" /\ half_open_calls + 1 >= HalfOpenMaxCalls
          /\ state' = "CLOSED"
          /\ failure_count' = 0
          /\ half_open_calls' = 0
       \/ /\ state = "HALF_OPEN" /\ half_open_calls + 1 < HalfOpenMaxCalls
          /\ half_open_calls' = half_open_calls + 1
          /\ UNCHANGED <<state, failure_count>>
       \/ /\ state = "CLOSED"
          /\ failure_count' = 0
          /\ UNCHANGED <<state, half_open_calls>>
       \/ /\ state = "OPEN"
          /\ UNCHANGED <<state, failure_count, half_open_calls>>
    /\ streak' = 0
    /\ UNCHANGED <<elapsed, cooldown>>

\* Mutants of _record_failure: failures are counted down; in HALF_OPEN they are only
\* counted.
RecordFailureCountsDown ==
    /\ failure_count' = failure_count - 1
    /\ streak' = IF streak < FailureThreshold THEN streak + 1 ELSE streak
    /\ IF state = "HALF_OPEN"
          THEN TransitionToOpen
          ELSE UNCHANGED <<state, elapsed, half_open_calls, cooldown>>
RecordFailureHalfOpenStays ==
    /\ failure_count' = failure_count + 1
    /\ streak' = IF streak < FailureThreshold THEN streak + 1 ELSE streak
    /\ IF state = "CLOSED" /\ failure_count + 1 >= FailureThreshold
          THEN TransitionToOpen
          ELSE UNCHANGED <<state, elapsed, half_open_calls, cooldown>>

\* _record_failure.  The count also grows while the circuit is OPEN.
RecordFailure ==
    /\ failure_count' = failure_count + 1
    /\ streak' = IF streak < FailureThreshold THEN streak + 1 ELSE streak
    /\ IF \/ state = "HALF_OPEN"
          \/ state = "CLOSED" /\ failure_count + 1 >= FailureThreshold
          THEN TransitionToOpen
          ELSE UNCHANGED <<state, elapsed, half_open_calls, cooldown>>

\* The operation ends and call() records how.
Ends(c) == c \in inflight /\ inflight' = inflight \ {c} /\ UNCHANGED operation

Succeeds(c) == Ends(c) /\ RecordSuccess
Fails(c)    == Ends(c) /\ operation = "erratic" /\ RecordFailure

\* CancelledError is no Exception: the call ends and nothing is recorded.
Cancelled(c) ==
    /\ Ends(c) /\ operation = "erratic"
    /\ UNCHANGED <<state, failure_count, elapsed, half_open_calls, cooldown, streak>>

Next ==
    \/ Tick
    \/ Heals
    \/ \E c \in Callers : Admitted(c)
    \/ \E c \in Callers : Blocked(c)
    \/ \E c \in Callers : Succeeds(c)
    \/ \E c \in Callers : Fails(c)
    \/ \E c \in Callers : Cancelled(c)

Spec == Init /\ [][Next]_vars

\* The clock runs, callers come back, and no operation lasts for ever.
Fairness ==
    /\ WF_vars(Tick)
    /\ \A c \in Callers : /\ WF_vars(Admitted(c))
                          /\ WF_vars(Succeeds(c) \/ Fails(c) \/ Cancelled(c))
FairSpec == Spec /\ Fairness
-------------------------------------------------------------------------------
\* The types of the breaker's fields and of the history.
TypeOK ==
    /\ state \in {"CLOSED", "OPEN", "HALF_OPEN"}
    /\ failure_count \in Nat
    /\ elapsed \in 0..RecoveryTimeout \union {NeverOpened}
    /\ half_open_calls \in Nat
    /\ inflight \subseteq Callers
    /\ operation \in {"erratic", "healthy"}
    /\ cooldown \in 0..RecoveryTimeout
    /\ streak \in 0..FailureThreshold

\* The fields agree with the state: a closed circuit is below its threshold, an
\* open one knows when it opened (it could never recover otherwise), and only a
\* half-open one has trial successes, fewer than close it and no failure.
FieldsAgree ==
    /\ state = "CLOSED" => failure_count < FailureThreshold
    /\ state = "OPEN" => elapsed # NeverOpened
    /\ state = "HALF_OPEN" => failure_count = 0 /\ half_open_calls < HalfOpenMaxCalls
    /\ state # "HALF_OPEN" => half_open_calls = 0

\* Whatever outcomes of older calls arrive meanwhile, the circuit admits nobody
\* before the recovery timeout of its last opening has passed.
CoolDownServed == cooldown > 0 => state = "OPEN"

\* A closed circuit opens exactly when FailureThreshold outcomes in a row are
\* failures: not sooner, and never later.  Successes that arrive while it is not
\* closed end the row as well.
OpensOnStreak ==
    [][state = "CLOSED" => (state' = "OPEN" <=> streak' = FailureThreshold)]_vars

\* Once the operation stops failing the circuit closes, and it stays closed.
ClosesWhenHealthy == <>(operation = "healthy") => <>[](state = "CLOSED")
===============================================================================
