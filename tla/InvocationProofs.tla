--------------------------- MODULE InvocationProofs ----------------------------
(***************************************************************************)
(* The safety of what an invocation passes: of the circuit breaker, for    *)
(* every set of callers and every threshold, timeout and number of trial   *)
(* calls that __init__ accepts, and of the policies composed around it; of *)
(* the interceptor chain with its spans and metrics, for all calls, edits  *)
(* and priorities; and of the plugins, for all loops and limits.           *)
(***************************************************************************)
EXTENDS EchoService, Interceptors, Plugins, ListsProofs, FiniteSetTheorems

(* CircuitBreaker *)

\* An open circuit has waited for the part of its timeout that is not left.
ClockSplit == state = "OPEN" => elapsed + cooldown = RecoveryTimeout

\* While the circuit is closed its counter is the length of the row of failures.
CountIsStreak == state = "CLOSED" => failure_count = streak

BreakerInv == TypeOK /\ FieldsAgree /\ CoolDownServed /\ ClockSplit /\ CountIsStreak

\* A new breaker is closed, with everything counted from zero.
LEMMA BreakerInit == Init => BreakerInv
  BY BreakerAssumption
  DEF Init, BreakerInv, TypeOK, FieldsAgree, CoolDownServed, ClockSplit, CountIsStreak, NeverOpened

\* Opening restarts both clocks and leaves no trial success behind.
LEMMA OpeningPreserves ==
    ASSUME BreakerInv, TransitionToOpen, failure_count' = failure_count + 1,
           streak' \in 0..FailureThreshold, inflight' \subseteq Callers,
           operation' \in {"erratic", "healthy"}
    PROVE  BreakerInv'
  BY BreakerAssumption
  DEF BreakerInv, TypeOK, FieldsAgree, CoolDownServed, ClockSplit, CountIsStreak, NeverOpened,
      TransitionToOpen

\* One step of the breaker; both ways to open share OpeningPreserves.
LEMMA BreakerStep == BreakerInv /\ [Next]_vars => BreakerInv'
<1> SUFFICES ASSUME BreakerInv, [Next]_vars PROVE BreakerInv'
  OBVIOUS
<1> USE BreakerAssumption DEF BreakerInv, TypeOK, FieldsAgree, CoolDownServed, ClockSplit,
        CountIsStreak, NeverOpened
<1>1. CASE Tick
  <2>1. cooldown' \in 0..RecoveryTimeout /\ elapsed' \in 0..RecoveryTimeout \union {NeverOpened}
    BY <1>1 DEF Tick
  <2>2. state = "OPEN" => elapsed' + cooldown' = RecoveryTimeout
    BY <1>1 DEF Tick
  <2>3. QED
    BY <1>1, <2>1, <2>2 DEF Tick
<1>heals. CASE Heals
  BY <1>heals DEF Heals
<1>2. ASSUME NEW c \in Callers, Admitted(c) PROVE BreakerInv'
  <2>1. CASE Ready
    BY <1>2, <2>1 DEF Admitted, Ready
  <2>2. CASE ~Ready
    BY <1>2, <2>2 DEF Admitted
  <2>3. QED
    BY <2>1, <2>2
<1>3. ASSUME NEW c \in Callers, Blocked(c) PROVE BreakerInv'
  BY <1>3 DEF Blocked, vars
<1>4. ASSUME NEW c \in Callers, Succeeds(c) PROVE BreakerInv'
  BY <1>4 DEF Succeeds, Ends, RecordSuccess
<1>5. ASSUME NEW c \in Callers, Fails(c) PROVE BreakerInv'
  <2>1. /\ failure_count' = failure_count + 1
        /\ streak' \in 0..FailureThreshold
        /\ inflight' \subseteq Callers
        /\ operation' \in {"erratic", "healthy"}
    BY <1>5 DEF Fails, Ends, RecordFailure
  <2>2. CASE TransitionToOpen
    BY <2>1, <2>2, OpeningPreserves
  <2>3. CASE ~TransitionToOpen
    <3>1. UNCHANGED <<state, elapsed, half_open_calls, cooldown>>
      BY <1>5, <2>3 DEF Fails, Ends, RecordFailure
    <3>2. state # "HALF_OPEN" /\ (state = "CLOSED" => failure_count + 1 < FailureThreshold)
      BY <1>5, <2>3 DEF Fails, Ends, RecordFailure
    <3>3. streak' = IF streak < FailureThreshold THEN streak + 1 ELSE streak
      BY <1>5 DEF Fails, Ends, RecordFailure
    <3>4. QED
      BY <2>1, <3>1, <3>2, <3>3
  <2>4. QED
    BY <2>2, <2>3
<1>6. ASSUME NEW c \in Callers, Cancelled(c) PROVE BreakerInv'
  BY <1>6 DEF Cancelled, Ends
<1>7. CASE UNCHANGED vars
  BY <1>7 DEF vars
<1>8. QED
  BY <1>1, <1>heals, <1>2, <1>3, <1>4, <1>5, <1>6, <1>7 DEF Next

\* The inductive invariant holds in every reachable state.
THEOREM BreakerInductive == Spec => []BreakerInv
<1>1. Init => BreakerInv
  BY BreakerInit
<1>2. BreakerInv /\ [Next]_vars => BreakerInv'
  BY BreakerStep
<1>3. QED
  BY <1>1, <1>2, PTL DEF Spec

\* The breaker's fields keep their types, whatever the calls do.
THEOREM TypeCorrect == Spec => []TypeOK
<1>1. BreakerInv => TypeOK
  BY DEF BreakerInv
<1>2. QED
  BY <1>1, BreakerInductive, PTL

\* A closed circuit is below its threshold, an open one knows when it opened, a
\* half-open one has no failure and fewer successes than close it.
THEOREM FieldsAlwaysAgree == Spec => []FieldsAgree
<1>1. BreakerInv => FieldsAgree
  BY DEF BreakerInv
<1>2. QED
  BY <1>1, BreakerInductive, PTL

\* No call is admitted before the recovery timeout of the last opening is over.
THEOREM CoolDownIsServed == Spec => []CoolDownServed
<1>1. BreakerInv => CoolDownServed
  BY DEF BreakerInv
<1>2. QED
  BY <1>1, BreakerInductive, PTL

\* A closed circuit opens exactly at the FailureThreshold-th failure in a row.
THEOREM OpensExactlyOnStreak == Spec => OpensOnStreak
<1>1. ASSUME BreakerInv, [Next]_vars, state = "CLOSED"
      PROVE  state' = "OPEN" <=> streak' = FailureThreshold
  <2> USE BreakerAssumption DEF BreakerInv, TypeOK, FieldsAgree, CountIsStreak
  <2>1. CASE \E c \in Callers : Fails(c)
    <3>1. failure_count' = streak + 1 /\ streak' = streak + 1
      BY <1>1, <2>1 DEF Fails, Ends, RecordFailure
    <3>2. state' = "OPEN" <=> failure_count + 1 >= FailureThreshold
      BY <1>1, <2>1 DEF Fails, Ends, RecordFailure, TransitionToOpen
    <3>3. QED
      BY <1>1, <3>1, <3>2
  <2>2. CASE \E c \in Callers : Succeeds(c)
    BY <1>1, <2>2 DEF Succeeds, Ends, RecordSuccess
  <2>3. CASE ~(\E c \in Callers : Fails(c)) /\ ~(\E c \in Callers : Succeeds(c))
    BY <1>1, <2>3 DEF Next, vars, Tick, Heals, Admitted, Ready, Blocked, Cancelled, Ends
  <2>4. QED
    BY <2>1, <2>2, <2>3
<1>2. BreakerInv /\ [Next]_vars
        => [state = "CLOSED" => (state' = "OPEN" <=> streak' = FailureThreshold)]_vars
  BY <1>1
<1>3. QED
  BY <1>2, BreakerInductive, PTL DEF Spec, OpensOnStreak

-------------------------------------------------------------------------------
(* EchoService *)

InvokeTypes ==
    /\ inflight \subseteq Callers
    /\ at \in [Callers -> Ended \union Busy]
    /\ attempt \in [Callers -> Nat] /\ said \in [Callers -> Nat]
    /\ last_exc \in [Callers -> Errors \union {"none"}]

\* The attempts of an invoke and its events.  An attempt that has not run its operation yet
\* has still to say its event, and an invoke that waits to try again has an attempt left.
Counted(c) ==
    /\ c \in inflight <=> at[c] \in Busy \ {"sleeping"}
    /\ said[c] <= attempt[c] /\ attempt[c] <= MaxAttempts
    /\ at[c] = "starting" => said[c] < attempt[c]
    /\ at[c] = "sleeping" => attempt[c] < MaxAttempts
    /\ at[c] \in {"publishing", "expiring", "returned"} => said[c] >= 1
    /\ at[c] = "failed" => attempt[c] = MaxAttempts \/ ~ShouldRetry(last_exc[c])

\* An attempt that has run its operation has set the response.
Answered ==
    /\ response \in [Callers -> BOOLEAN]
    /\ \A c \in Callers : at[c] \in {"publishing", "expiring", "returned"} => response[c]

CountInv == InvokeTypes /\ \A c \in Callers : Counted(c)
EchoInv == CountInv /\ Answered

\* The steps of an invoke leave the others alone, and the breaker's view of them.
OthersKept(c) ==
    \A d \in Callers \ {c} :
        /\ at'[d] = at[d] /\ attempt'[d] = attempt[d] /\ last_exc'[d] = last_exc[d]
        /\ said'[d] = said[d]
        /\ d \in inflight' <=> d \in inflight

\* It is enough to look at the invoke that takes the step.
LEMMA OneInvoke ==
    ASSUME CountInv, NEW c \in Callers, OthersKept(c), InvokeTypes', Counted(c)'
    PROVE  CountInv'
  BY DEF CountInv, Counted, OthersKept, ShouldRetry

\* Nothing has been invoked yet.
LEMMA EchoInitEstablishes == EchoInit => EchoInv
<1> SUFFICES ASSUME EchoInit PROVE EchoInv
  OBVIOUS
<1>1. /\ at = [c \in Callers |-> "idle"] /\ attempt = [c \in Callers |-> 0]
      /\ last_exc = [c \in Callers |-> "none"] /\ said = [c \in Callers |-> 0] /\ inflight = {}
  BY DEF EchoInit, Init
<1>2. CountInv
  BY <1>1, EchoAssumption DEF CountInv, InvokeTypes, Counted, Ended, Busy
<1>3. Answered
  BY <1>1 DEF EchoInit, Answered
<1>4. QED
  BY <1>2, <1>3 DEF EchoInv

\* An attempt that fails is the last one, or leaves one to try.
LEMMA FailedAttempt ==
    ASSUME CountInv, NEW c \in Callers, NEW n \in 1..MaxAttempts, NEW exc \in Errors,
           AttemptFailed(c, n, exc),
           inflight' \in {inflight, inflight \ {c}}, c \notin inflight',
           said' \in [Callers -> Nat], said'[c] <= n,
           \A d \in Callers \ {c} : said'[d] = said[d]
    PROVE  CountInv'
<1> USE EchoAssumption
<1>n. n \in Nat /\ n >= 1 /\ n <= MaxAttempts /\ MaxAttempts \in Nat
  OBVIOUS
<1>1. /\ last_exc' = [last_exc EXCEPT ![c] = exc] /\ attempt' = [attempt EXCEPT ![c] = n]
      /\ \/ at' = [at EXCEPT ![c] = "failed"] /\ (n >= MaxAttempts \/ ~ShouldRetry(exc))
         \/ at' = [at EXCEPT ![c] = "sleeping"] /\ n < MaxAttempts
  BY <1>n DEF AttemptFailed
<1>2. InvokeTypes'
  <2>1. inflight' \subseteq Callers
    BY DEF CountInv, InvokeTypes
  <2>2. at' \in [Callers -> Ended \union Busy]
    BY <1>1 DEF CountInv, InvokeTypes, Ended, Busy
  <2>3. attempt' \in [Callers -> Nat] /\ last_exc' \in [Callers -> Errors \union {"none"}]
    BY <1>1, <1>n DEF CountInv, InvokeTypes
  <2>4. QED
    BY <2>1, <2>2, <2>3 DEF InvokeTypes
<1>3. OthersKept(c)
  BY <1>1 DEF CountInv, InvokeTypes, OthersKept
<1>4. attempt'[c] = n /\ last_exc'[c] = exc
  BY <1>1 DEF CountInv, InvokeTypes
<1>5. CASE at' = [at EXCEPT ![c] = "failed"] /\ (n >= MaxAttempts \/ ~ShouldRetry(exc))
  <2>1. at'[c] = "failed"
    BY <1>5 DEF CountInv, InvokeTypes
  <2>2. Counted(c)'
    BY <1>n, <1>4, <1>5, <2>1 DEF Counted, Busy, ShouldRetry
  <2>3. QED
    BY <1>2, <1>3, <2>2, OneInvoke
<1>6. CASE at' = [at EXCEPT ![c] = "sleeping"] /\ n < MaxAttempts
  <2>1. at'[c] = "sleeping"
    BY <1>6 DEF CountInv, InvokeTypes
  <2>2. Counted(c)'
    BY <1>n, <1>4, <1>6, <2>1 DEF Counted, Busy
  <2>3. QED
    BY <1>2, <1>3, <2>2, OneInvoke
<1>7. QED
  BY <1>1, <1>5, <1>6

\* The first attempt of an invoke and a later one keep the invariant, admitted or not.
LEMMA AttemptPreserves ==
    ASSUME CountInv, NEW c \in Callers, NEW n \in 1..MaxAttempts, Attempt(c, n),
           at[c] \in Ended \union {"sleeping"},
           said' \in [Callers -> Nat], said'[c] < n,
           \A d \in Callers \ {c} : said'[d] = said[d]
    PROVE  CountInv'
<1> USE EchoAssumption
<1>n. n \in Nat /\ n >= 1 /\ n <= MaxAttempts /\ MaxAttempts \in Nat
  OBVIOUS
<1>1. CASE Admitted(c) /\ at' = [at EXCEPT ![c] = "starting"]
           /\ attempt' = [attempt EXCEPT ![c] = n] /\ UNCHANGED last_exc
  <2>1. inflight' = inflight \union {c}
    BY <1>1 DEF Admitted
  <2>2. InvokeTypes'
    BY <1>n, <1>1, <2>1 DEF CountInv, InvokeTypes, Busy
  <2>3. OthersKept(c)
    BY <1>1, <2>1 DEF CountInv, InvokeTypes, OthersKept
  <2>4. at'[c] = "starting" /\ attempt'[c] = n /\ c \in inflight'
    BY <1>1, <2>1 DEF CountInv, InvokeTypes
  <2>5. Counted(c)'
    BY <1>n, <2>2, <2>4 DEF Counted, InvokeTypes, Busy
  <2>6. QED
    BY <2>2, <2>3, <2>5, OneInvoke
<1>2. CASE Blocked(c) /\ AttemptFailed(c, n, "open")
  <2>1. inflight' = inflight /\ c \notin inflight'
    BY <1>2 DEF Blocked, vars
  <2>2. said'[c] <= n
    BY <1>n
  <2>3. QED
    BY <1>2, <2>1, <2>2, FailedAttempt DEF Errors
<1>3. QED
  BY <1>1, <1>2 DEF Attempt

\* Every step of the policies keeps the counts of attempts and events.
LEMMA CountsKept == CountInv /\ [EchoNext]_echo_vars => CountInv'
<1> SUFFICES ASSUME CountInv, [EchoNext]_echo_vars PROVE CountInv'
  OBVIOUS
<1> USE EchoAssumption
<1>1. CASE UNCHANGED <<inflight, at, attempt, last_exc, said>>
  BY <1>1 DEF CountInv, InvokeTypes, Counted, ShouldRetry
<1>2. ASSUME NEW c \in Callers, Invoke(c) PROVE CountInv'
  <2>1. Attempt(c, 1) /\ at[c] \in Ended /\ said' = [said EXCEPT ![c] = 0]
    BY <1>2 DEF Invoke
  <2>2. /\ said' \in [Callers -> Nat] /\ said'[c] < 1
        /\ \A d \in Callers \ {c} : said'[d] = said[d]
    BY <2>1 DEF CountInv, InvokeTypes
  <2>3. QED
    BY <2>1, <2>2, AttemptPreserves
<1>3. ASSUME NEW c \in Callers, Wakes(c) PROVE CountInv'
  <2>1. at[c] = "sleeping" /\ Attempt(c, attempt[c] + 1) /\ said' = said
    BY <1>3 DEF Wakes
  <2>2. attempt[c] + 1 \in 1..MaxAttempts /\ said[c] < attempt[c] + 1
    BY <2>1 DEF CountInv, InvokeTypes, Counted
  <2>3. QED
    BY <2>1, <2>2, AttemptPreserves DEF CountInv, InvokeTypes
<1>4. ASSUME NEW c \in Callers, OperationRuns(c) PROVE CountInv'
  <2>1. /\ at[c] = "starting" /\ at' = [at EXCEPT ![c] = "publishing"]
        /\ said' = [said EXCEPT ![c] = @ + 1]
        /\ inflight' = inflight /\ attempt' = attempt /\ last_exc' = last_exc
    BY <1>4 DEF OperationRuns, circuit, vars
  <2>2. InvokeTypes' /\ OthersKept(c)
    BY <2>1 DEF CountInv, InvokeTypes, OthersKept, Busy
  <2>3. at'[c] = "publishing" /\ said'[c] = said[c] + 1
    BY <2>1 DEF CountInv, InvokeTypes
  <2>4. Counted(c)'
    BY <2>1, <2>3 DEF CountInv, InvokeTypes, Counted, Busy
  <2>5. QED
    BY <2>2, <2>4, OneInvoke
<1>5. ASSUME NEW c \in Callers, Returns(c) PROVE CountInv'
  <2>1. /\ at[c] \in {"publishing", "expiring"} /\ at' = [at EXCEPT ![c] = "returned"]
        /\ inflight' = inflight \ {c}
        /\ attempt' = attempt /\ last_exc' = last_exc /\ said' = said
    BY <1>5 DEF Returns, Succeeds, Ends
  <2>2. InvokeTypes' /\ OthersKept(c)
    BY <2>1 DEF CountInv, InvokeTypes, OthersKept, Ended
  <2>3. at'[c] = "returned"
    BY <2>1 DEF CountInv, InvokeTypes
  <2>4. Counted(c)'
    BY <2>1, <2>3 DEF CountInv, Counted, Busy
  <2>5. QED
    BY <2>2, <2>4, OneInvoke
<1>6. ASSUME NEW c \in Callers, TimesOut(c) PROVE CountInv'
  <2>1. /\ at[c] = "publishing" /\ at' = [at EXCEPT ![c] = "expiring"] /\ inflight' = inflight
        /\ attempt' = attempt /\ last_exc' = last_exc /\ said' = said
    BY <1>6 DEF TimesOut, circuit, vars
  <2>2. InvokeTypes' /\ OthersKept(c)
    BY <2>1 DEF CountInv, InvokeTypes, OthersKept, Busy
  <2>3. at'[c] = "expiring"
    BY <2>1 DEF CountInv, InvokeTypes
  <2>4. Counted(c)'
    BY <2>1, <2>3 DEF CountInv, Counted, Busy
  <2>5. QED
    BY <2>2, <2>4, OneInvoke
<1>7. ASSUME NEW c \in Callers, TimedOut(c) PROVE CountInv'
  <2>1. /\ AttemptFailed(c, attempt[c], "timeout") /\ at[c] = "expiring"
        /\ inflight' = inflight \ {c} /\ said' = said
    BY <1>7 DEF TimedOut, Fails, Ends
  <2>2. attempt[c] \in 1..MaxAttempts /\ said[c] <= attempt[c]
    BY <2>1 DEF CountInv, InvokeTypes, Counted
  <2>3. QED
    BY <2>1, <2>2, FailedAttempt DEF CountInv, InvokeTypes, Errors
<1>8. ASSUME NEW c \in Callers, InvokeCancelled(c) PROVE CountInv'
  <2>1. /\ at' = [at EXCEPT ![c] = "cancelled"] /\ inflight' = inflight \ {c}
        /\ attempt' = attempt /\ last_exc' = last_exc /\ said' = said
    BY <1>8 DEF InvokeCancelled, Cancelled, Ends, circuit, vars
  <2>2. InvokeTypes' /\ OthersKept(c)
    BY <2>1 DEF CountInv, InvokeTypes, OthersKept, Ended
  <2>3. at'[c] = "cancelled"
    BY <2>1 DEF CountInv, InvokeTypes
  <2>4. Counted(c)'
    BY <2>1, <2>3 DEF CountInv, Counted, Busy
  <2>5. QED
    BY <2>2, <2>4, OneInvoke
<1>9. QED
  BY <1>1, <1>2, <1>3, <1>4, <1>5, <1>6, <1>7, <1>8
  DEF EchoNext, TimePasses, Tick, OperationHeals, Heals, echo_vars, circuit, vars

\* An invoke that leaves its operation has its response, however the step before ended.
LEMMA AnswersKept ==
    InvokeTypes /\ Answered /\ [EchoNext]_echo_vars => Answered'
<1> SUFFICES ASSUME InvokeTypes, Answered, [EchoNext]_echo_vars PROVE Answered'
  OBVIOUS
<1> USE DEF InvokeTypes, Answered
<1>1. CASE at' = at /\ response' = response
  BY <1>1
<1>2. ASSUME NEW c \in Callers, Invoke(c) PROVE Answered'
  BY <1>2 DEF Invoke, Attempt, AttemptFailed
<1>3. ASSUME NEW c \in Callers, Wakes(c) PROVE Answered'
  BY <1>3 DEF Wakes, Attempt, AttemptFailed
<1>4. ASSUME NEW c \in Callers, OperationRuns(c) PROVE Answered'
  BY <1>4 DEF OperationRuns
<1>5. ASSUME NEW c \in Callers, Returns(c) \/ TimesOut(c) PROVE Answered'
  BY <1>5 DEF Returns, TimesOut
<1>6. ASSUME NEW c \in Callers, TimedOut(c) PROVE Answered'
  BY <1>6 DEF TimedOut, AttemptFailed
<1>7. ASSUME NEW c \in Callers, InvokeCancelled(c) PROVE Answered'
  BY <1>7 DEF InvokeCancelled
<1>8. QED
  BY <1>1, <1>2, <1>3, <1>4, <1>5, <1>6, <1>7
  DEF EchoNext, TimePasses, OperationHeals, echo_vars

\* Every step of the composition is one of the breaker or leaves it alone.
LEMMA EchoStepImplements == [EchoNext]_echo_vars => [Next]_vars
<1> SUFFICES ASSUME [EchoNext]_echo_vars PROVE [Next]_vars
  OBVIOUS
<1>1. CASE TimePasses
  BY <1>1 DEF TimePasses, Next
<1>2. CASE OperationHeals
  BY <1>2 DEF OperationHeals, Next
<1>3. ASSUME NEW c \in Callers, Invoke(c) \/ Wakes(c) PROVE [Next]_vars
  BY <1>3 DEF Invoke, Wakes, Attempt, Next
<1>4. ASSUME NEW c \in Callers, OperationRuns(c) \/ TimesOut(c) PROVE [Next]_vars
  BY <1>4 DEF OperationRuns, TimesOut, circuit
<1>5. ASSUME NEW c \in Callers, Returns(c) \/ TimedOut(c) PROVE [Next]_vars
  BY <1>5 DEF Returns, TimedOut, Next
<1>6. ASSUME NEW c \in Callers, InvokeCancelled(c) PROVE [Next]_vars
  BY <1>6 DEF InvokeCancelled, Next, circuit
<1>7. CASE UNCHANGED echo_vars
  BY <1>7 DEF echo_vars, circuit
<1>8. QED
  BY <1>1, <1>2, <1>3, <1>4, <1>5, <1>6, <1>7 DEF EchoNext

\* The policies composed as the example does use the breaker as its own specification says:
\* all that is proved of the breaker holds of the composition.
THEOREM EchoImplementsBreaker == EchoSpec => Spec
<1>1. EchoInit => Init
  BY DEF EchoInit
<1>2. QED
  BY <1>1, EchoStepImplements, PTL DEF EchoSpec, Spec

\* An invoke returns only with its response set and its event said, it fails only when the
\* policy says so, no attempt says its event twice, and however an attempt ends the
\* breaker's calls in flight are the attempts under way.
THEOREM OutcomesAreHonest == EchoSpec => []OutcomeHonest
<1>1. EchoInit => EchoInv
  BY EchoInitEstablishes
<1>2. EchoInv /\ [EchoNext]_echo_vars => EchoInv'
  BY CountsKept, AnswersKept DEF EchoInv, CountInv
<1>3. EchoInv => OutcomeHonest
  BY DEF EchoInv, CountInv, InvokeTypes, Counted, Answered, OutcomeHonest, InFlightAgrees
<1>4. QED
  BY <1>1, <1>2, <1>3, PTL DEF EchoSpec

-------------------------------------------------------------------------------
(* Interceptors: the chain *)

ChainOK == chain \in Seq(Kinds) /\ IsInjective(chain) /\ Sorted(chain)

\* A set of numbers up to N that has those below each of its members is an interval.
LEMMA DownwardClosed ==
    ASSUME NEW N \in Nat, NEW S \in SUBSET (1..N),
           \A n \in S : \A m \in 1..N : m < n => m \in S
    PROVE  Cardinality(S) \in 0..N /\ S = 1..Cardinality(S)
<1> DEFINE T == {n \in Nat : n <= N /\ 1..n \subseteq S}
<1>1. PICK n \in T : n + 1 \notin T
  <2>1. 0 \in T
    OBVIOUS
  <2>2. N + 1 \notin T
    OBVIOUS
  <2> HIDE DEF T
  <2>3. QED
    BY <2>1, <2>2, SetInduction
<1>2. S = 1..n
  <2>1. n + 1 \notin S
    BY <1>1
  <2>2. \A m \in S : m <= n
    BY <1>1, <2>1
  <2>3. n \in Nat /\ 1..n \subseteq S
    BY <1>1
  <2>4. \A m \in S : m \in 1..n
    BY <2>2, <2>3
  <2>5. QED
    BY <2>3, <2>4
<1>3. Cardinality(S) = n
  BY <1>2, FS_Interval
<1>4. QED
  BY <1>2, <1>3

\* Inserting an item at p moves what was there and behind it.
LEMMA InsertAtIs ==
    ASSUME NEW S, NEW l \in Seq(S), NEW p \in 1..(Len(l) + 1), NEW x \in S
    PROVE  /\ InsertAt(l, p, x) \in Seq(S)
           /\ DOMAIN InsertAt(l, p, x) = 1..(Len(l) + 1)
           /\ InsertAt(l, p, x)[p] = x
           /\ \A j \in 1..(Len(l) + 1) \ {p} :
                 /\ New(p, j) \in DOMAIN l
                 /\ InsertAt(l, p, x)[j] = l[New(p, j)]
<1> DEFINE u == SubSeq(l, 1, p - 1)
           v == SubSeq(l, p, Len(l))
           a == u \o <<x>>
           d == a \o v
<1>1. Len(l) \in Nat /\ DOMAIN l = 1..Len(l) /\ p \in Nat /\ p >= 1 /\ p <= Len(l) + 1
  OBVIOUS
<1>2. u \in Seq(S) /\ Len(u) = p - 1 /\ \A j \in 1..(p - 1) : u[j] = l[j]
  BY <1>1
<1>3. /\ v \in Seq(S) /\ Len(v) = Len(l) + 1 - p
      /\ \A j \in 1..(Len(l) + 1 - p) : v[j] = l[p + j - 1]
  BY <1>1
<1>4. <<x>> \in Seq(S) /\ Len(<<x>>) = 1 /\ <<x>>[1] = x
  OBVIOUS
<1> HIDE DEF u, v
<1>5. a \in Seq(S) /\ Len(a) = p /\ a[p] = x /\ \A j \in 1..(p - 1) : a[j] = l[j]
  <2>1. a \in Seq(S) /\ Len(a) = p
    BY <1>1, <1>2, <1>4, ConcatProperties
  <2>2. \A j \in 1..p : a[j] = IF j <= p - 1 THEN u[j] ELSE <<x>>[j - (p - 1)]
    BY <1>1, <1>2, <1>4, ConcatProperties
  <2>3. a[p] = x
    <3>1. p - (p - 1) = 1 /\ p \in 1..p /\ ~(p <= p - 1)
      BY <1>1
    <3>2. QED
      BY <1>4, <2>2, <3>1
  <2>4. QED
    BY <1>1, <1>2, <2>1, <2>2, <2>3
<1> HIDE DEF a
<1>6. /\ d \in Seq(S) /\ Len(d) = Len(l) + 1
      /\ \A j \in 1..(Len(l) + 1) : d[j] = IF j <= p THEN a[j] ELSE v[j - p]
  <2>1. Len(a) + Len(v) = Len(l) + 1
    BY <1>1, <1>3, <1>5
  <2>2. QED
    BY <1>3, <1>5, <2>1, ConcatProperties
<1>7. d = InsertAt(l, p, x)
  BY DEF InsertAt, a, u, v
<1> HIDE DEF d
<1>8. ASSUME NEW j \in 1..(Len(l) + 1) \ {p} PROVE New(p, j) \in DOMAIN l /\ d[j] = l[New(p, j)]
  <2>1. CASE j < p
    BY <1>1, <1>5, <1>6, <2>1 DEF New
  <2>2. CASE j > p
    <3>1. j - p \in 1..(Len(l) + 1 - p) /\ p + (j - p) - 1 = j - 1
      BY <1>1, <2>2
    <3>2. d[j] = l[j - 1]
      BY <1>1, <1>3, <1>6, <2>2, <3>1
    <3>3. QED
      BY <1>1, <2>2, <3>2 DEF New
  <2>3. QED
    BY <1>1, <2>1, <2>2
<1>9. QED
  BY <1>1, <1>5, <1>6, <1>7, <1>8

\* The interceptor comes to stand behind those of its priority, and the others keep theirs.
LEMMA AddKeepsOrder ==
    ASSUME ChainOK, NEW i \in Kinds, AddInterceptor(i)
    PROVE  ChainOK'
<1> DEFINE before == {n \in DOMAIN chain : Priority[chain[n]] <= Priority[i]}
           N == Len(chain)
<1>1. /\ chain \in Seq(Kinds) /\ N \in Nat /\ DOMAIN chain = 1..N
      /\ i \notin Range(chain) /\ chain' = InsertAt(chain, Cardinality(before) + 1, i)
  BY DEF ChainOK, AddInterceptor
<1>2. \A n \in 1..N : chain[n] \in Kinds /\ Priority[chain[n]] \in Nat
  BY <1>1, InterceptorsAssumption
<1>3. Priority[i] \in Nat
  BY InterceptorsAssumption
<1>4. \A n \in before : \A m \in 1..N : m < n => m \in before
  BY <1>1, <1>2, <1>3 DEF ChainOK, Sorted
<1>5. PICK p \in 1..(N + 1) : p = Cardinality(before) + 1 /\ before = 1..(p - 1)
  <2>1. before \in SUBSET (1..N)
    BY <1>1
  <2> HIDE DEF before
  <2>2. Cardinality(before) \in 0..N /\ before = 1..Cardinality(before)
    BY <1>1, <1>4, <2>1, DownwardClosed
  <2>3. PICK c \in 0..N : c = Cardinality(before)
    BY <2>2
  <2>4. (c + 1) - 1 = c /\ c + 1 \in 1..(N + 1)
    BY <1>1
  <2>5. QED
    BY <2>2, <2>3, <2>4
<1>6. \A n \in 1..N : n < p <=> Priority[chain[n]] <= Priority[i]
  <2>1. \A n \in 1..N : n \in before <=> Priority[chain[n]] <= Priority[i]
    BY <1>1
  <2> HIDE DEF before, N
  <2>2. N \in Nat /\ p \in Nat /\ before = 1..(p - 1)
    BY <1>1, <1>5
  <2>3. \A n \in 1..N : n \in 1..(p - 1) <=> n < p
    BY <2>2
  <2>4. \A n \in 1..N : n \in before <=> n < p
    BY <2>2, <2>3
  <2>5. QED
    BY <2>1, <2>4
<1> HIDE DEF before
<1> DEFINE d == InsertAt(chain, p, i)
<1>7. /\ d \in Seq(Kinds) /\ DOMAIN d = 1..(N + 1) /\ d[p] = i /\ chain' = d
      /\ \A j \in 1..(N + 1) \ {p} : New(p, j) \in 1..N /\ d[j] = chain[New(p, j)]
  <2>1. p \in 1..(Len(chain) + 1)
    OBVIOUS
  <2>2. chain' = d
    BY <1>1, <1>5
  <2>3. /\ d \in Seq(Kinds) /\ DOMAIN d = 1..(Len(chain) + 1) /\ d[p] = i
        /\ \A j \in 1..(Len(chain) + 1) \ {p} :
              New(p, j) \in DOMAIN chain /\ d[j] = chain[New(p, j)]
    <3>1. chain \in Seq(Kinds)
      BY <1>1
    <3> HIDE DEF N
    <3>2. QED
      <4>1. /\ InsertAt(chain, p, i) \in Seq(Kinds)
            /\ DOMAIN InsertAt(chain, p, i) = 1..(Len(chain) + 1)
            /\ InsertAt(chain, p, i)[p] = i
            /\ \A j \in 1..(Len(chain) + 1) \ {p} :
                  /\ New(p, j) \in DOMAIN chain
                  /\ InsertAt(chain, p, i)[j] = chain[New(p, j)]
        BY <2>1, <3>1, InsertAtIs, SMTT(60)
      <4>2. QED
        BY <4>1 DEF d
  <2> HIDE DEF d
  <2>4. QED
    BY <1>1, <2>2, <2>3
<1> HIDE DEF d, N
<1>8. IsInjective(d)
  <2>1. ASSUME NEW j \in 1..(N + 1), NEW k \in 1..(N + 1), d[j] = d[k] PROVE j = k
    <3>1. CASE j = p /\ k # p
      BY <1>1, <1>7, <2>1, <3>1 DEF Range
    <3>2. CASE k = p /\ j # p
      BY <1>1, <1>7, <2>1, <3>2 DEF Range
    <3>3. CASE j # p /\ k # p
      <4>1. New(p, j) = New(p, k)
        BY <1>1, <1>7, <2>1, <3>3 DEF ChainOK, IsInjective
      <4>2. QED
        BY <1>1, <3>3, <4>1 DEF New
    <3>4. QED
      BY <3>1, <3>2, <3>3
  <2>2. QED
    BY <1>7, <2>1 DEF IsInjective
<1>9. Sorted(d)
  <2>1. ASSUME NEW j \in 1..(N + 1), NEW k \in 1..(N + 1), j < k
        PROVE  Priority[d[j]] <= Priority[d[k]]
    <3>1. CASE j = p
      <4>1. New(p, k) \in 1..N /\ ~(New(p, k) < p) /\ d[k] = chain[New(p, k)]
        BY <1>1, <1>7, <2>1, <3>1 DEF New
      <4>2. QED
        BY <1>2, <1>3, <1>6, <1>7, <3>1, <4>1
    <3>2. CASE k = p
      <4>1. New(p, j) \in 1..N /\ New(p, j) < p /\ d[j] = chain[New(p, j)]
        BY <1>1, <1>7, <2>1, <3>2 DEF New
      <4>2. QED
        BY <1>6, <1>7, <3>2, <4>1
    <3>3. CASE j # p /\ k # p
      <4>1. /\ New(p, j) \in 1..N /\ New(p, k) \in 1..N /\ New(p, j) < New(p, k)
            /\ d[j] = chain[New(p, j)] /\ d[k] = chain[New(p, k)]
        BY <1>1, <1>7, <2>1, <3>3 DEF New
      <4>2. QED
        BY <1>1, <4>1 DEF ChainOK, Sorted
    <3>4. QED
      BY <3>1, <3>2, <3>3
  <2>2. QED
    BY <1>7, <2>1 DEF Sorted
<1>10. QED
  BY <1>7, <1>8, <1>9 DEF ChainOK, Sorted

\* What is left of a sorted chain is sorted.
LEMMA RemoveKeepsOrder ==
    ASSUME ChainOK, NEW i \in Kinds, RemoveInterceptor(i)
    PROVE  ChainOK'
<1>1. chain \in Seq(Kinds) /\ i \in Range(chain) /\ chain' = Removed(chain, i)
  BY DEF ChainOK, RemoveInterceptor
<1>2. PICK n \in DOMAIN chain : Removed(chain, i) = RemoveAt(chain, n)
  BY <1>1 DEF Removed, Range
<1> DEFINE d == RemoveAt(chain, n)
<1>3. /\ d \in Seq(Kinds) /\ DOMAIN d = 1..(Len(chain) - 1) /\ DOMAIN chain = 1..Len(chain)
      /\ Len(chain) \in Nat /\ n \in 1..Len(chain)
      /\ \A j \in 1..(Len(chain) - 1) : d[j] = chain[Old(n, j)]
  <2>1. chain \in Seq(Kinds) /\ n \in DOMAIN chain
    BY <1>1
  <2>2. /\ d \in Seq(Kinds) /\ DOMAIN d = 1..(Len(chain) - 1)
        /\ \A j \in 1..(Len(chain) - 1) : d[j] = chain[Old(n, j)]
    BY <2>1, RemoveAtIs, Zenon
  <2>3. QED
    BY <2>1, <2>2
<1> HIDE DEF d
<1>4. \A j \in DOMAIN d : Old(n, j) \in DOMAIN chain
  BY <1>3 DEF Old
<1>5. \A j, k \in DOMAIN d : /\ Old(n, j) = Old(n, k) => j = k
                             /\ j < k => Old(n, j) < Old(n, k)
  BY <1>3 DEF Old
<1>6. IsInjective(d) /\ Sorted(d)
  <2>1. \A j \in DOMAIN d : d[j] = chain[Old(n, j)]
    BY <1>3
  <2>2. IsInjective(d)
    BY <1>4, <1>5, <2>1 DEF ChainOK, IsInjective
  <2>3. Sorted(d)
    <3>1. ASSUME NEW j \in DOMAIN d, NEW k \in DOMAIN d, j < k
          PROVE  Priority[d[j]] <= Priority[d[k]]
      BY <1>4, <1>5, <2>1, <3>1 DEF ChainOK, Sorted
    <3>2. QED
      BY <3>1 DEF Sorted
  <2>4. QED
    BY <2>2, <2>3
<1>7. QED
  BY <1>1, <1>2, <1>3, <1>6 DEF ChainOK, Sorted, d

\* There are finitely many kinds of interceptors.
LEMMA KindsFinite == IsFiniteSet(Kinds)
<1>1. IsFiniteSet({"correlation"})
  BY FS_Singleton
<1>2. IsFiniteSet({"correlation"} \union {"auth"})
  BY <1>1, FS_AddElement
<1>3. IsFiniteSet({"correlation"} \union {"auth"} \union {"logging"})
  BY <1>2, FS_AddElement
<1>4. IsFiniteSet({"correlation"} \union {"auth"} \union {"logging"} \union {"tracing"})
  BY <1>3, FS_AddElement
<1>5. IsFiniteSet({"correlation"} \union {"auth"} \union {"logging"} \union {"tracing"}
                  \union {"timing"})
  BY <1>4, FS_AddElement
<1>6. IsFiniteSet({"correlation"} \union {"auth"} \union {"logging"} \union {"tracing"}
                  \union {"timing"} \union {"metrics"})
  BY <1>5, FS_AddElement
<1>7. Kinds = {"correlation"} \union {"auth"} \union {"logging"} \union {"tracing"}
              \union {"timing"} \union {"metrics"}
  BY DEF Kinds
<1>8. QED
  BY <1>6, <1>7

\* The chain an application builds is sorted and has no interceptor twice.
LEMMA ChainInitOK == ChainInit => ChainOK
<1> SUFFICES ASSUME ChainInit PROVE ChainOK
  OBVIOUS
<1>1. PICK S \in SUBSET Kinds : chain \in Built(S)
  BY InterceptorsAssumption DEF ChainInit
<1>2. Cardinality(S) \in Nat
  BY KindsFinite, FS_Subset, FS_CardinalityType
<1>3. chain \in [1..Cardinality(S) -> S] /\ IsInjective(chain) /\ Sorted(chain)
  BY <1>1 DEF Built
<1>4. chain \in Seq(Kinds)
  <2>1. chain \in [1..Cardinality(S) -> Kinds]
    BY <1>3
  <2>2. QED
    BY <1>2, <2>1
<1>5. QED
  BY <1>3, <1>4 DEF ChainOK

\* So is what add_interceptor and remove_interceptor leave of it.
LEMMA ChainKept == ChainOK /\ [ChainNext]_chain_vars => ChainOK'
<1> SUFFICES ASSUME ChainOK, [ChainNext]_chain_vars PROVE ChainOK'
  OBVIOUS
<1>1. ASSUME NEW i \in Kinds, AddInterceptor(i) PROVE ChainOK'
  BY <1>1, AddKeepsOrder
<1>2. ASSUME NEW i \in Kinds, RemoveInterceptor(i) PROVE ChainOK'
  BY <1>2, RemoveKeepsOrder
<1>3. CASE chain' = chain
  BY <1>3 DEF ChainOK, Sorted
<1>4. QED
  BY <1>1, <1>2, <1>3
  DEF ChainNext, ClearTraces, ResetAll, Enter, Rejected, Answers, Leave, chain_vars
-------------------------------------------------------------------------------
(* Interceptors: calls and contexts *)

CallTypes ==
    /\ step \in [Calls -> Steps] /\ path \in [Calls -> SUBSET Kinds]
    /\ context \in [Calls -> Contexts \union {None}]
    /\ \A c \in Calls : step[c] = "unused" <=> context[c] = None

ContextTypes ==
    /\ error \in [Contexts -> BOOLEAN] /\ ended \in [Contexts -> BOOLEAN]
    /\ \A k \in Contexts : error[k] => ended[k]

\* The context of a call that was made.
LEMMA ContextOfCall ==
    ASSUME CallTypes, NEW c \in Calls, step[c] # "unused"
    PROVE  context[c] \in Contexts
  BY DEF CallTypes

\* What goes in before authorization is in the chain.
LEMMA BeforeAuthIs == ChainOK => Range(chain) \subseteq Kinds /\ BeforeAuth \subseteq Range(chain)
  BY DEF ChainOK, Range, BeforeAuth

\* Every step keeps the calls well formed.
LEMMA CallsKept == ChainOK /\ CallTypes /\ [ChainNext]_chain_vars => CallTypes'
<1> SUFFICES ASSUME ChainOK, CallTypes, [ChainNext]_chain_vars PROVE CallTypes'
  OBVIOUS
<1> USE DEF CallTypes
<1>1. ASSUME NEW c \in Calls, NEW k \in Contexts, NEW K \in SUBSET Kinds,
             NEW to \in Steps \ {"unused"}, Takes(c, k, K, to)
      PROVE  CallTypes'
  <2>1. k # None
    BY InterceptorsAssumption
  <2>2. QED
    BY <1>1, <2>1 DEF Takes
<1>2. ASSUME NEW c \in Calls, NEW k \in Contexts, Enter(c, k) \/ Rejected(c, k) PROVE CallTypes'
  BY <1>1, <1>2, BeforeAuthIs DEF Enter, Rejected, Steps
<1>3. ASSUME NEW c \in Calls, NEW how \in {"returned", "raised", "cancelled"}, Leave(c, how)
      PROVE  CallTypes'
  <2>1. PICK to \in {"returned", "raised", "cancelled", "failed"} :
            step' = [step EXCEPT ![c] = to] /\ step[c] = "invoking"
    BY <1>3 DEF Leave
  <2>2. path' = path /\ context' = context
    BY <1>3 DEF Leave
  <2>3. QED
    BY <2>1, <2>2 DEF Steps
<1>4. CASE UNCHANGED calls
  BY <1>4 DEF calls
<1>5. QED
  BY <1>2, <1>3, <1>4
  DEF ChainNext, AddInterceptor, RemoveInterceptor, ClearTraces, ResetAll, Answers, chain_vars

\* A context that holds an error is one whose call has ended.
LEMMA ContextsKept == CallTypes /\ ContextTypes /\ [ChainNext]_chain_vars => ContextTypes'
<1> SUFFICES ASSUME CallTypes, ContextTypes, [ChainNext]_chain_vars PROVE ContextTypes'
  OBVIOUS
<1> USE DEF ContextTypes
<1>1. ASSUME NEW c \in Calls, NEW k \in Contexts, Rejected(c, k) PROVE ContextTypes'
  BY <1>1 DEF Rejected
<1>2. ASSUME NEW c \in Calls, NEW failed \in BOOLEAN, Answers(c, failed) PROVE ContextTypes'
  <2>1. context[c] \in Contexts
    BY <1>2, ContextOfCall DEF Answers
  <2>2. QED
    BY <1>2, <2>1 DEF Answers
<1>3. CASE error' = error /\ ended' = ended
  BY <1>3
<1>4. QED
  BY <1>1, <1>2, <1>3
  DEF ChainNext, AddInterceptor, RemoveInterceptor, ClearTraces, ResetAll, Enter, Leave,
      contexts, chain_vars
-------------------------------------------------------------------------------
(* Interceptors: the metrics *)

CounterTypes ==
    /\ active_calls \in [Methods -> Nat] /\ calls_total \in [Methods -> Nat]
    /\ errors_total \in [Methods -> Nat] /\ durations \in [Methods -> Nat]

\* Counting one more of what is in K.
LEMMA PlusIs ==
    ASSUME NEW I, NEW f \in [I -> Nat], NEW K
    PROVE  /\ Plus(f, K) \in [I -> Nat]
           /\ \A i \in I : Plus(f, K)[i] = IF i \in K THEN f[i] + 1 ELSE f[i]
  BY DEF Plus

\* On the way out a call is counted, as an error at most if it is with its duration.
LEMMA MetricsOutCounts ==
    ASSUME CounterTypes, GaugesExact, NEW k \in Contexts, NEW failed, NEW timed, failed => timed,
           MetricsOut(k, failed, timed)
    PROVE  /\ calls_total' \in [Methods -> Nat] /\ errors_total' \in [Methods -> Nat]
           /\ durations' \in [Methods -> Nat]
           /\ \A m \in Methods :
                 errors_total'[m] <= durations'[m] /\ durations'[m] <= calls_total'[m]
<1>1. MethodOf[k] \in Methods
  BY InterceptorsAssumption
<1> DEFINE E == IF failed THEN {MethodOf[k]} ELSE {}
           D == IF timed THEN {MethodOf[k]} ELSE {}
           A == {MethodOf[k]}
<1>2. E \subseteq D /\ D \subseteq A
  OBVIOUS
<1>3. calls_total' = Plus(calls_total, A) /\ errors_total' = Plus(errors_total, E)
      /\ durations' = Plus(durations, D)
  BY DEF MetricsOut
<1> HIDE DEF A, D, E
<1>4. /\ calls_total' \in [Methods -> Nat]
      /\ \A m \in Methods : calls_total'[m] = IF m \in A THEN calls_total[m] + 1 ELSE calls_total[m]
  BY <1>3, PlusIs DEF CounterTypes
<1>5. /\ errors_total' \in [Methods -> Nat]
      /\ \A m \in Methods : errors_total'[m] = IF m \in E THEN errors_total[m] + 1 ELSE errors_total[m]
  BY <1>3, PlusIs DEF CounterTypes
<1>6. /\ durations' \in [Methods -> Nat]
      /\ \A m \in Methods : durations'[m] = IF m \in D THEN durations[m] + 1 ELSE durations[m]
  BY <1>3, PlusIs DEF CounterTypes
<1>7. \A m \in Methods : /\ errors_total[m] \in Nat /\ durations[m] \in Nat /\ calls_total[m] \in Nat
                         /\ errors_total[m] <= durations[m] /\ durations[m] <= calls_total[m]
  BY DEF GaugesExact, CounterTypes
<1>8. QED
  BY <1>2, <1>4, <1>5, <1>6, <1>7

\* The order of the counters, and the gauge.
Ordered(m) == errors_total[m] <= durations[m] /\ durations[m] <= calls_total[m]
Gauged(m) == active_calls[m] = Cardinality(Inside("metrics", m))
MetricsInv == CounterTypes /\ GaugesExact

\* The calls inside an interceptor are finitely many.
LEMMA InsideFinite ==
    ASSUME NEW i, NEW m
    PROVE  IsFiniteSet(Inside(i, m)) /\ Cardinality(Inside(i, m)) \in Nat
<1>1. Inside(i, m) \in SUBSET Calls
  BY DEF Inside
<1>2. QED
  BY <1>1, InterceptorsAssumption, FS_Subset, FS_CardinalityType

\* It is enough to look at one method after the other.
LEMMA MetricsFrom ==
    ASSUME CounterTypes', \A m \in Methods : Gauged(m)' /\ Ordered(m)'
    PROVE  MetricsInv'
  BY DEF MetricsInv, GaugesExact, Gauged, Ordered

\* A call that enters is one more inside, if MetricsInterceptor is in the chain.
LEMMA EnterGauged ==
    ASSUME CallTypes, MetricsInv, NEW c \in Calls, NEW k \in Contexts, Enter(c, k)
    PROVE  MetricsInv'
<1> DEFINE K == IF "metrics" \in Range(chain) THEN {MethodOf[k]} ELSE {}
<1>1. /\ step[c] = "unused" /\ step' = [step EXCEPT ![c] = "invoking"]
      /\ context' = [context EXCEPT ![c] = k] /\ path' = [path EXCEPT ![c] = Range(chain)]
      /\ active_calls' = Plus(active_calls, K) /\ UNCHANGED counters
  BY DEF Enter, Free, Takes
<1>2. \A m \in Methods : m \in K <=> "metrics" \in Range(chain) /\ m = MethodOf[k]
  OBVIOUS
<1> HIDE DEF K
<1>3. /\ active_calls' \in [Methods -> Nat]
      /\ \A m \in Methods :
            active_calls'[m] = IF m \in K THEN active_calls[m] + 1 ELSE active_calls[m]
  BY <1>1, PlusIs DEF MetricsInv, CounterTypes
<1>4. CounterTypes'
  BY <1>1, <1>3 DEF MetricsInv, CounterTypes, counters
<1>5. ASSUME NEW m \in Methods PROVE Gauged(m)' /\ Ordered(m)'
  <2>1. Ordered(m)'
    BY <1>1 DEF MetricsInv, GaugesExact, Ordered, counters
  <2>2. c \notin Inside("metrics", m)
    BY <1>1 DEF Inside
  <2>3. active_calls[m] = Cardinality(Inside("metrics", m))
    BY DEF MetricsInv, GaugesExact
  <2>4. Inside("metrics", m)' = IF m \in K THEN Inside("metrics", m) \union {c}
                                ELSE Inside("metrics", m)
    BY <1>1, <1>2 DEF CallTypes, Inside
  <2>5. Cardinality(Inside("metrics", m) \union {c}) = Cardinality(Inside("metrics", m)) + 1
    BY <2>2, InsideFinite, FS_AddElement
  <2>6. Gauged(m)'
    BY <1>3, <2>3, <2>4, <2>5 DEF Gauged
  <2>7. QED
    BY <2>1, <2>6
<1>6. QED
  BY <1>4, <1>5, MetricsFrom

\* A call that leaves is one less, if it was inside.
LEMMA LeaveGauged ==
    ASSUME CallTypes, ContextTypes, MetricsInv, NEW c \in Calls,
           NEW how \in {"returned", "raised", "cancelled"}, Leave(c, how)
    PROVE  MetricsInv'
<1>1. /\ step[c] = "invoking" /\ context[c] \in Contexts /\ context' = context /\ path' = path
      /\ step'[c] # "invoking" /\ \A d \in Calls \ {c} : step'[d] = step[d]
  <2>1. step[c] = "invoking" /\ context' = context /\ path' = path
    BY DEF Leave
  <2>2. PICK to \in {"returned", "raised", "cancelled", "failed"} :
            step' = [step EXCEPT ![c] = to]
    BY DEF Leave
  <2>3. QED
    BY <2>1, <2>2, ContextOfCall DEF CallTypes
<1>2. PICK mm \in Methods : mm = MethodOf[context[c]]
  BY <1>1, InterceptorsAssumption
<1>3. \A m \in Methods : c \in Inside("metrics", m) <=> "metrics" \in path[c] /\ m = mm
  BY <1>1, <1>2 DEF Inside
<1>4. \A m \in Methods : Inside("metrics", m)' = Inside("metrics", m) \ {c}
  BY <1>1 DEF Inside
<1>5. \A m \in Methods : /\ active_calls[m] = Cardinality(Inside("metrics", m))
                         /\ active_calls[m] \in Nat
  BY DEF MetricsInv, GaugesExact, CounterTypes
<1>6. CASE "metrics" \in path[c]
  <2>1. /\ active_calls' = [active_calls EXCEPT ![mm] = @ - 1]
        /\ MetricsOut(context[c], error[context[c]], ended[context[c]])
    BY <1>2, <1>6 DEF Leave
  <2>2. error[context[c]] => ended[context[c]]
    BY <1>1 DEF ContextTypes
  <2>3. /\ calls_total' \in [Methods -> Nat] /\ errors_total' \in [Methods -> Nat]
        /\ durations' \in [Methods -> Nat] /\ \A m \in Methods : Ordered(m)'
    BY <1>1, <2>1, <2>2, MetricsOutCounts DEF MetricsInv, Ordered
  <2>4. ASSUME NEW m \in Methods PROVE active_calls'[m] \in Nat /\ Gauged(m)'
    <3>1. /\ IsFiniteSet(Inside("metrics", m))
          /\ Cardinality(Inside("metrics", m)) \in Nat
          /\ Cardinality(Inside("metrics", m) \ {c}) \in Nat
      BY <1>4, InsideFinite, FS_RemoveElement, FS_CardinalityType
    <3>2. CASE m = mm
      <4>1. Cardinality(Inside("metrics", m) \ {c}) = Cardinality(Inside("metrics", m)) - 1
        BY <1>3, <1>6, <3>1, <3>2, FS_RemoveElement
      <4>2. active_calls'[m] = active_calls[m] - 1
        BY <2>1, <3>2 DEF MetricsInv, CounterTypes
      <4>3. QED
        BY <1>4, <1>5, <3>1, <4>1, <4>2 DEF Gauged
    <3>3. CASE m # mm
      <4>1. Inside("metrics", m) \ {c} = Inside("metrics", m)
        BY <1>3, <3>3
      <4>2. active_calls'[m] = active_calls[m]
        BY <2>1, <3>3 DEF MetricsInv, CounterTypes
      <4>3. QED
        BY <1>4, <1>5, <4>1, <4>2 DEF Gauged
    <3>4. QED
      BY <3>2, <3>3
  <2>5. active_calls' \in [Methods -> Nat]
    <3>1. active_calls' = [m \in Methods |-> active_calls'[m]]
      BY <2>1 DEF MetricsInv, CounterTypes
    <3>2. QED
      BY <2>4, <3>1
  <2>6. QED
    BY <2>3, <2>4, <2>5, MetricsFrom DEF CounterTypes
<1>7. CASE "metrics" \notin path[c]
  <2>1. active_calls' = active_calls /\ UNCHANGED counters
    BY <1>7 DEF Leave
  <2>2. \A m \in Methods : Inside("metrics", m)' = Inside("metrics", m)
    BY <1>3, <1>4, <1>7
  <2>3. QED
    BY <2>1, <2>2 DEF MetricsInv, CounterTypes, GaugesExact, counters
<1>8. QED
  BY <1>6, <1>7

\* A rejected call is counted without having been inside.
LEMMA RejectedGauged ==
    ASSUME CallTypes, MetricsInv, NEW c \in Calls, NEW k \in Contexts, Rejected(c, k)
    PROVE  MetricsInv'
<1>1. /\ step[c] = "unused" /\ step' = [step EXCEPT ![c] = "failed"]
      /\ context' = [context EXCEPT ![c] = k] /\ path' = [path EXCEPT ![c] = BeforeAuth]
      /\ active_calls' = active_calls
      /\ MetricsOut(k, TRUE, TRUE) \/ UNCHANGED counters
  BY DEF Rejected, Free, Takes
<1>2. \A m \in Methods : Inside("metrics", m)' = Inside("metrics", m)
  BY <1>1 DEF CallTypes, Inside
<1>3. \A m \in Methods : Gauged(m)'
  BY <1>1, <1>2 DEF MetricsInv, GaugesExact, Gauged
<1>4. CASE MetricsOut(k, TRUE, TRUE)
  <2>1. /\ calls_total' \in [Methods -> Nat] /\ errors_total' \in [Methods -> Nat]
        /\ durations' \in [Methods -> Nat] /\ \A m \in Methods : Ordered(m)'
    BY <1>4, MetricsOutCounts DEF MetricsInv, Ordered
  <2>2. QED
    BY <1>1, <1>3, <2>1, MetricsFrom DEF MetricsInv, CounterTypes
<1>5. CASE UNCHANGED counters
  BY <1>1, <1>2, <1>5 DEF MetricsInv, CounterTypes, GaugesExact, counters
<1>6. QED
  BY <1>1, <1>4, <1>5

\* Every step keeps the gauges and the order of the counters.
LEMMA MetricsKept ==
    CallTypes /\ ContextTypes /\ MetricsInv /\ [ChainNext]_chain_vars => MetricsInv'
<1> SUFFICES ASSUME CallTypes, ContextTypes, MetricsInv, [ChainNext]_chain_vars PROVE MetricsInv'
  OBVIOUS
<1>1. CASE UNCHANGED <<calls, active_calls, counters>>
  BY <1>1 DEF MetricsInv, CounterTypes, GaugesExact, Inside, calls, counters
<1>2. CASE ResetAll
  <2>1. UNCHANGED <<calls, active_calls>>
    BY <1>2 DEF ResetAll
  <2>2. /\ calls_total' = [m \in Methods |-> 0] /\ errors_total' = [m \in Methods |-> 0]
        /\ durations' = [m \in Methods |-> 0]
    BY <1>2 DEF ResetAll, Zeros
  <2>3. CounterTypes' /\ \A m \in Methods : Ordered(m)'
    BY <2>1, <2>2 DEF MetricsInv, CounterTypes, Ordered
  <2>4. \A m \in Methods : Gauged(m)'
    BY <2>1 DEF MetricsInv, GaugesExact, Gauged, Inside, calls
  <2>5. QED
    BY <2>3, <2>4, MetricsFrom
<1>3. QED
  BY <1>1, <1>2, EnterGauged, LeaveGauged, RejectedGauged
  DEF ChainNext, AddInterceptor, RemoveInterceptor, ClearTraces, Answers, chain_vars
-------------------------------------------------------------------------------
(* Interceptors: what is noted on the way in and out *)

StampTypes == entries \in [Stamping -> Nat] /\ exits \in [Stamping -> Nat]

\* The calls whose way out the interceptor has not noted, or never will.
Missing(i) ==
    {c \in Calls : /\ i \in path[c]
                   /\ \/ step[c] = "invoking"
                      \/ step[c] \in {"raised", "cancelled"} /\ i # "timing"}

StampsInv == StampTypes /\ StampsExact

\* The calls an interceptor has noted on the way in only are finitely many.
LEMMA MissingFinite ==
    ASSUME NEW i
    PROVE  IsFiniteSet(Missing(i)) /\ Cardinality(Missing(i)) \in Nat
<1>1. Missing(i) \in SUBSET Calls
  BY DEF Missing
<1>2. QED
  BY <1>1, InterceptorsAssumption, FS_Subset, FS_CardinalityType

\* What the entries are more than the exits, by the calls that make the difference.
LEMMA StampsAre ==
    StampsExact <=> \A i \in Stamping : entries[i] = exits[i] + Cardinality(Missing(i))
  BY DEF StampsExact, Missing

\* It is enough to look at one interceptor after the other.
LEMMA StampsFrom ==
    ASSUME StampTypes', \A i \in Stamping : (entries[i] = exits[i] + Cardinality(Missing(i)))'
    PROVE  StampsInv'
  BY DEF StampsInv, StampsExact, Missing

\* Going in, a call is noted and missed.
LEMMA EnterStamped ==
    ASSUME CallTypes, StampsInv, NEW c \in Calls, NEW k \in Contexts, Enter(c, k)
    PROVE  StampsInv'
<1> DEFINE K == Range(chain)
<1>1. /\ step[c] = "unused" /\ step' = [step EXCEPT ![c] = "invoking"]
      /\ path' = [path EXCEPT ![c] = K] /\ entries' = Plus(entries, K) /\ exits' = exits
  BY DEF Enter, Free, Takes
<1> HIDE DEF K
<1>2. /\ entries' \in [Stamping -> Nat]
      /\ \A i \in Stamping : entries'[i] = IF i \in K THEN entries[i] + 1 ELSE entries[i]
  BY <1>1, PlusIs DEF StampsInv, StampTypes
<1>3. ASSUME NEW i \in Stamping PROVE entries'[i] = exits'[i] + Cardinality(Missing(i)')
  <2>1. c \notin Missing(i)
    BY <1>1 DEF Missing
  <2>2. Missing(i)' = IF i \in K THEN Missing(i) \union {c} ELSE Missing(i)
    BY <1>1 DEF CallTypes, Missing
  <2>3. Cardinality(Missing(i) \union {c}) = Cardinality(Missing(i)) + 1
    BY <2>1, MissingFinite, FS_AddElement
  <2>4. entries[i] = exits[i] + Cardinality(Missing(i)) /\ exits[i] \in Nat
    BY StampsAre DEF StampsInv, StampTypes
  <2>5. Cardinality(Missing(i)) \in Nat
    BY MissingFinite
  <2>6. QED
    BY <1>1, <1>2, <2>2, <2>3, <2>4, <2>5
<1>4. QED
  BY <1>1, <1>2, <1>3, StampsFrom DEF StampsInv, StampTypes

\* A rejected call is noted both ways.
LEMMA RejectedStamped ==
    ASSUME CallTypes, StampsInv, NEW c \in Calls, NEW k \in Contexts, Rejected(c, k)
    PROVE  StampsInv'
<1> DEFINE K == BeforeAuth
           X == Noted(BeforeAuth, "returned")
<1>1. /\ step[c] = "unused" /\ step' = [step EXCEPT ![c] = "failed"]
      /\ path' = [path EXCEPT ![c] = K]
      /\ entries' = Plus(entries, K) /\ exits' = Plus(exits, X)
  BY DEF Rejected, Free, Takes
<1>2. \A i \in Stamping : i \in X <=> i \in K
  BY DEF Noted
<1> HIDE DEF K, X
<1>3. /\ entries' \in [Stamping -> Nat]
      /\ \A i \in Stamping : entries'[i] = IF i \in K THEN entries[i] + 1 ELSE entries[i]
  BY <1>1, PlusIs DEF StampsInv, StampTypes
<1>4. /\ exits' \in [Stamping -> Nat]
      /\ \A i \in Stamping : exits'[i] = IF i \in X THEN exits[i] + 1 ELSE exits[i]
  BY <1>1, PlusIs DEF StampsInv, StampTypes
<1>5. ASSUME NEW i \in Stamping PROVE entries'[i] = exits'[i] + Cardinality(Missing(i)')
  <2>1. Missing(i)' = Missing(i)
    BY <1>1 DEF CallTypes, Missing
  <2>2. entries[i] = exits[i] + Cardinality(Missing(i)) /\ exits[i] \in Nat
    BY StampsAre DEF StampsInv, StampTypes
  <2>3. Cardinality(Missing(i)) \in Nat
    BY MissingFinite
  <2>4. QED
    BY <1>2, <1>3, <1>4, <2>1, <2>2, <2>3
<1>6. QED
  BY <1>3, <1>4, <1>5, StampsFrom DEF StampTypes

\* Going out, what notes the exit misses the call no more; what does not, misses it for good.
LEMMA LeaveStamped ==
    ASSUME CallTypes, StampsInv, NEW c \in Calls,
           NEW how \in {"returned", "raised", "cancelled"}, Leave(c, how)
    PROVE  StampsInv'
<1> DEFINE X == Noted(path[c], how)
<1>1. step[c] = "invoking" /\ path' = path /\ entries' = entries /\ exits' = Plus(exits, X)
  BY DEF Leave
<1>2. PICK to \in {"returned", "raised", "cancelled", "failed"} :
          /\ step' = [step EXCEPT ![c] = to]
          /\ to \in {"raised", "cancelled"} <=> how # "returned"
  BY DEF Leave
<1>3. \A i \in Stamping : i \in X <=> i \in path[c] /\ (how = "returned" \/ i = "timing")
  BY DEF Noted
<1> HIDE DEF X
<1>4. /\ exits' \in [Stamping -> Nat]
      /\ \A i \in Stamping : exits'[i] = IF i \in X THEN exits[i] + 1 ELSE exits[i]
  BY <1>1, PlusIs DEF StampsInv, StampTypes
<1>5. ASSUME NEW i \in Stamping PROVE entries'[i] = exits'[i] + Cardinality(Missing(i)')
  <2>1. entries[i] = exits[i] + Cardinality(Missing(i)) /\ exits[i] \in Nat
    BY StampsAre DEF StampsInv, StampTypes
  <2>2. Cardinality(Missing(i)) \in Nat
    BY MissingFinite
  <2>3. step'[c] = to /\ \A d \in Calls \ {c} : step'[d] = step[d]
    BY <1>2 DEF CallTypes
  <2>4. CASE i \in X
    <3>1. c \in Missing(i)
      BY <1>1, <1>3, <2>4 DEF Missing
    <3>2. Missing(i)' = Missing(i) \ {c}
      BY <1>1, <1>2, <1>3, <2>3, <2>4 DEF Missing
    <3>3. Cardinality(Missing(i) \ {c}) = Cardinality(Missing(i)) - 1
      BY <3>1, MissingFinite, FS_RemoveElement
    <3>4. QED
      BY <1>1, <1>4, <2>1, <2>2, <2>4, <3>2, <3>3
  <2>5. CASE i \notin X
    <3>1. c \in Missing(i)' <=> c \in Missing(i)
      BY <1>1, <1>2, <1>3, <2>3, <2>5 DEF Missing
    <3>2. \A d \in Calls \ {c} : d \in Missing(i)' <=> d \in Missing(i)
      BY <1>1, <2>3 DEF Missing
    <3>3. Missing(i)' = Missing(i)
      BY <3>1, <3>2 DEF Missing
    <3>4. QED
      BY <1>1, <1>4, <2>1, <2>5, <3>3
  <2>6. QED
    BY <2>4, <2>5
<1>6. QED
  BY <1>1, <1>4, <1>5, StampsFrom DEF StampsInv, StampTypes

\* Every step keeps the difference of entries and exits.
LEMMA StampsKept == CallTypes /\ StampsInv /\ [ChainNext]_chain_vars => StampsInv'
<1> SUFFICES ASSUME CallTypes, StampsInv, [ChainNext]_chain_vars PROVE StampsInv'
  OBVIOUS
<1>1. CASE UNCHANGED <<calls, stamps>>
  BY <1>1 DEF StampsInv, StampTypes, StampsExact, calls, stamps
<1>2. QED
  BY <1>1, EnterStamped, LeaveStamped, RejectedStamped
  DEF ChainNext, AddInterceptor, RemoveInterceptor, ClearTraces, ResetAll, Answers, chain_vars
-------------------------------------------------------------------------------
(* Interceptors: the spans *)

TraceTypes ==
    /\ trace_id \in [Contexts -> Contexts \union {SharedTrace, None}]
    /\ \A t \in DOMAIN traces : traces[t] \in Calls

Spans == [of : Calls \union {None}, parent : Calls \union {None},
          status : {"none", "open", "ok", "error"}]

SpanTypes ==
    /\ span \in [Calls -> Spans] /\ active_span \in [Calls -> Calls \union {None}]
    /\ open \in [Calls -> Seq(Calls)] /\ mixed \subseteq Calls

\* The calls under way inside TracingInterceptor are those listed with the TracingContext
\* their span is of.
Tracks(c) == step[c] = "invoking" /\ "tracing" \in path[c]
OpenAre(of) ==
    OneEach(open[of]) /\ \A c \in Calls : c \in Range(open[of]) <=> Tracks(c) /\ span[c].of = of
OpenExact ==
    /\ \A c \in Calls : Tracks(c) => span[c].of \in Calls
    /\ \A of \in Calls : OpenAre(of)

\* What ParentIsEnclosing says of one TracingContext, and SpansSettle of one call.
Enclosed(of) ==
    /\ active_span[of] = IF open[of] = <<>> THEN None ELSE Last(open[of])
    /\ \A n \in DOMAIN open[of] :
          span[open[of][n]].parent = IF n = 1 THEN None ELSE open[of][n - 1]
Verdict(s) ==
    IF s \in {"invoking", "cancelled"} THEN "open" ELSE IF s = "returned" THEN "ok" ELSE "error"
Settled(c) == "tracing" \in path[c] => span[c].status = Verdict(step[c])

SpanInv ==
    /\ SpanTypes /\ OpenExact
    /\ \A c \in Calls : Settled(c)
    /\ \A of \in Calls \ mixed : Enclosed(of)

\* The invariant of the spans contains what the run checks of them.
LEMMA SpanInvFaithful == SpanInv => TraceFaithful
<1>1. \A s : (CASE s \in {"invoking", "cancelled"} -> "open"
                [] s = "returned" -> "ok"
                [] OTHER -> "error") = Verdict(s)
  BY DEF Verdict
<1>2. (\A c \in Calls : Settled(c)) => SpansSettle
  BY <1>1 DEF Settled, SpansSettle
<1>3. QED
  BY <1>2 DEF SpanInv, TraceFaithful, ParentIsEnclosing, Enclosed

\* Every step keeps traces, contexts and active spans well formed.
LEMMA TracesKept == TraceTypes /\ [ChainNext]_chain_vars => TraceTypes'
<1> SUFFICES ASSUME TraceTypes, [ChainNext]_chain_vars PROVE TraceTypes'
  OBVIOUS
<1> USE DEF TraceTypes
<1>1. ASSUME NEW c \in Calls, NEW k \in Contexts,
             trace_id' = [trace_id EXCEPT ![k] = TraceOf(k)],
             traces' = [t \in DOMAIN traces \union {TraceOf(k)} |->
                           IF t = TraceOf(k) THEN TracingContextOf(c, k) ELSE traces[t]]
      PROVE  TraceTypes'
  BY <1>1 DEF TraceOf, TracingContextOf
<1>2. CASE trace_id' = trace_id /\ traces' = traces
  BY <1>2
<1>3. ASSUME NEW c \in Calls, NEW k \in Contexts, Enter(c, k) \/ Rejected(c, k) PROVE TraceTypes'
  BY <1>1, <1>2, <1>3 DEF Enter, Rejected, TracingIn, TracingRejected, tracer
<1>4. CASE ClearTraces
  BY <1>4 DEF ClearTraces, contexts
<1>5. ASSUME NEW c \in Calls, NEW how, Leave(c, how) PROVE TraceTypes'
  BY <1>2, <1>5 DEF Leave, TracingOut, tracer
<1>6. QED
  BY <1>2, <1>3, <1>4, <1>5
  DEF ChainNext, AddInterceptor, RemoveInterceptor, ResetAll, Answers, contexts, tracer, chain_vars

\* The TracingContext of a trace is one, and a span begun in it is a span.
LEMMA StartSpanIs ==
    ASSUME TraceTypes, SpanTypes, NEW c \in Calls, NEW k \in Contexts
    PROVE  /\ TracingContextOf(c, k) \in Calls
           /\ \A of \in Calls :
                 /\ StartSpan(c, of) \in Spans /\ StartSpan(c, of).of = of
                 /\ StartSpan(c, of).parent = active_span[of] /\ StartSpan(c, of).status = "open"
                 /\ [StartSpan(c, of) EXCEPT !.status = "error"] \in Spans
                 /\ [StartSpan(c, of) EXCEPT !.status = "error"].status = "error"
<1>1. TracingContextOf(c, k) \in Calls
  BY DEF TraceTypes, TracingContextOf
<1>2. ASSUME NEW of \in Calls PROVE active_span[of] \in Calls \union {None}
  BY DEF SpanTypes
<1>3. QED
  BY <1>1, <1>2 DEF StartSpan, Spans

\* A span that is finished keeps its TracingContext and its parent.
LEMMA FinishedSpanIs ==
    ASSUME SpanTypes, NEW c \in Calls, NEW s \in {"ok", "error"},
           span' = [span EXCEPT ![c].status = s]
    PROVE  /\ span' \in [Calls -> Spans] /\ span'[c].status = s
           /\ \A d \in Calls : span'[d].of = span[d].of /\ span'[d].parent = span[d].parent
           /\ \A d \in Calls \ {c} : span'[d] = span[d]
  BY DEF SpanTypes, Spans

\* A span begins in a TracingContext: it becomes the active one, under the one that was.
LEMMA EnterSpans ==
    ASSUME ChainOK, CallTypes, TraceTypes, SpanInv, NEW c \in Calls, NEW k \in Contexts,
           Enter(c, k), "tracing" \in Range(chain)
    PROVE  SpanInv'
<1>1. PICK of \in Calls : of = TracingContextOf(c, k)
  BY StartSpanIs DEF SpanInv
<1>2. PICK r \in Spans : /\ r = StartSpan(c, of) /\ r.of = of /\ r.parent = active_span[of]
                         /\ r.status = "open"
  <2>1. SpanTypes
    BY DEF SpanInv
  <2>2. StartSpan(c, of) \in Spans /\ StartSpan(c, of).of = of
    BY <2>1, StartSpanIs
  <2>3. StartSpan(c, of).parent = active_span[of] /\ StartSpan(c, of).status = "open"
    BY <2>1, StartSpanIs
  <2>4. QED
    BY <2>2, <2>3, Zenon
<1>3. /\ step[c] = "unused" /\ step' = [step EXCEPT ![c] = "invoking"]
      /\ path' = [path EXCEPT ![c] = Range(chain)]
      /\ span' = [span EXCEPT ![c] = r] /\ active_span' = [active_span EXCEPT ![of] = c]
      /\ open' = [open EXCEPT ![of] = Append(@, c)] /\ mixed' = mixed
  BY <1>1, <1>2 DEF Enter, Free, Takes, TracingIn
<1>4. /\ span'[c] = r /\ Tracks(c)' /\ ~Tracks(c) /\ step'[c] = "invoking"
      /\ \A d \in Calls \ {c} : /\ span'[d] = span[d] /\ (Tracks(d)' <=> Tracks(d))
                                /\ Settled(d)' <=> Settled(d)
  BY <1>3 DEF CallTypes, SpanInv, SpanTypes, Tracks, Settled
<1>5. /\ active_span'[of] = c /\ open'[of] = Append(open[of], c)
      /\ \A o \in Calls \ {of} : active_span'[o] = active_span[o] /\ open'[o] = open[o]
  BY <1>3 DEF SpanInv, SpanTypes
<1>6. \A o \in Calls : open[o] \in Seq(Calls) /\ c \notin Range(open[o]) /\ OpenAre(o)
  BY <1>4 DEF SpanInv, SpanTypes, OpenExact, OpenAre
<1>7. SpanTypes'
  <2>1. Append(open[of], c) \in Seq(Calls)
    BY <1>6, AppendProperties
  <2>2. QED
    BY <1>3, <2>1 DEF SpanInv, SpanTypes
<1>8. \A o \in Calls \ {of} : OpenAre(o)'
  BY <1>2, <1>4, <1>5, <1>6 DEF OpenAre
<1>9. OpenAre(of)'
  <2>1. Range(open'[of]) = Range(open[of]) \union {c} /\ OneEach(open'[of])
    BY <1>5, <1>6, ListWithOneMore DEF OpenAre
  <2>2. \A d \in Calls : d \in Range(open[of]) <=> Tracks(d) /\ span[d].of = of
    BY <1>6 DEF OpenAre
  <2>3. \A d \in Calls : d \in Range(open'[of]) <=> Tracks(d)' /\ span'[d].of = of
    BY <1>2, <1>4, <2>1, <2>2
  <2>4. QED
    BY <2>1, <2>3 DEF OpenAre
<1>10. \A d \in Calls : Tracks(d)' => span'[d].of \in Calls
  BY <1>2, <1>4 DEF SpanInv, OpenExact
<1>11. \A d \in Calls : Settled(d)'
  <2>1. Settled(c)'
    BY <1>2, <1>4 DEF Settled, Verdict
  <2>2. QED
    BY <1>4, <2>1 DEF SpanInv
<1>12. ASSUME NEW o \in Calls \ mixed PROVE Enclosed(o)'
  <2>1. Enclosed(o)
    BY DEF SpanInv
  <2>2. \A n \in DOMAIN open[o] : open[o][n] \in Calls \ {c} /\ span'[open[o][n]] = span[open[o][n]]
    BY <1>4, <1>6 DEF Range
  <2>3. CASE o # of
    BY <1>5, <2>1, <2>2, <2>3 DEF Enclosed
  <2>4. CASE o = of
    <3> DEFINE l == open[of]
               a == open'[of]
    <3>1. /\ l \in Seq(Calls) /\ Len(l) \in Nat /\ DOMAIN l = 1..Len(l)
          /\ a = Append(l, c) /\ a # <<>> /\ Len(a) = Len(l) + 1 /\ DOMAIN a = 1..(Len(l) + 1)
          /\ a[Len(l) + 1] = c /\ \A n \in 1..Len(l) : a[n] = l[n]
      BY <1>5, <1>6, AppendProperties
    <3>2. /\ \A n \in DOMAIN l : span'[l[n]] = span[l[n]]
          /\ active_span[of] = IF l = <<>> THEN None ELSE Last(l)
          /\ \A n \in DOMAIN l : span[l[n]].parent = IF n = 1 THEN None ELSE l[n - 1]
      BY <2>1, <2>2, <2>4 DEF Enclosed
    <3> HIDE DEF l, a
    <3>3. active_span'[of] = Last(a)
      BY <1>5, <3>1 DEF Last
    <3>4. ASSUME NEW n \in 1..(Len(l) + 1)
          PROVE  span'[a[n]].parent = IF n = 1 THEN None ELSE a[n - 1]
      <4>1. CASE n \in 1..Len(l)
        <5>1. a[n] = l[n] /\ (n # 1 => a[n - 1] = l[n - 1])
          BY <3>1, <4>1
        <5>2. QED
          BY <3>1, <3>2, <4>1, <5>1
      <4>2. CASE n = Len(l) + 1
        <5>1. span'[a[n]].parent = active_span[of]
          BY <1>2, <1>4, <3>1, <4>2
        <5>2. CASE l = <<>>
          BY <3>1, <3>2, <4>2, <5>1, <5>2
        <5>3. CASE l # <<>>
          <6>1. Len(l) # 0
            BY <3>1, <5>3, EmptySeq
          <6>2. n # 1 /\ n - 1 \in 1..Len(l) /\ n - 1 = Len(l)
            BY <3>1, <4>2, <6>1
          <6>3. a[n - 1] = Last(l)
            BY <3>1, <6>2 DEF Last
          <6>4. QED
            BY <3>2, <5>1, <5>3, <6>2, <6>3
        <5>4. QED
          BY <5>2, <5>3
      <4>3. QED
        BY <3>1, <4>1, <4>2
    <3>5. QED
      BY <2>4, <3>1, <3>3, <3>4 DEF Enclosed, a
  <2>5. QED
    BY <2>3, <2>4
<1>13. QED
  BY <1>3, <1>7, <1>8, <1>9, <1>10, <1>11, <1>12 DEF SpanInv, OpenExact

\* A span that begins and ends in one step leaves the active one.
LEMMA RejectedSpans ==
    ASSUME ChainOK, CallTypes, TraceTypes, SpanInv, NEW c \in Calls, NEW k \in Contexts,
           Rejected(c, k)
    PROVE  SpanInv'
<1>1. /\ step[c] = "unused" /\ step' = [step EXCEPT ![c] = "failed"]
      /\ path' = [path EXCEPT ![c] = BeforeAuth]
  BY DEF Rejected, Free, Takes
<1>2. /\ \A d \in Calls \ {c} : span'[d] = span[d]
      /\ span' \in [Calls -> Spans] /\ active_span' = active_span /\ open' = open /\ mixed' = mixed
      /\ "tracing" \in BeforeAuth => span'[c].status = "error"
  <2>1. CASE "tracing" \in BeforeAuth
    <3>1. PICK of \in Calls : of = TracingContextOf(c, k)
      BY StartSpanIs DEF SpanInv
    <3>2. SpanTypes
      BY DEF SpanInv
    <3>3. /\ [StartSpan(c, of) EXCEPT !.status = "error"] \in Spans
          /\ [StartSpan(c, of) EXCEPT !.status = "error"].status = "error"
      BY <3>2, StartSpanIs
    <3>4. PICK r \in Spans : r = [StartSpan(c, of) EXCEPT !.status = "error"] /\ r.status = "error"
      BY <3>3, Zenon
    <3>5. /\ span' = [span EXCEPT ![c] = r]
          /\ active_span' = active_span /\ open' = open /\ mixed' = mixed
      BY <2>1, <3>1, <3>4 DEF Rejected, TracingRejected
    <3>6. QED
      BY <3>4, <3>5 DEF SpanInv, SpanTypes
  <2>2. CASE "tracing" \notin BeforeAuth
    BY <2>2 DEF Rejected, tracer, SpanInv, SpanTypes
  <2>3. QED
    BY <2>1, <2>2
<1>3. /\ ~Tracks(c) /\ ~Tracks(c)' /\ step'[c] = "failed" /\ path'[c] = BeforeAuth
      /\ \A d \in Calls \ {c} : (Tracks(d)' <=> Tracks(d)) /\ (Settled(d)' <=> Settled(d))
  BY <1>1, <1>2 DEF CallTypes, Tracks, Settled
<1>4. SpanTypes'
  BY <1>2 DEF SpanInv, SpanTypes
<1>5. OpenExact'
  BY <1>2, <1>3 DEF SpanInv, OpenExact, OpenAre
<1>6. \A d \in Calls : Settled(d)'
  <2>1. Settled(c)'
    BY <1>2, <1>3 DEF Settled, Verdict
  <2>2. QED
    BY <1>3, <2>1 DEF SpanInv
<1>7. ASSUME NEW o \in Calls \ mixed PROVE Enclosed(o)'
  <2>1. Enclosed(o) /\ OpenAre(o) /\ open[o] \in Seq(Calls)
    BY DEF SpanInv, SpanTypes, OpenExact
  <2>2. \A n \in DOMAIN open[o] : span'[open[o][n]] = span[open[o][n]]
    BY <1>2, <1>3, <2>1 DEF OpenAre, Range
  <2>3. QED
    BY <1>2, <2>1, <2>2 DEF Enclosed
<1>8. QED
  BY <1>2, <1>4, <1>5, <1>6, <1>7 DEF SpanInv

\* Taking the last item out of a list without duplicates leaves those before it.
LEMMA RemovedLast ==
    ASSUME NEW S, NEW l \in Seq(S), OneEach(l), l # <<>>
    PROVE  /\ Len(l) \in Nat \ {0} /\ DOMAIN l = 1..Len(l)
           /\ Removed(l, Last(l)) \in Seq(S)
           /\ DOMAIN Removed(l, Last(l)) = 1..(Len(l) - 1)
           /\ \A n \in 1..(Len(l) - 1) : Removed(l, Last(l))[n] = l[n]
<1>1. Len(l) \in Nat \ {0} /\ DOMAIN l = 1..Len(l) /\ Last(l) = l[Len(l)]
  BY EmptySeq DEF Last
<1>2. PICK i \in DOMAIN l : l[i] = Last(l) /\ Removed(l, Last(l)) = RemoveAt(l, i)
  <2>1. Last(l) \in Range(l)
    BY <1>1 DEF Range
  <2>2. QED
    BY <2>1 DEF Removed, Range
<1>3. i = Len(l)
  BY <1>1, <1>2 DEF OneEach
<1>4. /\ RemoveAt(l, i) \in Seq(S) /\ DOMAIN RemoveAt(l, i) = 1..(Len(l) - 1)
      /\ \A j \in 1..(Len(l) - 1) : RemoveAt(l, i)[j] = l[Old(i, j)]
  BY RemoveAtIs
<1>5. \A j \in 1..(Len(l) - 1) : Old(i, j) = j
  BY <1>1, <1>3 DEF Old
<1>6. QED
  BY <1>1, <1>2, <1>4, <1>5

\* A call leaves its TracingContext: a span that ends last-in-first-out hands over to its
\* parent; any other, or one that is cancelled, mixes the context up for good.
LEMMA TracedLeaves ==
    ASSUME CallTypes, SpanInv, NEW c \in Calls,
           NEW how \in {"returned", "raised", "cancelled"}, Leave(c, how), "tracing" \in path[c]
    PROVE  SpanInv'
<1>1. /\ step[c] = "invoking" /\ path' = path /\ TracingOut(c, how)
  BY DEF Leave
<1>2. PICK to \in {"returned", "raised", "cancelled", "failed"} :
          /\ step' = [step EXCEPT ![c] = to]
          /\ to = "cancelled" <=> how = "cancelled"
          /\ to = "returned" <=> how = "returned" /\ ~error[context[c]]
  BY DEF Leave
<1>3. Tracks(c) /\ SpanTypes
  BY <1>1 DEF Tracks, SpanInv
<1>4. PICK of \in Calls : of = span[c].of
  BY <1>3 DEF SpanInv, OpenExact
<1>5. /\ open' = [open EXCEPT ![of] = Removed(@, c)]
      /\ mixed' = IF how = "cancelled" \/ Last(open[of]) # c THEN mixed \union {of} ELSE mixed
  BY <1>1, <1>4 DEF TracingOut
<1>6. /\ span' \in [Calls -> Spans] /\ span'[c].status = Verdict(to)
      /\ \A d \in Calls : span'[d].of = span[d].of /\ span'[d].parent = span[d].parent
      /\ \A d \in Calls \ {c} : span'[d] = span[d]
      /\ active_span' = IF how = "cancelled" THEN active_span
                        ELSE [active_span EXCEPT ![of] = span[c].parent]
  <2>1. CASE how = "cancelled"
    <3>1. span' = span /\ active_span' = active_span
      BY <1>1, <2>1 DEF TracingOut
    <3>2. span[c].status = "open" /\ Verdict(to) = "open"
      BY <1>1, <1>2, <2>1 DEF SpanInv, Settled, Verdict
    <3>3. QED
      BY <1>3, <2>1, <3>1, <3>2 DEF SpanTypes
  <2>2. CASE how # "cancelled"
    <3>1. PICK s \in {"ok", "error"} :
              /\ s = "error" <=> how = "raised" \/ error[context[c]]
              /\ FinishSpan(c, s)
      BY <1>1, <2>2 DEF TracingOut
    <3>2. s = Verdict(to)
      BY <1>2, <2>2, <3>1 DEF Verdict
    <3>3. /\ span' = [span EXCEPT ![c].status = s]
          /\ active_span' = [active_span EXCEPT ![of] = span[c].parent]
      BY <1>4, <3>1 DEF FinishSpan
    <3>4. QED
      BY <1>3, <2>2, <3>2, <3>3, FinishedSpanIs
  <2>3. QED
    BY <2>1, <2>2
<1>7. /\ ~Tracks(c)' /\ \A d \in Calls \ {c} : Tracks(d)' <=> Tracks(d)
      /\ step'[c] = to /\ \A d \in Calls \ {c} : step'[d] = step[d]
  BY <1>1, <1>2 DEF CallTypes, Tracks
<1>8. \A o \in Calls : open[o] \in Seq(Calls) /\ OneEach(open[o]) /\ OpenAre(o)
  BY DEF SpanInv, SpanTypes, OpenExact, OpenAre
<1>9. open'[of] = Removed(open[of], c) /\ \A o \in Calls \ {of} : open'[o] = open[o]
  BY <1>3, <1>5 DEF SpanTypes
<1>10. c \in Range(open[of])
  BY <1>3, <1>4, <1>8 DEF OpenAre
<1>11. /\ Removed(open[of], c) \in Seq(Calls) /\ OneEach(Removed(open[of], c))
       /\ Range(Removed(open[of], c)) = Range(open[of]) \ {c}
  BY <1>8, <1>10, RemovedIs
<1>12. SpanTypes'
  <2>1. active_span' \in [Calls -> Calls \union {None}]
    BY <1>3, <1>6 DEF SpanTypes, Spans
  <2>2. open' \in [Calls -> Seq(Calls)] /\ mixed' \subseteq Calls
    BY <1>3, <1>5, <1>11 DEF SpanTypes
  <2>3. QED
    BY <1>6, <2>1, <2>2 DEF SpanTypes
<1>13. OpenExact'
  <2>1. ASSUME NEW d \in Calls, Tracks(d)' PROVE span'[d].of \in Calls
    BY <1>6, <1>7, <2>1 DEF SpanInv, OpenExact
  <2>2. ASSUME NEW o \in Calls PROVE OpenAre(o)'
    <3>1. \A d \in Calls : d \in Range(open[o]) <=> Tracks(d) /\ span[d].of = o
      BY <1>8 DEF OpenAre
    <3>2. Range(open'[o]) = Range(open[o]) \ {c} /\ OneEach(open'[o])
      <4>1. CASE o = of
        BY <1>9, <1>11, <4>1
      <4>2. CASE o # of
        BY <1>4, <1>8, <1>9, <3>1, <4>2
      <4>3. QED
        BY <4>1, <4>2
    <3>3. \A d \in Calls : d \in Range(open'[o]) <=> Tracks(d)' /\ span'[d].of = o
      BY <1>6, <1>7, <3>1, <3>2
    <3>4. QED
      BY <3>2, <3>3 DEF OpenAre
  <2>3. QED
    BY <2>1, <2>2 DEF OpenExact
<1>14. ASSUME NEW d \in Calls PROVE Settled(d)'
  <2>1. CASE d = c
    BY <1>6, <1>7, <2>1 DEF Settled
  <2>2. CASE d # c
    BY <1>1, <1>6, <1>7, <2>2 DEF SpanInv, Settled
  <2>3. QED
    BY <2>1, <2>2
<1>15. ASSUME NEW o \in Calls \ mixed' PROVE Enclosed(o)'
  <2>1. Enclosed(o)
    BY <1>5 DEF SpanInv
  <2>2. \A d \in Calls : span'[d].parent = span[d].parent
    BY <1>6
  <2>3. CASE o # of
    <3>1. active_span'[o] = active_span[o] /\ open'[o] = open[o]
      BY <1>3, <1>6, <1>9, <2>3 DEF SpanTypes
    <3>2. \A n \in DOMAIN open[o] : open[o][n] \in Calls
      BY <1>8
    <3>3. QED
      BY <2>1, <2>2, <3>1, <3>2 DEF Enclosed
  <2>4. CASE o = of
    <3> DEFINE l == open[of]
               r == Removed(l, c)
    <3>1. how # "cancelled" /\ Last(l) = c
      BY <1>5, <2>4
    <3>2. l # <<>> /\ l \in Seq(Calls) /\ OneEach(l)
      BY <1>8, <1>10 DEF Range
    <3>3. /\ Len(l) \in Nat \ {0} /\ DOMAIN l = 1..Len(l) /\ r \in Seq(Calls)
          /\ DOMAIN r = 1..(Len(l) - 1) /\ \A n \in 1..(Len(l) - 1) : r[n] = l[n]
      BY <3>1, <3>2, RemovedLast
    <3>4. \A n \in 1..Len(l) : /\ l[n] \in Calls
                               /\ span[l[n]].parent = IF n = 1 THEN None ELSE l[n - 1]
      <4>1. \A n \in DOMAIN l : span[l[n]].parent = IF n = 1 THEN None ELSE l[n - 1]
        BY <2>1, <2>4 DEF Enclosed
      <4>2. \A n \in 1..Len(l) : l[n] \in Calls
        BY <3>2
      <4> HIDE DEF l
      <4>3. QED
        BY <3>3, <4>1, <4>2
    <3>5. open'[of] = r /\ active_span'[of] = span[c].parent
      BY <1>3, <1>6, <1>9, <3>1 DEF SpanTypes
    <3> HIDE DEF l, r
    <3>6. c = l[Len(l)] /\ Len(l) \in 1..Len(l)
      BY <3>1, <3>3 DEF Last
    <3>7. active_span'[of] = IF r = <<>> THEN None ELSE Last(r)
      <4>1. active_span'[of] = IF Len(l) = 1 THEN None ELSE l[Len(l) - 1]
        BY <3>3, <3>4, <3>5, <3>6
      <4>2. Len(r) = Len(l) - 1
        <5>1. Len(l) - 1 \in Nat /\ r \in Seq(Calls) /\ DOMAIN r = 1..(Len(l) - 1)
          BY <3>3
        <5>2. QED
          BY <5>1, LenProperties
      <4>3. r = <<>> <=> Len(r) = 0
        BY <3>3, EmptySeq
      <4>4. Len(l) # 1 => Last(r) = l[Len(l) - 1]
        BY <3>3, <4>2 DEF Last
      <4>5. QED
        BY <3>3, <4>1, <4>2, <4>3, <4>4
    <3>8. ASSUME NEW n \in DOMAIN r
          PROVE  span'[r[n]].parent = IF n = 1 THEN None ELSE r[n - 1]
      <4>1. n \in 1..Len(l) /\ r[n] = l[n] /\ (n # 1 => r[n - 1] = l[n - 1])
        BY <3>3
      <4>2. QED
        BY <2>2, <3>4, <4>1
    <3>9. QED
      BY <2>4, <3>5, <3>7, <3>8 DEF Enclosed
  <2>5. QED
    BY <2>3, <2>4
<1>16. QED
  BY <1>12, <1>13, <1>14, <1>15 DEF SpanInv

\* Without the tracing interceptor a call leaves the spans alone, and no span is its own.
LEMMA UntracedSpans ==
    ASSUME SpanInv, NEW c \in Calls, UNCHANGED <<span, active_span, open, mixed>>,
           ~Tracks(c), ~Tracks(c)', "tracing" \notin path'[c],
           \A d \in Calls \ {c} : step'[d] = step[d] /\ path'[d] = path[d]
    PROVE  SpanInv'
<1>1. \A d \in Calls : Tracks(d)' <=> Tracks(d)
  BY DEF Tracks
<1>2. SpanTypes' /\ OpenExact' /\ \A of \in Calls \ mixed' : Enclosed(of)'
  BY <1>1 DEF SpanInv, SpanTypes, OpenExact, OpenAre, Enclosed
<1>3. \A d \in Calls : Settled(d)'
  BY DEF SpanInv, Settled
<1>4. QED
  BY <1>2, <1>3 DEF SpanInv

\* Every step keeps the spans and the lists of those that are open.
LEMMA SpansKept ==
    ChainOK /\ CallTypes /\ TraceTypes /\ SpanInv /\ [ChainNext]_chain_vars => SpanInv'
<1> SUFFICES ASSUME ChainOK, CallTypes, TraceTypes, SpanInv, [ChainNext]_chain_vars
             PROVE  SpanInv'
  OBVIOUS
<1>1. CASE UNCHANGED <<calls, span, active_span, open, mixed>>
  BY <1>1 DEF SpanInv, SpanTypes, OpenExact, OpenAre, Tracks, Settled, Enclosed, calls
<1>2. ASSUME NEW c \in Calls, NEW k \in Contexts, Enter(c, k) PROVE SpanInv'
  <2>1. CASE "tracing" \in Range(chain)
    BY <1>2, <2>1, EnterSpans
  <2>2. CASE "tracing" \notin Range(chain)
    <3>1. /\ step[c] = "unused" /\ step' = [step EXCEPT ![c] = "invoking"]
          /\ path' = [path EXCEPT ![c] = Range(chain)]
          /\ UNCHANGED <<span, active_span, open, mixed>>
      BY <1>2, <2>2 DEF Enter, Free, Takes, tracer
    <3>2. ~Tracks(c) /\ ~Tracks(c)' /\ "tracing" \notin path'[c]
      BY <2>2, <3>1 DEF CallTypes, Tracks
    <3>3. QED
      BY <3>1, <3>2, UntracedSpans DEF CallTypes
  <2>3. QED
    BY <2>1, <2>2
<1>3. ASSUME NEW c \in Calls, NEW how \in {"returned", "raised", "cancelled"}, Leave(c, how)
      PROVE  SpanInv'
  <2>1. CASE "tracing" \in path[c]
    BY <1>3, <2>1, TracedLeaves
  <2>2. CASE "tracing" \notin path[c]
    <3>1. PICK to : step' = [step EXCEPT ![c] = to]
      BY <1>3 DEF Leave
    <3>2. path' = path /\ UNCHANGED <<span, active_span, open, mixed>>
      BY <1>3, <2>2 DEF Leave, tracer
    <3>3. QED
      BY <2>2, <3>1, <3>2, UntracedSpans DEF CallTypes, Tracks
  <2>3. QED
    BY <2>1, <2>2
<1>4. QED
  BY <1>1, <1>2, <1>3, RejectedSpans
  DEF ChainNext, AddInterceptor, RemoveInterceptor, ClearTraces, ResetAll, Answers, tracer, chain_vars
-------------------------------------------------------------------------------
(* Interceptors: the theorems *)

ChainTypes ==
    /\ ChainOK /\ CallTypes /\ ContextTypes /\ TraceTypes
    /\ changes \in 0..MaxChanges

ChainInv == ChainTypes /\ MetricsInv /\ StampsInv /\ SpanInv

\* The edits stay within their bound.
LEMMA ChangesKept ==
    changes \in 0..MaxChanges /\ [ChainNext]_chain_vars => changes' \in 0..MaxChanges
<1> SUFFICES ASSUME changes \in 0..MaxChanges, [ChainNext]_chain_vars
             PROVE  changes' \in 0..MaxChanges
  OBVIOUS
<1>1. CASE Changes
  BY <1>1, InterceptorsAssumption DEF Changes
<1>2. CASE changes' = changes
  BY <1>2
<1>3. QED
  BY <1>1, <1>2
  DEF ChainNext, AddInterceptor, RemoveInterceptor, ClearTraces, ResetAll, Enter, Rejected,
      Answers, Leave, chain_vars

\* No call, no span, nothing counted.
LEMMA ChainInitEstablishes == ChainInit => ChainInv
<1> SUFFICES ASSUME ChainInit PROVE ChainInv
  OBVIOUS
<1>1. /\ step = [c \in Calls |-> "unused"] /\ context = [c \in Calls |-> None]
      /\ path = [c \in Calls |-> {}]
  BY DEF ChainInit
<1>2. CallTypes
  BY <1>1 DEF CallTypes, Steps
<1>3. ContextTypes
  BY DEF ChainInit, ContextTypes
<1>4. TraceTypes
  <2>1. traces = <<>> /\ DOMAIN traces = {}
    BY DEF ChainInit
  <2>2. QED
    BY <2>1 DEF ChainInit, TraceTypes
<1>5. MetricsInv
  <2>1. CounterTypes /\ \A m \in Methods : /\ active_calls[m] = 0 /\ calls_total[m] = 0
                                           /\ errors_total[m] = 0 /\ durations[m] = 0
    BY DEF ChainInit, Zeros, CounterTypes
  <2>2. \A m \in Methods : Cardinality(Inside("metrics", m)) = 0
    <3>1. \A m : Inside("metrics", m) = {}
      BY <1>1 DEF Inside
    <3>2. QED
      BY <3>1, FS_EmptySet
  <2>3. QED
    BY <2>1, <2>2 DEF MetricsInv, GaugesExact
<1>6. StampsInv
  <2>1. StampTypes /\ \A i \in Stamping : entries[i] = 0 /\ exits[i] = 0
    BY DEF ChainInit, StampTypes
  <2>2. \A i \in Stamping : Cardinality(Missing(i)) = 0
    <3>1. \A i : Missing(i) = {}
      BY <1>1 DEF Missing
    <3>2. QED
      BY <3>1, FS_EmptySet
  <2>3. QED
    BY <2>1, <2>2, StampsAre DEF StampsInv
<1>7. SpanInv
  <2>1. /\ span = [c \in Calls |-> NoSpan] /\ active_span = [c \in Calls |-> None]
        /\ open = [c \in Calls |-> <<>>] /\ mixed = {}
    BY DEF ChainInit
  <2>2. \A of \in Calls : open[of] = <<>> /\ open[of] \in Seq(Calls) /\ DOMAIN open[of] = {}
    BY <2>1, EmptySeq
  <2>3. SpanTypes
    <3>1. NoSpan \in Spans
      BY DEF NoSpan, Spans
    <3>2. QED
      BY <2>1, <2>2, <3>1 DEF SpanTypes
  <2>4. \A c \in Calls : ~Tracks(c) /\ Settled(c)
    BY <1>1 DEF Tracks, Settled
  <2>5. OpenExact
    BY <2>2, <2>4 DEF OpenExact, OpenAre, OneEach, Range
  <2>6. \A of \in Calls : Enclosed(of)
    BY <2>1, <2>2 DEF Enclosed
  <2>7. QED
    BY <2>3, <2>4, <2>5, <2>6 DEF SpanInv
<1>8. changes \in 0..MaxChanges
  BY InterceptorsAssumption DEF ChainInit
<1>9. QED
  BY <1>2, <1>3, <1>4, <1>5, <1>6, <1>7, <1>8, ChainInitOK DEF ChainInv, ChainTypes

\* The invariant of the chain, of what passes it and of what its interceptors record.
THEOREM ChainInductive == ChainSpec => []ChainInv
<1>1. ChainInv /\ [ChainNext]_chain_vars => ChainInv'
  BY ChainKept, CallsKept, ContextsKept, TracesKept, ChangesKept, MetricsKept, StampsKept, SpansKept
  DEF ChainInv, ChainTypes
<1>2. QED
  BY <1>1, ChainInitEstablishes, PTL DEF ChainSpec

\* Whatever is put in or taken out, the chain has each interceptor once, the lower
\* priorities first, and a context that holds an error has ended.
THEOREM ChainStaysSorted == ChainSpec => []ChainTypeOK
<1>1. ChainInv => ChainTypeOK
  BY DEF ChainInv, ChainTypes, ChainOK, CallTypes, ContextTypes, TraceTypes, MetricsInv,
         CounterTypes, StampsInv, StampTypes, SpanInv, SpanTypes, Spans, ChainTypeOK
<1>2. QED
  BY <1>1, ChainInductive, PTL

\* However calls overlap and end, and whatever is reset or taken out of the chain meanwhile,
\* the gauges count the calls under way and no stamp is missing but those that must be.
THEOREM MetersStayExact == ChainSpec => []MetersExact
<1>1. ChainInv => MetersExact
  BY DEF ChainInv, MetricsInv, StampsInv, MetersExact
<1>2. QED
  BY <1>1, ChainInductive, PTL

\* Every span settles as its call does, and in a trace whose calls end last-in-first-out
\* the parent of a span is the span of the call around it.
THEOREM TracesStayFaithful == ChainSpec => []TraceFaithful
<1>1. ChainInv => TraceFaithful
  BY SpanInvFaithful DEF ChainInv
<1>2. QED
  BY <1>1, ChainInductive, PTL

-------------------------------------------------------------------------------
(* Plugins *)

CacheInv ==
    /\ cache \in Seq(Keys) /\ configured \in Nat /\ max_size \in Nat /\ excess \in Nat
    /\ CacheBounded

\* What is set ends up in a cache that has grown only below its limit, or from nothing.
LEMMA SetBounded ==
    ASSUME CacheInv, NEW key \in Keys, Set(key)
    PROVE  CacheInv'
<1> DEFINE kept == IF Len(cache) >= max_size THEN Evicted(cache) ELSE cache
<1>1. cache' = Put(kept, key) /\ UNCHANGED limits
  BY DEF Set
<1>2. cache \in Seq(Keys) /\ Len(cache) \in Nat /\ max_size \in Nat /\ excess \in Nat
  BY DEF CacheInv
<1>3. /\ kept \in Seq(Keys) /\ Len(kept) \in Nat
      /\ Len(kept) + 1 <= max_size \/ Len(kept) + 1 <= Len(cache) \/ Len(kept) = 0
  <2>1. CASE ~(Len(cache) >= max_size)
    BY <1>2, <2>1
  <2>2. CASE Len(cache) >= max_size /\ cache = <<>>
    BY <1>2, <2>2, EmptySeq DEF Evicted
  <2>3. CASE Len(cache) >= max_size /\ cache # <<>>
    <3>1. kept = Tail(cache)
      BY <2>3 DEF Evicted
    <3>2. Tail(cache) \in Seq(Keys) /\ Len(Tail(cache)) = Len(cache) - 1 /\ Len(cache) # 0
      BY <1>2, <2>3, HeadTailProperties, EmptySeq
    <3> HIDE DEF kept
    <3>3. QED
      BY <1>2, <3>1, <3>2
  <2>4. QED
    BY <2>1, <2>2, <2>3
<1> HIDE DEF kept
<1>4. cache' \in Seq(Keys) /\ Len(cache') \in Nat /\ Len(cache') <= Len(kept) + 1
  <2>1. CASE key \in Range(kept)
    BY <1>1, <1>3, <2>1 DEF Put
  <2>2. CASE key \notin Range(kept)
    BY <1>1, <1>3, <2>2, AppendProperties DEF Put
  <2>3. QED
    BY <2>1, <2>2
<1>5. PICK bound \in {1, max_size, excess} : Len(cache) <= bound
  BY DEF CacheInv, CacheBounded
<1>6. \E b \in {1, max_size, excess} : Len(cache') <= b
  BY <1>2, <1>3, <1>4, <1>5
<1>7. QED
  BY <1>1, <1>4, <1>6 DEF CacheInv, CacheBounded, limits

\* initialize() sets a limit and notes what is there, terminate() empties the cache.
LEMMA DoesBounded ==
    ASSUME CacheInv, NEW op, NEW p, Does(op, p)
    PROVE  CacheInv'
<1>1. cache \in Seq(Keys) /\ Len(cache) \in Nat
  BY DEF CacheInv
<1>2. CASE p = Cache /\ op = "initialize"
  <2>1. cache' = cache /\ excess' = Len(cache) /\ max_size' = configured /\ configured' = configured
    BY <1>2 DEF Does
  <2>2. Len(cache') <= excess'
    BY <1>1, <2>1
  <2>3. QED
    BY <1>1, <2>1, <2>2 DEF CacheInv, CacheBounded
<1>3. CASE p = Cache /\ op = "terminate"
  <2>1. cache' = <<>> /\ excess' = Len(cache') /\ max_size' = max_size /\ configured' = configured
    BY <1>3 DEF Does
  <2>2. Len(cache') = 0 /\ cache' \in Seq(Keys)
    BY <2>1, EmptySeq
  <2>3. QED
    BY <2>1, <2>2 DEF CacheInv, CacheBounded
<1>4. CASE ~(p = Cache /\ op \in {"initialize", "terminate"})
  BY <1>4 DEF Does, CacheInv, CacheBounded
<1>5. QED
  BY <1>2, <1>3, <1>4

\* Every step keeps the cache within its bound.
LEMMA CacheKept == CacheInv /\ [PluginNext]_plugin_vars => CacheInv'
<1> SUFFICES ASSUME CacheInv, [PluginNext]_plugin_vars PROVE CacheInv'
  OBVIOUS
<1>1. ASSUME NEW op \in Ops, NEW p \in Plugins, Direct(op, p) PROVE CacheInv'
  BY <1>1, DoesBounded DEF Direct
<1>2. ASSUME NEW size \in MaxSizes, Configure(size) PROVE CacheInv'
  BY <1>2, PluginsAssumption DEF Configure, CacheInv, CacheBounded
<1>3. ASSUME NEW key \in Keys, Set(key) PROVE CacheInv'
  BY <1>3, SetBounded
<1>4. CASE Clear
  <2>1. cache' = <<>> /\ excess' = 0 /\ UNCHANGED <<configured, max_size>>
    BY <1>4 DEF Clear
  <2>2. Len(cache') <= 1 /\ cache' \in Seq(Keys)
    BY <2>1, EmptySeq
  <2>3. QED
    BY <2>1, <2>2 DEF CacheInv, CacheBounded, limits
<1>5. CASE UNCHANGED <<cache, limits>>
  BY <1>5 DEF CacheInv, CacheBounded, limits
<1>6. ASSUME NEW p \in Plugins, Unregister(p) PROVE CacheInv'
  BY <1>5, <1>6, DoesBounded DEF Unregister
<1>7. ASSUME NEW p \in Plugins, CallsNext(p) PROVE CacheInv'
  BY <1>5, <1>7, DoesBounded DEF CallsNext
<1>8. QED
  BY <1>1, <1>2, <1>3, <1>4, <1>5, <1>6, <1>7
  DEF PluginNext, Register, CallAll, AllRaises, AllReturns, plugin_vars, limits

\* What a loop of the manager is, in the types of its parts.
Loop == [op : Ops, at : Nat, left : Int, size : Nat, running : BOOLEAN, moved : BOOLEAN,
         readied : SUBSET Plugins]

PluginStates == {"REGISTERED", "INITIALIZED", "STARTED", "STOPPED", "TERMINATED"}

PluginTypes ==
    /\ plugin_state \in [Plugins -> PluginStates]
    /\ slot \in [Plugins -> Nat] /\ filled \in Nat
    /\ loops \in Seq(Loop)

\* The slots of registered plugins are among those that were taken, and no two are the same.
SlotsOK(sl, f) ==
    /\ \A p \in Plugins : sl[p] <= f
    /\ \A p, q \in Plugins : sl[p] = sl[q] /\ sl[p] # 0 => p = q

\* What a loop for op looks for.
Sought(op, s) == IF op = "terminate" THEN s # "TERMINATED" ELSE s = From[op]

\* Unless entries moved under it, a loop has dealt with every plugin registered up to its slot,
\* but for those that were brought back since; and only start_all and stop_all have such.
LoopOK(l, st, sl, f) ==
    /\ l.readied # {} => l.op \in {"start", "stop"}
    /\ ~l.moved =>
        /\ l.at <= f
        /\ \A p \in Plugins : sl[p] # 0 /\ sl[p] <= l.at /\ Sought(l.op, st[p]) => p \in l.readied

LoopsOK == \A n \in 1..Len(loops) : LoopOK(loops[n], plugin_state, slot, filled)

PluginInv == PluginTypes /\ SlotsOK(slot, filled) /\ LoopsOK

\* A call of a plugin: it changes what one plugin is ready for, which every loop that may have
\* passed the plugin notes.
LEMMA ReadiedIs ==
    ASSUME NEW st \in [Plugins -> PluginStates], NEW sl \in [Plugins -> Nat], NEW f \in Nat,
           NEW l \in Loop, NEW op \in Ops, NEW p \in Plugins, LoopOK(l, st, sl, f),
           op = "terminate" \/ Sought(op, st[p])
    PROVE  /\ Readied(l, op, p) \in Loop
           /\ LoopOK(Readied(l, op, p), [st EXCEPT ![p] = Target[op]], sl, f)
<1> DEFINE m == Readied(l, op, p)
           st2 == [st EXCEPT ![p] = Target[op]]
<1>1. /\ l.op \in Ops /\ l.at \in Nat /\ l.readied \subseteq Plugins
      /\ Target[op] \in PluginStates /\ st[p] \in PluginStates
  BY DEF Loop, Ops, Target, PluginStates
<1>2. /\ m \in Loop /\ m.op = l.op /\ m.at = l.at /\ m.moved = l.moved
      /\ m.readied = IF l.op # "terminate" /\ From[l.op] = Target[op]
                     THEN l.readied \union {p} ELSE l.readied
  BY <1>1 DEF Readied, Loop
<1>3. m.readied # {} => m.op \in {"start", "stop"}
  <2>1. l.op # "terminate" /\ From[l.op] = Target[op] => l.op \in {"start", "stop"}
    BY <1>1 DEF Ops, From, Target
  <2>2. QED
    BY <1>2, <2>1 DEF LoopOK
<1>4. ASSUME ~l.moved, NEW q \in Plugins, sl[q] # 0, sl[q] <= l.at, Sought(l.op, st2[q])
      PROVE  q \in m.readied
  <2>1. Sought(l.op, st[q]) => q \in l.readied
    BY <1>4 DEF LoopOK
  <2>2. CASE q # p
    BY <1>2, <1>4, <2>1, <2>2
  <2>3. CASE q = p
    <3>1. Sought(l.op, Target[op])
      BY <1>4, <2>3
    <3>2. CASE l.op = "terminate"
      <4>1. Target[op] # "TERMINATED" /\ op # "terminate"
        BY <3>1, <3>2 DEF Sought, Target
      <4>2. st[p] # "TERMINATED"
        BY <4>1 DEF Sought, From, Ops
      <4>3. QED
        BY <1>2, <2>1, <2>3, <3>2, <4>2 DEF Sought
    <3>3. CASE l.op # "terminate"
      BY <1>2, <2>3, <3>1, <3>3 DEF Sought
    <3>4. QED
      BY <3>2, <3>3
  <2>4. QED
    BY <2>2, <2>3
<1>5. ~l.moved => l.at <= f
  BY DEF LoopOK
<1> HIDE DEF m, st2
<1>6. m \in Loop /\ LoopOK(m, st2, sl, f)
  BY <1>2, <1>3, <1>4, <1>5 DEF LoopOK
<1>7. QED
  BY <1>6 DEF m, st2

\* A loop comes to the next plugin, p, and p is no more in the state it looks for, whether it
\* called it or not.
LEMMA PastIs ==
    ASSUME NEW st \in [Plugins -> PluginStates], NEW sl \in [Plugins -> Nat], NEW f \in Nat,
           NEW l \in Loop, NEW p \in Plugins, NEW b \in BOOLEAN,
           LoopOK(l, st, sl, f), SlotsOK(sl, f),
           sl[p] > l.at, \A q \in Plugins : sl[q] > l.at => sl[p] <= sl[q],
           NEW st2, \/ st2 = [st EXCEPT ![p] = Target[l.op]]
                    \/ st2 = st /\ ~Sought(l.op, st[p]),
           NEW m,
           m = [l EXCEPT !.at = sl[p], !.left = @ - 1, !.running = b, !.readied = @ \ {p}]
    PROVE  m \in Loop /\ LoopOK(m, st2, sl, f)
<1>1. /\ l.op \in Ops /\ l.at \in Nat /\ l.readied \subseteq Plugins /\ sl[p] \in Nat
      /\ l.left - 1 \in Int
  BY DEF Loop
<1>2. /\ m \in Loop /\ m.op = l.op /\ m.at = sl[p] /\ m.moved = l.moved
      /\ m.readied = l.readied \ {p}
  BY <1>1 DEF Loop
<1>3. ~Sought(l.op, st2[p]) /\ \A q \in Plugins : q # p => st2[q] = st[q]
  <2>1. CASE st2 = [st EXCEPT ![p] = Target[l.op]]
    BY <1>1, <2>1 DEF Sought, From, Target, Ops
  <2>2. CASE st2 = st /\ ~Sought(l.op, st[p])
    BY <2>2
  <2>3. QED
    BY <2>1, <2>2
<1>4. ASSUME ~l.moved, NEW q \in Plugins, sl[q] # 0, sl[q] <= sl[p], Sought(l.op, st2[q])
      PROVE  q \in l.readied \ {p}
  <2>1. q # p
    BY <1>3, <1>4
  <2>2. sl[q] # sl[p]
    BY <1>4, <2>1 DEF SlotsOK
  <2>3. sl[q] \in Nat /\ ~(sl[q] > l.at)
    BY <1>1, <1>4, <2>2
  <2>4. sl[q] <= l.at
    BY <1>1, <2>3
  <2>5. QED
    BY <1>3, <1>4, <2>1, <2>4 DEF LoopOK
<1>5. sl[p] <= f
  BY DEF SlotsOK
<1>6. l.readied \ {p} # {} => l.op \in {"start", "stop"}
  BY DEF LoopOK
<1>7. QED
  BY <1>2, <1>4, <1>5, <1>6 DEF LoopOK

\* A plugin takes the next slot, or leaves its own: a loop is past no plugin it was not past.
LEMMA SlotTaken ==
    ASSUME NEW st \in [Plugins -> PluginStates], NEW sl \in [Plugins -> Nat], NEW f \in Nat,
           NEW p \in Plugins, SlotsOK(sl, f)
    PROVE  /\ SlotsOK([sl EXCEPT ![p] = f + 1], f + 1)
           /\ \A l \in Loop : LoopOK(l, st, sl, f) => LoopOK(l, st, [sl EXCEPT ![p] = f + 1], f + 1)
<1> DEFINE sl2 == [sl EXCEPT ![p] = f + 1]
<1>1. sl2[p] = f + 1 /\ \A q \in Plugins : sl[q] \in Nat /\ sl[q] <= f /\ (q # p => sl2[q] = sl[q])
  BY DEF SlotsOK
<1> HIDE DEF sl2
<1>2. \A q \in Plugins : sl2[q] <= f + 1
  BY <1>1
<1>3. ASSUME NEW q \in Plugins, NEW r \in Plugins, sl2[q] = sl2[r], sl2[q] # 0 PROVE q = r
  <2>1. \A s \in Plugins : s # p => sl2[s] # f + 1
    BY <1>1
  <2>2. CASE q = p \/ r = p
    BY <1>1, <1>3, <2>1, <2>2
  <2>3. CASE q # p /\ r # p
    BY <1>1, <1>3, <2>3 DEF SlotsOK
  <2>4. QED
    BY <2>2, <2>3
<1>4. ASSUME NEW l \in Loop, LoopOK(l, st, sl, f) PROVE LoopOK(l, st, sl2, f + 1)
  <2>1. l.at \in Nat /\ (l.readied # {} => l.op \in {"start", "stop"})
    BY <1>4 DEF Loop, LoopOK
  <2>2. CASE l.moved
    BY <2>1, <2>2 DEF LoopOK
  <2>3. CASE ~l.moved
    <3>1. l.at <= f
      BY <1>4, <2>3 DEF LoopOK
    <3>2. ASSUME NEW q \in Plugins, sl2[q] # 0, sl2[q] <= l.at, Sought(l.op, st[q])
          PROVE  q \in l.readied
      <4>1. q # p
        BY <1>1, <2>1, <3>1, <3>2
      <4>2. QED
        BY <1>1, <1>4, <2>3, <3>2, <4>1 DEF LoopOK
    <3>3. QED
      BY <2>1, <3>1, <3>2 DEF LoopOK
  <2>4. QED
    BY <2>2, <2>3
<1>5. QED
  BY <1>2, <1>3, <1>4 DEF sl2, SlotsOK

LEMMA SlotLeft ==
    ASSUME NEW st \in [Plugins -> PluginStates], NEW sl \in [Plugins -> Nat], NEW f \in Nat,
           NEW p \in Plugins, SlotsOK(sl, f)
    PROVE  /\ SlotsOK([sl EXCEPT ![p] = 0], f)
           /\ \A l \in Loop : LoopOK(l, st, sl, f) => LoopOK(l, st, [sl EXCEPT ![p] = 0], f)
<1> DEFINE sl2 == [sl EXCEPT ![p] = 0]
<1>1. sl2[p] = 0 /\ \A q \in Plugins : q # p => sl2[q] = sl[q]
  OBVIOUS
<1> HIDE DEF sl2
<1>2. SlotsOK(sl2, f)
  BY <1>1 DEF SlotsOK
<1>3. ASSUME NEW l \in Loop, LoopOK(l, st, sl, f) PROVE LoopOK(l, st, sl2, f)
  BY <1>1, <1>3 DEF LoopOK
<1>4. QED
  BY <1>2, <1>3 DEF sl2

\* Moved together, the entries are in the same order: every slot is another plugin's still.
LEMMA RanksAreSlots ==
    ASSUME PluginInv
    PROVE  /\ Cardinality(Registered) \in Nat
           /\ [q \in Plugins |-> Rank(q)] \in [Plugins -> Nat]
           /\ SlotsOK([q \in Plugins |-> Rank(q)], Cardinality(Registered))
<1> DEFINE upto(p) == {q \in Registered : slot[q] <= slot[p]}
<1>1. IsFiniteSet(Registered) /\ Cardinality(Registered) \in Nat /\ Registered \subseteq Plugins
  BY PluginsAssumption, FS_Subset, FS_CardinalityType DEF Registered
<1>2. ASSUME NEW p \in Plugins
      PROVE  /\ IsFiniteSet(upto(p)) /\ Cardinality(upto(p)) \in Nat
             /\ Cardinality(upto(p)) <= Cardinality(Registered)
  <2>1. upto(p) \subseteq Registered
    OBVIOUS
  <2>2. QED
    BY <1>1, <2>1, FS_Subset, FS_CardinalityType
<1>3. ASSUME NEW p \in Plugins, NEW q \in Plugins, p \in Registered, q \in Registered,
             Cardinality(upto(p)) = Cardinality(upto(q))
      PROVE  p = q
  <2>1. slot[p] \in Nat /\ slot[q] \in Nat /\ slot \in [Plugins -> Nat]
    BY DEF PluginInv, PluginTypes
  <2>2. upto(p) \subseteq upto(q) \/ upto(q) \subseteq upto(p)
    <3>1. CASE slot[p] <= slot[q]
      <4>1. \A r \in Registered : slot[r] \in Nat
        BY <1>1, <2>1
      <4>2. QED
        BY <2>1, <3>1, <4>1
    <3>2. CASE slot[q] <= slot[p]
      <4>1. \A r \in Registered : slot[r] \in Nat
        BY <1>1, <2>1
      <4>2. QED
        BY <2>1, <3>2, <4>1
    <3>3. QED
      BY <2>1, <3>1, <3>2
  <2>3. upto(p) = upto(q)
    <3> HIDE DEF upto
    <3>1. QED
      BY <1>2, <1>3, <2>2, FS_Subset
  <2>4. p \in upto(p) /\ q \in upto(q)
    BY <1>3, <2>1
  <2>5. slot[p] <= slot[q] /\ slot[q] <= slot[p]
    BY <2>3, <2>4
  <2>6. slot[p] = slot[q] /\ slot[p] # 0
    BY <1>3, <2>1, <2>5 DEF Registered
  <2>7. QED
    BY <2>6 DEF PluginInv, SlotsOK
<1>4. \A p \in Plugins : Rank(p) = IF p \in Registered THEN Cardinality(upto(p)) ELSE 0
  BY DEF Rank
<1> HIDE DEF upto
<1>5. \A p \in Plugins : Rank(p) \in Nat /\ Rank(p) <= Cardinality(Registered)
  BY <1>1, <1>2, <1>4
<1>6. ASSUME NEW p \in Plugins, NEW q \in Plugins, Rank(p) = Rank(q), Rank(p) # 0 PROVE p = q
  BY <1>3, <1>4, <1>6
<1>7. QED
  BY <1>1, <1>5, <1>6 DEF SlotsOK

\* What a plugin's own operation does to its state.
LEMMA DoesIs ==
    ASSUME PluginTypes, NEW op \in Ops, NEW p \in Plugins, Does(op, p)
    PROVE  /\ plugin_state' = [plugin_state EXCEPT ![p] = Target[op]]
           /\ plugin_state' \in [Plugins -> PluginStates]
  BY DEF PluginTypes, Does, Ops, Target, PluginStates

LEMMA AppliesIsSought == \A op, p : Applies(op, p) <=> Sought(op, plugin_state[p])
  BY DEF Applies, Sought

\* Every step keeps what the loops over all plugins have dealt with.
LEMMA LoopKept == PluginInv /\ [PluginNext]_plugin_vars => PluginInv'
<1> SUFFICES ASSUME PluginInv, [PluginNext]_plugin_vars PROVE PluginInv'
  OBVIOUS
<1>1. /\ plugin_state \in [Plugins -> PluginStates] /\ slot \in [Plugins -> Nat] /\ filled \in Nat
      /\ loops \in Seq(Loop) /\ SlotsOK(slot, filled) /\ Len(loops) \in Nat
      /\ \A n \in 1..Len(loops) : loops[n] \in Loop /\ LoopOK(loops[n], plugin_state, slot, filled)
  BY DEF PluginInv, PluginTypes, LoopsOK
<1>2. CASE UNCHANGED <<plugin_state, dictionary, loops>>
  BY <1>2 DEF PluginInv, PluginTypes, LoopsOK, dictionary
<1>3. ASSUME NEW op \in Ops, NEW p \in Plugins, Direct(op, p) PROVE PluginInv'
  <2>1. /\ op = "terminate" \/ Sought(op, plugin_state[p])
        /\ loops' = [n \in DOMAIN loops |-> Readied(loops[n], op, p)]
        /\ slot' = slot /\ filled' = filled
        /\ plugin_state' = [plugin_state EXCEPT ![p] = Target[op]]
        /\ plugin_state' \in [Plugins -> PluginStates]
    BY <1>3, AppliesIsSought, DoesIs DEF Direct, PluginInv, dictionary
  <2>2. \A n \in 1..Len(loops) :
            /\ Readied(loops[n], op, p) \in Loop
            /\ LoopOK(Readied(loops[n], op, p), plugin_state', slot, filled)
    BY <1>1, <2>1, ReadiedIs
  <2>3. DOMAIN loops = 1..Len(loops)
    BY <1>1
  <2>4. /\ loops' \in Seq(Loop) /\ Len(loops') = Len(loops)
        /\ \A n \in 1..Len(loops) : loops'[n] = Readied(loops[n], op, p)
    BY <1>1, <2>1, <2>2, <2>3
  <2>5. QED
    BY <1>1, <2>1, <2>2, <2>4 DEF PluginInv, PluginTypes, LoopsOK
<1>4. ASSUME NEW p \in Plugins, Register(p) PROVE PluginInv'
  <2>1. plugin_state' = plugin_state
    BY <1>4 DEF Register
  <2>2. CASE /\ slot' = [slot EXCEPT ![p] = filled + 1]
             /\ filled' = filled + 1 /\ loops' = loops
    <3>1. SlotsOK(slot', filled')
      BY <1>1, <2>2, SlotTaken
    <3>2. \A n \in 1..Len(loops) : LoopOK(loops[n], plugin_state, slot', filled')
      BY <1>1, <2>2, SlotTaken
    <3>3. slot' \in [Plugins -> Nat] /\ filled' \in Nat
      BY <1>1, <2>2
    <3>4. QED
      BY <1>1, <2>1, <2>2, <3>1, <3>2, <3>3 DEF PluginInv, PluginTypes, LoopsOK
  <2>3. CASE /\ filled' = Cardinality(Registered) + 1
             /\ slot' = [[q \in Plugins |-> Rank(q)] EXCEPT ![p] = filled']
             /\ loops' = [n \in DOMAIN loops |-> [loops[n] EXCEPT !.moved = TRUE]]
    <3>1. SlotsOK(slot', filled') /\ slot' \in [Plugins -> Nat] /\ filled' \in Nat
      <4> DEFINE ranks == [q \in Plugins |-> Rank(q)]
      <4>1. /\ ranks \in [Plugins -> Nat] /\ SlotsOK(ranks, Cardinality(Registered))
            /\ Cardinality(Registered) \in Nat
        BY RanksAreSlots
      <4>2. slot' = [ranks EXCEPT ![p] = Cardinality(Registered) + 1]
        BY <2>3
      <4> HIDE DEF ranks
      <4>3. SlotsOK([ranks EXCEPT ![p] = Cardinality(Registered) + 1], Cardinality(Registered) + 1)
        BY <1>1, <4>1, SlotTaken
      <4>4. [ranks EXCEPT ![p] = Cardinality(Registered) + 1] \in [Plugins -> Nat]
        BY <4>1
      <4>5. filled' = Cardinality(Registered) + 1 /\ filled' \in Nat
        BY <2>3, <4>1
      <4>6. QED
        BY <4>2, <4>3, <4>4, <4>5
    <3>2. DOMAIN loops = 1..Len(loops)
      BY <1>1
    <3>3. ASSUME NEW n \in 1..Len(loops)
          PROVE  /\ [loops[n] EXCEPT !.moved = TRUE] \in Loop
                 /\ LoopOK([loops[n] EXCEPT !.moved = TRUE], plugin_state, slot', filled')
      <4>1. loops[n] \in Loop /\ LoopOK(loops[n], plugin_state, slot, filled)
        BY <1>1
      <4>2. QED
        BY <4>1 DEF Loop, LoopOK
    <3> DEFINE Shifted(l) == [l EXCEPT !.moved = TRUE]
    <3>4. loops' = [n \in DOMAIN loops |-> Shifted(loops[n])]
      BY <2>3
    <3>5. \A n \in 1..Len(loops) :
              Shifted(loops[n]) \in Loop /\ LoopOK(Shifted(loops[n]), plugin_state, slot', filled')
      BY <3>3
    <3> HIDE DEF Shifted
    <3>6. /\ loops' \in Seq(Loop) /\ Len(loops') = Len(loops)
          /\ \A n \in 1..Len(loops) : loops'[n] = Shifted(loops[n])
      BY <1>1, <3>2, <3>4, <3>5
    <3>7. QED
      BY <1>1, <2>1, <3>1, <3>5, <3>6 DEF PluginInv, PluginTypes, LoopsOK
  <2>4. QED
    BY <1>4, <2>2, <2>3 DEF Register
<1>5. ASSUME NEW p \in Plugins, Unregister(p) PROVE PluginInv'
  <2>1. /\ slot' = [slot EXCEPT ![p] = 0] /\ filled' = filled /\ loops' = loops
        /\ Does("terminate", p) \/ plugin_state' = plugin_state
    BY <1>5 DEF Unregister
  <2>2. SlotsOK(slot', filled) /\ slot' \in [Plugins -> Nat]
    BY <1>1, <2>1, SlotLeft
  <2>3. /\ plugin_state' \in [Plugins -> PluginStates]
        /\ \A n \in 1..Len(loops) : LoopOK(loops[n], plugin_state', slot, filled)
    <3>1. CASE plugin_state' = plugin_state
      BY <1>1, <3>1
    <3>2. CASE Does("terminate", p)
      <4>1. /\ plugin_state' = [plugin_state EXCEPT ![p] = Target["terminate"]]
            /\ plugin_state' \in [Plugins -> PluginStates] /\ "terminate" \in Ops
        BY <3>2, DoesIs DEF PluginInv, Ops
      <4>2. \A n \in 1..Len(loops) :
                LoopOK(Readied(loops[n], "terminate", p), plugin_state', slot, filled)
        BY <1>1, <4>1, ReadiedIs
      <4>3. \A n \in 1..Len(loops) : Readied(loops[n], "terminate", p) = loops[n]
        BY <1>1 DEF Readied, Loop, From, Target, Ops
      <4>4. QED
        BY <4>1, <4>2, <4>3
    <3>3. QED
      BY <2>1, <3>1, <3>2
  <2>4. \A n \in 1..Len(loops) : LoopOK(loops[n], plugin_state', slot', filled)
    BY <1>1, <2>1, <2>3, SlotLeft
  <2>5. QED
    BY <1>1, <2>1, <2>2, <2>3, <2>4 DEF PluginInv, PluginTypes, LoopsOK
<1>6. ASSUME NEW op \in Ops, CallAll(op) PROVE PluginInv'
  <2> DEFINE new == [op |-> op, at |-> 0, left |-> Cardinality(Registered),
                     size |-> Cardinality(Registered), running |-> FALSE, moved |-> FALSE,
                     readied |-> {}]
  <2>1. loops' = Append(loops, new) /\ UNCHANGED <<plugin_state, slot, filled>>
    BY <1>6 DEF CallAll, dictionary
  <2>2. new \in Loop
    BY RanksAreSlots DEF Loop
  <2>3. LoopOK(new, plugin_state, slot, filled)
    BY <1>1 DEF LoopOK
  <2> HIDE DEF new
  <2>4. /\ loops' \in Seq(Loop) /\ Len(loops') = Len(loops) + 1 /\ loops'[Len(loops) + 1] = new
        /\ \A n \in 1..Len(loops) : loops'[n] = loops[n]
    BY <1>1, <2>1, <2>2
  <2>5. \A n \in 1..Len(loops') : n \in 1..Len(loops) \/ n = Len(loops) + 1
    BY <1>1, <2>4
  <2>6. QED
    BY <1>1, <2>1, <2>3, <2>4, <2>5 DEF PluginInv, PluginTypes, LoopsOK
<1>7. ASSUME NEW p \in Plugins, CallsNext(p) PROVE PluginInv'
  <2> DEFINE k == Len(loops)
             l == loops[k]
  <2>1. k \in 1..Len(loops) /\ Innermost = l /\ DOMAIN loops = 1..Len(loops)
    BY <1>1, <1>7, EmptySeq DEF CallsNext, Innermost, Last
  <2>2. /\ p \in Registered /\ slot[p] > l.at
        /\ \A q \in Registered : slot[q] > l.at => slot[p] <= slot[q]
        /\ slot' = slot /\ filled' = filled
    BY <1>7, <2>1 DEF CallsNext, Ahead, dictionary
  <2>3. /\ l \in Loop /\ l.op \in Ops /\ l.at \in Nat
        /\ LoopOK(l, plugin_state, slot, filled)
    BY <1>1, <2>1 DEF Loop
  <2>4. \A q \in Plugins : slot[q] > l.at => slot[p] <= slot[q]
    BY <1>1, <2>2, <2>3 DEF Registered
  <2>5. PICK b \in BOOLEAN : Past(l, p) =
            [l EXCEPT !.at = slot[p], !.left = @ - 1, !.running = b, !.readied = @ \ {p}]
    <3>1. Applies(l.op, p) \in BOOLEAN
      BY DEF Applies
    <3>2. QED
      BY <3>1 DEF Past
  <2>6. CASE /\ Applies(l.op, p) /\ Does(l.op, p)
             /\ loops' = [n \in DOMAIN loops |->
                            IF n = k THEN Past(loops[n], p) ELSE Readied(loops[n], l.op, p)]
    <3>1. /\ plugin_state' = [plugin_state EXCEPT ![p] = Target[l.op]]
          /\ plugin_state' \in [Plugins -> PluginStates] /\ Sought(l.op, plugin_state[p])
      BY <2>3, <2>6, DoesIs, AppliesIsSought DEF PluginInv
    <3>2. \A n \in 1..Len(loops) :
              /\ Readied(loops[n], l.op, p) \in Loop
              /\ LoopOK(Readied(loops[n], l.op, p), plugin_state', slot, filled)
      <4> HIDE DEF k, l
      <4>1. QED
        BY <1>1, <2>3, <3>1, ReadiedIs
    <3>3. Past(l, p) \in Loop /\ LoopOK(Past(l, p), plugin_state', slot, filled)
      <4> HIDE DEF k, l
      <4>1. \/ plugin_state' = [plugin_state EXCEPT ![p] = Target[l.op]]
            \/ plugin_state' = plugin_state /\ ~Sought(l.op, plugin_state[p])
        BY <3>1
      <4>2. p \in Plugins /\ slot[p] > l.at
        BY <2>2
      <4>3. QED
        BY <1>1, <2>3, <2>4, <2>5, <4>1, <4>2, PastIs
    <3>4. \A n \in 1..Len(loops) : loops'[n] =
              IF n = k THEN Past(l, p) ELSE Readied(loops[n], l.op, p)
      BY <2>1, <2>6
    <3>5. loops' \in Seq(Loop) /\ Len(loops') = Len(loops)
      <4>1. loops' \in [1..Len(loops) -> Loop]
        BY <2>1, <2>6, <3>2, <3>3
      <4>2. QED
        BY <1>1, <4>1
    <3> HIDE DEF k, l
    <3>6. LoopsOK'
      BY <2>2, <3>2, <3>3, <3>4, <3>5 DEF LoopsOK
    <3>7. QED
      BY <1>1, <2>2, <3>1, <3>5, <3>6 DEF PluginInv, PluginTypes
  <2>7. CASE /\ ~Applies(l.op, p) /\ loops' = [loops EXCEPT ![k] = Past(@, p)]
             /\ plugin_state' = plugin_state
    <3>1. ~Sought(l.op, plugin_state[p])
      BY <2>7, AppliesIsSought
    <3>2. Past(l, p) \in Loop /\ LoopOK(Past(l, p), plugin_state, slot, filled)
      <4> HIDE DEF k, l
      <4>1. QED
        BY <1>1, <2>2, <2>3, <2>4, <2>5, <3>1, PastIs
    <3>3. /\ loops' \in Seq(Loop) /\ Len(loops') = Len(loops)
          /\ \A n \in 1..Len(loops) : loops'[n] = IF n = k THEN Past(l, p) ELSE loops[n]
      BY <1>1, <2>1, <2>7, <3>2
    <3> HIDE DEF k, l
    <3>4. LoopsOK'
      BY <1>1, <2>2, <2>7, <3>2, <3>3 DEF LoopsOK
    <3>5. QED
      BY <1>1, <2>2, <2>7, <3>3, <3>4 DEF PluginInv, PluginTypes
  <2>8. QED
    BY <1>7, <2>1, <2>6, <2>7 DEF CallsNext
<1>8. CASE AllRaises \/ AllReturns
  <2>1. /\ loops # <<>> /\ loops' = Front(loops)
        /\ UNCHANGED <<plugin_state, slot, filled>>
    BY <1>8 DEF AllRaises, AllReturns, dictionary
  <2>2. /\ loops' \in Seq(Loop) /\ Len(loops') = Len(loops) - 1
        /\ \A n \in 1..(Len(loops) - 1) : loops'[n] = loops[n]
    <3> DEFINE n == Len(loops) - 1
    <3>1. n \in 0..Len(loops)
      BY <1>1, <2>1, EmptySeq
    <3>2. loops' = SubSeq(loops, 1, n)
      BY <2>1 DEF Front
    <3> HIDE DEF n
    <3>3. /\ loops' \in Seq(Loop) /\ Len(loops') = n
          /\ \A k \in 1..n : loops'[k] = loops[k]
      BY <1>1, <3>1, <3>2
    <3>4. QED
      BY <3>3 DEF n
  <2>3. QED
    BY <1>1, <2>1, <2>2 DEF PluginInv, PluginTypes, LoopsOK
<1>9. QED
  BY <1>2, <1>3, <1>4, <1>5, <1>6, <1>7, <1>8
  DEF PluginNext, Configure, Set, Clear, plugin_vars

\* No plugin is registered and the cache is empty.
LEMMA PluginInitEstablishes == PluginInit => CacheInv /\ PluginInv
<1> SUFFICES ASSUME PluginInit PROVE CacheInv /\ PluginInv
  OBVIOUS
<1>1. cache = <<>> /\ configured = DefaultSize /\ max_size = DefaultSize /\ excess = 0
  BY DEF PluginInit
<1>2. CacheInv
  <2>1. Len(cache) <= 1 /\ cache \in Seq(Keys)
    BY <1>1, EmptySeq
  <2>2. QED
    BY <1>1, <2>1, PluginsAssumption DEF CacheInv, CacheBounded
<1>3. /\ loops = <<>> /\ plugin_state = [p \in Plugins |-> "REGISTERED"]
      /\ slot = [p \in Plugins |-> 0] /\ filled = 0
  BY DEF PluginInit
<1>4. PluginTypes
  BY <1>3, EmptySeq DEF PluginTypes, PluginStates
<1>5. SlotsOK(slot, filled) /\ LoopsOK
  BY <1>3, EmptySeq DEF SlotsOK, LoopsOK
<1>6. QED
  BY <1>2, <1>4, <1>5 DEF PluginInv

\* The cache keeps to its limit, to what it held when the limit was set, or to one entry.
THEOREM CacheIsBounded == PluginSpec => []CacheBounded
<1>1. PluginInit => CacheInv
  BY PluginInitEstablishes
<1>2. CacheInv /\ [PluginNext]_plugin_vars => CacheInv'
  BY CacheKept
<1>3. CacheInv => CacheBounded
  BY DEF CacheInv
<1>4. QED
  BY <1>1, <1>2, <1>3, PTL DEF PluginSpec

\* What a loop over all plugins leaves behind when it returns was brought to the state it looks
\* for after the loop had passed it, which initialize_all and terminate_all exclude, or escaped
\* it because the dictionary's entries moved.
THEOREM AllAreReached == PluginSpec => AllReached
<1> DEFINE Left(p) ==
        \/ Innermost.moved
        \/ Innermost.op \in {"start", "stop"} /\ p \in Innermost.readied
<1>1. PluginInit => PluginInv
  BY PluginInitEstablishes
<1>2. PluginInv /\ [PluginNext]_plugin_vars => PluginInv'
  BY LoopKept
<1>3. ASSUME PluginInv, AllReturns, NEW p \in Registered, Applies(Innermost.op, p)
      PROVE  Left(p)
  <2>1. /\ Ahead = {} /\ loops # <<>> /\ loops \in Seq(Loop) /\ slot \in [Plugins -> Nat]
        /\ p \in Plugins /\ slot[p] # 0
    BY <1>3 DEF AllReturns, PluginInv, PluginTypes, Registered
  <2>2. Innermost \in Loop /\ LoopOK(Innermost, plugin_state, slot, filled)
    <3>1. Innermost = loops[Len(loops)] /\ Len(loops) \in 1..Len(loops)
      BY <2>1, EmptySeq DEF Innermost, Last
    <3>2. QED
      BY <1>3, <2>1, <3>1 DEF PluginInv, LoopsOK
  <2>3. slot[p] <= Innermost.at
    BY <1>3, <2>1, <2>2 DEF Ahead, Loop
  <2>4. Sought(Innermost.op, plugin_state[p])
    BY <1>3, AppliesIsSought
  <2>5. QED
    BY <2>1, <2>2, <2>3, <2>4 DEF LoopOK
<1>4. PluginInv /\ [PluginNext]_plugin_vars
        => [AllReturns => \A p \in Registered : Applies(Innermost.op, p) => Left(p)]_plugin_vars
  BY <1>3
<1>5. QED
  BY <1>1, <1>2, <1>4, PTL DEF PluginSpec, AllReached
===============================================================================
