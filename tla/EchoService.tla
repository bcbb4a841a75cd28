------------------------------ MODULE EchoService ------------------------------
(***************************************************************************)
(* examples/echo_service: a call through policies/retry.py, around the     *)
(* circuit breaker, around policies/timeout.py, around an interceptor      *)
(* chain that passes everything on, around an operation that answers and   *)
(* then publishes an event, whose handler it awaits.                       *)
(*                                                                         *)
(* All attempts of an invoke() share one InvocationContext.  The breaker   *)
(* is that of module CircuitBreaker, whose state and steps are used as     *)
(* they are: its callers are the invokes.                                  *)
(***************************************************************************)
EXTENDS CircuitBreaker

CONSTANTS MaxAttempts,           \* RetryPolicy.max_attempts
          BaseDelay, MaxDelay,   \* of exponential_backoff, factor 2, in ticks
          Timeout,               \* TimeoutPolicy.timeout_seconds, in ticks
          RetryOn                \* which errors retry_on lets through

Errors == {"timeout", "open"}

\* What the constructors accept.  A delay of 0 would not even let other tasks run.
ASSUME EchoAssumption ==
    /\ MaxAttempts \in Nat \ {0} /\ Timeout \in Nat \ {0}
    /\ BaseDelay \in Nat \ {0} /\ MaxDelay \in Nat \ {0}
    /\ RetryOn \subseteq Errors

VARIABLES
    at,          \* where each invoke is
    attempt,     \* the attempt of RetryPolicy.run, counted from 1
    last_exc,    \* of RetryPolicy.run
    timer,       \* ticks left of wait_for or of the sleep between attempts
    response,    \* context.response is set
    \* History, read by no action:
    said         \* events of this invoke that were handed to a subscriber

circuit == vars
echo_vars == <<circuit, at, attempt, last_exc, timer, response, said>>

Ended == {"idle", "returned", "failed", "cancelled"}
Busy == {"starting", "publishing", "expiring", "sleeping"}

EchoInit ==
    /\ Init
    /\ at = [c \in Callers |-> "idle"] /\ attempt = [c \in Callers |-> 0]
    /\ last_exc = [c \in Callers |-> "none"] /\ timer = [c \in Callers |-> 0]
    /\ response = [c \in Callers |-> FALSE] /\ said = [c \in Callers |-> 0]

-------------------------------------------------------------------------------
(* RetryPolicy *)

\* exponential_backoff: base * factor ^ (attempt - 1), at most max_delay.
Backoff(n) == LET delay == BaseDelay * 2 ^ (n - 1) IN IF delay < MaxDelay THEN delay ELSE MaxDelay

ShouldRetry(exc) == exc \in RetryOn

\* Mutant: the last attempt is lost.
AttemptFailedEarly(c, n, exc) ==
    /\ last_exc' = [last_exc EXCEPT ![c] = exc]
    /\ attempt' = [attempt EXCEPT ![c] = n]
    /\ IF n + 1 >= MaxAttempts \/ ~ShouldRetry(exc)
          THEN /\ at' = [at EXCEPT ![c] = "failed"]
               /\ timer' = [timer EXCEPT ![c] = 0]
          ELSE /\ at' = [at EXCEPT ![c] = "sleeping"]
               /\ timer' = [timer EXCEPT ![c] = Backoff(n)]

\* Mutant: the policy retries for ever.
AttemptFailedForever(c, n, exc) ==
    /\ last_exc' = [last_exc EXCEPT ![c] = exc]
    /\ attempt' = [attempt EXCEPT ![c] = 1]
    /\ at' = [at EXCEPT ![c] = "sleeping"]
    /\ timer' = [timer EXCEPT ![c] = Backoff(n)]

\* Attempt n has raised: RetryError, or the sleep before the next one.
AttemptFailed(c, n, exc) ==
    /\ last_exc' = [last_exc EXCEPT ![c] = exc]
    /\ attempt' = [attempt EXCEPT ![c] = n]
    /\ IF n >= MaxAttempts \/ ~ShouldRetry(exc)
          THEN /\ at' = [at EXCEPT ![c] = "failed"]
               /\ timer' = [timer EXCEPT ![c] = 0]
          ELSE /\ at' = [at EXCEPT ![c] = "sleeping"]
               /\ timer' = [timer EXCEPT ![c] = Backoff(n)]

\* Attempt n begins: the breaker lets it through, and wait_for makes a task of it, or it
\* is an attempt that ends with CircuitOpenError at once.
Attempt(c, n) ==
    \/ /\ Admitted(c)
       /\ at' = [at EXCEPT ![c] = "starting"]
       /\ attempt' = [attempt EXCEPT ![c] = n]
       /\ timer' = [timer EXCEPT ![c] = Timeout]
       /\ UNCHANGED last_exc
    \/ /\ Blocked(c)
       /\ AttemptFailed(c, n, "open")

-------------------------------------------------------------------------------
\* invoke() makes its context and goes up to its first await.
Invoke(c) ==
    /\ at[c] \in Ended
    /\ response' = [response EXCEPT ![c] = FALSE] /\ said' = [said EXCEPT ![c] = 0]
    /\ Attempt(c, 1)

\* The sleep between two attempts is over.
Wakes(c) ==
    /\ at[c] = "sleeping" /\ timer[c] = 0
    /\ Attempt(c, attempt[c] + 1)
    /\ UNCHANGED <<response, said>>

\* _actual_invoker, which nothing in the chain holds up: it sets the response and
\* publishes; a subscriber's handler is under way.
OperationRuns(c) ==
    /\ at[c] = "starting"
    /\ response' = [response EXCEPT ![c] = TRUE]
    /\ said' = [said EXCEPT ![c] = @ + 1]
    /\ at' = [at EXCEPT ![c] = "publishing"]
    /\ UNCHANGED <<circuit, attempt, last_exc, timer>>

\* publish() returns, even if a handler raised, and so does everything around it: so does an
\* operation whose handler ignores the cancellation by the timeout.
Returns(c) ==
    /\ at[c] \in {"publishing", "expiring"}
    /\ Succeeds(c)
    /\ at' = [at EXCEPT ![c] = "returned"] /\ timer' = [timer EXCEPT ![c] = 0]
    /\ UNCHANGED <<attempt, last_exc, response, said>>

\* wait_for cancels the operation, and awaits its end.
TimesOut(c) ==
    /\ at[c] = "publishing" /\ timer[c] = 0 /\ operation = "erratic"
    /\ at' = [at EXCEPT ![c] = "expiring"]
    /\ UNCHANGED <<circuit, attempt, last_exc, timer, response, said>>

\* The cancelled operation has ended, and TimeoutError passes the breaker.
TimedOut(c) ==
    /\ at[c] = "expiring"
    /\ Fails(c)
    /\ AttemptFailed(c, attempt[c], "timeout")
    /\ UNCHANGED <<response, said>>

\* The caller's task is cancelled: CancelledError passes all the policies.
InvokeCancelled(c) ==
    /\ at[c] \in {"starting", "publishing", "sleeping"}
    /\ IF c \in inflight THEN Cancelled(c) ELSE UNCHANGED circuit
    /\ at' = [at EXCEPT ![c] = "cancelled"] /\ timer' = [timer EXCEPT ![c] = 0]
    /\ UNCHANGED <<attempt, last_exc, response, said>>

TimePasses ==
    /\ Tick
    /\ timer' = [c \in Callers |-> IF timer[c] > 0 THEN timer[c] - 1 ELSE timer[c]]
    /\ UNCHANGED <<at, attempt, last_exc, response, said>>

\* From here on handlers end in time, and nobody is cancelled.
OperationHeals ==
    /\ \A c \in Callers : at[c] # "expiring"
    /\ Heals
    /\ UNCHANGED <<at, attempt, last_exc, timer, response, said>>

EchoNext ==
    \/ TimePasses
    \/ OperationHeals
    \/ \E c \in Callers : Invoke(c)
    \/ \E c \in Callers : Wakes(c)
    \/ \E c \in Callers : OperationRuns(c)
    \/ \E c \in Callers : Returns(c)
    \/ \E c \in Callers : TimesOut(c)
    \/ \E c \in Callers : TimedOut(c)
    \/ \E c \in Callers : InvokeCancelled(c)

EchoSpec == EchoInit /\ [][EchoNext]_echo_vars

\* The clock runs and timers fire; a task that can run does, callers come back, a cancelled
\* handler ends, and a healthy one too.  An erratic one need never return.
EchoFairness ==
    /\ WF_echo_vars(TimePasses)
    /\ \A c \in Callers :
          /\ WF_echo_vars(Invoke(c)) /\ WF_echo_vars(Wakes(c)) /\ WF_echo_vars(OperationRuns(c))
          /\ WF_echo_vars(TimesOut(c)) /\ WF_echo_vars(TimedOut(c))
          /\ WF_echo_vars(operation = "healthy" /\ Returns(c))
EchoFairSpec == EchoSpec /\ EchoFairness
-------------------------------------------------------------------------------
InFlightAgrees == inflight = {c \in Callers : at[c] \in Busy \ {"sleeping"}}

\* An invoke returns a response that is set, with its event said; it fails only after all
\* attempts or by an error that is not to be retried.  An attempt says its event at most
\* once, also when one of another is still unwinding.  However an attempt ends, by retry,
\* timeout or cancellation, the breaker's calls in flight are those that are under way.
OutcomeHonest ==
    /\ InFlightAgrees
    /\ \A c \in Callers :
        /\ at[c] = "returned" => response[c] /\ said[c] >= 1
        /\ at[c] = "failed" => attempt[c] = MaxAttempts \/ ~ShouldRetry(last_exc[c])
        /\ said[c] <= attempt[c] /\ attempt[c] <= MaxAttempts

\* Every invoke ends, however often it is retried and even if no handler ever returns.
InvokeEnds == \A c \in Callers : at[c] \in Busy ~> at[c] \in Ended

\* Once the operation is healthy the invokes come to succeed, and fail no more: attempts
\* spent on an open circuit do not keep it open.
RecoversWhenHealthy ==
    <>(operation = "healthy") => <>[](\A c \in Callers : at[c] # "failed")
===============================================================================
