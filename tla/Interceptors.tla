----------------------------- MODULE Interceptors ------------------------------
(***************************************************************************)
(* spi/interceptor.py: an InterceptorChain with the built-in interceptors, *)
(* the spans of obs/tracing.py and the metrics of obs/metrics.py, and the  *)
(* custom interceptors of examples/interceptor_auth.                       *)
(*                                                                         *)
(* No interceptor of these awaits anything but the next one: a call runs   *)
(* in one step up to the actual invoker, which may take its time, and in   *)
(* one step back.  Between the two other calls come and go, in other tasks *)
(* or from inside the invoker, the chain is edited, spans and counters are *)
(* cleared; a call may be cancelled, and its context used again.           *)
(***************************************************************************)
EXTENDS Lists, FiniteSets

CONSTANTS Calls,         \* calls of InterceptorChain.invoke()
          Contexts,      \* InvocationContext objects; also the trace ids made for them
          Authorized,    \* contexts whose request has the required token
          Traced,        \* contexts made with one and the same trace_id, SharedTrace
          SharedTrace,
          Methods,       \* the labels of the metrics
          MethodOf,      \* the method of each context
          Priority,      \* of an interceptor of each kind
          InitialChains, \* sets of kinds an application builds its chain of
          MaxChanges,    \* bound: edits of the chain, clear_traces and reset_all
          None

Kinds == {"correlation", "auth", "logging", "tracing", "timing", "metrics"}

ASSUME InterceptorsAssumption ==
    /\ IsFiniteSet(Calls) /\ None \notin Calls \union Contexts \union {SharedTrace}
    /\ SharedTrace \notin Contexts
    /\ Authorized \subseteq Contexts /\ Traced \subseteq Contexts
    /\ MethodOf \in [Contexts -> Methods] /\ Priority \in [Kinds -> Nat]
    /\ InitialChains \subseteq SUBSET Kinds /\ MaxChanges \in Nat

VARIABLES
    chain,            \* self._interceptors
    step, context, path,     \* of each call: how far it is, its context, what it is inside of
    trace_id,         \* context.metadata["trace_id"]
    error, ended,     \* context.error and context.end_time are set
    traces,           \* TracingInterceptor.traces; a TracingContext is named for the call
                      \* that made it
    span,             \* the Span of each call: its TracingContext, parent and status,
                      \* "none" before it is made, "open" until finish()
    active_span,      \* _active_span of each TracingContext
    active_calls, calls_total, errors_total, durations,   \* the metrics of each method
    entries, exits,   \* what logging, correlation and timing note on the way in and out
    changes,
    \* History, read by no action:
    open,             \* of each TracingContext: its calls under way, oldest first
    mixed             \* TracingContexts of which a call was cancelled, or ended before one
                      \* that began later

calls == <<step, context, path>>
contexts == <<trace_id, error, ended>>
tracer == <<traces, span, active_span, open, mixed>>
counters == <<calls_total, errors_total, durations>>
stamps == <<entries, exits>>
chain_vars == <<chain, calls, contexts, tracer, active_calls, counters, stamps, changes>>

Stamping == {"logging", "correlation", "timing"}
NoSpan == [of |-> None, parent |-> None, status |-> "none"]
Zeros == [m \in Methods |-> 0]

\* The chains of one interceptor of each kind in S, lower priorities first: those of one
\* priority stay as they were added.
Sorted(l) == \A m, n \in DOMAIN l : m < n => Priority[l[m]] <= Priority[l[n]]
Built(S) == {l \in [1..Cardinality(S) -> S] : IsInjective(l) /\ Sorted(l)}

ChainInit ==
    /\ chain \in UNION {Built(S) : S \in InitialChains}
    /\ step = [c \in Calls |-> "unused"]
    /\ context = [c \in Calls |-> None] /\ path = [c \in Calls |-> {}]
    /\ trace_id = [k \in Contexts |-> IF k \in Traced THEN SharedTrace ELSE None]
    /\ error = [k \in Contexts |-> FALSE] /\ ended = [k \in Contexts |-> FALSE]
    /\ traces = <<>> /\ span = [c \in Calls |-> NoSpan]
    /\ active_span = [c \in Calls |-> None]
    /\ active_calls = Zeros /\ calls_total = Zeros /\ errors_total = Zeros /\ durations = Zeros
    /\ entries = [i \in Stamping |-> 0] /\ exits = [i \in Stamping |-> 0]
    /\ changes = 0
    /\ open = [c \in Calls |-> <<>>] /\ mixed = {}

-------------------------------------------------------------------------------
(* The chain, the collector and the traces between calls *)

Changes == changes < MaxChanges /\ changes' = changes + 1

\* Appended, then sorted, which is stable and finds the others sorted: it comes after those of
\* its own priority.  Bound: one interceptor of a kind.
AddInterceptor(i) ==
    /\ Changes /\ i \notin Range(chain)
    /\ LET before == {n \in DOMAIN chain : Priority[chain[n]] <= Priority[i]}
       IN  chain' = InsertAt(chain, Cardinality(before) + 1, i)
    /\ UNCHANGED <<calls, contexts, tracer, active_calls, counters, stamps>>

RemoveInterceptor(i) ==
    /\ Changes /\ i \in Range(chain)
    /\ chain' = Removed(chain, i)
    /\ UNCHANGED <<calls, contexts, tracer, active_calls, counters, stamps>>

ClearTraces ==
    /\ Changes /\ traces' = <<>>
    /\ UNCHANGED <<chain, calls, contexts, span, active_span, open, mixed, active_calls,
                   counters, stamps>>

\* Mutant: the gauges are reset too.
ResetAllGauges ==
    /\ Changes
    /\ calls_total' = Zeros /\ errors_total' = Zeros /\ durations' = Zeros
    /\ active_calls' = Zeros
    /\ UNCHANGED <<chain, calls, contexts, tracer, stamps>>

\* Counters and histograms; gauges represent the current state.
ResetAll ==
    /\ Changes
    /\ calls_total' = Zeros /\ errors_total' = Zeros /\ durations' = Zeros
    /\ UNCHANGED <<chain, calls, contexts, tracer, active_calls, stamps>>

-------------------------------------------------------------------------------
(* TracingInterceptor *)

\* The id of the trace a context belongs to, made up if it has none, ...
TraceOf(k) == IF trace_id[k] = None THEN k ELSE trace_id[k]

\* ... and the TracingContext of that trace, a new one if there is none.
TracingContextOf(c, k) ==
    IF TraceOf(k) \in DOMAIN traces THEN traces[TraceOf(k)] ELSE c

StartSpan(c, of) == [of |-> of, parent |-> active_span[of], status |-> "open"]

\* On the way in: a span under the active one becomes the active one.
TracingIn(c, k) ==
    LET of == TracingContextOf(c, k) IN
    /\ trace_id' = [trace_id EXCEPT ![k] = TraceOf(k)]
    /\ traces' = [t \in DOMAIN traces \union {TraceOf(k)} |->
                     IF t = TraceOf(k) THEN of ELSE traces[t]]
    /\ span' = [span EXCEPT ![c] = StartSpan(c, of)]
    /\ active_span' = [active_span EXCEPT ![of] = c]
    /\ open' = [open EXCEPT ![of] = Append(@, c)]
    /\ UNCHANGED mixed

\* In and out again, when the call is rejected further in: the active span stays.
TracingRejected(c, k) ==
    LET of == TracingContextOf(c, k) IN
    /\ trace_id' = [trace_id EXCEPT ![k] = TraceOf(k)]
    /\ traces' = [t \in DOMAIN traces \union {TraceOf(k)} |->
                     IF t = TraceOf(k) THEN of ELSE traces[t]]
    /\ span' = [span EXCEPT ![c] = [StartSpan(c, of) EXCEPT !.status = "error"]]
    /\ UNCHANGED <<active_span, open, mixed>>

\* Mutant: finishing a span leaves the trace without an active one.
FinishSpanForgets(c, status) ==
    /\ span' = [span EXCEPT ![c].status = status]
    /\ active_span' = [active_span EXCEPT ![span[c].of] = None]

\* Its parent, which is a span of the same trace, is active again.
FinishSpan(c, status) ==
    /\ span' = [span EXCEPT ![c].status = status]
    /\ active_span' = [active_span EXCEPT ![span[c].of] = span[c].parent]

\* On the way out.  CancelledError is no Exception: it leaves the span as it is.
TracingOut(c, how) ==
    LET of == span[c].of IN
    /\ IF how = "cancelled" THEN UNCHANGED <<span, active_span>>
       ELSE FinishSpan(c, IF how = "raised" \/ error[context[c]] THEN "error" ELSE "ok")
    /\ open' = [open EXCEPT ![of] = Removed(@, c)]
    /\ mixed' = IF how = "cancelled" \/ Last(open[of]) # c THEN mixed \union {of} ELSE mixed
    /\ UNCHANGED <<trace_id, traces>>

-------------------------------------------------------------------------------
(* MetricsInterceptor, and the interceptors that note what passes them *)

Plus(f, K) == [i \in DOMAIN f |-> IF i \in K THEN f[i] + 1 ELSE f[i]]

\* The counters on the way out, whatever made the call leave: an exception that nobody put
\* into the context is no error here.  Assumed: the clock tells the ends of a call apart.
MetricsOut(k, failed, timed) ==
    /\ calls_total' = Plus(calls_total, {MethodOf[k]})
    /\ errors_total' = Plus(errors_total, IF failed THEN {MethodOf[k]} ELSE {})
    /\ durations' = Plus(durations, IF timed THEN {MethodOf[k]} ELSE {})

\* Those among K that note the exit: timing does so in a "finally".
Noted(K, how) == {i \in K \intersect Stamping : how = "returned" \/ i = "timing"}
-------------------------------------------------------------------------------
(* Calls *)

\* Bound: no two calls at a time share a context.
Free(c, k) == step[c] = "unused" /\ \A d \in Calls : ~(step[d] = "invoking" /\ context[d] = k)

Takes(c, k, K, to) ==
    /\ step' = [step EXCEPT ![c] = to]
    /\ context' = [context EXCEPT ![c] = k]
    /\ path' = [path EXCEPT ![c] = K]
    /\ entries' = Plus(entries, K)

Rejects(k) == "auth" \in Range(chain) /\ k \notin Authorized

BeforeAuth ==
    {i \in Range(chain) : \E m, n \in DOMAIN chain : m < n /\ chain[m] = i /\ chain[n] = "auth"}

\* invoke() up to the actual invoker.
Enter(c, k) ==
    /\ Free(c, k) /\ ~Rejects(k)
    /\ Takes(c, k, Range(chain), "invoking")
    /\ IF "tracing" \in Range(chain) THEN TracingIn(c, k) ELSE UNCHANGED <<trace_id, tracer>>
    /\ active_calls' = Plus(active_calls, IF "metrics" \in Range(chain) THEN {MethodOf[k]} ELSE {})
    /\ UNCHANGED <<chain, error, ended, counters, exits, changes>>

\* AuthInterceptor sets context.error and returns; what is around it returns normally.
Rejected(c, k) ==
    /\ Free(c, k) /\ Rejects(k)
    /\ Takes(c, k, BeforeAuth, "failed")
    /\ error' = [error EXCEPT ![k] = TRUE] /\ ended' = [ended EXCEPT ![k] = TRUE]
    /\ IF "tracing" \in BeforeAuth THEN TracingRejected(c, k) ELSE UNCHANGED <<trace_id, tracer>>
    /\ IF "metrics" \in BeforeAuth THEN MetricsOut(k, TRUE, TRUE) ELSE UNCHANGED counters
    /\ exits' = Plus(exits, Noted(BeforeAuth, "returned"))
    /\ UNCHANGED <<chain, active_calls, changes>>

\* Mutant: set_error does not mark the end.
AnswersUnended(c, failed) ==
    /\ step[c] = "invoking"
    /\ ended' = [ended EXCEPT ![context[c]] = @ \/ ~failed]
    /\ error' = [error EXCEPT ![context[c]] = @ \/ failed]
    /\ UNCHANGED <<chain, calls, trace_id, tracer, active_calls, counters, stamps, changes>>

\* The invoker calls context.set_response() or set_error().
Answers(c, failed) ==
    /\ step[c] = "invoking"
    /\ ended' = [ended EXCEPT ![context[c]] = TRUE]
    /\ error' = [error EXCEPT ![context[c]] = @ \/ failed]
    /\ UNCHANGED <<chain, calls, trace_id, tracer, active_calls, counters, stamps, changes>>

\* The invoker is left, and the interceptors the call went in by see how, wherever the
\* chain may have been edited since.
Leave(c, how) ==
    LET k == context[c] IN
    /\ step[c] = "invoking"
    /\ step' = [step EXCEPT ![c] = IF how = "returned" /\ error[k] THEN "failed" ELSE how]
    /\ IF "tracing" \in path[c] THEN TracingOut(c, how) ELSE UNCHANGED <<trace_id, tracer>>
    /\ IF "metrics" \in path[c]
          THEN /\ active_calls' = [active_calls EXCEPT ![MethodOf[k]] = @ - 1]
               /\ MetricsOut(k, error[k], ended[k])
          ELSE UNCHANGED <<active_calls, counters>>
    /\ exits' = Plus(exits, Noted(path[c], how))
    /\ UNCHANGED <<chain, context, path, error, ended, entries, changes>>

ChainNext ==
    \/ \E i \in Kinds : AddInterceptor(i)
    \/ \E i \in Kinds : RemoveInterceptor(i)
    \/ ClearTraces
    \/ ResetAll
    \/ \E c \in Calls, k \in Contexts : Enter(c, k)
    \/ \E c \in Calls, k \in Contexts : Rejected(c, k)
    \/ \E c \in Calls, failed \in BOOLEAN : Answers(c, failed)
    \/ \E c \in Calls, how \in {"returned", "raised", "cancelled"} : Leave(c, how)

ChainSpec == ChainInit /\ [][ChainNext]_chain_vars
-------------------------------------------------------------------------------
Steps == {"unused", "invoking", "returned", "failed", "raised", "cancelled"}

\* The types of chain, calls, contexts, spans and metrics; the chain is sorted by priority,
\* wherever an interceptor is put in, and a context that holds an error has ended.
ChainTypeOK ==
    /\ chain \in Seq(Kinds) /\ IsInjective(chain) /\ Sorted(chain)
    /\ step \in [Calls -> Steps] /\ path \in [Calls -> SUBSET Kinds]
    /\ context \in [Calls -> Contexts \union {None}]
    /\ \A c \in Calls : step[c] = "unused" <=> context[c] = None
    /\ trace_id \in [Contexts -> Contexts \union {SharedTrace, None}]
    /\ error \in [Contexts -> BOOLEAN] /\ ended \in [Contexts -> BOOLEAN]
    /\ \A k \in Contexts : error[k] => ended[k]
    /\ \A t \in DOMAIN traces : traces[t] \in Calls
    /\ span \in [Calls -> [of : Calls \union {None}, parent : Calls \union {None},
                           status : {"none", "open", "ok", "error"}]]
    /\ active_span \in [Calls -> Calls \union {None}]
    /\ active_calls \in [Methods -> Nat] /\ calls_total \in [Methods -> Nat]
    /\ errors_total \in [Methods -> Nat] /\ durations \in [Methods -> Nat]
    /\ entries \in [Stamping -> Nat] /\ exits \in [Stamping -> Nat]
    /\ changes \in 0..MaxChanges

Inside(i, m) == {c \in Calls : step[c] = "invoking" /\ i \in path[c] /\ MethodOf[context[c]] = m}

GaugesExact ==
    \A m \in Methods : /\ active_calls[m] = Cardinality(Inside("metrics", m))
                       /\ errors_total[m] <= durations[m] /\ durations[m] <= calls_total[m]

StampsExact ==
    \A i \in Stamping :
        entries[i] = exits[i] + Cardinality({c \in Calls : /\ i \in path[c]
            /\ \/ step[c] = "invoking"
               \/ step[c] \in {"raised", "cancelled"} /\ i # "timing"})

\* rpc_active_calls is the number of calls inside MetricsInterceptor, however they end and
\* whatever is reset or taken out of the chain meanwhile; every error counted has a
\* duration observed, and every duration a call counted.  Of the interceptors that note the
\* way in and out, the exits that are missing are those of calls under way and, where the
\* exit is no "finally", of calls left by an exception: a rejected call is no such call.
MetersExact == GaugesExact /\ StampsExact

SpansSettle ==
    \A c \in Calls : "tracing" \in path[c] =>
        span[c].status = CASE step[c] \in {"invoking", "cancelled"} -> "open"
                           [] step[c] = "returned" -> "ok"
                           [] OTHER -> "error"

ParentIsEnclosing ==
    \A of \in Calls \ mixed :
        /\ active_span[of] = IF open[of] = <<>> THEN None ELSE Last(open[of])
        /\ \A n \in DOMAIN open[of] :
              span[open[of][n]].parent = IF n = 1 THEN None ELSE open[of][n - 1]

\* A traced call's span is finished when the call is, as its outcome says, and stays open
\* only if the call was cancelled.  As long as the calls of a trace end in reverse order,
\* and none is cancelled, the parent of a span is the span of the call around it: the active
\* span that concurrent calls of one trace share is then the innermost.
TraceFaithful == SpansSettle /\ ParentIsEnclosing
===============================================================================
