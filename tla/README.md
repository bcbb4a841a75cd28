# tinySOA in TLA+

tinySOA is a small service framework: services with a lifecycle in a container,
event buses (in memory, over TCP, over SOME/IP), call policies (retry, circuit
breaker, timeout), interceptors, plugins, tracing, metrics and configuration.
These modules model the parts of it whose correctness depends on what happens
*between* steps: awaits of an event loop, threads, background tasks, channels,
callbacks that call back. Paths below are relative to `src/src/tinysoa/`.

* [Inventory](#inventory)
* [Modules and how they correspond to the code](#modules)
* [Runs: questions, bounds, answers](#runs)
* [Fairness](#fairness)
* [What is proved](#proofs)
* [Where code and documentation disagree](#findings)
* [What is not modelled](#not-modelled)
* [Plan](#plan)

## Inventory

| Component | State | Operations | Interacts with | What is hard | What makes it correct |
|---|---|---|---|---|---|
| InMemoryEventBus, `eventbus/bus.py` | lists of subscriptions per topic, three counters | publish (async), subscribe, unsubscribe, clear_all_subscriptions, reset_metrics | handlers, which may call it back | every handler is an await: other tasks change the registry in mid fan-out; handlers raise, publish, get cancelled | each handler of the snapshot called once; nothing published after an unsubscribe arrives; counters add up |
| SomeIPEventBus, `eventbus/someip.py` | publishers, one subscriber with receivers, local subscriptions, a process-wide port allocator | start, stop, publish (async); subscribe, unsubscribe | pysomeip, UDP, background tasks it creates and forgets | subscribe and unsubscribe return before their work is done; stop runs between their steps; sockets opened after stop | no socket lost, at most one call per notification, a subscribed topic is listened to; ports distinct |
| TCPEventBusServer, `eventbus/tcp.py` | connections, connections per topic, one lock | accept loop, one loop per connection, stop | clients over TCP | one removal path takes no lock; accepting while stopping | the lock protects the registry, dead connections disappear, stop ends all |
| TCPEventBusClient, `eventbus/tcp.py` | handlers per topic, one lock, a reader thread | publish, subscribe, unsubscribe, close | server over TCP; handlers run by the reader | the server keeps one list per topic and connection, the client one per handler; close against a blocked read | both sides agree, handlers called once, none starved |
| CircuitBreaker, `policies/circuit_breaker.py` | state, counters, time of opening | call (async) | the protected operation, the clock | outcomes are recorded in another state than the call was admitted in | cool-down served, opens exactly on a streak, recovers |
| RetryPolicy, TimeoutPolicy, `policies/` | none, or the attempt number | run (async) | the breaker: retry outside, timeout inside; one context for all attempts | a timeout fails what the breaker is counting; retries of a blocked call; a cancelled handler that returns all the same | bounded attempts, honest outcomes, recovery |
| Service, Container, LifecycleManager, `core/model.py`, `runtime/` | status; services by id, ids by name; hooks | add, remove, clear, start, stop, terminate, and these for all | hooks, which may raise and call back | loops over services whose hooks change the services | the two dictionaries agree, terminate_all terminates |
| Interceptors, `spi/interceptor.py` | sorted chain, contexts | add, remove, invoke (async) | handlers, tracing, metrics | calls that are rejected, raise or are cancelled inside the chain, which is edited meanwhile | what is noted on the way in is noted on the way out |
| Plugins and cache, `spi/plugin.py` | plugins by name, cached entries | register, unregister, lifecycle calls, these for all; get, set, clear | plugins, which may raise and call the manager | loops over a live dictionary; a cache filled before its limit is set | size bound; what a loop that returns may leave behind |
| Tracing and metrics, `obs/` | traces, spans, the active span of each; numbers | start_span, finish_span; inc, dec, set, observe, reset_all | interceptors | concurrent requests of a trace share the active span | parent and status of a span; gauges return to zero |
| Configuration, `config/` | the last valid configuration | load, load_from_file, load_from_dict, reload, to_dict | environment, files | partial sections from several sources, words that turn into numbers | field by field the higher source wins, what is kept is valid |
| API, messages, `api/`, `eventbus/message.py` | none | decorators, JSON | | | round trip |

Interactions: the policies wrap a call that goes through the interceptor chain;
the buses share the interface `EventBus` (`eventbus/bus.py:32`) and nothing
else; the lifecycle manager calls user hooks, which are where an application
starts and stops its buses. `PROJECT.json` lists, under `hazards`, the
behaviours of this code that are hard to test, each at its line with the
properties that cover it.

## Modules

| Module | Models | Extends / composed of |
|---|---|---|
| `PubSub` | what any topic bus promises (`EventBus`) | |
| `InMemoryBus` | `InMemoryEventBus` | `Lists`; implements `PubSub` |
| `CircuitBreaker` | `CircuitBreaker` | |
| `SomeIpStack` | `SomeIPEventBus.start`, `stop` | |
| `SomeIpSubscriber` | the receiving side of `SomeIPEventBus` | `SomeIpStack`, `Lists` |
| `PortAllocator` | `_get_service_port` | |
| `SomeIpPublisher` | the sending side of `SomeIPEventBus` | `SomeIpStack`, `PortAllocator` |
| `Lists` | how an item is taken out of a list, by comprehension or by `remove` | |
| `TcpServer` | `TCPEventBusServer` | `Lists` |
| `TcpClient` | `TCPEventBusClient` and the server's thread for it | `Lists` |
| `Lifecycle` | `LifecycleManager`, `Container`, the status of `Service` | |
| `EchoService` | `RetryPolicy`, `TimeoutPolicy` and the invocation of `examples/echo_service` | `CircuitBreaker`, which it implements |
| `Interceptors` | `InterceptorChain`, its interceptors, tracing and metrics, those of `examples/interceptor_auth` | `Lists` |
| `Plugins` | `PluginManager`, `Plugin`, `CachePlugin` | |
| `Configuration` | `ConfigLoader`, `Config` | |
| `InMemoryBusProofs`, `SomeIpPublisherProofs`, `SomeIpSubscriberProofs`, `TcpServerProofs`, `TcpClientProofs` | theorems | the module they are named for |
| `InvocationProofs` | theorems about what an invocation passes | `EchoService`, `Interceptors`, `Plugins` |
| `RuntimeProofs` | theorems about what an application starts from | `Lifecycle`, `Configuration` |
| `ListsProofs` | what `Lists` returns, for lists of any length | `Lists` |

Each `MC...` module only adds what a run needs: symmetry, or values of constants.

**How the code's scheduling becomes steps.** In asyncio code a step is what runs
between two awaits. `InMemoryBus` has one action for a publish up to its first
handler and one for each way a handler ends; nested publishes are a stack per
task. `SomeIpSubscriber` has one action for each stage of a background task
(created, sleeping, creating its endpoint), and stages are reached in the order of
creation because the loop starts tasks in that order and later tasks sleep
longer. In threaded code a step is a critical section of a lock that all of its
competitors take, or, in `_remove_client`, one read or write of the registry, with two
groups of them taken together: the `setdefault` and `append` of a subscription
(`eventbus/tcp.py:104`) and the test and `del` of an emptied topic (`:153-154`). A removal
without the lock could come between these too.
In `Lifecycle` and `Plugins` there is one thread, and steps are hooks and turns of
loops; a call that raises before it changes anything is not a step of its own,
since its caller just goes on. In `Interceptors` nothing but the actual invoker
takes time: a call is one step in and one step out. In `EchoService` a step is what
runs between two awaits of the whole stack of policies.

**InMemoryBus.** `subscribers` is `_subscribers`, the counters have their names,
`stack[k]` holds the publishes that task `k` is inside of with the handlers each
has still to finish. `pub`, `received`, `left`, `discarded` are history. A
cancellation ends the innermost publish; the handler around it, if any, sees it
and ends in any of the three ways. Metrics may be switched off (`Init`). `GetMetrics` and
the counts of subscribers and topics are operators that `MetricsAddUp` compares with
the history.

**CircuitBreaker.** `elapsed` stands for `time.monotonic() - last_failure_time`
and stops at the timeout, past which nothing tells more apart. `operation` is the
environment: it may fail as long as it is "erratic" and may heal for good.
`cooldown` and `streak` are history against which the fields are checked.

**SomeIpStack / SomeIpSubscriber.** A stack is what one `start()` builds; `sd` is
the Service Discovery of each ("none" after an `OSError`). `receivers[g]` is
`_receivers` of the g-th `SomeIPSubscriber`, `rx` every receiver ever opened:
the difference between the two is what can be lost. `races` records the timing
hazards a behaviour went through, so that a property can say what holds without
them: `unsubscribed early` (last unsubscribe before the start task is done),
`stopped while binding`, `started twice` (a second `start()` before the first has
set `_started`). Each is a way to lose a socket, and the hazards name the lines. Several
receivers that hear one notification create their dispatch tasks in any order, which is UDP's.

**PortAllocator / SomeIpPublisher.** `GetServicePort` is a function from an
allocator to an allocator, used where `__init__` and `publish()` call it, and
by other buses of the process at any time. Another bus with a service of this one gets the
same port (`_get_service_port` keeps one per service) and may bind and close it:
`elsewhere` are the services whose port it has. `objs` has every endpoint, `publishers`
those the bus has entered. Publishing binds its socket when the endpoint is asked
for and enters the publisher one step later. `Announcer` is `_sd_announcer`: none after a
`start()` that met `OSError`, and then nothing that is sent was announced, which
`OutcomesExplained` says of it.

**TcpServer.** A second `start()` fails to bind, after its new socket has replaced the one
that listens (`listening = "unbound"`); one after `stop()` finds the stop event still set,
so that its accept thread ends at once. The thread of a connection is `at` one place; `local` holds the
variables of `_client_loop` and of `_remove_client`, which "unsubscribe" shares
from the write on. `stop()` sets the event in one step and clears under the lock
in another. `accepting` is the accept thread in its loop: it may have tested `_stopped`
before `stop()` set it, and list one more connection afterwards. `sock` is "broken" once the client has gone: sends may then fail, or
still succeed into a buffer.

**TcpClient.** `requests` and `incoming` are the two directions of the connection;
`entries[t]` is how often the server lists this connection under `t`, which is all
the server remembers of it. `unsubscribe()` asks whether or not the subscription is still
listed, and the server takes out all entries of the topic: `silenced`, a history variable,
are the topics whose last `unsubscribe()` left a handler behind, because it was of
another subscription or of one given up before. `close()` is two steps, because
`_file_r.close()` waits for the reader to be outside `readline()`.

**Lifecycle.** `stack` has the calls in progress: a call for one service is in its
hooks, a call for all has services `left`. Any hook may return, raise
`StateError`, raise something else, or call the container or the manager again, and
may add a hook to the list that is being walked: `hooks` counts the hooks of each
operation. A service may enter the container in any status, as one made by
`from_dict` does. `CheckAllHealth` is what the manager's health check reports.

**EchoService.** `at[c]`, `attempt` and `timer` are what the frames of one `invoke()`
hold: where it is suspended, the loop variable of `RetryPolicy.run`, what is left of
`wait_for` or of the sleep between attempts. `response` belongs to the context, which
all attempts of one invoke share, so a late attempt can find it set. Each step
of the breaker is a step of `CircuitBreaker`, conjoined, so that `EchoSpec` implies the
breaker's `Spec`.

**Interceptors.** `path[c]` is the set of interceptors a call went in by: the chain is
copied into closures when the call begins, so later edits do not touch it. A
`TracingContext` is named for the call that made it. `entries` and `exits` count what the
logging, correlation and timing interceptors note. `open` and `mixed` are history: the
order in which the calls of a trace began, and whether they ended in reverse order.

**Plugins.** `slot` is the manager's dictionary: where in it each plugin is. Python's
dictionary is external and modelled by what the loops see of it: a key that is put in goes
to the end, one that is taken out leaves a gap, an insertion into a full table moves the
entries together, and an iterator stops with `RuntimeError` if the size has changed or there
is an entry more than it began with. When a table is full depends on its history, so any
insertion after a removal may be the one that moves entries. `loops` are the manager's
loops in progress, each called by a plugin of the one around it; the plugin that
the innermost is calling may do whatever an application may. Plugins call `super()` first, as
those of the file do: what one does before its state changes is not modelled. A loop has two
history fields, `moved` (entries moved under it) and `readied` (plugins brought to the state it
looks for since it passed them), which delimit what it may leave behind: both occur, a
`start()` that initializes an earlier plugin being the simplest case. `configured` and
`max_size` are apart since only `initialize()` copies one into the other; `excess` is history,
the number of entries at that moment, until the cache is emptied.

**Configuration.** Dictionaries are functions to nodes. `Accepts` is what `from_dict` can
take without an exception, `Validates` is `Config.validate()`, and a source that does not
pass leaves `config` as it is. `ParseValue`, `MergeConfigs` and `FromDict` are the
functions of those names, on words instead of strings. The code merges dictionaries at every
depth and its schema has two (sections, and fields that are no dictionaries), which
`ConfigAssumption` says of the sources: `MergeConfigs` needs no recursion.

## Runs

| Run | Question | Answer |
|---|---|---|
| `inmem` | do concurrent, nested, failing and cancelled publishes keep the bus's promises? | yes, all of them; `PubSub` is implemented |
| `breaker` | do late outcomes upset the breaker? | no: it serves its cool-down, opens exactly on a streak (`OpensOnStreak`), recovers (`ClosesWhenHealthy`) |
| `echo` | are outcomes what happened, does each invoke end, does the stack recover? | yes (`OutcomeHonest`, `InvokeEnds`, `RecoversWhenHealthy`); a cancelled attempt may still count as a success |
| `sip_subscriber` | are sockets lost, handlers called twice, topics not listened to? | not away from the three races |
| `sip_publisher` | are ports distinct, services kept, what is sent announced if there is a Service Discovery, refusals explained? | yes, away from two of the races (`OutcomesExplained`) |
| `tcp_server` | does the lock protect the registry, does `stop()` end everything? | yes until a send fails; yes |
| `tcp_server_drop` | is a dead connection gone from all topics? | no |
| `tcp_client` | do client and server agree (`ServerAgrees`), is each handler called once (`CalledInBounds`) and each called (`ReaderServes`)? | yes, but for topics that an unsubscribe silenced; yes for topics with one handler at a time; yes, with what the server sent it. `close()` returns once the server has gone |
| `lifecycle` | do raising and re-entrant hooks upset the container or a `terminate_all`? | no |
| `interceptors` | do gauges, counters, logs and spans tell what happened? | yes (`MetersExact`, `TraceFaithful`), with parents of spans right as long as the calls of a trace end in reverse order |
| `plugins` | what may a loop over all plugins that returns leave behind, does the cache keep its limit? | nothing, but for plugins that `start_all` or `stop_all` had passed and another call brought back, and those that escaped when the dictionary's entries moved (`AllReached`); up to one entry and what was there before (`CacheBounded`) |
| `configuration` | does the right source win, is what is kept valid? | yes (`Precedence`, `Reloadable`) |

Bounds, and why they are enough:

* `inmem`: 2 topics, 2 subscriptions, 2 tasks, 3 messages, nesting 2, 1 reset. Two
  subscriptions on a topic give a fan-out something to be in the middle of; two
  tasks and nesting 2 give every order of two publishes; the third message is one
  that begins after the other two have crossed. Topics, subscriptions and tasks
  are symmetric, and no liveness is checked under symmetry.
* `breaker`: 3 callers, threshold 2, timeout 2, 2 trial calls. A late outcome needs
  a caller admitted before the opening, one that opens and one that tries; two
  ticks leave one in which the timeout is running. Counters need no bound: a
  failure needs a call in progress, so few fit in one period.
* `sip_subscriber`: 1 topic, 3 subscriptions, 2 stacks, 1 notification, 1 failure.
  Topics with keys of their own share only the order of tasks; three
  subscriptions make first, last, and first again.
* `sip_publisher`: 3 topics on 2 services, a third service of another bus, 2 base
  ports, ports up to 4 of which one is taken by another process, 2 callers,
  3 publishes, 2 stacks. Two topics share a service, so that both callers can bind it
  at once, and another bus of the process may have either; bases 1 and 3 make the allocator jump; a port can be beyond `MaxPort`.
* `tcp_server`: 2 connections, 1 topic, lists of 2. A removal of one connection by
  another's publish and its own removal are the race; with 3 connections or 2
  topics the shape is the same and the states too many.
* `tcp_client`: 2 subscriptions of 1 topic, at once or one after the other, 2 messages, 1
  `unsubscribe()` of a subscription not listed (`MaxExtra`). Topics share only the reader,
  which takes lines one by one whatever their topics; what is proved holds for any number.
* `lifecycle`: 3 service objects, two of which have one id and two one name, up to
  1 start hook, 1 stop hook and 2 terminate hooks, calls nested 2 deep (and a hook's
  call under a loop, which makes 3). With 2 terminate hooks one can raise before the
  other; the other lists differ in nothing but their statuses.
* `echo`: 2 callers, 3 attempts, threshold 2, recovery 3, timeout 2, delays of 1 and
  then 2 ticks, both errors retried. The breaker opens in the middle of an invoke, and
  the last attempt can come before or after the recovery. The breaker's own races,
  which need a third caller, are in `breaker`.
* `interceptors`: 3 calls on 3 contexts, of which two share a trace and one is not
  authorized, 2 methods, the chain of `examples/interceptor_auth` and that of
  `examples/echo_service` with authorization, 1 edit or reset. Three calls make an inner,
  an outer and one that crosses both.
* `plugins`: 2 plugins, loops nested 2 deep (`MaxLoops`), a dictionary of up to 3 slots
  (`MaxFilled`), any number of calls; 3 keys, limits 0, 1 and 2. Two plugins make one that is
  passed and one that is ahead, either may be taken out and put in again under a loop, and
  3 slots leave room for a gap. An inner loop may be of another operation or the same one. One
  more key than the largest limit makes an eviction.
* `configuration`: 10 files, 9 environments and 7 overrides (`MCConfiguration`), each
  loaded after each: complete, partial, contradicting and invalid ones, ports 0, 1,
  65535 and 65536. What a load makes depends on nothing but its sources.

Deadlock is checked for `inmem`, `breaker`, `echo`, `lifecycle` and `plugins`, where
something can always be called. It is not for the buses on a network: they stop when
they are stopped, when their bounded inputs are used up, or, in `tcp_client`, once
closed; nor for `interceptors`, whose calls are used up, and `configuration`, where all
sources may be invalid.

## Fairness

* `CircuitBreaker`: weak fairness of the clock, of each caller's next call when the
  circuit admits it, and of the end of each operation: operations end because
  callers wrap them in timeouts, and a circuit nobody calls cannot recover, since
  the transition is part of `call()`.
* `EchoService`: weak fairness of the clock, of invokes (callers come back), of what a
  task does that can run, of the timers of `wait_for` and `sleep`, and of the end of a
  cancelled handler, which `wait_for` waits for. Only a healthy operation owes its
  return; an erratic one need never return, and the timeout ends it.
* `SomeIpSubscriber`: weak fairness of the steps of background tasks: the loop
  runs what is ready, sleeps end, `create_datagram_endpoint` returns or raises. No
  fairness for calls of the user, nor for UDP, which may lose everything.
* `TcpServer`: strong fairness of each thread and of `stop()`: a thread waits for
  the lock that others take over and over, and `threading.Lock` hands it on in
  practice. Weak fairness of the accept thread's end: its `accept()` has a timeout.
  Clients owe nothing: they may never send nor go.
* `TcpClient`: weak fairness of the reader and of the server's thread, strong
  fairness of `close()` for the buffer's lock. Handlers return.

## Proofs

TLAPS checks these for every value of the constants that satisfies the modules'
assumptions: `BusAssumption` (of the sets only that of the `Subscription` objects of a behaviour
is finite, as sums over them are defined then), `BreakerAssumption` and `EchoAssumption`
(what the policies' `__init__` accepts), `InterceptorsAssumption`, `PluginsAssumption`,
`ConfigAssumption`, `LifecycleAssumption`, `AllocatorAssumption`, `PublisherAssumption` (which asks for a topic, since a call that is
not in progress has to name one), `StackAssumption`, `SubscriberAssumption`, `ServerAssumption`,
`ClientAssumption`. Two theorems of `SomeIpSubscriberProofs` have a hypothesis of their own,
`OwnKeys`, see there. Each strengthened invariant was model-checked before it was proved.

* `InMemoryBusProofs`: `TypeCorrect`, `RegistryStaysExact`, `NothingLate`, for publishes
  of any number of tasks nested to any depth. `RegistryInv` says entry by entry what
  `RegistryExact` says with sets and lengths (live entries of the list's own topic, each
  once, every live subscription listed): this is what `unsubscribe`, which drops the
  entries with one id under one topic, needs to leave nothing behind.
  `DroppedLeavesOthers` is the lemma about that list. `NoLateDelivery` is not
  inductive: the next handler comes from a snapshot taken long before. `InFlightInv`
  adds that every frame of every stack began before any subscription it has still to
  call was removed (`Fits`), and that no message is newer than the last publish. A
  removal keeps this because it dates itself after all publishes begun; a new publish
  has it because its snapshot holds live subscriptions only (`RegistryInv`).
  `HandlerReturns`, `HandlerRaises` and `HandlerCancelled` share `AdvancePreserves` and
  `EndOfPublishPreserves`.

  `OrderIsKept` and `FanOutIsExact` rest on `FanOutInv`, on top of that invariant.
  `FramesInv`: what a frame has still to call is the rest of its message's snapshot
  (`Continues`), a message has a frame exactly while it has not ended, and only one.
  `NestedInv`: what a task published after a publish it still has in progress, it published
  from inside that. `CallsInv`: nobody is called twice with a message, and of a publish in
  progress exactly those before the place its loop has come to. A call keeps the order
  because a newer message of the task that the handler may have seen is, by `NestedInv`, one
  published from inside the message being delivered, which is what the property lets overtake.

  `ImplementsTopicBus` is the refinement of `PubSub`: with the mapping of `InMemoryBus`,
  the initial state is an initial state, and each action is a step of the abstract bus
  or a stutter. `Subscribe` is a `Join`, `Unsubscribe` and `ClearAllSubscriptions` a `Leave`,
  `Publish` a `Publish` that hands the message to the first of its snapshot, the end of a
  handler a `Deliver` to the next or, without one, a stutter, and a cancellation an `Abandon`. What
  the abstract bus owes is defined from the frames, so the theorem needs `FanOutInv`.

  `MetricsAlwaysAddUp`: `Adds` is the sum in `MetricsAddUp`, the other half follows from
  `RegistryInv`. A handler that ends is counted and, if there is a next one, called: in the sum one
  pending call less makes up for the count, or one call more does (`AdvanceCalls`). That a
  cancelled publish stays pending is what keeps a cancellation neutral. `SumFunction` is a fold,
  which picks its arguments in any order; `SumIsCells` shows by induction on the size of a
  subset that it counts the cells under a function, and from there sums are cardinalities:
  a function that gains one at a place gains one cell (`SumOneMore`), and `total_subscribers` are
  the places of the lists, which map one to one to the live subscriptions.
* `InvocationProofs`. Of the breaker, `TypeCorrect`, `FieldsAlwaysAgree`, `CoolDownIsServed`,
  `OpensExactlyOnStreak`. The invariant `BreakerInv` adds two facts to the checked
  invariants. `ClockSplit`, `elapsed + cooldown = RecoveryTimeout` while OPEN, is
  needed because `CoolDownServed` speaks of the history clock and the code tests
  the other one: without it a `HALF_OPEN` transition could come early.
  `CountIsStreak`, `failure_count = streak` while CLOSED, is needed because the count
  also grows while the circuit is OPEN and is cleared in two other places: that the
  clearing makes up for the growth is what the theorem is about. `BreakerStep` has a step per
  action; `OpeningPreserves` is shared by both ways to open.

  Of the policies around it, `EchoImplementsBreaker` (every step of the composition is a step
  of the breaker or none, so the four theorems above hold of it) and `OutcomesAreHonest`. The
  invariant `EchoInv` says what an attempt that is under way may still do: one that has not run
  its operation has an event less than attempts (`Counted`), one that waits to try again has an
  attempt left, and one that is publishing, or unwinds after it has published, has set the
  response (`Answered`). `OneInvoke` makes each step a matter of the invoke that takes it.

  Of the interceptors, `ChainStaysSorted`, `MetersStayExact`, `TracesStayFaithful`, from `ChainInv`.
  Its chain part is about `sort`: an interceptor put into a sorted list behind those of its
  priority leaves it sorted (`AddKeepsOrder`). `MetricsInv` and `StampsInv` are the checked
  properties with types: a call that enters or leaves changes the set counted by itself, and a
  call that raises does so with its context's error, which gives errors their durations.
  `TraceFaithful` is not inductive, since nothing in it says who is in `open`: `OpenExact` says that
  the calls under way inside the tracing interceptor are listed, once, with the `TracingContext`
  their span is of. Then a call that leaves as the last of its list gives the active span back to
  the one before, and one that does not makes the trace `mixed`.

  Of the plugins, `CacheIsBounded` and `AllAreReached`. `CacheInv` is the checked bound with
  types; the bound holds step by step because an entry is only added below the limit, in place of
  another one, or to an empty cache (`SetBounded`). `LoopOK` says of every loop in progress
  that, unless entries moved under it, each plugin registered up to its slot is out of the state it
  looks for or in `readied`; `SlotsOK` that no two plugins have one slot, which makes the next
  plugin the only one between two slots (`PastIs`). A plugin put in comes behind every
  loop's slot (`SlotTaken`), one taken out leaves the others where they are (`SlotLeft`), and
  a call of a plugin is noted by every loop around it (`ReadiedIs`). That entries moved together
  still have a slot each is a matter of counting (`RanksAreSlots`), for which
  `PluginsAssumption` has finitely many plugins.
* `RuntimeProofs`. Of the lifecycle, `TypeCorrect`, `IndexAlwaysAgrees`, `TerminateAllReallyEnds`. `IndexInv`
  says, id by id and in both directions, that the two dictionaries hold the same pairs
  of id and name, from which `find_by_name` finds what `list_services` lists. What
  `terminate_all` promises when it returns is a fact about services it met long before,
  and about frames deep in the stack while hooks run on top of it. `FrameOK` says it of a
  frame at a moment: what a loop listed is present or was taken out, and, for
  `terminate_all`, what it has dealt with is terminated. `LaterKeeps` shows that a later moment
  (hooks added, services removed or terminated, none revived) keeps it, so each action
  has to show only that it makes such a moment (`Later`) and that its own frame is right
  (`PopKeeps`, `PushKeeps`, `TopKeeps`).

  Of the configuration, `HighestSourceWins` and `AlwaysReloadable`, both inductive as they are,
  since what a load makes depends on its sources only. `MergedGiven` says what a merge gives for a
  field: the override's value if it has one, else the base's, provided the override has no leaf
  in place of the section; that the merge was accepted rules the leaf out (`LoadWins`).
  `RoundTrip` says that `from_dict` undoes `to_dict` and accepts what it wrote.
* `SomeIpPublisherProofs`: `PortsStayDistinct`. `GetServicePortSound` says what the
  allocator keeps (distinct ports below the counter, old ports unchanged, a new
  port at least the base asked for); the invariant adds that the bus's own ports
  are the allocator's, and one step per action that asks for a port uses the lemma.

  `TypeCorrect`, `ServicesAreKept`, `OutcomesAreExplained`. `NoServiceLost` speaks of open
  endpoints, and a caller in the middle of a bind holds one that the bus does not know
  yet. `CallsInv` says that each such caller has an endpoint of its own, open, not entered,
  of the service of its topic; `ObjsInv` that two open endpoints are never of one service,
  which is what the distinct ports give, since the second would fail to bind; and
  `AnnouncedInv` that, away from the races, an open endpoint was given the announcer the bus has
  now, none included; `RunningInv` that a started bus has a stack that was not stopped, and
  `ElsewhereInv` that what another bus has bound is an allocated port. The outcome of a message
  is then what its endpoint is at that moment, and a port that is taken is taken by another
  process, by another bus or by an open endpoint of this one for the same service, which
  can only be one that is being bound.
* `SomeIpSubscriberProofs`: `TypeCorrect`, and under `OwnKeys` `SocketsAreKept` and
  `DeliveredAtMostOnce`. `OwnKeys` (no two topics are mapped to one key) is how the bus is
  meant to be configured and a hypothesis, not an assumption of the module: topics that
  share a key replace each other's receiver (`eventbus/someip.py:291`), and both properties are
  false then. `TypeCorrect` and its strengthening `TypesInductive` do without it. Neither
  property is inductive: that a receiver is entered where there is none depends on tasks created seconds
  before. `StartsCalm` says that a topic with subscribers has one start task at most, `BoundCalm`
  that a topic that has a receiver has no start task but one that is new and behind a
  stop task, which closes that receiver before the start task gets to sleep; this is where the order in
  which the loop runs its tasks (`FirstAt`) enters the proof. `SocketsCalm` says that the open
  sockets are those entered in the present stack, so one receiver at most hears a notification
  (`OneHears`), and `DispatchCalm` that a notification then has one dispatch, whose handlers
  still to be called have not received it. All four are claimed only as long as `races` is
  empty, and each action either adds a race or keeps them.
* `TcpServerProofs`: `TypeCorrect`, `LockProtectsRegistry`. A removal is many steps, and
  the registry is wrong in the middle of it. `HolderInv` says that a thread is in the middle
  of a removal exactly if it holds the lock, and that what it has read (`keep`, the topics
  still `todo`) is what the registry has now. `RegistryInv` says that the lists are exact
  except for the topics the holder has not dealt with yet (`Pending`), and that an empty list is
  one the holder is about to drop. Once a send has failed (`unlocked`) neither holds, which
  the run `tcp_server_drop` shows.
* `TcpClientProofs`: `TypeCorrect`, `ServerAndClientAgree`, `HandlersCalledInBounds`. The
  two sides disagree while requests are on their way. `EntriesInv` says that there is a
  sequence `f` of what the server will list after each request it has not read yet
  (`Foresees`), at most one entry for a topic that was not shared, and that its last element
  agrees with the client's handlers of every topic that is not silenced: a request the client sends adds an element at the end, one
  the server reads takes the first off. `OncePublished` says that a message is in one place at
  a time (asked for, on its way, or with the reader), `SnapshotInv` that the reader's copy of a
  list has each handler once, and `HandlersInv` that a subscription is in one list, once.
* `ListsProofs`: `Without` is a recursive function of a list's prefixes, so what it returns
  has to be proved by induction. The library's induction theorems take an operator, which
  the provers here cannot instantiate; `SetInduction` derives, from the well-foundedness of `<`
  on numbers, that a set of numbers with 0 and each successor has them all, and `WithoutSound` applies
  it to the set of lengths up to which such a function exists. `RemovedIs` and the lemmas next to
  it say what is left of a list without repetitions, and in which order.

With that every invariant and every action property that a run expects to hold is a theorem.
Only model-checked is liveness, since TLAPS does not reach fairness and ENABLED: `ClosesWhenHealthy`,
`InvokeEnds`, `RecoversWhenHealthy`, `TopicGetsHeard`, `StopEndsAll` and `ReaderServes`.

## Findings

* `tcp_server_drop`: the unlocked `_remove_client` of a publish can write a dead
  connection back into a topic's list (`eventbus/tcp.py:131`, against `:130`).

Four other behaviours differ from what a comment, a docstring or a test says. They are
in the models and hazards, and the properties say what holds with them:

* Any number of trial calls, not `half_open_max_calls`, is in progress while HALF_OPEN
  (`policies/circuit_breaker.py:82`, against its `:23`). `CoolDownServed` and
  `ClosesWhenHealthy` hold all the same.
* Unsubscribing during the start delay leaves a receiver that is searched for and open
  as long as the bus runs (`eventbus/someip.py:558`, against `:534`): the race
  `unsubscribed early` of `NoSocketLost`.
* Only the eventgroup published first on a service can be published
  (`eventbus/someip.py:197`, against `:322`): publishing another one ends with
  `ValueError`, an outcome of the model that no property excludes.
* `close()` on an idle connection waits for the reader's `readline()`
  (`eventbus/tcp.py:181`, against `tests/integration/test_tcp_bus.py:51`): `CloseEnds`
  promises its return only once the server has gone.

Two behaviours no document contradicts are built in as well: on a TCP topic an
unsubscribe silences the client's other handlers, also one of a subscription given up
before (`ServerAgrees` and its `silenced`), and SOME/IP subscriptions do not survive a restart (`TopicGetsHeard` and
its `stops`).

## Not modelled

* Service and event API, event messages: decorators that attach metadata, and a
  dataclass with its JSON form; no state that outlives a call.
* In metrics, the buckets and sums of histograms, which are floats, the exporters,
  which print, and `get_service_metrics`, in whose result the figures of one method
  replace those of another (`obs/metrics.py:219`); in tracing, tags, events, export.
* In policies, the constant, linear and jittered delays, which only have other lengths.
* In the lifecycle, the validation of descriptors; signals
  (`examples/pubsub_multi/server.py:59` calls `stop()` from one).
* On TCP, the bytes of two senders interleaving on one socket, full socket buffers (the
  channels carry lines and are unbounded), malformed lines, acknowledgements.
* On SOME/IP, the length of delays (only their order), two topics with one key.
* In configuration, the parsing of json and yaml, fields checked like another one, and the
  free-form section `custom`.
* Logging anywhere.

## Plan

Every component with state that outlives a call has a module, and its safety properties are
proved. What is left is two topics with one SOME/IP key in `SomeIpSubscriber`: `Key` is a constant
of the module, but the properties speak of topics with keys of their own (`OwnKeys`), and what
the bus could promise for others is little: they replace each other's receiver.
