------------------------------- MODULE Lifecycle -------------------------------
(***************************************************************************)
(* runtime/lifecycle.py (LifecycleManager), runtime/container.py and the   *)
(* status of core/model.py's Service.                                      *)
(*                                                                         *)
(* All of it runs on one thread, but a hook is any code: it may raise, and *)
(* it may call the manager or the container again while the loops over     *)
(* services and hooks that called it are under way.  The calls in progress *)
(* are a stack.  A call that raises StateError before its first hook       *)
(* changes nothing, and whoever made it (the application, a hook that      *)
(* catches it, a loop over services) goes on: it is no step of its own.    *)
(* A hook may add hooks to the list that is being gone through.            *)
(***************************************************************************)
EXTENDS Naturals, FiniteSets, SequencesExt

CONSTANTS Services,    \* service objects, records with an id and a name
          MaxHooks,    \* bound: hooks in each of the three lists
          MaxDepth     \* bound: calls in progress

ASSUME LifecycleAssumption == MaxHooks \in [{"start", "stop", "terminate"} -> Nat] /\ MaxDepth \in Nat

VARIABLES
    status,        \* of each service object
    services,      \* Container._services: id -> service
    name_index,    \* Container._name_index: name -> ids
    hooks,         \* how many there are in _on_start_hooks, _on_stop_hooks, _on_terminate_hooks
    stack,         \* calls in progress, the innermost last
    \* History, read by no action:
    removed        \* service objects that have been taken out of the container

container == <<services, name_index, removed>>
vars == <<status, container, hooks, stack>>

Statuses == {"INIT", "REGISTERED", "RUNNING", "STOPPED", "TERMINATED"}
Ops == {"start", "stop", "terminate"}

\* A service is INIT when it is made, and of any status when from_dict() restores it.
Init ==
    /\ status \in [Services -> Statuses]
    /\ services = <<>> /\ name_index = <<>>
    /\ hooks = [op \in Ops |-> 0]
    /\ stack = <<>> /\ removed = {}

-------------------------------------------------------------------------------
(* core/model.py: the transitions, as far as a call of the manager takes them *)

\* _ALLOWED_TRANSITIONS
Allowed == [INIT |-> {"REGISTERED"}, REGISTERED |-> {"RUNNING", "TERMINATED"},
            RUNNING |-> {"STOPPED", "TERMINATED"}, STOPPED |-> {"RUNNING", "TERMINATED"},
            TERMINATED |-> {}]

Target == [start |-> "RUNNING", stop |-> "STOPPED", terminate |-> "TERMINATED"]

\* start() is entered by way of register() if need be, and so is terminate().
Entered(op, s) == IF status[s] = "INIT" /\ op # "stop" THEN "REGISTERED" ELSE status[s]

\* Of a service that is TERMINATED already, terminate() returns, and the hooks run again.
Can(op, s) ==
    \/ Target[op] \in Allowed[Entered(op, s)]
    \/ op = "terminate" /\ status[s] = "TERMINATED"
Does(op, s) == Can(op, s) /\ status' = [status EXCEPT ![s] = Target[op]]

\* A call for one service is in a hook, the hook-th of its list; one for all has services left.
One(op) == [op |-> op, all |-> FALSE, hook |-> 1, left |-> {}, listed |-> {}]
All(op, ss) == [op |-> op, all |-> TRUE, hook |-> 0, left |-> ss, listed |-> ss]

Top == stack[Len(stack)]
InHook == stack # <<>> /\ ~Top.all

\* The application, or the hook that is running, may make a call.
Idle == stack = <<>> \/ InHook

\* A call is over at once if there is no hook to run.
Runs(frames, op) == stack' = IF hooks[op] = 0 THEN frames ELSE Append(frames, One(op))
-------------------------------------------------------------------------------
(* Calls: of the container, of the manager *)

\* The lookups.
FindByName(n) == {services[i] : i \in IF n \in DOMAIN name_index THEN name_index[n] ELSE {}}
ListServices == Range(services)
RunningServices == {s \in ListServices : status[s] = "RUNNING"}

Indexed(key, value) ==
    [n \in DOMAIN name_index \union {key} |->
        (IF n \in DOMAIN name_index THEN name_index[n] ELSE {})
            \union (IF n = key THEN {value} ELSE {})]

\* Mutant: the index leads from ids to names.
AddServiceSwapped(s) ==
    /\ Idle
    /\ s.id \notin DOMAIN services
    /\ services' = [i \in DOMAIN services \union {s.id} |-> IF i = s.id THEN s ELSE services[i]]
    /\ name_index' = Indexed(s.id, s.name)
    /\ UNCHANGED <<status, hooks, stack, removed>>

AddService(s) ==
    /\ Idle
    /\ s.id \notin DOMAIN services
    /\ services' = [i \in DOMAIN services \union {s.id} |-> IF i = s.id THEN s ELSE services[i]]
    /\ name_index' = Indexed(s.name, s.id)
    /\ UNCHANGED <<status, hooks, stack, removed>>

\* Mutant: the index keeps the id.
RemoveKeepsIndex(i) ==
    /\ Idle /\ i \in DOMAIN services
    /\ services' = Restrict(services, DOMAIN services \ {i})
    /\ removed' = removed \union {services[i]}
    /\ UNCHANGED <<status, name_index, hooks, stack>>

\* A name that has no service left keeps its empty set.
RemoveService(i) ==
    /\ Idle /\ i \in DOMAIN services
    /\ services' = Restrict(services, DOMAIN services \ {i})
    /\ name_index' = [name_index EXCEPT ![services[i].name] = @ \ {i}]
    /\ removed' = removed \union {services[i]}
    /\ UNCHANGED <<status, hooks, stack>>

Clear ==
    /\ Idle
    /\ services' = <<>> /\ name_index' = <<>>
    /\ removed' = removed \union Range(services)
    /\ UNCHANGED <<status, hooks, stack>>

\* Service.register(), called by the application.
Register(s) ==
    /\ Idle /\ status[s] = "INIT"
    /\ status' = [status EXCEPT ![s] = "REGISTERED"]
    /\ UNCHANGED <<container, hooks, stack>>

\* Service.start(), stop() and terminate() likewise, without any hook.
Direct(op, s) ==
    /\ Idle
    /\ op = "start" => status[s] # "INIT"
    /\ Does(op, s)
    /\ UNCHANGED <<container, hooks, stack>>

AddHook(op) ==
    /\ Idle /\ hooks[op] < MaxHooks[op]
    /\ hooks' = [hooks EXCEPT ![op] = @ + 1]
    /\ UNCHANGED <<status, container, stack>>

\* start_service, stop_service, terminate_service up to the first hook.
CallOne(op, i) ==
    /\ Idle /\ Len(stack) < MaxDepth
    /\ i \in DOMAIN services
    /\ Does(op, services[i])
    /\ Runs(stack, op)
    /\ UNCHANGED <<container, hooks>>

\* start_all, stop_all, terminate_all: the list is made.
CallAll(op) ==
    /\ Idle /\ Len(stack) < MaxDepth
    /\ stack' = Append(stack, All(op, IF op = "stop" THEN RunningServices ELSE ListServices))
    /\ UNCHANGED <<status, container, hooks>>

-------------------------------------------------------------------------------
(* The loops *)

\* The list of hooks is live: one that was added meanwhile is called too.
HookReturns ==
    /\ InHook
    /\ stack' = IF Top.hook = hooks[Top.op] THEN Front(stack)
                ELSE [stack EXCEPT ![Len(stack)].hook = @ + 1]
    /\ UNCHANGED <<status, container, hooks>>

\* The loop over services that made the call catches StateError and nothing else.  A
\* hook that made it catches what it likes: it may raise in its turn.
Unwind(error) ==
    LET caller == Front(stack) IN
    IF error # "StateError" /\ caller # <<>> /\ caller[Len(caller)].all
       THEN Front(caller) ELSE caller

HookRaises(error) ==
    /\ InHook
    /\ stack' = Unwind(error)
    /\ UNCHANGED <<status, container, hooks>>

\* The loops of start_all and terminate_all test the status, that of stop_all does not.
Skips(op, s) ==
    \/ op = "start" /\ ~Can(op, s)
    \/ op = "terminate" /\ status[s] = "TERMINATED"

Current(s) == services[s.id]
Callable(op, s) == s.id \in DOMAIN services /\ Can(op, Current(s))

\* Mutant: a service that cannot be dealt with ends the loop.
NextSkipsAll(s) ==
    /\ stack # <<>> /\ Top.all /\ s \in Top.left
    /\ Skips(Top.op, s) \/ ~Callable(Top.op, s)
    /\ stack' = [stack EXCEPT ![Len(stack)].left = {}]
    /\ UNCHANGED <<status, container, hooks>>

\* The next service is passed over, or its call raises StateError.
NextSkips(s) ==
    /\ stack # <<>> /\ Top.all /\ s \in Top.left
    /\ Skips(Top.op, s) \/ ~Callable(Top.op, s)
    /\ stack' = [stack EXCEPT ![Len(stack)].left = @ \ {s}]
    /\ UNCHANGED <<status, container, hooks>>

\* Its id is looked up again: a hook may have put another object there.
NextCalls(s) ==
    /\ stack # <<>> /\ Top.all /\ s \in Top.left
    /\ ~Skips(Top.op, s) /\ Callable(Top.op, s)
    /\ Does(Top.op, Current(s))
    /\ Runs([stack EXCEPT ![Len(stack)].left = @ \ {s}], Top.op)
    /\ UNCHANGED <<container, hooks>>

AllReturns ==
    /\ stack # <<>> /\ Top.all /\ Top.left = {}
    /\ stack' = Front(stack)
    /\ UNCHANGED <<status, container, hooks>>

-------------------------------------------------------------------------------
(* Health, which is asked for and changes nothing *)

DefaultHealthChecker(s) ==
    CASE status[s] = "RUNNING" -> "HEALTHY"
      [] status[s] \in {"STOPPED", "TERMINATED"} -> "UNHEALTHY"
      [] OTHER -> "UNKNOWN"

CheckHealth(i) == IF i \in DOMAIN services THEN DefaultHealthChecker(services[i]) ELSE "UNKNOWN"
CheckAllHealth == [i \in DOMAIN services |-> CheckHealth(i)]

-------------------------------------------------------------------------------
Next ==
    \/ \E s \in Services : AddService(s) \/ Register(s)
    \/ \E i \in DOMAIN services : RemoveService(i)
    \/ Clear
    \/ \E op \in Ops, i \in DOMAIN services : CallOne(op, i)
    \/ \E op \in Ops, s \in Services : Direct(op, s)
    \/ \E op \in Ops : AddHook(op) \/ CallAll(op)
    \/ HookReturns
    \/ \E error \in {"StateError", "other"} : HookRaises(error)
    \/ \E s \in Services : NextSkips(s) \/ NextCalls(s)
    \/ AllReturns

Spec == Init /\ [][Next]_vars
-------------------------------------------------------------------------------
Frame == [op : Ops, all : BOOLEAN, hook : Nat, left : SUBSET Services, listed : SUBSET Services]

\* The types of the services' status, of the container and of the calls in progress.
TypeOK ==
    /\ status \in [Services -> Statuses]
    /\ \A i \in DOMAIN services : services[i] \in Services /\ services[i].id = i
    /\ \A n \in DOMAIN name_index : name_index[n] \subseteq {s.id : s \in Services}
    /\ hooks \in [Ops -> Nat] /\ \A op \in Ops : hooks[op] <= MaxHooks[op]
    /\ stack \in Seq(Frame) /\ Len(stack) <= MaxDepth + 1
    /\ \A k \in DOMAIN stack :
          /\ stack[k].left \subseteq stack[k].listed
          /\ stack[k].hook \in (IF stack[k].all THEN {0} ELSE 1..hooks[stack[k].op])
    /\ removed \subseteq Services

\* find_by_name never fails, and returns exactly the services of that name that
\* list_services returns: the two dictionaries of the container agree.
IndexAgrees ==
    \A n \in {s.name : s \in Services} :
        /\ n \in DOMAIN name_index => name_index[n] \subseteq DOMAIN services
        /\ FindByName(n) = {s \in ListServices : s.name = n}

\* When terminate_all returns, every service it found that has not been taken out of the
\* container meanwhile is terminated, whatever its hooks did and whichever of them raised
\* StateError, and check_all_health reports it as unhealthy.
TerminateAllEnds ==
    [][AllReturns /\ Top.op = "terminate"
          => \A s \in Top.listed \ removed :
                status[s] = "TERMINATED" /\ CheckAllHealth[s.id] = "UNHEALTHY"]_vars
===============================================================================
