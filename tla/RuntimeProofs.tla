----------------------------- MODULE RuntimeProofs -----------------------------
(***************************************************************************)
(* What an application starts from.  The safety of container and lifecycle *)
(* manager, for every set of services, every number of hooks and calls     *)
(* nested to any depth; and of the configuration, for all files,           *)
(* environments and overrides.                                             *)
(*                                                                         *)
(* What the calls in progress may rely on is said of a stack of frames and *)
(* a moment, a record of the rest of the state: a later moment keeps it.   *)
(***************************************************************************)
EXTENDS Lifecycle, Configuration, SequenceTheorems, TLAPS

Terminated == {s \in Services : status[s] = "TERMINATED"}
Now == [hooks |-> hooks, removed |-> removed, present |-> ListServices, terminated |-> Terminated]

\* The k-th call in progress at moment m.  What a loop has listed is present or was taken
\* out, and what terminate_all has dealt with is terminated.
FrameOK(f, k, m) ==
    /\ f \in Frame
    /\ f.left \subseteq f.listed
    /\ f.hook \in (IF f.all THEN {0} ELSE 1..m.hooks[f.op])
    /\ f.all => k <= MaxDepth
    /\ f.listed \ m.removed \subseteq m.present
    /\ f.op = "terminate" => f.listed \ m.removed \subseteq f.left \union m.terminated

StackOK(st, m) ==
    /\ st \in Seq(Frame) /\ Len(st) <= MaxDepth + 1
    /\ \A k \in 1..Len(st) : FrameOK(st[k], k, m)

\* Hooks are added only, nothing disappears but what is noted as removed, and a service
\* that is terminated stays so.
Later(m, n) ==
    /\ m.hooks \in [Ops -> Nat] /\ n.hooks \in [Ops -> Nat]
    /\ \A op \in Ops : m.hooks[op] <= n.hooks[op]
    /\ m.removed \subseteq n.removed
    /\ m.present \subseteq n.present \union n.removed
    /\ m.terminated \subseteq n.terminated

\* Both dictionaries hold the same pairs of id and name.
IndexInv ==
    /\ \A i \in DOMAIN services :
          services[i].name \in DOMAIN name_index /\ i \in name_index[services[i].name]
    /\ \A n \in DOMAIN name_index : \A i \in name_index[n] :
          i \in DOMAIN services /\ services[i].name = n

\* The types of everything but the stack.
StateOK ==
    /\ status \in [Services -> Statuses]
    /\ \A i \in DOMAIN services : services[i] \in Services /\ services[i].id = i
    /\ \A n \in DOMAIN name_index : name_index[n] \subseteq {s.id : s \in Services}
    /\ hooks \in [Ops -> Nat] /\ \A op \in Ops : hooks[op] <= MaxHooks[op]
    /\ removed \subseteq Services

IInv == StateOK /\ IndexInv /\ StackOK(stack, Now)

-------------------------------------------------------------------------------
(* Stacks: what is kept later, after a return, a call and a step of a loop *)

\* What is right of the calls in progress is right at a later moment.
LEMMA LaterKeeps ==
    ASSUME NEW st, NEW m, NEW n, StackOK(st, m), Later(m, n)
    PROVE  StackOK(st, n)
<1> SUFFICES ASSUME NEW k \in 1..Len(st) PROVE FrameOK(st[k], k, n)
  BY DEF StackOK
<1>1. FrameOK(st[k], k, m) /\ st[k] \in Frame
  BY DEF StackOK, FrameOK
<1>2. st[k].op \in Ops
  BY <1>1 DEF Frame
<1>3. st[k].hook \in (IF st[k].all THEN {0} ELSE 1..n.hooks[st[k].op])
  BY <1>1, <1>2 DEF FrameOK, Later, Frame
<1>4. QED
  BY <1>1, <1>3 DEF FrameOK, Later

\* A call has returned.
LEMMA PopKeeps ==
    ASSUME NEW st, NEW m, StackOK(st, m), st # <<>>
    PROVE  StackOK(Front(st), m)
<1>1. st \in Seq(Frame) /\ Len(st) \in Nat \ {0}
  BY DEF StackOK
<1> DEFINE n == Len(st) - 1
<1>2. /\ SubSeq(st, 1, n) \in Seq(Frame) /\ Len(SubSeq(st, 1, n)) = n
      /\ \A k \in 1..n : SubSeq(st, 1, n)[k] = st[k]
  <2>1. n \in 0..Len(st)
    BY <1>1
  <2> HIDE DEF n
  <2>2. QED
    BY <1>1, <2>1
<1>3. /\ Front(st) \in Seq(Frame) /\ Len(Front(st)) = Len(st) - 1
      /\ \A k \in 1..(Len(st) - 1) : Front(st)[k] = st[k]
  BY <1>2 DEF Front
<1>4. QED
  BY <1>1, <1>3, LifecycleAssumption DEF StackOK

\* A call more.
LEMMA PushKeeps ==
    ASSUME NEW st, NEW m, StackOK(st, m), Len(st) <= MaxDepth,
           NEW f, FrameOK(f, Len(st) + 1, m)
    PROVE  StackOK(Append(st, f), m)
<1>1. st \in Seq(Frame) /\ f \in Frame
  BY DEF StackOK, FrameOK
<1>2. Append(st, f) \in Seq(Frame) /\ Len(Append(st, f)) = Len(st) + 1
  BY <1>1
<1>3. \A k \in 1..Len(st) : Append(st, f)[k] = st[k]
  BY <1>1
<1>4. Append(st, f)[Len(st) + 1] = f
  BY <1>1
<1>5. ASSUME NEW k \in 1..(Len(st) + 1) PROVE FrameOK(Append(st, f)[k], k, m)
  BY <1>1, <1>3, <1>4 DEF StackOK
<1>6. QED
  BY <1>1, <1>2, <1>5, LifecycleAssumption DEF StackOK

\* A step of the innermost call.
LEMMA TopKeeps ==
    ASSUME NEW st, NEW m, StackOK(st, m), st # <<>>,
           NEW f, FrameOK(f, Len(st), m)
    PROVE  StackOK([st EXCEPT ![Len(st)] = f], m)
<1>1. st \in Seq(Frame) /\ f \in Frame /\ Len(st) \in Nat \ {0}
  BY DEF StackOK, FrameOK
<1> DEFINE new == [st EXCEPT ![Len(st)] = f]
<1>2. new \in Seq(Frame) /\ Len(new) = Len(st)
  BY <1>1
<1>3. \A k \in 1..Len(st) : new[k] = IF k = Len(st) THEN f ELSE st[k]
  BY <1>1
<1>4. QED
  BY <1>1, <1>2, <1>3 DEF StackOK

-------------------------------------------------------------------------------
(* The calls a step makes *)

\* The status of one service goes where its table allows, and a terminated one nowhere.
LEMMA DoesKeeps ==
    ASSUME StateOK, NEW op \in Ops, NEW s \in Services, Does(op, s)
    PROVE  /\ status' \in [Services -> Statuses]
           /\ Terminated \subseteq Terminated'
           /\ status'[s] = Target[op]
<1> USE DEF StateOK, Ops, Statuses
<1>1. Target[op] \in Statuses
  BY DEF Target
<1>2. status' = [status EXCEPT ![s] = Target[op]]
  BY DEF Does
<1>3. status[s] = "TERMINATED" => Target[op] = "TERMINATED"
  BY DEF Does, Can, Entered, Allowed, Target
<1>4. QED
  BY <1>1, <1>2, <1>3 DEF Terminated

\* What changes neither the container nor the hooks, and no terminated service, is later.
LEMMA StatusIsLater ==
    ASSUME StateOK, Terminated \subseteq Terminated', UNCHANGED <<container, hooks>>
    PROVE  Later(Now, Now')
  BY DEF StateOK, Later, Now, container, ListServices

\* A call for one service, with its hooks if it has any.
LEMMA OneIsOK ==
    ASSUME NEW m, m.hooks \in [Ops -> Nat], NEW op \in Ops, m.hooks[op] # 0, NEW k
    PROVE  FrameOK(One(op), k, m)
<1>1. One(op) \in Frame
  BY DEF One, Frame
<1>2. 1 \in 1..m.hooks[op]
  OBVIOUS
<1>3. QED
  BY <1>1, <1>2 DEF FrameOK, One

\* A call is in the first of its hooks, or over at once without one.
LEMMA RunsKeeps ==
    ASSUME NEW st, NEW op \in Ops, hooks \in [Ops -> Nat], hooks' = hooks,
           StackOK(st, Now'), Len(st) <= MaxDepth, Runs(st, op)
    PROVE  StackOK(stack', Now')
<1>1. CASE hooks[op] = 0
  BY <1>1 DEF Runs
<1>2. CASE hooks[op] # 0
  <2>1. Now'.hooks = hooks
    BY DEF Now
  <2>2. FrameOK(One(op), Len(st) + 1, Now')
    BY <1>2, <2>1, OneIsOK
  <2>3. QED
    BY <1>2, <2>2, PushKeeps DEF Runs
<1>3. QED
  BY <1>1, <1>2

\* A list of services that are present.
LEMMA AllIsOK ==
    ASSUME NEW op \in Ops, NEW ss \in SUBSET Services, NEW m, ss \subseteq m.present,
           NEW k \in Nat, k <= MaxDepth
    PROVE  FrameOK(All(op, ss), k, m)
<1>1. All(op, ss) \in Frame
  BY DEF All, Frame
<1>2. QED
  BY <1>1 DEF FrameOK, All

\* The loop goes on after s, which was taken out or need not be dealt with any more.
LEMMA PassedIsOK ==
    ASSUME NEW f, NEW k, NEW m, FrameOK(f, k, m), NEW s,
           f.op = "terminate" => s \in m.removed \union m.terminated
    PROVE  FrameOK([f EXCEPT !.left = @ \ {s}], k, m)
<1> DEFINE g == [f EXCEPT !.left = @ \ {s}]
<1>1. g \in Frame /\ g.op = f.op /\ g.all = f.all /\ g.hook = f.hook
      /\ g.left = f.left \ {s} /\ g.listed = f.listed
  BY DEF FrameOK, Frame
<1>2. QED
  BY <1>1 DEF FrameOK

-------------------------------------------------------------------------------
\* The container is empty and nothing is called.
LEMMA InitEstablishes == Init => IInv
<1> SUFFICES ASSUME Init PROVE IInv
  OBVIOUS
<1>1. StateOK /\ IndexInv
  BY LifecycleAssumption DEF Init, StateOK, IndexInv, Ops
<1>2. StackOK(stack, Now)
  BY LifecycleAssumption DEF Init, StackOK
<1>3. QED
  BY <1>1, <1>2 DEF IInv

\* The stack stays, the rest goes on.
LEMMA StackStays ==
    ASSUME IInv, UNCHANGED stack, Later(Now, Now')
    PROVE  StackOK(stack', Now')
  BY LaterKeeps DEF IInv

\* A service added is entered in both dictionaries.
LEMMA AddServicePreserves == ASSUME IInv, NEW s \in Services, AddService(s) PROVE IInv'
<1> USE DEF IInv, StateOK
<1>1. /\ services' = [i \in DOMAIN services \union {s.id} |-> IF i = s.id THEN s ELSE services[i]]
      /\ name_index' = Indexed(s.name, s.id)
      /\ s.id \notin DOMAIN services
      /\ UNCHANGED <<status, hooks, stack, removed>>
  BY DEF AddService
<1>2. \A i \in DOMAIN services' : services'[i] \in Services /\ services'[i].id = i
  BY <1>1
<1>3. /\ DOMAIN name_index' = DOMAIN name_index \union {s.name}
      /\ \A n \in DOMAIN name_index' :
            name_index'[n] = (IF n \in DOMAIN name_index THEN name_index[n] ELSE {})
                                \union (IF n = s.name THEN {s.id} ELSE {})
  BY <1>1 DEF Indexed
<1>4. \A n \in DOMAIN name_index' : name_index'[n] \subseteq {x.id : x \in Services}
  BY <1>3
<1>5. IndexInv'
  BY <1>1, <1>2, <1>3 DEF IndexInv
<1>6. ListServices \subseteq ListServices'
  BY <1>1 DEF ListServices, Range
<1>7. Later(Now, Now')
  BY <1>1, <1>6 DEF Later, Now, Terminated
<1>8. QED
  BY <1>1, <1>2, <1>4, <1>5, <1>7, StackStays

\* A service removed leaves both dictionaries and is noted as removed.
LEMMA RemoveServicePreserves ==
    ASSUME IInv, NEW i \in DOMAIN services, RemoveService(i) PROVE IInv'
<1> USE DEF IInv, StateOK
<1>1. /\ services' = [j \in DOMAIN services \ {i} |-> services[j]]
      /\ name_index' = [name_index EXCEPT ![services[i].name] = @ \ {i}]
      /\ removed' = removed \union {services[i]}
      /\ UNCHANGED <<status, hooks, stack>>
  BY DEF RemoveService, Restrict
<1>2. \A j \in DOMAIN services' : services'[j] \in Services /\ services'[j].id = j
  BY <1>1
<1>3. /\ DOMAIN name_index' = DOMAIN name_index
      /\ \A n \in DOMAIN name_index :
            name_index'[n] = IF n = services[i].name THEN name_index[n] \ {i} ELSE name_index[n]
  BY <1>1
<1>4. \A n \in DOMAIN name_index' : name_index'[n] \subseteq {x.id : x \in Services}
  BY <1>3
<1>5. IndexInv'
  BY <1>1, <1>3 DEF IndexInv
<1>6. ListServices \subseteq ListServices' \union removed'
  BY <1>1 DEF ListServices, Range
<1>7. Later(Now, Now')
  BY <1>1, <1>6 DEF Later, Now, Terminated
<1>8. QED
  BY <1>1, <1>2, <1>4, <1>5, <1>7, StackStays

\* Everything leaves both dictionaries.
LEMMA ClearPreserves == ASSUME IInv, Clear PROVE IInv'
<1> USE DEF IInv, StateOK
<1>1. /\ services' = <<>> /\ name_index' = <<>>
      /\ removed' = removed \union Range(services)
      /\ UNCHANGED <<status, hooks, stack>>
  BY DEF Clear
<1>2. Range(services) \subseteq Services
  BY DEF Range
<1>3. Later(Now, Now')
  BY <1>1, <1>2 DEF Later, Now, Terminated, ListServices
<1>4. IndexInv'
  BY <1>1 DEF IndexInv
<1>5. QED
  BY <1>1, <1>2, <1>3, <1>4, StackStays

\* The calls that change the status of one service and nothing else.
LEMMA RegisterPreserves == ASSUME IInv, NEW s \in Services, Register(s) PROVE IInv'
<1> USE DEF IInv, StateOK
<1>1. /\ status[s] = "INIT" /\ status' = [status EXCEPT ![s] = "REGISTERED"]
      /\ UNCHANGED <<container, hooks, stack>>
  BY DEF Register
<1>2. status' \in [Services -> Statuses] /\ Terminated \subseteq Terminated'
  BY <1>1 DEF Terminated, Statuses
<1>3. QED
  BY <1>1, <1>2, StatusIsLater, StackStays DEF container, IndexInv

\* A transition without hooks: nothing terminated is revived.
LEMMA DirectPreserves ==
    ASSUME IInv, NEW op \in Ops, NEW s \in Services, Direct(op, s) PROVE IInv'
<1>1. Does(op, s) /\ UNCHANGED <<container, hooks, stack>>
  BY DEF Direct
<1>2. status' \in [Services -> Statuses] /\ Terminated \subseteq Terminated'
  BY <1>1, DoesKeeps DEF IInv
<1>3. QED
  BY <1>1, <1>2, StatusIsLater, StackStays DEF IInv, StateOK, container, IndexInv

\* A hook more changes nothing for the calls in progress.
LEMMA AddHookPreserves == ASSUME IInv, NEW op \in Ops, AddHook(op) PROVE IInv'
<1> USE DEF IInv, StateOK
<1>1. /\ hooks[op] < MaxHooks[op] /\ hooks' = [hooks EXCEPT ![op] = @ + 1]
      /\ UNCHANGED <<status, container, stack>>
  BY DEF AddHook
<1>2. hooks' \in [Ops -> Nat] /\ \A o \in Ops : hooks[o] <= hooks'[o]
  BY <1>1
<1>3. MaxHooks \in [Ops -> Nat]
  BY LifecycleAssumption DEF Ops
<1>4. ASSUME NEW o \in Ops PROVE hooks'[o] <= MaxHooks[o]
  <2>1. hooks[o] \in Nat /\ MaxHooks[o] \in Nat /\ hooks[o] <= MaxHooks[o]
    BY <1>3
  <2>2. hooks'[o] = IF o = op THEN hooks[o] + 1 ELSE hooks[o]
    BY <1>1
  <2>3. o = op => hooks[o] < MaxHooks[o]
    BY <1>1
  <2>4. QED
    BY <2>1, <2>2, <2>3
<1>5. Later(Now, Now')
  BY <1>1, <1>2 DEF Later, Now, Terminated, ListServices, container
<1>6. QED
  BY <1>1, <1>2, <1>4, <1>5, StackStays DEF container, IndexInv

-------------------------------------------------------------------------------
\* The manager is called for one service.
LEMMA CallOnePreserves ==
    ASSUME IInv, NEW op \in Ops, NEW i \in DOMAIN services, CallOne(op, i) PROVE IInv'
<1>1. /\ Len(stack) < MaxDepth /\ Does(op, services[i]) /\ Runs(stack, op)
      /\ UNCHANGED <<container, hooks>>
  BY DEF CallOne
<1>2. services[i] \in Services
  BY DEF IInv, StateOK
<1>3. status' \in [Services -> Statuses] /\ Terminated \subseteq Terminated'
  BY <1>1, <1>2, DoesKeeps DEF IInv
<1>4. StackOK(stack, Now')
  BY <1>1, <1>3, StatusIsLater, LaterKeeps DEF IInv
<1>5. Len(stack) <= MaxDepth /\ hooks \in [Ops -> Nat]
  BY <1>1, LifecycleAssumption DEF IInv, StackOK, StateOK
<1>6. StackOK(stack', Now')
  BY <1>1, <1>4, <1>5, RunsKeeps
<1>7. QED
  BY <1>1, <1>3, <1>6 DEF IInv, StateOK, container, IndexInv

\* The manager is called for all that is present.
LEMMA CallAllPreserves == ASSUME IInv, NEW op \in Ops, CallAll(op) PROVE IInv'
<1> DEFINE ss == IF op = "stop" THEN RunningServices ELSE ListServices
<1>1. /\ Len(stack) < MaxDepth /\ stack' = Append(stack, All(op, ss))
      /\ UNCHANGED <<status, container, hooks>>
  BY DEF CallAll
<1>2. ss \in SUBSET Services /\ ss \subseteq Now.present
  BY DEF IInv, StateOK, Now, ListServices, RunningServices, Range
<1>3. Len(stack) \in Nat
  BY DEF IInv, StackOK
<1>4. FrameOK(All(op, ss), Len(stack) + 1, Now)
  <2> HIDE DEF ss
  <2>1. QED
    BY <1>1, <1>2, <1>3, AllIsOK, LifecycleAssumption
<1>5. StackOK(stack', Now)
  BY <1>1, <1>3, <1>4, PushKeeps, LifecycleAssumption DEF IInv
<1>6. Now' = Now
  BY <1>1 DEF Now, container, ListServices, Terminated
<1>7. QED
  BY <1>1, <1>5, <1>6 DEF IInv, StateOK, container, IndexInv

\* The steps in which calls return, or a hook raises.
LEMMA StackMoves ==
    ASSUME IInv, UNCHANGED <<status, container, hooks>>, StackOK(stack', Now)
    PROVE  IInv'
<1>1. Now' = Now
  BY DEF Now, container, ListServices, Terminated
<1>2. QED
  BY <1>1 DEF IInv, StateOK, container, IndexInv

\* The next hook is called, or the call returns.
LEMMA HookReturnsPreserves == ASSUME IInv, HookReturns PROVE IInv'
<1> DEFINE top == stack[Len(stack)]
           more == [top EXCEPT !.hook = @ + 1]
<1>1. /\ stack # <<>> /\ ~top.all
      /\ stack' = IF top.hook = hooks[top.op] THEN Front(stack)
                  ELSE [stack EXCEPT ![Len(stack)] = more]
      /\ UNCHANGED <<status, container, hooks>>
  BY DEF HookReturns, InHook, Top
<1>2. StackOK(stack, Now)
  BY DEF IInv
<1>3. FrameOK(top, Len(stack), Now)
  BY <1>1, <1>2 DEF StackOK
<1>4. CASE top.hook = hooks[top.op]
  BY <1>1, <1>2, <1>4, PopKeeps, StackMoves
<1>5. CASE top.hook # hooks[top.op]
  <2>1. /\ more \in Frame /\ more.op = top.op /\ more.all = top.all
        /\ more.hook = top.hook + 1 /\ more.left = top.left /\ more.listed = top.listed
    BY <1>3 DEF FrameOK, Frame
  <2>2. top.hook \in 1..hooks[top.op] /\ hooks[top.op] \in Nat
    BY <1>1, <1>3 DEF FrameOK, Now, Frame, IInv, StateOK
  <2>3. more.hook \in 1..hooks[top.op]
    BY <1>5, <2>1, <2>2
  <2>4. FrameOK(more, Len(stack), Now)
    BY <1>1, <1>3, <2>1, <2>3 DEF FrameOK, Now
  <2>5. QED
    BY <1>1, <1>2, <1>5, <2>4, TopKeeps, StackMoves
<1>6. QED
  BY <1>4, <1>5

\* The exception ends this call; a loop below goes on or not.
LEMMA HookRaisesPreserves == ASSUME IInv, NEW error, HookRaises(error) PROVE IInv'
<1>1. stack # <<>> /\ stack' = Unwind(error) /\ UNCHANGED <<status, container, hooks>>
  BY DEF HookRaises, InHook
<1>2. StackOK(Front(stack), Now)
  BY <1>1, PopKeeps DEF IInv
<1>3. Front(stack) # <<>> => StackOK(Front(Front(stack)), Now)
  BY <1>2, PopKeeps
<1>4. StackOK(stack', Now)
  BY <1>1, <1>2, <1>3 DEF Unwind
<1>5. QED
  BY <1>1, <1>4, StackMoves

\* A loop that has nothing left returns.
LEMMA AllReturnsPreserves == ASSUME IInv, AllReturns PROVE IInv'
<1>1. stack # <<>> /\ stack' = Front(stack) /\ UNCHANGED <<status, container, hooks>>
  BY DEF AllReturns
<1>2. QED
  BY <1>1, PopKeeps, StackMoves DEF IInv

\* The service a loop has come to: present under its id, unless it was taken out.
LEMMA NextIsPresent ==
    ASSUME IInv, stack # <<>>, NEW s \in Top.left, s \notin removed
    PROVE  s.id \in DOMAIN services /\ services[s.id] = s
<1>1. FrameOK(Top, Len(stack), Now)
  BY DEF IInv, StackOK, Top
<1>2. s \in Range(services)
  BY <1>1 DEF FrameOK, Now, ListServices
<1>3. QED
  BY <1>2 DEF Range, IInv, StateOK

\* Any service can be terminated.
LEMMA TerminateCan == ASSUME NEW s, status[s] \in Statuses PROVE Can("terminate", s)
  BY DEF Can, Target, Allowed, Entered, Statuses

\* A loop passes over a service that is terminated already or refuses.
LEMMA NextSkipsPreserves == ASSUME IInv, NEW s \in Services, NextSkips(s) PROVE IInv'
<1> DEFINE f == [Top EXCEPT !.left = @ \ {s}]
<1>1. /\ stack # <<>> /\ s \in Top.left
      /\ Skips(Top.op, s) \/ ~Callable(Top.op, s)
      /\ stack' = [stack EXCEPT ![Len(stack)] = f]
      /\ UNCHANGED <<status, container, hooks>>
  BY DEF NextSkips, Top
<1>2. FrameOK(Top, Len(stack), Now)
  BY <1>1 DEF IInv, StackOK, Top
<1>3. ASSUME Top.op = "terminate", s \notin removed PROVE status[s] = "TERMINATED"
  <2>1. s.id \in DOMAIN services /\ Current(s) = s
    BY <1>1, <1>3, NextIsPresent DEF Current
  <2>2. Can("terminate", s)
    BY TerminateCan DEF IInv, StateOK
  <2>3. QED
    BY <1>1, <1>3, <2>1, <2>2 DEF Callable, Skips
<1>4. Top.op = "terminate" => s \in Now.removed \union Now.terminated
  BY <1>3 DEF Now, Terminated
<1>5. FrameOK(f, Len(stack), Now)
  BY <1>2, <1>4, PassedIsOK
<1>6. StackOK(stack', Now)
  BY <1>1, <1>5, TopKeeps DEF IInv
<1>7. QED
  BY <1>1, <1>6, StackMoves

\* A loop calls the hooks of its next service.
LEMMA NextCallsPreserves == ASSUME IInv, NEW s \in Services, NextCalls(s) PROVE IInv'
<1> DEFINE f == [Top EXCEPT !.left = @ \ {s}]
           rest == [stack EXCEPT ![Len(stack)] = f]
           op == Top.op
<1>1. /\ stack # <<>> /\ Top.all /\ s \in Top.left
      /\ s.id \in DOMAIN services /\ Does(op, Current(s))
      /\ Runs(rest, op)
      /\ UNCHANGED <<container, hooks>>
  BY DEF NextCalls, Callable, Top
<1>2. FrameOK(Top, Len(stack), Now)
  BY <1>1 DEF IInv, StackOK, Top
<1>3. op \in Ops /\ Current(s) \in Services
  BY <1>1, <1>2 DEF FrameOK, Frame, IInv, StateOK, Current
<1>4. /\ status' \in [Services -> Statuses] /\ Terminated \subseteq Terminated'
      /\ status'[Current(s)] = Target[op]
  BY <1>1, <1>3, DoesKeeps DEF IInv
<1>5. Later(Now, Now')
  BY <1>1, <1>4, StatusIsLater DEF IInv
<1>6. StackOK(stack, Now')
  BY <1>5, LaterKeeps DEF IInv
<1>7. op = "terminate" => s \in Now'.removed \union Now'.terminated
  <2>1. s \in removed \/ Current(s) = s
    BY <1>1, NextIsPresent DEF Current
  <2>2. s \in removed => s \in Now'.removed
    BY <1>1 DEF Now, container
  <2>3. op = "terminate" /\ Current(s) = s => s \in Now'.terminated
    BY <1>4 DEF Target, Now, Terminated
  <2>4. QED
    BY <2>1, <2>2, <2>3
<1>8. FrameOK(f, Len(stack), Now')
  <2>1. FrameOK(Top, Len(stack), Now')
    BY <1>1, <1>6 DEF StackOK, Top
  <2>2. QED
    BY <1>7, <2>1, PassedIsOK
<1>9. StackOK(rest, Now')
  BY <1>1, <1>6, <1>8, TopKeeps
<1>10. Len(rest) <= MaxDepth
  BY <1>1, <1>2 DEF IInv, StackOK, FrameOK
<1>11. StackOK(stack', Now')
  <2> HIDE DEF rest, op
  <2>1. hooks \in [Ops -> Nat] /\ hooks' = hooks
    BY <1>1 DEF IInv, StateOK
  <2>2. QED
    BY <1>1, <1>3, <1>9, <1>10, <2>1, RunsKeeps
<1>12. QED
  BY <1>1, <1>4, <1>11 DEF IInv, StateOK, container, IndexInv

-------------------------------------------------------------------------------
\* Every step keeps the invariant.
LEMMA StepPreserves == IInv /\ [Next]_vars => IInv'
<1> SUFFICES ASSUME IInv, [Next]_vars PROVE IInv'
  OBVIOUS
<1>1. CASE UNCHANGED vars
  BY <1>1, StackMoves DEF vars, IInv
<1>2. ASSUME NEW s \in Services, AddService(s) \/ Register(s) PROVE IInv'
  BY <1>2, AddServicePreserves, RegisterPreserves
<1>3. ASSUME NEW i \in DOMAIN services, RemoveService(i) PROVE IInv'
  BY <1>3, RemoveServicePreserves
<1>4. CASE Clear
  BY <1>4, ClearPreserves
<1>5. ASSUME NEW op \in Ops, NEW i \in DOMAIN services, CallOne(op, i) PROVE IInv'
  BY <1>5, CallOnePreserves
<1>6. ASSUME NEW op \in Ops, NEW s \in Services, Direct(op, s) PROVE IInv'
  BY <1>6, DirectPreserves
<1>7. ASSUME NEW op \in Ops, AddHook(op) \/ CallAll(op) PROVE IInv'
  BY <1>7, AddHookPreserves, CallAllPreserves
<1>8. CASE HookReturns
  BY <1>8, HookReturnsPreserves
<1>9. ASSUME NEW error, HookRaises(error) PROVE IInv'
  BY <1>9, HookRaisesPreserves
<1>10. ASSUME NEW s \in Services, NextSkips(s) \/ NextCalls(s) PROVE IInv'
  BY <1>10, NextSkipsPreserves, NextCallsPreserves
<1>11. CASE AllReturns
  BY <1>11, AllReturnsPreserves
<1>12. QED
  BY <1>1, <1>2, <1>3, <1>4, <1>5, <1>6, <1>7, <1>8, <1>9, <1>10, <1>11 DEF Next

\* The invariant holds in every reachable state.
LEMMA Invariant == Spec => []IInv
  BY InitEstablishes, StepPreserves, PTL DEF Spec

\* Container, hooks and calls in progress (runtime/container.py, lifecycle.py) are type
\* correct, however deep hooks call the manager again.
THEOREM TypeCorrect == Spec => []TypeOK
<1>1. IInv => TypeOK
  <2> SUFFICES ASSUME IInv PROVE TypeOK
    OBVIOUS
  <2>1. stack \in Seq(Frame) /\ Len(stack) <= MaxDepth + 1
    BY DEF IInv, StackOK
  <2>2. \A k \in DOMAIN stack : FrameOK(stack[k], k, Now)
    BY <2>1 DEF IInv, StackOK
  <2>3. \A k \in DOMAIN stack :
          /\ stack[k].left \subseteq stack[k].listed
          /\ stack[k].hook \in (IF stack[k].all THEN {0} ELSE 1..hooks[stack[k].op])
    BY <2>2 DEF FrameOK, Now
  <2>4. QED
    BY <2>1, <2>3 DEF TypeOK, IInv, StateOK
<1>2. QED
  BY <1>1, Invariant, PTL

\* find_by_name (container.py:36) never fails and finds exactly the services of the name
\* that list_services returns, whatever hooks do to the container meanwhile.
THEOREM IndexAlwaysAgrees == Spec => []IndexAgrees
<1>1. IInv => IndexAgrees
  <2> SUFFICES ASSUME IInv, NEW n \in {s.name : s \in Services}
               PROVE  /\ n \in DOMAIN name_index => name_index[n] \subseteq DOMAIN services
                      /\ FindByName(n) = {s \in ListServices : s.name = n}
    BY DEF IndexAgrees
  <2>1. n \in DOMAIN name_index => name_index[n] \subseteq DOMAIN services
    BY DEF IInv, IndexInv
  <2>2. FindByName(n) = {s \in ListServices : s.name = n}
    BY DEF IInv, IndexInv, FindByName, ListServices, Range
  <2>3. QED
    BY <2>1, <2>2
<1>2. QED
  BY <1>1, Invariant, PTL

\* A terminate_all (lifecycle.py:142) that returns leaves nothing of what it listed running,
\* unless that was taken out of the container, and check_all_health says so: services that
\* a hook put in the place of another, added hooks and nested calls included.
THEOREM TerminateAllReallyEnds == Spec => TerminateAllEnds
<1>1. ASSUME IInv, AllReturns, Top.op = "terminate", NEW s \in Top.listed \ removed
      PROVE  status[s] = "TERMINATED" /\ CheckAllHealth[s.id] = "UNHEALTHY"
  <2>1. stack # <<>> /\ Top.left = {}
    BY <1>1 DEF AllReturns
  <2>2. FrameOK(Top, Len(stack), Now)
    BY <1>1, <2>1 DEF IInv, StackOK, Top
  <2>3. s \in ListServices /\ s \in Terminated
    BY <1>1, <2>1, <2>2 DEF FrameOK, Now
  <2>4. s.id \in DOMAIN services /\ services[s.id] = s
    BY <1>1, <2>3 DEF ListServices, Range, IInv, StateOK
  <2>5. CheckAllHealth[s.id] = DefaultHealthChecker(s)
    BY <2>4 DEF CheckAllHealth, CheckHealth
  <2>6. status[s] = "TERMINATED"
    BY <2>3 DEF Terminated
  <2>7. QED
    BY <2>5, <2>6 DEF DefaultHealthChecker
<1>2. IInv => (AllReturns /\ Top.op = "terminate"
                 => \A s \in Top.listed \ removed :
                       status[s] = "TERMINATED" /\ CheckAllHealth[s.id] = "UNHEALTHY")
  BY <1>1
<1>3. QED
  BY <1>2, Invariant, PTL DEF TerminateAllEnds
-------------------------------------------------------------------------------
(* The configuration: which source a field comes from, and the round trip.  *)

\* What the merge of two dictionaries holds under a key.
LEMMA MergedFields ==
    ASSUME NEW base, NEW override, NEW s, NEW m, m = MergeConfigs(base, override)
    PROVE  /\ s \in DOMAIN m <=> s \in DOMAIN base \/ s \in DOMAIN override
           /\ s \notin DOMAIN override => (s \in DOMAIN m => m[s] = base[s])
           /\ s \in DOMAIN override /\ s \notin DOMAIN base => m[s] = override[s]
           /\ s \in DOMAIN override /\ ~ override[s].dict => m[s] = override[s]
           /\ s \in DOMAIN override /\ s \in DOMAIN base /\ ~ base[s].dict => m[s] = override[s]
           /\ s \in DOMAIN override /\ s \in DOMAIN base /\ base[s].dict /\ override[s].dict
                 => m[s] = Dict(Update(base[s].is, override[s].is))
  BY DEF MergeConfigs, Update

\* A field is in the merge if it is in either; the override's value is taken before the base's.
LEMMA MergedGiven ==
    ASSUME NEW base, NEW override, NEW s, NEW f, NEW m, m = MergeConfigs(base, override),
           s \in DOMAIN override => override[s].dict
    PROVE  /\ Given(m, s, f) <=> Given(override, s, f) \/ Given(base, s, f)
           /\ Given(override, s, f) => m[s].is[f] = override[s].is[f]
           /\ Given(base, s, f) /\ ~ Given(override, s, f) => m[s].is[f] = base[s].is[f]
<1>1. CASE s \notin DOMAIN override
  BY <1>1, MergedFields DEF Given
<1>2. CASE s \in DOMAIN override /\ (s \in DOMAIN base => ~ base[s].dict)
  <2>1. m[s] = override[s] /\ s \in DOMAIN m
    BY <1>2, MergedFields
  <2>2. QED
    BY <1>2, <2>1 DEF Given
<1>3. CASE s \in DOMAIN override /\ s \in DOMAIN base /\ base[s].dict
  <2>1. m[s] = Dict(Update(base[s].is, override[s].is)) /\ s \in DOMAIN m
    BY <1>3, MergedFields
  <2>2. /\ DOMAIN Update(base[s].is, override[s].is) = DOMAIN override[s].is \union DOMAIN base[s].is
        /\ f \in DOMAIN override[s].is => Update(base[s].is, override[s].is)[f] = override[s].is[f]
        /\ f \in DOMAIN base[s].is /\ f \notin DOMAIN override[s].is
              => Update(base[s].is, override[s].is)[f] = base[s].is[f]
    BY DEF Update
  <2>3. m[s].dict /\ m[s].is = Update(base[s].is, override[s].is)
    BY <2>1 DEF Dict
  <2>4. QED
    BY <1>3, <2>1, <2>2, <2>3 DEF Given
<1>4. QED
  BY <1>1, <1>2, <1>3

\* What the environment gives.
LEMMA EnvironmentGives ==
    ASSUME NEW env \in Environments, NEW s \in Sections, NEW f
    PROVE  /\ s \in DOMAIN LoadFromEnv(env) /\ LoadFromEnv(env)[s].dict
           /\ Given(LoadFromEnv(env), s, f) <=> <<s, f>> \in DOMAIN env
           /\ <<s, f>> \in DOMAIN env
                 => LoadFromEnv(env)[s].is[f].is = ParseValue(env[<<s, f>>])
<1> DEFINE F == {n[2] : n \in {m \in DOMAIN env : Len(m) = 2 /\ m[1] = s}}
           d == [g \in F |-> Leaf(ParseValue(env[<<s, g>>]))]
<1>1. /\ DOMAIN LoadFromEnv(env) = Sections /\ LoadFromEnv(env)[s] = Dict(d)
  BY DEF LoadFromEnv
<1>2. LoadFromEnv(env)[s].dict /\ LoadFromEnv(env)[s].is = d
  BY <1>1 DEF Dict
<1>3. f \in F <=> <<s, f>> \in DOMAIN env
  <2>1. ASSUME f \in F PROVE <<s, f>> \in DOMAIN env
    <3>1. PICK m \in DOMAIN env : Len(m) = 2 /\ m[1] = s /\ m[2] = f
      BY <2>1
    <3>2. m \in Seq(STRING)
      BY ConfigAssumption
    <3>3. m = <<s, f>>
      BY <3>1, <3>2
    <3>4. QED
      BY <3>1, <3>3
  <2>2. ASSUME <<s, f>> \in DOMAIN env PROVE f \in F
    BY <2>2
  <2>3. QED
    BY <2>1, <2>2
<1>4. f \in F => d[f].is = ParseValue(env[<<s, f>>])
  BY DEF Leaf
<1> HIDE DEF F
<1>5. QED
  BY <1>1, <1>2, <1>3, <1>4 DEF Given

\* What from_dict makes of a field.
LEMMA SectionField ==
    ASSUME NEW data, NEW s \in Sections, NEW f \in DOMAIN Defaults[s],
           s \in DOMAIN data => data[s].dict
    PROVE  FromDict(data)[s][f] = IF Given(data, s, f) THEN data[s].is[f].is ELSE Defaults[s][f]
<1>1. FromDict(data)[s] = Section(data, s)
  BY DEF FromDict, Sections
<1>2. Section(data, s)[f] = Get(Get(data, s, Empty), f, Defaults[s][f])
  BY DEF Section
<1>3. f \notin DOMAIN Empty
  BY DEF Empty
<1>4. QED
  BY <1>1, <1>2, <1>3 DEF Get, Given

\* Field by field the highest source wins.
Wins(c, override, env, file) ==
    \A s \in Sections : \A f \in DOMAIN Defaults[s] :
        c[s][f] = IF Given(override, s, f) THEN override[s].is[f].is
                  ELSE IF <<s, f>> \in DOMAIN env THEN ParseValue(env[<<s, f>>])
                  ELSE IF file # NoFile /\ Given(file, s, f) THEN file[s].is[f].is
                  ELSE Defaults[s][f]

\* It does in what load() merges, once from_dict accepts it.
LEMMA LoadWins ==
    ASSUME NEW file, NEW env \in Environments, NEW override, Accepts(Merged(file, env, override))
    PROVE  Wins(FromDict(Merged(file, env, override)), override, env, file)
<1> SUFFICES ASSUME NEW s \in Sections, NEW f \in DOMAIN Defaults[s]
             PROVE  FromDict(Merged(file, env, override))[s][f]
                      = IF Given(override, s, f) THEN override[s].is[f].is
                        ELSE IF <<s, f>> \in DOMAIN env THEN ParseValue(env[<<s, f>>])
                        ELSE IF file # NoFile /\ Given(file, s, f) THEN file[s].is[f].is
                        ELSE Defaults[s][f]
  BY DEF Wins
<1> DEFINE e == LoadFromEnv(env)
           a == IF file = NoFile THEN Empty ELSE MergeConfigs(Empty, file)
           b == MergeConfigs(a, e)
           m == MergeConfigs(b, override)
<1>1. m = Merged(file, env, override)
  BY DEF Merged
<1>2. ~ Given(Empty, s, f) /\ s \notin DOMAIN Empty
  BY DEF Given, Empty
\* The file itself may have something else in place of a section; the environment replaces it.
<1>3. /\ Given(a, s, f) <=> file # NoFile /\ Given(file, s, f)
      /\ Given(a, s, f) => a[s] = file[s]
  <2>1. CASE file = NoFile
    BY <1>2, <2>1
  <2>2. CASE file # NoFile
    <3>1. a = MergeConfigs(Empty, file)
      BY <2>2
    <3>2. /\ s \in DOMAIN a <=> s \in DOMAIN file
          /\ s \in DOMAIN file => a[s] = file[s]
      BY <1>2, <3>1, MergedFields
    <3>3. QED
      BY <2>2, <3>2 DEF Given
  <2>3. QED
    BY <2>1, <2>2
<1>4. /\ s \in DOMAIN e /\ e[s].dict
      /\ Given(e, s, f) <=> <<s, f>> \in DOMAIN env
      /\ <<s, f>> \in DOMAIN env => e[s].is[f].is = ParseValue(env[<<s, f>>])
  BY EnvironmentGives
<1> HIDE DEF e, a
<1>5. /\ Given(b, s, f) <=> Given(e, s, f) \/ Given(a, s, f)
      /\ Given(e, s, f) => b[s].is[f] = e[s].is[f]
      /\ Given(a, s, f) /\ ~ Given(e, s, f) => b[s].is[f] = a[s].is[f]
  BY <1>4, MergedGiven
<1> HIDE DEF b
<1>6. s \in DOMAIN m /\ m[s].dict
  <2>1. s \in DOMAIN m
    <3>1. s \in DOMAIN b
      BY <1>4, MergedFields DEF b
    <3>2. QED
      BY <3>1, MergedFields
  <2>2. QED
    BY <1>1, <2>1 DEF Accepts
<1>7. s \in DOMAIN override => override[s].dict
  <2>1. s \in DOMAIN override /\ ~ override[s].dict => m[s] = override[s]
    BY MergedFields
  <2>2. QED
    BY <1>6, <2>1
<1>8. /\ Given(m, s, f) <=> Given(override, s, f) \/ Given(b, s, f)
      /\ Given(override, s, f) => m[s].is[f] = override[s].is[f]
      /\ Given(b, s, f) /\ ~ Given(override, s, f) => m[s].is[f] = b[s].is[f]
  BY <1>7, MergedGiven
<1>9. FromDict(m)[s][f] = IF Given(m, s, f) THEN m[s].is[f].is ELSE Defaults[s][f]
  BY <1>6, SectionField
<1> HIDE DEF m
<1>10. QED
  BY <1>1, <1>3, <1>4, <1>5, <1>8, <1>9

\* A file or a dictionary that is loaded alone.
LEMMA GivenWins ==
    ASSUME NEW data, Accepts(data)
    PROVE  /\ data # NoFile => Wins(FromDict(data), Empty, Empty, data)
           /\ Wins(FromDict(data), data, Empty, NoFile)
<1>1. ASSUME NEW s \in Sections, NEW f \in DOMAIN Defaults[s]
      PROVE  /\ FromDict(data)[s][f]
                   = IF Given(data, s, f) THEN data[s].is[f].is ELSE Defaults[s][f]
             /\ ~ Given(Empty, s, f) /\ <<s, f>> \notin DOMAIN Empty
  <2>1. s \in DOMAIN data => data[s].dict
    BY DEF Accepts
  <2>2. FromDict(data)[s][f] = IF Given(data, s, f) THEN data[s].is[f].is ELSE Defaults[s][f]
    BY <2>1, SectionField
  <2>3. ~ Given(Empty, s, f) /\ <<s, f>> \notin DOMAIN Empty
    BY DEF Given, Empty
  <2>4. QED
    BY <2>2, <2>3
<1>2. QED
  BY <1>1 DEF Wins

\* In every reachable state each field of the configuration is that of the highest source that
\* gives it, for all files, environments and overrides: a partial section hides nothing.
THEOREM HighestSourceWins == ConfigSpec => []Precedence
<1>1. ConfigInit => Precedence
  BY DEF ConfigInit, Precedence
<1>2. ASSUME Precedence, [ConfigNext]_config_vars PROVE Precedence'
  <2>1. ASSUME NEW file \in Files, NEW env \in Environments, NEW override \in Overrides,
               Load(file, env, override)
        PROVE  Precedence'
    <3>1. /\ Wins(config', override, env, file)
          /\ sources' = <<override, env, file>>
      BY <2>1, LoadWins DEF Load, Create
    <3>2. QED
      BY <3>1 DEF Precedence, Wins
  <2>2. ASSUME NEW file \in Files, LoadFromFile(file) PROVE Precedence'
    <3>1. Wins(config', Empty, Empty, file) /\ sources' = <<Empty, Empty, file>>
      BY <2>2, GivenWins DEF LoadFromFile, Create
    <3>2. QED
      BY <3>1 DEF Precedence, Wins
  <2>3. ASSUME NEW data \in Overrides, LoadFromDict(data) PROVE Precedence'
    <3>1. Wins(config', data, Empty, NoFile) /\ sources' = <<data, Empty, NoFile>>
      BY <2>3, GivenWins DEF LoadFromDict, Create
    <3>2. QED
      BY <3>1 DEF Precedence, Wins
  <2>4. CASE UNCHANGED config_vars
    BY <1>2, <2>4 DEF config_vars, Precedence
  <2>5. QED
    BY <1>2, <2>1, <2>2, <2>3, <2>4 DEF ConfigNext, Reload
<1>3. QED
  BY <1>1, <1>2, PTL DEF ConfigSpec

\* What to_dict says of a configuration made by from_dict is accepted and makes it again.
LEMMA RoundTrip ==
    ASSUME NEW data, Accepts(data)
    PROVE  LET c == FromDict(data)
           IN  Accepts(ToDict(c)) /\ FromDict(ToDict(c)) = c
<1> DEFINE c == FromDict(data)
           d == ToDict(c)
<1>1. ASSUME NEW s \in Sections
      PROVE  /\ s \in DOMAIN d /\ d[s].dict
             /\ d[s].is = [f \in DOMAIN Defaults[s] |-> Leaf(c[s][f])]
  BY DEF ToDict, Sections, Dict
<1>2. "services" \in DOMAIN d /\ d["services"].is = c.services
  BY DEF ToDict, Sections, Leaf
<1>3. ASSUME NEW s \in Sections PROVE Section(d, s) = c[s]
  <2>1. Section(d, s) = [f \in DOMAIN Defaults[s] |-> c[s][f]]
    <3> HIDE DEF c, d
    <3>1. Get(d, s, Empty) = [f \in DOMAIN Defaults[s] |-> Leaf(c[s][f])]
      BY <1>1 DEF Get
    <3>2. ASSUME NEW f \in DOMAIN Defaults[s]
          PROVE  Get(Get(d, s, Empty), f, Defaults[s][f]) = c[s][f]
      BY <3>1 DEF Get, Leaf
    <3>3. QED
      BY <3>2 DEF Section
  <2>2. c[s] = Section(data, s)
    BY DEF FromDict, Sections
  <2>3. c[s] = [f \in DOMAIN Defaults[s] |-> c[s][f]]
    BY <2>2 DEF Section
  <2>4. QED
    BY <2>1, <2>3
<1>4. FromDict(d) = c
  <2>1. /\ Section(d, "runtime") = c.runtime /\ Section(d, "logging") = c.logging
        /\ Section(d, "observability") = c.observability
        /\ Get(d, "services", <<>>) = c.services
    BY <1>2, <1>3 DEF Sections, Get
  <2>2. QED
    BY <2>1 DEF FromDict
<1>5. c["logging"]["level"] \in LogLevels
  <2>1. "level" \in DOMAIN Defaults["logging"] /\ Defaults["logging"]["level"] = "info"
    BY DEF Defaults, LoggingDefaults
  <2>2. "logging" \in Sections /\ "info" \in LogLevels
    BY DEF Sections, LogLevels
  <2>3. "logging" \in DOMAIN data => data["logging"].dict
    BY <2>2 DEF Accepts
  <2>4. c["logging"]["level"] = IF Given(data, "logging", "level")
                                THEN data["logging"].is["level"].is ELSE "info"
    BY <2>1, <2>2, <2>3, SectionField
  <2>5. "logging" \in DOMAIN data =>
           Get(data["logging"].is, "level", "info") \in LogLevels
    BY DEF Accepts
  <2>6. QED
    BY <2>2, <2>3, <2>4, <2>5 DEF Get, Given
<1>6. Accepts(d)
  <2>1. Get(d["logging"].is, "level", "info") = c["logging"]["level"]
    <3>1. "level" \in DOMAIN Defaults["logging"] /\ "logging" \in Sections
      BY DEF Defaults, LoggingDefaults, Sections
    <3> HIDE DEF c, d
    <3>2. d["logging"].is = [f \in DOMAIN Defaults["logging"] |-> Leaf(c["logging"][f])]
      BY <1>1, <3>1
    <3>3. QED
      BY <3>1, <3>2 DEF Get, Leaf
  <2>2. QED
    BY <1>1, <1>5, <2>1 DEF Accepts
<1>7. QED
  BY <1>4, <1>6

\* Whatever was loaded after whatever, what the loader holds is valid, and its to_dict() is
\* accepted and gives the same configuration.
THEOREM AlwaysReloadable == ConfigSpec => []Reloadable
<1>1. ConfigInit => Reloadable
  BY DEF ConfigInit, Reloadable
<1>2. ASSUME NEW data, Create(data) PROVE Reloadable'
  BY <1>2, RoundTrip DEF Create, Reloadable
<1>3. Reloadable /\ UNCHANGED config_vars => Reloadable'
  BY DEF config_vars, Reloadable
<1>4. Reloadable /\ [ConfigNext]_config_vars => Reloadable'
  BY <1>2, <1>3 DEF ConfigNext, Load, LoadFromFile, LoadFromDict, Reload
<1>5. QED
  BY <1>1, <1>4, PTL DEF ConfigSpec
===============================================================================
