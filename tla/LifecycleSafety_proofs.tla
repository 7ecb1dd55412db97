---------------------- MODULE LifecycleSafety_proofs ----------------------
(***************************************************************************)
(* The safety of Lifecycle and its contract, for any number of calls,       *)
(* options and codes, from the invariant of LifecycleStack_proofs.         *)
(***************************************************************************)
EXTENDS LifecycleStack_proofs, SequenceTheorems

(* makeWebAuthn's callback is called at most once. *)
THEOREM CallsBackOnce == Spec => []CallbackOnce
<1>1. IInv => CallbackOnce
  BY DEF IInv, StartInv, CallbackOnce
<1> QED
  BY <1>1, Inductive, PTL

(* A call that waits with nothing running was lost to an announced crash. *)
THEOREM LosesNoCall == Spec => []NoLostCall
<1>1. TypeOK /\ IInv => NoLostCall
  <2> SUFFICES ASSUME TypeOK, IInv, Idle, NEW c \in Calls, calls[c] = "pending"
               PROVE  crashed /\ Delivered("error") /\ Delivered("exit")
    BY DEF NoLostCall
  <2>1. DOMAIN stack = {}
    BY Shape
  <2> QED
    BY <2>1 DEF IInv, PendingInv
<1> QED
  BY <1>1, Inductive, PTL

(* methods.exit is entered once, and nothing enters it after 'exit'. *)
THEOREM ExitsOnce == Spec => []ExitEntersOnce
<1>1. IInv => ExitEntersOnce
  BY DEF IInv, ExitInv, ExitEntersOnce
<1> QED
  BY <1>1, Inductive, PTL

-----------------------------------------------------------------------------
(* Only a timeout of a dead program, or a crash nobody was told of, kills the
   process. *)
THEOREM Survives == Spec => ProcessSurvives
<1>1. ASSUME TypeOK, IInv, Next, proc = "alive", proc' = "killed"
      PROVE  \/ timer /\ go = "exited"
             \/ crashed /\ (promise # "resolved" \/ ~Delivered("error"))
  <2>1. CASE TimerFires
    BY <1>1, <2>1 DEF TimerFires, ResumeThrows
  <2>2. CASE Tick \/ BeforeExit
    <3>1. ~exitCalled /\ go = "exited" /\ Idle /\ (tick \/ listening)
      BY <1>1, <2>2 DEF Tick, BeforeExit, CheckedExit, EnterExit, ResumeThrows
    <3>2. crashed
      BY <1>1, <3>1 DEF IInv, ExitInv
    <3>3. tick => promise # "resolved"
      BY <1>1 DEF IInv, StartInv
    <3>4. listening => ~Delivered("error")
      <4>1. DOMAIN stack = {}
        BY <1>1, <3>1, Shape
      <4> QED
        BY <1>1, <4>1 DEF IInv, StartInv, ExitInv
    <3> QED
      BY <3>1, <3>2, <3>3, <3>4
  <2>3. CASE GoExit
    <3>1. OnAny(ExitKinds) /\ Top.kind = "goExit" /\ Top.kind \in ExitKinds
      BY <2>3 DEF GoExit, On, OnAny, ExitKinds
    <3>2. Throw
      BY <1>1, <2>3 DEF GoExit, ReportError
    <3>3. Top.from \in {"run", "init", "hook"}
      BY <1>1, <3>2 DEF Throw
    <3>4. methods /\ ~initErr /\ Top.n # 0
      BY <1>1, <2>3 DEF GoExit, ReportError, NeedsError, IInv, StartInv
    <3>5. crashed /\ events = <<>>
      BY <1>1, <3>1, <3>3, <3>4, ExitTop DEF OriginInv, ReportInv
    <3> QED
      BY <3>5 DEF Delivered
  <2>4. CASE ExitDone
    <3>1. OnAny(ExitKinds) /\ Top.kind \in ExitKinds
      BY <2>4 DEF ExitDone, On, OnAny, ExitKinds
    <3>2. Top.from = "init"
      BY <1>1, <2>4 DEF ExitDone
    <3>3. crashed /\ ~methods
      BY <1>1, <3>1, <3>2, ExitTop DEF OriginInv
    <3> QED
      BY <1>1, <3>3 DEF IInv, StartInv
  <2>5. ASSUME NEW n \in Codes, UserExit(n) PROVE FALSE
    BY <1>1, <2>5 DEF UserExit, CheckedExit, EnterExit
  <2>6. CASE \/ LoadStep \/ LoadFails \/ InvokeUid \/ InitOk \/ InitFails \/ MainWaits
             \/ ExitEmit \/ ListenerReturns \/ ApiOption \/ OptReturns \/ OptReturnsLate
             \/ ApiReturns \/ GoCrash \/ GoTimer \/ UserListens
             \/ \E c \in Calls, n \in 0 .. MaxOptions : UserCall(c, n)
    BY <1>1, <2>6 DEF LoadStep, LoadFails, InvokeUid, InitOk, InitFails, MainWaits,
       ExitEmit, ListenerReturns, ApiOption, OptReturns, OptReturnsLate, ApiReturns, GoCrash,
       GoTimer, UserListens, UserCall
  <2> QED
    BY <1>1, <2>1, <2>2, <2>3, <2>4, <2>5, <2>6 DEF Next, Internal
<1>2. TypeOK /\ IInv /\ [Next]_vars =>
        [proc = "alive" /\ proc' = "killed" =>
           \/ timer /\ go = "exited"
           \/ crashed /\ (promise # "resolved" \/ ~Delivered("error"))]_vars
  BY <1>1
<1> QED
  BY <1>2, Inductive, PTL DEF Spec, ProcessSurvives

-----------------------------------------------------------------------------
(* What a step does to the promise, the events and the calls: the lemmas of
   the refinement, one for each kind of step. *)
LEMMA StartContract ==
    ASSUME TypeOK, IInv, LoadFails \/ InitOk
    PROVE  Contract!Settle
<1>1. CASE LoadFails
  <2>1. promise = "pending" /\ go = "none"
    BY <1>1 DEF LoadFails, IInv, StartInv
  <2>2. events = <<>>
    BY <2>1 DEF IInv, ExitInv
  <2> QED
    BY <1>1, <2>1, <2>2 DEF LoadFails, Callback, Contract!Settle, userVars
<1>2. CASE InitOk
  <2>1. promise = "pending" /\ events = <<>>
    BY <1>2, InitReturns DEF InitOk
  <2> QED
    BY <1>2, <2>1 DEF InitOk, Callback, Contract!Settle, userVars
<1> QED
  BY <1>1, <1>2

LEMMA CallContract ==
    ASSUME TypeOK, IInv, NEW c \in Calls, NEW n \in 0 .. MaxOptions, UserCall(c, n)
    PROVE  Contract!Begin(c) \/ Contract!Reject(c)
<1>1. /\ UNCHANGED <<promise, events>> /\ promise = "resolved" /\ calls[c] = "unused"
      /\ UserRuns
  BY DEF UserCall, UserRuns, startVars, userVars
<1>2. go = "exited" \/ (go = "waiting" /\ events = <<>>)
  BY <1>1, UserPhase DEF IInv, ExitInv
<1> QED
  BY <1>1, <1>2 DEF UserCall, ResumeThrows, Contract!Begin, Contract!Reject, Contract!Open

LEMMA AnswerContract ==
    ASSUME TypeOK, IInv, ApiReturns \/ OptReturnsLate
    PROVE  \E c \in Calls : Contract!Fulfil(c) \/ Contract!Reject(c)
<1>1. CASE ApiReturns
  <2>1. /\ Top.call \in Calls /\ calls[Top.call] = "pending"
        /\ promise = "resolved" /\ events = <<>>
    BY <1>1, ApiTop DEF ApiReturns, IInv, StartInv
  <2>2. UNCHANGED <<promise, events>>
    BY <1>1 DEF ApiReturns, startVars, userVars
  <2> QED
    BY <1>1, <2>1, <2>2 DEF ApiReturns, Contract!Fulfil, Contract!Reject, Contract!Open
<1>2. CASE OptReturnsLate
  <2>1. /\ Top.call \in Calls /\ promise = "resolved"
        /\ Len(stack) - 1 \in DOMAIN stack
        /\ stack[Len(stack) - 1].kind = "api" /\ stack[Len(stack) - 1].call = Top.call
    <3>1. On("opt")
      BY <1>2 DEF OptReturnsLate
    <3>2. methods => promise = "resolved"
      BY DEF IInv, StartInv
    <3> QED
      BY <3>1, <3>2, OptTop
  <2>2. calls[Top.call] = "pending"
    BY <2>1 DEF IInv, StackInv, ApiInv
  <2>3. UNCHANGED <<promise, events>>
    BY <1>2 DEF OptReturnsLate, startVars, userVars
  <2> QED
    BY <1>2, <2>1, <2>2, <2>3 DEF OptReturnsLate, Contract!Reject
<1> QED
  BY <1>1, <1>2

LEMMA ReportContract ==
    ASSUME TypeOK, IInv, GoExit
    PROVE  \/ Contract!Settle \/ \E n \in 1 .. (CodeModulus - 1) : Contract!Error(n)
           \/ \E c \in Calls : Contract!Reject(c)
           \/ UNCHANGED Contract!vars
<1>0. OnAny(ExitKinds) /\ Top.kind = "goExit" /\ Top.kind \in ExitKinds
  BY DEF GoExit, On, OnAny, ExitKinds
<1>1. /\ events = <<>> /\ (promise = "pending" \/ methods)
      /\ Top.from = "api" => Top.call \in Calls /\ calls[Top.call] = "pending"
  BY <1>0, ExitTop DEF ReportInv, OriginInv
<1>2. methods <=> promise = "resolved"
  BY DEF IInv, StartInv
<1>3. CASE ~methods
  BY <1>1, <1>3 DEF GoExit, NeedsError, ReportError, Callback, Contract!Settle
<1>4. CASE methods
  <2>1. UNCHANGED <<promise, cbCalls>>
    BY <1>4 DEF GoExit, ReportError
  <2>2. CASE UNCHANGED events
    <3>1. \/ UNCHANGED calls
          \/ Top.from = "api" /\ calls' = [calls EXCEPT ![Top.call] = "rejected"]
      <4>1. UNCHANGED calls \/ Throw
        BY <1>4 DEF GoExit, ReportError
      <4> QED
        BY <4>1 DEF Throw
    <3> QED
      BY <1>1, <1>2, <1>4, <2>1, <2>2, <3>1 DEF Contract!Reject, Contract!vars
  <2>3. CASE events' # events
    <3>1. /\ events' = Append(events, Event("error", Top.n)) /\ UNCHANGED calls
          /\ Top.n # 0
      BY <1>4, <2>3 DEF GoExit, ReportError, NeedsError, IInv, StartInv, Throw
    <3>2. Top.n \in 1 .. (CodeModulus - 1)
      <4>1. Top.n \in 0 .. (CodeModulus - 1)
        BY <1>0, StackTypes DEF OnAny, TypeOK
      <4> QED
        BY <3>1, <4>1, LifecycleAssumption
    <3>3. events' = <<Event("error", Top.n)>>
      BY <1>1, <3>1
    <3>4. Contract!Error(Top.n)
      BY <1>1, <1>2, <1>4, <2>1, <3>1, <3>3 DEF Contract!Error, Contract!Open, Contract!Event, Event
    <3> QED
      BY <3>2, <3>4
  <2> QED
    BY <2>2, <2>3
<1> QED
  BY <1>3, <1>4

LEMMA AppendShort ==
    ASSUME NEW x, NEW y
    PROVE  Append(<<>>, y) = <<y>> /\ Append(<<x>>, y) = <<x, y>>
<1>1. PICK S : x \in S /\ y \in S
  <2>1. x \in {x, y} /\ y \in {x, y}
    OBVIOUS
  <2> QED
    BY <2>1
<1>2. <<x>> \in Seq(S) /\ Len(<<x>>) = 1 /\ <<x>>[1] = x
  BY <1>1
<1>3. /\ Append(<<x>>, y) \in Seq(S) /\ Len(Append(<<x>>, y)) = 2
      /\ Append(<<x>>, y)[1] = x /\ Append(<<x>>, y)[2] = y
  BY <1>1, <1>2, PushFacts
<1>4. <<x, y>> \in Seq(S) /\ Len(<<x, y>>) = 2 /\ <<x, y>>[1] = x /\ <<x, y>>[2] = y
  BY <1>1
<1>5. \A i \in 1 .. 2 : Append(<<x>>, y)[i] = <<x, y>>[i]
  <2>1. \A i \in 1 .. 2 : i = 1 \/ i = 2
    OBVIOUS
  <2> QED
    BY <1>3, <1>4, <2>1
<1>6. Append(<<x>>, y) = <<x, y>>
  BY <1>3, <1>4, <1>5, SeqEqual
<1>7. Append(<<>>, y) = <<y>>
  OBVIOUS
<1> QED
  BY <1>6, <1>7

LEMMA ExitContract == ASSUME TypeOK, IInv, ExitEmit PROVE Contract!Exit
<1>0. /\ OnAny(ExitKinds) /\ Top.kind = "exitEmit" /\ Top.kind \in ExitKinds
      /\ events' = Append(events, Event("exit", Top.n)) /\ UNCHANGED <<promise, calls>>
  BY DEF ExitEmit, On, OnAny, ExitKinds, startVars
<1>1. /\ methods /\ Top.n # 0 => events = <<Event("error", Top.n)>>
      /\ ~methods \/ Top.n = 0 => events = <<>>
      /\ methods \/ (promise = "rejected" /\ Top.n # 0)
  BY <1>0, ExitTop DEF ReportInv
<1>2. methods <=> promise = "resolved"
  BY DEF IInv, StartInv
<1>3. Top.n \in 0 .. (CodeModulus - 1)
  BY <1>0, StackTypes DEF OnAny, TypeOK
<1>4. CASE Top.n = 0
  <2>1. events = <<>> /\ events' = <<Event("exit", 0)>> /\ promise = "resolved"
    BY <1>0, <1>1, <1>2, <1>4
  <2> QED
    BY <1>0, <2>1 DEF Contract!Exit, Contract!Open, Contract!Event, Event
<1>5. CASE Top.n # 0
  <2>1. PICK n \in 1 .. (CodeModulus - 1) : n = Top.n
    BY <1>3, <1>5, LifecycleAssumption
  <2>2. \/ events = <<Event("error", n)>> /\ events' = <<Event("error", n), Event("exit", n)>>
        \/ promise = "rejected" /\ events = <<>> /\ events' = <<Event("exit", n)>>
    <3>1. /\ \/ events = <<Event("error", n)>>
             \/ promise = "rejected" /\ events = <<>>
          /\ events' = Append(events, Event("exit", n))
      BY <1>0, <1>1, <1>5, <2>1
    <3> QED
      BY <3>1, AppendShort
  <2> QED
    BY <1>0, <2>1, <2>2 DEF Contract!Exit, Contract!Event, Event
<1> QED
  BY <1>4, <1>5

(* Every step of the instance is a step of its contract, or none. *)
LEMMA StepContract == ASSUME TypeOK, IInv, [Next]_vars PROVE [Contract!Next]_(Contract!vars)
<1>1. CASE LoadFails \/ InitOk
  BY <1>1, StartContract DEF Contract!Next
<1>2. CASE \E c \in Calls, n \in 0 .. MaxOptions : UserCall(c, n)
  BY <1>2, CallContract DEF Contract!Next
<1>3. CASE ApiReturns \/ OptReturnsLate
  BY <1>3, AnswerContract DEF Contract!Next
<1>4. CASE GoExit
  BY <1>4, ReportContract DEF Contract!Next
<1>5. CASE ExitEmit
  BY <1>5, ExitContract DEF Contract!Next
<1>6. CASE \/ LoadStep \/ InvokeUid \/ InitFails \/ MainWaits \/ Tick \/ ExitDone
           \/ ListenerReturns \/ ApiOption \/ OptReturns \/ BeforeExit \/ GoCrash \/ GoTimer
           \/ TimerFires \/ UserListens \/ UNCHANGED vars
  <2>1. CASE ExitDone
    <3>1. UNCHANGED <<promise, events, calls>>
      BY <2>1 DEF ExitDone, Throw, startVars, userVars
    <3> QED
      BY <3>1 DEF Contract!vars
  <2> QED
    BY <1>6, <2>1 DEF LoadStep, InvokeUid, InitFails, MainWaits, Tick, ListenerReturns,
       ApiOption, OptReturns, BeforeExit, GoCrash, GoTimer, TimerFires, UserListens, vars,
       startVars, loadVars, userVars, Contract!vars
<1>7. CASE \E n \in Codes : UserExit(n)
  BY <1>7 DEF UserExit, startVars, userVars, Contract!vars
<1> QED
  BY <1>1, <1>2, <1>3, <1>4, <1>5, <1>6, <1>7 DEF Next, Internal

(* The instance keeps its contract. *)
THEOREM Refinement == Spec => KeepsContract
<1>1. Init => Contract!Init
  BY DEF Init, Contract!Init
<1>2. TypeOK /\ IInv /\ [Next]_vars => [Contract!Next]_(Contract!vars)
  BY StepContract
<1> QED
  BY <1>1, <1>2, Inductive, PTL DEF Spec, KeepsContract, Contract!Spec

(* Only a live program answers: so the contract says, and what is open has not
   exited. *)
THEOREM AnsweredLive == Spec => AnsweredByLiveGo
<1>1. ASSUME TypeOK, IInv, Next, NEW c \in Calls, calls[c] # "fulfilled",
             calls'[c] = "fulfilled"
      PROVE  go = "waiting" /\ ~Delivered("exit")
  <2>0. calls \in [Calls -> CallStates]
    BY <1>1 DEF TypeOK
  <2>1. CASE ApiReturns
    BY <1>1, <2>1, ApiTop DEF ApiReturns, Delivered
  <2>2. CASE OptReturnsLate
    BY <1>1, <2>0, <2>2 DEF OptReturnsLate
  <2>3. CASE GoExit \/ ExitDone
    <3>1. UNCHANGED calls \/ Throw
      BY <2>3 DEF GoExit, ExitDone, ReportError
    <3>2. calls' = calls \/ calls' = [calls EXCEPT ![Top.call] = "rejected"]
      BY <3>1 DEF Throw
    <3> QED
      BY <1>1, <2>0, <3>2
  <2>4. ASSUME NEW d \in Calls, NEW n \in 0 .. MaxOptions, UserCall(d, n) PROVE FALSE
    BY <1>1, <2>0, <2>4 DEF UserCall
  <2>5. CASE \/ LoadStep \/ LoadFails \/ InvokeUid \/ InitOk \/ InitFails \/ MainWaits
             \/ Tick \/ ExitEmit \/ ListenerReturns \/ ApiOption \/ OptReturns \/ BeforeExit
             \/ GoCrash \/ GoTimer \/ TimerFires \/ UserListens
             \/ \E n \in Codes : UserExit(n)
    BY <1>1, <2>5 DEF LoadStep, LoadFails, InvokeUid, InitOk, InitFails, MainWaits, Tick,
       ExitEmit, ListenerReturns, ApiOption, OptReturns, BeforeExit, GoCrash, GoTimer,
       TimerFires, UserListens, UserExit
  <2> QED
    BY <1>1, <2>1, <2>2, <2>3, <2>4, <2>5 DEF Next, Internal
<1>2. TypeOK /\ IInv /\ [Next]_vars =>
        [\A c \in Calls : calls[c] # "fulfilled" /\ calls'[c] = "fulfilled" =>
           go = "waiting" /\ ~Delivered("exit")]_vars
  BY <1>1
<1> QED
  BY <1>2, Inductive, PTL DEF Spec, AnsweredByLiveGo

-----------------------------------------------------------------------------
(* The events a contract can have emitted. *)
EventInv ==
    \/ events = <<>> \/ events = <<Event("exit", 0)>>
    \/ \E n \in 1 .. (CodeModulus - 1) :
         \/ events = <<Event("error", n)>>
         \/ events = <<Event("error", n), Event("exit", n)>>
         \/ events = <<Event("exit", n)>> /\ promise # "resolved"

LEMMA EventStep == ASSUME EventInv, [Contract!Next]_(Contract!vars) PROVE EventInv'
<1>1. CASE Contract!Settle
  BY <1>1 DEF Contract!Settle, EventInv
<1>2. CASE \E n \in 1 .. (CodeModulus - 1) : Contract!Error(n)
  BY <1>2 DEF Contract!Error, Contract!Event, Event, EventInv
<1>3. CASE Contract!Exit
  <2>1. CASE events' = <<Contract!Event("exit", 0)>>
    BY <2>1 DEF EventInv, Contract!Event, Event
  <2>2. ASSUME NEW n \in 1 .. (CodeModulus - 1),
               \/ events' = <<Contract!Event("error", n), Contract!Event("exit", n)>>
               \/ promise = "rejected" /\ events' = <<Contract!Event("exit", n)>>
        PROVE  EventInv'
    BY <1>3, <2>2 DEF EventInv, Contract!Exit, Contract!Event, Event
  <2> QED
    BY <1>3, <2>1, <2>2 DEF Contract!Exit
<1>4. CASE (\E c \in Calls : Contract!Begin(c) \/ Contract!Fulfil(c) \/ Contract!Reject(c))
           \/ UNCHANGED Contract!vars
  BY <1>4 DEF Contract!Begin, Contract!Fulfil, Contract!Reject, Contract!vars, EventInv
<1> QED
  BY <1>1, <1>2, <1>3, <1>4 DEF Contract!Next

(* 'error' and 'exit' come in order, at most once each and with one code. *)
THEOREM EventsInOrder == Spec => []EventOrder
<1>1. Contract!Init => EventInv
  BY DEF Contract!Init, EventInv
<1>2. EventInv /\ [Contract!Next]_(Contract!vars) => EventInv'
  BY EventStep
<1>3. EventInv => EventOrder
  <2> SUFFICES ASSUME EventInv PROVE EventOrder
    OBVIOUS
  <2>1. CASE events = <<>> \/ events = <<Event("exit", 0)>>
    <3>1. CASE events = <<>>
      BY <3>1 DEF EventOrder
    <3>2. CASE events = <<Event("exit", 0)>>
      <4>1. /\ Len(events) = 1 /\ DOMAIN events = {1}
            /\ events[1].name = "exit" /\ events[1].code = 0
        BY <3>2 DEF Event
      <4> QED
        BY <4>1 DEF EventOrder
    <3> QED
      BY <2>1, <3>1, <3>2
  <2>2. ASSUME NEW n \in 1 .. (CodeModulus - 1),
               \/ events = <<Event("error", n)>>
               \/ events = <<Event("error", n), Event("exit", n)>>
               \/ events = <<Event("exit", n)>> /\ promise # "resolved"
        PROVE  EventOrder
    <3>0. n # 0
      BY LifecycleAssumption
    <3>1. CASE events = <<Event("error", n)>>
      BY <3>0, <3>1 DEF EventOrder, Event
    <3>2. CASE events = <<Event("error", n), Event("exit", n)>>
      <4>1. /\ Len(events) = 2 /\ DOMAIN events = {1, 2}
            /\ events[1].name = "error" /\ events[1].code = n
            /\ events[2].name = "exit" /\ events[2].code = n
        BY <3>2 DEF Event
      <4> QED
        BY <3>0, <4>1 DEF EventOrder, Delivered
    <3>3. CASE events = <<Event("exit", n)>> /\ promise # "resolved"
      BY <3>3 DEF EventOrder, Event
    <3> QED
      BY <2>2, <3>1, <3>2, <3>3
  <2> QED
    BY <2>1, <2>2 DEF EventInv
<1> QED
  BY <1>1, <1>2, <1>3, Refinement, PTL DEF KeepsContract, Contract!Spec

-----------------------------------------------------------------------------
(* What exit() was asked for, and what go.exit and the 'exit' event say. *)
Asked == IF requested = NoCode THEN 0 ELSE requested % CodeModulus

CodeInv ==
    /\ requested # NoCode => exitCalled
    /\ ~crashed =>
         /\ \A i \in DOMAIN stack : stack[i].kind \in ExitKinds => stack[i].n = Asked
         /\ \A i \in DOMAIN events : events[i].name = "exit" => events[i].code = Asked

(* A step that asks for nothing and makes no new go.exit. *)
LEMMA SameCode ==
    ASSUME CodeInv, requested' = requested, exitCalled => exitCalled', crashed => crashed',
           \A i \in DOMAIN stack' : stack'[i].kind \in ExitKinds =>
             \E j \in DOMAIN stack :
               stack[j].kind \in ExitKinds /\ stack[j].n = stack'[i].n,
           \A i \in DOMAIN events' : events'[i].name = "exit" /\ ~crashed =>
             events'[i].code = Asked
    PROVE  CodeInv'
<1>1. Asked' = Asked
  BY DEF Asked
<1>2. ~crashed' => ~crashed
  OBVIOUS
<1>3. ~crashed => /\ \A i \in DOMAIN stack : stack[i].kind \in ExitKinds => stack[i].n = Asked
  BY DEF CodeInv
<1> QED
  BY <1>1, <1>2, <1>3 DEF CodeInv

LEMMA CheckedExitCode ==
    ASSUME TypeOK, IInv, CodeInv, NEW n \in Nat, NEW o \in {"exit", "hook"},
           CheckedExit(n, o), go \in {"waiting", "exited"},
           requested' = IF exitCalled \/ o = "hook" THEN requested ELSE n,
           o = "hook" => n = 0, o = "exit" => n \in Codes,
           UNCHANGED <<events, crashed>>
    PROVE  CodeInv'
<1>1. CASE exitCalled
  BY <1>1, SameCode DEF CheckedExit, CodeInv
<1>2. CASE ~exitCalled /\ go = "exited"
  <2>1. crashed /\ exitCalled'
    BY <1>2 DEF CheckedExit, IInv, ExitInv
  <2> QED
    BY <2>1 DEF CodeInv
<1>3. CASE ~exitCalled /\ go = "waiting"
  <2>1. PICK f \in Frame : f = ExitFrame(NoCall, ExitCode(n), o)
    BY FrameTypes, CodeType, Names
  <2>2. stack' = Push(f) /\ exitCalled' = TRUE
    BY <1>3, <2>1 DEF CheckedExit, EnterExit, ResumeThrows
  <2>3. f.n = n % CodeModulus
    BY <1>3, <2>1 DEF ExitFrame, ExitCode
  <2>4. Asked' = n % CodeModulus
    <3>1. requested = NoCode /\ 0 % CodeModulus = 0
      BY <1>3, LifecycleAssumption DEF CodeInv
    <3>2. n \in Codes => n # NoCode
      BY LifecycleAssumption
    <3> QED
      BY <1>3, <3>1, <3>2 DEF Asked
  <2>5. events = <<>> /\ \A i \in DOMAIN stack : stack[i].kind \notin ExitKinds
    BY <1>3 DEF IInv, ExitInv, StackInv, OriginInv
  <2>6. \A i \in DOMAIN stack' : stack'[i] = f \/ (i \in DOMAIN stack /\ stack'[i] = stack[i])
    BY <2>2, Shape, PushShape
  <2> QED
    BY <2>2, <2>3, <2>4, <2>5, <2>6 DEF CodeInv
<1> QED
  BY <1>1, <1>2, <1>3

(* go.exit goes on with the code it was given, and reports that one. *)
LEMMA ExitStepsCode ==
    ASSUME TypeOK, IInv, CodeInv, GoExit \/ ExitEmit \/ ExitDone
    PROVE  CodeInv'
<1>0. /\ OnAny(ExitKinds) /\ ~Idle /\ Top.kind \in ExitKinds
      /\ requested' = requested /\ crashed' = crashed /\ (exitCalled => exitCalled')
  BY DEF GoExit, ExitEmit, ExitDone, On, OnAny, ExitKinds, exitVars
<1>1. PICK L \in Nat \ {0} :
        /\ L = Len(stack) /\ DOMAIN stack = 1 .. L /\ stack[L] = Top
        /\ OriginInv(L) /\ ReportInv(L)
  BY <1>0, ExitTop
<1>2. \/ stack' = Below \/ (L > 1 /\ stack' = SubSeq(stack, 1, Len(stack) - 2))
      \/ \E k \in ExitKinds, u \in UserKinds :
           stack' = Becomes(k) \/ stack' = Append(Becomes(k), ListenerFrame(u))
  <2>1. Top.from = "init" => L > 1
    BY <1>0, <1>1 DEF OriginInv
  <2>2. CASE GoExit
    BY <1>1, <2>1, <2>2, Names DEF GoExit, ReportError, Throw, AfterError
  <2>3. CASE ExitEmit
    BY <2>3, Names DEF ExitEmit
  <2>4. CASE ExitDone
    BY <1>1, <2>1, <2>4 DEF ExitDone, Throw
  <2> QED
    BY <2>2, <2>3, <2>4
<1>3. \A i \in DOMAIN stack' : stack'[i].kind \in ExitKinds =>
        \E j \in DOMAIN stack : stack[j].kind \in ExitKinds /\ stack[j].n = stack'[i].n
  <2>1. CASE stack' = Below
    BY <1>0, <1>1, <2>1, PopShape
  <2>2. CASE L > 1 /\ stack' = SubSeq(stack, 1, Len(stack) - 2)
    <3>1. /\ DOMAIN stack' = 1 .. (L - 2)
          /\ \A i \in 1 .. (L - 2) : stack'[i] = stack[i]
      BY <1>1, <2>2, PopTwoShape
    <3> QED
      BY <1>1, <3>1
  <2>3. ASSUME NEW k \in ExitKinds, NEW u \in UserKinds,
               stack' = Becomes(k) \/ stack' = Append(Becomes(k), ListenerFrame(u))
        PROVE  \A i \in DOMAIN stack' : stack'[i].kind \in ExitKinds =>
                 \E j \in DOMAIN stack : stack[j].kind \in ExitKinds /\ stack[j].n = stack'[i].n
    <3>1. PICK f \in Frame : Becomes(k) = Replace(f) /\ f.n = Top.n
      BY <1>0, Becoming
    <3>2. PICK g \in Frame : g = ListenerFrame(u) /\ g.kind \notin ExitKinds
      BY FrameTypes DEF ListenerFrame, UserKinds, ExitKinds
    <3>3. \A i \in DOMAIN stack' :
            \/ i \in 1 .. (L - 1) /\ stack'[i] = stack[i]
            \/ stack'[i] = f \/ stack'[i] = g
      <4>1. CASE stack' = Replace(f)
        BY <1>0, <1>1, <4>1, ReplaceShape
      <4>2. CASE stack' = Append(Replace(f), g)
        BY <1>0, <1>1, <4>2, ReplacePushShape
      <4> QED
        BY <2>3, <3>1, <3>2, <4>1, <4>2
    <3>4. L \in DOMAIN stack /\ \A i \in 1 .. (L - 1) : i \in DOMAIN stack
      BY <1>1
    <3> QED
      BY <1>0, <1>1, <3>1, <3>2, <3>3, <3>4
  <2> QED
    BY <1>2, <2>1, <2>2, <2>3
<1>4. \A i \in DOMAIN events' : events'[i].name = "exit" /\ ~crashed => events'[i].code = Asked
  <2>1. CASE GoExit
    <3>1. events = <<>> /\ (events' = events \/ events' = Append(events, Event("error", Top.n)))
      BY <1>0, <1>1, <2>1 DEF GoExit, On, OnAny, ReportError, ReportInv, Throw
    <3>2. events' = <<>> \/ events' = <<Event("error", Top.n)>>
      BY <3>1
    <3> QED
      BY <3>2 DEF Event
  <2>2. CASE ExitEmit
    <3>1. events \in Seq(Events) /\ events' = Append(events, Event("exit", Top.n))
      BY <2>2 DEF ExitEmit, TypeOK
    <3>2. \A i \in DOMAIN events' :
            events'[i] = Event("exit", Top.n) \/ (i \in DOMAIN events /\ events'[i] = events[i])
      BY <3>1
    <3>3. ~crashed => Top.n = Asked
      <4>1. L \in DOMAIN stack
        BY <1>1
      <4> QED
        BY <1>0, <1>1, <4>1 DEF CodeInv
    <3> QED
      BY <3>2, <3>3 DEF CodeInv, Event
  <2>3. CASE ExitDone
    BY <2>3 DEF ExitDone, userVars, CodeInv
  <2> QED
    BY <2>1, <2>2, <2>3
<1> QED
  BY <1>0, <1>3, <1>4, SameCode

(* The other steps put no go.exit on the stack. *)
LEMMA OtherStepsCode ==
    ASSUME TypeOK, IInv, CodeInv,
           UNCHANGED <<requested, events, crashed, exitCalled>>,
           \A i \in DOMAIN stack' :
             \/ i \in DOMAIN stack /\ stack'[i] = stack[i]
             \/ stack'[i].kind \notin ExitKinds
    PROVE  CodeInv'
  BY SameCode DEF CodeInv

LEMMA PushCode ==
    ASSUME TypeOK, NEW f \in Frame, stack' = Push(f), f.kind \notin ExitKinds
    PROVE  \A i \in DOMAIN stack' : \/ i \in DOMAIN stack /\ stack'[i] = stack[i]
                                    \/ stack'[i].kind \notin ExitKinds
  BY Shape, PushShape

LEMMA PopCode ==
    ASSUME TypeOK, ~Idle, stack' = Below
    PROVE  \A i \in DOMAIN stack' : i \in DOMAIN stack /\ stack'[i] = stack[i]
  BY Shape, PopShape

LEMMA NextCode == ASSUME TypeOK, IInv, CodeInv, [Next]_vars PROVE CodeInv'
<1> USE DEF startVars, loadVars, exitVars, userVars
<1>1. CASE GoExit \/ ExitEmit \/ ExitDone
  BY <1>1, ExitStepsCode
<1>2. CASE Tick \/ BeforeExit
  <2>1. /\ CheckedExit(0, "hook") /\ Idle /\ (tick \/ listening)
        /\ UNCHANGED <<requested, events, crashed>>
    BY <1>2 DEF Tick, BeforeExit
  <2>2. go \in {"waiting", "exited"}
    BY <2>1, HookPhase DEF TypeOK
  <2> QED
    BY <2>1, <2>2, CheckedExitCode
<1>3. ASSUME NEW n \in Codes, UserExit(n) PROVE CodeInv'
  <2>1. /\ CheckedExit(n, "exit") /\ UNCHANGED <<events, crashed>> /\ n \in Nat
        /\ requested' = IF exitCalled THEN requested ELSE n
    BY <1>3, LifecycleAssumption DEF UserExit
  <2>2. go \in {"waiting", "exited"}
    BY <1>3, UserPhase DEF UserExit
  <2> QED
    BY <2>1, <2>2, CheckedExitCode
<1>4. CASE GoCrash
  BY <1>4 DEF GoCrash, CodeInv
<1>5. CASE LoadStep
  <2>1. stack' = stack \/ stack' = <<RunFrame>>
    BY <1>5 DEF LoadStep
  <2>2. \A i \in DOMAIN stack' : \/ i \in DOMAIN stack /\ stack'[i] = stack[i]
                                 \/ stack'[i].kind \notin ExitKinds
    BY <2>1 DEF RunFrame, ExitKinds
  <2> QED
    BY <1>5, <2>2, OtherStepsCode DEF LoadStep
<1>6. CASE LoadFails \/ GoTimer \/ TimerFires \/ UserListens \/ UNCHANGED vars
  <2>1. UNCHANGED <<requested, events, crashed, exitCalled, stack>>
    BY <1>6 DEF LoadFails, GoTimer, TimerFires, UserListens, vars
  <2> QED
    BY <2>1, OtherStepsCode
<1>7. CASE InvokeUid
  <2>1. InitFrame \in Frame /\ InitFrame.kind \notin ExitKinds
    BY FrameTypes DEF InitFrame, ExitKinds
  <2> QED
    BY <1>7, <2>1, PushCode, OtherStepsCode DEF InvokeUid
<1>8. CASE InitOk \/ InitFails \/ MainWaits \/ ListenerReturns \/ OptReturns \/ ApiReturns
  <2>1. ~Idle /\ stack' = Below /\ UNCHANGED <<requested, events, crashed, exitCalled>>
    BY <1>8 DEF InitOk, InitFails, MainWaits, ListenerReturns, OptReturns, ApiReturns, On, OnAny
  <2> QED
    BY <2>1, PopCode, OtherStepsCode
<1>9. CASE OptReturnsLate
  <2>1. Len(stack) \in Nat /\ Len(stack) > 1 /\ DOMAIN stack = 1 .. Len(stack)
    BY <1>9, OptTop DEF OptReturnsLate
  <2>2. \A i \in DOMAIN stack' : i \in DOMAIN stack /\ stack'[i] = stack[i]
    BY <1>9, <2>1, PopTwoShape DEF OptReturnsLate
  <2> QED
    BY <1>9, <2>2, OtherStepsCode DEF OptReturnsLate
<1>10. CASE ApiOption
  <2>1. On("api") /\ Top.n > 0
    BY <1>10 DEF ApiOption
  <2>2. PICK f \in Frame, g \in Frame :
          /\ f = ApiFrame(Top.call, Top.n - 1) /\ g = OptFrame(Top.call)
          /\ f.kind \notin ExitKinds /\ g.kind \notin ExitKinds
    <3>1. ~Idle /\ Top.call \in Calls
      BY <2>1, ApiTop
    <3>2. Top.n - 1 \in Nat
      BY <2>1, <3>1, StackTypes DEF TypeOK
    <3>3. ApiFrame(Top.call, Top.n - 1) \in Frame /\ OptFrame(Top.call) \in Frame
      BY <3>1, <3>2, FrameTypes
    <3>4. /\ ApiFrame(Top.call, Top.n - 1).kind \notin ExitKinds
          /\ OptFrame(Top.call).kind \notin ExitKinds
      BY DEF ApiFrame, OptFrame, ExitKinds
    <3> QED
      BY <3>3, <3>4
  <2>3. ~Idle /\ stack' = Append(Replace(f), g)
    BY <1>10, <2>1, <2>2 DEF ApiOption, On, OnAny
  <2>4. \A i \in DOMAIN stack' : \/ i \in DOMAIN stack /\ stack'[i] = stack[i]
                                 \/ stack'[i].kind \notin ExitKinds
    <3>1. PICK L \in Nat \ {0} : L = Len(stack) /\ DOMAIN stack = 1 .. L
      BY <2>3, Shape
    <3>2. \A i \in DOMAIN stack' :
            \/ i \in 1 .. (L - 1) /\ stack'[i] = stack[i]
            \/ stack'[i] = f \/ stack'[i] = g
      BY <2>3, <3>1, ReplacePushShape
    <3> QED
      BY <2>2, <3>1, <3>2
  <2> QED
    BY <1>10, <2>4, OtherStepsCode DEF ApiOption
<1>11. ASSUME NEW c \in Calls, NEW n \in 0 .. MaxOptions, UserCall(c, n) PROVE CodeInv'
  <2>1. UNCHANGED <<requested, events, crashed, exitCalled>>
    BY <1>11 DEF UserCall
  <2>2. CASE stack' = stack
    BY <2>1, <2>2, OtherStepsCode
  <2>3. CASE stack' = Push(ApiFrame(c, n))
    <3>1. ApiFrame(c, n) \in Frame /\ ApiFrame(c, n).kind \notin ExitKinds
      BY FrameTypes, LifecycleAssumption DEF ApiFrame, ExitKinds
    <3> QED
      BY <2>1, <2>3, <3>1, PushCode, OtherStepsCode
  <2> QED
    BY <1>11, <2>2, <2>3 DEF UserCall
<1> QED
  BY <1>1, <1>2, <1>3, <1>4, <1>5, <1>6, <1>7, <1>8, <1>9, <1>10, <1>11 DEF Next, Internal

(* The 'exit' event has the code that exit() was asked for. *)
THEOREM ReportsCode == Spec => []ExitCodeReported
<1>1. Init => CodeInv
  BY DEF Init, CodeInv
<1>2. TypeOK /\ IInv /\ CodeInv /\ [Next]_vars => CodeInv'
  BY NextCode
<1>3. CodeInv => ExitCodeReported
  BY DEF CodeInv, ExitCodeReported, Asked
<1> QED
  BY <1>1, <1>2, <1>3, Inductive, PTL DEF Spec

-----------------------------------------------------------------------------
(* What is final, for every instance that keeps the contract: a settled promise *)
(* and a settled call stay as they are, and 'exit' is the last event.           *)
Final ==
    /\ promise # "pending" => promise' = promise
    /\ \A c \in Calls : calls[c] \in {"fulfilled", "rejected"} => calls'[c] = calls[c]
    /\ Delivered("exit") => events' = events

LEMMA ContractFinal ==
    ASSUME calls \in [Calls -> CallStates], EventInv, [Contract!Next]_(Contract!vars)
    PROVE  Final
<1>1. CASE Contract!Settle
  <2>1. events = <<>>
    BY <1>1 DEF Contract!Settle
  <2>2. ~Delivered("exit")
    BY <2>1 DEF Delivered
  <2> QED
    BY <1>1, <2>2 DEF Contract!Settle, Final
<1>2. ASSUME NEW n \in 1 .. (CodeModulus - 1), Contract!Error(n) PROVE Final
  <2>1. events = <<>> /\ UNCHANGED <<promise, calls>>
    BY <1>2 DEF Contract!Error, Contract!Open
  <2>2. ~Delivered("exit")
    BY <2>1 DEF Delivered
  <2> QED
    BY <2>1, <2>2 DEF Final
<1>3. CASE Contract!Exit
  <2>1. UNCHANGED <<promise, calls>>
    BY <1>3 DEF Contract!Exit
  <2>2. \/ events = <<>> \/ \E n \in 1 .. (CodeModulus - 1) : events = <<Event("error", n)>>
    BY <1>3 DEF Contract!Exit, Contract!Open, Contract!Event, Event
  <2>3. \A i \in DOMAIN events : events[i].name # "exit"
    BY <2>2 DEF Event
  <2> QED
    BY <2>1, <2>3 DEF Final, Delivered
<1>4. ASSUME NEW c \in Calls, Contract!Begin(c) \/ Contract!Fulfil(c) \/ Contract!Reject(c)
      PROVE  Final
  <2>1. /\ calls[c] \in {"unused", "pending"} /\ UNCHANGED <<promise, events>>
        /\ \E s : calls' = [calls EXCEPT ![c] = s]
    BY <1>4 DEF Contract!Begin, Contract!Fulfil, Contract!Reject
  <2> QED
    BY <2>1 DEF Final
<1>5. CASE UNCHANGED Contract!vars
  BY <1>5 DEF Contract!vars, Final
<1> QED
  BY <1>1, <1>2, <1>3, <1>4, <1>5 DEF Contract!Next

LEMMA EventsInv == Spec => []EventInv
<1>1. Contract!Init => EventInv
  BY DEF Contract!Init, EventInv
<1>2. EventInv /\ [Contract!Next]_(Contract!vars) => EventInv'
  BY EventStep
<1> QED
  BY <1>1, <1>2, Refinement, PTL DEF KeepsContract, Contract!Spec

LEMMA StepFinal == ASSUME TypeOK, IInv, EventInv, [Next]_vars PROVE Final
  BY StepContract, ContractFinal DEF TypeOK

(* makeWebAuthn's promise, the promise of a call and the events after 'exit'
   do not change any more, whoever asks again or answers late. *)
THEOREM SettledIsFinal == Spec => [][Final]_vars
<1>1. TypeOK /\ IInv /\ EventInv /\ [Next]_vars => [Final]_vars
  BY StepFinal
<1> QED
  BY <1>1, Inductive, EventsInv, PTL DEF Spec

-----------------------------------------------------------------------------
(* How far the sentences of index.d.ts on exit() go.                           *)

(* Only who has the instance can ask for an exit. *)
ResolvedInv == requested # NoCode => promise = "resolved"

LEMMA NextResolved == ASSUME TypeOK, IInv, EventInv, ResolvedInv, [Next]_vars PROVE ResolvedInv'
<1>1. promise = "resolved" => promise' = "resolved"
  BY StepFinal DEF Final
<1>2. CASE \E n \in Codes : UserExit(n)
  BY <1>1, <1>2 DEF UserExit, UserRuns, ResolvedInv
<1>3. CASE requested' = requested
  BY <1>1, <1>3 DEF ResolvedInv
<1>4. CASE Internal
  <2>1. requested' = requested
    BY <1>4 DEF Internal, exitVars, LoadStep, LoadFails, InvokeUid, InitOk, InitFails, MainWaits,
       Tick, GoExit, ExitEmit, ExitDone, ListenerReturns, ApiOption, OptReturns, OptReturnsLate,
       ApiReturns
  <2> QED
    BY <1>3, <2>1
<1>5. CASE \/ BeforeExit \/ GoCrash \/ GoTimer \/ TimerFires \/ UserListens
           \/ (\E c \in Calls, n \in 0 .. MaxOptions : UserCall(c, n)) \/ UNCHANGED vars
  <2>1. requested' = requested
    BY <1>5 DEF vars, exitVars, BeforeExit, GoCrash, GoTimer, TimerFires, UserListens, UserCall
  <2> QED
    BY <1>3, <2>1
<1> QED
  BY <1>2, <1>4, <1>5 DEF Next

(* An exit that was asked for is under way until its 'exit' event is out. *)
UnderWay == {"goExit", "exitEmit"}

AskedInv ==
    /\ ResolvedInv
    /\ requested # NoCode /\ ~crashed =>
         Delivered("exit") \/ \E i \in DOMAIN stack : stack[i].kind \in UnderWay

(* Somebody listens to 'error' when exit() is given a code that needs it. *)
Listened == requested # NoCode /\ requested % CodeModulus # 0 => errListener

LEMMA StaysUnderWay ==
    ASSUME TypeOK, IInv, EventInv, AskedInv, [Next]_vars, UNCHANGED <<requested, crashed>>,
           \A i \in DOMAIN stack : stack[i].kind \in UnderWay =>
             i \in DOMAIN stack' /\ stack'[i] = stack[i]
    PROVE  AskedInv'
<1>1. Final
  BY StepFinal
<1> QED
  BY <1>1 DEF AskedInv, ResolvedInv, Final, Delivered

LEMMA PushUnderWay ==
    ASSUME TypeOK, NEW f \in Frame, stack' = Push(f)
    PROVE  \A i \in DOMAIN stack : i \in DOMAIN stack' /\ stack'[i] = stack[i]
  BY Shape, PushShape

LEMMA PopUnderWay ==
    ASSUME TypeOK, ~Idle, stack' = Below, Top.kind \notin UnderWay
    PROVE  \A i \in DOMAIN stack : stack[i].kind \in UnderWay =>
             i \in DOMAIN stack' /\ stack'[i] = stack[i]
<1>1. PICK L \in Nat \ {0} : L = Len(stack) /\ DOMAIN stack = 1 .. L /\ Top = stack[L]
  BY Shape DEF Top
<1> QED
  BY <1>1, PopShape

(* go.exit gets as far as its 'exit' event: nothing throws out of it. *)
LEMMA ExitGoesOn ==
    ASSUME TypeOK, IInv, CodeInv, AskedInv, Listened, requested # NoCode, ~crashed, GoExit
    PROVE  \E i \in DOMAIN stack' : stack'[i].kind \in UnderWay
<1>0. /\ OnAny(ExitKinds) /\ ~Idle /\ Top.kind = "goExit" /\ Top.kind \in ExitKinds
      /\ methods /\ ~initErr
  BY DEF GoExit, On, OnAny, ExitKinds, AskedInv, ResolvedInv, IInv, StartInv
<1>1. PICK L \in Nat \ {0} : L = Len(stack) /\ DOMAIN stack = 1 .. L /\ stack[L] = Top
  BY <1>0, ExitTop
<1>2. Top.n = requested % CodeModulus
  <2>1. L \in DOMAIN stack
    BY <1>1
  <2> QED
    BY <1>0, <1>1, <2>1 DEF CodeInv, Asked
<1>3. \/ stack' = Becomes("exitEmit")
      \/ stack' = Append(Becomes("exitEmit"), ListenerFrame("onError"))
  <2>1. CASE NeedsError
    <3>1. errListener
      BY <1>0, <1>2, <2>1 DEF NeedsError, Listened
    <3> QED
      BY <1>0, <2>1, <3>1 DEF GoExit, ReportError, AfterError
  <2>2. CASE ~NeedsError
    BY <1>0, <2>2 DEF GoExit
  <2> QED
    BY <2>1, <2>2
<1>4. PICK f \in Frame : Becomes("exitEmit") = Replace(f) /\ f.kind = "exitEmit"
  BY <1>0, Becoming, Names
<1>5. PICK g \in Frame : g = ListenerFrame("onError")
  BY FrameTypes, Names
<1>6. L \in DOMAIN stack' /\ stack'[L] = f
  <2>1. CASE stack' = Replace(f)
    BY <1>0, <1>1, <2>1, ReplaceShape
  <2>2. CASE stack' = Append(Replace(f), g)
    BY <1>0, <1>1, <2>2, ReplacePushShape
  <2> QED
    BY <1>3, <1>4, <1>5, <2>1, <2>2
<1> QED
  BY <1>4, <1>6 DEF UnderWay

LEMMA NextAsked ==
    ASSUME TypeOK, IInv, EventInv, CodeInv, AskedInv, Listened, [Next]_vars
    PROVE  AskedInv'
<1> USE DEF startVars, loadVars, exitVars, userVars
<1>0. Final
  BY StepFinal
<1>1. CASE GoExit
  BY <1>0, <1>1, ExitGoesOn DEF GoExit, AskedInv, ResolvedInv, Final, Delivered
<1>2. CASE ExitEmit
  <2>1. events \in Seq(Events) /\ events' = Append(events, Event("exit", Top.n))
    BY <1>2 DEF ExitEmit, TypeOK
  <2>2. Delivered("exit")'
    <3>1. Len(events) + 1 \in DOMAIN events' /\ events'[Len(events) + 1] = Event("exit", Top.n)
      BY <2>1
    <3> QED
      BY <3>1 DEF Delivered, Event
  <2> QED
    BY <1>0, <1>2, <2>2 DEF ExitEmit, AskedInv, ResolvedInv, Final
<1>3. CASE ExitDone
  <2>1. Top.kind = "exitDone" /\ OnAny(ExitKinds)
    BY <1>3 DEF ExitDone, On, OnAny, ExitKinds
  <2>2. PICK L \in Nat \ {0} : L = Len(stack) /\ DOMAIN stack = 1 .. L /\ stack[L] = Top /\ ReportInv(L)
    BY <2>1, ExitTop
  <2>3. requested # NoCode => Delivered("exit")
    BY <2>1, <2>2 DEF ReportInv, AskedInv, ResolvedInv, IInv, StartInv
  <2> QED
    BY <1>0, <1>3, <2>3 DEF ExitDone, AskedInv, ResolvedInv, Final, Delivered
<1>4. CASE Tick \/ BeforeExit
  <2>1. /\ CheckedExit(0, "hook") /\ Idle /\ UNCHANGED <<requested, crashed>>
    BY <1>4 DEF Tick, BeforeExit
  <2>2. DOMAIN stack = {}
    BY <2>1, Shape
  <2> QED
    BY <2>1, <2>2, StaysUnderWay
<1>5. ASSUME NEW n \in Codes, UserExit(n) PROVE AskedInv'
  <2>1. /\ CheckedExit(n, "exit") /\ UNCHANGED <<events, crashed>> /\ n \in Nat
        /\ requested' = IF exitCalled THEN requested ELSE n
        /\ promise = "resolved" /\ promise' = promise
    BY <1>5, LifecycleAssumption DEF UserExit, UserRuns
  <2>2. CASE exitCalled
    BY <2>1, <2>2, StaysUnderWay DEF CheckedExit
  <2>3. CASE ~exitCalled /\ go = "exited"
    BY <2>1, <2>3 DEF IInv, ExitInv, AskedInv, ResolvedInv
  <2>4. CASE ~exitCalled /\ go # "exited"
    <3>1. PICK f \in Frame : f = ExitFrame(NoCall, ExitCode(n), "exit")
      BY <2>1, FrameTypes, CodeType, Names
    <3>2. stack' = Push(f) /\ f.kind \in UnderWay
      BY <2>1, <2>4, <3>1 DEF CheckedExit, EnterExit, ResumeThrows, ExitFrame, UnderWay
    <3>3. Len(stack) + 1 \in DOMAIN stack' /\ stack'[Len(stack) + 1] = f
      BY <3>2, Shape, PushShape
    <3> QED
      BY <2>1, <3>2, <3>3 DEF AskedInv, ResolvedInv
  <2> QED
    BY <2>2, <2>3, <2>4
<1>6. CASE GoCrash
  BY <1>0, <1>6 DEF GoCrash, AskedInv, ResolvedInv
<1>7. CASE LoadStep
  <2>1. requested = NoCode /\ requested' = requested
    BY <1>7 DEF LoadStep, AskedInv, ResolvedInv, IInv, StartInv
  <2> QED
    BY <2>1 DEF AskedInv, ResolvedInv
<1>8. CASE LoadFails \/ GoTimer \/ TimerFires \/ UserListens \/ UNCHANGED vars
  <2>1. UNCHANGED <<requested, crashed, stack>>
    BY <1>8 DEF LoadFails, GoTimer, TimerFires, UserListens, vars
  <2> QED
    BY <2>1, StaysUnderWay
<1>9. CASE InvokeUid
  BY <1>9, FrameTypes, PushUnderWay, StaysUnderWay DEF InvokeUid
<1>10. CASE InitOk \/ InitFails \/ MainWaits \/ ListenerReturns \/ OptReturns \/ ApiReturns
  <2>1. /\ ~Idle /\ stack' = Below /\ UNCHANGED <<requested, crashed>>
        /\ Top.kind \notin UnderWay
    BY <1>10 DEF InitOk, InitFails, MainWaits, ListenerReturns, OptReturns, ApiReturns, On, OnAny,
       UnderWay
  <2> QED
    BY <2>1, PopUnderWay, StaysUnderWay
<1>11. CASE OptReturnsLate
  <2>0. On("opt")
    BY <1>11 DEF OptReturnsLate
  <2>1. PICK L : /\ L \in Nat /\ L = Len(stack) /\ L > 1 /\ DOMAIN stack = 1 .. L
                 /\ stack[L].kind = "opt" /\ stack[L - 1].kind = "api"
    <3>1. Len(stack) \in Nat \ {0, 1}
      BY <2>0, OptTop
    <3>2. /\ DOMAIN stack = 1 .. Len(stack)
          /\ stack[Len(stack)].kind = "opt" /\ stack[Len(stack) - 1].kind = "api"
      BY <2>0, OptTop
    <3> QED
      BY <3>1, <3>2
  <2>2. \A i \in DOMAIN stack : stack[i].kind \in UnderWay => i \in DOMAIN stack' /\ stack'[i] = stack[i]
    <3>1. DOMAIN stack' = 1 .. (L - 2) /\ \A i \in 1 .. (L - 2) : stack'[i] = stack[i]
      BY <1>11, <2>1, PopTwoShape DEF OptReturnsLate
    <3>2. \A i \in 1 .. L : i \in 1 .. (L - 2) \/ i = L \/ i = L - 1
      BY <2>1
    <3> QED
      BY <2>1, <3>1, <3>2 DEF UnderWay
  <2> QED
    BY <1>11, <2>2, StaysUnderWay DEF OptReturnsLate
<1>12. CASE ApiOption
  <2>1. On("api") /\ Top.n > 0
    BY <1>12 DEF ApiOption
  <2>2. PICK f \in Frame, g \in Frame : f = ApiFrame(Top.call, Top.n - 1) /\ g = OptFrame(Top.call)
    <3>1. ~Idle /\ Top.call \in Calls
      BY <2>1, ApiTop
    <3>2. Top.n - 1 \in Nat
      BY <2>1, <3>1, StackTypes DEF TypeOK
    <3> QED
      BY <3>1, <3>2, FrameTypes
  <2>3. ~Idle /\ stack' = Append(Replace(f), g) /\ Top.kind = "api"
    BY <1>12, <2>1, <2>2 DEF ApiOption, On, OnAny
  <2>4. PICK L \in Nat \ {0} : L = Len(stack) /\ DOMAIN stack = 1 .. L /\ Top = stack[L]
    BY <2>3, Shape DEF Top
  <2>5. \A i \in DOMAIN stack : stack[i].kind \in UnderWay => i \in DOMAIN stack' /\ stack'[i] = stack[i]
    <3>1. DOMAIN stack' = 1 .. (L + 1) /\ \A i \in 1 .. (L - 1) : stack'[i] = stack[i]
      BY <2>3, <2>4, ReplacePushShape
    <3>2. stack[L].kind \notin UnderWay
      BY <2>3, <2>4 DEF UnderWay
    <3> QED
      BY <2>4, <3>1, <3>2
  <2> QED
    BY <1>12, <2>5, StaysUnderWay DEF ApiOption
<1>13. ASSUME NEW c \in Calls, NEW n \in 0 .. MaxOptions, UserCall(c, n) PROVE AskedInv'
  <2>1. CASE stack' = stack
    BY <1>13, <2>1, StaysUnderWay DEF UserCall
  <2>2. CASE stack' = Push(ApiFrame(c, n))
    <3>1. ApiFrame(c, n) \in Frame
      BY FrameTypes, LifecycleAssumption
    <3> QED
      BY <1>13, <2>2, <3>1, PushUnderWay, StaysUnderWay DEF UserCall
  <2> QED
    BY <1>13, <2>1, <2>2 DEF UserCall
<1> QED
  BY <1>1, <1>2, <1>3, <1>4, <1>5, <1>6, <1>7, <1>8, <1>9, <1>10, <1>11, <1>12, <1>13
     DEF Next, Internal

LEMMA CodesAgree == Spec => []CodeInv
<1>1. Init => CodeInv
  BY DEF Init, CodeInv
<1> QED
  BY <1>1, NextCode, Inductive, PTL DEF Spec

(* "A exit event will be fired once the Web Assembly code exits": so it is,
   unless Go crashed, if somebody listened to 'error' when exit() was given a
   code that is not 0 as an int32.  That is all that DocExitFires lacks. *)
THEOREM ExitFires == Spec /\ []Listened => [](~crashed => DocExitFires)
<1>1. Init => AskedInv
  BY DEF Init, AskedInv, ResolvedInv
<1>2. TypeOK /\ IInv /\ EventInv /\ CodeInv /\ AskedInv /\ Listened /\ [Next]_vars => AskedInv'
  BY NextAsked
<1>3. TypeOK /\ AskedInv => (~crashed => DocExitFires)
  <2> SUFFICES ASSUME TypeOK, AskedInv, ~crashed, Idle, requested # NoCode PROVE Delivered("exit")
    BY DEF DocExitFires
  <2>1. DOMAIN stack = {}
    BY Shape
  <2> QED
    BY <2>1 DEF AskedInv
<1> QED
  BY <1>1, <1>2, <1>3, Inductive, EventsInv, CodesAgree, PTL DEF Spec

NonZeroErrs ==
    requested # NoCode /\ requested % CodeModulus # 0 /\ ~crashed /\ Delivered("exit")
    => Delivered("error")

(* "If this parameter is non-zero [...] error event will be fired before the
   exit event": so it is for every code that is not 0 as an int32.  That is all
   that DocNonZeroErrs lacks. *)
THEOREM NonZeroReported == Spec => []NonZeroErrs
<1>1. Init => ResolvedInv
  BY DEF Init, ResolvedInv
<1>2. TypeOK /\ IInv /\ EventInv /\ ResolvedInv /\ [Next]_vars => ResolvedInv'
  BY NextResolved
<1>3. EventOrder /\ ExitCodeReported /\ ResolvedInv => NonZeroErrs
  <2> SUFFICES ASSUME EventOrder, ExitCodeReported, promise = "resolved", requested # NoCode,
                      requested % CodeModulus # 0, ~crashed, Delivered("exit")
               PROVE  Delivered("error")
    BY DEF NonZeroErrs, ResolvedInv
  <2>1. PICK i \in DOMAIN events : events[i].name = "exit"
    BY DEF Delivered
  <2>2. events[i].code # 0
    BY <2>1 DEF ExitCodeReported
  <2> QED
    BY <2>1, <2>2 DEF EventOrder
<1> QED
  BY <1>1, <1>2, <1>3, Inductive, EventsInv, EventsInOrder, ReportsCode, PTL DEF Spec

=============================================================================
