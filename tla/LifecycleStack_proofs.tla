---------------------- MODULE LifecycleStack_proofs ----------------------
(***************************************************************************)
(* The inductive invariant of Lifecycle, for any number of calls, options  *)
(* and codes: what may lie where on the stack.  It says which frame may be *)
(* above which, that go.exit has one frame at most, and what each frame    *)
(* knows of the promise, the events and the call it serves.                *)
(***************************************************************************)
EXTENDS Lifecycle_proofs

(* A frame that holds the promise of call c: its handler, or the go.exit that
   replaced the handler when Go crashed in it. *)
Holds(f, c) ==
    f.call = c /\ (f.kind = "api" \/ (f.kind \in ExitKinds /\ f.from = "api"))

RunInv(i) == stack[i].kind = "run" =>
    /\ i = 1
    /\ hooked => methods \/ initErr \/ Len(stack) = 2
    /\ ~hooked => promise = "pending" /\ Len(stack) = 1
    /\ Len(stack) = 1 => go = "main"
    /\ Len(stack) > 1 =>
         stack[2].kind = "init" \/ (stack[2].kind \in ExitKinds /\ stack[2].from = "init")

InitInv(i) == stack[i].kind = "init" =>
    /\ i = 2 /\ Len(stack) = 2 /\ stack[1].kind = "run" /\ go = "main"
    /\ hooked /\ ~methods /\ ~initErr /\ promise = "pending"

ApiInv(i) == stack[i].kind = "api" =>
    /\ stack[i].call \in Calls /\ calls[stack[i].call] = "pending"
    /\ methods /\ go \in {"waiting", "exited"}
    /\ i = Len(stack) => go = "waiting"

(* What a frame lies on. *)
BelowInv(i) ==
    /\ stack[i].kind = "opt" =>
         i > 1 /\ stack[i - 1].kind = "api" /\ stack[i].call = stack[i - 1].call
    /\ stack[i].kind = "onError" => i > 1 /\ stack[i - 1].kind = "exitEmit"
    /\ stack[i].kind = "onExit" => i > 1 /\ stack[i - 1].kind = "exitDone"
    /\ stack[i].kind \in UserKinds => methods
    /\ i > 1 /\ (stack[i].kind = "api" \/ (stack[i].kind \in ExitKinds /\ stack[i].from # "init")) =>
         stack[i - 1].kind \in UserKinds

(* Who entered Go before it exited. *)
OriginInv(i) == stack[i].kind \in ExitKinds =>
    /\ go = "exited" /\ stack[i].from # "none"
    /\ stack[i].from \in {"run", "init", "api"} => crashed /\ stack[i].n # 0
    /\ stack[i].from = "api" =>
         stack[i].call \in Calls /\ calls[stack[i].call] = "pending" /\ methods
    /\ stack[i].from = "exit" => methods
    /\ stack[i].from = "init" =>
         i = 2 /\ Len(stack) = 2 /\ stack[1].kind = "run" /\ ~methods /\ ~initErr
    /\ stack[i].from \in {"run", "hook"} => i = 1
    /\ stack[i].from = "hook" => stack[i].n = 0 /\ (methods \/ initErr)

(* What go.exit has reported so far. *)
ReportInv(i) ==
    /\ stack[i].kind = "goExit" =>
         i = Len(stack) /\ events = <<>> /\ (promise = "pending" \/ methods)
    /\ stack[i].kind = "exitEmit" =>
         /\ ~initErr
         /\ methods /\ stack[i].n # 0 => events = <<Event("error", stack[i].n)>>
         /\ ~methods \/ stack[i].n = 0 => events = <<>>
         /\ methods \/ (promise = "rejected" /\ stack[i].n # 0)
    /\ stack[i].kind = "exitDone" /\ methods => Delivered("exit")
    /\ stack[i].kind = "exitDone" /\ stack[i].from = "api" => Delivered("error")

StackInv ==
    \A i \in DOMAIN stack :
        /\ RunInv(i) /\ InitInv(i) /\ ApiInv(i) /\ BelowInv(i)
        /\ OriginInv(i) /\ ReportInv(i)

(* Frames that cannot occur twice. *)
UniqueInv ==
    \A i, j \in DOMAIN stack :
        /\ stack[i].kind \in ExitKinds /\ stack[j].kind \in ExitKinds => i = j
        /\ \A c \in Calls : Holds(stack[i], c) /\ Holds(stack[j], c) => i = j

(* How the start-up, the Go program and the events go together. *)
StartInv ==
    /\ promise = "pending" <=> cbCalls = 0
    /\ cbCalls <= 1
    /\ methods <=> promise = "resolved"
    /\ initErr => ~methods /\ (go # "exited" => promise = "pending")
    /\ stage # "done" => go = "none" /\ promise = "pending" /\ proc = "alive"
    /\ go = "none" => Idle /\ ~methods /\ ~initErr /\ ~hooked /\ ~tick /\ ~listening
    /\ go = "main" => ~Idle /\ stack[1].kind = "run"
    /\ tick => initErr
    /\ methods \/ initErr \/ listening \/ go = "waiting" => hooked
    /\ go = "waiting" => methods \/ initErr

ExitInv ==
    /\ go # "exited" => events = <<>> /\ ~lateExit
    /\ go \in {"none", "main"} => ~exitCalled
    /\ go = "exited" /\ ~crashed => exitCalled
    /\ lateExit => crashed
    /\ Delivered("error") =>
         methods /\ (Delivered("exit") \/ \E i \in DOMAIN stack : stack[i].kind = "exitEmit")
    /\ hooked /\ Delivered("exit") => exitCalled /\ ~listening
    /\ proc = "killed" => Idle

(* A pending call is held by a frame, unless a reported crash lost it. *)
PendingInv ==
    \A c \in Calls : calls[c] = "pending" =>
        \/ \E i \in DOMAIN stack : Holds(stack[i], c)
        \/ crashed /\ Delivered("error") /\ Delivered("exit")

IInv == StackInv /\ UniqueInv /\ StartInv /\ ExitInv /\ PendingInv

-----------------------------------------------------------------------------
(* How the frames of the next stack relate to those of this one. *)

LEMMA Shape ==
    ASSUME TypeOK
    PROVE  /\ Len(stack) \in Nat /\ DOMAIN stack = 1 .. Len(stack)
           /\ Idle <=> Len(stack) = 0
  BY DEF TypeOK, Idle

LEMMA PushShape ==
    ASSUME TypeOK, NEW f \in Frame, stack' = Push(f)
    PROVE  /\ Len(stack') = Len(stack) + 1 /\ DOMAIN stack' = 1 .. (Len(stack) + 1)
           /\ stack'[Len(stack) + 1] = f
           /\ \A i \in 1 .. Len(stack) : stack'[i] = stack[i]
  BY PushFacts DEF TypeOK, Push

LEMMA PopShape ==
    ASSUME TypeOK, ~Idle, stack' = Below
    PROVE  /\ Len(stack') = Len(stack) - 1 /\ DOMAIN stack' = 1 .. (Len(stack) - 1)
           /\ \A i \in 1 .. (Len(stack) - 1) : stack'[i] = stack[i]
<1>1. Len(stack) - 1 \in 0 .. Len(stack) /\ stack \in Seq(Frame)
  BY DEF TypeOK, Idle
<1> QED
  BY <1>1, PopFacts DEF Below

LEMMA PopTwoShape ==
    ASSUME TypeOK, Len(stack) > 1, stack' = SubSeq(stack, 1, Len(stack) - 2)
    PROVE  /\ Len(stack') = Len(stack) - 2 /\ DOMAIN stack' = 1 .. (Len(stack) - 2)
           /\ \A i \in 1 .. (Len(stack) - 2) : stack'[i] = stack[i]
<1>1. Len(stack) - 2 \in 0 .. Len(stack) /\ stack \in Seq(Frame)
  BY DEF TypeOK
<1> QED
  BY <1>1, PopFacts

LEMMA ReplaceShape ==
    ASSUME TypeOK, ~Idle, NEW f \in Frame, stack' = Replace(f)
    PROVE  /\ Len(stack') = Len(stack) /\ DOMAIN stack' = 1 .. Len(stack)
           /\ stack'[Len(stack)] = f
           /\ \A i \in 1 .. (Len(stack) - 1) : stack'[i] = stack[i]
<1>1. /\ Len(stack) - 1 \in 0 .. Len(stack) /\ stack \in Seq(Frame)
      /\ Len(stack) \in Nat
  BY DEF TypeOK, Idle
<1>2. /\ Below \in Seq(Frame) /\ Len(Below) = Len(stack) - 1
      /\ \A i \in 1 .. (Len(stack) - 1) : Below[i] = stack[i]
  BY <1>1, PopFacts DEF Below
<1> QED
  BY <1>1, <1>2, PushFacts DEF Replace

LEMMA ReplacePushShape ==
    ASSUME TypeOK, ~Idle, NEW f \in Frame, NEW g \in Frame,
           stack' = Append(Replace(f), g)
    PROVE  /\ Len(stack') = Len(stack) + 1 /\ DOMAIN stack' = 1 .. (Len(stack) + 1)
           /\ stack'[Len(stack)] = f /\ stack'[Len(stack) + 1] = g
           /\ \A i \in 1 .. (Len(stack) - 1) : stack'[i] = stack[i]
<1>1. /\ Len(stack) - 1 \in 0 .. Len(stack) /\ stack \in Seq(Frame)
      /\ Len(stack) \in Nat \ {0}
  BY DEF TypeOK, Idle
<1>2. /\ Below \in Seq(Frame) /\ Len(Below) = Len(stack) - 1
      /\ \A i \in 1 .. (Len(stack) - 1) : Below[i] = stack[i]
  BY <1>1, PopFacts DEF Below
<1>3. /\ Replace(f) \in Seq(Frame) /\ Len(Replace(f)) = Len(stack)
      /\ Replace(f)[Len(stack)] = f
      /\ \A i \in 1 .. (Len(stack) - 1) : Replace(f)[i] = stack[i]
  BY <1>1, <1>2, PushFacts DEF Replace
<1> QED
  BY <1>1, <1>3, PushFacts

-----------------------------------------------------------------------------
(* One lemma for each action. *)

LEMMA InitIInv == Init => IInv
  BY DEF Init, IInv, StackInv, UniqueInv, StartInv, ExitInv, PendingInv, Idle, Delivered

(* Nothing that the frames know of changes. *)
frameVars == <<stack, go, methods, initErr, hooked, promise, calls, events, crashed>>

LEMMA SameFrames ==
    ASSUME IInv, UNCHANGED frameVars
    PROVE  StackInv' /\ UniqueInv' /\ PendingInv'
<1>1. StackInv'
  BY DEF frameVars, IInv, StackInv, RunInv, InitInv, ApiInv, BelowInv, OriginInv, ReportInv,
         Delivered
<1>2. UniqueInv' /\ PendingInv'
  BY DEF frameVars, IInv, UniqueInv, PendingInv, Delivered, Holds
<1> QED
  BY <1>1, <1>2

LEMMA LoadStepIInv == ASSUME TypeOK, IInv, LoadStep PROVE IInv'
<1> USE DEF startVars, loadVars, exitVars, userVars
<1>1. /\ stage # "done" /\ go = "none" /\ promise = "pending" /\ proc = "alive"
      /\ Len(stack) = 0 /\ DOMAIN stack = {} /\ Idle
      /\ ~methods /\ ~initErr /\ ~hooked /\ ~tick /\ ~listening
  BY Shape DEF LoadStep, IInv, StartInv
<1>2. /\ UNCHANGED <<hooked, initErr, methods, tick, promise, cbCalls, exitVars,
                     userVars, timer, calls, proc, crashed>>
      /\ \/ stage' # "done" /\ stack' = stack /\ go' = go
         \/ stage' = "done" /\ stack' = <<RunFrame>> /\ go' = "main"
  BY DEF LoadStep
<1>3. CASE stage' # "done" /\ stack' = stack /\ go' = go
  <2>1. StackInv' /\ UniqueInv' /\ PendingInv'
    BY <1>2, <1>3, SameFrames DEF frameVars
  <2>2. StartInv' /\ ExitInv'
    BY <1>1, <1>2, <1>3 DEF IInv, StartInv, ExitInv, Idle, Delivered
  <2> QED
    BY <2>1, <2>2 DEF IInv
<1>4. CASE stage' = "done" /\ stack' = <<RunFrame>> /\ go' = "main"
  <2>1. DOMAIN stack' = {1} /\ Len(stack') = 1 /\ stack'[1] = RunFrame
    BY <1>4
  <2>2. StackInv'
    BY <1>1, <1>2, <1>4, <2>1 DEF StackInv, RunInv, InitInv, ApiInv, BelowInv, OriginInv,
       ReportInv, ExitKinds, UserKinds, RunFrame
  <2>3. UniqueInv'
    BY <2>1 DEF UniqueInv
  <2>4. StartInv' /\ ExitInv' /\ PendingInv'
    <3>1. \A c \in Calls : calls[c] # "pending"
      BY <1>1 DEF IInv, PendingInv, ExitInv, Delivered
    <3> QED
      BY <1>1, <1>2, <1>4, <2>1, <3>1 DEF IInv, StartInv, ExitInv, PendingInv, Idle, Delivered, RunFrame
  <2> QED
    BY <2>2, <2>3, <2>4 DEF IInv
<1> QED
  BY <1>2, <1>3, <1>4

LEMMA LoadFailsIInv == ASSUME TypeOK, IInv, LoadFails PROVE IInv'
<1> USE DEF startVars, loadVars, exitVars, userVars
<1>1. /\ stage # "done" /\ go = "none" /\ promise = "pending" /\ cbCalls = 0
      /\ Len(stack) = 0 /\ DOMAIN stack = {} /\ Idle
      /\ ~methods /\ ~initErr /\ ~hooked /\ ~tick /\ ~listening
  BY Shape DEF LoadFails, IInv, StartInv
<1>2. /\ UNCHANGED <<hooked, initErr, methods, tick, exitVars, userVars, go, timer, calls,
                     stack, proc, crashed>>
      /\ stage' = "done" /\ promise' = "rejected" /\ cbCalls' = 1
  BY <1>1 DEF LoadFails, Callback
<1>3. StackInv' /\ UniqueInv'
  BY <1>1, <1>2 DEF StackInv, UniqueInv
<1>4. StartInv' /\ ExitInv' /\ PendingInv'
  BY <1>1, <1>2 DEF IInv, StartInv, ExitInv, PendingInv, Idle, Delivered, Holds
<1> QED
  BY <1>3, <1>4 DEF IInv

LEMMA InvokeUidIInv == ASSUME TypeOK, IInv, InvokeUid PROVE IInv'
<1> USE DEF startVars, loadVars, exitVars, userVars
<1>1. /\ Len(stack) = 1 /\ stack[1].kind = "run" /\ ~hooked /\ promise = "pending"
      /\ go = "main" /\ ~methods /\ ~initErr
  BY Shape DEF InvokeUid, On, OnAny, Top, IInv, StackInv, RunInv, StartInv
<1>2. /\ DOMAIN stack = {1} /\ Len(stack') = 2 /\ DOMAIN stack' = {1, 2}
      /\ stack'[1] = stack[1] /\ stack'[2] = InitFrame
  BY <1>1, Shape, PushShape, FrameTypes DEF InvokeUid
<1>3. /\ hooked' = TRUE /\ listening' = TRUE
      /\ UNCHANGED <<stage, initErr, methods, tick, promise, cbCalls, exitCalled,
                     requested, lateExit, userVars, go, timer, calls, proc, crashed>>
  BY DEF InvokeUid
<1>4. StackInv'
  BY <1>1, <1>2, <1>3 DEF StackInv, RunInv, InitInv, ApiInv, BelowInv, OriginInv,
     ReportInv, ExitKinds, UserKinds, InitFrame
<1>5. UniqueInv'
  BY <1>1, <1>2 DEF UniqueInv, Holds, InitFrame, ExitKinds
<1>6. StartInv' /\ ExitInv'
  BY <1>1, <1>2, <1>3 DEF IInv, StartInv, ExitInv, Idle, Delivered
<1>7. PendingInv'
  BY <1>1, <1>2, <1>3 DEF IInv, PendingInv, ExitInv, Holds, ExitKinds, Delivered
<1> QED
  BY <1>4, <1>5, <1>6, <1>7 DEF IInv

(* global[uid]'s callback returns into main. *)
LEMMA InitReturns ==
    ASSUME TypeOK, IInv, On("init")
    PROVE  /\ Len(stack) = 2 /\ DOMAIN stack = {1, 2} /\ stack[1].kind = "run"
           /\ stack[2].kind = "init" /\ go = "main" /\ hooked
           /\ ~methods /\ ~initErr /\ promise = "pending" /\ cbCalls = 0
           /\ stage = "done" /\ events = <<>>
           /\ \A c \in Calls : calls[c] # "pending"
           /\ stack' = Below => DOMAIN stack' = {1} /\ Len(stack') = 1 /\ stack'[1] = stack[1]
<1>1. /\ Len(stack) = 2 /\ stack[1].kind = "run"
      /\ stack[2].kind = "init" /\ go = "main" /\ hooked
      /\ ~methods /\ ~initErr /\ promise = "pending"
  BY Shape DEF On, OnAny, Top, IInv, StackInv, InitInv
<1>2. DOMAIN stack = {1, 2}
  BY <1>1, Shape
<1>3. cbCalls = 0 /\ stage = "done" /\ events = <<>>
  BY <1>1 DEF IInv, StartInv, ExitInv
<1>4. \A c \in Calls : calls[c] # "pending"
  <2>1. ~Delivered("exit")
    BY <1>3 DEF Delivered
  <2>2. \A i \in DOMAIN stack : \A c \in Calls : ~Holds(stack[i], c)
    BY <1>1, <1>2 DEF Holds, ExitKinds
  <2> QED
    BY <2>1, <2>2 DEF IInv, PendingInv
<1>5. stack' = Below => DOMAIN stack' = {1} /\ Len(stack') = 1 /\ stack'[1] = stack[1]
  BY <1>1, Shape, PopShape
<1> QED
  BY <1>1, <1>2, <1>3, <1>4, <1>5

LEMMA InitOkIInv == ASSUME TypeOK, IInv, InitOk PROVE IInv'
<1> USE DEF startVars, loadVars, exitVars, userVars
<1>0. On("init") /\ stack' = Below
  BY DEF InitOk
<1>1. /\ stack[1].kind = "run" /\ go = "main" /\ hooked
      /\ ~methods /\ ~initErr /\ promise = "pending" /\ cbCalls = 0
      /\ stage = "done" /\ events = <<>> /\ \A c \in Calls : calls[c] # "pending"
      /\ DOMAIN stack' = {1} /\ Len(stack') = 1 /\ stack'[1] = stack[1]
  BY <1>0, InitReturns
<1>2. /\ methods' = TRUE /\ cbCalls' = 1 /\ promise' = "resolved"
      /\ UNCHANGED <<stage, hooked, initErr, tick, exitVars, userVars, go, timer,
                     calls, proc, crashed>>
  BY <1>1 DEF InitOk, Callback
<1>3. StackInv' /\ UniqueInv'
  BY <1>1, <1>2 DEF StackInv, RunInv, InitInv, ApiInv, BelowInv, OriginInv,
     ReportInv, ExitKinds, UserKinds, UniqueInv
<1>4. StartInv' /\ ExitInv' /\ PendingInv'
  BY <1>1, <1>2 DEF IInv, StartInv, ExitInv, PendingInv, Idle, Delivered
<1> QED
  BY <1>3, <1>4 DEF IInv

LEMMA InitFailsIInv == ASSUME TypeOK, IInv, InitFails PROVE IInv'
<1> USE DEF startVars, loadVars, exitVars, userVars
<1>0. On("init") /\ stack' = Below
  BY DEF InitFails
<1>1. /\ stack[1].kind = "run" /\ go = "main" /\ hooked
      /\ ~methods /\ ~initErr /\ promise = "pending" /\ cbCalls = 0
      /\ stage = "done" /\ events = <<>> /\ \A c \in Calls : calls[c] # "pending"
      /\ DOMAIN stack' = {1} /\ Len(stack') = 1 /\ stack'[1] = stack[1]
  BY <1>0, InitReturns
<1>2. /\ initErr' = TRUE /\ tick' = TRUE
      /\ UNCHANGED <<stage, hooked, methods, promise, cbCalls, exitVars, userVars,
                     go, timer, calls, proc, crashed>>
  BY DEF InitFails
<1>3. StackInv' /\ UniqueInv'
  BY <1>1, <1>2 DEF StackInv, RunInv, InitInv, ApiInv, BelowInv, OriginInv,
     ReportInv, ExitKinds, UserKinds, UniqueInv
<1>4. StartInv' /\ ExitInv' /\ PendingInv'
  BY <1>1, <1>2 DEF IInv, StartInv, ExitInv, PendingInv, Idle, Delivered
<1> QED
  BY <1>3, <1>4 DEF IInv

LEMMA MainWaitsIInv == ASSUME TypeOK, IInv, MainWaits PROVE IInv'
<1> USE DEF startVars, loadVars, exitVars, userVars
<1>1. /\ Len(stack) = 1 /\ DOMAIN stack = {1} /\ stack[1].kind = "run" /\ hooked
      /\ go = "main" /\ (methods \/ initErr)
  <2>1. Len(stack) \in DOMAIN stack /\ stack[Len(stack)].kind = "run" /\ hooked
    BY Shape DEF MainWaits, On, OnAny, Top
  <2>2. RunInv(Len(stack))
    BY <2>1 DEF IInv, StackInv
  <2>3. Len(stack) = 1 /\ stack[1].kind = "run" /\ RunInv(1)
    BY <2>1, <2>2 DEF RunInv
  <2>4. go = "main" /\ (methods \/ initErr)
    BY <2>1, <2>3 DEF RunInv
  <2> QED
    BY <2>1, <2>3, <2>4, Shape
<1>2. DOMAIN stack' = {} /\ Len(stack') = 0 /\ Idle'
  <2>1. Len(stack') = 0 /\ DOMAIN stack' = {}
    BY <1>1, Shape, PopShape DEF MainWaits
  <2> QED
    BY <1>1, <2>1, StackTypes DEF MainWaits, TypeOK, Below, Idle
<1>3. /\ go' = "waiting"
      /\ UNCHANGED <<startVars, exitVars, userVars, timer, calls, proc, crashed>>
  BY DEF MainWaits
<1>4. StackInv' /\ UniqueInv'
  BY <1>2 DEF StackInv, UniqueInv
<1>5. StartInv' /\ ExitInv'
  BY <1>1, <1>2, <1>3 DEF IInv, StartInv, ExitInv, Delivered
<1>6. PendingInv'
  BY <1>1, <1>3 DEF IInv, PendingInv, Holds, ExitKinds, ExitInv, Delivered
<1> QED
  BY <1>4, <1>5, <1>6 DEF IInv

(* checked_exit, from the application or from a hook. *)
LEMMA CheckedExitIInv ==
    ASSUME TypeOK, IInv, NEW n \in Nat, NEW o \in {"exit", "hook"}, CheckedExit(n, o),
           go \in {"waiting", "exited"}, proc = "alive",
           Idle \/ (o = "exit" /\ Top.kind \in UserKinds),
           o = "exit" => methods,
           o = "hook" => n = 0,
           UNCHANGED <<stage, hooked, initErr, methods, promise, cbCalls, calls, events,
                       crashed>>,
           tick' => tick
    PROVE  IInv'
<1>1. CASE exitCalled
  <2>1. UNCHANGED <<exitCalled, listening, lateExit, proc, go, stack>>
    BY <1>1 DEF CheckedExit
  <2>2. StackInv' /\ UniqueInv' /\ PendingInv'
    BY <2>1, SameFrames DEF frameVars
  <2>3. StartInv' /\ ExitInv'
    BY <2>1 DEF IInv, StartInv, ExitInv, Idle, Delivered
  <2> QED
    BY <2>2, <2>3 DEF IInv
<1>2. CASE ~exitCalled /\ go = "exited"
  <2>1. /\ exitCalled' = TRUE /\ listening' = FALSE /\ lateExit' = TRUE
        /\ UNCHANGED <<go, stack>> /\ (proc' = proc \/ Idle)
    BY <1>2 DEF CheckedExit, EnterExit, ResumeThrows
  <2>2. StackInv' /\ UniqueInv' /\ PendingInv'
    BY <2>1, SameFrames DEF frameVars
  <2>3. StartInv'
    BY <1>2, <2>1 DEF IInv, StartInv, Idle
  <2>4. ExitInv'
    BY <1>2, <2>1 DEF IInv, StartInv, ExitInv, Idle, Delivered
  <2> QED
    BY <2>2, <2>3, <2>4 DEF IInv
<1>3. CASE ~exitCalled /\ go = "waiting"
  <2>0. PICK f \in Frame : f = ExitFrame(NoCall, ExitCode(n), o)
    BY FrameTypes, CodeType, Names
  <2>1. /\ exitCalled' = TRUE /\ listening' = FALSE /\ go' = "exited"
        /\ stack' = Push(f) /\ UNCHANGED <<lateExit, proc>>
    BY <1>3, <2>0 DEF CheckedExit, EnterExit, ResumeThrows
  <2>2. /\ f.kind = "goExit" /\ f.from = o
        /\ o = "hook" => f.n = 0
    BY <1>3, <2>0, LifecycleAssumption DEF ExitFrame, ExitCode
  <2>3. /\ Len(stack) \in Nat /\ DOMAIN stack = 1 .. Len(stack)
        /\ DOMAIN stack' = 1 .. (Len(stack) + 1) /\ Len(stack') = Len(stack) + 1
        /\ stack'[Len(stack) + 1] = f
        /\ \A i \in DOMAIN stack : stack'[i] = stack[i]
    BY <2>1, Shape, PushShape
  <2>4. Len(stack) = 0 \/ (o = "exit" /\ Len(stack) > 0 /\ stack[Len(stack)].kind \in UserKinds)
    BY Shape DEF Top
  <2>5. methods \/ initErr
    BY <1>3 DEF IInv, StartInv
  <2>6. events = <<>> /\ (promise = "pending" \/ methods)
    BY <1>3, <2>5 DEF IInv, StartInv, ExitInv
  <2>7. \A i \in DOMAIN stack :
          /\ stack[i].kind \notin ExitKinds /\ stack[i].kind \notin {"run", "init"}
          /\ stack[i].kind = "api" => i # Len(stack)
    <3>1. \A i \in DOMAIN stack : stack[i].kind \notin ExitKinds /\ stack[i].kind # "init"
      BY <1>3 DEF IInv, StackInv, OriginInv, InitInv
    <3>2. \A i \in DOMAIN stack : stack[i].kind # "run"
      BY <1>3, <2>3, <3>1 DEF IInv, StackInv, RunInv, OriginInv, InitInv, BelowInv, ExitKinds
    <3> QED
      BY <2>4, <3>1, <3>2 DEF UserKinds
  <2>8. StackInv'
    <3>1. ASSUME NEW i \in DOMAIN stack
          PROVE  /\ RunInv(i)' /\ InitInv(i)' /\ ApiInv(i)' /\ BelowInv(i)'
                 /\ OriginInv(i)' /\ ReportInv(i)'
      <4>1. /\ ApiInv(i) /\ BelowInv(i) /\ stack'[i] = stack[i]
            /\ i > 1 => stack'[i - 1] = stack[i - 1]
        BY <2>3 DEF IInv, StackInv
      <4>2. /\ stack[i].kind \notin ExitKinds /\ stack[i].kind \notin {"run", "init"}
            /\ stack[i].kind = "api" => i # Len(stack)
        BY <2>7
      <4>3. RunInv(i)' /\ InitInv(i)' /\ OriginInv(i)' /\ ReportInv(i)'
        BY <4>1, <4>2 DEF RunInv, InitInv, OriginInv, ReportInv, ExitKinds
      <4>4. ApiInv(i)'
        BY <2>1, <2>3, <4>1, <4>2 DEF ApiInv
      <4>5. BelowInv(i)'
        BY <4>1, <4>2 DEF BelowInv
      <4> QED
        BY <4>3, <4>4, <4>5
    <3>2. PICK k \in DOMAIN stack' : k = Len(stack) + 1 /\ stack'[k] = f
      BY <2>3
    <3>3. /\ RunInv(k)' /\ InitInv(k)' /\ ApiInv(k)'
          /\ OriginInv(k)' /\ ReportInv(k)'
      BY <2>1, <2>2, <2>3, <2>4, <2>5, <2>6, <3>2 DEF RunInv, InitInv, ApiInv, OriginInv,
         ReportInv, ExitKinds
    <3>4. BelowInv(k)'
      BY <2>2, <2>3, <2>4, <3>2 DEF BelowInv, ExitKinds, UserKinds
    <3>5. DOMAIN stack' = DOMAIN stack \cup {k}
      BY <2>3, <3>2
    <3> QED
      BY <3>1, <3>3, <3>4, <3>5 DEF StackInv
  <2>9. UniqueInv'
    <3>1. \A c \in Calls : ~Holds(f, c)
      BY <2>2 DEF Holds, ExitKinds
    <3> QED
      BY <2>3, <2>7, <3>1 DEF IInv, UniqueInv
  <2>10. PendingInv'
    BY <2>1, <2>3 DEF IInv, PendingInv, Holds, Delivered
  <2>11. StartInv'
    BY <1>3, <2>1 DEF IInv, StartInv
  <2>12. ExitInv'
    BY <1>3, <2>1, <2>6 DEF IInv, ExitInv, Delivered
  <2> QED
    BY <2>8, <2>9, <2>10, <2>11, <2>12 DEF IInv
<1> QED
  BY <1>1, <1>2, <1>3

(* A hook runs once Go has got past main. *)
LEMMA HookPhase ==
    ASSUME IInv, Idle, tick \/ listening
    PROVE  go \notin {"none", "main"}
  BY DEF IInv, StartInv

LEMMA TickIInv == ASSUME TypeOK, IInv, Tick PROVE IInv'
<1>1. /\ CheckedExit(0, "hook") /\ Idle /\ proc = "alive"
      /\ UNCHANGED <<stage, hooked, initErr, methods, promise, cbCalls, calls, events, crashed>>
      /\ tick' => tick
  BY DEF Tick, userVars
<1>2. go \in {"waiting", "exited"}
  BY HookPhase DEF Tick, TypeOK
<1> QED
  BY <1>1, <1>2, CheckedExitIInv

LEMMA BeforeExitIInv == ASSUME TypeOK, IInv, BeforeExit PROVE IInv'
<1>1. /\ CheckedExit(0, "hook") /\ Idle /\ proc = "alive"
      /\ UNCHANGED <<stage, hooked, initErr, methods, promise, cbCalls, calls, events, crashed>>
      /\ tick' => tick
  BY DEF BeforeExit, userVars, startVars, loadVars
<1>2. go \in {"waiting", "exited"}
  BY HookPhase DEF BeforeExit, TypeOK
<1> QED
  BY <1>1, <1>2, CheckedExitIInv

(* Where the application's code may run, Go is waiting or has exited. *)
LEMMA UserPhase ==
    ASSUME TypeOK, IInv, UserRuns
    PROVE  /\ go \in {"waiting", "exited"} /\ methods /\ stage = "done"
           /\ proc = "alive" /\ (Idle \/ Top.kind \in UserKinds)
<1>1. methods /\ proc = "alive" /\ (Idle \/ (~Idle /\ Top.kind \in UserKinds))
  BY DEF UserRuns, OnAny, IInv, StartInv
<1>2. go # "none" /\ stage = "done"
  BY <1>1 DEF IInv, StartInv
<1>3. go # "main"
  <2> SUFFICES ASSUME go = "main" PROVE FALSE
    OBVIOUS
  <2>1. ~Idle /\ stack[1].kind = "run" /\ Len(stack) > 0
    BY Shape DEF IInv, StartInv
  <2>2. Len(stack) = 1
    BY <1>1, <2>1, Shape DEF IInv, StackInv, RunInv, InitInv, OriginInv
  <2> QED
    BY <1>1, <2>1, <2>2 DEF Top, UserKinds
<1> QED
  BY <1>1, <1>2, <1>3 DEF TypeOK

LEMMA UserExitIInv == ASSUME TypeOK, IInv, NEW n \in Codes, UserExit(n) PROVE IInv'
<1>1. /\ CheckedExit(n, "exit") /\ UserRuns /\ n \in Nat
      /\ UNCHANGED <<stage, hooked, initErr, methods, promise, cbCalls, calls, events, crashed>>
      /\ tick' => tick
  BY LifecycleAssumption DEF UserExit, userVars, startVars, loadVars
<1> QED
  BY <1>1, UserPhase, CheckedExitIInv

LEMMA QuietIInv ==
    ASSUME TypeOK, IInv, UNCHANGED frameVars,
           UNCHANGED <<startVars, exitVars>>, Idle \/ proc' = proc,
           proc' # proc => go = "exited"
    PROVE  IInv'
<1>1. StackInv' /\ UniqueInv' /\ PendingInv'
  BY SameFrames
<1>2. StartInv' /\ ExitInv'
  BY DEF frameVars, startVars, loadVars, exitVars, IInv, StartInv, ExitInv, Idle, Delivered, TypeOK
<1> QED
  BY <1>1, <1>2 DEF IInv

LEMMA QuietActions ==
    ASSUME TypeOK, IInv, GoTimer \/ TimerFires \/ UserListens \/ UNCHANGED vars
    PROVE  IInv'
<1>1. /\ UNCHANGED frameVars /\ UNCHANGED <<startVars, exitVars>>
      /\ Idle \/ proc' = proc
      /\ proc' # proc => go = "exited"
  BY DEF GoTimer, TimerFires, UserListens, ResumeThrows, vars, frameVars, startVars, loadVars,
         exitVars, userVars
<1> QED
  BY <1>1, QuietIInv

-----------------------------------------------------------------------------
(* Once Go waits for the exit code, the frames of the start-up are gone. *)
LEMMA NoStartFrames ==
    ASSUME TypeOK, IInv, methods, go # "main"
    PROVE  \A i \in DOMAIN stack :
             /\ stack[i].kind \notin {"run", "init"}
             /\ stack[i].kind \in ExitKinds => stack[i].from # "init"
<1>1. \A i \in DOMAIN stack :
        stack[i].kind # "init" /\ (stack[i].kind \in ExitKinds => stack[i].from # "init")
  BY DEF IInv, StackInv, InitInv, OriginInv
<1>2. ASSUME NEW i \in DOMAIN stack, stack[i].kind = "run" PROVE FALSE
  <2>1. Len(stack) \in Nat /\ DOMAIN stack = 1 .. Len(stack)
    BY Shape
  <2>2. RunInv(i)
    BY DEF IInv, StackInv
  <2> QED
    BY <1>1, <1>2, <2>1, <2>2, Shape DEF RunInv
<1> QED
  BY <1>1, <1>2

(* A step once the instance is initialised, which leaves frames 1 to k. *)
Keeps(k) ==
    /\ methods /\ go # "main" /\ methods' /\ initErr' = initErr
    /\ go' = go \/ go' = "exited"
    /\ crashed => crashed'
    /\ k \in Nat /\ k <= Len(stack) /\ k <= Len(stack') /\ Len(stack') \in Nat
    /\ \A i \in 1 .. k :
         /\ stack'[i] = stack[i] /\ stack[i].kind # "goExit"
         /\ \A c \in Calls : Holds(stack[i], c) => calls'[c] = calls[c]
    /\ events' = events \/ \A i \in 1 .. k : stack[i].kind \notin ExitKinds
    /\ k = Len(stack') /\ k > 0 => stack[k].kind # "api" \/ go' = "waiting"

LEMMA KeepFrames ==
    ASSUME TypeOK, IInv, NEW k \in Nat, Keeps(k)
    PROVE  \A i \in 1 .. k :
             /\ RunInv(i)' /\ InitInv(i)' /\ ApiInv(i)' /\ BelowInv(i)'
             /\ OriginInv(i)' /\ ReportInv(i)'
<1> USE DEF Keeps
<1> SUFFICES ASSUME NEW i \in 1 .. k
             PROVE  /\ RunInv(i)' /\ InitInv(i)' /\ ApiInv(i)' /\ BelowInv(i)'
                    /\ OriginInv(i)' /\ ReportInv(i)'
  OBVIOUS
<1>1. /\ i \in DOMAIN stack /\ stack'[i] = stack[i]
      /\ i > 1 => i - 1 \in 1 .. k /\ stack'[i - 1] = stack[i - 1]
  BY Shape
<1>2. ApiInv(i) /\ BelowInv(i) /\ OriginInv(i) /\ ReportInv(i)
  BY <1>1 DEF IInv, StackInv
<1>3. /\ stack[i].kind \notin {"run", "init"}
      /\ stack[i].kind \in ExitKinds => stack[i].from # "init"
  BY <1>1, NoStartFrames
<1>4. RunInv(i)' /\ InitInv(i)'
  BY <1>1, <1>3 DEF RunInv, InitInv
<1>5. ApiInv(i)'
  <2> SUFFICES ASSUME stack[i].kind = "api" PROVE ApiInv(i)'
    BY <1>1 DEF ApiInv
  <2>1. PICK c \in Calls : c = stack[i].call /\ calls[c] = "pending"
    BY <1>2 DEF ApiInv
  <2>2. calls'[c] = "pending"
    BY <2>1 DEF Holds
  <2>3. i = Len(stack') => go' = "waiting"
    OBVIOUS
  <2> QED
    BY <1>1, <1>2, <2>1, <2>2, <2>3 DEF ApiInv
<1>6. BelowInv(i)'
  BY <1>1, <1>2 DEF BelowInv
<1>7. OriginInv(i)'
  <2> SUFFICES ASSUME stack[i].kind \in ExitKinds PROVE OriginInv(i)'
    BY <1>1 DEF OriginInv
  <2>1. \A c \in Calls : stack[i].from = "api" /\ c = stack[i].call => calls'[c] = calls[c]
    BY DEF Holds
  <2> QED
    BY <1>1, <1>2, <1>3, <2>1 DEF OriginInv
<1>8. ReportInv(i)'
  BY <1>1, <1>2, <1>3 DEF ReportInv, ExitKinds, Delivered
<1> QED
  BY <1>4, <1>5, <1>6, <1>7, <1>8

LEMMA ListenerReturnsIInv == ASSUME TypeOK, IInv, ListenerReturns PROVE IInv'
<1> USE DEF startVars, loadVars, exitVars, userVars
<1> DEFINE L == Len(stack)
<1>1. /\ L \in Nat \ {0} /\ DOMAIN stack = 1 .. L /\ ~Idle
      /\ stack[L].kind \in {"onError", "onExit"} /\ stack' = Below
      /\ UNCHANGED <<startVars, exitVars, userVars, go, timer, calls, proc, crashed>>
  BY Shape DEF ListenerReturns, OnAny, Top
<1>2. /\ L - 1 \in DOMAIN stack /\ stack[L - 1].kind \in {"exitEmit", "exitDone"}
      /\ go = "exited" /\ stack[L - 1].kind \in ExitKinds
  <2>1. L > 1 /\ stack[L - 1].kind \in {"exitEmit", "exitDone"}
    BY <1>1 DEF IInv, StackInv, BelowInv
  <2> QED
    BY <1>1, <2>1 DEF IInv, StackInv, OriginInv, ExitKinds
<1>3. /\ Len(stack') = L - 1 /\ DOMAIN stack' = 1 .. (L - 1)
      /\ \A i \in 1 .. (L - 1) : stack'[i] = stack[i]
  BY <1>1, PopShape
<1>4. /\ methods /\ UNCHANGED <<methods, initErr, events, crashed, promise>>
      /\ \A i \in 1 .. (L - 1) : stack[i].kind # "goExit"
  BY <1>1 DEF IInv, StackInv, BelowInv, UserKinds, ReportInv
<1>5. StackInv'
  <2>0. L - 1 \in Nat
    BY <1>1
  <2>1. PICK k \in Nat : k = L - 1
    BY <2>0
  <2>2. \A i \in 1 .. k :
          /\ RunInv(i)' /\ InitInv(i)' /\ ApiInv(i)' /\ BelowInv(i)'
          /\ OriginInv(i)' /\ ReportInv(i)'
    <3>1. Keeps(k)
      BY <1>1, <1>2, <1>3, <1>4, <2>1 DEF Keeps
    <3> QED
      BY <3>1, KeepFrames
  <2> QED
    BY <1>3, <2>1, <2>2 DEF StackInv
<1>6. UniqueInv'
  BY <1>1, <1>3 DEF IInv, UniqueInv, Holds
<1>7. PendingInv'
  <2>1. \A c \in Calls : ~Holds(stack[L], c)
    BY <1>1 DEF Holds, ExitKinds
  <2> QED
    BY <1>1, <1>3, <2>1 DEF IInv, PendingInv, Holds, Delivered
<1>8. StartInv'
  BY <1>1, <1>2 DEF IInv, StartInv
<1>9. ExitInv'
  BY <1>1, <1>2, <1>3 DEF IInv, ExitInv, Delivered
<1> QED
  BY <1>5, <1>6, <1>7, <1>8, <1>9 DEF IInv

(* What a frame serves is pending, and no other frame serves it. *)
LEMMA HeldPending ==
    ASSUME IInv, NEW i \in DOMAIN stack, NEW c \in Calls, Holds(stack[i], c)
    PROVE  calls[c] = "pending" /\ stack[i].call = c
  BY DEF IInv, StackInv, ApiInv, OriginInv, Holds

(* The frames above those that a step leaves, and with them the stack. *)
FrameOK(i) ==
    /\ RunInv(i) /\ InitInv(i) /\ ApiInv(i) /\ BelowInv(i)
    /\ OriginInv(i) /\ ReportInv(i)

LEMMA StackStep ==
    ASSUME TypeOK, IInv, NEW k \in Nat, Keeps(k), DOMAIN stack' = 1 .. Len(stack'),
           \A i \in (k + 1) .. Len(stack') : FrameOK(i)'
    PROVE  StackInv'
<1>1. \A i \in 1 .. k :
        /\ RunInv(i)' /\ InitInv(i)' /\ ApiInv(i)' /\ BelowInv(i)'
        /\ OriginInv(i)' /\ ReportInv(i)'
  BY KeepFrames
<1>2. Len(stack') \in Nat
  BY DEF Keeps
<1>3. \A i \in DOMAIN stack' : i \in 1 .. k \/ i \in (k + 1) .. Len(stack')
  BY <1>2
<1> QED
  BY <1>1, <1>3 DEF StackInv, FrameOK

LEMMA UserCallIInv ==
    ASSUME TypeOK, IInv, NEW c \in Calls, NEW n \in 0 .. MaxOptions, UserCall(c, n)
    PROVE  IInv'
<1> USE DEF startVars, loadVars, exitVars, userVars
<1>1. /\ UserRuns /\ calls[c] = "unused" /\ calls \in [Calls -> CallStates]
      /\ UNCHANGED <<startVars, exitVars, userVars, go, timer, proc, crashed>>
  BY DEF UserCall, TypeOK
<1>2. /\ go \in {"waiting", "exited"} /\ methods /\ stage = "done"
      /\ proc = "alive" /\ (Idle \/ Top.kind \in UserKinds)
  BY <1>1, UserPhase
<1>3. PICK k \in Nat : k = Len(stack) /\ DOMAIN stack = 1 .. k
  BY Shape
<1>4. k > 0 => stack[k].kind \in UserKinds
  BY <1>2, <1>3, Shape DEF Top
<1>5. \A i \in 1 .. k : stack[i].kind # "goExit"
  BY <1>3, <1>4 DEF IInv, StackInv, ReportInv, UserKinds
<1>6. \A i \in 1 .. k : \A d \in Calls : Holds(stack[i], d) => calls[d] = "pending" /\ d # c
  BY <1>1, <1>3, HeldPending
<1>7. CASE go = "exited"
  <2>1. /\ calls' = [calls EXCEPT ![c] = "rejected"] /\ UNCHANGED stack
    BY <1>7 DEF UserCall, ResumeThrows
  <2>2. /\ \A d \in Calls : d # c => calls'[d] = calls[d]
        /\ calls'[c] # "pending"
    BY <1>1, <2>1
  <2>3. Keeps(k)
    BY <1>1, <1>2, <1>3, <1>4, <1>5, <1>6, <2>1, <2>2 DEF Keeps, UserKinds
  <2>4. StackInv'
    <3>1. DOMAIN stack' = 1 .. Len(stack') /\ Len(stack') = k
      BY <1>3, <2>1
    <3> QED
      BY <2>3, <3>1, StackStep
  <2>5. UniqueInv'
    BY <2>1 DEF IInv, UniqueInv, Holds
  <2>6. PendingInv'
    BY <1>1, <2>1, <2>2 DEF IInv, PendingInv, Holds, Delivered
  <2>7. StartInv' /\ ExitInv'
    BY <1>1, <2>1 DEF IInv, StartInv, ExitInv, Idle, Delivered
  <2> QED
    BY <2>4, <2>5, <2>6, <2>7 DEF IInv
<1>8. CASE go = "waiting"
  <2>0. n \in Nat
    BY LifecycleAssumption
  <2>1. PICK f \in Frame : f = ApiFrame(c, n)
    BY <2>0, FrameTypes
  <2>2. /\ calls' = [calls EXCEPT ![c] = "pending"] /\ stack' = Push(f)
        /\ f.kind = "api" /\ f.call = c /\ f.from = "none"
    BY <1>8, <2>1 DEF UserCall, ResumeThrows, ApiFrame
  <2>3. /\ \A d \in Calls : d # c => calls'[d] = calls[d]
        /\ calls'[c] = "pending"
    BY <1>1, <2>2
  <2>4. /\ Len(stack') = k + 1 /\ DOMAIN stack' = 1 .. (k + 1)
        /\ stack'[k + 1] = f /\ \A i \in 1 .. k : stack'[i] = stack[i]
    BY <1>3, <2>2, PushShape
  <2>5. Keeps(k)
    BY <1>1, <1>2, <1>3, <1>5, <1>6, <2>3, <2>4 DEF Keeps
  <2>6. StackInv'
    <3>1. PICK j \in Nat : j = k + 1
      OBVIOUS
    <3>2. FrameOK(j)'
      <4>1. stack'[j] = f /\ (j > 1 => stack'[j - 1].kind \in UserKinds)
        BY <1>4, <2>4, <3>1
      <4> QED
        BY <1>1, <1>2, <1>8, <2>2, <2>3, <4>1 DEF FrameOK, RunInv, InitInv, ApiInv,
           BelowInv, OriginInv, ReportInv, ExitKinds, UserKinds
    <3> QED
      BY <2>4, <2>5, <3>1, <3>2, StackStep
  <2>7. UniqueInv'
    <3>1. \A d \in Calls : Holds(f, d) => d = c
      BY <2>2 DEF Holds
    <3>2. f.kind \notin ExitKinds
      BY <2>2 DEF ExitKinds
    <3> QED
      BY <1>3, <1>6, <2>4, <3>1, <3>2 DEF IInv, UniqueInv
  <2>8. PendingInv'
    <3>1. Holds(f, c)
      BY <2>2 DEF Holds
    <3> QED
      BY <1>1, <1>3, <2>3, <2>4, <3>1 DEF IInv, PendingInv, Delivered
  <2>9. StartInv'
    BY <1>1, <1>2, <1>8 DEF IInv, StartInv
  <2>10. ExitInv'
    BY <1>1, <1>2, <1>8 DEF IInv, ExitInv, Delivered
  <2> QED
    BY <2>6, <2>7, <2>8, <2>9, <2>10 DEF IInv
<1> QED
  BY <1>2, <1>7, <1>8

(* The handler on top: Go waits, and below is the application's code. *)
LEMMA ApiTop ==
    ASSUME TypeOK, IInv, On("api")
    PROVE  /\ Len(stack) \in Nat \ {0} /\ DOMAIN stack = 1 .. Len(stack) /\ ~Idle
           /\ Top = stack[Len(stack)] /\ Top.kind = "api" /\ Top.call \in Calls
           /\ Holds(Top, Top.call) /\ calls[Top.call] = "pending"
           /\ methods /\ go = "waiting" /\ stage = "done" /\ proc = "alive"
           /\ ~lateExit /\ events = <<>>
           /\ Len(stack) > 1 => stack[Len(stack) - 1].kind \in UserKinds
           /\ \A i \in 1 .. (Len(stack) - 1) :
                /\ stack[i].kind \notin ExitKinds
                /\ \A d \in Calls : Holds(stack[i], d) => d # Top.call
<1>1. /\ Len(stack) \in Nat \ {0} /\ DOMAIN stack = 1 .. Len(stack) /\ ~Idle
      /\ Top = stack[Len(stack)] /\ Top.kind = "api" /\ Len(stack) \in DOMAIN stack
  BY Shape DEF On, OnAny, Top
<1>2. /\ Top.call \in Calls /\ calls[Top.call] = "pending" /\ methods /\ go = "waiting"
      /\ Len(stack) > 1 => stack[Len(stack) - 1].kind \in UserKinds
  BY <1>1 DEF IInv, StackInv, ApiInv, BelowInv
<1>3. Holds(Top, Top.call)
  BY <1>1 DEF Holds
<1>4. \A i \in 1 .. (Len(stack) - 1) : stack[i].kind \notin ExitKinds
  BY <1>1, <1>2 DEF IInv, StackInv, OriginInv
<1>5. \A i \in 1 .. (Len(stack) - 1) : \A d \in Calls : Holds(stack[i], d) => d # Top.call
  BY <1>1, <1>2, <1>3 DEF IInv, UniqueInv
<1>6. stage = "done" /\ proc = "alive" /\ ~lateExit /\ events = <<>>
  BY <1>1, <1>2 DEF IInv, StartInv, ExitInv, TypeOK
<1> QED
  BY <1>1, <1>2, <1>3, <1>4, <1>5, <1>6

LEMMA ApiOptionIInv == ASSUME TypeOK, IInv, ApiOption PROVE IInv'
<1> USE DEF startVars, loadVars, exitVars, userVars
<1>0. /\ On("api") /\ Top.n > 0
      /\ UNCHANGED <<startVars, exitVars, userVars, go, timer, calls, proc, crashed>>
  BY DEF ApiOption
<1>1. PICK L \in Nat \ {0}, c \in Calls :
        /\ L = Len(stack) /\ DOMAIN stack = 1 .. L /\ ~Idle
        /\ c = Top.call /\ stack[L].call = c /\ stack[L].kind = "api"
        /\ Holds(stack[L], c) /\ calls[c] = "pending"
        /\ methods /\ go = "waiting"
        /\ L > 1 => stack[L - 1].kind \in UserKinds
        /\ \A i \in 1 .. (L - 1) :
             stack[i].kind \notin ExitKinds /\ \A d \in Calls : Holds(stack[i], d) => d # c
  BY <1>0, ApiTop
<1>2. PICK f \in Frame, g \in Frame :
        f = ApiFrame(Top.call, Top.n - 1) /\ g = OptFrame(Top.call)
  <2>1. Top \in Frame /\ Top.n - 1 \in Nat
    <3>1. stack \in Seq(Frame) /\ ~Idle
      BY <1>1 DEF TypeOK
    <3>2. Top \in Frame /\ Top.n \in Nat
      BY <3>1, StackTypes
    <3> QED
      BY <1>0, <3>2
  <2> QED
    BY <1>1, <2>1, FrameTypes
<1>3. /\ f.kind = "api" /\ f.call = c /\ g.kind = "opt" /\ g.call = c
      /\ stack' = Append(Replace(f), g)
  BY <1>1, <1>2 DEF ApiOption, ApiFrame, OptFrame
<1>4. /\ Len(stack') = L + 1 /\ DOMAIN stack' = 1 .. (L + 1)
      /\ stack'[L] = f /\ stack'[L + 1] = g
      /\ \A i \in 1 .. (L - 1) : stack'[i] = stack[i]
  BY <1>1, <1>3, ReplacePushShape
<1>5. PICK k \in Nat, j \in Nat : k = L - 1 /\ j = L + 1
  OBVIOUS
<1>6. Keeps(k)
  BY <1>0, <1>1, <1>4, <1>5 DEF Keeps, ExitKinds
<1>7. StackInv'
  <2>1. FrameOK(L)'
    <3>1. stack'[L] = f /\ (L > 1 => stack'[L - 1].kind \in UserKinds) /\ L # Len(stack')
      BY <1>1, <1>4
    <3> QED
      BY <1>0, <1>1, <1>3, <3>1 DEF FrameOK, RunInv, InitInv, ApiInv, BelowInv, OriginInv,
         ReportInv, ExitKinds, UserKinds
  <2>2. FrameOK(j)'
    <3>1. stack'[j] = g /\ j > 1 /\ stack'[j - 1] = f
      BY <1>4, <1>5
    <3> QED
      BY <1>0, <1>1, <1>3, <3>1 DEF FrameOK, RunInv, InitInv, ApiInv, BelowInv, OriginInv,
         ReportInv, ExitKinds, UserKinds
  <2>3. \A i \in (k + 1) .. Len(stack') : i = L \/ i = j
    BY <1>4, <1>5
  <2> QED
    BY <1>4, <1>6, <2>1, <2>2, <2>3, StackStep
<1>8. UniqueInv'
  <2>1. /\ \A d \in Calls : (Holds(f, d) => d = c) /\ ~Holds(g, d)
        /\ f.kind \notin ExitKinds /\ g.kind \notin ExitKinds
    BY <1>3 DEF Holds, ExitKinds
  <2> QED
    BY <1>1, <1>4, <2>1 DEF IInv, UniqueInv
<1>9. PendingInv'
  <2>1. Holds(f, c) /\ \A d \in Calls : Holds(stack[L], d) => d = c
    BY <1>1, <1>3 DEF Holds
  <2> QED
    BY <1>0, <1>1, <1>4, <2>1 DEF IInv, PendingInv, Delivered
<1>10. StartInv'
  BY <1>0, <1>1 DEF IInv, StartInv
<1>11. ExitInv'
  BY <1>0, <1>1 DEF IInv, StartInv, ExitInv, Delivered
<1> QED
  BY <1>7, <1>8, <1>9, <1>10, <1>11 DEF IInv

LEMMA ApiReturnsIInv == ASSUME TypeOK, IInv, ApiReturns PROVE IInv'
<1> USE DEF startVars, loadVars, exitVars, userVars
<1>0. /\ On("api") /\ stack' = Below /\ calls \in [Calls -> CallStates]
      /\ UNCHANGED <<startVars, exitVars, userVars, go, timer, proc, crashed>>
  BY DEF ApiReturns, TypeOK
<1>1. PICK L \in Nat \ {0}, c \in Calls :
        /\ L = Len(stack) /\ DOMAIN stack = 1 .. L /\ ~Idle
        /\ c = Top.call /\ stack[L].call = c /\ stack[L].kind = "api"
        /\ methods /\ go = "waiting" /\ proc = "alive" /\ events = <<>> /\ ~lateExit
        /\ L > 1 => stack[L - 1].kind \in UserKinds
        /\ \A i \in 1 .. (L - 1) :
             stack[i].kind \notin ExitKinds /\ \A d \in Calls : Holds(stack[i], d) => d # c
  BY <1>0, ApiTop
<1>2. calls'[c] # "pending" /\ \A d \in Calls : d # c => calls'[d] = calls[d]
  BY <1>0, <1>1 DEF ApiReturns
<1>3. /\ Len(stack') = L - 1 /\ DOMAIN stack' = 1 .. (L - 1)
      /\ \A i \in 1 .. (L - 1) : stack'[i] = stack[i]
  BY <1>0, <1>1, PopShape
<1>4. PICK k \in Nat : k = L - 1
  OBVIOUS
<1>5. Keeps(k)
  BY <1>0, <1>1, <1>2, <1>3, <1>4 DEF Keeps, ExitKinds, UserKinds
<1>6. StackInv'
  BY <1>3, <1>4, <1>5, StackStep
<1>7. UniqueInv'
  BY <1>1, <1>3 DEF IInv, UniqueInv
<1>8. PendingInv'
  <2>1. \A d \in Calls : Holds(stack[L], d) => d = c
    BY <1>1 DEF Holds
  <2> QED
    BY <1>0, <1>1, <1>2, <1>3, <2>1 DEF IInv, PendingInv, Delivered
<1>9. StartInv'
  BY <1>0, <1>1 DEF IInv, StartInv
<1>10. ExitInv'
  BY <1>0, <1>1 DEF IInv, ExitInv, Delivered
<1> QED
  BY <1>6, <1>7, <1>8, <1>9, <1>10 DEF IInv

(* The option function on top of its handler. *)
LEMMA OptTop ==
    ASSUME TypeOK, IInv, On("opt")
    PROVE  /\ Len(stack) \in Nat \ {0, 1} /\ DOMAIN stack = 1 .. Len(stack) /\ ~Idle
           /\ stack[Len(stack)].kind = "opt" /\ stack[Len(stack) - 1].kind = "api"
           /\ Top.call \in Calls /\ stack[Len(stack) - 1].call = Top.call
           /\ methods /\ go \in {"waiting", "exited"} /\ proc = "alive"
           /\ Len(stack) > 2 => stack[Len(stack) - 2].kind \in UserKinds
           /\ \A i \in 1 .. (Len(stack) - 1) : stack[i].kind # "goExit"
           /\ \A i \in 1 .. (Len(stack) - 2) : \A d \in Calls :
                Holds(stack[i], d) => d # Top.call
<1>1. /\ Len(stack) \in Nat \ {0} /\ DOMAIN stack = 1 .. Len(stack) /\ ~Idle
      /\ Top = stack[Len(stack)] /\ Top.kind = "opt" /\ Len(stack) \in DOMAIN stack
  BY Shape DEF On, OnAny, Top
<1>2. /\ Len(stack) > 1 /\ stack[Len(stack) - 1].kind = "api" /\ methods
      /\ Top.call = stack[Len(stack) - 1].call
  BY <1>1 DEF IInv, StackInv, BelowInv, UserKinds
<1>3. PICK j \in DOMAIN stack : j = Len(stack) - 1
  BY <1>1, <1>2
<1>4. /\ stack[j].call \in Calls /\ go \in {"waiting", "exited"}
      /\ j > 1 => stack[j - 1].kind \in UserKinds
  BY <1>2, <1>3 DEF IInv, StackInv, ApiInv, BelowInv
<1>5. \A i \in 1 .. (Len(stack) - 1) : stack[i].kind # "goExit"
  BY <1>1 DEF IInv, StackInv, ReportInv
<1>6. \A i \in 1 .. (Len(stack) - 2) : \A d \in Calls : Holds(stack[i], d) => d # Top.call
  <2>1. Holds(stack[j], Top.call)
    BY <1>2, <1>3 DEF Holds
  <2> QED
    BY <1>1, <1>2, <1>3, <1>4, <2>1 DEF IInv, UniqueInv
<1>7. proc = "alive"
  BY <1>1 DEF IInv, ExitInv, TypeOK
<1> QED
  BY <1>1, <1>2, <1>3, <1>4, <1>5, <1>6, <1>7

LEMMA OptReturnsIInv == ASSUME TypeOK, IInv, OptReturns PROVE IInv'
<1> USE DEF startVars, loadVars, exitVars, userVars
<1>0. /\ On("opt") /\ stack' = Below /\ go # "exited"
      /\ UNCHANGED <<startVars, exitVars, userVars, go, timer, calls, proc, crashed>>
  BY DEF OptReturns, InstanceGone
<1>1. PICK L \in Nat \ {0, 1} :
        /\ L = Len(stack) /\ DOMAIN stack = 1 .. L /\ ~Idle
        /\ stack[L].kind = "opt" /\ methods /\ go = "waiting" /\ proc = "alive"
        /\ \A i \in 1 .. (L - 1) : stack[i].kind # "goExit"
  BY <1>0, OptTop
<1>2. /\ Len(stack') = L - 1 /\ DOMAIN stack' = 1 .. (L - 1)
      /\ \A i \in 1 .. (L - 1) : stack'[i] = stack[i]
  BY <1>0, <1>1, PopShape
<1>3. PICK k \in Nat : k = L - 1
  OBVIOUS
<1>4. Keeps(k)
  BY <1>0, <1>1, <1>2, <1>3 DEF Keeps
<1>5. StackInv'
  BY <1>2, <1>3, <1>4, StackStep
<1>6. UniqueInv'
  BY <1>1, <1>2 DEF IInv, UniqueInv
<1>7. PendingInv'
  <2>1. \A d \in Calls : ~Holds(stack[L], d)
    BY <1>1 DEF Holds, ExitKinds
  <2> QED
    BY <1>0, <1>1, <1>2, <2>1 DEF IInv, PendingInv, Delivered
<1>8. StartInv'
  BY <1>0, <1>1 DEF IInv, StartInv
<1>9. ExitInv'
  BY <1>0, <1>1 DEF IInv, ExitInv, Delivered
<1> QED
  BY <1>5, <1>6, <1>7, <1>8, <1>9 DEF IInv

LEMMA OptReturnsLateIInv == ASSUME TypeOK, IInv, OptReturnsLate PROVE IInv'
<1> USE DEF startVars, loadVars, exitVars, userVars
<1>0. /\ On("opt") /\ stack' = SubSeq(stack, 1, Len(stack) - 2) /\ go = "exited"
      /\ calls' = [calls EXCEPT ![Top.call] = "rejected"] /\ calls \in [Calls -> CallStates]
      /\ UNCHANGED <<startVars, exitVars, userVars, go, timer, proc, crashed>>
  BY DEF OptReturnsLate, InstanceGone, TypeOK
<1>1. PICK L \in Nat \ {0, 1}, c \in Calls :
        /\ L = Len(stack) /\ DOMAIN stack = 1 .. L /\ ~Idle /\ c = Top.call
        /\ stack[L].kind = "opt" /\ stack[L - 1].kind = "api" /\ stack[L - 1].call = c
        /\ methods /\ proc = "alive"
        /\ L > 2 => stack[L - 2].kind \in UserKinds
        /\ \A i \in 1 .. (L - 1) : stack[i].kind # "goExit"
        /\ \A i \in 1 .. (L - 2) : \A d \in Calls : Holds(stack[i], d) => d # c
  BY <1>0, OptTop
<1>2. calls'[c] # "pending" /\ \A d \in Calls : d # c => calls'[d] = calls[d]
  BY <1>0, <1>1
<1>3. /\ Len(stack') = L - 2 /\ DOMAIN stack' = 1 .. (L - 2)
      /\ \A i \in 1 .. (L - 2) : i \in DOMAIN stack /\ stack'[i] = stack[i]
  <2>1. Len(stack) > 1
    BY <1>1
  <2> QED
    BY <1>0, <1>1, <2>1, PopTwoShape
<1>4. PICK k \in Nat : k = L - 2
  OBVIOUS
<1>5. Keeps(k)
  BY <1>0, <1>1, <1>2, <1>3, <1>4 DEF Keeps, UserKinds
<1>6. StackInv'
  BY <1>3, <1>4, <1>5, StackStep
<1>7. UniqueInv'
  BY <1>3 DEF IInv, UniqueInv
<1>8. PendingInv'
  <2>1. \A d \in Calls : /\ ~Holds(stack[L], d)
                         /\ Holds(stack[L - 1], d) => d = c
    BY <1>1 DEF Holds, ExitKinds
  <2> QED
    <3>1. \A i \in DOMAIN stack : i \in DOMAIN stack' \/ i = L - 1 \/ i = L
      BY <1>1, <1>3
    <3> QED
      BY <1>0, <1>2, <1>3, <2>1, <3>1 DEF IInv, PendingInv, Delivered
<1>9. StartInv'
  BY <1>0, <1>1 DEF IInv, StartInv
<1>10. ExitInv'
  <2>1. \A i \in DOMAIN stack : i \in DOMAIN stack' \/ i = L - 1 \/ i = L
    BY <1>1, <1>3
  <2>2. \A i \in DOMAIN stack : stack[i].kind = "exitEmit" =>
          i \in DOMAIN stack' /\ stack'[i].kind = "exitEmit"
    BY <1>1, <1>3, <2>1
  <2> QED
    BY <1>0, <1>1, <2>2 DEF IInv, ExitInv, Delivered
<1> QED
  BY <1>6, <1>7, <1>8, <1>9, <1>10 DEF IInv

LEMMA GoCrashIInv == ASSUME TypeOK, IInv, GoCrash PROVE IInv'
<1> USE DEF startVars, loadVars, exitVars, userVars
<1>0. /\ ~Idle /\ Top.kind \in {"run", "init", "api"}
      /\ go' = "exited" /\ crashed' = TRUE
      /\ stack' = Replace(ExitFrame(Top.call, CrashCode, Top.kind))
      /\ UNCHANGED <<startVars, exitVars, userVars, timer, calls, proc>>
  BY DEF GoCrash, OnAny
<1>1. PICK f \in Frame : f = ExitFrame(Top.call, CrashCode, Top.kind)
  <2>1. stack \in Seq(Frame) /\ Top.kind \in Origins /\ CrashCode \in 0 .. (CodeModulus - 1)
    BY <1>0, LifecycleAssumption DEF TypeOK, Origins
  <2>2. Top.call \in Calls \cup {NoCall}
    BY <1>0, <2>1, StackTypes
  <2> QED
    BY <2>1, <2>2, FrameTypes
<1>2. /\ f.kind = "goExit" /\ f.from = Top.kind /\ f.call = Top.call /\ f.n # 0
  BY <1>1, LifecycleAssumption DEF ExitFrame
<1>3. PICK L \in Nat \ {0} :
        /\ L = Len(stack) /\ DOMAIN stack = 1 .. L /\ stack[L] = Top
        /\ Len(stack') = L /\ DOMAIN stack' = 1 .. L /\ stack'[L] = f
        /\ \A i \in 1 .. (L - 1) : stack'[i] = stack[i]
  BY <1>0, <1>1, Shape, ReplaceShape DEF Top
<1>4. /\ go # "none" /\ stage = "done"
  BY <1>0 DEF IInv, StartInv
<1>5. CASE Top.kind = "run"
  <2>1. RunInv(L)
    BY <1>3 DEF IInv, StackInv
  <2>2. /\ L = 1 /\ go = "main" /\ (hooked => methods \/ initErr)
        /\ (~hooked => promise = "pending")
    <3>1. L = 1 /\ Len(stack) = 1 /\ stack[1].kind = "run"
      BY <1>3, <1>5, <2>1 DEF RunInv
    <3> QED
      BY <2>1, <3>1 DEF RunInv
  <2>3. events = <<>> /\ ~lateExit /\ proc = "alive" /\ (initErr => promise = "pending")
    BY <1>0, <2>2 DEF IInv, ExitInv, StartInv, TypeOK
  <2>4. StackInv'
    BY <1>0, <1>2, <1>3, <1>5, <2>2, <2>3 DEF StackInv, RunInv, InitInv, ApiInv, BelowInv,
       OriginInv, ReportInv, ExitKinds, UserKinds
  <2>5. UniqueInv'
    BY <1>3, <2>2 DEF UniqueInv
  <2>6. PendingInv'
    <3>1. \A i \in DOMAIN stack : \A c \in Calls : ~Holds(stack[i], c)
      BY <1>3, <1>5, <2>2 DEF Holds, ExitKinds
    <3> QED
      BY <1>0, <2>3, <3>1 DEF IInv, PendingInv, Delivered
  <2>7. StartInv' /\ ExitInv'
    BY <1>0, <1>4, <2>2, <2>3 DEF IInv, StartInv, ExitInv, Delivered
  <2> QED
    BY <2>4, <2>5, <2>6, <2>7 DEF IInv
<1>6. CASE Top.kind = "init"
  <2>0. On("init")
    BY <1>0, <1>6 DEF On, OnAny
  <2>1. /\ L = 2 /\ stack[1].kind = "run" /\ hooked /\ ~methods /\ ~initErr
        /\ promise = "pending" /\ events = <<>> /\ go = "main"
        /\ \A c \in Calls : calls[c] # "pending"
    BY <1>3, <2>0, InitReturns
  <2>2. ~lateExit /\ proc = "alive"
    BY <1>0, <2>1 DEF IInv, ExitInv, TypeOK
  <2>3. DOMAIN stack' = {1, 2} /\ stack'[1] = stack[1] /\ stack'[2] = f
    BY <1>3, <2>1
  <2>4. StackInv'
    BY <1>0, <1>2, <1>3, <1>6, <2>1, <2>3 DEF StackInv, RunInv, InitInv, ApiInv, BelowInv,
       OriginInv, ReportInv, ExitKinds, UserKinds
  <2>5. UniqueInv'
    BY <1>2, <1>6, <2>1, <2>3 DEF UniqueInv, Holds, ExitKinds
  <2>6. StartInv' /\ ExitInv' /\ PendingInv'
    BY <1>0, <1>4, <2>1, <2>2 DEF IInv, StartInv, ExitInv, PendingInv, Delivered
  <2> QED
    BY <2>4, <2>5, <2>6 DEF IInv
<1>7. CASE Top.kind = "api"
  <2>0. On("api")
    BY <1>0, <1>7 DEF On, OnAny
  <2>1. PICK c \in Calls :
          /\ c = Top.call /\ Holds(stack[L], c) /\ calls[c] = "pending"
          /\ methods /\ go = "waiting" /\ proc = "alive" /\ events = <<>> /\ ~lateExit
          /\ L > 1 => stack[L - 1].kind \in UserKinds
          /\ \A i \in 1 .. (L - 1) :
               stack[i].kind \notin ExitKinds /\ \A d \in Calls : Holds(stack[i], d) => d # c
    BY <1>3, <2>0, ApiTop
  <2>2. PICK k \in Nat : k = L - 1
    OBVIOUS
  <2>3. Keeps(k)
    BY <1>0, <1>3, <2>1, <2>2 DEF Keeps, ExitKinds
  <2>4. StackInv'
    <3>1. FrameOK(L)'
      <4>1. stack'[L] = f /\ L = Len(stack') /\ (L > 1 => stack'[L - 1].kind \in UserKinds)
        BY <1>3, <2>1
      <4> QED
        BY <1>0, <1>2, <1>7, <2>1, <4>1 DEF FrameOK, RunInv, InitInv, ApiInv, BelowInv,
           OriginInv, ReportInv, ExitKinds, UserKinds
    <3>2. \A i \in (k + 1) .. Len(stack') : i = L
      BY <1>3, <2>2
    <3> QED
      BY <1>3, <2>3, <3>1, <3>2, StackStep
  <2>5. UniqueInv'
    <3>1. \A d \in Calls : Holds(f, d) => d = c
      BY <1>2, <2>1 DEF Holds
    <3> QED
      BY <1>3, <2>1, <3>1 DEF IInv, UniqueInv
  <2>6. PendingInv'
    <3>1. Holds(f, c) /\ \A d \in Calls : Holds(stack[L], d) => d = c
      BY <1>2, <1>3, <1>7, <2>1 DEF Holds, ExitKinds
    <3> QED
      BY <1>0, <1>3, <2>1, <3>1 DEF IInv, PendingInv, Delivered
  <2>7. StartInv' /\ ExitInv'
    BY <1>0, <1>4, <2>1 DEF IInv, StartInv, ExitInv, Delivered
  <2> QED
    BY <2>4, <2>5, <2>6, <2>7 DEF IInv
<1> QED
  BY <1>0, <1>5, <1>6, <1>7

-----------------------------------------------------------------------------
(* go.exit on top.  Once the instance is initialised, what is below is the
   application's code; before, nothing or Go's main. *)
LEMMA ExitTop ==
    ASSUME TypeOK, IInv, OnAny(ExitKinds)
    PROVE  /\ Len(stack) \in Nat \ {0} /\ DOMAIN stack = 1 .. Len(stack) /\ ~Idle
           /\ stack[Len(stack)] = Top /\ Top.kind \in ExitKinds
           /\ OriginInv(Len(stack)) /\ ReportInv(Len(stack))
           /\ go = "exited" /\ stage = "done" /\ proc = "alive"
           /\ \A i \in 1 .. (Len(stack) - 1) : stack[i].kind \notin ExitKinds
           /\ Top.from = "api" => \A i \in 1 .. (Len(stack) - 1) : ~Holds(stack[i], Top.call)
           /\ methods /\ Len(stack) > 1 => stack[Len(stack) - 1].kind \in UserKinds
           /\ ~methods => \/ Len(stack) = 1 /\ Top.from \in {"run", "hook"}
                          \/ /\ Len(stack) = 2 /\ Top.from = "init" /\ ~initErr
                             /\ stack[1].kind = "run" /\ hooked
           /\ ~methods => \A c \in Calls : calls[c] # "pending"
<1>1. /\ Len(stack) \in Nat \ {0} /\ DOMAIN stack = 1 .. Len(stack) /\ ~Idle
      /\ stack[Len(stack)] = Top /\ Top.kind \in ExitKinds
      /\ Len(stack) \in DOMAIN stack
  BY Shape DEF OnAny, Top
<1>2. PICK L \in DOMAIN stack : L = Len(stack)
  BY <1>1
<1>3. OriginInv(L) /\ ReportInv(L) /\ BelowInv(L)
  BY DEF IInv, StackInv
<1>4. go = "exited" /\ stage = "done" /\ proc = "alive"
  BY <1>1, <1>2, <1>3 DEF OriginInv, IInv, StartInv, ExitInv, TypeOK
<1>5. \A i \in 1 .. (L - 1) : stack[i].kind \notin ExitKinds
  BY <1>1, <1>2 DEF IInv, UniqueInv
<1>6. Top.from = "api" => \A i \in 1 .. (L - 1) : ~Holds(stack[i], Top.call)
  <2> SUFFICES ASSUME Top.from = "api" PROVE \A i \in 1 .. (L - 1) : ~Holds(stack[i], Top.call)
    OBVIOUS
  <2>1. Top.call \in Calls /\ Holds(stack[L], Top.call)
    BY <1>1, <1>2, <1>3 DEF OriginInv, Holds
  <2> QED
    BY <1>1, <1>2, <2>1 DEF IInv, UniqueInv
<1>7. methods => Top.from # "init"
  BY <1>1, <1>2, <1>3 DEF OriginInv
<1>8. methods /\ L > 1 => stack[L - 1].kind \in UserKinds
  BY <1>1, <1>2, <1>3, <1>7 DEF BelowInv
<1>9. ~methods => \/ L = 1 /\ Top.from \in {"run", "hook"}
                  \/ /\ L = 2 /\ Top.from = "init" /\ ~initErr
                     /\ stack[1].kind = "run"
  <2>1. Top.from \in Origins
    BY <1>1, StackTypes DEF TypeOK
  <2> QED
    BY <1>1, <1>2, <1>3, <2>1 DEF OriginInv, Origins
<1>10. L = 2 /\ stack[1].kind = "run" => hooked
  BY <1>1, <1>2 DEF IInv, StackInv, RunInv
<1>11. ~methods => \A c \in Calls : calls[c] # "pending"
  <2> SUFFICES ASSUME ~methods PROVE \A c \in Calls : calls[c] # "pending"
    OBVIOUS
  <2>1. \A i \in DOMAIN stack : i = L \/ stack[i].kind = "run"
    BY <1>1, <1>2, <1>9
  <2>2. Top.from # "api"
    BY <1>9
  <2>3. \A i \in DOMAIN stack : \A c \in Calls : ~Holds(stack[i], c)
    BY <1>1, <1>2, <2>1, <2>2 DEF Holds, ExitKinds
  <2>4. ~Delivered("error")
    BY DEF IInv, ExitInv
  <2> QED
    BY <2>3, <2>4 DEF IInv, PendingInv
<1> QED
  BY <1>1, <1>2, <1>3, <1>4, <1>5, <1>6, <1>8, <1>9, <1>10, <1>11

(* The frame go.exit goes on with, in place of the one on top. *)
LEMMA Becoming ==
    ASSUME TypeOK, ~Idle, Top.kind \in ExitKinds, NEW k \in ExitKinds
    PROVE  \E f \in Frame : /\ Becomes(k) = Replace(f) /\ f.kind = k /\ f.call = Top.call
                           /\ f.n = Top.n /\ f.from = Top.from
<1>1. /\ Top.call \in Calls \cup {NoCall} /\ Top.n \in 0 .. (CodeModulus - 1)
      /\ Top.from \in Origins
  BY StackTypes DEF TypeOK
<1>2. Top.n \in Nat /\ Top.n < CodeModulus /\ k \in Kinds
  BY <1>1, LifecycleAssumption DEF Kinds
<1>3. [kind |-> k, call |-> Top.call, n |-> Top.n, from |-> Top.from] \in Frame
  BY <1>1, <1>2 DEF Frame
<1> QED
  BY <1>3 DEF Becomes

(* go.exit before the instance is initialised: makeWebAuthn's callback. *)
LEMMA ReportToCallback ==
    ASSUME TypeOK, IInv, GoExit, ~methods
    PROVE  IInv'
<1> USE DEF startVars, loadVars, exitVars, userVars
<1>0. /\ OnAny(ExitKinds) /\ Top.kind = "goExit" /\ Top.kind \in ExitKinds
      /\ Callback("rejected") /\ stack' = Becomes(AfterError)
      /\ UNCHANGED <<events, proc, calls>>
      /\ UNCHANGED <<loadVars, exitVars, errListener, go, timer, crashed>>
  BY DEF GoExit, On, OnAny, NeedsError, ReportError, ExitKinds
<1>1. /\ Len(stack) \in Nat \ {0} /\ DOMAIN stack = 1 .. Len(stack) /\ ~Idle
      /\ stack[Len(stack)] = Top
      /\ OriginInv(Len(stack)) /\ ReportInv(Len(stack))
      /\ go = "exited" /\ stage = "done" /\ proc = "alive"
      /\ \/ Len(stack) = 1 /\ Top.from \in {"run", "hook"}
         \/ /\ Len(stack) = 2 /\ Top.from = "init" /\ ~initErr
            /\ stack[1].kind = "run" /\ hooked
      /\ \A c \in Calls : calls[c] # "pending"
  BY <1>0, ExitTop
<1>2. PICK f \in Frame :
        /\ stack' = Replace(f) /\ f.kind = AfterError /\ f.call = Top.call
        /\ f.n = Top.n /\ f.from = Top.from
  <2>1. AfterError \in ExitKinds /\ Top.kind \in ExitKinds
    BY <1>0, Names DEF AfterError
  <2> QED
    BY <1>0, <1>1, <2>1, Becoming
<1>3. PICK L \in {1, 2} :
        /\ L = Len(stack) /\ DOMAIN stack' = 1 .. L /\ Len(stack') = L
        /\ stack'[L] = f /\ \A i \in 1 .. (L - 1) : stack'[i] = stack[i]
  BY <1>1, <1>2, ReplaceShape
<1>4. events = <<>> /\ promise = "pending"
  BY <1>0, <1>1 DEF ReportInv
<1>5. cbCalls' = 1 /\ promise' = "rejected"
  BY <1>0, <1>4 DEF Callback, IInv, StartInv
<1>6. f.n = 0 => initErr
  BY <1>0, <1>1, <1>2 DEF OriginInv
<1>7. StackInv'
  <2>1. FrameOK(L)'
    <3>1. RunInv(L)' /\ InitInv(L)' /\ ApiInv(L)' /\ BelowInv(L)'
      <4>1. f.kind \in ExitKinds /\ (L > 1 => f.from = "init")
        BY <1>1, <1>2, <1>3, Names DEF AfterError
      <4> QED
        BY <1>3, <4>1 DEF RunInv, InitInv, ApiInv, BelowInv, ExitKinds, UserKinds
    <3>2. OriginInv(L)'
      BY <1>0, <1>1, <1>2, <1>3 DEF OriginInv
    <3>3. ReportInv(L)'
      BY <1>0, <1>1, <1>2, <1>3, <1>4, <1>5, <1>6 DEF ReportInv, AfterError
    <3> QED
      BY <3>1, <3>2, <3>3 DEF FrameOK
  <2>2. L = 2 => FrameOK(1)'
    <3> SUFFICES ASSUME L = 2 PROVE FrameOK(1)'
      OBVIOUS
    <3>1. /\ stack'[1].kind = "run" /\ stack'[2] = f /\ Len(stack') = 2 /\ hooked'
          /\ f.kind \in ExitKinds /\ f.from = "init"
      BY <1>0, <1>1, <1>2, <1>3, Names DEF AfterError
    <3> QED
      BY <3>1 DEF FrameOK, RunInv, InitInv, ApiInv, BelowInv, OriginInv, ReportInv, ExitKinds,
         UserKinds
  <2>3. \A i \in DOMAIN stack' : i = L \/ (i = 1 /\ L = 2)
    BY <1>3
  <2> QED
    BY <2>1, <2>2, <2>3 DEF StackInv, FrameOK
<1>8. UniqueInv'
  <2>1. L = 2 => stack'[1].kind = "run"
    BY <1>1, <1>3
  <2>2. \A i \in DOMAIN stack' : i = L \/ (i = 1 /\ L = 2)
    BY <1>3
  <2> QED
    BY <2>1, <2>2 DEF UniqueInv, Holds, ExitKinds
<1>9. PendingInv'
  BY <1>0, <1>1 DEF PendingInv
<1>10. StartInv'
  BY <1>0, <1>1, <1>5 DEF IInv, StartInv
<1>11. ExitInv'
  BY <1>0, <1>1, <1>4 DEF IInv, ExitInv, Delivered
<1> QED
  BY <1>7, <1>8, <1>9, <1>10, <1>11 DEF IInv

(* go.exit reports nothing, or an 'error' event to whoever listens. *)
LEMMA ReportToListener ==
    ASSUME TypeOK, IInv, GoExit, methods, NEW f \in Frame,
           f.kind = "exitEmit", f.call = Top.call, f.n = Top.n, f.from = Top.from,
           UNCHANGED <<promise, cbCalls, proc, calls>>,
           \/ Top.n = 0 /\ stack' = Replace(f) /\ events' = events
           \/ /\ Top.n # 0 /\ stack' = Append(Replace(f), ListenerFrame("onError"))
              /\ events' = <<Event("error", Top.n)>>
    PROVE  IInv'
<1> USE DEF startVars, loadVars, exitVars, userVars
<1>0. /\ OnAny(ExitKinds) /\ Top.kind = "goExit" /\ Top.kind \in ExitKinds
      /\ UNCHANGED <<loadVars, exitVars, errListener, go, timer, crashed>>
  BY DEF GoExit, On, OnAny, ExitKinds
<1>1. PICK L \in Nat \ {0} :
        /\ L = Len(stack) /\ DOMAIN stack = 1 .. L /\ ~Idle /\ stack[L] = Top
        /\ OriginInv(L) /\ ReportInv(L)
        /\ go = "exited" /\ stage = "done" /\ proc = "alive"
        /\ \A i \in 1 .. (L - 1) : stack[i].kind \notin ExitKinds
        /\ Top.from = "api" => \A i \in 1 .. (L - 1) : ~Holds(stack[i], Top.call)
        /\ L > 1 => stack[L - 1].kind \in UserKinds
  BY <1>0, ExitTop
<1>2. PICK M \in {L, L + 1} :
        /\ Len(stack') = M /\ DOMAIN stack' = 1 .. M /\ stack'[L] = f
        /\ \A i \in 1 .. (L - 1) : stack'[i] = stack[i]
        /\ M = L + 1 => stack'[M].kind = "onError"
  <2>1. CASE stack' = Replace(f)
    BY <1>1, <2>1, ReplaceShape
  <2>2. CASE stack' = Append(Replace(f), ListenerFrame("onError"))
    <3>1. PICK g \in Frame : g = ListenerFrame("onError") /\ g.kind = "onError"
      BY FrameTypes, Names DEF ListenerFrame
    <3> QED
      BY <1>1, <2>2, <3>1, ReplacePushShape
  <2> QED
    BY <2>1, <2>2
<1>3. events = <<>> /\ ~initErr
  BY <1>0, <1>1 DEF ReportInv, IInv, StartInv
<1>4. PICK k \in Nat : k = L - 1
  OBVIOUS
<1>5. Keeps(k)
  BY <1>0, <1>1, <1>2, <1>4 DEF Keeps, ExitKinds
<1>6. StackInv'
  <2>1. FrameOK(L)'
    <3>1. RunInv(L)' /\ InitInv(L)' /\ ApiInv(L)'
      BY <1>2 DEF RunInv, InitInv, ApiInv
    <3>2. BelowInv(L)'
      <4>1. L > 1 => stack'[L - 1].kind \in UserKinds
        BY <1>1, <1>2
      <4> QED
        BY <1>2, <4>1 DEF BelowInv, UserKinds
    <3>3. OriginInv(L)'
      BY <1>0, <1>1, <1>2 DEF OriginInv
    <3>4. ReportInv(L)'
      BY <1>0, <1>2, <1>3 DEF ReportInv
    <3> QED
      BY <3>1, <3>2, <3>3, <3>4 DEF FrameOK
  <2>2. PICK j \in Nat : j = L + 1
    BY <1>1
  <2>3. j = M => FrameOK(j)'
    <3> SUFFICES ASSUME j = M PROVE FrameOK(j)'
      OBVIOUS
    <3>1. stack'[j].kind = "onError" /\ j > 1 /\ stack'[j - 1].kind = "exitEmit" /\ methods'
      BY <1>0, <1>1, <1>2, <2>2
    <3> QED
      BY <3>1 DEF FrameOK, RunInv, InitInv, ApiInv, BelowInv, OriginInv, ReportInv, ExitKinds,
         UserKinds
  <2>4. \A i \in (k + 1) .. M : i = L \/ (i = j /\ j = M)
    BY <1>4, <2>2
  <2> QED
    BY <1>2, <1>5, <2>1, <2>3, <2>4, StackStep
<1>7. /\ \A i \in DOMAIN stack' : i \in 1 .. (L - 1) \/ i = L \/ i = L + 1
      /\ \A i \in DOMAIN stack' : i = L + 1 =>
           stack'[i].kind \notin ExitKinds /\ \A c \in Calls : ~Holds(stack'[i], c)
  <2>1. \A i \in DOMAIN stack' : i \in 1 .. (L - 1) \/ i = L \/ i = L + 1
    BY <1>2
  <2>2. \A i \in DOMAIN stack' : i = L + 1 => stack'[i].kind = "onError"
    BY <1>2
  <2> QED
    BY <2>1, <2>2 DEF Holds, ExitKinds
<1>8. \A c \in Calls : Holds(f, c) <=> Holds(stack[L], c)
  BY <1>0, <1>1, Names DEF Holds
<1>9. UniqueInv'
  BY <1>1, <1>2, <1>7, <1>8 DEF IInv, UniqueInv
<1>10. PendingInv'
  <2>1. \A i \in DOMAIN stack : \A c \in Calls :
          Holds(stack[i], c) => i \in DOMAIN stack' /\ Holds(stack'[i], c)
    BY <1>1, <1>2, <1>8
  <2>2. ~Delivered("exit")
    BY <1>3 DEF Delivered
  <2> QED
    BY <2>1, <2>2 DEF IInv, PendingInv
<1>11. StartInv'
  BY <1>0, <1>1, <1>3 DEF IInv, StartInv
<1>12. ExitInv'
  <2>1. ~Delivered("exit")'
    BY <1>3 DEF Delivered, Event
  <2>2. L \in DOMAIN stack' /\ stack'[L].kind = "exitEmit"
    BY <1>1, <1>2
  <2> QED
    BY <1>0, <1>1, <2>1, <2>2 DEF IInv, ExitInv
<1> QED
  BY <1>6, <1>9, <1>10, <1>11, <1>12 DEF IInv

(* go.exit throws: nobody listens to 'error'. *)
LEMMA ReportThrows ==
    ASSUME TypeOK, IInv, GoExit, methods, Top.n # 0, Throw,
           UNCHANGED <<promise, cbCalls, events>>
    PROVE  IInv'
<1> USE DEF startVars, loadVars, exitVars, userVars
<1>0. /\ OnAny(ExitKinds) /\ Top.kind = "goExit" /\ Top.kind \in ExitKinds
      /\ UNCHANGED <<loadVars, exitVars, errListener, go, timer, crashed>>
      /\ calls \in [Calls -> CallStates]
  BY DEF GoExit, On, OnAny, ExitKinds, TypeOK
<1>1. PICK L \in Nat \ {0} :
        /\ L = Len(stack) /\ DOMAIN stack = 1 .. L /\ ~Idle /\ stack[L] = Top
        /\ OriginInv(L) /\ ReportInv(L)
        /\ go = "exited" /\ stage = "done" /\ proc = "alive"
        /\ \A i \in 1 .. (L - 1) : stack[i].kind \notin ExitKinds
        /\ Top.from = "api" => \A i \in 1 .. (L - 1) : ~Holds(stack[i], Top.call)
        /\ L > 1 => stack[L - 1].kind \in UserKinds
  BY <1>0, ExitTop
<1>2. Top.from # "init" /\ (Top.from = "api" => Top.call \in Calls)
      /\ (Top.from \in {"run", "hook"} => L = 1)
  BY <1>0, <1>1 DEF OriginInv
<1>3. /\ stack' = Below
      /\ proc' = proc \/ L = 1
      /\ calls' = IF Top.from = "api" THEN [calls EXCEPT ![Top.call] = "rejected"] ELSE calls
  BY <1>2 DEF Throw
<1>4. /\ Len(stack') = L - 1 /\ DOMAIN stack' = 1 .. (L - 1)
      /\ \A i \in 1 .. (L - 1) : stack'[i] = stack[i]
  BY <1>1, <1>3, PopShape
<1>5. events = <<>>
  BY <1>0, <1>1 DEF ReportInv
<1>6. /\ \A d \in Calls : Holds(Top, d) => calls'[d] # "pending"
      /\ \A d \in Calls : calls'[d] = calls[d] \/ calls'[d] # "pending"
      /\ \A i \in 1 .. (L - 1) : \A d \in Calls : Holds(stack[i], d) => calls'[d] = calls[d]
  <2>1. CASE Top.from = "api"
    <3>1. \A d \in Calls : Holds(Top, d) => d = Top.call
      BY DEF Holds
    <3>2. \A i \in 1 .. (L - 1) : \A d \in Calls : Holds(stack[i], d) => d # Top.call
      BY <1>1, <2>1
    <3>3. /\ calls'[Top.call] # "pending"
          /\ \A d \in Calls : d # Top.call => calls'[d] = calls[d]
      BY <1>0, <1>2, <1>3, <2>1
    <3> QED
      BY <3>1, <3>2, <3>3
  <2>2. CASE Top.from # "api"
    BY <1>0, <1>3, <2>2 DEF Holds
  <2> QED
    BY <2>1, <2>2
<1>7. PICK k \in Nat : k = L - 1
  BY <1>1
<1>8. Keeps(k)
  BY <1>0, <1>1, <1>4, <1>6, <1>7 DEF Keeps, ExitKinds, UserKinds
<1>9. StackInv'
  BY <1>4, <1>7, <1>8, StackStep
<1>10. UniqueInv'
  BY <1>1, <1>4 DEF IInv, UniqueInv
<1>11. PendingInv'
  <2>1. \A i \in DOMAIN stack : i = L \/ i \in DOMAIN stack'
    BY <1>1, <1>4
  <2>2. ~Delivered("exit")
    BY <1>5 DEF Delivered
  <2> QED
    BY <1>1, <1>4, <1>6, <2>1, <2>2 DEF IInv, PendingInv
<1>12. StartInv'
  BY <1>0, <1>1 DEF IInv, StartInv
<1>13. ExitInv'
  <2>1. proc' = "killed" => Idle'
    <3>1. L = 1 => stack' = <<>>
      <4> SUFFICES ASSUME L = 1 PROVE stack' = <<>>
        OBVIOUS
      <4>1. stack' \in Seq(Frame) /\ Len(stack') = 0
        BY <1>1, <1>3, <1>4, StackTypes DEF TypeOK
      <4> QED
        BY <4>1
    <3> QED
      BY <1>1, <1>3, <3>1 DEF Idle
  <2>2. ~Delivered("error")' /\ ~Delivered("exit")'
    BY <1>5 DEF Delivered
  <2> QED
    BY <1>0, <1>1, <2>1, <2>2 DEF IInv, ExitInv
<1> QED
  BY <1>9, <1>10, <1>11, <1>12, <1>13 DEF IInv

LEMMA GoExitIInv == ASSUME TypeOK, IInv, GoExit PROVE IInv'
<1>0. ~Idle /\ Top.kind = "goExit" /\ Top.kind \in ExitKinds /\ OnAny(ExitKinds)
  BY DEF GoExit, On, OnAny, ExitKinds
<1>1. CASE ~methods
  BY <1>1, ReportToCallback
<1>2. CASE methods
  <2>1. ~initErr /\ events = <<>>
    BY <1>0, <1>2, ExitTop DEF IInv, StartInv, ReportInv
  <2>2. PICK f \in Frame : /\ Becomes("exitEmit") = Replace(f) /\ f.kind = "exitEmit"
                           /\ f.call = Top.call /\ f.n = Top.n /\ f.from = Top.from
    BY <1>0, Becoming, Names
  <2>3. CASE Top.n = 0
    <3>1. stack' = Replace(f) /\ UNCHANGED <<promise, cbCalls, events, proc, calls>>
      BY <1>2, <2>1, <2>2, <2>3 DEF GoExit, NeedsError
    <3> QED
      BY <1>2, <2>2, <2>3, <3>1, ReportToListener
  <2>4. CASE Top.n # 0
    <3>1. UNCHANGED <<promise, cbCalls>>
      BY <1>2, <2>1, <2>4 DEF GoExit, NeedsError, ReportError
    <3>2. CASE errListener
      <4>1. /\ events' = Append(events, Event("error", Top.n))
            /\ stack' = Append(Replace(f), ListenerFrame("onError"))
            /\ UNCHANGED <<proc, calls>>
        BY <1>2, <2>1, <2>2, <2>4, <3>2 DEF GoExit, NeedsError, ReportError, AfterError
      <4>2. events' = <<Event("error", Top.n)>>
        BY <2>1, <4>1
      <4> QED
        BY <1>2, <2>2, <2>4, <3>1, <4>1, <4>2, ReportToListener
    <3>3. CASE ~errListener
      <4>1. Throw /\ events' = events
        BY <1>2, <2>1, <2>4, <3>3 DEF GoExit, NeedsError, ReportError
      <4> QED
        BY <1>2, <2>4, <3>1, <4>1, ReportThrows
    <3> QED
      BY <3>2, <3>3
  <2> QED
    BY <2>3, <2>4
<1> QED
  BY <1>1, <1>2

LEMMA ExitEmitIInv == ASSUME TypeOK, IInv, ExitEmit PROVE IInv'
<1> USE DEF startVars, loadVars, exitVars, userVars
<1>0. /\ OnAny(ExitKinds) /\ Top.kind = "exitEmit" /\ Top.kind \in ExitKinds
      /\ events \in Seq(Events)
      /\ events' = Append(events, Event("exit", Top.n))
      /\ hooked => exitCalled' = TRUE /\ listening' = FALSE
      /\ ~hooked => UNCHANGED <<exitCalled, listening>>
      /\ UNCHANGED <<startVars, requested, lateExit, errListener, go, timer, calls,
                     proc, crashed>>
  BY DEF ExitEmit, On, OnAny, ExitKinds, TypeOK
<1>1. PICK L \in Nat \ {0} :
        /\ L = Len(stack) /\ DOMAIN stack = 1 .. L /\ ~Idle /\ stack[L] = Top
        /\ OriginInv(L) /\ ReportInv(L)
        /\ go = "exited" /\ stage = "done" /\ proc = "alive"
        /\ \A i \in 1 .. (L - 1) : stack[i].kind \notin ExitKinds
        /\ Top.from = "api" => \A i \in 1 .. (L - 1) : ~Holds(stack[i], Top.call)
        /\ methods /\ L > 1 => stack[L - 1].kind \in UserKinds
        /\ ~methods => \/ L = 1 /\ Top.from \in {"run", "hook"}
                       \/ /\ L = 2 /\ Top.from = "init" /\ ~initErr
                          /\ stack[1].kind = "run" /\ hooked
        /\ ~methods => \A c \in Calls : calls[c] # "pending"
  BY <1>0, ExitTop
<1>2. PICK f \in Frame : /\ Becomes("exitDone") = Replace(f) /\ f.kind = "exitDone"
                         /\ f.call = Top.call /\ f.n = Top.n /\ f.from = Top.from
  BY <1>0, <1>1, Becoming, Names
<1>3. /\ Delivered("exit")' /\ (Delivered("error") => Delivered("error")')
      /\ Delivered("error")' => Delivered("error")
  <2>1. /\ Len(events) \in Nat /\ DOMAIN events = 1 .. Len(events)
        /\ DOMAIN events' = 1 .. (Len(events) + 1)
        /\ events'[Len(events) + 1] = Event("exit", Top.n)
        /\ \A i \in 1 .. Len(events) : events'[i] = events[i]
    BY <1>0
  <2>2. PICK m \in Nat : m = Len(events) + 1 /\ m \in DOMAIN events'
    BY <2>1
  <2>3. events'[m].name = "exit"
    BY <2>1, <2>2 DEF Event
  <2>4. \A i \in DOMAIN events : i \in DOMAIN events' /\ events'[i] = events[i]
    BY <2>1
  <2>5. \A i \in DOMAIN events' : i \in DOMAIN events \/ i = m
    BY <2>1, <2>2
  <2> QED
    BY <2>2, <2>3, <2>4, <2>5 DEF Delivered
<1>4. methods /\ f.n # 0 => Delivered("error")
  <2> SUFFICES ASSUME methods, Top.n # 0 PROVE Delivered("error")
    BY <1>2
  <2>1. events = <<Event("error", Top.n)>>
    BY <1>0, <1>1 DEF ReportInv
  <2> QED
    BY <2>1 DEF Delivered, Event
<1>5. StartInv'
  BY <1>0, <1>1 DEF IInv, StartInv
<1>6. ExitInv'
  BY <1>0, <1>1, <1>3 DEF IInv, ExitInv, StartInv
<1>7. OriginInv(L) /\ (f.from = "api" => f.n # 0 /\ methods)
  BY <1>0, <1>1, <1>2 DEF OriginInv
<1>8. CASE methods
  <2>1. stack' = Append(Replace(f), ListenerFrame("onExit"))
    BY <1>2, <1>8 DEF ExitEmit, IInv, StartInv
  <2>2. PICK g \in Frame : g = ListenerFrame("onExit") /\ g.kind = "onExit"
    BY FrameTypes, Names DEF ListenerFrame
  <2>3. PICK j \in Nat, k \in Nat : j = L + 1 /\ k = L - 1
    OBVIOUS
  <2>4. /\ Len(stack') = j /\ DOMAIN stack' = 1 .. j /\ stack'[L] = f /\ stack'[j] = g
        /\ \A i \in 1 .. (L - 1) : stack'[i] = stack[i]
    BY <1>1, <2>1, <2>2, <2>3, ReplacePushShape
  <2>5. Keeps(k)
    BY <1>0, <1>1, <1>8, <2>3, <2>4 DEF Keeps, ExitKinds
  <2>6. StackInv'
    <3>1. FrameOK(L)'
      <4>1. L > 1 => stack'[L - 1].kind \in UserKinds
        BY <1>1, <1>8, <2>4
      <4>2. RunInv(L)' /\ InitInv(L)' /\ ApiInv(L)' /\ BelowInv(L)'
        BY <1>2, <2>4, <4>1 DEF RunInv, InitInv, ApiInv, BelowInv, UserKinds
      <4>3. OriginInv(L)'
        BY <1>0, <1>1, <1>2, <1>8, <2>4 DEF OriginInv
      <4>4. ReportInv(L)'
        BY <1>2, <1>3, <1>4, <1>7, <2>4 DEF ReportInv
      <4> QED
        BY <4>2, <4>3, <4>4 DEF FrameOK
    <3>2. FrameOK(j)'
      <4>1. stack'[j].kind = "onExit" /\ j > 1 /\ stack'[j - 1].kind = "exitDone" /\ methods'
        BY <1>0, <1>2, <1>8, <2>2, <2>3, <2>4
      <4> QED
        BY <4>1 DEF FrameOK, RunInv, InitInv, ApiInv, BelowInv, OriginInv, ReportInv,
           ExitKinds, UserKinds
    <3>3. \A i \in (k + 1) .. j : i = L \/ i = j
      BY <2>3
    <3> QED
      BY <2>4, <2>5, <3>1, <3>2, <3>3, StackStep
  <2>7. /\ \A c \in Calls : (Holds(f, c) <=> Holds(stack[L], c)) /\ ~Holds(g, c)
        /\ g.kind \notin ExitKinds
    BY <1>0, <1>1, <1>2, <2>2 DEF Holds, ExitKinds
  <2>8. \A i \in DOMAIN stack' : i \in 1 .. (L - 1) \/ i = L \/ i = j
    BY <2>3, <2>4
  <2>9. UniqueInv'
    BY <1>1, <2>4, <2>7, <2>8 DEF IInv, UniqueInv
  <2>10. PendingInv'
    <3>1. \A i \in DOMAIN stack : \A c \in Calls :
            Holds(stack[i], c) => i \in DOMAIN stack' /\ Holds(stack'[i], c)
      BY <1>1, <2>3, <2>4, <2>7
    <3> QED
      BY <1>0, <1>3, <3>1 DEF IInv, PendingInv
  <2> QED
    BY <1>5, <1>6, <2>6, <2>9, <2>10 DEF IInv
<1>9. CASE ~methods
  <2>1. stack' = Replace(f)
    BY <1>2, <1>9 DEF ExitEmit, IInv, StartInv
  <2>2. /\ L \in {1, 2} /\ Len(stack') = L /\ DOMAIN stack' = 1 .. L /\ stack'[L] = f
        /\ \A i \in 1 .. (L - 1) : stack'[i] = stack[i]
    BY <1>1, <1>9, <2>1, ReplaceShape
  <2>3. \A i \in DOMAIN stack' : i = L \/ (i = 1 /\ L = 2)
    BY <2>2
  <2>4. StackInv'
    <3>1. FrameOK(L)'
      <4>1. RunInv(L)' /\ InitInv(L)' /\ ApiInv(L)' /\ BelowInv(L)'
        BY <1>1, <1>2, <1>9, <2>2 DEF RunInv, InitInv, ApiInv, BelowInv, ExitKinds, UserKinds
      <4>2. OriginInv(L)'
        BY <1>0, <1>1, <1>2, <1>9, <2>2 DEF OriginInv
      <4>3. ReportInv(L)'
        BY <1>0, <1>2, <1>7, <1>9, <2>2 DEF ReportInv
      <4> QED
        BY <4>1, <4>2, <4>3 DEF FrameOK
    <3>2. L = 2 => FrameOK(1)'
      <4> SUFFICES ASSUME L = 2 PROVE FrameOK(1)'
        OBVIOUS
      <4>1. /\ stack'[1].kind = "run" /\ stack'[2] = f /\ Len(stack') = 2 /\ hooked'
            /\ f.kind \in ExitKinds /\ f.from = "init"
        BY <1>0, <1>1, <1>2, <1>9, <2>2, Names
      <4> QED
        BY <4>1 DEF FrameOK, RunInv, InitInv, ApiInv, BelowInv, OriginInv, ReportInv,
           ExitKinds, UserKinds
    <3> QED
      BY <2>3, <3>1, <3>2 DEF StackInv, FrameOK
  <2>5. UniqueInv'
    <3>1. L = 2 => stack'[1].kind = "run"
      BY <1>1, <1>9, <2>2
    <3> QED
      BY <2>3, <3>1 DEF UniqueInv, Holds, ExitKinds
  <2>6. PendingInv'
    BY <1>0, <1>1, <1>9 DEF PendingInv
  <2> QED
    BY <1>5, <1>6, <2>4, <2>5, <2>6 DEF IInv
<1> QED
  BY <1>8, <1>9

LEMMA ExitDoneIInv == ASSUME TypeOK, IInv, ExitDone PROVE IInv'
<1> USE DEF startVars, loadVars, exitVars, userVars
<1>0. /\ OnAny(ExitKinds) /\ Top.kind = "exitDone" /\ Top.kind \in ExitKinds
      /\ UNCHANGED <<startVars, exitVars, userVars, go, timer, crashed>>
  BY DEF ExitDone, On, OnAny, ExitKinds
<1>1. PICK L \in Nat \ {0} :
        /\ L = Len(stack) /\ DOMAIN stack = 1 .. L /\ ~Idle /\ stack[L] = Top
        /\ OriginInv(L) /\ ReportInv(L)
        /\ go = "exited" /\ stage = "done" /\ proc = "alive"
        /\ \A i \in 1 .. (L - 1) : stack[i].kind \notin ExitKinds
        /\ methods /\ L > 1 => stack[L - 1].kind \in UserKinds
        /\ ~methods => \/ L = 1 /\ Top.from \in {"run", "hook"}
                       \/ L = 2 /\ Top.from = "init"
        /\ ~methods => \A c \in Calls : calls[c] # "pending"
  BY <1>0, ExitTop
<1>2. UNCHANGED calls
  BY DEF ExitDone, Throw
<1>3. CASE methods
  <2>1. Top.from # "init"
    BY <1>0, <1>1, <1>3 DEF OriginInv
  <2>2. stack' = Below /\ proc' = proc
    BY <2>1 DEF ExitDone
  <2>3. PICK k \in Nat : k = L - 1
    OBVIOUS
  <2>4. /\ Len(stack') = k /\ DOMAIN stack' = 1 .. k
        /\ \A i \in 1 .. k : stack'[i] = stack[i]
    BY <1>1, <2>2, <2>3, PopShape
  <2>5. Keeps(k)
    BY <1>0, <1>1, <1>2, <1>3, <2>3, <2>4 DEF Keeps, ExitKinds, UserKinds
  <2>6. StackInv'
    BY <2>4, <2>5, StackStep
  <2>7. \A i \in DOMAIN stack : i = L \/ i \in DOMAIN stack'
    BY <1>1, <2>3, <2>4
  <2>8. UniqueInv'
    BY <1>1, <2>3, <2>4 DEF IInv, UniqueInv
  <2>9. PendingInv'
    <3>1. Delivered("exit") /\ (Top.from = "api" => crashed /\ Delivered("error"))
      BY <1>0, <1>1, <1>3 DEF ReportInv, OriginInv
    <3>2. \A c \in Calls : Holds(stack[L], c) => Top.from = "api"
      BY <1>0, <1>1 DEF Holds
    <3> QED
      BY <1>0, <1>2, <2>4, <2>7, <3>1, <3>2 DEF IInv, PendingInv, Delivered
  <2>10. StartInv'
    BY <1>0, <1>1, <2>2 DEF IInv, StartInv
  <2>11. ExitInv'
    <3>1. Delivered("exit")
      BY <1>0, <1>1, <1>3 DEF ReportInv
    <3> QED
      BY <1>0, <1>1, <1>3, <2>2, <3>1 DEF IInv, ExitInv, Delivered
  <2> QED
    BY <2>6, <2>8, <2>9, <2>10, <2>11 DEF IInv
<1>4. CASE ~methods
  <2>1. DOMAIN stack' = {} /\ Len(stack') = 0 /\ stack' = <<>>
    <3>1. CASE L = 1 /\ Top.from \in {"run", "hook"}
      <4>1. stack' = Below
        BY <3>1 DEF ExitDone
      <4>2. stack' \in Seq(Frame) /\ Len(stack') = 0
        BY <1>1, <3>1, <4>1, PopShape, StackTypes DEF TypeOK
      <4> QED
        BY <4>2
    <3>2. CASE L = 2 /\ Top.from = "init"
      <4>1. stack' = SubSeq(stack, 1, 0)
        BY <1>1, <3>2 DEF ExitDone, Throw
      <4>2. stack' \in Seq(Frame) /\ Len(stack') = 0
        BY <1>1, <3>2, <4>1, PopFacts DEF TypeOK
      <4> QED
        BY <4>2
    <3> QED
      BY <1>1, <1>4, <3>1, <3>2
  <2>2. StackInv' /\ UniqueInv'
    BY <2>1 DEF StackInv, UniqueInv
  <2>3. StartInv'
    BY <1>0, <1>1 DEF IInv, StartInv
  <2>4. ExitInv'
    BY <1>0, <1>4, <2>1 DEF IInv, ExitInv, Idle, Delivered
  <2>5. PendingInv'
    BY <1>1, <1>2, <1>4 DEF PendingInv
  <2> QED
    BY <2>2, <2>3, <2>4, <2>5 DEF IInv
<1> QED
  BY <1>3, <1>4

-----------------------------------------------------------------------------
(* The invariant is inductive. *)
LEMMA NextIInv == ASSUME TypeOK, IInv, [Next]_vars PROVE IInv'
<1>1. CASE Internal
  BY <1>1, LoadStepIInv, LoadFailsIInv, InvokeUidIInv, InitOkIInv, InitFailsIInv,
     MainWaitsIInv, TickIInv, GoExitIInv, ExitEmitIInv, ExitDoneIInv, ListenerReturnsIInv,
     ApiOptionIInv, OptReturnsIInv, OptReturnsLateIInv, ApiReturnsIInv DEF Internal
<1>2. CASE BeforeExit \/ GoCrash
  BY <1>2, BeforeExitIInv, GoCrashIInv
<1>3. CASE GoTimer \/ TimerFires \/ UserListens \/ UNCHANGED vars
  BY <1>3, QuietActions
<1>4. CASE \E n \in Codes : UserExit(n)
  BY <1>4, UserExitIInv
<1>5. CASE \E c \in Calls, n \in 0 .. MaxOptions : UserCall(c, n)
  BY <1>5, UserCallIInv
<1> QED
  BY <1>1, <1>2, <1>3, <1>4, <1>5 DEF Next

LEMMA Inductive == Spec => [](TypeOK /\ IInv)
<1>1. Init => IInv
  BY InitIInv
<1>2. TypeOK /\ IInv /\ [Next]_vars => IInv'
  BY NextIInv
<1> QED
  BY <1>1, <1>2, Typing, PTL DEF Spec

=============================================================================
