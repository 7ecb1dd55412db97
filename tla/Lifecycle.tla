----------------------------- MODULE Lifecycle -----------------------------
(***************************************************************************)
(* The life of one WebAuthn4JS instance: makeWebAuthn loads and starts the *)
(* Go program, Go calls back into JavaScript to hand over its methods,     *)
(* API calls run the Go handlers synchronously, and exit(), 'beforeExit',  *)
(* a failed initialisation or a crash of Go end the program, after which   *)
(* 'error' and 'exit' events are delivered (index.js, main/exit/initialize *)
(* and the callbacks of webauthn4js.go, the scheduling of wasm_exec.js).   *)
(*                                                                         *)
(* JavaScript and Go share one thread, so what interleaves is not threads  *)
(* but a call stack: Go calls JavaScript (options, events), which may call *)
(* Go again.  "stack" holds those calls, the innermost last; a step runs   *)
(* the innermost one, and an empty stack is the idle event loop.           *)
(***************************************************************************)
EXTENDS Naturals, Sequences

CONSTANTS
    Calls,        \* the calls the application may make, each used once
    NoCall,       \* marks a frame that serves no call
    Codes,        \* the codes the application may pass to exit()
    NoCode,       \* exit() has not been asked for
    CodeModulus,  \* exit codes are int32: 2^32, made small
    CrashCode,    \* the code of a Go fatal error, 2 in the Go runtime
    MaxOptions,   \* most option functions passed to one call
    GoCanCrash,   \* whether Go may die of a fatal error
    GoTimers      \* whether the Go runtime may have timeouts pending

ASSUME LifecycleAssumption ==
    /\ NoCall \notin Calls
    /\ Codes \subseteq Nat /\ NoCode \notin Nat
    /\ CodeModulus \in Nat \ {0} /\ 0 \in Codes
    /\ CrashCode \in 1 .. (CodeModulus - 1)
    /\ MaxOptions \in Nat
    /\ GoCanCrash \in BOOLEAN /\ GoTimers \in BOOLEAN

VARIABLES
    stage,        \* what the start-up awaits, or "done"
    promise,      \* the promise makeWebAuthn returned
    cbCalls,      \* how often makeWebAuthn's callback was called
    methods,      \* webauthn.methods is set: the instance is initialised
    initErr,      \* init_err is set
    hooked,       \* Go has called global[uid]: "exited" listens to 'exit'
    tick,         \* process.nextTick(checked_exit) is queued
    exitCalled,   \* exit_called
    listening,    \* before_exit listens to the process's 'beforeExit'
    errListener,  \* the application listens to 'error'
    events,       \* the events delivered, in order
    requested,    \* the code the application passed to exit()
    go,           \* the Go program: its main goroutine
    timer,        \* a setTimeout of the Go runtime is pending
    calls,        \* the promise of each call
    stack,        \* the calls in progress, the innermost last
    proc,         \* the Node process
    crashed,      \* history: Go died of a fatal error
    lateExit      \* history: methods.exit was entered after Go had exited

loadVars  == <<stage, hooked, initErr, methods, tick>>
startVars == <<loadVars, promise, cbCalls>>
exitVars  == <<exitCalled, listening, requested, lateExit>>
userVars  == <<errListener, events>>
vars == <<startVars, exitVars, userVars, go, timer, calls, stack, proc, crashed>>

-----------------------------------------------------------------------------
(* Frames.  n is the options still to apply ("api") or the exit code (the  *)
(* frames of go.exit); from tells who entered Go before it exited, and so  *)
(* who gets an exception thrown by go.exit.                                *)

Origins == {"none", "run", "init", "api", "exit", "hook"}
ExitKinds == {"goExit", "exitEmit", "exitDone"}
UserKinds == {"opt", "onError", "onExit"}
Kinds == {"run", "init", "api"} \cup UserKinds \cup ExitKinds

Frame == {f \in [kind : Kinds, call : Calls \cup {NoCall}, n : Nat, from : Origins] :
            f.kind \in ExitKinds => f.n < CodeModulus}

RunFrame == [kind |-> "run", call |-> NoCall, n |-> 0, from |-> "none"]
InitFrame == [kind |-> "init", call |-> NoCall, n |-> 0, from |-> "none"]
ApiFrame(c, n) == [kind |-> "api", call |-> c, n |-> n, from |-> "none"]
OptFrame(c) == [kind |-> "opt", call |-> c, n |-> 0, from |-> "none"]
ListenerFrame(k) == [kind |-> k, call |-> NoCall, n |-> 0, from |-> "none"]
ExitFrame(c, n, o) == [kind |-> "goExit", call |-> c, n |-> n, from |-> o]

Idle == stack = <<>>
Top == stack[Len(stack)]
Below == SubSeq(stack, 1, Len(stack) - 1)
OnAny(K) == ~Idle /\ Top.kind \in K
On(k) == OnAny({k})
Push(f) == Append(stack, f)
Replace(f) == Append(Below, f)
Becomes(k) == Replace([kind |-> k, call |-> Top.call, n |-> Top.n, from |-> Top.from])

CallStates == {"unused", "pending", "fulfilled", "rejected"}

Events == [name : {"error", "exit"}, code : 0 .. (CodeModulus - 1)]
Event(name, n) == [name |-> name, code |-> n]
Delivered(name) == \E i \in DOMAIN events : events[i].name = name

TypeOK ==
    /\ stage \in {"random", "read", "instantiate", "done"}
    /\ promise \in {"pending", "resolved", "rejected"}
    /\ cbCalls \in Nat
    /\ methods \in BOOLEAN /\ initErr \in BOOLEAN /\ hooked \in BOOLEAN
    /\ tick \in BOOLEAN /\ exitCalled \in BOOLEAN /\ listening \in BOOLEAN
    /\ errListener \in BOOLEAN /\ timer \in BOOLEAN
    /\ crashed \in BOOLEAN /\ lateExit \in BOOLEAN
    /\ events \in Seq(Events)
    /\ requested \in Codes \cup {NoCode}
    /\ go \in {"none", "main", "waiting", "exited"}
    /\ calls \in [Calls -> CallStates]
    /\ stack \in Seq(Frame)
    /\ proc \in {"alive", "killed"}

Init ==
    /\ stage = "random" /\ promise = "pending" /\ cbCalls = 0
    /\ methods = FALSE /\ initErr = FALSE /\ hooked = FALSE /\ tick = FALSE
    /\ exitCalled = FALSE /\ listening = FALSE /\ requested = NoCode
    /\ errListener = FALSE /\ events = <<>>
    /\ go = "none" /\ timer = FALSE
    /\ calls = [c \in Calls |-> "unused"]
    /\ stack = <<>> /\ proc = "alive"
    /\ crashed = FALSE /\ lateExit = FALSE

-----------------------------------------------------------------------------
(* Telling Go to exit.  A definition named for a mistake, such as the next   *)
(* one, is a variant of the one it precedes: the properties below catch it. *)

ExitCodeUntruncated(n) == IF go = "main" THEN CrashCode ELSE n

(* os.Exit truncates to int32.  If main does not wait for a code, the exit
   handler can only block: every goroutine is asleep, a fatal error. *)
ExitCode(n) == IF go = "main" THEN CrashCode ELSE n % CodeModulus

NeverThrows == FALSE

(* _resume, which every call of a Go method goes through, throws once Go has
   exited; *)
ResumeThrows == go = "exited"

NeverGone == FALSE

(* wasmExit has deleted the instance that valueInvoke goes back to. *)
InstanceGone == go = "exited"

(* methods.exit(n): a dead program throws at the caller; nobody catches what
   a tick or a 'beforeExit' listener throws, and the process dies. *)
EnterExit(n, o) ==
    IF ResumeThrows
    THEN /\ lateExit' = TRUE
         /\ proc' = IF o = "hook" THEN "killed" ELSE proc
         /\ UNCHANGED <<go, stack>>
    ELSE /\ go' = "exited"
         /\ stack' = Push(ExitFrame(NoCall, ExitCode(n), o))
         /\ UNCHANGED <<lateExit, proc>>

CheckedExitAlways(n, o) ==
    exitCalled' = TRUE /\ listening' = FALSE /\ EnterExit(n, o)

CheckedExitNoCode(n, o) ==
    IF exitCalled
    THEN UNCHANGED <<exitCalled, listening, lateExit, proc, go, stack>>
    ELSE exitCalled' = TRUE /\ listening' = FALSE /\ EnterExit(0, o)

(* checked_exit(n), which does something once only. *)
CheckedExit(n, o) ==
    IF exitCalled
    THEN UNCHANGED <<exitCalled, listening, lateExit, proc, go, stack>>
    ELSE /\ exitCalled' = TRUE /\ listening' = FALSE
         /\ EnterExit(n, o)

-----------------------------------------------------------------------------
(* Starting.                                                               *)

(* The callback of makeWebAuthn; promisify keeps the first outcome. *)
Callback(outcome) ==
    /\ cbCalls' = cbCalls + 1
    /\ promise' = IF promise = "pending" THEN outcome ELSE promise

(* randomBytes, readFile or instantiate has answered; after the last one
   go.run enters Go's main, on the stack. *)
LoadStep ==
    /\ Idle
    /\ \/ stage = "random" /\ stage' = "read" /\ UNCHANGED <<go, stack>>
       \/ stage = "read" /\ stage' = "instantiate" /\ UNCHANGED <<go, stack>>
       \/ /\ stage = "instantiate" /\ stage' = "done"
          /\ go' = "main" /\ stack' = <<RunFrame>>
    /\ UNCHANGED <<hooked, initErr, methods, tick, promise, cbCalls, exitVars,
                   userVars, timer, calls, proc, crashed>>

LoadFailsSilently ==
    /\ Idle /\ stage # "done"
    /\ stage' = "done"
    /\ UNCHANGED <<hooked, initErr, methods, tick, promise, cbCalls, exitVars,
                   userVars, go, timer, calls, stack, proc, crashed>>

(* One of them failed, or what runs between them threw: the catch. *)
LoadFails ==
    /\ Idle /\ stage # "done"
    /\ stage' = "done"
    /\ Callback("rejected")
    /\ UNCHANGED <<hooked, initErr, methods, tick, exitVars, userVars, go, timer,
                   calls, stack, proc, crashed>>

(* Go's main invokes global[uid], which registers its listeners and calls
   methods.init. *)
InvokeUid ==
    /\ On("run") /\ ~hooked
    /\ hooked' = TRUE /\ listening' = TRUE
    /\ stack' = Push(InitFrame)
    /\ UNCHANGED <<stage, initErr, methods, tick, promise, cbCalls, exitCalled,
                   requested, lateExit, userVars, go, timer, calls, proc, crashed>>

(* initialize calls its callback without an error. *)
InitOk ==
    /\ On("init")
    /\ methods' = TRUE
    /\ Callback("resolved")
    /\ stack' = Below
    /\ UNCHANGED <<stage, hooked, initErr, tick, exitVars, userVars, go, timer,
                   calls, proc, crashed>>

InitFailsReportsToo ==
    /\ On("init")
    /\ initErr' = TRUE /\ tick' = TRUE
    /\ Callback("rejected")
    /\ stack' = Below
    /\ UNCHANGED <<stage, hooked, methods, exitVars, userVars, go, timer, calls,
                   proc, crashed>>

InitFailsExitsAtOnce ==
    /\ On("init")
    /\ initErr' = TRUE
    /\ CheckedExit(0, "init")
    /\ UNCHANGED <<stage, hooked, methods, tick, promise, cbCalls, requested,
                   userVars, timer, calls, crashed>>

(* initialize refuses the configuration; Go is told to exit on the next
   tick, when main waits for it. *)
InitFails ==
    /\ On("init")
    /\ initErr' = TRUE /\ tick' = TRUE
    /\ stack' = Below
    /\ UNCHANGED <<stage, hooked, methods, promise, cbCalls, exitVars, userVars,
                   go, timer, calls, proc, crashed>>

(* main waits for an exit code and run returns to index.js. *)
MainWaits ==
    /\ On("run") /\ hooked
    /\ go' = "waiting" /\ stack' = Below
    /\ UNCHANGED <<startVars, exitVars, userVars, timer, calls, proc, crashed>>

-----------------------------------------------------------------------------
(* Exiting.                                                                *)

(* The tick queued by a failed initialisation. *)
Tick ==
    /\ Idle /\ tick /\ proc = "alive"
    /\ tick' = FALSE
    /\ CheckedExit(0, "hook")
    /\ UNCHANGED <<stage, hooked, initErr, methods, promise, cbCalls, requested,
                   userVars, timer, calls, crashed>>

(* The event loop has run out of work. *)
BeforeExit ==
    /\ Idle /\ proc = "alive" /\ listening
    /\ stage = "done" /\ ~tick /\ ~timer
    /\ CheckedExit(0, "hook")
    /\ UNCHANGED <<startVars, requested, userVars, timer, calls, crashed>>

(* Go dies of a fatal error while it runs: in main, in initialize or in the
   handler of a call.  wasmExit runs on top of the JavaScript that entered Go. *)
GoCrash ==
    /\ GoCanCrash /\ OnAny({"run", "init", "api"})
    /\ go' = "exited" /\ crashed' = TRUE
    /\ stack' = Replace(ExitFrame(Top.call, CrashCode, Top.kind))
    /\ UNCHANGED <<startVars, exitVars, userVars, timer, calls, proc>>

(* An exception leaves go.exit.  It unwinds Go up to the JavaScript that
   entered it: exit() throws, the call rejects; go.run's promise and the
   hooks have nobody to catch it. *)
Throw ==
    /\ stack' = IF Top.from = "init" THEN SubSeq(stack, 1, Len(stack) - 2) ELSE Below
    /\ proc' = IF Top.from \in {"run", "init", "hook"} THEN "killed" ELSE proc
    /\ calls' = IF Top.from = "api" THEN [calls EXCEPT ![Top.call] = "rejected"]
                                    ELSE calls

(* The function error of makeWebAuthn: an 'error' event once the instance is
   initialised, which throws if nobody listens, else the callback. *)
ReportError(k) ==
    IF methods
    THEN /\ UNCHANGED <<promise, cbCalls>>
         /\ IF errListener
            THEN /\ events' = Append(events, Event("error", Top.n))
                 /\ stack' = Append(Becomes(k), ListenerFrame("onError"))
                 /\ UNCHANGED <<proc, calls>>
            ELSE Throw /\ UNCHANGED events
    ELSE /\ Callback("rejected")
         /\ stack' = Becomes(k)
         /\ UNCHANGED <<events, proc, calls>>

ErrorUnlessInitialised == ~methods

(* go.exit reports an error for every code but 0, and for any exit before the
   instance is initialised; *)
NeedsError == Top.n # 0 \/ ~methods

NothingAfterError == "exitDone"

(* and it returns at once after reporting that the initialisation failed. *)
AfterError == IF initErr THEN "exitDone" ELSE "exitEmit"

(* go.exit up to its last statement. *)
GoExit ==
    /\ On("goExit")
    /\ \/ /\ initErr \/ NeedsError
          /\ ReportError(AfterError)
       \/ /\ ~initErr /\ ~NeedsError
          /\ stack' = Becomes("exitEmit")
          /\ UNCHANGED <<promise, cbCalls, events, proc, calls>>
    /\ UNCHANGED <<loadVars, exitVars, errListener, go, timer, crashed>>

(* The 'exit' event: exited() first, then the application's listeners, which
   exist only if makeWebAuthn gave it the instance. *)
ExitEmit ==
    /\ On("exitEmit")
    /\ events' = Append(events, Event("exit", Top.n))
    /\ IF hooked THEN exitCalled' = TRUE /\ listening' = FALSE
                 ELSE UNCHANGED <<exitCalled, listening>>
    /\ stack' = IF promise = "resolved"
                THEN Append(Becomes("exitDone"), ListenerFrame("onExit"))
                ELSE Becomes("exitDone")
    /\ UNCHANGED <<startVars, requested, lateExit, errListener, go, timer, calls,
                   proc, crashed>>

(* go.exit has returned and Go has unwound.  A call that was running returns
   without an answer; global[uid] returns into valueInvoke, which finds no
   instance any more and throws into run. *)
ExitDone ==
    /\ On("exitDone")
    /\ IF Top.from = "init" THEN Throw
                            ELSE stack' = Below /\ UNCHANGED <<proc, calls>>
    /\ UNCHANGED <<startVars, exitVars, userVars, go, timer, crashed>>

-----------------------------------------------------------------------------
(* The application, wherever its code runs: from the event loop once it has *)
(* the instance, in an option function, in a listener.                     *)

UserRuns ==
    /\ promise = "resolved" /\ proc = "alive"
    /\ Idle \/ OnAny(UserKinds)

UserListens ==
    /\ UserRuns /\ ~errListener
    /\ errListener' = TRUE
    /\ UNCHANGED <<startVars, exitVars, events, go, timer, calls, stack, proc,
                   crashed>>

(* webauthn.exit(n) *)
UserExit(n) ==
    /\ UserRuns
    /\ requested' = IF exitCalled THEN requested ELSE n
    /\ CheckedExit(n, "exit")
    /\ UNCHANGED <<startVars, userVars, timer, calls, crashed>>

(* A call with n option functions: its Go handler starts at once.  A dead
   program throws, inside promisify, so the promise rejects. *)
UserCall(c, n) ==
    /\ UserRuns /\ calls[c] = "unused"
    /\ IF ResumeThrows
       THEN calls' = [calls EXCEPT ![c] = "rejected"] /\ UNCHANGED stack
       ELSE /\ calls' = [calls EXCEPT ![c] = "pending"]
            /\ stack' = Push(ApiFrame(c, n))
    /\ UNCHANGED <<startVars, exitVars, userVars, go, timer, proc, crashed>>

(* A listener returns into emit. *)
ListenerReturns ==
    /\ OnAny({"onError", "onExit"})
    /\ stack' = Below
    /\ UNCHANGED <<startVars, exitVars, userVars, go, timer, calls, proc, crashed>>

-----------------------------------------------------------------------------
(* The Go handlers of the API calls, and the timeouts of the Go runtime.   *)

(* The handler invokes the next option function. *)
ApiOption ==
    /\ On("api") /\ Top.n > 0
    /\ stack' = Append(Replace(ApiFrame(Top.call, Top.n - 1)), OptFrame(Top.call))
    /\ UNCHANGED <<startVars, exitVars, userVars, go, timer, calls, proc, crashed>>

(* The option function returns into valueInvoke, and Go goes on. *)
OptReturns ==
    /\ On("opt") /\ ~InstanceGone
    /\ stack' = Below
    /\ UNCHANGED <<startVars, exitVars, userVars, go, timer, calls, proc, crashed>>

OptReturnsLateUncaught ==
    /\ On("opt") /\ InstanceGone
    /\ stack' = SubSeq(stack, 1, Len(stack) - 2)
    /\ UNCHANGED <<startVars, exitVars, userVars, go, timer, calls, proc, crashed>>

(* The option function returns into valueInvoke after Go has exited: the
   instance is gone, valueInvoke throws through Go and the call rejects. *)
OptReturnsLate ==
    /\ On("opt") /\ InstanceGone
    /\ stack' = SubSeq(stack, 1, Len(stack) - 2)
    /\ calls' = [calls EXCEPT ![Top.call] = "rejected"]
    /\ UNCHANGED <<startVars, exitVars, userVars, go, timer, proc, crashed>>

ApiReturnsWithoutCallback ==
    /\ On("api")
    /\ \/ Top.n = 0 /\ calls' = [calls EXCEPT ![Top.call] = "fulfilled"]
       \/ UNCHANGED calls
    /\ stack' = Below
    /\ UNCHANGED <<startVars, exitVars, userVars, go, timer, proc, crashed>>

(* The handler calls its callback with a result, or with an error, a panic
   included, and returns. *)
ApiReturns ==
    /\ On("api")
    /\ \/ Top.n = 0 /\ calls' = [calls EXCEPT ![Top.call] = "fulfilled"]
       \/ calls' = [calls EXCEPT ![Top.call] = "rejected"]
    /\ stack' = Below
    /\ UNCHANGED <<startVars, exitVars, userVars, go, timer, proc, crashed>>

(* The Go runtime sets or clears a timeout while it runs.  wasmExit clears
   none. *)
GoTimer ==
    /\ GoTimers /\ OnAny({"init", "api"})
    /\ timer' = ~timer
    /\ UNCHANGED <<startVars, exitVars, userVars, go, calls, stack, proc, crashed>>

(* The timeout resumes Go; if Go has exited, _resume throws uncaught. *)
TimerFires ==
    /\ Idle /\ proc = "alive" /\ timer /\ ~tick
    /\ timer' = FALSE
    /\ proc' = IF ResumeThrows THEN "killed" ELSE proc
    /\ UNCHANGED <<startVars, exitVars, userVars, go, calls, stack, crashed>>

-----------------------------------------------------------------------------
(* The steps that do not depend on the application asking for something. *)
Internal ==
    \/ LoadStep \/ LoadFails \/ InvokeUid \/ InitOk \/ InitFails \/ MainWaits
    \/ Tick \/ GoExit \/ ExitEmit \/ ExitDone \/ ListenerReturns
    \/ ApiOption \/ OptReturns \/ OptReturnsLate \/ ApiReturns

Next ==
    \/ Internal \/ BeforeExit \/ GoCrash \/ GoTimer \/ TimerFires
    \/ UserListens
    \/ \E n \in Codes : UserExit(n)
    \/ \E c \in Calls, n \in 0 .. MaxOptions : UserCall(c, n)

(* I/O completes, a queued tick runs, code that was called runs on and the
   application's callbacks return.  Nothing is assumed of the application,
   of the moment the loop drains or of crashes. *)
Spec == Init /\ [][Next]_vars
FairSpec == Spec /\ WF_vars(Internal)

-----------------------------------------------------------------------------
(* Correctness.                                                            *)

(* makeWebAuthn's callback is called at most once, whichever of the catch,
   the init callback and go.exit gets to it, and its promise is pending for
   exactly as long as it was not called. *)
CallbackOnce ==
    /\ cbCalls <= 1
    /\ promise = "pending" <=> cbCalls = 0

(* A call that still waits for its answer while nothing runs has lost it to
   a fatal error of Go, which the 'error' and 'exit' events have announced:
   neither an orderly exit() nor one made inside an option function leaves
   a promise behind. *)
NoLostCall ==
    Idle /\ (\E c \in Calls : calls[c] = "pending") =>
        crashed /\ Delivered("error") /\ Delivered("exit")

(* Nothing the instance does kills the process, except a timeout that the Go
   runtime left behind, and a fatal error of Go that was not reported: before
   the application had the instance, or when nobody listened to 'error'. *)
ProcessSurvives ==
    [][proc = "alive" /\ proc' = "killed" =>
         \/ timer /\ go = "exited"
         \/ crashed /\ (promise # "resolved" \/ ~Delivered("error"))]_vars

(* Once the 'exit' event is out, exit() and the process's 'beforeExit' have no
   effect any more; and without a fatal error methods.exit is never entered
   twice, however exit(), the tick and 'beforeExit' are ordered. *)
ExitEntersOnce ==
    /\ lateExit => crashed
    /\ hooked /\ Delivered("exit") => exitCalled /\ ~listening

(* What the exit event reports is what exit() was asked for, as an int32,
   unless Go crashed or nobody had asked. *)
ExitCodeReported ==
    \A i \in DOMAIN events : events[i].name = "exit" /\ ~crashed =>
        events[i].code = IF requested = NoCode THEN 0 ELSE requested % CodeModulus

(* The order of events: 'error' at most once, before 'exit', with its code,
   and for the codes other than 0; 'exit' at most once and last. *)
EventOrder ==
    /\ Len(events) <= 2
    /\ \A i \in DOMAIN events :
         /\ events[i].name = "error" => i = 1 /\ events[i].code # 0
         /\ events[i].name = "exit" => i = Len(events)
    /\ Len(events) = 2 => events[1].code = events[2].code
    /\ (\A i \in DOMAIN events : events[i].name = "exit" /\ events[i].code # 0 =>
          Delivered("error") \/ promise # "resolved")

(* No call is answered by a program that has exited. *)
AnsweredByLiveGo ==
    [][\A c \in Calls : calls[c] # "fulfilled" /\ calls'[c] = "fulfilled" =>
         go = "waiting" /\ ~Delivered("exit")]_vars

(* makeWebAuthn always settles its promise, unless the process dies. *)
StartSettles == <>(promise # "pending" \/ proc = "killed")

(* Every call is settled unless Go crashes. *)
CallsSettle ==
    \A c \in Calls : calls[c] = "pending" ~> (calls[c] # "pending" \/ crashed)

(* When Go exits, by exit() or by a crash, an initialised instance delivers
   its 'exit' event, if the code is 0 or the application listens to 'error'. *)
ExitReported ==
    On("goExit") /\ methods /\ (errListener \/ Top.n = 0) ~> Delivered("exit")

(* The instance keeps its contract: promise, events and calls are the
   contract's own. *)
Contract == INSTANCE InstanceContract WITH ErrorCodes <- 1 .. (CodeModulus - 1)

KeepsContract == Contract!Spec

-----------------------------------------------------------------------------
(* What the documentation says and the code does not do.                   *)

(* index.d.ts on exit(): "A exit event will be fired once the Web Assembly
   code exits."  Without a listener, emit('error') throws out of go.exit. *)
DocExitFires ==
    Idle /\ requested # NoCode /\ go = "exited" => Delivered("exit")

(* index.d.ts on exit(): "If this parameter is non-zero [...] error event will
   be fired before the exit event."  A multiple of 2^32 exits with code 0. *)
DocNonZeroErrs ==
    requested \notin {NoCode, 0} /\ ~crashed /\ Delivered("exit") => Delivered("error")

=============================================================================
