------------------------------- MODULE Bridge -------------------------------
(***************************************************************************)
(* The border between Go and JavaScript (wasm_exec.js), on one thread:     *)
(* JavaScript enters Go by a function wrapper or a timeout, Go calls        *)
(* JavaScript by valueCall, valueInvoke or valueNew, and either happens in  *)
(* the middle of the other.  Such a call writes its result into Go's stack, *)
(* which Go, entered again meanwhile, may have moved, in a memory it may    *)
(* have grown.                                                             *)
(*                                                                         *)
(* Go's side (handleEvent of syscall/js, the stack and the memory) is       *)
(* external.  Exits are in Lifecycle.                                       *)
(***************************************************************************)
EXTENDS Naturals, Sequences

CONSTANTS MaxEvents, MaxDepth, MaxMoves   \* bounds of the counters

ASSUME BridgeAssumption ==
    MaxEvents \in Nat /\ MaxDepth \in Nat \ {0} /\ MaxMoves \in Nat

VARIABLES
    stack,        \* entries into Go and calls of JavaScript, the innermost last
    pendingEvent, \* _pendingEvent
    events,       \* the event of each call of a wrapper, with its result
    sp,           \* where Go's stack is
    buffer,       \* which buffer Go's memory is
    mem           \* the buffer that this.mem is a view of

bridgeVars == <<stack, pendingEvent, events, sp, buffer, mem>>

NoEvent == 0

(* An entry into Go: the event of the wrapper (own), the one Go took (event),
   and what Go finds where it expects the result of its last call. *)
Entry(kind, own, event) ==
    [kind |-> kind, own |-> own, event |-> event, sp |-> 0, got |-> "nothing"]

(* A call of JavaScript: the stack pointer it was passed. *)
CallFrame == [kind |-> "js", own |-> NoEvent, event |-> NoEvent, sp |-> sp, got |-> "nothing"]

Frame == [kind : {"resumed", "go", "js"}, own : 0 .. MaxEvents, event : 0 .. MaxEvents,
          sp : 0 .. MaxMoves, got : {"nothing", "result", "garbage"}]
Event == [result : 0 .. MaxEvents, returned : 0 .. MaxEvents]

BridgeTypeOK ==
    /\ stack \in Seq(Frame) /\ Len(stack) <= MaxDepth
    /\ pendingEvent \in 0 .. MaxEvents
    /\ events \in Seq(Event) /\ Len(events) <= MaxEvents
    /\ sp \in 0 .. MaxMoves /\ buffer \in 0 .. MaxMoves /\ mem \in 0 .. MaxMoves

(* run() has entered Go's main. *)
BridgeInit ==
    /\ stack = <<Entry("go", NoEvent, NoEvent)>>
    /\ pendingEvent = NoEvent /\ events = <<>>
    /\ sp = 0 /\ buffer = 0 /\ mem = 0

Inner == stack[Len(stack)]
Outer == SubSeq(stack, 1, Len(stack) - 1)
Runs(kind) == stack # <<>> /\ Inner.kind = kind
JavaScriptRuns == stack = <<>> \/ Runs("js")
Enters(f) == Len(stack) < MaxDepth /\ stack' = Append(stack, f)

-----------------------------------------------------------------------------
(* Entering Go.                                                            *)

PendingUnlessBusy(e) == IF stack = <<>> THEN e ELSE pendingEvent

(* _makeFuncWrapper: the event is pending when Go is resumed. *)
Pending(e) == e

CallWrapper ==
    /\ JavaScriptRuns /\ Len(events) < MaxEvents
    /\ events' = Append(events, [result |-> NoEvent, returned |-> NoEvent])
    /\ pendingEvent' = Pending(Len(events'))
    /\ Enters(Entry("resumed", Len(events'), NoEvent))
    /\ UNCHANGED <<sp, buffer, mem>>

(* The callback of scheduleTimeoutEvent resumes Go without an event. *)
Timeout ==
    /\ stack = <<>>
    /\ Enters(Entry("resumed", NoEvent, NoEvent))
    /\ UNCHANGED <<pendingEvent, events, sp, buffer, mem>>

(* Go takes the pending event, its id, this and args, with valueGet, valueSet,
   valueLength and valueIndex. *)
TakeEvent ==
    /\ Runs("resumed")
    /\ stack' = Append(Outer, Entry("go", Inner.own, pendingEvent))
    /\ pendingEvent' = NoEvent
    /\ UNCHANGED <<events, sp, buffer, mem>>

(* event.result, once Go has set that of the event it took, here its number *)
Result(e) == IF e = Inner.event THEN e ELSE events[e].result

ResultOfLast(e) == Result(Len(events))

(* The wrapper returns the result of its own event. *)
ResultOf(e) == Result(e)

(* Go sets the result and pauses.  After a timeout, and when main waits, there
   is none. *)
GoPauses ==
    /\ Runs("go")
    /\ events' = [e \in DOMAIN events |->
         [result |-> Result(e),
          returned |-> IF e = Inner.own THEN ResultOf(e) ELSE events[e].returned]]
    /\ stack' = Outer
    /\ UNCHANGED <<pendingEvent, sp, buffer, mem>>

-----------------------------------------------------------------------------
(* Go at work.                                                             *)

(* morestack copies the stack to a larger one. *)
MoveStack ==
    /\ Runs("go") /\ sp < MaxMoves /\ sp' = sp + 1
    /\ UNCHANGED <<stack, pendingEvent, events, buffer, mem>>

ViewUnchanged == mem

(* resetMemoryDataView *)
NewView == buffer'

(* Memory grows, which detaches the old buffer, and Go says so at once. *)
GrowMemory ==
    /\ Runs("go") /\ buffer < MaxMoves /\ buffer' = buffer + 1
    /\ mem' = NewView
    /\ UNCHANGED <<stack, pendingEvent, events, sp>>

(* valueCall, valueInvoke, valueNew: the function is looked up, the arguments
   are loaded, and the function is called. *)
CallJavaScript ==
    /\ Runs("go") /\ Enters(CallFrame)
    /\ UNCHANGED <<pendingEvent, events, sp, buffer, mem>>

SpOnEntry == Inner.sp

(* getsp() *)
SpNow == sp

(* The function has returned and its result is stored; *)
Found(at) == IF at = sp /\ mem = buffer THEN "result" ELSE "garbage"
Store(at) == stack' = [Outer EXCEPT ![Len(Outer)].got = Found(at)]

JavaScriptReturns ==
    /\ Runs("js") /\ Store(SpNow)
    /\ UNCHANGED <<pendingEvent, events, sp, buffer, mem>>

SpOfCatch == SpNow

(* or it has thrown, and the exception is stored as a result. *)
JavaScriptThrows ==
    /\ Runs("js") /\ Store(SpOfCatch)
    /\ UNCHANGED <<pendingEvent, events, sp, buffer, mem>>

BridgeNext ==
    \/ CallWrapper \/ Timeout \/ TakeEvent \/ GoPauses
    \/ MoveStack \/ GrowMemory \/ CallJavaScript
    \/ JavaScriptReturns \/ JavaScriptThrows

-----------------------------------------------------------------------------
(* Correctness.                                                            *)

(* However deep Go and JavaScript call each other, every entry into Go takes
   the event it was made for: none is overwritten, left behind or taken by
   the resumption of a timeout. *)
OwnEventTaken ==
    /\ \A i \in DOMAIN stack : stack[i].kind = "go" => stack[i].event = stack[i].own
    /\ pendingEvent # NoEvent => Runs("resumed") /\ Inner.own = pendingEvent

(* A wrapper returns what Go answered its own event, not an inner one's, and
   has done so once Go is left. *)
OwnResultReturned ==
    \A e \in DOMAIN events :
        \/ events[e].returned = e
        \/ events[e].returned = NoEvent /\ \E i \in DOMAIN stack : stack[i].own = e

(* Go finds the result of a call, or its exception, where it expects it, even
   if the function called had Go move its stack or grow its memory. *)
ResultsReachGo == \A i \in DOMAIN stack : stack[i].got # "garbage"

(* The border answers the calls of Go as CallOrder promises. *)
Waiting == {stack[i].own : i \in DOMAIN stack} \ {NoEvent}

Contract == INSTANCE CallOrder WITH
    waiting <- Waiting,
    answers <- [e \in DOMAIN events |-> events[e].returned]

KeepsCallOrder == Contract!Spec

=============================================================================
