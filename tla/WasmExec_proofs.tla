-------------------------- MODULE WasmExec_proofs --------------------------
(***************************************************************************)
(* Proofs about the border between Go and JavaScript, for any number of    *)
(* calls, any depth of nesting and any movements of Go's stack, and about  *)
(* the memory, the clock and the output of Go.                             *)
(*                                                                         *)
(* That every entry takes its own event needs to know that only the        *)
(* innermost entry can still be without one, and that its event is then    *)
(* the pending one; that results reach Go, that the view is always renewed.*)
(***************************************************************************)
EXTENDS WasmExec, TLAPS, SequenceTheorems, FiniteSetTheorems, WellFoundedInduction

(* An entry that was just made: its event is pending.  Calls of JavaScript have
   none. *)
ResumedInv ==
    /\ \A i \in DOMAIN stack : stack[i].kind = "resumed" =>
         i = Len(stack) /\ stack[i].own = pendingEvent
    /\ Runs("resumed") \/ pendingEvent = NoEvent
    /\ \A i \in DOMAIN stack : stack[i].kind = "js" => stack[i].own = NoEvent

ViewInv == mem = buffer /\ ResultsReachGo

IInv == BridgeTypeOK /\ ResumedInv /\ OwnEventTaken /\ OwnResultReturned /\ ViewInv

-----------------------------------------------------------------------------
(* How the next stack relates to this one. *)

LEMMA AppendFacts ==
    ASSUME NEW S, NEW s \in Seq(S), NEW f \in S
    PROVE  /\ Append(s, f) \in Seq(S)
           /\ Len(Append(s, f)) = Len(s) + 1
           /\ DOMAIN Append(s, f) = 1 .. (Len(s) + 1)
           /\ \A i \in 1 .. Len(s) : Append(s, f)[i] = s[i]
           /\ Append(s, f)[Len(s) + 1] = f
  OBVIOUS

LEMMA FrontFacts ==
    ASSUME NEW S, NEW s \in Seq(S), NEW k \in 0 .. Len(s)
    PROVE  /\ SubSeq(s, 1, k) \in Seq(S)
           /\ Len(SubSeq(s, 1, k)) = k
           /\ DOMAIN SubSeq(s, 1, k) = 1 .. k
           /\ \A i \in 1 .. k : SubSeq(s, 1, k)[i] = s[i]
  OBVIOUS

LEMMA Shape ==
    ASSUME BridgeTypeOK
    PROVE  /\ stack \in Seq(Frame) /\ Len(stack) \in Nat /\ DOMAIN stack = 1 .. Len(stack)
           /\ \A i \in 1 .. Len(stack) : stack[i] \in Frame
           /\ events \in Seq(Event) /\ Len(events) \in 0 .. MaxEvents
           /\ DOMAIN events = 1 .. Len(events)
           /\ \A e \in 1 .. Len(events) : events[e] \in Event
           /\ stack # <<>> => Len(stack) \in 1 .. MaxDepth
           /\ stack = <<>> => Len(stack) = 0
  BY BridgeAssumption DEF BridgeTypeOK

LEMMA EntersShape ==
    ASSUME BridgeTypeOK, NEW f \in Frame, Enters(f)
    PROVE  /\ stack' \in Seq(Frame) /\ Len(stack') = Len(stack) + 1 /\ Len(stack') <= MaxDepth
           /\ DOMAIN stack' = 1 .. (Len(stack) + 1)
           /\ \A i \in 1 .. Len(stack) : stack'[i] = stack[i]
           /\ stack'[Len(stack) + 1] = f
<1>1. stack \in Seq(Frame) /\ Len(stack) < MaxDepth /\ stack' = Append(stack, f)
  BY DEF BridgeTypeOK, Enters
<1>2. Len(stack) \in Nat /\ Len(stack') = Len(stack) + 1
  BY <1>1, AppendFacts
<1> QED
  BY <1>1, <1>2, AppendFacts, BridgeAssumption

LEMMA OuterShape ==
    ASSUME BridgeTypeOK, stack # <<>>
    PROVE  /\ Outer \in Seq(Frame) /\ Len(Outer) = Len(stack) - 1
           /\ DOMAIN Outer = 1 .. (Len(stack) - 1)
           /\ \A i \in 1 .. (Len(stack) - 1) : Outer[i] = stack[i]
<1>1. stack \in Seq(Frame) /\ Len(stack) - 1 \in 0 .. Len(stack)
  BY Shape
<1> QED
  BY <1>1, FrontFacts DEF Outer

LEMMA InnerType ==
    ASSUME BridgeTypeOK, stack # <<>>
    PROVE  Inner \in Frame /\ Inner = stack[Len(stack)] /\ Len(stack) \in 1 .. MaxDepth
  BY Shape DEF Inner

LEMMA InnerNow ==
    ASSUME NEW k, Runs(k)
    PROVE  stack # <<>> /\ stack[Len(stack)].kind = k
  BY DEF Runs, Inner

-----------------------------------------------------------------------------
LEMMA InitIInv == BridgeInit => IInv
<1> SUFFICES ASSUME BridgeInit PROVE IInv
  OBVIOUS
<1>1. Entry("go", NoEvent, NoEvent) \in Frame
  BY BridgeAssumption DEF Entry, Frame, NoEvent
<1>2. /\ stack \in Seq(Frame) /\ Len(stack) = 1 /\ DOMAIN stack = {1}
      /\ stack[1] = Entry("go", NoEvent, NoEvent)
      /\ events \in Seq(Event) /\ Len(events) = 0 /\ DOMAIN events = {}
  BY <1>1 DEF BridgeInit
<1>3. BridgeTypeOK
  BY <1>2, BridgeAssumption DEF BridgeInit, BridgeTypeOK, NoEvent
<1>4. ResumedInv /\ OwnEventTaken /\ OwnResultReturned /\ ViewInv
  BY <1>2 DEF BridgeInit, ResumedInv, OwnEventTaken, OwnResultReturned, ViewInv,
              ResultsReachGo, Entry
<1> QED
  BY <1>3, <1>4 DEF IInv

(* Calling a wrapper, and a timeout: JavaScript runs, so no entry is without
   its event yet. *)
LEMMA NonePending ==
    ASSUME IInv, JavaScriptRuns
    PROVE  /\ pendingEvent = NoEvent
           /\ \A i \in 1 .. Len(stack) : stack[i].kind # "resumed"
  BY Shape DEF IInv, JavaScriptRuns, ResumedInv, Runs, Inner

LEMMA CallWrapperIInv == ASSUME IInv, CallWrapper PROVE IInv'
<1>0. Len(events) + 1 \in 1 .. MaxEvents
  BY Shape, BridgeAssumption DEF IInv, CallWrapper
<1>1. PICK e \in 1 .. MaxEvents : e = Len(events) + 1
  BY <1>0
<1>2. [result |-> NoEvent, returned |-> NoEvent] \in Event
  BY BridgeAssumption DEF Event, NoEvent
<1>3. /\ events' \in Seq(Event) /\ Len(events') = e /\ DOMAIN events' = 1 .. e
      /\ \A d \in 1 .. Len(events) : events'[d] = events[d]
      /\ events'[e].returned = NoEvent
  BY <1>1, <1>2, AppendFacts DEF IInv, BridgeTypeOK, CallWrapper
<1>4. PICK f \in Frame : f = Entry("resumed", e, NoEvent)
  <2>1. Entry("resumed", e, NoEvent) \in Frame
    BY BridgeAssumption DEF Entry, Frame, NoEvent
  <2> QED
    BY <2>1
<1>5. Enters(f) /\ pendingEvent' = e /\ UNCHANGED <<sp, buffer, mem>>
  BY <1>3, <1>4 DEF CallWrapper, Pending
<1>6. /\ stack' \in Seq(Frame) /\ Len(stack') = Len(stack) + 1 /\ Len(stack') <= MaxDepth
      /\ DOMAIN stack' = 1 .. (Len(stack) + 1)
      /\ \A i \in 1 .. Len(stack) : stack'[i] = stack[i]
      /\ stack'[Len(stack) + 1] = f
      /\ Len(stack) \in Nat /\ DOMAIN stack = 1 .. Len(stack)
      /\ DOMAIN events = 1 .. Len(events)
  BY <1>5, EntersShape, Shape DEF IInv
<1>7. f.kind = "resumed" /\ f.own = e /\ f.got = "nothing"
  BY <1>4 DEF Entry
<1>8. \A i \in 1 .. Len(stack) : stack[i].kind # "resumed"
  BY NonePending DEF CallWrapper
<1>9. BridgeTypeOK'
  BY <1>1, <1>3, <1>5, <1>6 DEF IInv, BridgeTypeOK
<1>10. (Runs("resumed") /\ Inner.own = pendingEvent)'
  BY <1>5, <1>6, <1>7 DEF Runs, Inner
<1>11. ResumedInv' /\ OwnEventTaken'
  BY <1>5, <1>6, <1>7, <1>8, <1>10 DEF IInv, ResumedInv, OwnEventTaken
<1>12. OwnResultReturned'
  <2> SUFFICES ASSUME NEW d \in 1 .. e
               PROVE  \/ events'[d].returned = d
                      \/ events'[d].returned = NoEvent /\ \E i \in DOMAIN stack' : stack'[i].own = d
    BY <1>3 DEF OwnResultReturned
  <2>1. CASE d = e
    BY <1>3, <1>6, <1>7, <2>1
  <2>2. CASE d # e
    <3>1. d \in DOMAIN events
      BY <1>1, <1>6, <2>2
    <3> QED
      BY <1>1, <1>3, <1>6, <3>1 DEF IInv, OwnResultReturned
  <2> QED
    BY <2>1, <2>2
<1>13. ViewInv'
  BY <1>5, <1>6, <1>7 DEF IInv, ViewInv, ResultsReachGo
<1> QED
  BY <1>9, <1>11, <1>12, <1>13 DEF IInv

LEMMA TimeoutIInv == ASSUME IInv, Timeout PROVE IInv'
<1>1. PICK f \in Frame : f = Entry("resumed", NoEvent, NoEvent)
  <2>1. Entry("resumed", NoEvent, NoEvent) \in Frame
    BY BridgeAssumption DEF Entry, Frame, NoEvent
  <2> QED
    BY <2>1
<1>2. f.kind = "resumed" /\ f.own = NoEvent /\ f.got = "nothing"
  BY <1>1 DEF Entry
<1>3. pendingEvent = NoEvent /\ Len(stack) = 0 /\ DOMAIN stack = {}
  BY NonePending, Shape DEF IInv, Timeout, JavaScriptRuns
<1>4. /\ stack' \in Seq(Frame) /\ Len(stack') = 1 /\ Len(stack') <= MaxDepth
      /\ DOMAIN stack' = {1} /\ stack'[1] = f
  BY <1>1, <1>3, EntersShape DEF IInv, Timeout
<1>5. UNCHANGED <<pendingEvent, events, sp, buffer, mem>>
  BY DEF Timeout
<1>6. BridgeTypeOK' /\ ViewInv'
  BY <1>2, <1>4, <1>5 DEF IInv, BridgeTypeOK, ViewInv, ResultsReachGo
<1>7. ResumedInv' /\ OwnEventTaken'
  BY <1>2, <1>3, <1>4, <1>5 DEF ResumedInv, OwnEventTaken, Runs, Inner
<1>8. OwnResultReturned'
  BY <1>3, <1>5 DEF IInv, OwnResultReturned
<1> QED
  BY <1>6, <1>7, <1>8 DEF IInv

(* Go takes the event of its own wrapper. *)
LEMMA TakeEventIInv == ASSUME IInv, TakeEvent PROVE IInv'
<1>1. /\ stack # <<>> /\ Inner \in Frame /\ Inner = stack[Len(stack)]
      /\ Len(stack) \in 1 .. MaxDepth /\ Inner.kind = "resumed"
  BY InnerType DEF IInv, TakeEvent, Runs
<1>2. Inner.own = pendingEvent /\ pendingEvent \in 0 .. MaxEvents
  BY <1>1, Shape DEF IInv, ResumedInv, BridgeTypeOK
<1>3. PICK f \in Frame : f = Entry("go", Inner.own, pendingEvent)
  <2>1. Entry("go", Inner.own, pendingEvent) \in Frame
    BY <1>2, BridgeAssumption DEF Entry, Frame
  <2> QED
    BY <2>1
<1>4. f.kind = "go" /\ f.own = Inner.own /\ f.event = f.own /\ f.got = "nothing"
  BY <1>2, <1>3 DEF Entry
<1>5. /\ Outer \in Seq(Frame) /\ Len(Outer) = Len(stack) - 1
      /\ \A i \in 1 .. (Len(stack) - 1) : Outer[i] = stack[i]
  BY <1>1, OuterShape DEF IInv
<1>6. stack' = Append(Outer, f)
  BY <1>3 DEF TakeEvent
<1>7. /\ stack' \in Seq(Frame) /\ Len(stack') = Len(stack) /\ DOMAIN stack' = 1 .. Len(stack)
      /\ \A i \in 1 .. (Len(stack) - 1) : stack'[i] = stack[i]
      /\ stack'[Len(stack)] = f
  <2>1. /\ Append(Outer, f) \in Seq(Frame) /\ Len(Append(Outer, f)) = Len(Outer) + 1
        /\ DOMAIN Append(Outer, f) = 1 .. (Len(Outer) + 1)
        /\ \A i \in 1 .. Len(Outer) : Append(Outer, f)[i] = Outer[i]
        /\ Append(Outer, f)[Len(Outer) + 1] = f
    BY <1>3, <1>5, AppendFacts
  <2> QED
    BY <1>1, <1>5, <1>6, <2>1
<1>8. pendingEvent' = NoEvent /\ UNCHANGED <<events, sp, buffer, mem>>
  BY DEF TakeEvent
<1>9. DOMAIN stack = 1 .. Len(stack)
  BY Shape DEF IInv
<1>10. BridgeTypeOK' /\ ViewInv'
  BY <1>1, <1>4, <1>7, <1>8, <1>9, BridgeAssumption
     DEF IInv, BridgeTypeOK, ViewInv, ResultsReachGo, NoEvent
<1>11. ResumedInv' /\ OwnEventTaken'
  BY <1>1, <1>4, <1>7, <1>8, <1>9 DEF IInv, ResumedInv, OwnEventTaken
<1>12. \A e, i : i \in DOMAIN stack /\ stack[i].own = e => i \in DOMAIN stack' /\ stack'[i].own = e
  BY <1>1, <1>4, <1>7, <1>9
<1>13. OwnResultReturned'
  BY <1>8, <1>12 DEF IInv, OwnResultReturned
<1> QED
  BY <1>10, <1>11, <1>13 DEF IInv

(* While Go runs, no event is pending. *)
LEMMA GoRuns ==
    ASSUME IInv, Runs("go")
    PROVE  /\ pendingEvent = NoEvent /\ stack # <<>>
           /\ Inner \in Frame /\ Inner = stack[Len(stack)] /\ Len(stack) \in 1 .. MaxDepth
           /\ Inner.kind = "go" /\ Inner.event = Inner.own
           /\ \A i \in 1 .. Len(stack) : stack[i].kind # "resumed"
<1>1. /\ stack # <<>> /\ Inner \in Frame /\ Inner = stack[Len(stack)]
      /\ Len(stack) \in 1 .. MaxDepth /\ Inner.kind = "go"
  BY InnerType DEF IInv, Runs
<1>2. DOMAIN stack = 1 .. Len(stack)
  BY Shape DEF IInv
<1> QED
  BY <1>1, <1>2 DEF IInv, Runs, ResumedInv, OwnEventTaken

LEMMA GoPausesIInv == ASSUME IInv, GoPauses PROVE IInv'
<1>1. /\ pendingEvent = NoEvent /\ stack # <<>>
      /\ Inner \in Frame /\ Inner = stack[Len(stack)] /\ Len(stack) \in 1 .. MaxDepth
      /\ Inner.event = Inner.own
      /\ \A i \in 1 .. Len(stack) : stack[i].kind # "resumed"
  BY GoRuns DEF GoPauses
<1>2. /\ stack' \in Seq(Frame) /\ Len(stack') = Len(stack) - 1
      /\ DOMAIN stack' = 1 .. (Len(stack) - 1)
      /\ \A i \in 1 .. (Len(stack) - 1) : stack'[i] = stack[i]
  BY <1>1, OuterShape DEF IInv, GoPauses
<1>3. /\ Len(events) \in 0 .. MaxEvents /\ DOMAIN events = 1 .. Len(events)
      /\ \A e \in 1 .. Len(events) : events[e] \in Event
      /\ DOMAIN stack = 1 .. Len(stack)
  BY Shape DEF IInv
<1>4. \A e \in 1 .. Len(events) : Result(e) \in 0 .. MaxEvents /\ (e = Inner.own => Result(e) = e)
  BY <1>1, <1>3, BridgeAssumption DEF Result, Event
<1>5. \A e \in 1 .. Len(events) :
        [result |-> Result(e),
         returned |-> IF e = Inner.own THEN ResultOf(e) ELSE events[e].returned] \in Event
  BY <1>3, <1>4 DEF ResultOf, Event
<1>6. /\ events' \in Seq(Event) /\ Len(events') = Len(events) /\ DOMAIN events' = 1 .. Len(events)
      /\ \A e \in 1 .. Len(events) :
           events'[e].returned = IF e = Inner.own THEN e ELSE events[e].returned
  BY <1>3, <1>4, <1>5 DEF GoPauses, ResultOf
<1>7. UNCHANGED <<pendingEvent, sp, buffer, mem>>
  BY DEF GoPauses
<1>8. BridgeTypeOK' /\ ViewInv'
  <2>1. Len(stack') <= MaxDepth
    BY <1>1, <1>2, BridgeAssumption
  <2>2. BridgeTypeOK'
    BY <1>2, <1>3, <1>6, <1>7, <2>1 DEF IInv, BridgeTypeOK
  <2> QED
    BY <1>1, <1>2, <1>3, <1>7, <2>2 DEF IInv, ViewInv, ResultsReachGo
<1>9. ResumedInv' /\ OwnEventTaken'
  BY <1>1, <1>2, <1>3, <1>7 DEF IInv, ResumedInv, OwnEventTaken
<1>10. OwnResultReturned'
  <2> SUFFICES ASSUME NEW e \in 1 .. Len(events)
               PROVE  \/ events'[e].returned = e
                      \/ events'[e].returned = NoEvent /\ \E i \in DOMAIN stack' : stack'[i].own = e
    BY <1>6 DEF OwnResultReturned
  <2>1. CASE e = Inner.own
    BY <1>6, <2>1
  <2>2. CASE e # Inner.own
    <3>1. \A i \in DOMAIN stack : stack[i].own = e => i \in DOMAIN stack' /\ stack'[i].own = e
      BY <1>1, <1>2, <1>3, <2>2
    <3> QED
      BY <1>3, <1>6, <2>2, <3>1 DEF IInv, OwnResultReturned
  <2> QED
    BY <2>1, <2>2
<1> QED
  BY <1>8, <1>9, <1>10 DEF IInv

(* Moving the stack and growing the memory touch neither frames nor events. *)
LEMMA MoveStackIInv == ASSUME IInv, MoveStack PROVE IInv'
<1>1. UNCHANGED <<stack, pendingEvent, events, buffer, mem>> /\ sp' \in 0 .. MaxMoves
  BY BridgeAssumption DEF IInv, BridgeTypeOK, MoveStack
<1> QED
  BY <1>1 DEF IInv, BridgeTypeOK, ResumedInv, OwnEventTaken, OwnResultReturned, ViewInv,
              ResultsReachGo, Runs, Inner

LEMMA GrowMemoryIInv == ASSUME IInv, GrowMemory PROVE IInv'
<1>1. /\ UNCHANGED <<stack, pendingEvent, events, sp>>
      /\ buffer' \in 0 .. MaxMoves /\ mem' = buffer'
  BY BridgeAssumption DEF IInv, BridgeTypeOK, GrowMemory, NewView
<1> QED
  BY <1>1 DEF IInv, BridgeTypeOK, ResumedInv, OwnEventTaken, OwnResultReturned, ViewInv,
              ResultsReachGo, Runs, Inner

LEMMA CallJavaScriptIInv == ASSUME IInv, CallJavaScript PROVE IInv'
<1>1. PICK f \in Frame : f = CallFrame
  <2>1. CallFrame \in Frame
    BY BridgeAssumption DEF IInv, BridgeTypeOK, CallFrame, Frame, NoEvent
  <2> QED
    BY <2>1
<1>2. f.kind = "js" /\ f.own = NoEvent /\ f.got = "nothing"
  BY <1>1 DEF CallFrame
<1>3. /\ stack' \in Seq(Frame) /\ Len(stack') = Len(stack) + 1 /\ Len(stack') <= MaxDepth
      /\ DOMAIN stack' = 1 .. (Len(stack) + 1)
      /\ \A i \in 1 .. Len(stack) : stack'[i] = stack[i]
      /\ stack'[Len(stack) + 1] = f
      /\ Len(stack) \in Nat /\ DOMAIN stack = 1 .. Len(stack)
  BY <1>1, EntersShape, Shape DEF IInv, CallJavaScript
<1>4. /\ pendingEvent = NoEvent /\ \A i \in 1 .. Len(stack) : stack[i].kind # "resumed"
      /\ UNCHANGED <<pendingEvent, events, sp, buffer, mem>>
  BY GoRuns DEF CallJavaScript
<1>5. BridgeTypeOK' /\ ViewInv'
  BY <1>2, <1>3, <1>4 DEF IInv, BridgeTypeOK, ViewInv, ResultsReachGo
<1>6. ResumedInv' /\ OwnEventTaken'
  BY <1>2, <1>3, <1>4 DEF IInv, ResumedInv, OwnEventTaken
<1>7. OwnResultReturned'
  BY <1>3, <1>4 DEF IInv, OwnResultReturned
<1> QED
  BY <1>5, <1>6, <1>7 DEF IInv

(* A call of JavaScript ends: what is stored is found. *)
LEMMA StoreIInv ==
    ASSUME IInv, Runs("js"), Store(sp), UNCHANGED <<pendingEvent, events, sp, buffer, mem>>
    PROVE  IInv'
<1>1. /\ stack # <<>> /\ Inner \in Frame /\ Inner = stack[Len(stack)]
      /\ Len(stack) \in 1 .. MaxDepth /\ Inner.kind = "js"
  BY InnerType DEF IInv, Runs
<1>2. /\ pendingEvent = NoEvent /\ \A i \in 1 .. Len(stack) : stack[i].kind # "resumed"
      /\ DOMAIN stack = 1 .. Len(stack) /\ \A i \in 1 .. Len(stack) : stack[i] \in Frame
  BY NonePending, Shape DEF JavaScriptRuns, IInv
<1>3. Found(sp) = "result"
  BY DEF IInv, ViewInv, Found
<1>4. /\ Outer \in Seq(Frame) /\ Len(Outer) = Len(stack) - 1
      /\ DOMAIN Outer = 1 .. (Len(stack) - 1)
      /\ \A i \in 1 .. (Len(stack) - 1) : Outer[i] = stack[i]
  BY <1>1, OuterShape DEF IInv
<1>5. stack' = [Outer EXCEPT ![Len(Outer)].got = "result"]
  BY <1>3 DEF Store
<1>6. /\ stack' \in Seq(Frame) /\ Len(stack') = Len(stack) - 1
      /\ DOMAIN stack' = 1 .. (Len(stack) - 1)
      /\ \A i \in 1 .. (Len(stack) - 1) :
           stack'[i] = IF i = Len(stack) - 1 THEN [stack[i] EXCEPT !.got = "result"] ELSE stack[i]
  <2>1. \A f \in Frame : [f EXCEPT !.got = "result"] \in Frame
    BY DEF Frame
  <2>2. Len(Outer) \in Nat /\ \A i \in 1 .. Len(Outer) : Outer[i] \in Frame
    BY <1>4
  <2>3. /\ DOMAIN stack' = DOMAIN Outer
        /\ \A i \in DOMAIN Outer :
             stack'[i] = IF i = Len(Outer) THEN [Outer[i] EXCEPT !.got = "result"] ELSE Outer[i]
    BY <1>5
  <2>4. stack' = [i \in 1 .. Len(Outer) |->
                    IF i = Len(Outer) THEN [Outer[i] EXCEPT !.got = "result"] ELSE Outer[i]]
    BY <1>4, <1>5
  <2>5. stack' \in Seq(Frame) /\ Len(stack') = Len(Outer)
    BY <2>1, <2>2, <2>4
  <2> QED
    BY <1>4, <2>3, <2>5
<1>7. \A i \in 1 .. (Len(stack) - 1) :
        /\ stack'[i].kind = stack[i].kind /\ stack'[i].own = stack[i].own
        /\ stack'[i].event = stack[i].event
        /\ stack'[i].got # "garbage"
  <2>1. \A f \in Frame :
          LET g == [f EXCEPT !.got = "result"] IN
          g.kind = f.kind /\ g.own = f.own /\ g.event = f.event /\ g.got # "garbage"
    BY DEF Frame
  <2>2. \A i \in 1 .. (Len(stack) - 1) : i \in 1 .. Len(stack) /\ stack[i].got # "garbage"
    BY <1>1, <1>2 DEF IInv, ViewInv, ResultsReachGo
  <2> QED
    BY <1>2, <1>6, <2>1, <2>2
<1>8. BridgeTypeOK' /\ ViewInv'
  <2>1. Len(stack') <= MaxDepth
    BY <1>1, <1>6, BridgeAssumption
  <2>2. BridgeTypeOK'
    BY <1>6, <2>1 DEF IInv, BridgeTypeOK
  <2> QED
    BY <1>6, <1>7, <2>2 DEF IInv, ViewInv, ResultsReachGo
<1>9. ResumedInv' /\ OwnEventTaken'
  BY <1>1, <1>2, <1>6, <1>7 DEF IInv, ResumedInv, OwnEventTaken
<1>10. Inner.own = NoEvent
  BY <1>1, <1>2 DEF IInv, ResumedInv
<1>11. \A e \in DOMAIN events, i \in DOMAIN stack :
         stack[i].own = e => i \in DOMAIN stack' /\ stack'[i].own = e
  <2>1. \A e \in DOMAIN events : e # NoEvent
    BY Shape DEF IInv, NoEvent
  <2> QED
    BY <1>1, <1>2, <1>6, <1>7, <1>10, <2>1
<1>12. OwnResultReturned'
  BY <1>11 DEF IInv, OwnResultReturned
<1> QED
  BY <1>8, <1>9, <1>12 DEF IInv

LEMMA BridgeNextIInv == ASSUME IInv, [BridgeNext]_bridgeVars PROVE IInv'
<1>1. CASE JavaScriptReturns \/ JavaScriptThrows
  <2>1. Runs("js") /\ Store(sp) /\ UNCHANGED <<pendingEvent, events, sp, buffer, mem>>
    BY <1>1 DEF JavaScriptReturns, JavaScriptThrows, SpNow, SpOfCatch
  <2> QED
    BY <2>1, StoreIInv
<1>2. CASE UNCHANGED bridgeVars
  BY <1>2 DEF bridgeVars, IInv, BridgeTypeOK, ResumedInv, OwnEventTaken, OwnResultReturned,
              ViewInv, ResultsReachGo, Runs, Inner
<1> QED
  BY <1>1, <1>2, CallWrapperIInv, TimeoutIInv, TakeEventIInv, GoPausesIInv, MoveStackIInv,
     GrowMemoryIInv, CallJavaScriptIInv DEF BridgeNext

LEMMA Inductive == Spec => []IInv
<1>1. Init => IInv
  BY InitIInv DEF Init
<1>2. IInv /\ [Next]_vars => IInv'
  <2>1. ASSUME [Next]_vars PROVE [BridgeNext]_bridgeVars
    BY <2>1 DEF Next, vars
  <2> QED
    BY <2>1, BridgeNextIInv
<1> QED
  BY <1>1, <1>2, PTL DEF Spec

-----------------------------------------------------------------------------
(* The properties of the border. *)

(* Entries into Go, calls of JavaScript and events stay well formed. *)
THEOREM BridgeTyping == Spec => []BridgeTypeOK
<1>1. IInv => BridgeTypeOK
  BY DEF IInv
<1> QED
  BY <1>1, Inductive, PTL

(* Every entry into Go takes the event it was made for, whatever nests. *)
THEOREM TakesOwnEvent == Spec => []OwnEventTaken
<1>1. IInv => OwnEventTaken
  BY DEF IInv
<1> QED
  BY <1>1, Inductive, PTL

(* Every wrapper returns what Go answered its own event. *)
THEOREM ReturnsOwnResult == Spec => []OwnResultReturned
<1>1. IInv => OwnResultReturned
  BY DEF IInv
<1> QED
  BY <1>1, Inductive, PTL

(* Results and exceptions reach Go though its stack moves and its memory grows. *)
THEOREM FindsResults == Spec => []ResultsReachGo
<1>1. IInv => ResultsReachGo
  BY DEF IInv, ViewInv
<1> QED
  BY <1>1, Inductive, PTL

-----------------------------------------------------------------------------
(* The order of the calls of Go.  The calls that wait are numbered upwards from *)
(* the bottom of the stack, and so the innermost one is the latest.            *)
OrderInv ==
    /\ \A i \in DOMAIN stack : stack[i].own <= Len(events)
    /\ \A i, j \in DOMAIN stack :
         i < j /\ stack[j].own # NoEvent => stack[i].own < stack[j].own

(* The events that the frames of the next stack are for. *)
SameOwns ==
    /\ DOMAIN stack' = DOMAIN stack
    /\ \A i \in DOMAIN stack : stack'[i].own = stack[i].own

OwnsAnd(own) ==
    /\ DOMAIN stack' = 1 .. (Len(stack) + 1) /\ stack'[Len(stack) + 1].own = own
    /\ \A i \in 1 .. Len(stack) : stack'[i].own = stack[i].own

OwnsBut(own) ==
    /\ stack # <<>> /\ stack[Len(stack)].own = own
    /\ DOMAIN stack' = 1 .. (Len(stack) - 1)
    /\ \A i \in 1 .. (Len(stack) - 1) : stack'[i].own = stack[i].own

LEMMA EnterOwns ==
    ASSUME IInv, NEW f \in Frame, Enters(f) PROVE OwnsAnd(f.own)
  BY EntersShape DEF IInv, OwnsAnd

LEMMA CallWrapperOwns ==
    ASSUME IInv, CallWrapper
    PROVE  /\ OwnsAnd(Len(events) + 1)
           /\ events' = Append(events, [result |-> NoEvent, returned |-> NoEvent])
<1>1. PICK e \in 1 .. MaxEvents : e = Len(events) + 1
  BY Shape, BridgeAssumption DEF IInv, CallWrapper
<1>2. events' = Append(events, [result |-> NoEvent, returned |-> NoEvent])
  BY DEF CallWrapper
<1>3. Len(events') = e
  BY <1>1, <1>2 DEF IInv, BridgeTypeOK
<1>4. PICK f \in Frame : f = Entry("resumed", e, NoEvent)
  <2>1. Entry("resumed", e, NoEvent) \in Frame
    BY BridgeAssumption DEF Entry, Frame, NoEvent
  <2> QED
    BY <2>1
<1>5. Enters(f) /\ f.own = e
  BY <1>3, <1>4 DEF CallWrapper, Entry
<1> QED
  BY <1>1, <1>2, <1>5, EnterOwns

LEMMA EntersWithoutEvent ==
    ASSUME IInv, Timeout \/ CallJavaScript PROVE OwnsAnd(NoEvent) /\ events' = events
<1>1. CASE Timeout
  <2>1. PICK f \in Frame : f = Entry("resumed", NoEvent, NoEvent)
    <3>1. Entry("resumed", NoEvent, NoEvent) \in Frame
      BY BridgeAssumption DEF Entry, Frame, NoEvent
    <3> QED
      BY <3>1
  <2>2. f.own = NoEvent /\ Enters(f) /\ events' = events
    BY <1>1, <2>1 DEF Entry, Timeout
  <2> QED
    BY <2>2, EnterOwns
<1>2. CASE CallJavaScript
  <2>1. PICK f \in Frame : f = CallFrame
    <3>1. CallFrame \in Frame
      BY BridgeAssumption DEF IInv, BridgeTypeOK, CallFrame, Frame, NoEvent
    <3> QED
      BY <3>1
  <2>2. f.own = NoEvent /\ Enters(f) /\ events' = events
    BY <1>2, <2>1 DEF CallFrame, CallJavaScript
  <2> QED
    BY <2>2, EnterOwns
<1> QED
  BY <1>1, <1>2

LEMMA TakeEventOwns == ASSUME IInv, TakeEvent PROVE SameOwns /\ events' = events
<1>1. stack # <<>> /\ Inner = stack[Len(stack)] /\ Len(stack) \in 1 .. MaxDepth
  BY InnerType DEF IInv, TakeEvent, Runs
<1>2. PICK f : f = Entry("go", Inner.own, pendingEvent)
  OBVIOUS
<1>3. f.own = stack[Len(stack)].own /\ stack' = Append(Outer, f)
  BY <1>1, <1>2 DEF Entry, TakeEvent
<1>4. /\ Outer \in Seq(Frame) /\ Len(Outer) = Len(stack) - 1
      /\ \A i \in 1 .. (Len(stack) - 1) : Outer[i] = stack[i]
  BY <1>1, OuterShape DEF IInv
<1>5. /\ DOMAIN stack' = 1 .. Len(stack) /\ stack'[Len(stack)] = f
      /\ \A i \in 1 .. (Len(stack) - 1) : stack'[i] = stack[i]
  BY <1>1, <1>3, <1>4
<1>6. DOMAIN stack = 1 .. Len(stack)
  BY Shape DEF IInv
<1>7. \A i \in 1 .. Len(stack) : stack'[i].own = stack[i].own
  <2> TAKE i \in 1 .. Len(stack)
  <2>1. CASE i = Len(stack)
    BY <1>3, <1>5, <2>1
  <2>2. CASE i # Len(stack)
    <3>1. i \in 1 .. (Len(stack) - 1)
      BY <1>1, <2>2
    <3> QED
      BY <1>5, <3>1
  <2> QED
    BY <2>1, <2>2
<1> QED
  BY <1>5, <1>6, <1>7 DEF SameOwns, TakeEvent

LEMMA GoPausesOwns ==
    ASSUME IInv, GoPauses
    PROVE  /\ OwnsBut(Inner.own)
           /\ DOMAIN events' = DOMAIN events /\ Len(events') = Len(events)
           /\ \A e \in DOMAIN events :
                events'[e].returned = IF e = Inner.own THEN e ELSE events[e].returned
<1>1. /\ stack # <<>> /\ Inner = stack[Len(stack)] /\ Inner.event = Inner.own
  BY GoRuns DEF GoPauses
<1>2. OwnsBut(Inner.own)
  BY <1>1, OuterShape DEF IInv, OwnsBut, GoPauses
<1>3. events \in Seq(Event) /\ Len(events) \in Nat /\ DOMAIN events = 1 .. Len(events)
  BY Shape, BridgeAssumption DEF IInv
<1>4. \A e \in DOMAIN events : e = Inner.own => ResultOf(e) = e
  BY <1>1 DEF ResultOf, Result
<1>5. events' = [e \in 1 .. Len(events) |->
         [result |-> Result(e),
          returned |-> IF e = Inner.own THEN ResultOf(e) ELSE events[e].returned]]
  BY <1>3 DEF GoPauses
<1>6. DOMAIN events' = DOMAIN events /\ Len(events') = Len(events)
  BY <1>3, <1>5
<1>7. \A e \in DOMAIN events :
        events'[e].returned = IF e = Inner.own THEN e ELSE events[e].returned
  BY <1>3, <1>4, <1>5
<1> QED
  BY <1>2, <1>6, <1>7

LEMMA StoreOwns ==
    ASSUME IInv, JavaScriptReturns \/ JavaScriptThrows
    PROVE  OwnsBut(NoEvent) /\ events' = events
<1>1. Runs("js") /\ Store(sp) /\ events' = events
  BY DEF JavaScriptReturns, JavaScriptThrows, SpNow, SpOfCatch
<1>2. /\ stack # <<>> /\ Inner = stack[Len(stack)] /\ Len(stack) \in 1 .. MaxDepth
      /\ Inner.kind = "js" /\ DOMAIN stack = 1 .. Len(stack)
  BY <1>1, InnerType, Shape DEF IInv, Runs
<1>3. stack[Len(stack)].own = NoEvent
  BY <1>2 DEF IInv, ResumedInv
<1>4. /\ Outer \in Seq(Frame) /\ Len(Outer) = Len(stack) - 1
      /\ DOMAIN Outer = 1 .. (Len(stack) - 1)
      /\ \A i \in 1 .. (Len(stack) - 1) : Outer[i] = stack[i]
  BY <1>2, OuterShape DEF IInv
<1>5. stack' = [Outer EXCEPT ![Len(Outer)] = [Outer[Len(Outer)] EXCEPT !.got = Found(sp)]]
  BY <1>1 DEF Store
<1>6. \A i \in DOMAIN Outer : Outer[i] \in Frame
  BY <1>4
<1>7. \A f \in Frame : [f EXCEPT !.got = Found(sp)].own = f.own
  BY DEF Frame
<1>8. DOMAIN stack' = DOMAIN Outer /\ \A i \in DOMAIN Outer : stack'[i].own = Outer[i].own
  BY <1>5, <1>6, <1>7
<1> QED
  BY <1>1, <1>2, <1>3, <1>4, <1>8 DEF OwnsBut

(* What each step does to the calls that wait and to their answers. *)
LEMMA Owns ==
    ASSUME IInv, [BridgeNext]_bridgeVars
    PROVE  \/ /\ OwnsAnd(Len(events) + 1)
              /\ events' = Append(events, [result |-> NoEvent, returned |-> NoEvent])
           \/ OwnsAnd(NoEvent) /\ events' = events
           \/ SameOwns /\ events' = events
           \/ OwnsBut(NoEvent) /\ events' = events
           \/ /\ OwnsBut(Inner.own)
              /\ DOMAIN events' = DOMAIN events /\ Len(events') = Len(events)
              /\ \A e \in DOMAIN events :
                   events'[e].returned = IF e = Inner.own THEN e ELSE events[e].returned
<1>1. CASE MoveStack \/ GrowMemory \/ UNCHANGED bridgeVars
  BY <1>1 DEF MoveStack, GrowMemory, bridgeVars, SameOwns
<1> QED
  BY <1>1, CallWrapperOwns, EntersWithoutEvent, TakeEventOwns, GoPausesOwns, StoreOwns
     DEF BridgeNext

LEMMA OwnTypes ==
    ASSUME IInv
    PROVE  /\ Len(stack) \in Nat /\ DOMAIN stack = 1 .. Len(stack)
           /\ Len(events) \in Nat /\ DOMAIN events = 1 .. Len(events)
           /\ \A i \in DOMAIN stack : stack[i].own \in Nat
           /\ stack # <<>> => Len(stack) \in DOMAIN stack /\ Inner = stack[Len(stack)]
<1>1. \A f \in Frame : f.own \in Nat
  BY BridgeAssumption DEF Frame
<1> QED
  BY <1>1, Shape, InnerType, BridgeAssumption DEF IInv

LEMMA NextOrder == ASSUME IInv, OrderInv, [BridgeNext]_bridgeVars PROVE OrderInv'
<1>1. /\ Len(stack) \in Nat /\ DOMAIN stack = 1 .. Len(stack)
      /\ Len(events) \in Nat /\ events \in Seq(Event)
      /\ \A i \in DOMAIN stack : stack[i].own \in Nat
  BY OwnTypes DEF IInv, BridgeTypeOK
<1>2. CASE /\ OwnsAnd(Len(events) + 1)
           /\ events' = Append(events, [result |-> NoEvent, returned |-> NoEvent])
  <2>1. Len(events') = Len(events) + 1
    BY <1>1, <1>2
  <2>2. \A i \in 1 .. Len(stack) : stack'[i].own <= Len(events)
    BY <1>1, <1>2 DEF OwnsAnd, OrderInv
  <2>3. /\ DOMAIN stack' = 1 .. (Len(stack) + 1)
        /\ stack'[Len(stack) + 1].own = Len(events) + 1
        /\ \A i \in 1 .. Len(stack) : stack'[i].own = stack[i].own
    BY <1>2 DEF OwnsAnd
  <2>4. \A i \in DOMAIN stack' : stack'[i].own <= Len(events')
    <3> TAKE i \in DOMAIN stack'
    <3>1. CASE i = Len(stack) + 1
      BY <1>1, <2>1, <2>3, <3>1
    <3>2. CASE i \in 1 .. Len(stack)
      BY <1>1, <2>1, <2>2, <2>3, <3>2
    <3> QED
      BY <1>1, <2>3, <3>1, <3>2
  <2>5. ASSUME NEW i \in DOMAIN stack', NEW j \in DOMAIN stack',
               i < j, stack'[j].own # NoEvent
        PROVE  stack'[i].own < stack'[j].own
    <3>1. i \in 1 .. Len(stack)
      BY <1>1, <2>3, <2>5
    <3>2. CASE j = Len(stack) + 1
      BY <1>1, <2>2, <2>3, <3>1, <3>2
    <3>3. CASE j \in 1 .. Len(stack)
      BY <1>1, <2>3, <2>5, <3>1, <3>3 DEF OrderInv
    <3> QED
      BY <1>1, <2>3, <3>2, <3>3
  <2> QED
    BY <2>4, <2>5 DEF OrderInv
<1>3. CASE OwnsAnd(NoEvent) /\ events' = events
  BY <1>1, <1>3 DEF OwnsAnd, OrderInv, NoEvent
<1>4. CASE SameOwns /\ events' = events
  BY <1>1, <1>4 DEF SameOwns, OrderInv
<1>5. ASSUME NEW own, OwnsBut(own), Len(events') = Len(events) PROVE OrderInv'
  BY <1>1, <1>5 DEF OwnsBut, OrderInv
<1> QED
  BY <1>2, <1>3, <1>4, <1>5, Owns

(* How the set of the calls that wait follows. *)
LEMMA WaitingFollows ==
    ASSUME IInv
    PROVE  /\ SameOwns => Waiting' = Waiting
           /\ \A own : OwnsAnd(own) => Waiting' = Waiting \cup ({own} \ {NoEvent})
           /\ \A own : OwnsBut(own) => Waiting = Waiting' \cup ({own} \ {NoEvent})
<1>1. /\ Len(stack) \in Nat /\ DOMAIN stack = 1 .. Len(stack)
      /\ stack # <<>> => Len(stack) \in DOMAIN stack
  BY OwnTypes
<1>2. \A x : x \in Waiting <=> x # NoEvent /\ \E i \in DOMAIN stack : stack[i].own = x
  BY DEF Waiting
<1>3. \A x : x \in Waiting' <=> x # NoEvent /\ \E i \in DOMAIN stack' : stack'[i].own = x
  BY DEF Waiting
<1>4. ASSUME SameOwns PROVE Waiting' = Waiting
  BY <1>4 DEF SameOwns, Waiting
<1>5. ASSUME NEW own, OwnsAnd(own) PROVE Waiting' = Waiting \cup ({own} \ {NoEvent})
  <2>1. \A i : i \in DOMAIN stack' <=> i \in DOMAIN stack \/ i = Len(stack) + 1
    BY <1>1, <1>5 DEF OwnsAnd
  <2>2. \A x : x \in Waiting' <=> x # NoEvent /\ (x = own \/ x \in Waiting)
    BY <1>1, <1>2, <1>3, <1>5, <2>1 DEF OwnsAnd
  <2> QED
    BY <1>2, <2>2
<1>6. ASSUME NEW own, OwnsBut(own) PROVE Waiting = Waiting' \cup ({own} \ {NoEvent})
  <2>1. \A i : i \in DOMAIN stack <=> i \in DOMAIN stack' \/ i = Len(stack)
    BY <1>1, <1>6 DEF OwnsBut
  <2>2. \A x : x \in Waiting <=> x # NoEvent /\ (x = own \/ x \in Waiting')
    BY <1>1, <1>2, <1>3, <1>6, <2>1 DEF OwnsBut
  <2> QED
    BY <1>3, <2>2
<1> QED
  BY <1>4, <1>5, <1>6

(* Nothing is called or answered, though a frame may come or go. *)
LEMMA NoCallStutters ==
    ASSUME IInv, events' = events, SameOwns \/ OwnsAnd(NoEvent) \/ OwnsBut(NoEvent)
    PROVE  UNCHANGED Contract!vars
<1>1. Waiting' = Waiting
  BY WaitingFollows
<1> QED
  BY <1>1 DEF Contract!vars

LEMMA CallCalls ==
    ASSUME IInv, OwnsAnd(Len(events) + 1),
           events' = Append(events, [result |-> NoEvent, returned |-> NoEvent])
    PROVE  Contract!Call
<1>1. PICK n \in Nat : n = Len(events) /\ DOMAIN events = 1 .. n
  BY OwnTypes
<1>3. Waiting' = Waiting \cup {n + 1}
  <2>1. n + 1 # NoEvent
    BY <1>1 DEF NoEvent
  <2> QED
    BY <1>1, <2>1, WaitingFollows
<1>4. /\ DOMAIN events' = 1 .. (n + 1) /\ events'[n + 1].returned = NoEvent
      /\ \A e \in 1 .. n : events'[e] = events[e]
  BY <1>1 DEF IInv, BridgeTypeOK
<1>5. PICK A : A = [e \in 1 .. n |-> events[e].returned]
  OBVIOUS
<1>6. PICK B : B = [e \in 1 .. (n + 1) |-> events'[e].returned]
  OBVIOUS
<1>7. A \in Seq({events[e].returned : e \in 1 .. n}) /\ Len(A) = n
  BY <1>5
<1>8. B = Append(A, NoEvent)
  BY <1>1, <1>4, <1>5, <1>6, <1>7
<1> QED
  BY <1>1, <1>3, <1>4, <1>5, <1>6, <1>7, <1>8 DEF Contract!Call, Contract!Unanswered, NoEvent

(* The innermost entry into Go is answered: its call is the latest that waits. *)
LEMMA PauseAnswers ==
    ASSUME IInv, OrderInv, OwnsBut(Inner.own), Inner.own # NoEvent,
           DOMAIN events' = DOMAIN events,
           \A e \in DOMAIN events :
             events'[e].returned = IF e = Inner.own THEN e ELSE events[e].returned
    PROVE  \E c \in Waiting : Contract!Answer(c)
<1>1. /\ Len(stack) \in Nat /\ DOMAIN stack = 1 .. Len(stack)
      /\ Len(stack) \in DOMAIN stack /\ Inner = stack[Len(stack)]
      /\ \A i \in DOMAIN stack : stack[i].own \in Nat
      /\ Len(events) \in Nat /\ DOMAIN events = 1 .. Len(events)
  BY OwnTypes DEF OwnsBut
<1>2. PICK c \in Nat : c = Inner.own /\ c # NoEvent /\ c = stack[Len(stack)].own
  BY <1>1
<1>3. c \in Waiting
  BY <1>1, <1>2 DEF Waiting
<1>4. \A i \in 1 .. (Len(stack) - 1) : stack[i].own < c
  BY <1>1, <1>2 DEF OrderInv
<1>5. 1 .. Len(stack) = (1 .. (Len(stack) - 1)) \cup {Len(stack)}
  BY <1>1
<1>6. \A d \in Waiting : d <= c
  BY <1>1, <1>2, <1>4, <1>5 DEF Waiting
<1>7. Waiting' = Waiting \ {c}
  <2>1. \A i \in DOMAIN stack' : stack'[i].own # c
    BY <1>1, <1>2, <1>4 DEF OwnsBut
  <2>2. c \notin Waiting'
    BY <2>1 DEF Waiting
  <2>3. Waiting = Waiting' \cup {c}
    BY <1>2, WaitingFollows
  <2> QED
    BY <2>2, <2>3
<1>8. [e \in DOMAIN events' |-> events'[e].returned]
        = [[e \in DOMAIN events |-> events[e].returned] EXCEPT ![c] = c]
  BY <1>2
<1> QED
  BY <1>3, <1>6, <1>7, <1>8 DEF Contract!Answer

LEMMA StepOrder ==
    ASSUME IInv, OrderInv, [BridgeNext]_bridgeVars PROVE [Contract!Next]_(Contract!vars)
<1>1. CASE /\ OwnsBut(Inner.own)
           /\ DOMAIN events' = DOMAIN events /\ Len(events') = Len(events)
           /\ \A e \in DOMAIN events :
                events'[e].returned = IF e = Inner.own THEN e ELSE events[e].returned
  <2>1. CASE Inner.own # NoEvent
    BY <1>1, <2>1, PauseAnswers DEF Contract!Next
  <2>2. CASE Inner.own = NoEvent
    <3>1. \A e \in DOMAIN events : e # NoEvent
      BY OwnTypes DEF NoEvent
    <3>2. [e \in DOMAIN events' |-> events'[e].returned] = [e \in DOMAIN events |-> events[e].returned]
      BY <1>1, <2>2, <3>1
    <3>3. Waiting' = Waiting
      BY <1>1, <2>2, WaitingFollows
    <3> QED
      BY <3>2, <3>3 DEF Contract!vars
  <2> QED
    BY <2>1, <2>2
<1> QED
  BY <1>1, Owns, CallCalls, NoCallStutters DEF Contract!Next

LEMMA BridgeSteps == ASSUME [Next]_vars PROVE [BridgeNext]_bridgeVars
  BY DEF Next, vars

(* The calls of Go are answered once each, with their own answers, and in the
   reverse of the order in which they came to wait for one another. *)
THEOREM AnswersInOrder == Spec => KeepsCallOrder
<1>1. Init => OrderInv /\ Contract!Init
  <2> SUFFICES ASSUME Init PROVE OrderInv /\ Contract!Init
    OBVIOUS
  <2>1. /\ DOMAIN stack = {1} /\ stack[1].own = NoEvent /\ events = <<>> /\ Len(events) = 0
    BY DEF Init, BridgeInit, Entry
  <2>2. OrderInv
    BY <2>1 DEF OrderInv, NoEvent
  <2>3. Waiting = {} /\ [e \in DOMAIN events |-> events[e].returned] = <<>>
    BY <2>1 DEF Waiting
  <2> QED
    BY <2>2, <2>3 DEF Contract!Init
<1>2. IInv /\ OrderInv /\ [Next]_vars => OrderInv' /\ [Contract!Next]_(Contract!vars)
  BY BridgeSteps, NextOrder, StepOrder
<1> QED
  BY <1>1, <1>2, Inductive, PTL DEF Spec, KeepsCallOrder, Contract!Spec

-----------------------------------------------------------------------------
(* The command line in Go's memory, for any arguments: what was written so far
   is below the offset, and every string is where its pointer says. *)

Here(i, a) ==
    /\ a \in Nat /\ a + argv[i] < offset
    /\ \A k \in 0 .. argv[i] : a + k \in DOMAIN memory
    /\ StringAt(i, a)

LayoutInv ==
    /\ argv \in [1 .. Argc -> Nat]
    /\ offset \in Nat /\ offset % 8 = 0
    /\ ptrs \in Seq(Nat)
    /\ \A a \in DOMAIN memory : a \in Nat
    /\ pc \in {"strings", "check", "running", "failed"}
    /\ pc = "strings" =>
         /\ Len(ptrs) <= Argc
         /\ \A a \in DOMAIN memory : a < offset
         /\ \A i \in 1 .. Len(ptrs) : Here(i, ptrs[i])
    /\ pc \in {"check", "running"} => \A a \in DOMAIN memory : a + 7 < offset
    /\ ArgumentsIntact /\ GoDataUntouched

LEMMA AlignedUp ==
    ASSUME NEW n \in Nat
    PROVE  Aligned(n) \in Nat /\ Aligned(n) >= n /\ Aligned(n) % 8 = 0
  BY DEF Aligned

LEMMA WritesFacts ==
    ASSUME NEW w
    PROVE  /\ DOMAIN Writes(w) = DOMAIN memory \cup DOMAIN w
           /\ \A a \in DOMAIN w : Writes(w)[a] = w[a]
           /\ \A a \in DOMAIN memory : a \notin DOMAIN w => Writes(w)[a] = memory[a]
  BY DEF Writes

LEMMA InitLayout == RuntimeInit => LayoutInv
<1> SUFFICES ASSUME RuntimeInit PROVE LayoutInv
  OBVIOUS
<1>1. argv \in [1 .. Argc -> Nat] /\ Argc \in Nat
  BY GoRuntimeAssumption DEF RuntimeInit
<1>2. offset \in Nat /\ offset % 8 = 0
  BY GoRuntimeAssumption DEF RuntimeInit
<1>3. ptrs = <<>> /\ DOMAIN memory = {} /\ pc = "strings"
  BY DEF RuntimeInit
<1> QED
  BY <1>1, <1>2, <1>3 DEF LayoutInv, ArgumentsIntact, GoDataUntouched

(* A string stays where it is when something is written after it. *)
LEMMA HereStays ==
    ASSUME NEW i \in 1 .. Argc, NEW a, Here(i, a), LayoutInv, NEW w,
           \A b \in DOMAIN w : b \in Nat /\ b >= offset,
           memory' = Writes(w), argv' = argv, offset' \in Nat, offset' >= offset
    PROVE  Here(i, a)'
<1>1. argv[i] \in Nat /\ offset \in Nat /\ a \in Nat
  BY DEF LayoutInv, Here
<1>2. \A k \in 0 .. argv[i] : a + k < offset /\ a + k \in DOMAIN memory
  BY <1>1 DEF Here
<1>3. \A k \in 0 .. argv[i] : a + k \in DOMAIN memory' /\ memory'[a + k] = memory[a + k]
  <2> SUFFICES ASSUME NEW k \in 0 .. argv[i]
               PROVE  a + k \in DOMAIN memory' /\ memory'[a + k] = memory[a + k]
    OBVIOUS
  <2>1. a + k \notin DOMAIN w
    BY <1>1, <1>2
  <2> QED
    BY <1>2, <2>1, WritesFacts
<1> QED
  BY <1>1, <1>3 DEF Here, StringAt

LEMMA StrPtrLayout == ASSUME LayoutInv, StrPtr PROVE LayoutInv'
<1>1. PICK i \in 1 .. Argc : i = Len(ptrs) + 1
  <2>1. Len(ptrs) + 1 \in 1 .. Argc
    BY GoRuntimeAssumption DEF LayoutInv, StrPtr
  <2> QED
    BY <2>1
<1>2. PICK w : w = [a \in offset .. offset + argv[i] |->
                      IF a = offset + argv[i] THEN Nul ELSE <<i, a - offset>>]
  OBVIOUS
<1>3. /\ pc = "strings" /\ memory' = Writes(w) /\ ptrs' = Append(ptrs, offset)
      /\ offset' = Aligned(offset + argv[i] + 1) /\ UNCHANGED <<argv, pc>>
  BY <1>1, <1>2 DEF StrPtr
<1>4. /\ argv \in [1 .. Argc -> Nat] /\ argv[i] \in Nat /\ offset \in Nat
      /\ ptrs \in Seq(Nat) /\ Len(ptrs) \in Nat
  BY DEF LayoutInv
<1>5. offset' \in Nat /\ offset' >= offset + argv[i] + 1 /\ offset' % 8 = 0
  <2>1. offset + argv[i] + 1 \in Nat
    BY <1>4
  <2> QED
    BY <1>3, <2>1, AlignedUp
<1>6. DOMAIN w = offset .. offset + argv[i] /\ \A b \in DOMAIN w : b \in Nat /\ b >= offset
  BY <1>2, <1>4
<1>7. DOMAIN memory' = DOMAIN memory \cup DOMAIN w
  BY <1>3, WritesFacts
<1>8. \A a \in DOMAIN memory' : a \in Nat /\ a < offset'
  <2>1. \A a \in DOMAIN memory : a \in Nat /\ a < offset
    BY <1>3 DEF LayoutInv
  <2>2. \A a \in DOMAIN w : a \in Nat /\ a < offset + argv[i] + 1
    BY <1>4, <1>6
  <2> QED
    BY <1>4, <1>5, <1>7, <2>1, <2>2
<1>9. /\ ptrs' \in Seq(Nat) /\ Len(ptrs') = i /\ ptrs'[i] = offset
      /\ \A j \in 1 .. Len(ptrs) : ptrs'[j] = ptrs[j]
  BY <1>1, <1>3, <1>4, AppendFacts
<1>10. \A j \in 1 .. Len(ptrs) : j \in 1 .. Argc /\ Here(j, ptrs[j])
  <2>1. \A j \in 1 .. Len(ptrs) : j \in 1 .. Argc
    BY <1>1, <1>4, GoRuntimeAssumption
  <2>2. \A j \in 1 .. Len(ptrs) : Here(j, ptrs[j])
    BY <1>3 DEF LayoutInv
  <2> QED
    BY <2>1, <2>2
<1>11. ASSUME NEW j \in 1 .. i PROVE Here(j, ptrs[j])'
  <2>1. CASE j \in 1 .. Len(ptrs)
    <3>1. PICK a : a = ptrs[j]
      OBVIOUS
    <3>2. j \in 1 .. Argc /\ Here(j, a)
      BY <1>10, <2>1, <3>1
    <3>3. \A b \in DOMAIN w : b \in Nat /\ b >= offset
      BY <1>6
    <3>4. memory' = Writes(w) /\ argv' = argv /\ offset' \in Nat /\ offset' >= offset
      BY <1>3, <1>4, <1>5
    <3>5. Here(j, a)'
      BY <3>2, <3>3, <3>4, HereStays
    <3>6. a = ptrs'[j]
      BY <1>9, <2>1, <3>1
    <3> QED
      BY <3>5, <3>6
  <2>2. CASE j = i
    <3>1. PICK a \in Nat : a = offset
      BY <1>4
    <3>2. \A k \in 0 .. argv[i] : a + k \in DOMAIN w
      BY <1>4, <1>6, <3>1
    <3>3. \A k \in 0 .. argv[i] : a + k \in DOMAIN memory' /\ memory'[a + k] = w[a + k]
      BY <1>3, <1>7, <3>2, WritesFacts
    <3>4. /\ \A k \in 0 .. argv[i] - 1 : k \in 0 .. argv[i] /\ w[a + k] = <<i, k>>
          /\ w[a + argv[i]] = Nul /\ argv[i] \in 0 .. argv[i]
      BY <1>2, <1>4, <3>1, <3>2
    <3>5. StringAt(i, a)'
      BY <1>3, <3>3, <3>4 DEF StringAt, Nul
    <3>6. Here(i, a)'
      BY <1>3, <1>4, <1>5, <3>1, <3>3, <3>5 DEF Here
    <3> QED
      BY <1>9, <2>2, <3>1, <3>6
  <2> QED
    BY <1>1, <1>4, <2>1, <2>2
<1> QED
  BY <1>1, <1>3, <1>4, <1>5, <1>8, <1>9, <1>11 DEF LayoutInv, ArgumentsIntact, GoDataUntouched

(* The table is written after the strings, and its entries point to them. *)
LEMMA TableLayout == ASSUME LayoutInv, Table PROVE LayoutInv'
<1>1. PICK all : all = ptrs \o <<0, 0>>
  OBVIOUS
<1>2. /\ argv \in [1 .. Argc -> Nat] /\ Argc \in Nat /\ offset \in Nat /\ offset % 8 = 0
      /\ ptrs \in Seq(Nat) /\ Len(ptrs) = Argc /\ pc = "strings"
  BY GoRuntimeAssumption DEF LayoutInv, Table
<1>3. /\ all \in Seq(Nat) /\ Len(all) = Argc + 2 /\ DOMAIN all = 1 .. (Argc + 2)
      /\ \A i \in 1 .. Argc : all[i] = ptrs[i]
      /\ all[Argc + 1] = 0
  BY <1>1, <1>2
<1>4. PICK w : w = [k \in {offset + 8 * (j - 1) : j \in DOMAIN all} |->
                      <<0, all[(k - offset) \div 8 + 1]>>]
  OBVIOUS
<1>5. /\ memory' = Writes(w) /\ ptrs' = all /\ offset' = offset + 8 * (Argc + 2)
      /\ pc' = "check" /\ argv' = argv
  BY <1>1, <1>3, <1>4 DEF Table
<1>6. offset' \in Nat /\ offset' >= offset + 16 /\ offset' % 8 = 0
  BY <1>2, <1>5
<1>7. DOMAIN w = {offset + 8 * (j - 1) : j \in 1 .. (Argc + 2)}
  BY <1>3, <1>4
<1>8. \A b \in DOMAIN w : b \in Nat /\ b >= offset /\ b + 7 < offset'
  BY <1>2, <1>5, <1>7
<1>9. DOMAIN memory' = DOMAIN memory \cup DOMAIN w
  BY <1>5, WritesFacts
<1>10. \A a \in DOMAIN memory' : a \in Nat /\ a + 7 < offset'
  <2> SUFFICES ASSUME NEW a \in DOMAIN memory' PROVE a \in Nat /\ a + 7 < offset'
    OBVIOUS
  <2>1. CASE a \in DOMAIN memory
    <3>1. a \in Nat /\ a < offset
      BY <1>2, <2>1 DEF LayoutInv
    <3>2. offset \in Nat /\ offset' \in Nat /\ offset' >= offset + 16
      BY <1>2, <1>6
    <3> QED
      BY <3>1, <3>2
  <2>2. CASE a \in DOMAIN w
    BY <1>8, <2>2
  <2> QED
    BY <1>9, <2>1, <2>2
<1>11. \A j \in 1 .. (Argc + 2) : memory'[offset + 8 * (j - 1)] = <<0, all[j]>>
  <2> SUFFICES ASSUME NEW j \in 1 .. (Argc + 2)
               PROVE  memory'[offset + 8 * (j - 1)] = <<0, all[j]>>
    OBVIOUS
  <2>1. PICK k : k = offset + 8 * (j - 1)
    OBVIOUS
  <2>2. k \in DOMAIN w
    BY <1>7, <2>1
  <2>3. (k - offset) \div 8 + 1 = j
    BY <1>2, <2>1
  <2>4. w[k] = <<0, all[j]>>
    BY <1>3, <1>4, <2>2, <2>3
  <2> QED
    BY <1>5, <2>1, <2>2, <2>4, WritesFacts
<1>12. \A i \in 1 .. Argc : Here(i, ptrs[i])
  BY <1>2 DEF LayoutInv
<1>13. ASSUME NEW i \in 1 .. Argc PROVE StringAt(i, all[i])'
  <2>1. PICK a : a = ptrs[i]
    OBVIOUS
  <2>2. Here(i, a) /\ \A b \in DOMAIN w : b \in Nat /\ b >= offset
    BY <1>8, <1>12, <2>1
  <2>3. memory' = Writes(w) /\ argv' = argv /\ offset' \in Nat /\ offset' >= offset
    BY <1>2, <1>5, <1>6
  <2>4. Here(i, a)'
    BY <2>2, <2>3, HereStays
  <2> QED
    BY <1>3, <2>1, <2>4 DEF Here, StringAt
<1>14. ArgumentsIntact'
  <2>1. PICK table \in Nat : table = offset
    BY <1>2
  <2>2. (offset - 8 * Len(ptrs))' = table
    <3>1. ptrs' = all /\ Len(all) = Argc + 2 /\ offset' = table + 8 * (Argc + 2)
      BY <1>3, <1>5, <2>1
    <3> QED
      BY <1>2, <3>1
  <2>3. \A i \in 1 .. Argc : memory'[table + 8 * (i - 1)][2] = all[i]
    BY <1>2, <1>11, <2>1
  <2>4. memory'[table + 8 * Argc] = Nul
    <3>1. Argc + 1 \in 1 .. (Argc + 2) /\ all[Argc + 1] = 0
      BY <1>2, <1>3
    <3>2. memory'[offset + 8 * ((Argc + 1) - 1)] = <<0, all[Argc + 1]>>
      BY <1>11, <3>1
    <3>3. (Argc + 1) - 1 = Argc
      BY <1>2
    <3> QED
      BY <2>1, <3>1, <3>2, <3>3 DEF Nul
  <2> QED
    BY <1>2, <1>13, <2>1, <2>2, <2>3, <2>4 DEF ArgumentsIntact, StringAt
<1> QED
  BY <1>2, <1>3, <1>5, <1>6, <1>10, <1>14 DEF LayoutInv, GoDataUntouched

LEMMA StartLayout == ASSUME LayoutInv, Start PROVE LayoutInv'
<1>1. /\ pc = "check" /\ pc' \in {"running", "failed"}
      /\ pc' = "running" => offset < Limit
      /\ UNCHANGED <<argv, offset, ptrs, memory>>
  BY GoRuntimeAssumption DEF LayoutInv, Start, TooLong
<1>2. GoDataUntouched'
  <2>1. \A a \in DOMAIN memory : a \in Nat /\ a + 7 < offset /\ offset \in Nat
    BY <1>1 DEF LayoutInv
  <2> QED
    BY <1>1, <2>1, GoRuntimeAssumption DEF GoDataUntouched
<1>3. ArgumentsIntact'
  BY <1>1 DEF LayoutInv, ArgumentsIntact, StringAt
<1> QED
  BY <1>1, <1>2, <1>3 DEF LayoutInv

LEMMA InductiveLayout == Spec => []LayoutInv
<1>1. Init => LayoutInv
  BY InitLayout DEF Init
<1>2. ASSUME LayoutInv, [Next]_vars PROVE LayoutInv'
  <2>1. StrPtr \/ Table \/ Start \/ UNCHANGED layout
    BY <1>2 DEF Next, vars, RuntimeNext, Walltime, WasmWrite, runtimeVars
  <2>2. CASE UNCHANGED layout
    BY <1>2, <2>2 DEF layout, LayoutInv, Here, StringAt, ArgumentsIntact, GoDataUntouched
  <2> QED
    BY <1>2, <2>1, <2>2, StrPtrLayout, TableLayout, StartLayout
<1> QED
  BY <1>1, <1>2, PTL DEF Spec

(* Go finds every argument whole and terminated, for any number and lengths. *)
THEOREM FindsArguments == Spec => []ArgumentsIntact
<1>1. LayoutInv => ArgumentsIntact
  BY DEF LayoutInv
<1> QED
  BY <1>1, InductiveLayout, PTL

(* run() starts Go only if it has written nothing where Go's data is. *)
THEOREM LeavesGoData == Spec => []GoDataUntouched
<1>1. LayoutInv => GoDataUntouched
  BY DEF LayoutInv
<1> QED
  BY <1>1, InductiveLayout, PTL

-----------------------------------------------------------------------------
(* The time in two words, for any size of a word. *)

LEMMA DivMod ==
    ASSUME NEW n \in Nat, NEW d \in Nat \ {0}
    PROVE  n \div d \in Nat /\ n % d \in 0 .. d - 1 /\ n = d * (n \div d) + (n % d)
  OBVIOUS

LEMMA Quotient ==
    ASSUME NEW d \in Nat \ {0}, NEW q \in Nat, NEW r \in 0 .. d - 1,
           NEW p \in Nat, NEW s \in 0 .. d - 1, d * q + r = d * p + s
    PROVE  q = p
<1>1. d * (q - p) = s - r /\ d * (p - q) = r - s
  OBVIOUS
<1>2. CASE q > p
  <2>1. q - p >= 1
    BY <1>2
  <2>2. d * (q - p) >= d
    BY <2>1
  <2> QED
    BY <1>1, <2>2
<1>3. CASE p > q
  <2>1. p - q >= 1
    BY <1>3
  <2>2. d * (p - q) >= d
    BY <2>1
  <2> QED
    BY <1>1, <2>2
<1> QED
  BY <1>2, <1>3

LEMMA TwoWords ==
    ASSUME NEW n \in Nat, NEW d \in Nat \ {0}, NEW w \in Nat \ {0}
    PROVE  n \div (d * w) = (n \div d) \div w
<1>1. PICK t \in Nat, a \in 0 .. d - 1 : t = n \div d /\ n = d * t + a
  BY DivMod
<1>2. PICK q \in Nat, b \in 0 .. w - 1 : q = t \div w /\ t = w * q + b
  BY DivMod
<1>3. d * w \in Nat \ {0}
  BY Z3
<1>4. PICK p \in Nat, s \in 0 .. (d * w) - 1 : p = n \div (d * w) /\ n = (d * w) * p + s
  BY <1>3, DivMod
<1>5. n = (d * w) * q + (d * b + a)
  <2>1. d * (w * q + b) = (d * w) * q + d * b
    BY Z3
  <2>2. d * t = (d * w) * q + d * b
    BY <1>2, <2>1
  <2>3. PICK x \in Nat, y \in Nat : x = (d * w) * q /\ y = d * b
    BY Z3
  <2>4. n = (x + y) + a
    BY <1>1, <2>2, <2>3
  <2>5. n = x + (y + a)
    BY <2>3, <2>4
  <2> QED
    BY <2>3, <2>5
<1>6. d * b + a \in 0 .. (d * w) - 1
  <2>1. d * b <= d * (w - 1) /\ d * b \in Nat
    BY Z3
  <2>2. d * (w - 1) = (d * w) - d
    BY Z3
  <2> QED
    BY <1>3, <2>1, <2>2
<1>7. q = p
  <2>1. (d * w) * q + (d * b + a) = (d * w) * p + s
    BY <1>4, <1>5
  <2> QED
    BY <1>3, <1>6, <2>1, Quotient
<1> QED
  BY <1>1, <1>2, <1>4, <1>7

LEMMA ClockExact ==
    ASSUME NEW n \in Times
    PROVE  GetInt64(Low(n, Second), High(n, Second)) * Second + (n % Second) = n
<1>1. PICK h \in Nat : h = Word \div 2 /\ 2 * h <= Word
  BY GoRuntimeAssumption
<1>2. /\ n \in Nat /\ n < Second * Word * h
      /\ Second \in Nat \ {0} /\ Word \in Nat \ {0, 1}
  <2>1. Second * Word * h \in Nat
    BY <1>1, GoRuntimeAssumption, Z3
  <2> QED
    BY <1>1, <2>1, GoRuntimeAssumption
<1>3. PICK t \in Nat : t = n \div Second /\ n = Second * t + (n % Second)
  BY <1>2, DivMod
<1>4. PICK q \in Nat, b \in 0 .. Word - 1 : q = t \div Word /\ b = t % Word /\ t = Word * q + b
  BY <1>2, DivMod
<1>5. n \div (Second * Word) = q
  BY <1>2, <1>3, <1>4, TwoWords
<1>6. q < h
  <2>1. (Second * Word) * q <= n
    <3>1. PICK m \in Nat \ {0} : m = Second * Word
      BY <1>2, Z3
    <3>2. n = m * q + (n % m) /\ n % m \in 0 .. m - 1
      BY <1>2, <1>5, <3>1, DivMod
    <3>3. m * q \in Nat
      BY <3>1, Z3
    <3> QED
      BY <3>1, <3>2, <3>3
  <2>2. CASE q >= h
    <3>1. (Second * Word) * q >= (Second * Word) * h
      BY <1>1, <1>2, <2>2, Z3
    <3>2. (Second * Word) * q \in Nat /\ (Second * Word) * h \in Nat
      BY <1>1, <1>2, Z3
    <3> QED
      BY <1>2, <2>1, <3>1, <3>2
  <2> QED
    BY <1>1, <2>2
<1>7. q % Word = q /\ 2 * q < Word
  BY <1>1, <1>2, <1>6
<1>8. Low(n, Second) = b /\ High(n, Second) = q
  BY <1>3, <1>4, <1>5, <1>7 DEF Low, High
<1>9. GetInt64(b, q) = t
  BY <1>2, <1>4, <1>7 DEF GetInt64
<1> QED
  BY <1>2, <1>3, <1>8, <1>9

(* Go gets the time of the clock, to the millisecond, whatever the word size. *)
THEOREM ClockRight == Spec => []WalltimeExact
<1>1. Init => WalltimeExact
  BY GoRuntimeAssumption DEF Init, RuntimeInit, WalltimeExact, GetInt64
<1>2. ASSUME WalltimeExact, [Next]_vars PROVE WalltimeExact'
  <2>1. CASE UNCHANGED walltime
    BY <1>2, <2>1 DEF WalltimeExact
  <2>2. CASE \E n \in Times : Walltime(n)
    <3>1. PICK n \in Times : Walltime(n)
      BY <2>2
    <3>2. /\ walltime'.msec = n /\ walltime'.rest = n % Second
          /\ walltime'.low = Low(n, Second) /\ walltime'.high = High(n, Second)
      BY <3>1 DEF Walltime
    <3> QED
      BY <3>2, ClockExact DEF WalltimeExact
  <2> QED
    BY <1>2, <2>1, <2>2 DEF Next, vars, RuntimeNext, runtimeVars, StrPtr, Table, Start, WasmWrite
<1> QED
  BY <1>1, <1>2, PTL DEF Spec

-----------------------------------------------------------------------------
(* The output.  A last newline exists, as the indices of newlines counted from
   the end have a least element. *)

LEMMA LastNewlineFacts ==
    ASSUME NEW s \in Seq(STRING)
    PROVE  /\ LastNewline(s) \in 0 .. Len(s)
           /\ LastNewline(s) # 0 => s[LastNewline(s)] = Newline
           /\ \A k \in LastNewline(s) + 1 .. Len(s) : s[k] # Newline
<1> DEFINE Last(i) == /\ i # 0 => s[i] = Newline
                      /\ \A k \in i + 1 .. Len(s) : s[k] # Newline
<1>1. \E i \in 0 .. Len(s) : Last(i)
  <2>1. CASE \A k \in 1 .. Len(s) : s[k] # Newline
    BY <2>1
  <2>2. CASE \E k \in 1 .. Len(s) : s[k] = Newline
    <3> DEFINE FromEnd == {d \in Nat : \E k \in 1 .. Len(s) : s[k] = Newline /\ d = Len(s) - k}
    <3>1. FromEnd \subseteq Nat /\ FromEnd # {}
      <4>1. PICK k \in 1 .. Len(s) : s[k] = Newline
        BY <2>2
      <4>2. Len(s) \in Nat /\ Len(s) - k \in Nat
        BY <4>1
      <4>3. Len(s) - k \in FromEnd
        BY <4>1, <4>2
      <4> QED
        BY <4>3
    <3>2. PICK d \in FromEnd : \A c \in FromEnd : ~ (<<c, d>> \in OpToRel(<, Nat))
      <4> HIDE DEF FromEnd
      <4> QED
        BY <3>1, NatLessThanWellFounded, WFMin
    <3>3. PICK i \in 1 .. Len(s) : s[i] = Newline /\ d = Len(s) - i
      BY <3>2
    <3>4. ASSUME NEW k \in i + 1 .. Len(s), s[k] = Newline PROVE FALSE
      <4>1. Len(s) - k \in FromEnd /\ Len(s) - k < d
        BY <3>3, <3>4
      <4>2. <<Len(s) - k, d>> \in OpToRel(<, Nat)
        BY <3>1, <3>2, <4>1 DEF OpToRel
      <4> QED
        BY <3>2, <4>1, <4>2
    <3> QED
      BY <3>3, <3>4
  <2> QED
    BY <2>1, <2>2
<1>2. LastNewline(s) = CHOOSE i \in 0 .. Len(s) : Last(i)
  BY DEF LastNewline
<1> QED
  BY <1>1, <1>2

(* A text cut in two is the two parts. *)
LEMMA CutAnywhere ==
    ASSUME NEW s \in Seq(STRING), NEW n \in 0 .. Len(s)
    PROVE  /\ SubSeq(s, 1, n) \in Seq(STRING) /\ Len(SubSeq(s, 1, n)) = n
           /\ \A i \in 1 .. n : SubSeq(s, 1, n)[i] = s[i]
           /\ SubSeq(s, n + 1, Len(s)) \in Seq(STRING)
           /\ Len(SubSeq(s, n + 1, Len(s))) = Len(s) - n
           /\ \A i \in 1 .. Len(s) - n : SubSeq(s, n + 1, Len(s))[i] = s[n + i]
           /\ SubSeq(s, 1, n) \o SubSeq(s, n + 1, Len(s)) = s
<1>1. Len(s) \in Nat /\ \A i \in 1 .. Len(s) : s[i] \in STRING
  OBVIOUS
<1>2. PICK one : one = SubSeq(s, 1, n)
  OBVIOUS
<1>3. PICK two : two = SubSeq(s, n + 1, Len(s))
  OBVIOUS
<1>4. one \in Seq(STRING) /\ Len(one) = n /\ \A i \in 1 .. n : one[i] = s[i]
  BY <1>1, <1>2, SubSeqProperties
<1>5. two \in Seq(STRING) /\ Len(two) = Len(s) - n /\ \A i \in 1 .. Len(s) - n : two[i] = s[n + i]
  <2>1. \A i \in n + 1 .. Len(s) : s[i] \in STRING
    BY <1>1
  <2>2. two \in Seq(STRING) /\ Len(two) = IF n + 1 <= Len(s) THEN Len(s) - (n + 1) + 1 ELSE 0
    BY <1>1, <1>3, <2>1, SubSeqProperties
  <2>3. \A i \in 1 .. Len(s) - (n + 1) + 1 : two[i] = s[n + 1 + i - 1]
    BY <1>1, <1>3, <2>1, SubSeqProperties
  <2>4. \A i \in 1 .. Len(s) - n : two[i] = s[n + i]
    <3> TAKE i \in 1 .. Len(s) - n
    <3>1. i \in 1 .. Len(s) - (n + 1) + 1 /\ n + 1 + i - 1 = n + i
      BY <1>1
    <3> QED
      BY <2>3, <3>1
  <2> QED
    BY <1>1, <2>2, <2>4
<1>6. one \o two = s
  <2>1. /\ one \o two \in Seq(STRING) /\ Len(one \o two) = n + (Len(s) - n)
        /\ \A i \in 1 .. n + (Len(s) - n) :
             (one \o two)[i] = IF i <= n THEN one[i] ELSE two[i - n]
    <3>1. one \in Seq(STRING) /\ two \in Seq(STRING)
      BY <1>4, <1>5
    <3>2. /\ one \o two \in Seq(STRING) /\ Len(one \o two) = Len(one) + Len(two)
          /\ \A i \in 1 .. Len(one) + Len(two) :
               (one \o two)[i] = IF i <= Len(one) THEN one[i] ELSE two[i - Len(one)]
      BY ONLY <3>1, ConcatProperties, Zenon
    <3>3. Len(one) = n /\ Len(two) = Len(s) - n
      BY <1>4, <1>5
    <3> QED
      BY ONLY <3>2, <3>3, Zenon
  <2>2. Len(one \o two) = Len(s)
    BY <1>1, <2>1
  <2>3. ASSUME NEW i \in 1 .. Len(s) PROVE (one \o two)[i] = s[i]
    <3>1. CASE i <= n
      BY <1>1, <1>4, <2>1, <3>1
    <3>2. CASE ~ (i <= n)
      <4>1. i - n \in 1 .. Len(s) - n /\ n + (i - n) = i
        BY <1>1, <3>2
      <4> QED
        BY <1>1, <1>5, <2>1, <3>2, <4>1
    <3> QED
      BY <3>1, <3>2
  <2>4. \A i \in 1 .. Len(s) : (one \o two)[i] = s[i]
    BY <2>3
  <2> QED
    BY <2>1, <2>2, <2>4, SeqEqual
<1> QED
  BY <1>2, <1>3, <1>4, <1>5, <1>6

(* What the decoder makes of a text is made of each byte and its neighbours. *)
LEMMA CharactersType ==
    ASSUME NEW s \in Seq(STRING)
    PROVE  /\ Characters(s) \in Seq(STRING) /\ Len(Characters(s)) = Len(s)
           /\ \A i \in 1 .. Len(s) :
                Characters(s)[i] = IF Broken(s, i) THEN Replacement ELSE s[i]
<1>1. Characters(s) = [i \in 1 .. Len(s) |-> IF Broken(s, i) THEN Replacement ELSE s[i]]
  BY DEF Characters
<1>2. ASSUME NEW i \in 1 .. Len(s)
      PROVE  (IF Broken(s, i) THEN Replacement ELSE s[i]) \in STRING
  <2>1. s[i] \in STRING
    OBVIOUS
  <2>2. Replacement \in STRING
    BY Zenon, GoRuntimeAssumption
  <2> QED
    BY <2>1, <2>2, Zenon
<1>3. Len(s) \in Nat
  OBVIOUS
<1> QED
  BY <1>1, <1>2, <1>3

(* Two texts that are apart are decoded as they are one by one. *)
LEMMA CharactersConcat ==
    ASSUME NEW s \in Seq(STRING), NEW t \in Seq(STRING), Apart(s, t)
    PROVE  Characters(s \o t) = Characters(s) \o Characters(t)
<1>1. PICK m \in Nat : m = Len(s)
  OBVIOUS
<1>2. PICK n \in Nat : n = Len(t)
  OBVIOUS
<1>3. PICK st : st = s \o t
  OBVIOUS
<1>4. /\ st \in Seq(STRING) /\ Len(st) = m + n
      /\ \A i \in 1 .. m : st[i] = s[i]
      /\ \A i \in 1 .. n : st[m + i] = t[i]
  BY <1>1, <1>2, <1>3
<1>5. m # 0 /\ n # 0 => ~ (s[m] = Lead /\ t[1] = Trail)
  BY <1>1, <1>2 DEF Apart
<1>6. Lead # Trail
  BY GoRuntimeAssumption
<1>7. ASSUME NEW i \in 1 .. m PROVE Broken(st, i) <=> Broken(s, i)
  <2>1. st[i] = s[i] /\ (i # 1 => st[i - 1] = s[i - 1])
    BY <1>4, <1>7
  <2>2. CASE i < m
    <3>1. st[i + 1] = s[i + 1] /\ i # m /\ i # m + n
      BY <1>4, <1>7, <2>2
    <3> QED
      BY <1>1, <1>4, <2>1, <3>1 DEF Broken
  <2>3. CASE i = m /\ n = 0
    BY <1>1, <1>4, <2>1, <2>3 DEF Broken
  <2>4. CASE i = m /\ n # 0
    <3>1. st[i + 1] = t[1] /\ i # m + n
      BY <1>4, <1>7, <2>4
    <3> QED
      BY <1>1, <1>4, <1>5, <1>7, <2>1, <2>4, <3>1 DEF Broken
  <2> QED
    BY <1>7, <2>2, <2>3, <2>4
<1>8. ASSUME NEW i \in 1 .. n PROVE Broken(st, m + i) <=> Broken(t, i)
  <2>1. /\ st[m + i] = t[i] /\ (m + i = m + n <=> i = n)
        /\ (i # n => st[m + i + 1] = t[i + 1])
    <3>1. i # n => i + 1 \in 1 .. n /\ m + (i + 1) = m + i + 1
      BY <1>8
    <3> QED
      BY <1>4, <1>8, <3>1
  <2>2. CASE i # 1
    <3>1. st[m + i - 1] = t[i - 1] /\ m + i # 1
      <4>1. i - 1 \in 1 .. n /\ m + (i - 1) = m + i - 1
        BY <1>8, <2>2
      <4> QED
        BY <1>4, <4>1
    <3> QED
      BY <1>2, <1>4, <2>1, <2>2, <3>1 DEF Broken
  <2>3. CASE i = 1 /\ m = 0
    BY <1>2, <1>4, <2>1, <2>3 DEF Broken
  <2>4. CASE i = 1 /\ m # 0
    <3>1. st[m + i - 1] = s[m] /\ m + i # 1
      BY <1>4, <2>4
    <3> QED
      BY <1>2, <1>4, <1>5, <1>8, <2>1, <2>4, <3>1 DEF Broken
  <2> QED
    BY <2>2, <2>3, <2>4
<1>9. /\ Characters(s) \in Seq(STRING) /\ Len(Characters(s)) = m
      /\ Characters(t) \in Seq(STRING) /\ Len(Characters(t)) = n
      /\ Characters(st) \in Seq(STRING) /\ Len(Characters(st)) = m + n
  BY <1>1, <1>2, <1>4, CharactersType
<1>10. PICK cc : cc = Characters(s) \o Characters(t)
  OBVIOUS
<1>11. /\ cc \in Seq(STRING) /\ Len(cc) = m + n
       /\ \A i \in 1 .. m : cc[i] = Characters(s)[i]
       /\ \A i \in 1 .. n : cc[m + i] = Characters(t)[i]
  BY <1>9, <1>10
<1>12. ASSUME NEW i \in 1 .. m + n PROVE Characters(st)[i] = cc[i]
  <2>1. CASE i \in 1 .. m
    BY <1>1, <1>4, <1>7, <1>11, <1>12, <2>1, CharactersType
  <2>2. CASE i \notin 1 .. m
    <3>1. PICK j \in 1 .. n : i = m + j
      <4>1. i - m \in 1 .. n /\ i = m + (i - m)
        BY <1>12, <2>2
      <4> QED
        BY <4>1
    <3>2. Characters(t)[j] = IF Broken(t, j) THEN Replacement ELSE t[j]
      BY <1>2, CharactersType
    <3>3. Characters(st)[i] = IF Broken(st, i) THEN Replacement ELSE st[i]
      BY <1>4, <1>12, CharactersType
    <3> QED
      BY <1>4, <1>8, <1>11, <3>1, <3>2, <3>3
  <2> QED
    BY <2>1, <2>2
<1>13. Characters(st) = cc
  BY <1>9, <1>11, <1>12, SeqEqual
<1> QED
  BY <1>3, <1>10, <1>13

LEMMA NewlinesFinite ==
    ASSUME NEW s \in Seq(STRING)
    PROVE  /\ IsFiniteSet({i \in DOMAIN s : s[i] = Newline}) /\ Newlines(s) \in Nat
           /\ (\A i \in DOMAIN s : s[i] # Newline) => Newlines(s) = 0
<1>1. IsFiniteSet(1 .. Len(s)) /\ DOMAIN s = 1 .. Len(s)
  BY FS_Interval
<1>2. IsFiniteSet({i \in DOMAIN s : s[i] = Newline})
  BY <1>1, FS_Subset
<1>3. Newlines(s) \in Nat
  BY <1>2, FS_CardinalityType DEF Newlines
<1>4. ASSUME \A i \in DOMAIN s : s[i] # Newline PROVE Newlines(s) = 0
  <2>1. {i \in DOMAIN s : s[i] = Newline} = {}
    BY <1>4
  <2> QED
    BY <2>1, FS_EmptySet DEF Newlines
<1> QED
  BY <1>2, <1>3, <1>4

LEMMA NewlinesConcat ==
    ASSUME NEW s \in Seq(STRING), NEW t \in Seq(STRING)
    PROVE  Newlines(s \o t) = Newlines(s) + Newlines(t)
<1>1. PICK m \in Nat : m = Len(s)
  OBVIOUS
<1>2. PICK n \in Nat : n = Len(t)
  OBVIOUS
<1>3. PICK st : st = s \o t
  OBVIOUS
<1>4. /\ st \in Seq(STRING) /\ DOMAIN st = 1 .. (m + n)
      /\ \A i \in 1 .. m : st[i] = s[i]
      /\ \A i \in 1 .. n : st[m + i] = t[i]
  BY <1>1, <1>2, <1>3
<1>5. DOMAIN s = 1 .. m /\ DOMAIN t = 1 .. n
  BY <1>1, <1>2
<1>6. PICK A : A = {i \in DOMAIN s : s[i] = Newline}
  OBVIOUS
<1>7. PICK B : B = {i \in DOMAIN t : t[i] = Newline}
  OBVIOUS
<1>8. PICK C : C = {m + i : i \in B}
  OBVIOUS
<1>9. IsFiniteSet(A) /\ IsFiniteSet(B)
  BY <1>6, <1>7, NewlinesFinite
<1>10. IsFiniteSet(C) /\ Cardinality(C) = Cardinality(B)
  <2>1. PICK f : f = [i \in B |-> m + i]
    OBVIOUS
  <2>2. f \in [B -> C]
    BY <1>8, <2>1
  <2>3. \A i, j \in B : f[i] = f[j] => i = j
    BY <1>5, <1>7, <2>1
  <2>4. \A c \in C : \E i \in B : f[i] = c
    BY <1>8, <2>1
  <2>5. f \in Injection(B, C)
    BY <2>2, <2>3 DEF Injection, IsInjective
  <2>6. f \in Surjection(B, C)
    BY <2>2, <2>4 DEF Surjection
  <2>7. ExistsBijection(B, C)
    BY <2>5, <2>6 DEF ExistsBijection, Bijection
  <2> QED
    BY <1>9, <2>7, FS_Bijection
<1>11. {i \in DOMAIN st : st[i] = Newline} = A \cup C
  <2>1. ASSUME NEW i \in A \cup C PROVE i \in DOMAIN st /\ st[i] = Newline
    BY <1>4, <1>5, <1>6, <1>7, <1>8, <2>1
  <2>2. ASSUME NEW i \in DOMAIN st, st[i] = Newline PROVE i \in A \cup C
    <3>1. CASE i \in 1 .. m
      BY <1>4, <1>5, <1>6, <2>2, <3>1
    <3>2. CASE i \notin 1 .. m
      <4>1. i - m \in 1 .. n /\ i = m + (i - m)
        BY <1>4, <3>2
      <4> QED
        BY <1>4, <1>5, <1>7, <1>8, <2>2, <4>1
    <3> QED
      BY <3>1, <3>2
  <2> QED
    BY <2>1, <2>2
<1>12. A \cap C = {}
  BY <1>5, <1>6, <1>7, <1>8
<1>13. Cardinality(A \cup C) = Cardinality(A) + Cardinality(C)
  <2>1. Cardinality(A \cap C) = 0 /\ Cardinality(A) \in Nat /\ Cardinality(C) \in Nat
    BY <1>9, <1>10, <1>12, FS_EmptySet, FS_CardinalityType
  <2>2. Cardinality(A \cup C) = Cardinality(A) + Cardinality(C) - Cardinality(A \cap C)
    BY <1>9, <1>10, FS_Union
  <2> QED
    BY <2>1, <2>2
<1> QED
  BY <1>3, <1>6, <1>7, <1>10, <1>11, <1>13 DEF Newlines

(* Decoding leaves each newline where it is, and drops none with the mark. *)
LEMMA DecodeFacts ==
    ASSUME NEW s \in Seq(STRING)
    PROVE  /\ Decode(s) \in Seq(STRING) /\ Newlines(Decode(s)) = Newlines(s)
           /\ \A t : Apart(t, s) => Decode(s) = Characters(s)
<1>1. PICK c : c = Characters(s)
  OBVIOUS
<1>2. /\ c \in Seq(STRING) /\ Len(c) = Len(s) /\ DOMAIN c = DOMAIN s
      /\ \A i \in DOMAIN s : c[i] = IF Broken(s, i) THEN Replacement ELSE s[i]
  BY <1>1, CharactersType
<1>3. \A i \in DOMAIN s : c[i] = Newline <=> s[i] = Newline
  BY <1>2, GoRuntimeAssumption DEF Broken
<1>4. Newlines(c) = Newlines(s)
  <2>1. {i \in DOMAIN c : c[i] = Newline} = {i \in DOMAIN s : s[i] = Newline}
    BY <1>2, <1>3
  <2> QED
    BY <2>1 DEF Newlines
<1>5. CASE s # <<>> /\ s[1] = Bom
  <2>1. Decode(s) = Tail(c)
    BY <1>1, <1>5 DEF Decode
  <2>2. c # <<>> /\ 1 \in DOMAIN s /\ c[1] # Newline
    <3>1. 1 \in DOMAIN s
      BY <1>5
    <3>2. Bom # Newline
      BY Zenon, GoRuntimeAssumption
    <3>3. c # <<>>
      BY <1>2, <3>1
    <3> QED
      BY <1>3, <1>5, <3>1, <3>2, <3>3
  <2>3. PICK one : one = <<c[1]>>
    OBVIOUS
  <2>4. PICK rest : rest = Tail(c)
    OBVIOUS
  <2>5. /\ one \in Seq(STRING) /\ DOMAIN one = {1} /\ one[1] = c[1]
        /\ rest \in Seq(STRING) /\ c = one \o rest
    BY <1>2, <2>2, <2>3, <2>4
  <2>6. Newlines(one) = 0
    BY <2>2, <2>5, NewlinesFinite
  <2>7. Newlines(c) = Newlines(rest)
    <3>1. Newlines(one \o rest) = Newlines(one) + Newlines(rest)
      BY <2>5, NewlinesConcat
    <3>2. Newlines(rest) \in Nat
      BY <2>5, NewlinesFinite
    <3>3. Newlines(c) = Newlines(one \o rest)
      BY <2>5
    <3> QED
      BY <2>6, <3>1, <3>2, <3>3
  <2> QED
    BY <1>4, <1>5, <2>1, <2>4, <2>5, <2>7 DEF Apart
<1>6. CASE ~ (s # <<>> /\ s[1] = Bom)
  <2>1. Decode(s) = c
    BY <1>1, <1>6 DEF Decode
  <2> QED
    BY <1>1, <1>2, <1>4, <2>1
<1> QED
  BY <1>5, <1>6

OutputInv ==
    /\ outputBuf \in Seq(STRING) /\ printed \in Seq(STRING) /\ written \in Seq(STRING)
    /\ Newlines(printed \o outputBuf) = Newlines(written)
    /\ OutputInOrder

LEMMA WasmWriteOutput ==
    ASSUME OutputInv, NEW text \in Texts, WasmWrite(text)
    PROVE  OutputInv'
<1>0. PICK decoded : decoded = Decode(text)
  OBVIOUS
<1> DEFINE buf == outputBuf \o decoded
           nl == LastNewline(buf)
           lines == SubSeq(buf, 1, nl)
           left == SubSeq(buf, nl + 1, Len(buf))
<1>1. /\ text \in Seq(STRING) /\ decoded \in Seq(STRING) /\ buf \in Seq(STRING)
      /\ Newlines(decoded) = Newlines(text)
      /\ Apart(written, text) => decoded = Characters(text)
  BY <1>0, GoRuntimeAssumption, DecodeFacts, ConcatProperties DEF OutputInv
<1>2. /\ nl \in 0 .. Len(buf)
      /\ nl # 0 => buf[nl] = Newline
      /\ \A k \in nl + 1 .. Len(buf) : buf[k] # Newline
  <2> HIDE DEF buf
  <2> QED
    BY <1>1, LastNewlineFacts
<1>3. /\ printed' = printed \o lines /\ outputBuf' = left /\ written' = written \o text
      /\ intact' = (intact /\ Apart(written, text))
  BY <1>0 DEF WasmWrite
<1>4. /\ lines \in Seq(STRING) /\ Len(lines) = nl /\ \A i \in 1 .. nl : lines[i] = buf[i]
      /\ left \in Seq(STRING) /\ Len(left) = Len(buf) - nl
      /\ \A i \in 1 .. Len(buf) - nl : left[i] = buf[nl + i]
      /\ lines \o left = buf
  <2> HIDE DEF buf, nl
  <2> QED
    BY <1>1, <1>2, CutAnywhere
<1> HIDE DEF lines, left, nl
<1>5. /\ printed' \in Seq(STRING) /\ outputBuf' \in Seq(STRING) /\ written' \in Seq(STRING)
      /\ Len(printed') = Len(printed) + nl
      /\ \A i \in 1 .. Len(printed) + nl :
           printed'[i] = IF i <= Len(printed) THEN printed[i] ELSE lines[i - Len(printed)]
  BY <1>1, <1>3, <1>4, ConcatProperties DEF OutputInv
<1>6. printed' \o outputBuf' = (printed \o outputBuf) \o decoded
  <2>1. printed' \o outputBuf' = printed \o (lines \o left)
    <3>1. (printed \o lines) \o left = printed \o (lines \o left)
      <4>1. printed \in Seq(STRING) /\ lines \in Seq(STRING) /\ left \in Seq(STRING)
        BY <1>4 DEF OutputInv
      <4> QED
        BY ONLY <4>1
    <3> QED
      BY <1>3, <3>1
  <2>2. printed \o (outputBuf \o decoded) = (printed \o outputBuf) \o decoded
    BY <1>1, ConcatAssociative DEF OutputInv
  <2> QED
    BY <1>4, <2>1, <2>2
<1>7. printed' # <<>> => printed'[Len(printed')] = Newline
  <2>1. CASE nl = 0
    <3>1. Len(printed') = Len(printed)
      BY <1>5, <2>1 DEF OutputInv
    <3>2. printed' # <<>> => printed # <<>> /\ Len(printed) \in 1 .. Len(printed)
      BY <1>5, <3>1 DEF OutputInv
    <3> QED
      BY <1>5, <2>1, <3>1, <3>2 DEF OutputInv, OutputInOrder
  <2>2. CASE nl # 0
    <3>1. nl \in 1 .. nl /\ Len(printed) \in Nat
      BY <1>2, <2>2 DEF OutputInv
    <3>2. printed'[Len(printed')] = lines[nl]
      <4>1. /\ Len(printed) + nl \in 1 .. Len(printed) + nl
            /\ ~ (Len(printed) + nl <= Len(printed))
            /\ (Len(printed) + nl) - Len(printed) = nl
        BY <3>1
      <4> QED
        BY <1>5, <4>1
    <3> QED
      BY <1>2, <1>4, <2>2, <3>1, <3>2
  <2> QED
    BY <2>1, <2>2
<1>8. \A i \in DOMAIN outputBuf' : outputBuf'[i] # Newline
  <2> HIDE DEF buf
  <2>1. /\ Len(buf) \in Nat /\ nl \in Nat
        /\ DOMAIN outputBuf' = 1 .. Len(buf) - nl
    BY <1>1, <1>2, <1>3, <1>4
  <2>2. ASSUME NEW i \in 1 .. Len(buf) - nl PROVE outputBuf'[i] # Newline
    <3>1. nl + i \in nl + 1 .. Len(buf)
      BY <2>1
    <3> QED
      BY <1>2, <1>3, <1>4, <3>1
  <2> QED
    BY <2>1, <2>2
<1>9. printed \o outputBuf \in Seq(STRING) /\ written \in Seq(STRING)
  BY ConcatProperties DEF OutputInv
<1>10. intact' => printed' \o outputBuf' = Characters(written')
  <2> SUFFICES ASSUME intact' PROVE printed' \o outputBuf' = Characters(written')
    OBVIOUS
  <2>1. intact /\ Apart(written, text)
    BY <1>3
  <2>2. printed \o outputBuf = Characters(written)
    BY <2>1 DEF OutputInv, OutputInOrder
  <2>3. Characters(written \o text) = Characters(written) \o Characters(text)
    BY <1>1, <1>9, <2>1, CharactersConcat
  <2> QED
    BY <1>1, <1>3, <1>6, <2>1, <2>2, <2>3
<1>11. Newlines(printed' \o outputBuf') = Newlines(written')
  <2>1. Newlines((printed \o outputBuf) \o decoded)
          = Newlines(printed \o outputBuf) + Newlines(decoded)
    BY <1>1, <1>9, NewlinesConcat
  <2>2. Newlines(written \o text) = Newlines(written) + Newlines(text)
    BY <1>1, <1>9, NewlinesConcat
  <2>3. Newlines(printed \o outputBuf) = Newlines(written)
    BY DEF OutputInv
  <2> QED
    BY <1>1, <1>3, <1>6, <2>1, <2>2, <2>3
<1>12. Newlines(printed') = Newlines(written')
  <2>1. Newlines(printed' \o outputBuf') = Newlines(printed') + Newlines(outputBuf')
    BY <1>5, NewlinesConcat
  <2>2. Newlines(outputBuf') = 0 /\ Newlines(printed') \in Nat
    BY <1>5, <1>8, NewlinesFinite
  <2> QED
    BY <1>11, <2>1, <2>2
<1> QED
  BY <1>5, <1>7, <1>8, <1>10, <1>11, <1>12 DEF OutputInv, OutputInOrder

LEMMA InductiveOutput == Spec => []OutputInv
<1>1. Init => OutputInv
  <2> SUFFICES ASSUME Init PROVE OutputInv
    OBVIOUS
  <2>1. /\ outputBuf = <<>> /\ printed = <<>> /\ written = <<>>
        /\ <<>> \in Seq(STRING) /\ <<>> \o <<>> = <<>>
    BY DEF Init, RuntimeInit
  <2>2. Characters(<<>>) = <<>>
    BY CharactersType, <2>1, EmptySeq
  <2> QED
    BY <2>1, <2>2 DEF OutputInv, OutputInOrder
<1>2. ASSUME OutputInv, [Next]_vars PROVE OutputInv'
  <2>1. CASE \E text \in Texts : WasmWrite(text)
    BY <1>2, <2>1, WasmWriteOutput
  <2>2. CASE UNCHANGED output
    BY <1>2, <2>2 DEF output, OutputInv, OutputInOrder
  <2>3. UNCHANGED output \/ \E text \in Texts : WasmWrite(text)
    BY <1>2 DEF Next, vars, RuntimeNext, StrPtr, Table, Start, Walltime, runtimeVars
  <2> QED
    BY <2>1, <2>2, <2>3
<1> QED
  BY <1>1, <1>2, PTL DEF Spec

(* What Go prints appears once, in order and in full lines, and in whole
   characters unless it splits them; and not even then is a line lost. *)
THEOREM PrintsInOrder == Spec => []OutputInOrder
<1>1. OutputInv => OutputInOrder
  BY DEF OutputInv
<1> QED
  BY <1>1, InductiveOutput, PTL

=============================================================================
