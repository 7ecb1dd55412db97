------------------------- MODULE Lifecycle_proofs -------------------------
(***************************************************************************)
(* Proofs about Lifecycle, for every set of calls and codes.               *)
(***************************************************************************)
EXTENDS Lifecycle, TLAPS

-----------------------------------------------------------------------------
(* What pushing, popping and replacing do to the stack. *)

LEMMA PushFacts ==
    ASSUME NEW S, NEW s \in Seq(S), NEW f \in S
    PROVE  /\ Append(s, f) \in Seq(S)
           /\ Len(Append(s, f)) = Len(s) + 1
           /\ DOMAIN Append(s, f) = 1 .. (Len(s) + 1)
           /\ \A i \in 1 .. Len(s) : Append(s, f)[i] = s[i]
           /\ Append(s, f)[Len(s) + 1] = f
  OBVIOUS

LEMMA PopFacts ==
    ASSUME NEW S, NEW s \in Seq(S), NEW k \in 0 .. Len(s)
    PROVE  /\ SubSeq(s, 1, k) \in Seq(S)
           /\ Len(SubSeq(s, 1, k)) = k
           /\ DOMAIN SubSeq(s, 1, k) = 1 .. k
           /\ \A i \in 1 .. k : SubSeq(s, 1, k)[i] = s[i]
  OBVIOUS

LEMMA FrameTypes ==
    /\ RunFrame \in Frame /\ InitFrame \in Frame
    /\ \A c \in Calls, n \in Nat : ApiFrame(c, n) \in Frame
    /\ \A c \in Calls \cup {NoCall} : OptFrame(c) \in Frame
    /\ \A k \in UserKinds : ListenerFrame(k) \in Frame
    /\ \A c \in Calls \cup {NoCall}, n \in 0 .. (CodeModulus - 1), o \in Origins :
         ExitFrame(c, n, o) \in Frame
  BY LifecycleAssumption
     DEF RunFrame, InitFrame, ApiFrame, OptFrame, ListenerFrame, ExitFrame, Frame,
         Kinds, UserKinds, ExitKinds, Origins

LEMMA Names ==
    /\ "onError" \in UserKinds /\ "onExit" \in UserKinds
    /\ "exitEmit" \in ExitKinds /\ "exitDone" \in ExitKinds /\ "goExit" \in ExitKinds
    /\ "run" \in Origins /\ "init" \in Origins /\ "api" \in Origins
    /\ "exit" \in Origins /\ "hook" \in Origins
    /\ "unused" \in CallStates /\ "pending" \in CallStates
    /\ "fulfilled" \in CallStates /\ "rejected" \in CallStates
  BY DEF UserKinds, ExitKinds, Origins, CallStates

LEMMA StackTypes ==
    ASSUME stack \in Seq(Frame)
    PROVE  /\ \A f \in Frame : Push(f) \in Seq(Frame)
           /\ Idle <=> Len(stack) = 0
           /\ ~Idle => /\ Len(stack) \in Nat \ {0}
                       /\ Top \in Frame /\ Top.call \in Calls \cup {NoCall}
                       /\ Top.n \in Nat /\ Top.from \in Origins
                       /\ Below \in Seq(Frame)
                       /\ \A f \in Frame : Replace(f) \in Seq(Frame)
           /\ ~Idle /\ Top.kind \in ExitKinds =>
                       /\ Top.n \in 0 .. (CodeModulus - 1)
                       /\ \A k \in ExitKinds : Becomes(k) \in Seq(Frame)
<1>1. /\ \A f \in Frame : Push(f) \in Seq(Frame)
      /\ Idle <=> Len(stack) = 0
  BY PushFacts DEF Push, Idle
<1>2. ASSUME ~Idle
      PROVE  /\ Len(stack) \in Nat \ {0}
             /\ Top \in Frame /\ Top.call \in Calls \cup {NoCall}
             /\ Top.n \in Nat /\ Top.from \in Origins
             /\ Below \in Seq(Frame)
             /\ \A f \in Frame : Replace(f) \in Seq(Frame)
  <2>1. Top \in Frame /\ Len(stack) \in Nat \ {0}
    BY <1>1, <1>2 DEF Top
  <2>2. Top.call \in Calls \cup {NoCall} /\ Top.n \in Nat /\ Top.from \in Origins
    BY <2>1 DEF Frame
  <2>3. Below \in Seq(Frame)
    BY <2>1, PopFacts DEF Below
  <2>4. \A f \in Frame : Replace(f) \in Seq(Frame)
    BY <2>3, PushFacts DEF Replace
  <2> QED
    BY <2>1, <2>2, <2>3, <2>4
<1>3. ASSUME ~Idle, Top.kind \in ExitKinds
      PROVE  /\ Top.n \in 0 .. (CodeModulus - 1)
             /\ \A k \in ExitKinds : Becomes(k) \in Seq(Frame)
  <2>1. Top.n \in 0 .. (CodeModulus - 1)
    <3>1. Top \in Frame /\ Top.kind \in ExitKinds
      BY <1>2, <1>3
    <3> QED
      BY <3>1, LifecycleAssumption DEF Frame
  <2>2. \A k \in ExitKinds :
          [kind |-> k, call |-> Top.call, n |-> Top.n, from |-> Top.from] \in Frame
    BY <1>2, <1>3, <2>1 DEF Frame, Kinds
  <2> QED
    BY <1>2, <1>3, <2>1, <2>2 DEF Becomes
<1> QED
  BY <1>1, <1>2, <1>3

LEMMA CodeType == ASSUME TypeOK, NEW n \in Nat PROVE ExitCode(n) \in 0 .. (CodeModulus - 1)
  BY LifecycleAssumption DEF ExitCode

(* Nothing in the program makes a value it does not expect. *)
THEOREM Typing == Spec => []TypeOK
<1> USE LifecycleAssumption
<1>1. Init => TypeOK
  <2> SUFFICES ASSUME Init PROVE TypeOK
    OBVIOUS
  <2>1. events \in Seq(Events) /\ stack \in Seq(Frame)
    BY DEF Init
  <2>2. calls \in [Calls -> CallStates]
    BY DEF Init, CallStates
  <2> QED
    BY <2>1, <2>2 DEF Init, TypeOK
<1>2. TypeOK /\ [Next]_vars => TypeOK'
  <2> SUFFICES ASSUME TypeOK, [Next]_vars PROVE TypeOK'
    OBVIOUS
  <2> USE DEF vars, startVars, loadVars, exitVars, userVars, On, OnAny
  <2>1. CASE UNCHANGED vars
    BY <2>1 DEF TypeOK
  <2>2. CASE LoadStep
    <3>0. <<RunFrame>> \in Seq(Frame)
      BY FrameTypes
    <3>1. /\ stack' \in Seq(Frame)
          /\ stage' \in {"random", "read", "instantiate", "done"}
          /\ go' \in {"none", "main", "waiting", "exited"}
      BY <2>2, <3>0 DEF TypeOK, LoadStep
    <3>2. UNCHANGED <<hooked, initErr, methods, tick, promise, cbCalls, exitVars,
                      userVars, timer, calls, proc, crashed>>
      BY <2>2 DEF LoadStep
    <3> QED
      BY <3>1, <3>2 DEF TypeOK
  <2>3. CASE LoadFails
    BY <2>3 DEF TypeOK, LoadFails, Callback
  <2>4. CASE InvokeUid
    BY <2>4, FrameTypes, StackTypes DEF TypeOK, InvokeUid
  <2>5. CASE InitOk
    BY <2>5, StackTypes DEF TypeOK, InitOk, Callback
  <2>6. CASE InitFails
    BY <2>6, StackTypes DEF TypeOK, InitFails
  <2>7. CASE MainWaits
    BY <2>7, StackTypes DEF TypeOK, MainWaits
  <2>8. ASSUME NEW n \in Nat, NEW o \in Origins, CheckedExit(n, o)
        PROVE  /\ exitCalled' \in BOOLEAN /\ listening' \in BOOLEAN
               /\ lateExit' \in BOOLEAN /\ proc' \in {"alive", "killed"}
               /\ go' \in {"none", "main", "waiting", "exited"}
               /\ stack' \in Seq(Frame)
    <3>1. Push(ExitFrame(NoCall, ExitCode(n), o)) \in Seq(Frame)
      BY CodeType, FrameTypes, StackTypes DEF TypeOK
    <3> QED
      BY <2>8, <3>1 DEF TypeOK, CheckedExit, EnterExit
  <2>9. CASE Tick
    <3>1. CheckedExit(0, "hook") /\ tick' \in BOOLEAN
      BY <2>9 DEF Tick
    <3>2. UNCHANGED <<stage, hooked, initErr, methods, promise, cbCalls, requested,
                      userVars, timer, calls, crashed>>
      BY <2>9 DEF Tick
    <3> QED
      BY <2>8, <3>1, <3>2, Names DEF TypeOK
  <2>10. CASE BeforeExit
    BY <2>8, <2>10, Names DEF TypeOK, BeforeExit
  <2>11. ASSUME NEW n \in Codes, UserExit(n) PROVE TypeOK'
    <3>1. CheckedExit(n, "exit") /\ requested' \in Codes \cup {NoCode} /\ n \in Nat
      BY <2>11, LifecycleAssumption DEF UserExit, TypeOK
    <3>2. UNCHANGED <<startVars, userVars, timer, calls, crashed>>
      BY <2>11 DEF UserExit
    <3> QED
      BY <2>8, <3>1, <3>2, Names DEF TypeOK
  <2>12. CASE GoCrash
    <3>1. ~Idle /\ Top.call \in Calls \cup {NoCall} /\ Top.kind \in Origins
      BY <2>12, StackTypes, Names DEF TypeOK, GoCrash
    <3>2. ExitFrame(Top.call, CrashCode, Top.kind) \in Frame
      BY <3>1, FrameTypes, LifecycleAssumption
    <3>3. /\ stack' \in Seq(Frame) /\ crashed' \in BOOLEAN
          /\ go' \in {"none", "main", "waiting", "exited"}
      BY <2>12, <3>1, <3>2, StackTypes DEF TypeOK, GoCrash
    <3>4. UNCHANGED <<startVars, exitVars, userVars, timer, calls, proc>>
      BY <2>12 DEF GoCrash
    <3> QED
      BY <3>3, <3>4 DEF TypeOK
  <2>13. ASSUME ~Idle, Throw
         PROVE  /\ stack' \in Seq(Frame) /\ proc' \in {"alive", "killed"}
                /\ calls' \in [Calls -> CallStates]
    <3>1. SubSeq(stack, 1, Len(stack) - 2) \in Seq(Frame)
      BY DEF TypeOK
    <3> QED
      BY <2>13, <3>1, StackTypes, Names DEF TypeOK, Throw
  <2>14. CASE GoExit
    <3>1. ~Idle /\ Top.kind \in ExitKinds
      BY <2>14, Names DEF GoExit
    <3>2. ASSUME NEW k \in ExitKinds, ReportError(k)
          PROVE  /\ promise' \in {"pending", "resolved", "rejected"}
                 /\ cbCalls' \in Nat /\ calls' \in [Calls -> CallStates]
                 /\ proc' \in {"alive", "killed"} /\ stack' \in Seq(Frame)
                 /\ events' \in Seq(Events)
      <4>1. Becomes(k) \in Seq(Frame) /\ Event("error", Top.n) \in Events
        BY <3>1, StackTypes DEF TypeOK, Event, Events
      <4>2. Append(Becomes(k), ListenerFrame("onError")) \in Seq(Frame)
        BY <4>1, FrameTypes, Names
      <4>3. CASE ~methods
        BY <3>2, <4>1, <4>3 DEF TypeOK, ReportError, Callback
      <4>4. CASE methods /\ errListener
        <5>1. events' = Append(events, Event("error", Top.n)) /\ stack' \in Seq(Frame)
          BY <3>2, <4>2, <4>4 DEF ReportError
        <5>2. UNCHANGED <<promise, cbCalls, proc, calls>>
          BY <3>2, <4>4 DEF ReportError
        <5> QED
          BY <4>1, <5>1, <5>2 DEF TypeOK
      <4>5. CASE methods /\ ~errListener
        BY <2>13, <3>1, <3>2, <4>5 DEF TypeOK, ReportError
      <4> QED
        BY <4>3, <4>4, <4>5 DEF TypeOK
    <3>3. /\ promise' \in {"pending", "resolved", "rejected"}
          /\ cbCalls' \in Nat /\ calls' \in [Calls -> CallStates]
          /\ proc' \in {"alive", "killed"} /\ stack' \in Seq(Frame)
          /\ events' \in Seq(Events)
      BY <2>14, <3>1, <3>2, StackTypes, Names DEF TypeOK, GoExit, AfterError
    <3>4. UNCHANGED <<loadVars, exitVars, errListener, go, timer, crashed>>
      BY <2>14 DEF GoExit
    <3> QED
      BY <3>3, <3>4 DEF TypeOK
  <2>15. CASE ExitEmit
    <3>1. ~Idle /\ Top.kind \in ExitKinds
      BY <2>15, Names DEF ExitEmit
    <3>2. Event("exit", Top.n) \in Events /\ Becomes("exitDone") \in Seq(Frame)
      BY <3>1, StackTypes, Names DEF TypeOK, Event, Events
    <3>3. Append(Becomes("exitDone"), ListenerFrame("onExit")) \in Seq(Frame)
      BY <3>2, FrameTypes, Names
    <3>4. /\ events' \in Seq(Events) /\ stack' \in Seq(Frame)
          /\ exitCalled' \in BOOLEAN /\ listening' \in BOOLEAN
      <4>1. events' \in Seq(Events) /\ stack' \in Seq(Frame)
        BY <2>15, <3>2, <3>3 DEF TypeOK, ExitEmit
      <4>2. exitCalled' \in BOOLEAN /\ listening' \in BOOLEAN
        BY <2>15 DEF TypeOK, ExitEmit
      <4> QED
        BY <4>1, <4>2
    <3>5. UNCHANGED <<startVars, requested, lateExit, errListener, go, timer, calls,
                      proc, crashed>>
      BY <2>15 DEF ExitEmit
    <3> QED
      BY <3>4, <3>5 DEF TypeOK
  <2>16. CASE ExitDone
    <3>1. /\ stack' \in Seq(Frame) /\ proc' \in {"alive", "killed"}
          /\ calls' \in [Calls -> CallStates]
      BY <2>13, <2>16, StackTypes DEF TypeOK, ExitDone
    <3>2. UNCHANGED <<startVars, exitVars, userVars, go, timer, crashed>>
      BY <2>16 DEF ExitDone
    <3> QED
      BY <3>1, <3>2 DEF TypeOK
  <2>17. CASE ListenerReturns
    BY <2>17, StackTypes DEF TypeOK, ListenerReturns
  <2>18. CASE ApiOption
    <3>1. ~Idle /\ Top.kind = "api" /\ Top.n > 0
      BY <2>18 DEF ApiOption
    <3>2. [kind |-> "api", call |-> Top.call, n |-> Top.n - 1, from |-> "none"] \in Frame
      BY <3>1, StackTypes DEF TypeOK, Frame, Kinds, ExitKinds, UserKinds, Origins
    <3>3. /\ Replace(ApiFrame(Top.call, Top.n - 1)) \in Seq(Frame)
          /\ OptFrame(Top.call) \in Frame
      BY <3>1, <3>2, StackTypes, FrameTypes DEF TypeOK, ApiFrame
    <3>4. stack' \in Seq(Frame)
      BY <2>18, <3>3 DEF ApiOption
    <3> QED
      BY <2>18, <3>4 DEF TypeOK, ApiOption
  <2>19. CASE OptReturns
    BY <2>19, StackTypes DEF TypeOK, OptReturns
  <2>20. CASE OptReturnsLate
    <3>1. stack' \in Seq(Frame)
      BY <2>20 DEF TypeOK, OptReturnsLate
    <3>2. calls' \in [Calls -> CallStates]
      BY <2>20, Names DEF TypeOK, OptReturnsLate
    <3> QED
      BY <2>20, <3>1, <3>2 DEF TypeOK, OptReturnsLate
  <2>21. CASE ApiReturns
    <3>1. stack' \in Seq(Frame) /\ calls' \in [Calls -> CallStates]
      BY <2>21, StackTypes, Names DEF TypeOK, ApiReturns
    <3>2. UNCHANGED <<startVars, exitVars, userVars, go, timer, proc, crashed>>
      BY <2>21 DEF ApiReturns
    <3> QED
      BY <3>1, <3>2 DEF TypeOK
  <2>22. CASE GoTimer
    BY <2>22 DEF TypeOK, GoTimer
  <2>23. CASE TimerFires
    <3>1. timer' \in BOOLEAN /\ proc' \in {"alive", "killed"}
      BY <2>23 DEF TypeOK, TimerFires
    <3>2. UNCHANGED <<startVars, exitVars, userVars, go, calls, stack, crashed>>
      BY <2>23 DEF TimerFires
    <3> QED
      BY <3>1, <3>2 DEF TypeOK
  <2>24. CASE UserListens
    BY <2>24 DEF TypeOK, UserListens
  <2>25. ASSUME NEW c \in Calls, NEW n \in 0 .. MaxOptions, UserCall(c, n) PROVE TypeOK'
    <3>1. stack' \in Seq(Frame) /\ calls' \in [Calls -> CallStates]
      <4>1. n \in Nat
        BY LifecycleAssumption
      <4> QED
        BY <2>25, <4>1, FrameTypes, StackTypes, Names DEF TypeOK, UserCall
    <3>2. UNCHANGED <<startVars, exitVars, userVars, go, timer, proc, crashed>>
      BY <2>25 DEF UserCall
    <3> QED
      BY <3>1, <3>2 DEF TypeOK
  <2> QED
    BY <2>1, <2>2, <2>3, <2>4, <2>5, <2>6, <2>7, <2>8, <2>9, <2>10, <2>11, <2>12,
       <2>14, <2>15, <2>16, <2>17, <2>18, <2>19, <2>20, <2>21, <2>22, <2>23, <2>24, <2>25
       DEF Next, Internal
<1> QED
  BY <1>1, <1>2, PTL DEF Spec

=============================================================================
