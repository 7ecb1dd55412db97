--------------------------- MODULE Options_proofs ---------------------------
(***************************************************************************)
(* Proofs about Options, for any number of option functions.               *)
(*                                                                         *)
(* beginRegistration applies its functions faithfully because each option   *)
(* captured its own function, and because a failure, once it is noted,     *)
(* stays noted until the check after the library has returned.             *)
(***************************************************************************)
EXTENDS Options, TLAPS

CaptureInv ==
    /\ Len(opts) = f
    /\ kind = "registration" => \A i \in 1 .. f : opts[i] = i

PhaseInv ==
    /\ answer = "pending" <=> pc # "done"
    /\ pc \in {"library", "encode"} \/ answer = "fulfilled" => f = n
    /\ pc \in {"parse", "loop"} => applied = <<>> /\ cxo = <<>> /\ ~cxoErr
    /\ pc = "library" => Len(applied) <= n
    /\ pc = "encode" \/ answer = "fulfilled" =>
         Len(applied) = n /\ (kind = "registration" => ~cxoErr)

FailureInv ==
    /\ Thrown => answer = "rejected"
    /\ Failed => cxoErr \/ Thrown
    /\ kind = "registration" /\ ~Failed => cxo = [i \in 1 .. Len(applied) |-> i]

IInv == TypeOK /\ CaptureInv /\ PhaseInv /\ FailureInv

LEMMA InitIInv == Init => IInv
<1> SUFFICES ASSUME Init PROVE IInv
  OBVIOUS
<1>1. TypeOK
  <2>1. n \in Nat /\ opts \in Seq(0 .. n) /\ cxo \in Seq(1 .. n)
    BY OptionsAssumption DEF Init
  <2>2. applied \in Seq(Applications)
    BY DEF Init
  <2>3. cxoErr \in BOOLEAN
    BY DEF Init
  <2> QED
    BY <2>1, <2>2, <2>3 DEF Init, TypeOK
<1>2. CaptureInv /\ PhaseInv
  BY DEF Init, CaptureInv, PhaseInv
<1>3. FailureInv
  BY DEF Init, FailureInv, Failed, Thrown
<1> QED
  BY <1>1, <1>2, <1>3 DEF IInv

LEMMA MakeOptionIInv == IInv /\ MakeOption => IInv'
<1> SUFFICES ASSUME IInv, MakeOption PROVE IInv'
  OBVIOUS
<1>1. /\ f \in 0 .. n /\ n \in Nat /\ opts \in Seq(0 .. n) /\ f < n /\ f' = f + 1
      /\ Capture \in 0 .. n /\ (kind = "registration" => Capture = f + 1)
      /\ opts' = Append(opts, Capture)
      /\ UNCHANGED <<kind, n, pc, cxo, cxoErr, applied, answer>>
  BY OptionsAssumption DEF IInv, TypeOK, MakeOption, Capture, TheVariable
<1>2. TypeOK'
  BY <1>1 DEF IInv, TypeOK
<1>3. CaptureInv'
  BY <1>1 DEF IInv, CaptureInv
<1>4. PhaseInv' /\ FailureInv'
  BY <1>1 DEF IInv, PhaseInv, FailureInv, Failed, Thrown, MakeOption
<1> QED
  BY <1>2, <1>3, <1>4 DEF IInv

(* The option that is applied next modifies the options in its turn. *)
LEMMA ApplyIInv == ASSUME IInv, NEW r \in Results, Apply(r) PROVE IInv'
<1> DEFINE a == [function |-> Function, result |-> r]
           k == Len(applied)
<1>1. /\ n \in 0 .. MaxOptions /\ MaxOptions \in Nat /\ n \in Nat
      /\ pc = "library" /\ answer = "pending" /\ f = n /\ k \in Nat /\ k < n
      /\ applied \in Seq(Applications) /\ cxo \in Seq(1 .. n)
  BY OptionsAssumption DEF IInv, TypeOK, PhaseInv, Apply, Count
<1>2. Function \in 1 .. n /\ (kind = "registration" => Function = k + 1)
  <2>1. k + 1 \in 1 .. Len(opts) /\ Len(opts) = n
    BY <1>1 DEF IInv, CaptureInv
  <2>2. opts[k + 1] \in 0 .. n
    BY <2>1 DEF IInv, TypeOK
  <2> QED
    BY <1>1, <2>1, <2>2 DEF IInv, CaptureInv, Function, Count, TheVariable
<1>3. a \in Applications
  BY <1>1, <1>2 DEF Applications, Functions
<1>4. /\ applied' = Append(applied, a)
      /\ applied' \in Seq(Applications) /\ Len(applied') = k + 1
      /\ DOMAIN applied' = DOMAIN applied \cup {k + 1}
      /\ \A i \in DOMAIN applied : applied'[i] = applied[i]
      /\ applied'[k + 1].result = r
  <2>1. applied' = Append(applied, a)
    BY DEF Apply
  <2> QED
    BY <1>1, <1>3, <2>1
<1>5. /\ cxoErr' = (cxoErr \/ r = "unconverted")
      /\ cxo' = IF r = "ok" THEN Append(cxo, Function) ELSE cxo
      /\ UNCHANGED <<kind, n, f, opts>>
      /\ IF r = "throws" THEN answer' = "rejected" /\ pc' = "done"
                         ELSE UNCHANGED <<pc, answer>>
  BY DEF Apply, FailedNow, Answer
<1> HIDE DEF a, k
<1>6. TypeOK'
  <2>1. cxo' \in Seq(1 .. n)
    <3>1. Append(cxo, Function) \in Seq(1 .. n)
      BY <1>1, <1>2
    <3> QED
      BY <1>1, <1>5, <3>1
  <2>2. cxoErr' \in BOOLEAN /\ pc' \in {"library", "done"} /\ answer' \in {"pending", "rejected"}
    BY <1>1, <1>5
  <2> QED
    BY <1>4, <1>5, <2>1, <2>2 DEF IInv, TypeOK
<1>7. CaptureInv'
  BY <1>5 DEF IInv, CaptureInv
<1>8. PhaseInv'
  BY <1>1, <1>4, <1>5 DEF IInv, PhaseInv
<1>9. /\ Thrown' <=> Thrown \/ r = "throws"
      /\ Failed' <=> Failed \/ r # "ok"
  BY <1>4 DEF Thrown, Failed
<1>10. FailureInv'
  <2>1. Thrown' => answer' = "rejected"
    BY <1>1, <1>5, <1>9 DEF IInv, FailureInv
  <2>2. Failed' => cxoErr' \/ Thrown'
    BY <1>5, <1>9 DEF IInv, FailureInv, Results
  <2>3. ASSUME kind' = "registration", ~Failed'
        PROVE  cxo' = [i \in 1 .. Len(applied') |-> i]
    <3>1. cxo = [i \in 1 .. k |-> i] /\ cxo' = Append(cxo, k + 1)
      BY <1>2, <1>5, <1>9, <2>3 DEF IInv, FailureInv, k
    <3>2. Append([i \in 1 .. k |-> i], k + 1) = [i \in 1 .. (k + 1) |-> i]
      BY <1>1
    <3> QED
      BY <1>4, <3>1, <3>2
  <2> QED
    BY <2>1, <2>2, <2>3 DEF FailureInv
<1> QED
  BY <1>6, <1>7, <1>8, <1>10 DEF IInv

LEMMA Inductive == Spec => []IInv
<1>1. IInv /\ [Next]_vars => IInv'
  <2> SUFFICES ASSUME IInv, [Next]_vars PROVE IInv'
    OBVIOUS
  <2> USE DEF IInv, TypeOK, CaptureInv, PhaseInv, FailureInv, Failed, Thrown, Answer
  <2>1. CASE UNCHANGED vars
    BY <2>1 DEF vars
  <2>2. CASE Parse
    BY <2>2 DEF Parse
  <2>3. CASE MakeOption
    BY <2>3, MakeOptionIInv
  <2>4. CASE LoopEnds
    BY <2>4 DEF LoopEnds, ChecksBefore
  <2>5. ASSUME NEW r \in Results, Apply(r) PROVE IInv'
    BY <2>5, ApplyIInv
  <2>6. CASE LibraryReturns
    BY <2>6 DEF LibraryReturns, ChecksAfter, Count
  <2>7. CASE LibraryFails
    BY <2>7 DEF LibraryFails
  <2>8. CASE Encode
    BY <2>8 DEF Encode
  <2> QED
    BY <2>1, <2>2, <2>3, <2>4, <2>5, <2>6, <2>7, <2>8 DEF Next
<1> QED
  BY <1>1, InitIInv, PTL DEF Spec

(* The handlers of the begin calls are always at a known step, with the options
   and errors that step can leave. *)
THEOREM Typing == Spec => []TypeOK
<1>1. IInv => TypeOK
  BY DEF IInv
<1> QED
  BY <1>1, Inductive, PTL

(* However many functions beginRegistration is given, it resolves to options
   that each of them has modified, in the order given. *)
THEOREM AllApplied == Spec => []RegistrationAppliesAll
<1>1. IInv => RegistrationAppliesAll
  <2> SUFFICES ASSUME IInv, kind = "registration", answer = "fulfilled"
               PROVE  cxo = EachInOrder
    BY DEF RegistrationAppliesAll
  <2>1. Len(applied) = n /\ ~cxoErr /\ ~Thrown
    BY DEF IInv, PhaseInv, FailureInv
  <2> QED
    BY <2>1 DEF IInv, FailureInv, EachInOrder
<1> QED
  BY <1>1, Inductive, PTL

(* Neither handler resolves after an exception, and beginRegistration not after
   any failure. *)
THEOREM NoFailureHidden == Spec => []FailureRejects
<1>1. IInv => FailureRejects
  BY DEF IInv, PhaseInv, FailureInv, FailureRejects
<1> QED
  BY <1>1, Inductive, PTL

-----------------------------------------------------------------------------
(* beginLogin: every option invokes the function that the loop ended with. *)
LastInv == kind = "login" =>
    /\ \A i \in DOMAIN opts : opts[i] = TheVariable
    /\ \A i \in DOMAIN applied : applied[i].function = n
    /\ ~Failed => cxo = [i \in 1 .. Len(applied) |-> n]

LEMMA NextLast == ASSUME IInv, LastInv, [Next]_vars PROVE LastInv'
<1>1. CASE UNCHANGED <<kind, n, opts, cxo, applied>>
  BY <1>1 DEF LastInv, Failed
<1>2. CASE MakeOption
  <2>1. /\ opts \in Seq(0 .. n) /\ opts' = Append(opts, Capture)
        /\ UNCHANGED <<kind, n, cxo, applied>>
    BY <1>2 DEF MakeOption, IInv, TypeOK
  <2>2. kind = "login" => Capture = TheVariable
    BY DEF Capture
  <2>3. kind = "login" => \A i \in DOMAIN opts' : opts'[i] = TheVariable
    BY <2>1, <2>2 DEF LastInv
  <2> QED
    BY <2>1, <2>3 DEF LastInv, Failed
<1>3. ASSUME NEW r \in Results, Apply(r), kind = "login" PROVE LastInv'
  <2>1. PICK k : k = Len(applied)
    OBVIOUS
  <2>2. PICK a : a = [function |-> Function, result |-> r]
    OBVIOUS
  <2>3. /\ n \in Nat /\ k \in Nat /\ k < n /\ Len(opts) = f /\ f = n
        /\ opts \in Seq(0 .. n) /\ applied \in Seq(Applications)
    BY <1>3, <2>1, OptionsAssumption DEF Apply, Count, IInv, TypeOK, CaptureInv, PhaseInv
  <2>4. Function = n
    <3>1. k + 1 \in DOMAIN opts
      BY <2>3
    <3> QED
      BY <1>3, <2>1, <2>3, <3>1 DEF LastInv, Function, Count
  <2>5. a.function = n /\ a.result = r
    BY <2>2, <2>4
  <2>6. applied' = Append(applied, a) /\ UNCHANGED <<kind, n, opts>>
    BY <1>3, <2>2 DEF Apply
  <2>7. /\ Len(applied') = k + 1 /\ DOMAIN applied = 1 .. k /\ DOMAIN applied' = 1 .. (k + 1)
        /\ \A i \in 1 .. k : applied'[i] = applied[i]
        /\ applied'[k + 1] = a
    BY <2>1, <2>3, <2>6
  <2>8. 1 .. (k + 1) = (1 .. k) \cup {k + 1}
    BY <2>3
  <2>9. \A i \in DOMAIN applied' : applied'[i].function = n
    BY <1>3, <2>5, <2>7, <2>8 DEF LastInv
  <2>10. ASSUME ~Failed' PROVE cxo' = [i \in 1 .. (k + 1) |-> n]
    <3>1. ~Failed /\ r = "ok"
      BY <2>5, <2>7, <2>8, <2>10 DEF Failed
    <3>2. cxo = [i \in 1 .. k |-> n] /\ cxo' = Append(cxo, n)
      BY <1>3, <2>1, <2>4, <3>1 DEF LastInv, Apply
    <3>3. Append([i \in 1 .. k |-> n], n) = [i \in 1 .. (k + 1) |-> n]
      BY <2>3
    <3> QED
      BY <3>2, <3>3
  <2> QED
    BY <1>3, <2>6, <2>7, <2>9, <2>10 DEF LastInv
<1>4. ASSUME NEW r \in Results, Apply(r), kind # "login" PROVE LastInv'
  BY <1>4 DEF Apply, LastInv
<1> QED
  BY <1>1, <1>2, <1>3, <1>4 DEF Next, vars, Parse, LoopEnds, LibraryReturns, LibraryFails, Encode

LastAppliesAll ==
    kind = "login" /\ answer = "fulfilled" =>
        /\ Len(applied) = n /\ \A i \in 1 .. n : applied[i].function = n
        /\ ~Failed => cxo = [i \in 1 .. n |-> n]

(* What beginLogin does instead of what index.d.ts says: given n functions, it
   invokes the last of them n times. *)
THEOREM LastApplied == Spec => []LastAppliesAll
<1>1. Init => LastInv
  BY DEF Init, LastInv, Failed
<1>2. IInv /\ LastInv /\ [Next]_vars => LastInv'
  BY NextLast
<1>3. IInv /\ LastInv => LastAppliesAll
  <2> SUFFICES ASSUME IInv, LastInv, kind = "login", answer = "fulfilled"
               PROVE  /\ Len(applied) = n /\ \A i \in 1 .. n : applied[i].function = n
                      /\ ~Failed => cxo = [i \in 1 .. n |-> n]
    BY DEF LastAppliesAll
  <2>1. Len(applied) = n /\ applied \in Seq(Applications)
    BY DEF IInv, PhaseInv, TypeOK
  <2>2. DOMAIN applied = 1 .. n
    BY <2>1
  <2> QED
    BY <2>1, <2>2 DEF LastInv
<1> QED
  BY <1>1, <1>2, <1>3, Inductive, PTL DEF Spec

(* So index.d.ts is right about beginLogin for one function, or none. *)
THEOREM OneApplied == Spec => [](n <= 1 => DocLoginAppliesAll)
<1>1. ASSUME TypeOK, LastAppliesAll, n <= 1 PROVE DocLoginAppliesAll
  <2> SUFFICES ASSUME kind = "login", answer = "fulfilled", ~Failed PROVE cxo = EachInOrder
    BY DEF DocLoginAppliesAll
  <2>1. n \in Nat /\ cxo = [i \in 1 .. n |-> n]
    BY <1>1, OptionsAssumption DEF TypeOK, LastAppliesAll
  <2>2. \A i \in 1 .. n : i = n
    BY <1>1, <2>1
  <2> QED
    BY <2>1, <2>2 DEF EachInOrder
<1>2. TypeOK /\ LastAppliesAll => (n <= 1 => DocLoginAppliesAll)
  BY <1>1
<1> QED
  BY <1>2, Typing, LastApplied, PTL

-----------------------------------------------------------------------------
(* How many steps a call has left at most. *)
StepsLeft ==
    CASE pc = "parse"   -> 2 * n + 4
      [] pc = "loop"    -> 2 * n + 3 - f
      [] pc = "library" -> n + 2 - Len(applied)
      [] pc = "encode"  -> 1
      [] pc = "done"    -> 0

(* No handler loops: each step brings a begin call nearer to its answer, in
   2 * n + 4 steps at most, whatever its functions do. *)
THEOREM HandlerEnds == Spec => [][StepsLeft' \in Nat /\ StepsLeft' < StepsLeft]_vars
<1>1. ASSUME IInv, Next PROVE StepsLeft' \in Nat /\ StepsLeft' < StepsLeft
  <2>1. /\ n \in Nat /\ f \in Nat /\ f <= n /\ applied \in Seq(Applications)
        /\ Len(applied) \in Nat /\ (pc = "library" => Len(applied) <= n)
        /\ (pc \in {"parse", "loop"} => Len(applied) = 0)
    BY <1>1, OptionsAssumption DEF IInv, TypeOK, PhaseInv
  <2>2. CASE Parse
    BY <2>1, <2>2 DEF Parse, Answer, StepsLeft
  <2>3. CASE MakeOption
    BY <2>1, <2>3 DEF MakeOption, StepsLeft
  <2>4. CASE LoopEnds
    BY <2>1, <2>4 DEF LoopEnds, Answer, StepsLeft
  <2>5. ASSUME NEW r \in Results, Apply(r) PROVE StepsLeft' \in Nat /\ StepsLeft' < StepsLeft
    <3>1. PICK a : applied' = Append(applied, a)
      BY <2>5 DEF Apply
    <3>2. Len(applied') = Len(applied) + 1
      BY <2>1, <3>1
    <3>3. pc = "library" /\ Len(applied) < n /\ n' = n /\ pc' \in {"library", "done"}
      BY <2>5 DEF Apply, Count, Answer
    <3> QED
      BY <2>1, <3>2, <3>3 DEF StepsLeft
  <2>6. CASE LibraryReturns
    BY <2>1, <2>6 DEF LibraryReturns, Answer, StepsLeft
  <2>7. CASE LibraryFails
    BY <2>1, <2>7 DEF LibraryFails, Answer, StepsLeft
  <2>8. CASE Encode
    BY <2>1, <2>8 DEF Encode, Answer, StepsLeft
  <2> QED
    BY <1>1, <2>2, <2>3, <2>4, <2>5, <2>6, <2>7, <2>8 DEF Next
<1>2. IInv /\ [Next]_vars => [StepsLeft' \in Nat /\ StepsLeft' < StepsLeft]_vars
  BY <1>1
<1> QED
  BY <1>2, Inductive, PTL DEF Spec

=============================================================================
