------------------------------ MODULE Options ------------------------------
(***************************************************************************)
(* One call of beginRegistration or beginLogin with option functions       *)
(* (webauthn4js.go): the handler wraps each function of the application in  *)
(* an option of the Go library, the library applies the options, and the   *)
(* handler answers with the options for the browser or with an error.      *)
(*                                                                         *)
(* The options for the browser are modelled by which functions have        *)
(* modified them, in order.  A handler is not entered before initialize     *)
(* has set webAuthn, so its nil check is left out.                          *)
(***************************************************************************)
EXTENDS Naturals, Sequences

CONSTANTS
    Kinds,        \* which of the two handlers: "registration", "login"
    MaxOptions    \* most option functions passed to the call

ASSUME OptionsAssumption ==
    /\ Kinds \subseteq {"registration", "login"}
    /\ MaxOptions \in Nat

VARIABLES
    kind,         \* the handler that was called
    n,            \* how many functions it was given
    pc,           \* where the handler is
    f,            \* the loop variable: the function it stands at, 0 before
    opts,         \* regOpts, loginOpts: what each option captured
    cxo,          \* the options: which functions modified them
    cxoErr,       \* ccoErr, croErr is set
    applied,      \* history: the options applied and what they came to
    answer        \* the promise of the call

vars == <<kind, n, pc, f, opts, cxo, cxoErr, applied, answer>>

(* An option captures a function, or the variable of the loop. *)
TheVariable == 0
Functions == 1 .. MaxOptions

(* What applying one comes to: new options, a failed conversion of the options
   or of what the function returned, or an exception of the function. *)
Results == {"ok", "unconverted", "throws"}
Applications == [function : Functions, result : Results]

TypeOK ==
    /\ kind \in Kinds
    /\ n \in 0 .. MaxOptions
    /\ pc \in {"parse", "loop", "library", "encode", "done"}
    /\ f \in 0 .. n
    /\ opts \in Seq(0 .. n)
    /\ cxo \in Seq(1 .. n)
    /\ cxoErr \in BOOLEAN
    /\ applied \in Seq(Applications)
    /\ answer \in {"pending", "fulfilled", "rejected"}

Init ==
    /\ kind \in Kinds /\ n \in 0 .. MaxOptions
    /\ pc = "parse" /\ f = 0 /\ opts = <<>>
    /\ cxo = <<>> /\ cxoErr = FALSE /\ applied = <<>>
    /\ answer = "pending"

-----------------------------------------------------------------------------
(* cberr and cbok; recovery makes a cberr of a panic. *)
Answer(outcome) == answer' = outcome /\ pc' = "done"

(* The user is decoded. *)
Parse ==
    /\ pc = "parse"
    /\ \/ pc' = "loop" /\ UNCHANGED answer
       \/ Answer("rejected")
    /\ UNCHANGED <<kind, n, f, opts, cxo, cxoErr, applied>>

CaptureTheVariable == TheVariable

(* fCopy := f in beginRegistration.  beginLogin's options refer to the
   variable itself, which all iterations share (go 1.21). *)
Capture == IF kind = "registration" THEN f' ELSE TheVariable

MakeOptionOnceMore ==
    /\ pc = "loop" /\ f <= n
    /\ f' = f + 1
    /\ opts' = Append(opts, Capture)
    /\ UNCHANGED <<kind, n, pc, cxo, cxoErr, applied, answer>>

(* The loop over the functions. *)
MakeOption ==
    /\ pc = "loop" /\ f < n
    /\ f' = f + 1
    /\ opts' = Append(opts, Capture)
    /\ UNCHANGED <<kind, n, pc, cxo, cxoErr, applied, answer>>

(* beginLogin looks at croErr before it calls the library, beginRegistration
   looks at ccoErr after. *)
ChecksBefore == kind = "login"
ChecksAfter == kind = "registration"

LoopEnds ==
    /\ pc = "loop" /\ f = n
    /\ IF ChecksBefore /\ cxoErr THEN Answer("rejected")
                                 ELSE pc' = "library" /\ UNCHANGED answer
    /\ UNCHANGED <<kind, n, f, opts, cxo, cxoErr, applied>>

(* The library applies the next option. *)
Count == Len(applied)
Function == IF opts[Count + 1] = TheVariable THEN f ELSE opts[Count + 1]

FailedLast(r) == r = "unconverted"

(* Failures are sticky: a later function does not undo one. *)
FailedNow(r) == cxoErr \/ r = "unconverted"

Apply(r) ==
    /\ pc = "library" /\ Count < n
    /\ applied' = Append(applied, [function |-> Function, result |-> r])
    /\ cxo' = IF r = "ok" THEN Append(cxo, Function) ELSE cxo
    /\ cxoErr' = FailedNow(r)
    /\ IF r = "throws" THEN Answer("rejected") ELSE UNCHANGED <<pc, answer>>
    /\ UNCHANGED <<kind, n, f, opts>>

(* BeginRegistration or BeginLogin returns. *)
LibraryReturns ==
    /\ pc = "library" /\ Count = n
    /\ IF ChecksAfter /\ cxoErr THEN Answer("rejected")
                                ELSE pc' = "encode" /\ UNCHANGED answer
    /\ UNCHANGED <<kind, n, f, opts, cxo, cxoErr, applied>>

(* It returns an error, before it applies any option (a user without
   credentials) or after them all. *)
LibraryFails ==
    /\ pc = "library" /\ Count \in {0, n}
    /\ Answer("rejected")
    /\ UNCHANGED <<kind, n, f, opts, cxo, cxoErr, applied>>

(* Options and session data are encoded and handed over. *)
Encode ==
    /\ pc = "encode"
    /\ Answer("fulfilled") \/ Answer("rejected")
    /\ UNCHANGED <<kind, n, f, opts, cxo, cxoErr, applied>>

Next ==
    \/ Parse \/ MakeOption \/ LoopEnds
    \/ \E r \in Results : Apply(r)
    \/ LibraryReturns \/ LibraryFails \/ Encode

Spec == Init /\ [][Next]_vars

-----------------------------------------------------------------------------
(* Correctness.                                                            *)

Failed == \E i \in DOMAIN applied : applied[i].result # "ok"
Thrown == \E i \in DOMAIN applied : applied[i].result = "throws"

EachInOrder == [i \in 1 .. n |-> i]

(* What beginRegistration resolves to was modified by every function it was
   given, each once and in the order given. *)
RegistrationAppliesAll ==
    kind = "registration" /\ answer = "fulfilled" => cxo = EachInOrder

(* beginRegistration does not resolve if one of its functions failed, however
   many succeeded after it; neither call resolves after an exception. *)
FailureRejects ==
    (kind = "registration" /\ Failed) \/ Thrown => answer # "fulfilled"

-----------------------------------------------------------------------------
(* What the documentation says and the code does not do.                   *)

(* index.d.ts on beginLogin: "A list of functions which can modify the options
   that will be sent to the browser".  Every option invokes the last function. *)
DocLoginAppliesAll ==
    kind = "login" /\ answer = "fulfilled" /\ ~Failed => cxo = EachInOrder

(* webauthn4js.go on beginLogin: "if croErr != nil { return cberr(cb, croErr) }",
   which comes before anything that can set croErr. *)
DocLoginFailureRejects ==
    kind = "login" /\ Failed => answer # "fulfilled"

=============================================================================
