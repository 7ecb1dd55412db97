-------------------------- MODULE InstanceContract --------------------------
(***************************************************************************)
(* What a WebAuthn4JS instance promises its application, without saying    *)
(* how: makeWebAuthn settles once, calls are answered until the instance   *)
(* is closed and refused after, and closing is announced by at most one    *)
(* 'error' and one 'exit' event, in that order, with the same code.        *)
(***************************************************************************)
EXTENDS Naturals, Sequences

CONSTANTS Calls, ErrorCodes   \* ErrorCodes: every exit code but 0

VARIABLES promise, events, calls

vars == <<promise, events, calls>>

Event(name, n) == [name |-> name, code |-> n]

Open == promise = "resolved" /\ events = <<>>

Init ==
    /\ promise = "pending" /\ events = <<>>
    /\ calls = [c \in Calls |-> "unused"]

(* makeWebAuthn resolves or rejects. *)
Settle ==
    /\ promise = "pending" /\ events = <<>>
    /\ promise' \in {"resolved", "rejected"}
    /\ UNCHANGED <<events, calls>>

Begin(c) ==
    /\ Open /\ calls[c] = "unused"
    /\ calls' = [calls EXCEPT ![c] = "pending"]
    /\ UNCHANGED <<promise, events>>

(* Only an open instance answers. *)
Fulfil(c) ==
    /\ Open /\ calls[c] = "pending"
    /\ calls' = [calls EXCEPT ![c] = "fulfilled"]
    /\ UNCHANGED <<promise, events>>

(* A call fails, or comes too late. *)
Reject(c) ==
    /\ promise = "resolved" /\ calls[c] \in {"unused", "pending"}
    /\ calls' = [calls EXCEPT ![c] = "rejected"]
    /\ UNCHANGED <<promise, events>>

Error(n) ==
    /\ Open
    /\ events' = <<Event("error", n)>>
    /\ UNCHANGED <<promise, calls>>

(* A clean exit has no 'error' event; an unclean one has, if there was anyone
   to hear it. *)
Exit ==
    /\ \/ Open /\ events' = <<Event("exit", 0)>>
       \/ \E n \in ErrorCodes :
            \/ events = <<Event("error", n)>>
               /\ events' = <<Event("error", n), Event("exit", n)>>
            \/ promise = "rejected" /\ events = <<>>
               /\ events' = <<Event("exit", n)>>
    /\ UNCHANGED <<promise, calls>>

Next ==
    \/ Settle \/ Exit
    \/ \E n \in ErrorCodes : Error(n)
    \/ \E c \in Calls : Begin(c) \/ Fulfil(c) \/ Reject(c)

Spec == Init /\ [][Next]_vars

=============================================================================
