----------------------------- MODULE CallOrder ------------------------------
(***************************************************************************)
(* What JavaScript may rely on when it calls functions of Go, some of them *)
(* while others wait, without saying how events, stacks and memory carry   *)
(* the answers: each call is answered once, with the answer to itself, and *)
(* calls that wait for one another are answered in the reverse order.      *)
(***************************************************************************)
EXTENDS Naturals, Sequences

VARIABLES
    waiting,   \* the calls that wait for an answer
    answers    \* by call, in the order of the calls: its answer

vars == <<waiting, answers>>

(* The answer to call c is shown as c. *)
Unanswered == 0

Init == waiting = {} /\ answers = <<>>

Call ==
    /\ answers' = Append(answers, Unanswered)
    /\ waiting' = waiting \union {Len(answers) + 1}

Answer(c) ==
    /\ \A d \in waiting : d <= c
    /\ answers' = [answers EXCEPT ![c] = c]
    /\ waiting' = waiting \ {c}

Next == Call \/ \E c \in waiting : Answer(c)

Spec == Init /\ [][Next]_vars

=============================================================================
