------------------------------ MODULE Registry ------------------------------
(***************************************************************************)
(* What the example server promises about the credentials of its users,    *)
(* without requests, sessions or time: a credential is registered in one   *)
(* place, its user keeps it until the server restarts, and nobody else     *)
(* logs in with it.                                                        *)
(***************************************************************************)
EXTENDS Naturals

CONSTANTS Names, Challenges   \* a credential is named by its challenge

VARIABLES
    places,   \* where each credential is: user and position
    logins    \* the users that logged in, and with which credential

vars == <<places, logins>>

Nowhere == [c \in Challenges |-> {}]

Init == places = Nowhere /\ logins = {}

(* A new credential is the last one of its user. *)
Add(c, u, i) ==
    /\ places[c] = {}
    /\ \A d \in Challenges : <<u, i>> \notin places[d]
    /\ places' = [places EXCEPT ![c] = {<<u, i>>}]
    /\ UNCHANGED logins

Login(c, u, i) ==
    /\ places[c] = {<<u, i>>}
    /\ logins' = logins \union {<<u, c>>}
    /\ UNCHANGED places

(* Everything is in memory. *)
Forget == places' = Nowhere /\ logins' = {}

Next ==
    \/ Forget
    \/ \E c \in Challenges, u \in Names, i \in Challenges :
         Add(c, u, i) \/ Login(c, u, i)

Spec == Init /\ [][Next]_vars

=============================================================================
