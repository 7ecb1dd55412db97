------------------------------ MODULE Handles -------------------------------
(***************************************************************************)
(* What the Go program may rely on when it refers to JavaScript values,    *)
(* without saying how ids are chosen, counted or used again: a handle       *)
(* refers to one value from the first reference to the last, a value has   *)
(* one handle, and a handle that Go has dropped altogether is gone.        *)
(***************************************************************************)
EXTENDS Naturals, Sequences

CONSTANTS Values, Preset   \* Preset: the values known by fixed handles

VARIABLE handles   \* by handle: the value, and how many references Go holds

Handle(v, n) == [value |-> v, refs |-> n]

Init == handles = [h \in DOMAIN Preset |-> Handle(Preset[h], 0)]

(* A further reference, to a value that has a handle. *)
Again(h) == handles' = [handles EXCEPT ![h].refs = @ + 1]

(* The first reference to a value: any handle not in use. *)
First(v) ==
    /\ \A h \in DOMAIN handles : handles[h].value # v
    /\ \E h \in DOMAIN handles' \ DOMAIN handles :
         handles' = [i \in DOMAIN handles \union {h} |->
                       IF i = h THEN Handle(v, 1) ELSE handles[i]]

(* With the last reference goes the handle, unless it is a preset one. *)
Drop(h) ==
    /\ handles[h].refs > 0
    /\ handles' = IF handles[h].refs = 1 /\ h \notin DOMAIN Preset
                  THEN [i \in DOMAIN handles \ {h} |-> handles[i]]
                  ELSE [handles EXCEPT ![h].refs = @ - 1]

Next ==
    \/ \E h \in DOMAIN handles : Again(h) \/ Drop(h)
    \/ \E v \in Values : First(v)

Spec == Init /\ [][Next]_handles

=============================================================================
