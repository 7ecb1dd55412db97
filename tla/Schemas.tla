------------------------------ MODULE Schemas -------------------------------
(***************************************************************************)
(* The JSON schemas that index.js exports: schemas.json, parsed again with a *)
(* reviver that replaces references by the definitions they refer to.      *)
(*                                                                         *)
(* A schema is what it says itself and the reference it has, if any.  Every *)
(* reference in schemas.json is a pointer, "#/$defs/" and a name, while the *)
(* definitions are found by their names.                                   *)
(***************************************************************************)
EXTENDS Naturals

CONSTANTS
    Defs,         \* the names in $defs
    Nodes         \* a number of schemas: properties, items and so on

VARIABLES
    refs,         \* schemas.json: the references of the schemas
    visited,      \* how many schemas JSON.parse has given to the reviver
    exported      \* those schemas: what they say, and the reference left

vars == <<refs, visited, exported>>

(* A string by its parts *)
None == <<>>
Key(name) == <<name>>
Pointer(name) == <<"#/$defs/", name>>

Init ==
    /\ refs \in [1 .. Nodes -> {Pointer(d) : d \in Defs} \union {None}]
    /\ visited = 0
    /\ exported = [n \in 1 .. Nodes |-> [says |-> {}, ref |-> refs[n]]]

(* schemas.$defs[v.$ref], assigned to v: nothing if there is no such key *)
Definition(ref) == {d \in Defs : Key(d) = ref}

Revive ==
    LET n == visited + 1 IN
    /\ n <= Nodes
    /\ visited' = n
    /\ exported' = IF exported[n].ref = None THEN exported
                   ELSE [exported EXCEPT ![n] = [says |-> @.says \union Definition(@.ref),
                                                ref |-> None]]
    /\ UNCHANGED refs

Next == Revive

Spec == Init /\ [][Next]_vars

-----------------------------------------------------------------------------
(* index.d.ts on schemas: "JSON Schemas for the types in webauthn4js."  Each
   exported schema says, itself or by its reference, all that schemas.json has
   it say; but the reference is deleted and its definition was not found. *)
DocSchemasComplete ==
    \A n \in 1 .. Nodes : \A d \in Defs :
        refs[n] = Pointer(d) => d \in exported[n].says \/ exported[n].ref = refs[n]

=============================================================================
