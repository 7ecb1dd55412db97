----------------------------- MODULE RefTable ------------------------------
(***************************************************************************)
(* The table of JavaScript values that the Go program refers to            *)
(* (wasm_exec.js).  Go has no pointers into JavaScript: a value is stored   *)
(* under an id, Go keeps the id, and a finalizer of the Go runtime gives it *)
(* back some time after Go dropped it.  Ids are counted per value, freed    *)
(* and used again for other values while Go holds further references.      *)
(*                                                                         *)
(* Numbers other than 0 and undefined travel in the reference itself and   *)
(* never reach the table; slot 0, for NaN, is never counted.  Neither is    *)
(* modelled, so that slot n of the code is slot n here.                    *)
(***************************************************************************)
EXTENDS Integers, Sequences

CONSTANTS
    Values,       \* the JavaScript values that are stored in the table
    Preset,       \* the values it starts with, by id: 0, null, ..., globalThis
    Null,         \* null, also what a freed slot holds
    Plain,        \* the values Go sets no finalizer for: 0, null, true, false
    Infinity,     \* the count of a preset value
    MaxRefs       \* bound: most references of Go to one value at one time

PresetIds == DOMAIN Preset
PresetValues == {Preset[i] : i \in PresetIds}

ASSUME RefTableAssumption ==
    /\ Preset \in Seq(Values)
    /\ \A i, j \in PresetIds : Preset[i] = Preset[j] => i = j
    /\ Null \in Plain /\ Plain \subseteq PresetValues
    /\ Infinity \notin Int
    /\ MaxRefs \in Nat

VARIABLES
    values,       \* _values: the slots
    refCounts,    \* _goRefCounts
    ids,          \* _ids: from each value that has an id to the id
    idPool,       \* _idPool: the stack of freed ids
    held          \* what Go holds: <<id, value stored>> |-> how many references

vars == <<values, refCounts, ids, idPool, held>>

Refs == (Nat \ {0}) \X Values
Held == DOMAIN held
Holds(r) == IF r \in Held THEN held[r] ELSE 0

TypeOK ==
    /\ values \in Seq(Values)
    /\ DOMAIN refCounts = DOMAIN values
    /\ \A i \in DOMAIN refCounts : refCounts[i] \in Nat \cup {Infinity}
    /\ DOMAIN ids \subseteq Values
    /\ \A v \in DOMAIN ids : ids[v] \in DOMAIN values
    /\ idPool \in Seq(DOMAIN values)
    /\ Held \subseteq Refs
    /\ \A r \in Held : held[r] \in Nat \ {0}

PresetCountZero == 0

(* The preset values are never freed. *)
PresetCount == Infinity

Init ==
    /\ values = Preset
    /\ refCounts = [i \in PresetIds |-> PresetCount]
    /\ ids = [v \in PresetValues |-> CHOOSE i \in PresetIds : Preset[i] = v]
    /\ idPool = <<>>
    /\ held = [r \in {} |-> 0]

FirstCountOffByOne == 2

(* storeValue sets the count of a new id to 0 and then counts the reference. *)
FirstCount == 1

More(n) == IF n = Infinity THEN n ELSE n + 1
Less(n) == IF n = Infinity THEN n ELSE n - 1

Put(f, x, y) == [z \in DOMAIN f \cup {x} |-> IF z = x THEN y ELSE f[z]]
Without(f, x) == [z \in DOMAIN f \ {x} |-> f[z]]

GoTakes(r) == held' = Put(held, r, Holds(r) + 1)
GoDrops(r) == held' = IF held[r] = 1 THEN Without(held, r)
                                     ELSE [held EXCEPT ![r] = @ - 1]

PoolTopKept == idPool

(* pop takes the last id that was freed. *)
PoolTopGone == SubSeq(idPool, 1, Len(idPool) - 1)

StoreKnownUncounted(v) ==
    /\ v \in DOMAIN ids /\ Holds(<<ids[v], v>>) < MaxRefs
    /\ GoTakes(<<ids[v], v>>)
    /\ UNCHANGED <<refCounts, values, ids, idPool>>

(* storeValue of a value that has an id. *)
StoreKnown(v) ==
    /\ v \in DOMAIN ids /\ Holds(<<ids[v], v>>) < MaxRefs
    /\ refCounts' = [refCounts EXCEPT ![ids[v]] = More(@)]
    /\ GoTakes(<<ids[v], v>>)
    /\ UNCHANGED <<values, ids, idPool>>

(* storeValue of any other value, under a freed id or a new one. *)
StoreNew(v) ==
    /\ v \notin DOMAIN ids /\ 0 < MaxRefs
    /\ LET id == IF idPool = <<>> THEN Len(values) + 1 ELSE idPool[Len(idPool)]
       IN  /\ values' = IF idPool = <<>> THEN Append(values, v)
                                         ELSE [values EXCEPT ![id] = v]
           /\ refCounts' = Put(refCounts, id, FirstCount)
           /\ ids' = Put(ids, v, id)
           /\ GoTakes(<<id, v>>)
    /\ idPool' = IF idPool = <<>> THEN idPool ELSE PoolTopGone

IdsKept(v) == ids

IdsWithout(v) == Without(ids, v)

(* finalizeRef: the finalizer of one of Go's references. *)
Finalize(r) ==
    /\ r \in Held /\ r[2] \notin Plain
    /\ GoDrops(r)
    /\ LET id == r[1]
           n == Less(refCounts[id])
       IN  /\ refCounts' = [refCounts EXCEPT ![id] = n]
           /\ IF n = 0
              THEN /\ values' = [values EXCEPT ![id] = Null]
                   /\ ids' = IdsWithout(values[id])
                   /\ idPool' = Append(idPool, id)
              ELSE UNCHANGED <<values, ids, idPool>>

Next ==
    \/ \E v \in Values : StoreKnown(v) \/ StoreNew(v)
    \/ \E r \in Held : Finalize(r)

Spec == Init /\ [][Next]_vars

-----------------------------------------------------------------------------
(* Correctness.                                                            *)

(* loadValue gives Go back the very value each of its references was made
   for, however often ids were freed and used again in between. *)
LoadsRight ==
    \A r \in Held : r[1] \in DOMAIN values /\ values[r[1]] = r[2]

(* The Go runtime knows some values by fixed ids, globalThis among them: no
   number of finalizers frees one of those. *)
PresetStay == \A i \in PresetIds : i \in DOMAIN values /\ values[i] = Preset[i]

(* A value has one id: two references to one value are the same reference,
   which Go relies on to compare JavaScript values. *)
OneIdPerValue ==
    /\ \A r, s \in Held : r[2] = s[2] => r[1] = s[1]
    /\ \A v \in DOMAIN ids : values[ids[v]] = v

(* The pool holds exactly the freed ids, each once, and so an id that Go
   still refers to is never handed out for another value. *)
PoolIsFree ==
    /\ \A i, j \in DOMAIN idPool : idPool[i] = idPool[j] => i = j
    /\ \A i \in DOMAIN idPool : \A r \in Held : r[1] # idPool[i]
    /\ \A i \in DOMAIN values : i \notin PresetIds =>
         ((\E j \in DOMAIN idPool : idPool[j] = i) <=> values[i] = Null)

(* Nothing leaks: a value that is not preset is kept only while Go refers to
   it, and JavaScript may collect it as soon as Go does not. *)
KeptOnlyWhileHeld ==
    \A i \in DOMAIN values :
        i \in PresetIds \/ values[i] = Null \/ <<i, values[i]>> \in Held

(* The table keeps what Handles promises. *)
InTable == {ids[v] : v \in DOMAIN ids}
Contract == INSTANCE Handles WITH
    handles <- [i \in InTable |-> [value |-> values[i], refs |-> Holds(<<i, values[i]>>)]]

KeepsHandles == Contract!Spec

=============================================================================
