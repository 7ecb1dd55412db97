-------------------------- MODULE RefTable_proofs --------------------------
(***************************************************************************)
(* Proofs about RefTable, for every set of values and every preset table.  *)
(*                                                                         *)
(* That references load the right value needs to know that the count of a  *)
(* slot is the number of references Go holds to its present value, that    *)
(* the ids are the inverse of the slots in use, and that the pool holds    *)
(* the other slots.                                                        *)
(***************************************************************************)
EXTENDS RefTable, TLAPS

InUse(i) == i \in PresetIds \/ values[i] # Null

CountInv ==
    \A i \in DOMAIN values :
        refCounts[i] = IF i \in PresetIds THEN Infinity ELSE Holds(<<i, values[i]>>)

HeldInv == \A r \in Held : InUse(r[1])

IdsInv ==
    /\ \A v \in DOMAIN ids :
         ids[v] \in DOMAIN values /\ values[ids[v]] = v /\ InUse(ids[v])
    /\ \A i \in DOMAIN values : InUse(i) => values[i] \in DOMAIN ids /\ ids[values[i]] = i

PoolInv ==
    /\ \A i, j \in DOMAIN idPool : idPool[i] = idPool[j] => i = j
    /\ \A i \in DOMAIN values : (\E j \in DOMAIN idPool : idPool[j] = i) <=> ~InUse(i)

IInv ==
    /\ TypeOK /\ LoadsRight /\ PresetStay /\ KeptOnlyWhileHeld
    /\ CountInv /\ HeldInv /\ IdsInv /\ PoolInv

-----------------------------------------------------------------------------
(* How many references Go holds after taking and after dropping one. *)

LEMMA TakeFacts ==
    ASSUME TypeOK, NEW r \in Refs, GoTakes(r)
    PROVE  /\ Held' = Held \cup {r}
           /\ \A s \in Held' : held'[s] \in Nat \ {0}
           /\ \A s : s # r => Holds(s)' = Holds(s)
           /\ Holds(r)' = Holds(r) + 1 /\ Holds(r) \in Nat
  BY DEF TypeOK, GoTakes, Put, Held, Holds

LEMMA DropFacts ==
    ASSUME TypeOK, NEW r \in Held, GoDrops(r)
    PROVE  /\ Held' = IF held[r] = 1 THEN Held \ {r} ELSE Held
           /\ \A s \in Held' : held'[s] \in Nat \ {0}
           /\ \A s : s # r => Holds(s)' = Holds(s)
           /\ Holds(r)' = Holds(r) - 1 /\ Holds(r) = held[r]
  BY DEF TypeOK, GoDrops, Without, Held, Holds

LEMMA InitIInv == Init => IInv
<1> SUFFICES ASSUME Init PROVE IInv
  OBVIOUS
<1> USE RefTableAssumption
<1>1. \A i \in PresetIds : Preset[i] \in PresetValues /\ ids[Preset[i]] = i
  BY DEF Init, PresetValues, PresetIds
<1>2. \A v \in DOMAIN ids : ids[v] \in PresetIds /\ Preset[ids[v]] = v
  BY <1>1 DEF Init, PresetValues
<1>3. PresetValues \subseteq Values /\ Held = {}
  BY DEF Init, PresetValues, PresetIds, Held
<1>4. TypeOK
  BY <1>2, <1>3 DEF Init, TypeOK, PresetIds, PresetCount, Held
<1>5. LoadsRight /\ HeldInv
  BY <1>3 DEF LoadsRight, HeldInv
<1>6. PresetStay /\ KeptOnlyWhileHeld /\ CountInv
  BY DEF Init, PresetStay, KeptOnlyWhileHeld, CountInv, PresetIds, PresetCount
<1>7. IdsInv
  BY <1>1, <1>2 DEF Init, IdsInv, InUse, PresetIds
<1>8. PoolInv
  BY DEF Init, PoolInv, InUse, PresetIds
<1> QED
  BY <1>4, <1>5, <1>6, <1>7, <1>8 DEF IInv

(* One more reference to a value that has an id. *)
LEMMA StoreKnownIInv == ASSUME IInv, NEW v \in Values, StoreKnown(v) PROVE IInv'
<1>0. PICK id \in DOMAIN values : id = ids[v] /\ values[id] = v /\ InUse(id)
  BY DEF IInv, IdsInv, StoreKnown
<1>1. PICK r \in Refs : r = <<id, v>>
  <2>1. id \in Nat \ {0}
    BY <1>0 DEF IInv, TypeOK
  <2> QED
    BY <2>1 DEF Refs
<1>2. /\ Held' = Held \cup {r}
      /\ \A s \in Held' : held'[s] \in Nat \ {0}
      /\ \A s : s # r => Holds(s)' = Holds(s)
      /\ Holds(r)' = Holds(r) + 1 /\ Holds(r) \in Nat
  <2>1. TypeOK /\ GoTakes(r)
    BY <1>0, <1>1 DEF IInv, StoreKnown
  <2> QED
    BY <2>1, TakeFacts
<1>3. /\ values' = values /\ ids' = ids /\ idPool' = idPool
      /\ DOMAIN refCounts' = DOMAIN values
      /\ \A i \in DOMAIN values : i # id => refCounts'[i] = refCounts[i]
      /\ refCounts'[id] = More(refCounts[id])
  BY <1>0 DEF IInv, TypeOK, StoreKnown
<1>4. refCounts'[id] = IF id \in PresetIds THEN Infinity ELSE Holds(r)'
  BY <1>0, <1>1, <1>2, <1>3, RefTableAssumption DEF IInv, CountInv, More
<1>5. TypeOK'
  <2>1. \A i \in DOMAIN values : refCounts'[i] \in Nat \cup {Infinity}
    BY <1>2, <1>3, <1>4 DEF IInv, TypeOK
  <2> QED
    BY <1>2, <1>3, <2>1 DEF IInv, TypeOK
<1>6. LoadsRight' /\ HeldInv' /\ PresetStay' /\ KeptOnlyWhileHeld'
  BY <1>0, <1>1, <1>2, <1>3 DEF IInv, LoadsRight, HeldInv, PresetStay, KeptOnlyWhileHeld, InUse
<1>7. CountInv'
  <2> SUFFICES ASSUME NEW i \in DOMAIN values
               PROVE  refCounts'[i] = IF i \in PresetIds THEN Infinity
                                                          ELSE Holds(<<i, values[i]>>)'
    BY <1>3 DEF CountInv
  <2>1. CASE i = id
    BY <1>0, <1>1, <1>3, <1>4, <2>1
  <2>2. CASE i # id
    BY <1>1, <1>2, <1>3, <2>2 DEF IInv, CountInv
  <2> QED
    BY <2>1, <2>2
<1>8. IdsInv' /\ PoolInv'
  BY <1>3 DEF IInv, IdsInv, PoolInv, InUse
<1> QED
  BY <1>5, <1>6, <1>7, <1>8 DEF IInv

(* What storing a new value does, whether its id was freed or is new. *)
LEMMA StoreNewFacts ==
    ASSUME IInv, NEW v \in Values, StoreNew(v)
    PROVE  /\ v # Null
           /\ \E id \in Nat \ {0} :
                /\ id \notin PresetIds
                /\ id \in DOMAIN values => ~InUse(id)
                /\ \A s \in Held : s[1] # id
                /\ GoTakes(<<id, v>>)
                /\ values' \in Seq(Values)
                /\ DOMAIN values' = DOMAIN values \cup {id} /\ values'[id] = v
                /\ \A i \in DOMAIN values : i # id => values'[i] = values[i]
                /\ DOMAIN refCounts' = DOMAIN refCounts \cup {id}
                /\ refCounts'[id] = 1
                /\ \A i \in DOMAIN refCounts : i # id => refCounts'[i] = refCounts[i]
                /\ DOMAIN ids' = DOMAIN ids \cup {v} /\ ids'[v] = id
                /\ \A w \in DOMAIN ids : w # v => ids'[w] = ids[w]
                /\ idPool' \in Seq(DOMAIN values)
                /\ \A i, j \in DOMAIN idPool' : idPool'[i] = idPool'[j] => i = j
                /\ \A i : (\E j \in DOMAIN idPool' : idPool'[j] = i)
                           <=> i # id /\ \E j \in DOMAIN idPool : idPool[j] = i
<1>1. v # Null
  <2>1. \A i \in PresetIds : i \in DOMAIN values /\ InUse(i) /\ values[i] = Preset[i]
    BY DEF IInv, PresetStay, InUse
  <2>2. Null \in DOMAIN ids
    BY <2>1, RefTableAssumption DEF IInv, IdsInv, PresetValues
  <2> QED
    BY <2>2 DEF StoreNew
<1>2. CASE idPool = <<>>
  <2>1. PICK id \in Nat \ {0} : id = Len(values) + 1 /\ id \notin DOMAIN values
    BY DEF IInv, TypeOK
  <2>2. /\ id \notin PresetIds
        /\ \A s \in Held : s[1] # id
    BY <2>1 DEF IInv, PresetStay, LoadsRight
  <2>3. /\ GoTakes(<<id, v>>)
        /\ values' = Append(values, v) /\ refCounts' = Put(refCounts, id, 1)
        /\ ids' = Put(ids, v, id) /\ idPool' = idPool
    BY <1>2, <2>1 DEF StoreNew, FirstCount
  <2>4. /\ values' \in Seq(Values)
        /\ DOMAIN values' = DOMAIN values \cup {id} /\ values'[id] = v
        /\ \A i \in DOMAIN values : i # id => values'[i] = values[i]
    BY <2>1, <2>3 DEF IInv, TypeOK
  <2>5. /\ DOMAIN refCounts' = DOMAIN refCounts \cup {id}
        /\ refCounts'[id] = 1
        /\ \A i \in DOMAIN refCounts : i # id => refCounts'[i] = refCounts[i]
        /\ DOMAIN ids' = DOMAIN ids \cup {v} /\ ids'[v] = id
        /\ \A w \in DOMAIN ids : w # v => ids'[w] = ids[w]
    BY <2>3 DEF Put
  <2>6. /\ idPool' \in Seq(DOMAIN values)
        /\ \A i, j \in DOMAIN idPool' : idPool'[i] = idPool'[j] => i = j
        /\ \A i : (\E j \in DOMAIN idPool' : idPool'[j] = i)
                   <=> i # id /\ \E j \in DOMAIN idPool : idPool[j] = i
    BY <1>2, <2>3
  <2> QED
    BY <1>1, <2>1, <2>2, <2>3, <2>4, <2>5, <2>6
<1>3. CASE idPool # <<>>
  <2>0. Len(idPool) \in DOMAIN idPool /\ Len(idPool) \in Nat \ {0}
    BY <1>3 DEF IInv, TypeOK
  <2>1. PICK id \in DOMAIN values : id = idPool[Len(idPool)] /\ id \in Nat \ {0}
    BY <2>0 DEF IInv, TypeOK
  <2>2. ~InUse(id)
    BY <2>0, <2>1 DEF IInv, PoolInv
  <2>3. /\ id \notin PresetIds
        /\ \A s \in Held : s[1] # id
    BY <2>2 DEF IInv, HeldInv, InUse
  <2>4. /\ GoTakes(<<id, v>>)
        /\ values' = [values EXCEPT ![id] = v] /\ refCounts' = Put(refCounts, id, 1)
        /\ ids' = Put(ids, v, id) /\ idPool' = PoolTopGone
    BY <1>3, <2>1 DEF StoreNew, FirstCount
  <2>5. /\ values' \in Seq(Values)
        /\ DOMAIN values' = DOMAIN values \cup {id} /\ values'[id] = v
        /\ \A i \in DOMAIN values : i # id => values'[i] = values[i]
    <3>1. values \in Seq(Values)
      BY DEF IInv, TypeOK
    <3>2. [values EXCEPT ![id] = v] \in Seq(Values)
      BY <2>1, <3>1
    <3> QED
      BY <2>1, <2>4, <3>1, <3>2
  <2>6. /\ DOMAIN refCounts' = DOMAIN refCounts \cup {id}
        /\ refCounts'[id] = 1
        /\ \A i \in DOMAIN refCounts : i # id => refCounts'[i] = refCounts[i]
        /\ DOMAIN ids' = DOMAIN ids \cup {v} /\ ids'[v] = id
        /\ \A w \in DOMAIN ids : w # v => ids'[w] = ids[w]
    BY <2>4 DEF Put
  <2>7. /\ idPool' \in Seq(DOMAIN values)
        /\ DOMAIN idPool' = DOMAIN idPool \ {Len(idPool)}
        /\ \A j \in DOMAIN idPool' : idPool'[j] = idPool[j]
    BY <2>0, <2>4 DEF IInv, TypeOK, PoolTopGone
  <2>8. /\ \A i, j \in DOMAIN idPool' : idPool'[i] = idPool'[j] => i = j
        /\ \A i : (\E j \in DOMAIN idPool' : idPool'[j] = i)
                   <=> i # id /\ \E j \in DOMAIN idPool : idPool[j] = i
    BY <2>0, <2>1, <2>7 DEF IInv, PoolInv
  <2> QED
    BY <1>1, <2>1, <2>2, <2>3, <2>4, <2>5, <2>6, <2>7, <2>8
<1> QED
  BY <1>2, <1>3

LEMMA StoreNewIInv == ASSUME IInv, NEW v \in Values, StoreNew(v) PROVE IInv'
<1>1. v # Null
  BY StoreNewFacts
<1>2. PICK id \in Nat \ {0} :
        /\ id \notin PresetIds
        /\ id \in DOMAIN values => ~InUse(id)
        /\ \A s \in Held : s[1] # id
        /\ GoTakes(<<id, v>>)
        /\ values' \in Seq(Values)
        /\ DOMAIN values' = DOMAIN values \cup {id} /\ values'[id] = v
        /\ \A i \in DOMAIN values : i # id => values'[i] = values[i]
        /\ DOMAIN refCounts' = DOMAIN refCounts \cup {id}
        /\ refCounts'[id] = 1
        /\ \A i \in DOMAIN refCounts : i # id => refCounts'[i] = refCounts[i]
        /\ DOMAIN ids' = DOMAIN ids \cup {v} /\ ids'[v] = id
        /\ \A w \in DOMAIN ids : w # v => ids'[w] = ids[w]
        /\ idPool' \in Seq(DOMAIN values)
        /\ \A i, j \in DOMAIN idPool' : idPool'[i] = idPool'[j] => i = j
        /\ \A i : (\E j \in DOMAIN idPool' : idPool'[j] = i)
                   <=> i # id /\ \E j \in DOMAIN idPool : idPool[j] = i
  BY StoreNewFacts
<1>3. PICK r \in Refs : r = <<id, v>>
  BY DEF Refs
<1>4. /\ Held' = Held \cup {r}
      /\ \A s \in Held' : held'[s] \in Nat \ {0}
      /\ \A s : s # r => Holds(s)' = Holds(s)
      /\ Holds(r)' = 1
  <2>1. TypeOK /\ GoTakes(r)
    BY <1>2, <1>3 DEF IInv
  <2>2. r \notin Held
    BY <1>2, <1>3
  <2> QED
    BY <2>1, <2>2, TakeFacts DEF Holds
<1>5. v \notin DOMAIN ids
  BY DEF StoreNew
<1>6. \A i \in DOMAIN values' : InUse(i)' <=> i = id \/ (i # id /\ InUse(i))
  BY <1>1, <1>2 DEF InUse
<1>7. TypeOK'
  <2>1. /\ DOMAIN refCounts' = DOMAIN values'
        /\ \A i \in DOMAIN refCounts' : refCounts'[i] \in Nat \cup {Infinity}
    BY <1>2 DEF IInv, TypeOK
  <2>2. /\ DOMAIN ids' \subseteq Values
        /\ \A w \in DOMAIN ids' : ids'[w] \in DOMAIN values'
    BY <1>2 DEF IInv, TypeOK
  <2>3. idPool' \in Seq(DOMAIN values')
    <3>1. DOMAIN values \subseteq DOMAIN values' /\ idPool' \in Seq(DOMAIN values)
      BY <1>2
    <3> QED
      BY <3>1
  <2>4. Held' \subseteq Refs
    BY <1>4 DEF IInv, TypeOK
  <2> QED
    BY <1>2, <1>4, <2>1, <2>2, <2>3, <2>4 DEF TypeOK
<1>8. LoadsRight' /\ HeldInv'
  BY <1>2, <1>3, <1>4, <1>6 DEF IInv, LoadsRight, HeldInv
<1>9. PresetStay'
  BY <1>2 DEF IInv, PresetStay
<1>10. KeptOnlyWhileHeld'
  BY <1>2, <1>3, <1>4 DEF IInv, KeptOnlyWhileHeld
<1>11. CountInv'
  <2> SUFFICES ASSUME NEW i \in DOMAIN values', NEW w \in Values, w = values'[i]
               PROVE  refCounts'[i] = IF i \in PresetIds THEN Infinity ELSE Holds(<<i, w>>)'
    BY <1>2 DEF CountInv
  <2>1. CASE i = id
    BY <1>2, <1>3, <1>4, <2>1
  <2>2. CASE i # id
    BY <1>2, <1>3, <1>4, <2>2 DEF IInv, CountInv, TypeOK
  <2> QED
    BY <2>1, <2>2
<1>12. IdsInv'
  <2>1. ASSUME NEW w \in DOMAIN ids'
        PROVE  ids'[w] \in DOMAIN values' /\ values'[ids'[w]] = w /\ InUse(ids[w])'
    <3>1. CASE w = v
      BY <1>1, <1>2, <3>1 DEF InUse
    <3>2. CASE w # v
      BY <1>2, <2>1, <3>2 DEF IInv, IdsInv, InUse
    <3> QED
      BY <3>1, <3>2
  <2>2. ASSUME NEW i \in DOMAIN values', InUse(i)'
        PROVE  values'[i] \in DOMAIN ids' /\ ids'[values'[i]] = i
    <3>1. CASE i = id
      BY <1>2, <3>1
    <3>2. CASE i # id
      BY <1>2, <1>5, <1>6, <2>2, <3>2 DEF IInv, IdsInv
    <3> QED
      BY <3>1, <3>2
  <2> QED
    BY <2>1, <2>2 DEF IdsInv
<1>13. PoolInv'
  BY <1>2, <1>6 DEF IInv, PoolInv
<1> QED
  BY <1>7, <1>8, <1>9, <1>10, <1>11, <1>12, <1>13 DEF IInv


(* The count of a reference that is finalized, before and after. *)
LEMMA FinalizeFacts ==
    ASSUME IInv, NEW r \in Held, Finalize(r), NEW id, id = r[1]
    PROVE  /\ id \in DOMAIN values /\ values[id] = r[2] /\ r = <<id, values[id]>>
           /\ InUse(id)
           /\ Less(refCounts[id]) = IF id \in PresetIds THEN Infinity ELSE held[r] - 1
           /\ held[r] \in Nat \ {0}
           /\ r[2] # Null
           /\ Held' = IF held[r] = 1 THEN Held \ {r} ELSE Held
           /\ \A s \in Held' : held'[s] \in Nat \ {0}
           /\ \A s : s # r => Holds(s)' = Holds(s)
           /\ Holds(r)' = held[r] - 1
<1>1. /\ id \in DOMAIN values /\ values[id] = r[2] /\ InUse(id)
  BY DEF IInv, LoadsRight, HeldInv
<1>2. r = <<id, values[id]>> /\ held[r] \in Nat \ {0}
  <2>1. r \in Refs /\ held[r] \in Nat \ {0}
    BY DEF IInv, TypeOK
  <2> QED
    BY <1>1, <2>1 DEF Refs
<1>3. refCounts[id] = IF id \in PresetIds THEN Infinity ELSE held[r]
  BY <1>1, <1>2 DEF IInv, CountInv, Holds
<1>4. Less(refCounts[id]) = IF id \in PresetIds THEN Infinity ELSE held[r] - 1
  BY <1>2, <1>3, RefTableAssumption DEF Less
<1>5. r[2] # Null
  BY RefTableAssumption DEF Finalize
<1>6. /\ Held' = IF held[r] = 1 THEN Held \ {r} ELSE Held
      /\ \A s \in Held' : held'[s] \in Nat \ {0}
      /\ \A s : s # r => Holds(s)' = Holds(s)
      /\ Holds(r)' = held[r] - 1
  <2>1. TypeOK /\ GoDrops(r)
    BY DEF IInv, Finalize
  <2> QED
    BY <2>1, DropFacts
<1> QED
  BY <1>1, <1>2, <1>4, <1>5, <1>6

(* The finalizer of a reference that is not the last to its value, or whose
   value is preset. *)
LEMMA FinalizeSome ==
    ASSUME IInv, NEW r \in Held, Finalize(r), Less(refCounts[r[1]]) # 0
    PROVE  IInv'
<1>0. PICK id : id = r[1]
  OBVIOUS
<1>1. /\ id \in DOMAIN values /\ values[id] = r[2] /\ r = <<id, values[id]>>
      /\ InUse(id)
      /\ Less(refCounts[id]) = IF id \in PresetIds THEN Infinity ELSE held[r] - 1
      /\ held[r] \in Nat \ {0}
      /\ r[2] # Null
      /\ Held' = IF held[r] = 1 THEN Held \ {r} ELSE Held
      /\ \A s \in Held' : held'[s] \in Nat \ {0}
      /\ \A s : s # r => Holds(s)' = Holds(s)
      /\ Holds(r)' = held[r] - 1
  BY <1>0, FinalizeFacts
<1>2. /\ values' = values /\ ids' = ids /\ idPool' = idPool
      /\ refCounts' = [refCounts EXCEPT ![id] = Less(refCounts[id])]
  BY <1>0 DEF Finalize
<1>3. /\ DOMAIN refCounts' = DOMAIN values
      /\ refCounts'[id] = IF id \in PresetIds THEN Infinity ELSE Holds(r)'
      /\ \A i \in DOMAIN values : i # id => refCounts'[i] = refCounts[i]
  BY <1>1, <1>2 DEF IInv, TypeOK
<1>4. Held' \subseteq Held /\ (id \notin PresetIds => Held' = Held)
  BY <1>0, <1>1
<1>5. TypeOK'
  <2>1. \A i \in DOMAIN values : refCounts'[i] \in Nat \cup {Infinity}
    BY <1>1, <1>3 DEF IInv, TypeOK
  <2> QED
    BY <1>1, <1>2, <1>3, <1>4, <2>1 DEF IInv, TypeOK
<1>6. LoadsRight' /\ HeldInv' /\ PresetStay'
  BY <1>2, <1>4 DEF IInv, LoadsRight, HeldInv, PresetStay, InUse
<1>7. KeptOnlyWhileHeld'
  BY <1>0, <1>1, <1>2, <1>4 DEF IInv, KeptOnlyWhileHeld
<1>8. CountInv'
  <2> SUFFICES ASSUME NEW i \in DOMAIN values, NEW w, w = values[i]
               PROVE  refCounts'[i] = IF i \in PresetIds THEN Infinity ELSE Holds(<<i, w>>)'
    BY <1>2 DEF CountInv
  <2>1. CASE i = id
    BY <1>1, <1>3, <2>1
  <2>2. CASE i # id
    BY <1>1, <1>3, <2>2 DEF IInv, CountInv
  <2> QED
    BY <2>1, <2>2
<1>9. IdsInv' /\ PoolInv'
  BY <1>2 DEF IInv, IdsInv, PoolInv, InUse
<1> QED
  BY <1>5, <1>6, <1>7, <1>8, <1>9 DEF IInv

(* The finalizer of the last reference frees the id. *)
LEMMA FinalizeLast ==
    ASSUME IInv, NEW r \in Held, Finalize(r), Less(refCounts[r[1]]) = 0
    PROVE  IInv'
<1>0. PICK id : id = r[1]
  OBVIOUS
<1>1. /\ id \in DOMAIN values /\ values[id] = r[2] /\ r = <<id, values[id]>>
      /\ InUse(id)
      /\ Less(refCounts[id]) = IF id \in PresetIds THEN Infinity ELSE held[r] - 1
      /\ held[r] \in Nat \ {0}
      /\ r[2] # Null
      /\ Held' = IF held[r] = 1 THEN Held \ {r} ELSE Held
      /\ \A s \in Held' : held'[s] \in Nat \ {0}
      /\ \A s : s # r => Holds(s)' = Holds(s)
      /\ Holds(r)' = held[r] - 1
  BY <1>0, FinalizeFacts
<1>2. id \notin PresetIds /\ held[r] = 1 /\ Held' = Held \ {r}
  BY <1>0, <1>1, RefTableAssumption
<1>3. /\ values' = [values EXCEPT ![id] = Null]
      /\ ids' = Without(ids, r[2]) /\ idPool' = Append(idPool, id)
      /\ refCounts' = [refCounts EXCEPT ![id] = 0]
  BY <1>0, <1>1 DEF Finalize, IdsWithout
<1>4. /\ values' \in Seq(Values) /\ DOMAIN values' = DOMAIN values
      /\ values'[id] = Null
      /\ \A i \in DOMAIN values : i # id => values'[i] = values[i]
  <2>1. values \in Seq(Values) /\ Null \in Values
    <3>1. Null \in PresetValues /\ Preset \in Seq(Values)
      BY RefTableAssumption
    <3> QED
      BY <3>1 DEF IInv, TypeOK, PresetValues, PresetIds
  <2>2. [values EXCEPT ![id] = Null] \in Seq(Values)
    BY <1>1, <2>1
  <2> QED
    BY <1>1, <1>3, <2>1, <2>2
<1>5. /\ DOMAIN refCounts' = DOMAIN values /\ refCounts'[id] = 0
      /\ \A i \in DOMAIN values : i # id => refCounts'[i] = refCounts[i]
  BY <1>1, <1>3 DEF IInv, TypeOK
<1>6. /\ DOMAIN ids' = DOMAIN ids \ {r[2]}
      /\ \A w \in DOMAIN ids' : ids'[w] = ids[w]
  BY <1>3 DEF Without
<1>7. /\ idPool' \in Seq(DOMAIN values)
      /\ \A i, j \in DOMAIN idPool' : idPool'[i] = idPool'[j] => i = j
      /\ \A i : (\E j \in DOMAIN idPool' : idPool'[j] = i)
                 <=> i = id \/ \E j \in DOMAIN idPool : idPool[j] = i
  <2>1. idPool \in Seq(DOMAIN values)
    BY DEF IInv, TypeOK
  <2>2. ~\E j \in DOMAIN idPool : idPool[j] = id
    BY <1>1 DEF IInv, PoolInv
  <2>3. /\ idPool' \in Seq(DOMAIN values)
        /\ DOMAIN idPool' = DOMAIN idPool \cup {Len(idPool) + 1}
        /\ Len(idPool) + 1 \notin DOMAIN idPool
        /\ idPool'[Len(idPool) + 1] = id
        /\ \A j \in DOMAIN idPool : idPool'[j] = idPool[j]
    BY <1>1, <1>3, <2>1
  <2> QED
    BY <2>2, <2>3 DEF IInv, PoolInv
<1>8. \A i \in DOMAIN values : InUse(i)' <=> i # id /\ InUse(i)
  BY <1>2, <1>4 DEF InUse
<1>9. \A s \in Held' : s \in Held /\ s[1] # id
  <2> SUFFICES ASSUME NEW s \in Held', s[1] = id PROVE FALSE
    BY <1>2
  <2>1. s \in Refs /\ r \in Refs /\ s \in Held
    BY <1>2 DEF IInv, TypeOK
  <2>2. s[2] = r[2]
    BY <1>0, <1>1, <2>1 DEF IInv, LoadsRight
  <2>3. s = r
    BY <1>0, <2>1, <2>2 DEF Refs
  <2> QED
    BY <1>2, <2>3
<1>10. TypeOK'
  <2>1. \A i \in DOMAIN refCounts' : refCounts'[i] \in Nat \cup {Infinity}
    BY <1>5 DEF IInv, TypeOK
  <2>2. /\ DOMAIN ids' \subseteq Values
        /\ \A w \in DOMAIN ids' : ids'[w] \in DOMAIN values'
    BY <1>4, <1>6 DEF IInv, TypeOK
  <2>3. Held' \subseteq Refs
    BY <1>2 DEF IInv, TypeOK
  <2> QED
    BY <1>1, <1>4, <1>5, <1>7, <2>1, <2>2, <2>3 DEF TypeOK
<1>11. LoadsRight' /\ HeldInv'
  BY <1>4, <1>8, <1>9 DEF IInv, LoadsRight, HeldInv
<1>12. PresetStay'
  BY <1>2, <1>4 DEF IInv, PresetStay
<1>13. KeptOnlyWhileHeld'
  BY <1>1, <1>2, <1>4 DEF IInv, KeptOnlyWhileHeld
<1>14. CountInv'
  <2> SUFFICES ASSUME NEW i \in DOMAIN values, NEW w, w = values'[i]
               PROVE  refCounts'[i] = IF i \in PresetIds THEN Infinity ELSE Holds(<<i, w>>)'
    BY <1>4 DEF CountInv
  <2>1. CASE i = id
    <3>1. <<i, w>> \notin Held'
      BY <1>9, <2>1
    <3> QED
      BY <1>2, <1>5, <2>1, <3>1 DEF Holds
  <2>2. CASE i # id
    BY <1>1, <1>4, <1>5, <2>2 DEF IInv, CountInv
  <2> QED
    BY <2>1, <2>2
<1>15. IdsInv'
  <2>1. ASSUME NEW w \in DOMAIN ids'
        PROVE  ids'[w] \in DOMAIN values' /\ values'[ids'[w]] = w /\ InUse(ids[w])'
    <3>1. ids'[w] = ids[w] /\ w \in DOMAIN ids /\ w # r[2]
      BY <1>6
    <3>2. ids[w] \in DOMAIN values /\ values[ids[w]] = w /\ InUse(ids[w])
      BY <3>1 DEF IInv, IdsInv
    <3>3. ids[w] # id
      BY <1>1, <3>1, <3>2
    <3> QED
      BY <1>4, <3>1, <3>2, <3>3 DEF InUse
  <2>2. ASSUME NEW i \in DOMAIN values', InUse(i)'
        PROVE  values'[i] \in DOMAIN ids' /\ ids'[values'[i]] = i
    <3>1. i \in DOMAIN values /\ i # id /\ InUse(i) /\ values'[i] = values[i]
      BY <1>4, <1>8, <2>2
    <3>2. values[i] \in DOMAIN ids /\ ids[values[i]] = i /\ ids[r[2]] = id
      BY <1>1, <3>1 DEF IInv, IdsInv
    <3> QED
      BY <1>6, <3>1, <3>2
  <2> QED
    BY <2>1, <2>2 DEF IdsInv
<1>16. PoolInv'
  BY <1>4, <1>7, <1>8 DEF IInv, PoolInv
<1> QED
  BY <1>10, <1>11, <1>12, <1>13, <1>14, <1>15, <1>16 DEF IInv

LEMMA InvImplies == IInv => OneIdPerValue /\ PoolIsFree
<1> SUFFICES ASSUME IInv PROVE OneIdPerValue /\ PoolIsFree
  OBVIOUS
<1>1. ASSUME NEW r \in Held
      PROVE  /\ r[1] \in DOMAIN values /\ InUse(r[1]) /\ values[r[1]] = r[2]
             /\ ids[r[2]] = r[1]
  BY DEF IInv, LoadsRight, HeldInv, IdsInv
<1>2. OneIdPerValue
  BY <1>1 DEF IInv, IdsInv, OneIdPerValue
<1>3. PoolIsFree
  BY <1>1 DEF IInv, PoolInv, PoolIsFree, InUse
<1> QED
  BY <1>2, <1>3

-----------------------------------------------------------------------------

LEMMA Inductive == Spec => []IInv
<1>1. IInv /\ [Next]_vars => IInv'
  <2> SUFFICES ASSUME IInv, [Next]_vars PROVE IInv'
    OBVIOUS
  <2>1. CASE UNCHANGED vars
    BY <2>1 DEF vars, IInv, TypeOK, LoadsRight, PresetStay, KeptOnlyWhileHeld,
                CountInv, HeldInv, IdsInv, PoolInv, InUse, Held, Holds
  <2>2. ASSUME NEW v \in Values, StoreKnown(v) PROVE IInv'
    BY <2>2, StoreKnownIInv
  <2>3. ASSUME NEW v \in Values, StoreNew(v) PROVE IInv'
    BY <2>3, StoreNewIInv
  <2>4. ASSUME NEW r \in Held, Finalize(r) PROVE IInv'
    BY <2>4, FinalizeSome, FinalizeLast
  <2> QED
    BY <2>1, <2>2, <2>3, <2>4 DEF Next
<1> QED
  BY <1>1, InitIInv, PTL DEF Spec

(* The table is always well formed. *)
THEOREM Typing == Spec => []TypeOK
<1>1. IInv => TypeOK
  BY DEF IInv
<1> QED
  BY <1>1, Inductive, PTL

(* A reference of Go loads the value it was made for, forever: finalizeRef
   and the reuse of ids by storeValue never disturb one that is still held. *)
THEOREM References == Spec => []LoadsRight
<1>1. IInv => LoadsRight
  BY DEF IInv
<1> QED
  BY <1>1, Inductive, PTL

(* No sequence of finalizeRef calls frees a preset value. *)
THEOREM Presets == Spec => []PresetStay
<1>1. IInv => PresetStay
  BY DEF IInv
<1> QED
  BY <1>1, Inductive, PTL

(* storeValue gives a value one id. *)
THEOREM Identity == Spec => []OneIdPerValue
  BY InvImplies, Inductive, PTL

(* The ids that storeValue reuses are ids nobody refers to. *)
THEOREM PoolFree == Spec => []PoolIsFree
  BY InvImplies, Inductive, PTL

(* finalizeRef leaks nothing. *)
THEOREM NoLeak == Spec => []KeptOnlyWhileHeld
<1>1. IInv => KeptOnlyWhileHeld
  BY DEF IInv
<1> QED
  BY <1>1, Inductive, PTL

-----------------------------------------------------------------------------
(* The contract.  A handle is an id that some value has, and so a slot in use. *)

Table == [i \in InTable |-> [value |-> values[i], refs |-> Holds(<<i, values[i]>>)]]

LEMMA InTableIs == ASSUME IInv PROVE InTable = {i \in DOMAIN values : InUse(i)}
  BY DEF InTable, IInv, IdsInv

LEMMA TableFacts ==
    ASSUME IInv
    PROVE  /\ DOMAIN Table = {i \in DOMAIN values : InUse(i)}
           /\ \A i \in DOMAIN Table : Table[i] = [value |-> values[i], refs |-> Holds(<<i, values[i]>>)]
  BY InTableIs DEF Table

(* An entry before and after a step, by the reference r that Go has to it. *)
LEMMA EntryOf ==
    ASSUME NEW i \in DOMAIN Table, NEW v, v = values[i], NEW r, r = <<i, v>>
    PROVE  Table[i] = [value |-> v, refs |-> Holds(r)]
  BY DEF Table

LEMMA NextEntryOf ==
    ASSUME NEW i \in DOMAIN Table', NEW v, v = values'[i], NEW r, r = <<i, v>>
    PROVE  Table'[i] = [value |-> v, refs |-> Holds(r)']
  BY DEF Table

LEMMA KnownAgain ==
    ASSUME IInv, IInv', NEW v \in Values, StoreKnown(v)
    PROVE  \E h \in DOMAIN Table : Contract!Again(h)
<1>1. PICK id \in DOMAIN values : id = ids[v] /\ values[id] = v /\ InUse(id)
  BY DEF IInv, IdsInv, StoreKnown
<1>2. PICK r \in Refs : r = <<id, v>>
  <2>1. id \in Nat \ {0}
    BY <1>1 DEF IInv, TypeOK
  <2> QED
    BY <2>1 DEF Refs
<1>3. /\ \A s : s # r => Holds(s)' = Holds(s)
      /\ Holds(r)' = Holds(r) + 1
  <2>1. TypeOK /\ GoTakes(r)
    BY <1>1, <1>2 DEF IInv, StoreKnown
  <2> QED
    BY <2>1, TakeFacts
<1>4. values' = values /\ InTable' = InTable /\ id \in InTable
  BY <1>1, InTableIs DEF StoreKnown, InTable
<1>5. ASSUME NEW i \in InTable
      PROVE  Table'[i] = [Table EXCEPT ![id].refs = @ + 1][i]
  <2>1. PICK w : w = values[i]
    OBVIOUS
  <2>2. PICK s : s = <<i, w>>
    OBVIOUS
  <2>3. i \in DOMAIN Table /\ i \in DOMAIN Table' /\ w = values'[i]
    BY <1>4, <2>1 DEF Table
  <2>4. Table[i] = [value |-> w, refs |-> Holds(s)]
    BY <2>1, <2>2, <2>3, EntryOf
  <2>5. Table'[i] = [value |-> w, refs |-> Holds(s)']
    BY <2>2, <2>3, NextEntryOf
  <2>6. CASE i = id
    <3>1. s = r
      BY <1>1, <1>2, <2>1, <2>2, <2>6
    <3> QED
      BY <1>3, <2>3, <2>4, <2>5, <2>6, <3>1
  <2>7. CASE i # id
    <3>1. s # r
      BY <1>2, <2>2, <2>7
    <3> QED
      BY <1>3, <2>3, <2>4, <2>5, <2>7, <3>1
  <2> QED
    BY <2>6, <2>7
<1>6. Table' = [Table EXCEPT ![id].refs = @ + 1]
  BY <1>4, <1>5 DEF Table
<1> QED
  BY <1>4, <1>6 DEF Contract!Again, Table

LEMMA NewFirst ==
    ASSUME IInv, IInv', NEW v \in Values, StoreNew(v)
    PROVE  Contract!First(v)
<1>1. v # Null /\ v \notin DOMAIN ids
  BY StoreNewFacts DEF StoreNew
<1>2. PICK id \in Nat \ {0} :
        /\ id \notin PresetIds
        /\ id \in DOMAIN values => ~InUse(id)
        /\ \A s \in Held : s[1] # id
        /\ GoTakes(<<id, v>>)
        /\ values' \in Seq(Values)
        /\ DOMAIN values' = DOMAIN values \cup {id} /\ values'[id] = v
        /\ \A i \in DOMAIN values : i # id => values'[i] = values[i]
        /\ DOMAIN refCounts' = DOMAIN refCounts \cup {id}
        /\ refCounts'[id] = 1
        /\ \A i \in DOMAIN refCounts : i # id => refCounts'[i] = refCounts[i]
        /\ DOMAIN ids' = DOMAIN ids \cup {v} /\ ids'[v] = id
        /\ \A w \in DOMAIN ids : w # v => ids'[w] = ids[w]
        /\ idPool' \in Seq(DOMAIN values)
        /\ \A i, j \in DOMAIN idPool' : idPool'[i] = idPool'[j] => i = j
        /\ \A i : (\E j \in DOMAIN idPool' : idPool'[j] = i)
                   <=> i # id /\ \E j \in DOMAIN idPool : idPool[j] = i
  BY StoreNewFacts
<1>3. PICK r \in Refs : r = <<id, v>>
  BY DEF Refs
<1>4. /\ \A s : s # r => Holds(s)' = Holds(s)
      /\ Holds(r)' = 1
  <2>1. TypeOK /\ GoTakes(r)
    BY <1>2, <1>3 DEF IInv
  <2>2. r \notin Held
    BY <1>2, <1>3
  <2> QED
    BY <2>1, <2>2, TakeFacts DEF Holds
<1>5. /\ DOMAIN Table' = DOMAIN Table \union {id} /\ id \notin DOMAIN Table
      /\ \A i \in DOMAIN Table : i \in DOMAIN values /\ i # id
  <2>1. DOMAIN Table' = {i \in DOMAIN values' : InUse(i)'}
    BY InTableIs DEF Table, InTable, InUse, IInv, IdsInv
  <2> QED
    BY <1>1, <1>2, <2>1, TableFacts DEF InUse
<1>6. Table'[id] = [value |-> v, refs |-> 1]
  BY <1>2, <1>3, <1>4, <1>5 DEF Table
<1>7. ASSUME NEW i \in DOMAIN Table PROVE Table'[i] = Table[i]
  <2>1. PICK w : w = values[i]
    OBVIOUS
  <2>2. PICK s : s = <<i, w>>
    OBVIOUS
  <2>3. values'[i] = w /\ s # r /\ i \in DOMAIN Table'
    BY <1>2, <1>3, <1>5, <2>1, <2>2
  <2>4. Table[i] = [value |-> w, refs |-> Holds(s)]
    BY <2>1, <2>2, EntryOf
  <2>5. Table'[i] = [value |-> w, refs |-> Holds(s)']
    BY <2>2, <2>3, NextEntryOf
  <2> QED
    BY <1>4, <2>3, <2>4, <2>5
<1>8. Table' = [i \in DOMAIN Table \union {id} |-> IF i = id THEN [value |-> v, refs |-> 1] ELSE Table[i]]
  <2>1. Table' = [i \in DOMAIN Table' |-> Table'[i]]
    BY DEF Table
  <2> QED
    BY <1>5, <1>6, <1>7, <2>1
<1>9. \A h \in DOMAIN Table : Table[h].value # v
  <2> SUFFICES ASSUME NEW h \in DOMAIN Table PROVE Table[h].value # v
    OBVIOUS
  <2>1. h \in DOMAIN values /\ InUse(h) /\ Table[h].value = values[h]
    <3>1. DOMAIN Table = {i \in DOMAIN values : InUse(i)}
      BY TableFacts
    <3>2. Table[h].value = values[h]
      BY DEF Table
    <3> QED
      BY <3>1, <3>2
  <2>2. values[h] \in DOMAIN ids
    BY <2>1 DEF IInv, IdsInv
  <2> QED
    BY <1>1, <2>1, <2>2
<1> QED
  BY <1>5, <1>8, <1>9 DEF Contract!First, Contract!Handle, Table

LEMMA FinalizeDrops ==
    ASSUME IInv, IInv', NEW r \in Held, Finalize(r)
    PROVE  \E h \in DOMAIN Table : Contract!Drop(h)
<1>0. PICK id : id = r[1]
  OBVIOUS
<1>1. /\ id \in DOMAIN values /\ values[id] = r[2] /\ r = <<id, values[id]>>
      /\ InUse(id)
      /\ Less(refCounts[id]) = IF id \in PresetIds THEN Infinity ELSE held[r] - 1
      /\ held[r] \in Nat \ {0}
      /\ r[2] # Null
      /\ \A s : s # r => Holds(s)' = Holds(s)
      /\ Holds(r)' = held[r] - 1
  BY <1>0, FinalizeFacts
<1>2. id \in DOMAIN Table /\ Table[id] = [value |-> values[id], refs |-> held[r]]
  BY <1>1, TableFacts DEF Holds
<1>3. ASSUME NEW i \in DOMAIN Table, i # id, i \in DOMAIN Table', values'[i] = values[i]
      PROVE  Table'[i] = Table[i]
  <2>1. PICK w : w = values[i]
    OBVIOUS
  <2>2. PICK s : s = <<i, w>>
    OBVIOUS
  <2>3. s # r
    BY <1>1, <1>3, <2>2
  <2>4. Table[i] = [value |-> w, refs |-> Holds(s)]
    BY <2>1, <2>2, EntryOf
  <2>5. Table'[i] = [value |-> w, refs |-> Holds(s)']
    BY <1>3, <2>1, <2>2, NextEntryOf
  <2> QED
    BY <1>1, <2>3, <2>4, <2>5
<1>4. CASE held[r] = 1 /\ id \notin PresetIds
  <2>1. Less(refCounts[id]) = 0
    BY <1>1, <1>4
  <2>2. values' = [values EXCEPT ![id] = Null] /\ ids' = Without(ids, r[2])
    BY <1>0, <1>1, <2>1 DEF Finalize, IdsWithout
  <2>3. /\ DOMAIN Table' = DOMAIN Table \ {id}
        /\ \A i \in DOMAIN Table : i # id => values'[i] = values[i]
    <3>1. InTable = {ids[v] : v \in DOMAIN ids} /\ InTable' = {ids[v] : v \in DOMAIN ids \ {r[2]}}
      BY <2>2 DEF InTable, Without
    <3>2. \A v \in DOMAIN ids : ids[v] = id <=> v = r[2]
      BY <1>1 DEF IInv, IdsInv
    <3>3. DOMAIN Table = InTable /\ DOMAIN Table' = InTable'
      BY DEF Table
    <3>4. \A i \in DOMAIN Table : i # id => values'[i] = values[i]
      BY <2>2, TableFacts DEF IInv, TypeOK
    <3> QED
      BY <3>1, <3>2, <3>3, <3>4
  <2>4. ASSUME NEW i \in DOMAIN Table \ {id} PROVE Table'[i] = Table[i]
    BY <1>3, <2>3
  <2>5. Table' = [i \in DOMAIN Table \ {id} |-> Table[i]]
    <3>1. Table' = [i \in DOMAIN Table' |-> Table'[i]]
      BY DEF Table
    <3> QED
      BY <2>3, <2>4, <3>1
  <2> QED
    <3>1. Table[id].refs = held[r] /\ held[r] > 0
      BY <1>1, <1>2
    <3>2. Table' = IF Table[id].refs = 1 /\ id \notin DOMAIN Preset
                   THEN [i \in DOMAIN Table \ {id} |-> Table[i]]
                   ELSE [Table EXCEPT ![id].refs = @ - 1]
      BY <1>4, <2>5, <3>1 DEF PresetIds
    <3> QED
      BY ONLY <1>2, <3>1, <3>2 DEF Contract!Drop, Table
<1>5. CASE ~(held[r] = 1 /\ id \notin PresetIds)
  <2>1. Less(refCounts[id]) # 0
    BY <1>1, <1>5, RefTableAssumption
  <2>2. values' = values /\ ids' = ids
    BY <1>0, <2>1 DEF Finalize
  <2>3. DOMAIN Table' = DOMAIN Table
    BY <2>2 DEF Table, InTable
  <2>4. ASSUME NEW i \in DOMAIN Table PROVE Table'[i] = [Table EXCEPT ![id].refs = @ - 1][i]
    <3>1. CASE i = id
      <4>1. id \in DOMAIN Table' /\ values'[id] = r[2] /\ r = <<id, r[2]>>
        BY <1>1, <1>2, <2>2, <2>3
      <4>2. Table'[id] = [value |-> r[2], refs |-> Holds(r)']
        BY <4>1, NextEntryOf
      <4> QED
        BY <1>1, <1>2, <3>1, <4>2
    <3>2. CASE i # id
      BY <1>3, <2>2, <2>3, <3>2
    <3> QED
      BY <3>1, <3>2
  <2>5. Table' = [Table EXCEPT ![id].refs = @ - 1]
    <3>1. Table' = [i \in DOMAIN Table' |-> Table'[i]]
      BY DEF Table
    <3> QED
      BY <2>3, <2>4, <3>1
  <2> QED
    <3>1. Table[id].refs = held[r] /\ held[r] > 0
      BY <1>1, <1>2
    <3>2. Table' = IF Table[id].refs = 1 /\ id \notin DOMAIN Preset
                   THEN [i \in DOMAIN Table \ {id} |-> Table[i]]
                   ELSE [Table EXCEPT ![id].refs = @ - 1]
      BY <1>5, <2>5, <3>1 DEF PresetIds
    <3> QED
      BY ONLY <1>2, <3>1, <3>2 DEF Contract!Drop, Table
<1> QED
  BY <1>4, <1>5

(* Every behaviour of the table is one of Handles: whatever ids are chosen,
   freed and used again, a handle refers to one value as long as Go holds it,
   and is gone when Go does not. *)
THEOREM Refinement == Spec => KeepsHandles
<1>1. Init => Contract!Init
  <2> SUFFICES ASSUME Init PROVE Contract!Init
    OBVIOUS
  <2>1. IInv /\ values = Preset /\ Held = {}
    BY InitIInv DEF Init, Held
  <2>2. DOMAIN Table = PresetIds
    BY <2>1, TableFacts DEF InUse, PresetIds
  <2>3. ASSUME NEW i \in DOMAIN Table PROVE Table[i] = Contract!Handle(Preset[i], 0)
    BY <2>1, TableFacts DEF Holds, Contract!Handle
  <2>4. Table = [i \in DOMAIN Table |-> Table[i]]
    BY DEF Table
  <2> QED
    BY <2>2, <2>3, <2>4 DEF Contract!Init, Table, PresetIds
<1>2. IInv /\ IInv' /\ [Next]_vars => [Contract!Next]_Table
  <2> SUFFICES ASSUME IInv, IInv', [Next]_vars PROVE [Contract!Next]_Table
    OBVIOUS
  <2>1. CASE UNCHANGED vars
    BY <2>1 DEF vars, Table, InTable, Holds, Held
  <2>2. ASSUME NEW v \in Values, StoreKnown(v) PROVE Contract!Next
    BY <2>2, KnownAgain DEF Contract!Next, Table
  <2>3. ASSUME NEW v \in Values, StoreNew(v) PROVE Contract!Next
    BY <2>3, NewFirst DEF Contract!Next, Table
  <2>4. ASSUME NEW r \in Held, Finalize(r) PROVE Contract!Next
    BY <2>4, FinalizeDrops DEF Contract!Next, Table
  <2> QED
    BY <2>1, <2>2, <2>3, <2>4 DEF Next
<1> QED
  BY <1>1, <1>2, Inductive, PTL DEF Spec, KeepsHandles, Contract!Spec, Table

=============================================================================
