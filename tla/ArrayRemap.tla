----------------------------- MODULE ArrayRemap -----------------------------
(***************************************************************************)
(* The index permutation of a typed array operation (array-engine.ts), and *)
(* what it does to a list that parallels the array and to a store keyed by *)
(* element index.  Slot i is the code's index i - 1.                       *)
(***************************************************************************)
EXTENDS Naturals, Sequences

(* remapForOp against an array of length n: where each survivor lands, the  *)
(* slots whose element goes, and those that get a new one.                  *)
Remap(moved, vacated, fresh, old, new) ==
    [moved |-> moved, vacated |-> vacated, fresh |-> fresh,
     oldLen |-> old, newLen |-> new]

InsertRemap(at, n) == Remap([i \in at .. n |-> i + 1], {}, {at}, n, n + 1)
RemoveRemap(at, n) == Remap([i \in (at + 1) .. n |-> i - 1], {at}, {}, n, n - 1)
ReplaceRemap(at, n) == Remap([i \in {} |-> i], {at}, {at}, n, n)
SwapRemap(a, b, n) ==
    Remap([i \in {a, b} |-> IF i = a THEN b ELSE a], {}, {}, n, n)
MoveRemap(from, to, n) ==      \* a move onto itself moves nothing
    Remap([i \in {k \in 1 .. n : from # to /\ (k \in from .. to \/ k \in to .. from)}
              |-> IF i = from THEN to ELSE IF from < to THEN i - 1 ELSE i + 1],
          {}, {}, n, n)

Touches(m) == DOMAIN m.moved \cup m.vacated \cup m.fresh   \* remapAffects
Survivors(m) == (1 .. m.oldLen) \ m.vacated
Dest(m, i) == IF i \in DOMAIN m.moved THEN m.moved[i] ELSE i

(* permuteList: every slot no survivor claimed is filled.                   *)
PermuteList(list, m, fill) ==
    [j \in 1 .. m.newLen |->
        IF \E i \in Survivors(m) : Dest(m, i) = j
        THEN list[CHOOSE i \in Survivors(m) : Dest(m, i) = j]
        ELSE fill]

(* migrateMapSubtree, over a map that has an entry at every slot the remap  *)
(* moves, and migrateSetSubtree, over the slots S of a store with entries   *)
(* at the slots `has`: what the remap touches goes, the survivors land.     *)
MigrateMap(map, m, none) ==
    [j \in DOMAIN map |->
        IF \E i \in DOMAIN m.moved : m.moved[i] = j
        THEN map[CHOOSE i \in DOMAIN m.moved : m.moved[i] = j]
        ELSE IF j \in Touches(m) THEN none
        ELSE map[j]]

Landing(S, m) == {m.moved[i] : i \in S \cap DOMAIN m.moved}
MigrateSet(S, m, has) == (S \ (Touches(m) \cup Landing(has, m))) \cup Landing(S, m)

(* changedIndices: the slots whose occupant is another one than before.     *)
Changed(m) == m.vacated \cup m.fresh \cup DOMAIN m.moved
                \cup {m.moved[i] : i \in DOMAIN m.moved}

(* remapBetween: from one list of distinct tokens to another.               *)
Between(from, to) ==
    LET Held(s) == {s[i] : i \in DOMAIN s}
        SlotOf(t) == CHOOSE j \in DOMAIN to : to[j] = t
        goes == {i \in DOMAIN from : from[i] \in Held(to) /\ SlotOf(from[i]) # i}
    IN Remap([i \in goes |-> SlotOf(from[i])],
             {i \in DOMAIN from : from[i] \notin Held(to)},
             {j \in DOMAIN to : to[j] \notin Held(from)},
             Len(from), Len(to))
=============================================================================
