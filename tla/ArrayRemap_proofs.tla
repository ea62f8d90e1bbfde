-------------------------- MODULE ArrayRemap_proofs -------------------------
(***************************************************************************)
(* The remap of every typed operation, and of an undo, is a bijection from *)
(* the slots that survive to the slots that get nothing new, and the       *)
(* migrations by it lose, invent and mix up nothing, for arrays of any     *)
(* length.                                                                 *)
(***************************************************************************)
EXTENDS ArrayRemap, SequenceTheorems, TLAPS

(* What survives goes to different slots of the new list, and a slot is     *)
(* fresh exactly when nothing lands in it.                                  *)
IsBijection(m) ==
    /\ m.oldLen \in Nat /\ m.newLen \in Nat
    /\ DOMAIN m.moved \subseteq Survivors(m)
    /\ m.vacated \subseteq 1 .. m.oldLen
    /\ \A i \in Survivors(m) : Dest(m, i) \in 1 .. m.newLen
    /\ \A i, k \in Survivors(m) : Dest(m, i) = Dest(m, k) => i = k
    /\ \A j \in 1 .. m.newLen : j \in m.fresh <=> \A i \in Survivors(m) : Dest(m, i) # j
    /\ m.fresh \subseteq 1 .. m.newLen

(* An insertion, an append and a prepend (appendRemap, insertRemap).        *)
THEOREM InsertIsBijection ==
    ASSUME NEW n \in Nat, NEW at \in 1 .. (n + 1)
    PROVE  IsBijection(InsertRemap(at, n))
<1> DEFINE m == InsertRemap(at, n)
<1>1. /\ m.oldLen = n /\ m.newLen = n + 1 /\ m.vacated = {} /\ m.fresh = {at}
      /\ m.moved = [i \in at .. n |-> i + 1]
  BY DEF InsertRemap, Remap
<1> HIDE DEF m
<1>2. Survivors(m) = 1 .. n /\ \A i \in 1 .. n : Dest(m, i) = IF i >= at THEN i + 1 ELSE i
  BY <1>1 DEF Survivors, Dest
<1>3. \A j \in 1 .. (n + 1) : j # at =>
        \E i \in 1 .. n : Dest(m, i) = j
  <2> SUFFICES ASSUME NEW j \in 1 .. (n + 1), j # at PROVE \E i \in 1 .. n : Dest(m, i) = j
    OBVIOUS
  <2>1. CASE j < at  BY <1>2, <2>1
  <2>2. CASE j > at
    <3>1. j - 1 \in 1 .. n /\ Dest(m, j - 1) = j  BY <1>2, <2>2
    <3> QED  BY <3>1
  <2> QED  BY <2>1, <2>2
<1>4. \A i \in 1 .. n : Dest(m, i) # at /\ Dest(m, i) \in 1 .. (n + 1)  BY <1>2
<1>5. \A i, k \in 1 .. n : Dest(m, i) = Dest(m, k) => i = k  BY <1>2
<1>6. DOMAIN m.moved \subseteq Survivors(m) /\ {at} \subseteq 1 .. (n + 1)  BY <1>1, <1>2
<1>7. \A j \in 1 .. (n + 1) : j \in {at} <=> \A i \in 1 .. n : Dest(m, i) # j
  BY <1>3, <1>4
<1>8. IsBijection(m)  BY <1>1, <1>2, <1>4, <1>5, <1>6, <1>7, n + 1 \in Nat DEF IsBijection
<1> QED  BY <1>8 DEF m

(* A removal closes the gap.                                                *)
THEOREM RemoveIsBijection ==
    ASSUME NEW n \in Nat, NEW at \in 1 .. n
    PROVE  IsBijection(RemoveRemap(at, n))
<1> DEFINE m == RemoveRemap(at, n)
<1>1. /\ m.oldLen = n /\ m.newLen = n - 1 /\ m.vacated = {at} /\ m.fresh = {}
      /\ m.moved = [i \in (at + 1) .. n |-> i - 1]
  BY DEF RemoveRemap, Remap
<1> HIDE DEF m
<1>2. Survivors(m) = (1 .. n) \ {at}
      /\ \A i \in (1 .. n) \ {at} : Dest(m, i) = IF i > at THEN i - 1 ELSE i
  BY <1>1 DEF Survivors, Dest
<1>3. \A j \in 1 .. (n - 1) : \E i \in (1 .. n) \ {at} : Dest(m, i) = j
  <2> SUFFICES ASSUME NEW j \in 1 .. (n - 1)
               PROVE \E i \in (1 .. n) \ {at} : Dest(m, i) = j
    OBVIOUS
  <2>1. CASE j < at  BY <1>2, <2>1
  <2>2. CASE j >= at
    <3>1. j + 1 \in (1 .. n) \ {at} /\ Dest(m, j + 1) = j  BY <1>2, <2>2
    <3> QED  BY <3>1
  <2> QED  BY <2>1, <2>2
<1>4. \A i \in (1 .. n) \ {at} : Dest(m, i) \in 1 .. (n - 1)  BY <1>2
<1>5. \A i, k \in (1 .. n) \ {at} : Dest(m, i) = Dest(m, k) => i = k  BY <1>2
<1>6. DOMAIN m.moved \subseteq Survivors(m) /\ {at} \subseteq 1 .. n /\ n - 1 \in Nat
  BY <1>1, <1>2
<1>7. \A j \in 1 .. (n - 1) : j \in {} <=> \A i \in (1 .. n) \ {at} : Dest(m, i) # j
  BY <1>3
<1>8. IsBijection(m)  BY <1>1, <1>2, <1>4, <1>5, <1>6, <1>7 DEF IsBijection
<1> QED  BY <1>8 DEF m

(* A replacement gives its slot a new element.                              *)
THEOREM ReplaceIsBijection ==
    ASSUME NEW n \in Nat, NEW at \in 1 .. n
    PROVE  IsBijection(ReplaceRemap(at, n))
<1> DEFINE m == ReplaceRemap(at, n)
<1>1. /\ m.oldLen = n /\ m.newLen = n /\ m.vacated = {at} /\ m.fresh = {at}
      /\ DOMAIN m.moved = {}
  BY DEF ReplaceRemap, Remap
<1> HIDE DEF m
<1>2. Survivors(m) = (1 .. n) \ {at} /\ \A i \in 1 .. n : Dest(m, i) = i
  BY <1>1 DEF Survivors, Dest
<1>3. IsBijection(m)  BY <1>1, <1>2 DEF IsBijection
<1> QED  BY <1>3 DEF m

(* A swap.                                                                  *)
THEOREM SwapIsBijection ==
    ASSUME NEW n \in Nat, NEW a \in 1 .. n, NEW b \in 1 .. n
    PROVE  IsBijection(SwapRemap(a, b, n))
<1> DEFINE m == SwapRemap(a, b, n)
<1>1. /\ m.oldLen = n /\ m.newLen = n /\ m.vacated = {} /\ m.fresh = {}
      /\ m.moved = [i \in {a, b} |-> IF i = a THEN b ELSE a]
  BY DEF SwapRemap, Remap
<1> HIDE DEF m
<1>2. Survivors(m) = 1 .. n
      /\ \A i \in 1 .. n : Dest(m, i) = IF i = a THEN b ELSE IF i = b THEN a ELSE i
  BY <1>1 DEF Survivors, Dest
<1>3. \A i \in 1 .. n : Dest(m, i) \in 1 .. n /\ Dest(m, Dest(m, i)) = i  BY <1>2
<1>4. \A i, k \in 1 .. n : Dest(m, i) = Dest(m, k) => i = k  BY <1>3
<1>5. \A j \in 1 .. n : \E i \in 1 .. n : Dest(m, i) = j  BY <1>3
<1>6. DOMAIN m.moved \subseteq Survivors(m)  BY <1>1, <1>2
<1>7. IsBijection(m)  BY <1>1, <1>2, <1>3, <1>4, <1>5, <1>6 DEF IsBijection
<1> QED  BY <1>7 DEF m

(* A move shifts what lies between the two slots by one.                    *)
THEOREM MoveIsBijection ==
    ASSUME NEW n \in Nat, NEW from \in 1 .. n, NEW to \in 1 .. n
    PROVE  IsBijection(MoveRemap(from, to, n))
<1> DEFINE m == MoveRemap(from, to, n)
           D == {k \in 1 .. n : from # to /\ (k \in from .. to \/ k \in to .. from)}
<1>1. /\ m.oldLen = n /\ m.newLen = n /\ m.vacated = {} /\ m.fresh = {}
      /\ m.moved = [i \in D |-> IF i = from THEN to ELSE IF from < to THEN i - 1 ELSE i + 1]
  BY DEF MoveRemap, Remap
<1> HIDE DEF m
<1>2. Survivors(m) = 1 .. n /\ DOMAIN m.moved = D
      /\ \A i \in 1 .. n : Dest(m, i) =
           IF i \in D THEN (IF i = from THEN to ELSE IF from < to THEN i - 1 ELSE i + 1) ELSE i
  BY <1>1 DEF Survivors, Dest
<1>3. \A i \in 1 .. n : Dest(m, i) \in 1 .. n  BY <1>2
<1>4. \A i, k \in 1 .. n : Dest(m, i) = Dest(m, k) => i = k  BY <1>2
<1>5. \A j \in 1 .. n : \E i \in 1 .. n : Dest(m, i) = j
  <2> SUFFICES ASSUME NEW j \in 1 .. n PROVE \E i \in 1 .. n : Dest(m, i) = j  OBVIOUS
  <2>1. CASE j \notin D  BY <1>2, <2>1
  <2>2. CASE j \in D /\ j = to
    <3>1. Dest(m, from) = j  BY <1>2, <2>2
    <3> QED  BY <3>1
  <2>3. CASE j \in D /\ j # to /\ from < to
    <3>1. j + 1 \in D /\ j + 1 # from /\ Dest(m, j + 1) = j  BY <1>2, <2>3
    <3> QED  BY <3>1
  <2>4. CASE j \in D /\ j # to /\ to < from
    <3>1. j - 1 \in D /\ j - 1 # from /\ Dest(m, j - 1) = j  BY <1>2, <2>4
    <3> QED  BY <3>1
  <2> QED  BY <2>1, <2>2, <2>3, <2>4
<1>6. D \subseteq 1 .. n  OBVIOUS
<1> HIDE DEF D
<1>7. IsBijection(m)  BY <1>1, <1>2, <1>3, <1>4, <1>5, <1>6 DEF IsBijection
<1> QED  BY <1>7 DEF m

-----------------------------------------------------------------------------
(* The migration of a store by a bijection: the entry of a survivor is      *)
(* where the survivor lands, and there is none there that was not its own.  *)
THEOREM MigrationCarries ==
    ASSUME NEW m, IsBijection(m), NEW S, NEW has, S \subseteq has,
           NEW i \in Survivors(m)
    PROVE  /\ i \in S => Dest(m, i) \in MigrateSet(S, m, has)
           /\ (Dest(m, i) \in MigrateSet(S, m, has)
                 /\ (S \subseteq 1 .. m.oldLen \/ Dest(m, i) \in 1 .. m.oldLen)) => i \in S
<1> DEFINE j == Dest(m, i)
<1>1. \A k \in DOMAIN m.moved : k \in Survivors(m) /\ Dest(m, k) = m.moved[k]
  BY DEF IsBijection, Dest
<1>2. \A k \in DOMAIN m.moved : m.moved[k] = j => k = i
  BY <1>1 DEF IsBijection
<1>3. j \in Landing(S, m) <=> i \in S \cap DOMAIN m.moved
  BY <1>1, <1>2 DEF Landing
<1>4. CASE i \in DOMAIN m.moved
  <2>1. ASSUME j \in S \ Touches(m), S \subseteq 1 .. m.oldLen \/ j \in 1 .. m.oldLen
        PROVE  FALSE
    <3>1. j \in Survivors(m) /\ Dest(m, j) = j  BY <2>1 DEF Survivors, Touches, Dest
    <3>2. j = i  BY <3>1 DEF IsBijection
    <3> QED  BY <1>4, <2>1, <3>2 DEF Touches
  <2> QED  BY <1>3, <1>4, <2>1 DEF MigrateSet
<1>5. CASE i \notin DOMAIN m.moved
  <2>1. j = i  BY <1>5 DEF Dest
  <2>2. i \notin Touches(m)
    <3>1. i \notin m.vacated  BY DEF Survivors
    <3>2. i \notin m.fresh  BY <2>1 DEF IsBijection
    <3> QED  BY <1>5, <3>1, <3>2 DEF Touches
  <2>3. i \notin Landing(has, m)  BY <1>2, <1>5, <2>1 DEF Landing
  <2> QED  BY <1>3, <1>5, <2>1, <2>2, <2>3 DEF MigrateSet
<1> QED  BY <1>4, <1>5

(* So for a map.                                                            *)
THEOREM MapMigrationCarries ==
    ASSUME NEW m, IsBijection(m), NEW map, NEW none,
           NEW i \in Survivors(m), Dest(m, i) \in DOMAIN map
    PROVE  MigrateMap(map, m, none)[Dest(m, i)] = map[i]
<1> DEFINE j == Dest(m, i)
<1>1. \A k \in DOMAIN m.moved : m.moved[k] = j => k = i
  BY DEF IsBijection, Dest
<1>2. CASE i \in DOMAIN m.moved
  <2>1. m.moved[i] = j  BY <1>2 DEF Dest
  <2>2. (CHOOSE k \in DOMAIN m.moved : m.moved[k] = j) = i  BY <1>1, <1>2, <2>1
  <2> QED  BY <1>2, <2>1, <2>2 DEF MigrateMap
<1>3. CASE i \notin DOMAIN m.moved
  <2>1. j = i  BY <1>3 DEF Dest
  <2>2. i \notin Touches(m)
    <3>1. i \notin m.vacated  BY DEF Survivors
    <3>2. i \notin m.fresh  BY <2>1 DEF IsBijection
    <3> QED  BY <1>3, <3>1, <3>2 DEF Touches
  <2> QED  BY <1>1, <1>3, <2>1, <2>2 DEF MigrateMap
<1> QED  BY <1>2, <1>3

(* And for a list that parallels the array: the element of a survivor is    *)
(* where it lands, and a fresh slot is filled.                              *)
THEOREM PermutationCarries ==
    ASSUME NEW m, IsBijection(m), NEW list, NEW fill, NEW j \in 1 .. m.newLen
    PROVE  \/ /\ j \in m.fresh /\ PermuteList(list, m, fill)[j] = fill
           \/ \E i \in Survivors(m) :
                 Dest(m, i) = j /\ PermuteList(list, m, fill)[j] = list[i]
<1>1. CASE \E i \in Survivors(m) : Dest(m, i) = j
  <2> DEFINE i == CHOOSE k \in Survivors(m) : Dest(m, k) = j
  <2>1. i \in Survivors(m) /\ Dest(m, i) = j  BY <1>1
  <2>2. PermuteList(list, m, fill)[j] = list[i]  BY <1>1 DEF PermuteList
  <2> HIDE DEF i
  <2> QED  BY <2>1, <2>2
<1>2. CASE ~\E i \in Survivors(m) : Dest(m, i) = j
  BY <1>2 DEF PermuteList, IsBijection
<1> QED  BY <1>1, <1>2

-----------------------------------------------------------------------------
(* No element of the list is there twice.                                   *)
Distinct(s) == \A i, k \in DOMAIN s : s[i] = s[k] => i = k

(* From one list of distinct elements to another, as an undo goes from one  *)
(* order of the rows to another: an element in both goes where it is.       *)
THEOREM BetweenIsBijection ==
    ASSUME NEW T, NEW from \in Seq(T), NEW to \in Seq(T), Distinct(from), Distinct(to)
    PROVE  LET m == Between(from, to) IN
           /\ IsBijection(m) /\ m.oldLen = Len(from) /\ m.newLen = Len(to)
           /\ \A i \in Survivors(m) : to[Dest(m, i)] = from[i]
           /\ m.vacated = {i \in 1 .. Len(from) : \A j \in 1 .. Len(to) : to[j] # from[i]}
           /\ m.fresh = {j \in 1 .. Len(to) : \A i \in 1 .. Len(from) : to[j] # from[i]}
<1> DEFINE Held(s) == {s[i] : i \in DOMAIN s}
           SlotOf(t) == CHOOSE j \in DOMAIN to : to[j] = t
           goes == {i \in DOMAIN from : from[i] \in Held(to) /\ SlotOf(from[i]) # i}
           m == Between(from, to)
<1>1. /\ Len(from) \in Nat /\ DOMAIN from = 1 .. Len(from)
      /\ Len(to) \in Nat /\ DOMAIN to = 1 .. Len(to)
  BY LenProperties
<1>2. /\ m.moved = [i \in goes |-> SlotOf(from[i])]
      /\ m.vacated = {i \in DOMAIN from : from[i] \notin Held(to)}
      /\ m.fresh = {j \in DOMAIN to : to[j] \notin Held(from)}
      /\ m.oldLen = Len(from) /\ m.newLen = Len(to)
  BY DEF Between, Remap
<1>3. ASSUME NEW i \in DOMAIN from, from[i] \in Held(to)
      PROVE  SlotOf(from[i]) \in DOMAIN to /\ to[SlotOf(from[i])] = from[i]
  BY <1>3
<1>4. \A j \in DOMAIN to : SlotOf(to[j]) = j  BY DEF Distinct
<1> HIDE DEF SlotOf, m
<1>5. /\ m.vacated = {i \in 1 .. Len(from) : \A j \in 1 .. Len(to) : to[j] # from[i]}
      /\ m.fresh = {j \in 1 .. Len(to) : \A i \in 1 .. Len(from) : to[j] # from[i]}
  <2>1. \A x : x \in Held(to) <=> \E j \in 1 .. Len(to) : to[j] = x  BY <1>1
  <2>2. \A x : x \in Held(from) <=> \E i \in 1 .. Len(from) : from[i] = x  BY <1>1
  <2> HIDE DEF Held
  <2> QED  BY <1>1, <1>2, <2>1, <2>2
<1>6. Survivors(m) = {i \in DOMAIN from : from[i] \in Held(to)}
  BY <1>1, <1>2 DEF Survivors
<1>7. \A i \in Survivors(m) : Dest(m, i) = SlotOf(from[i])
  BY <1>2, <1>6 DEF Dest
<1>8. \A i \in Survivors(m) : Dest(m, i) \in DOMAIN to /\ to[Dest(m, i)] = from[i]
  BY <1>3, <1>6, <1>7
<1>9. \A i, k \in Survivors(m) : Dest(m, i) = Dest(m, k) => i = k
  BY <1>6, <1>8 DEF Distinct
<1>10. ASSUME NEW j \in 1 .. Len(to), j \notin m.fresh
       PROVE  \E i \in Survivors(m) : Dest(m, i) = j
  <2>1. PICK i \in DOMAIN from : from[i] = to[j]  BY <1>1, <1>5, <1>10
  <2>2. i \in Survivors(m)  BY <1>1, <1>6, <2>1
  <2>3. Dest(m, i) = j  BY <1>1, <1>4, <1>7, <2>1, <2>2
  <2> QED  BY <2>2, <2>3
<1>11. ASSUME NEW j \in m.fresh, NEW i \in Survivors(m), Dest(m, i) = j
       PROVE  FALSE
  BY <1>1, <1>5, <1>6, <1>8, <1>11
<1>12. IsBijection(m)
  <2>1. DOMAIN m.moved \subseteq Survivors(m)  BY <1>2, <1>6
  <2>2. m.vacated \subseteq 1 .. m.oldLen /\ m.fresh \subseteq 1 .. m.newLen  BY <1>2, <1>5
  <2> QED  BY <1>1, <1>2, <1>8, <1>9, <1>10, <1>11, <2>1, <2>2 DEF IsBijection
<1> QED  BY <1>2, <1>5, <1>8, <1>12 DEF m

(* No operation, and an undo to the same order, leave a store as it is.      *)
THEOREM NothingBetween ==
    ASSUME NEW S
    PROVE  /\ MigrateSet(S, Between(<<>>, <<>>), S) = S
           /\ Between(<<>>, <<>>).vacated = {} /\ Between(<<>>, <<>>).fresh = {}
<1> DEFINE m == Between(<<>>, <<>>)
<1>1. DOMAIN m.moved = {} /\ m.vacated = {} /\ m.fresh = {}
  BY DEF Between, Remap
<1> HIDE DEF m
<1>2. MigrateSet(S, m, S) = S  BY <1>1 DEF MigrateSet, Touches, Landing
<1> QED  BY <1>1, <1>2 DEF m

(* A store whose entries are at slots of the old list has them at slots of  *)
(* the new one afterwards, and none at a slot that is fresh.                *)
THEOREM MigrationStaysInside ==
    ASSUME NEW m, IsBijection(m), NEW has, NEW S, S \subseteq 1 .. m.oldLen
    PROVE  /\ MigrateSet(S, m, has) \subseteq 1 .. m.newLen
           /\ MigrateSet(S, m, has) \cap m.fresh = {}
<1>1. ASSUME NEW j \in MigrateSet(S, m, has)
      PROVE  \E i \in Survivors(m) : Dest(m, i) = j
  <2>1. CASE j \in Landing(S, m)
    BY <2>1 DEF Landing, Dest, IsBijection
  <2>2. CASE j \in S \ Touches(m)
    BY <2>2 DEF Touches, Survivors, Dest
  <2> QED  BY <2>1, <2>2 DEF MigrateSet
<1> QED  BY <1>1 DEF IsBijection
=============================================================================
