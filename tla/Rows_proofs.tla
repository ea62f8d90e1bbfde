----------------------------- MODULE Rows_proofs ----------------------------
(***************************************************************************)
(* What is proved of Rows, for every list, every set of values and every   *)
(* capacity: the history implements UndoStack; a typed operation takes     *)
(* what is keyed by index along with the rows (RowsInv); the types         *)
(* (TypeInv); and, from where the positions of the history lie             *)
(* (GenerationsInv) and how the lists they hold relate (BookInv), that     *)
(* records, keys and the dirty reading follow the rows through every       *)
(* write, undo and redo.                                                   *)
(***************************************************************************)
EXTENDS Rows, ArrayRemap_proofs, FiniteSetTheorems, SequenceTheorems, TLAPS

IsSnapshot(p) == p = Snapshot(p.form, p.structure, p.cells, p.records, p.generation)

(* What makes the refinement inductive: the history holds at most Capacity  *)
(* positions, the cursor is at one of them, and the value of that one is the*)
(* value of the form, unless hydration has put a value there that history   *)
(* is still to take.                                                        *)
HistoryInv ==
    /\ floorPending \in BOOLEAN
    /\ positions \in Seq(Held(positions))
    /\ Len(positions) \in 1 .. Capacity
    /\ cursor \in 1 .. Len(positions)
    /\ \A k \in 1 .. Len(positions) : IsSnapshot(positions[k])
    /\ ~floorPending => positions[cursor].form = items

Past == IF floorPending THEN <<>> ELSE [k \in 1 .. (cursor - 1) |-> positions[k].form]
Future == IF floorPending THEN <<>>
          ELSE [k \in 1 .. (Len(positions) - cursor) |-> positions[cursor + k].form]

(* Where a write leaves the cursor.                                         *)
NewCursor == IF cursor < Capacity THEN cursor + 1 ELSE cursor

-----------------------------------------------------------------------------
(* A sequence is known by its length and its elements.                      *)
LEMMA Tabulated ==
    ASSUME NEW S, NEW n \in Nat, NEW f \in [1 .. n -> S]
    PROVE  f \in Seq(S) /\ Len(f) = n
<1>1. f \in Seq(S)  BY SeqDef
<1> QED  BY <1>1, LenProperties

(* A sequence is a sequence of its own elements.                            *)
LEMMA HeldBySeq ==
    ASSUME NEW S, NEW s \in Seq(S)
    PROVE  s \in Seq(Held(s))
<1>1. DOMAIN s = 1 .. Len(s) /\ Len(s) \in Nat /\ s \in [1 .. Len(s) -> S]  BY LenProperties
<1>2. s \in [1 .. Len(s) -> Held(s)]  BY <1>1 DEF Held
<1> QED  BY <1>1, <1>2, SeqDef

(* A position that takes more records over is the same position otherwise.   *)
LEMMA MarkedSnapshot ==
    ASSUME NEW r, IsSnapshot(r), NEW left, NEW e, e = [r EXCEPT !.records = @ \cup left]
    PROVE  /\ IsSnapshot(e) /\ e.form = r.form /\ e.structure = r.structure
           /\ e.cells = r.cells /\ e.generation = r.generation
           /\ e.records = r.records \cup left
<1>1. DOMAIN r = {"form", "structure", "cells", "records", "generation"}
  BY DEF IsSnapshot, Snapshot
<1>2. /\ DOMAIN e = DOMAIN r /\ e.form = r.form /\ e.structure = r.structure
      /\ e.cells = r.cells /\ e.generation = r.generation /\ e.records = r.records \cup left
  BY <1>1
<1>3. e = [x \in {"form", "structure", "cells", "records", "generation"} |-> e[x]]
  BY <1>1
<1>4. e = Snapshot(e.form, e.structure, e.cells, e.records, e.generation)
  BY <1>3 DEF Snapshot
<1> QED  BY <1>2, <1>4 DEF IsSnapshot

(* A write: the redo branch goes, the oldest may, and the new position is   *)
(* the last.                                                                *)
LEMMA PushedFacts ==
    ASSUME HistoryInv, NEW left, NEW snap, IsSnapshot(snap)
    PROVE  LET q == Pushed(left, snap)
               n == NewCursor
           IN /\ q \in Seq(Held(q)) /\ Len(q) = n /\ q[n] = snap
              /\ \A k \in 1 .. n : IsSnapshot(q[k])
              /\ \A k \in 1 .. (n - 1) :
                    /\ q[k].form = positions[k + cursor + 1 - n].form
                    /\ q[k].structure = positions[k + cursor + 1 - n].structure
                    /\ q[k].cells = positions[k + cursor + 1 - n].cells
                    /\ q[k].generation = positions[k + cursor + 1 - n].generation
                    /\ q[k].records = positions[k + cursor + 1 - n].records
                                         \cup (IF k = n - 1 THEN left ELSE {})
<1> DEFINE S == Held(positions)
           p == SubSeq(positions, 1, cursor)
           e == [p[cursor] EXCEPT !.records = @ \cup left]
           T == S \cup {e, snap}
           b == Branch(left)
           a == Append(b, snap)
           q == Pushed(left, snap)
           n == NewCursor
<1> USE RowsAssumption DEF HistoryInv, NewCursor
<1>1. /\ p \in Seq(T) /\ Len(p) = cursor /\ cursor \in Nat \ {0}
      /\ \A i \in 1 .. cursor : p[i] = positions[i]
  <2>1. \A i \in 1 .. cursor : positions[i] \in S  BY ElementOfSeq
  <2> QED  BY <2>1, SubSeqProperties
<1>2. /\ IsSnapshot(e) /\ e.form = positions[cursor].form
      /\ e.structure = positions[cursor].structure /\ e.cells = positions[cursor].cells
      /\ e.generation = positions[cursor].generation
      /\ e.records = positions[cursor].records \cup left
  <2> DEFINE r == p[cursor]
  <2>1. r = positions[cursor] /\ IsSnapshot(r)  BY <1>1
  <2>2. e = [r EXCEPT !.records = @ \cup left]  OBVIOUS
  <2> HIDE DEF r, e
  <2>3. /\ IsSnapshot(e) /\ e.form = r.form /\ e.structure = r.structure
        /\ e.cells = r.cells /\ e.generation = r.generation
        /\ e.records = r.records \cup left
    <3> HIDE DEF HistoryInv, NewCursor
    <3> QED  BY ONLY <2>1, <2>2, MarkedSnapshot
  <2> QED  BY <2>1, <2>3
<1>3. b = [p EXCEPT ![cursor] = e]  BY DEF Branch
<1> HIDE DEF e, p
<1>4. /\ b \in Seq(T) /\ Len(b) = cursor
      /\ \A i \in 1 .. cursor : b[i] = IF i = cursor THEN e ELSE p[i]
  BY <1>1, <1>3, ExceptSeq
<1>5. \A i \in 1 .. cursor : /\ IsSnapshot(b[i]) /\ b[i].form = positions[i].form
                             /\ b[i].structure = positions[i].structure
                             /\ b[i].cells = positions[i].cells
                             /\ b[i].generation = positions[i].generation
                             /\ b[i].records = positions[i].records
                                                 \cup (IF i = cursor THEN left ELSE {})
  BY <1>1, <1>2, <1>4
<1> HIDE DEF b
<1>6. /\ a \in Seq(T) /\ Len(a) = cursor + 1 /\ a[cursor + 1] = snap
      /\ \A i \in 1 .. cursor : a[i] = b[i]
  BY <1>4
<1> HIDE DEF a
<1>7. q = IF cursor + 1 > Capacity
          THEN SubSeq(a, cursor + 1 - Capacity + 1, cursor + 1) ELSE a
  BY <1>6 DEF a, b, Pushed, Bounded
<1> HIDE DEF q, T
<1>8. /\ q \in Seq(T) /\ Len(q) = n
      /\ \A k \in 1 .. n : q[k] = a[k + cursor + 1 - n]
  <2>0. cursor < Capacity \/ cursor = Capacity  OBVIOUS
  <2>1. CASE cursor < Capacity  BY <1>6, <1>7, <2>1
  <2>2. CASE cursor = Capacity
    <3>1. q = SubSeq(a, 2, cursor + 1)  BY <1>7, <2>2
    <3>2. \A i \in 2 .. (cursor + 1) : a[i] \in T  BY <1>6, ElementOfSeq
    <3> QED  BY <1>1, <2>2, <3>1, <3>2, SubSeqProperties
  <2> HIDE DEF n, HistoryInv
  <2> QED  BY <2>0, <2>1, <2>2
<1>9. q \in Seq(Held(q))  BY <1>8, HeldBySeq
<1>10. /\ q[n] = snap
       /\ \A k \in 1 .. (n - 1) : q[k] = b[k + cursor + 1 - n]
                                  /\ k + cursor + 1 - n \in 1 .. cursor
  <2>1. n \in 1 .. (cursor + 1) /\ n >= cursor  BY <1>1
  <2> HIDE DEF n
  <2>2. q[n] = snap  BY <1>6, <1>8, <2>1
  <2>3. \A k \in 1 .. (n - 1) : k + cursor + 1 - n \in 1 .. cursor  BY <1>1, <2>1
  <2>4. ASSUME NEW k \in 1 .. (n - 1)
        PROVE  q[k] = b[k + cursor + 1 - n] /\ k + cursor + 1 - n \in 1 .. cursor
    <3>1. k \in 1 .. n  BY <1>1, <2>1
    <3>2. q[k] = a[k + cursor + 1 - n]  BY <1>8, <3>1
    <3> QED  BY <1>6, <2>3, <3>2
  <2> QED  BY <2>2, <2>4
<1>11. \A k \in 1 .. n : IsSnapshot(q[k])
  BY <1>1, <1>5, <1>10
<1>12. ASSUME NEW k \in 1 .. (n - 1)
       PROVE  LET i == k + cursor + 1 - n IN
              /\ q[k].form = positions[i].form /\ q[k].structure = positions[i].structure
              /\ q[k].cells = positions[i].cells
              /\ q[k].generation = positions[i].generation
              /\ q[k].records = positions[i].records \cup (IF k = n - 1 THEN left ELSE {})
  <2> DEFINE i == k + cursor + 1 - n
  <2>1. q[k] = b[i] /\ i \in 1 .. cursor  BY <1>10
  <2>2. i = cursor <=> k = n - 1  BY <1>1
  <2> HIDE DEF i, n
  <2> QED  BY <1>5, <2>1, <2>2 DEF i
<1> QED  BY <1>8, <1>9, <1>10, <1>11, <1>12 DEF q

(* The line of values around the form.                                      *)
LEMMA LineFacts ==
    ASSUME HistoryInv, ~floorPending, NEW F,
           \A k \in 1 .. Len(positions) : positions[k].form \in F
    PROVE  /\ Past \in Seq(F) /\ Len(Past) = cursor - 1
           /\ \A k \in 1 .. (cursor - 1) : Past[k] = positions[k].form
           /\ Future \in Seq(F) /\ Len(Future) = Len(positions) - cursor
           /\ \A k \in 1 .. (Len(positions) - cursor) : Future[k] = positions[cursor + k].form
<1> USE RowsAssumption DEF HistoryInv
<1>1. cursor - 1 \in Nat /\ Len(positions) - cursor \in Nat  OBVIOUS
<1>2. Past \in [1 .. (cursor - 1) -> F]  BY DEF Past
<1>3. Future \in [1 .. (Len(positions) - cursor) -> F]  BY DEF Future
<1> QED  BY <1>1, <1>2, <1>3, Tabulated DEF Past, Future

-----------------------------------------------------------------------------
(* A write is a Write of UndoStack, undo its Undo, redo its Redo; reset and *)
(* a hydration start its line anew or leave the clear of it for later.      *)
LEMMA PushStep ==
    ASSUME HistoryInv, ~floorPending, floorPending' = FALSE, NEW left, NEW snap,
           IsSnapshot(snap), snap.form = items',
           positions' = Pushed(left, snap), cursor' = Len(positions')
    PROVE  HistoryInv' /\ Line!Write
<1> DEFINE n == NewCursor
           F == {positions[k].form : k \in 1 .. Len(positions)} \cup {snap.form}
<1>1. /\ positions' \in Seq(Held(positions')) /\ Len(positions') = n /\ cursor' = n
      /\ positions'[n] = snap
      /\ \A k \in 1 .. n : IsSnapshot(positions'[k])
      /\ \A k \in 1 .. (n - 1) : positions'[k].form = positions[k + cursor + 1 - n].form
  <2> DEFINE q == Pushed(left, snap)
  <2>1. /\ q \in Seq(Held(q)) /\ Len(q) = n /\ q[n] = snap
        /\ \A k \in 1 .. n : IsSnapshot(q[k])
        /\ \A k \in 1 .. (n - 1) : q[k].form = positions[k + cursor + 1 - n].form
    BY PushedFacts
  <2> HIDE DEF q, n
  <2>2. positions' = q /\ cursor' = n  BY <2>1 DEF q
  <2> QED  BY <2>1, <2>2
<1>2. /\ cursor \in 1 .. Capacity /\ Capacity \in Nat /\ cursor \in 1 .. Len(positions)
      /\ Len(positions) \in 1 .. Capacity /\ positions[cursor].form = items
  BY RowsAssumption DEF HistoryInv
<1>3. n \in 1 .. Capacity /\ n >= cursor /\ n <= cursor + 1 /\ (n = cursor => cursor = Capacity)
  BY <1>2 DEF NewCursor
<1> HIDE DEF n
<1>4. HistoryInv'
  <2>1. (Held(positions))' = Held(positions')  BY DEF Held
  <2>2. (\A k \in 1 .. Len(positions) : IsSnapshot(positions[k]))'
    BY <1>1 DEF IsSnapshot
  <2>3. (positions[cursor].form = items)'  BY <1>1
  <2>4. Len(positions') \in 1 .. Capacity /\ cursor' \in 1 .. Len(positions')
    BY <1>1, <1>3
  <2>5. positions' \in Seq(Held(positions'))  BY <1>1
  <2> QED  BY <2>1, <2>2, <2>3, <2>4, <2>5 DEF HistoryInv
<1>5. /\ Past \in Seq(F) /\ Len(Past) = cursor - 1
      /\ \A k \in 1 .. (cursor - 1) : Past[k] = positions[k].form
  <2>1. \A k \in 1 .. Len(positions) : positions[k].form \in F  OBVIOUS
  <2> HIDE DEF F
  <2> QED  BY <2>1, LineFacts
<1>6. items \in F /\ Append(Past, items) \in Seq(F) /\ Len(Append(Past, items)) = cursor
      /\ \A k \in 1 .. cursor : Append(Past, items)[k] = positions[k].form
  BY <1>2, <1>5
<1>7. \A k \in 1 .. (n - 1) : positions'[k].form \in F
  <2> SUFFICES ASSUME NEW k \in 1 .. (n - 1) PROVE positions'[k].form \in F  OBVIOUS
  <2>1. k + cursor + 1 - n \in 1 .. Len(positions)  BY <1>2, <1>3
  <2> QED  BY <1>1, <2>1
<1>8. Past' = [k \in 1 .. (n - 1) |-> positions'[k].form]  BY <1>1 DEF Past
<1>9. /\ Past' \in Seq(F) /\ Len(Past') = n - 1
      /\ \A k \in 1 .. (n - 1) : Past'[k] = positions[k + cursor + 1 - n].form
  <2>1. n - 1 \in Nat /\ Past' \in [1 .. (n - 1) -> F]  BY <1>3, <1>7, <1>8
  <2>2. Past' \in Seq(F) /\ Len(Past') = n - 1  BY <2>1, Tabulated
  <2> QED  BY <1>1, <1>8, <2>2
<1>10. Past' = Line!Forget(Append(Past, items))
  <2> DEFINE a == Append(Past, items)
  <2> HIDE DEF a
  <2>0. a \in Seq(F) /\ Len(a) = cursor /\ \A k \in 1 .. cursor : a[k] = positions[k].form
    BY <1>6 DEF a
  <2>1. CASE cursor < Capacity
    <3>1. n = cursor + 1  BY <1>2, <1>3, <2>1
    <3>2. Line!Forget(a) = a  BY <1>2, <2>0, <2>1 DEF Line!Forget
    <3>3. Len(Past') = Len(a) /\ \A k \in 1 .. Len(Past') : Past'[k] = a[k]
      BY <1>2, <1>9, <2>0, <3>1
    <3> QED  BY <1>9, <2>0, <3>2, <3>3, SeqEqual DEF a
  <2>2. CASE cursor = Capacity
    <3>1. n = cursor  BY <1>2, <1>3, <2>2
    <3>2. Line!Forget(a) = Tail(a)  BY <1>2, <2>0, <2>2 DEF Line!Forget
    <3>3. a # <<>>  BY <1>2, <2>0
    <3>4. /\ Tail(a) \in Seq(F) /\ Len(Tail(a)) = cursor - 1
          /\ \A k \in 1 .. (cursor - 1) : Tail(a)[k] = a[k + 1]
      BY <1>2, <2>0, <3>3, HeadTailProperties
    <3>5. \A k \in 1 .. Len(Past') : Past'[k] = Tail(a)[k]
      <4> SUFFICES ASSUME NEW k \in 1 .. (cursor - 1) PROVE Past'[k] = Tail(a)[k]
        BY <1>9, <3>1
      <4>1. Past'[k] = positions[k + cursor + 1 - cursor].form  BY <1>9, <3>1
      <4>2. k + cursor + 1 - cursor = k + 1 /\ k + 1 \in 1 .. cursor  BY <1>2
      <4> QED  BY <2>0, <3>4, <4>1, <4>2
    <3> QED  BY <1>9, <3>1, <3>2, <3>4, <3>5, SeqEqual DEF a
  <2> QED  BY <1>2, <2>1, <2>2
<1>11. Future' = <<>>  BY <1>1, <1>3 DEF Future
<1> QED  BY <1>4, <1>10, <1>11 DEF Line!Write, Past, Future

(* A clear, and the clear that hydration queues.                            *)
LEMMA ReseedStep ==
    ASSUME HistoryInv, Reseed, floorPending' = FALSE
    PROVE  HistoryInv' /\ Line!Floor
<1>1. positions' = <<CaptureNext>> /\ cursor' = 1  BY DEF Reseed
<1>2. IsSnapshot(CaptureNext) /\ CaptureNext.form = items'
  BY DEF IsSnapshot, CaptureNext, Snapshot
<1> HIDE DEF CaptureNext
<1>3. Len(positions') = 1 /\ positions'[1] = CaptureNext /\ DOMAIN positions' = {1}
  BY <1>1
<1>4. positions' \in Seq(Held(positions'))  BY <1>1, <1>3 DEF Held
<1>5. HistoryInv'
  <2>1. (Held(positions))' = Held(positions')  BY DEF Held
  <2>2. (\A k \in 1 .. Len(positions) : IsSnapshot(positions[k]))'
    BY <1>1, <1>2, <1>3 DEF IsSnapshot
  <2>3. (positions[cursor].form = items)'  BY <1>1, <1>2, <1>3
  <2>4. Len(positions') \in 1 .. Capacity /\ cursor' \in 1 .. Len(positions')
    BY <1>1, <1>3, RowsAssumption
  <2> QED  BY <1>4, <2>1, <2>2, <2>3, <2>4 DEF HistoryInv
<1>6. Past' = <<>> /\ Future' = <<>>  BY <1>1, <1>3 DEF Past, Future
<1> QED  BY <1>5, <1>6 DEF Line!Floor, Past, Future

(* Undo and redo: the form goes to a neighbour of the position it is at,    *)
(* and the position it leaves keeps its value.                              *)
LEMMA StepToFacts ==
    ASSUME HistoryInv, NEW c \in 1 .. Len(positions), StepTo(c)
    PROVE  /\ HistoryInv' /\ ~floorPending /\ floorPending' = FALSE
           /\ items' = positions[c].form /\ cursor' = c /\ Len(positions') = Len(positions)
           /\ \A k \in 1 .. Len(positions) :
                 /\ positions'[k].form = positions[k].form
                 /\ positions'[k].structure =
                      IF k = cursor THEN structure ELSE positions[k].structure
                 /\ positions'[k].cells = positions[k].cells
                 /\ positions'[k].records =
                      IF k = cursor THEN touched ELSE positions[k].records
                 /\ positions'[k].generation =
                      IF k = cursor THEN generation ELSE positions[k].generation
<1> DEFINE e == [positions[cursor] EXCEPT !.structure = structure, !.records = touched,
                                          !.generation = generation]
           T == Held(positions) \cup {e}
<1>1. /\ ~floorPending /\ floorPending' = floorPending /\ cursor' = c
      /\ items' = positions[c].form /\ positions' = [positions EXCEPT ![cursor] = e]
  BY DEF StepTo, Positional, Retaken
<1>2. /\ positions \in Seq(Held(positions)) /\ cursor \in 1 .. Len(positions)
      /\ Len(positions) \in 1 .. Capacity /\ floorPending \in BOOLEAN
      /\ \A k \in 1 .. Len(positions) : IsSnapshot(positions[k])
  BY DEF HistoryInv
<1>3. /\ IsSnapshot(e) /\ e.form = positions[cursor].form /\ e.structure = structure
      /\ e.cells = positions[cursor].cells /\ e.records = touched
      /\ e.generation = generation
  <2> DEFINE r == positions[cursor]
  <2>1. IsSnapshot(r)  BY <1>2
  <2>2. e = [r EXCEPT !.structure = structure, !.records = touched, !.generation = generation]
    OBVIOUS
  <2> HIDE DEF r, e
  <2>3. DOMAIN r = {"form", "structure", "cells", "records", "generation"}
    BY <2>1 DEF IsSnapshot, Snapshot
  <2>4. /\ DOMAIN e = DOMAIN r /\ e.form = r.form /\ e.structure = structure
        /\ e.cells = r.cells /\ e.records = touched /\ e.generation = generation
    BY <2>2, <2>3
  <2>5. e = [x \in {"form", "structure", "cells", "records", "generation"} |-> e[x]]
    BY <2>2, <2>3
  <2>6. e = Snapshot(e.form, e.structure, e.cells, e.records, e.generation)
    BY <2>5 DEF Snapshot
  <2> QED  BY <2>4, <2>6 DEF IsSnapshot, r
<1> HIDE DEF e
<1>4. positions \in Seq(T)  BY <1>2, SeqMonotonic
<1>5. /\ positions' \in Seq(T) /\ Len(positions') = Len(positions)
      /\ \A k \in 1 .. Len(positions) : positions'[k] = IF k = cursor THEN e ELSE positions[k]
  BY <1>1, <1>2, <1>4, ExceptSeq
<1> HIDE DEF T
<1>6. \A k \in 1 .. Len(positions) : /\ positions'[k].form = positions[k].form
                                     /\ positions'[k].structure =
                                          IF k = cursor THEN structure ELSE positions[k].structure
                                     /\ positions'[k].cells = positions[k].cells
                                     /\ positions'[k].records =
                                          IF k = cursor THEN touched ELSE positions[k].records
                                     /\ positions'[k].generation =
                                          IF k = cursor THEN generation
                                          ELSE positions[k].generation
                                     /\ IsSnapshot(positions'[k])
  BY <1>2, <1>3, <1>5
<1>7. HistoryInv'
  <2>1. positions' \in Seq(Held(positions'))  BY <1>5, HeldBySeq
  <2>2. (Held(positions))' = Held(positions')  BY DEF Held
  <2>3. (\A k \in 1 .. Len(positions) : IsSnapshot(positions[k]))'
    BY <1>5, <1>6 DEF IsSnapshot
  <2>4. (positions[cursor].form = items)'  BY <1>1, <1>6
  <2>5. Len(positions') \in 1 .. Capacity /\ cursor' \in 1 .. Len(positions')
    BY <1>1, <1>2, <1>5
  <2> QED  BY <1>1, <1>2, <2>1, <2>2, <2>3, <2>4, <2>5 DEF HistoryInv
<1> QED  BY <1>1, <1>5, <1>6, <1>7

LEMMA UndoStep ==
    ASSUME HistoryInv, Undo
    PROVE  HistoryInv' /\ Line!Undo
<1> DEFINE F == {positions[k].form : k \in 1 .. Len(positions)}
           L == Len(positions)
<1>1. cursor \in 1 .. L /\ L \in Nat /\ cursor > 1 /\ StepTo(cursor - 1)
  BY RowsAssumption DEF HistoryInv, Undo
<1>2. /\ HistoryInv' /\ ~floorPending /\ ~floorPending' /\ items' = positions[cursor - 1].form
      /\ cursor' = cursor - 1 /\ Len(positions') = L
      /\ \A k \in 1 .. L : positions'[k].form = positions[k].form
  <2>1. cursor - 1 \in 1 .. Len(positions)  BY <1>1
  <2> QED  BY <1>1, <2>1, StepToFacts
<1>3. items = positions[cursor].form  BY <1>2 DEF HistoryInv
<1>4. \A k \in 1 .. L : positions[k].form \in F  OBVIOUS
<1> HIDE DEF F, L
<1>5. /\ Past \in Seq(F) /\ Len(Past) = cursor - 1
      /\ \A k \in 1 .. (cursor - 1) : Past[k] = positions[k].form
      /\ Future \in Seq(F) /\ Len(Future) = L - cursor
      /\ \A k \in 1 .. (L - cursor) : Future[k] = positions[cursor + k].form
  BY <1>2, <1>4, LineFacts DEF L
<1>6. Past' = [k \in 1 .. (cursor - 2) |-> positions[k].form]
  <2>1. Past' = [k \in 1 .. (cursor' - 1) |-> positions'[k].form]  BY <1>2 DEF Past
  <2>2. \A k \in 1 .. (cursor - 2) : positions'[k].form = positions[k].form  BY <1>1, <1>2
  <2>3. cursor' - 1 = cursor - 2  BY <1>1, <1>2
  <2> QED  BY <2>1, <2>2, <2>3
<1>7. Past' = SubSeq(Past, 1, Len(Past) - 1)
  <2>1. cursor - 2 \in Nat /\ Past' \in [1 .. (cursor - 2) -> F]
    BY <1>1, <1>4, <1>6
  <2>2. Past' \in Seq(F) /\ Len(Past') = cursor - 2  BY <2>1, Tabulated
  <2>3. Len(Past) - 1 = cursor - 2 /\ \A i \in 1 .. (cursor - 2) : Past[i] \in F
    BY <1>1, <1>4, <1>5
  <2> DEFINE q == SubSeq(Past, 1, cursor - 2)
  <2>4. /\ q \in Seq(F) /\ Len(q) = cursor - 2
        /\ \A i \in 1 .. (cursor - 2) : q[i] = Past[i]
    BY <2>1, <2>3, SubSeqProperties
  <2> HIDE DEF q
  <2>5. \A i \in 1 .. (cursor - 2) : Past'[i] = q[i]  BY <1>1, <1>5, <1>6, <2>4
  <2>6. Past' = q  BY <2>2, <2>4, <2>5, SeqEqual
  <2> QED  BY <2>3, <2>6 DEF q
<1>8. Future' = <<items>> \o Future
  <2> DEFINE n == L - cursor + 1
             g == <<items>> \o Future
  <2>1. /\ n \in Nat /\ \A k \in 1 .. n : cursor - 1 + k \in 1 .. L
        /\ Len(positions') - cursor' = n
    BY <1>1, <1>2
  <2>2. Future' = [k \in 1 .. n |-> positions[cursor - 1 + k].form]
    <3>1. Future' = [k \in 1 .. (Len(positions') - cursor') |-> positions'[cursor' + k].form]
      BY <1>2 DEF Future
    <3>2. \A k \in 1 .. n : positions'[cursor' + k].form = positions[cursor - 1 + k].form
      BY <1>2, <2>1
    <3> QED  BY <2>1, <3>1, <3>2
  <2>3. Future' \in [1 .. n -> F]  BY <1>4, <2>1, <2>2
  <2>4. Future' \in Seq(F) /\ Len(Future') = n  BY <2>1, <2>3, Tabulated
  <2>5. items \in F /\ <<items>> \in Seq(F) /\ Len(<<items>>) = 1 /\ <<items>>[1] = items
    BY <1>1, <1>3, <1>4
  <2>6. /\ g \in Seq(F) /\ Len(g) = n
        /\ \A k \in 1 .. n : g[k] = IF k = 1 THEN items ELSE Future[k - 1]
    <3>1. /\ g \in Seq(F) /\ Len(g) = 1 + (L - cursor)
          /\ \A k \in 1 .. (1 + (L - cursor)) :
               g[k] = IF k <= 1 THEN <<items>>[k] ELSE Future[k - 1]
      BY <1>5, <2>5, ConcatProperties
    <3> QED  BY <1>1, <2>5, <3>1
  <2> HIDE DEF g
  <2>7. ASSUME NEW k \in 1 .. n PROVE Future'[k] = g[k]
    <3>1. Future'[k] = positions[cursor - 1 + k].form  BY <2>2
    <3>2. CASE k = 1  BY <1>1, <1>3, <2>6, <3>1, <3>2
    <3>3. CASE k # 1
      <4>1. k - 1 \in 1 .. (L - cursor) /\ cursor + (k - 1) = cursor - 1 + k  BY <1>1, <3>3
      <4> QED  BY <1>5, <2>6, <3>1, <3>3, <4>1
    <3> QED  BY <3>2, <3>3
  <2> QED  BY <2>4, <2>6, <2>7, SeqEqual DEF g
<1>9. Past # <<>> /\ items' = Past[Len(Past)]
  BY <1>1, <1>2, <1>5
<1> QED  BY <1>2, <1>7, <1>8, <1>9 DEF Line!Undo, Past, Future

LEMMA RedoStep ==
    ASSUME HistoryInv, Redo
    PROVE  HistoryInv' /\ Line!Redo
<1> DEFINE F == {positions[k].form : k \in 1 .. Len(positions)}
           L == Len(positions)
<1>1. cursor \in 1 .. L /\ L \in Nat /\ cursor < L /\ StepTo(cursor + 1)
  BY RowsAssumption DEF HistoryInv, Redo
<1>2. /\ HistoryInv' /\ ~floorPending /\ ~floorPending' /\ items' = positions[cursor + 1].form
      /\ cursor' = cursor + 1 /\ Len(positions') = L
      /\ \A k \in 1 .. L : positions'[k].form = positions[k].form
  <2>1. cursor + 1 \in 1 .. Len(positions)  BY <1>1
  <2> QED  BY <1>1, <2>1, StepToFacts
<1>3. items = positions[cursor].form  BY <1>2 DEF HistoryInv
<1>4. \A k \in 1 .. L : positions[k].form \in F  OBVIOUS
<1> HIDE DEF F, L
<1>5. /\ Past \in Seq(F) /\ Len(Past) = cursor - 1
      /\ \A k \in 1 .. (cursor - 1) : Past[k] = positions[k].form
      /\ Future \in Seq(F) /\ Len(Future) = L - cursor
      /\ \A k \in 1 .. (L - cursor) : Future[k] = positions[cursor + k].form
  BY <1>2, <1>4, LineFacts DEF L
<1>6. Past' = Append(Past, items)
  <2> DEFINE g == Append(Past, items)
  <2>1. Past' = [k \in 1 .. cursor |-> positions[k].form]
    <3>1. Past' = [k \in 1 .. (cursor' - 1) |-> positions'[k].form]  BY <1>2 DEF Past
    <3>2. \A k \in 1 .. cursor : positions'[k].form = positions[k].form  BY <1>1, <1>2
    <3>3. cursor' - 1 = cursor  BY <1>1, <1>2
    <3> QED  BY <3>1, <3>2, <3>3
  <2>2. cursor \in Nat /\ Past' \in [1 .. cursor -> F]  BY <1>1, <1>4, <2>1
  <2>3. Past' \in Seq(F) /\ Len(Past') = cursor  BY <2>2, Tabulated
  <2>4. items \in F  BY <1>1, <1>3, <1>4
  <2>5. /\ g \in Seq(F) /\ Len(g) = cursor
        /\ \A k \in 1 .. cursor : g[k] = positions[k].form
    BY <1>1, <1>3, <1>5, <2>4
  <2> HIDE DEF g
  <2>6. \A k \in 1 .. cursor : Past'[k] = g[k]  BY <2>1, <2>5
  <2> QED  BY <2>3, <2>5, <2>6, SeqEqual DEF g
<1>7. Future # <<>> /\ items' = Future[1]
  BY <1>1, <1>2, <1>5
<1>8. Future' = Tail(Future)
  <2> DEFINE n == L - cursor - 1
             g == Tail(Future)
  <2>1. /\ n \in Nat /\ \A k \in 1 .. n : cursor + 1 + k \in 1 .. L
        /\ Len(positions') - cursor' = n
    BY <1>1, <1>2
  <2>2. Future' = [k \in 1 .. n |-> positions[cursor + 1 + k].form]
    <3>1. Future' = [k \in 1 .. (Len(positions') - cursor') |-> positions'[cursor' + k].form]
      BY <1>2 DEF Future
    <3>2. \A k \in 1 .. n : positions'[cursor' + k].form = positions[cursor + 1 + k].form
      BY <1>2, <2>1
    <3> QED  BY <2>1, <3>1, <3>2
  <2>3. Future' \in [1 .. n -> F]  BY <1>4, <2>1, <2>2
  <2>4. Future' \in Seq(F) /\ Len(Future') = n  BY <2>1, <2>3, Tabulated
  <2>5. /\ g \in Seq(F) /\ Len(g) = n /\ \A k \in 1 .. n : g[k] = Future[k + 1]
    <3>1. /\ g \in Seq(F) /\ Len(g) = Len(Future) - 1
          /\ \A k \in 1 .. Len(g) : g[k] = Future[k + 1]
      BY <1>5, <1>7, HeadTailProperties
    <3> QED  BY <1>5, <3>1
  <2> HIDE DEF g
  <2>6. ASSUME NEW k \in 1 .. n PROVE Future'[k] = g[k]
    <3>1. k + 1 \in 1 .. (L - cursor) /\ cursor + (k + 1) = cursor + 1 + k  BY <1>1
    <3> QED  BY <1>5, <2>2, <2>5, <3>1
  <2> QED  BY <2>4, <2>5, <2>6, SeqEqual DEF g
<1> QED  BY <1>2, <1>6, <1>7, <1>8 DEF Line!Redo, Past, Future

-----------------------------------------------------------------------------
(* Every step maps to a step of the line, or to none.                       *)
LEMMA RecordStep ==
    ASSUME HistoryInv, ~floorPending, NEW left, Record(left)
    PROVE  HistoryInv' /\ Line!Write
<1> DEFINE snap == CaptureNext
<1>1. IsSnapshot(snap) /\ snap.form = items'
  BY DEF IsSnapshot, CaptureNext, Snapshot
<1>2. /\ positions' = Pushed(left, snap) /\ cursor' = Len(positions')
      /\ floorPending' = FALSE
  BY DEF Record, HistoryInv
<1> HIDE DEF snap
<1> QED  BY <1>1, <1>2, PushStep

LEMMA ResetStep ==
    ASSUME HistoryInv, Reset
    PROVE  HistoryInv' /\ Line!Write
<1> DEFINE left == touched \cap Gone(defaults)
           snap == Snapshot(defaults, structure', cells, {}, generation')
<1>1. IsSnapshot(snap) /\ snap.form = items'
  BY DEF IsSnapshot, Snapshot, Reset
<1>2. /\ positions' = Pushed(left, snap) /\ cursor' = Len(positions')
      /\ ~floorPending /\ floorPending' = FALSE
  BY DEF Reset, Writable, HistoryInv
<1> HIDE DEF snap, left
<1> QED  BY <1>1, <1>2, PushStep

LEMMA HydrateStep ==
    ASSUME HistoryInv, NEW v, Hydrate(v)
    PROVE  HistoryInv' /\ Line!Floor
<1>1. floorPending' = TRUE /\ UNCHANGED <<positions, cursor>>  BY DEF Hydrate
<1>2. HistoryInv'
  <2>1. (Held(positions))' = Held(positions)  BY <1>1 DEF Held
  <2> QED  BY <1>1, <2>1 DEF HistoryInv, IsSnapshot
<1>3. Past' = <<>> /\ Future' = <<>>  BY <1>1 DEF Past, Future
<1> QED  BY <1>2, <1>3 DEF Line!Floor, Past, Future

(* What leaves the list and the history alone is a stutter.                 *)
LEMMA QuietStep ==
    ASSUME HistoryInv, UNCHANGED <<items, history>>
    PROVE  HistoryInv' /\ UNCHANGED <<Past, items, Future>>
<1>1. (Held(positions))' = Held(positions)  BY DEF Held, history
<1>2. HistoryInv'  BY <1>1 DEF HistoryInv, IsSnapshot, history
<1>3. UNCHANGED <<Past, items, Future>>  BY DEF Past, Future, history
<1> QED  BY <1>2, <1>3

(* Every step of Rows is a step of UndoStack or a stutter, and Init its     *)
(* Init.                                                                    *)
LEMMA StepImplements ==
    ASSUME HistoryInv, [Next]_vars
    PROVE  HistoryInv' /\ [Line!Next]_<<Past, items, Future>>
<1>1. CASE TypedOp \/ \E i \in Slots, v \in Values : EditLeaf(i, v)
  <2>1. ~floorPending /\ \E left : Record(left)
    BY <1>1 DEF TypedOp, Insert, Remove, Swap, Move, Replace, Typed, EditLeaf, Writable
  <2> QED  BY <2>1, RecordStep DEF Line!Next
<1>2. CASE \E s \in Lists, anchors \in BOOLEAN : Overwrite(s, anchors)
  <2>1. ~floorPending /\ \E left : Record(left)  BY <1>2 DEF Overwrite, Writable
  <2> QED  BY <2>1, RecordStep DEF Line!Next
<1>3. CASE Reset  BY <1>3, ResetStep DEF Line!Next
<1>4. CASE FloorClears
  <2>1. Reseed /\ floorPending' = FALSE  BY <1>4 DEF FloorClears
  <2> QED  BY <2>1, ReseedStep DEF Line!Next
<1>5. CASE \E v \in Fetched : Hydrate(v)  BY <1>5, HydrateStep DEF Line!Next
<1>6. CASE Undo  BY <1>6, UndoStep DEF Line!Next
<1>7. CASE Redo  BY <1>7, RedoStep DEF Line!Next
<1>8. CASE Clear
  <2>1. Reseed /\ floorPending' = FALSE  BY <1>8 DEF Clear, HistoryInv
  <2> QED  BY <2>1, ReseedStep DEF Line!Next
<1>9. CASE \/ TokenAt
           \/ \E i \in Slots : Touch(i) \/ SetErrors(i)
           \/ \E i \in Slots, judged \in BOOLEAN : Answer(i, judged)
           \/ UNCHANGED vars
  <2>1. UNCHANGED <<items, history>>
    BY <1>9 DEF TokenAt, Touch, SetErrors, Answer, Quiet, vars, store
  <2> QED  BY <2>1, QuietStep
<1> QED  BY <1>1, <1>2, <1>3, <1>4, <1>5, <1>6, <1>7, <1>8, <1>9 DEF Next

LEMMA InitImplements == Init => HistoryInv /\ Line!Init
<1> SUFFICES ASSUME Init PROVE HistoryInv /\ Line!Init  OBVIOUS
<1> DEFINE s == Snapshot(items, structure, cells, {}, 0)
<1>1. positions = <<s>> /\ cursor = 1 /\ floorPending = FALSE  BY DEF Init
<1>2. IsSnapshot(s) /\ s.form = items  BY DEF IsSnapshot, Snapshot
<1> HIDE DEF s
<1>3. Len(positions) = 1 /\ positions[1] = s /\ DOMAIN positions = {1}  BY <1>1
<1>4. positions \in Seq(Held(positions))  BY <1>1, <1>3 DEF Held
<1>5. HistoryInv
  <2>1. Len(positions) \in 1 .. Capacity /\ cursor \in 1 .. Len(positions)
    BY <1>1, <1>3, RowsAssumption
  <2>2. \A k \in 1 .. Len(positions) : IsSnapshot(positions[k])  BY <1>2, <1>3
  <2>3. positions[cursor].form = items  BY <1>1, <1>2, <1>3
  <2> QED  BY <1>1, <1>4, <2>1, <2>2, <2>3 DEF HistoryInv
<1>6. Past = <<>> /\ Future = <<>>  BY <1>1, <1>3 DEF Past, Future
<1> QED  BY <1>5, <1>6 DEF Line!Init, Past, Future

(* The values of the form move as the line of UndoStack: no sequence of     *)
(* writes, typed operations, resets, hydrations, undos and redos loses a    *)
(* position, brings one back that was dropped, or keeps more than Capacity. *)
THEOREM HistoryIsALine == Spec => ImplementsUndoStack
<1>1. UNCHANGED <<Past, items, Future>> <=> UNCHANGED Line!line
  BY DEF Line!line, Past, Future
<1>2. HistoryInv /\ [Next]_vars => HistoryInv' /\ [Line!Next]_(Line!line)
  BY <1>1, StepImplements
<1> QED
  BY <1>2, InitImplements, PTL DEF Spec, ImplementsUndoStack, Line!Spec
-----------------------------------------------------------------------------
(* The rows.  A structure names a different row at each of n slots, from    *)
(* among those named below r.                                               *)
WellNamed(rows, n, r) ==
    /\ rows \in [1 .. n -> 0 .. (r - 1)]
    /\ \A i, k \in 1 .. n : rows[i] = rows[k] => i = k
WellFormed(st, n, r) ==
    /\ {"rows", "identity", "originals", "removed"} = DOMAIN st
    /\ WellNamed(st.rows, n, r)
    /\ DOMAIN st.originals = Slots
WellList(s) == s \in Seq(Values) /\ Len(s) \in 0 .. MaxLen
WellPosition(p, r) == WellList(p.form) /\ WellFormed(p.structure, Len(p.form), r)

(* What makes MarksMove hold at every step: rows are named apart, live and  *)
(* in every position an undo may bring back, and no run is past the list.   *)
RowsInv ==
    /\ nextRow \in Nat
    /\ WellList(items) /\ WellList(defaults)
    /\ WellFormed(structure, Len(items), nextRow)
    /\ running \subseteq 1 .. Len(items)
    /\ \A k \in 1 .. Len(positions) : WellPosition(positions[k], nextRow)

(* Rows numbered so far are still so when more have been.                   *)
LEMMA NamedLater ==
    ASSUME NEW n \in Nat, NEW r \in Nat, NEW q \in Nat, r <= q, NEW st, WellFormed(st, n, r)
    PROVE  WellFormed(st, n, q)
<1>1. 0 .. (r - 1) \subseteq 0 .. (q - 1)  OBVIOUS
<1> QED  BY <1>1 DEF WellFormed, WellNamed

(* A write that history records keeps the positions well-formed.            *)
LEMMA PushKeeps ==
    ASSUME HistoryInv, RowsInv, NEW left, NEW snap, IsSnapshot(snap),
           positions' = Pushed(left, snap), nextRow' \in Nat, nextRow <= nextRow',
           WellPosition(snap, nextRow')
    PROVE  \A k \in 1 .. Len(positions') : WellPosition(positions'[k], nextRow')
<1> DEFINE n == NewCursor
           q == Pushed(left, snap)
<1>1. /\ Len(q) = n /\ q[n] = snap
      /\ \A k \in 1 .. (n - 1) : /\ q[k].form = positions[k + cursor + 1 - n].form
                                 /\ q[k].structure = positions[k + cursor + 1 - n].structure
  BY PushedFacts
<1>2. n \in Nat /\ \A k \in 1 .. (n - 1) : k + cursor + 1 - n \in 1 .. Len(positions)
  BY RowsAssumption DEF HistoryInv, NewCursor
<1> HIDE DEF q, n
<1>3. ASSUME NEW k \in 1 .. (n - 1) PROVE WellPosition(q[k], nextRow')
  <2> DEFINE p == positions[k + cursor + 1 - n]
  <2>1. WellPosition(p, nextRow)  BY <1>2 DEF RowsInv
  <2>2. q[k].form = p.form /\ q[k].structure = p.structure  BY <1>1
  <2> HIDE DEF p
  <2>3. Len(p.form) \in Nat /\ nextRow \in Nat
    BY <2>1 DEF WellPosition, WellList, RowsInv
  <2>4. WellFormed(p.structure, Len(p.form), nextRow')  BY <2>1, <2>3, NamedLater DEF WellPosition
  <2> QED  BY <2>1, <2>2, <2>4 DEF WellPosition
<1>4. \A k \in 1 .. n : k = n \/ k \in 1 .. (n - 1)  BY <1>2
<1> QED  BY <1>1, <1>3, <1>4 DEF q

(* The new position as Record takes it.                                     *)
LEMMA RecordKeeps ==
    ASSUME HistoryInv, RowsInv, NEW left, Record(left),
           nextRow' \in Nat, nextRow <= nextRow', WellList(items'), WellList(defaults'),
           WellFormed(structure', Len(items'), nextRow'), running' \subseteq 1 .. Len(items')
    PROVE  RowsInv'
<1> DEFINE snap == CaptureNext
<1>1. IsSnapshot(snap) /\ snap.form = items' /\ snap.structure = structure'
  BY DEF IsSnapshot, CaptureNext, Snapshot
<1>2. positions' = Pushed(left, snap)  BY DEF Record
<1> HIDE DEF snap
<1>3. WellPosition(snap, nextRow')  BY <1>1 DEF WellPosition
<1>4. \A k \in 1 .. Len(positions') : WellPosition(positions'[k], nextRow')
  BY <1>2, <1>1, <1>3, PushKeeps
<1> QED
  BY <1>4 DEF RowsInv, WellList, WellPosition, WellFormed, WellNamed, Slots

-----------------------------------------------------------------------------
(* A typed operation.  Its remap is a bijection with one fresh slot at most.*)
OpRemap(m) ==
    /\ IsBijection(m) /\ m.oldLen = Len(items)
    /\ m.fresh = {} \/ \E a : m.fresh = {a}

(* An element put between two lists.                                        *)
LEMMA Inserted ==
    ASSUME NEW S, NEW a \in Seq(S), NEW b \in Seq(S), NEW v \in S
    PROVE  /\ a \o <<v>> \o b \in Seq(S)
           /\ Len(a \o <<v>> \o b) = Len(a) + Len(b) + 1
<1>1. <<v>> \in Seq(S) /\ Len(<<v>>) = 1  OBVIOUS
<1>2. a \o <<v>> \in Seq(S) /\ Len(a \o <<v>>) = Len(a) + 1  BY <1>1, ConcatProperties
<1> DEFINE c == a \o <<v>>
<1> HIDE DEF c
<1>3. c \o b \in Seq(S) /\ Len(c \o b) = Len(c) + Len(b)
  BY <1>2, ConcatProperties DEF c
<1>4. Len(a) \in Nat /\ Len(b) \in Nat  BY LenProperties
<1> QED  BY <1>2, <1>3, <1>4 DEF c

(* Every typed operation is Typed by one of the remaps that are bijections. *)
LEMMA TypedOpIsTyped ==
    ASSUME RowsInv, TypedOp
    PROVE  \E m, s : OpRemap(m) /\ s \in Seq(Values) /\ Len(s) = m.newLen /\ Typed(m, s)
<1> DEFINE n == Len(items)
<1>0. items \in Seq(Values) /\ n \in Nat /\ \A i \in 1 .. n : items[i] \in Values
  BY ElementOfSeq DEF RowsInv, WellList
<1> DEFINE front(k) == SubSeq(items, 1, k - 1)
           back(k) == SubSeq(items, k + 1, Len(items))
<1>10. ASSUME NEW k \in 1 .. (n + 1)
       PROVE  front(k) \in Seq(Values) /\ Len(front(k)) = k - 1
  BY <1>0, SubSeqProperties
<1>11. ASSUME NEW k \in 0 .. n
       PROVE  back(k) \in Seq(Values) /\ Len(back(k)) = n - k
  BY <1>0, SubSeqProperties
<1>1. ASSUME NEW at \in Slots, NEW v \in Values, Insert(at, v)
      PROVE  \E m, s : OpRemap(m) /\ s \in Seq(Values) /\ Len(s) = m.newLen /\ Typed(m, s)
  <2> DEFINE m == InsertRemap(at, n)
             s == front(at) \o <<v>> \o SubSeq(items, at, Len(items))
  <2>1. at \in 1 .. (n + 1) /\ Typed(m, s)  BY <1>1, <1>0 DEF Insert, Slots
  <2>2. IsBijection(m) /\ m.oldLen = n /\ m.newLen = n + 1 /\ m.fresh = {at}
    BY <1>0, <2>1, InsertIsBijection DEF InsertRemap, Remap
  <2>3. s \in Seq(Values) /\ Len(s) = n + 1
    <3>1. SubSeq(items, at, Len(items)) = back(at - 1) /\ at - 1 \in 0 .. n
      BY <1>0, <2>1
    <3>2. front(at) \in Seq(Values) /\ Len(front(at)) = at - 1  BY <1>10, <2>1
    <3>3. back(at - 1) \in Seq(Values) /\ Len(back(at - 1)) = n - (at - 1)  BY <1>11, <3>1
    <3>4. s = front(at) \o <<v>> \o back(at - 1)  BY <3>1
    <3> HIDE DEF front, back, s
    <3>5. s \in Seq(Values) /\ Len(s) = Len(front(at)) + Len(back(at - 1)) + 1
      BY <3>2, <3>3, <3>4, Inserted
    <3> QED  BY <1>0, <2>1, <3>2, <3>3, <3>5
  <2> HIDE DEF m, s
  <2> QED  BY <2>1, <2>2, <2>3 DEF OpRemap
<1>2. ASSUME NEW at \in Slots, NEW v \in Values, Replace(at, v)
      PROVE  \E m, s : OpRemap(m) /\ s \in Seq(Values) /\ Len(s) = m.newLen /\ Typed(m, s)
  <2> DEFINE m == ReplaceRemap(at, n)
             s == [items EXCEPT ![at] = v]
  <2>1. at \in 1 .. n /\ Typed(m, s)  BY <1>2, <1>0 DEF Replace, Slots
  <2>2. IsBijection(m) /\ m.oldLen = n /\ m.newLen = n /\ m.fresh = {at}
    BY <1>0, <2>1, ReplaceIsBijection DEF ReplaceRemap, Remap
  <2>3. s \in Seq(Values) /\ Len(s) = n  BY <1>0, <2>1, ExceptSeq
  <2> HIDE DEF m, s
  <2> QED  BY <2>1, <2>2, <2>3 DEF OpRemap
<1>3. ASSUME NEW at \in Slots, Remove(at)
      PROVE  \E m, s : OpRemap(m) /\ s \in Seq(Values) /\ Len(s) = m.newLen /\ Typed(m, s)
  <2> DEFINE m == RemoveRemap(at, n)
             s == front(at) \o back(at)
  <2>1. at \in 1 .. n /\ Typed(m, s)  BY <1>3, <1>0 DEF Remove, Slots
  <2>2. IsBijection(m) /\ m.oldLen = n /\ m.newLen = n - 1 /\ m.fresh = {}
    BY <1>0, <2>1, RemoveIsBijection DEF RemoveRemap, Remap
  <2>3. s \in Seq(Values) /\ Len(s) = n - 1
    <3>1. front(at) \in Seq(Values) /\ Len(front(at)) = at - 1  BY <1>10, <1>0, <2>1
    <3>2. back(at) \in Seq(Values) /\ Len(back(at)) = n - at  BY <1>11, <1>0, <2>1
    <3> HIDE DEF front, back
    <3> QED  BY <1>0, <2>1, <3>1, <3>2
  <2> HIDE DEF m, s
  <2> QED  BY <2>1, <2>2, <2>3 DEF OpRemap
<1>4. ASSUME NEW a \in Slots, NEW b \in Slots, Swap(a, b)
      PROVE  \E m, s : OpRemap(m) /\ s \in Seq(Values) /\ Len(s) = m.newLen /\ Typed(m, s)
  <2> DEFINE m == SwapRemap(a, b, n)
             s == [items EXCEPT ![a] = items[b], ![b] = items[a]]
  <2>1. a \in 1 .. n /\ b \in 1 .. n /\ Typed(m, s)  BY <1>4, <1>0 DEF Swap, Slots
  <2>2. IsBijection(m) /\ m.oldLen = n /\ m.newLen = n /\ m.fresh = {}
    BY <1>0, <2>1, SwapIsBijection DEF SwapRemap, Remap
  <2>3. s \in Seq(Values) /\ Len(s) = n
    <3> DEFINE s1 == [items EXCEPT ![a] = items[b]]
    <3>1. s1 \in Seq(Values) /\ Len(s1) = n  BY <1>0, <2>1, ExceptSeq
    <3>2. s = [s1 EXCEPT ![b] = items[a]]  OBVIOUS
    <3> HIDE DEF s1, s
    <3> QED  BY <1>0, <2>1, <3>1, <3>2, ExceptSeq
  <2> HIDE DEF m, s
  <2> QED  BY <2>1, <2>2, <2>3 DEF OpRemap
<1>5. ASSUME NEW from \in Slots, NEW to \in Slots, Move(from, to)
      PROVE  \E m, s : OpRemap(m) /\ s \in Seq(Values) /\ Len(s) = m.newLen /\ Typed(m, s)
  <2> DEFINE m == MoveRemap(from, to, n)
             rest == front(from) \o back(from)
             s == SubSeq(rest, 1, to - 1) \o <<items[from]>> \o SubSeq(rest, to, Len(rest))
  <2>0. from <= n /\ to <= n /\ Typed(m, s)  BY <1>5 DEF Move
  <2>1. from \in 1 .. n /\ to \in 1 .. n /\ Typed(m, s)
    <3> HIDE DEF m, s
    <3> QED  BY <1>0, <2>0 DEF Slots
  <2>2. IsBijection(m) /\ m.oldLen = n /\ m.newLen = n /\ m.fresh = {}
    BY <1>0, <2>1, MoveIsBijection DEF MoveRemap, Remap
  <2>3. rest \in Seq(Values) /\ Len(rest) = n - 1
    <3>1. front(from) \in Seq(Values) /\ Len(front(from)) = from - 1  BY <1>10, <1>0, <2>1
    <3>2. back(from) \in Seq(Values) /\ Len(back(from)) = n - from  BY <1>11, <1>0, <2>1
    <3> HIDE DEF front, back
    <3> QED  BY <1>0, <2>1, <3>1, <3>2
  <2>4. s \in Seq(Values) /\ Len(s) = n
    <3> DEFINE s1 == SubSeq(rest, 1, to - 1)
               s2 == SubSeq(rest, to, Len(rest))
    <3> HIDE DEF rest
    <3>0. \A i \in 1 .. (n - 1) : rest[i] \in Values  BY <2>3, ElementOfSeq
    <3>1. s1 \in Seq(Values) /\ Len(s1) = to - 1  BY <1>0, <2>1, <2>3, <3>0, SubSeqProperties
    <3>2. s2 \in Seq(Values) /\ Len(s2) = n - to  BY <1>0, <2>1, <2>3, <3>0, SubSeqProperties
    <3>3. s = s1 \o <<items[from]>> \o s2 /\ items[from] \in Values  BY <1>0, <2>1
    <3> HIDE DEF s1, s2, s
    <3>4. s \in Seq(Values) /\ Len(s) = Len(s1) + Len(s2) + 1
      BY <3>1, <3>2, <3>3, Inserted
    <3> QED  BY <1>0, <2>1, <3>1, <3>2, <3>4
  <2> HIDE DEF m, s
  <2> QED  BY <2>1, <2>2, <2>4 DEF OpRemap
<1> QED  BY <1>1, <1>2, <1>3, <1>4, <1>5 DEF TypedOp

(* Where the rows go: a row of the new list was at the slot its slot comes  *)
(* from, or is new.                                                         *)
LEMMA RowsPermuted ==
    ASSUME RowsInv, NEW m, OpRemap(m), NEW s, Typed(m, s)
    PROVE  /\ nextRow' \in Nat /\ nextRow <= nextRow'
           /\ WellNamed(structure'.rows, m.newLen, nextRow')
           /\ \A i \in 1 .. m.oldLen, j \in 1 .. m.newLen :
                structure.rows[i] = structure'.rows[j] => i \in Survivors(m) /\ Dest(m, i) = j
<1> DEFINE rows == structure.rows
           moved == structure'.rows
<1>1. /\ m.newLen \in Nat /\ m.oldLen \in Nat /\ nextRow \in Nat
      /\ WellNamed(rows, m.oldLen, nextRow)
      /\ Survivors(m) \subseteq 1 .. m.oldLen
  BY DEF OpRemap, IsBijection, RowsInv, WellFormed, Survivors
<1>2. moved = PermuteList(rows, m, nextRow) /\ nextRow' = nextRow + Cardinality(m.fresh)
  BY DEF Typed
<1>3. /\ Cardinality(m.fresh) \in Nat
      /\ m.fresh # {} => Cardinality(m.fresh) = 1
      /\ \A a, b \in m.fresh : a = b
  <2>1. CASE m.fresh = {}
    <3>1. Cardinality({}) = 0  BY FS_EmptySet
    <3> QED  BY <2>1, <3>1
  <2>2. CASE \E a : m.fresh = {a}
    <3>1. PICK a : m.fresh = {a}  BY <2>2
    <3>2. Cardinality({a}) = 1  BY FS_Singleton
    <3> QED  BY <3>1, <3>2
  <2>3. m.fresh = {} \/ \E a : m.fresh = {a}  BY DEF OpRemap
  <2> QED  BY <2>1, <2>2, <2>3
<1>4. \A j \in 1 .. m.newLen :
         \/ j \in m.fresh /\ moved[j] = nextRow
         \/ \E i \in Survivors(m) : Dest(m, i) = j /\ moved[j] = rows[i]
  BY <1>2, PermutationCarries DEF OpRemap
<1>5. DOMAIN moved = 1 .. m.newLen /\ moved = [j \in 1 .. m.newLen |-> moved[j]]
  BY <1>2 DEF PermuteList
<1> HIDE DEF rows, moved
<1>6. \A i \in 1 .. m.oldLen : rows[i] \in 0 .. (nextRow - 1) /\ rows[i] # nextRow
  BY <1>1 DEF WellNamed
<1>7. \A i, k \in 1 .. m.oldLen : rows[i] = rows[k] => i = k  BY <1>1 DEF WellNamed
<1>8. nextRow' \in Nat /\ nextRow <= nextRow'  BY <1>1, <1>2, <1>3
<1>9. \A j \in 1 .. m.newLen : moved[j] \in 0 .. (nextRow' - 1)
  BY <1>1, <1>2, <1>3, <1>4, <1>6
<1>10. \A j, k \in 1 .. m.newLen : moved[j] = moved[k] => j = k
  BY <1>1, <1>3, <1>4, <1>6, <1>7
<1>11. \A i \in 1 .. m.oldLen, j \in 1 .. m.newLen :
          rows[i] = moved[j] => i \in Survivors(m) /\ Dest(m, i) = j
  BY <1>1, <1>4, <1>6, <1>7
<1> QED  BY <1>5, <1>8, <1>9, <1>10, <1>11 DEF WellNamed, rows, moved

(* What the operation carries along goes where its row goes.                *)
LEMMA CarryFollows ==
    ASSUME NEW m, IsBijection(m), NEW S, NEW has, S \subseteq has, NEW i \in Survivors(m)
    PROVE  /\ i \in S => Dest(m, i) \in Carry(S, m, has)
           /\ (Dest(m, i) \in Carry(S, m, has)
                /\ (S \subseteq 1 .. m.oldLen \/ Dest(m, i) \in 1 .. m.oldLen)) => i \in S
<1>1. CASE DOMAIN m.moved \cup m.vacated = {}  BY <1>1 DEF Carry, Dest
<1>2. CASE DOMAIN m.moved \cup m.vacated # {}
  BY <1>2, MigrationCarries DEF Carry
<1> QED  BY <1>1, <1>2

(* The original of a survivor goes with it.                                 *)
LEMMA OriginalsFollow ==
    ASSUME RowsInv, NEW m, IsBijection(m), NEW i \in Survivors(m), Dest(m, i) \in Slots
    PROVE  CarriedOriginals(m)[Dest(m, i)] = structure.originals[i]
<1>1. CASE DOMAIN m.moved \cup m.vacated = {}  BY <1>1 DEF CarriedOriginals, Dest
<1>2. CASE DOMAIN m.moved \cup m.vacated # {}
  BY <1>2, MapMigrationCarries DEF CarriedOriginals, RowsInv, WellFormed
<1> QED  BY <1>1, <1>2

(* A bijection takes slots of the old list to slots of the new one.         *)
LEMMA CarryInside ==
    ASSUME NEW m, IsBijection(m), NEW S, S \subseteq Survivors(m)
    PROVE  Carry(S, m, S) \subseteq 1 .. m.newLen
<1>1. \A i \in S : Dest(m, i) \in 1 .. m.newLen  BY DEF IsBijection
<1>2. S \ DOMAIN m.moved \subseteq 1 .. m.newLen  BY <1>1 DEF Dest
<1>3. Landing(S, m) \subseteq 1 .. m.newLen  BY <1>1 DEF Landing, Dest
<1> QED  BY <1>2, <1>3 DEF Carry, MigrateSet, Touches

(* A typed operation keeps RowsInv.                                         *)
LEMMA TypedOpKeeps ==
    ASSUME HistoryInv, RowsInv, TypedOp
    PROVE  RowsInv'
<1>1. PICK m, s : OpRemap(m) /\ s \in Seq(Values) /\ Len(s) = m.newLen /\ Typed(m, s)
  BY TypedOpIsTyped
<1>2. /\ items' = s /\ m.newLen <= MaxLen /\ defaults' = defaults
      /\ running' = Carry(running \ m.vacated, m, running \ m.vacated)
      /\ DOMAIN structure' = {"rows", "identity", "originals", "removed"}
      /\ structure'.originals = CarriedOriginals(m)
      /\ \E left : Record(left)
  BY <1>1 DEF Typed
<1>3. /\ nextRow' \in Nat /\ nextRow <= nextRow'
      /\ WellNamed(structure'.rows, m.newLen, nextRow')
  BY <1>1, RowsPermuted
<1>4. running' \subseteq 1 .. m.newLen
  <2>1. running \ m.vacated \subseteq Survivors(m)  BY <1>1 DEF RowsInv, OpRemap, Survivors
  <2> QED  BY <1>1, <1>2, <2>1, CarryInside DEF OpRemap
<1>5. DOMAIN structure'.originals = Slots
  <2>1. DOMAIN structure.originals = Slots  BY DEF RowsInv, WellFormed
  <2> QED  BY <1>2, <2>1 DEF CarriedOriginals, MigrateMap
<1>6. WellFormed(structure', Len(items'), nextRow')  BY <1>1, <1>2, <1>3, <1>5 DEF WellFormed
<1>7. WellList(items') /\ WellList(defaults')
  BY <1>1, <1>2, RowsAssumption DEF WellList, RowsInv, OpRemap, IsBijection
<1> QED  BY <1>1, <1>2, <1>3, <1>4, <1>6, <1>7, RecordKeeps

(* And nothing that is keyed by index stays behind.                         *)
LEMMA TypedOpMoves ==
    ASSUME RowsInv, TypedOp,
           NEW i \in DOMAIN structure.rows, NEW j \in DOMAIN structure'.rows,
           structure.rows[i] = structure'.rows[j]
    PROVE  /\ (i \in running) <=> (j \in running')
           /\ i \in cells.user => j \in cells'.user
           /\ j \in cells'.user => i \in cells.user \/ j > Len(items)
           /\ j \in cells'.schema => i = j /\ i \in cells.schema
           /\ structure.originals[i] = structure'.originals[j]
<1>1. PICK m, s : OpRemap(m) /\ s \in Seq(Values) /\ Len(s) = m.newLen /\ Typed(m, s)
  BY TypedOpIsTyped
<1>2. /\ m.newLen <= MaxLen /\ m.newLen \in Nat /\ m.oldLen = Len(items) /\ Len(items) \in Nat
      /\ MaxLen \in Nat
  BY <1>1, RowsAssumption DEF Typed, OpRemap, IsBijection, RowsInv, WellList
<1>3. DOMAIN structure.rows = 1 .. m.oldLen /\ DOMAIN structure'.rows = 1 .. m.newLen
  <2>1. WellNamed(structure'.rows, m.newLen, nextRow')  BY <1>1, RowsPermuted
  <2> QED  BY <1>2, <2>1 DEF RowsInv, WellFormed, WellNamed
<1>4. i \in Survivors(m) /\ j = Dest(m, i)  BY <1>1, <1>3, RowsPermuted
<1>5. (i \in running) <=> (j \in running')
  <2> DEFINE S == running \ m.vacated
  <2>1. S \subseteq 1 .. m.oldLen /\ (i \in S <=> i \in running)
    BY <1>2, <1>4 DEF RowsInv, Survivors
  <2>2. running' = Carry(S, m, S)  BY <1>1 DEF Typed
  <2> HIDE DEF S
  <2> QED  BY <1>1, <1>4, <2>1, <2>2, CarryFollows DEF OpRemap
<1>6. /\ i \in cells.user => j \in cells'.user
      /\ j \in cells'.user => i \in cells.user \/ j > Len(items)
  <2>1. cells'.user = Carry(cells.user, m, cells.user \cup cells.schema)
    BY <1>1 DEF Typed
  <2>2. j > Len(items) \/ j \in 1 .. m.oldLen  BY <1>2, <1>3
  <2> QED  BY <1>1, <1>4, <2>1, <2>2, CarryFollows DEF OpRemap
<1>7. j \in cells'.schema => i = j /\ i \in cells.schema
  <2>1. cells'.schema = cells.schema \ Changed(m)  BY <1>1 DEF Typed
  <2>2. i \in DOMAIN m.moved => j \in Changed(m)  BY <1>4 DEF Dest, Changed
  <2> QED  BY <1>4, <2>1, <2>2 DEF Dest
<1>8. structure.originals[i] = structure'.originals[j]
  <2>1. structure'.originals = CarriedOriginals(m)  BY <1>1 DEF Typed
  <2>2. j \in Slots  BY <1>2, <1>3 DEF Slots
  <2> QED  BY <1>1, <1>4, <2>1, <2>2, OriginalsFollow DEF OpRemap
<1> QED  BY <1>5, <1>6, <1>7, <1>8

-----------------------------------------------------------------------------
(* The other steps keep the rows apart.                                     *)
LEMMA NamedByPosition ==
    ASSUME RowsInv, NEW n \in Nat, Named(n)
    PROVE  /\ nextRow' \in Nat /\ nextRow <= nextRow'
           /\ WellNamed(ByPosition(n), n, nextRow')
<1> DEFINE l == Len(items)
           rows == ByPosition(n)
<1>1. /\ nextRow \in Nat /\ l \in Nat /\ WellNamed(structure.rows, l, nextRow)
  BY DEF RowsInv, WellFormed, WellList
<1>2. nextRow' = nextRow + (IF n > l THEN n - l ELSE 0)  BY DEF Named
<1>3. rows = [i \in 1 .. n |-> IF i <= l THEN structure.rows[i] ELSE nextRow + i - l - 1]
  BY DEF ByPosition
<1> HIDE DEF rows, l
<1>4. \A i \in 1 .. n : IF i <= l THEN rows[i] = structure.rows[i] /\ i \in 1 .. l
                        ELSE rows[i] = nextRow + i - l - 1
  BY <1>1, <1>3
<1>5. \A i \in 1 .. l : structure.rows[i] \in 0 .. (nextRow - 1)  BY <1>1 DEF WellNamed
<1>6. nextRow' \in Nat /\ nextRow <= nextRow'  BY <1>1, <1>2
<1>7. \A i \in 1 .. n : rows[i] \in 0 .. (nextRow' - 1)  BY <1>1, <1>2, <1>4, <1>5
<1>8. \A i, k \in 1 .. n : rows[i] = rows[k] => i = k
  <2>1. \A i, k \in 1 .. l : structure.rows[i] = structure.rows[k] => i = k
    BY <1>1 DEF WellNamed
  <2> QED  BY <1>1, <1>4, <1>5, <2>1
<1> QED  BY <1>3, <1>6, <1>7, <1>8 DEF WellNamed, rows

(* The runs that a whole-list write leaves in flight are at slots of the    *)
(* new list.                                                                *)
LEMMA GoneLeaves ==
    ASSUME RowsInv, NEW s, WellList(s)
    PROVE  running \ Gone(s) \subseteq 1 .. Len(s)
<1>1. Len(items) \in Nat /\ Len(s) \in Nat  BY RowsAssumption DEF RowsInv, WellList
<1>2. \A i \in 1 .. Len(items) : i \in 1 .. Len(s) \/ i \in (Len(s) + 1) .. Len(items)
  BY <1>1
<1> QED  BY <1>2 DEF Gone, RowsInv

(* Writes followed by position, and those that call for it: a setValue and  *)
(* an edit of a leaf.                                                       *)
LEMMA PositionalKeeps ==
    ASSUME RowsInv, NEW s, NEW st, NEW recs, NEW t, NEW r, WellList(s),
           WellFormed(st, Len(s), r), Positional(s, st, recs, t)
    PROVE  /\ items' = s /\ WellFormed(structure', Len(s), r)
           /\ running' \subseteq 1 .. Len(s)
<1>1. items' = s /\ running' = running \ Gone(s)  BY DEF Positional
<1>2. /\ DOMAIN structure' = DOMAIN st /\ structure'.rows = st.rows
      /\ structure'.originals = st.originals
  BY DEF Positional, WellFormed
<1>3. running \ Gone(s) \subseteq 1 .. Len(s)  BY GoneLeaves
<1> QED  BY <1>1, <1>2, <1>3 DEF WellFormed

LEMMA InPlaceWell ==
    ASSUME RowsInv, NEW s, WellList(s), Named(Len(s))
    PROVE  /\ nextRow' \in Nat /\ nextRow <= nextRow'
           /\ WellFormed(InPlace(s), Len(s), nextRow')
<1>1. Len(s) \in Nat  BY RowsAssumption DEF WellList
<1>2. /\ nextRow' \in Nat /\ nextRow <= nextRow'
      /\ WellNamed(ByPosition(Len(s)), Len(s), nextRow')
  BY <1>1, NamedByPosition
<1>3. /\ DOMAIN InPlace(s) = DOMAIN structure /\ InPlace(s).rows = ByPosition(Len(s))
      /\ InPlace(s).originals = structure.originals
  BY DEF InPlace, RowsInv, WellFormed
<1> QED  BY <1>2, <1>3 DEF RowsInv, WellFormed

LEMMA OverwriteKeeps ==
    ASSUME HistoryInv, RowsInv, NEW s \in Lists, NEW anchors \in BOOLEAN, Overwrite(s, anchors)
    PROVE  RowsInv'
<1>1. WellList(s)  BY RowsAssumption DEF WellList
<1>2. /\ nextRow' \in Nat /\ nextRow <= nextRow'
      /\ WellFormed(InPlace(s), Len(s), nextRow')
  BY <1>1, InPlaceWell DEF Overwrite
<1>3. PICK st, recs, t :
        /\ Positional(s, st, recs, t)
        /\ \E id : st = [InPlace(s) EXCEPT !.identity = id]
  BY DEF Overwrite
<1>4. WellFormed(st, Len(s), nextRow')
  <2>1. DOMAIN st = DOMAIN InPlace(s) /\ st.rows = InPlace(s).rows
        /\ st.originals = InPlace(s).originals
    BY <1>2, <1>3 DEF WellFormed
  <2> QED  BY <1>2, <2>1 DEF WellFormed
<1>5. /\ items' = s /\ WellFormed(structure', Len(s), nextRow')
      /\ running' \subseteq 1 .. Len(s)
  BY <1>1, <1>3, <1>4, PositionalKeeps
<1>6. defaults' = defaults /\ \E left : Record(left)  BY DEF Overwrite
<1>7. WellList(items') /\ WellList(defaults')  BY <1>1, <1>5, <1>6 DEF RowsInv
<1> QED  BY <1>2, <1>5, <1>6, <1>7, RecordKeeps

LEMMA EditLeafKeeps ==
    ASSUME HistoryInv, RowsInv, NEW i \in Slots, NEW v \in Values, EditLeaf(i, v)
    PROVE  RowsInv'
<1>1. /\ items' = [items EXCEPT ![i] = v] /\ running' = running \cup {i} /\ i <= Len(items)
      /\ structure' = structure /\ defaults' = defaults /\ nextRow' = nextRow
      /\ \E left : Record(left)
  BY DEF EditLeaf, ghosts
<1>2. items \in Seq(Values) /\ Len(items) \in 0 .. MaxLen /\ i \in 1 .. Len(items)
  BY <1>1 DEF RowsInv, WellList, Slots
<1>3. items' \in Seq(Values) /\ Len(items') = Len(items)  BY <1>1, <1>2, ExceptSeq
<1>4. running' \subseteq 1 .. Len(items')  BY <1>1, <1>2, <1>3 DEF RowsInv
<1>5. WellList(items') /\ WellList(defaults')  BY <1>1, <1>2, <1>3 DEF RowsInv, WellList
<1>6. nextRow' \in Nat /\ nextRow <= nextRow'  BY <1>1 DEF RowsInv
<1>7. WellFormed(structure', Len(items'), nextRow')  BY <1>1, <1>3 DEF RowsInv
<1> QED  BY <1>1, <1>4, <1>5, <1>6, <1>7, RecordKeeps

(* reset and hydration: the list and its rows are well-formed, and those of *)
(* the history stay so.                                                     *)
LEMMA AnchorsWell ==
    ASSUME RowsInv, NEW s, WellList(s), NEW kept, Anchors(s, kept)
    PROVE  /\ nextRow' \in Nat /\ nextRow <= nextRow'
           /\ WellFormed(structure', Len(s), nextRow')
<1>1. Len(s) \in Nat  BY RowsAssumption DEF WellList
<1>2. /\ nextRow' \in Nat /\ nextRow <= nextRow'
      /\ WellNamed(ByPosition(Len(s)), Len(s), nextRow')
  BY <1>1, NamedByPosition DEF Anchors
<1>3. /\ DOMAIN structure' = {"rows", "identity", "originals", "removed"}
      /\ structure'.rows = ByPosition(Len(s)) /\ DOMAIN structure'.originals = Slots
  BY DEF Anchors, Rebased, Seeded
<1> QED  BY <1>2, <1>3 DEF WellFormed

LEMMA ResetKeeps ==
    ASSUME HistoryInv, RowsInv, Reset
    PROVE  RowsInv'
<1> DEFINE left == touched \cap Gone(defaults)
           snap == Snapshot(defaults, structure', cells, {}, generation')
<1>1. /\ items' = defaults /\ defaults' = defaults /\ Anchors(defaults, {}) /\ running' = {}
      /\ positions' = Pushed(left, snap)
  BY DEF Reset
<1>2. IsSnapshot(snap) /\ snap.form = defaults /\ snap.structure = structure'
  BY DEF IsSnapshot, Snapshot
<1> HIDE DEF snap, left
<1>3. WellList(defaults)  BY DEF RowsInv
<1>4. /\ nextRow' \in Nat /\ nextRow <= nextRow'
      /\ WellFormed(structure', Len(defaults), nextRow')
  BY <1>1, <1>3, AnchorsWell
<1>5. WellPosition(snap, nextRow')  BY <1>2, <1>3, <1>4 DEF WellPosition
<1>6. \A k \in 1 .. Len(positions') : WellPosition(positions'[k], nextRow')
  BY <1>1, <1>2, <1>4, <1>5, PushKeeps
<1> QED
  BY <1>1, <1>3, <1>4, <1>6 DEF RowsInv, WellList, WellPosition, WellFormed, WellNamed, Slots

LEMMA PositionsLater ==
    ASSUME RowsInv, nextRow' \in Nat, nextRow <= nextRow'
    PROVE  \A k \in 1 .. Len(positions) : WellPosition(positions[k], nextRow')
<1> SUFFICES ASSUME NEW k \in 1 .. Len(positions) PROVE WellPosition(positions[k], nextRow')
  OBVIOUS
<1>1. WellPosition(positions[k], nextRow) /\ nextRow \in Nat  BY DEF RowsInv
<1>2. Len(positions[k].form) \in Nat  BY <1>1, RowsAssumption DEF WellPosition, WellList
<1> QED  BY <1>1, <1>2, NamedLater DEF WellPosition

LEMMA HydrateKeeps ==
    ASSUME RowsInv, NEW v \in Fetched, Hydrate(v)
    PROVE  RowsInv'
<1>1. /\ items' = v /\ defaults' = v /\ running' = running \ Gone(v) /\ positions' = positions
      /\ \E kept : Anchors(v, kept)
  BY DEF Hydrate
<1>2. WellList(v)  BY RowsAssumption DEF WellList
<1>3. /\ nextRow' \in Nat /\ nextRow <= nextRow' /\ WellFormed(structure', Len(v), nextRow')
  BY <1>1, <1>2, AnchorsWell
<1>4. running \ Gone(v) \subseteq 1 .. Len(v)  BY <1>2, GoneLeaves
<1>5. \A k \in 1 .. Len(positions') : WellPosition(positions'[k], nextRow')
  BY <1>1, <1>3, PositionsLater
<1> QED
  BY <1>1, <1>2, <1>3, <1>4, <1>5 DEF RowsInv, WellList, WellPosition, WellFormed, WellNamed, Slots

(* The clear of the history, undo and redo, every step, and the form just   *)
(* built.                                                                   *)
LEMMA ReseedKeeps ==
    ASSUME RowsInv, Reseed, UNCHANGED <<store, ghosts>>
    PROVE  RowsInv'
<1>1. positions' = <<CaptureNext>>  BY DEF Reseed
<1>2. CaptureNext.form = items /\ CaptureNext.structure = structure
  BY DEF CaptureNext, Snapshot, store
<1> HIDE DEF CaptureNext
<1>3. WellPosition(CaptureNext, nextRow)  BY <1>2 DEF RowsInv, WellPosition
<1>4. Len(positions') = 1 /\ positions'[1] = CaptureNext  BY <1>1
<1>5. \A k \in 1 .. Len(positions') : WellPosition(positions'[k], nextRow)  BY <1>3, <1>4
<1> QED
  BY <1>5 DEF RowsInv, WellList, WellPosition, WellFormed, WellNamed, Slots, store, ghosts

LEMMA StepToKeeps ==
    ASSUME HistoryInv, RowsInv, NEW c \in 1 .. Len(positions), StepTo(c)
    PROVE  RowsInv'
<1> DEFINE snap == positions[c]
           s == snap.form
<1>1. WellPosition(snap, nextRow) /\ WellList(s)  BY DEF RowsInv, WellPosition
<1>2. Named(Len(s)) /\ defaults' = defaults  BY DEF StepTo
<1>3. /\ nextRow \in Nat /\ Len(s) \in Nat /\ nextRow' \in Nat /\ nextRow <= nextRow'
      /\ WellFormed(InPlace(s), Len(s), nextRow')
      /\ WellNamed(ByPosition(Len(s)), Len(s), nextRow')
  <2>1. Len(s) \in Nat  BY <1>1, RowsAssumption DEF WellList
  <2> HIDE DEF s
  <2> QED  BY <1>1, <1>2, <2>1, InPlaceWell, NamedByPosition DEF RowsInv
<1>4. WellFormed(RestoredStructure(snap), Len(s), nextRow')
  <2>1. WellFormed(snap.structure, Len(s), nextRow')
    BY <1>1, <1>3, NamedLater DEF WellPosition
  <2> DEFINE r == RestoredStructure(snap)
  <2>2. /\ DOMAIN r = DOMAIN snap.structure /\ r.originals = snap.structure.originals
        /\ r.rows = snap.structure.rows \/ r.rows = ByPosition(Len(s))
    BY <2>1 DEF RestoredStructure, WellFormed
  <2> HIDE DEF r, snap
  <2> QED  BY <1>3, <2>1, <2>2 DEF WellFormed, r
<1>5. PICK st, recs : /\ Positional(s, st, recs, nextToken)
                      /\ st = RestoredStructure(snap) \/ st = InPlace(s)
  BY DEF StepTo
<1>6. WellFormed(st, Len(s), nextRow')  BY <1>3, <1>4, <1>5
<1>7. items' = s /\ WellFormed(structure', Len(s), nextRow') /\ running' \subseteq 1 .. Len(s)
  <2> HIDE DEF s
  <2> QED  BY <1>1, <1>5, <1>6, PositionalKeeps
<1>8. /\ ~floorPending /\ Len(positions') = Len(positions)
      /\ \A k \in 1 .. Len(positions) :
            /\ positions'[k].form = positions[k].form
            /\ positions'[k].structure = IF k = cursor THEN structure ELSE positions[k].structure
  BY StepToFacts
<1>9. positions[cursor].form = items  BY <1>8 DEF HistoryInv
<1>10. ASSUME NEW k \in 1 .. Len(positions) PROVE WellPosition(positions'[k], nextRow')
  <2>1. WellPosition(positions[k], nextRow')  BY <1>3, PositionsLater
  <2>2. WellFormed(structure, Len(items), nextRow')
    <3>1. Len(items) \in Nat /\ WellFormed(structure, Len(items), nextRow)
      BY RowsAssumption DEF RowsInv, WellList
    <3> QED  BY <1>3, <3>1, NamedLater
  <2> QED  BY <1>8, <1>9, <2>1, <2>2 DEF WellPosition
<1> HIDE DEF s, snap
<1>11. WellList(items') /\ WellList(defaults')  BY <1>1, <1>2, <1>7 DEF RowsInv
<1>12. \A k \in 1 .. Len(positions') : WellPosition(positions'[k], nextRow')
  BY <1>8, <1>10
<1> QED
  BY <1>3, <1>7, <1>11, <1>12
  DEF RowsInv, WellList, WellPosition, WellFormed, WellNamed, Slots

(* What writes no value: a read of a key touches the tokens alone, an       *)
(* answer ends a run.                                                       *)
LEMMA QuietKeeps ==
    ASSUME RowsInv, UNCHANGED <<items, defaults, positions, nextRow>>,
           \/ structure' = structure
           \/ \E id : structure' = [structure EXCEPT !.identity = id],
           running' \subseteq running
    PROVE  RowsInv'
<1>1. /\ DOMAIN structure' = DOMAIN structure /\ structure'.rows = structure.rows
      /\ structure'.originals = structure.originals
  BY DEF RowsInv, WellFormed
<1> QED
  BY <1>1 DEF RowsInv, WellList, WellPosition, WellFormed, WellNamed, Slots

LEMMA StepKeepsRows ==
    ASSUME HistoryInv, RowsInv, [Next]_vars
    PROVE  RowsInv'
<1>1. CASE TypedOp  BY <1>1, TypedOpKeeps
<1>2. CASE \E i \in Slots, v \in Values : EditLeaf(i, v)  BY <1>2, EditLeafKeeps
<1>3. CASE \E s \in Lists, anchors \in BOOLEAN : Overwrite(s, anchors)
  BY <1>3, OverwriteKeeps
<1>4. CASE Reset  BY <1>4, ResetKeeps
<1>5. CASE \E v \in Fetched : Hydrate(v)  BY <1>5, HydrateKeeps
<1>6. CASE Undo \/ Redo
  <2>1. \E c \in 1 .. Len(positions) : StepTo(c)
    BY <1>6, RowsAssumption DEF Undo, Redo, HistoryInv
  <2> QED  BY <2>1, StepToKeeps
<1>7. CASE FloorClears \/ Clear  BY <1>7, ReseedKeeps DEF FloorClears, Clear
<1>8. CASE \/ TokenAt
           \/ \E i \in Slots : Touch(i) \/ SetErrors(i)
           \/ \E i \in Slots, judged \in BOOLEAN : Answer(i, judged)
           \/ UNCHANGED vars
  <2>1. UNCHANGED <<items, defaults, positions, nextRow>>
    BY <1>8 DEF TokenAt, Touch, SetErrors, Answer, Quiet, history, vars, store, ghosts
  <2>2. \/ structure' = structure
        \/ \E id : structure' = [structure EXCEPT !.identity = id]
    BY <1>8 DEF TokenAt, Touch, SetErrors, Answer, vars, store
  <2>3. running' \subseteq running
    BY <1>8 DEF TokenAt, Touch, SetErrors, Answer, vars, store
  <2> QED  BY <2>1, <2>2, <2>3, QuietKeeps
<1> QED  BY <1>1, <1>2, <1>3, <1>4, <1>5, <1>6, <1>7, <1>8 DEF Next

LEMMA InitRows == Init => RowsInv
<1> SUFFICES ASSUME Init PROVE RowsInv  OBVIOUS
<1>1. /\ items = InitialRows /\ defaults = InitialRows /\ structure = Construct(InitialRows)
      /\ running = {} /\ nextRow = Len(InitialRows) + 1
      /\ Len(positions) = 1 /\ positions[1].form = items
      /\ positions[1].structure = structure
  BY DEF Init, Snapshot
<1>2. WellList(InitialRows) /\ Len(InitialRows) \in Nat  BY RowsAssumption DEF WellList
<1>3. WellFormed(structure, Len(items), nextRow)
  BY <1>1, <1>2 DEF Construct, Seeded, WellFormed, WellNamed
<1>4. \A k \in 1 .. Len(positions) : WellPosition(positions[k], nextRow)
  BY <1>1, <1>2, <1>3 DEF WellPosition
<1> QED  BY <1>1, <1>2, <1>3, <1>4 DEF RowsInv

(* A typed operation takes the user errors, the runs in flight and the      *)
(* baselines along with the rows: no write between them, and no undo, leaves*)
(* two slots to one row or a run past the list, which is where an index and *)
(* its row would part.                                                      *)
THEOREM WhatIsKeyedMoves == Spec => MarksMove
<1>1. Init => HistoryInv /\ RowsInv  BY InitImplements, InitRows
<1>2. HistoryInv /\ RowsInv /\ [Next]_vars => HistoryInv' /\ RowsInv'
  BY StepImplements, StepKeepsRows
<1>3. RowsInv => [writes' # writes /\ TypedOp =>
        \A i \in DOMAIN structure.rows, j \in DOMAIN structure'.rows :
            structure.rows[i] = structure'.rows[j] =>
                /\ (i \in running) <=> (j \in running')
                /\ i \in cells.user => j \in cells'.user
                /\ j \in cells'.user => i \in cells.user \/ j > Len(items)
                /\ j \in cells'.schema => i = j /\ i \in cells.schema
                /\ structure.originals[i] = structure'.originals[j]]_vars
  BY TypedOpMoves
<1> QED  BY <1>1, <1>2, <1>3, PTL DEF Spec, MarksMove

-----------------------------------------------------------------------------
(* The types: the bookkeeping of the live list and of every position is     *)
(* well-formed, with tokens that were allocated.                            *)

(* Tokens below t, no two alike; and an identity made of such tokens, which *)
(* has none when it is not tracked.                                         *)
WellTokens(s, t) == s \in Seq(0 .. (t - 1)) /\ Len(s) <= MaxLen /\ Distinct(s)
WellIdentity(id, t) ==
    /\ id = [tracked |-> id.tracked, tokens |-> id.tokens, baseline |-> id.baseline]
    /\ id.tracked \in BOOLEAN
    /\ WellTokens(id.tokens, t) /\ WellTokens(id.baseline, t)
    /\ ~id.tracked => id = Untracked

(* Members of a finite set of numbers, counted from below.                   *)
LEMMA Ranked ==
    ASSUME NEW n \in Nat, NEW A \in SUBSET (1 .. n)
    PROVE  /\ Cardinality(A) \in Nat
           /\ \A j \in A : Cardinality({k \in A : k < j}) \in 0 .. (Cardinality(A) - 1)
           /\ \A j, l \in A : Cardinality({k \in A : k < j}) = Cardinality({k \in A : k < l})
                                => j = l
<1> DEFINE below(j) == {k \in A : k < j}
<1>0. \A k \in A : k \in Nat  OBVIOUS
<1>1. IsFiniteSet(A) /\ Cardinality(A) \in Nat
  <2>1. IsFiniteSet(1 .. n)  BY FS_Interval
  <2>2. IsFiniteSet(A)  BY <2>1, FS_Subset
  <2> QED  BY <2>2, FS_CardinalityType
<1>2. ASSUME NEW j \in A
      PROVE  IsFiniteSet(below(j)) /\ Cardinality(below(j)) \in Nat
             /\ Cardinality(below(j)) < Cardinality(A)
  <2>1. below(j) \in SUBSET A /\ below(j) # A  OBVIOUS
  <2> HIDE DEF below
  <2>2. IsFiniteSet(below(j)) /\ Cardinality(below(j)) <= Cardinality(A)
        /\ Cardinality(A) # Cardinality(below(j))
    BY <1>1, <2>1, FS_Subset
  <2> QED  BY <1>1, <2>2, FS_CardinalityType
<1>3. ASSUME NEW j \in A, NEW l \in A, j < l
      PROVE  Cardinality(below(j)) < Cardinality(below(l))
  <2>1. below(j) \in SUBSET below(l) /\ j \in below(l) /\ j \notin below(j)
    <3>1. j \in Nat /\ l \in Nat  BY <1>0
    <3>2. \A k \in A : k < j => k < l  BY <1>0, <1>3, <3>1
    <3>3. ~(j < j)  BY <3>1
    <3> QED  BY <1>3, <3>2, <3>3
  <2>2. IsFiniteSet(below(l))  BY <1>2
  <2>3. Cardinality(below(j)) \in Nat /\ Cardinality(below(l)) \in Nat  BY <1>2
  <2> HIDE DEF below
  <2>4. Cardinality(below(j)) <= Cardinality(below(l))
        /\ Cardinality(below(l)) # Cardinality(below(j))
    BY <2>1, <2>2, FS_Subset
  <2> QED  BY <2>3, <2>4
<1>4. \A j, l \in A : Cardinality(below(j)) = Cardinality(below(l)) => j = l
  <2> SUFFICES ASSUME NEW j \in A, NEW l \in A,
                      Cardinality(below(j)) = Cardinality(below(l)), j # l
               PROVE  FALSE
    OBVIOUS
  <2>1. j < l \/ l < j  OBVIOUS
  <2>2. Cardinality(below(j)) \in Nat /\ Cardinality(below(l)) \in Nat  BY <1>2
  <2> HIDE DEF below
  <2> QED  BY <1>3, <2>1, <2>2
<1>5. \A j \in A : Cardinality(below(j)) \in 0 .. (Cardinality(A) - 1)
  <2> HIDE DEF below
  <2> QED  BY <1>1, <1>2
<1> QED  BY <1>1, <1>4, <1>5

(* ensure: what is there stays, a grown slot takes the key the baseline has *)
(* there, if none of the rows carries it, or a new one, and no two slots    *)
(* have the same.                                                           *)
LEMMA EnsureFacts ==
    ASSUME NEW id, NEW n \in 0 .. MaxLen, NEW t \in Nat, WellIdentity(id, t)
    PROVE  LET e == Ensure(id, n, t) IN
           /\ Used(id, n) \in Nat /\ (n <= Len(id.tokens) => Used(id, n) = 0)
           /\ WellIdentity(e, t + Used(id, n)) /\ e.tracked /\ Len(e.tokens) = n
           /\ DOMAIN e.tokens = 1 .. n
           /\ \A j \in 1 .. n :
                 IF j <= Len(id.tokens) THEN e.tokens[j] = id.tokens[j]
                 ELSE IF Anchored(id, j) THEN e.tokens[j] = id.baseline[j]
                 ELSE e.tokens[j] >= t
           /\ e.baseline = IF id.tracked THEN id.baseline ELSE e.tokens
<1> DEFINE e == Ensure(id, n, t)
           A == Allocated(id, n)
           u == Used(id, n)
           rank(j) == Cardinality({k \in A : k < j})
<1>1. /\ id.tokens \in Seq(0 .. (t - 1)) /\ id.baseline \in Seq(0 .. (t - 1))
      /\ Distinct(id.tokens) /\ Distinct(id.baseline) /\ id.tracked \in BOOLEAN
      /\ Len(id.tokens) <= MaxLen /\ Len(id.baseline) <= MaxLen
  BY DEF WellIdentity, WellTokens
<1>2. /\ Len(id.tokens) \in Nat /\ DOMAIN id.tokens = 1 .. Len(id.tokens)
      /\ Len(id.baseline) \in Nat /\ DOMAIN id.baseline = 1 .. Len(id.baseline)
  BY <1>1, LenProperties
<1>3. /\ \A j \in 1 .. Len(id.tokens) : id.tokens[j] \in 0 .. (t - 1)
      /\ \A j \in 1 .. Len(id.baseline) : id.baseline[j] \in 0 .. (t - 1)
  BY <1>1, ElementOfSeq
<1>4. n \in Nat /\ A \in SUBSET (1 .. n) /\ \A j \in 1 .. n :
        j \in A <=> j > Len(id.tokens) /\ ~Anchored(id, j)
  BY RowsAssumption DEF Allocated
<1>5. /\ u \in Nat
      /\ \A j \in A : rank(j) \in 0 .. (u - 1)
      /\ \A j, l \in A : rank(j) = rank(l) => j = l
  <2> HIDE DEF A
  <2>1. u = Cardinality(A)  BY DEF A, Used
  <2>2. /\ Cardinality(A) \in Nat
        /\ \A j \in A : Cardinality({k \in A : k < j}) \in 0 .. (Cardinality(A) - 1)
        /\ \A j, l \in A : Cardinality({k \in A : k < j}) = Cardinality({k \in A : k < l})
                             => j = l
    BY <1>4, Ranked
  <2> QED  BY <2>1, <2>2
<1>6. /\ e.tracked = TRUE /\ e.baseline = IF id.tracked THEN id.baseline ELSE e.tokens
      /\ e.tokens = [j \in 1 .. n |->
                      IF j <= Len(id.tokens) THEN id.tokens[j]
                      ELSE IF Anchored(id, j) THEN id.baseline[j] ELSE t + rank(j)]
      /\ e = [tracked |-> e.tracked, tokens |-> e.tokens, baseline |-> e.baseline]
  BY DEF Ensure
<1>7. \A j \in 1 .. n : Anchored(id, j) =>
        j \in 1 .. Len(id.baseline) /\ \A i \in 1 .. Len(id.tokens) : id.tokens[i] # id.baseline[j]
  BY <1>2 DEF Anchored, Held
<1>8. n <= Len(id.tokens) => u = 0
  <2> SUFFICES ASSUME n <= Len(id.tokens) PROVE u = 0  OBVIOUS
  <2>1. A = {}  BY <1>2, <1>4
  <2> QED  BY <2>1, FS_EmptySet DEF Used
<1> DEFINE f == e.tokens
<1> HIDE DEF e, A, u, rank
<1>9. \A j \in 1 .. n :
        \/ j \in 1 .. Len(id.tokens) /\ f[j] = id.tokens[j]
        \/ j > Len(id.tokens) /\ Anchored(id, j) /\ f[j] = id.baseline[j]
        \/ j \in A /\ f[j] = t + rank(j)
  BY <1>2, <1>4, <1>6
<1> HIDE DEF f
<1>10. ASSUME NEW j \in 1 .. n PROVE f[j] \in 0 .. (t + u - 1)
  <2>1. CASE j \in 1 .. Len(id.tokens) /\ f[j] = id.tokens[j]
    BY <1>3, <1>5, <2>1
  <2>2. CASE j > Len(id.tokens) /\ Anchored(id, j) /\ f[j] = id.baseline[j]
    BY <1>3, <1>5, <1>7, <2>2
  <2>3. CASE j \in A /\ f[j] = t + rank(j)
    <3>1. rank(j) \in 0 .. (u - 1)  BY <1>5, <2>3
    <3> QED  BY <1>5, <2>3, <3>1
  <2> QED  BY <1>9, <2>1, <2>2, <2>3
<1>11. f = [j \in 1 .. n |-> f[j]]  BY <1>6 DEF f
<1>12. f \in Seq(0 .. (t + u - 1)) /\ Len(f) = n /\ DOMAIN f = 1 .. n
  <2>1. f \in [1 .. n -> 0 .. (t + u - 1)]  BY <1>10, <1>11
  <2> QED  BY <1>4, <2>1, Tabulated
<1>13. Distinct(f)
  <2>1. \A j \in A : f[j] = t + rank(j) => f[j] >= t  BY <1>5
  <2>2. \A i, k \in 1 .. Len(id.tokens) : id.tokens[i] = id.tokens[k] => i = k
    BY <1>1, <1>2 DEF Distinct
  <2>3. \A i, k \in 1 .. Len(id.baseline) : id.baseline[i] = id.baseline[k] => i = k
    BY <1>1, <1>2 DEF Distinct
  <2>4. \A j, l \in A : t + rank(j) = t + rank(l) => j = l
    <3> SUFFICES ASSUME NEW j \in A, NEW l \in A, t + rank(j) = t + rank(l) PROVE j = l
      OBVIOUS
    <3>1. rank(j) \in Nat /\ rank(l) \in Nat  BY <1>5
    <3>2. rank(j) = rank(l)  BY <3>1
    <3> QED  BY <1>5, <3>2
  <2>5. \A i \in 1 .. Len(id.tokens) : ~(id.tokens[i] >= t)  BY <1>3
  <2>6. \A i \in 1 .. Len(id.baseline) : ~(id.baseline[i] >= t)  BY <1>3
  <2> SUFFICES ASSUME NEW i \in 1 .. n, NEW j \in 1 .. n, f[i] = f[j] PROVE i = j
    BY <1>12 DEF Distinct
  <2>7. CASE i \in 1 .. Len(id.tokens) /\ f[i] = id.tokens[i]
    BY <1>7, <1>9, <2>1, <2>2, <2>5, <2>7
  <2>8. CASE i > Len(id.tokens) /\ Anchored(id, i) /\ f[i] = id.baseline[i]
    BY <1>7, <1>9, <2>1, <2>3, <2>6, <2>8
  <2>9. CASE i \in A /\ f[i] = t + rank(i)
    <3>1. f[j] >= t  BY <2>1, <2>9
    <3>2. j \in A /\ f[j] = t + rank(j)  BY <1>7, <1>9, <2>5, <2>6, <3>1
    <3> QED  BY <2>4, <2>9, <3>2
  <2> QED  BY <1>9, <2>7, <2>8, <2>9
<1>14. WellTokens(f, t + u)  BY <1>4, <1>5, <1>12, <1>13, RowsAssumption DEF WellTokens
<1>15. WellTokens(id.baseline, t + u)
  <2>1. 0 .. (t - 1) \subseteq 0 .. (t + u - 1)  BY <1>5
  <2>2. id.baseline \in Seq(0 .. (t + u - 1))  BY <1>1, <2>1, SeqMonotonic
  <2> QED  BY <1>1, <1>5, <2>2 DEF WellTokens
<1>16. WellIdentity(e, t + u)  BY <1>1, <1>6, <1>14, <1>15 DEF WellIdentity, f
<1>17. \A j \in 1 .. n :
         IF j <= Len(id.tokens) THEN f[j] = id.tokens[j]
         ELSE IF Anchored(id, j) THEN f[j] = id.baseline[j]
         ELSE f[j] >= t
  BY <1>2, <1>4, <1>5, <1>9
<1> QED  BY <1>5, <1>6, <1>8, <1>12, <1>16, <1>17 DEF e, u, f

(* The bookkeeping of a list, of n slots or not, with tokens below t.       *)
WellKept(st, t) ==
    /\ WellIdentity(st.identity, t)
    /\ st.originals \in [Slots -> Values \cup {Absent}]
    /\ st.removed \subseteq Slots
WellCells(cs) ==
    /\ cs = [user |-> cs.user, schema |-> cs.schema]
    /\ cs.user \subseteq Slots /\ cs.schema \subseteq Slots
WellRecorded(p, t) ==
    WellKept(p.structure, t) /\ p.records \subseteq Slots /\ WellCells(p.cells)

(* The types the proof needs: TypeOK, and the same of every position that   *)
(* can be restored.                                                         *)
TypeInv ==
    /\ nextToken \in Nat
    /\ WellKept(structure, nextToken) /\ touched \subseteq Slots /\ WellCells(cells)
    /\ WellNamed(baseRows, Len(defaults), nextRow)
    /\ touchedRows \subseteq 0 .. (nextRow - 1)
    /\ \A k \in 1 .. Len(positions) : WellRecorded(positions[k], nextToken)

(* Tokens allocated so far are still so when more have been: of a list, of  *)
(* an identity and of a position.                                           *)
LEMMA TokensLater ==
    ASSUME NEW t \in Nat, NEW u \in Nat, t <= u, NEW s, WellTokens(s, t)
    PROVE  WellTokens(s, u)
<1>1. 0 .. (t - 1) \subseteq 0 .. (u - 1)  OBVIOUS
<1>2. s \in Seq(0 .. (u - 1))  BY <1>1, SeqMonotonic DEF WellTokens
<1> QED  BY <1>2 DEF WellTokens

LEMMA IdentityLater ==
    ASSUME NEW t \in Nat, NEW u \in Nat, t <= u, NEW id, WellIdentity(id, t)
    PROVE  WellIdentity(id, u)
BY TokensLater DEF WellIdentity

LEMMA RecordedLater ==
    ASSUME NEW t \in Nat, NEW u \in Nat, t <= u, NEW p, WellRecorded(p, t)
    PROVE  WellRecorded(p, u)
BY IdentityLater DEF WellRecorded, WellKept

(* A list that has no tokens yet.                                           *)
LEMMA UntrackedWell ==
    ASSUME NEW t \in Nat
    PROVE  WellIdentity(Untracked, t)
<1>1. <<>> \in Seq(0 .. (t - 1)) /\ Len(<<>>) = 0 /\ DOMAIN <<>> = {}  OBVIOUS
<1>2. WellTokens(<<>>, t)  BY <1>1, RowsAssumption DEF WellTokens, Distinct
<1> QED  BY <1>2 DEF WellIdentity, Untracked

(* The tokens after an operation: a survivor's goes with it, a fresh slot   *)
(* has one never allocated before.                                          *)
OneFresh(m) ==
    /\ m.fresh = {} \/ \E a : m.fresh = {a}
    /\ m.oldLen <= MaxLen /\ m.newLen <= MaxLen
ReplayedAs(m, rp, e, u, t) ==
    /\ rp.tracked /\ Len(rp.tokens) = m.newLen /\ DOMAIN rp.tokens = 1 .. m.newLen
    /\ rp.baseline = e.baseline
    /\ \A j \in 1 .. m.newLen :
          \/ j \in m.fresh /\ rp.tokens[j] = t + u
          \/ \E i \in Survivors(m) : Dest(m, i) = j /\ rp.tokens[j] = e.tokens[i]

(* replayIdentity: what ReplayedAs says of the tokens, and that they are    *)
(* well-formed.                                                             *)
LEMMA ReplayedFacts ==
    ASSUME NEW id, NEW t \in Nat, WellIdentity(id, t), NEW m, IsBijection(m), OneFresh(m)
    PROVE  /\ Used(id, m.oldLen) \in Nat /\ Cardinality(m.fresh) \in Nat
           /\ WellIdentity(Replayed(id, m, t),
                           t + Used(id, m.oldLen) + Cardinality(m.fresh))
           /\ ReplayedAs(m, Replayed(id, m, t), Ensure(id, m.oldLen, t), Used(id, m.oldLen), t)
<1> DEFINE r == Replayed(id, m, t)
           e == Ensure(id, m.oldLen, t)
           u == Used(id, m.oldLen)
           c == Cardinality(m.fresh)
           f == PermuteList(e.tokens, m, t + u)
<1>1. /\ m.oldLen \in 0 .. MaxLen /\ m.newLen \in 0 .. MaxLen /\ m.newLen \in Nat
      /\ Survivors(m) \subseteq 1 .. m.oldLen
  BY RowsAssumption DEF IsBijection, Survivors, OneFresh
<1>2. /\ u \in Nat /\ WellIdentity(e, t + u) /\ e.tracked /\ Len(e.tokens) = m.oldLen
      /\ DOMAIN e.tokens = 1 .. m.oldLen
  <2> DEFINE n == m.oldLen
  <2>1. n \in 0 .. MaxLen  BY <1>1
  <2> HIDE DEF n
  <2>2. /\ Used(id, n) \in Nat /\ WellIdentity(Ensure(id, n, t), t + Used(id, n))
        /\ Ensure(id, n, t).tracked /\ Len(Ensure(id, n, t).tokens) = n
        /\ DOMAIN Ensure(id, n, t).tokens = 1 .. n
    BY ONLY <2>1, EnsureFacts, t \in Nat, WellIdentity(id, t)
  <2> QED  BY <2>2 DEF n
<1>3. c \in Nat /\ (m.fresh # {} => c = 1) /\ \A a, b \in m.fresh : a = b
  <2>1. CASE m.fresh = {}
    <3>1. Cardinality({}) = 0  BY FS_EmptySet
    <3> QED  BY <2>1, <3>1
  <2>2. CASE \E a : m.fresh = {a}
    <3>1. PICK a : m.fresh = {a}  BY <2>2
    <3>2. Cardinality({a}) = 1  BY FS_Singleton
    <3> QED  BY <3>1, <3>2
  <2> QED  BY <2>1, <2>2 DEF OneFresh
<1>4. /\ r = [e EXCEPT !.tokens = f]
      /\ e = [tracked |-> e.tracked, tokens |-> e.tokens, baseline |-> e.baseline]
  BY DEF Replayed, Ensure
<1>5. \A j \in 1 .. m.newLen :
         \/ j \in m.fresh /\ f[j] = t + u
         \/ \E i \in Survivors(m) : Dest(m, i) = j /\ f[j] = e.tokens[i]
  <2> DEFINE list == e.tokens
             fill == t + u
  <2> HIDE DEF list, fill
  <2>1. \A j \in 1 .. m.newLen :
           \/ j \in m.fresh /\ PermuteList(list, m, fill)[j] = fill
           \/ \E i \in Survivors(m) :
                 Dest(m, i) = j /\ PermuteList(list, m, fill)[j] = list[i]
    BY PermutationCarries
  <2> QED  BY <2>1 DEF list, fill
<1>6. f = [j \in 1 .. m.newLen |-> f[j]]  BY DEF PermuteList
<1> HIDE DEF e, u, c, f
<1>7. /\ r.tracked = e.tracked /\ r.tokens = f /\ r.baseline = e.baseline
      /\ r = [tracked |-> r.tracked, tokens |-> r.tokens, baseline |-> r.baseline]
  BY <1>4
<1>8. /\ \A i \in 1 .. m.oldLen : e.tokens[i] \in 0 .. (t + u - 1) /\ ~(e.tokens[i] >= t + u)
      /\ \A i, k \in 1 .. m.oldLen : e.tokens[i] = e.tokens[k] => i = k
  <2>1. e.tokens \in Seq(0 .. (t + u - 1)) /\ Distinct(e.tokens)
    BY <1>2 DEF WellIdentity, WellTokens
  <2>2. \A i \in 1 .. m.oldLen : e.tokens[i] \in 0 .. (t + u - 1)  BY <1>2, <2>1, ElementOfSeq
  <2>3. t + u \in Nat  BY <1>2
  <2>4. \A i \in 1 .. m.oldLen : ~(e.tokens[i] >= t + u)  BY <1>2, <2>2, <2>3
  <2>5. \A i, k \in 1 .. m.oldLen : e.tokens[i] = e.tokens[k] => i = k
    BY <1>2, <2>1 DEF Distinct
  <2> QED  BY <2>2, <2>4, <2>5
<1>9. \A j \in 1 .. m.newLen : f[j] \in 0 .. (t + u + c - 1)
  <2> SUFFICES ASSUME NEW j \in 1 .. m.newLen PROVE f[j] \in 0 .. (t + u + c - 1)  OBVIOUS
  <2>1. CASE j \in m.fresh /\ f[j] = t + u  BY <1>2, <1>3, <2>1
  <2>2. CASE \E i \in Survivors(m) : Dest(m, i) = j /\ f[j] = e.tokens[i]
    BY <1>1, <1>2, <1>3, <1>8, <2>2
  <2> QED  BY <1>5, <2>1, <2>2
<1>10. \A j, k \in 1 .. m.newLen : f[j] = f[k] => j = k
  <2> SUFFICES ASSUME NEW j \in 1 .. m.newLen, NEW k \in 1 .. m.newLen, f[j] = f[k]
               PROVE  j = k
    OBVIOUS
  <2>1. \A i \in Survivors(m) : e.tokens[i] # t + u  BY <1>1, <1>2, <1>8
  <2>2. CASE j \in m.fresh /\ f[j] = t + u
    BY <1>3, <1>5, <2>1, <2>2
  <2>3. CASE \E i \in Survivors(m) : Dest(m, i) = j /\ f[j] = e.tokens[i]
    <3>1. PICK i \in Survivors(m) : Dest(m, i) = j /\ f[j] = e.tokens[i]  BY <2>3
    <3>2. PICK l \in Survivors(m) : Dest(m, l) = k /\ f[k] = e.tokens[l]
      BY <1>5, <2>1, <3>1
    <3> QED  BY <1>1, <1>8, <3>1, <3>2
  <2> QED  BY <1>5, <2>2, <2>3
<1>11. f \in Seq(0 .. (t + u + c - 1)) /\ Len(f) = m.newLen /\ DOMAIN f = 1 .. m.newLen
  <2>1. f \in [1 .. m.newLen -> 0 .. (t + u + c - 1)]  BY <1>6, <1>9
  <2> QED  BY <1>1, <2>1, Tabulated
<1>12. WellTokens(f, t + u + c)
  BY <1>1, <1>2, <1>3, <1>10, <1>11 DEF WellTokens, Distinct
<1>13. WellTokens(e.baseline, t + u + c)
  <2>1. WellTokens(e.baseline, t + u) /\ t + u \in Nat /\ t + u + c \in Nat /\ t + u <= t + u + c
    BY <1>2, <1>3 DEF WellIdentity
  <2> QED  BY <2>1, TokensLater
<1>14. WellIdentity(r, t + u + c)  BY <1>2, <1>7, <1>12, <1>13 DEF WellIdentity
<1>15. ReplayedAs(m, r, e, u, t)  BY <1>2, <1>5, <1>7, <1>11 DEF ReplayedAs
<1> QED  BY <1>2, <1>3, <1>14, <1>15 DEF e, u, c

(* realignContaining and rebaseline.                                        *)
LEMMA RealignedFacts ==
    ASSUME NEW id, NEW t \in Nat, WellIdentity(id, t), NEW n \in 0 .. MaxLen
    PROVE  /\ RealignUses(id, n) \in Nat
           /\ WellIdentity(Realigned(id, n, t), t + RealignUses(id, n))
           /\ WellIdentity(Rebaselined(Realigned(id, n, t)), t + RealignUses(id, n))
<1> DEFINE r == Realigned(id, n, t)
           u == RealignUses(id, n)
           b == Rebaselined(r)
<1>1. u \in Nat /\ WellIdentity(r, t + u)
  <2>1. CASE id.tracked  BY <2>1, EnsureFacts DEF Realigned, RealignUses
  <2>2. CASE ~id.tracked  BY <2>2 DEF Realigned, RealignUses
  <2> QED  BY <2>1, <2>2
<1> HIDE DEF r, u
<1>2. /\ b.tracked = r.tracked /\ b.tokens = r.tokens /\ b.baseline = r.tokens
      /\ b = [tracked |-> b.tracked, tokens |-> b.tokens, baseline |-> b.baseline]
  BY <1>1 DEF Rebaselined, WellIdentity
<1>3. ~r.tracked => b = Untracked
  BY <1>1, <1>2 DEF WellIdentity, Untracked
<1> HIDE DEF b
<1>4. WellIdentity(b, t + u)  BY <1>1, <1>2, <1>3 DEF WellIdentity
<1> QED  BY <1>1, <1>4 DEF r, u, b

(* A migration stays inside the slots.                                      *)
LEMMA MigratesInside ==
    ASSUME NEW m, IsBijection(m), m.newLen <= MaxLen, NEW S, S \subseteq Slots, NEW has
    PROVE  MigrateSet(S, m, has) \subseteq Slots /\ Carry(S, m, has) \subseteq Slots
<1>1. Landing(S, m) \subseteq Slots
  BY RowsAssumption DEF Landing, IsBijection, Dest, Slots
<1> QED  BY <1>1 DEF MigrateSet, Carry

(* A write leaves well-formed positions.                                    *)
LEMMA PushRecorded ==
    ASSUME HistoryInv, TypeInv, NEW left, left \subseteq Slots, NEW snap, IsSnapshot(snap),
           positions' = Pushed(left, snap), nextToken' \in Nat, nextToken <= nextToken',
           WellRecorded(snap, nextToken')
    PROVE  \A k \in 1 .. Len(positions') : WellRecorded(positions'[k], nextToken')
<1> DEFINE n == NewCursor
           q == Pushed(left, snap)
<1>1. /\ Len(q) = n /\ q[n] = snap
      /\ \A k \in 1 .. (n - 1) : LET i == k + cursor + 1 - n IN
            /\ q[k].structure = positions[i].structure /\ q[k].cells = positions[i].cells
            /\ q[k].records = positions[i].records \cup (IF k = n - 1 THEN left ELSE {})
  BY PushedFacts
<1>2. n \in Nat /\ \A k \in 1 .. (n - 1) : k + cursor + 1 - n \in 1 .. Len(positions)
  BY RowsAssumption DEF HistoryInv, NewCursor
<1> HIDE DEF q, n
<1>3. ASSUME NEW k \in 1 .. (n - 1) PROVE WellRecorded(q[k], nextToken')
  <2> DEFINE p == positions[k + cursor + 1 - n]
  <2>1. WellRecorded(p, nextToken')  BY <1>2, RecordedLater DEF TypeInv
  <2>2. /\ q[k].structure = p.structure /\ q[k].cells = p.cells
        /\ q[k].records \subseteq p.records \cup left
    BY <1>1
  <2> HIDE DEF p
  <2> QED  BY <2>1, <2>2 DEF WellRecorded
<1>4. \A k \in 1 .. n : k = n \/ k \in 1 .. (n - 1)  BY <1>2
<1> QED  BY <1>1, <1>3, <1>4 DEF q

(* What an action has to show for the type invariant after a write.         *)
LEMMA RecordTyped ==
    ASSUME HistoryInv, RowsInv, TypeInv, NEW left, left \subseteq Slots, Record(left),
           nextToken' \in Nat, nextToken <= nextToken', nextRow' \in Nat, nextRow <= nextRow',
           WellKept(structure', nextToken'), touched' \subseteq Slots, WellCells(cells'),
           UNCHANGED <<defaults, baseRows, touchedRows>>
    PROVE  TypeInv'
<1> DEFINE snap == CaptureNext
<1>1. /\ IsSnapshot(snap) /\ snap.structure = structure' /\ snap.cells = cells'
      /\ snap.records = touched'
  BY DEF IsSnapshot, CaptureNext, Snapshot
<1>2. positions' = Pushed(left, snap)  BY DEF Record
<1> HIDE DEF snap
<1>3. WellRecorded(snap, nextToken')  BY <1>1 DEF WellRecorded
<1>4. \A k \in 1 .. Len(positions') : WellRecorded(positions'[k], nextToken')
  BY <1>1, <1>2, <1>3, PushRecorded
<1>5. 0 .. (nextRow - 1) \subseteq 0 .. (nextRow' - 1)
  <2>1. nextRow \in Nat  BY DEF RowsInv
  <2>2. nextRow' \in Nat /\ nextRow <= nextRow'  OBVIOUS
  <2> DEFINE a == nextRow
             b == nextRow'
  <2>3. a \in Nat /\ b \in Nat /\ a <= b  BY <2>1, <2>2
  <2> HIDE DEF a, b
  <2>4. 0 .. (a - 1) \subseteq 0 .. (b - 1)  BY ONLY <2>3
  <2> QED  BY <2>4 DEF a, b
<1> QED
  BY <1>4, <1>5
  DEF TypeInv, WellKept, WellIdentity, WellTokens, WellCells, WellRecorded, WellNamed, Slots

(* The baselines a typed operation carries are values or absent.            *)
LEMMA OriginalsTyped ==
    ASSUME TypeInv, NEW m, IsBijection(m), m.oldLen <= MaxLen
    PROVE  CarriedOriginals(m) \in [Slots -> Values \cup {Absent}]
<1> DEFINE o == structure.originals
           V == Values \cup {Absent}
           f == MigrateMap(o, m, Absent)
<1>1. o \in [Slots -> V] /\ Absent \in V  BY DEF TypeInv, WellKept
<1>2. DOMAIN m.moved \subseteq Slots
  BY RowsAssumption DEF IsBijection, Survivors, Slots
<1> HIDE DEF o, V
<1>3. f = [j \in Slots |->
             IF \E i \in DOMAIN m.moved : m.moved[i] = j
             THEN o[CHOOSE i \in DOMAIN m.moved : m.moved[i] = j]
             ELSE IF j \in Touches(m) THEN Absent ELSE o[j]]
  BY <1>1 DEF MigrateMap
<1> HIDE DEF f
<1>4. ASSUME NEW j \in Slots PROVE f[j] \in V
  <2>1. CASE \E i \in DOMAIN m.moved : m.moved[i] = j
    <3> DEFINE i == CHOOSE i \in DOMAIN m.moved : m.moved[i] = j
    <3>1. i \in Slots  BY <1>2, <2>1
    <3> HIDE DEF i
    <3>2. f[j] = o[i]  BY <1>3, <2>1 DEF i
    <3> QED  BY <1>1, <3>1, <3>2
  <2>2. CASE ~\E i \in DOMAIN m.moved : m.moved[i] = j  BY <1>1, <1>3, <2>2
  <2> QED  BY <2>1, <2>2
<1>5. f \in [Slots -> V]  BY <1>3, <1>4
<1> QED  BY <1>1, <1>5 DEF CarriedOriginals, o, V, f

(* A typed operation keeps the types.                                       *)
LEMMA TypedOpTyped ==
    ASSUME HistoryInv, RowsInv, TypeInv, TypedOp
    PROVE  TypeInv'
<1>1. PICK m, s : OpRemap(m) /\ s \in Seq(Values) /\ Len(s) = m.newLen /\ Typed(m, s)
  BY TypedOpIsTyped
<1>2. /\ IsBijection(m) /\ m.oldLen <= MaxLen /\ m.newLen <= MaxLen
      /\ m.fresh = {} \/ \E a : m.fresh = {a}
  <2>1. Len(items) <= MaxLen  BY RowsAssumption DEF RowsInv, WellList
  <2>2. m.newLen <= MaxLen  BY <1>1 DEF Typed
  <2> QED  BY <1>1, <2>1, <2>2 DEF OpRemap
<1>3. /\ structure' = [rows |-> PermuteList(structure.rows, m, nextRow),
                       identity |-> Replayed(structure.identity, m, nextToken),
                       originals |-> CarriedOriginals(m),
                       removed |-> Carry(structure.removed, m, structure.removed)]
      /\ nextToken' = nextToken + Used(structure.identity, m.oldLen) + Cardinality(m.fresh)
      /\ touched' = Carry(touched, m, touched \cup DOMAIN items)
      /\ cells'.user = Carry(cells.user, m, cells.user \cup cells.schema)
      /\ cells'.schema \subseteq cells.schema
      /\ cells' = [user |-> cells'.user, schema |-> cells'.schema]
      /\ Record(touched \cap m.vacated)
      /\ UNCHANGED <<defaults, baseRows, touchedRows>>
  BY <1>1 DEF Typed
<1>4. nextToken \in Nat /\ WellIdentity(structure.identity, nextToken)
  BY DEF TypeInv, WellKept
<1>5. /\ Used(structure.identity, m.oldLen) \in Nat /\ Cardinality(m.fresh) \in Nat
      /\ WellIdentity(Replayed(structure.identity, m, nextToken), nextToken')
  <2>1. OneFresh(m)  BY <1>2 DEF OneFresh
  <2> QED  BY <1>2, <1>3, <1>4, <2>1, ReplayedFacts
<1>6. nextToken' \in Nat /\ nextToken <= nextToken'  BY <1>3, <1>4, <1>5
<1>7. WellKept(structure', nextToken')
  <2>1. structure.removed \subseteq Slots  BY DEF TypeInv, WellKept
  <2>2. Carry(structure.removed, m, structure.removed) \subseteq Slots
    BY <1>2, <2>1, MigratesInside
  <2>3. CarriedOriginals(m) \in [Slots -> Values \cup {Absent}]  BY <1>2, OriginalsTyped
  <2> QED  BY <1>3, <1>5, <2>2, <2>3 DEF WellKept
<1>8. touched' \subseteq Slots  BY <1>2, <1>3, MigratesInside DEF TypeInv
<1>9. WellCells(cells')
  <2>1. cells.user \subseteq Slots /\ cells.schema \subseteq Slots  BY DEF TypeInv, WellCells
  <2>2. Carry(cells.user, m, cells.user \cup cells.schema) \subseteq Slots
    BY <1>2, <2>1, MigratesInside
  <2>3. cells'.user \subseteq Slots  BY <1>3, <2>2
  <2> QED  BY <1>3, <2>1, <2>3 DEF WellCells
<1>10. nextRow' \in Nat /\ nextRow <= nextRow'  BY <1>1, RowsPermuted
<1>11. touched \cap m.vacated \subseteq Slots  BY DEF TypeInv
<1> QED  BY <1>3, <1>6, <1>7, <1>8, <1>9, <1>10, <1>11, RecordTyped

(* Positional writes: what they leave of the bookkeeping they find.         *)
LEMMA PositionalTyped ==
    ASSUME NEW s, NEW st, NEW recs, NEW t \in Nat, WellList(s), WellKept(st, t),
           {"rows", "identity", "originals", "removed"} = DOMAIN st,
           Len(items) \in 0 .. MaxLen, recs \subseteq Slots, Positional(s, st, recs, t)
    PROVE  /\ nextToken' \in Nat /\ t <= nextToken'
           /\ WellKept(structure', nextToken') /\ touched' \subseteq Slots
<1> DEFINE resized == Len(s) # Len(items)
           id == IF resized THEN Realigned(st.identity, Len(s), t) ELSE st.identity
           u == IF resized THEN RealignUses(st.identity, Len(s)) ELSE 0
           v == st.removed \cup {i \in Gone(s) : st.originals[i] # Absent}
<1>1. /\ touched' = recs \ Gone(s) /\ nextToken' = t + u
      /\ structure' = [st EXCEPT !.removed = v, !.identity = id]
  BY DEF Positional
<1>2. Len(s) \in 0 .. MaxLen  BY DEF WellList
<1>3. WellIdentity(st.identity, t) /\ st.removed \subseteq Slots
      /\ st.originals \in [Slots -> Values \cup {Absent}]
  BY DEF WellKept
<1>4. u \in Nat /\ WellIdentity(id, t + u)
  <2>1. CASE resized  BY <1>2, <1>3, <2>1, RealignedFacts
  <2>2. CASE ~resized  BY <1>3, <2>2
  <2> QED  BY <2>1, <2>2
<1>5. v \subseteq Slots
  <2>1. Gone(s) \subseteq Slots  BY <1>2, RowsAssumption DEF Gone, Slots
  <2> QED  BY <1>3, <2>1
<1> HIDE DEF id, u, v
<1>6. structure'.identity = id /\ structure'.removed = v /\ structure'.originals = st.originals
  BY <1>1
<1> QED  BY <1>1, <1>3, <1>4, <1>5, <1>6 DEF WellKept

(* A whole-list write keeps the types.                                      *)
LEMMA OverwriteTyped ==
    ASSUME HistoryInv, RowsInv, TypeInv, NEW s \in Lists, NEW anchors \in BOOLEAN,
           Overwrite(s, anchors)
    PROVE  TypeInv'
<1> DEFINE id == structure.identity
           n == Len(items)
           eid == IF anchors THEN Ensure(id, n, nextToken) ELSE id
           t == nextToken + (IF anchors THEN Used(id, n) ELSE 0)
           st == [InPlace(s) EXCEPT !.identity = eid]
<1>1. /\ Positional(s, st, touched, t) /\ Record(touched \cap Gone(s)) /\ Named(Len(s))
      /\ UNCHANGED <<defaults, cells, baseRows, touchedRows>>
  <2>1. st = [InPlace(s) EXCEPT !.identity =
                  IF anchors THEN Ensure(id, Len(items), nextToken) ELSE id]
    OBVIOUS
  <2> HIDE DEF st
  <2> QED  BY <2>1 DEF Overwrite
<1>2. /\ nextToken \in Nat /\ WellIdentity(id, nextToken) /\ n \in 0 .. MaxLen
      /\ structure.originals \in [Slots -> Values \cup {Absent}]
      /\ structure.removed \subseteq Slots /\ touched \subseteq Slots
  BY DEF TypeInv, WellKept, RowsInv, WellList
<1>3. t \in Nat /\ nextToken <= t /\ WellIdentity(eid, t)
  <2> HIDE DEF id, n
  <2>1. CASE anchors  BY <1>2, <2>1, EnsureFacts
  <2>2. CASE ~anchors  BY <1>2, <2>2
  <2> QED  BY <2>1, <2>2
<1>4. /\ DOMAIN st = {"rows", "identity", "originals", "removed"} /\ st.identity = eid
      /\ st.originals = structure.originals /\ st.removed = structure.removed
  <2> HIDE DEF eid
  <2> QED  BY DEF InPlace, RowsInv, WellFormed
<1> HIDE DEF st, t, eid
<1>5. WellKept(st, t)  BY <1>2, <1>3, <1>4 DEF WellKept
<1>6. WellList(s)  BY RowsAssumption DEF WellList
<1>7. /\ nextToken' \in Nat /\ t <= nextToken'
      /\ WellKept(structure', nextToken') /\ touched' \subseteq Slots
  BY <1>1, <1>2, <1>3, <1>4, <1>5, <1>6, PositionalTyped DEF n
<1>8. nextToken <= nextToken'  BY <1>2, <1>3, <1>7
<1>9. nextRow' \in Nat /\ nextRow <= nextRow'  BY <1>1, <1>6, InPlaceWell
<1>10. WellCells(cells') /\ touched \cap Gone(s) \subseteq Slots
  BY <1>1 DEF TypeInv, WellCells
<1> QED  BY <1>1, <1>7, <1>8, <1>9, <1>10, RecordTyped

(* So does an edit of a leaf.                                               *)
LEMMA EditLeafTyped ==
    ASSUME HistoryInv, RowsInv, TypeInv, NEW i \in Slots, NEW v \in Values, EditLeaf(i, v)
    PROVE  TypeInv'
<1>1. /\ UNCHANGED <<defaults, structure, touched, cells, nextToken, nextRow, baseRows,
                     touchedRows>>
      /\ Record({})
  BY DEF EditLeaf, ghosts
<1>2. nextToken \in Nat /\ nextRow \in Nat  BY DEF TypeInv, RowsInv
<1>3. /\ WellKept(structure', nextToken') /\ touched' \subseteq Slots /\ WellCells(cells')
  BY <1>1 DEF TypeInv, WellKept, WellIdentity, WellTokens, WellCells, Slots
<1>4. nextToken' \in Nat /\ nextToken <= nextToken' /\ nextRow' \in Nat /\ nextRow <= nextRow'
  BY <1>1, <1>2
<1> QED  BY <1>1, <1>3, <1>4, RecordTyped

(* A rebased list.                                                          *)
LEMMA AnchorsTyped ==
    ASSUME RowsInv, TypeInv, NEW s, WellList(s), NEW kept, kept \subseteq Slots,
           Anchors(s, kept)
    PROVE  /\ nextToken' \in Nat /\ nextToken <= nextToken' /\ WellKept(structure', nextToken')
           /\ WellNamed(baseRows', Len(s), nextRow')
<1> DEFINE n == Len(s)
<1>1. /\ nextToken \in Nat /\ WellIdentity(structure.identity, nextToken) /\ n \in 0 .. MaxLen
  BY DEF TypeInv, WellKept, WellList
<1>2. /\ structure' = Rebased(s, kept) /\ Named(n) /\ baseRows' = ByPosition(n)
      /\ nextToken' = nextToken + RealignUses(structure.identity, n)
  BY DEF Anchors
<1>3. /\ structure'.identity = Rebaselined(Realigned(structure.identity, n, nextToken))
      /\ structure'.originals = Seeded(s) /\ structure'.removed = kept
  BY <1>2 DEF Rebased
<1>4. Seeded(s) \in [Slots -> Values \cup {Absent}]
  <2>1. \A i \in 1 .. n : s[i] \in Values  BY ElementOfSeq DEF WellList
  <2> QED  BY <1>1, <2>1, RowsAssumption DEF Seeded, Slots
<1> HIDE DEF n
<1>5. /\ RealignUses(structure.identity, n) \in Nat
      /\ WellIdentity(Rebaselined(Realigned(structure.identity, n, nextToken)),
                      nextToken + RealignUses(structure.identity, n))
  BY <1>1, RealignedFacts
<1>6. nextToken' \in Nat /\ nextToken <= nextToken'  BY <1>1, <1>2, <1>5
<1>7. WellKept(structure', nextToken')  BY <1>2, <1>3, <1>4, <1>5 DEF WellKept
<1>8. WellNamed(baseRows', n, nextRow')
  <2>1. n \in Nat  BY <1>1, RowsAssumption
  <2> QED  BY <1>2, <2>1, NamedByPosition
<1> QED  BY <1>6, <1>7, <1>8 DEF n

(* reset keeps the types.                                                   *)
LEMMA ResetTyped ==
    ASSUME HistoryInv, RowsInv, TypeInv, Reset
    PROVE  TypeInv'
<1> DEFINE left == touched \cap Gone(defaults)
           snap == Snapshot(defaults, structure', cells, {}, generation')
<1>1. /\ Anchors(defaults, {}) /\ positions' = Pushed(left, snap) /\ UNCHANGED defaults
      /\ touched' = {} /\ touchedRows' = {} /\ cells' = [user |-> {}, schema |-> {}]
  BY DEF Reset
<1>2. IsSnapshot(snap) /\ snap.structure = structure' /\ snap.cells = cells /\ snap.records = {}
  BY DEF IsSnapshot, Snapshot
<1> HIDE DEF snap
<1>3. WellList(defaults) /\ left \subseteq Slots  BY DEF RowsInv, TypeInv
<1> HIDE DEF left
<1>4. /\ nextToken' \in Nat /\ nextToken <= nextToken' /\ WellKept(structure', nextToken')
      /\ WellNamed(baseRows', Len(defaults), nextRow')
  BY <1>1, <1>3, AnchorsTyped
<1>5. WellRecorded(snap, nextToken')  BY <1>2, <1>4 DEF WellRecorded, TypeInv
<1>6. \A k \in 1 .. Len(positions') : WellRecorded(positions'[k], nextToken')
  BY <1>1, <1>2, <1>3, <1>4, <1>5, PushRecorded
<1>7. touched' \subseteq Slots /\ touchedRows' \subseteq 0 .. (nextRow' - 1) /\ WellCells(cells')
  BY <1>1 DEF WellCells
<1> QED
  BY <1>1, <1>4, <1>6, <1>7
  DEF TypeInv, WellKept, WellIdentity, WellTokens, WellCells, WellRecorded, WellNamed, Slots

(* Rows numbered so far are still so when more have been.                   *)
LEMMA NamesLater ==
    ASSUME NEW a \in Nat, NEW b \in Nat, a <= b
    PROVE  0 .. (a - 1) \subseteq 0 .. (b - 1)
OBVIOUS

(* A hydration keeps the types.                                             *)
LEMMA HydrateTyped ==
    ASSUME HistoryInv, RowsInv, TypeInv, NEW v \in Fetched, Hydrate(v)
    PROVE  TypeInv'
<1>1. /\ Anchors(v, structure.removed \cap (1 .. Len(v))) /\ defaults' = v
      /\ touched' = touched \ Gone(v) /\ UNCHANGED <<cells, touchedRows, positions>>
  BY DEF Hydrate
<1>2. WellList(v)  BY RowsAssumption DEF WellList
<1>3. structure.removed \cap (1 .. Len(v)) \subseteq Slots  BY DEF TypeInv, WellKept
<1>4. /\ nextToken' \in Nat /\ nextToken <= nextToken' /\ WellKept(structure', nextToken')
      /\ WellNamed(baseRows', Len(v), nextRow')
  BY <1>1, <1>2, <1>3, AnchorsTyped
<1>5. nextRow \in Nat /\ nextRow' \in Nat /\ nextRow <= nextRow'
  BY <1>1, <1>2, AnchorsWell DEF RowsInv
<1>6. \A k \in 1 .. Len(positions) : WellRecorded(positions[k], nextToken')
  BY <1>4, RecordedLater DEF TypeInv
<1>7. touchedRows \subseteq 0 .. (nextRow' - 1)
  <2>1. 0 .. (nextRow - 1) \subseteq 0 .. (nextRow' - 1)  BY <1>5, NamesLater
  <2> QED  BY <2>1 DEF TypeInv
<1>8. touched' \subseteq Slots /\ WellCells(cells)  BY <1>1 DEF TypeInv
<1> QED
  BY <1>1, <1>4, <1>6, <1>7, <1>8
  DEF TypeInv, WellKept, WellIdentity, WellTokens, WellCells, WellRecorded, WellNamed, Slots

(* And a clear of the history.                                              *)
LEMMA ReseedTyped ==
    ASSUME TypeInv, Reseed, UNCHANGED <<store, nextToken, ghosts>>
    PROVE  TypeInv'
<1>1. positions' = <<CaptureNext>>  BY DEF Reseed
<1>2. /\ CaptureNext.structure = structure /\ CaptureNext.cells = cells
      /\ CaptureNext.records = touched
  BY DEF CaptureNext, Snapshot, store
<1> HIDE DEF CaptureNext
<1>3. WellRecorded(CaptureNext, nextToken)  BY <1>2 DEF TypeInv, WellRecorded
<1>4. Len(positions') = 1 /\ positions'[1] = CaptureNext  BY <1>1
<1>5. \A k \in 1 .. Len(positions') : WellRecorded(positions'[k], nextToken)  BY <1>3, <1>4
<1> QED
  BY <1>5
  DEF TypeInv, WellKept, WellIdentity, WellTokens, WellCells, WellRecorded, WellNamed, Slots,
      store, ghosts

(* planOrders.                                                              *)
LEMMA PlannedWell ==
    ASSUME NEW id, NEW t \in Nat, WellIdentity(structure.identity, t), WellIdentity(id, t)
    PROVE  /\ WellIdentity(PlannedIdentity(id), t)
           /\ PlannedIdentity(id).tracked <=> id.tracked \/ structure.identity.tracked
           /\ PlannedIdentity(id).tokens =
                IF id.tracked THEN id.tokens ELSE structure.identity.baseline
           /\ PlannedIdentity(id).baseline =
                IF id.tracked THEN id.baseline ELSE structure.identity.baseline
<1> DEFINE live == structure.identity
           p == PlannedIdentity(id)
<1>1. CASE ~id.tracked /\ live.tracked
  <2>1. p = [live EXCEPT !.tokens = live.baseline]  BY <1>1 DEF PlannedIdentity
  <2>2. live = [tracked |-> live.tracked, tokens |-> live.tokens, baseline |-> live.baseline]
    BY DEF WellIdentity
  <2> HIDE DEF p, live
  <2>3. /\ p = [tracked |-> p.tracked, tokens |-> p.tokens, baseline |-> p.baseline]
        /\ p.tracked = live.tracked /\ p.tokens = live.baseline /\ p.baseline = live.baseline
    BY <2>1, <2>2
  <2>4. WellIdentity(p, t)  BY <1>1, <2>3 DEF WellIdentity, live
  <2> QED  BY <1>1, <2>3, <2>4 DEF p, live
<1>2. CASE id.tracked \/ ~live.tracked
  <2>1. p = id  BY <1>2 DEF PlannedIdentity
  <2>2. id.tracked \/ (id = Untracked /\ live = Untracked)  BY <1>2 DEF WellIdentity
  <2> QED  BY <1>2, <2>1, <2>2 DEF Untracked
<1>3. id.tracked \in BOOLEAN /\ live.tracked \in BOOLEAN  BY DEF WellIdentity
<1> QED  BY <1>1, <1>2, <1>3

(* The remap of an undo that replays tokens is a bijection between the two  *)
(* lists; where there are no tokens it moves nothing.                       *)
LEMMA PlannedRemapWell ==
    ASSUME NEW id, NEW t \in Nat, WellIdentity(structure.identity, t), WellIdentity(id, t)
    PROVE  IsBijection(PlannedRemap(id)) /\ PlannedRemap(id).newLen <= MaxLen
<1> DEFINE from == structure.identity.tokens
           to == PlannedIdentity(id).tokens
           T == 0 .. (t - 1)
<1>1. WellTokens(from, t) /\ WellTokens(to, t)  BY PlannedWell DEF WellIdentity
<1>2. from \in Seq(T) /\ to \in Seq(T) /\ Distinct(from) /\ Distinct(to) /\ Len(to) <= MaxLen
  BY <1>1 DEF WellTokens
<1>3. <<>> \in Seq(T) /\ Distinct(<<>>) /\ Len(<<>>) <= MaxLen
  BY RowsAssumption DEF Distinct
<1>4. PlannedRemap(id) = IF structure.identity.tracked THEN Between(from, to)
                         ELSE Between(<<>>, <<>>)
  BY DEF PlannedRemap
<1> HIDE DEF from, to, T
<1>5. IsBijection(Between(from, to)) /\ Between(from, to).newLen = Len(to)
  BY <1>2, BetweenIsBijection
<1>6. IsBijection(Between(<<>>, <<>>)) /\ Between(<<>>, <<>>).newLen = Len(<<>>)
  <2> DEFINE none == <<>>
  <2>1. none \in Seq(T) /\ Distinct(none)  BY <1>3
  <2> HIDE DEF none
  <2>2. IsBijection(Between(none, none)) /\ Between(none, none).newLen = Len(none)
    BY <2>1, BetweenIsBijection
  <2> QED  BY <2>2 DEF none
<1> QED  BY <1>2, <1>3, <1>4, <1>5, <1>6

(* Undo and redo keep the types.                                            *)
LEMMA StepToTyped ==
    ASSUME HistoryInv, RowsInv, TypeInv, NEW c \in 1 .. Len(positions), StepTo(c)
    PROVE  TypeInv'
<1> DEFINE snap == positions[c]
           same == snap.generation = generation
           m == IF same THEN PlannedRemap(snap.structure.identity) ELSE Between(<<>>, <<>>)
           st == IF same THEN RestoredStructure(snap) ELSE InPlace(snap.form)
           recs == IF same THEN RestoredRecords(snap, m) ELSE touched
           s == snap.form
<1>1. /\ Positional(s, st, recs, nextToken) /\ Named(Len(s)) /\ cells' = snap.cells
      /\ UNCHANGED <<defaults, baseRows, touchedRows>>
  BY DEF StepTo
<1>2. /\ nextToken \in Nat /\ WellRecorded(snap, nextToken) /\ WellKept(structure, nextToken)
      /\ touched \subseteq Slots
  BY DEF TypeInv
<1>3. /\ WellPosition(snap, nextRow) /\ WellList(s) /\ Len(items) \in 0 .. MaxLen
  BY DEF RowsInv, WellPosition, WellList
<1>4. WellIdentity(snap.structure.identity, nextToken)
      /\ WellIdentity(structure.identity, nextToken)
  BY <1>2 DEF WellRecorded, WellKept
<1>5. recs \subseteq Slots
  <2>1. CASE same
    <3> DEFINE mm == PlannedRemap(snap.structure.identity)
    <3>1. IsBijection(mm) /\ mm.newLen <= MaxLen  BY <1>2, <1>4, PlannedRemapWell
    <3>2. recs = MigrateSet(touched, mm, touched) \cup (snap.records \cap mm.fresh)
      BY <2>1 DEF RestoredRecords
    <3> HIDE DEF mm, recs, snap
    <3>3. MigrateSet(touched, mm, touched) \subseteq Slots  BY <1>2, <3>1, MigratesInside
    <3> QED  BY <1>2, <3>2, <3>3 DEF WellRecorded
  <2>2. CASE ~same  BY <1>2, <2>2
  <2> QED  BY <2>1, <2>2
<1>6. {"rows", "identity", "originals", "removed"} = DOMAIN st /\ WellKept(st, nextToken)
  <2>1. CASE same
    <3> DEFINE p == snap.structure
               pid == PlannedIdentity(p.identity)
               r == RestoredStructure(snap)
    <3>1. DOMAIN p = {"rows", "identity", "originals", "removed"}
      BY <1>3 DEF WellPosition, WellFormed
    <3>2. WellIdentity(pid, nextToken)  BY <1>2, <1>4, PlannedWell
    <3>3. r = [p EXCEPT !.identity = pid,
                        !.rows = IF pid.tracked THEN p.rows ELSE ByPosition(Len(snap.form))]
      BY DEF RestoredStructure
    <3> HIDE DEF p, pid, r
    <3>4. /\ DOMAIN r = DOMAIN p /\ r.identity = pid /\ r.originals = p.originals
          /\ r.removed = p.removed
      BY <3>1, <3>3
    <3>5. WellKept(p, nextToken)  BY <1>2 DEF WellRecorded, p
    <3>6. WellKept(r, nextToken)  BY <3>2, <3>4, <3>5 DEF WellKept
    <3>7. st = r  BY <2>1 DEF r
    <3> QED  BY <3>1, <3>4, <3>6, <3>7
  <2>2. CASE ~same
    <3> DEFINE r == InPlace(s)
    <3>1. /\ DOMAIN r = {"rows", "identity", "originals", "removed"}
          /\ r.identity = structure.identity /\ r.originals = structure.originals
          /\ r.removed = structure.removed
      BY DEF InPlace, RowsInv, WellFormed
    <3>2. st = r  BY <2>2
    <3> HIDE DEF r
    <3> QED  BY <1>2, <3>1, <3>2 DEF WellKept
  <2> QED  BY <2>1, <2>2
<1> HIDE DEF st, recs, s, m, same
<1>7. /\ nextToken' \in Nat /\ nextToken <= nextToken'
      /\ WellKept(structure', nextToken') /\ touched' \subseteq Slots
  BY <1>1, <1>2, <1>3, <1>5, <1>6, PositionalTyped
<1>8. /\ Len(positions') = Len(positions)
      /\ \A k \in 1 .. Len(positions) :
            /\ positions'[k].structure = IF k = cursor THEN structure ELSE positions[k].structure
            /\ positions'[k].cells = positions[k].cells
            /\ positions'[k].records = IF k = cursor THEN touched ELSE positions[k].records
  BY StepToFacts
<1>9. ASSUME NEW k \in 1 .. Len(positions) PROVE WellRecorded(positions'[k], nextToken')
  <2>1. WellRecorded(positions[k], nextToken')  BY <1>7, <1>2, RecordedLater DEF TypeInv
  <2>2. WellIdentity(structure.identity, nextToken')  BY <1>7, <1>2, <1>4, IdentityLater
  <2>3. WellKept(structure, nextToken')  BY <1>2, <2>2 DEF WellKept
  <2> QED  BY <1>2, <1>8, <2>1, <2>3 DEF WellRecorded
<1>10. nextRow \in Nat /\ nextRow' \in Nat /\ nextRow <= nextRow'
  <2>1. Len(s) \in Nat  BY <1>3, RowsAssumption DEF WellList
  <2> QED  BY <1>1, <2>1, NamedByPosition DEF RowsInv
<1>11. 0 .. (nextRow - 1) \subseteq 0 .. (nextRow' - 1)  BY <1>10, NamesLater
<1>12. WellNamed(baseRows', Len(defaults'), nextRow') /\ touchedRows' \subseteq 0 .. (nextRow' - 1)
  BY <1>1, <1>11 DEF TypeInv, WellNamed
<1>13. WellCells(cells')  BY <1>1, <1>2 DEF WellRecorded
<1>14. \A k \in 1 .. Len(positions') : WellRecorded(positions'[k], nextToken')
  BY <1>8, <1>9
<1> QED
  BY <1>7, <1>12, <1>13, <1>14
  DEF TypeInv, WellKept, WellIdentity, WellTokens, WellCells, WellRecorded, WellNamed, Slots

(* What touches no row keeps the types.                                     *)
LEMMA QuietTyped ==
    ASSUME RowsInv, TypeInv,
           \/ TokenAt
           \/ \E i \in Slots : Touch(i) \/ SetErrors(i)
           \/ \E i \in Slots, judged \in BOOLEAN : Answer(i, judged)
           \/ UNCHANGED vars
    PROVE  TypeInv'
<1>0. UNCHANGED <<defaults, positions, nextRow, baseRows>>
  BY DEF TokenAt, Touch, SetErrors, Answer, Quiet, history, vars, store, ghosts
<1>1. /\ nextToken' \in Nat /\ nextToken <= nextToken'
      /\ WellKept(structure', nextToken')
  <2>1. CASE TokenAt
    <3> DEFINE id == structure.identity
               n == Len(items)
    <3>1. /\ structure' = [structure EXCEPT !.identity = Ensure(id, n, nextToken)]
          /\ nextToken' = nextToken + Used(id, n)
      BY <2>1 DEF TokenAt
    <3>2. /\ nextToken \in Nat /\ WellIdentity(id, nextToken) /\ n \in 0 .. MaxLen
      BY DEF TypeInv, WellKept, RowsInv, WellList
    <3>3. DOMAIN structure = {"rows", "identity", "originals", "removed"}
      BY DEF RowsInv, WellFormed
    <3> HIDE DEF id, n
    <3>4. /\ Used(id, n) \in Nat
          /\ WellIdentity(Ensure(id, n, nextToken), nextToken + Used(id, n))
      BY <3>2, EnsureFacts
    <3>5. /\ structure'.identity = Ensure(id, n, nextToken)
          /\ structure'.originals = structure.originals
          /\ structure'.removed = structure.removed
      BY <3>1, <3>3
    <3> QED  BY <3>1, <3>2, <3>4, <3>5 DEF TypeInv, WellKept
  <2>2. CASE ~TokenAt
    <3>1. structure' = structure /\ nextToken' = nextToken
      BY <2>2 DEF Touch, SetErrors, Answer, vars, store
    <3>2. nextToken \in Nat  BY DEF TypeInv
    <3> QED  BY <3>1, <3>2 DEF TypeInv, WellKept, WellIdentity, WellTokens, Slots
  <2> QED  BY <2>1, <2>2
<1>2. touched' \subseteq Slots
  BY DEF TypeInv, TokenAt, Touch, SetErrors, Answer, vars, store
<1>3. touchedRows' \subseteq 0 .. (nextRow - 1)
  <2>1. \A i \in 1 .. Len(items) : structure.rows[i] \in 0 .. (nextRow - 1)
    BY DEF RowsInv, WellFormed, WellNamed
  <2>2. touchedRows \subseteq 0 .. (nextRow - 1)  BY DEF TypeInv
  <2>3. \/ touchedRows' = touchedRows
        \/ \E i \in 1 .. Len(items) : touchedRows' = touchedRows \cup {structure.rows[i]}
    <3>1. ASSUME NEW i \in Slots, Touch(i)
          PROVE  i \in 1 .. Len(items) /\ touchedRows' = touchedRows \cup {structure.rows[i]}
      <4>1. Len(items) \in Nat  BY RowsAssumption DEF RowsInv, WellList
      <4> QED  BY <3>1, <4>1 DEF Touch, Slots
    <3> QED  BY <3>1 DEF TokenAt, SetErrors, Answer, vars, ghosts
  <2>4. CASE touchedRows' = touchedRows  BY <2>2, <2>4
  <2>5. ASSUME NEW i \in 1 .. Len(items), touchedRows' = touchedRows \cup {structure.rows[i]}
        PROVE  touchedRows' \subseteq 0 .. (nextRow - 1)
    BY ONLY <2>1, <2>2, <2>5
  <2> QED  BY <2>3, <2>4, <2>5
<1>4. WellCells(cells')
  <2>1. cells.user \subseteq Slots /\ cells.schema \subseteq Slots
        /\ cells = [user |-> cells.user, schema |-> cells.schema]
    BY DEF TypeInv, WellCells
  <2>2. CASE cells' = cells
    <3>1. WellCells(cells)  BY DEF TypeInv
    <3> QED  BY <2>2, <3>1 DEF WellCells, Slots
  <2>3. ASSUME NEW i \in Slots, NEW A, A \subseteq cells.user \cup {i},
               cells' = [cells EXCEPT !.user = A]
        PROVE  WellCells(cells')
    <3>1. cells' = [user |-> A, schema |-> cells.schema]  BY <2>1, <2>3
    <3> QED  BY <2>1, <2>3, <3>1 DEF WellCells
  <2>4. ASSUME NEW i \in Slots, NEW A, A \subseteq cells.schema \cup {i},
               cells' = [cells EXCEPT !.schema = A]
        PROVE  WellCells(cells')
    <3>1. cells' = [user |-> cells.user, schema |-> A]  BY <2>1, <2>4
    <3> QED  BY <2>1, <2>4, <3>1 DEF WellCells
  <2>5. ASSUME NEW i \in Slots, SetErrors(i)
        PROVE  WellCells(cells')
    <3> DEFINE A == IF i \in cells.user THEN cells.user \ {i} ELSE cells.user \cup {i}
    <3>1. cells' = [cells EXCEPT !.user = A] /\ A \subseteq cells.user \cup {i}
      BY <2>5 DEF SetErrors
    <3> HIDE DEF A
    <3> QED  BY <2>3, <3>1
  <2>6. ASSUME NEW i \in Slots, NEW judged \in BOOLEAN, Answer(i, judged)
        PROVE  WellCells(cells')
    <3> DEFINE A == IF judged THEN cells.schema \cup {i} ELSE cells.schema \ {i}
    <3>1. cells' \in {cells, [cells EXCEPT !.schema = A]} /\ A \subseteq cells.schema \cup {i}
      BY <2>6 DEF Answer
    <3> HIDE DEF A
    <3> QED  BY <2>2, <2>4, <3>1
  <2> QED  BY <2>2, <2>5, <2>6 DEF TokenAt, Touch, vars, store
<1>5. \A k \in 1 .. Len(positions) : WellRecorded(positions[k], nextToken')
  BY <1>1, RecordedLater DEF TypeInv
<1>6. WellNamed(baseRows, Len(defaults), nextRow)  BY DEF TypeInv
<1> QED
  BY <1>0, <1>1, <1>2, <1>3, <1>4, <1>5, <1>6
  DEF TypeInv, WellKept, WellIdentity, WellTokens, WellCells, WellRecorded, WellNamed, Slots

(* Every step keeps the types, and they hold at first.                      *)
LEMMA StepKeepsTypes ==
    ASSUME HistoryInv, RowsInv, TypeInv, [Next]_vars
    PROVE  TypeInv'
<1>1. CASE TypedOp  BY <1>1, TypedOpTyped
<1>2. CASE \E i \in Slots, v \in Values : EditLeaf(i, v)  BY <1>2, EditLeafTyped
<1>3. CASE \E s \in Lists, anchors \in BOOLEAN : Overwrite(s, anchors)
  BY <1>3, OverwriteTyped
<1>4. CASE Reset  BY <1>4, ResetTyped
<1>5. CASE \E v \in Fetched : Hydrate(v)  BY <1>5, HydrateTyped
<1>6. CASE Undo \/ Redo
  <2>1. \E c \in 1 .. Len(positions) : StepTo(c)
    BY <1>6, RowsAssumption DEF Undo, Redo, HistoryInv
  <2> QED  BY <2>1, StepToTyped
<1>7. CASE FloorClears \/ Clear  BY <1>7, ReseedTyped DEF FloorClears, Clear
<1>8. CASE \/ TokenAt
           \/ \E i \in Slots : Touch(i) \/ SetErrors(i)
           \/ \E i \in Slots, judged \in BOOLEAN : Answer(i, judged)
           \/ UNCHANGED vars
  BY <1>8, QuietTyped
<1> QED  BY <1>1, <1>2, <1>3, <1>4, <1>5, <1>6, <1>7, <1>8 DEF Next

LEMMA InitTypes == Init => TypeInv
<1> SUFFICES ASSUME Init PROVE TypeInv  OBVIOUS
<1>1. /\ defaults = InitialRows /\ structure = Construct(InitialRows)
      /\ touched = {} /\ touchedRows = {} /\ nextToken = 0
      /\ cells = [user |-> {}, schema |-> {}]
      /\ nextRow = Len(InitialRows) + 1 /\ baseRows = structure.rows
      /\ Len(positions) = 1 /\ positions[1].structure = structure
      /\ positions[1].cells = cells /\ positions[1].records = {}
  BY DEF Init, Snapshot
<1>2. InitialRows \in Seq(Values) /\ Len(InitialRows) \in Nat  BY RowsAssumption
<1>3. /\ structure.identity = Untracked /\ structure.originals = Seeded(InitialRows)
      /\ structure.removed = {} /\ structure.rows = [i \in 1 .. Len(InitialRows) |-> i]
  BY <1>1 DEF Construct
<1>4. Seeded(InitialRows) \in [Slots -> Values \cup {Absent}]
  <2>1. \A i \in 1 .. Len(InitialRows) : InitialRows[i] \in Values  BY <1>2, ElementOfSeq
  <2> QED  BY <1>2, <2>1, RowsAssumption DEF Seeded, Slots
<1>5. WellKept(structure, nextToken)
  BY <1>1, <1>3, <1>4, UntrackedWell DEF WellKept
<1>6. WellNamed(baseRows, Len(defaults), nextRow)  BY <1>1, <1>2, <1>3 DEF WellNamed
<1>7. WellCells(cells)  BY <1>1 DEF WellCells
<1>8. \A k \in 1 .. Len(positions) : WellRecorded(positions[k], nextToken)
  BY <1>1, <1>5, <1>7 DEF WellRecorded
<1> QED  BY <1>1, <1>5, <1>6, <1>7, <1>8 DEF TypeInv

(* The types are those of TypeOK, which the run checks.                     *)
LEMMA TypesMeanTypeOK ==
    ASSUME HistoryInv, RowsInv, TypeInv
    PROVE  TypeOK
<1>1. /\ items \in Seq(Values) /\ Len(items) \in 0 .. MaxLen /\ Len(items) \in Nat
      /\ \A i \in 1 .. Len(items) : items[i] \in Values
  <2>1. items \in Seq(Values) /\ Len(items) \in 0 .. MaxLen  BY DEF RowsInv, WellList
  <2> QED  BY <2>1, ElementOfSeq, RowsAssumption
<1>2. Len(structure.rows) = Len(items)
  <2>1. structure.rows \in [1 .. Len(items) -> 0 .. (nextRow - 1)]
    BY DEF RowsInv, WellFormed, WellNamed
  <2> QED  BY <1>1, <2>1, Tabulated
<1>3. running \subseteq 1 .. Len(items)  BY DEF RowsInv
<1>4. /\ touched \subseteq Slots /\ cells.user \subseteq Slots /\ cells.schema \subseteq Slots
      /\ structure.originals \in [Slots -> Values \cup {Absent}]
  BY DEF TypeInv, WellKept, WellCells
<1>5. Len(positions) \in 1 .. Capacity /\ cursor \in 1 .. Len(positions)  BY DEF HistoryInv
<1>6. Len(items) <= MaxLen  BY <1>1, RowsAssumption
<1> QED  BY <1>1, <1>2, <1>3, <1>4, <1>5, <1>6 DEF TypeOK

(* Type correctness: list, originals, records, errors and history stay what *)
(* the stores of the form can hold: the rows are as many as the values, a   *)
(* run is at a slot of the list, the cursor at a position, and the history  *)
(* within its cap (historyMax).                                             *)
THEOREM TypeCorrect == Spec => []TypeOK
<1>1. Init => HistoryInv /\ RowsInv /\ TypeInv  BY InitImplements, InitRows, InitTypes
<1>2. HistoryInv /\ RowsInv /\ TypeInv /\ [Next]_vars => HistoryInv' /\ RowsInv' /\ TypeInv'
  BY StepImplements, StepKeepsRows, StepKeepsTypes
<1>3. HistoryInv /\ RowsInv /\ TypeInv => TypeOK  BY TypesMeanTypeOK
<1> QED  BY <1>1, <1>2, <1>3, PTL DEF Spec

-----------------------------------------------------------------------------
(* Bookkeeping that reads soundly: a row has the key it has in the baseline *)
(* and the baseline value that goes with it, and nothing dirty reads is     *)
(* left where no row is.                                                    *)

(* Two lists of rows, r and s, under the keys t and u: a row has the same   *)
(* key in both; two rows never have.                                        *)
Agree(r, t, s, u) == \A i \in DOMAIN t, j \in DOMAIN u : r[i] = s[j] => t[i] = u[j]
Apart(r, t, s, u) == \A i \in DOMAIN t, j \in DOMAIN u : t[i] = u[j] => r[i] = s[j]

(* The originals o of the rows r: a row of the baseline b has its value in  *)
(* the defaults d.  A slot under a key of the baseline has that value or    *)
(* the absence baseline.                                                    *)
Baselined(r, o, b, d) == \A i \in DOMAIN r, j \in DOMAIN b : r[i] = b[j] => o[i] = d[j]
Valued(t, o, u, d) ==
    \A i \in DOMAIN t, j \in DOMAIN u : t[i] = u[j] => o[i] \in {Absent, d[j]}

(* With all the rows of the baseline in the list, nothing is left at the    *)
(* other slots that dirty reads.                                            *)
Whole(r, o, v, b) ==
    Held(b) \subseteq Held(r) =>
        \A i \in Slots : \/ i \in DOMAIN r /\ r[i] \in Held(b)
                         \/ o[i] = Absent /\ i \notin v

(* Bookkeeping that dirty can be read from, with identity id.               *)
Sound(st, id, b, d, stray) ==
    /\ IF id.tracked THEN DOMAIN id.tokens = DOMAIN st.rows /\ DOMAIN id.baseline = DOMAIN d
                     ELSE st.rows = b
    /\ Agree(st.rows, id.tokens, b, id.baseline)
    /\ Baselined(st.rows, st.originals, b, d)
    /\ ~stray => Valued(id.tokens, st.originals, id.baseline, d)
    /\ Whole(st.rows, st.originals, st.removed, b)

(* The tokens of an identity, spelled out.                                  *)
LEMMA WellLists ==
    ASSUME NEW id, NEW t \in Nat, WellIdentity(id, t)
    PROVE  /\ Len(id.tokens) \in 0 .. MaxLen /\ DOMAIN id.tokens = 1 .. Len(id.tokens)
           /\ Len(id.baseline) \in 0 .. MaxLen /\ DOMAIN id.baseline = 1 .. Len(id.baseline)
           /\ \A i \in DOMAIN id.tokens : id.tokens[i] \in 0 .. (t - 1)
           /\ \A i \in DOMAIN id.baseline : id.baseline[i] \in 0 .. (t - 1)
           /\ Distinct(id.tokens) /\ Distinct(id.baseline)
           /\ ~id.tracked => DOMAIN id.tokens = {} /\ DOMAIN id.baseline = {}
<1>1. /\ id.tokens \in Seq(0 .. (t - 1)) /\ id.baseline \in Seq(0 .. (t - 1))
      /\ Distinct(id.tokens) /\ Distinct(id.baseline)
      /\ Len(id.tokens) <= MaxLen /\ Len(id.baseline) <= MaxLen
  BY DEF WellIdentity, WellTokens
<1>2. /\ Len(id.tokens) \in Nat /\ DOMAIN id.tokens = 1 .. Len(id.tokens)
      /\ Len(id.baseline) \in Nat /\ DOMAIN id.baseline = 1 .. Len(id.baseline)
  BY <1>1, LenProperties
<1>3. /\ \A j \in 1 .. Len(id.tokens) : id.tokens[j] \in 0 .. (t - 1)
      /\ \A j \in 1 .. Len(id.baseline) : id.baseline[j] \in 0 .. (t - 1)
  BY <1>1, ElementOfSeq
<1>4. ~id.tracked => DOMAIN id.tokens = {} /\ DOMAIN id.baseline = {}
  BY DEF WellIdentity, Untracked
<1> QED  BY <1>1, <1>2, <1>3, <1>4, RowsAssumption

(* What ensure makes of a tracked list, resized to n with new tokens from t.*)
Regrown(id, e, n, t) ==
    /\ e.tracked /\ DOMAIN e.tokens = 1 .. n /\ e.baseline = id.baseline
    /\ \A j \in 1 .. n :
          IF j <= Len(id.tokens) THEN e.tokens[j] = id.tokens[j]
          ELSE IF Anchored(id, j) THEN e.tokens[j] = id.baseline[j]
          ELSE e.tokens[j] >= t

(* ensure makes Regrown of a tracked list.                                  *)
LEMMA Grown ==
    ASSUME NEW id, NEW n \in 0 .. MaxLen, NEW t \in Nat, WellIdentity(id, t), id.tracked,
           NEW e, e = Ensure(id, n, t)
    PROVE  Regrown(id, e, n, t)
<1> DEFINE f == Ensure(id, n, t)
<1>1. /\ f.tracked /\ Len(f.tokens) = n /\ DOMAIN f.tokens = 1 .. n
      /\ f.baseline = (IF id.tracked THEN id.baseline ELSE f.tokens)
      /\ \A j \in 1 .. n :
            IF j <= Len(id.tokens) THEN f.tokens[j] = id.tokens[j]
            ELSE IF Anchored(id, j) THEN f.tokens[j] = id.baseline[j]
            ELSE f.tokens[j] >= t
      /\ WellIdentity(f, t + Used(id, n)) /\ Used(id, n) \in Nat
  BY EnsureFacts
<1>2. e = f  OBVIOUS
<1> HIDE DEF f
<1> QED  BY <1>1, <1>2 DEF Regrown

(* A list already tracked at its length is left as it is.                   *)
LEMMA EnsureSame ==
    ASSUME NEW id, NEW t \in Nat, WellIdentity(id, t), id.tracked
    PROVE  Ensure(id, Len(id.tokens), t) = id /\ Used(id, Len(id.tokens)) = 0
<1> DEFINE n == Len(id.tokens)
           e == Ensure(id, n, t)
<1>1. n \in 0 .. MaxLen /\ n \in Nat /\ id.tokens \in Seq(0 .. (t - 1)) /\ DOMAIN id.tokens = 1 .. n
  BY WellLists, RowsAssumption DEF WellIdentity, WellTokens
<1>2. /\ Used(id, n) = 0 /\ e.tracked /\ DOMAIN e.tokens = 1 .. n
      /\ \A j \in 1 .. n : e.tokens[j] = id.tokens[j]
      /\ e.baseline = id.baseline
  <2> HIDE DEF n
  <2>1. n <= Len(id.tokens) /\ n \in Nat /\ \A j \in 1 .. n : j <= Len(id.tokens)
    BY <1>1 DEF n
  <2> QED  BY <1>1, <2>1, EnsureFacts
<1>3. e.tokens = [j \in 1 .. n |-> e.tokens[j]] /\ e.tracked = TRUE
      /\ e = [tracked |-> e.tracked, tokens |-> e.tokens, baseline |-> e.baseline]
  BY DEF Ensure
<1>4. id.tokens = [j \in 1 .. n |-> id.tokens[j]]
  <2>1. id.tokens \in [1 .. n -> 0 .. (t - 1)]  BY <1>1, LenProperties
  <2> QED  BY <2>1
<1>5. id = [tracked |-> TRUE, tokens |-> id.tokens, baseline |-> id.baseline]
  BY DEF WellIdentity
<1> HIDE DEF e, n
<1>6. e.tokens = id.tokens  BY <1>2, <1>3, <1>4
<1> QED  BY <1>2, <1>3, <1>5, <1>6 DEF e, n

(* A list that gets tracked at its own length.                              *)
LEMMA SoundTracked ==
    ASSUME NEW st, NEW id, NEW b, NEW d, NEW stray, Sound(st, id, b, d, stray), ~id.tracked,
           NEW e, e.tracked, DOMAIN e.tokens = DOMAIN st.rows, e.baseline = e.tokens,
           Distinct(e.tokens), Distinct(b), DOMAIN b = DOMAIN d
    PROVE  Sound(st, e, b, d, stray)
<1>1. st.rows = b /\ Baselined(b, st.originals, b, d)
  BY DEF Sound
<1>2. Agree(st.rows, e.tokens, b, e.baseline)  BY <1>1 DEF Agree, Distinct
<1>3. Valued(e.tokens, st.originals, e.baseline, d)
  BY <1>1 DEF Valued, Baselined, Distinct
<1> QED  BY <1>1, <1>2, <1>3 DEF Sound

(* The rows r resized to n, with rows that are not among the old; and       *)
(* whether that grows a slot under the key of a row whose value is another. *)
Extended(r, r2, n, old) ==
    /\ DOMAIN r2 = 1 .. n
    /\ \A i \in 1 .. n : IF i \in DOMAIN r THEN r2[i] = r[i] ELSE r2[i] \notin old
Strayed(st, id, n, d) ==
    \E i \in (Len(id.tokens) + 1) .. n :
        Anchored(id, i) /\ st.originals[i] \notin {Absent, Seeded(d)[i]}

(* A list that is resized by position.                                      *)
LEMMA SoundResized ==
    ASSUME NEW st, NEW id, NEW b, NEW d, NEW stray, Sound(st, id, b, d, stray),
           NEW t \in Nat, WellIdentity(id, t), id.tracked, Distinct(st.rows),
           d \in Seq(Values), DOMAIN b = DOMAIN d,
           NEW n \in 0 .. MaxLen,
           NEW e, Regrown(id, e, n, t), NEW st2, Extended(st.rows, st2.rows, n, Held(b)),
           st2.originals = st.originals,
           st2.removed = st.removed \cup {i \in DOMAIN st.rows \ (1 .. n) : st.originals[i] # Absent},
           NEW stray2, ~stray2 => ~stray /\ ~Strayed(st, id, n, d)
    PROVE  Sound(st2, e, b, d, stray2)
<1> DEFINE l == Len(id.tokens)
<1>1. /\ l \in 0 .. MaxLen /\ l \in Nat /\ n \in Nat
      /\ DOMAIN id.tokens = 1 .. l /\ DOMAIN st.rows = 1 .. l
      /\ DOMAIN id.baseline = 1 .. Len(id.baseline) /\ Len(id.baseline) \in Nat
      /\ DOMAIN d = 1 .. Len(id.baseline) /\ Len(d) = Len(id.baseline)
      /\ \A i \in 1 .. Len(id.baseline) : id.baseline[i] \in 0 .. (t - 1)
      /\ Distinct(id.baseline)
  <2>1. DOMAIN d = 1 .. Len(d) /\ Len(d) \in Nat  BY LenProperties
  <2> QED  BY <2>1, WellLists, RowsAssumption DEF Sound
<1>2. /\ e.tracked /\ DOMAIN e.tokens = 1 .. n /\ e.baseline = id.baseline
      /\ \A j \in 1 .. n :
            IF j <= l THEN e.tokens[j] = id.tokens[j]
            ELSE IF Anchored(id, j) THEN e.tokens[j] = id.baseline[j]
            ELSE e.tokens[j] >= t
      /\ DOMAIN st2.rows = 1 .. n
      /\ \A i \in 1 .. n : IF i \in DOMAIN st.rows THEN st2.rows[i] = st.rows[i]
                           ELSE st2.rows[i] \notin Held(b)
  BY DEF Regrown, Extended
<1> HIDE DEF l
<1>3. \A j \in 1 .. n : j \in 1 .. l <=> j <= l  BY <1>1
<1>4. Agree(st2.rows, e.tokens, b, e.baseline)
  <2> SUFFICES ASSUME NEW i \in 1 .. n, NEW j \in DOMAIN id.baseline, st2.rows[i] = b[j]
               PROVE  e.tokens[i] = id.baseline[j]
    BY <1>2 DEF Agree
  <2>1. i \in 1 .. l /\ st.rows[i] = b[j]  BY <1>1, <1>2 DEF Held
  <2> QED  BY <1>1, <1>2, <1>3, <2>1 DEF Sound, Agree
<1>5. Baselined(st2.rows, st2.originals, b, d)
  <2> SUFFICES ASSUME NEW i \in 1 .. n, NEW j \in DOMAIN b, st2.rows[i] = b[j]
               PROVE  st.originals[i] = d[j]
    BY <1>2 DEF Baselined
  <2>1. i \in 1 .. l /\ st.rows[i] = b[j]  BY <1>1, <1>2 DEF Held
  <2> QED  BY <1>1, <2>1 DEF Sound, Baselined
<1>6. ~stray2 => Valued(e.tokens, st2.originals, e.baseline, d)
  <2> SUFFICES ASSUME ~stray2, NEW i \in 1 .. n, NEW j \in DOMAIN id.baseline,
                      e.tokens[i] = id.baseline[j]
               PROVE  st.originals[i] \in {Absent, d[j]}
    BY <1>2 DEF Valued
  <2>1. CASE i <= l
    <3>1. i \in 1 .. l /\ id.tokens[i] = id.baseline[j]  BY <1>2, <1>3, <2>1
    <3>2. Valued(id.tokens, st.originals, id.baseline, d)  BY DEF Sound
    <3> QED  BY <1>1, <3>1, <3>2 DEF Valued
  <2>2. CASE ~(i <= l) /\ Anchored(id, i)
    <3>1. e.tokens[i] = id.baseline[i] /\ i <= Len(id.baseline)
      BY <1>2, <2>2 DEF Anchored
    <3>2. i \in DOMAIN id.baseline  BY <1>1, <3>1
    <3>3. i = j  BY <1>1, <3>1, <3>2 DEF Distinct
    <3>4. Seeded(d)[i] = d[i]  BY <1>1, <3>1, RowsAssumption DEF Seeded, Slots
    <3>5. i \in (l + 1) .. n  BY <1>1, <2>2
    <3> QED  BY <2>2, <3>3, <3>4, <3>5 DEF l, Strayed
  <2>3. CASE ~(i <= l) /\ ~Anchored(id, i)
    <3>1. e.tokens[i] >= t  BY <1>2, <2>3
    <3>2. id.baseline[j] \in 0 .. (t - 1)  BY <1>1
    <3> QED  BY <3>1, <3>2
  <2> QED  BY <2>1, <2>2, <2>3
<1>7. Whole(st2.rows, st2.originals, st2.removed, b)
  <2> SUFFICES ASSUME Held(b) \subseteq Held(st2.rows), NEW i \in Slots,
                      ~(i \in 1 .. n /\ st2.rows[i] \in Held(b))
               PROVE  st.originals[i] = Absent /\ i \notin st2.removed
    BY <1>2 DEF Whole
  <2>1. Held(b) \subseteq Held(st.rows)
    <3> SUFFICES ASSUME NEW x \in Held(b) PROVE x \in Held(st.rows)  OBVIOUS
    <3>1. PICK k \in 1 .. n : st2.rows[k] = x  BY <1>2 DEF Held
    <3>2. k \in DOMAIN st.rows /\ st.rows[k] = x  BY <1>2, <3>1
    <3> QED  BY <3>2 DEF Held
  <2>2. ~(i \in DOMAIN st.rows /\ st.rows[i] \in Held(b))
    <3> SUFFICES ASSUME i \in DOMAIN st.rows, st.rows[i] \in Held(b) PROVE FALSE  OBVIOUS
    <3>1. PICK k \in 1 .. n : st2.rows[k] = st.rows[i]  BY <1>2 DEF Held
    <3>2. k \in DOMAIN st.rows /\ st.rows[k] = st.rows[i]  BY <1>2, <3>1
    <3>3. k = i  BY <3>2 DEF Distinct
    <3> QED  BY <1>2, <3>1, <3>3
  <2>3. st.originals[i] = Absent /\ i \notin st.removed
    BY <1>2, <2>1, <2>2 DEF Sound, Whole
  <2> QED  BY <2>3
<1> QED  BY <1>1, <1>2, <1>4, <1>5, <1>6, <1>7 DEF Sound

(* What a typed operation does to the rows r and their tokens t, a new row  *)
(* x under the token y; to the originals; and to a set of slots.            *)
Permuted(m, r, t, r2, t2, x, y) ==
    /\ DOMAIN r2 = 1 .. m.newLen /\ DOMAIN t2 = 1 .. m.newLen
    /\ \A j \in 1 .. m.newLen :
          \/ j \in m.fresh /\ r2[j] = x /\ t2[j] = y
          \/ \E i \in Survivors(m) : Dest(m, i) = j /\ r2[j] = r[i] /\ t2[j] = t[i]
OriginalsMoved(m, o, o2) ==
    /\ \A j \in Slots :
          \/ \E i \in Survivors(m) : Dest(m, i) = j /\ o2[j] = o[i]
          \/ o2[j] = Absent
          \/ j \notin 1 .. m.oldLen /\ o2[j] = o[j]
    /\ \A i \in Survivors(m) : Dest(m, i) \in Slots => o2[Dest(m, i)] = o[i]
SlotsMoved(m, v, v2) ==
    \A j \in v2 :
        \/ \E i \in Survivors(m) : Dest(m, i) = j /\ i \in v
        \/ j \notin 1 .. m.oldLen /\ j \in v

(* A list whose rows a typed operation moves.                               *)
LEMMA SoundPermuted ==
    ASSUME NEW st, NEW id, NEW b, NEW d, NEW stray, Sound(st, id, b, d, stray), id.tracked,
           DOMAIN b = DOMAIN d, Distinct(st.rows),
           NEW m, IsBijection(m), DOMAIN st.rows = 1 .. m.oldLen,
           m.newLen <= MaxLen, m.oldLen <= MaxLen,
           NEW st2, NEW id2, id2.tracked, id2.baseline = id.baseline,
           NEW fresh, fresh \notin Held(b), NEW fill, fill \notin Held(id.baseline),
           Permuted(m, st.rows, id.tokens, st2.rows, id2.tokens, fresh, fill),
           OriginalsMoved(m, st.originals, st2.originals),
           SlotsMoved(m, st.removed, st2.removed)
    PROVE  Sound(st2, id2, b, d, stray)
<1>0. /\ DOMAIN st2.rows = 1 .. m.newLen /\ DOMAIN id2.tokens = 1 .. m.newLen
      /\ \A j \in 1 .. m.newLen :
            \/ j \in m.fresh /\ st2.rows[j] = fresh /\ id2.tokens[j] = fill
            \/ \E i \in Survivors(m) :
                  Dest(m, i) = j /\ st2.rows[j] = st.rows[i] /\ id2.tokens[j] = id.tokens[i]
      /\ \A j \in Slots :
            \/ \E i \in Survivors(m) : Dest(m, i) = j /\ st2.originals[j] = st.originals[i]
            \/ st2.originals[j] = Absent
            \/ j \notin DOMAIN st.rows /\ st2.originals[j] = st.originals[j]
      /\ \A i \in Survivors(m) :
            Dest(m, i) \in Slots => st2.originals[Dest(m, i)] = st.originals[i]
      /\ \A j \in st2.removed :
            \/ \E i \in Survivors(m) : Dest(m, i) = j /\ i \in st.removed
            \/ j \notin DOMAIN st.rows /\ j \in st.removed
  BY DEF Permuted, OriginalsMoved, SlotsMoved
<1>1. /\ DOMAIN id.tokens = DOMAIN st.rows /\ DOMAIN id.baseline = DOMAIN d
      /\ Agree(st.rows, id.tokens, b, id.baseline)
      /\ Baselined(st.rows, st.originals, b, d)
      /\ ~stray => Valued(id.tokens, st.originals, id.baseline, d)
      /\ Whole(st.rows, st.originals, st.removed, b)
  BY DEF Sound
<1>2. /\ Survivors(m) \subseteq DOMAIN st.rows /\ Survivors(m) \subseteq Slots
      /\ 1 .. m.newLen \subseteq Slots
      /\ \A i \in Survivors(m) : Dest(m, i) \in 1 .. m.newLen
  BY RowsAssumption DEF Survivors, IsBijection, Slots
<1>3. Agree(st2.rows, id2.tokens, b, id2.baseline)
  <2> SUFFICES ASSUME NEW j \in 1 .. m.newLen, NEW k \in DOMAIN b, st2.rows[j] = b[k]
               PROVE  id2.tokens[j] = id.baseline[k]
    BY <1>0, <1>1 DEF Agree
  <2>1. PICK i \in Survivors(m) : st2.rows[j] = st.rows[i] /\ id2.tokens[j] = id.tokens[i]
    BY <1>0 DEF Held
  <2>2. i \in DOMAIN id.tokens /\ k \in DOMAIN id.baseline /\ st.rows[i] = b[k]
    BY <1>1, <1>2, <2>1
  <2>3. id.tokens[i] = id.baseline[k]  BY ONLY <1>1, <2>2 DEF Agree
  <2> QED  BY <2>1, <2>3
<1>4. Baselined(st2.rows, st2.originals, b, d)
  <2> SUFFICES ASSUME NEW j \in 1 .. m.newLen, NEW k \in DOMAIN b, st2.rows[j] = b[k]
               PROVE  st2.originals[j] = d[k]
    BY <1>0 DEF Baselined
  <2>1. PICK i \in Survivors(m) : Dest(m, i) = j /\ st2.rows[j] = st.rows[i]
    BY <1>0 DEF Held
  <2>2. st2.originals[j] = st.originals[i]  BY <1>0, <1>2, <2>1
  <2>3. i \in DOMAIN st.rows /\ st.rows[i] = b[k]  BY <1>2, <2>1
  <2>4. st.originals[i] = d[k]  BY ONLY <1>1, <2>3, k \in DOMAIN b DEF Baselined
  <2> QED  BY <2>2, <2>4
<1>5. ~stray => Valued(id2.tokens, st2.originals, id2.baseline, d)
  <2> SUFFICES ASSUME ~stray, NEW j \in 1 .. m.newLen, NEW k \in DOMAIN id.baseline,
                      id2.tokens[j] = id.baseline[k]
               PROVE  st2.originals[j] \in {Absent, d[k]}
    BY <1>0 DEF Valued
  <2>1. PICK i \in Survivors(m) : Dest(m, i) = j /\ id2.tokens[j] = id.tokens[i]
    BY <1>0 DEF Held
  <2>2. st2.originals[j] = st.originals[i]  BY <1>0, <1>2, <2>1
  <2> QED  BY <1>1, <1>2, <2>1, <2>2 DEF Valued
<1>6. Whole(st2.rows, st2.originals, st2.removed, b)
  <2> SUFFICES ASSUME Held(b) \subseteq Held(st2.rows), NEW j \in Slots,
                      ~(j \in 1 .. m.newLen /\ st2.rows[j] \in Held(b))
               PROVE  st2.originals[j] = Absent /\ j \notin st2.removed
    BY <1>0 DEF Whole
  <2>1. Held(b) \subseteq Held(st.rows)
    <3> SUFFICES ASSUME NEW x \in Held(b) PROVE x \in Held(st.rows)  OBVIOUS
    <3>1. PICK k \in 1 .. m.newLen : st2.rows[k] = x  BY <1>0 DEF Held
    <3>2. PICK i \in Survivors(m) : st2.rows[k] = st.rows[i]  BY <1>0, <3>1
    <3> QED  BY <1>2, <3>1, <3>2 DEF Held
  <2>2. \A i \in Slots : ~(i \in DOMAIN st.rows /\ st.rows[i] \in Held(b))
           => st.originals[i] = Absent /\ i \notin st.removed
    BY <1>1, <2>1 DEF Whole
  <2>3. ASSUME NEW i \in Survivors(m), Dest(m, i) = j
        PROVE  /\ st.originals[i] = Absent /\ i \notin st.removed
               /\ st2.originals[j] = st.originals[i]
    <3>1. j \in 1 .. m.newLen /\ st2.originals[j] = st.originals[i]  BY <1>0, <1>2, <2>3
    <3>2. st2.rows[j] = st.rows[i]
      <4>1. CASE \E l \in Survivors(m) : Dest(m, l) = j /\ st2.rows[j] = st.rows[l]
        BY <2>3, <4>1 DEF IsBijection
      <4>2. CASE j \in m.fresh  BY <2>3, <3>1, <4>2 DEF IsBijection
      <4> QED  BY <1>0, <3>1, <4>1, <4>2
    <3> QED  BY <1>2, <2>2, <3>1, <3>2
  <2> QED  BY <1>0, <2>2, <2>3
<1> QED  BY <1>0, <1>1, <1>3, <1>4, <1>5, <1>6 DEF Sound

(* The identity x that a restore puts back when the live one is id          *)
(* (PlannedIdentity), and a position that reads soundly under it.           *)
Plan(x, id) ==
    IF ~x.tracked /\ id.tracked THEN [id EXCEPT !.tokens = id.baseline] ELSE x
SoundPosition(p, id, b, d, stray) ==
    LET q == Plan(p.identity, id) IN
        /\ q.tracked <=> id.tracked
        /\ q.baseline = id.baseline
        /\ Sound(p, q, b, d, stray)

(* A live identity after another one: the same baseline, or a list that is  *)
(* tracked for the first time, at the rows b.                               *)
Continues(id, id2, b) ==
    \/ (id2.tracked <=> id.tracked) /\ id2.baseline = id.baseline
    \/ ~id.tracked /\ id2.tracked /\ DOMAIN id2.baseline = DOMAIN b

(* planOrders: the identity of the position, or the baseline of the live    *)
(* one when the position was taken before the list had tokens.              *)
LEMMA PlanFacts ==
    ASSUME NEW t \in Nat, NEW x, WellIdentity(x, t), NEW id, WellIdentity(id, t)
    PROVE  LET q == Plan(x, id) IN
           /\ WellIdentity(q, t)
           /\ q.tracked <=> x.tracked \/ id.tracked
           /\ q.tokens = IF ~x.tracked /\ id.tracked THEN id.baseline ELSE x.tokens
           /\ q.baseline = IF ~x.tracked /\ id.tracked THEN id.baseline ELSE x.baseline
<1>1. CASE ~x.tracked /\ id.tracked
  <2> DEFINE q == [id EXCEPT !.tokens = id.baseline]
  <2>1. id = [tracked |-> id.tracked, tokens |-> id.tokens, baseline |-> id.baseline]
        /\ id.tracked \in BOOLEAN /\ WellTokens(id.baseline, t)
    BY DEF WellIdentity
  <2>2. q.tracked = id.tracked /\ q.tokens = id.baseline /\ q.baseline = id.baseline
        /\ q = [tracked |-> q.tracked, tokens |-> q.tokens, baseline |-> q.baseline]
    BY <2>1
  <2>3. Plan(x, id) = q  BY <1>1 DEF Plan
  <2> HIDE DEF q
  <2>4. WellIdentity(q, t)  BY <1>1, <2>1, <2>2 DEF WellIdentity
  <2> QED  BY <1>1, <2>2, <2>3, <2>4
<1>2. CASE ~(~x.tracked /\ id.tracked)  BY <1>2 DEF Plan
<1> QED  BY <1>1, <1>2

(* The plan depends on the live identity by its baseline alone.             *)
LEMMA PlanStays ==
    ASSUME NEW t \in Nat, NEW x, WellIdentity(x, t), NEW id, WellIdentity(id, t),
           NEW id2, WellIdentity(id2, t),
           id2.tracked <=> id.tracked, id2.baseline = id.baseline
    PROVE  Plan(x, id2) = Plan(x, id)
<1> DEFINE q == Plan(x, id)
           q2 == Plan(x, id2)
<1>1. /\ WellIdentity(q, t) /\ WellIdentity(q2, t)
      /\ q2.tracked <=> q.tracked
      /\ q2.tokens = q.tokens /\ q2.baseline = q.baseline
  BY PlanFacts
<1> HIDE DEF q, q2
<1>2. /\ q = [tracked |-> q.tracked, tokens |-> q.tokens, baseline |-> q.baseline]
      /\ q2 = [tracked |-> q2.tracked, tokens |-> q2.tokens, baseline |-> q2.baseline]
      /\ q.tracked \in BOOLEAN /\ q2.tracked \in BOOLEAN
  BY <1>1 DEF WellIdentity
<1>3. q2.tracked = q.tracked  BY <1>1, <1>2, Zenon
<1>4. q2 = [tracked |-> q.tracked, tokens |-> q.tokens, baseline |-> q.baseline]
  BY <1>1, <1>2, <1>3
<1> QED  BY <1>2, <1>4 DEF q, q2

(* A position that reads soundly still does after a write that leaves the   *)
(* defaults alone, whether or not the live list got its tokens in it.       *)
LEMMA SoundLonger ==
    ASSUME NEW st, NEW id, NEW b, NEW d, NEW stray, Sound(st, id, b, d, stray),
           NEW stray2, ~stray2 => ~stray
    PROVE  Sound(st, id, b, d, stray2)
BY DEF Sound

(* So does one after the list got its tokens.                               *)
LEMMA PositionContinues ==
    ASSUME NEW t \in Nat, NEW p, WellIdentity(p.identity, t), NEW id, WellIdentity(id, t),
           NEW id2, WellIdentity(id2, t), NEW b, Distinct(b), NEW d, DOMAIN b = DOMAIN d,
           Continues(id, id2, b), NEW stray, NEW stray2, ~stray2 => ~stray,
           SoundPosition(p, id, b, d, stray)
    PROVE  SoundPosition(p, id2, b, d, stray2)
<1> DEFINE x == p.identity
           q == Plan(x, id)
           q2 == Plan(x, id2)
<1>1. /\ q.tracked <=> id.tracked
      /\ q.baseline = id.baseline
      /\ Sound(p, q, b, d, stray)
  BY DEF SoundPosition
<1>2. /\ q2.tracked <=> x.tracked \/ id2.tracked
      /\ q2.tokens = IF ~x.tracked /\ id2.tracked THEN id2.baseline ELSE x.tokens
      /\ q2.baseline = IF ~x.tracked /\ id2.tracked THEN id2.baseline ELSE x.baseline
      /\ q.tracked <=> x.tracked \/ id.tracked
  BY PlanFacts
<1> HIDE DEF q, q2, x
<1>3. CASE (id2.tracked <=> id.tracked) /\ id2.baseline = id.baseline
  <2>1. q2 = q  BY <1>3, PlanStays DEF q, q2, x
  <2>2. Sound(p, q, b, d, stray2)  BY <1>1, SoundLonger
  <2> QED  BY <1>1, <1>3, <2>1, <2>2 DEF SoundPosition, q2, x
<1>4. CASE ~id.tracked /\ id2.tracked /\ DOMAIN id2.baseline = DOMAIN b
  <2>1. ~x.tracked /\ ~q.tracked /\ p.rows = b  BY <1>1, <1>2, <1>4 DEF Sound
  <2>2. q2.tracked /\ q2.tokens = id2.baseline /\ q2.baseline = id2.baseline
    BY <1>2, <1>4, <2>1
  <2>3. Distinct(id2.baseline)  BY DEF WellIdentity, WellTokens
  <2>4. Sound(p, q2, b, d, stray)
    BY <1>1, <1>4, <2>1, <2>2, <2>3, SoundTracked
  <2>5. Sound(p, q2, b, d, stray2)  BY <2>4, SoundLonger
  <2> QED  BY <1>4, <2>2, <2>5 DEF SoundPosition, q2, x
<1> QED  BY <1>3, <1>4 DEF Continues

-----------------------------------------------------------------------------
(* The line of positions js, c among them: at each, a list of rows r, their *)
(* tokens t, the slots d with a record; and w, the rows touched.  A row     *)
(* that leaves the list does not come back further on; the record of a row  *)
(* that is not in the next position towards c is kept in the last that has  *)
(* it.                                                                      *)
Kept(r, d, s, w) == \A i \in DOMAIN r : r[i] \in w /\ r[i] \notin Held(s) => i \in d
Recorded(r, d, w) == \A i \in d : i \in DOMAIN r /\ r[i] \in w
LineOK(js, c, r, t, d, w) ==
    /\ c \in js
    /\ \A k, l \in js : Agree(r[k], t[k], r[l], t[l])
    /\ \A k, l \in js : l = k + 1 => Apart(r[k], t[k], r[l], t[l])
    /\ \A k, l, m \in js : k < l /\ l < m => Held(r[k]) \cap Held(r[m]) \subseteq Held(r[l])
    /\ \A k, l \in js : l = k + 1 /\ k < c => Kept(r[k], d[k], r[l], w)
    /\ \A k, l \in js : l = k + 1 /\ l > c => Kept(r[l], d[l], r[k], w)
    /\ \A k \in js : Recorded(r[k], d[k], w)

(* A list of rows r2 that a step makes of r: its rows are those of r, with  *)
(* their tokens, and rows and tokens that are not among the old.            *)
Follows(r, t, r2, t2, old) ==
    /\ \A j \in DOMAIN r2 : r2[j] \in Held(r) \/ r2[j] \notin old
    /\ DOMAIN t2 \subseteq DOMAIN r2
    /\ \A j \in DOMAIN t2 :
          \/ \E i \in DOMAIN t : r2[j] = r[i] /\ t2[j] = t[i]
          \/ r2[j] \notin old /\ t2[j] \notin Held(t)
Listed(r, t, old) ==
    Distinct(r) /\ Distinct(t) /\ DOMAIN t \subseteq DOMAIN r /\ Held(r) \subseteq old

(* A list that a step makes of r agrees on the keys with every list r       *)
(* agrees with, is apart from r, and has no row in common with another that *)
(* r has not.                                                               *)
LEMMA FollowersAgree ==
    ASSUME NEW r, NEW t, NEW old, Listed(r, t, old), NEW r2, NEW t2,
           Follows(r, t, r2, t2, old), Distinct(r2),
           NEW s, NEW u, Listed(s, u, old), Agree(r, t, s, u)
    PROVE  /\ Agree(r2, t2, s, u) /\ Agree(s, u, r2, t2) /\ Agree(r2, t2, r2, t2)
           /\ Apart(r, t, r2, t2) /\ Apart(r2, t2, r, t)
           /\ Held(r2) \cap Held(s) \subseteq Held(r) \cap Held(s)
<1>1. /\ \A j \in DOMAIN s : s[j] \in old
      /\ \A j \in DOMAIN u : s[j] \in old
  BY DEF Listed, Held
<1>2. \A i \in DOMAIN t2, j \in DOMAIN u : r2[i] = s[j] => t2[i] = u[j]
  <2> SUFFICES ASSUME NEW i \in DOMAIN t2, NEW j \in DOMAIN u, r2[i] = s[j]
               PROVE  t2[i] = u[j]
    OBVIOUS
  <2>1. PICK k \in DOMAIN t : r2[i] = r[k] /\ t2[i] = t[k]  BY <1>1 DEF Follows
  <2> QED  BY <2>1 DEF Agree
<1>3. \A i \in DOMAIN t, j \in DOMAIN t2 : t[i] = t2[j] => r[i] = r2[j]
  <2> SUFFICES ASSUME NEW i \in DOMAIN t, NEW j \in DOMAIN t2, t[i] = t2[j]
               PROVE  r[i] = r2[j]
    OBVIOUS
  <2>1. t2[j] \in Held(t)  BY DEF Held
  <2>2. PICK k \in DOMAIN t : r2[j] = r[k] /\ t2[j] = t[k]  BY <2>1 DEF Follows
  <2> QED  BY <2>2 DEF Listed, Distinct
<1>4. Agree(r2, t2, r2, t2)  BY DEF Agree, Distinct, Follows
<1>5. Held(r2) \cap Held(s) \subseteq Held(r)  BY <1>1 DEF Held, Follows
<1> QED  BY <1>2, <1>3, <1>4, <1>5 DEF Agree, Apart

(* The positions ks of a line after it has grown by n, behind the others;   *)
(* at[k] in js is where k was, and c, the last of them, is in front of n.   *)
Moved(js, c, ks, n, at) ==
    /\ n \in ks
    /\ \A k \in ks : k = n \/ (at[k] \in js /\ (at[k] = c \/ at[k] < c))
    /\ \A k \in ks : ~(n + 1 = k) /\ ~(n < k) /\ (at[k] < c => at[k] # c)
    /\ \A k, l \in ks : k < l => k # n /\ (l # n => at[k] < at[l])
    /\ \A k, l \in ks : l = k + 1 =>
          k # n /\ IF l = n THEN at[k] = c ELSE at[l] = at[k] + 1 /\ at[k] < c

(* A write adds a position, n, behind the cursor's; those up to the cursor  *)
(* were elsewhere.                                                          *)
LEMMA LinePushed ==
    ASSUME NEW js, NEW c, NEW r, NEW t, NEW d, NEW w, LineOK(js, c, r, t, d, w),
           NEW n, NEW ks, NEW at, Moved(js, c, ks, n, at),
           NEW old, \A k \in js : Listed(r[k], t[k], old),
           NEW r2, NEW t2, NEW d2,
           \A k \in ks : k # n => r2[k] = r[at[k]] /\ t2[k] = t[at[k]],
           \A k \in ks : k # n /\ at[k] # c => d2[k] = d[at[k]],
           \A k \in ks : k # n /\ at[k] = c => /\ Recorded(r[c], d2[k], w)
                                               /\ Kept(r[c], d2[k], r2[n], w),
           Follows(r[c], t[c], r2[n], t2[n], old), Distinct(r2[n]),
           Recorded(r2[n], d2[n], w)
    PROVE  LineOK(ks, n, r2, t2, d2, w)
<1>0. /\ n \in ks
      /\ \A k \in ks : k = n \/ (at[k] \in js /\ (at[k] = c \/ at[k] < c))
      /\ \A k \in ks : ~(n + 1 = k) /\ ~(n < k) /\ (at[k] < c => at[k] # c)
      /\ \A k, l \in ks : k < l => k # n /\ (l # n => at[k] < at[l])
      /\ \A k, l \in ks : l = k + 1 =>
            k # n /\ IF l = n THEN at[k] = c ELSE at[l] = at[k] + 1 /\ at[k] < c
  BY DEF Moved
<1>1. c \in js /\ Listed(r[c], t[c], old)  BY DEF LineOK
<1>3. \A k \in ks : k # n =>
         /\ Agree(r2[n], t2[n], r2[k], t2[k]) /\ Agree(r2[k], t2[k], r2[n], t2[n])
         /\ Held(r2[k]) \cap Held(r2[n]) \subseteq Held(r2[k]) \cap Held(r[c])
  <2> SUFFICES ASSUME NEW k \in ks, k # n
               PROVE  /\ Agree(r2[n], t2[n], r2[k], t2[k]) /\ Agree(r2[k], t2[k], r2[n], t2[n])
                      /\ Held(r2[k]) \cap Held(r2[n]) \subseteq Held(r2[k]) \cap Held(r[c])
    OBVIOUS
  <2>1. at[k] \in js /\ r2[k] = r[at[k]] /\ t2[k] = t[at[k]]  BY <1>0
  <2>2. Listed(r2[k], t2[k], old) /\ Agree(r[c], t[c], r2[k], t2[k])
    BY <1>1, <2>1 DEF LineOK
  <2>3. /\ Agree(r2[n], t2[n], r2[k], t2[k]) /\ Agree(r2[k], t2[k], r2[n], t2[n])
        /\ Held(r2[n]) \cap Held(r2[k]) \subseteq Held(r[c]) \cap Held(r2[k])
    BY <1>1, <2>2, FollowersAgree
  <2> QED  BY <2>3
<1>4. Agree(r2[n], t2[n], r2[n], t2[n]) /\ Apart(r[c], t[c], r2[n], t2[n])
  <2>1. Agree(r[c], t[c], r[c], t[c])  BY <1>1 DEF LineOK
  <2> QED  BY <1>1, <2>1, FollowersAgree
<1>5. ASSUME NEW k \in ks, NEW l \in ks PROVE Agree(r2[k], t2[k], r2[l], t2[l])
  <2>1. CASE k = n \/ l = n  BY <1>3, <1>4, <2>1
  <2>2. CASE k # n /\ l # n
    <3>1. at[k] \in js /\ at[l] \in js  BY <1>0, <2>2
    <3>2. Agree(r[at[k]], t[at[k]], r[at[l]], t[at[l]])  BY <3>1 DEF LineOK
    <3> QED  BY <2>2, <3>2
  <2> QED  BY <2>1, <2>2
<1>6. ASSUME NEW k \in ks, NEW l \in ks, l = k + 1 PROVE Apart(r2[k], t2[k], r2[l], t2[l])
  <2>1. k # n  BY <1>0, <1>6
  <2>2. CASE l = n  BY <1>0, <1>4, <1>6, <2>1, <2>2
  <2>3. CASE l # n
    <3>1. at[l] = at[k] + 1 /\ at[k] \in js /\ at[l] \in js  BY <1>0, <1>6, <2>1, <2>3
    <3>2. Apart(r[at[k]], t[at[k]], r[at[l]], t[at[l]])  BY <3>1 DEF LineOK
    <3> QED  BY <2>1, <2>3, <3>2
  <2> QED  BY <2>2, <2>3
<1>7. ASSUME NEW k \in ks, NEW l \in ks, NEW m \in ks, k < l, l < m
      PROVE  Held(r2[k]) \cap Held(r2[m]) \subseteq Held(r2[l])
  <2>1. /\ k # n /\ l # n /\ at[k] \in js /\ at[l] \in js /\ at[k] < at[l]
        /\ r2[k] = r[at[k]] /\ r2[l] = r[at[l]] /\ (at[l] = c \/ at[l] < c)
    BY <1>0, <1>7
  <2>2. CASE m = n
    <3>1. Held(r2[k]) \cap Held(r[c]) \subseteq Held(r2[l])
      <4>1. CASE at[l] = c  BY <2>1, <4>1
      <4>2. CASE at[l] < c  BY <1>1, <2>1, <4>2 DEF LineOK
      <4> QED  BY <2>1, <4>1, <4>2
    <3>2. Held(r2[k]) \cap Held(r2[n]) \subseteq Held(r2[k]) \cap Held(r[c])
      BY <1>3, <2>1
    <3> QED  BY <2>2, <3>1, <3>2
  <2>3. CASE m # n
    <3>1. at[m] \in js /\ at[l] < at[m] /\ r2[m] = r[at[m]]  BY <1>0, <1>7, <2>3
    <3>2. Held(r[at[k]]) \cap Held(r[at[m]]) \subseteq Held(r[at[l]])
      <4> DEFINE x == at[k]
                 y == at[l]
                 z == at[m]
      <4>1. x \in js /\ y \in js /\ z \in js /\ x < y /\ y < z  BY <2>1, <3>1
      <4> HIDE DEF x, y, z
      <4>2. Held(r[x]) \cap Held(r[z]) \subseteq Held(r[y])  BY <4>1 DEF LineOK
      <4> QED  BY <4>2 DEF x, y, z
    <3> QED  BY <2>1, <3>1, <3>2
  <2> QED  BY <2>2, <2>3
<1>8. ASSUME NEW k \in ks, NEW l \in ks, l = k + 1
      PROVE  Kept(r2[k], d2[k], r2[l], w)
  <2>1. k # n /\ at[k] \in js /\ r2[k] = r[at[k]]  BY <1>0, <1>8
  <2>2. CASE l = n
    <3>1. at[k] = c  BY <1>0, <1>8, <2>2
    <3> QED  BY <2>1, <2>2, <3>1
  <2>3. CASE l # n
    <3>1. at[l] = at[k] + 1 /\ at[k] < c /\ at[l] \in js  BY <1>0, <1>8, <2>3
    <3>2. r2[l] = r[at[l]] /\ d2[k] = d[at[k]]  BY <1>0, <2>1, <2>3, <3>1
    <3>3. Kept(r[at[k]], d[at[k]], r[at[l]], w)  BY <2>1, <3>1 DEF LineOK
    <3> QED  BY <2>1, <3>2, <3>3
  <2> QED  BY <2>2, <2>3
<1>9. ASSUME NEW k \in ks PROVE ~(k > n)  BY <1>0
<1>10. ASSUME NEW k \in ks PROVE Recorded(r2[k], d2[k], w)
  <2>1. CASE k = n  BY <2>1
  <2>2. CASE k # n /\ at[k] = c  BY <2>2
  <2>3. CASE k # n /\ at[k] # c
    <3>1. at[k] \in js /\ r2[k] = r[at[k]] /\ d2[k] = d[at[k]]  BY <1>0, <2>3
    <3>2. Recorded(r[at[k]], d[at[k]], w)  BY <3>1 DEF LineOK
    <3> QED  BY <3>1, <3>2
  <2> QED  BY <2>1, <2>2, <2>3
<1> QED  BY <1>0, <1>5, <1>6, <1>7, <1>8, <1>9, <1>10 DEF LineOK

(* The records d have every row of r that is touched; a neighbour c2 of c,  *)
(* and a position b in front of the line; what is as it was at js.          *)
AllRecorded(r, d, w) == \A i \in DOMAIN r : r[i] \in w => i \in d
Beside(js, c, c2) == js \subseteq Int /\ c \in Int /\ c2 \in js /\ (c2 = c + 1 \/ c2 = c - 1)
InFront(js, c, ks, b) ==
    js \subseteq Int /\ c \in Int /\ (\A k \in js : k >= c) /\ b = c - 1 /\ ks = js \cup {b}
SameAt(js, f, f2) == \A k \in js : f2[k] = f[k]

(* An undo or redo goes one position along the line, and takes the records  *)
(* of the position it leaves with it.                                       *)
LEMMA LineStepped ==
    ASSUME NEW js, NEW c, NEW r, NEW t, NEW d, NEW w, LineOK(js, c, r, t, d, w),
           AllRecorded(r[c], d[c], w), NEW c2, Beside(js, c, c2),
           NEW r2, NEW t2, NEW d2,
           SameAt(js, r, r2), SameAt(js, t, t2), SameAt(js \ {c2}, d, d2),
           Recorded(r2[c2], d2[c2], w)
    PROVE  LineOK(js, c2, r2, t2, d2, w)
<1>0. /\ js \subseteq Int /\ c \in Int /\ c2 \in js /\ (c2 = c + 1 \/ c2 = c - 1)
      /\ \A i \in DOMAIN r[c] : r[c][i] \in w => i \in d[c]
      /\ \A k \in js : r2[k] = r[k] /\ t2[k] = t[k]
      /\ \A k \in js \ {c2} : d2[k] = d[k]
  BY DEF Beside, AllRecorded, SameAt
<1>1. ASSUME NEW k \in js, NEW l \in js, l = k + 1, k < c2
      PROVE  Kept(r2[k], d2[k], r2[l], w)
  <2>1. k # c2 /\ d2[k] = d[k] /\ k \in Int  BY <1>0, <1>1
  <2>2. CASE k < c  BY <1>0, <1>1, <2>1, <2>2 DEF LineOK
  <2>3. CASE k = c  BY <1>0, <1>1, <2>1, <2>3 DEF Kept
  <2> QED  BY <1>0, <1>1, <2>1, <2>2, <2>3
<1>2. ASSUME NEW k \in js, NEW l \in js, l = k + 1, l > c2
      PROVE  Kept(r2[l], d2[l], r2[k], w)
  <2>0. l \in Int /\ c2 \in Int  BY <1>0
  <2>1. l # c2 /\ d2[l] = d[l] /\ l \in Int  BY <1>0, <1>2, <2>0
  <2>2. CASE l > c  BY <1>0, <1>2, <2>1, <2>2 DEF LineOK
  <2>3. CASE l = c  BY <1>0, <1>2, <2>1, <2>3 DEF Kept
  <2> QED  BY <1>0, <1>2, <2>1, <2>2, <2>3
<1>3. ASSUME NEW k \in js PROVE Recorded(r2[k], d2[k], w)
  BY <1>0, <1>3 DEF LineOK
<1>4. /\ \A k, l \in js : Agree(r2[k], t2[k], r2[l], t2[l])
      /\ \A k, l \in js : l = k + 1 => Apart(r2[k], t2[k], r2[l], t2[l])
      /\ \A k, l, m \in js : k < l /\ l < m => Held(r2[k]) \cap Held(r2[m]) \subseteq Held(r2[l])
  BY <1>0 DEF LineOK
<1> QED  BY <1>0, <1>1, <1>2, <1>3, <1>4 DEF LineOK

(* An undo to a position of another generation adds its list, made from the *)
(* live one, in front of the line.                                          *)
LEMMA LineBack ==
    ASSUME NEW js, NEW c, NEW r, NEW t, NEW d, NEW w, LineOK(js, c, r, t, d, w),
           AllRecorded(r[c], d[c], w), NEW old, \A k \in js : Listed(r[k], t[k], old),
           NEW b, NEW ks, InFront(js, c, ks, b),
           NEW r2, NEW t2, NEW d2, SameAt(js, r, r2), SameAt(js, t, t2), SameAt(js, d, d2),
           Follows(r[c], t[c], r2[b], t2[b], old), Distinct(r2[b]),
           Recorded(r2[b], d2[b], w)
    PROVE  LineOK(ks, b, r2, t2, d2, w)
<1>0. /\ js \subseteq Int /\ c \in Int /\ (\A k \in js : k >= c)
      /\ b = c - 1 /\ ks = js \cup {b}
      /\ \A i \in DOMAIN r[c] : r[c][i] \in w => i \in d[c]
      /\ \A k \in js : r2[k] = r[k] /\ t2[k] = t[k] /\ d2[k] = d[k]
  BY DEF InFront, AllRecorded, SameAt
<1>1. c \in js /\ Listed(r[c], t[c], old) /\ b \in ks  BY <1>0 DEF LineOK
<1>2. \A k \in ks : k \in Int /\ (k # b => k \in js /\ k >= c /\ k > b) /\ (k = b => k \notin js)
  BY <1>0
<1>3. \A k \in js :
         /\ Agree(r2[b], t2[b], r2[k], t2[k]) /\ Agree(r2[k], t2[k], r2[b], t2[b])
         /\ Held(r2[b]) \cap Held(r2[k]) \subseteq Held(r[c]) \cap Held(r2[k])
  <2> SUFFICES ASSUME NEW k \in js
               PROVE  /\ Agree(r2[b], t2[b], r2[k], t2[k]) /\ Agree(r2[k], t2[k], r2[b], t2[b])
                      /\ Held(r2[b]) \cap Held(r2[k]) \subseteq Held(r[c]) \cap Held(r2[k])
    BY <1>0
  <2>1. Listed(r2[k], t2[k], old) /\ Agree(r[c], t[c], r2[k], t2[k])
    BY <1>0, <1>1 DEF LineOK
  <2> QED  BY <1>0, <1>1, <2>1, FollowersAgree
<1>4. Agree(r2[b], t2[b], r2[b], t2[b]) /\ Apart(r2[b], t2[b], r2[c], t2[c])
  <2>1. Agree(r[c], t[c], r[c], t[c]) /\ r2[c] = r[c] /\ t2[c] = t[c]  BY <1>0, <1>1 DEF LineOK
  <2> QED  BY <1>0, <1>1, <2>1, FollowersAgree
<1>5. ASSUME NEW k \in ks, NEW l \in ks PROVE Agree(r2[k], t2[k], r2[l], t2[l])
  <2>1. CASE k = b \/ l = b  BY <1>0, <1>2, <1>3, <1>4, <2>1
  <2>2. CASE k # b /\ l # b  BY <1>0, <1>2, <2>2 DEF LineOK
  <2> QED  BY <1>0, <2>1, <2>2
<1>6. ASSUME NEW k \in ks, NEW l \in ks, l = k + 1 PROVE Apart(r2[k], t2[k], r2[l], t2[l])
  <2>1. l # b /\ l \in js  BY <1>0, <1>2, <1>6
  <2>2. CASE k = b
    <3>1. l = c  BY <1>0, <1>6, <2>2
    <3> QED  BY <1>0, <1>4, <2>2, <3>1
  <2>3. CASE k # b  BY <1>0, <1>2, <1>6, <2>1, <2>3 DEF LineOK
  <2> QED  BY <1>0, <2>2, <2>3
<1>7. ASSUME NEW k \in ks, NEW l \in ks, NEW m \in ks, k < l, l < m
      PROVE  Held(r2[k]) \cap Held(r2[m]) \subseteq Held(r2[l])
  <2>1. l # b /\ l \in js /\ l >= c /\ m # b /\ m \in js /\ r2[l] = r[l] /\ r2[m] = r[m]
    BY <1>0, <1>2, <1>7
  <2>2. CASE k = b
    <3>1. Held(r[c]) \cap Held(r[m]) \subseteq Held(r[l])
      <4>1. CASE l = c  BY <1>0, <4>1
      <4>2. CASE l # c
        <5>1. c < l  BY <1>0, <1>2, <2>1, <4>2
        <5> QED  BY <1>0, <1>1, <1>7, <2>1, <5>1 DEF LineOK
      <4> QED  BY <1>0, <4>1, <4>2
    <3>2. Held(r2[b]) \cap Held(r2[m]) \subseteq Held(r[c]) \cap Held(r2[m])  BY <1>0, <1>3, <2>1
    <3> QED  BY <1>0, <2>1, <2>2, <3>1, <3>2
  <2>3. CASE k # b  BY <1>0, <1>2, <1>7, <2>1, <2>3 DEF LineOK
  <2> QED  BY <1>0, <2>2, <2>3
<1>8. ASSUME NEW k \in ks PROVE ~(k < b)  BY <1>0, <1>2
<1>9. ASSUME NEW k \in ks, NEW l \in ks, l = k + 1, l > b
      PROVE  Kept(r2[l], d2[l], r2[k], w)
  <2>1. l # b /\ l \in js /\ r2[l] = r[l] /\ d2[l] = d[l]  BY <1>0, <1>2, <1>9
  <2>2. CASE k = b
    <3>1. l = c  BY <1>0, <1>9, <2>2
    <3> QED  BY <1>0, <2>1, <3>1 DEF Kept
  <2>3. CASE k # b
    <3>1. k \in js /\ l > c /\ r2[k] = r[k]  BY <1>0, <1>2, <1>9, <2>1, <2>3
    <3> QED  BY <1>0, <1>9, <2>1, <3>1 DEF LineOK
  <2> QED  BY <1>0, <2>2, <2>3
<1>10. ASSUME NEW k \in ks PROVE Recorded(r2[k], d2[k], w)
  <2>1. CASE k = b  BY <1>0, <2>1
  <2>2. CASE k # b
    <3>1. k \in js  BY <1>0, <1>2, <2>2
    <3> QED  BY <1>0, <3>1 DEF LineOK
  <2> QED  BY <1>0, <2>1, <2>2
<1> QED  BY <1>0, <1>1, <1>5, <1>6, <1>7, <1>8, <1>9, <1>10 DEF LineOK

(* A row of the live list is touched.                                       *)
LEMMA LineTouched ==
    ASSUME NEW js, js \subseteq Int, NEW c \in Int, NEW r, NEW t, NEW d, NEW w,
           LineOK(js, c, r, t, d, w),
           NEW i \in DOMAIN r[c], NEW w2, w2 = w \cup {r[c][i]},
           NEW d2, \A k \in js \ {c} : d2[k] = d[k],
           Recorded(r[c], d2[c], w2)
    PROVE  LineOK(js, c, r, t, d2, w2)
<1>1. c \in js /\ r[c][i] \in Held(r[c])  BY DEF LineOK, Held
<1>2. ASSUME NEW k \in js, NEW l \in js, l = k + 1, k < c
      PROVE  Kept(r[k], d2[k], r[l], w2)
  <2>1. k # c /\ d2[k] = d[k] /\ k \in Int /\ l \in Int /\ (l = c \/ l < c)  BY <1>2
  <2>2. Kept(r[k], d[k], r[l], w)  BY <1>2 DEF LineOK
  <2>3. Held(r[k]) \cap Held(r[c]) \subseteq Held(r[l])
    <3>1. CASE l = c  BY <3>1
    <3>2. CASE l < c
      <4>1. k < l  BY <1>2, <2>1
      <4> QED  BY <1>1, <3>2, <4>1 DEF LineOK
    <3> QED  BY <2>1, <3>1, <3>2
  <2>4. \A j \in DOMAIN r[k] : r[k][j] = r[c][i] => r[k][j] \in Held(r[l])
    BY <1>1, <2>3 DEF Held
  <2> QED  BY <2>1, <2>2, <2>4 DEF Kept
<1>3. ASSUME NEW k \in js, NEW l \in js, l = k + 1, l > c
      PROVE  Kept(r[l], d2[l], r[k], w2)
  <2>0. l \in Int /\ k \in Int  OBVIOUS
  <2>1. l # c /\ d2[l] = d[l] /\ k \in Int /\ l \in Int /\ (k = c \/ c < k)  BY <1>3, <2>0
  <2>2. Kept(r[l], d[l], r[k], w)  BY <1>3 DEF LineOK
  <2>3. Held(r[c]) \cap Held(r[l]) \subseteq Held(r[k])
    <3>1. CASE k = c  BY <3>1
    <3>2. CASE c < k
      <4>1. k < l  BY <1>3, <2>1
      <4> QED  BY <1>1, <3>2, <4>1 DEF LineOK
    <3> QED  BY <2>1, <3>1, <3>2
  <2>4. \A j \in DOMAIN r[l] : r[l][j] = r[c][i] => r[l][j] \in Held(r[k])
    BY <1>1, <2>3 DEF Held
  <2> QED  BY <2>1, <2>2, <2>4 DEF Kept
<1>4. ASSUME NEW k \in js PROVE Recorded(r[k], d2[k], w2)
  <2>1. CASE k = c  BY <2>1
  <2>2. CASE k # c  BY <2>2 DEF LineOK, Recorded
  <2> QED  BY <2>1, <2>2
<1> QED  BY <1>2, <1>3, <1>4 DEF LineOK

(* A list is tracked for the first time: all along the line it is one list, *)
(* under the same keys.                                                     *)
LEMMA LineTracked ==
    ASSUME NEW js, NEW c, NEW r, NEW t, NEW d, NEW w, LineOK(js, c, r, t, d, w),
           NEW b, Distinct(b), NEW e, Distinct(e), DOMAIN e = DOMAIN b,
           NEW t2, \A k \in js : r[k] = b /\ t2[k] = e
    PROVE  LineOK(js, c, r, t2, d, w)
<1>1. Agree(b, e, b, e) /\ Apart(b, e, b, e)  BY DEF Agree, Apart, Distinct
<1> QED  BY <1>1 DEF LineOK

(* What the line reads of r, t and d is at its own positions.               *)
LEMMA LineSame ==
    ASSUME NEW js, NEW c, NEW r, NEW t, NEW d, NEW w, LineOK(js, c, r, t, d, w),
           NEW r2, NEW t2, NEW d2,
           \A k \in js : r2[k] = r[k] /\ t2[k] = t[k] /\ d2[k] = d[k]
    PROVE  LineOK(js, c, r2, t2, d2, w)
BY DEF LineOK

(* A line of one position.                                                  *)
LEMMA LineAlone ==
    ASSUME NEW c \in Int, NEW r, NEW t, NEW d, NEW w, Distinct(r[c]),
           DOMAIN t[c] \subseteq DOMAIN r[c], Recorded(r[c], d[c], w)
    PROVE  LineOK({c}, c, r, t, d, w)
<1>1. Agree(r[c], t[c], r[c], t[c])  BY DEF Agree, Distinct
<1>2. c # c + 1 /\ ~(c < c)  OBVIOUS
<1> QED  BY <1>1, <1>2 DEF LineOK

-----------------------------------------------------------------------------
(* Where the positions lie: those of the live generation are the last ones. *)

(* Positions of earlier generations lie before those of this one, and none  *)
(* lies ahead of the cursor.                                                *)
GenerationsInv ==
    /\ generation \in Nat
    /\ \A k \in 1 .. Len(positions) :
          /\ positions[k].generation \in Nat /\ positions[k].generation <= generation
          /\ k > cursor => positions[k].generation = generation
    /\ \A k, l \in 1 .. Len(positions) :
          k < l => positions[k].generation <= positions[l].generation

(* A push: the new cursor, and where each position was.                     *)
LEMMA Shifted ==
    ASSUME HistoryInv, NEW left, NEW snap, IsSnapshot(snap),
           positions' = Pushed(left, snap), cursor' = Len(positions'),
           NEW n, n = NewCursor, NEW sh, sh = cursor + 1 - n
    PROVE  /\ n \in Int /\ n >= 1 /\ sh \in Int /\ n - 1 + sh = cursor
           /\ cursor \in 1 .. Len(positions) /\ cursor \in Int /\ Len(positions) \in Nat
           /\ cursor' = n /\ Len(positions') = n /\ positions'[n] = snap
           /\ \A k \in 1 .. (n - 1) :
                 /\ k + sh \in 1 .. cursor /\ k + sh \in 1 .. Len(positions)
                 /\ positions'[k].structure = positions[k + sh].structure
                 /\ positions'[k].generation = positions[k + sh].generation
<1>1. /\ cursor \in 1 .. Capacity /\ Capacity \in Nat /\ cursor \in 1 .. Len(positions)
      /\ Len(positions) \in Nat
  BY RowsAssumption DEF HistoryInv
<1>2. n \in 1 .. (cursor + 1) /\ n \in Int /\ n >= cursor  BY <1>1 DEF NewCursor
<1>3. \A k \in 1 .. (n - 1) : k + sh \in 1 .. cursor /\ k + sh \in 1 .. Len(positions)
  BY <1>1, <1>2
<1> DEFINE q == Pushed(left, snap)
<1>4. /\ Len(q) = n /\ q[n] = snap
      /\ \A k \in 1 .. (n - 1) :
            /\ q[k].structure = positions[k + cursor + 1 - n].structure
            /\ q[k].generation = positions[k + cursor + 1 - n].generation
  BY PushedFacts
<1> HIDE DEF q
<1>5. positions' = q  BY DEF q
<1>6. \A k \in 1 .. (n - 1) : k + cursor + 1 - n = k + sh
  BY <1>1, <1>2
<1>7. ASSUME NEW k \in 1 .. (n - 1)
      PROVE  /\ positions'[k].structure = positions[k + sh].structure
             /\ positions'[k].generation = positions[k + sh].generation
  <2> DEFINE j == k + sh
  <2>1. k + cursor + 1 - n = j  BY <1>6
  <2>2. /\ q[k].structure = positions[k + cursor + 1 - n].structure
        /\ q[k].generation = positions[k + cursor + 1 - n].generation
    BY <1>4
  <2> HIDE DEF j
  <2>3. /\ q[k].structure = positions[j].structure
        /\ q[k].generation = positions[j].generation
    BY <2>1, <2>2
  <2> QED  BY <1>5, <2>3 DEF j
<1> QED  BY <1>1, <1>2, <1>3, <1>4, <1>5, <1>7

(* The records at the positions after a write: those of the position left   *)
(* are added to by what the write took away.                                *)
LEMMA ShiftedRecords ==
    ASSUME HistoryInv, NEW left, NEW snap, IsSnapshot(snap),
           positions' = Pushed(left, snap), cursor' = Len(positions'),
           NEW k \in 1 .. (NewCursor - 1), NEW j, j = k + (cursor + 1 - NewCursor)
    PROVE  /\ j # cursor => positions'[k].records = positions[j].records
           /\ j = cursor => positions'[k].records = positions[cursor].records \cup left
<1> DEFINE n == NewCursor
           q == Pushed(left, snap)
<1>1. /\ cursor \in 1 .. Capacity /\ Capacity \in Nat /\ cursor \in 1 .. Len(positions)
      /\ Len(positions) \in Nat
  BY RowsAssumption DEF HistoryInv
<1>2. n \in 1 .. (cursor + 1)  BY <1>1 DEF NewCursor
<1>3. k \in 1 .. (n - 1) /\ k + cursor + 1 - n = j /\ (k = n - 1 <=> j = cursor)
  BY <1>1, <1>2
<1>4. q[k].records = positions[k + cursor + 1 - n].records
                       \cup (IF k = n - 1 THEN left ELSE {})
  BY <1>3, PushedFacts
<1> HIDE DEF q
<1>5. q[k].records = positions[j].records \cup (IF j = cursor THEN left ELSE {})
  BY <1>3, <1>4
<1>6. j # cursor => q[k].records = positions[j].records  BY <1>5
<1>7. j = cursor => q[k].records = positions[cursor].records \cup left  BY <1>5
<1> QED  BY <1>6, <1>7 DEF q

(* A write keeps the generations in order.                                  *)
LEMMA PushGenerations ==
    ASSUME HistoryInv, GenerationsInv, NEW left, NEW snap, IsSnapshot(snap),
           positions' = Pushed(left, snap), cursor' = Len(positions'),
           generation' \in Nat, generation <= generation', snap.generation = generation'
    PROVE  GenerationsInv'
<1> DEFINE n == NewCursor
           sh == cursor + 1 - n
           gen(k) == positions'[k].generation
<1>1. /\ n \in Int /\ n >= 1 /\ sh \in Int
      /\ cursor' = n /\ Len(positions') = n /\ positions'[n] = snap
      /\ \A k \in 1 .. (n - 1) : k + sh \in 1 .. Len(positions)
                                 /\ gen(k) = positions[k + sh].generation
  <2>1. n = NewCursor /\ sh = cursor + 1 - n  OBVIOUS
  <2> HIDE DEF n, sh
  <2>2. /\ n \in Int /\ n >= 1 /\ sh \in Int
        /\ cursor' = n /\ Len(positions') = n /\ positions'[n] = snap
    BY <2>1, Shifted
  <2>3. ASSUME NEW k \in 1 .. (n - 1)
        PROVE  k + sh \in 1 .. Len(positions)
    BY <2>1, Shifted
  <2>4. ASSUME NEW k \in 1 .. (n - 1)
        PROVE  positions'[k].generation = positions[k + sh].generation
    BY <2>1, Shifted
  <2> QED  BY <2>2, <2>3, <2>4
<1> HIDE DEF n, sh, gen
<1>2. gen(n) = generation'  BY <1>1 DEF gen
<1>3. \A k \in 1 .. n : k = n \/ k \in 1 .. (n - 1)  BY <1>1
<1>4. \A k \in 1 .. (n - 1) : gen(k) \in Nat /\ gen(k) <= generation
  BY <1>1 DEF GenerationsInv
<1>5. generation \in Nat  BY DEF GenerationsInv
<1>6. ASSUME NEW k \in 1 .. n
      PROVE  gen(k) \in Nat /\ gen(k) <= generation' /\ (k > n => gen(k) = generation')
  BY <1>1, <1>2, <1>3, <1>4, <1>5
<1>7. ASSUME NEW k \in 1 .. n, NEW l \in 1 .. n, k < l PROVE gen(k) <= gen(l)
  <2>1. k \in 1 .. (n - 1)  BY <1>1, <1>7
  <2>2. CASE l = n  BY <1>2, <1>6, <2>2
  <2>3. CASE l \in 1 .. (n - 1)
    <3>1. /\ k + sh \in 1 .. Len(positions) /\ l + sh \in 1 .. Len(positions) /\ k + sh < l + sh
      BY <1>1, <1>7, <2>1, <2>3
    <3>2. gen(k) = positions[k + sh].generation /\ gen(l) = positions[l + sh].generation
      BY <1>1, <2>1, <2>3
    <3> QED  BY <3>1, <3>2 DEF GenerationsInv
  <2> QED  BY <1>3, <2>2, <2>3
<1> QED  BY <1>1, <1>6, <1>7 DEF GenerationsInv, gen

(* Undo and redo: the position left goes on being of the live generation.   *)
LEMMA SteppedGenerations ==
    ASSUME HistoryInv, GenerationsInv, NEW c \in 1 .. Len(positions), StepTo(c),
           c = cursor - 1 \/ c = cursor + 1
    PROVE  GenerationsInv'
<1>1. /\ cursor' = c /\ Len(positions') = Len(positions)
      /\ \A k \in 1 .. Len(positions) :
            positions'[k].generation = IF k = cursor THEN generation ELSE positions[k].generation
  BY StepToFacts
<1>2. generation' = generation  BY DEF StepTo
<1>3. cursor \in 1 .. Len(positions) /\ Len(positions) \in Nat  BY RowsAssumption DEF HistoryInv
<1>4. /\ generation \in Nat
      /\ \A k \in 1 .. Len(positions) :
            /\ positions[k].generation \in Nat /\ positions[k].generation <= generation
            /\ k > cursor => positions[k].generation = generation
      /\ \A k, l \in 1 .. Len(positions) :
            k < l => positions[k].generation <= positions[l].generation
  BY DEF GenerationsInv
<1>5. ASSUME NEW k \in 1 .. Len(positions)
      PROVE  /\ positions'[k].generation \in Nat /\ positions'[k].generation <= generation
             /\ k > c => positions'[k].generation = generation
  <2>1. k > c => k = cursor \/ k > cursor  BY <1>3
  <2> QED  BY <1>1, <1>4, <2>1
<1>6. ASSUME NEW k \in 1 .. Len(positions), NEW l \in 1 .. Len(positions), k < l
      PROVE  positions'[k].generation <= positions'[l].generation
  <2>1. CASE l = cursor  BY <1>1, <1>5, <2>1
  <2>2. CASE k = cursor
    <3>1. l > cursor  BY <1>3, <1>6, <2>2
    <3> QED  BY <1>1, <1>4, <2>2, <3>1
  <2>3. CASE k # cursor /\ l # cursor  BY <1>1, <1>4, <1>6, <2>3
  <2> QED  BY <2>1, <2>2, <2>3
<1> QED  BY <1>1, <1>2, <1>4, <1>5, <1>6 DEF GenerationsInv

LEMMA StepKeepsGenerations ==
    ASSUME HistoryInv, RowsInv, GenerationsInv, [Next]_vars
    PROVE  GenerationsInv'
<1>1. ASSUME NEW left, Record(left), UNCHANGED <<>>
      PROVE  GenerationsInv'
  <2> DEFINE snap == CaptureNext
  <2>1. IsSnapshot(snap) /\ snap.generation = generation
    BY DEF IsSnapshot, CaptureNext, Snapshot
  <2>2. positions' = Pushed(left, snap) /\ cursor' = Len(positions') /\ generation' = generation
    BY <1>1 DEF Record
  <2>3. generation \in Nat  BY DEF GenerationsInv
  <2> HIDE DEF snap
  <2> QED  BY <2>1, <2>2, <2>3, PushGenerations
<1>2. CASE TypedOp
  <2>1. PICK m, s : Typed(m, s)  BY <1>2, TypedOpIsTyped
  <2> QED  BY <1>1, <2>1 DEF Typed
<1>3. CASE \E i \in Slots, v \in Values : EditLeaf(i, v)  BY <1>1, <1>3 DEF EditLeaf
<1>4. CASE \E s \in Lists, anchors \in BOOLEAN : Overwrite(s, anchors)
  BY <1>1, <1>4 DEF Overwrite
<1>5. CASE Reset
  <2> DEFINE snap == Snapshot(defaults, structure', cells, {}, generation')
             left == touched \cap Gone(defaults)
  <2>1. IsSnapshot(snap) /\ snap.generation = generation'
    BY DEF IsSnapshot, Snapshot
  <2>2. positions' = Pushed(left, snap) /\ cursor' = Len(positions')
        /\ generation' = generation + 1
    BY <1>5 DEF Reset
  <2>3. generation' \in Nat /\ generation <= generation'  BY <2>2 DEF GenerationsInv
  <2> HIDE DEF snap, left
  <2> QED  BY <2>1, <2>2, <2>3, PushGenerations
<1>6. CASE \E v \in Fetched : Hydrate(v)
  BY <1>6 DEF Hydrate, GenerationsInv
<1>7. CASE Undo \/ Redo
  <2>1. cursor \in 1 .. Len(positions) /\ Len(positions) \in Nat
    BY RowsAssumption DEF HistoryInv
  <2>2. CASE Undo  BY <2>1, <2>2, SteppedGenerations DEF Undo
  <2>3. CASE Redo  BY <2>1, <2>3, SteppedGenerations DEF Redo
  <2> QED  BY <1>7, <2>2, <2>3
<1>8. CASE FloorClears \/ Clear
  <2>1. positions' = <<CaptureNext>> /\ cursor' = 1 /\ generation' = generation
    BY <1>8 DEF FloorClears, Clear, Reseed
  <2>2. CaptureNext.generation = generation  BY DEF CaptureNext, Snapshot
  <2>3. generation \in Nat  BY DEF GenerationsInv
  <2> DEFINE p == CaptureNext
  <2> HIDE DEF p
  <2>4. Len(<<p>>) = 1 /\ <<p>>[1] = p  OBVIOUS
  <2>5. Len(positions') = 1 /\ positions'[1].generation = generation
    BY <2>1, <2>2, <2>4 DEF p
  <2>6. \A k \in 1 .. Len(positions') : k = 1  BY <2>5
  <2> QED  BY <2>1, <2>3, <2>5, <2>6 DEF GenerationsInv
<1>9. CASE \/ TokenAt
           \/ \E i \in Slots : Touch(i) \/ SetErrors(i)
           \/ \E i \in Slots, judged \in BOOLEAN : Answer(i, judged)
           \/ UNCHANGED vars
  BY <1>9 DEF TokenAt, Touch, SetErrors, Answer, Quiet, history, vars, GenerationsInv
<1> QED  BY <1>2, <1>3, <1>4, <1>5, <1>6, <1>7, <1>8, <1>9 DEF Next

LEMMA InitGenerations == Init => GenerationsInv
<1> SUFFICES ASSUME Init PROVE GenerationsInv  OBVIOUS
<1>1. Len(positions) = 1 /\ positions[1].generation = 0 /\ generation = 0
  BY DEF Init, Snapshot
<1> QED  BY <1>1 DEF GenerationsInv

-----------------------------------------------------------------------------
(* The line of positions undo and redo can restore rows from, the live list *)
(* among them.                                                              *)

(* The positions undo and redo restore bookkeeping from, and the list at    *)
(* each: the live one at the cursor.                                        *)
Current == {k \in 1 .. Len(positions) : positions[k].generation = generation}
OnLine == Current \cup {cursor}
RowsAt == [k \in 1 .. Len(positions) |->
              IF k = cursor THEN structure.rows ELSE positions[k].structure.rows]
TokensAt(id) == [k \in 1 .. Len(positions) |->
              IF k = cursor THEN id.tokens
              ELSE Plan(positions[k].structure.identity, id).tokens]
RecordsAt == [k \in 1 .. Len(positions) |->
              IF k = cursor THEN touched ELSE positions[k].records]

(* A position that may be restored.                                         *)
Placed(k) ==
    LET p == positions[k].structure IN
        /\ SoundPosition(p, structure.identity, baseRows, defaults, strayBaseline)
        /\ Recorded(p.rows, positions[k].records, touchedRows)
        /\ k = cursor =>
              /\ p.rows = structure.rows
              /\ Plan(p.identity, structure.identity).tokens = structure.identity.tokens

LineInv ==
    /\ LineOK(OnLine, cursor, RowsAt, TokensAt(structure.identity), RecordsAt, touchedRows)
    /\ \A k \in Current : Placed(k)
LiveInv ==
    /\ Sound(structure, structure.identity, baseRows, defaults, strayBaseline)
    /\ touched = {i \in DOMAIN structure.rows : structure.rows[i] \in touchedRows}
    /\ touchedRows \subseteq Held(structure.rows) \/ listTouched

BookInv ==
    ~lateAnchor => LiveInv /\ (floorPending => KeysAgree) /\ (~floorPending => LineInv)

(* The identity of a list once its tokens are there: tokenAt, and what      *)
(* writes begin with.                                                       *)
Anchoring(id, e, b) ==
    \/ e = id
    \/ ~id.tracked /\ e.tracked /\ DOMAIN e.tokens = DOMAIN b /\ e.baseline = e.tokens

Names == 0 .. (nextRow - 1)

(* The live list and the position k, spelled out.                           *)
LEMMA WellLive ==
    ASSUME RowsInv, TypeInv
    PROVE  /\ Distinct(baseRows) /\ DOMAIN baseRows = DOMAIN defaults
           /\ DOMAIN baseRows = 1 .. Len(defaults) /\ defaults \in Seq(Values)
           /\ Held(baseRows) \subseteq Names
           /\ Distinct(structure.rows) /\ DOMAIN structure.rows = 1 .. Len(items)
           /\ Held(structure.rows) \subseteq Names
           /\ WellIdentity(structure.identity, nextToken) /\ nextToken \in Nat
           /\ Len(items) \in 0 .. MaxLen /\ Len(items) \in Nat /\ nextRow \in Nat
<1>1. /\ WellNamed(structure.rows, Len(items), nextRow) /\ nextRow \in Nat
      /\ Len(items) \in 0 .. MaxLen /\ Len(items) \in Nat
      /\ defaults \in Seq(Values) /\ Len(defaults) \in Nat /\ DOMAIN defaults = 1 .. Len(defaults)
  BY RowsAssumption DEF RowsInv, WellFormed, WellList
<1>2. WellNamed(baseRows, Len(defaults), nextRow)  BY DEF TypeInv
<1>3. /\ Distinct(baseRows) /\ DOMAIN baseRows = 1 .. Len(defaults)
      /\ Held(baseRows) \subseteq Names
  BY <1>2 DEF WellNamed, Distinct, Held, Names
<1>4. /\ Distinct(structure.rows) /\ DOMAIN structure.rows = 1 .. Len(items)
      /\ Held(structure.rows) \subseteq Names
  BY <1>1 DEF WellNamed, Distinct, Held, Names
<1>5. WellIdentity(structure.identity, nextToken) /\ nextToken \in Nat
  BY DEF TypeInv, WellKept
<1> QED  BY <1>1, <1>3, <1>4, <1>5

LEMMA WellPlaced ==
    ASSUME RowsInv, TypeInv, NEW k \in 1 .. Len(positions)
    PROVE  /\ Distinct(positions[k].structure.rows)
           /\ Held(positions[k].structure.rows) \subseteq Names
           /\ WellIdentity(positions[k].structure.identity, nextToken)
<1>1. WellNamed(positions[k].structure.rows, Len(positions[k].form), nextRow)
  BY DEF RowsInv, WellPosition, WellFormed
<1>2. WellIdentity(positions[k].structure.identity, nextToken)
  BY DEF TypeInv, WellRecorded, WellKept
<1> QED  BY <1>1, <1>2 DEF WellNamed, Distinct, Held, Names

(* The lists along the line are well-formed.                                *)
LEMMA WellLine ==
    ASSUME HistoryInv, RowsInv, TypeInv, LiveInv, LineInv, NEW k \in OnLine
    PROVE  Listed(RowsAt[k], TokensAt(structure.identity)[k], Names)
<1> DEFINE id == structure.identity
           p == positions[k].structure
           q == Plan(p.identity, id)
<1>1. k \in 1 .. Len(positions)  BY DEF OnLine, Current, HistoryInv
<1>2. CASE k = cursor
  <2>1. RowsAt[k] = structure.rows /\ TokensAt(id)[k] = id.tokens
    BY <1>1, <1>2 DEF RowsAt, TokensAt
  <2>2. Distinct(id.tokens) /\ DOMAIN id.tokens \subseteq DOMAIN structure.rows
    <3>1. ~id.tracked => DOMAIN id.tokens = {}  BY WellLive, WellLists
    <3> QED  BY <3>1, WellLive DEF WellIdentity, WellTokens, LiveInv, Sound
  <2> QED  BY <2>1, <2>2, WellLive DEF Listed
<1>3. CASE k # cursor
  <2>1. RowsAt[k] = p.rows /\ TokensAt(id)[k] = q.tokens
    BY <1>1, <1>3 DEF RowsAt, TokensAt
  <2>2. k \in Current  BY <1>3 DEF OnLine
  <2>3. Sound(p, q, baseRows, defaults, strayBaseline)
    BY <2>2 DEF LineInv, Placed, SoundPosition
  <2>4. WellIdentity(q, nextToken) /\ nextToken \in Nat
    BY <1>1, WellLive, WellPlaced, PlanFacts
  <2> HIDE DEF q
  <2>5. Distinct(q.tokens) /\ DOMAIN q.tokens \subseteq DOMAIN p.rows
    <3>1. ~q.tracked => DOMAIN q.tokens = {}  BY <2>4, WellLists
    <3> QED  BY <2>3, <2>4, <3>1 DEF WellIdentity, WellTokens, Sound
  <2> QED  BY <1>1, <2>1, <2>5, WellPlaced DEF Listed
<1> QED  BY <1>2, <1>3

(* The line once the list is tracked.                                       *)
LEMMA AnchoredLine ==
    ASSUME HistoryInv, RowsInv, TypeInv, LiveInv, LineInv,
           NEW u \in Nat, NEW e, WellIdentity(e, u), Anchoring(structure.identity, e, baseRows)
    PROVE  /\ LineOK(OnLine, cursor, RowsAt, TokensAt(e), RecordsAt, touchedRows)
           /\ \A k \in OnLine : Listed(RowsAt[k], TokensAt(e)[k], Names)
           /\ \A k \in Current :
                 k = cursor => Plan(positions[k].structure.identity, e).tokens = e.tokens
<1> DEFINE id == structure.identity
<1>1. CASE e = id  BY <1>1, WellLine DEF LineInv, Placed
<1>2. CASE ~id.tracked /\ e.tracked /\ DOMAIN e.tokens = DOMAIN baseRows /\ e.baseline = e.tokens
  <2>1. structure.rows = baseRows  BY <1>2 DEF LiveInv, Sound
  <2>2. ASSUME NEW k \in Current
        PROVE  LET p == positions[k].structure IN
               p.rows = baseRows /\ Plan(p.identity, e).tokens = e.tokens
    <3> DEFINE p == positions[k].structure
               q == Plan(p.identity, id)
    <3>1. (q.tracked <=> id.tracked) /\ Sound(p, q, baseRows, defaults, strayBaseline)
      BY DEF LineInv, Placed, SoundPosition
    <3>2. k \in 1 .. Len(positions)  BY DEF Current
    <3>3. WellIdentity(p.identity, nextToken) /\ WellIdentity(id, nextToken) /\ nextToken \in Nat
      BY <3>2, WellLive, WellPlaced
    <3>4. q.tracked <=> p.identity.tracked \/ id.tracked  BY <3>3, PlanFacts
    <3> HIDE DEF q
    <3>5. ~p.identity.tracked /\ p.rows = baseRows  BY <1>2, <3>1, <3>4 DEF Sound
    <3>6. Plan(p.identity, e) = [e EXCEPT !.tokens = e.baseline]
      BY <1>2, <3>5 DEF Plan
    <3>7. e = [tracked |-> e.tracked, tokens |-> e.tokens, baseline |-> e.baseline]
      BY DEF WellIdentity
    <3>8. [e EXCEPT !.tokens = e.baseline].tokens = e.baseline  BY <3>7
    <3> QED  BY <1>2, <3>5, <3>6, <3>8
  <2>3. \A k \in OnLine : RowsAt[k] = baseRows /\ TokensAt(e)[k] = e.tokens
    BY <2>1, <2>2 DEF OnLine, Current, HistoryInv, RowsAt, TokensAt
  <2>4. Distinct(baseRows) /\ Distinct(e.tokens) /\ Held(baseRows) \subseteq Names
    BY WellLive DEF WellIdentity, WellTokens
  <2>5. LineOK(OnLine, cursor, RowsAt, TokensAt(id), RecordsAt, touchedRows)
    BY DEF LineInv
  <2>6. LineOK(OnLine, cursor, RowsAt, TokensAt(e), RecordsAt, touchedRows)
    BY <1>2, <2>3, <2>4, <2>5, LineTracked
  <2>7. \A k \in OnLine : Listed(RowsAt[k], TokensAt(e)[k], Names)
    BY <1>2, <2>3, <2>4 DEF Listed
  <2> QED  BY <2>2, <2>6, <2>7
<1> QED  BY <1>1, <1>2 DEF Anchoring

(* What a write that history records has to show of the list it makes, for  *)
(* the line to grow by it.                                                  *)
LEMMA PushedLine ==
    ASSUME HistoryInv, RowsInv, TypeInv, LiveInv, LineInv, RowsInv', TypeInv',
           NEW left, Record(left), left \subseteq touched,
           UNCHANGED <<defaults, baseRows, touchedRows>>, ~strayBaseline' => ~strayBaseline,
           nextToken <= nextToken',
           NEW e, WellIdentity(e, nextToken'), Anchoring(structure.identity, e, baseRows),
           structure'.identity.tracked <=> e.tracked, structure'.identity.baseline = e.baseline,
           Follows(structure.rows, e.tokens, structure'.rows, structure'.identity.tokens, Names),
           Sound(structure', structure'.identity, baseRows, defaults, strayBaseline'),
           Recorded(structure'.rows, touched', touchedRows),
           Kept(structure.rows, left, structure'.rows, touchedRows)
    PROVE  LineInv'
<1> DEFINE id == structure.identity
           id2 == structure'.identity
           snap == CaptureNext
           n == NewCursor
           sh == cursor + 1 - n
           js == OnLine
           r == RowsAt
           t == TokensAt(e)
           d == RecordsAt
           ks == OnLine'
           r2 == RowsAt'
           t2 == (TokensAt(id))'
           d2 == RecordsAt'
<1>1. /\ IsSnapshot(snap) /\ snap.structure = structure' /\ snap.records = touched'
      /\ snap.generation = generation
      /\ positions' = Pushed(left, snap) /\ cursor' = Len(positions') /\ generation' = generation
  BY DEF IsSnapshot, CaptureNext, Snapshot, Record
<1> HIDE DEF snap
<1>2. /\ n \in Int /\ n >= 1 /\ sh \in Int /\ n - 1 + sh = cursor
      /\ cursor \in 1 .. Len(positions) /\ cursor \in Int /\ Len(positions) \in Nat
      /\ cursor' = n /\ Len(positions') = n /\ positions'[n] = snap
  <2>1. n = NewCursor /\ sh = cursor + 1 - n  OBVIOUS
  <2> HIDE DEF n, sh
  <2> QED  BY <1>1, <2>1, Shifted
<1>3. ASSUME NEW k \in 1 .. (n - 1)
      PROVE  /\ k + sh \in 1 .. cursor /\ k + sh \in 1 .. Len(positions)
             /\ positions'[k].structure = positions[k + sh].structure
             /\ positions'[k].generation = positions[k + sh].generation
             /\ k + sh # cursor => positions'[k].records = positions[k + sh].records
             /\ k + sh = cursor => positions'[k].records = positions[cursor].records \cup left
  <2>1. n = NewCursor /\ sh = cursor + 1 - n  OBVIOUS
  <2> HIDE DEF n, sh
  <2>2. k + sh \in 1 .. cursor /\ k + sh \in 1 .. Len(positions)
    BY <1>1, <2>1, Shifted
  <2>3. positions'[k].structure = positions[k + sh].structure
    BY <1>1, <2>1, Shifted
  <2>4. positions'[k].generation = positions[k + sh].generation
    BY <1>1, <2>1, Shifted
  <2>5. k + sh # cursor => positions'[k].records = positions[k + sh].records
    BY <1>1, <2>1, ShiftedRecords
  <2>6. k + sh = cursor => positions'[k].records = positions[cursor].records \cup left
    BY <1>1, <2>1, ShiftedRecords
  <2> QED  BY <2>2, <2>3, <2>4, <2>5, <2>6
<1> HIDE DEF n, sh
<1>4. /\ LineOK(js, cursor, r, t, d, touchedRows)
      /\ \A k \in js : Listed(r[k], t[k], Names)
      /\ \A k \in Current :
            k = cursor => Plan(positions[k].structure.identity, e).tokens = e.tokens
  <2>1. nextToken' \in Nat  BY DEF TypeInv
  <2> QED  BY <2>1, AnchoredLine
<1>5. /\ WellIdentity(id, nextToken') /\ WellIdentity(id2, nextToken') /\ nextToken' \in Nat
      /\ nextToken \in Nat
  <2>1. nextToken \in Nat /\ nextToken' \in Nat /\ WellIdentity(id, nextToken)
    BY DEF TypeInv, WellKept
  <2>2. WellIdentity(id2, nextToken')  BY DEF TypeInv, WellKept, WellIdentity, WellTokens
  <2> QED  BY <2>1, <2>2, IdentityLater
<1>6. Continues(id, id2, baseRows)
  <2>1. CASE e = id  BY <2>1 DEF Continues
  <2>2. CASE ~id.tracked /\ e.tracked /\ DOMAIN e.tokens = DOMAIN baseRows /\ e.baseline = e.tokens
    BY <2>2 DEF Continues
  <2> QED  BY <2>1, <2>2 DEF Anchoring
<1>7. /\ ks = {k \in 1 .. n : positions'[k].generation = generation} \cup {n}
      /\ Current' = {k \in 1 .. n : positions'[k].generation = generation}
      /\ n \in ks
  BY <1>1, <1>2 DEF OnLine, Current
<1>8. ASSUME NEW k \in ks, k # n
      PROVE  /\ k \in 1 .. (n - 1) /\ k \in Int /\ k < n /\ k + sh \in Current /\ k + sh \in js
             /\ k + sh \in 1 .. cursor
  <2>1. k \in 1 .. (n - 1) /\ positions'[k].generation = generation  BY <1>2, <1>7, <1>8
  <2>2. k + sh \in Current  BY <1>3, <2>1 DEF Current
  <2> QED  BY <1>2, <1>3, <2>1, <2>2 DEF OnLine
<1>9. ASSUME NEW k \in Current
      PROVE  /\ k \in 1 .. Len(positions)
             /\ SoundPosition(positions[k].structure, id, baseRows, defaults, strayBaseline)
             /\ Recorded(positions[k].structure.rows, positions[k].records, touchedRows)
             /\ k = cursor => positions[k].structure.rows = structure.rows
             /\ WellIdentity(positions[k].structure.identity, nextToken')
  <2>1. k \in 1 .. Len(positions)  BY DEF Current
  <2>2. WellIdentity(positions[k].structure.identity, nextToken')
    BY <1>5, <2>1, WellPlaced, IdentityLater
  <2> QED  BY <2>1, <2>2 DEF LineInv, Placed
<1>10. /\ r2[n] = structure'.rows /\ t2[n] = id2.tokens /\ d2[n] = touched'
       /\ \A k \in 1 .. (n - 1) :
             /\ r2[k] = positions'[k].structure.rows
             /\ t2[k] = Plan(positions'[k].structure.identity, id2).tokens
             /\ d2[k] = positions'[k].records
  BY <1>2 DEF RowsAt, TokensAt, RecordsAt
<1>11. \A k \in 1 .. Len(positions) :
          /\ r[k] = IF k = cursor THEN structure.rows ELSE positions[k].structure.rows
          /\ t[k] = IF k = cursor THEN e.tokens
                    ELSE Plan(positions[k].structure.identity, e).tokens
          /\ d[k] = IF k = cursor THEN touched ELSE positions[k].records
  BY DEF RowsAt, TokensAt, RecordsAt
<1> HIDE DEF js, r, t, d, ks, r2, t2, d2, id, id2
<1>12. ASSUME NEW k \in ks, k < n
       PROVE  r2[k] = r[k + sh] /\ t2[k] = t[k + sh]
  <2> DEFINE j == k + sh
             p == positions[j].structure
  <2>1. k # n  BY <1>2, <1>12
  <2>2. k \in 1 .. (n - 1) /\ j \in Current /\ j \in 1 .. Len(positions)
        /\ positions'[k].structure = p
    BY <1>3, <1>8, <2>1
  <2>3. WellIdentity(p.identity, nextToken')  BY <1>9, <2>2
  <2>4. Plan(p.identity, id2) = Plan(p.identity, e)
    BY <1>5, <2>3, PlanStays DEF id2
  <2>5. r2[k] = p.rows /\ t2[k] = Plan(p.identity, e).tokens  BY <1>10, <2>2, <2>4
  <2>6. j = cursor => p.rows = structure.rows /\ Plan(p.identity, e).tokens = e.tokens
    BY <1>4, <1>9, <2>2
  <2> HIDE DEF j, p
  <2>7. r2[k] = r[j] /\ t2[k] = t[j]  BY <1>11, <2>2, <2>5, <2>6 DEF p
  <2> QED  BY <2>7 DEF j
<1>13. ASSUME NEW k \in ks, k # n, k + sh # cursor PROVE d2[k] = d[k + sh]
  <2>1. k \in 1 .. (n - 1) /\ k + sh \in 1 .. Len(positions)
    BY <1>3, <1>8, <1>13
  <2>2. d2[k] = positions'[k].records /\ positions'[k].records = positions[k + sh].records
    BY <1>3, <1>10, <1>13, <2>1
  <2> DEFINE j == k + sh
  <2>3. j \in 1 .. Len(positions) /\ j # cursor  BY <1>13, <2>1
  <2> HIDE DEF j
  <2>4. d[j] = positions[j].records  BY <1>11, <2>3
  <2> QED  BY <2>2, <2>4 DEF j
<1>14. ASSUME NEW a \in ks, a # n, a + sh = cursor
       PROVE  /\ Recorded(r[cursor], d2[a], touchedRows)
              /\ Kept(r[cursor], d2[a], r2[n], touchedRows)
  <2>1. a # n /\ a \in ks /\ a + sh = cursor  BY <1>14
  <2>2. a \in 1 .. (n - 1) /\ cursor \in Current  BY <1>8, <2>1
  <2>3. d2[a] = positions[cursor].records \cup left  BY <1>3, <1>10, <2>1, <2>2
  <2>4. Recorded(structure.rows, positions[cursor].records, touchedRows)
    BY <1>9, <2>2
  <2>5. Recorded(structure.rows, left, touchedRows)  BY DEF LiveInv, Recorded
  <2>6. r[cursor] = structure.rows /\ r2[n] = structure'.rows  BY <1>2, <1>10, <1>11
  <2> QED  BY <2>1, <2>3, <2>4, <2>5, <2>6 DEF Recorded, Kept
<1>15. Distinct(structure'.rows)
  BY DEF RowsInv, WellFormed, WellNamed, Distinct
<1>16. js \subseteq Int
  BY <1>2 DEF js, OnLine, Current
<1>17. LineOK(ks, n, r2, t2, d2, touchedRows)
  <2>1. \A k \in ks : k = n \/ (k \in Int /\ k < n /\ k + sh \in js)  BY <1>8
  <2>2. /\ r[cursor] = structure.rows /\ t[cursor] = e.tokens
        /\ r2[n] = structure'.rows /\ t2[n] = id2.tokens /\ d2[n] = touched'
    BY <1>2, <1>10, <1>11
  <2>3. /\ Follows(r[cursor], t[cursor], r2[n], t2[n], Names) /\ Distinct(r2[n])
        /\ Recorded(r2[n], d2[n], touchedRows)
    BY <1>15, <2>2 DEF id2
  <2> DEFINE c == cursor
             w == touchedRows
             old == Names
             at == [k \in ks |-> k + sh]
  <2>4. /\ LineOK(js, c, r, t, d, w) /\ n \in ks
        /\ \A k \in js : Listed(r[k], t[k], old)
    BY <1>4, <1>7
  <2>5. \A k \in ks : at[k] = k + sh /\ (k = n \/ (k \in Int /\ k < n /\ k + sh \in js /\ k + sh \in 1 .. c))
    BY <1>8
  <2>6. \A k \in ks : k \in Int  BY <1>2, <2>5
  <2>7. /\ \A k \in ks : k = n \/ (at[k] \in js /\ (at[k] = c \/ at[k] < c))
        /\ \A k \in ks : ~(n + 1 = k) /\ ~(n < k) /\ (at[k] < c => at[k] # c)
    BY <1>2, <2>5, <2>6
  <2>8. \A k, l \in ks : k < l => k # n /\ (l # n => at[k] < at[l])
    BY <1>2, <2>5, <2>6
  <2>9. \A k, l \in ks : l = k + 1 =>
           k # n /\ IF l = n THEN at[k] = c ELSE at[l] = at[k] + 1 /\ at[k] < c
    BY <1>2, <2>5, <2>6
  <2>10. \A k \in ks : k # n => r2[k] = r[at[k]] /\ t2[k] = t[at[k]]
    BY <1>12, <2>5
  <2>11. \A k \in ks : k # n /\ at[k] # c => d2[k] = d[at[k]]
    BY <1>13, <2>5
  <2>12. \A k \in ks : k # n /\ at[k] = c => /\ Recorded(r[c], d2[k], w)
                                              /\ Kept(r[c], d2[k], r2[n], w)
    BY <1>14, <2>5
  <2>13. Follows(r[c], t[c], r2[n], t2[n], old) /\ Distinct(r2[n])
         /\ Recorded(r2[n], d2[n], w)
    BY <2>3
  <2> HIDE DEF c, w, old, at
  <2>14. Moved(js, c, ks, n, at)  BY <1>7, <2>7, <2>8, <2>9 DEF Moved
  <2>15. LineOK(ks, n, r2, t2, d2, w)
    BY ONLY <2>4, <2>14, <2>10, <2>11, <2>12, <2>13, LinePushed
  <2> QED  BY <2>15 DEF w
<1>18. ASSUME NEW k \in Current' PROVE Placed(k)'
  <2> DEFINE p == positions'[k].structure
  <2>1. k \in ks  BY <1>7
  <2>2. CASE k = n
    <3>1. p = structure' /\ positions'[k].records = touched'  BY <1>1, <1>2, <2>2
    <3>2. Plan(id2, id2) = id2  BY DEF Plan
    <3>3. SoundPosition(p, id2, baseRows, defaults, strayBaseline')
      BY <3>1, <3>2 DEF SoundPosition, id2
    <3> QED  BY <3>1, <3>2, <3>3 DEF Placed, id2
  <2>3. CASE k # n
    <3> DEFINE j == k + sh
    <3>1. k \in 1 .. (n - 1) /\ j \in Current  BY <1>8, <2>1, <2>3
    <3>2. p = positions[j].structure
          /\ (j # cursor => positions'[k].records = positions[j].records)
          /\ (j = cursor => positions'[k].records = positions[cursor].records \cup left)
      BY <1>3, <3>1
    <3> HIDE DEF j
    <3>3. /\ SoundPosition(p, id, baseRows, defaults, strayBaseline)
          /\ Recorded(p.rows, positions[j].records, touchedRows)
          /\ j = cursor => p.rows = structure.rows
          /\ WellIdentity(p.identity, nextToken')
      BY <1>9, <3>1, <3>2
    <3> HIDE DEF p
    <3>4. SoundPosition(p, id2, baseRows, defaults, strayBaseline')
      BY <1>5, <1>6, <3>3, WellLive, PositionContinues
    <3>5. Recorded(structure.rows, left, touchedRows)  BY DEF LiveInv, Recorded
    <3>6. Recorded(p.rows, positions'[k].records, touchedRows)
      BY <3>2, <3>3, <3>5 DEF Recorded
    <3>7. k # cursor'  BY <1>2, <2>3
    <3> QED  BY <3>4, <3>6, <3>7 DEF Placed, p, id2
  <2> QED  BY <2>2, <2>3
<1> QED  BY <1>2, <1>17, <1>18 DEF LineInv, ks, r2, t2, d2, id

(* A list follows itself.                                                   *)
LEMMA FollowsSame ==
    ASSUME NEW r, NEW t, DOMAIN t \subseteq DOMAIN r, NEW old
    PROVE  Follows(r, t, r, t, old)
BY DEF Follows, Held

(* The live list, once its tokens are there.                                *)
LEMMA EnsureAnchors ==
    ASSUME RowsInv, TypeInv, LiveInv,
           NEW e, e = Ensure(structure.identity, Len(items), nextToken),
           NEW u, u = Used(structure.identity, Len(items))
    PROVE  /\ Anchoring(structure.identity, e, baseRows) /\ e.tracked
           /\ u \in Nat /\ WellIdentity(e, nextToken + u)
<1> DEFINE id == structure.identity
           n == Len(items)
<1>1. /\ n \in 0 .. MaxLen /\ n \in Nat /\ nextToken \in Nat /\ WellIdentity(id, nextToken)
      /\ DOMAIN structure.rows = 1 .. n
  BY WellLive
<1>2. e = Ensure(id, n, nextToken) /\ u = Used(id, n)  OBVIOUS
<1>3. CASE id.tracked
  <2>1. DOMAIN id.tokens = 1 .. n  BY <1>1, <1>3 DEF LiveInv, Sound
  <2>2. Len(id.tokens) = n
    <3>1. DOMAIN id.tokens = 1 .. Len(id.tokens) /\ Len(id.tokens) \in 0 .. MaxLen
      BY <1>1, WellLists
    <3>2. Len(id.tokens) \in Nat  BY <3>1, RowsAssumption
    <3> QED  BY <1>1, <2>1, <3>1, <3>2
  <2> HIDE DEF id, n
  <2>3. e = id /\ u = 0  BY <1>1, <1>2, <1>3, <2>2, EnsureSame
  <2> QED  BY <1>1, <1>3, <2>3 DEF Anchoring, id
<1>4. CASE ~id.tracked
  <2>1. structure.rows = baseRows  BY <1>4 DEF LiveInv, Sound
  <2> HIDE DEF id, n
  <2>2. /\ u \in Nat /\ WellIdentity(e, nextToken + u) /\ e.tracked
        /\ DOMAIN e.tokens = 1 .. n /\ e.baseline = e.tokens
    BY <1>1, <1>2, <1>4, EnsureFacts
  <2> QED  BY <1>1, <1>4, <2>1, <2>2 DEF Anchoring, id
<1> QED  BY <1>3, <1>4

(* It reads as soundly with its tokens as without.                          *)
LEMMA AnchoredSound ==
    ASSUME RowsInv, TypeInv, LiveInv,
           NEW u \in Nat, NEW e, WellIdentity(e, u), Anchoring(structure.identity, e, baseRows)
    PROVE  /\ Sound(structure, e, baseRows, defaults, strayBaseline)
           /\ DOMAIN e.tokens \subseteq DOMAIN structure.rows
           /\ e.tracked => DOMAIN e.tokens = DOMAIN structure.rows
<1> DEFINE id == structure.identity
<1>1. Sound(structure, id, baseRows, defaults, strayBaseline)  BY DEF LiveInv
<1>2. Sound(structure, e, baseRows, defaults, strayBaseline)
  <2>1. CASE e = id  BY <1>1, <2>1
  <2>2. CASE ~id.tracked /\ e.tracked /\ DOMAIN e.tokens = DOMAIN baseRows /\ e.baseline = e.tokens
    <3>1. structure.rows = baseRows  BY <1>1, <2>2 DEF Sound
    <3>2. Distinct(e.tokens)  BY DEF WellIdentity, WellTokens
    <3>3. Distinct(baseRows) /\ DOMAIN baseRows = DOMAIN defaults  BY WellLive
    <3> HIDE DEF id
    <3> QED  BY <1>1, <2>2, <3>1, <3>2, <3>3, SoundTracked
  <2> QED  BY <2>1, <2>2 DEF Anchoring
<1>3. ~e.tracked => DOMAIN e.tokens = {}  BY WellLists
<1> QED  BY <1>2, <1>3 DEF Sound

(* The rows after a write that can only be followed by position.            *)
LEMMA ByPositionFacts ==
    ASSUME RowsInv, NEW n \in Nat
    PROVE  /\ DOMAIN ByPosition(n) = 1 .. n
           /\ \A i \in 1 .. n : IF i \in DOMAIN structure.rows
                                THEN ByPosition(n)[i] = structure.rows[i]
                                ELSE ByPosition(n)[i] \notin Names
           /\ n = Len(items) => ByPosition(n) = structure.rows
<1>1. /\ Len(items) \in Nat /\ nextRow \in Nat
      /\ structure.rows \in [1 .. Len(items) -> 0 .. (nextRow - 1)]
  BY RowsAssumption DEF RowsInv, WellFormed, WellNamed, WellList
<1>2. DOMAIN structure.rows = 1 .. Len(items)  BY <1>1
<1>3. ASSUME NEW i \in 1 .. n
      PROVE  IF i \in DOMAIN structure.rows THEN ByPosition(n)[i] = structure.rows[i]
             ELSE ByPosition(n)[i] \notin Names
  <2>1. ByPosition(n)[i] = IF i <= Len(items) THEN structure.rows[i]
                           ELSE nextRow + i - Len(items) - 1
    BY DEF ByPosition
  <2>2. CASE i <= Len(items)  BY <1>1, <1>2, <2>1, <2>2
  <2>3. CASE ~(i <= Len(items))
    <3>1. nextRow + i - Len(items) - 1 >= nextRow  BY <1>1, <2>3
    <3>2. nextRow + i - Len(items) - 1 \notin 0 .. (nextRow - 1)  BY <1>1, <3>1
    <3> QED  BY <1>1, <1>2, <2>1, <2>3, <3>2 DEF Names
  <2> QED  BY <2>2, <2>3
<1>4. n = Len(items) => ByPosition(n) = structure.rows
  BY <1>1, <1>2 DEF ByPosition
<1> QED  BY <1>3, <1>4 DEF ByPosition

(* What a write followed by position takes away, and the records.           *)
LEMMA ReleasedRecords ==
    ASSUME RowsInv, TypeInv, NEW s, WellList(s), structure'.rows = ByPosition(Len(s)),
           touched = {i \in DOMAIN structure.rows : structure.rows[i] \in touchedRows},
           touchedRows \subseteq Held(structure.rows) \/ listTouched,
           touched' = touched \ Gone(s), UNCHANGED touchedRows,
           listTouched' = Outlived(touched \cap Gone(s))
    PROVE  /\ touched' = {i \in DOMAIN structure'.rows : structure'.rows[i] \in touchedRows}
           /\ touchedRows \subseteq Held(structure'.rows) \/ listTouched'
           /\ Recorded(structure'.rows, touched', touchedRows)
           /\ Kept(structure.rows, touched \cap Gone(s), structure'.rows, touchedRows)
<1> DEFINE n == Len(s)
           l == Len(items)
           lost == touched \cap Gone(s)
<1>1. /\ n \in Nat /\ l \in Nat
      /\ DOMAIN structure.rows = 1 .. l /\ Held(structure.rows) \subseteq Names
  BY WellLive, RowsAssumption DEF WellList
<1>2. touched' = touched \ Gone(s) /\ listTouched' = Outlived(lost)  OBVIOUS
<1>3. structure'.rows = ByPosition(n)  OBVIOUS
<1>4. Gone(s) = (n + 1) .. l  BY DEF Gone
<1>5. /\ DOMAIN structure'.rows = 1 .. n
      /\ \A i \in 1 .. n : IF i \in DOMAIN structure.rows
                           THEN structure'.rows[i] = structure.rows[i]
                           ELSE structure'.rows[i] \notin Names
  BY <1>1, <1>3, ByPositionFacts
<1>6. /\ touched = {i \in 1 .. l : structure.rows[i] \in touchedRows}
      /\ touchedRows \subseteq Held(structure.rows) \/ listTouched
      /\ touchedRows \subseteq Names
  BY <1>1 DEF TypeInv, Names
<1> HIDE DEF n, l, lost
<1>7. touched' = {i \in 1 .. n : structure'.rows[i] \in touchedRows}
  <2>1. ASSUME NEW i \in touched' PROVE i \in 1 .. n /\ structure'.rows[i] \in touchedRows
    <3>1. i \in 1 .. l /\ structure.rows[i] \in touchedRows /\ i \notin (n + 1) .. l
      BY <1>2, <1>4, <1>6
    <3>2. i \in 1 .. n  BY <1>1, <3>1
    <3> QED  BY <1>1, <1>5, <3>1, <3>2
  <2>2. ASSUME NEW i \in 1 .. n, structure'.rows[i] \in touchedRows PROVE i \in touched'
    <3>1. i \in 1 .. l /\ structure.rows[i] \in touchedRows  BY <1>1, <1>5, <1>6, <2>2
    <3>2. i \notin (n + 1) .. l  BY <1>1
    <3> QED  BY <1>2, <1>4, <1>6, <3>1, <3>2
  <2> QED  BY <2>1, <2>2
<1>8. \A i \in 1 .. l : structure.rows[i] \in touchedRows => i \in lost \/ i \in 1 .. n
  <2> SUFFICES ASSUME NEW i \in 1 .. l, structure.rows[i] \in touchedRows, i \notin 1 .. n
               PROVE  i \in lost
    OBVIOUS
  <2>1. i \in (n + 1) .. l  BY <1>1
  <2> QED  BY <1>4, <1>6, <2>1 DEF lost
<1>9. \A i \in (1 .. l) \cap (1 .. n) : structure.rows[i] \in Held(structure'.rows)
  BY <1>1, <1>5 DEF Held
<1>10. touchedRows \subseteq Held(structure'.rows) \/ listTouched'
  <2>1. CASE lost # {} \/ listTouched  BY <1>2, <2>1 DEF Outlived
  <2>2. CASE lost = {} /\ ~listTouched
    <3>1. \A i \in 1 .. l : structure.rows[i] \in touchedRows => structure.rows[i] \in Held(structure'.rows)
      BY <1>8, <1>9, <2>2
    <3> QED  BY <1>1, <1>6, <2>2, <3>1 DEF Held
  <2> QED  BY <2>1, <2>2
<1>11. Kept(structure.rows, lost, structure'.rows, touchedRows)
  BY <1>1, <1>8, <1>9 DEF Kept
<1>12. Recorded(structure'.rows, touched', touchedRows)
  BY <1>5, <1>7 DEF Recorded
<1> QED  BY <1>5, <1>7, <1>10, <1>11, <1>12 DEF lost

(* A write that can only be followed by position: the list and its records. *)
LEMMA PositionalLive ==
    ASSUME RowsInv, TypeInv, LiveInv, NEW s, WellList(s),
           NEW t \in Nat, NEW e, WellIdentity(e, t), Anchoring(structure.identity, e, baseRows),
           NEW st, DOMAIN st = {"rows", "identity", "originals", "removed"},
           st.rows = ByPosition(Len(s)), st.identity = e,
           st.originals = structure.originals, st.removed = structure.removed,
           Positional(s, st, touched, t), ~lateAnchor',
           UNCHANGED <<defaults, baseRows, touchedRows>>,
           listTouched' = Outlived(touched \cap Gone(s))
    PROVE  /\ LiveInv'
           /\ structure'.identity.tracked <=> e.tracked
           /\ structure'.identity.baseline = e.baseline
           /\ Follows(structure.rows, e.tokens, structure'.rows, structure'.identity.tokens, Names)
           /\ Recorded(structure'.rows, touched', touchedRows)
           /\ Kept(structure.rows, touched \cap Gone(s), structure'.rows, touchedRows)
           /\ ~strayBaseline' => ~strayBaseline
<1> DEFINE n == Len(s)
           l == Len(items)
           lost == touched \cap Gone(s)
           e2 == structure'.identity
<1>1. /\ n \in 0 .. MaxLen /\ n \in Nat /\ l \in 0 .. MaxLen /\ l \in Nat
      /\ DOMAIN structure.rows = 1 .. l /\ defaults \in Seq(Values)
      /\ Distinct(structure.rows) /\ Distinct(baseRows) /\ DOMAIN baseRows = DOMAIN defaults
      /\ Held(structure.rows) \subseteq Names /\ Held(baseRows) \subseteq Names
  BY WellLive, RowsAssumption DEF WellList
<1>2. /\ structure' =
           [st EXCEPT !.removed = @ \cup {i \in Gone(s) : st.originals[i] # Absent},
                      !.identity = IF n # l THEN Realigned(@, n, t) ELSE @]
      /\ touched' = touched \ Gone(s)
      /\ lateAnchor' = (lateAnchor \/ (n # l /\ ~st.identity.tracked))
      /\ strayBaseline' = (strayBaseline \/ (n # l /\ Strays(s, st)))
  BY DEF Positional
<1>3. /\ structure'.rows = ByPosition(n) /\ structure'.originals = structure.originals
      /\ structure'.removed = structure.removed \cup {i \in Gone(s) : structure.originals[i] # Absent}
      /\ e2 = IF n # l THEN Realigned(e, n, t) ELSE e
  <2> HIDE DEF n, l
  <2> QED  BY <1>2 DEF n
<1>4. Gone(s) = (n + 1) .. l  BY DEF Gone
<1> HIDE DEF n, l, e2
<1>5. /\ DOMAIN structure'.rows = 1 .. n
      /\ \A i \in 1 .. n : IF i \in DOMAIN structure.rows
                           THEN structure'.rows[i] = structure.rows[i]
                           ELSE structure'.rows[i] \notin Names
      /\ n = l => structure'.rows = structure.rows
  BY <1>1, <1>3, ByPositionFacts DEF l
<1>6. /\ Sound(structure, e, baseRows, defaults, strayBaseline)
      /\ DOMAIN e.tokens \subseteq DOMAIN structure.rows
      /\ e.tracked => DOMAIN e.tokens = DOMAIN structure.rows
  BY AnchoredSound
<1>7. /\ e2.tracked <=> e.tracked
      /\ e2.baseline = e.baseline
      /\ Sound(structure', e2, baseRows, defaults, strayBaseline')
      /\ Follows(structure.rows, e.tokens, structure'.rows, e2.tokens, Names)
  <2>1. CASE n = l
    <3>1. e2 = e /\ structure'.rows = structure.rows  BY <1>3, <1>5, <2>1
    <3>2. Gone(s) = {}  BY <1>1, <1>4, <2>1
    <3>3. structure'.removed = structure.removed  BY <1>3, <3>2
    <3>4. ~strayBaseline' => ~strayBaseline  BY <1>2
    <3>5. Sound(structure', e, baseRows, defaults, strayBaseline)
      BY <1>3, <1>6, <3>1, <3>3 DEF Sound
    <3>6. Sound(structure', e, baseRows, defaults, strayBaseline')
      BY <3>4, <3>5, SoundLonger
    <3>7. Follows(structure.rows, e.tokens, structure.rows, e.tokens, Names)
      BY <1>6, FollowsSame
    <3> QED  BY <3>1, <3>6, <3>7
  <2>2. CASE n # l
    <3>1. e.tracked /\ ~lateAnchor  BY <1>2, <2>2
    <3>2. e2 = Ensure(e, n, t)  BY <1>3, <2>2, <3>1 DEF Realigned
    <3>0. Regrown(e, e2, n, t)  BY <1>1, <3>1, <3>2, Grown
    <3>3. /\ e2.tracked /\ DOMAIN e2.tokens = 1 .. n /\ e2.baseline = e.baseline
          /\ \A j \in 1 .. n :
                IF j <= Len(e.tokens) THEN e2.tokens[j] = e.tokens[j]
                ELSE IF Anchored(e, j) THEN e2.tokens[j] = e.baseline[j]
                ELSE e2.tokens[j] >= t
      BY <3>0 DEF Regrown
    <3>4. Len(e.tokens) = l /\ DOMAIN e.tokens = 1 .. l
      <4>1. DOMAIN e.tokens = 1 .. Len(e.tokens) /\ Len(e.tokens) \in 0 .. MaxLen
        BY WellLists
      <4>2. DOMAIN e.tokens = 1 .. l /\ Len(e.tokens) \in Nat
        BY <1>1, <1>6, <3>1, <4>1, RowsAssumption
      <4> QED  BY <1>1, <4>1, <4>2
    <3>5. structure'.removed = structure.removed
             \cup {i \in DOMAIN structure.rows \ (1 .. n) : structure.originals[i] # Absent}
      <4>1. Gone(s) = DOMAIN structure.rows \ (1 .. n)  BY <1>1, <1>4
      <4> QED  BY <1>3, <4>1
    <3>6. ~strayBaseline' => ~strayBaseline /\ ~Strayed(structure, e, n, defaults)
      BY <1>2, <2>2, <3>1 DEF Strays, Strayed, n
    <3>7. Extended(structure.rows, structure'.rows, n, Held(baseRows))
      BY <1>1, <1>5 DEF Extended
    <3>8. Sound(structure', e2, baseRows, defaults, strayBaseline')
      BY <1>1, <1>3, <1>6, <3>0, <3>1, <3>5, <3>6, <3>7, SoundResized
    <3>9. Follows(structure.rows, e.tokens, structure'.rows, e2.tokens, Names)
      <4>1. ASSUME NEW j \in 1 .. n
            PROVE  \/ j \in 1 .. l /\ structure'.rows[j] = structure.rows[j]
                                   /\ e2.tokens[j] = e.tokens[j]
                   \/ structure'.rows[j] \notin Names /\ e2.tokens[j] \notin Held(e.tokens)
        <5>1. CASE j <= l  BY <1>1, <1>5, <3>3, <3>4, <4>1, <5>1
        <5>2. CASE ~(j <= l)
          <6>1. structure'.rows[j] \notin Names  BY <1>1, <1>5, <5>2
          <6>2. CASE Anchored(e, j)  BY <3>3, <3>4, <5>2, <6>1, <6>2 DEF Anchored
          <6>3. CASE ~Anchored(e, j)
            <7>1. e2.tokens[j] >= t  BY <3>3, <3>4, <5>2, <6>3
            <7>2. \A i \in 1 .. l : e.tokens[i] \in 0 .. (t - 1)  BY <3>4, WellLists
            <7>3. ASSUME NEW i \in 1 .. l, e2.tokens[j] = e.tokens[i] PROVE FALSE
              BY <7>1, <7>2, <7>3
            <7> QED  BY <3>4, <6>1, <7>3 DEF Held
          <6> QED  BY <6>2, <6>3
        <5> QED  BY <5>1, <5>2
      <4>2. \A j \in 1 .. n : structure'.rows[j] \in Held(structure.rows)
                              \/ structure'.rows[j] \notin Names
        BY <1>1, <4>1 DEF Held
      <4> QED  BY <1>5, <3>3, <3>4, <4>1, <4>2 DEF Follows
    <3> QED  BY <3>1, <3>3, <3>8, <3>9
  <2> QED  BY <2>1, <2>2
<1>8. /\ touched' = {i \in DOMAIN structure'.rows : structure'.rows[i] \in touchedRows}
      /\ touchedRows \subseteq Held(structure'.rows) \/ listTouched'
      /\ Recorded(structure'.rows, touched', touchedRows)
      /\ Kept(structure.rows, touched \cap Gone(s), structure'.rows, touchedRows)
  BY <1>2, <1>3, ReleasedRecords DEF LiveInv, n
<1>9. LiveInv'  BY <1>7, <1>8 DEF LiveInv, e2, Held
<1>10. ~strayBaseline' => ~strayBaseline  BY <1>2
<1> QED  BY <1>7, <1>8, <1>9, <1>10 DEF e2

-----------------------------------------------------------------------------
(* One action at a time.                                                    *)

(* An edit of a leaf keeps the line.                                        *)
LEMMA EditLeafBook ==
    ASSUME HistoryInv, RowsInv, TypeInv, BookInv, RowsInv', TypeInv',
           NEW i \in Slots, NEW v \in Values, EditLeaf(i, v)
    PROVE  BookInv'
<1>1. /\ UNCHANGED <<defaults, structure, touched, listTouched, nextToken, baseRows,
                     touchedRows, lateAnchor, strayBaseline>>
      /\ Record({}) /\ ~floorPending /\ floorPending' = floorPending
  BY DEF EditLeaf, ghosts, Writable, Record
<1>2. SUFFICES ASSUME ~lateAnchor PROVE LiveInv' /\ LineInv'
  BY <1>1 DEF BookInv
<1>3. LiveInv /\ LineInv  BY <1>1, <1>2 DEF BookInv
<1>4. LiveInv'  BY <1>1, <1>3 DEF LiveInv, Sound, Agree, Baselined, Valued, Whole, Slots, Held
<1> DEFINE id == structure.identity
<1>5. WellIdentity(id, nextToken) /\ nextToken \in Nat  BY WellLive
<1>6. Anchoring(id, id, baseRows)  BY DEF Anchoring
<1>7. /\ Sound(structure, id, baseRows, defaults, strayBaseline)
      /\ DOMAIN id.tokens \subseteq DOMAIN structure.rows
  BY <1>3, <1>5, <1>6, AnchoredSound
<1>8. Follows(structure.rows, id.tokens, structure.rows, id.tokens, Names)
  BY <1>7, FollowsSame
<1>9. /\ Recorded(structure.rows, touched, touchedRows)
      /\ Kept(structure.rows, {}, structure.rows, touchedRows)
  BY <1>3 DEF LiveInv, Recorded, Kept, Held
<1>10. /\ WellIdentity(id, nextToken') /\ nextToken <= nextToken'  BY <1>1, <1>5
<1> HIDE DEF id
<1>11. LineInv'
  BY <1>1, <1>3, <1>6, <1>7, <1>8, <1>9, <1>10, PushedLine DEF id
<1> QED  BY <1>4, <1>11

(* A whole-list write (setValue, a bulk array write) keeps the line.        *)
LEMMA OverwriteBook ==
    ASSUME HistoryInv, RowsInv, TypeInv, BookInv, RowsInv', TypeInv',
           NEW s \in Lists, NEW anchors \in BOOLEAN, Overwrite(s, anchors)
    PROVE  BookInv'
<1> DEFINE id == structure.identity
           n == Len(items)
           e == IF anchors THEN Ensure(id, n, nextToken) ELSE id
           t == nextToken + (IF anchors THEN Used(id, n) ELSE 0)
           st == [InPlace(s) EXCEPT !.identity = e]
           lost == touched \cap Gone(s)
<1>1. /\ Positional(s, st, touched, t) /\ Record(lost) /\ Named(Len(s)) /\ ~floorPending
      /\ UNCHANGED <<defaults, cells, baseRows, touchedRows>>
      /\ listTouched' = Outlived(lost)
  <2>1. st = [InPlace(s) EXCEPT !.identity =
                  IF anchors THEN Ensure(id, Len(items), nextToken) ELSE id]
    OBVIOUS
  <2> HIDE DEF st
  <2> QED  BY <2>1 DEF Overwrite, Writable
<1>2. floorPending' = floorPending /\ (lateAnchor => lateAnchor')
  BY <1>1 DEF Record, Positional
<1>3. SUFFICES ASSUME ~lateAnchor' PROVE LiveInv' /\ LineInv'
  BY <1>1, <1>2 DEF BookInv
<1>4. LiveInv /\ LineInv  BY <1>1, <1>2, <1>3 DEF BookInv
<1>5. WellIdentity(id, nextToken) /\ nextToken \in Nat  BY WellLive
<1>6. /\ t \in Nat /\ nextToken <= t /\ WellIdentity(e, t)
      /\ Anchoring(id, e, baseRows)
  <2>1. CASE anchors
    <3> DEFINE f == Ensure(id, n, nextToken)
               u == Used(id, n)
    <3>1. /\ f = Ensure(structure.identity, Len(items), nextToken)
          /\ u = Used(structure.identity, Len(items)) /\ e = f /\ t = nextToken + u
      BY <2>1
    <3> HIDE DEF f, u
    <3>2. Anchoring(id, f, baseRows) /\ u \in Nat /\ WellIdentity(f, nextToken + u)
      BY <1>4, <3>1, EnsureAnchors
    <3> QED  BY <1>5, <3>1, <3>2
  <2>2. CASE ~anchors  BY <1>5, <2>2 DEF Anchoring
  <2> QED  BY <2>1, <2>2
<1>7. /\ DOMAIN st = {"rows", "identity", "originals", "removed"} /\ st.identity = e
      /\ st.rows = ByPosition(Len(s))
      /\ st.originals = structure.originals /\ st.removed = structure.removed
  <2> HIDE DEF e
  <2> QED  BY DEF InPlace, RowsInv, WellFormed
<1> HIDE DEF st, t, e, n
<1>8. WellList(s)  BY RowsAssumption DEF WellList
<1>9. /\ LiveInv'
      /\ structure'.identity.tracked <=> e.tracked
      /\ structure'.identity.baseline = e.baseline
      /\ Follows(structure.rows, e.tokens, structure'.rows, structure'.identity.tokens, Names)
      /\ Recorded(structure'.rows, touched', touchedRows)
      /\ Kept(structure.rows, touched \cap Gone(s), structure'.rows, touchedRows)
      /\ ~strayBaseline' => ~strayBaseline
  BY <1>1, <1>3, <1>4, <1>6, <1>7, <1>8, PositionalLive
<1>10. nextToken' \in Nat /\ t <= nextToken'
  <2>1. /\ structure.originals \in [Slots -> Values \cup {Absent}]
        /\ structure.removed \subseteq Slots /\ touched \subseteq Slots
        /\ Len(items) \in 0 .. MaxLen
    BY WellLive DEF TypeInv, WellKept
  <2>2. WellKept(st, t)  BY <1>6, <1>7, <2>1 DEF WellKept
  <2> QED  BY <1>1, <1>6, <1>7, <1>8, <2>1, <2>2, PositionalTyped
<1>11. WellIdentity(e, nextToken') /\ nextToken <= nextToken'
  BY <1>5, <1>6, <1>10, IdentityLater
<1>12. Sound(structure', structure'.identity, baseRows, defaults, strayBaseline')
  BY <1>1, <1>9 DEF LiveInv
<1>13. LineInv'
  BY <1>1, <1>4, <1>6, <1>9, <1>11, <1>12, PushedLine
<1> QED  BY <1>9, <1>13

(* tokenAt, which gives the list its tokens outside a write, keeps the      *)
(* line.                                                                    *)
LEMMA TokenAtBook ==
    ASSUME HistoryInv, RowsInv, TypeInv, BookInv, RowsInv', TypeInv', TokenAt
    PROVE  BookInv'
<1> DEFINE id == structure.identity
           n == Len(items)
           e == Ensure(id, n, nextToken)
           u == Used(id, n)
<1>1. /\ structure' = [structure EXCEPT !.identity = e] /\ nextToken' = nextToken + u
      /\ ~floorPending
      /\ UNCHANGED <<defaults, touched, listTouched, positions, cursor, generation, floorPending,
                     baseRows, touchedRows, lateAnchor, strayBaseline>>
  BY DEF TokenAt, Quiet, history
<1>2. /\ e = Ensure(structure.identity, Len(items), nextToken)
      /\ u = Used(structure.identity, Len(items))
  OBVIOUS
<1> HIDE DEF e, u, n
<1>3. SUFFICES ASSUME ~lateAnchor PROVE LiveInv' /\ LineInv'
  BY <1>1 DEF BookInv
<1>4. LiveInv /\ LineInv  BY <1>1, <1>3 DEF BookInv
<1>5. DOMAIN structure = {"rows", "identity", "originals", "removed"}
  BY DEF RowsInv, WellFormed
<1>6. /\ structure'.identity = e /\ structure'.rows = structure.rows
      /\ structure'.originals = structure.originals /\ structure'.removed = structure.removed
  BY <1>1, <1>5
<1>7. Anchoring(id, e, baseRows) /\ u \in Nat /\ WellIdentity(e, nextToken + u) /\ nextToken \in Nat
      /\ WellIdentity(id, nextToken)
  BY <1>2, <1>4, EnsureAnchors, WellLive
<1>8. Sound(structure, e, baseRows, defaults, strayBaseline)
  BY <1>4, <1>7, AnchoredSound
<1>9. LiveInv'
  <2>1. Sound(structure', e, baseRows, defaults, strayBaseline)  BY <1>6, <1>8 DEF Sound
  <2> QED  BY <1>1, <1>4, <1>6, <2>1 DEF LiveInv
<1>10. /\ LineOK(OnLine, cursor, RowsAt, TokensAt(e), RecordsAt, touchedRows)
       /\ \A k \in Current :
             k = cursor => Plan(positions[k].structure.identity, e).tokens = e.tokens
  BY <1>4, <1>7, AnchoredLine
<1>11. /\ OnLine' = OnLine /\ cursor' = cursor /\ RowsAt' = RowsAt
       /\ (TokensAt(structure.identity))' = TokensAt(e) /\ RecordsAt' = RecordsAt
       /\ touchedRows' = touchedRows /\ Current' = Current
  BY <1>1, <1>6 DEF OnLine, Current, RowsAt, TokensAt, RecordsAt
<1>12. Continues(id, e, baseRows)
  BY <1>7 DEF Continues, Anchoring
<1>13. ASSUME NEW k \in Current PROVE Placed(k)'
  <2> DEFINE p == positions[k].structure
  <2>1. /\ k \in 1 .. Len(positions)
        /\ SoundPosition(p, id, baseRows, defaults, strayBaseline)
        /\ Recorded(p.rows, positions[k].records, touchedRows)
        /\ k = cursor => p.rows = structure.rows
    BY <1>4 DEF LineInv, Placed, Current
  <2>2. WellIdentity(p.identity, nextToken')
    <3>1. WellIdentity(p.identity, nextToken)  BY <2>1, WellPlaced
    <3> QED  BY <1>1, <1>7, <3>1, IdentityLater
  <2>3. WellIdentity(id, nextToken') /\ WellIdentity(e, nextToken') /\ nextToken' \in Nat
    BY <1>1, <1>7, IdentityLater
  <2> HIDE DEF p, id
  <2>4. SoundPosition(p, e, baseRows, defaults, strayBaseline)
    BY <1>12, <2>1, <2>2, <2>3, WellLive, PositionContinues
  <2> QED  BY <1>1, <1>6, <1>10, <2>1, <2>4 DEF Placed, p
<1> QED  BY <1>9, <1>10, <1>11, <1>13 DEF LineInv

(* A touch records the row and the slot.                                    *)
LEMMA TouchBook ==
    ASSUME HistoryInv, RowsInv, TypeInv, BookInv, NEW i \in Slots, Touch(i)
    PROVE  BookInv'
<1>1. /\ touched' = touched \cup {i} /\ touchedRows' = touchedRows \cup {structure.rows[i]}
      /\ i <= Len(items) /\ ~floorPending
      /\ UNCHANGED <<structure, listTouched, defaults, positions, cursor, generation,
                     floorPending, baseRows, lateAnchor, strayBaseline>>
  BY DEF Touch, Quiet, history
<1>2. SUFFICES ASSUME ~lateAnchor PROVE LiveInv' /\ LineInv'
  BY <1>1 DEF BookInv
<1>3. LiveInv /\ LineInv  BY <1>1, <1>2 DEF BookInv
<1>4. /\ DOMAIN structure.rows = 1 .. Len(items) /\ Len(items) \in Nat
      /\ Distinct(structure.rows)
  BY WellLive
<1>5. i \in DOMAIN structure.rows  BY <1>1, <1>4 DEF Slots
<1>6. touched' = {k \in DOMAIN structure.rows : structure.rows[k] \in touchedRows'}
  BY <1>1, <1>3, <1>5, <1>4 DEF LiveInv, Distinct
<1>7. touchedRows' \subseteq Held(structure.rows) \/ listTouched
  BY <1>1, <1>3, <1>5 DEF LiveInv, Held
<1>8. LiveInv'  BY <1>1, <1>3, <1>6, <1>7 DEF LiveInv
<1>9. Recorded(structure.rows, touched', touchedRows')  BY <1>6 DEF Recorded
<1> DEFINE t == TokensAt(structure.identity)
           r == RowsAt
           d == RecordsAt
<1>10. /\ OnLine' = OnLine /\ cursor' = cursor /\ r' = r /\ t' = t /\ Current' = Current
  BY <1>1 DEF OnLine, Current, RowsAt, TokensAt
<1>11. /\ OnLine \subseteq Int /\ cursor \in Int /\ r[cursor] = structure.rows
       /\ OnLine \subseteq 1 .. Len(positions) /\ cursor \in 1 .. Len(positions)
  BY RowsAssumption DEF OnLine, Current, HistoryInv, RowsAt
<1>12. d'[cursor] = touched' /\ \A k \in OnLine \ {cursor} : d'[k] = d[k]
  BY <1>1, <1>11 DEF RecordsAt
<1>13. LineOK(OnLine, cursor, r, t, d, touchedRows)  BY <1>3 DEF LineInv
<1> DEFINE w == touchedRows
           w2 == touchedRows'
           d2 == d'
<1>14. /\ i \in DOMAIN r[cursor] /\ w2 = w \cup {r[cursor][i]}
       /\ Recorded(r[cursor], d2[cursor], w2) /\ \A k \in OnLine \ {cursor} : d2[k] = d[k]
       /\ LineOK(OnLine, cursor, r, t, d, w) /\ OnLine \subseteq Int /\ cursor \in Int
  BY <1>1, <1>5, <1>9, <1>11, <1>12, <1>13
<1> HIDE DEF t, r, d, w, w2, d2
<1>15. LineOK(OnLine, cursor, r, t, d2, w2)
  BY ONLY <1>14, LineTouched
<1>16. ASSUME NEW k \in Current PROVE Placed(k)'
  <2> DEFINE p == positions[k].structure
  <2>1. Placed(k)  BY <1>3 DEF LineInv
  <2>2. Recorded(p.rows, positions[k].records, touchedRows')
    BY <1>1, <2>1 DEF Placed, Recorded
  <2> QED  BY <1>1, <2>1, <2>2 DEF Placed
<1> QED  BY <1>8, <1>10, <1>15, <1>16 DEF LineInv, r, t, d, w2, d2

(* What neither the records nor the line read may change.                   *)
LEMMA UnreadBook ==
    ASSUME BookInv, UNCHANGED <<structure, touched, listTouched, defaults, history, ghosts>>
    PROVE  BookInv'
BY DEF BookInv, LiveInv, LineInv, KeysAgree, OnLine, Current, RowsAt, TokensAt, RecordsAt,
       Placed, history, ghosts

(* A line of the cursor's position alone, taken from the live list.         *)
Alone ==
    /\ OnLine = {cursor} /\ cursor \in 1 .. Len(positions)
    /\ Distinct(structure.rows)
    /\ DOMAIN structure.identity.tokens \subseteq DOMAIN structure.rows
    /\ positions[cursor].structure = structure
    /\ Sound(structure, structure.identity, baseRows, defaults, strayBaseline)
    /\ Recorded(structure.rows, touched, touchedRows)
    /\ Recorded(structure.rows, positions[cursor].records, touchedRows)

(* Such a line is as it should be.                                          *)
LEMMA AloneInv == Alone => LineInv
<1> SUFFICES ASSUME Alone PROVE LineInv  OBVIOUS
<1> DEFINE id == structure.identity
           n == cursor
           r == RowsAt
           t == TokensAt(id)
           d == RecordsAt
<1>1. r[n] = structure.rows /\ t[n] = id.tokens /\ d[n] = touched /\ n \in Int
  BY DEF RowsAt, TokensAt, RecordsAt, Alone
<1>2. /\ Distinct(r[n]) /\ DOMAIN t[n] \subseteq DOMAIN r[n] /\ Recorded(r[n], d[n], touchedRows)
  BY <1>1 DEF Alone
<1> HIDE DEF r, t, d, n
<1>3. LineOK({n}, n, r, t, d, touchedRows)  BY <1>1, <1>2, LineAlone
<1>4. Plan(id, id) = id  BY DEF Plan
<1>5. Placed(cursor)  BY <1>4 DEF Placed, SoundPosition, Alone
<1>6. Current \subseteq {cursor} /\ OnLine = {n}  BY DEF OnLine, Alone, n
<1> QED  BY <1>3, <1>5, <1>6 DEF LineInv, r, t, d, n

(* The clear of the history, asked for or queued by a hydration.            *)
LEMMA ReseedBook ==
    ASSUME HistoryInv, RowsInv, TypeInv, BookInv, Reseed, floorPending' = FALSE,
           UNCHANGED <<store, generation, ghosts>>
    PROVE  BookInv'
<1>1. /\ positions' = <<CaptureNext>> /\ cursor' = 1
      /\ UNCHANGED <<structure, touched, listTouched, defaults, generation,
                     baseRows, touchedRows, lateAnchor, strayBaseline>>
  BY DEF Reseed, store, ghosts
<1>2. /\ CaptureNext.structure = structure /\ CaptureNext.records = touched
      /\ CaptureNext.generation = generation
  BY <1>1 DEF CaptureNext, Snapshot
<1> HIDE DEF CaptureNext
<1>3. SUFFICES ASSUME ~lateAnchor PROVE LiveInv' /\ LineInv'
  BY <1>1 DEF BookInv
<1>4. LiveInv  BY <1>3 DEF BookInv
<1>5. LiveInv'  BY <1>1, <1>4 DEF LiveInv
<1>6. Len(positions') = 1 /\ positions'[1] = CaptureNext  BY <1>1
<1>7. OnLine' = {1} /\ cursor' = 1  BY <1>1, <1>2, <1>6 DEF OnLine, Current
<1>8. DOMAIN structure.identity.tokens \subseteq DOMAIN structure.rows
  BY <1>4, WellLive, AnchoredSound DEF Anchoring
<1>9. Recorded(structure.rows, touched, touchedRows)  BY <1>4 DEF LiveInv, Recorded
<1>10. /\ Distinct(structure'.rows)
       /\ DOMAIN structure'.identity.tokens \subseteq DOMAIN structure'.rows
       /\ positions'[1].structure = structure' /\ 1 \in 1 .. Len(positions')
       /\ Recorded(structure'.rows, touched', touchedRows')
       /\ Recorded(structure'.rows, positions'[1].records, touchedRows')
  BY <1>1, <1>2, <1>6, <1>8, <1>9, WellLive
<1>11. Sound(structure', structure'.identity, baseRows', defaults', strayBaseline')
  BY <1>5 DEF LiveInv
<1>12. Alone'  BY <1>7, <1>10, <1>11 DEF Alone
<1>13. LineInv'  BY <1>12, AloneInv, PTL
<1> QED  BY <1>5, <1>13

(* A form that has just been built.                                         *)
LEMMA InitBook == Init => BookInv
<1> SUFFICES ASSUME Init PROVE LiveInv /\ LineInv  BY DEF BookInv, Init
<1> DEFINE s == InitialRows
<1>1. /\ defaults = s /\ structure = Construct(s) /\ touched = {} /\ touchedRows = {}
      /\ generation = 0 /\ cursor = 1 /\ baseRows = structure.rows
      /\ Len(positions) = 1 /\ positions[1].structure = structure
      /\ positions[1].records = {} /\ positions[1].generation = 0
  BY DEF Init, Snapshot
<1>2. /\ structure.identity = Untracked /\ structure.originals = Seeded(s)
      /\ structure.removed = {} /\ structure.rows = [i \in 1 .. Len(s) |-> i]
  BY <1>1 DEF Construct
<1>3. s \in Seq(Values) /\ Len(s) \in Nat /\ DOMAIN s = 1 .. Len(s)  BY RowsAssumption
<1>4. \A i \in Slots : Seeded(s)[i] = IF i <= Len(s) THEN s[i] ELSE Absent  BY DEF Seeded
<1>5. \A i \in 1 .. Len(s) : i \in Slots  BY <1>3, RowsAssumption DEF Slots
<1> HIDE DEF s
<1>6. Distinct(structure.rows) /\ DOMAIN structure.rows = 1 .. Len(s)  BY <1>2 DEF Distinct
<1>7. Sound(structure, structure.identity, baseRows, defaults, strayBaseline)
  <2> DEFINE b == structure.rows
             o == Seeded(s)
  <2>0. ~Untracked.tracked /\ DOMAIN Untracked.tokens = {} /\ DOMAIN Untracked.baseline = {}
    BY DEF Untracked
  <2>1. Baselined(b, o, b, s)
    BY <1>2, <1>4, <1>5, <1>3 DEF Baselined
  <2>2. Whole(b, o, {}, b)
    <3> SUFFICES ASSUME NEW i \in Slots, ~(i \in DOMAIN b) PROVE o[i] = Absent
      BY DEF Whole, Held
    <3> QED  BY <1>4, <1>6, <1>3 DEF Slots
  <2>3. Agree(b, Untracked.tokens, b, Untracked.baseline)
        /\ Valued(Untracked.tokens, o, Untracked.baseline, s)
    BY <2>0 DEF Agree, Valued
  <2> QED  BY <1>1, <1>2, <2>0, <2>1, <2>2, <2>3 DEF Sound
<1>8. LiveInv  BY <1>1, <1>7 DEF LiveInv, Held
<1>9. OnLine = {1} /\ 1 \in 1 .. Len(positions)  BY <1>1 DEF OnLine, Current
<1>10. DOMAIN structure.identity.tokens \subseteq DOMAIN structure.rows
  BY <1>2 DEF Untracked
<1>11. LineInv
  BY <1>1, <1>6, <1>7, <1>9, <1>10, AloneInv DEF Recorded, Alone
<1> QED  BY <1>8, <1>11

(* A list that has just become the baseline.                                *)
LEMMA RebasedSound ==
    ASSUME RowsInv, TypeInv, NEW s, WellList(s), NEW kept, kept \subseteq 1 .. Len(s),
           Anchors(s, kept)
    PROVE  /\ Sound(structure', structure'.identity, baseRows', s, strayBaseline')
           /\ DOMAIN structure'.identity.tokens \subseteq DOMAIN structure'.rows
           /\ Distinct(structure'.rows)
<1> DEFINE n == Len(s)
           id == structure.identity
           x == Realigned(id, n, nextToken)
           u == nextToken + RealignUses(id, n)
           e == Rebaselined(x)
           b == ByPosition(n)
           o == Seeded(s)
<1>1. /\ n \in 0 .. MaxLen /\ n \in Nat /\ s \in Seq(Values) /\ DOMAIN s = 1 .. n
      /\ nextToken \in Nat /\ WellIdentity(id, nextToken)
  BY WellLive, RowsAssumption DEF WellList
<1>2. /\ structure'.rows = b /\ structure'.identity = e /\ structure'.originals = o
      /\ structure'.removed = kept /\ baseRows' = b
  BY DEF Anchors, Rebased
<1>3. DOMAIN b = 1 .. n /\ Distinct(b)
  <2>1. Named(n)  BY DEF Anchors
  <2> HIDE DEF n
  <2>2. WellNamed(b, n, nextRow')  BY <1>1, <2>1, NamedByPosition
  <2> QED  BY <2>2 DEF WellNamed, Distinct
<1>4. \A i \in Slots : o[i] = IF i <= n THEN s[i] ELSE Absent  BY DEF Seeded
<1>5. \A i \in 1 .. n : i \in Slots /\ i <= n  BY <1>1, RowsAssumption DEF Slots
<1> HIDE DEF b, o, n, id, x, e, u
<1>6. /\ u \in Nat /\ WellIdentity(x, u)
      /\ x.tracked => DOMAIN x.tokens = 1 .. n
  <2>1. /\ RealignUses(id, n) \in Nat /\ WellIdentity(x, nextToken + RealignUses(id, n))
    BY <1>1, RealignedFacts DEF x
  <2>2. CASE id.tracked
    <3>1. x = Ensure(id, n, nextToken)  BY <2>2 DEF x, Realigned
    <3>2. Regrown(id, x, n, nextToken)  BY <1>1, <2>2, <3>1, Grown
    <3> QED  BY <1>1, <2>1, <3>2 DEF Regrown, u
  <2>3. CASE ~id.tracked
    <3>1. x = id  BY <2>3 DEF x, Realigned
    <3> QED  BY <1>1, <2>1, <2>3, <3>1 DEF u
  <2> QED  BY <2>2, <2>3
<1>7. /\ e.tokens = x.tokens /\ e.baseline = x.tokens /\ (e.tracked <=> x.tracked)
  <2>1. x = [tracked |-> x.tracked, tokens |-> x.tokens, baseline |-> x.baseline]
    BY <1>6 DEF WellIdentity
  <2>2. e = [tracked |-> x.tracked, tokens |-> x.tokens, baseline |-> x.tokens]
    BY <2>1 DEF e, Rebaselined
  <2> QED  BY <2>2
<1>8. Distinct(x.tokens) /\ (~x.tracked => DOMAIN x.tokens = {})
  BY <1>6, WellLists
<1>9. Agree(b, e.tokens, b, e.baseline)
  BY <1>3, <1>6, <1>7, <1>8 DEF Agree, Distinct
<1>10. Baselined(b, o, b, s)
  BY <1>3, <1>4, <1>5 DEF Baselined, Distinct
<1>11. Valued(e.tokens, o, e.baseline, s)
  BY <1>4, <1>5, <1>6, <1>7, <1>8 DEF Valued, Distinct
<1>12. Whole(b, o, kept, b)
  <2> SUFFICES ASSUME NEW i \in Slots, ~(i \in 1 .. n) PROVE o[i] = Absent /\ i \notin kept
    BY <1>3 DEF Whole, Held
  <2>1. ~(i <= n)  BY <1>1 DEF Slots
  <2> QED  BY <1>4, <2>1 DEF n
<1>13. Sound(structure', e, baseRows', s, strayBaseline')
  BY <1>1, <1>2, <1>3, <1>6, <1>7, <1>9, <1>10, <1>11, <1>12 DEF Sound
<1> QED  BY <1>2, <1>3, <1>6, <1>7, <1>8, <1>13

(* reset makes the defaults the list and the baseline.                      *)
LEMMA ResetBook ==
    ASSUME HistoryInv, RowsInv, TypeInv, GenerationsInv, Reset
    PROVE  BookInv'
<1> DEFINE left == touched \cap Gone(defaults)
           snap == Snapshot(defaults, structure', cells, {}, generation')
           n == NewCursor
<1>1. /\ Anchors(defaults, {}) /\ positions' = Pushed(left, snap) /\ cursor' = Len(positions')
      /\ defaults' = defaults
      /\ touched' = {} /\ touchedRows' = {} /\ generation' = generation + 1
      /\ ~floorPending /\ floorPending' = floorPending
  BY DEF Reset, Writable
<1>2. /\ IsSnapshot(snap) /\ snap.structure = structure' /\ snap.records = {}
      /\ snap.generation = generation'
  BY DEF IsSnapshot, Snapshot
<1> HIDE DEF snap, left
<1>3. WellList(defaults)  BY DEF RowsInv
<1>4. /\ Sound(structure', structure'.identity, baseRows', defaults, strayBaseline')
      /\ DOMAIN structure'.identity.tokens \subseteq DOMAIN structure'.rows
      /\ Distinct(structure'.rows)
  BY <1>1, <1>3, RebasedSound
<1>5. LiveInv'  BY <1>1, <1>4 DEF LiveInv
<1> DEFINE sh == cursor + 1 - n
<1>6. /\ n \in Int /\ n >= 1 /\ cursor' = n /\ Len(positions') = n /\ positions'[n] = snap
      /\ \A k \in 1 .. (n - 1) : positions'[k].generation # generation'
  <2>1. n = NewCursor /\ sh = cursor + 1 - n  OBVIOUS
  <2> HIDE DEF n, sh
  <2>2. /\ n \in Int /\ n >= 1 /\ cursor' = n /\ Len(positions') = n /\ positions'[n] = snap
    BY <1>1, <1>2, <2>1, Shifted
  <2>3. ASSUME NEW k \in 1 .. (n - 1)
        PROVE  k + sh \in 1 .. Len(positions)
    BY <1>1, <1>2, <2>1, Shifted
  <2>4. ASSUME NEW k \in 1 .. (n - 1)
        PROVE  positions'[k].generation = positions[k + sh].generation
    BY <1>1, <1>2, <2>1, Shifted
  <2>5. \A j \in 1 .. Len(positions) : positions[j].generation \in Nat
                                       /\ positions[j].generation <= generation
    BY DEF GenerationsInv
  <2>6. generation \in Nat  BY DEF GenerationsInv
  <2>7. \A j \in 1 .. Len(positions) : positions[j].generation # generation'
    BY <1>1, <2>5, <2>6
  <2> QED  BY <2>2, <2>3, <2>4, <2>7
<1> HIDE DEF n, sh
<1>7. OnLine' = {n}
  <2>1. \A k \in 1 .. n : k = n \/ k \in 1 .. (n - 1)  BY <1>6
  <2> QED  BY <1>6, <2>1 DEF OnLine, Current
<1>8. Alone'
  BY <1>1, <1>2, <1>4, <1>6, <1>7 DEF Alone, Recorded
<1>9. LineInv'  BY <1>8, AloneInv, PTL
<1> QED  BY <1>1, <1>5, <1>9 DEF BookInv

(* The keys of a position are those of the live list.                       *)
LEMMA LineKeys ==
    ASSUME HistoryInv, RowsInv, TypeInv, LiveInv, LineInv, NEW c \in Current,
           positions[c].structure.identity.tracked, structure.identity.tracked
    PROVE  LET p == positions[c].structure IN
           /\ DOMAIN p.identity.tokens = DOMAIN p.rows
           /\ DOMAIN structure.identity.tokens = DOMAIN structure.rows
           /\ Agree(p.rows, p.identity.tokens, structure.rows, structure.identity.tokens)
<1> DEFINE p == positions[c].structure
           id == structure.identity
           r == RowsAt
           t == TokensAt(id)
<1>1. Plan(p.identity, id) = p.identity  BY DEF Plan
<1>2. Placed(c) /\ c \in 1 .. Len(positions) /\ c \in OnLine
  BY DEF LineInv, Current, OnLine
<1>3. DOMAIN p.identity.tokens = DOMAIN p.rows /\ DOMAIN id.tokens = DOMAIN structure.rows
  BY <1>1, <1>2 DEF Placed, SoundPosition, Sound, LiveInv
<1>4. /\ r[cursor] = structure.rows /\ t[cursor] = id.tokens /\ cursor \in OnLine
      /\ r[c] = p.rows /\ t[c] = p.identity.tokens
  BY <1>1, <1>2 DEF RowsAt, TokensAt, Placed, HistoryInv, OnLine
<1> HIDE DEF r, t, p, id
<1>5. Agree(r[c], t[c], r[cursor], t[cursor])
  BY <1>2 DEF LineInv, LineOK, r, t, id
<1> QED  BY <1>3, <1>4, <1>5 DEF p, id

(* The invariant gives KeysAgree also where the line is not read, while the *)
(* clear a hydration queued has not run.                                    *)
LEMMA BookKeysAgree ==
    ASSUME HistoryInv, RowsInv, TypeInv, BookInv
    PROVE  KeysAgree
<1>1. CASE lateAnchor \/ floorPending  BY <1>1 DEF BookInv, KeysAgree
<1>2. CASE ~lateAnchor /\ ~floorPending
  <2>1. LiveInv /\ LineInv  BY <1>2 DEF BookInv
  <2> SUFFICES ASSUME NEW c \in 1 .. Len(positions), positions[c].generation = generation,
                      positions[c].structure.identity.tracked, structure.identity.tracked,
                      NEW i \in DOMAIN positions[c].structure.rows,
                      NEW j \in DOMAIN structure.rows,
                      positions[c].structure.rows[i] = structure.rows[j]
               PROVE  positions[c].structure.identity.tokens[i] = structure.identity.tokens[j]
    BY DEF KeysAgree
  <2>2. c \in Current  BY DEF Current
  <2> DEFINE p == positions[c].structure
  <2>3. /\ DOMAIN p.identity.tokens = DOMAIN p.rows
        /\ DOMAIN structure.identity.tokens = DOMAIN structure.rows
        /\ Agree(p.rows, p.identity.tokens, structure.rows, structure.identity.tokens)
    BY <2>1, <2>2, LineKeys
  <2> QED  BY <2>3 DEF Agree
<1> QED  BY <1>1, <1>2

(* A hydration, in the same tick or after the list was written.             *)
LEMMA HydrateBook ==
    ASSUME HistoryInv, RowsInv, TypeInv, BookInv, NEW v \in Fetched, Hydrate(v)
    PROVE  BookInv'
<1> DEFINE n == Len(v)
           kept == structure.removed \cap (1 .. n)
           id == structure.identity
<1>1. /\ Anchors(v, kept) /\ defaults' = v /\ floorPending' = TRUE /\ ~floorPending
      /\ touched' = touched \ Gone(v) /\ listTouched' = Outlived(touched \cap Gone(v))
      /\ UNCHANGED <<touchedRows, lateAnchor, positions, cursor, generation>>
  BY DEF Hydrate, Writable
<1>2. SUFFICES ASSUME ~lateAnchor PROVE LiveInv' /\ KeysAgree'
  BY <1>1 DEF BookInv
<1>3. LiveInv /\ LineInv  BY <1>1, <1>2 DEF BookInv
<1>4. WellList(v) /\ n \in Nat  BY RowsAssumption DEF WellList
<1>5. kept \subseteq 1 .. Len(v)  OBVIOUS
<1> HIDE DEF kept
<1>6. Sound(structure', structure'.identity, baseRows', v, strayBaseline')
  BY <1>1, <1>4, <1>5, RebasedSound
<1>7. structure'.rows = ByPosition(n)
      /\ structure'.identity = Rebaselined(Realigned(id, n, nextToken))
  BY <1>1 DEF Anchors, Rebased
<1>8. /\ touched' = {i \in DOMAIN structure'.rows : structure'.rows[i] \in touchedRows}
      /\ touchedRows \subseteq Held(structure'.rows) \/ listTouched'
  BY <1>1, <1>3, <1>4, <1>7, ReleasedRecords DEF LiveInv
<1>9. LiveInv'  BY <1>1, <1>6, <1>8 DEF LiveInv, Held
<1>10. ASSUME NEW c \in Current, positions[c].structure.identity.tracked,
              structure'.identity.tracked,
              NEW i \in DOMAIN positions[c].structure.rows, NEW j \in DOMAIN structure'.rows,
              positions[c].structure.rows[i] = structure'.rows[j]
       PROVE  positions[c].structure.identity.tokens[i] = structure'.identity.tokens[j]
  <2> DEFINE p == positions[c].structure
             x == Realigned(id, n, nextToken)
  <2>1. n \in 0 .. MaxLen /\ nextToken \in Nat /\ WellIdentity(id, nextToken)
    BY <1>4, WellLive DEF WellList
  <2>2. id.tracked
    <3>1. CASE ~id.tracked
      <4>1. id = Untracked  BY <2>1, <3>1 DEF WellIdentity
      <4>2. structure'.identity = Rebaselined(id)  BY <1>7, <3>1 DEF Realigned
      <4> QED  BY <1>10, <4>1, <4>2 DEF Rebaselined, Untracked
    <3> QED  BY <3>1
  <2>3. x = Ensure(id, n, nextToken)  BY <2>2 DEF Realigned
  <2> HIDE DEF x, n
  <2>4. Regrown(id, x, n, nextToken)  BY <2>1, <2>2, <2>3, Grown
  <2>5. structure'.identity.tokens = x.tokens
    <3>1. RealignUses(id, n) \in Nat /\ WellIdentity(x, nextToken + RealignUses(id, n))
      BY <2>1, RealignedFacts DEF x
    <3>2. x = [tracked |-> x.tracked, tokens |-> x.tokens, baseline |-> x.baseline]
      BY <3>1 DEF WellIdentity
    <3>3. Rebaselined(x) = [tracked |-> x.tracked, tokens |-> x.tokens, baseline |-> x.tokens]
      BY <3>2 DEF Rebaselined
    <3> QED  BY <1>7, <3>3 DEF x
  <2>6. /\ DOMAIN p.identity.tokens = DOMAIN p.rows
        /\ DOMAIN id.tokens = DOMAIN structure.rows
        /\ Agree(p.rows, p.identity.tokens, structure.rows, id.tokens)
    BY <1>3, <1>10, <2>2, LineKeys
  <2>7. p.rows[i] \in Names
    <3>1. c \in 1 .. Len(positions)  BY DEF Current
    <3> QED  BY <3>1, WellPlaced DEF Held
  <2>8. j \in 1 .. n /\ j \in DOMAIN structure.rows /\ structure'.rows[j] = structure.rows[j]
    BY <1>4, <1>7, <1>10, <2>7, ByPositionFacts DEF n
  <2>9. j \in DOMAIN id.tokens /\ j <= Len(id.tokens)
    BY <2>1, <2>6, <2>8, WellLists
  <2>10. x.tokens[j] = id.tokens[j]  BY <2>4, <2>8, <2>9 DEF Regrown
  <2> QED  BY <1>10, <2>5, <2>6, <2>8, <2>9, <2>10 DEF Agree
<1>11. KeysAgree'
  BY <1>1, <1>10 DEF KeysAgree, Current
<1> QED  BY <1>9, <1>11

(* The carried slots are slots of the new list, and none of them fresh:     *)
(* removed marks and baselines go where the rows go.                        *)
LEMMA CarryStaysInside ==
    ASSUME NEW m, IsBijection(m), NEW has, NEW S, S \subseteq 1 .. m.oldLen
    PROVE  /\ Carry(S, m, has) \subseteq 1 .. m.newLen
           /\ Carry(S, m, has) \cap m.fresh = {}
<1>1. CASE DOMAIN m.moved \cup m.vacated = {}
  <2>1. \A i \in 1 .. m.oldLen : i \in Survivors(m) /\ Dest(m, i) = i
    BY <1>1 DEF Survivors, Dest
  <2>2. \A i \in 1 .. m.oldLen : i \in 1 .. m.newLen /\ i \notin m.fresh
    BY <2>1 DEF IsBijection
  <2> QED  BY <1>1, <2>2 DEF Carry
<1>2. CASE DOMAIN m.moved \cup m.vacated # {}
  BY <1>2, MigrationStaysInside DEF Carry
<1> QED  BY <1>1, <1>2

(* A set of slots carried, and the originals.                               *)
LEMMA CarriedSlots ==
    ASSUME NEW m, IsBijection(m), NEW S, NEW v, v = Carry(S, m, S)
    PROVE  SlotsMoved(m, S, v)
<1>0. ASSUME NEW j \in v
      PROVE  \/ \E i \in Survivors(m) : Dest(m, i) = j /\ i \in S
             \/ j \notin 1 .. m.oldLen /\ j \in S
  <2>1. \/ j \in S /\ j \notin DOMAIN m.moved /\ j \notin m.vacated
        \/ \E i \in DOMAIN m.moved : i \in S /\ m.moved[i] = j
    BY DEF Carry, MigrateSet, Landing, Touches
  <2>2. CASE j \in S /\ j \notin DOMAIN m.moved /\ j \notin m.vacated
    <3>1. j \in 1 .. m.oldLen => j \in Survivors(m) /\ Dest(m, j) = j
      BY <2>2 DEF Survivors, Dest
    <3> QED  BY <2>2, <3>1
  <2>3. CASE \E i \in DOMAIN m.moved : i \in S /\ m.moved[i] = j
    BY <2>3 DEF IsBijection, Dest
  <2> QED  BY <2>1, <2>2, <2>3
<1> QED  BY <1>0 DEF SlotsMoved

LEMMA CarriedBaselines ==
    ASSUME RowsInv, NEW m, IsBijection(m), DOMAIN structure.originals = Slots
    PROVE  OriginalsMoved(m, structure.originals, CarriedOriginals(m))
<1> DEFINE o == structure.originals
           o2 == CarriedOriginals(m)
<1>1. ASSUME NEW j \in Slots
      PROVE  \/ \E i \in Survivors(m) : Dest(m, i) = j /\ o2[j] = o[i]
             \/ o2[j] = Absent
             \/ j \notin 1 .. m.oldLen /\ o2[j] = o[j]
  <2>1. ASSUME o2[j] = o[j], j \notin DOMAIN m.moved, j \notin m.vacated
        PROVE  \/ \E i \in Survivors(m) : Dest(m, i) = j /\ o2[j] = o[i]
               \/ j \notin 1 .. m.oldLen /\ o2[j] = o[j]
    <3>1. j \in 1 .. m.oldLen => j \in Survivors(m) /\ Dest(m, j) = j
      BY <2>1 DEF Survivors, Dest
    <3> QED  BY <2>1, <3>1
  <2>2. CASE DOMAIN m.moved \cup m.vacated = {}
    <3>1. o2 = o  BY <2>2 DEF CarriedOriginals
    <3> QED  BY <2>1, <2>2, <3>1
  <2>3. CASE DOMAIN m.moved \cup m.vacated # {}
    <3>1. o2[j] = IF \E i \in DOMAIN m.moved : m.moved[i] = j
                  THEN o[CHOOSE i \in DOMAIN m.moved : m.moved[i] = j]
                  ELSE IF j \in Touches(m) THEN Absent ELSE o[j]
      BY <2>3 DEF CarriedOriginals, MigrateMap
    <3>2. CASE \E i \in DOMAIN m.moved : m.moved[i] = j
      <4> DEFINE i == CHOOSE k \in DOMAIN m.moved : m.moved[k] = j
      <4>1. i \in DOMAIN m.moved /\ m.moved[i] = j  BY <3>2
      <4>2. o2[j] = o[i]  BY <3>1, <3>2
      <4> HIDE DEF i
      <4> QED  BY <4>1, <4>2 DEF IsBijection, Dest
    <3>3. CASE ~(\E i \in DOMAIN m.moved : m.moved[i] = j) /\ j \in Touches(m)
      BY <3>1, <3>3
    <3>4. CASE ~(\E i \in DOMAIN m.moved : m.moved[i] = j) /\ j \notin Touches(m)
      BY <2>1, <3>1, <3>4 DEF Touches
    <3> QED  BY <3>2, <3>3, <3>4
  <2> QED  BY <2>2, <2>3
<1>2. ASSUME NEW i \in Survivors(m), Dest(m, i) \in Slots PROVE o2[Dest(m, i)] = o[i]
  BY <1>2, OriginalsFollow
<1> QED  BY <1>1, <1>2 DEF OriginalsMoved

(* The rows and the tokens move together.                                   *)
LEMMA RowsAndTokens ==
    ASSUME NEW m, IsBijection(m), NEW r, NEW x, NEW r2, r2 = PermuteList(r, m, x),
           NEW t, NEW y, NEW t2, DOMAIN t2 = 1 .. m.newLen,
           \A j \in 1 .. m.newLen :
              \/ j \in m.fresh /\ t2[j] = y
              \/ \E i \in Survivors(m) : Dest(m, i) = j /\ t2[j] = t[i]
    PROVE  Permuted(m, r, t, r2, t2, x, y)
<1>1. DOMAIN r2 = 1 .. m.newLen  BY DEF PermuteList
<1>2. ASSUME NEW j \in 1 .. m.newLen
      PROVE  \/ j \in m.fresh /\ r2[j] = x /\ t2[j] = y
             \/ \E i \in Survivors(m) : Dest(m, i) = j /\ r2[j] = r[i] /\ t2[j] = t[i]
  <2>1. \/ j \in m.fresh /\ r2[j] = x
        \/ \E i \in Survivors(m) : Dest(m, i) = j /\ r2[j] = r[i]
    BY PermutationCarries
  <2>2. j \in m.fresh <=> \A i \in Survivors(m) : Dest(m, i) # j  BY DEF IsBijection
  <2>3. \A i, k \in Survivors(m) : Dest(m, i) = Dest(m, k) => i = k  BY DEF IsBijection
  <2>4. CASE j \in m.fresh  BY <2>1, <2>2, <2>4
  <2>5. CASE j \notin m.fresh
    <3>1. PICK i \in Survivors(m) : Dest(m, i) = j /\ r2[j] = r[i]  BY <2>1, <2>5
    <3>2. PICK k \in Survivors(m) : Dest(m, k) = j /\ t2[j] = t[k]  BY <2>5
    <3>3. i = k  BY <2>3, <3>1, <3>2
    <3> QED  BY <3>1, <3>2, <3>3
  <2> QED  BY <2>4, <2>5
<1> QED  BY <1>1, <1>2 DEF Permuted

(* A typed operation makes of a list one that follows it.                   *)
LEMMA PermutedFollows ==
    ASSUME NEW m, IsBijection(m), NEW r, NEW t, NEW r2, NEW t2, NEW x, NEW y,
           Permuted(m, r, t, r2, t2, x, y), DOMAIN r = 1 .. m.oldLen, DOMAIN t = 1 .. m.oldLen,
           NEW old, x \notin old, y \notin Held(t)
    PROVE  /\ Follows(r, t, r2, t2, old)
           /\ \A i \in Survivors(m) : Dest(m, i) \in DOMAIN r2 /\ r2[Dest(m, i)] = r[i]
<1>1. /\ DOMAIN r2 = 1 .. m.newLen /\ DOMAIN t2 = 1 .. m.newLen
      /\ \A j \in 1 .. m.newLen :
            \/ j \in m.fresh /\ r2[j] = x /\ t2[j] = y
            \/ \E i \in Survivors(m) : Dest(m, i) = j /\ r2[j] = r[i] /\ t2[j] = t[i]
  BY DEF Permuted
<1>2. \A i \in Survivors(m) : i \in 1 .. m.oldLen  BY DEF Survivors
<1>3. Follows(r, t, r2, t2, old)
  BY <1>1, <1>2 DEF Follows, Held
<1>4. ASSUME NEW i \in Survivors(m) PROVE Dest(m, i) \in DOMAIN r2 /\ r2[Dest(m, i)] = r[i]
  <2>1. Dest(m, i) \in 1 .. m.newLen /\ Dest(m, i) \notin m.fresh
        /\ \A k \in Survivors(m) : Dest(m, k) = Dest(m, i) => k = i
    BY DEF IsBijection
  <2> QED  BY <1>1, <2>1
<1> QED  BY <1>3, <1>4

(* A typed operation keeps the line.                                        *)
LEMMA TypedBook ==
    ASSUME HistoryInv, RowsInv, TypeInv, BookInv, RowsInv', TypeInv',
           NEW m, OpRemap(m), NEW s, Len(s) = m.newLen, Typed(m, s)
    PROVE  BookInv'
<1> DEFINE id == structure.identity
           n == Len(items)
           e == Ensure(id, n, nextToken)
           u == Used(id, n)
           r == structure.rows
           r2 == structure'.rows
           id2 == structure'.identity
           w == touchedRows
           lost == touched \cap m.vacated
<1>1. /\ Record(lost) /\ ~floorPending /\ m.newLen <= MaxLen
      /\ UNCHANGED <<defaults, baseRows, touchedRows, lateAnchor, strayBaseline>>
      /\ touched' = Carry(touched, m, touched \cup DOMAIN items) /\ listTouched' = Outlived(lost)
      /\ r2 = PermuteList(r, m, nextRow) /\ id2 = Replayed(id, m, nextToken)
      /\ structure'.originals = CarriedOriginals(m)
      /\ structure'.removed = Carry(structure.removed, m, structure.removed)
      /\ nextToken' = nextToken + Used(id, m.oldLen) + Cardinality(m.fresh)
  BY DEF Typed, Writable
<1>2. SUFFICES ASSUME ~lateAnchor PROVE LiveInv' /\ LineInv'
  <2>1. floorPending' = floorPending  BY <1>1 DEF Record
  <2> QED  BY <1>1, <2>1 DEF BookInv
<1>3. LiveInv /\ LineInv
  BY <1>1, <1>2 DEF BookInv
<1>4. /\ IsBijection(m) /\ m.oldLen = n /\ (m.fresh = {} \/ \E a : m.fresh = {a})
  BY DEF OpRemap
<1>5. /\ Distinct(baseRows) /\ DOMAIN baseRows = DOMAIN defaults /\ Held(baseRows) \subseteq Names
      /\ Distinct(r) /\ DOMAIN r = 1 .. n /\ Held(r) \subseteq Names
      /\ WellIdentity(id, nextToken) /\ nextToken \in Nat /\ nextRow \in Nat
      /\ n \in 0 .. MaxLen /\ n \in Nat /\ n <= MaxLen
  BY WellLive, RowsAssumption
<1>6. /\ e = Ensure(structure.identity, Len(items), nextToken)
      /\ u = Used(structure.identity, Len(items))
  OBVIOUS
<1>7. /\ u \in Nat /\ Cardinality(m.fresh) \in Nat
      /\ id2.tracked /\ DOMAIN id2.tokens = 1 .. m.newLen /\ id2.baseline = e.baseline
      /\ \A j \in 1 .. m.newLen :
            \/ j \in m.fresh /\ id2.tokens[j] = nextToken + u
            \/ \E i \in Survivors(m) : Dest(m, i) = j /\ id2.tokens[j] = e.tokens[i]
  <2>1. OneFresh(m)  BY <1>1, <1>4, <1>5 DEF OneFresh
  <2>2. ReplayedAs(m, Replayed(id, m, nextToken), Ensure(id, m.oldLen, nextToken),
                   Used(id, m.oldLen), nextToken)
    BY <1>4, <1>5, <2>1, ReplayedFacts
  <2>3. Used(id, m.oldLen) \in Nat /\ Cardinality(m.fresh) \in Nat
    BY <1>4, <1>5, <2>1, ReplayedFacts
  <2>4. /\ id2 = Replayed(id, m, nextToken)
        /\ e = Ensure(id, m.oldLen, nextToken) /\ u = Used(id, m.oldLen)
    BY <1>1, <1>4
  <2> HIDE DEF e, u, id2, id
  <2>5. ReplayedAs(m, id2, e, u, nextToken) /\ u \in Nat  BY <2>2, <2>3, <2>4
  <2> QED  BY <2>3, <2>5 DEF ReplayedAs
<1> HIDE DEF e, u, id2, r2
<1>8. /\ Anchoring(id, e, baseRows) /\ e.tracked /\ WellIdentity(e, nextToken + u)
  BY <1>3, <1>6, EnsureAnchors
<1>9. /\ Sound(structure, e, baseRows, defaults, strayBaseline)
      /\ DOMAIN e.tokens = DOMAIN r
  <2>1. nextToken + u \in Nat  BY <1>5, <1>7
  <2> QED  BY <1>3, <1>8, <2>1, AnchoredSound
<1> DEFINE x == nextRow
           y == nextToken + u
<1>10. x \notin Names  BY <1>5 DEF Names
<1>11. y \notin Held(e.tokens) /\ y \notin Held(e.baseline)
  <2>1. y \in Nat /\ y \notin 0 .. (y - 1)  BY <1>5, <1>7
  <2> HIDE DEF y
  <2>2. /\ \A i \in DOMAIN e.tokens : e.tokens[i] \in 0 .. (y - 1)
        /\ \A i \in DOMAIN e.baseline : e.baseline[i] \in 0 .. (y - 1)
    BY <1>8, <2>1, WellLists DEF y
  <2> QED  BY <2>1, <2>2 DEF Held
<1> HIDE DEF x, y, id
<1>12. Permuted(m, r, e.tokens, r2, id2.tokens, x, y)
  BY <1>1, <1>4, <1>7, RowsAndTokens DEF x, y
<1>13. /\ Follows(r, e.tokens, r2, id2.tokens, Names)
       /\ \A i \in Survivors(m) : Dest(m, i) \in DOMAIN r2 /\ r2[Dest(m, i)] = r[i]
  BY <1>4, <1>5, <1>9, <1>10, <1>11, <1>12, PermutedFollows
<1>14. Sound(structure', id2, baseRows, defaults, strayBaseline)
  <2>1. DOMAIN structure.originals = Slots  BY DEF RowsInv, WellFormed
  <2>2. OriginalsMoved(m, structure.originals, structure'.originals)
    BY <1>1, <1>4, <2>1, CarriedBaselines
  <2>3. SlotsMoved(m, structure.removed, structure'.removed)
    BY <1>1, <1>4, CarriedSlots
  <2>4. x \notin Held(baseRows)  BY <1>5, <1>10
  <2>5. Permuted(m, structure.rows, e.tokens, structure'.rows, id2.tokens, x, y)
    BY <1>12 DEF r2
  <2>6. m.oldLen <= MaxLen /\ DOMAIN structure.rows = 1 .. m.oldLen
    BY <1>4, <1>5
  <2> QED  BY <1>1, <1>4, <1>5, <1>7, <1>8, <1>9, <1>11, <2>2, <2>3, <2>4, <2>5, <2>6, SoundPermuted
<1>15. /\ touched = {i \in 1 .. n : r[i] \in w}
       /\ w \subseteq Held(r) \/ listTouched
       /\ w \subseteq Names
  BY <1>3, <1>5 DEF LiveInv, TypeInv, Names
<1>16. /\ DOMAIN r2 = 1 .. m.newLen
       /\ \A j \in 1 .. m.newLen :
             \/ j \in m.fresh /\ r2[j] = x
             \/ \E i \in Survivors(m) : Dest(m, i) = j /\ r2[j] = r[i]
       /\ \A i \in Survivors(m) : i \in 1 .. n /\ i \notin m.vacated
       /\ \A i \in 1 .. n : i \in Survivors(m) \/ i \in m.vacated
  BY <1>4, <1>12 DEF Permuted, Survivors
<1> HIDE DEF r, w
<1>17. touched' = {j \in 1 .. m.newLen : r2[j] \in w}
  <2>1. /\ touched' \subseteq 1 .. m.newLen /\ touched' \cap m.fresh = {}
        /\ \A i \in Survivors(m) : i \in touched <=> Dest(m, i) \in touched'
    <3>1. touched \subseteq 1 .. m.oldLen  BY <1>4, <1>15
    <3>2. touched \subseteq touched \cup DOMAIN items  OBVIOUS
    <3>3. /\ touched' \subseteq 1 .. m.newLen /\ touched' \cap m.fresh = {}
      BY <1>1, <1>4, <3>1, CarryStaysInside
    <3>4. ASSUME NEW i \in Survivors(m) PROVE i \in touched <=> Dest(m, i) \in touched'
      BY <1>1, <1>4, <3>1, <3>2, CarryFollows
    <3> QED  BY <3>3, <3>4
  <2>2. ASSUME NEW j \in touched' PROVE j \in 1 .. m.newLen /\ r2[j] \in w
    <3>1. PICK i \in Survivors(m) : Dest(m, i) = j /\ r2[j] = r[i]  BY <1>16, <2>1
    <3>2. i \in touched  BY <2>1, <3>1
    <3> QED  BY <1>15, <2>1, <3>1, <3>2
  <2>3. ASSUME NEW j \in 1 .. m.newLen, r2[j] \in w PROVE j \in touched'
    <3>1. PICK i \in Survivors(m) : Dest(m, i) = j /\ r2[j] = r[i]
      BY <1>10, <1>15, <1>16, <2>3
    <3>2. i \in touched  BY <1>15, <1>16, <2>3, <3>1
    <3> QED  BY <2>1, <3>1, <3>2
  <2> QED  BY <2>2, <2>3
<1>18. \A i \in 1 .. n : r[i] \in w => r[i] \in Held(r2) \/ i \in lost
  BY <1>13, <1>15, <1>16 DEF Held
<1>19. w \subseteq Held(r2) \/ listTouched'
  <2>1. CASE lost # {} \/ listTouched  BY <1>1, <2>1 DEF Outlived
  <2>2. CASE lost = {} /\ ~listTouched
    <3>1. \A i \in 1 .. n : r[i] \in w => r[i] \in Held(r2)  BY <1>18, <2>2
    <3>2. DOMAIN r = 1 .. n  BY <1>5 DEF r
    <3> QED  BY <1>15, <2>2, <3>1, <3>2 DEF Held
  <2> QED  BY <2>1, <2>2
<1>20. Kept(r, lost, r2, w)
  <2>1. DOMAIN r = 1 .. n  BY <1>5 DEF r
  <2> QED  BY <1>18, <2>1 DEF Kept
<1>21. Recorded(r2, touched', w)  BY <1>16, <1>17 DEF Recorded
<1>22. LiveInv'
  BY <1>1, <1>14, <1>16, <1>17, <1>19 DEF LiveInv, r2, id2, w
<1>23. /\ WellIdentity(e, nextToken') /\ nextToken <= nextToken' /\ lost \subseteq touched
  <2>1. nextToken' = nextToken + u + Cardinality(m.fresh)  BY <1>1, <1>4 DEF u, id
  <2>2. nextToken + u \in Nat /\ nextToken' \in Nat /\ nextToken + u <= nextToken'
        /\ nextToken <= nextToken'
    BY <1>5, <1>7, <2>1
  <2> QED  BY <1>8, <2>2, IdentityLater
<1>24. /\ structure'.identity.tracked <=> e.tracked
       /\ structure'.identity.baseline = e.baseline
       /\ Follows(structure.rows, e.tokens, structure'.rows, structure'.identity.tokens, Names)
       /\ Sound(structure', structure'.identity, baseRows, defaults, strayBaseline')
       /\ Recorded(structure'.rows, touched', touchedRows)
       /\ Kept(structure.rows, lost, structure'.rows, touchedRows)
       /\ Anchoring(structure.identity, e, baseRows)
  BY <1>1, <1>7, <1>8, <1>13, <1>14, <1>20, <1>21 DEF r, r2, id2, w, id
<1> HIDE DEF lost
<1>25. LineInv'
  BY <1>1, <1>3, <1>23, <1>24, PushedLine
<1> QED  BY <1>22, <1>25

-----------------------------------------------------------------------------
(* Undo and redo.                                                           *)

(* The identity an undo restores is the one the line has for the position.  *)
LEMMA PlannedIsPlan ==
    ASSUME NEW x
    PROVE  PlannedIdentity(x) = Plan(x, structure.identity)
BY DEF PlannedIdentity, Plan

(* Undo and redo: the positions that are not gone to.                       *)
LEMMA SteppedPast ==
    ASSUME HistoryInv, RowsInv, TypeInv, LiveInv, LineInv, TypeInv',
           NEW c \in 1 .. Len(positions), c # cursor, StepTo(c),
           structure'.identity.tracked <=> structure.identity.tracked,
           structure'.identity.baseline = structure.identity.baseline,
           ~strayBaseline' => ~strayBaseline
    PROVE  /\ Current' = Current \cup {cursor}
           /\ \A k \in Current' : k # c => Placed(k)'
           /\ c \in Current =>
                SoundPosition(positions[c].structure, structure'.identity, baseRows, defaults,
                              strayBaseline')
           /\ \A k \in OnLine : k # c =>
                 /\ RowsAt'[k] = RowsAt[k]
                 /\ (TokensAt(structure.identity))'[k] = TokensAt(structure.identity)[k]
                 /\ RecordsAt'[k] = RecordsAt[k]
<1> DEFINE id == structure.identity
           id2 == structure'.identity
<1>1. /\ cursor' = c /\ Len(positions') = Len(positions)
      /\ \A k \in 1 .. Len(positions) :
            /\ positions'[k].structure = IF k = cursor THEN structure ELSE positions[k].structure
            /\ positions'[k].records = IF k = cursor THEN touched ELSE positions[k].records
            /\ positions'[k].generation = IF k = cursor THEN generation ELSE positions[k].generation
  BY StepToFacts
<1>2. /\ UNCHANGED <<defaults, generation, baseRows, touchedRows>>
      /\ cursor \in 1 .. Len(positions)
  BY DEF StepTo, HistoryInv
<1>3. Current' = Current \cup {cursor}  BY <1>1, <1>2 DEF Current
<1>4. /\ WellIdentity(id, nextToken') /\ WellIdentity(id2, nextToken') /\ nextToken' \in Nat
      /\ \A k \in 1 .. Len(positions) : k # cursor =>
            WellIdentity(positions[k].structure.identity, nextToken')
  <2>1. /\ \A k \in 1 .. Len(positions') : WellRecorded(positions'[k], nextToken')
        /\ WellKept(structure', nextToken') /\ nextToken' \in Nat
    BY DEF TypeInv, WellRecorded, WellKept, WellIdentity, WellTokens, WellCells, Slots
  <2>2. \A k \in 1 .. Len(positions) : WellIdentity(positions'[k].structure.identity, nextToken')
    BY <1>1, <2>1 DEF WellRecorded, WellKept
  <2> QED  BY <1>1, <1>2, <2>1, <2>2 DEF WellKept
<1>5. (id2.tracked <=> id.tracked) /\ id2.baseline = id.baseline  OBVIOUS
<1>6. Distinct(baseRows) /\ DOMAIN baseRows = DOMAIN defaults  BY WellLive
<1> HIDE DEF id, id2
<1>7. ASSUME NEW k \in Current, k # cursor
      PROVE  SoundPosition(positions[k].structure, id2, baseRows, defaults, strayBaseline')
  <2> DEFINE p == positions[k].structure
  <2>1. SoundPosition(p, id, baseRows, defaults, strayBaseline) /\ WellIdentity(p.identity, nextToken')
    BY <1>4, <1>7 DEF LineInv, Placed, Current, id
  <2>2. Continues(id, id2, baseRows)  BY <1>5 DEF Continues
  <2> HIDE DEF p
  <2>3. SoundPosition(p, id2, baseRows, defaults, strayBaseline')
    BY <1>4, <1>6, <2>1, <2>2, PositionContinues
  <2> QED  BY <2>3 DEF p
<1>8. Plan(id, id2) = id  BY <1>5 DEF Plan
<1>9. ASSUME NEW k \in Current \cup {cursor}, k # c PROVE Placed(k)'
  <2>1. CASE k = cursor
    <3>1. Sound(structure, id, baseRows, defaults, strayBaseline)  BY DEF LiveInv, id
    <3>2. Sound(structure, id, baseRows, defaults, strayBaseline')  BY <3>1, SoundLonger
    <3>3. SoundPosition(structure, id2, baseRows, defaults, strayBaseline')
      BY <1>5, <1>8, <3>2 DEF SoundPosition, id
    <3>4. Recorded(structure.rows, touched, touchedRows)  BY DEF LiveInv, Recorded
    <3>5. positions'[k].structure = structure /\ positions'[k].records = touched
      BY <1>1, <1>2, <2>1
    <3> QED  BY <1>1, <1>2, <1>9, <3>3, <3>4, <3>5 DEF Placed, id2
  <2>2. CASE k # cursor
    <3>1. k \in Current  BY <1>9, <2>2
    <3>2. SoundPosition(positions[k].structure, id2, baseRows, defaults, strayBaseline')
      BY <1>7, <2>2, <3>1
    <3>3. Recorded(positions[k].structure.rows, positions[k].records, touchedRows)
      BY <3>1 DEF LineInv, Placed
    <3>4. positions'[k].structure = positions[k].structure
          /\ positions'[k].records = positions[k].records
      BY <1>1, <2>2, <3>1 DEF Current
    <3> QED  BY <1>1, <1>2, <1>9, <3>2, <3>3, <3>4 DEF Placed, id2
  <2> QED  BY <2>1, <2>2
<1>10. ASSUME NEW k \in OnLine, k # c
       PROVE  /\ RowsAt'[k] = RowsAt[k]
              /\ (TokensAt(structure.identity))'[k] = TokensAt(structure.identity)[k]
              /\ RecordsAt'[k] = RecordsAt[k]
  <2>1. k \in 1 .. Len(positions)  BY <1>2 DEF OnLine, Current
  <2>2. RowsAt'[k] = positions'[k].structure.rows /\ RecordsAt'[k] = positions'[k].records
        /\ (TokensAt(structure.identity))'[k] = Plan(positions'[k].structure.identity, id2).tokens
    BY <1>1, <1>10, <2>1 DEF RowsAt, RecordsAt, TokensAt, id2
  <2>3. CASE k = cursor
    <3>1. positions'[k].structure = structure /\ positions'[k].records = touched
      BY <1>1, <2>1, <2>3
    <3>2. RowsAt[k] = structure.rows /\ RecordsAt[k] = touched
          /\ TokensAt(structure.identity)[k] = id.tokens
      BY <2>1, <2>3 DEF RowsAt, RecordsAt, TokensAt, id
    <3> QED  BY <1>8, <2>2, <3>1, <3>2 DEF id
  <2>4. CASE k # cursor
    <3> DEFINE p == positions[k].structure
    <3>1. positions'[k].structure = p /\ positions'[k].records = positions[k].records
      BY <1>1, <2>1, <2>4
    <3>2. RowsAt[k] = p.rows /\ RecordsAt[k] = positions[k].records
          /\ TokensAt(structure.identity)[k] = Plan(p.identity, id).tokens
      BY <2>1, <2>4 DEF RowsAt, RecordsAt, TokensAt, id
    <3>3. WellIdentity(p.identity, nextToken')  BY <1>4, <2>1, <2>4
    <3> HIDE DEF p
    <3>4. Plan(p.identity, id2) = Plan(p.identity, id)
      BY <1>4, <1>5, <3>3, PlanStays
    <3> QED  BY <2>2, <3>1, <3>2, <3>4
  <2> QED  BY <2>3, <2>4
<1>11. c \in Current => SoundPosition(positions[c].structure, structure'.identity, baseRows,
                                      defaults, strayBaseline')
  BY <1>7 DEF id2
<1> QED  BY <1>3, <1>9, <1>10, <1>11

(* Undo to a position of an earlier generation.                             *)
LEMMA StepBackBook ==
    ASSUME HistoryInv, RowsInv, TypeInv, GenerationsInv, LiveInv, LineInv, TypeInv',
           NEW c \in 1 .. Len(positions), c = cursor - 1 \/ c = cursor + 1, StepTo(c),
           positions[c].generation # generation, ~lateAnchor'
    PROVE  LiveInv' /\ LineInv'
<1> DEFINE id == structure.identity
           s == positions[c].form
           st == InPlace(s)
           m == Between(<<>>, <<>>)
<1>1. /\ Positional(s, st, touched, nextToken)
      /\ listTouched' = Outlived((touched \cap m.vacated) \cup (touched \cap Gone(s)))
      /\ UNCHANGED <<defaults, baseRows, touchedRows, generation>>
  BY DEF StepTo
<1>2. listTouched' = Outlived(touched \cap Gone(s))
  <2>1. m.vacated = {}  BY NothingBetween
  <2> HIDE DEF m, s
  <2> QED  BY <1>1, <2>1 DEF Outlived
<1>3. /\ cursor' = c /\ Len(positions') = Len(positions) /\ cursor \in 1 .. Len(positions)
      /\ cursor \in Int /\ Len(positions) \in Nat
  <2>1. cursor' = c /\ Len(positions') = Len(positions)  BY StepToFacts
  <2>2. cursor \in 1 .. Len(positions) /\ Len(positions) \in 1 .. Capacity  BY DEF HistoryInv
  <2> QED  BY <2>1, <2>2, RowsAssumption
<1>4. c = cursor - 1 /\ \A k \in OnLine : k >= cursor
  <2>1. \A k \in 1 .. Len(positions) : k > cursor => positions[k].generation = generation
    BY DEF GenerationsInv
  <2>2. c = cursor - 1  BY <1>3, <2>1
  <2>3. ASSUME NEW k \in Current PROVE k >= cursor
    <3>1. k \in 1 .. Len(positions) /\ positions[k].generation = generation
      BY DEF Current
    <3>2. positions[c].generation \in Nat /\ positions[c].generation <= generation
          /\ generation \in Nat /\ (k < c => positions[k].generation <= positions[c].generation)
      BY <3>1 DEF GenerationsInv
    <3>3. k # c /\ ~(k < c)  BY <3>1, <3>2
    <3> QED  BY <1>3, <2>2, <3>1, <3>3
  <2> QED  BY <1>3, <2>2, <2>3 DEF OnLine
<1>5. WellList(s)  BY DEF RowsInv, WellPosition
<1>6. /\ WellIdentity(id, nextToken) /\ nextToken \in Nat /\ Anchoring(id, id, baseRows)
      /\ DOMAIN st = {"rows", "identity", "originals", "removed"} /\ st.identity = id
      /\ st.rows = ByPosition(Len(s))
      /\ st.originals = structure.originals /\ st.removed = structure.removed
  <2> HIDE DEF s
  <2> QED  BY WellLive DEF InPlace, RowsInv, WellFormed, Anchoring
<1> HIDE DEF st, s, m
<1>7. /\ LiveInv'
      /\ structure'.identity.tracked <=> id.tracked
      /\ structure'.identity.baseline = id.baseline
      /\ Follows(structure.rows, id.tokens, structure'.rows, structure'.identity.tokens, Names)
      /\ Recorded(structure'.rows, touched', touchedRows)
      /\ ~strayBaseline' => ~strayBaseline
  BY <1>1, <1>2, <1>5, <1>6, PositionalLive
<1>8. c # cursor  BY <1>3, <1>4
<1>9. /\ Current' = Current \cup {cursor}
      /\ \A k \in Current' : k # c => Placed(k)'
      /\ \A k \in OnLine : k # c =>
            /\ RowsAt'[k] = RowsAt[k]
            /\ (TokensAt(structure.identity))'[k] = TokensAt(structure.identity)[k]
            /\ RecordsAt'[k] = RecordsAt[k]
  BY <1>7, <1>8, SteppedPast
<1>10. c \notin OnLine  BY <1>3, <1>4
<1>11. \A k \in Current' : Placed(k)'  BY <1>9, <1>10 DEF OnLine
<1> DEFINE r == RowsAt
           t == TokensAt(structure.identity)
           d == RecordsAt
<1>12. /\ r[cursor] = structure.rows /\ t[cursor] = id.tokens /\ d[cursor] = touched
       /\ RowsAt'[c] = structure'.rows /\ (TokensAt(structure.identity))'[c] = structure'.identity.tokens
       /\ RecordsAt'[c] = touched'
  BY <1>3 DEF RowsAt, TokensAt, RecordsAt
<1>13. LineOK(OnLine, cursor, r, t, d, touchedRows)  BY DEF LineInv
<1>14. \A k \in OnLine : Listed(r[k], t[k], Names)  BY WellLine
<1>15. AllRecorded(r[cursor], d[cursor], touchedRows)
  BY <1>12 DEF LiveInv, AllRecorded
<1>16. Distinct(structure'.rows)
  <2>1. RowsInv'  BY StepToKeeps
  <2> QED  BY <2>1 DEF RowsInv, WellFormed, WellNamed, Distinct
<1>17. OnLine \subseteq Int  BY <1>3 DEF OnLine, Current
<1> HIDE DEF r, t, d, id
<1>18. /\ \A k \in OnLine : RowsAt'[k] = r[k] /\ (TokensAt(structure.identity))'[k] = t[k]
                            /\ RecordsAt'[k] = d[k]
  BY <1>9, <1>10 DEF r, t, d
<1>19. /\ Follows(r[cursor], t[cursor], RowsAt'[c], (TokensAt(structure.identity))'[c], Names)
       /\ Distinct(RowsAt'[c]) /\ Recorded(RowsAt'[c], RecordsAt'[c], touchedRows)
  BY <1>7, <1>12, <1>16
<1>20. OnLine' = OnLine \cup {c} /\ cursor' = c /\ touchedRows' = touchedRows
  BY <1>1, <1>3, <1>9 DEF OnLine
<1>21. LineOK(OnLine', c, RowsAt', (TokensAt(structure.identity))', RecordsAt', touchedRows)
  <2> DEFINE r2 == RowsAt'
             t2 == (TokensAt(structure.identity))'
             d2 == RecordsAt'
             js == OnLine
             ks == OnLine'
             b == c
  <2>1. /\ SameAt(js, r, r2) /\ SameAt(js, t, t2) /\ SameAt(js, d, d2)
        /\ Follows(r[cursor], t[cursor], r2[b], t2[b], Names)
        /\ Distinct(r2[b]) /\ Recorded(r2[b], d2[b], touchedRows)
    BY <1>18, <1>19 DEF SameAt
  <2>2. /\ LineOK(js, cursor, r, t, d, touchedRows) /\ InFront(js, cursor, ks, b)
        /\ \A k \in js : Listed(r[k], t[k], Names)
    BY <1>3, <1>4, <1>13, <1>14, <1>17, <1>20 DEF InFront
  <2> HIDE DEF r2, t2, d2, js, ks, b
  <2>3. LineOK(ks, b, r2, t2, d2, touchedRows)
    BY ONLY <1>15, <2>1, <2>2, LineBack
  <2> QED  BY <2>3 DEF r2, t2, d2, ks, b
<1>22. LineInv'  BY <1>11, <1>20, <1>21 DEF LineInv
<1> QED  BY <1>7, <1>22

(* What an undo makes of the records d of the live rows r, when it puts the *)
(* rows r2 back with records d2: the rows touched have one, and no other.   *)
Restores(r, t, r2, t2) ==
    /\ DOMAIN t = DOMAIN r /\ DOMAIN t2 = DOMAIN r2
    /\ Distinct(t) /\ Distinct(t2)
    /\ Agree(r, t, r2, t2) /\ Apart(r, t, r2, t2)
TouchedOf(d, r, w) == d = {i \in DOMAIN r : r[i] \in w}
Merged(recs, d, d2, m) == recs = MigrateSet(d, m, d) \cup (d2 \cap m.fresh)
RestoredOver(st, st2, gone) ==
    /\ st2.rows = st.rows /\ st2.originals = st.originals
    /\ gone \cap DOMAIN st.rows = {}
    /\ st2.removed = st.removed \cup {i \in gone : st.originals[i] # Absent}

(* The records an undo makes are those of the rows touched that it puts     *)
(* back; a row touched that it takes away has its record in the position it *)
(* leaves.                                                                  *)
LEMMA RecordsRestored ==
    ASSUME NEW T, NEW t \in Seq(T), NEW t2 \in Seq(T), NEW r, NEW r2, Restores(r, t, r2, t2),
           NEW w, NEW d, TouchedOf(d, r, w),
           NEW d2, Recorded(r2, d2, w), Kept(r2, d2, r, w),
           NEW m, m = Between(t, t2), NEW recs, Merged(recs, d, d2, m)
    PROVE  /\ TouchedOf(recs, r2, w)
           /\ \A i \in DOMAIN r : r[i] \in w => r[i] \in Held(r2) \/ i \in d \cap m.vacated
<1>0. /\ DOMAIN t = DOMAIN r /\ DOMAIN t2 = DOMAIN r2
      /\ Distinct(t) /\ Distinct(t2)
      /\ Agree(r, t, r2, t2) /\ Apart(r, t, r2, t2)
      /\ d = {i \in DOMAIN r : r[i] \in w}
      /\ recs = MigrateSet(d, m, d) \cup (d2 \cap m.fresh)
  BY DEF Restores, TouchedOf, Merged
<1>1. DOMAIN r = 1 .. Len(t) /\ DOMAIN r2 = 1 .. Len(t2)  BY <1>0, LenProperties
<1>2. /\ IsBijection(m) /\ m.oldLen = Len(t) /\ m.newLen = Len(t2)
      /\ \A i \in Survivors(m) : t2[Dest(m, i)] = t[i]
      /\ m.vacated = {i \in 1 .. Len(t) : \A j \in 1 .. Len(t2) : t2[j] # t[i]}
      /\ m.fresh = {j \in 1 .. Len(t2) : \A i \in 1 .. Len(t) : t2[j] # t[i]}
  <2> DEFINE n == Between(t, t2)
  <2>1. /\ IsBijection(n) /\ n.oldLen = Len(t) /\ n.newLen = Len(t2)
        /\ \A i \in Survivors(n) : t2[Dest(n, i)] = t[i]
        /\ n.vacated = {i \in 1 .. Len(t) : \A j \in 1 .. Len(t2) : t2[j] # t[i]}
        /\ n.fresh = {j \in 1 .. Len(t2) : \A i \in 1 .. Len(t) : t2[j] # t[i]}
    <3>1. Distinct(t) /\ Distinct(t2)  BY <1>0
    <3> QED  BY <3>1, BetweenIsBijection
  <2>2. m = n  OBVIOUS
  <2> HIDE DEF n
  <2> QED  BY <2>1, <2>2
<1>3. \A i \in Survivors(m) : /\ i \in DOMAIN r /\ Dest(m, i) \in DOMAIN r2
                              /\ r2[Dest(m, i)] = r[i]
  <2>1. \A i \in Survivors(m) : i \in DOMAIN t /\ Dest(m, i) \in DOMAIN t2
    BY <1>0, <1>1, <1>2 DEF Survivors, IsBijection
  <2> QED  BY <1>0, <1>2, <2>1 DEF Apart
<1>4. \A j \in m.fresh : j \in DOMAIN r2 /\ r2[j] \notin Held(r)
  BY <1>0, <1>1, <1>2 DEF Agree, Held
<1>5. \A j \in DOMAIN r2 : j \in m.fresh \/ \E i \in Survivors(m) : Dest(m, i) = j
  BY <1>1, <1>2 DEF IsBijection
<1> DEFINE M == MigrateSet(d, m, d)
<1>6. /\ M \subseteq 1 .. m.newLen /\ M \cap m.fresh = {}
      /\ \A i \in Survivors(m) : i \in d <=> Dest(m, i) \in M
  <2>1. d \subseteq 1 .. m.oldLen  BY <1>0, <1>1, <1>2
  <2> QED  BY <1>0, <1>2, <2>1, MigrationStaysInside, MigrationCarries
<1>7. recs = M \cup (d2 \cap m.fresh)  BY <1>0
<1> HIDE DEF M
<1>8. ASSUME NEW j \in recs PROVE j \in DOMAIN r2 /\ r2[j] \in w
  <2>1. CASE j \in M
    <3>1. j \in DOMAIN r2 /\ j \notin m.fresh  BY <1>1, <1>2, <1>6, <2>1
    <3>2. PICK i \in Survivors(m) : Dest(m, i) = j  BY <1>5, <3>1
    <3> QED  BY <1>0, <1>3, <1>6, <2>1, <3>1, <3>2
  <2>2. CASE j \in d2 \cap m.fresh  BY <2>2 DEF Recorded
  <2> QED  BY <1>7, <2>1, <2>2
<1>9. ASSUME NEW j \in DOMAIN r2, r2[j] \in w PROVE j \in recs
  <2>1. CASE j \in m.fresh  BY <1>4, <1>7, <1>9, <2>1 DEF Kept
  <2>2. CASE j \notin m.fresh
    <3>1. PICK i \in Survivors(m) : Dest(m, i) = j  BY <1>5, <2>2
    <3>2. i \in d  BY <1>0, <1>3, <1>9, <3>1
    <3> QED  BY <1>6, <1>7, <3>1, <3>2
  <2> QED  BY <2>1, <2>2
<1>10. ASSUME NEW i \in DOMAIN r, r[i] \in w PROVE r[i] \in Held(r2) \/ i \in d \cap m.vacated
  <2>1. i \in d  BY <1>0, <1>10
  <2>2. CASE i \in Survivors(m)  BY <1>3, <2>2 DEF Held
  <2>3. CASE i \notin Survivors(m)  BY <1>1, <1>2, <2>1, <2>3 DEF Survivors
  <2> QED  BY <2>2, <2>3
<1> QED  BY <1>8, <1>9, <1>10 DEF TouchedOf

(* A restored list has what the position has.                               *)
LEMMA SoundRestored ==
    ASSUME NEW st, NEW id, NEW b, NEW d, NEW stray, Sound(st, id, b, d, stray),
           NEW st2, NEW gone, RestoredOver(st, st2, gone),
           NEW stray2, ~stray2 => ~stray
    PROVE  Sound(st2, id, b, d, stray2)
<1>1. Whole(st.rows, st.originals, st.removed, b)  BY DEF Sound
<1>2. Whole(st2.rows, st2.originals, st2.removed, b)  BY <1>1 DEF Whole, RestoredOver
<1> QED  BY <1>2 DEF Sound, RestoredOver

Stepped(snap, p, q, m, recs) ==
    /\ structure'.identity = q
    /\ RestoredOver(p, structure', Gone(snap.form))
    /\ touched' = recs \ Gone(snap.form)
    /\ listTouched' = Outlived((touched \cap m.vacated) \cup (recs \cap Gone(snap.form)))
    /\ ~strayBaseline' => ~strayBaseline
    /\ DOMAIN p.rows = 1 .. Len(snap.form)
    /\ ~q.tracked => p.rows = structure.rows /\ Len(snap.form) = Len(items)

(* Undo and redo within a generation put the rows of the position back.     *)
LEMMA SteppedStructure ==
    ASSUME HistoryInv, RowsInv, TypeInv, LiveInv, LineInv,
           NEW c \in 1 .. Len(positions), c # cursor, StepTo(c),
           positions[c].generation = generation,
           NEW snap, snap = positions[c], NEW p, p = snap.structure,
           NEW q, q = Plan(p.identity, structure.identity),
           NEW m, m = PlannedRemap(p.identity), NEW recs, recs = RestoredRecords(snap, m)
    PROVE  Stepped(snap, p, q, m, recs)
<1> DEFINE s == snap.form
           st == RestoredStructure(snap)
           n == Len(s)
<1>1. /\ Positional(s, st, recs, nextToken)
      /\ listTouched' = Outlived((touched \cap m.vacated) \cup (recs \cap Gone(s)))
  <2> DEFINE a == positions[c]
             m1 == PlannedRemap(a.structure.identity)
             r1 == RestoredRecords(a, m1)
  <2>1. /\ Positional(a.form, RestoredStructure(a), r1, nextToken)
        /\ listTouched' = Outlived((touched \cap m1.vacated) \cup (r1 \cap Gone(a.form)))
    BY DEF StepTo
  <2>2. a = snap /\ m1 = m /\ r1 = recs  OBVIOUS
  <2> HIDE DEF a, m1, r1
  <2> QED  BY <2>1, <2>2
<1>2. /\ SoundPosition(p, structure.identity, baseRows, defaults, strayBaseline)
      /\ WellPosition(snap, nextRow) /\ WellIdentity(p.identity, nextToken)
      /\ WellIdentity(structure.identity, nextToken) /\ nextToken \in Nat
  <2>1. c \in Current  BY DEF Current
  <2>2. SoundPosition(positions[c].structure, structure.identity, baseRows, defaults, strayBaseline)
    BY <2>1 DEF LineInv, Placed
  <2>3. WellPosition(positions[c], nextRow)  BY DEF RowsInv
  <2>4. WellIdentity(positions[c].structure.identity, nextToken)  BY WellPlaced
  <2> QED  BY <2>2, <2>3, <2>4, WellLive
<1>3. /\ n \in Nat /\ WellList(s) /\ DOMAIN p.rows = 1 .. n
      /\ DOMAIN p = {"rows", "identity", "originals", "removed"}
  BY <1>2, RowsAssumption DEF WellPosition, WellFormed, WellNamed, WellList
<1>4. WellIdentity(q, nextToken)  BY <1>2, PlanFacts
<1>5. Sound(p, q, baseRows, defaults, strayBaseline) /\ (q.tracked <=> structure.identity.tracked)
  BY <1>2 DEF SoundPosition
<1>6. ~q.tracked => p.rows = structure.rows /\ n = Len(items)
  <2> SUFFICES ASSUME ~q.tracked PROVE p.rows = structure.rows /\ n = Len(items)  OBVIOUS
  <2>1. p.rows = baseRows  BY <1>5 DEF Sound
  <2>2. structure.rows = baseRows  BY <1>5 DEF LiveInv, Sound
  <2>3. DOMAIN structure.rows = 1 .. Len(items) /\ Len(items) \in Nat  BY WellLive
  <2> HIDE DEF n
  <2>4. 1 .. n = 1 .. Len(items)  BY <1>3, <2>1, <2>2, <2>3
  <2> QED  BY <1>3, <2>1, <2>2, <2>3, <2>4
<1>7. /\ st.rows = p.rows /\ st.originals = p.originals /\ st.removed = p.removed
      /\ st.identity = q /\ DOMAIN st = DOMAIN p
  <2>1. PlannedIdentity(p.identity) = q  BY PlannedIsPlan
  <2>2. st = [p EXCEPT !.identity = q, !.rows = IF q.tracked THEN p.rows ELSE ByPosition(n)]
    BY <2>1 DEF RestoredStructure
  <2>3. n = Len(items) => ByPosition(n) = structure.rows
    <3> HIDE DEF n
    <3> QED  BY <1>3, ByPositionFacts
  <2> HIDE DEF st, n
  <2> QED  BY <1>3, <1>6, <2>2, <2>3
<1> HIDE DEF st, s
<1>8. /\ structure' =
           [st EXCEPT !.removed = @ \cup {i \in Gone(s) : st.originals[i] # Absent},
                      !.identity = IF n # Len(items) THEN Realigned(@, n, nextToken) ELSE @]
      /\ touched' = recs \ Gone(s)
      /\ ~strayBaseline' => ~strayBaseline
  BY <1>1 DEF Positional
<1>9. Realigned(q, n, nextToken) = q
  <2>1. CASE ~q.tracked  BY <2>1 DEF Realigned
  <2>2. CASE q.tracked
    <3>1. DOMAIN q.tokens = 1 .. n  BY <1>3, <1>5, <2>2 DEF Sound
    <3>2. DOMAIN q.tokens = 1 .. Len(q.tokens) /\ Len(q.tokens) \in 0 .. MaxLen
      BY <1>2, <1>4, WellLists
    <3>3. Len(q.tokens) = n
      <4> HIDE DEF n
      <4> QED  BY <1>3, <3>1, <3>2, RowsAssumption
    <3>4. Ensure(q, n, nextToken) = q
      <4> HIDE DEF n
      <4>1. Ensure(q, Len(q.tokens), nextToken) = q  BY <1>2, <1>4, <2>2, EnsureSame
      <4> QED  BY <3>3, <4>1
    <3> QED  BY <2>2, <3>4 DEF Realigned
  <2> QED  BY <2>1, <2>2
<1>10. /\ structure'.rows = p.rows /\ structure'.originals = p.originals
       /\ structure'.identity = q
       /\ structure'.removed = p.removed \cup {i \in Gone(s) : p.originals[i] # Absent}
  <2> HIDE DEF n
  <2> QED  BY <1>3, <1>7, <1>8, <1>9
<1>11. Gone(s) \cap DOMAIN p.rows = {}
  <2>1. Gone(s) = (n + 1) .. Len(items) /\ Len(items) \in Nat
    BY RowsAssumption DEF Gone, RowsInv, WellList
  <2> HIDE DEF n
  <2> QED  BY <1>3, <2>1
<1>12. RestoredOver(p, structure', Gone(s))  BY <1>10, <1>11 DEF RestoredOver
<1> QED  BY <1>1, <1>3, <1>6, <1>8, <1>10, <1>12 DEF s, Stepped

(* An undo or redo within a generation, to the next position: the list, its *)
(* tokens, its records and its baselines are those of the position.         *)
LEMMA RestoredLive ==
    ASSUME HistoryInv, RowsInv, TypeInv, LiveInv, LineInv,
           NEW c \in 1 .. Len(positions), c = cursor - 1 \/ c = cursor + 1, StepTo(c),
           positions[c].generation = generation,
           NEW p, p = positions[c].structure,
           NEW q, q = Plan(p.identity, structure.identity)
    PROVE  /\ structure'.rows = p.rows /\ structure'.identity = q
           /\ ~strayBaseline' => ~strayBaseline
           /\ LiveInv'
<1> DEFINE snap == positions[c]
           m == PlannedRemap(p.identity)
           recs == RestoredRecords(snap, m)
           s == snap.form
           w == touchedRows
           d2 == snap.records
           r == structure.rows
           r2 == p.rows
           id == structure.identity
<1>0. /\ cursor \in 1 .. Len(positions) /\ cursor \in Int /\ c # cursor /\ c \in Current
      /\ c \in OnLine /\ cursor \in OnLine
  <2>1. cursor \in 1 .. Len(positions) /\ Len(positions) \in 1 .. Capacity  BY DEF HistoryInv
  <2>2. cursor \in Int /\ c # cursor  BY <2>1, RowsAssumption
  <2> QED  BY <2>1, <2>2 DEF Current, OnLine
<1>1. /\ structure'.identity = q
      /\ RestoredOver(p, structure', Gone(s)) /\ structure'.rows = p.rows
      /\ touched' = recs \ Gone(s)
      /\ listTouched' = Outlived((touched \cap m.vacated) \cup (recs \cap Gone(s)))
      /\ ~strayBaseline' => ~strayBaseline
      /\ DOMAIN p.rows = 1 .. Len(s)
      /\ ~q.tracked => p.rows = structure.rows /\ Len(s) = Len(items)
  <2>1. p = snap.structure /\ snap = positions[c] /\ m = PlannedRemap(p.identity)
        /\ recs = RestoredRecords(snap, m)
    OBVIOUS
  <2>2. positions[c].generation = generation /\ q = Plan(p.identity, structure.identity)
        /\ s = snap.form
    OBVIOUS
  <2> HIDE DEF snap, m, recs, s
  <2>3. /\ HistoryInv /\ RowsInv /\ TypeInv /\ LiveInv /\ LineInv /\ StepTo(c)
        /\ c # cursor /\ c \in 1 .. Len(positions)
    BY <1>0
  <2>4. Stepped(snap, p, q, m, recs)
    BY ONLY <2>1, <2>2, <2>3, SteppedStructure
  <2> QED  BY <2>2, <2>4 DEF Stepped, RestoredOver
<1>2. UNCHANGED <<defaults, baseRows, touchedRows>>  BY DEF StepTo
<1>3. /\ SoundPosition(p, id, baseRows, defaults, strayBaseline)
      /\ Recorded(r2, d2, w)
  BY <1>0 DEF LineInv, Placed
<1>4. /\ q.tracked <=> id.tracked
      /\ q.baseline = id.baseline
      /\ Sound(p, q, baseRows, defaults, strayBaseline)
  BY <1>3 DEF SoundPosition
<1>5. /\ WellIdentity(id, nextToken) /\ WellIdentity(q, nextToken) /\ nextToken \in Nat
      /\ Len(s) \in Nat /\ Len(items) \in Nat /\ DOMAIN r = 1 .. Len(items)
  <2>1. WellIdentity(p.identity, nextToken)  BY WellPlaced
  <2>2. WellIdentity(id, nextToken) /\ nextToken \in Nat
        /\ Len(items) \in Nat /\ DOMAIN r = 1 .. Len(items)
    BY WellLive
  <2>3. WellIdentity(q, nextToken)  BY <2>1, <2>2, PlanFacts
  <2>4. Len(s) \in Nat  BY RowsAssumption DEF RowsInv, WellPosition, WellList
  <2> QED  BY <2>2, <2>3, <2>4
<1>6. /\ TouchedOf(touched, r, w)
      /\ w \subseteq Held(r) \/ listTouched
  BY DEF LiveInv, TouchedOf
<1>7. /\ Agree(r, id.tokens, r2, q.tokens) /\ Apart(r, id.tokens, r2, q.tokens)
      /\ Kept(r2, d2, r, w)
  <2> DEFINE R == RowsAt
             T == TokensAt(structure.identity)
             D == RecordsAt
  <2>1. /\ R[cursor] = r /\ T[cursor] = id.tokens
        /\ R[c] = r2 /\ T[c] = q.tokens /\ D[c] = d2
    BY <1>0 DEF RowsAt, TokensAt, RecordsAt
  <2>2. LineOK(OnLine, cursor, R, T, D, w)  BY DEF LineInv
  <2> HIDE DEF R, T, D, r, r2, d2, id, w
  <2>3. Agree(R[cursor], T[cursor], R[c], T[c])  BY <1>0, <2>2 DEF LineOK
  <2>4. c = cursor + 1 \/ cursor = c + 1  BY <1>0
  <2>5. Apart(R[cursor], T[cursor], R[c], T[c])
    <3>1. \A k, l \in OnLine : l = k + 1 => Apart(R[k], T[k], R[l], T[l])  BY <2>2 DEF LineOK
    <3>2. CASE c = cursor + 1  BY <1>0, <3>1, <3>2
    <3>3. CASE cursor = c + 1
      <4>1. Apart(R[c], T[c], R[cursor], T[cursor])  BY <1>0, <3>1, <3>3
      <4> QED  BY <4>1 DEF Apart
    <3> QED  BY <2>4, <3>2, <3>3
  <2>6. Kept(R[c], D[c], R[cursor], w)
    <3>1. /\ \A k, l \in OnLine : l = k + 1 /\ k < cursor => Kept(R[k], D[k], R[l], w)
          /\ \A k, l \in OnLine : l = k + 1 /\ l > cursor => Kept(R[l], D[l], R[k], w)
      BY <2>2 DEF LineOK
    <3>2. CASE c = cursor + 1
      <4>1. c > cursor  BY <1>0, <3>2
      <4> QED  BY <1>0, <3>1, <3>2, <4>1
    <3>3. CASE cursor = c + 1
      <4>1. c < cursor  BY <1>0, <3>3
      <4> QED  BY <1>0, <3>1, <3>3, <4>1
    <3> QED  BY <2>4, <3>2, <3>3
  <2> QED  BY <2>1, <2>3, <2>5, <2>6
<1>8. /\ TouchedOf(recs, r2, w)
      /\ \A i \in DOMAIN r : r[i] \in w => r[i] \in Held(r2) \/ i \in touched \cap m.vacated
  <2>1. Merged(recs, touched, d2, m)  BY DEF RestoredRecords, Merged
  <2>2. m = IF id.tracked THEN Between(id.tokens, q.tokens) ELSE Between(<<>>, <<>>)
    BY PlannedIsPlan DEF PlannedRemap
  <2>3. CASE id.tracked
    <3>1. Restores(r, id.tokens, r2, q.tokens)
      BY <1>4, <1>5, <1>7, <2>3 DEF Restores, Sound, LiveInv, WellIdentity, WellTokens
    <3>2. id.tokens \in Seq(0 .. (nextToken - 1)) /\ q.tokens \in Seq(0 .. (nextToken - 1))
      BY <1>5 DEF WellIdentity, WellTokens
    <3>3. m = Between(id.tokens, q.tokens)  BY <2>2, <2>3
    <3> HIDE DEF r, r2, d2, id, w, m, recs
    <3> QED  BY <1>3, <1>6, <1>7, <2>1, <3>1, <3>2, <3>3, RecordsRestored
  <2>4. CASE ~id.tracked
    <3>1. r2 = r  BY <1>1, <1>4, <2>4
    <3>2. MigrateSet(touched, Between(<<>>, <<>>), touched) = touched
          /\ Between(<<>>, <<>>).fresh = {}
      BY NothingBetween
    <3>3. m = Between(<<>>, <<>>)  BY <2>2, <2>4
    <3> HIDE DEF m, recs, r, r2, d2, w
    <3>4. recs = touched  BY <2>1, <3>2, <3>3 DEF Merged
    <3> QED  BY <1>6, <3>1, <3>4 DEF Held, TouchedOf
  <2> QED  BY <2>3, <2>4
<1>9. recs \cap Gone(s) = {} /\ Gone(s) \cap DOMAIN r2 = {}
  <2>1. Gone(s) = (Len(s) + 1) .. Len(items)  BY DEF Gone
  <2>2. Gone(s) \cap 1 .. Len(s) = {}
    <3> HIDE DEF s
    <3> QED  BY <1>5, <2>1
  <2>3. recs \subseteq 1 .. Len(s)  BY <1>1, <1>8 DEF TouchedOf
  <2> QED  BY <1>1, <2>2, <2>3
<1>10. touched' = {j \in DOMAIN r2 : r2[j] \in w}
  <2> HIDE DEF recs, r2, w, s
  <2> QED  BY <1>1, <1>8, <1>9 DEF TouchedOf
<1>11. w \subseteq Held(r2) \/ listTouched'
  <2> HIDE DEF recs, r, r2, w, s, m
  <2>1. listTouched' = Outlived(touched \cap m.vacated)  BY <1>1, <1>9
  <2>2. CASE touched \cap m.vacated # {} \/ listTouched  BY <2>1, <2>2 DEF Outlived
  <2>3. CASE touched \cap m.vacated = {} /\ ~listTouched
    BY <1>6, <1>8, <2>3 DEF Held
  <2> QED  BY <2>2, <2>3
<1>12. Sound(structure', q, baseRows, defaults, strayBaseline')
  <2> HIDE DEF s
  <2> QED  BY <1>1, <1>4, SoundRestored
<1>13. LiveInv'
  BY <1>1, <1>2, <1>10, <1>11, <1>12 DEF LiveInv
<1> QED  BY <1>1, <1>13

(* Such an undo or redo keeps the line.                                     *)
LEMMA StepWithinBook ==
    ASSUME HistoryInv, RowsInv, TypeInv, LiveInv, LineInv, TypeInv',
           NEW c \in 1 .. Len(positions), c = cursor - 1 \/ c = cursor + 1, StepTo(c),
           positions[c].generation = generation
    PROVE  LiveInv' /\ LineInv'
<1> DEFINE id == structure.identity
           p == positions[c].structure
           q == Plan(p.identity, id)
<1>1. /\ structure'.rows = p.rows /\ structure'.identity = q
      /\ ~strayBaseline' => ~strayBaseline
      /\ LiveInv'
  BY RestoredLive
<1>2. /\ cursor \in 1 .. Len(positions) /\ cursor \in Int /\ c # cursor /\ c \in Current
      /\ c \in OnLine /\ cursor \in OnLine /\ OnLine \subseteq Int
  <2>1. cursor \in 1 .. Len(positions) /\ Len(positions) \in 1 .. Capacity  BY DEF HistoryInv
  <2>2. cursor \in Int /\ c # cursor  BY <2>1, RowsAssumption
  <2> QED  BY <2>1, <2>2 DEF Current, OnLine
<1>3. /\ SoundPosition(p, id, baseRows, defaults, strayBaseline)
      /\ Recorded(p.rows, positions[c].records, touchedRows)
  BY <1>2 DEF LineInv, Placed
<1>4. /\ structure'.identity.tracked <=> id.tracked
      /\ structure'.identity.baseline = id.baseline
  BY <1>1, <1>3 DEF SoundPosition
<1>5. /\ Current' = Current \cup {cursor}
      /\ \A k \in Current' : k # c => Placed(k)'
      /\ SoundPosition(p, structure'.identity, baseRows, defaults, strayBaseline')
      /\ \A k \in OnLine : k # c =>
            /\ RowsAt'[k] = RowsAt[k]
            /\ (TokensAt(structure.identity))'[k] = TokensAt(structure.identity)[k]
            /\ RecordsAt'[k] = RecordsAt[k]
  BY <1>1, <1>2, <1>4, SteppedPast
<1>6. /\ cursor' = c /\ Len(positions') = Len(positions)
      /\ positions'[c].structure = p /\ positions'[c].records = positions[c].records
  BY <1>2, StepToFacts
<1>7. UNCHANGED <<defaults, baseRows, touchedRows>>  BY DEF StepTo
<1>8. /\ WellIdentity(p.identity, nextToken) /\ WellIdentity(id, nextToken) /\ nextToken \in Nat
      /\ WellIdentity(q, nextToken)
  <2>1. WellIdentity(p.identity, nextToken)  BY WellPlaced
  <2>2. WellIdentity(id, nextToken) /\ nextToken \in Nat  BY WellLive
  <2> QED  BY <2>1, <2>2, PlanFacts
<1>9. Plan(p.identity, q) = q
  <2> DEFINE x == p.identity
  <2>1. /\ WellIdentity(x, nextToken) /\ q = Plan(x, id)
        /\ (q.tracked <=> id.tracked) /\ q.baseline = id.baseline
    BY <1>1, <1>4, <1>8
  <2> HIDE DEF x, q, id
  <2>2. Plan(x, q) = Plan(x, id)  BY <1>8, <2>1, PlanStays
  <2> QED  BY <2>1, <2>2 DEF x
<1> HIDE DEF p, q, id
<1>10. Placed(c)'
  <2>1. Plan(p.identity, structure'.identity).tokens = structure'.identity.tokens
    BY <1>1, <1>9
  <2> QED  BY <1>1, <1>3, <1>5, <1>6, <1>7, <2>1 DEF Placed
<1>11. \A k \in Current' : Placed(k)'  BY <1>5, <1>10
<1>12. OnLine' = OnLine  BY <1>2, <1>5, <1>6 DEF OnLine
<1> DEFINE R == RowsAt
           T == TokensAt(structure.identity)
           D == RecordsAt
           R2 == RowsAt'
           T2 == (TokensAt(structure.identity))'
           D2 == RecordsAt'
<1>13. /\ R[cursor] = structure.rows /\ D[cursor] = touched
       /\ R[c] = p.rows /\ T[c] = q.tokens
       /\ R2[c] = structure'.rows /\ T2[c] = structure'.identity.tokens /\ D2[c] = touched'
  BY <1>2, <1>6 DEF RowsAt, TokensAt, RecordsAt, p, q, id
<1>14. /\ LineOK(OnLine, cursor, R, T, D, touchedRows)
       /\ AllRecorded(R[cursor], D[cursor], touchedRows)
       /\ Recorded(R2[c], D2[c], touchedRows)
  <2>1. AllRecorded(structure.rows, touched, touchedRows)  BY DEF LiveInv, AllRecorded
  <2>2. Recorded(structure'.rows, touched', touchedRows)
    BY <1>1, <1>7 DEF LiveInv, Recorded
  <2> QED  BY <1>13, <2>1, <2>2 DEF LineInv
<1>15. /\ SameAt(OnLine, R, R2) /\ SameAt(OnLine, T, T2) /\ SameAt(OnLine \ {c}, D, D2)
       /\ Beside(OnLine, cursor, c)
  BY <1>1, <1>2, <1>5, <1>13 DEF SameAt, Beside
<1> HIDE DEF R, T, D, R2, T2, D2
<1>16. LineOK(OnLine, c, R2, T2, D2, touchedRows)
  BY <1>14, <1>15, LineStepped
<1>17. LineInv'
  BY <1>6, <1>7, <1>11, <1>12, <1>16 DEF LineInv, R2, T2, D2
<1> QED  BY <1>1, <1>17

-----------------------------------------------------------------------------
(* The inductive invariant, and what it says of the properties.             *)

(* Every undo and redo keeps the line.                                      *)
LEMMA StepToBook ==
    ASSUME HistoryInv, RowsInv, TypeInv, GenerationsInv, BookInv,
           NEW c \in 1 .. Len(positions), c = cursor - 1 \/ c = cursor + 1, StepTo(c)
    PROVE  BookInv'
<1>1. ~floorPending /\ floorPending' = FALSE  BY StepToFacts
<1>2. lateAnchor => lateAnchor'  BY DEF StepTo, Positional
<1>3. TypeInv'  BY StepToTyped
<1>4. SUFFICES ASSUME ~lateAnchor' PROVE LiveInv' /\ LineInv'
  BY <1>1 DEF BookInv
<1>5. LiveInv /\ LineInv  BY <1>1, <1>2, <1>4 DEF BookInv
<1>6. CASE positions[c].generation = generation
  BY <1>3, <1>5, <1>6, StepWithinBook
<1>7. CASE positions[c].generation # generation
  BY <1>3, <1>4, <1>5, <1>7, StepBackBook
<1> QED  BY <1>6, <1>7

(* Every step keeps the line.                                               *)
LEMMA StepKeepsBook ==
    ASSUME HistoryInv, RowsInv, TypeInv, GenerationsInv, BookInv, [Next]_vars
    PROVE  BookInv'
<1>0. RowsInv' /\ TypeInv'  BY StepKeepsRows, StepKeepsTypes
<1>1. CASE TypedOp
  <2>1. PICK m, s : OpRemap(m) /\ s \in Seq(Values) /\ Len(s) = m.newLen /\ Typed(m, s)
    BY <1>1, TypedOpIsTyped
  <2> QED  BY <1>0, <2>1, TypedBook
<1>2. CASE \E i \in Slots, v \in Values : EditLeaf(i, v)  BY <1>0, <1>2, EditLeafBook
<1>3. CASE \E s \in Lists, anchors \in BOOLEAN : Overwrite(s, anchors)
  BY <1>0, <1>3, OverwriteBook
<1>4. CASE Reset  BY <1>4, ResetBook
<1>5. CASE \E v \in Fetched : Hydrate(v)  BY <1>5, HydrateBook
<1>6. CASE Undo \/ Redo
  <2>1. cursor \in 1 .. Len(positions) /\ Len(positions) \in Nat
    BY RowsAssumption DEF HistoryInv
  <2>2. CASE Undo
    <3>1. cursor - 1 \in 1 .. Len(positions) /\ StepTo(cursor - 1)  BY <2>1, <2>2 DEF Undo
    <3> QED  BY <3>1, StepToBook
  <2>3. CASE Redo
    <3>1. cursor + 1 \in 1 .. Len(positions) /\ StepTo(cursor + 1)  BY <2>1, <2>3 DEF Redo
    <3> QED  BY <3>1, StepToBook
  <2> QED  BY <1>6, <2>2, <2>3
<1>7. CASE FloorClears \/ Clear
  <2>1. floorPending \in BOOLEAN  BY DEF HistoryInv
  <2>2. Reseed /\ floorPending' = FALSE /\ UNCHANGED <<store, generation, ghosts>>
    BY <1>7, <2>1 DEF FloorClears, Clear
  <2> QED  BY <2>2, ReseedBook
<1>8. CASE TokenAt  BY <1>0, <1>8, TokenAtBook
<1>9. CASE \E i \in Slots : Touch(i)  BY <1>9, TouchBook
<1>10. CASE \/ \E i \in Slots : SetErrors(i)
            \/ \E i \in Slots, judged \in BOOLEAN : Answer(i, judged)
            \/ UNCHANGED vars
  <2>1. UNCHANGED <<structure, touched, listTouched, defaults, history, ghosts>>
    BY <1>10 DEF SetErrors, Answer, Quiet, vars, store, ghosts
  <2> QED  BY <2>1, UnreadBook
<1> QED  BY <1>1, <1>2, <1>3, <1>4, <1>5, <1>6, <1>7, <1>8, <1>9, <1>10 DEF Next

(* What the bookkeeping means for the properties.                           *)
LEMMA SoundIsTruthful ==
    ASSUME RowsInv, TypeInv, LiveInv, ~strayBaseline, ~DirtyReading(items, structure)
    PROVE  items = defaults
<1> DEFINE id == structure.identity
           n == Len(items)
<1>1. /\ items \in Seq(Values) /\ defaults \in Seq(Values)
      /\ DOMAIN structure.rows = 1 .. n /\ n \in Nat
      /\ DOMAIN baseRows = DOMAIN defaults /\ DOMAIN defaults = 1 .. Len(defaults)
  BY WellLive, LenProperties DEF RowsInv, WellList
<1>2. /\ \A i \in 1 .. n : structure.originals[i] = items[i]
      /\ id.tokens = id.baseline
  BY DEF DirtyReading
<1>3. Sound(structure, id, baseRows, defaults, FALSE)
  BY DEF LiveInv, Sound
<1>4. \A i \in 1 .. n : items[i] \in Values  BY <1>1, ElementOfSeq
<1>5. DOMAIN defaults = 1 .. n /\ \A i \in 1 .. n : defaults[i] = items[i]
  <2>1. CASE id.tracked
    <3>1. /\ DOMAIN id.tokens = 1 .. n /\ DOMAIN id.baseline = DOMAIN defaults
          /\ Valued(id.tokens, structure.originals, id.baseline, defaults)
      BY <1>1, <1>3, <2>1 DEF Sound
    <3>2. \A i \in 1 .. n : structure.originals[i] \in {Absent, defaults[i]}
      BY <1>2, <3>1 DEF Valued
    <3> QED  BY <1>2, <1>4, <3>1, <3>2, RowsAssumption
  <2>2. CASE ~id.tracked
    <3>1. structure.rows = baseRows /\ Baselined(structure.rows, structure.originals, baseRows, defaults)
      BY <1>3, <2>2 DEF Sound
    <3> QED  BY <1>1, <1>2, <3>1 DEF Baselined
  <2> QED  BY <2>1, <2>2
<1> HIDE DEF n
<1>6. Len(defaults) = Len(items)  BY <1>1, <1>5, LenProperties DEF n
<1> QED  BY <1>1, <1>5, <1>6, SeqEqual DEF n

(* The other way: the values and the rows of the defaults, in their order,  *)
(* read pristine.                                                           *)
LEMMA SoundIsPristine ==
    ASSUME RowsInv, TypeInv, LiveInv, items = defaults, structure.rows = baseRows
    PROVE  ~DirtyReading(items, structure)
<1> DEFINE id == structure.identity
           n == Len(items)
<1>1. /\ DOMAIN structure.rows = 1 .. n /\ n \in Nat /\ DOMAIN defaults = 1 .. n
      /\ WellIdentity(id, nextToken) /\ nextToken \in Nat
  BY WellLive
<1>2. Sound(structure, id, baseRows, defaults, strayBaseline)  BY DEF LiveInv
<1>3. \A i \in 1 .. n : structure.originals[i] = items[i]
  <2>1. Baselined(structure.rows, structure.originals, baseRows, defaults)  BY <1>2 DEF Sound
  <2> QED  BY <1>1, <2>1 DEF Baselined
<1>4. id.tokens = id.baseline
  <2>1. CASE ~id.tracked  BY <1>1, <2>1 DEF WellIdentity, Untracked
  <2>2. CASE id.tracked
    <3>1. DOMAIN id.tokens = 1 .. n /\ DOMAIN id.baseline = 1 .. n  BY <1>1, <1>2, <2>2 DEF Sound
    <3>2. \A i \in 1 .. n : id.tokens[i] = id.baseline[i]
      BY <1>1, <1>2, <3>1 DEF Sound, Agree
    <3>3. id.tokens \in Seq(0 .. (nextToken - 1)) /\ id.baseline \in Seq(0 .. (nextToken - 1))
      BY <1>1 DEF WellIdentity, WellTokens
    <3>4. Len(id.tokens) = n /\ Len(id.baseline) = n  BY <1>1, <3>1, <3>3, LenProperties
    <3> QED  BY <3>2, <3>3, <3>4, SeqEqual
  <2> QED  BY <2>1, <2>2
<1>5. ASSUME NEW i \in structure.removed PROVE ~(i > n)
  <2>1. i \in Slots  BY DEF TypeInv, WellKept
  <2>2. Whole(structure.rows, structure.originals, structure.removed, baseRows)
    BY <1>2 DEF Sound
  <2>3. i \in DOMAIN structure.rows  BY <2>1, <2>2 DEF Whole
  <2> QED  BY <1>1, <2>3
<1> QED  BY <1>3, <1>4, <1>5 DEF DirtyReading

(* What the invariant means for the properties of the run.                  *)
LEMMA BookMeans ==
    ASSUME HistoryInv, RowsInv, TypeInv, BookInv
    PROVE  RecordsFollowRows /\ HistoryIsKept /\ DirtyIsTruthful /\ PristineWhenBack /\ KeysAgree
<1>1. ~lateAnchor => LiveInv  BY DEF BookInv
<1>2. DOMAIN structure.rows = 1 .. Len(items)  BY WellLive
<1>3. RecordsFollowRows /\ HistoryIsKept
  BY <1>1, <1>2 DEF RecordsFollowRows, HistoryIsKept, LiveInv
<1>4. DirtyIsTruthful
  BY <1>1, SoundIsTruthful DEF DirtyIsTruthful, NeverFalselyPristine
<1>5. PristineWhenBack  BY <1>1, SoundIsPristine DEF PristineWhenBack
<1>6. KeysAgree  BY BookKeysAgree
<1> QED  BY <1>3, <1>4, <1>5, <1>6

(* The inductive invariant of the list and its history: each of its parts   *)
(* is kept by every step from a state in which all of them hold.            *)
RowsInvariant == HistoryInv /\ RowsInv /\ TypeInv /\ GenerationsInv /\ BookInv

LEMMA RowsInductive == Spec => []RowsInvariant
<1>1. Init => RowsInvariant
  BY InitImplements, InitRows, InitTypes, InitGenerations, InitBook DEF RowsInvariant
<1>2. RowsInvariant /\ [Next]_vars => RowsInvariant'
  BY StepImplements, StepKeepsRows, StepKeepsTypes, StepKeepsGenerations, StepKeepsBook
  DEF RowsInvariant
<1> QED  BY <1>1, <1>2, PTL DEF Spec

(* The touched records of the list are those of the rows that were touched, *)
(* at the slots where those rows now are, after any sequence of typed       *)
(* operations, whole-list writes, undos and redos (migrateElementState,     *)
(* restoreStructure), of a list that was not resized before it was first    *)
(* tracked: no row inherits the record of another and none loses its own.   *)
THEOREM RecordsGoWithRows == Spec => []RecordsFollowRows
<1>1. RowsInvariant => RecordsFollowRows  BY BookMeans DEF RowsInvariant
<1> QED  BY <1>1, RowsInductive, PTL

(* Once a leaf of a row was touched, the list reads touched even when the   *)
(* row has left it: foldInteractionHistory marks the list when a write or   *)
(* an undo takes the row away, and nothing but a reset forgets it.          *)
THEOREM LostHistoryIsKept == Spec => []HistoryIsKept
<1>1. RowsInvariant => HistoryIsKept  BY BookMeans DEF RowsInvariant
<1> QED  BY <1>1, RowsInductive, PTL

(* The form reads pristine only when its values are its defaults, after any *)
(* sequence of writes, undos and redos; but for the two ways in which the   *)
(* code misses it: a list first tracked after a write has resized it        *)
(* (lateAnchor), and a slot that ensure grows under the key of the baseline *)
(* while its original is that of another row (strayBaseline).               *)
THEOREM NeverPristineByMistake == Spec => []DirtyIsTruthful
<1>1. RowsInvariant => DirtyIsTruthful  BY BookMeans DEF RowsInvariant
<1> QED  BY <1>1, RowsInductive, PTL

(* A list that has the values and the rows of the defaults again, by        *)
(* undoing, moving back or writing, reads pristine: no stale original and   *)
(* no stale removed mark is left behind by the way there.                   *)
THEOREM PristineAgain == Spec => []PristineWhenBack
<1>1. RowsInvariant => PristineWhenBack  BY BookMeans DEF RowsInvariant
<1> QED  BY <1>1, RowsInductive, PTL

(* A row has the key (the token a v-for uses) in the live list that it has  *)
(* at every position an undo or redo can go to: going back and forth        *)
(* through the history never gives the rows new keys, and never gives a row *)
(* the key of another.                                                      *)
THEOREM RowsKeepTheirKeys == Spec => []KeysAgree
<1>1. RowsInvariant => KeysAgree  BY BookMeans DEF RowsInvariant
<1> QED  BY <1>1, RowsInductive, PTL
=============================================================================
