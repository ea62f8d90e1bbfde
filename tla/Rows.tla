-------------------------------- MODULE Rows --------------------------------
(***************************************************************************)
(* One list of a form, the bookkeeping its rows carry, and undo / redo     *)
(* (array-engine.ts, history.ts, the write funnel of create-form-store.ts).*)
(*                                                                         *)
(* A typed operation moves what is known of a row with the row.  A write   *)
(* with no operation to follow keeps it by position.  An undo puts values, *)
(* baselines, row order and errors of an earlier position back, moves the  *)
(* interaction history with the rows and leaves the rest alone.            *)
(*                                                                         *)
(* A row is one leaf, and slot i is the code's index i - 1.  structure.rows*)
(* is not in the code: it names the row at each slot as the application    *)
(* sees them move, so that the properties can say whose each piece is.     *)
(***************************************************************************)
EXTENDS ArrayRemap, FiniteSets

CONSTANTS
    Values,         \* values of a row
    Absent,         \* the absence baseline of a row that appeared later
    InitialRows,    \* the list the form is constructed with
    Lists,          \* lists a whole-list or whole-form write may put there
    Fetched,        \* lists the async defaults may resolve to
    Capacity,       \* max of historyPlugin, at least 1
    MaxLen,         \* bound on the length of the list
    MaxWrites,      \* bound on the writes, resets and hydrations
    MaxMarks,       \* bound on touches, errors set and answers of runs
    MaxSteps        \* bound on undo and redo

ASSUME RowsAssumption ==
    /\ Absent \notin Values
    /\ MaxLen \in Nat \ {0} /\ Capacity \in Nat \ {0}
    /\ MaxWrites \in Nat /\ MaxMarks \in Nat /\ MaxSteps \in Nat
    /\ \A s \in Lists \cup Fetched \cup {InitialRows} :
          s \in Seq(Values) /\ Len(s) <= MaxLen

VARIABLES
    items,          \* the list in form.value
    defaults,       \* the list in defaultValues
    structure,      \* what captureStructure reads: identity, originals,
                    \* removedPaths; and the rows
    touched,        \* slots whose record has its sticky flags set
    listTouched,    \* the list's own record has them
    cells,          \* errorCells: the slots with a user, with a schema error
    running,        \* slots with a leaf run in fieldValidationState
    positions, cursor, generation,      \* the history module
    floorPending,   \* hydration has queued the clear of the history
    nextToken,      \* the counter tokens are allocated from
    nextRow, baseRows, touchedRows,     \* rows named, of the baseline, touched
    lateAnchor,     \* a write resized the list before it was first tracked
    strayBaseline,  \* a grown slot took the baseline's key, not its value
    writes, marks, steps

history == <<positions, cursor, generation, floorPending>>
store == <<items, defaults, structure, touched, listTouched, cells, running>>
ghosts == <<nextRow, baseRows, touchedRows, lateAnchor, strayBaseline>>
bounds == <<writes, marks, steps>>
vars == <<store, history, nextToken, ghosts, bounds>>

Slots == 1 .. MaxLen
Held(s) == {s[i] : i \in DOMAIN s}
Gone(s) == (Len(s) + 1) .. Len(items)   \* slots a replacement by s takes away

-----------------------------------------------------------------------------
(* The identity of the rows: a token per row, in live and baseline order.   *)

Untracked == [tracked |-> FALSE, tokens |-> <<>>, baseline |-> <<>>]

(* ensure: the token list by position at length n, new tokens allocated     *)
(* from t.  A grown slot takes the token the baseline has there unless a    *)
(* row that moved carries it.                                               *)
Anchored(id, j) == j <= Len(id.baseline) /\ id.baseline[j] \notin Held(id.tokens)
Allocated(id, n) == {j \in 1 .. n : j > Len(id.tokens) /\ ~Anchored(id, j)}
Used(id, n) == Cardinality(Allocated(id, n))
Ensure(id, n, t) ==
    LET ids == [j \in 1 .. n |->
                  IF j <= Len(id.tokens) THEN id.tokens[j]
                  ELSE IF Anchored(id, j) THEN id.baseline[j]
                  ELSE t + Cardinality({k \in Allocated(id, n) : k < j})]
    IN [tracked |-> TRUE, tokens |-> ids,
        baseline |-> IF id.tracked THEN id.baseline ELSE ids]

(* realignContaining leaves a list nobody has tracked alone.                *)
Realigned(id, n, t) == IF id.tracked THEN Ensure(id, n, t) ELSE id
RealignUses(id, n) == IF id.tracked THEN Used(id, n) ELSE 0

(* Mutant of Replayed: the op does not permute the tokens.                  *)
ReplayedInPlace(id, m, t) == Ensure(id, m.newLen, t)
(* Mutant of Rebaselined: a reset leaves the baseline order.                *)
NotRebaselined(id) == id

(* applyOp, and rebaseline.                                                 *)
Replayed(id, m, t) ==
    [Ensure(id, m.oldLen, t) EXCEPT
        !.tokens = PermuteList(@, m, t + Used(id, m.oldLen))]
Rebaselined(id) == [id EXCEPT !.baseline = id.tokens]

(* The dirty reading of the list: a present leaf that left its baseline, a  *)
(* baseline value that is gone, or another order than the baseline's.       *)
DirtyReading(s, st) ==
    \/ \E i \in 1 .. Len(s) : st.originals[i] # s[i]
    \/ st.identity.tokens # st.identity.baseline
    \/ \E i \in st.removed : i > Len(s)

Seeded(s) == [i \in Slots |-> IF i <= Len(s) THEN s[i] ELSE Absent]

(* The rows after a write that can only be followed by position.            *)
ByPosition(n) ==
    [i \in 1 .. n |-> IF i <= Len(items) THEN structure.rows[i]
                      ELSE nextRow + i - Len(items) - 1]
Named(n) == nextRow' = nextRow + (IF n > Len(items) THEN n - Len(items) ELSE 0)

-----------------------------------------------------------------------------
(* The history module.                                                      *)

Snapshot(s, st, cs, recs, gen) ==
    [form |-> s, structure |-> st, cells |-> cs, records |-> recs,
     generation |-> gen]
CaptureNext == Snapshot(items', structure', cells', touched', generation)

(* Mutants of Branch and Bounded: the redo branch stays; nothing is evicted.*)
BranchKept(left) == [positions EXCEPT ![cursor].records = @ \cup left]
Unbounded(ps) == ps

(* onFormChange: the redo branch goes, the position before the write gets   *)
(* the records the write released, the oldest falls off the front.          *)
Branch(left) == [SubSeq(positions, 1, cursor) EXCEPT ![cursor].records = @ \cup left]
Bounded(ps) ==
    IF Len(ps) > Capacity THEN SubSeq(ps, Len(ps) - Capacity + 1, Len(ps)) ELSE ps
Pushed(left, snap) == Bounded(Append(Branch(left), snap))

Record(left) ==
    /\ positions' = Pushed(left, CaptureNext)
    /\ cursor' = Len(positions')
    /\ UNCHANGED <<generation, floorPending>>

(* retake of the current position, from the bookkeeping given.              *)
Retaken(ps, at, st, recs, gen) ==
    [ps EXCEPT ![at] = [@ EXCEPT !.structure = st, !.records = recs,
                                 !.generation = gen]]

Reseed == positions' = <<CaptureNext>> /\ cursor' = 1

-----------------------------------------------------------------------------
(* Writes.                                                                  *)

Writable == ~floorPending /\ writes < MaxWrites
Wrote == writes' = writes + 1 /\ UNCHANGED <<marks, steps>>

(* Mutant of Carry: what is keyed by index stays at its index.              *)
CarryNothing(S, m, has) == S \ m.vacated

(* applyStructuralOp: aborts at what goes, relocation, absence baselines    *)
(* for what comes, eviction of the schema verdicts, replay of the tokens.   *)
Carry(S, m, has) ==
    IF DOMAIN m.moved \cup m.vacated = {} THEN S ELSE MigrateSet(S, m, has)
CarriedOriginals(m) ==
    IF DOMAIN m.moved \cup m.vacated = {} THEN structure.originals
    ELSE MigrateMap(structure.originals, m, Absent)

(* Mutant of Outlived: the list forgets the rows it loses.                  *)
ForgetsLost(lost) == listTouched
(* The list's own record takes over the flags of rows that go.              *)
Outlived(lost) == listTouched \/ lost # {}

Typed(m, newItems) ==
    LET lost == touched \cap m.vacated IN
        /\ Writable /\ m.newLen <= MaxLen
        /\ items' = newItems
        /\ running' = Carry(running \ m.vacated, m, running \ m.vacated)
        /\ touched' = Carry(touched, m, touched \cup DOMAIN items)
        /\ listTouched' = Outlived(lost)
        /\ cells' = [user |-> Carry(cells.user, m, cells.user \cup cells.schema),
                     schema |-> cells.schema \ Changed(m)]
        /\ structure' =
             [rows |-> PermuteList(structure.rows, m, nextRow),
              identity |-> Replayed(structure.identity, m, nextToken),
              originals |-> CarriedOriginals(m),
              removed |-> Carry(structure.removed, m, structure.removed)]
        /\ nextToken' = nextToken + Used(structure.identity, m.oldLen)
                                  + Cardinality(m.fresh)
        /\ nextRow' = nextRow + Cardinality(m.fresh)
        /\ UNCHANGED <<defaults, baseRows, touchedRows, lateAnchor, strayBaseline>>
        /\ Record(lost)
        /\ Wrote

(* buildFieldArrayApi: append, prepend and insert; remove; and so on.       *)
Insert(at, v) ==
    /\ at <= Len(items) + 1
    /\ Typed(InsertRemap(at, Len(items)),
             SubSeq(items, 1, at - 1) \o <<v>> \o SubSeq(items, at, Len(items)))
Remove(at) ==
    /\ at <= Len(items)
    /\ Typed(RemoveRemap(at, Len(items)),
             SubSeq(items, 1, at - 1) \o SubSeq(items, at + 1, Len(items)))
Swap(a, b) ==
    /\ a < b /\ b <= Len(items)
    /\ Typed(SwapRemap(a, b, Len(items)),
             [items EXCEPT ![a] = items[b], ![b] = items[a]])
Move(from, to) ==
    LET rest == SubSeq(items, 1, from - 1) \o SubSeq(items, from + 1, Len(items)) IN
        /\ from <= Len(items) /\ to <= Len(items)
        /\ Typed(MoveRemap(from, to, Len(items)),
                 SubSeq(rest, 1, to - 1) \o <<items[from]>>
                    \o SubSeq(rest, to, Len(rest)))
Replace(at, v) ==
    /\ at <= Len(items)
    /\ Typed(ReplaceRemap(at, Len(items)), [items EXCEPT ![at] = v])

(* A write of one leaf, which schedules a run at it.                        *)
EditLeaf(i, v) ==
    /\ Writable /\ i <= Len(items) /\ items[i] # v
    /\ items' = [items EXCEPT ![i] = v]
    /\ running' = running \cup {i}
    /\ UNCHANGED <<defaults, structure, touched, listTouched, cells, nextToken, ghosts>>
    /\ Record({})
    /\ Wrote

(* A slot that ensure grows under the key the baseline has there, while the *)
(* originals at that index are those of a row that has moved.               *)
Strays(s, st) ==
    /\ st.identity.tracked
    /\ \E i \in (Len(st.identity.tokens) + 1) .. Len(s) :
          Anchored(st.identity, i) /\ st.originals[i] \notin {Absent, Seeded(defaults)[i]}

(* commitWritePatches over a replacement of the list by s with no operation *)
(* to follow: what it takes away is released, real baselines there are      *)
(* noted as removed, a tracked list is realigned by position.  st and recs  *)
(* are the bookkeeping it finds, t the next token.                          *)
Positional(s, st, recs, t) ==
    LET resized == Len(s) # Len(items) IN
        /\ items' = s
        /\ running' = running \ Gone(s)
        /\ touched' = recs \ Gone(s)
        /\ structure' =
             [st EXCEPT !.removed = @ \cup {i \in Gone(s) : st.originals[i] # Absent},
                        !.identity = IF resized THEN Realigned(@, Len(s), t) ELSE @]
        /\ nextToken' = t + (IF resized THEN RealignUses(st.identity, Len(s)) ELSE 0)
        /\ lateAnchor' = (lateAnchor \/ (resized /\ ~st.identity.tracked))
        /\ strayBaseline' = (strayBaseline \/ (resized /\ Strays(s, st)))

InPlace(s) == [structure EXCEPT !.rows = ByPosition(Len(s))]

(* setValue of the list, which anchors its baseline before the write may    *)
(* resize it, or of the form around it, which does not.                     *)
Overwrite(s, anchors) ==
    LET id == structure.identity
        lost == touched \cap Gone(s)
    IN  /\ Writable
        /\ Positional(s,
                      [InPlace(s) EXCEPT !.identity =
                          IF anchors THEN Ensure(id, Len(items), nextToken) ELSE id],
                      touched,
                      nextToken + (IF anchors THEN Used(id, Len(items)) ELSE 0))
        /\ listTouched' = Outlived(lost)
        /\ Named(Len(s))
        /\ UNCHANGED <<defaults, cells, baseRows, touchedRows>>
        /\ Record(lost)
        /\ Wrote

(* The bookkeeping once s is the baseline.  kept are the removals that still *)
(* count.                                                                   *)
Rebased(s, kept) ==
    [rows |-> ByPosition(Len(s)),
     identity |-> Rebaselined(Realigned(structure.identity, Len(s), nextToken)),
     originals |-> Seeded(s), removed |-> kept]
Anchors(s, kept) ==
    /\ structure' = Rebased(s, kept)
    /\ nextToken' = nextToken + RealignUses(structure.identity, Len(s))
    /\ Named(Len(s))
    /\ baseRows' = ByPosition(Len(s))
    /\ strayBaseline' = FALSE

(* reset, whose defaults pass the synchronous part of the schema.  History  *)
(* records it in the middle of it, when the errors are still the old ones,  *)
(* and at the end takes the bookkeeping again, under a new generation.      *)
Reset ==
    /\ Writable
    /\ items' = defaults
    /\ Anchors(defaults, {})
    /\ touched' = {} /\ listTouched' = FALSE /\ touchedRows' = {}
    /\ lateAnchor' = FALSE
    /\ cells' = [user |-> {}, schema |-> {}]
    /\ running' = {}
    /\ generation' = generation + 1
    /\ positions' = Pushed(touched \cap Gone(defaults),
                           Snapshot(defaults, structure', cells, {}, generation'))
    /\ cursor' = Len(positions')
    /\ Wrote
    /\ UNCHANGED <<defaults, floorPending>>

(* runFactoryAndApply: the resolved value replaces the list and is adopted  *)
(* as the defaults.  History does not record it: it queues its own clear.   *)
Hydrate(v) ==
    /\ Writable
    /\ items' = v /\ defaults' = v
    /\ Anchors(v, structure.removed \cap (1 .. Len(v)))    \* a baseline is there
    /\ running' = running \ Gone(v)
    /\ touched' = touched \ Gone(v)
    /\ listTouched' = Outlived(touched \cap Gone(v))
    /\ floorPending' = TRUE
    /\ Wrote
    /\ UNCHANGED <<cells, touchedRows, lateAnchor, positions, cursor, generation>>

(* The clear, in a microtask: no code of the application runs before it.   *)
FloorClears ==
    /\ floorPending
    /\ floorPending' = FALSE
    /\ UNCHANGED <<store, generation, nextToken, ghosts, bounds>>
    /\ Reseed

-----------------------------------------------------------------------------
(* Undo and redo.                                                           *)

(* Mutant of PlannedIdentity: the position's own order, tracked or not.     *)
PlannedAsTaken(target) == target

(* planOrders: a list the position did not track takes the order of its     *)
(* live baseline.                                                           *)
PlannedIdentity(target) ==
    LET live == structure.identity IN
        IF ~target.tracked /\ live.tracked
        THEN [live EXCEPT !.tokens = live.baseline]
        ELSE target
PlannedRemap(target) ==
    IF structure.identity.tracked
    THEN Between(structure.identity.tokens, PlannedIdentity(target).tokens)
    ELSE Between(<<>>, <<>>)

(* Mutant of RestoredRecords: flags stay at their slots.                    *)
RestoredInPlace(snap, m) == touched \cup (snap.records \cap m.fresh)

(* restoreStructure: the records move with their rows, a row that returns   *)
(* gets those of the position.                                              *)
RestoredStructure(snap) ==
    [snap.structure EXCEPT
        !.identity = PlannedIdentity(@),
        !.rows = IF PlannedIdentity(snap.structure.identity).tracked THEN @
                 ELSE ByPosition(Len(snap.form))]
RestoredRecords(snap, m) ==
    MigrateSet(touched, m, touched) \cup (snap.records \cap m.fresh)

(* stepTo and restorePosition.  A position of an earlier generation gives   *)
(* its value and its errors alone.  The runs in flight stay where they are. *)
(* The replacement tells its listeners before it returns, and suppressNext  *)
(* keeps history from recording that one event.                             *)
StepTo(c) ==
    LET snap == positions[c]
        same == snap.generation = generation
        m == IF same THEN PlannedRemap(snap.structure.identity) ELSE Between(<<>>, <<>>)
        st == IF same THEN RestoredStructure(snap) ELSE InPlace(snap.form)
        recs == IF same THEN RestoredRecords(snap, m) ELSE touched
    IN  /\ ~floorPending /\ steps < MaxSteps
        /\ steps' = steps + 1
        /\ Positional(snap.form, st, recs, nextToken)
        /\ listTouched' = Outlived((touched \cap m.vacated) \cup (recs \cap Gone(snap.form)))
        /\ Named(Len(snap.form))
        /\ cells' = snap.cells
        /\ positions' = Retaken(positions, cursor, structure, touched, generation)
        /\ cursor' = c
        /\ UNCHANGED <<defaults, generation, floorPending, baseRows, touchedRows,
                       writes, marks>>

Undo == cursor > 1 /\ StepTo(cursor - 1)
Redo == cursor < Len(positions) /\ StepTo(cursor + 1)

(* form.history.clear().                                                    *)
Clear ==
    /\ ~floorPending /\ Len(positions) > 1
    /\ UNCHANGED <<store, generation, floorPending, nextToken, ghosts, bounds>>
    /\ Reseed

-----------------------------------------------------------------------------
(* What writes no value.                                                    *)

Quiet == ~floorPending /\ UNCHANGED <<items, defaults, history, nextRow, baseRows,
                                      lateAnchor, strayBaseline, writes, steps>>
Marked == marks < MaxMarks /\ marks' = marks + 1

(* tokenAt, the read behind a row's key.                                    *)
TokenAt ==
    /\ Quiet
    /\ Len(structure.identity.tokens) # Len(items) \/ ~structure.identity.tracked
    /\ structure' = [structure EXCEPT !.identity = Ensure(@, Len(items), nextToken)]
    /\ nextToken' = nextToken + Used(structure.identity, Len(items))
    /\ UNCHANGED <<touched, listTouched, cells, running, touchedRows, marks>>

(* A blur, or touch().                                                      *)
Touch(i) ==
    /\ Quiet /\ Marked
    /\ i <= Len(items) /\ i \notin touched
    /\ touched' = touched \cup {i}
    /\ touchedRows' = touchedRows \cup {structure.rows[i]}
    /\ UNCHANGED <<structure, listTouched, cells, running, nextToken>>

(* setErrors at a row, with an error and with none.                         *)
SetErrors(i) ==
    /\ Quiet /\ Marked
    /\ i <= Len(items)
    /\ cells' = [cells EXCEPT !.user = IF i \in @ THEN @ \ {i} ELSE @ \cup {i}]
    /\ UNCHANGED <<structure, touched, listTouched, running, touchedRows, nextToken>>

(* The run at slot i ends: it commits a verdict, or the epoch gate drops it.*)
Answer(i, judged) ==
    /\ Quiet /\ Marked
    /\ i \in running
    /\ running' = running \ {i}
    /\ cells' \in {cells, [cells EXCEPT !.schema = IF judged THEN @ \cup {i} ELSE @ \ {i}]}
    /\ UNCHANGED <<structure, touched, listTouched, touchedRows, nextToken>>

-----------------------------------------------------------------------------
Construct(s) ==
    [rows |-> [i \in 1 .. Len(s) |-> i], identity |-> Untracked,
     originals |-> Seeded(s), removed |-> {}]

Init ==
    /\ items = InitialRows /\ defaults = InitialRows
    /\ structure = Construct(InitialRows)
    /\ touched = {} /\ listTouched = FALSE /\ running = {}
    /\ cells = [user |-> {}, schema |-> {}]
    /\ generation = 0 /\ cursor = 1 /\ floorPending = FALSE
    /\ positions = <<Snapshot(items, structure, cells, {}, 0)>>
    /\ nextToken = 0
    /\ nextRow = Len(InitialRows) + 1 /\ baseRows = structure.rows /\ touchedRows = {}
    /\ lateAnchor = FALSE /\ strayBaseline = FALSE
    /\ writes = 0 /\ marks = 0 /\ steps = 0

TypedOp ==
    \/ \E i \in Slots, v \in Values : Insert(i, v) \/ Replace(i, v)
    \/ \E i \in Slots : Remove(i)
    \/ \E i, j \in Slots : Swap(i, j) \/ Move(i, j)

Next ==
    \/ TypedOp
    \/ \E i \in Slots, v \in Values : EditLeaf(i, v)
    \/ \E s \in Lists, anchors \in BOOLEAN : Overwrite(s, anchors)
    \/ Reset \/ FloorClears
    \/ \E v \in Fetched : Hydrate(v)
    \/ Undo \/ Redo \/ Clear \/ TokenAt
    \/ \E i \in Slots : Touch(i) \/ SetErrors(i)
    \/ \E i \in Slots, judged \in BOOLEAN : Answer(i, judged)

Spec == Init /\ [][Next]_vars

-----------------------------------------------------------------------------
TypeOK ==
    /\ Len(items) <= MaxLen /\ \A i \in 1 .. Len(items) : items[i] \in Values
    /\ Len(structure.rows) = Len(items)
    /\ touched \subseteq Slots /\ running \subseteq 1 .. Len(items)
    /\ structure.originals \in [Slots -> Values \cup {Absent}]
    /\ cells.user \subseteq Slots /\ cells.schema \subseteq Slots
    /\ Len(positions) \in 1 .. Capacity /\ cursor \in 1 .. Len(positions)

(* A row's interaction flags are the row's: through the relocation of a     *)
(* typed operation (migrateElementState), the release of a removed row and  *)
(* the merge of undo and redo (restoreStructure) a row is touched exactly   *)
(* when it has been, once the list is tracked before a write resizes it: no *)
(* order is known of a list that was resized first.                         *)
RecordsFollowRows ==
    ~lateAnchor =>
        touched = {i \in 1 .. Len(items) : structure.rows[i] \in touchedRows}

(* And the list keeps reporting the history of rows it lost, however they   *)
(* went: what foldInteractionHistory folds into the list's own record is    *)
(* never forgotten before a reset, under the same exception.                *)
HistoryIsKept ==
    ~lateAnchor => touchedRows \subseteq Held(structure.rows) \/ listTouched

(* A form that differs from its baseline never reads pristine.  It does once*)
(* a list is first tracked after a write has resized it: setValueAtPath      *)
(* anchors the list it is given, and not one inside the value it is given.  *)
(* And it may once rows have moved and the list has shrunk and grown again:  *)
(* ensure gives the grown slots the baseline's keys back, while their        *)
(* originals are still those of the rows that had moved there.              *)
NeverFalselyPristine == items # defaults => DirtyReading(items, structure)
DirtyIsTruthful == ~lateAnchor /\ ~strayBaseline => NeverFalselyPristine

(* The same rows in the same order with the same values read pristine: an   *)
(* operation undone, by undo or by its inverse, leaves no trace in the      *)
(* tokens, the originals and the removed paths that dirty reads.  The same  *)
(* exception.                                                               *)
PristineWhenBack ==
    (~lateAnchor /\ items = defaults /\ structure.rows = baseRows)
        => ~DirtyReading(items, structure)

(* A row has one key, live and in every position undo can return to: the    *)
(* tokens that the plan of a restore (planOrders) puts back are never given *)
(* to two rows, and a row never returns under another one.  The same        *)
(* exception.                                                               *)
KeysAgree ==
    ~lateAnchor =>
    \A c \in 1 .. Len(positions) :
        LET p == positions[c].structure IN
            (positions[c].generation = generation /\ p.identity.tracked
               /\ structure.identity.tracked) =>
            \A i \in DOMAIN p.rows, j \in DOMAIN structure.rows :
                (p.rows[i] = structure.rows[j] /\ j <= Len(structure.identity.tokens))
                    => p.identity.tokens[i] = structure.identity.tokens[j]

(* The values move as a line of positions: a write truncates the redo       *)
(* branch and evicts the oldest past Capacity, undo and redo go to the very *)
(* value that was there, resets included, and hydration is the floor.       *)
Line == INSTANCE UndoStack WITH
    past <- IF floorPending THEN <<>> ELSE [k \in 1 .. (cursor - 1) |-> positions[k].form],
    present <- items,
    future <- IF floorPending THEN <<>>
              ELSE [k \in 1 .. (Len(positions) - cursor) |-> positions[cursor + k].form]
ImplementsUndoStack == Line!Spec

(* A typed operation takes the user errors, the runs in flight and the      *)
(* baselines along with the rows, and leaves a schema verdict only where    *)
(* the same row stayed (applyStructuralOp).                                 *)
MarksMove ==
    [][writes' # writes /\ TypedOp =>
        \A i \in DOMAIN structure.rows, j \in DOMAIN structure'.rows :
            structure.rows[i] = structure'.rows[j] =>
                /\ (i \in running) <=> (j \in running')
                /\ i \in cells.user => j \in cells'.user
                /\ j \in cells'.user => i \in cells.user \/ j > Len(items)
                /\ j \in cells'.schema => i = j /\ i \in cells.schema
                /\ structure.originals[i] = structure'.originals[j]]_vars
=============================================================================
