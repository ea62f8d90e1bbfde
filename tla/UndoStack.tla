----------------------------- MODULE UndoStack ------------------------------
(***************************************************************************)
(* What undo and redo promise (docs/cross-cutting-state/undo-redo.md): the *)
(* values of the form as a line of positions with the form at one of them. *)
(* A write puts a position after it and forgets the ones that were ahead;  *)
(* undo and redo go one back and one forward, to the value that was there; *)
(* at most Capacity positions are kept; a clear, and the arrival of async  *)
(* defaults, leave only the present.                                       *)
(***************************************************************************)
EXTENDS Naturals, Sequences

CONSTANT Capacity       \* positions kept, the present one among them

VARIABLES
    past,       \* the values undo goes back to, the nearest last
    present,
    future      \* the values redo goes on to, the nearest first

line == <<past, present, future>>

Forget(s) == IF Len(s) >= Capacity THEN Tail(s) ELSE s

Init == past = <<>> /\ future = <<>>

Write ==
    /\ past' = Forget(Append(past, present))
    /\ future' = <<>>

Undo ==
    /\ past # <<>>
    /\ present' = past[Len(past)]
    /\ past' = SubSeq(past, 1, Len(past) - 1)
    /\ future' = <<present>> \o future

Redo ==
    /\ future # <<>>
    /\ present' = future[1]
    /\ future' = Tail(future)
    /\ past' = Append(past, present)

Floor == past' = <<>> /\ future' = <<>>

Next == Write \/ Undo \/ Redo \/ Floor

Spec == Init /\ [][Next]_line
=============================================================================
