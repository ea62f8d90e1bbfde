------------------------------- MODULE MCRows -------------------------------
(* The instance of Rows that TLC checks: a list of two rows that may grow   *)
(* to three.                                                                *)
EXTENDS Rows

TwoRows == <<"x", "y">>
Shorter == {<<"x">>}
Refetched == {<<"y", "x">>}
=============================================================================
