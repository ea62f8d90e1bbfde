------------------------------ MODULE MCWizard ------------------------------
(* The instances of Wizard that TLC checks: three steps of which the first  *)
(* is a gate and may be submitted twice, and two, for the stale deferral.   *)
EXTENDS Wizard, TLC

Symmetry == Permutations(Subs)

(* The last step is never submitted by itself.                              *)
Twice == <<2, 1, 0>>
FirstTwice == <<2, 0>>
=============================================================================
