---------------------------- MODULE MCTransforms ----------------------------
(* The instances of Transforms that TLC checks: two leaves, one of them in  *)
(* the container, one settleTransforms call and one drain.                  *)
EXTENDS Transforms, TLC
=============================================================================
