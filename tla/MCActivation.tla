---------------------------- MODULE MCActivation ----------------------------
(* The instance of Activation that TLC checks: three claims on a key that   *)
(* goes through two stores, and two calls of a factory, which may overlap.  *)
EXTENDS Activation
=============================================================================
