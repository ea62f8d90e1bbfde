------------------------------ MODULE MCDisplay -----------------------------
(* The instance of Display that TLC checks: two fields that share the timer,*)
(* with windows of a few ticks.                                             *)
EXTENDS Display
=============================================================================
