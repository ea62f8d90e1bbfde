------------------------- MODULE MCFieldValidation -------------------------
(* The instances of FieldValidation that TLC checks.  The runs differ only  *)
(* in the values their configurations give to the constants.                *)
EXTENDS FieldValidation, TLC
=============================================================================
