---------------------------- MODULE MCSubmission ----------------------------
(* The instance of Submission that TLC checks: three calls, of which one    *)
(* has no onError, two resets and one transform.                            *)
EXTENDS Submission, TLC
=============================================================================
