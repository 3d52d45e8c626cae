---------------------------- MODULE MCSubmission ----------------------------
(* Model values for model checking Submission. *)
EXTENDS Submission

CONSTANTS m1, m2, c1, c2
=============================================================================
