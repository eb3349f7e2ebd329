------------------------- MODULE MCSubmissionInbox -------------------------
(* Two applications on the board, for model checking. *)
EXTENDS SubmissionInbox

CONSTANTS a1, a2

TwoApplications == {a1, a2}
============================================================================
