----------------------- MODULE MCSubmissionDownload ------------------------
(* One uploaded document and one report, for model checking. *)
EXTENDS SubmissionDownload

CONSTANTS file, form

OneFile    == {file}
OneReport  == {form}
============================================================================
