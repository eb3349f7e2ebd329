------------------------ MODULE MCSubmissionPackage ------------------------
(* Which versions lack their report data, for model checking. *)
EXTENDS SubmissionPackage

NoneBlocked  == {}
ThirdBlocked == {3}
============================================================================
