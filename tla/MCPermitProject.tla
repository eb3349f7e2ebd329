-------------------------- MODULE MCPermitProject --------------------------
(* The applications of a project and the requests that move it, for model  *)
(* checking.                                                                *)
EXTENDS PermitProject

CONSTANTS a1, a2, m1

OneApplication  == {a1}
TwoApplications == {a1, a2}

NoMover  == {}
OneMover == {m1}
============================================================================
