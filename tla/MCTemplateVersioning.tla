------------------------ MODULE MCTemplateVersioning ------------------------
(* Templates for model checking; the bounds are numbers in the cfg files. *)
EXTENDS TemplateVersioning
=============================================================================
