--------------------- MODULE MCPermitApplicationEditor ---------------------
(* One author and one collaborator, for model checking. *)
EXTENDS PermitApplicationEditor

CONSTANTS author, helper, b1, b2

OneAuthor  == {author}
OneHelper  == {helper}
TwoBlocks  == {b1, b2}
SecondOnly == [h \in {helper} |-> {b2}]
Divided    == [t \in {author, helper} |->
                IF t = author THEN {"typed", "filled", "autosave", "finishLater", "stepcode"}
                ELSE {"attached", "autosave", "save"}]
============================================================================
