------------------------ MODULE MCPermitApplication ------------------------
(* Sets of endpoints and the symmetry of requests, for model checking. *)
EXTENDS PermitApplication, TLC

CONSTANTS r1, r2

OneRequest  == {r1}
TwoRequests == {r1, r2}
RequestSymmetry == Permutations(Requests)

(* Everything but file uploads, which touch the file column alone. *)
StatusHandlers == AllHandlers \ {"upload_fulfillment"}
(* Staff and submitters only: no partner system. *)
PortalHandlers == AllHandlers \ {"update_status"}
============================================================================
