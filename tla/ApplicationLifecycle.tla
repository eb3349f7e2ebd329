----------------------- MODULE ApplicationLifecycle -----------------------
(***************************************************************************)
(* What a permit application promises: its status moves along the declared *)
(* transitions one at a time and never in the bin, a submission adds one   *)
(* version, and the queue clock runs exactly in the jurisdiction's         *)
(* statuses.                                                               *)
(***************************************************************************)
EXTENDS Naturals, ApplicationStatus

VARIABLES status, discarded, clock, versions

lifecycleVars == <<status, discarded, clock, versions>>

Init ==
  /\ status = "new_draft"
  /\ discarded = FALSE
  /\ clock = FALSE
  /\ versions = 0

Move ==
  /\ ~discarded
  /\ \E tr \in Transitions :
       /\ status = tr[2]
       /\ status' = tr[3]
       /\ versions' = IF tr[1] = "submit" THEN versions + 1 ELSE versions
  /\ versions' >= 1
  /\ clock' = (status' \in OurCourt)
  /\ UNCHANGED discarded

(* Into the bin or out of it. *)
Bin ==
  /\ discarded' = ~discarded
  /\ UNCHANGED <<status, clock, versions>>

Next == Move \/ Bin

Spec == Init /\ [][Next]_lifecycleVars
===========================================================================
