------------------------- MODULE ApplicationStatus -------------------------
(***************************************************************************)
(* The statuses of a permit application and the tables that say how they   *)
(* may change: the state-machine declaration itself, the moves offered to  *)
(* review staff and the moves offered to a partner system.                 *)
(***************************************************************************)

Draft     == {"new_draft", "revisions_requested"}
Submitted == {"newly_submitted", "resubmitted", "in_review", "approved",
              "issued", "withdrawn"}
Intake    == {"newly_submitted", "resubmitted"}
OurCourt  == {"newly_submitted", "resubmitted", "in_review"}
Statuses  == Draft \cup Submitted

(***************************************************************************)
(* <<event, from, to>>: the declared transitions of every event.           *)
(***************************************************************************)
Transitions ==
  {<<"submit", "new_draft", "newly_submitted">>,
   <<"submit", "revisions_requested", "resubmitted">>,
   <<"approve", "in_review", "approved">>,
   <<"issue_permit", "approved", "issued">>}
  \cup ({"start_review"}
          \X {"newly_submitted", "resubmitted", "withdrawn", "issued"}
          \X {"in_review"})
  \cup ({"finalize_revision_requests"} \X OurCourt \X {"revisions_requested"})
  \cup ({"withdraw"}
          \X {"new_draft", "newly_submitted", "in_review",
              "revisions_requested", "resubmitted", "approved"}
          \X {"withdrawn"})

(* Some event of the state machine leads from one status to the other. *)
Edge(from, to) == \E tr \in Transitions : tr[2] = from /\ tr[3] = to

(* Targets a reviewer is offered on the inbox board, per current status. *)
MANUAL_TRANSITIONS ==
  [s \in Statuses |->
     CASE s \in {"newly_submitted", "resubmitted", "issued", "withdrawn"}
                            -> {"in_review"}
       [] s = "in_review"   -> {"approved", "withdrawn"}
       [] s = "approved"    -> {"issued", "withdrawn"}
       [] OTHER             -> {}]

(* Event fired for a target status. *)
STATUS_EVENT_MAP ==
  [t \in {"in_review", "approved", "issued", "withdrawn"} |->
     CASE t = "in_review" -> "start_review"
       [] t = "approved"  -> "approve"
       [] t = "issued"    -> "issue_permit"
       [] t = "withdrawn" -> "withdraw"]

PARTNER_WRITABLE_APPLICATION_STATUSES ==
  {"in_review", "approved", "issued", "withdrawn", "revisions_requested"}

PartnerEvent(t) == IF t = "revisions_requested"
                   THEN "finalize_revision_requests"
                   ELSE STATUS_EVENT_MAP[t]

(* Targets a partner system may write from status s. *)
AvailableStatuses(s) ==
  {t \in PARTNER_WRITABLE_APPLICATION_STATUSES :
      <<PartnerEvent(t), s, t>> \in Transitions}
============================================================================
