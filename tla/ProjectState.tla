---------------------------- MODULE ProjectState ----------------------------
(***************************************************************************)
(* The states of a permit project and the two tables that say how they     *)
(* change: the state-machine declaration and the moves offered on the      *)
(* project board and to partner systems.                                   *)
(***************************************************************************)

OurCourt == {"queued", "in_progress", "ready"}
States   == OurCourt \cup {"draft", "waiting", "permit_issued", "active",
                           "complete", "closed"}

(***************************************************************************)
(* <<event, from, to>>: the declared transitions of every event.  The      *)
(* guards of enqueue and return_to_draft are stated where they are used.   *)
(***************************************************************************)
Transitions ==
  {<<"enqueue", "draft", "queued">>, <<"return_to_draft", "queued", "draft">>,
   <<"finish", "active", "complete">>}
  \cup ({"enqueue"}
          \X {"waiting", "in_progress", "active", "complete", "closed"}
          \X {"queued"})
  \cup ({"begin_progress"}
          \X {"queued", "waiting", "ready", "permit_issued", "active"}
          \X {"in_progress"})
  \cup ({"mark_ready"}
          \X {"queued", "waiting", "in_progress", "permit_issued"} \X {"ready"})
  \cup ({"issue_permit"} \X {"queued", "waiting", "ready"} \X {"permit_issued"})
  \cup ({"start_construction"}
          \X {"queued", "waiting", "permit_issued", "complete"} \X {"active"})
  \cup ({"close_project"}
          \X {"queued", "waiting", "in_progress", "ready", "permit_issued",
              "active"}
          \X {"closed"})
  \cup ({"put_on_hold"}
          \X {"queued", "in_progress", "ready", "permit_issued", "active"}
          \X {"waiting"})

(* Some event of the state machine leads from one state to the other. *)
Edge(from, to) == \E tr \in Transitions : tr[2] = from /\ tr[3] = to

(* Targets a reviewer or a partner system is offered, per current state. *)
MANUAL_TRANSITIONS ==
  [draft         |-> {},
   queued        |-> {"waiting", "in_progress", "ready", "permit_issued",
                      "active", "closed"},
   waiting       |-> {"queued", "in_progress", "ready", "permit_issued",
                      "active", "closed"},
   in_progress   |-> {"queued", "waiting", "ready", "closed"},
   ready         |-> {"in_progress", "permit_issued", "waiting", "closed"},
   permit_issued |-> {"in_progress", "active", "waiting", "closed", "ready"},
   active        |-> {"complete", "waiting", "closed", "queued", "in_progress"},
   complete      |-> {"active", "queued"},
   closed        |-> {"queued"}]

(* Event fired for a target state. *)
STATE_EVENT_MAP ==
  [queued |-> "enqueue", in_progress |-> "begin_progress",
   ready |-> "mark_ready", permit_issued |-> "issue_permit",
   active |-> "start_construction", complete |-> "finish",
   closed |-> "close_project", waiting |-> "put_on_hold",
   draft |-> "return_to_draft"]
=============================================================================
