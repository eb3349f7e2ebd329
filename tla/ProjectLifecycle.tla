------------------------- MODULE ProjectLifecycle -------------------------
(***************************************************************************)
(* What a project promises: it leaves draft once, when an application      *)
(* arrives, moves along the declared transitions, and its queue clock runs *)
(* exactly in the jurisdiction's states.                                   *)
(***************************************************************************)
EXTENDS ProjectState

VARIABLES state, clock

Init == state = "draft" /\ clock = FALSE

Move ==
  /\ Edge(state, state')
  /\ state' # "draft"
  /\ clock' = (state' \in OurCourt)

Spec == Init /\ [][Move]_<<state, clock>>
===========================================================================
