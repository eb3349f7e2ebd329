--------------------------- MODULE PermitProject ---------------------------
(***************************************************************************)
(* A permit project and its applications.  A submission takes the project  *)
(* out of draft in a hook that runs after the application's commit, on the *)
(* copy of the project that was loaded before it.  Review staff move the   *)
(* project on an unlocked copy, partner systems move it under its lock.    *)
(*                                                                         *)
(* The applications move along their own declared transitions; how their   *)
(* requests overlap is the subject of PermitApplication.                   *)
(***************************************************************************)
EXTENDS ProjectState

CONSTANTS
  Applications,  \* the applications of the project
  Movers,        \* requests that can move the project on the board
  MayCrash       \* a process may die before its hooks have run

ASSUME MayCrashAssumption == MayCrash \in BOOLEAN

App == INSTANCE ApplicationStatus

VARIABLES
  state,   \* column state
  clock,   \* queue_clock_started_at is set
  status,  \* per application: its status
  submit,  \* per application: the request that submits it
  move     \* per mover: the copy of the project it loaded

projectVars == <<state, clock>>
vars == <<projectVars, status, submit, move>>

(* A submission: how far it is and whether its copy of the project is a     *)
(* draft, which is all its hook reads of it.                                *)
Submission == [at : {"none", "saving", "committed"}, draft : BOOLEAN]
NoSubmission == [at |-> "none", draft |-> FALSE]

(* A board move: whether a copy is loaded, and the copy. *)
Copy == [loaded : BOOLEAN, state : States, clock : BOOLEAN]
NoCopy == [loaded |-> FALSE, state |-> "draft", clock |-> FALSE]

TypeOK ==
  /\ state \in States
  /\ clock \in BOOLEAN
  /\ status \in [Applications -> App!Statuses]
  /\ submit \in [Applications -> Submission]
  /\ move \in [Movers -> Copy]

Init ==
  /\ state = "draft"
  /\ clock = FALSE
  /\ status = [a \in Applications |-> "new_draft"]
  /\ submit = [a \in Applications |-> NoSubmission]
  /\ move = [m \in Movers |-> NoCopy]

(* Wrong on purpose: the clock stops whenever the copy ran (see ClockRuns). *)
StopClockLast(s, c, t) ==
  IF s \in OurCourt /\ c THEN FALSE ELSE IF t \in OurCourt THEN TRUE ELSE clock

(* Wrong on purpose: the clock is never stopped (see RefinesLifecycle). *)
NeverStopClock(s, c, t) == IF t \in OurCourt THEN TRUE ELSE clock

(* The clock column after a save that moves a copy with state s and clock c *)
(* to state t.  The column is written only if the copy's value changes.     *)
UpdateQueueClock(s, c, t) ==
  IF t \in OurCourt THEN TRUE
  ELSE IF s \in OurCourt /\ c THEN FALSE
  ELSE clock

----------------------------------------------------------------------------
(* Applications *)

(* The submit event under the application's lock; it loads the project. *)
BeginSubmit(a) ==
  /\ submit[a].at = "none"
  /\ status[a] \in App!Draft
  /\ submit' = [submit EXCEPT ![a] = [at |-> "saving", draft |-> state = "draft"]]
  /\ UNCHANGED <<projectVars, status, move>>

CommitSubmit(a) ==
  /\ submit[a].at = "saving"
  /\ \E t \in App!Intake :
       /\ <<"submit", status[a], t>> \in App!Transitions
       /\ status' = [status EXCEPT ![a] = t]
  /\ submit' = [submit EXCEPT ![a].at = "committed"]
  /\ UNCHANGED <<projectVars, move>>

(* Any other status event.  A row without versions may not leave new_draft. *)
ApplicationMoves(a) ==
  /\ submit[a].at # "saving"
  /\ status[a] # "new_draft"
  /\ \E tr \in App!Transitions :
       /\ tr[1] # "submit" /\ tr[2] = status[a]
       /\ status' = [status EXCEPT ![a] = tr[3]]
  /\ UNCHANGED <<projectVars, submit, move>>

(* Guard of enqueue: asks the rows, not the copy. *)
HasSubmittedPermit == \E a \in Applications : status[a] \in App!Submitted

(* Wrong on purpose: any project is enqueued (see RefinesLifecycle). *)
AlwaysEnqueue(a) ==
  /\ submit[a].at = "committed"
  /\ IF HasSubmittedPermit
     THEN state' = "queued" /\ clock' = UpdateQueueClock("draft", FALSE, "queued")
     ELSE UNCHANGED projectVars
  /\ submit' = [submit EXCEPT ![a] = NoSubmission]
  /\ UNCHANGED <<status, move>>

(* Wrong on purpose: enqueues only for a lone submission (see IntakeQueued). *)
EnqueueIfAlone(a) ==
  /\ submit[a].at = "committed"
  /\ IF submit[a].draft /\ \A b \in Applications \ {a} : status[b] \notin App!Submitted
     THEN state' = "queued" /\ clock' = UpdateQueueClock("draft", FALSE, "queued")
     ELSE UNCHANGED projectVars
  /\ submit' = [submit EXCEPT ![a] = NoSubmission]
  /\ UNCHANGED <<status, move>>

(* Wrong on purpose: the application's status becomes the state (see TypeOK). *)
EnqueueAsStatus(a) ==
  /\ submit[a].at = "committed"
  /\ IF submit[a].draft /\ HasSubmittedPermit
     THEN state' = status[a] /\ clock' = TRUE
     ELSE UNCHANGED projectVars
  /\ submit' = [submit EXCEPT ![a] = NoSubmission]
  /\ UNCHANGED <<status, move>>

(* The hook after the commit.  Without a submitted permit enqueue raises    *)
(* and the project stays as it is.                                          *)
EnqueuePermitProjectIfDraft(a) ==
  /\ submit[a].at = "committed"
  /\ IF submit[a].draft /\ HasSubmittedPermit
     THEN state' = "queued" /\ clock' = UpdateQueueClock("draft", FALSE, "queued")
     ELSE UNCHANGED projectVars
  /\ submit' = [submit EXCEPT ![a] = NoSubmission]
  /\ UNCHANGED <<status, move>>

(* The process dies: an open transaction rolls back, a due hook is lost. *)
Crash(a) ==
  /\ MayCrash
  /\ submit[a].at # "none"
  /\ submit' = [submit EXCEPT ![a] = NoSubmission]
  /\ UNCHANGED <<projectVars, status, move>>

----------------------------------------------------------------------------
(* The project board and partner systems *)

(* set_permit_project, and the policy that keeps drafts off the board. *)
LoadProject(m) ==
  /\ ~move[m].loaded
  /\ state # "draft"
  /\ move' = [move EXCEPT ![m] = [loaded |-> TRUE, state |-> state, clock |-> clock]]
  /\ UNCHANGED <<projectVars, status, submit>>

(* The copy decides and is saved, whatever the row has become. *)
TransitionState(m) ==
  /\ move[m].loaded
  /\ \E t \in MANUAL_TRANSITIONS[move[m].state] :
       /\ <<STATE_EVENT_MAP[t], move[m].state, t>> \in Transitions
       /\ state' = t
       /\ clock' = UpdateQueueClock(move[m].state, move[m].clock, t)
  /\ move' = [move EXCEPT ![m] = NoCopy]
  /\ UNCHANGED <<status, submit>>

(* A request that is refused or fails. *)
AbandonMove(m) ==
  /\ move[m].loaded
  /\ move' = [move EXCEPT ![m] = NoCopy]
  /\ UNCHANGED <<projectVars, status, submit>>

(* update_state of a partner system, in with_lock. *)
PartnerUpdateState ==
  /\ \E t \in MANUAL_TRANSITIONS[state] :
       /\ <<STATE_EVENT_MAP[t], state, t>> \in Transitions
       /\ state' = t
       /\ clock' = UpdateQueueClock(state, clock, t)
  /\ UNCHANGED <<status, submit, move>>

----------------------------------------------------------------------------
Next ==
  \/ PartnerUpdateState
  \/ \E a \in Applications :
       \/ BeginSubmit(a) \/ CommitSubmit(a) \/ ApplicationMoves(a)
       \/ EnqueuePermitProjectIfDraft(a) \/ Crash(a)
  \/ \E m \in Movers : LoadProject(m) \/ TransitionState(m) \/ AbandonMove(m)

Spec == Init /\ [][Next]_vars

(* A request that began to submit goes on to its commit and its hooks. *)
FairSpec ==
  /\ Spec
  /\ \A a \in Applications :
       WF_vars(CommitSubmit(a) \/ EnqueuePermitProjectIfDraft(a))

----------------------------------------------------------------------------
(* Properties *)

(* While the project is with the jurisdiction its queue clock runs, even    *)
(* when a stale copy was saved over a newer row.                            *)
ClockRuns == state \in OurCourt => clock

(* An application that waits for the jurisdiction is in a project that has  *)
(* left draft, which neither the board nor a partner shows, or whose hook   *)
(* is still to run with what it needs.                                      *)
IntakeQueued ==
  \A a \in Applications :
    status[a] \in App!Intake /\ state = "draft"
      => submit[a] = [at |-> "committed", draft |-> TRUE]

(* A submission takes its project out of draft, unless the application is   *)
(* sent back before the hook has run.                                       *)
SubmissionLeavesDraft ==
  \A a \in Applications :
    status[a] \in App!Intake
      ~> state # "draft" \/ status[a] = "revisions_requested"

(* The state moves only along declared transitions.  Stale copies break it,  *)
(* so no run claims it.                                                     *)
StateFollowsTransitions == [][state' # state => Edge(state, state')]_state

(* The project as its callers are told to see it. *)
Lifecycle == INSTANCE ProjectLifecycle WITH state <- state, clock <- clock
RefinesLifecycle == Lifecycle!Spec
============================================================================
