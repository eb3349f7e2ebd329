------------------------ MODULE PermitProjectProofs ------------------------
(***************************************************************************)
(* What holds of a project for every number of applications and of         *)
(* requests that move it on stale copies.                                  *)
(***************************************************************************)
EXTENDS PermitProject, TLAPS

(* Nothing offered on the board or to a partner leads back to draft.        *)
LEMMA OfferedTargets ==
  \A s \in States : MANUAL_TRANSITIONS[s] \subseteq States \ {"draft"}
BY DEF States, OurCourt, MANUAL_TRANSITIONS

(* A save of the clock column leaves a Boolean.                             *)
LEMMA ClockIsBoolean ==
  ASSUME clock \in BOOLEAN, NEW s, NEW c, NEW t
  PROVE  UpdateQueueClock(s, c, t) \in BOOLEAN
BY DEF UpdateQueueClock

(* Both ways to move a project: the state becomes a target of the table,    *)
(* the clock follows, the applications are left alone.                      *)
LEMMA BoardStep ==
  ASSUME TypeOK, PartnerUpdateState \/ \E m \in Movers : TransitionState(m)
  PROVE  /\ state' \in States \ {"draft"}
         /\ \E s, c : clock' = UpdateQueueClock(s, c, state')
         /\ UNCHANGED <<status, submit>>
         /\ move' \in [Movers -> Copy]
<1>1. CASE PartnerUpdateState
  <2>1. MANUAL_TRANSITIONS[state] \subseteq States \ {"draft"}
    BY OfferedTargets DEF TypeOK
  <2> QED BY <1>1, <2>1 DEF PartnerUpdateState, TypeOK
<1>2. ASSUME NEW m \in Movers, TransitionState(m)
      PROVE  /\ state' \in States \ {"draft"}
             /\ \E s, c : clock' = UpdateQueueClock(s, c, state')
             /\ UNCHANGED <<status, submit>>
             /\ move' \in [Movers -> Copy]
  <2>1. MANUAL_TRANSITIONS[move[m].state] \subseteq States \ {"draft"}
    BY OfferedTargets DEF TypeOK, Copy
  <2>2. NoCopy \in Copy
    BY DEF NoCopy, Copy, States
  <2> QED BY <1>2, <2>1, <2>2 DEF TransitionState, TypeOK
<1> QED BY <1>1, <1>2

(* Every save lands in a known state and every copy is a project's.         *)
THEOREM TypeCorrect == Spec => []TypeOK
<1>1. Init => TypeOK
  <2>1. "draft" \in States /\ "new_draft" \in App!Statuses
    BY DEF States, App!Statuses, App!Draft
  <2>2. NoSubmission \in Submission
    BY DEF NoSubmission, Submission
  <2>3. NoCopy \in Copy
    BY <2>1 DEF NoCopy, Copy
  <2> QED BY <2>1, <2>2, <2>3 DEF Init, TypeOK
<1>2. TypeOK /\ [Next]_vars => TypeOK'
  <2> SUFFICES ASSUME TypeOK, [Next]_vars PROVE TypeOK'
    OBVIOUS
  <2>1. ASSUME PartnerUpdateState \/ \E m \in Movers : TransitionState(m)
        PROVE  TypeOK'
    BY <2>1, BoardStep, ClockIsBoolean DEF TypeOK
  <2>2. NoSubmission \in Submission /\ NoCopy \in Copy
    BY DEF NoSubmission, Submission, NoCopy, Copy, States
  <2>3. ASSUME NEW a \in Applications, BeginSubmit(a) PROVE TypeOK'
    <3>1. [at |-> "saving", draft |-> state = "draft"] \in Submission
      BY DEF Submission
    <3> QED BY <2>3, <3>1 DEF BeginSubmit, TypeOK, projectVars
  <2>4. ASSUME NEW a \in Applications, CommitSubmit(a) PROVE TypeOK'
    <3>1. PICK t \in App!Intake : status' = [status EXCEPT ![a] = t]
      BY <2>4 DEF CommitSubmit
    <3>2. t \in App!Statuses
      BY DEF App!Intake, App!Statuses, App!Submitted
    <3>3. [submit[a] EXCEPT !.at = "committed"] \in Submission
      BY DEF Submission, TypeOK
    <3>4. submit' = [submit EXCEPT ![a] = [submit[a] EXCEPT !.at = "committed"]]
      BY <2>4 DEF CommitSubmit, TypeOK
    <3> QED BY <2>4, <3>1, <3>2, <3>3, <3>4 DEF CommitSubmit, TypeOK, projectVars
  <2>5. ASSUME NEW a \in Applications, ApplicationMoves(a) PROVE TypeOK'
    <3>1. \A tr \in App!Transitions : tr[3] \in App!Statuses
      BY DEF App!Transitions, App!Statuses, App!Submitted, App!Draft, App!OurCourt
    <3> QED BY <2>5, <3>1 DEF ApplicationMoves, TypeOK, projectVars
  <2>6. ASSUME NEW a \in Applications, EnqueuePermitProjectIfDraft(a) PROVE TypeOK'
    <3>1. "queued" \in States
      BY DEF States, OurCourt
    <3> QED BY <2>6, <2>2, <3>1, ClockIsBoolean
         DEF EnqueuePermitProjectIfDraft, TypeOK, projectVars
  <2>7. ASSUME NEW a \in Applications, Crash(a) PROVE TypeOK'
    BY <2>7, <2>2 DEF Crash, TypeOK, projectVars
  <2>8. ASSUME NEW m \in Movers, LoadProject(m) PROVE TypeOK'
    <3>1. [loaded |-> TRUE, state |-> state, clock |-> clock] \in Copy
      BY DEF Copy, TypeOK
    <3> QED BY <2>8, <3>1 DEF LoadProject, TypeOK, projectVars
  <2>9. ASSUME NEW m \in Movers, AbandonMove(m) PROVE TypeOK'
    BY <2>9, <2>2 DEF AbandonMove, TypeOK, projectVars
  <2>10. CASE UNCHANGED vars
    BY <2>10 DEF vars, projectVars, TypeOK
  <2> QED BY <2>1, <2>3, <2>4, <2>5, <2>6, <2>7, <2>8, <2>9, <2>10 DEF Next
<1> QED BY <1>1, <1>2, PTL DEF Spec

(* Whatever copies are saved over newer rows, the queue clock runs in every *)
(* state of the jurisdiction.                                               *)
THEOREM ClockAlwaysRuns == Spec => []ClockRuns
<1>1. Init => ClockRuns
  BY DEF Init, ClockRuns, OurCourt
<1>2. TypeOK /\ ClockRuns /\ [Next]_vars => ClockRuns'
  <2> SUFFICES ASSUME TypeOK, ClockRuns, [Next]_vars PROVE ClockRuns'
    OBVIOUS
  <2>1. ASSUME PartnerUpdateState \/ \E m \in Movers : TransitionState(m)
        PROVE  ClockRuns'
    <3>1. PICK s, c : clock' = UpdateQueueClock(s, c, state')
      BY <2>1, BoardStep
    <3> QED BY <3>1 DEF ClockRuns, UpdateQueueClock
  <2>2. ASSUME NEW a \in Applications, EnqueuePermitProjectIfDraft(a)
        PROVE  ClockRuns'
    BY <2>2 DEF EnqueuePermitProjectIfDraft, ClockRuns, UpdateQueueClock,
       projectVars, OurCourt
  <2>3. CASE UNCHANGED projectVars
    BY <2>3 DEF projectVars, ClockRuns
  <2>4. [Next]_vars =>
          \/ PartnerUpdateState
          \/ \E m \in Movers : TransitionState(m)
          \/ \E a \in Applications : EnqueuePermitProjectIfDraft(a)
          \/ UNCHANGED projectVars
    BY DEF Next, vars, BeginSubmit, CommitSubmit, ApplicationMoves, Crash,
       LoadProject, AbandonMove
  <2> QED BY <2>1, <2>2, <2>3, <2>4
<1> QED BY <1>1, <1>2, TypeCorrect, PTL DEF Spec

(* While a project is a draft, every submission on its way knows it.        *)
CopiesAreDrafts ==
  state = "draft" =>
    \A a \in Applications : submit[a].at # "none" => submit[a].draft

(* A due hook is only ever lost with its process: without crashes an        *)
(* application that arrived is never stranded in a draft project, however   *)
(* many arrive at once.                                                     *)
THEOREM IntakeAlwaysQueued ==
  ASSUME MayCrash = FALSE
  PROVE  Spec => []IntakeQueued
<1> DEFINE IInv == CopiesAreDrafts /\ IntakeQueued
<1>1. Init => IInv
  BY DEF Init, CopiesAreDrafts, IntakeQueued, App!Intake, NoSubmission
<1>2. TypeOK /\ IInv /\ [Next]_vars => IInv'
  <2> SUFFICES ASSUME TypeOK, IInv, [Next]_vars PROVE IInv'
    OBVIOUS
  <2>1. ASSUME PartnerUpdateState \/ \E m \in Movers : TransitionState(m)
        PROVE  IInv'
    BY <2>1, BoardStep DEF CopiesAreDrafts, IntakeQueued
  <2>2. ASSUME NEW a \in Applications, BeginSubmit(a) PROVE IInv'
    <3>1. status[a] \notin App!Intake
      BY <2>2 DEF BeginSubmit, App!Draft, App!Intake
    <3>2. /\ submit'[a] = [at |-> "saving", draft |-> state = "draft"]
          /\ \A b \in Applications \ {a} : submit'[b] = submit[b]
          /\ state' = state /\ status' = status
      BY <2>2 DEF BeginSubmit, TypeOK, projectVars
    <3>3. submit'[a].draft = (state = "draft")
      BY <3>2
    <3>4. CopiesAreDrafts'
      BY <3>2, <3>3 DEF CopiesAreDrafts
    <3>5. IntakeQueued'
      BY <3>1, <3>2 DEF IntakeQueued
    <3> QED BY <3>4, <3>5
  <2>3. ASSUME NEW a \in Applications, CommitSubmit(a) PROVE IInv'
    <3>1. /\ submit'[a] = [submit[a] EXCEPT !.at = "committed"]
          /\ \A b \in Applications \ {a} :
               submit'[b] = submit[b] /\ status'[b] = status[b]
          /\ state' = state
          /\ submit[a].at = "saving"
      BY <2>3 DEF CommitSubmit, TypeOK, projectVars
    <3>2. submit[a] \in Submission
      BY DEF TypeOK
    <3>3. state = "draft" => submit[a].draft = TRUE
      BY <3>1, <3>2 DEF CopiesAreDrafts, Submission
    <3>4. state = "draft" => submit'[a] = [at |-> "committed", draft |-> TRUE]
      BY <3>1, <3>2, <3>3 DEF Submission
    <3>5. state = "draft" => submit'[a].draft
      BY <3>4
    <3>6. CopiesAreDrafts'
      BY <3>1, <3>5 DEF CopiesAreDrafts
    <3>7. IntakeQueued'
      BY <3>1, <3>4 DEF IntakeQueued
    <3> QED BY <3>6, <3>7
  <2>4. ASSUME NEW a \in Applications, ApplicationMoves(a) PROVE IInv'
    <3>1. \A tr \in App!Transitions : tr[1] # "submit" => tr[3] \notin App!Intake
      BY DEF App!Transitions, App!Intake, App!OurCourt
    <3>2. /\ status'[a] \notin App!Intake
          /\ \A b \in Applications \ {a} : status'[b] = status[b]
          /\ submit' = submit /\ state' = state
      BY <2>4, <3>1 DEF ApplicationMoves, TypeOK, projectVars
    <3> QED BY <3>2 DEF CopiesAreDrafts, IntakeQueued
  <2>5. ASSUME NEW a \in Applications, EnqueuePermitProjectIfDraft(a) PROVE IInv'
    <3>1. /\ submit'[a] = NoSubmission
          /\ \A b \in Applications \ {a} : submit'[b] = submit[b]
          /\ status' = status
      BY <2>5 DEF EnqueuePermitProjectIfDraft, TypeOK
    <3>2. CASE submit[a].draft /\ HasSubmittedPermit
      BY <2>5, <3>2 DEF EnqueuePermitProjectIfDraft, CopiesAreDrafts, IntakeQueued
    <3>3. CASE ~(submit[a].draft /\ HasSubmittedPermit)
      <4>1. state' = state /\ submit[a].at = "committed"
        BY <2>5, <3>3 DEF EnqueuePermitProjectIfDraft, projectVars
      <4>2. state = "draft" => ~HasSubmittedPermit
        BY <3>3, <4>1 DEF CopiesAreDrafts
      <4>3. state = "draft" => \A b \in Applications : status[b] \notin App!Intake
        BY <4>2 DEF HasSubmittedPermit, App!Submitted, App!Intake
      <4>4. IntakeQueued'
        BY <4>1, <4>3, <3>1 DEF IntakeQueued
      <4>5. CopiesAreDrafts'
        BY <4>1, <3>1 DEF CopiesAreDrafts, NoSubmission
      <4> QED BY <4>4, <4>5
    <3> QED BY <3>2, <3>3
  <2>6. ASSUME NEW a \in Applications, Crash(a) PROVE IInv'
    BY <2>6 DEF Crash
  <2>7. CASE UNCHANGED <<state, status, submit>>
    BY <2>7 DEF CopiesAreDrafts, IntakeQueued
  <2>8. [Next]_vars =>
          \/ PartnerUpdateState
          \/ \E m \in Movers : TransitionState(m)
          \/ \E a \in Applications :
               \/ BeginSubmit(a) \/ CommitSubmit(a) \/ ApplicationMoves(a)
               \/ EnqueuePermitProjectIfDraft(a) \/ Crash(a)
          \/ UNCHANGED <<state, status, submit>>
    BY DEF Next, vars, projectVars, LoadProject, AbandonMove
  <2> QED BY <2>1, <2>2, <2>3, <2>4, <2>5, <2>6, <2>7, <2>8
<1> QED BY <1>1, <1>2, TypeCorrect, PTL DEF Spec
----------------------------------------------------------------------------
(* The clock runs exactly in the jurisdiction's states. *)
ClockMatches == clock <=> state \in OurCourt

(* A hook that took its project for a draft still finds it one. *)
DraftsAreDrafts ==
  \A a \in Applications : submit[a].at # "none" /\ submit[a].draft => state = "draft"

(* A save of the row as it is leaves the clock where the target wants it. *)
LEMMA FreshClock ==
  ASSUME TypeOK, ClockMatches, NEW t
  PROVE  UpdateQueueClock(state, clock, t) = (t \in OurCourt)
<1>1. clock = TRUE \/ clock = FALSE
  BY DEF TypeOK
<1>2. CASE t \in OurCourt
  <2>1. UpdateQueueClock(state, clock, t) = TRUE
    BY <1>2 DEF UpdateQueueClock
  <2> QED BY <1>2, <2>1
<1>3. CASE t \notin OurCourt
  <2>1. UpdateQueueClock(state, clock, t) = FALSE
    BY <1>1, <1>3 DEF UpdateQueueClock, ClockMatches
  <2>2. (t \in OurCourt) = FALSE
    BY <1>3, SMT
  <2> QED BY <2>1, <2>2
<1> QED BY <1>2, <1>3

(* The lifecycle's tables are the project's. *)
LEMMA SameTables ==
  Lifecycle!Transitions = Transitions /\ Lifecycle!OurCourt = OurCourt
BY DEF Lifecycle!Transitions, Transitions, Lifecycle!OurCourt, OurCourt

(* A declared transition out of draft, or from and to anything else, is a    *)
(* step of the lifecycle.                                                    *)
LEMMA LifecycleMove ==
  ASSUME NEW e, NEW t, <<e, state, t>> \in Transitions, t # "draft",
         state' = t, clock' = (t \in OurCourt)
  PROVE  Lifecycle!Move
<1>1. Lifecycle!Edge(state, state')
  <2>1. <<e, state, t>> \in Lifecycle!Transitions
    BY SameTables
  <2> QED BY <2>1 DEF Lifecycle!Edge
<1> QED BY <1>1, SameTables DEF Lifecycle!Move

(* Each step of a project with a single application that nobody moves on a   *)
(* stale copy is a step of its lifecycle or leaves it as it is.              *)
LEMMA LifecycleStep ==
  ASSUME Movers = {}, \A a, b \in Applications : a = b,
         TypeOK, ClockMatches, DraftsAreDrafts, [Next]_vars
  PROVE  /\ [Lifecycle!Move]_<<state, clock>>
         /\ ClockMatches' /\ DraftsAreDrafts'
<1>1. CASE PartnerUpdateState
  <2>1. PICK t \in MANUAL_TRANSITIONS[state] :
          /\ <<STATE_EVENT_MAP[t], state, t>> \in Transitions
          /\ state' = t
          /\ clock' = UpdateQueueClock(state, clock, t)
    BY <1>1 DEF PartnerUpdateState
  <2>2. t # "draft" /\ state # "draft"
    <3>1. MANUAL_TRANSITIONS["draft"] = {}
      BY DEF MANUAL_TRANSITIONS
    <3> QED BY <2>1, <3>1, OfferedTargets DEF TypeOK
  <2>3. clock' = (t \in OurCourt)
    BY <2>1, FreshClock
  <2>4. Lifecycle!Move
    BY <2>1, <2>2, <2>3, LifecycleMove
  <2>5. ClockMatches'
    BY <2>1, <2>3 DEF ClockMatches
  <2>6. DraftsAreDrafts'
    BY <1>1, <2>2 DEF PartnerUpdateState, DraftsAreDrafts
  <2> QED BY <2>4, <2>5, <2>6
<1>2. ASSUME NEW a \in Applications, EnqueuePermitProjectIfDraft(a)
      PROVE  /\ [Lifecycle!Move]_<<state, clock>>
             /\ ClockMatches' /\ DraftsAreDrafts'
  <2>1. \A b \in Applications : submit'[b].at = "none"
    BY <1>2 DEF EnqueuePermitProjectIfDraft, TypeOK, NoSubmission
  <2>2. DraftsAreDrafts'
    BY <2>1 DEF DraftsAreDrafts
  <2>3. CASE submit[a].draft /\ HasSubmittedPermit
    <3>1. state = "draft" /\ state' = "queued" /\ clock' = TRUE
      BY <1>2, <2>3 DEF EnqueuePermitProjectIfDraft, DraftsAreDrafts,
         UpdateQueueClock, OurCourt
    <3>2. <<"enqueue", "draft", "queued">> \in Transitions
      BY DEF Transitions
    <3>3. clock' = ("queued" \in OurCourt)
      BY <3>1 DEF OurCourt
    <3>4. Lifecycle!Move
      BY <3>1, <3>2, <3>3, LifecycleMove
    <3> QED BY <2>2, <3>1, <3>4 DEF ClockMatches, OurCourt
  <2>4. CASE ~(submit[a].draft /\ HasSubmittedPermit)
    BY <1>2, <2>2, <2>4 DEF EnqueuePermitProjectIfDraft, projectVars, ClockMatches
  <2> QED BY <2>3, <2>4
<1>3. ASSUME NEW a \in Applications, BeginSubmit(a)
      PROVE  UNCHANGED projectVars /\ DraftsAreDrafts'
  <2>1. submit'[a] = [at |-> "saving", draft |-> state = "draft"]
        /\ \A b \in Applications : b = a
    BY <1>3 DEF BeginSubmit, TypeOK
  <2>2. submit'[a].draft = (state = "draft")
    BY <2>1
  <2>3. UNCHANGED projectVars
    BY <1>3 DEF BeginSubmit
  <2> QED BY <2>1, <2>2, <2>3 DEF DraftsAreDrafts, projectVars
<1>4. ASSUME NEW a \in Applications, CommitSubmit(a)
      PROVE  UNCHANGED projectVars /\ DraftsAreDrafts'
  <2>1. submit'[a].draft = submit[a].draft /\ submit[a].at # "none"
        /\ \A b \in Applications : b = a
    BY <1>4 DEF CommitSubmit, TypeOK, Submission
  <2>2. UNCHANGED projectVars
    BY <1>4 DEF CommitSubmit
  <2> QED BY <2>1, <2>2 DEF DraftsAreDrafts, projectVars
<1>5. ASSUME NEW a \in Applications, ApplicationMoves(a)
      PROVE  UNCHANGED projectVars /\ DraftsAreDrafts'
  BY <1>5 DEF ApplicationMoves, DraftsAreDrafts, projectVars
<1>6. ASSUME NEW a \in Applications, Crash(a)
      PROVE  UNCHANGED projectVars /\ DraftsAreDrafts'
  BY <1>6 DEF Crash, DraftsAreDrafts, NoSubmission, TypeOK, projectVars
<1>7. CASE UNCHANGED vars
  BY <1>7 DEF vars, projectVars, ClockMatches, DraftsAreDrafts
<1>8. UNCHANGED projectVars => UNCHANGED <<state, clock>> /\ ClockMatches'
  BY DEF projectVars, ClockMatches
<1> QED BY <1>1, <1>2, <1>3, <1>4, <1>5, <1>6, <1>7, <1>8 DEF Next

(* A project with one application leaves draft once, moves along declared    *)
(* transitions and has its clock right, whatever a partner does and wherever *)
(* a process dies, unless somebody moves it on a stale copy.                 *)
THEOREM LockedRefinesLifecycle ==
  ASSUME Movers = {}, \A a, b \in Applications : a = b
  PROVE  Spec => RefinesLifecycle
<1>1. Init => Lifecycle!Init /\ ClockMatches /\ DraftsAreDrafts
  BY DEF Init, Lifecycle!Init, ClockMatches, DraftsAreDrafts, NoSubmission, OurCourt
<1>2. TypeOK /\ ClockMatches /\ DraftsAreDrafts /\ [Next]_vars
        => [Lifecycle!Move]_<<state, clock>> /\ ClockMatches' /\ DraftsAreDrafts'
  BY LifecycleStep
<1> QED BY <1>1, <1>2, TypeCorrect, PTL DEF Spec, RefinesLifecycle, Lifecycle!Spec
============================================================================
