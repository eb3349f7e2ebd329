---------------------- MODULE PermitApplicationProofs ----------------------
(***************************************************************************)
(* What holds of a permit application for every number of overlapping      *)
(* requests and of versions, whichever endpoints are in use.               *)
(***************************************************************************)
EXTENDS PermitApplication, TLAPS

(* A request that has not begun is a request. *)
LEMMA IdleIsRequest == Idle \in Request
BY MaxVersionsAssumption
   DEF Idle, Request, AllHandlers, Statuses, Draft, Submitted

(* Every save of the column lands in a known status and every request picks *)
(* a version the application has room for.                                  *)
THEOREM TypeCorrect == Spec => []TypeOK
<1>1. Init => TypeOK
  <2> SUFFICES ASSUME Init PROVE TypeOK
    OBVIOUS
  <2>1. status \in Statuses /\ discarded \in BOOLEAN /\ clock \in BOOLEAN
    BY DEF Init, Statuses, Draft
  <2>4. versions \in 0..MaxVersions
    BY MaxVersionsAssumption DEF Init
  <2>2. /\ package \in [Versions -> BOOLEAN]
        /\ jurisdictionNote \in [Versions -> NoteStates]
        /\ submitterNote \in [Versions -> NoteStates]
        /\ fulfillment \in [Versions -> FileStates]
    BY DEF Init, NoteStates, FileStates
  <2>3. inflight \in [Requests -> Request]
    BY IdleIsRequest DEF Init
  <2> QED BY <2>1, <2>2, <2>3, <2>4 DEF TypeOK
<1>2. TypeOK /\ [Next]_vars => TypeOK'
  <2> SUFFICES ASSUME TypeOK, [Next]_vars PROVE TypeOK'
    OBVIOUS
  <2> USE MaxVersionsAssumption DEF Versions
  <2>1. ASSUME NEW r \in Requests PROVE Idle \in Request /\ inflight[r] \in Request
    BY IdleIsRequest DEF TypeOK
  <2>2. CASE PartnerUpdateStatus
    <3>1. PICK t \in AvailableStatuses(status) :
            /\ status' = t
            /\ clock' = QueueClock(status, clock, t)
            /\ \/ UNCHANGED <<package, jurisdictionNote, fulfillment>>
               \/ /\ versions > 0
                  /\ package' = [package EXCEPT ![versions] = TRUE]
                  /\ fulfillment' = [fulfillment EXCEPT ![versions] = "none"]
                  /\ \E blank \in BOOLEAN :
                       jurisdictionNote' =
                         [jurisdictionNote EXCEPT
                            ![versions] = Publish(Upsert(@, blank))]
      BY <2>2 DEF PartnerUpdateStatus, ApplyRevisionRequests
    <3>2. status' \in Statuses /\ clock' \in BOOLEAN
      BY <3>1 DEF AvailableStatuses, PARTNER_WRITABLE_APPLICATION_STATUSES,
         Statuses, Draft, Submitted, QueueClock, TypeOK
    <3>3. \A n \in NoteStates, blank \in BOOLEAN :
            Publish(Upsert(n, blank)) \in NoteStates
      BY DEF Publish, Upsert, NoteStates
    <3>4. /\ package' \in [Versions -> BOOLEAN]
          /\ jurisdictionNote' \in [Versions -> NoteStates]
          /\ fulfillment' \in [Versions -> FileStates]
      <4>1. CASE UNCHANGED <<package, jurisdictionNote, fulfillment>>
        BY <4>1 DEF TypeOK
      <4>2. ASSUME NEW blank \in BOOLEAN,
                   jurisdictionNote' = [jurisdictionNote EXCEPT
                                  ![versions] = Publish(Upsert(@, blank))]
            PROVE  jurisdictionNote' \in [Versions -> NoteStates]
        BY <4>2, <3>3 DEF TypeOK
      <4>3. ASSUME package' = [package EXCEPT ![versions] = TRUE]
            PROVE  package' \in [Versions -> BOOLEAN]
        BY <4>3 DEF TypeOK
      <4>4. ASSUME fulfillment' = [fulfillment EXCEPT ![versions] = "none"]
            PROVE  fulfillment' \in [Versions -> FileStates]
        BY <4>4 DEF TypeOK, FileStates
      <4> QED BY <3>1, <4>1, <4>2, <4>3, <4>4
    <3> QED BY <2>2, <3>2, <3>4 DEF PartnerUpdateStatus, ApplyRevisionRequests, TypeOK
  <2>3. ASSUME NEW r \in Requests, Load(r) PROVE TypeOK'
    <3>1. PICK h \in Handlers, t \in Statuses :
            inflight' = [inflight EXCEPT ![r] =
              [step |-> "loaded", handler |-> h, target |-> t,
               status |-> status, clock |-> clock, version |-> 0]]
      BY <2>3 DEF Load
    <3>2. [step |-> "loaded", handler |-> h, target |-> t, status |-> status,
           clock |-> clock, version |-> 0] \in Request
      BY HandlersAssumption DEF Request, TypeOK
    <3> QED BY <2>3, <3>1, <3>2 DEF Load, TypeOK, rowVars, versionVars
  <2>4. ASSUME NEW r \in Requests, PickVersion(r) PROVE TypeOK'
    <3>1. [inflight[r] EXCEPT !.step = "picked", !.version = versions] \in Request
      BY <2>1 DEF Request, TypeOK
    <3>2. inflight' = [inflight EXCEPT ![r] =
                         [@ EXCEPT !.step = "picked", !.version = versions]]
      BY <2>4, <2>1 DEF PickVersion, Pick, TypeOK, Request
    <3> QED BY <2>4, <3>1, <3>2 DEF PickVersion, TypeOK, rowVars, versionVars
  <2>5. ASSUME NEW r \in Requests, Abandon(r) PROVE TypeOK'
    BY <2>1, <2>5 DEF Abandon, Finish, TypeOK, rowVars, versionVars
  <2>6. ASSUME NEW r \in Requests, TransitionStatus(r) PROVE TypeOK'
    <3>1. inflight[r].target \in Statuses
      BY <2>1 DEF Request
    <3> QED BY <2>1, <2>6, <3>1
            DEF TransitionStatus, Finish, TypeOK, versionVars, QueueClock
  <2>7. ASSUME NEW r \in Requests, FinalizeRevisionRequests(r) PROVE TypeOK'
    BY <2>1, <2>7 DEF FinalizeRevisionRequests, Finish, TypeOK, QueueClock,
       Statuses, Draft, Publish, NoteStates
  <2>8. ASSUME NEW r \in Requests, UpdateRevisionRequests(r) PROVE TypeOK'
    <3>1. inflight[r].version \in 0..MaxVersions
      BY <2>1 DEF Request
    <3> QED BY <2>1, <2>8, <3>1 DEF UpdateRevisionRequests, Finish, TypeOK,
              rowVars, Upsert, NoteStates, FileStates
  <2>9. ASSUME NEW r \in Requests, PersistSubmitterNote(r) PROVE TypeOK'
    <3>1. [inflight[r] EXCEPT !.step = "noted"] \in Request
      BY <2>1 DEF Request
    <3>2. inflight' \in [Requests -> Request]
      BY <2>1, <2>9, <3>1 DEF PersistSubmitterNote, Finish, TypeOK
    <3> QED BY <2>9, <3>2 DEF PersistSubmitterNote, TypeOK, rowVars, Upsert,
              NoteStates
  <2>10. ASSUME NEW r \in Requests, UploadFulfillment(r) PROVE TypeOK'
    BY <2>1, <2>10 DEF UploadFulfillment, Finish, TypeOK, rowVars, FileStates
  <2>11. ASSUME NEW r \in Requests, Destroy(r) \/ Restore(r) PROVE TypeOK'
    BY <2>1, <2>11 DEF Destroy, Restore, Finish, TypeOK, versionVars
  <2>12. ASSUME NEW r \in Requests, Submit(r) PROVE TypeOK'
    <3>1. status' \in Statuses /\ clock' \in BOOLEAN
      BY <2>12 DEF Submit, QueueClock, TypeOK
    <3>2. versions' \in 0..MaxVersions
      BY <2>12 DEF Submit, HandleSubmission, TypeOK
    <3>3. submitterNote' \in [Versions -> NoteStates]
      BY <2>12 DEF Submit, HandleSubmission, TypeOK, Publish, NoteStates
    <3>4. fulfillment' \in [Versions -> FileStates]
      BY <2>12 DEF Submit, HandleSubmission, TypeOK, FileStates
    <3> QED BY <2>1, <2>12, <3>1, <3>2, <3>3, <3>4 DEF Submit, Finish, TypeOK
  <2>13. CASE UNCHANGED vars
    BY <2>13 DEF vars, rowVars, versionVars, TypeOK
  <2> QED BY <2>2, <2>3, <2>4, <2>5, <2>6, <2>7, <2>8, <2>9, <2>10, <2>11,
             <2>12, <2>13 DEF Next
<1> QED BY <1>1, <1>2, PTL DEF Spec

----------------------------------------------------------------------------
(* Submitting leads from the two drafts to the two intake statuses. *)
LEMMA SubmitEdges ==
  ASSUME NEW s, NEW t, <<"submit", s, t>> \in Transitions
  PROVE  \/ s = "new_draft" /\ t = "newly_submitted"
         \/ s = "revisions_requested" /\ t = "resubmitted"
BY DEF Transitions

(* No board move leads to a draft or to the intake. *)
LEMMA ManualTargets ==
  ASSUME NEW s \in Statuses, NEW t \in MANUAL_TRANSITIONS[s]
  PROVE  t \in {"in_review", "approved", "issued", "withdrawn"}
BY DEF MANUAL_TRANSITIONS

(* A board move in flight was sent a target the board offers. *)
TargetsOffered ==
  \A r \in Requests : At(r, "loaded", "transition_status") =>
    inflight[r].target \in {"in_review", "approved", "issued", "withdrawn"}

(* A step that leaves every other request alone and does not end in a loaded *)
(* request keeps the targets.                                                *)
LEMMA TargetsKept ==
  ASSUME TypeOK, TargetsOffered, NEW r \in Requests, NEW q,
         q.step # "loaded", inflight' = [inflight EXCEPT ![r] = q]
  PROVE  TargetsOffered'
BY DEF TypeOK, TargetsOffered, At

(* Loading keeps that, and only loading could break it. *)
LEMMA TargetsStep == TypeOK /\ TargetsOffered /\ [Next]_vars => TargetsOffered'
<1> SUFFICES ASSUME TypeOK, TargetsOffered, [Next]_vars PROVE TargetsOffered'
  OBVIOUS
<1>1. CASE UNCHANGED inflight
  BY <1>1 DEF TargetsOffered, At
<1>2. ASSUME NEW r \in Requests, Load(r) PROVE TargetsOffered'
  <2>1. PICK h \in Handlers, t \in Statuses :
          /\ Authorized(h, t)
          /\ inflight' = [inflight EXCEPT ![r] =
               [step |-> "loaded", handler |-> h, target |-> t,
                status |-> status, clock |-> clock, version |-> 0]]
    BY <1>2 DEF Load
  <2>2. h = "transition_status"
          => t \in {"in_review", "approved", "issued", "withdrawn"}
    BY <2>1, ManualTargets DEF Authorized, AllowedManualTransitions, TypeOK
  <2> QED BY <2>1, <2>2 DEF TargetsOffered, At, TypeOK
<1>3. ASSUME NEW r \in Requests, inflight' = [inflight EXCEPT ![r] = Idle]
      PROVE  TargetsOffered'
  BY <1>3, TargetsKept DEF Idle
<1>4. ASSUME NEW r \in Requests, PickVersion(r) PROVE TargetsOffered'
  <2>1. inflight' = [inflight EXCEPT ![r] =
                       [@ EXCEPT !.step = "picked", !.version = versions]]
    BY <1>4 DEF PickVersion, Pick, TypeOK, Request
  <2>2. [inflight[r] EXCEPT !.step = "picked", !.version = versions].step = "picked"
    BY DEF TypeOK, Request
  <2> QED BY <2>1, <2>2, TargetsKept
<1>5. ASSUME NEW r \in Requests, PersistSubmitterNote(r) PROVE TargetsOffered'
  <2>1. CASE inflight[r].handler = "submit"
    <3>1. inflight' = [inflight EXCEPT ![r] = [@ EXCEPT !.step = "noted"]]
      BY <1>5, <2>1 DEF PersistSubmitterNote, TypeOK, Request
    <3>2. [inflight[r] EXCEPT !.step = "noted"].step = "noted"
      BY DEF TypeOK, Request
    <3> QED BY <3>1, <3>2, TargetsKept
  <2>2. CASE inflight[r].handler # "submit"
    BY <1>3, <1>5, <2>2 DEF PersistSubmitterNote, Finish
  <2> QED BY <2>1, <2>2
<1>6. ASSUME NEW r \in Requests,
             \/ Abandon(r) \/ TransitionStatus(r) \/ FinalizeRevisionRequests(r)
             \/ UpdateRevisionRequests(r) \/ UploadFulfillment(r)
             \/ Destroy(r) \/ Restore(r) \/ Submit(r)
      PROVE  TargetsOffered'
  BY <1>3, <1>6 DEF Abandon, TransitionStatus, FinalizeRevisionRequests,
     UpdateRevisionRequests, UploadFulfillment, Destroy, Restore, Submit, Finish
<1>7. PartnerUpdateStatus \/ UNCHANGED vars => UNCHANGED inflight
  BY DEF PartnerUpdateStatus, ApplyRevisionRequests, vars
<1> QED BY <1>1, <1>2, <1>4, <1>5, <1>6, <1>7 DEF Next

----------------------------------------------------------------------------
(* The four ways a step can treat the status, the clock and the versions. *)
Kept == UNCHANGED <<status, clock, versions>>

Reviewed ==
  /\ status' \in {"in_review", "approved", "issued", "withdrawn"}
  /\ versions > 0
  /\ versions' = versions
  /\ status' \in OurCourt => clock'

SentBack ==
  /\ status' = "revisions_requested"
  /\ versions > 0
  /\ versions' = versions

Answered ==
  /\ ~discarded
  /\ <<"submit", status, status'>> \in Transitions
  /\ versions' = versions + 1
  /\ status = "revisions_requested" => versions > 0
  /\ clock'

(* Every step is one of these kinds. *)
LEMMA StepKinds ==
  ASSUME TypeOK, TargetsOffered, [Next]_vars
  PROVE  Kept \/ Reviewed \/ SentBack \/ Answered
<1>1. ASSUME NEW r \in Requests, TransitionStatus(r) PROVE Reviewed
  <2>1. inflight[r].target \in {"in_review", "approved", "issued", "withdrawn"}
    BY <1>1 DEF TransitionStatus, TargetsOffered
  <2>2. versions > 0
    BY <1>1, <2>1 DEF TransitionStatus, SubmissionVersionsMatchStatus, TypeOK
  <2> QED BY <1>1, <2>1, <2>2
          DEF TransitionStatus, Reviewed, QueueClock, versionVars
<1>2. ASSUME NEW r \in Requests, FinalizeRevisionRequests(r) PROVE SentBack
  BY <1>2 DEF FinalizeRevisionRequests, SentBack, HasRequestPackageItems
<1>3. ASSUME NEW r \in Requests, Submit(r) PROVE Answered
  <2>1. PICK t \in Statuses : /\ <<"submit", status, t>> \in Transitions
                              /\ status' = t
                              /\ clock' = QueueClock(status, clock, t)
    BY <1>3 DEF Submit
  <2>2. t \in OurCourt
    BY <2>1, SubmitEdges DEF OurCourt
  <2> QED BY <1>3, <2>1, <2>2 DEF Submit, HandleSubmission, Answered,
            QueueClock, SubmissionVersionsMatchStatus, HasRequestPackageItems
<1>4. CASE PartnerUpdateStatus
  <2>1. PICK t \in AvailableStatuses(status) :
          /\ status' = t
          /\ clock' = QueueClock(status, clock, t)
          /\ \/ t = "revisions_requested" /\ versions > 0
             \/ t # "revisions_requested" /\ SubmissionVersionsMatchStatus(t)
    BY <1>4 DEF PartnerUpdateStatus, ApplyRevisionRequests
  <2>2. t \in PARTNER_WRITABLE_APPLICATION_STATUSES
    BY <2>1 DEF AvailableStatuses
  <2>3. versions' = versions
    BY <1>4 DEF PartnerUpdateStatus, ApplyRevisionRequests
  <2>4. CASE t = "revisions_requested"
    BY <2>1, <2>3, <2>4 DEF SentBack
  <2>5. CASE t # "revisions_requested"
    <3>1. t \in {"in_review", "approved", "issued", "withdrawn"}
      BY <2>2, <2>5 DEF PARTNER_WRITABLE_APPLICATION_STATUSES
    <3>2. versions > 0
      BY <2>1, <2>5, <3>1 DEF SubmissionVersionsMatchStatus, TypeOK
    <3> QED BY <2>1, <2>3, <3>1, <3>2 DEF Reviewed, QueueClock
  <2> QED BY <2>4, <2>5
<1>5. ASSUME NEW r \in Requests,
             \/ Load(r) \/ PickVersion(r) \/ Abandon(r)
             \/ UpdateRevisionRequests(r) \/ PersistSubmitterNote(r)
             \/ UploadFulfillment(r) \/ Destroy(r) \/ Restore(r)
      PROVE  Kept
  BY <1>5 DEF Load, PickVersion, Abandon, UpdateRevisionRequests,
     PersistSubmitterNote, UploadFulfillment, Destroy, Restore, Kept, rowVars,
     versionVars
<1>6. CASE UNCHANGED vars
  BY <1>6 DEF vars, rowVars, versionVars, Kept
<1> QED BY <1>1, <1>2, <1>3, <1>4, <1>5, <1>6 DEF Next

(* Reviewing needs a version, submitting adds one: the count of versions     *)
(* never contradicts the status, although reviewers save stale copies.       *)
THEOREM VersionsAlwaysMatch == Spec => []VersionsMatchStatus
<1>1. Init => TargetsOffered /\ VersionsMatchStatus
  <2> SUFFICES ASSUME Init PROVE TargetsOffered /\ VersionsMatchStatus
    OBVIOUS
  <2>1. TargetsOffered
    BY DEF Init, TargetsOffered, At, Idle
  <2>2. VersionsMatchStatus
    BY DEF Init, VersionsMatchStatus
  <2> QED BY <2>1, <2>2
<1>2. TypeOK /\ TargetsOffered /\ VersionsMatchStatus /\ [Next]_vars
        => VersionsMatchStatus'
  <2> SUFFICES ASSUME TypeOK, TargetsOffered, VersionsMatchStatus, [Next]_vars
               PROVE  VersionsMatchStatus'
    OBVIOUS
  <2>1. CASE Kept
    BY <2>1 DEF Kept, VersionsMatchStatus
  <2>2. CASE Reviewed
    BY <2>2 DEF Reviewed, VersionsMatchStatus, TypeOK
  <2>3. CASE SentBack
    BY <2>3 DEF SentBack, VersionsMatchStatus, TypeOK
  <2>4. CASE Answered
    BY <2>4, SubmitEdges DEF Answered, VersionsMatchStatus, TypeOK
  <2> QED BY <2>1, <2>2, <2>3, <2>4, StepKinds
<1> QED BY <1>1, <1>2, TypeCorrect, TargetsStep, PTL DEF Spec

(* Whatever a submitting request had loaded, a version is added only for a   *)
(* kept draft, and one at a time.                                            *)
THEOREM AnswersOnceHolds == Spec => AnswersOnce
<1>1. Init => TargetsOffered
  BY DEF Init, TargetsOffered, At, Idle
<1>2. TypeOK /\ TargetsOffered /\ [Next]_vars =>
        [versions' # versions =>
           /\ versions' = versions + 1
           /\ <<"submit", status, status'>> \in Transitions
           /\ ~discarded]_vars
  BY StepKinds DEF Kept, Reviewed, SentBack, Answered
<1> QED BY <1>1, <1>2, TypeCorrect, TargetsStep, PTL DEF Spec, AnswersOnce

(* A save that leads to a status of the jurisdiction starts the clock, and   *)
(* a save of a stale copy never stops it on the way there.                   *)
THEOREM CourtClockAlwaysRuns == Spec => []CourtClockRuns
<1>1. Init => TargetsOffered /\ CourtClockRuns
  <2> SUFFICES ASSUME Init PROVE TargetsOffered /\ CourtClockRuns
    OBVIOUS
  <2>1. TargetsOffered
    BY DEF Init, TargetsOffered, At, Idle
  <2>2. CourtClockRuns
    BY DEF Init, CourtClockRuns, OurCourt
  <2> QED BY <2>1, <2>2
<1>2. TypeOK /\ TargetsOffered /\ CourtClockRuns /\ [Next]_vars => CourtClockRuns'
  BY StepKinds DEF Kept, Reviewed, SentBack, Answered, CourtClockRuns, OurCourt
<1> QED BY <1>1, <1>2, TypeCorrect, TargetsStep, PTL DEF Spec

----------------------------------------------------------------------------
(* A submitter's message leaves the unpublished state only in the step that  *)
(* adds the next version; saving it again never publishes it.                *)
THEOREM AnswersPublishedWithVersion == Spec => []AnswerPublishedWithVersion
<1>1. Init => AnswerPublishedWithVersion
  BY DEF Init, AnswerPublishedWithVersion
<1>2. TypeOK /\ AnswerPublishedWithVersion /\ [Next]_vars
        => AnswerPublishedWithVersion'
  <2> SUFFICES ASSUME TypeOK, AnswerPublishedWithVersion, [Next]_vars
               PROVE  AnswerPublishedWithVersion'
    OBVIOUS
  <2> USE DEF AnswerPublishedWithVersion
  <2>1. ASSUME NEW r \in Requests, PersistSubmitterNote(r)
        PROVE  AnswerPublishedWithVersion'
    <3>1. PICK blank \in BOOLEAN :
            submitterNote' = [submitterNote EXCEPT ![inflight[r].version] =
                                                     Upsert(@, blank)]
      BY <2>1 DEF PersistSubmitterNote
    <3>2. ASSUME NEW w \in Versions, submitterNote'[w] = "published"
          PROVE  submitterNote[w] = "published"
      BY <3>1, <3>2 DEF Upsert, TypeOK
    <3> QED BY <2>1, <3>2 DEF PersistSubmitterNote
  <2>2. ASSUME NEW r \in Requests, Submit(r) PROVE AnswerPublishedWithVersion'
    <3>1. versions' = versions + 1
      BY <2>2 DEF Submit, HandleSubmission
    <3>2. ASSUME NEW w \in Versions, submitterNote'[w] = "published"
          PROVE  submitterNote[w] = "published" \/ w = versions
      BY <2>2, <3>2 DEF Submit, HandleSubmission, TypeOK
    <3> QED BY <3>1, <3>2 DEF TypeOK, Versions
  <2>3. ASSUME UNCHANGED <<versions, submitterNote>>
        PROVE  AnswerPublishedWithVersion'
    BY <2>3
  <2>4. ASSUME NEW r \in Requests,
               \/ Load(r) \/ PickVersion(r) \/ Abandon(r)
               \/ TransitionStatus(r) \/ FinalizeRevisionRequests(r)
               \/ UpdateRevisionRequests(r) \/ UploadFulfillment(r)
               \/ Destroy(r) \/ Restore(r)
        PROVE  UNCHANGED <<versions, submitterNote>>
    BY <2>4 DEF Load, PickVersion, Abandon, TransitionStatus,
       FinalizeRevisionRequests, UpdateRevisionRequests, UploadFulfillment,
       Destroy, Restore, versionVars
  <2>5. PartnerUpdateStatus \/ UNCHANGED vars => UNCHANGED <<versions, submitterNote>>
    BY DEF PartnerUpdateStatus, ApplyRevisionRequests, vars, versionVars
  <2> QED BY <2>1, <2>2, <2>3, <2>4, <2>5 DEF Next
<1> QED BY <1>1, <1>2, TypeCorrect, PTL DEF Spec

----------------------------------------------------------------------------
(* Requests in flight belong to endpoints in use. *)
InUse == \A r \in Requests : inflight[r].step # "idle" => inflight[r].handler \in Handlers

(* The two endpoints that decide a status on an unlocked copy. *)
Unlocked == {"transition_status", "finalize_revision_requests"}

(* Requests keep to the endpoints in use. *)
LEMMA InUseStep == TypeOK /\ InUse /\ [Next]_vars => InUse'
<1> SUFFICES ASSUME TypeOK, InUse, [Next]_vars PROVE InUse'
  OBVIOUS
<1>1. CASE UNCHANGED inflight
  BY <1>1 DEF InUse
<1>2. ASSUME NEW r \in Requests, Load(r) PROVE InUse'
  BY <1>2 DEF Load, InUse, TypeOK
<1>3. ASSUME NEW r \in Requests, inflight' = [inflight EXCEPT ![r] = Idle]
      PROVE  InUse'
  BY <1>3 DEF InUse, Idle, TypeOK
<1>4. ASSUME NEW r \in Requests, PickVersion(r) PROVE InUse'
  BY <1>4 DEF PickVersion, NeedsVersion, Pick, InUse, TypeOK, Request
<1>5. ASSUME NEW r \in Requests, PersistSubmitterNote(r) PROVE InUse'
  BY <1>3, <1>5 DEF PersistSubmitterNote, Finish, InUse, TypeOK, Request
<1>6. ASSUME NEW r \in Requests,
             \/ Abandon(r) \/ TransitionStatus(r) \/ FinalizeRevisionRequests(r)
             \/ UpdateRevisionRequests(r) \/ UploadFulfillment(r)
             \/ Destroy(r) \/ Restore(r) \/ Submit(r)
      PROVE  InUse'
  BY <1>3, <1>6 DEF Abandon, TransitionStatus, FinalizeRevisionRequests,
     UpdateRevisionRequests, UploadFulfillment, Destroy, Restore, Submit, Finish
<1>7. PartnerUpdateStatus \/ UNCHANGED vars => UNCHANGED inflight
  BY DEF PartnerUpdateStatus, ApplyRevisionRequests, vars
<1> QED BY <1>1, <1>2, <1>4, <1>5, <1>6, <1>7 DEF Next

(* A partner never submits. *)
LEMMA PartnerEventNotSubmit ==
  ASSUME NEW t \in PARTNER_WRITABLE_APPLICATION_STATUSES
  PROVE  PartnerEvent(t) # "submit"
BY DEF PARTNER_WRITABLE_APPLICATION_STATUSES, PartnerEvent, STATUS_EVENT_MAP

(* A copy of the row as it is now leaves the clock where the target wants it. *)
LEMMA FreshCopyClock ==
  ASSUME TypeOK, ClockMatchesCourt, NEW t
  PROVE  QueueClock(status, clock, t) = (t \in OurCourt)
<1>1. /\ t \in OurCourt => QueueClock(status, clock, t) = TRUE
      /\ t \notin OurCourt => QueueClock(status, clock, t) = FALSE
  <2>1. CASE status \in OurCourt
    <3>1. clock = TRUE
      BY <2>1 DEF ClockMatchesCourt, TypeOK
    <3> QED BY <2>1, <3>1 DEF QueueClock
  <2>2. CASE status \notin OurCourt
    <3>1. clock = FALSE
      BY <2>2 DEF ClockMatchesCourt, TypeOK
    <3> QED BY <2>2, <3>1 DEF QueueClock
  <2> QED BY <2>1, <2>2
<1>2. CASE t \in OurCourt
  BY <1>1, <1>2
<1>3. CASE t \notin OurCourt
  <2>1. (t \in OurCourt) = FALSE
    BY <1>3, SMT
  <2> QED BY <1>1, <1>3, <2>1
<1> QED BY <1>2, <1>3

(* The lifecycle's tables are the application's. *)
LEMMA SameTables ==
  Lifecycle!Transitions = Transitions /\ Lifecycle!OurCourt = OurCourt
BY DEF Lifecycle!Transitions, Transitions, Lifecycle!OurCourt, OurCourt

(* When every status write takes the row lock, each step of the application  *)
(* is a step of its lifecycle or leaves it as it is.                         *)
LEMMA LockedStep ==
  ASSUME Handlers \cap Unlocked = {}, TypeOK, InUse, ClockMatchesCourt,
         [Next]_vars
  PROVE  [Lifecycle!Next]_(Lifecycle!lifecycleVars) /\ ClockMatchesCourt'
<1> USE DEF ClockMatchesCourt
<1>1. ASSUME NEW r \in Requests, TransitionStatus(r) \/ FinalizeRevisionRequests(r)
      PROVE  FALSE
  BY <1>1 DEF TransitionStatus, FinalizeRevisionRequests, At, InUse, Unlocked
<1>2. ASSUME NEW r \in Requests, Submit(r)
      PROVE  Lifecycle!Move /\ ClockMatchesCourt'
  <2>1. PICK t \in Statuses : /\ <<"submit", status, t>> \in Transitions
                              /\ status' = t
                              /\ clock' = QueueClock(status, clock, t)
    BY <1>2 DEF Submit
  <2>2. versions' = versions + 1 /\ versions' >= 1
    BY <1>2 DEF Submit, HandleSubmission, TypeOK
  <2>3. clock' = (status' \in OurCourt)
    BY <2>1, FreshCopyClock
  <2>4. \E tr \in Transitions : /\ status = tr[2]
                                /\ status' = tr[3]
                                /\ versions' = IF tr[1] = "submit"
                                               THEN versions + 1 ELSE versions
    <3>1. <<"submit", status, t>> \in Transitions
      BY <2>1
    <3> WITNESS <<"submit", status, t>> \in Transitions
    <3> QED BY <2>1, <2>2
  <2>5. ClockMatchesCourt'
    BY <2>3
  <2>6. Lifecycle!Move
    BY <1>2, <2>2, <2>3, <2>4, SameTables DEF Submit, Lifecycle!Move
  <2> QED BY <2>5, <2>6
<1>3. CASE PartnerUpdateStatus
  <2>1. PICK t \in AvailableStatuses(status) :
          /\ status' = t
          /\ clock' = QueueClock(status, clock, t)
          /\ \/ versions > 0
             \/ t # "revisions_requested" /\ SubmissionVersionsMatchStatus(t)
    BY <1>3 DEF PartnerUpdateStatus, ApplyRevisionRequests
  <2>2. /\ t \in PARTNER_WRITABLE_APPLICATION_STATUSES
        /\ <<PartnerEvent(t), status, t>> \in Transitions
    BY <2>1 DEF AvailableStatuses
  <2>3. versions' = versions /\ versions' >= 1
    BY <1>3, <2>1, <2>2 DEF PartnerUpdateStatus, ApplyRevisionRequests, TypeOK,
       SubmissionVersionsMatchStatus, PARTNER_WRITABLE_APPLICATION_STATUSES
  <2>4. clock' = (status' \in OurCourt)
    BY <2>1, FreshCopyClock
  <2>5. \E tr \in Transitions : /\ status = tr[2]
                                /\ status' = tr[3]
                                /\ versions' = IF tr[1] = "submit"
                                               THEN versions + 1 ELSE versions
    <3>1. <<PartnerEvent(t), status, t>> \in Transitions
      BY <2>2
    <3>2. PartnerEvent(t) # "submit"
      BY <2>2, PartnerEventNotSubmit
    <3> WITNESS <<PartnerEvent(t), status, t>> \in Transitions
    <3> QED BY <2>1, <2>3, <3>2
  <2>6. ClockMatchesCourt'
    BY <2>4
  <2>7. Lifecycle!Move
    BY <1>3, <2>3, <2>4, <2>5, SameTables DEF PartnerUpdateStatus, ApplyRevisionRequests, Lifecycle!Move
  <2> QED BY <2>6, <2>7 DEF Lifecycle!Next
<1>4. ASSUME NEW r \in Requests, Destroy(r) \/ Restore(r)
      PROVE  /\ Lifecycle!Bin \/ UNCHANGED Lifecycle!lifecycleVars
             /\ ClockMatchesCourt'
  BY <1>4 DEF Destroy, Restore, Lifecycle!Bin, Lifecycle!lifecycleVars,
     versionVars, TypeOK
<1>5. ASSUME NEW r \in Requests,
             \/ Load(r) \/ PickVersion(r) \/ Abandon(r)
             \/ UpdateRevisionRequests(r) \/ PersistSubmitterNote(r)
             \/ UploadFulfillment(r)
      PROVE  UNCHANGED Lifecycle!lifecycleVars /\ ClockMatchesCourt'
  BY <1>5 DEF Load, PickVersion, Abandon, UpdateRevisionRequests,
     PersistSubmitterNote, UploadFulfillment, Lifecycle!lifecycleVars, rowVars,
     versionVars
<1>6. CASE UNCHANGED vars
  BY <1>6 DEF vars, rowVars, versionVars, Lifecycle!lifecycleVars
<1> QED BY <1>1, <1>2, <1>3, <1>4, <1>5, <1>6 DEF Next, Lifecycle!Next

(* The promised lifecycle holds for any number of overlapping requests as    *)
(* long as no board move and no finalisation, which skip the row lock, is    *)
(* among them.                                                               *)
THEOREM LockedRefinesLifecycle ==
  ASSUME Handlers \cap Unlocked = {}
  PROVE  Spec => RefinesLifecycle
<1>1. Init => Lifecycle!Init /\ InUse /\ ClockMatchesCourt
  BY DEF Init, Lifecycle!Init, InUse, Idle, ClockMatchesCourt, OurCourt
<1>2. TypeOK /\ InUse /\ ClockMatchesCourt /\ [Next]_vars
        => [Lifecycle!Next]_(Lifecycle!lifecycleVars) /\ ClockMatchesCourt'
  BY LockedStep
<1> QED BY <1>1, <1>2, TypeCorrect, InUseStep, PTL
        DEF Spec, RefinesLifecycle, Lifecycle!Spec
============================================================================
