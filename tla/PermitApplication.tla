------------------------- MODULE PermitApplication -------------------------
(***************************************************************************)
(* One permit application row, its submission versions and the web         *)
(* requests that change them concurrently.                                 *)
(*                                                                         *)
(* A staff or submitter request loads the row without a lock, authorises   *)
(* on that copy and acts on it in a later step, so other requests may      *)
(* commit in between.  Only submitting and the partner system's status     *)
(* write take the row lock and re-read the row before they decide.         *)
(***************************************************************************)
EXTENDS Naturals, ApplicationStatus

CONSTANTS
  Requests,     \* web requests that can be in flight at the same time
  Handlers,     \* the endpoints in use
  MaxVersions   \* bound on the submission versions of the application

AllHandlers == {"transition_status", "finalize_revision_requests",
                "update_revision_requests", "update_submitter_note",
                "upload_fulfillment", "submit", "destroy", "restore",
                "update_status"}

ASSUME HandlersAssumption == Handlers \subseteq AllHandlers
ASSUME MaxVersionsAssumption == MaxVersions \in Nat \ {0}

VARIABLES
  status,            \* column status
  discarded,         \* discarded_at is set
  clock,             \* queue_clock_started_at is set
  versions,          \* number of submission versions; the last is the latest
  package,           \* per version: has at least one revision request
  jurisdictionNote,  \* per version: the jurisdiction's revision message
  submitterNote,     \* per version: the submitter's answer to it
  fulfillment,       \* per version: files uploaded for its requests
  inflight           \* per request: what it has loaded so far

rowVars     == <<status, discarded, clock>>
versionVars == <<versions, package, jurisdictionNote, submitterNote,
                 fulfillment>>
vars        == <<rowVars, versionVars, inflight>>

Versions == 1..MaxVersions
NoteStates == {"none", "unpublished", "published"}
FileStates == {"none", "loose", "assigned"}

(***************************************************************************)
(* A request in flight: the step it reached, its endpoint, the copy of the *)
(* row it works on, the version it picked and the target it was sent.      *)
(***************************************************************************)
Request == [step    : {"idle", "loaded", "picked", "noted"},
            handler : AllHandlers,
            target  : Statuses,
            status  : Statuses,
            clock   : BOOLEAN,
            version : 0..MaxVersions]

Idle == [step |-> "idle", handler |-> "submit", target |-> "new_draft",
         status |-> "new_draft", clock |-> FALSE, version |-> 0]

TypeOK ==
  /\ status \in Statuses
  /\ discarded \in BOOLEAN
  /\ clock \in BOOLEAN
  /\ versions \in 0..MaxVersions
  /\ package \in [Versions -> BOOLEAN]
  /\ jurisdictionNote \in [Versions -> NoteStates]
  /\ submitterNote \in [Versions -> NoteStates]
  /\ fulfillment \in [Versions -> FileStates]
  /\ inflight \in [Requests -> Request]

Init ==
  /\ status = "new_draft"
  /\ discarded = FALSE
  /\ clock = FALSE
  /\ versions = 0
  /\ package = [v \in Versions |-> FALSE]
  /\ jurisdictionNote = [v \in Versions |-> "none"]
  /\ submitterNote = [v \in Versions |-> "none"]
  /\ fulfillment = [v \in Versions |-> "none"]
  /\ inflight = [r \in Requests |-> Idle]

----------------------------------------------------------------------------
(* Helpers on the row *)

(* Wrong on purpose: any version counts as a package (see PackageNotEmpty). *)
HasVersion == versions > 0

HasRequestPackageItems == versions > 0 /\ package[versions]

(* The model validation every save of the application runs: s is the status *)
(* in the copy being saved, the versions are counted in the database.       *)
SubmissionVersionsMatchStatus(s) ==
  CASE s = "new_draft"           -> versions = 0
    [] s = "revisions_requested" -> HasRequestPackageItems
    [] s = "resubmitted"         -> versions >= 2
    [] OTHER                     -> versions >= 1

(* Wrong on purpose: stops the clock after starting it (see CourtClockRuns). *)
StopClockLast(s, c, t) ==
  IF s \in OurCourt /\ c THEN FALSE
  ELSE IF t \in OurCourt THEN TRUE
  ELSE clock

(* Wrong on purpose: never stops the clock (see RefinesLifecycle). *)
NeverStopClock(s, c, t) == clock \/ t \in OurCourt

(* The clock column after a save that moves a copy with status s and clock  *)
(* c to status t.  The column is written only if the copy's value changes.  *)
QueueClock(s, c, t) ==
  IF t \in OurCourt THEN TRUE
  ELSE IF s \in OurCourt /\ c THEN FALSE
  ELSE clock

(* Wrong on purpose: a saved message is visible at once (see                *)
(* AnswerPublishedWithVersion).                                             *)
UpsertVisible(note, blank) == IF blank THEN "none" ELSE "published"

(* find_or_initialize_by, then save, or destroy when the body is blank *)
Upsert(note, blank) ==
  IF blank THEN "none" ELSE IF note = "none" THEN "unpublished" ELSE note

Publish(note) == IF note = "unpublished" THEN "published" ELSE note

(* The request ends: the response is rendered. *)
Finish(r) == inflight' = [inflight EXCEPT ![r] = Idle]

At(r, step, h) == inflight[r].step = step /\ inflight[r].handler = h

----------------------------------------------------------------------------
(* Loading and authorising *)

(* The targets offered for a board move. *)
AllowedManualTransitions == IF discarded THEN {} ELSE MANUAL_TRANSITIONS[status]

MayDestroy == status \in Draft

(* What the policy asks of the loaded row before handler h may go on.  A    *)
(* discarded copy fires no event; discarding one twice does nothing.        *)
Authorized(h, t) ==
  \/ h = "transition_status" /\ t \in AllowedManualTransitions
  \/ /\ t = status
     /\ \/ h = "finalize_revision_requests" /\ status \in Submitted /\ ~discarded
        \/ h = "update_revision_requests" /\ status \in Submitted
        \/ /\ h \in {"update_submitter_note", "upload_fulfillment"}
           /\ status = "revisions_requested"
        \/ h = "destroy" /\ MayDestroy /\ ~discarded
        \/ h = "restore" /\ discarded
        \/ h = "submit"

(* before_action :set_permit_application, then authorize *)
Load(r) ==
  /\ inflight[r].step = "idle"
  /\ \E h \in Handlers, t \in Statuses :
       /\ Authorized(h, t)
       /\ inflight' = [inflight EXCEPT ![r] =
            [step |-> "loaded", handler |-> h, target |-> t,
             status |-> status, clock |-> clock, version |-> 0]]
  /\ UNCHANGED <<rowVars, versionVars>>

(* The handlers that look up a version, and when. *)
NeedsVersion(r) ==
  /\ inflight[r].step = "loaded"
  /\ \/ inflight[r].handler = "update_revision_requests"
     \/ /\ inflight[r].handler \in {"update_submitter_note", "submit"}
        /\ inflight[r].status = "revisions_requested"
     \/ /\ inflight[r].handler = "upload_fulfillment"
        /\ SubmissionVersionsMatchStatus("revisions_requested")

Pick(r, v) ==
  inflight' = [inflight EXCEPT ![r].step = "picked", ![r].version = v]

(* Wrong on purpose: the earliest version (see AnsweredPackageFrozen) or the *)
(* one about to be created (see TypeOK).                                     *)
PickEarliestVersion(r) ==
  /\ NeedsVersion(r)
  /\ Pick(r, IF versions = 0 THEN 0 ELSE 1)
  /\ UNCHANGED <<rowVars, versionVars>>

PickNextVersion(r) ==
  /\ NeedsVersion(r)
  /\ Pick(r, versions + 1)
  /\ UNCHANGED <<rowVars, versionVars>>

(* latest_submission_version is queried when the handler needs it, after    *)
(* the row was loaded; a fulfilment upload also validates the application   *)
(* here, before its insert.                                                 *)
PickVersion(r) ==
  /\ NeedsVersion(r)
  /\ Pick(r, versions)
  /\ UNCHANGED <<rowVars, versionVars>>

(* The request is refused, fails or its process dies before it writes. *)
Abandon(r) ==
  /\ inflight[r].step # "idle"
  /\ Finish(r)
  /\ UNCHANGED <<rowVars, versionVars>>

----------------------------------------------------------------------------
(* Endpoints that act on the copy they loaded *)

(* The event fires on the copy; the save writes the new status over         *)
(* whatever the row holds by now.                                           *)
TransitionStatus(r) ==
  /\ At(r, "loaded", "transition_status")
  /\ LET copy == inflight[r] IN
       /\ <<STATUS_EVENT_MAP[copy.target], copy.status, copy.target>> \in Transitions
       /\ SubmissionVersionsMatchStatus(copy.target)
       /\ status' = copy.target
       /\ clock' = QueueClock(copy.status, copy.clock, copy.target)
  /\ Finish(r)
  /\ UNCHANGED <<discarded, versionVars>>

(* Wrong on purpose: publishes nothing (see MessageDelivered). *)
FinalizeSilently(r) ==
  /\ At(r, "loaded", "finalize_revision_requests")
  /\ LET copy == inflight[r] IN
       /\ copy.status \in OurCourt
       /\ clock' = QueueClock(copy.status, copy.clock, "revisions_requested")
  /\ HasRequestPackageItems
  /\ status' = "revisions_requested"
  /\ Finish(r)
  /\ UNCHANGED <<discarded, versionVars>>

(* Sends the open package of the latest version to the submitter. *)
FinalizeRevisionRequests(r) ==
  /\ At(r, "loaded", "finalize_revision_requests")
  /\ LET copy == inflight[r] IN
       /\ copy.status \in OurCourt
       /\ clock' = QueueClock(copy.status, copy.clock, "revisions_requested")
  /\ HasRequestPackageItems
  /\ status' = "revisions_requested"
  /\ jurisdictionNote' = [jurisdictionNote EXCEPT ![versions] = Publish(@)]
  /\ Finish(r)
  /\ UNCHANGED <<discarded, versions, package, submitterNote, fulfillment>>

(* Adds, edits or removes requests of the picked version, the files with    *)
(* them, and saves its message when one is sent.                            *)
UpdateRevisionRequests(r) ==
  /\ At(r, "picked", "update_revision_requests")
  /\ LET v == inflight[r].version IN
       /\ v > 0
       /\ \E items, files \in BOOLEAN :
            /\ package' = [package EXCEPT ![v] = items]
            /\ fulfillment' = [fulfillment EXCEPT ![v] =
                                 IF items /\ files THEN @ ELSE "none"]
       /\ \/ UNCHANGED jurisdictionNote
          \/ \E blank \in BOOLEAN :
               jurisdictionNote' = [jurisdictionNote EXCEPT ![v] = Upsert(@, blank)]
  /\ Finish(r)
  /\ UNCHANGED <<rowVars, versions, submitterNote>>

(* The submitter's answer, saved on its own or first thing in a submit. *)
PersistSubmitterNote(r) ==
  /\ inflight[r].step = "picked"
  /\ inflight[r].handler \in {"update_submitter_note", "submit"}
  /\ LET v == inflight[r].version IN
       /\ v > 0
       /\ \E blank \in BOOLEAN :
            submitterNote' = [submitterNote EXCEPT ![v] = Upsert(@, blank)]
  /\ IF inflight[r].handler = "submit"
     THEN inflight' = [inflight EXCEPT ![r].step = "noted"]
     ELSE Finish(r)
  /\ UNCHANGED <<rowVars, versions, package, jurisdictionNote, fulfillment>>

(* A file for a request of the picked version, if the request still exists. *)
UploadFulfillment(r) ==
  /\ At(r, "picked", "upload_fulfillment")
  /\ LET v == inflight[r].version IN
       /\ v > 0
       /\ package[v]
       /\ fulfillment' = [fulfillment EXCEPT ![v] = "loose"]
  /\ Finish(r)
  /\ UNCHANGED <<rowVars, versions, package, jurisdictionNote, submitterNote>>

Destroy(r) ==
  /\ At(r, "loaded", "destroy")
  /\ discarded' = TRUE
  /\ Finish(r)
  /\ UNCHANGED <<status, clock, versionVars>>

Restore(r) ==
  /\ At(r, "loaded", "restore")
  /\ discarded' = FALSE
  /\ Finish(r)
  /\ UNCHANGED <<status, clock, versionVars>>

----------------------------------------------------------------------------
(* Endpoints that decide under the row lock *)

(* Wrong on purpose: the new version is taken for the answered one (see     *)
(* AnswersComplete).                                                        *)
HandleSubmissionOnNewVersion ==
  /\ versions < MaxVersions
  /\ versions' = versions + 1
  /\ submitterNote' = [submitterNote EXCEPT ![versions + 1] = Publish(@)]
  /\ fulfillment' = [fulfillment EXCEPT ![versions + 1] =
                       IF @ = "loose" THEN "assigned" ELSE @]

(* handle_submission: publishes the submitter's message of the answered     *)
(* version, adds a version and moves the answered version's files to it.    *)
HandleSubmission ==
  /\ versions < MaxVersions
  /\ versions' = versions + 1
  /\ IF versions = 0
     THEN UNCHANGED <<submitterNote, fulfillment>>
     ELSE /\ submitterNote' = [submitterNote EXCEPT ![versions] = Publish(@)]
          /\ fulfillment' = [fulfillment EXCEPT ![versions] =
                               IF @ = "loose" THEN "assigned" ELSE @]

(* Wrong on purpose: decides on the copy loaded before the lock (see        *)
(* VersionsMatchStatus and AnswersOnce).                                    *)
SubmitStaleCopy(r) ==
  /\ inflight[r].handler = "submit"
  /\ inflight[r].step \in {"loaded", "noted"}
  /\ \E t \in Statuses :
       /\ <<"submit", inflight[r].status, t>> \in Transitions
       /\ status' = t
       /\ clock' = QueueClock(inflight[r].status, inflight[r].clock, t)
  /\ HandleSubmission
  /\ Finish(r)
  /\ UNCHANGED <<discarded, package, jurisdictionNote>>

(* with_lock re-reads the row; the form must save, the event must fire. *)
Submit(r) ==
  /\ inflight[r].handler = "submit"
  /\ inflight[r].step \in {"loaded", "noted"}
  /\ ~discarded
  /\ SubmissionVersionsMatchStatus(status)
  /\ \E t \in Statuses :
       /\ <<"submit", status, t>> \in Transitions
       /\ status' = t
       /\ clock' = QueueClock(status, clock, t)
  /\ HandleSubmission
  /\ Finish(r)
  /\ UNCHANGED <<discarded, package, jurisdictionNote>>

(* A partner's package replaces the one of the latest version, files and    *)
(* all, and its message goes out with it.                                   *)
ApplyRevisionRequests ==
  /\ versions > 0
  /\ package' = [package EXCEPT ![versions] = TRUE]
  /\ fulfillment' = [fulfillment EXCEPT ![versions] = "none"]
  /\ \E blank \in BOOLEAN :
       jurisdictionNote' =
         [jurisdictionNote EXCEPT ![versions] = Publish(Upsert(@, blank))]

(* A partner system writes a status, in one transaction under the row lock. *)
PartnerUpdateStatus ==
  /\ "update_status" \in Handlers
  /\ status # "new_draft"
  /\ ~discarded
  /\ \E t \in AvailableStatuses(status) :
       /\ status' = t
       /\ clock' = QueueClock(status, clock, t)
       /\ IF t = "revisions_requested"
          THEN ApplyRevisionRequests
          ELSE /\ SubmissionVersionsMatchStatus(t)
               /\ UNCHANGED <<package, jurisdictionNote, fulfillment>>
  /\ UNCHANGED <<discarded, versions, submitterNote, inflight>>

----------------------------------------------------------------------------
Next ==
  \/ PartnerUpdateStatus
  \/ \E r \in Requests :
       \/ Load(r)
       \/ PickVersion(r)
       \/ Abandon(r)
       \/ TransitionStatus(r)
       \/ FinalizeRevisionRequests(r)
       \/ UpdateRevisionRequests(r)
       \/ PersistSubmitterNote(r)
       \/ UploadFulfillment(r)
       \/ Destroy(r)
       \/ Restore(r)
       \/ Submit(r)

Spec == Init /\ [][Next]_vars

----------------------------------------------------------------------------
(* Properties *)

(* The status and the number of versions agree, whatever requests overlap:  *)
(* a new draft has none, a first submission exactly one, a resubmission at  *)
(* least two (two racing submits may not both count).                       *)
VersionsMatchStatus ==
  /\ status = "new_draft" <=> versions = 0
  /\ status = "newly_submitted" => versions = 1
  /\ status = "resubmitted" => versions >= 2

(* A version is added exactly when a kept draft is submitted, one at a      *)
(* time, whatever the submitting request had loaded.                        *)
AnswersOnce ==
  [][versions' # versions =>
       /\ versions' = versions + 1
       /\ <<"submit", status, status'>> \in Transitions
       /\ ~discarded]_vars

(* While the application is with the jurisdiction its queue clock runs, even *)
(* when a stale copy was saved over a newer row.                             *)
CourtClockRuns == status \in OurCourt => clock

(* A submitter's message is published only by the submission that answers   *)
(* its version, so the message of the latest version is never visible.      *)
AnswerPublishedWithVersion ==
  \A v \in Versions : submitterNote[v] = "published" => v < versions

(* Nothing the submitter sent with an answered version is left behind: its  *)
(* message is published and its files belong to the next version.           *)
AnswersComplete ==
  \A v \in Versions :
    v < versions => submitterNote[v] # "unpublished" /\ fulfillment[v] # "loose"

(* An application sent back for revisions has something to revise.  The     *)
(* model validation demands it of every later save.                         *)
PackageNotEmpty == status = "revisions_requested" => versions > 0 /\ package[versions]

(* An application sent back carries the jurisdiction's message with it. *)
MessageDelivered ==
  status = "revisions_requested" => jurisdictionNote[versions] # "unpublished"

(* While the jurisdiction still edits a package, its message is hidden from  *)
(* the submitter.                                                            *)
DraftMessageHidden ==
  status \in OurCourt => jurisdictionNote[versions] # "published"

(* The revision requests of an answered version are history. *)
AnsweredPackageFrozen ==
  [][\A v \in Versions : v < versions => package'[v] = package[v]]_vars

(* Time with the jurisdiction is counted in its statuses and in no other. *)
ClockMatchesCourt == clock <=> status \in OurCourt

(* The row as its callers are told to see it. *)
Lifecycle == INSTANCE ApplicationLifecycle
               WITH status <- status, discarded <- discarded,
                    clock <- clock, versions <- versions
RefinesLifecycle == Lifecycle!Spec
============================================================================
