------------------- MODULE PermitApplicationRoundsProofs -------------------
(***************************************************************************)
(* The rounds of submission and revision, for any number of versions, of   *)
(* requests one after the other: what is sent back can be answered, what   *)
(* is answered is complete and final, and the row keeps its lifecycle.     *)
(* What a package without portal edits keeps however requests overlap.     *)
(***************************************************************************)
EXTENDS PermitApplicationProofs

(* At most one request at a time, and no partner system. *)
OneAtATime ==
  /\ \A a, b \in Requests : a = b
  /\ "update_status" \notin Handlers

----------------------------------------------------------------------------
(* The inductive invariant *)

(* The copy is the row, and what the policy allowed is still allowed. *)
CopyFresh ==
  \A r \in Requests : inflight[r].step # "idle" =>
    /\ inflight[r].status = status
    /\ inflight[r].clock = clock
    /\ Authorized(inflight[r].handler, inflight[r].target)

(* The picked version is the latest; a submitter's request picked it to      *)
(* answer a package, and no answer is given without one.                     *)
PickedLatest ==
  \A r \in Requests : inflight[r].step = "picked" =>
    /\ inflight[r].version = versions
    /\ inflight[r].handler # "update_revision_requests" => status = "revisions_requested"

(* The message of the latest version stays hidden until it is sent back. *)
MessageHidden == status \in Submitted => jurisdictionNote[versions] # "published"

(* Nobody writes to a version that is to come. *)
NothingAhead == \A v \in Versions : v > versions => jurisdictionNote[v] = "none"

Held == CopyFresh /\ PickedLatest

Rounds ==
  /\ ClockMatchesCourt
  /\ PackageNotEmpty
  /\ AnswersComplete
  /\ MessageDelivered
  /\ MessageHidden
  /\ NothingAhead

(* What a step does to earlier packages and to the lifecycle. *)
StepKept ==
  /\ \A v \in Versions : v < versions => package'[v] = package[v]
  /\ [Lifecycle!Next]_(Lifecycle!lifecycleVars)

(* All that is known where a step begins. *)
Before == OneAtATime /\ TypeOK /\ VersionsMatchStatus /\ Held /\ Rounds

(* A request in flight has a number for its version and a known target. *)
LEMMA InFlightTyped ==
  ASSUME TypeOK, NEW r \in Requests
  PROVE  inflight[r] \in Request /\ inflight[r].version \in 0..MaxVersions
<1>1. inflight[r] \in Request
  BY DEF TypeOK
<1> QED
  BY <1>1 DEF Request

(* Every status is one of a draft or of a submitted application. *)
LEMMA DraftOrSubmitted ==
  ASSUME TypeOK
  PROVE  /\ status \in {"new_draft", "revisions_requested"} \cup Submitted
         /\ "revisions_requested" \notin Submitted /\ "new_draft" \notin Submitted
         /\ OurCourt \subseteq Submitted
BY DEF TypeOK, Statuses, Draft, Submitted, OurCourt

(* When the only request ends, none is in flight. *)
LEMMA EndHolds ==
  ASSUME Before, NEW r \in Requests, Finish(r)
  PROVE  Held'
<1>1. \A s \in Requests : inflight'[s].step = "idle"
  BY DEF Before, OneAtATime, TypeOK, Finish, Idle
<1> QED
  BY <1>1 DEF Held, CopyFresh, PickedLatest

----------------------------------------------------------------------------
(* Steps of a request before it writes *)

(* Loading copies the row, picking takes its latest version. *)
LEMMA ReadKeeps ==
  ASSUME Before, NEW r \in Requests, Load(r) \/ PickVersion(r) \/ Abandon(r)
  PROVE  Held' /\ Rounds' /\ StepKept
<1>1. UNCHANGED <<rowVars, versionVars>>
  BY DEF Load, PickVersion, Abandon
<1>2. Rounds' /\ StepKept
  BY <1>1 DEF Before, Rounds, ClockMatchesCourt, PackageNotEmpty, AnswersComplete,
     MessageDelivered, MessageHidden, NothingAhead, StepKept,
     Lifecycle!lifecycleVars, rowVars, versionVars
<1>3. \A s \in Requests : s = r
  BY DEF Before, OneAtATime
<1>4. \A h, t : Authorized(h, t) => Authorized(h, t)'
  BY <1>1 DEF Authorized, AllowedManualTransitions, MayDestroy, rowVars
<1>5. CASE Load(r)
  <2>1. PICK h \in Handlers, t \in Statuses :
          /\ Authorized(h, t)
          /\ inflight' = [inflight EXCEPT ![r] =
               [step |-> "loaded", handler |-> h, target |-> t,
                status |-> status, clock |-> clock, version |-> 0]]
    BY <1>5 DEF Load
  <2>2. /\ inflight'[r].step = "loaded" /\ inflight'[r].handler = h
        /\ inflight'[r].target = t /\ inflight'[r].status = status
        /\ inflight'[r].clock = clock
    BY <2>1 DEF Before, TypeOK
  <2> QED
    BY <1>1, <1>2, <1>3, <1>4, <2>1, <2>2 DEF Held, CopyFresh, PickedLatest, rowVars
<1>6. CASE PickVersion(r)
  <2>1. /\ inflight'[r].step = "picked" /\ inflight'[r].version = versions
        /\ inflight'[r].handler = inflight[r].handler
        /\ inflight'[r].target = inflight[r].target
        /\ inflight'[r].status = inflight[r].status
        /\ inflight'[r].clock = inflight[r].clock
    BY <1>6 DEF PickVersion, Pick, Before, TypeOK, Request
  <2>2. /\ inflight[r].status = status /\ inflight[r].clock = clock
        /\ Authorized(inflight[r].handler, inflight[r].target)
    BY <1>6 DEF PickVersion, NeedsVersion, Before, Held, CopyFresh
  <2>3. inflight[r].handler # "update_revision_requests" => status = "revisions_requested"
    BY <1>6, <2>2 DEF PickVersion, NeedsVersion, Authorized
  <2> QED
    BY <1>1, <1>2, <1>3, <1>4, <2>1, <2>2, <2>3
       DEF Held, CopyFresh, PickedLatest, rowVars, versionVars
<1>7. CASE Abandon(r)
  BY <1>2, <1>7, EndHolds DEF Abandon
<1> QED
  BY <1>5, <1>6, <1>7

(* The bin is no part of the rounds. *)
LEMMA BinKeeps ==
  ASSUME Before, NEW r \in Requests, Destroy(r) \/ Restore(r)
  PROVE  Held' /\ Rounds' /\ StepKept
<1>1. UNCHANGED <<status, clock, versionVars>> /\ Finish(r)
  BY DEF Destroy, Restore
<1>2. Lifecycle!Bin \/ UNCHANGED Lifecycle!lifecycleVars
  BY DEF Before, TypeOK, Destroy, Restore, Lifecycle!Bin, Lifecycle!lifecycleVars,
     versionVars
<1> QED
  BY <1>1, <1>2, EndHolds DEF Before, Rounds, ClockMatchesCourt, PackageNotEmpty,
     AnswersComplete, MessageDelivered, MessageHidden, NothingAhead, StepKept,
     Lifecycle!Next, versionVars

----------------------------------------------------------------------------
(* The jurisdiction's side of a round *)

(* The copy a decision is made on is the row. *)
LEMMA DecidedOnRow ==
  ASSUME Before, NEW r \in Requests, inflight[r].step # "idle"
  PROVE  /\ inflight[r].status = status /\ inflight[r].clock = clock
         /\ Authorized(inflight[r].handler, inflight[r].target)
BY DEF Before, Held, CopyFresh

(* A decision moves the status along the state machine and not in the bin.   *)
LEMMA DecisionMoves ==
  ASSUME Before, ~discarded, UNCHANGED <<discarded, versions>>, versions > 0,
         NEW e, e # "submit", NEW t, <<e, status, t>> \in Transitions,
         status' = t, clock' = QueueClock(status, clock, t)
  PROVE  StepKept <=> \A v \in Versions : v < versions => package'[v] = package[v]
<1>1. clock' = (status' \in OurCourt)
  BY FreshCopyClock DEF Before, Rounds
<1>2. versions' = versions /\ versions' >= 1
  BY DEF Before, TypeOK
<1>3. \E tr \in Transitions : /\ status = tr[2]
                              /\ status' = tr[3]
                              /\ versions' = IF tr[1] = "submit"
                                             THEN versions + 1 ELSE versions
  <2>1. <<e, status, t>> \in Transitions
    OBVIOUS
  <2> WITNESS <<e, status, t>> \in Transitions
  <2> QED
    BY <1>2
<1>4. Lifecycle!Move
  BY <1>1, <1>2, <1>3, SameTables DEF Lifecycle!Move
<1> QED
  BY <1>4 DEF StepKept, Lifecycle!Next

(* A board move decides on the row as it is; a published message never       *)
(* comes back into the jurisdiction's hands by it.                           *)
LEMMA TransitionKeeps ==
  ASSUME Before, NEW r \in Requests, TransitionStatus(r)
  PROVE  Held' /\ Rounds' /\ StepKept
<1> DEFINE t == inflight[r].target
<1>1. /\ inflight[r].status = status /\ inflight[r].clock = clock
      /\ Authorized("transition_status", t)
  BY DecidedOnRow DEF TransitionStatus, At
<1>2. t \in AllowedManualTransitions
  BY <1>1 DEF Authorized
<1>3. ~discarded /\ t \in MANUAL_TRANSITIONS[status] /\ status \in Statuses
  BY <1>2 DEF AllowedManualTransitions, Before, TypeOK
<1>4. t \in {"in_review", "approved", "issued", "withdrawn"} /\ status \in Submitted
  <2>1. status \in Submitted
    BY <1>3 DEF MANUAL_TRANSITIONS, Statuses, Draft, Submitted
  <2> QED
    BY <1>3, <2>1, ManualTargets
<1>5. /\ <<STATUS_EVENT_MAP[t], status, t>> \in Transitions
      /\ status' = t /\ clock' = QueueClock(status, clock, t)
      /\ UNCHANGED <<discarded, versionVars>> /\ Finish(r)
  BY <1>1 DEF TransitionStatus
<1>6. STATUS_EVENT_MAP[t] # "submit"
  BY <1>4 DEF STATUS_EVENT_MAP
<1>7. versions > 0
  BY <1>4 DEF TransitionStatus, SubmissionVersionsMatchStatus, Before, TypeOK
<1> HIDE DEF t
<1>8. StepKept
  BY <1>3, <1>5, <1>6, <1>7, DecisionMoves DEF versionVars
<1>9. ClockMatchesCourt'
  BY <1>5, FreshCopyClock DEF Before, Rounds, ClockMatchesCourt
<1>10. /\ PackageNotEmpty' /\ AnswersComplete' /\ MessageDelivered'
       /\ MessageHidden' /\ NothingAhead'
  BY <1>4, <1>5 DEF Before, Rounds, PackageNotEmpty, AnswersComplete,
     MessageDelivered, MessageHidden, NothingAhead, versionVars
<1> QED
  BY <1>5, <1>8, <1>9, <1>10, EndHolds DEF Rounds

(* A finalisation sends back a package that is there, with its message. *)
LEMMA FinalizeKeeps ==
  ASSUME Before, NEW r \in Requests, FinalizeRevisionRequests(r)
  PROVE  Held' /\ Rounds' /\ StepKept
<1>1. /\ inflight[r].status = status /\ inflight[r].clock = clock
      /\ Authorized("finalize_revision_requests", inflight[r].target)
  BY DecidedOnRow DEF FinalizeRevisionRequests, At
<1>2. ~discarded /\ status \in OurCourt /\ versions > 0 /\ package[versions]
  BY <1>1 DEF Authorized, FinalizeRevisionRequests, HasRequestPackageItems
<1>3. /\ status' = "revisions_requested"
      /\ clock' = QueueClock(status, clock, "revisions_requested")
      /\ jurisdictionNote' = [jurisdictionNote EXCEPT ![versions] = Publish(@)]
      /\ UNCHANGED <<discarded, versions, package, submitterNote, fulfillment>>
      /\ Finish(r)
  BY <1>1 DEF FinalizeRevisionRequests
<1>4. <<"finalize_revision_requests", status, "revisions_requested">> \in Transitions
  BY <1>2 DEF Transitions
<1>5. StepKept
  BY <1>2, <1>3, <1>4, DecisionMoves
<1>6. ClockMatchesCourt'
  BY <1>3, FreshCopyClock DEF Before, Rounds, ClockMatchesCourt
<1>7. versions \in Versions
  BY <1>2 DEF Before, TypeOK, Versions
<1>8. /\ jurisdictionNote'[versions] # "unpublished"
      /\ \A v \in Versions \ {versions} : jurisdictionNote'[v] = jurisdictionNote[v]
  BY <1>3, <1>7 DEF Before, TypeOK, Publish
<1>9. PackageNotEmpty' /\ AnswersComplete'
  BY <1>2, <1>3 DEF Before, Rounds, PackageNotEmpty, AnswersComplete
<1>10. MessageDelivered' /\ MessageHidden'
  BY <1>3, <1>8 DEF MessageDelivered, MessageHidden, Submitted
<1>11. NothingAhead'
  BY <1>3, <1>8 DEF Before, Rounds, NothingAhead, TypeOK
<1> QED
  BY <1>3, <1>5, <1>6, <1>9, <1>10, <1>11, EndHolds DEF Rounds

(* An edit of the package touches the latest version, which is not yet sent  *)
(* back.                                                                     *)
LEMMA EditKeeps ==
  ASSUME Before, NEW r \in Requests, UpdateRevisionRequests(r)
  PROVE  Held' /\ Rounds' /\ StepKept
<1>1. inflight[r].version = versions /\ status \in Submitted
  BY DecidedOnRow DEF Before, Held, PickedLatest, UpdateRevisionRequests, At, Authorized
<1>2. versions \in Versions
  BY <1>1 DEF UpdateRevisionRequests, Before, TypeOK, Versions
<1>3. UNCHANGED <<rowVars, versions, submitterNote>> /\ Finish(r)
  BY DEF UpdateRevisionRequests
<1>4. PICK items \in BOOLEAN, files \in BOOLEAN :
        /\ package' = [package EXCEPT ![versions] = items]
        /\ fulfillment' = [fulfillment EXCEPT ![versions] =
                             IF items /\ files THEN @ ELSE "none"]
  BY <1>1 DEF UpdateRevisionRequests
<1>5. \A v \in Versions \ {versions} : package'[v] = package[v]
                                       /\ fulfillment'[v] = fulfillment[v]
  BY <1>4 DEF Before, TypeOK
<1>6. /\ jurisdictionNote'[versions] = "published" => jurisdictionNote[versions] = "published"
      /\ \A v \in Versions \ {versions} : jurisdictionNote'[v] = jurisdictionNote[v]
  <2>1. CASE UNCHANGED jurisdictionNote
    BY <2>1
  <2>2. ASSUME NEW blank \in BOOLEAN,
               jurisdictionNote' = [jurisdictionNote EXCEPT ![versions] = Upsert(@, blank)]
        PROVE  /\ jurisdictionNote'[versions] = "published"
                    => jurisdictionNote[versions] = "published"
               /\ \A v \in Versions \ {versions} :
                    jurisdictionNote'[v] = jurisdictionNote[v]
    BY <1>2, <2>2 DEF Before, TypeOK, Upsert
  <2> QED
    BY <1>1, <2>1, <2>2 DEF UpdateRevisionRequests
<1>7. ClockMatchesCourt'
  BY <1>3 DEF Before, Rounds, ClockMatchesCourt, rowVars
<1>8. PackageNotEmpty' /\ MessageDelivered'
  BY <1>1, <1>3, DraftOrSubmitted DEF Before, PackageNotEmpty, MessageDelivered, rowVars
<1>9. AnswersComplete'
  BY <1>3, <1>5 DEF Before, Rounds, AnswersComplete, TypeOK
<1>10. MessageHidden' /\ NothingAhead'
  BY <1>2, <1>3, <1>6 DEF Before, Rounds, MessageHidden, NothingAhead, TypeOK, rowVars
<1>11. StepKept
  BY <1>3, <1>5 DEF StepKept, Lifecycle!lifecycleVars, rowVars, Before, TypeOK
<1> QED
  BY <1>3, <1>7, <1>8, <1>9, <1>10, <1>11, EndHolds DEF Rounds

----------------------------------------------------------------------------
(* The submitter's side of a round *)

(* What the submitter adds to an answer belongs to the version sent back. *)
LEMMA AnswerKeeps ==
  ASSUME Before, NEW r \in Requests, PersistSubmitterNote(r) \/ UploadFulfillment(r)
  PROVE  Held' /\ Rounds' /\ StepKept
<1>1. /\ inflight[r].step = "picked" /\ inflight[r].version = versions
      /\ versions > 0
  BY DEF PersistSubmitterNote, UploadFulfillment, At, Before, Held, PickedLatest
<1>2. UNCHANGED <<rowVars, versions, package, jurisdictionNote>>
  BY DEF PersistSubmitterNote, UploadFulfillment
<1>3. \A v \in Versions \ {versions} :
        submitterNote'[v] = submitterNote[v] /\ fulfillment'[v] = fulfillment[v]
  BY <1>1 DEF PersistSubmitterNote, UploadFulfillment, Before, TypeOK
<1>4. AnswersComplete'
  BY <1>2, <1>3 DEF Before, Rounds, AnswersComplete, TypeOK
<1>5. ClockMatchesCourt' /\ PackageNotEmpty' /\ MessageDelivered'
  BY <1>2 DEF Before, Rounds, ClockMatchesCourt, PackageNotEmpty, MessageDelivered,
     rowVars
<1>6. MessageHidden' /\ NothingAhead'
  BY <1>2 DEF Before, Rounds, MessageHidden, NothingAhead, rowVars
<1>7. StepKept
  BY <1>2 DEF StepKept, Lifecycle!lifecycleVars, rowVars
<1>8. Held'
  <2>1. CASE Finish(r)
    BY <2>1, EndHolds
  <2>2. CASE inflight' = [inflight EXCEPT ![r].step = "noted"]
    <3>1. /\ inflight'[r].step = "noted"
          /\ inflight'[r].handler = inflight[r].handler
          /\ inflight'[r].target = inflight[r].target
          /\ inflight'[r].status = inflight[r].status
          /\ inflight'[r].clock = inflight[r].clock
      BY <2>2, InFlightTyped DEF Before, TypeOK, Request
    <3>2. /\ inflight[r].status = status /\ inflight[r].clock = clock
          /\ Authorized(inflight[r].handler, inflight[r].target)
      BY <1>1, DecidedOnRow
    <3>3. \A h, t : Authorized(h, t) => Authorized(h, t)'
      BY <1>2 DEF Authorized, AllowedManualTransitions, MayDestroy, rowVars
    <3>4. \A s \in Requests : s = r
      BY DEF Before, OneAtATime
    <3> QED
      BY <1>2, <3>1, <3>2, <3>3, <3>4 DEF Held, CopyFresh, PickedLatest, rowVars
  <2> QED
    BY <2>1, <2>2 DEF PersistSubmitterNote, UploadFulfillment
<1> QED
  BY <1>4, <1>5, <1>6, <1>7, <1>8 DEF Rounds

(* A submission adds a version with nothing written on it, and takes with it *)
(* all that was added to the one it answers.                                 *)
LEMMA SubmitKeeps ==
  ASSUME Before, NEW r \in Requests, Submit(r)
  PROVE  Held' /\ Rounds' /\ StepKept
<1>1. PICK t \in Statuses : /\ <<"submit", status, t>> \in Transitions
                            /\ status' = t
                            /\ clock' = QueueClock(status, clock, t)
  BY DEF Submit
<1>2. /\ HandleSubmission /\ Finish(r) /\ ~discarded
      /\ UNCHANGED <<discarded, package, jurisdictionNote>>
  BY DEF Submit
<1>3. versions' = versions + 1 /\ versions < MaxVersions /\ versions \in 0..MaxVersions
  BY <1>2 DEF HandleSubmission, Before, TypeOK
<1>4. t \in {"newly_submitted", "resubmitted"}
  BY <1>1, SubmitEdges
<1>5. ClockMatchesCourt' /\ clock' = (status' \in OurCourt)
  BY <1>1, FreshCopyClock DEF Before, Rounds, ClockMatchesCourt
<1>6. PackageNotEmpty' /\ MessageDelivered'
  BY <1>1, <1>4 DEF PackageNotEmpty, MessageDelivered
<1>7. versions + 1 \in Versions /\ versions + 1 > versions
  BY <1>3, MaxVersionsAssumption DEF Versions
<1>8. MessageHidden' /\ NothingAhead'
  BY <1>2, <1>3, <1>7 DEF Before, Rounds, MessageHidden, NothingAhead, TypeOK, Versions
<1>9. AnswersComplete'
  <2>1. ASSUME NEW v \in Versions, v < versions + 1
        PROVE  submitterNote'[v] # "unpublished" /\ fulfillment'[v] # "loose"
    <3>1. CASE v = versions
      <4>1. versions # 0
        BY <3>1, MaxVersionsAssumption DEF Versions
      <4>2. /\ submitterNote' = [submitterNote EXCEPT ![versions] = Publish(@)]
            /\ fulfillment' = [fulfillment EXCEPT ![versions] =
                                 IF @ = "loose" THEN "assigned" ELSE @]
        BY <1>2, <4>1 DEF HandleSubmission
      <4> QED
        BY <3>1, <4>2 DEF Before, TypeOK, Publish
    <3>2. CASE v # versions
      <4>1. v < versions
        <5>1. v \in Nat /\ versions \in Nat
          BY <1>3, MaxVersionsAssumption DEF Versions
        <5> QED
          BY <2>1, <3>2, <5>1
      <4>2. submitterNote'[v] = submitterNote[v] /\ fulfillment'[v] = fulfillment[v]
        BY <1>2, <3>2 DEF HandleSubmission, Before, TypeOK
      <4> QED
        BY <4>1, <4>2 DEF Before, Rounds, AnswersComplete
    <3> QED
      BY <3>1, <3>2
  <2> QED
    BY <1>3, <2>1 DEF AnswersComplete
<1>10. StepKept
  <2>1. \E tr \in Transitions : /\ status = tr[2]
                                /\ status' = tr[3]
                                /\ versions' = IF tr[1] = "submit"
                                               THEN versions + 1 ELSE versions
    <3>1. <<"submit", status, t>> \in Transitions
      BY <1>1
    <3> WITNESS <<"submit", status, t>> \in Transitions
    <3> QED
      BY <1>1, <1>3
  <2>2. Lifecycle!Move
    BY <1>2, <1>3, <1>5, <2>1, SameTables DEF Lifecycle!Move
  <2> QED
    BY <1>2, <2>2 DEF StepKept, Lifecycle!Next
<1> QED
  BY <1>2, <1>5, <1>6, <1>8, <1>9, <1>10, EndHolds DEF Rounds

----------------------------------------------------------------------------
(* Every step keeps the rounds, and does to packages and lifecycle what it   *)
(* may.                                                                      *)
LEMMA RoundsStep == Before /\ [Next]_vars => Held' /\ Rounds' /\ StepKept
<1> SUFFICES ASSUME Before, [Next]_vars PROVE Held' /\ Rounds' /\ StepKept
  OBVIOUS
<1>1. ~PartnerUpdateStatus
  BY DEF PartnerUpdateStatus, Before, OneAtATime
<1>2. CASE UNCHANGED vars
  BY <1>2 DEF Before, Held, CopyFresh, PickedLatest, Authorized, AllowedManualTransitions,
     MayDestroy, Rounds, ClockMatchesCourt, PackageNotEmpty, AnswersComplete,
     MessageDelivered, MessageHidden, NothingAhead, StepKept,
     Lifecycle!lifecycleVars, vars, rowVars, versionVars
<1> QED
  BY <1>1, <1>2, ReadKeeps, BinKeeps, TransitionKeeps, FinalizeKeeps, EditKeeps,
     AnswerKeeps, SubmitKeeps DEF Next

(* Nothing has happened at first. *)
LEMMA RoundsInit == Init => Held /\ Rounds
<1> SUFFICES ASSUME Init PROVE Held /\ Rounds
  OBVIOUS
<1>1. Held
  BY DEF Init, Held, CopyFresh, PickedLatest, Idle
<1>2. ClockMatchesCourt
  BY DEF Init, ClockMatchesCourt, OurCourt
<1>3. PackageNotEmpty /\ MessageDelivered /\ MessageHidden
  BY DEF Init, PackageNotEmpty, MessageDelivered, MessageHidden, Submitted
<1>4. AnswersComplete /\ NothingAhead
  BY DEF Init, AnswersComplete, NothingAhead, Versions
<1> QED
  BY <1>1, <1>2, <1>3, <1>4 DEF Rounds

(* Without overlap, all of the rounds hold always and of every step. *)
LEMMA RoundsAlways ==
  ASSUME OneAtATime
  PROVE  Spec => [](Held /\ Rounds) /\ [][StepKept]_vars
<1>1. TypeOK /\ VersionsMatchStatus /\ Held /\ Rounds /\ [Next]_vars
        => (Held /\ Rounds)' /\ StepKept
  BY RoundsStep DEF Before
<1> QED
  BY <1>1, RoundsInit, TypeCorrect, VersionsAlwaysMatch, PTL DEF Spec
----------------------------------------------------------------------------
(* The theorems without overlap *)

(* What is sent back has something to revise. *)
THEOREM PackageNeverEmpty ==
  ASSUME OneAtATime
  PROVE  Spec => []PackageNotEmpty
<1>1. Rounds => PackageNotEmpty
  BY DEF Rounds
<1> QED
  BY <1>1, RoundsAlways, PTL

(* No message and no file that a submitter added to an answer is left behind *)
(* by the submission, whatever was saved, submitted, sent back and edited    *)
(* before.                                                                   *)
THEOREM AnswersAlwaysComplete ==
  ASSUME OneAtATime
  PROVE  Spec => []AnswersComplete
<1>1. Rounds => AnswersComplete
  BY DEF Rounds
<1> QED
  BY <1>1, RoundsAlways, PTL

(* What is sent back carries the jurisdiction's message. *)
THEOREM MessagesDelivered ==
  ASSUME OneAtATime
  PROVE  Spec => []MessageDelivered
<1>1. Rounds => MessageDelivered
  BY DEF Rounds
<1> QED
  BY <1>1, RoundsAlways, PTL

(* A message under edit is hidden, also after the application was approved,  *)
(* issued or withdrawn and taken up again.                                   *)
THEOREM DraftMessagesHidden ==
  ASSUME OneAtATime
  PROVE  Spec => []DraftMessageHidden
<1>1. Rounds => DraftMessageHidden
  BY DEF Rounds, MessageHidden, DraftMessageHidden, OurCourt, Submitted
<1> QED
  BY <1>1, RoundsAlways, PTL

(* No edit reaches the package of an answered version. *)
THEOREM PackagesFrozen ==
  ASSUME OneAtATime
  PROVE  Spec => AnsweredPackageFrozen
<1>1. [StepKept]_vars => [\A v \in Versions : v < versions => package'[v] = package[v]]_vars
  BY DEF StepKept
<1> QED
  BY <1>1, RoundsAlways, PTL DEF AnsweredPackageFrozen

(* The row keeps the promised lifecycle with all endpoints of the portal,    *)
(* the unlocked ones too, as long as their requests do not overlap.          *)
THEOREM SerialRefinesLifecycle ==
  ASSUME OneAtATime
  PROVE  Spec => RefinesLifecycle
<1>1. Init => Lifecycle!Init
  BY DEF Init, Lifecycle!Init
<1>2. [StepKept]_vars => [Lifecycle!Next]_(Lifecycle!lifecycleVars)
  BY DEF StepKept, vars, rowVars, versionVars, Lifecycle!lifecycleVars
<1> QED
  BY <1>1, <1>2, RoundsAlways, PTL DEF Spec, RefinesLifecycle, Lifecycle!Spec

----------------------------------------------------------------------------
(* With overlap *)

(* Without the portal's edits only a partner writes packages. *)
LEMMA PackageStep ==
  ASSUME "update_revision_requests" \notin Handlers, TypeOK, InUse,
         PackageNotEmpty, [Next]_vars
  PROVE  /\ PackageNotEmpty'
         /\ \A v \in Versions : v < versions => package'[v] = package[v]
<1>1. CASE PartnerUpdateStatus
  <2>1. versions' = versions
    BY <1>1 DEF PartnerUpdateStatus, ApplyRevisionRequests
  <2>2. \/ status' # "revisions_requested" /\ package' = package
        \/ versions > 0 /\ package' = [package EXCEPT ![versions] = TRUE]
    BY <1>1 DEF PartnerUpdateStatus, ApplyRevisionRequests
  <2>3. versions > 0 => versions \in Versions
    BY DEF TypeOK, Versions
  <2> QED
    BY <2>1, <2>2, <2>3 DEF PackageNotEmpty, TypeOK
<1>2. ASSUME NEW r \in Requests, UpdateRevisionRequests(r)
      PROVE  FALSE
  BY <1>2 DEF UpdateRevisionRequests, At, InUse
<1>3. ASSUME NEW r \in Requests, FinalizeRevisionRequests(r)
      PROVE  UNCHANGED package /\ PackageNotEmpty'
  BY <1>3 DEF FinalizeRevisionRequests, HasRequestPackageItems, PackageNotEmpty
<1>4. ASSUME NEW r \in Requests, Submit(r)
      PROVE  UNCHANGED package /\ PackageNotEmpty'
  BY <1>4, SubmitEdges DEF Submit, PackageNotEmpty
<1>5. ASSUME NEW r \in Requests, TransitionStatus(r)
      PROVE  UNCHANGED package /\ PackageNotEmpty'
  BY <1>5 DEF TransitionStatus, SubmissionVersionsMatchStatus, HasRequestPackageItems,
     PackageNotEmpty, versionVars
<1>6. ASSUME NEW r \in Requests,
             \/ Load(r) \/ PickVersion(r) \/ Abandon(r)
             \/ PersistSubmitterNote(r) \/ UploadFulfillment(r)
             \/ Destroy(r) \/ Restore(r)
      PROVE  UNCHANGED package /\ PackageNotEmpty'
  BY <1>6 DEF Load, PickVersion, Abandon, PersistSubmitterNote, UploadFulfillment,
     Destroy, Restore, PackageNotEmpty, rowVars, versionVars
<1>7. CASE UNCHANGED vars
  BY <1>7 DEF vars, rowVars, versionVars, PackageNotEmpty
<1> QED
  BY <1>1, <1>2, <1>3, <1>4, <1>5, <1>6, <1>7 DEF Next

(* The same facts with any number of overlapping requests and a partner,     *)
(* once the edits of a package, which take no lock, are out of the way.      *)
LEMMA PackageAlways ==
  ASSUME "update_revision_requests" \notin Handlers
  PROVE  Spec => []PackageNotEmpty /\ AnsweredPackageFrozen
<1>1. Init => PackageNotEmpty /\ InUse
  BY DEF Init, PackageNotEmpty, InUse, Idle
<1>2. TypeOK /\ InUse /\ PackageNotEmpty /\ [Next]_vars
        => /\ PackageNotEmpty'
           /\ [\A v \in Versions : v < versions => package'[v] = package[v]]_vars
  BY PackageStep
<1> QED
  BY <1>1, <1>2, TypeCorrect, InUseStep, PTL DEF Spec, AnsweredPackageFrozen

(* The unlocked edit of a package is all that can empty one that was sent:   *)
(* without it the package stays however requests and partners overlap.       *)
THEOREM UneditedPackageNeverEmpty ==
  ASSUME "update_revision_requests" \notin Handlers
  PROVE  Spec => []PackageNotEmpty
BY PackageAlways, PTL

(* Nor does anything else touch the package of an answered version.          *)
THEOREM UneditedPackagesFrozen ==
  ASSUME "update_revision_requests" \notin Handlers
  PROVE  Spec => AnsweredPackageFrozen
BY PackageAlways, PTL
============================================================================
