------------------------- MODULE TemplateVersioning -------------------------
(***************************************************************************)
(* The versions of one requirement template: an administrator schedules    *)
(* them for a day to come, a nightly job publishes the latest one that is  *)
(* due and deprecates what it replaces, and a jurisdiction's changes to    *)
(* the old version are carried over to the new one.                        *)
(*                                                                         *)
(* The job works through the templates from one list, so it holds a copy   *)
(* of a version for a while; an administrator's request acts on what it    *)
(* loaded, and waits for the rows of an open publication.  The ids of the  *)
(* published versions are cached, and the cache is cleared inside the      *)
(* publishing transaction.                                                 *)
(***************************************************************************)
EXTENDS Naturals

CONSTANTS
  MaxVersions,  \* bound on the versions of the template
  MaxDay,       \* bound on the days
  MaxFailures   \* bound on the publications that are refused or fail

ASSUME BoundsAssumption ==
  /\ {MaxVersions, MaxDay} \subseteq Nat \ {0}
  /\ MaxFailures \in Nat

Versions == 1..MaxVersions
Days == 0..MaxDay

VARIABLES
  today,      \* the date
  discarded,  \* the template is archived
  row,        \* the template_versions rows, in the order they are created
  job,        \* the publishing job and its copy of a version
  admin,      \* an administrator's request and what it loaded
  cache,      \* the cached ids of published versions
  reader,     \* a web process that fills the cache
  failures    \* publications that failed so far

vars == <<today, discarded, row, job, admin, cache, reader, failures>>

(* custom: the jurisdiction has changed the version; base: the version that *)
(* version_diff compares it with, 0 for none.                               *)
Row == [status : {"none", "draft", "scheduled", "published", "deprecated"},
        reason : {"none", "new_publish", "unscheduled"},
        date   : Days,
        custom : BOOLEAN,
        base   : {0} \cup Versions]

NoRow == [status |-> "none", reason |-> "none", date |-> 0, custom |-> FALSE,
          base |-> 0]

(* at: no list, a version picked from it, or its transaction open.  The     *)
(* rows of an open transaction are locked and not yet visible.              *)
Job == [at       : {"idle", "picked", "open"},
        version  : {0} \cup Versions,
        replaces : SUBSET Versions,
        custom   : BOOLEAN,
        base     : {0} \cup Versions]

IdleJob == [at |-> "idle", version |-> 0, replaces |-> {}, custom |-> FALSE,
            base |-> 0]

Request == [op    : {"none", "unschedule", "promote", "check_archive", "archive"},
            seen  : SUBSET Versions,
            draft : {0} \cup Versions,
            date  : Days]

NoRequest == [op |-> "none", seen |-> {}, draft |-> 0, date |-> 0]

(* raced: the ids were read while a publication was under way. *)
Ids == [filled : BOOLEAN, ids : SUBSET Versions, raced : BOOLEAN]
NoIds == [filled |-> FALSE, ids |-> {}, raced |-> FALSE]

TypeOK ==
  /\ today \in Days
  /\ discarded \in BOOLEAN
  /\ row \in [Versions -> Row]
  /\ job \in Job
  /\ admin \in Request
  /\ cache \in Ids
  /\ reader \in Ids
  /\ failures \in 0..MaxFailures

Init ==
  /\ today = 0
  /\ discarded = FALSE
  /\ row = [v \in Versions |-> NoRow]
  /\ job = IdleJob
  /\ admin = NoRequest
  /\ cache = NoIds
  /\ reader = NoIds
  /\ failures = 0

With(status) == {v \in Versions : row[v].status = status}

Published == With("published")

(* Wrong on purpose: the latest version that was deprecated for whatever    *)
(* reason (see CustomizationsCarried).                                      *)
PreviousVersion(v, rows) ==
  LET P == {u \in Versions : u # v /\ rows[u].status = "deprecated"}
  IN  IF P = {} THEN 0
      ELSE CHOOSE u \in P :
             \A w \in P : \/ rows[w].date < rows[u].date
                          \/ rows[w].date = rows[u].date /\ w <= u

(* The latest version that a publication deprecated, published or not. *)
PreviousPublishedVersion(v, rows) ==
  LET P == {u \in Versions : /\ u # v
                             /\ rows[u].status = "deprecated"
                             /\ rows[u].reason = "new_publish"
                             /\ rows[u].date <= rows[v].date}
  IN  IF P = {} THEN 0
      ELSE CHOOSE u \in P :
             \A w \in P : \/ rows[w].date < rows[u].date
                          \/ rows[w].date = rows[u].date /\ w <= u

Deprecate(rows, S, reason) ==
  [v \in Versions |->
     IF v \in S THEN [rows[v] EXCEPT !.status = "deprecated", !.reason = reason]
     ELSE rows[v]]

----------------------------------------------------------------------------
(* Administrators *)

(* The row a new version takes. *)
IsNew(v) ==
  row[v].status = "none" /\ \A u \in 1..(v - 1) : row[u].status # "none"

(* An administrator's request does not last past midnight. *)
NextDay ==
  /\ today < MaxDay
  /\ admin.op = "none"
  /\ today' = today + 1
  /\ UNCHANGED <<discarded, row, job, admin, cache, reader, failures>>

CreateDraft ==
  /\ \E v \in Versions :
       /\ IsNew(v)
       /\ row' = [row EXCEPT ![v] = [NoRow EXCEPT !.status = "draft", !.date = today]]
  /\ UNCHANGED <<today, discarded, job, admin, cache, reader, failures>>

DiscardDraft ==
  /\ \E v \in With("draft") : row' = Deprecate(row, {v}, "unscheduled")
  /\ UNCHANGED <<today, discarded, job, admin, cache, reader, failures>>

(* A version of the template as it is now, for a day after all others. *)
Schedule ==
  /\ \E v \in Versions, d \in (today + 1)..MaxDay :
       /\ IsNew(v)
       /\ \A u \in With("scheduled") : row[u].date < d
       /\ row' = [row EXCEPT ![v] = [NoRow EXCEPT !.status = "scheduled", !.date = d]]
  /\ UNCHANGED <<today, discarded, job, admin, cache, reader, failures>>

LoadUnschedule ==
  /\ admin.op = "none"
  /\ \E v \in With("scheduled") :
       admin' = [NoRequest EXCEPT !.op = "unschedule", !.seen = {v}]
  /\ UNCHANGED <<today, discarded, row, job, cache, reader, failures>>

(* A draft is promoted: its siblings up to that day will be unscheduled. *)
LoadPromote ==
  /\ admin.op = "none"
  /\ \E v \in With("draft"), d \in (today + 1)..MaxDay :
       admin' = [op |-> "promote", draft |-> v, date |-> d,
                 seen |-> {u \in With("scheduled") : row[u].date <= d}]
  /\ UNCHANGED <<today, discarded, row, job, cache, reader, failures>>

(* archive! refuses when a version is published, before its transaction. *)
CheckArchive ==
  /\ admin.op = "none"
  /\ ~discarded
  /\ Published = {}
  /\ admin' = [NoRequest EXCEPT !.op = "check_archive"]
  /\ UNCHANGED <<today, discarded, row, job, cache, reader, failures>>

LoadArchive ==
  /\ admin.op = "check_archive"
  /\ admin' = [NoRequest EXCEPT !.op = "archive",
                                !.seen = With("scheduled") \cup With("draft")]
  /\ UNCHANGED <<today, discarded, row, job, cache, reader, failures>>

Locked == IF job.at = "open" THEN job.replaces \cup {job.version} ELSE {}

(* Saves what was loaded as scheduled or draft, whatever it is by now. *)
Unschedule ==
  /\ admin.op = "unschedule"
  /\ admin.seen \cap Locked = {}
  /\ row' = Deprecate(row, admin.seen, "unscheduled")
  /\ admin' = NoRequest
  /\ UNCHANGED <<today, discarded, job, cache, reader, failures>>

(* The copy of the draft is compared with the previous version right away. *)
PromoteDraftToScheduled ==
  /\ admin.op = "promote"
  /\ admin.seen \cap Locked = {}
  /\ \E v \in Versions :
       /\ IsNew(v)
       /\ LET copy == [NoRow EXCEPT !.status = "scheduled", !.date = admin.date]
              rows == [Deprecate(row, admin.seen, "unscheduled") EXCEPT ![v] = copy]
          IN  row' = [rows EXCEPT ![v].base = PreviousPublishedVersion(v, rows)]
  /\ admin' = NoRequest
  /\ UNCHANGED <<today, discarded, job, cache, reader, failures>>

Archive ==
  /\ admin.op = "archive"
  /\ admin.seen \cap Locked = {}
  /\ row' = Deprecate(row, admin.seen, "unscheduled")
  /\ discarded' = TRUE
  /\ admin' = NoRequest
  /\ UNCHANGED <<today, job, cache, reader, failures>>

Restore ==
  /\ discarded
  /\ discarded' = FALSE
  /\ UNCHANGED <<today, row, job, admin, cache, reader, failures>>

(* A review manager changes a version that is or was published. *)
Customize ==
  /\ \E v \in Published \cup With("deprecated") :
       row' = [row EXCEPT ![v].custom = TRUE]
  /\ UNCHANGED <<today, discarded, job, admin, cache, reader, failures>>

----------------------------------------------------------------------------
(* The nightly job *)

(* Wrong on purpose: due on the day after (see DueHandled). *)
DueSinceYesterday == {v \in With("scheduled") : row[v].date < today}

Due == {v \in With("scheduled") : row[v].date <= today}

(* The list: of each kept template the latest version that is due. *)
GetVersionsPublishableNow ==
  /\ job.at = "idle"
  /\ ~discarded
  /\ \E v \in Due :
       /\ \A u \in Due : row[u].date <= row[v].date
       /\ job' = [IdleJob EXCEPT !.at = "picked", !.version = v]
  /\ UNCHANGED <<today, discarded, row, admin, cache, reader, failures>>

(* Wrong on purpose: the error leaves the job where it is (see TypeOK). *)
PublicationSticks ==
  /\ job.at = "picked"
  /\ failures < MaxFailures
  /\ failures' = failures + 1
  /\ job' = [job EXCEPT !.at = "failed"]
  /\ UNCHANGED <<today, discarded, row, admin, cache, reader>>

(* The version's configuration is invalid or it cannot be saved. *)
PublicationFails ==
  /\ job.at = "picked"
  /\ failures < MaxFailures
  /\ failures' = failures + 1
  /\ job' = IdleJob
  /\ UNCHANGED <<today, discarded, row, admin, cache, reader>>

(* Wrong on purpose: forgets the published one (see OnePublished). *)
ScheduledBefore(v) ==
  {u \in With("scheduled") : u # v /\ row[u].date <= row[v].date}

(* Wrong on purpose: forgets the scheduled ones (see NothingOlderLeft). *)
PublishedBefore(v) ==
  {u \in Published : u # v /\ row[u].date <= row[v].date}

DeprecateVersionsBefore(v) ==
  {u \in With("scheduled") \cup Published : u # v /\ row[u].date <= row[v].date}

(* What a publication that is under way does to ids that were read before. *)
Raced(ids) == [ids EXCEPT !.raced = @ \/ ids.filled]

(* Wrong on purpose: the cache is kept (see CacheKnowsPublished). *)
ClearNothing == cache

ClearPublishedIdsCache == NoIds

(* The transaction of publish_version! up to its commit: the diff, then the *)
(* deprecations, the save, which clears the cache, and the customizations   *)
(* of the version that is now the previous one.                             *)
PublishVersion ==
  /\ job.at = "picked"
  /\ LET v        == job.version
         replaces == DeprecateVersionsBefore(v)
         previous == PreviousPublishedVersion(v, Deprecate(row, replaces, "new_publish"))
     IN  job' = [job EXCEPT
                   !.at = "open",
                   !.replaces = replaces,
                   !.base = IF row[v].base # 0 THEN row[v].base
                            ELSE PreviousPublishedVersion(v, row),
                   !.custom = previous # 0 /\ row[previous].custom]
  /\ cache' = ClearPublishedIdsCache
  /\ reader' = Raced(reader)
  /\ UNCHANGED <<today, discarded, row, admin, failures>>

CommitPublication ==
  /\ job.at = "open"
  /\ row' = [Deprecate(row, job.replaces, "new_publish") EXCEPT
               ![job.version].status = "published",
               ![job.version].base = job.base,
               ![job.version].custom = @ \/ job.custom]
  /\ job' = IdleJob
  /\ UNCHANGED <<today, discarded, admin, cache, reader, failures>>

----------------------------------------------------------------------------
(* The cache, asked by everything that shows or submits an application *)

LoadPublishedIds ==
  /\ ~cache.filled /\ ~reader.filled
  /\ reader' = [filled |-> TRUE, ids |-> Published, raced |-> job.at = "open"]
  /\ UNCHANGED <<today, discarded, row, job, admin, cache, failures>>

StorePublishedIds ==
  /\ reader.filled
  /\ cache' = reader
  /\ reader' = NoIds
  /\ UNCHANGED <<today, discarded, row, job, admin, failures>>

Expire ==
  /\ cache.filled
  /\ cache' = NoIds
  /\ UNCHANGED <<today, discarded, row, job, admin, reader, failures>>

----------------------------------------------------------------------------
JobStep == GetVersionsPublishableNow \/ PublishVersion \/ CommitPublication

Next ==
  \/ NextDay \/ CreateDraft \/ DiscardDraft \/ Schedule
  \/ LoadUnschedule \/ Unschedule
  \/ LoadPromote \/ PromoteDraftToScheduled
  \/ CheckArchive \/ LoadArchive \/ Archive \/ Restore
  \/ Customize
  \/ JobStep \/ PublicationFails
  \/ LoadPublishedIds \/ StorePublishedIds \/ Expire

Spec == Init /\ [][Next]_vars

(* The job runs every night and a run ends. *)
FairSpec == Spec /\ WF_vars(JobStep)

-----------------------------------------------------------------------------
(* Properties *)

(* At most one version of a template is published, although the job may     *)
(* publish a version that was unscheduled since it took its list, and an    *)
(* administrator may unschedule one that was published meanwhile.           *)
OnePublished == \A u, v \in Published : u = v

(* Days are published in order: once the job has committed a version, all    *)
(* that is still scheduled is for a later day.                              *)
NothingOlderLeft ==
  [][job.at = "open" /\ job'.at = "idle"
       => \A v \in Versions :
            row'[v].status = "scheduled" => row'[v].date > row'[job.version].date]_vars

DueBy(day) == {v \in With("scheduled") : row[v].date <= day}

(* A version that is due was left behind by a failed run, between the       *)
(* published one and the one to be published.                               *)
Skipped(v) == \E u \in DueBy(today) : u # v

(* Another version was replaced that had the same day: it was scheduled     *)
(* while a promotion for that day was under way, or the other way round.    *)
SharesDay(w) ==
  \E u \in With("deprecated") : row[u].reason = "new_publish" /\ row[u].date = row[w].date

(* A publication carries a jurisdiction's changes over from the version it  *)
(* replaces, unless a failed run left another version in between or one of  *)
(* the same day is taken for the previous one.                              *)
CustomizationsCarried ==
  [][job'.at = "open" /\ job.at = "picked" /\ ~Skipped(job.version)
       => \A w \in Published : row[w].custom /\ ~SharesDay(w) => job'.custom]_vars

(* The cache never misses the published version, which would refuse every   *)
(* submission on it, unless its ids were read while a publication ran.      *)
CacheKnowsPublished == cache.filled /\ ~cache.raced => Published \subseteq cache.ids

(* A version of a kept template whose day has come is published or makes    *)
(* way for a later one, however often a run fails.                          *)
DueHandled ==
  \A v \in Versions :
    v \in DueBy(today) /\ ~discarded ~> v \notin With("scheduled") \/ discarded

(* The diff of a new version compares it with the version published before. *)
DiffAgainstPublished ==
  [][job.at = "open" /\ job'.at = "idle"
       => Published \subseteq {job.version, row'[job.version].base}]_vars
=============================================================================
