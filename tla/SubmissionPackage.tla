------------------------- MODULE SubmissionPackage -------------------------
(***************************************************************************)
(* How the submission versions of one application are packaged: a commit   *)
(* pushes a build job, one job per application renders the missing PDFs,   *)
(* zips each version together with its predecessors, marks the versions    *)
(* that became ready and announces them to partner systems.                *)
(*                                                                         *)
(* The push is refused while a job holds the application's uniqueness      *)
(* lock; the job looks for newer versions before it lets go of it.         *)
(***************************************************************************)
EXTENDS Naturals

CONSTANTS
  MaxVersions,  \* bound on the submission versions
  MaxClicks,    \* bound on the builds asked for by hand
  MaxRetries,   \* how often the queue retries a failed job
  MaxFailures,  \* bound on the jobs that raise
  MaxCrashes,   \* bound on the processes that die
  Blocked       \* versions without the data to render their PDFs

Versions == 1..MaxVersions

ASSUME BoundsAssumption ==
  /\ MaxVersions \in Nat \ {0}
  /\ {MaxClicks, MaxRetries, MaxFailures, MaxCrashes} \subseteq Nat
  /\ Blocked \subseteq Versions

VARIABLES
  versions,   \* number of submission versions
  pushes,     \* processes about to push a build job
  lock,       \* the uniqueness lock of the application is taken
  job,        \* the job that holds it
  pdf,        \* versions with all their PDFs
  zip,        \* versions with a package
  ready,      \* versions with package_ready_at
  announced,  \* per version: package_ready webhooks queued
  clicks, failures, crashes  \* what happened so far, for the bounds

files  == <<pdf, zip, ready, announced>>
counts == <<clicks, failures, crashes>>
vars   == <<versions, pushes, lock, job, files, counts>>

(***************************************************************************)
(* A job: where it is in perform, the versions it found at its start, the  *)
(* ones to rebuild, the next one in the loop it is in, the ones it marked  *)
(* and has not announced, whether to run again and how often it failed.    *)
(***************************************************************************)
Stages == {"none", "queued", "render", "zip", "mark", "announce", "check",
           "unlock"}

Job == [at    : Stages,
        start : 0..MaxVersions,
        todo  : SUBSET Versions,
        next  : 1..(MaxVersions + 1),
        newly : SUBSET Versions,
        again : BOOLEAN,
        tries : 0..MaxRetries]

NoJob == [at |-> "none", start |-> 0, todo |-> {}, next |-> 1, newly |-> {},
          again |-> FALSE, tries |-> 0]

TypeOK ==
  /\ versions \in 0..MaxVersions
  /\ pushes \in Nat
  /\ lock \in BOOLEAN
  /\ job \in Job
  /\ pdf \subseteq Versions
  /\ zip \subseteq Versions
  /\ ready \subseteq Versions
  /\ announced \in [Versions -> Nat]
  /\ clicks \in 0..MaxClicks
  /\ failures \in 0..MaxFailures
  /\ crashes \in 0..MaxCrashes

Init ==
  /\ versions = 0
  /\ pushes = 0
  /\ lock = FALSE
  /\ job = NoJob
  /\ pdf = {} /\ zip = {} /\ ready = {}
  /\ announced = [v \in Versions |-> 0]
  /\ clicks = 0 /\ failures = 0 /\ crashes = 0

----------------------------------------------------------------------------
(* Pushing a job *)

(* A submission commits a version; its after_commit hook will push. *)
SubmissionCommitted ==
  /\ versions < MaxVersions
  /\ versions' = versions + 1
  /\ pushes' = pushes + 1
  /\ UNCHANGED <<lock, job, files, counts>>

(* Somebody asks for the missing PDFs. *)
GenerateMissingPdfs ==
  /\ clicks < MaxClicks
  /\ clicks' = clicks + 1
  /\ pushes' = pushes + 1
  /\ UNCHANGED <<versions, lock, job, files, failures, crashes>>

(* perform_async: the client middleware takes the lock or rejects the job. *)
Push ==
  /\ pushes > 0
  /\ pushes' = pushes - 1
  /\ IF lock
     THEN UNCHANGED <<lock, job>>
     ELSE lock' = TRUE /\ job' = [NoJob EXCEPT !.at = "queued"]
  /\ UNCHANGED <<versions, files, counts>>

----------------------------------------------------------------------------
(* The job *)

FirstVersions(n) == 1..n

(* Versions to rebuild: those lacking something, and everything after the   *)
(* first version without its PDFs.                                          *)
RebuildIds(n) ==
  {v \in FirstVersions(n) : \/ v \notin pdf \/ v \notin zip \/ v \notin ready
                            \/ \E u \in FirstVersions(v) : u \notin pdf}

StartJob ==
  /\ job.at = "queued"
  /\ job' = [job EXCEPT !.at = "render", !.start = versions, !.next = 1,
                        !.todo = RebuildIds(versions)]
  /\ UNCHANGED <<versions, pushes, lock, files, counts>>

(* Wrong on purpose: the loop runs one version too far (see TypeOK). *)
GeneratePastEnd ==
  /\ job.at = "render"
  /\ IF job.next > job.start + 1
     THEN job' = [job EXCEPT !.at = "zip", !.next = 1] /\ UNCHANGED pdf
     ELSE job' = [job EXCEPT !.next = @ + 1] /\ pdf' = pdf \cup {job.next}
  /\ UNCHANGED <<versions, pushes, lock, zip, ready, announced, counts>>

(* One version's PDFs; data that is not available is no failure. *)
GenerateSubmission ==
  /\ job.at = "render"
  /\ IF job.next > job.start
     THEN job' = [job EXCEPT !.at = "zip", !.next = 1] /\ UNCHANGED pdf
     ELSE /\ job' = [job EXCEPT !.next = @ + 1]
          /\ pdf' = IF job.next \in Blocked THEN pdf ELSE pdf \cup {job.next}
  /\ UNCHANGED <<versions, pushes, lock, zip, ready, announced, counts>>

(* Wrong on purpose: asks the version alone (see CumulativeComplete).       *)
OwnReportIssues(v) == v \in Blocked /\ v \notin pdf

(* A missing report, of the version or of one before it, stops its package. *)
ReportIssues(v) == \E u \in FirstVersions(v) : u \in Blocked /\ u \notin pdf

(* One version's package. *)
BuildPackage ==
  /\ job.at = "zip"
  /\ IF job.next > job.start
     THEN job' = [job EXCEPT !.at = "mark"] /\ UNCHANGED zip
     ELSE /\ job' = [job EXCEPT !.next = @ + 1]
          /\ zip' = IF job.next \in job.todo /\ ~ReportIssues(job.next)
                    THEN zip \cup {job.next} ELSE zip
  /\ UNCHANGED <<versions, pushes, lock, pdf, ready, announced, counts>>

Earliest(S) == CHOOSE v \in S : \A u \in S : v <= u

Latest(S) == CHOOSE v \in S : \A u \in S : v >= u

(* Versions that can be marked, in the order they are looked at. *)
NotYetReady == {v \in FirstVersions(versions) : v \in (zip \cap pdf) \ ready}

(* Wrong on purpose: marks the newest first (see ReadyInOrder). *)
MarkLatestReady ==
  /\ job.at = "mark"
  /\ IF NotYetReady = {}
     THEN job' = [job EXCEPT !.at = "announce"] /\ UNCHANGED ready
     ELSE /\ ready' = ready \cup {Latest(NotYetReady)}
          /\ job' = [job EXCEPT !.newly = @ \cup {Latest(NotYetReady)}]
  /\ UNCHANGED <<versions, pushes, lock, pdf, zip, announced, counts>>

(* Each version is saved on its own. *)
MarkReady ==
  /\ job.at = "mark"
  /\ IF NotYetReady = {}
     THEN job' = [job EXCEPT !.at = "announce"] /\ UNCHANGED ready
     ELSE /\ ready' = ready \cup {Earliest(NotYetReady)}
          /\ job' = [job EXCEPT !.newly = @ \cup {Earliest(NotYetReady)}]
  /\ UNCHANGED <<versions, pushes, lock, pdf, zip, announced, counts>>

(* Wrong on purpose: announces all that is ready (see AnnouncedOnce). *)
AnnounceAll ==
  /\ job.at = "announce"
  /\ job' = [job EXCEPT !.at = "check", !.newly = {}]
  /\ announced' = [v \in Versions |-> announced[v] + IF v \in ready THEN 1 ELSE 0]
  /\ UNCHANGED <<versions, pushes, lock, pdf, zip, ready, counts>>

(* Wrong on purpose: only the earliest (see AnnouncedUnlessFailed). *)
AnnounceEarliest ==
  /\ job.at = "announce"
  /\ job' = [job EXCEPT !.at = "check", !.newly = {}]
  /\ announced' = IF job.newly = {} THEN announced
                  ELSE [announced EXCEPT ![Earliest(job.newly)] = @ + 1]
  /\ UNCHANGED <<versions, pushes, lock, pdf, zip, ready, counts>>

(* Queues the webhook of one newly ready version. *)
AnnounceReady ==
  /\ job.at = "announce"
  /\ IF job.newly = {}
     THEN job' = [job EXCEPT !.at = "check"] /\ UNCHANGED announced
     ELSE /\ job' = [job EXCEPT !.newly = @ \ {Earliest(@)}]
          /\ announced' = [announced EXCEPT ![Earliest(job.newly)] = @ + 1]
  /\ UNCHANGED <<versions, pushes, lock, pdf, zip, ready, counts>>

(* Looks for versions that appeared since the start. *)
CheckNewVersions ==
  /\ job.at = "check"
  /\ job' = [job EXCEPT !.at = "unlock", !.again = versions > job.start]
  /\ UNCHANGED <<versions, pushes, lock, files, counts>>

(* Wrong on purpose: no after_unlock (see SeenVersionsPackaged). *)
UnlockAndForget ==
  /\ job.at = "unlock"
  /\ lock' = FALSE
  /\ job' = NoJob
  /\ UNCHANGED <<versions, pushes, files, counts>>

(* The lock is released, then after_unlock pushes again. *)
Unlock ==
  /\ job.at = "unlock"
  /\ lock' = FALSE
  /\ job' = NoJob
  /\ pushes' = pushes + IF job.again THEN 1 ELSE 0
  /\ UNCHANGED <<versions, files, counts>>

----------------------------------------------------------------------------
(* What goes wrong *)

Running == job.at \in {"render", "zip", "mark", "announce", "check"}

(* The job raises: it is retried under its lock, or given up.  What it had   *)
(* marked and not announced is forgotten with the run.                      *)
Fail ==
  /\ Running
  /\ failures < MaxFailures
  /\ failures' = failures + 1
  /\ IF job.tries < MaxRetries
     THEN job' = [NoJob EXCEPT !.at = "queued", !.tries = job.tries + 1]
          /\ UNCHANGED lock
     ELSE job' = NoJob /\ lock' = FALSE
  /\ UNCHANGED <<versions, pushes, files, clicks, crashes>>

(* The process of the job, or one about to push, dies. *)
Crash ==
  /\ crashes < MaxCrashes
  /\ crashes' = crashes + 1
  /\ \/ /\ Running \/ job.at = "unlock"
        /\ job' = NoJob
        /\ UNCHANGED pushes
     \/ /\ pushes > 0
        /\ pushes' = pushes - 1
        /\ UNCHANGED job
  /\ UNCHANGED <<versions, lock, files, clicks, failures>>

(* The lock of a job that is nowhere to be found is removed. *)
Reap ==
  /\ lock /\ job.at = "none"
  /\ lock' = FALSE
  /\ UNCHANGED <<versions, pushes, job, files, counts>>

----------------------------------------------------------------------------
JobStep ==
  \/ StartJob \/ GenerateSubmission \/ BuildPackage \/ MarkReady
  \/ AnnounceReady \/ CheckNewVersions \/ Unlock

Next ==
  \/ SubmissionCommitted \/ GenerateMissingPdfs \/ Push
  \/ JobStep
  \/ Fail \/ Crash \/ Reap

Spec == Init /\ [][Next]_vars

(* A hook runs after its commit, a worker works and the reaper reaps. *)
FairSpec == Spec /\ WF_vars(Push) /\ WF_vars(JobStep) /\ WF_vars(Reap)

----------------------------------------------------------------------------
(* Properties *)

(* However often jobs fail, die and are run again, partners are told of a    *)
(* version at most once, and only when it can be downloaded.                 *)
AnnouncedOnce ==
  \A v \in Versions : announced[v] <= 1 /\ (announced[v] = 1 => v \in ready)

(* A package never silently omits the report of an earlier version. *)
CumulativeComplete == \A v \in zip : FirstVersions(v) \subseteq pdf

(* Versions become ready in the order they were submitted. *)
ReadyInOrder == \A v \in ready : FirstVersions(v) \subseteq ready

(* A version that exists before a job takes its last look is packaged, by    *)
(* that job, a retry of it or the run it asks for, unless a process dies     *)
(* later or the queue gives the job up.  The pushes that earlier deaths lost *)
(* do not matter: the next job makes up for them.                           *)
SeenVersionsPackaged ==
  \A v \in Versions, c \in 0..MaxCrashes :
    v <= versions /\ crashes = c /\ (job.at = "queued" \/ Running)
      ~> \/ v \in ready \/ \E u \in FirstVersions(v) : u \in Blocked
         \/ crashes > c \/ failures > MaxRetries

(* Every ready version is announced.  A failure between marking and          *)
(* announcing breaks it, so no run claims it.                               *)
ReadyAnnounced == \A v \in Versions : v \in ready ~> announced[v] > 0

(* A version that becomes ready is announced unless something failed. *)
AnnouncedUnlessFailed ==
  \A v \in Versions :
    v \in ready ~> announced[v] > 0 \/ failures + crashes > 0

(* Every submitted version is packaged. *)
EveryVersionPackaged ==
  \A v \in Versions :
    v <= versions ~> v \in ready \/ \E u \in FirstVersions(v) : u \in Blocked
============================================================================
