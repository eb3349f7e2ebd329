---------------------- MODULE SubmissionPackageProofs ----------------------
(***************************************************************************)
(* For any number of versions, jobs, retries, failures and crashes, and    *)
(* whichever versions cannot be rendered: packages are complete, versions  *)
(* become ready in order, and each is announced at most once.              *)
(***************************************************************************)
EXTENDS SubmissionPackage, WellFoundedInduction, TLAPS

----------------------------------------------------------------------------
(* The inductive invariant *)

(* A version is rendered as far as its data allow. *)
Rendered(v) == v \in pdf \cup Blocked

(* A version is zipped unless a report is missing. *)
Zipped(v) == v \in zip \/ ReportIssues(v)

(* No package exists without those before it and all their PDFs. *)
ZipInOrder == \A v \in zip : FirstVersions(v) \subseteq zip \cap pdf

(* The first loop has rendered what lies behind it. *)
RenderLoop ==
  /\ job.at = "render" => \A v \in 1..(job.next - 1) : Rendered(v)
  /\ job.at = "zip" => \A v \in FirstVersions(job.start) : Rendered(v)

(* The second loop has zipped what lies behind it; what it will skip as not *)
(* to be rebuilt has a package.                                             *)
ZipLoop ==
  /\ job.at \in {"render", "zip"} => FirstVersions(job.start) \ job.todo \subseteq zip
  /\ job.at = "zip" => \A v \in 1..(job.next - 1) : Zipped(v)

(* What a job has yet to announce is ready and nobody announced it. *)
NewlyUnannounced == \A v \in job.newly : v \in ready /\ announced[v] = 0

Inv ==
  /\ TypeOK
  /\ ZipInOrder
  /\ RenderLoop
  /\ ZipLoop
  /\ ReadyInOrder
  /\ NewlyUnannounced
  /\ AnnouncedOnce

(* The bounds are numbers. *)
LEMMA Bounds ==
  /\ MaxVersions \in Nat /\ 1 <= MaxVersions
  /\ MaxClicks \in Nat /\ MaxRetries \in Nat /\ MaxFailures \in Nat
  /\ MaxCrashes \in Nat
BY BoundsAssumption

(* The absence of a job is a job, too. *)
LEMMA NoJobTyped == NoJob \in Job /\ NoJob.newly = {} /\ NoJob.at = "none"
<1>1. 1 \in 1..(MaxVersions + 1) /\ 0 \in 0..MaxVersions /\ 0 \in 0..MaxRetries
  BY Bounds
<1> QED
  BY <1>1 DEF NoJob, Job, Stages

(* A retried job starts afresh, with its retries counted. *)
LEMMA RetryTyped ==
  ASSUME NEW t \in 0..MaxRetries
  PROVE  [NoJob EXCEPT !.at = "queued", !.tries = t] \in Job
BY NoJobTyped DEF Job, Stages

(* A pushed job is one. *)
LEMMA QueuedTyped ==
  /\ [NoJob EXCEPT !.at = "queued"] \in Job
  /\ [NoJob EXCEPT !.at = "queued"].at = "queued"
  /\ [NoJob EXCEPT !.at = "queued"].newly = {}
BY NoJobTyped DEF Job, Stages

(* Nothing is packaged at first. *)
LEMMA InitInv == Init => Inv
<1> SUFFICES ASSUME Init PROVE Inv
  OBVIOUS
<1>1. TypeOK
  <2>1. job \in Job /\ lock \in BOOLEAN
    BY NoJobTyped DEF Init
  <2>2. announced \in [Versions -> Nat]
    BY DEF Init
  <2>3. /\ versions \in 0..MaxVersions /\ pushes \in Nat /\ clicks \in 0..MaxClicks
        /\ failures \in 0..MaxFailures /\ crashes \in 0..MaxCrashes
    BY Bounds DEF Init
  <2> QED
    BY <2>1, <2>2, <2>3 DEF Init, TypeOK
<1>2. job.at = "none" /\ job.newly = {}
  BY NoJobTyped DEF Init
<1> QED
  BY <1>1, <1>2 DEF Inv, Init, ZipInOrder, RenderLoop, ZipLoop, ReadyInOrder,
     NewlyUnannounced, AnnouncedOnce

----------------------------------------------------------------------------
(* Steps that leave the files alone *)

(* A job that is not in a loop and has nothing to announce is as good as    *)
(* none.                                                                    *)
LEMMA FilesKept ==
  ASSUME Inv, UNCHANGED files, TypeOK', job'.newly \subseteq job.newly,
         job'.at \notin {"render", "zip"}
  PROVE  Inv'
<1>1. ZipInOrder' /\ ReadyInOrder' /\ AnnouncedOnce'
  BY DEF Inv, files, ZipInOrder, ReadyInOrder, AnnouncedOnce
<1>2. RenderLoop' /\ ZipLoop'
  BY DEF RenderLoop, ZipLoop
<1>3. NewlyUnannounced'
  BY DEF Inv, files, NewlyUnannounced
<1> QED
  BY <1>1, <1>2, <1>3 DEF Inv

(* Pushes, commits and clicks do not touch a running job. *)
LEMMA JobKept ==
  ASSUME Inv, UNCHANGED <<files, job>>, TypeOK'
  PROVE  Inv'
BY DEF Inv, files, ZipInOrder, RenderLoop, ZipLoop, Rendered, Zipped, ReportIssues,
   ReadyInOrder, NewlyUnannounced, AnnouncedOnce

(* Everything around the job's work: it is pushed, listed, lost and freed. *)
LEMMA QueueKeeps ==
  ASSUME Inv,
         \/ SubmissionCommitted \/ GenerateMissingPdfs \/ Push
         \/ CheckNewVersions \/ Unlock \/ Fail \/ Crash \/ Reap
  PROVE  Inv'
<1> USE Bounds
<1>1. /\ NoJob \in Job /\ NoJob.newly = {} /\ NoJob.at = "none"
      /\ job \in Job /\ pushes \in Nat /\ lock \in BOOLEAN
      /\ versions \in 0..MaxVersions /\ clicks \in 0..MaxClicks
      /\ failures \in 0..MaxFailures /\ crashes \in 0..MaxCrashes
  BY NoJobTyped DEF Inv, TypeOK
<1>2. CASE SubmissionCommitted
  BY <1>1, <1>2, JobKept DEF SubmissionCommitted, Inv, TypeOK, files, counts
<1>3. CASE GenerateMissingPdfs
  BY <1>1, <1>3, JobKept DEF GenerateMissingPdfs, Inv, TypeOK, files
<1>4. CASE Push
  <2>1. pushes' \in Nat
    BY <1>1, <1>4 DEF Push
  <2>2. CASE lock
    BY <1>1, <1>4, <2>1, <2>2, JobKept DEF Push, Inv, TypeOK, files, counts
  <2>3. CASE ~lock
    <3>1. job' \in Job /\ job'.at = "queued" /\ job'.newly = {}
      BY <1>4, <2>3, QueuedTyped DEF Push
    <3>2. TypeOK'
      BY <1>4, <2>1, <2>3, <3>1 DEF Push, Inv, TypeOK, files, counts
    <3> QED
      BY <1>4, <3>1, <3>2, FilesKept DEF Push
  <2> QED
    BY <2>2, <2>3
<1>5. CASE CheckNewVersions
  <2>1. PICK b \in BOOLEAN : job' = [job EXCEPT !.at = "unlock", !.again = b]
    <3>1. (versions > job.start) \in BOOLEAN
      OBVIOUS
    <3>2. job' = [job EXCEPT !.at = "unlock", !.again = versions > job.start]
      BY <1>5, Zenon DEF CheckNewVersions
    <3> QED
      BY <3>1, <3>2, Zenon
  <2>2. job' \in Job /\ job'.at = "unlock" /\ job'.newly = job.newly
    BY <1>1, <2>1 DEF Job, Stages
  <2>3. TypeOK'
    BY <1>5, <2>2 DEF CheckNewVersions, Inv, TypeOK, files, counts
  <2> QED
    BY <1>5, <2>2, <2>3, FilesKept DEF CheckNewVersions
<1>6. CASE Unlock
  <2>1. pushes' \in Nat /\ job' = NoJob
    BY <1>1, <1>6 DEF Unlock
  <2>2. TypeOK'
    BY <1>1, <1>6, <2>1 DEF Unlock, Inv, TypeOK, files, counts
  <2> QED
    BY <1>1, <1>6, <2>1, <2>2, FilesKept DEF Unlock
<1>7. CASE Fail
  <2>1. job' \in Job /\ job'.at \in {"queued", "none"} /\ job'.newly = {}
    <3>1. CASE job.tries < MaxRetries
      <4>1. job.tries + 1 \in 0..MaxRetries
        BY <1>1, <3>1 DEF Job
      <4>2. job' = [NoJob EXCEPT !.at = "queued", !.tries = job.tries + 1]
        BY <1>7, <3>1 DEF Fail
      <4>3. job' \in Job
        BY <4>1, <4>2, RetryTyped
      <4> QED
        BY <4>2, <4>3, NoJobTyped DEF Job
    <3>2. CASE ~(job.tries < MaxRetries)
      BY <1>1, <1>7, <3>2 DEF Fail
    <3> QED
      BY <3>1, <3>2
  <2>2. lock' \in BOOLEAN /\ failures' \in 0..MaxFailures
    <3>1. lock' \in BOOLEAN
      <4>1. CASE job.tries < MaxRetries
        BY <1>1, <1>7, <4>1 DEF Fail
      <4>2. CASE ~(job.tries < MaxRetries)
        <5>1. lock' = FALSE
          BY <1>7, <4>2 DEF Fail
        <5> QED
          BY <5>1
      <4> QED
        BY <4>1, <4>2
    <3>2. failures' = failures + 1 /\ failures < MaxFailures
      BY <1>7, Zenon DEF Fail
    <3> QED
      BY <1>1, <3>1, <3>2
  <2>3. TypeOK'
    BY <1>7, <2>1, <2>2 DEF Fail, Inv, TypeOK, files
  <2> QED
    BY <1>7, <2>1, <2>3, FilesKept DEF Fail
<1>8. CASE Crash
  <2>1. /\ job' = NoJob \/ job' = job
        /\ pushes' \in Nat /\ crashes' \in 0..MaxCrashes
    BY <1>1, <1>8 DEF Crash
  <2>2. UNCHANGED <<versions, lock, files, clicks, failures>>
    BY <1>8 DEF Crash
  <2>3. TypeOK'
    BY <1>1, <2>1, <2>2 DEF Inv, TypeOK, files
  <2>4. CASE job' = NoJob
    BY <1>1, <2>2, <2>3, <2>4, FilesKept
  <2>5. CASE job' = job
    BY <2>2, <2>3, <2>5, JobKept
  <2> QED
    BY <2>1, <2>4, <2>5
<1>9. CASE Reap
  BY <1>9, JobKept DEF Reap, Inv, TypeOK, files, counts
<1> QED
  BY <1>2, <1>3, <1>4, <1>5, <1>6, <1>7, <1>8, <1>9

----------------------------------------------------------------------------
(* The job's work *)

(* The job leaves alone only what has a package. *)
LEMMA StartKeeps ==
  ASSUME Inv, StartJob
  PROVE  Inv'
<1>1. RebuildIds(versions) \subseteq Versions /\ versions \in 0..MaxVersions
  BY BoundsAssumption DEF RebuildIds, FirstVersions, Versions, Inv, TypeOK
<1>2. /\ job' \in Job /\ job'.at = "render" /\ job'.start = versions /\ job'.next = 1
      /\ job'.todo = RebuildIds(versions) /\ job'.newly = job.newly
  <2>1. job \in Job /\ 1 \in 1..(MaxVersions + 1) /\ "render" \in Stages
    BY Bounds DEF Inv, TypeOK, Stages
  <2> HIDE DEF RebuildIds, Stages
  <2> QED
    BY <1>1, <2>1 DEF StartJob, Job
<1>3. TypeOK'
  BY <1>2 DEF StartJob, Inv, TypeOK, files, counts
<1>4. FirstVersions(job'.start) \ job'.todo \subseteq zip
  BY <1>2 DEF RebuildIds
<1>5. RenderLoop' /\ ZipLoop'
  BY <1>2, <1>4 DEF StartJob, files, RenderLoop, ZipLoop
<1>6. ZipInOrder' /\ ReadyInOrder' /\ AnnouncedOnce' /\ NewlyUnannounced'
  BY <1>2 DEF StartJob, Inv, files, ZipInOrder, ReadyInOrder, AnnouncedOnce,
     NewlyUnannounced
<1> QED
  BY <1>3, <1>5, <1>6 DEF Inv

(* Rendering adds PDFs and never takes one away. *)
LEMMA RenderKeeps ==
  ASSUME Inv, GenerateSubmission
  PROVE  Inv'
<1>1. job \in Job /\ job.next \in Nat /\ job.start \in 0..MaxVersions
      /\ MaxVersions \in Nat
  BY BoundsAssumption DEF Inv, TypeOK, Job
<1>2. UNCHANGED <<versions, pushes, lock, zip, ready, announced, counts>> /\ job.at = "render"
  BY DEF GenerateSubmission
<1>3. CASE job.next > job.start
  <2>1. job' = [job EXCEPT !.at = "zip", !.next = 1] /\ pdf' = pdf
    BY <1>3 DEF GenerateSubmission
  <2>2. /\ job' \in Job /\ job'.at = "zip" /\ job'.start = job.start /\ job'.next = 1
        /\ job'.todo = job.todo /\ job'.newly = job.newly
    <3>1. 1 \in 1..(MaxVersions + 1) /\ "zip" \in Stages
      BY <1>1 DEF Stages
    <3> HIDE DEF Stages
    <3> QED
      BY <1>1, <2>1, <3>1 DEF Job
  <2>3. TypeOK'
    BY <1>2, <2>1, <2>2 DEF Inv, TypeOK, counts
  <2>4. RenderLoop'
    <3>1. ASSUME NEW v \in FirstVersions(job.start) PROVE Rendered(v)'
      <4>1. v \in 1..(job.next - 1)
        BY <1>1, <1>3 DEF FirstVersions
      <4> QED
        BY <1>2, <2>1, <4>1 DEF Inv, RenderLoop, Rendered
    <3> QED
      BY <2>2, <3>1 DEF RenderLoop
  <2>5. ZipLoop'
    <3>1. 1..(job'.next - 1) = {}
      BY <2>2
    <3> QED
      BY <1>2, <2>2, <3>1 DEF Inv, ZipLoop
  <2>6. ZipInOrder' /\ ReadyInOrder' /\ AnnouncedOnce' /\ NewlyUnannounced'
    BY <1>2, <2>1, <2>2 DEF Inv, ZipInOrder, ReadyInOrder, AnnouncedOnce, NewlyUnannounced
  <2> QED
    BY <2>3, <2>4, <2>5, <2>6 DEF Inv
<1>4. CASE ~(job.next > job.start)
  <2>1. /\ job' = [job EXCEPT !.next = @ + 1]
        /\ pdf' = IF job.next \in Blocked THEN pdf ELSE pdf \cup {job.next}
    BY <1>4 DEF GenerateSubmission
  <2>2. job.next \in Versions /\ job.next + 1 \in 1..(MaxVersions + 1)
    BY <1>1, <1>4 DEF Job, Versions
  <2>3. /\ job' \in Job /\ job'.at = "render" /\ job'.start = job.start
        /\ job'.next = job.next + 1
        /\ job'.todo = job.todo /\ job'.newly = job.newly
    BY <1>1, <1>2, <2>1, <2>2 DEF Job
  <2>4. pdf \subseteq pdf' /\ pdf' \subseteq Versions /\ job.next \in pdf' \cup Blocked
    BY <2>1, <2>2 DEF Inv, TypeOK
  <2>5. TypeOK'
    BY <1>2, <2>3, <2>4 DEF Inv, TypeOK, counts
  <2>6. RenderLoop'
    BY <1>1, <1>2, <2>3, <2>4 DEF Inv, RenderLoop, Rendered
  <2>7. ZipLoop'
    BY <1>2, <2>3 DEF Inv, ZipLoop
  <2>8. ZipInOrder' /\ ReadyInOrder' /\ AnnouncedOnce' /\ NewlyUnannounced'
    BY <1>2, <2>3, <2>4 DEF Inv, ZipInOrder, ReadyInOrder, AnnouncedOnce, NewlyUnannounced
  <2> QED
    BY <2>5, <2>6, <2>7, <2>8 DEF Inv
<1> QED
  BY <1>3, <1>4

(* A package is built when nothing is missing before it; all before it then *)
(* have theirs.                                                             *)
LEMMA BuildKeeps ==
  ASSUME Inv, BuildPackage
  PROVE  Inv'
<1>1. job \in Job /\ job.next \in Nat /\ job.start \in 0..MaxVersions
      /\ MaxVersions \in Nat
  BY BoundsAssumption DEF Inv, TypeOK, Job
<1>2. UNCHANGED <<versions, pushes, lock, pdf, ready, announced, counts>> /\ job.at = "zip"
  BY DEF BuildPackage
<1>3. CASE job.next > job.start
  <2>1. job' = [job EXCEPT !.at = "mark"] /\ zip' = zip
    BY <1>3 DEF BuildPackage
  <2>2. job' \in Job /\ job'.at = "mark" /\ job'.newly = job.newly
    BY <1>1, <2>1 DEF Job, Stages
  <2>3. TypeOK'
    BY <1>2, <2>1, <2>2 DEF Inv, TypeOK, counts
  <2> QED
    BY <1>2, <2>1, <2>2, <2>3, FilesKept DEF files
<1>4. CASE ~(job.next > job.start)
  <2> DEFINE n == job.next
             builds == n \in job.todo /\ ~ReportIssues(n)
  <2>1. job' = [job EXCEPT !.next = @ + 1] /\ zip' = IF builds THEN zip \cup {n} ELSE zip
    BY <1>4 DEF BuildPackage
  <2>2. n \in Versions /\ n + 1 \in 1..(MaxVersions + 1) /\ n \in FirstVersions(job.start)
    BY <1>1, <1>4 DEF Job, Versions, FirstVersions
  <2>3. /\ job' \in Job /\ job'.at = "zip" /\ job'.start = job.start /\ job'.next = n + 1
        /\ job'.todo = job.todo /\ job'.newly = job.newly
    BY <1>1, <1>2, <2>1, <2>2 DEF Job
  <2>4. zip \subseteq zip' /\ zip' \subseteq Versions
    BY <2>1, <2>2 DEF Inv, TypeOK
  <2>5. TypeOK'
    BY <1>2, <2>3, <2>4 DEF Inv, TypeOK, counts
  <2>6. RenderLoop'
    BY <1>2, <2>3 DEF Inv, RenderLoop, Rendered
  <2>7. \A v : ReportIssues(v)' = ReportIssues(v)
    BY <1>2 DEF ReportIssues
  <2>8. n \in zip' \/ ReportIssues(n)
    BY <1>2, <2>1, <2>2 DEF Inv, ZipLoop
  <2>9. ZipLoop'
    <3>1. \A v \in 1..(job'.next - 1) : v = n \/ v \in 1..(n - 1)
      BY <1>1, <2>3
    <3>2. \A v \in 1..(job'.next - 1) : Zipped(v)'
      BY <1>2, <2>4, <2>7, <2>8, <3>1 DEF Inv, ZipLoop, Zipped
    <3> QED
      BY <1>2, <2>3, <2>4, <3>2 DEF Inv, ZipLoop
  <2>10. ZipInOrder'
    <3>1. CASE ~builds
      BY <1>2, <2>1, <3>1 DEF Inv, ZipInOrder
    <3>2. CASE builds
      <4>1. \A u \in 1..n : u \in pdf
        <5>1. \A u \in 1..n : Rendered(u)
          BY <1>1, <1>2, <2>2 DEF Inv, RenderLoop, FirstVersions
        <5> QED
          BY <3>2, <5>1 DEF ReportIssues, FirstVersions, Rendered
      <4>2. \A u \in 1..(n - 1) : u \in zip
        <5>1. \A u \in 1..(n - 1) : ~ReportIssues(u)
          BY <1>1, <3>2 DEF ReportIssues, FirstVersions
        <5> QED
          BY <1>2, <5>1 DEF Inv, ZipLoop, Zipped
      <4>3. \A u \in FirstVersions(n) : u \in zip' /\ u \in pdf'
        BY <1>1, <1>2, <2>1, <3>2, <4>1, <4>2 DEF FirstVersions
      <4> QED
        BY <1>2, <2>1, <2>4, <3>2, <4>3 DEF Inv, ZipInOrder
    <3> QED
      BY <3>1, <3>2
  <2>11. ReadyInOrder' /\ AnnouncedOnce' /\ NewlyUnannounced'
    BY <1>2, <2>3 DEF Inv, ReadyInOrder, AnnouncedOnce, NewlyUnannounced
  <2> QED
    BY <2>5, <2>6, <2>9, <2>10, <2>11 DEF Inv
<1> QED
  BY <1>3, <1>4

(* The earliest of some versions is one of them, and none is before it. *)
LEMMA EarliestIsFirst ==
  ASSUME NEW S \in SUBSET Versions, S # {}
  PROVE  Earliest(S) \in S /\ \A u \in S : Earliest(S) <= u
<1>1. S \subseteq Nat
  BY Bounds DEF Versions
<1>2. PICK v \in S : \A u \in S : ~(<<u, v>> \in OpToRel(<, Nat))
  BY <1>1, NatLessThanWellFounded, WFMin
<1>3. \A u \in S : ~(u < v)
  BY <1>1, <1>2 DEF OpToRel
<1>4. \A u \in S : v <= u
  BY <1>1, <1>3
<1> QED
  BY <1>4 DEF Earliest

(* A version is marked after all before it, since they have packages, too. *)
LEMMA MarkKeeps ==
  ASSUME Inv, MarkReady
  PROVE  Inv'
<1>1. job \in Job /\ job.at = "mark" /\ versions \in 0..MaxVersions /\ MaxVersions \in Nat
      /\ UNCHANGED <<versions, pushes, lock, pdf, zip, announced, counts>>
  BY BoundsAssumption DEF Inv, TypeOK, MarkReady
<1>2. CASE NotYetReady = {}
  <2>1. job' = [job EXCEPT !.at = "announce"] /\ ready' = ready
    BY <1>2 DEF MarkReady
  <2>2. job' \in Job /\ job'.at = "announce" /\ job'.newly = job.newly
    BY <1>1, <2>1 DEF Job, Stages
  <2>3. TypeOK'
    BY <1>1, <2>1, <2>2 DEF Inv, TypeOK, counts
  <2> QED
    BY <1>1, <2>1, <2>2, <2>3, FilesKept DEF files
<1>3. CASE NotYetReady # {}
  <2> DEFINE v == Earliest(NotYetReady)
  <2>1. /\ ready' = ready \cup {v}
        /\ job' = [job EXCEPT !.newly = @ \cup {v}]
    BY <1>3 DEF MarkReady
  <2>2. NotYetReady \in SUBSET Versions
    BY <1>1 DEF NotYetReady, FirstVersions, Versions
  <2>3. v \in NotYetReady /\ \A u \in NotYetReady : v <= u
    BY <1>3, <2>2, EarliestIsFirst
  <2>4. v \in Versions /\ v \in zip /\ v \notin ready /\ v <= versions
    BY <1>1, <2>2, <2>3 DEF NotYetReady, FirstVersions
  <2> HIDE DEF v
  <2>5. /\ job' \in Job /\ job'.at = "mark" /\ job'.newly = job.newly \cup {v}
    BY <1>1, <2>1, <2>4 DEF Job
  <2>6. TypeOK'
    BY <1>1, <2>1, <2>4, <2>5 DEF Inv, TypeOK, counts
  <2>7. ReadyInOrder'
    <3>1. ASSUME NEW u \in FirstVersions(v) PROVE u \in ready'
      <4>1. CASE u = v
        BY <2>1, <4>1
      <4>2. CASE u # v
        <5>1. u \in Nat /\ u < v /\ v \in Nat
          BY <1>1, <2>4, <3>1, <4>2 DEF FirstVersions, Versions
        <5>2. u \in zip /\ u \in pdf /\ u \in FirstVersions(versions)
          BY <1>1, <2>4, <3>1, <5>1 DEF Inv, ZipInOrder, FirstVersions
        <5>3. u \notin NotYetReady
          BY <2>3, <5>1
        <5> QED
          BY <2>1, <5>2, <5>3 DEF NotYetReady
      <4> QED
        BY <4>1, <4>2
    <3> QED
      BY <2>1, <3>1 DEF Inv, ReadyInOrder
  <2>8. announced[v] = 0
    BY <2>4 DEF Inv, TypeOK, AnnouncedOnce
  <2>9. NewlyUnannounced' /\ AnnouncedOnce'
    BY <1>1, <2>1, <2>5, <2>8 DEF Inv, NewlyUnannounced, AnnouncedOnce
  <2>10. ZipInOrder' /\ RenderLoop' /\ ZipLoop'
    BY <1>1, <2>5 DEF Inv, ZipInOrder, RenderLoop, ZipLoop
  <2> QED
    BY <2>6, <2>7, <2>9, <2>10 DEF Inv
<1> QED
  BY <1>2, <1>3

(* A webhook is queued for a version that had none, and struck off. *)
LEMMA AnnounceKeeps ==
  ASSUME Inv, AnnounceReady
  PROVE  Inv'
<1>1. job \in Job /\ job.at = "announce"
      /\ UNCHANGED <<versions, pushes, lock, pdf, zip, ready, counts>>
  BY DEF Inv, TypeOK, AnnounceReady
<1>2. CASE job.newly = {}
  <2>1. job' = [job EXCEPT !.at = "check"] /\ announced' = announced
    BY <1>2 DEF AnnounceReady
  <2>2. job' \in Job /\ job'.at = "check" /\ job'.newly = job.newly
    BY <1>1, <2>1 DEF Job, Stages
  <2>3. TypeOK'
    BY <1>1, <2>1, <2>2 DEF Inv, TypeOK, counts
  <2> QED
    BY <1>1, <2>1, <2>2, <2>3, FilesKept DEF files
<1>3. CASE job.newly # {}
  <2> DEFINE v == Earliest(job.newly)
  <2>1. /\ job' = [job EXCEPT !.newly = @ \ {v}]
        /\ announced' = [announced EXCEPT ![v] = @ + 1]
    BY <1>3 DEF AnnounceReady
  <2>2. v \in job.newly /\ v \in Versions
    <3>1. job.newly \in SUBSET Versions
      BY <1>1 DEF Job
    <3> QED
      BY <1>3, <3>1, EarliestIsFirst
  <2> HIDE DEF v
  <2>3. job' \in Job /\ job'.at = "announce" /\ job'.newly = job.newly \ {v}
    BY <1>1, <2>1 DEF Job
  <2>4. v \in ready /\ announced[v] = 0
    BY <2>2 DEF Inv, NewlyUnannounced
  <2>5. /\ announced' \in [Versions -> Nat]
        /\ announced'[v] = 1
        /\ \A u \in Versions \ {v} : announced'[u] = announced[u]
    BY <2>1, <2>2, <2>4 DEF Inv, TypeOK
  <2>6. TypeOK'
    BY <1>1, <2>3, <2>5 DEF Inv, TypeOK, counts
  <2>7. AnnouncedOnce'
    BY <1>1, <2>4, <2>5 DEF Inv, AnnouncedOnce
  <2>8. NewlyUnannounced'
    <3>1. job.newly \subseteq Versions
      BY <1>1 DEF Job
    <3> QED
      BY <1>1, <2>3, <2>5, <3>1 DEF Inv, NewlyUnannounced
  <2>9. ZipInOrder' /\ RenderLoop' /\ ZipLoop' /\ ReadyInOrder'
    BY <1>1, <2>3 DEF Inv, ZipInOrder, RenderLoop, ZipLoop, ReadyInOrder
  <2> QED
    BY <2>6, <2>7, <2>8, <2>9 DEF Inv
<1> QED
  BY <1>2, <1>3

(* Whatever happens keeps the invariant. *)
LEMMA NextKeeps == Inv /\ [Next]_vars => Inv'
<1> SUFFICES ASSUME Inv, [Next]_vars PROVE Inv'
  OBVIOUS
<1>1. CASE \/ SubmissionCommitted \/ GenerateMissingPdfs \/ Push
           \/ CheckNewVersions \/ Unlock \/ Fail \/ Crash \/ Reap
  BY <1>1, QueueKeeps
<1>2. CASE StartJob
  BY <1>2, StartKeeps
<1>3. CASE GenerateSubmission
  BY <1>3, RenderKeeps
<1>4. CASE BuildPackage
  BY <1>4, BuildKeeps
<1>5. CASE MarkReady
  BY <1>5, MarkKeeps
<1>6. CASE AnnounceReady
  BY <1>6, AnnounceKeeps
<1>7. CASE UNCHANGED vars
  <2>1. TypeOK'
    BY <1>7 DEF Inv, TypeOK, vars, files, counts
  <2> QED
    BY <1>7, <2>1, JobKept DEF vars
<1> QED
  BY <1>1, <1>2, <1>3, <1>4, <1>5, <1>6, <1>7 DEF Next, JobStep

(* The invariant holds of every reachable state. *)
LEMMA AlwaysInv == Spec => []Inv
BY InitInv, NextKeeps, PTL DEF Spec

----------------------------------------------------------------------------
(* The theorems *)

(* No loop of the job runs past the versions, and no count past its bound. *)
THEOREM TypeCorrect == Spec => []TypeOK
<1>1. Inv => TypeOK
  BY DEF Inv
<1> QED
  BY <1>1, AlwaysInv, PTL

(* However often jobs fail, are retried, die or are pushed again, partners   *)
(* are told of a version at most once, and only when it can be downloaded.   *)
THEOREM AlwaysAnnouncedOnce == Spec => []AnnouncedOnce
<1>1. Inv => AnnouncedOnce
  BY DEF Inv
<1> QED
  BY <1>1, AlwaysInv, PTL

(* A package holds the PDFs of every version up to its own, whichever        *)
(* versions cannot be rendered.                                              *)
THEOREM PackagesComplete == Spec => []CumulativeComplete
<1>1. Inv => CumulativeComplete
  BY DEF Inv, ZipInOrder, CumulativeComplete
<1> QED
  BY <1>1, AlwaysInv, PTL

(* Versions become ready in the order they were submitted, although every    *)
(* one is saved on its own and the job may die in between.                   *)
THEOREM ReadyAlwaysInOrder == Spec => []ReadyInOrder
<1>1. Inv => ReadyInOrder
  BY DEF Inv
<1> QED
  BY <1>1, AlwaysInv, PTL
============================================================================
