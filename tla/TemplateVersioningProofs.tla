---------------------- MODULE TemplateVersioningProofs ----------------------
(***************************************************************************)
(* For any number of versions, days and failures: at most one version is   *)
(* published, days are published in order, the cache knows what is         *)
(* published, and a jurisdiction's changes are carried over.               *)
(***************************************************************************)
EXTENDS TemplateVersioning, WellFoundedInduction, TLAPS

USE DEF Versions, Days

----------------------------------------------------------------------------
(* The inductive invariant *)

(* The versions that a publication has deprecated, and all that had their day. *)
Replaced == {v \in With("deprecated") : row[v].reason = "new_publish"}
Past     == Published \cup Replaced

(* The version a job holds was listed because its day had come, and no      *)
(* publication can overtake it: there is one job.                           *)
JobHoldsLatest ==
  job.at # "idle" =>
    /\ job.version \in Versions
    /\ row[job.version].status # "none"
    /\ row[job.version].date <= today
    /\ \A u \in Past : row[u].date < row[job.version].date

(* What had its day comes before all that is scheduled, the published       *)
(* version last.                                                            *)
DaysInOrder ==
  \A u \in Past :
    /\ row[u].date <= today
    /\ \A w \in With("scheduled") : row[u].date < row[w].date
    /\ \A w \in Published : row[u].date <= row[w].date

(* An open publication replaces whatever stands in its way, and no more. *)
OpenReplaces ==
  job.at = "open" =>
    /\ Published \subseteq job.replaces
    /\ \A w \in With("scheduled") :
         w \in job.replaces \/ w = job.version \/ row[job.version].date < row[w].date
    /\ \A u \in job.replaces :
         row[u].status # "none" /\ row[u].date <= row[job.version].date

(* A day an administrator has chosen is still to come. *)
PromotionAhead == admin.op = "promote" => today < admin.date

(* Ids that were not read during a publication are those published, and no  *)
(* publication is under way that could change that.                         *)
Know(ids) == ids.filled /\ ~ids.raced => Published \subseteq ids.ids /\ job.at # "open"

Inv ==
  /\ TypeOK
  /\ OnePublished
  /\ JobHoldsLatest
  /\ DaysInOrder
  /\ OpenReplaces
  /\ PromotionAhead
  /\ Know(cache)
  /\ Know(reader)

(* The first state satisfies it. *)
LEMMA InitInv == Init => Inv
<1> SUFFICES ASSUME Init PROVE Inv
  OBVIOUS
<1>1. 0 \in Days /\ MaxFailures \in Nat
  BY BoundsAssumption
<1>2. TypeOK
  <2>1. NoRow \in Row
    BY <1>1 DEF NoRow, Row
  <2>2. IdleJob \in Job
    BY <1>1 DEF IdleJob, Job
  <2>3. NoRequest \in Request
    BY <1>1 DEF NoRequest, Request
  <2>4. NoIds \in Ids
    BY DEF NoIds, Ids
  <2>5. row \in [Versions -> Row]
    BY <2>1 DEF Init
  <2>6. today \in Days /\ failures \in 0..MaxFailures
    BY <1>1 DEF Init
  <2> QED
    BY <2>2, <2>3, <2>4, <2>5, <2>6 DEF Init, TypeOK
<1>3. Past = {} /\ Published = {} /\ job.at = "idle" /\ admin.op = "none" /\ ~cache.filled /\ ~reader.filled
  BY DEF Init, Past, Replaced, Published, With, NoRow, IdleJob, NoRequest, NoIds
<1> QED
  BY <1>2, <1>3
     DEF Inv, OnePublished, JobHoldsLatest, DaysInOrder, OpenReplaces, PromotionAhead, Know

(* What the actions of an administrator leave as it was. *)
Safe(R) ==
  /\ R \in [Versions -> Row]
  /\ \A v \in Versions :
       /\ R[v].status = "published" => row[v].status = "published"
       /\ R[v].status = "deprecated" /\ R[v].reason = "new_publish" =>
            row[v].status = "deprecated" /\ row[v].reason = "new_publish"
       /\ row[v].status # "none" =>
            /\ R[v].status # "none"
            /\ R[v].date = row[v].date
            /\ R[v].status = "scheduled" => row[v].status = "scheduled"
       /\ row[v].status = "none" /\ R[v].status = "scheduled" => today < R[v].date

(* Nothing else is needed of a change of rows. *)
LEMMA SafeRows ==
  ASSUME Inv, Safe(row'), UNCHANGED <<today, job, cache, reader, failures>>,
         discarded' \in BOOLEAN, admin' \in Request, PromotionAhead'
  PROVE  Inv'
<1>1. TypeOK'
  BY DEF Inv, TypeOK, Safe
<1>2. Published' \subseteq Published /\ Past' \subseteq Past
  BY DEF Past, Replaced, Published, With, Safe
<1>3. \A u \in Past' : u \in Versions /\ row'[u].date = row[u].date
  BY <1>2 DEF Past, Replaced, Published, With, Safe
<1>3a. Published' \subseteq Past'
  BY DEF Past
<1>4. \A w \in With("scheduled")' :
        \/ w \in With("scheduled") /\ row'[w].date = row[w].date
        \/ today < row'[w].date
  BY DEF With, Safe
<1>5. \A u \in Versions : row[u].date \in Nat /\ row'[u].date \in Nat
  BY BoundsAssumption, <1>1 DEF Inv, TypeOK, Row
<1>6. today \in Nat
  BY BoundsAssumption DEF Inv, TypeOK
<1>7. OnePublished'
  BY <1>2 DEF Inv, OnePublished
<1>8. JobHoldsLatest'
  BY <1>2, <1>3 DEF Inv, JobHoldsLatest, Safe
<1>9. DaysInOrder'
  BY <1>2, <1>3, <1>3a, <1>4, <1>5, <1>6 DEF Inv, DaysInOrder, Published, With
<1>10. OpenReplaces'
  <2> SUFFICES ASSUME job.at = "open", NEW w \in With("scheduled")'
               PROVE  w \in job.replaces \/ w = job.version
                        \/ row'[job.version].date < row'[w].date
    <3>1. job.at = "open" => /\ job.replaces \subseteq Versions
                             /\ job.version \in Versions
                             /\ row'[job.version].date = row[job.version].date
      BY DEF Inv, TypeOK, Job, JobHoldsLatest, Safe
    <3>2. job.at = "open" => \A u \in job.replaces :
             row'[u].status # "none" /\ row'[u].date = row[u].date
      BY <3>1 DEF Inv, OpenReplaces, Safe
    <3> QED
      BY <1>2, <3>1, <3>2 DEF Inv, OpenReplaces
  <2>1. /\ job.version \in Versions
        /\ row'[job.version].date = row[job.version].date
        /\ row[job.version].date <= today
    BY DEF Inv, JobHoldsLatest, Safe
  <2>2. CASE w \in With("scheduled") /\ row'[w].date = row[w].date
    BY <2>1, <2>2 DEF Inv, OpenReplaces
  <2>3. CASE today < row'[w].date
    BY <2>1, <2>3, <1>5, <1>6 DEF With
  <2> QED
    BY <2>2, <2>3, <1>4
<1>11. Know(cache)' /\ Know(reader)'
  BY <1>2 DEF Inv, Know
<1> QED
  BY <1>1, <1>7, <1>8, <1>9, <1>10, <1>11 DEF Inv

(* Unscheduling any set of versions publishes and schedules nothing. *)
LEMMA DeprecateSafe ==
  ASSUME TypeOK, NEW S
  PROVE  Safe(Deprecate(row, S, "unscheduled"))
<1> DEFINE R == Deprecate(row, S, "unscheduled")
<1>1. ASSUME NEW v \in Versions
      PROVE  /\ R[v] \in Row
             /\ R[v].date = row[v].date
             /\ v \in S => R[v].status = "deprecated" /\ R[v].reason = "unscheduled"
             /\ v \notin S => R[v] = row[v]
  <2>1. row[v] \in Row
    BY DEF TypeOK
  <2>2. R[v] = IF v \in S THEN [row[v] EXCEPT !.status = "deprecated", !.reason = "unscheduled"]
               ELSE row[v]
    BY DEF Deprecate
  <2> QED
    BY <2>1, <2>2 DEF Row
<1>2. R \in [Versions -> Row]
  BY <1>1 DEF Deprecate
<1> QED
  BY <1>1, <1>2 DEF Safe

(* A set of numbers with a bound has a greatest element: the relation "less *)
(* than" is well-founded, so the distances from the bound have a least one. *)
LEMMA Greatest ==
  ASSUME NEW n \in Nat, NEW S \in SUBSET (0..n), S # {}
  PROVE  \E m \in S : \A k \in S : k <= m
<1> DEFINE T == {n - k : k \in S}
<1>1. T \subseteq Nat /\ T # {}
  <2>1. \A k \in S : k \in Nat /\ n - k \in Nat
    OBVIOUS
  <2>2. PICK k \in S : TRUE
    OBVIOUS
  <2>3. n - k \in T
    OBVIOUS
  <2> QED
    BY <2>1, <2>3
<1>2. PICK x \in T : \A y \in T : ~(<<y, x>> \in OpToRel(<, Nat))
  BY <1>1, NatLessThanWellFounded, WFMin
<1>3. \A y \in T : ~(y < x)
  BY <1>1, <1>2 DEF OpToRel
<1>4. PICK m \in S : x = n - m
  BY <1>2
<1>5. ASSUME NEW k \in S PROVE k <= m
  <2>1. ~(n - k < n - m)
    BY <1>3, <1>4
  <2> QED
    BY <2>1, <1>4
<1> QED
  BY <1>5

(* The versions among which the previous one is looked for. *)
Candidates(v, rows) ==
  {u \in Versions : /\ u # v
                    /\ rows[u].status = "deprecated"
                    /\ rows[u].reason = "new_publish"
                    /\ rows[u].date <= rows[v].date}

(* The previous version is the latest candidate. *)
LEMMA PreviousIsLatest ==
  ASSUME NEW v \in Versions, NEW rows \in [Versions -> Row], Candidates(v, rows) # {}
  PROVE  /\ PreviousPublishedVersion(v, rows) \in Candidates(v, rows)
         /\ \A w \in Candidates(v, rows) :
              rows[w].date <= rows[PreviousPublishedVersion(v, rows)].date
<1> DEFINE P == Candidates(v, rows)
           Dates == {rows[u].date : u \in P}
           Latest(u) == \A w \in P :
                          \/ rows[w].date < rows[u].date
                          \/ rows[w].date = rows[u].date /\ w <= u
<1>1. MaxDay \in Nat /\ MaxVersions \in Nat
  BY BoundsAssumption
<1>2. /\ P \subseteq Versions
      /\ \A u \in P : rows[u].date \in 0..MaxDay
  BY DEF Candidates, Row
<1>3. PICK d \in Dates : \A k \in Dates : k <= d
  <2>1. Dates \in SUBSET (0..MaxDay) /\ Dates # {}
    BY <1>2
  <2> HIDE DEF Dates
  <2> QED
    BY <1>1, <2>1, Greatest
<1>4. PICK u \in {w \in P : rows[w].date = d} :
        \A w \in {x \in P : rows[x].date = d} : w <= u
  <2> DEFINE Q == {w \in P : rows[w].date = d}
  <2>1. Q \in SUBSET (0..MaxVersions) /\ Q # {}
    BY <1>1, <1>2, <1>3
  <2> HIDE DEF Q
  <2>2. \E u \in Q : \A w \in Q : w <= u
    BY <1>1, <2>1, Greatest
  <2> QED
    BY <2>2 DEF Q
<1>5. u \in P /\ Latest(u)
  <2>1. \A w \in P : rows[w].date \in Nat /\ rows[w].date <= d
    BY <1>2, <1>3
  <2> QED
    BY <1>1, <1>4, <2>1
<1>6. PreviousPublishedVersion(v, rows) = CHOOSE x \in P : Latest(x)
  BY Zenon DEF PreviousPublishedVersion, Candidates
<1> HIDE DEF P, Latest
<1>7. PreviousPublishedVersion(v, rows) \in P /\ Latest(PreviousPublishedVersion(v, rows))
  BY <1>5, <1>6
<1> QED
  BY <1>2, <1>7 DEF P, Latest

(* There may be no previous version, but there is never a strange one. *)
LEMMA PreviousIsVersion ==
  ASSUME NEW v \in Versions, NEW rows \in [Versions -> Row]
  PROVE  PreviousPublishedVersion(v, rows) \in {0} \cup Versions
<1>1. CASE Candidates(v, rows) = {}
  BY <1>1 DEF PreviousPublishedVersion, Candidates
<1>2. CASE Candidates(v, rows) # {}
  BY <1>2, PreviousIsLatest DEF Candidates
<1> QED
  BY <1>1, <1>2

(* The administrators' actions. *)
LEMMA AdminKeeps ==
  ASSUME Inv,
         \/ CreateDraft \/ DiscardDraft \/ Schedule
         \/ LoadUnschedule \/ Unschedule \/ LoadPromote \/ PromoteDraftToScheduled
         \/ CheckArchive \/ LoadArchive \/ Archive \/ Restore \/ Customize
  PROVE  Inv'
<1> USE DEF Inv
<1>0. /\ today \in Nat /\ today \in Days
      /\ \A v \in Versions : row[v] \in Row
      /\ Safe(row)
  BY BoundsAssumption DEF TypeOK, Safe
<1>00. NoRequest \in Request
  BY BoundsAssumption DEF NoRequest, Request
<1>1. CASE CreateDraft
  <2>1. PICK v \in Versions :
          /\ row[v].status = "none"
          /\ row' = [row EXCEPT ![v] = [NoRow EXCEPT !.status = "draft", !.date = today]]
    BY <1>1 DEF CreateDraft, IsNew
  <2>2. Safe(row')
    BY <1>0, <2>1 DEF Safe, NoRow, Row, TypeOK
  <2> QED
    BY <1>1, <2>2, SafeRows DEF CreateDraft, TypeOK, PromotionAhead
<1>2. CASE DiscardDraft
  BY <1>2, DeprecateSafe, SafeRows DEF DiscardDraft, TypeOK, PromotionAhead
<1>3. CASE Schedule
  <2>1. PICK v \in Versions, d \in (today + 1)..MaxDay :
          /\ row[v].status = "none"
          /\ row' = [row EXCEPT ![v] = [NoRow EXCEPT !.status = "scheduled", !.date = d]]
    BY <1>3 DEF Schedule, IsNew
  <2>2. today < d /\ d \in Days
    BY <1>0, BoundsAssumption
  <2>3. Safe(row')
    BY <1>0, <2>1, <2>2 DEF Safe, NoRow, Row, TypeOK
  <2> QED
    BY <1>3, <2>3, SafeRows DEF Schedule, TypeOK, PromotionAhead
<1>4. CASE LoadUnschedule
  <2>1. PICK v \in Versions :
          admin' = [NoRequest EXCEPT !.op = "unschedule", !.seen = {v}]
    BY <1>4 DEF LoadUnschedule, With
  <2>2. admin' \in Request /\ admin'.op = "unschedule"
    BY <1>00, <2>1 DEF Request
  <2> QED
    BY <1>0, <1>4, <2>2, SafeRows DEF LoadUnschedule, TypeOK, PromotionAhead
<1>5. CASE Unschedule
  <2>1. admin' \in Request /\ admin'.op = "none"
    BY <1>5, <1>00 DEF Unschedule, NoRequest, Request
  <2> QED
    BY <1>5, <2>1, DeprecateSafe, SafeRows DEF Unschedule, TypeOK, PromotionAhead
<1>6. CASE LoadPromote
  <2>1. admin' \in Request /\ today < admin'.date
    BY <1>0, <1>6, BoundsAssumption DEF LoadPromote, Request, With
  <2> QED
    BY <1>0, <1>6, <2>1, SafeRows DEF LoadPromote, TypeOK, PromotionAhead
<1>7. CASE PromoteDraftToScheduled
  <2> DEFINE copy == [NoRow EXCEPT !.status = "scheduled", !.date = admin.date]
             D    == Deprecate(row, admin.seen, "unscheduled")
  <2>1. admin' \in Request /\ admin'.op = "none"
    BY <1>7, <1>00 DEF PromoteDraftToScheduled, NoRequest, Request
  <2>2. PICK v \in Versions :
          /\ row[v].status = "none"
          /\ row' = [[D EXCEPT ![v] = copy] EXCEPT
                       ![v].base = PreviousPublishedVersion(v, [D EXCEPT ![v] = copy])]
    BY <1>7 DEF PromoteDraftToScheduled, IsNew
  <2>3. Safe(D)
    BY DeprecateSafe
  <2>4. copy \in Row /\ copy.status = "scheduled" /\ today < copy.date
    BY <1>0, <1>7 DEF PromoteDraftToScheduled, PromotionAhead, TypeOK, Request, NoRow, Row
  <2> HIDE DEF copy, D
  <2>5. PreviousPublishedVersion(v, [D EXCEPT ![v] = copy]) \in {0} \cup Versions
    BY <2>3, <2>4, PreviousIsVersion DEF Safe
  <2>6. /\ row' \in [Versions -> Row]
        /\ row'[v].status = "scheduled"
        /\ today < row'[v].date
        /\ \A u \in Versions \ {v} : row'[u] = D[u]
    BY <2>2, <2>3, <2>4, <2>5 DEF Safe, Row
  <2>7. Safe(row')
    BY <2>2, <2>3, <2>6 DEF Safe
  <2> QED
    BY <1>7, <2>1, <2>7, SafeRows DEF PromoteDraftToScheduled, TypeOK, PromotionAhead
<1>8. CASE CheckArchive
  <2>1. admin' \in Request /\ admin'.op = "check_archive"
    BY <1>8, <1>00 DEF CheckArchive, NoRequest, Request
  <2> QED
    BY <1>0, <1>8, <2>1, SafeRows DEF CheckArchive, TypeOK, PromotionAhead
<1>9. CASE LoadArchive
  <2>1. With("scheduled") \cup With("draft") \in SUBSET Versions
    BY DEF With
  <2>2. admin' \in Request /\ admin'.op = "archive"
    BY <1>9, <1>00, <2>1 DEF LoadArchive, Request
  <2> QED
    BY <1>0, <1>9, <2>2, SafeRows DEF LoadArchive, TypeOK, PromotionAhead
<1>10. CASE Archive
  <2>1. admin' \in Request /\ admin'.op = "none"
    BY <1>10, <1>00 DEF Archive, NoRequest, Request
  <2> QED
    BY <1>10, <2>1, DeprecateSafe, SafeRows DEF Archive, TypeOK, PromotionAhead
<1>11. CASE Restore
  BY <1>0, <1>11, SafeRows DEF Restore, TypeOK, PromotionAhead
<1>12. CASE Customize
  <2>1. PICK v \in Versions : row' = [row EXCEPT ![v].custom = TRUE]
    BY <1>12 DEF Customize, Published, With
  <2>2. [row[v] EXCEPT !.custom = TRUE] \in Row
    <3>1. row[v] \in Row
      BY <1>0
    <3> QED
      BY <3>1 DEF Row
  <2>3. Safe(row')
    BY <1>0, <2>1, <2>2 DEF Safe, Row, TypeOK
  <2> QED
    BY <1>12, <2>3, SafeRows DEF Customize, TypeOK, PromotionAhead
<1> QED
  BY <1>1, <1>2, <1>3, <1>4, <1>5, <1>6, <1>7, <1>8, <1>9, <1>10, <1>11, <1>12

(* A day passes. *)
LEMMA NextDayKeeps ==
  ASSUME Inv, NextDay
  PROVE  Inv'
<1>1. /\ today \in Nat /\ today' \in Days /\ today' = today + 1
      /\ admin.op = "none"
      /\ \A v \in Versions : row[v].date \in Nat
  BY BoundsAssumption DEF Inv, TypeOK, NextDay, Row
<1>2. UNCHANGED <<discarded, row, job, admin, cache, reader, failures>>
  BY DEF NextDay
<1>3. TypeOK'
  BY <1>1, <1>2 DEF Inv, TypeOK
<1>4. JobHoldsLatest'
  BY <1>1, <1>2 DEF Inv, JobHoldsLatest, Past, Replaced, Published, With
<1>5. DaysInOrder'
  BY <1>1, <1>2 DEF Inv, DaysInOrder, Past, Replaced, Published, With
<1>6. OnePublished' /\ OpenReplaces' /\ PromotionAhead' /\ Know(cache)' /\ Know(reader)'
  BY <1>1, <1>2 DEF Inv, OnePublished, OpenReplaces, PromotionAhead, Know, Published, With
<1> QED
  BY <1>3, <1>4, <1>5, <1>6 DEF Inv

(* The job takes its list, or gives a version up. *)
LEMMA JobKeeps ==
  ASSUME Inv, GetVersionsPublishableNow \/ PublicationFails
  PROVE  Inv'
<1>1. UNCHANGED <<today, discarded, row, admin, cache, reader>>
  BY DEF GetVersionsPublishableNow, PublicationFails
<1>2. job' \in Job /\ job'.at \in {"idle", "picked"} /\ failures' \in 0..MaxFailures
  <2>1. IdleJob \in Job /\ IdleJob.at = "idle"
    BY BoundsAssumption DEF IdleJob, Job
  <2>2. CASE GetVersionsPublishableNow
    <3>1. PICK v \in Versions : job' = [IdleJob EXCEPT !.at = "picked", !.version = v]
      BY <2>2 DEF GetVersionsPublishableNow, Due, With
    <3> QED
      BY <2>1, <2>2, <3>1 DEF Job, GetVersionsPublishableNow, Inv, TypeOK
  <2>3. CASE PublicationFails
    BY <2>1, <2>3, BoundsAssumption DEF PublicationFails, Inv, TypeOK
  <2> QED
    BY <2>2, <2>3
<1>3. TypeOK'
  BY <1>1, <1>2 DEF Inv, TypeOK
<1>4. JobHoldsLatest'
  <2>1. CASE GetVersionsPublishableNow
    <3>1. PICK v \in Due : job' = [IdleJob EXCEPT !.at = "picked", !.version = v]
      BY <2>1 DEF GetVersionsPublishableNow
    <3>2. /\ v \in Versions /\ job'.version = v
          /\ row[v].status = "scheduled" /\ row[v].date <= today
      BY <3>1 DEF Due, With, IdleJob
    <3> QED
      BY <1>1, <3>2 DEF Inv, DaysInOrder, JobHoldsLatest, Past, Replaced, Published, With
  <2>2. CASE PublicationFails
    BY <2>2 DEF PublicationFails, JobHoldsLatest, IdleJob
  <2> QED
    BY <2>1, <2>2
<1>5. DaysInOrder' /\ OnePublished' /\ PromotionAhead'
  BY <1>1 DEF Inv, DaysInOrder, OnePublished, PromotionAhead, Past, Replaced, Published, With
<1>6. OpenReplaces' /\ Know(cache)' /\ Know(reader)'
  BY <1>1, <1>2 DEF Inv, OpenReplaces, Know, Published, With
<1> QED
  BY <1>3, <1>4, <1>5, <1>6 DEF Inv

(* A publication replaces what is published or due, and ids that were read  *)
(* before are known to be raced.                                            *)
LEMMA PublishKeeps ==
  ASSUME Inv, PublishVersion
  PROVE  Inv'
<1> DEFINE v        == job.version
           replaces == DeprecateVersionsBefore(v)
           rows     == Deprecate(row, replaces, "new_publish")
           previous == PreviousPublishedVersion(v, rows)
<1>1. /\ UNCHANGED <<today, discarded, row, admin, failures>>
      /\ cache' = NoIds
      /\ reader' = [reader EXCEPT !.raced = @ \/ reader.filled]
  BY DEF PublishVersion, ClearPublishedIdsCache, Raced
<1>2. /\ job \in Job /\ v \in Versions /\ row[v] \in Row
      /\ replaces \in SUBSET Versions
      /\ \A u \in Versions : row[u] \in Row /\ row[u].date \in Nat
  BY BoundsAssumption DEF Inv, TypeOK, PublishVersion, JobHoldsLatest,
     DeprecateVersionsBefore, Published, With, Row
<1>3. PreviousPublishedVersion(v, row) \in {0} \cup Versions
  BY <1>2, PreviousIsVersion DEF Inv, TypeOK
<1>4. PICK b \in {0} \cup Versions, c \in BOOLEAN :
        job' = [job EXCEPT !.at = "open", !.replaces = replaces, !.base = b, !.custom = c]
  <2>1. (IF row[v].base # 0 THEN row[v].base ELSE PreviousPublishedVersion(v, row))
           \in {0} \cup Versions
    BY <1>2, <1>3 DEF Row
  <2> HIDE DEF previous
  <2>2. (previous # 0 /\ row[previous].custom) \in BOOLEAN
    OBVIOUS
  <2> USE DEF previous
  <2> QED
    BY <2>1, <2>2 DEF PublishVersion
<1>5. /\ job' \in Job /\ job'.at = "open"
      /\ job'.version = v /\ job'.replaces = replaces
  BY <1>2, <1>4 DEF Job
<1>6. TypeOK'
  <2>1. cache' \in Ids /\ reader' \in Ids
    BY <1>1 DEF Inv, TypeOK, NoIds, Ids
  <2> QED
    BY <1>1, <1>5, <2>1 DEF Inv, TypeOK
<1>7. JobHoldsLatest'
  BY <1>1, <1>5 DEF Inv, JobHoldsLatest, PublishVersion, Past, Replaced, Published, With
<1>8. OpenReplaces'
  <2>1. \A u \in Published : row[u].date < row[v].date
    BY DEF Inv, JobHoldsLatest, PublishVersion, Past
  <2>2. Published \subseteq replaces
    BY <1>2, <2>1 DEF DeprecateVersionsBefore, Published, With
  <2>3. \A w \in With("scheduled") : w \in replaces \/ w = v \/ row[v].date < row[w].date
    BY <1>2 DEF DeprecateVersionsBefore, With
  <2>4. \A u \in replaces : row[u].status # "none" /\ row[u].date <= row[v].date
    BY DEF DeprecateVersionsBefore, Published, With
  <2> HIDE DEF v, replaces
  <2> QED
    BY <1>1, <1>5, <2>2, <2>3, <2>4 DEF OpenReplaces, Published, With
<1>9. DaysInOrder' /\ OnePublished' /\ PromotionAhead'
  BY <1>1 DEF Inv, DaysInOrder, OnePublished, PromotionAhead, Past, Replaced, Published, With
<1>10. Know(cache)' /\ Know(reader)'
  <2>1. ~cache'.filled
    BY <1>1 DEF NoIds
  <2>2. reader'.filled => reader'.raced
    BY <1>1 DEF Inv, TypeOK, Ids
  <2> QED
    BY <2>1, <2>2 DEF Know
<1> QED
  BY <1>6, <1>7, <1>8, <1>9, <1>10 DEF Inv

(* The rows after a publication. *)
LEMMA CommitRows ==
  ASSUME Inv, CommitPublication
  PROVE  /\ job.version \in Versions /\ job.replaces \subseteq Versions
         /\ row' \in [Versions -> Row]
         /\ \A u \in Versions :
              /\ row'[u].date = row[u].date
              /\ u # job.version =>
                   /\ u \in job.replaces => row'[u].status = "deprecated"
                   /\ u \notin job.replaces => row'[u] = row[u]
         /\ row'[job.version].status = "published"
<1> DEFINE v == job.version
           D == Deprecate(row, job.replaces, "new_publish")
<1>1. /\ v \in Versions
      /\ job.replaces \subseteq Versions
      /\ job.base \in {0} \cup Versions /\ job.custom \in BOOLEAN
  BY DEF Inv, TypeOK, Job, JobHoldsLatest, CommitPublication
<1>2. ASSUME NEW u \in Versions
      PROVE  /\ D[u] \in Row
             /\ D[u].date = row[u].date
             /\ u \in job.replaces => D[u].status = "deprecated"
             /\ u \notin job.replaces => D[u] = row[u]
  <2>1. row[u] \in Row
    BY DEF Inv, TypeOK
  <2>2. D[u] = IF u \in job.replaces
               THEN [row[u] EXCEPT !.status = "deprecated", !.reason = "new_publish"]
               ELSE row[u]
    BY DEF Deprecate
  <2> QED
    BY <2>1, <2>2 DEF Row
<1>3. D \in [Versions -> Row]
  BY <1>2 DEF Deprecate
<1>4. row' = [D EXCEPT ![v].status = "published", ![v].base = job.base,
                       ![v].custom = @ \/ job.custom]
  BY DEF CommitPublication
<1> HIDE DEF D, v
<1>5. \A u \in Versions : u # v => row'[u] = D[u]
  BY <1>1, <1>3, <1>4
<1>6. row'[v] = [D[v] EXCEPT !.status = "published", !.base = job.base,
                             !.custom = @ \/ job.custom]
  BY <1>1, <1>3, <1>4
<1>7. row'[v] \in Row /\ row'[v].status = "published" /\ row'[v].date = D[v].date
  <2>1. D[v] \in Row
    BY <1>1, <1>3
  <2> QED
    BY <1>1, <1>6, <2>1 DEF Row
<1>8. row' \in [Versions -> Row]
  <2>1. row' = [u \in Versions |-> row'[u]]
    BY <1>3, <1>4
  <2> QED
    BY <1>1, <1>3, <1>5, <1>7, <2>1
<1> QED
  BY <1>1, <1>2, <1>5, <1>7, <1>8 DEF v

(* The version the job publishes is the only one published, and the last of *)
(* those that had their day.                                                *)
LEMMA CommitKeeps ==
  ASSUME Inv, CommitPublication
  PROVE  Inv'
<1> DEFINE v == job.version
<1>1. /\ UNCHANGED <<today, discarded, admin, cache, reader, failures>>
      /\ job.at = "open" /\ job' = IdleJob
  BY DEF CommitPublication
<1>2. IdleJob \in Job /\ IdleJob.at = "idle"
  BY BoundsAssumption DEF IdleJob, Job
<1>3. /\ \A u \in Versions : row[u].date \in Nat /\ row'[u].date = row[u].date
      /\ v \in Versions /\ row[v].date <= today /\ today \in Nat
      /\ \A u \in job.replaces : u \in Versions /\ row[u].date <= row[v].date
  BY BoundsAssumption, <1>1, CommitRows
     DEF Inv, TypeOK, Row, JobHoldsLatest, OpenReplaces
<1>4. TypeOK'
  BY <1>1, <1>2, CommitRows DEF Inv, TypeOK
<1>5. Published' = {v}
  <2>1. \A u \in Versions \ {v} : row'[u].status # "published"
    BY <1>1, CommitRows DEF Inv, OpenReplaces, Published, With
  <2> QED
    BY <2>1, CommitRows DEF Published, With
<1>6. \A u \in Past' : u \in Versions /\ row[u].date <= row[v].date
  <2> SUFFICES ASSUME NEW u \in Past'
               PROVE  u \in Versions /\ row[u].date <= row[v].date
    OBVIOUS
  <2>1. u \in Versions
    BY DEF Past, Replaced, Published, With
  <2>2. CASE u = v
    BY <1>3, <2>2
  <2>3. CASE u \in job.replaces
    BY <1>3, <2>3
  <2>4. CASE u # v /\ u \notin job.replaces
    <3>1. row'[u] = row[u]
      BY <2>1, <2>4, CommitRows
    <3>2. u \in Past
      BY <2>1, <3>1 DEF Past, Replaced, Published, With
    <3> QED
      BY <1>1, <1>3, <2>1, <3>2 DEF Inv, JobHoldsLatest
  <2> QED
    BY <2>1, <2>2, <2>3, <2>4
<1>7. \A w \in With("scheduled")' : w \in Versions /\ row[v].date < row[w].date
  <2> SUFFICES ASSUME NEW w \in With("scheduled")'
               PROVE  w \in Versions /\ row[v].date < row[w].date
    OBVIOUS
  <2>1. w \in Versions /\ row'[w].status = "scheduled"
    BY DEF With
  <2>2. w # v /\ w \notin job.replaces /\ row'[w] = row[w]
    BY <2>1, CommitRows
  <2> QED
    BY <1>1, <2>1, <2>2 DEF Inv, OpenReplaces, With
<1>8. DaysInOrder'
  BY <1>1, <1>3, <1>5, <1>6, <1>7 DEF DaysInOrder
<1>9. OnePublished'
  BY <1>5 DEF OnePublished
<1>10. JobHoldsLatest' /\ OpenReplaces' /\ PromotionAhead'
  BY <1>1, <1>2 DEF Inv, JobHoldsLatest, OpenReplaces, PromotionAhead
<1>11. Know(cache)' /\ Know(reader)'
  BY <1>1 DEF Inv, Know
<1> QED
  BY <1>4, <1>8, <1>9, <1>10, <1>11 DEF Inv

(* The cache is filled from what is published, or emptied. *)
LEMMA CacheKeeps ==
  ASSUME Inv, LoadPublishedIds \/ StorePublishedIds \/ Expire
  PROVE  Inv'
<1>1. UNCHANGED <<today, discarded, row, job, admin, failures>>
  BY DEF LoadPublishedIds, StorePublishedIds, Expire
<1> DEFINE Read(raced) == [filled |-> TRUE, ids |-> Published, raced |-> raced]
<1>0. LoadPublishedIds => /\ cache' = cache
                          /\ \/ job.at = "open" /\ reader' = Read(TRUE)
                             \/ job.at # "open" /\ reader' = Read(FALSE)
  BY DEF LoadPublishedIds
<1>2. cache' \in Ids /\ reader' \in Ids
  <2>1. NoIds \in Ids
    BY DEF NoIds, Ids
  <2>2. Read(TRUE) \in Ids /\ Read(FALSE) \in Ids
    BY DEF Published, With, Ids
  <2> HIDE DEF Read
  <2> QED
    BY <1>0, <2>1, <2>2 DEF Inv, TypeOK, StorePublishedIds, Expire
<1>3. TypeOK'
  BY <1>1, <1>2 DEF Inv, TypeOK
<1>4. Know(cache)' /\ Know(reader)'
  <2>1. Published' = Published
    BY <1>1 DEF Published, With
  <2> QED
    BY <1>0, <1>1, <2>1 DEF Inv, Know, StorePublishedIds, Expire, NoIds
<1>5. /\ OnePublished' /\ JobHoldsLatest' /\ DaysInOrder' /\ OpenReplaces'
      /\ PromotionAhead'
  BY <1>1 DEF Inv, OnePublished, JobHoldsLatest, DaysInOrder, OpenReplaces, PromotionAhead,
     Past, Replaced, Published, With
<1> QED
  BY <1>3, <1>4, <1>5 DEF Inv

(* Whatever happens keeps the invariant. *)
LEMMA NextKeeps == Inv /\ [Next]_vars => Inv'
<1> SUFFICES ASSUME Inv, [Next]_vars PROVE Inv'
  OBVIOUS
<1>1. CASE NextDay
  BY <1>1, NextDayKeeps
<1>2. CASE \/ CreateDraft \/ DiscardDraft \/ Schedule
           \/ LoadUnschedule \/ Unschedule \/ LoadPromote \/ PromoteDraftToScheduled
           \/ CheckArchive \/ LoadArchive \/ Archive \/ Restore \/ Customize
  BY <1>2, AdminKeeps
<1>3. CASE GetVersionsPublishableNow \/ PublicationFails
  BY <1>3, JobKeeps
<1>4. CASE PublishVersion
  BY <1>4, PublishKeeps
<1>5. CASE CommitPublication
  BY <1>5, CommitKeeps
<1>6. CASE LoadPublishedIds \/ StorePublishedIds \/ Expire
  BY <1>6, CacheKeeps
<1>7. CASE UNCHANGED vars
  BY <1>7 DEF vars, Inv, TypeOK, OnePublished, JobHoldsLatest, DaysInOrder, OpenReplaces,
     PromotionAhead, Know, Past, Replaced, Published, With
<1> QED
  BY <1>1, <1>2, <1>3, <1>4, <1>5, <1>6, <1>7 DEF Next, JobStep

(* The invariant holds of every reachable state. *)
LEMMA AlwaysInv == Spec => []Inv
  BY InitInv, NextKeeps, PTL DEF Spec

----------------------------------------------------------------------------
(* The theorems *)

(* Every row, request, job and cache stays what the code can hold. *)
THEOREM TypeCorrect == Spec => []TypeOK
<1>1. Inv => TypeOK
  BY DEF Inv
<1> QED
  BY <1>1, AlwaysInv, PTL

(* However the administrators' requests and the nightly job interleave, a   *)
(* template never has two published versions.                               *)
THEOREM OneVersionPublished == Spec => []OnePublished
<1>1. Inv => OnePublished
  BY DEF Inv
<1> QED
  BY <1>1, AlwaysInv, PTL

(* The cache that decides whether an application can be submitted knows the *)
(* published version, unless its ids were read during a publication.        *)
THEOREM CacheAlwaysKnows == Spec => []CacheKnowsPublished
<1>1. Inv => CacheKnowsPublished
  BY DEF Inv, Know, CacheKnowsPublished
<1> QED
  BY <1>1, AlwaysInv, PTL

(* What is still scheduled after a publication is for a later day. *)
THEOREM DaysPublishedInOrder == Spec => NothingOlderLeft
<1> DEFINE A == job.at = "open" /\ job'.at = "idle"
                  => \A v \in Versions :
                       row'[v].status = "scheduled" => row'[v].date > row'[job.version].date
<1>1. Inv /\ [Next]_vars => [A]_vars
  <2> SUFFICES ASSUME Inv, Next, job.at = "open", job'.at = "idle",
                      NEW v \in Versions, row'[v].status = "scheduled"
               PROVE  row'[v].date > row'[job.version].date
    OBVIOUS
  <2>1. CommitPublication
    BY DEF Next, JobStep, NextDay, CreateDraft, DiscardDraft, Schedule, LoadUnschedule,
       Unschedule, LoadPromote, PromoteDraftToScheduled, CheckArchive, LoadArchive, Archive,
       Restore, Customize, GetVersionsPublishableNow, PublicationFails, PublishVersion,
       LoadPublishedIds, StorePublishedIds, Expire
  <2>2. job.version \in Published' /\ v \in With("scheduled")'
    BY <2>1, CommitRows DEF Published, With
  <2>3. DaysInOrder' /\ row' \in [Versions -> Row] /\ job.version \in Versions
    BY <2>1, CommitKeeps, CommitRows DEF Inv
  <2>4. row'[v].date \in Nat /\ row'[job.version].date \in Nat
    BY <2>3, BoundsAssumption DEF Row
  <2>5. row'[job.version].date < row'[v].date
    BY <2>2, <2>3 DEF DaysInOrder, Past
  <2> QED
    BY <2>4, <2>5
<1>2. Spec => [][A]_vars
  BY <1>1, AlwaysInv, PTL DEF Spec
<1> QED
  BY <1>2 DEF NothingOlderLeft

(* A publication carries a jurisdiction's changes over from the version it  *)
(* replaces, unless another version has the day of that one or is skipped:  *)
(* the previous version is then the one that was published.                 *)
THEOREM CustomizationsAlwaysCarried == Spec => CustomizationsCarried
<1> DEFINE A == job'.at = "open" /\ job.at = "picked" /\ ~Skipped(job.version)
                  => \A w \in Published : row[w].custom /\ ~SharesDay(w) => job'.custom
<1>1. Inv /\ [Next]_vars => [A]_vars
  <2> SUFFICES ASSUME Inv, Next, job'.at = "open", job.at = "picked", ~Skipped(job.version),
                      NEW w \in Published, row[w].custom, ~SharesDay(w)
               PROVE  job'.custom
    OBVIOUS
  <2> DEFINE v        == job.version
             replaces == DeprecateVersionsBefore(v)
             rows     == Deprecate(row, replaces, "new_publish")
             previous == PreviousPublishedVersion(v, rows)
  <2>1. PublishVersion
    <3>1. \/ GetVersionsPublishableNow \/ PublicationFails
          \/ PublishVersion \/ CommitPublication
      BY DEF Next, JobStep, NextDay, CreateDraft, DiscardDraft, Schedule, LoadUnschedule,
         Unschedule, LoadPromote, PromoteDraftToScheduled, CheckArchive, LoadArchive,
         Archive, Restore, Customize, LoadPublishedIds, StorePublishedIds, Expire
    <3> QED
      BY <3>1 DEF GetVersionsPublishableNow, PublicationFails, CommitPublication, IdleJob
  <2>2. /\ v \in Versions /\ w \in Versions /\ today \in Nat
        /\ row[v].date <= today
        /\ row[w].status = "published"
        /\ row[w].date < row[v].date
        /\ \A u \in Versions : row[u] \in Row /\ row[u].date \in Nat
    BY BoundsAssumption
       DEF Inv, TypeOK, Row, JobHoldsLatest, Past, Published, With
  <2>3. w # v
    BY <2>2
  <2>4. replaces = {w}
    <3>1. w \in replaces
      BY <2>2, <2>3 DEF DeprecateVersionsBefore
    <3>2. ASSUME NEW u \in replaces PROVE u = w
      <4>1. CASE u \in Published
        BY <4>1 DEF Inv, OnePublished
      <4>2. CASE u \in With("scheduled")
        BY <2>2, <3>2, <4>2 DEF DeprecateVersionsBefore, Skipped, DueBy, With
      <4> QED
        BY <3>2, <4>1, <4>2 DEF DeprecateVersionsBefore
    <3> QED
      BY <3>1, <3>2
  <2>5. /\ rows \in [Versions -> Row]
        /\ \A u \in Versions : rows[u].date = row[u].date
        /\ rows[w].status = "deprecated" /\ rows[w].reason = "new_publish"
        /\ \A u \in Versions \ {w} : rows[u] = row[u]
    <3> HIDE DEF replaces
    <3>1. \A u \in Versions :
            rows[u] = IF u = w THEN [row[u] EXCEPT !.status = "deprecated",
                                                   !.reason = "new_publish"]
                      ELSE row[u]
      BY <2>4 DEF Deprecate
    <3>2. ASSUME NEW u \in Versions
          PROVE  /\ rows[u] \in Row /\ rows[u].date = row[u].date
                 /\ u = w => rows[u].status = "deprecated" /\ rows[u].reason = "new_publish"
      <4>1. row[u] \in Row
        BY <2>2
      <4> QED
        BY <3>1, <4>1 DEF Row
    <3>3. rows \in [Versions -> Row]
      BY <3>2 DEF Deprecate
    <3> QED
      BY <2>2, <3>1, <3>2, <3>3
  <2> HIDE DEF replaces, rows
  <2>6. w \in Candidates(v, rows)
    BY <2>2, <2>3, <2>5 DEF Candidates
  <2>7. previous \in Candidates(v, rows) /\ rows[w].date <= rows[previous].date
    BY <2>2, <2>5, <2>6, PreviousIsLatest
  <2>8. ASSUME NEW u \in Candidates(v, rows), u # w PROVE rows[u].date < rows[w].date
    <3>1. u \in Versions /\ row[u].status = "deprecated" /\ row[u].reason = "new_publish"
      BY <2>5, <2>8 DEF Candidates
    <3>2. row[u].date <= row[w].date
      BY <3>1 DEF Inv, DaysInOrder, Past, Replaced, With
    <3>3. row[u].date # row[w].date
      BY <3>1 DEF SharesDay, With
    <3> QED
      BY <2>2, <2>5, <3>1, <3>2, <3>3
  <2>9. previous = w
    <3> HIDE DEF previous
    <3>1. previous \in Versions /\ rows[previous].date \in Nat /\ rows[w].date \in Nat
      BY <2>2, <2>5, <2>7 DEF Candidates
    <3> QED
      BY <2>7, <2>8, <3>1
  <2>10. job'.custom = (previous # 0 /\ row[previous].custom)
    BY <2>1 DEF PublishVersion, Inv, TypeOK, Job, rows, replaces
  <2> HIDE DEF previous
  <2>11. previous # 0 /\ row[previous].custom
    BY <2>2, <2>9
  <2> QED
    BY <2>10, <2>11, Zenon
<1>2. Spec => [][A]_vars
  BY <1>1, AlwaysInv, PTL DEF Spec
<1> QED
  BY <1>2 DEF CustomizationsCarried
=============================================================================
