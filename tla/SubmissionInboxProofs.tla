----------------------- MODULE SubmissionInboxProofs -----------------------
(***************************************************************************)
(* The inbox board for any number of applications and requests: as long as *)
(* requests do not overlap and nobody interferes, the cards and all the    *)
(* numbers agree with the server.                                          *)
(***************************************************************************)
EXTENDS SubmissionInbox, FiniteSetTheorems, TLAPS

----------------------------------------------------------------------------
(* The inductive invariant *)

Answered == [rows : Rows, index : Rows]

Call == [kind : Searches \cup Changes \cup {"none"}, only : BOOLEAN,
         app : SUBSET Applications, target : Submitted, saw : Row,
         at : {"idle", "sent", "done", "refused"},
         answer : Answered \cup {NoAnswer}, alone : BOOLEAN]

(* A change concerns one application; what is done was answered.              *)
CallTyped(call) ==
  /\ call.at = "done" => call.answer \in Answered
  /\ call.at # "idle" => call.kind # "none"
  /\ call.kind \in Changes => \E a \in Applications : call.app = {a}

Typed ==
  /\ db \in Rows /\ index \in Rows /\ model \in Rows
  /\ table \subseteq Applications
  /\ stateCounts \in [Submitted -> Nat] /\ unreadColumnCounts \in [Submitted -> Nat]
  /\ unreadCount \in Nat
  /\ isSearching \in BOOLEAN /\ overlap \in BOOLEAN
  /\ calls \in [Slots -> Call] /\ \A i \in Slots : CallTyped(calls[i])
  /\ requests \in 0..MaxRequests /\ others \in 0..MaxOthers

(* The cards and the numbers are those of the given rows. *)
Exact(rows) ==
  /\ \A a \in table : model[a] = rows[a]
  /\ stateCounts = StatusCounts(rows)
  /\ unreadColumnCounts = UnreadStatusCounts(rows)
  /\ unreadCount = Total(UnreadStatusCounts(rows))

(* A request that is alone is the only one, and what a search of that kind    *)
(* found is what the database holds.                                          *)
AloneKept ==
  \A i \in InFlight : calls[i].alone =>
    /\ InFlight = {i}
    /\ calls[i].at = "done" /\ calls[i].kind \in Searches =>
         calls[i].answer = [rows |-> db, index |-> db]

(* What a change makes of the row that the client saw. *)
Changed(call) ==
  IF call.kind = "transition" THEN [call.saw EXCEPT !.status = call.target]
  ELSE [call.saw EXCEPT !.unread = call.kind = "unview"]

(* A change that was made on a card as the client saw it, and is not counted  *)
(* yet: the numbers are those of before.                                      *)
Uncounted(call) ==
  LET a == App(call) IN
  /\ a \in table
  /\ Exact([db EXCEPT ![a] = call.saw])
  /\ db[a] = Changed(call) /\ call.answer.rows[a] = db[a]

(* A change under way concerns a card, as the server has it.                  *)
Asked(call) ==
  call.kind \in Changes =>
    LET a == App(call) IN
    /\ a \in table /\ call.saw = db[a]
    /\ call.kind = "transition" => call.target \in MANUAL_TRANSITIONS[call.saw.status]

(* The only request under way, while the numbers are to be relied on. *)
CallCounted(call) ==
  IF call.at = "done" /\ call.kind \in Changes
  THEN /\ Uncounted(call)
       /\ call.kind = "transition" => call.target \in MANUAL_TRANSITIONS[call.saw.status]
  ELSE Exact(db) /\ (call.at = "sent" => Asked(call))

Counted ==
  ~overlap =>
    \/ InFlight = {} /\ Exact(db)
    \/ \E i \in Slots : InFlight = {i} /\ CallCounted(calls[i])

Inv == Typed /\ AloneKept /\ Counted

----------------------------------------------------------------------------
(* Counting *)

(* Two sets that differ in one element are counted alike but for it. *)
LEMMA CountBut ==
  ASSUME NEW S \in SUBSET Applications, NEW T \in SUBSET Applications, NEW a,
         S \ {a} = T \ {a}
  PROVE  \E k \in Nat : /\ Cardinality(S) = k + (IF a \in S THEN 1 ELSE 0)
                        /\ Cardinality(T) = k + (IF a \in T THEN 1 ELSE 0)
<1>1. IsFiniteSet(S) /\ IsFiniteSet(T)
  BY InboxAssumption, FS_Subset
<1>2. IsFiniteSet(S \ {a}) /\ Cardinality(S \ {a}) \in Nat
  BY <1>1, FS_RemoveElement, FS_CardinalityType
<1>3. ASSUME NEW U \in {S, T}
      PROVE  Cardinality(U) = Cardinality(S \ {a}) + (IF a \in U THEN 1 ELSE 0)
  <2>1. U \ {a} = S \ {a} /\ a \notin U \ {a}
    OBVIOUS
  <2>2. CASE a \in U
    <3>1. U = (U \ {a}) \cup {a}
      BY <2>2
    <3>2. IsFiniteSet(U \ {a})
      BY <1>2, <2>1
    <3>3. Cardinality((U \ {a}) \cup {a}) = Cardinality(U \ {a}) + 1
      BY <2>1, <3>2, FS_AddElement
    <3> QED
      BY <2>1, <2>2, <3>1, <3>3
  <2>3. CASE a \notin U
    <3>1. U = S \ {a}
      BY <2>1, <2>3
    <3> QED
      BY <1>2, <2>3, <3>1
  <2> QED
    BY <2>2, <2>3
<1> QED
  BY <1>2, <1>3

(* The numbers of all columns are natural numbers. *)
LEMMA CountsGiven ==
  ASSUME NEW d \in Rows
  PROVE  /\ StatusCounts(d) \in [Submitted -> Nat]
         /\ UnreadStatusCounts(d) \in [Submitted -> Nat]
<1>1. \A S \in SUBSET Applications : Cardinality(S) \in Nat
  BY InboxAssumption, FS_Subset, FS_CardinalityType
<1>2. \A s \in Submitted : Cardinality({a \in Applications : d[a].status = s}) \in Nat
  BY <1>1
<1>3. \A s \in Submitted : Cardinality({a \in Applications : d[a].status = s /\ d[a].unread}) \in Nat
  BY <1>1
<1> QED
  BY <1>2, <1>3 DEF StatusCounts, UnreadStatusCounts

(* A row that changes counts in one column less and in another one more. *)
LEMMA CountsAfter ==
  ASSUME NEW d \in Rows, NEW a \in Applications, NEW row \in Row, NEW s \in Submitted,
         NEW e, e[a] = row, \A b \in Applications \ {a} : e[b] = d[b]
  PROVE  /\ \E k \in Nat :
              /\ StatusCounts(d)[s] = k + (IF d[a].status = s THEN 1 ELSE 0)
              /\ StatusCounts(e)[s] = k + (IF row.status = s THEN 1 ELSE 0)
         /\ \E k \in Nat :
              /\ UnreadStatusCounts(d)[s] = k + (IF d[a].status = s /\ d[a].unread THEN 1 ELSE 0)
              /\ UnreadStatusCounts(e)[s] = k + (IF row.status = s /\ row.unread THEN 1 ELSE 0)
<1> DEFINE S(f) == {b \in Applications : f[b].status = s}
           U(f) == {b \in Applications : f[b].status = s /\ f[b].unread}
<1>2. S(d) \ {a} = S(e) \ {a} /\ U(d) \ {a} = U(e) \ {a}
  OBVIOUS
<1>3. /\ a \in S(d) <=> d[a].status = s
      /\ a \in S(e) <=> row.status = s
      /\ a \in U(d) <=> (d[a].status = s /\ d[a].unread)
      /\ a \in U(e) <=> (row.status = s /\ row.unread)
  OBVIOUS
<1>4. /\ S(d) \in SUBSET Applications /\ S(e) \in SUBSET Applications
      /\ U(d) \in SUBSET Applications /\ U(e) \in SUBSET Applications
  OBVIOUS
<1>5. \A f : StatusCounts(f)[s] = Cardinality(S(f)) /\ UnreadStatusCounts(f)[s] = Cardinality(U(f))
  BY DEF StatusCounts, UnreadStatusCounts
<1> HIDE DEF S, U
<1>6. \E k \in Nat : /\ Cardinality(S(d)) = k + (IF a \in S(d) THEN 1 ELSE 0)
                     /\ Cardinality(S(e)) = k + (IF a \in S(e) THEN 1 ELSE 0)
  BY <1>2, <1>4, CountBut
<1>7. \E k \in Nat : /\ Cardinality(U(d)) = k + (IF a \in U(d) THEN 1 ELSE 0)
                     /\ Cardinality(U(e)) = k + (IF a \in U(e) THEN 1 ELSE 0)
  BY <1>2, <1>4, CountBut
<1>8. \E k \in Nat :
        /\ StatusCounts(d)[s] = k + (IF d[a].status = s THEN 1 ELSE 0)
        /\ StatusCounts(e)[s] = k + (IF row.status = s THEN 1 ELSE 0)
  BY <1>3, <1>5, <1>6
<1>9. \E k \in Nat :
        /\ UnreadStatusCounts(d)[s] = k + (IF d[a].status = s /\ d[a].unread THEN 1 ELSE 0)
        /\ UnreadStatusCounts(e)[s] = k + (IF row.status = s /\ row.unread THEN 1 ELSE 0)
  BY <1>3, <1>5, <1>7
<1> QED
  BY <1>8, <1>9

(* The total follows a column. *)
LEMMA TotalAfter ==
  ASSUME NEW f \in [Submitted -> Nat]
  PROVE  /\ Total(f) \in Nat
         /\ \A s \in Submitted, n \in Nat : Total([f EXCEPT ![s] = n]) = Total(f) - f[s] + n
         /\ \A s \in Submitted : Total(f) >= f[s]
<1>1. \A s \in Submitted : f[s] \in Nat
  OBVIOUS
<1>2. Total(f) \in Nat
  BY <1>1 DEF Total, Submitted
<1>3. ASSUME NEW s \in Submitted, NEW n \in Nat
      PROVE  Total([f EXCEPT ![s] = n]) = Total(f) - f[s] + n /\ Total(f) >= f[s]
  <2> DEFINE g == [f EXCEPT ![s] = n]
  <2>1. g[s] = n /\ \A t \in Submitted \ {s} : g[t] = f[t]
    OBVIOUS
  <2> HIDE DEF g
  <2>2. Total(g) = Total(f) - f[s] + n /\ Total(f) >= f[s]
    BY <1>1, <2>1 DEF Total, Submitted
  <2> QED
    BY <2>2 DEF g
<1> QED
  BY <1>2, <1>3

(* A status that changes moves one application to another column. *)
LEMMA Moved ==
  ASSUME NEW d \in Rows, NEW a \in Applications, NEW row \in Row,
         row.status # d[a].status, row.unread = d[a].unread,
         NEW e \in Rows, e[a] = row, \A b \in Applications \ {a} : e[b] = d[b]
  PROVE  LET old == d[a].status
             new == row.status
         IN  /\ StatusCounts(e) = [StatusCounts(d) EXCEPT ![old] = MinusOne(@), ![new] = @ + 1]
             /\ UnreadStatusCounts(e) =
                  IF ~row.unread THEN UnreadStatusCounts(d)
                  ELSE [UnreadStatusCounts(d) EXCEPT ![old] = MinusOne(@), ![new] = @ + 1]
             /\ Total(UnreadStatusCounts(e)) = Total(UnreadStatusCounts(d))
<1> DEFINE old == d[a].status
           new == row.status
           c == StatusCounts(d)
           u == UnreadStatusCounts(d)
           c2 == StatusCounts(e)
           u2 == UnreadStatusCounts(e)
<1>1. d[a] \in Row /\ old \in Submitted /\ new \in Submitted /\ row.unread \in BOOLEAN
  BY DEF Rows, Row
<1>2. /\ c \in [Submitted -> Nat] /\ u \in [Submitted -> Nat]
      /\ c2 \in [Submitted -> Nat] /\ u2 \in [Submitted -> Nat]
  BY <1>1, CountsGiven
<1>3. \A s \in Submitted :
        /\ \E k \in Nat : /\ c[s] = k + (IF old = s THEN 1 ELSE 0)
                          /\ c2[s] = k + (IF new = s THEN 1 ELSE 0)
        /\ \E k \in Nat : /\ u[s] = k + (IF old = s /\ d[a].unread THEN 1 ELSE 0)
                          /\ u2[s] = k + (IF new = s /\ row.unread THEN 1 ELSE 0)
  <2> TAKE s \in Submitted
  <2>1. \E k \in Nat :
          /\ StatusCounts(d)[s] = k + (IF d[a].status = s THEN 1 ELSE 0)
          /\ StatusCounts(e)[s] = k + (IF row.status = s THEN 1 ELSE 0)
    BY CountsAfter
  <2>2. \E k \in Nat :
          /\ UnreadStatusCounts(d)[s] = k + (IF d[a].status = s /\ d[a].unread THEN 1 ELSE 0)
          /\ UnreadStatusCounts(e)[s] = k + (IF row.status = s /\ row.unread THEN 1 ELSE 0)
    BY CountsAfter
  <2> QED
    BY <2>1, <2>2
<1> HIDE DEF old, new, c, u, c2, u2
<1>4. old # new
  BY DEF old, new
<1>5. \A s \in Submitted :
        c2[s] = IF s = new THEN c[s] + 1 ELSE IF s = old THEN MinusOne(c[s]) ELSE c[s]
  BY <1>2, <1>3, <1>4 DEF MinusOne
<1>6. c2 = [c EXCEPT ![old] = MinusOne(@), ![new] = @ + 1]
  BY <1>1, <1>2, <1>4, <1>5
<1>7. CASE ~row.unread
  <2>1. \A s \in Submitted : u2[s] = u[s]
    BY <1>2, <1>3, <1>7
  <2>2. u2 = u
    BY <1>2, <2>1
  <2> QED
    BY <1>6, <1>7, <2>2 DEF old, new, c, u, c2, u2
<1>8. CASE row.unread
  <2>1. \A s \in Submitted :
          u2[s] = IF s = new THEN u[s] + 1 ELSE IF s = old THEN MinusOne(u[s]) ELSE u[s]
    BY <1>2, <1>3, <1>4, <1>8 DEF MinusOne
  <2>2. u2 = [u EXCEPT ![old] = MinusOne(@), ![new] = @ + 1]
    BY <1>1, <1>2, <1>4, <2>1
  <2>3. /\ u[old] \in Nat /\ u[old] > 0 /\ u[new] \in Nat
        /\ u[old] - 1 \in Nat /\ u[new] + 1 \in Nat
    BY <1>1, <1>2, <1>3, <1>8
  <2> DEFINE v == [u EXCEPT ![old] = u[old] - 1]
             w == [v EXCEPT ![new] = u[new] + 1]
  <2>4. v \in [Submitted -> Nat] /\ v[new] = u[new] /\ v[old] = u[old] - 1
        /\ \A s \in Submitted \ {old} : v[s] = u[s]
    BY <1>1, <1>2, <1>4, <2>3
  <2>5. Total(v) = Total(u) - u[old] + (u[old] - 1) /\ Total(u) \in Nat
    BY <1>1, <1>2, <2>3, TotalAfter
  <2> HIDE DEF v
  <2>6. w \in [Submitted -> Nat] /\ w[new] = u[new] + 1
        /\ \A s \in Submitted \ {new} : w[s] = v[s]
    BY <1>1, <2>3, <2>4
  <2>7. Total(w) = Total(v) - v[new] + (u[new] + 1)
    BY <1>1, <2>3, <2>4, TotalAfter
  <2> HIDE DEF w
  <2>8. Total(u2) = Total(u)
    <3>1. \A s \in Submitted : u2[s] = w[s]
      BY <1>4, <2>1, <2>3, <2>4, <2>6 DEF MinusOne
    <3>2. u2 = w
      BY <1>2, <2>6, <3>1
    <3> QED
      BY <2>3, <2>4, <2>5, <2>7, <3>2
  <2> QED
    BY <1>6, <1>8, <2>2, <2>8 DEF old, new, c, u, c2, u2
<1> QED
  BY <1>1, <1>7, <1>8

(* A row that is read or unread adds one to its column or takes one away. *)
LEMMA Toggled ==
  ASSUME NEW d \in Rows, NEW a \in Applications, NEW row \in Row,
         row.status = d[a].status, row.unread # d[a].unread,
         NEW e \in Rows, e[a] = row, \A b \in Applications \ {a} : e[b] = d[b]
  PROVE  LET s == d[a].status
         IN  /\ StatusCounts(e) = StatusCounts(d)
             /\ UnreadStatusCounts(e) =
                  [UnreadStatusCounts(d) EXCEPT ![s] = IF row.unread THEN @ + 1 ELSE MinusOne(@)]
             /\ Total(UnreadStatusCounts(e)) =
                  IF row.unread THEN Total(UnreadStatusCounts(d)) + 1
                  ELSE MinusOne(Total(UnreadStatusCounts(d)))
<1> DEFINE s == d[a].status
           c == StatusCounts(d)
           u == UnreadStatusCounts(d)
           c2 == StatusCounts(e)
           u2 == UnreadStatusCounts(e)
<1>1. d[a] \in Row /\ s \in Submitted /\ row.unread \in BOOLEAN
      /\ d[a].unread \in BOOLEAN
  BY DEF Rows, Row
<1>2. /\ c \in [Submitted -> Nat] /\ u \in [Submitted -> Nat]
      /\ c2 \in [Submitted -> Nat] /\ u2 \in [Submitted -> Nat]
  BY <1>1, CountsGiven
<1>3. \A t \in Submitted :
        /\ \E k \in Nat : /\ c[t] = k + (IF s = t THEN 1 ELSE 0)
                          /\ c2[t] = k + (IF s = t THEN 1 ELSE 0)
        /\ \E k \in Nat : /\ u[t] = k + (IF s = t /\ d[a].unread THEN 1 ELSE 0)
                          /\ u2[t] = k + (IF s = t /\ row.unread THEN 1 ELSE 0)
  <2> TAKE t \in Submitted
  <2>1. \E k \in Nat :
          /\ StatusCounts(d)[t] = k + (IF d[a].status = t THEN 1 ELSE 0)
          /\ StatusCounts(e)[t] = k + (IF row.status = t THEN 1 ELSE 0)
    BY CountsAfter
  <2>2. \E k \in Nat :
          /\ UnreadStatusCounts(d)[t] = k + (IF d[a].status = t /\ d[a].unread THEN 1 ELSE 0)
          /\ UnreadStatusCounts(e)[t] = k + (IF row.status = t /\ row.unread THEN 1 ELSE 0)
    BY CountsAfter
  <2> QED
    BY <2>1, <2>2
<1>4. row.unread <=> ~d[a].unread
  BY <1>1
<1> HIDE DEF s, c, u, c2, u2
<1>5. c2 = c
  BY <1>2, <1>3
<1>6. \A t \in Submitted :
        u2[t] = IF t # s THEN u[t] ELSE IF row.unread THEN u[t] + 1 ELSE MinusOne(u[t])
  BY <1>2, <1>3, <1>4 DEF MinusOne
<1>7. u2 = [u EXCEPT ![s] = IF row.unread THEN @ + 1 ELSE MinusOne(@)]
  BY <1>1, <1>2, <1>6
<1>8. u[s] \in Nat /\ u2[s] \in Nat /\ u2[s] = IF row.unread THEN u[s] + 1 ELSE u[s] - 1
  <2>1. \E k \in Nat : /\ u[s] = k + (IF d[a].unread THEN 1 ELSE 0)
                       /\ u2[s] = k + (IF row.unread THEN 1 ELSE 0)
    BY <1>1, <1>3
  <2> QED
    BY <1>4, <2>1
<1>9. /\ Total(u) \in Nat /\ Total(u) >= u[s]
      /\ Total(u2) = Total(u) - u[s] + u2[s]
  <2>1. u2 = [u EXCEPT ![s] = u2[s]]
    BY <1>1, <1>2, <1>6
  <2>2. Total([u EXCEPT ![s] = u2[s]]) = Total(u) - u[s] + u2[s]
    BY <1>1, <1>2, <1>8, TotalAfter
  <2> QED
    BY <1>1, <1>2, <2>1, <2>2, TotalAfter
<1>10. Total(u2) = IF row.unread THEN Total(u) + 1 ELSE MinusOne(Total(u))
  <2>1. CASE row.unread
    BY <1>8, <1>9, <2>1
  <2>2. CASE ~row.unread
    <3>1. u[s] > 0
      BY <1>8, <2>2
    <3>2. Total(u2) = Total(u) - 1
      BY <1>8, <1>9, <2>2
    <3> QED
      BY <1>8, <1>9, <2>2, <3>1, <3>2 DEF MinusOne
  <2> QED
    BY <2>1, <2>2
<1> QED
  BY <1>5, <1>7, <1>10 DEF s, c, u, c2, u2

----------------------------------------------------------------------------
(* Requests *)

(* The moves offered to review staff lead to another status of a submission. *)
LEMMA MovesOn ==
  ASSUME NEW s \in Submitted, NEW t \in MANUAL_TRANSITIONS[s]
  PROVE  t \in Submitted /\ t # s
<1>1. s \in Statuses
  BY DEF Statuses
<1>2. MANUAL_TRANSITIONS[s] =
        CASE s \in {"newly_submitted", "resubmitted", "issued", "withdrawn"} -> {"in_review"}
          [] s = "in_review" -> {"approved", "withdrawn"}
          [] s = "approved"  -> {"issued", "withdrawn"}
          [] OTHER           -> {}
  BY <1>1 DEF MANUAL_TRANSITIONS
<1> QED
  BY <1>2 DEF Submitted

(* The application of a change. *)
LEMMA AppGiven ==
  ASSUME NEW call \in Call, CallTyped(call), call.kind \in Changes
  PROVE  App(call) \in Applications /\ call.app = {App(call)}
<1>1. PICK a \in Applications : call.app = {a}
  BY DEF CallTyped
<1>2. App(call) = a
  BY <1>1 DEF App
<1> QED
  BY <1>1, <1>2

(* The fields of a request. *)
LEMMA CallGiven ==
  ASSUME NEW call \in Call
  PROVE  /\ call.kind \in Searches \cup Changes \cup {"none"} /\ call.only \in BOOLEAN
         /\ call.app \in SUBSET Applications /\ call.target \in Submitted /\ call.saw \in Row
         /\ call.at \in {"idle", "sent", "done", "refused"}
         /\ call.answer \in Answered \cup {NoAnswer} /\ call.alone \in BOOLEAN
BY DEF Call

(* Being no longer alone changes nothing else. *)
LEMMA CrowdedGiven ==
  ASSUME NEW cs \in [Slots -> Call], \A i \in Slots : CallTyped(cs[i])
  PROVE  /\ Crowded(cs) \in [Slots -> Call]
         /\ \A i \in Slots : /\ CallTyped(Crowded(cs)[i])
                             /\ Crowded(cs)[i].at = cs[i].at
                             /\ cs[i].at # "idle" => ~Crowded(cs)[i].alone
<1>1. ASSUME NEW i \in Slots
      PROVE  /\ Crowded(cs)[i] \in Call /\ CallTyped(Crowded(cs)[i])
             /\ Crowded(cs)[i].at = cs[i].at
             /\ cs[i].at # "idle" => ~Crowded(cs)[i].alone
  <2>1. PICK alone \in BOOLEAN :
          /\ Crowded(cs)[i] = [cs[i] EXCEPT !.alone = alone]
          /\ alone <=> cs[i].at = "idle"
    <3>1. Crowded(cs)[i] = [cs[i] EXCEPT !.alone = cs[i].at = "idle"]
      BY DEF Crowded
    <3>2. CASE cs[i].at = "idle"
      BY <3>1, <3>2
    <3>3. CASE cs[i].at # "idle"
      BY <3>1, <3>3
    <3> QED
      BY <3>2, <3>3
  <2>2. cs[i] \in Call /\ CallTyped(cs[i])
    OBVIOUS
  <2>3. /\ [cs[i] EXCEPT !.alone = alone] \in Call
        /\ [cs[i] EXCEPT !.alone = alone].alone = alone
        /\ [cs[i] EXCEPT !.alone = alone].at = cs[i].at
        /\ [cs[i] EXCEPT !.alone = alone].kind = cs[i].kind
        /\ [cs[i] EXCEPT !.alone = alone].app = cs[i].app
        /\ [cs[i] EXCEPT !.alone = alone].answer = cs[i].answer
    BY <2>2 DEF Call
  <2>4. CallTyped([cs[i] EXCEPT !.alone = alone])
    BY <2>2, <2>3 DEF CallTyped
  <2> QED
    BY <2>1, <2>3, <2>4
<1>2. Crowded(cs) = [i \in Slots |-> Crowded(cs)[i]]
  BY DEF Crowded
<1> QED
  BY <1>1, <1>2

(* A request sent on its own keeps the numbers; one sent while another is     *)
(* under way makes them doubtful.                                             *)
LEMMA SendKeeps ==
  ASSUME Inv, NEW call \in Call, CallTyped(call), call.at = "sent", call.alone,
         Send(call), UNCHANGED <<server, model, board, others>>, isSearching' \in BOOLEAN,
         Exact(db) => Asked(call)
  PROVE  Inv'
<1>1. /\ requests < MaxRequests /\ requests' = requests + 1
      /\ overlap' = (overlap \/ InFlight # {})
  BY DEF Send
<1>2. PICK i \in Slots \ InFlight :
        calls' = IF InFlight = {} THEN [calls EXCEPT ![i] = call]
                 ELSE Crowded([calls EXCEPT ![i] = call])
  BY DEF Send
<1> DEFINE cs == [calls EXCEPT ![i] = call]
<1>3. /\ cs \in [Slots -> Call] /\ \A j \in Slots : CallTyped(cs[j])
      /\ cs[i] = call /\ \A j \in Slots \ {i} : cs[j] = calls[j]
  BY DEF Inv, Typed
<1> HIDE DEF cs
<1>4. calls' = cs \/ calls' = Crowded(cs)
  BY <1>2 DEF cs
<1>5. /\ calls' \in [Slots -> Call]
      /\ \A j \in Slots : CallTyped(calls'[j]) /\ calls'[j].at = cs[j].at
  BY <1>3, <1>4, CrowdedGiven
<1>6. InFlight' = InFlight \cup {i}
  BY <1>3, <1>5 DEF InFlight
<1>7. Typed'
  <2>1. requests' \in 0..MaxRequests
    BY <1>1, InboxAssumption DEF Inv, Typed
  <2>2. overlap' \in BOOLEAN
    BY <1>1
  <2> QED
    BY <1>5, <2>1, <2>2 DEF Inv, Typed, CallTyped, server, board
<1>8. AloneKept'
  <2>1. CASE InFlight = {}
    <3>1. calls' = cs /\ InFlight' = {i}
      BY <1>2, <1>6, <2>1 DEF cs
    <3> QED
      BY <1>3, <3>1 DEF AloneKept
  <2>2. CASE InFlight # {}
    <3>1. calls' = Crowded(cs)
      BY <1>2, <2>2 DEF cs
    <3>2. \A j \in InFlight' : j \in Slots /\ cs[j].at # "idle"
      BY <1>3, <1>6 DEF InFlight
    <3>3. \A j \in InFlight' : ~calls'[j].alone
      BY <1>3, <3>1, <3>2, CrowdedGiven
    <3> QED
      BY <3>3 DEF AloneKept
  <2> QED
    BY <2>1, <2>2
<1>9. Counted'
  <2> SUFFICES ASSUME ~overlap'
               PROVE  \E j \in Slots : InFlight' = {j} /\ CallCounted(calls[j])'
    BY DEF Counted
  <2>1. ~overlap /\ InFlight = {} /\ Exact(db)
    BY <1>1 DEF Inv, Counted
  <2>2. InFlight' = {i} /\ calls'[i] = call
    BY <1>2, <1>3, <1>6, <2>1 DEF cs
  <2>3. Exact(db)' /\ Asked(call)
    BY <2>1 DEF Exact, server, board
  <2>4. CallCounted(calls[i])'
    BY <2>2, <2>3 DEF CallCounted, Asked, App, server, board
  <2> QED
    BY <2>2, <2>4
<1> QED
  BY <1>7, <1>8, <1>9 DEF Inv

(* A free slot is a request, too. *)
LEMMA NoCallGiven == NoCall \in Call /\ NoCall.at = "idle" /\ CallTyped(NoCall)
<1>1. NoRow \in Row
  BY DEF NoRow, Row, Submitted
<1>2. NoCall \in Call /\ NoCall.at = "idle" /\ NoCall.kind = "none"
  BY <1>1 DEF NoCall, Call, Submitted
<1> QED
  BY <1>2 DEF CallTyped, Changes

(* A search asks for nothing that is counted. *)
LEMMA SearchSent ==
  ASSUME Inv, (\E only \in BOOLEAN : FetchData(only)) \/ ResetFilters
  PROVE  Inv'
<1>1. PICK call \in Call :
        /\ call.kind \in Searches /\ call.at = "sent" /\ call.alone /\ Send(call)
        /\ UNCHANGED <<server, model, board, others>>
        /\ isSearching' = TRUE \/ isSearching' = isSearching
  <2>1. ASSUME NEW only \in BOOLEAN, FetchData(only)
        PROVE  \E call \in Call :
                 /\ call.kind \in Searches /\ call.at = "sent" /\ call.alone /\ Send(call)
                 /\ UNCHANGED <<server, model, board, others>>
                 /\ isSearching' = TRUE \/ isSearching' = isSearching
    <3> DEFINE call == [NoCall EXCEPT !.kind = "search", !.only = only, !.at = "sent"]
    <3>1. call \in Call /\ call.kind = "search" /\ call.at = "sent" /\ call.alone
      BY NoCallGiven DEF NoCall, Call, Searches
    <3>2. Send(call) /\ isSearching' = TRUE /\ UNCHANGED <<server, model, board, others>>
      BY <2>1 DEF FetchData
    <3> HIDE DEF call
    <3> QED
      BY <3>1, <3>2 DEF Searches
  <2>2. ASSUME ResetFilters
        PROVE  \E call \in Call :
                 /\ call.kind \in Searches /\ call.at = "sent" /\ call.alone /\ Send(call)
                 /\ UNCHANGED <<server, model, board, others>>
                 /\ isSearching' = TRUE \/ isSearching' = isSearching
    <3> DEFINE call == [NoCall EXCEPT !.kind = "reset", !.at = "sent"]
    <3>1. call \in Call /\ call.kind = "reset" /\ call.at = "sent" /\ call.alone
      BY NoCallGiven DEF NoCall, Call, Searches
    <3>2. Send(call) /\ UNCHANGED <<server, model, board, isSearching, others>>
      BY <2>2 DEF ResetFilters
    <3> HIDE DEF call
    <3> QED
      BY <3>1, <3>2 DEF Searches
  <2> QED
    BY <2>1, <2>2
<1>2. CallTyped(call) /\ Asked(call)
  BY <1>1 DEF CallTyped, Asked, Searches, Changes
<1>3. isSearching' \in BOOLEAN
  BY <1>1 DEF Inv, Typed
<1> QED
  BY <1>1, <1>2, <1>3, SendKeeps

(* A change is asked for with the card as the client has it, which is as the  *)
(* server has it while the numbers are to be relied on.                       *)
LEMMA ChangeSent ==
  ASSUME Inv, NEW a \in Applications,
         MarkAsViewed(a) \/ MarkAsUnviewed(a) \/ \E target \in Submitted : TransitionStatus(a, target)
  PROVE  Inv'
<1>1. model[a] \in Row
  BY DEF Inv, Typed, Rows
<1>2. PICK call \in Call :
        /\ call.kind \in Changes /\ call.app = {a} /\ call.saw = model[a]
        /\ call.at = "sent" /\ call.alone /\ Send(call)
        /\ call.kind = "transition" => call.target \in MANUAL_TRANSITIONS[model[a].status]
  <2>1. ASSUME NEW kind \in {"view", "unview"},
               Send([NoCall EXCEPT !.kind = kind, !.app = {a}, !.saw = model[a], !.at = "sent"])
        PROVE  \E call \in Call :
                 /\ call.kind \in Changes /\ call.app = {a} /\ call.saw = model[a]
                 /\ call.at = "sent" /\ call.alone /\ Send(call)
                 /\ call.kind = "transition" => call.target \in MANUAL_TRANSITIONS[model[a].status]
    <3> DEFINE call == [NoCall EXCEPT !.kind = kind, !.app = {a}, !.saw = model[a], !.at = "sent"]
    <3>1. /\ call \in Call /\ call.kind = kind /\ call.app = {a} /\ call.saw = model[a]
          /\ call.at = "sent" /\ call.alone
      BY <1>1, NoCallGiven DEF NoCall, Call, Changes
    <3>2. Send(call)
      BY <2>1
    <3> HIDE DEF call
    <3> QED
      BY <3>1, <3>2 DEF Changes
  <2>2. ASSUME NEW target \in Submitted, TransitionStatus(a, target)
        PROVE  \E call \in Call :
                 /\ call.kind \in Changes /\ call.app = {a} /\ call.saw = model[a]
                 /\ call.at = "sent" /\ call.alone /\ Send(call)
                 /\ call.kind = "transition" => call.target \in MANUAL_TRANSITIONS[model[a].status]
    <3> DEFINE call == [NoCall EXCEPT !.kind = "transition", !.app = {a}, !.target = target,
                                      !.saw = model[a], !.at = "sent"]
    <3>1. /\ call \in Call /\ call.kind = "transition" /\ call.app = {a} /\ call.saw = model[a]
          /\ call.at = "sent" /\ call.alone /\ call.target = target
      BY <1>1, NoCallGiven DEF NoCall, Call, Changes
    <3>2. Send(call) /\ target \in MANUAL_TRANSITIONS[model[a].status]
      BY <2>2 DEF TransitionStatus
    <3> HIDE DEF call
    <3> QED
      BY <3>1, <3>2 DEF Changes
  <2> QED
    BY <2>1, <2>2 DEF MarkAsViewed, MarkAsUnviewed
<1>3. a \in table /\ UNCHANGED <<server, model, board, isSearching, others>>
  BY DEF MarkAsViewed, MarkAsUnviewed, TransitionStatus
<1>4. CallTyped(call) /\ App(call) = a
  BY <1>2 DEF CallTyped, App, Changes
<1>5. Exact(db) => Asked(call)
  BY <1>2, <1>3, <1>4 DEF Exact, Asked
<1>6. isSearching' \in BOOLEAN
  BY <1>3 DEF Inv, Typed
<1> QED
  BY <1>2, <1>3, <1>4, <1>5, <1>6, SendKeeps

----------------------------------------------------------------------------
(* The server *)

(* A search that is alone finds the database if the index keeps up. *)
LEMMA SearchServed ==
  ASSUME Inv, NEW i \in Slots, ServeSearch(i)
  PROVE  Inv'
<1> DEFINE found == [rows |-> db, index |-> index]
<1>1. /\ calls[i].at = "sent" /\ calls[i].kind \in Searches
      /\ calls' = [calls EXCEPT ![i].at = "done", ![i].answer = found,
                                ![i].alone = @ /\ index = db]
      /\ UNCHANGED <<server, model, board, isSearching, requests, others, overlap>>
  BY DEF ServeSearch
<1>2. calls[i] \in Call /\ found \in Answered /\ found.rows = db /\ found.index = index
  BY DEF Inv, Typed, Answered
<1> HIDE DEF found
<1>3. PICK alone \in BOOLEAN :
        /\ alone <=> calls[i].alone /\ index = db
        /\ calls' = [calls EXCEPT ![i] =
             [calls[i] EXCEPT !.at = "done", !.answer = found, !.alone = alone]]
  <2>1. calls[i].alone \in BOOLEAN
    BY <1>2, CallGiven
  <2>2. CASE calls[i].alone /\ index = db
    BY <1>1, <1>2, <2>1, <2>2 DEF Inv, Typed, Call
  <2>3. CASE ~(calls[i].alone /\ index = db)
    BY <1>1, <1>2, <2>1, <2>3 DEF Inv, Typed, Call
  <2> QED
    BY <2>2, <2>3
<1> DEFINE q == [calls[i] EXCEPT !.at = "done", !.answer = found, !.alone = alone]
<1>4. /\ q \in Call /\ q.at = "done" /\ q.answer = found /\ q.alone = alone
      /\ q.kind = calls[i].kind /\ q.app = calls[i].app
  BY <1>2 DEF Call
<1> HIDE DEF q
<1>5. /\ calls' \in [Slots -> Call] /\ calls'[i] = q
      /\ \A j \in Slots \ {i} : calls'[j] = calls[j]
  BY <1>3, <1>4 DEF q, Inv, Typed
<1>6. InFlight' = InFlight /\ i \in InFlight /\ InFlight \subseteq Slots
  BY <1>1, <1>4, <1>5 DEF InFlight
<1>7. CallTyped(q)
  BY <1>1, <1>2, <1>4 DEF CallTyped, Searches, Changes
<1>8. Typed'
  BY <1>1, <1>5, <1>7 DEF Inv, Typed, CallTyped, server, board
<1>9. AloneKept'
  <2> SUFFICES ASSUME NEW j \in InFlight, calls'[j].alone
               PROVE  /\ InFlight = {j}
                      /\ calls'[j].at = "done" /\ calls'[j].kind \in Searches =>
                           calls'[j].answer = [rows |-> db, index |-> db]
    BY <1>1, <1>6 DEF AloneKept, server
  <2>1. CASE j = i
    <3>1. calls[i].alone /\ index = db
      BY <1>3, <1>4, <1>5, <2>1
    <3> QED
      BY <1>4, <1>5, <1>6, <2>1, <3>1 DEF Inv, AloneKept, found
  <2>2. CASE j # i
    BY <1>5, <1>6, <2>2 DEF Inv, AloneKept
  <2> QED
    BY <2>1, <2>2
<1>10. Counted'
  <2> SUFFICES ASSUME ~overlap
               PROVE  InFlight' = {i} /\ CallCounted(calls[i])'
    BY <1>1 DEF Counted
  <2>1. InFlight = {i} /\ CallCounted(calls[i])
    BY <1>6 DEF Inv, Counted
  <2>2. Exact(db)
    BY <1>1, <2>1 DEF CallCounted
  <2>3. Exact(db)'
    BY <1>1, <2>2 DEF Exact, server, board
  <2> QED
    BY <1>1, <1>4, <1>5, <1>6, <2>1, <2>3 DEF CallCounted, Searches, Changes
<1> QED
  BY <1>8, <1>9, <1>10 DEF Inv

(* The index is not shown until it is searched. *)
LEMMA Reindexed ==
  ASSUME Inv, Reindex
  PROVE  Inv'
<1>1. index' = db /\ UNCHANGED <<db, model, board, isSearching, calls, requests, others, overlap>>
  BY DEF Reindex
<1>2. Typed'
  BY <1>1 DEF Inv, Typed, CallTyped, board
<1>3. AloneKept'
  BY <1>1 DEF Inv, AloneKept, InFlight
<1>4. \A i \in Slots : CallCounted(calls[i]) => CallCounted(calls[i])'
  BY <1>1 DEF CallCounted, Exact, Uncounted, Changed, Asked, App, board
<1>5. Counted'
  BY <1>1, <1>4 DEF Inv, Counted, InFlight, Exact, board
<1> QED
  BY <1>2, <1>3, <1>5 DEF Inv

(* Whatever others do makes the numbers doubtful. *)
LEMMA OtherInterferes ==
  ASSUME Inv, NEW a \in Applications, OtherUser(a)
  PROVE  Inv'
<1>1. /\ others < MaxOthers /\ others' = others + 1
      /\ \/ db' = [db EXCEPT ![a].unread = ~@]
         \/ \E t \in MANUAL_TRANSITIONS[db[a].status] : db' = [db EXCEPT ![a].status = t]
      /\ calls' = Crowded(calls) /\ overlap' = TRUE
      /\ UNCHANGED <<index, model, board, isSearching, requests>>
  BY DEF OtherUser
<1>2. db[a] \in Row /\ db[a].status \in Submitted /\ db[a].unread \in BOOLEAN
  BY DEF Inv, Typed, Rows, Row
<1>3. db' \in Rows
  <2>1. CASE db' = [db EXCEPT ![a].unread = ~@]
    <3>1. [db[a] EXCEPT !.unread = ~db[a].unread] \in Row
      <4>1. PICK u \in BOOLEAN : u = ~db[a].unread
        BY <1>2
      <4> QED
        BY <1>2, <4>1 DEF Row
    <3> QED
      BY <2>1, <3>1 DEF Inv, Typed, Rows
  <2>2. ASSUME NEW t \in MANUAL_TRANSITIONS[db[a].status], db' = [db EXCEPT ![a].status = t]
        PROVE  db' \in Rows
    <3>1. [db[a] EXCEPT !.status = t] \in Row
      BY <1>2, MovesOn DEF Row
    <3> QED
      BY <2>2, <3>1 DEF Inv, Typed, Rows
  <2> QED
    BY <1>1, <2>1, <2>2
<1>4. others' \in 0..MaxOthers
  BY <1>1, InboxAssumption DEF Inv, Typed
<1>5. /\ calls' \in [Slots -> Call]
      /\ \A i \in Slots : /\ CallTyped(calls'[i]) /\ calls'[i].at = calls[i].at
                          /\ calls[i].at # "idle" => ~calls'[i].alone
  BY <1>1, CrowdedGiven DEF Inv, Typed
<1>6. Typed'
  BY <1>1, <1>3, <1>4, <1>5 DEF Inv, Typed, CallTyped, board
<1>7. AloneKept'
  BY <1>5 DEF AloneKept, InFlight
<1>8. Counted'
  BY <1>1 DEF Counted
<1> QED
  BY <1>6, <1>7, <1>8 DEF Inv

(* A change that the server makes is not counted yet; the numbers are those   *)
(* of the rows before it.                                                     *)
LEMMA ChangeServed ==
  ASSUME Inv, NEW i \in Slots, ServeChange(i)
  PROVE  Inv'
<1> DEFINE call == calls[i]
           a == App(call)
           row == IF call.kind = "transition" THEN [db[a] EXCEPT !.status = call.target]
                  ELSE [db[a] EXCEPT !.unread = call.kind = "unview"]
           reply == [rows |-> db', index |-> index]
<1>1. /\ call.at = "sent" /\ call.kind \in Changes
      /\ IF call.kind = "transition" /\ call.target \notin MANUAL_TRANSITIONS[db[a].status]
         THEN calls' = [calls EXCEPT ![i].at = "refused"] /\ UNCHANGED db
         ELSE /\ db' = [db EXCEPT ![a] = row]
              /\ calls' = [calls EXCEPT ![i].at = "done", ![i].answer = reply]
      /\ UNCHANGED <<index, model, board, isSearching, requests, others, overlap>>
  BY DEF ServeChange
<1>2. call \in Call /\ CallTyped(call)
  BY DEF Inv, Typed
<1>3. a \in Applications /\ call.target \in Submitted /\ call.app = {a}
  BY <1>1, <1>2, AppGiven, CallGiven
<1>4. db[a] \in Row /\ row \in Row
  <2>1. db[a] \in Row
    BY <1>3 DEF Inv, Typed, Rows
  <2>2. CASE call.kind = "transition"
    BY <1>3, <2>1, <2>2 DEF Row
  <2>3. CASE call.kind # "transition"
    <3>1. PICK u \in BOOLEAN : u = (call.kind = "unview")
      <4>1. CASE call.kind = "unview"
        BY <4>1
      <4>2. CASE call.kind # "unview"
        BY <4>2
      <4> QED
        BY <4>1, <4>2
    <3>2. row = [db[a] EXCEPT !.unread = u]
      BY <2>3, <3>1
    <3> HIDE DEF row
    <3> QED
      BY <2>1, <3>2 DEF Row
  <2> QED
    BY <2>1, <2>2, <2>3
<1>5. i \in InFlight /\ InFlight \subseteq Slots
  BY <1>1 DEF InFlight
<1> HIDE DEF row
<1>6. db' \in Rows
  BY <1>1, <1>4 DEF Inv, Typed, Rows
<1>7. reply \in Answered /\ reply.rows = db'
  BY <1>6 DEF Inv, Typed, Answered
<1> HIDE DEF reply
<1>8. PICK q \in Call :
        /\ q.kind = call.kind /\ q.app = call.app /\ q.target = call.target /\ q.saw = call.saw
        /\ q.alone = call.alone
        /\ calls' = [calls EXCEPT ![i] = q]
        /\ \/ q.at = "refused" /\ UNCHANGED db
           \/ q.at = "done" /\ q.answer = reply /\ db' = [db EXCEPT ![a] = row]
  <2>1. CASE call.kind = "transition" /\ call.target \notin MANUAL_TRANSITIONS[db[a].status]
    <3> DEFINE q == [calls[i] EXCEPT !.at = "refused"]
    <3>1. /\ q \in Call /\ q.at = "refused"
          /\ q.kind = call.kind /\ q.app = call.app /\ q.target = call.target
          /\ q.saw = call.saw /\ q.alone = call.alone
      BY <1>2 DEF Call
    <3>2. calls' = [calls EXCEPT ![i] = q] /\ UNCHANGED db
      BY <1>1, <2>1 DEF Inv, Typed
    <3> HIDE DEF q
    <3> QED
      BY <3>1, <3>2
  <2>2. CASE ~(call.kind = "transition" /\ call.target \notin MANUAL_TRANSITIONS[db[a].status])
    <3> DEFINE q == [calls[i] EXCEPT !.at = "done", !.answer = reply]
    <3>1. /\ q \in Call /\ q.at = "done" /\ q.answer = reply
          /\ q.kind = call.kind /\ q.app = call.app /\ q.target = call.target
          /\ q.saw = call.saw /\ q.alone = call.alone
      BY <1>2, <1>7 DEF Call
    <3>2. calls' = [calls EXCEPT ![i] = q] /\ db' = [db EXCEPT ![a] = row]
      BY <1>1, <1>2, <2>2 DEF Inv, Typed, Call
    <3> HIDE DEF q
    <3> QED
      BY <3>1, <3>2
  <2> QED
    BY <2>1, <2>2
<1>9. /\ calls' \in [Slots -> Call] /\ calls'[i] = q
      /\ \A j \in Slots \ {i} : calls'[j] = calls[j]
  BY <1>8 DEF Inv, Typed
<1>10. InFlight' = InFlight
  BY <1>1, <1>8, <1>9 DEF InFlight
<1>11. CallTyped(q) /\ App(q) = a
  <2>1. q.app = call.app /\ call.at = "sent"
    BY <1>1, <1>8
  <2>2. App(q) = a
    BY <2>1 DEF App
  <2>3. q.at = "done" => q.answer \in Answered
    BY <1>7, <1>8
  <2>4. q.kind # "none" /\ \E b \in Applications : q.app = {b}
    BY <1>1, <1>3, <1>8 DEF Changes
  <2> QED
    BY <2>2, <2>3, <2>4 DEF CallTyped
<1>12. Typed'
  BY <1>1, <1>6, <1>9, <1>11 DEF Inv, Typed, CallTyped, board
<1>13. AloneKept'
  <2> SUFFICES ASSUME NEW j \in InFlight, calls'[j].alone
               PROVE  InFlight = {j} /\ calls'[j].kind \notin Searches
    BY <1>10 DEF AloneKept
  <2>1. j \in Slots /\ calls[j].alone
    BY <1>5, <1>8, <1>9
  <2>2. InFlight = {j}
    BY <2>1 DEF Inv, AloneKept
  <2> QED
    BY <1>1, <1>5, <1>8, <1>9, <2>2 DEF Searches, Changes
<1>14. Counted'
  <2> SUFFICES ASSUME ~overlap
               PROVE  InFlight' = {i} /\ CallCounted(calls[i])'
    BY <1>1 DEF Counted
  <2>1. InFlight = {i} /\ CallCounted(call)
    BY <1>5 DEF Inv, Counted
  <2>2. /\ Exact(db) /\ a \in table /\ call.saw = db[a]
        /\ call.kind = "transition" => call.target \in MANUAL_TRANSITIONS[call.saw.status]
    BY <1>1, <2>1 DEF CallCounted, Asked
  <2>3. CASE q.at = "refused" /\ UNCHANGED db
    <3>1. Exact(db)'
      BY <1>1, <2>2, <2>3 DEF Exact, board
    <3> QED
      BY <1>9, <1>10, <2>1, <2>3, <3>1 DEF CallCounted
  <2>4. CASE q.at = "done" /\ q.answer = reply /\ db' = [db EXCEPT ![a] = row]
    <3>1. [db' EXCEPT ![a] = call.saw] = db /\ db'[a] = row
      BY <1>3, <2>2, <2>4 DEF Inv, Typed, Rows
    <3>2. row = Changed(q)
      BY <1>8, <2>2 DEF row, Changed
    <3>3. Exact(db)
      BY <2>2
    <3>4. \A r : r = db => (/\ \A b \in table' : model'[b] = r[b]
                            /\ stateCounts' = StatusCounts(r)
                            /\ unreadColumnCounts' = UnreadStatusCounts(r)
                            /\ unreadCount' = Total(UnreadStatusCounts(r)))
      BY <1>1, <3>3 DEF Exact, board
    <3>5. Uncounted(q)'
      <4>1. a \in table' /\ db'[a] = Changed(q) /\ q.answer.rows[a] = db'[a]
        BY <1>1, <1>7, <2>2, <2>4, <3>1, <3>2 DEF board
      <4>2. [db' EXCEPT ![a] = q.saw] = db
        BY <1>8, <3>1
      <4>3. PICK b \in Applications : b = a /\ b = App(q)
        BY <1>3, <1>11
      <4>4. [db' EXCEPT ![b] = q.saw] = db
        BY <4>2, <4>3
      <4>5. Exact([db EXCEPT ![b] = q.saw])'
        <5> DEFINE r == [db' EXCEPT ![b] = q.saw]
        <5>1. r = db
          BY <4>4
        <5> HIDE DEF r
        <5>2. /\ \A c \in table' : model'[c] = r[c]
              /\ stateCounts' = StatusCounts(r)
              /\ unreadColumnCounts' = UnreadStatusCounts(r)
              /\ unreadCount' = Total(UnreadStatusCounts(r))
          BY <3>4, <5>1
        <5> QED
          BY <5>2 DEF r, Exact
      <4>6. b \in table' /\ db'[b] = Changed(q) /\ q.answer.rows[b] = db'[b]
        BY <4>1, <4>3
      <4>7. App(q) = b
        BY <4>3
      <4> QED
        BY <4>5, <4>6, <4>7 DEF Uncounted, Changed
    <3> QED
      BY <1>1, <1>8, <1>9, <1>10, <2>1, <2>2, <2>4, <3>5 DEF CallCounted
  <2> QED
    BY <1>8, <2>3, <2>4
<1> QED
  BY <1>12, <1>13, <1>14 DEF Inv

----------------------------------------------------------------------------
(* Answers *)

(* Nothing is counted below zero. *)
LEMMA MinusOneGiven ==
  ASSUME NEW n \in Nat
  PROVE  MinusOne(n) \in Nat
BY DEF MinusOne

(* The results of a search are numbers and cards; what a search found in a    *)
(* database with an index that keeps up is shown exactly.                     *)
LEMMA ResultsShown ==
  ASSUME NEW call \in Call, call.answer \in Answered, model \in Rows, ShowResults(call)
  PROVE  /\ model' \in Rows /\ table' \subseteq Applications
         /\ stateCounts' \in [Submitted -> Nat] /\ unreadColumnCounts' \in [Submitted -> Nat]
         /\ unreadCount' \in Nat /\ overlap' \in BOOLEAN
         /\ overlap' = ~call.alone
         /\ call.answer.rows = db' /\ call.answer.index = db' => Exact(db)'
<1>1. PICK rows \in Rows, index0 \in Rows : rows = call.answer.rows /\ index0 = call.answer.index
  BY DEF Answered
<1> DEFINE found == {a \in Applications : call.only => index0[a].unread}
<1>2. /\ table' = found
      /\ model' = [a \in Applications |-> IF a \in found THEN rows[a] ELSE model[a]]
      /\ stateCounts' = StatusCounts(index0)
      /\ unreadColumnCounts' = UnreadStatusCounts(index0)
      /\ unreadCount' = Total(UnreadStatusCounts(index0))
      /\ overlap' = ~call.alone
  BY <1>1 DEF ShowResults
<1>3. found \subseteq Applications
  OBVIOUS
<1> HIDE DEF found
<1>4. model' \in Rows
  BY <1>2 DEF Rows
<1>5. /\ stateCounts' \in [Submitted -> Nat] /\ unreadColumnCounts' \in [Submitted -> Nat]
      /\ unreadCount' \in Nat
  BY <1>2, CountsGiven, TotalAfter
<1>6. overlap' \in BOOLEAN
  BY <1>2
<1>7. rows = db' /\ index0 = db' => Exact(db)'
  BY <1>2, <1>3 DEF Exact
<1> QED
  BY <1>1, <1>2, <1>3, <1>4, <1>5, <1>6, <1>7

(* Changes leave numbers and cards behind. *)
LEMMA ChangeTyped ==
  ASSUME Typed, NEW call \in Call, CallTyped(call), call.at = "done", call.kind \in Changes,
         ApplyChange(call)
  PROVE  /\ model' \in Rows /\ table' = table /\ overlap' = overlap
         /\ stateCounts' \in [Submitted -> Nat] /\ unreadColumnCounts' \in [Submitted -> Nat]
         /\ unreadCount' \in Nat
<1>1. PICK a \in Applications : a = App(call)
  BY AppGiven
<1>2. PICK row \in Row : row = call.answer.rows[a]
  BY DEF CallTyped, Answered, Rows
<1>3. call.saw \in Row
  BY CallGiven
<1>4. PICK old \in Submitted : old = call.saw.status
  BY <1>3 DEF Row
<1>5. row.status \in Submitted /\ model \in Rows /\ model[a] \in Row
  BY DEF Row, Rows, Typed
<1>6. stateCounts \in [Submitted -> Nat] /\ unreadColumnCounts \in [Submitted -> Nat]
      /\ unreadCount \in Nat
  BY DEF Typed
<1>7. ASSUME NEW f \in [Submitted -> Nat], NEW new \in Submitted
      PROVE  /\ [f EXCEPT ![old] = MinusOne(@), ![new] = @ + 1] \in [Submitted -> Nat]
             /\ [f EXCEPT ![old] = MinusOne(@)] \in [Submitted -> Nat]
             /\ [f EXCEPT ![old] = @ + 1] \in [Submitted -> Nat]
  <2>1. \A n \in Nat : MinusOne(n) \in Nat /\ n + 1 \in Nat
    BY MinusOneGiven
  <2>2. [f EXCEPT ![old] = MinusOne(@)] \in [Submitted -> Nat]
    BY <2>1
  <2>3. [f EXCEPT ![old] = @ + 1] \in [Submitted -> Nat]
    BY <2>1
  <2>4. [[f EXCEPT ![old] = MinusOne(@)] EXCEPT ![new] = @ + 1] \in [Submitted -> Nat]
    BY <2>1, <2>2
  <2> QED
    BY <2>2, <2>3, <2>4
<1>8. CASE call.kind = "transition"
  <2>1. /\ model' = [model EXCEPT ![a].status = row.status]
        /\ AdjustCountsForTransition(old, row.status, call.saw.unread)
        /\ UNCHANGED <<table, overlap>>
    BY <1>1, <1>2, <1>4, <1>8 DEF ApplyChange
  <2>2. [model[a] EXCEPT !.status = row.status] \in Row
    BY <1>5 DEF Row
  <2>3. model' \in Rows
    BY <1>5, <2>1, <2>2 DEF Rows
  <2>4. /\ stateCounts' = [stateCounts EXCEPT ![old] = MinusOne(@), ![row.status] = @ + 1]
        /\ unreadColumnCounts' = unreadColumnCounts
           \/ unreadColumnCounts' =
                [unreadColumnCounts EXCEPT ![old] = MinusOne(@), ![row.status] = @ + 1]
        /\ UNCHANGED unreadCount
    BY <2>1 DEF AdjustCountsForTransition
  <2>5. stateCounts' \in [Submitted -> Nat]
    BY <1>5, <1>6, <1>7, <2>4
  <2>6. unreadColumnCounts' \in [Submitted -> Nat]
    <3> DEFINE g == [unreadColumnCounts EXCEPT ![old] = MinusOne(@), ![row.status] = @ + 1]
    <3>1. g \in [Submitted -> Nat]
      BY <1>5, <1>6, <1>7
    <3>2. unreadColumnCounts' = unreadColumnCounts \/ unreadColumnCounts' = g
      BY <2>4
    <3> HIDE DEF g
    <3> QED
      BY <1>6, <3>1, <3>2
  <2> QED
    BY <1>6, <2>1, <2>3, <2>4, <2>5, <2>6
<1>9. CASE call.kind # "transition"
  <2>1. /\ model' = [model EXCEPT ![a] = row]
        /\ \/ AdjustUnreadCountForColumn(old, call.kind = "unview")
           \/ UNCHANGED <<stateCounts, unreadColumnCounts, unreadCount>>
        /\ UNCHANGED <<table, overlap>>
    BY <1>1, <1>2, <1>4, <1>9 DEF ApplyChange
  <2>2. model' \in Rows
    BY <1>5, <2>1 DEF Rows
  <2>3. CASE AdjustUnreadCountForColumn(old, call.kind = "unview")
    <3>1. /\ unreadColumnCounts' = [unreadColumnCounts EXCEPT ![old] = @ + 1]
             \/ unreadColumnCounts' = [unreadColumnCounts EXCEPT ![old] = MinusOne(@)]
          /\ unreadCount' = unreadCount + 1 \/ unreadCount' = MinusOne(unreadCount)
          /\ UNCHANGED stateCounts
      <4>1. CASE call.kind = "unview"
        BY <2>3, <4>1 DEF AdjustUnreadCountForColumn
      <4>2. CASE call.kind # "unview"
        BY <2>3, <4>2 DEF AdjustUnreadCountForColumn
      <4> QED
        BY <4>1, <4>2
    <3>2. unreadCount' \in Nat
      BY <1>6, <3>1, MinusOneGiven
    <3> QED
      BY <1>6, <1>7, <2>1, <2>2, <3>1, <3>2
  <2>4. CASE UNCHANGED <<stateCounts, unreadColumnCounts, unreadCount>>
    BY <1>6, <2>1, <2>2, <2>4
  <2> QED
    BY <2>1, <2>3, <2>4
<1> QED
  BY <1>8, <1>9

(* The answer of a change that was made on the card as the client saw it is   *)
(* counted once and in the right columns.                                     *)
LEMMA ChangeCounted ==
  ASSUME Typed, NEW call \in Call, CallTyped(call), call.at = "done", call.kind \in Changes,
         ApplyChange(call), CallCounted(call), UNCHANGED db
  PROVE  Exact(db)'
<1>1. PICK a \in Applications : a = App(call)
  BY AppGiven
<1>2. PICK saw \in Row : saw = call.saw
  BY CallGiven
<1>3. PICK row \in Row : row = call.answer.rows[a]
  BY DEF CallTyped, Answered, Rows
<1> DEFINE d == [db EXCEPT ![a] = saw]
<1>4. /\ db \in Rows /\ model \in Rows /\ saw.status \in Submitted /\ saw.unread \in BOOLEAN
      /\ db[a] \in Row /\ call.target \in Submitted
  BY CallGiven DEF Typed, Row, Rows
<1>5. /\ d \in Rows /\ d[a] = saw /\ \A b \in Applications \ {a} : db[b] = d[b]
  BY <1>4 DEF Rows
<1>6. /\ a \in table /\ Exact(d) /\ db[a] = row /\ row = Changed(call)
      /\ call.kind = "transition" => call.target \in MANUAL_TRANSITIONS[saw.status]
  BY <1>1, <1>2, <1>3 DEF CallCounted, Uncounted
<1> HIDE DEF d
<1>7. /\ \A b \in table : model[b] = d[b]
      /\ stateCounts = StatusCounts(d) /\ unreadColumnCounts = UnreadStatusCounts(d)
      /\ unreadCount = Total(UnreadStatusCounts(d))
  BY <1>6 DEF Exact
<1>8. table \subseteq Applications
  BY DEF Typed
<1>9. CASE call.kind = "transition"
  <2>1. PICK target \in MANUAL_TRANSITIONS[saw.status] : target = call.target
    BY <1>6, <1>9
  <2>2. target \in Submitted /\ target # saw.status
    BY <1>4, <2>1, MovesOn
  <2>3. row = [saw EXCEPT !.status = target]
    BY <1>2, <1>6, <1>9, <2>1 DEF Changed
  <2>4. row.status = target /\ row.unread = saw.unread
    BY <2>3 DEF Row
  <2>5. /\ StatusCounts(db) =
             [StatusCounts(d) EXCEPT ![saw.status] = MinusOne(@), ![target] = @ + 1]
        /\ UnreadStatusCounts(db) =
             IF ~saw.unread THEN UnreadStatusCounts(d)
             ELSE [UnreadStatusCounts(d) EXCEPT ![saw.status] = MinusOne(@), ![target] = @ + 1]
        /\ Total(UnreadStatusCounts(db)) = Total(UnreadStatusCounts(d))
    BY <1>4, <1>5, <1>6, <2>2, <2>4, Moved
  <2>6. /\ model' = [model EXCEPT ![a].status = target]
        /\ AdjustCountsForTransition(saw.status, target, saw.unread)
        /\ table' = table
    BY <1>1, <1>2, <1>3, <1>9, <2>4 DEF ApplyChange
  <2>7. \A b \in table' : model'[b] = db[b]
    <3> SUFFICES ASSUME NEW b \in table
                 PROVE  model'[b] = db[b]
      BY <2>6
    <3>1. CASE b = a
      <4>1. model'[a] = [model[a] EXCEPT !.status = target]
        BY <1>4, <2>6 DEF Rows
      <4> QED
        BY <1>5, <1>6, <1>7, <2>3, <3>1, <4>1
    <3>2. CASE b # a
      BY <1>4, <1>5, <1>7, <1>8, <2>6, <3>2 DEF Rows
    <3> QED
      BY <3>1, <3>2
  <2>8. /\ stateCounts' = StatusCounts(db) /\ unreadColumnCounts' = UnreadStatusCounts(db)
        /\ unreadCount' = Total(UnreadStatusCounts(db))
    BY <1>7, <2>5, <2>6 DEF AdjustCountsForTransition
  <2> QED
    BY <2>7, <2>8 DEF Exact
<1>10. CASE call.kind # "transition"
  <2>1. call.kind = "view" \/ call.kind = "unview"
    BY <1>10 DEF Changes
  <2>2. PICK u \in BOOLEAN : u <=> call.kind = "unview"
    BY <2>1
  <2>3. row = [saw EXCEPT !.unread = u]
    <3>1. (call.kind = "unview") = u
      BY <2>1, <2>2
    <3> QED
      BY <1>2, <1>6, <1>10, <3>1 DEF Changed
  <2>4. row.status = saw.status /\ row.unread = u
    BY <2>3 DEF Row
  <2>5. /\ model' = [model EXCEPT ![a] = row] /\ table' = table
        /\ IF saw.unread = (call.kind = "view")
           THEN AdjustUnreadCountForColumn(saw.status, call.kind = "unview")
           ELSE UNCHANGED <<stateCounts, unreadColumnCounts, unreadCount>>
    BY <1>1, <1>2, <1>3, <1>10 DEF ApplyChange
  <2>6. \A b \in table' : model'[b] = db[b]
    <3> SUFFICES ASSUME NEW b \in table
                 PROVE  model'[b] = db[b]
      BY <2>5
    <3>1. CASE b = a
      BY <1>4, <1>6, <2>5, <3>1 DEF Rows
    <3>2. CASE b # a
      BY <1>4, <1>5, <1>7, <1>8, <2>5, <3>2 DEF Rows
    <3> QED
      BY <3>1, <3>2
  <2>7. CASE saw.unread = u
    <3>1. saw.unread # (call.kind = "view")
      BY <2>1, <2>2, <2>7
    <3>2. row = saw
      BY <2>3, <2>7 DEF Row
    <3>3. d = db
      BY <1>4, <1>5, <1>6, <3>2 DEF Rows
    <3> QED
      BY <1>7, <2>5, <2>6, <3>1, <3>3 DEF Exact
  <2>8. CASE saw.unread # u
    <3>1. saw.unread = (call.kind = "view")
      BY <1>4, <2>1, <2>2, <2>8
    <3>2. /\ StatusCounts(db) = StatusCounts(d)
          /\ UnreadStatusCounts(db) =
               [UnreadStatusCounts(d) EXCEPT ![saw.status] = IF u THEN @ + 1 ELSE MinusOne(@)]
          /\ Total(UnreadStatusCounts(db)) =
               IF u THEN Total(UnreadStatusCounts(d)) + 1
               ELSE MinusOne(Total(UnreadStatusCounts(d)))
      BY <1>4, <1>5, <1>6, <2>4, <2>8, Toggled
    <3>3. /\ stateCounts' = stateCounts
          /\ unreadColumnCounts' =
               [unreadColumnCounts EXCEPT ![saw.status] = IF u THEN @ + 1 ELSE MinusOne(@)]
          /\ unreadCount' = IF u THEN unreadCount + 1 ELSE MinusOne(unreadCount)
      <4>1. AdjustUnreadCountForColumn(saw.status, call.kind = "unview")
        BY <2>5, <3>1
      <4> QED
        BY <2>2, <4>1 DEF AdjustUnreadCountForColumn
    <3> QED
      BY <1>7, <2>6, <3>2, <3>3 DEF Exact
  <2> QED
    BY <1>4, <2>7, <2>8
<1> QED
  BY <1>9, <1>10

(* An answer shows what a search found, counts a change, or brings an error.  *)
LEMMA AnswerArrives ==
  ASSUME Inv, NEW i \in Slots, Answer(i)
  PROVE  Inv'
<1>1. PICK call \in Call : call = calls[i] /\ CallTyped(call)
  BY DEF Inv, Typed
<1>2. /\ call.at # "idle" /\ calls' = [calls EXCEPT ![i] = NoCall]
      /\ isSearching' = (isSearching /\ call.kind # "search")
      /\ UNCHANGED <<server, requests, others>>
  BY <1>1 DEF Answer
<1>3. \/ call.at = "done" /\ call.kind \in Searches /\ ShowResults(call)
      \/ call.at = "done" /\ call.kind \in Changes /\ ApplyChange(call)
      \/ /\ overlap' = (overlap \/ (call.kind \in Changes /\ call.at = "done"))
         /\ UNCHANGED <<model, board>>
  <2>1. call.kind \in Searches \cup Changes
    BY <1>1, <1>2 DEF CallTyped, Call
  <2>2. \/ call.at = "done" /\ IF call.kind \in Searches THEN ShowResults(call) ELSE ApplyChange(call)
        \/ /\ overlap' = (overlap \/ (call.kind \in Changes /\ call.at = "done"))
           /\ UNCHANGED <<model, board>>
    BY <1>1 DEF Answer
  <2> QED
    BY <2>1, <2>2
<1>4. /\ calls' \in [Slots -> Call] /\ \A j \in Slots : CallTyped(calls'[j])
      /\ i \in InFlight /\ InFlight' = InFlight \ {i} /\ InFlight \subseteq Slots
      /\ \A j \in InFlight' : calls'[j] = calls[j]
  <2>1. /\ calls' \in [Slots -> Call] /\ calls'[i] = NoCall
        /\ \A j \in Slots \ {i} : calls'[j] = calls[j]
    BY <1>2, NoCallGiven DEF Inv, Typed
  <2>2. \A j \in Slots : CallTyped(calls'[j])
    BY <2>1, NoCallGiven DEF Inv, Typed
  <2>3. i \in InFlight /\ InFlight' = InFlight \ {i} /\ InFlight \subseteq Slots
    BY <1>1, <1>2, <2>1, NoCallGiven DEF InFlight
  <2> QED
    BY <2>1, <2>2, <2>3
<1>5. isSearching' \in BOOLEAN
  BY <1>2
<1>6. /\ model' \in Rows /\ table' \subseteq Applications
      /\ stateCounts' \in [Submitted -> Nat] /\ unreadColumnCounts' \in [Submitted -> Nat]
      /\ unreadCount' \in Nat /\ overlap' \in BOOLEAN
  <2>1. CASE call.at = "done" /\ call.kind \in Searches /\ ShowResults(call)
    BY <1>1, <2>1, ResultsShown DEF Inv, Typed, CallTyped
  <2>2. CASE call.at = "done" /\ call.kind \in Changes /\ ApplyChange(call)
    BY <1>1, <2>2, ChangeTyped DEF Inv, Typed
  <2>3. CASE /\ overlap' = (overlap \/ (call.kind \in Changes /\ call.at = "done"))
             /\ UNCHANGED <<model, board>>
    <3>1. overlap' \in BOOLEAN
      BY <2>3
    <3> QED
      BY <2>3, <3>1 DEF Inv, Typed, board
  <2> QED
    BY <1>3, <2>1, <2>2, <2>3
<1>7. Typed'
  <2>1. UNCHANGED <<db, index, requests, others>>
    BY <1>2 DEF server
  <2> QED
    BY <1>4, <1>5, <1>6, <2>1 DEF Inv, Typed, CallTyped
<1>8. \A j \in InFlight' : ~calls'[j].alone
  <2> SUFFICES ASSUME NEW j \in InFlight', calls[j].alone
               PROVE  FALSE
    BY <1>4
  <2>1. InFlight = {j}
    BY <1>4 DEF Inv, AloneKept
  <2> QED
    BY <1>4, <2>1
<1>9. AloneKept'
  BY <1>8 DEF AloneKept
<1>10. ASSUME ~overlap'
       PROVE  InFlight' = {} /\ Exact(db)'
  <2>1. ASSUME ~overlap
        PROVE  InFlight' = {} /\ CallCounted(call)
    BY <1>1, <1>4, <2>1 DEF Inv, Counted
  <2>2. CASE call.at = "done" /\ call.kind \in Searches /\ ShowResults(call)
    <3>1. overlap' = ~call.alone /\ call.alone \in BOOLEAN
      BY <1>1, <2>2, ResultsShown DEF Inv, Typed, CallTyped, Call
    <3>2. /\ InFlight = {i} /\ call.answer = [rows |-> db, index |-> db]
      BY <1>1, <1>4, <1>10, <2>2, <3>1 DEF Inv, AloneKept
    <3>3. call.answer.rows = db' /\ call.answer.index = db'
      BY <1>2, <3>2 DEF server
    <3> QED
      BY <1>1, <1>4, <2>2, <3>2, <3>3, ResultsShown DEF Inv, Typed, CallTyped
  <2>3. CASE call.at = "done" /\ call.kind \in Changes /\ ApplyChange(call)
    <3>1. ~overlap
      BY <1>1, <1>10, <2>3, ChangeTyped DEF Inv
    <3>2. db' = db
      BY <1>2 DEF server
    <3> QED
      BY <1>1, <2>1, <2>3, <3>1, <3>2, ChangeCounted DEF Inv
  <2>4. CASE /\ overlap' = (overlap \/ (call.kind \in Changes /\ call.at = "done"))
             /\ UNCHANGED <<model, board>>
    <3>1. ~overlap /\ ~(call.kind \in Changes /\ call.at = "done")
      BY <1>10, <2>4
    <3>2. Exact(db)
      BY <2>1, <3>1 DEF CallCounted
    <3>3. Exact(db)'
      BY <1>2, <2>4, <3>2 DEF Exact, server, board
    <3> QED
      BY <2>1, <3>1, <3>3
  <2> QED
    BY <1>3, <2>2, <2>3, <2>4
<1>11. Counted'
  BY <1>10 DEF Counted
<1> QED
  BY <1>7, <1>9, <1>11 DEF Inv

----------------------------------------------------------------------------
(* The invariant *)

(* At first nothing is shown, and nothing is relied on. *)
LEMMA InitKept == Init => Inv
<1> SUFFICES ASSUME Init
             PROVE  Inv
  OBVIOUS
<1>1. db \in Rows /\ index \in Rows /\ model \in Rows
  <2>1. NoRow \in Row
    BY DEF NoRow, Row, Submitted
  <2>2. \A u \in BOOLEAN : [status |-> "newly_submitted", unread |-> u] \in Row
    BY DEF Row, Submitted
  <2>3. db \in Rows
    BY <2>2 DEF Init, Rows
  <2> QED
    BY <2>1, <2>3 DEF Init, Rows
<1>2. calls \in [Slots -> Call] /\ \A i \in Slots : CallTyped(calls[i]) /\ calls[i].at = "idle"
  BY NoCallGiven DEF Init
<1>3. Typed
  <2>1. /\ stateCounts \in [Submitted -> Nat] /\ unreadColumnCounts \in [Submitted -> Nat]
        /\ unreadCount \in Nat
    BY DEF Init
  <2>2. requests \in 0..MaxRequests /\ others \in 0..MaxOthers
    BY InboxAssumption DEF Init
  <2>3. table \subseteq Applications /\ isSearching \in BOOLEAN /\ overlap \in BOOLEAN
    BY DEF Init
  <2> QED
    BY <1>1, <1>2, <2>1, <2>2, <2>3 DEF Typed
<1>4. AloneKept
  BY <1>2 DEF AloneKept, InFlight
<1> QED
  BY <1>3, <1>4 DEF Inv, Counted, Init

(* Without a step nothing changes. *)
LEMMA StutterKeeps == Inv /\ UNCHANGED vars => Inv'
<1> SUFFICES ASSUME Inv, UNCHANGED vars
             PROVE  Inv'
  OBVIOUS
<1>1. /\ UNCHANGED <<db, index, model, table, stateCounts, unreadColumnCounts, unreadCount>>
      /\ UNCHANGED <<isSearching, calls, requests, others, overlap>>
  BY DEF vars, server, board
<1>2. Typed'
  BY <1>1 DEF Inv, Typed, CallTyped
<1>3. AloneKept'
  BY <1>1 DEF Inv, AloneKept, InFlight
<1>4. \A i \in Slots : CallCounted(calls[i]) => CallCounted(calls[i])'
  BY <1>1 DEF CallCounted, Exact, Uncounted, Changed, Asked, App
<1>5. Counted'
  BY <1>1, <1>4 DEF Inv, Counted, InFlight, Exact
<1> QED
  BY <1>2, <1>3, <1>5 DEF Inv

(* Every step keeps the invariant. *)
LEMMA NextKeeps == Inv /\ [Next]_vars => Inv'
<1> SUFFICES ASSUME Inv, [Next]_vars
             PROVE  Inv'
  OBVIOUS
<1>1. CASE (\E only \in BOOLEAN : FetchData(only)) \/ ResetFilters
  BY <1>1, SearchSent
<1>2. CASE Reindex
  BY <1>2, Reindexed
<1>3. ASSUME NEW a \in Applications,
             \/ MarkAsViewed(a) \/ MarkAsUnviewed(a)
             \/ \E target \in Submitted : TransitionStatus(a, target)
      PROVE  Inv'
  BY <1>3, ChangeSent
<1>4. ASSUME NEW a \in Applications, OtherUser(a)
      PROVE  Inv'
  BY <1>4, OtherInterferes
<1>5. ASSUME NEW i \in Slots, ServeSearch(i)
      PROVE  Inv'
  BY <1>5, SearchServed
<1>6. ASSUME NEW i \in Slots, ServeChange(i)
      PROVE  Inv'
  BY <1>6, ChangeServed
<1>7. ASSUME NEW i \in Slots, Answer(i)
      PROVE  Inv'
  BY <1>7, AnswerArrives
<1>8. CASE UNCHANGED vars
  BY <1>8, StutterKeeps
<1> QED
  BY <1>1, <1>2, <1>3, <1>4, <1>5, <1>6, <1>7, <1>8 DEF Next

(* So it always holds. *)
LEMMA AlwaysInv == Spec => []Inv
BY InitKept, NextKeeps, PTL DEF Spec

----------------------------------------------------------------------------
(* The properties *)

(* Counts never go below zero, requests keep to their kinds and states, and   *)
(* the cards shown are applications of the jurisdiction.                      *)
THEOREM TypeCorrect == Spec => []TypeOK
<1>1. Inv => TypeOK
  <2> SUFFICES ASSUME Inv
               PROVE  TypeOK
    OBVIOUS
  <2>1. \A i \in Slots :
          /\ calls[i].kind \in Searches \cup Changes \cup {"none"}
          /\ calls[i].at \in {"idle", "sent", "done", "refused"}
          /\ calls[i].app \subseteq Applications
    BY CallGiven DEF Inv, Typed
  <2>2. DOMAIN calls = Slots
    BY DEF Inv, Typed
  <2> QED
    BY <2>1, <2>2 DEF Inv, Typed, TypeOK
<1> QED
  BY <1>1, AlwaysInv, PTL

(* The cards, the numbers of the columns and the total agree with the server  *)
(* whenever nothing is under way, however many changes were counted without a *)
(* search, as long as requests were made one at a time, none failed after the *)
(* server did its work, nobody else interfered and the index kept up: a       *)
(* change is added to the numbers once and to the right columns.              *)
THEOREM CountsAlwaysExact == Spec => []CountsExact
<1>1. Inv => CountsExact
  BY DEF Inv, Counted, Exact, CountsExact
<1> QED
  BY <1>1, AlwaysInv, PTL
============================================================================
