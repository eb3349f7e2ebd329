-------------------------- MODULE SubmissionInbox --------------------------
(***************************************************************************)
(* The board on which review staff see the submitted applications, one     *)
(* column for each status with the number of its applications and of the   *)
(* unread ones.  Searches bring the cards and the numbers; what the user   *)
(* does to a card is told to the server and, when the answer comes, added  *)
(* to the numbers without another search.  Searches and changes may        *)
(* overlap, and their answers may come in any order or not at all.         *)
(***************************************************************************)
EXTENDS ApplicationStatus, Naturals, FiniteSets

CONSTANTS
  Applications,  \* submitted applications of the jurisdiction
  MaxInFlight,   \* bound on requests under way at a time
  MaxRequests,   \* bound on the requests of the session
  MaxOthers      \* bound on changes made by other people

Slots == 1..MaxInFlight

ASSUME InboxAssumption ==
  /\ IsFiniteSet(Applications)
  /\ {MaxInFlight, MaxRequests, MaxOthers} \subseteq Nat

VARIABLES
  db,            \* per application: its row in the database
  index,         \* the search index, which follows the database with a delay
  model,         \* per application: the client's copy
  table,         \* the applications shown as cards
  stateCounts,   \* per column: number of applications
  unreadColumnCounts, unreadCount,  \* unread ones, per column and in all
  isSearching,   \* the board shows a spinner
  calls,         \* the requests under way
  requests, others,                 \* how many there were so far
  overlap        \* history: the numbers may be off, see below

server == <<db, index>>
board  == <<table, stateCounts, unreadColumnCounts, unreadCount>>
vars   == <<server, model, board, isSearching, calls, requests, others, overlap>>

(* The unread flag stands for a missing viewed_at of the latest version. *)
Row   == [status : Submitted, unread : BOOLEAN]
Rows  == [Applications -> Row]
NoRow == [status |-> "newly_submitted", unread |-> TRUE]

(* values.sum of the numbers of all columns *)
Total(f) == f["newly_submitted"] + f["resubmitted"] + f["in_review"]
              + f["approved"] + f["issued"] + f["withdrawn"]
StatusCounts(rows) ==
  [s \in Submitted |-> Cardinality({a \in Applications : rows[a].status = s})]
UnreadStatusCounts(rows) ==
  [s \in Submitted |->
     Cardinality({a \in Applications : rows[a].status = s /\ rows[a].unread})]

(* A request: what it asks, what the caller saw when it asked, the answer.  *)
(* "search" shows the spinner, "reset" does not.                            *)
NoAnswer == [rows |-> [a \in {} |-> NoRow], index |-> [a \in {} |-> NoRow]]
NoCall == [kind |-> "none", only |-> FALSE, app |-> {}, target |-> "newly_submitted",
           saw |-> NoRow, at |-> "idle", answer |-> NoAnswer, alone |-> TRUE]
Searches == {"search", "reset"}
Changes  == {"view", "unview", "transition"}

TypeOK ==
  /\ db \in Rows /\ index \in Rows /\ model \in Rows
  /\ table \subseteq Applications
  /\ {stateCounts, unreadColumnCounts} \subseteq [Submitted -> Nat]
  /\ unreadCount \in Nat
  /\ {isSearching, overlap} \subseteq BOOLEAN
  /\ DOMAIN calls = Slots
  /\ \A i \in Slots :
       /\ calls[i].kind \in Searches \cup Changes \cup {"none"}
       /\ calls[i].at \in {"idle", "sent", "done", "refused"}
       /\ calls[i].app \subseteq Applications
  /\ requests \in 0..MaxRequests /\ others \in 0..MaxOthers

Init ==
  /\ db \in [Applications -> {[status |-> "newly_submitted", unread |-> u] : u \in BOOLEAN}]
  /\ index = db
  /\ model = [a \in Applications |-> NoRow]
  /\ table = {}
  /\ stateCounts = [s \in Submitted |-> 0]
  /\ unreadColumnCounts = stateCounts /\ unreadCount = 0
  /\ isSearching = FALSE
  /\ calls = [i \in Slots |-> NoCall]
  /\ requests = 0 /\ others = 0
  /\ overlap = TRUE

----------------------------------------------------------------------------
(* Sending *)

InFlight == {i \in Slots : calls[i].at # "idle"}

(* What is under way is no longer alone when something else happens. *)
Crowded(cs) == [i \in Slots |-> [cs[i] EXCEPT !.alone = cs[i].at = "idle"]]

Send(call) ==
  /\ requests < MaxRequests
  /\ \E i \in Slots \ InFlight :
       calls' = IF InFlight = {} THEN [calls EXCEPT ![i] = call]
                ELSE Crowded([calls EXCEPT ![i] = call])
  /\ requests' = requests + 1
  /\ overlap' = (overlap \/ InFlight # {})

(* A search: on entering the screen, or with another filter. *)
FetchData(only) ==
  /\ Send([NoCall EXCEPT !.kind = "search", !.only = only, !.at = "sent"])
  /\ isSearching' = TRUE
  /\ UNCHANGED <<server, model, board, others>>

(* Searches without filter, and without the spinner. *)
ResetFilters ==
  /\ Send([NoCall EXCEPT !.kind = "reset", !.at = "sent"])
  /\ UNCHANGED <<server, model, board, isSearching, others>>

(* Opens a card: what is asked is told with what the client has now. *)
MarkAsViewed(a) ==
  /\ a \in table
  /\ Send([NoCall EXCEPT !.kind = "view", !.app = {a}, !.saw = model[a], !.at = "sent"])
  /\ UNCHANGED <<server, model, board, isSearching, others>>

MarkAsUnviewed(a) ==
  /\ a \in table /\ ~model[a].unread
  /\ Send([NoCall EXCEPT !.kind = "unview", !.app = {a}, !.saw = model[a], !.at = "sent"])
  /\ UNCHANGED <<server, model, board, isSearching, others>>

TransitionStatus(a, target) ==
  /\ a \in table /\ target \in MANUAL_TRANSITIONS[model[a].status]
  /\ Send([NoCall EXCEPT !.kind = "transition", !.app = {a}, !.target = target,
                         !.saw = model[a], !.at = "sent"])
  /\ UNCHANGED <<server, model, board, isSearching, others>>

----------------------------------------------------------------------------
(* The server *)

App(call) == CHOOSE a \in call.app : TRUE

(* A search finds its cards and numbers in the index and reads the rows of  *)
(* the cards from the database.                                             *)
ServeSearch(i) ==
  /\ calls[i].at = "sent" /\ calls[i].kind \in Searches
  /\ calls' = [calls EXCEPT ![i].at = "done",
                            ![i].answer = [rows |-> db, index |-> index],
                            ![i].alone = @ /\ index = db]
  /\ UNCHANGED <<server, model, board, isSearching, requests, others, overlap>>

ServeChange(i) ==
  LET call == calls[i]
      a    == App(call)
  IN
  /\ call.at = "sent" /\ call.kind \in Changes
  /\ IF call.kind = "transition" /\ call.target \notin MANUAL_TRANSITIONS[db[a].status]
     THEN /\ calls' = [calls EXCEPT ![i].at = "refused"]
          /\ UNCHANGED db
     ELSE /\ db' = [db EXCEPT ![a] =
               IF call.kind = "transition" THEN [@ EXCEPT !.status = call.target]
               ELSE [@ EXCEPT !.unread = call.kind = "unview"]]
          /\ calls' = [calls EXCEPT ![i].at = "done",
                                    ![i].answer = [rows |-> db', index |-> index]]
  /\ UNCHANGED <<index, model, board, isSearching, requests, others, overlap>>

(* The index catches up. *)
Reindex ==
  /\ index # db
  /\ index' = db
  /\ UNCHANGED <<db, model, board, isSearching, calls, requests, others, overlap>>

(* Someone else reads a submission or changes its status. *)
OtherUser(a) ==
  /\ others < MaxOthers
  /\ others' = others + 1
  /\ \/ db' = [db EXCEPT ![a].unread = ~@]
     \/ \E t \in MANUAL_TRANSITIONS[db[a].status] : db' = [db EXCEPT ![a].status = t]
  /\ calls' = Crowded(calls)
  /\ overlap' = TRUE
  /\ UNCHANGED <<index, model, board, isSearching, requests>>

----------------------------------------------------------------------------
(* Answers *)

(* Wrong on purpose: not kept above zero (see TypeOK). *)
JustMinusOne(n) == n - 1

MinusOne(n) == IF n = 0 THEN 0 ELSE n - 1

(* Wrong on purpose: leaves the unread number behind (see CountsExact). *)
AdjustStateCountsOnly(old, new, isUnread) ==
  /\ stateCounts' = [stateCounts EXCEPT ![old] = MinusOne(@), ![new] = @ + 1]
  /\ UNCHANGED <<unreadColumnCounts, unreadCount>>

AdjustCountsForTransition(old, new, isUnread) ==
  /\ stateCounts' = [stateCounts EXCEPT ![old] = MinusOne(@), ![new] = @ + 1]
  /\ unreadColumnCounts' = IF ~isUnread THEN unreadColumnCounts
       ELSE [unreadColumnCounts EXCEPT ![old] = MinusOne(@), ![new] = @ + 1]
  /\ UNCHANGED unreadCount

AdjustUnreadCountForColumn(s, more) ==
  LET Adjusted(n) == IF more THEN n + 1 ELSE MinusOne(n) IN
  /\ unreadColumnCounts' = [unreadColumnCounts EXCEPT ![s] = Adjusted(@)]
  /\ unreadCount' = Adjusted(unreadCount)
  /\ UNCHANGED stateCounts

(* The cards and numbers of the answer replace those shown. *)
ShowResults(call) ==
  LET found == {a \in Applications : call.only => call.answer.index[a].unread} IN
  /\ table' = found
  /\ model' = [a \in Applications |-> IF a \in found THEN call.answer.rows[a] ELSE model[a]]
  /\ stateCounts' = StatusCounts(call.answer.index)
  /\ unreadColumnCounts' = UnreadStatusCounts(call.answer.index)
  /\ unreadCount' = Total(UnreadStatusCounts(call.answer.index))
  /\ overlap' = ~call.alone

(* A row that was read or unread replaces the client's; a status that was   *)
(* changed replaces the client's status alone.                              *)
ApplyChange(call) ==
  LET a   == App(call)
      row == call.answer.rows[a]
  IN
  /\ IF call.kind = "transition"
     THEN /\ model' = [model EXCEPT ![a].status = row.status]
          /\ AdjustCountsForTransition(call.saw.status, row.status, call.saw.unread)
     ELSE /\ model' = [model EXCEPT ![a] = row]
          /\ IF call.saw.unread = (call.kind = "view")
             THEN AdjustUnreadCountForColumn(call.saw.status, call.kind = "unview")
             ELSE UNCHANGED <<stateCounts, unreadColumnCounts, unreadCount>>
  /\ UNCHANGED <<table, overlap>>

(* Wrong on purpose: a failed search keeps the spinner (see SpinnerEnds). *)
AnswerLeavingSpinner(i) ==
  /\ calls[i].at # "idle"
  /\ calls' = [calls EXCEPT ![i] = NoCall]
  /\ \/ /\ calls[i].at = "done"
        /\ IF calls[i].kind \in Searches THEN ShowResults(calls[i]) ELSE ApplyChange(calls[i])
        /\ isSearching' = (isSearching /\ calls[i].kind # "search")
     \/ /\ overlap' = (overlap \/ (calls[i].kind \in Changes /\ calls[i].at = "done"))
        /\ UNCHANGED <<model, board, isSearching>>
  /\ UNCHANGED <<server, requests, others>>

(* The answer arrives, or an error does: then nothing is shown, and a       *)
(* change the server made goes unseen.  The spinner ends with any search.   *)
Answer(i) ==
  /\ calls[i].at # "idle"
  /\ calls' = [calls EXCEPT ![i] = NoCall]
  /\ isSearching' = (isSearching /\ calls[i].kind # "search")
  /\ \/ /\ calls[i].at = "done"
        /\ IF calls[i].kind \in Searches THEN ShowResults(calls[i]) ELSE ApplyChange(calls[i])
     \/ /\ overlap' = (overlap \/ (calls[i].kind \in Changes /\ calls[i].at = "done"))
        /\ UNCHANGED <<model, board>>
  /\ UNCHANGED <<server, requests, others>>

----------------------------------------------------------------------------
Next ==
  \/ \E only \in BOOLEAN : FetchData(only)
  \/ ResetFilters \/ Reindex
  \/ \E a \in Applications :
       \/ MarkAsViewed(a) \/ MarkAsUnviewed(a) \/ OtherUser(a)
       \/ \E target \in Submitted : TransitionStatus(a, target)
  \/ \E i \in Slots : ServeSearch(i) \/ ServeChange(i) \/ Answer(i)

(* Every request is answered in the end, if only with a failure. *)
Spec == Init /\ [][Next]_vars /\ \A i \in Slots : WF_vars(Answer(i))

----------------------------------------------------------------------------
(* Properties *)

(* As long as one request at a time is made, none fails after the server    *)
(* did its work, nobody else interferes and the index keeps up, the cards   *)
(* and all the numbers agree with the server: changes are added to the      *)
(* numbers exactly once and to the right columns.                           *)
CountsExact ==
  ~overlap /\ InFlight = {} =>
    /\ \A a \in table : model[a] = db[a]
    /\ stateCounts = StatusCounts(db)
    /\ unreadColumnCounts = UnreadStatusCounts(db)
    /\ unreadCount = Total(UnreadStatusCounts(db))

(* The board does not show its spinner forever. *)
SpinnerEnds == isSearching ~> ~isSearching
============================================================================
