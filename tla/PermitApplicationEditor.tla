---------------------- MODULE PermitApplicationEditor ----------------------
(***************************************************************************)
(* The screen on which a draft is filled in.  Several people may have it   *)
(* open: the submitter and the designated submitter (Authors) may change   *)
(* every requirement block, a collaborator (a helper) those assigned to    *)
(* them.  A tab keeps the answers in its form, sends all of them whenever  *)
(* it saves, and keeps two flags that say whether there is anything to     *)
(* save: formio's pristine and the model's isDirty.                        *)
(*                                                                         *)
(* The server merges what it receives into the saved answers.  Requests of *)
(* one tab may overlap: the autosave does not wait for an answer, and the  *)
(* page stays open to the keyboard while one is awaited.                   *)
(*                                                                         *)
(* An answer's value is the number of the edit that gave it; 0 is empty.   *)
(***************************************************************************)
EXTENDS Integers, Sequences, FiniteSets

CONSTANTS
  Authors,      \* tabs of those who may edit everything and submit
  Helpers,      \* tabs of collaborators
  Blocks,       \* requirement blocks of the form
  Assigned,     \* per helper: the blocks assigned
  Controls,     \* per tab: the ways to edit and to save its user uses, a bound
  MaxRequests,  \* bound on the requests under way at one time
  MaxEdits,     \* bound on the edits
  MaxFailures   \* bound on the requests or answers that are lost

Tabs  == Authors \cup Helpers
Slots == 1..MaxRequests

ASSUME EditorAssumption ==
  /\ Authors \cap Helpers = {} /\ IsFiniteSet(Tabs)
  /\ Assigned \in [Helpers -> SUBSET Blocks]
  /\ {MaxRequests, MaxEdits, MaxFailures} \subseteq Nat

VARIABLES
  status,    \* "draft" or "submitted"
  saved,     \* the application's submission_data
  version,   \* the submission version: who submitted it and its answers
  tab,       \* per tab: the screen
  request,   \* per tab and slot: a request under way
  failures,  \* requests and answers lost so far
  edits,     \* history: per edit, its tab, its block and how it was made
  arrived,   \* history: edits that reached the server
  atRisk     \* history: edits made during a save, or whose save failed

server  == <<status, saved, version>>
history == <<edits, arrived, atRisk>>
vars    == <<server, tab, request, failures, history>>

Answers == [Blocks -> 0..MaxEdits]
Empty   == [b \in Blocks |-> 0]

NoVersion == [by |-> "nobody", data |-> Empty]

Screens == {"closed", "editing", "confirming", "left", "stepcode"}

Tab == [at : Screens, form : Answers, pristine : BOOLEAN, isDirty : BOOLEAN,
        confirmed : Answers]

ClosedTab == [at |-> "closed", form |-> Empty, pristine |-> TRUE,
              isDirty |-> FALSE, confirmed |-> Empty]

(* How a save was asked for: by the timer or a new file (autosave), the    *)
(* save button, "Save draft" (which leaves the screen), a step code button *)
(* (which leaves it too), or the submission.                               *)
Kinds == {"autosave", "save", "finishLater", "stepcode", "submit"}

(* The data of a request are the answers sent, then those sent back. *)
Request == [stage : {"sent", "loaded", "answered"}, kind : Kinds,
            data : Answers, ok : BOOLEAN]

NoRequest == [stage |-> "none", kind |-> "autosave", data |-> Empty,
              ok |-> FALSE]

TypeOK ==
  /\ status \in {"draft", "submitted"}
  /\ saved \in Answers
  /\ version.by \in Authors \cup {"nobody"} /\ version.data \in Answers
  /\ tab \in [Tabs -> Tab]
  /\ \A t \in Tabs : request[t] \in [Slots -> Request \cup {NoRequest}]
  /\ failures \in 0..MaxFailures
  /\ Len(edits) \in 0..MaxEdits
  /\ arrived \subseteq DOMAIN edits /\ atRisk \subseteq DOMAIN edits

Init ==
  /\ status = "draft" /\ saved = Empty /\ version = NoVersion
  /\ tab = [t \in Tabs |-> ClosedTab]
  /\ request = [t \in Tabs |-> [r \in Slots |-> NoRequest]]
  /\ failures = 0
  /\ edits = <<>> /\ arrived = {} /\ atRisk = {}

----------------------------------------------------------------------------
(* What a user may see and change *)

(* submission_requirement_block_edit_permissions *)
Permitted(t) == IF t \in Authors THEN Blocks ELSE Assigned[t]

(* The answers as the server shows them to a tab's user. *)
View(t) == [b \in Blocks |-> IF b \in Permitted(t) THEN saved[b] ELSE 0]

(* Wrong on purpose: nothing is filtered (see NoSilentRevert). *)
MergeAll(t, data) == data

(* The saved answers after a tab's are merged into them, key by key. *)
Merge(t, data) ==
  [b \in Blocks |-> IF b \in Permitted(t) THEN data[b] ELSE saved[b]]

Waiting(t) == {r \in Slots : request[t][r].stage # "none"}
RequestsUnderWay == Cardinality({p \in Tabs \X Slots : p[2] \in Waiting(p[1])})

----------------------------------------------------------------------------
(* The screen *)

(* Fetches the application and shows it. *)
Open(t) ==
  /\ tab[t].at = "closed" /\ status = "draft"
  /\ tab' = [tab EXCEPT ![t] = [ClosedTab EXCEPT !.at = "editing", !.form = View(t)]]
  /\ UNCHANGED <<server, request, failures, history>>

(* One request more; those under way may be applied after it. *)
Sending(t, kind, data) ==
  /\ RequestsUnderWay < MaxRequests
  /\ request' = [request EXCEPT ![t] =
      [q \in Slots |->
        IF q = CHOOSE r \in Slots \ Waiting(t) : TRUE
        THEN [stage |-> "sent", kind |-> kind, data |-> data, ok |-> FALSE]
        ELSE request[t][q]]]

(* The user changes one answer: by typing, which formio notices, by        *)
(* filling in a contact, which sets isDirty, or by attaching a file, which *)
(* neither notices and is saved at once.  (As a bound, nothing more is     *)
(* entered once the application is submitted: it would be refused.)        *)
Edit(t, b, how) ==
  /\ tab[t].at = "editing" /\ b \in Permitted(t) /\ how \in Controls[t]
  /\ Len(edits) < MaxEdits /\ status = "draft"
  /\ LET n    == Len(edits) + 1
         form == [tab[t].form EXCEPT ![b] = n]
     IN  /\ edits' = Append(edits, [tab |-> t, block |-> b, how |-> how])
         /\ atRisk' = IF Waiting(t) = {} THEN atRisk ELSE atRisk \cup {n}
         /\ tab' = [tab EXCEPT ![t].form = form,
                               ![t].pristine = @ /\ how # "typed",
                               ![t].isDirty = @ \/ how = "filled"]
         /\ IF how = "attached" THEN Sending(t, "autosave", form)
            ELSE UNCHANGED request
  /\ UNCHANGED <<server, failures, arrived>>

(* Wrong on purpose: only formio is asked (see EditsReachServer). *)
FormChanged(t, kind) == kind = "save" \/ ~tab[t].pristine

(* handleSave sends nothing when there is nothing to save.  The listeners  *)
(* of the step code buttons call the handleSave of the first render, whose *)
(* isDirty is the one of that render.                                      *)
NeedsSave(t, kind) ==
  \/ kind = "save"
  \/ ~tab[t].pristine
  \/ (tab[t].isDirty /\ kind # "stepcode")

(* The screen is gone; what it last showed is kept for the properties. *)
Gone(t, kind, form) ==
  [tab[t] EXCEPT !.at = IF kind = "stepcode" THEN "stepcode" ELSE "left",
                 !.form = form, !.pristine = TRUE, !.isDirty = FALSE]

HandleSave(t, kind) ==
  /\ kind \in Controls[t]
  /\ \/ tab[t].at = "editing"
     \/ tab[t].at = "confirming" /\ kind = "autosave"
  /\ NeedsSave(t, kind)
  /\ Sending(t, kind, tab[t].form)
  /\ UNCHANGED <<server, tab, failures, history>>

(* With nothing to save, "Save draft" and the step code buttons leave. *)
LeaveUnsaved(t, kind) ==
  /\ tab[t].at = "editing" /\ kind \in Controls[t] /\ ~NeedsSave(t, kind)
  /\ tab' = [tab EXCEPT ![t] = Gone(t, kind, @.form)]
  /\ UNCHANGED <<server, request, failures, history>>

(* Wrong on purpose: collaborators submit, too (see TypeOK). *)
AnyoneSubmits(t) ==
  /\ tab[t].at = "editing"
  /\ tab' = [tab EXCEPT ![t].at = "confirming", ![t].confirmed = tab[t].form]
  /\ UNCHANGED <<server, request, failures, history>>

(* The form is complete: its answers are put aside and confirmation asked. *)
OnFormSubmit(t) ==
  /\ t \in Authors /\ tab[t].at = "editing"
  /\ tab' = [tab EXCEPT ![t].at = "confirming", ![t].confirmed = tab[t].form]
  /\ UNCHANGED <<server, request, failures, history>>

CancelSubmit(t) ==
  /\ tab[t].at = "confirming"
  /\ \A r \in Waiting(t) : request[t][r].kind # "submit"
  /\ tab' = [tab EXCEPT ![t].at = "editing", ![t].confirmed = Empty]
  /\ UNCHANGED <<server, request, failures, history>>

OnModalSubmit(t) ==
  /\ tab[t].at = "confirming"
  /\ \A r \in Waiting(t) : request[t][r].kind # "submit"
  /\ Sending(t, "submit", tab[t].confirmed)
  /\ UNCHANGED <<server, tab, failures, history>>

----------------------------------------------------------------------------
(* The server *)

Edited(data) == {data[b] : b \in Blocks} \ {0}

Accepted(t, r, answers) ==
  [request EXCEPT ![t][r].stage = "answered", ![t][r].ok = TRUE,
                  ![t][r].data = IF request[t][r].kind = "autosave" THEN Empty ELSE answers]

Refused(t, r) ==
  [request EXCEPT ![t][r].stage = "answered", ![t][r].ok = FALSE, ![t][r].data = Empty]

(* A save is authorized, and found to be one of a draft, on a copy loaded  *)
(* before the row is locked.                                               *)
LoadDraft(t, r) ==
  /\ request[t][r].stage = "sent" /\ request[t][r].kind # "submit"
  /\ request' = IF status = "draft"
                THEN [request EXCEPT ![t][r].stage = "loaded"] ELSE Refused(t, r)
  /\ UNCHANGED <<server, tab, failures, history>>

(* Under the lock the answers are merged and saved. *)
SaveDraft(t, r) ==
  /\ request[t][r].stage = "loaded"
  /\ saved' = Merge(t, request[t][r].data)
  /\ arrived' = arrived \cup Edited(request[t][r].data)
  /\ request' = Accepted(t, r, View(t)')
  /\ UNCHANGED <<status, version, tab, failures, edits, atRisk>>

(* Wrong on purpose: submits what was last saved (see SubmittedAsConfirmed). *)
SubmitSaved(t, r) ==
  /\ request[t][r].stage = "sent" /\ request[t][r].kind = "submit"
  /\ \/ /\ status = "draft"
        /\ status' = "submitted"
        /\ version' = [by |-> t, data |-> saved]
        /\ request' = Accepted(t, r, saved)
     \/ request' = Refused(t, r) /\ UNCHANGED <<status, version>>
  /\ UNCHANGED <<saved, tab, failures, history>>

(* The confirmed answers replace the saved ones and are submitted.  Digital *)
(* seal checks under way leave the application a saved draft; a form of an  *)
(* older template, and an application already submitted, are refused.       *)
Submit(t, r) ==
  LET data == request[t][r].data IN
  /\ request[t][r].stage = "sent" /\ request[t][r].kind = "submit"
  /\ \/ /\ status = "draft"
        /\ saved' = data
        /\ arrived' = arrived \cup Edited(data)
        /\ \/ /\ status' = "submitted"
              /\ version' = [by |-> t, data |-> data]
              /\ request' = Accepted(t, r, data)
           \/ request' = Refused(t, r) /\ UNCHANGED <<status, version>>
     \/ request' = Refused(t, r) /\ UNCHANGED <<server, arrived>>
  /\ UNCHANGED <<tab, failures, edits, atRisk>>

(* The request never arrives, or its answer does not. *)
Lose(t, r) ==
  /\ failures < MaxFailures
  /\ failures' = failures + 1
  /\ \/ request[t][r].stage = "sent"
     \/ request[t][r].stage = "answered" /\ request[t][r].ok
  /\ request' = Refused(t, r)
  /\ UNCHANGED <<server, tab, history>>

----------------------------------------------------------------------------
(* The answer *)

(* The answer to a save by hand replaces the model's data; the form follows *)
(* if formio is pristine.                                                  *)
FormAfter(t, req) ==
  IF req.ok /\ req.kind # "autosave" /\ tab[t].pristine
  THEN req.data ELSE tab[t].form

Leaves(req) == req.kind = "stepcode" \/ (req.kind = "finishLater" /\ req.ok)

Mounted(t) == tab[t].at \in {"editing", "confirming"}

(* update and the rest of handleSave: whatever the answer, both flags say  *)
(* that there is nothing to save.                                          *)
SaveAnswered(t, r) ==
  LET req == request[t][r] IN
  /\ req.stage = "answered" /\ req.kind # "submit"
  /\ tab' = [tab EXCEPT ![t] =
       IF ~Mounted(t) THEN @
       ELSE IF Leaves(req) THEN Gone(t, req.kind, FormAfter(t, req))
       ELSE [@ EXCEPT !.form = FormAfter(t, req), !.pristine = TRUE, !.isDirty = FALSE]]
  /\ atRisk' = IF req.ok THEN atRisk ELSE atRisk \cup Edited(tab[t].form)
  /\ request' = [request EXCEPT ![t][r] = NoRequest]
  /\ UNCHANGED <<server, failures, edits, arrived>>

(* A submission that succeeded replaces the model's data and leads to      *)
(* another screen.                                                         *)
SubmitAnswered(t, r) ==
  LET req == request[t][r] IN
  /\ req.stage = "answered" /\ req.kind = "submit"
  /\ tab' = [tab EXCEPT ![t] =
       IF req.ok THEN Gone(t, "submit", FormAfter(t, req)) ELSE @]
  /\ request' = [request EXCEPT ![t][r] = NoRequest]
  /\ UNCHANGED <<server, failures, history>>

----------------------------------------------------------------------------
Screen(t) ==
  \/ Open(t)
  \/ \E b \in Blocks, how \in {"typed", "filled", "attached"} : Edit(t, b, how)
  \/ \E kind \in {"autosave", "save", "finishLater", "stepcode"} : HandleSave(t, kind)
  \/ \E kind \in {"finishLater", "stepcode"} : LeaveUnsaved(t, kind)
  \/ OnFormSubmit(t) \/ CancelSubmit(t) \/ OnModalSubmit(t)

Handle(t, r) ==
  \/ LoadDraft(t, r) \/ SaveDraft(t, r) \/ Submit(t, r)
  \/ SaveAnswered(t, r) \/ SubmitAnswered(t, r)

Next ==
  \E t \in Tabs : \/ Screen(t)
                  \/ \E r \in Slots : Handle(t, r) \/ Lose(t, r)

Spec == Init /\ [][Next]_vars

----------------------------------------------------------------------------
(* Properties *)

(* The edits a tab's form shows that were made in it. *)
Own(t) == {n \in Edited(tab[t].form) : edits[n].tab = t}

(* A screen that believes to have nothing to save, or was left by a button  *)
(* that saves, with no request under way.                                   *)
AtRest(t) ==
  /\ Waiting(t) = {}
  /\ \/ tab[t].at = "editing" /\ tab[t].pristine /\ ~tab[t].isDirty
     \/ tab[t].at \in {"left", "stepcode"}

(* Nobody leaves with, or sits in front of, an edit that the screen takes   *)
(* for saved and the server never had, unless it was made while a save was  *)
(* under way or its save failed, or it was a contact filled in before a     *)
(* step code button was used.                                               *)
EditsReachServer ==
  \A t \in Tabs : AtRest(t) =>
    \A n \in Own(t) \ (arrived \cup atRisk) :
      tab[t].at = "stepcode" /\ edits[n].how = "filled"

(* A save takes back a newer answer only in a block its user may edit, and  *)
(* only somebody else's, or one made while another save was under way.      *)
NoSilentRevert ==
  [][\A t \in Tabs : \A r \in Slots, b \in Blocks :
       SaveDraft(t, r) /\ saved'[b] < saved[b] =>
         /\ b \in Permitted(t)
         /\ edits[saved[b]].tab # t \/ saved[b] \in atRisk]_vars

(* What is submitted are the answers last confirmed in that tab, whatever    *)
(* is saved while the confirmation is shown, and it is never replaced.       *)
SubmittedAsConfirmed ==
  [][version' # version =>
       /\ version = NoVersion
       /\ version'.data = tab[version'.by].confirmed]_vars

(* What an open screen takes for saved, the server has. *)
NothingLost ==
  \A t \in Tabs : AtRest(t) /\ tab[t].at = "editing" => Own(t) \subseteq arrived
============================================================================
