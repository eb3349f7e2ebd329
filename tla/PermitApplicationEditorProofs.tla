------------------- MODULE PermitApplicationEditorProofs -------------------
(***************************************************************************)
(* The draft editor for any number of authors, helpers, blocks, edits and  *)
(* overlapping requests: what is submitted was confirmed, what a screen    *)
(* takes for saved has reached the server, and no save takes back an       *)
(* answer of its own user.                                                 *)
(***************************************************************************)
EXTENDS PermitApplicationEditor, FiniteSetTheorems, TLAPS

----------------------------------------------------------------------------
(* The inductive invariant *)

(* Answers whose values are edits of the block they are in. *)
Given ==
  {f \in [Blocks -> 0..Len(edits)] :
     \A b \in Blocks : f[b] # 0 => edits[f[b]].block = b}

GivenTab == [at : Screens, form : Given, pristine : BOOLEAN, isDirty : BOOLEAN,
             confirmed : Given]

GivenRequest == [stage : {"none", "sent", "loaded", "answered"}, kind : Kinds,
                 data : Given, ok : BOOLEAN]

EditRecord == [tab : Tabs, block : Blocks, how : {"typed", "filled", "attached"}]

Numbers == 1..Len(edits)

(* What the edits are. *)
EditsTyped ==
  /\ edits \in Seq(EditRecord) /\ Len(edits) <= MaxEdits
  /\ \A n \in Numbers : edits[n].block \in Permitted(edits[n].tab)
  /\ arrived \subseteq Numbers /\ atRisk \subseteq Numbers

ServerTyped ==
  /\ status \in {"draft", "submitted"}
  /\ version.by \in Authors \cup {"nobody"}
  /\ saved \in Given /\ version.data \in Given
  /\ failures \in 0..MaxFailures
  /\ status = "draft" => version = NoVersion
  /\ Edited(saved) \subseteq arrived

TabsTyped ==
  /\ tab \in [Tabs -> GivenTab]
  /\ request \in [Tabs -> [Slots -> GivenRequest]]
  /\ \A t \in Tabs, r \in Slots :
       request[t][r].stage = "none" => request[t][r] = NoRequest

(* Only authors confirm; a submission waits where its answers were           *)
(* confirmed, or where another answer has meanwhile led.                     *)
SubmitWaits(t) ==
  /\ tab[t].at = "confirming" => t \in Authors
  /\ \A r \in Waiting(t) : request[t][r].kind = "submit" =>
       /\ t \in Authors
       /\ tab[t].at \in {"confirming", "left", "stepcode"}
       /\ request[t][r].stage # "loaded"
       /\ request[t][r].stage = "sent" => request[t][r].data = tab[t].confirmed

(* What the server answers, it has. *)
AnswersArrived(t) ==
  \A r \in Waiting(t) :
    request[t][r].stage = "answered" => Edited(request[t][r].data) \subseteq arrived

UnderWay(t, r) == request[t][r].stage \in {"sent", "loaded"}

Shown(t) == tab[t].at \in {"editing", "confirming"}

(* Something will make the screen save edit n, or say that it was not saved. *)
Noticed(t, n) ==
  \/ \E r \in Waiting(t) : request[t][r].kind # "submit"
  \/ Shown(t) /\ edits[n].how = "typed" /\ ~tab[t].pristine
  \/ Shown(t) /\ edits[n].how = "filled" /\ tab[t].isDirty
  \/ tab[t].at = "stepcode" /\ edits[n].how = "filled"

(* An edit that the server does not have and that was not made during a save *)
(* is part of every request under way and of the confirmed answers, and      *)
(* noticed.                                                                  *)
OnTheWay(t) ==
  \A n \in Own(t) : n \notin arrived /\ n \notin atRisk =>
    /\ \A r \in Waiting(t) :
         \/ UnderWay(t, r) /\ n \in Edited(request[t][r].data)
         \/ request[t][r].stage = "answered" /\ ~request[t][r].ok
    /\ tab[t].at = "confirming" => n \in Edited(tab[t].confirmed)
    /\ Noticed(t, n)

(* A tab never holds, sends or is answered anything older than an edit of    *)
(* its own that was not made during a save.                                  *)
Newest(t) ==
  \A n \in Numbers : edits[n].tab = t /\ n \notin atRisk =>
    /\ tab[t].at # "closed"
    /\ tab[t].form[edits[n].block] >= n
    /\ tab[t].at = "confirming" => tab[t].confirmed[edits[n].block] >= n
    /\ \A r \in Waiting(t) :
         UnderWay(t, r) \/ (request[t][r].ok /\ request[t][r].kind # "autosave")
           => request[t][r].data[edits[n].block] >= n

TabKept(t) == SubmitWaits(t) /\ AnswersArrived(t) /\ OnTheWay(t) /\ Newest(t)

Typed == EditsTyped /\ ServerTyped /\ TabsTyped

Inv == Typed /\ \A t \in Tabs : TabKept(t)

----------------------------------------------------------------------------
(* Slots *)

(* While fewer requests are under way than the bound, a tab has a free slot. *)
LEMMA FreeSlot ==
  ASSUME RequestsUnderWay < MaxRequests, NEW t \in Tabs
  PROVE  \E r \in Slots : r \notin Waiting(t)
<1> SUFFICES ASSUME Slots \subseteq Waiting(t) PROVE FALSE
  OBVIOUS
<1> DEFINE all == {p \in Tabs \X Slots : p[2] \in Waiting(p[1])}
           mine == {t} \X Slots
<1>1. MaxRequests \in Nat /\ IsFiniteSet(Tabs)
  BY EditorAssumption
<1>2. IsFiniteSet(Slots) /\ Cardinality(Slots) = MaxRequests
  BY <1>1, FS_Interval DEF Slots
<1>3. IsFiniteSet({t}) /\ Cardinality({t}) = 1
  BY FS_Singleton
<1>4. IsFiniteSet(all)
  <2>1. IsFiniteSet(Tabs \X Slots)
    BY <1>1, <1>2, FS_Product
  <2>2. all \subseteq Tabs \X Slots
    OBVIOUS
  <2> QED
    BY <2>1, <2>2, FS_Subset
<1>5. Cardinality(mine) = MaxRequests
  <2>1. Cardinality(mine) = 1 * MaxRequests
    BY <1>2, <1>3, FS_Product
  <2> QED
    BY <1>1, <2>1
<1>6. mine \subseteq all
  OBVIOUS
<1>7. Cardinality(mine) <= Cardinality(all)
  BY <1>4, <1>6, FS_Subset
<1>8. Cardinality(all) < MaxRequests
  BY DEF RequestsUnderWay
<1> HIDE DEF all, mine
<1>9. Cardinality(all) \in Nat
  BY <1>4, FS_CardinalityType
<1> QED
  BY <1>1, <1>5, <1>7, <1>8, <1>9

(* One request is replaced, the others are left alone. *)
Puts(t, r, q) ==
  /\ request'[t][r] = q
  /\ \A u \in Tabs, s \in Slots : u # t \/ s # r => request'[u][s] = request[u][s]

(* A request that is sent takes a free slot. *)
LEMMA Sends ==
  ASSUME TabsTyped, NEW t \in Tabs, NEW kind \in Kinds, NEW data, NEW D,
         data \in D, Given \subseteq D, Sending(t, kind, data)
  PROVE  \E r \in Slots :
           /\ r \notin Waiting(t)
           /\ Puts(t, r, [stage |-> "sent", kind |-> kind, data |-> data, ok |-> FALSE])
           /\ request' \in [Tabs -> [Slots ->
                [stage : {"none", "sent", "loaded", "answered"}, kind : Kinds,
                 data : D, ok : BOOLEAN]]]
<1> DEFINE new == [stage |-> "sent", kind |-> kind, data |-> data, ok |-> FALSE]
           free == CHOOSE r \in Slots \ Waiting(t) : TRUE
           R == [stage : {"none", "sent", "loaded", "answered"}, kind : Kinds,
                 data : D, ok : BOOLEAN]
<1>1. free \in Slots /\ free \notin Waiting(t)
  BY FreeSlot DEF Sending
<1>2. request' = [request EXCEPT ![t] = [q \in Slots |-> IF q = free THEN new ELSE request[t][q]]]
  BY Zenon DEF Sending
<1>3. new \in R /\ GivenRequest \subseteq R
  BY DEF GivenRequest
<1> HIDE DEF new, free, R
<1>4. request'[t] = [q \in Slots |-> IF q = free THEN new ELSE request[t][q]]
      /\ \A u \in Tabs \ {t} : request'[u] = request[u]
  BY <1>2 DEF TabsTyped
<1>5. request'[t][free] = new /\ \A s \in Slots \ {free} : request'[t][s] = request[t][s]
  BY <1>1, <1>4
<1>6. request' \in [Tabs -> [Slots -> R]]
  <2>1. \A u \in Tabs, s \in Slots : request[u][s] \in R
    BY <1>3 DEF TabsTyped
  <2>2. [q \in Slots |-> IF q = free THEN new ELSE request[t][q]] \in [Slots -> R]
    BY <1>3, <2>1
  <2>3. \A u \in Tabs : request[u] \in [Slots -> R]
    BY <2>1 DEF TabsTyped
  <2>4. request \in [Tabs -> [Slots -> R]]
    BY <2>3 DEF TabsTyped
  <2> QED
    BY <1>2, <2>2, <2>4
<1>7. Puts(t, free, new)
  BY <1>4, <1>5 DEF Puts
<1> QED
  BY <1>1, <1>6, <1>7 DEF new, R
----------------------------------------------------------------------------
(* Answers *)

(* Every answer is an edit or none. *)
LEMMA EditedNumbers ==
  ASSUME EditsTyped, NEW f \in Given
  PROVE  /\ Edited(f) \subseteq Numbers
         /\ \A b \in Blocks : f[b] # 0 => f[b] \in Numbers /\ edits[f[b]].block = b
         /\ \A b \in Blocks : f[b] \in Nat /\ f[b] <= Len(edits)
<1>1. Len(edits) \in Nat
  BY DEF EditsTyped
<1>2. \A b \in Blocks : f[b] \in 0..Len(edits) /\ (f[b] # 0 => edits[f[b]].block = b)
  BY DEF Given
<1> QED
  BY <1>1, <1>2 DEF Edited, Numbers

(* What the server shows and what it merges is given by edits. *)
LEMMA MergeGiven ==
  ASSUME EditsTyped, saved \in Given, NEW t, NEW data \in Given
  PROVE  Empty \in Given /\ View(t) \in Given /\ Merge(t, data) \in Given
<1>1. Len(edits) \in Nat
  BY DEF EditsTyped
<1>2. Empty \in Given
  BY <1>1 DEF Empty, Given
<1>3. View(t) \in Given
  BY <1>1 DEF View, Given
<1>4. Merge(t, data) \in Given
  BY <1>1 DEF Merge, Given
<1> QED
  BY <1>2, <1>3, <1>4

(* Nothing is edited in an empty form, and a view shows only what is saved. *)
LEMMA ViewEdited ==
  ASSUME NEW t
  PROVE  Edited(Empty) = {} /\ Edited(View(t)) \subseteq Edited(saved)
BY DEF Edited, Empty, View

(* Merged answers are saved ones or sent ones. *)
LEMMA MergeEdited ==
  ASSUME NEW t, NEW data
  PROVE  Edited(Merge(t, data)) \subseteq Edited(saved) \cup Edited(data)
BY DEF Edited, Merge

----------------------------------------------------------------------------
(* Tabs that a step leaves alone *)

(* What is known of a tab stays known while others edit and save. *)
LEMMA OthersKept ==
  ASSUME Typed, NEW u \in Tabs, TabKept(u),
         tab'[u] = tab[u], \A s \in Slots : request'[u][s] = request[u][s],
         arrived \subseteq arrived', atRisk \subseteq atRisk',
         Numbers \subseteq Numbers', \A n \in Numbers : edits'[n] = edits[n],
         \A n \in Numbers' \ Numbers : edits'[n].tab # u
  PROVE  TabKept(u)'
<1>1. Waiting(u)' = Waiting(u)
  BY DEF Waiting
<1>2. \A s \in Slots : UnderWay(u, s)' <=> UnderWay(u, s)
  BY DEF UnderWay
<1>3. Waiting(u) \subseteq Slots
  BY DEF Waiting
<1>4. SubmitWaits(u)'
  BY <1>1, <1>3 DEF TabKept, SubmitWaits
<1>5. AnswersArrived(u)'
  BY <1>1, <1>3 DEF TabKept, AnswersArrived
<1>6. \A f \in Given : Edited(f) \subseteq Numbers
  BY EditedNumbers DEF Typed
<1>7. tab[u].form \in Given
  BY DEF Typed, TabsTyped, GivenTab
<1>8. Own(u)' = Own(u) /\ Own(u) \subseteq Numbers
  <2>1. Edited(tab[u].form)' = Edited(tab[u].form)
    BY DEF Edited
  <2> QED
    BY <1>6, <1>7, <2>1 DEF Own
<1>9. OnTheWay(u)'
  <2>1. ASSUME NEW n \in Own(u), n \notin arrived, n \notin atRisk
        PROVE  /\ \A r \in Waiting(u) :
                    \/ UnderWay(u, r) /\ n \in Edited(request[u][r].data)
                    \/ request[u][r].stage = "answered" /\ ~request[u][r].ok
               /\ tab[u].at = "confirming" => n \in Edited(tab[u].confirmed)
               /\ Noticed(u, n)
    BY <2>1 DEF TabKept, OnTheWay
  <2>2. \A n \in Numbers : Noticed(u, n) => Noticed(u, n)'
    BY <1>1, <1>3 DEF Noticed, Shown
  <2>3. \A r \in Slots : Edited(request[u][r].data)' = Edited(request[u][r].data)
    BY DEF Edited
  <2>4. Edited(tab[u].confirmed)' = Edited(tab[u].confirmed)
    BY DEF Edited
  <2> QED
    BY <1>1, <1>2, <1>3, <1>8, <2>1, <2>2, <2>3, <2>4 DEF OnTheWay
<1>10. Newest(u)'
  BY <1>1, <1>2, <1>3 DEF TabKept, Newest
<1> QED
  BY <1>4, <1>5, <1>9, <1>10 DEF TabKept

(* A step that leaves the edits alone keeps what they are. *)
LEMMA SameEdits ==
  ASSUME EditsTyped, UNCHANGED edits, arrived' \subseteq Numbers, atRisk' \subseteq Numbers
  PROVE  EditsTyped' /\ Numbers' = Numbers /\ Given' = Given /\ GivenTab' = GivenTab
         /\ GivenRequest' = GivenRequest
<1>1. Numbers' = Numbers /\ Given' = Given
  BY DEF Numbers, Given
<1> QED
  BY <1>1 DEF EditsTyped, GivenTab, GivenRequest, Permitted
----------------------------------------------------------------------------
(* Steps of one tab *)

(* A step of one tab keeps the invariant if it does so there. *)
LEMMA StepKeeps ==
  ASSUME Inv, NEW t \in Tabs, UNCHANGED edits,
         arrived \subseteq arrived', arrived' \subseteq Numbers,
         atRisk \subseteq atRisk', atRisk' \subseteq Numbers,
         ServerTyped', TabsTyped', TabKept(t)',
         \A u \in Tabs \ {t} : tab'[u] = tab[u],
         \A u \in Tabs \ {t}, s \in Slots : request'[u][s] = request[u][s]
  PROVE  Inv'
<1>1. EditsTyped' /\ Numbers' = Numbers
  BY SameEdits DEF Inv, Typed
<1>2. ASSUME NEW u \in Tabs PROVE TabKept(u)'
  <2>1. CASE u = t
    BY <2>1
  <2>2. CASE u # t
    BY <1>1, <2>2, OthersKept DEF Inv
  <2> QED
    BY <2>1, <2>2
<1> QED
  BY <1>1, <1>2 DEF Inv, Typed

(* What a tab shows is given by edits. *)
LEMMA TabGiven ==
  ASSUME Inv, NEW t \in Tabs
  PROVE  /\ tab[t] \in GivenTab
         /\ tab[t].form \in Given /\ tab[t].confirmed \in Given
         /\ tab[t].at \in Screens
         /\ tab[t].pristine \in BOOLEAN /\ tab[t].isDirty \in BOOLEAN
         /\ TabKept(t)
<1>1. tab[t] \in GivenTab
  BY DEF Inv, Typed, TabsTyped
<1> QED
  BY <1>1 DEF GivenTab, Inv

(* What a request carries is given by edits. *)
LEMMA RequestGiven ==
  ASSUME TabsTyped, NEW t \in Tabs, NEW r \in Slots
  PROVE  /\ request[t][r] \in GivenRequest
         /\ request[t][r].data \in Given /\ request[t][r].kind \in Kinds
         /\ request[t][r].stage \in {"none", "sent", "loaded", "answered"}
         /\ request[t][r].ok \in BOOLEAN
<1>1. request[t][r] \in GivenRequest
  BY DEF TabsTyped
<1> QED
  BY <1>1 DEF GivenRequest

(* Replacing what a tab shows keeps the types. *)
LEMMA TabSet ==
  ASSUME Inv, NEW t \in Tabs, NEW x \in GivenTab, tab' = [tab EXCEPT ![t] = x]
  PROVE  /\ tab' \in [Tabs -> GivenTab] /\ tab'[t] = x
         /\ \A u \in Tabs \ {t} : tab'[u] = tab[u]
BY DEF Inv, Typed, TabsTyped

(* Replacing a request keeps the types. *)
LEMMA RequestSet ==
  ASSUME Inv, NEW t \in Tabs, NEW r \in Slots, NEW q \in GivenRequest,
         request' = [request EXCEPT ![t][r] = q], UNCHANGED edits,
         tab' \in [Tabs -> GivenTab], q.stage = "none" => q = NoRequest
  PROVE  Puts(t, r, q) /\ TabsTyped'
<1>1. GivenTab' = GivenTab /\ GivenRequest' = GivenRequest
  BY SameEdits DEF Inv, Typed, EditsTyped, GivenTab, GivenRequest, Given
<1>2. request' \in [Tabs -> [Slots -> GivenRequest]]
  BY DEF Inv, Typed, TabsTyped
<1>3. Puts(t, r, q)
  BY DEF Inv, Typed, TabsTyped, Puts
<1>4. \A u \in Tabs, s \in Slots :
        request'[u][s].stage = "none" => request'[u][s] = NoRequest
  BY <1>3 DEF Puts, Inv, Typed, TabsTyped
<1> QED
  BY <1>1, <1>2, <1>3, <1>4 DEF TabsTyped

(* A refused request brings nothing back. *)
LEMMA RefusedPuts ==
  ASSUME Inv, NEW t \in Tabs, NEW r \in Slots, request' = Refused(t, r),
         UNCHANGED <<edits, tab>>
  PROVE  /\ TabsTyped'
         /\ \E q \in GivenRequest :
              /\ Puts(t, r, q)
              /\ q.stage = "answered" /\ ~q.ok /\ q.data = Empty
              /\ q.kind = request[t][r].kind
<1> DEFINE q == [request[t][r] EXCEPT !.stage = "answered", !.ok = FALSE, !.data = Empty]
<1>1. request[t][r] \in GivenRequest /\ Empty \in Given
  BY RequestGiven, MergeGiven DEF Inv, Typed, ServerTyped
<1>2. /\ q \in GivenRequest /\ q.stage = "answered" /\ ~q.ok /\ q.data = Empty
      /\ q.kind = request[t][r].kind
  BY <1>1 DEF GivenRequest
<1>3. request' = [request EXCEPT ![t][r] = q]
  BY <1>1 DEF Refused, Inv, Typed, TabsTyped, GivenRequest
<1> HIDE DEF q
<1>4. tab' \in [Tabs -> GivenTab]
  BY DEF Inv, Typed, TabsTyped
<1>5. Puts(t, r, q) /\ TabsTyped'
  BY <1>2, <1>3, <1>4, RequestSet
<1> QED
  BY <1>2, <1>5

(* An accepted one brings the answers, or nothing if it was an autosave. *)
LEMMA AcceptedPuts ==
  ASSUME Inv, NEW t \in Tabs, NEW r \in Slots, NEW answers \in Given,
         request' = Accepted(t, r, answers), UNCHANGED <<edits, tab>>
  PROVE  /\ TabsTyped'
         /\ \E q \in GivenRequest :
              /\ Puts(t, r, q)
              /\ q.stage = "answered" /\ q.ok
              /\ q.data = IF q.kind = "autosave" THEN Empty ELSE answers
              /\ q.kind = request[t][r].kind
<1> DEFINE back == IF request[t][r].kind = "autosave" THEN Empty ELSE answers
           q == [request[t][r] EXCEPT !.stage = "answered", !.ok = TRUE, !.data = back]
<1>1. request[t][r] \in GivenRequest /\ Empty \in Given
  BY RequestGiven, MergeGiven DEF Inv, Typed, ServerTyped
<1>2. request' = [request EXCEPT ![t][r] = q]
  BY <1>1 DEF Accepted, Inv, Typed, TabsTyped, GivenRequest
<1>3. back \in Given
  BY <1>1
<1>4. back = IF request[t][r].kind = "autosave" THEN Empty ELSE answers
  OBVIOUS
<1> HIDE DEF back
<1>5. /\ q \in GivenRequest /\ q.stage = "answered" /\ q.ok /\ q.data = back
      /\ q.kind = request[t][r].kind
  BY <1>1, <1>3 DEF GivenRequest
<1> HIDE DEF q
<1>6. tab' \in [Tabs -> GivenTab]
  BY DEF Inv, Typed, TabsTyped
<1>7. Puts(t, r, q) /\ TabsTyped'
  BY <1>2, <1>5, <1>6, RequestSet
<1> QED
  BY <1>4, <1>5, <1>7
----------------------------------------------------------------------------
(* The screen *)

(* Nothing but the tab changes. *)
LEMMA TabOnly ==
  ASSUME Inv, NEW t \in Tabs, NEW x \in GivenTab, tab' = [tab EXCEPT ![t] = x],
         UNCHANGED <<server, request, failures, history>>
  PROVE  /\ TabsTyped' /\ ServerTyped' /\ Waiting(t)' = Waiting(t)
         /\ \A r \in Slots : UnderWay(t, r)' <=> UnderWay(t, r)
         /\ Numbers' = Numbers /\ EditsTyped
         /\ AnswersArrived(t)'
         /\ TabKept(t)' => Inv'
<1>1. /\ tab' \in [Tabs -> GivenTab] /\ tab'[t] = x
      /\ \A u \in Tabs \ {t} : tab'[u] = tab[u]
  BY TabSet
<1>2. /\ EditsTyped /\ EditsTyped' /\ Numbers' = Numbers /\ Given' = Given
      /\ GivenTab' = GivenTab /\ GivenRequest' = GivenRequest
  BY SameEdits DEF Inv, Typed, EditsTyped, history
<1>3. TabsTyped'
  BY <1>1, <1>2 DEF Inv, Typed, TabsTyped
<1>4. ServerTyped'
  BY <1>2 DEF Inv, Typed, ServerTyped, server, history, Edited
<1>5. Waiting(t)' = Waiting(t) /\ \A r \in Slots : UnderWay(t, r)' <=> UnderWay(t, r)
  BY DEF Waiting, UnderWay
<1>6. AnswersArrived(t)'
  BY <1>5 DEF Inv, TabKept, AnswersArrived, Edited, history
<1>7. TabKept(t)' => Inv'
  BY <1>1, <1>3, <1>4, StepKeeps DEF Inv, Typed, EditsTyped, history
<1> QED
  BY <1>2, <1>3, <1>4, <1>5, <1>6, <1>7

(* A form that is opened shows what the server has. *)
LEMMA OpenKeeps ==
  ASSUME Inv, NEW t \in Tabs, Open(t)
  PROVE  Inv'
<1> DEFINE x == [ClosedTab EXCEPT !.at = "editing", !.form = View(t)]
<1>1. View(t) \in Given /\ Empty \in Given
  BY MergeGiven DEF Inv, Typed, ServerTyped
<1>2. x \in GivenTab /\ x.at = "editing" /\ x.form = View(t)
  BY <1>1 DEF ClosedTab, GivenTab, Screens
<1>3. tab' = [tab EXCEPT ![t] = x] /\ UNCHANGED <<server, request, failures, history>>
      /\ tab[t].at = "closed"
  BY DEF Open
<1> HIDE DEF x
<1>4. tab'[t] = x
  BY <1>2, <1>3, TabSet
<1>5. Waiting(t)' = Waiting(t) /\ Numbers' = Numbers /\ AnswersArrived(t)'
      /\ (TabKept(t)' => Inv')
  BY <1>2, <1>3, TabOnly
<1>6. SubmitWaits(t)'
  BY <1>2, <1>3, <1>4, <1>5 DEF Inv, TabKept, SubmitWaits
<1>7. Own(t)' \subseteq arrived'
  BY <1>2, <1>3, <1>4, ViewEdited DEF Own, Edited, Inv, Typed, ServerTyped, history
<1>8. OnTheWay(t)'
  BY <1>7 DEF OnTheWay
<1>9. Newest(t)'
  BY <1>3, <1>5 DEF Inv, TabKept, Newest, history
<1> QED
  BY <1>5, <1>6, <1>8, <1>9 DEF TabKept

(* With nothing to save, no edit needs the screen to notice it. *)
LEMMA LeaveKeeps ==
  ASSUME Inv, NEW t \in Tabs, NEW kind \in {"finishLater", "stepcode"},
         LeaveUnsaved(t, kind)
  PROVE  Inv'
<1> DEFINE x == Gone(t, kind, tab[t].form)
<1>1. x \in GivenTab /\ x.form = tab[t].form /\ x.confirmed = tab[t].confirmed
      /\ x.at = IF kind = "stepcode" THEN "stepcode" ELSE "left"
  BY TabGiven DEF Gone, GivenTab, Screens
<1>2. tab' = [tab EXCEPT ![t] = x] /\ UNCHANGED <<server, request, failures, history>>
      /\ tab[t].at = "editing" /\ ~NeedsSave(t, kind)
  BY DEF LeaveUnsaved, Gone
<1> HIDE DEF x
<1>3. tab'[t] = x
  BY <1>1, <1>2, TabSet
<1>4. /\ Waiting(t)' = Waiting(t) /\ Numbers' = Numbers /\ AnswersArrived(t)'
      /\ (TabKept(t)' => Inv') /\ \A r \in Slots : UnderWay(t, r)' <=> UnderWay(t, r)
  BY <1>1, <1>2, TabOnly
<1>5. SubmitWaits(t)'
  BY <1>1, <1>2, <1>3, <1>4 DEF Inv, TabKept, SubmitWaits
<1>6. Own(t)' = Own(t) /\ UNCHANGED <<arrived, atRisk, edits>>
  BY <1>1, <1>2, <1>3 DEF Own, Edited, history
<1>7. \A n : Noticed(t, n) => Noticed(t, n)'
  BY <1>1, <1>2, <1>3, <1>4 DEF Noticed, Shown, NeedsSave, history, Waiting
<1>8. OnTheWay(t)'
  BY <1>1, <1>2, <1>3, <1>4, <1>6, <1>7 DEF Inv, TabKept, OnTheWay, Edited, Waiting
<1>9. Newest(t)'
  BY <1>1, <1>2, <1>3, <1>4 DEF Inv, TabKept, Newest, history, Waiting
<1> QED
  BY <1>4, <1>5, <1>8, <1>9 DEF TabKept

(* The confirmed answers are those of the form. *)
LEMMA ConfirmKeeps ==
  ASSUME Inv, NEW t \in Tabs, OnFormSubmit(t) \/ CancelSubmit(t)
  PROVE  Inv'
<1>1. PICK x \in GivenTab :
        /\ tab' = [tab EXCEPT ![t] = x]
        /\ x.form = tab[t].form /\ x.pristine = tab[t].pristine
        /\ x.isDirty = tab[t].isDirty
        /\ \/ x.at = "confirming" /\ x.confirmed = tab[t].form /\ t \in Authors
              /\ tab[t].at = "editing"
           \/ x.at = "editing" /\ tab[t].at = "confirming"
              /\ \A r \in Waiting(t) : request[t][r].kind # "submit"
  <2>1. CASE OnFormSubmit(t)
    <3> DEFINE x == [tab[t] EXCEPT !.at = "confirming", !.confirmed = tab[t].form]
    <3>1. x \in GivenTab /\ x.form = tab[t].form /\ x.pristine = tab[t].pristine
          /\ x.isDirty = tab[t].isDirty /\ x.at = "confirming" /\ x.confirmed = tab[t].form
      BY TabGiven DEF GivenTab, Screens
    <3>2. tab' = [tab EXCEPT ![t] = x] /\ t \in Authors /\ tab[t].at = "editing"
      BY <2>1 DEF OnFormSubmit, Inv, Typed, TabsTyped, GivenTab
    <3> HIDE DEF x
    <3> QED
      BY <3>1, <3>2
  <2>2. CASE CancelSubmit(t)
    <3> DEFINE x == [tab[t] EXCEPT !.at = "editing", !.confirmed = Empty]
    <3>1. Empty \in Given
      BY MergeGiven DEF Inv, Typed, ServerTyped
    <3>2. x \in GivenTab /\ x.form = tab[t].form /\ x.pristine = tab[t].pristine
          /\ x.isDirty = tab[t].isDirty /\ x.at = "editing"
      BY <3>1, TabGiven DEF GivenTab, Screens
    <3>3. tab' = [tab EXCEPT ![t] = x] /\ tab[t].at = "confirming"
          /\ \A r \in Waiting(t) : request[t][r].kind # "submit"
      BY <2>2 DEF CancelSubmit, Inv, Typed, TabsTyped, GivenTab
    <3> HIDE DEF x
    <3> QED
      BY <3>2, <3>3
  <2> QED
    BY <2>1, <2>2
<1>2. UNCHANGED <<server, request, failures, history>>
  BY DEF OnFormSubmit, CancelSubmit
<1>3. tab'[t] = x
  BY <1>1, TabSet
<1>4. /\ Waiting(t)' = Waiting(t) /\ Numbers' = Numbers /\ AnswersArrived(t)'
      /\ (TabKept(t)' => Inv') /\ \A r \in Slots : UnderWay(t, r)' <=> UnderWay(t, r)
  BY <1>1, <1>2, TabOnly
<1>5. SubmitWaits(t)'
  BY <1>1, <1>2, <1>3, <1>4 DEF Inv, TabKept, SubmitWaits
<1>6. Own(t)' = Own(t) /\ UNCHANGED <<arrived, atRisk, edits>>
  BY <1>1, <1>2, <1>3 DEF Own, Edited, history
<1>7. \A n : Noticed(t, n) => Noticed(t, n)'
  BY <1>1, <1>2, <1>3, <1>4 DEF Noticed, Shown, history, Waiting
<1>8. x.at = "confirming" => Own(t) \subseteq Edited(x.confirmed)
  BY <1>1 DEF Own
<1>9. OnTheWay(t)'
  BY <1>1, <1>2, <1>3, <1>4, <1>6, <1>7, <1>8 DEF Inv, TabKept, OnTheWay, Edited, Waiting
<1>10. Newest(t)'
  BY <1>1, <1>2, <1>3, <1>4 DEF Inv, TabKept, Newest, history, Waiting
<1> QED
  BY <1>4, <1>5, <1>9, <1>10 DEF TabKept

(* An edit is one of a tab, in a block. *)
LEMMA EditGiven ==
  ASSUME EditsTyped, NEW m \in Numbers
  PROVE  edits[m].tab \in Tabs /\ edits[m].block \in Blocks /\ m \in Nat
<1>1. edits[m] \in EditRecord /\ m \in Nat
  BY DEF EditsTyped, Numbers
<1> QED
  BY <1>1 DEF EditRecord

(* A new edit is newest in the form; it is noticed, or made during a save. *)
LEMMA EditKeeps ==
  ASSUME Inv, NEW t \in Tabs, NEW b \in Blocks,
         NEW how \in {"typed", "filled", "attached"}, Edit(t, b, how)
  PROVE  Inv'
<1> DEFINE n == Len(edits) + 1
           e == [tab |-> t, block |-> b, how |-> how]
           form == [tab[t].form EXCEPT ![b] = n]
           x == [tab[t] EXCEPT !.form = form, !.pristine = @ /\ how # "typed",
                               !.isDirty = @ \/ how = "filled"]
           sent == [stage |-> "sent", kind |-> "autosave", data |-> form, ok |-> FALSE]
<1>1. /\ tab[t].at = "editing" /\ b \in Permitted(t)
      /\ Len(edits) < MaxEdits /\ status = "draft"
      /\ edits' = Append(edits, e)
      /\ atRisk' = IF Waiting(t) = {} THEN atRisk ELSE atRisk \cup {n}
      /\ UNCHANGED <<status, saved, version, failures, arrived>>
  BY DEF Edit, server
<1>2. tab' = [tab EXCEPT ![t] = x]
  BY DEF Edit, Inv, Typed, TabsTyped, GivenTab
<1>3. IF how = "attached" THEN Sending(t, "autosave", form) ELSE UNCHANGED request
  BY DEF Edit
<1>4. /\ edits \in Seq(EditRecord) /\ Len(edits) \in Nat /\ MaxEdits \in Nat
      /\ \A m \in Numbers : edits[m].block \in Permitted(edits[m].tab)
      /\ arrived \subseteq Numbers /\ atRisk \subseteq Numbers
  BY EditorAssumption DEF Inv, Typed, EditsTyped
<1>5. e \in EditRecord /\ e.tab = t /\ e.block = b /\ e.how = how
  BY DEF EditRecord
<1> HIDE DEF e
<1>6. /\ edits' \in Seq(EditRecord) /\ Len(edits') = n /\ edits'[n] = e
      /\ \A m \in Numbers : edits'[m] = edits[m]
  BY <1>1, <1>4, <1>5 DEF Numbers
<1>7. /\ n \in Nat /\ n \in Numbers' /\ n \notin Numbers /\ Numbers' = Numbers \cup {n}
      /\ \A m \in Numbers : m < n /\ m \in Nat
  BY <1>4, <1>6 DEF Numbers
<1>8. atRisk \subseteq atRisk' /\ atRisk' \subseteq Numbers' /\ n # 0
  BY <1>1, <1>4, <1>7
<1>9. EditsTyped'
  <2>1. Len(edits') <= MaxEdits
    BY <1>1, <1>4, <1>6
  <2>2. ASSUME NEW m \in Numbers' PROVE (edits[m].block \in Permitted(edits[m].tab))'
    <3>1. CASE m = n
      BY <1>1, <1>5, <1>6, <3>1 DEF Permitted
    <3>2. CASE m \in Numbers
      BY <1>4, <1>6, <3>2 DEF Permitted
    <3> QED
      BY <1>7, <3>1, <3>2
  <2>3. arrived' \subseteq Numbers'
    BY <1>1, <1>4, <1>7
  <2> QED
    BY <1>6, <1>8, <2>1, <2>2, <2>3 DEF EditsTyped, EditRecord
<1>10. Given \subseteq Given'
  BY <1>4, <1>6, <1>7 DEF Given, Numbers
<1>11. tab[t].form \in Given /\ tab[t].confirmed \in Given
       /\ tab[t].at \in Screens /\ tab[t].pristine \in BOOLEAN /\ tab[t].isDirty \in BOOLEAN
       /\ tab[t] \in GivenTab /\ TabKept(t)
  BY TabGiven
<1>12. /\ form[b] = n /\ \A c \in Blocks \ {b} : form[c] = tab[t].form[c]
       /\ form \in [Blocks -> 0..Len(edits')]
  BY <1>4, <1>6, <1>11 DEF Given
<1> HIDE DEF form, n
<1>13. form \in Given'
  <2>1. \A c \in Blocks \ {b} : form[c] # 0 => edits'[form[c]].block = c
    BY <1>6, <1>11, <1>12, EditedNumbers DEF Inv, Typed
  <2> QED
    BY <1>5, <1>6, <1>12, <2>1 DEF Given
<1>14. /\ x \in GivenTab' /\ x.at = "editing" /\ x.form = form
       /\ x.confirmed = tab[t].confirmed
       /\ x.pristine = (tab[t].pristine /\ how # "typed")
       /\ x.isDirty = (tab[t].isDirty \/ how = "filled")
  BY <1>1, <1>10, <1>11, <1>13 DEF GivenTab, Screens
<1> HIDE DEF x
<1>15. tab'[t] = x /\ \A u \in Tabs \ {t} : tab'[u] = tab[u]
  BY <1>2 DEF Inv, Typed, TabsTyped
<1>16. tab' \in [Tabs -> GivenTab']
  <2>1. GivenTab \subseteq GivenTab'
    BY <1>10 DEF GivenTab
  <2> QED
    BY <1>2, <1>14, <2>1 DEF Inv, Typed, TabsTyped
<1>17. /\ request' \in [Tabs -> [Slots -> GivenRequest']]
       /\ \/ how # "attached" /\ UNCHANGED request
          \/ how = "attached" /\ \E r \in Slots : r \notin Waiting(t) /\ Puts(t, r, sent)
  <2>1. CASE how = "attached"
    <3>1. Sending(t, "autosave", form) /\ "autosave" \in Kinds
      BY <1>3, <2>1 DEF Kinds
    <3>2. \E r \in Slots :
           /\ r \notin Waiting(t)
           /\ Puts(t, r, sent)
           /\ request' \in [Tabs -> [Slots ->
                [stage : {"none", "sent", "loaded", "answered"}, kind : Kinds,
                 data : Given', ok : BOOLEAN]]]
      BY <1>10, <1>13, <3>1, Sends DEF Inv, Typed
    <3> QED
      BY <2>1, <3>2 DEF GivenRequest
  <2>2. CASE how # "attached"
    <3>1. UNCHANGED request
      BY <1>3, <2>2
    <3>2. GivenRequest \subseteq GivenRequest'
      BY <1>10 DEF GivenRequest
    <3>3. request \in [Tabs -> [Slots -> GivenRequest']]
      BY <3>2 DEF Inv, Typed, TabsTyped
    <3> QED
      BY <2>2, <3>1, <3>3
  <2> QED
    BY <2>1, <2>2
<1>18. sent.stage = "sent" /\ sent.kind = "autosave" /\ sent.data = form /\ sent.ok = FALSE
  OBVIOUS
<1> HIDE DEF sent
<1>19. \A u \in Tabs \ {t}, s \in Slots : request'[u][s] = request[u][s]
  BY <1>17 DEF Puts
<1>20. \A s \in Waiting(t) : s \in Waiting(t)' /\ request'[t][s] = request[t][s]
  BY <1>17 DEF Puts, Waiting
<1>21. \A s \in Waiting(t)' :
         s \in Waiting(t) \/ (how = "attached" /\ request'[t][s] = sent)
  BY <1>17 DEF Puts, Waiting
<1>22. TabsTyped'
  <2>1. \A u \in Tabs, s \in Slots :
          request'[u][s].stage = "none" => request'[u][s] = NoRequest
    BY <1>17, <1>18 DEF Puts, Inv, Typed, TabsTyped
  <2> QED
    BY <1>16, <1>17, <2>1 DEF TabsTyped
<1>23. ServerTyped'
  BY <1>1, <1>10 DEF Inv, Typed, ServerTyped, Edited
<1>24. \A u \in Tabs \ {t} : TabKept(u)'
  <2>1. \A m \in Numbers' \ Numbers : edits'[m].tab = t
    BY <1>5, <1>6, <1>7
  <2> QED
    BY <1>1, <1>6, <1>7, <1>8, <1>15, <1>19, <2>1, OthersKept DEF Inv
<1>25. SubmitWaits(t)'
  <2>1. \A s \in Waiting(t)' : request'[t][s].kind # "submit"
    BY <1>1, <1>11, <1>18, <1>20, <1>21 DEF TabKept, SubmitWaits
  <2> QED
    BY <1>14, <1>15, <2>1 DEF SubmitWaits
<1>26. AnswersArrived(t)'
  BY <1>1, <1>11, <1>18, <1>20, <1>21 DEF TabKept, AnswersArrived, Edited
<1>27. Edited(form) \subseteq Edited(tab[t].form) \cup {n} /\ n \in Edited(form)
  BY <1>8, <1>12 DEF Edited
<1>28. Edited(tab[t].form) \subseteq Numbers
  BY <1>11, EditedNumbers DEF Inv, Typed
<1>29. OnTheWay(t)'
  <2> SUFFICES ASSUME NEW m \in Own(t)', m \notin arrived', m \notin atRisk'
               PROVE  /\ \A r \in Waiting(t)' :
                          \/ UnderWay(t, r)' /\ m \in Edited(request'[t][r].data)
                          \/ request'[t][r].stage = "answered" /\ ~request'[t][r].ok
                      /\ Noticed(t, m)'
    BY <1>14, <1>15 DEF OnTheWay, Edited
  <2>1. m \in Edited(form)
    BY <1>14, <1>15 DEF Own, Edited
  <2>2. CASE m = n
    <3>1. Waiting(t) = {}
      BY <1>1, <2>2
    <3>2. \A r \in Waiting(t)' : how = "attached" /\ request'[t][r] = sent
      BY <1>21, <3>1
    <3>3. Noticed(t, m)'
      <4>1. CASE how = "typed"
        BY <1>5, <1>6, <1>14, <1>15, <2>2, <4>1 DEF Noticed, Shown
      <4>2. CASE how = "filled"
        BY <1>5, <1>6, <1>14, <1>15, <2>2, <4>2 DEF Noticed, Shown
      <4>3. CASE how = "attached"
        <5>1. PICK r \in Slots : r \notin Waiting(t) /\ Puts(t, r, sent)
          BY <1>17, <4>3
        <5>2. r \in Waiting(t)' /\ request'[t][r].kind # "submit"
          BY <1>18, <5>1 DEF Puts, Waiting
        <5> QED
          BY <5>2 DEF Noticed
      <4> QED
        BY <4>1, <4>2, <4>3
    <3> QED
      BY <1>18, <2>1, <3>2, <3>3 DEF UnderWay
  <2>3. CASE m # n
    <3>1. m \in Own(t) /\ m \in Numbers /\ m \notin arrived /\ m \notin atRisk
          /\ edits'[m] = edits[m]
      BY <1>1, <1>6, <1>8, <1>27, <1>28, <2>1, <2>3 DEF Own
    <3>2. /\ \A r \in Waiting(t) :
               \/ UnderWay(t, r) /\ m \in Edited(request[t][r].data)
               \/ request[t][r].stage = "answered" /\ ~request[t][r].ok
          /\ Noticed(t, m)
      BY <1>11, <3>1 DEF TabKept, OnTheWay
    <3>3. \A r \in Waiting(t)' :
            \/ UnderWay(t, r)' /\ m \in Edited(request'[t][r].data)
            \/ request'[t][r].stage = "answered" /\ ~request'[t][r].ok
      BY <1>18, <1>20, <1>21, <2>1, <3>2 DEF UnderWay
    <3>4. Noticed(t, m)'
      BY <1>1, <1>14, <1>15, <1>20, <3>1, <3>2 DEF Noticed, Shown
    <3> QED
      BY <3>3, <3>4
  <2> QED
    BY <2>2, <2>3
<1>30. Newest(t)'
  <2> SUFFICES ASSUME NEW m \in Numbers', edits'[m].tab = t, m \notin atRisk'
               PROVE  /\ form[edits'[m].block] >= m
                      /\ \A r \in Waiting(t)' :
                           UnderWay(t, r)' \/ (request'[t][r].ok /\ request'[t][r].kind # "autosave")
                             => request'[t][r].data[edits'[m].block] >= m
    BY <1>14, <1>15 DEF Newest
  <2>1. CASE m = n
    <3>1. edits'[m].block = b /\ form[b] >= m
      BY <1>5, <1>6, <1>7, <1>12, <2>1
    <3>2. Waiting(t) = {}
      BY <1>1, <2>1
    <3> QED
      BY <1>18, <1>21, <3>1, <3>2
  <2>2. CASE m # n
    <3>1. m \in Numbers /\ edits'[m] = edits[m] /\ m \notin atRisk /\ m < n /\ m \in Nat
      BY <1>6, <1>7, <1>8, <2>2
    <3>2. edits[m].block \in Blocks
      BY <3>1, EditGiven DEF Inv, Typed
    <3>3. /\ tab[t].form[edits[m].block] >= m
          /\ \A r \in Waiting(t) :
               UnderWay(t, r) \/ (request[t][r].ok /\ request[t][r].kind # "autosave")
                 => request[t][r].data[edits[m].block] >= m
      BY <1>11, <3>1 DEF TabKept, Newest
    <3>4. form[edits[m].block] >= m
      BY <1>7, <1>12, <3>1, <3>2, <3>3
    <3> QED
      BY <1>18, <1>20, <1>21, <3>1, <3>3, <3>4 DEF UnderWay
  <2> QED
    BY <2>1, <2>2
<1> QED
  <2>1. TabKept(t)'
    BY <1>25, <1>26, <1>29, <1>30 DEF TabKept
  <2> QED
    BY <1>9, <1>22, <1>23, <1>24, <2>1 DEF Inv, Typed

(* What a request carries holds every edit that still has to reach the       *)
(* server.                                                                   *)
LEMMA SendKeeps ==
  ASSUME Inv, NEW t \in Tabs, NEW kind \in Kinds, NEW data \in Given,
         Sending(t, kind, data), UNCHANGED <<server, tab, failures, history>>,
         kind = "submit" =>
           t \in Authors /\ tab[t].at = "confirming" /\ data = tab[t].confirmed,
         \A n \in Own(t) : n \notin arrived /\ n \notin atRisk => n \in Edited(data),
         \A n \in Numbers : edits[n].tab = t /\ n \notin atRisk =>
           data[edits[n].block] >= n
  PROVE  Inv'
<1> DEFINE sent == [stage |-> "sent", kind |-> kind, data |-> data, ok |-> FALSE]
<1>1. /\ EditsTyped /\ EditsTyped' /\ Numbers' = Numbers /\ Given' = Given
      /\ GivenTab' = GivenTab /\ GivenRequest' = GivenRequest
  BY SameEdits DEF Inv, Typed, EditsTyped, history
<1>2. PICK r \in Slots :
        /\ r \notin Waiting(t) /\ Puts(t, r, sent)
        /\ request' \in [Tabs -> [Slots -> GivenRequest]]
  BY Sends DEF Inv, Typed, GivenRequest
<1>3. sent.stage = "sent" /\ sent.kind = kind /\ sent.data = data /\ sent.ok = FALSE
  OBVIOUS
<1> HIDE DEF sent
<1>4. \A s \in Waiting(t) : s \in Waiting(t)' /\ request'[t][s] = request[t][s]
  BY <1>2 DEF Puts, Waiting
<1>5. \A s \in Waiting(t)' : s \in Waiting(t) \/ request'[t][s] = sent
  BY <1>2 DEF Puts, Waiting
<1>6. TabsTyped'
  <2>1. \A u \in Tabs, s \in Slots :
          request'[u][s].stage = "none" => request'[u][s] = NoRequest
    BY <1>2, <1>3 DEF Puts, Inv, Typed, TabsTyped
  <2> QED
    BY <1>1, <1>2, <2>1 DEF TabsTyped, Inv, Typed
<1>7. ServerTyped'
  BY <1>1 DEF Inv, Typed, ServerTyped, Edited, server, history
<1>8. TabKept(t) /\ UNCHANGED <<tab, edits, arrived, atRisk>>
  BY DEF Inv, history
<1>9. SubmitWaits(t)'
  BY <1>3, <1>4, <1>5, <1>8 DEF TabKept, SubmitWaits
<1>10. AnswersArrived(t)'
  BY <1>3, <1>4, <1>5, <1>8 DEF TabKept, AnswersArrived, Edited
<1>11. Own(t)' = Own(t)
  BY <1>8 DEF Own, Edited
<1>12. \A n : Noticed(t, n) => Noticed(t, n)'
  BY <1>4, <1>8 DEF Noticed, Shown
<1>13. OnTheWay(t)'
  <2> SUFFICES ASSUME NEW n \in Own(t), n \notin arrived, n \notin atRisk
               PROVE  /\ \A s \in Waiting(t)' :
                          \/ UnderWay(t, s)' /\ n \in Edited(request'[t][s].data)
                          \/ request'[t][s].stage = "answered" /\ ~request'[t][s].ok
                      /\ tab[t].at = "confirming" => n \in Edited(tab[t].confirmed)
                      /\ Noticed(t, n)'
    BY <1>8, <1>11 DEF OnTheWay, Edited
  <2>1. /\ \A s \in Waiting(t) :
             \/ UnderWay(t, s) /\ n \in Edited(request[t][s].data)
             \/ request[t][s].stage = "answered" /\ ~request[t][s].ok
        /\ tab[t].at = "confirming" => n \in Edited(tab[t].confirmed)
        /\ Noticed(t, n)
    BY <1>8 DEF TabKept, OnTheWay
  <2> QED
    BY <1>3, <1>4, <1>5, <1>12, <2>1 DEF UnderWay
<1>14. Newest(t)'
  BY <1>1, <1>3, <1>4, <1>5, <1>8 DEF TabKept, Newest, UnderWay
<1> QED
  <2>1. \A u \in Tabs \ {t}, s \in Slots : request'[u][s] = request[u][s]
    BY <1>2 DEF Puts
  <2>2. arrived \subseteq Numbers /\ atRisk \subseteq Numbers
    BY <1>1 DEF EditsTyped
  <2> QED
    BY <1>6, <1>7, <1>8, <1>9, <1>10, <1>13, <1>14, <2>1, <2>2, StepKeeps DEF TabKept

(* A save sends the form and leaves it as it is. *)
LEMMA HandleSaveKeeps ==
  ASSUME Inv, NEW t \in Tabs,
         NEW kind \in {"autosave", "save", "finishLater", "stepcode"}, HandleSave(t, kind)
  PROVE  Inv'
<1>1. kind \in Kinds /\ kind # "submit"
  BY DEF Kinds
<1>2. Sending(t, kind, tab[t].form) /\ UNCHANGED <<server, tab, failures, history>>
  BY DEF HandleSave
<1>3. tab[t].form \in Given /\ TabKept(t)
  BY TabGiven
<1>4. \A n \in Own(t) : n \in Edited(tab[t].form)
  BY DEF Own
<1>5. \A n \in Numbers : edits[n].tab = t /\ n \notin atRisk => tab[t].form[edits[n].block] >= n
  BY <1>3 DEF TabKept, Newest
<1> QED
  BY <1>1, <1>2, <1>3, <1>4, <1>5, SendKeeps

(* The confirmed answers are sent, and the form waits. *)
LEMMA ModalSubmitKeeps ==
  ASSUME Inv, NEW t \in Tabs, OnModalSubmit(t)
  PROVE  Inv'
<1>1. "submit" \in Kinds
  BY DEF Kinds
<1>2. /\ tab[t].at = "confirming" /\ Sending(t, "submit", tab[t].confirmed)
      /\ UNCHANGED <<server, tab, failures, history>>
  BY DEF OnModalSubmit
<1>3. tab[t].confirmed \in Given /\ TabKept(t)
  BY TabGiven
<1>4. t \in Authors
  BY <1>2, <1>3 DEF TabKept, SubmitWaits
<1>5. \A n \in Own(t) : n \notin arrived /\ n \notin atRisk => n \in Edited(tab[t].confirmed)
  BY <1>2, <1>3 DEF TabKept, OnTheWay
<1>6. \A n \in Numbers : edits[n].tab = t /\ n \notin atRisk =>
        tab[t].confirmed[edits[n].block] >= n
  BY <1>2, <1>3 DEF TabKept, Newest
<1> QED
  BY <1>1, <1>2, <1>3, <1>4, <1>5, <1>6, SendKeeps
----------------------------------------------------------------------------
(* The server *)

(* What the server does to a request under way. *)
LEMMA HandleKeeps ==
  ASSUME Inv, NEW t \in Tabs, NEW r \in Slots, NEW q \in GivenRequest,
         r \in Waiting(t), Puts(t, r, q), ServerTyped', TabsTyped',
         UNCHANGED <<tab, edits, atRisk>>,
         arrived \subseteq arrived', arrived' \subseteq Numbers,
         q.stage = "answered" \/ (q.stage = "loaded" /\ q.kind # "submit"),
         q.kind = request[t][r].kind,
         q.stage = "answered" => Edited(q.data) \subseteq arrived',
         \A n \in Own(t) : n \notin arrived' /\ n \notin atRisk =>
           IF q.stage = "loaded" THEN n \in Edited(q.data) ELSE ~q.ok,
         \A n \in Numbers : edits[n].tab = t /\ n \notin atRisk =>
           (q.stage = "loaded" \/ (q.ok /\ q.kind # "autosave")
              => q.data[edits[n].block] >= n)
  PROVE  Inv'
<1>1. /\ EditsTyped /\ Numbers' = Numbers /\ TabKept(t)
      /\ atRisk \subseteq Numbers
  BY DEF Inv, Typed, EditsTyped, Numbers
<1>2. Waiting(t)' = Waiting(t) /\ Waiting(t) \subseteq Slots
  BY DEF Puts, Waiting
<1>3. request'[t][r] = q /\ \A s \in Slots \ {r} : request'[t][s] = request[t][s]
  BY DEF Puts
<1>4. \A s \in Slots \ {r} : UnderWay(t, s)' <=> UnderWay(t, s)
  BY <1>3 DEF UnderWay
<1>5. UnderWay(t, r)' <=> q.stage = "loaded"
  BY <1>3 DEF UnderWay
<1>6. SubmitWaits(t)'
  BY <1>1, <1>2, <1>3 DEF TabKept, SubmitWaits
<1>7. AnswersArrived(t)'
  BY <1>1, <1>2, <1>3 DEF TabKept, AnswersArrived, Edited
<1>8. Own(t)' = Own(t)
  BY DEF Own, Edited
<1>9. \A n : Noticed(t, n) => Noticed(t, n)'
  BY <1>2, <1>3 DEF Noticed, Shown
<1>10. OnTheWay(t)'
  <2> SUFFICES ASSUME NEW n \in Own(t), n \notin arrived', n \notin atRisk
               PROVE  /\ \A s \in Waiting(t) :
                          \/ UnderWay(t, s)' /\ n \in Edited(request'[t][s].data)
                          \/ request'[t][s].stage = "answered" /\ ~request'[t][s].ok
                      /\ tab[t].at = "confirming" => n \in Edited(tab[t].confirmed)
                      /\ Noticed(t, n)'
    BY <1>2, <1>8 DEF OnTheWay, Edited
  <2>1. /\ \A s \in Waiting(t) :
             \/ UnderWay(t, s) /\ n \in Edited(request[t][s].data)
             \/ request[t][s].stage = "answered" /\ ~request[t][s].ok
        /\ tab[t].at = "confirming" => n \in Edited(tab[t].confirmed)
        /\ Noticed(t, n)
    BY <1>1 DEF TabKept, OnTheWay
  <2>2. IF q.stage = "loaded" THEN n \in Edited(q.data) ELSE ~q.ok
    OBVIOUS
  <2>3. \A s \in Waiting(t) :
          \/ UnderWay(t, s)' /\ n \in Edited(request'[t][s].data)
          \/ request'[t][s].stage = "answered" /\ ~request'[t][s].ok
    BY <1>2, <1>3, <1>4, <1>5, <2>1, <2>2
  <2> QED
    BY <1>9, <2>1, <2>3
<1>11. Newest(t)'
  BY <1>1, <1>2, <1>3, <1>4, <1>5 DEF TabKept, Newest
<1> QED
  <2>1. \A u \in Tabs \ {t}, s \in Slots : request'[u][s] = request[u][s]
    BY DEF Puts
  <2> QED
    BY <1>1, <1>6, <1>7, <1>10, <1>11, <2>1, StepKeeps DEF TabKept

(* A refused request leaves the screen to save again. *)
LEMMA RefusedKeeps ==
  ASSUME Inv, NEW t \in Tabs, NEW r \in Slots, r \in Waiting(t), request' = Refused(t, r),
         UNCHANGED <<tab, edits, atRisk>>, ServerTyped',
         arrived \subseteq arrived', arrived' \subseteq Numbers
  PROVE  Inv'
<1>1. /\ TabsTyped'
      /\ \E q \in GivenRequest :
           /\ Puts(t, r, q)
           /\ q.stage = "answered" /\ ~q.ok /\ q.data = Empty
           /\ q.kind = request[t][r].kind
  BY RefusedPuts
<1>2. PICK q \in GivenRequest :
        /\ Puts(t, r, q)
        /\ q.stage = "answered" /\ ~q.ok /\ q.data = Empty
        /\ q.kind = request[t][r].kind
  BY <1>1
<1>3. Edited(q.data) = {}
  BY <1>2, ViewEdited
<1> QED
  BY <1>1, <1>2, <1>3, HandleKeeps

(* An accepted one has brought every edit that was on its way. *)
LEMMA AcceptedKeeps ==
  ASSUME Inv, NEW t \in Tabs, NEW r \in Slots, UnderWay(t, r), r \in Waiting(t),
         NEW answers \in Given,
         request' = Accepted(t, r, answers), UNCHANGED <<tab, edits, atRisk>>,
         ServerTyped', arrived' = arrived \cup Edited(request[t][r].data),
         Edited(answers) \subseteq arrived',
         \A n \in Numbers : edits[n].tab = t => answers[edits[n].block] = request[t][r].data[edits[n].block]
  PROVE  Inv'
<1>1. /\ TabsTyped'
      /\ \E q \in GivenRequest :
           /\ Puts(t, r, q)
           /\ q.stage = "answered" /\ q.ok
           /\ q.data = IF q.kind = "autosave" THEN Empty ELSE answers
           /\ q.kind = request[t][r].kind
  BY AcceptedPuts
<1>2. PICK q \in GivenRequest :
        /\ Puts(t, r, q)
        /\ q.stage = "answered" /\ q.ok
        /\ q.data = IF q.kind = "autosave" THEN Empty ELSE answers
        /\ q.kind = request[t][r].kind
  BY <1>1
<1>3. Edited(q.data) \subseteq arrived'
  BY <1>2, ViewEdited
<1>4. TabKept(t) /\ request[t][r].data \in Given /\ arrived' \subseteq Numbers
  BY RequestGiven, EditedNumbers DEF Inv, Typed, EditsTyped
<1>5. \A n \in Own(t) : n \in arrived' \/ n \in atRisk
  BY <1>4 DEF TabKept, OnTheWay, UnderWay
<1>6. \A n \in Numbers : edits[n].tab = t /\ n \notin atRisk =>
        (q.stage = "loaded" \/ (q.ok /\ q.kind # "autosave") => q.data[edits[n].block] >= n)
  BY <1>2, <1>4 DEF TabKept, Newest
<1> QED
  BY <1>1, <1>2, <1>3, <1>4, <1>5, <1>6, HandleKeeps

(* The server looks at the draft without a lock and refuses one that is submitted. *)
LEMMA LoadDraftKeeps ==
  ASSUME Inv, NEW t \in Tabs, NEW r \in Slots, LoadDraft(t, r)
  PROVE  Inv'
<1>1. /\ request[t][r].stage = "sent" /\ request[t][r].kind # "submit"
      /\ UNCHANGED <<server, tab, failures, history>>
      /\ request' = IF status = "draft"
                    THEN [request EXCEPT ![t][r].stage = "loaded"] ELSE Refused(t, r)
  BY DEF LoadDraft
<1>2. r \in Waiting(t) /\ UnderWay(t, r) /\ TabKept(t)
  BY <1>1 DEF Waiting, UnderWay, Inv
<1>3. ServerTyped' /\ arrived \subseteq Numbers
  BY <1>1, SameEdits DEF Inv, Typed, EditsTyped, ServerTyped, Edited, server, history
<1>4. CASE status = "draft"
  <2> DEFINE q == [request[t][r] EXCEPT !.stage = "loaded"]
  <2>1. request[t][r] \in GivenRequest
    BY RequestGiven DEF Inv, Typed
  <2>2. /\ q \in GivenRequest /\ q.stage = "loaded" /\ q.kind = request[t][r].kind
        /\ q.data = request[t][r].data
    BY <2>1 DEF GivenRequest
  <2>3. request' = [request EXCEPT ![t][r] = q]
    BY <1>1, <1>4, <2>1 DEF Inv, Typed, TabsTyped, GivenRequest
  <2> HIDE DEF q
  <2>4. tab' \in [Tabs -> GivenTab] /\ UNCHANGED edits
    BY <1>1 DEF Inv, Typed, TabsTyped, history
  <2>5. Puts(t, r, q) /\ TabsTyped'
    BY <2>2, <2>3, <2>4, RequestSet
  <2>6. \A n \in Own(t) : n \notin arrived /\ n \notin atRisk => n \in Edited(q.data)
    BY <1>1, <1>2, <2>2 DEF TabKept, OnTheWay
  <2>7. \A n \in Numbers : edits[n].tab = t /\ n \notin atRisk => q.data[edits[n].block] >= n
    BY <1>2, <2>2 DEF TabKept, Newest
  <2> QED
    BY <1>1, <1>2, <1>3, <2>2, <2>5, <2>6, <2>7, HandleKeeps DEF history
<1>5. CASE status # "draft"
  BY <1>1, <1>2, <1>3, <1>5, RefusedKeeps DEF history
<1> QED
  BY <1>4, <1>5

(* A request or its answer is lost: its tab hears of a failure. *)
LEMMA LoseKeeps ==
  ASSUME Inv, NEW t \in Tabs, NEW r \in Slots, Lose(t, r)
  PROVE  Inv'
<1>1. /\ failures < MaxFailures /\ failures' = failures + 1
      /\ request[t][r].stage \in {"sent", "answered"}
      /\ request' = Refused(t, r) /\ UNCHANGED <<server, tab, history>>
  BY DEF Lose
<1>2. r \in Waiting(t)
  BY <1>1 DEF Waiting
<1>3. failures' \in 0..MaxFailures
  BY <1>1, EditorAssumption DEF Inv, Typed, ServerTyped
<1>4. ServerTyped' /\ arrived \subseteq Numbers
  BY <1>1, <1>3, SameEdits DEF Inv, Typed, EditsTyped, ServerTyped, Edited, server, history
<1> QED
  BY <1>1, <1>2, <1>4, RefusedKeeps DEF history

(* The block of a tab's own edit is one its user may edit. *)
LEMMA SaveDraftKeeps ==
  ASSUME Inv, NEW t \in Tabs, NEW r \in Slots, SaveDraft(t, r)
  PROVE  Inv'
<1> DEFINE data == request[t][r].data
<1>1. /\ request[t][r].stage = "loaded"
      /\ saved' = Merge(t, data)
      /\ arrived' = arrived \cup Edited(data)
      /\ request' = Accepted(t, r, View(t)')
      /\ UNCHANGED <<status, version, tab, failures, edits, atRisk>>
  BY DEF SaveDraft
<1>2. r \in Waiting(t) /\ UnderWay(t, r)
  BY <1>1 DEF Waiting, UnderWay
<1>3. EditsTyped /\ ServerTyped /\ data \in Given /\ saved \in Given /\ Given' = Given
  BY <1>1, RequestGiven DEF Inv, Typed, ServerTyped, Given
<1>4. Merge(t, data) \in Given /\ arrived' \subseteq Numbers
  BY <1>1, <1>3, MergeGiven, EditedNumbers DEF EditsTyped
<1>5. Edited(saved') \subseteq arrived'
  BY <1>1, <1>3, MergeEdited DEF ServerTyped
<1>6. ServerTyped'
  BY <1>1, <1>3, <1>4, <1>5 DEF ServerTyped, Edited
<1> DEFINE shown == [b \in Blocks |-> IF b \in Permitted(t) THEN saved'[b] ELSE 0]
<1>7. View(t)' = shown
  BY DEF View, Permitted
<1>8. shown \in Given
  <2>1. Len(edits) \in Nat /\ saved' \in Given
    BY <1>1, <1>3, <1>4 DEF EditsTyped
  <2> QED
    BY <2>1 DEF Given
<1>9. Edited(shown) \subseteq arrived'
  BY <1>5 DEF Edited
<1>10. \A b \in Blocks : b \in Permitted(t) => shown[b] = data[b]
  BY <1>1 DEF Merge
<1>11. \A n \in Numbers : edits[n].tab = t =>
         edits[n].block \in Blocks /\ edits[n].block \in Permitted(t)
  BY <1>3, EditGiven DEF EditsTyped
<1>12. \A n \in Numbers : edits[n].tab = t => shown[edits[n].block] = data[edits[n].block]
  BY <1>10, <1>11
<1> HIDE DEF shown
<1> QED
  BY <1>1, <1>2, <1>6, <1>7, <1>8, <1>9, <1>12, AcceptedKeeps

(* What is submitted are the answers of a request, and an author's. *)
LEMMA SubmitKeeps ==
  ASSUME Inv, NEW t \in Tabs, NEW r \in Slots, Submit(t, r)
  PROVE  Inv'
<1> DEFINE data == request[t][r].data
<1>1. /\ request[t][r].stage = "sent" /\ request[t][r].kind = "submit"
      /\ UNCHANGED <<tab, failures, edits, atRisk>>
      /\ \/ /\ status = "draft" /\ saved' = data
            /\ arrived' = arrived \cup Edited(data)
            /\ \/ /\ status' = "submitted"
                  /\ version' = [by |-> t, data |-> data]
                  /\ request' = Accepted(t, r, data)
               \/ request' = Refused(t, r) /\ UNCHANGED <<status, version>>
         \/ request' = Refused(t, r) /\ UNCHANGED <<server, arrived>>
  BY DEF Submit
<1>2. r \in Waiting(t) /\ UnderWay(t, r)
  BY <1>1 DEF Waiting, UnderWay
<1>3. /\ EditsTyped /\ ServerTyped /\ data \in Given /\ Given' = Given
      /\ arrived \subseteq Numbers
  BY <1>1, RequestGiven DEF Inv, Typed, Given, EditsTyped
<1>4. arrived \cup Edited(data) \subseteq Numbers
  BY <1>3, EditedNumbers
<1>5. CASE saved' = data /\ arrived' = arrived \cup Edited(data)
           /\ status' = "submitted" /\ version' = [by |-> t, data |-> data]
           /\ request' = Accepted(t, r, data)
  <2>1. t \in Authors
    BY <1>1, <1>2 DEF Inv, TabKept, SubmitWaits
  <2>2. ServerTyped'
    BY <1>1, <1>3, <1>5, <2>1 DEF ServerTyped, Edited
  <2> QED
    BY <1>1, <1>2, <1>3, <1>5, <2>2, AcceptedKeeps
<1>6. CASE saved' = data /\ arrived' = arrived \cup Edited(data)
           /\ request' = Refused(t, r) /\ UNCHANGED <<status, version>>
  <2>1. ServerTyped'
    BY <1>1, <1>3, <1>6 DEF ServerTyped, Edited
  <2> QED
    BY <1>1, <1>2, <1>4, <1>6, <2>1, RefusedKeeps
<1>7. CASE request' = Refused(t, r) /\ UNCHANGED <<server, arrived>>
  <2>1. ServerTyped'
    BY <1>1, <1>3, <1>7 DEF ServerTyped, Edited, server
  <2> QED
    BY <1>1, <1>2, <1>3, <1>7, <2>1, RefusedKeeps
<1> QED
  BY <1>1, <1>5, <1>6, <1>7
----------------------------------------------------------------------------
(* The answer *)

(* The edits a screen takes for saved when it is answered are at the server, *)
(* or at risk; after a refused submission it stays as it was.                *)
LEMMA AnsweredKeeps ==
  ASSUME Inv, NEW t \in Tabs, NEW r \in Slots, NEW x \in GivenTab,
         request[t][r].stage = "answered",
         request' = [request EXCEPT ![t][r] = NoRequest],
         tab' = [tab EXCEPT ![t] = x],
         UNCHANGED <<server, failures, edits, arrived>>,
         atRisk \subseteq atRisk', atRisk' \subseteq Numbers,
         x.confirmed = tab[t].confirmed,
         \/ x.form = tab[t].form
         \/ x.form = request[t][r].data /\ request[t][r].ok /\ request[t][r].kind # "autosave",
         x.at = tab[t].at \/ x.at \in {"left", "stepcode"},
         \/ Own(t) \subseteq arrived \cup atRisk'
         \/ x = tab[t] /\ request[t][r].kind = "submit"
  PROVE  Inv'
<1>1. /\ EditsTyped /\ arrived \subseteq Numbers /\ Numbers' = Numbers /\ TabKept(t)
      /\ NoRequest \in GivenRequest /\ NoRequest.stage = "none"
  <2>1. Empty \in Given
    BY MergeGiven DEF Inv, Typed, ServerTyped
  <2>2. NoRequest \in GivenRequest /\ NoRequest.stage = "none"
    BY <2>1 DEF NoRequest, GivenRequest, Kinds
  <2> QED
    BY <2>2 DEF Inv, Typed, EditsTyped, Numbers
<1>2. /\ tab' \in [Tabs -> GivenTab] /\ tab'[t] = x
      /\ \A u \in Tabs \ {t} : tab'[u] = tab[u]
  BY TabSet
<1>3. Puts(t, r, NoRequest) /\ TabsTyped'
  BY <1>1, <1>2, RequestSet
<1>4. ServerTyped'
  BY <1>1, SameEdits DEF Inv, Typed, EditsTyped, ServerTyped, Edited, server
<1>5. r \in Waiting(t) /\ Waiting(t)' = Waiting(t) \ {r} /\ Waiting(t) \subseteq Slots
  BY <1>1, <1>3 DEF Puts, Waiting
<1>6. \A s \in Waiting(t)' :
        request'[t][s] = request[t][s] /\ (UnderWay(t, s)' <=> UnderWay(t, s))
  BY <1>3, <1>5 DEF Puts, UnderWay
<1>7. SubmitWaits(t)'
  BY <1>1, <1>2, <1>5, <1>6 DEF TabKept, SubmitWaits
<1>8. AnswersArrived(t)'
  BY <1>1, <1>5, <1>6 DEF TabKept, AnswersArrived, Edited
<1>9. OnTheWay(t)'
  <2>1. CASE Own(t) \subseteq arrived \cup atRisk'
    <3>1. Own(t)' \subseteq arrived \cup atRisk'
      <4>1. CASE x.form = tab[t].form
        BY <1>2, <2>1, <4>1 DEF Own, Edited
      <4>2. CASE x.form = request[t][r].data
        <5>1. Edited(request[t][r].data) \subseteq arrived
          BY <1>1, <1>5 DEF TabKept, AnswersArrived
        <5> QED
          BY <1>2, <4>2, <5>1 DEF Own, Edited
      <4> QED
        BY <4>1, <4>2
    <3> QED
      BY <3>1 DEF OnTheWay
  <2>2. CASE x = tab[t] /\ request[t][r].kind = "submit"
    <3>1. Own(t)' = Own(t)
      BY <1>2, <2>2 DEF Own, Edited
    <3>2. \A n : Noticed(t, n) => Noticed(t, n)'
      BY <1>2, <1>5, <1>6, <2>2 DEF Noticed, Shown
    <3> SUFFICES ASSUME NEW n \in Own(t), n \notin arrived, n \notin atRisk'
                 PROVE  /\ \A s \in Waiting(t)' :
                            \/ UnderWay(t, s)' /\ n \in Edited(request'[t][s].data)
                            \/ request'[t][s].stage = "answered" /\ ~request'[t][s].ok
                        /\ tab'[t].at = "confirming" => n \in Edited(tab'[t].confirmed)
                        /\ Noticed(t, n)'
      BY <3>1 DEF OnTheWay, Edited
    <3>3. /\ \A s \in Waiting(t) :
               \/ UnderWay(t, s) /\ n \in Edited(request[t][s].data)
               \/ request[t][s].stage = "answered" /\ ~request[t][s].ok
          /\ tab[t].at = "confirming" => n \in Edited(tab[t].confirmed)
          /\ Noticed(t, n)
      BY <1>1 DEF TabKept, OnTheWay
    <3> QED
      BY <1>2, <1>5, <1>6, <2>2, <3>2, <3>3
  <2> QED
    BY <2>1, <2>2
<1>10. Newest(t)'
  <2> SUFFICES ASSUME NEW n \in Numbers, edits[n].tab = t, n \notin atRisk'
               PROVE  /\ x.at # "closed"
                      /\ x.form[edits[n].block] >= n
                      /\ x.at = "confirming" => x.confirmed[edits[n].block] >= n
                      /\ \A s \in Waiting(t)' :
                           UnderWay(t, s)' \/ (request'[t][s].ok /\ request'[t][s].kind # "autosave")
                             => request'[t][s].data[edits[n].block] >= n
    BY <1>1, <1>2 DEF Newest
  <2>1. /\ tab[t].at # "closed"
        /\ tab[t].form[edits[n].block] >= n
        /\ tab[t].at = "confirming" => tab[t].confirmed[edits[n].block] >= n
        /\ \A s \in Waiting(t) :
             UnderWay(t, s) \/ (request[t][s].ok /\ request[t][s].kind # "autosave")
               => request[t][s].data[edits[n].block] >= n
    BY <1>1 DEF TabKept, Newest
  <2> QED
    BY <1>5, <1>6, <2>1
<1> QED
  <2>1. \A u \in Tabs \ {t}, s \in Slots : request'[u][s] = request[u][s]
    BY <1>3 DEF Puts
  <2> QED
    BY <1>1, <1>2, <1>3, <1>4, <1>7, <1>8, <1>9, <1>10, <2>1, StepKeeps DEF TabKept

(* When a save has succeeded, its tab's edits are at the server or at risk.  *)
LEMMA NothingLeft ==
  ASSUME Inv, NEW t \in Tabs, NEW r \in Slots,
         request[t][r].stage = "answered", request[t][r].ok
  PROVE  Own(t) \subseteq arrived \cup atRisk
<1>1. r \in Waiting(t) /\ ~UnderWay(t, r)
  BY DEF Waiting, UnderWay
<1>2. OnTheWay(t)
  BY DEF Inv, TabKept
<1> QED
  BY <1>1, <1>2 DEF OnTheWay

(* The answer to a save, with what follows the yield. *)
LEMMA SaveAnsweredKeeps ==
  ASSUME Inv, NEW t \in Tabs, NEW r \in Slots, SaveAnswered(t, r)
  PROVE  Inv'
<1> DEFINE req == request[t][r]
           form == FormAfter(t, req)
           x == IF ~Mounted(t) THEN tab[t]
                ELSE IF Leaves(req) THEN Gone(t, req.kind, form)
                ELSE [tab[t] EXCEPT !.form = form, !.pristine = TRUE, !.isDirty = FALSE]
<1>1. /\ req.stage = "answered" /\ req.kind # "submit"
      /\ atRisk' = IF req.ok THEN atRisk ELSE atRisk \cup Edited(tab[t].form)
      /\ request' = [request EXCEPT ![t][r] = NoRequest]
      /\ UNCHANGED <<server, failures, edits, arrived>>
  BY DEF SaveAnswered
<1>2. tab' = [tab EXCEPT ![t] = x]
  BY DEF SaveAnswered
<1>3. /\ tab[t] \in GivenTab /\ tab[t].form \in Given /\ tab[t].confirmed \in Given
      /\ tab[t].at \in Screens /\ TabKept(t)
  BY TabGiven
<1>4. req.data \in Given
  BY RequestGiven DEF Inv, Typed
<1>5. /\ form \in Given
      /\ form = tab[t].form \/ (form = req.data /\ req.ok /\ req.kind # "autosave")
  BY <1>3, <1>4 DEF FormAfter
<1>6. atRisk \subseteq atRisk' /\ atRisk' \subseteq Numbers
  BY <1>1, <1>3, EditedNumbers DEF Inv, Typed, EditsTyped
<1>7. Own(t) \subseteq arrived \cup atRisk'
  <2>1. CASE req.ok
    BY <1>1, <2>1, NothingLeft
  <2>2. CASE ~req.ok
    BY <1>1, <2>2 DEF Own
  <2> QED
    BY <2>1, <2>2
<1> HIDE DEF form, req
<1>8. /\ x \in GivenTab
      /\ x.confirmed = tab[t].confirmed
      /\ x.form = tab[t].form \/ x.form = form
      /\ x.at = tab[t].at \/ x.at \in {"left", "stepcode"}
  <2>1. CASE ~Mounted(t)
    BY <1>3, <2>1
  <2>2. CASE Mounted(t) /\ Leaves(req)
    BY <1>3, <1>5, <2>2 DEF Gone, GivenTab, Screens
  <2>3. CASE Mounted(t) /\ ~Leaves(req)
    BY <1>3, <1>5, <2>3 DEF GivenTab
  <2> QED
    BY <2>1, <2>2, <2>3
<1> HIDE DEF x
<1> QED
  BY <1>1, <1>2, <1>5, <1>6, <1>7, <1>8, AnsweredKeeps DEF req

(* The answer to a submission. *)
LEMMA SubmitAnsweredKeeps ==
  ASSUME Inv, NEW t \in Tabs, NEW r \in Slots, SubmitAnswered(t, r)
  PROVE  Inv'
<1> DEFINE req == request[t][r]
           form == FormAfter(t, req)
           x == IF req.ok THEN Gone(t, "submit", form) ELSE tab[t]
<1>1. /\ req.stage = "answered" /\ req.kind = "submit"
      /\ request' = [request EXCEPT ![t][r] = NoRequest]
      /\ UNCHANGED <<server, failures, history>>
  BY DEF SubmitAnswered
<1>2. tab' = [tab EXCEPT ![t] = x]
  BY DEF SubmitAnswered
<1>3. /\ tab[t] \in GivenTab /\ tab[t].form \in Given /\ tab[t].confirmed \in Given
      /\ TabKept(t) /\ atRisk \subseteq Numbers
  BY TabGiven DEF Inv, Typed, EditsTyped
<1>4. req.data \in Given
  BY RequestGiven DEF Inv, Typed
<1>5. /\ form \in Given
      /\ form = tab[t].form \/ (form = req.data /\ req.ok /\ req.kind # "autosave")
  BY <1>3, <1>4 DEF FormAfter
<1>6. req.ok => Own(t) \subseteq arrived \cup atRisk'
  BY <1>1, NothingLeft DEF history
<1> HIDE DEF form, req
<1>7. /\ x \in GivenTab
      /\ x.confirmed = tab[t].confirmed
      /\ x.form = tab[t].form \/ x.form = form
      /\ x.at = tab[t].at \/ x.at \in {"left", "stepcode"}
      /\ req.ok \/ x = tab[t]
  <2>1. CASE req.ok
    BY <1>3, <1>5, <2>1 DEF Gone, GivenTab, Screens
  <2>2. CASE ~req.ok
    BY <1>3, <2>2
  <2> QED
    BY <2>1, <2>2
<1> HIDE DEF x
<1> QED
  BY <1>1, <1>2, <1>3, <1>5, <1>6, <1>7, AnsweredKeeps DEF req, history
----------------------------------------------------------------------------
(* The invariant of every behaviour *)

(* At first nobody has entered anything. *)
LEMMA InitKept ==
  ASSUME Init
  PROVE  Inv
<1>1. Len(edits) = 0 /\ Numbers = {} /\ edits \in Seq(EditRecord)
      /\ MaxEdits \in Nat /\ MaxFailures \in Nat
  BY EditorAssumption DEF Init, Numbers
<1>2. EditsTyped
  BY <1>1 DEF Init, EditsTyped
<1>3. Empty \in Given
  BY <1>1 DEF Empty, Given
<1>4. Edited(Empty) = {}
  BY ViewEdited
<1>5. ServerTyped
  BY <1>1, <1>3, <1>4 DEF Init, ServerTyped, NoVersion
<1>6. ClosedTab \in GivenTab /\ ClosedTab.at = "closed" /\ ClosedTab.form = Empty
  BY <1>3 DEF ClosedTab, GivenTab, Screens
<1>7. NoRequest \in GivenRequest /\ NoRequest.stage = "none"
  BY <1>3 DEF NoRequest, GivenRequest, Kinds
<1>8. TabsTyped
  BY <1>6, <1>7 DEF Init, TabsTyped
<1>9. ASSUME NEW t \in Tabs PROVE TabKept(t)
  <2>1. Waiting(t) = {} /\ tab[t].at = "closed" /\ Own(t) = {}
    BY <1>4, <1>6, <1>7 DEF Init, Waiting, Own
  <2> QED
    BY <1>1, <2>1 DEF TabKept, SubmitWaits, AnswersArrived, OnTheWay, Newest
<1> QED
  BY <1>2, <1>5, <1>8, <1>9 DEF Inv, Typed

(* Without a step nothing changes. *)
LEMMA StutterKeeps ==
  ASSUME Inv, UNCHANGED vars
  PROVE  Inv'
<1>1. UNCHANGED <<status, saved, version, tab, request, failures, edits, arrived, atRisk>>
  BY DEF vars, server, history
<1>2. /\ EditsTyped' /\ Numbers' = Numbers /\ Given' = Given
      /\ GivenTab' = GivenTab /\ GivenRequest' = GivenRequest
  BY <1>1, SameEdits DEF Inv, Typed, EditsTyped
<1>3. ServerTyped' /\ TabsTyped'
  BY <1>1, <1>2 DEF Inv, Typed, ServerTyped, TabsTyped, Edited
<1>4. \A u \in Tabs : TabKept(u)'
  BY <1>1, <1>2, OthersKept DEF Inv
<1> QED
  BY <1>2, <1>3, <1>4 DEF Inv, Typed

(* Every step keeps the invariant. *)
LEMMA NextKeeps ==
  ASSUME Inv, Next
  PROVE  Inv'
<1>1. PICK t \in Tabs : Screen(t) \/ \E r \in Slots : Handle(t, r) \/ Lose(t, r)
  BY DEF Next
<1>2. CASE Screen(t)
  <2>1. CASE Open(t)
    BY <2>1, OpenKeeps
  <2>2. CASE \E b \in Blocks, how \in {"typed", "filled", "attached"} : Edit(t, b, how)
    BY <2>2, EditKeeps
  <2>3. CASE \E kind \in {"autosave", "save", "finishLater", "stepcode"} : HandleSave(t, kind)
    BY <2>3, HandleSaveKeeps
  <2>4. CASE \E kind \in {"finishLater", "stepcode"} : LeaveUnsaved(t, kind)
    BY <2>4, LeaveKeeps
  <2>5. CASE OnFormSubmit(t) \/ CancelSubmit(t)
    BY <2>5, ConfirmKeeps
  <2>6. CASE OnModalSubmit(t)
    BY <2>6, ModalSubmitKeeps
  <2> QED
    BY <1>2, <2>1, <2>2, <2>3, <2>4, <2>5, <2>6 DEF Screen
<1>3. ASSUME NEW r \in Slots, Handle(t, r) PROVE Inv'
  <2>1. CASE LoadDraft(t, r)
    BY <2>1, LoadDraftKeeps
  <2>2. CASE SaveDraft(t, r)
    BY <2>2, SaveDraftKeeps
  <2>3. CASE Submit(t, r)
    BY <2>3, SubmitKeeps
  <2>4. CASE SaveAnswered(t, r)
    BY <2>4, SaveAnsweredKeeps
  <2>5. CASE SubmitAnswered(t, r)
    BY <2>5, SubmitAnsweredKeeps
  <2> QED
    BY <1>3, <2>1, <2>2, <2>3, <2>4, <2>5 DEF Handle
<1>4. ASSUME NEW r \in Slots, Lose(t, r) PROVE Inv'
  BY <1>4, LoseKeeps
<1> QED
  BY <1>1, <1>2, <1>3, <1>4

(* So it always holds. *)
LEMMA AlwaysInv == Spec => []Inv
<1>1. Init => Inv
  BY InitKept
<1>2. Inv /\ [Next]_vars => Inv'
  BY NextKeeps, StutterKeeps
<1> QED
  BY <1>1, <1>2, PTL DEF Spec

(* Every variable of the screen, the server and the requests keeps its type:  *)
(* above all, whoever submitted is an author, although any tab may be waiting *)
(* on a confirmation when the answer to another of its requests arrives.      *)
THEOREM TypeCorrect == Spec => []TypeOK
<1>1. ASSUME Inv PROVE TypeOK
  <2>1. Len(edits) \in 0..MaxEdits /\ DOMAIN edits = Numbers /\ MaxEdits \in Nat
    BY <1>1, EditorAssumption DEF Inv, Typed, EditsTyped, Numbers
  <2>2. Given \subseteq Answers
    BY <2>1 DEF Given, Answers
  <2>3. tab \in [Tabs -> Tab]
    <3>1. GivenTab \subseteq Tab
      BY <2>2 DEF GivenTab, Tab
    <3> QED
      BY <1>1, <3>1 DEF Inv, Typed, TabsTyped
  <2>4. ASSUME NEW t \in Tabs PROVE request[t] \in [Slots -> Request \cup {NoRequest}]
    <3>1. ASSUME NEW r \in Slots PROVE request[t][r] \in Request \cup {NoRequest}
      <4>1. request[t][r] \in GivenRequest
            /\ (request[t][r].stage = "none" => request[t][r] = NoRequest)
        BY <1>1 DEF Inv, Typed, TabsTyped
      <4>2. request[t][r].stage # "none" => request[t][r] \in Request
        BY <2>2, <4>1 DEF GivenRequest, Request
      <4> QED
        BY <4>1, <4>2
    <3> QED
      BY <1>1, <3>1 DEF Inv, Typed, TabsTyped
  <2> QED
    BY <1>1, <2>1, <2>2, <2>3, <2>4 DEF Inv, Typed, EditsTyped, ServerTyped, TypeOK
<1> QED
  BY <1>1, AlwaysInv, PTL

(* Whatever the order in which saves are sent, merged, lost and answered, a   *)
(* screen at rest holds no edit of its own that the server never had, except  *)
(* those made during a save or whose save failed, and contacts filled in      *)
(* before a step code button (handleSave, update).                            *)
THEOREM EditsAlwaysReach == Spec => []EditsReachServer
<1>1. ASSUME Inv PROVE EditsReachServer
  <2> SUFFICES ASSUME NEW t \in Tabs, AtRest(t), NEW n \in Own(t) \ (arrived \cup atRisk)
               PROVE  tab[t].at = "stepcode" /\ edits[n].how = "filled"
    BY DEF EditsReachServer
  <2>1. Noticed(t, n)
    BY <1>1 DEF Inv, TabKept, OnTheWay
  <2> QED
    BY <2>1 DEF AtRest, Noticed, Shown
<1> QED
  BY <1>1, AlwaysInv, PTL

(* However saves of several tabs overlap, a save writes over a newer answer   *)
(* only in a block its user may edit, and never over one its own user gave    *)
(* before that save was sent with no other under way (update_with_submission_ *)
(* data_merge).                                                               *)
THEOREM NothingReverted == Spec => NoSilentRevert
<1>1. ASSUME Inv, NEW t \in Tabs, NEW r \in Slots, NEW b \in Blocks,
             SaveDraft(t, r), saved'[b] < saved[b]
      PROVE  b \in Permitted(t) /\ (edits[saved[b]].tab # t \/ saved[b] \in atRisk)
  <2> DEFINE data == request[t][r].data
             n == saved[b]
  <2>1. request[t][r].stage = "loaded" /\ saved' = Merge(t, data)
    BY <1>1 DEF SaveDraft
  <2>2. EditsTyped /\ saved \in Given /\ data \in Given /\ TabKept(t)
    BY <1>1, RequestGiven DEF Inv, Typed, ServerTyped
  <2>3. saved'[b] = IF b \in Permitted(t) THEN data[b] ELSE n
    BY <2>1 DEF Merge
  <2>4. n \in Nat /\ data[b] \in Nat /\ (n # 0 => n \in Numbers /\ edits[n].block = b)
    BY <2>2, EditedNumbers
  <2>5. r \in Waiting(t) /\ UnderWay(t, r)
    BY <2>1 DEF Waiting, UnderWay
  <2> HIDE DEF data, n
  <2>6. b \in Permitted(t) /\ data[b] < n /\ n \in Numbers /\ edits[n].block = b
    BY <1>1, <2>3, <2>4 DEF n
  <2>7. edits[n].tab = t /\ n \notin atRisk => data[b] >= n
    BY <2>2, <2>5, <2>6 DEF TabKept, Newest, data
  <2> QED
    BY <2>4, <2>6, <2>7 DEF n
<1>2. Inv /\ [Next]_vars =>
        [\A t \in Tabs : \A r \in Slots, b \in Blocks :
           SaveDraft(t, r) /\ saved'[b] < saved[b] =>
             /\ b \in Permitted(t)
             /\ edits[saved[b]].tab # t \/ saved[b] \in atRisk]_vars
  BY <1>1
<1> QED
  BY <1>2, AlwaysInv, PTL DEF Spec, NoSilentRevert

(* The submission version holds the answers its author confirmed last, and it *)
(* is written once, whatever is saved meanwhile (handleSubmit, submit).       *)
THEOREM SubmissionsConfirmed == Spec => SubmittedAsConfirmed
<1>1. ASSUME Inv, Next, version' # version
      PROVE  version = NoVersion /\ version'.data = tab[version'.by].confirmed
  <2>1. PICK t \in Tabs, r \in Slots : Submit(t, r)
    <3>1. PICK t \in Tabs : Screen(t) \/ \E r \in Slots : Handle(t, r) \/ Lose(t, r)
      BY <1>1 DEF Next
    <3>2. ~Screen(t)
      BY <1>1 DEF Screen, Open, Edit, HandleSave, LeaveUnsaved, OnFormSubmit, CancelSubmit,
                  OnModalSubmit, server
    <3>3. \A r \in Slots : Handle(t, r) => Submit(t, r)
      BY <1>1 DEF Handle, LoadDraft, SaveDraft, SaveAnswered, SubmitAnswered, server
    <3>4. \A r \in Slots : ~Lose(t, r)
      BY <1>1 DEF Lose, server
    <3> QED
      BY <3>1, <3>2, <3>3, <3>4
  <2>2. /\ request[t][r].stage = "sent" /\ request[t][r].kind = "submit"
        /\ status = "draft" /\ version' = [by |-> t, data |-> request[t][r].data]
    BY <1>1, <2>1 DEF Submit, server
  <2>3. r \in Waiting(t)
    BY <2>2 DEF Waiting
  <2>4. request[t][r].data = tab[t].confirmed
    BY <1>1, <2>2, <2>3 DEF Inv, TabKept, SubmitWaits
  <2> QED
    BY <1>1, <2>2, <2>4 DEF Inv, Typed, ServerTyped
<1>2. Inv /\ [Next]_vars =>
        [version' # version =>
           /\ version = NoVersion
           /\ version'.data = tab[version'.by].confirmed]_vars
  BY <1>1
<1> QED
  BY <1>2, AlwaysInv, PTL DEF Spec, SubmittedAsConfirmed
============================================================================
