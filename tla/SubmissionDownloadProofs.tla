---------------------- MODULE SubmissionDownloadProofs ----------------------
(***************************************************************************)
(* The download dialog for any documents, openings and clicks: a click     *)
(* leads to one download at most, of what was selected, and one that was   *)
(* asked for before the dialog was closed is forgotten.                    *)
(***************************************************************************)
EXTENDS SubmissionDownload, FiniteSetTheorems, TLAPS

----------------------------------------------------------------------------
(* The inductive invariant *)

Post == [at : {"none", "sent", "answered"}, items : SUBSET Items]

Served == [items : SUBSET Items, times : Nat]

Typed ==
  /\ report \in States /\ view \in States /\ loaded \in BOOLEAN
  /\ fetched \in States \cup {NoFetch}
  /\ generate \in Nat
  /\ post \in [Clicks -> Post]
  /\ zipJob \in [Clicks -> {"none", "queued", "ended"}]
  /\ result \in [click : 0..MaxClicks, ok : BOOLEAN]
  /\ modal \in Modal
  /\ clicked \in [Clicks -> Click]
  /\ downloads \in [Clicks -> Served]

(* What a client believes of a report is true, or that it is missing. *)
Believable(v) == \A r \in Reports : v[r] # "missing" => v[r] = report[r]

Beliefs == Believable(view) /\ (fetched # NoFetch => Believable(fetched))

(* The dialog asks for the reports once in each of its openings, and forgets  *)
(* when it is closed.                                                         *)
Openings ==
  /\ generate <= modal.opens
  /\ modal.isOpen => modal.opens > 0
  /\ modal.isOpen /\ ~modal.triggered => generate < modal.opens
  /\ ~modal.isOpen => ~modal.triggered /\ modal.pending = NoPending

(* The clicks are numbered in order. *)
InOrder == \E k \in Nat : Asked = 1..k

(* The documents of a download are those selected, and reports. *)
AsAsked(c, items) ==
  clicked[c].items \subseteq items /\ items \ clicked[c].items \subseteq Reports

(* Asked for in the opening of the dialog that is shown, or the answer to its *)
(* request was on its way when the dialog was closed.                         *)
Current(c) ==
  \/ modal.isOpen /\ clicked[c].opening = modal.opens
  \/ clicked[c].closed

(* Where a click stands: it waits for reports, its request was sent, its zip  *)
(* file is awaited, or it was served; never two of these.                     *)
ClickKept(c) ==
  /\ clicked[c].opening = 0 =>
       post[c].at = "none" /\ downloads[c].times = 0 /\ modal.pending.click # c
  /\ post[c].at # "none" =>
       /\ AsAsked(c, post[c].items)
       /\ modal.pending.click # c
       /\ post[c].at = "sent" =>
            Current(c) /\ downloads[c].times = 0 /\ modal.requestId # c
  /\ modal.requestId = c =>
       post[c].at = "answered" /\ downloads[c].times = 0 /\ Current(c)
  /\ downloads[c].times > 0 =>
       downloads[c].times = 1 /\ AsAsked(c, downloads[c].items) /\ modal.pending.click # c

(* What a pending download waits for. *)
PendingKept ==
  modal.pending # NoPending =>
    LET p == modal.pending IN
    /\ clicked[p.click].items = p.items \cup p.missing
    /\ clicked[p.click].opening = modal.opens
    /\ \A i \in p.items \cap Reports : report[i] = "ready"
    /\ Files \subseteq p.known /\ p.known \cap p.missing = {}
    /\ p.all => Files \subseteq p.items

Inv ==
  /\ Typed /\ Beliefs /\ Openings /\ InOrder /\ PendingKept
  /\ \A c \in Clicks : ClickKept(c)

----------------------------------------------------------------------------
(* Steps that serve no click *)

(* A dialog is told apart by its fields. *)
LEMMA ModalGiven ==
  ASSUME modal \in Modal
  PROVE  /\ modal.isOpen \in BOOLEAN /\ modal.triggered \in BOOLEAN
         /\ modal.opens \in 0..MaxOpens /\ modal.opens \in Nat
         /\ modal.requestId \in 0..MaxClicks
         /\ modal.pending \in Pending \cup {NoPending}
<1>1. /\ modal.isOpen \in BOOLEAN /\ modal.triggered \in BOOLEAN
      /\ modal.opens \in 0..MaxOpens
      /\ modal.requestId \in 0..MaxClicks
      /\ modal.pending \in Pending \cup {NoPending}
  BY DEF Modal
<1> QED
  BY <1>1

(* A pending download is that of a click. *)
LEMMA PendingGiven ==
  ASSUME modal \in Modal
  PROVE  /\ modal.pending # NoPending =>
              /\ modal.pending \in Pending /\ modal.pending.click \in Clicks
              /\ modal.pending.items \subseteq Items /\ modal.pending.missing \subseteq Reports
              /\ modal.pending.known \subseteq Items /\ modal.pending.all \in BOOLEAN
         /\ NoPending.click \notin Clicks
<1>1. modal.pending \in Pending \/ modal.pending = NoPending
  BY ModalGiven
<1>2. modal.pending \in Pending =>
        /\ modal.pending.click \in Clicks
        /\ modal.pending.items \subseteq Items /\ modal.pending.missing \subseteq Reports
        /\ modal.pending.known \subseteq Items /\ modal.pending.all \in BOOLEAN
  BY DEF Pending
<1>3. NoPending.click \notin Clicks
  BY DEF NoPending, NoClick, Clicks
<1> QED
  BY <1>1, <1>2, <1>3

(* A click that a step does not concern stays where it stands. *)
LEMMA OtherClick ==
  ASSUME NEW c \in Clicks, ClickKept(c), Current(c) => Current(c)',
         clicked'[c] = clicked[c], post'[c] = post[c], downloads'[c] = downloads[c],
         modal'.pending.click # c \/ modal'.pending.click = modal.pending.click,
         modal'.requestId # c \/ modal'.requestId = modal.requestId
  PROVE  ClickKept(c)'
BY DEF ClickKept, AsAsked

(* A step that touches neither the clicks nor the downloads keeps all that is *)
(* known of them.                                                             *)
LEMMA QuietKeeps ==
  ASSUME Inv, Typed', Beliefs', Openings', UNCHANGED <<post, clicked, downloads>>,
         modal'.pending = modal.pending, modal'.requestId = modal.requestId,
         modal'.opens = modal.opens, modal'.isOpen = modal.isOpen,
         \A r \in Reports : report[r] = "ready" => report'[r] = "ready"
  PROVE  Inv'
<1>1. InOrder'
  BY DEF Inv, InOrder, Asked
<1>2. \A c \in Clicks : ClickKept(c)'
  BY OtherClick DEF Inv, Current
<1>3. PendingKept'
  <2>1. \A c \in Clicks : clicked'[c] = clicked[c]
    OBVIOUS
  <2> QED
    BY <2>1 DEF Inv, PendingKept
<1> QED
  BY <1>1, <1>2, <1>3 DEF Inv

(* The dialog's flags change, nothing else. *)
LEMMA FlagsKeep ==
  ASSUME Inv, modal' \in Modal, UNCHANGED <<server, view, post, loaded, result, clicked, downloads>>,
         modal'.pending = modal.pending, modal'.requestId = modal.requestId,
         modal'.opens = modal.opens, modal'.isOpen = modal.isOpen,
         fetched' = fetched \/ fetched' = report,
         \/ generate' = generate /\ modal'.triggered = modal.triggered
         \/ generate' = generate + 1 /\ modal.isOpen /\ ~modal.triggered /\ modal'.triggered
         \/ generate' = generate - 1 /\ generate > 0 /\ modal'.triggered = modal.triggered
  PROVE  Inv'
<1>1. Typed'
  BY DEF Inv, Typed, server
<1>2. Beliefs'
  BY DEF Inv, Beliefs, Believable, server
<1>3. Openings'
  BY ModalGiven DEF Inv, Typed, Openings
<1> QED
  BY <1>1, <1>2, <1>3, QuietKeeps DEF server

(* What the client learns about reports is true. *)
LEMMA LearnKeeps ==
  ASSUME Inv, SocketSupportingDocsUpdate \/ LoadOnOpen \/ Poll \/ FetchAnswered
  PROVE  Inv'
<1> USE DEF Inv
<1>1. CASE SocketSupportingDocsUpdate
  <2>1. view' = report /\ UNCHANGED <<server, wire, modal, clicked, downloads>>
    BY <1>1 DEF SocketSupportingDocsUpdate
  <2>2. Typed' /\ Beliefs' /\ Openings'
    BY <2>1 DEF Typed, Beliefs, Believable, Openings, server, wire
  <2> QED
    BY <2>1, <2>2, QuietKeeps DEF server, wire
<1>2. CASE LoadOnOpen
  <2>1. /\ modal' = [modal EXCEPT !.fetchAsked = TRUE] /\ fetched' = report
        /\ UNCHANGED <<server, view, loaded, generate, post, result, clicked, downloads>>
    BY <1>2 DEF LoadOnOpen, Fetch
  <2>2. /\ modal' \in Modal /\ modal'.pending = modal.pending
        /\ modal'.requestId = modal.requestId /\ modal'.opens = modal.opens
        /\ modal'.isOpen = modal.isOpen /\ modal'.triggered = modal.triggered
    BY <2>1 DEF Typed, Modal
  <2> QED
    BY <2>1, <2>2, FlagsKeep
<1>3. CASE Poll
  <2>1. /\ fetched' = report /\ modal' \in Modal
        /\ UNCHANGED <<server, view, loaded, generate, post, result, modal, clicked, downloads>>
    BY <1>3 DEF Poll, Fetch, Typed
  <2> QED
    BY <2>1, FlagsKeep
<1>4. CASE FetchAnswered
  <2>1. /\ fetched # NoFetch /\ fetched' = NoFetch
        /\ \/ view' = fetched /\ loaded' = TRUE /\ result' = NoResult
           \/ UNCHANGED <<view, loaded, result>>
        /\ UNCHANGED <<server, generate, post, modal, clicked, downloads>>
    BY <1>4 DEF FetchAnswered
  <2>2. NoResult \in [click : 0..MaxClicks, ok : BOOLEAN]
    <3>1. MaxClicks \in Nat
      BY DownloadAssumption
    <3> QED
      BY <3>1 DEF NoResult, NoClick
  <2>3. Typed' /\ Beliefs' /\ Openings'
    BY <2>1, <2>2 DEF Typed, Beliefs, Believable, Openings, server
  <2> QED
    BY <2>1, <2>3, QuietKeeps DEF server
<1> QED
  BY <1>1, <1>2, <1>3, <1>4

(* A report that becomes ready or unavailable was missing. *)
LEMMA RenderKeeps ==
  ASSUME Inv, NEW r \in Reports, RenderReport(r)
  PROVE  Inv'
<1>1. PICK s \in {"ready", "unavailable"} :
        report[r] = "missing" /\ report' = [report EXCEPT ![r] = s]
  BY DEF RenderReport
<1>2. UNCHANGED <<view, zipJob, wire, modal, clicked, downloads>>
  BY DEF RenderReport
<1>3. report' \in States /\ \A q \in Reports : report[q] # "missing" => report'[q] = report[q]
  BY <1>1 DEF Inv, Typed, States
<1>4. Typed'
  BY <1>2, <1>3 DEF Inv, Typed, wire
<1>5. Beliefs' /\ Openings'
  BY <1>2, <1>3 DEF Inv, Beliefs, Believable, Openings, wire
<1> QED
  BY <1>2, <1>3, <1>4, <1>5, QuietKeeps DEF wire

(* Asking for the reports, the answer, and the timer. *)
LEMMA GenerationKeeps ==
  ASSUME Inv, TriggerGeneration \/ GenerationAnswered \/ Timeout
  PROVE  Inv'
<1>1. modal \in Modal
  BY DEF Inv, Typed
<1>2. CASE TriggerGeneration
  <2>1. /\ modal.isOpen /\ ~modal.triggered /\ generate' = generate + 1
        /\ modal' = [modal EXCEPT !.triggered = TRUE]
        /\ UNCHANGED <<server, view, loaded, fetched, post, result, clicked, downloads>>
    BY <1>2 DEF TriggerGeneration
  <2>2. /\ modal' \in Modal /\ modal'.pending = modal.pending
        /\ modal'.requestId = modal.requestId /\ modal'.opens = modal.opens
        /\ modal'.isOpen = modal.isOpen /\ modal'.triggered
    BY <1>1, <2>1 DEF Modal
  <2> QED
    BY <2>1, <2>2, FlagsKeep
<1>3. CASE GenerationAnswered
  <2>1. /\ generate > 0 /\ generate' = generate - 1
        /\ UNCHANGED <<server, loaded, fetched, post, result, clicked, downloads>>
    BY <1>3 DEF GenerationAnswered
  <2>2. CASE modal' = [modal EXCEPT !.generationFailed = TRUE] /\ UNCHANGED view
    <3>1. /\ modal' \in Modal /\ modal'.pending = modal.pending
          /\ modal'.requestId = modal.requestId /\ modal'.opens = modal.opens
          /\ modal'.isOpen = modal.isOpen /\ modal'.triggered = modal.triggered
      BY <1>1, <2>2 DEF Modal
    <3> QED
      BY <2>1, <2>2, <3>1, FlagsKeep
  <2>3. CASE /\ view' = [r \in Reports |->
                           IF report[r] = "unavailable" THEN report[r] ELSE view[r]]
             /\ UNCHANGED modal
    <3>1. view' \in States
      BY <2>3 DEF Inv, Typed, States
    <3>2. Typed'
      BY <2>1, <2>3, <3>1 DEF Inv, Typed, server
    <3>3. Beliefs'
      BY <2>1, <2>3 DEF Inv, Beliefs, Believable, server
    <3>4. Openings'
      BY <1>1, <2>1, <2>3, ModalGiven DEF Inv, Typed, Openings
    <3> QED
      BY <2>1, <2>3, <3>2, <3>3, <3>4, QuietKeeps DEF server
  <2> QED
    BY <1>3, <2>2, <2>3 DEF GenerationAnswered
<1>4. CASE Timeout
  <2>1. /\ modal' = [modal EXCEPT
             !.generationFailed = @ \/ modal.awaitingGeneration,
             !.selectiveZipFailed = @ \/ modal.awaitingSelectiveZip]
        /\ UNCHANGED <<server, view, wire, clicked, downloads>>
    BY <1>4 DEF Timeout
  <2>2. /\ modal' \in Modal /\ modal'.pending = modal.pending
        /\ modal'.requestId = modal.requestId /\ modal'.opens = modal.opens
        /\ modal'.isOpen = modal.isOpen /\ modal'.triggered = modal.triggered
    <3>1. PICK f \in BOOLEAN, g \in BOOLEAN :
            modal' = [modal EXCEPT !.generationFailed = f, !.selectiveZipFailed = g]
      BY <1>1, <2>1
    <3> QED
      BY <1>1, <3>1 DEF Modal
  <2> QED
    BY <2>1, <2>2, FlagsKeep DEF wire
<1> QED
  BY <1>2, <1>3, <1>4

(* The job of a zip file starts or ends. *)
LEMMA ZipKeeps ==
  ASSUME Inv, NEW c \in Clicks, QueueZip(c) \/ SelectiveZipReady(c)
  PROVE  Inv'
<1>1. /\ \/ zipJob' = [zipJob EXCEPT ![c] = "queued"] \/ zipJob' = [zipJob EXCEPT ![c] = "ended"]
      /\ result' = result \/ \E ok \in BOOLEAN : result' = [click |-> c, ok |-> ok]
      /\ UNCHANGED <<report, view, loaded, fetched, generate, post, modal, clicked, downloads>>
  BY DEF QueueZip, SelectiveZipReady, wire
<1>2. zipJob' \in [Clicks -> {"none", "queued", "ended"}]
  BY <1>1 DEF Inv, Typed
<1>3. c \in 0..MaxClicks
  BY DownloadAssumption DEF Clicks
<1>4. result' \in [click : 0..MaxClicks, ok : BOOLEAN]
  BY <1>1, <1>3 DEF Inv, Typed
<1>5. Typed' /\ Beliefs' /\ Openings'
  BY <1>1, <1>2, <1>4 DEF Inv, Typed, Beliefs, Believable, Openings
<1> QED
  BY <1>1, <1>5, QuietKeeps

----------------------------------------------------------------------------
(* Opening and closing *)

(* A new opening begins with nothing awaited. *)
LEMMA OpenKeeps ==
  ASSUME Inv, Open
  PROVE  Inv'
<1>1. /\ ~modal.isOpen /\ modal.opens < MaxOpens
      /\ modal' = [modal EXCEPT !.isOpen = TRUE, !.opens = @ + 1]
      /\ UNCHANGED <<server, view, wire, clicked, downloads>>
  BY DEF Open
<1>2. modal \in Modal /\ modal.opens \in Nat
      /\ modal.opens + 1 \in 0..MaxOpens
  BY <1>1, ModalGiven, DownloadAssumption DEF Inv, Typed
<1>3. /\ modal' \in Modal /\ modal'.pending = modal.pending
      /\ modal'.requestId = modal.requestId /\ modal'.opens = modal.opens + 1
      /\ modal'.isOpen /\ modal'.triggered = modal.triggered
  BY <1>1, <1>2 DEF Modal
<1>4. Typed'
  BY <1>1, <1>3 DEF Inv, Typed, server, wire
<1>5. Beliefs'
  BY <1>1 DEF Inv, Beliefs, Believable, server, wire
<1>6. Openings'
  BY <1>1, <1>2, <1>3 DEF Inv, Typed, Openings, wire
<1>7. InOrder'
  BY <1>1 DEF Inv, InOrder, Asked
<1>8. PendingKept'
  BY <1>1, <1>3 DEF Inv, Openings, PendingKept
<1>9. \A c \in Clicks : ClickKept(c)'
  BY <1>1, <1>3, OtherClick DEF Inv, Current, wire
<1> QED
  BY <1>4, <1>5, <1>6, <1>7, <1>8, <1>9 DEF Inv

(* A request under way when the dialog is closed is remembered as such. *)
LEMMA CloseKeeps ==
  ASSUME Inv, Close
  PROVE  Inv'
<1>1. /\ modal' = [ClosedModal EXCEPT !.opens = modal.opens]
      /\ result' = NoResult
      /\ clicked' = [c \in Clicks |->
                       [clicked[c] EXCEPT !.closed = @ \/ post[c].at = "sent"]]
      /\ UNCHANGED <<server, view, loaded, fetched, generate, post, downloads>>
  BY DEF Close
<1>2. modal.opens \in 0..MaxOpens /\ MaxClicks \in Nat
  BY ModalGiven, DownloadAssumption DEF Inv, Typed
<1>3. NoResult \in [click : 0..MaxClicks, ok : BOOLEAN] /\ NoClick \in 0..MaxClicks
  BY <1>2 DEF NoResult, NoClick
<1>4. /\ modal' \in Modal /\ modal'.pending = NoPending
      /\ modal'.requestId = NoClick /\ modal'.opens = modal.opens
      /\ ~modal'.isOpen /\ ~modal'.triggered
  BY <1>1, <1>2, <1>3 DEF ClosedModal, Modal
<1>5. ASSUME NEW c \in Clicks
      PROVE  /\ clicked'[c] \in Click
             /\ clicked'[c].items = clicked[c].items /\ clicked'[c].opening = clicked[c].opening
             /\ clicked[c].closed => clicked'[c].closed
             /\ post[c].at = "sent" => clicked'[c].closed
  <2>1. clicked[c] \in Click
    BY DEF Inv, Typed
  <2>2. PICK closed \in BOOLEAN :
          /\ clicked'[c] = [clicked[c] EXCEPT !.closed = closed]
          /\ closed = (clicked[c].closed \/ post[c].at = "sent")
    <3>1. clicked[c].closed \in BOOLEAN
      BY <2>1 DEF Click
    <3>2. CASE clicked[c].closed \/ post[c].at = "sent"
      BY <1>1, <3>1, <3>2
    <3>3. CASE ~(clicked[c].closed \/ post[c].at = "sent")
      BY <1>1, <3>1, <3>3
    <3> QED
      BY <3>2, <3>3
  <2> QED
    BY <2>1, <2>2 DEF Click
<1>6. clicked' \in [Clicks -> Click]
  <2>1. clicked' = [c \in Clicks |-> clicked'[c]]
    BY <1>1
  <2> QED
    BY <1>5, <2>1
<1>7. Typed'
  BY <1>1, <1>3, <1>4, <1>6 DEF Inv, Typed, server
<1>8. Beliefs' /\ Openings'
  BY <1>1, <1>4 DEF Inv, Beliefs, Believable, Openings, server
<1>9. InOrder'
  <2>1. Asked' = Asked
    BY <1>5 DEF Asked
  <2> QED
    BY <2>1 DEF Inv, InOrder
<1>10. PendingKept'
  BY <1>4 DEF PendingKept
<1>11. ASSUME NEW c \in Clicks PROVE ClickKept(c)'
  <2>1. modal'.pending.click # c /\ modal'.requestId # c
    BY <1>4 DEF NoPending, NoClick, Clicks
  <2>2. post[c].at = "sent" => Current(c)'
    BY <1>5 DEF Current
  <2> QED
    BY <1>1, <1>5, <2>1, <2>2 DEF Inv, ClickKept, AsAsked
<1> QED
  BY <1>7, <1>8, <1>9, <1>10, <1>11 DEF Inv

----------------------------------------------------------------------------
(* Serving a click *)

(* A click that was not served yet is served once, with all it asked for. *)
LEMMA PerformKeeps ==
  ASSUME Inv, NEW c \in Clicks, NEW items \in SUBSET Items, NEW state \in Modal,
         PerformDownload(c, items, state), UNCHANGED <<server, view, loaded, fetched, generate>>,
         clicked' \in [Clicks -> Click], \A d \in Clicks \ {c} : clicked'[d] = clicked[d],
         clicked'[c].opening = modal.opens,
         clicked'[c].items \subseteq items, items \ clicked'[c].items \subseteq Reports,
         modal.isOpen, state.isOpen, state.opens = modal.opens,
         state.triggered = modal.triggered, state.requestId = modal.requestId,
         state.pending = modal.pending \/ state.pending = NoPending,
         state.pending.click # c,
         post[c].at = "none", downloads[c].times = 0, InOrder'
  PROVE  Inv'
<1>1. /\ modal' \in Modal /\ modal'.pending = state.pending
      /\ modal'.requestId = modal.requestId /\ modal'.opens = modal.opens
      /\ modal'.isOpen /\ modal'.triggered = modal.triggered
  BY DEF PerformDownload, Modal
<1>2. modal.opens \in Nat \ {0} /\ MaxClicks \in Nat
  BY ModalGiven, DownloadAssumption DEF Inv, Typed, Openings
<1>3. /\ downloads' = downloads
         \/ downloads' = [downloads EXCEPT ![c] = [items |-> items, times |-> 1]]
      /\ post' = post \/ post' = [post EXCEPT ![c] = [at |-> "sent", items |-> items]]
      /\ result' = result \/ result' = NoResult
      /\ downloads' = downloads \/ post' = post
  BY DEF PerformDownload, Download, Inv, Typed, Served
<1>4. downloads' \in [Clicks -> Served]
  <2>1. [items |-> items, times |-> 1] \in Served
    BY DEF Served
  <2> QED
    BY <1>3, <2>1 DEF Inv, Typed
<1>5. post' \in [Clicks -> Post]
  <2>1. [at |-> "sent", items |-> items] \in Post
    BY DEF Post
  <2> QED
    BY <1>3, <2>1 DEF Inv, Typed
<1>6. NoResult \in [click : 0..MaxClicks, ok : BOOLEAN]
  BY <1>2 DEF NoResult, NoClick
<1>7. Typed'
  BY <1>1, <1>3, <1>4, <1>5, <1>6 DEF Inv, Typed, server
<1>8. Beliefs' /\ Openings'
  BY <1>1 DEF Inv, Beliefs, Believable, Openings, server
<1>9. PendingKept'
  <2>1. modal'.pending # NoPending =>
          /\ modal'.pending = modal.pending
          /\ clicked'[modal.pending.click] = clicked[modal.pending.click]
    BY <1>1, PendingGiven DEF Inv, Typed
  <2> QED
    BY <1>1, <2>1 DEF Inv, PendingKept, server
<1>10. ASSUME NEW d \in Clicks \ {c} PROVE ClickKept(d)'
  <2>1. post'[d] = post[d] /\ downloads'[d] = downloads[d]
    BY <1>3 DEF Inv, Typed
  <2>2. modal'.pending.click # d \/ modal'.pending.click = modal.pending.click
    BY <1>1, PendingGiven DEF Inv, Typed
  <2>3. Current(d) => Current(d)'
    BY <1>1 DEF Current
  <2> QED
    BY <1>1, <2>1, <2>2, <2>3, OtherClick DEF Inv
<1>11. ClickKept(c)'
  <2>1. modal'.requestId # c /\ modal'.pending.click # c
    BY <1>1 DEF Inv, ClickKept
  <2>2. Current(c)' /\ clicked'[c].opening # 0
    BY <1>1, <1>2 DEF Current
  <2>3. CASE downloads' = downloads /\ post' = post
    BY <2>1, <2>2, <2>3 DEF ClickKept
  <2>4. CASE downloads' = downloads /\ post' = [post EXCEPT ![c] = [at |-> "sent", items |-> items]]
    <3>1. post'[c].at = "sent" /\ post'[c].items = items /\ downloads'[c].times = 0
      BY <2>4 DEF Inv, Typed
    <3> QED
      BY <2>1, <2>2, <3>1 DEF ClickKept, AsAsked
  <2>5. CASE /\ downloads' = [downloads EXCEPT ![c] = [items |-> items, times |-> 1]]
             /\ post' = post
    <3>1. downloads'[c].times = 1 /\ downloads'[c].items = items /\ post'[c].at = "none"
      BY <2>5 DEF Inv, Typed
    <3> QED
      BY <2>1, <2>2, <3>1 DEF ClickKept, AsAsked
  <2> QED
    BY <1>3, <2>3, <2>4, <2>5
<1> QED
  BY <1>7, <1>8, <1>9, <1>10, <1>11 DEF Inv

(* The next click is a new one. *)
LEMMA NextClick ==
  ASSUME Inv, Cardinality(Asked) + 1 \in Clicks
  PROVE  /\ clicked[Cardinality(Asked) + 1].opening = 0
         /\ Cardinality(Asked) \in Nat
         /\ Asked = 1..Cardinality(Asked)
<1>1. PICK k \in Nat : Asked = 1..k
  BY DEF Inv, InOrder
<1>2. Cardinality(Asked) = k
  BY <1>1, FS_Interval
<1>3. k + 1 \notin Asked
  BY <1>1
<1>4. clicked[k + 1] \in Click
  BY <1>2 DEF Inv, Typed
<1>5. clicked[k + 1].opening \in Nat
  BY <1>4, DownloadAssumption DEF Click
<1>6. k + 1 \in Clicks
  BY <1>2
<1>7. clicked[k + 1].opening = 0
  BY <1>3, <1>5, <1>6 DEF Asked
<1> QED
  BY <1>1, <1>2, <1>7

(* A click asks for documents that are shown; it is new, and the one that     *)
(* waited before is dropped if this one waits, too.                           *)
LEMMA SelectKeeps ==
  ASSUME Inv, NEW selected \in SUBSET Shown, DownloadSelected(selected)
  PROVE  Inv'
<1> DEFINE n == Cardinality(Asked) + 1
           missing == selected \cap Missing(view)
           ready == selected \cap Ready(view)
           entry == [items |-> selected, opening |-> modal.opens, closed |-> FALSE]
           p == [click |-> n, items |-> ready, missing |-> missing,
                 known |-> Ready(view), all |-> selected = Shown]
<1>1. /\ Choosing /\ n \in Clicks
      /\ clicked' = [clicked EXCEPT ![n] = entry]
      /\ IF missing = {} THEN PerformDownload(n, ready, modal)
         ELSE /\ modal' = [modal EXCEPT !.pending = p, !.awaitingGeneration = TRUE]
              /\ UNCHANGED <<post, result, downloads>>
      /\ UNCHANGED <<server, view, loaded, fetched, generate>>
  BY DEF DownloadSelected
<1>2. PICK c \in Clicks : c = n
  BY <1>1
<1>3. clicked[c].opening = 0 /\ Asked = 1..(c - 1) /\ c - 1 \in Nat /\ c \in Nat
  BY <1>1, <1>2, NextClick, DownloadAssumption DEF Clicks
<1>4. /\ modal \in Modal /\ modal.isOpen /\ modal.opens \in 0..MaxOpens
      /\ modal.opens \in Nat \ {0} /\ MaxOpens \in Nat
  BY <1>1, ModalGiven, DownloadAssumption DEF Inv, Typed, Openings, Choosing
<1>5. Ready(view) \subseteq Items /\ Missing(view) \subseteq Reports /\ Files \subseteq Ready(view)
      /\ selected = ready \cup missing /\ selected \subseteq Items
      /\ Ready(view) \cap Missing(view) = {}
  BY DownloadAssumption DEF Ready, Missing, Shown, Items
<1>6. /\ clicked' \in [Clicks -> Click] /\ clicked'[c] = entry
      /\ \A d \in Clicks \ {c} : clicked'[d] = clicked[d]
  <2>1. entry \in Click
    BY <1>4, <1>5 DEF Click
  <2> HIDE DEF entry
  <2> QED
    BY <1>1, <1>2, <2>1 DEF Inv, Typed
<1>7. /\ entry.items = selected /\ entry.opening = modal.opens
      /\ p.click = n /\ p.items = ready /\ p.missing = missing /\ p.known = Ready(view)
      /\ p.all = (selected = Shown)
  OBVIOUS
<1>8. post[c].at = "none" /\ downloads[c].times = 0 /\ modal.pending.click # c
  BY <1>3 DEF Inv, ClickKept
<1>9. InOrder'
  <2>1. Asked' = Asked \cup {c}
    BY <1>4, <1>6, <1>7 DEF Asked
  <2>2. Asked' = 1..c
    BY <1>3, <2>1
  <2> QED
    BY <1>3, <2>2 DEF InOrder
<1>10. CASE missing = {}
  <2>1. PerformDownload(c, ready, modal)
    BY <1>1, <1>2, <1>10
  <2>2. ready \in SUBSET Items /\ clicked'[c].items \subseteq ready
        /\ ready \ clicked'[c].items \subseteq Reports
    BY <1>5, <1>6, <1>7, <1>10
  <2> QED
    BY <1>1, <1>4, <1>6, <1>7, <1>8, <1>9, <2>1, <2>2, PerformKeeps
<1>11. CASE missing # {}
  <2>1. p \in Pending /\ p # NoPending
    <3>1. PICK all \in BOOLEAN : all = (selected = Shown)
      <4>1. CASE selected = Shown
        BY <4>1
      <4>2. CASE selected # Shown
        BY <4>2
      <4> QED
        BY <4>1, <4>2
    <3>2. ready \in SUBSET Items /\ missing \in SUBSET Reports /\ Ready(view) \in SUBSET Items
      BY <1>5
    <3>3. p = [click |-> c, items |-> ready, missing |-> missing,
               known |-> Ready(view), all |-> all]
      BY <1>2, <3>1
    <3> HIDE DEF ready, missing, n, p
    <3>4. p \in Pending
      BY <3>2, <3>3 DEF Pending
    <3>5. p.click = c
      BY <3>3
    <3> QED
      BY <3>4, <3>5 DEF NoPending, NoClick, Clicks
  <2>2. modal' = [modal EXCEPT !.pending = p, !.awaitingGeneration = TRUE]
        /\ UNCHANGED <<post, result, downloads>>
    BY <1>1, <1>11
  <2>3. PICK q \in Pending : q = p
    BY <2>1
  <2>4. /\ q.click = c /\ q.items = ready /\ q.missing = missing /\ q.known = Ready(view)
        /\ q.all = (selected = Shown)
    BY <1>2, <1>7, <2>3
  <2> HIDE DEF p, entry, ready, missing
  <2>5. /\ modal' \in Modal /\ modal'.pending = q
        /\ modal'.requestId = modal.requestId /\ modal'.opens = modal.opens
        /\ modal'.isOpen = modal.isOpen /\ modal'.triggered = modal.triggered
    BY <1>4, <2>2, <2>3 DEF Modal
  <2>6. Typed'
    BY <1>1, <1>6, <2>2, <2>5 DEF Inv, Typed, server
  <2>7. Beliefs' /\ Openings'
    BY <1>1, <1>4, <2>5 DEF Inv, Beliefs, Believable, Openings, server
  <2>8. PendingKept'
    <3>1. clicked'[q.click].items = q.items \cup q.missing
          /\ clicked'[q.click].opening = modal'.opens
      BY <1>5, <1>6, <1>7, <2>4, <2>5
    <3>2. \A i \in q.items \cap Reports : report'[i] = "ready"
      BY <1>1, <2>4, DownloadAssumption DEF ready, Ready, Inv, Beliefs, Believable, server
    <3>3. Files \subseteq q.known /\ q.known \cap q.missing = {}
      BY <1>5, <2>4 DEF missing
    <3>4. q.all => Files \subseteq q.items
      BY <1>5, <2>4 DEF Shown, ready
    <3> QED
      BY <2>5, <3>1, <3>2, <3>3, <3>4 DEF PendingKept
  <2>9. ASSUME NEW d \in Clicks PROVE ClickKept(d)'
    <3>1. CASE d = c
      <4>1. modal.requestId # c
        BY <1>8 DEF Inv, ClickKept
      <4> QED
        BY <1>4, <1>6, <1>7, <1>8, <2>2, <2>5, <3>1, <4>1 DEF ClickKept
    <3>2. CASE d # c
      <4>1. Current(d) => Current(d)'
        BY <1>6, <2>5, <3>2 DEF Current
      <4> QED
        BY <1>6, <2>2, <2>4, <2>5, <3>2, <4>1, OtherClick DEF Inv
    <3> QED
      BY <3>1, <3>2
  <2> QED
    BY <1>9, <2>6, <2>7, <2>8, <2>9 DEF Inv
<1> QED
  BY <1>10, <1>11

(* A pending download goes on with all its click asked for, or is given up. *)
LEMMA ContinueKeeps ==
  ASSUME Inv, ContinueDownload
  PROVE  Inv'
<1> DEFINE p == modal.pending
<1>1. /\ modal.isOpen /\ p # NoPending
      /\ IF \E r \in p.missing : view[r] = "unavailable"
         THEN modal' = Settled /\ UNCHANGED <<post, result, downloads>>
         ELSE Missing(view) = {} /\ PerformDownload(p.click, PendingItems, Settled)
      /\ UNCHANGED <<server, view, loaded, fetched, generate, clicked>>
  BY DEF ContinueDownload, WaitsForReports
<1>2. modal \in Modal /\ modal.opens \in Nat \ {0}
  BY <1>1, ModalGiven DEF Inv, Typed, Openings
<1>3. /\ p.click \in Clicks /\ p.items \subseteq Items /\ p.missing \subseteq Reports
      /\ NoPending.click \notin Clicks
  BY <1>1, <1>2, PendingGiven
<1>4. PICK c \in Clicks : c = p.click
  BY <1>3
<1>5. /\ clicked[c].items = p.items \cup p.missing
      /\ clicked[c].opening = modal.opens
      /\ \A i \in p.items \cap Reports : report[i] = "ready"
      /\ Files \subseteq p.known /\ p.known \cap p.missing = {}
      /\ p.all => Files \subseteq p.items
  BY <1>1, <1>4 DEF Inv, PendingKept
<1>6. post[c].at = "none" /\ downloads[c].times = 0
  <2>1. downloads[c].times \in Nat
    BY DEF Inv, Typed, Served
  <2> QED
    BY <1>4, <2>1 DEF Inv, ClickKept
<1>7. /\ Settled \in Modal /\ Settled.pending = NoPending
      /\ Settled.requestId = modal.requestId /\ Settled.opens = modal.opens
      /\ Settled.isOpen = modal.isOpen /\ Settled.triggered = modal.triggered
  BY <1>2 DEF Settled, Modal
<1>8. InOrder'
  BY <1>1 DEF Inv, InOrder, Asked
<1>9. CASE \E r \in p.missing : view[r] = "unavailable"
  <2>1. modal' = Settled /\ UNCHANGED <<post, result, downloads>>
    BY <1>1, <1>9
  <2>2. Typed'
    BY <1>1, <1>7, <2>1 DEF Inv, Typed, server
  <2>3. Beliefs' /\ Openings' /\ PendingKept'
    BY <1>1, <1>7, <2>1 DEF Inv, Beliefs, Believable, Openings, PendingKept, server
  <2>4. \A d \in Clicks : ClickKept(d)'
    BY <1>1, <1>3, <1>7, <2>1, OtherClick DEF Inv, Current
  <2> QED
    BY <1>8, <2>2, <2>3, <2>4 DEF Inv
<1>10. CASE ~ \E r \in p.missing : view[r] = "unavailable"
  <2>1. Missing(view) = {} /\ PerformDownload(c, PendingItems, Settled)
    BY <1>1, <1>4, <1>10
  <2>2. \A r \in Reports : view[r] \in {"ready", "unavailable"} /\ view[r] = report[r]
    BY <2>1 DEF Missing, Inv, Typed, States, Beliefs, Believable
  <2>3. Ready(view) \subseteq Items /\ Files \subseteq Ready(view)
    BY DEF Ready, Items
  <2>4. p.items \subseteq Ready(view) /\ p.missing \subseteq Ready(view)
    BY <1>3, <1>5, <1>10, <2>2 DEF Ready, Items
  <2>5. PendingItems = IF p.all THEN Ready(view)
                       ELSE {i \in Ready(view) : i \in p.items \/ i \notin p.known}
    BY DEF PendingItems
  <2> HIDE DEF p
  <2>6. clicked[c].items \subseteq PendingItems
    BY <1>5, <2>4, <2>5
  <2>7. PendingItems \ clicked[c].items \subseteq Reports
    BY <1>5, <2>3, <2>5 DEF Items
  <2>8. PICK items \in SUBSET Items : items = PendingItems
    BY <2>3, <2>5
  <2>9. PICK state \in Modal : state = Settled
    BY <1>7
  <2>10. PerformDownload(c, items, state)
    BY <2>1, <2>8, <2>9
  <2>11. clicked' = clicked /\ clicked \in [Clicks -> Click]
    BY <1>1 DEF Inv, Typed
  <2>12. state.pending.click # c
    BY <1>3, <1>7, <2>9
  <2>13. clicked'[c].items \subseteq items /\ items \ clicked'[c].items \subseteq Reports
    BY <2>6, <2>7, <2>8, <2>11
  <2> QED
    BY <1>1, <1>5, <1>6, <1>7, <1>8, <2>9, <2>10, <2>11, <2>12, <2>13, PerformKeeps
<1> QED
  BY <1>9, <1>10

(* An answered request is awaited, whether the dialog is open or not. *)
LEMMA PostKeeps ==
  ASSUME Inv, NEW c \in Clicks, PostAnswered(c)
  PROVE  Inv'
<1>1. /\ post[c].at = "sent"
      /\ post' = [post EXCEPT ![c].at = "answered"]
      /\ \/ modal' = [modal EXCEPT !.requestId = c, !.awaitingSelectiveZip = TRUE]
         \/ modal' = [modal EXCEPT !.selectiveZipFailed = TRUE]
      /\ UNCHANGED <<server, view, loaded, fetched, generate, result, clicked, downloads>>
  BY DEF PostAnswered
<1>2. modal \in Modal /\ c \in 0..MaxClicks
  BY DownloadAssumption DEF Inv, Typed, Clicks
<1>3. /\ modal' \in Modal /\ modal'.pending = modal.pending
      /\ modal'.opens = modal.opens
      /\ modal'.isOpen = modal.isOpen /\ modal'.triggered = modal.triggered
      /\ modal'.requestId = c \/ modal'.requestId = modal.requestId
  BY <1>1, <1>2 DEF Modal
<1>4. /\ post' \in [Clicks -> Post] /\ post'[c].at = "answered"
      /\ post'[c].items = post[c].items
      /\ \A d \in Clicks \ {c} : post'[d] = post[d]
  BY <1>1 DEF Inv, Typed, Post
<1>5. Typed'
  BY <1>1, <1>3, <1>4 DEF Inv, Typed, server
<1>6. Beliefs' /\ Openings' /\ InOrder' /\ PendingKept'
  BY <1>1, <1>3 DEF Inv, Beliefs, Believable, Openings, InOrder, Asked, PendingKept, server
<1>7. \A d \in Clicks : Current(d)' <=> Current(d)
  BY <1>1, <1>3 DEF Current
<1>8. \A d \in Clicks \ {c} : ClickKept(d)'
  BY <1>1, <1>3, <1>4, <1>7, OtherClick DEF Inv
<1>9. ClickKept(c)'
  BY <1>1, <1>3, <1>4, <1>7 DEF Inv, ClickKept, AsAsked
<1> QED
  BY <1>5, <1>6, <1>8, <1>9 DEF Inv

(* The awaited zip file is downloaded, and awaited no more. *)
LEMMA TakeKeeps ==
  ASSUME Inv, TakeResult
  PROVE  Inv'
<1>1. /\ modal.requestId # NoClick /\ result.click = modal.requestId
      /\ IF result.ok
         THEN /\ Download(result.click, post[result.click].items)
              /\ modal' = [modal EXCEPT !.requestId = NoClick, !.awaitingSelectiveZip = FALSE]
              /\ result' = NoResult
         ELSE /\ modal' = [modal EXCEPT !.selectiveZipFailed = TRUE,
                                        !.awaitingSelectiveZip = FALSE]
              /\ UNCHANGED <<result, downloads>>
      /\ UNCHANGED <<server, view, loaded, fetched, generate, post, clicked>>
  BY DEF TakeResult, HasResult
<1>2. modal \in Modal /\ modal.requestId \in 0..MaxClicks /\ MaxClicks \in Nat
  BY ModalGiven, DownloadAssumption DEF Inv, Typed
<1>3. PICK c \in Clicks : c = modal.requestId
  BY <1>1, <1>2 DEF NoClick, Clicks
<1>4. /\ post[c].at = "answered" /\ downloads[c].times = 0
      /\ AsAsked(c, post[c].items) /\ modal.pending.click # c /\ clicked[c].opening # 0
  BY <1>3 DEF Inv, ClickKept
<1>5. CASE ~result.ok
  <2>1. UNCHANGED <<result, downloads>>
        /\ modal' = [modal EXCEPT !.selectiveZipFailed = TRUE, !.awaitingSelectiveZip = FALSE]
    BY <1>1, <1>5
  <2>2. /\ modal' \in Modal /\ modal'.pending = modal.pending
        /\ modal'.requestId = modal.requestId /\ modal'.opens = modal.opens
        /\ modal'.isOpen = modal.isOpen /\ modal'.triggered = modal.triggered
    BY <1>2, <2>1 DEF Modal
  <2> QED
    BY <1>1, <2>1, <2>2, FlagsKeep
<1>6. CASE result.ok
  <2>1. /\ downloads' = [downloads EXCEPT ![c] = [items |-> post[c].items, times |-> @.times + 1]]
        /\ modal' = [modal EXCEPT !.requestId = NoClick, !.awaitingSelectiveZip = FALSE]
        /\ result' = NoResult
    BY <1>1, <1>3, <1>6 DEF Download
  <2>2. NoResult \in [click : 0..MaxClicks, ok : BOOLEAN] /\ NoClick \in 0..MaxClicks
    BY <1>2 DEF NoResult, NoClick
  <2>3. /\ modal' \in Modal /\ modal'.pending = modal.pending
        /\ modal'.requestId = NoClick /\ modal'.opens = modal.opens
        /\ modal'.isOpen = modal.isOpen /\ modal'.triggered = modal.triggered
    BY <1>2, <2>1, <2>2 DEF Modal
  <2>4. [items |-> post[c].items, times |-> 1] \in Served
    <3>1. post[c] \in Post
      BY DEF Inv, Typed
    <3> QED
      BY <3>1 DEF Post, Served
  <2>5. downloads' = [downloads EXCEPT ![c] = [items |-> post[c].items, times |-> 1]]
    BY <1>4, <2>1 DEF Inv, Typed
  <2>6. /\ downloads' \in [Clicks -> Served]
        /\ downloads'[c].items = post[c].items /\ downloads'[c].times = 1
        /\ \A d \in Clicks \ {c} : downloads'[d] = downloads[d]
    BY <2>4, <2>5 DEF Inv, Typed
  <2>7. Typed'
    BY <1>1, <2>1, <2>2, <2>3, <2>6 DEF Inv, Typed, server
  <2>8. Beliefs' /\ Openings' /\ InOrder' /\ PendingKept'
    BY <1>1, <2>3 DEF Inv, Beliefs, Believable, Openings, InOrder, Asked, PendingKept, server
  <2>9. \A d \in Clicks : modal'.requestId # d /\ (Current(d)' <=> Current(d))
    BY <1>1, <2>3 DEF Current, NoClick, Clicks
  <2>10. \A d \in Clicks \ {c} : ClickKept(d)'
    BY <1>1, <2>3, <2>6, <2>9, OtherClick DEF Inv
  <2>11. ClickKept(c)'
    BY <1>1, <1>4, <2>3, <2>6, <2>9 DEF ClickKept, AsAsked
  <2> QED
    BY <2>7, <2>8, <2>10, <2>11 DEF Inv
<1> QED
  BY <1>5, <1>6

----------------------------------------------------------------------------
(* The invariant of every behaviour *)

(* At first nothing was opened, clicked or asked for. *)
LEMMA InitKept ==
  ASSUME Init
  PROVE  Inv
<1>1. MaxOpens \in Nat /\ MaxClicks \in Nat
  BY DownloadAssumption
<1>2. /\ ClosedModal \in Modal /\ ClosedModal.pending = NoPending
      /\ ClosedModal.requestId = NoClick /\ ClosedModal.opens = 0
      /\ ~ClosedModal.isOpen /\ ~ClosedModal.triggered
  BY <1>1 DEF ClosedModal, Modal, NoClick
<1>3. NoPost \in Post /\ NoPost.at = "none"
  BY DEF NoPost, Post
<1>4. NoClickYet \in Click /\ NoClickYet.opening = 0
  BY <1>1 DEF NoClickYet, Click
<1>5. Nothing \in Served /\ Nothing.times = 0
  BY DEF Nothing, Served
<1>6. NoResult \in [click : 0..MaxClicks, ok : BOOLEAN]
  BY <1>1 DEF NoResult, NoClick
<1>7. report \in States /\ view \in States
  BY DEF Init, States
<1>8. Typed
  BY <1>2, <1>3, <1>4, <1>5, <1>6, <1>7 DEF Init, Typed
<1>9. Beliefs
  BY DEF Init, Beliefs, Believable
<1>10. Openings /\ PendingKept
  BY <1>2 DEF Init, Openings, PendingKept
<1>11. InOrder
  <2>1. Asked = {}
    BY <1>4 DEF Init, Asked
  <2>2. Asked = 1..0
    BY <2>1
  <2> QED
    BY <2>2 DEF InOrder
<1>12. ASSUME NEW c \in Clicks PROVE ClickKept(c)
  <2>1. modal.pending.click # c /\ modal.requestId # c
    BY <1>2 DEF Init, NoPending, NoClick, Clicks
  <2> QED
    BY <1>3, <1>5, <2>1 DEF Init, ClickKept
<1> QED
  BY <1>8, <1>9, <1>10, <1>11, <1>12 DEF Inv

(* Every step keeps the invariant. *)
LEMMA NextKeeps ==
  ASSUME Inv, [Next]_vars
  PROVE  Inv'
<1>1. CASE UNCHANGED vars
  <2>1. Typed' /\ Beliefs' /\ Openings'
    BY <1>1 DEF Inv, Typed, Beliefs, Believable, Openings, vars
  <2> QED
    BY <1>1, <2>1, QuietKeeps DEF vars
<1>2. CASE SocketSupportingDocsUpdate \/ LoadOnOpen \/ Poll \/ FetchAnswered
  BY <1>2, LearnKeeps
<1>3. CASE \E r \in Reports : RenderReport(r)
  BY <1>3, RenderKeeps
<1>4. CASE TriggerGeneration \/ GenerationAnswered \/ Timeout
  BY <1>4, GenerationKeeps
<1>5. CASE Open
  BY <1>5, OpenKeeps
<1>6. CASE Close
  BY <1>6, CloseKeeps
<1>7. CASE \E selected \in SUBSET Shown : DownloadSelected(selected)
  BY <1>7, SelectKeeps
<1>8. CASE ContinueDownload
  BY <1>8, ContinueKeeps
<1>9. CASE TakeResult
  BY <1>9, TakeKeeps
<1>10. CASE \E c \in Clicks : QueueZip(c) \/ SelectiveZipReady(c)
  BY <1>10, ZipKeeps
<1>11. CASE \E c \in Clicks : PostAnswered(c)
  BY <1>11, PostKeeps
<1> QED
  BY <1>1, <1>2, <1>3, <1>4, <1>5, <1>6, <1>7, <1>8, <1>9, <1>10, <1>11 DEF Next

(* So it always holds. *)
LEMMA AlwaysInv == Spec => []Inv
<1>1. Init => Inv
  BY InitKept
<1>2. Inv /\ [Next]_vars => Inv'
  BY NextKeeps
<1> QED
  BY <1>1, <1>2, PTL DEF Spec

(* Every variable of the dialog keeps its type; above all, the reports are    *)
(* asked for at most once in each opening of the dialog, so that no more      *)
(* requests to render them are awaited than it was opened.                    *)
THEOREM TypeCorrect == Spec => []TypeOK
<1>1. ASSUME Inv PROVE TypeOK
  <2>1. generate \in 0..MaxOpens
    <3>1. modal.opens \in 0..MaxOpens /\ MaxOpens \in Nat
      BY <1>1, ModalGiven, DownloadAssumption DEF Inv, Typed
    <3> QED
      BY <1>1, <3>1 DEF Inv, Typed, Openings
  <2> QED
    BY <1>1, <2>1 DEF Inv, Typed, Post, Served, TypeOK
<1> QED
  BY <1>1, AlwaysInv, PTL

(* Whatever answers, messages and timeouts do and however often the dialog is *)
(* opened, a click leads to one download at most, which contains everything   *)
(* that was selected and besides only reports (performDownload).              *)
THEOREM DownloadsOnceAsAsked == Spec => []DownloadedOnceAsAsked
<1>1. Inv => DownloadedOnceAsAsked
  BY DEF Inv, ClickKept, AsAsked, DownloadedOnceAsAsked
<1> QED
  BY <1>1, AlwaysInv, PTL

(* What is downloaded was asked for in the opening of the dialog that is      *)
(* shown, or its request was under way when the dialog was closed             *)
(* (resetDownloadState).                                                      *)
THEOREM AlwaysForgotten == Spec => ForgottenWhenClosed
<1>1. ASSUME Inv, Next, NEW c \in Clicks, downloads'[c] # downloads[c]
      PROVE  clicked'[c].opening = modal.opens \/ clicked[c].closed
  <2>1. CASE \E selected \in SUBSET Shown : DownloadSelected(selected)
    <3>1. PICK selected \in SUBSET Shown : DownloadSelected(selected)
      BY <2>1
    <3> DEFINE n == Cardinality(Asked) + 1
    <3>2. /\ n \in Clicks
          /\ clicked' = [clicked EXCEPT ![n] =
                 [items |-> selected, opening |-> modal.opens, closed |-> FALSE]]
          /\ UNCHANGED downloads \/ \E items : Download(n, items)
      BY <3>1 DEF DownloadSelected, PerformDownload
    <3> HIDE DEF n
    <3>3. c = n
      BY <1>1, <3>2 DEF Download, Inv, Typed
    <3> QED
      BY <1>1, <3>2, <3>3 DEF Inv, Typed
  <2>2. CASE ContinueDownload
    <3>1. /\ modal.pending # NoPending /\ UNCHANGED clicked
          /\ UNCHANGED downloads \/ \E items : Download(modal.pending.click, items)
      BY <2>2 DEF ContinueDownload, WaitsForReports, PerformDownload
    <3>2. c = modal.pending.click
      BY <1>1, <3>1 DEF Download, Inv, Typed
    <3> QED
      BY <1>1, <3>1, <3>2 DEF Inv, PendingKept
  <2>3. CASE TakeResult
    <3>1. /\ result.click = modal.requestId /\ UNCHANGED clicked
          /\ UNCHANGED downloads \/ \E items : Download(modal.requestId, items)
      BY <2>3 DEF TakeResult, HasResult
    <3>2. c = modal.requestId
      BY <1>1, <3>1 DEF Download, Inv, Typed
    <3> QED
      BY <1>1, <3>1, <3>2 DEF Inv, ClickKept, Current
  <2>4. CASE \/ SocketSupportingDocsUpdate \/ LoadOnOpen \/ Poll \/ FetchAnswered
             \/ \E r \in Reports : RenderReport(r)
             \/ TriggerGeneration \/ GenerationAnswered \/ Open \/ Close \/ Timeout
             \/ \E d \in Clicks : QueueZip(d) \/ PostAnswered(d) \/ SelectiveZipReady(d)
    BY <1>1, <2>4 DEF SocketSupportingDocsUpdate, LoadOnOpen, Poll, FetchAnswered, RenderReport,
                      TriggerGeneration, GenerationAnswered, Open, Close, Timeout, QueueZip,
                      PostAnswered, SelectiveZipReady
  <2> QED
    BY <1>1, <2>1, <2>2, <2>3, <2>4 DEF Next
<1>2. Inv /\ [Next]_vars =>
        [\A c \in Clicks : downloads'[c] # downloads[c] =>
           clicked'[c].opening = modal.opens \/ clicked[c].closed]_vars
  BY <1>1
<1> QED
  BY <1>2, AlwaysInv, PTL DEF Spec, ForgottenWhenClosed
============================================================================
