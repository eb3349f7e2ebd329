------------------------- MODULE SubmissionDownload -------------------------
(***************************************************************************)
(* The dialog that downloads the documents of a submitted application.     *)
(* Uploaded files are there at once; reports are rendered by a job, which  *)
(* the dialog asks for when it opens.  A download that needs a missing     *)
(* report waits for it; one of several documents waits for a zip file.     *)
(* What becomes ready is told by messages that may be lost, by answers to  *)
(* requests that may be slow, and by a poll while something is awaited.    *)
(*                                                                         *)
(* A download is named by the click that asked for it.                     *)
(***************************************************************************)
EXTENDS Naturals, FiniteSets

CONSTANTS
  Files,     \* uploaded documents
  Reports,   \* reports rendered on the server
  MaxOpens,  \* bound on the times the dialog is opened
  MaxClicks  \* bound on the downloads asked for

Items  == Files \cup Reports
Clicks == 1..MaxClicks

ASSUME DownloadAssumption ==
  /\ Files \cap Reports = {}
  /\ {MaxOpens, MaxClicks} \subseteq Nat

VARIABLES
  report,    \* per report: what the server has
  view,      \* per report: what the client believes
  loaded,    \* the application is fully loaded in the client
  fetched,   \* what a fetch under way will answer
  generate,  \* requests to render the reports whose answer is awaited
  post,      \* per click: the request for its zip file, and for what
  zipJob,    \* per click: the job that builds it
  result,    \* the last zip message, selectiveZipResult
  modal,     \* the dialog's state
  clicked,   \* history: per click, what was selected, and in which opening
  downloads  \* history: per click, what was downloaded

server == <<report, zipJob>>
wire   == <<loaded, fetched, generate, post, result>>
vars   == <<report, view, loaded, fetched, generate, post, zipJob, result,
            modal, clicked, downloads>>

States == [Reports -> {"missing", "ready", "unavailable"}]

NoClick  == 0
NoFetch  == [r \in {} |-> "missing"]
NoPost   == [at |-> "none", items |-> {}]
NoResult == [click |-> NoClick, ok |-> FALSE]

(* pendingDownloadRef: the click that waits for reports, its documents, the *)
(* reports it needs and the documents that were known then.                 *)
Pending   == [click : Clicks, items : SUBSET Items, missing : SUBSET Reports,
              known : SUBSET Items, all : BOOLEAN]
NoPending == [click |-> NoClick, items |-> {}, missing |-> {}, known |-> {},
              all |-> FALSE]

Modal == [isOpen : BOOLEAN, opens : 0..MaxOpens,
          fetchAsked : BOOLEAN, triggered : BOOLEAN,
          generationFailed : BOOLEAN, awaitingGeneration : BOOLEAN,
          awaitingSelectiveZip : BOOLEAN, selectiveZipFailed : BOOLEAN,
          pending : Pending \cup {NoPending}, requestId : 0..MaxClicks]

ClosedModal == [isOpen |-> FALSE, opens |-> 0,
                fetchAsked |-> FALSE, triggered |-> FALSE,
                generationFailed |-> FALSE, awaitingGeneration |-> FALSE,
                awaitingSelectiveZip |-> FALSE, selectiveZipFailed |-> FALSE,
                pending |-> NoPending, requestId |-> NoClick]

(* What a click asked for, in which opening of the dialog, and whether the  *)
(* dialog was closed while the request for its zip file was under way.      *)
Click   == [items : SUBSET Items, opening : 0..MaxOpens, closed : BOOLEAN]
NoClickYet == [items |-> {}, opening |-> 0, closed |-> FALSE]
Nothing == [items |-> {}, times |-> 0]

TypeOK ==
  /\ report \in States /\ view \in States /\ loaded \in BOOLEAN
  /\ fetched \in States \cup {NoFetch}
  /\ generate \in 0..MaxOpens
  /\ post \in [Clicks -> [at : {"none", "sent", "answered"}, items : SUBSET Items]]
  /\ zipJob \in [Clicks -> {"none", "queued", "ended"}]
  /\ result \in [click : 0..MaxClicks, ok : BOOLEAN]
  /\ modal \in Modal
  /\ clicked \in [Clicks -> Click]
  /\ downloads \in [Clicks -> [items : SUBSET Items, times : Nat]]

Init ==
  /\ report = [r \in Reports |-> "missing"] /\ view = report
  /\ loaded = FALSE
  /\ fetched = NoFetch /\ generate = 0
  /\ post = [c \in Clicks |-> NoPost]
  /\ zipJob = [c \in Clicks |-> "none"]
  /\ result = NoResult
  /\ modal = ClosedModal
  /\ clicked = [c \in Clicks |-> NoClickYet]
  /\ downloads = [c \in Clicks |-> Nothing]

----------------------------------------------------------------------------
(* What is shown *)

Ready(v)   == Files \cup {r \in Reports : v[r] = "ready"}
Missing(v) == {r \in Reports : v[r] = "missing"}
Shown      == Ready(view) \cup Missing(view)

ShowError ==
  modal.selectiveZipFailed \/ (modal.awaitingGeneration /\ modal.generationFailed)

ShowPreparing ==
  \/ modal.awaitingSelectiveZip
  \/ /\ modal.awaitingGeneration /\ Missing(view) # {}
     /\ ~modal.selectiveZipFailed

(* The dialog shows its spinner. *)
Preparing == modal.isOpen /\ loaded /\ ShowPreparing /\ ~ShowError

(* The dialog shows the list and its buttons. *)
Choosing == modal.isOpen /\ loaded /\ ~ShowPreparing /\ ~ShowError

----------------------------------------------------------------------------
(* What the client learns *)

(* updateSupportingDocuments, when its message is not lost. *)
SocketSupportingDocsUpdate ==
  /\ view # report
  /\ view' = report
  /\ UNCHANGED <<server, wire, modal, clicked, downloads>>

Fetch ==
  /\ fetched = NoFetch
  /\ fetched' = report

(* The dialog loads the application, once for each time it opens. *)
LoadOnOpen ==
  /\ modal.isOpen /\ ~loaded /\ ~modal.fetchAsked
  /\ Fetch
  /\ modal' = [modal EXCEPT !.fetchAsked = TRUE]
  /\ UNCHANGED <<server, view, loaded, generate, post, result, clicked, downloads>>

(* Every ten seconds while something is awaited. *)
Poll ==
  /\ modal.isOpen /\ (modal.awaitingGeneration \/ modal.awaitingSelectiveZip)
  /\ Fetch
  /\ UNCHANGED <<server, view, loaded, generate, post, result, modal, clicked, downloads>>

(* The answer replaces the model, the zip message in it included; a failed  *)
(* fetch changes nothing.                                                   *)
FetchAnswered ==
  /\ fetched # NoFetch
  /\ fetched' = NoFetch
  /\ \/ /\ view' = fetched
        /\ loaded' = TRUE
        /\ result' = NoResult
     \/ UNCHANGED <<view, loaded, result>>
  /\ UNCHANGED <<server, generate, post, modal, clicked, downloads>>

----------------------------------------------------------------------------
(* Rendering the reports *)

(* A report is rendered, or cannot be. *)
RenderReport(r) ==
  /\ report[r] = "missing"
  /\ \E s \in {"ready", "unavailable"} : report' = [report EXCEPT ![r] = s]
  /\ UNCHANGED <<view, zipJob, wire, modal, clicked, downloads>>

(* Wrong on purpose: dropped guard (see TypeOK). *)
TriggerAgain ==
  /\ modal.isOpen /\ loaded /\ ~modal.generationFailed
  /\ Missing(view) # {}
  /\ generate' = generate + 1
  /\ modal' = [modal EXCEPT !.triggered = TRUE]
  /\ UNCHANGED <<server, view, loaded, fetched, post, result, clicked, downloads>>

(* Once per opening, when reports or the package are missing. *)
TriggerGeneration ==
  /\ modal.isOpen /\ loaded
  /\ ~modal.generationFailed /\ ~modal.triggered
  /\ Missing(view) # {}
  /\ generate' = generate + 1
  /\ modal' = [modal EXCEPT !.triggered = TRUE]
  /\ UNCHANGED <<server, view, loaded, fetched, post, result, clicked, downloads>>

(* The answer lists the reports that cannot be rendered. *)
GenerationAnswered ==
  /\ generate > 0
  /\ generate' = generate - 1
  /\ \/ /\ view' = [r \in Reports |->
                     IF report[r] = "unavailable" THEN report[r] ELSE view[r]]
        /\ UNCHANGED modal
     \/ /\ modal' = [modal EXCEPT !.generationFailed = TRUE]
        /\ UNCHANGED view
  /\ UNCHANGED <<server, loaded, fetched, post, result, clicked, downloads>>

----------------------------------------------------------------------------
(* Downloading *)

Open ==
  /\ ~modal.isOpen /\ modal.opens < MaxOpens
  /\ modal' = [modal EXCEPT !.isOpen = TRUE, !.opens = @ + 1]
  /\ UNCHANGED <<server, view, wire, clicked, downloads>>

(* Wrong on purpose: forgets less (see ForgottenWhenClosed). *)
CloseOnly ==
  /\ modal.isOpen
  /\ modal' = [modal EXCEPT !.isOpen = FALSE, !.fetchAsked = FALSE, !.triggered = FALSE]
  /\ UNCHANGED <<server, view, wire, clicked, downloads>>

(* resetDownloadState; requests under way are not called back. *)
Close ==
  /\ modal.isOpen
  /\ modal' = [ClosedModal EXCEPT !.opens = modal.opens]
  /\ result' = NoResult
  /\ clicked' = [c \in Clicks |->
                   [clicked[c] EXCEPT !.closed = @ \/ post[c].at = "sent"]]
  /\ UNCHANGED <<server, view, loaded, fetched, generate, post, downloads>>

Download(c, items) ==
  downloads' = [downloads EXCEPT ![c] = [items |-> items, times |-> @.times + 1]]

(* One document is downloaded at once, several as a zip file; the dialog is *)
(* left in the given state.                                                 *)
PerformDownload(c, items, state) ==
  \/ /\ items = {}
     /\ modal' = [state EXCEPT !.selectiveZipFailed = TRUE]
     /\ UNCHANGED <<post, result, downloads>>
  \/ /\ Cardinality(items) = 1
     /\ Download(c, items)
     /\ modal' = state
     /\ UNCHANGED <<post, result>>
  \/ /\ Cardinality(items) > 1
     /\ post' = [post EXCEPT ![c] = [at |-> "sent", items |-> items]]
     /\ result' = NoResult
     /\ modal' = state
     /\ UNCHANGED downloads

Asked == {c \in Clicks : clicked[c].opening > 0}

(* Downloads what is selected of the documents shown, or waits for the      *)
(* reports among it.                                                        *)
DownloadSelected(selected) ==
  LET c       == Cardinality(Asked) + 1
      ready   == selected \cap Ready(view)
      missing == selected \cap Missing(view)
  IN
  /\ Choosing /\ selected # {} /\ c \in Clicks
  /\ clicked' = [clicked EXCEPT ![c] =
       [items |-> selected, opening |-> modal.opens, closed |-> FALSE]]
  /\ IF missing = {} THEN PerformDownload(c, ready, modal)
     ELSE /\ modal' = [modal EXCEPT
               !.pending = [click |-> c, items |-> ready, missing |-> missing,
                            known |-> Ready(view), all |-> selected = Shown],
               !.awaitingGeneration = TRUE]
          /\ UNCHANGED <<post, result, downloads>>
  /\ UNCHANGED <<server, view, loaded, fetched, generate>>

(* The documents of the pending download once its reports are there: also   *)
(* whatever became ready since.                                             *)
PendingItems ==
  IF modal.pending.all THEN Ready(view)
  ELSE {i \in Ready(view) : i \in modal.pending.items \/ i \notin modal.pending.known}

Settled == [modal EXCEPT !.pending = NoPending, !.awaitingGeneration = FALSE]

WaitsForReports ==
  modal.isOpen /\ modal.awaitingGeneration /\ modal.pending # NoPending

(* Wrong on purpose: goes on without (see DownloadedOnceAsAsked). *)
ContinueWithout ==
  /\ WaitsForReports
  /\ Missing(view) = {} /\ ~modal.generationFailed
  /\ PerformDownload(modal.pending.click, PendingItems, Settled)
  /\ UNCHANGED <<server, view, loaded, fetched, generate, clicked>>

(* A pending download is given up when one of its reports cannot be         *)
(* rendered, and goes on when no report is missing any more.                *)
ContinueDownload ==
  /\ WaitsForReports
  /\ IF \E r \in modal.pending.missing : view[r] = "unavailable"
     THEN modal' = Settled /\ UNCHANGED <<post, result, downloads>>
     ELSE /\ Missing(view) = {} /\ ~modal.generationFailed
          /\ PerformDownload(modal.pending.click, PendingItems, Settled)
  /\ UNCHANGED <<server, view, loaded, fetched, generate, clicked>>

(* The request for a zip file reaches the server, which queues its job. *)
QueueZip(c) ==
  /\ post[c].at = "sent" /\ zipJob[c] = "none"
  /\ zipJob' = [zipJob EXCEPT ![c] = "queued"]
  /\ UNCHANGED <<report, view, wire, modal, clicked, downloads>>

(* Wrong on purpose: a failed request goes unnoticed (see ClickEnds). *)
PostUnnoticed(c) ==
  /\ post[c].at = "sent"
  /\ post' = [post EXCEPT ![c].at = "answered"]
  /\ \/ /\ zipJob[c] # "none"
        /\ modal' = [modal EXCEPT !.requestId = c, !.awaitingSelectiveZip = TRUE]
     \/ UNCHANGED modal
  /\ UNCHANGED <<server, view, loaded, fetched, generate, result, clicked, downloads>>

(* Its answer names the request the dialog waits for from now on, open or   *)
(* not; without one the download failed.                                    *)
PostAnswered(c) ==
  /\ post[c].at = "sent"
  /\ post' = [post EXCEPT ![c].at = "answered"]
  /\ \/ /\ zipJob[c] # "none"
        /\ modal' = [modal EXCEPT !.requestId = c, !.awaitingSelectiveZip = TRUE]
     \/ modal' = [modal EXCEPT !.selectiveZipFailed = TRUE]
  /\ UNCHANGED <<server, view, loaded, fetched, generate, result, clicked, downloads>>

(* The job ends and tells its result, or an error; or nothing arrives. *)
SelectiveZipReady(c) ==
  /\ zipJob[c] = "queued"
  /\ zipJob' = [zipJob EXCEPT ![c] = "ended"]
  /\ \/ \E ok \in BOOLEAN : result' = [click |-> c, ok |-> ok]
     \/ UNCHANGED result
  /\ UNCHANGED <<report, view, loaded, fetched, generate, post, modal, clicked, downloads>>

HasResult ==
  /\ modal.isOpen /\ modal.awaitingSelectiveZip
  /\ modal.requestId # NoClick /\ result.click = modal.requestId

(* The awaited zip file is downloaded. *)
TakeResult ==
  /\ HasResult
  /\ IF result.ok
     THEN /\ Download(result.click, post[result.click].items)
          /\ modal' = [modal EXCEPT !.requestId = NoClick, !.awaitingSelectiveZip = FALSE]
          /\ result' = NoResult
     ELSE /\ modal' = [modal EXCEPT !.selectiveZipFailed = TRUE,
                                    !.awaitingSelectiveZip = FALSE]
          /\ UNCHANGED <<result, downloads>>
  /\ UNCHANGED <<server, view, loaded, fetched, generate, post, clicked>>

(* Wrong on purpose: only rendering times out (see SpinnerEnds). *)
GenerationTimeout ==
  /\ modal.isOpen /\ modal.awaitingGeneration /\ ~modal.generationFailed
  /\ modal' = [modal EXCEPT !.generationFailed = TRUE]
  /\ UNCHANGED <<server, view, wire, clicked, downloads>>

(* Three minutes after it began to wait, whatever is awaited failed. *)
Timeout ==
  /\ modal.isOpen
  /\ \/ modal.awaitingGeneration /\ ~modal.generationFailed
     \/ modal.awaitingSelectiveZip /\ ~modal.selectiveZipFailed
  /\ modal' = [modal EXCEPT
       !.generationFailed = @ \/ modal.awaitingGeneration,
       !.selectiveZipFailed = @ \/ modal.awaitingSelectiveZip]
  /\ UNCHANGED <<server, view, wire, clicked, downloads>>

----------------------------------------------------------------------------
Next ==
  \/ SocketSupportingDocsUpdate \/ LoadOnOpen \/ Poll \/ FetchAnswered
  \/ \E r \in Reports : RenderReport(r)
  \/ TriggerGeneration \/ GenerationAnswered
  \/ Open \/ Close \/ \E selected \in SUBSET Shown : DownloadSelected(selected)
  \/ ContinueDownload \/ TakeResult \/ Timeout
  \/ \E c \in Clicks : QueueZip(c) \/ PostAnswered(c) \/ SelectiveZipReady(c)

(* The browser runs the dialog's effects and timer and gets an answer, if   *)
(* only a failure, to what it asks; nothing is assumed of the messages.     *)
Spec ==
  /\ Init /\ [][Next]_vars
  /\ WF_vars(ContinueDownload) /\ WF_vars(TakeResult) /\ WF_vars(Timeout)
  /\ \A c \in Clicks : WF_vars(PostAnswered(c))

----------------------------------------------------------------------------
(* Properties *)

(* The client has yet to serve click c. *)
WaitsFor(c) ==
  \/ modal.pending.click = c \/ post[c].at = "sent"
  \/ modal.awaitingSelectiveZip /\ modal.requestId = c

(* A click leads to one download at most; it contains all that was          *)
(* selected, and besides only reports that became ready meanwhile.          *)
DownloadedOnceAsAsked ==
  \A c \in Clicks : downloads[c].times > 0 =>
    /\ downloads[c].times = 1
    /\ clicked[c].items \subseteq downloads[c].items
    /\ downloads[c].items \ clicked[c].items \subseteq Reports

(* What was asked for before the dialog was closed is not downloaded when   *)
(* it is open again, unless the answer to the request was still on its way. *)
ForgottenWhenClosed ==
  [][\A c \in Clicks : downloads'[c] # downloads[c] =>
       clicked'[c].opening = modal.opens \/ clicked[c].closed]_vars

(* A lost message or a job that never ends does not leave the dialog        *)
(* preparing forever.                                                       *)
SpinnerEnds == Preparing ~> ~Preparing

(* A click that is not served at once gets an outcome: a download, an       *)
(* error, or a report it needs shown as unavailable; unless the user closes *)
(* the dialog, or another click waits as well: the dialog waits for one zip *)
(* file only, the one whose request was answered last.                      *)
ClickEnds ==
  \A c \in Clicks :
    WaitsFor(c) ~>
      \/ downloads[c].times > 0 \/ ShowError
      \/ \E r \in clicked[c].items \cap Reports : view[r] = "unavailable"
      \/ ~modal.isOpen \/ modal.opens # clicked[c].opening
      \/ \E d \in Clicks \ {c} : WaitsFor(d)
============================================================================
