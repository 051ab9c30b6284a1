---------------------------- MODULE ImportCenter ----------------------------
(***************************************************************************)
(* The import centre of the chat page: a folder is uploaded by a few        *)
(* worker loops, a URL or a sitemap by one request; a timer then polls the  *)
(* status of what was submitted (src/frontend/js/app.js, the /ingest routes *)
(* of src/src/api/ingest.ts). A document's way through the ingestion queue  *)
(* is IngestionQueue's subject: here it runs, and completes or fails.       *)
(***************************************************************************)
EXTENDS Naturals, Sequences, FiniteSets, SequencesExt, FiniteSetsExt

CONSTANTS
    MaxItems,          \* items ever imported (bound)
    Concurrency,       \* IMPORT_CONCURRENCY
    MaxPolls           \* rounds of status requests a tick may find under way (bound)

ASSUME ImportAssumption ==
    MaxItems \in Nat /\ Concurrency \in Nat \ {0} /\ MaxPolls \in Nat

VARIABLES
    item,              \* status of each item made so far, in order
    queue,             \* state.importQueue: the items shown
    document,          \* what the server knows of the item's document
    importRunning,     \* state.importRunning
    timer,             \* state.importPollTimer is set
    rounds,            \* per round of status requests, the items not answered yet
    urlAsked           \* a POST /ingest/url is under way

importVars == <<item, queue, document, importRunning, timer, rounds, urlAsked>>

-----------------------------------------------------------------------------
Items == 1 .. MaxItems
ItemStatus == {"queued", "uploading", "pending", "processing", "completed", "failed"}

ImportTypeOK ==
    /\ item \in Seq(ItemStatus) /\ Len(item) <= MaxItems
    /\ queue \subseteq DOMAIN item
    /\ document \in [Items -> {"none", "running", "completed", "failed"}]
    /\ {importRunning, timer, urlAsked} \subseteq BOOLEAN
    /\ \A k \in DOMAIN rounds : rounds[k] \subseteq DOMAIN item
    /\ importRunning = (\E i \in DOMAIN item : item[i] = "uploading")

ImportInit ==
    /\ item = << >>
    /\ queue = {}
    /\ document = [i \in Items |-> "none"]
    /\ importRunning = FALSE
    /\ timer = FALSE
    /\ rounds = << >>
    /\ urlAsked = FALSE

-----------------------------------------------------------------------------
(* Polling. *)

Awaited(its, q) == {i \in q : its[i] \in {"pending", "processing"}}

\* pollImportItems: a round of requests, or the end of polling.
Poll(pending) ==
    /\ timer' = (pending # {})
    /\ rounds' = IF pending = {} THEN rounds ELSE Append(rounds, pending)

StartImportPollingIfNeeded ==
    IF timer THEN UNCHANGED <<timer, rounds>> ELSE Poll(Awaited(item', queue'))

\* The interval does not wait for the round before.
Tick ==
    /\ timer
    /\ Len(rounds) < MaxPolls
    /\ Poll(Awaited(item, queue))
    /\ UNCHANGED <<item, queue, document, importRunning, urlAsked>>

\* The answer of GET /ingest/:docId/status (IngestionLifecycle.getStatus).
StatusBody(i) ==
    [docId |-> i, task |-> document[i], documentStatus |-> document[i],
     lifecycleOutcome |-> document[i]]

\* data.stage || data.status || ""
Stage(data) ==
    IF "stage" \in DOMAIN data THEN data.stage
    ELSE IF "status" \in DOMAIN data THEN data.status ELSE ""

\* pollSingleImportItem: a refused request fails the item, a broken one does not.
Polled(i, reply) ==
    CASE reply = "network" -> item[i]
      [] reply = "refused" -> "failed"
      [] reply = "ok" ->
            LET stage == Stage(StatusBody(i)) IN
            IF stage \in {"done", "completed", "succeeded"} THEN "completed"
            ELSE IF stage \in {"failed", "error"} THEN "failed"
            ELSE "processing"

\* The last answer of a round ends polling if nothing is awaited any more.
Answer(k, i, reply) ==
    /\ i \in rounds[k]
    /\ item' = [item EXCEPT ![i] = Polled(i, reply)]
    /\ IF rounds[k] = {i}
       THEN /\ rounds' = RemoveAt(rounds, k)
            /\ timer' = (timer /\ Awaited(item', queue) # {})
       ELSE /\ rounds' = [rounds EXCEPT ![k] = @ \ {i}]
            /\ UNCHANGED timer
    /\ UNCHANGED <<queue, document, importRunning, urlAsked>>

-----------------------------------------------------------------------------
(* Folder import. *)

Fresh(n) == Len(item) + 1 .. Len(item) + n

\* The folder input is disabled while an import runs. Each worker loop takes its
\* first file at once.
HandleFolderSelect(n) ==
    /\ ~importRunning
    /\ Len(item) + n <= MaxItems
    /\ item' = item \o [k \in 1 .. n |-> IF k <= Concurrency THEN "uploading" ELSE "queued"]
    /\ queue' = Fresh(n)
    /\ importRunning' = (n > 0)
    /\ UNCHANGED <<document, timer, rounds, urlAsked>>

\* Mutation: a failed upload ends its worker loop.
LoopGoesOnIfOk(ok) == ok

\* ImportWorkerLoop continues after a failed upload too.
LoopGoesOn(ok) == ok \in BOOLEAN

\* The loop takes the first queued item of the list as it is now.
TakeNext(its, ok) ==
    LET waiting == {i \in queue : its[i] = "queued"} IN
    IF LoopGoesOn(ok) /\ waiting # {}
    THEN [its EXCEPT ![Min(waiting)] = "uploading"]
    ELSE its

\* One upload ends and its loop goes on, up to the next upload or its end.
UploadEnds(i, ok) ==
    /\ i \in DOMAIN item /\ item[i] = "uploading"
    /\ item' = TakeNext([item EXCEPT ![i] = IF ok THEN "pending" ELSE "failed"], ok)
    /\ UNCHANGED <<queue, urlAsked>>
    /\ document' = [document EXCEPT ![i] = IF ok THEN "running" ELSE @]
    /\ IF ok THEN StartImportPollingIfNeeded ELSE UNCHANGED <<timer, rounds>>
    /\ importRunning' = (\E j \in DOMAIN item' : item'[j] = "uploading")

-----------------------------------------------------------------------------
(* URL import: the submit button is disabled until the answer is here.       *)

HandleUrlImport ==
    /\ ~urlAsked
    /\ urlAsked' = TRUE
    /\ UNCHANGED <<item, queue, document, importRunning, timer, rounds>>

\* A page the server could not fetch has no document. The list is replaced, also
\* under a folder import.
UrlSubmitted(pages) ==
    /\ urlAsked
    /\ Len(item) + Len(pages) <= MaxItems
    /\ item' = item \o pages
    /\ queue' = Fresh(Len(pages))
    /\ document' = [i \in Items |->
         IF i \in queue' /\ item'[i] = "pending" THEN "running" ELSE document[i]]
    /\ StartImportPollingIfNeeded
    /\ urlAsked' = FALSE
    /\ UNCHANGED importRunning

UrlRefused ==
    /\ urlAsked
    /\ urlAsked' = FALSE
    /\ UNCHANGED <<item, queue, document, importRunning, timer, rounds>>

-----------------------------------------------------------------------------
\* The worker of the server finishes the document.
DocumentSettles(i, outcome) ==
    /\ document[i] = "running"
    /\ document' = [document EXCEPT ![i] = outcome]
    /\ UNCHANGED <<item, queue, importRunning, timer, rounds, urlAsked>>

ImportNext ==
    \/ Tick
    \/ \E k \in DOMAIN rounds, i \in Items, reply \in {"ok", "refused", "network"} :
        Answer(k, i, reply)
    \/ \E n \in 0 .. MaxItems : HandleFolderSelect(n)
    \/ \E i \in Items, ok \in BOOLEAN : UploadEnds(i, ok)
    \/ HandleUrlImport
    \/ \E n \in 0 .. 2 : \E pages \in [1 .. n -> {"pending", "failed"}] : UrlSubmitted(pages)
    \/ UrlRefused
    \/ \E i \in Items, outcome \in {"completed", "failed"} : DocumentSettles(i, outcome)

\* Uploads and status requests are answered; the timer ticks.
ImportFairness ==
    /\ \A i \in Items : WF_importVars(\E ok \in BOOLEAN : UploadEnds(i, ok))
    /\ WF_importVars(Tick)
    /\ \A i \in Items : SF_importVars(\E k \in DOMAIN rounds : Answer(k, i, "ok"))

-----------------------------------------------------------------------------
(* Properties. *)

\* Every file of the folder shown gets its turn, whatever happens to the uploads
\* before it (importWorkerLoop).
ImportDrains == \A i \in Items :
    (i \in queue /\ item[i] = "queued")
        ~> (i \notin queue \/ item[i] \notin {"queued", "uploading"})

\* A document of the list that the server has completed comes to be shown as
\* completed, or its status could not be had (pollSingleImportItem).
ImportSeen == \A i \in Items :
    (i \in queue /\ document[i] = "completed")
        ~> (i \notin queue \/ item[i] \in {"completed", "failed"})
=============================================================================
