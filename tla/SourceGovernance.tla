-------------------------- MODULE SourceGovernance --------------------------
(***************************************************************************)
(* The versions of a knowledge source and who may be served: submission    *)
(* with its two forms of deduplication, terminal activation by the         *)
(* ingestion lifecycle, human review of candidates, retirement with its    *)
(* tombstone and cleanup tasks, and the filter retrieval applies           *)
(* (src/src/ingestion/lifecycle.ts, src/src/ingestion/tracking,            *)
(* src/src/knowledge, src/src/retrieval/search/searcher.ts).               *)
(*                                                                         *)
(* The rows live in the SQLite file shared by the server and the command   *)
(* line.  review() and retire() are several transactions of the one server *)
(* process; submissions and task runs of the command line fall between     *)
(* them, and the server may stop there.  How a run holds its claim is      *)
(* IngestionQueue's subject: here a task is pending, running or ended.     *)
(***************************************************************************)
EXTENDS Naturals, Sequences, FiniteSets

CONSTANTS
    Sources,       \* sources of one tenant
    Hashes,        \* contents a document may have
    MaxVersions,   \* versions submitted per source (bound)
    CleanupOps,    \* the clean-up operations, in the order they are enqueued: 1 .. n
    Modes          \* values of ACTIVATION_MODE the process may be started with

ASSUME GovernanceAssumption ==
    /\ MaxVersions \in Nat
    /\ CleanupOps \in Nat
    /\ Modes \subseteq {"auto", "review"}

VARIABLES
    mode,          \* ACTIVATION_MODE, read once at start
    docs,          \* per source, the documents rows; a version is its index and
                   \* its activation order
    active,        \* sources.active_doc_id as a version, 0 for NULL
    lastDoc,       \* sources.last_doc_id as a version, 0 for NULL
    lastOutcome,   \* sources.last_outcome
    lifecycle,     \* sources.lifecycle_state
    tombstones,    \* per source, the version sets of its tombstones
    tasks,         \* task_pending_ops rows, by id
    indexed,       \* <<source, version>> pairs whose chunks are in the search index
    server         \* the request the server is in the middle of

govVars == <<mode, docs, active, lastDoc, lastOutcome, lifecycle, tombstones, tasks,
             indexed, server>>

-----------------------------------------------------------------------------
Ops == 0 .. CleanupOps               \* 0 is "ingest"
Ingest == 0

Terminal == {"completed", "failed", "cancelled"}
Open == {"pending", "running"}
Doc == [hash : Hashes, status : {"pending"} \cup Terminal,
        candidate : {"pending_review", "approved", "rejected"}, reviewed : BOOLEAN]
Task == [src : Sources, ver : 1 .. MaxVersions, op : Ops, status : Open \cup Terminal]

Idle == [op |-> "idle"]
Requests ==
    {Idle}
    \cup [op : {"activate"}, src : Sources, ver : 1 .. MaxVersions]
    \cup [op : {"retire", "enqueue"}, src : Sources, scope : SUBSET (1 .. MaxVersions)]

Versions(s) == DOMAIN docs[s]

GovTypeOK ==
    /\ mode \in Modes
    /\ docs \in [Sources -> Seq(Doc)]
    /\ \A s \in Sources : Len(docs[s]) <= MaxVersions
    /\ \A s \in Sources : active[s] \in {0} \cup Versions(s)
    /\ \A s \in Sources : lastDoc[s] \in {0} \cup Versions(s)
    /\ lastOutcome \in [Sources -> {"none", "unchanged", "pending"} \cup Terminal]
    /\ lifecycle \in [Sources -> {"active", "retired"}]
    /\ tombstones \in [Sources -> Seq(SUBSET (1 .. MaxVersions))]
    /\ tasks \in Seq(Task)
    /\ indexed \subseteq Sources \X (1 .. MaxVersions)
    /\ server \in Requests

Init ==
    /\ mode \in Modes
    /\ docs = [s \in Sources |-> << >>]
    /\ active = [s \in Sources |-> 0]
    /\ lastDoc = [s \in Sources |-> 0]
    /\ lastOutcome = [s \in Sources |-> "none"]
    /\ lifecycle = [s \in Sources |-> "active"]
    /\ tombstones = [s \in Sources |-> << >>]
    /\ tasks = << >>
    /\ indexed = {}
    /\ server = Idle

-----------------------------------------------------------------------------
(* Queries. *)

TasksOf(s, v) == {i \in DOMAIN tasks : tasks[i].src = s /\ tasks[i].ver = v}

\* Mutation: a running task no longer counts as in flight.
InFlightPending(s, h) ==
    \E v \in Versions(s) : docs[s][v].hash = h
        /\ \E i \in TasksOf(s, v) : tasks[i].status = "pending"

\* getInFlightByHash finds a row.  It joins every task of the document.
InFlight(s, h) ==
    \E v \in Versions(s) : docs[s][v].hash = h
        /\ \E i \in TasksOf(s, v) : tasks[i].status \in Open

\* Mutation: an ended cleanup no longer counts.
HasOpenTask(s, v, o) ==
    \E i \in TasksOf(s, v) : tasks[i].op = o /\ tasks[i].status \in Open

\* RetirementServiceImpl.hasTask: any task, whatever its status.
HasTask(s, v, o) == \E i \in TasksOf(s, v) : tasks[i].op = o

\* taskRepo.getByDocId: the newest task of the document, of any operation.
NewestTask(s, v) == {i \in TasksOf(s, v) : \A j \in TasksOf(s, v) : j <= i}

\* Mutation: the activation order is not compared.
WinsAlways(s, v) == v \in Nat

\* The WHERE clause of documentRepo.activate.
Wins(s, v) == active[s] = 0 \/ active[s] < v

\* The branch on this.activationMode at completion.
ActivatesAtOnce == mode = "auto"

-----------------------------------------------------------------------------
(* Writes. *)

Activate(s, v) == active' = [active EXCEPT ![s] = IF Wins(s, v) THEN v ELSE @]

\* Mutation: the source's last outcome is overwritten by any of its documents.
OutcomeOfAny(s, v, st) == lastOutcome' = [lastOutcome EXCEPT ![s] = st]

\* The second UPDATE of documentRepo.updateStatus.
Outcome(s, v, st) ==
    lastOutcome' = [lastOutcome EXCEPT ![s] = IF lastDoc[s] = v THEN st ELSE @]

SetTask(i, st) == tasks' = [tasks EXCEPT ![i].status = st]

NewTask(s, v, o) ==
    tasks' = Append(tasks, [src |-> s, ver |-> v, op |-> o, status |-> "pending"])

-----------------------------------------------------------------------------
(* Submission and cancellation, by the server or the command line. *)

\* The content is the active one: nothing is enqueued.
SubmitUnchanged(s, h) ==
    /\ active[s] # 0
    /\ docs[s][active[s]].hash = h
    /\ lastDoc' = [lastDoc EXCEPT ![s] = active[s]]
    /\ lastOutcome' = [lastOutcome EXCEPT ![s] = "unchanged"]
    /\ UNCHANGED <<mode, docs, active, lifecycle, tombstones, tasks, indexed, server>>

\* A new version; a submission that joins one in flight changes nothing.
SubmitVersion(s, h) ==
    /\ active[s] # 0 => docs[s][active[s]].hash # h
    /\ ~InFlight(s, h)
    /\ Len(docs[s]) < MaxVersions
    /\ LET v == Len(docs[s]) + 1 IN
        /\ docs' = [docs EXCEPT ![s] = Append(@,
             [hash |-> h, status |-> "pending", candidate |-> "approved",
              reviewed |-> FALSE])]
        /\ NewTask(s, v, Ingest)
        /\ lastDoc' = [lastDoc EXCEPT ![s] = v]
    /\ lastOutcome' = [lastOutcome EXCEPT ![s] = "pending"]
    /\ UNCHANGED <<mode, active, lifecycle, tombstones, indexed, server>>

Cancel(s, v) ==
    /\ server = Idle
    /\ \E i \in NewestTask(s, v) :
        /\ tasks[i].status \in Open
        /\ SetTask(i, "cancelled")
    /\ docs' = [docs EXCEPT ![s][v].status = "cancelled"]
    /\ Outcome(s, v, "cancelled")
    /\ UNCHANGED <<mode, active, lastDoc, lifecycle, tombstones, indexed, server>>

-----------------------------------------------------------------------------
(* Task runs.  runNext() claims without looking at the operation, so a      *)
(* cleanup task runs the ingestion pipeline over its document again.        *)

Claim(i) ==
    /\ tasks[i].status = "pending"
    /\ SetTask(i, "running")
    /\ UNCHANGED <<mode, docs, active, lastDoc, lastOutcome, lifecycle, tombstones,
                   indexed, server>>

\* The storeChunks stage.
StoreChunks(i) ==
    /\ tasks[i].status = "running"
    /\ <<tasks[i].src, tasks[i].ver>> \notin indexed
    /\ indexed' = indexed \cup {<<tasks[i].src, tasks[i].ver>>}
    /\ UNCHANGED <<mode, docs, active, lastDoc, lastOutcome, lifecycle, tombstones,
                   tasks, server>>

\* The completion transaction.
Complete(i) ==
    LET s == tasks[i].src
        v == tasks[i].ver
    IN
    /\ tasks[i].status = "running"
    /\ <<s, v>> \in indexed
    /\ SetTask(i, "completed")
    /\ Outcome(s, v, "completed")
    /\ IF ActivatesAtOnce
       THEN /\ docs' = [docs EXCEPT ![s][v].status = "completed"]
            /\ Activate(s, v)
       ELSE /\ docs' = [docs EXCEPT ![s][v] =
                            [@ EXCEPT !.status = "completed",
                                      !.candidate = "pending_review"]]
            /\ UNCHANGED active
    /\ UNCHANGED <<mode, lastDoc, lifecycle, tombstones, indexed, server>>

\* A failed or expired attempt with a retry left.
Retry(i) ==
    /\ tasks[i].status = "running"
    /\ SetTask(i, "pending")
    /\ UNCHANGED <<mode, docs, active, lastDoc, lastOutcome, lifecycle, tombstones,
                   indexed, server>>

\* The last attempt, or a completion transaction that rolled back.
GiveUp(i) ==
    LET s == tasks[i].src
        v == tasks[i].ver
    IN
    /\ tasks[i].status = "running"
    /\ SetTask(i, "failed")
    /\ docs' = [docs EXCEPT ![s][v].status = "failed"]
    /\ Outcome(s, v, "failed")
    /\ UNCHANGED <<mode, active, lastDoc, lifecycle, tombstones, indexed, server>>

-----------------------------------------------------------------------------
(* Review: one UPDATE, then activate(), in no common transaction. *)

Review(s, v, decision) ==
    /\ server = Idle
    /\ docs[s][v].candidate = "pending_review"
    /\ docs' = [docs EXCEPT ![s][v].candidate = decision, ![s][v].reviewed = TRUE]
    /\ server' = IF decision = "approved"
                 THEN [op |-> "activate", src |-> s, ver |-> v] ELSE Idle
    /\ UNCHANGED <<mode, active, lastDoc, lastOutcome, lifecycle, tombstones, tasks, indexed>>

ReviewActivates ==
    /\ server.op = "activate"
    /\ Activate(server.src, server.ver)
    /\ server' = Idle
    /\ UNCHANGED <<mode, docs, lastDoc, lastOutcome, lifecycle, tombstones, tasks, indexed>>

-----------------------------------------------------------------------------
(* Retirement: read, one transaction, then one INSERT per missing cleanup. *)

AlreadyRetired(s) == lifecycle[s] = "retired"

\* Mutation: the repeated call returns without looking for missing cleanups.
NoScopeOnceRetired(s) == IF AlreadyRetired(s) THEN {} ELSE Versions(s)

\* getDocIdsForSource, the scope of the tombstone and of the cleanup.
RetireScope(s) == Versions(s)

\* A source without a submitted document has no sources row: 404.
HasSource(s) == docs[s] # << >>

RetireReads(s) ==
    /\ server = Idle
    /\ HasSource(s)
    /\ server' = [op |-> IF AlreadyRetired(s) THEN "enqueue" ELSE "retire",
                  src |-> s, scope |-> RetireScope(s)]
    /\ UNCHANGED <<mode, docs, active, lastDoc, lastOutcome, lifecycle, tombstones,
                   tasks, indexed>>

\* transition() and createTombstone() in one transaction.
RetireCommits ==
    /\ server.op = "retire"
    /\ lifecycle' = [lifecycle EXCEPT ![server.src] = "retired"]
    /\ tombstones' = [tombstones EXCEPT ![server.src] = Append(@, server.scope)]
    /\ server' = [server EXCEPT !.op = "enqueue"]
    /\ UNCHANGED <<mode, docs, active, lastDoc, lastOutcome, tasks, indexed>>

MissingCleanups ==
    {m \in server.scope \X (Ops \ {Ingest}) : ~HasTask(server.src, m[1], m[2])}

EnqueueCleanup ==
    /\ server.op = "enqueue"
    /\ \E m \in MissingCleanups :
        /\ \A n \in MissingCleanups : m[1] < n[1] \/ (m[1] = n[1] /\ m[2] <= n[2])
        /\ NewTask(server.src, m[1], m[2])
    /\ UNCHANGED <<mode, docs, active, lastDoc, lastOutcome, lifecycle, tombstones,
                   indexed, server>>

RetireReturns ==
    /\ server.op = "enqueue"
    /\ MissingCleanups = {}
    /\ server' = Idle
    /\ UNCHANGED <<mode, docs, active, lastDoc, lastOutcome, lifecycle, tombstones,
                   tasks, indexed>>

\* The server stops, or the database refuses its next statement.
Interrupt ==
    /\ server # Idle
    /\ server' = Idle
    /\ UNCHANGED <<mode, docs, active, lastDoc, lastOutcome, lifecycle, tombstones,
                   tasks, indexed>>

-----------------------------------------------------------------------------
RunTask(i) == Claim(i) \/ StoreChunks(i) \/ Complete(i) \/ Retry(i) \/ GiveUp(i)

ServerContinues == ReviewActivates \/ RetireCommits \/ EnqueueCleanup \/ RetireReturns

Next ==
    \/ \E s \in Sources, h \in Hashes : SubmitUnchanged(s, h) \/ SubmitVersion(s, h)
    \/ \E s \in Sources : \E v \in Versions(s) :
        \/ Cancel(s, v)
        \/ \E d \in {"approved", "rejected"} : Review(s, v, d)
    \/ \E s \in Sources : RetireReads(s)
    \/ \E i \in DOMAIN tasks : RunTask(i)
    \/ ServerContinues
    \/ Interrupt

Spec == Init /\ [][Next]_govVars

\* A request that is not interrupted is carried through, the caller repeats a
\* retire call that did not return, and interruptions stop eventually (the last
\* step of a request leaves what an interruption leaves, and does not count).
GovFairness ==
    /\ WF_govVars(ServerContinues)
    /\ \A s \in Sources : WF_govVars(AlreadyRetired(s) /\ RetireReads(s))
    /\ <>[][Interrupt => ServerContinues]_govVars

LiveSpec == Spec /\ GovFairness

-----------------------------------------------------------------------------
(* Properties. *)

Completed(s) == {v \in Versions(s) : docs[s][v].status = "completed"}

\* The version served: in auto mode the newest one completed, in whatever order
\* the runs of the versions finish; in review mode one a reviewer approved,
\* however reviews, runs and interruptions interleave (activate's order
\* comparison, markPendingReview, review).
ActiveIsRight ==
    \A s \in Sources : lifecycle[s] = "active" =>
        /\ mode = "auto" =>
            /\ active[s] \in {0} \cup Completed(s)
            /\ \A v \in Completed(s) : v <= active[s]
        /\ mode = "review" /\ active[s] # 0 =>
            LET d == docs[s][active[s]] IN d.candidate = "approved" /\ d.reviewed

\* One content of one source is never ingested twice at the same time
\* (getInFlightByHash inside the submit transaction).
OneIngestPerContent ==
    \A s \in Sources : \A i, j \in DOMAIN tasks :
        /\ tasks[i].src = s /\ tasks[i].op = Ingest /\ tasks[i].status \in Open
        /\ tasks[j].src = s /\ tasks[j].op = Ingest /\ tasks[j].status \in Open
        /\ docs[s][tasks[i].ver].hash = docs[s][tasks[j].ver].hash
        => i = j

\* The source reports the outcome of its last submission, not of another
\* version that finished later (recordOutcome, updateStatus).
OutcomeIsLast ==
    \A s \in Sources : lastDoc[s] # 0 =>
        lastOutcome[s] \in {"unchanged", docs[s][lastDoc[s]].status}

\* A retired source has exactly one tombstone, any other none, and no cleanup is
\* enqueued twice for a document, through interrupted calls and calls repeated
\* after the first cleanups ran (the transaction in retire, hasTask).
RetirementExact ==
    /\ \A s \in Sources : Len(tombstones[s]) = IF lifecycle[s] = "retired" THEN 1 ELSE 0
    /\ \A i, j \in DOMAIN tasks :
        /\ tasks[i].op # Ingest /\ tasks[i].op = tasks[j].op
        /\ tasks[i].src = tasks[j].src /\ tasks[i].ver = tasks[j].ver
        => i = j

\* Every version a tombstone names gets all its cleanups, although the
\* first call may stop between the transaction and the inserts.
CleanupEventuallyEnqueued ==
    \A s \in Sources : lifecycle[s] = "retired" ~>
        \A k \in DOMAIN tombstones[s] : \A v \in tombstones[s][k] :
            \A o \in Ops \ {Ingest} : HasTask(s, v, o)

-----------------------------------------------------------------------------
(* What the comments of the code promise and the code does not keep. *)

\* The documents retrieval may return: activeTermsFilter drops the filter when
\* no source has an active version.
ActiveDocs == {<<s, active[s]>> : s \in {u \in Sources : active[u] # 0}}
Retrievable == IF ActiveDocs = {} THEN indexed ELSE indexed \cap ActiveDocs


\* Approved and rejected are terminal (header of candidate_review_store.ts).
ReviewIsFinal ==
    [][\A s \in Sources : \A v \in Versions(s) :
        docs[s][v].reviewed => docs'[s][v].candidate = docs[s][v].candidate]_docs

\* In review mode content takes effect only after a human review (README,
\* ACTIVATION_MODE): retrieval never returns a version nobody has reviewed.
ServedAfterReview ==
    mode = "review" => \A sv \in Retrievable : docs[sv[1]][sv[2]].reviewed

=============================================================================
