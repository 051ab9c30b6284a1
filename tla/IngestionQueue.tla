--------------------------- MODULE IngestionQueue ---------------------------
(***************************************************************************)
(* The ingestion task queue: the SQLite table task_pending_ops with its    *)
(* dead letters and processing spans, driven by IngestionLifecycle         *)
(* (src/src/ingestion/lifecycle.ts), the server's polling worker           *)
(* (src/src/api/worker.ts) and the ingestion command line                  *)
(* (src/src/ingestion/cli.ts), which share one database file.              *)
(*                                                                         *)
(* Every action is one SQLite transaction (or one statement) of one        *)
(* process, so every interleaving two processes can produce is a behaviour *)
(* here.  A document has exactly one "ingest" task, enqueued in the        *)
(* transaction that inserts the document, so a task id stands for its      *)
(* document too.                                                           *)
(*                                                                         *)
(* Time is a natural number of ticks.  Time that nobody waits for is not   *)
(* modelled: Tick is enabled only while some retry is not yet due or some  *)
(* claim is not yet stale, because passing time changes no guard in any    *)
(* other state.  That keeps the clock finite without a bound on it.        *)
(***************************************************************************)
EXTENDS Integers, Sequences, FiniteSets

CONSTANTS
    TaskCount,     \* how many documents are ever submitted (bound)
    Workers,       \* server processes: recover stale claims, then run one task
    Clis,          \* command-line processes: run tasks, never recover claims
    RetryDelays,   \* back-off before retry 1, 2, ...; its length is the retry budget
    ClaimTimeout,  \* age at which a claim counts as stale
    StageCount     \* stages of one run (chunk, wikify, storeChunks, storeGraph)

ASSUME QueueAssumption ==
    /\ TaskCount \in Nat
    /\ Workers \cap Clis = {}
    /\ RetryDelays \in Seq(Nat \ {0})
    /\ ClaimTimeout \in Nat \ {0}
    /\ StageCount \in Nat \ {0}

VARIABLES
    now,           \* the wall clock every process reads
    status,        \* task_pending_ops.status, "absent" before the row exists
    failCount,     \* task_pending_ops.fail_count
    claimedAt,     \* task_pending_ops.claimed_at, the fencing token
    nextAttempt,   \* task_pending_ops.next_attempt_at
    deadLetters,   \* tasks with a row in task_dead_letters
    docStatus,     \* documents.status
    spans,         \* processing_spans: per document, one tree per attempt, by id
    pc,            \* where each process stands
    run,           \* the local variables of the runNext() call of each process
    pollAt         \* recoveredAt of the recovery loop of each process

queueVars == <<status, failCount, claimedAt, nextAttempt, deadLetters, docStatus>>
vars == <<now, queueVars, spans, pc, run, pollAt>>

-----------------------------------------------------------------------------
Tasks  == 1 .. TaskCount
Stages == 1 .. StageCount
Procs  == Workers \cup Clis

Never    == 0                     \* SQL NULL in a timestamp column; the clock starts at 1
Terminal == {"completed", "failed", "cancelled"}
TaskStatus == {"absent", "pending", "running"} \cup Terminal
DocStatus  == {"absent", "pending"} \cup Terminal
SpanStatus == {"pending", "running", "done", "failed", "skipped", "cancelled"}

\* One attempt: the root span and its stage spans.
SpanTree == [root : SpanStatus, stage : [Stages -> SpanStatus]]
NewTree  == [root |-> "running", stage |-> [s \in Stages |-> "pending"]]

\* What a runNext() call remembers between two statements.
RunState == [task : Tasks, token : Nat, failCount : Nat,
             tree : Nat, stage : Nat]
NoRun    == [task |-> 0, token |-> Never, failCount |-> 0,
             tree |-> 0, stage |-> 0]

\* "givingUp" is the catch block once retryable is false.
Failing  == {"failing", "givingUp"}
Holding  == {"claimed", "running", "inStage", "finishing"} \cup Failing
PcValues == {"idle", "recovering"} \cup Holding

TypeOK ==
    /\ now \in Nat \ {0}
    /\ status \in [Tasks -> TaskStatus]
    /\ failCount \in [Tasks -> Nat]
    /\ claimedAt \in [Tasks -> Nat]
    /\ nextAttempt \in [Tasks -> Nat]
    /\ deadLetters \subseteq Tasks
    /\ docStatus \in [Tasks -> DocStatus]
    /\ spans \in [Tasks -> Seq(SpanTree)]
    /\ pc \in [Procs -> PcValues]
    /\ run \in [Procs -> RunState \cup {NoRun}]
    /\ pollAt \in [Procs -> Nat]

Init ==
    /\ now = 1
    /\ status = [t \in Tasks |-> "absent"]
    /\ failCount = [t \in Tasks |-> 0]
    /\ claimedAt = [t \in Tasks |-> Never]
    /\ nextAttempt = [t \in Tasks |-> Never]
    /\ deadLetters = {}
    /\ docStatus = [t \in Tasks |-> "absent"]
    /\ spans = [t \in Tasks |-> << >>]
    /\ pc = [p \in Procs |-> "idle"]
    /\ run = [p \in Procs |-> NoRun]
    /\ pollAt = [p \in Procs |-> Never]

-----------------------------------------------------------------------------
(* Helpers over the rows. *)

\* Mutation: the update is keyed by the task id alone.
FencedById(p) == run[p].task \in Tasks

\* The claim a process took is still the one in the row: the WHERE clause
\* "status = 'running' AND claimed_at = ?" of every fenced update.
Fenced(p) ==
    /\ status[run[p].task] = "running"
    /\ claimedAt[run[p].task] = run[p].token

\* Mutations: the ladder is one step short; the delay is subtracted.
RetryLeftShort(fails) == fails + 1 < Len(RetryDelays)
RetryInThePast(fails, base) == base - RetryDelays[fails + 1]

\* RETRY_DELAYS_MS[failCount] is undefined once the budget is spent.
RetryLeft(fails) == fails < Len(RetryDelays)
RetryAt(fails, base) == base + RetryDelays[fails + 1]

\* Mutation: the claim query forgets status = 'pending'.
ClaimableAnyOpen ==
    {t \in Tasks : status[t] \in {"pending", "running"} /\ nextAttempt[t] <= now}

\* Rows the claim query can return.
Claimable == {t \in Tasks : status[t] = "pending" /\ nextAttempt[t] <= now}

\* Mutations: the cutoff lies in the future; a claim is stale at once.
StaleAfterCutoff(since) ==
    {t \in Tasks : status[t] = "running" /\ claimedAt[t] >= since + ClaimTimeout}
StaleAtOnce(since) == {t \in Tasks : status[t] = "running" /\ claimedAt[t] <= since}

\* Rows the stale-claim query can return for a recovery that started at since.
Stale(since) ==
    {t \in Tasks : status[t] = "running" /\ claimedAt[t] + ClaimTimeout <= since}

OldestFirst(S) ==
    {t \in S : \A u \in S : \/ claimedAt[t] < claimedAt[u]
                            \/ claimedAt[t] = claimedAt[u] /\ t <= u}

\* Mutation: only the queue row is updated, the document is forgotten.
UpdateStatusNever(t, st) == docStatus' = [docStatus EXCEPT ![t] = @]

\* docRepo.updateStatus
UpdateStatus(t, st) == docStatus' = [docStatus EXCEPT ![t] = st]

\* skipPendingChildren(root) followed by markFailed(root).
SkipChildren(tree) ==
    [s \in Stages |-> IF tree.stage[s] = "pending" THEN "skipped" ELSE tree.stage[s]]
CloseFailed(tree) ==
    [root  |-> IF tree.root = "running" THEN "failed" ELSE tree.root,
     stage |-> SkipChildren(tree)]

\* recoverStaleClaims also fails the stage spans left running.
CloseStale(tree) ==
    [root  |-> "failed",
     stage |-> [s \in Stages |-> IF tree.stage[s] = "running" THEN "failed"
                                 ELSE SkipChildren(tree)[s]]]

\* cancelOpen(docId): every open span of the document.
CancelSpan(st) == IF st \in {"pending", "running"} THEN "cancelled" ELSE st
CancelOpen(tree) ==
    [root  |-> CancelSpan(tree.root),
     stage |-> [s \in Stages |-> CancelSpan(tree.stage[s])]]

\* The last root span of the document that is still running.
LastRunningRoot(t, i) ==
    /\ spans[t][i].root = "running"
    /\ \A j \in DOMAIN spans[t] : j > i => spans[t][j].root # "running"

-----------------------------------------------------------------------------
(* Requests: submit() that enqueues, and cancel(). *)

Submit(t) ==
    /\ status[t] = "absent"
    /\ \A u \in Tasks : u < t => status[u] # "absent"
    /\ status' = [status EXCEPT ![t] = "pending"]
    /\ docStatus' = [docStatus EXCEPT ![t] = "pending"]
    /\ UNCHANGED <<now, failCount, claimedAt, nextAttempt, deadLetters, spans,
                   pc, run, pollAt>>

Cancel(t) ==
    /\ status[t] \in {"pending", "running"}
    /\ status' = [status EXCEPT ![t] = "cancelled"]
    /\ claimedAt' = [claimedAt EXCEPT ![t] = Never]
    /\ nextAttempt' = [nextAttempt EXCEPT ![t] = Never]
    /\ UpdateStatus(t, "cancelled")
    /\ spans' = [spans EXCEPT ![t] = [i \in DOMAIN spans[t] |-> CancelOpen(spans[t][i])]]
    /\ UNCHANGED <<now, failCount, deadLetters, pc, run, pollAt>>

-----------------------------------------------------------------------------
(* The worker's poll: recoverStaleClaims(), then runNext(). *)

StartPoll(w) ==
    /\ pc[w] = "idle"
    /\ pc' = [pc EXCEPT ![w] = "recovering"]
    /\ pollAt' = [pollAt EXCEPT ![w] = now]
    /\ UNCHANGED <<now, queueVars, spans, run>>

\* One transaction of the recovery loop.
RecoverStaleClaim(w) ==
    /\ pc[w] = "recovering"
    /\ \E t \in OldestFirst(Stale(pollAt[w])) :
        /\ spans' = [spans EXCEPT ![t] =
                       [i \in DOMAIN spans[t] |->
                          IF LastRunningRoot(t, i) THEN CloseStale(spans[t][i])
                          ELSE spans[t][i]]]
        /\ claimedAt' = [claimedAt EXCEPT ![t] = Never]
        /\ failCount' = [failCount EXCEPT ![t] = failCount[t] + 1]
        /\ \/ /\ RetryLeft(failCount[t])
              /\ status' = [status EXCEPT ![t] = "pending"]
              /\ nextAttempt' =
                    [nextAttempt EXCEPT ![t] = RetryAt(failCount[t], pollAt[w])]
              /\ UNCHANGED <<deadLetters, docStatus>>
           \/ /\ ~RetryLeft(failCount[t])
              /\ status' = [status EXCEPT ![t] = "failed"]
              /\ nextAttempt' = [nextAttempt EXCEPT ![t] = Never]
              /\ deadLetters' = deadLetters \cup {t}
              /\ UpdateStatus(t, "failed")
    /\ UNCHANGED <<now, pc, run, pollAt>>

\* A process about to call claimNext(): a worker after its recovery loop found
\* nothing more, a command line at any turn of its loop.
ReadyToClaim(p) ==
    \/ p \in Clis /\ pc[p] = "idle"
    \/ p \in Workers /\ pc[p] = "recovering" /\ Stale(pollAt[p]) = {}

PollEmpty(w) ==
    /\ pc[w] = "recovering"
    /\ ReadyToClaim(w)
    /\ Claimable = {}
    /\ pc' = [pc EXCEPT ![w] = "idle"]
    /\ UNCHANGED <<now, queueVars, spans, run, pollAt>>

ClaimNext(p) ==
    /\ ReadyToClaim(p)
    /\ \E t \in Claimable :
        /\ \A u \in Claimable : t <= u
        /\ status' = [status EXCEPT ![t] = "running"]
        /\ claimedAt' = [claimedAt EXCEPT ![t] = now]
        /\ nextAttempt' = [nextAttempt EXCEPT ![t] = Never]
        /\ run' = [run EXCEPT ![p] =
                     [task |-> t, token |-> now, failCount |-> failCount[t],
                      tree |-> 0, stage |-> 1]]
    /\ pc' = [pc EXCEPT ![p] = "claimed"]
    /\ UNCHANGED <<now, failCount, deadLetters, docStatus, spans, pollAt>>

-----------------------------------------------------------------------------
(* The body of runNext() after the claim. *)

\* The transaction that inserts the root span and the pending stage spans.
OpenSpans(p) ==
    /\ pc[p] = "claimed"
    /\ LET t == run[p].task IN
        /\ spans' = [spans EXCEPT ![t] = Append(spans[t], NewTree)]
        /\ run' = [run EXCEPT ![p].tree = Len(spans[t]) + 1]
    /\ pc' = [pc EXCEPT ![p] = "running"]
    /\ UNCHANGED <<now, queueVars, pollAt>>

StageSpan(p) == spans[run[p].task][run[p].tree].stage[run[p].stage]

SetStageSpan(p, st) ==
    spans' = [spans EXCEPT ![run[p].task][run[p].tree].stage[run[p].stage] = st]

\* The runner gives up before its first stage (parser routing, metadata).
RunThrows(p) ==
    /\ pc[p] = "running"
    /\ run[p].stage = 1
    /\ pc' = [pc EXCEPT ![p] = "failing"]
    /\ UNCHANGED <<now, queueVars, spans, run, pollAt>>

\* runStage() up to the await: markRunning must find the span pending.
StartStage(p) ==
    /\ pc[p] = "running"
    /\ \/ /\ StageSpan(p) = "pending"
          /\ SetStageSpan(p, "running")
          /\ pc' = [pc EXCEPT ![p] = "inStage"]
       \/ /\ StageSpan(p) # "pending"
          /\ pc' = [pc EXCEPT ![p] = "failing"]
          /\ UNCHANGED spans
    /\ UNCHANGED <<now, queueVars, run, pollAt>>

\* The operation resolved and markDone found the span still running.
FinishStage(p) ==
    /\ pc[p] = "inStage"
    /\ StageSpan(p) = "running"
    /\ SetStageSpan(p, "done")
    /\ LET last == run[p].stage = StageCount IN
        /\ run' = [run EXCEPT ![p].stage = run[p].stage + 1]
        /\ pc' = [pc EXCEPT ![p] = IF last THEN "finishing" ELSE "running"]
    /\ UNCHANGED <<now, queueVars, pollAt>>

\* The operation rejected, or markDone found the span closed by someone else.
FailStage(p) ==
    /\ pc[p] = "inStage"
    /\ IF StageSpan(p) = "running" THEN SetStageSpan(p, "failed") ELSE UNCHANGED spans
    /\ pc' = [pc EXCEPT ![p] = "failing"]
    /\ UNCHANGED <<now, queueVars, run, pollAt>>

\* The completion transaction, all of it or none of it.
Complete(p) ==
    /\ pc[p] = "finishing"
    /\ LET t == run[p].task IN
        /\ spans[t][run[p].tree].root = "running"
        /\ Fenced(p)
        /\ spans' = [spans EXCEPT ![t][run[p].tree].root = "done"]
        /\ status' = [status EXCEPT ![t] = "completed"]
        /\ claimedAt' = [claimedAt EXCEPT ![t] = Never]
        /\ nextAttempt' = [nextAttempt EXCEPT ![t] = Never]
        /\ UpdateStatus(t, "completed")
    /\ pc' = [pc EXCEPT ![p] = "idle"]
    /\ run' = [run EXCEPT ![p] = NoRun]
    /\ UNCHANGED <<now, failCount, deadLetters, pollAt>>

\* The completion transaction threw (its claim or its root span is gone, or the
\* database refused it) and rolled back.
CompletionRollsBack(p) ==
    /\ pc[p] = "finishing"
    /\ pc' = [pc EXCEPT ![p] = "givingUp"]
    /\ UNCHANGED <<now, queueVars, spans, run, pollAt>>

\* The catch block: recordFailure() or deadLetter(), fenced by the claim.
RetryAgain(p) == pc[p] = "failing" /\ RetryLeft(run[p].failCount)
DeadLetters(p) == pc[p] = "failing" /\ ~RetryLeft(run[p].failCount)

RecordFailure(p) ==
    /\ pc[p] \in Failing
    /\ Fenced(p)
    /\ LET t == run[p].task IN
        /\ spans' = [spans EXCEPT ![t][run[p].tree] = CloseFailed(spans[t][run[p].tree])]
        /\ failCount' = [failCount EXCEPT ![t] = failCount[t] + 1]
        /\ claimedAt' = [claimedAt EXCEPT ![t] = Never]
        /\ \/ /\ RetryAgain(p)
              /\ status' = [status EXCEPT ![t] = "pending"]
              /\ nextAttempt' = [nextAttempt EXCEPT ![t] = RetryAt(run[p].failCount, now)]
              /\ UNCHANGED <<deadLetters, docStatus>>
           \/ /\ ~RetryAgain(p)
              /\ status' = [status EXCEPT ![t] = "failed"]
              /\ nextAttempt' = [nextAttempt EXCEPT ![t] = Never]
              /\ UpdateStatus(t, "failed")
              /\ deadLetters' = IF DeadLetters(p) THEN deadLetters \cup {t}
                                ELSE deadLetters
    /\ pc' = [pc EXCEPT ![p] = "idle"]
    /\ run' = [run EXCEPT ![p] = NoRun]
    /\ UNCHANGED <<now, pollAt>>

\* The claim was lost.  A cancelled task, or a dead letter another process has
\* already written, commits the span updates; anything else rolls them back.
LoseClaim(p) ==
    /\ pc[p] \in Failing
    /\ ~Fenced(p)
    /\ LET t == run[p].task
           keeps == \/ status[t] = "cancelled"
                    \/ DeadLetters(p) /\ status[t] = "failed" /\ t \in deadLetters
       IN  spans' = IF keeps
                    THEN [spans EXCEPT ![t][run[p].tree] =
                            CloseFailed(spans[t][run[p].tree])]
                    ELSE spans
    /\ pc' = [pc EXCEPT ![p] = "idle"]
    /\ run' = [run EXCEPT ![p] = NoRun]
    /\ UNCHANGED <<now, queueVars, pollAt>>

-----------------------------------------------------------------------------
(* The environment: a process dies and starts again, and time passes. *)

Crash(p) ==
    /\ pc[p] # "idle"
    /\ pc' = [pc EXCEPT ![p] = "idle"]
    /\ run' = [run EXCEPT ![p] = NoRun]
    /\ UNCHANGED <<now, queueVars, spans, pollAt>>

SomebodyWaits ==
    \E t \in Tasks : \/ status[t] = "pending" /\ nextAttempt[t] > now
                     \/ status[t] = "running" /\ claimedAt[t] + ClaimTimeout > now

Tick ==
    /\ SomebodyWaits
    /\ now' = now + 1
    /\ UNCHANGED <<queueVars, spans, pc, run, pollAt>>

-----------------------------------------------------------------------------
Poll(w) == StartPoll(w) \/ RecoverStaleClaim(w) \/ PollEmpty(w)

RunStep(p) ==
    \/ ClaimNext(p) \/ OpenSpans(p)
    \/ RunThrows(p) \/ StartStage(p) \/ FinishStage(p) \/ FailStage(p)
    \/ Complete(p) \/ CompletionRollsBack(p) \/ RecordFailure(p) \/ LoseClaim(p)

Next ==
    \/ \E t \in Tasks : Submit(t) \/ Cancel(t)
    \/ \E w \in Workers : Poll(w)
    \/ \E p \in Procs : RunStep(p) \/ Crash(p)
    \/ Tick

Spec == Init /\ [][Next]_vars

\* The worker's interval timer keeps firing and its stage operations return
\* (every client call has a finite timeout); time passes; crashes stop
\* eventually.  Nothing is assumed of a command line: it may stop for good.
\* An empty poll and a silently lost claim leave what a crash leaves, and they
\* may go on for ever; only steps that nothing but a crash explains stop.
NoCrash == \A p \in Procs : Crash(p) => PollEmpty(p) \/ LoseClaim(p)
Fairness ==
    /\ \A w \in Workers : WF_vars(Poll(w) \/ RunStep(w))
    /\ WF_vars(Tick)
    /\ <>[][NoCrash]_vars

LiveSpec == Spec /\ Fairness

-----------------------------------------------------------------------------
(* Properties. *)

\* p still owns the claim it took on t: the row carries the token p was given.
Owns(p, t) ==
    /\ pc[p] \in Holding
    /\ run[p].task = t
    /\ status[t] = "running"
    /\ claimedAt[t] = run[p].token

\* However late a process wakes up, the timestamp it was given fences it: no
\* two processes ever own the same task (claimNext, recordFailure, finalize).
ClaimExclusive ==
    \A p, q \in Procs : \A t \in Tasks : Owns(p, t) /\ Owns(q, t) => p = q

\* The status clients read on the document says what the queue says of its
\* task, through crashes, recoveries and cancellations (updateStatus calls).
DocumentMirrorsTask ==
    \A t \in Tasks :
        docStatus[t] = IF status[t] = "running" THEN "pending" ELSE status[t]

\* A dead letter is written exactly when the retry budget is spent: never
\* early, never for a task that can still run (deadLetter, RETRY_DELAYS_MS).
DeadLetterExact ==
    /\ \A t \in deadLetters :
        status[t] = "failed" /\ failCount[t] = Len(RetryDelays) + 1
    /\ \A t \in Tasks : status[t] \in {"pending", "running"} =>
        failCount[t] <= Len(RetryDelays)

\* The span trees are an exact ledger of the attempts. A completed task has one
\* attempt whose root span is done, with every stage of it done, and no other task
\* has one (completion transaction). Every attempt is paid for: the trees opened
\* for a task, plus claims about to open one, never exceed the recorded failures
\* plus the attempt the row accounts for, so crashes and late processes cannot
\* buy extra attempts.
AttemptLedger ==
    \A t \in Tasks :
        LET done == {i \in DOMAIN spans[t] : spans[t][i].root = "done"} IN
        /\ Cardinality(done) = IF status[t] = "completed" THEN 1 ELSE 0
        /\ \A i \in done : \A s \in Stages : spans[t][i].stage[s] = "done"
        /\ Len(spans[t])
             + Cardinality({p \in Procs : pc[p] = "claimed" /\ run[p].task = t})
             <= failCount[t]
                + IF status[t] \in {"running", "completed", "cancelled"} THEN 1 ELSE 0

\* A terminal status is final, for the task and for the document.
TerminalIsFinal ==
    [][\A t \in Tasks :
        /\ status[t] \in Terminal => status'[t] = status[t]
        /\ docStatus[t] \in Terminal => docStatus'[t] = docStatus[t]]_vars

\* A running task stops running only because it is cancelled, because its claim
\* had really expired, or because the process that owns it says so.
NoStolenClaim ==
    [][\A t \in Tasks : status[t] = "running" /\ status'[t] # "running" =>
        \/ status'[t] = "cancelled"
        \/ claimedAt[t] + ClaimTimeout <= now
        \/ \E p \in Procs : Owns(p, t) /\ pc'[p] = "idle"]_vars

\* Every submitted task reaches a terminal status once crashes stop.
SubmissionSettles ==
    \A t \in Tasks : status[t] = "pending" ~> status[t] \in Terminal

\* The queue keeps the contract of JobContract: a bounded number of tries, one
\* final outcome, a dead letter exactly when the tries are spent.
Contract == INSTANCE JobContract WITH
    Jobs <- Tasks, Budget <- Len(RetryDelays),
    outcome <- docStatus, spent <- failCount, parked <- deadLetters
KeepsContract == Contract!Spec

=============================================================================
