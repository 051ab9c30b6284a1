------------------------------ MODULE ChatRuns ------------------------------
(***************************************************************************)
(* The answer runs of one chat session: the event adapter and its deadline *)
(* (src/src/mastra/chat_event_adapter.ts, src/src/runtime/deadline.ts),    *)
(* route dispatch and the route owners (route_dispatch_runner.ts,          *)
(* direct_ambiguous_runner.ts, simple_knowledge_runner.ts), and the rows   *)
(* they share: the conversation with its pending clarification and rolling *)
(* summary (src/src/answer/conversation_store.ts), its collector and the   *)
(* event trace (trace_repository.ts).                                      *)
(*                                                                         *)
(* One Node process serves the session.  A run gives up the event loop     *)
(* only where it awaits a model, a search or the workflow engine, so the   *)
(* statements between two awaits are separate actions that no other run    *)
(* comes between: only a crash or a refused statement can part them.       *)
(*                                                                         *)
(* A row id is the row's position among the session's validated rows: the  *)
(* code only compares ids, and adds one.                                   *)
(***************************************************************************)
EXTENDS Integers, Sequences, FiniteSets

CONSTANTS
    Runs,      \* requests POST /chat of the session, each one answer run
    RunIds,    \* run ids clients send: two requests may carry the same one
    Window,    \* rows loadConversationMemory returns at most: 12 in the code
    Backlog,   \* answers the session already holds, from runs that are over
    Earlier,   \* stands for those runs
    None       \* no pending clarification

ASSUME ChatAssumption ==
    /\ Window \in Nat \ {0}
    /\ Backlog \in Nat
    /\ None \notin Runs \cup RunIds
    /\ Earlier \notin Runs \cup {None}

VARIABLES
    turns,     \* conversation_turns of kind 'validated'
    pending,   \* the run that saved the pending clarification
    summary,   \* conversation_rolling_summaries: checkpoint and rows folded in
    expired,   \* the newest row of the session is older than the TTL
    trace,     \* answer_run_events per run id, in sequence order
    runId,     \* the run id a request carries
    stage,     \* where the runner of a run stands
    seen,      \* the pending clarification the dispatcher peeked
    fold,      \* the summary a run is waiting for
    outcome,   \* the status the runner returned
    out,       \* events the adapter is about to emit
    response   \* how the client's stream stands

store == <<turns, pending, summary, expired>>
locals == <<runId, stage, seen, fold, outcome>>
chatVars == <<store, trace, locals, out, response>>

-----------------------------------------------------------------------------
Awaiting == {"routing", "answering", "summarizing", "returned"}
Stages == {"new", "saving", "ended"} \cup Awaiting
Statuses == {"completed", "clarification_required", "unanswered", "cancelled", "failed"}
Responses == {"none", "open", "refused", "dropped"} \cup Statuses

Authors == Runs \cup {Earlier}
Row == [run : Authors, role : {"user", "assistant"}]
Event == [run : Runs, kind : {"progress"} \cup Statuses]
Summary == [through : Nat, covers : SUBSET Nat]
NoSummary == [through |-> 0, covers |-> {}]

ChatTypeOK ==
    /\ turns \in Seq(Row)
    /\ pending \in Authors \cup {None}
    /\ summary.through \in Nat /\ summary.covers \subseteq DOMAIN turns
    /\ expired \in BOOLEAN
    /\ trace \in [RunIds -> Seq(Event)]
    /\ runId \in [Runs -> RunIds \cup {None}]
    /\ stage \in [Runs -> Stages]
    /\ seen \in [Runs -> Authors \cup {None}]
    /\ \A r \in Runs : fold[r].through \in Nat
    /\ outcome \in [Runs -> Statuses \cup {"none"}]
    /\ response \in [Runs -> Responses]

\* A session as earlier runs left it, none of which was summarized.
Init ==
    /\ turns = [i \in 1 .. 2 * Backlog |->
                  [run |-> Earlier, role |-> IF i % 2 = 1 THEN "user" ELSE "assistant"]]
    /\ pending \in {None, Earlier}
    /\ summary = NoSummary
    /\ expired = FALSE
    /\ trace = [i \in RunIds |-> << >>]
    /\ runId = [r \in Runs |-> None]
    /\ stage = [r \in Runs |-> "new"]
    /\ seen = [r \in Runs |-> None]
    /\ fold = [r \in Runs |-> NoSummary]
    /\ outcome = [r \in Runs |-> "none"]
    /\ out = [r \in Runs |-> << >>]
    /\ response = [r \in Runs |-> "none"]

-----------------------------------------------------------------------------
(* Helpers. *)

\* Nobody is between two awaits, so another callback may run.
LoopFree == \A r \in Runs : out[r] = << >> /\ stage[r] # "saving"

Open(r) == response[r] = "open"

\* The events of a run the runner returned from, and of one it did not.
EventsOf(st) ==
    IF st = "failed" THEN <<"failed">> ELSE <<"progress", st>>

\* The rows loadConversationMemory returns: a trailing user row is dropped.
Recent(rows) ==
    LET n == Len(rows)
        last == IF n > 0 /\ rows[n].role = "user" THEN n - 1 ELSE n
    IN {i \in 1 .. last : i > last - Window}

Oldest(rows) == CHOOSE i \in Recent(rows) : \A j \in Recent(rows) : i <= j

\* The checkpoint triggerSummarization aims at.
Checkpoint(rows) == Oldest(rows) - 1

SummaryDue(rows) ==
    /\ Len(rows) > Window
    /\ Recent(rows) # {}
    /\ Checkpoint(rows) > summary.through

\* Mutation: the lower bound is off by one.
OlderTurnsShifted(from, to) == (from + 2) .. to

\* loadOlderTurnsForSummarization
OlderTurns(from, to) == (from + 1) .. to

\* The test of saveRollingSummary: equal is ignored, smaller throws.
Advances(through) == through > summary.through

\* Mutation: the gates before persistence are gone.
MayPersistLate(r) == response[r] # "none"

\* checkAbort before persistence, signal.aborted after the summarizer.
MayPersist(r) == Open(r)

Return(r, st) ==
    /\ stage' = [stage EXCEPT ![r] = "returned"]
    /\ seen' = [seen EXCEPT ![r] = None]
    /\ fold' = [fold EXCEPT ![r] = NoSummary]
    /\ outcome' = [outcome EXCEPT ![r] = st]

\* Nothing of the run is left but its id.
Forget(S) ==
    /\ stage' = [r \in Runs |-> IF r \in S THEN "ended" ELSE stage[r]]
    /\ seen' = [r \in Runs |-> IF r \in S THEN None ELSE seen[r]]
    /\ fold' = [r \in Runs |-> IF r \in S THEN NoSummary ELSE fold[r]]
    /\ outcome' = [r \in Runs |-> IF r \in S THEN "none" ELSE outcome[r]]

-----------------------------------------------------------------------------
(* Route dispatch. *)

\* The request, up to the first await: the pending clarification is peeked.
Start(r) ==
    /\ LoopFree
    /\ stage[r] = "new"
    /\ \E i \in RunIds : runId' = [runId EXCEPT ![r] = i]
    /\ stage' = [stage EXCEPT ![r] = "routing"]
    /\ seen' = [seen EXCEPT ![r] = pending]
    /\ response' = [response EXCEPT ![r] = "open"]
    /\ UNCHANGED <<store, trace, fold, outcome, out>>

\* The ambiguous route replaces the pending clarification.
Clarify(r) ==
    /\ LoopFree
    /\ stage[r] = "routing" /\ Open(r)
    /\ pending' = r
    /\ expired' = FALSE
    /\ Return(r, "clarification_required")
    /\ UNCHANGED <<turns, summary, trace, runId, out, response>>

\* Any other route claims it, if one was peeked, whichever is there by now.
Answer(r) ==
    /\ LoopFree
    /\ stage[r] = "routing" /\ Open(r)
    /\ pending' = IF seen[r] # None THEN None ELSE pending
    /\ seen' = [seen EXCEPT ![r] = None]
    /\ stage' = [stage EXCEPT ![r] = "answering"]
    /\ UNCHANGED <<turns, summary, expired, trace, runId, fold, outcome, out, response>>

\* A model or a store refuses before an answer is there, or there is none.
EndWithout(r) ==
    /\ LoopFree
    /\ stage[r] \in {"routing", "answering"} /\ Open(r)
    /\ \E st \in {"failed", "unanswered"} :
        /\ st = "unanswered" => stage[r] = "answering"
        /\ Return(r, st)
    /\ UNCHANGED <<store, trace, runId, out, response>>

-----------------------------------------------------------------------------
(* A validated answer: two inserts, then the summary if one is due. *)

SaveQuestion(r) ==
    /\ LoopFree
    /\ stage[r] = "answering" /\ MayPersist(r)
    /\ turns' = Append(turns, [run |-> r, role |-> "user"])
    /\ expired' = FALSE
    /\ stage' = [stage EXCEPT ![r] = "saving"]
    /\ UNCHANGED <<pending, summary, trace, runId, seen, fold, outcome, out, response>>

SaveReply(r) ==
    /\ stage[r] = "saving"
    /\ turns' = Append(turns, [run |-> r, role |-> "assistant"])
    /\ IF SummaryDue(turns')
       THEN /\ stage' = [stage EXCEPT ![r] = "summarizing"]
            /\ fold' = [fold EXCEPT ![r] =
                 [through |-> Checkpoint(turns'),
                  covers |-> summary.covers
                               \cup OlderTurns(summary.through, Checkpoint(turns'))]]
            /\ UNCHANGED <<seen, outcome>>
       ELSE Return(r, "completed")
    /\ UNCHANGED <<pending, summary, expired, trace, runId, out, response>>

\* Mutation: the refusal is swallowed.
ReplySwallowed(r) ==
    /\ stage[r] = "saving"
    /\ Return(r, "completed")
    /\ UNCHANGED <<store, trace, runId, out, response>>

\* The second insert is refused; the first one stays.
ReplyRefused(r) ==
    /\ stage[r] = "saving"
    /\ Return(r, "failed")
    /\ UNCHANGED <<store, trace, runId, out, response>>

\* The summarizer answers: saveRollingSummary, whose refusal is caught.
SaveSummary(r) ==
    /\ LoopFree
    /\ stage[r] = "summarizing" /\ MayPersist(r)
    /\ summary' = IF Advances(fold[r].through) THEN fold[r] ELSE summary
    /\ Return(r, "completed")
    /\ UNCHANGED <<turns, pending, expired, trace, runId, out, response>>

\* The summarizer fails: the run is completed all the same.
SummaryFails(r) ==
    /\ LoopFree
    /\ stage[r] = "summarizing" /\ Open(r)
    /\ Return(r, "completed")
    /\ UNCHANGED <<store, trace, runId, out, response>>

-----------------------------------------------------------------------------
(* The adapter. *)

\* The workflow engine hands the runner's output back.
Publish(r) ==
    /\ LoopFree
    /\ stage[r] = "returned" /\ Open(r)
    /\ out' = [out EXCEPT ![r] = EventsOf(outcome[r])]
    /\ Forget({r})
    /\ UNCHANGED <<store, trace, runId, response>>

\* Mutation: the deadline no longer covers the summary.
AbortableUntilSaved == Awaiting \ {"summarizing"}

\* The awaits that withBudget races against the abort signal.
Abortable == Awaiting

\* The deadline fires or the client leaves: withBudget rejects at once, and a
\* runner that waits for a model learns of it when the model answers.
Abort(r) ==
    /\ LoopFree
    /\ stage[r] \in Abortable /\ Open(r)
    /\ out' = [out EXCEPT ![r] = <<"cancelled">>]
    /\ Forget({r} \ {q \in Runs : stage[q] \in {"answering", "summarizing"}})
    /\ UNCHANGED <<store, trace, runId, response>>

\* Mutation: a row of the same run id and sequence is no conflict.
TraceTakesAny(r) == r \in Runs

\* append finds no other run's event under the sequence numbers of this run.
TraceTakes(r) == \A i \in DOMAIN trace[runId[r]] : trace[runId[r]][i].run = r

\* "if (err === traceFailure) throw err": no terminal event follows.
AfterRefusal == "refused"

\* The next event goes to the trace before it goes to the client.
Emit(r) ==
    /\ out[r] # << >>
    /\ TraceTakes(r)
    /\ trace' = [trace EXCEPT ![runId[r]] = Append(@, [run |-> r, kind |-> Head(out[r])])]
    /\ out' = [out EXCEPT ![r] = Tail(@)]
    /\ response' = [response EXCEPT ![r] =
                      IF Tail(out[r]) = << >> THEN Head(out[r]) ELSE @]
    /\ UNCHANGED <<store, locals>>

\* The trace holds another run of the same id, or the database is busy: the
\* stream ends without a terminal event.
EmitRefused(r) ==
    /\ out[r] # << >>
    /\ out' = [out EXCEPT ![r] = << >>]
    /\ response' = [response EXCEPT ![r] = AfterRefusal]
    /\ UNCHANGED <<store, trace, locals>>

\* An aborted runner finds the signal set.
RunnerStops(r) ==
    /\ LoopFree
    /\ stage[r] \in {"answering", "summarizing"} /\ ~Open(r)
    /\ Forget({r})
    /\ UNCHANGED <<store, trace, runId, out, response>>

-----------------------------------------------------------------------------
(* The process and the collector. *)

Crash ==
    /\ \E r \in Runs : stage[r] \notin {"new", "ended"} \/ Open(r)
    /\ Forget({r \in Runs : stage[r] # "new"})
    /\ out' = [r \in Runs |-> << >>]
    /\ response' = [r \in Runs |-> IF Open(r) THEN "dropped" ELSE response[r]]
    /\ UNCHANGED <<store, trace, runId>>

\* Days pass without a request: no run lasts that long.
Age ==
    /\ \A r \in Runs : stage[r] \in {"new", "ended"} /\ ~Open(r)
    /\ turns # << >> \/ pending # None
    /\ ~expired
    /\ expired' = TRUE
    /\ UNCHANGED <<turns, pending, summary, trace, locals, out, response>>

\* deleteInactiveBefore, at any later tick of its timer.
Collect ==
    /\ LoopFree
    /\ expired
    /\ turns' = << >>
    /\ pending' = None
    /\ summary' = NoSummary
    /\ expired' = FALSE
    /\ UNCHANGED <<trace, locals, out, response>>

-----------------------------------------------------------------------------
Runner(r) ==
    \/ Clarify(r) \/ Answer(r) \/ EndWithout(r)
    \/ SaveQuestion(r) \/ SaveReply(r) \/ ReplyRefused(r)
    \/ SaveSummary(r) \/ SummaryFails(r) \/ RunnerStops(r)

Adapter(r) == Publish(r) \/ Abort(r) \/ Emit(r) \/ EmitRefused(r)

Next ==
    \/ \E r \in Runs : Start(r) \/ Runner(r) \/ Adapter(r)
    \/ Crash \/ Age \/ Collect

Spec == Init /\ [][Next]_chatVars

\* Code between two awaits runs on, and the deadline timer of a run fires.  No
\* model, search or engine is assumed ever to answer.
ChatFairness ==
    \A r \in Runs :
        /\ WF_chatVars(SaveReply(r) \/ ReplyRefused(r))
        /\ WF_chatVars(Emit(r) \/ EmitRefused(r))
        /\ WF_chatVars(Abort(r))

LiveSpec == Spec /\ ChatFairness

-----------------------------------------------------------------------------
(* Properties. *)

\* However concurrent runs read, wait and save, the rolling summary has folded
\* in every row up to its checkpoint, none twice or skipped (saveRollingSummary),
\* and no row of the recent window: no row is given to the model twice (the
\* disjoint invariant loadConversationMemory leaves to its callers).
SummaryExact ==
    /\ summary.covers = 1 .. summary.through
    /\ \A i \in Recent(turns) : i > summary.through

\* The trace of a run id is the history of one request, with at most one
\* terminal event and nothing after it, whoever reuses the id; and what a client
\* was told at the end of its stream is what that trace ends with
\* (TraceRepository.append, the terminal paths of the adapter).
TraceIsExact ==
    /\ \A i \in RunIds : \A k, m \in DOMAIN trace[i] :
        /\ trace[i][k].run = trace[i][m].run
        /\ trace[i][k].kind \in Statuses => m <= k
    /\ \A r \in Runs : response[r] \in Statuses =>
        /\ trace[runId[r]] # << >>
        /\ trace[runId[r]][Len(trace[runId[r]])] = [run |-> r, kind |-> response[r]]

Rows(r) == {i \in DOMAIN turns : turns[i].run = r}

\* An answer reported as completed has its question and its reply side by side
\* in the conversation (saveValidatedTurnPair before the terminal event).
CompletedIsSaved ==
    [][\A r \in Runs : response'[r] = "completed" /\ Open(r) =>
        \E i \in DOMAIN turns' :
            /\ turns'[i] = [run |-> r, role |-> "assistant"]
            /\ i > 1 /\ turns'[i - 1] = [run |-> r, role |-> "user"]]_chatVars

\* Once its stream has ended, a run that still waits for a model writes nothing
\* more: no row, no pending clarification, no summary (checkAbort gates).
NoLateEffect ==
    [][\A r \in Runs : ~Open(r) /\ response[r] # "none" =>
        /\ turns' = << >> \/ Rows(r)' = Rows(r)
        /\ pending' = r => pending = r
        /\ stage[r] = "summarizing" /\ stage'[r] # "summarizing" => summary' = summary]_chatVars

\* Every stream ends, even if no model or search ever answers (withBudget).
StreamEnds == \A r \in Runs : Open(r) ~> ~Open(r)

-----------------------------------------------------------------------------
(* What the comments of the code promise and the code does not keep. *)

\* Failed or cancelled content is not saved (addValidatedTurn's contract).
CancelledIsNotSaved ==
    \A r \in Runs : response[r] = "cancelled" => Rows(r) = {}

=============================================================================
