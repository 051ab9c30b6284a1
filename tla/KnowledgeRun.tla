----------------------------- MODULE KnowledgeRun -----------------------------
(***************************************************************************)
(* One answer run of a knowledge route, from GATE 1 (retrieval) to its     *)
(* terminal status: src/src/mastra/complex_knowledge_runner.ts with its    *)
(* two ways of retrieving (the bounded LLM loop of                         *)
(* src/src/retrieval/complex_loop.ts and the planner), and                 *)
(* simple_knowledge_runner.ts, which shares every gate after retrieval.    *)
(*                                                                         *)
(* The runner awaits; between two awaits it is atomic. It races each of    *)
(* its awaits with the run's AbortSignal, so an abort ends the run at      *)
(* once. The retrieval loop it awaits is not stopped by that: `loop' is a  *)
(* process of its own, which goes on as an orphan after the run ended and  *)
(* still reserves model calls of the run's budget.                         *)
(*                                                                         *)
(* Data: a chunk is also the evidence built from it (one evidence per      *)
(* chunk, with a stable id); a draft is its number and the ids it cites;   *)
(* a normalised tool call is a value of Calls, a normalised gap query a    *)
(* value of Gaps. What a model or a channel answers is any value it could. *)
(***************************************************************************)
EXTENDS Integers, FiniteSets

CONSTANTS
  Chunks,         \* the chunks retrieval can return
  Calls,          \* normalised (tool, arguments) pairs
  Gaps,           \* gap queries, normalised
  Forged,         \* a citation id no evidence has
  None,
  Paths,          \* the wired ways to retrieve: "loop", "plan", "simple"
  Limits,         \* the values of maxModelCalls tried; None is no limit
  SubQueries,     \* numbers of sub-queries planner.decompose returns
  EvidenceLimit,  \* diversifySelect's limit (10 in the code)
  HandoffWired    \* whether a handoff store is wired

MaxIterations == 3
MaxToolCalls == 4
MaxRounds == 3

ASSUME ChunksAssumption == IsFiniteSet(Chunks) /\ Forged \notin Chunks
ASSUME PathsAssumption == Paths \subseteq {"loop", "plan", "simple"}
ASSUME LimitsAssumption == Limits \subseteq Nat \cup {None} /\ None \notin Nat
ASSUME SubQueriesAssumption == SubQueries \subseteq 2 .. 4
ASSUME EvidenceLimitAssumption == EvidenceLimit \in Nat \ {0}
ASSUME HandoffAssumption == HandoffWired \in BOOLEAN

VARIABLES
  path, limit,       \* how this run retrieves; its maxModelCalls
  pc,                \* the await the runner is at
  toPrepare, toSearch, available,  \* sub-queries left; some search answered
  round,             \* correction rounds begun
  shared,            \* what the correction loops inherit of the loop budgets
  found, evidence,   \* accumulatedResults; evidence
  draft, passed,     \* fullAnswer; the number of the draft the Critic passed
  seen,              \* seenGapQueries
  status, published, \* terminal status; the draft saved as validated turns
  case,              \* status of the run's handoff case, or None
  aborted, failure,  \* the run's AbortSignal; resourceBudget's failure
  calls,             \* modelCalls reserved
  loop,              \* the retrieval loop running for this run
  steps, ran, asked  \* history: loop iterations, tool calls run, gaps searched

runner == <<path, limit, pc, toPrepare, toSearch, available, round, shared>>
answer == <<found, evidence, draft, passed, seen, status, published, case>>
budget == <<aborted, failure, calls>>
history == <<steps, ran, asked>>
vars == <<runner, answer, budget, loop, history>>

Statuses == {"completed", "insufficient_retrieval", "insufficient_evidence",
             "invalid_citation", "handoff_required", "provider_error",
             "cancelled"}
CaseStatuses == {"open", "claimed", "resolved", "cancelled"}
LoopStops == {None, "evidence-sufficient", "tool-budget", "provider-failure"}
NoDraft == [no |-> 0, cites |-> {}]

ASSUME NoneAssumption == None \notin Statuses \cup CaseStatuses \cup Calls \cup Gaps

\* runComplexLoop's state: `at' is the await it is at; done, used and traced
\* are the iterationsExecuted, toolCallsExecuted and toolCalls it returns.
FreshLoop(s) ==
  [at |-> "ready", iterations |-> s.iterations, tools |-> s.tools,
   prior |-> s.prior, call |-> None, found |-> {}, traced |-> {},
   done |-> 0, used |-> 0, stop |-> None]
NoLoop == [FreshLoop([iterations |-> 0, tools |-> 0, prior |-> {}])
             EXCEPT !.at = "idle"]

Least(a, b) == IF a < b THEN a ELSE b
Left(a, b) == IF a > b THEN a - b ELSE 0

\* The shapes of the variables; the counter never exceeds a limit that is set.
KnowTypeOK ==
  /\ path \in Paths /\ limit \in Limits
  /\ pc \in {"start", "select", "plan", "prepare", "search", "loop", "draft",
             "validate", "correct", "summarize", "ended"}
  /\ toPrepare \in 0 .. 4 /\ toSearch \in 0 .. 4 /\ available \in BOOLEAN /\ round \in 0 .. MaxRounds
  /\ shared \in [iterations: 0 .. MaxIterations, tools: 0 .. MaxToolCalls,
                 prior: SUBSET Calls]
  /\ evidence \subseteq found /\ found \subseteq Chunks
  /\ draft.no \in 0 .. MaxRounds + 1 /\ draft.cites \subseteq Chunks
  /\ passed \in 0 .. draft.no /\ seen \subseteq Gaps
  /\ status \in Statuses \cup {None} /\ (status # None) = (pc = "ended")
  /\ published \in {NoDraft, draft} /\ case \in CaseStatuses \cup {None}
  /\ aborted \in BOOLEAN /\ failure \in BOOLEAN
  /\ (limit # None => calls <= limit)
  /\ loop.iterations \in 0 .. MaxIterations /\ loop.tools \in 0 .. MaxToolCalls
  /\ loop.prior \subseteq Calls /\ loop.found \subseteq Chunks
  /\ loop.stop \in LoopStops

Init ==
  /\ path \in Paths /\ limit \in Limits
  /\ pc = "start" /\ toPrepare = 0 /\ toSearch = 0 /\ available = FALSE /\ round = 0
  /\ shared = [iterations |-> MaxIterations, tools |-> MaxToolCalls, prior |-> {}]
  /\ found = {} /\ evidence = {} /\ draft = NoDraft /\ passed = 0 /\ seen = {}
  /\ status = None /\ published = NoDraft /\ case = None
  /\ aborted = FALSE /\ failure = FALSE /\ calls = 0
  /\ loop = NoLoop
  /\ steps = 0 /\ ran = [c \in Calls |-> 0] /\ asked = [g \in Gaps |-> 0]

-----------------------------------------------------------------------------
(* The budget: every model call is reserved before it is sent. The counter  *)
(* matters only where a limit is set and is kept only there.               *)

Fits(k) == limit = None \/ calls + k <= limit

\* Mutation: a call over the limit fails without aborting the run.
StopsRunQuietly == FALSE
StopsRun == TRUE

Reserve(k) == calls' = IF limit = None \/ ~Fits(k) THEN calls ELSE calls + k

\* A terminal output of the runner.
Finish(st) == pc' = "ended" /\ status' = st

\* The runner goes to an await that begins with k model calls: a call over
\* the limit sets failure, aborts the run's controller and so ends the run.
Enter(place, k) ==
  /\ Reserve(k)
  /\ IF Fits(k)
       THEN pc' = place /\ UNCHANGED <<status, aborted, failure>>
       ELSE Finish("cancelled") /\ failure' = TRUE /\ aborted' = TRUE

\* k model calls inside a search or the loop, which swallow what a refused
\* reservation throws: only the abort itself ends the run.
ReserveInside(k, place) ==
  /\ Reserve(k)
  /\ failure' = (failure \/ ~Fits(k))
  /\ aborted' = (aborted \/ (~Fits(k) /\ StopsRun))
  /\ IF aborted' /\ pc # "ended" THEN Finish("cancelled")
     ELSE pc' = place /\ UNCHANGED status

Interruptible == pc # "ended" /\ ~aborted

\* The caller cancels or the deadline passes (broke is FALSE), or usage
\* arrives that breaks the token or cost limit, or cannot be accounted for.
Interrupt(broke) ==
  /\ Interruptible
  /\ broke => pc \in {"select", "plan", "prepare", "draft", "validate", "summarize"}
              \/ loop.at \in {"deciding", "searching"}
  /\ aborted' = TRUE /\ failure' = broke
  /\ Finish("cancelled")
  /\ UNCHANGED <<path, limit, toPrepare, toSearch, available, round, shared, found, evidence,
                 draft, passed, seen, published, case, calls, loop, history>>

-----------------------------------------------------------------------------
(* The retrieval loop. Its own awaits are not raced with the signal.       *)

\* The loop asks the controller for its next decision.
LoopAsks ==
  /\ loop.at = "ready" /\ loop.stop = None /\ loop.iterations > 0
  /\ ReserveInside(1, pc)
  /\ loop' = [loop EXCEPT !.at = IF Fits(1) THEN "deciding" ELSE "idle"]
  /\ UNCHANGED <<path, limit, toPrepare, toSearch, available, round, shared, found, evidence,
                 draft, passed, seen, published, case, history>>

\* After an abort the pending decision may be rejected as an AbortError, and
\* the loop with it.
LoopDies ==
  /\ loop.at = "deciding" /\ aborted
  /\ loop' = [loop EXCEPT !.at = "idle"]
  /\ UNCHANGED <<runner, answer, budget, history>>

\* The controller threw something else: no iteration is consumed.
LoopControllerFails ==
  /\ loop.at = "deciding"
  /\ loop' = [loop EXCEPT !.at = "ready", !.stop = "provider-failure"]
  /\ UNCHANGED <<runner, answer, budget, history>>

OneIteration(l) == [l EXCEPT !.iterations = @ - 1, !.done = @ + 1]

\* Mutation: a rejected duplicate does not consume its iteration.
AfterDuplicateFree(l, d) == [l EXCEPT !.at = "ready", !.traced = @ \cup {d}]
AfterDuplicate(l, d) ==
  [OneIteration(l) EXCEPT !.at = "ready", !.traced = @ \cup {d}]

LoopSufficient ==
  /\ loop.at = "deciding"
  /\ loop' = [OneIteration(loop) EXCEPT !.at = "ready", !.stop = "evidence-sufficient"]
  /\ steps' = steps + 1
  /\ UNCHANGED <<runner, answer, budget, ran, asked>>

LoopDuplicate(d) ==
  /\ loop.at = "deciding" /\ d \in loop.prior
  /\ loop' = AfterDuplicate(loop, d)
  /\ steps' = steps + (loop.iterations - loop'.iterations)
  /\ UNCHANGED <<runner, answer, budget, ran, asked>>

\* A new call: refused when the tool budget is spent, else its search begins
\* (the query embedding is the model call reserved here).
LoopCalls(d) ==
  /\ loop.at = "deciding" /\ d \notin loop.prior
  /\ steps' = steps + 1
  /\ IF loop.tools = 0
       THEN /\ loop' = [OneIteration(loop) EXCEPT !.at = "ready", !.stop = "tool-budget"]
            /\ UNCHANGED <<pc, status, budget>>
       ELSE /\ loop' = [OneIteration(loop) EXCEPT !.at = "searching", !.call = d]
            /\ ReserveInside(1, pc)
  /\ UNCHANGED <<path, limit, toPrepare, toSearch, available, round, shared, found, evidence,
                 draft, passed, seen, published, case, ran, asked>>

\* The search answered (with nothing when every channel failed); reranking
\* and compressing what it found may have made further model calls.
LoopSearched(out, more) ==
  /\ loop.at = "searching" /\ (more = 1 => out # {})
  /\ loop' = [loop EXCEPT !.at = "ready", !.call = None, !.tools = @ - 1,
                !.used = @ + 1, !.prior = @ \cup {loop.call},
                !.traced = @ \cup {loop.call}, !.found = @ \cup out]
  /\ ran' = [ran EXCEPT ![loop.call] = @ + 1]
  /\ ReserveInside(more, pc)
  /\ UNCHANGED <<path, limit, toPrepare, toSearch, available, round, shared, found, evidence,
                 draft, passed, seen, published, case, steps, asked>>

LoopSearchFails ==
  /\ loop.at = "searching"
  /\ loop' = [loop EXCEPT !.at = "ready", !.call = None, !.stop = "provider-failure"]
  /\ UNCHANGED <<runner, answer, budget, history>>

LoopStep ==
  \/ LoopAsks \/ LoopDies \/ LoopControllerFails \/ LoopSufficient
  \/ LoopSearchFails
  \/ \E d \in Calls : LoopDuplicate(d) \/ LoopCalls(d)
  \/ \E out \in SUBSET Chunks, more \in 0 .. 1 : LoopSearched(out, more)

-----------------------------------------------------------------------------
(* The runner.                                                             *)

Known(cites) == cites \subseteq evidence

\* Gate 1 is over: evidence is built from at most EvidenceLimit of the chunks
\* found, and the first draft is asked for (compressing the context may have
\* made model calls of its own).
Retrieved(all, answered) ==
  IF ~answered
    THEN Finish("insufficient_retrieval") /\ UNCHANGED <<budget, found, evidence>>
  ELSE IF all = {}
    THEN Finish("insufficient_evidence") /\ UNCHANGED <<budget, found, evidence>>
  ELSE \E sel \in SUBSET all, k \in 1 .. 2 :
         /\ Cardinality(sel) = Least(EvidenceLimit, Cardinality(all))
         /\ found' = sel /\ evidence' = sel
         /\ Enter("draft", k)

\* A correction found something: evidence is rebuilt from everything
\* accumulated and a new draft is asked for.
Rebuild(new) ==
  \E k \in 1 .. 2 :
    /\ found' = found \cup new
    /\ evidence' = found \cup new
    /\ Enter("draft", k)

\* A terminal status whose references are computed from the standing draft:
\* an unknown id would make the runner throw.
FinishCiting(st) ==
  Finish(IF Known(draft.cites) THEN st ELSE "provider_error")

\* Correction cannot continue: the run is handed to a person, if it can be.
Exhausted ==
  /\ IF HandoffWired THEN case' = "open" /\ FinishCiting("handoff_required")
     ELSE FinishCiting("insufficient_evidence") /\ UNCHANGED case
  /\ UNCHANGED <<budget, found, evidence>>

Start ==
  /\ pc = "start"
  /\ IF path = "loop"
       THEN pc' = "loop" /\ loop' = FreshLoop(shared) /\ UNCHANGED <<status, budget>>
       ELSE Enter(IF path = "plan" THEN "plan" ELSE "select", 1) /\ UNCHANGED loop
  /\ UNCHANGED <<path, limit, toPrepare, toSearch, available, round, shared, found,
                 evidence, draft, passed, seen, published, case, history>>

\* The tool selector answered, or fell back: the one search begins.
SelectTool ==
  /\ pc = "select"
  /\ toSearch' = 1
  /\ ReserveInside(1, "search")
  /\ UNCHANGED <<path, limit, toPrepare, available, round, shared, found, evidence,
                 draft, passed, seen, published, case, loop, history>>

\* The planner split the question, at its first or second attempt.
Decomposed(n, attempts) ==
  /\ pc = "plan"
  /\ toPrepare' = n /\ toSearch' = n
  /\ Enter("prepare", attempts)
  /\ UNCHANGED <<path, limit, available, round, shared, found, evidence, draft,
                 passed, seen, published, case, loop, history>>

\* One sub-query is rewritten, then navigated and given a hypothesis; after
\* the last one the searches begin.
Prepared(more) ==
  /\ pc = "prepare"
  /\ toPrepare' = toPrepare - 1
  /\ IF toPrepare = 1 THEN Enter("search", more + 1) ELSE Enter("prepare", more + 1)
  /\ UNCHANGED <<path, limit, toSearch, available, round, shared, found, evidence,
                 draft, passed, seen, published, case, loop, history>>

\* A search of gate 1 answered; `ok' is FALSE when every channel failed.
Searched(out, ok) ==
  /\ pc = "search" /\ (~ok => out = {})
  /\ toSearch' = toSearch - 1 /\ available' = (available \/ ok)
  /\ IF toSearch = 1 THEN Retrieved(found \cup out, available')
     ELSE ReserveInside(1, "search") /\ found' = found \cup out /\ UNCHANGED evidence
  /\ UNCHANGED <<path, limit, toPrepare, round, shared, draft, passed, seen,
                 published, case, loop, history>>

\* The loop's result. Mutation: a correction starts with fresh budgets.
InheritNothing(s, l) == s
Inherit(s, l) == [iterations |-> Left(s.iterations, l.done),
                  tools |-> Left(s.tools, l.used),
                  prior |-> s.prior \cup l.traced]

LoopOver == loop.at = "ready" /\ (loop.stop # None \/ loop.iterations = 0)

FirstLoopReturns ==
  /\ pc = "loop" /\ LoopOver /\ round = 0
  /\ shared' = Inherit(shared, loop)
  /\ IF loop.stop = "provider-failure"
       THEN Finish("provider_error") /\ UNCHANGED <<budget, found, evidence>>
       ELSE Retrieved(loop.found, loop.found # {})
  /\ loop' = NoLoop
  /\ UNCHANGED <<path, limit, toPrepare, toSearch, available, round, draft, passed,
                 seen, published, case, history>>

\* A correction loop that found nothing and did not call that sufficient is
\* followed by one deterministic search of the gap query.
CorrectionLoopReturns ==
  /\ pc = "loop" /\ LoopOver /\ round > 0
  /\ shared' = Inherit(shared, loop)
  /\ loop' = NoLoop
  /\ IF loop.found # {} THEN Rebuild(loop.found) /\ UNCHANGED case
     ELSE IF loop.stop = "evidence-sufficient" THEN Exhausted
     ELSE ReserveInside(1, "correct") /\ UNCHANGED <<found, evidence, case>>
  /\ UNCHANGED <<path, limit, toPrepare, toSearch, available, round, draft, passed,
                 seen, published, history>>

CorrectionSearched(out, ok) ==
  /\ pc = "correct" /\ (~ok => out = {})
  /\ IF ~ok THEN /\ FinishCiting("insufficient_retrieval")
                 /\ UNCHANGED <<budget, found, evidence, case>>
     ELSE IF out = {} THEN Exhausted
     ELSE Rebuild(out) /\ UNCHANGED case
  /\ UNCHANGED <<path, limit, toPrepare, toSearch, available, round, shared, draft,
                 passed, seen, published, loop, history>>

\* The whole draft has streamed. One with an unknown citation is dropped; the
\* draft after the last round is never validated.
Drafted(cites) ==
  /\ pc = "draft"
  /\ IF Known(cites)
       THEN /\ draft' = [no |-> draft.no + 1, cites |-> cites]
            /\ IF round < MaxRounds THEN Enter("validate", 1) /\ UNCHANGED <<found, evidence, case>>
               ELSE Exhausted
       ELSE /\ FinishCiting("invalid_citation")
            /\ UNCHANGED <<budget, found, evidence, case, draft>>
  /\ UNCHANGED <<path, limit, toPrepare, toSearch, available, round, shared, passed,
                 seen, published, loop, history>>

\* Mutation: an approved draft without a citation is published all the same.
PublishableAlways(d) == TRUE
Publishable(d) == d.cites # {}

\* The Critic passed the draft: it is saved, and a summary may be made.
Approved ==
  /\ pc = "validate"
  /\ passed' = draft.no
  /\ IF Publishable(draft)
       THEN published' = draft /\ \/ Enter("summarize", 1)
                                  \/ Finish("completed") /\ UNCHANGED budget
       ELSE Finish("insufficient_evidence") /\ UNCHANGED <<published, budget>>
  /\ UNCHANGED <<path, limit, toPrepare, toSearch, available, round, shared, found,
                 evidence, draft, seen, case, loop, history>>

\* seenGapQueries.
NewGap(gap) == gap # None /\ gap \notin seen

\* The Critic refused the draft and named one gap, or none.
Refused(gap) ==
  /\ pc = "validate"
  /\ IF NewGap(gap)
       THEN /\ seen' = seen \cup {gap} /\ round' = round + 1
            /\ asked' = [asked EXCEPT ![gap] = @ + 1]
            /\ IF path = "loop"
                 THEN pc' = "loop" /\ loop' = FreshLoop(shared) /\ UNCHANGED <<status, budget>>
                 ELSE ReserveInside(1, "correct") /\ UNCHANGED loop
            /\ UNCHANGED <<found, evidence, case>>
       ELSE Exhausted /\ UNCHANGED <<seen, round, asked, loop>>
  /\ UNCHANGED <<path, limit, toPrepare, toSearch, available, shared, draft, passed,
                 published, steps, ran>>

\* The summary was saved or failed: either way the run completed.
Summarized ==
  /\ pc = "summarize" /\ Finish("completed")
  /\ UNCHANGED <<path, limit, toPrepare, toSearch, available, round, shared, found,
                 evidence, draft, passed, seen, published, case, budget, loop, history>>

\* A provider the runner has no fallback for threw.
ProviderFails ==
  /\ pc \in {"plan", "prepare", "search", "correct", "draft", "validate"}
  /\ Finish("provider_error")
  /\ UNCHANGED <<path, limit, toPrepare, toSearch, available, round, shared, found,
                 evidence, draft, passed, seen, published, case, budget, loop, history>>

\* The desk moves the case along VALID_TRANSITIONS.
Transitions == {<<"open", "claimed">>, <<"open", "cancelled">>,
                <<"claimed", "resolved">>, <<"claimed", "cancelled">>}
DeskUpdates(to) ==
  /\ <<case, to>> \in Transitions /\ case' = to
  /\ UNCHANGED <<runner, found, evidence, draft, passed, seen, status, published,
                 budget, loop, history>>

RunnerStep ==
  \/ Start \/ SelectTool \/ FirstLoopReturns \/ CorrectionLoopReturns
  \/ Approved \/ Summarized \/ ProviderFails
  \/ \E n \in SubQueries, attempts \in 1 .. 2 : Decomposed(n, attempts)
  \/ \E more \in 2 .. 3 : Prepared(more)
  \/ \E out \in SUBSET Chunks, ok \in BOOLEAN :
       Searched(out, ok) \/ CorrectionSearched(out, ok)
  \/ \E cites \in SUBSET (evidence \cup {Forged}) : Drafted(cites)
  \/ \E gap \in Gaps \cup {None} : Refused(gap)

Next ==
  \/ RunnerStep \/ LoopStep
  \/ \E broke \in BOOLEAN : Interrupt(broke)
  \/ \E to \in CaseStatuses : DeskUpdates(to)

\* Fairness: whatever is awaited answers or fails in the end. The caller, the
\* deadline and the desk need not act.
Spec == Init /\ [][Next]_vars /\ WF_vars(RunnerStep) /\ WF_vars(LoopStep)

-----------------------------------------------------------------------------
(* Properties.                                                             *)

\* The first retrieval loop, the correction loops and an orphan left by an
\* abort spend one budget between them: three decisions and four tool calls a
\* run. None of them runs a call another one ran, and no gap query is
\* corrected twice (complex_loop.ts:23, priorToolCalls, seenGapQueries).
OneBudgetPerRun ==
  /\ steps <= MaxIterations
  /\ Cardinality({c \in Calls : ran[c] > 0}) <= MaxToolCalls
  /\ \A c \in Calls : ran[c] <= 1
  /\ \A g \in Gaps : asked[g] <= 1

\* What is saved as a validated turn, through redrafts and corrections, is the
\* very draft the Critic passed; it cites something, and only evidence the run
\* still has; rebuilding the evidence never loses what the standing draft cites,
\* so the references of a terminal answer can be computed (outside any try, after
\* the handoff case is created). A run handed to a person published nothing.
PublishedIsValidated ==
  /\ published # NoDraft => /\ published.no = passed /\ published.cites # {}
                            /\ published.cites \subseteq evidence
  /\ status = "completed" => published # NoDraft
  /\ draft.cites \subseteq evidence
  /\ case # None => status = "handoff_required" /\ passed = 0

\* From the moment a run is cancelled, or its model-call, token or cost budget
\* fails, inside a search that swallows the error as much as anywhere else,
\* the run saves no answer and opens no handoff case.
NothingAfterStop ==
  [][aborted \/ failure => /\ published' = published
                           /\ case = None => case' = None]_vars

\* If every provider call answers or fails, the run reaches a terminal status,
\* whatever the controller, the Critic and the channels answer.
RunSettles == <>[](pc = "ended")

=============================================================================
