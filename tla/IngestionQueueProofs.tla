----------------------- MODULE IngestionQueueProofs -----------------------
(***************************************************************************)
(* Theorems about IngestionQueue for every number of documents, workers,   *)
(* command lines, stages, every retry ladder and every claim timeout.      *)
(***************************************************************************)
EXTENDS IngestionQueue, FiniteSetTheorems, TLAPS

\* What a process remembers points at rows that exist.
LocalOK ==
    \A p \in Procs : pc[p] \in Holding =>
        /\ run[p] \in RunState
        /\ pc[p] # "claimed" => run[p].tree \in 1 .. Len(spans[run[p].task])
        /\ pc[p] \in {"claimed", "running", "inStage"} => run[p].stage \in Stages

TypeInv == TypeOK /\ LocalOK

-----------------------------------------------------------------------------
(* The operators on span trees stay within their types. *)

LEMMA SpanTreeOperators ==
    ASSUME NEW tree \in SpanTree
    PROVE  /\ CloseFailed(tree) \in SpanTree
           /\ CloseStale(tree) \in SpanTree
           /\ CancelOpen(tree) \in SpanTree
  BY DEF SpanTree, SpanStatus, CloseFailed, CloseStale, CancelOpen, CancelSpan,
         SkipChildren

LEMMA NewTreeType == NewTree \in SpanTree
  BY DEF NewTree, SpanTree, SpanStatus

\* Replacing one tree of one document keeps the table well typed and every
\* document's number of trees.
LEMMA ReplaceTree ==
    ASSUME NEW f \in [Tasks -> Seq(SpanTree)], NEW t \in Tasks,
           NEW i \in 1 .. Len(f[t]), NEW tree \in SpanTree
    PROVE  /\ [f EXCEPT ![t][i] = tree] \in [Tasks -> Seq(SpanTree)]
           /\ \A u \in Tasks : Len([f EXCEPT ![t][i] = tree][u]) = Len(f[u])
  <1>1. [f[t] EXCEPT ![i] = tree] \in Seq(SpanTree)
    OBVIOUS
  <1>2. Len([f[t] EXCEPT ![i] = tree]) = Len(f[t])
    OBVIOUS
  <1> QED  BY <1>1, <1>2

\* What remembering the tree, or moving to the next stage, changes.
LEMMA SetTree ==
    ASSUME NEW r \in RunState, NEW n \in Nat
    PROVE  /\ [r EXCEPT !.tree = n] \in RunState
           /\ [r EXCEPT !.tree = n].tree = n
           /\ [r EXCEPT !.tree = n].task = r.task
           /\ [r EXCEPT !.tree = n].token = r.token
           /\ [r EXCEPT !.tree = n].failCount = r.failCount
           /\ [r EXCEPT !.tree = n].stage = r.stage
  BY DEF RunState

LEMMA SetStage ==
    ASSUME NEW r \in RunState, NEW n \in Nat
    PROVE  /\ [r EXCEPT !.stage = n] \in RunState
           /\ [r EXCEPT !.stage = n].tree = r.tree
           /\ [r EXCEPT !.stage = n].task = r.task
           /\ [r EXCEPT !.stage = n].token = r.token
           /\ [r EXCEPT !.stage = n].failCount = r.failCount
           /\ [r EXCEPT !.stage = n].stage = n
  BY DEF RunState

LEMMA RetryAtType ==
    ASSUME NEW fails \in Nat, NEW base \in Nat, RetryLeft(fails)
    PROVE  RetryAt(fails, base) \in Nat /\ RetryAt(fails, base) > base
  BY QueueAssumption DEF RetryLeft, RetryAt

\* Rewriting every tree of one document, as cancel and recovery do.
LEMMA RewriteTrees ==
    ASSUME NEW f \in [Tasks -> Seq(SpanTree)], NEW t \in Tasks,
           NEW g, g \in [1 .. Len(f[t]) -> SpanTree]
    PROVE  /\ [f EXCEPT ![t] = g] \in [Tasks -> Seq(SpanTree)]
           /\ \A u \in Tasks : Len([f EXCEPT ![t] = g][u]) = Len(f[u])
  <1>1. g \in Seq(SpanTree) /\ Len(g) = Len(f[t])
    OBVIOUS
  <1> QED  BY <1>1

-----------------------------------------------------------------------------
(* Type correctness. *)

LEMMA TypeInvInit == Init => TypeInv
  BY QueueAssumption DEF Init, TypeInv, TypeOK, LocalOK, TaskStatus, DocStatus,
     PcValues, Holding, Failing, NoRun, Never, SpanTree

\* Steps that rewrite one task's row and leave every process where it stands.
LEMMA TypeInvRequests ==
    ASSUME TypeInv, NEW t \in Tasks, Submit(t) \/ Cancel(t)
    PROVE  TypeInv'
  <1> USE DEF TypeInv, TypeOK, LocalOK
  <1>1. CASE Submit(t)
    BY <1>1 DEF Submit, TaskStatus, DocStatus
  <1>2. CASE Cancel(t)
    <2> DEFINE g == [i \in DOMAIN spans[t] |-> CancelOpen(spans[t][i])]
    <2>1. spans' = [spans EXCEPT ![t] = g]
      BY <1>2 DEF Cancel
    <2>2. \A i \in 1 .. Len(spans[t]) : spans[t][i] \in SpanTree
      OBVIOUS
    <2>3. g \in [1 .. Len(spans[t]) -> SpanTree]
      BY <2>2, SpanTreeOperators
    <2>4. /\ spans' \in [Tasks -> Seq(SpanTree)]
          /\ \A u \in Tasks : Len(spans'[u]) = Len(spans[u])
      BY <2>1, <2>3, RewriteTrees
    <2>5. LocalOK'
      BY <1>2, <2>4 DEF Cancel, RunState
    <2>6. TypeOK'
      BY <1>2, <2>4 DEF Cancel, TaskStatus, DocStatus, Terminal, Never, UpdateStatus
    <2> QED  BY <2>5, <2>6
  <1> QED  BY <1>1, <1>2

LEMMA TypeInvRecover ==
    ASSUME TypeInv, NEW w \in Workers, RecoverStaleClaim(w)
    PROVE  TypeInv'
  <1> USE DEF TypeInv, TypeOK, LocalOK
  <1>1. PICK t \in Tasks :
          /\ spans' = [spans EXCEPT ![t] =
                         [i \in DOMAIN spans[t] |->
                            IF LastRunningRoot(t, i) THEN CloseStale(spans[t][i])
                            ELSE spans[t][i]]]
          /\ claimedAt' = [claimedAt EXCEPT ![t] = Never]
          /\ failCount' = [failCount EXCEPT ![t] = failCount[t] + 1]
          /\ \/ /\ RetryLeft(failCount[t])
                /\ status' = [status EXCEPT ![t] = "pending"]
                /\ nextAttempt' =
                      [nextAttempt EXCEPT ![t] = RetryAt(failCount[t], pollAt[w])]
                /\ UNCHANGED <<deadLetters, docStatus>>
             \/ /\ ~RetryLeft(failCount[t])
                /\ status' = [status EXCEPT ![t] = "failed"]
                /\ nextAttempt' = [nextAttempt EXCEPT ![t] = Never]
                /\ deadLetters' = deadLetters \cup {t}
                /\ UpdateStatus(t, "failed")
    BY DEF RecoverStaleClaim, OldestFirst, Stale
  <1>2. UNCHANGED <<now, pc, run, pollAt>>
    BY DEF RecoverStaleClaim
  <1>3. pollAt[w] \in Nat /\ failCount[t] \in Nat
    BY DEF Procs
  <1>4. /\ spans' \in [Tasks -> Seq(SpanTree)]
        /\ \A u \in Tasks : Len(spans'[u]) = Len(spans[u])
    <2> DEFINE g == [i \in DOMAIN spans[t] |->
                       IF LastRunningRoot(t, i) THEN CloseStale(spans[t][i])
                       ELSE spans[t][i]]
    <2>1. \A i \in 1 .. Len(spans[t]) : spans[t][i] \in SpanTree
      OBVIOUS
    <2>2. g \in [1 .. Len(spans[t]) -> SpanTree]
      BY <2>1, SpanTreeOperators
    <2> QED  BY <1>1, <2>2, RewriteTrees
  <1>5. nextAttempt' \in [Tasks -> Nat]
    <2>1. CASE RetryLeft(failCount[t])
      <3>1. RetryAt(failCount[t], pollAt[w]) \in Nat
        BY <1>3, <2>1, RetryAtType
      <3> QED  BY <1>1, <2>1, <3>1
    <2>2. CASE ~RetryLeft(failCount[t])
      BY <1>1, <2>2 DEF Never
    <2> QED  BY <2>1, <2>2
  <1>6. TypeOK'
    <2>1. failCount' \in [Tasks -> Nat] /\ claimedAt' \in [Tasks -> Nat]
      BY <1>1, <1>3 DEF Never
    <2>2. /\ status' \in [Tasks -> TaskStatus]
          /\ docStatus' \in [Tasks -> DocStatus]
          /\ deadLetters' \subseteq Tasks
      BY <1>1 DEF TaskStatus, DocStatus, Terminal, UpdateStatus
    <2> QED  BY <1>2, <1>4, <1>5, <2>1, <2>2
  <1>7. LocalOK'
    BY <1>2, <1>4 DEF RunState
  <1> QED  BY <1>6, <1>7

LEMMA TypeInvClaim ==
    ASSUME TypeInv, NEW p \in Procs,
           \/ ClaimNext(p) \/ OpenSpans(p) \/ Crash(p)
    PROVE  TypeInv'
  <1> USE DEF TypeInv, TypeOK, LocalOK
  <1>1. CASE ClaimNext(p)
    <2>1. PICK t \in Tasks :
            /\ status' = [status EXCEPT ![t] = "running"]
            /\ claimedAt' = [claimedAt EXCEPT ![t] = now]
            /\ nextAttempt' = [nextAttempt EXCEPT ![t] = Never]
            /\ run' = [run EXCEPT ![p] =
                        [task |-> t, token |-> now, failCount |-> failCount[t],
                         tree |-> 0, stage |-> 1]]
      BY <1>1 DEF ClaimNext, Claimable
    <2>2. /\ pc' = [pc EXCEPT ![p] = "claimed"]
          /\ UNCHANGED <<now, failCount, deadLetters, docStatus, spans, pollAt>>
      BY <1>1 DEF ClaimNext
    <2>3. run'[p] \in RunState /\ run'[p].stage = 1
      BY <2>1 DEF RunState
    <2>4. \A q \in Procs : q # p => run'[q] = run[q] /\ pc'[q] = pc[q]
      BY <2>1, <2>2
    <2>5. run' \in [Procs -> RunState \cup {NoRun}]
      BY <2>1, <2>3, <2>4
    <2>6. TypeOK'
      BY <2>1, <2>2, <2>5 DEF TaskStatus, PcValues, Holding, Failing, Never
    <2>7. 1 \in Stages
      BY QueueAssumption DEF Stages
    <2>8. LocalOK'
      BY <2>2, <2>3, <2>4, <2>7
    <2> QED  BY <2>6, <2>8
  <1>2. CASE OpenSpans(p)
    <2> DEFINE t == run[p].task
    <2>1. run[p] \in RunState /\ t \in Tasks
      BY <1>2 DEF OpenSpans, Holding, Failing, RunState
    <2>2. /\ spans' = [spans EXCEPT ![t] = Append(spans[t], NewTree)]
          /\ run' = [run EXCEPT ![p].tree = Len(spans[t]) + 1]
          /\ pc' = [pc EXCEPT ![p] = "running"]
          /\ UNCHANGED <<now, queueVars, pollAt>>
      BY <1>2 DEF OpenSpans
    <2>3. spans' \in [Tasks -> Seq(SpanTree)]
      BY <2>1, <2>2, NewTreeType
    <2>4. \A u \in Tasks : Len(spans'[u]) >= Len(spans[u])
      BY <2>1, <2>2
    <2>5. Len(spans'[t]) = Len(spans[t]) + 1 /\ Len(spans[t]) \in Nat
      BY <2>1, <2>2
    <2>6. run'[p] = [run[p] EXCEPT !.tree = Len(spans[t]) + 1]
      BY <2>2
    <2>7. /\ run'[p] \in RunState
          /\ run'[p].tree = Len(spans[t]) + 1
          /\ run'[p].task = t
          /\ run'[p].stage = run[p].stage
      <3> DEFINE r == run[p]
                 n == Len(spans[t]) + 1
      <3>1. r \in RunState /\ n \in Nat /\ run'[p] = [r EXCEPT !.tree = n]
        BY <2>1, <2>5, <2>6
      <3>2. run'[p] \in RunState /\ run'[p].tree = n /\ run'[p].task = r.task
            /\ run'[p].stage = r.stage
        <4> HIDE DEF r, n
        <4> QED  BY <3>1, SetTree
      <3> QED  BY <3>2
    <2>8. \A q \in Procs : q # p => run'[q] = run[q] /\ pc'[q] = pc[q]
      BY <2>2
    <2>9. run' \in [Procs -> RunState \cup {NoRun}]
      BY <2>2, <2>7, <2>8
    <2>10. LocalOK'
      <3> SUFFICES ASSUME NEW q \in Procs, pc'[q] \in Holding
                   PROVE  /\ run'[q] \in RunState
                          /\ pc'[q] # "claimed" =>
                               run'[q].tree \in 1 .. Len(spans'[run'[q].task])
                          /\ pc'[q] \in {"claimed", "running", "inStage"} =>
                               run'[q].stage \in Stages
        OBVIOUS
      <3>1. CASE q = p
        BY <3>1, <2>5, <2>7, <1>2 DEF OpenSpans, Holding, Failing
      <3>2. CASE q # p
        <4>1. run'[q].task \in Tasks
          BY <3>2, <2>8 DEF RunState
        <4>2. pc[q] \in Holding /\ run'[q] = run[q] /\ pc'[q] = pc[q]
          BY <3>2, <2>8
        <4>3. Len(spans[run[q].task]) \in Nat /\ Len(spans'[run[q].task]) \in Nat
          BY <2>3, <4>1, <4>2
        <4>4. pc[q] # "claimed" => run[q].tree \in 1 .. Len(spans'[run[q].task])
          BY <4>1, <4>2, <4>3, <2>4
        <4> QED  BY <4>2, <4>4
      <3> QED  BY <3>1, <3>2
    <2>11. TypeOK'
      BY <2>2, <2>3, <2>9 DEF queueVars, PcValues, Holding, Failing
    <2> QED  BY <2>10, <2>11
  <1>3. CASE Crash(p)
    BY <1>3 DEF Crash, queueVars, PcValues, Holding, Failing, NoRun
  <1> QED  BY <1>1, <1>2, <1>3

LEMMA TypeInvStages ==
    ASSUME TypeInv, NEW p \in Procs,
           \/ RunThrows(p) \/ StartStage(p) \/ FinishStage(p) \/ FailStage(p)
    PROVE  TypeInv'
  <1> DEFINE t == run[p].task
             i == run[p].tree
             s == run[p].stage
  <1> USE DEF TypeInv, TypeOK, LocalOK
  <1>1. /\ run[p] \in RunState
        /\ t \in Tasks
        /\ i \in 1 .. Len(spans[t])
        /\ s \in Stages
        /\ spans[t][i] \in SpanTree
    BY DEF RunThrows, StartStage, FinishStage, FailStage, Holding, Failing, RunState
  <1>2. ASSUME NEW st \in SpanStatus, SetStageSpan(p, st)
        PROVE  /\ spans' \in [Tasks -> Seq(SpanTree)]
               /\ \A u \in Tasks : Len(spans'[u]) = Len(spans[u])
    <2> DEFINE tree == [spans[t][i] EXCEPT !.stage[s] = st]
    <2>1. tree \in SpanTree
      BY <1>1 DEF SpanTree
    <2>2. spans' = [spans EXCEPT ![t][i] = tree]
      BY <1>2 DEF SetStageSpan
    <2> HIDE DEF tree
    <2> QED  BY <1>1, <2>1, <2>2, ReplaceTree
  <1>3. /\ spans' \in [Tasks -> Seq(SpanTree)]
        /\ \A u \in Tasks : Len(spans'[u]) = Len(spans[u])
    <2>1. CASE UNCHANGED spans
      BY <2>1
    <2>2. CASE ~UNCHANGED spans
      BY <1>2, <2>2 DEF RunThrows, StartStage, FinishStage, FailStage, SpanStatus
    <2> QED  BY <2>1, <2>2
  <1>4. UNCHANGED <<now, queueVars, pollAt>>
    BY DEF RunThrows, StartStage, FinishStage, FailStage
  <1>5. CASE FinishStage(p)
    <2>1. run' = [run EXCEPT ![p] = [run[p] EXCEPT !.stage = s + 1]]
      BY <1>5 DEF FinishStage
    <2>2. s + 1 \in Nat
      BY <1>1 DEF Stages
    <2>3. /\ run'[p] \in RunState
          /\ run'[p].tree = i
          /\ run'[p].task = t
          /\ run'[p].stage = s + 1
      <3> DEFINE r == run[p]
                 n == s + 1
      <3>1. r \in RunState /\ n \in Nat
            /\ run'[p] = [r EXCEPT !.stage = n]
        BY <1>1, <2>1, <2>2
      <3>2. run'[p] \in RunState /\ run'[p].tree = r.tree /\ run'[p].task = r.task
            /\ run'[p].stage = n
        <4> HIDE DEF r, n
        <4> QED  BY <3>1, SetStage
      <3> QED  BY <3>2
    <2>4. pc' = [pc EXCEPT ![p] = IF s = StageCount THEN "finishing" ELSE "running"]
      BY <1>5 DEF FinishStage
    <2>5. \A q \in Procs : q # p => run'[q] = run[q] /\ pc'[q] = pc[q]
      BY <2>1, <2>4
    <2>6. run' \in [Procs -> RunState \cup {NoRun}]
      BY <2>1, <2>3, <2>5
    <2>7. pc'[p] = "running" => s + 1 \in Stages
      BY <1>1, <2>4, QueueAssumption DEF Stages
    <2>8. TypeOK'
      BY <1>3, <1>4, <2>4, <2>6 DEF queueVars, PcValues, Holding, Failing
    <2>9. \A q \in Procs : run'[q] \in RunState => run'[q].task \in Tasks
      BY DEF RunState
    <2>10. LocalOK'
      BY <1>1, <1>3, <2>3, <2>4, <2>5, <2>7, <2>9 DEF Holding, Failing
    <2> QED  BY <2>8, <2>10
  <1>6. CASE RunThrows(p) \/ StartStage(p) \/ FailStage(p)
    <2>1. UNCHANGED run
      BY <1>6 DEF RunThrows, StartStage, FailStage
    <2>2. \E c \in {"inStage", "failing"} : pc' = [pc EXCEPT ![p] = c]
      BY <1>6 DEF RunThrows, StartStage, FailStage
    <2>3. TypeOK'
      BY <1>3, <1>4, <2>1, <2>2 DEF queueVars, PcValues, Holding, Failing
    <2>4. pc[p] \in {"running", "inStage"}
      BY <1>6 DEF RunThrows, StartStage, FailStage
    <2>5. \A q \in Procs : run[q] \in RunState => run[q].task \in Tasks
      BY DEF RunState
    <2>6. LocalOK'
      BY <1>1, <1>3, <2>1, <2>2, <2>4, <2>5 DEF Holding, Failing
    <2> QED  BY <2>3, <2>6
  <1> QED  BY <1>5, <1>6

LEMMA TypeInvFinish ==
    ASSUME TypeInv, NEW p \in Procs,
           \/ Complete(p) \/ CompletionRollsBack(p)
           \/ RecordFailure(p) \/ LoseClaim(p)
    PROVE  TypeInv'
  <1> DEFINE t == run[p].task
             i == run[p].tree
  <1> USE DEF TypeInv, TypeOK, LocalOK
  <1>1. /\ run[p] \in RunState
        /\ t \in Tasks
        /\ i \in 1 .. Len(spans[t])
        /\ spans[t][i] \in SpanTree
    BY DEF Complete, CompletionRollsBack, RecordFailure, LoseClaim, Holding, Failing,
           RunState
  <1>2. /\ spans' \in [Tasks -> Seq(SpanTree)]
        /\ \A u \in Tasks : Len(spans'[u]) = Len(spans[u])
    <2>1. CASE UNCHANGED spans
      BY <2>1
    <2>2. CASE Complete(p)
      <3> DEFINE tree == [spans[t][i] EXCEPT !.root = "done"]
      <3>1. tree \in SpanTree
        BY <1>1 DEF SpanTree, SpanStatus
      <3>2. spans' = [spans EXCEPT ![t][i] = tree]
        BY <2>2 DEF Complete
      <3> HIDE DEF tree
      <3> QED  BY <1>1, <3>1, <3>2, ReplaceTree
    <2>3. CASE spans' = [spans EXCEPT ![t][i] = CloseFailed(spans[t][i])]
      <3>1. CloseFailed(spans[t][i]) \in SpanTree
        BY <1>1, SpanTreeOperators
      <3> QED  BY <1>1, <2>3, <3>1, ReplaceTree
    <2> QED
      BY <2>1, <2>2, <2>3 DEF CompletionRollsBack, RecordFailure, LoseClaim
  <1>3. /\ run' = run \/ run' = [run EXCEPT ![p] = NoRun]
        /\ \/ pc' = [pc EXCEPT ![p] = "idle"]
           \/ pc' = [pc EXCEPT ![p] = "givingUp"] /\ UNCHANGED run
        /\ pc[p] \notin {"claimed", "running", "inStage"} /\ pc[p] \in Holding
        /\ UNCHANGED <<now, pollAt>>
    BY DEF Complete, CompletionRollsBack, RecordFailure, LoseClaim, queueVars,
           Holding, Failing
  <1>4. LocalOK'
    <2> SUFFICES ASSUME NEW q \in Procs, pc'[q] \in Holding
                 PROVE  /\ run'[q] \in RunState
                        /\ pc'[q] # "claimed" =>
                             run'[q].tree \in 1 .. Len(spans'[run'[q].task])
                        /\ pc'[q] \in {"claimed", "running", "inStage"} =>
                             run'[q].stage \in Stages
      OBVIOUS
    <2>1. /\ run'[q] = run[q]
          /\ pc[q] \in Holding
          /\ pc'[q] = pc[q] \/ (pc'[q] = "givingUp" /\ q = p)
      <3>1. CASE q = p
        <4>1. pc' # [pc EXCEPT ![p] = "idle"]
          BY <3>1 DEF Holding, Failing
        <4> QED  BY <1>3, <3>1, <4>1
      <3>2. CASE q # p
        BY <1>3, <3>2
      <3> QED  BY <3>1, <3>2
    <2>2. run[q].task \in Tasks
      BY <2>1 DEF RunState
    <2> QED  BY <1>2, <1>3, <2>1, <2>2
  <1>5. /\ run' \in [Procs -> RunState \cup {NoRun}]
        /\ pc' \in [Procs -> PcValues]
    BY <1>3 DEF PcValues, Holding, Failing
  <1>6. CASE RecordFailure(p)
    <2> DEFINE Again == /\ status' = [status EXCEPT ![t] = "pending"]
                        /\ UNCHANGED <<deadLetters, docStatus>>
               Last == /\ status' = [status EXCEPT ![t] = "failed"]
                       /\ docStatus' = [docStatus EXCEPT ![t] = "failed"]
                       /\ deadLetters' \subseteq deadLetters \cup {t}
    <2>0. /\ failCount' = [failCount EXCEPT ![t] = failCount[t] + 1]
          /\ claimedAt' = [claimedAt EXCEPT ![t] = Never]
          /\ Again \/ Last
      BY <1>6 DEF RecordFailure, UpdateStatus
    <2>1. /\ status' \in [Tasks -> TaskStatus]
          /\ docStatus' \in [Tasks -> DocStatus]
          /\ failCount' \in [Tasks -> Nat]
          /\ claimedAt' \in [Tasks -> Nat]
          /\ deadLetters' \subseteq Tasks
      <3>1. failCount' \in [Tasks -> Nat] /\ claimedAt' \in [Tasks -> Nat]
        BY <1>1, <2>0 DEF Never
      <3>2. CASE Again
        BY <1>1, <3>1, <3>2 DEF TaskStatus
      <3>3. CASE Last
        BY <1>1, <3>1, <3>3 DEF TaskStatus, DocStatus, Terminal
      <3> QED  BY <2>0, <3>2, <3>3
    <2>2. nextAttempt' \in [Tasks -> Nat]
      <3>1. run[p].failCount \in Nat
        BY <1>1 DEF RunState
      <3>2. CASE RetryAgain(p)
        <4>1. RetryAt(run[p].failCount, now) \in Nat
          BY <3>1, <3>2, RetryAtType DEF RetryAgain
        <4> QED  BY <1>1, <1>6, <3>2, <4>1 DEF RecordFailure
      <3>3. CASE ~RetryAgain(p)
        BY <1>1, <1>6, <3>3 DEF RecordFailure, Never
      <3> QED  BY <3>2, <3>3
    <2> QED  BY <1>2, <1>3, <1>4, <1>5, <2>1, <2>2
  <1>7. CASE Complete(p)
    BY <1>1, <1>2, <1>3, <1>4, <1>5, <1>7
       DEF Complete, TaskStatus, DocStatus, Terminal, UpdateStatus, Never
  <1>8. CASE CompletionRollsBack(p) \/ LoseClaim(p)
    BY <1>2, <1>3, <1>4, <1>5, <1>8 DEF CompletionRollsBack, LoseClaim, queueVars
  <1> QED  BY <1>6, <1>7, <1>8

LEMMA TypeInvStep == TypeInv /\ [Next]_vars => TypeInv'
  <1> SUFFICES ASSUME TypeInv, [Next]_vars PROVE TypeInv'
    OBVIOUS
  <1>1. CASE UNCHANGED vars
    BY <1>1 DEF vars, queueVars, TypeInv, TypeOK, LocalOK
  <1>2. ASSUME NEW t \in Tasks, Submit(t) \/ Cancel(t) PROVE TypeInv'
    BY <1>2, TypeInvRequests
  <1>3. ASSUME NEW w \in Workers, Poll(w) PROVE TypeInv'
    <2>1. CASE StartPoll(w)
      BY <2>1 DEF StartPoll, queueVars, TypeInv, TypeOK, LocalOK, PcValues, Holding, Failing
    <2>2. CASE RecoverStaleClaim(w)
      BY <1>3, <2>2, TypeInvRecover
    <2>3. CASE PollEmpty(w)
      BY <2>3 DEF PollEmpty, queueVars, TypeInv, TypeOK, LocalOK, PcValues, Holding, Failing
    <2> QED  BY <1>3, <2>1, <2>2, <2>3 DEF Poll
  <1>4. ASSUME NEW p \in Procs, RunStep(p) \/ Crash(p) PROVE TypeInv'
    BY <1>4, TypeInvClaim, TypeInvStages, TypeInvFinish DEF RunStep
  <1>5. CASE Tick
    BY <1>5 DEF Tick, queueVars, TypeInv, TypeOK, LocalOK
  <1> QED  BY <1>1, <1>2, <1>3, <1>4, <1>5 DEF Next

LEMMA TypeInvariance == Spec => []TypeInv
  <1> QED  BY TypeInvInit, TypeInvStep, PTL DEF Spec

\* Every reachable state has the rows and the local variables the code declares
\* (task_pending_ops, processing_spans, the locals of runNext).
THEOREM TypeCorrect == Spec => []TypeOK
  <1>1. TypeInv => TypeOK
    BY DEF TypeInv
  <1> QED  BY <1>1, TypeInvariance, PTL

-----------------------------------------------------------------------------
(* What one step may do to the rows of the queue, whoever takes it. *)

\* The clock and the tokens a process holds relate to the rows like this: a late
\* process holds a token older than the claim, or than the retry time, in the row.
ClaimTimes ==
    /\ \A t \in Tasks : status[t] = "running" => claimedAt[t] <= now
    /\ \A p \in Procs : pc[p] = "recovering" => pollAt[p] <= now
    /\ \A p \in Procs : pc[p] \in Holding =>
        /\ run[p].token <= now
        /\ status[run[p].task] # "absent"
        /\ status[run[p].task] = "running" => run[p].token <= claimedAt[run[p].task]
        /\ status[run[p].task] = "pending" => run[p].token < nextAttempt[run[p].task]
    /\ \A p \in Procs : \A t \in Tasks :
        Owns(p, t) => run[p].failCount = failCount[t]

ClaimInv == ClaimTimes /\ ClaimExclusive

RowsSame == UNCHANGED queueVars

RowSubmit(t) ==
    /\ status[t] = "absent"
    /\ status' = [status EXCEPT ![t] = "pending"]
    /\ docStatus' = [docStatus EXCEPT ![t] = "pending"]
    /\ UNCHANGED <<failCount, claimedAt, nextAttempt, deadLetters>>

RowClaim(t) ==
    /\ status[t] = "pending"
    /\ nextAttempt[t] <= now
    /\ status' = [status EXCEPT ![t] = "running"]
    /\ claimedAt' = [claimedAt EXCEPT ![t] = now]
    /\ nextAttempt' = [nextAttempt EXCEPT ![t] = Never]
    /\ UNCHANGED <<failCount, deadLetters, docStatus>>

RowSettle(t, st) ==
    /\ \/ st = "completed" /\ status[t] = "running"
       \/ st = "cancelled" /\ status[t] \in {"pending", "running"}
    /\ status' = [status EXCEPT ![t] = st]
    /\ docStatus' = [docStatus EXCEPT ![t] = st]
    /\ claimedAt' = [claimedAt EXCEPT ![t] = Never]
    /\ nextAttempt' = [nextAttempt EXCEPT ![t] = Never]
    /\ UNCHANGED <<failCount, deadLetters>>

RowRetry(t) ==
    /\ status[t] = "running"
    /\ RetryLeft(failCount[t])
    /\ claimedAt' = [claimedAt EXCEPT ![t] = Never]
    /\ status' = [status EXCEPT ![t] = "pending"]
    /\ failCount' = [failCount EXCEPT ![t] = failCount[t] + 1]
    /\ \E n \in Nat : n > claimedAt[t] /\ nextAttempt' = [nextAttempt EXCEPT ![t] = n]
    /\ UNCHANGED <<deadLetters, docStatus>>

RowGiveUp(t) ==
    /\ status[t] = "running"
    /\ status' = [status EXCEPT ![t] = "failed"]
    /\ docStatus' = [docStatus EXCEPT ![t] = "failed"]
    /\ failCount' = [failCount EXCEPT ![t] = failCount[t] + 1]
    /\ claimedAt' = [claimedAt EXCEPT ![t] = Never]
    /\ nextAttempt' = [nextAttempt EXCEPT ![t] = Never]
    /\ \/ ~RetryLeft(failCount[t]) /\ deadLetters' = deadLetters \cup {t}
       \/ UNCHANGED deadLetters

RowChange(t) ==
    \/ RowSubmit(t) \/ RowRetry(t) \/ RowGiveUp(t)
    \/ \E st \in {"completed", "cancelled"} : RowSettle(t, st)

LEMMA ClaimRow ==
    ASSUME NEW p \in Procs, ClaimNext(p)
    PROVE  \E t \in Tasks : RowClaim(t)
  BY DEF ClaimNext, Claimable, RowClaim

LEMMA RecoverRow ==
    ASSUME TypeInv, ClaimInv, NEW w \in Workers, RecoverStaleClaim(w)
    PROVE  \E t \in Tasks : RowRetry(t) \/ RowGiveUp(t)
  <1>1. pollAt[w] \in Nat
    BY DEF TypeInv, TypeOK, Procs
  <1>2. PICK t \in OldestFirst(Stale(pollAt[w])) :
          /\ claimedAt' = [claimedAt EXCEPT ![t] = Never]
          /\ failCount' = [failCount EXCEPT ![t] = failCount[t] + 1]
          /\ \/ /\ RetryLeft(failCount[t])
                /\ status' = [status EXCEPT ![t] = "pending"]
                /\ nextAttempt' =
                      [nextAttempt EXCEPT ![t] = RetryAt(failCount[t], pollAt[w])]
                /\ UNCHANGED <<deadLetters, docStatus>>
             \/ /\ ~RetryLeft(failCount[t])
                /\ status' = [status EXCEPT ![t] = "failed"]
                /\ nextAttempt' = [nextAttempt EXCEPT ![t] = Never]
                /\ deadLetters' = deadLetters \cup {t}
                /\ docStatus' = [docStatus EXCEPT ![t] = "failed"]
    BY DEF RecoverStaleClaim, UpdateStatus
  <1>3. /\ t \in Tasks
        /\ status[t] = "running"
        /\ claimedAt[t] + ClaimTimeout <= pollAt[w]
    BY DEF OldestFirst, Stale
  <1>4. failCount[t] \in Nat /\ claimedAt[t] \in Nat
    BY <1>3 DEF TypeInv, TypeOK
  <1>5. CASE RetryLeft(failCount[t])
    <2>1. /\ RetryAt(failCount[t], pollAt[w]) \in Nat
          /\ RetryAt(failCount[t], pollAt[w]) > pollAt[w]
      BY <1>1, <1>4, <1>5, RetryAtType
    <2>2. RetryAt(failCount[t], pollAt[w]) > claimedAt[t]
      BY <1>1, <1>3, <1>4, <2>1, QueueAssumption
    <2> QED  BY <1>2, <1>3, <1>5, <2>1, <2>2 DEF RowRetry
  <1>6. CASE ~RetryLeft(failCount[t])
    BY <1>2, <1>3, <1>6 DEF RowGiveUp
  <1> QED  BY <1>5, <1>6

LEMMA RecordRow ==
    ASSUME TypeInv, ClaimInv, NEW p \in Procs, RecordFailure(p)
    PROVE  RowRetry(run[p].task) \/ RowGiveUp(run[p].task)
  <1> DEFINE t == run[p].task
  <1>1. /\ pc[p] \in Holding
        /\ status[t] = "running"
        /\ claimedAt[t] = run[p].token
    BY DEF RecordFailure, Fenced, Holding
  <1>2. run[p] \in RunState /\ t \in Tasks
    BY <1>1 DEF TypeInv, LocalOK, RunState
  <1>3. Owns(p, t)
    BY <1>1 DEF Owns
  <1>4. run[p].failCount = failCount[t] /\ failCount[t] \in Nat
    BY <1>2, <1>3 DEF ClaimInv, ClaimTimes, TypeInv, TypeOK
  <1>5. claimedAt[t] \in Nat /\ now \in Nat /\ claimedAt[t] <= now
    BY <1>1, <1>2 DEF ClaimInv, ClaimTimes, TypeInv, TypeOK
  <1>6. /\ claimedAt' = [claimedAt EXCEPT ![t] = Never]
        /\ failCount' = [failCount EXCEPT ![t] = failCount[t] + 1]
        /\ \/ /\ RetryAgain(p)
              /\ status' = [status EXCEPT ![t] = "pending"]
              /\ nextAttempt' = [nextAttempt EXCEPT ![t] = RetryAt(run[p].failCount, now)]
              /\ UNCHANGED <<deadLetters, docStatus>>
           \/ /\ ~RetryAgain(p)
              /\ status' = [status EXCEPT ![t] = "failed"]
              /\ nextAttempt' = [nextAttempt EXCEPT ![t] = Never]
              /\ docStatus' = [docStatus EXCEPT ![t] = "failed"]
              /\ deadLetters' = IF DeadLetters(p) THEN deadLetters \cup {t}
                                ELSE deadLetters
    BY DEF RecordFailure, UpdateStatus
  <1>7. CASE RetryAgain(p)
    <2>1. RetryLeft(failCount[t])
      BY <1>4, <1>7 DEF RetryAgain
    <2>2. /\ RetryAt(failCount[t], now) \in Nat
          /\ RetryAt(failCount[t], now) > now
      BY <1>4, <1>5, <2>1, RetryAtType
    <2>3. RetryAt(failCount[t], now) > claimedAt[t]
      BY <1>5, <2>2
    <2> QED  BY <1>1, <1>4, <1>6, <1>7, <2>1, <2>2, <2>3 DEF RowRetry
  <1>8. CASE ~RetryAgain(p)
    BY <1>1, <1>4, <1>6, <1>8 DEF RowGiveUp, DeadLetters
  <1> QED  BY <1>7, <1>8

\* Every step leaves the rows alone, claims a row, or changes exactly one row in
\* one of the other ways above.
LEMMA RowStep ==
    ASSUME TypeInv, ClaimInv, [Next]_vars
    PROVE  \/ RowsSame
           \/ \E t \in Tasks : RowChange(t)
           \/ \E p \in Procs : ClaimNext(p)
  <1>1. CASE UNCHANGED vars
    BY <1>1 DEF vars, RowsSame
  <1>2. ASSUME NEW t \in Tasks, Submit(t) PROVE RowSubmit(t)
    BY <1>2 DEF Submit, RowSubmit
  <1>3. ASSUME NEW t \in Tasks, Cancel(t) PROVE RowSettle(t, "cancelled")
    BY <1>3 DEF Cancel, RowSettle, UpdateStatus
  <1>4. ASSUME NEW w \in Workers, Poll(w)
        PROVE  RowsSame \/ \E t \in Tasks : RowRetry(t) \/ RowGiveUp(t)
    BY <1>4, RecoverRow DEF Poll, StartPoll, PollEmpty, RowsSame
  <1>6. ASSUME NEW p \in Procs, Complete(p) PROVE RowSettle(run[p].task, "completed")
    BY <1>6 DEF Complete, Fenced, RowSettle, UpdateStatus
  <1>7. ASSUME NEW p \in Procs, Complete(p) \/ RecordFailure(p)
        PROVE  run[p].task \in Tasks
    BY <1>7 DEF Complete, RecordFailure, Holding, Failing, TypeInv, LocalOK, RunState
  <1>8. ASSUME NEW p \in Procs,
               \/ OpenSpans(p) \/ RunThrows(p) \/ StartStage(p) \/ FinishStage(p)
               \/ FailStage(p) \/ CompletionRollsBack(p) \/ LoseClaim(p) \/ Crash(p)
        PROVE  RowsSame
    BY <1>8 DEF OpenSpans, RunThrows, StartStage, FinishStage, FailStage,
                CompletionRollsBack, LoseClaim, Crash, RowsSame
  <1>9. ASSUME NEW p \in Procs, RunStep(p) \/ Crash(p)
        PROVE  RowsSame \/ ClaimNext(p) \/ \E t \in Tasks : RowChange(t)
    BY <1>6, <1>7, <1>8, <1>9, RecordRow DEF RunStep, RowChange
  <1>10. CASE Tick
    BY <1>10 DEF Tick, RowsSame
  <1> QED  BY <1>1, <1>2, <1>3, <1>4, <1>9, <1>10 DEF Next, RowChange

\* A process that holds a task after a step held it before with the same token, or
\* took it in this step.
LEMMA HolderStep ==
    ASSUME TypeInv, [Next]_vars, NEW q \in Procs, pc'[q] \in Holding
    PROVE  \/ ClaimNext(q)
           \/ /\ pc[q] \in Holding
              /\ run'[q].task = run[q].task
              /\ run'[q].token = run[q].token
              /\ run'[q].failCount = run[q].failCount
  <1> USE DEF TypeInv, TypeOK, LocalOK
  <1>1. CASE UNCHANGED vars
    BY <1>1 DEF vars
  <1>2. ASSUME NEW t \in Tasks, Submit(t) \/ Cancel(t)
        PROVE  UNCHANGED <<pc, run>>
    BY <1>2 DEF Submit, Cancel
  <1>3. ASSUME NEW w \in Workers, Poll(w)
        PROVE  UNCHANGED run /\ pc[q] \in Holding
    BY <1>3 DEF Poll, StartPoll, RecoverStaleClaim, PollEmpty, Holding, Failing
  <1>4. ASSUME NEW p \in Procs, p # q, RunStep(p) \/ Crash(p)
        PROVE  pc'[q] = pc[q] /\ run'[q] = run[q]
    BY <1>4 DEF RunStep, ClaimNext, OpenSpans, RunThrows, StartStage, FinishStage,
       FailStage, Complete, CompletionRollsBack, RecordFailure, LoseClaim, Crash
  <1>5. CASE OpenSpans(q)
    <2>1. pc[q] \in Holding /\ run[q] \in RunState
      BY <1>5 DEF OpenSpans, Holding
    <2> DEFINE r == run[q]
               n == Len(spans[r.task]) + 1
    <2>2. r \in RunState /\ n \in Nat /\ run'[q] = [r EXCEPT !.tree = n]
      BY <1>5, <2>1 DEF OpenSpans, RunState
    <2>3. /\ run'[q].task = r.task
          /\ run'[q].token = r.token
          /\ run'[q].failCount = r.failCount
      <3> HIDE DEF r, n
      <3> QED  BY <2>2, SetTree
    <2> QED  BY <2>1, <2>3
  <1>6. CASE FinishStage(q)
    <2>1. pc[q] \in Holding /\ run[q] \in RunState
      BY <1>6 DEF FinishStage, Holding
    <2> DEFINE r == run[q]
               n == r.stage + 1
    <2>2. r \in RunState /\ n \in Nat /\ run'[q] = [r EXCEPT !.stage = n]
      BY <1>6, <2>1 DEF FinishStage, RunState
    <2>3. /\ run'[q].task = r.task
          /\ run'[q].token = r.token
          /\ run'[q].failCount = r.failCount
      <3> HIDE DEF r, n
      <3> QED  BY <2>2, SetStage
    <2> QED  BY <2>1, <2>3
  <1>7. CASE RunThrows(q) \/ StartStage(q) \/ FailStage(q) \/ CompletionRollsBack(q)
    BY <1>7 DEF RunThrows, StartStage, FailStage, CompletionRollsBack, Holding
  <1>8. ASSUME Complete(q) \/ RecordFailure(q) \/ LoseClaim(q) \/ Crash(q)
        PROVE  FALSE
    BY <1>8 DEF Complete, RecordFailure, LoseClaim, Crash, Holding, Failing
  <1>9. CASE Tick
    BY <1>9 DEF Tick
  <1> QED
    BY <1>1, <1>2, <1>3, <1>4, <1>5, <1>6, <1>7, <1>8, <1>9 DEF Next, RunStep

-----------------------------------------------------------------------------
(* Claims are exclusive. *)

LEMMA ClaimInvInit == Init => ClaimInv
  BY DEF Init, ClaimInv, ClaimTimes, ClaimExclusive, Owns, Holding, Failing

LEMMA TimesGrow ==
    ASSUME TypeInv, ClaimTimes, [Next]_vars
    PROVE  /\ now' \in Nat /\ now' >= now
           /\ \A p \in Procs : pc'[p] = "recovering" => pollAt'[p] <= now'
  <1> USE DEF TypeInv, TypeOK
  <1>1. CASE UNCHANGED vars
    BY <1>1 DEF vars, ClaimTimes
  <1>2. ASSUME NEW t \in Tasks, Submit(t) \/ Cancel(t)
        PROVE  UNCHANGED <<now, pc, pollAt>>
    BY <1>2 DEF Submit, Cancel
  <1>3. ASSUME NEW w \in Workers, Poll(w)
        PROVE  /\ UNCHANGED now
               /\ \A p \in Procs : pc'[p] = "recovering" => pollAt'[p] <= now
    <2>1. CASE StartPoll(w)
      <3>1. /\ UNCHANGED now
            /\ pc' = [pc EXCEPT ![w] = "recovering"]
            /\ pollAt' = [pollAt EXCEPT ![w] = now]
        BY <2>1 DEF StartPoll
      <3>2. now <= now
        OBVIOUS
      <3> QED  BY <3>1, <3>2 DEF ClaimTimes, Procs
    <2>2. CASE RecoverStaleClaim(w) \/ PollEmpty(w)
      BY <2>2 DEF RecoverStaleClaim, PollEmpty, ClaimTimes
    <2> QED  BY <1>3, <2>1, <2>2 DEF Poll
  <1>4. ASSUME NEW p \in Procs, RunStep(p) \/ Crash(p)
        PROVE  /\ UNCHANGED <<now, pollAt>>
               /\ \A q \in Procs : pc'[q] = "recovering" => pc[q] = "recovering"
    BY <1>4 DEF RunStep, ClaimNext, OpenSpans, RunThrows, StartStage, FinishStage,
       FailStage, Complete, CompletionRollsBack, RecordFailure, LoseClaim, Crash
  <1>5. CASE Tick
    BY <1>5 DEF Tick, ClaimTimes
  <1> QED  BY <1>1, <1>2, <1>3, <1>4, <1>5 DEF Next, ClaimTimes

\* A step in which nobody claims: every holder held before.
LEMMA ClaimInvOthers ==
    ASSUME TypeInv, TypeInv', ClaimInv, [Next]_vars,
           \A q \in Procs : ~ClaimNext(q),
           RowsSame \/ \E t \in Tasks : RowChange(t)
    PROVE  ClaimInv'
  <1>1. /\ now' \in Nat /\ now' >= now
        /\ \A p \in Procs : pc'[p] = "recovering" => pollAt'[p] <= now'
    BY TimesGrow DEF ClaimInv
  <1>2. \A q \in Procs : pc'[q] \in Holding =>
           /\ pc[q] \in Holding
           /\ run'[q].task = run[q].task
           /\ run'[q].token = run[q].token
           /\ run'[q].failCount = run[q].failCount
           /\ run[q].task \in Tasks
           /\ run[q].token \in Nat
    BY HolderStep DEF TypeInv, LocalOK, RunState
  <1>3. /\ now \in Nat
        /\ status \in [Tasks -> TaskStatus]
        /\ claimedAt \in [Tasks -> Nat] /\ claimedAt' \in [Tasks -> Nat]
        /\ nextAttempt \in [Tasks -> Nat] /\ nextAttempt' \in [Tasks -> Nat]
        /\ failCount \in [Tasks -> Nat]
    BY DEF TypeInv, TypeOK
  <1>4. \A u \in Tasks : status'[u] = "running" =>
           /\ status[u] = "running"
           /\ claimedAt'[u] = claimedAt[u]
           /\ failCount'[u] = failCount[u]
    <2>1. CASE RowsSame
      BY <2>1 DEF RowsSame, queueVars
    <2>2. ASSUME NEW t \in Tasks, RowChange(t), NEW u \in Tasks,
                 status'[u] = "running"
          PROVE  /\ status[u] = "running"
                 /\ claimedAt'[u] = claimedAt[u]
                 /\ failCount'[u] = failCount[u]
      BY <1>3, <2>2 DEF RowChange, RowSubmit, RowRetry, RowGiveUp, RowSettle
    <2> QED  BY <2>1, <2>2
  <1>5. \A u \in Tasks : status'[u] = "pending" =>
           \/ status[u] = "pending" /\ nextAttempt'[u] = nextAttempt[u]
           \/ status[u] = "running" /\ nextAttempt'[u] > claimedAt[u]
           \/ status[u] = "absent"
    <2>1. CASE RowsSame
      BY <2>1 DEF RowsSame, queueVars
    <2>2. ASSUME NEW t \in Tasks, RowChange(t), NEW u \in Tasks,
                 status'[u] = "pending"
          PROVE  \/ status[u] = "pending" /\ nextAttempt'[u] = nextAttempt[u]
                 \/ status[u] = "running" /\ nextAttempt'[u] > claimedAt[u]
                 \/ status[u] = "absent"
      BY <1>3, <2>2 DEF RowChange, RowSubmit, RowRetry, RowGiveUp, RowSettle
    <2> QED  BY <2>1, <2>2
  <1>6. \A u \in Tasks : status'[u] = "absent" => status[u] = "absent"
    <2>1. CASE RowsSame
      BY <2>1 DEF RowsSame, queueVars
    <2>2. ASSUME NEW t \in Tasks, RowChange(t), NEW u \in Tasks,
                 status'[u] = "absent"
          PROVE  status[u] = "absent"
      BY <1>3, <2>2 DEF RowChange, RowSubmit, RowRetry, RowGiveUp, RowSettle
    <2> QED  BY <2>1, <2>2
  <1>7. \A t \in Tasks : status'[t] = "running" => claimedAt'[t] <= now'
    BY <1>1, <1>3, <1>4 DEF ClaimInv, ClaimTimes
  <1>8. \A p \in Procs : pc'[p] \in Holding =>
          /\ run'[p].token <= now'
          /\ status'[run'[p].task] # "absent"
          /\ status'[run'[p].task] = "running" => run'[p].token <= claimedAt'[run'[p].task]
          /\ status'[run'[p].task] = "pending" => run'[p].token < nextAttempt'[run'[p].task]
    <2> SUFFICES ASSUME NEW p \in Procs, pc'[p] \in Holding
                 PROVE  /\ run[p].token <= now'
                        /\ status'[run[p].task] # "absent"
                        /\ status'[run[p].task] = "running" =>
                             run[p].token <= claimedAt'[run[p].task]
                        /\ status'[run[p].task] = "pending" =>
                             run[p].token < nextAttempt'[run[p].task]
      BY <1>2
    <2> DEFINE u == run[p].task
               k == run[p].token
    <2>1. /\ u \in Tasks /\ k \in Nat
          /\ k <= now
          /\ status[u] # "absent"
          /\ status[u] = "running" => k <= claimedAt[u]
          /\ status[u] = "pending" => k < nextAttempt[u]
      BY <1>2 DEF ClaimInv, ClaimTimes
    <2> HIDE DEF u, k
    <2>2. /\ k <= now'
          /\ status'[u] # "absent"
          /\ status'[u] = "running" => k <= claimedAt'[u]
          /\ status'[u] = "pending" => k < nextAttempt'[u]
      BY <1>1, <1>3, <1>4, <1>5, <1>6, <2>1
    <2> QED  BY <2>2 DEF u, k
  <1>9. \A p \in Procs : \A t \in Tasks : Owns(p, t)' => Owns(p, t)
    BY <1>2, <1>4 DEF Owns
  <1>10. \A p \in Procs : \A t \in Tasks : Owns(p, t)' => run'[p].failCount = failCount'[t]
    <2> SUFFICES ASSUME NEW p \in Procs, NEW t \in Tasks, Owns(p, t)'
                 PROVE  run'[p].failCount = failCount'[t]
      OBVIOUS
    <2>1. /\ run[p].failCount = failCount[t]
          /\ pc'[p] \in Holding /\ status'[t] = "running"
      BY <1>9 DEF ClaimInv, ClaimTimes, Owns
    <2> QED  BY <1>2, <1>4, <2>1
  <1>11. ClaimExclusive'
    BY <1>9 DEF ClaimInv, ClaimExclusive
  <1>12. ClaimTimes'
    BY <1>1, <1>7, <1>8, <1>10 DEF ClaimTimes
  <1> QED  BY <1>11, <1>12 DEF ClaimInv

\* A claim: its token is the current time, later than every token still around.
LEMMA ClaimInvClaim ==
    ASSUME TypeInv, TypeInv', ClaimInv, NEW p \in Procs, ClaimNext(p)
    PROVE  ClaimInv'
  <1>1. PICK t \in Tasks :
          /\ status[t] = "pending"
          /\ nextAttempt[t] <= now
          /\ status' = [status EXCEPT ![t] = "running"]
          /\ claimedAt' = [claimedAt EXCEPT ![t] = now]
          /\ nextAttempt' = [nextAttempt EXCEPT ![t] = Never]
          /\ run' = [run EXCEPT ![p] =
                     [task |-> t, token |-> now, failCount |-> failCount[t],
                      tree |-> 0, stage |-> 1]]
    BY DEF ClaimNext, Claimable
  <1>2. /\ pc' = [pc EXCEPT ![p] = "claimed"]
        /\ UNCHANGED <<now, failCount, pollAt>>
    BY DEF ClaimNext
  <1>3. /\ now \in Nat
        /\ status \in [Tasks -> TaskStatus]
        /\ claimedAt \in [Tasks -> Nat]
        /\ nextAttempt \in [Tasks -> Nat]
        /\ failCount \in [Tasks -> Nat]
        /\ pc \in [Procs -> PcValues]
        /\ run \in [Procs -> RunState \cup {NoRun}]
    BY DEF TypeInv, TypeOK
  <1>4. /\ run'[p].task = t /\ run'[p].token = now /\ run'[p].failCount = failCount[t]
        /\ pc'[p] = "claimed"
        /\ \A q \in Procs : q # p => run'[q] = run[q] /\ pc'[q] = pc[q]
    BY <1>1, <1>2, <1>3
  <1>5. \A q \in Procs : pc[q] \in Holding =>
          /\ run[q].task \in Tasks
          /\ run[q].token \in Nat
          /\ run[q].token <= now
          /\ status[run[q].task] # "absent"
          /\ status[run[q].task] = "running" => run[q].token <= claimedAt[run[q].task]
          /\ status[run[q].task] = "pending" => run[q].token < nextAttempt[run[q].task]
    BY DEF ClaimInv, ClaimTimes, TypeInv, LocalOK, RunState
  <1>6. \A q \in Procs : q # p /\ pc[q] \in Holding /\ run[q].task = t =>
           run[q].token < now
    BY <1>1, <1>3, <1>5
  <1>7. \A q \in Procs : \A u \in Tasks : q # p /\ Owns(q, u)' => u # t /\ Owns(q, u)
    BY <1>1, <1>3, <1>4, <1>6 DEF Owns
  <1>8. \A u \in Tasks : Owns(p, u)' => u = t
    BY <1>4 DEF Owns
  <1>9. ClaimExclusive'
    <2> SUFFICES ASSUME NEW q \in Procs, NEW r \in Procs, NEW u \in Tasks,
                        Owns(q, u)', Owns(r, u)'
                 PROVE  q = r
      BY DEF ClaimExclusive
    <2>1. CASE q = p \/ r = p
      BY <1>7, <1>8, <2>1
    <2>2. CASE q # p /\ r # p
      BY <1>7, <2>2 DEF ClaimInv, ClaimExclusive
    <2> QED  BY <2>1, <2>2
  <1>10. \A q \in Procs : \A u \in Tasks : Owns(q, u)' => run'[q].failCount = failCount'[u]
    <2> SUFFICES ASSUME NEW q \in Procs, NEW u \in Tasks, Owns(q, u)'
                 PROVE  run'[q].failCount = failCount'[u]
      OBVIOUS
    <2>1. CASE q = p
      BY <1>2, <1>4, <1>8, <2>1
    <2>2. CASE q # p
      BY <1>2, <1>4, <1>7, <2>2 DEF ClaimInv, ClaimTimes
    <2> QED  BY <2>1, <2>2
  <1>11. \A q \in Procs : pc'[q] \in Holding =>
          /\ run'[q].token <= now'
          /\ status'[run'[q].task] # "absent"
          /\ status'[run'[q].task] = "running" => run'[q].token <= claimedAt'[run'[q].task]
          /\ status'[run'[q].task] = "pending" => run'[q].token < nextAttempt'[run'[q].task]
    <2> SUFFICES ASSUME NEW q \in Procs, pc'[q] \in Holding
                 PROVE  /\ run'[q].token <= now
                        /\ status'[run'[q].task] # "absent"
                        /\ status'[run'[q].task] = "running" =>
                             run'[q].token <= claimedAt'[run'[q].task]
                        /\ status'[run'[q].task] = "pending" =>
                             run'[q].token < nextAttempt'[run'[q].task]
      BY <1>2
    <2>1. CASE q = p
      BY <1>1, <1>3, <1>4, <2>1
    <2>2. CASE q # p
      BY <1>1, <1>3, <1>4, <1>5, <2>2
    <2> QED  BY <2>1, <2>2
  <1>12. \A u \in Tasks : status'[u] = "running" => claimedAt'[u] <= now'
    BY <1>1, <1>2, <1>3 DEF ClaimInv, ClaimTimes
  <1>13. \A q \in Procs : pc'[q] = "recovering" => pollAt'[q] <= now'
    BY <1>2, <1>4 DEF ClaimInv, ClaimTimes
  <1>14. ClaimTimes'
    BY <1>10, <1>11, <1>12, <1>13 DEF ClaimTimes
  <1> QED  BY <1>9, <1>14 DEF ClaimInv

LEMMA ClaimInvStep == TypeInv /\ TypeInv' /\ ClaimInv /\ [Next]_vars => ClaimInv'
  <1> SUFFICES ASSUME TypeInv, TypeInv', ClaimInv, [Next]_vars PROVE ClaimInv'
    OBVIOUS
  <1>1. CASE \E p \in Procs : ClaimNext(p)
    BY <1>1, ClaimInvClaim
  <1>2. CASE \A p \in Procs : ~ClaimNext(p)
    BY <1>2, RowStep, ClaimInvOthers
  <1> QED  BY <1>1, <1>2

LEMMA ClaimInvariance == Spec => []ClaimInv
  <1> QED  BY ClaimInvInit, ClaimInvStep, TypeInvariance, PTL DEF Spec

\* The timestamp of a claim fences it: no two processes, however late, ever own
\* the same task (claimNext, claimStale, recordFailure, finalize).
THEOREM ClaimsAreExclusive == Spec => []ClaimExclusive
  <1>1. ClaimInv => ClaimExclusive
    BY DEF ClaimInv
  <1> QED  BY <1>1, ClaimInvariance, PTL

-----------------------------------------------------------------------------
(* The document, the dead letters, and finality. *)

LEMMA MirrorStep ==
    TypeInv /\ ClaimInv /\ DocumentMirrorsTask /\ [Next]_vars => DocumentMirrorsTask'
  <1> SUFFICES ASSUME TypeInv, ClaimInv, DocumentMirrorsTask, [Next]_vars
               PROVE  DocumentMirrorsTask'
    OBVIOUS
  <1> USE DEF TypeInv, TypeOK, DocumentMirrorsTask
  <1>1. CASE RowsSame
    BY <1>1 DEF RowsSame, queueVars
  <1>2. ASSUME NEW t \in Tasks, RowChange(t) PROVE DocumentMirrorsTask'
    BY <1>2 DEF RowChange, RowSubmit, RowRetry, RowGiveUp, RowSettle
  <1>3. ASSUME NEW t \in Tasks, RowClaim(t) PROVE DocumentMirrorsTask'
    BY <1>3 DEF RowClaim
  <1> QED  BY <1>1, <1>2, <1>3, RowStep, ClaimRow

\* The document's status is the task's, through every crash and recovery.
THEOREM DocumentsMirrorTasks == Spec => []DocumentMirrorsTask
  <1>1. Init => DocumentMirrorsTask
    BY DEF Init, DocumentMirrorsTask
  <1> QED  BY <1>1, MirrorStep, TypeInvariance, ClaimInvariance, PTL DEF Spec

\* A document that was never submitted has spent nothing.
LetterInv ==
    /\ DeadLetterExact
    /\ \A t \in Tasks : status[t] = "absent" => failCount[t] = 0

LEMMA LetterStep == TypeInv /\ ClaimInv /\ LetterInv /\ [Next]_vars => LetterInv'
  <1> SUFFICES ASSUME TypeInv, ClaimInv, LetterInv, [Next]_vars PROVE LetterInv'
    OBVIOUS
  <1>0. Len(RetryDelays) \in Nat
    BY QueueAssumption
  <1> USE DEF TypeInv, TypeOK, LetterInv, DeadLetterExact
  <1>1. CASE RowsSame
    BY <1>1 DEF RowsSame, queueVars
  <1>2. ASSUME NEW t \in Tasks, RowSubmit(t) PROVE LetterInv'
    BY <1>0, <1>2 DEF RowSubmit
  <1>3. ASSUME NEW t \in Tasks, RowRetry(t) PROVE LetterInv'
    BY <1>0, <1>3 DEF RowRetry, RetryLeft
  <1>4. ASSUME NEW t \in Tasks, RowGiveUp(t) PROVE LetterInv'
    BY <1>0, <1>4 DEF RowGiveUp, RetryLeft
  <1>5. ASSUME NEW t \in Tasks, NEW st \in {"completed", "cancelled"}, RowSettle(t, st)
        PROVE  LetterInv'
    BY <1>0, <1>5 DEF RowSettle
  <1>6. ASSUME NEW t \in Tasks, RowClaim(t) PROVE LetterInv'
    BY <1>0, <1>6 DEF RowClaim
  <1> QED
    BY <1>1, <1>2, <1>3, <1>4, <1>5, <1>6, RowStep, ClaimRow DEF RowChange

LEMMA LetterInvariance == Spec => []LetterInv
  <1>1. Init => LetterInv
    BY QueueAssumption DEF Init, LetterInv, DeadLetterExact
  <1> QED  BY <1>1, LetterStep, TypeInvariance, ClaimInvariance, PTL DEF Spec

\* A dead letter means the whole ladder was spent, and an open task has not spent it.
THEOREM DeadLettersAreExact == Spec => []DeadLetterExact
  <1>1. LetterInv => DeadLetterExact
    BY DEF LetterInv
  <1> QED  BY <1>1, LetterInvariance, PTL

\* No cancellation, recovery or late process changes a terminal status.
THEOREM TerminalStatusIsFinal == Spec => TerminalIsFinal
  <1> DEFINE Final == \A t \in Tasks :
                /\ status[t] \in Terminal => status'[t] = status[t]
                /\ docStatus[t] \in Terminal => docStatus'[t] = docStatus[t]
  <1>1. ASSUME TypeInv, ClaimInv, DocumentMirrorsTask, [Next]_vars PROVE Final
    <2> USE DEF TypeInv, TypeOK, DocumentMirrorsTask, Terminal
    <2>1. CASE RowsSame
      BY <2>1 DEF RowsSame, queueVars
    <2>2. ASSUME NEW t \in Tasks, RowChange(t) PROVE Final
      <3>1. \E st \in TaskStatus : status' = [status EXCEPT ![t] = st]
        BY <2>2 DEF RowChange, RowSubmit, RowRetry, RowGiveUp, RowSettle, TaskStatus
      <3>2. \/ UNCHANGED docStatus
            \/ \E st \in DocStatus : docStatus' = [docStatus EXCEPT ![t] = st]
        BY <2>2 DEF RowChange, RowSubmit, RowRetry, RowGiveUp, RowSettle, DocStatus
      <3>3. status[t] \in {"absent", "pending", "running"}
        BY <2>2 DEF RowChange, RowSubmit, RowRetry, RowGiveUp, RowSettle
      <3>4. docStatus[t] \in {"absent", "pending"}
        BY <1>1, <3>3
      <3>5. \A u \in Tasks : status[u] \in Terminal => status'[u] = status[u]
        BY <3>1, <3>3
      <3>6. \A u \in Tasks : docStatus[u] \in Terminal => docStatus'[u] = docStatus[u]
        <4>1. docStatus \in [Tasks -> DocStatus]
          BY <1>1
        <4>2. CASE UNCHANGED docStatus
          BY <4>2
        <4>3. CASE \E st \in DocStatus : docStatus' = [docStatus EXCEPT ![t] = st]
          BY <3>4, <4>1, <4>3
        <4> QED  BY <3>2, <4>2, <4>3
      <3> QED  BY <3>5, <3>6
    <2>3. ASSUME NEW t \in Tasks, RowClaim(t) PROVE Final
      BY <2>3 DEF RowClaim
    <2> QED  BY <1>1, <2>1, <2>2, <2>3, RowStep, ClaimRow
  <1> QED
    BY <1>1, TypeInvariance, ClaimInvariance, DocumentsMirrorTasks, PTL
       DEF Spec, TerminalIsFinal

\* Only a cancellation, an expired claim or the owner ends a running task.
THEOREM ClaimsAreNotStolen == Spec => NoStolenClaim
  <1> DEFINE Ended(t) == status[t] = "running" /\ status'[t] # "running"
             Cause(t) == \/ status'[t] = "cancelled"
                         \/ claimedAt[t] + ClaimTimeout <= now
                         \/ \E p \in Procs : Owns(p, t) /\ pc'[p] = "idle"
  <1>1. ASSUME TypeInv, ClaimInv, [Next]_vars
        PROVE  \A t \in Tasks : Ended(t) => Cause(t)
    <2> USE <1>1 DEF TypeInv, TypeOK
    <2>1. CASE RowsSame \/ \E p \in Procs : ClaimNext(p)
      BY <2>1, ClaimRow DEF RowsSame, queueVars, RowClaim
    <2>2. ASSUME NEW u \in Tasks, Submit(u) \/ Cancel(u)
          PROVE  \A t \in Tasks : Ended(t) => Cause(t)
      BY <2>2 DEF Submit, Cancel
    <2>3. ASSUME NEW w \in Workers, RecoverStaleClaim(w)
          PROVE  \A t \in Tasks : Ended(t) => Cause(t)
      <3>1. PICK u \in Tasks :
              /\ claimedAt[u] + ClaimTimeout <= pollAt[w]
              /\ \E st \in {"pending", "failed"} : status' = [status EXCEPT ![u] = st]
        BY <2>3 DEF RecoverStaleClaim, OldestFirst, Stale
      <3>2. pollAt[w] <= now /\ pollAt[w] \in Nat /\ now \in Nat /\ claimedAt[u] \in Nat
        BY <2>3 DEF RecoverStaleClaim, ClaimInv, ClaimTimes, Procs
      <3>3. claimedAt[u] + ClaimTimeout <= now
        BY <3>1, <3>2, QueueAssumption
      <3> QED  BY <3>1, <3>3
    <2>4. ASSUME NEW p \in Procs, Complete(p) \/ RecordFailure(p)
          PROVE  \A t \in Tasks : Ended(t) => Cause(t)
      <3>1. /\ pc[p] \in Holding /\ pc'[p] = "idle"
            /\ Fenced(p)
            /\ \A t \in Tasks : t # run[p].task => status'[t] = status[t]
        <4>1. pc[p] \in Holding /\ Fenced(p) /\ pc' = [pc EXCEPT ![p] = "idle"]
          BY <2>4 DEF Complete, RecordFailure, Holding, Failing
        <4>2. \E st \in TaskStatus : status' = [status EXCEPT ![run[p].task] = st]
          BY <2>4 DEF Complete, RecordFailure, TaskStatus, Terminal
        <4> QED  BY <4>1, <4>2
      <3>2. \A t \in Tasks : t = run[p].task => Owns(p, t)
        BY <3>1 DEF Owns, Fenced
      <3> QED  BY <3>1, <3>2
    <2>5. ASSUME NEW w \in Workers, StartPoll(w) \/ PollEmpty(w) PROVE RowsSame
      BY <2>5 DEF StartPoll, PollEmpty, RowsSame
    <2>6. ASSUME NEW p \in Procs,
               \/ OpenSpans(p) \/ RunThrows(p) \/ StartStage(p) \/ FinishStage(p)
               \/ FailStage(p) \/ CompletionRollsBack(p) \/ LoseClaim(p) \/ Crash(p)
          PROVE RowsSame
      BY <2>6 DEF OpenSpans, RunThrows, StartStage, FinishStage, FailStage,
                CompletionRollsBack, LoseClaim, Crash, RowsSame
    <2>7. CASE Tick \/ UNCHANGED vars
      BY <2>7 DEF Tick, vars, queueVars
    <2> QED
      BY <1>1, <2>1, <2>2, <2>3, <2>4, <2>5, <2>6, <2>7 DEF Next, Poll, RunStep
  <1> QED
    BY <1>1, TypeInvariance, ClaimInvariance, PTL DEF Spec, NoStolenClaim

-----------------------------------------------------------------------------
(* The queue keeps the contract of JobContract. *)

LEMMA ContractInit == Init => Contract!Init
  BY DEF Init, Contract!Init

LEMMA ContractStep ==
    TypeInv /\ ClaimInv /\ LetterInv /\ DocumentMirrorsTask /\ [Next]_vars
      => [Contract!Next]_(Contract!jobVars)
  <1> SUFFICES ASSUME TypeInv, ClaimInv, LetterInv, DocumentMirrorsTask, [Next]_vars
               PROVE  [Contract!Next]_(Contract!jobVars)
    OBVIOUS
  <1>0. Len(RetryDelays) \in Nat
    BY QueueAssumption
  <1> USE DEF TypeInv, TypeOK, DocumentMirrorsTask
  <1>1. CASE RowsSame
    BY <1>1 DEF RowsSame, queueVars, Contract!jobVars
  <1>2. ASSUME NEW t \in Tasks, RowSubmit(t) PROVE Contract!Accept(t)
    BY <1>2 DEF RowSubmit, Contract!Accept
  <1>3. ASSUME NEW t \in Tasks, RowRetry(t) PROVE Contract!Spend(t)
    BY <1>3 DEF RowRetry, RetryLeft, Contract!Spend
  <1>4. ASSUME NEW t \in Tasks, RowGiveUp(t) PROVE Contract!Park(t) \/ Contract!Abandon(t)
    BY <1>0, <1>4 DEF RowGiveUp, RetryLeft, LetterInv, DeadLetterExact,
                      Contract!Park, Contract!Abandon
  <1>5. ASSUME NEW t \in Tasks, NEW st \in {"completed", "cancelled"}, RowSettle(t, st)
        PROVE  Contract!Settle(t)
    BY <1>5 DEF RowSettle, Contract!Settle
  <1>6. ASSUME NEW t \in Tasks, RowClaim(t) PROVE UNCHANGED Contract!jobVars
    BY <1>6 DEF RowClaim, Contract!jobVars
  <1> QED
    BY <1>1, <1>2, <1>3, <1>4, <1>5, <1>6, RowStep, ClaimRow
       DEF RowChange, Contract!Next

\* The detailed queue implements the abstract one: bounded tries, one outcome, a
\* dead letter exactly when the tries are spent.
THEOREM QueueKeepsContract == Spec => KeepsContract
  <1> QED
    BY ContractInit, ContractStep, TypeInvariance, ClaimInvariance, LetterInvariance,
       DocumentsMirrorTasks, PTL DEF Spec, KeepsContract, Contract!Spec

-----------------------------------------------------------------------------
(* The span trees are an exact ledger of the attempts.                       *)

\* The processes about to open an attempt of a task, and the attempts the row accounts for.
Opening(t) == {p \in Procs : pc[p] = "claimed" /\ run[p].task = t}
PaidFor(t) ==
    failCount[t] + IF status[t] \in {"running", "completed", "cancelled"} THEN 1 ELSE 0

AttemptsPaid ==
    \A t \in Tasks :
        /\ IsFiniteSet(Opening(t))
        /\ Len(spans[t]) + Cardinality(Opening(t)) <= PaidFor(t)

\* What a process has finished of its attempt: the stages before the one it is at.
StagesDone ==
    \A p \in Procs :
        /\ pc[p] = "claimed" => run[p].stage = 1
        /\ pc[p] \in {"running", "inStage", "finishing"} =>
             \A s \in Stages : s < run[p].stage =>
               spans[run[p].task][run[p].tree].stage[s] = "done"
        /\ pc[p] = "finishing" => run[p].stage = StageCount + 1

\* The attempts of a task whose root span is done: the one that completed it.
DoneTrees(t) == {i \in 1 .. Len(spans[t]) : spans[t][i].root = "done"}
DoneIsComplete ==
    \A t \in Tasks :
        /\ status[t] # "completed" => DoneTrees(t) = {}
        /\ status[t] = "completed" => \E i \in DoneTrees(t) : DoneTrees(t) = {i}
        /\ \A i \in DoneTrees(t) : \A s \in Stages : spans[t][i].stage[s] = "done"

LedgerInv == AttemptsPaid /\ StagesDone /\ DoneIsComplete

-----------------------------------------------------------------------------
(* What one step may do to the span trees.                                   *)

\* No step but the completion makes a root span done, and nothing takes "done" back.
KeepsDone(old, new) ==
    /\ new.root = "done" <=> old.root = "done"
    /\ \A s \in Stages : old.stage[s] = "done" => new.stage[s] = "done"
TreesKept ==
    \A t \in Tasks :
        /\ Len(spans'[t]) = Len(spans[t])
        /\ \A i \in 1 .. Len(spans[t]) : KeepsDone(spans[t][i], spans'[t][i])

\* Steps that leave the trees alone.
LEMMA TreesSame ==
    ASSUME TypeInv, UNCHANGED spans
    PROVE  TreesKept
  BY DEF TreesKept, KeepsDone, TypeInv, TypeOK

\* Closing a tree, in any of the ways the code has, takes no "done" back.
LEMMA ClosingKeeps ==
    ASSUME NEW tree \in SpanTree
    PROVE  /\ KeepsDone(tree, CloseFailed(tree))
           /\ tree.root = "running" => KeepsDone(tree, CloseStale(tree))
           /\ KeepsDone(tree, CancelOpen(tree))
           /\ KeepsDone(tree, tree)
  BY DEF SpanTree, SpanStatus, CloseFailed, CloseStale, CancelOpen, CancelSpan,
         SkipChildren, KeepsDone

\* One tree is replaced.
LEMMA ReplacedTree ==
    ASSUME TypeInv, NEW t \in Tasks, NEW i \in 1 .. Len(spans[t]), NEW tree \in SpanTree,
           KeepsDone(spans[t][i], tree), spans' = [spans EXCEPT ![t][i] = tree]
    PROVE  TreesKept
  <1> SUFFICES ASSUME NEW u \in Tasks
               PROVE  /\ Len(spans'[u]) = Len(spans[u])
                      /\ \A j \in 1 .. Len(spans[u]) : KeepsDone(spans[u][j], spans'[u][j])
    BY DEF TreesKept
  <1>1. spans \in [Tasks -> Seq(SpanTree)]
    BY DEF TypeInv, TypeOK
  <1>2. Len(spans'[u]) = Len(spans[u])
    BY <1>1, ReplaceTree
  <1>3. ASSUME NEW j \in 1 .. Len(spans[u]) PROVE KeepsDone(spans[u][j], spans'[u][j])
    <2>1. spans[u][j] \in SpanTree
      BY <1>1
    <2>2. CASE u = t /\ j = i
      <3>1. spans'[u][j] = tree
        BY <1>1, <2>2
      <3> QED  BY <2>2, <3>1
    <2>3. CASE ~ (u = t /\ j = i)
      <3>1. spans'[u][j] = spans[u][j]
        BY <1>1, <2>3
      <3> QED  BY <2>1, <3>1, ClosingKeeps
    <2> QED  BY <2>2, <2>3
  <1> QED  BY <1>2, <1>3

\* All the trees of one document are rewritten.
LEMMA RewrittenTrees ==
    ASSUME TypeInv, NEW t \in Tasks, NEW g, g \in [1 .. Len(spans[t]) -> SpanTree],
           \A i \in 1 .. Len(spans[t]) : KeepsDone(spans[t][i], g[i]),
           spans' = [spans EXCEPT ![t] = g]
    PROVE  TreesKept
  <1> SUFFICES ASSUME NEW u \in Tasks
               PROVE  /\ Len(spans'[u]) = Len(spans[u])
                      /\ \A j \in 1 .. Len(spans[u]) : KeepsDone(spans[u][j], spans'[u][j])
    BY DEF TreesKept
  <1>1. spans \in [Tasks -> Seq(SpanTree)]
    BY DEF TypeInv, TypeOK
  <1>2. Len(spans'[u]) = Len(spans[u])
    BY <1>1, RewriteTrees
  <1>3. CASE u = t
    BY <1>1, <1>2, <1>3
  <1>4. CASE u # t
    <2>1. spans'[u] = spans[u]
      BY <1>1, <1>4
    <2> QED  BY <1>1, <1>2, <2>1, ClosingKeeps
  <1> QED  BY <1>3, <1>4

\* The place of a process in the ledger: the tree it works on exists.
LEMMA TreeOf ==
    ASSUME TypeInv, NEW p \in Procs, pc[p] \in Holding \ {"claimed"}
    PROVE  /\ run[p] \in RunState
           /\ run[p].task \in Tasks
           /\ run[p].tree \in 1 .. Len(spans[run[p].task])
           /\ spans[run[p].task][run[p].tree] \in SpanTree
  <1>1. /\ run[p] \in RunState
        /\ run[p].tree \in 1 .. Len(spans[run[p].task])
    BY DEF TypeInv, LocalOK
  <1>2. run[p].task \in Tasks
    BY <1>1 DEF RunState
  <1>3. spans[run[p].task] \in Seq(SpanTree)
    BY <1>2 DEF TypeInv, TypeOK
  <1> QED  BY <1>1, <1>2, <1>3

\* A stage span is set to something else than done only where it was not done.
LEMMA StageSet ==
    ASSUME TypeInv, NEW p \in Procs, pc[p] \in {"running", "inStage"},
           NEW st \in SpanStatus, SetStageSpan(p, st), st = "done" \/ StageSpan(p) # "done"
    PROVE  /\ TreesKept
           /\ spans'[run[p].task][run[p].tree] =
                [spans[run[p].task][run[p].tree] EXCEPT !.stage[run[p].stage] = st]
  <1> DEFINE t == run[p].task
             i == run[p].tree
             tree == [spans[t][i] EXCEPT !.stage[run[p].stage] = st]
  <1>1. t \in Tasks /\ i \in 1 .. Len(spans[t]) /\ spans[t][i] \in SpanTree
    BY TreeOf DEF Holding
  <1>2. run[p].stage \in Stages
    BY DEF TypeInv, LocalOK, Holding
  <1>3. tree \in SpanTree
    BY <1>1, <1>2 DEF SpanTree
  <1>4. spans' = [spans EXCEPT ![t][i] = tree]
    BY DEF SetStageSpan
  <1>5. KeepsDone(spans[t][i], tree)
    BY <1>1, <1>2 DEF KeepsDone, SpanTree, StageSpan
  <1>6. spans \in [Tasks -> Seq(SpanTree)]
    BY DEF TypeInv, TypeOK
  <1>7. spans'[t][i] = tree
    <2> HIDE DEF tree
    <2> QED  BY <1>1, <1>4, <1>6
  <1>8. TreesKept
    <2> HIDE DEF tree
    <2> QED  BY <1>1, <1>3, <1>4, <1>5, ReplacedTree
  <1> QED  BY <1>7, <1>8

\* Only the claim's process opens a tree, and only the completion closes one as done.
LEMMA TreesStep ==
    ASSUME TypeInv, [Next]_vars, \A p \in Procs : ~OpenSpans(p) /\ ~Complete(p)
    PROVE  TreesKept
  <1>1. CASE UNCHANGED vars
    BY <1>1, TreesSame DEF vars
  <1>2. ASSUME NEW t \in Tasks, Submit(t) \/ Cancel(t)
        PROVE  TreesKept
    <2>1. CASE Submit(t)
      BY <2>1, TreesSame DEF Submit
    <2>2. CASE Cancel(t)
      <3> DEFINE g == [i \in DOMAIN spans[t] |-> CancelOpen(spans[t][i])]
      <3>1. spans' = [spans EXCEPT ![t] = g]
        BY <2>2 DEF Cancel
      <3>2. /\ DOMAIN spans[t] = 1 .. Len(spans[t])
            /\ \A i \in 1 .. Len(spans[t]) : spans[t][i] \in SpanTree
        BY DEF TypeInv, TypeOK
      <3>3. g \in [1 .. Len(spans[t]) -> SpanTree]
        BY <3>2, SpanTreeOperators
      <3>4. \A i \in 1 .. Len(spans[t]) : KeepsDone(spans[t][i], g[i])
        BY <3>2, ClosingKeeps
      <3> HIDE DEF g
      <3> QED  BY <3>1, <3>3, <3>4, RewrittenTrees
    <2> QED  BY <1>2, <2>1, <2>2
  <1>3. ASSUME NEW w \in Workers, Poll(w)
        PROVE  TreesKept
    <2>1. CASE StartPoll(w) \/ PollEmpty(w)
      BY <2>1, TreesSame DEF StartPoll, PollEmpty
    <2>2. CASE RecoverStaleClaim(w)
      <3>1. PICK t \in Tasks :
              spans' = [spans EXCEPT ![t] =
                          [i \in DOMAIN spans[t] |->
                             IF LastRunningRoot(t, i) THEN CloseStale(spans[t][i])
                             ELSE spans[t][i]]]
        BY <2>2 DEF RecoverStaleClaim, OldestFirst, Stale
      <3> DEFINE g == [i \in DOMAIN spans[t] |->
                         IF LastRunningRoot(t, i) THEN CloseStale(spans[t][i])
                         ELSE spans[t][i]]
      <3>2. /\ DOMAIN spans[t] = 1 .. Len(spans[t])
            /\ \A i \in 1 .. Len(spans[t]) : spans[t][i] \in SpanTree
        BY DEF TypeInv, TypeOK
      <3>3. g \in [1 .. Len(spans[t]) -> SpanTree]
        BY <3>2, SpanTreeOperators
      <3>4. \A i \in 1 .. Len(spans[t]) : KeepsDone(spans[t][i], g[i])
        BY <3>2, ClosingKeeps DEF LastRunningRoot
      <3>5. spans' = [spans EXCEPT ![t] = g]
        BY <3>1
      <3> HIDE DEF g
      <3> QED  BY <3>3, <3>4, <3>5, RewrittenTrees
    <2> QED  BY <1>3, <2>1, <2>2 DEF Poll
  <1>4. ASSUME NEW p \in Procs,
               StartStage(p) \/ FinishStage(p) \/ FailStage(p)
        PROVE  TreesKept
    <2>1. CASE UNCHANGED spans
      BY <2>1, TreesSame
    <2>2. CASE spans' # spans
      <3>1. /\ pc[p] \in {"running", "inStage"}
            /\ \E st \in SpanStatus :
                 SetStageSpan(p, st) /\ (st = "done" \/ StageSpan(p) # "done")
        BY <1>4, <2>2 DEF StartStage, FinishStage, FailStage, SpanStatus
      <3> QED  BY <3>1, StageSet
    <2> QED  BY <2>1, <2>2
  <1>5. ASSUME NEW p \in Procs, RecordFailure(p) \/ LoseClaim(p)
        PROVE  TreesKept
    <2> DEFINE t == run[p].task
               i == run[p].tree
    <2>1. t \in Tasks /\ i \in 1 .. Len(spans[t]) /\ spans[t][i] \in SpanTree
      BY <1>5, TreeOf DEF RecordFailure, LoseClaim, Holding, Failing
    <2>2. CASE UNCHANGED spans
      BY <2>2, TreesSame
    <2>3. CASE spans' = [spans EXCEPT ![t][i] = CloseFailed(spans[t][i])]
      <3>1. CloseFailed(spans[t][i]) \in SpanTree
        BY <2>1, SpanTreeOperators
      <3>2. KeepsDone(spans[t][i], CloseFailed(spans[t][i]))
        BY <2>1, ClosingKeeps
      <3> QED  BY <2>1, <2>3, <3>1, <3>2, ReplacedTree
    <2> QED  BY <1>5, <2>2, <2>3 DEF RecordFailure, LoseClaim
  <1>6. ASSUME NEW p \in Procs,
               ClaimNext(p) \/ RunThrows(p) \/ CompletionRollsBack(p) \/ Crash(p)
        PROVE  TreesKept
    BY <1>6, TreesSame DEF ClaimNext, RunThrows, CompletionRollsBack, Crash
  <1>7. CASE Tick
    BY <1>7, TreesSame DEF Tick
  <1> QED  BY <1>1, <1>2, <1>3, <1>4, <1>5, <1>6, <1>7 DEF Next, RunStep

\* The new tree of an attempt.
LEMMA TreeOpened ==
    ASSUME TypeInv, NEW p \in Procs, OpenSpans(p)
    PROVE  /\ run[p].task \in Tasks
           /\ Len(spans'[run[p].task]) = Len(spans[run[p].task]) + 1
           /\ spans'[run[p].task][Len(spans[run[p].task]) + 1] = NewTree
           /\ \A i \in 1 .. Len(spans[run[p].task]) :
                spans'[run[p].task][i] = spans[run[p].task][i]
           /\ \A u \in Tasks \ {run[p].task} : spans'[u] = spans[u]
  <1> DEFINE t == run[p].task
  <1>1. run[p] \in RunState
    BY DEF OpenSpans, Holding, TypeInv, LocalOK
  <1>2. t \in Tasks
    BY <1>1 DEF RunState
  <1>3. spans \in [Tasks -> Seq(SpanTree)]
    BY DEF TypeInv, TypeOK
  <1>4. spans' = [spans EXCEPT ![t] = Append(spans[t], NewTree)]
    BY DEF OpenSpans
  <1>5. spans'[t] = Append(spans[t], NewTree)
    BY <1>2, <1>3, <1>4
  <1>6. spans[t] \in Seq(SpanTree)
    BY <1>2, <1>3
  <1>7. \A u \in Tasks \ {t} : spans'[u] = spans[u]
    BY <1>3, <1>4
  <1> QED  BY <1>2, <1>5, <1>6, <1>7, NewTreeType

\* The tree whose root the completion closes.
LEMMA TreeDone ==
    ASSUME TypeInv, NEW p \in Procs, Complete(p)
    PROVE  /\ run[p].task \in Tasks
           /\ run[p].tree \in 1 .. Len(spans[run[p].task])
           /\ \A u \in Tasks : Len(spans'[u]) = Len(spans[u])
           /\ \A u \in Tasks : \A i \in 1 .. Len(spans[u]) :
                /\ spans'[u][i].stage = spans[u][i].stage
                /\ spans'[u][i].root = IF u = run[p].task /\ i = run[p].tree
                                       THEN "done" ELSE spans[u][i].root
  <1> DEFINE t == run[p].task
             i == run[p].tree
             tree == [spans[t][i] EXCEPT !.root = "done"]
  <1>1. t \in Tasks /\ i \in 1 .. Len(spans[t]) /\ spans[t][i] \in SpanTree
    BY TreeOf DEF Complete, Holding
  <1>2. tree \in SpanTree /\ tree.stage = spans[t][i].stage /\ tree.root = "done"
    BY <1>1 DEF SpanTree, SpanStatus
  <1>3. spans' = [spans EXCEPT ![t][i] = tree]
    BY DEF Complete
  <1>4. spans \in [Tasks -> Seq(SpanTree)]
    BY DEF TypeInv, TypeOK
  <1> HIDE DEF tree
  <1>5. \A u \in Tasks : Len(spans'[u]) = Len(spans[u])
    BY <1>1, <1>2, <1>3, <1>4, ReplaceTree
  <1>6. ASSUME NEW u \in Tasks, NEW j \in 1 .. Len(spans[u])
        PROVE  /\ spans'[u][j].stage = spans[u][j].stage
               /\ spans'[u][j].root = IF u = t /\ j = i THEN "done" ELSE spans[u][j].root
    <2>1. CASE u = t /\ j = i
      <3>1. spans'[u][j] = tree
        BY <1>1, <1>3, <1>4, <2>1
      <3> QED  BY <1>2, <2>1, <3>1
    <2>2. CASE ~ (u = t /\ j = i)
      <3>1. spans'[u][j] = spans[u][j]
        BY <1>1, <1>3, <1>4, <2>2
      <3> QED  BY <2>2, <3>1
    <2> QED  BY <2>1, <2>2
  <1> QED  BY <1>1, <1>5, <1>6

-----------------------------------------------------------------------------
(* Every attempt is paid for.                                                *)

\* Whoever is about to open an attempt has just claimed, or was about to before.
LEMMA OpeningStep ==
    ASSUME TypeInv, [Next]_vars, NEW t \in Tasks,
           \A p \in Procs : ~ClaimNext(p)
    PROVE  Opening(t)' \subseteq Opening(t)
  <1> SUFFICES ASSUME NEW q \in Procs, pc'[q] = "claimed", run'[q].task = t
               PROVE  pc[q] = "claimed" /\ run[q].task = t
    BY DEF Opening
  <1>1. pc[q] \in Holding /\ run'[q].task = run[q].task
    BY HolderStep DEF Holding
  <1>2. pc[q] = "claimed"
    <2> USE DEF TypeInv, TypeOK
    <2>1. CASE UNCHANGED vars
      BY <2>1 DEF vars
    <2>2. ASSUME NEW u \in Tasks, Submit(u) \/ Cancel(u)
          PROVE  UNCHANGED pc
      BY <2>2 DEF Submit, Cancel
    <2>3. ASSUME NEW w \in Workers, Poll(w)
          PROVE  pc[q] = "claimed"
      BY <2>3 DEF Poll, StartPoll, RecoverStaleClaim, PollEmpty
    <2>4. ASSUME NEW p \in Procs, RunStep(p) \/ Crash(p)
          PROVE  pc[q] = "claimed"
      BY <2>4 DEF RunStep, OpenSpans, RunThrows, StartStage, FinishStage, FailStage,
         Complete, CompletionRollsBack, RecordFailure, LoseClaim, Crash
    <2>5. CASE Tick
      BY <2>5 DEF Tick
    <2> QED  BY <2>1, <2>2, <2>3, <2>4, <2>5 DEF Next
  <1> QED  BY <1>1, <1>2

\* What a row change does to the attempts a row accounts for.
LEMMA PaidStep ==
    ASSUME TypeInv, ClaimInv, [Next]_vars, NEW t \in Tasks
    PROVE  PaidFor(t)' >= PaidFor(t)
  <1> USE DEF TypeInv, TypeOK, PaidFor
  <1>0. failCount[t] \in Nat
    OBVIOUS
  <1>1. CASE RowsSame
    BY <1>0, <1>1 DEF RowsSame, queueVars
  <1>2. ASSUME NEW u \in Tasks, RowSubmit(u) PROVE PaidFor(t)' >= PaidFor(t)
    BY <1>0, <1>2 DEF RowSubmit
  <1>3. ASSUME NEW u \in Tasks, RowRetry(u) PROVE PaidFor(t)' >= PaidFor(t)
    BY <1>0, <1>3 DEF RowRetry
  <1>4. ASSUME NEW u \in Tasks, RowGiveUp(u) PROVE PaidFor(t)' >= PaidFor(t)
    BY <1>0, <1>4 DEF RowGiveUp
  <1>5. ASSUME NEW u \in Tasks, NEW st \in {"completed", "cancelled"}, RowSettle(u, st)
        PROVE  PaidFor(t)' >= PaidFor(t)
    BY <1>0, <1>5 DEF RowSettle
  <1>6. ASSUME NEW u \in Tasks, RowClaim(u) PROVE PaidFor(t)' >= PaidFor(t)
    BY <1>0, <1>6 DEF RowClaim
  <1> QED
    BY <1>1, <1>2, <1>3, <1>4, <1>5, <1>6, RowStep, ClaimRow DEF RowChange

\* A claim pays for the attempt it is about to open.
LEMMA PaidClaim ==
    ASSUME TypeInv, AttemptsPaid, NEW p \in Procs, ClaimNext(p)
    PROVE  AttemptsPaid'
  <1> USE DEF TypeInv, TypeOK
  <1>1. PICK t \in Tasks :
          /\ status[t] = "pending"
          /\ status' = [status EXCEPT ![t] = "running"]
          /\ run' = [run EXCEPT ![p] =
                       [task |-> t, token |-> now, failCount |-> failCount[t],
                        tree |-> 0, stage |-> 1]]
    BY DEF ClaimNext, Claimable
  <1>2. /\ pc' = [pc EXCEPT ![p] = "claimed"]
        /\ UNCHANGED <<failCount, spans>>
        /\ pc[p] # "claimed"
    BY DEF ClaimNext, ReadyToClaim
  <1>3. run'[p].task = t
    BY <1>1
  <1>4. ASSUME NEW u \in Tasks
        PROVE  /\ IsFiniteSet(Opening(u))'
               /\ (Len(spans[u]) + Cardinality(Opening(u)) <= PaidFor(u))'
    <2>1. /\ IsFiniteSet(Opening(u)) /\ Cardinality(Opening(u)) \in Nat
          /\ Len(spans[u]) + Cardinality(Opening(u)) <= PaidFor(u)
          /\ Len(spans[u]) \in Nat /\ failCount[u] \in Nat
      BY FS_CardinalityType DEF AttemptsPaid
    <2>2. CASE u = t
      <3>1. Opening(u)' = Opening(u) \cup {p}
        BY <1>2, <1>3, <2>2, <1>1 DEF Opening
      <3>2. /\ IsFiniteSet(Opening(u) \cup {p})
            /\ Cardinality(Opening(u) \cup {p}) <= Cardinality(Opening(u)) + 1
        <4>1. /\ IsFiniteSet(Opening(u) \cup {p})
              /\ Cardinality(Opening(u) \cup {p}) =
                   IF p \in Opening(u) THEN Cardinality(Opening(u))
                   ELSE Cardinality(Opening(u)) + 1
          BY <2>1, FS_AddElement
        <4> QED  BY <2>1, <4>1
      <3>3. PaidFor(u)' = PaidFor(u) + 1
        BY <1>1, <1>2, <2>1, <2>2 DEF PaidFor
      <3>4. PaidFor(u) \in Nat /\ Cardinality(Opening(u) \cup {p}) \in Nat
        BY <2>1, <3>2, FS_CardinalityType DEF PaidFor
      <3> QED  BY <1>2, <2>1, <3>1, <3>2, <3>3, <3>4
    <2>3. CASE u # t
      <3>1. Opening(u)' = Opening(u)
        BY <1>1, <1>2, <1>3, <2>3 DEF Opening
      <3>2. PaidFor(u)' = PaidFor(u)
        BY <1>1, <1>2, <2>3 DEF PaidFor
      <3> QED  BY <1>2, <2>1, <3>1, <3>2
    <2> QED  BY <2>2, <2>3
  <1> QED  BY <1>4 DEF AttemptsPaid

\* The attempt a process opens is the one its claim was to open.
LEMMA PaidOpen ==
    ASSUME TypeInv, AttemptsPaid, NEW p \in Procs, OpenSpans(p)
    PROVE  AttemptsPaid'
  <1> USE DEF TypeInv, TypeOK
  <1> DEFINE t == run[p].task
  <1>1. /\ pc[p] = "claimed"
        /\ pc' = [pc EXCEPT ![p] = "running"]
        /\ UNCHANGED queueVars
    BY DEF OpenSpans
  <1>2. \A q \in Procs : q # p => run'[q] = run[q]
    BY DEF OpenSpans
  <1>3. ASSUME NEW u \in Tasks
        PROVE  /\ IsFiniteSet(Opening(u))'
               /\ (Len(spans[u]) + Cardinality(Opening(u)) <= PaidFor(u))'
    <2>1. /\ IsFiniteSet(Opening(u)) /\ Cardinality(Opening(u)) \in Nat
          /\ Len(spans[u]) + Cardinality(Opening(u)) <= PaidFor(u)
          /\ Len(spans[u]) \in Nat /\ failCount[u] \in Nat
      BY FS_CardinalityType DEF AttemptsPaid
    <2>2. PaidFor(u)' = PaidFor(u) /\ PaidFor(u) \in Nat
      BY <1>1, <2>1 DEF PaidFor, queueVars
    <2>3. Opening(u)' = Opening(u) \ {p}
      BY <1>1, <1>2 DEF Opening
    <2>4. /\ IsFiniteSet(Opening(u) \ {p})
          /\ Cardinality(Opening(u) \ {p}) =
               IF p \in Opening(u) THEN Cardinality(Opening(u)) - 1
               ELSE Cardinality(Opening(u))
      BY <2>1, FS_RemoveElement
    <2>5. CASE u = t
      <3>1. Len(spans'[u]) = Len(spans[u]) + 1
        BY <2>5, TreeOpened
      <3>2. p \in Opening(u)
        BY <1>1, <2>5 DEF Opening
      <3> QED  BY <2>1, <2>2, <2>3, <2>4, <3>1, <3>2
    <2>6. CASE u # t
      <3>1. spans'[u] = spans[u]
        BY <2>6, TreeOpened
      <3>2. Cardinality(Opening(u) \ {p}) <= Cardinality(Opening(u))
        BY <2>1, <2>4
      <3> QED  BY <2>1, <2>2, <2>3, <2>4, <3>1, <3>2
    <2> QED  BY <2>5, <2>6
  <1> QED  BY <1>3 DEF AttemptsPaid

\* Every step keeps the account.
LEMMA PaidNext ==
    ASSUME TypeInv, ClaimInv, AttemptsPaid, [Next]_vars
    PROVE  AttemptsPaid'
  <1>1. ASSUME NEW p \in Procs, ClaimNext(p) \/ OpenSpans(p)
        PROVE  AttemptsPaid'
    BY <1>1, PaidClaim, PaidOpen
  <1>2. CASE \A p \in Procs : ~ClaimNext(p) /\ ~OpenSpans(p)
    <2>1. ASSUME NEW t \in Tasks
          PROVE  Len(spans'[t]) = Len(spans[t])
      <3>1. CASE \E p \in Procs : Complete(p)
        BY <3>1, TreeDone
      <3>2. CASE \A p \in Procs : ~Complete(p)
        BY <1>2, <3>2, TreesStep DEF TreesKept
      <3> QED  BY <3>1, <3>2
    <2>2. ASSUME NEW t \in Tasks
          PROVE  /\ IsFiniteSet(Opening(t))'
                 /\ (Len(spans[t]) + Cardinality(Opening(t)) <= PaidFor(t))'
      <3>1. /\ IsFiniteSet(Opening(t)) /\ Cardinality(Opening(t)) \in Nat
            /\ Len(spans[t]) + Cardinality(Opening(t)) <= PaidFor(t)
            /\ Len(spans[t]) \in Nat /\ failCount[t] \in Nat
        BY FS_CardinalityType DEF AttemptsPaid, TypeInv, TypeOK
      <3>2. Opening(t)' \in SUBSET Opening(t)
        BY <1>2, OpeningStep
      <3>3. /\ IsFiniteSet(Opening(t)')
            /\ Cardinality(Opening(t)') <= Cardinality(Opening(t))
            /\ Cardinality(Opening(t)') \in Nat
        BY <3>1, <3>2, FS_Subset, FS_CardinalityType
      <3>4. PaidFor(t)' >= PaidFor(t)
        BY PaidStep
      <3>5. PaidFor(t) \in Nat /\ PaidFor(t)' \in Nat
        <4>1. failCount'[t] \in Nat
          BY TypeInvStep DEF TypeInv, TypeOK
        <4> QED  BY <3>1, <4>1 DEF PaidFor
      <3> HIDE DEF Opening, PaidFor
      <3> QED  BY <2>1, <3>1, <3>3, <3>4, <3>5
    <2> QED  BY <2>2 DEF AttemptsPaid
  <1> QED  BY <1>1, <1>2

-----------------------------------------------------------------------------
(* What is done.                                                             *)

\* A stage span that is done stays done.
LEMMA DoneStays ==
    ASSUME TypeInv, [Next]_vars, NEW t \in Tasks, NEW i \in 1 .. Len(spans[t]),
           NEW s \in Stages, spans[t][i].stage[s] = "done"
    PROVE  spans'[t][i].stage[s] = "done"
  <1>1. ASSUME NEW p \in Procs, OpenSpans(p)
        PROVE  spans'[t][i] = spans[t][i]
    BY <1>1, TreeOpened
  <1>2. ASSUME NEW p \in Procs, Complete(p)
        PROVE  spans'[t][i].stage = spans[t][i].stage
    BY <1>2, TreeDone
  <1>3. CASE \A p \in Procs : ~OpenSpans(p) /\ ~Complete(p)
    BY <1>3, TreesStep DEF TreesKept, KeepsDone
  <1> QED  BY <1>1, <1>2, <1>3

\* How a process comes to where stages are counted.
LEMMA StageStep ==
    ASSUME TypeInv, [Next]_vars, NEW q \in Procs,
           pc'[q] \in {"claimed", "running", "inStage", "finishing"}
    PROVE  \/ pc'[q] = pc[q] /\ run'[q] = run[q]
           \/ ClaimNext(q) \/ OpenSpans(q) \/ FinishStage(q)
           \/ StartStage(q) /\ run'[q] = run[q] /\ pc'[q] = "inStage" /\ pc[q] = "running"
  <1> USE DEF TypeInv, TypeOK
  <1>1. CASE UNCHANGED vars
    BY <1>1 DEF vars
  <1>2. ASSUME NEW u \in Tasks, Submit(u) \/ Cancel(u)
        PROVE  UNCHANGED <<pc, run>>
    BY <1>2 DEF Submit, Cancel
  <1>3. ASSUME NEW w \in Workers, Poll(w)
        PROVE  pc'[q] = pc[q] /\ run'[q] = run[q]
    BY <1>3 DEF Poll, StartPoll, RecoverStaleClaim, PollEmpty
  <1>4. ASSUME NEW p \in Procs, p # q, RunStep(p) \/ Crash(p)
        PROVE  pc'[q] = pc[q] /\ run'[q] = run[q]
    BY <1>4 DEF RunStep, ClaimNext, OpenSpans, RunThrows, StartStage, FinishStage, FailStage,
       Complete, CompletionRollsBack, RecordFailure, LoseClaim, Crash
  <1>5. CASE StartStage(q)
    BY <1>5 DEF StartStage
  <1>6. ASSUME RunThrows(q) \/ FailStage(q) \/ Complete(q) \/ CompletionRollsBack(q)
               \/ RecordFailure(q) \/ LoseClaim(q) \/ Crash(q)
        PROVE  FALSE
    BY <1>6 DEF RunThrows, FailStage, Complete, CompletionRollsBack, RecordFailure,
       LoseClaim, Crash
  <1>7. CASE Tick
    BY <1>7 DEF Tick
  <1> QED  BY <1>1, <1>2, <1>3, <1>4, <1>5, <1>6, <1>7 DEF Next, RunStep

\* What a process has finished stays finished, whatever others do to its attempt.
LEMMA StagesNext ==
    ASSUME TypeInv, StagesDone, [Next]_vars
    PROVE  StagesDone'
  <1> DEFINE Counted(q) ==
               /\ pc[q] = "claimed" => run[q].stage = 1
               /\ pc[q] \in {"running", "inStage", "finishing"} =>
                    \A s \in Stages : s < run[q].stage =>
                      spans[run[q].task][run[q].tree].stage[s] = "done"
               /\ pc[q] = "finishing" => run[q].stage = StageCount + 1
  <1> SUFFICES ASSUME NEW q \in Procs,
                      pc'[q] \in {"claimed", "running", "inStage", "finishing"}
               PROVE  Counted(q)'
    BY DEF StagesDone
  <1>0. StageCount \in Nat /\ Stages = 1 .. StageCount
    BY QueueAssumption DEF Stages
  <1>1. CASE /\ run'[q] = run[q]
             /\ \/ pc'[q] = pc[q]
                \/ pc'[q] = "inStage" /\ pc[q] = "running"
    <2>1. CASE pc[q] = "claimed"
      BY <1>1, <2>1 DEF StagesDone
    <2>2. CASE pc[q] # "claimed"
      <3>1. pc[q] \in {"running", "inStage", "finishing"}
        BY <1>1, <2>2
      <3>2. run[q].task \in Tasks /\ run[q].tree \in 1 .. Len(spans[run[q].task])
        BY <3>1, TreeOf DEF Holding
      <3>3. ASSUME NEW s \in Stages, s < run[q].stage
            PROVE  spans'[run[q].task][run[q].tree].stage[s] = "done"
        BY <3>1, <3>2, <3>3, DoneStays DEF StagesDone
      <3>4. pc'[q] = "finishing" => run'[q].stage = StageCount + 1
        BY <1>1, <2>2, <3>1 DEF StagesDone
      <3> QED  BY <1>1, <2>2, <3>3, <3>4
    <2> QED  BY <2>1, <2>2
  <1>2. CASE ClaimNext(q)
    <2>1. pc'[q] = "claimed" /\ run'[q].stage = 1
      BY <1>2 DEF ClaimNext, Claimable, TypeInv, TypeOK
    <2> QED  BY <2>1
  <1>3. CASE OpenSpans(q)
    <2>1. pc'[q] = "running" /\ pc[q] = "claimed" /\ run[q] \in RunState
      BY <1>3 DEF OpenSpans, TypeInv, TypeOK, LocalOK, Holding
    <2>2. run'[q].stage = 1
      <3> DEFINE r == run[q]
                 n == Len(spans[r.task]) + 1
      <3>1. r \in RunState /\ n \in Nat /\ run'[q] = [r EXCEPT !.tree = n] /\ r.stage = 1
        BY <1>3, <2>1 DEF OpenSpans, TypeInv, TypeOK, StagesDone, RunState
      <3> HIDE DEF r, n
      <3> QED  BY <3>1, SetTree
    <2>3. \A s \in Stages : ~ (s < 1)
      BY <1>0
    <2> QED  BY <2>1, <2>2, <2>3
  <1>4. CASE FinishStage(q)
    <2> DEFINE r == run[q]
               n == r.stage + 1
    <2>1. /\ pc[q] = "inStage" /\ r \in RunState /\ r.stage \in Stages
          /\ r.task \in Tasks /\ r.tree \in 1 .. Len(spans[r.task])
          /\ spans[r.task][r.tree] \in SpanTree
      BY <1>4, TreeOf DEF FinishStage, Holding, TypeInv, LocalOK
    <2>2. n \in Nat /\ run'[q] = [r EXCEPT !.stage = n]
      BY <1>0, <1>4, <2>1 DEF FinishStage, TypeInv, TypeOK
    <2>3. run'[q].task = r.task /\ run'[q].tree = r.tree /\ run'[q].stage = n
      <3> HIDE DEF r, n
      <3> QED  BY <2>1, <2>2, SetStage
    <2>4. spans'[r.task][r.tree] = [spans[r.task][r.tree] EXCEPT !.stage[r.stage] = "done"]
      BY <1>4, <2>1, StageSet DEF FinishStage, SpanStatus
    <2>5. ASSUME NEW s \in Stages, s < n
          PROVE  spans'[r.task][r.tree].stage[s] = "done"
      <3>1. CASE s = r.stage
        BY <2>1, <2>4, <3>1 DEF SpanTree
      <3>2. CASE s < r.stage
        BY <2>1, <3>2, DoneStays DEF StagesDone
      <3> QED  BY <1>0, <2>1, <2>5, <3>1, <3>2
    <2>6. pc'[q] = IF r.stage = StageCount THEN "finishing" ELSE "running"
      BY <1>4 DEF FinishStage, TypeInv, TypeOK
    <2>7. pc'[q] = "finishing" => run'[q].stage = StageCount + 1
      BY <2>3, <2>6
    <2>8. pc'[q] # "claimed"
      BY <2>6
    <2>9. \A s \in Stages : s < run'[q].stage =>
            spans'[run'[q].task][run'[q].tree].stage[s] = "done"
      <3> HIDE DEF r, n
      <3> QED  BY <2>3, <2>5
    <2> QED  BY <2>7, <2>8, <2>9
  <1> QED  BY <1>1, <1>2, <1>3, <1>4, StageStep

\* Only the completion transaction makes a task completed.
LEMMA Completes ==
    ASSUME TypeInv, [Next]_vars, NEW t \in Tasks,
           status[t] # "completed", status'[t] = "completed"
    PROVE  \E p \in Procs : Complete(p)
  <1> USE DEF TypeInv, TypeOK
  <1>1. ASSUME UNCHANGED status PROVE FALSE
    BY <1>1
  <1>2. ASSUME NEW u \in Tasks, Submit(u) \/ Cancel(u) PROVE FALSE
    BY <1>2 DEF Submit, Cancel
  <1>3. ASSUME NEW w \in Workers, RecoverStaleClaim(w) PROVE FALSE
    BY <1>3 DEF RecoverStaleClaim, OldestFirst, Stale
  <1>4. ASSUME NEW p \in Procs, ClaimNext(p) \/ RecordFailure(p) PROVE FALSE
    BY <1>4 DEF ClaimNext, RecordFailure
  <1>5. ASSUME UNCHANGED queueVars PROVE FALSE
    BY <1>1, <1>5 DEF queueVars
  <1>6. ASSUME NEW w \in Workers, StartPoll(w) \/ PollEmpty(w) PROVE FALSE
    BY <1>5, <1>6 DEF StartPoll, PollEmpty
  <1>7. ASSUME NEW p \in Procs,
               \/ OpenSpans(p) \/ RunThrows(p) \/ StartStage(p) \/ FinishStage(p)
               \/ FailStage(p) \/ CompletionRollsBack(p) \/ LoseClaim(p) \/ Crash(p)
        PROVE  FALSE
    BY <1>5, <1>7 DEF OpenSpans, RunThrows, StartStage, FinishStage, FailStage,
                CompletionRollsBack, LoseClaim, Crash
  <1>8. ~Tick /\ ~UNCHANGED vars
    BY <1>5 DEF Tick, vars
  <1> QED  BY <1>2, <1>3, <1>4, <1>6, <1>7, <1>8 DEF Next, Poll, RunStep

\* A root span becomes done when its task completes, and with all its stages.
LEMMA DoneNext ==
    ASSUME TypeInv, ClaimInv, StagesDone, DoneIsComplete, [Next]_vars
    PROVE  DoneIsComplete'
  <1> USE DEF DoneIsComplete
  <1> DEFINE Whole(t) == \A i \in DoneTrees(t) : \A s \in Stages : spans[t][i].stage[s] = "done"
  <1>1. \A t \in Tasks : /\ spans[t] \in Seq(SpanTree) /\ Len(spans[t]) \in Nat
                         /\ status[t] \in TaskStatus
    BY DEF TypeInv, TypeOK
  <1>2. ASSUME NEW p \in Procs, Complete(p)
        PROVE  DoneIsComplete'
    <2> PICK c : c = run[p].task
      OBVIOUS
    <2>1. /\ c \in Tasks /\ status[c] = "running"
          /\ status' = [status EXCEPT ![c] = "completed"]
      BY <1>2, TreeDone DEF Complete, Fenced
    <2>2. \A t \in Tasks : status'[t] = IF t = c THEN "completed" ELSE status[t]
      BY <2>1 DEF TypeInv, TypeOK
    <2>3. \A s \in Stages : spans[c][run[p].tree].stage[s] = "done"
      <3>1. pc[p] = "finishing"
        BY <1>2 DEF Complete
      <3>2. \A s \in Stages : s < StageCount + 1
        BY QueueAssumption DEF Stages
      <3> QED  BY <3>1, <3>2 DEF StagesDone
    <2> PICK k : k = run[p].tree
      OBVIOUS
    <2>4. DoneTrees(c)' = {k}
      <3>1. \A i \in 1 .. Len(spans[c]) : spans[c][i].root # "done"
        <4>1. DoneTrees(c) = {}
          BY <2>1
        <4> QED  BY <4>1 DEF DoneTrees
      <3>2. /\ k \in 1 .. Len(spans[c]) /\ Len(spans'[c]) = Len(spans[c])
            /\ \A i \in 1 .. Len(spans[c]) :
                 spans'[c][i].root = IF i = k THEN "done" ELSE spans[c][i].root
        BY <1>2, TreeDone
      <3>3. \A i \in 1 .. Len(spans[c]) : spans'[c][i].root = "done" <=> i = k
        BY <3>1, <3>2
      <3>4. DoneTrees(c)' = {i \in 1 .. Len(spans[c]) : spans'[c][i].root = "done"}
        BY <3>2 DEF DoneTrees
      <3> QED  BY <3>2, <3>3, <3>4
    <2>5. ASSUME NEW t \in Tasks, t # c
          PROVE  DoneTrees(t)' = DoneTrees(t)
      BY <1>2, <2>5, TreeDone DEF DoneTrees
    <2>6. ASSUME NEW t \in Tasks
          PROVE  Whole(t)'
      <3>1. CASE t = c
        <4>1. spans'[c][k].stage = spans[c][k].stage
          BY <1>2, TreeDone
        <4>2. \A s \in Stages : spans'[c][k].stage[s] = "done"
          BY <2>3, <4>1
        <4> QED  BY <2>4, <3>1, <4>2
      <3>2. CASE t # c
        <4>1. ASSUME NEW i \in DoneTrees(t), NEW s \in Stages
              PROVE  spans'[t][i].stage[s] = "done"
          BY <1>2, TreeDone DEF DoneTrees
        <4> QED  BY <2>5, <3>2, <4>1
      <3> QED  BY <3>1, <3>2
    <2>7. \A t \in Tasks : /\ status'[t] # "completed" => DoneTrees(t)' = {}
                           /\ status'[t] = "completed" =>
                                \E i \in DoneTrees(t)' : DoneTrees(t)' = {i}
      BY <2>2, <2>4, <2>5
    <2> QED  BY <2>6, <2>7
  <1>3. CASE \A p \in Procs : ~Complete(p)
    <2>1. ASSUME NEW t \in Tasks
          PROVE  status'[t] = "completed" <=> status[t] = "completed"
      <3> USE DEF TypeInv, TypeOK
      <3>1. CASE RowsSame
        BY <3>1 DEF RowsSame, queueVars
      <3>2. ASSUME NEW u \in Tasks, RowSubmit(u) \/ RowRetry(u) \/ RowGiveUp(u) \/ RowClaim(u)
            PROVE  status'[t] = "completed" <=> status[t] = "completed"
        BY <3>2 DEF RowSubmit, RowRetry, RowGiveUp, RowClaim
      <3>3. ASSUME NEW u \in Tasks, RowSettle(u, "cancelled")
            PROVE  status'[t] = "completed" <=> status[t] = "completed"
        BY <3>3 DEF RowSettle
      <3>4. ASSUME NEW u \in Tasks, RowSettle(u, "completed"), ~RowsSame
            PROVE  FALSE
        <4>1. status[u] = "running" /\ status'[u] = "completed"
          BY <3>4 DEF RowSettle
        <4> QED  BY <1>3, <4>1, Completes
      <3> QED  BY <3>1, <3>2, <3>3, <3>4, RowStep, ClaimRow DEF RowChange
    <2>2. ASSUME NEW t \in Tasks
          PROVE  DoneTrees(t)' = DoneTrees(t) /\ Whole(t)'
      <3>1. CASE \E p \in Procs : OpenSpans(p)
        <4>1. PICK p \in Procs : OpenSpans(p)
          BY <3>1
        <4>2. CASE t = run[p].task
          <5>1. /\ Len(spans'[t]) = Len(spans[t]) + 1
                /\ spans'[t][Len(spans[t]) + 1].root # "done"
                /\ \A i \in 1 .. Len(spans[t]) : spans'[t][i] = spans[t][i]
            BY <4>1, <4>2, TreeOpened DEF NewTree
          <5>2. DoneTrees(t)' = {i \in 1 .. Len(spans[t]) + 1 : spans'[t][i].root = "done"}
            BY <5>1 DEF DoneTrees
          <5>3. DoneTrees(t)' = DoneTrees(t)
            BY <1>1, <5>1, <5>2 DEF DoneTrees
          <5>4. \A i \in DoneTrees(t) : spans'[t][i] = spans[t][i]
            BY <5>1 DEF DoneTrees
          <5> QED  BY <5>3, <5>4
        <4>3. CASE t # run[p].task
          <5>1. spans'[t] = spans[t]
            BY <4>1, <4>3, TreeOpened
          <5> QED  BY <5>1 DEF DoneTrees
        <4> QED  BY <4>2, <4>3
      <3>2. CASE \A p \in Procs : ~OpenSpans(p)
        <4>1. /\ Len(spans'[t]) = Len(spans[t])
              /\ \A i \in 1 .. Len(spans[t]) : KeepsDone(spans[t][i], spans'[t][i])
          BY <1>3, <3>2, TreesStep DEF TreesKept
        <4>2. DoneTrees(t)' = DoneTrees(t)
          BY <4>1 DEF DoneTrees, KeepsDone
        <4>3. \A i \in DoneTrees(t) : i \in 1 .. Len(spans[t])
          BY DEF DoneTrees
        <4> QED  BY <4>1, <4>2, <4>3 DEF KeepsDone
      <3> QED  BY <3>1, <3>2
    <2> QED  BY <2>1, <2>2
  <1> QED  BY <1>2, <1>3

\* The ledger is kept throughout.
LEMMA LedgerInvariance == Spec => []LedgerInv
  <1>1. Init => LedgerInv
    <2> SUFFICES ASSUME Init PROVE LedgerInv
      OBVIOUS
    <2>1. \A t \in Tasks : /\ Opening(t) = {} /\ DoneTrees(t) = {} /\ Len(spans[t]) = 0
                           /\ failCount[t] = 0 /\ status[t] = "absent"
      BY DEF Init, Opening, DoneTrees
    <2>2. AttemptsPaid
      <3>1. \A t \in Tasks : PaidFor(t) = 0
        BY <2>1 DEF PaidFor
      <3>2. \A t \in Tasks : IsFiniteSet(Opening(t)) /\ Cardinality(Opening(t)) = 0
        BY <2>1, FS_EmptySet
      <3> QED  BY <2>1, <3>1, <3>2 DEF AttemptsPaid
    <2>3. DoneIsComplete
      BY <2>1 DEF DoneIsComplete
    <2>4. StagesDone
      BY DEF Init, StagesDone
    <2> QED  BY <2>2, <2>3, <2>4 DEF LedgerInv
  <1>2. TypeInv /\ ClaimInv /\ LedgerInv /\ [Next]_vars => LedgerInv'
    BY PaidNext, StagesNext, DoneNext DEF LedgerInv
  <1> QED  BY <1>1, <1>2, TypeInvariance, ClaimInvariance, PTL DEF Spec

\* The span trees are an exact ledger of the attempts, for any number of processes,
\* documents and crashes: a completed task has one tree that is done, with all its
\* stages, and no attempt is opened that no claim and no recorded failure pays for.
THEOREM AttemptsAreAccountedFor == Spec => []AttemptLedger
  <1>1. ASSUME TypeInv, LedgerInv PROVE AttemptLedger
    <2> SUFFICES ASSUME NEW t \in Tasks
                 PROVE  /\ Cardinality(DoneTrees(t)) = IF status[t] = "completed" THEN 1 ELSE 0
                        /\ \A i \in DoneTrees(t) : \A s \in Stages :
                             spans[t][i].stage[s] = "done"
                        /\ Len(spans[t]) + Cardinality(Opening(t)) <= PaidFor(t)
      <3>1. \A t \in Tasks : DOMAIN spans[t] = 1 .. Len(spans[t])
        BY <1>1 DEF TypeInv, TypeOK
      <3> QED  BY <3>1 DEF AttemptLedger, DoneTrees, Opening, PaidFor
    <2>1. Cardinality(DoneTrees(t)) = IF status[t] = "completed" THEN 1 ELSE 0
      BY <1>1, FS_EmptySet, FS_Singleton DEF LedgerInv, DoneIsComplete
    <2> QED  BY <1>1, <2>1 DEF LedgerInv, DoneIsComplete, AttemptsPaid
  <1> QED  BY <1>1, TypeInvariance, LedgerInvariance, PTL

=============================================================================
