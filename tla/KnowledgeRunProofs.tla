-------------------------- MODULE KnowledgeRunProofs --------------------------
(***************************************************************************)
(* An answer run spends one budget and publishes what was validated, for    *)
(* any chunks, tool calls, gaps and limits. The budget: what the loops of a *)
(* run have used is what the run inherited less, and what its running loop  *)
(* has used; a loop outlives the run only when the run is over. The answer: *)
(* a draft is published at the end only, and the evidence never shrinks     *)
(* once there is a draft.                                                   *)
(***************************************************************************)
EXTENDS KnowledgeRun, FiniteSetTheorems, TLAPS

LoopState == [at: {"idle", "ready", "deciding", "searching"}, iterations: Nat, tools: Nat,
              prior: SUBSET Calls, call: Calls \cup {None}, found: SUBSET Chunks,
              traced: SUBSET Calls, done: Nat, used: Nat, stop: LoopStops]

Typed ==
  /\ round \in Nat
  /\ shared \in [iterations: Nat, tools: Nat, prior: SUBSET Calls]
  /\ loop \in LoopState
  /\ steps \in Nat /\ ran \in [Calls -> Nat] /\ asked \in [Gaps -> Nat]
  /\ aborted \in BOOLEAN

\* The run is over once it is aborted; a loop runs while it is awaited, or is an orphan.
Alone ==
  /\ aborted => pc = "ended"
  /\ pc \notin {"loop", "ended"} => loop = NoLoop
  /\ pc = "loop" => loop.at # "idle"

Ran == {c \in Calls : ran[c] > 0}

\* What the loops of the run have used.
Iterated ==
  /\ shared.iterations <= MaxIterations /\ loop.done <= shared.iterations
  /\ steps = (MaxIterations - shared.iterations) + loop.done
  /\ loop.at # "idle" => loop.iterations = shared.iterations - loop.done
  /\ loop.at = "deciding" => loop.iterations > 0
Called ==
  /\ shared.tools <= MaxToolCalls /\ loop.used <= shared.tools
  /\ IsFiniteSet(Ran)
  /\ Cardinality(Ran) = (MaxToolCalls - shared.tools) + loop.used
  /\ loop.at # "idle" => loop.tools = shared.tools - loop.used
  /\ loop.at = "searching" =>
       loop.tools > 0 /\ loop.call \in Calls /\ loop.call \notin loop.prior
Traced ==
  /\ \A c \in Calls : ran[c] <= 1
  /\ loop.at # "idle" => Ran \subseteq loop.prior
  /\ loop.at # "idle" => loop.prior \subseteq shared.prior \cup loop.traced
  /\ pc \notin {"loop", "ended"} => Ran \subseteq shared.prior
Corrected == \A g \in Gaps : asked[g] <= 1 /\ (asked[g] > 0 => g \in seen)

BudgetInv == Typed /\ Alone /\ Iterated /\ Called /\ Traced /\ Corrected

\* What a draft cites is kept; what is published is the draft the Critic passed.
Cites == draft.cites \subseteq evidence /\ evidence \subseteq found
First ==
  \/ pc \in {"start", "select", "plan", "prepare", "search"}
  \/ pc = "loop" /\ round = 0
Drafts == First => draft = NoDraft
Publishes ==
  /\ pc \notin {"summarize", "ended"} => published = NoDraft /\ passed = 0
  /\ published # NoDraft => published = draft /\ passed = draft.no /\ draft.cites # {}
  /\ pc = "summarize" => published # NoDraft
  /\ pc # "ended" => status = None
  /\ status = "completed" => published # NoDraft
HandsOff == case # None => pc = "ended" /\ status = "handoff_required" /\ passed = 0

AnswerInv == Cites /\ Drafts /\ Publishes /\ HandsOff

-----------------------------------------------------------------------------
\* Nothing was used or found yet.
LEMMA RunInit == Init => BudgetInv /\ AnswerInv
<1> SUFFICES ASSUME Init PROVE BudgetInv /\ AnswerInv
  OBVIOUS
<1> USE NoneAssumption DEF NoneAssumption
<1>1. loop \in LoopState /\ loop.at = "idle" /\ loop.done = 0 /\ loop.used = 0
  BY DEF Init, NoLoop, FreshLoop, LoopState, LoopStops
<1>2. Typed
  BY <1>1 DEF Init, Typed, MaxIterations, MaxToolCalls
<1>3. Ran = {}
  BY DEF Init, Ran
<1>4. Called
  <2>1. IsFiniteSet({}) /\ Cardinality({}) = 0
    BY FS_EmptySet
  <2> QED  BY <1>1, <1>3, <2>1 DEF Init, Called, MaxToolCalls
<1>5. Alone /\ Iterated /\ Corrected
  BY <1>1 DEF Init, Alone, Iterated, Corrected, MaxIterations
<1>6. Traced
  BY <1>1, <1>3 DEF Init, Traced
<1>7. AnswerInv
  BY DEF Init, AnswerInv, Cites, Drafts, First, Publishes, HandsOff, NoDraft, Statuses
<1> QED  BY <1>2, <1>4, <1>5, <1>6, <1>7 DEF BudgetInv

-----------------------------------------------------------------------------
(* Reservations.                                                           *)

\* The run goes on, or ends without an answer.
Moves(place) ==
  \/ pc' = place /\ UNCHANGED status
  \/ \E st \in Statuses \ {"completed"} : Finish(st)

\* Where the run is after it reserved model calls.
LEMMA EnterMoves ==
  ASSUME Typed, Alone, pc # "ended", NEW place, NEW k, Enter(place, k)
  PROVE  Moves(place) /\ aborted' \in BOOLEAN /\ (aborted' => pc' = "ended")
BY DEF Typed, Alone, Enter, Moves, Finish, Statuses

\* The same inside a search; the orphan of a run that is over does not change it.
LEMMA InsideMoves ==
  ASSUME Typed, Alone, NEW place, NEW k, place = pc \/ pc # "ended", ReserveInside(k, place)
  PROVE  /\ Moves(place) /\ aborted' \in BOOLEAN /\ (aborted' => pc' = "ended")
         /\ pc = "ended" => UNCHANGED <<pc, status>>
<1>1. aborted' \in BOOLEAN /\ (pc = "ended" => pc' = place /\ UNCHANGED status)
  BY DEF Typed, ReserveInside
<1>2. pc # "ended" => \/ aborted' /\ pc' = "ended" /\ status' = "cancelled"
                      \/ ~aborted' /\ pc' = place /\ UNCHANGED status
  BY DEF ReserveInside, Finish
<1> QED  BY <1>1, <1>2 DEF Moves, Finish, Statuses

-----------------------------------------------------------------------------
(* The budget.                                                             *)

\* Steps of the runner that leave the loop and its budget alone.
LEMMA RunnerKeepsBudget ==
  ASSUME BudgetInv, UNCHANGED <<shared, loop, steps, ran>>, round' \in Nat,
         aborted' \in BOOLEAN, aborted' => pc' = "ended",
         pc' \notin {"loop", "ended"} => pc \notin {"loop", "ended"},
         pc' = "loop" => pc = "loop",
         asked' \in [Gaps -> Nat], Corrected'
  PROVE  BudgetInv'
<1>1. Typed'
  BY DEF BudgetInv, Typed
<1>2. Alone' /\ Iterated'
  BY DEF BudgetInv, Alone, Iterated
<1>3. Ran' = Ran
  BY DEF Ran
<1>4. Called'
  BY <1>3 DEF BudgetInv, Called
<1>5. Traced'
  BY <1>3 DEF BudgetInv, Traced
<1> QED  BY <1>1, <1>2, <1>4, <1>5 DEF BudgetInv

\* A loop starts with what the run has left.
LEMMA LoopStarts ==
  ASSUME BudgetInv, pc \notin {"loop", "ended"}, loop' = FreshLoop(shared), pc' = "loop",
         UNCHANGED <<shared, steps, ran, aborted>>, round' \in Nat,
         asked' \in [Gaps -> Nat], Corrected'
  PROVE  BudgetInv'
<1> USE NoneAssumption DEF NoneAssumption
<1>1. /\ loop' \in LoopState /\ loop'.at = "ready" /\ loop'.done = 0 /\ loop'.used = 0
      /\ loop'.iterations = shared.iterations /\ loop'.tools = shared.tools
      /\ loop'.prior = shared.prior /\ loop'.traced = {}
  BY DEF BudgetInv, Typed, FreshLoop, LoopState, LoopStops
<1>2. loop.done = 0 /\ loop.used = 0
  BY DEF BudgetInv, Alone, NoLoop, FreshLoop
<1>3. Typed'
  BY <1>1 DEF BudgetInv, Typed
<1>4. Alone'
  BY <1>1 DEF BudgetInv, Alone
<1>5. Iterated'
  BY <1>1, <1>2 DEF BudgetInv, Typed, Iterated
<1>6. Ran' = Ran
  BY DEF Ran
<1>7. Called'
  BY <1>1, <1>2, <1>6 DEF BudgetInv, Typed, Called
<1>8. Traced'
  BY <1>1, <1>6 DEF BudgetInv, Traced
<1> QED  BY <1>3, <1>4, <1>5, <1>7, <1>8 DEF BudgetInv

\* A loop ends: what it used is taken off what the run has left.
LEMMA LoopReturns ==
  ASSUME BudgetInv, pc = "loop", LoopOver, shared' = Inherit(shared, loop), loop' = NoLoop,
         UNCHANGED <<steps, ran, asked, seen, round>>, aborted' \in BOOLEAN,
         pc' # "loop", aborted' => pc' = "ended"
  PROVE  BudgetInv'
<1> USE NoneAssumption DEF NoneAssumption
<1>1. loop \in LoopState /\ shared \in [iterations: Nat, tools: Nat, prior: SUBSET Calls]
  BY DEF BudgetInv, Typed
<1>2. loop.at = "ready" /\ loop.done \in Nat /\ loop.used \in Nat /\ loop.traced \subseteq Calls
  BY <1>1 DEF LoopOver, LoopState
<1>3. loop.done <= shared.iterations /\ loop.used <= shared.tools
  BY DEF BudgetInv, Iterated, Called
<1>4. /\ shared' \in [iterations: Nat, tools: Nat, prior: SUBSET Calls]
      /\ shared'.iterations = shared.iterations - loop.done
      /\ shared'.tools = shared.tools - loop.used
      /\ shared'.prior = shared.prior \cup loop.traced
  <2>1. shared.iterations - loop.done \in Nat /\ shared.tools - loop.used \in Nat
    BY <1>1, <1>2, <1>3
  <2>2. /\ Left(shared.iterations, loop.done) = shared.iterations - loop.done
        /\ Left(shared.tools, loop.used) = shared.tools - loop.used
    BY <1>1, <1>2, <1>3 DEF Left
  <2>3. shared' = [iterations |-> shared.iterations - loop.done,
                   tools |-> shared.tools - loop.used,
                   prior |-> shared.prior \cup loop.traced]
    BY <2>2 DEF Inherit
  <2> QED  BY <1>1, <1>2, <2>1, <2>3
<1>5. loop' \in LoopState /\ loop'.at = "idle" /\ loop'.done = 0 /\ loop'.used = 0
  BY DEF NoLoop, FreshLoop, LoopState, LoopStops
<1>6. Typed'
  BY <1>4, <1>5 DEF BudgetInv, Typed
<1>7. Alone'
  BY <1>5 DEF Alone
<1>8. Iterated'
  BY <1>1, <1>2, <1>4, <1>5 DEF BudgetInv, Typed, Iterated, MaxIterations
<1>9. Ran' = Ran
  BY DEF Ran
<1>10. Called'
  <2>1. shared.tools \in Nat /\ shared.tools <= 4
    BY <1>1 DEF BudgetInv, Called, MaxToolCalls
  <2> QED  BY <1>2, <1>3, <1>4, <1>5, <1>9, <2>1 DEF BudgetInv, Called, MaxToolCalls
<1>11. Traced'
  BY <1>2, <1>4, <1>5, <1>9 DEF BudgetInv, Traced
<1>12. Corrected'
  BY DEF BudgetInv, Corrected
<1> QED  BY <1>6, <1>7, <1>8, <1>10, <1>11, <1>12 DEF BudgetInv

\* Steps of the loop that run no tool. What the step says of the loop's fields is given.
LEMMA LoopMoves ==
  ASSUME BudgetInv, loop.at # "idle", loop' \in LoopState,
         UNCHANGED <<shared, ran, asked, seen, round>>,
         loop'.prior = loop.prior, loop'.used = loop.used, loop'.tools = loop.tools,
         loop.traced \subseteq loop'.traced,
         steps' \in Nat, loop'.done <= shared.iterations,
         steps' - steps = loop'.done - loop.done,
         loop.iterations - loop'.iterations = loop'.done - loop.done,
         loop'.at = "deciding" => loop'.iterations > 0,
         loop'.at = "searching" =>
            loop.tools > 0 /\ loop'.call \in Calls /\ loop'.call \notin loop.prior,
         aborted' \in BOOLEAN, aborted' => pc' = "ended",
         pc' # pc => pc' = "ended", loop'.at = "idle" => pc' = "ended"
  PROVE  BudgetInv'
<1>1. loop \in LoopState /\ shared.iterations \in Nat /\ shared.tools \in Nat /\ steps \in Nat
  BY DEF BudgetInv, Typed
<1>2. /\ loop.done \in Nat /\ loop.iterations \in Nat /\ loop.used \in Nat /\ loop.tools \in Nat
      /\ loop'.done \in Nat /\ loop'.iterations \in Nat
  BY <1>1 DEF LoopState
<1>3. Typed'
  BY DEF BudgetInv, Typed
<1>4. pc \in {"loop", "ended"}
  <2>1. pc \notin {"loop", "ended"} => loop = NoLoop
    BY DEF BudgetInv, Alone
  <2> QED  BY <2>1 DEF NoLoop, FreshLoop
<1>5. Alone'
  BY <1>4 DEF BudgetInv, Alone
<1>6. Iterated'
  <2>1. /\ shared.iterations <= 3 /\ steps = (3 - shared.iterations) + loop.done
        /\ loop.iterations = shared.iterations - loop.done
    BY DEF BudgetInv, Iterated, MaxIterations
  <2>2. steps' = (3 - shared.iterations) + loop'.done
    BY <1>1, <1>2, <2>1
  <2>3. loop'.iterations = shared.iterations - loop'.done
    BY <1>1, <1>2, <2>1
  <2> QED  BY <2>1, <2>2, <2>3 DEF Iterated, MaxIterations
<1>7. Ran' = Ran
  BY DEF Ran
<1>8. Called'
  BY <1>1, <1>2, <1>7 DEF BudgetInv, Called
<1>9. Traced'
  BY <1>4, <1>7 DEF BudgetInv, Traced
<1>10. Corrected'
  BY DEF BudgetInv, Corrected
<1> QED  BY <1>3, <1>5, <1>6, <1>8, <1>9, <1>10 DEF BudgetInv

\* A tool ran: one more call, that none of the run's loops had run.
LEMMA LoopSearchedStep ==
  ASSUME BudgetInv, NEW out \in SUBSET Chunks, NEW more \in 0 .. 1, LoopSearched(out, more)
  PROVE  BudgetInv'
<1> DEFINE c == loop.call
<1>1. /\ loop \in LoopState /\ loop.at = "searching" /\ loop.tools > 0
      /\ c \in Calls /\ c \notin loop.prior
  BY DEF LoopSearched, BudgetInv, Typed, Called
<1>2. loop' = [loop EXCEPT !.at = "ready", !.call = None, !.tools = @ - 1,
                 !.used = @ + 1, !.prior = @ \cup {loop.call},
                 !.traced = @ \cup {loop.call}, !.found = @ \cup out]
  BY DEF LoopSearched
<1>3. /\ loop' \in LoopState /\ loop'.at = "ready" /\ loop'.tools = loop.tools - 1
      /\ loop'.used = loop.used + 1 /\ loop'.prior = loop.prior \cup {c}
      /\ loop'.traced = loop.traced \cup {c}
      /\ loop'.iterations = loop.iterations /\ loop'.done = loop.done
  <2>1. loop.tools - 1 \in Nat /\ loop.used + 1 \in Nat
    BY <1>1 DEF LoopState
  <2> QED  BY <1>1, <1>2, <2>1 DEF LoopState
<1>4. ran' = [ran EXCEPT ![c] = @ + 1] /\ UNCHANGED <<shared, steps, asked, seen, round>>
  BY DEF LoopSearched
<1>5. pc' \in {pc, "ended"} /\ aborted' \in BOOLEAN /\ (aborted' => pc' = "ended")
  BY InsideMoves DEF LoopSearched, BudgetInv, Moves, Finish
<1>6. pc \in {"loop", "ended"}
  <2>1. pc \notin {"loop", "ended"} => loop = NoLoop
    BY DEF BudgetInv, Alone
  <2> QED  BY <1>1, <2>1 DEF NoLoop, FreshLoop
<1>7. ran \in [Calls -> Nat] /\ ran[c] = 0 /\ c \notin Ran
  BY <1>1 DEF BudgetInv, Typed, Traced, Ran
<1> HIDE DEF c
<1>8. ran' \in [Calls -> Nat] /\ ran'[c] = 1 /\ \A b \in Calls \ {c} : ran'[b] = ran[b]
  BY <1>1, <1>4, <1>7
<1>9. Ran' = Ran \cup {c}
  BY <1>1, <1>7, <1>8 DEF Ran
<1>10. IsFiniteSet(Ran') /\ Cardinality(Ran') = Cardinality(Ran) + 1
  BY <1>7, <1>9, FS_AddElement DEF BudgetInv, Called
<1>11. /\ loop.used \in Nat /\ loop.tools \in Nat /\ shared.tools \in Nat
       /\ loop.tools = shared.tools - loop.used
  BY <1>1 DEF LoopState, BudgetInv, Typed, Called
<1>12. Typed'
  BY <1>3, <1>4, <1>5, <1>8 DEF BudgetInv, Typed
<1>13. Alone' /\ Iterated'
  BY <1>1, <1>3, <1>4, <1>5, <1>6 DEF BudgetInv, Alone, Iterated
<1>14. Called'
  <2>1. Cardinality(Ran) = (MaxToolCalls - shared.tools) + loop.used
    BY DEF BudgetInv, Called
  <2>2. shared.tools <= MaxToolCalls
    BY DEF BudgetInv, Called
  <2> QED  BY <1>1, <1>3, <1>4, <1>10, <1>11, <2>1, <2>2 DEF Called, MaxToolCalls
<1>15. Traced'
  BY <1>1, <1>3, <1>4, <1>5, <1>6, <1>8, <1>9 DEF BudgetInv, Traced
<1>16. Corrected'
  BY <1>4 DEF BudgetInv, Corrected
<1> QED  BY <1>12, <1>13, <1>14, <1>15, <1>16 DEF BudgetInv

\* Every step of the loop.
LEMMA LoopKeepsBudget ==
  ASSUME BudgetInv, LoopStep
  PROVE  BudgetInv'
<1> USE NoneAssumption DEF NoneAssumption
<1>1. /\ loop \in LoopState /\ steps \in Nat /\ aborted \in BOOLEAN
      /\ aborted => pc = "ended"
  BY DEF BudgetInv, Typed, Alone
<1>2. /\ loop.iterations \in Nat /\ loop.done \in Nat /\ shared.iterations \in Nat
      /\ loop.done <= shared.iterations
      /\ loop.at # "idle" => loop.done + loop.iterations = shared.iterations
  BY <1>1 DEF LoopState, BudgetInv, Typed, Iterated
<1>3. CASE LoopAsks
  <2>1. /\ loop.at = "ready" /\ loop.iterations > 0
        /\ loop' = [loop EXCEPT !.at = IF Fits(1) THEN "deciding" ELSE "idle"]
        /\ UNCHANGED <<shared, ran, asked, seen, round, steps>>
    BY <1>3 DEF LoopAsks, history
  <2>2. /\ loop' \in LoopState /\ loop'.at = IF Fits(1) THEN "deciding" ELSE "idle"
        /\ loop'.prior = loop.prior /\ loop'.used = loop.used /\ loop'.tools = loop.tools
        /\ loop'.traced = loop.traced /\ loop'.done = loop.done
        /\ loop'.iterations = loop.iterations
    BY <1>1, <2>1 DEF LoopState
  <2>3. pc' \in {pc, "ended"} /\ aborted' \in BOOLEAN /\ (aborted' => pc' = "ended")
    BY <1>3, InsideMoves DEF LoopAsks, BudgetInv, Moves, Finish
  <2>4. ~Fits(1) => pc' = "ended"
    BY <1>1, <1>3, <2>3 DEF LoopAsks, ReserveInside, StopsRun
  <2> QED  BY <1>1, <1>2, <2>1, <2>2, <2>3, <2>4, LoopMoves
<1>4. CASE LoopDies \/ LoopControllerFails \/ LoopSearchFails
  <2>1. /\ loop.at \in {"deciding", "searching"}
        /\ UNCHANGED <<shared, ran, asked, seen, round, steps, pc, aborted>>
    BY <1>4 DEF LoopDies, LoopControllerFails, LoopSearchFails, runner, answer, budget, history
  <2>2. /\ loop' \in LoopState /\ loop'.at \in {"idle", "ready"}
        /\ loop'.at = "idle" => aborted
        /\ loop'.prior = loop.prior /\ loop'.used = loop.used /\ loop'.tools = loop.tools
        /\ loop'.traced = loop.traced /\ loop'.done = loop.done
        /\ loop'.iterations = loop.iterations
    <3>1. \/ aborted /\ loop' = [loop EXCEPT !.at = "idle"]
          \/ loop' = [loop EXCEPT !.at = "ready", !.stop = "provider-failure"]
          \/ loop' = [loop EXCEPT !.at = "ready", !.call = None, !.stop = "provider-failure"]
      BY <1>4 DEF LoopDies, LoopControllerFails, LoopSearchFails
    <3>2. "provider-failure" \in LoopStops
      BY DEF LoopStops
    <3>3. CASE aborted /\ loop' = [loop EXCEPT !.at = "idle"]
      BY <1>1, <3>3 DEF LoopState
    <3>4. CASE loop' = [loop EXCEPT !.at = "ready", !.stop = "provider-failure"]
      BY <1>1, <3>2, <3>4 DEF LoopState
    <3>5. CASE loop' = [loop EXCEPT !.at = "ready", !.call = None, !.stop = "provider-failure"]
      BY <1>1, <3>2, <3>5 DEF LoopState
    <3> QED  BY <3>1, <3>3, <3>4, <3>5
  <2> QED  BY <1>1, <1>2, <2>1, <2>2, LoopMoves
<1>5. ASSUME loop.at = "deciding"
      PROVE  /\ loop.iterations > 0 /\ loop.iterations - 1 \in Nat /\ loop.done + 1 \in Nat
             /\ loop.done + 1 <= shared.iterations
  BY <1>1, <1>2, <1>5 DEF BudgetInv, Iterated
<1>6. CASE LoopSufficient
  <2>1. /\ loop.at = "deciding" /\ steps' = steps + 1
        /\ UNCHANGED <<shared, ran, asked, seen, round, pc, aborted>>
        /\ loop' = [OneIteration(loop) EXCEPT !.at = "ready", !.stop = "evidence-sufficient"]
    BY <1>6 DEF LoopSufficient, runner, answer, budget
  <2>2. /\ loop' \in LoopState /\ loop'.at = "ready"
        /\ loop'.prior = loop.prior /\ loop'.used = loop.used /\ loop'.tools = loop.tools
        /\ loop'.traced = loop.traced /\ loop'.done = loop.done + 1
        /\ loop'.iterations = loop.iterations - 1
    BY <1>1, <1>5, <2>1 DEF OneIteration, LoopState, LoopStops
  <2> QED  BY <1>1, <1>2, <1>5, <2>1, <2>2, LoopMoves
<1>7. ASSUME NEW d \in Calls, LoopDuplicate(d)
      PROVE  BudgetInv'
  <2>1. /\ loop.at = "deciding" /\ steps' = steps + (loop.iterations - loop'.iterations)
        /\ UNCHANGED <<shared, ran, asked, seen, round, pc, aborted>>
        /\ loop' = [OneIteration(loop) EXCEPT !.at = "ready", !.traced = @ \cup {d}]
    BY <1>7 DEF LoopDuplicate, AfterDuplicate, runner, answer, budget
  <2>2. /\ loop' \in LoopState /\ loop'.at = "ready"
        /\ loop'.prior = loop.prior /\ loop'.used = loop.used /\ loop'.tools = loop.tools
        /\ loop'.traced = loop.traced \cup {d} /\ loop'.done = loop.done + 1
        /\ loop'.iterations = loop.iterations - 1
    BY <1>1, <1>5, <2>1 DEF OneIteration, LoopState
  <2>3. steps' = steps + 1
    BY <1>2, <2>1, <2>2
  <2> QED  BY <1>1, <1>2, <1>5, <2>1, <2>2, <2>3, LoopMoves
<1>8. ASSUME NEW d \in Calls, LoopCalls(d)
      PROVE  BudgetInv'
  <2>1. /\ loop.at = "deciding" /\ d \notin loop.prior /\ steps' = steps + 1
        /\ UNCHANGED <<shared, ran, asked, seen, round>>
    BY <1>8 DEF LoopCalls
  <2>2. /\ loop' \in LoopState /\ loop'.at \in {"ready", "searching"}
        /\ loop'.at = "searching" => loop.tools > 0 /\ loop'.call = d
        /\ loop'.prior = loop.prior /\ loop'.used = loop.used /\ loop'.tools = loop.tools
        /\ loop'.traced = loop.traced /\ loop'.done = loop.done + 1
        /\ loop'.iterations = loop.iterations - 1
    <3>1. loop.tools \in Nat
      BY <1>1 DEF LoopState
    <3>2. CASE loop.tools = 0
      <4>1. loop' = [OneIteration(loop) EXCEPT !.at = "ready", !.stop = "tool-budget"]
        BY <1>8, <3>2 DEF LoopCalls
      <4> QED  BY <1>1, <1>5, <2>1, <4>1 DEF OneIteration, LoopState, LoopStops
    <3>3. CASE loop.tools # 0
      <4>1. loop' = [OneIteration(loop) EXCEPT !.at = "searching", !.call = d]
        BY <1>8, <3>3 DEF LoopCalls
      <4>2. /\ OneIteration(loop) \in LoopState
            /\ OneIteration(loop).prior = loop.prior /\ OneIteration(loop).used = loop.used
            /\ OneIteration(loop).tools = loop.tools /\ OneIteration(loop).traced = loop.traced
            /\ OneIteration(loop).done = loop.done + 1
            /\ OneIteration(loop).iterations = loop.iterations - 1
        BY <1>1, <1>5, <2>1 DEF OneIteration, LoopState
      <4>3. loop.tools > 0
        BY <3>1, <3>3
      <4> HIDE DEF OneIteration
      <4> QED  BY <1>8, <4>1, <4>2, <4>3 DEF LoopState
    <3> QED  BY <3>2, <3>3
  <2>3. pc' \in {pc, "ended"} /\ aborted' \in BOOLEAN /\ (aborted' => pc' = "ended")
    <3>1. CASE loop.tools = 0
      BY <1>1, <1>8, <3>1 DEF LoopCalls, budget
    <3>2. CASE loop.tools # 0
      BY <1>8, <3>2, InsideMoves DEF LoopCalls, BudgetInv, Moves, Finish
    <3> QED  BY <3>1, <3>2
  <2> QED  BY <1>1, <1>2, <1>5, <2>1, <2>2, <2>3, LoopMoves
<1>9. ASSUME NEW out \in SUBSET Chunks, NEW more \in 0 .. 1, LoopSearched(out, more)
      PROVE  BudgetInv'
  BY <1>9, LoopSearchedStep
<1> QED  BY <1>3, <1>4, <1>6, <1>7, <1>8, <1>9 DEF LoopStep

\* What gate 1, a rebuilt answer or an exhausted correction leaves of the budget.
LEMMA GatesMove ==
  ASSUME Typed, Alone, pc # "ended"
  PROVE  /\ \A all, ok : Retrieved(all, ok) =>
              aborted' \in BOOLEAN /\ (aborted' => pc' = "ended") /\ pc' \in {"draft", "ended"}
         /\ \A new : Rebuild(new) =>
              aborted' \in BOOLEAN /\ (aborted' => pc' = "ended") /\ pc' \in {"draft", "ended"}
         /\ Exhausted => aborted' = aborted /\ pc' = "ended"
<1>1. ASSUME NEW k, Enter("draft", k)
      PROVE  aborted' \in BOOLEAN /\ (aborted' => pc' = "ended") /\ pc' \in {"draft", "ended"}
  BY <1>1, EnterMoves DEF Moves, Finish
<1>2. aborted \in BOOLEAN
  BY DEF Typed
<1>3. ASSUME NEW all, NEW ok, Retrieved(all, ok)
      PROVE  aborted' \in BOOLEAN /\ (aborted' => pc' = "ended") /\ pc' \in {"draft", "ended"}
  <2>1. \/ pc' = "ended" /\ aborted' = aborted
        \/ \E k \in 1 .. 2 : Enter("draft", k)
    BY <1>3 DEF Retrieved, Finish, budget
  <2> QED  BY <1>1, <1>2, <2>1
<1>4. ASSUME NEW new, Rebuild(new)
      PROVE  aborted' \in BOOLEAN /\ (aborted' => pc' = "ended") /\ pc' \in {"draft", "ended"}
  BY <1>1, <1>4 DEF Rebuild
<1>5. Exhausted => aborted' = aborted /\ pc' = "ended"
  BY DEF Exhausted, FinishCiting, Finish, budget
<1> QED  BY <1>3, <1>4, <1>5

\* The outcome of a runner step for the run's budget.
Goes ==
  /\ UNCHANGED <<shared, loop, steps, ran>> /\ round' \in Nat
  /\ aborted' \in BOOLEAN /\ (aborted' => pc' = "ended")
  /\ pc' \notin {"loop", "ended"} => pc \notin {"loop", "ended"}
  /\ pc' = "loop" => pc = "loop"

\* Every step of the runner, of the caller and of the desk.
LEMMA RunnerKeeps ==
  ASSUME BudgetInv,
         RunnerStep \/ (\E broke \in BOOLEAN : Interrupt(broke))
           \/ (\E to \in CaseStatuses : DeskUpdates(to))
  PROVE  BudgetInv'
<1> USE NoneAssumption DEF NoneAssumption
<1>1. Typed /\ Alone /\ round \in Nat /\ aborted \in BOOLEAN
  BY DEF BudgetInv, Typed
<1>2. ASSUME Goes, UNCHANGED <<asked, seen>>
      PROVE  BudgetInv'
  <2>1. asked' \in [Gaps -> Nat] /\ Corrected'
    BY <1>2 DEF BudgetInv, Typed, Corrected
  <2> QED  BY <1>2, <2>1, RunnerKeepsBudget DEF Goes
<1>3. CASE Start
  <2>1. pc = "start" /\ UNCHANGED <<shared, steps, ran, asked, seen, round>>
    BY <1>3 DEF Start, history
  <2>2. asked' \in [Gaps -> Nat] /\ Corrected'
    BY <2>1 DEF BudgetInv, Typed, Corrected
  <2>3. CASE path = "loop"
    <3>1. pc' = "loop" /\ loop' = FreshLoop(shared) /\ UNCHANGED aborted
      BY <1>3, <2>3 DEF Start, budget
    <3> QED  BY <1>1, <2>1, <2>2, <3>1, LoopStarts
  <2>4. CASE path # "loop"
    <3>1. \E place \in {"plan", "select"} : Enter(place, 1)
      BY <1>3, <2>4 DEF Start
    <3>2. /\ aborted' \in BOOLEAN /\ (aborted' => pc' = "ended")
          /\ pc' \in {"plan", "select", "ended"}
      BY <1>1, <2>1, <3>1, EnterMoves DEF Moves, Finish
    <3>3. UNCHANGED loop
      BY <1>3, <2>4 DEF Start
    <3> QED  BY <1>1, <1>2, <2>1, <3>2, <3>3 DEF Goes
  <2> QED  BY <2>3, <2>4
<1>4. CASE SelectTool
  <2>1. /\ aborted' \in BOOLEAN /\ (aborted' => pc' = "ended")
        /\ pc' \in {"search", "ended"}
    BY <1>1, <1>4, InsideMoves DEF SelectTool, Moves, Finish
  <2> QED  BY <1>1, <1>2, <1>4, <2>1 DEF SelectTool, Goes, history
<1>5. ASSUME NEW n \in SubQueries, NEW attempts \in 1 .. 2, Decomposed(n, attempts)
      PROVE  BudgetInv'
  <2>1. /\ aborted' \in BOOLEAN /\ (aborted' => pc' = "ended")
        /\ pc' \in {"prepare", "ended"}
    BY <1>1, <1>5, EnterMoves DEF Decomposed, Moves, Finish
  <2> QED  BY <1>1, <1>2, <1>5, <2>1 DEF Decomposed, Goes, history
<1>6. ASSUME NEW more \in 2 .. 3, Prepared(more)
      PROVE  BudgetInv'
  <2>1. \E place \in {"search", "prepare"} : Enter(place, more + 1)
    BY <1>6 DEF Prepared
  <2>2. /\ aborted' \in BOOLEAN /\ (aborted' => pc' = "ended")
        /\ pc' \in {"search", "prepare", "ended"}
    BY <1>1, <1>6, <2>1, EnterMoves DEF Prepared, Moves, Finish
  <2> QED  BY <1>1, <1>2, <1>6, <2>2 DEF Prepared, Goes, history
<1>7. ASSUME NEW out \in SUBSET Chunks, NEW ok \in BOOLEAN, Searched(out, ok)
      PROVE  BudgetInv'
  <2>1. /\ aborted' \in BOOLEAN /\ (aborted' => pc' = "ended")
        /\ pc' \in {"search", "draft", "ended"}
    <3>1. pc = "search"
      BY <1>7 DEF Searched
    <3>2. CASE toSearch = 1
      BY <1>1, <1>7, <3>1, <3>2, GatesMove DEF Searched
    <3>3. CASE toSearch # 1
      BY <1>1, <1>7, <3>1, <3>3, InsideMoves DEF Searched, Moves, Finish
    <3> QED  BY <3>2, <3>3
  <2> QED  BY <1>1, <1>2, <1>7, <2>1 DEF Searched, Goes, history
<1>8. CASE FirstLoopReturns
  <2>1. aborted' \in BOOLEAN /\ (aborted' => pc' = "ended") /\ pc' \in {"draft", "ended"}
    <3>1. CASE loop.stop = "provider-failure"
      BY <1>1, <1>8, <3>1 DEF FirstLoopReturns, Finish, budget, Alone
    <3>2. CASE loop.stop # "provider-failure"
      BY <1>1, <1>8, <3>2, GatesMove DEF FirstLoopReturns
    <3> QED  BY <3>1, <3>2
  <2> QED  BY <1>8, <2>1, LoopReturns DEF FirstLoopReturns, history
<1>9. CASE CorrectionLoopReturns
  <2>1. /\ aborted' \in BOOLEAN /\ (aborted' => pc' = "ended")
        /\ pc' \in {"draft", "correct", "ended"}
    <3>1. pc = "loop"
      BY <1>9 DEF CorrectionLoopReturns
    <3>2. Rebuild(loop.found) \/ Exhausted \/ ReserveInside(1, "correct")
      BY <1>9 DEF CorrectionLoopReturns
    <3> QED  BY <1>1, <3>1, <3>2, GatesMove, InsideMoves DEF Moves, Finish
  <2> QED  BY <1>9, <2>1, LoopReturns DEF CorrectionLoopReturns, history
<1>10. ASSUME NEW out \in SUBSET Chunks, NEW ok \in BOOLEAN, CorrectionSearched(out, ok)
       PROVE  BudgetInv'
  <2>1. aborted' \in BOOLEAN /\ (aborted' => pc' = "ended") /\ pc' \in {"draft", "ended"}
    <3>1. pc = "correct"
      BY <1>10 DEF CorrectionSearched
    <3>2. Rebuild(out) \/ Exhausted \/ (pc' = "ended" /\ UNCHANGED aborted)
      BY <1>10 DEF CorrectionSearched, FinishCiting, Finish, budget
    <3> QED  BY <1>1, <3>1, <3>2, GatesMove
  <2> QED  BY <1>1, <1>2, <1>10, <2>1 DEF CorrectionSearched, Goes, history
<1>11. ASSUME NEW cites, Drafted(cites)
       PROVE  BudgetInv'
  <2>1. aborted' \in BOOLEAN /\ (aborted' => pc' = "ended") /\ pc' \in {"validate", "ended"}
    <3>1. pc = "draft"
      BY <1>11 DEF Drafted
    <3>2. Enter("validate", 1) \/ Exhausted \/ (pc' = "ended" /\ UNCHANGED aborted)
      BY <1>11 DEF Drafted, FinishCiting, Finish, budget
    <3> QED  BY <1>1, <3>1, <3>2, GatesMove, EnterMoves DEF Moves, Finish
  <2>2. pc \notin {"loop", "ended"}
    BY <1>11 DEF Drafted
  <2> QED  BY <1>1, <1>2, <1>11, <2>1, <2>2 DEF Drafted, Goes, history
<1>12. CASE Approved
  <2>1. aborted' \in BOOLEAN /\ (aborted' => pc' = "ended") /\ pc' \in {"summarize", "ended"}
    <3>1. pc = "validate"
      BY <1>12 DEF Approved
    <3>2. Enter("summarize", 1) \/ (pc' = "ended" /\ UNCHANGED aborted)
      BY <1>12 DEF Approved, Finish, budget
    <3> QED  BY <1>1, <3>1, <3>2, EnterMoves DEF Moves, Finish
  <2> QED  BY <1>1, <1>2, <1>12, <2>1 DEF Approved, Goes, history
<1>13. CASE Summarized \/ ProviderFails
  <2>1. pc' = "ended" /\ UNCHANGED <<aborted, round, shared, loop, history, seen>>
    BY <1>13 DEF Summarized, ProviderFails, Finish, budget
  <2> QED  BY <1>1, <1>2, <2>1 DEF Goes, history
<1>14. ASSUME NEW gap \in Gaps \cup {None}, Refused(gap)
       PROVE  BudgetInv'
  <2>1. pc = "validate" /\ UNCHANGED <<shared, steps, ran>>
    BY <1>14 DEF Refused
  <2>2. CASE ~NewGap(gap)
    <3>1. pc' = "ended" /\ UNCHANGED <<aborted, seen, round, asked, loop>>
      BY <1>1, <1>14, <2>1, <2>2, GatesMove DEF Refused
    <3> QED  BY <1>1, <1>2, <2>1, <3>1 DEF Goes
  <2>3. CASE NewGap(gap)
    <3>1. gap \in Gaps /\ gap \notin seen
      BY <2>3 DEF NewGap
    <3>2. seen' = seen \cup {gap} /\ round' = round + 1 /\ asked' = [asked EXCEPT ![gap] = @ + 1]
      BY <1>14, <2>3 DEF Refused
    <3>3. asked' \in [Gaps -> Nat] /\ Corrected'
      <4>1. asked \in [Gaps -> Nat] /\ asked[gap] = 0
        BY <3>1 DEF BudgetInv, Typed, Corrected
      <4> QED  BY <3>1, <3>2, <4>1 DEF BudgetInv, Corrected
    <3>4. round' \in Nat
      BY <1>1, <3>2
    <3>5. CASE path = "loop"
      <4>1. pc' = "loop" /\ loop' = FreshLoop(shared) /\ UNCHANGED aborted
        BY <1>14, <2>3, <3>5 DEF Refused, budget
      <4> QED  BY <2>1, <3>3, <3>4, <4>1, LoopStarts
    <3>6. CASE path # "loop"
      <4>1. ReserveInside(1, "correct") /\ UNCHANGED loop
        BY <1>14, <2>3, <3>6 DEF Refused
      <4>2. /\ aborted' \in BOOLEAN /\ (aborted' => pc' = "ended")
            /\ pc' \in {"correct", "ended"}
        BY <1>1, <2>1, <4>1, InsideMoves DEF Moves, Finish
      <4> QED  BY <2>1, <3>3, <3>4, <4>1, <4>2, RunnerKeepsBudget
    <3> QED  BY <3>5, <3>6
  <2> QED  BY <2>2, <2>3
<1>15. ASSUME NEW broke \in BOOLEAN, Interrupt(broke)
       PROVE  BudgetInv'
  BY <1>1, <1>2, <1>15 DEF Interrupt, Finish, Goes, history
<1>16. ASSUME NEW to \in CaseStatuses, DeskUpdates(to)
       PROVE  BudgetInv'
  <2>1. UNCHANGED <<pc, aborted, round, shared, loop, history, seen>>
    BY <1>16 DEF DeskUpdates, runner, budget
  <2> QED  BY <1>1, <1>2, <2>1 DEF Goes, Alone, history
<1> QED  BY <1>3, <1>4, <1>5, <1>6, <1>7, <1>8, <1>9, <1>10, <1>11, <1>12, <1>13, <1>14,
            <1>15, <1>16 DEF RunnerStep

\* Every step keeps the budget.
LEMMA BudgetInvNext == BudgetInv /\ [Next]_vars => BudgetInv'
<1> SUFFICES ASSUME BudgetInv, [Next]_vars PROVE BudgetInv'
  OBVIOUS
<1>1. CASE UNCHANGED vars
  <2>1. UNCHANGED <<pc, aborted, round, shared, loop, steps, ran, asked, seen>>
    BY <1>1 DEF vars, runner, answer, budget, history
  <2> QED  BY <2>1 DEF BudgetInv, Typed, Alone, Iterated, Called, Traced, Corrected, Ran
<1> QED  BY <1>1, LoopKeepsBudget, RunnerKeeps DEF Next

\* The loops of a run, corrections and an orphan left by an abort included, take three
\* decisions and four tool calls between them, run no call twice and correct no gap twice.
THEOREM RunsSpendOneBudget == Spec => []OneBudgetPerRun
<1>1. BudgetInv => OneBudgetPerRun
  <2> SUFFICES ASSUME BudgetInv PROVE OneBudgetPerRun
    OBVIOUS
  <2>1. /\ loop.done \in Nat /\ loop.used \in Nat /\ shared.iterations \in Nat
        /\ shared.tools \in Nat
    BY DEF BudgetInv, Typed, LoopState
  <2>2. steps <= MaxIterations
    BY <2>1 DEF BudgetInv, Iterated, MaxIterations
  <2>3. Cardinality({c \in Calls : ran[c] > 0}) <= MaxToolCalls
    <3>1. Cardinality(Ran) <= MaxToolCalls
      BY <2>1 DEF BudgetInv, Called, MaxToolCalls
    <3> QED  BY <3>1 DEF Ran
  <2> QED  BY <2>2, <2>3 DEF OneBudgetPerRun, BudgetInv, Traced, Corrected
<1>2. Init => BudgetInv
  BY RunInit
<1> QED  BY <1>1, <1>2, BudgetInvNext, PTL DEF Spec


-----------------------------------------------------------------------------
(* The answer.                                                             *)

\* A step that leaves the draft, the evidence and the handoff case alone.
Quiet ==
  /\ UNCHANGED <<evidence, draft, passed, published, case>> /\ found \subseteq found'
  /\ pc = "ended" => UNCHANGED <<pc, status>>
  /\ First' => First
  /\ pc' # "ended" => UNCHANGED status /\ (pc' = "summarize") = (pc = "summarize")
  /\ status' = "completed" => status = "completed" \/ pc = "summarize"

LEMMA QuietKeeps ==
  ASSUME AnswerInv, Quiet
  PROVE  AnswerInv'
<1>1. Cites' /\ Drafts'
  BY DEF AnswerInv, Quiet, Cites, Drafts
<1>2. Publishes'
  BY DEF AnswerInv, Quiet, Publishes
<1>3. HandsOff'
  BY DEF AnswerInv, Quiet, HandsOff
<1> QED  BY <1>1, <1>2, <1>3 DEF AnswerInv

\* A run that moves to an await before its first draft, or after one, or ends.
LEMMA MovesQuietly ==
  ASSUME AnswerInv, NEW place, Moves(place), pc \notin {"summarize", "ended"},
         UNCHANGED <<evidence, draft, passed, published, case>>, found \subseteq found',
         place \notin {"summarize", "ended"}, pc' = place => (First' => First)
  PROVE  AnswerInv'
<1>1. First' => pc' # "ended"
  BY DEF First
<1>2. Quiet
  BY <1>1 DEF Quiet, Moves, Finish, AnswerInv, Publishes
<1> QED  BY <1>2, QuietKeeps

\* Gate 1 builds the evidence before there is a draft; a correction adds to it.
LEMMA BuildsEvidence ==
  ASSUME Typed, Alone, AnswerInv, pc \notin {"summarize", "ended"},
         UNCHANGED <<draft, passed, published, case>>, draft.cites \subseteq evidence',
         evidence' \subseteq found', NEW k, Enter("draft", k)
  PROVE  AnswerInv'
<1>1. Moves("draft")
  BY EnterMoves
<1>2. Cites' /\ Drafts'
  BY <1>1 DEF AnswerInv, Cites, Drafts, First, Moves, Finish
<1>3. Publishes'
  BY <1>1 DEF AnswerInv, Publishes, Moves, Finish
<1>4. HandsOff'
  BY DEF AnswerInv, HandsOff
<1> QED  BY <1>2, <1>3, <1>4 DEF AnswerInv

LEMMA RetrievedKeeps ==
  ASSUME Typed, Alone, AnswerInv, First, pc # "ended", NEW all, NEW ok, Retrieved(all, ok),
         UNCHANGED <<draft, passed, published, case>>
  PROVE  AnswerInv'
<1>1. draft.cites = {} /\ pc \notin {"summarize", "ended"}
  BY DEF AnswerInv, Drafts, First, NoDraft
<1>2. CASE \E sel \in SUBSET all, k \in 1 .. 2 : evidence' = sel /\ found' = sel /\ Enter("draft", k)
  BY <1>1, <1>2, BuildsEvidence
<1>3. CASE /\ UNCHANGED <<found, evidence>>
           /\ \E st \in {"insufficient_retrieval", "insufficient_evidence"} : Finish(st)
  <2>1. Moves("draft")
    BY <1>3 DEF Moves, Statuses
  <2>2. pc' # "draft"
    BY <1>3 DEF Finish
  <2> QED  BY <1>1, <1>3, <2>1, <2>2, MovesQuietly
<1> QED  BY <1>2, <1>3 DEF Retrieved

LEMMA RebuildKeeps ==
  ASSUME Typed, Alone, AnswerInv, pc \notin {"summarize", "ended"}, NEW new, Rebuild(new),
         UNCHANGED <<draft, passed, published, case>>
  PROVE  AnswerInv'
<1>1. draft.cites \subseteq found
  BY DEF AnswerInv, Cites
<1>2. \E k \in 1 .. 2 : evidence' = found \cup new /\ found' = found \cup new /\ Enter("draft", k)
  BY DEF Rebuild
<1> QED  BY <1>1, <1>2, BuildsEvidence

\* The case of a run that is handed over comes with its status: the references of the
\* standing draft are all known.
LEMMA ExhaustedKeeps ==
  ASSUME AnswerInv, pc \notin {"summarize", "ended"}, Exhausted,
         UNCHANGED <<passed, published>>, draft'.cites \subseteq evidence
  PROVE  AnswerInv'
<1>1. Known(draft.cites) /\ case = None /\ published = NoDraft /\ passed = 0
  BY DEF AnswerInv, Cites, Known, HandsOff, Publishes
<1>2. /\ UNCHANGED <<found, evidence>> /\ pc' = "ended"
      /\ \/ status' = "handoff_required"
         \/ status' = "insufficient_evidence" /\ case' = None
  BY <1>1 DEF Exhausted, FinishCiting, Finish
<1>3. Cites' /\ Drafts'
  BY <1>2 DEF AnswerInv, Cites, Drafts, First
<1>4. Publishes' /\ HandsOff'
  BY <1>1, <1>2 DEF Publishes, HandsOff
<1> QED  BY <1>3, <1>4 DEF AnswerInv

\* The loop's steps, orphan or not, leave the answer alone: at most they end the run.
LEMMA LoopKeepsAnswer ==
  ASSUME BudgetInv, AnswerInv, LoopStep
  PROVE  AnswerInv'
<1>1. Typed /\ Alone
  BY DEF BudgetInv
<1>2. UNCHANGED <<found, evidence, draft, passed, published, case, round>>
  BY DEF LoopStep, LoopAsks, LoopDies, LoopControllerFails, LoopSufficient, LoopSearchFails,
         LoopDuplicate, LoopCalls, LoopSearched, runner, answer
<1>3. \/ UNCHANGED <<pc, status>>
      \/ \E k \in 0 .. 1 : ReserveInside(k, pc) /\ pc \in {"loop", "ended"}
  <2>1. loop.at # "idle" => pc \in {"loop", "ended"}
    BY DEF BudgetInv, Alone, NoLoop, FreshLoop
  <2>2. CASE LoopAsks
    BY <2>1, <2>2 DEF LoopAsks
  <2>3. CASE LoopDies \/ LoopControllerFails \/ LoopSufficient \/ LoopSearchFails
    BY <2>3 DEF LoopDies, LoopControllerFails, LoopSufficient, LoopSearchFails, runner, answer
  <2>4. ASSUME NEW d \in Calls, LoopDuplicate(d)
        PROVE  UNCHANGED <<pc, status>>
    BY <2>4 DEF LoopDuplicate, runner, answer
  <2>5. ASSUME NEW d \in Calls, LoopCalls(d)
        PROVE  UNCHANGED <<pc, status>> \/ (ReserveInside(1, pc) /\ pc \in {"loop", "ended"})
    BY <2>1, <2>5 DEF LoopCalls
  <2>6. ASSUME NEW out \in SUBSET Chunks, NEW more \in 0 .. 1, LoopSearched(out, more)
        PROVE  ReserveInside(more, pc) /\ pc \in {"loop", "ended"}
    BY <2>1, <2>6 DEF LoopSearched
  <2> QED  BY <2>2, <2>3, <2>4, <2>5, <2>6 DEF LoopStep
<1>4. CASE UNCHANGED <<pc, status>>
  <2>1. Quiet
    BY <1>2, <1>4 DEF Quiet, First
  <2> QED  BY <2>1, QuietKeeps
<1>5. ASSUME NEW k \in 0 .. 1, ReserveInside(k, pc), pc \in {"loop", "ended"}
      PROVE  AnswerInv'
  <2>1. Moves(pc) /\ (pc = "ended" => UNCHANGED <<pc, status>>)
    BY <1>1, <1>5, InsideMoves
  <2>2. CASE pc = "ended"
    BY <1>4, <2>1, <2>2
  <2>3. CASE pc = "loop"
    <3>1. pc' = pc => (First' => First)
      BY <1>2 DEF First
    <3> QED  BY <1>2, <2>1, <2>3, <3>1, MovesQuietly
  <2> QED  BY <1>5, <2>2, <2>3
<1> QED  BY <1>3, <1>4, <1>5

\* A whole draft: it is kept for the Critic, dropped, or, after the last round, never
\* validated.
LEMMA DraftedKeeps ==
  ASSUME Typed, Alone, AnswerInv, NEW cites, Drafted(cites)
  PROVE  AnswerInv'
<1>1. /\ pc = "draft" /\ UNCHANGED <<passed, published>>
      /\ published = NoDraft /\ passed = 0 /\ status = None /\ case = None
  BY DEF Drafted, AnswerInv, Publishes, HandsOff
<1>2. CASE ~Known(cites)
  <2>1. UNCHANGED <<found, evidence, case, draft>> /\ pc' = "ended"
        /\ status' \in {"invalid_citation", "provider_error"}
    BY <1>2 DEF Drafted, FinishCiting, Finish
  <2>2. Quiet
    BY <1>1, <2>1 DEF Quiet, First
  <2> QED  BY <2>2, QuietKeeps
<1>3. CASE Known(cites)
  <2>1. draft'.cites \subseteq evidence
    BY <1>3 DEF Drafted, Known
  <2>2. CASE round < MaxRounds
    <3>1. Enter("validate", 1) /\ UNCHANGED <<found, evidence, case>>
      BY <1>3, <2>2 DEF Drafted
    <3>2. Moves("validate")
      BY <1>1, <3>1, EnterMoves
    <3>3. Cites' /\ Drafts'
      BY <2>1, <3>1, <3>2 DEF AnswerInv, Cites, Drafts, First, Moves, Finish
    <3>4. Publishes' /\ HandsOff'
      BY <1>1, <3>1, <3>2, NoneAssumption
         DEF NoneAssumption, Publishes, HandsOff, Moves, Finish, Statuses
    <3> QED  BY <3>3, <3>4 DEF AnswerInv
  <2>3. CASE ~(round < MaxRounds)
    <3>1. Exhausted
      BY <1>3, <2>3 DEF Drafted
    <3> QED  BY <1>1, <2>1, <3>1, ExhaustedKeeps
  <2> QED  BY <2>2, <2>3
<1> QED  BY <1>2, <1>3

\* The Critic's yes: what it passed is what is saved, if it cites anything.
LEMMA ApprovedKeeps ==
  ASSUME Typed, Alone, AnswerInv, Approved
  PROVE  AnswerInv'
<1>1. /\ pc = "validate" /\ passed' = draft.no /\ UNCHANGED <<found, evidence, draft, case>>
      /\ published = NoDraft /\ status = None /\ case = None
  BY DEF Approved, AnswerInv, Publishes, HandsOff
<1>2. Cites' /\ HandsOff'
  BY <1>1 DEF AnswerInv, Cites, HandsOff
<1>3. CASE Publishable(draft)
  <2>1. published' = draft /\ draft.cites # {} /\ draft # NoDraft
    BY <1>3 DEF Approved, Publishable, NoDraft
  <2>2. Enter("summarize", 1) \/ Finish("completed")
    BY <1>3 DEF Approved
  <2>3. \/ pc' = "summarize" /\ status' = None
        \/ pc' = "ended"
    BY <1>1, <2>2, EnterMoves DEF Moves, Finish
  <2>4. Drafts' /\ Publishes'
    BY <1>1, <2>1, <2>3 DEF Drafts, First, Publishes
  <2> QED  BY <1>2, <2>4 DEF AnswerInv
<1>4. CASE ~Publishable(draft)
  <2>1. UNCHANGED published /\ pc' = "ended" /\ status' = "insufficient_evidence"
    BY <1>4 DEF Approved, Finish
  <2>2. Drafts' /\ Publishes'
    BY <1>1, <2>1 DEF Drafts, First, Publishes
  <2> QED  BY <1>2, <2>2 DEF AnswerInv
<1> QED  BY <1>3, <1>4

\* Every step of the runner, of the caller and of the desk.
LEMMA RunnerKeepsAnswer ==
  ASSUME BudgetInv, AnswerInv,
         RunnerStep \/ (\E broke \in BOOLEAN : Interrupt(broke))
           \/ (\E to \in CaseStatuses : DeskUpdates(to))
  PROVE  AnswerInv'
<1> USE NoneAssumption DEF NoneAssumption
<1>1. Typed /\ Alone /\ round \in Nat
  BY DEF BudgetInv, Typed
<1>2. ASSUME NEW place \in {"select", "plan", "prepare", "search", "correct"}, Moves(place),
             pc \notin {"summarize", "ended"}, place = "correct" \/ First,
             UNCHANGED <<evidence, draft, passed, published, case>>, found \subseteq found'
      PROVE  AnswerInv'
  <2>1. pc' = place => (First' => First)
    BY <1>2 DEF First
  <2> QED  BY <1>2, <2>1, MovesQuietly
<1>3. CASE Start
  <2>1. pc = "start" /\ First /\ UNCHANGED <<found, evidence, draft, passed, published, case, round>>
    BY <1>3 DEF Start, First
  <2>2. CASE path = "loop"
    <3>1. pc' = "loop" /\ UNCHANGED status
      BY <1>3, <2>2 DEF Start
    <3>2. Quiet
      BY <2>1, <3>1 DEF Quiet
    <3> QED  BY <3>2, QuietKeeps
  <2>3. CASE path # "loop"
    <3>1. \E place \in {"plan", "select"} : Enter(place, 1)
      BY <1>3, <2>3 DEF Start
    <3>2. \E place \in {"plan", "select"} : Moves(place)
      BY <1>1, <2>1, <3>1, EnterMoves
    <3> QED  BY <1>2, <2>1, <3>2
  <2> QED  BY <2>2, <2>3
<1>4. CASE SelectTool
  <2>1. Moves("search")
    BY <1>1, <1>4, InsideMoves DEF SelectTool
  <2>2. First
    BY <1>4 DEF SelectTool, First
  <2> QED  BY <1>2, <1>4, <2>1, <2>2 DEF SelectTool
<1>5. ASSUME NEW n \in SubQueries, NEW attempts \in 1 .. 2, Decomposed(n, attempts)
      PROVE  AnswerInv'
  <2>1. Moves("prepare") /\ First
    BY <1>1, <1>5, EnterMoves DEF Decomposed, First
  <2> QED  BY <1>2, <1>5, <2>1 DEF Decomposed
<1>6. ASSUME NEW more \in 2 .. 3, Prepared(more)
      PROVE  AnswerInv'
  <2>1. \E place \in {"search", "prepare"} : Enter(place, more + 1)
    BY <1>6 DEF Prepared
  <2>2. pc = "prepare" /\ First
    BY <1>6 DEF Prepared, First
  <2>3. \E place \in {"search", "prepare"} : Moves(place)
    BY <1>1, <2>1, <2>2, EnterMoves
  <2> QED  BY <1>2, <1>6, <2>2, <2>3 DEF Prepared
<1>7. ASSUME NEW out \in SUBSET Chunks, NEW ok \in BOOLEAN, Searched(out, ok)
      PROVE  AnswerInv'
  <2>1. pc = "search" /\ First /\ UNCHANGED <<draft, passed, published, case>>
    BY <1>7 DEF Searched, First
  <2>2. CASE toSearch = 1
    <3>1. Retrieved(found \cup out, available')
      BY <1>7, <2>2 DEF Searched
    <3> QED  BY <1>1, <2>1, <3>1, RetrievedKeeps
  <2>3. CASE toSearch # 1
    <3>1. ReserveInside(1, "search") /\ found' = found \cup out /\ UNCHANGED evidence
      BY <1>7, <2>3 DEF Searched
    <3>2. Moves("search")
      BY <1>1, <2>1, <3>1, InsideMoves
    <3> QED  BY <1>2, <2>1, <3>1, <3>2
  <2> QED  BY <2>2, <2>3
<1>8. CASE FirstLoopReturns
  <2>1. pc = "loop" /\ First /\ UNCHANGED <<draft, passed, published, case>>
    BY <1>8 DEF FirstLoopReturns, First
  <2>2. CASE loop.stop = "provider-failure"
    <3>1. Finish("provider_error") /\ UNCHANGED <<found, evidence>>
      BY <1>8, <2>2 DEF FirstLoopReturns
    <3>2. Moves("search")
      BY <3>1 DEF Moves, Statuses
    <3> QED  BY <1>2, <2>1, <3>1, <3>2
  <2>3. CASE loop.stop # "provider-failure"
    <3>1. Retrieved(loop.found, loop.found # {})
      BY <1>8, <2>3 DEF FirstLoopReturns
    <3> QED  BY <1>1, <2>1, <3>1, RetrievedKeeps
  <2> QED  BY <2>2, <2>3
<1>9. CASE CorrectionLoopReturns
  <2>1. pc = "loop" /\ UNCHANGED <<draft, passed, published>>
    BY <1>9 DEF CorrectionLoopReturns
  <2>2. \/ Rebuild(loop.found) /\ UNCHANGED case
        \/ Exhausted
        \/ ReserveInside(1, "correct") /\ UNCHANGED <<found, evidence, case>>
    BY <1>9 DEF CorrectionLoopReturns
  <2>3. CASE Rebuild(loop.found) /\ UNCHANGED case
    BY <1>1, <2>1, <2>3, RebuildKeeps
  <2>4. CASE Exhausted
    BY <2>1, <2>4, ExhaustedKeeps DEF AnswerInv, Cites
  <2>5. CASE ReserveInside(1, "correct") /\ UNCHANGED <<found, evidence, case>>
    <3>1. Moves("correct")
      BY <1>1, <2>1, <2>5, InsideMoves
    <3> QED  BY <1>2, <2>1, <2>5, <3>1
  <2> QED  BY <2>2, <2>3, <2>4, <2>5
<1>10. ASSUME NEW out \in SUBSET Chunks, NEW ok \in BOOLEAN, CorrectionSearched(out, ok)
       PROVE  AnswerInv'
  <2>1. pc = "correct" /\ UNCHANGED <<draft, passed, published>>
    BY <1>10 DEF CorrectionSearched
  <2>2. CASE ~ok
    <3>1. /\ UNCHANGED <<found, evidence, case>> /\ pc' = "ended"
          /\ status' \in {"insufficient_retrieval", "provider_error"}
      BY <1>10, <2>2 DEF CorrectionSearched, FinishCiting, Finish
    <3>2. Moves("correct")
      BY <3>1 DEF Moves, Finish, Statuses
    <3> QED  BY <1>2, <2>1, <3>1, <3>2
  <2>3. CASE ok /\ out = {}
    <3>1. Exhausted
      BY <1>10, <2>3 DEF CorrectionSearched
    <3> QED  BY <2>1, <3>1, ExhaustedKeeps DEF AnswerInv, Cites
  <2>4. CASE ok /\ out # {}
    <3>1. Rebuild(out) /\ UNCHANGED case
      BY <1>10, <2>4 DEF CorrectionSearched
    <3> QED  BY <1>1, <2>1, <3>1, RebuildKeeps
  <2> QED  BY <2>2, <2>3, <2>4
<1>11. ASSUME NEW cites, Drafted(cites)
       PROVE  AnswerInv'
  BY <1>1, <1>11, DraftedKeeps
<1>12. CASE Approved
  BY <1>1, <1>12, ApprovedKeeps
<1>13. CASE Summarized
  <2>1. Quiet
    BY <1>13 DEF Summarized, Finish, Quiet, First
  <2> QED  BY <2>1, QuietKeeps
<1>14. CASE ProviderFails
  <2>1. Quiet
    BY <1>14 DEF ProviderFails, Finish, Quiet, First
  <2> QED  BY <2>1, QuietKeeps
<1>15. ASSUME NEW gap \in Gaps \cup {None}, Refused(gap)
       PROVE  AnswerInv'
  <2>1. pc = "validate" /\ UNCHANGED <<draft, passed, published>>
    BY <1>15 DEF Refused
  <2>2. CASE ~NewGap(gap)
    <3>1. Exhausted
      BY <1>15, <2>2 DEF Refused
    <3> QED  BY <2>1, <3>1, ExhaustedKeeps DEF AnswerInv, Cites
  <2>3. CASE NewGap(gap) /\ path = "loop"
    <3>1. pc' = "loop" /\ UNCHANGED <<status, found, evidence, case>> /\ round' = round + 1
      BY <1>15, <2>3 DEF Refused
    <3>2. ~First'
      BY <1>1, <3>1 DEF First
    <3>3. Quiet
      BY <2>1, <3>1, <3>2 DEF Quiet, AnswerInv, Publishes
    <3> QED  BY <3>3, QuietKeeps
  <2>4. CASE NewGap(gap) /\ path # "loop"
    <3>1. ReserveInside(1, "correct") /\ UNCHANGED <<found, evidence, case>>
      BY <1>15, <2>4 DEF Refused
    <3>2. Moves("correct")
      BY <1>1, <2>1, <3>1, InsideMoves
    <3> QED  BY <1>2, <2>1, <3>1, <3>2
  <2> QED  BY <2>2, <2>3, <2>4
<1>16. ASSUME NEW broke \in BOOLEAN, Interrupt(broke)
       PROVE  AnswerInv'
  <2>1. pc # "ended" /\ pc' = "ended" /\ status' = "cancelled"
        /\ UNCHANGED <<found, evidence, draft, passed, published, case>>
    BY <1>16 DEF Interrupt, Interruptible, Finish
  <2>2. Quiet
    BY <2>1 DEF Quiet, First
  <2> QED  BY <2>2, QuietKeeps
<1>17. ASSUME NEW to \in CaseStatuses, DeskUpdates(to)
       PROVE  AnswerInv'
  <2>1. UNCHANGED <<pc, round, found, evidence, draft, passed, status, published>> /\ case # None
    BY <1>17 DEF DeskUpdates, Transitions, CaseStatuses, runner
  <2>2. Cites' /\ Drafts' /\ Publishes' /\ HandsOff'
    BY <2>1 DEF AnswerInv, Cites, Drafts, First, Publishes, HandsOff
  <2> QED  BY <2>2 DEF AnswerInv
<1> QED  BY <1>3, <1>4, <1>5, <1>6, <1>7, <1>8, <1>9, <1>10, <1>11, <1>12, <1>13, <1>14,
            <1>15, <1>16, <1>17 DEF RunnerStep

\* What a run saves as validated turns is the draft the Critic passed, with citations the
\* run still has; a terminal answer's references can be computed, and a run handed to a
\* person published nothing.
THEOREM RunsPublishWhatWasValidated == Spec => []PublishedIsValidated
<1> DEFINE Inv == BudgetInv /\ AnswerInv
<1>1. Init => Inv
  BY RunInit
<1>2. Inv /\ [Next]_vars => Inv'
  <2> SUFFICES ASSUME Inv, [Next]_vars PROVE Inv'
    OBVIOUS
  <2>1. CASE UNCHANGED vars
    <3>1. UNCHANGED <<pc, round, found, evidence, draft, passed, status, published, case>>
      BY <2>1 DEF vars, runner, answer
    <3>2. AnswerInv'
      BY <3>1 DEF AnswerInv, Cites, Drafts, First, Publishes, HandsOff
    <3> QED  BY <2>1, <3>2, BudgetInvNext
  <2>2. CASE Next
    BY <2>2, BudgetInvNext, LoopKeepsAnswer, RunnerKeepsAnswer DEF Next
  <2> QED  BY <2>1, <2>2
<1>3. Inv => PublishedIsValidated
  BY DEF AnswerInv, Cites, Publishes, HandsOff, PublishedIsValidated
<1> QED  BY <1>1, <1>2, <1>3, PTL DEF Spec

-----------------------------------------------------------------------------
(* A stopped run.                                                          *)

\* A budget that fails aborts the run, wherever the call was refused.
Failed == failure => aborted
LEMMA FailuresAbort ==
  ASSUME Failed, Next
  PROVE  Failed'
<1>1. ASSUME NEW place, NEW k, Enter(place, k) \/ ReserveInside(k, place)
      PROVE  Failed'
  BY <1>1 DEF Enter, ReserveInside, Failed, StopsRun
<1>2. UNCHANGED budget => Failed'
  BY DEF budget, Failed
<1>3. ASSUME NEW all, NEW ok, Retrieved(all, ok)
      PROVE  Failed'
  BY <1>1, <1>2, <1>3 DEF Retrieved
<1>4. ASSUME NEW new, Rebuild(new)
      PROVE  Failed'
  BY <1>1, <1>4 DEF Rebuild
<1>5. Exhausted => Failed'
  BY <1>2 DEF Exhausted
<1>6. LoopStep => Failed'
  <2>1. LoopAsks => Failed'
    BY <1>1 DEF LoopAsks
  <2>2. LoopDies \/ LoopControllerFails \/ LoopSufficient \/ LoopSearchFails => Failed'
    BY <1>2 DEF LoopDies, LoopControllerFails, LoopSufficient, LoopSearchFails
  <2>3. \A d \in Calls : LoopDuplicate(d) \/ LoopCalls(d) => Failed'
    BY <1>1, <1>2 DEF LoopDuplicate, LoopCalls
  <2>4. \A out \in SUBSET Chunks, more \in 0 .. 1 : LoopSearched(out, more) => Failed'
    BY <1>1 DEF LoopSearched
  <2> QED  BY <2>1, <2>2, <2>3, <2>4 DEF LoopStep
<1>7. RunnerStep => Failed'
  <2>1. Start \/ SelectTool => Failed'
    BY <1>1, <1>2 DEF Start, SelectTool
  <2>2. FirstLoopReturns => Failed'
    BY <1>2, <1>3 DEF FirstLoopReturns
  <2>3. CorrectionLoopReturns => Failed'
    BY <1>1, <1>4, <1>5 DEF CorrectionLoopReturns
  <2>4. Approved \/ Summarized \/ ProviderFails => Failed'
    BY <1>1, <1>2 DEF Approved, Summarized, ProviderFails
  <2>5. \A n \in SubQueries, attempts \in 1 .. 2 : Decomposed(n, attempts) => Failed'
    BY <1>1 DEF Decomposed
  <2>6. \A more \in 2 .. 3 : Prepared(more) => Failed'
    BY <1>1 DEF Prepared
  <2>7. \A out \in SUBSET Chunks, ok \in BOOLEAN : Searched(out, ok) => Failed'
    BY <1>1, <1>3 DEF Searched
  <2>8. \A out \in SUBSET Chunks, ok \in BOOLEAN : CorrectionSearched(out, ok) => Failed'
    BY <1>2, <1>4, <1>5 DEF CorrectionSearched
  <2>9. ASSUME NEW cites, Drafted(cites)
        PROVE  Failed'
    BY <1>1, <1>2, <1>5, <2>9 DEF Drafted
  <2>10. ASSUME NEW gap, Refused(gap)
         PROVE  Failed'
    BY <1>1, <1>2, <1>5, <2>10 DEF Refused
  <2> QED  BY <2>1, <2>2, <2>3, <2>4, <2>5, <2>6, <2>7, <2>8, <2>9, <2>10 DEF RunnerStep
<1>8. \A broke \in BOOLEAN : Interrupt(broke) => Failed'
  BY DEF Interrupt, Failed
<1>9. \A to \in CaseStatuses : DeskUpdates(to) => Failed'
  BY <1>2 DEF DeskUpdates
<1> QED  BY <1>6, <1>7, <1>8, <1>9 DEF Next

\* From the moment a run is cancelled or a budget of it fails, it saves no answer and opens
\* no handoff case: a stopped run has ended, and only its orphan and the desk still move.
THEOREM StoppedRunsSaveNothing == Spec => NothingAfterStop
<1> DEFINE Quits == aborted \/ failure => /\ published' = published
                                          /\ case = None => case' = None
<1> DEFINE Inv == BudgetInv /\ Failed
<1>1. Init => Inv
  BY RunInit DEF Init, Failed
<1>2. Inv /\ [Next]_vars => Inv'
  BY BudgetInvNext, FailuresAbort DEF Failed, vars, budget
<1>3. Inv /\ [Next]_vars => [Quits]_vars
  <2> SUFFICES ASSUME Inv, Next, aborted \/ failure
               PROVE  published' = published /\ (case = None => case' = None)
    BY DEF vars, answer
  <2>1. pc = "ended"
    BY DEF BudgetInv, Alone, Failed
  <2>2. ~RunnerStep
    BY <2>1 DEF RunnerStep, Start, SelectTool, FirstLoopReturns, CorrectionLoopReturns,
       Approved, Summarized, ProviderFails, Decomposed, Prepared, Searched,
       CorrectionSearched, Drafted, Refused
  <2>3. LoopStep => UNCHANGED <<published, case>>
    BY DEF LoopStep, LoopAsks, LoopDies, LoopControllerFails, LoopSufficient,
       LoopSearchFails, LoopDuplicate, LoopCalls, LoopSearched, answer
  <2>4. \A broke \in BOOLEAN : ~Interrupt(broke)
    BY <2>1 DEF Interrupt, Interruptible
  <2>5. \A to \in CaseStatuses : DeskUpdates(to) => UNCHANGED published /\ case # None
    BY NoneAssumption DEF NoneAssumption, DeskUpdates, Transitions, CaseStatuses
  <2> QED  BY <2>2, <2>3, <2>4, <2>5 DEF Next
<1> QED  BY <1>1, <1>2, <1>3, PTL DEF Spec, NothingAfterStop

=============================================================================
