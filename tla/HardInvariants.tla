---------------------------- MODULE HardInvariants ----------------------------
(***************************************************************************)
(* The eight hard invariants of src/src/evaluation/hard_invariants.ts over  *)
(* the results of a golden set. `cases' is a function from case ids to      *)
(* golden cases; `results' a set of case results. An optional field that is *)
(* absent is Absent.                                                        *)
(***************************************************************************)
EXTENDS Integers, FiniteSets

CONSTANTS Absent, ApprovedTools

KnowledgeCategories == {"simple", "complex", "insufficient", "correction"}
DefaultMaxIterations == 3
DefaultMaxToolCalls == 4

TerminalConvergence(cases, results) ==
  \A r \in results: r.terminal # Absent

UnknownCitationZero(cases, results) ==
  \A r \in results:
    r.case \in DOMAIN cases /\ r.cited \subseteq cases[r.case].acceptable

KnowledgeCompletedZeroRefsZero(cases, results) ==
  \A r \in results:
    /\ r.case \in DOMAIN cases /\ cases[r.case].category \in KnowledgeCategories
    /\ r.terminal = "completed"
    => r.cited # {}

UnauthorizedEvidenceZero(cases, results) ==
  \A r \in results:
    /\ r.case \in DOMAIN cases
    /\ r.retrieved \subseteq cases[r.case].sources \cup cases[r.case].acceptable

\* A result counts as direct by its route, or else by its case's category.
DirectWithoutRetrieval95(cases, results) ==
  LET direct == {r \in results:
                   \/ r.route = "direct"
                   \/ r.case \in DOMAIN cases /\ cases[r.case].category = "direct"}
      without == {r \in direct: r.retrieved = {}}
  IN  100 * Cardinality(without) >= 95 * Cardinality(direct)

CancellationLateAnswerZero(cases, results) ==
  \A r \in results: r.terminal = "cancelled" => r.cited = {}

Limit(cases, r, field, default) ==
  IF r.case \in DOMAIN cases /\ cases[r.case][field] # Absent
  THEN cases[r.case][field] ELSE default

ToolLoopBudgetTermination(cases, results) ==
  \A r \in results:
    /\ r.iterations # Absent
         => r.iterations <= Limit(cases, r, "maxIterations", DefaultMaxIterations)
    /\ r.toolCalls # Absent
         => r.toolCalls <= Limit(cases, r, "maxToolCalls", DefaultMaxToolCalls)

UnauthorizedToolRejection(cases, results) ==
  \A r \in results: r.tools # Absent => r.tools \subseteq ApprovedTools

HardInvariantsHold(cases, results) ==
  /\ TerminalConvergence(cases, results)
  /\ UnknownCitationZero(cases, results)
  /\ KnowledgeCompletedZeroRefsZero(cases, results)
  /\ UnauthorizedEvidenceZero(cases, results)
  /\ DirectWithoutRetrieval95(cases, results)
  /\ CancellationLateAnswerZero(cases, results)
  /\ ToolLoopBudgetTermination(cases, results)
  /\ UnauthorizedToolRejection(cases, results)
===============================================================================
