---------------------------- MODULE MCKnowledgeRun ----------------------------
(* A run and a search, one at a time: a run of KnowledgeRun finds chunks as   *)
(* it likes, Retrieval says which ones a search may find.                     *)
EXTENDS KnowledgeRun, Retrieval

VARIABLE half

\* Limits that stop a run early, in the middle of a correction, and never.
RunPaths == {"loop", "plan", "simple"}
RunLimits == {6, 10, None}
RunSubQueries == {2, 3}

\* p1 has two children; c3 belongs to a group and to another version of the same source;
\* c4 is of another tenant and its parent is missing.
Stored(kind, doc, parent, groups, tagged, n) ==
    [kind |-> kind, doc |-> doc, parent |-> parent, groups |-> groups, tagged |-> tagged,
     len |-> n, tenant |-> IF doc = "d3" THEN "B" ELSE "A"]
SmallIndex ==
    [c \in {"p1", "c1", "c2", "c3", "c4"} |->
        CASE c = "p1" -> Stored("parent", "d1", "none", {}, FALSE, 8)
          [] c = "c1" -> Stored("child", "d1", "p1", {}, TRUE, 2)
          [] c = "c2" -> Stored("child", "d1", "p1", {}, FALSE, 3)
          [] c = "c3" -> Stored("child", "d2", "none", {"g"}, TRUE, 5)
          [] c = "c4" -> Stored("child", "d3", "p4", {}, FALSE, 2)]
TwoSources == [d \in {"d1", "d2", "d3"} |-> IF d = "d3" THEN "t" ELSE "s"]
OneCaller == {[tenant |-> "A", groups |-> {"h"}]}

KnowledgeInit ==
    /\ half \in {"run", "search"}
    /\ Init /\ (half # "run" => path = "plan" /\ limit = None)
    /\ RetrievalInit /\ (half # "search" => caller = NoContext /\ live = {})

KnowledgeNext ==
    /\ UNCHANGED half
    /\ IF half = "run" THEN Next ELSE UNCHANGED vars
    /\ IF half = "search" THEN RetrievalNext ELSE UNCHANGED retrievalVars

\* The fairness is the run's, what a search promises is about states alone.
KnowledgeSpec ==
    KnowledgeInit /\ [][KnowledgeNext]_<<half, vars, retrievalVars>>
    /\ WF_vars(RunnerStep) /\ WF_vars(LoopStep)
=============================================================================
