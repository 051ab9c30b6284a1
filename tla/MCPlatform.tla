----------------------------- MODULE MCPlatform -----------------------------
(* The parts that surround the queue and the answers, one at a time: they    *)
(* share no state, so a run explores the sum of their states.               *)
EXTENDS ServerLife, BrowserChat, ImportCenter, DocumentBuild, Chunker, UrlFetch,
        SmokeProbes, RunBudget, TraceView

CONSTANTS q1, q2, t1, t2

VARIABLE part

TwoRequests == {q1, q2}
TwoThreads == {t1, t2}
TwoAttempts == {1, 2}
TwoOutputs == {[chunks |-> {1, 2}, images |-> {2}, repeats |-> FALSE],
               [chunks |-> {1, 3}, images |-> {}, repeats |-> TRUE]}

TextBlock(n, ends, section, differs) ==
    [kind |-> "text", len |-> n, cuts |-> ends, path |-> section, unlike |-> differs]
ImageBlock(n, section) == [TextBlock(n, {}, section, FALSE) EXCEPT !.kind = "image"]
SomeBlocks ==
    {TextBlock(1, {}, p, u) : p \in 1 .. 2, u \in BOOLEAN}
    \cup {TextBlock(4, {}, 1, FALSE), TextBlock(8, {}, 1, FALSE), TextBlock(9, {}, 1, FALSE),
          TextBlock(9, {3, 6}, 1, TRUE), TextBlock(9, {6}, 1, FALSE)}
    \cup {ImageBlock(1, 1), ImageBlock(1, 2), ImageBlock(4, 1)}

Budget(n, t, m, estimate) == [calls |-> n, tokens |-> t, cost |-> m, priced |-> estimate]
SomeBudgets == {Budget(1, None, None, FALSE), Budget(None, 3, None, FALSE),
                Budget(2, None, 2, TRUE), Budget(None, None, None, TRUE)}
SomeUsages == {Usage(2, 1), Usage(2, None)}

TwoReports == {{}, {"retrieval", "validation"}}

\* A part that does not run stays in one state.
Init ==
    /\ part \in {"server", "browser", "import", "build", "chunk", "fetch", "probe",
                 "budget", "view"}
    /\ ServerInit /\ BrowserInit /\ ImportInit /\ FetchInit
    /\ BuildInit /\ (part # "build" => parser = "none")
    /\ ChunkerInit /\ (part # "chunk" => blocks = << >>)
    /\ ProbeInit /\ (part = "probe" <=> probe # "none")
    /\ BudgetInit /\ (part # "budget" => ledger.limits = Budget(1, None, None, FALSE))
    /\ TraceViewInit /\ (part # "view" => script = <<"done">>)

platformVars == <<part, serverVars, browserVars, importVars, buildVars, chunkerVars, fetchVars,
                  probeVars, budgetVars, viewVars>>

Next ==
    /\ UNCHANGED <<part, chunkerVars>>
    /\ IF part = "server" THEN ServerNext ELSE UNCHANGED serverVars
    /\ IF part = "browser" THEN BrowserNext ELSE UNCHANGED browserVars
    /\ IF part = "import" THEN ImportNext ELSE UNCHANGED importVars
    /\ IF part = "build" THEN BuildNext ELSE UNCHANGED buildVars
    /\ IF part = "fetch" THEN FetchNext ELSE UNCHANGED fetchVars
    /\ IF part = "probe" THEN ProbeNext ELSE UNCHANGED probeVars
    /\ IF part = "budget" THEN BudgetNext ELSE UNCHANGED budgetVars
    /\ IF part = "view" THEN TraceViewNext ELSE UNCHANGED viewVars

Spec == Init /\ [][Next]_platformVars
    /\ ServerFairness /\ ImportFairness /\ FetchFairness /\ ProbeFairness

\* The states of every part have the shapes their modules give them.
PlatformTypeOK ==
    /\ ServerTypeOK /\ BrowserTypeOK /\ ImportTypeOK /\ BuildTypeOK /\ ChunkerTypeOK
    /\ FetchTypeOK /\ ProbeTypeOK /\ BudgetTypeOK
    /\ TraceViewTypeOK
=============================================================================
