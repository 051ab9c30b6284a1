---------------------------- MODULE MCReleaseCycle ----------------------------
(* Values for checking ReleaseCycle: a required and an optional probe; in   *)
(* the first revision one part may be broken; evaluation inputs that keep   *)
(* the hard invariants or break one.                                        *)
EXTENDS ReleaseCycle

CONSTANTS r1, r2
TwoRevisions == {r1, r2}
TwoProbes == <<"oidc", "langfuse">>
OneCritical == <<"oidc">>
OptionalProbes == {"langfuse"}

GoldenCases ==
  [g1 |-> [category |-> "simple", acceptable |-> {"e1"}, sources |-> {"s1"},
           maxIterations |-> Absent, maxToolCalls |-> Absent]]
Good == [case |-> "g1", terminal |-> "completed", route |-> "simple",
         retrieved |-> {"e1"}, cited |-> {"e1"}, iterations |-> Absent,
         toolCalls |-> Absent, tools |-> Absent]
World(parts, answers) ==
  [broken |-> [r \in {r1, r2} |-> IF r = r1 THEN parts ELSE {}], input |-> answers]
SomeWorlds ==
  {World({"oidc"}, {Good}), World({"build"}, {Good}),
   World({}, {[Good EXCEPT !.cited = {}]})}
===============================================================================
