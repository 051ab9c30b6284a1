---------------------------- MODULE SmokeProbes ----------------------------
(***************************************************************************)
(* The probes the smoke harness runs (src/src/release/ *_probe.ts). A probe *)
(* checks its fixture, may open an ingestion fixture with a database in     *)
(* memory, and then takes its scenarios one by one, each against a part of  *)
(* the program that may do well or badly. ReleaseCycle models the harness   *)
(* around them.                                                            *)
(***************************************************************************)
EXTENDS Integers, Sequences, SequencesExt, RunBudget

CONSTANT MaxContents       \* documents of the hybrid retrieval fixture (bound)

ASSUME ProbesAssumption == MaxContents \in Nat \ {0}

VARIABLES
    probe,         \* the probe that runs, or "none"
    steps,         \* its scenarios not yet finished
    flaws,         \* scenarios that did not go as the probe wants
    parse,         \* the parser process of the scenario: none, one that exits or hangs
    fixture,       \* the ingestion fixture: none, open or closed
    active,        \* the active versions of the fixture's sources
    signalled,     \* the signal of the harness is aborted
    verdict        \* none, ok, not ok, or rejected

probeVars == <<probe, steps, flaws, parse, fixture, active, signalled, verdict>>

-----------------------------------------------------------------------------
(* The scenarios of each probe.                                              *)

\* A parser probe shows the parser one good document, then one broken run of each kind.
MarkitdownModes == <<"missingRuntime", "abiFailure", "timeout", "outputQuota", "malformed",
                     "cancellation">>
MarkerModes == <<"missingRuntime", "timeout", "outputQuota", "malformed", "cancellation">>
MineruModes == <<"missingRuntime", "timeout", "outputQuota", "malformed",
                 "missingMediaReference", "cancellation">>

\* The process of these runs never exits.
HangingModes == {"timeout", "cancellation"}

ParserScript(modes) == <<"parse">> \o modes \o <<"v1", "v2">>

\* Each content has a source of its own; only some of them need become active.
HybridScript(n) == [k \in 1 .. n |-> "ingest"] \o <<"active", "answer">>

AclScript == <<"authorized", "unauthorized", "degraded", "allFailed">>

LangfuseScript == <<"export", "poll", "partialCredentials", "endpointOutage", "timeoutPoll",
                    "clientFailure", "snapshot">>

\* Each rejection case has an adapter of its own, rotation the first one.
OidcScript == <<"admitted", "rejections", "rotation", "outage">>

\* The limits on model calls, tokens and cost, and usage nobody reported.
BudgetScript == <<"modelCalls", "tokens", "cost", "unknownUsage">>

Scripts ==
    {[probe |-> "markitdown", steps |-> ParserScript(MarkitdownModes)],
     [probe |-> "marker", steps |-> ParserScript(MarkerModes)],
     [probe |-> "mineru", steps |-> ParserScript(MineruModes)],
     [probe |-> "acl", steps |-> AclScript],
     [probe |-> "langfuse", steps |-> LangfuseScript],
     [probe |-> "oidc", steps |-> OidcScript],
     [probe |-> "budget", steps |-> BudgetScript],
     [probe |-> "cancel", steps |-> <<"observed">>]}
    \cup {[probe |-> "hybrid", steps |-> HybridScript(n)] : n \in 1 .. MaxContents}

ParserProbes == {"markitdown", "marker", "mineru"}
FixtureProbes == ParserProbes \cup {"hybrid"}
AnswerSteps == {"answer"} \cup ToSet(AclScript)
ParserSteps == {"parse"} \cup ToSet(MarkitdownModes) \cup ToSet(MineruModes)
IsParse == steps # << >> /\ probe \in ParserProbes /\ Head(steps) \in ParserSteps

-----------------------------------------------------------------------------
(* What the scenarios find wrong: the possible outcomes, TRUE for a flaw.    *)

\* A chunk per channel of a document for all and one for group a, of each of two tenants.
AclChunks ==
    {[tenant |-> d[1], groups |-> d[2], channel |-> ch] :
        d \in {<<"own", {}>>, <<"own", {"a"}>>, <<"other", {}>>, <<"other", {"b"}>>},
        ch \in {"vector", "bm25", "graph", "pageIndex"}}

\* The access probe has its own idea of who sees what.
AclVisible(chunk, groups) ==
    /\ chunk.tenant = "own"
    /\ groups = {} \/ chunk.groups = {} \/ groups \cap chunk.groups # {}

AclServed(groups, failed) == {c \in AclChunks : AclVisible(c, groups) /\ c.channel \notin failed}

\* It looks at the lists it filtered, and at answers only when channels failed.
AclFlaws(step) ==
    LET leaks(groups) == \E c \in AclServed(groups, {}) : c.tenant # "own"
    IN  CASE step = "authorized" -> {leaks({"a"})}
          [] step = "unauthorized" ->
                {leaks({"b"}) \/ \E c \in AclServed({"b"}, {}) : c.groups # {}}
          [] step = "degraded" ->
                IF \E c \in AclServed({"a"}, {"graph"}) : c.tenant # "own" THEN {TRUE} ELSE BOOLEAN
          [] step = "allFailed" -> BOOLEAN

\* The hybrid probe finds every channel in results it made from the documents.
HybridFlaws == BOOLEAN

\* What the clients of the trace probe do: fetch the trace, never find it, or throw.
Client(step) ==
    CASE step = "endpointOutage" -> [fetch |-> "throws", trace |-> "ok"]
      [] step = "timeoutPoll" -> [fetch |-> "nothing", trace |-> "ok"]
      [] step = "clientFailure" -> [fetch |-> "ok", trace |-> "throws"]
      [] OTHER -> [fetch |-> "ok", trace |-> "ok"]

\* fetchTrace() of the recording client, when the exporter may have recorded the trace.
FetchTrace(client) ==
    IF client.fetch = "ok" /\ client.trace = "ok" THEN {"snapshot", "nothing"}
    ELSE {IF client.fetch = "throws" THEN "throws" ELSE "nothing"}

\* A broken client passes when the exporter gets over it. Only the exporter can fail the
\* first scenarios: it may throw, lose the trace, or leave a part out of it.
LangfuseFlaws(step) ==
    CASE step \in {"export", "partialCredentials", "clientFailure", "snapshot"} -> BOOLEAN
      [] step = "poll" -> {found # "snapshot" : found \in FetchTrace(Client(step))}
      [] step = "endpointOutage" -> {found # "throws" : found \in FetchTrace(Client(step))}
      [] step = "timeoutPoll" -> {found = "snapshot" : found \in FetchTrace(Client(step))}

\* A token is admitted or not, and the fixture says which is wanted; with an endpoint
\* where nobody listens no key is found.
OidcFlaws(step) ==
    {admitted # wanted : admitted \in IF step = "outage" THEN {FALSE} ELSE BOOLEAN,
                         wanted \in IF step = "admitted" THEN {TRUE} ELSE BOOLEAN}

\* Two calls fit, the third does not; 110 tokens of 100; a cost of 200 of 100; no usage
\* although tokens are limited.
BudgetThrows(step) ==
    LET run(calls, tokens, cost) ==
            FreshLedger([calls |-> calls, tokens |-> tokens, cost |-> cost, priced |-> cost # None])
        once(l) == ReserveModelCall(l).ledger
    IN  CASE step = "modelCalls" -> ReserveModelCall(once(once(run(2, None, None)))).threw
          [] step = "tokens" ->
                RecordModelUsage(once(run(None, 100, None)), 1, Usage(110, None)).threw
          [] step = "cost" ->
                RecordModelUsage(once(run(None, None, 100)), 1, Usage(20, 200)).threw
          [] step = "unknownUsage" ->
                RecordModelUsage(once(run(None, 100, None)), 1, NoUsage).threw

-----------------------------------------------------------------------------
ProbeTypeOK ==
    /\ probe \in {"none"} \cup {s.probe : s \in Scripts}
    /\ \E s \in Scripts : IsSuffix(steps, <<"begin">> \o s.steps)
    /\ flaws \subseteq UNION {ToSet(s.steps) : s \in Scripts}
    /\ parse \in {"none", "exits", "hangs"} /\ (parse # "none" => IsParse)
    /\ fixture \in {"none", "open", "closed"}
    /\ active \subseteq Nat
    /\ signalled \in BOOLEAN
    /\ verdict \in {"none", "ok", "not ok", "rejected"}

ProbeInit ==
    /\ \/ probe = "none" /\ steps = << >>
       \/ \E s \in Scripts : probe = s.probe /\ steps = <<"begin">> \o s.steps
    /\ flaws = {}
    /\ parse = "none"
    /\ fixture = "none"
    /\ active = {}
    /\ signalled = FALSE
    /\ verdict = "none"

-----------------------------------------------------------------------------
Doing(names) == steps # << >> /\ Head(steps) \in names

\* cleanup(), in the finally block of a probe that opened an ingestion fixture.
Cleanup == fixture' = IF fixture = "open" THEN "closed" ELSE fixture

Finish(v) ==
    /\ verdict' = v
    /\ steps' = << >>
    /\ Cleanup

\* A flaw in one of these ends the probe at once.
FatalSteps == {"parse", "active", "export"}

\* Mutation: the early return is outside the try block.
ScenarioEndsEarly(flawed) ==
    /\ flaws' = IF flawed THEN flaws \cup {Head(steps)} ELSE flaws
    /\ steps' = IF flawed /\ Doing(FatalSteps) THEN << >> ELSE Tail(steps)
    /\ verdict' = IF flawed /\ Doing(FatalSteps) THEN "not ok" ELSE "none"
    /\ UNCHANGED <<probe, fixture, signalled>>

\* A scenario is over; the next one follows whether or not it went well.
ScenarioEnds(flawed) ==
    /\ flaws' = IF flawed THEN flaws \cup {Head(steps)} ELSE flaws
    /\ IF flawed /\ Doing(FatalSteps)
       THEN Finish("not ok")
       ELSE steps' = Tail(steps) /\ UNCHANGED <<fixture, verdict>>
    /\ UNCHANGED <<probe, signalled>>

-----------------------------------------------------------------------------
\* Missing fields of the fixture end these at once.
NeedsFixture == FixtureProbes \cup {"acl", "langfuse", "oidc"}

\* A revision too short for a tenant id throws outside of their try blocks.
DerivesTenant == {"hybrid", "acl"}

\* They do not start with an aborted signal.
LooksAtSignal == ParserProbes \cup {"langfuse"}

BeginProbe ==
    /\ Doing({"begin"})
    /\ \/ probe \in NeedsFixture /\ Finish("not ok")
       \/ probe \in DerivesTenant /\ Finish("rejected")
       \/ /\ ~(signalled /\ probe \in LooksAtSignal)
          /\ steps' = Tail(steps)
          /\ fixture' = IF probe \in FixtureProbes THEN "open" ELSE "none"
          /\ UNCHANGED verdict
    /\ UNCHANGED <<probe, flaws, parse, active, signalled>>

\* parser.parse() starts the process of the scenario.
StartParse ==
    /\ IsParse /\ parse = "none"
    /\ parse' = IF Doing(HangingModes) THEN "hangs" ELSE "exits"
    /\ UNCHANGED <<probe, steps, flaws, fixture, active, signalled, verdict>>

\* The process exits: the parser takes its output or throws. A broken run passes when
\* the parser throws, whatever it throws; no executable is always an error.
ParseExits ==
    /\ parse = "exits"
    /\ \E flawed \in BOOLEAN :
        /\ Doing({"missingRuntime"}) => ~flawed
        /\ ScenarioEnds(flawed)
    /\ parse' = "none"
    /\ UNCHANGED active

\* What can stop the parser: its time limit; the controller of the cancellation
\* scenario; the signal of the harness, but only for the good document.
Stops ==
    {"timeoutMs"}
    \cup (IF Doing({"cancellation"}) THEN {"controller"} ELSE {})
    \cup (IF Doing({"parse"}) /\ signalled THEN {"signal"} ELSE {})

StopParse ==
    /\ parse # "none"
    /\ Stops # {}
    /\ ScenarioEnds(Doing({"parse"}))
    /\ parse' = "none"
    /\ UNCHANGED active

\* What the lifecycle may make of a version, and which outcome the probe wants: the
\* first one active, and still so after the second one, whose stages fail.
AfterVersion(v) == {active, {v}}
VersionsKept(failed) == failed /\ active' = {1}

IngestVersion ==
    /\ \/ Doing({"v1"}) /\ active' \in AfterVersion(1) /\ ScenarioEnds(FALSE)
       \/ /\ Doing({"v2"})
          /\ active' \in AfterVersion(2)
          /\ \E failed \in BOOLEAN : ScenarioEnds(~VersionsKept(failed))
    /\ UNCHANGED parse

\* evidence() of the fixture: one active version is enough.
HasActive == active # {}

\* The hybrid probe does not look at what runNext returned.
IngestContent ==
    /\ \/ /\ Doing({"ingest"})
          /\ active' \in {active, active \cup {Len(steps)}}
          /\ ScenarioEnds(FALSE)
       \/ /\ Doing({"active"})
          /\ ScenarioEnds(~HasActive)
          /\ UNCHANGED active
    /\ UNCHANGED parse

\* The knowledge runner over a searcher, a draft and a validator of the probe.
AnswerQuestion ==
    /\ Doing(AnswerSteps)
    /\ \E flawed \in IF probe = "acl" THEN AclFlaws(Head(steps)) ELSE HybridFlaws :
        ScenarioEnds(flawed)
    /\ UNCHANGED <<parse, active>>

\* An aborted runner throws.
AnswerThrows ==
    /\ Doing(AnswerSteps) /\ signalled
    /\ Finish("rejected")
    /\ UNCHANGED <<probe, flaws, parse, active, signalled>>

\* The trace exporter over a recording client: the trace is polled for a bounded time,
\* and each broken client is tried even if there is none.
ExportTrace ==
    /\ Doing(ToSet(LangfuseScript))
    /\ \E flawed \in LangfuseFlaws(Head(steps)) : ScenarioEnds(flawed)
    /\ UNCHANGED <<parse, active>>

\* resolve() never throws.
ResolveIdentity ==
    /\ Doing(ToSet(OidcScript))
    /\ \E flawed \in OidcFlaws(Head(steps)) : ScenarioEnds(flawed)
    /\ UNCHANGED <<parse, active>>

\* Each limit has a run context of its own; the limit must throw and abort that run.
ExhaustBudget ==
    /\ Doing(ToSet(BudgetScript))
    /\ ScenarioEnds(~BudgetThrows(Head(steps)))
    /\ UNCHANGED <<parse, active>>

\* The work looks at the signal a bounded number of times and ends once.
ObserveAbort ==
    /\ Doing({"observed"})
    /\ \E flawed \in BOOLEAN : ScenarioEnds(flawed)
    /\ UNCHANGED <<parse, active>>

GiveVerdict ==
    /\ probe # "none" /\ steps = << >> /\ verdict = "none"
    /\ Finish(IF flaws = {} THEN "ok" ELSE "not ok")
    /\ UNCHANGED <<probe, flaws, parse, active, signalled>>

\* The deadline of the harness, or the one who called it.
AbortProbe ==
    /\ probe # "none" /\ verdict = "none" /\ ~signalled
    /\ signalled' = TRUE
    /\ UNCHANGED <<probe, steps, flaws, parse, fixture, active, verdict>>

ProbeStep ==
    \/ BeginProbe \/ StartParse \/ IngestVersion \/ IngestContent \/ AnswerQuestion \/ AnswerThrows
    \/ ExportTrace \/ ResolveIdentity \/ ExhaustBudget \/ ObserveAbort \/ GiveVerdict

ProbeNext == ProbeStep \/ ParseExits \/ StopParse \/ AbortProbe

\* A process need not exit; timers fire and the rest is bounded.
ProbeFairness == WF_probeVars(ProbeStep) /\ WF_probeVars(StopParse)

-----------------------------------------------------------------------------
(* Property. *)

\* Every probe gives a verdict and leaves no ingestion fixture open, whatever fails,
\* hangs or is aborted on the way; it is ok only if the broken second version left the
\* first one active (the time limits and finally blocks of the probes, which the
\* harness waits for).
ProbesEnd ==
    (probe # "none") ~>
        /\ verdict # "none" /\ fixture # "open"
        /\ verdict = "ok" /\ probe \in ParserProbes => active = {1}
=============================================================================
