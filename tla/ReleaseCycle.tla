----------------------------- MODULE ReleaseCycle -----------------------------
(***************************************************************************)
(* From a working tree to a server in default mode: the acceptance programs *)
(* of src/src/release (production, limited-mode and default-mode            *)
(* acceptance, the release runner alone), the files they leave behind, and  *)
(* the start-up gate of src/src/mastra/promotion_gate.ts that reads one of  *)
(* those files much later.                                                  *)
(*                                                                         *)
(* One program runs at a time (`session'); it awaits probes and gates one   *)
(* after the other and is atomic between two awaits. Meanwhile a developer  *)
(* may edit the working tree. A revision may have a broken part; a clean    *)
(* tree shows it, an edited tree may hide it. A probe or a gate may always  *)
(* fail for a reason of its own; it passes only what the tree shows.        *)
(*                                                                         *)
(* Data: a probe result is its status, an artifact is the sections its hash *)
(* covers, and a hash is the sections it was computed from. The three       *)
(* subprocess gates and the schema check are the one gate "build".          *)
(***************************************************************************)
EXTENDS HardInvariants, Sequences, SequencesExt

CONSTANTS
  Revisions,
  Registry,    \* PROBE_REGISTRY: the probes of production acceptance, in order
  Critical,    \* CRITICAL_PROBE_REGISTRY
  Optional,    \* probes that production does not require
  Cases,       \* the golden cases
  Worlds,      \* what is broken in each revision, and the evaluation input
  None

ASSUME ReleaseAssumption ==
  /\ Registry \in Seq(STRING)
  /\ ToSet(Critical) \subseteq ToSet(Registry) \ Optional
  /\ None \notin Revisions \cup BOOLEAN

VARIABLES
  tree, broken, input,             \* the working tree; its revisions; the file
  session, pc, i,                  \* the program, where it is, probe or gate
  running, stopped, aborted,       \* the probe: implementation, its signal; the caller's signal
  results, probesOk, rollback, answered, failed, invariants,  \* what the program has found so far
  candidate,                       \* the acceptance server is listening
  report,                          \* of the last program
  disk,                            \* smoke-production.json, release-production.json
  prod                             \* the production server

found == <<results, probesOk, rollback, answered, failed, invariants>>
program == <<session, pc, i, running, stopped, aborted, found, candidate>>
world == <<tree, broken, input>>
vars == <<world, program, report, disk, prod>>

Kinds == {"production", "limited", "default", "verify-local", "verify-production"}
Statuses == {"passed", "failed", "timeout", "missing", "skipped"}
Probes == IF session.kind = "production" THEN Registry ELSE Critical
Profile == IF session.kind = "verify-local" THEN "local" ELSE "production"
Gates == IF Profile = "local" THEN <<"build", "hard_invariants">>
         ELSE <<"build", "hard_invariants", "clean_worktree", "smoke_evidence">>
InvariantStatuses == {"passed", "failed", "blocked"}

Body == [profile: {"local", "production"}, revision: Revisions,
         failed: BOOLEAN,
         invariants: InvariantStatuses, smoke: BOOLEAN, dirty: BOOLEAN,
         rollback: BOOLEAN \cup {None}]
Artifact == [body: Body, hash: Body]
NoReport == [ok |-> FALSE, artifact |-> None]

\* The shapes of the variables; only the steps of a session know a candidate server.
ReleaseTypeOK ==
  /\ tree \in [at: Revisions, dirty: BOOLEAN]
  /\ session \in [kind: Kinds, revision: Revisions] \cup {None}
  /\ (session = None) = (pc = "idle")
  /\ pc \in {"idle", "start", "health", "probe", "rollback", "gate", "answer", "shutdown"}
  /\ results \in Seq(Statuses) /\ Len(results) <= Len(Registry)
  /\ (running => pc = "probe") /\ stopped \in BOOLEAN /\ aborted \in BOOLEAN
  /\ answered \in BOOLEAN /\ probesOk \in BOOLEAN \cup {None} /\ rollback \in BOOLEAN \cup {None}
  /\ failed \in BOOLEAN /\ invariants \in InvariantStatuses
  /\ candidate => pc \in {"health", "probe", "answer", "shutdown"}
  /\ report.artifact \in Artifact \cup {None}
  /\ disk.smoke \in [revision: Revisions, passed: BOOLEAN] \cup {None}
  /\ disk.release \in Artifact \cup {None}
  /\ prod.mode \in {"off", "limited", "default"}

Init ==
  /\ tree \in [at: Revisions, dirty: {FALSE}]
  /\ \E w \in Worlds: broken = w.broken /\ input = w.input
  /\ session = None /\ pc = "idle" /\ i = 1
  /\ running = FALSE /\ stopped = FALSE /\ aborted = FALSE
  /\ results = <<>> /\ probesOk = None /\ rollback = None /\ answered = FALSE
  /\ failed = FALSE /\ invariants = "passed"
  /\ candidate = FALSE /\ report = NoReport
  /\ disk = [smoke |-> None, release |-> None]
  /\ prod = [mode |-> "off", artifact |-> None]

\* A part passes on a clean tree only if it is not broken in its revision.
CanPass(part) == tree.dirty \/ part \notin broken[tree.at]

-----------------------------------------------------------------------------
(* The developer and the tree. Editing may fall anywhere; other revisions   *)
(* are checked out, and edits discarded, only between two programs.         *)

Edit ==
  /\ ~tree.dirty
  /\ tree' = [tree EXCEPT !.dirty = TRUE]
  /\ UNCHANGED <<broken, input, program, report, disk, prod>>

Checkout(r) ==
  /\ pc = "idle"
  /\ tree' = [at |-> r, dirty |-> FALSE]
  /\ UNCHANGED <<broken, input, program, report, disk, prod>>

-----------------------------------------------------------------------------
(* Starting and ending a program. The locals start afresh; the files stay.  *)
(* That the production server is off meanwhile is a bound: it shares only   *)
(* the file with the programs, and reads that once.                         *)

Enter(kind) ==
  CASE kind = "production" -> "probe"
    [] kind \in {"limited", "default"} -> "start"
    [] OTHER -> "gate"

\* runDefaultModePromotionAcceptance's validateV2Artifact, on the artifact
\* the caller read from the file.
Overall(body) == ~body.failed
V2Valid(a, revision) ==
  /\ a # None
  /\ a.body.revision = revision /\ a.body.profile = "production"
  /\ a.hash = a.body
  /\ Overall(a.body)

Begin(kind) ==
  /\ pc = "idle" /\ prod.mode = "off"
  /\ kind = "default" => V2Valid(disk.release, tree.at)
  /\ session' = [kind |-> kind, revision |-> tree.at]
  /\ pc' = Enter(kind) /\ i' = 1
  /\ running' = FALSE /\ stopped' = FALSE /\ aborted' = FALSE
  /\ results' = <<>> /\ probesOk' = None /\ rollback' = None /\ answered' = FALSE
  /\ failed' = FALSE /\ invariants' = "passed"
  /\ report' = NoReport
  /\ UNCHANGED <<world, candidate, disk, prod>>

\* The caller's signal is aborted already, or the artifact is rejected.
RefusedAtOnce ==
  /\ pc = "idle"
  /\ report' = NoReport
  /\ UNCHANGED <<world, program, disk, prod>>

\* buildReport: the program is over.
End(ok, artifact) ==
  /\ pc' = "idle" /\ session' = None /\ i' = 1 /\ aborted' = FALSE /\ stopped' = FALSE
  /\ results' = <<>> /\ probesOk' = None /\ rollback' = None /\ answered' = FALSE
  /\ failed' = FALSE /\ invariants' = "passed"
  /\ report' = [ok |-> ok, artifact |-> artifact]
  /\ UNCHANGED running

-----------------------------------------------------------------------------
(* runAllProbes: one probe after the other, whatever became of the last.    *)

Record(status) ==
  /\ results' = Append(results, status) /\ i' = i + 1
  /\ UNCHANGED <<world, session, pc, aborted, probesOk, rollback, answered, failed, invariants,
                 candidate, report, disk, prod>>

\* No implementation, a missing prerequisite, or the caller's signal.
ProbeNotRun ==
  /\ pc = "probe" /\ i <= Len(Probes) /\ ~running
  /\ \/ Record(IF Probes[i] \in Optional THEN "skipped" ELSE "missing")
     \/ aborted /\ Record("skipped")
  /\ UNCHANGED <<running, stopped>>

ProbeStarts ==
  /\ pc = "probe" /\ i <= Len(Probes) /\ ~running /\ ~aborted
  /\ running' = TRUE /\ stopped' = FALSE
  /\ UNCHANGED <<world, session, pc, i, aborted, found, candidate, report, disk, prod>>

\* The timer and the caller only abort the implementation's signal.
\* Mutation: the timer is never set.
NoDeadline == FALSE
Deadline == running /\ ~stopped
ProbeTimer ==
  /\ Deadline
  /\ stopped' = TRUE
  /\ UNCHANGED <<world, session, pc, i, running, aborted, found, candidate, report, disk, prod>>

Abort ==
  /\ pc # "idle" /\ ~aborted
  /\ session.kind \in {"production", "limited", "default"}
  /\ aborted' = TRUE /\ stopped' = (stopped \/ running)
  /\ UNCHANGED <<world, session, pc, i, running, found, candidate, report, disk, prod>>

ProbeReturns ==
  /\ running /\ running' = FALSE /\ stopped' = FALSE
  /\ \/ CanPass(Probes[i]) /\ Record("passed")
     \/ Record("failed")

\* An implementation that heeds its signal throws an AbortError.
ProbeAborts ==
  /\ running /\ stopped /\ running' = FALSE /\ stopped' = FALSE
  /\ Record("timeout")

\* computeOverallPassed, production profile.
\* Mutation: only a failure counts, also for a required probe.
PassedUnlessFailed(statuses) ==
  \A k \in DOMAIN statuses: statuses[k] \notin {"failed", "timeout"}
ComputeOverallPassed(statuses) ==
  \A k \in DOMAIN statuses:
    IF Probes[k] \in Optional THEN statuses[k] \notin {"failed", "timeout"}
    ELSE statuses[k] = "passed"

\* writeSmokeEvidence; when the write throws, an older file stays.
SmokeDone ==
  /\ pc = "probe" /\ i > Len(Probes) /\ session.kind = "production"
  /\ probesOk' = ComputeOverallPassed(results)
  /\ \E evidence \in {disk.smoke, [revision |-> session.revision, passed |-> probesOk']}:
       disk' = [disk EXCEPT !.smoke = evidence]
  /\ pc' = "rollback" /\ i' = 1 /\ results' = <<>>
  /\ UNCHANGED <<world, session, running, stopped, aborted, rollback, answered, failed, invariants,
                 candidate, report, prod>>

-----------------------------------------------------------------------------
(* Rollback verification starts, asks and closes a server of its own.       *)

VerifyRollback(verified) ==
  /\ pc = "rollback"
  /\ rollback' = verified /\ pc' = "gate"
  /\ UNCHANGED <<world, session, i, running, stopped, aborted, results, probesOk, answered, failed,
                 invariants, candidate, report, disk, prod>>

-----------------------------------------------------------------------------
(* runReleaseVerification: every gate runs, whatever became of the last.    *)

\* makeSmokeEvidenceGate: a file of this revision, of whichever run.
SmokeRead == disk.smoke # None /\ disk.smoke.revision = session.revision

GateCanPass(gate) ==
  CASE gate = "build" -> CanPass("build")
    [] gate = "hard_invariants" -> Profile = "local" \/ HardInvariantsHold(Cases, input)
    [] gate = "clean_worktree" -> ~tree.dirty
    [] gate = "smoke_evidence" -> SmokeRead /\ disk.smoke.passed

\* A subprocess may also time out, fail to start or exit with an error (git
\* may too, with no more effect than an edited tree); the evaluation input
\* may be missing, which production counts as malformed and local as blocked.
MayFail(gate) ==
  \/ gate = "build"
  \/ gate = "hard_invariants" /\ Profile = "production"
  \/ ~GateCanPass(gate)

\* With deriveHardInvariantStatus.
RunGate ==
  /\ pc = "gate" /\ i <= Len(Gates)
  /\ \E passed \in BOOLEAN:
       /\ IF passed THEN GateCanPass(Gates[i]) ELSE MayFail(Gates[i])
       /\ failed' = (failed \/ ~passed)
       /\ invariants' = IF Gates[i] # "hard_invariants" THEN invariants
                        ELSE IF ~passed THEN "failed"
                        ELSE IF Profile = "local" THEN "blocked" ELSE "passed"
  /\ i' = i + 1
  /\ UNCHANGED <<world, session, pc, running, stopped, aborted, results, probesOk, rollback,
                 answered, candidate, report, disk, prod>>

\* The tree is looked at after the gates.
Assembled ==
  [profile |-> Profile, revision |-> session.revision, failed |-> failed,
   invariants |-> invariants, smoke |-> Profile = "production" /\ SmokeRead,
   dirty |-> tree.dirty, rollback |-> None]
\* computeEvidenceHash is called before rollback evidence is put in.
Hashed(body) == [body |-> body, hash |-> body]
WithRollback(a) == [a EXCEPT !.body.rollback = rollback]

\* checkPromotion with validateArtifactSchema.
CheckPromotion(a, revision) ==
  /\ a.hash = a.body
  /\ a.body.profile = "production" /\ a.body.revision = revision
  /\ ~a.body.dirty /\ ~a.body.failed /\ a.body.invariants = "passed"
  /\ a.body.smoke /\ a.body.rollback = TRUE

\* From the last gate to the report nothing is awaited. Each of the two
\* writes of the artifact may throw; the report holds the artifact in memory.
Accepted(a) == probesOk /\ rollback /\ Overall(a.body)
AcceptanceEnds ==
  /\ pc = "gate" /\ i > Len(Gates) /\ session.kind = "production"
  /\ LET first == Hashed(Assembled)
         final == WithRollback(first)
     IN  \/ /\ \E written \in {first, final}: disk' = [disk EXCEPT !.release = written]
            /\ End(Accepted(final) /\ CheckPromotion(final, session.revision),
                   IF Accepted(final) THEN final ELSE None)
         \/ disk' = disk /\ End(FALSE, None)
  /\ UNCHANGED <<world, candidate, prod>>

\* The release runner alone: release:verify:local, release:verify:production.
RunnerEnds ==
  /\ pc = "gate" /\ i > Len(Gates) /\ session.kind \in {"verify-local", "verify-production"}
  /\ LET a == Hashed(Assembled)
     IN  disk' = [disk EXCEPT !.release = a] /\ End(Overall(a.body), None)
  /\ UNCHANGED <<world, candidate, prod>>

-----------------------------------------------------------------------------
(* Limited-mode and default-mode acceptance: a server of their own, then    *)
(* the critical probes, and in default mode one answer.                     *)

StartCandidate ==
  /\ pc = "start"
  /\ \/ candidate' = TRUE /\ pc' = "health"
        /\ UNCHANGED <<session, i, running, stopped, aborted, found, report>>
     \/ candidate' = FALSE /\ End(FALSE, None)
  /\ UNCHANGED <<world, disk, prod>>

\* The fetch has a timer of its own.
HealthCheck(ok) ==
  /\ pc = "health"
  /\ pc' = IF ok THEN "probe" ELSE "shutdown"
  /\ probesOk' = IF ok THEN None ELSE FALSE
  /\ UNCHANGED <<world, session, i, running, stopped, aborted, results, rollback, answered,
                 failed, invariants, candidate, report, disk, prod>>

\* When the evidence cannot be written, the results are not kept.
CriticalDone(written) ==
  /\ pc = "probe" /\ i > Len(Probes) /\ session.kind \in {"limited", "default"}
  /\ probesOk' = (written /\ \A k \in DOMAIN results: results[k] = "passed")
  /\ pc' = IF session.kind = "default" /\ probesOk' THEN "answer" ELSE "shutdown"
  /\ results' = <<>> /\ i' = 1
  /\ UNCHANGED <<world, session, running, stopped, aborted, rollback, answered, failed, invariants,
                 candidate, report, disk, prod>>

\* One terminal event and no failure; the run has only its own timer.
AnswerOnce(ok) ==
  /\ pc = "answer"
  /\ answered' = ok /\ pc' = "shutdown"
  /\ UNCHANGED <<world, session, i, running, stopped, aborted, results, probesOk, rollback,
                 failed, invariants, candidate, report, disk, prod>>

\* The finally block, then the report.
CandidateEnds ==
  /\ pc = "shutdown"
  /\ candidate' = FALSE
  /\ End(probesOk /\ (session.kind = "default" => answered), None)
  /\ UNCHANGED <<world, disk, prod>>

-----------------------------------------------------------------------------
(* What happens to the artifact outside src/, and the production server.    *)

\* External: a release script computes the hash of an artifact whose report
\* shows everything passed. Nothing under src/ does.
Seal ==
  /\ pc = "idle" /\ report.artifact # None
  /\ disk' = [disk EXCEPT !.release = Hashed(report.artifact.body)]
  /\ UNCHANGED <<world, program, report, prod>>

\* External: a file is edited into one that looks as it should.
EditRelease ==
  /\ pc = "idle" /\ disk.release # None
  /\ disk' = [disk EXCEPT !.release.body =
       [@ EXCEPT !.profile = "production", !.failed = FALSE,
                 !.invariants = "passed", !.smoke = TRUE, !.dirty = FALSE,
                 !.rollback = TRUE]]
  /\ UNCHANGED <<world, program, report, prod>>

\* assertRuntimeModeStartupAllowed: the artifact is checked against its own
\* revision, whichever revision is started.
StartupAllowed(mode, a) ==
  mode = "default" => a # None /\ CheckPromotion(a, a.body.revision)
StartServer(mode) ==
  /\ prod.mode = "off" /\ pc = "idle"
  /\ StartupAllowed(mode, disk.release)
  /\ prod' = [mode |-> mode, artifact |-> IF mode = "default" THEN disk.release ELSE None]
  /\ UNCHANGED <<world, program, report, disk>>
StopServer ==
  /\ prod.mode # "off" /\ pc = "idle"
  /\ prod' = [mode |-> "off", artifact |-> None]
  /\ UNCHANGED <<world, program, report, disk>>

ProgramStep ==
  \/ ProbeNotRun \/ ProbeStarts \/ SmokeDone \/ AcceptanceEnds \/ RunnerEnds
  \/ \E verified \in BOOLEAN: VerifyRollback(verified)
  \/ RunGate \/ StartCandidate \/ CandidateEnds
  \/ \E ok \in BOOLEAN: HealthCheck(ok) \/ CriticalDone(ok) \/ AnswerOnce(ok)

Next ==
  \/ Edit \/ \E r \in Revisions: Checkout(r)
  \/ EditRelease
  \/ \E kind \in Kinds: Begin(kind)
  \/ RefusedAtOnce \/ ProgramStep
  \/ ProbeTimer \/ Abort \/ ProbeReturns \/ ProbeAborts
  \/ Seal
  \/ \E mode \in {"limited", "default"}: StartServer(mode)
  \/ StopServer

Spec == Init /\ [][Next]_vars

\* Timers fire, a gate is killed at its timeout, an implementation heeds its
\* signal. That a probe answers is not assumed.
LiveSpec ==
  Spec /\ WF_vars(ProgramStep) /\ WF_vars(ProbeTimer) /\ WF_vars(ProbeAborts)

-----------------------------------------------------------------------------
(* Properties                                                               *)

\* A server runs in default mode only with an artifact whose revision was
\* seen to work on a clean tree: no required probe and no gate saw a broken
\* part, the evaluation input kept every hard invariant, and rollback was
\* verified. Evidence gathered on an edited tree, a file left by an earlier
\* program and an artifact edited afterwards never get that far
\* (promotion.ts, runner.ts, smoke_harness.ts, promotion_gate.ts).
DefaultIsProven ==
  prod.mode = "default" =>
    LET b == prod.artifact.body
    IN  /\ broken[b.revision] \cap ((ToSet(Registry) \ Optional) \cup {"build"}) = {}
        /\ HardInvariantsHold(Cases, input)
        /\ b.rollback = TRUE

\* Every acceptance program ends with a report and leaves no server of its
\* own listening, however its probes behave, as long as they heed their
\* signal (smoke_harness.ts, limited_mode_acceptance.ts).
ReleaseSettles == (pc # "idle") ~> (pc = "idle" /\ ~candidate)

\* production_acceptance.ts:9 says that the final artifact passes promotion
\* validation for the trusted revision: when all evidence is in and the tree
\* is clean, the report is ok.
FinalArtifactPromotes ==
  report.artifact # None /\ ~report.artifact.body.dirty => report.ok
=============================================================================
