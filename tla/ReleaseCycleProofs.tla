-------------------------- MODULE ReleaseCycleProofs --------------------------
(***************************************************************************)
(* A server in default mode is proven, for any probes, revisions, golden    *)
(* cases and evaluation inputs. The argument follows the evidence: what a   *)
(* production acceptance has seen holds of its revision as long as the tree *)
(* is clean; the hash of a file that could be promoted was computed from    *)
(* such evidence; and a server starts only from a file that has its hash.   *)
(***************************************************************************)
EXTENDS ReleaseCycle, TLAPS

RequiredProbes == ToSet(Registry) \ Optional

Proven(r) ==
  /\ broken[r] \cap (RequiredProbes \cup {"build"}) = {}
  /\ HardInvariantsHold(Cases, input)

\* What checkPromotion asks of a body.
Promotable(b) ==
  /\ b.profile = "production" /\ ~b.failed /\ ~b.dirty /\ b.invariants = "passed"
  /\ b.smoke /\ b.rollback = TRUE

Shapes ==
  /\ tree \in [at: Revisions, dirty: BOOLEAN]
  /\ disk = [smoke |-> disk.smoke, release |-> disk.release]
  /\ disk.release # None =>
       disk.release = [body |-> disk.release.body, hash |-> disk.release.hash]
  /\ running => pc = "probe" /\ i <= Len(Probes)
  /\ i \in Nat /\ results \in Seq(Statuses)

InProduction == pc # "idle" /\ session.kind = "production"

\* What a production acceptance has seen so far.
Seen ==
  InProduction =>
    /\ session.revision = tree.at
    /\ pc \in {"probe", "rollback", "gate"}
    /\ pc = "probe" =>
         /\ Len(results) = i - 1
         /\ ~tree.dirty => \A k \in DOMAIN results:
              results[k] = "passed" => Registry[k] \notin broken[tree.at]
    /\ pc \in {"rollback", "gate"} =>
         /\ probesOk \in BOOLEAN
         /\ probesOk /\ ~tree.dirty => broken[tree.at] \cap RequiredProbes = {}
    /\ pc = "rollback" => i = 1
    /\ pc = "gate" =>
         /\ rollback \in BOOLEAN
         /\ ~failed /\ ~tree.dirty =>
              /\ i > 1 => "build" \notin broken[tree.at]
              /\ i > 2 => HardInvariantsHold(Cases, input)

Reported ==
  report.artifact # None /\ Promotable(report.artifact.body)
    => Proven(report.artifact.body.revision)
OnDisk ==
  disk.release # None /\ Promotable(disk.release.hash) => Proven(disk.release.hash.revision)
Served ==
  prod.mode = "default" =>
    prod.artifact.body.rollback = TRUE /\ Proven(prod.artifact.body.revision)

ReleaseInv == Shapes /\ Seen /\ Reported /\ OnDisk /\ Served

-----------------------------------------------------------------------------
\* A fresh checkout.
LEMMA ReleaseInvInit == Init => ReleaseInv
<1> SUFFICES ASSUME Init PROVE ReleaseInv
  OBVIOUS
<1>1. Shapes
  <2>1. tree \in [at: Revisions, dirty: BOOLEAN]
    BY DEF Init
  <2>2. disk = [smoke |-> None, release |-> None]
    BY DEF Init
  <2>3. i = 1 /\ results = <<>> /\ ~running
    BY DEF Init
  <2> QED  BY <2>1, <2>2, <2>3 DEF Shapes
<1>2. Seen /\ Reported /\ OnDisk /\ Served
  BY DEF Init, Seen, InProduction, Reported, NoReport, OnDisk, Served
<1> QED  BY <1>1, <1>2 DEF ReleaseInv

\* Steps that leave the report, the file and the production server alone.
LEMMA EvidenceKept ==
  ASSUME ReleaseInv, UNCHANGED <<broken, input, report, prod>>, disk'.release = disk.release
  PROVE  Reported' /\ OnDisk' /\ Served'
BY DEF ReleaseInv, Reported, OnDisk, Served, Proven, Promotable

\* The developer edits the tree, or checks out a revision.
LEMMA TreeSteps ==
  ASSUME ReleaseInv, Edit \/ \E r \in Revisions: Checkout(r)
  PROVE  ReleaseInv'
<1> USE DEF program, found
<1>1. UNCHANGED <<broken, input, program, report, disk, prod>>
  BY DEF Edit, Checkout
<1>2. /\ tree' \in [at: Revisions, dirty: BOOLEAN]
      /\ pc # "idle" => tree'.dirty /\ tree'.at = tree.at
  <2>1. CASE Edit
    <3>1. tree \in [at: Revisions, dirty: BOOLEAN] /\ tree' = [tree EXCEPT !.dirty = TRUE]
      BY <2>1 DEF Edit, ReleaseInv, Shapes
    <3> QED  BY <3>1
  <2>2. ASSUME NEW r \in Revisions, Checkout(r)
        PROVE  pc = "idle" /\ tree' \in [at: Revisions, dirty: BOOLEAN]
    BY <2>2 DEF Checkout
  <2> QED  BY <2>1, <2>2
<1>3. Shapes'
  BY <1>1, <1>2 DEF ReleaseInv, Shapes, Probes
<1>4. Seen'
  BY <1>1, <1>2 DEF ReleaseInv, Seen, InProduction
<1> QED  BY <1>1, <1>3, <1>4, EvidenceKept DEF ReleaseInv

\* A program starts with nothing seen, or is refused.
LEMMA BeginSteps ==
  ASSUME ReleaseInv, RefusedAtOnce \/ \E kind \in Kinds: Begin(kind)
  PROVE  ReleaseInv'
<1> USE DEF program, found, world
<1>1. UNCHANGED <<tree, broken, input, disk, prod>> /\ report' = NoReport
  BY DEF RefusedAtOnce, Begin
<1>2. Shapes'
  <2>1. /\ i' \in Nat /\ results' \in Seq(Statuses)
        /\ running' => running /\ UNCHANGED <<pc, i, session>>
    <3>1. CASE RefusedAtOnce
      BY <3>1 DEF RefusedAtOnce, ReleaseInv, Shapes
    <3>2. CASE \E kind \in Kinds: Begin(kind)
      <4>1. i' = 1 /\ results' = <<>> /\ running' = FALSE
        BY <3>2 DEF Begin
      <4> QED  BY <4>1
    <3> QED  BY <3>1, <3>2
  <2> QED  BY <1>1, <2>1 DEF ReleaseInv, Shapes, Probes
<1>3. Seen'
  <2>1. CASE RefusedAtOnce
    BY <2>1 DEF RefusedAtOnce, ReleaseInv, Seen, InProduction
  <2>2. ASSUME NEW kind \in Kinds, Begin(kind)
        PROVE  Seen'
    <3>1. /\ session' = [kind |-> kind, revision |-> tree.at] /\ pc' = Enter(kind)
          /\ i' = 1 /\ results' = <<>>
      BY <2>2 DEF Begin
    <3> QED  BY <1>1, <3>1 DEF Seen, InProduction, Enter
  <2> QED  BY <2>1, <2>2
<1>4. Reported' /\ OnDisk' /\ Served'
  BY <1>1 DEF NoReport, ReleaseInv, Reported, OnDisk, Served, Proven, Promotable
<1> QED  BY <1>2, <1>3, <1>4 DEF ReleaseInv

\* A probe is passed over, starts, is stopped or is recorded: one that passed on a clean
\* tree is not broken.
LEMMA ProbeSteps ==
  ASSUME ReleaseInv,
         ProbeNotRun \/ ProbeStarts \/ ProbeTimer \/ Abort \/ ProbeReturns \/ ProbeAborts
  PROVE  ReleaseInv'
<1> USE DEF found, world
<1>1. /\ UNCHANGED <<tree, broken, input, session, pc, probesOk, rollback, failed, report,
                     disk, prod>>
      /\ running' => running \/ (pc = "probe" /\ i <= Len(Probes))
  BY DEF ProbeNotRun, ProbeStarts, ProbeTimer, Abort, ProbeReturns, ProbeAborts, Record
<1>2. \/ UNCHANGED <<i, results>>
      \/ \E st \in Statuses:
           /\ pc = "probe" /\ i' = i + 1 /\ results' = Append(results, st) /\ ~running'
           /\ st = "passed" => CanPass(Probes[i])
  BY DEF ProbeNotRun, ProbeStarts, ProbeTimer, Abort, ProbeReturns, ProbeAborts, Record,
         Statuses, ReleaseInv, Shapes
<1>3. CASE UNCHANGED <<i, results>>
  <2>1. Shapes'
    BY <1>1, <1>3 DEF ReleaseInv, Shapes, Probes
  <2>2. Seen'
    BY <1>1, <1>3 DEF ReleaseInv, Seen, InProduction
  <2> QED  BY <1>1, <2>1, <2>2, EvidenceKept DEF ReleaseInv
<1>4. ASSUME NEW st \in Statuses, pc = "probe", i' = i + 1, results' = Append(results, st),
             ~running', st = "passed" => CanPass(Probes[i])
      PROVE  ReleaseInv'
  <2>1. i \in Nat /\ results \in Seq(Statuses)
    BY DEF ReleaseInv, Shapes
  <2>2. results' \in Seq(Statuses) /\ Len(results') = Len(results) + 1
    BY <1>4, <2>1
  <2>3. Shapes'
    BY <1>1, <1>4, <2>1, <2>2 DEF ReleaseInv, Shapes
  <2>4. ASSUME InProduction, ~tree.dirty, NEW k \in DOMAIN results', results'[k] = "passed"
        PROVE  Registry[k] \notin broken[tree.at]
    <3>1. Len(results) = i - 1 /\ k \in 1 .. i
      BY <1>4, <2>1, <2>2, <2>4 DEF ReleaseInv, Seen
    <3>2. CASE k = i
      <4>1. results'[k] = st
        BY <1>4, <2>1, <3>1, <3>2
      <4>2. CanPass(Registry[i])
        BY <1>4, <2>4, <4>1 DEF Probes, InProduction
      <4> QED  BY <2>4, <3>2, <4>2 DEF CanPass
    <3>3. CASE k # i
      <4>1. k \in DOMAIN results /\ results'[k] = results[k]
        BY <1>4, <2>1, <3>1, <3>3
      <4> QED  BY <1>4, <2>4, <4>1 DEF ReleaseInv, Seen
    <3> QED  BY <3>2, <3>3
  <2>5. Seen'
    BY <1>1, <1>4, <2>1, <2>2, <2>4 DEF ReleaseInv, Seen, InProduction
  <2> QED  BY <1>1, <2>3, <2>5, EvidenceKept DEF ReleaseInv
<1> QED  BY <1>2, <1>3, <1>4

\* runAllProbes is over: all that production requires passed.
LEMMA SmokeDoneStep ==
  ASSUME ReleaseInv, SmokeDone
  PROVE  ReleaseInv'
<1> USE DEF world
<1>1. /\ UNCHANGED <<tree, broken, input, session, running, failed, report, prod>>
      /\ pc = "probe" /\ i > Len(Registry) /\ session.kind = "production"
      /\ probesOk' = ComputeOverallPassed(results)
      /\ pc' = "rollback" /\ i' = 1 /\ results' = <<>>
  BY DEF SmokeDone, Probes
<1>2. PICK evidence : disk' = [disk EXCEPT !.smoke = evidence]
  BY DEF SmokeDone
<1>3. disk' = [smoke |-> disk'.smoke, release |-> disk'.release] /\ disk'.release = disk.release
  <2>1. disk = [smoke |-> disk.smoke, release |-> disk.release]
    BY DEF ReleaseInv, Shapes
  <2> QED  BY <1>2, <2>1
<1>4. Shapes'
  <2>1. running => FALSE
    BY <1>1 DEF Probes, ReleaseInv, Shapes
  <2> QED  BY <1>1, <1>3, <2>1, ReleaseAssumption DEF ReleaseInv, Shapes
<1>5. probesOk' \in BOOLEAN
  BY <1>1 DEF ComputeOverallPassed
<1>6. ASSUME probesOk', ~tree.dirty
      PROVE  broken[tree.at] \cap RequiredProbes = {}
  <2> SUFFICES ASSUME NEW p \in RequiredProbes PROVE p \notin broken[tree.at]
    OBVIOUS
  <2>1. PICK k \in DOMAIN Registry : p = Registry[k] /\ Registry[k] \notin Optional
    BY DEF RequiredProbes, ToSet
  <2>2. Len(results) = i - 1 /\ results \in Seq(Statuses) /\ i \in Nat
    BY <1>1 DEF ReleaseInv, Shapes, Seen, InProduction
  <2>3. k \in DOMAIN results
    BY <1>1, <2>2, ReleaseAssumption DEF ReleaseAssumption
  <2>4. results[k] = "passed"
    BY <1>1, <1>6, <2>1, <2>3 DEF ComputeOverallPassed, Probes
  <2> QED  BY <1>1, <1>6, <2>1, <2>3, <2>4 DEF ReleaseInv, Seen, InProduction
<1>7. Seen'
  BY <1>1, <1>5, <1>6 DEF ReleaseInv, Seen, InProduction
<1> QED  BY <1>1, <1>3, <1>4, <1>7, EvidenceKept DEF ReleaseInv

\* Rollback verification is over.
LEMMA RollbackStep ==
  ASSUME ReleaseInv, NEW verified \in BOOLEAN, VerifyRollback(verified)
  PROVE  ReleaseInv'
<1> USE DEF world, VerifyRollback
<1>1. Shapes'
  <2>1. ~running
    BY DEF ReleaseInv, Shapes
  <2> QED  BY <2>1 DEF ReleaseInv, Shapes
<1>2. Seen'
  BY DEF ReleaseInv, Seen, InProduction
<1> QED  BY <1>1, <1>2, EvidenceKept DEF ReleaseInv

\* A gate is over: what passed on a clean tree holds.
LEMMA GateStep ==
  ASSUME ReleaseInv, RunGate
  PROVE  ReleaseInv'
<1> USE DEF world
<1>1. /\ UNCHANGED <<tree, broken, input, session, pc, running, results, probesOk, rollback,
                     report, disk, prod>>
      /\ pc = "gate" /\ i <= Len(Gates) /\ i' = i + 1 /\ i \in Nat
  BY DEF RunGate, ReleaseInv, Shapes
<1>2. PICK passed \in BOOLEAN :
        /\ passed => GateCanPass(Gates[i])
        /\ failed' = (failed \/ ~passed)
  BY DEF RunGate
<1>3. Shapes'
  BY <1>1 DEF ReleaseInv, Shapes
<1>4. ASSUME InProduction, ~failed', ~tree.dirty
      PROVE  (i > 0 => "build" \notin broken[tree.at]) /\ (i > 1 => HardInvariantsHold(Cases, input))
  <2>1. Gates = <<"build", "hard_invariants", "clean_worktree", "smoke_evidence">>
    BY <1>4 DEF InProduction, Gates, Profile
  <2>2. /\ ~failed /\ GateCanPass(Gates[i])
        /\ i > 1 => "build" \notin broken[tree.at]
        /\ i > 2 => HardInvariantsHold(Cases, input)
    BY <1>1, <1>2, <1>4 DEF ReleaseInv, Seen
  <2>3. i = 1 => "build" \notin broken[tree.at]
    BY <1>4, <2>1, <2>2 DEF GateCanPass, CanPass
  <2>4. i = 2 => HardInvariantsHold(Cases, input)
    BY <1>4, <2>1, <2>2 DEF GateCanPass, Profile, InProduction
  <2> QED  BY <1>1, <2>2, <2>3, <2>4
<1>5. Seen'
  BY <1>1, <1>4 DEF ReleaseInv, Seen, InProduction
<1> QED  BY <1>1, <1>3, <1>5, EvidenceKept DEF ReleaseInv

\* The production acceptance reports: an artifact that could be promoted is proven.
LEMMA AcceptanceEndsStep ==
  ASSUME ReleaseInv, AcceptanceEnds
  PROVE  ReleaseInv'
<1> USE DEF world
<1> DEFINE first == Hashed(Assembled)
           final == WithRollback(first)
<1>1. /\ UNCHANGED <<tree, broken, input, running, prod>>
      /\ pc = "gate" /\ i > Len(Gates) /\ session.kind = "production"
      /\ i \in Nat /\ pc' = "idle" /\ i' = 1 /\ results' = <<>>
  BY DEF AcceptanceEnds, End, ReleaseInv, Shapes
<1>2. i > 2
  <2>1. Len(Gates) = 4
    BY <1>1 DEF Gates, Profile
  <2> QED  BY <1>1, <2>1
<1>3. /\ final = [body |-> final.body, hash |-> Assembled]
      /\ first = [body |-> Assembled, hash |-> Assembled]
      /\ final.body = [Assembled EXCEPT !.rollback = rollback]
  BY DEF Hashed, WithRollback
<1>4. /\ Assembled.rollback = None /\ final.body.revision = session.revision
      /\ final.body.failed = failed /\ final.body.dirty = tree.dirty
  BY <1>3 DEF Assembled
<1>5. ~Promotable(Assembled)
  BY <1>4, ReleaseAssumption DEF Promotable, ReleaseAssumption
<1>6. Promotable(final.body) /\ probesOk => Proven(session.revision)
  BY <1>1, <1>2, <1>4 DEF Promotable, Proven, ReleaseInv, Seen, InProduction
<1> HIDE DEF first, final
<1>7. \/ /\ \E written \in {first, final}: disk' = [disk EXCEPT !.release = written]
         /\ report'.artifact = IF Accepted(final) THEN final ELSE None
      \/ disk' = disk /\ report'.artifact = None
  BY DEF AcceptanceEnds, End, first, final
<1>8. Reported'
  <2>1. report'.artifact # None => report'.artifact = final /\ Accepted(final)
    BY <1>7
  <2>2. Accepted(final) /\ Promotable(final.body) => Proven(session.revision)
    BY <1>6 DEF Accepted
  <2> QED  BY <1>1, <1>4, <2>1, <2>2 DEF Reported, Proven, Promotable
<1>9. /\ disk' = [smoke |-> disk'.smoke, release |-> disk'.release]
      /\ disk'.release = disk.release \/ disk'.release \in {first, final}
  <2>1. disk = [smoke |-> disk.smoke, release |-> disk.release]
    BY DEF ReleaseInv, Shapes
  <2> QED  BY <1>7, <2>1
<1>10. /\ disk'.release # None =>
            disk'.release = [body |-> disk'.release.body, hash |-> disk'.release.hash]
       /\ disk'.release \in {first, final} => disk'.release.hash = Assembled
  BY <1>3, <1>9 DEF ReleaseInv, Shapes
<1>11. OnDisk'
  <2>1. CASE disk'.release = disk.release
    BY <1>1, <2>1 DEF ReleaseInv, OnDisk, Proven, Promotable
  <2>2. CASE disk'.release \in {first, final}
    <3>1. ~Promotable(disk'.release.hash)
      BY <1>5, <1>10, <2>2
    <3> QED  BY <3>1 DEF OnDisk, Promotable
  <2> QED  BY <1>9, <2>1, <2>2
<1>12. Served' /\ Seen'
  BY <1>1 DEF ReleaseInv, Served, Proven, Seen, InProduction
<1>13. Shapes'
  <2>1. ~running
    BY <1>1 DEF ReleaseInv, Shapes
  <2> QED  BY <1>1, <1>9, <1>10, <2>1 DEF ReleaseInv, Shapes
<1> QED  BY <1>8, <1>11, <1>12, <1>13 DEF ReleaseInv

\* The release runner alone leaves an artifact without rollback evidence.
LEMMA RunnerEndsStep ==
  ASSUME ReleaseInv, RunnerEnds
  PROVE  ReleaseInv'
<1> USE DEF world
<1> DEFINE a == Hashed(Assembled)
<1>1. /\ UNCHANGED <<tree, broken, input, running, prod>>
      /\ pc = "gate" /\ pc' = "idle" /\ i' = 1 /\ results' = <<>>
      /\ report'.artifact = None /\ disk' = [disk EXCEPT !.release = a]
  BY DEF RunnerEnds, End
<1>2. a = [body |-> a.body, hash |-> a.hash] /\ ~Promotable(a.hash)
  BY ReleaseAssumption DEF Hashed, Assembled, Promotable, ReleaseAssumption
<1> HIDE DEF a
<1>3. disk' = [smoke |-> disk'.smoke, release |-> disk'.release] /\ disk'.release = a
  <2>1. disk = [smoke |-> disk.smoke, release |-> disk.release]
    BY DEF ReleaseInv, Shapes
  <2> QED  BY <1>1, <2>1
<1>4. Shapes'
  <2>1. ~running
    BY <1>1 DEF ReleaseInv, Shapes
  <2> QED  BY <1>1, <1>2, <1>3, <2>1 DEF ReleaseInv, Shapes
<1>5. OnDisk'
  <2>1. ~Promotable(disk'.release.hash)
    BY <1>2, <1>3
  <2> QED  BY <2>1 DEF OnDisk, Promotable
<1>6. Reported' /\ Served' /\ Seen'
  BY <1>1 DEF ReleaseInv, Reported, Served, Proven, Seen, InProduction
<1> QED  BY <1>4, <1>5, <1>6 DEF ReleaseInv

\* Limited-mode and default-mode acceptance leave no artifact.
LEMMA CandidateSteps ==
  ASSUME ReleaseInv,
         \/ StartCandidate \/ CandidateEnds
         \/ \E ok \in BOOLEAN: HealthCheck(ok) \/ CriticalDone(ok) \/ AnswerOnce(ok)
  PROVE  ReleaseInv'
<1> USE DEF world, found
<1>1. UNCHANGED <<tree, broken, input, running, disk, prod>>
  BY DEF StartCandidate, CandidateEnds, HealthCheck, CriticalDone, AnswerOnce, End
<1>2. ~InProduction /\ (session' = session \/ pc' = "idle")
  <2>1. pc \in {"start", "health", "answer", "shutdown"} \/ session.kind \in {"limited", "default"}
    BY DEF StartCandidate, CandidateEnds, HealthCheck, CriticalDone, AnswerOnce
  <2>2. ~InProduction
    BY <2>1 DEF ReleaseInv, Seen, InProduction
  <2> QED  BY <2>2 DEF StartCandidate, CandidateEnds, HealthCheck, CriticalDone, AnswerOnce, End
<1>3. report' = report \/ report'.artifact = None
  <2>1. report' = report \/ \E ok : report' = [ok |-> ok, artifact |-> None]
    BY DEF StartCandidate, CandidateEnds, HealthCheck, CriticalDone, AnswerOnce, End
  <2> QED  BY <2>1
<1>4. Shapes'
  <2>1. i \in Nat /\ Len(Probes) \in Nat
    BY ReleaseAssumption DEF ReleaseAssumption, ReleaseInv, Shapes, Probes
  <2>2. running => pc = "probe" /\ ~(i > Len(Probes))
    BY <2>1 DEF ReleaseInv, Shapes
  <2>3. pc = "probe" => i > Len(Probes)
    BY DEF StartCandidate, CandidateEnds, HealthCheck, CriticalDone, AnswerOnce
  <2>4. /\ i' = i \/ i' = 1
        /\ results' = results \/ results' = <<>>
    BY DEF StartCandidate, CandidateEnds, HealthCheck, CriticalDone, AnswerOnce, End
  <2>5. i' \in Nat /\ results' \in Seq(Statuses)
    <3>1. <<>> \in Seq(Statuses) /\ results \in Seq(Statuses)
      BY DEF ReleaseInv, Shapes
    <3>2. i' \in Nat
      BY <2>1, <2>4
    <3>3. results' \in Seq(Statuses)
      BY <2>4, <3>1
    <3> QED  BY <3>2, <3>3
  <2> QED  BY <1>1, <2>2, <2>3, <2>5 DEF ReleaseInv, Shapes
<1>5. Seen'
  BY <1>2 DEF StartCandidate, CandidateEnds, HealthCheck, CriticalDone, AnswerOnce, End,
              Seen, InProduction
<1>6. Reported'
  BY <1>1, <1>3 DEF ReleaseInv, Reported, Proven, Promotable
<1>7. OnDisk' /\ Served'
  BY <1>1 DEF ReleaseInv, OnDisk, Served, Proven, Promotable
<1> QED  BY <1>4, <1>5, <1>6, <1>7 DEF ReleaseInv

\* The report is sealed, the file edited.
LEMMA FileSteps ==
  ASSUME ReleaseInv, Seal \/ EditRelease
  PROVE  ReleaseInv'
<1> USE DEF world, program, found
<1>1. UNCHANGED <<world, program, report, prod>>
  BY DEF Seal, EditRelease
<1>2. \/ /\ report.artifact # None
         /\ disk' = [disk EXCEPT !.release = Hashed(report.artifact.body)]
      \/ /\ disk.release # None
         /\ \E body : disk' = [disk EXCEPT !.release = [disk.release EXCEPT !.body = body]]
  BY DEF Seal, EditRelease
<1>3. disk' = [smoke |-> disk'.smoke, release |-> disk'.release]
  <2>1. disk = [smoke |-> disk.smoke, release |-> disk.release]
    BY DEF ReleaseInv, Shapes
  <2> QED  BY <1>2, <2>1
<1>4. \/ /\ report.artifact # None
         /\ disk'.release = Hashed(report.artifact.body)
      \/ /\ disk.release # None
         /\ \E body : disk'.release = [body |-> body, hash |-> disk.release.hash]
  <2>1. disk = [smoke |-> disk.smoke, release |-> disk.release]
    BY DEF ReleaseInv, Shapes
  <2>2. disk.release # None =>
          disk.release = [body |-> disk.release.body, hash |-> disk.release.hash]
    BY DEF ReleaseInv, Shapes
  <2> QED  BY <1>2, <2>1, <2>2
<1>5. /\ disk'.release = [body |-> disk'.release.body, hash |-> disk'.release.hash]
      /\ \/ report.artifact # None /\ disk'.release.hash = report.artifact.body
         \/ disk.release # None /\ disk'.release.hash = disk.release.hash
  <2>1. CASE report.artifact # None /\ disk'.release = Hashed(report.artifact.body)
    <3>1. disk'.release = [body |-> report.artifact.body, hash |-> report.artifact.body]
      BY <2>1 DEF Hashed
    <3> QED  BY <2>1, <3>1
  <2>2. ASSUME disk.release # None,
               NEW body, disk'.release = [body |-> body, hash |-> disk.release.hash]
        PROVE  /\ disk'.release = [body |-> disk'.release.body, hash |-> disk'.release.hash]
               /\ disk'.release.hash = disk.release.hash
    BY <2>2
  <2> QED  BY <1>4, <2>1, <2>2
<1>6. OnDisk'
  BY <1>1, <1>5 DEF ReleaseInv, OnDisk, Reported, Proven, Promotable
<1>7. Shapes'
  BY <1>1, <1>3, <1>5 DEF ReleaseInv, Shapes, Probes
<1>8. Seen' /\ Reported' /\ Served'
  BY <1>1 DEF ReleaseInv, Seen, InProduction, Reported, Served, Proven, Promotable
<1> QED  BY <1>6, <1>7, <1>8 DEF ReleaseInv

\* The start-up gate lets in what it can check, and the hash covers the rest.
LEMMA ServerSteps ==
  ASSUME ReleaseInv, StopServer \/ \E mode \in {"limited", "default"}: StartServer(mode)
  PROVE  ReleaseInv'
<1> USE DEF world, program, found
<1>1. UNCHANGED <<world, program, report, disk>>
  BY DEF StopServer, StartServer
<1>2. Served'
  <2>1. ASSUME NEW mode \in {"limited", "default"}, StartServer(mode), prod'.mode = "default"
        PROVE  /\ prod'.artifact = disk.release /\ disk.release # None
               /\ CheckPromotion(disk.release, disk.release.body.revision)
    BY <2>1 DEF StartServer, StartupAllowed
  <2>2. ASSUME disk.release # None,
               CheckPromotion(disk.release, disk.release.body.revision)
        PROVE  disk.release.body.rollback = TRUE /\ Proven(disk.release.body.revision)
    BY <2>2 DEF CheckPromotion, ReleaseInv, OnDisk, Promotable
  <2>3. CASE StopServer
    BY <2>3 DEF StopServer, Served
  <2> QED  BY <1>1, <2>1, <2>2, <2>3 DEF Served, Proven
<1>3. Shapes' /\ Seen' /\ Reported' /\ OnDisk'
  BY <1>1 DEF ReleaseInv, Shapes, Probes, Seen, InProduction, Reported, OnDisk, Proven,
              Promotable
<1> QED  BY <1>2, <1>3 DEF ReleaseInv

\* Every step keeps the evidence sound.
LEMMA ReleaseInvNext == ReleaseInv /\ [Next]_vars => ReleaseInv'
<1> SUFFICES ASSUME ReleaseInv, [Next]_vars PROVE ReleaseInv'
  OBVIOUS
<1>1. CASE Edit \/ \E r \in Revisions: Checkout(r)
  BY <1>1, TreeSteps
<1>2. CASE RefusedAtOnce \/ \E kind \in Kinds: Begin(kind)
  BY <1>2, BeginSteps
<1>3. CASE ProgramStep
  BY <1>3, ProbeSteps, SmokeDoneStep, AcceptanceEndsStep, RunnerEndsStep, RollbackStep,
     GateStep, CandidateSteps DEF ProgramStep
<1>4. CASE ProbeTimer \/ Abort \/ ProbeReturns \/ ProbeAborts
  BY <1>4, ProbeSteps
<1>5. CASE Seal \/ EditRelease
  BY <1>5, FileSteps
<1>6. CASE StopServer \/ \E mode \in {"limited", "default"}: StartServer(mode)
  BY <1>6, ServerSteps
<1>7. CASE UNCHANGED vars
  BY <1>7 DEF vars, world, program, found, ReleaseInv, Shapes, Probes, Seen, InProduction,
              Reported, OnDisk, Served, Proven, Promotable
<1> QED  BY <1>1, <1>2, <1>3, <1>4, <1>5, <1>6, <1>7 DEF Next

\* A server in default mode runs a revision that was seen to work on a clean tree, with an
\* evaluation that kept every hard invariant and a verified rollback: evidence of an edited
\* tree, files of earlier programs and edited artifacts do not get past the start-up gate
\* (promotion.ts, runner.ts, smoke_harness.ts, promotion_gate.ts).
THEOREM DefaultModeIsProven == Spec => []DefaultIsProven
<1>1. ReleaseInv => DefaultIsProven
  BY DEF ReleaseInv, Served, Proven, RequiredProbes, DefaultIsProven
<1> QED  BY <1>1, ReleaseInvInit, ReleaseInvNext, PTL DEF Spec

=============================================================================
