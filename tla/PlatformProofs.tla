--------------------------- MODULE PlatformProofs ---------------------------
(***************************************************************************)
(* The safety of the parts that surround the queue and the answers, each   *)
(* for itself and for every value of its constants. None of the properties *)
(* is inductive; each part says what has to be added to it. Then the types *)
(* of every part, and all of them together under the specification that    *)
(* the run checks.                                                         *)
(***************************************************************************)
EXTENDS MCPlatform, Induction, SequenceTheorems, FiniteSetTheorems

-----------------------------------------------------------------------------
(* The build of a document: WorkspaceOutlivesProcess and StoredIsComplete. *)
(* What an attempt may do to the file system and the stores depends on how *)
(* far it is.                                                              *)

\* The phases in which parse() is at work.
Parsing == {"process", "read", "publish", "rename"}

BuildTyped ==
    /\ phase \in [Attempts -> Phases]
    /\ child \in [Attempts -> {"none", "alive", "dying", "gone"}]
    /\ refused \in [Attempts -> SUBSET Refusals]
    /\ workspace \in [Attempts -> BOOLEAN]
    /\ output \in [Attempts -> Outputs \cup {NoOutput}]
    /\ temporaries \subseteq Attempts

\* A live process is that of an attempt waiting for it, of one that crashed, or of one that
\* could not kill it.
ChildOK(a) ==
    ParserRuns(a) => \/ phase[a] \in {"process", "crashed"} /\ workspace[a]
                     \/ phase[a] = "failed" /\ "kill" \in refused[a]

\* Outside of parse() nothing is left in the file system, unless by a crash or because the
\* file system refused.
FilesOK(a) ==
    /\ workspace[a] =>
        \/ phase[a] \in Parsing \cup {"crashed"}
        \/ phase[a] = "failed" /\ "file" \in refused[a]
    /\ a \in temporaries =>
        \/ phase[a] \in {"rename", "crashed"}
        \/ phase[a] = "failed" /\ "file" \in refused[a]

FilesInv == \A a \in Attempts : ChildOK(a) /\ FilesOK(a)

\* An attempt has published the images of what it parsed, and indexed its chunks, before
\* it names them.
AttemptOK(a) ==
    /\ phase[a] \in AfterParse => ImagesOf(output[a]) \subseteq assets
    /\ phase[a] \in {"stored", "indexed", "built"} => output[a].chunks \subseteq es

StoresInv == StoredIsComplete /\ \A a \in Attempts : AttemptOK(a)

BuildInv == BuildTyped /\ FilesInv /\ StoresInv

-----------------------------------------------------------------------------
(* Lemmas. *)

\* No output has images among the chunks of another that are not images there.
LEMMA SameImages ==
    ASSUME NEW o \in Outputs, NEW p \in Outputs \cup {NoOutput}
    PROVE  ImagesOf(o) \cap p.chunks \subseteq ImagesOf(p)
<1>1. CASE p \in Outputs
  BY <1>1, BuildAssumption DEF ImagesOf
<1>2. CASE p = NoOutput
  BY <1>2 DEF NoOutput
<1> QED  BY <1>1, <1>2

\* Before the first attempt nothing is there.
LEMMA BuildInvInit == BuildInit => BuildInv
<1> SUFFICES ASSUME BuildInit PROVE BuildInv
  OBVIOUS
<1>1. BuildTyped
  BY DEF BuildInit, BuildTyped, Phases
<1>2. FilesInv
  BY DEF BuildInit, FilesInv, ChildOK, FilesOK, ParserRuns
<1>3. StoresInv
  BY DEF BuildInit, StoresInv, StoredIsComplete, AttemptOK, AfterParse, NoOutput
<1> QED  BY <1>1, <1>2, <1>3 DEF BuildInv

\* What is refused is of what can be.
LEMMA RefusedTyped ==
    ASSUME BuildTyped, NEW a \in Attempts, NEW what \in SUBSET Refusals,
           Refuse(a, what) \/ Refuse(a, what \cup {"file"})
    PROVE  refused' \in [Attempts -> SUBSET Refusals]
<1>1. refused[a] \cup what \subseteq Refusals
  BY DEF BuildTyped
<1>2. refused[a] \cup (what \cup {"file"}) \subseteq Refusals
  BY <1>1 DEF Refusals
<1> QED  BY <1>1, <1>2 DEF BuildTyped, Refuse

\* Every step gives each variable a value of its type.
LEMMA BuildTypedNext == BuildTyped /\ BuildNext => BuildTyped'
<1> SUFFICES ASSUME BuildTyped, NEW a \in Attempts,
        \/ BeginAttempt(a) \/ StopProcess(a) \/ StopRefused(a) \/ ProcessExits(a) \/ ProcessCloses(a)
        \/ ReadOutput(a) \/ WriteAsset(a) \/ RenameAsset(a)
        \/ ChunkDocument(a) \/ WikifyChunks(a) \/ StoreChunks(a) \/ IndexPages(a)
        \/ StoreGraph(a) \/ StageFails(a) \/ Crash(a)
    PROVE  BuildTyped'
  BY DEF BuildNext
<1>0. refused' \in [Attempts -> SUBSET Refusals]
  <2>1. /\ {} \in SUBSET Refusals /\ {"kill"} \in SUBSET Refusals
        /\ {"file"} \in SUBSET Refusals
    BY DEF Refusals
  <2>2. CASE UNCHANGED refused
    BY <2>2 DEF BuildTyped
  <2>3. CASE \E what \in SUBSET Refusals : Refuse(a, what) \/ Refuse(a, what \cup {"file"})
    BY <2>3, RefusedTyped
  <2>4. \/ UNCHANGED refused
        \/ \E what \in SUBSET Refusals : Refuse(a, what) \/ Refuse(a, what \cup {"file"})
    BY <2>1 DEF BeginAttempt, StopProcess, StopRefused, ProcessExits, ProcessCloses, ReadOutput,
                WriteAsset, RenameAsset, ChunkDocument, WikifyChunks, StoreChunks, IndexPages,
                StoreGraph, StageFails, Crash, ParseFails, ParseReturns, parsing
  <2> QED  BY <2>2, <2>3, <2>4
<1> USE <1>0 DEF BuildTyped, Goes, ParseFails, ParseReturns, Phases, parsing, stores
<1>1. CASE BeginAttempt(a)
  <2>1. phase' \in [Attempts -> Phases]
    BY <1>1 DEF BeginAttempt
  <2>2. /\ child' \in [Attempts -> {"none", "alive", "dying", "gone"}]
        /\ workspace' \in [Attempts -> BOOLEAN]
    BY <1>1 DEF BeginAttempt
  <2>3. output' \in [Attempts -> Outputs \cup {NoOutput}] /\ temporaries' \subseteq Attempts
    BY <1>1 DEF BeginAttempt
  <2> QED  BY <2>1, <2>2, <2>3
<1>2. CASE StopProcess(a)
  BY <1>2 DEF StopProcess
<1>14. CASE StopRefused(a)
  BY <1>14 DEF StopRefused
<1>3. CASE ProcessExits(a)
  BY <1>3 DEF ProcessExits
<1>4. CASE ProcessCloses(a)
  BY <1>4 DEF ProcessCloses
<1>5. CASE ReadOutput(a)
  <2>1. phase' \in [Attempts -> Phases]
    BY <1>5 DEF ReadOutput
  <2>2. workspace' \in [Attempts -> BOOLEAN]
    BY <1>5 DEF ReadOutput
  <2>3. output' \in [Attempts -> Outputs \cup {NoOutput}]
    BY <1>5 DEF ReadOutput
  <2>4. UNCHANGED <<child, temporaries>>
    BY <1>5 DEF ReadOutput
  <2> QED  BY <2>1, <2>2, <2>3, <2>4
<1>6. CASE WriteAsset(a)
  BY <1>6 DEF WriteAsset
<1>7. CASE RenameAsset(a)
  BY <1>7 DEF RenameAsset
<1>8. CASE ChunkDocument(a) \/ WikifyChunks(a)
  BY <1>8 DEF ChunkDocument, WikifyChunks
<1>9. CASE StoreChunks(a)
  BY <1>9 DEF StoreChunks
<1>10. CASE IndexPages(a)
  BY <1>10 DEF IndexPages
<1>11. CASE StoreGraph(a)
  BY <1>11 DEF StoreGraph
<1>12. CASE StageFails(a)
  BY <1>12 DEF StageFails
<1>13. CASE Crash(a)
  BY <1>13 DEF Crash
<1> QED  BY <1>1, <1>2, <1>3, <1>4, <1>5, <1>6, <1>7, <1>8, <1>9, <1>10, <1>11, <1>12, <1>13,
            <1>14

\* A process is waited for, and what parse() made is removed when it is left.
LEMMA FilesNext == BuildTyped /\ FilesInv /\ BuildNext => FilesInv'
<1> SUFFICES ASSUME BuildTyped, FilesInv, NEW a \in Attempts,
        \/ BeginAttempt(a) \/ StopProcess(a) \/ StopRefused(a) \/ ProcessExits(a) \/ ProcessCloses(a)
        \/ ReadOutput(a) \/ WriteAsset(a) \/ RenameAsset(a)
        \/ ChunkDocument(a) \/ WikifyChunks(a) \/ StoreChunks(a) \/ IndexPages(a)
        \/ StoreGraph(a) \/ StageFails(a) \/ Crash(a),
        NEW b \in Attempts
    PROVE  (ChildOK(b) /\ FilesOK(b))'
  BY DEF BuildNext, FilesInv
<1> USE DEF BuildTyped, FilesInv, ChildOK, FilesOK, ParserRuns, Goes, ParseFails, ParseReturns,
            Refuse, Parsing, parsing, stores
<1>1. CASE BeginAttempt(a)
  BY <1>1 DEF BeginAttempt
<1>2. CASE StopProcess(a)
  BY <1>2 DEF StopProcess
<1>14. CASE StopRefused(a)
  BY <1>14 DEF StopRefused
<1>3. CASE ProcessExits(a)
  BY <1>3 DEF ProcessExits
<1>4. CASE ProcessCloses(a)
  BY <1>4 DEF ProcessCloses
<1>5. CASE ReadOutput(a)
  BY <1>5 DEF ReadOutput
<1>6. CASE WriteAsset(a)
  BY <1>6 DEF WriteAsset
<1>7. CASE RenameAsset(a)
  BY <1>7 DEF RenameAsset
<1>8. CASE ChunkDocument(a) \/ WikifyChunks(a)
  BY <1>8 DEF ChunkDocument, WikifyChunks
<1>9. CASE StoreChunks(a)
  BY <1>9 DEF StoreChunks
<1>10. CASE IndexPages(a)
  BY <1>10 DEF IndexPages
<1>11. CASE StoreGraph(a)
  BY <1>11 DEF StoreGraph
<1>12. CASE StageFails(a)
  BY <1>12 DEF StageFails
<1>13. CASE Crash(a)
  BY <1>13 DEF Crash
<1> QED  BY <1>1, <1>2, <1>3, <1>4, <1>5, <1>6, <1>7, <1>8, <1>9, <1>10, <1>11, <1>12, <1>13,
            <1>14

\* Chunks are indexed after their images are published, and named after they are indexed.
LEMMA StoresNext == BuildTyped /\ StoresInv /\ BuildNext => StoresInv'
<1> SUFFICES ASSUME BuildTyped, StoresInv, NEW a \in Attempts,
        \/ BeginAttempt(a) \/ StopProcess(a) \/ StopRefused(a) \/ ProcessExits(a) \/ ProcessCloses(a)
        \/ ReadOutput(a) \/ WriteAsset(a) \/ RenameAsset(a)
        \/ ChunkDocument(a) \/ WikifyChunks(a) \/ StoreChunks(a) \/ IndexPages(a)
        \/ StoreGraph(a) \/ StageFails(a) \/ Crash(a)
    PROVE  StoredIsComplete' /\ \A b \in Attempts : AttemptOK(b)'
  BY DEF BuildNext, StoresInv
<1> USE DEF BuildTyped, StoresInv, StoredIsComplete, AttemptOK, Goes, ParseFails, ParseReturns,
            AfterParse, parsing, stores, ImagesOf
<1>1. CASE BeginAttempt(a)
  BY <1>1 DEF BeginAttempt
<1>2. CASE StopProcess(a)
  BY <1>2 DEF StopProcess
<1>14. CASE StopRefused(a)
  BY <1>14 DEF StopRefused
<1>3. CASE ProcessExits(a)
  BY <1>3 DEF ProcessExits
<1>4. CASE ProcessCloses(a)
  BY <1>4 DEF ProcessCloses
<1>5. CASE ReadOutput(a)
  BY <1>5 DEF ReadOutput
<1>6. CASE WriteAsset(a)
  BY <1>6 DEF WriteAsset
<1>7. CASE RenameAsset(a)
  BY <1>7 DEF RenameAsset
<1>8. CASE ChunkDocument(a) \/ WikifyChunks(a)
  BY <1>8 DEF ChunkDocument, WikifyChunks
<1>9. CASE StoreChunks(a)
  <2>1. PICK written \in SUBSET output[a].chunks :
            /\ es' = es \cup written
            /\ \/ BulkDone(output[a].chunks, written) /\ Goes(a, "wikified", "stored")
               \/ Goes(a, "wikified", "failed")
    BY <1>9 DEF StoreChunks
  <2>2. UNCHANGED <<parser, pages, graph, output, assets>>
    BY <1>9 DEF StoreChunks
  <2>3. ImagesOf(output[a]) \subseteq assets
    BY <2>1
  <2>4. \A o \in Outputs : ImagesOf(o)' \cap es' \subseteq assets'
    <3>1. \A o \in Outputs : ImagesOf(o) \cap output[a].chunks \subseteq ImagesOf(output[a])
      BY SameImages
    <3> QED  BY <2>1, <2>2, <2>3, <3>1
  <2>5. \A b \in Attempts : AttemptOK(b)'
    BY <2>1, <2>2 DEF BulkDone
  <2> QED  BY <2>1, <2>2, <2>4, <2>5
<1>10. CASE IndexPages(a)
  BY <1>10 DEF IndexPages
<1>11. CASE StoreGraph(a)
  BY <1>11 DEF StoreGraph
<1>12. CASE StageFails(a)
  BY <1>12 DEF StageFails
<1>13. CASE Crash(a)
  BY <1>13 DEF Crash
<1> QED  BY <1>1, <1>2, <1>3, <1>4, <1>5, <1>6, <1>7, <1>8, <1>9, <1>10, <1>11, <1>12, <1>13,
            <1>14

\* Every step keeps the invariant.
LEMMA BuildInvNext == BuildInv /\ [BuildNext]_buildVars => BuildInv'
<1> SUFFICES ASSUME BuildInv, [BuildNext]_buildVars PROVE BuildInv'
  OBVIOUS
<1>1. CASE BuildNext
  BY <1>1, BuildTypedNext, FilesNext, StoresNext DEF BuildInv
<1>2. CASE UNCHANGED buildVars
  BY <1>2 DEF BuildInv, BuildTyped, FilesInv, ChildOK, FilesOK, ParserRuns, StoresInv,
              StoredIsComplete, AttemptOK, ImagesOf, buildVars
<1> QED  BY <1>1, <1>2

\* The invariant holds throughout.
LEMMA BuildInvAlways == BuildSpec => []BuildInv
<1>1. BuildInit => BuildInv
  BY BuildInvInit
<1>2. BuildInv /\ [BuildNext]_buildVars => BuildInv'
  BY BuildInvNext
<1> QED  BY <1>1, <1>2, PTL DEF BuildSpec

-----------------------------------------------------------------------------
(* The theorems. *)

\* An attempt goes on only with a process that is gone and after cleaning up. However parsing
\* ends, by an exit, a timeout, an abort or a crash, a workspace is removed under a live
\* process only where killing it was refused, and files stay only where the file system
\* refused, or after a crash (runBoundedProcess settles on close, parse's finally).
THEOREM WorkspacesOutliveProcesses == BuildSpec => []WorkspaceOutlivesProcess
<1>1. BuildInv => WorkspaceOutlivesProcess
  BY DEF BuildInv, FilesInv, ChildOK, FilesOK, ParserRuns, Leaves, Parsing, AfterParse,
         WorkspaceOutlivesProcess
<1> QED  BY <1>1, BuildInvAlways, PTL

\* However attempts overlap, fail and crash, page index and graph name only chunks in the
\* index, and an indexed image has its asset (the order of PipelineStageRunner.run).
THEOREM StoresAreComplete == BuildSpec => []StoredIsComplete
<1>1. BuildInv => StoredIsComplete
  BY DEF BuildInv, StoresInv
<1> QED  BY <1>1, BuildInvAlways, PTL

-----------------------------------------------------------------------------
(* The shutdown of the server: ClosedAfterUse. That a resource is closed   *)
(* once, after its users are gone, follows from how far the shutdown has   *)
(* come.                                                                   *)

ServerTyped ==
    /\ request \in [Requests -> {"none", "open", "left", "ended", "broken"}]
    /\ polling \in BOOLEAN /\ busy \in BOOLEAN
    /\ collecting \in BOOLEAN /\ listening \in BOOLEAN
    /\ step \in 0 .. LastStep
    /\ closings \in [Resources -> Nat]
    /\ exit \in {"none", "0", "1"}

\* No poll starts after the first signal, and none is at work once the worker has stopped;
\* no request comes in after that, and none is connected once the first resource is closed.
UsersGone ==
    /\ polling => step = 0
    /\ step > WorkerStep => ~busy /\ ~collecting /\ ~listening
    /\ step > ServerStep => ConnectionsGone

\* A resource is closed at its own step and never again.
ClosedInOrder ==
    /\ \A k \in DOMAIN RuntimeOrder :
        /\ closings[RuntimeOrder[k]] <= 1
        /\ step < ServerStep + k => closings[RuntimeOrder[k]] = 0
    /\ closings["driver"] <= 1
    /\ step < LastStep => closings["driver"] = 0

ServerInv == ServerTyped /\ UsersGone /\ ClosedInOrder

-----------------------------------------------------------------------------
(* Lemmas. *)

\* The numbers of the steps.
LEMMA StepNames ==
    /\ WorkerStep = 1 /\ ServerStep = 2 /\ DriverStep = 9 /\ LastStep = 10
    /\ DOMAIN RuntimeOrder = 1 .. 7
BY DEF WorkerStep, ServerStep, DriverStep, LastStep, RuntimeOrder

\* Each resource has its place in the order, other than the driver.
LEMMA StepPlaces ==
    /\ \A k \in 1 .. 7 : RuntimeOrder[k] \in Resources /\ RuntimeOrder[k] # "driver"
    /\ \A j, k \in 1 .. 7 : RuntimeOrder[j] = RuntimeOrder[k] => j = k
    /\ "driver" \in Resources
    /\ \A c \in Resources : c = "driver" \/ \E k \in 1 .. 7 : c = RuntimeOrder[k]
BY DEF RuntimeOrder, Resources, RuntimeResources

\* A running server has closed nothing.
LEMMA ServerInvInit == ServerInit => ServerInv
<1> SUFFICES ASSUME ServerInit PROVE ServerInv
  OBVIOUS
<1>1. ServerTyped
  <2>1. request \in [Requests -> {"none", "open", "left", "ended", "broken"}]
    BY DEF ServerInit
  <2>2. closings \in [Resources -> Nat]
    BY DEF ServerInit
  <2>3. step \in 0 .. LastStep
    BY StepNames DEF ServerInit
  <2> QED  BY <2>1, <2>2, <2>3 DEF ServerInit, ServerTyped
<1>2. UsersGone
  BY StepNames DEF ServerInit, UsersGone
<1>3. ClosedInOrder
  BY StepNames, StepPlaces DEF ServerInit, ClosedInOrder
<1> QED  BY <1>1, <1>2, <1>3 DEF ServerInv

\* What a step that closes nothing and moves no step leaves true.
LEMMA ClosingsStay == ClosedInOrder /\ UNCHANGED <<step, closings>> => ClosedInOrder'
BY DEF ClosedInOrder

\* Closing what is due keeps the order: the resource of this step was not closed yet.
LEMMA CloseNext ==
    ASSUME ServerTyped, ClosedInOrder, NEW k \in 1 .. 7, step = ServerStep + k - 1,
           CloseResource(RuntimeOrder[k]), step' = step + 1
    PROVE  ClosedInOrder' /\ closings' \in [Resources -> Nat]
<1>1. RuntimeOrder[k] \in Resources /\ closings[RuntimeOrder[k]] = 0
  BY StepNames, StepPlaces DEF ClosedInOrder
<1>2. closings' = [closings EXCEPT ![RuntimeOrder[k]] = 1]
  BY <1>1 DEF CloseResource
<1>3. closings' \in [Resources -> Nat]
  BY <1>2 DEF ServerTyped
<1>4. closings'[RuntimeOrder[k]] = 1
  BY <1>1, <1>2 DEF ServerTyped
<1>5. \A j \in 1 .. 7 : j # k => closings'[RuntimeOrder[j]] = closings[RuntimeOrder[j]]
  BY <1>2, StepPlaces DEF ServerTyped
<1>6. closings'["driver"] = closings["driver"]
  BY <1>2, StepPlaces DEF ServerTyped
<1> QED  BY <1>3, <1>4, <1>5, <1>6, StepNames DEF ClosedInOrder

\* Requests come and go; none comes once the server has stopped listening.
LEMMA RequestInv ==
    ASSUME ServerInv, NEW r \in Requests,
           \/ \E t \in {"sse", "json"} : ConnectRequest(r, t)
           \/ ClientLeaves(r) \/ EmitEvent(r) \/ FinishRun(r)
    PROVE  ServerInv'
<1>1. UNCHANGED <<polling, busy, collecting, listening, step, closings, exit>>
  BY DEF ConnectRequest, ClientLeaves, EmitEvent, FinishRun
<1>2. ServerTyped'
  BY <1>1 DEF ServerInv, ServerTyped, ConnectRequest, ClientLeaves, EmitEvent, FinishRun
<1>3. UsersGone'
  <2>1. \A q \in Requests : request'[q] = "open" => request[q] = "open" \/ listening
    BY DEF ServerInv, ServerTyped, ConnectRequest, ClientLeaves, EmitEvent, FinishRun
  <2> QED  BY <1>1, <2>1, StepNames DEF ServerInv, ServerTyped, UsersGone, ConnectionsGone
<1> QED  BY <1>1, <1>2, <1>3, ClosingsStay DEF ServerInv

\* The worker starts no poll after the first signal.
LEMMA WorkerInv == ServerInv /\ (PollStarts \/ PollReturns) => ServerInv'
<1> SUFFICES ASSUME ServerInv, PollStarts \/ PollReturns PROVE ServerInv'
  OBVIOUS
<1>1. UNCHANGED <<request, polling, collecting, listening, step, closings, exit>>
  BY DEF PollStarts, PollReturns
<1>2. busy' \in BOOLEAN /\ (busy' => busy \/ polling)
  BY DEF PollStarts, PollReturns
<1>3. ServerTyped' /\ UsersGone'
  BY <1>1, <1>2, StepNames DEF ServerInv, ServerTyped, UsersGone, ConnectionsGone
<1> QED  BY <1>1, <1>3, ClosingsStay DEF ServerInv

\* The steps of the shutdown follow one another.
LEMMA ShutdownInv ==
    ASSUME ServerInv,
           \/ Signal \/ WorkerStopped \/ CloseExporter \/ CloseRuntime \/ CloseRejects
           \/ CloseDriver \/ ForceExit
    PROVE  ServerInv'
<1> USE DEF ServerInv
<1>1. CASE Signal
  <2>1. /\ UNCHANGED <<request, busy, collecting, listening, closings, exit>>
        /\ polling' = FALSE /\ step' = IF step = 0 THEN 1 ELSE step
    BY <1>1, StepNames DEF Signal, StepAfterSignal
  <2>2. ServerTyped'
    <3>1. step' \in 0 .. LastStep
      BY <2>1, StepNames DEF ServerTyped
    <3> QED  BY <2>1, <3>1 DEF ServerTyped
  <2>3. UsersGone'
    BY <2>1, StepNames DEF ServerTyped, UsersGone, ConnectionsGone
  <2>4. ClosedInOrder'
    BY <2>1, StepNames DEF ServerTyped, ClosedInOrder
  <2> QED  BY <2>2, <2>3, <2>4
<1>2. CASE WorkerStopped
  <2>1. /\ UNCHANGED <<request, polling, busy, closings, exit>>
        /\ ~busy /\ collecting' = FALSE /\ listening' = FALSE /\ step = 1 /\ step' = 2
    BY <1>2, StepNames DEF WorkerStopped, WorkerIdle
  <2>2. ServerTyped'
    <3>1. step' \in 0 .. LastStep
      BY <2>1, StepNames DEF ServerTyped
    <3> QED  BY <2>1, <3>1 DEF ServerTyped
  <2>3. UsersGone'
    BY <2>1, StepNames DEF ServerTyped, UsersGone, ConnectionsGone
  <2>4. ClosedInOrder'
    BY <2>1, StepNames DEF ServerTyped, ClosedInOrder
  <2> QED  BY <2>2, <2>3, <2>4
<1>3. CASE CloseExporter
  <2>1. /\ UNCHANGED <<request, polling, busy, collecting, listening, exit>>
        /\ step = 2 /\ step' = step + 1 /\ ConnectionsGone
        /\ CloseResource(RuntimeOrder[1])
    BY <1>3, StepNames DEF CloseExporter, RuntimeOrder
  <2>2. ClosedInOrder' /\ closings' \in [Resources -> Nat]
    BY <2>1, CloseNext, StepNames
  <2> QED  BY <2>1, <2>2, StepNames DEF ServerTyped, UsersGone, ConnectionsGone
<1>4. CASE CloseRuntime
  <2> DEFINE k == step - ServerStep + 1
  <2>1. /\ UNCHANGED <<request, polling, busy, collecting, listening, exit>>
        /\ step \in 3 .. 8 /\ step' = step + 1
        /\ CloseResource(RuntimeOrder[k])
    BY <1>4, StepNames DEF CloseRuntime, NextRuntimeResource
  <2>2. k \in 1 .. 7 /\ step = ServerStep + k - 1
    BY <2>1, StepNames
  <2>3. ClosedInOrder' /\ closings' \in [Resources -> Nat]
    BY <2>1, <2>2, CloseNext
  <2> QED  BY <2>1, <2>3, StepNames DEF ServerTyped, UsersGone, ConnectionsGone
<1>5. CASE CloseRejects
  <2>1. /\ UNCHANGED <<request, polling, busy, collecting, listening, closings, exit>>
        /\ step \in 3 .. 8 /\ step' = 9
    BY <1>5, StepNames DEF CloseRejects
  <2> QED  BY <2>1, StepNames DEF ServerTyped, UsersGone, ConnectionsGone, ClosedInOrder
<1>6. CASE CloseDriver
  <2>1. /\ UNCHANGED <<request, polling, busy, collecting, listening>>
        /\ step = 9 /\ step' = 10 /\ exit' = "0"
        /\ CloseResource("driver") \/ UNCHANGED closings
    BY <1>6, StepNames DEF CloseDriver
  <2>2. closings["driver"] = 0
    BY <2>1, StepNames DEF ClosedInOrder
  <2>3. /\ closings' \in [Resources -> Nat] /\ closings'["driver"] <= 1
        /\ \A k \in 1 .. 7 : closings'[RuntimeOrder[k]] = closings[RuntimeOrder[k]]
    BY <2>1, <2>2, StepPlaces DEF CloseResource, ServerTyped
  <2> QED  BY <2>1, <2>3, StepNames DEF ServerTyped, UsersGone, ConnectionsGone, ClosedInOrder
<1>7. CASE ForceExit
  <2>1. /\ UNCHANGED <<request, polling, busy, collecting, listening, step, closings>>
        /\ exit' = "1"
    BY <1>7 DEF ForceExit
  <2> QED  BY <2>1, ClosingsStay DEF ServerTyped, UsersGone, ConnectionsGone
<1> QED  BY <1>1, <1>2, <1>3, <1>4, <1>5, <1>6, <1>7

\* Every step keeps the invariant.
LEMMA ServerInvNext == ServerInv /\ [ServerNext]_serverVars => ServerInv'
<1> SUFFICES ASSUME ServerInv, [ServerNext]_serverVars PROVE ServerInv'
  OBVIOUS
<1>1. CASE ServerNext
  BY <1>1, RequestInv, WorkerInv, ShutdownInv DEF ServerNext
<1>2. CASE UNCHANGED serverVars
  <2>1. UNCHANGED <<request, polling, busy, collecting, listening, step, closings, exit>>
    BY <1>2 DEF serverVars
  <2> QED  BY <2>1, ClosingsStay DEF ServerInv, ServerTyped, UsersGone, ConnectionsGone
<1> QED  BY <1>1, <1>2

\* What has been closed has no users left and was closed once.
LEMMA ServerInvPromises == ServerInv => ClosedAfterUse
<1> SUFFICES ASSUME ServerInv PROVE ClosedAfterUse
  OBVIOUS
<1>1. \A k \in 1 .. 7 : closings[RuntimeOrder[k]] > 0 => step > ServerStep
  BY StepNames, StepPlaces DEF ServerInv, ServerTyped, ClosedInOrder
<1>2. closings["driver"] > 0 => step > ServerStep
  BY StepNames, StepPlaces DEF ServerInv, ServerTyped, ClosedInOrder
<1>3. \A c \in Resources : closings[c] > 0 => step > ServerStep
  BY <1>1, <1>2, StepPlaces
<1>4. \A c \in Resources : closings[c] <= 1
  BY StepPlaces, StepNames DEF ServerInv, ClosedInOrder
<1>5. RuntimeResources \subseteq Resources
  BY DEF Resources
<1>6. step > ServerStep => ConnectionsGone /\ ~busy /\ ~collecting
  BY StepNames DEF ServerInv, ServerTyped, UsersGone
<1> QED  BY <1>3, <1>4, <1>5, <1>6 DEF ConnectionsGone, ClosedAfterUse

-----------------------------------------------------------------------------
(* The theorem. *)

\* However many requests are served and signals arrive, and whatever fails on the way, nothing
\* is closed under a connected client or a poll at work, or twice (doShutdown's order,
\* worker.stop's wait, the memoised promise).
THEOREM NothingClosesUnderItsUsers == ServerSpec => []ClosedAfterUse
<1>1. ServerInit => ServerInv
  BY ServerInvInit
<1>2. ServerInv /\ [ServerNext]_serverVars => ServerInv'
  BY ServerInvNext
<1>3. ServerInv => ClosedAfterUse
  BY ServerInvPromises
<1> QED  BY <1>1, <1>2, <1>3, PTL DEF ServerSpec

-----------------------------------------------------------------------------
(* The composer of the browser: AttachmentsOfThread. A pick that is still  *)
(* of its generation was made since the composer was last cleared: the     *)
(* check after each await then rules out every thread but the one it was   *)
(* made in.                                                                *)

BrowserSpec == BrowserInit /\ [][BrowserNext]_browserVars

Paged(p) == p = [list |-> p.list, active |-> p.active, messages |-> p.messages]
Places(S) == [thread : S, cleared : BOOLEAN]
Sequences(S) ==
    /\ picks \in Seq([place : Places(S), left : Nat, fresh : BOOLEAN])
    /\ attachments \in Seq(Places(S))
FreshPicks == \A k \in DOMAIN picks : picks[k].fresh => ~picks[k].place.cleared

BrowserInv ==
    /\ Paged(page) /\ Paged(stored)
    /\ \E S : Sequences(S)
    /\ FreshPicks
    /\ AttachmentsOfThread

-----------------------------------------------------------------------------
\* A cleared composer holds nothing, and no earlier pick is of its generation.
LEMMA PicksCleared ==
    ASSUME BrowserInv, ClearComposer, Paged(page'), Paged(stored')
    PROVE  BrowserInv'
<1>1. PICK S : Sequences(S)
  BY DEF BrowserInv
<1>2. attachments' = << >>
  BY DEF ClearComposer
<1>3. picks' = [k \in DOMAIN picks |->
                  [picks[k] EXCEPT !.place.cleared = TRUE, !.fresh = FALSE]]
  BY DEF ClearComposer, NextGeneration
<1> DEFINE P == [place : Places(S), left : Nat, fresh : BOOLEAN]
<1>4. picks \in Seq(P)
  BY <1>1 DEF Sequences
<1>5. \A k \in DOMAIN picks : picks'[k] \in P /\ ~picks'[k].fresh
  <2> SUFFICES ASSUME NEW k \in DOMAIN picks
               PROVE  picks'[k] \in P /\ ~picks'[k].fresh
    OBVIOUS
  <2>1. picks[k] \in P
    <3> HIDE DEF P
    <3> QED  BY <1>4, LenProperties, ElementOfSeq
  <2>2. picks'[k] = [picks[k] EXCEPT !.place.cleared = TRUE, !.fresh = FALSE]
    BY <1>3
  <2> QED  BY <2>1, <2>2 DEF Places
<1>6. picks' \in Seq(P) /\ DOMAIN picks' = DOMAIN picks
  <2> HIDE DEF P
  <2>1. DOMAIN picks = 1 .. Len(picks) /\ Len(picks) \in Nat
    BY <1>4
  <2>2. picks' = [k \in 1 .. Len(picks) |-> picks'[k]]
    BY <1>3, <2>1
  <2>3. \A k \in 1 .. Len(picks) : picks'[k] \in P
    BY <1>5, <2>1
  <2> QED  BY <2>1, <2>2, <2>3
<1>7. Sequences(S)'
  BY <1>2, <1>6 DEF Sequences
<1>8. FreshPicks' /\ AttachmentsOfThread'
  BY <1>2, <1>5, <1>6 DEF FreshPicks, AttachmentsOfThread
<1> QED  BY <1>7, <1>8 DEF BrowserInv

\* Steps that leave the composer and the thread alone.
LEMMA PicksKept ==
    ASSUME BrowserInv, Paged(page'), Paged(stored'), page'.active = page.active,
           UNCHANGED <<attachments, picks>>
    PROVE  BrowserInv'
<1>1. PICK S : Sequences(S)
  BY DEF BrowserInv
<1>2. Sequences(S)'
  BY <1>1 DEF Sequences
<1>3. FreshPicks' /\ AttachmentsOfThread'
  BY DEF BrowserInv, FreshPicks, AttachmentsOfThread
<1> QED  BY <1>2, <1>3 DEF BrowserInv

\* A page with other threads.
LEMMA Relists ==
    ASSUME NEW p, Paged(p), NEW list, NEW t
    PROVE  Paged([p EXCEPT !.list = list, !.active = t])
<1>1. PICK l, a, m : p = [list |-> l, active |-> a, messages |-> m]
  BY DEF Paged
<1>2. PICK q : q = [list |-> list, active |-> a, messages |-> m]
  OBVIOUS
<1>3. [p EXCEPT !.list = list] = q
  BY <1>1, <1>2
<1>4. [q EXCEPT !.active = t] = [list |-> list, active |-> t, messages |-> m]
  BY <1>2
<1>5. [p EXCEPT !.list = list, !.active = t] = [[p EXCEPT !.list = list] EXCEPT !.active = t]
  OBVIOUS
<1>6. [p EXCEPT !.list = list, !.active = t] = [list |-> list, active |-> t, messages |-> m]
  BY <1>3, <1>4, <1>5
<1> QED  BY <1>6 DEF Paged

\* Saving keeps the shape of the page.
LEMMA SavesPages ==
    ASSUME NEW p, Paged(p)
    PROVE  Paged(Saved(p))
BY DEF Paged, Saved

\* A new pick is of the thread it is made in; earlier ones are no longer current.
LEMMA PickFilesKeeps ==
    ASSUME BrowserInv, NEW n \in 1 .. 2, PickFiles(n)
    PROVE  BrowserInv'
<1>1. PICK S : Sequences(S)
  BY DEF BrowserInv
<1> PICK T : T = S \cup {page.active}
  OBVIOUS
<1> DEFINE P == [place : Places(T), left : Nat, fresh : BOOLEAN]
<1> DEFINE Q == [place : Places(S), left : Nat, fresh : BOOLEAN]
<1> DEFINE new == [place |-> [thread |-> page.active, cleared |-> FALSE],
                   left |-> n, fresh |-> TRUE]
<1> DEFINE old == [k \in DOMAIN picks |-> [picks[k] EXCEPT !.fresh = FALSE]]
<1>2. picks \in Seq(Q)
  BY <1>1 DEF Sequences
<1>3. \A k \in DOMAIN picks : old[k] \in P /\ ~old[k].fresh
  <2> SUFFICES ASSUME NEW k \in DOMAIN picks PROVE old[k] \in P /\ ~old[k].fresh
    OBVIOUS
  <2>1. picks[k] \in Q
    <3> HIDE DEF Q, old, new, P
    <3> QED  BY <1>2, LenProperties, ElementOfSeq
  <2>2. old[k] = [picks[k] EXCEPT !.fresh = FALSE]
    OBVIOUS
  <2> HIDE DEF old
  <2> QED  BY <2>1, <2>2 DEF Places
<1>4. new \in P /\ ~new.place.cleared
  BY DEF Places
<1>5. picks' = Append(old, new) /\ UNCHANGED <<page, stored, attachments>>
  BY DEF PickFiles
<1>6. old \in Seq(P)
  <2>1. DOMAIN picks = 1 .. Len(picks) /\ Len(picks) \in Nat
    BY <1>2
  <2>2. \A k \in 1 .. Len(picks) : old[k] \in P
    BY <1>3, <2>1
  <2>3. old = [k \in 1 .. Len(picks) |-> old[k]]
    BY <2>1
  <2> HIDE DEF old, P
  <2> QED  BY <2>1, <2>2, <2>3
<1> HIDE DEF old, new, P
<1>7. /\ picks' \in Seq(P) /\ Len(picks') = Len(old) + 1
      /\ \A k \in 1 .. Len(old) : picks'[k] = old[k]
      /\ picks'[Len(old) + 1] = new
  BY <1>4, <1>5, <1>6
<1>8. attachments' \in Seq(Places(T))
  <2>1. attachments \in Seq(Places(S)) /\ Places(S) \subseteq Places(T)
    BY <1>1 DEF Sequences, Places
  <2> QED  BY <1>5, <2>1, SeqMonotonic
<1>9. Sequences(T)'
  BY <1>7, <1>8 DEF Sequences, P
<1>10. FreshPicks'
  <2>1. DOMAIN picks' = 1 .. Len(old) + 1 /\ Len(old) \in Nat /\ DOMAIN old = 1 .. Len(old)
    BY <1>6, <1>7
  <2>2. DOMAIN old = DOMAIN picks
    BY DEF old
  <2> SUFFICES ASSUME NEW k \in 1 .. Len(old) + 1, picks'[k].fresh
               PROVE  ~picks'[k].place.cleared
    BY <2>1 DEF FreshPicks
  <2>3. CASE k = Len(old) + 1
    BY <1>4, <1>7, <2>3
  <2>4. CASE k # Len(old) + 1
    BY <1>3, <1>7, <2>1, <2>2, <2>4
  <2> QED  BY <2>3, <2>4
<1> QED  BY <1>5, <1>9, <1>10 DEF BrowserInv, AttachmentsOfThread

\* A file that was read is attached only while its pick is current and its thread open.
LEMMA ReadFileKeeps ==
    ASSUME BrowserInv, NEW k \in DOMAIN picks, ReadFile(k)
    PROVE  BrowserInv'
<1>1. PICK S : Sequences(S)
  BY DEF BrowserInv
<1> DEFINE P == [place : Places(S), left : Nat, fresh : BOOLEAN]
<1>2. picks \in Seq(P) /\ picks[k] \in P /\ attachments \in Seq(Places(S))
  <2>1. picks \in Seq(P) /\ attachments \in Seq(Places(S))
    BY <1>1 DEF Sequences
  <2> HIDE DEF P
  <2> QED  BY <2>1, LenProperties, ElementOfSeq
<1>3. UNCHANGED <<page, stored>>
  BY DEF ReadFile
<1>4. PICK left \in Nat : picks' = [picks EXCEPT ![k].left = left]
  <2>1. picks[k].left > 0 => picks[k].left - 1 \in Nat
    BY <1>2
  <2> QED  BY <2>1 DEF ReadFile
<1>5. /\ picks' \in Seq(P) /\ DOMAIN picks' = DOMAIN picks
      /\ \A i \in DOMAIN picks :
           picks'[i].fresh = picks[i].fresh /\ picks'[i].place = picks[i].place
  <2>1. [picks[k] EXCEPT !.left = left] \in P
    BY <1>2
  <2>2. picks' = [picks EXCEPT ![k] = [picks[k] EXCEPT !.left = left]]
    BY <1>4
  <2>3. picks' \in Seq(P)
    <3> HIDE DEF P
    <3> QED  BY <1>2, <2>1, <2>2, ExceptSeq
  <2> QED  BY <1>2, <2>2, <2>3
<1>6. FreshPicks'
  BY <1>5 DEF BrowserInv, FreshPicks
<1>7. CASE attachments' = attachments
  BY <1>2, <1>3, <1>5, <1>6, <1>7 DEF BrowserInv, Sequences, AttachmentsOfThread
<1>8. CASE StillWanted(k) /\ attachments' = Append(attachments, picks[k].place)
  <2>1. picks[k].place = [thread |-> page.active, cleared |-> FALSE]
    <3>1. picks[k].place \in Places(S) /\ picks[k].place.thread = page.active
      BY <1>2, <1>8 DEF StillWanted
    <3>2. ~picks[k].place.cleared
      BY <1>8 DEF StillWanted, BrowserInv, FreshPicks
    <3> QED  BY <3>1, <3>2 DEF Places
  <2>2. /\ attachments' \in Seq(Places(S)) /\ Len(attachments') = Len(attachments) + 1
        /\ \A i \in 1 .. Len(attachments) : attachments'[i] = attachments[i]
        /\ attachments'[Len(attachments) + 1] = picks[k].place
    BY <1>2, <1>8
  <2>3. AttachmentsOfThread'
    <3> SUFFICES ASSUME NEW i \in 1 .. Len(attachments) + 1
                 PROVE  attachments'[i] = [thread |-> page.active, cleared |-> FALSE]
      BY <1>3, <2>2 DEF AttachmentsOfThread
    <3>1. Len(attachments) \in Nat /\ DOMAIN attachments = 1 .. Len(attachments)
      BY <1>2
    <3>2. i \in DOMAIN attachments \/ i = Len(attachments) + 1
      BY <3>1
    <3> QED  BY <2>1, <2>2, <3>1, <3>2 DEF BrowserInv, AttachmentsOfThread
  <2> QED  BY <1>3, <1>5, <1>6, <2>2, <2>3 DEF BrowserInv, Sequences
<1>9. \/ attachments' = attachments
      \/ StillWanted(k) /\ attachments' = Append(attachments, picks[k].place)
  BY DEF ReadFile
<1> QED  BY <1>7, <1>8, <1>9

\* What is left after one is removed was there before.
LEMMA RemoveAttachmentKeeps ==
    ASSUME BrowserInv, NEW i \in DOMAIN attachments, RemoveAttachment(i)
    PROVE  BrowserInv'
<1>1. PICK S : Sequences(S)
  BY DEF BrowserInv
<1> DEFINE a == attachments
<1> DEFINE before == SubSeq(a, 1, i - 1)
<1> DEFINE after == SubSeq(a, i + 1, Len(a))
<1> DEFINE here == [thread |-> page.active, cleared |-> FALSE]
<1>2. a \in Seq(Places(S)) /\ Len(a) \in Nat /\ i \in 1 .. Len(a)
  BY <1>1 DEF Sequences
<1>3. a \in Seq({here})
  <2>1. \A j \in 1 .. Len(a) : a[j] \in {here}
    BY <1>2 DEF BrowserInv, AttachmentsOfThread
  <2>2. a = [j \in 1 .. Len(a) |-> a[j]]
    BY <1>2
  <2> QED  BY <1>2, <2>1, <2>2
<1>4. attachments' = before \o after /\ UNCHANGED <<page, stored, picks>>
  BY DEF RemoveAttachment, RemoveAt
<1>5. before \in Seq({here}) /\ after \in Seq({here})
  BY <1>2, <1>3, SubSeqProperties
<1>6. before \in Seq(Places(S)) /\ after \in Seq(Places(S))
  BY <1>2, SubSeqProperties
<1>7. attachments' \in Seq({here}) /\ attachments' \in Seq(Places(S))
  BY <1>4, <1>5, <1>6, ConcatProperties
<1>8. AttachmentsOfThread'
  <2> SUFFICES ASSUME NEW j \in DOMAIN attachments' PROVE attachments'[j] = here
    BY <1>4 DEF AttachmentsOfThread
  <2> HIDE DEF here, before, after
  <2>1. attachments'[j] \in {here}
    BY <1>7, LenProperties, ElementOfSeq
  <2> QED  BY <2>1
<1> QED  BY <1>1, <1>4, <1>7, <1>8 DEF BrowserInv, Sequences, FreshPicks

\* Every handler of the page.
LEMMA HandlersKeep ==
    ASSUME BrowserInv, BrowserNext
    PROVE  BrowserInv'
<1>1. Paged(page) /\ Paged(stored)
  BY DEF BrowserInv
<1>2. ASSUME NEW p, Paged(p), Save(p)
      PROVE  Paged(page') /\ Paged(stored')
  BY <1>2, SavesPages DEF Save
<1>3. ASSUME NEW p, Paged(p), StartTurn(p)
      PROVE  BrowserInv'
  <2> DEFINE msg == [thread |-> p.active, status |-> "running", text |-> "none",
                     named |-> FALSE, kept |-> TRUE]
  <2> DEFINE q == [p EXCEPT !.messages = Append(@, msg)]
  <2>1. /\ page' = [q EXCEPT !.messages[Len(q.messages)].named = TRUE]
        /\ stored' = Saved(q) /\ ClearComposer
    BY <1>3 DEF StartTurn
  <2>2. Paged(q)
    BY <1>3 DEF Paged
  <2> HIDE DEF q
  <2>3. Paged(page') /\ Paged(stored')
    BY <2>1, <2>2, SavesPages DEF Paged
  <2> QED  BY <2>1, <2>3, PicksCleared
<1>4. CASE SubmitPrompt
  BY <1>1, <1>3, <1>4 DEF SubmitPrompt
<1>5. ASSUME NEW m \in DOMAIN page.messages, RegenerateAnswer(m)
      PROVE  BrowserInv'
  <2>1. PICK messages : StartTurn([page EXCEPT !.messages = messages])
    BY <1>5 DEF RegenerateAnswer
  <2>2. Paged([page EXCEPT !.messages = messages])
    BY <1>1 DEF Paged
  <2> QED  BY <1>3, <2>1, <2>2
<1>6. CASE ReceiveToken
  <2>1. /\ page' = [page EXCEPT !.messages[turn].text = "some"]
        /\ UNCHANGED <<stored, attachments, picks>>
    BY <1>6 DEF ReceiveToken
  <2>2. Paged(page') /\ page'.active = page.active
    BY <1>1, <2>1 DEF Paged
  <2> QED  BY <1>1, <2>1, <2>2, PicksKept
<1>7. CASE StopTurn
  BY <1>1, <1>7, PicksKept DEF StopTurn
<1>8. ASSUME NEW status, EndTurn(status)
      PROVE  BrowserInv'
  <2>1. PICK p : /\ p = [page EXCEPT !.messages[turn].status = status,
                                     !.messages[turn].text = "final"]
                 /\ Save(p) /\ UNCHANGED <<attachments, picks>>
    BY <1>8 DEF EndTurn
  <2>2. Paged(p) /\ p.active = page.active
    BY <1>1, <2>1 DEF Paged
  <2>3. page' = p
    BY <2>1 DEF Save
  <2> QED  BY <1>2, <2>1, <2>2, <2>3, PicksKept
<1>9. CASE StartNewThread
  <2>1. CASE UNCHANGED <<page, stored, attachments, picks>>
    BY <1>1, <2>1, PicksKept
  <2>2. CASE /\ \E t \in Unused : Save([page EXCEPT !.list = <<t>> \o @, !.active = t])
             /\ ClearComposer
    <3>1. PICK list, t : Save([page EXCEPT !.list = list, !.active = t])
      BY <2>2
    <3>2. Paged([page EXCEPT !.list = list, !.active = t])
      BY <1>1, Relists
    <3> QED  BY <1>2, <2>2, <3>1, <3>2, PicksCleared
  <2> QED  BY <1>9, <2>1, <2>2 DEF StartNewThread
<1>10. ASSUME NEW t \in Threads, SelectThread(t)
       PROVE  BrowserInv'
  <2>1. Save([page EXCEPT !.active = t]) /\ ClearComposer
    BY <1>10 DEF SelectThread
  <2>2. Paged([page EXCEPT !.active = t])
    BY <1>1 DEF Paged
  <2> QED  BY <1>2, <2>1, <2>2, PicksCleared
<1>11. ASSUME NEW t \in Threads, DeleteThreadClick(t)
       PROVE  BrowserInv'
  BY <1>1, <1>11, PicksKept DEF DeleteThreadClick
<1>12. ASSUME NEW t \in Threads, DeleteThreadCommit(t)
       PROVE  BrowserInv'
  <2>1. /\ \E list, u : Save([page EXCEPT !.list = list, !.active = u])
        /\ ClearComposer
    BY <1>12 DEF DeleteThreadCommit
  <2>2. PICK list, u : Save([page EXCEPT !.list = list, !.active = u])
    BY <2>1
  <2>3. Paged([page EXCEPT !.list = list, !.active = u])
    BY <1>1, Relists
  <2> QED  BY <1>2, <2>1, <2>2, <2>3, PicksCleared
<1>13. CASE ReloadPage
  <2>1. PICK S : Sequences(S)
    BY DEF BrowserInv
  <2> DEFINE P == [place : Places(S), left : Nat, fresh : BOOLEAN]
  <2>2. /\ attachments' = << >> /\ page' = stored /\ stored' = stored
        /\ picks' = [k \in DOMAIN picks |-> [picks[k] EXCEPT !.left = 0, !.fresh = FALSE]]
    BY <1>13 DEF ReloadPage
  <2>3. picks \in Seq(P)
    BY <2>1 DEF Sequences
  <2>4. \A k \in DOMAIN picks : picks'[k] \in P /\ ~picks'[k].fresh
    <3> SUFFICES ASSUME NEW k \in DOMAIN picks
                 PROVE  picks'[k] \in P /\ ~picks'[k].fresh
      OBVIOUS
    <3>1. picks[k] \in P
      <4> HIDE DEF P
      <4> QED  BY <2>3, LenProperties, ElementOfSeq
    <3>2. picks'[k] = [picks[k] EXCEPT !.left = 0, !.fresh = FALSE]
      BY <2>2
    <3>3. PICK e : e = picks[k]
      OBVIOUS
    <3>4. PICK f : f = [e EXCEPT !.left = 0]
      OBVIOUS
    <3>5. f \in P
      BY <3>1, <3>3, <3>4
    <3>6. picks'[k] = [f EXCEPT !.fresh = FALSE]
      <4>1. [e EXCEPT !.left = 0, !.fresh = FALSE] = [[e EXCEPT !.left = 0] EXCEPT !.fresh = FALSE]
        OBVIOUS
      <4> QED  BY <3>2, <3>3, <3>4, <4>1
    <3> QED  BY <3>5, <3>6
  <2>5. picks' \in Seq(P) /\ DOMAIN picks' = DOMAIN picks
    <3> HIDE DEF P
    <3>1. DOMAIN picks = 1 .. Len(picks) /\ Len(picks) \in Nat
      BY <2>3
    <3>2. picks' = [k \in 1 .. Len(picks) |-> picks'[k]]
      BY <2>2, <3>1
    <3>3. \A k \in 1 .. Len(picks) : picks'[k] \in P
      BY <2>4, <3>1
    <3> QED  BY <3>1, <3>2, <3>3
  <2>6. Sequences(S)'
    <3>1. << >> \in Seq(Places(S))
      BY EmptySeq
    <3>2. attachments' = << >>
      BY <2>2
    <3> QED  BY <2>5, <3>1, <3>2 DEF Sequences
  <2>7. FreshPicks' /\ AttachmentsOfThread'
    <3>1. attachments' = << >>
      BY <2>2
    <3> QED  BY <2>4, <2>5, <3>1 DEF FreshPicks, AttachmentsOfThread
  <2> QED  BY <1>1, <2>2, <2>6, <2>7 DEF BrowserInv
<1> QED  BY <1>4, <1>5, <1>6, <1>7, <1>8, <1>9, <1>10, <1>11, <1>12, <1>13,
            PickFilesKeeps, ReadFileKeeps, RemoveAttachmentKeeps DEF BrowserNext

\* Whatever is opened, deleted, sent or stopped while files are read, and in any order,
\* what the composer would send was picked for the thread it is in.
THEOREM AttachmentsStayInTheirThread == BrowserSpec => []AttachmentsOfThread
<1>1. BrowserInit => BrowserInv
  <2> SUFFICES ASSUME BrowserInit PROVE BrowserInv
    OBVIOUS
  <2>1. Paged(page) /\ Paged(stored)
    BY DEF BrowserInit, FirstPage, Paged
  <2>2. Sequences({}) /\ FreshPicks /\ AttachmentsOfThread
    BY DEF BrowserInit, Sequences, FreshPicks, AttachmentsOfThread
  <2> QED  BY <2>1, <2>2 DEF BrowserInv
<1>2. BrowserInv /\ [BrowserNext]_browserVars => BrowserInv'
  <2> SUFFICES ASSUME BrowserInv, [BrowserNext]_browserVars PROVE BrowserInv'
    OBVIOUS
  <2>1. CASE UNCHANGED browserVars
    BY <2>1, PicksKept DEF browserVars, BrowserInv
  <2> QED  BY <2>1, HandlersKeep
<1>3. BrowserInv => AttachmentsOfThread
  BY DEF BrowserInv
<1> QED  BY <1>1, <1>2, <1>3, PTL DEF BrowserSpec

-----------------------------------------------------------------------------
(* The watchers of a trace: WatchersFollowTrace. The page and the exporter *)
(* are each at some beginning of what was recorded; a stream that ended,   *)
(* and a history that was asked for, bound what may still be shown.        *)

TraceViewSpec == TraceViewInit /\ [][TraceViewNext]_viewVars

\* The shape of what a run tells: stages and tokens, then the end.
ScriptEnds ==
    /\ script \in Seq(ToSet(Stages) \cup {"token", "done"})
    /\ Len(script) > 0
    /\ \A i \in 1 .. Len(script) : script[i] = "done" <=> i = Len(script)

\* A message shows a beginning of the trace, and no more of its text than that.
Follows(m) ==
    /\ m = [seen |-> m.seen, refs |-> m.refs, text |-> m.text]
    /\ \E k \in 0 .. recorded : m.seen = 1 .. k
    /\ m.text \in Nat /\ m.text <= Tokens(m.seen)
    /\ (\E i \in m.seen : script[i] = "done") => m.refs

\* How far the trace, the stream and the page are.
Progress ==
    /\ recorded \in 0 .. Len(script) /\ sent \in 0 .. recorded
    /\ halted \in BOOLEAN /\ (~halted => recorded < Len(script))

PageFollows ==
    /\ Follows(view) /\ Follows(saved)
    /\ seenEver \subseteq 1 .. recorded
    /\ history \in {-2, -1} \cup 0 .. recorded
    /\ history # -2 => link # "up"
    /\ history = 0 => seenEver \subseteq view.seen
    /\ history > 0 => seenEver \subseteq 1 .. history /\ view.seen \subseteq 1 .. history

\* The exporter, until it counts a drop.
ExporterFollows ==
    /\ remote = [open |-> remote.open, spans |-> remote.spans, tokens |-> remote.tokens,
                 over |-> remote.over, lost |-> remote.lost]
    /\ {remote.open, remote.over, remote.lost} \subseteq BOOLEAN
    /\ ~remote.lost =>
        /\ remote.spans = {script[i] : i \in 1 .. recorded} \cap ToSet(Stages)
        /\ remote.tokens = Tokens(1 .. recorded)
        /\ remote.open <=> recorded \in 1 .. Len(script) - 1
        /\ remote.over <=> recorded = Len(script)

ViewInv == ScriptEnds /\ Progress /\ PageFollows /\ ExporterFollows

-----------------------------------------------------------------------------
(* Lemmas. *)

ScriptEvents == ToSet(Stages) \cup {"token", "done"}

\* Every run tells stages and tokens, and last that it is done.
LEMMA ScriptShape == \A s \in AdapterEvents :
    /\ s \in Seq(ScriptEvents)
    /\ Len(s) > 0
    /\ \A i \in 1 .. Len(s) : s[i] = "done" <=> i = Len(s)
<1> DEFINE E == ToSet(Stages) \cup {"token"}
<1>0. ToSet(Stages) = {"route", "retrieval", "context", "validation"}
  <2>1. DOMAIN Stages = 1 .. 4
    BY DEF Stages
  <2> QED  BY <2>1 DEF ToSet, Stages
<1>1. ASSUME NEW b \in Seq(E)
      PROVE  LET s == b \o <<"done">>
             IN  /\ s \in Seq(ScriptEvents)
                 /\ Len(s) > 0
                 /\ \A i \in 1 .. Len(s) : s[i] = "done" <=> i = Len(s)
  <2>1. \A i \in 1 .. Len(b) : b[i] # "done"
    <3>1. \A e \in E : e # "done"
      BY <1>0
    <3> HIDE DEF E
    <3> QED  BY <3>1
  <2>2. b \in Seq(ScriptEvents)
    <3>1. E \subseteq ScriptEvents
      BY DEF ScriptEvents
    <3> HIDE DEF E
    <3> QED  BY <3>1, SeqMonotonic
  <2>3. <<"done">> \in Seq(ScriptEvents) /\ Len(<<"done">>) = 1 /\ <<"done">>[1] = "done"
    BY DEF ScriptEvents
  <2>4. /\ b \o <<"done">> \in Seq(ScriptEvents)
        /\ Len(b \o <<"done">>) = Len(b) + 1
        /\ \A i \in 1 .. Len(b) + 1 :
             (b \o <<"done">>)[i] = IF i <= Len(b) THEN b[i] ELSE <<"done">>[i - Len(b)]
    BY <2>2, <2>3, ConcatProperties
  <2>5. Len(b) \in Nat
    BY <2>2
  <2> HIDE DEF E
  <2> QED  BY <2>1, <2>3, <2>4, <2>5
<1>2. <<"done">> = << >> \o <<"done">> /\ << >> \in Seq(E)
  OBVIOUS
<1>3. ASSUME NEW with, NEW n \in 0 .. MaxTokens
      PROVE  <<"route">> \o Told("retrieval", with) \o Told("context", with)
               \o Told("validation", with) \o [k \in 1 .. n |-> "token"] \in Seq(E)
  <2>1. \A x \in {"retrieval", "context", "validation"} : Told(x, with) \in Seq(E)
    <3>1. << >> \in Seq(E) /\ \A e \in E : <<e>> \in Seq(E)
      <4> HIDE DEF E
      <4> QED  OBVIOUS
    <3>2. {"retrieval", "context", "validation"} \subseteq E
      BY <1>0
    <3>3. ASSUME NEW x \in E
          PROVE  Told(x, with) \in Seq(E)
      <4>1. CASE x \in with
        BY <3>1, <4>1 DEF Told
      <4>2. CASE x \notin with
        BY <3>1, <4>2 DEF Told
      <4> QED  BY <4>1, <4>2
    <3> HIDE DEF E
    <3> QED  BY <3>2, <3>3
  <2>2. <<"route">> \in Seq(E)
    BY <1>0
  <2>3. [k \in 1 .. n |-> "token"] \in Seq(E)
    BY TraceViewAssumption
  <2> HIDE DEF E
  <2> QED  BY <2>1, <2>2, <2>3
<1> HIDE DEF E
<1>4. ASSUME NEW s \in AdapterEvents
      PROVE  \E b \in Seq(E) : s = b \o <<"done">>
  <2>1. CASE s = <<"done">>
    BY <1>2, <2>1
  <2>2. CASE s # <<"done">>
    <3> DEFINE Before(with, n) ==
                 <<"route">> \o Told("retrieval", with) \o Told("context", with)
                   \o Told("validation", with) \o [k \in 1 .. n |-> "token"]
    <3>1. AdapterEvents = {<<"done">>} \cup
            {Before(with, n) \o <<"done">> : with \in Reports, n \in 0 .. MaxTokens}
      BY DEF AdapterEvents
    <3>2. \A with \in Reports, n \in 0 .. MaxTokens : Before(with, n) \in Seq(E)
      BY <1>3
    <3> HIDE DEF Before
    <3> QED  BY <2>2, <3>1, <3>2
  <2> QED  BY <2>1, <2>2
<1> QED  BY <1>1, <1>4

\* Tokens of some events are at most those of more events.
LEMMA TokensGrow ==
    ASSUME ScriptEnds, NEW n \in Nat, NEW S \in SUBSET (1 .. n), NEW T \in SUBSET (1 .. n),
           S \subseteq T
    PROVE  /\ Tokens(S) \in Nat /\ Tokens(T) \in Nat
           /\ Tokens(S) <= Tokens(T)
<1> DEFINE Of(U) == {i \in U : script[i] = "token"}
<1>1. IsFiniteSet(1 .. n)
  BY FS_Interval
<1>2. Of(T) \in SUBSET (1 .. n) /\ Of(S) \in SUBSET Of(T)
  OBVIOUS
<1>3. IsFiniteSet(Of(T)) /\ IsFiniteSet(Of(S)) /\ Cardinality(Of(S)) <= Cardinality(Of(T))
  BY <1>1, <1>2, FS_Subset
<1>4. Cardinality(Of(T)) \in Nat /\ Cardinality(Of(S)) \in Nat
  BY <1>3, FS_CardinalityType
<1> QED  BY <1>3, <1>4 DEF Tokens

\* The tokens of one event more.
LEMMA TokensNext ==
    ASSUME ScriptEnds, NEW k \in Nat
    PROVE  Tokens(1 .. k + 1) = Tokens(1 .. k) + (IF script[k + 1] = "token" THEN 1 ELSE 0)
<1> DEFINE Of(U) == {i \in U : script[i] = "token"}
<1>1. IsFiniteSet(1 .. k)
  BY FS_Interval
<1>2. IsFiniteSet(Of(1 .. k))
  <2>1. Of(1 .. k) \in SUBSET (1 .. k)
    OBVIOUS
  <2> QED  BY <1>1, <2>1, FS_Subset
<1>3. Cardinality(Of(1 .. k)) \in Nat
  BY <1>2, FS_CardinalityType
<1>4. CASE script[k + 1] = "token"
  <2>1. Of(1 .. k + 1) = Of(1 .. k) \cup {k + 1} /\ k + 1 \notin Of(1 .. k)
    BY <1>4
  <2>2. Cardinality(Of(1 .. k) \cup {k + 1}) = Cardinality(Of(1 .. k)) + 1
    <3> HIDE DEF Of
    <3> QED  BY <1>2, <2>1, FS_AddElement
  <2> QED  BY <1>4, <2>1, <2>2 DEF Tokens
<1>5. CASE script[k + 1] # "token"
  <2>1. Of(1 .. k + 1) = Of(1 .. k)
    BY <1>5
  <2> QED  BY <1>3, <1>5, <2>1 DEF Tokens
<1> QED  BY <1>4, <1>5

\* How many events a beginning has.
LEMMA CountOf ==
    ASSUME NEW k \in Nat
    PROVE  Cardinality(1 .. k) = k
BY FS_Interval

\* A message that follows the trace follows a longer one.
LEMMA FollowsOn ==
    ASSUME ScriptEnds, Progress, NEW m, Follows(m), UNCHANGED script,
           recorded' \in Nat, recorded' >= recorded
    PROVE  /\ m = [seen |-> m.seen, refs |-> m.refs, text |-> m.text]
           /\ \E k \in 0 .. recorded' : m.seen = 1 .. k
           /\ m.text \in Nat /\ m.text <= Tokens(m.seen)'
           /\ (\E i \in m.seen : script'[i] = "done") => m.refs
<1>1. recorded \in Nat
  BY DEF Progress, ScriptEnds
<1>2. PICK k \in 0 .. recorded : m.seen = 1 .. k
  BY DEF Follows
<1>3. k \in 0 .. recorded'
  BY <1>1
<1>4. Tokens(m.seen)' = Tokens(m.seen)
  BY DEF Tokens
<1> QED  BY <1>2, <1>3, <1>4 DEF Follows

\* Both messages go on following while the trace grows.
LEMMA MessagesKept ==
    ASSUME ScriptEnds, Progress, NEW m \in {view, saved}, Follows(view), Follows(saved),
           UNCHANGED script, recorded' \in Nat, recorded' >= recorded
    PROVE  /\ m = [seen |-> m.seen, refs |-> m.refs, text |-> m.text]
           /\ \E k \in 0 .. recorded' : m.seen = 1 .. k
           /\ m.text \in Nat /\ m.text <= Tokens(m.seen)'
           /\ (\E i \in m.seen : script'[i] = "done") => m.refs
BY FollowsOn

\* The trace starts empty, and everything with it.
LEMMA ViewInvInit == TraceViewInit => ViewInv
<1> SUFFICES ASSUME TraceViewInit PROVE ViewInv
  OBVIOUS
<1> USE DEF TraceViewInit
<1>1. ScriptEnds
  BY ScriptShape DEF ScriptEnds, ScriptEvents
<1>2. Len(script) \in Nat
  BY <1>1 DEF ScriptEnds
<1>3. Progress
  <2>1. 0 \in 0 .. 0 /\ 0 \in 0 .. Len(script) /\ 0 < Len(script)
    BY <1>1, <1>2 DEF ScriptEnds
  <2> QED  BY <2>1 DEF Progress
<1>4. Tokens({}) = 0
  <2>1. {i \in {} : script[i] = "token"} = {}
    OBVIOUS
  <2> QED  BY <2>1, FS_EmptySet DEF Tokens
<1>5. 1 .. 0 = {} /\ 0 \in 0 .. recorded
  OBVIOUS
<1>6. Follows(view) /\ Follows(saved)
  BY <1>4, <1>5 DEF Follows, NoMessage
<1>7. PageFollows
  BY <1>6 DEF PageFollows
<1>8. ExporterFollows
  BY <1>1, <1>2, <1>4, <1>5 DEF ExporterFollows, ScriptEnds
<1> QED  BY <1>1, <1>3, <1>7, <1>8 DEF ViewInv

\* The trace is written before the exporter and the stream are told.
LEMMA EmitInv ==
    ASSUME ViewInv, EmitNext
    PROVE  ViewInv'
<1> USE DEF ViewInv
<1>1. PICK written \in BOOLEAN :
        /\ recorded' = IF written THEN recorded + 1 ELSE recorded
        /\ remote' \in IF written
                       THEN {Exported(remote, script[recorded + 1])} \cup Dropped(remote)
                       ELSE {remote}
        /\ sent' = IF link = "up" THEN recorded' ELSE sent
        /\ halted' = (~written \/ link # "up" \/ recorded' = Len(script))
  BY DEF EmitNext, Tells
<1>2. ~halted /\ UNCHANGED <<script, link, view, saved, seenEver, history>>
  BY DEF EmitNext
<1>3. Len(script) \in Nat /\ recorded \in Nat /\ recorded < Len(script)
  BY <1>2 DEF ScriptEnds, Progress
<1>4. ScriptEnds'
  BY <1>2 DEF ScriptEnds
<1>5. Progress'
  BY <1>1, <1>2, <1>3 DEF Progress
<1>6. recorded' \in Nat /\ recorded' >= recorded
  BY <1>1, <1>3
<1>7. PageFollows'
  <2>1. Follows(view)' /\ Follows(saved)'
    BY <1>2, <1>6, MessagesKept DEF Follows, PageFollows
  <2>2. 1 .. recorded \subseteq 1 .. recorded' /\ 0 .. recorded \subseteq 0 .. recorded'
    BY <1>3, <1>6
  <2> QED  BY <1>2, <2>1, <2>2 DEF PageFollows
<1>8. ExporterFollows'
  <2> DEFINE e == script[recorded + 1]
             Record(r) == /\ r = [open |-> r.open, spans |-> r.spans, tokens |-> r.tokens,
                                  over |-> r.over, lost |-> r.lost]
                          /\ {r.open, r.over, r.lost} \subseteq BOOLEAN
  <2>1. Record(remote)
    BY DEF ExporterFollows
  <2>2. CASE remote' = remote /\ ~written
    <3>1. recorded' = recorded
      BY <1>1, <2>2
    <3> QED  BY <1>2, <2>2, <3>1 DEF ExporterFollows, Tokens
  <2>3. CASE remote' \in Dropped(remote)
    <3>1. remote'.lost /\ Record(remote')
      BY <2>1, <2>3 DEF Dropped
    <3> QED  BY <3>1 DEF ExporterFollows
  <2>4. CASE remote' = Exported(remote, e) /\ written
    <3>0. recorded' = recorded + 1
      BY <1>1, <2>4
    <3>1. e \in ToSet(Stages) \cup {"token", "done"}
          /\ (e = "done" <=> recorded + 1 = Len(script))
      <4>1. recorded + 1 \in 1 .. Len(script)
        BY <1>3
      <4> DEFINE E == ToSet(Stages) \cup {"token", "done"}
      <4>2. script \in Seq(E)
        BY DEF ScriptEnds
      <4>3. e \in E
        <5> HIDE DEF E
        <5> QED  BY <4>1, <4>2
      <4> QED  BY <4>1, <4>3 DEF ScriptEnds
    <3>2. ToSet(Stages) = {"route", "retrieval", "context", "validation"}
      <4>1. DOMAIN Stages = 1 .. 4
        BY DEF Stages
      <4> QED  BY <4>1 DEF ToSet, Stages
    <3>3. Tokens(1 .. recorded)' = Tokens(1 .. recorded) + (IF e = "token" THEN 1 ELSE 0)
      <4>1. Tokens(1 .. recorded)' = Tokens(1 .. recorded + 1)
        BY <1>2, <3>0 DEF Tokens
      <4> QED  BY <1>3, <4>1, TokensNext
    <3>4. {script'[i] : i \in 1 .. recorded'} = {script[i] : i \in 1 .. recorded} \cup {e}
      BY <1>2, <1>3, <3>0
    <3>5. /\ recorded' \in 1 .. Len(script') - 1 <=> e # "done"
          /\ recorded' = Len(script') <=> e = "done"
      BY <1>2, <1>3, <3>0, <3>1
    <3>6. Record(remote') /\ remote'.lost = remote.lost
      BY <2>1, <2>4, <3>1 DEF Exported
    <3>7. remote'.spans = IF e \in ToSet(Stages) THEN remote.spans \cup {e} ELSE remote.spans
      BY <2>1, <2>4, <3>1, <3>2 DEF Exported
    <3>8. remote'.tokens = IF e = "token" THEN remote.tokens + 1 ELSE remote.tokens
      BY <2>1, <2>4, <3>1, <3>2 DEF Exported
    <3>9. remote'.open <=> e # "done"
      BY <2>1, <2>4, <3>1, <3>2 DEF Exported
    <3>10. remote'.over <=> e = "done" \/ remote.over
      BY <2>1, <2>4, <3>1, <3>2 DEF Exported
    <3>11. Tokens(1 .. recorded) \in Nat
      <4>1. (1 .. recorded) \in SUBSET (1 .. recorded)
        OBVIOUS
      <4> QED  BY <1>3, <4>1, TokensGrow
    <3> HIDE DEF e, Record
    <3>12. ~remote'.lost =>
            /\ remote'.spans = {script'[i] : i \in 1 .. recorded'} \cap ToSet(Stages)
            /\ remote'.tokens = Tokens(1 .. recorded)'
            /\ remote'.open <=> recorded' \in 1 .. Len(script') - 1
            /\ remote'.over <=> recorded' = Len(script')
      <4> SUFFICES ASSUME ~remote'.lost
                   PROVE  /\ remote'.spans =
                               {script'[i] : i \in 1 .. recorded'} \cap ToSet(Stages)
                          /\ remote'.tokens = Tokens(1 .. recorded)'
                          /\ remote'.open <=> recorded' \in 1 .. Len(script') - 1
                          /\ remote'.over <=> recorded' = Len(script')
        OBVIOUS
      <4>1. /\ remote.spans = {script[i] : i \in 1 .. recorded} \cap ToSet(Stages)
            /\ remote.tokens = Tokens(1 .. recorded)
            /\ ~remote.over
        BY <1>3, <3>6 DEF ExporterFollows
      <4>2. remote'.spans = {script'[i] : i \in 1 .. recorded'} \cap ToSet(Stages)
        BY <3>4, <3>7, <4>1
      <4>3. remote'.tokens = Tokens(1 .. recorded)'
        BY <3>3, <3>8, <3>11, <4>1
      <4> QED  BY <3>5, <3>9, <3>10, <4>1, <4>2, <4>3
    <3> QED  BY <3>6, <3>12 DEF ExporterFollows, Record
  <2> QED  BY <1>1, <2>2, <2>3, <2>4
<1> QED  BY <1>4, <1>5, <1>7, <1>8

\* Steps of the page leave the trace, the stream and the exporter alone.
LEMMA PageSteps ==
    ASSUME ViewInv, UNCHANGED <<script, recorded, halted, sent, remote>>, PageFollows'
    PROVE  ViewInv'
<1>1. ScriptEnds' /\ Progress'
  BY DEF ViewInv, ScriptEnds, Progress
<1>2. ExporterFollows'
  BY DEF ViewInv, ExporterFollows, Tokens
<1> QED  BY <1>1, <1>2 DEF ViewInv

\* The next line of the stream is the next event of the trace.
LEMMA ReceiveInv ==
    ASSUME ViewInv, ReceiveEvent
    PROVE  ViewInv'
<1> USE DEF ViewInv, PageFollows
<1>1. PICK k \in 0 .. recorded : view.seen = 1 .. k
  BY DEF Follows
<1>2. k \in Nat /\ recorded \in Nat /\ sent \in Nat /\ sent <= recorded
  BY <1>1 DEF Progress, ScriptEnds
<1>3. Cardinality(view.seen) = k
  BY <1>1, <1>2, CountOf
<1>4. /\ link = "up" /\ k < sent
      /\ view' = Merged(view, k + 1)
      /\ seenEver' = seenEver \cup view'.seen
      /\ UNCHANGED <<script, recorded, halted, sent, link, saved, history, remote>>
  BY <1>3 DEF ReceiveEvent
<1>5. /\ view'.seen = 1 .. k + 1
      /\ view'.refs = (view.refs \/ script[k + 1] = "done")
      /\ view'.text = view.text + (IF script[k + 1] = "token" THEN 1 ELSE 0)
      /\ view' = [seen |-> view'.seen, refs |-> view'.refs, text |-> view'.text]
  <2>1. 1 .. k + 1 = (1 .. k) \cup {k + 1}
    BY <1>2
  <2> QED  BY <1>1, <1>4, <2>1 DEF Merged
<1>6. k + 1 \in 0 .. recorded
  BY <1>2, <1>4
<1>7. Tokens(1 .. k) \in Nat /\ Tokens(1 .. k + 1)' = Tokens(1 .. k + 1)
  <2>1. (1 .. k) \in SUBSET (1 .. k)
    OBVIOUS
  <2>2. Tokens(1 .. k) \in Nat
    BY <1>2, <2>1, TokensGrow
  <2> QED  BY <1>4, <2>2 DEF Tokens
<1>8. view'.text \in Nat /\ view'.text <= Tokens(1 .. k + 1)
  <2>1. Tokens(1 .. k + 1) = Tokens(1 .. k) + (IF script[k + 1] = "token" THEN 1 ELSE 0)
    BY <1>2, TokensNext
  <2>2. view.text \in Nat /\ view.text <= Tokens(1 .. k)
    BY <1>1 DEF Follows
  <2> QED  BY <1>5, <1>7, <2>1, <2>2
<1>9. (\E i \in 1 .. k + 1 : script'[i] = "done") => view'.refs
  <2>1. (\E i \in 1 .. k : script[i] = "done") => view.refs
    BY <1>1 DEF Follows
  <2>2. \A i \in 1 .. k + 1 : i \in 1 .. k \/ i = k + 1
    BY <1>2
  <2> QED  BY <1>4, <1>5, <2>1, <2>2
<1>10. Follows(view)'
  <2>1. Tokens(view.seen)' = Tokens(1 .. k + 1)
    BY <1>4, <1>5 DEF Tokens
  <2>2. \E j \in 0 .. recorded' : view'.seen = 1 .. j
    BY <1>4, <1>5, <1>6
  <2>3. (\E i \in view'.seen : script'[i] = "done") => view'.refs
    BY <1>5, <1>9
  <2> QED  BY <1>5, <1>8, <2>1, <2>2, <2>3 DEF Follows
<1>11. Follows(saved)'
  BY <1>2, <1>4, MessagesKept DEF Follows
<1>12. seenEver' \subseteq 1 .. recorded'
  BY <1>2, <1>4, <1>5
<1>13. history = -2
  BY <1>4
<1>14. PageFollows'
  BY <1>4, <1>10, <1>11, <1>12, <1>13
<1> QED  BY <1>4, <1>14, PageSteps

\* Saving, leaving, ending and loading again: the page's message becomes the saved one, or
\* the other way round.
LEMMA SavedInv ==
    ASSUME ViewInv, SaveMessage \/ StreamOver \/ LoadPage \/ HistoryRead
    PROVE  ViewInv'
<1> USE DEF ViewInv, PageFollows
<1>1. UNCHANGED <<script, recorded, halted, sent, seenEver, remote>>
  BY DEF SaveMessage, StreamOver, LoadPage, HistoryRead
<1>2. recorded \in Nat
  BY DEF Progress, ScriptEnds
<1>3. view' \in {view, saved} /\ saved' \in {view, saved}
  BY DEF SaveMessage, StreamOver, LoadPage, HistoryRead
<1>4. Follows(view)' /\ Follows(saved)'
  BY <1>1, <1>2, <1>3, MessagesKept DEF Follows
<1>5. CASE SaveMessage
  <2>1. PageFollows'
    BY <1>1, <1>4, <1>5 DEF SaveMessage
  <2> QED  BY <1>1, <2>1, PageSteps
<1>6. CASE StreamOver
  <2>1. PageFollows'
    BY <1>1, <1>4, <1>6 DEF StreamOver
  <2> QED  BY <1>1, <2>1, PageSteps
<1>7. CASE LoadPage
  <2>1. PageFollows'
    BY <1>1, <1>4, <1>7 DEF LoadPage
  <2> QED  BY <1>1, <2>1, PageSteps
<1>8. CASE HistoryRead
  <2>1. /\ history' = recorded /\ history = -1 /\ view' = view /\ link' = link
    BY <1>8 DEF HistoryRead
  <2>2. view.seen \subseteq 1 .. recorded
    BY <1>2 DEF Follows
  <2>3. recorded = 0 => seenEver = {}
    OBVIOUS
  <2>4. PageFollows'
    BY <1>1, <1>2, <1>4, <2>1, <2>2, <2>3
  <2> QED  BY <1>1, <2>4, PageSteps
<1> QED  BY <1>5, <1>6, <1>7, <1>8

\* The history is at least what the page had shown before it was loaded again.
LEMMA HistoryInv ==
    ASSUME ViewInv, HistoryApplied
    PROVE  ViewInv'
<1> USE DEF ViewInv, PageFollows
<1>1. /\ history > 0 /\ history' = 0
      /\ view' = [seen |-> 1 .. history, text |-> view.text,
                  refs |-> view.refs \/ \E i \in 1 .. history : script[i] = "done"]
      /\ seenEver' = seenEver \cup view'.seen
      /\ UNCHANGED <<script, recorded, halted, sent, link, saved, remote>>
  BY DEF HistoryApplied
<1>2. recorded \in Nat /\ history \in 0 .. recorded /\ history \in Nat
  BY <1>1 DEF Progress, ScriptEnds
<1>3. view.seen \subseteq 1 .. history /\ seenEver \subseteq 1 .. history
  BY <1>1
<1>4. /\ view'.seen = 1 .. history /\ view'.text = view.text
      /\ view' = [seen |-> view'.seen, refs |-> view'.refs, text |-> view'.text]
      /\ view'.refs = (view.refs \/ \E i \in 1 .. history : script[i] = "done")
  BY <1>1
<1>5. view.text \in Nat /\ view.text <= Tokens(1 .. history)
  <2>1. Tokens(view.seen) \in Nat /\ Tokens(1 .. history) \in Nat
        /\ Tokens(view.seen) <= Tokens(1 .. history)
    BY <1>2, <1>3, TokensGrow
  <2> QED  BY <2>1 DEF Follows
<1>6. Follows(view)'
  <2>1. Tokens(view.seen)' = Tokens(1 .. history)
    BY <1>1, <1>4 DEF Tokens
  <2> QED  BY <1>1, <1>2, <1>4, <1>5, <2>1 DEF Follows
<1>7. Follows(saved)'
  BY <1>1, <1>2, MessagesKept DEF Follows
<1>8. seenEver' \subseteq 1 .. recorded' /\ seenEver' \subseteq view'.seen
  <2>1. seenEver' = seenEver \cup (1 .. history)
    BY <1>1, <1>4
  <2>2. 1 .. history \subseteq 1 .. recorded
    BY <1>2
  <2>3. seenEver' \subseteq 1 .. history
    BY <1>3, <2>1
  <2> QED  BY <1>1, <1>4, <2>2, <2>3
<1>9. PageFollows'
  BY <1>1, <1>2, <1>6, <1>7, <1>8
<1> QED  BY <1>1, <1>9, PageSteps

\* Every step keeps the invariant.
LEMMA ViewInvNext == ViewInv /\ [TraceViewNext]_viewVars => ViewInv'
<1> SUFFICES ASSUME ViewInv, [TraceViewNext]_viewVars PROVE ViewInv'
  OBVIOUS
<1>1. CASE TraceViewNext
  BY <1>1, EmitInv, ReceiveInv, SavedInv, HistoryInv DEF TraceViewNext
<1>2. CASE UNCHANGED viewVars
  BY <1>2 DEF viewVars, ViewInv, ScriptEnds, Progress, PageFollows, ExporterFollows, Follows,
              Tokens
<1> QED  BY <1>1, <1>2

LEMMA ViewInvAlways == TraceViewSpec => []ViewInv
BY ViewInvInit, ViewInvNext, PTL DEF TraceViewSpec

\* For any tokens and stages: what the page shows, what a reload shows and what the exporter
\* has are beginnings of the stored trace (notifyObservers, applyRunHistory).
THEOREM WatchersAreInStep == TraceViewSpec => []WatchersFollowTrace
<1>1. ASSUME ViewInv PROVE WatchersFollowTrace
  <2>1. PICK k \in 0 .. recorded : view.seen = 1 .. k
    BY <1>1 DEF ViewInv, PageFollows, Follows
  <2>2. recorded \in Nat /\ k \in Nat
    BY <1>1, <2>1 DEF ViewInv, Progress, ScriptEnds
  <2>3. Gapless(view.seen) /\ view.seen \subseteq 1 .. recorded
    BY <2>1, <2>2, CountOf DEF Gapless
  <2>4. "done" \in DrawnSteps(view) => view.refs
    BY <1>1 DEF ViewInv, PageFollows, Follows, DrawnSteps
  <2>5. view.text <= Tokens(view.seen) /\ (history = 0 => seenEver \subseteq view.seen)
    BY <1>1 DEF ViewInv, PageFollows, Follows
  <2> QED  BY <1>1, <2>3, <2>4, <2>5 DEF ViewInv, ExporterFollows, WatchersFollowTrace
<1> QED  BY <1>1, ViewInvAlways, PTL

-----------------------------------------------------------------------------
(* The budget of a run: SpendingIsKnown. A call under way has an open      *)
(* reservation, and the total is the fold of what the settled ones told.   *)

BudgetSpec == BudgetInit /\ [][BudgetNext]_budgetVars

\* What the calls of a run used, as far as it is known.
TokensTold(calls) == FoldLeft(LAMBDA sum, u : IF Spent(u) THEN sum + u.tokens ELSE sum, 0, calls)

KnownUsage == Usages \cup {Open, NoUsage}
Limited == ledger.limits.tokens # None \/ ledger.limits.cost # None
FlightRows == [kind : {"plain", "stream"}, heard : Usages \cup {NoUsage, Invalid},
           at : {"asked", "open", "settled", "dropped"}]

Ledger == [limits : Budgets, calls : Nat, tokens : Nat, cost : Nat,
           settled : Seq(KnownUsage), failure : {"none", "exceeded", "accounting"}]

\* What was told is within the limits on tokens and cost.
InLimits(l) ==
    ~Exceeds(l.tokens, l.limits.tokens) /\ ~Exceeds(l.cost, l.limits.cost)

BudgetTyped ==
    /\ ledger \in Ledger
    /\ flights \in Seq(FlightRows)
    /\ cut \in BOOLEAN

\* Every call has its reservation, which is open until the call is settled.
Reserved ==
    /\ ledger.calls = Len(ledger.settled) /\ Len(flights) = Len(ledger.settled)
    /\ \A id \in 1 .. Len(flights) :
        flights[id].at \in {"asked", "open"} => ledger.settled[id] = Open

Within ==
    /\ ledger.limits.calls # None => ledger.calls <= ledger.limits.calls
    /\ ~cut => /\ ledger.failure = "none"
               /\ InLimits(ledger)
               /\ Limited => \A id \in 1 .. Len(flights) :
                    flights[id].at = "settled" => Spent(ledger.settled[id])

Counted == ledger.tokens = TokensTold(ledger.settled)

BudgetInv == BudgetTyped /\ Reserved /\ Within /\ Counted

-----------------------------------------------------------------------------
(* Lemmas: the total. *)

\* What a usage adds to the total.
Worth(u) == IF Spent(u) THEN u.tokens ELSE 0

\* What a reported, an open and an unreported usage are worth.
LEMMA KnownWorth ==
    /\ \A u \in KnownUsage : Worth(u) \in Nat /\ (Spent(u) => Worth(u) = u.tokens)
    /\ \A u \in Usages : Spent(u) /\ u \notin {Open, NoUsage, Invalid} /\ u.tokens \in Nat
                         /\ u.cost \in Nat \cup {None}
    /\ Worth(Open) = 0 /\ Worth(NoUsage) = 0
    /\ ~Spent(NoUsage) /\ NoUsage # Open /\ Invalid # Open /\ NoUsage # Invalid
    /\ ~Spent(Open) /\ ~Spent(Invalid)
BY BudgetAssumption DEF KnownUsage, Worth, Spent, Open, NoUsage, Invalid, Usage, None

\* The total is a running sum.
LEMMA TotalRuns ==
    ASSUME NEW s \in Seq(KnownUsage)
    PROVE  \E p \in [0 .. Len(s) -> Int] :
             /\ p[0] = 0
             /\ \A i \in 1 .. Len(s) : p[i] = p[i - 1] + Worth(s[i])
             /\ TokensTold(s) = p[Len(s)]
<1> DEFINE n == Len(s)
           Sum(h) == h = [S \in SUBSET (1 .. n) |->
                           IF S = {} THEN 0
                           ELSE IF Spent(s[Max(S)]) THEN h[S \ {Max(S)}] + s[Max(S)].tokens
                                ELSE h[S \ {Max(S)}]]
           iter == CHOOSE h : Sum(h)
<1>1. n \in Nat /\ DOMAIN s = 1 .. n
  OBVIOUS
<1>2. TokensTold(s) = iter[1 .. n]
  BY <1>1 DEF TokensTold, FoldLeft, MapThenFoldSet
<1>3. \E h \in [SUBSET (1 .. n) -> Int] : Sum(h)
  <2> DEFINE G0 == [i \in 1 .. n |-> [a \in Int |-> a + Worth(s[i])]]
  <2>1. \A i \in 1 .. n : s[i] \in KnownUsage /\ Worth(s[i]) \in Int
    BY KnownWorth
  <2>2. PICK G : G = G0
    OBVIOUS
  <2>3. G \in [1 .. n -> [Int -> Int]]
    BY <2>1, <2>2
  <2>4. PICK h : FoldsOver(h, n, Int, 0, G)
    <3>1. ASSUME NEW A, NEW z \in A, G \in [1 .. n -> [A -> A]]
          PROVE  \E h : FoldsOver(h, n, A, z, G)
      <4> HIDE DEF G0, n
      <4> QED  BY <1>1, <3>1, FoldExists
    <3>2. 0 \in Int
      OBVIOUS
    <3> HIDE DEF G0, n
    <3> QED  BY <2>3, <3>1, <3>2
  <2>5. ASSUME NEW S \in SUBSET (1 .. n)
        PROVE  h[S] = IF S = {} THEN 0
                      ELSE IF Spent(s[Max(S)]) THEN h[S \ {Max(S)}] + s[Max(S)].tokens
                           ELSE h[S \ {Max(S)}]
    <3>1. h[S] = IF S = {} THEN 0 ELSE G[Max(S)][h[S \ {Max(S)}]]
      BY <2>4 DEF FoldsOver
    <3>2. CASE S # {}
      <4>1. Max(S) \in 1 .. n
        <5> HIDE DEF n
        <5> QED  BY <1>1, <3>2, MaxIn
      <4>2. h[S \ {Max(S)}] \in Int
        BY <2>4 DEF FoldsOver
      <4> PICK k, a : k = Max(S) /\ a = h[S \ {Max(S)}]
        OBVIOUS
      <4>3. h[S] = a + Worth(s[k]) /\ Worth(s[k]) \in Int /\ s[k] \in KnownUsage
        BY <2>1, <2>2, <3>1, <3>2, <4>1, <4>2
      <4>4. h[S] = IF Spent(s[k]) THEN a + s[k].tokens ELSE a
        BY <4>2, <4>3 DEF Worth
      <4> QED  BY <3>2, <4>4
    <3> QED  BY <3>1, <3>2
  <2>6. h \in [SUBSET (1 .. n) -> Int]
    BY <2>4 DEF FoldsOver
  <2>7. h = [S \in SUBSET (1 .. n) |-> h[S]]
    BY <2>6
  <2>8. Sum(h)
    <3> HIDE DEF G0, n
    <3> QED  BY <2>5, <2>7
  <2> QED  BY <2>6, <2>8
<1>4. Sum(iter)
  BY <1>3
<1>5. ASSUME NEW S \in SUBSET (1 .. n)
      PROVE  iter[S] = IF S = {} THEN 0
                       ELSE IF Spent(s[Max(S)]) THEN iter[S \ {Max(S)}] + s[Max(S)].tokens
                            ELSE iter[S \ {Max(S)}]
  BY <1>4
<1> HIDE DEF iter, Sum
<1> PICK f : f = iter
  OBVIOUS
<1>6. \A S \in SUBSET (1 .. n) :
        f[S] = IF S = {} THEN 0
               ELSE IF Spent(s[Max(S)]) THEN f[S \ {Max(S)}] + s[Max(S)].tokens
                    ELSE f[S \ {Max(S)}]
  BY <1>5
<1>7. f[{}] = 0
  BY <1>6
<1>8. ASSUME NEW i \in 1 .. n, f[1 .. (i - 1)] \in Int
      PROVE  f[1 .. i] = f[1 .. (i - 1)] + Worth(s[i])
  <2>1. /\ (1 .. i) \in SUBSET (1 .. n) /\ (1 .. i) # {}
        /\ (1 .. i) \ {i} = 1 .. (i - 1) /\ Max(1 .. i) = i
    <3> HIDE DEF n
    <3> QED  BY <1>1, FirstLess, MaxOfFirst
  <2>2. f[1 .. i] = IF Spent(s[i]) THEN f[1 .. (i - 1)] + s[i].tokens ELSE f[1 .. (i - 1)]
    <3> HIDE DEF n
    <3> QED  BY <1>6, <2>1, Zenon
  <2> PICK a : a = f[1 .. (i - 1)]
    OBVIOUS
  <2> QED  BY <1>8, <2>2 DEF Worth
<1> DEFINE p == [i \in 0 .. n |-> f[1 .. i]]
<1>9. p[0] = 0 /\ p[n] = TokensTold(s)
  <2>1. 1 .. 0 = {} /\ 0 \in 0 .. n /\ n \in 0 .. n
    OBVIOUS
  <2> HIDE DEF n
  <2> QED  BY <1>2, <1>7, <2>1
<1>10. \A i \in 1 .. n : p[i] = f[1 .. i] /\ p[i - 1] = f[1 .. (i - 1)]
  OBVIOUS
<1>11. \A i \in 1 .. n : p[i - 1] \in Int => p[i] = p[i - 1] + Worth(s[i])
  <2> HIDE DEF p, n
  <2> QED  BY <1>8, <1>10
<1>12. \A i \in 1 .. n : p[i - 1] \in Int => p[i] \in Int
  <2>1. \A i \in 1 .. n : Worth(s[i]) \in Int
    BY KnownWorth
  <2> HIDE DEF p, n
  <2> QED  BY <1>11, <2>1
<1>13. \A i \in 0 .. n : p[i] \in Int
  <2>1. p[0] \in Int
    BY <1>9
  <2> HIDE DEF p, n
  <2> QED  BY <1>1, <1>12, <2>1, StepByStep
<1>14. p \in [0 .. n -> Int]
  BY <1>13
<1>15. \A i \in 1 .. n : p[i] = p[i - 1] + Worth(s[i])
  <2>1. \A i \in 1 .. n : i - 1 \in 0 .. n
    OBVIOUS
  <2> HIDE DEF p, n
  <2> QED  BY <1>11, <1>13, <2>1
<1> HIDE DEF p
<1> QED  BY <1>9, <1>14, <1>15

\* Before the first call nothing was told.
LEMMA TotalOfNone == TokensTold(<< >>) = 0
<1>1. << >> \in Seq(KnownUsage) /\ Len(<< >>) = 0
  OBVIOUS
<1>2. PICK s : s = << >>
  OBVIOUS
<1>3. s \in Seq(KnownUsage) /\ Len(s) = 0
  BY <1>1, <1>2
<1>4. TokensTold(s) = 0
  <2>1. PICK p \in [0 .. Len(s) -> Int] : p[0] = 0 /\ TokensTold(s) = p[Len(s)]
    BY <1>3, TotalRuns
  <2> QED  BY <1>3, <2>1
<1> QED  BY <1>2, <1>4

\* A reservation adds nothing.
LEMMA TotalReserved ==
    ASSUME NEW s \in Seq(KnownUsage)
    PROVE  TokensTold(Append(s, Open)) = TokensTold(s)
<1> DEFINE n == Len(s)
<1>1. PICK t : t = Append(s, Open)
  OBVIOUS
<1>2. /\ t \in Seq(KnownUsage) /\ Len(t) = n + 1 /\ n \in Nat /\ t[n + 1] = Open
      /\ \A i \in 1 .. n : t[i] = s[i]
  BY <1>1 DEF KnownUsage
<1>3. PICK p \in [0 .. n -> Int] :
        /\ p[0] = 0 /\ \A i \in 1 .. n : p[i] = p[i - 1] + Worth(s[i])
        /\ TokensTold(s) = p[n]
  BY TotalRuns
<1>4. PICK q \in [0 .. (n + 1) -> Int] :
        /\ q[0] = 0 /\ \A i \in 1 .. (n + 1) : q[i] = q[i - 1] + Worth(t[i])
        /\ TokensTold(t) = q[n + 1]
  BY <1>2, TotalRuns
<1>5. q[n + 1] = q[n]
  <2>1. /\ n + 1 \in 1 .. (n + 1) /\ (n + 1) - 1 = n /\ n \in 0 .. (n + 1)
    BY <1>2
  <2>2. q[n + 1] = q[n] + Worth(Open) /\ q[n] \in Int
    BY <1>2, <1>4, <2>1
  <2> QED  BY <2>2, KnownWorth
<1>6. q[n] = p[n]
  <2> DEFINE v == [i \in 1 .. n |-> Worth(s[i])]
  <2>1. v \in [1 .. n -> Int]
    BY KnownWorth
  <2>2. \A i \in 1 .. n : q[i] = q[i - 1] + Worth(t[i]) /\ t[i] = s[i]
    BY <1>2, <1>4
  <2>3. \A i \in 1 .. n : p[i] = p[i - 1] + v[i] /\ q[i] = q[i - 1] + v[i]
    BY <1>3, <2>2
  <2>4. p[0] = q[0]
    BY <1>3, <1>4
  <2> HIDE DEF v, n
  <2> QED  BY <1>2, <2>1, <2>3, <2>4, SumsAgree, ZenonT(40)
<1> QED  BY <1>1, <1>3, <1>4, <1>5, <1>6

\* What settles a reservation is added once.
LEMMA TotalSettled ==
    ASSUME NEW s \in Seq(KnownUsage), NEW id \in 1 .. Len(s), s[id] = Open, NEW u \in KnownUsage
    PROVE  /\ [s EXCEPT ![id] = u] \in Seq(KnownUsage)
           /\ TokensTold([s EXCEPT ![id] = u]) = TokensTold(s) + Worth(u)
<1> DEFINE n == Len(s)
<1>1. PICK t : t = [s EXCEPT ![id] = u]
  OBVIOUS
<1>2. /\ t \in Seq(KnownUsage) /\ Len(t) = n /\ n \in Nat /\ id \in 1 .. n
      /\ \A i \in 1 .. n : t[i] = IF i = id THEN u ELSE s[i]
  BY <1>1
<1>3. PICK p \in [0 .. n -> Int] :
        /\ p[0] = 0 /\ \A i \in 1 .. n : p[i] = p[i - 1] + Worth(s[i])
        /\ TokensTold(s) = p[n]
  BY TotalRuns
<1>4. PICK q \in [0 .. n -> Int] :
        /\ q[0] = 0 /\ \A i \in 1 .. n : q[i] = q[i - 1] + Worth(t[i])
        /\ TokensTold(t) = q[n]
  BY <1>2, TotalRuns
<1>5. q[n] = p[n] + Worth(u)
  <2> DEFINE v == [i \in 1 .. n |-> Worth(s[i])]
             w == [i \in 1 .. n |-> Worth(t[i])]
  <2>1. v \in [1 .. n -> Int] /\ Worth(u) \in Int
    BY KnownWorth
  <2>2. w \in [1 .. n -> Int]
    <3>1. \A i \in 1 .. n : t[i] \in KnownUsage
      BY <1>2
    <3> HIDE DEF n
    <3> QED  BY <3>1, KnownWorth
  <2>3. \A i \in 1 .. n : p[i] = p[i - 1] + v[i] /\ q[i] = q[i - 1] + w[i]
    BY <1>3, <1>4
  <2>4. ASSUME NEW i \in 1 .. n
        PROVE  w[i] = v[i] + (IF i = id THEN Worth(u) ELSE 0)
    <3>1. CASE i = id
      BY <1>2, <2>1, <3>1, KnownWorth
    <3>2. CASE i # id
      <4>1. w[i] = v[i] /\ v[i] \in Int
        BY <1>2, <2>1, <3>2
      <4> QED  BY <3>2, <4>1
    <3> QED  BY <3>1, <3>2
  <2> PICK d : d = Worth(u)
    OBVIOUS
  <2>5. d \in Int /\ \A i \in 1 .. n : w[i] = v[i] + (IF i = id THEN d ELSE 0)
    BY <2>1, <2>4
  <2>6. q[n] = p[n] + d
    <3>1. p[0] = 0 /\ q[0] = 0 /\ n \in Nat /\ id \in 1 .. n
      BY <1>2, <1>3, <1>4
    <3> HIDE DEF v, w, n
    <3> QED  BY <2>1, <2>2, <2>3, <2>5, <3>1, SumsDiffer, ZenonT(40)
  <2> QED  BY <2>6
<1> QED  BY <1>1, <1>2, <1>3, <1>4, <1>5

-----------------------------------------------------------------------------
(* Lemmas: what the operations on a ledger do. *)

\* The ledger after a settlement that is counted.
Paid(l, id, u) == [l EXCEPT !.settled[id] = u, !.tokens = @ + u.tokens,
                            !.cost = @ + (IF l.limits.priced /\ u.cost # None THEN u.cost ELSE 0)]

\* What happens when an open reservation is settled.
LEMMA Settling ==
    ASSUME NEW l \in Ledger, NEW id \in 1 .. Len(l.settled), l.settled[id] = Open,
           NEW u \in Usages \cup {NoUsage, Invalid}
    PROVE  /\ u = NoUsage => RecordModelUsage(l, id, u) =
                IF l.limits.tokens # None \/ l.limits.cost # None
                THEN Throws(l, "accounting") ELSE Keeps([l EXCEPT !.settled[id] = u])
           /\ u = Invalid => RecordModelUsage(l, id, u) = Throws(l, "accounting")
           /\ u \in Usages => RecordModelUsage(l, id, u) =
                IF l.limits.cost # None /\ ~(l.limits.priced /\ u.cost # None)
                THEN Throws(l, "accounting")
                ELSE IF Exceeds(Paid(l, id, u).tokens, l.limits.tokens)
                        \/ Exceeds(Paid(l, id, u).cost, l.limits.cost)
                THEN Throws(Paid(l, id, u), "exceeded")
                ELSE Keeps(Paid(l, id, u))
<1>1. /\ l.settled[id] = Open /\ u # Open
      /\ u \in Usages => Spent(u) /\ u # NoUsage /\ u # Invalid
      /\ ~Spent(NoUsage) /\ ~Spent(Invalid) /\ NoUsage # Invalid
  BY KnownWorth
<1>2. CASE u = NoUsage
  <2>1. RecordModelUsage(l, id, u) =
          IF l.limits.tokens # None \/ l.limits.cost # None
          THEN Throws(l, "accounting") ELSE Keeps([l EXCEPT !.settled[id] = u])
    BY <1>1, <1>2 DEF RecordModelUsage
  <2> QED  BY <1>1, <1>2, <2>1
<1>3. CASE u = Invalid
  <2>1. RecordModelUsage(l, id, u) = Throws(l, "accounting")
    BY <1>1, <1>3 DEF RecordModelUsage
  <2> QED  BY <1>1, <1>3, <2>1
<1>4. CASE u \in Usages
  <2>1. RecordModelUsage(l, id, u) =
          IF l.limits.cost # None /\ ~(l.limits.priced /\ u.cost # None)
          THEN Throws(l, "accounting")
          ELSE IF Exceeds(Paid(l, id, u).tokens, l.limits.tokens)
                  \/ Exceeds(Paid(l, id, u).cost, l.limits.cost)
          THEN Throws(Paid(l, id, u), "exceeded")
          ELSE Keeps(Paid(l, id, u))
    BY <1>1, <1>4 DEF RecordModelUsage, Paid
  <2> QED  BY <1>1, <1>4, <2>1
<1> QED  BY <1>2, <1>3, <1>4

\* What a settlement leaves of the ledger l, m: its limits, its calls and every other
\* reservation; what is counted stays the sum of what was told.
Settles(l, m, id) ==
    /\ m \in Ledger /\ m.limits = l.limits /\ m.calls = l.calls
    /\ Len(m.settled) = Len(l.settled)
    /\ \A i \in 1 .. Len(l.settled) : i # id => m.settled[i] = l.settled[i]
    /\ l.tokens = TokensTold(l.settled) => m.tokens = TokensTold(m.settled)

\* What a ledger that goes on holds.
Sound(l, m, id) ==
    /\ m.failure = l.failure
    /\ InLimits(l) => InLimits(m)
    /\ l.limits.tokens # None \/ l.limits.cost # None => Spent(m.settled[id])

\* A settlement that is refused leaves everything as it was.
LEMMA Untouched ==
    ASSUME NEW l \in Ledger, NEW id, NEW why \in {"exceeded", "accounting"}
    PROVE  Settles(l, Throws(l, why).ledger, id) /\ Throws(l, why).threw = TRUE
BY DEF Settles, Throws, Ledger

\* A paid settlement adds its tokens once.
LEMMA PaidSettles ==
    ASSUME NEW l \in Ledger, NEW id \in 1 .. Len(l.settled), l.settled[id] = Open,
           NEW u \in Usages
    PROVE  /\ Settles(l, Paid(l, id, u), id) /\ Paid(l, id, u).failure = l.failure
           /\ Paid(l, id, u).settled[id] = u
<1>1. /\ u.tokens \in Nat /\ u.cost \in Nat \cup {None} /\ u \in KnownUsage /\ Worth(u) = u.tokens
  BY KnownWorth DEF KnownUsage
<1>2. PICK m : m = Paid(l, id, u)
  OBVIOUS
<1>3. l.settled \in Seq(KnownUsage) /\ l.tokens \in Nat /\ l.cost \in Nat
  BY DEF Ledger
<1>4. /\ [l.settled EXCEPT ![id] = u] \in Seq(KnownUsage)
      /\ TokensTold([l.settled EXCEPT ![id] = u]) = TokensTold(l.settled) + Worth(u)
  <2> PICK s : s = l.settled
    OBVIOUS
  <2> QED  BY <1>1, <1>3, TotalSettled
<1>5. /\ m.limits = l.limits /\ m.calls = l.calls /\ m.failure = l.failure
      /\ m.settled = [l.settled EXCEPT ![id] = u]
      /\ m.tokens = l.tokens + u.tokens
      /\ m.cost = l.cost + (IF l.limits.priced /\ u.cost # None THEN u.cost ELSE 0)
  BY <1>2 DEF Paid, Ledger
<1>6. m = [limits |-> m.limits, calls |-> m.calls, tokens |-> m.tokens, cost |-> m.cost,
           settled |-> m.settled, failure |-> m.failure]
  BY <1>2 DEF Paid, Ledger
<1>7. m.tokens \in Nat /\ m.cost \in Nat
  BY <1>1, <1>3, <1>5 DEF None
<1>8. m \in Ledger
  BY <1>4, <1>5, <1>6, <1>7 DEF Ledger
<1>9. l.tokens = TokensTold(l.settled) => m.tokens = TokensTold(m.settled)
  BY <1>1, <1>4, <1>5
<1>10. /\ Len(m.settled) = Len(l.settled) /\ m.settled[id] = u
       /\ \A i \in 1 .. Len(l.settled) : i # id => m.settled[i] = l.settled[i]
  BY <1>3, <1>5
<1> QED  BY <1>2, <1>5, <1>8, <1>9, <1>10 DEF Settles

\* A settlement without usage adds nothing.
LEMMA UntoldSettles ==
    ASSUME NEW l \in Ledger, NEW id \in 1 .. Len(l.settled), l.settled[id] = Open
    PROVE  LET m == [l EXCEPT !.settled[id] = NoUsage]
           IN  /\ Settles(l, m, id) /\ m.failure = l.failure
               /\ m.tokens = l.tokens /\ m.cost = l.cost
<1>1. NoUsage \in KnownUsage /\ Worth(NoUsage) = 0
  BY KnownWorth DEF KnownUsage
<1>2. PICK m : m = [l EXCEPT !.settled[id] = NoUsage]
  OBVIOUS
<1>3. l.settled \in Seq(KnownUsage) /\ l.tokens \in Nat
  BY DEF Ledger
<1>4. /\ [l.settled EXCEPT ![id] = NoUsage] \in Seq(KnownUsage)
      /\ TokensTold([l.settled EXCEPT ![id] = NoUsage]) = TokensTold(l.settled) + Worth(NoUsage)
  <2> PICK s, u : s = l.settled /\ u = NoUsage
    OBVIOUS
  <2> QED  BY <1>1, <1>3, TotalSettled
<1>5. /\ m.limits = l.limits /\ m.calls = l.calls /\ m.failure = l.failure
      /\ m.settled = [l.settled EXCEPT ![id] = NoUsage]
      /\ m.tokens = l.tokens /\ m.cost = l.cost
  BY <1>2 DEF Ledger
<1>6. m \in Ledger
  BY <1>2, <1>4, <1>5 DEF Ledger
<1>7. l.tokens = TokensTold(l.settled) => m.tokens = TokensTold(m.settled)
  BY <1>1, <1>3, <1>4, <1>5
<1>8. /\ Len(m.settled) = Len(l.settled)
      /\ \A i \in 1 .. Len(l.settled) : i # id => m.settled[i] = l.settled[i]
  BY <1>3, <1>5
<1> QED  BY <1>2, <1>5, <1>6, <1>7, <1>8 DEF Settles

\* Whatever is recorded for an open reservation (recordModelUsage).
LEMMA Recorded ==
    ASSUME NEW l \in Ledger, NEW id \in 1 .. Len(l.settled), l.settled[id] = Open,
           NEW u \in Usages \cup {NoUsage, Invalid}
    PROVE  LET r == RecordModelUsage(l, id, u)
           IN  Settles(l, r.ledger, id) /\ r.threw \in BOOLEAN
               /\ (~r.threw => Sound(l, r.ledger, id))
<1> PICK r : r = RecordModelUsage(l, id, u)
  OBVIOUS
<1> DEFINE Goal == Settles(l, r.ledger, id) /\ r.threw \in BOOLEAN
                   /\ (~r.threw => Sound(l, r.ledger, id))
<1>1. CASE \E why \in {"exceeded", "accounting"} : r = Throws(l, why)
  BY <1>1, Untouched
<1>2. CASE u = NoUsage /\ ~(\E why \in {"exceeded", "accounting"} : r = Throws(l, why))
  <2>1. /\ r = Keeps([l EXCEPT !.settled[id] = NoUsage])
        /\ ~(l.limits.tokens # None \/ l.limits.cost # None)
    BY <1>2, Settling
  <2> PICK m : m = [l EXCEPT !.settled[id] = NoUsage]
    OBVIOUS
  <2>2. /\ Settles(l, m, id) /\ m.failure = l.failure
        /\ m.tokens = l.tokens /\ m.cost = l.cost
    BY UntoldSettles
  <2>3. Sound(l, m, id)
    BY <2>1, <2>2 DEF Sound, InLimits, Settles
  <2>4. r.ledger = m /\ r.threw = FALSE
    BY <2>1 DEF Keeps
  <2> QED  BY <2>2, <2>3, <2>4
<1>3. CASE u \in Usages /\ ~(\E why \in {"exceeded", "accounting"} : r = Throws(l, why))
  <2> PICK m : m = Paid(l, id, u)
    OBVIOUS
  <2>1. Settles(l, m, id) /\ m.failure = l.failure /\ m.settled[id] = u /\ Spent(u)
    BY <1>3, PaidSettles, KnownWorth
  <2>2. \/ r = Throws(m, "exceeded")
        \/ r = Keeps(m) /\ ~(Exceeds(m.tokens, l.limits.tokens) \/ Exceeds(m.cost, l.limits.cost))
    BY <1>3, Settling
  <2>3. CASE r = Throws(m, "exceeded")
    <3>1. r.ledger = [m EXCEPT !.failure = "exceeded"] /\ r.threw = TRUE
      BY <2>3 DEF Throws
    <3>2. Settles(l, r.ledger, id)
      BY <2>1, <3>1 DEF Settles, Ledger
    <3> QED  BY <3>1, <3>2
  <2>4. CASE r = Keeps(m) /\ ~(Exceeds(m.tokens, l.limits.tokens) \/ Exceeds(m.cost, l.limits.cost))
    <3>1. r.ledger = m /\ r.threw = FALSE
      BY <2>4 DEF Keeps
    <3>2. Sound(l, m, id)
      BY <2>1, <2>4 DEF Sound, InLimits, Settles
    <3> QED  BY <2>1, <3>1, <3>2
  <2> QED  BY <2>2, <2>3, <2>4
<1>4. u = Invalid => \E why \in {"exceeded", "accounting"} : r = Throws(l, why)
  BY Settling
<1> QED  BY <1>1, <1>2, <1>3, <1>4

-----------------------------------------------------------------------------
(* Lemmas: the steps. *)

\* A run starts with nothing spent.
LEMMA BudgetStart == BudgetInit => BudgetInv
<1> SUFFICES ASSUME BudgetInit
             PROVE  BudgetInv
  OBVIOUS
<1>1. PICK b \in Budgets : ledger = FreshLedger(b)
  BY DEF BudgetInit
<1>2. b.calls \in Nat \cup {None} /\ b.tokens \in Nat \cup {None} /\ b.cost \in Nat \cup {None}
  BY BudgetAssumption
<1>3. flights = << >> /\ cut = FALSE /\ Len(flights) = 0
  BY DEF BudgetInit
<1>4. /\ ledger.limits = b /\ ledger.calls = 0 /\ ledger.tokens = 0 /\ ledger.cost = 0
      /\ ledger.settled = << >> /\ ledger.failure = "none" /\ Len(ledger.settled) = 0
  BY <1>1 DEF FreshLedger
<1>5. ledger \in Ledger
  <2>1. << >> \in Seq(KnownUsage)
    OBVIOUS
  <2> QED  BY <1>1, <2>1 DEF FreshLedger, Ledger
<1>6. BudgetTyped
  <2>1. flights \in Seq(FlightRows)
    <3> HIDE DEF FlightRows
    <3> QED  BY <1>3
  <2> QED  BY <1>3, <1>5, <2>1 DEF BudgetTyped
<1>7. Reserved
  BY <1>3, <1>4 DEF Reserved
<1>8. Within
  <2>1. InLimits(ledger)
    BY <1>2, <1>4 DEF InLimits, Exceeds, None
  <2>2. ledger.limits.calls # None => ledger.calls <= ledger.limits.calls
    BY <1>2, <1>4 DEF None
  <2> QED  BY <1>3, <1>4, <2>1, <2>2 DEF Within
<1>9. Counted
  BY <1>4, TotalOfNone DEF Counted
<1> QED  BY <1>6, <1>7, <1>8, <1>9 DEF BudgetInv

\* A call moves on; the others stay where they are.
LEMMA Landed ==
    ASSUME flights \in Seq(FlightRows), NEW id \in 1 .. Len(flights),
           NEW mode \in {"asked", "open", "settled", "dropped"}, Lands(id, mode)
    PROVE  /\ flights' \in Seq(FlightRows) /\ Len(flights') = Len(flights)
           /\ flights'[id].at = mode
           /\ \A i \in 1 .. Len(flights) : i # id => flights'[i] = flights[i]
<1>1. flights[id] \in FlightRows
  OBVIOUS
<1>2. flights' = [flights EXCEPT ![id] = [flights[id] EXCEPT !.at = mode]]
  BY DEF Lands
<1>3. [flights[id] EXCEPT !.at = mode] \in FlightRows /\ [flights[id] EXCEPT !.at = mode].at = mode
  BY <1>1 DEF FlightRows
<1> HIDE DEF FlightRows
<1> PICK f : f = [flights[id] EXCEPT !.at = mode]
  OBVIOUS
<1> QED  BY <1>2, <1>3

\* A call that is under way and is settled with what it told.
LEMMA SettledKeeps ==
    ASSUME BudgetInv, NEW id \in 1 .. Len(flights), flights[id].at \in {"asked", "open"},
           NEW u \in Usages \cup {NoUsage, Invalid},
           Outcome(RecordModelUsage(ledger, id, u)), Lands(id, "settled")
    PROVE  BudgetInv'
<1>1. /\ ledger \in Ledger /\ flights \in Seq(FlightRows) /\ cut \in BOOLEAN
      /\ ledger.calls = Len(ledger.settled) /\ Len(flights) = Len(ledger.settled)
      /\ ledger.settled[id] = Open /\ id \in 1 .. Len(ledger.settled)
  BY DEF BudgetInv, BudgetTyped, Reserved
<1>2. PICK r : r = RecordModelUsage(ledger, id, u)
  OBVIOUS
<1>3. /\ Settles(ledger, r.ledger, id) /\ r.threw \in BOOLEAN
      /\ ~r.threw => Sound(ledger, r.ledger, id)
  BY <1>1, <1>2, Recorded
<1>4. ledger' = r.ledger /\ cut' = (cut \/ r.threw)
  BY <1>2 DEF Outcome
<1>5. /\ flights' \in Seq(FlightRows) /\ Len(flights') = Len(flights) /\ flights'[id].at = "settled"
      /\ \A i \in 1 .. Len(flights) : i # id => flights'[i] = flights[i]
  BY <1>1, Landed
<1>6. /\ ledger' \in Ledger /\ ledger'.limits = ledger.limits /\ ledger'.calls = ledger.calls
      /\ Len(ledger'.settled) = Len(ledger.settled)
      /\ \A i \in 1 .. Len(ledger.settled) : i # id => ledger'.settled[i] = ledger.settled[i]
      /\ ledger.tokens = TokensTold(ledger.settled) => ledger'.tokens = TokensTold(ledger'.settled)
  BY <1>3, <1>4 DEF Settles
<1>7. BudgetTyped'
  BY <1>1, <1>3, <1>4, <1>5, <1>6 DEF BudgetTyped
<1>8. Reserved'
  <2>1. ledger'.calls = Len(ledger'.settled) /\ Len(flights') = Len(ledger'.settled)
    BY <1>1, <1>5, <1>6
  <2>2. ASSUME NEW i \in 1 .. Len(flights'), flights'[i].at \in {"asked", "open"}
        PROVE  ledger'.settled[i] = Open
    <3>1. i # id /\ i \in 1 .. Len(flights) /\ i \in 1 .. Len(ledger.settled)
      BY <1>1, <1>5, <2>2
    <3>2. ledger.settled[i] = Open
      BY <1>5, <2>2, <3>1 DEF BudgetInv, Reserved
    <3> QED  BY <1>6, <3>1, <3>2
  <2> QED  BY <2>1, <2>2 DEF Reserved
<1>9. Within'
  <2>1. ledger'.limits.calls # None => ledger'.calls <= ledger'.limits.calls
    BY <1>6 DEF BudgetInv, Within
  <2>2. ASSUME ~cut'
        PROVE  /\ ledger'.failure = "none" /\ InLimits(ledger')
               /\ Limited' => \A i \in 1 .. Len(flights') :
                    flights'[i].at = "settled" => Spent(ledger'.settled[i])
    <3>1. ~cut /\ ~r.threw
      BY <1>1, <1>3, <1>4, <2>2
    <3>2. /\ ledger.failure = "none" /\ InLimits(ledger)
          /\ Limited => \A i \in 1 .. Len(flights) :
               flights[i].at = "settled" => Spent(ledger.settled[i])
      BY <3>1 DEF BudgetInv, Within
    <3>3. Sound(ledger, ledger', id)
      BY <1>3, <1>4, <3>1
    <3>4. Limited' = Limited
      BY <1>6 DEF Limited
    <3>5. ASSUME Limited, NEW i \in 1 .. Len(flights'), flights'[i].at = "settled"
          PROVE  Spent(ledger'.settled[i])
      <4>1. CASE i = id
        BY <3>3, <3>5, <4>1 DEF Sound, Limited
      <4>2. CASE i # id
        <5>1. i \in 1 .. Len(flights) /\ i \in 1 .. Len(ledger.settled)
          BY <1>1, <1>5
        <5> QED  BY <1>5, <1>6, <3>2, <3>5, <4>2, <5>1
      <4> QED  BY <4>1, <4>2
    <3> QED  BY <3>2, <3>3, <3>4, <3>5 DEF Sound
  <2> QED  BY <2>1, <2>2 DEF Within
<1>10. Counted'
  BY <1>6 DEF BudgetInv, Counted
<1> QED  BY <1>7, <1>8, <1>9, <1>10 DEF BudgetInv

\* A call moves on and nothing is recorded; where it is settled so, no limit asks for usage
\* or the run is aborted.
LEMMA UnpaidKeeps ==
    ASSUME BudgetInv, NEW id \in 1 .. Len(flights),
           NEW mode \in {"open", "settled", "dropped"}, Lands(id, mode), UNCHANGED <<ledger, cut>>,
           flights[id].at \in {"asked", "open"}, mode = "settled" => ~Limited \/ cut
    PROVE  BudgetInv'
<1>1. flights \in Seq(FlightRows) /\ ledger' = ledger /\ cut' = cut
  BY DEF BudgetInv, BudgetTyped
<1>2. /\ flights' \in Seq(FlightRows) /\ Len(flights') = Len(flights) /\ flights'[id].at = mode
      /\ \A i \in 1 .. Len(flights) : i # id => flights'[i] = flights[i]
  BY <1>1, Landed
<1>3. BudgetTyped'
  BY <1>1, <1>2 DEF BudgetInv, BudgetTyped
<1>4. Reserved'
  <2>1. ledger'.calls = Len(ledger'.settled) /\ Len(flights') = Len(ledger'.settled)
    BY <1>1, <1>2 DEF BudgetInv, Reserved
  <2>2. ASSUME NEW i \in 1 .. Len(flights'), flights'[i].at \in {"asked", "open"}
        PROVE  ledger'.settled[i] = Open
    <3>1. i \in 1 .. Len(flights) /\ flights[i].at \in {"asked", "open"}
      BY <1>2, <2>2
    <3> QED  BY <1>1, <3>1 DEF BudgetInv, Reserved
  <2> QED  BY <2>1, <2>2 DEF Reserved
<1>5. Within'
  <2>1. /\ ledger'.limits.calls # None => ledger'.calls <= ledger'.limits.calls
        /\ ~cut' => ledger'.failure = "none" /\ InLimits(ledger')
    BY <1>1 DEF BudgetInv, Within
  <2>2. ASSUME ~cut', Limited', NEW i \in 1 .. Len(flights'), flights'[i].at = "settled"
        PROVE  Spent(ledger'.settled[i])
    <3>1. ~cut /\ Limited
      BY <1>1, <2>2 DEF Limited
    <3>2. i # id /\ i \in 1 .. Len(flights) /\ flights[i].at = "settled"
      BY <1>2, <2>2, <3>1
    <3> QED  BY <1>1, <3>1, <3>2 DEF BudgetInv, Within
  <2> QED  BY <2>1, <2>2 DEF Within
<1>6. Counted'
  BY <1>1 DEF BudgetInv, Counted
<1> QED  BY <1>3, <1>4, <1>5, <1>6 DEF BudgetInv

\* A call begins: it is reserved, and asked.
LEMMA BeginKeeps == BudgetInv /\ BeginCall => BudgetInv'
<1> SUFFICES ASSUME BudgetInv, BeginCall
             PROVE  BudgetInv'
  OBVIOUS
<1>1. /\ ledger \in Ledger /\ flights \in Seq(FlightRows) /\ cut \in BOOLEAN
      /\ ledger.calls = Len(ledger.settled) /\ Len(flights) = Len(ledger.settled)
  BY DEF BudgetInv, BudgetTyped, Reserved
<1>2. PICK kind \in {"plain", "stream"} :
        /\ Outcome(ReserveModelCall(ledger))
        /\ flights' = IF ReserveModelCall(ledger).threw THEN flights
                      ELSE Append(flights, [kind |-> kind, heard |-> NoUsage, at |-> "asked"])
  BY DEF BeginCall
<1>3. CASE Exceeds(ledger.calls + 1, ledger.limits.calls)
  <2>1. /\ ledger' = [ledger EXCEPT !.failure = "exceeded"] /\ flights' = flights
        /\ cut' = TRUE
    BY <1>1, <1>2, <1>3 DEF Outcome, ReserveModelCall, Throws
  <2>2. /\ ledger' \in Ledger /\ ledger'.limits = ledger.limits
        /\ ledger'.calls = ledger.calls /\ ledger'.settled = ledger.settled
        /\ ledger'.tokens = ledger.tokens
    BY <1>1, <2>1 DEF Ledger
  <2>3. BudgetTyped'
    BY <1>1, <2>1, <2>2 DEF BudgetTyped
  <2>4. Reserved'
    BY <2>1, <2>2 DEF BudgetInv, Reserved
  <2>5. Within'
    BY <2>1, <2>2 DEF BudgetInv, Within
  <2>6. Counted'
    BY <2>2 DEF BudgetInv, Counted
  <2> QED  BY <2>3, <2>4, <2>5, <2>6 DEF BudgetInv
<1>4. CASE ~Exceeds(ledger.calls + 1, ledger.limits.calls)
  <2> PICK new : new = [kind |-> kind, heard |-> NoUsage, at |-> "asked"]
    OBVIOUS
  <2>1. new \in FlightRows /\ new.at = "asked"
    BY DEF FlightRows
  <2>2. /\ ledger' = [ledger EXCEPT !.calls = @ + 1, !.settled = Append(@, Open)]
        /\ flights' = Append(flights, new) /\ cut' = cut
    BY <1>1, <1>2, <1>4 DEF Outcome, ReserveModelCall, Keeps
  <2>3. ledger.settled \in Seq(KnownUsage) /\ ledger.calls \in Nat /\ Open \in KnownUsage
    BY <1>1 DEF Ledger, KnownUsage
  <2>4. /\ ledger'.limits = ledger.limits /\ ledger'.calls = ledger.calls + 1
        /\ ledger'.settled = Append(ledger.settled, Open)
        /\ ledger'.tokens = ledger.tokens /\ ledger'.cost = ledger.cost
        /\ ledger'.failure = ledger.failure
    BY <1>1, <2>2 DEF Ledger
  <2>5. /\ ledger'.settled \in Seq(KnownUsage) /\ Len(ledger'.settled) = Len(ledger.settled) + 1
        /\ ledger'.settled[Len(ledger.settled) + 1] = Open
        /\ \A i \in 1 .. Len(ledger.settled) : ledger'.settled[i] = ledger.settled[i]
    <3> HIDE DEF KnownUsage
    <3> QED  BY <2>3, <2>4
  <2>6. /\ flights' \in Seq(FlightRows) /\ Len(flights') = Len(flights) + 1
        /\ flights'[Len(flights) + 1] = new
        /\ \A i \in 1 .. Len(flights) : flights'[i] = flights[i]
    <3> HIDE DEF FlightRows
    <3> QED  BY <1>1, <2>1, <2>2
  <2>7. ledger' \in Ledger
    <3>1. ledger' = [limits |-> ledger'.limits, calls |-> ledger'.calls,
                     tokens |-> ledger'.tokens, cost |-> ledger'.cost,
                     settled |-> ledger'.settled, failure |-> ledger'.failure]
      BY <1>1, <2>2 DEF Ledger
    <3>2. /\ ledger.limits \in Budgets /\ ledger.calls + 1 \in Nat /\ ledger.tokens \in Nat
          /\ ledger.cost \in Nat /\ ledger.failure \in {"none", "exceeded", "accounting"}
      BY <1>1, <2>3 DEF Ledger
    <3> HIDE DEF KnownUsage
    <3> QED  BY <2>4, <2>5, <3>1, <3>2 DEF Ledger
  <2>8. BudgetTyped'
    BY <1>1, <2>2, <2>6, <2>7 DEF BudgetTyped
  <2>9. \A i \in 1 .. Len(flights') : i = Len(flights) + 1 \/ i \in 1 .. Len(flights)
    BY <2>6
  <2>10. Reserved'
    <3>1. ledger'.calls = Len(ledger'.settled) /\ Len(flights') = Len(ledger'.settled)
      BY <1>1, <2>4, <2>5, <2>6
    <3>2. ASSUME NEW i \in 1 .. Len(flights'), flights'[i].at \in {"asked", "open"}
          PROVE  ledger'.settled[i] = Open
      <4>1. CASE i = Len(flights) + 1
        BY <1>1, <2>5, <4>1
      <4>2. CASE i \in 1 .. Len(flights)
        BY <1>1, <2>5, <2>6, <3>2, <4>2 DEF BudgetInv, Reserved
      <4> QED  BY <2>9, <4>1, <4>2
    <3> QED  BY <3>1, <3>2 DEF Reserved
  <2>11. Within'
    <3>1. ledger'.limits.calls # None => ledger'.calls <= ledger'.limits.calls
      <4>1. ledger.limits.calls \in Nat \cup {None}
        BY <1>1, BudgetAssumption DEF Ledger
      <4> QED  BY <1>4, <2>3, <2>4, <4>1 DEF Exceeds, None
    <3>2. ASSUME ~cut'
          PROVE  ledger'.failure = "none" /\ InLimits(ledger')
      BY <2>2, <2>4, <3>2 DEF BudgetInv, Within, InLimits
    <3>3. ASSUME ~cut', Limited', NEW i \in 1 .. Len(flights'), flights'[i].at = "settled"
          PROVE  Spent(ledger'.settled[i])
      <4>1. i \in 1 .. Len(flights)
        BY <2>1, <2>6, <2>9, <3>3
      <4>2. ~cut /\ Limited
        BY <2>2, <2>4, <3>3 DEF Limited
      <4>3. flights[i].at = "settled" /\ ledger'.settled[i] = ledger.settled[i]
        BY <1>1, <2>5, <2>6, <3>3, <4>1
      <4> QED  BY <4>1, <4>2, <4>3 DEF BudgetInv, Within
    <3> QED  BY <3>1, <3>2, <3>3 DEF Within
  <2>12. Counted'
    <3> PICK s : s = ledger.settled
      OBVIOUS
    <3>1. TokensTold(Append(s, Open)) = TokensTold(s)
      BY <2>3, TotalReserved
    <3> QED  BY <2>4, <3>1 DEF BudgetInv, Counted
  <2> QED  BY <2>8, <2>10, <2>11, <2>12 DEF BudgetInv
<1> QED  BY <1>3, <1>4

\* A chunk changes only what a stream has told.
LEMMA ChunkKeeps ==
    ASSUME BudgetInv, NEW id \in 1 .. Len(flights), Chunk(id)
    PROVE  BudgetInv'
<1>1. flights \in Seq(FlightRows) /\ ledger' = ledger /\ cut' = cut
  BY DEF BudgetInv, BudgetTyped, Chunk
<1>2. PICK u \in Usages \cup {Invalid} : flights' = [flights EXCEPT ![id].heard = u]
  BY DEF Chunk
<1>3. flights[id] \in FlightRows
  BY <1>1
<1>4. PICK f : f = [flights[id] EXCEPT !.heard = u]
  OBVIOUS
<1>5. f \in FlightRows /\ f.at = flights[id].at
  BY <1>3, <1>4 DEF FlightRows
<1>6. flights' = [flights EXCEPT ![id] = f]
  BY <1>2, <1>4
<1>7. /\ flights' \in Seq(FlightRows) /\ Len(flights') = Len(flights)
      /\ \A i \in 1 .. Len(flights) : flights'[i].at = flights[i].at
  <2> HIDE DEF FlightRows
  <2> QED  BY <1>1, <1>5, <1>6
<1>8. BudgetTyped'
  BY <1>1, <1>7 DEF BudgetInv, BudgetTyped
<1>9. Reserved'
  BY <1>1, <1>7 DEF BudgetInv, Reserved
<1>10. Within'
  <2>1. Limited' = Limited
    BY <1>1 DEF Limited
  <2> QED  BY <1>1, <1>7, <2>1 DEF BudgetInv, Within
<1>11. Counted'
  BY <1>1 DEF BudgetInv, Counted
<1> QED  BY <1>8, <1>9, <1>10, <1>11 DEF BudgetInv

\* The abort of a run changes nothing else.
LEMMA CutKeeps == BudgetInv /\ CutRun => BudgetInv'
<1> SUFFICES ASSUME BudgetInv, CutRun
             PROVE  BudgetInv'
  OBVIOUS
<1>1. ledger' = ledger /\ flights' = flights /\ cut' = TRUE
  BY DEF CutRun
<1>2. BudgetTyped' /\ Reserved' /\ Counted'
  BY <1>1 DEF BudgetInv, BudgetTyped, Reserved, Counted
<1>3. Within'
  BY <1>1 DEF BudgetInv, Within
<1> QED  BY <1>2, <1>3 DEF BudgetInv

\* Every step of a run keeps the invariant.
LEMMA BudgetStep == BudgetInv /\ [BudgetNext]_budgetVars => BudgetInv'
<1> SUFFICES ASSUME BudgetInv, [BudgetNext]_budgetVars
             PROVE  BudgetInv'
  OBVIOUS
<1>1. flights \in Seq(FlightRows) /\ DOMAIN flights = 1 .. Len(flights)
  BY DEF BudgetInv, BudgetTyped
<1>2. CASE BeginCall
  BY <1>2, BeginKeeps
<1>3. CASE CutRun
  BY <1>3, CutKeeps
<1>4. ASSUME NEW id \in DOMAIN flights,
             \/ ReplyArrives(id) \/ CallFails(id)
             \/ StreamOpens(id) \/ Chunk(id) \/ StreamCompletes(id) \/ StreamLeft(id)
      PROVE  BudgetInv'
  <2>1. id \in 1 .. Len(flights) /\ flights[id] \in FlightRows
    BY <1>1
  <2>2. flights[id].heard \in Usages \cup {NoUsage, Invalid}
    BY <2>1 DEF FlightRows
  <2>3. CASE ReplyArrives(id)
    <3>1. PICK u \in Usages \cup {NoUsage, Invalid} : Outcome(RecordModelUsage(ledger, id, u))
      BY <2>3 DEF ReplyArrives
    <3>2. flights[id].at \in {"asked", "open"} /\ Lands(id, "settled")
      BY <2>3 DEF ReplyArrives
    <3> QED  BY <2>1, <3>1, <3>2, SettledKeeps
  <2>4. CASE CallFails(id)
    <3>1. flights[id].at = "asked" /\ Lands(id, "dropped") /\ UNCHANGED <<ledger, cut>>
      BY <2>4 DEF CallFails
    <3> QED  BY <2>1, <3>1, UnpaidKeeps
  <2>5. CASE StreamOpens(id)
    <3>1. flights[id].at = "asked" /\ Lands(id, "open") /\ UNCHANGED <<ledger, cut>>
      BY <2>5 DEF StreamOpens
    <3> QED  BY <2>1, <3>1, UnpaidKeeps
  <2>6. CASE Chunk(id)
    BY <2>1, <2>6, ChunkKeeps
  <2>7. CASE StreamCompletes(id)
    <3>1. /\ flights[id].at = "open" /\ Lands(id, "settled")
          /\ Outcome(RecordModelUsage(ledger, id, flights[id].heard))
      BY <2>7 DEF StreamCompletes, Streams
    <3> QED  BY <2>1, <2>2, <3>1, SettledKeeps
  <2>8. CASE StreamLeft(id)
    <3>1. flights[id].at = "open" /\ Lands(id, "settled")
      BY <2>8 DEF StreamLeft, Streams
    <3>2. CASE RequiresUsage(ledger) /\ ~cut
      <4>1. Outcome(RecordModelUsage(ledger, id, flights[id].heard))
        BY <2>8, <3>2 DEF StreamLeft
      <4> QED  BY <2>1, <2>2, <3>1, <4>1, SettledKeeps
    <3>3. CASE ~(RequiresUsage(ledger) /\ ~cut)
      <4>1. UNCHANGED <<ledger, cut>>
        BY <2>8, <3>3 DEF StreamLeft
      <4>2. ~Limited \/ cut
        BY <3>3 DEF RequiresUsage, Limited
      <4> QED  BY <2>1, <3>1, <4>1, <4>2, UnpaidKeeps
    <3> QED  BY <3>2, <3>3
  <2> QED  BY <1>4, <2>3, <2>4, <2>5, <2>6, <2>7, <2>8
<1>5. CASE UNCHANGED budgetVars
  <2>1. ledger' = ledger /\ flights' = flights /\ cut' = cut
    BY <1>5 DEF budgetVars
  <2>2. BudgetTyped' /\ Reserved' /\ Counted'
    BY <2>1 DEF BudgetInv, BudgetTyped, Reserved, Counted
  <2>3. Within'
    BY <2>1 DEF BudgetInv, Within, Limited
  <2> QED  BY <2>2, <2>3 DEF BudgetInv
<1> QED  BY <1>2, <1>3, <1>4, <1>5 DEF BudgetNext

\* The invariant says that spending is known.
LEMMA BudgetSafe == BudgetInv => SpendingIsKnown
<1> SUFFICES ASSUME BudgetInv
             PROVE  SpendingIsKnown
  OBVIOUS
<1>1. ledger.limits.calls # None => ledger.calls <= ledger.limits.calls
  BY DEF BudgetInv, Within
<1>2. ledger.tokens = FoldLeft(LAMBDA sum, u : IF Spent(u) THEN sum + u.tokens ELSE sum,
                               0, ledger.settled)
  BY DEF BudgetInv, Counted, TokensTold
<1>3. DOMAIN flights = 1 .. Len(flights)
  BY DEF BudgetInv, BudgetTyped
<1>4. ~cut => /\ ledger.failure = "none"
              /\ ~Exceeds(ledger.tokens, ledger.limits.tokens)
              /\ ~Exceeds(ledger.cost, ledger.limits.cost)
              /\ ledger.limits.tokens # None \/ ledger.limits.cost # None =>
                   \A id \in DOMAIN flights :
                       flights[id].at = "settled" => Spent(ledger.settled[id])
  BY <1>3 DEF BudgetInv, Within, InLimits, Limited
<1> QED  BY <1>1, <1>2, <1>4 DEF SpendingIsKnown

\* A run that goes on is within every limit and knows the usage of every call it made where
\* a limit depends on it, each usage counted once, whatever the limits, the usages and the
\* number of calls that overlap (reserveModelCall, recordModelUsage, settleStream).
THEOREM BudgetsAreKept == BudgetSpec => []SpendingIsKnown
<1> QED  BY BudgetStart, BudgetStep, BudgetSafe, PTL DEF BudgetSpec

-----------------------------------------------------------------------------
(* The types of the server: ServerInv, and the exporter's runs. *)

ExporterTyped ==
    /\ transport \in [Requests -> {"sse", "json"}]
    /\ slots \subseteq Requests /\ dropped \subseteq Requests

LEMMA ExporterTypedStep == ExporterTyped /\ [ServerNext]_serverVars => ExporterTyped'
<1> SUFFICES ASSUME ExporterTyped, [ServerNext]_serverVars
             PROVE  ExporterTyped'
  OBVIOUS
<1>1. ASSUME NEW r \in Requests, NEW t \in {"sse", "json"}, ConnectRequest(r, t)
      PROVE  ExporterTyped'
  BY <1>1 DEF ExporterTyped, ConnectRequest
<1>2. ASSUME NEW r \in Requests, EmitEvent(r)
      PROVE  ExporterTyped'
  BY <1>2 DEF ExporterTyped, EmitEvent, ExportsProgress, Drops
<1>3. ASSUME NEW r \in Requests, FinishRun(r)
      PROVE  ExporterTyped'
  BY <1>3 DEF ExporterTyped, FinishRun, ExportsDone, Drops
<1>4. ASSUME CloseExporter
      PROVE  ExporterTyped'
  BY <1>4 DEF ExporterTyped, CloseExporter
<1>5. ASSUME UNCHANGED <<transport, slots, dropped>>
      PROVE  ExporterTyped'
  BY <1>5 DEF ExporterTyped
<1>6. ASSUME NEW r \in Requests, ClientLeaves(r)
      PROVE  ExporterTyped'
  BY <1>5, <1>6 DEF ClientLeaves
<1>7. CASE PollStarts \/ PollReturns
  BY <1>5, <1>7 DEF PollStarts, PollReturns
<1>8. CASE Signal \/ WorkerStopped
  BY <1>5, <1>8 DEF Signal, WorkerStopped
<1>9. CASE CloseRuntime \/ CloseRejects
  BY <1>5, <1>9 DEF CloseRuntime, CloseRejects
<1>10. CASE CloseDriver \/ ForceExit
  BY <1>5, <1>10 DEF CloseDriver, ForceExit
<1>11. CASE UNCHANGED serverVars
  BY <1>5, <1>11 DEF serverVars
<1>12. CASE \E r \in Requests :
        \/ \E t \in {"sse", "json"} : ConnectRequest(r, t)
        \/ ClientLeaves(r)
        \/ EmitEvent(r)
        \/ FinishRun(r)
  BY <1>12, <1>1, <1>2, <1>3, <1>6
<1> QED  BY <1>4, <1>7, <1>8, <1>9, <1>10, <1>11, <1>12 DEF ServerNext

LEMMA ServerTypes ==
    (ServerInit => ServerInv /\ ExporterTyped) /\ (ServerInv /\ ExporterTyped => ServerTypeOK)
<1>1. ServerInit => ServerInv /\ ExporterTyped
  BY ServerInvInit DEF ServerInit, ExporterTyped
<1>2. ServerInv /\ ExporterTyped => ServerTypeOK
  <2> SUFFICES ASSUME ServerInv, ExporterTyped
               PROVE  ServerTypeOK
    OBVIOUS
  <2>1. \A c \in Resources : closings[c] <= 1
    BY ServerInvPromises DEF ClosedAfterUse
  <2>2. closings \in [Resources -> 0 .. 2]
    BY <2>1 DEF ServerInv, ServerTyped
  <2> QED  BY <2>2 DEF ServerInv, ServerTyped, ExporterTyped, ServerTypeOK
<1> QED  BY <1>1, <1>2

-----------------------------------------------------------------------------
(* The types of the build. *)

LEMMA OutputChunks ==
    ASSUME NEW o \in Outputs \cup {NoOutput}
    PROVE  o.chunks \subseteq ChunkIds /\ ImagesOf(o) \subseteq ChunkIds
<1>1. CASE o \in Outputs
  BY <1>1, BuildAssumption DEF ChunkIds, ImagesOf
<1>2. CASE o = NoOutput
  BY <1>2 DEF NoOutput, ImagesOf
<1> QED  BY <1>1, <1>2

LEMMA BuildTypesStep == BuildTypeOK /\ [BuildNext]_buildVars => BuildTypeOK'
<1> SUFFICES ASSUME BuildTypeOK, [BuildNext]_buildVars
             PROVE  BuildTypeOK'
  OBVIOUS
<1> DEFINE Kept == UNCHANGED <<parser, stopping, assets, es, pages, graph>>
<1>1. ASSUME Kept, BuildTyped'
      PROVE  BuildTypeOK'
  BY <1>1 DEF BuildTypeOK, BuildTyped
<1>2. CASE UNCHANGED buildVars
  BY <1>2 DEF BuildTypeOK, buildVars
<1>3. ASSUME NEW a \in Attempts,
        \/ BeginAttempt(a) \/ StopProcess(a) \/ StopRefused(a) \/ ProcessExits(a) \/ ProcessCloses(a)
        \/ ReadOutput(a) \/ WriteAsset(a) \/ RenameAsset(a)
        \/ ChunkDocument(a) \/ WikifyChunks(a) \/ StoreChunks(a) \/ IndexPages(a)
        \/ StoreGraph(a) \/ StageFails(a) \/ Crash(a)
      PROVE  BuildTypeOK'
  <2>1. BuildNext
    BY <1>3 DEF BuildNext
  <2>2. BuildTyped'
    BY <2>1, BuildTypedNext DEF BuildTypeOK, BuildTyped
  <2>3. CASE BeginAttempt(a) \/ ProcessExits(a) \/ ProcessCloses(a) \/ ReadOutput(a)
    BY <2>3, <2>2, <1>1 DEF BeginAttempt, ProcessExits, ProcessCloses, ReadOutput, stores
  <2>4. CASE WriteAsset(a) \/ ChunkDocument(a) \/ WikifyChunks(a) \/ StageFails(a) \/ Crash(a)
    BY <2>4, <2>2, <1>1
       DEF WriteAsset, ChunkDocument, WikifyChunks, StageFails, Crash, stores, parsing
  <2>5. CASE StopProcess(a)
    BY <2>5, <2>2 DEF StopProcess, BuildTypeOK, BuildTyped, stores
  <2>12. CASE StopRefused(a)
    BY <2>12, <2>2 DEF StopRefused, BuildTypeOK, BuildTyped, stores
  <2>6. output[a] \in Outputs \cup {NoOutput}
    BY DEF BuildTypeOK
  <2>7. output[a].chunks \subseteq ChunkIds /\ ImagesOf(output[a]) \subseteq ChunkIds
    BY <2>6, OutputChunks
  <2>8. CASE RenameAsset(a)
    <3>1. assets' \subseteq ChunkIds
      BY <2>7, <2>8 DEF RenameAsset, BuildTypeOK
    <3> QED  BY <3>1, <2>8, <2>2 DEF RenameAsset, BuildTypeOK, BuildTyped, stores
  <2>9. CASE StoreChunks(a)
    <3>1. es' \subseteq ChunkIds
      BY <2>7, <2>9 DEF StoreChunks, BuildTypeOK
    <3> QED  BY <3>1, <2>9, <2>2 DEF StoreChunks, BuildTypeOK, BuildTyped, parsing
  <2>10. CASE IndexPages(a)
    <3>1. pages' \in Outputs \cup {NoOutput}
      BY <2>6, <2>10 DEF IndexPages, BuildTypeOK
    <3> QED  BY <3>1, <2>10, <2>2 DEF IndexPages, BuildTypeOK, BuildTyped, parsing
  <2>11. CASE StoreGraph(a)
    <3>1. graph' \subseteq ChunkIds
      BY <2>7, <2>11 DEF StoreGraph, BuildTypeOK
    <3> QED  BY <3>1, <2>11, <2>2 DEF StoreGraph, BuildTypeOK, BuildTyped, parsing
  <2> QED  BY <1>3, <2>3, <2>4, <2>5, <2>8, <2>9, <2>10, <2>11, <2>12
<1> QED  BY <1>2, <1>3 DEF BuildNext

LEMMA BuildTypes == BuildInit => BuildTypeOK
BY DEF BuildInit, BuildTypeOK, Phases

-----------------------------------------------------------------------------
(* The types of the browser: the active thread is a listed one, on the page *)
(* and in storage.                                                          *)

\* A page as it may be saved and loaded.
Listing(p) == p \in Page /\ p.active \in ToSet(p.list)

BrowserTyped ==
    /\ Listing(page) /\ Listing(stored)
    /\ turn \in 0 .. Len(page.messages)
    /\ aborted \in BOOLEAN
    /\ leaving \subseteq Threads
    /\ attachments \in Seq(Place) /\ Len(attachments) <= MaxAttachments
    /\ picks \in Seq(Pick) /\ Len(picks) <= MaxPicks

\* A function on 1 .. n is a sequence.
LEMMA FunctionIsSeq ==
    ASSUME NEW S, NEW n \in Nat, NEW f, f = [i \in 1 .. n |-> f[i]], \A i \in 1 .. n : f[i] \in S
    PROVE  f \in Seq(S) /\ Len(f) = n
OBVIOUS

\* Messages that are changed one by one.
LEMMA MessagesMapped ==
    ASSUME NEW p \in Page, NEW fs, DOMAIN fs = DOMAIN p.messages,
           fs = [m \in DOMAIN p.messages |-> fs[m]],
           \A m \in DOMAIN p.messages : fs[m] \in Message,
           NEW q, q = [p EXCEPT !.messages = fs]
    PROVE  /\ q \in Page /\ q.list = p.list /\ q.active = p.active
           /\ Len(q.messages) = Len(p.messages)
<1>1. p.messages \in Seq(Message)
  BY DEF Page
<1>2. PICK n \in Nat : n = Len(p.messages) /\ DOMAIN p.messages = 1 .. n
  BY <1>1
<1>3. fs = [m \in 1 .. n |-> fs[m]] /\ \A m \in 1 .. n : fs[m] \in Message
  BY <1>2
<1>4. fs \in Seq(Message) /\ Len(fs) = n
  BY <1>3, FunctionIsSeq
<1>5. q \in Page /\ q.list = p.list /\ q.active = p.active /\ q.messages = fs
  BY <1>4 DEF Page
<1> QED  BY <1>2, <1>4, <1>5

\* Messages some of which are not kept.
LEMMA KeptMessages ==
    ASSUME NEW p \in Page, NEW W, NEW q, NEW fs,
           fs = [m \in DOMAIN p.messages |-> KeptIf(p.messages[m], m \in W)],
           q = [p EXCEPT !.messages = fs]
    PROVE  /\ q \in Page /\ q.list = p.list /\ q.active = p.active
           /\ Len(q.messages) = Len(p.messages)
<1>1. p.messages \in Seq(Message)
  BY DEF Page
<1>2. ASSUME NEW m \in DOMAIN p.messages
      PROVE  fs[m] \in Message
  <2>1. PICK msg, w : msg = p.messages[m] /\ w = (m \in W)
    OBVIOUS
  <2>2. msg \in Message /\ w \in BOOLEAN
    BY <1>1, <2>1
  <2>3. fs[m] = KeptIf(msg, w)
    BY <2>1
  <2> QED  BY <2>2, <2>3 DEF Message, KeptIf
<1>3. DOMAIN fs = DOMAIN p.messages /\ fs = [m \in DOMAIN p.messages |-> fs[m]]
  OBVIOUS
<1> QED  BY <1>2, <1>3, MessagesMapped

\* Saving keeps the threads and the number of messages.
LEMMA SavedListing ==
    ASSUME NEW p, Listing(p)
    PROVE  Listing(Saved(p))
<1>1. p \in Page
  BY DEF Listing
<1>2. PICK fs, W : /\ W = {m \in DOMAIN p.messages : p.messages[m].thread \in ToSet(p.list)}
                   /\ fs = [m \in DOMAIN p.messages |-> KeptIf(p.messages[m], m \in W)]
  OBVIOUS
<1>3. \A m \in DOMAIN p.messages : (m \in W) = (p.messages[m].thread \in ToSet(p.list))
  BY <1>2
<1>4. fs = [m \in DOMAIN p.messages |->
              KeptIf(p.messages[m], p.messages[m].thread \in ToSet(p.list))]
  BY <1>2, <1>3
<1>5. PICK q : q = Saved(p)
  OBVIOUS
<1>6. q = [p EXCEPT !.messages = fs]
  BY <1>4, <1>5 DEF Saved
<1>7. q \in Page /\ q.list = p.list /\ q.active = p.active
  BY <1>1, <1>2, <1>6, KeptMessages
<1> QED  BY <1>5, <1>7 DEF Listing

\* Picks that are changed one by one.
LEMMA PicksMapped ==
    ASSUME BrowserTyped, NEW fs, DOMAIN fs = DOMAIN picks, fs = [k \in DOMAIN picks |-> fs[k]],
           \A k \in DOMAIN picks : fs[k] \in Pick
    PROVE  fs \in Seq(Pick) /\ Len(fs) = Len(picks) /\ Len(fs) <= MaxPicks
<1>1. picks \in Seq(Pick) /\ Len(picks) <= MaxPicks
  BY DEF BrowserTyped
<1>2. PICK n \in Nat : n = Len(picks) /\ DOMAIN picks = 1 .. n
  BY <1>1
<1>3. fs = [k \in 1 .. n |-> fs[k]] /\ \A k \in 1 .. n : fs[k] \in Pick
  BY <1>2
<1> QED  BY <1>1, <1>2, <1>3

\* A cleared composer.
LEMMA ClearedTypes ==
    ASSUME BrowserTyped, ClearComposer
    PROVE  /\ attachments' \in Seq(Place) /\ Len(attachments') <= MaxAttachments
           /\ picks' \in Seq(Pick) /\ Len(picks') <= MaxPicks
<1>1. attachments' = << >>
  BY DEF ClearComposer
<1>2. PICK fs : fs = [k \in DOMAIN picks |->
                  [picks[k] EXCEPT !.place.cleared = TRUE, !.fresh = FALSE]]
  OBVIOUS
<1>3. picks' = fs
  BY <1>2 DEF ClearComposer, NextGeneration
<1>4. ASSUME NEW k \in DOMAIN picks
      PROVE  fs[k] \in Pick
  <2>1. PICK e : e = picks[k]
    OBVIOUS
  <2>2. e \in Pick
    BY <2>1 DEF BrowserTyped
  <2>3. fs[k] = [e EXCEPT !.place.cleared = TRUE, !.fresh = FALSE]
    BY <1>2, <2>1
  <2> QED  BY <2>2, <2>3 DEF Pick, Place
<1>5. DOMAIN fs = DOMAIN picks /\ fs = [k \in DOMAIN picks |-> fs[k]]
  BY <1>2
<1>6. picks' \in Seq(Pick) /\ Len(picks') <= MaxPicks
  BY <1>3, <1>4, <1>5, PicksMapped
<1>7. Len(<< >>) = 0 /\ << >> \in Seq(Place) /\ 0 <= MaxAttachments
  BY BrowserAssumption
<1> QED  BY <1>1, <1>6, <1>7

\* One message that gets another status or text.
LEMMA MessageSet ==
    ASSUME NEW p, Listing(p), NEW k \in 1 .. Len(p.messages), NEW m \in Message
    PROVE  LET q == [p EXCEPT !.messages[k] = m]
           IN  Listing(q) /\ Len(q.messages) = Len(p.messages) /\ q.active = p.active
<1>1. p.messages \in Seq(Message)
  BY DEF Listing, Page
<1>2. PICK ms : ms = [p.messages EXCEPT ![k] = m]
  OBVIOUS
<1>3. ms \in Seq(Message) /\ Len(ms) = Len(p.messages)
  BY <1>1, <1>2, ExceptSeq
<1>4. PICK q : q = [p EXCEPT !.messages = ms]
  OBVIOUS
<1>5. q \in Page /\ q.list = p.list /\ q.active = p.active /\ q.messages = ms
  BY <1>3, <1>4 DEF Listing, Page
<1>6. [p EXCEPT !.messages[k] = m] = q
  BY <1>2, <1>4
<1>7. Listing(q)
  BY <1>5 DEF Listing
<1> QED  BY <1>3, <1>5, <1>6, <1>7

\* The first of its kind that is taken out of a list leaves the others there.
LEMMA FirstRemoved ==
    ASSUME NEW S, NEW list \in Seq(S), NEW t
    PROVE  /\ RemoveFirst(list, t) \in Seq(S)
           /\ \A u \in ToSet(list) : u # t => u \in ToSet(RemoveFirst(list, t))
<1> PICK n \in Nat : n = Len(list) /\ DOMAIN list = 1 .. n
  OBVIOUS
<1> PICK rest : rest = RemoveFirst(list, t)
  OBVIOUS
<1>1. CASE ~\E i \in 1 .. n : list[i] = t
  BY <1>1 DEF RemoveFirst
<1>2. CASE \E i \in 1 .. n : list[i] = t
  <2> DEFINE I == {j \in 1 .. n : list[j] = t}
  <2>1. I # {} /\ I \in SUBSET Nat
    BY <1>2
  <2>2. PICK i : i = Min(I)
    OBVIOUS
  <2>3. i \in I
    <3>1. \E x \in I : \A y \in I : x <= y
      <4> HIDE DEF I
      <4> QED  BY <2>1, LeastNat
    <3> QED  BY <2>2, <3>1 DEF Min
  <2>4. rest = RemoveAt(list, i)
    <3>1. SelectInSeq(list, LAMBDA v : v = t) = i
      BY <2>1, <2>2 DEF SelectInSeq
    <3> QED  BY <1>2, <3>1 DEF RemoveFirst
  <2> DEFINE b == SubSeq(list, 1, i - 1)
             a == SubSeq(list, i + 1, n)
  <2>5. rest = b \o a
    BY <2>4 DEF RemoveAt
  <2>6. /\ b \in Seq(S) /\ Len(b) = i - 1 /\ \A j \in 1 .. i - 1 : b[j] = list[j]
        /\ a \in Seq(S) /\ Len(a) = n - i /\ \A j \in 1 .. n - i : a[j] = list[i + j]
    BY <2>3, SubSeqProperties
  <2> HIDE DEF a, b
  <2>7. /\ rest \in Seq(S) /\ Len(rest) = n - 1
        /\ \A j \in 1 .. n - 1 : rest[j] = IF j <= i - 1 THEN b[j] ELSE a[j - (i - 1)]
    <3>1. PICK x, y : x = b /\ y = a
      OBVIOUS
    <3>2. x \in Seq(S) /\ y \in Seq(S) /\ rest = x \o y
      BY <2>5, <2>6, <3>1
    <3>3. /\ rest \in Seq(S) /\ Len(rest) = Len(x) + Len(y)
          /\ \A j \in 1 .. Len(x) + Len(y) :
               rest[j] = IF j <= Len(x) THEN x[j] ELSE y[j - Len(x)]
      BY <3>2, ConcatProperties
    <3>4. Len(x) = i - 1 /\ Len(y) = n - i /\ i \in 1 .. n
      BY <2>3, <2>6, <3>1
    <3>5. Len(x) + Len(y) = n - 1
      BY <3>4
    <3> QED  BY <3>1, <3>3, <3>4, <3>5
  <2>8. ASSUME NEW u \in ToSet(list), u # t
        PROVE  u \in ToSet(rest)
    <3>1. PICK j \in 1 .. n : list[j] = u
      BY DEF ToSet
    <3>2. j # i
      BY <2>3, <2>8, <3>1
    <3>3. CASE j < i
      <4>1. j \in 1 .. n - 1 /\ rest[j] = u
        BY <2>3, <2>6, <2>7, <3>1, <3>3
      <4> QED  BY <2>7, <4>1 DEF ToSet
    <3>4. CASE j > i
      <4>1. j - 1 \in 1 .. n - 1 /\ rest[j - 1] = a[j - i] /\ j - i \in 1 .. n - i
        <5>1. i \in 1 .. n /\ j \in 1 .. n
          BY <2>3
        <5>2. /\ j - 1 \in 1 .. n - 1 /\ j - i \in 1 .. n - i /\ ~(j - 1 <= i - 1)
              /\ (j - 1) - (i - 1) = j - i
          BY <3>4, <5>1
        <5>3. rest[j - 1] = a[(j - 1) - (i - 1)]
          BY <2>7, <5>2
        <5> QED  BY <5>2, <5>3
      <4>2. rest[j - 1] = u
        BY <2>3, <2>6, <3>1, <4>1
      <4> QED  BY <2>7, <4>1, <4>2 DEF ToSet
    <3> QED  BY <2>3, <3>2, <3>3, <3>4
  <2> QED  BY <2>7, <2>8
<1> QED  BY <1>1, <1>2

\* A page whose list of threads, and whose active one, are others.
LEMMA Relisted ==
    ASSUME NEW p, Listing(p), NEW list \in Seq(Threads), NEW t \in ToSet(list), t \in Threads,
           NEW q, q = [p EXCEPT !.list = list, !.active = t]
    PROVE  Listing(q) /\ Len(q.messages) = Len(p.messages)
<1>1. p.messages \in Seq(Message) /\ p \in Page
  BY DEF Listing, Page
<1>2. PICK r : r = [list |-> list, active |-> t, messages |-> p.messages]
  OBVIOUS
<1>3. p = [list |-> p.list, active |-> p.active, messages |-> p.messages]
  BY <1>1 DEF Page
<1>4. q = r
  <2>1. PICK l, a, m : p = [list |-> l, active |-> a, messages |-> m] /\ m = p.messages
    BY <1>3
  <2>2. PICK o : o = [list |-> list, active |-> a, messages |-> m]
    OBVIOUS
  <2>3. [p EXCEPT !.list = list] = o
    BY <2>1, <2>2
  <2>4. [o EXCEPT !.active = t] = r
    BY <1>2, <2>1, <2>2
  <2>5. q = [[p EXCEPT !.list = list] EXCEPT !.active = t]
    OBVIOUS
  <2> QED  BY <2>3, <2>4, <2>5
<1>5. r \in Page /\ r.active \in ToSet(r.list)
  BY <1>1, <1>2 DEF Page
<1> QED  BY <1>2, <1>4, <1>5 DEF Listing

\* What is left of the attachments when one is removed.
LEMMA OneRemoved ==
    ASSUME NEW S, NEW s \in Seq(S), NEW i \in 1 .. Len(s)
    PROVE  RemoveAt(s, i) \in Seq(S) /\ Len(RemoveAt(s, i)) = Len(s) - 1
<1> PICK n \in Nat : n = Len(s)
  OBVIOUS
<1> PICK x, y : x = SubSeq(s, 1, i - 1) /\ y = SubSeq(s, i + 1, n)
  OBVIOUS
<1>1. x \in Seq(S) /\ Len(x) = i - 1 /\ y \in Seq(S) /\ Len(y) = n - i
  BY SubSeqProperties
<1>2. PICK r : r = x \o y
  OBVIOUS
<1>3. r \in Seq(S) /\ Len(r) = Len(x) + Len(y)
  BY <1>1, <1>2, ConcatProperties
<1>4. RemoveAt(s, i) = r
  BY <1>2 DEF RemoveAt
<1>5. Len(r) = n - 1
  BY <1>1, <1>3
<1> QED  BY <1>3, <1>4, <1>5

\* The types of the composer.
ComposerTyped ==
    /\ attachments \in Seq(Place) /\ Len(attachments) <= MaxAttachments
    /\ picks \in Seq(Pick) /\ Len(picks) <= MaxPicks

LEMMA PickFilesTypes ==
    ASSUME BrowserTyped, NEW n \in 1 .. 2, PickFiles(n)
    PROVE  ComposerTyped'
<1>1. PICK fs : fs = [k \in DOMAIN picks |-> [picks[k] EXCEPT !.fresh = FALSE]]
  OBVIOUS
<1>2. PICK new : new = [place |-> [thread |-> page.active, cleared |-> FALSE],
                        left |-> n, fresh |-> TRUE]
  OBVIOUS
<1>3. picks' = Append(fs, new) /\ Len(picks) < MaxPicks /\ UNCHANGED attachments
  BY <1>1, <1>2 DEF PickFiles
<1>4. ASSUME NEW k \in DOMAIN picks
      PROVE  fs[k] \in Pick
  <2>1. PICK e : e = picks[k]
    OBVIOUS
  <2>2. e \in Pick /\ fs[k] = [e EXCEPT !.fresh = FALSE]
    BY <1>1, <2>1 DEF BrowserTyped
  <2> QED  BY <2>2 DEF Pick
<1>5. DOMAIN fs = DOMAIN picks /\ fs = [k \in DOMAIN picks |-> fs[k]]
  BY <1>1
<1>6. fs \in Seq(Pick) /\ Len(fs) = Len(picks)
  BY <1>4, <1>5, PicksMapped
<1>7. new \in Pick
  BY <1>2 DEF BrowserTyped, Listing, Page, Pick, Place
<1>8. Len(picks) \in Nat /\ MaxPicks \in Nat
  BY BrowserAssumption DEF BrowserTyped
<1>9. picks' \in Seq(Pick) /\ Len(picks') <= MaxPicks
  BY <1>3, <1>6, <1>7, <1>8
<1> QED  BY <1>3, <1>9 DEF ComposerTyped, BrowserTyped

LEMMA ReadFileTypes ==
    ASSUME BrowserTyped, NEW k \in DOMAIN picks, ReadFile(k)
    PROVE  ComposerTyped'
<1>1. PICK e : e = picks[k]
  OBVIOUS
<1>2. e \in Pick /\ k \in 1 .. Len(picks) /\ picks \in Seq(Pick) /\ Len(picks) <= MaxPicks
  BY <1>1 DEF BrowserTyped
<1>3. e.left \in 1 .. 2 /\ e.place \in Place
  BY <1>1, <1>2 DEF ReadFile, Pick
<1>4. ASSUME NEW left \in 0 .. 2, picks' = [picks EXCEPT ![k].left = left]
      PROVE  picks' \in Seq(Pick) /\ Len(picks') <= MaxPicks
  <2>1. PICK f : f = [e EXCEPT !.left = left]
    OBVIOUS
  <2>2. f \in Pick
    BY <1>2, <2>1 DEF Pick
  <2>3. picks' = [picks EXCEPT ![k] = f]
    BY <1>1, <1>4, <2>1
  <2> QED  BY <1>2, <2>2, <2>3, ExceptSeq
<1>5. CASE StillWanted(k) /\ Len(attachments) < MaxAttachments
  <2>1. /\ picks' = [picks EXCEPT ![k].left = e.left - 1]
        /\ attachments' \in {attachments, Append(attachments, e.place)}
    BY <1>1, <1>5 DEF ReadFile
  <2>2. e.left - 1 \in 0 .. 2
    BY <1>3
  <2>3. Len(attachments) \in Nat /\ MaxAttachments \in Nat /\ attachments \in Seq(Place)
    BY BrowserAssumption DEF BrowserTyped
  <2>4. attachments' \in Seq(Place) /\ Len(attachments') <= MaxAttachments
    BY <1>3, <1>5, <2>1, <2>3, SMTT(30)
  <2> QED  BY <1>4, <2>1, <2>2, <2>4 DEF ComposerTyped
<1>6. CASE ~(StillWanted(k) /\ Len(attachments) < MaxAttachments)
  <2>1. picks' = [picks EXCEPT ![k].left = 0] /\ UNCHANGED attachments
    BY <1>6 DEF ReadFile
  <2> QED  BY <1>4, <2>1 DEF ComposerTyped, BrowserTyped
<1> QED  BY <1>5, <1>6

LEMMA RemoveTypes ==
    ASSUME BrowserTyped, NEW i \in DOMAIN attachments, RemoveAttachment(i)
    PROVE  ComposerTyped'
<1>1. PICK a : a = attachments
  OBVIOUS
<1>2. a \in Seq(Place) /\ Len(a) <= MaxAttachments /\ i \in 1 .. Len(a) /\ Len(a) \in Nat
  BY <1>1 DEF BrowserTyped
<1>3. attachments' = RemoveAt(a, i) /\ UNCHANGED picks
  BY <1>1 DEF RemoveAttachment
<1>4. attachments' \in Seq(Place) /\ Len(attachments') = Len(a) - 1
  BY <1>2, <1>3, OneRemoved
<1> QED  BY <1>2, <1>3, <1>4, BrowserAssumption DEF ComposerTyped, BrowserTyped

LEMMA ReloadTypes ==
    ASSUME BrowserTyped, ReloadPage
    PROVE  BrowserTyped'
<1>1. PICK fs : fs = [k \in DOMAIN picks |-> [picks[k] EXCEPT !.left = 0, !.fresh = FALSE]]
  OBVIOUS
<1>2. picks' = fs
  BY <1>1 DEF ReloadPage
<1>3. ASSUME NEW k \in DOMAIN picks
      PROVE  fs[k] \in Pick
  <2>1. PICK e : e = picks[k]
    OBVIOUS
  <2>2. PICK f : f = [e EXCEPT !.left = 0]
    OBVIOUS
  <2>3. e \in Pick
    BY <2>1 DEF BrowserTyped
  <2>4. f \in Pick
    BY <2>2, <2>3 DEF Pick
  <2>5. [e EXCEPT !.left = 0, !.fresh = FALSE] = [[e EXCEPT !.left = 0] EXCEPT !.fresh = FALSE]
    OBVIOUS
  <2>6. fs[k] = [f EXCEPT !.fresh = FALSE]
    BY <1>1, <2>1, <2>2, <2>5
  <2> QED  BY <2>4, <2>6 DEF Pick
<1>4. DOMAIN fs = DOMAIN picks /\ fs = [k \in DOMAIN picks |-> fs[k]]
  BY <1>1
<1>5. picks' \in Seq(Pick) /\ Len(picks') <= MaxPicks
  BY <1>2, <1>3, <1>4, PicksMapped
<1>6. Len(<< >>) = 0 /\ << >> \in Seq(Place) /\ 0 <= MaxAttachments
  BY BrowserAssumption
<1>7. attachments' \in Seq(Place) /\ Len(attachments') <= MaxAttachments
  BY <1>6 DEF ReloadPage
<1>8. /\ page' = stored /\ UNCHANGED stored /\ turn' = 0 /\ aborted' = FALSE /\ leaving' = {}
  BY DEF ReloadPage
<1>9. Listing(page)' /\ Listing(stored)'
  BY <1>8 DEF BrowserTyped, Listing
<1>10. turn' \in 0 .. Len(page.messages)'
  <2>1. Len(stored.messages) \in Nat
    BY DEF BrowserTyped, Listing, Page
  <2> QED  BY <1>8, <2>1
<1> QED  BY <1>5, <1>7, <1>8, <1>9, <1>10 DEF BrowserTyped

\* A save of a page that is as it should be.
LEMMA SaveTypes ==
    ASSUME NEW p, Listing(p), Save(p)
    PROVE  Listing(page)' /\ Listing(stored)' /\ Len(page.messages)' = Len(p.messages)
<1>1. page' = p /\ stored' = Saved(p)
  BY DEF Save
<1>2. Listing(Saved(p))
  BY SavedListing
<1> QED  BY <1>1, <1>2 DEF Listing

\* The question is added to the messages, and its answer gets the next turn.
LEMMA StartTypes ==
    ASSUME BrowserTyped, NEW p, Listing(p), StartTurn(p)
    PROVE  BrowserTyped'
<1>1. PICK msg : msg = [thread |-> p.active, status |-> "running", text |-> "none",
                        named |-> FALSE, kept |-> TRUE]
  OBVIOUS
<1>2. msg \in Message /\ p.messages \in Seq(Message)
  BY <1>1 DEF Listing, Page, Message
<1>3. PICK ms : ms = Append(p.messages, msg)
  OBVIOUS
<1>4. PICK n \in Nat : ms \in Seq(Message) /\ Len(ms) = n + 1 /\ ms[n + 1] = msg
  BY <1>2, <1>3
<1>5. PICK q : q = [p EXCEPT !.messages = ms]
  OBVIOUS
<1>6. Listing(q) /\ q.messages = ms
  BY <1>4, <1>5 DEF Listing, Page
<1>7. PICK r : r = [q EXCEPT !.messages[Len(q.messages)].named = TRUE]
  OBVIOUS
<1>8. page' = r /\ stored' = Saved(q) /\ turn' = Len(q.messages)
  BY <1>1, <1>3, <1>5, <1>7 DEF StartTurn
<1>9. PICK named : named = [msg EXCEPT !.named = TRUE]
  OBVIOUS
<1>10. named \in Message
  BY <1>2, <1>9 DEF Message
<1>11. r = [q EXCEPT !.messages[n + 1] = named]
  BY <1>4, <1>6, <1>7, <1>9
<1>12. n + 1 \in 1 .. Len(q.messages)
  BY <1>4, <1>6
<1>13. Listing(r) /\ Len(r.messages) = Len(q.messages)
  BY <1>6, <1>10, <1>11, <1>12, MessageSet
<1>14. Listing(Saved(q))
  BY <1>6, SavedListing
<1>15. turn' \in 0 .. Len(page.messages)'
  BY <1>4, <1>6, <1>8, <1>13
<1>16. Listing(page)' /\ Listing(stored)'
  BY <1>8, <1>13, <1>14 DEF Listing
<1>17. aborted' = FALSE /\ ClearComposer /\ UNCHANGED leaving
  BY DEF StartTurn
<1>18. /\ attachments' \in Seq(Place) /\ Len(attachments') <= MaxAttachments
       /\ picks' \in Seq(Pick) /\ Len(picks') <= MaxPicks
  BY <1>17, ClearedTypes
<1> QED  BY <1>15, <1>16, <1>17, <1>18 DEF BrowserTyped

\* The handlers that only work on the composer.
LEMMA ComposerKeeps ==
    ASSUME BrowserTyped, ComposerTyped', UNCHANGED <<page, stored, turn, aborted, leaving>>
    PROVE  BrowserTyped'
BY DEF BrowserTyped, ComposerTyped, Listing

\* The handlers of threads save the page, and most clear the composer.
LEMMA ThreadsKeep ==
    ASSUME BrowserTyped, NEW p, Listing(p), Save(p), Len(p.messages) = Len(page.messages),
           ClearComposer, UNCHANGED turn, aborted' \in BOOLEAN, leaving' \subseteq Threads
    PROVE  BrowserTyped'
<1>1. Listing(page)' /\ Listing(stored)' /\ Len(page.messages)' = Len(p.messages)
  BY SaveTypes
<1>2. /\ attachments' \in Seq(Place) /\ Len(attachments') <= MaxAttachments
      /\ picks' \in Seq(Pick) /\ Len(picks') <= MaxPicks
  BY ClearedTypes
<1>3. turn' \in 0 .. Len(page.messages)'
  BY <1>1 DEF BrowserTyped
<1> QED  BY <1>1, <1>2, <1>3 DEF BrowserTyped

LEMMA EndTurnTypes ==
    ASSUME BrowserTyped, NEW status \in {"complete", "error"}, EndTurn(status)
    PROVE  BrowserTyped'
<1>1. turn \in 1 .. Len(page.messages) /\ page.messages \in Seq(Message)
  BY DEF EndTurn, BrowserTyped, Listing, Page
<1>2. PICK msg, k : msg = page.messages[k] /\ k = turn
  OBVIOUS
<1>3. PICK done : done = [msg EXCEPT !.status = status, !.text = "final"]
  OBVIOUS
<1>4. msg \in Message
  BY <1>1, <1>2
<1>5. done \in Message
  BY <1>3, <1>4 DEF Message
<1>6. PICK p : p = [page EXCEPT !.messages[turn].status = status,
                                !.messages[turn].text = "final"]
  OBVIOUS
<1>7. p = [page EXCEPT !.messages[k] = done]
  <2>1. PICK l, a, ms : page = [list |-> l, active |-> a, messages |-> ms] /\ ms = page.messages
    BY DEF BrowserTyped, Listing, Page
  <2>2. ms \in Seq(Message) /\ k \in 1 .. Len(ms) /\ msg = ms[k]
    BY <1>1, <1>2, <2>1
  <2>3. PICK half : half = [msg EXCEPT !.status = status]
    OBVIOUS
  <2>4. PICK ns : ns = [ms EXCEPT ![k] = half]
    OBVIOUS
  <2>5. PICK q : q = [page EXCEPT !.messages[turn].status = status]
    OBVIOUS
  <2>6. q = [list |-> l, active |-> a, messages |-> ns]
    BY <1>2, <2>1, <2>3, <2>4, <2>5
  <2>7. p = [q EXCEPT !.messages[turn].text = "final"]
    <3>1. [page EXCEPT !.messages[turn].status = status, !.messages[turn].text = "final"]
            = [[page EXCEPT !.messages[turn].status = status]
                 EXCEPT !.messages[turn].text = "final"]
      OBVIOUS
    <3> QED  BY <1>6, <2>5, <3>1
  <2>8. ns[k] = half
    BY <2>2, <2>4
  <2>9. done = [half EXCEPT !.text = "final"]
    <3>1. [msg EXCEPT !.status = status, !.text = "final"]
            = [[msg EXCEPT !.status = status] EXCEPT !.text = "final"]
      OBVIOUS
    <3> QED  BY <1>3, <2>3, <3>1
  <2>10. PICK os : os = [ns EXCEPT ![k] = done]
    OBVIOUS
  <2>11. p = [list |-> l, active |-> a, messages |-> os]
    BY <1>2, <2>6, <2>7, <2>8, <2>9, <2>10
  <2>12. os = [ms EXCEPT ![k] = done]
    BY <2>2, <2>4, <2>10
  <2> QED  BY <2>1, <2>11, <2>12
<1>8. Listing(page) /\ k \in 1 .. Len(page.messages)
  BY <1>1, <1>2 DEF BrowserTyped
<1>9. Listing(p) /\ Len(p.messages) = Len(page.messages)
  BY <1>5, <1>7, <1>8, MessageSet
<1>10. Save(p)
  BY <1>6 DEF EndTurn
<1>11. Listing(page)' /\ Listing(stored)' /\ Len(page.messages)' = Len(p.messages)
  BY <1>9, <1>10, SaveTypes
<1>12. turn' \in 0 .. Len(page.messages)'
  <2>1. Len(page.messages) \in Nat
    BY <1>1
  <2> QED  BY <1>9, <1>11, <2>1 DEF EndTurn
<1> QED  BY <1>11, <1>12 DEF EndTurn, BrowserTyped

LEMMA TokenTypes ==
    ASSUME BrowserTyped, ReceiveToken
    PROVE  BrowserTyped'
<1>1. turn \in 1 .. Len(page.messages) /\ page.messages \in Seq(Message)
  BY DEF ReceiveToken, BrowserTyped, Listing, Page
<1>2. PICK msg, k : msg = page.messages[k] /\ k = turn
  OBVIOUS
<1>3. PICK told : told = [msg EXCEPT !.text = "some"]
  OBVIOUS
<1>4. msg \in Message
  BY <1>1, <1>2
<1>5. told \in Message
  BY <1>3, <1>4 DEF Message
<1>6. PICK p : p = [page EXCEPT !.messages[k] = told]
  OBVIOUS
<1>7. page' = p /\ UNCHANGED <<stored, turn, aborted, leaving, attachments, picks>>
  BY <1>2, <1>3, <1>6 DEF ReceiveToken
<1>8. Listing(page) /\ k \in 1 .. Len(page.messages)
  BY <1>1, <1>2 DEF BrowserTyped
<1>9. Listing(p) /\ Len(p.messages) = Len(page.messages)
  BY <1>5, <1>6, <1>8, MessageSet
<1>10. Listing(page)' /\ turn' \in 0 .. Len(page.messages)'
  BY <1>7, <1>9 DEF Listing, BrowserTyped
<1> QED  BY <1>7, <1>10 DEF BrowserTyped, Listing

LEMMA NewThreadTypes ==
    ASSUME BrowserTyped, StartNewThread
    PROVE  BrowserTyped'
<1>1. aborted' \in BOOLEAN /\ UNCHANGED <<turn, leaving>>
  BY DEF StartNewThread, Abort
<1>2. CASE UNCHANGED <<page, stored, attachments, picks>>
  BY <1>1, <1>2 DEF BrowserTyped, Listing
<1>3. ASSUME NEW t \in Unused, Save([page EXCEPT !.list = <<t>> \o @, !.active = t]),
             ClearComposer
      PROVE  BrowserTyped'
  <2>1. PICK list : list = <<t>> \o page.list
    OBVIOUS
  <2>2. t \in Threads /\ page.list \in Seq(Threads)
    BY DEF Unused, BrowserTyped, Listing, Page
  <2>3. list \in Seq(Threads) /\ list[1] = t /\ 1 \in DOMAIN list
    BY <2>1, <2>2
  <2>4. t \in ToSet(list)
    BY <2>3 DEF ToSet
  <2>5. PICK p : p = [page EXCEPT !.list = list, !.active = t]
    OBVIOUS
  <2>6. Save(p)
    BY <1>3, <2>1, <2>5
  <2>7. Listing(p) /\ Len(p.messages) = Len(page.messages)
    <3>1. Listing(page)
      BY DEF BrowserTyped
    <3>2. PICK u : u = t
      OBVIOUS
    <3>3. u \in ToSet(list) /\ u \in Threads /\ p = [page EXCEPT !.list = list, !.active = u]
      BY <2>2, <2>4, <2>5, <3>2
    <3> QED  BY <2>3, <3>1, <3>3, Relisted, ZenonT(40)
  <2> QED  BY <1>1, <1>3, <2>6, <2>7, ThreadsKeep DEF BrowserTyped
<1> QED  BY <1>2, <1>3 DEF StartNewThread

LEMMA SelectTypes ==
    ASSUME BrowserTyped, NEW t \in Threads, SelectThread(t)
    PROVE  BrowserTyped'
<1>1. aborted' \in BOOLEAN /\ UNCHANGED <<turn, leaving>> /\ ClearComposer /\ t \in ToSet(page.list)
  BY DEF SelectThread, Abort, Listed
<1>2. PICK p : p = [page EXCEPT !.active = t]
  OBVIOUS
<1>3. Save(p)
  BY <1>2 DEF SelectThread
<1>4. p \in Page /\ p.active = t /\ p.list = page.list /\ p.messages = page.messages
  BY <1>2 DEF BrowserTyped, Listing, Page
<1>5. Listing(p)
  BY <1>1, <1>4 DEF Listing
<1> QED  BY <1>1, <1>3, <1>4, <1>5, ThreadsKeep DEF BrowserTyped

LEMMA CommitTypes ==
    ASSUME BrowserTyped, NEW t \in Threads, DeleteThreadCommit(t)
    PROVE  BrowserTyped'
<1>1. /\ aborted' \in BOOLEAN /\ UNCHANGED turn /\ ClearComposer /\ leaving' \subseteq Threads
  BY DEF DeleteThreadCommit, BrowserTyped
<1>2. PICK rest, list : rest = RemoveFirst(list, t) /\ list = page.list
  OBVIOUS
<1>3. list \in Seq(Threads) /\ page.active \in Threads /\ page.active \in ToSet(list)
  BY <1>2 DEF BrowserTyped, Listing, Page
<1>4. rest \in Seq(Threads) /\ \A u \in ToSet(list) : u # t => u \in ToSet(rest)
  BY <1>2, <1>3, FirstRemoved
<1>5. CASE rest # << >>
  <2>1. PICK next : next = IF t = page.active THEN Head(rest) ELSE page.active
    OBVIOUS
  <2>2. PICK p : p = [page EXCEPT !.list = rest, !.active = next]
    OBVIOUS
  <2>3. Save(p)
    BY <1>2, <1>5, <2>1, <2>2 DEF DeleteThreadCommit
  <2>4. next \in Threads /\ next \in ToSet(rest)
    <3>1. 1 \in DOMAIN rest /\ Head(rest) = rest[1] /\ rest[1] \in Threads
      BY <1>4, <1>5
    <3>2. Head(rest) \in ToSet(rest)
      BY <3>1 DEF ToSet
    <3> QED  BY <1>3, <1>4, <2>1, <3>1, <3>2
  <2>5. Listing(p) /\ Len(p.messages) = Len(page.messages)
    BY <1>4, <2>2, <2>4, Relisted, ZenonT(40) DEF BrowserTyped
  <2> QED  BY <1>1, <2>3, <2>5, ThreadsKeep
<1>6. CASE rest = << >>
  <2>1. PICK n \in Unused : Save([page EXCEPT !.list = <<n>>, !.active = n])
    BY <1>2, <1>6 DEF DeleteThreadCommit
  <2>2. PICK one : one = <<n>>
    OBVIOUS
  <2>3. n \in Threads /\ one \in Seq(Threads) /\ one[1] = n /\ 1 \in DOMAIN one
    BY <2>2 DEF Unused
  <2>4. n \in ToSet(one)
    BY <2>3 DEF ToSet
  <2>5. PICK p : p = [page EXCEPT !.list = one, !.active = n]
    OBVIOUS
  <2>6. Save(p)
    BY <2>1, <2>2, <2>5
  <2>7. Listing(p) /\ Len(p.messages) = Len(page.messages)
    <3>1. Listing(page)
      BY DEF BrowserTyped
    <3>2. PICK u : u = n
      OBVIOUS
    <3>3. u \in ToSet(one) /\ u \in Threads /\ p = [page EXCEPT !.list = one, !.active = u]
      BY <2>3, <2>4, <2>5, <3>2
    <3> QED  BY <2>3, <3>1, <3>3, Relisted, ZenonT(40)
  <2> QED  BY <1>1, <2>6, <2>7, ThreadsKeep
<1> QED  BY <1>5, <1>6

LEMMA RegenerateTypes ==
    ASSUME BrowserTyped, NEW m \in DOMAIN page.messages, RegenerateAnswer(m)
    PROVE  BrowserTyped'
<1>1. PICK W : W = {k \in DOMAIN page.messages :
                      page.messages[k].thread # page.active \/ k < m}
  OBVIOUS
<1>2. PICK fs : fs = [k \in DOMAIN page.messages |-> KeptIf(page.messages[k], k \in W)]
  OBVIOUS
<1>3. \A k \in DOMAIN page.messages :
        (k \in W) = (page.messages[k].thread # page.active \/ k < m)
  BY <1>1
<1>4. fs = [k \in DOMAIN page.messages |->
              KeptIf(page.messages[k], page.messages[k].thread # page.active \/ k < m)]
  BY <1>2, <1>3
<1>5. PICK p : p = [page EXCEPT !.messages = fs]
  OBVIOUS
<1>6. StartTurn(p)
  BY <1>4, <1>5 DEF RegenerateAnswer
<1>7. page \in Page
  BY DEF BrowserTyped, Listing
<1>8. p \in Page /\ p.list = page.list /\ p.active = page.active
  BY <1>2, <1>5, <1>7, KeptMessages
<1>9. Listing(p)
  BY <1>8 DEF BrowserTyped, Listing
<1> QED  BY <1>6, <1>9, StartTypes

\* Every handler of the page keeps the types.
LEMMA BrowserTypedStep == BrowserTyped /\ [BrowserNext]_browserVars => BrowserTyped'
<1> SUFFICES ASSUME BrowserTyped, [BrowserNext]_browserVars
             PROVE  BrowserTyped'
  OBVIOUS
<1>1. CASE SubmitPrompt
  BY <1>1, StartTypes DEF SubmitPrompt, BrowserTyped
<1>2. CASE StopTurn
  BY <1>2 DEF StopTurn, BrowserTyped, Listing
<1>3. ASSUME NEW t \in Threads, DeleteThreadClick(t)
      PROVE  BrowserTyped'
  BY <1>3 DEF DeleteThreadClick, BrowserTyped, Listing
<1>4. ASSUME NEW n \in 1 .. 2, PickFiles(n)
      PROVE  BrowserTyped'
  BY <1>4, PickFilesTypes, ComposerKeeps DEF PickFiles
<1>5. ASSUME NEW k \in DOMAIN picks, ReadFile(k)
      PROVE  BrowserTyped'
  BY <1>5, ReadFileTypes, ComposerKeeps DEF ReadFile
<1>6. ASSUME NEW i \in DOMAIN attachments, RemoveAttachment(i)
      PROVE  BrowserTyped'
  BY <1>6, RemoveTypes, ComposerKeeps DEF RemoveAttachment
<1>7. CASE UNCHANGED browserVars
  BY <1>7 DEF browserVars, BrowserTyped, Listing
<1> QED  BY <1>1, <1>2, <1>3, <1>4, <1>5, <1>6, <1>7, RegenerateTypes, TokenTypes, EndTurnTypes,
            NewThreadTypes, SelectTypes, CommitTypes, ReloadTypes DEF BrowserNext

LEMMA BrowserTypes == (BrowserInit => BrowserTyped) /\ (BrowserTyped => BrowserTypeOK)
<1>1. ASSUME BrowserInit
      PROVE  BrowserTyped
  <2>1. PICK t \in Threads : page = FirstPage(t)
    <3>1. (CHOOSE t \in Threads : TRUE) \in Threads
      BY BrowserAssumption
    <3> QED  BY <1>1, <3>1 DEF BrowserInit
  <2>2. PICK one, ms : one = <<t>> /\ ms = << >>
    OBVIOUS
  <2>3. /\ one \in Seq(Threads) /\ one[1] = t /\ 1 \in DOMAIN one
        /\ ms \in Seq(Message) /\ Len(ms) = 0
    BY <2>2
  <2>4. page = [list |-> one, active |-> t, messages |-> ms]
    BY <2>1, <2>2 DEF FirstPage
  <2>5. page \in Page
    BY <2>3, <2>4 DEF Page
  <2>6. page.active \in ToSet(page.list)
    BY <2>3, <2>4 DEF ToSet
  <2>7. Listing(page) /\ Listing(stored) /\ turn \in 0 .. Len(page.messages)
    BY <1>1, <2>3, <2>4, <2>5, <2>6 DEF BrowserInit, Listing
  <2>8. attachments \in Seq(Place) /\ Len(attachments) <= MaxAttachments
    BY <1>1, BrowserAssumption DEF BrowserInit
  <2>9. picks \in Seq(Pick) /\ Len(picks) <= MaxPicks
    BY <1>1, BrowserAssumption DEF BrowserInit
  <2> QED  BY <1>1, <2>7, <2>8, <2>9 DEF BrowserInit, BrowserTyped
<1>2. BrowserTyped => BrowserTypeOK
  BY DEF BrowserTyped, Listing, BrowserTypeOK
<1> QED  BY <1>1, <1>2

-----------------------------------------------------------------------------
(* The types of the import centre: an item whose status is asked for has    *)
(* been sent, so that no answer touches an upload.                          *)

Sent(its) == {i \in DOMAIN its : its[i] \notin {"queued", "uploading"}}
Uploading(its) == {i \in DOMAIN its : its[i] = "uploading"}

ImportInv ==
    /\ item \in Seq(ItemStatus) /\ Len(item) <= MaxItems
    /\ queue \subseteq DOMAIN item
    /\ document \in [Items -> {"none", "running", "completed", "failed"}]
    /\ importRunning \in BOOLEAN /\ timer \in BOOLEAN /\ urlAsked \in BOOLEAN
    /\ rounds \in Seq(SUBSET Sent(item))
    /\ importRunning <=> Uploading(item) # {}

\* Two lists after one another.
IsJoin(z, x, y) ==
    /\ Len(x) \in Nat /\ Len(y) \in Nat
    /\ Len(z) = Len(x) + Len(y) /\ DOMAIN z = 1 .. Len(x) + Len(y)
    /\ \A i \in 1 .. Len(x) + Len(y) : z[i] = IF i <= Len(x) THEN x[i] ELSE y[i - Len(x)]

LEMMA Concatenated ==
    ASSUME NEW S, NEW x \in Seq(S), NEW y \in Seq(S)
    PROVE  x \o y \in Seq(S) /\ IsJoin(x \o y, x, y)
BY ConcatProperties DEF IsJoin

\* A round of requests for items that were sent.
LEMMA PollTypes ==
    ASSUME NEW X, rounds \in Seq(SUBSET X), NEW pending \in SUBSET X, Poll(pending)
    PROVE  timer' \in BOOLEAN /\ rounds' \in Seq(SUBSET X)
<1>1. CASE pending = {}
  BY <1>1 DEF Poll
<1>2. CASE pending # {}
  <2>1. PICK P : P = SUBSET X
    OBVIOUS
  <2>2. rounds \in Seq(P) /\ pending \in P /\ rounds' = Append(rounds, pending)
    BY <1>2, <2>1 DEF Poll
  <2>3. rounds' \in Seq(P)
    BY <2>2
  <2> QED  BY <1>2, <2>1, <2>3 DEF Poll
<1> QED  BY <1>1, <1>2

\* What is awaited was sent.
LEMMA AwaitedSent ==
    ASSUME NEW its, NEW q, q \subseteq DOMAIN its
    PROVE  Awaited(its, q) \in SUBSET Sent(its)
BY DEF Awaited, Sent

\* Rounds stay rounds while more is sent.
LEMMA RoundsKept ==
    ASSUME NEW X, NEW Y, X \subseteq Y, NEW rs \in Seq(SUBSET X)
    PROVE  rs \in Seq(SUBSET Y)
<1>1. PICK P, Q : P = SUBSET X /\ Q = SUBSET Y
  OBVIOUS
<1>2. P \subseteq Q /\ rs \in Seq(P)
  BY <1>1
<1>3. rs \in Seq(Q)
  BY <1>2, SeqMonotonic
<1> QED  BY <1>1, <1>3

LEMMA TickTypes ==
    ASSUME ImportInv, Tick
    PROVE  ImportInv'
<1>1. Awaited(item, queue) \in SUBSET Sent(item) /\ rounds \in Seq(SUBSET Sent(item))
  BY AwaitedSent DEF ImportInv
<1>2. PICK X, pending : X = Sent(item) /\ pending = Awaited(item, queue)
  OBVIOUS
<1>3. Poll(pending) /\ UNCHANGED <<item, queue, document, importRunning, urlAsked>>
  BY <1>2 DEF Tick
<1>4. timer' \in BOOLEAN /\ rounds' \in Seq(SUBSET X)
  BY <1>1, <1>2, <1>3, PollTypes
<1> QED  BY <1>2, <1>3, <1>4 DEF ImportInv

\* An answer is for an item that was sent, and leaves it sent.
LEMMA AnswerTypes ==
    ASSUME ImportInv, NEW k \in DOMAIN rounds, NEW i \in Items,
           NEW reply \in {"ok", "refused", "network"}, Answer(k, i, reply)
    PROVE  ImportInv'
<1>1. PICK X, P, rs : X = Sent(item) /\ P = SUBSET X /\ rs = rounds
  OBVIOUS
<1>2. rs \in Seq(P) /\ k \in 1 .. Len(rs) /\ i \in rs[k]
  BY <1>1 DEF ImportInv, Answer
<1>3. rs[k] \in P
  BY <1>2
<1>4. i \in X
  BY <1>1, <1>2, <1>3
<1>5. PICK status : status = Polled(i, reply)
  OBVIOUS
<1>6. item[i] \in ItemStatus /\ i \in DOMAIN item /\ item[i] \notin {"queued", "uploading"}
  BY <1>1, <1>4 DEF Sent, ImportInv
<1>7. status \in ItemStatus \ {"queued", "uploading"}
  <2>1. status \in {item[i], "failed", "completed", "processing"}
    BY <1>5 DEF Polled
  <2> QED  BY <1>6, <2>1 DEF ItemStatus
<1>8. item' = [item EXCEPT ![i] = status] /\ UNCHANGED <<queue, document, importRunning, urlAsked>>
  BY <1>5 DEF Answer
<1>9. /\ item' \in Seq(ItemStatus) /\ Len(item') = Len(item) /\ DOMAIN item' = DOMAIN item
      /\ Sent(item') = X /\ Uploading(item') = Uploading(item)
  <2>1. PICK its : its = item
    OBVIOUS
  <2>2. its \in Seq(ItemStatus) /\ i \in 1 .. Len(its)
    BY <1>6, <2>1 DEF ImportInv
  <2>3. PICK s : s = [its EXCEPT ![i] = status]
    OBVIOUS
  <2>4. s \in Seq(ItemStatus) /\ Len(s) = Len(its) /\ DOMAIN s = DOMAIN its
    BY <1>7, <2>2, <2>3
  <2>5. \A j \in DOMAIN its : s[j] = IF j = i THEN status ELSE its[j]
    BY <2>3
  <2>6. Sent(s) = Sent(its) /\ Uploading(s) = Uploading(its)
    BY <1>6, <1>7, <2>1, <2>4, <2>5 DEF Sent, Uploading
  <2> QED  BY <1>1, <1>8, <2>1, <2>3, <2>4, <2>6
<1>10. timer' \in BOOLEAN /\ rounds' \in Seq(P)
  <2>1. CASE rs[k] = {i}
    <3>1. rounds' = RemoveAt(rs, k) /\ timer' \in BOOLEAN
      BY <1>1, <2>1 DEF Answer, ImportInv
    <3> QED  BY <1>2, <3>1, OneRemoved
  <2>2. CASE rs[k] # {i}
    <3>1. PICK left : left = rs[k] \ {i}
      OBVIOUS
    <3>2. left \in P
      BY <1>1, <1>3, <3>1
    <3>3. rounds' = [rs EXCEPT ![k] = left] /\ UNCHANGED timer
      BY <1>1, <2>2, <3>1 DEF Answer
    <3> QED  BY <1>2, <3>2, <3>3, ExceptSeq DEF ImportInv
  <2> QED  BY <2>1, <2>2
<1> QED  BY <1>1, <1>8, <1>9, <1>10 DEF ImportInv

\* Items that are added, with none of them uploading or some.
LEMMA MoreItems ==
    ASSUME ImportInv, NEW n \in Nat, NEW more \in Seq(ItemStatus), Len(more) = n,
           Len(item) + n <= MaxItems, item' = item \o more, queue' = Fresh(n),
           document' \in [Items -> {"none", "running", "completed", "failed"}],
           importRunning' = (importRunning \/ Uploading(more) # {}),
           urlAsked' \in BOOLEAN, NEW Y, Y = Sent(item'),
           timer' \in BOOLEAN, rounds' \in Seq(SUBSET Y)
    PROVE  ImportInv'
<1>1. PICK its, new, m : its = item /\ new = item \o more /\ m = Len(item)
  OBVIOUS
<1>2. its \in Seq(ItemStatus) /\ m \in Nat /\ DOMAIN its = 1 .. m /\ DOMAIN more = 1 .. n
  BY <1>1 DEF ImportInv
<1>3. /\ new \in Seq(ItemStatus) /\ Len(new) = m + n /\ DOMAIN new = 1 .. m + n
      /\ \A i \in 1 .. m + n : new[i] = IF i <= m THEN its[i] ELSE more[i - m]
  <2>1. its \in Seq(ItemStatus) /\ m = Len(its) /\ n = Len(more) /\ new = its \o more
    BY <1>1, <1>2
  <2>2. its \o more \in Seq(ItemStatus) /\ IsJoin(its \o more, its, more)
    BY <2>1, Concatenated
  <2> QED  BY <2>1, <2>2 DEF IsJoin
<1>4. \A i \in 1 .. m + n : new[i] = IF i <= m THEN its[i] ELSE more[i - m]
  BY <1>3
<1>5. Uploading(new) # {} <=> Uploading(its) # {} \/ Uploading(more) # {}
  <2>1. ASSUME NEW i \in Uploading(new)
        PROVE  Uploading(its) # {} \/ Uploading(more) # {}
    <3>1. i \in 1 .. m + n /\ new[i] = "uploading"
      BY <1>3 DEF Uploading
    <3>2. CASE i <= m
      BY <1>2, <1>4, <3>1, <3>2 DEF Uploading
    <3>3. CASE i > m
      <4>1. i - m \in 1 .. n /\ more[i - m] = "uploading"
        BY <1>2, <1>4, <3>1, <3>3
      <4> QED  BY <1>2, <4>1 DEF Uploading
    <3> QED  BY <1>2, <3>1, <3>2, <3>3
  <2>2. ASSUME NEW i \in Uploading(its)
        PROVE  i \in Uploading(new)
    BY <1>2, <1>3, <1>4 DEF Uploading
  <2>3. ASSUME NEW i \in Uploading(more)
        PROVE  i + m \in Uploading(new)
    <3>1. i \in 1 .. n /\ more[i] = "uploading"
      BY <1>2 DEF Uploading
    <3>2. i + m \in 1 .. m + n /\ ~(i + m <= m) /\ (i + m) - m = i
      BY <1>2, <3>1
    <3> QED  BY <1>3, <1>4, <3>1, <3>2 DEF Uploading
  <2> QED  BY <2>1, <2>2, <2>3
<1>6. Fresh(n) \subseteq 1 .. m + n
  BY <1>1, <1>2 DEF Fresh
<1>7. importRunning' \in BOOLEAN /\ (importRunning' <=> Uploading(item') # {})
  BY <1>1, <1>5 DEF ImportInv
<1> QED  BY <1>1, <1>3, <1>6, <1>7 DEF ImportInv

\* More items are sent, none less.
LEMMA SentGrows ==
    ASSUME NEW its \in Seq(ItemStatus), NEW more \in Seq(ItemStatus)
    PROVE  Sent(its) \subseteq Sent(its \o more)
<1>1. PICK new, m, n : new = its \o more /\ m = Len(its) /\ n = Len(more)
  OBVIOUS
<1>2. m \in Nat /\ n \in Nat /\ DOMAIN its = 1 .. m
  BY <1>1
<1>3. /\ DOMAIN new = 1 .. m + n
      /\ \A i \in 1 .. m + n : new[i] = IF i <= m THEN its[i] ELSE more[i - m]
  BY <1>1, <1>2, ConcatProperties
<1> QED  BY <1>1, <1>2, <1>3 DEF Sent

LEMMA FolderTypes ==
    ASSUME ImportInv, NEW n \in 0 .. MaxItems, HandleFolderSelect(n)
    PROVE  ImportInv'
<1>1. PICK more : more = [k \in 1 .. n |-> IF k <= Concurrency THEN "uploading" ELSE "queued"]
  OBVIOUS
<1>2. n \in Nat /\ Concurrency \in Nat \ {0}
  BY ImportAssumption
<1>3. more \in Seq(ItemStatus) /\ Len(more) = n
  BY <1>1, <1>2 DEF ItemStatus
<1>4. Uploading(more) # {} <=> n > 0
  <2>1. DOMAIN more = 1 .. n
    BY <1>1
  <2>2. CASE n > 0
    <3>1. 1 \in 1 .. n /\ more[1] = "uploading"
      BY <1>1, <1>2, <2>2
    <3> QED  BY <2>1, <2>2, <3>1 DEF Uploading
  <2>3. CASE ~(n > 0)
    BY <1>2, <2>1, <2>3 DEF Uploading
  <2> QED  BY <2>2, <2>3
<1>5. PICK Y : Y = Sent(item')
  OBVIOUS
<1>6. Sent(item) \subseteq Y
  BY <1>1, <1>3, <1>5, SentGrows DEF HandleFolderSelect, ImportInv
<1>7. rounds \in Seq(SUBSET Y)
  <2>1. PICK X, rs : X = Sent(item) /\ rs = rounds
    OBVIOUS
  <2> QED  BY <1>6, <2>1, RoundsKept DEF ImportInv
<1>8. /\ Len(item) + n <= MaxItems /\ item' = item \o more /\ queue' = Fresh(n)
      /\ ~importRunning /\ importRunning' = (n > 0)
      /\ UNCHANGED <<document, timer, rounds, urlAsked>>
  BY <1>1 DEF HandleFolderSelect
<1>9. /\ importRunning' = (importRunning \/ Uploading(more) # {})
      /\ document' \in [Items -> {"none", "running", "completed", "failed"}]
      /\ urlAsked' \in BOOLEAN /\ timer' \in BOOLEAN /\ rounds' \in Seq(SUBSET Y)
  BY <1>4, <1>7, <1>8 DEF ImportInv
<1> QED  BY <1>2, <1>3, <1>5, <1>8, <1>9, MoreItems

\* Polling is started for what was sent.
LEMMA PollingTypes ==
    ASSUME ImportInv, NEW its, its = item', NEW q, q = queue', q \subseteq DOMAIN its,
           Sent(item) \subseteq Sent(its), StartImportPollingIfNeeded
    PROVE  timer' \in BOOLEAN /\ rounds' \in Seq(SUBSET Sent(its))
<1>1. PICK X, Y, rs : X = Sent(item) /\ Y = Sent(its) /\ rs = rounds
  OBVIOUS
<1>2. rs \in Seq(SUBSET X) /\ X \subseteq Y
  BY <1>1 DEF ImportInv
<1>3. rs \in Seq(SUBSET Y)
  BY <1>2, RoundsKept
<1>4. CASE timer
  BY <1>1, <1>3, <1>4 DEF StartImportPollingIfNeeded
<1>5. CASE ~timer
  <2>1. PICK pending : pending = Awaited(its, q)
    OBVIOUS
  <2>2. pending \in SUBSET Y
    BY <1>1, <2>1, AwaitedSent
  <2>3. Poll(pending)
    BY <1>5, <2>1 DEF StartImportPollingIfNeeded
  <2> QED  BY <1>1, <1>3, <2>2, <2>3, PollTypes
<1> QED  BY <1>4, <1>5 DEF ImportInv

\* The loop takes an item that is queued, if any.
LEMMA TakenNext ==
    ASSUME ImportInv, NEW its \in Seq(ItemStatus), Len(its) = Len(item), NEW ok
    PROVE  \/ TakeNext(its, ok) = its
           \/ \E j \in DOMAIN its : /\ its[j] = "queued"
                                    /\ TakeNext(its, ok) = [its EXCEPT ![j] = "uploading"]
<1> DEFINE inQueue == {j \in queue : its[j] = "queued"}
<1>1. DOMAIN its = DOMAIN item /\ inQueue \subseteq DOMAIN its /\ DOMAIN its \subseteq Nat
  BY DEF ImportInv
<1>2. CASE inQueue = {}
  BY <1>2 DEF TakeNext
<1>3. CASE inQueue # {}
  <2>1. PICK j : j = Min(inQueue)
    OBVIOUS
  <2>2. j \in inQueue
    <3>1. \E x \in inQueue : \A y \in inQueue : x <= y
      <4> HIDE DEF inQueue
      <4> QED  BY <1>1, <1>3, LeastNat
    <3> QED  BY <2>1, <3>1 DEF Min
  <2>3. TakeNext(its, ok) \in {its, [its EXCEPT ![j] = "uploading"]}
    BY <2>1 DEF TakeNext
  <2> QED  BY <1>1, <2>2, <2>3
<1> QED  BY <1>2, <1>3

LEMMA UploadTypes ==
    ASSUME ImportInv, NEW i \in Items, NEW ok \in BOOLEAN, UploadEnds(i, ok)
    PROVE  ImportInv'
<1>1. PICK its, s : its = item /\ s = IF ok THEN "pending" ELSE "failed"
  OBVIOUS
<1>2. its \in Seq(ItemStatus) /\ i \in DOMAIN its /\ its[i] = "uploading"
  BY <1>1 DEF UploadEnds, ImportInv
<1>3. PICK one : one = [its EXCEPT ![i] = s]
  OBVIOUS
<1>4. /\ one \in Seq(ItemStatus) /\ Len(one) = Len(its) /\ DOMAIN one = DOMAIN its
      /\ \A j \in DOMAIN its : one[j] = IF j = i THEN s ELSE its[j]
  BY <1>1, <1>2, <1>3 DEF ItemStatus
<1>5. PICK two : two = TakeNext(one, ok)
  OBVIOUS
<1>6. item' = two /\ UNCHANGED <<queue, urlAsked>>
  BY <1>1, <1>3, <1>5 DEF UploadEnds
<1>7. \/ two = one
      \/ \E j \in DOMAIN one : one[j] = "queued" /\ two = [one EXCEPT ![j] = "uploading"]
  BY <1>1, <1>4, <1>5, TakenNext
<1>8. /\ two \in Seq(ItemStatus) /\ Len(two) = Len(its) /\ DOMAIN two = DOMAIN its
      /\ Sent(its) \subseteq Sent(two)
  <2>1. Sent(its) \subseteq Sent(one)
    BY <1>1, <1>2, <1>4 DEF Sent
  <2>2. CASE two = one
    BY <1>4, <2>1, <2>2
  <2>3. ASSUME NEW j \in DOMAIN one, one[j] = "queued", two = [one EXCEPT ![j] = "uploading"]
        PROVE  /\ two \in Seq(ItemStatus) /\ Len(two) = Len(its) /\ DOMAIN two = DOMAIN its
               /\ Sent(its) \subseteq Sent(two)
    <3>1. two \in Seq(ItemStatus) /\ Len(two) = Len(one) /\ DOMAIN two = DOMAIN one
      BY <1>4, <2>3 DEF ItemStatus
    <3>2. Sent(one) \subseteq Sent(two)
      BY <2>3, <3>1 DEF Sent
    <3> QED  BY <1>4, <2>1, <3>1, <3>2
  <2> QED  BY <1>7, <2>2, <2>3
<1>9. document' \in [Items -> {"none", "running", "completed", "failed"}]
  BY DEF UploadEnds, ImportInv
<1>10. importRunning' = (\E j \in DOMAIN two : two[j] = "uploading")
  BY <1>6 DEF UploadEnds
<1>11. importRunning' \in BOOLEAN /\ (importRunning' <=> Uploading(two) # {})
  BY <1>10 DEF Uploading
<1>12. queue' \subseteq DOMAIN two
  BY <1>1, <1>6, <1>8 DEF ImportInv
<1>13. PICK q : q = queue'
  OBVIOUS
<1>14. timer' \in BOOLEAN /\ rounds' \in Seq(SUBSET Sent(two))
  <2>1. CASE ok
    <3>1. StartImportPollingIfNeeded
      BY <2>1 DEF UploadEnds
    <3> QED  BY <1>1, <1>6, <1>8, <1>12, <1>13, <3>1, PollingTypes
  <2>2. CASE ~ok
    <3>1. PICK X, Y, rs : X = Sent(its) /\ Y = Sent(two) /\ rs = rounds
      OBVIOUS
    <3>2. rs \in Seq(SUBSET X) /\ X \subseteq Y
      BY <1>1, <1>8, <3>1 DEF ImportInv
    <3>3. rs \in Seq(SUBSET Y)
      BY <3>2, RoundsKept
    <3>4. UNCHANGED <<timer, rounds>>
      BY <2>2 DEF UploadEnds
    <3> QED  BY <3>1, <3>3, <3>4 DEF ImportInv
  <2> QED  BY <2>1, <2>2
<1> QED  BY <1>1, <1>6, <1>8, <1>9, <1>11, <1>12, <1>14 DEF ImportInv

LEMMA UrlTypes ==
    ASSUME ImportInv, NEW n \in 0 .. 2, NEW outcomes \in [1 .. n -> {"pending", "failed"}],
           UrlSubmitted(outcomes)
    PROVE  ImportInv'
<1>1. n \in Nat /\ outcomes \in Seq(ItemStatus) /\ Len(outcomes) = n
  BY DEF ItemStatus
<1>2. Uploading(outcomes) = {}
  BY DEF Uploading
<1>3. /\ Len(item) + n <= MaxItems /\ item' = item \o outcomes /\ queue' = Fresh(n)
      /\ urlAsked' = FALSE /\ UNCHANGED importRunning /\ StartImportPollingIfNeeded
  BY <1>1 DEF UrlSubmitted
<1>4. document' \in [Items -> {"none", "running", "completed", "failed"}]
  BY DEF UrlSubmitted, ImportInv
<1>5. PICK its, q, new, m : its = item /\ q = queue' /\ new = item' /\ m = Len(item)
  OBVIOUS
<1>6. its \in Seq(ItemStatus) /\ new = its \o outcomes
  BY <1>3, <1>5 DEF ImportInv
<1>7. Sent(its) \subseteq Sent(new)
  BY <1>1, <1>6, SentGrows
<1>8. q \subseteq DOMAIN new
  <2>1. DOMAIN new = 1 .. m + n /\ m \in Nat
    <3>1. IsJoin(its \o outcomes, its, outcomes)
      BY <1>1, <1>6, Concatenated
    <3> QED  BY <1>1, <1>5, <1>6, <3>1 DEF IsJoin
  <2>2. q = m + 1 .. m + n
    BY <1>3, <1>5 DEF Fresh
  <2> QED  BY <1>1, <2>1, <2>2
<1>9. timer' \in BOOLEAN /\ rounds' \in Seq(SUBSET Sent(new))
  BY <1>3, <1>5, <1>7, <1>8, PollingTypes
<1>10. PICK Y : Y = Sent(item')
  OBVIOUS
<1>11. /\ importRunning' = (importRunning \/ Uploading(outcomes) # {})
       /\ urlAsked' \in BOOLEAN /\ timer' \in BOOLEAN /\ rounds' \in Seq(SUBSET Y)
  BY <1>2, <1>3, <1>5, <1>9, <1>10 DEF ImportInv
<1> QED  BY <1>1, <1>3, <1>4, <1>10, <1>11, MoreItems

LEMMA ImportStep == ImportInv /\ [ImportNext]_importVars => ImportInv'
<1> SUFFICES ASSUME ImportInv, [ImportNext]_importVars
             PROVE  ImportInv'
  OBVIOUS
<1>1. ASSUME UNCHANGED <<item, queue, importRunning, timer, rounds>>, urlAsked' \in BOOLEAN,
             document' \in [Items -> {"none", "running", "completed", "failed"}]
      PROVE  ImportInv'
  BY <1>1 DEF ImportInv
<1>2. CASE HandleUrlImport \/ UrlRefused
  BY <1>1, <1>2 DEF HandleUrlImport, UrlRefused, ImportInv
<1>3. ASSUME NEW i \in Items, NEW outcome \in {"completed", "failed"}, DocumentSettles(i, outcome)
      PROVE  ImportInv'
  BY <1>1, <1>3 DEF DocumentSettles, ImportInv
<1>4. CASE UNCHANGED importVars
  BY <1>1, <1>4 DEF importVars, ImportInv
<1> QED  BY <1>2, <1>3, <1>4, TickTypes, AnswerTypes, FolderTypes, UploadTypes, UrlTypes
         DEF ImportNext

LEMMA ImportTypes == (ImportInit => ImportInv) /\ (ImportInv => ImportTypeOK)
<1>1. ASSUME ImportInit
      PROVE  ImportInv
  <2>1. PICK e : e = << >>
    OBVIOUS
  <2>2. e \in Seq(ItemStatus) /\ Len(e) = 0 /\ DOMAIN e = {} /\ 0 <= MaxItems
    BY <2>1, ImportAssumption
  <2>3. PICK X : X = Sent(e)
    OBVIOUS
  <2>4. e \in Seq(SUBSET X) /\ Uploading(e) = {}
    BY <2>1, <2>2 DEF Uploading
  <2>5. item = e /\ rounds = e
    BY <1>1, <2>1 DEF ImportInit
  <2> QED  BY <1>1, <2>2, <2>3, <2>4, <2>5 DEF ImportInit, ImportInv
<1>2. ASSUME ImportInv
      PROVE  ImportTypeOK
  <2>1. PICK X, P, rs : X = Sent(item) /\ P = SUBSET X /\ rs = rounds
    OBVIOUS
  <2>2. rs \in Seq(P) /\ X \subseteq DOMAIN item
    BY <1>2, <2>1 DEF ImportInv, Sent
  <2>3. \A k \in DOMAIN rs : rs[k] \in P
    BY <2>2
  <2>4. \A k \in DOMAIN rounds : rounds[k] \subseteq DOMAIN item
    BY <2>1, <2>2, <2>3
  <2>5. importRunning = (\E i \in DOMAIN item : item[i] = "uploading")
    BY <1>2 DEF ImportInv, Uploading
  <2> QED  BY <1>2, <2>4, <2>5 DEF ImportInv, ImportTypeOK
<1> QED  BY <1>1, <1>2

-----------------------------------------------------------------------------
(* The types of the probes: what a probe has left to do is an end of its    *)
(* script, and a parser process runs only in a scenario that parses.        *)

ScenarioNames == UNION {ToSet(s.steps) : s \in Scripts}

\* What is left of a script that starts with "begin".
LeftOf(left, whole) ==
    /\ whole \in Seq(ToSet(whole))
    /\ left \in Seq({"begin"} \cup ToSet(whole)) /\ Len(left) <= Len(whole) + 1
    /\ \A i \in 1 .. Len(left) :
        left[i] = (<<"begin">> \o whole)[Len(whole) + 1 - Len(left) + i]

ProbeInv ==
    /\ probe \in {"none"} \cup {s.probe : s \in Scripts}
    /\ \E s \in Scripts : LeftOf(steps, s.steps)
    /\ flaws \subseteq ScenarioNames
    /\ parse \in {"none", "exits", "hangs"} /\ (parse # "none" => IsParse)
    /\ fixture \in {"none", "open", "closed"}
    /\ active \subseteq Nat
    /\ signalled \in BOOLEAN
    /\ verdict \in {"none", "ok", "not ok", "rejected"}

\* A list of strings is a list of its members.
LEMMA OwnMembers ==
    ASSUME NEW S, NEW q \in Seq(S)
    PROVE  q \in Seq(ToSet(q)) /\ \A i \in 1 .. Len(q) : q[i] \in ToSet(q)
<1>1. PICK n \in Nat : n = Len(q) /\ DOMAIN q = 1 .. n
  OBVIOUS
<1>2. \A i \in 1 .. n : q[i] \in ToSet(q)
  BY <1>1 DEF ToSet
<1>3. PICK T : T = ToSet(q)
  OBVIOUS
<1>4. q = [i \in 1 .. n |-> q[i]]
  BY <1>1
<1>5. q \in Seq(T)
  BY <1>2, <1>3, <1>4
<1> QED  BY <1>1, <1>2, <1>3, <1>5

\* Every script is a list.
LEMMA ScriptsAreLists ==
    ASSUME NEW s \in Scripts
    PROVE  s.steps \in Seq(ToSet(s.steps))
<1> DEFINE IsList(q) == \E S : q \in Seq(S)
<1>1. ASSUME NEW x, NEW y, IsList(x), IsList(y)
      PROVE  IsList(x \o y)
  <2>1. PICK S : x \in Seq(S)
    BY <1>1
  <2>2. PICK T : y \in Seq(T)
    BY <1>1
  <2>3. PICK A : A = S \cup T
    OBVIOUS
  <2>4. x \in Seq(A) /\ y \in Seq(A)
    BY <2>1, <2>2, <2>3, SeqMonotonic
  <2>5. x \o y \in Seq(A)
    BY <2>4, ConcatProperties
  <2> QED  BY <2>5
<1>2. /\ IsList(<<"parse">>) /\ IsList(<<"v1", "v2">>) /\ IsList(<<"active", "answer">>)
      /\ IsList(<<"observed">>)
  <2>1. <<"parse">> \in Seq({"parse"}) /\ <<"v1", "v2">> \in Seq({"v1", "v2"})
    OBVIOUS
  <2>2. <<"active", "answer">> \in Seq({"active", "answer"}) /\ <<"observed">> \in Seq({"observed"})
    OBVIOUS
  <2> QED  BY <2>1, <2>2
<1>3. IsList(MarkitdownModes) /\ IsList(MarkerModes) /\ IsList(MineruModes)
  <2>1. MarkitdownModes \in Seq({"missingRuntime", "abiFailure", "timeout", "outputQuota",
                                 "malformed", "cancellation"})
    BY DEF MarkitdownModes
  <2>2. MarkerModes \in Seq({"missingRuntime", "timeout", "outputQuota", "malformed",
                             "cancellation"})
    BY DEF MarkerModes
  <2>3. MineruModes \in Seq({"missingRuntime", "timeout", "outputQuota", "malformed",
                             "missingMediaReference", "cancellation"})
    BY DEF MineruModes
  <2> QED  BY <2>1, <2>2, <2>3
<1>4. IsList(AclScript) /\ IsList(LangfuseScript) /\ IsList(OidcScript) /\ IsList(BudgetScript)
  <2>1. AclScript \in Seq({"authorized", "unauthorized", "degraded", "allFailed"})
    BY DEF AclScript
  <2>2. LangfuseScript \in Seq({"export", "poll", "partialCredentials", "endpointOutage",
                                "timeoutPoll", "clientFailure", "snapshot"})
    BY DEF LangfuseScript
  <2>3. OidcScript \in Seq({"admitted", "rejections", "rotation", "outage"})
    BY DEF OidcScript
  <2>4. BudgetScript \in Seq({"modelCalls", "tokens", "cost", "unknownUsage"})
    BY DEF BudgetScript
  <2> QED  BY <2>1, <2>2, <2>3, <2>4
<1>5. ASSUME NEW n \in 1 .. MaxContents
      PROVE  IsList([k \in 1 .. n |-> "ingest"])
  <2>1. n \in Nat
    BY ProbesAssumption
  <2>2. [k \in 1 .. n |-> "ingest"] \in Seq({"ingest"})
    BY <2>1
  <2> QED  BY <2>2
<1> HIDE DEF IsList
<1>6. \A n \in 1 .. MaxContents : IsList(HybridScript(n))
  BY <1>1, <1>2, <1>5 DEF HybridScript
<1>7. \A modes \in {MarkitdownModes, MarkerModes, MineruModes} : IsList(ParserScript(modes))
  BY <1>1, <1>2, <1>3 DEF ParserScript
<1>8. IsList(s.steps)
  BY <1>2, <1>4, <1>6, <1>7 DEF Scripts
<1> QED  BY <1>8, OwnMembers DEF IsList

\* The whole script, and nothing, are ends of it.
LEMMA WholeAndNothing ==
    ASSUME NEW q, q \in Seq(ToSet(q))
    PROVE  LeftOf(<<"begin">> \o q, q) /\ LeftOf(<< >>, q)
<1>1. PICK A, b, n, t : /\ A = {"begin"} \cup ToSet(q) /\ b = <<"begin">> /\ n = Len(q)
                        /\ t = <<"begin">> \o q
  OBVIOUS
<1>2. b \in Seq(A) /\ Len(b) = 1 /\ n \in Nat
  BY <1>1
<1>3. q \in Seq(A)
  <2>1. PICK T : T = ToSet(q)
    OBVIOUS
  <2> QED  BY <1>1, <2>1, SeqMonotonic
<1>4. t \in Seq(A) /\ Len(t) = 1 + n
  BY <1>1, <1>2, <1>3, ConcatProperties
<1>5. \A i \in 1 .. 1 + n : n + 1 - (1 + n) + i = i
  BY <1>2
<1>6. LeftOf(t, q)
  BY <1>1, <1>2, <1>4, <1>5 DEF LeftOf
<1>7. LeftOf(<< >>, q)
  BY <1>1, <1>2 DEF LeftOf
<1> QED  BY <1>1, <1>6, <1>7

\* A scenario that is over leaves the ones behind it.
LEMMA OneLess ==
    ASSUME NEW q, NEW st, LeftOf(st, q), st # << >>
    PROVE  /\ LeftOf(Tail(st), q)
           /\ Head(st) # "begin" => Head(st) \in ToSet(q)
           /\ Len(st) \in Nat
<1>1. PICK A, n, m, t : /\ A = {"begin"} \cup ToSet(q) /\ n = Len(q) /\ m = Len(st)
                        /\ t = <<"begin">> \o q
  OBVIOUS
<1>2. /\ st \in Seq(A) /\ q \in Seq(ToSet(q)) /\ m <= n + 1
      /\ \A i \in 1 .. m : st[i] = t[n + 1 - m + i]
  BY <1>1 DEF LeftOf
<1>3. n \in Nat /\ m \in Nat /\ m > 0
  BY <1>1, <1>2
<1>4. PICK r : r = Tail(st)
  OBVIOUS
<1>5. r \in Seq(A) /\ Len(r) = m - 1 /\ \A i \in 1 .. m - 1 : r[i] = st[i + 1]
  BY <1>1, <1>2, <1>3, <1>4
<1>6. \A i \in 1 .. m - 1 : r[i] = t[n + 1 - (m - 1) + i]
  <2> TAKE i \in 1 .. m - 1
  <2>1. i + 1 \in 1 .. m /\ n + 1 - m + (i + 1) = n + 1 - (m - 1) + i
    BY <1>3
  <2> QED  BY <1>2, <1>5, <2>1
<1>7. LeftOf(r, q)
  BY <1>1, <1>2, <1>3, <1>5, <1>6 DEF LeftOf
<1>8. Head(st) = st[1] /\ st[1] = t[n + 2 - m]
  <2>1. n + 1 - m + 1 = n + 2 - m /\ 1 \in 1 .. m
    BY <1>3
  <2> QED  BY <1>1, <1>2, <1>3, <2>1
<1>9. ASSUME Head(st) # "begin"
      PROVE  Head(st) \in ToSet(q)
  <2>1. st[1] \in A
    BY <1>1, <1>2, <1>3
  <2> QED  BY <1>1, <1>8, <1>9, <2>1
<1> QED  BY <1>1, <1>3, <1>4, <1>7, <1>9

\* The names of the scenarios that parse are those of no others.
LEMMA NamesApart ==
    /\ {"begin", "v1", "v2", "ingest", "active", "observed"} \cap ParserSteps = {}
    /\ AnswerSteps \cap ParserSteps = {} /\ ToSet(LangfuseScript) \cap ParserSteps = {}
    /\ ToSet(OidcScript) \cap ParserSteps = {} /\ ToSet(BudgetScript) \cap ParserSteps = {}
    /\ "begin" \notin AnswerSteps \cup ToSet(LangfuseScript) \cup ToSet(OidcScript)
                        \cup ToSet(BudgetScript)
<1>1. ToSet(MarkitdownModes) = {"missingRuntime", "abiFailure", "timeout", "outputQuota",
                                "malformed", "cancellation"}
  <2>1. DOMAIN MarkitdownModes = 1 .. 6
    BY DEF MarkitdownModes
  <2> QED  BY <2>1 DEF ToSet, MarkitdownModes
<1>2. ToSet(MineruModes) = {"missingRuntime", "timeout", "outputQuota", "malformed",
                            "missingMediaReference", "cancellation"}
  <2>1. DOMAIN MineruModes = 1 .. 6
    BY DEF MineruModes
  <2> QED  BY <2>1 DEF ToSet, MineruModes
<1>3. ToSet(AclScript) = {"authorized", "unauthorized", "degraded", "allFailed"}
  <2>1. DOMAIN AclScript = 1 .. 4
    BY DEF AclScript
  <2> QED  BY <2>1 DEF ToSet, AclScript
<1>4. ToSet(LangfuseScript) = {"export", "poll", "partialCredentials", "endpointOutage",
                               "timeoutPoll", "clientFailure", "snapshot"}
  <2>1. DOMAIN LangfuseScript = 1 .. 7
    BY DEF LangfuseScript
  <2> QED  BY <2>1 DEF ToSet, LangfuseScript
<1>5. ToSet(OidcScript) = {"admitted", "rejections", "rotation", "outage"}
  <2>1. DOMAIN OidcScript = 1 .. 4
    BY DEF OidcScript
  <2> QED  BY <2>1 DEF ToSet, OidcScript
<1>6. ToSet(BudgetScript) = {"modelCalls", "tokens", "cost", "unknownUsage"}
  <2>1. DOMAIN BudgetScript = 1 .. 4
    BY DEF BudgetScript
  <2> QED  BY <2>1 DEF ToSet, BudgetScript
<1>7. ParserSteps = {"parse", "missingRuntime", "abiFailure", "timeout", "outputQuota",
                     "malformed", "cancellation", "missingMediaReference"}
  BY <1>1, <1>2 DEF ParserSteps
<1>8. AnswerSteps = {"answer", "authorized", "unauthorized", "degraded", "allFailed"}
  BY <1>3 DEF AnswerSteps
<1> QED  BY <1>4, <1>5, <1>6, <1>7, <1>8

\* What a step does to the variables other than the process and the active versions.
LeavesScript ==
    /\ \E s \in Scripts : LeftOf(steps, s.steps)
    /\ flaws \subseteq ScenarioNames
    /\ fixture \in {"none", "open", "closed"}
    /\ signalled \in BOOLEAN
    /\ verdict \in {"none", "ok", "not ok", "rejected"}

\* No process runs outside of the scenarios that parse.
LEMMA NoProcess ==
    ASSUME ProbeInv, NEW names, names \cap ParserSteps = {},
           steps = << >> \/ Doing(names)
    PROVE  parse = "none"
BY DEF ProbeInv, IsParse, Doing

\* A step without a process.
LEMMA ProbeKeeps ==
    ASSUME ProbeInv, LeavesScript', UNCHANGED probe, parse' = "none", active' \subseteq Nat
    PROVE  ProbeInv'
BY DEF ProbeInv, LeavesScript

\* A probe that is over has nothing left to do.
LEMMA Finished ==
    ASSUME ProbeInv, NEW v \in {"ok", "not ok", "rejected"}, Finish(v),
           flaws' \subseteq ScenarioNames, signalled' \in BOOLEAN
    PROVE  LeavesScript'
<1>1. PICK s \in Scripts : LeftOf(steps, s.steps)
  BY DEF ProbeInv
<1>2. PICK q : q = s.steps
  OBVIOUS
<1>3. q \in Seq(ToSet(q))
  BY <1>2, ScriptsAreLists
<1>4. LeftOf(<< >>, q)
  BY <1>3, WholeAndNothing
<1>5. steps' = << >> /\ verdict' = v /\ fixture' \in {"none", "open", "closed"}
  BY DEF Finish, Cleanup, ProbeInv
<1> QED  BY <1>2, <1>4, <1>5 DEF LeavesScript

\* A scenario that is over leaves an end of the script, and may be a flaw.
LEMMA ScenarioKeeps ==
    ASSUME ProbeInv, NEW names, Doing(names), "begin" \notin names, NEW flawed,
           ScenarioEnds(flawed)
    PROVE  LeavesScript' /\ UNCHANGED probe
<1>1. PICK s \in Scripts : LeftOf(steps, s.steps)
  BY DEF ProbeInv
<1>2. PICK q, st : q = s.steps /\ st = steps
  OBVIOUS
<1>3. LeftOf(st, q) /\ st # << >> /\ Head(st) # "begin"
  BY <1>1, <1>2 DEF Doing
<1>4. LeftOf(Tail(st), q) /\ Head(st) \in ToSet(q)
  BY <1>3, OneLess
<1>5. Head(steps) \in ScenarioNames
  BY <1>2, <1>4 DEF ScenarioNames
<1>6. flaws' \subseteq ScenarioNames /\ UNCHANGED <<probe, signalled>> /\ signalled' \in BOOLEAN
  BY <1>5 DEF ScenarioEnds, ProbeInv
<1>7. CASE Finish("not ok")
  BY <1>6, <1>7, Finished
<1>8. CASE steps' = Tail(steps) /\ UNCHANGED <<fixture, verdict>>
  BY <1>2, <1>4, <1>6, <1>8 DEF LeavesScript, ProbeInv
<1> QED  BY <1>6, <1>7, <1>8 DEF ScenarioEnds

LEMMA BeginKeepsTypes ==
    ASSUME ProbeInv, BeginProbe
    PROVE  ProbeInv'
<1>1. Doing({"begin"}) /\ {"begin"} \cap ParserSteps = {}
  BY NamesApart DEF BeginProbe
<1>2. parse = "none" /\ UNCHANGED <<probe, flaws, parse, active, signalled>>
  BY <1>1, NoProcess DEF BeginProbe
<1>3. flaws' \subseteq ScenarioNames /\ signalled' \in BOOLEAN /\ active' \subseteq Nat
  BY <1>2 DEF ProbeInv
<1>4. CASE Finish("not ok") \/ Finish("rejected")
  BY <1>2, <1>3, <1>4, Finished, ProbeKeeps
<1>5. CASE /\ steps' = Tail(steps)
           /\ fixture' = IF probe \in FixtureProbes THEN "open" ELSE "none"
           /\ UNCHANGED verdict
  <2>1. PICK s \in Scripts : LeftOf(steps, s.steps)
    BY DEF ProbeInv
  <2>2. PICK q, st : q = s.steps /\ st = steps
    OBVIOUS
  <2>3. LeftOf(st, q) /\ st # << >>
    BY <1>1, <2>1, <2>2 DEF Doing
  <2>4. LeftOf(Tail(st), q)
    BY <2>3, OneLess
  <2>5. LeavesScript'
    BY <1>3, <1>5, <2>2, <2>4 DEF LeavesScript, ProbeInv
  <2> QED  BY <1>2, <1>3, <2>5, ProbeKeeps
<1> QED  BY <1>4, <1>5 DEF BeginProbe

\* Every scenario that does not parse.
LEMMA ScenarioStep ==
    ASSUME ProbeInv, NEW names, Doing(names), "begin" \notin names, names \cap ParserSteps = {},
           NEW flawed, ScenarioEnds(flawed), UNCHANGED parse, active' \subseteq Nat
    PROVE  ProbeInv'
<1>1. LeavesScript' /\ UNCHANGED probe
  BY ScenarioKeeps
<1>2. parse' = "none"
  BY NoProcess
<1> QED  BY <1>1, <1>2, ProbeKeeps

LEMMA IngestKeepsTypes ==
    ASSUME ProbeInv, IngestVersion \/ IngestContent
    PROVE  ProbeInv'
<1>1. UNCHANGED parse
  BY DEF IngestVersion, IngestContent
<1>2. active \subseteq Nat
  BY DEF ProbeInv
<1>3. ASSUME NEW name \in {"v1", "v2", "ingest", "active"}, Doing({name}),
             NEW flawed, ScenarioEnds(flawed), active' \subseteq Nat
      PROVE  ProbeInv'
  <2>1. "begin" \notin {name} /\ {name} \cap ParserSteps = {}
    BY NamesApart
  <2> QED  BY <1>1, <1>3, <2>1, ScenarioStep
<1>4. CASE IngestVersion
  <2>1. CASE Doing({"v1"}) /\ active' \in AfterVersion(1) /\ ScenarioEnds(FALSE)
    <3>1. active' \subseteq Nat
      BY <1>2, <2>1 DEF AfterVersion
    <3> QED  BY <1>3, <2>1, <3>1
  <2>2. CASE /\ Doing({"v2"}) /\ active' \in AfterVersion(2)
             /\ \E failed \in BOOLEAN : ScenarioEnds(~VersionsKept(failed))
    <3>1. active' \subseteq Nat
      BY <1>2, <2>2 DEF AfterVersion
    <3>2. PICK failed : ScenarioEnds(~VersionsKept(failed))
      BY <2>2
    <3>3. PICK flawed : flawed = ~VersionsKept(failed)
      OBVIOUS
    <3> QED  BY <1>3, <2>2, <3>1, <3>2, <3>3
  <2> QED  BY <1>4, <2>1, <2>2 DEF IngestVersion
<1>5. CASE IngestContent
  <2>1. CASE /\ Doing({"ingest"}) /\ active' \in {active, active \cup {Len(steps)}}
             /\ ScenarioEnds(FALSE)
    <3>1. Len(steps) \in Nat
      BY <2>1, OneLess DEF Doing, ProbeInv
    <3>2. active' \subseteq Nat
      BY <1>2, <2>1, <3>1
    <3> QED  BY <1>3, <2>1, <3>2
  <2>2. CASE Doing({"active"}) /\ ScenarioEnds(~HasActive) /\ UNCHANGED active
    <3>1. PICK flawed : flawed = ~HasActive
      OBVIOUS
    <3>2. ScenarioEnds(flawed) /\ active' \subseteq Nat
      BY <1>2, <2>2, <3>1
    <3> QED  BY <1>3, <2>2, <3>2
  <2> QED  BY <1>5, <2>1, <2>2 DEF IngestContent
<1> QED  BY <1>4, <1>5

LEMMA OthersKeepTypes ==
    ASSUME ProbeInv,
           AnswerQuestion \/ ExportTrace \/ ResolveIdentity \/ ExhaustBudget \/ ObserveAbort
    PROVE  ProbeInv'
<1>1. UNCHANGED <<parse, active>> /\ active' \subseteq Nat
  BY DEF AnswerQuestion, ExportTrace, ResolveIdentity, ExhaustBudget, ObserveAbort, ProbeInv
<1>2. CASE AnswerQuestion
  <2>1. PICK flawed : Doing(AnswerSteps) /\ ScenarioEnds(flawed)
    BY <1>2 DEF AnswerQuestion
  <2> QED  BY <1>1, <2>1, NamesApart, ScenarioStep
<1>3. CASE ExportTrace
  <2>1. PICK flawed : Doing(ToSet(LangfuseScript)) /\ ScenarioEnds(flawed)
    BY <1>3 DEF ExportTrace
  <2> QED  BY <1>1, <2>1, NamesApart, ScenarioStep
<1>4. CASE ResolveIdentity
  <2>1. PICK flawed : Doing(ToSet(OidcScript)) /\ ScenarioEnds(flawed)
    BY <1>4 DEF ResolveIdentity
  <2> QED  BY <1>1, <2>1, NamesApart, ScenarioStep
<1>5. CASE ExhaustBudget
  <2>1. PICK flawed : Doing(ToSet(BudgetScript)) /\ ScenarioEnds(flawed)
    BY <1>5 DEF ExhaustBudget
  <2> QED  BY <1>1, <2>1, NamesApart, ScenarioStep
<1>6. CASE ObserveAbort
  <2>1. PICK flawed : Doing({"observed"}) /\ ScenarioEnds(flawed)
    BY <1>6 DEF ObserveAbort
  <2>2. "begin" \notin {"observed"} /\ {"observed"} \cap ParserSteps = {}
    BY NamesApart
  <2> QED  BY <1>1, <2>1, <2>2, ScenarioStep
<1> QED  BY <1>2, <1>3, <1>4, <1>5, <1>6

\* The process of a parser starts, exits or is stopped.
LEMMA ProcessKeepsTypes ==
    ASSUME ProbeInv, StartParse \/ ParseExits \/ StopParse
    PROVE  ProbeInv'
<1>1. CASE StartParse
  BY <1>1 DEF StartParse, ProbeInv, IsParse
<1>2. ASSUME parse # "none", parse' = "none", UNCHANGED active, NEW flawed, ScenarioEnds(flawed)
      PROVE  ProbeInv'
  <2>1. Doing(ParserSteps) /\ "begin" \notin ParserSteps
    BY <1>2, NamesApart DEF ProbeInv, IsParse, Doing
  <2>2. LeavesScript' /\ UNCHANGED probe /\ active' \subseteq Nat
    BY <1>2, <2>1, ScenarioKeeps DEF ProbeInv
  <2> QED  BY <1>2, <2>2, ProbeKeeps
<1>3. CASE ParseExits
  BY <1>2, <1>3 DEF ParseExits
<1>4. CASE StopParse
  <2>1. PICK flawed : flawed = Doing({"parse"})
    OBVIOUS
  <2>2. ScenarioEnds(flawed)
    BY <1>4, <2>1 DEF StopParse
  <2> QED  BY <1>2, <1>4, <2>2 DEF StopParse
<1> QED  BY <1>1, <1>3, <1>4

\* The probe ends, or is aborted.
LEMMA EndKeepsTypes ==
    ASSUME ProbeInv, AnswerThrows \/ GiveVerdict \/ AbortProbe
    PROVE  ProbeInv'
<1>1. CASE AnswerThrows
  <2>1. parse = "none" /\ Finish("rejected") /\ UNCHANGED <<probe, flaws, parse, active, signalled>>
    BY <1>1, NamesApart, NoProcess DEF AnswerThrows
  <2>2. LeavesScript'
    BY <2>1, Finished DEF ProbeInv
  <2> QED  BY <2>1, <2>2, ProbeKeeps DEF ProbeInv
<1>2. CASE GiveVerdict
  <2>1. PICK v \in {"ok", "not ok", "rejected"} : Finish(v)
    BY <1>2 DEF GiveVerdict
  <2>2. parse = "none" /\ UNCHANGED <<probe, flaws, parse, active, signalled>>
    BY <1>2 DEF GiveVerdict, ProbeInv, IsParse
  <2>3. LeavesScript'
    BY <2>1, <2>2, Finished DEF ProbeInv
  <2> QED  BY <2>2, <2>3, ProbeKeeps DEF ProbeInv
<1>3. CASE AbortProbe
  BY <1>3 DEF AbortProbe, ProbeInv, IsParse
<1> QED  BY <1>1, <1>2, <1>3

LEMMA ProbeInvStep == ProbeInv /\ [ProbeNext]_probeVars => ProbeInv'
<1> SUFFICES ASSUME ProbeInv, [ProbeNext]_probeVars
             PROVE  ProbeInv'
  OBVIOUS
<1>1. CASE UNCHANGED probeVars
  BY <1>1 DEF probeVars, ProbeInv, IsParse
<1> QED  BY <1>1, BeginKeepsTypes, IngestKeepsTypes, OthersKeepTypes, ProcessKeepsTypes,
            EndKeepsTypes DEF ProbeNext, ProbeStep

\* An end of a list, element by element.
LEMMA EndsAreSuffixes ==
    ASSUME NEW q, NEW st, LeftOf(st, q)
    PROVE  IsSuffix(st, <<"begin">> \o q)
<1>1. PICK A, b, n, m, t : /\ A = {"begin"} \cup ToSet(q) /\ b = <<"begin">> /\ n = Len(q)
                           /\ m = Len(st) /\ t = <<"begin">> \o q
  OBVIOUS
<1>2. /\ st \in Seq(A) /\ q \in Seq(ToSet(q)) /\ m <= n + 1
      /\ \A i \in 1 .. m : st[i] = t[n + 1 - m + i]
  BY <1>1 DEF LeftOf
<1>3. n \in Nat /\ m \in Nat /\ b \in Seq(A) /\ Len(b) = 1
  BY <1>1, <1>2
<1>4. q \in Seq(A)
  <2>1. PICK T : T = ToSet(q)
    OBVIOUS
  <2> QED  BY <1>1, <1>2, <2>1, SeqMonotonic
<1>5. t \in Seq(A) /\ Len(t) = n + 1
  <2>1. t = b \o q
    BY <1>1
  <2>2. b \o q \in Seq(A) /\ Len(b \o q) = Len(b) + Len(q)
    BY <1>3, <1>4, ConcatProperties
  <2> QED  BY <1>1, <1>3, <2>1, <2>2
<1>6. PICK rs, rt : rs = Reverse(st) /\ rt = Reverse(t)
  OBVIOUS
<1>7. /\ rs = [i \in 1 .. m |-> st[(m - i) + 1]]
      /\ rt = [i \in 1 .. n + 1 |-> t[(n + 1 - i) + 1]]
  BY <1>1, <1>5, <1>6 DEF Reverse
<1>8. /\ rs \in Seq(A) /\ Len(rs) = m /\ rt \in Seq(A) /\ Len(rt) = n + 1
  <2>1. \A i \in 1 .. m : st[(m - i) + 1] \in A
    BY <1>1, <1>2, <1>3
  <2>2. \A i \in 1 .. n + 1 : t[(n + 1 - i) + 1] \in A
    BY <1>3, <1>5
  <2>3. PICK f, g : /\ f = [i \in 1 .. m |-> st[(m - i) + 1]]
                    /\ g = [i \in 1 .. n + 1 |-> t[(n + 1 - i) + 1]]
    OBVIOUS
  <2>4. f \in Seq(A) /\ Len(f) = m
    BY <1>3, <2>1, <2>3
  <2>5. g \in Seq(A) /\ Len(g) = n + 1
    BY <1>3, <2>2, <2>3
  <2> QED  BY <1>7, <2>3, <2>4, <2>5
<1>9. \A i \in 1 .. m : rs[i] = rt[i]
  <2> TAKE i \in 1 .. m
  <2>1. (m - i) + 1 \in 1 .. m /\ n + 1 - m + ((m - i) + 1) = (n + 1 - i) + 1 /\ i \in 1 .. n + 1
    BY <1>2, <1>3, SMTT(30)
  <2> QED  BY <1>2, <1>7, <2>1
<1>10. PICK x, y : x = SubSeq(rs, 1, m) /\ y = SubSeq(rt, 1, m)
  OBVIOUS
<1>11. /\ x = [i \in 1 .. m |-> rs[i]] /\ y = [i \in 1 .. m |-> rt[i]]
  <2>1. /\ x \in Seq(A) /\ Len(x) = m /\ \A i \in 1 .. m : x[i] = rs[i]
        /\ y \in Seq(A) /\ Len(y) = m /\ \A i \in 1 .. m : y[i] = rt[i]
    BY <1>2, <1>3, <1>8, <1>10, SubSeqProperties
  <2>2. x = [i \in 1 .. m |-> x[i]] /\ y = [i \in 1 .. m |-> y[i]]
    BY <2>1
  <2> QED  BY <2>1, <2>2
<1>12. x = y
  BY <1>9, <1>11
<1>13. IsPrefix(rs, rt)
  BY <1>2, <1>8, <1>10, <1>12 DEF IsPrefix
<1> QED  BY <1>1, <1>6, <1>13 DEF IsSuffix

LEMMA ProbeTypes == (ProbeInit => ProbeInv) /\ (ProbeInv => ProbeTypeOK)
<1>1. ASSUME ProbeInit
      PROVE  ProbeInv
  <2>1. \A s \in Scripts : LeftOf(<<"begin">> \o s.steps, s.steps) /\ LeftOf(<< >>, s.steps)
    <3> TAKE s \in Scripts
    <3>1. PICK q : q = s.steps
      OBVIOUS
    <3>2. q \in Seq(ToSet(q))
      BY <3>1, ScriptsAreLists
    <3>3. LeftOf(<<"begin">> \o q, q) /\ LeftOf(<< >>, q)
      BY <3>2, WholeAndNothing
    <3> QED  BY <3>1, <3>3
  <2>2. Scripts # {}
    BY DEF Scripts
  <2>3. \E s \in Scripts : LeftOf(steps, s.steps)
    BY <1>1, <2>1, <2>2 DEF ProbeInit
  <2>4. probe \in {"none"} \cup {s.probe : s \in Scripts}
    BY <1>1 DEF ProbeInit
  <2> QED  BY <1>1, <2>3, <2>4 DEF ProbeInit, ProbeInv
<1>2. ASSUME ProbeInv
      PROVE  ProbeTypeOK
  <2>1. \E s \in Scripts : IsSuffix(steps, <<"begin">> \o s.steps)
    BY <1>2, EndsAreSuffixes DEF ProbeInv
  <2> QED  BY <1>2, <2>1 DEF ProbeInv, ProbeTypeOK, ScenarioNames
<1> QED  BY <1>1, <1>2

-----------------------------------------------------------------------------
(* The fetch of a URL. The pages of a sitemap are counted down once they   *)
(* are known, and a request is answered once.                              *)

FetchShaped ==
    /\ fetching \in {"none", "page", "sitemap"}
    /\ at \in {"idle", "check", "request", "recheck", "body"}
    /\ hop \in 0 .. MaxRedirects
    /\ abortTimer \in {"off", "on", "fired"}
    /\ answer \in Outcomes \cup {"none"}
    /\ at \in {"request", "recheck"} => abortTimer # "off"

\* Pages are waiting only for a sitemap that was read; before, nothing was submitted.
PagesCounted ==
    /\ waiting \in Nat /\ submissions \in Seq(Outcomes) /\ Len(submissions) + waiting <= MaxPages
    /\ fetching = "sitemap" \/ (answer = "none" /\ fetching = "none")
         => waiting = 0 /\ submissions = << >>

FetchInv == FetchShaped /\ PagesCounted

LEMMA FetchEndsKeeps ==
    ASSUME FetchInv, NEW outcome \in Outcomes, FetchEnds(outcome)
    PROVE  FetchInv'
<1>1. PICK n, s : n = waiting /\ s = submissions
  OBVIOUS
<1>2. /\ n \in Nat /\ s \in Seq(Outcomes) /\ Len(s) \in Nat
      /\ Len(s) + n <= MaxPages /\ MaxPages \in Nat
  BY <1>1, FetchAssumption DEF FetchInv, PagesCounted
<1>3. FetchShaped'
  BY FetchAssumption DEF FetchInv, FetchShaped, FetchEnds, Reply, StartFetch, Outcomes
<1>4. CASE /\ fetching = "page" /\ waiting > 0
           /\ submissions' = Append(submissions, outcome)
           /\ waiting' = waiting - 1
           /\ fetching' # "sitemap" /\ (fetching' = "none" => answer' # "none")
  <2>1. submissions' \in Seq(Outcomes) /\ Len(submissions') = Len(s) + 1
    BY <1>1, <1>2, <1>4
  <2>2. waiting' \in Nat /\ waiting' = n - 1
    BY <1>1, <1>2, <1>4
  <2>3. Len(submissions') + waiting' <= MaxPages
    BY <1>2, <2>1, <2>2
  <2> QED  BY <1>3, <1>4, <2>1, <2>2, <2>3 DEF FetchInv, PagesCounted
<1>5. CASE /\ UNCHANGED <<waiting, submissions>>
           /\ fetching' = "none" /\ answer' # "none"
  BY <1>3, <1>5 DEF FetchInv, PagesCounted
<1>6. CASE /\ fetching = "sitemap" /\ UNCHANGED submissions
           /\ waiting' \in 1 .. MaxPages /\ fetching' = "page"
  <2>1. submissions' = << >> /\ Len(submissions') = 0
    BY <1>6 DEF FetchInv, PagesCounted
  <2>2. waiting' \in Nat /\ waiting' <= MaxPages
    BY <1>2, <1>6
  <2>3. submissions' \in Seq(Outcomes) /\ Len(submissions') + waiting' <= MaxPages
    <3>1. submissions' \in Seq(Outcomes)
      BY <2>1
    <3>2. PICK l, w : l = Len(submissions') /\ w = waiting'
      OBVIOUS
    <3>3. l = 0 /\ w \in Nat /\ w <= MaxPages
      BY <2>1, <2>2, <3>2
    <3> QED  BY <3>1, <3>2, <3>3
  <2>4. PagesCounted'
    BY <1>6, <2>2, <2>3 DEF PagesCounted
  <2> QED  BY <1>3, <2>4 DEF FetchInv
<1> QED  BY <1>4, <1>5, <1>6 DEF FetchEnds, Reply, StartFetch, Outcomes

LEMMA FetchStep == FetchInv /\ [FetchNext]_fetchVars => FetchInv'
<1> SUFFICES ASSUME FetchInv, [FetchNext]_fetchVars
             PROVE  FetchInv'
  OBVIOUS
<1>1. \A outcome \in Outcomes : FetchEnds(outcome) => FetchInv'
  BY FetchEndsKeeps
<1>2. {"submitted", "denied", "failed"} = Outcomes
  BY DEF Outcomes
<1>3. ASSUME NEW what \in {"page", "sitemap"}, PostUrl(what)
      PROVE  FetchInv'
  BY <1>3, FetchAssumption DEF FetchInv, FetchShaped, PagesCounted, PostUrl, StartFetch
<1>4. ASSUME Stays, at' \in {"idle", "check", "request", "recheck", "body"},
             hop' \in 0 .. MaxRedirects, abortTimer' \in {"off", "on", "fired"},
             at' \in {"request", "recheck"} => abortTimer' # "off"
      PROVE  FetchInv'
  BY <1>4 DEF FetchInv, FetchShaped, PagesCounted, Stays
<1>5. ASSUME CheckReturns
      PROVE  FetchInv'
  <2>1. CASE \E outcome \in Outcomes : FetchEnds(outcome)
    BY <1>1, <2>1
  <2>2. CASE at' = "request" /\ abortTimer' = "on" /\ UNCHANGED hop /\ Stays
    BY <1>4, <2>2 DEF FetchInv, FetchShaped
  <2> QED  BY <1>2, <1>5, <2>1, <2>2 DEF CheckReturns
<1>6. ASSUME HeadersArrive
      PROVE  FetchInv'
  <2>1. CASE \E outcome \in Outcomes : FetchEnds(outcome)
    BY <1>1, <2>1
  <2>2. CASE at' = "body" /\ abortTimer' = abortTimer /\ UNCHANGED hop /\ Stays
    BY <1>4, <2>2 DEF FetchInv, FetchShaped
  <2>3. CASE /\ at = "request" /\ hop < MaxRedirects /\ at' = "recheck" /\ hop' = hop + 1
             /\ UNCHANGED abortTimer /\ Stays
    <3>1. hop' \in 0 .. MaxRedirects
      BY <2>3, FetchAssumption DEF FetchInv, FetchShaped
    <3> QED  BY <1>4, <2>3, <3>1 DEF FetchInv, FetchShaped
  <2> QED  BY <1>2, <1>6, <2>1, <2>2, <2>3 DEF HeadersArrive, TimerOverBody, MayFollow
<1>7. ASSUME RecheckReturns
      PROVE  FetchInv'
  <2>1. CASE \E outcome \in Outcomes : FetchEnds(outcome)
    BY <1>1, <2>1
  <2>2. CASE at' = "request" /\ abortTimer' = "on" /\ UNCHANGED hop /\ Stays
    BY <1>4, <2>2 DEF FetchInv, FetchShaped
  <2> QED  BY <1>2, <1>7, <2>1, <2>2 DEF RecheckReturns
<1>8. ASSUME BodyEnds \/ RequestAborts
      PROVE  FetchInv'
  BY <1>1, <1>2, <1>8 DEF BodyEnds, RequestAborts
<1>9. ASSUME TimerFires
      PROVE  FetchInv'
  BY <1>4, <1>9 DEF TimerFires, FetchInv, FetchShaped
<1>10. ASSUME UNCHANGED fetchVars
       PROVE  FetchInv'
  BY <1>10 DEF FetchInv, FetchShaped, PagesCounted, fetchVars
<1> QED  BY <1>3, <1>5, <1>6, <1>7, <1>8, <1>9, <1>10 DEF FetchNext

LEMMA FetchTyped == (FetchInit => FetchInv) /\ (FetchInv => FetchTypeOK)
<1>1. FetchInit => FetchInv
  BY FetchAssumption DEF FetchInit, FetchInv, FetchShaped, PagesCounted
<1>2. FetchInv => FetchTypeOK
  <2> SUFFICES ASSUME FetchInv
               PROVE  FetchTypeOK
    OBVIOUS
  <2>1. Len(submissions) \in Nat /\ waiting \in Nat /\ Len(submissions) + waiting <= MaxPages
    BY DEF FetchInv, PagesCounted
  <2>2. waiting \in 0 .. MaxPages
    BY <2>1, FetchAssumption
  <2> QED  BY <2>1, <2>2 DEF FetchInv, FetchShaped, PagesCounted, FetchTypeOK
<1> QED  BY <1>1, <1>2

-----------------------------------------------------------------------------
(* The types of the trace's watchers. *)

\* A run has no more tokens than the bound.
LEMMA ScriptTokens ==
    ASSUME NEW s \in AdapterEvents
    PROVE  {i \in 1 .. Len(s) : s[i] = "token"} \in SUBSET (1 .. Len(s))
           /\ Cardinality({i \in 1 .. Len(s) : s[i] = "token"}) <= MaxTokens
<1> DEFINE E == ToSet(Stages)
           Of(t) == {i \in 1 .. Len(t) : t[i] = "token"}
<1>0. E = {"route", "retrieval", "context", "validation"} /\ MaxTokens \in Nat
  <2>1. DOMAIN Stages = 1 .. 4
    BY DEF Stages
  <2> QED  BY <2>1, TraceViewAssumption DEF ToSet, Stages
<1>1. CASE s = <<"done">>
  <2>1. Of(s) = {}
    BY <1>1
  <2> QED  BY <1>0, <2>1, FS_EmptySet
<1>2. ASSUME NEW with, NEW n \in 0 .. MaxTokens,
             s = <<"route">> \o Told("retrieval", with) \o Told("context", with)
                   \o Told("validation", with) \o [k \in 1 .. n |-> "token"] \o <<"done">>
      PROVE  Cardinality(Of(s)) <= MaxTokens
  <2>1. PICK p : p = <<"route">> \o Told("retrieval", with) \o Told("context", with)
                        \o Told("validation", with)
    OBVIOUS
  <2>2. p \in Seq(E)
    <3>1. \A x \in {"retrieval", "context", "validation"} : Told(x, with) \in Seq(E)
      <4>1. << >> \in Seq(E) /\ \A e \in E : <<e>> \in Seq(E)
        <5> HIDE DEF E
        <5> QED  OBVIOUS
      <4>2. {"retrieval", "context", "validation"} \subseteq E
        BY <1>0
      <4>3. ASSUME NEW x \in E
            PROVE  Told(x, with) \in Seq(E)
        <5>1. CASE x \in with
          BY <4>1, <5>1 DEF Told
        <5>2. CASE x \notin with
          BY <4>1, <5>2 DEF Told
        <5> QED  BY <5>1, <5>2
      <4> HIDE DEF E
      <4> QED  BY <4>2, <4>3
    <3>2. <<"route">> \in Seq(E)
      BY <1>0
    <3> HIDE DEF E
    <3> QED  BY <2>1, <3>1, <3>2
  <2>3. PICK t : t = [k \in 1 .. n |-> "token"]
    OBVIOUS
  <2>4. n \in Nat /\ t \in Seq({"token"}) /\ Len(t) = n /\ \A i \in 1 .. n : t[i] = "token"
    BY <1>0, <2>3
  <2>5. PICK d : d = <<"done">>
    OBVIOUS
  <2>6. d \in Seq({"done"}) /\ Len(d) = 1 /\ d[1] = "done"
    BY <2>5
  <2>7. s = (p \o t) \o d
    BY <1>2, <2>1, <2>3, <2>5
  <2>8. Len(p) \in Nat /\ \A i \in 1 .. Len(p) : p[i] \in E
    <3> HIDE DEF E
    <3> QED  BY <2>2
  <2>9. \A i \in 1 .. Len(p) : p[i] # "token"
    BY <1>0, <2>8
  <2> DEFINE All == E \cup {"token", "done"}
  <2>10. p \in Seq(All) /\ t \in Seq(All) /\ d \in Seq(All)
    <3>1. E \subseteq All /\ {"token"} \subseteq All /\ {"done"} \subseteq All
      OBVIOUS
    <3> HIDE DEF E, All
    <3> QED  BY <2>2, <2>4, <2>6, <3>1, SeqMonotonic
  <2> HIDE DEF E, All
  <2>11. PICK pt, m : pt = p \o t /\ m = Len(p)
    OBVIOUS
  <2>12. /\ pt \in Seq(All) /\ Len(pt) = m + n
         /\ \A i \in 1 .. m + n : pt[i] = IF i <= m THEN p[i] ELSE t[i - m]
    BY <2>4, <2>10, <2>11, ConcatProperties, ZenonT(40)
  <2>13. /\ Len(s) = Len(pt) + 1
         /\ \A i \in 1 .. Len(pt) + 1 : s[i] = IF i <= Len(pt) THEN pt[i] ELSE d[i - Len(pt)]
    <3>1. s = pt \o d
      BY <2>7, <2>11
    <3>2. pt \in Seq(All) /\ d \in Seq(All)
      BY <2>10, <2>12
    <3>3. /\ Len(pt \o d) = Len(pt) + Len(d)
          /\ \A i \in 1 .. Len(pt) + Len(d) :
               (pt \o d)[i] = IF i <= Len(pt) THEN pt[i] ELSE d[i - Len(pt)]
      BY <3>2, ConcatProperties
    <3> QED  BY <2>6, <3>1, <3>3
  <2>14. Of(s) \in SUBSET (m + 1 .. m + n)
    <3> SUFFICES ASSUME NEW i \in 1 .. Len(s), i \notin m + 1 .. m + n
                 PROVE  s[i] # "token"
      OBVIOUS
    <3>1. m \in Nat /\ n \in Nat /\ i \in 1 .. m + n + 1
      BY <2>4, <2>8, <2>11, <2>12, <2>13
    <3>2. i <= m \/ i = m + n + 1
      BY <3>1
    <3>3. CASE i <= m
      <4>1. s[i] = p[i]
        BY <2>12, <2>13, <3>1, <3>3
      <4> QED  BY <2>9, <2>11, <3>1, <3>3, <4>1
    <3>4. CASE i = m + n + 1
      <4>1. s[i] = d[1]
        BY <2>12, <2>13, <3>1, <3>4
      <4> QED  BY <2>6, <4>1
    <3> QED  BY <3>2, <3>3, <3>4
  <2>15. PICK a, b : a = m + 1 /\ b = m + n
    OBVIOUS
  <2>16. /\ a \in Int /\ b \in Int /\ b - a + 1 = n /\ (a > b => n = 0)
    BY <2>4, <2>8, <2>11, <2>15
  <2>17. IsFiniteSet(a .. b) /\ Cardinality(a .. b) = IF a > b THEN 0 ELSE b - a + 1
    BY <2>16, FS_Interval
  <2>18. Cardinality(a .. b) = n
    BY <2>4, <2>16, <2>17
  <2> HIDE DEF Of
  <2>19. IsFiniteSet(Of(s)) /\ Cardinality(Of(s)) <= n
    BY <2>14, <2>15, <2>17, <2>18, FS_Subset
  <2>20. Cardinality(Of(s)) \in Nat
    BY <2>19, FS_CardinalityType
  <2> QED  BY <1>0, <2>4, <2>19, <2>20
<1>3. \/ s = <<"done">>
      \/ \E with \in Reports, n \in 0 .. MaxTokens :
            s = <<"route">> \o Told("retrieval", with) \o Told("context", with)
                  \o Told("validation", with) \o [k \in 1 .. n |-> "token"] \o <<"done">>
  <2> DEFINE Before(with, n) ==
               <<"route">> \o Told("retrieval", with) \o Told("context", with)
                 \o Told("validation", with) \o [k \in 1 .. n |-> "token"]
  <2>1. AdapterEvents = {<<"done">>} \cup
          {Before(with, n) \o <<"done">> : with \in Reports, n \in 0 .. MaxTokens}
    BY DEF AdapterEvents
  <2> HIDE DEF Before
  <2>2. \/ s = <<"done">>
        \/ \E with \in Reports, n \in 0 .. MaxTokens : s = Before(with, n) \o <<"done">>
    BY <2>1
  <2> QED  BY <2>2 DEF Before
<1> HIDE DEF E
<1> QED  BY <1>1, <1>2, <1>3

\* What the watchers have, lost events included.
ViewTyped ==
    /\ script \in AdapterEvents
    /\ link \in {"up", "left", "ended"}
    /\ view.refs \in BOOLEAN /\ saved.refs \in BOOLEAN
    /\ remote.spans \subseteq ToSet(Stages)
    /\ remote.tokens \in Nat /\ remote.tokens <= Tokens(1 .. recorded)

LEMMA ViewTypedStep == ViewInv /\ ViewTyped /\ [TraceViewNext]_viewVars => ViewTyped'
<1> SUFFICES ASSUME ViewInv, ViewTyped, [TraceViewNext]_viewVars
             PROVE  ViewTyped'
  OBVIOUS
<1>1. ASSUME UNCHANGED <<script, recorded, remote>>, link' \in {"up", "left", "ended"},
             view'.refs \in BOOLEAN, saved'.refs \in BOOLEAN
      PROVE  ViewTyped'
  BY <1>1 DEF ViewTyped, Tokens
<1>2. CASE EmitNext
  <2>1. PICK written \in BOOLEAN :
        /\ recorded' = IF written THEN recorded + 1 ELSE recorded
        /\ remote' \in IF written
                       THEN {Exported(remote, script[recorded + 1])} \cup Dropped(remote)
                       ELSE {remote}
    BY <1>2 DEF EmitNext, Tells
  <2>2. ~halted /\ UNCHANGED <<script, link, view, saved>>
    BY <1>2 DEF EmitNext
  <2>3. ScriptEnds /\ recorded \in Nat /\ recorded < Len(script)
    BY <2>2 DEF ViewInv, ScriptEnds, Progress
  <2>4. remote = [open |-> remote.open, spans |-> remote.spans, tokens |-> remote.tokens,
                  over |-> remote.over, lost |-> remote.lost]
    BY DEF ViewInv, ExporterFollows
  <2>5. CASE ~written
    BY <2>1, <2>2, <2>5 DEF ViewTyped, Tokens
  <2>6. CASE written
    <3> DEFINE e == script[recorded + 1]
    <3>1. Tokens(1 .. recorded)' = Tokens(1 .. recorded) + (IF e = "token" THEN 1 ELSE 0)
      <4>1. Tokens(1 .. recorded)' = Tokens(1 .. recorded + 1)
        BY <2>1, <2>2, <2>6 DEF Tokens
      <4> QED  BY <2>3, <4>1, TokensNext
    <3>2. Tokens(1 .. recorded) \in Nat
      <4>1. (1 .. recorded) \in SUBSET (1 .. recorded)
        OBVIOUS
      <4> QED  BY <2>3, <4>1, TokensGrow
    <3>3. e \in ToSet(Stages) \cup {"token", "done"}
      <4>1. recorded + 1 \in 1 .. Len(script)
        BY <2>3 DEF ScriptEnds
      <4> DEFINE A == ToSet(Stages) \cup {"token", "done"}
      <4>2. script \in Seq(A)
        BY <2>3 DEF ScriptEnds
      <4> HIDE DEF A
      <4>3. script[recorded + 1] \in A
        BY <4>1, <4>2
      <4> QED  BY <4>3 DEF A
    <3>4. ToSet(Stages) = {"route", "retrieval", "context", "validation"}
      <4>1. DOMAIN Stages = 1 .. 4
        BY DEF Stages
      <4> QED  BY <4>1 DEF ToSet, Stages
    <3>5. /\ remote'.spans \subseteq remote.spans \cup (ToSet(Stages) \cap {e})
          /\ remote'.tokens = remote.tokens
               \/ (e = "token" /\ remote'.tokens = remote.tokens + 1)
      <4>1. CASE remote' \in Dropped(remote)
        BY <2>4, <4>1 DEF Dropped
      <4>2. CASE remote' = Exported(remote, e)
        BY <2>4, <3>3, <3>4, <4>2 DEF Exported
      <4> QED  BY <2>1, <2>6, <4>1, <4>2
    <3> HIDE DEF e
    <3>6. remote'.tokens \in Nat /\ remote'.tokens <= Tokens(1 .. recorded)'
      BY <3>1, <3>2, <3>5 DEF ViewTyped
    <3> QED  BY <2>2, <3>5, <3>6 DEF ViewTyped
  <2> QED  BY <2>5, <2>6
<1>3. CASE ReceiveEvent
  BY <1>1, <1>3 DEF ReceiveEvent, Merged, ViewTyped
<1>4. CASE SaveMessage
  BY <1>1, <1>4 DEF SaveMessage, ViewTyped
<1>5. CASE StreamOver
  BY <1>1, <1>5 DEF StreamOver, ViewTyped
<1>6. CASE LoadPage
  BY <1>1, <1>6 DEF LoadPage, ViewTyped
<1>7. CASE HistoryRead
  BY <1>1, <1>7 DEF HistoryRead, ViewTyped
<1>8. CASE HistoryApplied
  <2>1. view'.refs = (view.refs \/ \E i \in 1 .. history : script[i] = "done")
    BY <1>8 DEF HistoryApplied
  <2> QED  BY <1>1, <1>8, <2>1 DEF HistoryApplied, ViewTyped
<1>9. CASE UNCHANGED viewVars
  BY <1>9, <1>1 DEF viewVars, ViewTyped
<1> QED  BY <1>2, <1>3, <1>4, <1>5, <1>6, <1>7, <1>8, <1>9 DEF TraceViewNext

\* No message has more text than the run has tokens.
LEMMA ViewTypes ==
    /\ TraceViewInit => ViewInv /\ ViewTyped
    /\ ViewInv /\ ViewTyped => TraceViewTypeOK
<1>1. TraceViewInit => ViewInv /\ ViewTyped
  <2> SUFFICES ASSUME TraceViewInit
               PROVE  ViewInv /\ ViewTyped
    OBVIOUS
  <2>1. ViewInv
    BY ViewInvInit
  <2>2. Tokens(1 .. recorded) \in Nat
    <3>1. (1 .. recorded) \in SUBSET (1 .. recorded)
      OBVIOUS
    <3> QED  BY <2>1, <3>1, TokensGrow DEF ViewInv, Progress, TraceViewInit
  <2> QED  BY <2>1, <2>2 DEF TraceViewInit, ViewTyped, NoMessage
<1>2. ASSUME ViewInv, ViewTyped
      PROVE  TraceViewTypeOK
  <2>1. /\ ScriptEnds /\ Len(script) \in Nat /\ recorded \in Nat /\ recorded <= Len(script)
    BY <1>2 DEF ViewInv, ScriptEnds, Progress
  <2>2. Tokens(1 .. Len(script)) <= MaxTokens
    <3>1. PICK s : s = script
      OBVIOUS
    <3>2. s \in AdapterEvents
      BY <1>2, <3>1 DEF ViewTyped
    <3> QED  BY <3>1, <3>2, ScriptTokens DEF Tokens
  <2>3. ASSUME NEW S \in SUBSET (1 .. recorded)
        PROVE  Tokens(S) \in Nat /\ Tokens(S) <= MaxTokens
    <3>1. S \in SUBSET (1 .. Len(script)) /\ (1 .. Len(script)) \in SUBSET (1 .. Len(script))
      BY <2>1
    <3>2. Tokens(S) \in Nat /\ Tokens(1 .. Len(script)) \in Nat
          /\ Tokens(S) <= Tokens(1 .. Len(script))
      BY <2>1, <3>1, TokensGrow
    <3> QED  BY <2>2, <3>2, TraceViewAssumption
  <2>4. ASSUME NEW m, Follows(m)
        PROVE  m.seen \in SUBSET (1 .. recorded) /\ m.text \in 0 .. MaxTokens
    <3>1. PICK k \in 0 .. recorded : m.seen = 1 .. k
      BY <2>4 DEF Follows
    <3>2. m.seen \in SUBSET (1 .. recorded)
      BY <2>1, <3>1
    <3>3. Tokens(m.seen) \in Nat /\ Tokens(m.seen) <= MaxTokens
      BY <2>3, <3>2
    <3>4. m.text \in Nat /\ m.text <= Tokens(m.seen)
      BY <2>4 DEF Follows
    <3> QED  BY <3>2, <3>3, <3>4, TraceViewAssumption
  <2>5. \A m \in {view, saved} : /\ m.seen \subseteq 1 .. recorded
                                 /\ m.refs \in BOOLEAN /\ m.text \in 0 .. MaxTokens
    BY <1>2, <2>4 DEF ViewInv, PageFollows, ViewTyped
  <2>6. remote.tokens \in 0 .. MaxTokens
    <3>1. (1 .. recorded) \in SUBSET (1 .. recorded)
      OBVIOUS
    <3>2. Tokens(1 .. recorded) \in Nat /\ Tokens(1 .. recorded) <= MaxTokens
      BY <2>3, <3>1
    <3> QED  BY <1>2, <3>2, TraceViewAssumption DEF ViewTyped
  <2> QED  BY <1>2, <2>5, <2>6 DEF ViewInv, Progress, PageFollows, ViewTyped, TraceViewTypeOK
<1> QED  BY <1>1, <1>2


\* The invariant has the types.
LEMMA BudgetTypes == BudgetInv => BudgetTypeOK
<1> SUFFICES ASSUME BudgetInv
             PROVE  BudgetTypeOK
  OBVIOUS
<1>1. ledger \in Ledger
  BY DEF BudgetInv, BudgetTyped
<1>2. PICK calls : calls = ledger.settled
  OBVIOUS
<1>3. calls \in Seq(KnownUsage)
  BY <1>1, <1>2 DEF Ledger
<1>4. ToSet(calls) \subseteq KnownUsage
  <2>1. \A i \in DOMAIN calls : calls[i] \in KnownUsage
    BY <1>3
  <2> QED  BY <2>1 DEF ToSet
<1>5. ledger.calls = Len(ledger.settled) /\ flights \in Seq(FlightRows) /\ cut \in BOOLEAN
  BY DEF BudgetInv, BudgetTyped, Reserved
<1>6. /\ ledger.limits \in Budgets /\ ledger.tokens \in Nat /\ ledger.cost \in Nat
      /\ ledger.failure \in {"none", "exceeded", "accounting"}
  BY <1>1 DEF Ledger
<1> QED  BY <1>2, <1>4, <1>5, <1>6 DEF BudgetTypeOK, KnownUsage, FlightRows

-----------------------------------------------------------------------------
(* The chunks of a document: ChunksKeepText, one state at a time. Every     *)
(* loop of the chunker is a fold; each lemma of this kind is the same, for   *)
(* the step of one loop, because a step is an operator and no lemma can be   *)
(* about all of them.                                                       *)

\* splitBlocks goes through the pieces one by one.
LEMMA PiecesFold ==
    ASSUME NEW B, NEW seq \in Seq(B), NEW A, Nothing \in A,
           \A acc \in A, x \in B : AddPiece(acc, x) \in A
    PROVE  \E h \in [0 .. Len(seq) -> A] :
             /\ h[0] = Nothing
             /\ \A i \in 1 .. Len(seq) : h[i] = AddPiece(h[i - 1], seq[i])
             /\ FoldLeft(AddPiece, Nothing, seq) = h[Len(seq)]
<1> DEFINE n == Len(seq)
           Folds(h) == h = [S \in SUBSET (1 .. n) |->
                            IF S = {} THEN Nothing ELSE AddPiece(h[S \ {Max(S)}], seq[Max(S)])]
           f == CHOOSE h : Folds(h)
           G0 == [i \in 1 .. n |-> [a \in A |-> AddPiece(a, seq[i])]]
<1>1. n \in Nat /\ DOMAIN seq = 1 .. n /\ \A i \in 1 .. n : seq[i] \in B
  OBVIOUS
<1>2. FoldLeft(AddPiece, Nothing, seq) = f[1 .. n]
  BY <1>1 DEF FoldLeft, MapThenFoldSet
<1>0. PICK G, z : G = G0 /\ z = Nothing
  OBVIOUS
<1>3. z \in A /\ G \in [1 .. n -> [A -> A]]
  BY <1>0, <1>1
<1>4. ASSUME NEW S \in SUBSET (1 .. n), S # {}, NEW a \in A
      PROVE  G[Max(S)][a] = AddPiece(a, seq[Max(S)])
  <2>1. Max(S) \in 1 .. n
    <3> HIDE DEF n
    <3> QED  BY <1>1, <1>4, MaxIn
  <2> QED  BY <1>0, <2>1
<1>5. \E h : Folds(h)
  <2>1. PICK h : FoldsOver(h, n, A, z, G)
    <3> HIDE DEF G0, n
    <3> QED  BY <1>1, <1>3, FoldExists
  <2>2. h \in [SUBSET (1 .. n) -> A] /\ h = [S \in SUBSET (1 .. n) |-> h[S]]
    BY <2>1 DEF FoldsOver
  <2>3. ASSUME NEW S \in SUBSET (1 .. n)
        PROVE  h[S] = IF S = {} THEN Nothing ELSE AddPiece(h[S \ {Max(S)}], seq[Max(S)])
    <3>1. h[S] = IF S = {} THEN z ELSE G[Max(S)][h[S \ {Max(S)}]]
      BY <2>1 DEF FoldsOver
    <3>2. h[S \ {Max(S)}] \in A
      BY <2>2
    <3> HIDE DEF G0
    <3> QED  BY <1>0, <1>4, <3>1, <3>2
  <2>4. Folds(h)
    <3> HIDE DEF G0, n
    <3> QED  BY <2>2, <2>3
  <2> QED  BY <2>4
<1>6. \A S \in SUBSET (1 .. n) :
        f[S] = IF S = {} THEN Nothing ELSE AddPiece(f[S \ {Max(S)}], seq[Max(S)])
  <2>1. Folds(f)
    BY <1>5
  <2> QED  BY <2>1
<1> HIDE DEF f, Folds, G0
<1>7. PICK h : Recurs(h, n, A, z, G) /\ h[n] = f[1 .. n]
  <2>1. f[{}] = z
    BY <1>0, <1>6
  <2>2. \A S \in SUBSET (1 .. n) :
          S # {} /\ f[S \ {Max(S)}] \in A => f[S] = G[Max(S)][f[S \ {Max(S)}]]
    BY <1>0, <1>4, <1>6
  <2> PICK g : g = f
    OBVIOUS
  <2>3. FoldedBy(g, n, A, z, G)
    BY <2>1, <2>2 DEF FoldedBy
  <2>4. Steps(n, A, z, G)
    BY <1>1, <1>3 DEF Steps
  <2> HIDE DEF n
  <2>5. FoldIsRecursion(g, n, A, z, G)
    BY <2>3, <2>4, FoldRecurs
  <2> QED  BY <2>5 DEF FoldIsRecursion
<1>8. \A i \in 1 .. n : h[i] = AddPiece(h[i - 1], seq[i])
  <2>1. ASSUME NEW i \in 1 .. n
        PROVE  h[i] = AddPiece(h[i - 1], seq[i])
    <3>1. i - 1 \in 0 .. n
      OBVIOUS
    <3>2. h[i - 1] \in A /\ h[i] = G[i][h[i - 1]]
      BY <1>7, <3>1 DEF Recurs
    <3>3. G[i][h[i - 1]] = AddPiece(h[i - 1], seq[i])
      BY <1>0, <3>2 DEF G0
    <3> QED  BY <3>2, <3>3
  <2> QED  BY <2>1
<1> QED  BY <1>0, <1>2, <1>7, <1>8 DEF Recurs

\* So does the grouping through the blocks,
LEMMA BlocksFold ==
    ASSUME NEW B, NEW seq \in Seq(B), NEW A, Nothing \in A,
           \A acc \in A, x \in B : AddToGroup(acc, x) \in A
    PROVE  \E h \in [0 .. Len(seq) -> A] :
             /\ h[0] = Nothing
             /\ \A i \in 1 .. Len(seq) : h[i] = AddToGroup(h[i - 1], seq[i])
             /\ FoldLeft(AddToGroup, Nothing, seq) = h[Len(seq)]
<1> DEFINE n == Len(seq)
           Folds(h) == h = [S \in SUBSET (1 .. n) |->
                            IF S = {} THEN Nothing ELSE AddToGroup(h[S \ {Max(S)}], seq[Max(S)])]
           f == CHOOSE h : Folds(h)
           G0 == [i \in 1 .. n |-> [a \in A |-> AddToGroup(a, seq[i])]]
<1>1. n \in Nat /\ DOMAIN seq = 1 .. n /\ \A i \in 1 .. n : seq[i] \in B
  OBVIOUS
<1>2. FoldLeft(AddToGroup, Nothing, seq) = f[1 .. n]
  BY <1>1 DEF FoldLeft, MapThenFoldSet
<1>0. PICK G, z : G = G0 /\ z = Nothing
  OBVIOUS
<1>3. z \in A /\ G \in [1 .. n -> [A -> A]]
  BY <1>0, <1>1
<1>4. ASSUME NEW S \in SUBSET (1 .. n), S # {}, NEW a \in A
      PROVE  G[Max(S)][a] = AddToGroup(a, seq[Max(S)])
  <2>1. Max(S) \in 1 .. n
    <3> HIDE DEF n
    <3> QED  BY <1>1, <1>4, MaxIn
  <2> QED  BY <1>0, <2>1
<1>5. \E h : Folds(h)
  <2>1. PICK h : FoldsOver(h, n, A, z, G)
    <3> HIDE DEF G0, n
    <3> QED  BY <1>1, <1>3, FoldExists
  <2>2. h \in [SUBSET (1 .. n) -> A] /\ h = [S \in SUBSET (1 .. n) |-> h[S]]
    BY <2>1 DEF FoldsOver
  <2>3. ASSUME NEW S \in SUBSET (1 .. n)
        PROVE  h[S] = IF S = {} THEN Nothing ELSE AddToGroup(h[S \ {Max(S)}], seq[Max(S)])
    <3>1. h[S] = IF S = {} THEN z ELSE G[Max(S)][h[S \ {Max(S)}]]
      BY <2>1 DEF FoldsOver
    <3>2. h[S \ {Max(S)}] \in A
      BY <2>2
    <3> HIDE DEF G0
    <3> QED  BY <1>0, <1>4, <3>1, <3>2
  <2>4. Folds(h)
    <3> HIDE DEF G0, n
    <3> QED  BY <2>2, <2>3
  <2> QED  BY <2>4
<1>6. \A S \in SUBSET (1 .. n) :
        f[S] = IF S = {} THEN Nothing ELSE AddToGroup(f[S \ {Max(S)}], seq[Max(S)])
  <2>1. Folds(f)
    BY <1>5
  <2> QED  BY <2>1
<1> HIDE DEF f, Folds, G0
<1>7. PICK h : Recurs(h, n, A, z, G) /\ h[n] = f[1 .. n]
  <2>1. f[{}] = z
    BY <1>0, <1>6
  <2>2. \A S \in SUBSET (1 .. n) :
          S # {} /\ f[S \ {Max(S)}] \in A => f[S] = G[Max(S)][f[S \ {Max(S)}]]
    BY <1>0, <1>4, <1>6
  <2> PICK g : g = f
    OBVIOUS
  <2>3. FoldedBy(g, n, A, z, G)
    BY <2>1, <2>2 DEF FoldedBy
  <2>4. Steps(n, A, z, G)
    BY <1>1, <1>3 DEF Steps
  <2> HIDE DEF n
  <2>5. FoldIsRecursion(g, n, A, z, G)
    BY <2>3, <2>4, FoldRecurs
  <2> QED  BY <2>5 DEF FoldIsRecursion
<1>8. \A i \in 1 .. n : h[i] = AddToGroup(h[i - 1], seq[i])
  <2>1. ASSUME NEW i \in 1 .. n
        PROVE  h[i] = AddToGroup(h[i - 1], seq[i])
    <3>1. i - 1 \in 0 .. n
      OBVIOUS
    <3>2. h[i - 1] \in A /\ h[i] = G[i][h[i - 1]]
      BY <1>7, <3>1 DEF Recurs
    <3>3. G[i][h[i - 1]] = AddToGroup(h[i - 1], seq[i])
      BY <1>0, <3>2 DEF G0
    <3> QED  BY <3>2, <3>3
  <2> QED  BY <2>1
<1> QED  BY <1>0, <1>2, <1>7, <1>8 DEF Recurs

\* the search for runs through a group,
LEMMA RunsFold ==
    ASSUME NEW B, NEW seq \in Seq(B), NEW A, Nothing \in A,
           \A acc \in A, x \in B : AddToRun(acc, x) \in A
    PROVE  \E h \in [0 .. Len(seq) -> A] :
             /\ h[0] = Nothing
             /\ \A i \in 1 .. Len(seq) : h[i] = AddToRun(h[i - 1], seq[i])
             /\ FoldLeft(AddToRun, Nothing, seq) = h[Len(seq)]
<1> DEFINE n == Len(seq)
           Folds(h) == h = [S \in SUBSET (1 .. n) |->
                            IF S = {} THEN Nothing ELSE AddToRun(h[S \ {Max(S)}], seq[Max(S)])]
           f == CHOOSE h : Folds(h)
           G0 == [i \in 1 .. n |-> [a \in A |-> AddToRun(a, seq[i])]]
<1>1. n \in Nat /\ DOMAIN seq = 1 .. n /\ \A i \in 1 .. n : seq[i] \in B
  OBVIOUS
<1>2. FoldLeft(AddToRun, Nothing, seq) = f[1 .. n]
  BY <1>1 DEF FoldLeft, MapThenFoldSet
<1>0. PICK G, z : G = G0 /\ z = Nothing
  OBVIOUS
<1>3. z \in A /\ G \in [1 .. n -> [A -> A]]
  BY <1>0, <1>1
<1>4. ASSUME NEW S \in SUBSET (1 .. n), S # {}, NEW a \in A
      PROVE  G[Max(S)][a] = AddToRun(a, seq[Max(S)])
  <2>1. Max(S) \in 1 .. n
    <3> HIDE DEF n
    <3> QED  BY <1>1, <1>4, MaxIn
  <2> QED  BY <1>0, <2>1
<1>5. \E h : Folds(h)
  <2>1. PICK h : FoldsOver(h, n, A, z, G)
    <3> HIDE DEF G0, n
    <3> QED  BY <1>1, <1>3, FoldExists
  <2>2. h \in [SUBSET (1 .. n) -> A] /\ h = [S \in SUBSET (1 .. n) |-> h[S]]
    BY <2>1 DEF FoldsOver
  <2>3. ASSUME NEW S \in SUBSET (1 .. n)
        PROVE  h[S] = IF S = {} THEN Nothing ELSE AddToRun(h[S \ {Max(S)}], seq[Max(S)])
    <3>1. h[S] = IF S = {} THEN z ELSE G[Max(S)][h[S \ {Max(S)}]]
      BY <2>1 DEF FoldsOver
    <3>2. h[S \ {Max(S)}] \in A
      BY <2>2
    <3> HIDE DEF G0
    <3> QED  BY <1>0, <1>4, <3>1, <3>2
  <2>4. Folds(h)
    <3> HIDE DEF G0, n
    <3> QED  BY <2>2, <2>3
  <2> QED  BY <2>4
<1>6. \A S \in SUBSET (1 .. n) :
        f[S] = IF S = {} THEN Nothing ELSE AddToRun(f[S \ {Max(S)}], seq[Max(S)])
  <2>1. Folds(f)
    BY <1>5
  <2> QED  BY <2>1
<1> HIDE DEF f, Folds, G0
<1>7. PICK h : Recurs(h, n, A, z, G) /\ h[n] = f[1 .. n]
  <2>1. f[{}] = z
    BY <1>0, <1>6
  <2>2. \A S \in SUBSET (1 .. n) :
          S # {} /\ f[S \ {Max(S)}] \in A => f[S] = G[Max(S)][f[S \ {Max(S)}]]
    BY <1>0, <1>4, <1>6
  <2> PICK g : g = f
    OBVIOUS
  <2>3. FoldedBy(g, n, A, z, G)
    BY <2>1, <2>2 DEF FoldedBy
  <2>4. Steps(n, A, z, G)
    BY <1>1, <1>3 DEF Steps
  <2> HIDE DEF n
  <2>5. FoldIsRecursion(g, n, A, z, G)
    BY <2>3, <2>4, FoldRecurs
  <2> QED  BY <2>5 DEF FoldIsRecursion
<1>8. \A i \in 1 .. n : h[i] = AddToRun(h[i - 1], seq[i])
  <2>1. ASSUME NEW i \in 1 .. n
        PROVE  h[i] = AddToRun(h[i - 1], seq[i])
    <3>1. i - 1 \in 0 .. n
      OBVIOUS
    <3>2. h[i - 1] \in A /\ h[i] = G[i][h[i - 1]]
      BY <1>7, <3>1 DEF Recurs
    <3>3. G[i][h[i - 1]] = AddToRun(h[i - 1], seq[i])
      BY <1>0, <3>2 DEF G0
    <3> QED  BY <3>2, <3>3
  <2> QED  BY <2>1
<1> QED  BY <1>0, <1>2, <1>7, <1>8 DEF Recurs

\* split through the paragraphs
LEMMA ParagraphsFold ==
    ASSUME NEW B, NEW seq \in Seq(B), NEW A, Nothing \in A,
           \A acc \in A, x \in B : AddParagraph(acc, x) \in A
    PROVE  \E h \in [0 .. Len(seq) -> A] :
             /\ h[0] = Nothing
             /\ \A i \in 1 .. Len(seq) : h[i] = AddParagraph(h[i - 1], seq[i])
             /\ FoldLeft(AddParagraph, Nothing, seq) = h[Len(seq)]
<1> DEFINE n == Len(seq)
           Folds(h) == h = [S \in SUBSET (1 .. n) |->
                            IF S = {} THEN Nothing ELSE AddParagraph(h[S \ {Max(S)}], seq[Max(S)])]
           f == CHOOSE h : Folds(h)
           G0 == [i \in 1 .. n |-> [a \in A |-> AddParagraph(a, seq[i])]]
<1>1. n \in Nat /\ DOMAIN seq = 1 .. n /\ \A i \in 1 .. n : seq[i] \in B
  OBVIOUS
<1>2. FoldLeft(AddParagraph, Nothing, seq) = f[1 .. n]
  BY <1>1 DEF FoldLeft, MapThenFoldSet
<1>0. PICK G, z : G = G0 /\ z = Nothing
  OBVIOUS
<1>3. z \in A /\ G \in [1 .. n -> [A -> A]]
  BY <1>0, <1>1
<1>4. ASSUME NEW S \in SUBSET (1 .. n), S # {}, NEW a \in A
      PROVE  G[Max(S)][a] = AddParagraph(a, seq[Max(S)])
  <2>1. Max(S) \in 1 .. n
    <3> HIDE DEF n
    <3> QED  BY <1>1, <1>4, MaxIn
  <2> QED  BY <1>0, <2>1
<1>5. \E h : Folds(h)
  <2>1. PICK h : FoldsOver(h, n, A, z, G)
    <3> HIDE DEF G0, n
    <3> QED  BY <1>1, <1>3, FoldExists
  <2>2. h \in [SUBSET (1 .. n) -> A] /\ h = [S \in SUBSET (1 .. n) |-> h[S]]
    BY <2>1 DEF FoldsOver
  <2>3. ASSUME NEW S \in SUBSET (1 .. n)
        PROVE  h[S] = IF S = {} THEN Nothing ELSE AddParagraph(h[S \ {Max(S)}], seq[Max(S)])
    <3>1. h[S] = IF S = {} THEN z ELSE G[Max(S)][h[S \ {Max(S)}]]
      BY <2>1 DEF FoldsOver
    <3>2. h[S \ {Max(S)}] \in A
      BY <2>2
    <3> HIDE DEF G0
    <3> QED  BY <1>0, <1>4, <3>1, <3>2
  <2>4. Folds(h)
    <3> HIDE DEF G0, n
    <3> QED  BY <2>2, <2>3
  <2> QED  BY <2>4
<1>6. \A S \in SUBSET (1 .. n) :
        f[S] = IF S = {} THEN Nothing ELSE AddParagraph(f[S \ {Max(S)}], seq[Max(S)])
  <2>1. Folds(f)
    BY <1>5
  <2> QED  BY <2>1
<1> HIDE DEF f, Folds, G0
<1>7. PICK h : Recurs(h, n, A, z, G) /\ h[n] = f[1 .. n]
  <2>1. f[{}] = z
    BY <1>0, <1>6
  <2>2. \A S \in SUBSET (1 .. n) :
          S # {} /\ f[S \ {Max(S)}] \in A => f[S] = G[Max(S)][f[S \ {Max(S)}]]
    BY <1>0, <1>4, <1>6
  <2> PICK g : g = f
    OBVIOUS
  <2>3. FoldedBy(g, n, A, z, G)
    BY <2>1, <2>2 DEF FoldedBy
  <2>4. Steps(n, A, z, G)
    BY <1>1, <1>3 DEF Steps
  <2> HIDE DEF n
  <2>5. FoldIsRecursion(g, n, A, z, G)
    BY <2>3, <2>4, FoldRecurs
  <2> QED  BY <2>5 DEF FoldIsRecursion
<1>8. \A i \in 1 .. n : h[i] = AddParagraph(h[i - 1], seq[i])
  <2>1. ASSUME NEW i \in 1 .. n
        PROVE  h[i] = AddParagraph(h[i - 1], seq[i])
    <3>1. i - 1 \in 0 .. n
      OBVIOUS
    <3>2. h[i - 1] \in A /\ h[i] = G[i][h[i - 1]]
      BY <1>7, <3>1 DEF Recurs
    <3>3. G[i][h[i - 1]] = AddParagraph(h[i - 1], seq[i])
      BY <1>0, <3>2 DEF G0
    <3> QED  BY <3>2, <3>3
  <2> QED  BY <2>1
<1> QED  BY <1>0, <1>2, <1>7, <1>8 DEF Recurs

\* and mergeSmall through the chunks.
LEMMA MergeFold ==
    ASSUME NEW B, NEW seq \in Seq(B), NEW A, << >> \in A,
           \A acc \in A, x \in B : MergeSmall(acc, x) \in A
    PROVE  \E h \in [0 .. Len(seq) -> A] :
             /\ h[0] = << >>
             /\ \A i \in 1 .. Len(seq) : h[i] = MergeSmall(h[i - 1], seq[i])
             /\ FoldLeft(MergeSmall, << >>, seq) = h[Len(seq)]
<1> DEFINE n == Len(seq)
           Folds(h) == h = [S \in SUBSET (1 .. n) |->
                            IF S = {} THEN << >> ELSE MergeSmall(h[S \ {Max(S)}], seq[Max(S)])]
           f == CHOOSE h : Folds(h)
           G0 == [i \in 1 .. n |-> [a \in A |-> MergeSmall(a, seq[i])]]
<1>1. n \in Nat /\ DOMAIN seq = 1 .. n /\ \A i \in 1 .. n : seq[i] \in B
  OBVIOUS
<1>2. FoldLeft(MergeSmall, << >>, seq) = f[1 .. n]
  BY <1>1 DEF FoldLeft, MapThenFoldSet
<1>0. PICK G, z : G = G0 /\ z = << >>
  OBVIOUS
<1>3. z \in A /\ G \in [1 .. n -> [A -> A]]
  BY <1>0, <1>1
<1>4. ASSUME NEW S \in SUBSET (1 .. n), S # {}, NEW a \in A
      PROVE  G[Max(S)][a] = MergeSmall(a, seq[Max(S)])
  <2>1. Max(S) \in 1 .. n
    <3> HIDE DEF n
    <3> QED  BY <1>1, <1>4, MaxIn
  <2> QED  BY <1>0, <2>1
<1>5. \E h : Folds(h)
  <2>1. PICK h : FoldsOver(h, n, A, z, G)
    <3> HIDE DEF G0, n
    <3> QED  BY <1>1, <1>3, FoldExists
  <2>2. h \in [SUBSET (1 .. n) -> A] /\ h = [S \in SUBSET (1 .. n) |-> h[S]]
    BY <2>1 DEF FoldsOver
  <2>3. ASSUME NEW S \in SUBSET (1 .. n)
        PROVE  h[S] = IF S = {} THEN << >> ELSE MergeSmall(h[S \ {Max(S)}], seq[Max(S)])
    <3>1. h[S] = IF S = {} THEN z ELSE G[Max(S)][h[S \ {Max(S)}]]
      BY <2>1 DEF FoldsOver
    <3>2. h[S \ {Max(S)}] \in A
      BY <2>2
    <3> HIDE DEF G0
    <3> QED  BY <1>0, <1>4, <3>1, <3>2
  <2>4. Folds(h)
    <3> HIDE DEF G0, n
    <3> QED  BY <2>2, <2>3
  <2> QED  BY <2>4
<1>6. \A S \in SUBSET (1 .. n) :
        f[S] = IF S = {} THEN << >> ELSE MergeSmall(f[S \ {Max(S)}], seq[Max(S)])
  <2>1. Folds(f)
    BY <1>5
  <2> QED  BY <2>1
<1> HIDE DEF f, Folds, G0
<1>7. PICK h : Recurs(h, n, A, z, G) /\ h[n] = f[1 .. n]
  <2>1. f[{}] = z
    BY <1>0, <1>6
  <2>2. \A S \in SUBSET (1 .. n) :
          S # {} /\ f[S \ {Max(S)}] \in A => f[S] = G[Max(S)][f[S \ {Max(S)}]]
    BY <1>0, <1>4, <1>6
  <2> PICK g : g = f
    OBVIOUS
  <2>3. FoldedBy(g, n, A, z, G)
    BY <2>1, <2>2 DEF FoldedBy
  <2>4. Steps(n, A, z, G)
    BY <1>1, <1>3 DEF Steps
  <2> HIDE DEF n
  <2>5. FoldIsRecursion(g, n, A, z, G)
    BY <2>3, <2>4, FoldRecurs
  <2> QED  BY <2>5 DEF FoldIsRecursion
<1>8. \A i \in 1 .. n : h[i] = MergeSmall(h[i - 1], seq[i])
  <2>1. ASSUME NEW i \in 1 .. n
        PROVE  h[i] = MergeSmall(h[i - 1], seq[i])
    <3>1. i - 1 \in 0 .. n
      OBVIOUS
    <3>2. h[i - 1] \in A /\ h[i] = G[i][h[i - 1]]
      BY <1>7, <3>1 DEF Recurs
    <3>3. G[i][h[i - 1]] = MergeSmall(h[i - 1], seq[i])
      BY <1>0, <3>2 DEF G0
    <3> QED  BY <3>2, <3>3
  <2> QED  BY <2>1
<1> QED  BY <1>0, <1>2, <1>7, <1>8 DEF Recurs

-----------------------------------------------------------------------------
(* What the loops hold: nothing is lost between a flush and the next.      *)

\* What a loop has closed is of Q, and so is what it is filling, unless it is empty.
Gathers(Q) == [done : Seq(Q), open : Q \cup {<< >>}]

\* All that it has gathered.
Held(acc) == FlattenSeq(acc.done) \o acc.open

\* Q has sequences over B, but not the empty one.
Parts(Q, B) == Q \subseteq Seq(B) \ {<< >>}

\* What a loop holds is a sequence of what its parts are made of.
LEMMA HeldIs ==
    ASSUME NEW B, NEW Q, Parts(Q, B), NEW acc \in Gathers(Q)
    PROVE  /\ acc.done \in Seq(Seq(B)) /\ acc.open \in Seq(B)
           /\ FlattenSeq(acc.done) \in Seq(B) /\ Held(acc) \in Seq(B)
<1>1. acc.done \in Seq(Q) /\ acc.open \in Q \cup {<< >>} /\ Q \subseteq Seq(B)
  BY DEF Gathers, Parts
<1>2. acc.open \in Seq(B)
  <2>1. << >> \in Seq(B)
    OBVIOUS
  <2> QED  BY <1>1, <2>1
<1>3. acc.done \in Seq(Seq(B))
  BY <1>1
<1>4. FlattenSeq(acc.done) \in Seq(B)
  BY <1>3, FlattenHas
<1>5. FlattenSeq(acc.done) \o acc.open \in Seq(B)
  BY <1>2, <1>4, ConcatProperties
<1> QED  BY <1>2, <1>3, <1>4, <1>5 DEF Held

\* At its start a loop holds nothing.
LEMMA NothingHeld ==
    ASSUME NEW Q
    PROVE  Nothing \in Gathers(Q) /\ Held(Nothing) = << >>
<1>1. << >> \in Seq(Q)
  OBVIOUS
<1>2. FlattenSeq(<< >>) = << >> /\ << >> \o << >> = << >>
  BY DEF FlattenSeq
<1>3. Nothing.done = << >> /\ Nothing.open = << >>
  BY DEF Nothing
<1>4. Nothing \in Gathers(Q)
  BY <1>1 DEF Nothing, Gathers
<1> QED  BY <1>2, <1>3, <1>4 DEF Held

\* A flush loses nothing.
LEMMA FlushKeeps ==
    ASSUME NEW B, NEW Q, Parts(Q, B), NEW acc \in Gathers(Q)
    PROVE  /\ Flush(acc) \in Gathers(Q) /\ Flush(acc).open = << >>
           /\ Held(Flush(acc)) = Held(acc) /\ FlattenSeq(Flush(acc).done) = Held(acc)
<1>1. /\ acc.done \in Seq(Seq(B)) /\ acc.open \in Seq(B)
      /\ FlattenSeq(acc.done) \in Seq(B) /\ Held(acc) \in Seq(B)
  BY HeldIs
<1>2. acc.done \in Seq(Q) /\ acc.open \in Q \cup {<< >>}
  BY DEF Gathers
<1>3. CASE acc.open = << >>
  <2>1. Flush(acc) = acc
    BY <1>3 DEF Flush
  <2>2. Held(acc) = FlattenSeq(acc.done)
    <3>1. FlattenSeq(acc.done) \o << >> = FlattenSeq(acc.done)
      BY <1>1, ConcatEmptySeq
    <3> QED  BY <1>3, <3>1 DEF Held
  <2> QED  BY <1>3, <2>1, <2>2
<1>4. CASE acc.open # << >>
  <2> PICK next : next = Flush(acc)
    OBVIOUS
  <2>1. next = [done |-> Append(acc.done, acc.open), open |-> << >>]
    BY <1>4 DEF Flush
  <2>2. acc.open \in Q
    BY <1>2, <1>4
  <2>3. Append(acc.done, acc.open) \in Seq(Q)
    BY <1>2, <2>2
  <2>4. next \in Gathers(Q) /\ next.open = << >> /\ next.done = Append(acc.done, acc.open)
    BY <2>1, <2>3 DEF Gathers
  <2>5. FlattenSeq(next.done) = FlattenSeq(acc.done) \o acc.open
    BY <1>1, <2>4, FlattenAppend
  <2>6. FlattenSeq(next.done) = Held(acc)
    BY <2>5 DEF Held
  <2>7. Held(next) = Held(acc)
    <3>1. Held(acc) \o << >> = Held(acc)
      BY <1>1, ConcatEmptySeq
    <3> QED  BY <2>4, <2>6, <3>1 DEF Held
  <2> QED  BY <2>4, <2>6, <2>7
<1> QED  BY <1>3, <1>4

\* What is appended to the second sequence is appended to the concatenation.
LEMMA AppendAtEnd ==
    ASSUME NEW B, NEW s \in Seq(B), NEW t \in Seq(B), NEW x \in B
    PROVE  s \o Append(t, x) = Append(s \o t, x)
<1>1. Append(t, x) = t \o <<x>> /\ <<x>> \in Seq(B)
  BY AppendIsConcat
<1>2. s \o t \in Seq(B)
  BY ConcatProperties
<1>3. Append(s \o t, x) = (s \o t) \o <<x>>
  BY <1>2, AppendIsConcat
<1>4. (s \o t) \o <<x>> = s \o (t \o <<x>>)
  BY <1>1, ConcatAssociative
<1> QED  BY <1>1, <1>3, <1>4

\* A step of a loop: after a flush, or without one, x goes to what is being filled.
Adds(acc, x, next) ==
    \E base \in {acc, Flush(acc)} : next = [base EXCEPT !.open = Append(@, x)]

\* Such a step loses nothing of what is held, and adds x behind it.
LEMMA AddsOne ==
    ASSUME NEW B, NEW Q, Parts(Q, B), NEW acc \in Gathers(Q), NEW x \in B,
           NEW next, Adds(acc, x, next), next.open \in Q
    PROVE  next \in Gathers(Q) /\ Held(next) = Append(Held(acc), x)
<1>1. PICK base \in {acc, Flush(acc)} : next = [base EXCEPT !.open = Append(@, x)]
  BY DEF Adds
<1>2. base \in Gathers(Q) /\ Held(base) = Held(acc)
  BY <1>1, FlushKeeps
<1>3. FlattenSeq(base.done) \in Seq(B) /\ base.open \in Seq(B)
  BY <1>2, HeldIs
<1>4. next.done = base.done /\ next.open = Append(base.open, x)
      /\ next = [done |-> next.done, open |-> next.open]
  BY <1>1, <1>2 DEF Gathers
<1>5. next \in Gathers(Q)
  <2>1. base.done \in Seq(Q)
    BY <1>2 DEF Gathers
  <2> QED  BY <1>4, <2>1 DEF Gathers
<1>6. Held(next) = FlattenSeq(base.done) \o Append(base.open, x)
  BY <1>4 DEF Held
<1>7. FlattenSeq(base.done) \o Append(base.open, x) = Append(Held(base), x)
  <2>0. PICK s, t : s = FlattenSeq(base.done) /\ t = base.open
    OBVIOUS
  <2>1. Held(base) = s \o t /\ s \in Seq(B) /\ t \in Seq(B)
    BY <1>3, <2>0 DEF Held
  <2>2. s \o Append(t, x) = Append(s \o t, x)
    BY <2>1, AppendAtEnd
  <2> QED  BY <2>0, <2>1, <2>2
<1> QED  BY <1>2, <1>5, <1>6, <1>7

\* A loop that takes each member of seq, one by one, and begins with nothing.
GoesThrough(h, seq, B, Q) ==
    /\ seq \in Seq(B)
    /\ h \in [0 .. Len(seq) -> Gathers(Q)]
    /\ h[0] = Nothing
    /\ \A i \in 1 .. Len(seq) : Adds(h[i - 1], seq[i], h[i]) /\ h[i].open \in Q

\* It gathers the sequence.
LEMMA LoopGathers ==
    ASSUME NEW B, NEW Q, NEW seq, NEW h, Parts(Q, B), GoesThrough(h, seq, B, Q)
    PROVE  /\ Flush(h[Len(seq)]).done \in Seq(Q)
           /\ FlattenSeq(Flush(h[Len(seq)]).done) = seq
<1>0. /\ seq \in Seq(B) /\ h \in [0 .. Len(seq) -> Gathers(Q)] /\ h[0] = Nothing
      /\ \A i \in 1 .. Len(seq) : Adds(h[i - 1], seq[i], h[i]) /\ h[i].open \in Q
  BY DEF GoesThrough
<1> USE <1>0
<1> PICK n : n = Len(seq)
  OBVIOUS
<1>1. n \in Nat /\ (\A i \in 1 .. n : seq[i] \in B) /\ \A i \in 0 .. n : h[i] \in Gathers(Q)
  OBVIOUS
<1> DEFINE T == {i \in 0 .. n : Len(Held(h[i])) = i /\ \A j \in 1 .. i : Held(h[i])[j] = seq[j]}
<1>2. 0 \in T
  BY <1>1, NothingHeld
<1>3. ASSUME NEW i \in 1 .. n, i - 1 \in T
      PROVE  i \in T
  <2>1. h[i - 1] \in Gathers(Q) /\ seq[i] \in B
    <3>1. i - 1 \in 0 .. n
      BY <1>1
    <3> QED  BY <1>1, <3>1
  <2>2. Held(h[i]) = Append(Held(h[i - 1]), seq[i])
    BY <2>1, AddsOne
  <2>3. Held(h[i - 1]) \in Seq(B)
    BY <2>1, HeldIs
  <2> PICK s, x : s = Held(h[i - 1]) /\ x = seq[i]
    OBVIOUS
  <2>4. s \in Seq(B) /\ x \in B /\ Len(s) = i - 1 /\ \A j \in 1 .. i - 1 : s[j] = seq[j]
    BY <1>3, <2>1, <2>3
  <2>5. Len(Append(s, x)) = i /\ \A j \in 1 .. i : Append(s, x)[j] = seq[j]
    BY <1>1, <2>4
  <2>6. Len(Held(h[i])) = i /\ \A j \in 1 .. i : Held(h[i])[j] = seq[j]
    BY <2>2, <2>5
  <2> QED  BY <2>6
<1>4. \A i \in 0 .. n : i \in T
  <2> HIDE DEF T
  <2> QED  BY <1>1, <1>2, <1>3, UpTo
<1>5. n \in 0 .. n
  BY <1>1
<1>6. Len(Held(h[n])) = n /\ \A j \in 1 .. n : Held(h[n])[j] = seq[j]
  BY <1>4, <1>5
<1>7. h[n] \in Gathers(Q) /\ Held(h[n]) \in Seq(B)
  BY <1>1, <1>5, HeldIs
<1>8. Held(h[n]) = seq
  BY <1>6, <1>7, SeqEqual
<1>9. Flush(h[n]) \in Gathers(Q) /\ FlattenSeq(Flush(h[n]).done) = Held(h[n])
  BY <1>7, FlushKeeps
<1>10. Flush(h[n]).done \in Seq(Q)
  BY <1>9 DEF Gathers
<1> QED  BY <1>8, <1>9, <1>10

-----------------------------------------------------------------------------
(* splitLongText: the pieces of a block.                                   *)

\* The blocks are blocks of the document.
LEMMA BlocksAre ==
    ASSUME ChunkerTypeOK
    PROVE  /\ Len(blocks) \in Nat /\ Indices = 1 .. Len(blocks)
           /\ \A b \in Indices : /\ blocks[b].len \in Nat \ {0}
                                 /\ blocks[b].cuts \subseteq 1 .. blocks[b].len
<1>1. PICK m \in 0 .. MaxBlocks : blocks \in [1 .. m -> Blocks]
  BY ChunkerAssumption DEF ChunkerTypeOK, BoundedSeq, SeqOf
<1>2. blocks \in Seq(Blocks)
  BY <1>1, ChunkerAssumption
<1>3. Len(blocks) \in Nat /\ DOMAIN blocks = 1 .. Len(blocks)
  BY <1>2
<1>4. \A b \in Indices : blocks[b] \in Blocks
  BY <1>2, <1>3 DEF Indices
<1> QED  BY <1>3, <1>4, ChunkerAssumption DEF Indices

\* A safe position is behind from, in the window and in the block.
LEMMA BoundaryIs ==
    ASSUME ChunkerTypeOK, NEW b \in Indices, NEW from \in Nat, NEW window \in Nat
    PROVE  \/ SafeBoundary(b, from, window) = 0
           \/ /\ SafeBoundary(b, from, window) \in 1 .. window
              /\ from + SafeBoundary(b, from, window) \in 1 .. blocks[b].len
<1> DEFINE ends == {e \in blocks[b].cuts : from + MinChunk < e /\ e <= from + window}
<1> PICK n : n = blocks[b].len
  OBVIOUS
<1>1. n \in Nat /\ blocks[b].cuts \subseteq 1 .. n /\ MinChunk \in Nat
  BY BlocksAre, ChunkerAssumption
<1>2. SafeBoundary(b, from, window) = IF ends = {} THEN 0 ELSE Max(ends) - from
  BY DEF SafeBoundary
<1>3. CASE ends # {}
  <2>1. ends \in SUBSET (1 .. n)
    BY <1>1
  <2>2. Max(ends) \in ends
    <3> HIDE DEF ends
    <3> QED  BY <1>1, <1>3, <2>1, MaxIn
  <2> PICK e : e = Max(ends)
    OBVIOUS
  <2>3. e \in 1 .. n /\ from + MinChunk < e /\ e <= from + window
    BY <1>1, <2>2
  <2>4. e - from \in 1 .. window /\ from + (e - from) = e
    BY <1>1, <2>3
  <2> HIDE DEF ends
  <2> QED  BY <1>2, <1>3, <2>3, <2>4
<1> HIDE DEF ends
<1> QED  BY <1>2, <1>3

\* A piece ends behind its beginning, at most MaxChunk further and in its block, unless
\* there is none.
LEMMA PieceEndIs ==
    ASSUME ChunkerTypeOK, NEW b \in Indices, NEW from \in 0 .. blocks[b].len
    PROVE  \/ PieceEnd(b, from) = from
           \/ /\ PieceEnd(b, from) \in (from + 1) .. blocks[b].len
              /\ PieceEnd(b, from) - from \in 1 .. MaxChunk
<1> PICK n, soft, hard : /\ n = blocks[b].len /\ soft = SafeBoundary(b, from, MaxChild)
                         /\ hard = SafeBoundary(b, from, MaxChunk)
  OBVIOUS
<1>1. /\ n \in Nat /\ from \in 0 .. n /\ from \in Nat
      /\ MaxChild \in Nat /\ MaxChunk \in Nat /\ MaxChild <= MaxChunk
  BY BlocksAre, ChunkerAssumption
<1>2. soft = 0 \/ (soft \in 1 .. MaxChild /\ from + soft \in 1 .. n)
  BY <1>1, BoundaryIs
<1>3. hard = 0 \/ (hard \in 1 .. MaxChunk /\ from + hard \in 1 .. n)
  BY <1>1, BoundaryIs
<1> PICK end : end = PieceEnd(b, from)
  OBVIOUS
<1>4. end = IF n - from <= MaxChild THEN n
            ELSE IF soft > 0 THEN from + soft
            ELSE IF hard > 0 THEN from + hard
            ELSE IF n - from <= MaxChunk THEN n
            ELSE from
  BY DEF PieceEnd
<1>5. \/ end = from
      \/ end \in (from + 1) .. n /\ end - from \in 1 .. MaxChunk
  BY <1>1, <1>2, <1>3, <1>4
<1> QED  BY <1>5

Piece == [block : Nat, from : Nat, to : Nat]

\* p ends before q begins.
PieceBefore ==
    {pair \in Piece \X Piece :
        \/ pair[1].block < pair[2].block
        \/ pair[1].block = pair[2].block /\ pair[1].to <= pair[2].from}

\* The pieces of block b behind from: each at most MaxChunk long, in order and without
\* a gap.
PiecesFrom(b, from, ps) ==
    /\ ps \in Seq(Piece)
    /\ \A k \in 1 .. Len(ps) :
        /\ ps[k].block = b /\ from <= ps[k].from /\ ps[k].from < ps[k].to
        /\ ps[k].to <= blocks[b].len /\ ps[k].to - ps[k].from <= MaxChunk
    /\ InOrder(ps, PieceBefore)
    /\ ps # << >> => ps[1].from = from
    /\ \A k \in 1 .. Len(ps) - 1 : ps[k].to = ps[k + 1].from

\* A piece before the pieces of the rest: they are the pieces from its beginning on.
LEMMA OnePieceMore ==
    ASSUME ChunkerTypeOK, NEW b \in Indices, NEW from \in 0 .. blocks[b].len,
           NEW end, end = PieceEnd(b, from), end # from, NEW ps, PiecesFrom(b, end, ps),
           NEW p, p = [block |-> b, from |-> from, to |-> end]
    PROVE  PiecesFrom(b, from, <<p>> \o ps)
<1> PICK n : n = blocks[b].len
  OBVIOUS
<1>1. n \in Nat /\ from \in 0 .. n /\ b \in Nat /\ MaxChunk \in Nat
  BY BlocksAre, ChunkerAssumption
<1>2. end \in (from + 1) .. n /\ end - from \in 1 .. MaxChunk
  BY <1>1, PieceEndIs
<1>3. /\ p \in Piece /\ p.block = b /\ p.from = from /\ p.to = end /\ p.from < p.to
      /\ p.to <= n /\ p.to - p.from <= MaxChunk
  BY <1>1, <1>2 DEF Piece
<1> PICK qs : qs = <<p>> \o ps
  OBVIOUS
<1>4. ps \in Seq(Piece) /\ <<p>> \in Seq(Piece) /\ Len(<<p>>) = 1 /\ <<p>>[1] = p
  BY <1>3 DEF PiecesFrom
<1>5. /\ qs \in Seq(Piece) /\ Len(qs) = Len(ps) + 1 /\ qs[1] = p
      /\ \A k \in 2 .. Len(ps) + 1 : qs[k] = ps[k - 1]
  BY <1>4
<1>6. /\ Len(ps) \in Nat
      /\ \A k \in 1 .. Len(ps) :
          /\ ps[k].block = b /\ end <= ps[k].from /\ ps[k].from < ps[k].to
          /\ ps[k].to <= n /\ ps[k].to - ps[k].from <= MaxChunk
      /\ \A k \in 1 .. Len(ps) : ps[k] \in Piece
      /\ ps # << >> => ps[1].from = end
      /\ \A k \in 1 .. Len(ps) - 1 : ps[k].to = ps[k + 1].from
  BY DEF PiecesFrom
<1>7. ASSUME NEW k \in 1 .. Len(qs)
      PROVE  /\ qs[k].block = b /\ from <= qs[k].from /\ qs[k].from < qs[k].to
             /\ qs[k].to <= n /\ qs[k].to - qs[k].from <= MaxChunk
  <2>1. CASE k = 1
    BY <1>1, <1>3, <1>5, <2>1
  <2>2. CASE k # 1
    <3>1. k - 1 \in 1 .. Len(ps) /\ qs[k] = ps[k - 1]
      BY <1>5, <1>6, <2>2
    <3>2. end <= ps[k - 1].from /\ ps[k - 1].from \in Nat /\ from < end /\ end \in Nat
      BY <1>1, <1>2, <1>6, <3>1, SMTT(30) DEF Piece
    <3> QED  BY <1>1, <1>6, <3>1, <3>2, SMTT(30)
  <2> QED  BY <2>1, <2>2
<1>8. InOrder(qs, PieceBefore)
  <2>1. ASSUME NEW x \in ToSet(<<p>>), NEW y \in ToSet(ps)
        PROVE  <<x, y>> \in PieceBefore
    <3>1. x = p
      BY <1>4 DEF ToSet
    <3>2. PICK k \in 1 .. Len(ps) : y = ps[k]
      BY <1>4 DEF ToSet
    <3> QED  BY <1>3, <1>6, <3>1, <3>2 DEF PieceBefore
  <2>2. InOrder(<<p>>, PieceBefore)
    <3>1. DOMAIN <<p>> = {1}
      OBVIOUS
    <3> QED  BY <3>1 DEF InOrder
  <2>3. InOrder(ps, PieceBefore)
    BY DEF PiecesFrom
  <2> QED  BY <1>4, <2>1, <2>2, <2>3, OrderedConcat
<1>9. ASSUME NEW k \in 1 .. Len(qs) - 1
      PROVE  qs[k].to = qs[k + 1].from
  <2>1. k \in 1 .. Len(ps) /\ qs[k + 1] = ps[k]
    BY <1>5, <1>6
  <2>2. CASE k = 1
    <3>1. ps # << >> /\ ps[1].from = end
      BY <1>4, <1>6, <2>1
    <3> QED  BY <1>3, <1>5, <2>1, <2>2, <3>1
  <2>3. CASE k # 1
    <3>1. k - 1 \in 1 .. Len(ps) - 1 /\ qs[k] = ps[k - 1] /\ (k - 1) + 1 = k
      BY <1>5, <1>6, <2>1, <2>3
    <3> QED  BY <1>6, <2>1, <3>1
  <2> QED  BY <2>2, <2>3
<1> QED  BY <1>3, <1>5, <1>7, <1>8, <1>9 DEF PiecesFrom

\* No piece at all is a cut of the text from anywhere.
LEMMA NoPiece ==
    ASSUME NEW b, NEW from
    PROVE  PiecesFrom(b, from, << >>)
<1>1. << >> \in Seq(Piece) /\ Len(<< >>) = 0 /\ DOMAIN << >> = {}
  OBVIOUS
<1> QED  BY <1>1 DEF PiecesFrom, InOrder

\* splitLongText cuts a block into pieces, one after the other.
LEMMA TextIsCut ==
    ASSUME ChunkerTypeOK, NEW b \in Indices
    PROVE  PiecesFrom(b, 0, SplitLongText(b))
<1> DEFINE n == blocks[b].len
           P(x) == [block |-> b, from |-> x, to |-> PieceEnd(b, x)]
           Cut(h) == h = [from \in 0 .. n |->
                            LET end == PieceEnd(b, from) IN
                            IF end = from THEN << >>
                            ELSE <<[block |-> b, from |-> from, to |-> end]>> \o h[end]]
           f == CHOOSE h : Cut(h)
           E0 == [x \in 0 .. n |-> PieceEnd(b, x)]
           C0 == [x \in 0 .. n |-> [s \in Seq(Piece) |-> <<P(x)>> \o s]]
<1>1. SplitLongText(b) = f[0]
  BY DEF SplitLongText
<1>2. n \in Nat /\ b \in Nat
  BY BlocksAre
<1>3. ASSUME NEW x \in 0 .. n
      PROVE  PieceEnd(b, x) \in 0 .. n /\ x <= PieceEnd(b, x) /\ P(x) \in Piece
  <2>1. \/ PieceEnd(b, x) = x
        \/ PieceEnd(b, x) \in (x + 1) .. n
    BY PieceEndIs
  <2>2. PieceEnd(b, x) \in 0 .. n /\ x <= PieceEnd(b, x)
    BY <1>2, <2>1
  <2> QED  BY <1>2, <2>2 DEF Piece
<1>4. \E h : Cut(h)
  <2>0. PICK E, A, C, base, m : /\ E = E0 /\ A = Seq(Piece) /\ C = C0 /\ base = << >>
                                /\ m = n
    OBVIOUS
  <2>1. E \in [0 .. m -> 0 .. m] /\ \A x \in 0 .. m : x <= E[x]
    <3> HIDE DEF P
    <3> QED  BY <1>3, <2>0
  <2>2. C \in [0 .. m -> [A -> A]]
    <3>1. ASSUME NEW x \in 0 .. m, NEW s \in A
          PROVE  <<P(x)>> \o s \in A
      <4>1. P(x) \in Piece
        BY <1>3, <2>0
      <4> QED  BY <2>0, <4>1
    <3> HIDE DEF P
    <3> QED  BY <2>0, <3>1
  <2>3. base \in A /\ m \in Nat
    BY <1>2, <2>0
  <2>4. PICK g : Climbs(g, m, A, E, base, C)
    BY <2>1, <2>2, <2>3, ClimbExists, Zenon
  <2>5. ASSUME NEW x \in 0 .. n
        PROVE  g[x] = LET end == PieceEnd(b, x) IN
                      IF end = x THEN << >>
                      ELSE <<[block |-> b, from |-> x, to |-> end]>> \o g[end]
    <3>1. g[x] = IF E[x] = x THEN base ELSE C[x][g[E[x]]]
      BY <2>0, <2>4 DEF Climbs
    <3>2. E[x] = PieceEnd(b, x) /\ E[x] \in 0 .. m
      BY <1>3, <2>0
    <3>3. g[E[x]] \in A
      BY <2>4, <3>2, SMTT(30) DEF Climbs
    <3>4. C[x][g[E[x]]] = <<P(x)>> \o g[E[x]]
      BY <2>0, <3>3
    <3> QED  BY <2>0, <3>1, <3>2, <3>4, Zenon
  <2>6. g = [x \in 0 .. n |-> g[x]]
    BY <2>0, <2>4 DEF Climbs
  <2> QED  BY <2>5, <2>6
<1>5. \A x \in 0 .. n :
        f[x] = LET end == PieceEnd(b, x) IN
               IF end = x THEN << >> ELSE <<P(x)>> \o f[end]
  <2>1. Cut(f)
    BY <1>4, Zenon
  <2> HIDE DEF f
  <2> QED  BY <2>1, Zenon
<1> DEFINE T == {i \in 0 .. n : \A x \in 0 .. n : n - i <= x => PiecesFrom(b, x, f[x])}
<1> HIDE DEF f, Cut
<1>6. ASSUME NEW x \in 0 .. n, PieceEnd(b, x) # x => PiecesFrom(b, PieceEnd(b, x), f[PieceEnd(b, x)])
      PROVE  PiecesFrom(b, x, f[x])
  <2>1. CASE PieceEnd(b, x) = x
    BY <1>5, <2>1, NoPiece
  <2>2. CASE PieceEnd(b, x) # x
    <3>1. f[x] = <<P(x)>> \o f[PieceEnd(b, x)]
      BY <1>5, <2>2
    <3> PICK end, ps, p : end = PieceEnd(b, x) /\ ps = f[end] /\ p = P(x)
      OBVIOUS
    <3>2. PiecesFrom(b, x, <<p>> \o ps)
      BY <1>6, <2>2, OnePieceMore
    <3> QED  BY <3>1, <3>2
  <2> QED  BY <2>1, <2>2
<1>7. 0 \in T
  <2>1. ASSUME NEW x \in 0 .. n, n - 0 <= x
        PROVE  PiecesFrom(b, x, f[x])
    <3>1. PieceEnd(b, x) = x
      <4>0. PICK e, m : e = PieceEnd(b, x) /\ m = n
        OBVIOUS
      <4>1. m \in Nat /\ x \in 0 .. m /\ e \in 0 .. m /\ x <= e /\ m - 0 <= x
        BY <1>2, <1>3, <2>1, <4>0
      <4>2. e = x
        BY <4>1
      <4> QED  BY <4>0, <4>2
    <3> QED  BY <1>6, <3>1
  <2>2. 0 \in 0 .. n
    BY <1>2
  <2> QED  BY <2>1, <2>2
<1>8. ASSUME NEW i \in 1 .. n, i - 1 \in T
      PROVE  i \in T
  <2>1. ASSUME NEW x \in 0 .. n, n - i <= x
        PROVE  PiecesFrom(b, x, f[x])
    <3>1. ASSUME PieceEnd(b, x) # x
          PROVE  PiecesFrom(b, PieceEnd(b, x), f[PieceEnd(b, x)])
      <4>0. PICK e, m : e = PieceEnd(b, x) /\ m = n
        OBVIOUS
      <4>1. m \in Nat /\ x \in 0 .. m /\ e \in 0 .. m /\ x <= e /\ m - i <= x /\ i \in 1 .. m
        BY <1>2, <1>3, <2>1, <4>0
      <4>2. e # x
        BY <3>1, <4>0
      <4>3. m - (i - 1) <= e
        BY <4>1, <4>2
      <4>4. PieceEnd(b, x) \in 0 .. n /\ n - (i - 1) <= PieceEnd(b, x)
        BY <4>0, <4>1, <4>3
      <4> QED  BY <1>8, <4>4
    <3> QED  BY <1>6, <3>1
  <2> QED  BY <1>2, <2>1
<1>9. \A i \in 0 .. n : i \in T
  <2> HIDE DEF T
  <2> QED  BY <1>2, <1>7, <1>8, UpTo
<1>10. n \in T /\ n - n <= 0 /\ 0 \in 0 .. n
  BY <1>2, <1>9
<1>11. PiecesFrom(b, 0, f[0])
  BY <1>10
<1> QED  BY <1>1, <1>11

-----------------------------------------------------------------------------
(* Pieces that are in order and cover every block are the document.        *)

\* The pieces S are of block b and lead from its beginning to end.
Covers(S, b, end) ==
    /\ S \subseteq Piece
    /\ \A p \in S : p.block = b /\ p.from < p.to /\ p.to <= end
    /\ \E p \in S : p.from = 0
    /\ \A p \in S : p.to = end \/ \E q \in S : q.from = p.to

\* Pieces in order that cover each block are the document.
LEMMA CoveredDocument ==
    ASSUME NEW ps \in Seq(Piece), InOrder(ps, PieceBefore), Len(blocks) \in Nat,
           blocks = << >> <=> Len(blocks) = 0,
           NEW end, \A b \in 1 .. Len(blocks) : end[b] \in Nat,
           NEW P, ToSet(ps) = UNION {P[b] : b \in 1 .. Len(blocks)},
           \A b \in 1 .. Len(blocks) : Covers(P[b], b, end[b])
    PROVE  AreDocument(ps, end)
<1> PICK n, L : n = Len(blocks) /\ L = Len(ps)
  OBVIOUS
<1>1. /\ n \in Nat /\ L \in Nat /\ DOMAIN ps = 1 .. L
      /\ \A k \in 1 .. L : ps[k] \in Piece
      /\ \A k \in 1 .. L : ps[k].block \in Nat /\ ps[k].from \in Nat /\ ps[k].to \in Nat
  <2>1. n \in Nat /\ L \in Nat /\ DOMAIN ps = 1 .. L /\ \A k \in 1 .. L : ps[k] \in Piece
    OBVIOUS
  <2> QED  BY <2>1 DEF Piece
<1>2. ASSUME NEW k \in 1 .. L
      PROVE  /\ ps[k].block \in 1 .. n /\ ps[k] \in P[ps[k].block]
             /\ ps[k].from < ps[k].to /\ ps[k].to <= end[ps[k].block]
  <2>1. ps[k] \in ToSet(ps)
    BY <1>1 DEF ToSet
  <2>2. PICK b \in 1 .. n : ps[k] \in P[b]
    BY <2>1
  <2> QED  BY <2>2 DEF Covers
<1>3. ASSUME NEW j \in 1 .. L, NEW k \in 1 .. L, j < k
      PROVE  \/ ps[j].block < ps[k].block
             \/ ps[j].block = ps[k].block /\ ps[j].to <= ps[k].from
  <2>1. <<ps[j], ps[k]>> \in PieceBefore
    BY <1>1, <1>3 DEF InOrder
  <2> QED  BY <2>1 DEF PieceBefore
<1>4. ASSUME NEW b \in 1 .. n
      PROVE  \E k \in 1 .. L : ps[k].block = b /\ ps[k].from = 0
  <2>1. PICK p \in P[b] : p.block = b /\ p.from = 0
    BY DEF Covers
  <2>2. p \in ToSet(ps)
    BY <2>1
  <2> QED  BY <1>1, <2>1, <2>2 DEF ToSet
<1>5. ASSUME NEW k \in 1 .. L, ps[k].to # end[ps[k].block]
      PROVE  \E j \in 1 .. L : ps[j].block = ps[k].block /\ ps[j].from = ps[k].to
  <2> PICK b : b = ps[k].block
    OBVIOUS
  <2>1. b \in 1 .. n /\ ps[k] \in P[b]
    BY <1>2
  <2>2. PICK q \in P[b] : q.block = b /\ q.from = ps[k].to
    BY <1>5, <2>1 DEF Covers
  <2>3. q \in ToSet(ps)
    BY <2>1
  <2> QED  BY <1>1, <2>2, <2>3 DEF ToSet
<1>6. ps = << >> <=> blocks = << >>
  <2>1. n # 0 => L # 0
    BY <1>1, <1>4
  <2>2. L # 0 => n # 0
    BY <1>1, <1>2
  <2>3. ps = << >> <=> L = 0
    BY <1>1, EmptySeq
  <2> QED  BY <2>1, <2>2, <2>3
<1>7. ASSUME ps # << >>
      PROVE  ps[1].block = 1 /\ ps[1].from = 0
  <2>1. 1 \in 1 .. L
    BY <1>1, <1>7, EmptySeq
  <2>2. 1 \in 1 .. n
    BY <1>1, <1>2, <2>1
  <2>3. PICK k \in 1 .. L : ps[k].block = 1 /\ ps[k].from = 0
    BY <1>4, <2>2
  <2>4. ~ 1 < k
    <3> SUFFICES ASSUME 1 < k PROVE FALSE
      OBVIOUS
    <3>1. ps[1].block < 1 \/ (ps[1].block = 1 /\ ps[1].to <= 0)
      BY <1>3, <2>1, <2>3
    <3>2. ps[1].block \in 1 .. n /\ ps[1].from \in Nat /\ ps[1].to \in Nat
          /\ ps[1].from < ps[1].to
      BY <1>1, <1>2, <2>1 DEF Piece
    <3> QED  BY <3>1, <3>2
  <2>5. k = 1
    BY <1>1, <2>4
  <2> QED  BY <2>3, <2>5
<1>8. ASSUME ps # << >>
      PROVE  Last(ps).block = n /\ Last(ps).to = end[n]
  <2>1. L \in 1 .. L /\ Last(ps) = ps[L]
    BY <1>1, <1>7, <1>8, EmptySeq DEF Last
  <2>2. ps[L].block = n
    <3>1. SUFFICES ASSUME ps[L].block # n
                   PROVE  FALSE
      OBVIOUS
    <3>2. n \in 1 .. n
      BY <1>1, <1>2, <2>1
    <3>3. PICK k \in 1 .. L : ps[k].block = n
      BY <1>4, <3>2
    <3>4. k < L
      BY <1>1, <3>1, <3>3
    <3>5. n <= ps[L].block
      BY <1>1, <1>3, <2>1, <3>3, <3>4, SMTT(30)
    <3> QED  BY <1>1, <1>2, <2>1, <3>1, <3>5
  <2>3. ps[L].to = end[n]
    <3>1. SUFFICES ASSUME ps[L].to # end[n]
                   PROVE  FALSE
      OBVIOUS
    <3>2. PICK k \in 1 .. L : ps[k].block = n /\ ps[k].from = ps[L].to
      BY <1>5, <2>1, <2>2, <3>1
    <3>3. ps[L].from < ps[L].to /\ ps[k].from < ps[k].to
      BY <1>2, <2>1
    <3>4. k # L
      BY <1>1, <2>1, <3>2, <3>3
    <3>5. ps[k].to <= ps[L].from
      BY <1>1, <1>3, <2>1, <2>2, <3>2, <3>4, SMTT(30)
    <3> QED  BY <1>1, <2>1, <3>2, <3>3, <3>5
  <2> QED  BY <2>1, <2>2, <2>3
<1>9. ASSUME NEW k \in 1 .. L - 1
      PROVE  GoesOn(ps[k], ps[k + 1], end)
  <2> PICK p, q : p = ps[k] /\ q = ps[k + 1]
    OBVIOUS
  <2>1. k \in 1 .. L /\ k + 1 \in 1 .. L /\ k < k + 1
    BY <1>1
  <2>2. /\ {p.block, p.from, p.to, q.block, q.from, q.to} \subseteq Nat
        /\ p.from < p.to /\ q.from < q.to
        /\ p.block \in 1 .. n /\ q.block \in 1 .. n
        /\ p.to <= end[p.block] /\ q.to <= end[q.block]
        /\ end[p.block] \in Nat /\ end[q.block] \in Nat
    BY <1>1, <1>2, <2>1
  <2>3. p.block < q.block \/ (p.block = q.block /\ p.to <= q.from)
    BY <1>3, <2>1
  <2>4. ASSUME NEW j \in 1 .. L, k < j, j # k + 1
        PROVE  q.block < ps[j].block \/ (q.block = ps[j].block /\ q.to <= ps[j].from)
    <3>1. k + 1 < j
      BY <1>1, <2>1, <2>4
    <3> QED  BY <1>3, <2>1, <3>1
  <2>5. ASSUME NEW j \in 1 .. L, j <= k
        PROVE  j = k \/ ps[j].block < p.block \/ (ps[j].block = p.block /\ ps[j].to <= p.from)
    BY <1>1, <1>3, <2>1, <2>5
  <2>6. CASE p.to = end[p.block]
    <3>1. p.block # n
      <4>1. ASSUME p.block = n
            PROVE  FALSE
        BY <1>1, <2>2, <2>3, <2>6, <4>1
      <4> QED  BY <4>1
    <3>2. p.block + 1 \in 1 .. n
      BY <1>1, <2>2, <3>1, SMTT(30)
    <3>3. PICK j \in 1 .. L : ps[j].block = p.block + 1 /\ ps[j].from = 0
      BY <1>4, <3>2
    <3>4. k < j
      <4>1. ASSUME j <= k
            PROVE  FALSE
        <5>1. j = k \/ ps[j].block < p.block \/ ps[j].block = p.block
          BY <2>5, <4>1
        <5> QED  BY <2>2, <3>3, <5>1
      <4> QED  BY <1>1, <2>1, <4>1
    <3>5. q.block # p.block
      BY <2>2, <2>3, <2>6, SMTT(30)
    <3>6. j = k + 1
      <4>1. ASSUME j # k + 1
            PROVE  FALSE
        <5>1. q.block < ps[j].block \/ (q.block = ps[j].block /\ q.to <= ps[j].from)
          BY <2>4, <3>4, <4>1
        <5> QED  BY <2>2, <2>3, <3>3, <3>5, <5>1, SMTT(30)
      <4> QED  BY <4>1
    <3> QED  BY <2>6, <3>3, <3>6 DEF GoesOn
  <2>7. CASE p.to # end[p.block]
    <3>1. PICK j \in 1 .. L : ps[j].block = p.block /\ ps[j].from = p.to
      BY <1>5, <2>1, <2>7
    <3>2. ps[j].to \in Nat /\ ps[j].from < ps[j].to
      BY <1>1, <1>2
    <3>3. k < j
      <4>1. ASSUME j <= k
            PROVE  FALSE
        <5>1. j = k \/ ps[j].block < p.block \/ ps[j].to <= p.from
          BY <2>5, <4>1
        <5> QED  BY <2>2, <3>1, <3>2, <5>1, SMTT(30)
      <4> QED  BY <1>1, <2>1, <4>1
    <3>4. j = k + 1
      <4>1. ASSUME j # k + 1
            PROVE  FALSE
        <5>1. q.block < ps[j].block \/ (q.block = ps[j].block /\ q.to <= ps[j].from)
          BY <2>4, <3>3, <4>1
        <5> QED  BY <2>2, <2>3, <3>1, <5>1, SMTT(30)
      <4> QED  BY <4>1
    <3> QED  BY <3>1, <3>4 DEF GoesOn
  <2> QED  BY <2>6, <2>7
<1>10. \A k \in DOMAIN ps : ps[k].from < ps[k].to
  BY <1>1, <1>2
<1> QED  BY <1>6, <1>7, <1>8, <1>9, <1>10 DEF AreDocument

\* The pieces of a block that splits cover it.
LEMMA CutCovers ==
    ASSUME ChunkerTypeOK, NEW b \in Indices, Splits(b)
    PROVE  Covers(ToSet(SplitLongText(b)), b, blocks[b].len)
<1> PICK ps, n : ps = SplitLongText(b) /\ n = blocks[b].len
  OBVIOUS
<1>1. PiecesFrom(b, 0, ps)
  BY TextIsCut
<1>2. ps # << >> /\ Last(ps).to = n
  BY DEF Splits
<1>3. ps \in Seq(Piece) /\ Len(ps) \in Nat /\ DOMAIN ps = 1 .. Len(ps) /\ Len(ps) # 0
  BY <1>1, <1>2, EmptySeq DEF PiecesFrom
<1>4. ps[Len(ps)].to = n /\ ps[1].from = 0 /\ 1 \in 1 .. Len(ps)
  BY <1>1, <1>2, <1>3 DEF PiecesFrom, Last
<1>5. \A k \in 1 .. Len(ps) :
        ps[k] \in Piece /\ ps[k].block = b /\ ps[k].from < ps[k].to /\ ps[k].to <= n
  BY <1>1, <1>3 DEF PiecesFrom
<1>6. \A k \in 1 .. Len(ps) : ps[k] \in ToSet(ps)
  BY <1>3 DEF ToSet
<1>7. ASSUME NEW p \in ToSet(ps), p.to # n
      PROVE  \E q \in ToSet(ps) : q.from = p.to
  <2>1. PICK k \in 1 .. Len(ps) : p = ps[k]
    BY <1>3 DEF ToSet
  <2>2. k \in 1 .. Len(ps) - 1
    BY <1>3, <1>4, <1>7, <2>1
  <2>3. k + 1 \in 1 .. Len(ps) /\ ps[k].to = ps[k + 1].from
    BY <1>1, <1>3, <2>2 DEF PiecesFrom
  <2> QED  BY <1>6, <2>1, <2>3
<1>8. \A p \in ToSet(ps) : p \in Piece /\ p.block = b /\ p.from < p.to /\ p.to <= n
  BY <1>3, <1>5 DEF ToSet
<1> QED  BY <1>4, <1>6, <1>7, <1>8 DEF Covers

\* The child of an image covers it.
LEMMA ImageCovers ==
    ASSUME ChunkerTypeOK, NEW b \in Indices
    PROVE  Covers({WholeBlock(b)}, b, blocks[b].len)
<1>1. b \in Nat /\ blocks[b].len \in Nat \ {0}
  BY BlocksAre
<1> PICK p : p = WholeBlock(b)
  OBVIOUS
<1>2. p \in Piece /\ p.block = b /\ p.from = 0 /\ p.to = blocks[b].len
  BY <1>1 DEF WholeBlock, Piece
<1> QED  BY <1>1, <1>2 DEF Covers

-----------------------------------------------------------------------------
(* splitBlocks: the children of a run.                                     *)

\* The size of a single piece.
LEMMA SizeOfOne ==
    ASSUME NEW p, p.from \in Nat, p.to \in Nat
    PROVE  Size(<<p>>) = p.to - p.from
<1> DEFINE D == DOMAIN <<p>>
           Sum(h) == h = [s \in SUBSET D |->
                            IF s = {} THEN 0
                            ELSE LET x == CHOOSE x \in s : TRUE
                                 IN  h[s \ {x}] + (<<p>>[x].to - <<p>>[x].from)]
           f == CHOOSE h : Sum(h)
           g == [s \in SUBSET D |-> IF s = {} THEN 0 ELSE p.to - p.from]
<1> PICK d : d = p.to - p.from
  OBVIOUS
<1>1. d \in Int
  OBVIOUS
<1>2. D = {1} /\ <<p>>[1] = p
  OBVIOUS
<1>3. \A s \in SUBSET D : s = {} \/ s = {1}
  BY <1>2
<1>4. (CHOOSE x \in {1} : TRUE) = 1
  OBVIOUS
<1>5. Sum(g)
  <2>1. ASSUME NEW s \in SUBSET D
        PROVE  g[s] = IF s = {} THEN 0
                      ELSE LET x == CHOOSE x \in s : TRUE
                           IN  g[s \ {x}] + (<<p>>[x].to - <<p>>[x].from)
    <3>1. CASE s = {}
      BY <3>1
    <3>2. CASE s = {1}
      <4>1. s \ {CHOOSE x \in s : TRUE} = {} /\ <<p>>[CHOOSE x \in s : TRUE] = p
        BY <1>2, <1>4, <3>2
      <4>2. g[{}] = 0 /\ g[s] = p.to - p.from /\ s # {}
        BY <3>2
      <4>3. g[s] = 0 + (p.to - p.from)
        BY <1>1, <4>2
      <4> HIDE DEF g, D
      <4> QED  BY <4>1, <4>2, <4>3
    <3> HIDE DEF g, D
    <3> QED  BY <1>3, <3>1, <3>2
  <2> QED  BY <2>1
<1>6. Sum(f)
  <2> HIDE DEF Sum, g
  <2> QED  BY <1>5
<1>7. f[{}] = 0 /\ f[D] = f[D \ {1}] + (p.to - p.from)
  <2>1. {} \in SUBSET D /\ D \in SUBSET D /\ D # {} /\ (CHOOSE x \in D : TRUE) = 1
    BY <1>2, <1>4
  <2> HIDE DEF f, D
  <2>2. f[{}] = 0
    BY <1>6, <2>1
  <2>3. f[D] = f[D \ {1}] + (<<p>>[1].to - <<p>>[1].from)
    BY <1>6, <2>1
  <2> QED  BY <1>2, <2>2, <2>3
<1>8. D \ {1} = {}
  BY <1>2
<1>9. f[D] = d
  <2> HIDE DEF f, D
  <2>1. f[D \ {1}] = 0
    BY <1>7, <1>8, Zenon
  <2> QED  BY <1>1, <1>7, <2>1
<1>10. Cardinality({k \in 2 .. Len(<<p>>) : <<p>>[k].block # <<p>>[k - 1].block}) = 0
  <2>1. Len(<<p>>) = 1 /\ 2 .. 1 = {}
    OBVIOUS
  <2>2. {k \in 2 .. Len(<<p>>) : <<p>>[k].block # <<p>>[k - 1].block} = {}
    BY <2>1
  <2> QED  BY <2>2, FS_EmptySet
<1>11. FoldSeq(LAMBDA q, n : n + (q.to - q.from), 0, <<p>>) = f[D]
  BY DEF FoldSeq, FoldFunction, FoldFunctionOnSet, MapThenFoldSet
<1>12. Size(<<p>>) = f[D]
    + Cardinality({k \in 2 .. Len(<<p>>) : <<p>>[k].block # <<p>>[k - 1].block})
  BY <1>11, Zenon DEF Size
<1>13. Size(<<p>>) = d + 0
  <2> HIDE DEF f, D
  <2> QED  BY <1>9, <1>10, <1>12, Zenon
<1> QED  BY <1>1, <1>13

\* A child of text: over the limit only if it is one piece, and then at most MaxChunk.
Child(t) == /\ t \in Seq(Piece) \ {<< >>}
            /\ Size(t) > MaxChild => Len(t) = 1 /\ Size(t) <= MaxChunk

TextChild == {t \in Seq(Piece) : Child(t)}

\* The text of a piece is not empty and no longer than MaxChunk.
CutPiece == {p \in Piece : p.from < p.to /\ p.to - p.from <= MaxChunk}

\* splitBlocks adds a piece to the child it is filling, or begins another.
LEMMA PieceTaken ==
    ASSUME ChunkerAssumption, NEW acc \in Gathers(TextChild), NEW p \in CutPiece
    PROVE  /\ Adds(acc, p, AddPiece(acc, p)) /\ AddPiece(acc, p).open \in TextChild
           /\ AddPiece(acc, p) \in Gathers(TextChild)
<1> PICK next : next = AddPiece(acc, p)
  OBVIOUS
<1> DEFINE closes == TopicBreak(acc.open, p) \/ Overflows(acc.open, p)
           base == IF closes THEN Flush(acc) ELSE acc
<1>1. next = [base EXCEPT !.open = Append(@, p)]
  BY DEF AddPiece
<1>2. Parts(TextChild, Piece)
  BY DEF Parts, TextChild, Child
<1>3. Flush(acc) \in Gathers(TextChild) /\ Flush(acc).open = << >>
  BY <1>2, FlushKeeps
<1>4. p \in Piece /\ p.from \in Nat /\ p.to \in Nat /\ p.to - p.from <= MaxChunk
  BY DEF CutPiece, Piece
<1>5. Size(<<p>>) = p.to - p.from
  BY <1>4, SizeOfOne
<1>6. Adds(acc, p, next)
  BY <1>1 DEF Adds
<1>7. next.open \in TextChild
  <2>1. base \in Gathers(TextChild) /\ (base.open = << >> \/ (base = acc /\ ~ closes))
    <3> HIDE DEF closes
    <3> QED  BY <1>3
  <2>2. base.open \in Seq(Piece) /\ next.open = Append(base.open, p)
    <3>1. base.open \in TextChild \cup {<< >>}
      BY <2>1 DEF Gathers
    <3>2. base.open \in Seq(Piece)
      <4>1. << >> \in Seq(Piece) /\ TextChild \subseteq Seq(Piece)
        BY DEF TextChild
      <4> HIDE DEF base
      <4> QED  BY <3>1, <4>1
    <3>3. next.open = Append(base.open, p)
      <4> HIDE DEF base
      <4> QED  BY <1>1, <2>1 DEF Gathers
    <3> HIDE DEF base
    <3> QED  BY <3>2, <3>3
  <2>3. next.open \in Seq(Piece) \ {<< >>}
    <3> HIDE DEF base
    <3> QED  BY <1>4, <2>2, AppendProperties, SMTT(30)
  <2>4. CASE base.open = << >>
    <3>1. next.open = <<p>>
      <4> HIDE DEF base
      <4> QED  BY <2>2, <2>4
    <3>2. Len(<<p>>) = 1
      OBVIOUS
    <3> HIDE DEF base
    <3> QED  BY <1>4, <1>5, <2>3, <3>1, <3>2 DEF TextChild, Child
  <2>5. CASE base = acc /\ ~ closes
    <3>1. ~ Size(Append(acc.open, p)) > MaxChild
      <4> HIDE DEF base
      <4> QED  BY <2>5, Zenon DEF Overflows
    <3>2. ~ Size(next.open) > MaxChild
      <4> HIDE DEF base, closes
      <4> QED  BY <2>2, <2>5, <3>1, Zenon
    <3> HIDE DEF base, closes
    <3> QED  BY <2>3, <3>2, Zenon DEF TextChild, Child
  <2> HIDE DEF base, closes
  <2> QED  BY <2>1, <2>4, <2>5
<1>8. next \in Gathers(TextChild)
  BY <1>2, <1>4, <1>6, <1>7, AddsOne
<1> QED  BY <1>6, <1>7, <1>8

\* The pieces of the blocks of a run, one after the other.
PiecesOfRun(run) == [k \in DOMAIN run |-> SplitLongText(run[k])]

\* There is a list of pieces for each block of a run.
LEMMA RunPieces ==
    ASSUME ChunkerTypeOK, NEW run \in Seq(Indices)
    PROVE  PiecesOfRun(run) \in Seq(Seq(CutPiece)) /\ Len(PiecesOfRun(run)) = Len(run)
<1>1. ASSUME NEW b \in Indices
      PROVE  SplitLongText(b) \in Seq(CutPiece)
  <2> PICK ps : ps = SplitLongText(b)
    OBVIOUS
  <2>1. PiecesFrom(b, 0, ps)
    BY TextIsCut
  <2>2. ps \in Seq(Piece) /\ Len(ps) \in Nat /\ DOMAIN ps = 1 .. Len(ps)
    BY <2>1 DEF PiecesFrom
  <2>3. \A k \in 1 .. Len(ps) : ps[k] \in CutPiece
    BY <2>1, <2>2 DEF PiecesFrom, CutPiece
  <2> QED  BY <2>2, <2>3
<1>2. DOMAIN run = 1 .. Len(run) /\ Len(run) \in Nat /\ \A k \in 1 .. Len(run) : run[k] \in Indices
  OBVIOUS
<1>3. \A k \in 1 .. Len(run) : SplitLongText(run[k]) \in Seq(CutPiece)
  BY <1>1, <1>2
<1>4. PiecesOfRun(run) = [k \in 1 .. Len(run) |-> SplitLongText(run[k])]
  BY <1>2 DEF PiecesOfRun
<1> PICK n, A, s : n = Len(run) /\ A = Seq(CutPiece) /\ s = PiecesOfRun(run)
  OBVIOUS
<1>5. n \in Nat /\ s \in [1 .. n -> A]
  BY <1>2, <1>3, <1>4
<1>6. s \in Seq(A) /\ Len(s) = n
  BY <1>5
<1> QED  BY <1>6

\* The children of a run hold its pieces in their order.
LEMMA RunChildren ==
    ASSUME ChunkerAssumption, ChunkerTypeOK, NEW run \in Seq(Indices)
    PROVE  /\ SplitBlocks(run) \in Seq(TextChild)
           /\ FlattenSeq(SplitBlocks(run)) = FlattenSeq(PiecesOfRun(run))
<1>0. PICK A, B, Q, seq : A = Gathers(TextChild) /\ B = CutPiece /\ Q = TextChild
                        /\ seq = FlattenSeq(PiecesOfRun(run))
  OBVIOUS
<1>1. seq \in Seq(B)
  BY <1>0, RunPieces, FlattenHas
<1>2. Nothing \in A
  BY <1>0, NothingHeld
<1>3. \A acc \in A, x \in B : AddPiece(acc, x) \in A
  BY <1>0, PieceTaken
<1>4. PICK h \in [0 .. Len(seq) -> A] :
          /\ h[0] = Nothing
          /\ \A i \in 1 .. Len(seq) : h[i] = AddPiece(h[i - 1], seq[i])
          /\ FoldLeft(AddPiece, Nothing, seq) = h[Len(seq)]
  BY <1>1, <1>2, <1>3, PiecesFold
<1>5. SplitBlocks(run) = Flush(FoldLeft(AddPiece, Nothing, seq)).done
  BY <1>0 DEF SplitBlocks, PiecesOfRun
<1>6. SplitBlocks(run) = Flush(h[Len(seq)]).done
  BY <1>4, <1>5
<1>7. ASSUME NEW i \in 1 .. Len(seq)
      PROVE  Adds(h[i - 1], seq[i], h[i]) /\ h[i].open \in Q
  <2>1. h[i - 1] \in A /\ seq[i] \in B
    BY <1>1
  <2>2. h[i] = AddPiece(h[i - 1], seq[i])
    BY <1>4
  <2> QED  BY <1>0, <2>1, <2>2, PieceTaken
<1>8. Parts(Q, Piece) /\ seq \in Seq(Piece)
  <2>1. B \subseteq Piece
    BY <1>0 DEF CutPiece
  <2>2. Parts(Q, Piece)
    BY <1>0 DEF Parts, TextChild, Child
  <2> QED  BY <1>1, <2>1, <2>2
<1>9. h \in [0 .. Len(seq) -> Gathers(Q)]
  BY <1>0
<1>10. Flush(h[Len(seq)]).done \in Seq(Q) /\ FlattenSeq(Flush(h[Len(seq)]).done) = seq
  <2>1. GoesThrough(h, seq, Piece, Q)
    BY <1>4, <1>7, <1>8, <1>9 DEF GoesThrough
  <2> QED  BY <1>8, <2>1, LoopGathers
<1> QED  BY <1>0, <1>6, <1>10

-----------------------------------------------------------------------------
(* chunkBlocks: the runs of text of a group, and their children.           *)

Less == {pair \in Nat \X Nat : pair[1] < pair[2]}

\* The blocks of r are all before m or all behind it.
Aside(r, m) == (\A x \in ToSet(r) : x < m) \/ (\A x \in ToSet(r) : m < x)

Runs == Seq(Indices) \ {<< >>}

\* The runs among the first i blocks of g: the images are not in them and none of them is
\* between two blocks of a run.
RunsAmong(g, i, acc) ==
    /\ acc \in Gathers(Runs)
    /\ InOrder(Held(acc), Less)
    /\ ToSet(Held(acc)) = {g[j] : j \in {k \in 1 .. i : ~ IsImage(g[k])}}
    /\ \A j \in 1 .. i : IsImage(g[j]) => \A x \in ToSet(acc.open) : g[j] < x
    /\ \A j \in 1 .. i : IsImage(g[j]) => \A r \in ToSet(acc.done) : Aside(r, g[j])

\* A run that is closed is what was being filled or was closed before.
LEMMA FlushedIs ==
    ASSUME NEW B, NEW Q, Parts(Q, B), NEW acc \in Gathers(Q)
    PROVE  \A r \in ToSet(Flush(acc).done) : r \in ToSet(acc.done) \/ r = acc.open
<1>1. acc.done \in Seq(Q) /\ acc.open \in Q \cup {<< >>}
  BY DEF Gathers
<1>2. CASE acc.open = << >>
  <2>1. Flush(acc) = acc
    BY <1>2 DEF Flush
  <2> QED  BY <2>1
<1>3. CASE acc.open # << >>
  <2>1. Flush(acc).done = Append(acc.done, acc.open)
    BY <1>3 DEF Flush
  <2>2. acc.open \in Q
    BY <1>1, <1>3
  <2>3. ToSet(Append(acc.done, acc.open)) = ToSet(acc.done) \cup {acc.open}
    BY <1>1, <2>2, SetOfAppend
  <2> QED  BY <2>1, <2>3
<1> QED  BY <1>2, <1>3

\* A flush keeps the runs found so far as they are.
LEMMA RunsFlushed ==
    ASSUME NEW g, NEW i \in Nat, NEW acc, RunsAmong(g, i, acc)
    PROVE  RunsAmong(g, i, Flush(acc))
<1>0. PICK B, Q : B = Indices /\ Q = Runs
  OBVIOUS
<1>1. Parts(Q, B) /\ acc \in Gathers(Q)
  BY <1>0 DEF Parts, Runs, RunsAmong
<1>2. Flush(acc) \in Gathers(Q) /\ Flush(acc).open = << >> /\ Held(Flush(acc)) = Held(acc)
  BY <1>1, FlushKeeps
<1>3. ToSet(<< >>) = {}
  BY DEF ToSet
<1>4. \A r \in ToSet(Flush(acc).done) : r \in ToSet(acc.done) \/ r = acc.open
  BY <1>1, FlushedIs
<1>5. ASSUME NEW j \in 1 .. i, IsImage(g[j]), NEW r \in ToSet(Flush(acc).done)
      PROVE  Aside(r, g[j])
  BY <1>4, <1>5, Zenon DEF RunsAmong, Aside
<1>6. ToSet(Flush(acc).open) = {}
  BY <1>2, <1>3
<1>7. /\ InOrder(Held(acc), Less)
      /\ ToSet(Held(acc)) = {g[j] : j \in {k \in 1 .. i : ~ IsImage(g[k])}}
  BY DEF RunsAmong
<1> PICK next : next = Flush(acc)
  OBVIOUS
<1>8. /\ next \in Gathers(Runs)
      /\ InOrder(Held(next), Less)
      /\ ToSet(Held(next)) = {g[j] : j \in {k \in 1 .. i : ~ IsImage(g[k])}}
  BY <1>0, <1>2, <1>7, Zenon
<1>9. /\ \A j \in 1 .. i : IsImage(g[j]) => \A x \in ToSet(next.open) : g[j] < x
      /\ \A j \in 1 .. i : IsImage(g[j]) => \A r \in ToSet(next.done) : Aside(r, g[j])
  BY <1>5, <1>6, Zenon
<1> QED  BY <1>8, <1>9, Zenon DEF RunsAmong

\* A closed run holds what the loop holds.
LEMMA RunIsHeld ==
    ASSUME NEW B, NEW Q, Parts(Q, B), NEW acc \in Gathers(Q), acc.open = << >>
    PROVE  /\ FlattenSeq(acc.done) = Held(acc)
           /\ \A r \in ToSet(acc.done) : r \in Seq(B) /\ ToSet(r) \subseteq ToSet(Held(acc))
<1>1. /\ acc.done \in Seq(Q) /\ acc.done \in Seq(Seq(B)) /\ FlattenSeq(acc.done) \in Seq(B)
  BY HeldIs DEF Gathers
<1>2. Held(acc) = FlattenSeq(acc.done)
  BY <1>1, ConcatEmptySeq DEF Held
<1>3. ToSet(FlattenSeq(acc.done)) = Among(acc.done, Len(acc.done))
  BY <1>1, FlattenHas
<1>4. ASSUME NEW r \in ToSet(acc.done)
      PROVE  r \in Seq(B) /\ ToSet(r) \subseteq Among(acc.done, Len(acc.done))
  <2>1. PICK k \in 1 .. Len(acc.done) : r = acc.done[k]
    BY <1>1 DEF ToSet
  <2>2. r \in Seq(B)
    BY <1>1, <2>1
  <2> QED  BY <2>1, <2>2 DEF Among
<1> QED  BY <1>2, <1>3, <1>4

\* One block more: an image closes the run of text before it, another block joins it.
LEMMA BlockRun ==
    ASSUME ChunkerTypeOK, NEW g \in Seq(Indices), InOrder(g, Less), NEW i \in 1 .. Len(g),
           NEW acc, RunsAmong(g, i - 1, acc)
    PROVE  RunsAmong(g, i, AddToRun(acc, g[i]))
<1>0. PICK B, Q, b : B = Indices /\ Q = Runs /\ b = g[i]
  OBVIOUS
<1>1. /\ Parts(Q, B) /\ acc \in Gathers(Q) /\ i \in Nat /\ i - 1 \in Nat
      /\ B \subseteq Nat /\ b \in B /\ \A j \in 1 .. Len(g) : g[j] \in B
  BY <1>0, BlocksAre, SMTT(30) DEF Parts, Runs, RunsAmong
<1>2. \A j \in 1 .. i - 1 : g[j] < b
  <2>1. ASSUME NEW j \in 1 .. i - 1
        PROVE  g[j] < b
    <3>1. <<g[j], g[i]>> \in Less
      <4>1. j \in DOMAIN g /\ i \in DOMAIN g /\ j < i
        OBVIOUS
      <4> QED  BY <4>1 DEF InOrder
    <3> QED  BY <1>0, <3>1 DEF Less
  <2> QED  BY <2>1
<1>3. \A x \in ToSet(Held(acc)) : x < b
  <2>1. ToSet(Held(acc)) = {g[j] : j \in {k \in 1 .. i - 1 : ~ IsImage(g[k])}}
    BY DEF RunsAmong
  <2> QED  BY <1>2, <2>1
<1>4. \A j \in 1 .. i : j \in 1 .. i - 1 \/ j = i
  OBVIOUS
<1>5. CASE IsImage(b)
  <2>0. PICK next : next = Flush(acc)
    OBVIOUS
  <2>1. RunsAmong(g, i - 1, next)
    BY <1>1, <2>0, RunsFlushed
  <2>2. next \in Gathers(Q) /\ next.open = << >> /\ Held(next) = Held(acc)
    BY <1>1, <2>0, FlushKeeps
  <2>3. \A r \in ToSet(next.done) : ToSet(r) \subseteq ToSet(Held(acc))
    BY <1>1, <2>2, RunIsHeld
  <2>4. \A r \in ToSet(next.done) : Aside(r, b)
    BY <1>3, <2>3 DEF Aside
  <2>5. {k \in 1 .. i : ~ IsImage(g[k])} = {k \in 1 .. i - 1 : ~ IsImage(g[k])}
    <3>1. 1 .. i - 1 \subseteq 1 .. i
      OBVIOUS
    <3> HIDE DEF IsImage
    <3> QED  BY <1>0, <1>4, <1>5, <3>1
  <2>6. ToSet(next.open) = {}
    BY <2>2 DEF ToSet
  <2>7. /\ InOrder(Held(next), Less)
        /\ ToSet(Held(next)) = {g[j] : j \in {k \in 1 .. i : ~ IsImage(g[k])}}
    BY <2>1, <2>5, Zenon DEF RunsAmong
  <2>8. \A j \in 1 .. i : IsImage(g[j]) => \A r \in ToSet(next.done) : Aside(r, g[j])
    BY <1>0, <1>4, <2>1, <2>4, Zenon DEF RunsAmong
  <2>9. \A j \in 1 .. i : IsImage(g[j]) => \A x \in ToSet(next.open) : g[j] < x
    BY <2>6, Zenon
  <2>10. next \in Gathers(Runs)
    BY <1>0, <2>2
  <2>11. AddToRun(acc, g[i]) = next
    BY <1>0, <1>5, <2>0 DEF AddToRun
  <2> QED  BY <2>7, <2>8, <2>9, <2>10, <2>11, Zenon DEF RunsAmong
<1>6. CASE ~ IsImage(b)
  <2>0. PICK next : next = [acc EXCEPT !.open = Append(@, b)]
    OBVIOUS
  <2>1. acc.done \in Seq(Q) /\ acc.open \in Seq(B) /\ Held(acc) \in Seq(B)
    BY <1>1, HeldIs DEF Gathers
  <2>2. next.open = Append(acc.open, b) /\ next.done = acc.done
    BY <1>1, <2>0 DEF Gathers
  <2>3. next.open \in Q
    <3>1. Append(acc.open, b) \in Seq(B) /\ Append(acc.open, b) # << >>
      BY <1>1, <2>1, AppendProperties, SMTT(30)
    <3> QED  BY <1>0, <2>2, <3>1 DEF Runs
  <2>4. Adds(acc, b, next)
    BY <2>0 DEF Adds
  <2>5. next \in Gathers(Q) /\ Held(next) = Append(Held(acc), b)
    BY <1>1, <2>3, <2>4, AddsOne
  <2>6. InOrder(Held(next), Less)
    <3>1. <<b>> \in Seq(B) /\ Append(Held(acc), b) = Held(acc) \o <<b>>
      BY <1>1, <2>1, AppendIsConcat
    <3>2. ToSet(<<b>>) = {b} /\ DOMAIN <<b>> = {1}
      BY DEF ToSet
    <3>3. InOrder(<<b>>, Less)
      BY <3>2 DEF InOrder
    <3>4. ToSet(Held(acc)) \subseteq B
      BY <2>1 DEF ToSet
    <3>5. \A x \in ToSet(Held(acc)), y \in ToSet(<<b>>) : <<x, y>> \in Less
      BY <1>1, <1>3, <3>2, <3>4 DEF Less
    <3>6. InOrder(Held(acc), Less)
      BY DEF RunsAmong
    <3> QED  BY <2>1, <2>5, <3>1, <3>3, <3>5, <3>6, OrderedConcat
  <2>7. ToSet(Held(next)) = {g[j] : j \in {k \in 1 .. i : ~ IsImage(g[k])}}
    <3>1. ToSet(Held(next)) = ToSet(Held(acc)) \cup {b}
      BY <1>1, <2>1, <2>5, SetOfAppend
    <3>2. ToSet(Held(acc)) = {g[j] : j \in {k \in 1 .. i - 1 : ~ IsImage(g[k])}}
      BY DEF RunsAmong
    <3>3. {k \in 1 .. i : ~ IsImage(g[k])} = {k \in 1 .. i - 1 : ~ IsImage(g[k])} \cup {i}
      <4>1. 1 .. i - 1 \subseteq 1 .. i /\ i \in 1 .. i
        OBVIOUS
      <4> HIDE DEF IsImage
      <4> QED  BY <1>0, <1>4, <1>6, <4>1
    <3> QED  BY <1>0, <3>1, <3>2, <3>3
  <2>8. ASSUME NEW j \in 1 .. i, IsImage(g[j])
        PROVE  j \in 1 .. i - 1
    BY <1>0, <1>4, <1>6, <2>8
  <2>9. \A j \in 1 .. i : IsImage(g[j]) => \A x \in ToSet(next.open) : g[j] < x
    <3>1. ToSet(next.open) = ToSet(acc.open) \cup {b}
      BY <1>1, <2>1, <2>2, SetOfAppend
    <3>2. \A j \in 1 .. i - 1 : IsImage(g[j]) => \A x \in ToSet(acc.open) : g[j] < x
      BY DEF RunsAmong
    <3> QED  BY <1>2, <2>8, <3>1, <3>2, Zenon
  <2>10. \A j \in 1 .. i : IsImage(g[j]) => \A r \in ToSet(next.done) : Aside(r, g[j])
    <3>1. \A j \in 1 .. i - 1 : IsImage(g[j]) => \A r \in ToSet(acc.done) : Aside(r, g[j])
      BY DEF RunsAmong
    <3> QED  BY <2>2, <2>8, <3>1, Zenon
  <2>11. AddToRun(acc, g[i]) = next
    BY <1>0, <1>6, <2>0 DEF AddToRun
  <2>12. next \in Gathers(Runs)
    BY <1>0, <2>5
  <2> QED  BY <2>6, <2>7, <2>9, <2>10, <2>11, <2>12, Zenon DEF RunsAmong
<1> QED  BY <1>5, <1>6

\* The runs of a group are its blocks without the images, in their order, and no image is
\* between two blocks of a run.
LEMMA TextRunsAre ==
    ASSUME ChunkerTypeOK, NEW g \in Seq(Indices), InOrder(g, Less)
    PROVE  /\ TextRuns(g) \in Seq(Runs)
           /\ InOrder(FlattenSeq(TextRuns(g)), Less)
           /\ ToSet(FlattenSeq(TextRuns(g))) = {b \in ToSet(g) : ~ IsImage(b)}
           /\ \A m \in ToSet(g) : IsImage(m) => \A r \in ToSet(TextRuns(g)) : Aside(r, m)
<1>0. PICK B, Q, A, n : B = Indices /\ Q = Runs /\ A = Gathers(Runs) /\ n = Len(g)
  OBVIOUS
<1>1. n \in Nat /\ DOMAIN g = 1 .. n /\ g \in Seq(B) /\ \A i \in 1 .. n : g[i] \in B
  BY <1>0
<1>2. Parts(Q, B)
  BY <1>0 DEF Parts, Runs
<1>3. \A acc \in A, b \in B : AddToRun(acc, b) \in A
  <2>1. ASSUME NEW acc \in A, NEW b \in B
        PROVE  AddToRun(acc, b) \in A
    <3>1. CASE IsImage(b)
      <4>1. Flush(acc) \in Gathers(Q)
        BY <1>0, <1>2, FlushKeeps
      <4> QED  BY <1>0, <3>1, <4>1 DEF AddToRun
    <3>2. CASE ~ IsImage(b)
      <4>0. PICK next : next = [acc EXCEPT !.open = Append(@, b)]
        OBVIOUS
      <4>1. acc \in Gathers(Q) /\ acc.open \in Seq(B)
        BY <1>0, <1>2, HeldIs
      <4>2. next.open = Append(acc.open, b)
        BY <4>0, <4>1 DEF Gathers
      <4>3. next.open \in Q
        <5>1. Append(acc.open, b) \in Seq(B) /\ Append(acc.open, b) # << >>
          BY <4>1, AppendProperties
        <5> QED  BY <1>0, <4>2, <5>1 DEF Runs
      <4>4. Adds(acc, b, next)
        BY <4>0 DEF Adds
      <4>5. next \in Gathers(Q)
        BY <1>2, <4>1, <4>3, <4>4, AddsOne
      <4> QED  BY <1>0, <3>2, <4>0, <4>5 DEF AddToRun
    <3> QED  BY <3>1, <3>2
  <2> QED  BY <2>1
<1>4. Nothing \in A
  BY <1>0, NothingHeld
<1>5. PICK h \in [0 .. Len(g) -> A] :
          /\ h[0] = Nothing
          /\ \A i \in 1 .. Len(g) : h[i] = AddToRun(h[i - 1], g[i])
          /\ FoldLeft(AddToRun, Nothing, g) = h[Len(g)]
  BY <1>1, <1>3, <1>4, RunsFold
<1> DEFINE T == {i \in 0 .. n : RunsAmong(g, i, h[i])}
<1>6. 0 \in T
  <2>1. Nothing \in Gathers(Runs) /\ Held(Nothing) = << >>
    BY NothingHeld
  <2>2. ToSet(<< >>) = {} /\ InOrder(<< >>, Less)
    BY DEF ToSet, InOrder
  <2>3. 1 .. 0 = {}
    OBVIOUS
  <2>4. Nothing.open = << >>
    BY DEF Nothing
  <2>5. RunsAmong(g, 0, Nothing)
    BY <2>1, <2>2, <2>3, <2>4 DEF RunsAmong
  <2>6. 0 \in 0 .. n
    BY <1>1
  <2> QED  BY <1>5, <2>5, <2>6
<1>7. ASSUME NEW i \in 1 .. n, i - 1 \in T
      PROVE  i \in T
  <2>1. RunsAmong(g, i - 1, h[i - 1])
    BY <1>7
  <2>2. RunsAmong(g, i, AddToRun(h[i - 1], g[i]))
    BY <1>0, <2>1, BlockRun
  <2>3. h[i] = AddToRun(h[i - 1], g[i]) /\ i \in 0 .. n
    BY <1>0, <1>5
  <2> QED  BY <2>2, <2>3
<1>8. \A i \in 0 .. n : i \in T
  <2> HIDE DEF T
  <2> QED  BY <1>1, <1>6, <1>7, UpTo
<1>9. RunsAmong(g, n, h[n])
  BY <1>1, <1>8
<1>10. PICK end : end = Flush(h[n])
  OBVIOUS
<1>11. RunsAmong(g, n, end)
  BY <1>1, <1>9, <1>10, RunsFlushed
<1>12. end \in Gathers(Q) /\ end.open = << >>
  <2>1. h[n] \in Gathers(Q)
    BY <1>0, <1>9 DEF RunsAmong
  <2> QED  BY <1>2, <1>10, <2>1, FlushKeeps
<1>13. FlattenSeq(end.done) = Held(end) /\ end.done \in Seq(Q)
  BY <1>2, <1>12, RunIsHeld DEF Gathers
<1>14. TextRuns(g) = end.done
  BY <1>0, <1>5, <1>10 DEF TextRuns
<1>15. ToSet(Held(end)) = {b \in ToSet(g) : ~ IsImage(b)}
  <2>1. ToSet(Held(end)) = {g[j] : j \in {k \in 1 .. n : ~ IsImage(g[k])}}
    BY <1>11 DEF RunsAmong
  <2>2. ToSet(g) = {g[j] : j \in 1 .. n}
    BY <1>1 DEF ToSet
  <2> HIDE DEF IsImage
  <2> QED  BY <2>1, <2>2
<1>16. InOrder(Held(end), Less)
  BY <1>11 DEF RunsAmong
<1>17. \A m \in ToSet(g) : IsImage(m) => \A r \in ToSet(end.done) : Aside(r, m)
  <2>1. ASSUME NEW m \in ToSet(g)
        PROVE  \E j \in 1 .. n : m = g[j]
    BY <1>1 DEF ToSet
  <2>2. \A j \in 1 .. n : IsImage(g[j]) => \A r \in ToSet(end.done) : Aside(r, g[j])
    BY <1>11 DEF RunsAmong
  <2> QED  BY <2>1, <2>2, Zenon
<1> QED  BY <1>0, <1>13, <1>14, <1>15, <1>16, <1>17

Spans == Seq(Piece) \ {<< >>}

\* Every piece of one text is before every piece of the other.
SpanBefore ==
    {pair \in Spans \X Spans :
        \A x \in ToSet(pair[1]), y \in ToSet(pair[2]) : <<x, y>> \in PieceBefore}

PiecesIn(cs) == UNION {ToSet(c) : c \in ToSet(cs)}

\* The pieces of texts are in order if they are in each text and the texts are.
LEMMA SpansInOrder ==
    ASSUME NEW cs \in Seq(Spans)
    PROVE  /\ FlattenSeq(cs) \in Seq(Piece)
           /\ ToSet(FlattenSeq(cs)) = PiecesIn(cs)
           /\ InOrder(FlattenSeq(cs), PieceBefore) <=>
                 /\ \A c \in ToSet(cs) : InOrder(c, PieceBefore)
                 /\ InOrder(cs, SpanBefore)
<1>1. /\ cs \in Seq(Seq(Piece)) /\ Len(cs) \in Nat /\ DOMAIN cs = 1 .. Len(cs)
      /\ \A i \in 1 .. Len(cs) : cs[i] \in Spans
  <2>1. Spans \subseteq Seq(Piece)
    BY DEF Spans
  <2> QED  BY <2>1
<1>2. FlattenSeq(cs) \in Seq(Piece) /\ ToSet(FlattenSeq(cs)) = Among(cs, Len(cs))
  BY <1>1, FlattenHas
<1>3. Among(cs, Len(cs)) = PiecesIn(cs)
  <2>1. ToSet(cs) = {cs[i] : i \in 1 .. Len(cs)}
    BY <1>1 DEF ToSet
  <2> QED  BY <2>1 DEF Among, PiecesIn
<1>4. InOrder(FlattenSeq(cs), PieceBefore) <=> Ranked(cs, Len(cs), PieceBefore)
  BY <1>1, FlattenOrdered
<1>5. (\A i \in 1 .. Len(cs) : InOrder(cs[i], PieceBefore))
        <=> \A c \in ToSet(cs) : InOrder(c, PieceBefore)
  BY <1>1 DEF ToSet
<1>6. InOrder(cs, SpanBefore) <=>
        \A i, j \in 1 .. Len(cs) :
            i < j => \A x \in ToSet(cs[i]), y \in ToSet(cs[j]) : <<x, y>> \in PieceBefore
  <2>1. \A i, j \in 1 .. Len(cs) :
          <<cs[i], cs[j]>> \in SpanBefore
            <=> \A x \in ToSet(cs[i]), y \in ToSet(cs[j]) : <<x, y>> \in PieceBefore
    BY <1>1 DEF SpanBefore
  <2> QED  BY <1>1, <2>1 DEF InOrder
<1> QED  BY <1>2, <1>3, <1>4, <1>5, <1>6 DEF Ranked

TextOf(b) == ToSet(SplitLongText(b))

\* The texts of a run in order hold the pieces of its blocks in order.
LEMMA RunOrdered ==
    ASSUME ChunkerAssumption, ChunkerTypeOK, NEW run \in Seq(Indices), InOrder(run, Less)
    PROVE  /\ SplitBlocks(run) \in Seq(TextChild)
           /\ InOrder(SplitBlocks(run), SpanBefore)
           /\ \A c \in ToSet(SplitBlocks(run)) : InOrder(c, PieceBefore)
           /\ PiecesIn(SplitBlocks(run)) = UNION {TextOf(b) : b \in ToSet(run)}
<1>0. PICK ss, cs, n : ss = PiecesOfRun(run) /\ cs = SplitBlocks(run) /\ n = Len(run)
  OBVIOUS
<1>1. /\ n \in Nat /\ DOMAIN run = 1 .. n /\ \A k \in 1 .. n : run[k] \in Indices
      /\ \A k \in 1 .. n : ss[k] = SplitLongText(run[k])
  BY <1>0 DEF PiecesOfRun
<1>2. ss \in Seq(Seq(Piece)) /\ Len(ss) = n
  <2>1. ss \in Seq(Seq(CutPiece)) /\ Len(ss) = n
    BY <1>0, RunPieces
  <2>2. CutPiece \subseteq Piece
    BY DEF CutPiece
  <2> QED  BY <2>1, <2>2
<1>3. \A k \in 1 .. n : InOrder(ss[k], PieceBefore)
                        /\ \A p \in ToSet(ss[k]) : p \in Piece /\ p.block = run[k]
  <2>1. ASSUME NEW k \in 1 .. n
        PROVE  InOrder(ss[k], PieceBefore)
               /\ \A p \in ToSet(ss[k]) : p \in Piece /\ p.block = run[k]
    <3>1. PiecesFrom(run[k], 0, ss[k])
      BY <1>1, TextIsCut
    <3>2. ss[k] \in Seq(Piece) /\ DOMAIN ss[k] = 1 .. Len(ss[k])
      BY <3>1 DEF PiecesFrom
    <3> QED  BY <3>1, <3>2 DEF PiecesFrom, ToSet
  <2> QED  BY <2>1
<1>4. \A i, j \in 1 .. n : i < j => run[i] < run[j]
  BY <1>1 DEF InOrder, Less
<1>5. ASSUME NEW i \in 1 .. n, NEW j \in 1 .. n, i < j, NEW x \in ToSet(ss[i]), NEW y \in ToSet(ss[j])
      PROVE  <<x, y>> \in PieceBefore
  <2>1. x \in Piece /\ y \in Piece /\ x.block < y.block
    BY <1>3, <1>4, <1>5
  <2> QED  BY <2>1 DEF PieceBefore
<1>6. InOrder(FlattenSeq(ss), PieceBefore)
  <2>1. Ranked(ss, Len(ss), PieceBefore)
    BY <1>2, <1>3, <1>5 DEF Ranked
  <2> QED  BY <1>2, <2>1, FlattenOrdered
<1>7. cs \in Seq(TextChild) /\ FlattenSeq(cs) = FlattenSeq(ss)
  BY <1>0, RunChildren
<1>8. cs \in Seq(Spans)
  <2>1. TextChild \subseteq Spans
    BY DEF TextChild, Child, Spans
  <2> QED  BY <1>7, <2>1
<1>9. ToSet(FlattenSeq(ss)) = Among(ss, n)
  BY <1>2, FlattenHas
<1>10. Among(ss, n) = UNION {TextOf(b) : b \in ToSet(run)}
  <2>1. Among(ss, n) = UNION {ToSet(SplitLongText(run[k])) : k \in 1 .. n}
    BY <1>1 DEF Among
  <2>2. ToSet(run) = {run[k] : k \in 1 .. n}
    BY <1>1 DEF ToSet
  <2> QED  BY <2>1, <2>2 DEF TextOf
<1>11. /\ ToSet(FlattenSeq(cs)) = PiecesIn(cs)
       /\ InOrder(cs, SpanBefore) /\ \A c \in ToSet(cs) : InOrder(c, PieceBefore)
  BY <1>6, <1>7, <1>8, SpansInOrder
<1>12. PiecesIn(cs) = UNION {TextOf(b) : b \in ToSet(run)}
  BY <1>7, <1>9, <1>10, <1>11
<1> QED  BY <1>0, <1>7, <1>11, <1>12

\* A piece of text is of the block it was cut from.
LEMMA PieceOf ==
    ASSUME ChunkerTypeOK, NEW b \in Indices, NEW p \in TextOf(b)
    PROVE  p \in Piece /\ p.block = b
<1>0. PICK ps : ps = SplitLongText(b)
  OBVIOUS
<1>1. PiecesFrom(b, 0, ps)
  BY <1>0, TextIsCut
<1>2. ps \in Seq(Piece) /\ DOMAIN ps = 1 .. Len(ps)
  BY <1>1 DEF PiecesFrom
<1>3. PICK k \in 1 .. Len(ps) : p = ps[k]
  BY <1>0, <1>2 DEF TextOf, ToSet
<1> QED  BY <1>1, <1>2, <1>3 DEF PiecesFrom

\* The texts of a group are in order and hold the text of its blocks; each is of one run.
LEMMA ChildTextsAre ==
    ASSUME ChunkerAssumption, ChunkerTypeOK, NEW g \in Seq(Indices), InOrder(g, Less)
    PROVE  /\ ChildTexts(g) \in Seq(TextChild)
           /\ InOrder(ChildTexts(g), SpanBefore)
           /\ \A c \in ToSet(ChildTexts(g)) : InOrder(c, PieceBefore)
           /\ PiecesIn(ChildTexts(g)) = UNION {TextOf(b) : b \in {d \in ToSet(g) : ~ IsImage(d)}}
           /\ \A c \in ToSet(ChildTexts(g)) : \E r \in ToSet(TextRuns(g)) :
                \A p \in ToSet(c) : p.block \in ToSet(r)
<1>0. PICK runs, n, B : runs = TextRuns(g) /\ n = Len(runs) /\ B = Indices
  OBVIOUS
<1>1. /\ runs \in Seq(Runs) /\ InOrder(FlattenSeq(runs), Less)
      /\ ToSet(FlattenSeq(runs)) = {b \in ToSet(g) : ~ IsImage(b)}
  BY <1>0, TextRunsAre
<1>2. /\ runs \in Seq(Seq(B)) /\ n \in Nat /\ DOMAIN runs = 1 .. n
      /\ \A k \in 1 .. n : runs[k] \in Seq(B)
  <2>1. Runs \subseteq Seq(B)
    BY <1>0 DEF Runs
  <2> QED  BY <1>0, <1>1, <2>1
<1>3. Ranked(runs, n, Less) /\ ToSet(FlattenSeq(runs)) = Among(runs, n)
  BY <1>0, <1>1, <1>2, FlattenOrdered, FlattenHas
<1>4. PICK S : S = [k \in DOMAIN runs |-> SplitBlocks(runs[k])]
  OBVIOUS
<1>5. ASSUME NEW k \in 1 .. n
      PROVE  /\ S[k] \in Seq(TextChild) /\ InOrder(S[k], SpanBefore)
             /\ \A c \in ToSet(S[k]) : InOrder(c, PieceBefore)
             /\ PiecesIn(S[k]) = UNION {TextOf(b) : b \in ToSet(runs[k])}
  <2>1. runs[k] \in Seq(Indices) /\ InOrder(runs[k], Less)
    BY <1>0, <1>2, <1>3 DEF Ranked
  <2>2. S[k] = SplitBlocks(runs[k])
    BY <1>2, <1>4
  <2> QED  BY <2>1, <2>2, RunOrdered
<1>6. S \in Seq(Seq(TextChild)) /\ Len(S) = n
  <2>0. PICK C : C = Seq(TextChild)
    OBVIOUS
  <2>1. S \in [1 .. n -> C]
    BY <1>2, <1>4, <1>5, <2>0
  <2>2. S \in Seq(C) /\ Len(S) = n
    BY <1>2, <2>1, IsSequence
  <2> QED  BY <2>0, <2>2
<1>7. PICK tc : tc = ChildTexts(g)
  OBVIOUS
<1>8. tc = FlattenSeq(S)
  BY <1>0, <1>4, <1>7 DEF ChildTexts
<1>9. tc \in Seq(TextChild) /\ ToSet(tc) = Among(S, n)
  BY <1>6, <1>8, FlattenHas
<1>10. \A c \in ToSet(tc) : \E k \in 1 .. n : c \in ToSet(S[k])
  BY <1>9 DEF Among
<1>11. ASSUME NEW k \in 1 .. n, NEW c \in ToSet(S[k])
       PROVE  c \in Spans /\ \A p \in ToSet(c) : p \in Piece /\ p.block \in ToSet(runs[k])
  <2>1. c \in TextChild
    <3>1. S[k] \in Seq(TextChild) /\ DOMAIN S[k] = 1 .. Len(S[k])
      BY <1>5
    <3> QED  BY <3>1 DEF ToSet
  <2>2. c \in Spans
    BY <2>1 DEF TextChild, Child, Spans
  <2>3. ASSUME NEW p \in ToSet(c)
        PROVE  p \in Piece /\ p.block \in ToSet(runs[k])
    <3>1. p \in PiecesIn(S[k])
      BY DEF PiecesIn
    <3>4. p \in UNION {TextOf(b) : b \in ToSet(runs[k])}
      BY <1>5, <3>1, Zenon
    <3>2. PICK b \in ToSet(runs[k]) : p \in TextOf(b)
      BY <3>4
    <3>3. b \in Indices
      <4>1. runs[k] \in Seq(B) /\ DOMAIN runs[k] = 1 .. Len(runs[k])
        BY <1>2
      <4> QED  BY <1>0, <4>1 DEF ToSet
    <3> QED  BY <3>2, <3>3, PieceOf
  <2> QED  BY <2>2, <2>3
<1>12. ASSUME NEW i \in 1 .. n, NEW j \in 1 .. n, i < j, NEW c \in ToSet(S[i]), NEW d \in ToSet(S[j])
       PROVE  <<c, d>> \in SpanBefore
  <2>1. c \in Spans /\ d \in Spans
    BY <1>11
  <2>2. ASSUME NEW x \in ToSet(c), NEW y \in ToSet(d)
        PROVE  <<x, y>> \in PieceBefore
    <3>1. x \in Piece /\ y \in Piece /\ x.block \in ToSet(runs[i]) /\ y.block \in ToSet(runs[j])
      BY <1>11
    <3>2. <<x.block, y.block>> \in Less
      BY <1>3, <1>12, <3>1 DEF Ranked
    <3>3. x.block < y.block
      BY <3>2 DEF Less
    <3> QED  BY <3>1, <3>3 DEF PieceBefore
  <2> QED  BY <2>1, <2>2 DEF SpanBefore
<1>13. InOrder(tc, SpanBefore)
  <2>1. Ranked(S, n, SpanBefore)
    BY <1>5, <1>12 DEF Ranked
  <2> QED  BY <1>6, <1>8, <2>1, FlattenOrdered
<1>14. \A c \in ToSet(tc) : InOrder(c, PieceBefore)
  BY <1>5, <1>10
<1>15. PiecesIn(tc) = UNION {TextOf(b) : b \in {d \in ToSet(g) : ~ IsImage(d)}}
  <2>1. PiecesIn(tc) = UNION {PiecesIn(S[k]) : k \in 1 .. n}
    BY <1>9 DEF PiecesIn, Among
  <2>2. UNION {PiecesIn(S[k]) : k \in 1 .. n}
          = UNION {UNION {TextOf(b) : b \in ToSet(runs[k])} : k \in 1 .. n}
    BY <1>5
  <2>3. UNION {UNION {TextOf(b) : b \in ToSet(runs[k])} : k \in 1 .. n}
          = UNION {TextOf(b) : b \in Among(runs, n)}
    BY DEF Among
  <2>4. Among(runs, n) = {d \in ToSet(g) : ~ IsImage(d)}
    BY <1>1, <1>3, Zenon
  <2> QED  BY <2>1, <2>2, <2>3, <2>4
<1>16. \A c \in ToSet(tc) : \E r \in ToSet(runs) : \A p \in ToSet(c) : p.block \in ToSet(r)
  <2>1. \A k \in 1 .. n : runs[k] \in ToSet(runs)
    BY <1>2 DEF ToSet
  <2> QED  BY <1>10, <1>11, <2>1
<1> QED  BY <1>0, <1>7, <1>9, <1>13, <1>14, <1>15, <1>16

-----------------------------------------------------------------------------
(* chunkBlocks: the children of text.                                      *)

\* A child, and the text it stands for among the others.
Children ==
    {c \in [image : BOOLEAN, block : Nat, text : Spans] :
        StandsFor(c) \in Spans /\ StandsFor(c)[1].block = c.block}

ChildBefore ==
    {pair \in Children \X Children : <<StandsFor(pair[1]), StandsFor(pair[2])>> \in SpanBefore}

PiecesFor(cs) == UNION {ToSet(StandsFor(c)) : c \in ToSet(cs)}

\* A child of text stands for its text.
LEMMA TextChildIs ==
    ASSUME NEW t \in Spans, NEW c, c = [image |-> FALSE, block |-> t[1].block, text |-> t]
    PROVE  c \in Children /\ StandsFor(c) = t /\ c.text = t /\ ~ c.image /\ c.block = t[1].block
<1>1. t[1].block \in Nat
  <2>1. t \in Seq(Piece) /\ t # << >>
    BY DEF Spans
  <2>2. t[1] \in Piece
    BY <2>1
  <2> QED  BY <2>2 DEF Piece
<1>2. c.text = t /\ c.image = FALSE /\ c.block = t[1].block
  OBVIOUS
<1>3. StandsFor(c) = t
  BY <1>2, Zenon DEF StandsFor
<1>4. c \in [image : BOOLEAN, block : Nat, text : Spans]
  BY <1>1
<1> QED  BY <1>2, <1>3, <1>4, Zenon DEF Children

\* The first block of a piece of text is no image; the limits of its child.
LEMMA TextChildKept ==
    ASSUME ChunkerTypeOK, NEW D \in SUBSET Indices, \A b \in D : ~ IsImage(b),
           NEW t \in TextChild, \A p \in ToSet(t) : p \in UNION {TextOf(b) : b \in D},
           NEW c, c.text = t, ~ c.image
    PROVE  ChildKept(c)
<1>1. ASSUME NEW i \in DOMAIN t
      PROVE  ~ IsImage(t[i].block)
  <2>1. t[i] \in ToSet(t)
    BY DEF ToSet
  <2>2. t[i] \in UNION {TextOf(b) : b \in D}
    BY <2>1
  <2>3. PICK b \in D : t[i] \in TextOf(b)
    BY <2>2, Zenon
  <2>4. t[i].block = b
    BY <2>3, PieceOf
  <2> QED  BY <2>3, <2>4
<1>2. Size(t) > MaxChild => Len(t) = 1 /\ Size(t) <= MaxChunk
  BY Zenon DEF TextChild, Child
<1> QED  BY <1>1, <1>2, Zenon DEF ChildKept

\* The children of a group's text are in order and hold the text of its blocks; each is of
\* one run.
LEMMA TextChildrenAre ==
    ASSUME ChunkerAssumption, ChunkerTypeOK, NEW g \in Seq(Indices), InOrder(g, Less)
    PROVE  /\ TextChildren(g) \in Seq(Children)
           /\ InOrder(TextChildren(g), ChildBefore)
           /\ \A c \in ToSet(TextChildren(g)) :
                ChildKept(c) /\ InOrder(StandsFor(c), PieceBefore)
           /\ PiecesFor(TextChildren(g)) = UNION {TextOf(b) : b \in {d \in ToSet(g) : ~ IsImage(d)}}
           /\ \A c \in ToSet(TextChildren(g)) : \E r \in ToSet(TextRuns(g)) :
                \A p \in ToSet(StandsFor(c)) : p.block \in ToSet(r)
<1>0. PICK ts, tc, n, D : /\ ts = ChildTexts(g) /\ tc = TextChildren(g) /\ n = Len(ts)
                          /\ D = {d \in ToSet(g) : ~ IsImage(d)}
  OBVIOUS
<1>1. /\ ts \in Seq(TextChild) /\ InOrder(ts, SpanBefore)
      /\ \A t \in ToSet(ts) : InOrder(t, PieceBefore)
      /\ PiecesIn(ts) = UNION {TextOf(b) : b \in D}
      /\ \A t \in ToSet(ts) : \E r \in ToSet(TextRuns(g)) : \A p \in ToSet(t) : p.block \in ToSet(r)
  BY <1>0, ChildTextsAre
<1>2. /\ n \in Nat /\ DOMAIN ts = 1 .. n
      /\ \A k \in 1 .. n : ts[k] \in TextChild /\ ts[k] \in Spans /\ ts[k] \in ToSet(ts)
  <2>1. n \in Nat /\ DOMAIN ts = 1 .. n /\ \A k \in 1 .. n : ts[k] \in TextChild
    BY <1>0, <1>1
  <2>2. TextChild \subseteq Spans
    BY DEF TextChild, Child, Spans
  <2> QED  BY <2>1, <2>2 DEF ToSet
<1>3. tc = [k \in 1 .. n |-> [image |-> FALSE, block |-> ts[k][1].block, text |-> ts[k]]]
  BY <1>0, <1>2 DEF TextChildren
<1>4. ASSUME NEW k \in 1 .. n
      PROVE  tc[k] \in Children /\ StandsFor(tc[k]) = ts[k] /\ tc[k].text = ts[k] /\ ~ tc[k].image
  <2>1. tc[k] = [image |-> FALSE, block |-> ts[k][1].block, text |-> ts[k]]
    BY <1>3
  <2> QED  BY <1>2, <2>1, TextChildIs
<1>5. tc \in Seq(Children) /\ Len(tc) = n /\ DOMAIN tc = 1 .. n
  <2>1. tc \in [1 .. n -> Children]
    BY <1>3, <1>4
  <2> QED  BY <1>2, <2>1, IsSequence
<1>6. \A c \in ToSet(tc) : \E k \in 1 .. n : c = tc[k]
  BY <1>5 DEF ToSet
<1>7. InOrder(tc, ChildBefore)
  <2>1. ASSUME NEW i \in 1 .. n, NEW j \in 1 .. n, i < j
        PROVE  <<tc[i], tc[j]>> \in ChildBefore
    <3>1. <<ts[i], ts[j]>> \in SpanBefore
      BY <1>1, <1>2, <2>1 DEF InOrder
    <3> QED  BY <1>4, <3>1 DEF ChildBefore
  <2> QED  BY <1>5, <2>1 DEF InOrder
<1>8. PiecesFor(tc) = PiecesIn(ts)
  <2>1. ToSet(tc) = {tc[k] : k \in 1 .. n} /\ ToSet(ts) = {ts[k] : k \in 1 .. n}
    BY <1>2, <1>5 DEF ToSet
  <2>2. {ToSet(StandsFor(c)) : c \in ToSet(tc)} = {ToSet(t) : t \in ToSet(ts)}
    BY <1>4, <2>1
  <2> QED  BY <2>2 DEF PiecesFor, PiecesIn
<1>9. ASSUME NEW c \in ToSet(tc)
      PROVE  /\ ChildKept(c) /\ InOrder(StandsFor(c), PieceBefore)
             /\ \E r \in ToSet(TextRuns(g)) : \A p \in ToSet(StandsFor(c)) : p.block \in ToSet(r)
  <2>1. PICK k \in 1 .. n : c = tc[k]
    BY <1>6
  <2>2. D \subseteq Indices
    BY <1>0 DEF ToSet
  <2>3. \A p \in ToSet(ts[k]) : p \in UNION {TextOf(b) : b \in D}
    <3>1. \A p \in ToSet(ts[k]) : p \in PiecesIn(ts)
      BY <1>2 DEF PiecesIn
    <3> QED  BY <1>1, <3>1, Zenon
  <2>4. ChildKept(c)
    BY <1>0, <1>2, <1>4, <2>1, <2>2, <2>3, TextChildKept
  <2> QED  BY <1>1, <1>2, <1>4, <2>1, <2>4
<1> QED  BY <1>0, <1>1, <1>5, <1>7, <1>8, <1>9

-----------------------------------------------------------------------------
(* chunkBlocks: the images among the children, and the sort.               *)

\* The lesser of two numbers.
LEMMA MinOfTwo ==
    ASSUME NEW a \in Nat, NEW b \in Nat
    PROVE  Min({a, b}) = IF a > b THEN b ELSE a
<1>1. PICK m \in {a, b} : m = IF a > b THEN b ELSE a
  OBVIOUS
<1>2. \A y \in {a, b} : m <= y
  BY <1>1
<1>3. \A x \in {a, b} : (\A y \in {a, b} : x <= y) => x = m
  BY <1>1
<1>4. Min({a, b}) = m
  BY <1>2, <1>3 DEF Min
<1> QED  BY <1>1, <1>4

LEMMA TwoMore ==
    ASSUME NEW n \in 1 .. 3
    PROVE  IsFiniteSet(2 .. n) /\ Cardinality(2 .. n) \in 0 .. 2
<1>1. n \in Int /\ 2 \in Int
  OBVIOUS
<1>2. IsFiniteSet(2 .. n) /\ Cardinality(2 .. n) = IF 2 > n THEN 0 ELSE n - 2 + 1
  BY <1>1, FS_Interval
<1> QED  BY <1>2

\* A few pieces, none longer than half, and what is between them.
LEMMA SizeOfFew ==
    ASSUME NEW half \in Nat, NEW text \in Seq(Piece), Len(text) \in 1 .. 3,
           \A k \in 1 .. Len(text) : text[k].to - text[k].from \in 0 .. half
    PROVE  Size(text) \in 0 .. 3 * half + 2
<1> DEFINE n == Len(text)
           D == DOMAIN text
           W(k, s) == IF k \in s THEN text[k].to - text[k].from ELSE 0
           SumOf(h, s) == IF s = {} THEN 0
                          ELSE LET x == CHOOSE x \in s : TRUE
                               IN  h[s \ {x}] + (text[x].to - text[x].from)
           Sum(h) == h = [s \in SUBSET D |-> SumOf(h, s)]
           f == CHOOSE h : Sum(h)
           g == [s \in SUBSET D |-> W(1, s) + W(2, s) + W(3, s)]
           Changes == {k \in 2 .. n : text[k].block # text[k - 1].block}
<1>1. n \in 1 .. 3 /\ D = 1 .. n
  OBVIOUS
<1>2. \A s \in SUBSET D : W(1, s) \in 0 .. half /\ W(2, s) \in 0 .. half /\ W(3, s) \in 0 .. half
  BY <1>1
<1>3. Sum(g)
  <2>1. ASSUME NEW s \in SUBSET D
        PROVE  g[s] = SumOf(g, s)
    <3>1. CASE s = {}
      <4>1. W(1, s) = 0 /\ W(2, s) = 0 /\ W(3, s) = 0
        BY <3>1
      <4> HIDE DEF W
      <4> QED  BY <3>1, <4>1
    <3>2. CASE s # {}
      <4>1. PICK x : x = CHOOSE y \in s : TRUE
        OBVIOUS
      <4>2. x \in s /\ x \in 1 .. n
        BY <1>1, <3>2, <4>1
      <4>3. PICK d : d = text[x].to - text[x].from
        OBVIOUS
      <4>4. d \in 0 .. half
        BY <4>2, <4>3
      <4>5. \A k \in 1 .. 3 : W(k, s) = IF k = x THEN d ELSE W(k, s \ {x})
        BY <4>2, <4>3
      <4>6. W(x, s \ {x}) = 0
        BY <4>2
      <4>7. s \ {x} \in SUBSET D
        OBVIOUS
      <4>8. g[s] = W(1, s) + W(2, s) + W(3, s)
        BY <3>2
      <4>9. g[s \ {x}] = W(1, s \ {x}) + W(2, s \ {x}) + W(3, s \ {x})
        BY <4>7
      <4>10. g[s] = g[s \ {x}] + d
        <5> PICK r : r = s \ {x}
          OBVIOUS
        <5>1. x = 1 \/ x = 2 \/ x = 3
          BY <1>1, <4>2
        <5>2. W(1, r) \in Int /\ W(2, r) \in Int /\ W(3, r) \in Int
          BY <1>2, <4>7
        <5> HIDE DEF W, g
        <5> QED  BY <4>4, <4>5, <4>6, <4>8, <4>9, <5>1, <5>2
      <4> HIDE DEF g
      <4> QED  BY <3>2, <4>1, <4>3, <4>10
    <3> HIDE DEF g, D, SumOf
    <3> QED  BY <3>1, <3>2
  <2>2. g = [s \in SUBSET D |-> g[s]]
    OBVIOUS
  <2> HIDE DEF g, D, SumOf
  <2> QED  BY <2>1, <2>2
<1>4. Sum(f)
  <2> HIDE DEF Sum, g
  <2> QED  BY <1>3
<1>10. \A s \in SUBSET D : f[s] = SumOf(f, s) /\ g[s] = SumOf(g, s)
  <2> HIDE DEF f, g, D, SumOf
  <2> QED  BY <1>3, <1>4
<1>11. \A s \in SUBSET D : s = {} => SumOf(f, s) = 0 /\ SumOf(g, s) = 0
  <2> HIDE DEF f, g, D
  <2> QED  OBVIOUS
<1>5. f[D] = g[D]
  <2> DEFINE T == {i \in 0 .. 3 : \A s \in SUBSET D : Cardinality(s) = i => f[s] = g[s]}
  <2>0. IsFiniteSet(D) /\ Cardinality(D) = n
    <3>1. IsFiniteSet(1 .. n) /\ Cardinality(1 .. n) = n
      BY <1>1, FS_Interval
    <3> QED  BY <1>1, <3>1
  <2>1. \A s \in SUBSET D : IsFiniteSet(s) /\ Cardinality(s) \in Nat
    BY <2>0, FS_Subset, FS_CardinalityType
  <2>2. 0 \in T
    <3>1. ASSUME NEW s \in SUBSET D, Cardinality(s) = 0
          PROVE  f[s] = g[s]
      <4>1. s = {}
        BY <2>1, <3>1, FS_EmptySet
      <4>2. s \in SUBSET D
        OBVIOUS
      <4> HIDE DEF f, g, D, SumOf
      <4> QED  BY <1>10, <1>11, <4>1, <4>2
    <3> HIDE DEF f, g, D
    <3> QED  BY <3>1
  <2>3. ASSUME NEW i \in 1 .. 3, i - 1 \in T
        PROVE  i \in T
    <3>1. ASSUME NEW s \in SUBSET D, Cardinality(s) = i
          PROVE  f[s] = g[s]
      <4>1. PICK x : x = CHOOSE y \in s : TRUE
        OBVIOUS
      <4>2. s # {} /\ x \in s
        <5>1. Cardinality({}) = 0 /\ i # 0
          BY <2>3, FS_EmptySet
        <5>2. s # {}
          BY <3>1, <5>1
        <5> QED  BY <4>1, <5>2
      <4>3. PICK r : r = s \ {x}
        OBVIOUS
      <4>4. r \in SUBSET D /\ Cardinality(r) = i - 1
        <5>1. Cardinality(s \ {x}) = Cardinality(s) - 1
          BY <2>1, <4>2, FS_RemoveElement
        <5> QED  BY <3>1, <4>3, <5>1
      <4>5. f[r] = g[r]
        <5> HIDE DEF f, g, D
        <5> QED  BY <2>3, <4>4
      <4>6. /\ f[s] = f[r] + (text[x].to - text[x].from)
            /\ g[s] = g[r] + (text[x].to - text[x].from)
        <5>1. f[s] = SumOf(f, s) /\ g[s] = SumOf(g, s)
          <6> HIDE DEF f, g, D, SumOf
          <6> QED  BY <1>10
        <5>2. /\ SumOf(f, s) = f[r] + (text[x].to - text[x].from)
              /\ SumOf(g, s) = g[r] + (text[x].to - text[x].from)
          <6> HIDE DEF f, g, D
          <6> QED  BY <4>1, <4>2, <4>3
        <5> HIDE DEF f, g, D, SumOf
        <5> QED  BY <5>1, <5>2
      <4> HIDE DEF f, g
      <4> QED  BY <4>5, <4>6, Zenon
    <3> HIDE DEF f, g, D
    <3> QED  BY <3>1
  <2>4. \A i \in 0 .. 3 : i \in T
    <3> HIDE DEF T
    <3> QED  BY <2>2, <2>3, UpTo
  <2>5. n \in T
    <3> HIDE DEF T
    <3> QED  BY <1>1, <2>4
  <2> HIDE DEF f, g, D
  <2> QED  BY <2>0, <2>5
<1>6. g[D] \in 0 .. 3 * half
  <2>1. D \in SUBSET D
    OBVIOUS
  <2>2. g[D] = W(1, D) + W(2, D) + W(3, D)
    BY <2>1
  <2>3. PICK u, v, w : u = W(1, D) /\ v = W(2, D) /\ w = W(3, D)
    OBVIOUS
  <2> HIDE DEF W, g, D
  <2>4. u \in 0 .. half /\ v \in 0 .. half /\ w \in 0 .. half
    BY <1>2, <2>1, <2>3
  <2>5. u + v + w \in 0 .. 3 * half
    BY <2>4
  <2> QED  BY <2>2, <2>3, <2>5
<1>7. Cardinality(Changes) \in 0 .. 2
  <2>1. IsFiniteSet(2 .. n) /\ Cardinality(2 .. n) \in 0 .. 2
    <3> HIDE DEF n
    <3> QED  BY <1>1, TwoMore
  <2>2. Changes \in SUBSET (2 .. n)
    OBVIOUS
  <2> HIDE DEF Changes
  <2>3. Cardinality(Changes) <= Cardinality(2 .. n) /\ Cardinality(Changes) \in Nat
    BY <2>1, <2>2, FS_Subset, FS_CardinalityType
  <2> QED  BY <2>1, <2>3
<1>8. FoldSeq(LAMBDA p, m : m + (p.to - p.from), 0, text) = f[D]
  BY DEF FoldSeq, FoldFunction, FoldFunctionOnSet, MapThenFoldSet
<1>9. Size(text) = f[D] + Cardinality(Changes)
  BY <1>8, Zenon DEF Size
<1> HIDE DEF f, g, D, Changes
<1> QED  BY <1>5, <1>6, <1>7, <1>9

\* The beginning of a block.
LEMMA BeginningIs ==
    ASSUME ChunkerAssumption, ChunkerTypeOK, NEW b \in Indices
    PROVE  /\ MaxBeginning \in Nat /\ Beginning(b) \in Piece
           /\ Beginning(b).to - Beginning(b).from \in 0 .. MaxBeginning
<1>1. b \in Nat /\ blocks[b].len \in Nat
  BY BlocksAre
<1>2. MaxBeginning \in Nat
  BY DEF MaxBeginning, ChunkerAssumption
<1>3. PICK end : end = Min({blocks[b].len, MaxBeginning})
  OBVIOUS
<1>4. end \in 0 .. MaxBeginning
  BY <1>1, <1>2, <1>3, MinOfTwo
<1>5. PICK p : p = Beginning(b)
  OBVIOUS
<1>6. p.block = b /\ p.from = 0 /\ p.to = end /\ p \in Piece
  BY <1>1, <1>3, <1>4, <1>5 DEF Beginning, Piece
<1> QED  BY <1>2, <1>4, <1>5, <1>6

\* The text around an image is not more than fits into a chunk.
LEMMA NearbyIs ==
    ASSUME ChunkerAssumption, ChunkerTypeOK, NEW g \in Seq(Indices), NEW k \in 1 .. Len(g)
    PROVE  NearbyText(g, k) \in Spans /\ Size(NearbyText(g, k)) <= MaxChunk
<1> DEFINE Brief == {p \in Piece : p.to - p.from \in 0 .. MaxBeginning}
<1>0. PICK n, B, A : n = Len(g) /\ B = TextsBefore(g, k) /\ A = TextsAfter(g, k)
  OBVIOUS
<1>1. n \in Nat /\ DOMAIN g = 1 .. n /\ k \in 1 .. n /\ \A i \in 1 .. n : g[i] \in Indices
  BY <1>0
<1>2. \A i \in 1 .. n : Beginning(g[i]) \in Brief
  BY <1>1, BeginningIs
<1> HIDE DEF Brief
<1>3. PreviousText(g, k) \in Seq(Brief) /\ Len(PreviousText(g, k)) \in 0 .. 1
  <2>1. CASE B = {}
    <3>1. PreviousText(g, k) = << >>
      BY <1>0, <2>1 DEF PreviousText
    <3> QED  BY <3>1
  <2>2. CASE B # {}
    <3>1. B \in SUBSET (1 .. n)
      BY <1>0, <1>1 DEF TextsBefore
    <3>2. PICK m : m = Max(B)
      OBVIOUS
    <3>3. m \in 1 .. n
      BY <1>1, <2>2, <3>1, <3>2, MaxIn
    <3>4. PreviousText(g, k) = <<Beginning(g[m])>>
      BY <1>0, <2>2, <3>2 DEF PreviousText
    <3> QED  BY <1>2, <3>3, <3>4
  <2> QED  BY <2>1, <2>2
<1>4. NextText(g, k) \in Seq(Brief) /\ Len(NextText(g, k)) \in 0 .. 1
  <2>1. CASE A = {}
    <3>1. NextText(g, k) = << >>
      BY <1>0, <2>1 DEF NextText
    <3> QED  BY <3>1
  <2>2. CASE A # {}
    <3>1. A \subseteq 1 .. n
      BY <1>0, <1>1 DEF TextsAfter
    <3>2. PICK m : m = Min(A)
      OBVIOUS
    <3>3. m \in A
      <4>1. A \in SUBSET Nat
        BY <1>1, <3>1
      <4>2. \E x \in A : \A y \in A : x <= y
        BY <2>2, <4>1, LeastNat
      <4> QED  BY <3>2, <4>2 DEF Min
    <3>4. NextText(g, k) = <<Beginning(g[m])>>
      BY <1>0, <2>2, <3>2 DEF NextText
    <3> QED  BY <1>2, <3>1, <3>3, <3>4
  <2> QED  BY <2>1, <2>2
<1>5. PICK a, b, c, t : /\ a = PreviousText(g, k) /\ b = <<Beginning(g[k])>> /\ c = NextText(g, k)
                        /\ t = NearbyText(g, k)
  OBVIOUS
<1>6. b \in Seq(Brief) /\ Len(b) = 1
  BY <1>1, <1>2, <1>5
<1>7. t \in Seq(Brief) /\ Len(t) \in 1 .. 3 /\ Len(t) # 0
  <2>1. a \o b \in Seq(Brief) /\ Len(a \o b) = Len(a) + Len(b)
    BY <1>3, <1>5, <1>6, ConcatProperties
  <2>2. (a \o b) \o c \in Seq(Brief) /\ Len((a \o b) \o c) = Len(a \o b) + Len(c)
    BY <1>4, <1>5, <2>1, ConcatProperties
  <2>3. t = (a \o b) \o c
    BY <1>5 DEF NearbyText
  <2>4. PICK la, lb, lc : la = Len(a) /\ lb = Len(b) /\ lc = Len(c)
    OBVIOUS
  <2>5. la \in 0 .. 1 /\ lb = 1 /\ lc \in 0 .. 1
    BY <1>3, <1>4, <1>5, <1>6, <2>4
  <2>6. Len(t) = la + lb + lc
    BY <2>1, <2>2, <2>3, <2>4
  <2>7. la + lb + lc \in 1 .. 3 /\ la + lb + lc # 0
    BY <2>5
  <2> QED  BY <2>2, <2>3, <2>6, <2>7
<1>8. t \in Seq(Piece) /\ \A i \in 1 .. Len(t) : t[i].to - t[i].from \in 0 .. MaxBeginning
  <2>1. \A i \in 1 .. Len(t) : t[i] \in Brief
    BY <1>7
  <2>2. Brief \subseteq Piece /\ \A p \in Brief : p.to - p.from \in 0 .. MaxBeginning
    BY DEF Brief
  <2>3. t \in Seq(Piece)
    BY <1>7, <2>2
  <2> QED  BY <2>1, <2>2, <2>3
<1>9. MaxBeginning \in Nat /\ 3 * MaxBeginning + 2 <= MaxChunk /\ MaxChunk \in Nat
  <2>1. MaxBeginning \in Nat
    BY <1>1, BeginningIs
  <2>2. 3 * MaxBeginning + 2 <= MaxChunk /\ MaxChunk \in Nat
    BY DEF ChunkerAssumption
  <2> QED  BY <2>1, <2>2
<1>10. Size(t) <= MaxChunk
  <2>1. PICK half : half = MaxBeginning
    OBVIOUS
  <2>2. half \in Nat /\ \A i \in 1 .. Len(t) : t[i].to - t[i].from \in 0 .. half
    BY <1>8, <1>9, <2>1
  <2>3. Size(t) \in 0 .. 3 * half + 2
    BY <1>7, <1>8, <2>2, SizeOfFew
  <2>4. PICK size, most : size = Size(t) /\ most = MaxChunk
    OBVIOUS
  <2>5. size \in 0 .. 3 * half + 2 /\ most \in Nat /\ 3 * half + 2 <= most
    BY <1>9, <2>1, <2>3, <2>4
  <2>6. size <= most
    BY <2>2, <2>5
  <2> QED  BY <2>4, <2>6
<1>11. t \in Spans
  <2>1. t \in Seq(Piece)
    BY <1>8
  <2>2. t # << >>
    BY <1>7, EmptySeq
  <2> QED  BY <2>1, <2>2, Zenon DEF Spans
<1> QED  BY <1>5, <1>10, <1>11, Zenon

\* The pieces of a block among the children of its group.
PiecesOf(b) == IF IsImage(b) THEN {WholeBlock(b)} ELSE TextOf(b)

\* A child of an image: it stands for the whole block.
ImageOf(c, b) ==
    /\ c \in Children /\ ChildKept(c)
    /\ c.block = b /\ IsImage(b) /\ StandsFor(c) = <<WholeBlock(b)>>

\* The block of an image is a piece.
LEMMA WholeBlockIs ==
    ASSUME ChunkerTypeOK, NEW b \in Indices
    PROVE  /\ WholeBlock(b) \in Piece /\ WholeBlock(b).block = b
           /\ <<WholeBlock(b)>> \in Spans /\ ToSet(<<WholeBlock(b)>>) = {WholeBlock(b)}
           /\ <<WholeBlock(b)>>[1] = WholeBlock(b)
           /\ InOrder(<<WholeBlock(b)>>, PieceBefore)
<1>1. b \in Nat /\ blocks[b].len \in Nat
  BY BlocksAre
<1>2. WholeBlock(b) \in Piece /\ WholeBlock(b).block = b
  BY <1>1 DEF WholeBlock, Piece
<1>3. PICK w : w = WholeBlock(b)
  OBVIOUS
<1>4. <<w>> \in Spans /\ ToSet(<<w>>) = {w} /\ <<w>>[1] = w /\ DOMAIN <<w>> = {1}
  BY <1>2, <1>3 DEF Spans, ToSet
<1>5. InOrder(<<w>>, PieceBefore)
  BY <1>4 DEF InOrder
<1> QED  BY <1>2, <1>3, <1>4, <1>5

LEMMA ImageChildIs ==
    ASSUME ChunkerAssumption, ChunkerTypeOK, NEW g \in Seq(Indices), NEW k \in 1 .. Len(g),
           IsImage(g[k]),
           NEW c, c = [image |-> TRUE, block |-> g[k], text |-> NearbyText(g, k)]
    PROVE  ImageOf(c, g[k])
<1>1. PICK b : b = g[k]
  OBVIOUS
<1>2. b \in Indices /\ b \in Nat
  <2>1. b \in Indices
    BY <1>1
  <2> QED  BY <2>1, BlocksAre
<1>3. c.image = TRUE /\ c.block = b /\ c.text = NearbyText(g, k)
  BY <1>1
<1>4. StandsFor(c) = <<WholeBlock(b)>>
  BY <1>3, Zenon DEF StandsFor
<1>5. NearbyText(g, k) \in Spans /\ Size(NearbyText(g, k)) <= MaxChunk
  BY NearbyIs
<1>6. ChildKept(c)
  BY <1>1, <1>3, <1>5, Zenon DEF ChildKept
<1>7. c \in [image : BOOLEAN, block : Nat, text : Spans]
  BY <1>1, <1>2, <1>5
<1>8. StandsFor(c) \in Spans /\ StandsFor(c)[1].block = c.block
  BY <1>2, <1>3, <1>4, WholeBlockIs
<1>9. c \in Children
  BY <1>7, <1>8, Zenon DEF Children
<1> QED  BY <1>1, <1>3, <1>4, <1>6, <1>9 DEF ImageOf

\* Each image has a child of its own; they are in order.
LEMMA ImageChildrenAre ==
    ASSUME ChunkerAssumption, ChunkerTypeOK, NEW g \in Seq(Indices), InOrder(g, Less)
    PROVE  /\ ImageChildren(g) \in Seq(Children)
           /\ InOrder(ImageChildren(g), ChildBefore)
           /\ \A c \in ToSet(ImageChildren(g)) : \E b \in ToSet(g) : ImageOf(c, b)
           /\ \A b \in ToSet(g) : IsImage(b) => \E c \in ToSet(ImageChildren(g)) : ImageOf(c, b)
<1> DEFINE Shown(k) == [image |-> TRUE, block |-> g[k], text |-> NearbyText(g, k)]
<1>0. PICK n, I, ic : /\ n = Len(g) /\ ic = ImageChildren(g)
                      /\ I = [k \in DOMAIN g |-> IF IsImage(g[k]) THEN <<Shown(k)>> ELSE << >>]
  OBVIOUS
<1>1. n \in Nat /\ DOMAIN g = 1 .. n /\ \A k \in 1 .. n : g[k] \in Indices /\ g[k] \in Nat
  BY <1>0, BlocksAre
<1>2. \A k \in 1 .. n : IsImage(g[k]) => ImageOf(Shown(k), g[k])
  BY <1>0, ImageChildIs
<1>3. \A k \in 1 .. n : I[k] = IF IsImage(g[k]) THEN <<Shown(k)>> ELSE << >>
  BY <1>0, <1>1
<1>6. ic = FlattenSeq(I)
  BY <1>0 DEF ImageChildren
<1> HIDE DEF Shown
<1>4. ASSUME NEW k \in 1 .. n
      PROVE  /\ I[k] \in Seq(Children) /\ InOrder(I[k], ChildBefore)
             /\ \A c \in ToSet(I[k]) : ImageOf(c, g[k])
             /\ IsImage(g[k]) => \E c \in ToSet(I[k]) : ImageOf(c, g[k])
  <2>1. CASE IsImage(g[k])
    <3>1. I[k] = <<Shown(k)>> /\ ImageOf(Shown(k), g[k])
      BY <1>2, <1>3, <2>1
    <3>2. Shown(k) \in Children
      BY <3>1 DEF ImageOf
    <3>3. DOMAIN I[k] = {1} /\ ToSet(I[k]) = {Shown(k)} /\ I[k] \in Seq(Children)
      BY <3>1, <3>2 DEF ToSet
    <3>4. InOrder(I[k], ChildBefore)
      BY <3>3 DEF InOrder
    <3> QED  BY <3>1, <3>3, <3>4
  <2>2. CASE ~ IsImage(g[k])
    <3>1. I[k] = << >>
      BY <1>3, <2>2
    <3>2. << >> \in Seq(Children) /\ ToSet(<< >>) = {} /\ InOrder(<< >>, ChildBefore)
      BY DEF ToSet, InOrder
    <3> QED  BY <2>2, <3>1, <3>2
  <2> QED  BY <2>1, <2>2
<1>5. I \in Seq(Seq(Children)) /\ Len(I) = n
  <2>0. PICK C : C = Seq(Children)
    OBVIOUS
  <2>1. I = [k \in 1 .. n |-> I[k]]
    BY <1>0, <1>1
  <2>2. I \in [1 .. n -> C]
    BY <1>4, <2>0, <2>1
  <2>3. I \in Seq(C) /\ Len(I) = n
    BY <1>1, <2>2, IsSequence
  <2> QED  BY <2>0, <2>3
<1>7. ic \in Seq(Children) /\ ToSet(ic) = Among(I, n)
  BY <1>5, <1>6, FlattenHas
<1>8. ASSUME NEW i \in 1 .. n, NEW j \in 1 .. n, i < j, NEW c \in ToSet(I[i]), NEW d \in ToSet(I[j])
      PROVE  <<c, d>> \in ChildBefore
  <2>1. ImageOf(c, g[i]) /\ ImageOf(d, g[j])
    BY <1>4
  <2>2. g[i] < g[j]
    BY <1>1, <1>8 DEF InOrder, Less
  <2>3. PICK v, w : v = WholeBlock(g[i]) /\ w = WholeBlock(g[j])
    OBVIOUS
  <2>4. /\ v \in Piece /\ v.block = g[i] /\ <<v>> \in Spans /\ ToSet(<<v>>) = {v}
        /\ w \in Piece /\ w.block = g[j] /\ <<w>> \in Spans /\ ToSet(<<w>>) = {w}
    BY <1>1, <2>3, WholeBlockIs
  <2>5. <<v, w>> \in PieceBefore
    BY <2>2, <2>4 DEF PieceBefore
  <2>6. << <<v>>, <<w>> >> \in SpanBefore
    BY <2>4, <2>5 DEF SpanBefore
  <2>7. c \in Children /\ d \in Children /\ StandsFor(c) = <<v>> /\ StandsFor(d) = <<w>>
    BY <2>1, <2>3 DEF ImageOf
  <2> QED  BY <2>6, <2>7 DEF ChildBefore
<1>9. InOrder(ic, ChildBefore)
  <2>1. Ranked(I, n, ChildBefore)
    BY <1>4, <1>8 DEF Ranked
  <2> QED  BY <1>5, <1>6, <2>1, FlattenOrdered
<1>10. ASSUME NEW c \in ToSet(ic)
       PROVE  \E b \in ToSet(g) : ImageOf(c, b)
  <2>1. PICK k \in 1 .. n : c \in ToSet(I[k])
    BY <1>7 DEF Among
  <2>2. ImageOf(c, g[k]) /\ g[k] \in ToSet(g)
    BY <1>1, <1>4, <2>1 DEF ToSet
  <2> QED  BY <2>2
<1>11. ASSUME NEW b \in ToSet(g), IsImage(b)
       PROVE  \E c \in ToSet(ic) : ImageOf(c, b)
  <2>1. PICK k \in 1 .. n : b = g[k]
    BY <1>1 DEF ToSet
  <2>2. PICK c \in ToSet(I[k]) : ImageOf(c, b)
    BY <1>4, <1>11, <2>1
  <2>3. c \in ToSet(ic)
    BY <1>7 DEF Among
  <2> QED  BY <2>2, <2>3
<1> QED  BY <1>0, <1>7, <1>9, <1>10, <1>11

\* The earlier of two children is not of the later block.
LEMMA FirstBlocks ==
    ASSUME NEW c, NEW d, <<c, d>> \in ChildBefore
    PROVE  c.block \in Nat /\ d.block \in Nat /\ c.block <= d.block
<1>0. PICK s, t : s = StandsFor(c) /\ t = StandsFor(d)
  OBVIOUS
<1>1. /\ <<s, t>> \in SpanBefore /\ s[1].block = c.block /\ t[1].block = d.block
      /\ c \in Children /\ d \in Children
  BY <1>0 DEF ChildBefore, Children
<1>2. s \in Spans /\ t \in Spans /\ \A x \in ToSet(s), y \in ToSet(t) : <<x, y>> \in PieceBefore
  BY <1>1 DEF SpanBefore
<1>3. s[1] \in ToSet(s) /\ t[1] \in ToSet(t)
  <2>1. s \in Seq(Piece) /\ s # << >> /\ t \in Seq(Piece) /\ t # << >>
    BY <1>2 DEF Spans
  <2>2. 1 \in DOMAIN s /\ 1 \in DOMAIN t
    BY <2>1
  <2> QED  BY <2>2 DEF ToSet
<1>4. <<s[1], t[1]>> \in PieceBefore
  BY <1>2, <1>3
<1>5. s[1].block \in Nat /\ t[1].block \in Nat /\ s[1].block <= t[1].block
  BY <1>4 DEF PieceBefore, Piece
<1> QED  BY <1>1, <1>5

\* A child of text and an image are one before the other, and not of the same block.
LEMMA TextAndImage ==
    ASSUME ChunkerAssumption, ChunkerTypeOK, NEW g \in Seq(Indices), InOrder(g, Less),
           NEW c \in ToSet(TextChildren(g)), NEW d \in ToSet(ImageChildren(g))
    PROVE  (<<c, d>> \in ChildBefore \/ <<d, c>> \in ChildBefore) /\ c.block # d.block
<1>1. PICK m \in ToSet(g) : ImageOf(d, m)
  BY ImageChildrenAre
<1>2. PICK r \in ToSet(TextRuns(g)) : \A p \in ToSet(StandsFor(c)) : p.block \in ToSet(r)
  BY TextChildrenAre
<1>3. Aside(r, m)
  BY <1>1, TextRunsAre DEF ImageOf
<1>4. PICK t : t = StandsFor(c)
  OBVIOUS
<1>5. c \in Children /\ t \in Spans /\ t[1].block = c.block
  <2>1. TextChildren(g) \in Seq(Children)
    BY TextChildrenAre
  <2>2. c \in Children
    BY <2>1 DEF ToSet
  <2> QED  BY <1>4, <2>2 DEF Children
<1>6. m \in Indices /\ m \in Nat
  <2>1. m \in Indices
    BY DEF ToSet
  <2> QED  BY <2>1, BlocksAre
<1>7. PICK w : w = WholeBlock(m)
  OBVIOUS
<1>8. /\ w \in Piece /\ w.block = m /\ <<w>> \in Spans /\ ToSet(<<w>>) = {w}
      /\ d \in Children /\ StandsFor(d) = <<w>> /\ d.block = m
  BY <1>1, <1>6, <1>7, WholeBlockIs DEF ImageOf
<1>9. t[1] \in ToSet(t) /\ \A p \in ToSet(t) : p \in Piece
  <2>1. t \in Seq(Piece) /\ t # << >>
    BY <1>5 DEF Spans
  <2>2. 1 \in DOMAIN t
    BY <2>1
  <2> QED  BY <2>1, <2>2 DEF ToSet
<1>10. CASE \A x \in ToSet(r) : x < m
  <2>1. \A p \in ToSet(t) : p.block < m
    BY <1>2, <1>4, <1>10
  <2>2. \A p \in ToSet(t) : <<p, w>> \in PieceBefore
    BY <1>8, <1>9, <2>1 DEF PieceBefore
  <2>3. <<t, <<w>> >> \in SpanBefore
    BY <1>5, <1>8, <2>2 DEF SpanBefore
  <2>4. <<c, d>> \in ChildBefore
    BY <1>4, <1>5, <1>8, <2>3 DEF ChildBefore
  <2>5. t[1].block < m /\ t[1].block \in Nat
    BY <1>9, <2>1 DEF Piece
  <2> QED  BY <1>5, <1>6, <1>8, <2>4, <2>5
<1>11. CASE \A x \in ToSet(r) : m < x
  <2>1. \A p \in ToSet(t) : m < p.block
    BY <1>2, <1>4, <1>11
  <2>2. \A p \in ToSet(t) : <<w, p>> \in PieceBefore
    BY <1>8, <1>9, <2>1 DEF PieceBefore
  <2>3. << <<w>>, t>> \in SpanBefore
    BY <1>5, <1>8, <2>2 DEF SpanBefore
  <2>4. <<d, c>> \in ChildBefore
    BY <1>4, <1>5, <1>8, <2>3 DEF ChildBefore
  <2>5. m < t[1].block /\ t[1].block \in Nat
    BY <1>9, <2>1 DEF Piece
  <2> QED  BY <1>5, <1>6, <1>8, <2>4, <2>5
<1> QED  BY <1>3, <1>10, <1>11 DEF Aside

AllChildren(g) == TextChildren(g) \o ImageChildren(g)

\* Of two children one is before the other; the first one if they are of the same block.
Apart(all) ==
    \A j, k \in 1 .. Len(all) : j < k =>
        \/ <<all[j], all[k]>> \in ChildBefore
        \/ <<all[k], all[j]>> \in ChildBefore /\ all[k].block # all[j].block

\* The children that the sort of a parent is given.
LEMMA AllChildrenAre ==
    ASSUME ChunkerAssumption, ChunkerTypeOK, NEW g \in Seq(Indices), InOrder(g, Less),
           NEW all, all = AllChildren(g)
    PROVE  /\ all \in Seq(Children)
           /\ \A c \in ToSet(all) : ChildKept(c) /\ InOrder(StandsFor(c), PieceBefore)
           /\ PiecesFor(all) = UNION {PiecesOf(b) : b \in ToSet(g)}
           /\ Apart(all)
<1>0. PICK tc, ic : tc = TextChildren(g) /\ ic = ImageChildren(g)
  OBVIOUS
<1>1. /\ tc \in Seq(Children) /\ InOrder(tc, ChildBefore)
      /\ \A c \in ToSet(tc) : ChildKept(c) /\ InOrder(StandsFor(c), PieceBefore)
      /\ PiecesFor(tc) = UNION {TextOf(b) : b \in {d \in ToSet(g) : ~ IsImage(d)}}
  BY <1>0, TextChildrenAre
<1>2. /\ ic \in Seq(Children) /\ InOrder(ic, ChildBefore)
      /\ \A c \in ToSet(ic) : \E b \in ToSet(g) : ImageOf(c, b)
      /\ \A b \in ToSet(g) : IsImage(b) => \E c \in ToSet(ic) : ImageOf(c, b)
  BY <1>0, ImageChildrenAre
<1>3. all = tc \o ic
  BY <1>0 DEF AllChildren
<1>4. /\ all \in Seq(Children) /\ Len(all) = Len(tc) + Len(ic) /\ Len(tc) \in Nat /\ Len(ic) \in Nat
      /\ \A i \in 1 .. Len(tc) + Len(ic) : all[i] = IF i <= Len(tc) THEN tc[i] ELSE ic[i - Len(tc)]
  BY <1>1, <1>2, <1>3, ConcatProperties
<1>5. ToSet(all) = ToSet(tc) \cup ToSet(ic)
  BY <1>1, <1>2, <1>3, SetOfConcat
<1>6. DOMAIN tc = 1 .. Len(tc) /\ DOMAIN ic = 1 .. Len(ic)
  BY <1>1, <1>2
<1>7. ASSUME NEW c, NEW b \in ToSet(g), ImageOf(c, b)
      PROVE  ChildKept(c) /\ InOrder(StandsFor(c), PieceBefore) /\ ToSet(StandsFor(c)) = PiecesOf(b)
  <2>1. b \in Indices
    BY DEF ToSet
  <2>2. StandsFor(c) = <<WholeBlock(b)>> /\ IsImage(b) /\ ChildKept(c)
    BY <1>7 DEF ImageOf
  <2>3. PiecesOf(b) = {WholeBlock(b)}
    BY <2>2, Zenon DEF PiecesOf
  <2> QED  BY <2>1, <2>2, <2>3, WholeBlockIs
<1>8. \A c \in ToSet(all) : ChildKept(c) /\ InOrder(StandsFor(c), PieceBefore)
  <2>1. \A c \in ToSet(ic) : ChildKept(c) /\ InOrder(StandsFor(c), PieceBefore)
    BY <1>2, <1>7
  <2> QED  BY <1>1, <1>5, <2>1
<1>9. PiecesFor(all) = UNION {PiecesOf(b) : b \in ToSet(g)}
  <2>1. PiecesFor(all) = PiecesFor(tc) \cup PiecesFor(ic)
    BY <1>5 DEF PiecesFor
  <2>2. ASSUME NEW p \in PiecesFor(ic)
        PROVE  \E b \in ToSet(g) : p \in PiecesOf(b)
    <3>1. PICK c \in ToSet(ic) : p \in ToSet(StandsFor(c))
      BY DEF PiecesFor
    <3>2. PICK b \in ToSet(g) : ImageOf(c, b)
      BY <1>2
    <3>3. ToSet(StandsFor(c)) = PiecesOf(b)
      BY <1>7, <3>2
    <3> QED  BY <3>1, <3>3
  <2>3. ASSUME NEW p \in PiecesFor(all)
        PROVE  \E b \in ToSet(g) : p \in PiecesOf(b)
    <3>1. CASE p \in PiecesFor(tc)
      <4>1. PICK b \in ToSet(g) : ~ IsImage(b) /\ p \in TextOf(b)
        BY <1>1, <3>1
      <4>2. PiecesOf(b) = TextOf(b)
        BY <4>1, Zenon DEF PiecesOf
      <4> QED  BY <4>1, <4>2
    <3> QED  BY <2>1, <2>2, <3>1
  <2>4. ASSUME NEW b \in ToSet(g), NEW p \in PiecesOf(b)
        PROVE  p \in PiecesFor(all)
    <3>1. CASE IsImage(b)
      <4>1. PICK c \in ToSet(ic) : ImageOf(c, b)
        BY <1>2, <3>1
      <4>2. ToSet(StandsFor(c)) = PiecesOf(b)
        BY <1>7, <4>1
      <4>3. p \in PiecesFor(ic)
        BY <4>2 DEF PiecesFor
      <4> QED  BY <2>1, <4>3
    <3>2. CASE ~ IsImage(b)
      <4>1. p \in TextOf(b)
        BY <3>2, Zenon DEF PiecesOf
      <4>2. p \in PiecesFor(tc)
        BY <1>1, <3>2, <4>1
      <4> QED  BY <2>1, <4>2
    <3> QED  BY <3>1, <3>2
  <2> QED  BY <2>3, <2>4
<1>10. ASSUME NEW j \in 1 .. Len(all), NEW k \in 1 .. Len(all), j < k
       PROVE  \/ <<all[j], all[k]>> \in ChildBefore
              \/ <<all[k], all[j]>> \in ChildBefore /\ all[k].block # all[j].block
  <2>1. CASE k <= Len(tc)
    <3>1. j \in DOMAIN tc /\ k \in DOMAIN tc /\ all[j] = tc[j] /\ all[k] = tc[k]
      BY <1>4, <1>6, <1>10, <2>1
    <3> QED  BY <1>1, <1>10, <3>1 DEF InOrder
  <2>2. CASE Len(tc) < j
    <3>0. PICK x, y : x = j - Len(tc) /\ y = k - Len(tc)
      OBVIOUS
    <3>1. x \in DOMAIN ic /\ y \in DOMAIN ic /\ x < y
      BY <1>4, <1>6, <1>10, <2>2, <3>0
    <3>2. all[j] = ic[x] /\ all[k] = ic[y]
      BY <1>4, <1>10, <2>2, <3>0, SMTT(30)
    <3> QED  BY <1>2, <3>1, <3>2 DEF InOrder
  <2>3. CASE j <= Len(tc) /\ Len(tc) < k
    <3>1. j \in DOMAIN tc /\ k - Len(tc) \in DOMAIN ic
      BY <1>4, <1>6, <1>10, <2>3
    <3>2. all[j] = tc[j] /\ all[k] = ic[k - Len(tc)]
      BY <1>4, <2>3, SMTT(30)
    <3>3. all[j] \in ToSet(tc) /\ all[k] \in ToSet(ic)
      BY <3>1, <3>2 DEF ToSet
    <3> QED  BY <1>0, <3>3, TextAndImage
  <2> QED  BY <1>4, <2>1, <2>2, <2>3
<1>11. Apart(all)
  BY <1>10 DEF Apart
<1> QED  BY <1>4, <1>8, <1>9, <1>11

\* The order of the sort: by the first blocks, and stable.
SortsBefore(all) ==
    {pair \in (1 .. Len(all)) \X (1 .. Len(all)) :
        \/ all[pair[1]].block < all[pair[2]].block
        \/ all[pair[1]].block = all[pair[2]].block /\ pair[1] < pair[2]}

\* That is a strict order of all children.
LEMMA SortOrders ==
    ASSUME NEW all \in Seq(Children)
    PROVE  Orders(SortsBefore(all), Len(all)) /\ \A k \in 1 .. Len(all) : all[k].block \in Nat
<1>0. PICK n, f, B : n = Len(all) /\ f = [k \in 1 .. n |-> all[k].block] /\ B = SortsBefore(all)
  OBVIOUS
<1>1. n \in Nat /\ \A k \in 1 .. n : f[k] = all[k].block
  BY <1>0
<1>2. \A k \in 1 .. n : f[k] \in Nat
  <2>1. ASSUME NEW k \in 1 .. n
        PROVE  f[k] \in Nat
    <3>1. all[k] \in Children
      BY <1>0
    <3>2. all[k].block \in Nat
      BY <3>1 DEF Children
    <3> QED  BY <1>1, <3>2
  <2> QED  BY <2>1
<1>3. \A j, k \in 1 .. n : <<j, k>> \in B <=> f[j] < f[k] \/ (f[j] = f[k] /\ j < k)
  BY <1>0, <1>1 DEF SortsBefore
<1>4. \A i \in 1 .. n : <<i, i>> \notin B
  BY <1>1, <1>2, <1>3
<1>5. ASSUME NEW i \in 1 .. n, NEW j \in 1 .. n, NEW k \in 1 .. n, <<i, j>> \in B, <<j, k>> \in B
      PROVE  <<i, k>> \in B
  <2>1. f[i] \in Nat /\ f[j] \in Nat /\ f[k] \in Nat
    BY <1>2
  <2>2. f[i] < f[j] \/ (f[i] = f[j] /\ i < j)
    BY <1>3, <1>5
  <2>3. f[j] < f[k] \/ (f[j] = f[k] /\ j < k)
    BY <1>3, <1>5
  <2>4. f[i] < f[k] \/ (f[i] = f[k] /\ i < k)
    BY <2>1, <2>2, <2>3
  <2> QED  BY <1>3, <2>4
<1>6. \A i, j \in 1 .. n : i = j \/ <<i, j>> \in B \/ <<j, i>> \in B
  <2>1. ASSUME NEW i \in 1 .. n, NEW j \in 1 .. n
        PROVE  i = j \/ <<i, j>> \in B \/ <<j, i>> \in B
    <3>1. i \in Nat /\ j \in Nat /\ f[i] \in Nat /\ f[j] \in Nat
      BY <1>1, <1>2
    <3>2. i = j \/ f[i] < f[j] \/ f[j] < f[i] \/ (f[i] = f[j] /\ i < j) \/ (f[j] = f[i] /\ j < i)
      BY <3>1
    <3> QED  BY <1>3, <3>2
  <2> QED  BY <2>1
<1>7. Orders(B, n)
  BY <1>4, <1>5, <1>6 DEF Orders
<1> QED  BY <1>0, <1>1, <1>2, <1>7

\* The sort of a parent's children puts each of them at its place.
AllTaken(B, n) == \A p \in 1 .. n : \E k \in 1 .. n : PlaceIn(B, n, k) = p

\* Every one of the n members of all is at its place in s.
Arranged(s, all, B, n) ==
    \E K : /\ s = [p \in 1 .. n |-> all[K[p]]]
          /\ \A p \in 1 .. n : K[p] \in 1 .. n /\ PlaceIn(B, n, K[p]) = p

\* Where every place is taken, the sort is an arrangement of all the children.
LEMMA SortIs ==
    ASSUME NEW g, NEW all \in Seq(Children), all = AllChildren(g), NEW n, n = Len(all),
           NEW B, B = SortsBefore(all),
           AllTaken(B, n)
    PROVE  Arranged(OrderedChildren(g), all, B, n)
<1> DEFINE Before(j, k) == \/ all[j].block < all[k].block
                           \/ all[j].block = all[k].block /\ j < k
           Nth(k) == 1 + Cardinality({j \in DOMAIN all : Before(j, k)})
           K == [p \in DOMAIN all |-> CHOOSE k \in DOMAIN all : Nth(k) = p]
<1>1. DOMAIN all = 1 .. n
  OBVIOUS
<1>2. OrderedChildren(g) = [p \in DOMAIN all |-> all[CHOOSE k \in DOMAIN all : Nth(k) = p]]
  <2>1. OrderedChildren(g) = SortByBlock(all)
    BY DEF OrderedChildren, AllChildren
  <2> QED  BY <2>1 DEF SortByBlock
<1>3. ASSUME NEW k \in 1 .. n
      PROVE  Nth(k) = PlaceIn(B, n, k)
  <2>1. \A j \in 1 .. n : Before(j, k) <=> <<j, k>> \in B
    BY DEF SortsBefore
  <2>2. {j \in DOMAIN all : Before(j, k)} = {j \in 1 .. n : <<j, k>> \in B}
    <3> HIDE DEF Before
    <3> QED  BY <1>1, <2>1
  <2> HIDE DEF Before
  <2> QED  BY <2>2, Zenon DEF PlaceIn
<1> HIDE DEF Nth
<1>4. \A p \in 1 .. n : \E k \in DOMAIN all : Nth(k) = p
  BY <1>1, <1>3, SMTT(30) DEF AllTaken
<1>5. \A p \in 1 .. n : K[p] \in DOMAIN all /\ Nth(K[p]) = p
  BY <1>1, <1>4, SMTT(30)
<1>6. OrderedChildren(g) = [p \in DOMAIN all |-> all[K[p]]]
  BY <1>2
<1>7. OrderedChildren(g) = [p \in 1 .. n |-> all[K[p]]]
  BY <1>1, <1>6, Zenon
<1>8. \A p \in 1 .. n : K[p] \in 1 .. n /\ PlaceIn(B, n, K[p]) = p
  BY <1>1, <1>3, <1>5
<1> HIDE DEF K
<1> QED  BY <1>7, <1>8, Zenon DEF Arranged

\* The children of a parent are in order and hold the pieces of its blocks.
LEMMA OrderedChildrenAre ==
    ASSUME ChunkerAssumption, ChunkerTypeOK, NEW g \in Seq(Indices), InOrder(g, Less)
    PROVE  /\ OrderedChildren(g) \in Seq(Children)
           /\ InOrder(OrderedChildren(g), ChildBefore)
           /\ \A c \in ToSet(OrderedChildren(g)) : ChildKept(c) /\ InOrder(StandsFor(c), PieceBefore)
           /\ PiecesFor(OrderedChildren(g)) = UNION {PiecesOf(b) : b \in ToSet(g)}
<1>0. PICK all, n, B, oc : /\ all = AllChildren(g) /\ n = Len(all) /\ B = SortsBefore(all)
                           /\ oc = OrderedChildren(g)
  OBVIOUS
<1>1. /\ all \in Seq(Children) /\ n \in Nat /\ DOMAIN all = 1 .. n
      /\ \A c \in ToSet(all) : ChildKept(c) /\ InOrder(StandsFor(c), PieceBefore)
      /\ PiecesFor(all) = UNION {PiecesOf(b) : b \in ToSet(g)}
  BY <1>0, AllChildrenAre
<1>2. \A j, k \in 1 .. n : j < k =>
        \/ <<all[j], all[k]>> \in ChildBefore
        \/ <<all[k], all[j]>> \in ChildBefore /\ all[k].block # all[j].block
  <2>1. Apart(all)
    BY <1>0, AllChildrenAre
  <2> QED  BY <1>0, <2>1 DEF Apart
<1>3. Orders(B, n) /\ \A k \in 1 .. n : all[k].block \in Nat
  BY <1>0, <1>1, SortOrders
<1>4. /\ \A k \in 1 .. n : PlaceIn(B, n, k) \in 1 .. n
      /\ \A p \in 1 .. n : \E k \in 1 .. n : PlaceIn(B, n, k) = p
      /\ \A j, k \in 1 .. n : PlaceIn(B, n, j) < PlaceIn(B, n, k) => <<j, k>> \in B
      /\ \A j, k \in 1 .. n : PlaceIn(B, n, j) = PlaceIn(B, n, k) => j = k
  BY <1>1, <1>3, PlacesTaken
<1>14. Arranged(oc, all, B, n)
  <2>1. AllTaken(B, n)
    BY <1>4 DEF AllTaken
  <2> QED  BY <1>0, <1>1, <2>1, SortIs
<1>9. PICK K : /\ oc = [p \in 1 .. n |-> all[K[p]]]
               /\ \A p \in 1 .. n : K[p] \in 1 .. n /\ PlaceIn(B, n, K[p]) = p
  BY <1>14 DEF Arranged
<1>5. \A p \in 1 .. n : K[p] \in 1 .. n /\ PlaceIn(B, n, K[p]) = p
  BY <1>9
<1>7. \A p \in 1 .. n : oc[p] = all[K[p]]
  BY <1>9
<1>8. ASSUME NEW j \in 1 .. n, NEW k \in 1 .. n, <<j, k>> \in B
      PROVE  <<all[j], all[k]>> \in ChildBefore
  <2>1. all[j].block < all[k].block \/ (all[j].block = all[k].block /\ j < k)
    BY <1>0, <1>8 DEF SortsBefore
  <2>2. <<all[k], all[j]>> \in ChildBefore => all[k].block <= all[j].block
    BY FirstBlocks
  <2>3. j # k
    BY <1>3, <1>8 DEF Orders
  <2>4. CASE j < k
    <3>1. \/ <<all[j], all[k]>> \in ChildBefore
          \/ <<all[k], all[j]>> \in ChildBefore /\ all[k].block # all[j].block
      BY <1>2, <2>4
    <3> QED  BY <1>3, <2>1, <2>2, <3>1
  <2>5. CASE k < j
    <3>1. \/ <<all[k], all[j]>> \in ChildBefore
          \/ <<all[j], all[k]>> \in ChildBefore
      BY <1>2, <2>5
    <3> QED  BY <1>1, <1>3, <2>1, <2>2, <2>5, <3>1
  <2> QED  BY <1>1, <2>3, <2>4, <2>5
<1>13. oc \in Seq(Children) /\ DOMAIN oc = 1 .. n
  <2>1. \A p \in 1 .. n : oc[p] \in Children
    BY <1>1, <1>5, <1>7
  <2> QED  BY <1>1, <1>9, <1>5, <2>1
<1>10. InOrder(oc, ChildBefore)
  <2>1. ASSUME NEW p \in 1 .. n, NEW q \in 1 .. n, p < q
        PROVE  <<oc[p], oc[q]>> \in ChildBefore
    <3>1. PlaceIn(B, n, K[p]) < PlaceIn(B, n, K[q])
      BY <1>5, <2>1
    <3>2. <<K[p], K[q]>> \in B
      BY <1>4, <1>5, <1>7, <3>1
    <3> QED  BY <1>5, <1>7, <1>8, <3>2
  <2> QED  BY <1>13, <2>1 DEF InOrder
<1>11. ToSet(oc) = ToSet(all)
  <2>1. \A p \in 1 .. n : oc[p] \in ToSet(all)
    BY <1>1, <1>5, <1>7 DEF ToSet
  <2>2. \A k \in 1 .. n : all[k] \in ToSet(oc)
    <3>1. ASSUME NEW k \in 1 .. n
          PROVE  all[k] \in ToSet(oc)
      <4>1. PICK p \in 1 .. n : p = PlaceIn(B, n, k)
        BY <1>4
      <4>2. K[p] = k
        BY <1>4, <1>5, <1>7, <4>1
      <4> QED  BY <1>7, <1>13, <4>2 DEF ToSet
    <3> QED  BY <3>1
  <2> QED  BY <1>1, <1>13, <2>1, <2>2 DEF ToSet
<1>12. /\ \A c \in ToSet(oc) : ChildKept(c) /\ InOrder(StandsFor(c), PieceBefore)
       /\ PiecesFor(oc) = UNION {PiecesOf(b) : b \in ToSet(g)}
  BY <1>1, <1>11 DEF PiecesFor
<1> QED  BY <1>0, <1>13, <1>10, <1>12

-----------------------------------------------------------------------------
(* chunkBlocks: the groups of the document.                                *)

\* The blocks by their numbers are in order.
LEMMA BlocksInOrder ==
    ASSUME ChunkerTypeOK, NEW seq, seq = [b \in Indices |-> b]
    PROVE  seq \in Seq(Indices) /\ InOrder(seq, Less) /\ ToSet(seq) = Indices
<1>0. PICK n : n = Len(blocks)
  OBVIOUS
<1>1. n \in Nat /\ Indices = 1 .. n
  BY <1>0, BlocksAre
<1>2. seq = [b \in 1 .. n |-> b] /\ DOMAIN seq = 1 .. n
  BY <1>1
<1>3. seq \in Seq(1 .. n)
  BY <1>1, <1>2
<1>4. InOrder(seq, Less)
  BY <1>1, <1>2 DEF InOrder, Less
<1>5. ToSet(seq) = 1 .. n
  BY <1>2 DEF ToSet
<1> QED  BY <1>1, <1>3, <1>4, <1>5

\* The groups are the blocks in their order.
LEMMA GroupsAre ==
    ASSUME ChunkerTypeOK
    PROVE  /\ Groups \in Seq(Runs)
           /\ FlattenSeq(Groups) = [b \in Indices |-> b]
<1>0. PICK B, Q, A, seq : /\ B = Indices /\ Q = Runs /\ A = Gathers(Runs)
                          /\ seq = [b \in Indices |-> b]
  OBVIOUS
<1>1. seq \in Seq(B)
  BY <1>0, BlocksInOrder
<1>2. Parts(Q, B)
  BY <1>0 DEF Parts, Runs
<1>3. ASSUME NEW acc \in A, NEW b \in B
      PROVE  /\ Adds(acc, b, AddToGroup(acc, b)) /\ AddToGroup(acc, b).open \in Q
             /\ AddToGroup(acc, b) \in A
  <2>0. PICK next : next = AddToGroup(acc, b)
    OBVIOUS
  <2>1. PICK base \in {acc, Flush(acc)} : next = [base EXCEPT !.open = Append(@, b)]
    BY <2>0 DEF AddToGroup
  <2>2. acc \in Gathers(Q)
    BY <1>0
  <2>3. base \in Gathers(Q)
    BY <1>2, <2>1, <2>2, FlushKeeps
  <2>4. base.open \in Seq(B)
    BY <1>2, <2>3, HeldIs
  <2>5. next.open = Append(base.open, b)
    BY <2>1, <2>3 DEF Gathers
  <2>6. next.open \in Q
    <3>1. Append(base.open, b) \in Seq(B) /\ Append(base.open, b) # << >>
      BY <2>4, AppendProperties
    <3> QED  BY <1>0, <2>5, <3>1 DEF Runs
  <2>7. Adds(acc, b, next)
    BY <2>1 DEF Adds
  <2>8. next \in Gathers(Q)
    BY <1>2, <2>2, <2>6, <2>7, AddsOne
  <2> QED  BY <1>0, <2>0, <2>6, <2>7, <2>8
<1>4. Nothing \in A
  BY <1>0, NothingHeld
<1>5. \A acc \in A, b \in B : AddToGroup(acc, b) \in A
  BY <1>3
<1>6. PICK h \in [0 .. Len(seq) -> A] :
          /\ h[0] = Nothing
          /\ \A i \in 1 .. Len(seq) : h[i] = AddToGroup(h[i - 1], seq[i])
          /\ FoldLeft(AddToGroup, Nothing, seq) = h[Len(seq)]
  BY <1>1, <1>4, <1>5, BlocksFold
<1>7. ASSUME NEW i \in 1 .. Len(seq)
      PROVE  Adds(h[i - 1], seq[i], h[i]) /\ h[i].open \in Q
  <2>1. h[i - 1] \in A /\ seq[i] \in B
    BY <1>1
  <2>2. h[i] = AddToGroup(h[i - 1], seq[i])
    BY <1>6
  <2> QED  BY <1>3, <2>1, <2>2
<1>8. h \in [0 .. Len(seq) -> Gathers(Q)]
  BY <1>0
<1>9. Flush(h[Len(seq)]).done \in Seq(Q) /\ FlattenSeq(Flush(h[Len(seq)]).done) = seq
  <2>1. GoesThrough(h, seq, B, Q)
    BY <1>1, <1>6, <1>7, <1>8 DEF GoesThrough
  <2> QED  BY <1>2, <2>1, LoopGathers
<1>10. Groups = Flush(h[Len(seq)]).done
  BY <1>0, <1>6 DEF Groups
<1> QED  BY <1>0, <1>9, <1>10

\* A document without blocks is the one of length 0.
LEMMA NoBlocks ==
    ASSUME ChunkerAssumption, ChunkerTypeOK
    PROVE  blocks = << >> <=> Len(blocks) = 0
<1>1. PICK m \in 0 .. MaxBlocks : blocks \in [1 .. m -> Blocks]
  BY DEF ChunkerAssumption, ChunkerTypeOK, BoundedSeq, SeqOf
<1>2. blocks \in Seq(Blocks)
  BY <1>1 DEF ChunkerAssumption
<1> QED  BY <1>2, EmptySeq

\* A piece of a block's children is of that block.
LEMMA PieceOfBlock ==
    ASSUME ChunkerTypeOK, NEW b \in Indices, NEW p \in PiecesOf(b)
    PROVE  p \in Piece /\ p.block = b
<1>1. b \in Nat /\ blocks[b].len \in Nat
  BY BlocksAre
<1>2. CASE IsImage(b)
  <2>1. p = WholeBlock(b)
    BY <1>2 DEF PiecesOf
  <2> QED  BY <1>1, <2>1 DEF WholeBlock, Piece
<1>3. CASE ~ IsImage(b)
  <2>1. p \in TextOf(b)
    BY <1>3 DEF PiecesOf
  <2> QED  BY <2>1, PieceOf
<1> QED  BY <1>2, <1>3

\* The children of a document are in order and hold the pieces of its blocks.
LEMMA DocumentChildren ==
    ASSUME ChunkerAssumption, ChunkerTypeOK, NEW cs, cs = FlattenSeq(ChunkBlocks)
    PROVE  /\ cs \in Seq(Children)
           /\ InOrder(cs, ChildBefore)
           /\ \A c \in ToSet(cs) : ChildKept(c) /\ InOrder(StandsFor(c), PieceBefore)
           /\ PiecesFor(cs) = UNION {PiecesOf(b) : b \in Indices}
<1>0. PICK gs, n, B, S : gs = Groups /\ n = Len(gs) /\ B = Indices /\ S = ChunkBlocks
  OBVIOUS
<1>1. gs \in Seq(Runs) /\ FlattenSeq(gs) = [b \in Indices |-> b]
  BY <1>0, GroupsAre
<1>2. /\ gs \in Seq(Seq(B)) /\ n \in Nat /\ DOMAIN gs = 1 .. n
      /\ \A k \in 1 .. n : gs[k] \in Seq(B)
  <2>1. Runs \subseteq Seq(B)
    BY <1>0 DEF Runs
  <2> QED  BY <1>0, <1>1, <2>1
<1>3. Ranked(gs, n, Less) /\ Among(gs, n) = B
  <2>1. InOrder(FlattenSeq(gs), Less) /\ ToSet(FlattenSeq(gs)) = B
    BY <1>0, <1>1, BlocksInOrder
  <2> QED  BY <1>0, <1>2, <2>1, FlattenOrdered, FlattenHas
<1>4. ASSUME NEW k \in 1 .. n
      PROVE  /\ S[k] \in Seq(Children) /\ InOrder(S[k], ChildBefore)
             /\ \A c \in ToSet(S[k]) : ChildKept(c) /\ InOrder(StandsFor(c), PieceBefore)
             /\ PiecesFor(S[k]) = UNION {PiecesOf(b) : b \in ToSet(gs[k])}
  <2>1. gs[k] \in Seq(Indices) /\ InOrder(gs[k], Less)
    BY <1>0, <1>2, <1>3 DEF Ranked
  <2>2. S[k] = OrderedChildren(gs[k])
    BY <1>0, <1>2 DEF ChunkBlocks
  <2> QED  BY <2>1, <2>2, OrderedChildrenAre
<1>5. S \in Seq(Seq(Children)) /\ Len(S) = n
  <2>0. PICK C : C = Seq(Children)
    OBVIOUS
  <2>1. S = [k \in 1 .. n |-> S[k]]
    BY <1>0, <1>2 DEF ChunkBlocks
  <2>2. S \in [1 .. n -> C]
    BY <1>4, <2>0, <2>1
  <2>3. S \in Seq(C) /\ Len(S) = n
    BY <1>2, <2>2
  <2> QED  BY <2>0, <2>3
<1>6. cs \in Seq(Children) /\ ToSet(cs) = Among(S, n)
  BY <1>0, <1>5, FlattenHas
<1>7. \A c \in ToSet(cs) : \E k \in 1 .. n : c \in ToSet(S[k])
  BY <1>6 DEF Among
<1>8. ASSUME NEW k \in 1 .. n, NEW c \in ToSet(S[k])
      PROVE  /\ c \in Children
             /\ \A p \in ToSet(StandsFor(c)) : p \in Piece /\ p.block \in ToSet(gs[k])
  <2>1. c \in Children
    <3>1. S[k] \in Seq(Children) /\ DOMAIN S[k] = 1 .. Len(S[k])
      BY <1>4
    <3> QED  BY <3>1 DEF ToSet
  <2>2. ASSUME NEW p \in ToSet(StandsFor(c))
        PROVE  p \in Piece /\ p.block \in ToSet(gs[k])
    <3>1. p \in PiecesFor(S[k])
      BY DEF PiecesFor
    <3>2. p \in UNION {PiecesOf(b) : b \in ToSet(gs[k])}
      BY <1>4, <3>1, Zenon
    <3>3. PICK b \in ToSet(gs[k]) : p \in PiecesOf(b)
      BY <3>2
    <3>4. b \in Indices
      <4>1. gs[k] \in Seq(B) /\ DOMAIN gs[k] = 1 .. Len(gs[k])
        BY <1>2
      <4> QED  BY <1>0, <4>1 DEF ToSet
    <3> QED  BY <3>3, <3>4, PieceOfBlock
  <2> QED  BY <2>1, <2>2
<1>9. ASSUME NEW i \in 1 .. n, NEW j \in 1 .. n, i < j, NEW c \in ToSet(S[i]), NEW d \in ToSet(S[j])
      PROVE  <<c, d>> \in ChildBefore
  <2>0. PICK s, t : s = StandsFor(c) /\ t = StandsFor(d)
    OBVIOUS
  <2>1. c \in Children /\ d \in Children /\ s \in Spans /\ t \in Spans
    BY <1>8, <2>0 DEF Children
  <2>2. ASSUME NEW x \in ToSet(s), NEW y \in ToSet(t)
        PROVE  <<x, y>> \in PieceBefore
    <3>1. x \in Piece /\ y \in Piece /\ x.block \in ToSet(gs[i]) /\ y.block \in ToSet(gs[j])
      BY <1>8, <2>0
    <3>2. <<x.block, y.block>> \in Less
      BY <1>3, <1>9, <3>1 DEF Ranked
    <3>3. x.block < y.block
      BY <3>2 DEF Less
    <3> QED  BY <3>1, <3>3 DEF PieceBefore
  <2>3. <<s, t>> \in SpanBefore
    BY <2>1, <2>2 DEF SpanBefore
  <2> QED  BY <2>0, <2>1, <2>3 DEF ChildBefore
<1>10. InOrder(cs, ChildBefore)
  <2>1. Ranked(S, n, ChildBefore)
    BY <1>4, <1>9 DEF Ranked
  <2> QED  BY <1>0, <1>5, <2>1, FlattenOrdered
<1>11. \A c \in ToSet(cs) : ChildKept(c) /\ InOrder(StandsFor(c), PieceBefore)
  BY <1>4, <1>7
<1>12. PiecesFor(cs) = UNION {PiecesOf(b) : b \in Indices}
  <2>1. PiecesFor(cs) = UNION {PiecesFor(S[k]) : k \in 1 .. n}
    BY <1>6 DEF PiecesFor, Among
  <2>2. UNION {PiecesFor(S[k]) : k \in 1 .. n}
          = UNION {UNION {PiecesOf(b) : b \in ToSet(gs[k])} : k \in 1 .. n}
    BY <1>4
  <2>3. UNION {UNION {PiecesOf(b) : b \in ToSet(gs[k])} : k \in 1 .. n}
          = UNION {PiecesOf(b) : b \in Among(gs, n)}
    BY DEF Among
  <2> QED  BY <1>0, <1>3, <2>1, <2>2, <2>3
<1> QED  BY <1>6, <1>10, <1>11, <1>12

\* Where every block of text splits, the children of the document are the document.
LEMMA ChildrenKeepText ==
    ASSUME ChunkerAssumption, ChunkerTypeOK, \A b \in Indices : IsImage(b) \/ Splits(b),
           NEW cs, cs = FlattenSeq(ChunkBlocks),
           NEW stands, stands = [k \in DOMAIN cs |-> StandsFor(cs[k])]
    PROVE  /\ AreDocument(FlattenSeq(stands), [b \in Indices |-> blocks[b].len])
           /\ \A k \in DOMAIN cs : ChildKept(cs[k])
<1>1. /\ cs \in Seq(Children) /\ InOrder(cs, ChildBefore)
      /\ \A c \in ToSet(cs) : ChildKept(c) /\ InOrder(StandsFor(c), PieceBefore)
      /\ PiecesFor(cs) = UNION {PiecesOf(b) : b \in Indices}
  BY DocumentChildren
<1>2. PICK ps, n, P, end : /\ ps = FlattenSeq(stands) /\ n = Len(blocks)
                           /\ P = [b \in Indices |-> PiecesOf(b)]
                           /\ end = [b \in Indices |-> blocks[b].len]
  OBVIOUS
<1>8. /\ stands \in Seq(Spans) /\ InOrder(stands, SpanBefore)
      /\ \A s \in ToSet(stands) : InOrder(s, PieceBefore)
      /\ PiecesIn(stands) = PiecesFor(cs)
  <2>1. PICK m : m = Len(cs)
    OBVIOUS
  <2>2. m \in Nat /\ DOMAIN cs = 1 .. m /\ \A k \in 1 .. m : cs[k] \in Children /\ cs[k] \in ToSet(cs)
    BY <1>1, <2>1 DEF ToSet
  <2>3. stands = [k \in 1 .. m |-> StandsFor(cs[k])] /\ DOMAIN stands = 1 .. m
    BY <2>2
  <2>4. \A k \in 1 .. m : stands[k] = StandsFor(cs[k]) /\ stands[k] \in Spans
    BY <2>2, <2>3 DEF Children
  <2>5. stands \in Seq(Spans)
    <3>1. stands \in [1 .. m -> Spans]
      BY <2>3, <2>4
    <3> QED  BY <2>2, <3>1, IsSequence
  <2>6. \A i, j \in 1 .. m : i < j => <<stands[i], stands[j]>> \in SpanBefore
    <3>1. \A i, j \in 1 .. m : i < j => <<cs[i], cs[j]>> \in ChildBefore
      BY <1>1, <2>2 DEF InOrder
    <3> QED  BY <2>4, <3>1 DEF ChildBefore
  <2>7. InOrder(stands, SpanBefore)
    BY <2>3, <2>6 DEF InOrder
  <2>8. ToSet(stands) = {StandsFor(cs[k]) : k \in 1 .. m} /\ ToSet(cs) = {cs[k] : k \in 1 .. m}
    BY <2>2, <2>3, <2>4 DEF ToSet
  <2>9. \A s \in ToSet(stands) : InOrder(s, PieceBefore)
    BY <1>1, <2>8
  <2>10. {ToSet(s) : s \in ToSet(stands)} = {ToSet(StandsFor(c)) : c \in ToSet(cs)}
    BY <2>8
  <2>11. PiecesIn(stands) = PiecesFor(cs)
    BY <2>10 DEF PiecesIn, PiecesFor
  <2> QED  BY <2>5, <2>7, <2>9, <2>11
<1>3. ps \in Seq(Piece) /\ InOrder(ps, PieceBefore) /\ ToSet(ps) = PiecesIn(stands)
  BY <1>2, <1>8, SpansInOrder
<1>4. n \in Nat /\ Indices = 1 .. n /\ \A b \in 1 .. n : blocks[b].len \in Nat
  BY <1>2, BlocksAre
<1>5. \A b \in 1 .. n : P[b] = PiecesOf(b) /\ end[b] = blocks[b].len
  BY <1>2, <1>4
<1>6. ASSUME NEW b \in 1 .. n
      PROVE  Covers(P[b], b, end[b])
  <2>1. CASE IsImage(b)
    <3>1. P[b] = {WholeBlock(b)}
      BY <1>5, <2>1 DEF PiecesOf
    <3>2. Covers({WholeBlock(b)}, b, blocks[b].len)
      BY <1>4, ImageCovers
    <3> QED  BY <1>5, <3>1, <3>2, Zenon
  <2>2. CASE ~ IsImage(b)
    <3>1. P[b] = ToSet(SplitLongText(b))
      BY <1>5, <2>2 DEF PiecesOf, TextOf
    <3>2. Splits(b)
      BY <1>4, <2>2
    <3> QED  BY <1>4, <1>5, <3>1, <3>2, CutCovers
  <2> QED  BY <2>1, <2>2
<1>7. ToSet(ps) = UNION {P[b] : b \in 1 .. n}
  <2>1. UNION {P[b] : b \in 1 .. n} = UNION {PiecesOf(b) : b \in 1 .. n}
    BY <1>5
  <2> QED  BY <1>1, <1>3, <1>4, <1>8, <2>1
<1>9. AreDocument(ps, end)
  <2>1. Len(blocks) \in Nat /\ (blocks = << >> <=> Len(blocks) = 0)
    BY <1>2, <1>4, NoBlocks
  <2>2. \A b \in 1 .. Len(blocks) : end[b] \in Nat
    BY <1>2, <1>4, <1>5
  <2>3. ToSet(ps) = UNION {P[b] : b \in 1 .. Len(blocks)}
    BY <1>2, <1>7, Zenon
  <2>4. \A b \in 1 .. Len(blocks) : Covers(P[b], b, end[b])
    BY <1>2, <1>6
  <2> QED  BY <1>3, <2>1, <2>2, <2>3, <2>4, CoveredDocument
<1>10. \A k \in DOMAIN cs : ChildKept(cs[k])
  BY <1>1 DEF ToSet
<1> QED  BY <1>2, <1>9, <1>10

-----------------------------------------------------------------------------
(* split and mergeSmall: a plain document.                                 *)

\* A paragraph ends in its block, at MaxChunk if it is longer.
LEMMA ParagraphIs ==
    ASSUME ChunkerAssumption, ChunkerTypeOK, NEW b \in Indices
    PROVE  /\ Paragraph(b) \in Piece /\ Paragraph(b).block = b
           /\ Min({blocks[b].len, MaxChunk}) \in Nat
           /\ Covers({Paragraph(b)}, b, Min({blocks[b].len, MaxChunk}))
<1>0. PICK n, e : n = blocks[b].len /\ e = ParagraphEnd(b)
  OBVIOUS
<1>1. b \in Nat /\ n \in Nat \ {0} /\ MaxChunk \in Nat \ {0}
  <2>1. b \in Nat /\ n \in Nat \ {0}
    BY <1>0, BlocksAre
  <2> QED  BY <2>1, ChunkerAssumption DEF ChunkerAssumption
<1>2. e = IF n > MaxChunk THEN MaxChunk ELSE n
  BY <1>0 DEF ParagraphEnd
<1>3. e \in Nat \ {0} /\ Min({n, MaxChunk}) = e
  BY <1>1, <1>2, MinOfTwo
<1>4. PICK p : p = Paragraph(b)
  OBVIOUS
<1>5. p = [block |-> b, from |-> 0, to |-> e]
  BY <1>0, <1>4 DEF Paragraph
<1>6. p \in Piece /\ p.block = b /\ p.from = 0 /\ p.to = e
  BY <1>1, <1>3, <1>5 DEF Piece
<1>7. Covers({p}, b, e)
  BY <1>3, <1>6 DEF Covers
<1> QED  BY <1>0, <1>3, <1>4, <1>6, <1>7

\* The chunks of split hold the paragraphs in their order.
LEMMA ChunksAre ==
    ASSUME ChunkerAssumption, ChunkerTypeOK, NEW chunks,
           chunks = Flush(FoldLeft(AddParagraph, Nothing, [b \in Indices |-> b])).done
    PROVE  chunks \in Seq(Spans) /\ FlattenSeq(chunks) = [b \in Indices |-> Paragraph(b)]
<1>0. PICK B, Q, A, seq, n : /\ B = Indices /\ Q = Spans /\ A = Gathers(Spans)
                             /\ seq = [b \in Indices |-> b] /\ n = Len(blocks)
  OBVIOUS
<1>1. seq \in Seq(B) /\ n \in Nat /\ B = 1 .. n /\ Len(seq) = n /\ \A i \in 1 .. n : seq[i] = i
  <2>1. seq \in Seq(B) /\ n \in Nat /\ Indices = 1 .. n
    BY <1>0, BlocksInOrder, BlocksAre
  <2>2. DOMAIN seq = 1 .. n
    BY <1>0, <2>1
  <2> QED  BY <1>0, <2>1, <2>2
<1>2. Parts(Q, Piece)
  BY <1>0 DEF Parts, Spans
<1>3. ASSUME NEW acc \in A, NEW b \in B
      PROVE  /\ Adds(acc, Paragraph(b), AddParagraph(acc, b)) /\ AddParagraph(acc, b).open \in Q
             /\ AddParagraph(acc, b) \in A
  <2>0. PICK next, p : next = AddParagraph(acc, b) /\ p = Paragraph(b)
    OBVIOUS
  <2>1. PICK base \in {acc, Flush(acc)} : next = [base EXCEPT !.open = Append(@, p)]
    BY <2>0 DEF AddParagraph
  <2>2. acc \in Gathers(Q) /\ p \in Piece
    BY <1>0, <2>0, ParagraphIs
  <2>3. base \in Gathers(Q)
    BY <1>2, <2>1, <2>2, FlushKeeps
  <2>4. base.open \in Seq(Piece)
    BY <1>2, <2>3, HeldIs
  <2>5. next.open = Append(base.open, p)
    BY <2>1, <2>3 DEF Gathers
  <2>6. next.open \in Q
    <3>1. Append(base.open, p) \in Seq(Piece) /\ Append(base.open, p) # << >>
      BY <2>2, <2>4, AppendProperties
    <3> QED  BY <1>0, <2>5, <3>1 DEF Spans
  <2>7. Adds(acc, p, next)
    BY <2>1 DEF Adds
  <2>8. next \in Gathers(Q)
    BY <1>2, <2>2, <2>6, <2>7, AddsOne
  <2> QED  BY <1>0, <2>0, <2>6, <2>7, <2>8
<1>4. Nothing \in A
  BY <1>0, NothingHeld
<1>5. \A acc \in A, b \in B : AddParagraph(acc, b) \in A
  BY <1>3
<1>6. PICK h \in [0 .. Len(seq) -> A] :
          /\ h[0] = Nothing
          /\ \A i \in 1 .. Len(seq) : h[i] = AddParagraph(h[i - 1], seq[i])
          /\ FoldLeft(AddParagraph, Nothing, seq) = h[Len(seq)]
  BY <1>1, <1>4, <1>5, ParagraphsFold
<1>7. PICK ps : ps = [b \in Indices |-> Paragraph(b)]
  OBVIOUS
<1>8. ps \in Seq(Piece) /\ Len(ps) = n /\ \A i \in 1 .. n : ps[i] = Paragraph(i)
  <2>1. ps = [i \in 1 .. n |-> Paragraph(i)]
    BY <1>0, <1>1, <1>7
  <2>2. \A i \in 1 .. n : Paragraph(i) \in Piece
    BY <1>0, <1>1, ParagraphIs
  <2> QED  BY <1>1, <2>1, <2>2
<1>9. ASSUME NEW i \in 1 .. Len(ps)
      PROVE  Adds(h[i - 1], ps[i], h[i]) /\ h[i].open \in Q
  <2>1. i \in 1 .. Len(seq) /\ i \in 1 .. n /\ i - 1 \in 0 .. Len(seq)
    BY <1>1, <1>8
  <2>2. h[i - 1] \in A /\ i \in B /\ ps[i] = Paragraph(i)
    BY <1>1, <1>8, <2>1
  <2>3. h[i] = AddParagraph(h[i - 1], i)
    BY <1>1, <1>6, <2>1
  <2> QED  BY <1>3, <2>2, <2>3
<1>10. h \in [0 .. Len(ps) -> Gathers(Q)]
  BY <1>0, <1>1, <1>8
<1>11. Flush(h[Len(ps)]).done \in Seq(Q) /\ FlattenSeq(Flush(h[Len(ps)]).done) = ps
  <2>1. GoesThrough(h, ps, Piece, Q)
    BY <1>6, <1>8, <1>9, <1>10 DEF GoesThrough
  <2> QED  BY <1>2, <2>1, LoopGathers
<1>12. chunks = Flush(h[Len(ps)]).done
  BY <1>0, <1>1, <1>6, <1>8
<1> QED  BY <1>0, <1>7, <1>11, <1>12

\* A sequence is its last member after the others.
LEMMA FrontAndLast ==
    ASSUME NEW A, NEW s \in Seq(A), s # << >>
    PROVE  Front(s) \in Seq(A) /\ Last(s) \in A /\ s = Append(Front(s), Last(s))
<1>0. PICK n, front, last : n = Len(s) /\ front = Front(s) /\ last = Last(s)
  OBVIOUS
<1>1. n \in Nat \ {0} /\ DOMAIN s = 1 .. n /\ \A i \in 1 .. n : s[i] \in A
  BY <1>0, EmptySeq
<1>2. front = SubSeq(s, 1, n - 1) /\ last = s[n]
  BY <1>0 DEF Front, Last
<1>3. front = [i \in 1 .. n - 1 |-> s[i]]
  BY <1>1, <1>2
<1>4. front \in Seq(A) /\ Len(front) = n - 1 /\ last \in A
  BY <1>1, <1>2, <1>3
<1>5. PICK t : t = Append(front, last)
  OBVIOUS
<1>6. t \in Seq(A) /\ Len(t) = n /\ \A i \in 1 .. n : t[i] = s[i]
  BY <1>1, <1>2, <1>3, <1>4, <1>5
<1>7. t = s
  BY <1>0, <1>6, SeqEqual
<1> QED  BY <1>0, <1>4, <1>5, <1>7

\* A merge adds the chunk at the end.
LEMMA MergeKeeps ==
    ASSUME NEW merged \in Seq(Spans), NEW chunk \in Spans
    PROVE  /\ MergeSmall(merged, chunk) \in Seq(Spans)
           /\ FlattenSeq(MergeSmall(merged, chunk)) = FlattenSeq(merged) \o chunk
<1>1. Spans \subseteq Seq(Piece)
  BY DEF Spans
<1>2. merged \in Seq(Seq(Piece)) /\ chunk \in Seq(Piece) /\ chunk # << >>
  BY <1>1 DEF Spans
<1>3. CASE merged # << >> /\ PlainSize(Last(merged)) < MinChunk
  <2>0. PICK front, last, next : /\ front = Front(merged) /\ last = Last(merged)
                                 /\ next = MergeSmall(merged, chunk)
    OBVIOUS
  <2>1. next = Append(front, last \o chunk)
    BY <1>3, <2>0 DEF MergeSmall
  <2>2. /\ front \in Seq(Spans) /\ last \in Spans /\ merged = Append(front, last)
    BY <1>3, <2>0, FrontAndLast
  <2>3. last \o chunk \in Spans
    <3>1. last \in Seq(Piece) /\ last # << >>
      BY <2>2 DEF Spans
    <3>2. last \o chunk \in Seq(Piece) /\ Len(last \o chunk) = Len(last) + Len(chunk)
      BY <1>2, <3>1, ConcatProperties
    <3>3. Len(last) \in Nat \ {0} /\ Len(chunk) \in Nat
      BY <1>2, <3>1, EmptySeq
    <3>4. last \o chunk # << >>
      BY <3>2, <3>3, EmptySeq
    <3> QED  BY <3>2, <3>4 DEF Spans
  <2>4. next \in Seq(Spans)
    <3>1. PICK c : c = last \o chunk
      OBVIOUS
    <3> QED  BY <2>1, <2>2, <2>3, <3>1
  <2>5. front \in Seq(Seq(Piece)) /\ last \in Seq(Piece) /\ FlattenSeq(front) \in Seq(Piece)
    <3>1. front \in Seq(Seq(Piece)) /\ last \in Seq(Piece)
      BY <1>1, <2>2
    <3> QED  BY <3>1, FlattenHas
  <2>6. FlattenSeq(next) = FlattenSeq(front) \o (last \o chunk)
    <3>0. PICK c : c = last \o chunk
      OBVIOUS
    <3>1. c \in Seq(Piece) /\ next = Append(front, c)
      BY <1>1, <2>1, <2>3, <3>0
    <3>2. FlattenSeq(Append(front, c)) = FlattenSeq(front) \o c
      BY <2>5, <3>1, FlattenAppend, Zenon
    <3> QED  BY <3>0, <3>1, <3>2
  <2>7. FlattenSeq(merged) = FlattenSeq(front) \o last
    BY <2>2, <2>5, FlattenAppend
  <2>8. PICK f : f = FlattenSeq(front)
    OBVIOUS
  <2>9. (f \o last) \o chunk = f \o (last \o chunk)
    <3>1. f \in Seq(Piece) /\ last \in Seq(Piece) /\ chunk \in Seq(Piece)
      BY <1>2, <2>5, <2>8
    <3> QED  BY <3>1, ConcatAssociative, SMTT(30)
  <2> QED  BY <2>0, <2>4, <2>6, <2>7, <2>8, <2>9
<1>4. CASE ~ (merged # << >> /\ PlainSize(Last(merged)) < MinChunk)
  <2>1. MergeSmall(merged, chunk) = Append(merged, chunk)
    BY <1>4 DEF MergeSmall
  <2>2. Append(merged, chunk) \in Seq(Spans)
    OBVIOUS
  <2>3. FlattenSeq(Append(merged, chunk)) = FlattenSeq(merged) \o chunk
    BY <1>2, FlattenAppend
  <2> QED  BY <2>1, <2>2, <2>3
<1> QED  BY <1>3, <1>4

\* mergeSmall keeps the text of its chunks.
LEMMA MergedText ==
    ASSUME NEW chunks \in Seq(Spans)
    PROVE  FlattenSeq(FoldLeft(MergeSmall, << >>, chunks)) = FlattenSeq(chunks)
<1>0. PICK A, n : A = Seq(Spans) /\ n = Len(chunks)
  OBVIOUS
<1>1. << >> \in A /\ n \in Nat /\ \A i \in 1 .. n : chunks[i] \in Spans
  BY <1>0
<1>2. \A acc \in A, x \in Spans : MergeSmall(acc, x) \in A
  BY <1>0, MergeKeeps
<1>3. PICK h \in [0 .. Len(chunks) -> A] :
          /\ h[0] = << >>
          /\ \A i \in 1 .. Len(chunks) : h[i] = MergeSmall(h[i - 1], chunks[i])
          /\ FoldLeft(MergeSmall, << >>, chunks) = h[Len(chunks)]
  BY <1>1, <1>2, MergeFold
<1>4. chunks \in Seq(Seq(Piece))
  <2>1. Spans \subseteq Seq(Piece)
    BY DEF Spans
  <2> QED  BY <2>1
<1>5. PICK f : Flattens(f, chunks, Piece) /\ FlattenSeq(chunks) = f[Len(chunks)]
  BY <1>4, FlattenSteps
<1> DEFINE T == {i \in 0 .. n : FlattenSeq(h[i]) = f[i]}
<1>6. 0 \in T
  <2>1. FlattenSeq(<< >>) = << >>
    BY DEF FlattenSeq
  <2>2. f[0] = << >>
    BY <1>5 DEF Flattens
  <2> QED  BY <1>1, <1>3, <2>1, <2>2
<1>7. ASSUME NEW i \in 1 .. n, i - 1 \in T
      PROVE  i \in T
  <2>1. h[i - 1] \in Seq(Spans) /\ chunks[i] \in Spans
    <3>1. i - 1 \in 0 .. n
      BY <1>1
    <3> QED  BY <1>0, <1>1, <1>3, <3>1
  <2>2. h[i] = MergeSmall(h[i - 1], chunks[i])
    BY <1>0, <1>3
  <2>3. FlattenSeq(h[i]) = FlattenSeq(h[i - 1]) \o chunks[i]
    BY <2>1, <2>2, MergeKeeps
  <2>4. f[i] = f[i - 1] \o chunks[i]
    BY <1>0, <1>5 DEF Flattens
  <2>5. FlattenSeq(h[i - 1]) = f[i - 1] /\ i \in 0 .. n
    BY <1>1, <1>7
  <2> QED  BY <2>3, <2>4, <2>5
<1>8. \A i \in 0 .. n : i \in T
  <2> HIDE DEF T
  <2> QED  BY <1>1, <1>6, <1>7, UpTo
<1>9. n \in T
  BY <1>1, <1>8
<1> QED  BY <1>0, <1>3, <1>5, <1>9

\* The chunks of plain text are the paragraphs, each up to MaxChunk.
LEMMA PlainKeepsText ==
    ASSUME ChunkerAssumption, ChunkerTypeOK
    PROVE  AreDocument(FlattenSeq(SplitPlain), [b \in Indices |-> Min({blocks[b].len, MaxChunk})])
<1>0. PICK chunks, ps, n, P, end :
          /\ chunks = Flush(FoldLeft(AddParagraph, Nothing, [b \in Indices |-> b])).done
          /\ ps = FlattenSeq(SplitPlain) /\ n = Len(blocks)
          /\ P = [b \in Indices |-> {Paragraph(b)}]
          /\ end = [b \in Indices |-> Min({blocks[b].len, MaxChunk})]
  OBVIOUS
<1>1. chunks \in Seq(Spans) /\ FlattenSeq(chunks) = [b \in Indices |-> Paragraph(b)]
  BY <1>0, ChunksAre
<1>2. ps = FlattenSeq(chunks)
  <2>1. SplitPlain = FoldLeft(MergeSmall, << >>, chunks)
    BY <1>0 DEF SplitPlain
  <2> QED  BY <1>0, <1>1, <2>1, MergedText
<1>3. n \in Nat /\ Indices = 1 .. n
  BY <1>0, BlocksAre
<1>4. ps = [b \in 1 .. n |-> Paragraph(b)]
  BY <1>1, <1>2, <1>3
<1>5. ASSUME NEW b \in 1 .. n
      PROVE  /\ Paragraph(b) \in Piece /\ Paragraph(b).block = b
             /\ P[b] = {Paragraph(b)} /\ end[b] \in Nat /\ Covers(P[b], b, end[b])
  <2>1. P[b] = {Paragraph(b)} /\ end[b] = Min({blocks[b].len, MaxChunk})
    BY <1>0, <1>3
  <2>2. /\ Paragraph(b) \in Piece /\ Paragraph(b).block = b
        /\ Min({blocks[b].len, MaxChunk}) \in Nat
        /\ Covers({Paragraph(b)}, b, Min({blocks[b].len, MaxChunk}))
    BY <1>3, ParagraphIs
  <2> QED  BY <2>1, <2>2, Zenon
<1>6. ps \in Seq(Piece) /\ DOMAIN ps = 1 .. n /\ \A i \in 1 .. n : ps[i] = Paragraph(i)
  BY <1>3, <1>4, <1>5
<1>7. InOrder(ps, PieceBefore)
  <2>1. ASSUME NEW i \in 1 .. n, NEW j \in 1 .. n, i < j
        PROVE  <<ps[i], ps[j]>> \in PieceBefore
    <3>1. /\ ps[i] \in Piece /\ ps[i].block = i
          /\ ps[j] \in Piece /\ ps[j].block = j
      BY <1>5, <1>6
    <3> QED  BY <2>1, <3>1 DEF PieceBefore
  <2> QED  BY <1>6, <2>1 DEF InOrder
<1>8. ToSet(ps) = UNION {P[b] : b \in 1 .. n}
  <2>1. ToSet(ps) = {Paragraph(b) : b \in 1 .. n}
    BY <1>6 DEF ToSet
  <2>2. UNION {P[b] : b \in 1 .. n} = {Paragraph(b) : b \in 1 .. n}
    BY <1>5
  <2> QED  BY <2>1, <2>2
<1>9. AreDocument(ps, end)
  <2>1. Len(blocks) \in Nat /\ (blocks = << >> <=> Len(blocks) = 0)
    BY <1>0, <1>3, NoBlocks
  <2>2. \A b \in 1 .. Len(blocks) : end[b] \in Nat
    BY <1>0, <1>5
  <2>3. ToSet(ps) = UNION {P[b] : b \in 1 .. Len(blocks)}
    BY <1>0, <1>8, Zenon
  <2>4. \A b \in 1 .. Len(blocks) : Covers(P[b], b, end[b])
    BY <1>0, <1>5
  <2> QED  BY <1>6, <1>7, <2>1, <2>2, <2>3, <2>4, CoveredDocument
<1> QED  BY <1>0, <1>9

\* The children of every document, and its chunks as plain text, keep its text: both halves
\* of ChunksKeepText, for blocks of any length, cuts, sections and images.
LEMMA TextIsKept ==
    ASSUME ChunkerAssumption, ChunkerTypeOK
    PROVE  ChunksKeepText
<1>1. ASSUME \A b \in Indices : IsImage(b) \/ Splits(b),
             NEW cs, cs = FlattenSeq(ChunkBlocks),
             NEW stands, stands = [k \in DOMAIN cs |-> StandsFor(cs[k])]
      PROVE  /\ AreDocument(FlattenSeq(stands), [b \in Indices |-> blocks[b].len])
             /\ \A k \in DOMAIN cs : ChildKept(cs[k])
  BY <1>1, ChildrenKeepText
<1>2. AreDocument(FlattenSeq(SplitPlain), [b \in Indices |-> Min({blocks[b].len, MaxChunk})])
  BY PlainKeepsText
<1> QED  BY <1>1, <1>2, Zenon DEF ChunksKeepText

-----------------------------------------------------------------------------
(* All parts together: PlatformTypeOK.                                     *)

\* The invariants of the parts. They share no state, so each is kept by the steps of its
\* own part and untouched by the others.
PlatformInv ==
    /\ ServerInv /\ ExporterTyped
    /\ BrowserTyped
    /\ ImportInv
    /\ BuildTypeOK
    /\ ChunkerTypeOK
    /\ FetchInv
    /\ ProbeInv
    /\ BudgetInv
    /\ ViewInv /\ ViewTyped

LEMMA PlatformInvInit == Init => PlatformInv
<1> SUFFICES ASSUME Init PROVE PlatformInv
  OBVIOUS
<1>1. ServerInv /\ ExporterTyped
  BY ServerTypes DEF Init
<1>2. BrowserTyped /\ ImportInv
  BY BrowserTypes, ImportTypes DEF Init
<1>3. BuildTypeOK
  BY BuildTypes DEF Init
<1>4. ChunkerTypeOK
  BY DEF Init, ChunkerInit, ChunkerTypeOK
<1>5. FetchInv /\ ProbeInv
  BY FetchTyped, ProbeTypes DEF Init
<1>6. BudgetInv
  BY BudgetStart DEF Init
<1>7. ViewInv /\ ViewTyped
  BY ViewInvInit, ViewTypes DEF Init
<1> QED  BY <1>1, <1>2, <1>3, <1>4, <1>5, <1>6, <1>7 DEF PlatformInv

LEMMA PlatformInvStep == PlatformInv /\ [Next]_platformVars => PlatformInv'
<1> SUFFICES ASSUME PlatformInv, [Next]_platformVars PROVE PlatformInv'
  OBVIOUS
<1>1. /\ [ServerNext]_serverVars /\ [BrowserNext]_browserVars /\ [ImportNext]_importVars
      /\ [BuildNext]_buildVars /\ UNCHANGED chunkerVars /\ [FetchNext]_fetchVars
      /\ [ProbeNext]_probeVars /\ [BudgetNext]_budgetVars /\ [TraceViewNext]_viewVars
  BY DEF Next, platformVars
<1>2. (ServerInv /\ ExporterTyped)'
  BY <1>1, ServerInvNext, ExporterTypedStep DEF PlatformInv
<1>3. BrowserTyped' /\ ImportInv'
  BY <1>1, BrowserTypedStep, ImportStep DEF PlatformInv
<1>4. BuildTypeOK'
  BY <1>1, BuildTypesStep DEF PlatformInv
<1>5. ChunkerTypeOK'
  BY <1>1 DEF PlatformInv, ChunkerTypeOK, chunkerVars
<1>6. FetchInv' /\ ProbeInv'
  BY <1>1, FetchStep, ProbeInvStep DEF PlatformInv
<1>7. BudgetInv'
  BY <1>1, BudgetStep DEF PlatformInv
<1>8. ViewInv' /\ ViewTyped'
  BY <1>1, ViewInvNext, ViewTypedStep DEF PlatformInv
<1> QED  BY <1>2, <1>3, <1>4, <1>5, <1>6, <1>7, <1>8 DEF PlatformInv

\* Every part keeps its state in shape, for any constants: no counter leaves its range, no
\* request in flight is forgotten by the list it stands in, the page's thread is listed.
THEOREM PlatformTypesHold == Spec => []PlatformTypeOK
<1>1. ASSUME PlatformInv PROVE PlatformTypeOK
  <2>1. ServerTypeOK
    BY <1>1, ServerTypes DEF PlatformInv
  <2>2. BrowserTypeOK /\ ImportTypeOK
    BY <1>1, BrowserTypes, ImportTypes DEF PlatformInv
  <2>3. FetchTypeOK /\ ProbeTypeOK
    BY <1>1, FetchTyped, ProbeTypes DEF PlatformInv
  <2>4. BudgetTypeOK
    BY <1>1, BudgetTypes DEF PlatformInv
  <2>5. TraceViewTypeOK
    BY <1>1, ViewTypes DEF PlatformInv
  <2> QED  BY <1>1, <2>1, <2>2, <2>3, <2>4, <2>5 DEF PlatformInv, PlatformTypeOK
<1> QED  BY <1>1, PlatformInvInit, PlatformInvStep, PTL DEF Spec

\* Whatever document is chunked, however long its blocks and wherever they may be cut, no
\* text of it is lost, repeated or out of order (splitLongText, splitBlocks, chunkBlocks,
\* split, mergeSmall), and no child is over the limit but for a single piece.
THEOREM DocumentsKeepText == Spec => []ChunksKeepText
<1>1. PlatformInv => ChunkerTypeOK
  BY DEF PlatformInv
<1>2. PlatformInv => ChunksKeepText
  BY <1>1, ChunkerAssumption, TextIsKept
<1> QED  BY <1>2, PlatformInvInit, PlatformInvStep, PTL DEF Spec

=============================================================================
