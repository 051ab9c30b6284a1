---------------------------- MODULE DocumentBuild ----------------------------
(***************************************************************************)
(* What one attempt of an ingestion task does to the file system and to the *)
(* stores: the parser process in its workspace (src/src/ingestion/parser),  *)
(* the image assets, the chunks in Elasticsearch, the page index in SQLite  *)
(* and the graph in Neo4j (pipeline.ts, storage/store.ts).                  *)
(*                                                                         *)
(* Attempts of one document may overlap: an attempt whose claim was taken   *)
(* over is only told so between two stages (IngestionQueue). A parser may   *)
(* read the same file differently each time (OCR). The operating system may *)
(* refuse to kill a process, and to write or remove a file.                 *)
(***************************************************************************)
EXTENDS Naturals, FiniteSets

CONSTANTS
    Attempts,      \* the attempts of one document
    Outputs        \* what parsing the document may give (bound)

\* An output: the ids of its chunks, those of them that show an image, and whether
\* two sections that are not neighbours have the same path of headings. An id is made
\* from the kind of its chunk too: one that shows an image shows it in every output.
ASSUME BuildAssumption ==
    /\ IsFiniteSet(Attempts)
    /\ \A o \in Outputs :
        o.chunks \in SUBSET Nat /\ o.images \subseteq o.chunks /\ o.repeats \in BOOLEAN
    /\ \A o, p \in Outputs : o.images \cap p.chunks \subseteq p.images

VARIABLES
    parser,        \* the parser selectParser chose, or "none" for plain content
    phase,         \* how far each attempt is
    child,         \* the attempt's parser process
    stopping,      \* stopError of runBoundedProcess is set
    refused,       \* what the operating system refused each attempt (history)
    workspace,     \* the attempt's temporary directory exists
    output,        \* what the attempt parsed
    temporaries,   \* attempts with a temporary asset file
    assets,        \* image assets published
    es,            \* chunk ids in the index
    pages,         \* the output the page index describes
    graph          \* chunk ids that wikilinks name as their provenance

buildVars == <<parser, phase, child, stopping, refused, workspace, output, temporaries,
               assets, es, pages, graph>>
stores == <<es, pages, graph>>
parsing == <<child, stopping, refused, workspace, output, temporaries, assets>>

-----------------------------------------------------------------------------
NoOutput == [chunks |-> {}, images |-> {}, repeats |-> FALSE]
ChunkIds == UNION {o.chunks : o \in Outputs}
Phases == {"idle", "process", "read", "publish", "rename", "parsed", "chunked", "wikified",
           "stored", "indexed", "built", "failed", "crashed"}
Refusals == {"kill", "file"}

BuildTypeOK ==
    /\ parser \in {"none", "markitdown", "marker", "mineru"}
    /\ phase \in [Attempts -> Phases]
    /\ child \in [Attempts -> {"none", "alive", "dying", "gone"}]
    /\ stopping \in [Attempts -> BOOLEAN]
    /\ refused \in [Attempts -> SUBSET Refusals]
    /\ workspace \in [Attempts -> BOOLEAN]
    /\ output \in [Attempts -> Outputs \cup {NoOutput}]
    /\ temporaries \subseteq Attempts
    /\ {assets, es, graph} \subseteq SUBSET ChunkIds
    /\ pages \in Outputs \cup {NoOutput}

BuildInit ==
    /\ parser \in {"none", "markitdown", "marker", "mineru"}
    /\ phase = [a \in Attempts |-> "idle"]
    /\ child = [a \in Attempts |-> "none"]
    /\ stopping = [a \in Attempts |-> FALSE]
    /\ refused = [a \in Attempts |-> {}]
    /\ workspace = [a \in Attempts |-> FALSE]
    /\ output = [a \in Attempts |-> NoOutput]
    /\ temporaries = {}
    /\ assets = {}
    /\ es = {}
    /\ pages = NoOutput
    /\ graph = {}

-----------------------------------------------------------------------------
Goes(a, from, to) == phase[a] = from /\ phase' = [phase EXCEPT ![a] = to]

Refuse(a, what) == refused' = [refused EXCEPT ![a] = @ \cup what]

\* parse() rejects: its finally block removes the workspace, unless that is refused.
ParseFails(a, from, what) ==
    /\ Goes(a, from, "failed")
    /\ \/ workspace' = [workspace EXCEPT ![a] = FALSE] /\ Refuse(a, what)
       \/ UNCHANGED workspace /\ Refuse(a, what \cup {"file"})

\* parse() returns: the workspace is removed.
ParseReturns(a, from) ==
    /\ Goes(a, from, "parsed")
    /\ workspace' = [workspace EXCEPT ![a] = FALSE]
    /\ UNCHANGED refused

\* A stage after parsing rejects, or finds that the claim is lost.
StageFails(a) ==
    /\ phase[a] \in {"parsed", "chunked", "wikified", "stored", "indexed"}
    /\ phase' = [phase EXCEPT ![a] = "failed"]
    /\ UNCHANGED <<parser, stores, parsing>>

-----------------------------------------------------------------------------
(* The parser process: runBoundedProcess.                                    *)

\* No parser for plain content; no route, too large an input, no workspace or no
\* executable fail the attempt, which removes the workspace if it can.
BeginAttempt(a) ==
    /\ \/ Goes(a, "idle", "failed") /\ UNCHANGED <<refused, workspace, child, output>>
       \/ /\ parser # "none"
          /\ Goes(a, "idle", "failed")
          /\ workspace' = [workspace EXCEPT ![a] = TRUE]
          /\ Refuse(a, {"file"})
          /\ UNCHANGED <<child, output>>
       \/ /\ parser = "none"
          /\ Goes(a, "idle", "parsed")
          /\ \E o \in Outputs : output' = [output EXCEPT ![a] = o]
          /\ UNCHANGED <<refused, workspace, child>>
       \/ /\ parser # "none"
          /\ Goes(a, "idle", "process")
          /\ workspace' = [workspace EXCEPT ![a] = TRUE]
          /\ child' = [child EXCEPT ![a] = "alive"]
          /\ UNCHANGED <<refused, output>>
    /\ UNCHANGED <<parser, stopping, temporaries, assets, stores>>

\* Mutation: stop() rejects at once.
StopAndReject(a) ==
    /\ child[a] = "alive"
    /\ child' = [child EXCEPT ![a] = "dying"]
    /\ stopping' = [stopping EXCEPT ![a] = TRUE]
    /\ ParseFails(a, "process", {})
    /\ UNCHANGED <<parser, output, temporaries, assets, stores>>

\* stop(): the timeout, an abort, too much output, artifacts too large. The promise
\* settles when the process has closed.
StopProcess(a) ==
    /\ phase[a] = "process"
    /\ child[a] = "alive"
    /\ child' = [child EXCEPT ![a] = "dying"]
    /\ stopping' = [stopping EXCEPT ![a] = TRUE]
    /\ UNCHANGED <<parser, phase, refused, workspace, output, temporaries, assets, stores>>

\* kill throws, or the process reports an error while it is being stopped: the promise
\* settles at once, and the process goes on.
StopRefused(a) ==
    /\ child[a] = "alive"
    /\ stopping' = [stopping EXCEPT ![a] = TRUE]
    /\ ParseFails(a, "process", {"kill"})
    /\ UNCHANGED <<parser, child, output, temporaries, assets, stores>>

\* Also a process that nobody waits for: its attempt crashed, or could not kill it.
ProcessExits(a) ==
    /\ child[a] \in {"alive", "dying"}
    /\ child' = [child EXCEPT ![a] = "gone"]
    /\ UNCHANGED <<parser, phase, stopping, refused, workspace, output, temporaries, assets,
                   stores>>

\* The close event, with the last artifact check.
ProcessCloses(a) ==
    /\ child[a] = "gone"
    /\ \/ ParseFails(a, "process", {})
       \/ ~stopping[a] /\ Goes(a, "process", "read") /\ UNCHANGED <<refused, workspace>>
    /\ UNCHANGED <<parser, child, stopping, output, temporaries, assets, stores>>

-----------------------------------------------------------------------------
(* The parser's result.                                                      *)

\* Only MinerU's image references become assets.
ImagesOf(o) == IF parser = "mineru" THEN o.images ELSE {}

\* The artifact is found, read and normalised, or malformed.
ReadOutput(a) ==
    /\ \/ ParseFails(a, "read", {}) /\ UNCHANGED output
       \/ \E o \in Outputs :
            /\ output' = [output EXCEPT ![a] = o]
            /\ IF ImagesOf(o) = {} THEN ParseReturns(a, "read")
               ELSE Goes(a, "read", "publish") /\ UNCHANGED <<refused, workspace>>
    /\ UNCHANGED <<parser, child, stopping, temporaries, assets, stores>>

\* publishImageAsset writes a file of its own name first, outside of the block whose
\* finally removes it: what a refused write has begun stays.
WriteAsset(a) ==
    /\ \/ Goes(a, "publish", "rename") /\ temporaries' = temporaries \cup {a}
          /\ UNCHANGED <<refused, workspace>>
       \/ ParseFails(a, "publish", {}) /\ UNCHANGED temporaries
       \/ ParseFails(a, "publish", {"file"}) /\ temporaries' = temporaries \cup {a}
    /\ UNCHANGED <<parser, child, stopping, output, assets, stores>>

\* An asset that is there already has the same content: its name is its digest. The
\* images are published one after another: some are there when one fails, and its file
\* may stay.
RenameAsset(a) ==
    /\ \/ /\ ParseReturns(a, "rename")
          /\ assets' = assets \cup ImagesOf(output[a])
          /\ temporaries' = temporaries \ {a}
       \/ /\ \/ ParseFails(a, "rename", {}) /\ temporaries' = temporaries \ {a}
             \/ ParseFails(a, "rename", {"file"}) /\ UNCHANGED temporaries
          /\ \E done \in SUBSET ImagesOf(output[a]) : assets' = assets \cup done
    /\ UNCHANGED <<parser, child, stopping, output, stores>>

-----------------------------------------------------------------------------
(* The stores.                                                               *)

ChunkDocument(a) ==
    /\ Goes(a, "parsed", "chunked")
    /\ UNCHANGED <<parser, stores, parsing>>

WikifyChunks(a) ==
    /\ Goes(a, "chunked", "wikified")
    /\ UNCHANGED <<parser, stores, parsing>>

\* Mutation: result.errors is not looked at.
BulkTaken(wanted, written) == written \subseteq wanted

\* Bulk indexing refuses items one by one.
BulkDone(wanted, written) == written = wanted

\* ESStore.storeChunks: any part of the chunks is written, then the stage goes on or
\* fails; a lost answer fails it too.
StoreChunks(a) ==
    /\ \E written \in SUBSET output[a].chunks :
        /\ es' = es \cup written
        /\ \/ BulkDone(output[a].chunks, written) /\ Goes(a, "wikified", "stored")
           \/ Goes(a, "wikified", "failed")
    /\ UNCHANGED <<parser, pages, graph, parsing>>

\* replaceNodes in one transaction. The id of a node is made from its section path
\* and is a primary key: a path that repeats is refused. Plain content has no nodes.
IndexPages(a) ==
    /\ IF parser = "none"
       THEN Goes(a, "stored", "indexed") /\ UNCHANGED pages
       ELSE IF output[a].repeats
       THEN Goes(a, "stored", "failed") /\ UNCHANGED pages
       ELSE Goes(a, "stored", "indexed") /\ pages' = output[a]
    /\ UNCHANGED <<parser, es, graph, parsing>>

\* One MERGE per wikilink; each names chunks it was found in.
StoreGraph(a) ==
    /\ \E named \in SUBSET output[a].chunks :
        /\ graph' = graph \cup named
        /\ Goes(a, "indexed", "built") \/ Goes(a, "indexed", "failed")
    /\ UNCHANGED <<parser, es, pages, parsing>>

\* The server process dies: nothing is cleaned up, the parser process goes on.
Crash(a) ==
    /\ phase[a] \notin {"idle", "built", "failed", "crashed"}
    /\ phase' = [phase EXCEPT ![a] = "crashed"]
    /\ UNCHANGED <<parser, stores, parsing>>

BuildNext == \E a \in Attempts :
    \/ BeginAttempt(a) \/ StopProcess(a) \/ StopRefused(a) \/ ProcessExits(a) \/ ProcessCloses(a)
    \/ ReadOutput(a) \/ WriteAsset(a) \/ RenameAsset(a)
    \/ ChunkDocument(a) \/ WikifyChunks(a) \/ StoreChunks(a) \/ IndexPages(a)
    \/ StoreGraph(a) \/ StageFails(a) \/ Crash(a)

BuildSpec == BuildInit /\ [][BuildNext]_buildVars

-----------------------------------------------------------------------------
(* Properties. *)

AfterParse == {"parsed", "chunked", "wikified", "stored", "indexed", "built"}
ParserRuns(a) == child[a] \in {"alive", "dying"}
Leaves(a) == workspace[a] \/ a \in temporaries

\* An attempt goes on only with a process that is gone and after cleaning up. However
\* parsing ends, a workspace is removed under a live process only where killing it was
\* refused, and files stay only where the file system refused, or after a crash
\* (runBoundedProcess settles on close, parse's finally, publishImageAsset's finally).
WorkspaceOutlivesProcess == \A a \in Attempts :
    /\ phase[a] \in {"read", "publish", "rename"} \cup AfterParse => ~ParserRuns(a)
    /\ phase[a] \in AfterParse => ~Leaves(a)
    /\ ParserRuns(a) => workspace[a] \/ "kill" \in refused[a]
    /\ phase[a] = "failed" /\ Leaves(a) => "file" \in refused[a]

\* With attempts that overlap, fail and crash half-way, the page index and the graph
\* name only chunks that are in the index, and an indexed image has its asset
\* (the order of the stages of PipelineStageRunner.run).
StoredIsComplete ==
    /\ pages.chunks \cup graph \subseteq es
    /\ \A o \in Outputs : ImagesOf(o) \cap es \subseteq assets
=============================================================================
