----------------------------- MODULE ServerLife -----------------------------
(***************************************************************************)
(* The server process from its first request to its exit: the HTTP         *)
(* requests that stream or collect an answer run (src/src/api/chat.ts), the *)
(* export of their events to Langfuse (src/src/answer/langfuse_exporter.ts),*)
(* the polling worker, the conversation collector, and the shutdown         *)
(* controller that closes what they use (src/src/shutdown.ts, index.ts).    *)
(*                                                                         *)
(* What a run computes is ChatRuns' and KnowledgeRun's subject; what a      *)
(* worker poll does is IngestionQueue's. Here a run emits events and ends,  *)
(* and a poll is busy for a while, perhaps for ever.                        *)
(***************************************************************************)
EXTENDS Naturals, Sequences, FiniteSets

CONSTANTS
    Requests,      \* the requests a client makes (bound)
    MaxRuns        \* runs the exporter keeps at once

ASSUME ServerAssumption == IsFiniteSet(Requests) /\ MaxRuns \in Nat \ {0}

VARIABLES
    request,       \* where each request stands
    transport,     \* "sse" or "json"
    slots,         \* RealLangfuseExporter.runs: the runs it keeps state for
    dropped,       \* runs with an event that export() dropped (droppedCount)
    polling,       \* the worker's interval timer is set
    busy,          \* isBusy: a poll of the worker has not returned
    collecting,    \* the conversation collector's timer is set
    listening,     \* the HTTP server accepts connections
    step,          \* how far the shutdown has come, 0 before the first signal
    closings,      \* how often each resource was closed
    exit           \* exit code of the process

serverVars == <<request, transport, slots, dropped, polling, busy, collecting, 
                listening, step, closings, exit>>

-----------------------------------------------------------------------------
\* What runtime.close() closes one after the other: the exporter, then the
\* server's ProcessRuntime, then the answer runtime's.
RuntimeOrder == <<"exporter", "serverEs", "serverNeo4j", "serverDb",
                  "answerEs", "answerNeo4j", "answerDb">>
RuntimeResources == {RuntimeOrder[k] : k \in DOMAIN RuntimeOrder}
Resources == RuntimeResources \cup {"driver"}

\* Steps of doShutdown: worker.stop, server.close and the exporter, the rest of
\* runtime.close one by one, driver.close, done.
WorkerStep == 1
ServerStep == 2
DriverStep == ServerStep + Len(RuntimeOrder)
LastStep == DriverStep + 1

Running == exit = "none"
InHandler(r) == request[r] \in {"open", "left"}

ServerTypeOK ==
    /\ request \in [Requests -> {"none", "open", "left", "ended", "broken"}]
    /\ transport \in [Requests -> {"sse", "json"}]
    /\ slots \subseteq Requests /\ dropped \subseteq Requests
    /\ {polling, busy, collecting, listening} \subseteq BOOLEAN
    /\ step \in 0 .. LastStep
    /\ closings \in [Resources -> 0 .. 2]
    /\ exit \in {"none", "0", "1"}

ServerInit ==
    /\ request = [r \in Requests |-> "none"]
    /\ transport = [r \in Requests |-> "sse"]
    /\ slots = {}
    /\ dropped = {}
    /\ polling = TRUE
    /\ busy = FALSE
    /\ collecting = TRUE
    /\ listening = TRUE
    /\ step = 0
    /\ closings = [c \in Resources |-> 0]
    /\ exit = "none"

-----------------------------------------------------------------------------
(* The exporter. export() swallows every error: a full map, a client call    *)
(* that throws.                                                             *)

\* getOrCreateRun returns a state for the run.
Takes(r) == r \in slots \/ Cardinality(slots) < MaxRuns

\* export() drops the event: the map is full, or a call of the client threw.
Drops(r) ==
    /\ dropped' = dropped \cup {r}
    /\ slots' = slots \/ (Takes(r) /\ slots' = slots \cup {r})

ExportsProgress(r) ==
    \/ Takes(r) /\ slots' = slots \cup {r} /\ UNCHANGED dropped
    \/ Drops(r)

\* handleDone deletes the state last: a client call that throws keeps it.
ExportsDone(r) ==
    \/ Takes(r) /\ slots' = slots \ {r} /\ UNCHANGED dropped
    \/ Drops(r)

-----------------------------------------------------------------------------
(* Requests: POST /chat. *)

ConnectRequest(r, t) ==
    /\ Running
    /\ listening
    /\ request[r] = "none"
    /\ request' = [request EXCEPT ![r] = "open"]
    /\ transport' = [transport EXCEPT ![r] = t]
    /\ UNCHANGED <<slots, dropped, polling, busy, collecting, listening, step,
                   closings, exit>>

\* The connection closes early: the run is aborted and goes on to its terminal
\* event, or to the next event the handler looks at.
ClientLeaves(r) ==
    /\ Running
    /\ request[r] = "open"
    /\ request' = [request EXCEPT ![r] = "left"]
    /\ UNCHANGED <<transport, slots, dropped, polling, busy, collecting, listening,
                   step, closings, exit>>

\* Only the streaming handler looks at clientGone between two events.
Breaks(r) == transport[r] = "sse" /\ request[r] = "left"

\* One event before the terminal one: exported, then handed to the handler.
EmitEvent(r) ==
    /\ Running
    /\ InHandler(r)
    /\ ExportsProgress(r)
    /\ request' = [request EXCEPT ![r] = IF Breaks(r) THEN "broken" ELSE @]
    /\ UNCHANGED <<transport, polling, busy, collecting, listening, step, closings, exit>>

FinishRun(r) ==
    /\ Running
    /\ InHandler(r)
    /\ ExportsDone(r)
    /\ request' = [request EXCEPT ![r] = "ended"]
    /\ UNCHANGED <<transport, polling, busy, collecting, listening, step, closings, exit>>

-----------------------------------------------------------------------------
(* The worker and the collector. A poll runs one task to its end; a stage    *)
(* whose provider never answers never ends it.                              *)

PollStarts ==
    /\ Running
    /\ polling /\ ~busy
    /\ busy' = TRUE
    /\ UNCHANGED <<request, transport, slots, dropped, polling, collecting, listening,
                   step, closings, exit>>

PollReturns ==
    /\ Running
    /\ busy
    /\ busy' = FALSE
    /\ UNCHANGED <<request, transport, slots, dropped, polling, collecting, listening,
                   step, closings, exit>>

-----------------------------------------------------------------------------
(* Shutdown. The steps follow one another whether they fail or not.          *)

\* shutdownPromise is created once.
StepAfterSignal == IF step = 0 THEN WorkerStep ELSE step

\* worker.stop clears the worker's timer before it waits.
Signal ==
    /\ Running
    /\ step' = StepAfterSignal
    /\ polling' = FALSE
    /\ UNCHANGED <<request, transport, slots, dropped, busy, collecting, listening,
                   closings, exit>>

\* Mutation: worker.stop returns at once.
WorkerIdleAlways == busy \in BOOLEAN

\* while (isBusy) in worker.stop.
WorkerIdle == ~busy

\* Then conversationGc.stop and server.close, which refuses new connections.
WorkerStopped ==
    /\ Running
    /\ step = WorkerStep
    /\ WorkerIdle
    /\ collecting' = FALSE
    /\ listening' = FALSE
    /\ step' = ServerStep
    /\ UNCHANGED <<request, transport, slots, dropped, polling, busy, closings, exit>>

\* server.close calls back when no connection is left: it does not wait for the
\* handler of a client that went away.
ConnectionsGone == \A r \in Requests : request[r] # "open"

CloseResource(c) == closings' = [closings EXCEPT ![c] = @ + 1]

\* The exporter flushes and forgets its runs; it never rejects.
CloseExporter ==
    /\ Running
    /\ step = ServerStep
    /\ ConnectionsGone
    /\ CloseResource("exporter")
    /\ slots' = {}
    /\ step' = step + 1
    /\ UNCHANGED <<request, transport, dropped, polling, busy, collecting, listening, exit>>

NextRuntimeResource == RuntimeOrder[step - ServerStep + 1]

CloseRuntime ==
    /\ Running
    /\ step \in ServerStep + 1 .. DriverStep - 1
    /\ CloseResource(NextRuntimeResource)
    /\ step' = step + 1
    /\ UNCHANGED <<request, transport, slots, dropped, polling, busy, collecting,
                   listening, exit>>

\* A close() rejects: runtime.close skips the rest, runStep goes on.
CloseRejects ==
    /\ Running
    /\ step \in ServerStep + 1 .. DriverStep - 1
    /\ step' = DriverStep
    /\ UNCHANGED <<request, transport, slots, dropped, polling, busy, collecting,
                   listening, closings, exit>>

\* The graph driver, closed or not; then process.exit(0).
CloseDriver ==
    /\ Running
    /\ step = DriverStep
    /\ CloseResource("driver") \/ UNCHANGED closings
    /\ step' = LastStep
    /\ exit' = "0"
    /\ UNCHANGED <<request, transport, slots, dropped, polling, busy, collecting, listening>>

\* Mutation: the timer is cleared once the worker has stopped.
TimerUntilWorker == step = WorkerStep

\* The timer of shutdown() is cleared only when all steps are done.
TimerArmed == step # 0

ForceExit ==
    /\ Running
    /\ TimerArmed
    /\ exit' = "1"
    /\ UNCHANGED <<request, transport, slots, dropped, polling, busy, collecting,
                   listening, step, closings>>

-----------------------------------------------------------------------------
ServerNext ==
    \/ \E r \in Requests :
        \/ \E t \in {"sse", "json"} : ConnectRequest(r, t)
        \/ ClientLeaves(r)
        \/ EmitEvent(r)
        \/ FinishRun(r)
    \/ PollStarts
    \/ PollReturns
    \/ Signal
    \/ WorkerStopped
    \/ CloseExporter
    \/ CloseRuntime
    \/ CloseRejects
    \/ CloseDriver
    \/ ForceExit

ServerSpec == ServerInit /\ [][ServerNext]_serverVars

\* The only thing that always happens is the timer: polls, runs and the close()
\* of a resource may take for ever.
ServerFairness == WF_serverVars(ForceExit)

-----------------------------------------------------------------------------
(* Properties. *)

\* A client still connected, and a poll still at work, never find closed what
\* they use; and nothing is closed twice however many signals arrive
\* (doShutdown's order, worker.stop's wait, the memoised promise).
ClosedAfterUse ==
    /\ \A c \in RuntimeResources : closings[c] > 0 =>
        \A r \in Requests : request[r] # "open"
    /\ \A c \in Resources : closings[c] > 0 => ~busy /\ ~collecting
    /\ \A c \in Resources : closings[c] <= 1

\* A process that was told to stop stops, although a stage, a run or a close()
\* hangs (the timer of shutdown).
ShutdownEnds == step # 0 ~> exit # "none"
=============================================================================
