------------------------------ MODULE TraceView ------------------------------
(***************************************************************************)
(* Those who watch an answer run: the trace repository, the Langfuse        *)
(* exporter (src/src/answer/langfuse_exporter.ts) and the page, which gets  *)
(* the events by the stream, or the stored ones after a reload              *)
(* (src/src/frontend/conversation.ts, src/frontend/js/app.js). ChatRuns and *)
(* ServerLife model the runs themselves.                                    *)
(***************************************************************************)
EXTENDS Integers, Sequences, FiniteSets, SequencesExt, FiniteSetsExt

CONSTANTS
    Reports,       \* which stages after the first may have something to tell
    MaxTokens      \* tokens of the answer (bound)

Stages == <<"route", "retrieval", "context", "validation">>

ASSUME TraceViewAssumption == MaxTokens \in Nat /\ Reports \subseteq SUBSET ToSet(Tail(Stages))

VARIABLES
    script,        \* the events the run has in store
    recorded,      \* how many of them the trace repository has
    halted,        \* the event source has ended, or was left
    sent,          \* how many were written to the stream
    link,          \* the page's side of the stream: up, left or ended
    view,          \* the message of the page: events, references known, tokens of its text
    saved,         \* the same, as last saved
    seenEver,      \* events the page has ever shown
    history,       \* what the page fetched after a reload: none, asked, done, or how many
    remote         \* the exporter: its run is open, spans, tokens, the end, an event was lost

viewVars == <<script, recorded, halted, sent, link, view, saved, seenEver, history, remote>>

\* The adapter tells the stages when the runner has returned, each once and completed,
\* those without data left out; a run that fails has only its end.
Told(stage, with) == IF stage \in with THEN <<stage>> ELSE << >>
AdapterEvents ==
    {<<"done">>} \cup
    {<<"route">> \o Told("retrieval", with) \o Told("context", with) \o Told("validation", with)
        \o [k \in 1 .. n |-> "token"] \o <<"done">> :
            with \in Reports, n \in 0 .. MaxTokens}

NoMessage == [seen |-> {}, refs |-> FALSE, text |-> 0]
Tokens(events) == Cardinality({i \in events : script[i] = "token"})

TraceViewTypeOK ==
    /\ script \in AdapterEvents
    /\ recorded \in 0 .. Len(script) /\ sent \in 0 .. recorded
    /\ halted \in BOOLEAN /\ link \in {"up", "left", "ended"}
    /\ \A m \in {view, saved} : /\ m.seen \subseteq 1 .. recorded
                                /\ m.refs \in BOOLEAN /\ m.text \in 0 .. MaxTokens
    /\ seenEver \subseteq 1 .. recorded
    /\ history \in {-2, -1} \cup 0 .. recorded
    /\ remote.spans \subseteq ToSet(Stages) /\ remote.tokens \in 0 .. MaxTokens

TraceViewInit ==
    /\ script \in AdapterEvents
    /\ recorded = 0 /\ sent = 0
    /\ halted = FALSE
    /\ link = "up"
    /\ view = NoMessage /\ saved = NoMessage
    /\ seenEver = {}
    /\ history = -2
    /\ remote = [open |-> FALSE, spans |-> {}, tokens |-> 0, over |-> FALSE, lost |-> FALSE]

-----------------------------------------------------------------------------
(* The server. *)

\* What the exporter makes of an event: a stage that was not told to be running is a
\* span that begins and ends, tokens are counted, the end closes the run.
Exported(copy, event) ==
    CASE event \in ToSet(Stages) -> [copy EXCEPT !.open = TRUE, !.spans = @ \cup {event}]
      [] event = "token" -> [copy EXCEPT !.open = TRUE, !.tokens = @ + 1]
      [] event = "done" -> [copy EXCEPT !.open = FALSE, !.over = TRUE]

\* A call of the client throws, somewhere in between: the event is counted as dropped.
Dropped(copy) == {[copy EXCEPT !.lost = TRUE, !.open = o] : o \in {copy.open, TRUE}}

\* Mutation: the exporter is told before the trace is written.
TellsAnyway(written) == TRUE

\* notifyObservers: an event the trace cannot take is told to nobody.
Tells(written) == written

\* The event source is asked for the next event; a trace that cannot be written ends it.
EmitNext ==
    /\ ~halted
    /\ \E written \in BOOLEAN :
        /\ recorded' = IF written THEN recorded + 1 ELSE recorded
        /\ remote' \in IF Tells(written)
                       THEN {Exported(remote, script[recorded + 1])} \cup Dropped(remote)
                       ELSE {remote}
        /\ sent' = IF link = "up" THEN recorded' ELSE sent
        /\ halted' = (~written \/ link # "up" \/ recorded' = Len(script))
    /\ UNCHANGED <<script, link, view, saved, seenEver, history>>

-----------------------------------------------------------------------------
(* The page. *)

\* mergeTraceEvent by the id of the event; only an answer delta adds to the text.
Merged(m, i) ==
    [seen |-> m.seen \cup {i}, refs |-> m.refs \/ script[i] = "done",
     text |-> m.text + (IF script[i] = "token" THEN 1 ELSE 0)]

\* A line of the stream, in order.
ReceiveEvent ==
    /\ link = "up" /\ Cardinality(view.seen) < sent
    /\ view' = Merged(view, Cardinality(view.seen) + 1)
    /\ seenEver' = seenEver \cup view'.seen
    /\ UNCHANGED <<script, recorded, halted, sent, link, saved, history, remote>>

\* Threads are opened and left meanwhile.
SaveMessage ==
    /\ saved # view
    /\ saved' = view
    /\ UNCHANGED <<script, recorded, halted, sent, link, view, seenEver, history, remote>>

\* The stream ends, breaks or is stopped: whatever the message has is saved.
StreamOver ==
    /\ link = "up"
    /\ link' = IF halted /\ Cardinality(view.seen) = sent THEN "ended" ELSE "left"
    /\ saved' = view
    /\ UNCHANGED <<script, recorded, halted, sent, view, seenEver, history, remote>>

\* The page is loaded again and asks for the history of its runs.
LoadPage ==
    /\ history \in {-2, 0}
    /\ link' = IF link = "up" THEN "left" ELSE link
    /\ view' = saved
    /\ history' = -1
    /\ UNCHANGED <<script, recorded, halted, sent, saved, seenEver, remote>>

\* The answer of the server on its way; a run without events is not found.
HistoryRead ==
    /\ history = -1
    /\ history' = recorded
    /\ UNCHANGED <<script, recorded, halted, sent, link, view, saved, seenEver, remote>>

\* applyRunHistory: the events of the history replace those of the message, not its text.
HistoryApplied ==
    /\ history > 0
    /\ view' = [seen |-> 1 .. history, text |-> view.text,
                refs |-> view.refs \/ \E i \in 1 .. history : script[i] = "done"]
    /\ seenEver' = seenEver \cup view'.seen
    /\ history' = 0
    /\ UNCHANGED <<script, recorded, halted, sent, link, saved, remote>>

TraceViewNext ==
    \/ EmitNext \/ ReceiveEvent \/ SaveMessage \/ StreamOver
    \/ LoadPage \/ HistoryRead \/ HistoryApplied

-----------------------------------------------------------------------------
(* What is drawn, and the property.                                          *)

\* projectTraceEvents, per step of the panel: the event drawn, or none.
DrawnSteps(m) == {script[i] : i \in m.seen} \ {"token"}

Gapless(events) == events = 1 .. Cardinality(events)

\* Nobody who watches a run is told of an event its stored trace does not have: a
\* reload never takes back a step that was drawn, the text has no token whose event is
\* missing, references are known once the end is, and the exporter, unless it counted
\* a drop, has just the stored spans and tokens (notifyObservers tells the trace
\* repository first, and before the event is passed on).
WatchersFollowTrace ==
    /\ Gapless(view.seen) /\ view.seen \subseteq 1 .. recorded
    /\ history = 0 => seenEver \subseteq view.seen
    /\ view.text <= Tokens(view.seen)
    /\ "done" \in DrawnSteps(view) => view.refs
    /\ ~remote.lost =>
        /\ remote.spans = {script[i] : i \in 1 .. recorded} \cap ToSet(Stages)
        /\ remote.tokens = Tokens(1 .. recorded)
        /\ remote.open <=> recorded \in 1 .. Len(script) - 1
        /\ remote.over <=> recorded = Len(script)
=============================================================================
