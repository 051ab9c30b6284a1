----------------------------- MODULE BrowserChat -----------------------------
(***************************************************************************)
(* The chat page: threads and their messages, the one run in progress, the  *)
(* attachments of the composer, and the copy of all that in localStorage    *)
(* (src/frontend/js/app.js over the Conversation of                         *)
(* src/src/frontend/conversation.ts).                                       *)
(*                                                                         *)
(* JavaScript runs one handler at a time: an action is what happens up to   *)
(* the next await, timer or click. A message stands for the question and    *)
(* its answer; its text is "none", "some" of what the run sends, or what    *)
(* the end of the turn left there ("final").                                *)
(***************************************************************************)
EXTENDS Naturals, Sequences, FiniteSets, SequencesExt

CONSTANTS
    Threads,           \* threads a user may ever open (bound)
    MaxMessages,       \* messages ever sent (bound)
    MaxPicks,          \* times the file dialog is used (bound)
    MaxAttachments     \* MAX_ATTACHMENTS

ASSUME BrowserAssumption ==
    /\ IsFiniteSet(Threads) /\ Threads # {}
    /\ {MaxMessages, MaxPicks, MaxAttachments} \subseteq Nat

VARIABLES
    page,              \* what the page holds: [list, active, messages]
    stored,            \* the same, as last saved to localStorage
    turn,              \* conversation.running: the message being answered, or 0
    aborted,           \* its AbortController was aborted
    leaving,           \* threads whose row is animated away before they are deleted
    attachments,       \* state.attachments, each as where it was picked
    picks              \* per file dialog: where, files left, still of this generation

browserVars == <<page, stored, turn, aborted, leaving, attachments, picks>>

-----------------------------------------------------------------------------
\* The run id is known to storage only if a save follows startRun.
Message == [thread : Threads, status : {"running", "complete", "error"},
            text : {"none", "some", "final"}, named : BOOLEAN, kept : BOOLEAN]
\* Where files are picked: a thread, and whether its composer was cleared since.
Place == [thread : Threads, cleared : BOOLEAN]
Pick == [place : Place, left : 0 .. 2, fresh : BOOLEAN]
Page == [list : Seq(Threads), active : Threads, messages : Seq(Message)]

BrowserTypeOK ==
    /\ {page, stored} \subseteq Page
    /\ turn \in 0 .. Len(page.messages)
    /\ aborted \in BOOLEAN
    /\ leaving \subseteq Threads
    /\ attachments \in Seq(Place) /\ Len(attachments) <= MaxAttachments
    /\ picks \in Seq(Pick) /\ Len(picks) <= MaxPicks
    /\ page.active \in ToSet(page.list)

FirstPage(t) == [list |-> <<t>>, active |-> t, messages |-> << >>]

BrowserInit ==
    /\ page = FirstPage(CHOOSE t \in Threads : TRUE)
    /\ stored = page
    /\ turn = 0
    /\ aborted = FALSE
    /\ leaving = {}
    /\ attachments = << >>
    /\ picks = << >>

-----------------------------------------------------------------------------
Listed == ToSet(page.list)
InThread(t) == {m \in DOMAIN page.messages : page.messages[m].thread = t}

\* Threads never listed: the ids createThread may make up.
Unused == Threads \ (Listed \cup {page.messages[m].thread : m \in DOMAIN page.messages})

\* A message stays in its thread only if it is wanted there.
KeptIf(msg, wanted) == [msg EXCEPT !.kept = @ /\ wanted]

\* save(): messages of deleted threads are not in any thread.
Saved(p) == [p EXCEPT !.messages =
    [m \in DOMAIN @ |-> KeptIf(@[m], @[m].thread \in ToSet(p.list))]]
Save(p) == page' = p /\ stored' = Saved(p)

\* Mutation: a file dialog stays valid when the composer is cleared.
StillFresh(fresh) == fresh

\* state.attachmentGeneration += 1.
NextGeneration(fresh) == FALSE

ClearComposer ==
    /\ attachments' = << >>
    /\ picks' = [k \in DOMAIN picks |->
         [picks[k] EXCEPT !.place.cleared = TRUE, !.fresh = NextGeneration(@)]]

Abort == aborted' = (turn # 0)

-----------------------------------------------------------------------------
(* Sending. *)

\* submitPrompt: the message is saved as running, then it gets its run id, then
\* startRun.
StartTurn(p) ==
    /\ Len(p.messages) < MaxMessages
    /\ LET msg == [thread |-> p.active, status |-> "running", text |-> "none",
                   named |-> FALSE, kept |-> TRUE]
           q == [p EXCEPT !.messages = Append(@, msg)]
       IN
       /\ page' = [q EXCEPT !.messages[Len(q.messages)].named = TRUE]
       /\ stored' = Saved(q)
       /\ turn' = Len(q.messages)
    /\ aborted' = FALSE
    /\ ClearComposer
    /\ UNCHANGED leaving

SubmitPrompt == turn = 0 /\ StartTurn(page)

\* The answer and all that follows it are cut off before the question is sent
\* again.
RegenerateAnswer(m) ==
    /\ turn = 0
    /\ m \in InThread(page.active) /\ page.messages[m].kept
    /\ StartTurn([page EXCEPT !.messages =
         [k \in DOMAIN @ |-> KeptIf(@[k], @[k].thread # page.active \/ k < m)]])

\* processSseEvent: an answer delta. Nothing is saved.
ReceiveToken ==
    /\ turn # 0
    /\ ~aborted
    /\ page.messages[turn].text = "none"
    /\ page' = [page EXCEPT !.messages[turn].text = "some"]
    /\ UNCHANGED <<stored, turn, aborted, leaving, attachments, picks>>

\* The stop button, handleSubmit during a run.
StopTurn ==
    /\ turn # 0
    /\ aborted' = TRUE
    /\ UNCHANGED <<page, stored, turn, leaving, attachments, picks>>

\* The stream ends, breaks or is aborted: finalizeStreamRun, finalizeAbortedRun or
\* finalizeConnectionError, then the finally block. A read that had already failed
\* ends in error after an abort too.
EndTurn(status) ==
    /\ turn # 0
    /\ Save([page EXCEPT !.messages[turn].status = status,
                         !.messages[turn].text = "final"])
    /\ turn' = 0
    /\ aborted' = FALSE
    /\ UNCHANGED <<leaving, attachments, picks>>

-----------------------------------------------------------------------------
(* Threads. A thread that is left has its run aborted; the run itself ends    *)
(* later, in EndTurn.                                                        *)

StartNewThread ==
    /\ Abort
    /\ \/ InThread(page.active) = {} /\ UNCHANGED <<page, stored, attachments, picks>>
       \/ /\ InThread(page.active) # {}
          /\ \E t \in Unused :
               Save([page EXCEPT !.list = <<t>> \o @, !.active = t])
          /\ ClearComposer
    /\ UNCHANGED <<turn, leaving>>

SelectThread(t) ==
    /\ t \in Listed \ {page.active}
    /\ Abort
    /\ Save([page EXCEPT !.active = t])
    /\ ClearComposer
    /\ UNCHANGED <<turn, leaving>>

\* The run is aborted now, the thread deleted when its row has collapsed.
DeleteThreadClick(t) ==
    /\ t \in Listed \ leaving
    /\ aborted' = (aborted \/ (turn # 0 /\ t = page.active))
    /\ leaving' = leaving \cup {t}
    /\ UNCHANGED <<page, stored, turn, attachments, picks>>

\* The next thread is the first one left, or a new one.
DeleteThreadCommit(t) ==
    /\ t \in leaving
    /\ LET rest == RemoveFirst(page.list, t) IN
        IF rest # << >>
        THEN Save([page EXCEPT !.list = rest,
                               !.active = IF t = @ THEN Head(rest) ELSE @])
        ELSE \E n \in Unused : Save([page EXCEPT !.list = <<n>>, !.active = n])
    /\ leaving' = leaving \ {t}
    /\ ClearComposer
    /\ UNCHANGED <<turn, aborted>>

-----------------------------------------------------------------------------
(* Attachments: handleAttachments reads the picked files one after another. *)

PickFiles(n) ==
    /\ Len(picks) < MaxPicks
    /\ picks' = Append([k \in DOMAIN picks |-> [picks[k] EXCEPT !.fresh = FALSE]],
                       [place |-> [thread |-> page.active, cleared |-> FALSE],
                        left |-> n, fresh |-> TRUE])
    /\ UNCHANGED <<page, stored, turn, aborted, leaving, attachments>>

\* The check after the await of file.text().
StillWanted(k) == picks[k].fresh /\ picks[k].place.thread = page.active

\* A file was read, or could not be read and is skipped; a full composer or a
\* generation that has passed ends the loop.
ReadFile(k) ==
    /\ picks[k].left > 0
    /\ IF StillWanted(k) /\ Len(attachments) < MaxAttachments
       THEN /\ picks' = [picks EXCEPT ![k].left = @ - 1]
            /\ attachments' \in {attachments, Append(attachments, picks[k].place)}
       ELSE /\ picks' = [picks EXCEPT ![k].left = 0]
            /\ UNCHANGED attachments
    /\ UNCHANGED <<page, stored, turn, aborted, leaving>>

RemoveAttachment(i) ==
    /\ attachments' = RemoveAt(attachments, i)
    /\ UNCHANGED <<page, stored, turn, aborted, leaving, picks>>

-----------------------------------------------------------------------------
\* The page is loaded again: everything but storage is lost. restoreTraceHistories
\* then fetches the trace of every message whose run id was saved.
ReloadPage ==
    /\ page' = stored
    /\ turn' = 0
    /\ aborted' = FALSE
    /\ leaving' = {}
    /\ attachments' = << >>
    /\ picks' = [k \in DOMAIN picks |-> [picks[k] EXCEPT !.left = 0, !.fresh = FALSE]]
    /\ UNCHANGED stored

BrowserNext ==
    \/ SubmitPrompt
    \/ \E m \in DOMAIN page.messages : RegenerateAnswer(m)
    \/ ReceiveToken
    \/ StopTurn
    \/ \E s \in {"complete", "error"} : EndTurn(s)
    \/ StartNewThread
    \/ \E t \in Threads :
        SelectThread(t) \/ DeleteThreadClick(t) \/ DeleteThreadCommit(t)
    \/ \E n \in 1 .. 2 : PickFiles(n)
    \/ \E k \in DOMAIN picks : ReadFile(k)
    \/ \E i \in DOMAIN attachments : RemoveAttachment(i)
    \/ ReloadPage

-----------------------------------------------------------------------------
(* Properties. *)

\* What the composer would send was picked in its thread and not for a question that
\* was sent, or a composer that was cleared, while the file was read: files are read
\* while threads are opened, switched, deleted and answered (the generation of
\* handleAttachments).
AttachmentsOfThread == \A i \in DOMAIN attachments :
    attachments[i] = [thread |-> page.active, cleared |-> FALSE]
=============================================================================
