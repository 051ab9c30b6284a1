--------------------------- MODULE ChatDeskProofs ---------------------------
(***************************************************************************)
(* A conversation and the desk that takes over from it, for any number of  *)
(* requests, run ids, earlier answers, tokens, sessions and any window.    *)
(* Apart from the traces none of the properties is inductive; each part    *)
(* says what has to be added to it.                                        *)
(***************************************************************************)
EXTENDS MCChatDesk, TLAPS

-----------------------------------------------------------------------------
(* The chat session. A summary that is being written was computed before   *)
(* others were saved: it stays right because the window only moves on, and *)
(* because the collector finds no run that waits for one (expired rules    *)
(* every saving run out). A reported answer is saved because the run that  *)
(* reports it was answered, and the pair it saved stays side by side. A    *)
(* trace has one author because the first event shuts others out, and ends *)
(* where its stream ends because only an open stream emits.                *)

\* What the adapter may have left to emit: a terminal event, or progress before it.
Ends == {<< >>} \cup {<<st>> : st \in Statuses} \cup {<<"progress", st>> : st \in Statuses}

Typed ==
    /\ turns \in Seq(Row) /\ trace \in [RunIds -> Seq(Event)]
    /\ pending \in Authors \cup {None} /\ expired \in BOOLEAN
    /\ runId \in [Runs -> RunIds \cup {None}]
    /\ stage \in [Runs -> Stages]
    /\ seen \in [Runs -> Authors \cup {None}]
    /\ outcome \in [Runs -> Statuses \cup {"none"}]
    /\ out \in [Runs -> Ends]
    /\ response \in [Runs -> Responses]

\* Rows the window has left behind: what a summary may fold.
Shown(rows) ==
    IF Len(rows) > 0 /\ rows[Len(rows)].role = "user" THEN Len(rows) - 1 ELSE Len(rows)
Behind(rows) == IF Shown(rows) > Window THEN Shown(rows) - Window ELSE 0

\* A summary has folded every row up to its checkpoint, which is n at most.
Exact(s, n) ==
    /\ s = [through |-> s.through, covers |-> 1 .. s.through]
    /\ s.through \in Nat /\ s.through <= n

\* So does every summary a run waits for; other runs wait for none.
Folds(n) ==
    /\ DOMAIN fold = Runs
    /\ \A r \in Runs : IF stage[r] = "summarizing" THEN Exact(fold[r], n) ELSE fold[r] = NoSummary
Summaries == Exact(summary, Behind(turns)) /\ Folds(Behind(turns))

\* Between two awaits: no other callback may run.
Busy(r) == stage[r] = "saving" \/ out[r] # << >>
Has(seq, x) == \E i \in DOMAIN seq : seq[i] = x

\* The run has an answer it will report, or has begun to report it, as completed.
Answered(r) == stage[r] = "summarizing" \/ outcome[r] = "completed" \/ Has(out[r], "completed")

\* Its question and its reply stand side by side.
Paired(r) ==
    \E i \in DOMAIN turns :
        /\ turns[i] = [run |-> r, role |-> "assistant"]
        /\ i > 1 /\ turns[i - 1] = [run |-> r, role |-> "user"]

OneBusy == \A q, r \in Runs : Busy(q) /\ Busy(r) => q = r

\* How stage, stream and what is left to emit go together.
Phase(r) ==
    /\ Busy(r) => Open(r)
    /\ stage[r] = "saving" => out[r] = << >>
    /\ stage[r] = "new" => response[r] = "none"
    /\ stage[r] = "returned" <=> outcome[r] # "none"
    /\ response[r] # "none" => runId[r] \in RunIds
Phases == \A r \in Runs : Phase(r)

\* The question of a run that is saving is the last row.
Asked(r) == turns # << >> /\ turns[Len(turns)] = [run |-> r, role |-> "user"]
Keeps(r) ==
    /\ stage[r] = "saving" => Asked(r) /\ ~expired
    /\ Answered(r) => Paired(r) /\ ~expired
Kept == \A r \in Runs : Keeps(r)

\* Who has a terminal event in a trace was told so.
Told ==
    \A i \in RunIds : \A k \in DOMAIN trace[i] :
        trace[i][k].kind \in Statuses => response[trace[i][k].run] \in Statuses

ChatInv == Typed /\ Summaries /\ OneBusy /\ Phases /\ Kept /\ Told /\ TraceIsExact

-----------------------------------------------------------------------------
\* What is emitted next, and what is left then.
LEMMA NextEvent ==
    ASSUME NEW e \in Ends, e # << >>
    PROVE  /\ Head(e) \in {"progress"} \cup Statuses
           /\ Tail(e) \in Ends
           /\ Tail(e) = << >> <=> Head(e) \in Statuses
           /\ \A x : Has(Tail(e), x) => Has(e, x)
           /\ Has(e, Head(e))
<1>1. CASE \E st \in Statuses : e = <<st>>
  <2>1. PICK st \in Statuses : e = <<st>>
    BY <1>1
  <2>2. Head(e) = st /\ Tail(e) = << >> /\ e[1] = st /\ DOMAIN e = {1}
    BY <2>1
  <2> QED  BY <2>2 DEF Ends, Has
<1>2. CASE \E st \in Statuses : e = <<"progress", st>>
  <2>1. PICK st \in Statuses : e = <<"progress", st>>
    BY <1>2
  <2>2. /\ Head(e) = "progress" /\ Tail(e) = <<st>> /\ DOMAIN e = {1, 2}
        /\ e[1] = "progress" /\ e[2] = st
    BY <2>1
  <2>3. Tail(e) \in Ends
    BY <2>2 DEF Ends
  <2>4. "progress" \notin Statuses /\ <<st>> # << >>
    BY DEF Statuses
  <2>5. \A x : Has(Tail(e), x) => x = st
    BY <2>2 DEF Has
  <2> QED  BY <2>2, <2>3, <2>4, <2>5 DEF Has
<1> QED  BY <1>1, <1>2 DEF Ends

\* The runner's return keeps the types.
LEMMA ReturnTyped ==
    ASSUME Typed, NEW r \in Runs, NEW st \in Statuses, Return(r, st)
    PROVE  /\ stage' \in [Runs -> Stages]
           /\ seen' \in [Runs -> Authors \cup {None}]
           /\ outcome' \in [Runs -> Statuses \cup {"none"}]
<1> USE DEF Typed, Return
<1>1. stage' \in [Runs -> Stages]
  BY DEF Stages, Awaiting
<1>2. seen' \in [Runs -> Authors \cup {None}]
  OBVIOUS
<1>3. outcome' \in [Runs -> Statuses \cup {"none"}]
  OBVIOUS
<1> QED  BY <1>1, <1>2, <1>3

\* So does forgetting runs.
LEMMA ForgetTyped ==
    ASSUME Typed, NEW S, Forget(S)
    PROVE  /\ stage' \in [Runs -> Stages]
           /\ seen' \in [Runs -> Authors \cup {None}]
           /\ outcome' \in [Runs -> Statuses \cup {"none"}]
BY DEF Typed, Forget, Stages

\* The types hold at first, and every step keeps them.
LEMMA TypedInit == Init => Typed
<1> SUFFICES ASSUME Init PROVE Typed
  OBVIOUS
<1>1. turns \in Seq(Row)
  <2>1. 2 * Backlog \in Nat
    BY ChatAssumption
  <2>2. \A i \in 1 .. 2 * Backlog :
          [run |-> Earlier, role |-> IF i % 2 = 1 THEN "user" ELSE "assistant"] \in Row
    BY DEF Row, Authors
  <2> QED  BY <2>1, <2>2 DEF Init
<1>2. trace \in [RunIds -> Seq(Event)]
  BY DEF Init
<1>3. out \in [Runs -> Ends]
  BY DEF Init, Ends
<1>4. stage \in [Runs -> Stages] /\ response \in [Runs -> Responses]
  BY DEF Init, Stages, Responses
<1>5. pending \in Authors \cup {None} /\ expired \in BOOLEAN
  BY DEF Init, Authors
<1> QED  BY <1>1, <1>2, <1>3, <1>4, <1>5 DEF Init, Typed

LEMMA TypedStep ==
    ASSUME Typed, Phases, [Next]_chatVars
    PROVE  Typed'
<1>1. ASSUME NEW r \in Runs, Start(r)
      PROVE  Typed'
  BY <1>1 DEF Start, Typed, Stages, Awaiting, Responses, store
<1>2. ASSUME NEW r \in Runs, Runner(r)
      PROVE  Typed'
  <2>1. CASE Clarify(r)
    <3>1. Return(r, "clarification_required") /\ pending' \in Authors /\ expired' \in BOOLEAN
      BY <2>1 DEF Clarify, Authors
    <3> QED  BY <2>1, <3>1, ReturnTyped DEF Clarify, Typed, Statuses
  <2>2. CASE Answer(r)
    BY <2>2 DEF Answer, Typed, Stages, Awaiting
  <2>3. CASE EndWithout(r)
    <3>1. PICK st \in {"failed", "unanswered"} : Return(r, st)
      BY <2>3 DEF EndWithout
    <3> QED  BY <2>3, <3>1, ReturnTyped DEF EndWithout, Typed, Statuses, store
  <2>4. CASE SaveQuestion(r)
    <3>1. [run |-> r, role |-> "user"] \in Row
      BY DEF Row, Authors
    <3>2. turns' \in Seq(Row)
      BY <2>4, <3>1 DEF SaveQuestion, Typed
    <3>3. stage' \in [Runs -> Stages]
      BY <2>4 DEF SaveQuestion, Typed, Stages
    <3> QED  BY <2>4, <3>2, <3>3 DEF SaveQuestion, Typed
  <2>5. CASE SaveReply(r)
    <3>1. [run |-> r, role |-> "assistant"] \in Row
      BY DEF Row, Authors
    <3>2. turns' \in Seq(Row)
      BY <2>5, <3>1 DEF SaveReply, Typed
    <3>3. CASE SummaryDue(turns')
      <4>1. stage' = [stage EXCEPT ![r] = "summarizing"] /\ UNCHANGED <<seen, outcome>>
        BY <2>5, <3>3 DEF SaveReply
      <4>2. stage' \in [Runs -> Stages]
        BY <4>1 DEF Typed, Stages, Awaiting
      <4> QED  BY <2>5, <3>2, <4>1, <4>2 DEF SaveReply, Typed
    <3>4. CASE ~SummaryDue(turns')
      <4>1. Return(r, "completed")
        BY <2>5, <3>4 DEF SaveReply
      <4> QED  BY <2>5, <3>2, <4>1, ReturnTyped DEF SaveReply, Typed, Statuses
    <3> QED  BY <3>3, <3>4
  <2>6. CASE ReplyRefused(r)
    BY <2>6, ReturnTyped DEF ReplyRefused, Typed, Statuses, store
  <2>7. CASE SaveSummary(r)
    BY <2>7, ReturnTyped DEF SaveSummary, Typed, Statuses
  <2>8. CASE SummaryFails(r)
    BY <2>8, ReturnTyped DEF SummaryFails, Typed, Statuses, store
  <2>9. CASE RunnerStops(r)
    BY <2>9, ForgetTyped DEF RunnerStops, Typed, store
  <2> QED  BY <1>2, <2>1, <2>2, <2>3, <2>4, <2>5, <2>6, <2>7, <2>8, <2>9 DEF Runner
<1>3. ASSUME NEW r \in Runs, Adapter(r)
      PROVE  Typed'
  <2>1. CASE Publish(r)
    <3>1. EventsOf(outcome[r]) \in Ends
      <4>1. outcome[r] \in Statuses
        BY <2>1 DEF Publish, Phases, Phase, Typed
      <4> QED  BY <4>1 DEF EventsOf, Ends
    <3>2. out' = [out EXCEPT ![r] = EventsOf(outcome[r])] /\ Forget({r})
      BY <2>1 DEF Publish
    <3>3. out' \in [Runs -> Ends]
      BY <3>1, <3>2 DEF Typed
    <3> QED  BY <2>1, <3>2, <3>3, ForgetTyped DEF Publish, Typed, store
  <2>2. CASE Abort(r)
    <3>1. <<"cancelled">> \in Ends
      BY DEF Ends, Statuses
    <3> QED  BY <2>2, <3>1, ForgetTyped DEF Abort, Typed, store
  <2>3. CASE Emit(r)
    <3> DEFINE e == [run |-> r, kind |-> Head(out[r])]
    <3>1. out[r] \in Ends /\ out[r] # << >>
      BY <2>3 DEF Emit, Typed
    <3>2. e \in Event
      BY <3>1, NextEvent DEF Event
    <3>3. trace' = [trace EXCEPT ![runId[r]] = Append(@, e)] /\ out' = [out EXCEPT ![r] = Tail(@)]
      BY <2>3 DEF Emit
    <3>4. trace' \in [RunIds -> Seq(Event)]
      <4> HIDE DEF e
      <4>1. trace \in [RunIds -> Seq(Event)]
        BY DEF Typed
      <4>2. runId[r] \in RunIds
        BY <3>1 DEF Phases, Phase, Busy, Open
      <4>3. Append(trace[runId[r]], e) \in Seq(Event)
        BY <3>2, <4>1, <4>2
      <4> QED  BY <3>3, <4>1, <4>2, <4>3
    <3>5. out' \in [Runs -> Ends]
      BY <3>1, <3>3, NextEvent DEF Typed
    <3>6. response' \in [Runs -> Responses]
      BY <2>3, <3>1, NextEvent DEF Emit, Typed, Responses
    <3> QED  BY <2>3, <3>4, <3>5, <3>6 DEF Emit, Typed, store, locals
  <2>4. CASE EmitRefused(r)
    BY <2>4 DEF EmitRefused, Typed, store, locals, Ends, Responses, AfterRefusal
  <2> QED  BY <1>3, <2>1, <2>2, <2>3, <2>4 DEF Adapter
<1>4. CASE Crash
  <2>1. Forget({r \in Runs : stage[r] # "new"})
    BY <1>4 DEF Crash
  <2>2. out' \in [Runs -> Ends]
    BY <1>4 DEF Crash, Ends
  <2>3. response' \in [Runs -> Responses]
    BY <1>4 DEF Crash, Typed, Responses
  <2>4. UNCHANGED <<store, trace, runId>>
    BY <1>4 DEF Crash
  <2> DEFINE S == {r \in Runs : stage[r] # "new"}
  <2>5. Forget(S)
    BY <2>1
  <2> HIDE DEF S
  <2>6. /\ stage' \in [Runs -> Stages]
        /\ seen' \in [Runs -> Authors \cup {None}]
        /\ outcome' \in [Runs -> Statuses \cup {"none"}]
    BY <2>5, ForgetTyped
  <2>7. /\ turns' \in Seq(Row) /\ trace' \in [RunIds -> Seq(Event)]
        /\ pending' \in Authors \cup {None} /\ expired' \in BOOLEAN
        /\ runId' \in [Runs -> RunIds \cup {None}]
    BY <2>4 DEF Typed, store
  <2> QED  BY <2>2, <2>3, <2>6, <2>7 DEF Typed
<1>5. CASE Age
  BY <1>5 DEF Age, Typed, locals
<1>6. CASE Collect
  <2>1. turns' = << >> /\ pending' = None /\ expired' = FALSE
    BY <1>6 DEF Collect
  <2>2. turns' \in Seq(Row)
    BY <2>1
  <2>3. UNCHANGED <<trace, runId, stage, seen, outcome, out, response>>
    BY <1>6 DEF Collect, locals
  <2> QED  BY <2>1, <2>2, <2>3 DEF Typed
<1>7. CASE UNCHANGED chatVars
  BY <1>7 DEF chatVars, store, locals, Typed
<1> QED  BY <1>1, <1>2, <1>3, <1>4, <1>5, <1>6, <1>7 DEF Next

-----------------------------------------------------------------------------
\* The recent window is what lies between the rows behind it and a trailing question.
LEMMA RowsBehind ==
    ASSUME NEW rows \in Seq(Row)
    PROVE  /\ Behind(rows) \in Nat /\ Shown(rows) \in Nat /\ Len(rows) \in Nat
           /\ Behind(rows) <= Shown(rows) /\ Shown(rows) <= Len(rows)
           /\ Len(rows) <= Shown(rows) + 1
           /\ Recent(rows) = {i \in 1 .. Shown(rows) : i > Behind(rows)}
<1>1. Len(rows) \in Nat /\ Window \in Nat \ {0}
  BY ChatAssumption
<1>2. Shown(rows) \in Nat /\ Shown(rows) <= Len(rows) /\ Len(rows) <= Shown(rows) + 1
  BY <1>1 DEF Shown
<1>3. Behind(rows) \in Nat /\ Behind(rows) <= Shown(rows)
  BY <1>1, <1>2 DEF Behind
<1>4. Recent(rows) = {i \in 1 .. Shown(rows) : i > Shown(rows) - Window}
  BY DEF Recent, Shown
<1>5. \A i \in 1 .. Shown(rows) : i > Shown(rows) - Window <=> i > Behind(rows)
  BY <1>1, <1>2 DEF Behind
<1> QED  BY <1>1, <1>2, <1>3, <1>4, <1>5

\* A row that is added never moves the window back.
LEMMA BehindGrows ==
    ASSUME NEW rows \in Seq(Row), NEW row \in Row
    PROVE  Behind(rows) <= Behind(Append(rows, row))
<1> DEFINE more == Append(rows, row)
<1>1. more \in Seq(Row) /\ Len(more) = Len(rows) + 1 /\ Len(rows) \in Nat /\ Window \in Nat
  BY ChatAssumption
<1>2. Shown(rows) <= Shown(more)
  BY <1>1 DEF Shown
<1>3. Shown(rows) \in Nat /\ Shown(more) \in Nat
  BY <1>1, RowsBehind
<1> HIDE DEF more
<1>4. Behind(rows) <= Behind(more)
  BY <1>1, <1>2, <1>3 DEF Behind
<1> QED  BY <1>4 DEF more

\* The checkpoint a summary aims at is the number of rows behind the window.
LEMMA OldestIsNext ==
    ASSUME NEW rows \in Seq(Row), Recent(rows) # {}
    PROVE  Checkpoint(rows) = Behind(rows)
<1> DEFINE n == Behind(rows)  m == Shown(rows)
<1>1. n \in Nat /\ m \in Nat /\ Recent(rows) = {i \in 1 .. m : i > n}
  BY RowsBehind
<1> HIDE DEF n, m
<1>2. n + 1 \in Recent(rows) /\ \A j \in Recent(rows) : n + 1 <= j
  BY <1>1
<1>3. Oldest(rows) \in Recent(rows) /\ \A j \in Recent(rows) : Oldest(rows) <= j
  BY <1>2 DEF Oldest
<1>4. Oldest(rows) \in Nat /\ Oldest(rows) > n /\ Oldest(rows) <= n + 1
  BY <1>1, <1>2, <1>3
<1>5. Oldest(rows) = n + 1
  BY <1>1, <1>4
<1> QED  BY <1>1, <1>5 DEF Checkpoint, n

\* Only a saving run and the collector change the rows.
LEMMA OtherTurns ==
    ASSUME [Next]_chatVars, ~Collect, \A r \in Runs : ~SaveQuestion(r) /\ ~SaveReply(r)
    PROVE  turns' = turns
<1>2. ASSUME NEW r \in Runs, Runner(r), ~SaveQuestion(r), ~SaveReply(r)
      PROVE  turns' = turns
  BY <1>2 DEF Runner, Clarify, Answer, EndWithout, ReplyRefused, SaveSummary, SummaryFails,
              RunnerStops, store
<1>3. ASSUME NEW r \in Runs, Start(r) \/ Adapter(r)
      PROVE  turns' = turns
  BY <1>3 DEF Start, Adapter, Publish, Abort, Emit, EmitRefused, store
<1>4. ASSUME Crash \/ Age
      PROVE  turns' = turns
  BY <1>4 DEF Crash, Age, store
<1>5. UNCHANGED chatVars => turns' = turns
  BY DEF chatVars, store
<1> QED  BY <1>2, <1>3, <1>4, <1>5 DEF Next

\* Rows are added one at a time, until the session is collected.
LEMMA TurnsMove ==
    ASSUME [Next]_chatVars
    PROVE  \/ turns' = turns
           \/ \E r \in Runs, role \in {"user", "assistant"} :
                turns' = Append(turns, [run |-> r, role |-> role])
           \/ Collect
<1>1. ASSUME NEW r \in Runs, SaveQuestion(r) \/ SaveReply(r)
      PROVE  \E role \in {"user", "assistant"} : turns' = Append(turns, [run |-> r, role |-> role])
  BY <1>1 DEF SaveQuestion, SaveReply
<1> QED  BY <1>1, OtherTurns

\* A question and its reply stay side by side until then.
LEMMA PairStays ==
    ASSUME Typed, NEW q \in Runs, Paired(q), [Next]_chatVars
    PROVE  Paired(q)' \/ Collect
<1>1. PICK i \in DOMAIN turns :
        /\ turns[i] = [run |-> q, role |-> "assistant"]
        /\ i > 1 /\ turns[i - 1] = [run |-> q, role |-> "user"]
  BY DEF Paired
<1>2. ASSUME NEW r \in Runs, NEW role \in {"user", "assistant"},
             turns' = Append(turns, [run |-> r, role |-> role])
      PROVE  Paired(q)'
  <2>1. turns \in Seq(Row) /\ [run |-> r, role |-> role] \in Row
    BY DEF Typed, Row, Authors
  <2>2. i - 1 \in DOMAIN turns
    BY <1>1, <2>1
  <2>3. i \in DOMAIN turns' /\ turns'[i] = turns[i] /\ turns'[i - 1] = turns[i - 1]
    BY <1>1, <1>2, <2>1, <2>2
  <2> QED  BY <1>1, <2>3 DEF Paired
<1>3. turns' = turns => Paired(q)'
  BY DEF Paired
<1> QED  BY <1>2, <1>3, TurnsMove


\* Only a saved reply makes an answer.
LEMMA AnsweredBefore ==
    ASSUME Typed, Phases, NEW q \in Runs, Answered(q)', [Next]_chatVars
    PROVE  Answered(q) \/ SaveReply(q)
<1> USE DEF Typed
<1>1. ASSUME NEW r \in Runs, Start(r)
      PROVE  Answered(q)
  BY <1>1 DEF Start, Answered, Has
<1>2. ASSUME NEW r \in Runs, Runner(r), ~SaveReply(q)
      PROVE  Answered(q)
  <2>1. CASE Clarify(r)
    BY <2>1 DEF Clarify, Return, Answered, Has
  <2>2. CASE Answer(r)
    BY <2>2 DEF Answer, Answered, Has
  <2>3. CASE EndWithout(r)
    BY <2>3 DEF EndWithout, Return, Answered, Has
  <2>4. CASE SaveQuestion(r)
    BY <2>4 DEF SaveQuestion, Answered, Has
  <2>5. CASE SaveReply(r)
    <3>1. r # q
      BY <1>2, <2>5
    <3>2. stage'[q] = stage[q] /\ outcome'[q] = outcome[q] /\ out'[q] = out[q]
      BY <2>5, <3>1 DEF SaveReply, Return
    <3> QED  BY <3>2 DEF Answered, Has
  <2>6. CASE ReplyRefused(r)
    BY <2>6 DEF ReplyRefused, Return, Answered, Has
  <2>7. CASE SaveSummary(r)
    BY <2>7 DEF SaveSummary, Return, Answered, Has
  <2>8. CASE SummaryFails(r)
    BY <2>8 DEF SummaryFails, Return, Answered, Has
  <2>9. CASE RunnerStops(r)
    BY <2>9 DEF RunnerStops, Forget, Answered, Has
  <2> QED  BY <1>2, <2>1, <2>2, <2>3, <2>4, <2>5, <2>6, <2>7, <2>8, <2>9 DEF Runner
<1>3. ASSUME NEW r \in Runs, Adapter(r)
      PROVE  Answered(q)
  <2>1. CASE Publish(r)
    <3>1. out' = [out EXCEPT ![r] = EventsOf(outcome[r])] /\ Forget({r})
      BY <2>1 DEF Publish
    <3>2. CASE q = r
      <4>1. stage'[q] = "ended" /\ outcome'[q] = "none"
        BY <3>1, <3>2 DEF Forget
      <4>2. Has(EventsOf(outcome[r]), "completed")
        BY <3>1, <3>2, <4>1 DEF Answered, Has
      <4>3. outcome[r] = "completed"
        BY <4>2 DEF EventsOf, Has
      <4> QED  BY <3>2, <4>3 DEF Answered
    <3>3. CASE q # r
      <4>1. stage'[q] = stage[q] /\ outcome'[q] = outcome[q] /\ out'[q] = out[q]
        BY <3>1, <3>3 DEF Forget
      <4> QED  BY <4>1 DEF Answered, Has
    <3> QED  BY <3>2, <3>3
  <2>2. CASE Abort(r)
    <3>1. out' = [out EXCEPT ![r] = <<"cancelled">>]
      BY <2>2 DEF Abort
    <3>2. Has(out'[q], "completed") => Has(out[q], "completed")
      <4>1. ~Has(<<"cancelled">>, "completed")
        BY DEF Has
      <4>2. CASE q = r
        BY <3>1, <4>1, <4>2
      <4>3. CASE q # r
        BY <3>1, <4>3
      <4> QED  BY <4>2, <4>3
    <3>3. /\ stage'[q] = stage[q] \/ stage'[q] = "ended"
          /\ outcome'[q] = outcome[q] \/ outcome'[q] = "none"
      BY <2>2 DEF Abort, Forget
    <3> QED  BY <3>2, <3>3 DEF Answered, Has
  <2>3. CASE Emit(r)
    <3>1. out' = [out EXCEPT ![r] = Tail(@)] /\ UNCHANGED <<stage, outcome>>
      BY <2>3 DEF Emit, locals
    <3>2. out[r] \in Ends /\ out[r] # << >>
      BY <2>3 DEF Emit
    <3>3. \A x : Has(Tail(out[r]), x) => Has(out[r], x)
      BY <3>2, NextEvent
    <3>4. Has(out'[q], "completed") => Has(out[q], "completed")
      <4>1. CASE q = r
        BY <3>1, <3>3, <4>1
      <4>2. CASE q # r
        BY <3>1, <4>2
      <4> QED  BY <4>1, <4>2
    <3> QED  BY <3>1, <3>4 DEF Answered, Has
  <2>4. CASE EmitRefused(r)
    <3>1. out' = [out EXCEPT ![r] = << >>] /\ UNCHANGED <<stage, outcome>>
      BY <2>4 DEF EmitRefused, locals
    <3> QED  BY <3>1 DEF Answered, Has
  <2> QED  BY <1>3, <2>1, <2>2, <2>3, <2>4 DEF Adapter
<1>4. ASSUME Crash
      PROVE  Answered(q)
  <2>1. /\ stage'[q] = stage[q] \/ stage'[q] = "ended"
        /\ outcome'[q] = outcome[q] \/ outcome'[q] = "none"
        /\ out'[q] = << >>
    BY <1>4 DEF Crash, Forget
  <2> QED  BY <2>1 DEF Answered, Has
<1>5. ASSUME Age \/ Collect \/ UNCHANGED chatVars
      PROVE  Answered(q)
  BY <1>5 DEF Age, Collect, chatVars, locals, Answered, Has
<1> QED  BY <1>1, <1>2, <1>3, <1>4, <1>5 DEF Next


\* Who is between two awaits got there while nobody was.
LEMMA BusyBefore ==
    ASSUME Typed, NEW q \in Runs, Busy(q)', [Next]_chatVars
    PROVE  Busy(q) \/ (LoopFree /\ \A p \in Runs : p # q => ~Busy(p)')
<1> USE DEF Typed
<1>1. ASSUME NEW r \in Runs, SaveQuestion(r) \/ Publish(r) \/ Abort(r)
      PROVE  Busy(q) \/ (LoopFree /\ \A p \in Runs : p # q => ~Busy(p)')
  <2>1. LoopFree /\ \A p \in Runs : p # r => stage'[p] = stage[p] /\ out'[p] = out[p]
    BY <1>1 DEF SaveQuestion, Publish, Abort, Forget
  <2>2. \A p \in Runs : p # r => ~Busy(p)'
    BY <2>1 DEF LoopFree, Busy
  <2> QED  BY <2>1, <2>2
<1>2. ASSUME NEW r \in Runs, Start(r) \/ Runner(r), ~SaveQuestion(r)
      PROVE  Busy(q)
  <2>1. CASE Start(r)
    BY <2>1 DEF Start, Busy
  <2>2. CASE Clarify(r) \/ EndWithout(r) \/ ReplyRefused(r) \/ SaveSummary(r) \/ SummaryFails(r)
    BY <2>2 DEF Clarify, EndWithout, ReplyRefused, SaveSummary, SummaryFails, Return, Busy
  <2>3. CASE Answer(r)
    BY <2>3 DEF Answer, Busy
  <2>4. CASE SaveReply(r)
    BY <2>4 DEF SaveReply, Return, Busy
  <2>5. CASE RunnerStops(r)
    BY <2>5 DEF RunnerStops, Forget, Busy
  <2> QED  BY <1>2, <2>1, <2>2, <2>3, <2>4, <2>5 DEF Runner
<1>3. ASSUME NEW r \in Runs, Emit(r) \/ EmitRefused(r)
      PROVE  Busy(q)
  <2>1. \A p \in Runs : p # r => out'[p] = out[p]
    BY <1>3 DEF Emit, EmitRefused
  <2>2. out[r] # << >> /\ stage' = stage
    BY <1>3 DEF Emit, EmitRefused, locals
  <2> QED  BY <2>1, <2>2 DEF Busy
<1>4. ASSUME Crash
      PROVE  Busy(q)
  BY <1>4 DEF Crash, Forget, Busy
<1>5. ASSUME Age \/ Collect \/ UNCHANGED chatVars
      PROVE  Busy(q)
  BY <1>5 DEF Age, Collect, chatVars, locals, Busy
<1> QED  BY <1>1, <1>2, <1>3, <1>4, <1>5 DEF Next, Adapter, Runner

\* No two runs are between two awaits.
LEMMA OneBusyStep ==
    ASSUME Typed, OneBusy, [Next]_chatVars
    PROVE  OneBusy'
<1> SUFFICES ASSUME NEW q \in Runs, NEW r \in Runs, Busy(q)', Busy(r)'
             PROVE  q = r
  BY DEF OneBusy
<1>1. CASE Busy(q) /\ Busy(r)
  BY <1>1 DEF OneBusy
<1>2. CASE ~Busy(q) \/ ~Busy(r)
  BY <1>2, BusyBefore
<1> QED  BY <1>1, <1>2

\* Every step keeps the phases of every run.
LEMMA PhaseStep ==
    ASSUME Typed, Phases, NEW q \in Runs, [Next]_chatVars
    PROVE  Phase(q)'
<1>0. Phase(q)
  BY DEF Phases
<1> USE DEF Typed
<1>1. ASSUME NEW r \in Runs, Start(r)
      PROVE  Phase(q)'
  BY <1>0, <1>1 DEF Start, Phase, Busy, Open
<1>2. ASSUME NEW r \in Runs, Runner(r)
      PROVE  Phase(q)'
  <2>1. CASE Clarify(r)
    BY <1>0, <2>1 DEF Clarify, Return, Phase, Busy, Open
  <2>2. CASE Answer(r)
    BY <1>0, <2>2 DEF Answer, Phase, Busy, Open
  <2>3. CASE EndWithout(r)
    BY <1>0, <2>3 DEF EndWithout, Return, Phase, Busy, Open
  <2>4. CASE SaveQuestion(r)
    BY <1>0, <2>4 DEF SaveQuestion, LoopFree, MayPersist, Phase, Busy, Open
  <2>5. CASE SaveReply(r)
    BY <1>0, <2>5 DEF SaveReply, Return, Phase, Busy, Open
  <2>6. CASE ReplyRefused(r)
    BY <1>0, <2>6 DEF ReplyRefused, Return, Phase, Busy, Open
  <2>7. CASE SaveSummary(r)
    BY <1>0, <2>7 DEF SaveSummary, Return, Phase, Busy, Open
  <2>8. CASE SummaryFails(r)
    BY <1>0, <2>8 DEF SummaryFails, Return, Phase, Busy, Open
  <2>9. CASE RunnerStops(r)
    BY <1>0, <2>9 DEF RunnerStops, Forget, Phase, Busy, Open
  <2> QED  BY <1>2, <2>1, <2>2, <2>3, <2>4, <2>5, <2>6, <2>7, <2>8, <2>9 DEF Runner
<1>3. ASSUME NEW r \in Runs, Adapter(r)
      PROVE  Phase(q)'
  <2>1. CASE Publish(r)
    BY <1>0, <2>1 DEF Publish, Forget, Phase, Busy, Open
  <2>2. CASE Abort(r)
    BY <1>0, <2>2 DEF Abort, Abortable, Awaiting, Forget, Phase, Busy, Open
  <2>3. CASE Emit(r)
    <3>1. /\ out' = [out EXCEPT ![r] = Tail(@)] /\ UNCHANGED <<stage, outcome, runId>>
          /\ response' = [response EXCEPT ![r] =
                           IF Tail(out[r]) = << >> THEN Head(out[r]) ELSE @]
      BY <2>3 DEF Emit, locals
    <3>2. CASE q # r
      BY <1>0, <3>1, <3>2 DEF Phase, Busy, Open
    <3>3. CASE q = r
      <4>1. Open(r) /\ stage[r] # "saving" /\ stage[r] # "new" /\ runId[r] \in RunIds
        BY <1>0, <2>3, <3>3 DEF Emit, Phase, Busy, Open
      <4>2. out'[r] = Tail(out[r])
        BY <3>1
      <4>3. response'[r] = IF out'[r] = << >> THEN Head(out[r]) ELSE "open"
        BY <3>1, <4>1, <4>2 DEF Open
      <4> QED  BY <1>0, <3>1, <3>3, <4>1, <4>2, <4>3 DEF Phase, Busy, Open
    <3> QED  BY <3>2, <3>3
  <2>4. CASE EmitRefused(r)
    BY <1>0, <2>4 DEF EmitRefused, locals, Phase, Busy, Open
  <2> QED  BY <1>3, <2>1, <2>2, <2>3, <2>4 DEF Adapter
<1>4. ASSUME Crash
      PROVE  Phase(q)'
  BY <1>0, <1>4 DEF Crash, Forget, Phase, Busy, Open
<1>5. ASSUME Age \/ Collect \/ UNCHANGED chatVars
      PROVE  Phase(q)'
  BY <1>0, <1>5 DEF Age, Collect, chatVars, locals, Phase, Busy, Open
<1> QED  BY <1>1, <1>2, <1>3, <1>4, <1>5 DEF Next


\* A run that is saving has just begun to, or is still at it.
LEMMA SavingBefore ==
    ASSUME Typed, NEW q \in Runs, stage'[q] = "saving", [Next]_chatVars
    PROVE  (stage[q] = "saving" /\ ~SaveReply(q)) \/ SaveQuestion(q)
<1> USE DEF Typed
<1>1. ASSUME NEW r \in Runs, Start(r)
      PROVE  stage[q] = "saving" /\ ~SaveReply(q)
  BY <1>1 DEF Start, SaveReply, LoopFree
<1>2. ASSUME NEW r \in Runs, Runner(r), ~SaveQuestion(q)
      PROVE  stage[q] = "saving"
  <2>1. CASE Clarify(r) \/ EndWithout(r) \/ ReplyRefused(r) \/ SaveSummary(r) \/ SummaryFails(r)
    BY <2>1 DEF Clarify, EndWithout, ReplyRefused, SaveSummary, SummaryFails, Return
  <2>2. CASE Answer(r) \/ SaveQuestion(r)
    BY <1>2, <2>2 DEF Answer, SaveQuestion
  <2>3. CASE SaveReply(r)
    BY <2>3 DEF SaveReply, Return
  <2>4. CASE RunnerStops(r)
    BY <2>4 DEF RunnerStops, Forget
  <2> QED  BY <1>2, <2>1, <2>2, <2>3, <2>4 DEF Runner
<1>3. ASSUME NEW r \in Runs, Adapter(r)
      PROVE  stage[q] = "saving"
  BY <1>3 DEF Adapter, Publish, Abort, Emit, EmitRefused, Forget, locals
<1>4. ASSUME Crash \/ Age \/ Collect \/ UNCHANGED chatVars
      PROVE  stage[q] = "saving"
  BY <1>4 DEF Crash, Forget, Age, Collect, chatVars, locals
<1>5. ~SaveReply(q)
  BY DEF SaveReply, Return
<1> QED  BY <1>1, <1>2, <1>3, <1>4, <1>5 DEF Next

\* A session expires by time alone, and a question revives it.
LEMMA ExpiredBefore ==
    ASSUME expired', [Next]_chatVars
    PROVE  (expired /\ \A r \in Runs : ~SaveQuestion(r)) \/ Age
<1>1. ASSUME NEW r \in Runs, Start(r) \/ Runner(r) \/ Adapter(r)
      PROVE  expired
  BY <1>1 DEF Start, Runner, Clarify, Answer, EndWithout, SaveQuestion, SaveReply, ReplyRefused,
              SaveSummary, SummaryFails, RunnerStops, Adapter, Publish, Abort, Emit,
              EmitRefused, store
<1>2. ASSUME Crash \/ Collect \/ UNCHANGED chatVars
      PROVE  expired
  BY <1>2 DEF Crash, Collect, chatVars, store
<1>3. \A r \in Runs : ~SaveQuestion(r)
  BY DEF SaveQuestion
<1> QED  BY <1>1, <1>2, <1>3 DEF Next

\* What is answered is saved, and no run that saves or sums up sees its session expire.
LEMMA KeepsStep ==
    ASSUME Typed, OneBusy, Phases, Kept, NEW q \in Runs, [Next]_chatVars
    PROVE  Keeps(q)'
<1>0. Keeps(q) /\ Phase(q)
  BY DEF Kept, Phases
<1>1. ASSUME stage'[q] = "saving"
      PROVE  Asked(q)'
  <2>1. CASE SaveQuestion(q)
    <3>1. turns \in Seq(Row) /\ [run |-> q, role |-> "user"] \in Row
      BY DEF Typed, Row, Authors
    <3>2. turns' = Append(turns, [run |-> q, role |-> "user"])
      BY <2>1 DEF SaveQuestion
    <3> QED  BY <3>1, <3>2 DEF Asked
  <2>2. CASE stage[q] = "saving" /\ ~SaveReply(q) /\ ~SaveQuestion(q)
    <3>1. turns' = turns
      <4>1. ~LoopFree
        BY <2>2 DEF LoopFree
      <4>2. ~Collect /\ \A r \in Runs : ~SaveQuestion(r)
        BY <4>1 DEF Collect, SaveQuestion
      <4>3. \A r \in Runs : ~SaveReply(r)
        BY <2>2 DEF SaveReply, OneBusy, Busy
      <4> QED  BY <4>2, <4>3, OtherTurns
    <3> QED  BY <1>0, <2>2, <3>1 DEF Keeps, Asked
  <2> QED  BY <1>1, <2>1, <2>2, SavingBefore
<1>2. ASSUME Answered(q)'
      PROVE  Paired(q)'
  <2>1. CASE SaveReply(q)
    <3>1. turns \in Seq(Row) /\ [run |-> q, role |-> "assistant"] \in Row
      BY DEF Typed, Row, Authors
    <3>2. turns' = Append(turns, [run |-> q, role |-> "assistant"]) /\ Asked(q)
      BY <1>0, <2>1 DEF SaveReply, Keeps
    <3>3. /\ Len(turns) + 1 \in DOMAIN turns' /\ Len(turns) + 1 > 1
          /\ turns'[Len(turns) + 1] = [run |-> q, role |-> "assistant"]
          /\ turns'[Len(turns) + 1 - 1] = [run |-> q, role |-> "user"]
      BY <3>1, <3>2 DEF Asked
    <3> QED  BY <3>3 DEF Paired
  <2>2. CASE ~SaveReply(q)
    <3>1. Answered(q)
      BY <1>2, <2>2, AnsweredBefore
    <3>2. Paired(q) /\ ~Collect
      BY <1>0, <3>1 DEF Keeps, Collect
    <3> QED  BY <3>2, PairStays
  <2> QED  BY <2>1, <2>2
<1>3. ASSUME expired', stage'[q] = "saving" \/ Answered(q)'
      PROVE  FALSE
  <2>1. CASE Age
    <3>1. /\ stage'[q] = stage[q] /\ outcome'[q] = outcome[q] /\ out'[q] = out[q]
          /\ stage[q] \in {"new", "ended"} /\ ~Open(q)
      BY <2>1 DEF Age, locals
    <3>2. out[q] = << >> /\ outcome[q] = "none"
      BY <1>0, <3>1 DEF Phase, Busy
    <3> QED  BY <1>3, <3>1, <3>2 DEF Answered, Has
  <2>2. CASE expired /\ \A r \in Runs : ~SaveQuestion(r)
    <3>1. stage[q] # "saving" /\ ~Answered(q)
      BY <1>0, <2>2 DEF Keeps
    <3>2. ~SaveReply(q)
      BY <3>1 DEF SaveReply
    <3> QED  BY <1>3, <2>2, <3>1, <3>2, SavingBefore, AnsweredBefore
  <2> QED  BY <1>3, <2>1, <2>2, ExpiredBefore
<1> QED  BY <1>1, <1>2, <1>3 DEF Keeps


\* Only a saved summary and the collector change the summary.
LEMMA OtherSummaries ==
    ASSUME [Next]_chatVars, ~Collect, \A r \in Runs : ~SaveSummary(r)
    PROVE  summary' = summary
<1>1. ASSUME NEW r \in Runs, Runner(r)
      PROVE  summary' = summary
  BY <1>1 DEF Runner, Clarify, Answer, EndWithout, SaveQuestion, SaveReply, ReplyRefused,
              SummaryFails, RunnerStops, store
<1>2. ASSUME NEW r \in Runs, Start(r) \/ Adapter(r)
      PROVE  summary' = summary
  BY <1>2 DEF Start, Adapter, Publish, Abort, Emit, EmitRefused, store
<1>3. ASSUME Crash \/ Age \/ UNCHANGED chatVars
      PROVE  summary' = summary
  BY <1>3 DEF Crash, Age, chatVars, store
<1> QED  BY <1>1, <1>2, <1>3 DEF Next

\* A summary stays exact while the window moves on.
LEMMA ExactStays ==
    ASSUME NEW s, NEW m \in Nat, NEW n \in Nat, m <= n, Exact(s, m)
    PROVE  Exact(s, n)
BY DEF Exact

\* A session without summary has folded nothing.
LEMMA NothingFolded ==
    ASSUME NEW n \in Nat
    PROVE  Exact(NoSummary, n)
BY DEF Exact, NoSummary

\* The window never moves back, but where the collector empties the session.
LEMMA BehindStays ==
    ASSUME Typed, [Next]_chatVars, ~Collect
    PROVE  Behind(turns) \in Nat /\ Behind(turns') \in Nat /\ Behind(turns) <= Behind(turns')
<1>1. turns \in Seq(Row) /\ Behind(turns) \in Nat
  BY RowsBehind DEF Typed
<1>2. ASSUME NEW r \in Runs, NEW role \in {"user", "assistant"},
             turns' = Append(turns, [run |-> r, role |-> role])
      PROVE  Behind(turns') \in Nat /\ Behind(turns) <= Behind(turns')
  <2>1. [run |-> r, role |-> role] \in Row
    BY DEF Row, Authors
  <2>2. Append(turns, [run |-> r, role |-> role]) \in Seq(Row)
    BY <1>1, <2>1
  <2> QED  BY <1>1, <1>2, <2>1, <2>2, RowsBehind, BehindGrows
<1>3. turns' = turns => Behind(turns') \in Nat /\ Behind(turns) <= Behind(turns')
  BY <1>1
<1> QED  BY <1>1, <1>2, <1>3, TurnsMove

\* A run that returned, or is forgotten, waits for no summary.
LEMMA ReturnFolds ==
    ASSUME Typed, NEW n \in Nat, Folds(n), NEW r \in Runs, NEW st, Return(r, st)
    PROVE  Folds(n)'
BY DEF Typed, Folds, Return

LEMMA ForgetFolds ==
    ASSUME Typed, NEW n \in Nat, Folds(n), NEW S, Forget(S)
    PROVE  Folds(n)'
BY DEF Typed, Folds, Forget

\* A run that goes on waiting waits for the same summary.
LEMMA WaitingFolds ==
    ASSUME Typed, NEW n \in Nat, Folds(n), fold' = fold,
           \A q \in Runs : stage'[q] = "summarizing" <=> stage[q] = "summarizing"
    PROVE  Folds(n)'
BY DEF Typed, Folds

\* Every fold keeps its rows while a run comes to wait for one.
LEMMA FoldsKept ==
    ASSUME Typed, NEW n \in Nat, Folds(n), [Next]_chatVars, \A r \in Runs : ~SaveReply(r)
    PROVE  Folds(n)'
<1>1. ASSUME NEW r \in Runs, Start(r) \/ Answer(r) \/ SaveQuestion(r) \/ Emit(r) \/ EmitRefused(r)
      PROVE  Folds(n)'
  BY <1>1, WaitingFolds DEF Start, Answer, SaveQuestion, Emit, EmitRefused, locals, Typed
<1>2. ASSUME NEW r \in Runs,
             Clarify(r) \/ EndWithout(r) \/ ReplyRefused(r) \/ SaveSummary(r) \/ SummaryFails(r)
      PROVE  Folds(n)'
  BY <1>2, ReturnFolds DEF Clarify, EndWithout, ReplyRefused, SaveSummary, SummaryFails
<1>3. ASSUME NEW r \in Runs, RunnerStops(r) \/ Publish(r) \/ Abort(r)
      PROVE  Folds(n)'
  BY <1>3, ForgetFolds DEF RunnerStops, Publish, Abort
<1>4. ASSUME Crash
      PROVE  Folds(n)'
  BY <1>4, ForgetFolds DEF Crash
<1>5. ASSUME Age \/ Collect \/ UNCHANGED chatVars
      PROVE  Folds(n)'
  BY <1>5, WaitingFolds DEF Age, Collect, chatVars, locals
<1> QED  BY <1>1, <1>2, <1>3, <1>4, <1>5 DEF Next, Runner, Adapter

\* The summaries in flight stay exact while the window moves on.
LEMMA FoldsGrow ==
    ASSUME NEW m \in Nat, NEW n \in Nat, m <= n, Folds(m)
    PROVE  Folds(n)
BY ExactStays DEF Folds

\* Every step keeps the summary, and those in flight, exact.
LEMMA SummariesStep ==
    ASSUME Typed, Kept, Summaries, [Next]_chatVars
    PROVE  Summaries'
<1>a. PICK m : m = Behind(turns)
  OBVIOUS
<1>b. PICK n : n = Behind(turns')
  OBVIOUS
<1>0. Exact(summary, m) /\ Folds(m)
  BY <1>a DEF Summaries, Folds
<1>1. CASE Collect
  <2>1. fold' = fold /\ stage' = stage /\ summary' = NoSummary /\ turns' = << >> /\ expired
    BY <1>1 DEF Collect, locals
  <2>2. n \in Nat
    <3>1. << >> \in Seq(Row)
      OBVIOUS
    <3> QED  BY <1>b, <2>1, <3>1, RowsBehind
  <2>3. \A r \in Runs : stage[r] # "summarizing"
    BY <2>1 DEF Kept, Keeps, Answered
  <2>4. Folds(n)'
    BY <1>0, <2>1, <2>3 DEF Folds
  <2>5. Exact(summary', n)
    BY <2>1, <2>2, NothingFolded
  <2> QED  BY <1>b, <2>4, <2>5 DEF Summaries, Folds
<1>2. CASE ~Collect
  <2>1. m \in Nat /\ n \in Nat /\ m <= n
    BY <1>a, <1>b, <1>2, BehindStays
  <2>2. Exact(summary, n) /\ Folds(n)
    BY <1>0, <2>1, ExactStays, FoldsGrow
  <2>3. ASSUME NEW r \in Runs, SaveReply(r)
        PROVE  Exact(summary', n) /\ Folds(n)'
    <3>1. summary' = summary /\ turns' \in Seq(Row)
      <4>1. turns \in Seq(Row) /\ [run |-> r, role |-> "assistant"] \in Row
        BY DEF Typed, Row, Authors
      <4> QED  BY <2>3, <4>1 DEF SaveReply
    <3>2. CASE SummaryDue(turns')
      <4> DEFINE s == [through |-> Checkpoint(turns'),
                       covers |-> summary.covers
                                    \cup OlderTurns(summary.through, Checkpoint(turns'))]
      <4>1. stage' = [stage EXCEPT ![r] = "summarizing"] /\ fold' = [fold EXCEPT ![r] = s]
        BY <2>3, <3>2 DEF SaveReply
      <4>2. Checkpoint(turns') = n /\ n > summary.through
        BY <1>b, <3>1, <3>2, OldestIsNext DEF SummaryDue
      <4>3. summary.covers = 1 .. summary.through /\ summary.through \in Nat
        BY <1>0 DEF Exact
      <4>4. 1 .. summary.through \cup (summary.through + 1) .. n = 1 .. n
        BY <2>1, <4>2, <4>3
      <4>5. s = [through |-> n, covers |-> 1 .. n]
        BY <4>2, <4>3, <4>4 DEF OlderTurns
      <4>6. Exact(s, n)
        BY <2>1, <4>5 DEF Exact
      <4> HIDE DEF s
      <4>7. Folds(n)'
        BY <2>2, <4>1, <4>6 DEF Folds, Typed
      <4> QED  BY <2>2, <3>1, <4>7
    <3>3. CASE ~SummaryDue(turns')
      <4>1. Return(r, "completed")
        BY <2>3, <3>3 DEF SaveReply
      <4> QED  BY <2>1, <2>2, <3>1, <4>1, ReturnFolds
    <3> QED  BY <3>2, <3>3
  <2>4. ASSUME \A r \in Runs : ~SaveReply(r)
        PROVE  Exact(summary', n) /\ Folds(n)'
    <3>1. Folds(n)'
      BY <2>1, <2>2, <2>4, FoldsKept
    <3>2. ASSUME NEW r \in Runs, SaveSummary(r)
          PROVE  Exact(summary', n)
      BY <2>2, <3>2 DEF SaveSummary, Folds
    <3>3. ASSUME \A r \in Runs : ~SaveSummary(r)
          PROVE  summary' = summary
      BY <1>2, <2>4, <3>3, OtherSummaries
    <3> QED  BY <2>2, <3>1, <3>2, <3>3
  <2>5. Exact(summary', n) /\ Folds(n)'
    BY <2>3, <2>4
  <2> QED  BY <1>b, <2>5 DEF Summaries, Folds
<1> QED  BY <1>1, <1>2


\* A stream gets its end, and a trace its events, from the adapter alone.
LEMMA OnlyEmitTells ==
    ASSUME Typed, Phases, [Next]_chatVars, \A r \in Runs : ~Emit(r)
    PROVE  /\ trace' = trace
           /\ \A q \in Runs :
                /\ response[q] \in Statuses => response'[q] = response[q] /\ runId'[q] = runId[q]
                /\ response'[q] \in Statuses => response[q] \in Statuses
<1> USE DEF Typed
<1>1. ASSUME NEW r \in Runs, Start(r)
      PROVE  /\ trace' = trace /\ response[r] = "none"
             /\ runId' = [runId EXCEPT ![r] = runId'[r]]
             /\ response' = [response EXCEPT ![r] = "open"]
  BY <1>1 DEF Start, Phases, Phase
<1>2. ASSUME NEW r \in Runs, Runner(r) \/ Publish(r) \/ Abort(r)
      PROVE  UNCHANGED <<trace, response, runId>>
  BY <1>2 DEF Runner, Clarify, Answer, EndWithout, SaveQuestion, SaveReply, ReplyRefused,
              SaveSummary, SummaryFails, RunnerStops, Publish, Abort
<1>3. ASSUME NEW r \in Runs, EmitRefused(r)
      PROVE  /\ UNCHANGED <<trace, runId>> /\ response[r] = "open"
             /\ response' = [response EXCEPT ![r] = "refused"]
  BY <1>3 DEF EmitRefused, AfterRefusal, locals, Phases, Phase, Busy, Open
<1>4. ASSUME Crash
      PROVE  /\ UNCHANGED <<trace, runId>>
             /\ response' = [r \in Runs |-> IF response[r] = "open" THEN "dropped" ELSE response[r]]
  BY <1>4 DEF Crash, Open
<1>5. ASSUME Age \/ Collect \/ UNCHANGED chatVars
      PROVE  UNCHANGED <<trace, response, runId>>
  BY <1>5 DEF Age, Collect, chatVars, locals
<1>6. Statuses \cap {"none", "open", "refused", "dropped"} = {}
  BY DEF Statuses
<1>7. CASE \E r \in Runs : Start(r)
  BY <1>1, <1>6, <1>7
<1>8. CASE \E r \in Runs : EmitRefused(r)
  BY <1>3, <1>6, <1>8
<1>9. CASE Crash
  BY <1>4, <1>6, <1>9
<1>10. CASE UNCHANGED <<trace, response, runId>>
  BY <1>10
<1> QED  BY <1>2, <1>5, <1>7, <1>8, <1>9, <1>10 DEF Next, Adapter

\* Events of a trace are of runs.
LEMMA EventsTyped ==
    ASSUME Typed, NEW i \in RunIds, NEW k \in DOMAIN trace[i]
    PROVE  trace[i][k] \in Event /\ trace[i][k].run \in Runs
<1>1. trace[i] \in Seq(Event)
  BY DEF Typed
<1>2. trace[i][k] \in Event
  BY <1>1
<1> QED  BY <1>2 DEF Event

\* The trace of an emitting run holds its events alone, and no terminal one.
LEMMA EmitsToItsOwn ==
    ASSUME Typed, Phases, Told, NEW r \in Runs, Emit(r)
    PROVE  /\ runId[r] \in RunIds /\ Open(r)
           /\ \A k \in DOMAIN trace[runId[r]] :
                trace[runId[r]][k].run = r /\ trace[runId[r]][k].kind \notin Statuses
<1>1. runId[r] \in RunIds /\ Open(r)
  BY DEF Phases, Phase, Emit, Busy, Open
<1>2. "open" \notin Statuses
  BY DEF Statuses
<1> QED  BY <1>1, <1>2 DEF Told, Emit, TraceTakes, Open

\* Every step keeps the traces exact.
LEMMA TraceStep ==
    ASSUME Typed, Phases, Told, TraceIsExact, [Next]_chatVars
    PROVE  Told' /\ TraceIsExact'
<1>1. CASE \A r \in Runs : ~Emit(r)
  <2>1. /\ trace' = trace
        /\ \A q \in Runs :
             /\ response[q] \in Statuses => response'[q] = response[q] /\ runId'[q] = runId[q]
             /\ response'[q] \in Statuses => response[q] \in Statuses
    BY <1>1, OnlyEmitTells
  <2>2. ASSUME NEW i \in RunIds, NEW k \in DOMAIN trace[i]
        PROVE  trace[i][k].run \in Runs
    BY EventsTyped
  <2>3. Told'
    BY <2>1, <2>2 DEF Told
  <2>4. TraceIsExact'
    BY <2>1 DEF TraceIsExact
  <2> QED  BY <2>3, <2>4
<1>2. ASSUME NEW r \in Runs, Emit(r)
      PROVE  Told' /\ TraceIsExact'
  <2> DEFINE h == trace[runId[r]]
             e == [run |-> r, kind |-> Head(out[r])]
  <2>1. /\ runId[r] \in RunIds /\ Open(r)
        /\ \A k \in DOMAIN h : h[k].run = r /\ h[k].kind \notin Statuses
    BY <1>2, EmitsToItsOwn
  <2>2. h \in Seq(Event) /\ e \in Event
    <3>1. out[r] \in Ends /\ out[r] # << >>
      BY <1>2 DEF Emit, Typed
    <3>2. Head(out[r]) \in {"progress"} \cup Statuses
      BY <3>1, NextEvent
    <3> QED  BY <2>1, <3>2 DEF Typed, Event
  <2>3. /\ trace' = [trace EXCEPT ![runId[r]] = Append(h, e)]
        /\ UNCHANGED runId
    BY <1>2 DEF Emit, locals
  <2>4. response' = [response EXCEPT ![r] = IF e.kind \in Statuses THEN e.kind ELSE "open"]
    <3>1. out[r] \in Ends /\ out[r] # << >>
      BY <1>2 DEF Emit, Typed
    <3>2. Tail(out[r]) = << >> <=> Head(out[r]) \in Statuses
      BY <3>1, NextEvent
    <3>3. response' = [response EXCEPT ![r] =
                        IF Tail(out[r]) = << >> THEN Head(out[r]) ELSE response[r]]
      BY <1>2 DEF Emit
    <3> QED  BY <2>1, <3>2, <3>3 DEF Open
  <2>5. e.run = r
    OBVIOUS
  <2> HIDE DEF e
  <2>6. PICK i : i = runId[r]
    OBVIOUS
  <2>7. PICK n : n = Len(h) + 1
    OBVIOUS
  <2>8. /\ n \in Nat \ {0} /\ DOMAIN h = 1 .. (n - 1)
        /\ DOMAIN trace'[i] = 1 .. n /\ trace'[i][n] = e /\ Len(trace'[i]) = n
        /\ \A k \in 1 .. (n - 1) : trace'[i][k] = h[k]
    <3>1. trace'[i] = Append(h, e)
      BY <2>1, <2>3, <2>6 DEF Typed
    <3> HIDE DEF h
    <3> QED  BY <2>2, <2>7, <3>1
  <2>9. \A j \in RunIds : j # i => trace'[j] = trace[j]
    BY <2>3, <2>6 DEF Typed
  <2>10. /\ \A q \in Runs : q # r => response'[q] = response[q]
         /\ response'[r] = IF e.kind \in Statuses THEN e.kind ELSE "open"
    BY <2>4 DEF Typed
  <2>11. "open" \notin Statuses
    BY DEF Statuses
  <2>12. ASSUME NEW j \in RunIds, NEW k \in DOMAIN trace'[j], trace'[j][k].kind \in Statuses
         PROVE  response'[trace'[j][k].run] \in Statuses
    <3>1. CASE j = i /\ k = n
      BY <2>5, <2>8, <2>10, <2>12, <3>1
    <3>2. CASE j = i /\ k # n
      BY <2>1, <2>8, <2>12, <3>2
    <3>3. CASE j # i
      <4>1. response[trace[j][k].run] \in Statuses /\ trace[j][k].run \in Runs
        BY <2>9, <2>12, <3>3, EventsTyped DEF Told
      <4>2. trace[j][k].run # r
        BY <2>1, <2>11, <4>1 DEF Open
      <4> QED  BY <2>9, <2>10, <3>3, <4>1, <4>2
    <3> QED  BY <3>1, <3>2, <3>3
  <2>13. ASSUME NEW j \in RunIds, NEW k \in DOMAIN trace'[j], NEW m \in DOMAIN trace'[j]
         PROVE  /\ trace'[j][k].run = trace'[j][m].run
                /\ trace'[j][k].kind \in Statuses => m <= k
    <3>1. CASE j = i
      <4>1. \A l \in 1 .. n : trace'[i][l].run = r
        BY <2>1, <2>5, <2>8
      <4>2. \A l \in 1 .. n : trace'[i][l].kind \in Statuses => l = n
        BY <2>1, <2>8
      <4>3. k \in 1 .. n /\ m \in 1 .. n
        BY <2>8, <3>1
      <4> QED  BY <2>8, <3>1, <4>1, <4>2, <4>3
    <3>2. CASE j # i
      BY <2>9, <3>2 DEF TraceIsExact
    <3> QED  BY <3>1, <3>2
  <2>14. ASSUME NEW q \in Runs, response'[q] \in Statuses
         PROVE  /\ trace'[runId'[q]] # << >>
                /\ trace'[runId'[q]][Len(trace'[runId'[q]])] = [run |-> q, kind |-> response'[q]]
    <3>1. CASE q = r
      <4>1. e.kind \in Statuses /\ response'[q] = e.kind
        BY <2>10, <2>11, <2>14, <3>1
      <4>2. e = [run |-> r, kind |-> e.kind]
        BY DEF e
      <4>3. runId'[q] = i
        BY <2>3, <2>6, <3>1
      <4>4. trace'[i] # << >>
        BY <2>8
      <4> QED  BY <2>8, <3>1, <4>1, <4>2, <4>3, <4>4
    <3>2. CASE q # r
      <4>1. /\ response'[q] = response[q] /\ runId'[q] = runId[q] /\ runId[q] \in RunIds
        BY <2>3, <2>10, <2>14, <3>2 DEF Phases, Phase, Statuses
      <4>2. /\ trace[runId[q]] # << >>
            /\ trace[runId[q]][Len(trace[runId[q]])] = [run |-> q, kind |-> response[q]]
        BY <2>14, <4>1 DEF TraceIsExact
      <4>3. runId[q] # i
        <5> SUFFICES ASSUME runId[q] = i
                     PROVE  FALSE
          OBVIOUS
        <5>1. h # << >> /\ h[Len(h)].run = q
          BY <2>6, <4>2
        <5>2. Len(h) \in DOMAIN h
          <6> HIDE DEF h
          <6> QED  BY <2>2, <5>1
        <5> QED  BY <2>1, <3>2, <5>1, <5>2
      <4> QED  BY <2>9, <4>1, <4>2, <4>3
    <3> QED  BY <3>1, <3>2
  <2>15. Told'
    BY <2>12 DEF Told
  <2>16. TraceIsExact'
    BY <2>13, <2>14 DEF TraceIsExact
  <2> QED  BY <2>15, <2>16
<1> QED  BY <1>1, <1>2


-----------------------------------------------------------------------------
\* The invariant holds at first, always is kept, and so is always true.
LEMMA ChatInvInit == Init => ChatInv
<1> SUFFICES ASSUME Init
             PROVE  ChatInv
  OBVIOUS
<1>1. Typed
  BY TypedInit
<1>2. Behind(turns) \in Nat
  BY <1>1, RowsBehind DEF Typed
<1>3. Summaries
  BY <1>2, NothingFolded DEF Init, Summaries, Folds
<1>4. OneBusy
  BY DEF Init, OneBusy, Busy
<1>5. Phases
  BY DEF Init, Phases, Phase, Busy
<1>6. Kept
  BY DEF Init, Kept, Keeps, Answered, Has
<1>7. Told /\ TraceIsExact
  BY DEF Init, Told, TraceIsExact, Statuses
<1> QED  BY <1>1, <1>3, <1>4, <1>5, <1>6, <1>7 DEF ChatInv

LEMMA ChatInvStep == ChatInv /\ [Next]_chatVars => ChatInv'
<1> SUFFICES ASSUME ChatInv, [Next]_chatVars
             PROVE  ChatInv'
  OBVIOUS
<1>1. Typed /\ Summaries /\ OneBusy /\ Phases /\ Kept /\ Told /\ TraceIsExact
  BY DEF ChatInv
<1>2. Typed'
  BY <1>1, TypedStep
<1>3. Summaries'
  BY <1>1, SummariesStep
<1>4. OneBusy'
  BY <1>1, OneBusyStep
<1>5. Phases'
  BY <1>1, PhaseStep DEF Phases
<1>6. Kept'
  BY <1>1, KeepsStep DEF Kept
<1>7. Told' /\ TraceIsExact'
  BY <1>1, TraceStep
<1> QED  BY <1>2, <1>3, <1>4, <1>5, <1>6, <1>7 DEF ChatInv

LEMMA ChatInvAlways == Spec => []ChatInv
BY ChatInvInit, ChatInvStep, PTL DEF Spec

-----------------------------------------------------------------------------
\* The invariant gives every column its shape.
LEMMA ChatShapes == ChatInv => ChatTypeOK
<1> SUFFICES ASSUME ChatInv
             PROVE  ChatTypeOK
  OBVIOUS
<1>1. Typed /\ Summaries
  BY DEF ChatInv
<1>2. Behind(turns) \in Nat /\ Behind(turns) <= Len(turns) /\ DOMAIN turns = 1 .. Len(turns)
      /\ Len(turns) \in Nat
  BY <1>1, RowsBehind DEF Typed
<1>3. summary.through \in Nat /\ summary.covers \subseteq DOMAIN turns
  BY <1>1, <1>2 DEF Summaries, Exact
<1>4. \A r \in Runs : fold[r].through \in Nat
  BY <1>1 DEF Summaries, Folds, Exact, NoSummary
<1> QED  BY <1>1, <1>3, <1>4 DEF Typed, ChatTypeOK

\* The rows, traces and runs of a session have the shapes their tables and types give
\* them, and a summary covers only rows there are (conversation_store.ts).
THEOREM ChatTypesHold == Spec => []ChatTypeOK
<1> QED  BY ChatShapes, ChatInvAlways, PTL

\* The rolling summary has folded just the rows up to its checkpoint and none of the
\* recent window, however concurrent runs read, wait and save (saveRollingSummary,
\* triggerSummarization, loadConversationMemory).
THEOREM SummariesAreExact == Spec => []SummaryExact
<1>1. ChatInv => SummaryExact
  <2> SUFFICES ASSUME ChatInv
               PROVE  SummaryExact
    OBVIOUS
  <2>1. /\ Behind(turns) \in Nat
        /\ Recent(turns) = {i \in 1 .. Shown(turns) : i > Behind(turns)}
        /\ Shown(turns) \in Nat
    BY RowsBehind DEF ChatInv, Typed
  <2>2. Exact(summary, Behind(turns))
    BY DEF ChatInv, Summaries
  <2> QED  BY <2>1, <2>2 DEF Exact, SummaryExact
<1> QED  BY <1>1, ChatInvAlways, PTL

\* The trace of a run id is the history of one request with at most one terminal event,
\* at its end, and is what the client was told (TraceRepository.append, the adapter).
THEOREM TracesAreExact == Spec => []TraceIsExact
BY ChatInvAlways, PTL DEF ChatInv

\* An answer reported as completed is in the conversation with its question before it
\* (saveValidatedTurnPair).
THEOREM CompletedAnswersAreSaved == Spec => CompletedIsSaved
<1>1. ASSUME ChatInv, [Next]_chatVars, NEW r \in Runs, response'[r] = "completed", Open(r)
      PROVE  Paired(r)'
  <2>1. Typed /\ Phases /\ Kept
    BY <1>1 DEF ChatInv
  <2>2. "completed" \in Statuses /\ "open" \notin Statuses
    BY DEF Statuses
  <2>3. PICK p \in Runs : Emit(p)
    BY <1>1, <2>1, <2>2, OnlyEmitTells DEF Open
  <2>4. /\ response' = [response EXCEPT ![p] =
                         IF Tail(out[p]) = << >> THEN Head(out[p]) ELSE response[p]]
        /\ turns' = turns /\ out[p] # << >> /\ out[p] \in Ends
    BY <2>1, <2>3 DEF Emit, store, Typed
  <2>5. p = r /\ Head(out[r]) = "completed"
    BY <1>1, <2>1, <2>4 DEF Open, Typed
  <2>6. Answered(r)
    BY <2>4, <2>5, NextEvent DEF Answered
  <2>7. Paired(r)
    BY <2>1, <2>6 DEF Kept, Keeps
  <2> QED  BY <2>4, <2>7 DEF Paired
<1>2. ChatInv /\ [Next]_chatVars =>
        [\A r \in Runs : response'[r] = "completed" /\ Open(r) =>
            \E i \in DOMAIN turns' :
                /\ turns'[i] = [run |-> r, role |-> "assistant"]
                /\ i > 1 /\ turns'[i - 1] = [run |-> r, role |-> "user"]]_chatVars
  BY <1>1 DEF Paired
<1> QED  BY <1>2, ChatInvAlways, PTL DEF Spec, CompletedIsSaved

\* A run whose stream has ended writes no row, no clarification and no summary any more
\* (the checkAbort gates).
THEOREM NothingIsWrittenLate == Spec => NoLateEffect
<1>1. ASSUME ChatInv, [Next]_chatVars, NEW r \in Runs, ~Open(r)
      PROVE  /\ turns' = << >> \/ Rows(r)' = Rows(r)
             /\ pending' = r => pending = r
             /\ stage[r] = "summarizing" /\ stage'[r] # "summarizing" => summary' = summary
  <2>1. Typed /\ Phases
    BY <1>1 DEF ChatInv
  <2>2. stage[r] # "saving"
    BY <1>1, <2>1 DEF Phases, Phase, Busy
  <2>3. turns' = << >> \/ Rows(r)' = Rows(r)
    <3>1. ASSUME NEW q \in Runs, SaveQuestion(q) \/ SaveReply(q)
          PROVE  Rows(r)' = Rows(r)
      <4>1. q # r
        BY <1>1, <2>2, <3>1 DEF SaveQuestion, SaveReply, MayPersist
      <4>2. PICK role \in {"user", "assistant"} : turns' = Append(turns, [run |-> q, role |-> role])
        BY <3>1 DEF SaveQuestion, SaveReply
      <4>3. turns \in Seq(Row) /\ [run |-> q, role |-> role] \in Row
        BY <2>1 DEF Typed, Row, Authors
      <4>4. PICK n : n = Len(turns)
        OBVIOUS
      <4>5. /\ n \in Nat /\ DOMAIN turns = 1 .. n /\ DOMAIN turns' = 1 .. (n + 1)
            /\ turns'[n + 1].run = q /\ \A i \in 1 .. n : turns'[i] = turns[i]
        BY <4>2, <4>3, <4>4
      <4> QED  BY <4>1, <4>5 DEF Rows
    <3>2. ASSUME Collect
          PROVE  turns' = << >>
      BY <3>2 DEF Collect
    <3>3. ASSUME turns' = turns
          PROVE  Rows(r)' = Rows(r)
      BY <3>3 DEF Rows
    <3> QED  BY <1>1, <3>1, <3>2, <3>3, OtherTurns
  <2>4. pending' = r => pending = r
    <3>1. r # None
      BY ChatAssumption
    <3>2. ASSUME NEW q \in Runs, Clarify(q)
          PROVE  pending' # r
      BY <1>1, <3>2 DEF Clarify
    <3>3. ASSUME NEW q \in Runs, Answer(q)
          PROVE  pending' = None \/ pending' = pending
      BY <3>3 DEF Answer
    <3>4. ASSUME NEW q \in Runs, Start(q) \/ Adapter(q) \/ Runner(q), ~Clarify(q), ~Answer(q)
          PROVE  pending' = pending
      BY <3>4 DEF Start, Adapter, Publish, Abort, Emit, EmitRefused, Runner, EndWithout,
                  SaveQuestion, SaveReply, ReplyRefused, SaveSummary, SummaryFails, RunnerStops,
                  store
    <3>5. ASSUME Crash \/ Age \/ Collect \/ UNCHANGED chatVars
          PROVE  pending' = None \/ pending' = pending
      BY <3>5 DEF Crash, Age, Collect, chatVars, store
    <3> QED  BY <1>1, <3>1, <3>2, <3>3, <3>4, <3>5 DEF Next
  <2>5. stage[r] = "summarizing" /\ stage'[r] # "summarizing" => summary' = summary
    <3>1. ASSUME NEW q \in Runs, SaveSummary(q)
          PROVE  stage'[r] = stage[r]
      BY <1>1, <2>1, <3>1 DEF SaveSummary, MayPersist, Return, Typed
    <3>2. ASSUME Collect
          PROVE  stage'[r] = stage[r]
      BY <3>2 DEF Collect, locals
    <3> QED  BY <1>1, <3>1, <3>2, OtherSummaries
  <2> QED  BY <2>3, <2>4, <2>5
<1>2. ChatInv /\ [Next]_chatVars =>
        [\A r \in Runs : ~Open(r) /\ response[r] # "none" =>
            /\ turns' = << >> \/ Rows(r)' = Rows(r)
            /\ pending' = r => pending = r
            /\ stage[r] = "summarizing" /\ stage'[r] # "summarizing" => summary' = summary]_chatVars
  BY <1>1
<1> QED  BY <1>2, ChatInvAlways, PTL DEF Spec, NoLateEffect

-----------------------------------------------------------------------------
(* The desk. What was answered rests on the rows that bind the sessions,   *)
(* and what was told on the one row of each run, whose state is the last   *)
(* that was told.                                                          *)

Tenants == {a.token.tenant : a \in Asks} \cup {"default", "none"}
Entries == [status : States, tenant : Tenants]

\* Every request asks for something; what is told are states, by known tenants.
DeskTyped ==
    /\ oidc.kind \in {"noop", "fail_closed", "active"}
    /\ visits \in Seq([ask : Asks, code : Int])
    /\ told \in [AnswerRuns -> Seq(Entries)]

\* A session has one owner in its rows, and every answer was for the owner in a row.
Bound ==
    /\ \A a, b \in bindings : a.session = b.session => a.owner = b.owner
    /\ \A a \in answered : \E b \in bindings : a.session = b.session /\ a.owner = b.owner

\* A row has its four columns, a run at most one row, and nothing is told without one.
CaseRow(c) == c = [run |-> c.run, tenant |-> c.tenant, subject |-> c.subject, status |-> c.status]

OneCase ==
    /\ \A c \in cases : CaseRow(c)
    /\ \A c, d \in cases : c.run = d.run => c = d
    /\ \A r \in AnswerRuns : CasesOf(r) = {} => told[r] = << >>

StatusesOf(t) == [i \in DOMAIN t |-> t[i].status]

\* The row is where its story ends, and of the tenant who told it.
TellsStory(c, t) ==
    /\ t # << >>
    /\ t[Len(t)].status = c.status
    /\ \A i \in DOMAIN t : t[i].tenant = c.tenant

StoriesTold ==
    /\ \A c \in cases : c.run \in AnswerRuns => TellsStory(c, told[c.run])
    /\ \A r \in AnswerRuns : StatusesOf(told[r]) \in Stories

DeskInv == DeskTyped /\ Bound /\ OneCase /\ StoriesTold

-----------------------------------------------------------------------------
(* Lemmas. *)

\* What a request asks for is one of the things to ask for.
LEMMA AskOfVisit ==
    ASSUME DeskTyped, NEW v \in DOMAIN visits
    PROVE  visits[v].ask \in Asks /\ visits[v].ask.run \in AnswerRuns
<1> DEFINE S == [ask : Asks, code : Int]
<1>1. visits \in Seq(S)
  BY DEF DeskTyped
<1>2. visits[v] \in S
  <2> HIDE DEF S
  <2> QED  BY <1>1
<1> QED  BY <1>2, DeskAssumption

\* Whoever a request comes from is of a known tenant.
LEMMA KnownTenant ==
    ASSUME DeskTyped, NEW v \in DOMAIN visits, NEW who \in Identities(v)
    PROVE  who.tenant \in Tenants
<1>1. visits[v].ask \in Asks
  BY AskOfVisit
<1>2. AccessContextFromClaims(visits[v].ask.token).tenant \in Tenants
  BY <1>1 DEF AccessContextFromClaims, Stranger, Tenants
<1>3. Local.tenant \in Tenants /\ Stranger.tenant \in Tenants
  BY DEF Local, Stranger, Tenants
<1>4. who \in {Local, Stranger, AccessContextFromClaims(visits[v].ask.token)}
  <2>1. CASE oidc.kind = "active"
    BY <2>1 DEF Identities
  <2>2. CASE oidc.kind # "active"
    BY <2>2 DEF Identities, DeskTyped
  <2> QED  BY <2>1, <2>2
<1> QED  BY <1>2, <1>3, <1>4

\* An interval from one says where it ends.
LEMMA SameEnd ==
    ASSUME NEW m \in Nat, NEW n \in Nat, 1 .. m = 1 .. n
    PROVE  m = n
<1>1. m <= n
  <2>1. CASE m = 0
    BY <2>1
  <2>2. CASE m # 0
    <3>1. m \in 1 .. m
      BY <2>2
    <3>2. m \in 1 .. n
      BY <3>1
    <3> QED  BY <3>2
  <2> QED  BY <2>1, <2>2
<1>2. n <= m
  <2>1. CASE n = 0
    BY <2>1
  <2>2. CASE n # 0
    <3>1. n \in 1 .. n
      BY <2>2
    <3>2. n \in 1 .. m
      BY <3>1
    <3> QED  BY <3>2
  <2> QED  BY <2>1, <2>2
<1> QED  BY <1>1, <1>2

\* An opened case has a story.
LEMMA Opening ==
    ASSUME NEW e \in Entries, e.status = "open"
    PROVE  StatusesOf(<<e>>) \in Stories
<1>1. StatusesOf(<<e>>) = <<"open">>
  BY DEF StatusesOf
<1> QED  BY <1>1 DEF Stories

\* A transition the table allows carries a story on.
LEMMA Continuing ==
    ASSUME NEW t \in Seq(Entries), t # << >>, StatusesOf(t) \in Stories,
           NEW e \in Entries, e.status \in ValidTransitions[t[Len(t)].status]
    PROVE  StatusesOf(Append(t, e)) \in Stories
<1> DEFINE u == Append(t, e)
<1>1. /\ Len(t) \in Nat /\ Len(u) = Len(t) + 1
      /\ DOMAIN u = 1 .. (Len(t) + 1) /\ DOMAIN t = 1 .. Len(t)
  OBVIOUS
<1>2. u[Len(t) + 1] = e /\ \A i \in 1 .. Len(t) : u[i] = t[i]
  OBVIOUS
<1>3. DOMAIN StatusesOf(t) = 1 .. Len(t) /\ \A i \in 1 .. Len(t) : StatusesOf(t)[i] = t[i].status
  BY <1>1 DEF StatusesOf
<1>4. StatusesOf(t) # << >>
  BY <1>1, <1>3
<1>5. CASE StatusesOf(t) = <<"open">>
  <2>1. Len(t) = 1 /\ t[1].status = "open"
    <3>1. DOMAIN StatusesOf(t) = 1 .. 1
      BY <1>5
    <3>2. Len(t) = 1
      BY <1>1, <1>3, <3>1, SameEnd
    <3> QED  BY <1>3, <3>2, <1>5
  <2>2. e.status \in {"claimed", "cancelled"}
    BY <2>1 DEF ValidTransitions
  <2>3. StatusesOf(u) = <<"open", e.status>>
    BY <1>1, <1>2, <2>1 DEF StatusesOf
  <2> QED  BY <2>2, <2>3 DEF Stories
<1>6. CASE StatusesOf(t) = <<"open", "claimed">>
  <2>1. Len(t) = 2 /\ t[1].status = "open" /\ t[2].status = "claimed"
    <3>1. DOMAIN StatusesOf(t) = 1 .. 2
      BY <1>6
    <3>2. Len(t) = 2
      BY <1>1, <1>3, <3>1, SameEnd
    <3> QED  BY <1>3, <3>2, <1>6
  <2>2. e.status \in {"resolved", "cancelled"}
    BY <2>1 DEF ValidTransitions
  <2>3. StatusesOf(u) = <<"open", "claimed", e.status>>
    BY <1>1, <1>2, <2>1 DEF StatusesOf
  <2> QED  BY <2>2, <2>3 DEF Stories
<1>7. CASE StatusesOf(t) = <<"open", "cancelled">>
  <2>1. Len(t) = 2 /\ t[2].status = "cancelled"
    <3>1. DOMAIN StatusesOf(t) = 1 .. 2
      BY <1>7
    <3>2. Len(t) = 2
      BY <1>1, <1>3, <3>1, SameEnd
    <3> QED  BY <1>3, <3>2, <1>7
  <2> QED  BY <2>1 DEF ValidTransitions
<1>8. CASE StatusesOf(t) \in {<<"open", "claimed", "resolved">>, <<"open", "claimed", "cancelled">>}
  <2>1. Len(t) = 3 /\ t[3].status \in {"resolved", "cancelled"}
    <3>1. DOMAIN StatusesOf(t) = 1 .. 3
      BY <1>8
    <3>2. Len(t) = 3
      BY <1>1, <1>3, <3>1, SameEnd
    <3> QED  BY <1>3, <3>2, <1>8
  <2> QED  BY <2>1 DEF ValidTransitions
<1> QED  BY <1>4, <1>5, <1>6, <1>7, <1>8 DEF Stories

-----------------------------------------------------------------------------
(* The invariant. *)

LEMMA InvInit == DeskInit => DeskInv
<1> SUFFICES ASSUME DeskInit PROVE DeskInv
  OBVIOUS
<1>1. DeskTyped
  BY DEF DeskInit, DeskTyped, LoadOidcConfig
<1>2. Bound
  BY DEF DeskInit, Bound
<1>3. OneCase
  BY DEF DeskInit, OneCase, CasesOf
<1>4. StoriesTold
  <2>1. \A r \in AnswerRuns : StatusesOf(told[r]) = << >>
    BY DEF DeskInit, StatusesOf
  <2> QED  BY <2>1 DEF DeskInit, StoriesTold, Stories
<1> QED  BY <1>1, <1>2, <1>3, <1>4 DEF DeskInv

\* An answer to a request keeps the requests what they are.
LEMMA RespondTyped ==
    ASSUME DeskTyped, NEW v \in DOMAIN visits, NEW code \in Int, Respond(v, code)
    PROVE  visits' \in Seq([ask : Asks, code : Int])
<1> DEFINE S == [ask : Asks, code : Int]
<1>1. visits \in Seq(S)
  BY DEF DeskTyped
<1>2. visits[v] \in S
  <2> HIDE DEF S
  <2> QED  BY <1>1
<1>3. [visits[v] EXCEPT !.code = code] \in S
  BY <1>2
<1>4. visits' = [visits EXCEPT ![v] = [visits[v] EXCEPT !.code = code]]
  BY DEF Respond
<1> QED
  <2> HIDE DEF S
  <2>1. visits' \in Seq(S)
    BY <1>1, <1>3, <1>4
  <2> QED  BY <2>1 DEF S

\* What an action does not touch stays true.
LEMMA BoundStays == Bound /\ UNCHANGED <<bindings, answered>> => Bound'
BY DEF Bound

LEMMA CasesStay == OneCase /\ StoriesTold /\ UNCHANGED <<cases, told>> => OneCase' /\ StoriesTold'
BY DEF OneCase, StoriesTold, CasesOf

\* A session is bound by its first request, and answered for the owner it is bound to.
LEMMA BindOrCheckInv ==
    ASSUME DeskInv, NEW v \in DOMAIN visits, NEW who \in Identities(v), BindOrCheck(v, who)
    PROVE  DeskInv'
<1> DEFINE session == visits[v].ask.session
           mine == [session |-> session, owner |-> Owner(who)]
           rows == {b \in bindings : b.session = session}
<1>1. UNCHANGED <<oidc, cases, told>>
  BY DEF BindOrCheck
<1>2. \E code \in Int : Respond(v, code)
  BY DEF BindOrCheck
<1>3. DeskTyped'
  BY <1>1, <1>2, RespondTyped DEF DeskInv, DeskTyped
<1>4. Bound'
  <2>1. CASE \A b \in rows : Agrees(b, Owner(who))
    <3>1. /\ bindings' = IF rows = {} THEN bindings \cup {mine} ELSE bindings
          /\ answered' = answered \cup {mine}
      BY <2>1 DEF BindOrCheck
    <3>2. mine.session = session /\ mine.owner = Owner(who)
      OBVIOUS
    <3>3. CASE rows = {}
      BY <3>1, <3>2, <3>3 DEF DeskInv, Bound
    <3>4. CASE rows # {}
      <4>1. PICK b \in rows : b.session = mine.session /\ b.owner = mine.owner
        BY <2>1, <3>2, <3>4 DEF Agrees
      <4> QED  BY <3>1, <3>4, <4>1 DEF DeskInv, Bound
    <3> QED  BY <3>3, <3>4
  <2>2. CASE ~\A b \in rows : Agrees(b, Owner(who))
    <3>1. UNCHANGED <<bindings, answered>>
      BY <2>2 DEF BindOrCheck
    <3> QED  BY <3>1, BoundStays DEF DeskInv
  <2> QED  BY <2>1, <2>2
<1> QED  BY <1>1, <1>3, <1>4, CasesStay DEF DeskInv

\* Telling one state more keeps the histories what they are.
LEMMA TellTyped ==
    ASSUME DeskTyped, NEW v \in DOMAIN visits, NEW who \in Identities(v),
           NEW run, NEW status \in States, Tell(run, status, who)
    PROVE  LET e == [status |-> status, tenant |-> who.tenant]
           IN  /\ e \in Entries
               /\ told' \in [AnswerRuns -> Seq(Entries)]
               /\ \A r \in AnswerRuns : r # run => told'[r] = told[r]
               /\ run \in AnswerRuns => told'[run] = Append(told[run], e)
<1> DEFINE e == [status |-> status, tenant |-> who.tenant]
<1>1. who.tenant \in Tenants
  BY KnownTenant
<1>2. e \in Entries
  BY <1>1 DEF Entries
<1>3. told \in [AnswerRuns -> Seq(Entries)]
  BY DEF DeskTyped
<1>4. told' = [told EXCEPT ![run] = Append(@, e)]
  BY DEF Tell
<1> HIDE DEF e
<1>5. told' \in [AnswerRuns -> Seq(Entries)]
  <2>1. CASE run \in AnswerRuns
    <3>1. told[run] \in Seq(Entries)
      BY <1>3, <2>1
    <3>2. Append(told[run], e) \in Seq(Entries)
      BY <1>2, <3>1
    <3> QED  BY <1>3, <1>4, <3>2
  <2>2. CASE run \notin AnswerRuns
    <3>1. told' = told
      BY <1>3, <1>4, <2>2
    <3> QED  BY <1>3, <3>1
  <2> QED  BY <2>1, <2>2
<1>6. /\ \A r \in AnswerRuns : r # run => told'[r] = told[r]
      /\ run \in AnswerRuns => told'[run] = Append(told[run], e)
  BY <1>3, <1>4
<1> QED  BY <1>2, <1>5, <1>6 DEF e

\* A row that moved with the last state told, and stayed in its tenant, ends the story.
LEMMA LastTold ==
    ASSUME NEW t \in Seq(Entries), NEW e \in Entries, NEW d,
           d.status = e.status, d.tenant = e.tenant,
           \A i \in DOMAIN t : t[i].tenant = e.tenant
    PROVE  TellsStory(d, Append(t, e))
<1> DEFINE u == Append(t, e)
<1>1. Len(t) \in Nat /\ Len(u) = Len(t) + 1 /\ DOMAIN u = 1 .. (Len(t) + 1)
  OBVIOUS
<1>2. u[Len(u)] = e /\ \A i \in 1 .. Len(t) : u[i] = t[i]
  OBVIOUS
<1>3. DOMAIN t = 1 .. Len(t)
  OBVIOUS
<1> HIDE DEF u
<1>4. u # << >>
  BY <1>1
<1>5. \A i \in DOMAIN u : u[i].tenant = d.tenant
  BY <1>1, <1>2, <1>3
<1>6. TellsStory(d, u)
  BY <1>2, <1>4, <1>5 DEF TellsStory
<1> QED  BY <1>6 DEF u

\* A new case is the first of its run, and opens its story.
LEMMA CreateHandoffInv ==
    ASSUME DeskInv, NEW v \in DOMAIN visits, NEW who \in Identities(v), CreateHandoff(v, who)
    PROVE  DeskInv'
<1> DEFINE run == visits[v].ask.run
           new == [run |-> run, tenant |-> who.tenant, subject |-> who.subject,
                   status |-> "open"]
           e == [status |-> "open", tenant |-> who.tenant]
<1>1. UNCHANGED <<oidc, bindings, answered>>
  BY DEF CreateHandoff
<1>2. \E code \in Int : Respond(v, code)
  <2>1. CASE ~visits[v].ask.fits
    BY <2>1 DEF CreateHandoff
  <2>2. CASE visits[v].ask.fits /\ Inserts(run, who.tenant)
    BY <2>2 DEF CreateHandoff
  <2>3. CASE visits[v].ask.fits /\ ~Inserts(run, who.tenant)
    <3>1. Respond(v, IF CasesIn(run, who.tenant) = {} THEN 404 ELSE 200)
      BY <2>3 DEF CreateHandoff
    <3> QED  BY <3>1
  <2> QED  BY <2>1, <2>2, <2>3
<1>3. visits' \in Seq([ask : Asks, code : Int])
  BY <1>2, RespondTyped DEF DeskInv
<1>4. Bound'
  BY <1>1, BoundStays DEF DeskInv
<1>5. CASE UNCHANGED <<cases, told>>
  BY <1>1, <1>3, <1>4, <1>5, CasesStay DEF DeskInv, DeskTyped
<1>6. CASE /\ Inserts(run, who.tenant)
           /\ cases' = cases \cup {new}
           /\ Tell(run, "open", who)
  <2>1. /\ e \in Entries
        /\ told' \in [AnswerRuns -> Seq(Entries)]
        /\ \A r \in AnswerRuns : r # run => told'[r] = told[r]
        /\ run \in AnswerRuns => told'[run] = Append(told[run], e)
    BY <1>6, TellTyped DEF DeskInv, States
  <2>2. \A c \in cases : c.run # run
    BY <1>6 DEF Inserts, CasesOf
  <2>3. new.run = run /\ new.tenant = who.tenant /\ new.status = "open"
    OBVIOUS
  <2>4. e.status = "open" /\ e.tenant = who.tenant
    OBVIOUS
  <2>5. run \in AnswerRuns => told'[run] = <<e>>
    <3>1. run \in AnswerRuns => told[run] = << >>
      BY <2>2 DEF DeskInv, OneCase, CasesOf
    <3> QED  BY <2>1, <3>1
  <2> HIDE DEF new, e, run
  <2>6. OneCase'
    <3>3. \A c \in cases' : CaseRow(c)
      <4>1. CaseRow(new)
        BY DEF CaseRow, new
      <4> QED  BY <1>6, <4>1 DEF DeskInv, OneCase
    <3>1. \A c, d \in cases' : c.run = d.run => c = d
      BY <1>6, <2>2, <2>3 DEF DeskInv, OneCase
    <3>2. \A r \in AnswerRuns : CasesOf(r)' = {} => told'[r] = << >>
      <4> SUFFICES ASSUME NEW r \in AnswerRuns, CasesOf(r)' = {} PROVE told'[r] = << >>
        OBVIOUS
      <4>1. r # run /\ CasesOf(r) = {}
        BY <1>6, <2>3 DEF CasesOf
      <4> QED  BY <2>1, <4>1 DEF DeskInv, OneCase
    <3> QED  BY <3>1, <3>2, <3>3 DEF OneCase
  <2>7. StoriesTold'
    <3>1. ASSUME NEW c \in cases', c.run \in AnswerRuns PROVE TellsStory(c, told'[c.run])
      <4>1. CASE c = new
        <5>1. told'[c.run] = <<e>> /\ c.status = "open" /\ c.tenant = who.tenant
          BY <2>3, <2>5, <3>1, <4>1
        <5> QED  BY <2>4, <5>1 DEF TellsStory
      <4>2. CASE c # new
        <5>1. c \in cases /\ told'[c.run] = told[c.run]
          BY <1>6, <2>1, <2>2, <3>1, <4>2
        <5> QED  BY <3>1, <5>1 DEF DeskInv, StoriesTold
      <4> QED  BY <4>1, <4>2
    <3>2. ASSUME NEW r \in AnswerRuns PROVE StatusesOf(told'[r]) \in Stories
      <4>1. CASE r = run
        BY <2>1, <2>4, <2>5, <4>1, Opening
      <4>2. CASE r # run
        BY <2>1, <4>2 DEF DeskInv, StoriesTold
      <4> QED  BY <4>1, <4>2
    <3> QED  BY <3>1, <3>2 DEF StoriesTold
  <2> QED  BY <1>1, <1>3, <1>4, <2>1, <2>6, <2>7 DEF DeskInv, DeskTyped
<1> QED  BY <1>5, <1>6 DEF CreateHandoff

\* A transition moves the one row of its run, and its story by one state.
LEMMA UpdateStatusInv ==
    ASSUME DeskInv, NEW v \in DOMAIN visits, NEW who \in Identities(v), UpdateStatus(v, who)
    PROVE  DeskInv'
<1> DEFINE run == visits[v].ask.run
           to == visits[v].ask.to
           found == CasesIn(run, who.tenant)
           e == [status |-> to, tenant |-> who.tenant]
<1>1. UNCHANGED <<oidc, bindings, answered>>
  BY DEF UpdateStatus
<1>2. \E code \in Int : Respond(v, code)
  <2>1. (IF to \notin States THEN 400 ELSE IF found = {} THEN 404 ELSE 409) \in Int
    OBVIOUS
  <2> QED  BY <2>1 DEF UpdateStatus
<1>3. visits' \in Seq([ask : Asks, code : Int])
  BY <1>2, RespondTyped DEF DeskInv
<1>4. Bound'
  BY <1>1, BoundStays DEF DeskInv
<1>5. CASE UNCHANGED <<cases, told>>
  BY <1>1, <1>3, <1>4, <1>5, CasesStay DEF DeskInv, DeskTyped
<1>6. CASE /\ \E c \in found : to \in ValidTransitions[c.status]
           /\ cases' = (cases \ found) \cup {[c EXCEPT !.status = to] : c \in found}
           /\ Tell(run, to, who)
  <2>1. PICK c \in found : to \in ValidTransitions[c.status]
    BY <1>6
  <2>2. c \in cases /\ c.run = run /\ c.tenant = who.tenant
    BY <2>1 DEF CasesIn, CasesOf
  <2>3. found = {c}
    BY <2>1, <2>2 DEF CasesIn, CasesOf, DeskInv, OneCase
  <2> DEFINE moved == [c EXCEPT !.status = to]
  <2>4. cases' = (cases \ {c}) \cup {moved}
    BY <1>6, <2>3
  <2>5. moved.run = run /\ moved.tenant = who.tenant /\ moved.status = to /\ CaseRow(moved)
    <3>1. CaseRow(c)
      BY <2>2 DEF DeskInv, OneCase
    <3>2. moved = [run |-> c.run, tenant |-> c.tenant, subject |-> c.subject, status |-> to]
      BY <3>1 DEF CaseRow
    <3> QED  BY <2>2, <3>2 DEF CaseRow
  <2>6. run \in AnswerRuns
    BY AskOfVisit DEF DeskInv
  <2>7. TellsStory(c, told[run]) /\ StatusesOf(told[run]) \in Stories
    BY <2>2, <2>6 DEF DeskInv, StoriesTold
  <2>8. told[run] \in Seq(Entries)
    BY <2>6 DEF DeskInv, DeskTyped
  <2>9. to \in States
    <3>1. c.status \in States
      <4>1. told[run][Len(told[run])] \in Entries
        BY <2>7, <2>8 DEF TellsStory
      <4> QED  BY <2>7, <4>1 DEF TellsStory, Entries
    <3> QED  BY <2>1, <3>1 DEF States, ValidTransitions
  <2>10. /\ e \in Entries
         /\ told' \in [AnswerRuns -> Seq(Entries)]
         /\ \A r \in AnswerRuns : r # run => told'[r] = told[r]
         /\ told'[run] = Append(told[run], e)
    BY <1>6, <2>6, <2>9, TellTyped DEF DeskInv
  <2>11. e.status = to /\ e.tenant = who.tenant
    OBVIOUS
  <2> HIDE DEF run, to, found, e, moved
  <2>12. OneCase'
    <3>1. \A d \in cases' : CaseRow(d)
      BY <2>4, <2>5 DEF DeskInv, OneCase
    <3>2. \A d, f \in cases' : d.run = f.run => d = f
      BY <2>2, <2>4, <2>5 DEF DeskInv, OneCase
    <3>3. ASSUME NEW r \in AnswerRuns, CasesOf(r)' = {} PROVE told'[r] = << >>
      <4>1. r # run
        BY <2>4, <2>5, <3>3 DEF CasesOf
      <4>2. CasesOf(r) = {}
        BY <2>2, <2>4, <3>3, <4>1 DEF CasesOf
      <4> QED  BY <2>10, <4>1, <4>2 DEF DeskInv, OneCase
    <3> QED  BY <3>1, <3>2, <3>3 DEF OneCase
  <2>13. StoriesTold'
    <3>1. ASSUME NEW d \in cases', d.run \in AnswerRuns PROVE TellsStory(d, told'[d.run])
      <4>1. CASE d = moved
        <5>1. d.run = run /\ d.status = e.status /\ d.tenant = e.tenant /\ c.tenant = e.tenant
          BY <2>2, <2>5, <2>11, <4>1
        <5>2. \A i \in DOMAIN told[run] : told[run][i].tenant = e.tenant
          BY <2>7, <5>1 DEF TellsStory
        <5>3. TellsStory(d, Append(told[run], e))
          BY <2>8, <2>10, <5>1, <5>2, LastTold
        <5> QED  BY <2>10, <5>1, <5>3
      <4>2. CASE d # moved
        <5>1. d \in cases /\ d.run # run
          BY <2>2, <2>4, <4>2 DEF DeskInv, OneCase
        <5> QED  BY <2>10, <3>1, <5>1 DEF DeskInv, StoriesTold
      <4> QED  BY <4>1, <4>2
    <3>2. ASSUME NEW r \in AnswerRuns PROVE StatusesOf(told'[r]) \in Stories
      <4>1. CASE r = run
        <5>1. told[run] # << >> /\ e.status \in ValidTransitions[told[run][Len(told[run])].status]
          BY <2>1, <2>7, <2>11 DEF TellsStory
        <5> QED  BY <2>7, <2>8, <2>10, <4>1, <5>1, Continuing
      <4>2. CASE r # run
        BY <2>10, <4>2 DEF DeskInv, StoriesTold
      <4> QED  BY <4>1, <4>2
    <3> QED  BY <3>1, <3>2 DEF StoriesTold
  <2> QED  BY <1>1, <1>3, <1>4, <2>10, <2>12, <2>13 DEF DeskInv, DeskTyped
<1> QED  BY <1>5, <1>6 DEF UpdateStatus

\* The clock, a new request and the answers that leave every table alone keep them all.
LEMMA OthersInv ==
    ASSUME DeskInv,
           \/ ClockTicks \/ Arrive
           \/ \E v \in DOMAIN visits :
                \/ Refuse(v)
                \/ \E who \in Identities(v) : ListCases(v, who) \/ PutFeedback(v, who)
    PROVE  DeskInv'
<1>1. UNCHANGED <<oidc, bindings, answered, cases, told>>
  BY DEF ClockTicks, Arrive, Refuse, ListCases, PutFeedback
<1>2. visits' \in Seq([ask : Asks, code : Int])
  <2>1. CASE ClockTicks
    BY <2>1 DEF ClockTicks, DeskInv, DeskTyped
  <2>2. CASE Arrive
    <3> DEFINE S == [ask : Asks, code : Int]
    <3>1. PICK ask \in Asks : visits' = Append(visits, [ask |-> ask, code |-> 0])
      BY <2>2 DEF Arrive
    <3>2. [ask |-> ask, code |-> 0] \in S /\ visits \in Seq(S)
      BY DEF DeskInv, DeskTyped
    <3> HIDE DEF S
    <3>3. visits' \in Seq(S)
      BY <3>1, <3>2
    <3> QED  BY <3>3 DEF S
  <2>3. CASE \E v \in DOMAIN visits : \E code \in Int : Respond(v, code)
    BY <2>3, RespondTyped DEF DeskInv
  <2>4. ASSUME NEW v \in DOMAIN visits, Refuse(v) PROVE \E code \in Int : Respond(v, code)
    BY <2>4 DEF Refuse
  <2>5. ASSUME NEW v \in DOMAIN visits, NEW who, ListCases(v, who)
        PROVE  \E code \in Int : Respond(v, code)
    <3>1. Respond(v, IF visits[v].ask.fits THEN 200 ELSE 400)
      BY <2>5 DEF ListCases
    <3> QED  BY <3>1
  <2>6. ASSUME NEW v \in DOMAIN visits, NEW who, PutFeedback(v, who)
        PROVE  \E code \in Int : Respond(v, code)
    BY <2>6 DEF PutFeedback
  <2> QED  BY <2>1, <2>2, <2>3, <2>4, <2>5, <2>6
<1> QED  BY <1>1, <1>2, BoundStays, CasesStay DEF DeskInv, DeskTyped

\* Every step keeps the invariant.
LEMMA InvNext == DeskInv /\ [DeskNext]_deskVars => DeskInv'
<1> SUFFICES ASSUME DeskInv, [DeskNext]_deskVars PROVE DeskInv'
  OBVIOUS
<1>1. CASE UNCHANGED deskVars
  <2>1. UNCHANGED <<oidc, visits, bindings, answered, cases, told>>
    BY <1>1 DEF deskVars
  <2> QED  BY <2>1, BoundStays, CasesStay DEF DeskInv, DeskTyped
<1>2. ASSUME NEW v \in DOMAIN visits, NEW who \in Identities(v), BindOrCheck(v, who)
      PROVE  DeskInv'
  BY <1>2, BindOrCheckInv
<1>3. ASSUME NEW v \in DOMAIN visits, NEW who \in Identities(v), CreateHandoff(v, who)
      PROVE  DeskInv'
  BY <1>3, CreateHandoffInv
<1>4. ASSUME NEW v \in DOMAIN visits, NEW who \in Identities(v), UpdateStatus(v, who)
      PROVE  DeskInv'
  BY <1>4, UpdateStatusInv
<1> QED  BY <1>1, <1>2, <1>3, <1>4, OthersInv DEF DeskNext

\* The invariant gives the promise: one row for each session, one told by one tenant.
LEMMA InvGivesPromise == DeskInv => OneOwnerOneStory
<1> SUFFICES ASSUME DeskInv PROVE OneOwnerOneStory
  OBVIOUS
<1>1. \A a, b \in answered : a.session = b.session => a.owner = b.owner
  BY DEF DeskInv, Bound
<1>2. ASSUME NEW r \in AnswerRuns
      PROVE  /\ [i \in DOMAIN told[r] |-> told[r][i].status] \in Stories
             /\ \A i, j \in DOMAIN told[r] : told[r][i].tenant = told[r][j].tenant
  <2>1. [i \in DOMAIN told[r] |-> told[r][i].status] \in Stories
    BY DEF DeskInv, StoriesTold, StatusesOf
  <2>2. CASE CasesOf(r) = {}
    <3>1. told[r] = << >>
      BY <2>2 DEF DeskInv, OneCase
    <3> QED  BY <2>1, <3>1
  <2>3. CASE CasesOf(r) # {}
    <3>1. PICK c \in cases : c.run = r
      BY <2>3 DEF CasesOf
    <3>2. \A i \in DOMAIN told[r] : told[r][i].tenant = c.tenant
      BY <3>1 DEF DeskInv, StoriesTold, TellsStory
    <3> QED  BY <2>1, <3>2
  <2> QED  BY <2>2, <2>3
<1> QED  BY <1>1, <1>2 DEF OneOwnerOneStory

-----------------------------------------------------------------------------
(* The theorem. *)

\* However many requests overlap, a session is answered for one owner only, and each
\* answer run has one case, told once from its opening to its end by one tenant
\* (bindOrCheck, create, updateStatus).
THEOREM OwnersAndStories == DeskSpec => []OneOwnerOneStory
<1>1. DeskInit => DeskInv
  BY InvInit
<1>2. DeskInv /\ [DeskNext]_deskVars => DeskInv'
  BY InvNext
<1>3. DeskInv => OneOwnerOneStory
  BY InvGivesPromise
<1> QED  BY <1>1, <1>2, <1>3, PTL DEF DeskSpec

-----------------------------------------------------------------------------
(* The shapes of both. *)

\* The rows of the desk keep their shapes, and there is one feedback per owner and run.
LEMMA DeskShapes == DeskInv /\ DeskTypeOK /\ [DeskNext]_deskVars => DeskTypeOK'
<1> DEFINE Visit == [ask : Asks, code : {0, 200, 400, 401, 403, 404, 409}]
           Shape == /\ oidc \in {LoadOidcConfig(e) : e \in Envs} /\ clock \in 0 .. MaxClock
                    /\ visits \in Seq(Visit)
           CaseRows == \A c \in cases : c.run \in AnswerRuns /\ c.status \in States
           Rated == \A f, g \in feedback : f.owner = g.owner /\ f.run = g.run => f = g
<1> SUFFICES ASSUME DeskInv, DeskTypeOK, [DeskNext]_deskVars
             PROVE  DeskTypeOK'
  OBVIOUS
<1>1. Shape /\ CaseRows /\ Rated /\ \A c \in cases : CaseRow(c)
  BY DEF DeskTypeOK, DeskInv, OneCase
<1>2. (Shape' /\ CaseRows' /\ Rated') => DeskTypeOK'
  BY DEF DeskTypeOK
<1>3. ASSUME NEW v \in DOMAIN visits, NEW code \in {200, 400, 401, 403, 404, 409},
             Respond(v, code), oidc' = oidc, clock' = clock
      PROVE  Shape'
  <2>1. visits[v] \in Visit
    <3> HIDE DEF Visit
    <3> QED  BY <1>1
  <2> PICK new : new = [visits[v] EXCEPT !.code = code]
    OBVIOUS
  <2>2. new \in Visit
    BY <2>1
  <2>3. visits' = [visits EXCEPT ![v] = new]
    BY <1>3 DEF Respond
  <2>4. visits' \in Seq(Visit)
    <3> HIDE DEF Visit
    <3> QED  BY <1>1, <2>2, <2>3
  <2> QED  BY <1>1, <1>3, <2>4
<1>4. cases' = cases => CaseRows'
  BY <1>1
<1>5. feedback' = feedback => Rated'
  BY <1>1
<1>6. CASE ClockTicks
  <2>1. Shape'
    BY <1>1, <1>6, DeskAssumption DEF ClockTicks
  <2> QED  BY <1>2, <1>4, <1>5, <1>6, <2>1 DEF ClockTicks
<1>7. CASE Arrive
  <2>1. PICK ask \in Asks : visits' = Append(visits, [ask |-> ask, code |-> 0])
    BY <1>7 DEF Arrive
  <2> PICK new : new = [ask |-> ask, code |-> 0]
    OBVIOUS
  <2>2. new \in Visit
    OBVIOUS
  <2>3. visits' \in Seq(Visit)
    <3> HIDE DEF Visit
    <3> QED  BY <1>1, <2>1, <2>2
  <2>4. Shape'
    BY <1>1, <1>7, <2>3 DEF Arrive
  <2> QED  BY <1>2, <1>4, <1>5, <1>7, <2>4 DEF Arrive
<1>8. ASSUME NEW v \in DOMAIN visits, Refuse(v)
      PROVE  DeskTypeOK'
  <2>1. PICK code \in {401, 403} : Respond(v, code)
    BY <1>8 DEF Refuse
  <2>2. Shape'
    <3>1. oidc' = oidc /\ clock' = clock
      BY <1>8 DEF Refuse
    <3> HIDE DEF Shape
    <3> QED  BY <1>3, <2>1, <3>1
  <2> QED  BY <1>2, <1>4, <1>5, <1>8, <2>2 DEF Refuse
<1>9. ASSUME NEW v \in DOMAIN visits, NEW who, BindOrCheck(v, who)
      PROVE  DeskTypeOK'
  <2>1. PICK code \in {200, 409} : Respond(v, code)
    BY <1>9 DEF BindOrCheck
  <2>2. Shape'
    <3>1. oidc' = oidc /\ clock' = clock
      BY <1>9 DEF BindOrCheck
    <3> HIDE DEF Shape
    <3> QED  BY <1>3, <2>1, <3>1
  <2> QED  BY <1>2, <1>4, <1>5, <1>9, <2>2 DEF BindOrCheck
<1>10. ASSUME NEW v \in DOMAIN visits, NEW who, CreateHandoff(v, who)
       PROVE  DeskTypeOK'
  <2>1. PICK code \in {200, 400, 404} : Respond(v, code)
    BY <1>10 DEF CreateHandoff
  <2>2. Shape'
    <3>1. oidc' = oidc /\ clock' = clock
      BY <1>10 DEF CreateHandoff
    <3> HIDE DEF Shape
    <3> QED  BY <1>3, <2>1, <3>1
  <2>3. visits[v].ask.run \in AnswerRuns
    BY AskOfVisit DEF DeskInv
  <2>4. CaseRows'
    <3>1. CASE cases' = cases
      BY <1>4, <3>1
    <3>2. CASE cases' # cases
      <4>1. cases' = cases \cup {[run |-> visits[v].ask.run, tenant |-> who.tenant,
                                  subject |-> who.subject, status |-> "open"]}
        BY <1>10, <3>2 DEF CreateHandoff
      <4> QED  BY <1>1, <2>3, <4>1 DEF States
    <3> QED  BY <3>1, <3>2
  <2> QED  BY <1>2, <1>5, <1>10, <2>2, <2>4 DEF CreateHandoff
<1>11. ASSUME NEW v \in DOMAIN visits, NEW who, UpdateStatus(v, who)
       PROVE  DeskTypeOK'
  <2>1. PICK code \in {200, 400, 404, 409} : Respond(v, code)
    BY <1>11 DEF UpdateStatus
  <2>2. Shape'
    <3>1. oidc' = oidc /\ clock' = clock
      BY <1>11 DEF UpdateStatus
    <3> HIDE DEF Shape
    <3> QED  BY <1>3, <2>1, <3>1
  <2> PICK run, to, found : /\ run = visits[v].ask.run /\ to = visits[v].ask.to
                            /\ found = CasesIn(run, who.tenant)
    OBVIOUS
  <2>3. found \subseteq cases
    BY DEF CasesIn, CasesOf
  <2>4. CaseRows'
    <3>1. CASE cases' = cases
      BY <1>4, <3>1
    <3>2. CASE cases' # cases
      <4>1. /\ cases' = (cases \ found) \cup {[c EXCEPT !.status = to] : c \in found}
            /\ \E c \in found : to \in ValidTransitions[c.status]
        BY <1>11, <3>2 DEF UpdateStatus
      <4>2. to \in States
        BY <1>1, <2>3, <4>1 DEF ValidTransitions, States
      <4>3. ASSUME NEW d \in cases'
            PROVE  d.run \in AnswerRuns /\ d.status \in States
        <5>1. CASE d \in cases
          BY <1>1, <5>1
        <5>2. CASE d \notin cases
          <6>1. PICK c \in found : d = [c EXCEPT !.status = to]
            BY <4>1, <5>2
          <6>2. c \in cases /\ CaseRow(c)
            BY <1>1, <2>3
          <6>3. d.run = c.run /\ d.status = to
            BY <6>1, <6>2 DEF CaseRow
          <6> QED  BY <1>1, <4>2, <6>2, <6>3
        <5> QED  BY <5>1, <5>2
      <4> QED  BY <4>3
    <3> QED  BY <3>1, <3>2
  <2> QED  BY <1>2, <1>5, <1>11, <2>2, <2>4 DEF UpdateStatus
<1>12. ASSUME NEW v \in DOMAIN visits, NEW who, ListCases(v, who)
       PROVE  DeskTypeOK'
  <2>1. PICK code \in {200, 400} : Respond(v, code)
    BY <1>12 DEF ListCases
  <2>2. Shape'
    <3>1. oidc' = oidc /\ clock' = clock
      BY <1>12 DEF ListCases
    <3> HIDE DEF Shape
    <3> QED  BY <1>3, <2>1, <3>1
  <2> QED  BY <1>2, <1>4, <1>5, <1>12, <2>2 DEF ListCases
<1>13. ASSUME NEW v \in DOMAIN visits, NEW who, PutFeedback(v, who)
       PROVE  DeskTypeOK'
  <2>1. PICK code \in {200, 400} : Respond(v, code)
    BY <1>13 DEF PutFeedback
  <2>2. Shape'
    <3>1. oidc' = oidc /\ clock' = clock
      BY <1>13 DEF PutFeedback
    <3> HIDE DEF Shape
    <3> QED  BY <1>3, <2>1, <3>1
  <2> PICK run : run = visits[v].ask.run
    OBVIOUS
  <2>3. Rated'
    <3>1. CASE feedback' = feedback
      BY <1>5, <3>1
    <3>2. CASE feedback' # feedback
      <4> DEFINE new == [owner |-> Owner(who), run |-> run]
      <4>1. /\ feedback' = {f \in feedback : f.owner # Owner(who) \/ f.run # run} \cup {new}
            /\ new.owner = Owner(who) /\ new.run = run
        BY <1>13, <3>2 DEF PutFeedback
      <4> HIDE DEF new
      <4> QED  BY <1>1, <4>1
    <3> QED  BY <3>1, <3>2
  <2> QED  BY <1>2, <1>4, <1>13, <2>2, <2>3 DEF PutFeedback
<1>14. CASE UNCHANGED deskVars
  BY <1>14 DEF deskVars, DeskTypeOK
<1> QED  BY <1>6, <1>7, <1>8, <1>9, <1>10, <1>11, <1>12, <1>13, <1>14 DEF DeskNext

\* Whatever is asked of the session and of the desk, in any order, the states of both keep
\* their shapes, and nobody rates a run twice.
THEOREM ChatDeskTypesHold == ChatDeskSpec => []ChatDeskTypeOK
<1>1. DeskInit => DeskInv /\ DeskTypeOK
  <2>1. DeskInit => DeskTypeOK
    <3> DEFINE Visit == [ask : Asks, code : {0, 200, 400, 401, 403, 404, 409}]
    <3>1. << >> \in Seq(Visit)
      <4> HIDE DEF Visit
      <4> QED  OBVIOUS
    <3> QED  BY <3>1, DeskAssumption DEF DeskInit, DeskTypeOK
  <2> QED  BY <2>1, InvInit
<1>2. DeskInv /\ DeskTypeOK /\ [DeskNext]_deskVars => (DeskInv /\ DeskTypeOK)'
  BY InvNext, DeskShapes
<1>3. ChatDeskInit => Init /\ DeskInit
  BY DEF ChatDeskInit
<1>4. [ChatDeskNext]_<<side, chatVars, deskVars>> => [Next]_chatVars /\ [DeskNext]_deskVars
  BY DEF ChatDeskNext
<1>5. Init => ChatInv
  BY ChatInvInit
<1>6. ChatInv /\ [Next]_chatVars => ChatInv'
  BY ChatInvStep
<1>7. ChatInv => ChatTypeOK
  BY ChatShapes
<1> QED  BY <1>1, <1>2, <1>3, <1>4, <1>5, <1>6, <1>7, PTL DEF ChatDeskSpec, ChatDeskTypeOK
=============================================================================
