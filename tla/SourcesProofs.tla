----------------------- MODULE SourcesProofs -----------------------
(***************************************************************************)
(* The safety of SourceGovernance for any number of sources, versions,      *)
(* contents and cleanup operations. Three of the four properties need only  *)
(* that rows point to rows that exist. ActiveIsRight also needs that a      *)
(* source that is not retired has one task for each version, whose status   *)
(* its document has too, and that only completed versions are reviewed.     *)
(*                                                                          *)
(* Then SourceAdoption, for any names, contents and number of documents:    *)
(* the newest document is served whatever sources it passed through,        *)
(* because the orders of a source's documents follow their creation also    *)
(* when one of them is taken over, and no version of a source comes twice.  *)
(***************************************************************************)
EXTENDS SourceGovernance, SourceAdoption, Induction, FiniteSetTheorems, TLAPS

TaskRow == [src : Sources, ver : Nat, op : Nat, status : Open \cup Terminal]
Outcomes == {"none", "unchanged", "pending"} \cup Terminal

Typed ==
    /\ docs \in [Sources -> Seq(Doc)]
    /\ active \in [Sources -> Nat]
    /\ lastDoc \in [Sources -> Nat]
    /\ lastOutcome \in [Sources -> Outcomes]
    /\ lifecycle \in [Sources -> {"active", "retired"}]
    /\ tombstones \in [Sources -> Seq(SUBSET Nat)]
    /\ tasks \in Seq(TaskRow)
    /\ server \in {Idle} \cup [op : {"activate"}, src : Sources, ver : Nat]
                    \cup [op : {"retire", "enqueue"}, src : Sources, scope : SUBSET Nat]

\* Every task belongs to a version.
TasksOwned == \A i \in DOMAIN tasks : tasks[i].ver \in Versions(tasks[i].src)

\* Rows point to rows that exist.
Pointers ==
    /\ \A s \in Sources : active[s] \in {0} \cup Versions(s)
    /\ \A s \in Sources : lastDoc[s] \in {0} \cup Versions(s)
    /\ TasksOwned
    /\ server.op = "activate" => server.ver \in Versions(server.src)
    /\ server.op \in {"retire", "enqueue"} => server.scope \subseteq Versions(server.src)

\* The server commits the retirement of a source that is not retired yet, and enqueues
\* cleanups for one that is.
Retiring ==
    /\ server.op = "retire" => lifecycle[server.src] = "active"
    /\ server.op = "enqueue" => lifecycle[server.src] = "retired"

\* The one task of a version, and its document.
Mirrors(i) ==
    LET d == docs[tasks[i].src][tasks[i].ver]
    IN  d.status = IF tasks[i].status \in Open THEN "pending" ELSE tasks[i].status

OneTask ==
    \A i \in DOMAIN tasks : lifecycle[tasks[i].src] = "active" =>
        /\ Mirrors(i)
        /\ \A j \in DOMAIN tasks :
            tasks[j].src = tasks[i].src /\ tasks[j].ver = tasks[i].ver => i = j

\* A version is reviewed after it is completed; the server activates what was approved.
Reviewed ==
    /\ \A s \in Sources : lifecycle[s] = "active" =>
        \A v \in Versions(s) :
            docs[s][v].candidate = "pending_review" \/ docs[s][v].reviewed
                => docs[s][v].status = "completed"
    /\ server.op = "activate" /\ lifecycle[server.src] = "active" =>
        LET d == docs[server.src][server.ver] IN d.candidate = "approved" /\ d.reviewed

GovInv ==
    /\ Typed /\ Pointers
    /\ OutcomeIsLast
    /\ Retiring /\ RetirementExact
    /\ OneIngestPerContent
    /\ OneTask /\ Reviewed /\ ActiveIsRight

-----------------------------------------------------------------------------
(* Lemmas about the rows. *)

\* One row of documents is updated.
WriteDoc(s, v, d) == docs' = [docs EXCEPT ![s] = [docs[s] EXCEPT ![v] = d]]

\* Writing one document leaves the others.
LEMMA DocWrite ==
    ASSUME Typed, NEW s \in Sources, NEW v \in Versions(s), NEW d \in Doc,
           WriteDoc(s, v, d)
    PROVE  /\ docs' \in [Sources -> Seq(Doc)]
           /\ \A u \in Sources : Versions(u)' = Versions(u)
           /\ docs'[s][v] = d
           /\ \A u \in Sources : \A w \in Versions(u) :
                u # s \/ w # v => docs'[u][w] = docs[u][w]
<1>1. docs[s] \in Seq(Doc)
  BY DEF Typed
<1>2. [docs[s] EXCEPT ![v] = d] \in Seq(Doc)
  <2> HIDE DEF Doc
  <2> QED  BY <1>1 DEF Versions
<1>3. docs' \in [Sources -> Seq(Doc)]
  BY <1>2 DEF Typed, WriteDoc
<1>4. docs'[s] = [docs[s] EXCEPT ![v] = d] /\ \A u \in Sources \ {s} : docs'[u] = docs[u]
  BY DEF Typed, WriteDoc
<1> QED  BY <1>3, <1>4 DEF Versions

\* Writing the status of one task leaves the others.
LEMMA TaskWrite ==
    ASSUME Typed, NEW i \in DOMAIN tasks, NEW st \in Open \cup Terminal, SetTask(i, st)
    PROVE  /\ tasks' \in Seq(TaskRow)
           /\ DOMAIN tasks' = DOMAIN tasks
           /\ \A j \in DOMAIN tasks :
                /\ tasks'[j].src = tasks[j].src /\ tasks'[j].ver = tasks[j].ver
                /\ tasks'[j].op = tasks[j].op
                /\ tasks'[j].status = IF j = i THEN st ELSE tasks[j].status
<1>1. tasks \in Seq(TaskRow) /\ tasks[i] \in TaskRow
  <2>1. tasks \in Seq(TaskRow)
    BY DEF Typed
  <2> HIDE DEF TaskRow
  <2> QED  BY <2>1
<1>2. [tasks[i] EXCEPT !.status = st] \in TaskRow
  BY <1>1 DEF TaskRow
<1>3. tasks' = [tasks EXCEPT ![i] = [tasks[i] EXCEPT !.status = st]]
  BY DEF SetTask
<1>4. tasks' \in Seq(TaskRow)
  <2> HIDE DEF TaskRow
  <2> QED  BY <1>1, <1>2, <1>3
<1>5. DOMAIN tasks' = DOMAIN tasks /\ tasks'[i] = [tasks[i] EXCEPT !.status = st]
  BY <1>1, <1>3
<1>6. \A j \in DOMAIN tasks : j # i => tasks'[j] = tasks[j]
  BY <1>1, <1>3
<1>7. /\ tasks'[i].src = tasks[i].src /\ tasks'[i].ver = tasks[i].ver
      /\ tasks'[i].op = tasks[i].op /\ tasks'[i].status = st
  BY <1>1, <1>5 DEF TaskRow
<1> QED  BY <1>4, <1>5, <1>6, <1>7

\* A new task comes after the others.
LEMMA TaskAppend ==
    ASSUME Typed, NEW s \in Sources, NEW v \in Nat, NEW o \in Nat, NewTask(s, v, o)
    PROVE  LET n == Len(tasks) + 1
           IN  /\ tasks' \in Seq(TaskRow)
               /\ n \notin DOMAIN tasks /\ DOMAIN tasks' = DOMAIN tasks \cup {n}
               /\ \A j \in DOMAIN tasks : tasks'[j] = tasks[j]
               /\ tasks'[n] = [src |-> s, ver |-> v, op |-> o, status |-> "pending"]
<1> DEFINE row == [src |-> s, ver |-> v, op |-> o, status |-> "pending"]
<1>1. tasks \in Seq(TaskRow) /\ row \in TaskRow
  BY DEF Typed, TaskRow, Open
<1>2. tasks' = Append(tasks, row)
  BY DEF NewTask
<1> HIDE DEF row, TaskRow
<1>3. tasks' \in Seq(TaskRow) /\ Len(tasks') = Len(tasks) + 1
  BY <1>1, <1>2
<1>4. DOMAIN tasks = 1 .. Len(tasks) /\ DOMAIN tasks' = 1 .. (Len(tasks) + 1) /\ Len(tasks) \in Nat
  BY <1>1, <1>3
<1>5. tasks'[Len(tasks) + 1] = row /\ \A j \in DOMAIN tasks : tasks'[j] = tasks[j]
  BY <1>1, <1>2
<1> QED  BY <1>3, <1>4, <1>5 DEF row

\* A task's fields.
LEMMA TaskFields ==
    ASSUME Typed, NEW i \in DOMAIN tasks
    PROVE  /\ tasks[i].src \in Sources /\ tasks[i].ver \in Nat /\ tasks[i].op \in Nat
           /\ tasks[i].status \in Open \cup Terminal
<1>1. tasks[i] \in TaskRow
  <2>1. tasks \in Seq(TaskRow)
    BY DEF Typed
  <2> HIDE DEF TaskRow
  <2> QED  BY <2>1
<1> QED  BY <1>1 DEF TaskRow

\* A document's fields; versions count from one.
LEMMA DocFields ==
    ASSUME Typed, NEW s \in Sources, NEW v \in Versions(s)
    PROVE  docs[s][v] \in Doc /\ v \in Nat \ {0}
<1>1. docs[s] \in Seq(Doc)
  BY DEF Typed
<1> HIDE DEF Doc
<1> QED  BY <1>1 DEF Versions

\* A document takes a new status, and perhaps waits for a review.
LEMMA StatusWrite ==
    ASSUME NEW e \in Doc, NEW st \in Terminal
    PROVE  /\ \E d \in Doc :
                /\ d = [e EXCEPT !.status = st]
                /\ d.hash = e.hash /\ d.status = st
                /\ d.candidate = e.candidate /\ d.reviewed = e.reviewed
           /\ \E d \in Doc :
                /\ d = [e EXCEPT !.status = st, !.candidate = "pending_review"]
                /\ d.hash = e.hash /\ d.status = st
                /\ d.candidate = "pending_review" /\ d.reviewed = e.reviewed
<1> DEFINE a == [e EXCEPT !.status = st]
           b == [e EXCEPT !.status = st, !.candidate = "pending_review"]
<1>1. /\ a \in Doc /\ a.hash = e.hash /\ a.status = st
      /\ a.candidate = e.candidate /\ a.reviewed = e.reviewed
  BY DEF Doc
<1>2. /\ b \in Doc /\ b.hash = e.hash /\ b.status = st
      /\ b.candidate = "pending_review" /\ b.reviewed = e.reviewed
  BY DEF Doc
<1> HIDE DEF Doc
<1> QED  BY <1>1, <1>2

\* An empty database.
LEMMA GovInvInit == Init => GovInv
<1> SUFFICES ASSUME Init PROVE GovInv
  OBVIOUS
<1>1. Typed
  BY DEF Init, Typed, Outcomes, Idle
<1>2. Pointers /\ Retiring
  BY DEF Init, Pointers, TasksOwned, Retiring, Idle
<1>3. OutcomeIsLast /\ RetirementExact /\ OneIngestPerContent
  BY DEF Init, OutcomeIsLast, RetirementExact, OneIngestPerContent
<1>4. OneTask /\ Reviewed /\ ActiveIsRight
  BY DEF Init, OneTask, Reviewed, ActiveIsRight, Completed, Versions, Idle
<1> QED  BY <1>1, <1>2, <1>3, <1>4 DEF GovInv

-----------------------------------------------------------------------------
(* Every step keeps the invariant: one lemma per kind of step. *)

\* The rows GovInv is about, the server's own state apart.
Rows == <<mode, docs, active, lastDoc, lastOutcome, lifecycle, tombstones, tasks>>

\* Steps that write no row: a read, a return, an interruption, an index write.
LEMMA NoRowSteps ==
    ASSUME GovInv, UNCHANGED Rows,
           \/ UNCHANGED server
           \/ server' = Idle
           \/ \E s \in Sources : server' =
                [op |-> IF AlreadyRetired(s) THEN "enqueue" ELSE "retire",
                 src |-> s, scope |-> RetireScope(s)]
    PROVE  GovInv'
<1>1. Typed'
  <2>1. \A s \in Sources : RetireScope(s) \subseteq Nat
    <3> TAKE s \in Sources
    <3>1. docs[s] \in Seq(Doc)
      BY DEF GovInv, Typed
    <3> HIDE DEF Doc
    <3> QED  BY <3>1 DEF RetireScope, Versions
  <2>2. server' \in {Idle} \cup [op : {"activate"}, src : Sources, ver : Nat]
                    \cup [op : {"retire", "enqueue"}, src : Sources, scope : SUBSET Nat]
    BY <2>1 DEF GovInv, Typed
  <2> QED  BY <2>2 DEF GovInv, Typed, Rows
<1>2. Pointers'
  BY DEF GovInv, Pointers, TasksOwned, Rows, Versions, RetireScope, Idle
<1>3. Retiring'
  BY DEF GovInv, Typed, Retiring, Rows, AlreadyRetired, Idle
<1>4. OutcomeIsLast' /\ RetirementExact' /\ OneIngestPerContent'
  BY DEF GovInv, OutcomeIsLast, RetirementExact, OneIngestPerContent, Rows
<1>5. OneTask' /\ ActiveIsRight'
  BY DEF GovInv, OneTask, Mirrors, ActiveIsRight, Completed, Versions, Rows
<1>6. Reviewed'
  BY DEF GovInv, Reviewed, Versions, Rows, Idle
<1> QED  BY <1>1, <1>2, <1>3, <1>4, <1>5, <1>6 DEF GovInv

\* The content is the active one already.
LEMMA SubmitUnchangedStep ==
    ASSUME GovInv, NEW s \in Sources, NEW h \in Hashes, SubmitUnchanged(s, h)
    PROVE  GovInv'
<1> USE DEF SubmitUnchanged
<1>1. Typed'
  BY DEF GovInv, Typed, Outcomes
<1>2. Pointers'
  BY DEF GovInv, Typed, Pointers, TasksOwned, Versions
<1>3. OutcomeIsLast'
  BY DEF GovInv, Typed, OutcomeIsLast
<1>4. Retiring' /\ RetirementExact' /\ OneIngestPerContent'
  BY DEF GovInv, Retiring, RetirementExact, OneIngestPerContent
<1>5. OneTask' /\ Reviewed' /\ ActiveIsRight'
  BY DEF GovInv, OneTask, Mirrors, Reviewed, ActiveIsRight, Completed, Versions
<1> QED  BY <1>1, <1>2, <1>3, <1>4, <1>5 DEF GovInv

\* An open task is claimed or returned to the queue.
LEMMA TaskMoves ==
    ASSUME GovInv, NEW i \in DOMAIN tasks, NEW st \in Open, tasks[i].status \in Open,
           SetTask(i, st),
           UNCHANGED <<mode, docs, active, lastDoc, lastOutcome, lifecycle, tombstones,
                       indexed, server>>
    PROVE  GovInv'
<1>1. Typed
  BY DEF GovInv
<1>2. /\ tasks' \in Seq(TaskRow)
      /\ DOMAIN tasks' = DOMAIN tasks
      /\ \A j \in DOMAIN tasks :
           /\ tasks'[j].src = tasks[j].src /\ tasks'[j].ver = tasks[j].ver
           /\ tasks'[j].op = tasks[j].op
           /\ tasks'[j].status \in Open <=> tasks[j].status \in Open
           /\ tasks[j].status \notin Open => tasks'[j].status = tasks[j].status
  BY <1>1, TaskWrite
<1>3. Typed'
  BY <1>1, <1>2 DEF Typed
<1>4. Pointers'
  BY <1>2 DEF GovInv, Pointers, TasksOwned, Versions
<1>5. OutcomeIsLast' /\ Retiring'
  BY DEF GovInv, OutcomeIsLast, Retiring
<1>6. RetirementExact'
  BY <1>2 DEF GovInv, RetirementExact
<1>7. OneIngestPerContent'
  BY <1>2 DEF GovInv, OneIngestPerContent
<1>8. OneTask'
  <2>1. \A j \in DOMAIN tasks : Mirrors(j) => Mirrors(j)'
    BY <1>2 DEF Mirrors
  <2> QED  BY <1>2, <2>1 DEF GovInv, OneTask
<1>9. Reviewed' /\ ActiveIsRight'
  BY DEF GovInv, Reviewed, ActiveIsRight, Completed, Versions
<1> QED  BY <1>3, <1>4, <1>5, <1>6, <1>7, <1>8, <1>9 DEF GovInv

\* The retirement transaction: the source had no tombstone.
LEMMA RetireCommitsStep ==
    ASSUME GovInv, RetireCommits
    PROVE  GovInv'
<1> DEFINE s == server.src
<1>1. /\ server.op = "retire" /\ s \in Sources /\ server.scope \in SUBSET Nat
      /\ server' = [op |-> "enqueue", src |-> s, scope |-> server.scope]
  BY DEF RetireCommits, GovInv, Typed, Idle
<1>2. lifecycle[s] = "active" /\ tombstones[s] \in Seq(SUBSET Nat) /\ Len(tombstones[s]) = 0
  BY <1>1 DEF GovInv, Typed, Retiring, RetirementExact
<1>3. lifecycle' = [lifecycle EXCEPT ![s] = "retired"]
  BY DEF RetireCommits
<1>4. tombstones' = [tombstones EXCEPT ![s] = Append(tombstones[s], server.scope)]
  BY DEF RetireCommits
<1>5. UNCHANGED <<mode, docs, active, lastDoc, lastOutcome, tasks, indexed>>
  BY DEF RetireCommits
<1>6. \A u \in Sources : lifecycle'[u] = "active" => lifecycle[u] = "active"
  BY <1>1, <1>3 DEF GovInv, Typed
<1> HIDE DEF s
<1>7. Typed'
  <2>1. Append(tombstones[s], server.scope) \in Seq(SUBSET Nat)
    BY <1>1, <1>2
  <2>2. tombstones' \in [Sources -> Seq(SUBSET Nat)]
    BY <1>4, <2>1 DEF GovInv, Typed
  <2> QED  BY <1>1, <1>3, <1>5, <2>2 DEF GovInv, Typed
<1>8. Pointers'
  BY <1>1, <1>5 DEF GovInv, Pointers, TasksOwned, Versions, s
<1>9. Retiring'
  BY <1>1, <1>3 DEF GovInv, Typed, Retiring
<1>10. RetirementExact'
  <2>1. Len(tombstones'[s]) = 1
    BY <1>1, <1>2, <1>4 DEF GovInv, Typed
  <2>2. \A u \in Sources \ {s} :
          tombstones'[u] = tombstones[u] /\ lifecycle'[u] = lifecycle[u]
    BY <1>3, <1>4 DEF GovInv, Typed
  <2>3. lifecycle'[s] = "retired"
    BY <1>1, <1>3 DEF GovInv, Typed
  <2> QED  BY <1>5, <2>1, <2>2, <2>3 DEF GovInv, RetirementExact
<1>11. OutcomeIsLast' /\ OneIngestPerContent'
  BY <1>5 DEF GovInv, OutcomeIsLast, OneIngestPerContent
<1>12. OneTask'
  <2>1. \A j \in DOMAIN tasks : tasks[j].src \in Sources
    BY TaskFields DEF GovInv
  <2> QED  BY <1>5, <1>6, <2>1 DEF GovInv, OneTask, Mirrors
<1>13. Reviewed' /\ ActiveIsRight'
  BY <1>1, <1>5, <1>6 DEF GovInv, Reviewed, ActiveIsRight, Completed, Versions
<1> QED  BY <1>7, <1>8, <1>9, <1>10, <1>11, <1>12, <1>13 DEF GovInv

\* A cleanup task for a retired source, whose version had none for that operation.
LEMMA EnqueueCleanupStep ==
    ASSUME GovInv, EnqueueCleanup
    PROVE  GovInv'
<1>1. PICK m \in MissingCleanups : NewTask(server.src, m[1], m[2])
  BY DEF EnqueueCleanup
<1> DEFINE s == server.src
           n == Len(tasks) + 1
<1>2. Typed /\ GovernanceAssumption
  BY GovernanceAssumption DEF GovInv
<1>3. server.op = "enqueue" /\ s \in Sources /\ lifecycle[s] = "retired"
  BY DEF EnqueueCleanup, GovInv, Typed, Retiring, Idle
<1>4. m[1] \in Versions(s) /\ m[2] \in Nat \ {Ingest} /\ ~HasTask(s, m[1], m[2])
  BY <1>2, <1>3 DEF MissingCleanups, GovInv, Pointers, Ops, Ingest, GovernanceAssumption
<1>5. m[1] \in Nat
  BY <1>2, <1>3, <1>4, DocFields
<1>6. /\ tasks' \in Seq(TaskRow)
      /\ n \notin DOMAIN tasks /\ DOMAIN tasks' = DOMAIN tasks \cup {n}
      /\ \A j \in DOMAIN tasks : tasks'[j] = tasks[j]
      /\ tasks'[n] = [src |-> s, ver |-> m[1], op |-> m[2], status |-> "pending"]
  BY <1>1, <1>2, <1>3, <1>4, <1>5, TaskAppend
<1>7. UNCHANGED <<mode, docs, active, lastDoc, lastOutcome, lifecycle, tombstones,
                  indexed, server>>
  BY DEF EnqueueCleanup
<1> HIDE DEF s, n
<1>8. Typed'
  BY <1>2, <1>6, <1>7 DEF Typed
<1>9. Pointers'
  BY <1>4, <1>6, <1>7 DEF GovInv, Pointers, TasksOwned, Versions
<1>10. OutcomeIsLast' /\ Retiring'
  BY <1>7 DEF GovInv, OutcomeIsLast, Retiring
<1>11. RetirementExact'
  <2>1. \A j \in DOMAIN tasks :
          tasks[j].src = s /\ tasks[j].ver = m[1] => tasks[j].op # m[2]
    BY <1>4 DEF HasTask, TasksOf
  <2> QED  BY <1>6, <1>7, <2>1 DEF GovInv, RetirementExact
<1>12. OneIngestPerContent'
  BY <1>4, <1>6, <1>7 DEF GovInv, OneIngestPerContent
<1>13. OneTask'
  <2>1. \A j \in DOMAIN tasks : Mirrors(j) => Mirrors(j)'
    BY <1>6, <1>7 DEF Mirrors
  <2> QED  BY <1>3, <1>6, <1>7, <2>1 DEF GovInv, OneTask
<1>14. Reviewed' /\ ActiveIsRight'
  BY <1>7 DEF GovInv, Reviewed, ActiveIsRight, Completed, Versions
<1> QED  BY <1>8, <1>9, <1>10, <1>11, <1>12, <1>13, <1>14 DEF GovInv

\* A reviewer decides on a completed version.
LEMMA ReviewStep ==
    ASSUME GovInv, NEW s \in Sources, NEW v \in Versions(s),
           NEW dec \in {"approved", "rejected"}, Review(s, v, dec)
    PROVE  GovInv'
<1>1. Typed
  BY DEF GovInv
<1>2. docs[s][v] \in Doc /\ v \in Nat \ {0}
  BY <1>1, DocFields
<1>3. PICK d \in Doc :
        /\ d = [docs[s][v] EXCEPT !.candidate = dec, !.reviewed = TRUE]
        /\ d.hash = docs[s][v].hash /\ d.status = docs[s][v].status
        /\ d.candidate = dec /\ d.reviewed
  <2> DEFINE e == [docs[s][v] EXCEPT !.candidate = dec, !.reviewed = TRUE]
  <2>1. /\ e \in Doc /\ e.hash = docs[s][v].hash /\ e.status = docs[s][v].status
        /\ e.candidate = dec /\ e.reviewed
    BY <1>2 DEF Doc
  <2> HIDE DEF Doc
  <2> QED  BY <2>1
<1>4. WriteDoc(s, v, d)
  BY <1>3 DEF Review, WriteDoc
<1>5. /\ docs' \in [Sources -> Seq(Doc)]
      /\ \A u \in Sources : Versions(u)' = Versions(u)
      /\ docs'[s][v] = d
      /\ \A u \in Sources : \A w \in Versions(u) :
           u # s \/ w # v => docs'[u][w] = docs[u][w]
  BY <1>1, <1>4, DocWrite
<1>6. \A u \in Sources : \A w \in Versions(u) :
        docs'[u][w].status = docs[u][w].status /\ docs'[u][w].hash = docs[u][w].hash
  BY <1>3, <1>5
<1>7. UNCHANGED <<mode, active, lastDoc, lastOutcome, lifecycle, tombstones, tasks, indexed>>
  BY DEF Review
<1>8. server' = IF dec = "approved"
                THEN [op |-> "activate", src |-> s, ver |-> v] ELSE Idle
  BY DEF Review
<1>9. \A j \in DOMAIN tasks : tasks[j].src \in Sources /\ tasks[j].ver \in Versions(tasks[j].src)
  BY <1>1, TaskFields DEF GovInv, Pointers, TasksOwned
<1>10. Typed'
  BY <1>1, <1>2, <1>5, <1>7, <1>8 DEF Typed
<1>11. Pointers'
  BY <1>5, <1>7, <1>8, <1>9 DEF GovInv, Pointers, TasksOwned, Idle
<1>12. Retiring' /\ RetirementExact'
  BY <1>7, <1>8 DEF GovInv, Retiring, RetirementExact, Idle
<1>13. OutcomeIsLast'
  BY <1>6, <1>7 DEF GovInv, Pointers, OutcomeIsLast
<1>14. OneIngestPerContent'
  BY <1>6, <1>7, <1>9 DEF GovInv, OneIngestPerContent
<1>15. OneTask'
  <2>1. \A j \in DOMAIN tasks : Mirrors(j) => Mirrors(j)'
    BY <1>6, <1>7, <1>9 DEF Mirrors
  <2> QED  BY <1>7, <2>1 DEF GovInv, OneTask
<1>16. lifecycle[s] = "active" => docs[s][v].status = "completed"
  BY DEF Review, GovInv, Reviewed
<1>17. Reviewed'
  <2>1. \A u \in Sources : lifecycle[u] = "active" => \A w \in Versions(u) :
          docs'[u][w].candidate = "pending_review" \/ docs'[u][w].reviewed
            => docs'[u][w].status = "completed"
    BY <1>3, <1>5, <1>6, <1>16 DEF GovInv, Reviewed
  <2>2. dec = "approved" => docs'[s][v].candidate = "approved" /\ docs'[s][v].reviewed
    BY <1>3, <1>5
  <2>3. server'.op = "activate" => dec = "approved" /\ server'.src = s /\ server'.ver = v
    BY <1>8 DEF Idle
  <2> QED  BY <1>5, <1>7, <2>1, <2>2, <2>3 DEF Reviewed
<1>18. ActiveIsRight'
  <2>1. \A u \in Sources : Completed(u)' = Completed(u)
    BY <1>5, <1>6 DEF Completed
  <2>2. \A u \in Sources : mode = "review" /\ lifecycle[u] = "active" /\ active[u] # 0
          => u # s \/ active[u] # v
    BY DEF Review, GovInv, ActiveIsRight
  <2>3. \A u \in Sources : active[u] # 0 => active[u] \in Versions(u)
    BY DEF GovInv, Pointers
  <2> QED  BY <1>5, <1>7, <2>1, <2>2, <2>3 DEF GovInv, ActiveIsRight
<1> QED  BY <1>10, <1>11, <1>12, <1>13, <1>14, <1>15, <1>17, <1>18 DEF GovInv

\* A task ends, its document takes the task's status, and the source the document's if
\* it is the last one submitted: common to completion, cancellation and giving up.
Ends(i, s, v, st, d) ==
    /\ tasks[i].src = s /\ tasks[i].ver = v /\ tasks[i].status \in Open
    /\ SetTask(i, st) /\ WriteDoc(s, v, d) /\ Outcome(s, v, st)
    /\ d.hash = docs[s][v].hash /\ d.status = st
    /\ active' \in [Sources -> Nat]
    /\ UNCHANGED <<mode, lastDoc, lifecycle, tombstones, server>>

\* What Ends does to the tasks and documents, and what it keeps of the invariant.
LEMMA EndsStep ==
    ASSUME GovInv, NEW i \in DOMAIN tasks, NEW s \in Sources, NEW v \in Versions(s),
           NEW st \in Terminal, NEW d \in Doc, Ends(i, s, v, st, d)
    PROVE  /\ Typed' /\ OutcomeIsLast' /\ Retiring' /\ RetirementExact'
           /\ OneIngestPerContent' /\ OneTask'
           /\ \A u \in Sources : Versions(u)' = Versions(u)
           /\ docs'[s][v] = d
           /\ \A u \in Sources : \A w \in Versions(u) :
                u # s \/ w # v => docs'[u][w] = docs[u][w]
           /\ TasksOwned'
           /\ lifecycle[s] = "active" => docs[s][v].status = "pending"
<1>1. Typed
  BY DEF GovInv
<1>2. /\ tasks' \in Seq(TaskRow)
      /\ DOMAIN tasks' = DOMAIN tasks
      /\ \A j \in DOMAIN tasks :
           /\ tasks'[j].src = tasks[j].src /\ tasks'[j].ver = tasks[j].ver
           /\ tasks'[j].op = tasks[j].op
           /\ tasks'[j].status = IF j = i THEN st ELSE tasks[j].status
  BY <1>1, TaskWrite DEF Ends
<1>3. /\ docs' \in [Sources -> Seq(Doc)]
      /\ \A u \in Sources : Versions(u)' = Versions(u)
      /\ docs'[s][v] = d
      /\ \A u \in Sources : \A w \in Versions(u) :
           u # s \/ w # v => docs'[u][w] = docs[u][w]
  BY <1>1, DocWrite DEF Ends
<1>4. \A j \in DOMAIN tasks : tasks[j].src \in Sources /\ tasks[j].ver \in Versions(tasks[j].src)
  BY <1>1, TaskFields DEF GovInv, Pointers, TasksOwned
<1>5. st \notin Open
  BY DEF Terminal, Open
<1>6. UNCHANGED <<mode, lastDoc, lifecycle, tombstones, server>>
  BY DEF Ends
<1>7. tasks[i].src = s /\ tasks[i].ver = v /\ tasks[i].status \in Open
  BY DEF Ends
<1>8. d.hash = docs[s][v].hash /\ d.status = st
  BY DEF Ends
<1>9. /\ lastOutcome' \in [Sources -> Outcomes]
      /\ \A u \in Sources : lastOutcome'[u] =
           IF u = s /\ lastDoc[s] = v THEN st ELSE lastOutcome[u]
  BY <1>1 DEF Ends, Outcome, Typed, Outcomes
<1>10. Typed'
  BY <1>1, <1>2, <1>3, <1>6, <1>9 DEF Typed, Ends
<1>11. OutcomeIsLast'
  <2> SUFFICES ASSUME NEW u \in Sources, lastDoc[u] # 0
               PROVE  lastOutcome'[u] \in {"unchanged", docs'[u][lastDoc[u]].status}
    BY <1>6 DEF OutcomeIsLast
  <2>1. lastDoc[u] \in Versions(u)
    BY DEF GovInv, Pointers
  <2>2. CASE u = s /\ lastDoc[u] = v
    BY <2>2, <1>3, <1>8, <1>9
  <2>3. CASE u # s \/ lastDoc[u] # v
    BY <2>1, <2>3, <1>3, <1>9 DEF GovInv, OutcomeIsLast
  <2> QED  BY <2>2, <2>3
<1>12. Retiring' /\ RetirementExact'
  BY <1>2, <1>6 DEF GovInv, Retiring, RetirementExact
<1>13. \A u \in Sources : \A w \in Versions(u) : docs'[u][w].hash = docs[u][w].hash
  BY <1>3, <1>8
<1>14. OneIngestPerContent'
  <2>1. \A j \in DOMAIN tasks :
          /\ tasks'[j].status \in Open => tasks[j].status \in Open
          /\ docs'[tasks[j].src][tasks[j].ver].hash = docs[tasks[j].src][tasks[j].ver].hash
    BY <1>2, <1>4, <1>5, <1>13
  <2> SUFFICES ASSUME NEW u \in Sources, NEW a \in DOMAIN tasks, NEW b \in DOMAIN tasks,
                      tasks[a].src = u, tasks[a].op = Ingest, tasks'[a].status \in Open,
                      tasks[b].src = u, tasks[b].op = Ingest, tasks'[b].status \in Open,
                      docs'[u][tasks[a].ver].hash = docs'[u][tasks[b].ver].hash
               PROVE  a = b
    BY <1>2 DEF OneIngestPerContent
  <2> QED  BY <2>1 DEF GovInv, OneIngestPerContent
<1>15. OneTask'
  <2>1. Mirrors(i)'
    BY <1>2, <1>3, <1>5, <1>7, <1>8 DEF Mirrors
  <2>2. ASSUME NEW j \in DOMAIN tasks, Mirrors(j), tasks[j].src # s \/ tasks[j].ver # v
        PROVE  Mirrors(j)'
    <3>1. j # i /\ tasks'[j].status = tasks[j].status
      BY <1>2, <1>7, <2>2
    <3>2. docs'[tasks[j].src][tasks[j].ver] = docs[tasks[j].src][tasks[j].ver]
      BY <1>3, <1>4, <2>2
    <3> QED  BY <1>2, <2>2, <3>1, <3>2 DEF Mirrors
  <2> QED  BY <1>2, <1>6, <1>7, <2>1, <2>2 DEF GovInv, OneTask
<1>16. TasksOwned'
  BY <1>2, <1>3, <1>4 DEF TasksOwned
<1>17. lifecycle[s] = "active" => docs[s][v].status = "pending"
  BY <1>7 DEF GovInv, OneTask, Mirrors
<1> QED  BY <1>3, <1>10, <1>11, <1>12, <1>14, <1>15, <1>16, <1>17

\* A version fails or is cancelled.
LEMMA FailStep ==
    ASSUME GovInv, NEW i \in DOMAIN tasks, NEW s \in Sources, NEW v \in Versions(s),
           NEW st \in {"failed", "cancelled"}, NEW d \in Doc,
           d = [docs[s][v] EXCEPT !.status = st],
           Ends(i, s, v, st, d), UNCHANGED active
    PROVE  GovInv'
<1>1. st \in Terminal
  BY DEF Terminal
<1>2. /\ Typed' /\ OutcomeIsLast' /\ Retiring' /\ RetirementExact'
      /\ OneIngestPerContent' /\ OneTask'
      /\ \A u \in Sources : Versions(u)' = Versions(u)
      /\ docs'[s][v] = d
      /\ \A u \in Sources : \A w \in Versions(u) :
           u # s \/ w # v => docs'[u][w] = docs[u][w]
      /\ TasksOwned'
      /\ lifecycle[s] = "active" => docs[s][v].status = "pending"
  BY <1>1, EndsStep
<1>3. UNCHANGED <<mode, active, lastDoc, lifecycle, server>>
  BY DEF Ends
<1>4. /\ d.status = st /\ d.candidate = docs[s][v].candidate
      /\ d.reviewed = docs[s][v].reviewed
  BY DocFields DEF GovInv, Doc
<1>5. server.op \in {"activate", "retire", "enqueue"} => server.src \in Sources
  BY DEF GovInv, Typed, Idle
<1>6. Pointers'
  BY <1>2, <1>3, <1>5 DEF GovInv, Pointers
<1>7. Reviewed'
  <2>1. lifecycle[s] = "active" =>
          docs[s][v].candidate # "pending_review" /\ ~docs[s][v].reviewed
    BY <1>2 DEF GovInv, Reviewed
  <2>2. \A u \in Sources : lifecycle[u] = "active" => \A w \in Versions(u) :
          docs'[u][w].candidate = "pending_review" \/ docs'[u][w].reviewed
            => docs'[u][w].status = "completed"
    <3> SUFFICES ASSUME NEW u \in Sources, lifecycle[u] = "active", NEW w \in Versions(u),
                        docs'[u][w].candidate = "pending_review" \/ docs'[u][w].reviewed
                 PROVE  docs'[u][w].status = "completed"
      OBVIOUS
    <3>1. u # s \/ w # v
      BY <1>2, <1>4, <2>1
    <3> QED  BY <1>2, <3>1 DEF GovInv, Reviewed
  <2>3. server.op = "activate" => server.ver \in Versions(server.src)
    BY DEF GovInv, Pointers
  <2> QED  BY <1>2, <1>3, <1>4, <1>5, <2>2, <2>3 DEF GovInv, Reviewed
<1>8. ActiveIsRight'
  <2>1. ASSUME NEW u \in Sources, lifecycle[u] = "active"
        PROVE  Completed(u)' = Completed(u)
    <3>1. \A w \in Versions(u) :
            docs'[u][w].status = "completed" <=> docs[u][w].status = "completed"
      <4> TAKE w \in Versions(u)
      <4>1. CASE u = s /\ w = v
        BY <1>2, <1>4, <2>1, <4>1
      <4>2. CASE u # s \/ w # v
        BY <1>2, <4>2
      <4> QED  BY <4>1, <4>2
    <3> QED  BY <1>2, <3>1 DEF Completed
  <2>2. \A u \in Sources : active[u] # 0 => active[u] \in Versions(u)
    BY DEF GovInv, Pointers
  <2> SUFFICES ASSUME NEW u \in Sources, lifecycle[u] = "active"
               PROVE  /\ mode = "auto" =>
                          /\ active[u] \in {0} \cup Completed(u)'
                          /\ \A w \in Completed(u)' : w <= active[u]
                      /\ mode = "review" /\ active[u] # 0 =>
                          LET e == docs'[u][active[u]] IN e.candidate = "approved" /\ e.reviewed
    BY <1>3 DEF ActiveIsRight
  <2>3. mode = "auto" =>
          /\ active[u] \in {0} \cup Completed(u)
          /\ \A w \in Completed(u) : w <= active[u]
    BY DEF GovInv, ActiveIsRight
  <2>4. mode = "review" /\ active[u] # 0 =>
          docs[u][active[u]].candidate = "approved" /\ docs[u][active[u]].reviewed
    BY DEF GovInv, ActiveIsRight
  <2>5. active[u] # 0 =>
          /\ docs'[u][active[u]].candidate = docs[u][active[u]].candidate
          /\ docs'[u][active[u]].reviewed = docs[u][active[u]].reviewed
    BY <1>2, <1>4, <2>2
  <2>6. Completed(u)' = Completed(u)
    BY <2>1
  <2> QED  BY <2>3, <2>4, <2>5, <2>6
<1> QED  BY <1>2, <1>6, <1>7, <1>8 DEF GovInv

\* A version completes and, in auto mode, is activated unless a newer one is.
LEMMA CompleteStep ==
    ASSUME GovInv, NEW i \in DOMAIN tasks, NEW s \in Sources, NEW v \in Versions(s),
           NEW d \in Doc, Ends(i, s, v, "completed", d),
           d.reviewed = docs[s][v].reviewed,
           \/ /\ mode = "auto" /\ d.candidate = docs[s][v].candidate
              /\ Activate(s, v)
           \/ mode # "auto" /\ d.candidate = "pending_review" /\ UNCHANGED active
    PROVE  GovInv'
<1>1. "completed" \in Terminal
  BY DEF Terminal
<1>2. /\ Typed' /\ OutcomeIsLast' /\ Retiring' /\ RetirementExact'
      /\ OneIngestPerContent' /\ OneTask'
      /\ \A u \in Sources : Versions(u)' = Versions(u)
      /\ docs'[s][v] = d
      /\ \A u \in Sources : \A w \in Versions(u) :
           u # s \/ w # v => docs'[u][w] = docs[u][w]
      /\ TasksOwned'
      /\ lifecycle[s] = "active" => docs[s][v].status = "pending"
  BY <1>1, EndsStep
<1>3. d.status = "completed" /\ UNCHANGED <<mode, lastDoc, lifecycle, server>>
  BY DEF Ends
<1>4. /\ \A u \in Sources \ {s} : active'[u] = active[u]
      /\ active'[s] = IF mode = "auto" /\ Wins(s, v) THEN v ELSE active[s]
      /\ v \in Nat \ {0} /\ active[s] \in Nat
  BY DocFields DEF GovInv, Typed, Activate
<1>5. server.op \in {"activate", "retire", "enqueue"} => server.src \in Sources
  BY DEF GovInv, Typed, Idle
<1>6. Pointers'
  <2>1. \A u \in Sources : active'[u] \in {0} \cup Versions(u)
    BY <1>4 DEF GovInv, Pointers
  <2> QED  BY <1>2, <1>3, <1>5, <2>1 DEF GovInv, Pointers
<1>7. lifecycle[s] = "active" =>
        docs[s][v].candidate # "pending_review" /\ ~docs[s][v].reviewed
  BY <1>2 DEF GovInv, Reviewed
<1>8. Reviewed'
  <2>1. \A u \in Sources : lifecycle[u] = "active" => \A w \in Versions(u) :
          docs'[u][w].candidate = "pending_review" \/ docs'[u][w].reviewed
            => docs'[u][w].status = "completed"
    <3> SUFFICES ASSUME NEW u \in Sources, lifecycle[u] = "active", NEW w \in Versions(u),
                        docs'[u][w].candidate = "pending_review" \/ docs'[u][w].reviewed
                 PROVE  docs'[u][w].status = "completed"
      OBVIOUS
    <3>1. CASE u = s /\ w = v
      BY <1>2, <1>3, <3>1
    <3>2. CASE u # s \/ w # v
      BY <1>2, <3>2 DEF GovInv, Reviewed
    <3> QED  BY <3>1, <3>2
  <2>2. server.op = "activate" => server.ver \in Versions(server.src)
    BY DEF GovInv, Pointers
  <2>3. server.op = "activate" /\ lifecycle[server.src] = "active" =>
          /\ docs[server.src][server.ver].candidate = "approved"
          /\ docs[server.src][server.ver].reviewed
    BY DEF GovInv, Reviewed
  <2>4. server.op = "activate" /\ lifecycle[server.src] = "active" =>
          docs'[server.src][server.ver] = docs[server.src][server.ver]
    BY <1>2, <1>5, <1>7, <2>2, <2>3
  <2> QED  BY <1>2, <1>3, <2>1, <2>3, <2>4 DEF Reviewed
<1>9. ActiveIsRight'
  <2> SUFFICES ASSUME NEW u \in Sources, lifecycle[u] = "active"
               PROVE  /\ mode = "auto" =>
                          /\ active'[u] \in {0} \cup Completed(u)'
                          /\ \A w \in Completed(u)' : w <= active'[u]
                      /\ mode = "review" /\ active'[u] # 0 =>
                          /\ docs'[u][active'[u]].candidate = "approved"
                          /\ docs'[u][active'[u]].reviewed
    BY <1>3 DEF ActiveIsRight
  <2>1. mode = "auto" =>
          /\ active[u] \in {0} \cup Completed(u)
          /\ \A w \in Completed(u) : w <= active[u]
    BY DEF GovInv, ActiveIsRight
  <2>2. mode = "review" /\ active[u] # 0 =>
          docs[u][active[u]].candidate = "approved" /\ docs[u][active[u]].reviewed
    BY DEF GovInv, ActiveIsRight
  <2>3. active[u] \in {0} \cup Versions(u)
    BY DEF GovInv, Pointers
  <2>4. CASE u # s
    <3>1. Completed(u)' = Completed(u)
      BY <1>2, <2>4 DEF Completed
    <3> QED  BY <1>2, <1>4, <2>1, <2>2, <2>3, <2>4, <3>1
  <2>5. CASE u = s
    <3>1. Completed(s)' = Completed(s) \cup {v}
      <4>1. \A w \in Versions(s) :
              docs'[s][w].status = "completed" <=> docs[s][w].status = "completed" \/ w = v
        BY <1>2, <1>3
      <4> QED  BY <1>2, <4>1 DEF Completed
    <3>2. \A w \in Completed(s) : w \in Nat
      BY DocFields DEF GovInv, Completed
    <3>3. CASE mode = "auto"
      BY <1>4, <2>1, <2>5, <3>1, <3>2, <3>3 DEF Wins
    <3>4. CASE mode # "auto"
      <4>1. active'[s] = active[s]
        BY <1>4, <3>4
      <4>2. mode = "review" /\ active[s] # 0 => docs'[s][active[s]] = docs[s][active[s]]
        BY <1>2, <1>7, <2>2, <2>3, <2>5
      <4> QED  BY <2>2, <2>5, <3>4, <4>1, <4>2
    <3> QED  BY <3>3, <3>4
  <2> QED  BY <2>4, <2>5
<1> QED  BY <1>2, <1>6, <1>8, <1>9 DEF GovInv

\* The server activates the version a reviewer approved.
LEMMA ReviewActivatesStep ==
    ASSUME GovInv, ReviewActivates
    PROVE  GovInv'
<1> DEFINE s == server.src
           v == server.ver
<1>1. server.op = "activate" /\ s \in Sources /\ v \in Versions(s) /\ v \in Nat
  BY DEF ReviewActivates, GovInv, Typed, Pointers, Idle
<1>2. Activate(s, v) /\ server' = Idle
  BY DEF ReviewActivates
<1>3. UNCHANGED <<mode, docs, lastDoc, lastOutcome, lifecycle, tombstones, tasks, indexed>>
  BY DEF ReviewActivates
<1>4. lifecycle[s] = "active" =>
        /\ docs[s][v].candidate = "approved" /\ docs[s][v].reviewed
        /\ v \in Completed(s)
  BY <1>1 DEF GovInv, Reviewed, Completed
<1> HIDE DEF s, v
<1>5. /\ active' \in [Sources -> Nat]
      /\ \A u \in Sources \ {s} : active'[u] = active[u]
      /\ active'[s] = IF Wins(s, v) THEN v ELSE active[s]
  BY <1>1, <1>2 DEF GovInv, Typed, Activate
<1>6. Typed'
  BY <1>2, <1>3, <1>5 DEF GovInv, Typed
<1>7. Pointers'
  <2>1. \A u \in Sources : active'[u] \in {0} \cup Versions(u)
    BY <1>1, <1>5 DEF GovInv, Pointers
  <2> QED  BY <1>2, <1>3, <2>1 DEF GovInv, Pointers, TasksOwned, Versions, Idle
<1>8. Retiring' /\ RetirementExact' /\ OutcomeIsLast' /\ OneIngestPerContent'
  BY <1>2, <1>3 DEF GovInv, Retiring, RetirementExact, OutcomeIsLast, OneIngestPerContent,
                    Idle
<1>9. OneTask' /\ Reviewed'
  BY <1>2, <1>3 DEF GovInv, OneTask, Mirrors, Reviewed, Versions, Idle
<1>10. ActiveIsRight'
  <2>1. \A u \in Sources : Completed(u)' = Completed(u)
    BY <1>3 DEF Completed, Versions
  <2>2. \A w \in Completed(s) : w \in Nat
    BY <1>1, DocFields DEF GovInv, Completed
  <2>3. active[s] \in Nat
    BY <1>1 DEF GovInv, Typed
  <2> QED  BY <1>1, <1>3, <1>4, <1>5, <2>1, <2>2, <2>3 DEF GovInv, ActiveIsRight, Wins
<1> QED  BY <1>6, <1>7, <1>8, <1>9, <1>10 DEF GovInv

\* A new version comes after the others, with a task of its own, and nothing else in
\* flight has its content.
LEMMA SubmitVersionStep ==
    ASSUME GovInv, NEW s \in Sources, NEW h \in Hashes, SubmitVersion(s, h)
    PROVE  GovInv'
<1> DEFINE d == [hash |-> h, status |-> "pending", candidate |-> "approved",
                 reviewed |-> FALSE]
<1>1. Typed /\ docs[s] \in Seq(Doc) /\ d \in Doc
  BY DEF GovInv, Typed, Doc
<1> PICK v \in Nat : v = Len(docs[s]) + 1
  BY <1>1
<1> PICK n \in Nat : n = Len(tasks) + 1
  BY <1>1 DEF Typed
<1>2. docs' = [docs EXCEPT ![s] = Append(docs[s], d)]
  BY DEF SubmitVersion
<1>3. /\ d.hash = h /\ d.status = "pending" /\ d.candidate = "approved" /\ ~d.reviewed
  OBVIOUS
<1> HIDE DEF d, Doc
<1>4. /\ v \in Nat \ {0} /\ Append(docs[s], d) \in Seq(Doc)
      /\ DOMAIN Append(docs[s], d) = DOMAIN docs[s] \cup {v} /\ v \notin DOMAIN docs[s]
      /\ Append(docs[s], d)[v] = d
      /\ \A w \in DOMAIN docs[s] : Append(docs[s], d)[w] = docs[s][w]
  <2>1. /\ Append(docs[s], d) \in Seq(Doc) /\ Len(docs[s]) \in Nat
        /\ Len(Append(docs[s], d)) = v
    BY <1>1
  <2>2. DOMAIN docs[s] = 1 .. Len(docs[s]) /\ DOMAIN Append(docs[s], d) = 1 .. v
    BY <1>1, <2>1
  <2> QED  BY <1>1, <2>1, <2>2
<1>5. Versions(s)' = Versions(s) \cup {v} /\ v \notin Versions(s)
  BY <1>1, <1>2, <1>4 DEF Typed, Versions
<1>6. \A u \in Sources \ {s} : Versions(u)' = Versions(u)
  BY <1>1, <1>2 DEF Typed, Versions
<1>7. /\ docs' \in [Sources -> Seq(Doc)]
      /\ docs'[s][v] = d
      /\ \A u \in Sources : \A w \in Versions(u) : docs'[u][w] = docs[u][w]
  BY <1>1, <1>2, <1>4 DEF Typed, Versions
<1>8. NewTask(s, v, Ingest) /\ Ingest \in Nat
  BY DEF SubmitVersion, Ingest
<1>9. /\ tasks' \in Seq(TaskRow)
      /\ n \notin DOMAIN tasks /\ DOMAIN tasks' = DOMAIN tasks \cup {n}
      /\ \A j \in DOMAIN tasks : tasks'[j] = tasks[j]
      /\ tasks'[n] = [src |-> s, ver |-> v, op |-> Ingest, status |-> "pending"]
  BY <1>1, <1>4, <1>8, TaskAppend
<1>10. UNCHANGED <<mode, active, lifecycle, tombstones, indexed, server>>
  BY DEF SubmitVersion
<1>11. /\ lastDoc' = [lastDoc EXCEPT ![s] = v]
       /\ lastOutcome' = [lastOutcome EXCEPT ![s] = "pending"]
  BY DEF SubmitVersion
<1>12. \A j \in DOMAIN tasks : tasks[j].src \in Sources /\ tasks[j].ver \in Versions(tasks[j].src)
  BY <1>1, TaskFields DEF GovInv, Pointers, TasksOwned
<1>13. \A j \in DOMAIN tasks : tasks[j].src = s /\ tasks[j].status \in Open
         => docs[s][tasks[j].ver].hash # h
  BY <1>12 DEF SubmitVersion, InFlight, TasksOf
<1>14. Typed'
  BY <1>1, <1>4, <1>7, <1>9, <1>10, <1>11 DEF Typed, Outcomes
<1>15. server.op \in {"activate", "retire", "enqueue"} => server.src \in Sources
  BY <1>1 DEF Typed, Idle
<1>16. Pointers'
  <2>1. \A u \in Sources : Versions(u) \subseteq Versions(u)'
    BY <1>5, <1>6
  <2>2. \A u \in Sources : lastDoc'[u] \in {0} \cup Versions(u)'
    BY <1>1, <1>5, <1>11, <2>1 DEF GovInv, Pointers, Typed
  <2>3. TasksOwned'
    BY <1>5, <1>9, <1>12, <2>1 DEF TasksOwned
  <2> QED  BY <1>10, <1>15, <2>1, <2>2, <2>3 DEF GovInv, Pointers
<1>17. OutcomeIsLast'
  <2> SUFFICES ASSUME NEW u \in Sources, lastDoc'[u] # 0
               PROVE  lastOutcome'[u] \in {"unchanged", docs'[u][lastDoc'[u]].status}
    BY DEF OutcomeIsLast
  <2>1. CASE u = s
    BY <1>1, <1>3, <1>7, <1>11, <2>1 DEF Typed
  <2>2. CASE u # s
    <3>1. lastDoc'[u] = lastDoc[u] /\ lastOutcome'[u] = lastOutcome[u]
      BY <1>1, <1>11, <2>2 DEF Typed
    <3>2. lastDoc[u] \in Versions(u)
      BY <3>1 DEF GovInv, Pointers
    <3> QED  BY <1>7, <3>1, <3>2 DEF GovInv, OutcomeIsLast
  <2> QED  BY <2>1, <2>2
<1>18. Retiring' /\ RetirementExact'
  <2>1. tasks'[n].op = Ingest
    BY <1>9
  <2> QED  BY <1>9, <1>10, <2>1 DEF GovInv, Retiring, RetirementExact
<1>19. OneIngestPerContent'
  <2> SUFFICES ASSUME NEW u \in Sources, NEW a \in DOMAIN tasks', NEW b \in DOMAIN tasks',
                      tasks'[a].src = u, tasks'[a].op = Ingest, tasks'[a].status \in Open,
                      tasks'[b].src = u, tasks'[b].op = Ingest, tasks'[b].status \in Open,
                      docs'[u][tasks'[a].ver].hash = docs'[u][tasks'[b].ver].hash
               PROVE  a = b
    BY DEF OneIngestPerContent
  <2>1. \A j \in DOMAIN tasks :
          tasks[j].src = u => docs'[u][tasks[j].ver] = docs[u][tasks[j].ver]
    BY <1>7, <1>12
  <2>2. CASE a \in DOMAIN tasks /\ b \in DOMAIN tasks
    BY <1>9, <2>1, <2>2 DEF GovInv, OneIngestPerContent
  <2>3. CASE a = n /\ b \in DOMAIN tasks
    BY <1>3, <1>7, <1>9, <1>13, <2>1, <2>3
  <2>4. CASE a \in DOMAIN tasks /\ b = n
    BY <1>3, <1>7, <1>9, <1>13, <2>1, <2>4
  <2> QED  BY <1>9, <2>2, <2>3, <2>4
<1>20. OneTask'
  <2>1. ASSUME NEW j \in DOMAIN tasks, Mirrors(j)
        PROVE  Mirrors(j)'
    BY <1>7, <1>9, <1>12, <2>1 DEF Mirrors
  <2>2. Mirrors(n)'
    BY <1>3, <1>7, <1>9 DEF Mirrors, Open
  <2>3. \A j \in DOMAIN tasks : tasks[j].src # s \/ tasks[j].ver # v
    BY <1>5, <1>12
  <2> QED  BY <1>9, <1>10, <2>1, <2>2, <2>3 DEF GovInv, OneTask
<1>21. Reviewed'
  <2>1. \A u \in Sources : lifecycle[u] = "active" => \A w \in Versions(u)' :
          docs'[u][w].candidate = "pending_review" \/ docs'[u][w].reviewed
            => docs'[u][w].status = "completed"
    BY <1>3, <1>5, <1>6, <1>7 DEF GovInv, Reviewed
  <2>2. server.op = "activate" => server.ver \in Versions(server.src)
    BY DEF GovInv, Pointers
  <2> QED  BY <1>7, <1>10, <1>15, <2>1, <2>2 DEF GovInv, Reviewed
<1>22. ActiveIsRight'
  <2>1. \A u \in Sources : Completed(u)' = Completed(u)
    BY <1>3, <1>5, <1>6, <1>7 DEF Completed
  <2>2. \A u \in Sources : active[u] # 0 => docs'[u][active[u]] = docs[u][active[u]]
    BY <1>7 DEF GovInv, Pointers
  <2> QED  BY <1>10, <2>1, <2>2 DEF GovInv, ActiveIsRight
<1> QED  BY <1>14, <1>16, <1>17, <1>18, <1>19, <1>20, <1>21, <1>22 DEF GovInv

-----------------------------------------------------------------------------
(* The actions, and the theorems. *)

\* A cancellation ends the newest task of a version.
LEMMA CancelStep ==
    ASSUME GovInv, NEW s \in Sources, NEW v \in Versions(s), Cancel(s, v)
    PROVE  GovInv'
<1>1. docs[s][v] \in Doc
  BY DocFields DEF GovInv
<1>2. PICK i \in DOMAIN tasks : /\ tasks[i].src = s /\ tasks[i].ver = v
                                /\ tasks[i].status \in Open /\ SetTask(i, "cancelled")
  BY DEF Cancel, NewestTask, TasksOf
<1>3. PICK d \in Doc : /\ d = [docs[s][v] EXCEPT !.status = "cancelled"]
                       /\ d.hash = docs[s][v].hash /\ d.status = "cancelled"
                       /\ d.candidate = docs[s][v].candidate
                       /\ d.reviewed = docs[s][v].reviewed
  BY <1>1, StatusWrite DEF Terminal
<1>4. WriteDoc(s, v, d) /\ Outcome(s, v, "cancelled")
      /\ UNCHANGED <<mode, active, lastDoc, lifecycle, tombstones, server>>
  BY <1>3 DEF Cancel, WriteDoc
<1>5. Ends(i, s, v, "cancelled", d)
  BY <1>2, <1>3, <1>4 DEF Ends, GovInv, Typed
<1> QED  BY <1>3, <1>4, <1>5, FailStep

\* An ingestion gives up.
LEMMA GiveUpStep ==
    ASSUME GovInv, NEW i \in DOMAIN tasks, GiveUp(i)
    PROVE  GovInv'
<1>1. PICK s \in Sources : s = tasks[i].src
  BY TaskFields DEF GovInv
<1>2. PICK v \in Versions(s) : v = tasks[i].ver
  BY <1>1 DEF GovInv, Pointers, TasksOwned
<1>3. docs[s][v] \in Doc
  BY DocFields DEF GovInv
<1>4. PICK d \in Doc : /\ d = [docs[s][v] EXCEPT !.status = "failed"]
                       /\ d.hash = docs[s][v].hash /\ d.status = "failed"
                       /\ d.candidate = docs[s][v].candidate
                       /\ d.reviewed = docs[s][v].reviewed
  BY <1>3, StatusWrite DEF Terminal
<1>5. WriteDoc(s, v, d) /\ Outcome(s, v, "failed") /\ SetTask(i, "failed")
      /\ UNCHANGED <<mode, active, lastDoc, lifecycle, tombstones, server>>
  BY <1>1, <1>2, <1>4 DEF GiveUp, WriteDoc
<1>6. Ends(i, s, v, "failed", d)
  BY <1>1, <1>2, <1>4, <1>5 DEF GiveUp, Ends, Open, GovInv, Typed
<1> QED  BY <1>4, <1>5, <1>6, FailStep

\* An ingestion completes.
LEMMA CompleteAction ==
    ASSUME GovInv, NEW i \in DOMAIN tasks, Complete(i)
    PROVE  GovInv'
<1>1. PICK s \in Sources : s = tasks[i].src
  BY TaskFields DEF GovInv
<1>2. PICK v \in Versions(s) : v = tasks[i].ver
  BY <1>1 DEF GovInv, Pointers, TasksOwned
<1>3. docs[s][v] \in Doc
  BY DocFields DEF GovInv
<1>4. /\ Outcome(s, v, "completed") /\ SetTask(i, "completed") /\ tasks[i].status \in Open
      /\ UNCHANGED <<mode, lastDoc, lifecycle, tombstones, server>>
  BY <1>1, <1>2 DEF Complete, Open
<1>5. CASE ActivatesAtOnce
  <2>1. PICK d \in Doc : /\ d = [docs[s][v] EXCEPT !.status = "completed"]
                         /\ d.hash = docs[s][v].hash /\ d.status = "completed"
                         /\ d.candidate = docs[s][v].candidate
                         /\ d.reviewed = docs[s][v].reviewed
    BY <1>3, StatusWrite DEF Terminal
  <2>2. WriteDoc(s, v, d) /\ Activate(s, v)
    BY <1>1, <1>2, <1>5, <2>1 DEF Complete, WriteDoc
  <2>3. active' \in [Sources -> Nat]
    BY <2>2, DocFields DEF Activate, GovInv, Typed
  <2>4. Ends(i, s, v, "completed", d)
    BY <1>1, <1>2, <1>4, <2>1, <2>2, <2>3 DEF Ends
  <2> QED  BY <1>5, <2>1, <2>2, <2>4, CompleteStep DEF ActivatesAtOnce
<1>6. CASE ~ActivatesAtOnce
  <2>1. PICK d \in Doc : /\ d = [docs[s][v] EXCEPT !.status = "completed",
                                                   !.candidate = "pending_review"]
                         /\ d.hash = docs[s][v].hash /\ d.status = "completed"
                         /\ d.candidate = "pending_review"
                         /\ d.reviewed = docs[s][v].reviewed
    BY <1>3, StatusWrite DEF Terminal
  <2>2. WriteDoc(s, v, d)
    BY <1>1, <1>2, <1>6, <2>1 DEF Complete, WriteDoc
  <2>3. UNCHANGED active
    BY <1>6 DEF Complete
  <2>4. Ends(i, s, v, "completed", d)
    BY <1>1, <1>2, <1>4, <2>1, <2>2, <2>3 DEF Ends, GovInv, Typed
  <2> QED  BY <1>6, <2>1, <2>2, <2>3, <2>4, CompleteStep DEF ActivatesAtOnce
<1> QED  BY <1>5, <1>6

\* Every step keeps the invariant.
LEMMA GovInvNext == GovInv /\ [Next]_govVars => GovInv'
<1> SUFFICES ASSUME GovInv, [Next]_govVars PROVE GovInv'
  OBVIOUS
<1>1. ASSUME NEW s \in Sources, NEW h \in Hashes, SubmitUnchanged(s, h) \/ SubmitVersion(s, h)
      PROVE  GovInv'
  BY <1>1, SubmitUnchangedStep, SubmitVersionStep
<1>2. ASSUME NEW s \in Sources, NEW v \in Versions(s),
             Cancel(s, v) \/ \E d \in {"approved", "rejected"} : Review(s, v, d)
      PROVE  GovInv'
  BY <1>2, CancelStep, ReviewStep
<1>3. ASSUME NEW s \in Sources, RetireReads(s)
      PROVE  GovInv'
  BY <1>3, NoRowSteps DEF RetireReads, Rows
<1>4. ASSUME NEW i \in DOMAIN tasks, RunTask(i)
      PROVE  GovInv'
  <2>1. CASE Claim(i) \/ Retry(i)
    <3>1. PICK st \in Open : SetTask(i, st)
      BY <2>1 DEF Claim, Retry, Open
    <3>2. /\ tasks[i].status \in Open
          /\ UNCHANGED <<mode, docs, active, lastDoc, lastOutcome, lifecycle, tombstones,
                         indexed, server>>
      BY <2>1 DEF Claim, Retry, Open
    <3> QED  BY <3>1, <3>2, TaskMoves
  <2>2. CASE StoreChunks(i)
    BY <2>2, NoRowSteps DEF StoreChunks, Rows
  <2>3. CASE Complete(i) \/ GiveUp(i)
    BY <2>3, CompleteAction, GiveUpStep
  <2> QED  BY <1>4, <2>1, <2>2, <2>3 DEF RunTask
<1>5. CASE ServerContinues
  <2>1. CASE RetireReturns
    BY <2>1, NoRowSteps DEF RetireReturns, Rows
  <2> QED  BY <1>5, <2>1, ReviewActivatesStep, RetireCommitsStep, EnqueueCleanupStep
           DEF ServerContinues
<1>6. CASE Interrupt
  BY <1>6, NoRowSteps DEF Interrupt, Rows
<1>7. CASE UNCHANGED govVars
  BY <1>7, NoRowSteps DEF govVars, Rows
<1> QED  BY <1>1, <1>2, <1>3, <1>4, <1>5, <1>6, <1>7 DEF Next

\* The invariant of every behaviour of the sources.
LEMMA GovInvAlways == Spec => []GovInv
BY GovInvInit, GovInvNext, PTL DEF Spec

\* However runs, reviews, cancellations, retirements and interruptions interleave, the
\* version served is the newest completed one in auto mode and an approved one in review
\* mode (documentRepo.activate, markPendingReview, review).
THEOREM TheRightVersionIsServed == Spec => []ActiveIsRight
<1>1. GovInv => ActiveIsRight
  BY DEF GovInv
<1> QED  BY <1>1, GovInvAlways, PTL

\* One content of one source is never in two open ingestions (the transaction of submit).
THEOREM ContentsAreIngestedOnce == Spec => []OneIngestPerContent
<1>1. GovInv => OneIngestPerContent
  BY DEF GovInv
<1> QED  BY <1>1, GovInvAlways, PTL

\* A source reports the outcome of its last submission (recordOutcome, updateStatus).
THEOREM OutcomesAreOfTheLast == Spec => []OutcomeIsLast
<1>1. GovInv => OutcomeIsLast
  BY DEF GovInv
<1> QED  BY <1>1, GovInvAlways, PTL

\* A retired source has one tombstone and each cleanup once (retire, hasTask).
THEOREM RetirementsAreExact == Spec => []RetirementExact
<1>1. GovInv => RetirementExact
  BY DEF GovInv
<1> QED  BY <1>1, GovInvAlways, PTL

-----------------------------------------------------------------------------
(* SourceAdoption: the invariant of its rows. *)

ShelfOutcomes == PaperStatus \cup {"none", "unchanged"}
ShelfR == [key : Keys, legacy : BOOLEAN, active : Nat, last : Nat,
           outcome : ShelfOutcomes, canonical : Nat]
PaperR == [source : Nat, text : Texts, version : Nat, order : Nat, status : PaperStatus]

\* The completed documents of a source, and the one it is to serve.
Known(pa, s) == {d \in PapersOf(pa, s) : pa[d].status = "completed"}
Serves(pa, s, a) == a \in {0} \cup Known(pa, s) /\ \A d \in Known(pa, s) : d <= a

RowsTyped(sh, pa) == sh \in Seq(ShelfR) /\ pa \in Seq(PaperR)

\* An alias serves nothing and stands for a source that is none.
Served(sh, pa) ==
    \A s \in DOMAIN sh :
        /\ sh[s].canonical # 0 =>
             /\ sh[s].canonical \in DOMAIN sh /\ ~sh[sh[s].canonical].legacy
             /\ sh[s].active = 0 /\ sh[s].legacy
        /\ sh[s].canonical = 0 => Serves(pa, s, sh[s].active)

Named(sh) ==
    /\ \A s \in DOMAIN sh : sh[s].key = "file" <=> ~sh[s].legacy
    /\ \A s, r \in DOMAIN sh : sh[s].key = sh[r].key => s = r

\* No version of a source is given twice, and later documents come later.
Distinct(pa) ==
    \A d, e \in DOMAIN pa : pa[d].source = pa[e].source =>
        /\ pa[d].version = pa[e].version => d = e
        /\ d < e => pa[d].order < pa[e].order

\* The next version comes after every document there is.
Ahead(sh, pa) ==
    \A d \in DOMAIN pa :
        /\ pa[d].source \in DOMAIN sh /\ pa[d].version # 0
        /\ sh[pa[d].source].canonical = 0 => pa[d].order < NextVersionOf(pa, pa[d].source)

Good(sh, pa) == RowsTyped(sh, pa) /\ Served(sh, pa) /\ Named(sh) /\ Distinct(pa) /\ Ahead(sh, pa)

-----------------------------------------------------------------------------
(* Lemmas: the next version. *)

\* A set of numbers with a bound has a greatest one.
LEMMA MaxBelow ==
    ASSUME NEW S, S \subseteq Nat, S # {}, NEW m \in Nat, \A y \in S : y <= m
    PROVE  Max(S) \in S /\ \A y \in S : y <= Max(S)
<1> DEFINE T == {m - i : i \in S}
<1>1. T \subseteq Nat /\ T # {}
  <2>1. \A i \in S : i \in Nat /\ i <= m
    OBVIOUS
  <2>2. \A i \in S : m - i \in Nat
    BY <2>1
  <2> QED  BY <2>2
<1>2. PICK x \in T : \A y \in T : x <= y
  <2> HIDE DEF T
  <2> QED  BY <1>1, LeastNat
<1>3. PICK k \in S : x = m - k
  BY <1>2
<1>4. \A i \in S : i <= k
  <2>1. \A i \in S : m - k <= m - i
    BY <1>2, <1>3
  <2>2. S \subseteq Int /\ m \in Int /\ k \in Int
    OBVIOUS
  <2> HIDE DEF T
  <2> QED  BY <2>1, <2>2
<1>5. Max(S) = k
  <2>1. S \subseteq Int
    OBVIOUS
  <2> HIDE DEF T
  <2> QED  BY <1>4, <2>1, MaxOf
<1> HIDE DEF T
<1> QED  BY <1>3, <1>4, <1>5

\* The numbers of a sequence have a bound.
LEMMA Bounded ==
    ASSUME NEW n \in Nat, NEW f \in [1 .. n -> Nat]
    PROVE  \E m \in Nat : \A i \in 1 .. n : f[i] <= m
<1> DEFINE T == {k \in 0 .. n : ~ \E m \in Nat : \A i \in 1 .. k : f[i] <= m}
<1>1. T = {}
  <2> SUFFICES ASSUME T # {}
               PROVE  FALSE
    OBVIOUS
  <2>1. T \subseteq Nat
    OBVIOUS
  <2>2. PICK k \in T : \A j \in T : k <= j
    <3> HIDE DEF T
    <3> QED  BY <2>1, LeastNat
  <2>3. k # 0
    <3>1. \A i \in 1 .. 0 : f[i] <= 0
      OBVIOUS
    <3> QED  BY <3>1
  <2>4. k \in 1 .. n /\ k - 1 \in 0 .. n /\ k - 1 \notin T
    <3>1. k \in 0 .. n
      OBVIOUS
    <3>2. k \in 1 .. n /\ k - 1 \in 0 .. n /\ ~ (k <= k - 1)
      BY <2>3, <3>1
    <3> HIDE DEF T
    <3> QED  BY <2>2, <3>2
  <2>5. PICK m \in Nat : \A i \in 1 .. (k - 1) : f[i] <= m
    BY <2>4
  <2>6. f[k] \in Nat
    BY <2>4
  <2> PICK z : z = f[k]
    OBVIOUS
  <2>7. m + z \in Nat /\ \A i \in 1 .. k : f[i] <= m + z
    <3>1. \A i \in 1 .. k : i = k \/ i \in 1 .. (k - 1)
      BY <2>4
    <3>2. \A i \in 1 .. k : f[i] \in Nat
      <4>1. \A i \in 1 .. k : i \in 1 .. n
        BY <2>4
      <4> HIDE DEF T
      <4> QED  BY <4>1
    <3>3. z \in Nat /\ m \in Nat
      BY <2>6
    <3> HIDE DEF T
    <3> QED  BY <2>5, <3>1, <3>2, <3>3
  <2> QED  BY <2>2, <2>7
<1>2. n \in 0 .. n
  OBVIOUS
<1> QED  BY <1>1, <1>2

VersionsOf(pa, s) == {pa[d].version : d \in PapersOf(pa, s)}

\* The next version is one more than every version there is.
LEMMA NextIsNew ==
    ASSUME NEW pa \in Seq(PaperR), NEW s
    PROVE  /\ NextVersionOf(pa, s) \in Nat /\ NextVersionOf(pa, s) # 0
           /\ \A d \in PapersOf(pa, s) : pa[d].version < NextVersionOf(pa, s)
<1> DEFINE n == Len(pa)
           f == [i \in 1 .. n |-> pa[i].version]
           S == {0} \cup VersionsOf(pa, s)
<1>1. n \in Nat /\ DOMAIN pa = 1 .. n /\ \A i \in 1 .. n : pa[i].version \in Nat
  <2>1. \A i \in 1 .. Len(pa) : pa[i] \in PaperR
    OBVIOUS
  <2>2. \A x \in PaperR : x.version \in Nat
    BY DEF PaperR
  <2> QED  BY <2>1, <2>2
<1>2. PICK m \in Nat : \A i \in 1 .. n : f[i] <= m
  <2>1. f \in [1 .. n -> Nat]
    BY <1>1
  <2> HIDE DEF f, n
  <2> QED  BY <1>1, <2>1, Bounded
<1>3. S \subseteq Nat /\ S # {} /\ \A y \in S : y <= m
  <2>1. \A d \in PapersOf(pa, s) : d \in 1 .. n
    BY <1>1 DEF PapersOf
  <2>2. \A d \in PapersOf(pa, s) : pa[d].version \in Nat /\ pa[d].version <= m
    BY <1>1, <1>2, <2>1
  <2> QED  BY <2>2 DEF VersionsOf
<1>4. NextVersionOf(pa, s) = Max(S) + 1
  BY DEF NextVersionOf, VersionsOf
<1>5. Max(S) \in S /\ \A y \in S : y <= Max(S)
  <2> HIDE DEF S
  <2> QED  BY <1>3, MaxBelow
<1>6. \A d \in PapersOf(pa, s) : pa[d].version \in S
  BY DEF VersionsOf
<1> HIDE DEF S
<1> PICK k : k = Max(S)
  OBVIOUS
<1>7. k \in Nat /\ \A y \in S : y \in Nat /\ y <= k
  BY <1>3, <1>5
<1> QED  BY <1>4, <1>6, <1>7

\* It depends on the versions alone.
LEMMA NextOfSame ==
    ASSUME NEW pa, NEW pb, NEW s, VersionsOf(pa, s) = VersionsOf(pb, s)
    PROVE  NextVersionOf(pa, s) = NextVersionOf(pb, s)
BY DEF NextVersionOf, VersionsOf

-----------------------------------------------------------------------------
(* Lemmas: what a step may do to the rows. *)

\* What a further document x of the source s leaves as it was.
Grown(sh, pa, pb, s, x, m) ==
    /\ pb \in Seq(PaperR) /\ Distinct(pb) /\ Ahead(sh, pb)
    /\ m \in Nat /\ pb[m] = x /\ DOMAIN pb = DOMAIN pa \cup {m}
    /\ \A r : Known(pb, r) = Known(pa, r)
                \cup (IF r = s /\ x.status = "completed" THEN {m} ELSE {})
    /\ \A d \in DOMAIN pa : d \in Nat /\ d < m

\* A further document of a source that is no alias, with the next version.
LEMMA AppendedPaper ==
    ASSUME NEW sh, NEW pa, Good(sh, pa), NEW s \in DOMAIN sh, sh[s].canonical = 0,
           NEW x \in PaperR, x.source = s,
           x.version = NextVersionOf(pa, s), x.order = NextVersionOf(pa, s),
           NEW pb, pb = Append(pa, x), NEW m, m = Len(pa) + 1
    PROVE  Grown(sh, pa, pb, s, x, m)
<1>1. /\ pa \in Seq(PaperR) /\ sh \in Seq(ShelfR)
      /\ Len(pa) \in Nat /\ DOMAIN pa = 1 .. Len(pa) /\ m \in Nat
  BY DEF Good, RowsTyped
<1>2. pb \in Seq(PaperR)
  BY <1>1
<1>3. /\ DOMAIN pb = DOMAIN pa \cup {m} /\ pb[m] = x
      /\ \A d \in DOMAIN pa : d \in Nat /\ d < m /\ pb[d] = pa[d]
  BY <1>1
<1>4. \A r : PapersOf(pb, r) = PapersOf(pa, r) \cup (IF r = s THEN {m} ELSE {})
  BY <1>3 DEF PapersOf
<1>5. \A r : Known(pb, r) = Known(pa, r)
                       \cup (IF r = s /\ x.status = "completed" THEN {m} ELSE {})
  BY <1>3, <1>4 DEF Known, PapersOf
<1> PICK v : v = NextVersionOf(pa, s)
  OBVIOUS
<1>6. /\ v \in Nat /\ v # 0 /\ \A d \in PapersOf(pa, s) : pa[d].version < v /\ pa[d].order < v
  <2>1. v \in Nat /\ v # 0 /\ \A d \in PapersOf(pa, s) : pa[d].version < v
    BY <1>1, NextIsNew
  <2>2. \A d \in PapersOf(pa, s) : pa[d].order < v
    BY DEF Good, Ahead, PapersOf
  <2> QED  BY <2>1, <2>2
<1>7. \A d \in DOMAIN pa : pa[d].version \in Nat /\ pa[d].order \in Nat
  <2>1. \A d \in DOMAIN pa : pa[d] \in PaperR
    BY <1>1
  <2> QED  BY <2>1 DEF PaperR
<1>8. Distinct(pb)
  <2> SUFFICES ASSUME NEW d \in DOMAIN pb, NEW e \in DOMAIN pb, pb[d].source = pb[e].source
               PROVE  /\ pb[d].version = pb[e].version => d = e
                      /\ d < e => pb[d].order < pb[e].order
    BY DEF Distinct
  <2>1. CASE d \in DOMAIN pa /\ e \in DOMAIN pa
    <3>1. pb[d] = pa[d] /\ pb[e] = pa[e]
      BY <1>3, <2>1
    <3> QED  BY <2>1, <3>1 DEF Good, Distinct
  <2>2. CASE d \in DOMAIN pa /\ e = m
    <3>1. pb[d] = pa[d] /\ pb[e] = x /\ d \in PapersOf(pa, s)
      BY <1>3, <2>2 DEF PapersOf
    <3>2. pa[d].version < v /\ pa[d].order < v /\ pa[d].version \in Nat /\ x.version = v
          /\ x.order = v
      BY <1>6, <1>7, <2>2, <3>1
    <3> QED  BY <1>6, <3>1, <3>2
  <2>3. CASE d = m /\ e \in DOMAIN pa
    <3>1. pb[e] = pa[e] /\ pb[d] = x /\ e \in PapersOf(pa, s) /\ e \in Nat /\ e < m
      BY <1>3, <2>3 DEF PapersOf
    <3>2. pa[e].version < v /\ pa[e].version \in Nat /\ x.version = v /\ ~ (d < e)
      BY <1>1, <1>6, <1>7, <2>3, <3>1
    <3> QED  BY <1>6, <3>1, <3>2
  <2>4. CASE d = m /\ e = m
    <3>1. ~ (d < e)
      BY <1>1, <2>4
    <3> QED  BY <2>4, <3>1
  <2> QED  BY <1>3, <2>1, <2>2, <2>3, <2>4
<1>9. Ahead(sh, pb)
  <2> SUFFICES ASSUME NEW d \in DOMAIN pb
               PROVE  /\ pb[d].source \in DOMAIN sh /\ pb[d].version # 0
                      /\ sh[pb[d].source].canonical = 0 =>
                           pb[d].order < NextVersionOf(pb, pb[d].source)
    BY DEF Ahead
  <2> PICK w : w = NextVersionOf(pb, s)
    OBVIOUS
  <2>1. v < w /\ w \in Nat
    <3>1. m \in PapersOf(pb, s) /\ pb[m].version = v
      BY <1>3, <1>4
    <3>2. w \in Nat /\ \A e \in PapersOf(pb, s) : pb[e].version < w
      BY <1>2, NextIsNew
    <3> QED  BY <3>1, <3>2
  <2>2. CASE d = m
    BY <1>3, <1>6, <2>1, <2>2
  <2>3. CASE d \in DOMAIN pa /\ pa[d].source = s
    <3>1. pb[d] = pa[d] /\ d \in PapersOf(pa, s) /\ pa[d].version # 0
      BY <1>3, <2>3 DEF PapersOf, Good, Ahead
    <3>2. pa[d].order < v /\ pa[d].order \in Nat
      BY <1>6, <1>7, <2>3, <3>1
    <3>3. pa[d].order < w
      BY <1>6, <2>1, <3>2
    <3> QED  BY <2>3, <3>1, <3>3
  <2>4. CASE d \in DOMAIN pa /\ pa[d].source # s
    <3> PICK r : r = pa[d].source
      OBVIOUS
    <3>1. pb[d] = pa[d] /\ PapersOf(pa, r) = PapersOf(pb, r)
      <4>1. PapersOf(pb, r) = PapersOf(pa, r) \cup {}
        BY <1>4, <2>4
      <4> QED  BY <1>3, <2>4, <4>1
    <3>2. \A e \in PapersOf(pa, r) : pa[e].version = pb[e].version
      BY <1>3 DEF PapersOf
    <3>3. NextVersionOf(pa, r) = NextVersionOf(pb, r)
      <4>1. VersionsOf(pa, r) = VersionsOf(pb, r)
        BY <3>1, <3>2 DEF VersionsOf
      <4> QED  BY <4>1, NextOfSame
    <3> QED  BY <2>4, <3>1, <3>3 DEF Good, Ahead
  <2> QED  BY <1>3, <2>2, <2>3, <2>4
<1> QED  BY <1>1, <1>2, <1>3, <1>5, <1>8, <1>9 DEF Grown

\* The same sources with the same names and aliases, where s serves a.
Turned(sh, sj, s, a) ==
    /\ DOMAIN sj = DOMAIN sh /\ sj \in Seq(ShelfR)
    /\ \A r \in DOMAIN sh : /\ sj[r].key = sh[r].key /\ sj[r].legacy = sh[r].legacy
                            /\ sj[r].canonical = sh[r].canonical
                            /\ sj[r].active = IF r = s THEN a ELSE sh[r].active

LEMMA RowTurned ==
    ASSUME NEW sh \in Seq(ShelfR), NEW s \in DOMAIN sh, NEW row \in ShelfR,
           row.key = sh[s].key, row.legacy = sh[s].legacy, row.canonical = sh[s].canonical,
           NEW sj, sj = [sh EXCEPT ![s] = row]
    PROVE  Turned(sh, sj, s, row.active)
<1> PICK R : R = ShelfR
  OBVIOUS
<1>1. sj \in Seq(R) /\ DOMAIN sj = DOMAIN sh
  <2>1. sh \in Seq(R) /\ row \in R /\ DOMAIN sh = 1 .. Len(sh) /\ Len(sh) \in Nat
    OBVIOUS
  <2> QED  BY <2>1
<1>2. \A r \in DOMAIN sh : sj[r] = IF r = s THEN row ELSE sh[r]
  OBVIOUS
<1> QED  BY <1>1, <1>2 DEF Turned

\* A row of a source is made of its fields.
LEMMA ShelfRowFields ==
    ASSUME NEW sh \in Seq(ShelfR), NEW s \in DOMAIN sh
    PROVE  /\ sh[s] \in ShelfR /\ sh[s].active \in Nat
           /\ \A a, l \in Nat, o \in ShelfOutcomes :
                [sh[s] EXCEPT !.active = a, !.last = l, !.outcome = o] \in ShelfR
<1> PICK z : z = sh[s]
  OBVIOUS
<1>1. z \in ShelfR
  <2> PICK R : R = ShelfR
    OBVIOUS
  <2>1. sh \in Seq(R)
    OBVIOUS
  <2> QED  BY <2>1
<1>2. \A a, l \in Nat, o \in ShelfOutcomes :
        [z EXCEPT !.active = a, !.last = l, !.outcome = o] \in ShelfR
  BY <1>1 DEF ShelfR, ShelfOutcomes
<1> QED  BY <1>1, <1>2 DEF ShelfR

LEMMA TurnedBy ==
    ASSUME NEW sh \in Seq(ShelfR), NEW s \in DOMAIN sh, NEW a \in Nat, NEW l \in Nat,
           NEW o \in ShelfOutcomes
    PROVE  Turned(sh, [sh EXCEPT ![s].active = a, ![s].last = l, ![s].outcome = o], s, a)
<1> PICK z : z = sh[s]
  OBVIOUS
<1> PICK row : row = [z EXCEPT !.active = a, !.last = l, !.outcome = o]
  OBVIOUS
<1>1. z \in ShelfR /\ row \in ShelfR
  BY ShelfRowFields
<1>2. /\ row.key = z.key /\ row.legacy = z.legacy /\ row.canonical = z.canonical
      /\ row.active = a
  BY <1>1 DEF ShelfR
<1> PICK sj : sj = [sh EXCEPT ![s] = row]
  OBVIOUS
<1>3. Turned(sh, sj, s, a)
  BY <1>1, <1>2, RowTurned
<1>4. [sh EXCEPT ![s].active = a, ![s].last = l, ![s].outcome = o] = sj
  OBVIOUS
<1> QED  BY <1>3, <1>4

LEMMA TurnedLast ==
    ASSUME NEW sh \in Seq(ShelfR), NEW s \in DOMAIN sh, NEW l \in Nat, NEW o \in ShelfOutcomes
    PROVE  Turned(sh, [sh EXCEPT ![s].last = l, ![s].outcome = o], s, sh[s].active)
<1> PICK z : z = sh[s]
  OBVIOUS
<1> PICK row : row = [z EXCEPT !.last = l, !.outcome = o]
  OBVIOUS
<1>1. z \in ShelfR
  BY ShelfRowFields
<1>2. /\ row.key = z.key /\ row.legacy = z.legacy /\ row.canonical = z.canonical
      /\ row.active = z.active /\ row \in ShelfR
  BY <1>1 DEF ShelfR, ShelfOutcomes
<1> PICK sj : sj = [sh EXCEPT ![s] = row]
  OBVIOUS
<1>3. Turned(sh, sj, s, z.active)
  BY <1>1, <1>2, RowTurned
<1>4. [sh EXCEPT ![s].last = l, ![s].outcome = o] = sj
  OBVIOUS
<1> QED  BY <1>3, <1>4

\* A submission may change nothing but the last document and the outcome.
LEMMA SameServed ==
    ASSUME NEW sh, NEW pa, Good(sh, pa), NEW sj, NEW s \in DOMAIN sh,
           Turned(sh, sj, s, sh[s].active)
    PROVE  Good(sj, pa)
<1>1. \A r \in DOMAIN sh : sj[r].active = sh[r].active
  BY DEF Turned
<1>2. RowsTyped(sj, pa)
  BY DEF Good, RowsTyped, Turned
<1>3. Served(sj, pa)
  <2> SUFFICES ASSUME NEW r \in DOMAIN sj
               PROVE  /\ sj[r].canonical # 0 =>
                           /\ sj[r].canonical \in DOMAIN sj /\ ~sj[sj[r].canonical].legacy
                           /\ sj[r].active = 0 /\ sj[r].legacy
                      /\ sj[r].canonical = 0 => Serves(pa, r, sj[r].active)
    BY DEF Served
  <2> QED  BY <1>1 DEF Good, Served, Turned
<1>4. Named(sj)
  BY DEF Good, Named, Turned
<1>5. Ahead(sj, pa)
  BY DEF Good, Ahead, Turned
<1> QED  BY <1>2, <1>3, <1>4, <1>5 DEF Good

\* A further document, which its source serves if it is completed already.
LEMMA AppendKeeps ==
    ASSUME NEW sh, NEW pa, Good(sh, pa), NEW s \in DOMAIN sh, sh[s].canonical = 0,
           NEW x \in PaperR, x.source = s,
           x.version = NextVersionOf(pa, s), x.order = NextVersionOf(pa, s),
           NEW pb, pb = Append(pa, x), NEW m, m = Len(pa) + 1,
           NEW sj, Turned(sh, sj, s, IF x.status = "completed" THEN m ELSE sh[s].active)
    PROVE  Good(sj, pb)
<1>1. /\ pb \in Seq(PaperR) /\ Distinct(pb) /\ Ahead(sh, pb)
      /\ m \in Nat /\ pb[m] = x /\ DOMAIN pb = DOMAIN pa \cup {m}
      /\ \A r : Known(pb, r) = Known(pa, r)
                  \cup (IF r = s /\ x.status = "completed" THEN {m} ELSE {})
      /\ \A d \in DOMAIN pa : d \in Nat /\ d < m
  <2>1. Grown(sh, pa, pb, s, x, m)
    BY AppendedPaper
  <2> QED  BY <2>1 DEF Grown
<1>2. \A r \in DOMAIN sh :
        sj[r].active = IF r = s /\ x.status = "completed" THEN m ELSE sh[r].active
  BY DEF Turned
<1>3. RowsTyped(sj, pb)
  BY <1>1 DEF RowsTyped, Turned
<1>4. Named(sj)
  BY DEF Good, Named, Turned
<1>5. Ahead(sj, pb)
  BY <1>1 DEF Ahead, Turned
<1>6. Served(sj, pb)
  <2> SUFFICES ASSUME NEW r \in DOMAIN sj
               PROVE  /\ sj[r].canonical # 0 =>
                           /\ sj[r].canonical \in DOMAIN sj /\ ~sj[sj[r].canonical].legacy
                           /\ sj[r].active = 0 /\ sj[r].legacy
                      /\ sj[r].canonical = 0 => Serves(pb, r, sj[r].active)
    BY DEF Served
  <2>1. r \in DOMAIN sh /\ sj[r].canonical = sh[r].canonical
    BY DEF Turned
  <2>2. CASE sj[r].canonical # 0
    <3>1. sj[r].active = sh[r].active
      <4>1. r # s
        BY <2>1, <2>2
      <4> QED  BY <1>2, <2>1, <4>1
    <3> QED  BY <2>1, <2>2, <3>1 DEF Good, Served, Turned
  <2>3. CASE sj[r].canonical = 0 /\ ~ (r = s /\ x.status = "completed")
    <3>1. sj[r].active = sh[r].active /\ Serves(pa, r, sh[r].active)
      BY <1>2, <2>1, <2>3 DEF Good, Served
    <3>2. Known(pb, r) = Known(pa, r) \cup {}
      BY <1>1, <2>3
    <3> QED  BY <2>3, <3>1, <3>2 DEF Serves
  <2>4. CASE sj[r].canonical = 0 /\ r = s /\ x.status = "completed"
    <3>1. Known(pb, r) = Known(pa, r) \cup {m} /\ sj[r].active = m
      BY <1>2, <1>1, <2>1, <2>4
    <3>2. \A d \in Known(pa, r) : d \in Nat /\ d < m
      BY <1>1 DEF Known, PapersOf
    <3>3. \A d \in Known(pb, r) : d <= m
      BY <1>1, <3>1, <3>2
    <3> QED  BY <2>4, <3>1, <3>3 DEF Serves
  <2> QED  BY <2>2, <2>3, <2>4
<1> QED  BY <1>1, <1>3, <1>4, <1>5, <1>6 DEF Good

Fresh(sh, k) == \A s \in DOMAIN sh : sh[s].key # k

\* The sources sj are those of sh and a new one, m, named k.
Added(sh, sj, k, m) ==
    /\ DOMAIN sj = DOMAIN sh \cup {m} /\ sj[m] = CreateSource(k)
    /\ \A s \in DOMAIN sh : sj[s] = sh[s]

\* A source with a new name serves nothing yet.
LEMMA NewSource ==
    ASSUME NEW sh, NEW pa, Good(sh, pa), NEW k \in Keys, Fresh(sh, k),
           NEW sj, sj = Append(sh, CreateSource(k)), NEW m, m = Len(sh) + 1
    PROVE  Good(sj, pa) /\ Added(sh, sj, k, m)
<1> PICK new : new = CreateSource(k)
  OBVIOUS
<1>1. new \in ShelfR /\ new.key = k /\ new.canonical = 0 /\ new.active = 0
      /\ new.legacy = (k # "file")
  BY DEF CreateSource, ShelfR, ShelfOutcomes
<1>2. sh \in Seq(ShelfR) /\ Len(sh) \in Nat /\ DOMAIN sh = 1 .. Len(sh) /\ pa \in Seq(PaperR)
  BY DEF Good, RowsTyped
<1>3. /\ sj \in Seq(ShelfR) /\ DOMAIN sj = DOMAIN sh \cup {m} /\ sj[m] = new
      /\ \A s \in DOMAIN sh : sj[s] = sh[s]
      /\ m \notin DOMAIN sh /\ m # 0
  BY <1>1, <1>2
<1>4. Named(sj)
  <2>1. \A s \in DOMAIN sj : sj[s].key = "file" <=> ~sj[s].legacy
    <3>1. \A s \in DOMAIN sh : sj[s].key = "file" <=> ~sj[s].legacy
      BY <1>3 DEF Good, Named
    <3>2. sj[m].key = "file" <=> ~sj[m].legacy
      BY <1>1, <1>3
    <3> QED  BY <1>3, <3>1, <3>2
  <2>2. \A s, r \in DOMAIN sj : sj[s].key = sj[r].key => s = r
    <3>1. \A s, r \in DOMAIN sh : sj[s].key = sj[r].key => s = r
      BY <1>3 DEF Good, Named
    <3>2. \A s \in DOMAIN sh : sj[s].key # sj[m].key
      BY <1>1, <1>3 DEF Fresh
    <3> QED  BY <1>3, <3>1, <3>2
  <2> QED  BY <2>1, <2>2 DEF Named
<1>5. Ahead(sj, pa)
  BY <1>3 DEF Good, Ahead
<1>6. Known(pa, m) = {}
  BY <1>3 DEF Good, Ahead, Known, PapersOf
<1>7. Served(sj, pa)
  <2> SUFFICES ASSUME NEW r \in DOMAIN sj
               PROVE  /\ sj[r].canonical # 0 =>
                           /\ sj[r].canonical \in DOMAIN sj /\ ~sj[sj[r].canonical].legacy
                           /\ sj[r].active = 0 /\ sj[r].legacy
                      /\ sj[r].canonical = 0 => Serves(pa, r, sj[r].active)
    BY DEF Served
  <2>1. CASE r = m
    BY <1>1, <1>3, <1>6, <2>1 DEF Serves
  <2>2. CASE r \in DOMAIN sh
    BY <1>3, <2>2 DEF Good, Served
  <2> QED  BY <1>3, <2>1, <2>2
<1> QED  BY <1>2, <1>3, <1>4, <1>5, <1>7 DEF Good, RowsTyped, Added

-----------------------------------------------------------------------------
(* Lemmas: the upgrade. *)

\* Databases in which no source is an alias.
Plain ==
    {db \in [shelf : Seq(ShelfR), papers : Seq(PaperR)] :
        Good(db.shelf, db.papers) /\ \A s \in DOMAIN db.shelf : db.shelf[s].canonical = 0}

LEMMA UpgradeKeeps ==
    ASSUME NEW db \in Plain, NEW old \in OldPapers
    PROVE  UpgradeLegacyDocument(db, old) \in Plain
<1> DEFINE rows == IF \E r \in DOMAIN db.shelf : db.shelf[r].key = old.name
                   THEN db.shelf ELSE Append(db.shelf, CreateSource(old.name))
           s == CHOOSE r \in DOMAIN rows : rows[r].key = old.name
           m == Len(db.papers) + 1
           v == NextVersionOf(db.papers, s)
           x == [source |-> s, text |-> old.text, version |-> v, order |-> v,
                 status |-> old.status]
           sj == [rows EXCEPT ![s].active = IF old.status = "completed" THEN m ELSE @,
                              ![s].last = m, ![s].outcome = old.status]
<1>1. UpgradeLegacyDocument(db, old) = [shelf |-> sj, papers |-> Append(db.papers, x)]
  BY DEF UpgradeLegacyDocument
<1>2. PICK sh, pa : sh = db.shelf /\ pa = db.papers
  OBVIOUS
<1>3. /\ sh \in Seq(ShelfR) /\ pa \in Seq(PaperR) /\ Good(sh, pa)
      /\ \A r \in DOMAIN sh : sh[r].canonical = 0
  BY <1>2 DEF Plain
<1>4. PICK k, st : k = old.name /\ st = old.status
  OBVIOUS
<1>5. k \in Keys /\ old.text \in Texts /\ st \in {"pending", "completed"}
  BY <1>4 DEF OldPapers
<1>6. rows = IF \E r \in DOMAIN sh : sh[r].key = k THEN sh ELSE Append(sh, CreateSource(k))
  BY <1>2, <1>4
<1>7. s = CHOOSE r \in DOMAIN rows : rows[r].key = k
  BY <1>4
<1>8. m = Len(pa) + 1 /\ v = NextVersionOf(pa, s)
  BY <1>2
<1>9. x = [source |-> s, text |-> old.text, version |-> v, order |-> v, status |-> st]
  BY <1>4
<1>10. sj = [rows EXCEPT ![s].active = IF st = "completed" THEN m ELSE @,
                         ![s].last = m, ![s].outcome = st]
  BY <1>4
<1> HIDE DEF rows, s, m, v, x, sj
<1>11. PICK a : a = IF st = "completed" THEN m ELSE rows[s].active
  OBVIOUS
<1>12. /\ Good(rows, pa) /\ \A r \in DOMAIN rows : rows[r].canonical = 0
      /\ \E r \in DOMAIN rows : rows[r].key = k
  <2>1. CASE \E r \in DOMAIN sh : sh[r].key = k
    BY <1>3, <1>6, <2>1
  <2>2. CASE \A r \in DOMAIN sh : sh[r].key # k
    <3>0. PICK i : i = Len(sh) + 1
      OBVIOUS
    <3>1. rows = Append(sh, CreateSource(k))
      BY <1>6, <2>2
    <3>2. Fresh(sh, k)
      BY <2>2 DEF Fresh
    <3>3. Good(rows, pa) /\ Added(sh, rows, k, i)
      BY <1>3, <1>5, <3>0, <3>1, <3>2, NewSource
    <3> QED  BY <1>3, <3>3 DEF CreateSource, Added
  <2> QED  BY <2>1, <2>2
<1>13. s \in DOMAIN rows /\ rows[s].canonical = 0
  BY <1>12, <1>7
<1>14. m \in Nat /\ v \in Nat
  BY <1>3, <1>8, NextIsNew
<1>15. rows \in Seq(ShelfR) /\ DOMAIN rows \subseteq Nat
  BY <1>12 DEF Good, RowsTyped
<1>16. x \in PaperR /\ x.source = s /\ x.version = v /\ x.order = v /\ x.status = st
  BY <1>5, <1>13, <1>14, <1>15, <1>9 DEF PaperR, PaperStatus
<1>17. PICK pb : pb = Append(pa, x)
  OBVIOUS
<1>18. UpgradeLegacyDocument(db, old) = [shelf |-> sj, papers |-> pb]
  BY <1>1, <1>2, <1>17
<1>19. Turned(rows, sj, s, a)
  <2>1. a \in Nat /\ st \in ShelfOutcomes
    BY <1>5, <1>13, <1>14, <1>15, <1>11, ShelfRowFields DEF ShelfOutcomes, PaperStatus
  <2>2. sj = [rows EXCEPT ![s].active = a, ![s].last = m, ![s].outcome = st]
    BY <1>13, <1>11, <1>10
  <2> QED  BY <1>13, <1>14, <1>15, <2>1, <2>2, TurnedBy
<1>20. Good(sj, pb)
  <2>1. a = IF x.status = "completed" THEN m ELSE rows[s].active
    BY <1>16, <1>11
  <2>2. Turned(rows, sj, s, IF x.status = "completed" THEN m ELSE rows[s].active)
    BY <1>19, <2>1
  <2> QED  BY <1>12, <1>13, <1>8, <1>16, <1>17, <2>2, AppendKeeps
<1>21. sj \in Seq(ShelfR) /\ pb \in Seq(PaperR) /\ \A r \in DOMAIN sj : sj[r].canonical = 0
  BY <1>12, <1>19, <1>20 DEF Good, RowsTyped, Turned
<1> QED  BY <1>18, <1>20, <1>21 DEF Plain

\* So does the upgrade of them all.
LEMMA UpgradesKeep ==
    ASSUME NEW n0 \in Nat, NEW old \in [1 .. n0 -> OldPapers], NEW b0,
           b0 = [shelf |-> << >>, papers |-> << >>]
    PROVE  FoldLeft(UpgradeLegacyDocument, b0, old) \in Plain
<1> DEFINE n == Len(old)
           Folds(h) == h = [S \in SUBSET (1 .. n) |->
                            IF S = {} THEN b0
                            ELSE UpgradeLegacyDocument(h[S \ {Max(S)}], old[Max(S)])]
           iter == CHOOSE h : Folds(h)
<1>1. n \in Nat /\ DOMAIN old = 1 .. n /\ \A i \in 1 .. n : old[i] \in OldPapers
  OBVIOUS
<1>2. FoldLeft(UpgradeLegacyDocument, b0, old) = iter[1 .. n]
  BY <1>1 DEF FoldLeft, MapThenFoldSet
<1> PICK A : A = Plain
  OBVIOUS
<1>3. b0 \in A /\ \A a \in A, x \in OldPapers :
         (UpgradeLegacyDocument(a, x)) \in A
  <2>1. Good(<< >>, << >>)
    BY DEF Good, RowsTyped, Served, Named, Distinct, Ahead
  <2>2. b0 \in Plain
    BY <2>1 DEF Plain
  <2> QED  BY <2>2, UpgradeKeeps
<1>4. \E h \in [SUBSET (1 .. n) -> A] : Folds(h)
  <2> DEFINE G0 == [i \in 1 .. n |-> [a \in A |->
                      UpgradeLegacyDocument(a, old[i])]]
  <2>1. PICK G : G = G0
    OBVIOUS
  <2>2. G \in [1 .. n -> [A -> A]]
    BY <1>3, <1>1, <2>1
  <2>3. PICK h : FoldsOver(h, n, A, b0, G)
    <3>1. ASSUME NEW B, NEW z \in B, G \in [1 .. n -> [B -> B]]
          PROVE  \E h : FoldsOver(h, n, B, z, G)
      <4> HIDE DEF G0, n
      <4> QED  BY <1>1, <3>1, FoldExists
    <3> HIDE DEF G0, n
    <3> QED  BY <1>3, <2>2, <3>1
  <2>4. h \in [SUBSET (1 .. n) -> A]
    BY <2>3 DEF FoldsOver
  <2>5. ASSUME NEW S \in SUBSET (1 .. n)
        PROVE  h[S] = IF S = {} THEN b0
                      ELSE UpgradeLegacyDocument(h[S \ {Max(S)}], old[Max(S)])
    <3>1. h[S] = IF S = {} THEN b0 ELSE G[Max(S)][h[S \ {Max(S)}]]
      BY <2>3 DEF FoldsOver
    <3>2. CASE S # {}
      <4>1. Max(S) \in 1 .. n
        <5> HIDE DEF n
        <5> QED  BY <1>1, <3>2, MaxIn
      <4>2. h[S \ {Max(S)}] \in A
        BY <2>4
      <4> QED  BY <2>1, <3>1, <3>2, <4>1, <4>2
    <3> QED  BY <3>1, <3>2
  <2>6. h = [S \in SUBSET (1 .. n) |-> h[S]]
    BY <2>4
  <2>7. Folds(h)
    <3> HIDE DEF G0, n
    <3> QED  BY <2>5, <2>6
  <2> QED  BY <2>4, <2>7
<1>5. Folds(iter)
  BY <1>4
<1>6. ASSUME NEW S \in SUBSET (1 .. n)
      PROVE  iter[S] = IF S = {} THEN b0
                       ELSE UpgradeLegacyDocument(iter[S \ {Max(S)}], old[Max(S)])
  BY <1>5
<1> HIDE DEF iter, Folds
<1>7. iter[{}] \in A
  <2>1. iter[{}] = b0
    BY <1>6
  <2> QED  BY <1>3, <2>1
<1>8. ASSUME NEW i \in 1 .. n, iter[1 .. (i - 1)] \in A
      PROVE  iter[1 .. i] \in A
  <2>1. /\ (1 .. i) \in SUBSET (1 .. n) /\ (1 .. i) # {}
        /\ (1 .. i) \ {i} = 1 .. (i - 1) /\ Max(1 .. i) = i
    <3> HIDE DEF n
    <3> QED  BY <1>1, FirstLess, MaxOfFirst
  <2>2. iter[1 .. i] = UpgradeLegacyDocument(iter[1 .. (i - 1)], old[i])
    <3> HIDE DEF n
    <3> QED  BY <1>6, <2>1, Zenon
  <2>3. PICK a, x : a = iter[1 .. (i - 1)] /\ x = old[i]
    OBVIOUS
  <2>4. a \in A /\ x \in OldPapers
    BY <1>1, <1>8, <2>3
  <2>5. (UpgradeLegacyDocument(a, x)) \in A
    BY <1>3, <2>4
  <2> HIDE DEF n
  <2> QED  BY <2>2, <2>3, <2>5
<1>9. iter[1 .. n] \in A
  <2>1. PICK f : f = iter
    OBVIOUS
  <2>2. f[{}] \in A
    BY <1>7, <2>1
  <2>3. \A i \in 1 .. n : f[1 .. (i - 1)] \in A => f[1 .. i] \in A
    BY <1>8, <2>1
  <2>4. n \in Nat
    BY <1>1
  <2> HIDE DEF n
  <2> QED  BY <2>1, <2>2, <2>3, <2>4, FoldReaches
<1> QED  BY <1>2, <1>9

LEMMA InitIsGood == AdoptionInit => Good(shelf, papers)
<1> SUFFICES ASSUME NEW n \in Nat, NEW old \in [1 .. n -> OldPapers], NEW b0,
                    b0 = [shelf |-> << >>, papers |-> << >>],
                    shelf = FoldLeft(UpgradeLegacyDocument, b0, old).shelf,
                    papers = FoldLeft(UpgradeLegacyDocument, b0, old).papers
             PROVE  Good(shelf, papers)
  BY DEF AdoptionInit
<1> QED  BY UpgradesKeep DEF Plain

-----------------------------------------------------------------------------
(* Lemmas: submissions. *)

LEMMA SubmitKeeps ==
    ASSUME NEW sh, NEW pa, Good(sh, pa), NEW s \in DOMAIN sh, sh[s].canonical = 0,
           NEW text \in Texts, NEW db, db.shelf = sh, db.papers = pa, SubmitTo(db, s, text)
    PROVE  Good(shelf, papers)'
<1>1. sh \in Seq(ShelfR) /\ pa \in Seq(PaperR) /\ DOMAIN sh \subseteq Nat /\ Len(pa) \in Nat
  BY DEF Good, RowsTyped
<1>2. PICK row, version : row = sh[s] /\ version = NextVersionOf(pa, s)
  OBVIOUS
<1>3. row.active \in Nat /\ version \in Nat
  <2>1. row.active \in Nat
    BY <1>1, <1>2, ShelfRowFields
  <2> QED  BY <1>1, <1>2, <2>1, NextIsNew
<1>4. PICK x : x = [source |-> s, text |-> text, version |-> version, order |-> version,
                    status |-> "pending"]
  OBVIOUS
<1>5. \/ /\ shelf' = [sh EXCEPT ![s].last = row.active, ![s].outcome = "unchanged"]
         /\ papers' = pa
      \/ shelf' = sh /\ papers' = pa
      \/ /\ shelf' = [sh EXCEPT ![s].last = Len(pa) + 1, ![s].outcome = "pending"]
         /\ papers' = Append(pa, x)
  BY <1>2, <1>4 DEF SubmitTo
<1>6. CASE /\ shelf' = [sh EXCEPT ![s].last = row.active, ![s].outcome = "unchanged"]
           /\ papers' = pa
  <2>1. Turned(sh, shelf', s, sh[s].active)
    <3>1. "unchanged" \in ShelfOutcomes
      BY DEF ShelfOutcomes
    <3> PICK o : o = "unchanged"
      OBVIOUS
    <3> QED  BY <1>1, <1>3, <1>6, <3>1, TurnedLast
  <2>2. Good(shelf', pa)
    BY <2>1, SameServed
  <2> QED  BY <1>6, <2>2
<1>7. CASE shelf' = sh /\ papers' = pa
  BY <1>7
<1>8. CASE /\ shelf' = [sh EXCEPT ![s].last = Len(pa) + 1, ![s].outcome = "pending"]
           /\ papers' = Append(pa, x)
  <2>1. PICK m : m = Len(pa) + 1
    OBVIOUS
  <2>2. Turned(sh, shelf', s, sh[s].active)
    <3>1. "pending" \in ShelfOutcomes /\ m \in Nat
      BY <1>1, <2>1 DEF ShelfOutcomes, PaperStatus
    <3> PICK o : o = "pending"
      OBVIOUS
    <3> QED  BY <1>1, <1>8, <2>1, <3>1, TurnedLast
  <2>3. /\ x \in PaperR /\ x.source = s /\ x.version = version /\ x.order = version
        /\ x.status # "completed"
    BY <1>1, <1>3, <1>4 DEF PaperR, PaperStatus
  <2>4. Turned(sh, shelf', s, IF x.status = "completed" THEN m ELSE sh[s].active)
    BY <2>2, <2>3
  <2>5. PICK pb : pb = papers'
    OBVIOUS
  <2>6. PICK sj : sj = shelf'
    OBVIOUS
  <2>7. /\ x.version = NextVersionOf(pa, s) /\ x.order = NextVersionOf(pa, s)
        /\ pb = Append(pa, x)
        /\ Turned(sh, sj, s, IF x.status = "completed" THEN m ELSE sh[s].active)
    BY <1>2, <1>8, <2>3, <2>4, <2>5, <2>6
  <2>8. Good(sj, pb)
    BY <2>1, <2>3, <2>7, AppendKeeps
  <2> QED  BY <2>5, <2>6, <2>8
<1> QED  BY <1>5, <1>6, <1>7, <1>8

\* By a key, the API finds a source that is no alias, or none.
LEMMA ApiKeeps ==
    ASSUME Good(shelf, papers), NEW k \in Keys, NEW text \in Texts, SubmitByApi(k, text)
    PROVE  Good(shelf, papers)'
<1>1. PICK known : known = GetSourceByKey(k)
  OBVIOUS
<1>2. CASE known # {}
  <2>1. PICK s \in known : SubmitTo([shelf |-> shelf, papers |-> papers], s, text)
    BY <1>1, <1>2 DEF SubmitByApi
  <2>2. s \in DOMAIN shelf /\ shelf[s].canonical = 0
    <3>1. PICK r \in DOMAIN shelf :
            s = IF shelf[r].canonical # 0 THEN shelf[r].canonical ELSE r
      BY <1>1 DEF GetSourceByKey
    <3>2. CASE shelf[r].canonical = 0
      BY <3>1, <3>2
    <3>3. CASE shelf[r].canonical # 0
      <4>1. s \in DOMAIN shelf /\ ~shelf[s].legacy
        BY <3>1, <3>3 DEF Good, Served
      <4> QED  BY <4>1 DEF Good, Served
    <3> QED  BY <3>2, <3>3
  <2>3. PICK db : db = [shelf |-> shelf, papers |-> papers]
    OBVIOUS
  <2> QED  BY <2>1, <2>2, <2>3, SubmitKeeps
<1>3. CASE known = {}
  <2>1. PICK sj, m : sj = Append(shelf, CreateSource(k)) /\ m = Len(shelf) + 1
    OBVIOUS
  <2>2. Len(sj) = m /\ m \in Nat
    <3>1. shelf \in Seq(ShelfR)
      BY DEF Good, RowsTyped
    <3> QED  BY <2>1, <3>1
  <2>3. PICK db : db = [shelf |-> sj, papers |-> papers]
    OBVIOUS
  <2>4. SubmitTo(db, m, text)
    BY <1>1, <1>3, <2>1, <2>2, <2>3 DEF SubmitByApi
  <2>5. Good(sj, papers) /\ Added(shelf, sj, k, m)
    <3>1. Fresh(shelf, k)
      BY <1>1, <1>3 DEF GetSourceByKey, Fresh
    <3> QED  BY <2>1, <3>1, NewSource
  <2>6. m \in DOMAIN sj /\ sj[m].canonical = 0
    BY <2>5 DEF Added, CreateSource
  <2> QED  BY <2>3, <2>4, <2>5, <2>6, SubmitKeeps
<1> QED  BY <1>2, <1>3

-----------------------------------------------------------------------------
(* Lemmas: a source takes over the newest document of its aliases. *)

\* The place of a document among the history and the one that is moved.
LEMMA Places ==
    ASSUME NEW H, H \subseteq Nat, IsFiniteSet(H), NEW p \in Nat
    PROVE  /\ \A d \in Nat : PlaceOf(d, p, H) \in Nat
           /\ \A d \in Nat : PlaceOf(d, p, H) <= Cardinality(H \cup {p})
           /\ \A d \in Nat, e \in H \cup {p} :
                d < e => PlaceOf(d, p, H) < PlaceOf(e, p, H)
<1> PICK G : G = H \cup {p}
  OBVIOUS
<1>1. G \subseteq Nat /\ IsFiniteSet(G)
  BY FS_AddElement
<1> DEFINE Upto(d) == {e \in G : e <= d}
<1>2. \A d : PlaceOf(d, p, H) = Cardinality(Upto(d))
  BY DEF PlaceOf
<1>3. \A d : /\ Upto(d) \in SUBSET G /\ IsFiniteSet(Upto(d))
             /\ Cardinality(Upto(d)) \in Nat /\ Cardinality(Upto(d)) <= Cardinality(G)
  <2> TAKE d
  <2> PICK T : T = Upto(d)
    OBVIOUS
  <2>1. T \in SUBSET G
    OBVIOUS
  <2>2. IsFiniteSet(T) /\ Cardinality(T) <= Cardinality(G)
    BY <1>1, <2>1, FS_Subset
  <2>3. Cardinality(T) \in Nat
    BY <2>2, FS_CardinalityType
  <2> QED  BY <2>1, <2>2, <2>3
<1>4. ASSUME NEW d \in Nat, NEW e \in G, d < e
      PROVE  Cardinality(Upto(d)) < Cardinality(Upto(e))
  <2> PICK S, T : S = Upto(d) /\ T = Upto(e)
    OBVIOUS
  <2>1. e \in T /\ e \notin S /\ S \in SUBSET T
    <3>1. \A i \in G : i <= d => i <= e
      BY <1>1, <1>4
    <3>2. e <= e /\ ~ (e <= d)
      BY <1>1, <1>4
    <3> QED  BY <3>1, <3>2
  <2>2. IsFiniteSet(T) /\ Cardinality(S) \in Nat /\ Cardinality(T) \in Nat
    BY <1>3
  <2>3. Cardinality(S) <= Cardinality(T) /\ (Cardinality(T) = Cardinality(S) => T = S)
    BY <2>1, <2>2, FS_Subset
  <2> QED  BY <2>1, <2>2, <2>3
<1> HIDE DEF Upto
<1> QED  BY <1>2, <1>3, <1>4

\* Documents with versions of their own are not more than there are versions.
LEMMA FewerThanVersions ==
    ASSUME NEW pa \in Seq(PaperR), NEW s,
           \A d, e \in PapersOf(pa, s) : pa[d].version = pa[e].version => d = e,
           \A d \in PapersOf(pa, s) : pa[d].version # 0
    PROVE  /\ IsFiniteSet(PapersOf(pa, s))
           /\ Cardinality(PapersOf(pa, s)) < NextVersionOf(pa, s)
<1> PICK w, H : w = NextVersionOf(pa, s) /\ H = PapersOf(pa, s)
  OBVIOUS
<1>1. w \in Nat /\ w # 0 /\ \A d \in H : pa[d].version < w
  BY NextIsNew
<1>2. \A d \in H : pa[d].version \in Nat
  <2>1. \A d \in DOMAIN pa : pa[d] \in PaperR
    OBVIOUS
  <2> QED  BY <2>1 DEF PaperR, PapersOf
<1>3. PICK I : I = 1 .. (w - 1)
  OBVIOUS
<1>4. \A d \in H : pa[d].version \in I
  BY <1>1, <1>2, <1>3
<1>5. IsFiniteSet(I) /\ Cardinality(I) = w - 1
  <2>1. PICK j : j = w - 1
    OBVIOUS
  <2>2. j \in Int /\ 1 \in Int /\ (1 > j => j = 0)
    BY <1>1, <2>1
  <2>3. IsFiniteSet(1 .. j) /\ Cardinality(1 .. j) = IF 1 > j THEN 0 ELSE j - 1 + 1
    BY <2>2, FS_Interval
  <2>4. Cardinality(1 .. j) = j
    BY <2>2, <2>3
  <2> QED  BY <1>3, <2>1, <2>3, <2>4
<1>6. PICK f : f = [d \in H |-> pa[d].version]
  OBVIOUS
<1>7. f \in Injection(H, I)
  BY <1>4, <1>6 DEF Injection, IsInjective
<1>8. IsFiniteSet(H) /\ Cardinality(H) <= w - 1
  BY <1>5, <1>7, FS_Injection
<1>9. Cardinality(H) \in Nat
  BY <1>8, FS_CardinalityType
<1> QED  BY <1>1, <1>8, <1>9

\* The sources after c has taken over the document a of its aliases.
Joined(sh, sj, c, aliases, a) ==
    /\ sj \in Seq(ShelfR) /\ DOMAIN sj = DOMAIN sh
    /\ sj[c].key = "file" /\ ~sj[c].legacy /\ sj[c].active = a /\ sj[c].canonical = 0
    /\ \A s \in DOMAIN sh \ {c} :
        /\ sj[s].key = sh[s].key /\ sj[s].legacy = sh[s].legacy
        /\ sj[s].canonical = IF s \in aliases THEN c ELSE sh[s].canonical
        /\ sj[s].active = IF s \in aliases THEN 0 ELSE sh[s].active

\* The documents after p, that was none of c's, has become its newest.
MovedTo(pa, pb, c, p) ==
    /\ pb \in Seq(PaperR) /\ DOMAIN pb = DOMAIN pa
    /\ \A d \in DOMAIN pa \ (PapersOf(pa, c) \cup {p}) : pb[d] = pa[d]
    /\ \A d \in PapersOf(pa, c) \cup {p} :
        /\ pb[d].source = c /\ pb[d].status = pa[d].status
        /\ pb[d].version = IF d = p THEN NextVersionOf(pa, c) ELSE pa[d].version
        /\ pb[d].order = PlaceOf(d, p, PapersOf(pa, c))

Fits(sh, pb, c) ==
    \A d \in DOMAIN pb :
        /\ pb[d].source \in DOMAIN sh /\ pb[d].version # 0
        /\ pb[d].source = c => pb[d].order < NextVersionOf(pb, c)

LEMMA MoveKeeps ==
    ASSUME NEW sh, NEW pa, Good(sh, pa), NEW c \in DOMAIN sh, sh[c].canonical = 0,
           NEW p \in DOMAIN pa, pa[p].source # c, NEW pb, MovedTo(pa, pb, c, p)
    PROVE  Distinct(pb) /\ Fits(sh, pb, c)
<1> PICK H, v : H = PapersOf(pa, c) /\ v = NextVersionOf(pa, c)
  OBVIOUS
<1>1. /\ pa \in Seq(PaperR) /\ pb \in Seq(PaperR) /\ DOMAIN pa = 1 .. Len(pa)
      /\ Len(pa) \in Nat /\ H \subseteq DOMAIN pa /\ H \subseteq Nat /\ p \in Nat
      /\ p \notin H /\ DOMAIN pb = DOMAIN pa
  BY DEF Good, RowsTyped, PapersOf, MovedTo
<1>2. v \in Nat /\ v # 0 /\ \A d \in H : pa[d].version < v
  BY <1>1, NextIsNew
<1>3. \A d \in DOMAIN pa : pa[d].version # 0 /\ pa[d].version \in Nat /\ pa[d].source \in DOMAIN sh
  <2>1. \A d \in DOMAIN pa : pa[d] \in PaperR
    BY <1>1
  <2> QED  BY <2>1 DEF PaperR, Good, Ahead
<1>4. \A d \in H \cup {p} :
        /\ pb[d].source = c /\ pb[d].order = PlaceOf(d, p, H)
        /\ pb[d].version = IF d = p THEN v ELSE pa[d].version
  BY DEF MovedTo
<1>5. \A d \in DOMAIN pa \ (H \cup {p}) : pb[d] = pa[d] /\ pb[d].source # c
  BY DEF MovedTo, PapersOf
<1>6. PapersOf(pb, c) = H \cup {p}
  BY <1>1, <1>4, <1>5 DEF PapersOf
<1>7. IsFiniteSet(H)
  <2>1. IsFiniteSet(1 .. Len(pa))
    BY <1>1, FS_Interval
  <2> QED  BY <1>1, <2>1, FS_Subset
<1>8. /\ \A d \in Nat : PlaceOf(d, p, H) \in Nat
      /\ \A d \in Nat : PlaceOf(d, p, H) <= Cardinality(H \cup {p})
      /\ \A d \in Nat, e \in H \cup {p} : d < e => PlaceOf(d, p, H) < PlaceOf(e, p, H)
  BY <1>1, <1>7, Places
<1>9. \A d, e \in H \cup {p} : pb[d].version = pb[e].version => d = e
  <2>1. \A d, e \in H : pa[d].version = pa[e].version => d = e
    BY DEF Good, Distinct, PapersOf
  <2>2. \A d \in H : pb[d].version = pa[d].version /\ pb[d].version # v
    <3>1. \A d \in H : pa[d].version \in Nat /\ pa[d].version # v
      BY <1>1, <1>2, <1>3
    <3> QED  BY <1>1, <1>4, <3>1
  <2>3. pb[p].version = v
    BY <1>4
  <2> QED  BY <2>1, <2>2, <2>3
<1>10. \A d \in DOMAIN pb : pb[d].source \in DOMAIN sh /\ pb[d].version # 0
  <2> SUFFICES ASSUME NEW d \in DOMAIN pb
               PROVE  pb[d].source \in DOMAIN sh /\ pb[d].version # 0
    OBVIOUS
  <2>1. CASE d \in H \cup {p}
    BY <1>1, <1>2, <1>3, <1>4, <2>1
  <2>2. CASE d \notin H \cup {p}
    BY <1>1, <1>3, <1>5, <2>2
  <2> QED  BY <2>1, <2>2
<1>11. Distinct(pb)
  <2> SUFFICES ASSUME NEW d \in DOMAIN pb, NEW e \in DOMAIN pb, pb[d].source = pb[e].source
               PROVE  /\ pb[d].version = pb[e].version => d = e
                      /\ d < e => pb[d].order < pb[e].order
    BY DEF Distinct
  <2>1. CASE pb[d].source = c
    <3>1. d \in H \cup {p} /\ e \in H \cup {p} /\ d \in Nat
      BY <1>1, <1>5, <2>1
    <3>2. pb[d].order = PlaceOf(d, p, H) /\ pb[e].order = PlaceOf(e, p, H)
      BY <1>4, <3>1
    <3> QED  BY <1>8, <1>9, <3>1, <3>2
  <2>2. CASE pb[d].source # c
    <3>1. pb[d] = pa[d] /\ pb[e] = pa[e] /\ d \in DOMAIN pa /\ e \in DOMAIN pa
      BY <1>1, <1>4, <1>5, <2>2
    <3> QED  BY <3>1 DEF Good, Distinct
  <2> QED  BY <2>1, <2>2
<1>12. \A d \in DOMAIN pb : pb[d].source = c => pb[d].order < NextVersionOf(pb, c)
  <2> PICK w : w = NextVersionOf(pb, c)
    OBVIOUS
  <2> PICK G : G = PapersOf(pb, c)
    OBVIOUS
  <2>1. IsFiniteSet(G) /\ Cardinality(G) < w
    <3>1. \A d, e \in PapersOf(pb, c) : pb[d].version = pb[e].version => d = e
      BY <1>6, <1>9
    <3>2. \A d \in PapersOf(pb, c) : pb[d].version # 0
      BY <1>10 DEF PapersOf
    <3> QED  BY <1>1, <3>1, <3>2, FewerThanVersions
  <2>2. w \in Nat /\ Cardinality(G) \in Nat
    BY <1>1, <2>1, NextIsNew, FS_CardinalityType
  <2> SUFFICES ASSUME NEW d \in DOMAIN pb, pb[d].source = c
               PROVE  pb[d].order < w
    OBVIOUS
  <2>3. d \in H \cup {p} /\ d \in Nat
    BY <1>1, <1>5
  <2>4. pb[d].order \in Nat /\ pb[d].order <= Cardinality(G)
    BY <1>4, <1>6, <1>8, <2>3
  <2> QED  BY <2>1, <2>2, <2>4
<1> QED  BY <1>10, <1>11, <1>12 DEF Fits

\* What the sources and their documents are taken over by: c is no alias, the others are,
\* and e, one of them all, served p, the newest document any of them served.
Candidates(sh, c, aliases, e, p) ==
    /\ c \in DOMAIN sh /\ sh[c].canonical = 0 /\ (sh[c].key = "file" \/ Fresh(sh, "file"))
    /\ aliases \subseteq DOMAIN sh \ {c}
    /\ \A s \in aliases : sh[s].legacy /\ sh[s].canonical = 0
    /\ e \in aliases \cup {c} /\ p = sh[e].active /\ sh[c].active <= p

\* Whether p moves or not.
LEMMA JoinedIsGood ==
    ASSUME NEW sh, NEW pa, Good(sh, pa), NEW c, NEW aliases, NEW e, NEW p,
           Candidates(sh, c, aliases, e, p),
           NEW sj, Joined(sh, sj, c, aliases, p), NEW pb,
           IF p # 0 /\ pa[p].source # c THEN MovedTo(pa, pb, c, p) ELSE pb = pa
    PROVE  Good(sj, pb)
<1>1. /\ sh \in Seq(ShelfR) /\ pa \in Seq(PaperR) /\ sj \in Seq(ShelfR)
      /\ DOMAIN sj = DOMAIN sh /\ DOMAIN sh = 1 .. Len(sh) /\ Len(sh) \in Nat
      /\ DOMAIN pa = 1 .. Len(pa) /\ Len(pa) \in Nat
  BY DEF Good, RowsTyped, Joined
<1>2. /\ c \in DOMAIN sh /\ sh[c].canonical = 0 /\ c # 0 /\ c \notin aliases
      /\ e \in DOMAIN sh /\ sh[e].canonical = 0 /\ p = sh[e].active
      /\ sh[c].active <= p /\ sh[c].active \in Nat /\ p \in Nat
  <2>1. /\ c \in DOMAIN sh /\ sh[c].canonical = 0 /\ c # 0 /\ c \notin aliases
        /\ e \in DOMAIN sh /\ sh[e].canonical = 0 /\ p = sh[e].active /\ sh[c].active <= p
    BY <1>1 DEF Candidates
  <2>2. \A s \in DOMAIN sh : sh[s].active \in Nat
    <3>1. \A s \in DOMAIN sh : sh[s] \in ShelfR
      BY <1>1
    <3> QED  BY <3>1 DEF ShelfR
  <2> QED  BY <2>1, <2>2
<1>3. /\ sj[c].key = "file" /\ ~sj[c].legacy /\ sj[c].active = p /\ sj[c].canonical = 0
      /\ \A s \in DOMAIN sh \ {c} :
           /\ sj[s].key = sh[s].key /\ sj[s].legacy = sh[s].legacy
           /\ sj[s].canonical = IF s \in aliases THEN c ELSE sh[s].canonical
           /\ sj[s].active = IF s \in aliases THEN 0 ELSE sh[s].active
  BY DEF Joined
<1>4. Named(sj)
  <2>1. \A s \in DOMAIN sj : sj[s].key = "file" <=> ~sj[s].legacy
    BY <1>1, <1>3 DEF Good, Named
  <2>2. \A s \in DOMAIN sh \ {c} : sh[s].key # "file"
    BY <1>2 DEF Candidates, Fresh, Good, Named
  <2>3. \A s, r \in DOMAIN sj : sj[s].key = sj[r].key => s = r
    <3> SUFFICES ASSUME NEW s \in DOMAIN sj, NEW r \in DOMAIN sj, sj[s].key = sj[r].key
                 PROVE  s = r
      OBVIOUS
    <3>1. CASE s = c \/ r = c
      BY <1>1, <1>3, <2>2, <3>1
    <3>2. CASE s # c /\ r # c
      BY <1>1, <1>3, <3>2 DEF Good, Named
    <3> QED  BY <3>1, <3>2
  <2> QED  BY <2>1, <2>3 DEF Named
<1>5. Serves(pa, e, p) /\ Serves(pa, c, sh[c].active)
  BY <1>2 DEF Good, Served

\* What is left to show once it is known which documents each source has.
<1>6. ASSUME Serves(pb, c, p), Distinct(pb), Fits(sh, pb, c), pb \in Seq(PaperR),
             \A r \in DOMAIN sh \ {c, e} :
                /\ Known(pb, r) = Known(pa, r)
                /\ NextVersionOf(pb, r) = NextVersionOf(pa, r),
             \A d \in DOMAIN pb : pb[d].source # c => d \in DOMAIN pa /\ pb[d] = pa[d]
      PROVE  Good(sj, pb)
  <2>1. Served(sj, pb)
    <3> SUFFICES ASSUME NEW r \in DOMAIN sj
                 PROVE  /\ sj[r].canonical # 0 =>
                             /\ sj[r].canonical \in DOMAIN sj /\ ~sj[sj[r].canonical].legacy
                             /\ sj[r].active = 0 /\ sj[r].legacy
                        /\ sj[r].canonical = 0 => Serves(pb, r, sj[r].active)
      BY DEF Served
    <3>1. CASE r = c
      BY <1>3, <1>6, <3>1
    <3>2. CASE r # c /\ r \in aliases
      <4>1. sj[r].canonical = c /\ sj[r].active = 0 /\ sj[r].legacy
        BY <1>1, <1>3, <3>2 DEF Candidates
      <4> QED  BY <1>1, <1>2, <1>3, <4>1
    <3>3. CASE r # c /\ r \notin aliases /\ sh[r].canonical = 0
      <4>1. sj[r].canonical = 0 /\ sj[r].active = sh[r].active /\ r # e /\ r \in DOMAIN sh
        BY <1>1, <1>3, <3>3 DEF Candidates
      <4>2. Serves(pa, r, sh[r].active) /\ Known(pb, r) = Known(pa, r)
        BY <1>6, <3>3, <4>1 DEF Good, Served
      <4> QED  BY <4>1, <4>2 DEF Serves
    <3>4. CASE r # c /\ r \notin aliases /\ sh[r].canonical # 0
      <4>1. sj[r].canonical = sh[r].canonical /\ sj[r].active = sh[r].active
            /\ sj[r].legacy = sh[r].legacy /\ r \in DOMAIN sh
        BY <1>1, <1>3, <3>4
      <4>2. PICK t : t = sh[r].canonical
        OBVIOUS
      <4>3. t \in DOMAIN sh /\ ~sh[t].legacy /\ sh[r].active = 0 /\ sh[r].legacy
        BY <3>4, <4>1, <4>2 DEF Good, Served
      <4>4. ~sj[t].legacy
        BY <1>3, <4>3
      <4> QED  BY <1>1, <3>4, <4>1, <4>2, <4>3, <4>4
    <3> QED  BY <3>1, <3>2, <3>3, <3>4
  <2>2. Ahead(sj, pb)
    <3> SUFFICES ASSUME NEW d \in DOMAIN pb
                 PROVE  /\ pb[d].source \in DOMAIN sj /\ pb[d].version # 0
                        /\ sj[pb[d].source].canonical = 0 =>
                             pb[d].order < NextVersionOf(pb, pb[d].source)
      BY DEF Ahead
    <3> PICK r : r = pb[d].source
      OBVIOUS
    <3>1. r \in DOMAIN sj /\ pb[d].version # 0
      BY <1>1, <1>6 DEF Fits
    <3>2. CASE r = c
      BY <1>6, <3>1, <3>2 DEF Fits
    <3>3. CASE r # c /\ sj[r].canonical = 0
      <4>1. r \notin aliases /\ r # e /\ sh[r].canonical = 0 /\ r \in DOMAIN sh
        BY <1>1, <1>2, <1>3, <3>1, <3>3 DEF Candidates
      <4>2. d \in DOMAIN pa /\ pb[d] = pa[d] /\ NextVersionOf(pb, r) = NextVersionOf(pa, r)
        BY <1>6, <3>3, <4>1
      <4>3. pa[d].order < NextVersionOf(pa, r)
        BY <4>1, <4>2 DEF Good, Ahead
      <4> QED  BY <3>1, <4>2, <4>3
    <3>4. CASE r # c /\ sj[r].canonical # 0
      BY <3>1, <3>4
    <3> QED  BY <3>2, <3>3, <3>4
  <2> QED  BY <1>1, <1>4, <1>6, <2>1, <2>2 DEF Good, RowsTyped
<1>7. CASE ~ (p # 0 /\ pa[p].source # c)
  <2>1. pb = pa
    BY <1>7
  <2>2. p = sh[c].active
    <3>1. CASE p = 0
      BY <1>2, <3>1
    <3>2. CASE p # 0
      <4>1. p \in Known(pa, e)
        BY <1>5, <3>2 DEF Serves
      <4>2. e = c
        BY <1>7, <3>2, <4>1 DEF Known, PapersOf
      <4> QED  BY <1>2, <4>2
    <3> QED  BY <3>1, <3>2
  <2>3. Fits(sh, pa, c)
    BY <1>2 DEF Good, Ahead, Fits
  <2>4. Serves(pb, c, p) /\ Distinct(pb) /\ Fits(sh, pb, c) /\ pb \in Seq(PaperR)
    BY <1>1, <1>5, <2>1, <2>2, <2>3 DEF Good
  <2> QED  BY <1>6, <2>1, <2>4
<1>8. CASE p # 0 /\ pa[p].source # c
  <2>1. MovedTo(pa, pb, c, p)
    BY <1>8
  <2>2. p \in Known(pa, e) /\ p \in DOMAIN pa /\ pa[p].source = e /\ e # c
        /\ pa[p].status = "completed"
    BY <1>5, <1>8 DEF Serves, Known, PapersOf
  <2>3. Distinct(pb) /\ Fits(sh, pb, c)
    BY <1>2, <1>8, <2>1, <2>2, MoveKeeps
  <2>4. PICK H : H = PapersOf(pa, c)
    OBVIOUS
  <2>5. /\ pb \in Seq(PaperR) /\ DOMAIN pb = DOMAIN pa /\ H \subseteq DOMAIN pa
        /\ \A d \in DOMAIN pa \ (H \cup {p}) : pb[d] = pa[d]
        /\ \A d \in H \cup {p} : pb[d].source = c /\ pb[d].status = pa[d].status
    BY <2>1, <2>4 DEF MovedTo, PapersOf
  <2>6. \A d \in DOMAIN pa : pa[d].source = c => d \in H
    BY <2>4 DEF PapersOf
  <2>7. \A d \in DOMAIN pb : pb[d].source # c => d \in DOMAIN pa /\ pb[d] = pa[d]
    BY <2>5
  <2>8. \A r \in DOMAIN sh \ {c, e} : PapersOf(pb, r) = PapersOf(pa, r)
                                      /\ \A d \in PapersOf(pa, r) : pb[d] = pa[d]
    <3> SUFFICES ASSUME NEW r \in DOMAIN sh \ {c, e}
                 PROVE  PapersOf(pb, r) = PapersOf(pa, r)
                        /\ \A d \in PapersOf(pa, r) : pb[d] = pa[d]
      OBVIOUS
    <3>1. \A d \in DOMAIN pa : pa[d].source = r => d \notin H \cup {p}
      BY <2>2, <2>4 DEF PapersOf
    <3>2. \A d \in DOMAIN pa : pa[d].source = r => pb[d] = pa[d]
      BY <2>5, <3>1
    <3>3. \A d \in DOMAIN pb : pb[d].source = r => d \in DOMAIN pa /\ pb[d] = pa[d]
      BY <2>7
    <3> QED  BY <2>5, <3>2, <3>3 DEF PapersOf
  <2>9. ASSUME NEW r \in DOMAIN sh \ {c, e}
        PROVE  Known(pb, r) = Known(pa, r) /\ NextVersionOf(pb, r) = NextVersionOf(pa, r)
    <3>1. PapersOf(pb, r) = PapersOf(pa, r) /\ \A d \in PapersOf(pa, r) : pb[d] = pa[d]
      BY <2>8
    <3>2. Known(pb, r) = Known(pa, r)
      BY <3>1 DEF Known
    <3>3. VersionsOf(pb, r) = VersionsOf(pa, r)
      BY <3>1 DEF VersionsOf
    <3> QED  BY <3>2, <3>3, NextOfSame
  <2>10. Serves(pb, c, p)
    <3>1. PapersOf(pb, c) = H \cup {p}
      BY <2>2, <2>5, <2>6 DEF PapersOf
    <3>2. Known(pb, c) = Known(pa, c) \cup {p}
      BY <2>2, <2>4, <2>5, <3>1 DEF Known
    <3>3. \A d \in Known(pa, c) : d <= sh[c].active /\ d \in Nat
      BY <1>1, <1>5 DEF Serves, Known, PapersOf
    <3>4. \A d \in Known(pa, c) : d <= p
      BY <1>2, <3>3
    <3> QED  BY <1>2, <3>2, <3>4 DEF Serves
  <2> QED  BY <1>6, <2>3, <2>5, <2>7, <2>9, <2>10
<1> QED  BY <1>7, <1>8

\* What the rows are after the adoption.
LEMMA AdoptIsJoined ==
    ASSUME Good(shelf, papers), NEW c, NEW aliases, NEW e, NEW p,
           Candidates(shelf, c, aliases, e, p),
           NEW ad, ad = AdoptCanonicalSource(c, aliases, p)
    PROVE  Good(ad.shelf, ad.papers) /\ c \in DOMAIN ad.shelf /\ ad.shelf[c].canonical = 0
<1>1. PICK sh, pa : sh = shelf /\ pa = papers
  OBVIOUS
<1>2. PICK H, v : H = PapersOf(pa, c) /\ v = NextVersionOf(pa, c)
  OBVIOUS
<1>3. PICK sj, pb : sj = ad.shelf /\ pb = ad.papers
  OBVIOUS
<1>4. /\ sh \in Seq(ShelfR) /\ pa \in Seq(PaperR)
      /\ DOMAIN sh = 1 .. Len(sh) /\ Len(sh) \in Nat
      /\ DOMAIN pa = 1 .. Len(pa) /\ Len(pa) \in Nat
  BY <1>1 DEF Good, RowsTyped
<1>5. \A s \in DOMAIN sh : sh[s] \in ShelfR
  BY <1>4
<1>6. \A d \in DOMAIN pa : pa[d] \in PaperR
  BY <1>4
<1>7. /\ c \in DOMAIN sh /\ sh[c].canonical = 0 /\ c \in Nat /\ c \notin aliases
      /\ p = sh[e].active /\ e \in DOMAIN sh /\ p \in Nat /\ sh[c].active <= p
      /\ sh[e].canonical = 0 /\ sh[c].active \in Nat
  <2>1. \A s \in DOMAIN sh : sh[s].active \in Nat
    BY <1>5 DEF ShelfR
  <2>2. /\ c \in DOMAIN sh /\ sh[c].canonical = 0 /\ c \notin aliases
        /\ p = sh[e].active /\ e \in DOMAIN sh /\ sh[c].active <= p /\ sh[e].canonical = 0
    BY <1>1 DEF Candidates
  <2> QED  BY <1>4, <2>1, <2>2
<1>8. PICK row : row = [sh[c] EXCEPT !.key = "file", !.legacy = FALSE,
                                     !.active = IF p # 0 THEN p ELSE @,
                                     !.last = IF p # 0 THEN p ELSE @,
                                     !.outcome = IF p # 0 THEN "completed" ELSE @]
  OBVIOUS
<1>9. sj = [s \in DOMAIN shelf |->
               CASE s = c ->
                       [shelf[s] EXCEPT !.key = "file", !.legacy = FALSE,
                           !.active = IF p # 0 THEN p ELSE @,
                           !.last = IF p # 0 THEN p ELSE @,
                           !.outcome = IF p # 0 THEN "completed" ELSE @]
                 [] s \in aliases -> [shelf[s] EXCEPT !.canonical = c, !.active = 0]
                 [] OTHER -> shelf[s]]
  <2>1. ad.shelf = AdoptCanonicalSource(c, aliases, p).shelf
    OBVIOUS
  <2>2. ad.shelf =
          [s \in DOMAIN shelf |->
               CASE s = c ->
                       [shelf[s] EXCEPT !.key = "file", !.legacy = FALSE,
                           !.active = IF p # 0 THEN p ELSE @,
                           !.last = IF p # 0 THEN p ELSE @,
                           !.outcome = IF p # 0 THEN "completed" ELSE @]
                 [] s \in aliases -> [shelf[s] EXCEPT !.canonical = c, !.active = 0]
                 [] OTHER -> shelf[s]]
    BY <2>1 DEF AdoptCanonicalSource
  <2> QED  BY <1>3, <2>2
<1>10. /\ row \in ShelfR /\ row.key = "file" /\ ~row.legacy /\ row.canonical = 0
       /\ row.active = p
  <2>1. PICK z : z = sh[c]
    OBVIOUS
  <2>2. z \in ShelfR
    BY <1>5, <1>7, <2>1
  <2>3. PICK a, l, o : /\ a = IF p # 0 THEN p ELSE z.active
                       /\ l = IF p # 0 THEN p ELSE z.last
                       /\ o = IF p # 0 THEN "completed" ELSE z.outcome
    OBVIOUS
  <2>4. a \in Nat /\ l \in Nat /\ o \in ShelfOutcomes /\ a = p
    <3>1. z.active \in Nat /\ z.last \in Nat /\ z.outcome \in ShelfOutcomes
      BY <2>2 DEF ShelfR
    <3>2. "completed" \in ShelfOutcomes
      BY DEF ShelfOutcomes, PaperStatus
    <3> QED  BY <1>7, <2>1, <2>3, <3>1, <3>2
  <2>5. row = [z EXCEPT !.key = "file", !.legacy = FALSE, !.active = a, !.last = l,
                        !.outcome = o]
    BY <1>8, <2>1, <2>3
  <2>6. "file" \in Keys
    BY DEF Keys
  <2>7. /\ row \in ShelfR /\ row.key = "file" /\ row.legacy = FALSE
        /\ row.canonical = z.canonical /\ row.active = a
    BY <2>2, <2>4, <2>5, <2>6 DEF ShelfR
  <2> QED  BY <1>7, <2>1, <2>4, <2>7
<1>11. \A s \in DOMAIN sh :
         /\ [sh[s] EXCEPT !.canonical = c, !.active = 0] \in ShelfR
         /\ [sh[s] EXCEPT !.canonical = c, !.active = 0].key = sh[s].key
         /\ [sh[s] EXCEPT !.canonical = c, !.active = 0].legacy = sh[s].legacy
         /\ [sh[s] EXCEPT !.canonical = c, !.active = 0].canonical = c
         /\ [sh[s] EXCEPT !.canonical = c, !.active = 0].active = 0
  BY <1>5, <1>7 DEF ShelfR
<1>12. /\ DOMAIN sj = DOMAIN sh /\ sj[c] = row
       /\ \A s \in DOMAIN sh \ {c} :
            sj[s] = IF s \in aliases THEN [sh[s] EXCEPT !.canonical = c, !.active = 0] ELSE sh[s]
  <2>1. DOMAIN sj = DOMAIN sh
    BY <1>1, <1>9
  <2>2. sj[c] = row
    BY <1>1, <1>7, <1>8, <1>9
  <2> QED  BY <1>1, <1>9, <2>1, <2>2
<1>13. Joined(sh, sj, c, aliases, p)
  <2>1. \A s \in DOMAIN sh : sj[s] \in ShelfR
    BY <1>5, <1>10, <1>11, <1>12
  <2>2. sj \in Seq(ShelfR)
    <3>1. sj \in [1 .. Len(sh) -> ShelfR]
      BY <1>1, <1>4, <1>9, <2>1
    <3> QED  BY <1>4, <3>1
  <2>3. \A s \in DOMAIN sh \ {c} :
           /\ sj[s].key = sh[s].key /\ sj[s].legacy = sh[s].legacy
           /\ sj[s].canonical = IF s \in aliases THEN c ELSE sh[s].canonical
           /\ sj[s].active = IF s \in aliases THEN 0 ELSE sh[s].active
    BY <1>11, <1>12
  <2> QED  BY <1>10, <1>12, <2>2, <2>3 DEF Joined
<1>14. pb = [d \in DOMAIN pa |->
               IF (p # 0 /\ pa[p].source # c) /\ d \in H \cup {p}
               THEN [IF d = p THEN [pa[d] EXCEPT !.source = c, !.version = v] ELSE pa[d]
                       EXCEPT !.order = PlaceOf(d, p, H)]
               ELSE pa[d]]
  BY <1>1, <1>2, <1>3 DEF AdoptCanonicalSource
<1>15. CASE p # 0 /\ pa[p].source # c
  <2>1. p \in DOMAIN pa
    BY <1>1, <1>7, <1>15 DEF Good, Served, Serves, Known, PapersOf
  <2>2. H \subseteq DOMAIN pa /\ p \notin H /\ v \in Nat /\ \A d \in H : pa[d].source = c
    BY <1>2, <1>4, <1>15, NextIsNew DEF PapersOf
  <2>3. \A d \in H \cup {p} : PlaceOf(d, p, H) \in Nat
    <3>1. H \subseteq Nat /\ IsFiniteSet(H)
      <4>1. IsFiniteSet(1 .. Len(pa))
        BY <1>4, FS_Interval
      <4> QED  BY <1>4, <2>2, <4>1, FS_Subset
    <3>2. \A d \in Nat : PlaceOf(d, p, H) \in Nat
      BY <1>7, <3>1, Places
    <3> QED  BY <1>7, <3>1, <3>2
  <2>4. \A d \in DOMAIN pa \ (H \cup {p}) : pb[d] = pa[d]
    BY <1>14
  <2>5. ASSUME NEW d \in H
        PROVE  /\ pb[d] \in PaperR /\ pb[d].source = c /\ pb[d].status = pa[d].status
               /\ pb[d].version = pa[d].version /\ pb[d].order = PlaceOf(d, p, H)
    <3>1. PICK z, o : z = pa[d] /\ o = PlaceOf(d, p, H)
      OBVIOUS
    <3>2. pb[d] = [z EXCEPT !.order = o]
      BY <1>14, <1>15, <2>2, <3>1
    <3>3. z \in PaperR /\ o \in Nat /\ z.source = c
      BY <1>6, <2>2, <2>3, <3>1
    <3>4. /\ [z EXCEPT !.order = o] \in PaperR
          /\ [z EXCEPT !.order = o].source = z.source
          /\ [z EXCEPT !.order = o].status = z.status
          /\ [z EXCEPT !.order = o].version = z.version
          /\ [z EXCEPT !.order = o].order = o
      BY <3>3 DEF PaperR
    <3> QED  BY <3>1, <3>2, <3>3, <3>4
  <2>6. /\ pb[p] \in PaperR /\ pb[p].source = c /\ pb[p].status = pa[p].status
        /\ pb[p].version = v /\ pb[p].order = PlaceOf(p, p, H)
    <3>1. PICK z, o : z = pa[p] /\ o = PlaceOf(p, p, H)
      OBVIOUS
    <3>2. pb[p] = [[z EXCEPT !.source = c, !.version = v] EXCEPT !.order = o]
      BY <1>14, <1>15, <2>1, <3>1
    <3>3. z \in PaperR /\ o \in Nat
      BY <1>6, <2>1, <2>3, <3>1
    <3>4. PICK y : y = [z EXCEPT !.source = c, !.version = v]
      OBVIOUS
    <3>5. y \in PaperR /\ y.source = c /\ y.version = v /\ y.status = z.status
      BY <1>7, <2>2, <3>3, <3>4 DEF PaperR
    <3>6. /\ [y EXCEPT !.order = o] \in PaperR
          /\ [y EXCEPT !.order = o].source = y.source
          /\ [y EXCEPT !.order = o].status = y.status
          /\ [y EXCEPT !.order = o].version = y.version
          /\ [y EXCEPT !.order = o].order = o
      BY <3>3, <3>5 DEF PaperR
    <3> QED  BY <3>1, <3>2, <3>4, <3>5, <3>6
  <2>7. \A d \in DOMAIN pa : pb[d] \in PaperR
    BY <1>6, <2>4, <2>5, <2>6
  <2>8. pb \in Seq(PaperR) /\ DOMAIN pb = DOMAIN pa
    <3>1. pb \in [1 .. Len(pa) -> PaperR]
      BY <1>4, <1>14, <2>7
    <3> QED  BY <1>4, <3>1
  <2>9. \A d \in H \cup {p} :
          /\ pb[d].source = c /\ pb[d].status = pa[d].status
          /\ pb[d].version = IF d = p THEN v ELSE pa[d].version
          /\ pb[d].order = PlaceOf(d, p, H)
    BY <2>2, <2>5, <2>6
  <2>10. MovedTo(pa, pb, c, p)
    BY <1>2, <2>4, <2>8, <2>9 DEF MovedTo
  <2>11. Good(sj, pb)
    BY <1>1, <1>13, <1>15, <2>10, JoinedIsGood
  <2> QED  BY <1>3, <1>7, <1>10, <1>12, <2>11
<1>16. CASE ~ (p # 0 /\ pa[p].source # c)
  <2>1. pb = [d \in DOMAIN pa |-> pa[d]]
    BY <1>14, <1>16
  <2>2. pb = pa
    BY <1>4, <2>1
  <2>3. Good(sj, pb)
    BY <1>1, <1>13, <1>16, <2>2, JoinedIsGood
  <2> QED  BY <1>3, <1>7, <1>10, <1>12, <2>3
<1> QED  BY <1>15, <1>16

LEMMA PathKeeps ==
    ASSUME Good(shelf, papers), NEW text \in Texts, SubmitByPath(text)
    PROVE  Good(shelf, papers)'
<1>1. PICK known, legacy : known = GetSourceByKey("file") /\ legacy = ListLegacySources
  OBVIOUS
<1>2. CASE legacy = {}
  <2>1. PICK k : k = "file"
    OBVIOUS
  <2>2. k \in Keys /\ SubmitByApi(k, text)
    BY <1>1, <1>2, <2>1 DEF SubmitByPath, Keys
  <2> QED  BY <2>2, ApiKeeps
<1>3. CASE legacy # {}
  <2>1. PICK e \in known \cup legacy :
          /\ \A r \in known \cup legacy : shelf[r].active <= shelf[e].active
          /\ \E c \in IF known # {} THEN known ELSE {e} :
               SubmitTo(AdoptCanonicalSource(c, legacy \ {c}, shelf[e].active), c, text)
    BY <1>1, <1>3 DEF SubmitByPath
  <2>2. PICK c \in IF known # {} THEN known ELSE {e} :
          SubmitTo(AdoptCanonicalSource(c, legacy \ {c}, shelf[e].active), c, text)
    BY <2>1
  <2>3. PICK aliases, p, ad : /\ aliases = legacy \ {c} /\ p = shelf[e].active
                              /\ ad = AdoptCanonicalSource(c, aliases, p)
    OBVIOUS
  <2>4. \A r \in DOMAIN shelf : shelf[r].key = "file" => shelf[r].canonical = 0
    BY DEF Good, Named, Served
  <2>5. \A r \in known : r \in DOMAIN shelf /\ shelf[r].key = "file" /\ shelf[r].canonical = 0
    BY <1>1, <2>4 DEF GetSourceByKey
  <2>6. known = {} => Fresh(shelf, "file")
    BY <1>1 DEF GetSourceByKey, Fresh
  <2>7. \A r \in legacy : r \in DOMAIN shelf /\ shelf[r].legacy /\ shelf[r].canonical = 0
    BY <1>1 DEF ListLegacySources
  <2>8. c \in known \cup legacy /\ (c \in known \/ (known = {} /\ c = e))
    BY <2>2
  <2>9. c \in known => known \subseteq {c}
    BY <2>5 DEF Good, Named
  <2>10. e \in aliases \cup {c}
    BY <2>2, <2>3, <2>8, <2>9
  <2>11. Candidates(shelf, c, aliases, e, p)
    BY <2>1, <2>3, <2>5, <2>6, <2>7, <2>8, <2>10 DEF Candidates
  <2>12. Good(ad.shelf, ad.papers) /\ c \in DOMAIN ad.shelf /\ ad.shelf[c].canonical = 0
    BY <2>3, <2>11, AdoptIsJoined
  <2>13. PICK sh, pa : sh = ad.shelf /\ pa = ad.papers
    OBVIOUS
  <2>14. SubmitTo(ad, c, text)
    BY <2>2, <2>3
  <2> QED  BY <2>12, <2>13, <2>14, SubmitKeeps
<1> QED  BY <1>2, <1>3

-----------------------------------------------------------------------------
(* Lemmas: the end of a run, and the invariant. *)

LEMMA RunEndKeeps ==
    ASSUME Good(shelf, papers), NEW d \in DOMAIN papers, NEW status \in {"completed", "failed"},
           RunEnds(d, status)
    PROVE  Good(shelf, papers)'
<1>1. PICK sh, pa, sj, pb : sh = shelf /\ pa = papers /\ sj = shelf' /\ pb = papers'
  OBVIOUS
<1>2. /\ sh \in Seq(ShelfR) /\ pa \in Seq(PaperR) /\ Good(sh, pa) /\ d \in DOMAIN pa
      /\ DOMAIN sh = 1 .. Len(sh) /\ Len(sh) \in Nat /\ DOMAIN pa = 1 .. Len(pa)
      /\ Len(pa) \in Nat
  BY <1>1 DEF Good, RowsTyped
<1>3. \A s \in DOMAIN sh : sh[s] \in ShelfR
  BY <1>2
<1>4. \A c \in DOMAIN pa : pa[c] \in PaperR
  BY <1>2
<1>5. PICK s, a : s = pa[d].source /\ a = sh[s].active
  OBVIOUS
<1>6. s \in DOMAIN sh /\ pa[d].order \in Nat /\ a \in Nat
  <2>1. s \in DOMAIN sh
    BY <1>2, <1>5 DEF Good, Ahead
  <2> QED  BY <1>2, <1>3, <1>4, <1>5, <2>1 DEF ShelfR, PaperR
<1>7. PICK wins \in BOOLEAN :
        wins <=> /\ status = "completed" /\ sh[s].canonical = 0
                 /\ a = 0 \/ pa[a].order < pa[d].order
  OBVIOUS
<1>8. /\ pa[d].status = "pending"
      /\ pb = [pa EXCEPT ![d].status = status]
      /\ sj = [r \in DOMAIN sh |->
                 [sh[r] EXCEPT !.outcome = IF sh[r].last = d THEN status ELSE @,
                               !.active = IF r = s /\ wins THEN d ELSE @]]
  BY <1>1, <1>5, <1>7 DEF RunEnds
<1>9. /\ pb \in Seq(PaperR) /\ DOMAIN pb = DOMAIN pa
      /\ \A c \in DOMAIN pa : /\ pb[c].source = pa[c].source /\ pb[c].version = pa[c].version
                              /\ pb[c].order = pa[c].order
                              /\ pb[c].status = IF c = d THEN status ELSE pa[c].status
  <2>1. PICK z : z = [pa[d] EXCEPT !.status = status]
    OBVIOUS
  <2>2. /\ z \in PaperR /\ z.source = pa[d].source /\ z.version = pa[d].version
        /\ z.order = pa[d].order /\ z.status = status
    BY <1>2, <1>4, <2>1 DEF PaperR, PaperStatus
  <2>3. pb = [pa EXCEPT ![d] = z]
    BY <1>8, <2>1
  <2>4. PICK R : R = PaperR
    OBVIOUS
  <2>5. pb \in Seq(R) /\ DOMAIN pb = DOMAIN pa
    BY <1>2, <2>2, <2>3, <2>4
  <2>6. \A c \in DOMAIN pa : pb[c] = IF c = d THEN z ELSE pa[c]
    BY <2>3
  <2> QED  BY <2>2, <2>4, <2>5, <2>6
<1>10. /\ sj \in Seq(ShelfR) /\ DOMAIN sj = DOMAIN sh
       /\ \A r \in DOMAIN sh : /\ sj[r].key = sh[r].key /\ sj[r].legacy = sh[r].legacy
                               /\ sj[r].canonical = sh[r].canonical
                               /\ sj[r].active = IF r = s /\ wins THEN d ELSE sh[r].active
  <2>1. ASSUME NEW r \in DOMAIN sh
        PROVE  /\ sj[r] \in ShelfR /\ sj[r].key = sh[r].key /\ sj[r].legacy = sh[r].legacy
               /\ sj[r].canonical = sh[r].canonical
               /\ sj[r].active = IF r = s /\ wins THEN d ELSE sh[r].active
    <3>1. PICK z, o, b : /\ z = sh[r] /\ o = IF sh[r].last = d THEN status ELSE sh[r].outcome
                         /\ b = IF r = s /\ wins THEN d ELSE sh[r].active
      OBVIOUS
    <3>2. sj[r] = [z EXCEPT !.outcome = o, !.active = b]
      BY <1>8, <3>1
    <3>3. z \in ShelfR
      BY <1>3, <3>1
    <3>4. o \in ShelfOutcomes /\ b \in Nat
      <4>1. z.outcome \in ShelfOutcomes /\ z.active \in Nat /\ d \in Nat /\ status \in ShelfOutcomes
        BY <1>2, <3>3 DEF ShelfR, ShelfOutcomes, PaperStatus
      <4> QED  BY <3>1, <4>1
    <3>5. /\ [z EXCEPT !.outcome = o, !.active = b] \in ShelfR
          /\ [z EXCEPT !.outcome = o, !.active = b].key = z.key
          /\ [z EXCEPT !.outcome = o, !.active = b].legacy = z.legacy
          /\ [z EXCEPT !.outcome = o, !.active = b].canonical = z.canonical
          /\ [z EXCEPT !.outcome = o, !.active = b].active = b
      BY <3>3, <3>4 DEF ShelfR
    <3> QED  BY <3>1, <3>2, <3>5
  <2>2. sj \in [1 .. Len(sh) -> ShelfR]
    BY <1>2, <1>8, <2>1
  <2>3. sj \in Seq(ShelfR) /\ DOMAIN sj = DOMAIN sh
    BY <1>2, <2>2
  <2> QED  BY <2>1, <2>3
<1>11. \A r : /\ PapersOf(pb, r) = PapersOf(pa, r)
              /\ Known(pb, r) = Known(pa, r)
                                  \cup (IF r = s /\ status = "completed" THEN {d} ELSE {})
  <2> TAKE r
  <2>1. PapersOf(pb, r) = PapersOf(pa, r)
    BY <1>9 DEF PapersOf
  <2>2. Known(pb, r) = Known(pa, r) \cup (IF r = s /\ status = "completed" THEN {d} ELSE {})
    BY <1>2, <1>5, <1>8, <1>9, <2>1 DEF Known, PapersOf
  <2> QED  BY <2>1, <2>2
<1>12. \A r : NextVersionOf(pb, r) = NextVersionOf(pa, r)
  <2>1. \A r : VersionsOf(pb, r) = VersionsOf(pa, r)
    BY <1>9, <1>11 DEF VersionsOf, PapersOf
  <2> QED  BY <2>1, NextOfSame
<1>13. Named(sj)
  BY <1>2, <1>10 DEF Good, Named
<1>14. Distinct(pb)
  BY <1>2, <1>9 DEF Good, Distinct
<1>15. Ahead(sj, pb)
  <2> SUFFICES ASSUME NEW c \in DOMAIN pb
               PROVE  /\ pb[c].source \in DOMAIN sj /\ pb[c].version # 0
                      /\ sj[pb[c].source].canonical = 0 =>
                           pb[c].order < NextVersionOf(pb, pb[c].source)
    BY DEF Ahead
  <2> PICK r : r = pa[c].source
    OBVIOUS
  <2>1. pb[c].source = r /\ r \in DOMAIN sh /\ pb[c].version # 0 /\ pb[c].order = pa[c].order
    BY <1>2, <1>9 DEF Good, Ahead
  <2>2. sh[r].canonical = 0 => pa[c].order < NextVersionOf(pa, r)
    BY <1>2, <1>9 DEF Good, Ahead
  <2> QED  BY <1>10, <1>12, <2>1, <2>2
<1>16. Served(sj, pb)
  <2> SUFFICES ASSUME NEW r \in DOMAIN sj
               PROVE  /\ sj[r].canonical # 0 =>
                           /\ sj[r].canonical \in DOMAIN sj /\ ~sj[sj[r].canonical].legacy
                           /\ sj[r].active = 0 /\ sj[r].legacy
                      /\ sj[r].canonical = 0 => Serves(pb, r, sj[r].active)
    BY DEF Served
  <2>1. r \in DOMAIN sh /\ sj[r].canonical = sh[r].canonical /\ sj[r].legacy = sh[r].legacy
    BY <1>10
  <2>2. CASE sh[r].canonical # 0
    <3>1. sj[r].active = sh[r].active
      BY <1>7, <1>10, <2>1, <2>2
    <3>2. PICK t : t = sh[r].canonical
      OBVIOUS
    <3>3. t \in DOMAIN sh /\ ~sh[t].legacy /\ sh[r].active = 0 /\ sh[r].legacy
      BY <1>2, <2>1, <2>2, <3>2 DEF Good, Served
    <3>4. t \in DOMAIN sj /\ ~sj[t].legacy
      BY <1>10, <3>3
    <3> QED  BY <2>1, <2>2, <3>1, <3>2, <3>3, <3>4
  <2>3. CASE sh[r].canonical = 0 /\ ~ (r = s /\ status = "completed")
    <3>1. sj[r].active = sh[r].active /\ Serves(pa, r, sh[r].active)
      BY <1>2, <1>7, <1>10, <2>1, <2>3 DEF Good, Served
    <3>2. Known(pb, r) = Known(pa, r) \cup {}
      BY <1>11, <2>3
    <3> QED  BY <2>1, <2>3, <3>1, <3>2 DEF Serves
  <2>4. CASE sh[r].canonical = 0 /\ r = s /\ status = "completed"
    <3>1. Known(pb, r) = Known(pa, r) \cup {d}
      BY <1>11, <2>4
    <3>2. Serves(pa, s, a)
      BY <1>2, <1>5, <2>1, <2>4 DEF Good, Served
    <3>3. \A c \in Known(pa, s) : c \in Nat /\ c <= a /\ c \in DOMAIN pa /\ c # d
                                  /\ pa[c].source = s
      <4>1. \A c \in Known(pa, s) : c <= a
        BY <3>2 DEF Serves
      <4>2. \A c \in Known(pa, s) : c \in DOMAIN pa /\ pa[c].source = s
                                    /\ pa[c].status = "completed"
        BY DEF Known, PapersOf
      <4>3. \A c \in DOMAIN pa : c \in Nat
        BY <1>2
      <4>4. "completed" # "pending"
        OBVIOUS
      <4>5. \A c \in Known(pa, s) : c # d
        BY <1>8, <4>2, <4>4
      <4> QED  BY <4>1, <4>2, <4>3, <4>5

\* The orders of a source's documents are those of their creation.
    <3>4. \A c \in Known(pa, s) : c < d <=> pa[c].order < pa[d].order
      <4> SUFFICES ASSUME NEW c \in Known(pa, s)
                   PROVE  c < d <=> pa[c].order < pa[d].order
        OBVIOUS
      <4>1. c \in DOMAIN pa /\ c # d /\ pa[c].source = s /\ pa[c].order \in Nat
        BY <1>4, <3>3 DEF PaperR
      <4>2. c < d => pa[c].order < pa[d].order
        BY <1>2, <1>5, <4>1 DEF Good, Distinct
      <4>3. d < c => pa[d].order < pa[c].order
        BY <1>2, <1>5, <4>1 DEF Good, Distinct
      <4> QED  BY <1>2, <1>6, <4>1, <4>2, <4>3
    <3>5. CASE wins
      <4>1. sj[r].active = d
        BY <1>10, <2>1, <2>4, <3>5
      <4>2. a = 0 \/ (a \in Known(pa, s) /\ a < d)
        BY <1>7, <3>2, <3>4, <3>5 DEF Serves
      <4>3. \A c \in Known(pa, s) : c <= d
        BY <1>2, <1>6, <3>3, <4>2
      <4>4. d <= d
        BY <1>2
      <4> QED  BY <2>1, <2>4, <3>1, <4>1, <4>3, <4>4 DEF Serves
    <3>6. CASE ~wins
      <4>1. sj[r].active = a /\ a \in Known(pa, s) /\ ~ (pa[a].order < pa[d].order)
        BY <1>5, <1>7, <1>10, <2>1, <2>4, <3>2, <3>6 DEF Serves
      <4>2. d <= a
        BY <1>2, <3>3, <3>4, <4>1
      <4> QED  BY <2>1, <2>4, <3>1, <3>3, <4>1, <4>2 DEF Serves
    <3> QED  BY <3>5, <3>6
  <2> QED  BY <2>1, <2>2, <2>3, <2>4
<1>17. Good(sj, pb)
  BY <1>9, <1>10, <1>13, <1>14, <1>15, <1>16 DEF Good, RowsTyped
<1> QED  BY <1>1, <1>17

LEMMA AdoptionKeepsGood ==
    Good(shelf, papers) /\ [AdoptionNext]_adoptionVars => Good(shelf, papers)'
<1> SUFFICES ASSUME Good(shelf, papers), [AdoptionNext]_adoptionVars
             PROVE  Good(shelf, papers)'
  OBVIOUS
<1>1. ASSUME NEW text \in Texts, SubmitByPath(text)
      PROVE  Good(shelf, papers)'
  BY <1>1, PathKeeps
<1>2. ASSUME NEW text \in Texts, NEW k \in Keys, SubmitByApi(k, text)
      PROVE  Good(shelf, papers)'
  BY <1>2, ApiKeeps
<1>3. ASSUME NEW d \in DOMAIN papers, NEW status \in {"completed", "failed"}, RunEnds(d, status)
      PROVE  Good(shelf, papers)'
  BY <1>3, RunEndKeeps
<1>4. ASSUME UNCHANGED adoptionVars
      PROVE  Good(shelf, papers)'
  BY <1>4 DEF adoptionVars
<1> QED  BY <1>1, <1>2, <1>3, <1>4 DEF AdoptionNext

LEMMA GoodIsNewest == Good(shelf, papers) => ServedIsNewest
<1> SUFFICES ASSUME Good(shelf, papers)
             PROVE  ServedIsNewest
  OBVIOUS
<1>1. ASSUME NEW s \in DOMAIN shelf, shelf[s].canonical # 0
      PROVE  shelf[s].active = 0 /\ shelf[shelf[s].canonical].canonical = 0
  BY <1>1 DEF Good, Served
<1>2. ASSUME NEW s \in DOMAIN shelf, shelf[s].canonical = 0
      PROVE  shelf[s].active =
                Max({0} \cup {d \in PapersOf(papers, s) : papers[d].status = "completed"})
  <2> PICK a, S : a = shelf[s].active /\ S = {0} \cup Known(papers, s)
    OBVIOUS
  <2>1. Serves(papers, s, a)
    BY <1>2 DEF Good, Served
  <2>2. S \subseteq Nat
    BY DEF Good, RowsTyped, Known, PapersOf
  <2>3. a \in S /\ S \subseteq Int /\ \A i \in S : i <= a
    BY <2>1, <2>2 DEF Serves
  <2>4. Max(S) = a
    BY <2>3, MaxOf
  <2> QED  BY <2>4 DEF Known
<1>3. \A s, r \in DOMAIN shelf : shelf[s].key = shelf[r].key => s = r
  BY DEF Good, Named
<1>4. \A d, e \in DOMAIN papers :
        papers[d].source = papers[e].source /\ papers[d].version = papers[e].version => d = e
  BY DEF Good, Distinct
<1> QED  BY <1>1, <1>2, <1>3, <1>4 DEF ServedIsNewest

\* Under whatever names a file came in: ServedIsNewest.
THEOREM ServedIsTheNewest == AdoptionSpec => []ServedIsNewest
<1>1. AdoptionInit => Good(shelf, papers)
  BY InitIsGood
<1>2. Good(shelf, papers) /\ [AdoptionNext]_adoptionVars => Good(shelf, papers)'
  BY AdoptionKeepsGood
<1>3. Good(shelf, papers) => ServedIsNewest
  BY GoodIsNewest
<1> QED  BY <1>1, <1>2, <1>3, PTL DEF AdoptionSpec
=============================================================================
