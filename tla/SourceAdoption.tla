--------------------------- MODULE SourceAdoption ---------------------------
(***************************************************************************)
(* One local file under several names: the sources the upgrade of an old    *)
(* database makes (src/src/ingestion/tracking/db.ts), those the API makes   *)
(* from a bare name, and the canonical source a submission of the command   *)
(* line adopts them into (src/src/ingestion/lifecycle.ts, doc_repo.ts),     *)
(* while runs of any of their documents end.  Activation is automatic here; *)
(* SourceGovernance has review and retirement.                              *)
(***************************************************************************)
EXTENDS Naturals, Sequences, FiniteSets, SequencesExt, FiniteSetsExt

CONSTANTS
    Names,         \* relative spellings that resolve to the file
    Texts,         \* contents the file may have
    MaxOld,        \* documents of the old database (bound)
    MaxPapers      \* documents in all (bound)

ASSUME AdoptionAssumption == {MaxOld, MaxPapers} \subseteq Nat /\ "file" \notin Names

VARIABLES
    shelf,         \* sources rows; the id of a row is its index
    papers         \* documents rows, in the order they were created

adoptionVars == <<shelf, papers>>

Keys == Names \cup {"file"}
PaperStatus == {"pending", "completed", "failed"}

ShelfRow == [key : Keys, legacy : BOOLEAN, active : 0 .. MaxPapers, last : 0 .. MaxPapers,
             outcome : PaperStatus \cup {"none", "unchanged"}, canonical : 0 .. MaxPapers]
Paper == [source : 1 .. MaxPapers, text : Texts, version : 1 .. 2 * MaxPapers,
          order : 1 .. 2 * MaxPapers, status : PaperStatus]

AdoptionTypeOK == shelf \in Seq(ShelfRow) /\ papers \in Seq(Paper)

\* An absolute path is stored as a file, any other name as a legacy source.
CreateSource(k) ==
    [key |-> k, legacy |-> k # "file", active |-> 0, last |-> 0, outcome |-> "none",
     canonical |-> 0]

PapersOf(rows, s) == {d \in DOMAIN rows : rows[d].source = s}
NextVersionOf(rows, s) == Max({0} \cup {rows[d].version : d \in PapersOf(rows, s)}) + 1

-----------------------------------------------------------------------------
(* The upgrade: the documents of the old database, oldest first. *)

OldPapers == [name : Keys, text : Texts, status : {"pending", "completed"}]

UpgradeLegacyDocument(db, old) ==
    LET rows == IF \E s \in DOMAIN db.shelf : db.shelf[s].key = old.name
                THEN db.shelf ELSE Append(db.shelf, CreateSource(old.name))
        s == CHOOSE r \in DOMAIN rows : rows[r].key = old.name
        d == Len(db.papers) + 1
        v == NextVersionOf(db.papers, s)
    IN  [shelf |-> [rows EXCEPT ![s].active = IF old.status = "completed" THEN d ELSE @,
                                ![s].last = d, ![s].outcome = old.status],
         papers |-> Append(db.papers, [source |-> s, text |-> old.text, version |-> v,
                                       order |-> v, status |-> old.status])]

AdoptionInit ==
    \E n \in 0 .. MaxOld : \E old \in [1 .. n -> OldPapers] :
        LET db == FoldLeft(UpgradeLegacyDocument, [shelf |-> << >>, papers |-> << >>], old)
        IN  shelf = db.shelf /\ papers = db.papers

-----------------------------------------------------------------------------
(* A submission, in one transaction. *)

\* An alias stands for the source that adopted it.
GetSourceByKey(k) ==
    {IF shelf[s].canonical # 0 THEN shelf[s].canonical ELSE s :
        s \in {r \in DOMAIN shelf : shelf[r].key = k}}

ListLegacySources == {s \in DOMAIN shelf : shelf[s].legacy /\ shelf[s].canonical = 0}

\* Mutation: the document that is taken over becomes the newest.
PlaceLast(d, moved, history) ==
    IF d = moved THEN Cardinality(history) + 1 ELSE Cardinality({e \in history : e <= d})

\* Activation follows creation again, whatever the versions are.
PlaceOf(d, moved, history) == Cardinality({e \in history \cup {moved} : e <= d})

\* The canonical source c takes over the active document p of an alias, if it is newer
\* than its own; its aliases serve nothing any more.  Other documents stay where they are.
AdoptCanonicalSource(c, aliases, p) ==
    LET moves == p # 0 /\ papers[p].source # c
        history == PapersOf(papers, c)
        adopted(d) ==
            IF d = p THEN [papers[d] EXCEPT !.source = c, !.version = NextVersionOf(papers, c)]
            ELSE papers[d]
    IN  [papers |-> [d \in DOMAIN papers |->
                        IF moves /\ d \in history \cup {p}
                        THEN [adopted(d) EXCEPT !.order = PlaceOf(d, p, history)]
                        ELSE papers[d]],
         shelf |-> [s \in DOMAIN shelf |->
                        CASE s = c ->
                                [shelf[s] EXCEPT !.key = "file", !.legacy = FALSE,
                                    !.active = IF p # 0 THEN p ELSE @,
                                    !.last = IF p # 0 THEN p ELSE @,
                                    !.outcome = IF p # 0 THEN "completed" ELSE @]
                          [] s \in aliases -> [shelf[s] EXCEPT !.canonical = c, !.active = 0]
                          [] OTHER -> shelf[s]]]

\* Served already, being ingested already, or a new version.
SubmitTo(db, s, text) ==
    LET row == db.shelf[s]
        version == NextVersionOf(db.papers, s)
        inFlight == {d \in PapersOf(db.papers, s) :
                        db.papers[d].text = text /\ db.papers[d].status = "pending"}
    IN  IF row.active # 0 /\ db.papers[row.active].text = text
        THEN /\ shelf' = [db.shelf EXCEPT ![s].last = row.active, ![s].outcome = "unchanged"]
             /\ papers' = db.papers
        ELSE IF inFlight # {} THEN shelf' = db.shelf /\ papers' = db.papers
        ELSE /\ Len(db.papers) < MaxPapers
             /\ shelf' = [db.shelf EXCEPT ![s].last = Len(db.papers) + 1, ![s].outcome = "pending"]
             /\ papers' = Append(db.papers, [source |-> s, text |-> text, version |-> version,
                                             order |-> version, status |-> "pending"])

\* The API: by the path, or by a bare name.
SubmitByApi(k, text) ==
    LET known == GetSourceByKey(k)
        rows == IF known # {} THEN shelf ELSE Append(shelf, CreateSource(k))
    IN  \E s \in IF known # {} THEN known ELSE {Len(rows)} :
            SubmitTo([shelf |-> rows, papers |-> papers], s, text)

\* The command line: the newest document any of the names serves stays served (one
\* without any may be preferred whichever comes first).
SubmitByPath(text) ==
    LET known == GetSourceByKey("file")
        candidates == known \cup ListLegacySources
        newest == {s \in candidates : \A r \in candidates : shelf[r].active <= shelf[s].active}
    IN  IF ListLegacySources = {}
        THEN SubmitByApi("file", text)
        ELSE \E preferred \in newest : \E c \in IF known # {} THEN known ELSE {preferred} :
                SubmitTo(AdoptCanonicalSource(c, ListLegacySources \ {c}, shelf[preferred].active),
                         c, text)

\* A run of the document ends; an alias activates nothing.
RunEnds(d, status) ==
    LET s == papers[d].source
        wins == /\ status = "completed" /\ shelf[s].canonical = 0
                /\ shelf[s].active = 0 \/ papers[shelf[s].active].order < papers[d].order
    IN  /\ papers[d].status = "pending"
        /\ papers' = [papers EXCEPT ![d].status = status]
        /\ shelf' = [r \in DOMAIN shelf |->
                        [shelf[r] EXCEPT !.outcome = IF shelf[r].last = d THEN status ELSE @,
                                         !.active = IF r = s /\ wins THEN d ELSE @]]

AdoptionNext ==
    \/ \E text \in Texts : SubmitByPath(text) \/ \E k \in Keys : SubmitByApi(k, text)
    \/ \E d \in DOMAIN papers, status \in {"completed", "failed"} : RunEnds(d, status)

AdoptionSpec == AdoptionInit /\ [][AdoptionNext]_adoptionVars

-----------------------------------------------------------------------------
(* Property. *)

\* Under whatever names a file came in, and whichever runs end after its sources were
\* put together: an alias serves nothing, any other source serves the newest document it
\* owns that is completed, only one source has the file's own identity, and no version
\* is given twice (adoptCanonicalSource, activate; the unique indexes on sources and
\* documents would refuse the submission).
ServedIsNewest ==
    /\ \A s \in DOMAIN shelf :
        IF shelf[s].canonical # 0
        THEN shelf[s].active = 0 /\ shelf[shelf[s].canonical].canonical = 0
        ELSE shelf[s].active =
                Max({0} \cup {d \in PapersOf(papers, s) : papers[d].status = "completed"})
    /\ \A s, r \in DOMAIN shelf : shelf[s].key = shelf[r].key => s = r
    /\ \A d, e \in DOMAIN papers :
        papers[d].source = papers[e].source /\ papers[d].version = papers[e].version => d = e
=============================================================================
