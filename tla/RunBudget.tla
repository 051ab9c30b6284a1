------------------------------ MODULE RunBudget ------------------------------
(***************************************************************************)
(* The resource budget of one answer run (src/src/runtime/run_context.ts)   *)
(* and the model calls that draw on it through the budgeted client          *)
(* (src/src/runtime/openai_budget_client.ts). Calls overlap; a stream tells *)
(* its usage with its chunks, if at all, and may be left before its end.    *)
(***************************************************************************)
EXTENDS Integers, Sequences, SequencesExt

CONSTANTS
    Budgets,       \* limits of a run: calls, tokens, cost; priced: there is a cost estimate
    Usages,        \* what a provider may report of a call
    MaxFlights     \* calls of one run (bound)

\* A limit that is not set, or a cost that cannot be estimated.
None == -1
Usage(tokens, cost) == [tokens |-> tokens, cost |-> cost]
Open == Usage(-1, -1)
NoUsage == Usage(-2, -1)
Invalid == Usage(-3, -1)
Spent(u) == u.tokens >= 0

ASSUME BudgetAssumption ==
    /\ MaxFlights \in Nat
    /\ \A b \in Budgets : {b.calls, b.tokens, b.cost} \subseteq Nat \cup {None}
    /\ \A u \in Usages : u.tokens \in Nat /\ u.cost \in Nat \cup {None}

VARIABLES
    ledger,        \* the budget of the run
    flights,       \* its calls: plain or stream, asked, open (a stream), settled or dropped
    cut            \* its signal is aborted

budgetVars == <<ledger, flights, cut>>

-----------------------------------------------------------------------------
FreshLedger(b) ==
    [limits |-> b, calls |-> 0, tokens |-> 0, cost |-> 0, settled |-> << >>, failure |-> "none"]

Exceeds(n, limit) == limit # None /\ n > limit

Keeps(l) == [ledger |-> l, threw |-> FALSE]
Throws(l, why) == [ledger |-> [l EXCEPT !.failure = why], threw |-> TRUE]

\* Only the number of calls is looked at before a call.
ReserveModelCall(l) ==
    IF Exceeds(l.calls + 1, l.limits.calls)
    THEN Throws(l, "exceeded")
    ELSE Keeps([l EXCEPT !.calls = @ + 1, !.settled = Append(@, Open)])

\* Usage counts once per reservation, and must be known where tokens or cost are limited.
RecordModelUsage(l, id, u) ==
    LET limited == l.limits.tokens # None \/ l.limits.cost # None
        paid == [l EXCEPT !.settled[id] = u, !.tokens = @ + u.tokens,
                          !.cost = @ + (IF l.limits.priced /\ u.cost # None THEN u.cost ELSE 0)]
    IN  CASE l.settled[id] \notin {Open, u} -> Throws(l, "accounting")
          [] l.settled[id] = u -> Keeps(l)
          [] l.settled[id] = Open /\ u = NoUsage ->
                IF limited THEN Throws(l, "accounting") ELSE Keeps([l EXCEPT !.settled[id] = u])
          [] l.settled[id] = Open /\ u = Invalid -> Throws(l, "accounting")
          [] l.settled[id] = Open /\ Spent(u) ->
                IF l.limits.cost # None /\ ~(l.limits.priced /\ u.cost # None)
                THEN Throws(l, "accounting")
                ELSE IF Exceeds(paid.tokens, l.limits.tokens) \/ Exceeds(paid.cost, l.limits.cost)
                THEN Throws(paid, "exceeded")
                ELSE Keeps(paid)

\* Mutation: a stream that is left early owes no usage.
OwesNothing(l) == FALSE

RequiresUsage(l) == l.limits.tokens # None \/ l.limits.cost # None \/ l.limits.priced

-----------------------------------------------------------------------------
BudgetTypeOK ==
    /\ ledger.limits \in Budgets
    /\ ledger.calls = Len(ledger.settled) /\ ledger.tokens \in Nat /\ ledger.cost \in Nat
    /\ ToSet(ledger.settled) \subseteq Usages \cup {Open, NoUsage}
    /\ ledger.failure \in {"none", "exceeded", "accounting"}
    /\ flights \in Seq([kind : {"plain", "stream"}, heard : Usages \cup {NoUsage, Invalid},
                        at : {"asked", "open", "settled", "dropped"}])
    /\ cut \in BOOLEAN

BudgetInit ==
    /\ \E b \in Budgets : ledger = FreshLedger(b)
    /\ flights = << >>
    /\ cut = FALSE

\* The outcome of a ledger operation: what it throws aborts the run.
Outcome(r) == ledger' = r.ledger /\ cut' = (cut \/ r.threw)

\* An aborted run may still make calls: only its runner looks at the signal.
BeginCall ==
    /\ Len(flights) < MaxFlights
    /\ LET r == ReserveModelCall(ledger)
       IN  /\ Outcome(r)
           /\ \E kind \in {"plain", "stream"} :
                flights' = IF r.threw THEN flights
                           ELSE Append(flights, [kind |-> kind, heard |-> NoUsage, at |-> "asked"])

Streams(id) == flights[id].kind = "stream" /\ flights[id].at = "open"

Lands(id, at) == flights' = [flights EXCEPT ![id].at = at]

ReplyArrives(id) ==
    /\ flights[id].kind = "plain" /\ flights[id].at = "asked"
    /\ \E u \in Usages \cup {NoUsage, Invalid} : Outcome(RecordModelUsage(ledger, id, u))
    /\ Lands(id, "settled")

\* The provider refuses, or the abort reaches the request: nothing is recorded.
CallFails(id) ==
    /\ flights[id].at = "asked"
    /\ Lands(id, "dropped")
    /\ UNCHANGED <<ledger, cut>>

StreamOpens(id) ==
    /\ flights[id].kind = "stream" /\ flights[id].at = "asked"
    /\ Lands(id, "open")
    /\ UNCHANGED <<ledger, cut>>

\* A chunk with usage replaces what earlier chunks said.
Chunk(id) ==
    /\ Streams(id)
    /\ \E u \in Usages \cup {Invalid} : flights' = [flights EXCEPT ![id].heard = u]
    /\ UNCHANGED <<ledger, cut>>

StreamCompletes(id) ==
    /\ Streams(id)
    /\ Outcome(RecordModelUsage(ledger, id, flights[id].heard))
    /\ Lands(id, "settled")

\* The reader leaves the stream, or it breaks: it is settled unless the run is aborted.
StreamLeft(id) ==
    /\ Streams(id)
    /\ IF RequiresUsage(ledger) /\ ~cut
       THEN Outcome(RecordModelUsage(ledger, id, flights[id].heard))
       ELSE UNCHANGED <<ledger, cut>>
    /\ Lands(id, "settled")

CutRun ==
    /\ ~cut
    /\ cut' = TRUE
    /\ UNCHANGED <<ledger, flights>>

BudgetNext ==
    \/ BeginCall \/ CutRun
    \/ \E id \in DOMAIN flights :
        \/ ReplyArrives(id) \/ CallFails(id)
        \/ StreamOpens(id) \/ Chunk(id) \/ StreamCompletes(id) \/ StreamLeft(id)

-----------------------------------------------------------------------------
(* Property. *)

\* A run that goes on is within every limit, and knows the usage of every call it made
\* where a limit depends on it; each usage is counted once, calls that overlap or are
\* left early included (reserveModelCall, recordModelUsage, settleStream).
SpendingIsKnown ==
    /\ ledger.limits.calls # None => ledger.calls <= ledger.limits.calls
    /\ ledger.tokens = FoldLeft(LAMBDA sum, u : IF Spent(u) THEN sum + u.tokens ELSE sum,
                                0, ledger.settled)
    /\ ~cut => /\ ledger.failure = "none"
               /\ ~Exceeds(ledger.tokens, ledger.limits.tokens)
               /\ ~Exceeds(ledger.cost, ledger.limits.cost)
               /\ ledger.limits.tokens # None \/ ledger.limits.cost # None =>
                    \A id \in DOMAIN flights :
                        flights[id].at = "settled" => Spent(ledger.settled[id])
=============================================================================
