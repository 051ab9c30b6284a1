---------------------------- MODULE JobContract ----------------------------
(***************************************************************************)
(* What the ingestion queue promises about each submitted document, with   *)
(* no processes, claims, clocks or crashes: it is tried a bounded number   *)
(* of times, it ends in one outcome, and it is parked as a dead letter     *)
(* exactly when every try was spent.                                       *)
(***************************************************************************)
EXTENDS Naturals

CONSTANTS Jobs, Budget     \* Budget: tries that may fail before the last one

VARIABLES outcome, spent, parked

jobVars == <<outcome, spent, parked>>

Init ==
    /\ outcome = [j \in Jobs |-> "absent"]
    /\ spent = [j \in Jobs |-> 0]
    /\ parked = {}

Accept(j) ==
    /\ outcome[j] = "absent"
    /\ outcome' = [outcome EXCEPT ![j] = "pending"]
    /\ UNCHANGED <<spent, parked>>

\* A try fails and another one is left.
Spend(j) ==
    /\ outcome[j] = "pending"
    /\ spent[j] < Budget
    /\ spent' = [spent EXCEPT ![j] = spent[j] + 1]
    /\ UNCHANGED <<outcome, parked>>

\* The last try fails.
Park(j) ==
    /\ outcome[j] = "pending"
    /\ spent[j] = Budget
    /\ spent' = [spent EXCEPT ![j] = spent[j] + 1]
    /\ outcome' = [outcome EXCEPT ![j] = "failed"]
    /\ parked' = parked \cup {j}

\* A try fails in a way that is not worth repeating.
Abandon(j) ==
    /\ outcome[j] = "pending"
    /\ spent' = [spent EXCEPT ![j] = spent[j] + 1]
    /\ outcome' = [outcome EXCEPT ![j] = "failed"]
    /\ UNCHANGED parked

Settle(j) ==
    /\ outcome[j] = "pending"
    /\ \E o \in {"completed", "cancelled"} : outcome' = [outcome EXCEPT ![j] = o]
    /\ UNCHANGED <<spent, parked>>

Next == \E j \in Jobs : Accept(j) \/ Spend(j) \/ Park(j) \/ Abandon(j) \/ Settle(j)

Spec == Init /\ [][Next]_jobVars
=============================================================================
