------------------------------ MODULE MCSources ------------------------------
(* The rows of the sources under their two kinds of pressure, one at a time:   *)
(* reviews and retirements of one source (SourceGovernance), several names of  *)
(* one file (SourceAdoption).  A run explores the sum of their states.         *)
EXTENDS MCSourceGovernance, SourceAdoption

VARIABLE pressure

sourcesVars == <<pressure, govVars, adoptionVars>>

SourcesInit ==
    /\ pressure \in {"governance", "names"}
    /\ Init /\ (pressure # "governance" => mode = "auto")
    /\ AdoptionInit /\ (pressure # "names" => papers = << >>)

\* No file need come in again.
SourcesNext ==
    /\ UNCHANGED pressure
    /\ IF pressure = "governance" THEN Next ELSE UNCHANGED govVars
    /\ IF pressure = "names" THEN AdoptionNext \/ UNCHANGED adoptionVars
       ELSE UNCHANGED adoptionVars

SourcesSpec == SourcesInit /\ [][SourcesNext]_sourcesVars /\ GovFairness
=============================================================================
