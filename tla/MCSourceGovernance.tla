------------------------- MODULE MCSourceGovernance -------------------------
(* Small instances of SourceGovernance for TLC. *)
EXTENDS SourceGovernance

CONSTANTS s1, h1, h2

OneSource == {s1}
TwoHashes == {h1, h2}
OneHash == {h1}

BothModes == {"auto", "review"}
AutoMode == {"auto"}
ReviewMode == {"review"}
=============================================================================
