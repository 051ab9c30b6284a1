-------------------------- MODULE MCIngestionQueue --------------------------
(* Small instances of IngestionQueue for TLC. *)
EXTENDS IngestionQueue

CONSTANTS w1, c1

OneWorker == {w1}
OneCli == {c1}

Ladder2 == <<1, 2>>
=============================================================================
