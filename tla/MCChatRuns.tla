---------------------------- MODULE MCChatRuns ----------------------------
(* Small instances of ChatRuns for TLC. *)
EXTENDS ChatRuns

CONSTANTS r1, r2, i1, i2

TwoRuns == {r1, r2}
TwoIds == {i1, i2}
=============================================================================
