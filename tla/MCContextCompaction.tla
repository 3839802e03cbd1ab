------------------------ MODULE MCContextCompaction -------------------------
(***************************************************************************)
(* Instances of ContextCompaction for TLC.  Channels are interchangeable;  *)
(* one is enough where only the order of steps of the worker and of a       *)
(* compaction matters.                                                      *)
(***************************************************************************)
EXTENDS ContextCompaction, TLC
CONSTANTS c1, c2
OneChannel == {c1}
TwoChannels == {c1, c2}
Channels == Permutations(TwoChannels)
=============================================================================
