----------------------------- MODULE MCVoiceTurn -----------------------------
(***************************************************************************)
(* Instances of VoiceTurn for TLC.                                         *)
(***************************************************************************)
EXTENDS VoiceTurn
ByVoice == {"voice"}
OnTheWeb == {"web"}
=============================================================================
