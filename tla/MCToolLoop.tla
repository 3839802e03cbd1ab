------------------------------ MODULE MCToolLoop ------------------------------
(***************************************************************************)
(* Instances of ToolLoop for TLC.                                          *)
(***************************************************************************)
EXTENDS ToolLoop
CONSTANTS hello, bye, hush, nothing
OneWord == {hello}
Words == {hello, bye, hush}
Hush == {hush}
NoWords == {}
Alike == {<<t, t>> : t \in Text}
=============================================================================
