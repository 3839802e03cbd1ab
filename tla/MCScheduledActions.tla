-------------------------- MODULE MCScheduledActions --------------------------
(***************************************************************************)
(* Instances of ScheduledActions for TLC.                                  *)
(***************************************************************************)
EXTENDS ScheduledActions
CONSTANTS greeting, reminder
One == {greeting}
Two == {greeting, reminder}
=============================================================================
