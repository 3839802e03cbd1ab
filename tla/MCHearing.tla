------------------------------ MODULE MCHearing ------------------------------
(***************************************************************************)
(* An instance of Hearing for TLC.  The limits keep the order of those in  *)
(* the code: on Discord a silence of 800 ms, at least 300 ms; for the hub  *)
(* a silence of 1 s, at least 2 s, at most 10 s.                           *)
(***************************************************************************)
EXTENDS Hearing
CONSTANTS ann, bob, browser, device, esp
Detectors == [discord |-> [silence |-> 2, min |-> 1, max |-> 0],
              hub     |-> [silence |-> 1, min |-> 2, max |-> 3]]
=============================================================================
