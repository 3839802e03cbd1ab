----------------------------- MODULE MCEventLoop -----------------------------
(***************************************************************************)
(* Instances of EventLoop for TLC: the Discord key (catches up, text and   *)
(* voice) beside the web key (voice, no catch-up); "cli" has no session     *)
(* here, so its events take the fallback to Discord.                       *)
(***************************************************************************)
EXTENDS EventLoop
MCSource == {"discord", "web", "cli"}
MCSession == {"discord", "web"}
=============================================================================
