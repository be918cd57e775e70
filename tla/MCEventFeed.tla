----------------------------- MODULE MCEventFeed -----------------------------
(* EventFeed for TLC: blocks with several logs, and calls that fail.       *)
EXTENDS EventFeed
=============================================================================
