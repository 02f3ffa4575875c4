----------------------------- MODULE MCPollTask -----------------------------
(* The poll task with a bounded number of things happening to it. *)
EXTENDS PollTask
=============================================================================
