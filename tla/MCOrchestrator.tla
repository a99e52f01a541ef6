--------------------------- MODULE MCOrchestrator ---------------------------
(* Model values for TLC: the kinds of events that carry a text of the user, *)
(* the command or the agent, which may outgrow the 8 KiB of the writer.     *)
EXTENDS Orchestrator
LargeKinds == {"created", "decision", "requested", "resolved", "error", "log"}
=============================================================================
