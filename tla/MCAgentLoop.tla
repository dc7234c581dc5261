----------------------------- MODULE MCAgentLoop -----------------------------
(* Instances of AgentLoop for TLC.                                          *)
EXTENDS AgentLoop

MCExtras == <<[role |-> "custom"]>>
NoExtras == <<>>
=============================================================================
