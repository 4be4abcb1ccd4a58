-------------------------- MODULE MCAgentLifecycle --------------------------
(* A window with two concurrent callers, and processes that it or a        *)
(* registered service starts, for two homes.                               *)
EXTENDS AgentLifecycle

CONSTANTS w1, h1

MCWindowOf(k) == w1

=============================================================================
