--------------------------- MODULE MCAgentStreams ---------------------------
(* AgentStreams with one agent that dials once or twice.                   *)
EXTENDS AgentStreams, TLC

CONSTANTS a1, c1, c2, status, scan

TwoStreams == c1 :> a1 @@ c2 :> a1
=============================================================================
