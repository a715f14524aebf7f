-------------------------- MODULE MCAgentBroadcast --------------------------
(* AgentBroadcast with two agents, a stream handler for each and two        *)
(* consumers that broadcast.                                                *)
EXTENDS AgentBroadcast, TLC

CONSTANTS a1, a2, h1, h2, jobs, events

OneEach == h1 :> a1 @@ h2 :> a2
=============================================================================
