---------------------------- MODULE MCAgentAuth ----------------------------
(* AgentAuth with two machines of the same name: m1 dials first and again,  *)
(* m2 once.                                                                 *)
EXTENDS AgentAuth, TLC

CONSTANTS m1, m2, c1, c2, c3

Dialers == c1 :> m1 @@ c2 :> m1 @@ c3 :> m2
=============================================================================
