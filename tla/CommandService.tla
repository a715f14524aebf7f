--------------------------- MODULE CommandService ---------------------------
(***************************************************************************)
(* What the server promises the front end about execute commands: each is  *)
(* refused or accepted when it is taken, and an accepted one is answered   *)
(* at most once, under its own identifier, with the agent and the command  *)
(* it named.                                                               *)
(***************************************************************************)
EXTENDS Naturals, Sequences

CONSTANTS Agents, Cmds, MaxRequests

VARIABLES
    request,     \* the commands taken so far
    answers      \* the responses stored

vars == <<request, answers>>

Init == request = << >> /\ answers = {}

Take(a, m, reply) ==
    /\ Len(request) < MaxRequests
    /\ request' = Append(request, [agent |-> a, cmd |-> m, reply |-> reply])
    /\ UNCHANGED answers

Answer(id) ==
    /\ request[id].reply = "accepted"
    /\ \A r \in answers : r.id # id
    /\ answers' = answers \cup
         {[id |-> id, agent |-> request[id].agent, cmd |-> request[id].cmd]}
    /\ UNCHANGED request

Next ==
    \/ \E a \in Agents, m \in Cmds, reply \in {"refused", "accepted"} : Take(a, m, reply)
    \/ \E id \in DOMAIN request : Answer(id)

Spec == Init /\ [][Next]_vars
=============================================================================
