---------------------------- MODULE AgentStreams ----------------------------
(***************************************************************************)
(* The server's agent streams: ConnectStream handlers, the registry        *)
(* (Server.agents), the connected_agents list in Valkey, the queue         *)
(* processor that forwards commands, the pendingCommands correlation and   *)
(* the responses it stores; with the agent's receive loop at the other     *)
(* end of each stream.  Authentication is AgentAuth's subject: here the    *)
(* handler is admitted or rejected.                                        *)
(***************************************************************************)
EXTENDS Naturals, Sequences

CONSTANTS
    Agents,        \* agent identifiers
    Conns,         \* stream attempts, over the whole run
    Owner,         \* the agent that dials each stream
    Cmds,          \* command strings
    StatusCmd,     \* "internal:status", the welcome command
    MaxRequests,   \* bound: commands taken from the agent queue
    Beating,       \* bound: agents whose heartbeat period elapses
    NoConn

ASSUME StreamsAssumption ==
    /\ Owner \in [Conns -> Agents]
    /\ StatusCmd \in Cmds
    /\ MaxRequests \in Nat
    /\ Beating \subseteq Agents
    /\ NoConn \notin Conns

VARIABLES
    conn,        \* the transport of each stream, as its two ends see it
    up,          \* messages from the agent the handler has not received
    down,        \* messages to the agent it has not received
    hpc,         \* where each ConnectStream handler is
    snap,        \* a handler's copy of the registry, read but not yet SET
    ackTo,       \* the stream a handler looked up for its acknowledgment
    agents,      \* Server.agents
    connected,   \* the connected_agents key ({} when absent)
    disp,        \* the queue processor: its place and the stream it looked up
    request,     \* the execute commands taken from the queue, in order
    pending,     \* Server.pendingCommands (0: no entry)
    responses    \* the response store

streamVars   == <<conn, up, down>>
registryVars == <<agents, connected, snap>>
commandVars  == <<disp, request, pending, responses>>
vars == <<streamVars, hpc, ackTo, registryVars, commandVars>>

-----------------------------------------------------------------------------
Requests == 1..MaxRequests     \* a request's number stands for target:timestamp
NoId == 0

Heartbeat == [kind |-> "heartbeat"]
\* ofId is a ghost: the ServerMessage.Id whose command this result answers.
\* CommandResult carries only the command string.
Result(m, id) == [kind |-> "result", cmd |-> m, ofId |-> id]
Command(m, id) == [kind |-> "command", cmd |-> m, id |-> id]
Ack == [kind |-> "ack"]

RequestType == [agent : Agents, cmd : Cmds, reply : {"refused", "accepted"}]

UpMessages == {Heartbeat} \cup
    [kind : {"result"}, cmd : Cmds, ofId : Requests \cup {NoId}]
DownMessages == {Ack} \cup
    [kind : {"command"}, cmd : Cmds, id : Requests \cup {NoId}]

SyncAt  == {"regSnap", "beatSnap", "outSnap"}
PublishAt == [regSnap |-> "regPub", beatSnap |-> "beatPub", outSnap |-> "outPub"]
AfterPublish == [regPub |-> "welcome", beatPub |-> "recv", outPub |-> "returned"]

\* The handler is between its registration and its deferred cleanup.
Serving == {"regSnap", "regPub", "welcome", "recv", "beatSnap", "beatPub",
            "ackFind", "ackSend", "cleanup"}
HandlerPCs == Serving \cup {"none", "hello", "register", "outSnap", "outPub", "returned"}

Live(c) == conn[c] \in {"dialing", "open"}
Registered == {a \in Agents : agents[a] # NoConn}

Init ==
    /\ conn = [c \in Conns |-> "idle"]
    /\ up = [c \in Conns |-> << >>]
    /\ down = [c \in Conns |-> << >>]
    /\ hpc = [c \in Conns |-> "none"]
    /\ snap = [c \in Conns |-> {}]
    /\ ackTo = [c \in Conns |-> NoConn]
    /\ agents = [a \in Agents |-> NoConn]
    /\ connected = {}
    /\ disp = [pc |-> "idle", to |-> NoConn]
    /\ request = << >>
    /\ pending = [a \in Agents |-> [m \in Cmds |-> NoId]]
    /\ responses = {}

-----------------------------------------------------------------------------
(* The agent and the network.                                              *)

\* The agent opens its stream and sends the authenticated heartbeat; one
\* stream at a time.
Dial(c) ==
    /\ conn[c] = "idle"
    /\ \A d \in Conns : Owner[d] = Owner[c] => ~Live(d)
    /\ conn' = [conn EXCEPT ![c] = "dialing"]
    /\ hpc' = [hpc EXCEPT ![c] = "hello"]
    /\ UNCHANGED <<up, down, ackTo, registryVars, commandVars>>

\* The command string a result names.  Mutant: the internal command it was
\* dispatched to, not the string received.
DispatchedName(m) == StatusCmd
Reported(m) == m.cmd

\* One turn of the receive loop: a command is executed and its result sent.
\* The first message, whatever it is, is taken for the welcome and ends the
\* dialing phase.
AgentReceive(c) ==
    /\ Live(c)
    /\ down[c] # << >>
    /\ LET m == Head(down[c]) IN
         up' = IF m.kind = "command"
                 THEN [up EXCEPT ![c] = Append(@, Result(Reported(m), m.id))]
                 ELSE up
    /\ down' = [down EXCEPT ![c] = Tail(@)]
    /\ conn' = [conn EXCEPT ![c] = "open"]
    /\ UNCHANGED <<hpc, ackTo, registryVars, commandVars>>

\* The heartbeat ticker; at most one heartbeat waits in a stream.
AgentHeartbeat(c) ==
    /\ conn[c] = "open"
    /\ Owner[c] \in Beating
    /\ up[c] = << >>
    /\ up' = [up EXCEPT ![c] = <<Heartbeat>>]
    /\ UNCHANGED <<conn, down, hpc, ackTo, registryVars, commandVars>>

\* The agent exits, reconnects or loses its network: what it had sent may
\* still arrive, what was sent to it is lost, and the server does not know.
Lose(c) ==
    /\ Live(c)
    /\ conn' = [conn EXCEPT ![c] = "gone"]
    /\ down' = [down EXCEPT ![c] = << >>]
    /\ UNCHANGED <<up, hpc, ackTo, registryVars, commandVars>>

\* The server's transport learns of it: from now Send and Recv fail.
Notice(c) ==
    /\ conn[c] = "gone"
    /\ conn' = [conn EXCEPT ![c] = "closed"]
    /\ UNCHANGED <<up, down, hpc, ackTo, registryVars, commandVars>>

\* The 120 s expiry of connected_agents, which only comes when no heartbeat
\* refreshes the key.
Expire ==
    /\ connected # {}
    /\ \A c \in Conns : ~Live(c) /\ hpc[c] \notin SyncAt \cup DOMAIN AfterPublish
    /\ connected' = {}
    /\ UNCHANGED <<streamVars, hpc, ackTo, agents, snap, commandVars>>

\* stream.Send: fails on a closed transport, is lost on one whose peer is gone.
SendOk(s) == conn[s] # "closed"
Sent(s, m) == IF Live(s) THEN [down EXCEPT ![s] = Append(@, m)] ELSE down

-----------------------------------------------------------------------------
(* The ConnectStream handler of stream c.                                  *)

\* Rejected before registration (no ID, no token, bad token), or the first
\* Recv fails: the handler returns with no cleanup to run.
Reject(c) ==
    /\ hpc[c] = "hello"
    /\ hpc' = [hpc EXCEPT ![c] = "returned"]
    /\ conn' = [conn EXCEPT ![c] = "closed"]
    /\ down' = [down EXCEPT ![c] = << >>]
    /\ UNCHANGED <<up, ackTo, registryVars, commandVars>>

Admit(c) ==
    /\ hpc[c] = "hello"
    /\ hpc' = [hpc EXCEPT ![c] = "register"]
    /\ UNCHANGED <<streamVars, ackTo, registryVars, commandVars>>

Register(c) ==
    /\ hpc[c] = "register"
    /\ agents' = [agents EXCEPT ![Owner[c]] = c]
    /\ hpc' = [hpc EXCEPT ![c] = "regSnap"]
    /\ UNCHANGED <<streamVars, ackTo, connected, snap, commandVars>>

\* syncConnectedAgentsToValKey reads the registry under RLock ...
SyncSnapshot(c) ==
    /\ hpc[c] \in SyncAt
    /\ snap' = [snap EXCEPT ![c] = Registered]
    /\ hpc' = [hpc EXCEPT ![c] = PublishAt[@]]
    /\ UNCHANGED <<streamVars, ackTo, agents, connected, commandVars>>

\* ... and SETs the key after releasing it.  After the deferred call the
\* handler returns and its stream ends.
SyncPublish(c) ==
    /\ hpc[c] \in DOMAIN AfterPublish
    /\ connected' = snap[c]
    /\ snap' = [snap EXCEPT ![c] = {}]
    /\ hpc' = [hpc EXCEPT ![c] = AfterPublish[@]]
    /\ IF hpc[c] = "outPub"
         THEN /\ conn' = [conn EXCEPT ![c] = "closed"]
              /\ down' = [down EXCEPT ![c] = << >>]
              /\ up' = [up EXCEPT ![c] = << >>]
         ELSE UNCHANGED streamVars
    /\ UNCHANGED <<ackTo, agents, commandVars>>

Welcome(c) ==
    /\ hpc[c] = "welcome"
    /\ down' = Sent(c, Command(StatusCmd, NoId))
    /\ hpc' = [hpc EXCEPT ![c] = IF SendOk(c) THEN "recv" ELSE "cleanup"]
    /\ UNCHANGED <<conn, up, ackTo, registryVars, commandVars>>

ReceiveError(c) ==
    /\ hpc[c] = "recv"
    /\ conn[c] = "closed"
    /\ hpc' = [hpc EXCEPT ![c] = "cleanup"]
    /\ UNCHANGED <<streamVars, ackTo, registryVars, commandVars>>

\* Mutant: a heartbeat does not refresh the list.
HandleHeartbeatNoSync(c) == UNCHANGED hpc

\* handleHeartbeat: the TTL of the list is refreshed by a full sync.
HandleHeartbeat(c) == hpc' = [hpc EXCEPT ![c] = "beatSnap"]

ReceiveHeartbeat(c) ==
    /\ hpc[c] = "recv"
    /\ up[c] # << >> /\ Head(up[c]).kind = "heartbeat"
    /\ up' = [up EXCEPT ![c] = Tail(@)]
    /\ HandleHeartbeat(c)
    /\ UNCHANGED <<conn, down, ackTo, registryVars, commandVars>>

\* The pending entry for agent:command, and the map without it.
\* Mutants: looked up by agent only; never deleted.
WaitingByAgent(a, m) ==
    IF \E k \in Cmds : pending[a][k] # NoId
      THEN pending[a][CHOOSE k \in Cmds : pending[a][k] # NoId]
      ELSE NoId
Waiting(a, m) == pending[a][m]
WithoutDeleting(a, m) == pending
WithoutPending(a, m) == [pending EXCEPT ![a][m] = NoId]

\* handleCommandResult: the entry, if any, is removed and names the key the
\* response is stored under; the store may fail.
ReceiveResult(c) ==
    /\ hpc[c] = "recv"
    /\ up[c] # << >> /\ Head(up[c]).kind = "result"
    /\ LET a  == Owner[c]
           m  == Head(up[c])
           id == Waiting(a, m.cmd)
       IN /\ pending' = WithoutPending(a, m.cmd)
          /\ \/ /\ id # NoId
                /\ responses' = {r \in responses : r.id # id} \cup
                     {[id |-> id, agent |-> a, cmd |-> m.cmd, ofId |-> m.ofId]}
             \/ UNCHANGED responses
    /\ up' = [up EXCEPT ![c] = Tail(@)]
    /\ hpc' = [hpc EXCEPT ![c] = "ackFind"]
    /\ UNCHANGED <<conn, down, ackTo, registryVars, disp, request>>

AckFound(c) == agents[Owner[c]] # NoConn

\* sendCommandAcknowledgment: whichever stream is registered gets the ack.
AckLookup(c) ==
    /\ hpc[c] = "ackFind"
    /\ ackTo' = [ackTo EXCEPT ![c] = agents[Owner[c]]]
    /\ hpc' = [hpc EXCEPT ![c] = IF AckFound(c) THEN "ackSend" ELSE "recv"]
    /\ UNCHANGED <<streamVars, registryVars, commandVars>>

AckSend(c) ==
    /\ hpc[c] = "ackSend"
    /\ down' = Sent(ackTo[c], Ack)
    /\ ackTo' = [ackTo EXCEPT ![c] = NoConn]
    /\ hpc' = [hpc EXCEPT ![c] = "recv"]
    /\ UNCHANGED <<conn, up, registryVars, commandVars>>

\* Mutant: the comparison is the wrong way round.
KeepOwn(c) == IF agents[Owner[c]] = c THEN c ELSE NoConn
RemoveOwn(c) == IF agents[Owner[c]] = c THEN NoConn ELSE agents[Owner[c]]

\* The deferred function: the registration goes only if it is this stream's.
Cleanup(c) ==
    /\ hpc[c] = "cleanup"
    /\ agents' = [agents EXCEPT ![Owner[c]] = RemoveOwn(c)]
    /\ hpc' = [hpc EXCEPT ![c] = "outSnap"]
    /\ UNCHANGED <<streamVars, ackTo, connected, snap, commandVars>>

-----------------------------------------------------------------------------
(* The queue processor: handleExecuteCommand for the request it took.      *)

Current == request[Len(request)]     \* the request being handled
CurrentId == Len(request)

AfterLookup(a) ==
    IF agents[a] = NoConn THEN disp ELSE [pc |-> "mark", to |-> agents[a]]

\* Lookup and reply to the front end: refused when the agent has no stream.
TakeRequest(a, m) ==
    /\ disp.pc = "idle"
    /\ Len(request) < MaxRequests
    /\ request' = Append(request,
         [agent |-> a, cmd |-> m,
          reply |-> IF agents[a] = NoConn THEN "refused" ELSE "accepted"])
    /\ disp' = AfterLookup(a)
    /\ UNCHANGED <<streamVars, hpc, ackTo, registryVars, pending, responses>>

MarkPending ==
    /\ disp.pc = "mark"
    /\ pending' = [pending EXCEPT ![Current.agent][Current.cmd] = CurrentId]
    /\ disp' = [pc |-> "send", to |-> disp.to]
    /\ UNCHANGED <<streamVars, hpc, ackTo, registryVars, request, responses>>

Forward ==
    /\ disp.pc = "send"
    /\ down' = Sent(disp.to, Command(Current.cmd, CurrentId))
    /\ disp' = IF SendOk(disp.to) THEN [pc |-> "idle", to |-> NoConn]
                                  ELSE [pc |-> "unmark", to |-> disp.to]
    /\ UNCHANGED <<conn, up, hpc, ackTo, registryVars, request, pending, responses>>

UnmarkPending ==
    /\ disp.pc = "unmark"
    /\ pending' = WithoutPending(Current.agent, Current.cmd)
    /\ disp' = [pc |-> "drop", to |-> disp.to]
    /\ UNCHANGED <<streamVars, hpc, ackTo, registryVars, request, responses>>

\* delete(s.agents, targetAgentID), whichever stream is registered by now.
DropAgent ==
    /\ disp.pc = "drop"
    /\ agents' = [agents EXCEPT ![Current.agent] = NoConn]
    /\ disp' = [pc |-> "idle", to |-> NoConn]
    /\ UNCHANGED <<streamVars, hpc, ackTo, connected, snap, request, pending, responses>>

-----------------------------------------------------------------------------
Environment(c) == Dial(c) \/ Lose(c) \/ Notice(c)
Agent(c) == AgentReceive(c) \/ AgentHeartbeat(c)
Handler(c) ==
    \/ Reject(c) \/ Admit(c) \/ Register(c) \/ SyncSnapshot(c) \/ SyncPublish(c)
    \/ Welcome(c) \/ ReceiveError(c) \/ ReceiveHeartbeat(c) \/ ReceiveResult(c)
    \/ AckLookup(c) \/ AckSend(c) \/ Cleanup(c)
QueueProcessor == MarkPending \/ Forward \/ UnmarkPending \/ DropAgent

\* Every stream attempt is over and the queue is exhausted.
Exhausted ==
    /\ \A c \in Conns : hpc[c] = "returned"
    /\ disp.pc = "idle" /\ Len(request) = MaxRequests
    /\ UNCHANGED vars

Next ==
    \/ \E c \in Conns : Environment(c) \/ Agent(c) \/ Handler(c)
    \/ \E a \in Agents, m \in Cmds : TakeRequest(a, m)
    \/ QueueProcessor
    \/ Expire
    \/ Exhausted

Spec == Init /\ [][Next]_vars

\* Goroutines are scheduled, agents run their loops, and a lost peer is
\* noticed by the transport; dialing, losing a peer and new requests are not
\* promised.
Fairness ==
    /\ \A c \in Conns : WF_vars(Handler(c)) /\ WF_vars(Agent(c)) /\ WF_vars(Notice(c))
    /\ WF_vars(QueueProcessor)
    /\ WF_vars(Expire)

FairSpec == Spec /\ Fairness

-----------------------------------------------------------------------------
(* Correctness.                                                            *)

StreamTypeOK ==
    /\ conn \in [Conns -> {"idle", "dialing", "open", "gone", "closed"}]
    /\ up \in [Conns -> Seq(UpMessages)]
    /\ down \in [Conns -> Seq(DownMessages)]
HandlerTypeOK ==
    /\ hpc \in [Conns -> HandlerPCs]
    /\ ackTo \in [Conns -> Conns \cup {NoConn}]
    /\ \A c \in Conns : hpc[c] = "ackSend" => ackTo[c] # NoConn
RegistryTypeOK ==
    /\ agents \in [Agents -> Conns \cup {NoConn}]
    /\ connected \subseteq Agents
    /\ snap \in [Conns -> SUBSET Agents]
CommandTypeOK ==
    /\ disp \in [pc : {"idle", "mark", "send", "unmark", "drop"}, to : Conns \cup {NoConn}]
    /\ disp.pc # "idle" => disp.to # NoConn /\ Len(request) > 0
    /\ request \in Seq(RequestType)
    /\ Len(request) <= MaxRequests
    /\ pending \in [Agents -> [Cmds -> Requests \cup {NoId}]]
    /\ responses \subseteq [id : Requests, agent : Agents, cmd : Cmds, ofId : Requests \cup {NoId}]

\* Every variable stays in its domain, and a goroutine that is about to Send
\* has a stream to send on (Server struct, server.go:89).
TypeOK == StreamTypeOK /\ HandlerTypeOK /\ RegistryTypeOK /\ CommandTypeOK

\* ConnectStream registers, replaces and cleans up so that a registered
\* stream belongs to its agent and its handler has not returned, whatever
\* the order of reconnections and of the queue processor's removals.
RegisteredIsServed ==
    \A a \in Agents : agents[a] # NoConn =>
        Owner[agents[a]] = a /\ hpc[agents[a]] \in Serving

\* A stream that was never dialed has no handler.
UndialedUnhandled == \A c \in Conns : conn[c] = "idle" => hpc[c] = "none"

\* An entry of pendingCommands is for an accepted request of that agent and
\* that command which has no response yet: an answered request is never
\* waited for again (handleCommandResult, handleExecuteCommand).
PendingIsUnanswered ==
    \A a \in Agents, m \in Cmds :
        LET id == pending[a][m] IN
        id # NoId =>
            /\ id \in DOMAIN request
            /\ request[id] = [agent |-> a, cmd |-> m, reply |-> "accepted"]
            /\ \A r \in responses : r.id # id

\* A response is stored for the agent and the command of the request whose
\* identifier it carries, and only if that request was accepted.
ResponsesMatchRequests ==
    \A r \in responses :
        /\ r.id \in DOMAIN request
        /\ request[r.id] = [agent |-> r.agent, cmd |-> r.cmd, reply |-> "accepted"]

\* What a response stores was produced by executing, on that agent, that
\* command: sent for an accepted request or as the welcome.
ResponsesWereExecuted ==
    \A r \in responses :
        IF r.ofId = NoId
          THEN r.cmd = StatusCmd
          ELSE /\ r.ofId \in DOMAIN request
               /\ request[r.ofId] = [agent |-> r.agent, cmd |-> r.cmd, reply |-> "accepted"]

\* The queue processor works on an accepted request, and until it has stored
\* the pending entry nothing else refers to that request.
DispatchIsFresh ==
    /\ disp.pc # "idle" => Current.reply = "accepted"
    /\ disp.pc = "mark" =>
         /\ \A a \in Agents, m \in Cmds : pending[a][m] # CurrentId
         /\ \A r \in responses : r.id # CurrentId

\* A pending entry, a stored response and the request being dispatched each
\* refer to one accepted request, and an answered request is never waited for
\* again: the inductive invariant of the command path.
CommandInv == PendingIsUnanswered /\ ResponsesMatchRequests /\ DispatchIsFresh

\* A stored response is never replaced or removed: late and repeated results
\* of the same command find no entry.
ResponsesOnlyGrow == [][responses \subseteq responses']_vars

\* The server implements the service the front end relies on.
Service == INSTANCE CommandService WITH
    answers <- {[id |-> r.id, agent |-> r.agent, cmd |-> r.cmd] : r \in responses}
ImplementsService == Service!Spec

\* A stream whose transport failed does not stay registered for ever: its
\* handler's deferred cleanup comes, even if it registers late.
DeadStreamForgotten ==
    \A c \in Conns : [](conn[c] = "closed" => <>[](agents[Owner[c]] # c))

\* Once the registry stays the same and its streams are alive and beating,
\* the connected_agents list settles on it: a stale SET of a concurrent
\* handler is repaired by heartbeats or by the expiry of the key.
ListConverges ==
    \A R \in SUBSET Agents :
        <>[](Registered = R /\ \A a \in R : conn[agents[a]] = "open")
            => <>[](connected = R)
=============================================================================
