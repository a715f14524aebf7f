------------------------- MODULE AgentStreamsProofs -------------------------
(***************************************************************************)
(* Theorems about AgentStreams for every set of agents, streams and        *)
(* commands and every number of requests, and about the lock of its        *)
(* registry, AgentBroadcast, for every number of handlers and broadcasts.  *)
(***************************************************************************)
EXTENDS AgentStreams, AgentBroadcast, SequenceTheorems, TLAPS

USE DEF streamVars, registryVars, commandVars

-----------------------------------------------------------------------------
(* Messages and sequences.                                                 *)

\* A result message carries a command and the identifier it answers.
LEMMA ResultFields ==
    ASSUME NEW m \in UpMessages, m.kind = "result"
    PROVE  m.cmd \in Cmds /\ m.ofId \in Requests \cup {NoId}
BY DEF UpMessages, Heartbeat

\* A command message carries a command and its ServerMessage.Id.
LEMMA CommandFields ==
    ASSUME NEW m \in DownMessages, m.kind = "command"
    PROVE  m.cmd \in Cmds /\ m.id \in Requests \cup {NoId}
BY DEF DownMessages, Ack

\* Sending on a stream keeps the queues of messages to agents well typed.
LEMMA SentType ==
    ASSUME down \in [Conns -> Seq(DownMessages)],
           NEW s \in Conns, NEW m \in DownMessages
    PROVE  Sent(s, m) \in [Conns -> Seq(DownMessages)]
BY DEF Sent

-----------------------------------------------------------------------------
(* Type correctness.                                                       *)

\* The initial state is well typed (NewServer).
LEMMA InitType == Init => TypeOK
BY StreamsAssumption
   DEF Init, TypeOK, StreamTypeOK, HandlerTypeOK, RegistryTypeOK, CommandTypeOK,
       HandlerPCs, Serving, Requests, NoId

\* While the queue processor works on a request, that request is well typed.
LEMMA CurrentType ==
    ASSUME CommandTypeOK, disp.pc # "idle"
    PROVE  /\ CurrentId \in Requests
           /\ CurrentId \in DOMAIN request
           /\ Current \in RequestType
           /\ Current.agent \in Agents
           /\ Current.cmd \in Cmds
<1>1. Len(request) \in Nat /\ Len(request) > 0 /\ DOMAIN request = 1..Len(request)
    BY DEF CommandTypeOK
<1>2. Len(request) \in Requests /\ Len(request) \in DOMAIN request
    BY <1>1, StreamsAssumption DEF CommandTypeOK, Requests
<1>3. request[Len(request)] \in RequestType
    BY <1>1, <1>2 DEF CommandTypeOK
<1>4. QED
    BY <1>2, <1>3 DEF CurrentId, Current, RequestType

\* The steps of agents and network keep the messages well typed.
LEMMA OutsideType ==
    ASSUME TypeOK, NEW c \in Conns, Environment(c) \/ Agent(c)
    PROVE  TypeOK'
<1> USE StreamsAssumption DEF TypeOK
<1>1. CASE Dial(c)
    BY <1>1 DEF Dial, StreamTypeOK, HandlerTypeOK, RegistryTypeOK, CommandTypeOK, HandlerPCs
<1>2. CASE AgentReceive(c)
    <2>1. Head(down[c]) \in DownMessages /\ Tail(down[c]) \in Seq(DownMessages)
        BY <1>2 DEF StreamTypeOK, AgentReceive
    <2>2. conn' \in [Conns -> {"idle", "dialing", "open", "gone", "closed"}]
          /\ down' \in [Conns -> Seq(DownMessages)]
        BY <1>2, <2>1 DEF StreamTypeOK, AgentReceive
    <2>3. up' \in [Conns -> Seq(UpMessages)]
        <3>1. CASE Head(down[c]).kind = "command"
            <4>1. Result(Reported(Head(down[c])), Head(down[c]).id) \in UpMessages
                BY <2>1, <3>1, CommandFields DEF Result, Reported, UpMessages
            <4>2. QED
                BY <1>2, <3>1, <4>1 DEF StreamTypeOK, AgentReceive
        <3>2. CASE Head(down[c]).kind # "command"
            BY <1>2, <3>2 DEF StreamTypeOK, AgentReceive
        <3>3. QED
            BY <3>1, <3>2
    <2>4. QED
        BY <1>2, <2>2, <2>3
           DEF AgentReceive, StreamTypeOK, HandlerTypeOK, RegistryTypeOK, CommandTypeOK
<1>3. CASE AgentHeartbeat(c)
    BY <1>3 DEF AgentHeartbeat, StreamTypeOK, HandlerTypeOK, RegistryTypeOK, CommandTypeOK,
                UpMessages
<1>4. CASE Lose(c)
    BY <1>4 DEF Lose, StreamTypeOK, HandlerTypeOK, RegistryTypeOK, CommandTypeOK
<1>5. CASE Notice(c)
    BY <1>5 DEF Notice, StreamTypeOK, HandlerTypeOK, RegistryTypeOK, CommandTypeOK
<1>6. QED
    BY <1>1, <1>2, <1>3, <1>4, <1>5 DEF Environment, Agent

\* The steps of a ConnectStream handler keep the state well typed.
LEMMA HandlerType ==
    ASSUME TypeOK, NEW c \in Conns, Handler(c)
    PROVE  TypeOK'
<1> USE StreamsAssumption DEF TypeOK
<1>1. CASE Reject(c)
    BY <1>1 DEF Reject, StreamTypeOK, HandlerTypeOK, RegistryTypeOK, CommandTypeOK, HandlerPCs
<1>2. CASE Admit(c)
    BY <1>2 DEF Admit, StreamTypeOK, HandlerTypeOK, RegistryTypeOK, CommandTypeOK, HandlerPCs
<1>3. CASE Register(c)
    BY <1>3 DEF Register, StreamTypeOK, HandlerTypeOK, RegistryTypeOK, CommandTypeOK,
                HandlerPCs, Serving
<1>4. CASE SyncSnapshot(c)
    <2>1. PublishAt[hpc[c]] \in HandlerPCs \ {"ackSend"}
        BY <1>4 DEF SyncSnapshot, SyncAt, PublishAt, HandlerPCs, Serving
    <2>2. HandlerTypeOK'
        BY <1>4, <2>1 DEF SyncSnapshot, HandlerTypeOK
    <2>3. StreamTypeOK' /\ RegistryTypeOK' /\ CommandTypeOK'
        BY <1>4 DEF SyncSnapshot, StreamTypeOK, RegistryTypeOK, CommandTypeOK, Registered
    <2>4. QED
        BY <2>2, <2>3
<1>5. CASE SyncPublish(c)
    <2> DEFINE n == AfterPublish[hpc[c]]
    <2>1. n \in HandlerPCs /\ n # "ackSend"
        <3>1. hpc[c] \in {"regPub", "beatPub", "outPub"}
            BY <1>5 DEF SyncPublish, AfterPublish
        <3>2. n \in {"welcome", "recv", "returned"}
            BY <3>1 DEF AfterPublish
        <3>3. QED
            BY <3>2 DEF HandlerPCs, Serving
    <2>2. HandlerTypeOK'
        BY <1>5, <2>1 DEF SyncPublish, HandlerTypeOK
    <2>3. StreamTypeOK'
        <3>1. CASE hpc[c] = "outPub"
            <4>1. /\ conn' = [conn EXCEPT ![c] = "closed"]
                  /\ down' = [down EXCEPT ![c] = << >>]
                  /\ up' = [up EXCEPT ![c] = << >>]
                BY <1>5, <3>1 DEF SyncPublish
            <4>2. QED
                BY <4>1 DEF StreamTypeOK
        <3>2. CASE hpc[c] # "outPub"
            BY <1>5, <3>2 DEF SyncPublish, StreamTypeOK
        <3>3. QED
            BY <3>1, <3>2
    <2>4. RegistryTypeOK' /\ CommandTypeOK'
        BY <1>5 DEF SyncPublish, RegistryTypeOK, CommandTypeOK
    <2>5. QED
        BY <2>2, <2>3, <2>4
<1>6. CASE Welcome(c)
    <2>1. Command(StatusCmd, NoId) \in DownMessages
        BY DEF Command, DownMessages
    <2>2. down' \in [Conns -> Seq(DownMessages)]
        BY <1>6, <2>1, SentType DEF StreamTypeOK, Welcome
    <2>3. QED
        BY <1>6, <2>2
           DEF Welcome, StreamTypeOK, HandlerTypeOK, RegistryTypeOK, CommandTypeOK, HandlerPCs, Serving
<1>7. CASE ReceiveError(c)
    BY <1>7 DEF ReceiveError, StreamTypeOK, HandlerTypeOK, RegistryTypeOK, CommandTypeOK,
                HandlerPCs, Serving
<1>8. CASE ReceiveHeartbeat(c)
    <2>1. StreamTypeOK'
        BY <1>8 DEF ReceiveHeartbeat, StreamTypeOK
    <2>2. QED
        BY <1>8, <2>1 DEF ReceiveHeartbeat, HandleHeartbeat, HandlerTypeOK, RegistryTypeOK,
                          CommandTypeOK, HandlerPCs, Serving
<1>9. CASE ReceiveResult(c)
    <2> DEFINE m == Head(up[c])
    <2>1. m \in UpMessages /\ m.kind = "result" /\ Tail(up[c]) \in Seq(UpMessages)
        BY <1>9 DEF StreamTypeOK, ReceiveResult
    <2>2. m.cmd \in Cmds /\ m.ofId \in Requests \cup {NoId}
        BY <2>1, ResultFields
    <2>3. pending[Owner[c]][m.cmd] \in Requests \cup {NoId}
        BY <2>2 DEF CommandTypeOK
    <2>4. pending' \in [Agents -> [Cmds -> Requests \cup {NoId}]]
        BY <1>9, <2>2 DEF CommandTypeOK, ReceiveResult, WithoutPending
    <2>5. responses' \subseteq [id : Requests, agent : Agents, cmd : Cmds, ofId : Requests \cup {NoId}]
        BY <1>9, <2>2, <2>3 DEF CommandTypeOK, ReceiveResult, Waiting
    <2>6. StreamTypeOK'
        BY <1>9, <2>1 DEF ReceiveResult, StreamTypeOK
    <2>7. CommandTypeOK'
        BY <1>9, <2>4, <2>5 DEF ReceiveResult, CommandTypeOK
    <2>8. QED
        BY <1>9, <2>6, <2>7 DEF ReceiveResult, HandlerTypeOK, RegistryTypeOK, HandlerPCs, Serving
<1>10. CASE AckLookup(c)
    BY <1>10 DEF AckLookup, AckFound, StreamTypeOK, HandlerTypeOK, RegistryTypeOK, CommandTypeOK,
                 HandlerPCs, Serving
<1>11. CASE AckSend(c)
    <2>1. ackTo[c] \in Conns /\ Ack \in DownMessages
        BY <1>11 DEF HandlerTypeOK, AckSend, DownMessages
    <2>2. down' \in [Conns -> Seq(DownMessages)]
        BY <1>11, <2>1, SentType DEF StreamTypeOK, AckSend
    <2>3. QED
        BY <1>11, <2>2
           DEF AckSend, StreamTypeOK, HandlerTypeOK, RegistryTypeOK, CommandTypeOK, HandlerPCs, Serving
<1>12. CASE Cleanup(c)
    BY <1>12 DEF Cleanup, RemoveOwn, StreamTypeOK, HandlerTypeOK, RegistryTypeOK, CommandTypeOK,
                 HandlerPCs
<1>13. QED
    BY <1>1, <1>2, <1>3, <1>4, <1>5, <1>6, <1>7, <1>8, <1>9, <1>10, <1>11, <1>12 DEF Handler

\* Taking a request from the queue keeps the state well typed.
LEMMA TakeType ==
    ASSUME TypeOK, NEW a \in Agents, NEW m \in Cmds, TakeRequest(a, m)
    PROVE  TypeOK'
<1> DEFINE r == [agent |-> a, cmd |-> m,
                 reply |-> IF agents[a] = NoConn THEN "refused" ELSE "accepted"]
<1>1. request' = Append(request, r) /\ r \in RequestType
    BY DEF TakeRequest, RequestType
<1>2. request' \in Seq(RequestType) /\ Len(request') = Len(request) + 1
    BY <1>1 DEF TypeOK, CommandTypeOK
<1>3. Len(request') <= MaxRequests /\ Len(request') > 0
    BY <1>2, StreamsAssumption DEF TypeOK, CommandTypeOK, TakeRequest
<1>4. CommandTypeOK'
    BY <1>2, <1>3 DEF TypeOK, CommandTypeOK, RegistryTypeOK, TakeRequest, AfterLookup
<1>5. QED
    BY <1>4 DEF TakeRequest, TypeOK, StreamTypeOK, HandlerTypeOK, RegistryTypeOK

\* Each later step of the queue processor keeps the state well typed.
LEMMA QueueType == TypeOK /\ QueueProcessor => TypeOK'
<1> SUFFICES ASSUME TypeOK, QueueProcessor PROVE TypeOK'
    OBVIOUS
<1> USE DEF TypeOK
<1>1. disp.pc # "idle"
    BY DEF QueueProcessor, MarkPending, Forward, UnmarkPending, DropAgent
<1>2. CurrentId \in Requests /\ Current.agent \in Agents /\ Current.cmd \in Cmds
    BY <1>1, CurrentType
<1>3. CASE MarkPending
    <2>1. pending' \in [Agents -> [Cmds -> Requests \cup {NoId}]]
        BY <1>2, <1>3 DEF CommandTypeOK, MarkPending
    <2>2. QED
        BY <1>3, <2>1 DEF MarkPending, StreamTypeOK, HandlerTypeOK, RegistryTypeOK, CommandTypeOK
<1>4. CASE UnmarkPending
    <2>1. pending' \in [Agents -> [Cmds -> Requests \cup {NoId}]]
        BY <1>2, <1>4 DEF CommandTypeOK, UnmarkPending, WithoutPending
    <2>2. QED
        BY <1>4, <2>1 DEF UnmarkPending, StreamTypeOK, HandlerTypeOK, RegistryTypeOK, CommandTypeOK
<1>5. CASE Forward
    <2>1. disp.to \in Conns /\ Command(Current.cmd, CurrentId) \in DownMessages
        BY <1>1, <1>2 DEF CommandTypeOK, Command, DownMessages
    <2>2. down' \in [Conns -> Seq(DownMessages)]
        BY <1>5, <2>1, SentType DEF StreamTypeOK, Forward
    <2>3. StreamTypeOK' /\ CommandTypeOK'
        BY <1>5, <2>2 DEF Forward, StreamTypeOK, CommandTypeOK
    <2>4. QED
        BY <1>5, <2>3 DEF Forward, HandlerTypeOK, RegistryTypeOK
<1>6. CASE DropAgent
    BY <1>2, <1>6 DEF DropAgent, StreamTypeOK, HandlerTypeOK, RegistryTypeOK, CommandTypeOK
<1>7. QED
    BY <1>3, <1>4, <1>5, <1>6 DEF QueueProcessor

\* Type correctness of the server and its streams.
THEOREM TypeCorrect == Spec => []TypeOK
<1>1. TypeOK /\ [Next]_vars => TypeOK'
    <2> SUFFICES ASSUME TypeOK, [Next]_vars PROVE TypeOK'
        OBVIOUS
    <2>1. CASE Expire
        BY <2>1 DEF Expire, TypeOK, StreamTypeOK, HandlerTypeOK, RegistryTypeOK, CommandTypeOK
    <2>2. CASE UNCHANGED vars
        BY <2>2 DEF vars, TypeOK, StreamTypeOK, HandlerTypeOK, RegistryTypeOK, CommandTypeOK
    <2>3. QED
        BY <2>1, <2>2, OutsideType, HandlerType, TakeType, QueueType DEF Next, Exhausted
<1>2. QED
    BY InitType, <1>1, PTL DEF Spec

-----------------------------------------------------------------------------
(* The registry.                                                           *)

\* The inductive invariant of the registry.
RegistryInv == RegisteredIsServed /\ UndialedUnhandled

\* Every step keeps each registered stream's handler between its
\* registration and its cleanup.
LEMMA RegistryStep == TypeOK /\ RegistryInv /\ [Next]_vars => RegistryInv'
<1> SUFFICES ASSUME TypeOK, RegistryInv, [Next]_vars PROVE RegistryInv'
    OBVIOUS
<1> USE StreamsAssumption
        DEF TypeOK, StreamTypeOK, HandlerTypeOK, RegistryTypeOK,
            RegistryInv, RegisteredIsServed, UndialedUnhandled, Serving
<1>1. CASE UNCHANGED <<agents, hpc, conn>>
    BY <1>1
<1>9. ASSUME NEW c \in Conns, NEW x \in Serving, hpc[c] # "none",
             hpc' = [hpc EXCEPT ![c] = x], agents' = agents, conn' = conn
      PROVE  RegistryInv'
    BY <1>9
<1>2. ASSUME NEW c \in Conns, Environment(c) \/ Agent(c) PROVE RegistryInv'
    <2>1. CASE Dial(c)
        BY <2>1 DEF Dial
    <2>2. CASE AgentReceive(c)
        BY <2>2 DEF AgentReceive, Live
    <2>3. CASE AgentHeartbeat(c)
        BY <1>1, <2>3 DEF AgentHeartbeat
    <2>4. CASE Lose(c)
        BY <2>4 DEF Lose, Live
    <2>5. CASE Notice(c)
        BY <2>5 DEF Notice
    <2>6. QED
        BY <1>2, <2>1, <2>2, <2>3, <2>4, <2>5 DEF Environment, Agent
<1>3. ASSUME NEW c \in Conns, Handler(c) PROVE RegistryInv'
    <2>1. CASE Reject(c)
        BY <2>1 DEF Reject
    <2>9. CASE Admit(c)
        BY <2>9 DEF Admit
    <2>2. CASE Register(c)
        BY <2>2 DEF Register
    <2>3. CASE SyncSnapshot(c)
        BY <2>3 DEF SyncSnapshot, SyncAt, PublishAt
    <2>4. CASE SyncPublish(c)
        BY <2>4 DEF SyncPublish, AfterPublish
    <2>5. CASE Welcome(c)
        BY <1>9, <2>5 DEF Welcome
    <2>6. CASE ReceiveError(c)
        BY <1>9, <2>6 DEF ReceiveError
    <2>10. CASE ReceiveHeartbeat(c)
        BY <1>9, <2>10 DEF ReceiveHeartbeat, HandleHeartbeat
    <2>11. CASE ReceiveResult(c)
        BY <1>9, <2>11 DEF ReceiveResult
    <2>12. CASE AckLookup(c)
        BY <1>9, <2>12 DEF AckLookup
    <2>13. CASE AckSend(c)
        BY <1>9, <2>13 DEF AckSend
    <2>7. CASE Cleanup(c)
        BY <2>7 DEF Cleanup, RemoveOwn
    <2>8. QED
        BY <1>3, <2>1, <2>2, <2>3, <2>4, <2>5, <2>6, <2>7, <2>9, <2>10, <2>11, <2>12, <2>13
           DEF Handler
<1>4. ASSUME NEW a \in Agents, NEW m \in Cmds, TakeRequest(a, m) PROVE RegistryInv'
    BY <1>1, <1>4 DEF TakeRequest
<1>5. CASE MarkPending \/ Forward \/ UnmarkPending \/ Expire
    BY <1>1, <1>5 DEF MarkPending, Forward, UnmarkPending, Expire
<1>6. CASE DropAgent
    BY <1>6 DEF DropAgent
<1>7. CASE UNCHANGED vars
    BY <1>1, <1>7 DEF vars
<1>8. QED
    BY <1>2, <1>3, <1>4, <1>5, <1>6, <1>7 DEF Next, QueueProcessor, Exhausted

\* A registered stream is its agent's own and its handler has not returned.
THEOREM RegistryCorrect == Spec => []RegisteredIsServed
<1>1. Init => RegistryInv
    BY DEF Init, RegistryInv, RegisteredIsServed, UndialedUnhandled
<1>2. RegistryInv => RegisteredIsServed
    BY DEF RegistryInv
<1>3. QED
    BY <1>1, <1>2, TypeCorrect, RegistryStep, PTL DEF Spec

-----------------------------------------------------------------------------
(* The command path.                                                       *)

\* The variables the command invariant reads.
commandState == <<disp, request, pending, responses>>

\* A step that leaves those variables alone keeps the command invariant.
LEMMA CommandUnchanged ==
    ASSUME CommandInv, UNCHANGED commandState
    PROVE  CommandInv'
BY DEF commandState, CommandInv, PendingIsUnanswered, ResponsesMatchRequests, DispatchIsFresh,
       Current, CurrentId

\* A result consumes the only entry with its identifier.
LEMMA ResultStep ==
    ASSUME TypeOK, CommandInv, NEW c \in Conns, ReceiveResult(c)
    PROVE  CommandInv'
<1> DEFINE a == Owner[c]
           k == Head(up[c]).cmd
           id == pending[a][k]
           stored == [id |-> id, agent |-> a, cmd |-> k, ofId |-> Head(up[c]).ofId]
<1>1. a \in Agents /\ k \in Cmds
    <2>1. Head(up[c]) \in UpMessages /\ Head(up[c]).kind = "result"
        BY DEF TypeOK, StreamTypeOK, ReceiveResult
    <2>2. QED
        BY <2>1, ResultFields, StreamsAssumption
<1>2. /\ disp' = disp /\ request' = request
      /\ pending' = [pending EXCEPT ![a][k] = NoId]
    BY DEF ReceiveResult, WithoutPending
<1>3. \A b \in Agents, m \in Cmds :
        pending'[b][m] = IF b = a /\ m = k THEN NoId ELSE pending[b][m]
    BY <1>1, <1>2 DEF TypeOK, CommandTypeOK
<1>7. Current' = Current /\ CurrentId' = CurrentId
    BY <1>2 DEF Current, CurrentId
<1>8. disp.pc = "mark" => CurrentId # NoId
    BY CurrentType DEF TypeOK, Requests, NoId
<1>9. ASSUME disp.pc = "mark", NEW b \in Agents, NEW m \in Cmds
      PROVE  pending'[b][m] # CurrentId
    BY <1>3, <1>8, <1>9 DEF CommandInv, DispatchIsFresh
<1>4. CASE responses' = responses
    <2>1. PendingIsUnanswered' /\ ResponsesMatchRequests'
        BY <1>2, <1>3, <1>4 DEF CommandInv, PendingIsUnanswered, ResponsesMatchRequests
    <2>2. DispatchIsFresh'
        BY <1>2, <1>7, <1>9, <1>4 DEF CommandInv, DispatchIsFresh
    <2>3. QED
        BY <2>1, <2>2 DEF CommandInv
<1>5. CASE id # NoId /\ responses' = {r \in responses : r.id # id} \cup {stored}
    <2>1. /\ id \in DOMAIN request
          /\ request[id] = [agent |-> a, cmd |-> k, reply |-> "accepted"]
        BY <1>1, <1>5 DEF CommandInv, PendingIsUnanswered
    <2>2. \A r \in responses' : r \in responses \/ r = stored
        BY <1>5
    <2>3. PendingIsUnanswered'
        <3>1. ASSUME NEW b \in Agents, NEW m \in Cmds, pending'[b][m] # NoId
              PROVE  /\ pending'[b][m] = pending[b][m]
                     /\ pending[b][m] # id
            <4>1. pending'[b][m] = pending[b][m] /\ ~(b = a /\ m = k)
                BY <1>3, <3>1
            <4>2. request[pending[b][m]] = [agent |-> b, cmd |-> m, reply |-> "accepted"]
                BY <3>1, <4>1 DEF CommandInv, PendingIsUnanswered
            <4>3. QED
                BY <2>1, <4>1, <4>2
        <3>2. QED
            BY <1>2, <2>2, <3>1 DEF CommandInv, PendingIsUnanswered
    <2>4. ResponsesMatchRequests'
        <3>1. ASSUME NEW r \in responses'
              PROVE  /\ r.id \in DOMAIN request
                     /\ request[r.id] = [agent |-> r.agent, cmd |-> r.cmd, reply |-> "accepted"]
            <4>1. CASE r \in responses
                BY <4>1 DEF CommandInv, ResponsesMatchRequests
            <4>2. CASE r = stored
                BY <2>1, <4>2
            <4>3. QED
                BY <2>2, <4>1, <4>2
        <3>2. QED
            BY <1>2, <3>1 DEF ResponsesMatchRequests
    <2>5. DispatchIsFresh'
        <3>1. disp.pc = "mark" => id # CurrentId
            BY <1>1 DEF CommandInv, DispatchIsFresh
        <3>2. ASSUME disp.pc = "mark", NEW r \in responses' PROVE r.id # CurrentId
            BY <2>2, <3>1, <3>2 DEF CommandInv, DispatchIsFresh
        <3>3. QED
            BY <1>2, <1>7, <1>9, <3>2 DEF CommandInv, DispatchIsFresh
    <2>6. QED
        BY <2>3, <2>4, <2>5 DEF CommandInv
<1>6. QED
    BY <1>4, <1>5 DEF ReceiveResult, Waiting

\* A request taken from the queue gets an identifier nothing refers to.
LEMMA TakeStep ==
    ASSUME TypeOK, CommandInv, NEW a \in Agents, NEW m \in Cmds, TakeRequest(a, m)
    PROVE  CommandInv'
<1> DEFINE r == [agent |-> a, cmd |-> m,
                 reply |-> IF agents[a] = NoConn THEN "refused" ELSE "accepted"]
<1>1. /\ request' = Append(request, r)
      /\ pending' = pending /\ responses' = responses
      /\ disp.pc = "idle"
      /\ disp' = IF agents[a] = NoConn THEN disp ELSE [pc |-> "mark", to |-> agents[a]]
    BY DEF TakeRequest, AfterLookup
<1>2. request \in Seq(RequestType) /\ Len(request) \in Nat
    BY DEF TypeOK, CommandTypeOK
<1>3. /\ Len(request') = Len(request) + 1
      /\ DOMAIN request' = DOMAIN request \cup {Len(request) + 1}
      /\ request'[Len(request) + 1] = r
      /\ \A i \in DOMAIN request : request'[i] = request[i]
      /\ Len(request) + 1 \notin DOMAIN request
    BY <1>1, <1>2
<1>4. PendingIsUnanswered' /\ ResponsesMatchRequests'
    BY <1>1, <1>3 DEF CommandInv, PendingIsUnanswered, ResponsesMatchRequests
<1>5. DispatchIsFresh'
    <2>1. CASE agents[a] = NoConn
        BY <1>1, <2>1 DEF DispatchIsFresh
    <2>2. CASE agents[a] # NoConn
        <3>1. Current' = r /\ CurrentId' = Len(request) + 1 /\ r.reply = "accepted"
            BY <1>3, <2>2 DEF Current, CurrentId
        <3>2. \A b \in Agents, k \in Cmds : pending'[b][k] # Len(request) + 1
            <4>1. Len(request) + 1 # NoId
                BY <1>2 DEF NoId
            <4>2. QED
                BY <1>1, <1>3, <4>1 DEF CommandInv, PendingIsUnanswered
        <3>3. \A s \in responses' : s.id # Len(request) + 1
            BY <1>1, <1>3 DEF CommandInv, ResponsesMatchRequests
        <3>4. QED
            BY <3>1, <3>2, <3>3 DEF DispatchIsFresh
    <2>3. QED
        BY <2>1, <2>2
<1>6. QED
    BY <1>4, <1>5 DEF CommandInv

\* The queue processor marks, sends and unmarks the request it took.
LEMMA QueueStep ==
    ASSUME TypeOK, CommandInv, QueueProcessor
    PROVE  CommandInv'
<1>1. disp.pc # "idle" /\ request' = request /\ responses' = responses
    BY DEF QueueProcessor, MarkPending, Forward, UnmarkPending, DropAgent
<1>2. /\ CurrentId \in DOMAIN request /\ Current \in RequestType
      /\ Current.agent \in Agents /\ Current.cmd \in Cmds
      /\ Current' = Current /\ CurrentId' = CurrentId
    BY <1>1, CurrentType DEF TypeOK, Current, CurrentId
<1>3. ResponsesMatchRequests'
    BY <1>1 DEF CommandInv, ResponsesMatchRequests
<1>4. CASE MarkPending
    <2>1. \A b \in Agents, k \in Cmds :
            pending'[b][k] = IF b = Current.agent /\ k = Current.cmd THEN CurrentId
                                                                  ELSE pending[b][k]
        BY <1>2, <1>4 DEF MarkPending, TypeOK, CommandTypeOK
    <2>2. request[CurrentId] = [agent |-> Current.agent, cmd |-> Current.cmd, reply |-> "accepted"]
        BY <1>1, <1>2 DEF CommandInv, DispatchIsFresh, RequestType, Current, CurrentId
    <2>3. \A r \in responses : r.id # CurrentId
        BY <1>4 DEF CommandInv, DispatchIsFresh, MarkPending
    <2>4. PendingIsUnanswered'
        BY <1>1, <1>2, <2>1, <2>2, <2>3 DEF CommandInv, PendingIsUnanswered
    <2>5. DispatchIsFresh'
        BY <1>1, <1>2, <1>4 DEF CommandInv, DispatchIsFresh, MarkPending
    <2>6. QED
        BY <1>3, <2>4, <2>5 DEF CommandInv
<1>5. CASE UnmarkPending
    <2>1. \A b \in Agents, k \in Cmds : pending'[b][k] \in {NoId, pending[b][k]}
        BY <1>2, <1>5 DEF UnmarkPending, WithoutPending, TypeOK, CommandTypeOK
    <2>2. QED
        BY <1>1, <1>2, <1>3, <1>5, <2>1
           DEF CommandInv, PendingIsUnanswered, DispatchIsFresh, UnmarkPending
<1>6. CASE Forward \/ DropAgent
    <2>1. pending' = pending /\ disp'.pc # "mark"
        BY <1>6 DEF Forward, DropAgent
    <2>2. QED
        BY <1>1, <1>2, <1>3, <2>1 DEF CommandInv, PendingIsUnanswered, DispatchIsFresh
<1>7. QED
    BY <1>4, <1>5, <1>6 DEF QueueProcessor

\* Only results, requests and the queue processor touch the command state.
LEMMA OtherStep ==
    ASSUME NEW c \in Conns, Environment(c) \/ Agent(c) \/ Handler(c), ~ReceiveResult(c)
    PROVE  UNCHANGED commandState
BY DEF Environment, Agent, Handler, Dial, AgentReceive, AgentHeartbeat, Lose, Notice, Reject,
       Admit, Register, SyncSnapshot, SyncPublish, Welcome, ReceiveError, ReceiveHeartbeat,
       AckLookup, AckSend, Cleanup, commandState

\* Every step of the system keeps the command invariant.
LEMMA CommandStep == TypeOK /\ CommandInv /\ [Next]_vars => CommandInv'
<1> SUFFICES ASSUME TypeOK, CommandInv, [Next]_vars PROVE CommandInv'
    OBVIOUS
<1>1. CASE Expire \/ UNCHANGED vars
    BY <1>1, CommandUnchanged DEF Expire, vars, commandState
<1>2. QED
    BY <1>1, ResultStep, TakeStep, QueueStep, OtherStep, CommandUnchanged DEF Next, Exhausted

\* Pending entries and responses always refer to accepted requests of the
\* same agent and command, and an answered request is never pending.
THEOREM CommandsCorrect == Spec => []CommandInv
<1>1. Init => CommandInv
    BY DEF Init, CommandInv, PendingIsUnanswered, ResponsesMatchRequests, DispatchIsFresh, NoId
<1>2. QED
    BY <1>1, TypeCorrect, CommandStep, PTL DEF Spec

-----------------------------------------------------------------------------
(* The server implements CommandService.                                   *)

\* The responses as the front end sees them.
Answers == {[id |-> r.id, agent |-> r.agent, cmd |-> r.cmd] : r \in responses}

\* An answer, spelled out, is a step of the service.
LEMMA AnswerIsNext ==
    ASSUME NEW id \in DOMAIN request, request[id].reply = "accepted", request' = request,
           \A r \in Answers : r.id # id,
           Answers' = Answers \cup
             {[id |-> id, agent |-> request[id].agent, cmd |-> request[id].cmd]}
    PROVE  Service!Next
<1>1. Service!Answer(id)
    BY DEF Service!Answer, Answers
<1>2. QED
    BY <1>1 DEF Service!Next

\* A result that is stored answers a request that had no answer.
LEMMA ResultAnswers ==
    ASSUME TypeOK, CommandInv, NEW c \in Conns, ReceiveResult(c)
    PROVE  [Service!Next]_Service!vars
<1> DEFINE a == Owner[c]
           k == Head(up[c]).cmd
           id == pending[a][k]
           stored == [id |-> id, agent |-> a, cmd |-> k, ofId |-> Head(up[c]).ofId]
           answer == [id |-> id, agent |-> a, cmd |-> k]
<1>1. a \in Agents /\ k \in Cmds
    <2>1. Head(up[c]) \in UpMessages /\ Head(up[c]).kind = "result"
        BY DEF TypeOK, StreamTypeOK, ReceiveResult
    <2>2. QED
        BY <2>1, ResultFields, StreamsAssumption
<1>2. request' = request
    BY DEF ReceiveResult
<1>3. CASE responses' = responses
    BY <1>2, <1>3 DEF Service!vars
<1>4. CASE id # NoId /\ responses' = {r \in responses : r.id # id} \cup {stored}
    <2>1. /\ id \in DOMAIN request
          /\ request[id] = [agent |-> a, cmd |-> k, reply |-> "accepted"]
          /\ \A r \in responses : r.id # id
        BY <1>1, <1>4 DEF CommandInv, PendingIsUnanswered
    <2>2. responses' = responses \cup {stored}
        BY <1>4, <2>1
    <2>3. Answers' = Answers \cup {answer}
        <3>1. Answers' = {[id |-> r.id, agent |-> r.agent, cmd |-> r.cmd] : r \in responses'}
            BY DEF Answers
        <3>2. ASSUME NEW x \in Answers' PROVE x \in Answers \cup {answer}
            <4>1. PICK r \in responses' : x = [id |-> r.id, agent |-> r.agent, cmd |-> r.cmd]
                BY <3>1, <3>2
            <4>2. CASE r \in responses
                BY <4>1, <4>2 DEF Answers
            <4>3. CASE r = stored
                BY <4>1, <4>3
            <4>4. QED
                BY <2>2, <4>2, <4>3
        <3>3. ASSUME NEW x \in Answers PROVE x \in Answers'
            BY <2>2, <3>1, <3>3 DEF Answers
        <3>4. answer \in Answers'
            <4>1. stored \in responses'
                BY <2>2
            <4>2. answer = [id |-> stored.id, agent |-> stored.agent, cmd |-> stored.cmd]
                OBVIOUS
            <4>3. QED
                BY <3>1, <4>1, <4>2
        <3>5. QED
            BY <3>2, <3>3, <3>4
    <2>4. \A r \in Answers : r.id # id
        BY <2>1 DEF Answers
    <2>5. request[id].reply = "accepted" /\ request[id].agent = a /\ request[id].cmd = k
        BY <2>1
    <2>6. QED
        BY <1>2, <2>1, <2>3, <2>4, <2>5, AnswerIsNext
<1>5. QED
    BY <1>3, <1>4 DEF ReceiveResult, Waiting

\* The stored responses implement the service: every step is a Take, an
\* Answer or invisible to the front end.
THEOREM ServiceImplemented == Spec => ImplementsService
<1>1. Init => Service!Init
    BY DEF Init, Service!Init
<1>2. TypeOK /\ CommandInv /\ [Next]_vars => [Service!Next]_Service!vars
    <2> SUFFICES ASSUME TypeOK, CommandInv, [Next]_vars PROVE [Service!Next]_Service!vars
        OBVIOUS
    <2>1. CASE UNCHANGED <<request, responses>>
        BY <2>1 DEF Service!vars
    <2>2. ASSUME NEW c \in Conns, Environment(c) \/ Agent(c) \/ Handler(c)
          PROVE  [Service!Next]_Service!vars
        BY <2>1, <2>2, ResultAnswers, OtherStep DEF commandState
    <2>3. ASSUME NEW a \in Agents, NEW m \in Cmds, TakeRequest(a, m)
          PROVE  [Service!Next]_Service!vars
        <3> DEFINE reply == IF agents[a] = NoConn THEN "refused" ELSE "accepted"
        <3>1. Service!Take(a, m, reply)
            BY <2>3 DEF TakeRequest, Service!Take
        <3>2. QED
            BY <3>1 DEF Service!Next
    <2>4. CASE QueueProcessor \/ Expire \/ UNCHANGED vars
        BY <2>1, <2>4 DEF QueueProcessor, MarkPending, Forward, UnmarkPending, DropAgent, Expire, vars
    <2>5. QED
        BY <2>2, <2>3, <2>4 DEF Next, Exhausted
<1>3. QED
    BY <1>1, <1>2, TypeCorrect, CommandsCorrect, PTL DEF Spec, ImplementsService, Service!Spec

\* A stored response is never replaced or removed.
THEOREM ResponsesKept == Spec => ResponsesOnlyGrow
<1>1. TypeOK /\ CommandInv /\ [Next]_vars => responses \subseteq responses'
    <2> SUFFICES ASSUME TypeOK, CommandInv, [Next]_vars PROVE responses \subseteq responses'
        OBVIOUS
    <2>1. ASSUME NEW c \in Conns, ReceiveResult(c) PROVE responses \subseteq responses'
        <3> DEFINE id == pending[Owner[c]][Head(up[c]).cmd]
        <3>1. Head(up[c]) \in UpMessages /\ Head(up[c]).kind = "result"
            BY <2>1 DEF TypeOK, StreamTypeOK, ReceiveResult
        <3>2. Owner[c] \in Agents /\ Head(up[c]).cmd \in Cmds
            BY <3>1, ResultFields, StreamsAssumption
        <3>3. id # NoId => \A r \in responses : r.id # id
            BY <3>2 DEF CommandInv, PendingIsUnanswered
        <3>4. QED
            BY <2>1, <3>3 DEF ReceiveResult, Waiting
    <2>2. ASSUME NEW c \in Conns, Environment(c) \/ Agent(c) \/ Handler(c)
          PROVE  responses \subseteq responses'
        BY <2>1, <2>2, OtherStep DEF commandState
    <2>3. QED
        BY <2>2 DEF Next, Exhausted, TakeRequest, QueueProcessor, MarkPending, Forward,
                    UnmarkPending, DropAgent, Expire, vars
<1>2. QED
    BY <1>1, TypeCorrect, CommandsCorrect, PTL DEF Spec, ResponsesOnlyGrow
-----------------------------------------------------------------------------
(* Where results come from.                                                *)

\* An identifier that a message or a response carries names an accepted
\* request of that agent and command, or it is the welcome's.
OfRequest(id, a, m) ==
    IF id = NoId THEN m = StatusCmd
    ELSE id \in DOMAIN request /\ request[id] = [agent |-> a, cmd |-> m, reply |-> "accepted"]

Within(s) == {s[i] : i \in DOMAIN s}

\* Every command under way to an agent, and every result under way back, is of
\* such a request, on whichever stream it travels: the stream of the request
\* that is being dispatched is one of its agent.
OriginInv ==
    /\ \A c \in Conns : \A m \in Within(down[c]) : m.kind = "command" => OfRequest(m.id, Owner[c], m.cmd)
    /\ \A c \in Conns : \A m \in Within(up[c]) : m.kind = "result" => OfRequest(m.ofId, Owner[c], m.cmd)
    /\ \A r \in responses : OfRequest(r.ofId, r.agent, r.cmd)
    /\ disp.pc # "idle" => Owner[disp.to] = Current.agent

LEMMA OriginIsExecution == OriginInv => ResponsesWereExecuted
BY DEF OriginInv, OfRequest, ResponsesWereExecuted

\* What is in a queue after a message is added, and after the first is taken.
LEMMA WithinQueue ==
    ASSUME NEW S, NEW s \in Seq(S), NEW e \in S
    PROVE  /\ Within(Append(s, e)) \subseteq Within(s) \cup {e}
           /\ s # << >> => Head(s) \in Within(s) /\ Within(Tail(s)) \subseteq Within(s)
           /\ Within(<< >>) = {}
<1>1. Within(Append(s, e)) \subseteq Within(s) \cup {e}
    BY DEF Within
<1>2. ASSUME s # << >> PROVE Head(s) \in Within(s) /\ Within(Tail(s)) \subseteq Within(s)
    <2>1. Len(s) \in Nat \ {0} /\ DOMAIN s = 1..Len(s) /\ Head(s) = s[1]
        BY <1>2
    <2>2. DOMAIN Tail(s) = 1..(Len(s) - 1) /\ \A i \in 1..(Len(s) - 1) : Tail(s)[i] = s[i + 1]
        BY <1>2, <2>1
    <2>3. \A i \in 1..(Len(s) - 1) : i + 1 \in DOMAIN s
        BY <2>1
    <2>4. QED
        BY <2>1, <2>2, <2>3 DEF Within
<1>3. Within(<< >>) = {}
    BY DEF Within
<1>4. QED
    BY <1>1, <1>2, <1>3

\* Requests are only added.
LEMMA RequestsStay ==
    ASSUME TypeOK, [Next]_vars, NEW id, NEW a, NEW m, OfRequest(id, a, m)
    PROVE  OfRequest(id, a, m)'
<1>1. CASE request' = request
    BY <1>1 DEF OfRequest
<1>2. ASSUME NEW b \in Agents, NEW k \in Cmds, TakeRequest(b, k) PROVE OfRequest(id, a, m)'
    <2>1. PICK r \in RequestType : request' = Append(request, r)
        BY <1>2 DEF TakeRequest, RequestType
    <2>2. request \in Seq(RequestType)
        BY DEF TypeOK, CommandTypeOK
    <2>3. \A i \in DOMAIN request : i \in DOMAIN request' /\ request'[i] = request[i]
        BY <2>1, <2>2
    <2>4. QED
        BY <2>3 DEF OfRequest
<1>3. \/ request' = request
      \/ \E b \in Agents, k \in Cmds : TakeRequest(b, k)
    <2>1. \A c \in Conns : Environment(c) \/ Agent(c) \/ Handler(c) => request' = request
        BY OtherStep DEF commandState, ReceiveResult
    <2>2. QueueProcessor \/ Expire \/ UNCHANGED vars => request' = request
        BY DEF QueueProcessor, MarkPending, Forward, UnmarkPending, DropAgent, Expire, vars
    <2>3. QED
        BY <2>1, <2>2 DEF Next, Exhausted
<1>4. QED
    BY <1>1, <1>2, <1>3

\* Sending a message adds it at most to the stream it is sent on.
LEMMA WithinSent ==
    ASSUME TypeOK, NEW s \in Conns, NEW m \in DownMessages, down' = Sent(s, m), NEW c \in Conns
    PROVE  Within(down'[c]) \subseteq Within(down[c]) \cup (IF c = s THEN {m} ELSE {})
<1>1. down \in [Conns -> Seq(DownMessages)]
    BY DEF TypeOK, StreamTypeOK
<1>2. CASE c = s /\ Live(s)
    <2>1. down'[c] = Append(down[c], m) /\ down[c] \in Seq(DownMessages)
        BY <1>1, <1>2 DEF Sent
    <2>2. QED
        BY <1>2, <2>1, WithinQueue
<1>3. CASE ~(c = s /\ Live(s))
    BY <1>1, <1>3 DEF Sent
<1>4. QED
    BY <1>2, <1>3

\* It is enough to look at the messages and the responses a step adds.
LEMMA OriginKept ==
    ASSUME TypeOK, [Next]_vars, OriginInv,
           \A c \in Conns : \A m \in Within(down'[c]) : m.kind = "command" =>
               m \in Within(down[c]) \/ OfRequest(m.id, Owner[c], m.cmd)',
           \A c \in Conns : \A m \in Within(up'[c]) : m.kind = "result" =>
               m \in Within(up[c]) \/ OfRequest(m.ofId, Owner[c], m.cmd)',
           \A r \in responses' : r \in responses \/ OfRequest(r.ofId, r.agent, r.cmd)',
           (disp.pc # "idle" => Owner[disp.to] = Current.agent)'
    PROVE  OriginInv'
<1>1. \A id, a, m : OfRequest(id, a, m) => OfRequest(id, a, m)'
    BY RequestsStay
<1>2. \A c \in Conns : \A m \in Within(down'[c]) : m.kind = "command" => OfRequest(m.id, Owner[c], m.cmd)'
    BY <1>1 DEF OriginInv
<1>3. \A c \in Conns : \A m \in Within(up'[c]) : m.kind = "result" => OfRequest(m.ofId, Owner[c], m.cmd)'
    BY <1>1 DEF OriginInv
<1>4. \A r \in responses' : OfRequest(r.ofId, r.agent, r.cmd)'
    BY <1>1 DEF OriginInv
<1>5. QED
    BY <1>2, <1>3, <1>4 DEF OriginInv, Within

LEMMA OriginStep ==
    ASSUME TypeOK, RegistryInv, CommandInv, OriginInv, [Next]_vars
    PROVE  OriginInv'
<1>0. /\ up \in [Conns -> Seq(UpMessages)] /\ down \in [Conns -> Seq(DownMessages)]
      /\ Owner \in [Conns -> Agents] /\ ackTo \in [Conns -> Conns \cup {NoConn}]
      /\ hpc \in [Conns -> HandlerPCs] /\ \A c \in Conns : hpc[c] = "ackSend" => ackTo[c] \in Conns
    BY StreamsAssumption DEF TypeOK, StreamTypeOK, HandlerTypeOK
<1>1. ASSUME NEW c \in Conns, AgentReceive(c) PROVE OriginInv'
    <2>0. PICK n : n = Head(down[c])
        OBVIOUS
    <2>1. /\ n \in Within(down[c]) /\ n \in DownMessages
          /\ Within(Tail(down[c])) \subseteq Within(down[c])
        BY <1>0, <1>1, <2>0, WithinQueue DEF AgentReceive
    <2>2. \A d \in Conns : Within(down'[d]) \subseteq Within(down[d])
        BY <1>0, <1>1, <2>1 DEF AgentReceive
    <2>3. UNCHANGED <<disp, request, responses>>
        BY <1>1 DEF AgentReceive
    <2>4. ASSUME NEW d \in Conns, NEW m \in Within(up'[d]), m.kind = "result", m \notin Within(up[d])
          PROVE  OfRequest(m.ofId, Owner[d], m.cmd)'
        <3>1. d = c /\ n.kind = "command" /\ up'[d] = Append(up[d], Result(n.cmd, n.id))
            BY <1>0, <1>1, <2>0, <2>4 DEF AgentReceive, Reported
        <3>2. Result(n.cmd, n.id) \in UpMessages
            BY <2>1, <3>1, CommandFields DEF Result, UpMessages
        <3>3. m = Result(n.cmd, n.id)
            BY <1>0, <2>4, <3>1, <3>2, WithinQueue
        <3>4. OfRequest(n.id, Owner[c], n.cmd)
            BY <2>1, <3>1 DEF OriginInv
        <3>5. OfRequest(n.id, Owner[c], n.cmd)'
            BY <2>3, <3>4 DEF OfRequest
        <3>6. m.ofId = n.id /\ m.cmd = n.cmd
            BY <3>3 DEF Result
        <3>7. QED
            BY <3>1, <3>5, <3>6
    <2>5. QED
        BY <2>2, <2>3, <2>4, OriginKept DEF OriginInv, Current
<1>2. ASSUME NEW c \in Conns, AgentHeartbeat(c) PROVE OriginInv'
    <2>1. UNCHANGED <<down, disp, request, responses>> /\ up' = [up EXCEPT ![c] = <<Heartbeat>>]
        BY <1>2 DEF AgentHeartbeat
    <2>2. \A d \in Conns : \A m \in Within(up'[d]) : m \in Within(up[d]) \/ m = Heartbeat
        BY <1>0, <2>1 DEF Within
    <2>3. Heartbeat.kind # "result"
        BY DEF Heartbeat
    <2>4. QED
        BY <2>1, <2>2, <2>3, OriginKept DEF OriginInv, Current
<1>3. ASSUME NEW c \in Conns, Welcome(c) PROVE OriginInv'
    <2>1. UNCHANGED <<up, disp, request, responses>> /\ down' = Sent(c, Command(StatusCmd, NoId))
        BY <1>3 DEF Welcome
    <2>2. Command(StatusCmd, NoId) \in DownMessages
        BY StreamsAssumption DEF Command, DownMessages
    <2>3. \A d \in Conns : \A m \in Within(down'[d]) : m \in Within(down[d]) \/ m = Command(StatusCmd, NoId)
        BY <2>1, <2>2, WithinSent
    <2>4. \A d \in Conns : LET m == Command(StatusCmd, NoId) IN OfRequest(m.id, Owner[d], m.cmd)'
        BY DEF Command, OfRequest
    <2>5. QED
        BY <2>1, <2>3, <2>4, OriginKept DEF OriginInv, Current
<1>4. ASSUME NEW c \in Conns, AckSend(c) PROVE OriginInv'
    <2>1. UNCHANGED <<up, disp, request, responses>> /\ down' = Sent(ackTo[c], Ack) /\ ackTo[c] \in Conns
        BY <1>0, <1>4 DEF AckSend
    <2>2. Ack \in DownMessages /\ Ack.kind # "command"
        BY DEF Ack, DownMessages
    <2>3. \A d \in Conns : \A m \in Within(down'[d]) : m \in Within(down[d]) \/ m = Ack
        BY <2>1, <2>2, WithinSent
    <2>4. QED
        BY <2>1, <2>2, <2>3, OriginKept DEF OriginInv, Current
<1>5. ASSUME NEW c \in Conns, ReceiveHeartbeat(c) PROVE OriginInv'
    <2>1. UNCHANGED <<down, disp, request, responses>> /\ up[c] # << >> /\ up' = [up EXCEPT ![c] = Tail(@)]
        BY <1>5 DEF ReceiveHeartbeat
    <2>2. \A d \in Conns : Within(up'[d]) \subseteq Within(up[d])
        <3>1. Within(Tail(up[c])) \subseteq Within(up[c])
            BY <1>0, <2>1, WithinQueue DEF UpMessages
        <3>2. QED
            BY <1>0, <2>1, <3>1
    <2>3. QED
        BY <2>1, <2>2, OriginKept DEF OriginInv, Current
<1>6. ASSUME NEW c \in Conns, ReceiveResult(c) PROVE OriginInv'
    <2> DEFINE n == Head(up[c])
    <2>1. /\ UNCHANGED <<down, disp, request>> /\ up[c] # << >> /\ up' = [up EXCEPT ![c] = Tail(@)]
          /\ n.kind = "result"
        BY <1>6 DEF ReceiveResult
    <2>2. n \in Within(up[c]) /\ Within(Tail(up[c])) \subseteq Within(up[c])
        BY <1>0, <2>1, WithinQueue DEF UpMessages
    <2>3. \A d \in Conns : Within(up'[d]) \subseteq Within(up[d])
        BY <1>0, <2>1, <2>2
    <2>4. ASSUME NEW r \in responses', r \notin responses PROVE OfRequest(r.ofId, r.agent, r.cmd)'
        <3>1. r.agent = Owner[c] /\ r.cmd = n.cmd /\ r.ofId = n.ofId
            BY <1>6, <2>4 DEF ReceiveResult
        <3>2. OfRequest(n.ofId, Owner[c], n.cmd)
            BY <2>1, <2>2 DEF OriginInv
        <3>3. QED
            BY <2>1, <3>1, <3>2 DEF OfRequest
    <2>5. QED
        BY <2>1, <2>3, <2>4, OriginKept DEF OriginInv, Current
<1>7. ASSUME NEW c \in Conns, Lose(c) \/ Reject(c) \/ SyncPublish(c) PROVE OriginInv'
    <2>1. UNCHANGED <<disp, request, responses>>
        BY <1>7 DEF Lose, Reject, SyncPublish
    <2>2. \A d \in Conns : down'[d] \in {down[d], << >>} /\ up'[d] \in {up[d], << >>}
        BY <1>0, <1>7 DEF Lose, Reject, SyncPublish
    <2>3. Within(<< >>) = {}
        BY DEF Within
    <2>4. \A d \in Conns : Within(down'[d]) \subseteq Within(down[d]) /\ Within(up'[d]) \subseteq Within(up[d])
        BY <2>2, <2>3
    <2>5. QED
        BY <2>1, <2>4, OriginKept DEF OriginInv, Current
<1>8. ASSUME NEW a \in Agents, NEW m \in Cmds, TakeRequest(a, m) PROVE OriginInv'
    <2>1. UNCHANGED <<up, down, responses>> /\ request \in Seq(RequestType)
        BY <1>8 DEF TakeRequest, TypeOK, CommandTypeOK
    <2>2. disp'.pc # "idle" => agents[a] # NoConn /\ disp'.to = agents[a]
        BY <1>8 DEF TakeRequest, AfterLookup
    <2>3. Current'.agent = a
        <3>1. PICK r \in RequestType : request' = Append(request, r) /\ r.agent = a
            BY <1>8 DEF TakeRequest, RequestType
        <3>2. QED
            BY <2>1, <3>1 DEF Current
    <2>4. disp'.pc # "idle" => Owner[disp'.to] = Current'.agent
        BY <2>2, <2>3 DEF RegistryInv, RegisteredIsServed
    <2>5. QED
        BY <2>1, <2>4, OriginKept
<1>9. ASSUME Forward PROVE OriginInv'
    <2>1. /\ UNCHANGED <<up, request, responses>> /\ down' = Sent(disp.to, Command(Current.cmd, CurrentId))
          /\ disp.pc # "idle" /\ disp.to \in Conns
          /\ disp'.pc # "idle" => disp'.to = disp.to
        BY <1>9 DEF Forward, TypeOK, CommandTypeOK
    <2>2. /\ CurrentId \in Requests /\ CurrentId \in DOMAIN request
          /\ Current \in RequestType /\ Current.cmd \in Cmds
        BY <2>1, CurrentType DEF TypeOK
    <2>3. Command(Current.cmd, CurrentId) \in DownMessages
        BY <2>2 DEF Command, DownMessages
    <2>4. Current = [agent |-> Owner[disp.to], cmd |-> Current.cmd, reply |-> "accepted"]
        BY <2>1, <2>2 DEF OriginInv, CommandInv, DispatchIsFresh, RequestType
    <2>5. OfRequest(CurrentId, Owner[disp.to], Current.cmd)
        <3>1. CurrentId # NoId
            BY <2>2 DEF Requests, NoId
        <3>2. request[CurrentId] = Current
            BY DEF Current, CurrentId
        <3>3. QED
            BY <2>2, <2>4, <3>1, <3>2 DEF OfRequest
    <2>6. ASSUME NEW d \in Conns, NEW m \in Within(down'[d]), m \notin Within(down[d])
          PROVE  OfRequest(m.id, Owner[d], m.cmd)'
        <3>1. d = disp.to /\ m = Command(Current.cmd, CurrentId)
            BY <2>1, <2>3, <2>6, WithinSent
        <3>2. m.id = CurrentId /\ m.cmd = Current.cmd
            BY <3>1 DEF Command
        <3>3. QED
            BY <2>1, <2>5, <3>1, <3>2 DEF OfRequest
    <2>7. disp'.pc # "idle" => Owner[disp'.to] = Current'.agent
        BY <2>1 DEF OriginInv, Current
    <2>8. QED
        BY <2>1, <2>6, <2>7, OriginKept
<1>10. ASSUME MarkPending \/ UnmarkPending \/ DropAgent PROVE OriginInv'
    <2>1. UNCHANGED <<up, down, request, responses>> /\ disp.pc # "idle"
        BY <1>10 DEF MarkPending, UnmarkPending, DropAgent
    <2>2. disp'.pc # "idle" => disp'.to = disp.to
        BY <1>10 DEF MarkPending, UnmarkPending, DropAgent
    <2>3. QED
        BY <2>1, <2>2, OriginKept DEF OriginInv, Current
<1>11. ASSUME UNCHANGED <<up, down, disp, request, responses>> PROVE OriginInv'
    BY <1>11 DEF OriginInv, OfRequest, Current
<1>12. ASSUME NEW c \in Conns,
              \/ Dial(c) \/ Notice(c) \/ Admit(c) \/ Register(c) \/ SyncSnapshot(c)
              \/ ReceiveError(c) \/ AckLookup(c) \/ Cleanup(c)
       PROVE  UNCHANGED <<up, down, disp, request, responses>>
    BY <1>12 DEF Dial, Notice, Admit, Register, SyncSnapshot, ReceiveError, AckLookup, Cleanup
<1>13. ASSUME Expire \/ UNCHANGED vars PROVE UNCHANGED <<up, down, disp, request, responses>>
    BY <1>13 DEF Expire, vars
<1>14. ASSUME NEW c \in Conns, Environment(c) \/ Agent(c) \/ Handler(c) PROVE OriginInv'
    BY <1>1, <1>2, <1>3, <1>4, <1>5, <1>6, <1>7, <1>11, <1>12, <1>14 DEF Environment, Agent, Handler
<1>15. QED
    BY <1>8, <1>9, <1>10, <1>11, <1>13, <1>14 DEF Next, QueueProcessor, Exhausted

\* What a response stores was produced by executing, on that agent, that
\* command, sent for an accepted request or as the welcome: for any agents,
\* streams and requests, whatever is lost, delayed or answered late.
THEOREM ResponsesComeFromExecution == Spec => []ResponsesWereExecuted
<1>1. Init => RegistryInv
    BY DEF Init, RegistryInv, RegisteredIsServed, UndialedUnhandled
<1>2. Init => OriginInv
    BY DEF Init, OriginInv, Within
<1>3. QED
    BY <1>1, <1>2, TypeCorrect, RegistryStep, CommandsCorrect, OriginStep, OriginIsExecution, PTL DEF Spec

-----------------------------------------------------------------------------
(* The lock of the registry (AgentBroadcast).                              *)

USE BroadcastAssumption DEF Procs, lockVars, loopVars

\* Outside the body of the range loop a broadcast has no agent at hand.
NoTargetOutside ==
    \A n \in Notifiers : pc[n] \in {"idle", "outer", "range"} => target[n] = {}

\* The inductive invariant of the registry lock.
LockInv == LockTypeOK /\ LoopSeesWholeRegistry /\ NoTargetOutside

-----------------------------------------------------------------------------
\* The initial state satisfies the invariant (NewServer, no goroutine yet).
LEMMA InitLock == LockInit => LockInv
BY DEF LockInit, LockInv, LockTypeOK, LoopSeesWholeRegistry, NoTargetOutside, Held, HandlerPlaces,
       NotifierPlaces, Looping, AfterRLock

\* Acquiring a read lock keeps the invariant: a loop that starts takes the
\* registry as it is.
LEMMA RLockStep ==
    ASSUME LockInv, NEW p \in Procs, RLock(p)
    PROVE  LockInv'
<1> USE DEF LockInv, AfterRLock, HandlerPlaces, NotifierPlaces, RLock, Goto, StartLoop
<1>0. /\ waiting' = waiting /\ writer' = NoProc
      /\ \A q \in waiting : q \in Procs /\ pc[q] \in DOMAIN AfterRLock
      /\ p \notin waiting
    BY DEF LockTypeOK
<1>1. CASE pc[p] = "sync"
    <2>1. p \in Handlers /\ reads[p] = 0
        BY <1>1 DEF Held, LockTypeOK
    <2>2. pc' = [pc EXCEPT ![p] = "snapshot"] /\ reads' = [reads EXCEPT ![p] = 1]
        BY <1>1, <2>1
    <2>3. /\ p \in Handlers /\ pc' \in [Procs -> HandlerPlaces \cup NotifierPlaces]
          /\ \A q \in Procs : pc'[q] = IF q = p THEN "snapshot" ELSE pc[q]
          /\ \A q \in Procs : reads'[q] = IF q = p THEN 1 ELSE reads[q]
        BY <2>1, <2>2 DEF LockTypeOK
    <2>4. LockTypeOK'
        <3>1. \A q \in Procs : reads'[q] = Held(q)'
            BY <2>3 DEF Held, LockTypeOK
        <3>2. waiting' \subseteq {q \in Procs : pc'[q] \in DOMAIN AfterRLock}
            BY <1>0, <2>3
        <3>3. QED
            BY <1>0, <1>1, <2>3, <3>1, <3>2 DEF LockTypeOK
    <2>5. LoopSeesWholeRegistry' /\ NoTargetOutside'
        BY <1>1, <2>3 DEF LoopSeesWholeRegistry, NoTargetOutside, Looping, LockTypeOK
    <2>6. QED
        BY <2>4, <2>5
<1>2. CASE pc[p] = "outer"
    <2>1. p \in Notifiers /\ reads[p] = 0
        BY <1>2 DEF Held, LockTypeOK
    <2>2. pc' = [pc EXCEPT ![p] = "range"] /\ reads' = [reads EXCEPT ![p] = 1]
        BY <1>2, <2>1
    <2>3. /\ p \in Notifiers /\ pc' \in [Procs -> HandlerPlaces \cup NotifierPlaces]
          /\ \A q \in Procs : pc'[q] = IF q = p THEN "range" ELSE pc[q]
          /\ \A q \in Procs : reads'[q] = IF q = p THEN 1 ELSE reads[q]
        BY <2>1, <2>2 DEF LockTypeOK
    <2>4. LockTypeOK'
        <3>1. \A q \in Procs : reads'[q] = Held(q)'
            BY <2>3 DEF Held, LockTypeOK
        <3>2. waiting' \subseteq {q \in Procs : pc'[q] \in DOMAIN AfterRLock}
            BY <1>0, <2>3
        <3>3. QED
            BY <1>0, <1>2, <2>3, <3>1, <3>2 DEF LockTypeOK
    <2>5. LoopSeesWholeRegistry' /\ NoTargetOutside'
        BY <1>2, <2>3 DEF LoopSeesWholeRegistry, NoTargetOutside, Looping, LockTypeOK
    <2>6. QED
        BY <2>4, <2>5
<1>3. CASE pc[p] = "inner"
    <2>1. p \in Notifiers /\ reads[p] = 1
        BY <1>3 DEF Held, LockTypeOK
    <2>2. pc' = [pc EXCEPT ![p] = "lookup"] /\ reads' = [reads EXCEPT ![p] = 2]
        BY <1>3, <2>1
    <2>3. /\ p \in Notifiers /\ pc' \in [Procs -> HandlerPlaces \cup NotifierPlaces]
          /\ \A q \in Procs : pc'[q] = IF q = p THEN "lookup" ELSE pc[q]
          /\ \A q \in Procs : reads'[q] = IF q = p THEN 2 ELSE reads[q]
        BY <2>1, <2>2 DEF LockTypeOK
    <2>4. LockTypeOK'
        <3>1. \A q \in Procs : reads'[q] = Held(q)'
            BY <2>3 DEF Held, LockTypeOK
        <3>2. waiting' \subseteq {q \in Procs : pc'[q] \in DOMAIN AfterRLock}
            BY <1>0, <2>3
        <3>3. QED
            BY <1>0, <1>3, <2>3, <3>1, <3>2 DEF LockTypeOK
    <2>5. LoopSeesWholeRegistry' /\ NoTargetOutside'
        BY <1>3, <2>3 DEF LoopSeesWholeRegistry, NoTargetOutside, Looping, LockTypeOK
    <2>6. QED
        BY <2>4, <2>5
<1>4. QED
    BY <1>1, <1>2, <1>3

\* While a writer holds the lock no broadcast is in its loop, so the write
\* and the release of the waiting readers keep the invariant.
LEMMA WriteStep ==
    ASSUME LockInv, NEW h \in Handlers, Write(h)
    PROVE  LockInv'
<1> USE DEF LockInv, AfterRLock
<1>1. \A p \in Procs : reads[p] = 0 /\ Held(p) = 0
    BY DEF Write, Locked, LockTypeOK
<1>2. \A n \in Notifiers : pc[n] \in {"idle", "outer"}
    BY <1>1 DEF Held, LockTypeOK, NotifierPlaces
<1>3. ASSUME NEW p \in waiting
      PROVE  \/ pc[p] = "sync" /\ p \in Handlers
             \/ pc[p] = "outer" /\ p \in Notifiers
    <2>1. p \in Procs /\ pc[p] \in {"sync", "outer", "inner"}
        BY DEF LockTypeOK
    <2>2. CASE p \in Handlers
        BY <2>1, <2>2 DEF LockTypeOK, HandlerPlaces
    <2>3. CASE p \in Notifiers
        BY <1>2, <2>1, <2>3
    <2>4. QED
        BY <2>1, <2>2, <2>3
<1>4. /\ writer' = NoProc /\ waiting' = {} /\ target' = target
      /\ reads' = [p \in Procs |-> IF p \in waiting THEN 1 ELSE 0]
      /\ pc' = [p \in Procs |-> IF p = h THEN "sync"
                                ELSE IF p \in waiting THEN AfterRLock[pc[p]] ELSE pc[p]]
      /\ todo' = [n \in Notifiers |-> IF n \in waiting THEN registered' ELSE todo[n]]
      /\ notified' = [n \in Notifiers |-> IF n \in waiting THEN {} ELSE notified[n]]
      /\ h \notin waiting /\ pc[h] \in {"lockIn", "lockOut"}
    BY <1>1, <1>3 DEF Write, Unlock, LockTypeOK
<1>5. \A n \in Notifiers : pc'[n] = (IF n \in waiting THEN "range" ELSE pc[n])
    BY <1>3, <1>4
<1>6. \A k \in Handlers : pc'[k] = IF k = h THEN "sync"
                                   ELSE IF k \in waiting THEN "snapshot" ELSE pc[k]
    BY <1>3, <1>4
<1>7. registered' \subseteq AgentIds
    BY DEF Write, LockTypeOK
<1>8. LockTypeOK'
    <2>1. pc' \in [Procs -> HandlerPlaces \cup NotifierPlaces]
          /\ (\A k \in Handlers : pc'[k] \in HandlerPlaces)
          /\ (\A n \in Notifiers : pc'[n] \in NotifierPlaces)
        BY <1>4, <1>5, <1>6 DEF LockTypeOK, HandlerPlaces, NotifierPlaces
    <2>2. \A p \in Procs : reads'[p] = Held(p)'
        <3>1. ASSUME NEW n \in Notifiers PROVE reads'[n] = Held(n)'
            BY <1>2, <1>4, <1>5 DEF Held
        <3>2. ASSUME NEW k \in Handlers PROVE reads'[k] = Held(k)'
            BY <1>1, <1>4, <1>6 DEF Held
        <3>3. QED
            BY <3>1, <3>2
    <2>3. reads' \in [Procs -> 0..2]
        BY <1>4
    <2>4. /\ todo' \in [Notifiers -> SUBSET AgentIds]
          /\ target' \in [Notifiers -> SUBSET AgentIds]
          /\ notified' \in [Notifiers -> SUBSET AgentIds]
        BY <1>4, <1>7 DEF LockTypeOK
    <2>5. waiting' = {} /\ writer' = NoProc
        BY <1>4
    <2>6. QED
        BY <1>7, <2>1, <2>2, <2>3, <2>4, <2>5 DEF LockTypeOK
<1>9. LoopSeesWholeRegistry' /\ NoTargetOutside'
    BY <1>2, <1>4, <1>5 DEF LoopSeesWholeRegistry, NoTargetOutside, Looping
<1>10. QED
    BY <1>8, <1>9

\* The other steps of a stream handler do not touch a broadcast.
LEMMA HandlerStepKeeps ==
    ASSUME LockInv, NEW h \in Handlers,
           RLockBlocks(h) \/ Announce(h) \/ Snapshot(h) \/ Connect(h)
    PROVE  LockInv'
<1> USE DEF LockInv, LockTypeOK, HandlerPlaces, NotifierPlaces, AfterRLock, Goto, Released,
            LoopSeesWholeRegistry, NoTargetOutside, Looping, Held
<1>1. CASE RLockBlocks(h)
    BY <1>1 DEF RLockBlocks
<1>2. CASE Announce(h)
    BY <1>2 DEF Announce
<1>3. CASE Snapshot(h)
    BY <1>3 DEF Snapshot
<1>4. CASE Connect(h)
    BY <1>4 DEF Connect
<1>5. QED
    BY <1>1, <1>2, <1>3, <1>4

\* The steps of a broadcast move one agent at a time from the keys to visit
\* to those notified, and leave the registry alone.
LEMMA NotifierStepKeeps ==
    ASSUME LockInv, NEW n \in Notifiers,
           \/ RLockBlocks(n) \/ Notify(n) \/ VisitAgent(n) \/ LookupAgent(n)
           \/ SendCommand(n) \/ EndLoop(n)
    PROVE  LockInv'
<1> USE DEF LockInv, LockTypeOK, HandlerPlaces, NotifierPlaces, AfterRLock, Goto, Released,
            LoopSeesWholeRegistry, NoTargetOutside, Looping, Held
<1>1. CASE RLockBlocks(n)
    BY <1>1 DEF RLockBlocks
<1>2. CASE Notify(n)
    BY <1>2 DEF Notify
<1>3. CASE VisitAgent(n)
    BY <1>3 DEF VisitAgent
<1>4. CASE LookupAgent(n)
    BY <1>4 DEF LookupAgent
<1>5. CASE SendCommand(n)
    BY <1>5 DEF SendCommand
<1>6. CASE EndLoop(n)
    BY <1>6 DEF EndLoop
<1>7. QED
    BY <1>1, <1>2, <1>3, <1>4, <1>5, <1>6

\* Every step keeps the invariant.
LEMMA LockStep == LockInv /\ [LockNext]_broadcastVars => LockInv'
<1> SUFFICES ASSUME LockInv, [LockNext]_broadcastVars PROVE LockInv'
    OBVIOUS
<1>1. CASE UNCHANGED broadcastVars
    BY <1>1 DEF broadcastVars, LockInv, LockTypeOK, LoopSeesWholeRegistry, NoTargetOutside, Looping, Held
<1>2. ASSUME NEW h \in Handlers, Connect(h) \/ HandlerStep(h) PROVE LockInv'
    BY <1>2, RLockStep, WriteStep, HandlerStepKeeps DEF HandlerStep
<1>3. ASSUME NEW n \in Notifiers, Notify(n) \/ NotifierStep(n) PROVE LockInv'
    BY <1>3, RLockStep, NotifierStepKeeps DEF NotifierStep
<1>4. QED
    BY <1>1, <1>2, <1>3 DEF LockNext

-----------------------------------------------------------------------------
\* A goroutine holds exactly the read locks of the place it is at.
THEOREM LocksCorrect == LockSpec => []LockTypeOK
<1>1. LockInv => LockTypeOK
    BY DEF LockInv
<1>2. QED
    BY <1>1, InitLock, LockStep, PTL DEF LockSpec

\* No broadcast's range loop ever runs over a registry that changes.
THEOREM BroadcastCorrect == LockSpec => []LoopSeesWholeRegistry
<1>1. LockInv => LoopSeesWholeRegistry
    BY DEF LockInv
<1>2. QED
    BY <1>1, InitLock, LockStep, PTL DEF LockSpec

\* Whenever the lock is stuck, a broadcast waits in its own nested RLock.
THEOREM OnlyNestingBlocks == LockSpec => []BlockedOnlyByNesting
<1>1. LockTypeOK => BlockedOnlyByNesting
    <2> SUFFICES ASSUME LockTypeOK, writer # NoProc, \A p \in Procs : Blocked(p)
                 PROVE  \E n \in Notifiers : Nested(n) /\ n \in waiting
        BY DEF BlockedOnlyByNesting
    <2>1. writer \in Procs /\ pc[writer] \in {"lockIn", "lockOut"} /\ writer \notin waiting
        BY DEF LockTypeOK, AfterRLock
    <2>2. ~Locked(writer)
        BY <2>1 DEF Blocked
    <2>3. PICK p \in Procs : reads[p] # 0
        BY <2>2 DEF Locked
    <2>4. pc[p] \in {"lookup", "snapshot", "range", "inner", "send"}
        BY <2>3 DEF LockTypeOK, Held
    <2>5. p \in waiting
        BY <2>4 DEF Blocked
    <2>6. pc[p] = "inner" /\ reads[p] = 1
        BY <2>4, <2>5 DEF LockTypeOK, AfterRLock, Held
    <2>7. p \in Notifiers
        BY <2>6 DEF LockTypeOK, HandlerPlaces
    <2>8. QED
        BY <2>5, <2>6, <2>7 DEF Nested
<1>2. QED
    BY <1>1, LocksCorrect, PTL
=============================================================================
