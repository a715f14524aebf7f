--------------------------- MODULE AgentBroadcast ---------------------------
(***************************************************************************)
(* Server.agentsMutex and the goroutines that contend for it: stream       *)
(* handlers that write the registry and then read it for the connected     *)
(* list, and the queue consumers that broadcast "internal:template sync"   *)
(* holding the read lock while SendCommandToAgent takes it again.          *)
(***************************************************************************)
EXTENDS Naturals

CONSTANTS
    AgentIds,     \* agent identifiers
    Handlers,     \* one ConnectStream goroutine per agent slot
    AgentOf,      \* the agent each handler registers and removes
    Notifiers,    \* goroutines that run notifyAgents
    NoProc

ASSUME BroadcastAssumption ==
    /\ AgentOf \in [Handlers -> AgentIds]
    /\ Handlers \cap Notifiers = {}
    /\ NoProc \notin Handlers \cup Notifiers

Procs == Handlers \cup Notifiers

VARIABLES
    pc,
    reads,        \* how many read locks each goroutine holds
    waiting,      \* goroutines blocked in RLock behind a writer
    writer,       \* the goroutine in Lock, waiting for readers or holding
    registered,   \* the keys of Server.agents
    todo,         \* the keys a broadcast's range loop has still to visit
    target,       \* the agent a broadcast is sending to
    notified      \* the agents it has sent the command to

lockVars == <<reads, waiting, writer>>
loopVars == <<todo, target, notified>>
broadcastVars == <<pc, lockVars, registered, loopVars>>

\* Where each goroutine calls RLock, and where it goes once it has it.
AfterRLock == [sync |-> "snapshot", outer |-> "range", inner |-> "lookup"]

LockInit ==
    /\ pc = [p \in Procs |-> IF p \in Handlers THEN "out" ELSE "idle"]
    /\ reads = [p \in Procs |-> 0]
    /\ waiting = {}
    /\ writer = NoProc
    /\ registered = {}
    /\ todo = [n \in Notifiers |-> {}]
    /\ target = [n \in Notifiers |-> {}]
    /\ notified = [n \in Notifiers |-> {}]

Goto(p, where) == pc' = [pc EXCEPT ![p] = where]

-----------------------------------------------------------------------------
(* sync.RWMutex: a writer that has announced itself holds back every later  *)
(* RLock until it unlocks, and then all of them get the lock.               *)

\* The registry is in use when a loop starts: its keys are what it visits.
StartLoop(p) ==
    IF pc[p] = "outer"
      THEN /\ todo' = [todo EXCEPT ![p] = registered]
           /\ notified' = [notified EXCEPT ![p] = {}]
           /\ UNCHANGED target
      ELSE UNCHANGED loopVars

RLock(p) ==
    /\ pc[p] \in DOMAIN AfterRLock
    /\ writer = NoProc
    /\ reads' = [reads EXCEPT ![p] = @ + 1]
    /\ Goto(p, AfterRLock[pc[p]])
    /\ StartLoop(p)
    /\ UNCHANGED <<waiting, writer, registered>>

RLockBlocks(p) ==
    /\ pc[p] \in DOMAIN AfterRLock
    /\ writer # NoProc
    /\ p \notin waiting
    /\ waiting' = waiting \cup {p}
    /\ UNCHANGED <<pc, reads, writer, registered, loopVars>>

Released(p) == reads' = [reads EXCEPT ![p] = @ - 1]

Announce(h) ==
    /\ pc[h] \in {"lockIn", "lockOut"}
    /\ writer = NoProc
    /\ writer' = h
    /\ UNCHANGED <<pc, reads, waiting, registered, loopVars>>

\* The writer has the lock once every reader that was in has left.
Locked(h) == writer = h /\ \A p \in Procs : reads[p] = 0

\* Unlock lets in every waiting reader before the next writer.
Unlock(h) ==
    /\ writer' = NoProc
    /\ reads' = [p \in Procs |-> IF p \in waiting THEN reads[p] + 1 ELSE reads[p]]
    /\ pc' = [p \in Procs |->
                IF p = h THEN "sync"
                ELSE IF p \in waiting THEN AfterRLock[pc[p]] ELSE pc[p]]
    /\ todo' = [n \in Notifiers |->
                  IF n \in waiting /\ pc[n] = "outer" THEN registered' ELSE todo[n]]
    /\ notified' = [n \in Notifiers |->
                  IF n \in waiting /\ pc[n] = "outer" THEN {} ELSE notified[n]]
    /\ waiting' = {}
    /\ UNCHANGED target

-----------------------------------------------------------------------------
(* ConnectStream: the agent is registered and, when its stream ends,        *)
(* removed; after each, syncConnectedAgentsToValKey reads the registry.     *)

Connect(h) ==
    /\ pc[h] = "out"
    /\ Goto(h, IF AgentOf[h] \in registered THEN "lockOut" ELSE "lockIn")
    /\ UNCHANGED <<lockVars, registered, loopVars>>

Write(h) ==
    /\ pc[h] \in {"lockIn", "lockOut"}
    /\ Locked(h)
    /\ registered' = IF pc[h] = "lockIn" THEN registered \cup {AgentOf[h]}
                                         ELSE registered \ {AgentOf[h]}
    /\ Unlock(h)

Snapshot(h) ==
    /\ pc[h] = "snapshot"
    /\ Released(h)
    /\ Goto(h, "out")
    /\ UNCHANGED <<waiting, writer, registered, loopVars>>

-----------------------------------------------------------------------------
(* notifyAgents, for a notify_agents job, an engine.commands event or the   *)
(* end of a repository sync.                                                *)

\* Mutant: the read lock is not taken around the loop.
NotifyWithoutLock(n) ==
    /\ pc[n] = "idle"
    /\ Goto(n, "range")
    /\ todo' = [todo EXCEPT ![n] = registered]
    /\ notified' = [notified EXCEPT ![n] = {}]
    /\ UNCHANGED <<lockVars, registered, target>>

Notify(n) ==
    /\ pc[n] = "idle"
    /\ Goto(n, "outer")
    /\ UNCHANGED <<lockVars, registered, loopVars>>

\* The next key of the range loop: SendCommandToAgent begins with RLock.
VisitAgent(n) ==
    /\ pc[n] = "range"
    /\ \E a \in todo[n] :
         /\ target' = [target EXCEPT ![n] = {a}]
         /\ todo' = [todo EXCEPT ![n] = @ \ {a}]
    /\ Goto(n, "inner")
    /\ UNCHANGED <<lockVars, registered, notified>>

\* SendCommandToAgent releases its read lock after the lookup, then Sends.
LookupAgent(n) ==
    /\ pc[n] = "lookup"
    /\ Released(n)
    /\ Goto(n, IF target[n] \subseteq registered THEN "send" ELSE "range")
    /\ UNCHANGED <<waiting, writer, registered, loopVars>>

SendCommand(n) ==
    /\ pc[n] = "send"
    /\ notified' = [notified EXCEPT ![n] = @ \cup target[n]]
    /\ target' = [target EXCEPT ![n] = {}]
    /\ Goto(n, "range")
    /\ UNCHANGED <<lockVars, registered, todo>>

\* Mutant: the read lock is not released.
EndLoopKeepsLock(n) ==
    /\ pc[n] = "range"
    /\ todo[n] = {}
    /\ Goto(n, "idle")
    /\ UNCHANGED <<lockVars, registered, loopVars>>

EndLoop(n) ==
    /\ pc[n] = "range"
    /\ todo[n] = {}
    /\ Released(n)
    /\ Goto(n, "idle")
    /\ UNCHANGED <<waiting, writer, registered, loopVars>>

-----------------------------------------------------------------------------
HandlerStep(h) == RLock(h) \/ RLockBlocks(h) \/ Announce(h) \/ Write(h) \/ Snapshot(h)
NotifierStep(n) ==
    RLock(n) \/ RLockBlocks(n) \/ VisitAgent(n) \/ LookupAgent(n) \/ SendCommand(n) \/ EndLoop(n)

LockNext ==
    \/ \E h \in Handlers : Connect(h) \/ HandlerStep(h)
    \/ \E n \in Notifiers : Notify(n) \/ NotifierStep(n)

LockSpec == LockInit /\ [][LockNext]_broadcastVars

-----------------------------------------------------------------------------
(* Correctness.                                                             *)

Looping(n) == pc[n] \in {"range", "inner", "lookup", "send"}
Nested(n) == pc[n] = "inner" /\ reads[n] = 1

HandlerPlaces == {"out", "lockIn", "lockOut", "sync", "snapshot"}
NotifierPlaces == {"idle", "outer", "range", "inner", "lookup", "send"}

\* The read locks a goroutine holds at each place.
Held(p) == IF pc[p] = "lookup" THEN 2
           ELSE IF pc[p] \in {"snapshot", "range", "inner", "send"} THEN 1 ELSE 0

\* Every variable stays in its domain, a goroutine holds exactly the read
\* locks of the place it is at, and a writer is at Lock (agentsMutex,
\* server.go:96).
LockTypeOK ==
    /\ pc \in [Procs -> HandlerPlaces \cup NotifierPlaces]
    /\ \A h \in Handlers : pc[h] \in HandlerPlaces
    /\ \A n \in Notifiers : pc[n] \in NotifierPlaces
    /\ reads \in [Procs -> 0..2]
    /\ \A p \in Procs : reads[p] = Held(p)
    /\ waiting \subseteq {p \in Procs : pc[p] \in DOMAIN AfterRLock}
    /\ writer \in Handlers \cup {NoProc}
    /\ writer # NoProc => pc[writer] \in {"lockIn", "lockOut"}
    /\ writer = NoProc => waiting = {}
    /\ registered \subseteq AgentIds
    /\ todo \in [Notifiers -> SUBSET AgentIds]
    /\ target \in [Notifiers -> SUBSET AgentIds]
    /\ notified \in [Notifiers -> SUBSET AgentIds]

\* The registry does not change under a broadcast's range loop: every agent
\* it has visited or will visit is still registered, and none was added.
LoopSeesWholeRegistry ==
    \A n \in Notifiers : Looping(n) =>
        notified[n] \cup target[n] \cup todo[n] = registered

\* When no goroutine holding or waiting for the lock can move, a broadcast is
\* waiting in the RLock nested in its own, behind a writer: there is no other
\* way for the registry to be blocked.
Blocked(p) ==
    \/ p \in waiting
    \/ writer # NoProc /\ pc[p] \in {"lockIn", "lockOut"} /\ ~Locked(p)
    \/ pc[p] \in {"out", "idle"}
BlockedOnlyByNesting ==
    writer # NoProc /\ (\A p \in Procs : Blocked(p)) =>
        \E n \in Notifiers : Nested(n) /\ n \in waiting
=============================================================================
