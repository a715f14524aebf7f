------------------------------ MODULE AgentAuth ------------------------------
(***************************************************************************)
(* Token authentication of one agent identifier: ConnectStream checks and   *)
(* issues the token, the welcome message carries it, and the agent keeps it *)
(* in memory and in a file.  Several machines may run with the same         *)
(* identifier, which defaults to the host name.                             *)
(***************************************************************************)
EXTENDS Naturals, Sequences

CONSTANTS
    Machines,       \* machines whose agent has this identifier
    Conns,          \* stream attempts, over the whole run
    DialerOf,       \* the machine that dials each stream
    MaxSaveFailures,\* bound: token file writes that fail
    MaxCommands,    \* bound: commands other goroutines send on a stream
    NoConn

ASSUME AuthAssumption ==
    /\ DialerOf \in [Conns -> Machines]
    /\ MaxSaveFailures \in Nat /\ MaxCommands \in Nat
    /\ NoConn \notin Conns

VARIABLES
    stored,       \* the token the server has for this agent (0: none)
    issues,       \* tokens generated so far; tokens are 1, 2, ...
    hpc,          \* where each ConnectStream handler is
    issued,       \* the token each handler generated (0: none)
    registered,   \* Server.agents[agentID]
    conn,         \* the transport of each stream
    supplied,     \* the token in the first message of each stream
    down,         \* the tokens carried by messages to the agent (0: none)
    mem,          \* AgentConfig.AuthToken of each machine's process
    file,         \* its token file
    cleared,      \* bound: machines whose operator has cleared the token once
    failures, commands   \* counters of the two bounds

serverVars == <<stored, issues, hpc, issued, registered>>
agentVars == <<mem, file, cleared, failures>>
vars == <<serverVars, conn, supplied, down, agentVars, commands>>

NoToken == 0
Running == {"hello", "generate", "register", "welcome", "serving"}
Live(c) == conn[c] \in {"dialing", "open"}

Init ==
    /\ stored = NoToken /\ issues = 0
    /\ hpc = [c \in Conns |-> "none"]
    /\ issued = [c \in Conns |-> NoToken]
    /\ registered = NoConn
    /\ conn = [c \in Conns |-> "idle"]
    /\ supplied = [c \in Conns |-> NoToken]
    /\ down = [c \in Conns |-> << >>]
    /\ mem = [m \in Machines |-> NoToken]
    /\ file = [m \in Machines |-> NoToken]
    /\ cleared = {} /\ failures = 0 /\ commands = 0

-----------------------------------------------------------------------------
(* The agent.                                                               *)

\* NewAgent copies the configured token and the first heartbeat presents it.
Dial(c) ==
    /\ conn[c] = "idle"
    /\ \A d \in Conns : DialerOf[d] = DialerOf[c] => ~Live(d)
    /\ conn' = [conn EXCEPT ![c] = "dialing"]
    /\ supplied' = [supplied EXCEPT ![c] = mem[DialerOf[c]]]
    /\ hpc' = [hpc EXCEPT ![c] = "hello"]
    /\ UNCHANGED <<stored, issues, issued, registered, down, agentVars, commands>>

\* Mutant: only the file is written.
SaveFileOnly(m, t) ==
    /\ file' = [file EXCEPT ![m] = t]
    /\ UNCHANGED <<mem, cleared, failures>>

\* SaveAuthToken: in memory first, then to the file, which may fail.
SaveAuthToken(m, t) ==
    /\ mem' = [mem EXCEPT ![m] = t]
    /\ \/ file' = [file EXCEPT ![m] = t] /\ UNCHANGED failures
       \/ failures < MaxSaveFailures /\ failures' = failures + 1 /\ UNCHANGED file
    /\ UNCHANGED cleared

\* WaitForCommands takes the first message for the welcome and captures its
\* token if it has one.
ReceiveWelcome(c) ==
    /\ conn[c] = "dialing"
    /\ down[c] # << >>
    /\ IF Head(down[c]) # NoToken
         THEN SaveAuthToken(DialerOf[c], Head(down[c]))
         ELSE UNCHANGED agentVars
    /\ down' = [down EXCEPT ![c] = Tail(@)]
    /\ conn' = [conn EXCEPT ![c] = "open"]
    /\ UNCHANGED <<serverVars, supplied, commands>>

\* Every later message is dispatched by type: nobody looks at its token.
ReceiveLater(c) ==
    /\ conn[c] = "open"
    /\ down[c] # << >>
    /\ down' = [down EXCEPT ![c] = Tail(@)]
    /\ UNCHANGED <<serverVars, conn, supplied, agentVars, commands>>

\* The agent's process restarts: LoadAgentConfig reads the token file.
Restart(m) ==
    /\ mem' = [mem EXCEPT ![m] = file[m]]
    /\ conn' = [c \in Conns |-> IF DialerOf[c] = m /\ Live(c) THEN "gone" ELSE conn[c]]
    /\ down' = [c \in Conns |-> IF DialerOf[c] = m THEN << >> ELSE down[c]]
    /\ UNCHANGED <<serverVars, supplied, file, cleared, failures, commands>>

\* "Clear the token and reconnect": what the agent tells its operator to do
\* after the server rejected its token.
ClearToken(m) ==
    /\ m \notin cleared
    /\ \E c \in Conns : DialerOf[c] = m /\ hpc[c] = "invalid"
    /\ \A c \in Conns : DialerOf[c] = m => ~Live(c)
    /\ mem' = [mem EXCEPT ![m] = NoToken]
    /\ file' = [file EXCEPT ![m] = NoToken]
    /\ cleared' = cleared \cup {m}
    /\ UNCHANGED <<serverVars, conn, supplied, down, failures, commands>>

\* The stream breaks; the process goes on and may dial again.
Lose(c) ==
    /\ Live(c)
    /\ conn' = [conn EXCEPT ![c] = "gone"]
    /\ down' = [down EXCEPT ![c] = << >>]
    /\ UNCHANGED <<serverVars, supplied, agentVars, commands>>

-----------------------------------------------------------------------------
(* The server.                                                              *)

\* The handler returns an error before registering the stream.
Return(c, why) ==
    /\ hpc' = [hpc EXCEPT ![c] = why]
    /\ conn' = [conn EXCEPT ![c] = "gone"]
    /\ down' = [down EXCEPT ![c] = << >>]

\* Mutant: a returning agent without its token is given a new one.
AlwaysNew(c) == TRUE

\* HasAgentToken finds nothing.
IsNew(c) == stored = NoToken

\* No token supplied: a known agent is rejected, a new one gets a token.
CheckExists(c) ==
    /\ hpc[c] = "hello"
    /\ supplied[c] = NoToken
    /\ IF IsNew(c)
         THEN hpc' = [hpc EXCEPT ![c] = "generate"] /\ UNCHANGED <<conn, down>>
         ELSE Return(c, "mustPresent")
    /\ UNCHANGED <<stored, issues, issued, registered, supplied, agentVars, commands>>

\* A token supplied: ValidateAgentToken.
Validate(c) ==
    /\ hpc[c] = "hello"
    /\ supplied[c] # NoToken
    /\ IF supplied[c] = stored
         THEN hpc' = [hpc EXCEPT ![c] = "register"] /\ UNCHANGED <<conn, down>>
         ELSE Return(c, "invalid")
    /\ UNCHANGED <<stored, issues, issued, registered, supplied, agentVars, commands>>

NewToken(c) == issues + 1

\* GenerateAgentToken and StoreAgentToken.
Issue(c) ==
    /\ hpc[c] = "generate"
    /\ issues' = issues + 1
    /\ stored' = NewToken(c)
    /\ issued' = [issued EXCEPT ![c] = NewToken(c)]
    /\ hpc' = [hpc EXCEPT ![c] = "register"]
    /\ UNCHANGED <<registered, conn, supplied, down, agentVars, commands>>

\* Generating or storing fails and the handler returns.
IssueFails(c) ==
    /\ hpc[c] = "generate"
    /\ Return(c, "returned")
    /\ UNCHANGED <<stored, issues, issued, registered, supplied, agentVars, commands>>

Register(c) ==
    /\ hpc[c] = "register"
    /\ registered' = c
    /\ hpc' = [hpc EXCEPT ![c] = "welcome"]
    /\ UNCHANGED <<stored, issues, issued, conn, supplied, down, agentVars, commands>>

\* Mutant: the welcome goes to the stream registered for the agent.
ToRegistered(c) == IF registered = NoConn THEN c ELSE registered
WelcomeTo(c) == c

Welcome(c) ==
    /\ hpc[c] = "welcome"
    /\ LET s == WelcomeTo(c) IN
         down' = IF Live(s) THEN [down EXCEPT ![s] = Append(@, issued[c])] ELSE down
    /\ hpc' = [hpc EXCEPT ![c] = "serving"]
    /\ UNCHANGED <<stored, issues, issued, registered, conn, supplied, agentVars, commands>>

RemoveOwn(c) == IF registered = c THEN NoConn ELSE registered

\* The handler of a lost stream fails to send or receive and cleans up.
Finish(c) ==
    /\ hpc[c] \in {"welcome", "serving"}
    /\ conn[c] = "gone"
    /\ hpc' = [hpc EXCEPT ![c] = "returned"]
    /\ registered' = RemoveOwn(c)
    /\ UNCHANGED <<stored, issues, issued, conn, supplied, down, agentVars, commands>>

\* Another goroutine, the queue processor or a broadcast, sends a command on
\* the registered stream.
OtherSend ==
    /\ commands < MaxCommands
    /\ registered # NoConn
    /\ commands' = commands + 1
    /\ down' = IF Live(registered)
                 THEN [down EXCEPT ![registered] = Append(@, NoToken)] ELSE down
    /\ UNCHANGED <<serverVars, conn, supplied, agentVars>>

\* The server restarts: the token store outlives it, its handlers do not.
ServerRestart ==
    /\ hpc' = [c \in Conns |-> IF hpc[c] \in Running THEN "returned" ELSE hpc[c]]
    /\ conn' = [c \in Conns |-> IF Live(c) THEN "gone" ELSE conn[c]]
    /\ down' = [c \in Conns |-> << >>]
    /\ registered' = NoConn
    /\ UNCHANGED <<stored, issues, issued, supplied, agentVars, commands>>

-----------------------------------------------------------------------------
Next ==
    \/ \E c \in Conns :
         \/ Dial(c) \/ ReceiveWelcome(c) \/ ReceiveLater(c) \/ Lose(c)
         \/ CheckExists(c) \/ Validate(c) \/ Issue(c) \/ IssueFails(c)
         \/ Register(c) \/ Welcome(c) \/ Finish(c)
    \/ \E m \in Machines : Restart(m) \/ ClearToken(m)
    \/ OtherSend
    \/ ServerRestart

Spec == Init /\ [][Next]_vars

-----------------------------------------------------------------------------
(* Correctness.                                                             *)

Tokens == 0..issues

\* Every variable stays in its domain, no token is in use that was not
\* generated, and a registered stream has a handler (ConnectStream).
TypeOK ==
    /\ issues \in Nat
    /\ stored \in Tokens
    /\ hpc \in [Conns -> Running \cup {"none", "mustPresent", "invalid", "returned"}]
    /\ issued \in [Conns -> Tokens]
    /\ registered \in Conns \cup {NoConn}
    /\ registered # NoConn => hpc[registered] \in {"welcome", "serving"}
    /\ conn \in [Conns -> {"idle", "dialing", "open", "gone"}]
    /\ supplied \in [Conns -> Tokens]
    /\ down \in [Conns -> Seq(Tokens)]
    /\ mem \in [Machines -> Tokens]
    /\ file \in [Machines -> Tokens]
    /\ cleared \subseteq Machines
    /\ failures \in 0..MaxSaveFailures
    /\ commands \in 0..MaxCommands

\* Two machines with the same identifier never hold the same token: the
\* welcome goes to the stream the token was issued for, whatever stream is
\* registered by then.
TokensNotShared ==
    \A m, n \in Machines : mem[m] # NoToken /\ mem[m] = mem[n] => m = n

\* The machine that presents a token is the one it was issued to.
OnlyOwnTokenPresented ==
    \A c, d \in Conns :
        supplied[c] # NoToken /\ supplied[c] = issued[d] => DialerOf[c] = DialerOf[d]

\* A token stays with the machine it was issued to: no other one holds it or
\* presents it, whichever of them registered, restarted or was cleared.
TokensStayWithOwner == TokensNotShared /\ OnlyOwnTokenPresented

\* Once a token is stored and no first connection is between its check and
\* its store, the token is final: no later connection replaces it.
Settled == stored # NoToken /\ \A c \in Conns : hpc[c] # "generate"
SettledTokenIsFinal == [][Settled => Settled' /\ stored' = stored]_vars

\* While no other goroutine sends on its stream, an agent that has received
\* its welcome holds the token it was issued, even if it could not write the
\* file.
IssuedTokenIsHeld ==
    \A c \in Conns :
        commands = 0 /\ conn[c] = "open" /\ issued[c] # NoToken
            => mem[DialerOf[c]] = issued[c]
=============================================================================
