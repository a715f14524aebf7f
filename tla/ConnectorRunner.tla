---------------------------- MODULE ConnectorRunner ----------------------------
(***************************************************************************)
(* The connector runner (internal/family/sirius/connector/runner.go), the  *)
(* receive loop of the agents it starts (internal/agent/agent.go) and the  *)
(* listener of the main function (internal/cmd/server.go).                 *)
(*                                                                         *)
(* Callers use Start, Stop and Reconnect of one Runner concurrently.  Each *)
(* Start that connects makes a new agent with a context, a connection and  *)
(* a receive loop of its own; an agent that was stopped may still be       *)
(* running its last command when the next one connects.  The loop handles  *)
(* one message at a time, a command is run where it is received, and the   *)
(* process ends where a command panics.                                    *)
(***************************************************************************)
EXTENDS CommandDispatch, FiniteSets

CONSTANTS
    Callers,       \* goroutines that use the runner
    MaxAgents,     \* bound: agents made
    MaxCommands,   \* bound: commands a connection delivers after the welcome
    Texts          \* commands the server sends

ASSUME RunnerAssumption ==
    MaxAgents \in Nat \ {0} /\ MaxCommands \in Nat /\ \A text \in Texts : text \in Seq(STRING)

Agents == 1..MaxAgents
NoAgent == 0

VARIABLES
    alive,      \* the process has not panicked
    started,    \* r.started
    starting,   \* r.starting
    agent,      \* r.agent and r.cancel, which are replaced together
    lastErr,    \* the agent whose error r.lastErr is, NoAgent when it is nil
    errCh,      \* r.errCh: the agents whose end waits to be read
    call,       \* where each caller is
    own,        \* the agent that a Start in progress makes
    context,    \* of each agent: "none", "open" or "cancelled"
    link,       \* its connection: "none", "open" or "closed"
    synced,     \* whether it has a template sync manager
    loop,       \* where its receive loop is
    received,   \* the commands its connection delivered, the welcome first
    answers,    \* the results it sent
    outcome,    \* how the command it has just run went
    repo,       \* RepoCommand.repoIntegration
    listener    \* main: "away", "listening" or "told"

runner == <<started, starting, agent>>
ends == <<lastErr, errCh, listener>>
agents == <<context, link, synced, loop, received, answers, outcome>>
vars == <<alive, runner, ends, call, own, agents, repo>>

Init ==
    /\ alive = TRUE
    /\ started = FALSE /\ starting = FALSE /\ agent = NoAgent
    /\ lastErr = NoAgent /\ errCh = <<>> /\ listener = "away"
    /\ call = [c \in Callers |-> "idle"] /\ own = [c \in Callers |-> NoAgent]
    /\ context = [k \in Agents |-> "none"] /\ link = [k \in Agents |-> "none"]
    /\ synced = [k \in Agents |-> FALSE]
    /\ loop = [k \in Agents |-> "none"]
    /\ received = [k \in Agents |-> <<>>] /\ answers = [k \in Agents |-> <<>>]
    /\ outcome = [k \in Agents |-> "none"]
    /\ repo = "none"

\* The registry does not change after the init functions: one look-up per text.
Commands == Texts \cup {Status}
CommandOf == [text \in Commands |-> Dispatched(text)]
ArgumentsOf == [text \in Commands |-> Arguments(text)]

Unused == {k \in Agents : context[k] = "none"}
At(c, place) == call' = [call EXCEPT ![c] = place]

-----------------------------------------------------------------------------
(***************************************************************************)
(* Start: the lock is held to claim starting, to install the agent and to  *)
(* give starting back, and not while it connects.                          *)
(***************************************************************************)
\* Mutant: a Start in progress is not looked at.
MayStartTwice == ~started

MayStart == ~started /\ ~starting

Claim(c) ==
    /\ MayStart /\ Unused # {}
    /\ LET k == CHOOSE k \in Unused : \A m \in Unused : k <= m IN
         /\ own' = [own EXCEPT ![c] = k]
         /\ context' = [context EXCEPT ![k] = "open"]
    /\ starting' = TRUE
    /\ At(c, "connect")
    /\ UNCHANGED <<alive, started, agent, ends, link, synced, loop, received, answers, outcome, repo>>

Start(c) == alive /\ call[c] \in {"idle", "again"} /\ Claim(c)

\* Start returns nil, and Reconnect with it, when the runner runs or is starting.
StartReturns(c) ==
    /\ alive /\ call[c] = "again" /\ ~MayStart
    /\ At(c, "idle")
    /\ UNCHANGED <<alive, runner, ends, own, agents, repo>>

ConnectFails(c) ==
    /\ alive /\ call[c] = "connect"
    /\ context' = [context EXCEPT ![own[c]] = "cancelled"]
    /\ At(c, "release")
    /\ UNCHANGED <<alive, runner, ends, own, link, synced, loop, received, answers, outcome, repo>>

\* The repository integration may fail to initialize: the agent then runs
\* without a sync manager.
Connect(c) ==
    /\ alive /\ call[c] = "connect"
    /\ link' = [link EXCEPT ![own[c]] = "open"]
    /\ \E initialized \in BOOLEAN : synced' = [synced EXCEPT ![own[c]] = initialized]
    /\ At(c, "install")
    /\ UNCHANGED <<alive, runner, ends, own, context, loop, received, answers, outcome, repo>>

Install(c) ==
    /\ alive /\ call[c] = "install"
    /\ started' = TRUE /\ agent' = own[c] /\ lastErr' = NoAgent
    /\ loop' = [loop EXCEPT ![own[c]] = "hello"]
    /\ At(c, "release")
    /\ UNCHANGED <<alive, starting, errCh, listener, own, context, link, synced, received, answers, outcome, repo>>

Release(c) ==
    /\ alive /\ call[c] = "release"
    /\ starting' = FALSE
    /\ own' = [own EXCEPT ![c] = NoAgent]
    /\ At(c, "idle")
    /\ UNCHANGED <<alive, started, agent, ends, agents, repo>>

(***************************************************************************)
(* Stop and Reconnect: a runner that has not started, one that is          *)
(* connecting included, is left as it is.                                  *)
(***************************************************************************)
Shut(k) ==
    /\ context' = [context EXCEPT ![k] = "cancelled"]
    /\ link' = [link EXCEPT ![k] = "closed"]

StopAnd(c, next) ==
    /\ alive /\ call[c] = "idle"
    /\ IF started THEN Shut(agent) ELSE UNCHANGED <<context, link>>
    /\ started' = FALSE
    /\ At(c, next)
    /\ UNCHANGED <<alive, starting, agent, ends, own, synced, loop, received, answers, outcome, repo>>

Stop(c) == started /\ StopAnd(c, "idle")
Reconnect(c) == StopAnd(c, "again")

-----------------------------------------------------------------------------
(***************************************************************************)
(* The receive loop.  hello: the authenticated heartbeat and the welcome,  *)
(* whose command is handled like any other.                                *)
(***************************************************************************)
LinkLost(k) ==
    /\ alive /\ link[k] = "open"
    /\ link' = [link EXCEPT ![k] = "closed"]
    /\ UNCHANGED <<alive, runner, ends, call, own, context, synced, loop, received, answers, outcome, repo>>

Deliver(k, text) ==
    /\ received' = [received EXCEPT ![k] = Append(@, text)]
    /\ loop' = [loop EXCEPT ![k] = "run"]
    /\ UNCHANGED <<alive, runner, ends, call, own, context, link, synced, answers, outcome, repo>>

Receive(k) ==
    /\ alive /\ link[k] = "open" /\ context[k] = "open"
    /\ \/ loop[k] = "hello" /\ Deliver(k, Status)
       \/ /\ loop[k] = "receive" /\ Len(received[k]) <= MaxCommands
          /\ \E text \in Texts : Deliver(k, text)

\* Send or Recv fails: the error of a cancelled stream is not context.Canceled,
\* so that a stopped agent leaves its error as well.
Fails(k) ==
    /\ alive /\ loop[k] \in {"hello", "receive"}
    /\ link[k] = "closed" \/ context[k] = "cancelled"
    /\ lastErr' = k
    /\ loop' = [loop EXCEPT ![k] = "ended"]
    /\ UNCHANGED <<alive, runner, errCh, listener, call, own, context, link, synced, received, answers, outcome, repo>>

Job(k) == Last(received[k])

Returned(k, result) ==
    /\ outcome' = [outcome EXCEPT ![k] = result]
    /\ alive' = (result # "panic")

\* A command that takes its time ends when the context of its agent is
\* cancelled, for the processes it started are killed then.
Run(k) ==
    /\ alive /\ loop[k] = "run"
    /\ CommandOf[Job(k)] # Repo
    /\ \E result \in Returns(CommandOf[Job(k)], ArgumentsOf[Job(k)], synced[k]) : Returned(k, result)
    /\ loop' = [loop EXCEPT ![k] = "answer"]
    /\ UNCHANGED <<runner, ends, call, own, context, link, synced, received, answers, repo>>

RunRepo(k) ==
    /\ alive /\ loop[k] = "run" /\ CommandOf[Job(k)] = Repo
    /\ repo' \in RepoAfter(repo)
    /\ \E result \in RepoReturns(ArgumentsOf[Job(k)], repo, repo') : Returned(k, result)
    /\ loop' = [loop EXCEPT ![k] = "answer"]
    /\ UNCHANGED <<runner, ends, call, own, context, link, synced, received, answers>>

\* A result that cannot be sent is dropped.
Sent(k) == <<[command |-> Job(k), ran |-> CommandOf[Job(k)]]>>

Answer(k) ==
    /\ alive /\ loop[k] = "answer"
    /\ IF link[k] = "open" /\ context[k] = "open"
       THEN answers' = [answers EXCEPT ![k] = @ \o Sent(k)]
       ELSE UNCHANGED answers
    /\ outcome' = [outcome EXCEPT ![k] = "none"]
    /\ loop' = [loop EXCEPT ![k] = IF context[k] = "cancelled" /\ Len(received[k]) > 1 THEN "ended" ELSE "receive"]
    /\ UNCHANGED <<alive, runner, ends, call, own, context, link, synced, received, repo>>

\* Mutant: a channel without room, so that only a waiting listener is told.
ToldUnbuffered(k) == IF listener = "listening" THEN <<k>> ELSE errCh

\* The end goes to errCh unless an earlier one still waits there.
Told(k) == IF Len(errCh) < 1 THEN <<k>> ELSE errCh

\* Mutant: the goroutine waits until its end is read.
ReportWaits(k) ==
    /\ alive /\ loop[k] = "ended" /\ errCh = <<>>
    /\ errCh' = <<k>>
    /\ loop' = [loop EXCEPT ![k] = "done"]
    /\ UNCHANGED <<alive, runner, lastErr, listener, call, own, context, link, synced, received, answers, outcome, repo>>

Report(k) ==
    /\ alive /\ loop[k] = "ended"
    /\ errCh' = Told(k)
    /\ loop' = [loop EXCEPT ![k] = "done"]
    /\ UNCHANGED <<alive, runner, lastErr, listener, call, own, context, link, synced, received, answers, outcome, repo>>

(***************************************************************************)
(* main: a goroutine reads one end, whichever agent's it is, and the       *)
(* process shuts down.                                                     *)
(***************************************************************************)
Listen ==
    /\ alive /\ listener = "away"
    /\ listener' = "listening"
    /\ UNCHANGED <<alive, runner, lastErr, errCh, call, own, agents, repo>>

Hear ==
    /\ alive /\ listener = "listening" /\ errCh # <<>>
    /\ listener' = "told" /\ errCh' = <<>>
    /\ UNCHANGED <<alive, runner, lastErr, call, own, agents, repo>>

Ends(k) == Fails(k) \/ Answer(k) \/ Report(k)

Next ==
    \/ \E c \in Callers :
         \/ Start(c) \/ StartReturns(c) \/ ConnectFails(c) \/ Connect(c) \/ Install(c) \/ Release(c)
         \/ Stop(c) \/ Reconnect(c)
    \/ \E k \in Agents : LinkLost(k) \/ Receive(k) \/ Run(k) \/ RunRepo(k) \/ Ends(k)
    \/ Listen \/ Hear

\* A goroutine that can take a step takes it.  That a command which starts a
\* process ends is assumed only once its context is cancelled.
Ending(k) == loop[k] = "run" /\ (context[k] = "cancelled" \/ ~Lasting(CommandOf[Job(k)])) /\ Run(k)
Steps(k) == Ends(k) \/ RunRepo(k) \/ Ending(k)

Fairness == \A k \in Agents : WF_vars(Steps(k))

Spec == Init /\ [][Next]_vars /\ Fairness

-----------------------------------------------------------------------------
TypeOK ==
    /\ alive \in BOOLEAN /\ started \in BOOLEAN /\ starting \in BOOLEAN
    /\ agent \in Agents \cup {NoAgent} /\ lastErr \in Agents \cup {NoAgent}
    /\ errCh \in Seq(Agents) /\ Len(errCh) <= 1
    /\ call \in [Callers -> {"idle", "connect", "install", "release", "again"}]
    /\ own \in [Callers -> Agents \cup {NoAgent}]
    /\ context \in [Agents -> {"none", "open", "cancelled"}]
    /\ link \in [Agents -> {"none", "open", "closed"}]
    /\ loop \in [Agents -> {"none", "hello", "receive", "run", "answer", "ended", "done"}]
    /\ repo \in RepoStates
    /\ listener \in {"away", "listening", "told"}

\* Whatever order the callers' Starts, Stops and Reconnects take, at most one
\* agent has a context that nobody cancelled, and the runner knows it or the one
\* Start in progress does: a later Stop can end it (runner.go, mu).
NoStrayAgent ==
    \A k \in Agents : context[k] = "open" =>
        /\ \A m \in Agents \ {k} : context[m] # "open"
        /\ \/ started /\ agent = k
           \/ starting /\ \E c \in Callers : own[c] = k

MeantBy == [text \in Commands |-> Meant(text)]

\* A connection carries the answers to its commands in the order of the commands,
\* at most one for each, and each was run by the command that the longest
\* registered name at its start stands for (Dispatch, processCommandString).
AnsweredInOrder ==
    \A k \in Agents : \E answered \in SUBSET (1..Len(received[k])) :
        /\ Cardinality(answered) = Len(answers[k])
        /\ \A i \in answered :
             LET answer == answers[k][Cardinality(answered \cap 1..i)] IN
             answer.command = received[k][i] /\ answer.ran = MeantBy[received[k][i]]

\* No command ends the process but the validation of the repository, whose
\* integration never gets a manager to ask (ValidateRepositoryContent).
OnlyValidateKills ==
    ~alive => \E k \in Agents :
        loop[k] = "answer" /\ CommandOf[Job(k)] = Repo /\ ArgumentsOf[Job(k)] = <<" validate">>

\* The commands of a connection are served in order, by the command they name,
\* and none but the one above takes the process with it.
CommandsServed == AnsweredInOrder /\ OnlyValidateKills

\* Once its context is cancelled, the goroutine of an agent ends, whatever
\* command it is running (WaitForCommands).
StoppedEnds ==
    \A k \in Agents : context[k] = "cancelled" /\ loop[k] # "none" ~> loop[k] = "done" \/ ~alive

\* Once an agent has ended, main has heard of an end or will hear of one when it
\* comes to listen (errCh).
NoEndLost == (\E k \in Agents : loop[k] = "done") => listener = "told" \/ errCh # <<>>
=============================================================================
