------------------------- MODULE ConnectorRunnerProofs -------------------------
(***************************************************************************)
(* Proofs about the agent process, for any number of callers, agents,      *)
(* commands and texts: which agent a Stop can still end, which command     *)
(* serves a text, and what a connection carries back.                      *)
(***************************************************************************)
EXTENDS ConnectorRunner, FiniteSetTheorems, SequenceTheorems, WellFoundedInduction, TLAPS

\* A Start between its claim and its release.
InStart(c) == call[c] \in {"connect", "install", "release"}

\* One Start at a time has an agent of its own, and until it installs that
\* agent the runner has no other.
StartInv ==
    /\ \A c \in Callers : InStart(c) => starting
    /\ \A c, d \in Callers : InStart(c) /\ InStart(d) => c = d
    /\ \A c \in Callers : own[c] # NoAgent <=> InStart(c)
    /\ \A c \in Callers : call[c] \in {"connect", "install"} => ~started
    /\ started => agent # NoAgent

\* An open context is that of the runner's agent or of the one that a Start is
\* connecting.
ContextInv ==
    \A k \in Agents : context[k] = "open" =>
        \/ started /\ agent = k
        \/ \E c \in Callers : own[c] = k /\ call[c] \in {"connect", "install"}

Results == [command : Commands, ran : {Dispatched(text) : text \in Commands}]

\* What an agent received and answered, and that it works on the last of it.
LogInv ==
    /\ received \in [Agents -> Seq(Commands)]
    /\ answers \in [Agents -> Seq(Results)]
    /\ \A k \in Agents : loop[k] \in {"run", "answer"} => received[k] # << >>

\* The commands of an agent that it may have answered: the one it works on has
\* no answer yet.
Behind(k) == IF loop[k] \in {"run", "answer"} THEN Len(received[k]) - 1 ELSE Len(received[k])

\* The answers are those of the commands numbered by a set, in order.
Answers(k, answered) ==
    /\ Cardinality(answered) = Len(answers[k])
    /\ \A i \in answered :
         LET answer == answers[k][Cardinality(answered \cap 1..i)] IN
         answer.command = received[k][i] /\ answer.ran = MeantBy[received[k][i]]

OrderInv == \A k \in Agents : \E answered \in SUBSET (1..Behind(k)) : Answers(k, answered)

ProcessInv == TypeOK /\ StartInv /\ ContextInv /\ LogInv /\ OrderInv /\ OnlyValidateKills /\ NoEndLost
-----------------------------------------------------------------------------
(* The registry.                                                            *)

\* The fragments that the names are made of.
NameFragments ==
    {"internal:", "status", "scan", "template", "-scan", " sync", "sync", "repo",
     "list-", "templates", "discover", "-templates", "help", " templates", "tscan", "inventory", "software", "info", "sitory"}

LEMMA NamesAreSequences == Names \subseteq Seq(NameFragments)
<1>1. /\ Status \in Seq(NameFragments) /\ Scan \in Seq(NameFragments) /\ Sync \in Seq(NameFragments)
      /\ Repo \in Seq(NameFragments) /\ Help \in Seq(NameFragments) /\ PlainHelp \in Seq(NameFragments)
  BY DEF Status, Scan, Sync, Repo, Help, PlainHelp, NameFragments
<1>2. /\ TemplateScan \in Seq(NameFragments) /\ TemplateSync \in Seq(NameFragments)
      /\ ListTemplates \in Seq(NameFragments) /\ Discover \in Seq(NameFragments)
  BY DEF TemplateScan, TemplateSync, ListTemplates, Discover, NameFragments
<1>3. Registered \subseteq Seq(NameFragments)
  BY <1>1, <1>2 DEF Registered
<1>4. ASSUME NEW pair \in AliasPairs
      PROVE  pair[1] \in Seq(NameFragments)
  <2>1. \E a \in Seq(NameFragments) : \E c : pair = <<a, c>>
    <3>1. /\ <<"template", " sync">> \in Seq(NameFragments) /\ <<"sync", " templates">> \in Seq(NameFragments)
          /\ <<"template", "-scan">> \in Seq(NameFragments) /\ <<"repo", "sitory">> \in Seq(NameFragments)
          /\ <<"list-", "templates">> \in Seq(NameFragments)
          /\ <<"discover", "-templates">> \in Seq(NameFragments)
      BY DEF NameFragments
    <3>2. /\ <<"scan">> \in Seq(NameFragments) /\ <<"tscan">> \in Seq(NameFragments)
          /\ <<"inventory">> \in Seq(NameFragments) /\ <<"software">> \in Seq(NameFragments)
          /\ <<"status">> \in Seq(NameFragments) /\ <<"info">> \in Seq(NameFragments)
          /\ <<"repo">> \in Seq(NameFragments) /\ <<"sync">> \in Seq(NameFragments)
          /\ <<"templates">> \in Seq(NameFragments) /\ <<"discover">> \in Seq(NameFragments)
      BY DEF NameFragments
    <3> QED BY <3>1, <3>2, Zenon DEF AliasPairs
  <2> QED BY <2>1
<1> QED BY <1>3, <1>4 DEF Names, Aliases

\* A text starts with another one when it agrees with it as far as that goes.
LEMMA PrefixAgrees ==
    ASSUME NEW S, NEW s \in Seq(S), NEW t \in Seq(S)
    PROVE  IsPrefix(s, t) <=> Len(s) <= Len(t) /\ \A i \in 1..Len(s) : s[i] = t[i]
BY DEF IsPrefix

\* Of two names that start one text, the longer one starts with the other.
LEMMA PrefixesNest ==
    ASSUME NEW S, NEW text \in Seq(S), NEW a \in Seq(S), NEW b \in Seq(S),
           IsPrefix(a, text), IsPrefix(b, text)
    PROVE  /\ IsPrefix(a, b) <=> Len(a) <= Len(b)
           /\ Len(a) = Len(b) => a = b
<1>1. /\ Len(a) <= Len(text) /\ \A i \in 1..Len(a) : a[i] = text[i]
      /\ Len(b) <= Len(text) /\ \A i \in 1..Len(b) : b[i] = text[i]
  BY PrefixAgrees
<1>2. IsPrefix(a, b) <=> Len(a) <= Len(b)
  BY <1>1, PrefixAgrees
<1>3. Len(a) = Len(b) => a = b
  BY <1>1
<1> QED BY <1>2, <1>3

\* Dispatch, which takes the first matching name in the order of their lengths,
\* takes the longest registered name that the text starts with, whatever the
\* text is (sortPrefixesLocked, Dispatch).
THEOREM DispatchIsMeant ==
    ASSUME NEW S, NEW text \in Seq(S)
    PROVE  Dispatched(text) = Meant(text)
<1> DEFINE F == S \cup NameFragments
<1>0. text \in Seq(F) /\ Names \subseteq Seq(F)
  <2>1. S \subseteq F /\ NameFragments \subseteq F
    OBVIOUS
  <2>2. text \in Seq(F) /\ \A a \in Seq(NameFragments) : a \in Seq(F)
    BY <2>1, SeqMonotonic
  <2> QED BY <2>2, NamesAreSequences
<1> HIDE DEF F
<1>1. \A a \in Matching(text) : a \in Seq(F) /\ IsPrefix(a, text) /\ Len(a) \in Nat
  BY <1>0 DEF Matching
<1>2. ASSUME NEW a \in Matching(text)
      PROVE  (\A b \in Matching(text) \ {a} : Before(a, b)) <=> (\A m \in Matching(text) : IsPrefix(m, a))
  <2>1. ASSUME \A b \in Matching(text) \ {a} : Before(a, b), NEW m \in Matching(text)
        PROVE  IsPrefix(m, a)
    <3>1. Len(m) <= Len(a)
      BY <1>1, <2>1 DEF Before
    <3> QED BY <1>0, <1>1, <3>1, PrefixesNest
  <2>2. ASSUME \A m \in Matching(text) : IsPrefix(m, a), NEW b \in Matching(text) \ {a}
        PROVE  Before(a, b)
    <3>1. IsPrefix(b, a) /\ b # a
      BY <2>2
    <3>2. Len(b) <= Len(a) /\ Len(b) # Len(a)
      BY <1>0, <1>1, <3>1, PrefixesNest
    <3> QED BY <1>1, <3>2 DEF Before
  <2> QED BY <2>1, <2>2
<1>3. First(Matching(text)) = LongestName(text)
  BY <1>2 DEF First, LongestName
<1> QED BY <1>3 DEF Dispatched, Meant

-----------------------------------------------------------------------------
(* Types.                                                                   *)

\* A set of numbers has a smallest one.
LEMMA SmallestOf ==
    ASSUME NEW T, T \subseteq Nat, T # {}
    PROVE  \E x \in T : \A y \in T : x <= y
<1>1. PICK x \in T : \A y \in T : <<y, x>> \notin OpToRel(<, Nat)
  BY NatLessThanWellFounded, WFMin, Zenon
<1>2. \A y \in T : ~(y < x)
  BY <1>1 DEF OpToRel
<1> QED BY <1>2

\* The agent that a Start makes has no context yet.
LEMMA FreshAgent ==
    ASSUME Unused # {}
    PROVE  (CHOOSE k \in Unused : \A m \in Unused : k <= m) \in Unused
<1>1. Unused \subseteq Nat
  BY RunnerAssumption DEF Unused, Agents
<1> QED BY <1>1, SmallestOf

LEMMA TypeInit == Init => TypeOK
<1> SUFFICES ASSUME Init PROVE TypeOK
  OBVIOUS
<1>1. errCh \in Seq(Agents) /\ Len(errCh) <= 1
  BY DEF Init
<1> QED BY <1>1 DEF Init, TypeOK, RepoStates

LEMMA TypeStep == TypeOK /\ [Next]_vars => TypeOK'
<1> SUFFICES ASSUME TypeOK, [Next]_vars PROVE TypeOK'
  OBVIOUS
<1>1. ASSUME NEW c \in Callers, Start(c)
      PROVE  TypeOK'
  <2>1. PICK k \in Agents : own' = [own EXCEPT ![c] = k] /\ context' = [context EXCEPT ![k] = "open"]
    BY <1>1, FreshAgent DEF Start, Claim, Unused
  <2>2. /\ starting' = TRUE /\ call' = [call EXCEPT ![c] = "connect"]
        /\ UNCHANGED <<alive, started, agent, lastErr, errCh, listener, link, loop, repo>>
    BY <1>1 DEF Start, Claim, At, ends
  <2> QED BY <2>1, <2>2 DEF TypeOK
<1>2. ASSUME NEW c \in Callers, StartReturns(c)
      PROVE  TypeOK'
  BY <1>2 DEF StartReturns, At, TypeOK, runner, ends, agents
<1>3. ASSUME NEW c \in Callers, ConnectFails(c)
      PROVE  TypeOK'
  BY <1>3 DEF ConnectFails, At, TypeOK, runner, ends
<1>4. ASSUME NEW c \in Callers, Connect(c)
      PROVE  TypeOK'
  BY <1>4 DEF Connect, At, TypeOK, runner, ends
<1>5. ASSUME NEW c \in Callers, Install(c)
      PROVE  TypeOK'
  BY <1>5 DEF Install, At, TypeOK
<1>6. ASSUME NEW c \in Callers, Release(c)
      PROVE  TypeOK'
  BY <1>6 DEF Release, At, TypeOK, ends, agents
<1>7. ASSUME NEW c \in Callers, Stop(c) \/ Reconnect(c)
      PROVE  TypeOK'
  <2>1. PICK next \in {"idle", "again"} : StopAnd(c, next)
    BY <1>7 DEF Stop, Reconnect
  <2>2. context' \in [Agents -> {"none", "open", "cancelled"}]
    BY <2>1 DEF StopAnd, Shut, TypeOK
  <2>3. link' \in [Agents -> {"none", "open", "closed"}]
    BY <2>1 DEF StopAnd, Shut, TypeOK
  <2> QED BY <2>1, <2>2, <2>3 DEF StopAnd, At, TypeOK, ends
<1>8. ASSUME NEW k \in Agents, LinkLost(k)
      PROVE  TypeOK'
  BY <1>8 DEF LinkLost, TypeOK, runner, ends
<1>9. ASSUME NEW k \in Agents, Receive(k)
      PROVE  TypeOK'
  <2>1. PICK text : Deliver(k, text)
    BY <1>9 DEF Receive
  <2> QED BY <2>1 DEF Deliver, TypeOK, runner, ends
<1>10. ASSUME NEW k \in Agents, Run(k)
       PROVE  TypeOK'
  <2>1. alive' \in BOOLEAN
    BY <1>10 DEF Run, Returned
  <2> QED BY <1>10, <2>1 DEF Run, TypeOK, runner, ends
<1>11. ASSUME NEW k \in Agents, RunRepo(k)
       PROVE  TypeOK'
  <2>1. alive' \in BOOLEAN
    BY <1>11 DEF RunRepo, Returned
  <2>2. repo' \in RepoStates
    BY <1>11 DEF RunRepo, RepoAfter, RepoStates, TypeOK
  <2> QED BY <1>11, <2>1, <2>2 DEF RunRepo, TypeOK, runner, ends
<1>12. ASSUME NEW k \in Agents, Fails(k)
       PROVE  TypeOK'
  BY <1>12 DEF Fails, TypeOK, runner
<1>13. ASSUME NEW k \in Agents, Answer(k)
       PROVE  TypeOK'
  BY <1>13 DEF Answer, TypeOK, runner, ends
<1>14. ASSUME NEW k \in Agents, Report(k)
       PROVE  TypeOK'
  <2>1. errCh' \in Seq(Agents) /\ Len(errCh') <= 1
    BY <1>14 DEF Report, Told, TypeOK
  <2> QED BY <1>14, <2>1 DEF Report, TypeOK, runner
<1>15. CASE Listen \/ Hear
  <2>1. errCh' \in Seq(Agents) /\ Len(errCh') <= 1
    <3>1. errCh' = errCh \/ errCh' = << >>
      BY <1>15 DEF Listen, Hear
    <3>2. CASE errCh' = errCh
      BY <3>2 DEF TypeOK
    <3>3. CASE errCh' = << >>
      BY <3>3
    <3> QED BY <3>1, <3>2, <3>3
  <2> QED BY <1>15, <2>1 DEF Listen, Hear, TypeOK, runner, agents
<1>16. CASE UNCHANGED vars
  BY <1>16 DEF vars, TypeOK, runner, ends, agents
<1> QED BY <1>1, <1>2, <1>3, <1>4, <1>5, <1>6, <1>7, <1>8, <1>9, <1>10, <1>11, <1>12, <1>13, <1>14,
           <1>15, <1>16 DEF Next, Ends

-----------------------------------------------------------------------------
(* The runner.                                                              *)

\* The claim of a Start comes when no other Start is in progress.
LEMMA StartStep == TypeOK /\ StartInv /\ [Next]_vars => StartInv'
<1> SUFFICES ASSUME TypeOK, StartInv, [Next]_vars PROVE StartInv'
  OBVIOUS
<1>1. ASSUME NEW c \in Callers, Start(c)
      PROVE  StartInv'
  <2>1. PICK k \in Agents : own' = [own EXCEPT ![c] = k]
    BY <1>1, FreshAgent DEF Start, Claim, Unused
  <2>2. k # NoAgent
    BY <2>1, RunnerAssumption DEF Agents, NoAgent
  <2>3. /\ ~started /\ ~starting /\ starting' = TRUE /\ call' = [call EXCEPT ![c] = "connect"]
        /\ started' = started /\ agent' = agent
    BY <1>1 DEF Start, Claim, MayStart, At
  <2>4. \A d \in Callers : ~InStart(d) /\ own[d] = NoAgent
    BY <2>3 DEF StartInv
  <2> QED BY <2>1, <2>2, <2>3, <2>4 DEF StartInv, InStart, TypeOK
<1>2. ASSUME NEW c \in Callers, StartReturns(c)
      PROVE  StartInv'
  <2>1. /\ call[c] = "again" /\ call' = [call EXCEPT ![c] = "idle"]
        /\ UNCHANGED <<started, starting, agent, own>>
    BY <1>2 DEF StartReturns, At, runner
  <2> QED BY <2>1 DEF StartInv, InStart, TypeOK
<1>3. ASSUME NEW c \in Callers, ConnectFails(c) \/ Connect(c)
      PROVE  StartInv'
  <2>1. /\ call[c] = "connect" /\ UNCHANGED <<started, starting, agent, own>>
        /\ \E place \in {"install", "release"} : call' = [call EXCEPT ![c] = place]
    BY <1>3 DEF ConnectFails, Connect, At, runner
  <2> QED BY <2>1 DEF StartInv, InStart, TypeOK
<1>4. ASSUME NEW c \in Callers, Install(c)
      PROVE  StartInv'
  <2>1. /\ call[c] = "install" /\ call' = [call EXCEPT ![c] = "release"]
        /\ started' = TRUE /\ agent' = own[c] /\ UNCHANGED <<starting, own>>
    BY <1>4 DEF Install, At
  <2>2. own[c] # NoAgent /\ \A d \in Callers : InStart(d) => d = c
    BY <2>1 DEF StartInv, InStart
  <2> QED BY <2>1, <2>2 DEF StartInv, InStart, TypeOK
<1>5. ASSUME NEW c \in Callers, Release(c)
      PROVE  StartInv'
  <2>1. /\ call[c] = "release" /\ call' = [call EXCEPT ![c] = "idle"]
        /\ own' = [own EXCEPT ![c] = NoAgent] /\ starting' = FALSE /\ UNCHANGED <<started, agent>>
    BY <1>5 DEF Release, At
  <2>2. \A d \in Callers : InStart(d) => d = c
    BY <2>1 DEF StartInv, InStart
  <2> QED BY <2>1, <2>2 DEF StartInv, InStart, TypeOK
<1>6. ASSUME NEW c \in Callers, Stop(c) \/ Reconnect(c)
      PROVE  StartInv'
  <2>1. /\ call[c] = "idle" /\ \E place \in {"idle", "again"} : call' = [call EXCEPT ![c] = place]
        /\ started' = FALSE /\ UNCHANGED <<starting, agent, own>>
    BY <1>6 DEF Stop, Reconnect, StopAnd, At
  <2> QED BY <2>1 DEF StartInv, InStart, TypeOK
<1>7. ASSUME UNCHANGED <<started, starting, agent, call, own>>
      PROVE  StartInv'
  BY <1>7 DEF StartInv, InStart
<1>8. ASSUME NEW k \in Agents, LinkLost(k) \/ Receive(k) \/ Run(k) \/ RunRepo(k) \/ Ends(k)
      PROVE  UNCHANGED <<started, starting, agent, call, own>>
  BY <1>8 DEF LinkLost, Receive, Deliver, Run, RunRepo, Ends, Fails, Answer, Report, runner
<1>9. CASE Listen \/ Hear \/ UNCHANGED vars
  BY <1>7, <1>9 DEF Listen, Hear, vars, runner
<1> QED BY <1>1, <1>2, <1>3, <1>4, <1>5, <1>6, <1>7, <1>8, <1>9 DEF Next

LEMMA ContextStep == TypeOK /\ StartInv /\ ContextInv /\ [Next]_vars => ContextInv'
<1> SUFFICES ASSUME TypeOK, StartInv, ContextInv, [Next]_vars PROVE ContextInv'
  OBVIOUS
<1>1. ASSUME NEW c \in Callers, Start(c)
      PROVE  ContextInv'
  <2>1. PICK k \in Agents : own' = [own EXCEPT ![c] = k] /\ context' = [context EXCEPT ![k] = "open"]
    BY <1>1, FreshAgent DEF Start, Claim, Unused
  <2>2. ~started /\ ~starting /\ call' = [call EXCEPT ![c] = "connect"]
    BY <1>1 DEF Start, Claim, MayStart, At
  <2>3. \A m \in Agents : context[m] # "open"
    BY <2>2 DEF ContextInv, StartInv, InStart
  <2> QED BY <2>1, <2>2, <2>3 DEF ContextInv, TypeOK
<1>2. ASSUME NEW c \in Callers, StartReturns(c)
      PROVE  ContextInv'
  <2>1. /\ call[c] = "again" /\ call' = [call EXCEPT ![c] = "idle"]
        /\ UNCHANGED <<started, agent, own, context>>
    BY <1>2 DEF StartReturns, At, runner, agents
  <2> QED BY <2>1 DEF ContextInv, TypeOK
<1>3. ASSUME NEW c \in Callers, ConnectFails(c)
      PROVE  ContextInv'
  <2>1. /\ call' = [call EXCEPT ![c] = "release"] /\ context' = [context EXCEPT ![own[c]] = "cancelled"]
        /\ UNCHANGED <<started, agent, own>>
    BY <1>3 DEF ConnectFails, At, runner
  <2> QED BY <2>1 DEF ContextInv, TypeOK
<1>4. ASSUME NEW c \in Callers, Connect(c)
      PROVE  ContextInv'
  <2>1. /\ call' = [call EXCEPT ![c] = "install"] /\ UNCHANGED <<started, agent, own, context>>
    BY <1>4 DEF Connect, At, runner
  <2> QED BY <2>1 DEF ContextInv, TypeOK
<1>5. ASSUME NEW c \in Callers, Install(c)
      PROVE  ContextInv'
  <2>1. /\ call[c] = "install" /\ call' = [call EXCEPT ![c] = "release"]
        /\ started' = TRUE /\ agent' = own[c] /\ UNCHANGED <<own, context>>
    BY <1>5 DEF Install, At
  <2>2. ~started /\ \A d \in Callers : call[d] \in {"connect", "install"} => d = c
    BY <2>1 DEF StartInv, InStart
  <2> QED BY <2>1, <2>2 DEF ContextInv, TypeOK
<1>6. ASSUME NEW c \in Callers, Release(c)
      PROVE  ContextInv'
  <2>1. /\ call[c] = "release" /\ call' = [call EXCEPT ![c] = "idle"]
        /\ own' = [own EXCEPT ![c] = NoAgent] /\ UNCHANGED <<started, agent, context>>
    BY <1>6 DEF Release, At, agents
  <2> QED BY <2>1 DEF ContextInv, TypeOK
<1>7. ASSUME NEW c \in Callers, Stop(c) \/ Reconnect(c)
      PROVE  ContextInv'
  <2>1. /\ call[c] = "idle" /\ \E place \in {"idle", "again"} : call' = [call EXCEPT ![c] = place]
        /\ started' = FALSE /\ own' = own
        /\ IF started THEN Shut(agent) ELSE UNCHANGED <<context, link>>
    BY <1>7 DEF Stop, Reconnect, StopAnd, At
  <2>2. CASE started
    <3>1. context' = [context EXCEPT ![agent] = "cancelled"]
      BY <2>1, <2>2 DEF Shut
    <3>2. \A k \in Agents : context[k] = "open" => k = agent
      BY <2>2 DEF ContextInv, StartInv
    <3>3. \A k \in Agents : context'[k] # "open"
      BY <3>1, <3>2 DEF TypeOK
    <3> QED BY <3>3 DEF ContextInv
  <2>3. CASE ~started
    BY <2>1, <2>3 DEF ContextInv, TypeOK
  <2> QED BY <2>2, <2>3
<1>8. ASSUME UNCHANGED <<started, agent, call, own, context>>
      PROVE  ContextInv'
  BY <1>8 DEF ContextInv
<1>9. ASSUME NEW k \in Agents, LinkLost(k) \/ Receive(k) \/ Run(k) \/ RunRepo(k) \/ Ends(k)
      PROVE  UNCHANGED <<started, agent, call, own, context>>
  BY <1>9 DEF LinkLost, Receive, Deliver, Run, RunRepo, Ends, Fails, Answer, Report, runner
<1>10. CASE Listen \/ Hear \/ UNCHANGED vars
  BY <1>8, <1>10 DEF Listen, Hear, vars, runner, agents
<1> QED BY <1>1, <1>2, <1>3, <1>4, <1>5, <1>6, <1>7, <1>8, <1>9, <1>10 DEF Next

-----------------------------------------------------------------------------
(* The process and its ends.                                                *)

\* No command but repo can panic, and repo only when it validates.
LEMMA PanicsOnlyValidating ==
    /\ \A command, arguments, sync : "panic" \notin Returns(command, arguments, sync)
    /\ \A arguments, before, after :
         "panic" \in RepoReturns(arguments, before, after) => arguments = <<" validate">>
<1>1. ASSUME NEW command, NEW arguments, NEW sync
      PROVE  "panic" \notin Returns(command, arguments, sync)
  BY DEF Returns, ScriptReturns, TemplateScanReturns, TemplateSyncReturns, InventoryReturns, ListReturns,
         DiscoverReturns, StatusReturns, SyncReturns, HelpReturns
<1>2. ASSUME NEW arguments, NEW before, NEW after, "panic" \in RepoReturns(arguments, before, after)
      PROVE  arguments = <<" validate">>
  BY <1>2 DEF RepoReturns, RepoOutcomes
<1> QED BY <1>1, <1>2

LEMMA KillsStep == TypeOK /\ OnlyValidateKills /\ [Next]_vars => OnlyValidateKills'
<1> SUFFICES ASSUME TypeOK, OnlyValidateKills, [Next]_vars, ~alive' PROVE OnlyValidateKills'
  BY DEF OnlyValidateKills
<1>1. ASSUME NEW k \in Agents, RunRepo(k)
      PROVE  OnlyValidateKills'
  <2>1. /\ loop' = [loop EXCEPT ![k] = "answer"] /\ received' = received /\ CommandOf[Job(k)] = Repo
        /\ \E result \in RepoReturns(ArgumentsOf[Job(k)], repo, repo') : Returned(k, result)
    BY <1>1 DEF RunRepo
  <2>2. ArgumentsOf[Job(k)] = <<" validate">>
    <3>1. PICK result \in RepoReturns(ArgumentsOf[Job(k)], repo, repo') : alive' = (result # "panic")
      BY <2>1 DEF Returned
    <3>2. result = "panic"
      BY <3>1, Zenon
    <3> QED BY <3>1, <3>2, PanicsOnlyValidating
  <2>3. loop'[k] = "answer" /\ Job(k)' = Job(k)
    BY <2>1 DEF TypeOK, Job
  <2> QED BY <2>1, <2>2, <2>3 DEF OnlyValidateKills
<1>2. ASSUME NEW k \in Agents, Run(k)
      PROVE  OnlyValidateKills'
  <2>1. PICK result \in Returns(CommandOf[Job(k)], ArgumentsOf[Job(k)], synced[k]) :
          alive' = (result # "panic")
    BY <1>2 DEF Run, Returned
  <2>2. result = "panic"
    BY <2>1, Zenon
  <2> QED BY <2>1, <2>2, PanicsOnlyValidating
<1>3. ASSUME NEW k \in Agents, LinkLost(k) \/ Receive(k) \/ Ends(k)
      PROVE  OnlyValidateKills'
  BY <1>3 DEF LinkLost, Receive, Deliver, Ends, Fails, Answer, Report
<1>4. ASSUME NEW c \in Callers,
             \/ Start(c) \/ StartReturns(c) \/ ConnectFails(c) \/ Connect(c) \/ Install(c) \/ Release(c)
             \/ Stop(c) \/ Reconnect(c)
      PROVE  OnlyValidateKills'
  BY <1>4 DEF Start, Claim, StartReturns, ConnectFails, Connect, Install, Release, Stop, Reconnect, StopAnd
<1>5. CASE Listen \/ Hear
  BY <1>5 DEF Listen, Hear
<1>6. CASE UNCHANGED vars
  BY <1>6 DEF vars, agents, OnlyValidateKills, Job
<1> QED BY <1>1, <1>2, <1>3, <1>4, <1>5, <1>6 DEF Next

\* A loop that is done has reported, and only main takes a report away.
LEMMA EndStep == TypeOK /\ NoEndLost /\ [Next]_vars => NoEndLost'
<1> SUFFICES ASSUME TypeOK, NoEndLost, [Next]_vars PROVE NoEndLost'
  OBVIOUS
<1>1. ASSUME NEW k \in Agents, Report(k)
      PROVE  NoEndLost'
  <2>1. errCh' # << >>
    BY <1>1 DEF Report, Told
  <2> QED BY <2>1 DEF NoEndLost
<1>2. CASE Hear
  BY <1>2 DEF Hear, NoEndLost
<1>3. ASSUME listener' = listener \/ listener # "told", errCh' = errCh,
             \A k \in Agents : loop'[k] = "done" => loop[k] = "done"
      PROVE  NoEndLost'
  BY <1>3 DEF NoEndLost
<1>4. ASSUME NEW c \in Callers, Install(c)
      PROVE  NoEndLost'
  <2>1. loop' = [loop EXCEPT ![own[c]] = "hello"] /\ listener' = listener /\ errCh' = errCh
    BY <1>4 DEF Install
  <2> QED BY <1>3, <2>1 DEF TypeOK
<1>5. ASSUME NEW c \in Callers,
             \/ Start(c) \/ StartReturns(c) \/ ConnectFails(c) \/ Connect(c) \/ Release(c)
             \/ Stop(c) \/ Reconnect(c)
      PROVE  UNCHANGED <<listener, errCh, loop>>
  BY <1>5 DEF Start, Claim, StartReturns, ConnectFails, Connect, Release, Stop, Reconnect, StopAnd, ends,
              agents
<1>6. ASSUME NEW k \in Agents, LinkLost(k) \/ Receive(k) \/ Run(k) \/ RunRepo(k) \/ Fails(k) \/ Answer(k)
      PROVE  NoEndLost'
  <2>1. /\ UNCHANGED <<listener, errCh>>
        /\ \/ loop' = loop
           \/ \E place \in {"run", "answer", "ended", "receive"} : loop' = [loop EXCEPT ![k] = place]
    BY <1>6 DEF LinkLost, Receive, Deliver, Run, RunRepo, Fails, Answer, ends
  <2> QED BY <1>3, <2>1 DEF TypeOK
<1>7. CASE Listen
  BY <1>3, <1>7 DEF Listen, agents
<1>8. CASE UNCHANGED vars
  BY <1>3, <1>8 DEF vars, ends, agents
<1> QED BY <1>1, <1>2, <1>3, <1>4, <1>5, <1>6, <1>7, <1>8 DEF Next, Ends

-----------------------------------------------------------------------------
(* The answers.                                                             *)

LEMMA LogInit == Init => LogInv
<1> SUFFICES ASSUME Init PROVE LogInv
  OBVIOUS
<1>1. << >> \in Seq(Commands) /\ << >> \in Seq(Results)
  BY EmptySeq
<1> QED BY <1>1 DEF Init, LogInv

\* The command at work is one of the texts, and what serves it is a registered
\* command, the one that is meant.
LEMMA JobIsCommand ==
    ASSUME LogInv, NEW k \in Agents, loop[k] \in {"run", "answer"}
    PROVE  /\ Len(received[k]) \in Nat \ {0} /\ Job(k) = received[k][Len(received[k])]
           /\ Job(k) \in Commands
           /\ CommandOf[Job(k)] = Dispatched(Job(k)) /\ CommandOf[Job(k)] = MeantBy[Job(k)]
<1>1. received[k] \in Seq(Commands) /\ received[k] # << >>
  BY DEF LogInv
<1>2. Len(received[k]) \in Nat \ {0} /\ Job(k) = received[k][Len(received[k])] /\ Job(k) \in Commands
  BY <1>1 DEF Job, Last
<1>3. Dispatched(Job(k)) = Meant(Job(k))
  <2>1. CASE Job(k) \in Texts
    BY <2>1, RunnerAssumption, DispatchIsMeant
  <2>2. CASE Job(k) = Status
    <3>1. Job(k) \in Seq(NameFragments)
      BY <2>2, NamesAreSequences DEF Names, Registered
    <3> QED BY <3>1, DispatchIsMeant
  <2> QED BY <1>2, <2>1, <2>2 DEF Commands
<1> QED BY <1>2, <1>3 DEF CommandOf, MeantBy

LEMMA LogStep == TypeOK /\ LogInv /\ [Next]_vars => LogInv'
<1> SUFFICES ASSUME TypeOK, LogInv, [Next]_vars PROVE LogInv'
  OBVIOUS
<1>1. ASSUME NEW k \in Agents, Receive(k)
      PROVE  LogInv'
  <2>1. PICK text \in Commands : Deliver(k, text)
    BY <1>1 DEF Receive, Commands
  <2>2. /\ received' = [received EXCEPT ![k] = Append(@, text)] /\ loop' = [loop EXCEPT ![k] = "run"]
        /\ answers' = answers
    BY <2>1 DEF Deliver
  <2>3. Append(received[k], text) \in Seq(Commands) /\ Append(received[k], text) # << >>
    BY AppendProperties DEF LogInv
  <2> QED BY <2>2, <2>3 DEF LogInv, TypeOK
<1>2. ASSUME NEW k \in Agents, Answer(k)
      PROVE  LogInv'
  <2>1. /\ answers' = [answers EXCEPT ![k] = @ \o Sent(k)] \/ answers' = answers
        /\ received' = received /\ loop[k] = "answer"
        /\ \E place \in {"ended", "receive"} : loop' = [loop EXCEPT ![k] = place]
    BY <1>2 DEF Answer
  <2>2. [command |-> Job(k), ran |-> CommandOf[Job(k)]] \in Results
    BY <2>1, JobIsCommand DEF Results
  <2>3. Sent(k) \in Seq(Results) /\ answers[k] \in Seq(Results)
    BY <2>2 DEF Sent, LogInv
  <2>4. answers[k] \o Sent(k) \in Seq(Results)
    BY <2>3, ConcatProperties
  <2>5. CASE answers' = [answers EXCEPT ![k] = @ \o Sent(k)]
    BY <2>1, <2>4, <2>5 DEF LogInv, TypeOK
  <2>6. CASE answers' = answers
    BY <2>1, <2>6 DEF LogInv, TypeOK
  <2> QED BY <2>1, <2>5, <2>6
<1>3. ASSUME UNCHANGED <<received, answers>>,
             \A k \in Agents : loop'[k] \in {"run", "answer"} => loop[k] \in {"run", "answer"}
      PROVE  LogInv'
  BY <1>3 DEF LogInv
<1>4. ASSUME NEW k \in Agents, Run(k) \/ RunRepo(k)
      PROVE  LogInv'
  <2>1. loop[k] = "run" /\ loop' = [loop EXCEPT ![k] = "answer"] /\ UNCHANGED <<received, answers>>
    BY <1>4 DEF Run, RunRepo
  <2> QED BY <1>3, <2>1 DEF TypeOK
<1>5. ASSUME NEW k \in Agents, LinkLost(k) \/ Fails(k) \/ Report(k)
      PROVE  LogInv'
  <2>1. /\ UNCHANGED <<received, answers>>
        /\ loop' = loop \/ \E place \in {"ended", "done"} : loop' = [loop EXCEPT ![k] = place]
    BY <1>5 DEF LinkLost, Fails, Report
  <2> QED BY <1>3, <2>1 DEF TypeOK
<1>6. ASSUME NEW c \in Callers, Install(c)
      PROVE  LogInv'
  <2>1. UNCHANGED <<received, answers>> /\ loop' = [loop EXCEPT ![own[c]] = "hello"]
    BY <1>6 DEF Install
  <2> QED BY <1>3, <2>1 DEF TypeOK
<1>7. ASSUME NEW c \in Callers,
             \/ Start(c) \/ StartReturns(c) \/ ConnectFails(c) \/ Connect(c) \/ Release(c)
             \/ Stop(c) \/ Reconnect(c)
      PROVE  UNCHANGED <<received, answers, loop>>
  BY <1>7 DEF Start, Claim, StartReturns, ConnectFails, Connect, Release, Stop, Reconnect, StopAnd, agents
<1>8. CASE Listen \/ Hear \/ UNCHANGED vars
  BY <1>3, <1>8 DEF Listen, Hear, vars, agents
<1> QED BY <1>1, <1>2, <1>3, <1>4, <1>5, <1>6, <1>7, <1>8 DEF Next, Ends

\* The answer of one more command, the last one, is the last answer.
LEMMA AnsweredLast ==
    ASSUME NEW n \in Nat \ {0}, NEW A \in SUBSET (1..(n - 1))
    PROVE  /\ IsFiniteSet(A) /\ Cardinality(A) \in Nat
           /\ Cardinality(A \cup {n}) = Cardinality(A) + 1
           /\ (A \cup {n}) \cap 1..n = A \cup {n}
           /\ \A i \in A : /\ (A \cup {n}) \cap 1..i = A \cap 1..i
                          /\ Cardinality(A \cap 1..i) \in 1..Cardinality(A)
<1>1. IsFiniteSet(A) /\ Cardinality(A) \in Nat
  <2>1. IsFiniteSet(1..(n - 1))
    BY FS_Interval
  <2> QED BY <2>1, FS_Subset, FS_CardinalityType
<1>2. Cardinality(A \cup {n}) = Cardinality(A) + 1
  <2>1. n \notin A
    OBVIOUS
  <2> QED BY <1>1, <2>1, FS_AddElement
<1>3. (A \cup {n}) \cap 1..n = A \cup {n}
  <2>1. A \subseteq 1..n /\ n \in 1..n
    OBVIOUS
  <2> QED BY <2>1
<1>4. ASSUME NEW i \in A
      PROVE  (A \cup {n}) \cap 1..i = A \cap 1..i
  <2>1. i \in 1..(n - 1)
    OBVIOUS
  <2>2. n \notin 1..i
    BY <2>1
  <2> QED BY <2>2
<1>5. ASSUME NEW i \in A
      PROVE  Cardinality(A \cap 1..i) \in 1..Cardinality(A)
  <2>1. IsFiniteSet(A \cap 1..i) /\ Cardinality(A \cap 1..i) <= Cardinality(A)
    BY <1>1, FS_Subset
  <2>2. A \cap 1..i # {}
    OBVIOUS
  <2>3. Cardinality(A \cap 1..i) \in Nat /\ Cardinality(A \cap 1..i) # 0
    BY <2>1, <2>2, FS_CardinalityType, FS_EmptySet
  <2> QED BY <1>1, <2>1, <2>3
<1> QED BY <1>1, <1>2, <1>3, <1>4, <1>5

\* An agent whose logs stay and that falls no further behind keeps its answers
\* in order.
LEMMA OrderKept ==
    ASSUME TypeOK, LogInv, NEW k \in Agents, NEW answered \in SUBSET (1..Behind(k)), Answers(k, answered),
           Behind(k)' \in Nat, Behind(k) <= Behind(k)', answers'[k] = answers[k],
           \A i \in 1..Behind(k) : received'[k][i] = received[k][i]
    PROVE  answered \in SUBSET (1..Behind(k)') /\ Answers(k, answered)'
<1>1. Behind(k) \in Int
  <2>1. Len(received[k]) \in Nat
    BY DEF LogInv
  <2> QED BY <2>1 DEF Behind
<1>2. answered \in SUBSET (1..Behind(k)')
  BY <1>1
<1>3. MeantBy' = MeantBy
  BY DEF MeantBy, Commands
<1> QED BY <1>2, <1>3 DEF Answers

LEMMA OrderStep == TypeOK /\ LogInv /\ OrderInv /\ [Next]_vars => OrderInv'
<1> SUFFICES ASSUME TypeOK, LogInv, LogInv', OrderInv, [Next]_vars, NEW k \in Agents
             PROVE  \E answered \in SUBSET (1..Behind(k)') : Answers(k, answered)'
  BY LogStep DEF OrderInv
<1>1. PICK A \in SUBSET (1..Behind(k)) : Answers(k, A)
  BY DEF OrderInv
<1>2. /\ Len(received[k]) \in Nat /\ received[k] \in Seq(Commands) /\ answers[k] \in Seq(Results)
      /\ Behind(k) \in Nat
      /\ loop[k] \in {"run", "answer"} => Behind(k) = Len(received[k]) - 1
      /\ loop[k] \notin {"run", "answer"} => Behind(k) = Len(received[k])
  BY JobIsCommand DEF LogInv, Behind
<1>3. ASSUME UNCHANGED <<received, answers>>,
             loop'[k] \in {"run", "answer"} => loop[k] \in {"run", "answer"}
      PROVE  \E answered \in SUBSET (1..Behind(k)') : Answers(k, answered)'
  <2>1. Behind(k)' \in Nat /\ Behind(k) <= Behind(k)'
    BY <1>2, <1>3 DEF Behind
  <2>2. A \in SUBSET (1..Behind(k)') /\ Answers(k, A)'
    BY <1>1, <1>3, <2>1, OrderKept
  <2> QED BY <2>2
<1>4. ASSUME NEW m \in Agents, Receive(m)
      PROVE  \E answered \in SUBSET (1..Behind(k)') : Answers(k, answered)'
  <2>1. PICK text \in Commands : Deliver(m, text)
    BY <1>4 DEF Receive, Commands
  <2>2. /\ received' = [received EXCEPT ![m] = Append(@, text)] /\ loop' = [loop EXCEPT ![m] = "run"]
        /\ answers' = answers /\ loop[m] \in {"hello", "receive"}
    BY <1>4, <2>1 DEF Receive, Deliver
  <2>3. CASE m = k
    <3>1. received'[k] = Append(received[k], text) /\ loop'[k] = "run"
      BY <2>2, <2>3 DEF LogInv, TypeOK
    <3>2. /\ Len(received'[k]) = Len(received[k]) + 1
          /\ \A i \in 1..Len(received[k]) : received'[k][i] = received[k][i]
      BY <1>2, <3>1, AppendProperties
    <3>3. Behind(k) = Len(received[k]) /\ Behind(k)' = Len(received[k])
      BY <1>2, <2>2, <2>3, <3>1, <3>2 DEF Behind
    <3>4. A \in SUBSET (1..Behind(k)') /\ Answers(k, A)'
      BY <1>1, <1>2, <2>2, <3>2, <3>3, OrderKept
    <3> QED BY <3>4
  <2>4. CASE m # k
    <3>1. received'[k] = received[k] /\ loop'[k] = loop[k] /\ answers'[k] = answers[k]
      BY <2>2, <2>4 DEF LogInv, TypeOK
    <3>2. Behind(k)' = Behind(k)
      BY <3>1 DEF Behind
    <3>3. A \in SUBSET (1..Behind(k)') /\ Answers(k, A)'
      BY <1>1, <1>2, <3>1, <3>2, OrderKept
    <3> QED BY <3>3
  <2> QED BY <2>3, <2>4
<1>5. ASSUME NEW m \in Agents, Answer(m)
      PROVE  \E answered \in SUBSET (1..Behind(k)') : Answers(k, answered)'
  <2>1. /\ received' = received /\ loop[m] = "answer"
        /\ answers' = [answers EXCEPT ![m] = @ \o Sent(m)] \/ answers' = answers
        /\ \E place \in {"ended", "receive"} : loop' = [loop EXCEPT ![m] = place]
    BY <1>5 DEF Answer
  <2>2. loop'[k] \in {"run", "answer"} => loop[k] \in {"run", "answer"}
    BY <2>1 DEF TypeOK
  <2>3. CASE answers' = answers
    BY <1>3, <2>1, <2>2, <2>3
  <2>4. CASE m # k /\ answers' = [answers EXCEPT ![m] = @ \o Sent(m)]
    <3>1. received'[k] = received[k] /\ loop'[k] = loop[k] /\ answers'[k] = answers[k]
      BY <2>1, <2>4 DEF LogInv, TypeOK
    <3>2. Behind(k)' = Behind(k)
      BY <3>1 DEF Behind
    <3>3. A \in SUBSET (1..Behind(k)') /\ Answers(k, A)'
      BY <1>1, <1>2, <3>1, <3>2, OrderKept
    <3> QED BY <3>3
  <2>5. CASE m = k /\ answers' = [answers EXCEPT ![m] = @ \o Sent(m)]
    <3> PICK n \in Nat : n = Len(received[k])
      BY <1>2
    <3> DEFINE result == [command |-> Job(k), ran |-> CommandOf[Job(k)]]
    <3>1. /\ n \in Nat \ {0} /\ result.command = received[k][n] /\ result.ran = MeantBy[received[k][n]]
          /\ Behind(k) = n - 1
      BY <1>2, <2>1, <2>5, JobIsCommand
    <3>2. answers'[k] = answers[k] \o <<result>>
      BY <2>5 DEF LogInv, Sent
    <3>3. /\ Len(answers'[k]) = Len(answers[k]) + 1 /\ answers'[k][Len(answers[k]) + 1] = result
          /\ \A j \in 1..Len(answers[k]) : answers'[k][j] = answers[k][j]
      <4>1. result \in Results
        BY <2>1, <2>5, JobIsCommand DEF Results
      <4> HIDE DEF result
      <4> QED BY <1>2, <3>2, <4>1
    <3>4. Behind(k)' = n
      BY <2>1, <2>5 DEF Behind, TypeOK
    <3> HIDE DEF result
    <3>5. A \in SUBSET (1..(n - 1)) /\ Cardinality(A) = Len(answers[k])
      BY <1>1, <3>1 DEF Answers
    <3>6. A \cup {n} \in SUBSET (1..Behind(k)')
      BY <3>1, <3>4, <3>5
    <3>7. Cardinality(A \cup {n}) = Len(answers'[k])
      BY <3>1, <3>3, <3>5, AnsweredLast
    <3>8. MeantBy' = MeantBy
      BY DEF MeantBy, Commands
    <3>9. ASSUME NEW i \in A \cup {n}
          PROVE  /\ answers'[k][Cardinality((A \cup {n}) \cap 1..i)].command = received'[k][i]
                 /\ answers'[k][Cardinality((A \cup {n}) \cap 1..i)].ran = MeantBy'[received'[k][i]]
      <4>1. CASE i = n
        <5>1. Cardinality((A \cup {n}) \cap 1..n) = Len(answers[k]) + 1
          BY <3>1, <3>5, AnsweredLast
        <5> QED BY <2>1, <3>1, <3>3, <3>8, <4>1, <5>1
      <4>2. CASE i \in A
        <5>1. /\ (A \cup {n}) \cap 1..i = A \cap 1..i
              /\ Cardinality(A \cap 1..i) \in 1..Len(answers[k])
          <6>1. \A j \in A : /\ (A \cup {n}) \cap 1..j = A \cap 1..j
                            /\ Cardinality(A \cap 1..j) \in 1..Cardinality(A)
            BY <3>1, <3>5, AnsweredLast
          <6> QED BY <3>5, <4>2, <6>1
        <5>2. /\ answers[k][Cardinality(A \cap 1..i)].command = received[k][i]
              /\ answers[k][Cardinality(A \cap 1..i)].ran = MeantBy[received[k][i]]
          BY <1>1, <4>2 DEF Answers
        <5> QED BY <2>1, <3>3, <3>8, <5>1, <5>2
      <4> QED BY <4>1, <4>2
    <3>10. Answers(k, A \cup {n})'
      BY <3>7, <3>9 DEF Answers
    <3> QED BY <3>6, <3>10
  <2> QED BY <2>1, <2>3, <2>4, <2>5
<1>6. ASSUME NEW m \in Agents, Run(m) \/ RunRepo(m)
      PROVE  \E answered \in SUBSET (1..Behind(k)') : Answers(k, answered)'
  <2>1. loop[m] = "run" /\ loop' = [loop EXCEPT ![m] = "answer"] /\ UNCHANGED <<received, answers>>
    BY <1>6 DEF Run, RunRepo
  <2> QED BY <1>3, <2>1 DEF TypeOK
<1>7. ASSUME NEW m \in Agents, LinkLost(m) \/ Fails(m) \/ Report(m)
      PROVE  \E answered \in SUBSET (1..Behind(k)') : Answers(k, answered)'
  <2>1. /\ UNCHANGED <<received, answers>>
        /\ loop' = loop \/ \E place \in {"ended", "done"} : loop' = [loop EXCEPT ![m] = place]
    BY <1>7 DEF LinkLost, Fails, Report
  <2> QED BY <1>3, <2>1 DEF TypeOK
<1>8. ASSUME NEW c \in Callers, Install(c)
      PROVE  \E answered \in SUBSET (1..Behind(k)') : Answers(k, answered)'
  <2>1. UNCHANGED <<received, answers>> /\ loop' = [loop EXCEPT ![own[c]] = "hello"]
    BY <1>8 DEF Install
  <2> QED BY <1>3, <2>1 DEF TypeOK
<1>9. ASSUME NEW c \in Callers,
             \/ Start(c) \/ StartReturns(c) \/ ConnectFails(c) \/ Connect(c) \/ Release(c)
             \/ Stop(c) \/ Reconnect(c)
      PROVE  UNCHANGED <<received, answers, loop>>
  BY <1>9 DEF Start, Claim, StartReturns, ConnectFails, Connect, Release, Stop, Reconnect, StopAnd, agents
<1>10. CASE Listen \/ Hear \/ UNCHANGED vars
  BY <1>3, <1>10 DEF Listen, Hear, vars, agents
<1> QED BY <1>3, <1>4, <1>5, <1>6, <1>7, <1>8, <1>9, <1>10 DEF Next, Ends

-----------------------------------------------------------------------------
(* Theorems.                                                                *)

LEMMA ProcessInit == Init => ProcessInv
<1> SUFFICES ASSUME Init PROVE ProcessInv
  OBVIOUS
<1>1. StartInv /\ ContextInv
  BY DEF Init, StartInv, ContextInv, InStart, NoAgent
<1>2. OnlyValidateKills /\ NoEndLost
  BY DEF Init, OnlyValidateKills, NoEndLost
<1>3. OrderInv
  <2> SUFFICES ASSUME NEW k \in Agents PROVE {} \in SUBSET (1..Behind(k)) /\ Answers(k, {})
    BY DEF OrderInv
  <2>1. answers[k] = << >>
    BY DEF Init
  <2>2. Cardinality({}) = Len(answers[k])
    BY <2>1, FS_EmptySet
  <2> QED BY <2>2 DEF Answers
<1> QED BY <1>1, <1>2, <1>3, TypeInit, LogInit DEF ProcessInv

LEMMA ProcessInductive == Spec => []ProcessInv
<1>1. ProcessInv /\ [Next]_vars => ProcessInv'
  BY TypeStep, StartStep, ContextStep, LogStep, OrderStep, KillsStep, EndStep DEF ProcessInv
<1> QED BY <1>1, ProcessInit, PTL DEF Spec

\* The variables of the runner, of its agents and of main keep their types, and
\* errCh never holds more than the one end it has room for (runner.go).
THEOREM ProcessTypeCorrect == Spec => []TypeOK
<1>1. ProcessInv => TypeOK
  BY DEF ProcessInv
<1> QED BY <1>1, ProcessInductive, PTL

\* Whatever order the Starts, Stops and Reconnects of any number of callers
\* take: at most one agent has an open context, and it is the runner's or that
\* of the one Start in progress (runner.go, mu, started and starting).
THEOREM NoAgentStrays == Spec => []NoStrayAgent
<1>1. TypeOK /\ StartInv /\ ContextInv => NoStrayAgent
  <2> SUFFICES ASSUME StartInv, ContextInv, NEW k \in Agents, context[k] = "open"
               PROVE  /\ \A m \in Agents \ {k} : context[m] # "open"
                      /\ \/ started /\ agent = k
                         \/ starting /\ \E c \in Callers : own[c] = k
    BY DEF NoStrayAgent
  <2>1. CASE started /\ agent = k
    BY <2>1 DEF StartInv, ContextInv
  <2>2. CASE \E c \in Callers : own[c] = k /\ call[c] \in {"connect", "install"}
    <3>1. PICK c \in Callers : own[c] = k /\ call[c] \in {"connect", "install"}
      BY <2>2
    <3>2. starting /\ ~started /\ \A d \in Callers : call[d] \in {"connect", "install"} => d = c
      BY <3>1 DEF StartInv, InStart
    <3> QED BY <3>1, <3>2 DEF ContextInv
  <2> QED BY <2>1, <2>2 DEF ContextInv
<1>2. ProcessInv => TypeOK /\ StartInv /\ ContextInv
  BY DEF ProcessInv
<1> QED BY <1>1, <1>2, ProcessInductive, PTL

\* For any commands, on any number of connections: a connection carries the
\* answers to its commands in their order, at most one for each, each run by
\* the command of the longest name at its start; and nothing but the validation
\* of the repository ends the process (WaitForCommands, processCommandString,
\* Dispatch, ValidateRepositoryContent).
THEOREM CommandsAreServed == Spec => []CommandsServed
<1>1. LogInv /\ OrderInv /\ OnlyValidateKills => CommandsServed
  <2> SUFFICES ASSUME LogInv, OrderInv, NEW k \in Agents
               PROVE  \E answered \in SUBSET (1..Len(received[k])) : Answers(k, answered)
    BY DEF CommandsServed, AnsweredInOrder, Answers
  <2>1. PICK A \in SUBSET (1..Behind(k)) : Answers(k, A)
    BY DEF OrderInv
  <2>2. Len(received[k]) \in Nat /\ Behind(k) \in Int /\ Behind(k) <= Len(received[k])
    <3>1. Len(received[k]) \in Nat
      BY DEF LogInv
    <3> QED BY <3>1 DEF Behind
  <2>3. A \in SUBSET (1..Len(received[k]))
    BY <2>2
  <2> QED BY <2>1, <2>3
<1>2. ProcessInv => LogInv /\ OrderInv /\ OnlyValidateKills
  BY DEF ProcessInv
<1> QED BY <1>1, <1>2, ProcessInductive, PTL

\* However many agents have ended, and whenever main comes to listen: once one
\* has ended, main has been told of an end or finds one (runner.go, errCh).
THEOREM EndsAreHeard == Spec => []NoEndLost
<1>1. ProcessInv => NoEndLost
  BY DEF ProcessInv
<1> QED BY <1>1, ProcessInductive, PTL
=============================================================================
