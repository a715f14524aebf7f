-------------------------- MODULE ServerStoreProofs --------------------------
(***************************************************************************)
(* Proofs about what the server keeps in its store: the tokens of the      *)
(* agents, for any number of machines with one identifier, of streams, of  *)
(* token files that cannot be written and of commands that other           *)
(* goroutines send; and the results of the scans, for any number of        *)
(* agents, merges, scans, reports and targets.                             *)
(***************************************************************************)
EXTENDS AgentAuth, ScanMerge, SequenceTheorems, FiniteSetTheorems, WellFoundedInduction, TLAPS

-----------------------------------------------------------------------------
(***************************************************************************)
(* Tokens: whatever machine holds or presents a token, the token was       *)
(* issued to one of its own streams.                                       *)
(***************************************************************************)
\* No token at all, or one that a handler generated for a stream of m.
Owned(m, t) == t = NoToken \/ \E c \in Conns : DialerOf[c] = m /\ issued[c] = t

\* A stream gets one token, and no two streams the same.
IssueInv ==
    /\ \A c, d \in Conns : issued[c] # NoToken /\ issued[c] = issued[d] => c = d
    /\ \A c \in Conns : hpc[c] \in {"none", "hello", "generate"} => issued[c] = NoToken

\* What a machine keeps or presents, and what is on its way to it, is its own.
OwnerInv ==
    /\ \A m \in Machines : Owned(m, mem[m]) /\ Owned(m, file[m])
    /\ \A c \in Conns : Owned(DialerOf[c], supplied[c])
    /\ \A c \in Conns : \A i \in 1..Len(down[c]) : down[c][i] \in {NoToken, issued[c]}

\* A machine has one live stream at a time, and nothing is sent on a stream
\* before its handler has registered it.
StreamInv ==
    /\ \A c, d \in Conns : Live(c) /\ Live(d) /\ DialerOf[c] = DialerOf[d] => c = d
    /\ \A c \in Conns : conn[c] = "idle" => hpc[c] = "none"
    /\ \A c \in Conns : down[c] # << >> => hpc[c] \in {"welcome", "serving", "returned"}

\* As long as nobody else sends, every message on a stream is its welcome.
WelcomeInv ==
    commands = 0 => \A c \in Conns :
        /\ \A i \in 1..Len(down[c]) : down[c][i] = issued[c]
        /\ down[c] # << >> \/ conn[c] = "open" => hpc[c] \in {"serving", "returned"}

AuthInv == TypeOK /\ IssueInv /\ OwnerInv /\ StreamInv /\ WelcomeInv /\ IssuedTokenIsHeld
-----------------------------------------------------------------------------
(* Types.                                                                   *)

LEMMA TypeInit == Init => TypeOK
BY AuthAssumption DEF Init, TypeOK, Tokens, NoToken

\* The message at the head of a stream and those behind it.
LEMMA HeadAndTail ==
    ASSUME NEW S, NEW w \in Seq(S), w # << >>
    PROVE  /\ Head(w) \in S /\ Head(w) = w[1] /\ 1 \in 1..Len(w)
           /\ Tail(w) \in Seq(S)
           /\ \A i \in 1..Len(Tail(w)) : i + 1 \in 1..Len(w) /\ Tail(w)[i] = w[i + 1]
BY HeadTailProperties

\* Messages appended to a stream.
LEMMA Appended ==
    ASSUME NEW S, NEW w \in Seq(S), NEW x \in S
    PROVE  /\ Append(w, x) \in Seq(S) /\ Append(w, x) # << >>
           /\ \A i \in 1..Len(Append(w, x)) :
                Append(w, x)[i] = x \/ (i \in 1..Len(w) /\ Append(w, x)[i] = w[i])
BY AppendProperties

\* A function that is left alone or changed at one place.
LEMMA Updated ==
    ASSUME NEW S, NEW T, NEW f \in [S -> T], NEW g, NEW x \in S, NEW v \in T,
           g = f \/ g = [f EXCEPT ![x] = v]
    PROVE  g \in [S -> T]
<1>1. CASE g = f
  BY <1>1
<1>2. CASE g = [f EXCEPT ![x] = v]
  BY <1>2
<1> QED BY <1>1, <1>2

\* Tokens that were generated stay generated.
LEMMA TokensGrow ==
    ASSUME TypeOK, issues' \in Nat, issues <= issues'
    PROVE  /\ Tokens \subseteq Tokens'
           /\ \A w \in Seq(Tokens) : w \in Seq(Tokens')
<1>1. Tokens \subseteq Tokens'
  BY DEF TypeOK, Tokens
<1> QED BY <1>1

LEMMA TypeStep == TypeOK /\ StreamInv /\ [Next]_vars => TypeOK'
<1> SUFFICES ASSUME TypeOK, StreamInv, [Next]_vars PROVE TypeOK'
  OBVIOUS
<1> USE AuthAssumption
<1>1. NoToken \in Tokens /\ issues \in Nat
  BY DEF Tokens, TypeOK, NoToken
<1>2. ASSUME NEW c \in Conns, Dial(c)
      PROVE  TypeOK'
  <2>1. registered # c
    BY <1>2 DEF Dial, StreamInv, TypeOK
  <2> QED BY <1>2, <2>1 DEF Dial, TypeOK, Tokens, agentVars, Running
<1>3. ASSUME NEW c \in Conns, ReceiveWelcome(c)
      PROVE  TypeOK'
  <2>1. Head(down[c]) \in Tokens /\ Tail(down[c]) \in Seq(Tokens)
    BY <1>3, HeadAndTail DEF ReceiveWelcome, TypeOK
  <2>2. UNCHANGED <<serverVars, supplied, commands>> /\ Tokens' = Tokens
    BY <1>3 DEF ReceiveWelcome, serverVars, Tokens
  <2>3. mem' \in [Machines -> Tokens] /\ file' \in [Machines -> Tokens]
    <3>1. mem' = mem \/ mem' = [mem EXCEPT ![DialerOf[c]] = Head(down[c])]
      BY <1>3 DEF ReceiveWelcome, SaveAuthToken, agentVars
    <3>2. file' = file \/ file' = [file EXCEPT ![DialerOf[c]] = Head(down[c])]
      BY <1>3 DEF ReceiveWelcome, SaveAuthToken, agentVars
    <3>3. DialerOf[c] \in Machines /\ mem \in [Machines -> Tokens] /\ file \in [Machines -> Tokens]
      BY DEF TypeOK
    <3>4. mem' \in [Machines -> Tokens]
      BY <2>1, <3>1, <3>3, Updated
    <3>5. file' \in [Machines -> Tokens]
      BY <2>1, <3>2, <3>3, Updated
    <3> QED BY <3>4, <3>5
  <2>4. cleared' \subseteq Machines /\ failures' \in 0..MaxSaveFailures
    <3>1. failures' = failures \/ (failures < MaxSaveFailures /\ failures' = failures + 1)
      BY <1>3 DEF ReceiveWelcome, SaveAuthToken, agentVars
    <3>2. cleared' = cleared
      BY <1>3 DEF ReceiveWelcome, SaveAuthToken, agentVars
    <3> QED BY <3>1, <3>2 DEF TypeOK
  <2>5. conn' \in [Conns -> {"idle", "dialing", "open", "gone"}] /\ down' \in [Conns -> Seq(Tokens)]
    BY <1>3, <2>1 DEF ReceiveWelcome, TypeOK
  <2> QED BY <2>2, <2>3, <2>4, <2>5 DEF TypeOK, serverVars
<1>4. ASSUME NEW c \in Conns, ReceiveLater(c)
      PROVE  TypeOK'
  <2>1. Tail(down[c]) \in Seq(Tokens)
    BY <1>4, HeadAndTail DEF ReceiveLater, TypeOK
  <2> QED BY <1>4, <2>1 DEF ReceiveLater, TypeOK, serverVars, agentVars, Tokens
<1>5. ASSUME NEW c \in Conns, Lose(c)
      PROVE  TypeOK'
  BY <1>5 DEF Lose, TypeOK, serverVars, agentVars, Tokens
<1>6. ASSUME NEW c \in Conns, CheckExists(c)
      PROVE  TypeOK'
  <2>1. UNCHANGED <<stored, issues, issued, registered, supplied, agentVars, commands>>
    BY <1>6 DEF CheckExists
  <2>2. hpc[c] = "hello" /\ \E why \in {"generate", "mustPresent"} : hpc' = [hpc EXCEPT ![c] = why]
    BY <1>6 DEF CheckExists, Return
  <2>3. /\ conn' = conn \/ conn' = [conn EXCEPT ![c] = "gone"]
        /\ down' = down \/ down' = [down EXCEPT ![c] = << >>]
    BY <1>6 DEF CheckExists, Return
  <2>4. /\ conn' \in [Conns -> {"idle", "dialing", "open", "gone"}]
        /\ down' \in [Conns -> Seq(Tokens)]
    <3>1. /\ conn \in [Conns -> {"idle", "dialing", "open", "gone"}]
          /\ down \in [Conns -> Seq(Tokens)] /\ << >> \in Seq(Tokens)
      BY DEF TypeOK
    <3>2. conn' \in [Conns -> {"idle", "dialing", "open", "gone"}]
      BY <2>3, <3>1, Updated
    <3>3. down' \in [Conns -> Seq(Tokens)]
      BY <2>3, <3>1, Updated
    <3> QED BY <3>2, <3>3
  <2>5. /\ hpc' \in [Conns -> Running \cup {"none", "mustPresent", "invalid", "returned"}]
        /\ registered' # NoConn => hpc'[registered'] \in {"welcome", "serving"}
    BY <2>1, <2>2 DEF TypeOK, Running
  <2> QED BY <2>1, <2>4, <2>5 DEF TypeOK, agentVars, Tokens
<1>7. ASSUME NEW c \in Conns, Validate(c)
      PROVE  TypeOK'
  <2>1. UNCHANGED <<stored, issues, issued, registered, supplied, agentVars, commands>>
    BY <1>7 DEF Validate
  <2>2. hpc[c] = "hello" /\ \E why \in {"register", "invalid"} : hpc' = [hpc EXCEPT ![c] = why]
    BY <1>7 DEF Validate, Return
  <2>3. /\ conn' = conn \/ conn' = [conn EXCEPT ![c] = "gone"]
        /\ down' = down \/ down' = [down EXCEPT ![c] = << >>]
    BY <1>7 DEF Validate, Return
  <2>4. /\ conn' \in [Conns -> {"idle", "dialing", "open", "gone"}]
        /\ down' \in [Conns -> Seq(Tokens)]
    <3>1. /\ conn \in [Conns -> {"idle", "dialing", "open", "gone"}]
          /\ down \in [Conns -> Seq(Tokens)] /\ << >> \in Seq(Tokens)
      BY DEF TypeOK
    <3>2. conn' \in [Conns -> {"idle", "dialing", "open", "gone"}]
      BY <2>3, <3>1, Updated
    <3>3. down' \in [Conns -> Seq(Tokens)]
      BY <2>3, <3>1, Updated
    <3> QED BY <3>2, <3>3
  <2>5. /\ hpc' \in [Conns -> Running \cup {"none", "mustPresent", "invalid", "returned"}]
        /\ registered' # NoConn => hpc'[registered'] \in {"welcome", "serving"}
    BY <2>1, <2>2 DEF TypeOK, Running
  <2> QED BY <2>1, <2>4, <2>5 DEF TypeOK, agentVars, Tokens
<1>8. ASSUME NEW c \in Conns, Issue(c)
      PROVE  TypeOK'
  <2>1. issues' = issues + 1 /\ NewToken(c) = issues + 1
    BY <1>8 DEF Issue, NewToken
  <2>2. Tokens \subseteq Tokens' /\ (\A w \in Seq(Tokens) : w \in Seq(Tokens')) /\ NewToken(c) \in Tokens'
    BY <1>1, <2>1, TokensGrow DEF Tokens
  <2>3. down' \in [Conns -> Seq(Tokens')]
    BY <1>8, <2>2 DEF Issue, TypeOK
  <2>4. /\ stored' \in Tokens' /\ issued' \in [Conns -> Tokens'] /\ supplied' \in [Conns -> Tokens']
        /\ mem' \in [Machines -> Tokens'] /\ file' \in [Machines -> Tokens']
    BY <1>8, <2>2 DEF Issue, TypeOK, agentVars
  <2>5. /\ hpc' \in [Conns -> Running \cup {"none", "mustPresent", "invalid", "returned"}]
        /\ registered' # NoConn => hpc'[registered'] \in {"welcome", "serving"}
    BY <1>8 DEF Issue, TypeOK, Running
  <2> QED BY <1>1, <1>8, <2>1, <2>3, <2>4, <2>5 DEF Issue, TypeOK, agentVars
<1>9. ASSUME NEW c \in Conns, IssueFails(c)
      PROVE  TypeOK'
  BY <1>9 DEF IssueFails, Return, TypeOK, agentVars, Tokens, Running
<1>10. ASSUME NEW c \in Conns, Register(c)
       PROVE  TypeOK'
  BY <1>10 DEF Register, TypeOK, agentVars, Tokens, Running
<1>11. ASSUME NEW c \in Conns, Welcome(c)
       PROVE  TypeOK'
  <2>1. Append(down[c], issued[c]) \in Seq(Tokens)
    BY Appended DEF TypeOK
  <2>2. down' \in [Conns -> Seq(Tokens)]
    BY <1>11, <2>1 DEF Welcome, WelcomeTo, TypeOK
  <2> QED BY <1>11, <2>2 DEF Welcome, TypeOK, agentVars, Tokens, Running
<1>12. ASSUME NEW c \in Conns, Finish(c)
       PROVE  TypeOK'
  BY <1>12 DEF Finish, RemoveOwn, TypeOK, agentVars, Tokens, Running
<1>13. ASSUME NEW m \in Machines, Restart(m)
       PROVE  TypeOK'
  <2>1. UNCHANGED <<serverVars, supplied, file, cleared, failures, commands>> /\ Tokens' = Tokens
    BY <1>13 DEF Restart, serverVars, Tokens
  <2>2. mem' \in [Machines -> Tokens]
    BY <1>13 DEF Restart, TypeOK
  <2>3. conn' \in [Conns -> {"idle", "dialing", "open", "gone"}]
    BY <1>13 DEF Restart, TypeOK
  <2>4. down' \in [Conns -> Seq(Tokens)]
    BY <1>13 DEF Restart, TypeOK
  <2> QED BY <2>1, <2>2, <2>3, <2>4 DEF TypeOK, serverVars
<1>14. ASSUME NEW m \in Machines, ClearToken(m)
       PROVE  TypeOK'
  BY <1>1, <1>14 DEF ClearToken, TypeOK, serverVars, Tokens
<1>15. CASE OtherSend
  <2>1. registered \in Conns
    BY <1>15 DEF OtherSend, TypeOK
  <2>2. Append(down[registered], NoToken) \in Seq(Tokens)
    BY <1>1, <2>1, Appended DEF TypeOK
  <2>3. down' \in [Conns -> Seq(Tokens)]
    BY <1>15, <2>2 DEF OtherSend, TypeOK
  <2>4. commands' \in 0..MaxCommands
    BY <1>15 DEF OtherSend, TypeOK
  <2> QED BY <1>15, <2>3, <2>4 DEF OtherSend, TypeOK, serverVars, agentVars, Tokens
<1>16. CASE ServerRestart
  BY <1>16 DEF ServerRestart, TypeOK, agentVars, Tokens, Running, Live
<1>17. CASE UNCHANGED vars
  BY <1>17 DEF vars, serverVars, agentVars, TypeOK, Tokens
<1> QED BY <1>2, <1>3, <1>4, <1>5, <1>6, <1>7, <1>8, <1>9, <1>10, <1>11, <1>12, <1>13, <1>14, <1>15,
           <1>16, <1>17 DEF Next

-----------------------------------------------------------------------------
(* Issuing.                                                                 *)

\* A handler that has not come past the generation of a token has none.
Early == {"none", "hello", "generate"}

\* Only Issue generates a token, and no handler goes back before it.
LEMMA OnlyIssueIssues ==
    ASSUME TypeOK, StreamInv, [Next]_vars
    PROVE  \/ \E c \in Conns : Issue(c)
           \/ issued' = issued /\ \A c \in Conns : hpc'[c] \in Early => hpc[c] \in Early
<1>1. ASSUME NEW c \in Conns, Dial(c)
      PROVE  issued' = issued /\ \A d \in Conns : hpc'[d] \in Early => hpc[d] \in Early
  BY <1>1 DEF Dial, TypeOK, StreamInv, Early
<1>2. ASSUME NEW c \in Conns, ReceiveWelcome(c) \/ ReceiveLater(c) \/ Lose(c)
      PROVE  issued' = issued /\ hpc' = hpc
  BY <1>2 DEF ReceiveWelcome, ReceiveLater, Lose, serverVars
<1>3. ASSUME NEW c \in Conns, CheckExists(c)
      PROVE  issued' = issued /\ \A d \in Conns : hpc'[d] \in Early => hpc[d] \in Early
  <2>1. issued' = issued /\ hpc[c] = "hello" /\ \E why : hpc' = [hpc EXCEPT ![c] = why]
    BY <1>3 DEF CheckExists, Return
  <2> QED BY <2>1 DEF TypeOK, Early
<1>4. ASSUME NEW c \in Conns, Validate(c)
      PROVE  issued' = issued /\ \A d \in Conns : hpc'[d] \in Early => hpc[d] \in Early
  <2>1. issued' = issued /\ hpc[c] = "hello" /\ \E why : hpc' = [hpc EXCEPT ![c] = why]
    BY <1>4 DEF Validate, Return
  <2> QED BY <2>1 DEF TypeOK, Early
<1>5. ASSUME NEW c \in Conns, IssueFails(c) \/ Register(c) \/ Welcome(c) \/ Finish(c)
      PROVE  issued' = issued /\ \A d \in Conns : hpc'[d] \in Early => hpc[d] \in Early
  <2>1. issued' = issued /\ \E why \in {"returned", "welcome", "serving"} : hpc' = [hpc EXCEPT ![c] = why]
    BY <1>5 DEF IssueFails, Return, Register, Welcome, Finish
  <2> QED BY <2>1 DEF TypeOK, Early
<1>6. ASSUME NEW m \in Machines, Restart(m) \/ ClearToken(m)
      PROVE  issued' = issued /\ hpc' = hpc
  BY <1>6 DEF Restart, ClearToken, serverVars
<1>7. CASE OtherSend
  BY <1>7 DEF OtherSend, serverVars
<1>8. CASE ServerRestart
  BY <1>8 DEF ServerRestart, TypeOK, Running, Early
<1>9. CASE UNCHANGED vars
  BY <1>9 DEF vars, serverVars
<1> QED BY <1>1, <1>2, <1>3, <1>4, <1>5, <1>6, <1>7, <1>8, <1>9 DEF Next

LEMMA IssueStep == TypeOK /\ StreamInv /\ IssueInv /\ [Next]_vars => IssueInv'
<1> SUFFICES ASSUME TypeOK, StreamInv, IssueInv, [Next]_vars PROVE IssueInv'
  OBVIOUS
<1>1. ASSUME NEW c \in Conns, Issue(c)
      PROVE  IssueInv'
  <2>1. /\ issued' = [issued EXCEPT ![c] = issues + 1] /\ hpc' = [hpc EXCEPT ![c] = "register"]
        /\ hpc[c] = "generate"
    BY <1>1 DEF Issue, NewToken
  <2>2. \A d \in Conns : issued[d] \in 0..issues /\ issued[d] # issues + 1
    BY DEF TypeOK, Tokens
  <2>3. \A d \in Conns : issued'[d] = IF d = c THEN issues + 1 ELSE issued[d]
    BY <2>1 DEF TypeOK
  <2>4. \A d \in Conns : hpc'[d] = IF d = c THEN "register" ELSE hpc[d]
    BY <2>1 DEF TypeOK
  <2>5. \A d, e \in Conns : issued'[d] # NoToken /\ issued'[d] = issued'[e] => d = e
    BY <2>2, <2>3 DEF IssueInv
  <2>6. \A d \in Conns : hpc'[d] \in {"none", "hello", "generate"} => issued'[d] = NoToken
    BY <2>3, <2>4 DEF IssueInv
  <2> QED BY <2>5, <2>6 DEF IssueInv
<1>2. CASE issued' = issued /\ \A c \in Conns : hpc'[c] \in Early => hpc[c] \in Early
  BY <1>2 DEF IssueInv, Early
<1> QED BY <1>1, <1>2, OnlyIssueIssues

\* What a machine owns stays its own.
LEMMA OwnedStays ==
    ASSUME TypeOK, StreamInv, IssueInv, [Next]_vars
    PROVE  \A m \in Machines, t \in Tokens : Owned(m, t) => Owned(m, t)'
<1>1. \A c \in Conns : issued[c] # NoToken => issued'[c] = issued[c]
  <2>1. ASSUME NEW c \in Conns, Issue(c), NEW d \in Conns, issued[d] # NoToken
        PROVE  issued'[d] = issued[d]
    <3>1. d # c
      BY <2>1 DEF Issue, IssueInv
    <3> QED BY <2>1, <3>1 DEF Issue, TypeOK
  <2> QED BY <2>1, OnlyIssueIssues
<1> QED BY <1>1 DEF Owned

-----------------------------------------------------------------------------
(* Streams.                                                                 *)

\* Messages are taken from the head of a stream or lost with it; the handler
\* in welcome adds its token and anybody adds messages without one.
Sent(c) ==
    \/ /\ hpc[c] = "welcome" /\ hpc'[c] = "serving"
       /\ down'[c] = Append(down[c], issued[c])
    \/ /\ hpc[c] \in {"welcome", "serving"} /\ commands' # 0
       /\ down'[c] = Append(down[c], NoToken)

LEMMA StreamSteps ==
    ASSUME TypeOK, [Next]_vars, NEW d \in Conns
    PROVE  \/ down'[d] = down[d] \/ down'[d] = << >>
           \/ down[d] # << >> /\ down'[d] = Tail(down[d])
           \/ Sent(d)
<1> USE AuthAssumption
<1>1. ASSUME NEW c \in Conns, Dial(c) \/ Issue(c) \/ Register(c) \/ Finish(c)
      PROVE  down' = down
  BY <1>1 DEF Dial, Issue, Register, Finish
<1>2. ASSUME NEW c \in Conns, ReceiveWelcome(c) \/ ReceiveLater(c)
      PROVE  down'[d] = down[d] \/ (down[d] # << >> /\ down'[d] = Tail(down[d]))
  <2>1. down[c] # << >> /\ down' = [down EXCEPT ![c] = Tail(@)]
    BY <1>2 DEF ReceiveWelcome, ReceiveLater
  <2> QED BY <2>1 DEF TypeOK
<1>3. ASSUME NEW c \in Conns, Lose(c) \/ CheckExists(c) \/ Validate(c) \/ IssueFails(c)
      PROVE  down'[d] = down[d] \/ down'[d] = << >>
  <2>1. down' = down \/ down' = [down EXCEPT ![c] = << >>]
    BY <1>3 DEF Lose, CheckExists, Validate, IssueFails, Return
  <2> QED BY <2>1 DEF TypeOK
<1>4. ASSUME NEW c \in Conns, Welcome(c)
      PROVE  down'[d] = down[d] \/ Sent(d)
  <2>1. CASE Live(c) /\ c = d
    BY <1>4, <2>1 DEF Welcome, WelcomeTo, Sent, TypeOK
  <2>2. CASE Live(c) /\ c # d
    BY <1>4, <2>2 DEF Welcome, WelcomeTo, TypeOK
  <2>3. CASE ~Live(c)
    BY <1>4, <2>3 DEF Welcome, WelcomeTo
  <2> QED BY <2>1, <2>2, <2>3
<1>5. ASSUME NEW m \in Machines, Restart(m) \/ ClearToken(m)
      PROVE  down'[d] = down[d] \/ down'[d] = << >>
  BY <1>5 DEF Restart, ClearToken
<1>6. CASE OtherSend
  <2>1. registered \in Conns /\ hpc[registered] \in {"welcome", "serving"} /\ commands' # 0
    BY <1>6 DEF OtherSend, TypeOK
  <2>2. CASE Live(registered) /\ registered = d
    BY <1>6, <2>1, <2>2 DEF OtherSend, Sent, TypeOK
  <2>3. CASE Live(registered) /\ registered # d
    BY <1>6, <2>3 DEF OtherSend, TypeOK
  <2>4. CASE ~Live(registered)
    BY <1>6, <2>4 DEF OtherSend
  <2> QED BY <2>2, <2>3, <2>4
<1>7. CASE ServerRestart
  BY <1>7 DEF ServerRestart
<1>8. CASE UNCHANGED vars
  BY <1>8 DEF vars
<1> QED BY <1>1, <1>2, <1>3, <1>4, <1>5, <1>6, <1>7, <1>8 DEF Next

\* A handler that has registered its stream goes on to serve it and to return.
LEMMA HandlerSteps ==
    ASSUME TypeOK, StreamInv, [Next]_vars, NEW d \in Conns
    PROVE  /\ hpc[d] \in {"welcome", "serving", "returned"}
                => hpc'[d] \in {"welcome", "serving", "returned"}
           /\ hpc[d] \in {"serving", "returned"} => hpc'[d] \in {"serving", "returned"}
<1>1. ASSUME NEW c \in Conns, NEW why,
             hpc[c] \in {"none", "hello", "generate", "register"},
             hpc' = [hpc EXCEPT ![c] = why]
      PROVE  hpc[d] \in {"welcome", "serving", "returned"} => hpc'[d] = hpc[d]
  BY <1>1 DEF TypeOK
<1>2. ASSUME NEW c \in Conns,
             Dial(c) \/ CheckExists(c) \/ Validate(c) \/ Issue(c) \/ IssueFails(c) \/ Register(c)
      PROVE  hpc[d] \in {"welcome", "serving", "returned"} => hpc'[d] = hpc[d]
  <2>1. hpc[c] \in {"none", "hello", "generate", "register"} /\ \E why : hpc' = [hpc EXCEPT ![c] = why]
    BY <1>2 DEF Dial, CheckExists, Validate, Issue, IssueFails, Register, Return, StreamInv
  <2> QED BY <1>1, <2>1
<1>3. ASSUME NEW c \in Conns, Welcome(c) \/ Finish(c)
      PROVE  hpc'[d] = hpc[d] \/ hpc'[d] = "serving" \/ hpc'[d] = "returned"
  BY <1>3 DEF Welcome, Finish, TypeOK
<1>4. ASSUME NEW c \in Conns, ReceiveWelcome(c) \/ ReceiveLater(c) \/ Lose(c)
      PROVE  hpc' = hpc
  BY <1>4 DEF ReceiveWelcome, ReceiveLater, Lose, serverVars
<1>5. ASSUME NEW m \in Machines, Restart(m) \/ ClearToken(m)
      PROVE  hpc' = hpc
  BY <1>5 DEF Restart, ClearToken, serverVars
<1>6. CASE OtherSend \/ UNCHANGED vars
  BY <1>6 DEF OtherSend, vars, serverVars
<1>7. CASE ServerRestart
  BY <1>7 DEF ServerRestart
<1> QED BY <1>2, <1>3, <1>4, <1>5, <1>6, <1>7 DEF Next

\* A stream comes to life only when its machine has no other one, and then for
\* the first time.
LEMMA LiveSteps ==
    ASSUME TypeOK, StreamInv, [Next]_vars, NEW d \in Conns
    PROVE  /\ conn'[d] = "idle" => conn[d] = "idle" /\ hpc'[d] = hpc[d]
           /\ Live(d)' => \/ Live(d)
                          \/ /\ \A e \in Conns : DialerOf[e] = DialerOf[d] => ~Live(e)
                             /\ conn' = [conn EXCEPT ![d] = "dialing"]
<1> USE AuthAssumption
<1>1. ASSUME NEW c \in Conns, Dial(c)
      PROVE  /\ conn'[d] = "idle" => conn[d] = "idle" /\ hpc'[d] = hpc[d]
             /\ Live(d)' => \/ Live(d)
                            \/ /\ \A e \in Conns : DialerOf[e] = DialerOf[d] => ~Live(e)
                               /\ conn' = [conn EXCEPT ![d] = "dialing"]
  BY <1>1 DEF Dial, TypeOK, Live
<1>2. ASSUME NEW c \in Conns, ReceiveWelcome(c) \/ ReceiveLater(c) \/ Lose(c)
      PROVE  hpc' = hpc /\ (conn'[d] = "idle" => conn[d] = "idle") /\ (Live(d)' => Live(d))
  BY <1>2 DEF ReceiveWelcome, ReceiveLater, Lose, serverVars, Live, TypeOK
<1>3. ASSUME NEW c \in Conns, NEW why, hpc[c] # "none", hpc' = [hpc EXCEPT ![c] = why],
             conn' = conn \/ conn' = [conn EXCEPT ![c] = "gone"]
      PROVE  (conn'[d] = "idle" => conn[d] = "idle" /\ hpc'[d] = hpc[d]) /\ (Live(d)' => Live(d))
  BY <1>3 DEF Live, TypeOK, StreamInv
<1>4. ASSUME NEW c \in Conns, CheckExists(c) \/ Validate(c) \/ IssueFails(c)
      PROVE  (conn'[d] = "idle" => conn[d] = "idle" /\ hpc'[d] = hpc[d]) /\ (Live(d)' => Live(d))
  <2>1. /\ hpc[c] # "none" /\ \E why : hpc' = [hpc EXCEPT ![c] = why]
        /\ conn' = conn \/ conn' = [conn EXCEPT ![c] = "gone"]
    BY <1>4 DEF CheckExists, Validate, IssueFails, Return
  <2> QED BY <1>3, <2>1
<1>5. ASSUME NEW c \in Conns, Issue(c) \/ Register(c) \/ Welcome(c) \/ Finish(c)
      PROVE  (conn'[d] = "idle" => conn[d] = "idle" /\ hpc'[d] = hpc[d]) /\ (Live(d)' => Live(d))
  <2>1. hpc[c] # "none" /\ (\E why : hpc' = [hpc EXCEPT ![c] = why]) /\ conn' = conn
    BY <1>5 DEF Issue, Register, Welcome, Finish
  <2> QED BY <1>3, <2>1
<1>6. ASSUME NEW m \in Machines, Restart(m) \/ ClearToken(m)
      PROVE  hpc' = hpc /\ (conn'[d] = "idle" => conn[d] = "idle") /\ (Live(d)' => Live(d))
  BY <1>6 DEF Restart, ClearToken, serverVars, Live
<1>7. CASE OtherSend \/ UNCHANGED vars
  BY <1>7 DEF OtherSend, vars, serverVars, Live
<1>8. CASE ServerRestart
  BY <1>8 DEF ServerRestart, Live, StreamInv, Running
<1> QED BY <1>1, <1>2, <1>4, <1>5, <1>6, <1>7, <1>8 DEF Next

LEMMA StreamStep == TypeOK /\ StreamInv /\ [Next]_vars => StreamInv'
<1> SUFFICES ASSUME TypeOK, StreamInv, [Next]_vars PROVE StreamInv'
  OBVIOUS
<1>1. ASSUME NEW c \in Conns, NEW d \in Conns, Live(c)', Live(d)', DialerOf[c] = DialerOf[d]
      PROVE  c = d
  <2>1. CASE Live(c) /\ Live(d)
    BY <1>1, <2>1 DEF StreamInv
  <2>2. CASE ~Live(c)
    <3>1. conn' = [conn EXCEPT ![c] = "dialing"] /\ ~Live(d)
      BY <1>1, <2>2, LiveSteps
    <3> QED BY <1>1, <3>1 DEF Live, TypeOK
  <2>3. CASE ~Live(d)
    <3>1. conn' = [conn EXCEPT ![d] = "dialing"] /\ ~Live(c)
      BY <1>1, <2>3, LiveSteps
    <3> QED BY <1>1, <3>1 DEF Live, TypeOK
  <2> QED BY <2>1, <2>2, <2>3
<1>2. ASSUME NEW c \in Conns, conn'[c] = "idle"
      PROVE  hpc'[c] = "none"
  BY <1>2, LiveSteps DEF StreamInv
<1>3. ASSUME NEW c \in Conns, down'[c] # << >>
      PROVE  hpc'[c] \in {"welcome", "serving", "returned"}
  <2>1. down[c] # << >> \/ Sent(c)
    BY <1>3, StreamSteps
  <2>2. hpc[c] \in {"welcome", "serving", "returned"}
    BY <2>1 DEF StreamInv, Sent
  <2> QED BY <2>2, HandlerSteps
<1> QED BY <1>1, <1>2, <1>3 DEF StreamInv

-----------------------------------------------------------------------------
(* Owners.                                                                  *)

\* A stream carries its own token or none: the head that the agent captures
\* belongs to the machine that dialled it.
LEMMA CapturedIsOwn ==
    ASSUME TypeOK, OwnerInv, NEW c \in Conns, down[c] # << >>
    PROVE  Head(down[c]) \in Tokens /\ Owned(DialerOf[c], Head(down[c]))
<1>1. Head(down[c]) = down[c][1] /\ 1 \in 1..Len(down[c]) /\ Head(down[c]) \in Tokens
  BY HeadAndTail DEF TypeOK
<1>2. Head(down[c]) \in {NoToken, issued[c]}
  BY <1>1 DEF OwnerInv
<1> QED BY <1>1, <1>2 DEF Owned

\* What is in memory or in a file was there before, or is the machine's own.
LEMMA KeptIsOwn ==
    ASSUME TypeOK, OwnerInv, [Next]_vars, NEW m \in Machines
    PROVE  /\ mem'[m] \in Tokens /\ Owned(m, mem'[m])
           /\ file'[m] \in Tokens /\ Owned(m, file'[m])
<1> USE AuthAssumption
<1>1. /\ mem[m] \in Tokens /\ Owned(m, mem[m])
      /\ file[m] \in Tokens /\ Owned(m, file[m])
      /\ NoToken \in Tokens /\ Owned(m, NoToken)
  BY DEF TypeOK, OwnerInv, Owned, Tokens, NoToken
<1>2. ASSUME NEW c \in Conns, ReceiveWelcome(c)
      PROVE  /\ mem'[m] = mem[m] \/ (m = DialerOf[c] /\ mem'[m] = Head(down[c]))
             /\ file'[m] = file[m] \/ (m = DialerOf[c] /\ file'[m] = Head(down[c]))
  <2>1. CASE Head(down[c]) # NoToken
    <3>1. /\ mem' = [mem EXCEPT ![DialerOf[c]] = Head(down[c])]
          /\ file' = file \/ file' = [file EXCEPT ![DialerOf[c]] = Head(down[c])]
      BY <1>2, <2>1 DEF ReceiveWelcome, SaveAuthToken
    <3> QED BY <3>1 DEF TypeOK
  <2>2. CASE Head(down[c]) = NoToken
    BY <1>2, <2>2 DEF ReceiveWelcome, agentVars
  <2> QED BY <2>1, <2>2
<1>3. ASSUME NEW c \in Conns, ReceiveWelcome(c)
      PROVE  /\ mem'[m] \in Tokens /\ Owned(m, mem'[m])
             /\ file'[m] \in Tokens /\ Owned(m, file'[m])
  <2>1. Head(down[c]) \in Tokens /\ Owned(DialerOf[c], Head(down[c]))
    BY <1>3, CapturedIsOwn DEF ReceiveWelcome
  <2> QED BY <1>1, <1>2, <1>3, <2>1
<1>4. ASSUME NEW n \in Machines, Restart(n)
      PROVE  mem'[m] \in {mem[m], file[m]} /\ file' = file
  BY <1>4 DEF Restart, TypeOK
<1>5. ASSUME NEW n \in Machines, ClearToken(n)
      PROVE  mem'[m] \in {mem[m], NoToken} /\ file'[m] \in {file[m], NoToken}
  BY <1>5 DEF ClearToken, TypeOK
<1>6. ASSUME NEW c \in Conns,
             \/ Dial(c) \/ ReceiveLater(c) \/ Lose(c) \/ CheckExists(c) \/ Validate(c) \/ Issue(c)
             \/ IssueFails(c) \/ Register(c) \/ Welcome(c) \/ Finish(c)
      PROVE  mem' = mem /\ file' = file
  BY <1>6 DEF Dial, ReceiveLater, Lose, CheckExists, Validate, Issue, IssueFails, Register, Welcome,
              Finish, agentVars
<1>7. CASE OtherSend \/ ServerRestart \/ UNCHANGED vars
  BY <1>1, <1>7 DEF OtherSend, ServerRestart, vars, agentVars
<1> QED BY <1>1, <1>3, <1>4, <1>5, <1>6, <1>7 DEF Next

\* Only Dial presents a token, the one its machine holds.
LEMMA PresentedSteps ==
    ASSUME TypeOK, [Next]_vars, NEW d \in Conns
    PROVE  supplied'[d] = supplied[d] \/ supplied'[d] = mem[DialerOf[d]]
<1>1. ASSUME NEW c \in Conns, Dial(c)
      PROVE  supplied'[d] = supplied[d] \/ supplied'[d] = mem[DialerOf[d]]
  BY <1>1 DEF Dial, TypeOK
<1>2. ASSUME NEW c \in Conns,
             \/ ReceiveWelcome(c) \/ ReceiveLater(c) \/ Lose(c) \/ CheckExists(c) \/ Validate(c)
             \/ Issue(c) \/ IssueFails(c) \/ Register(c) \/ Welcome(c) \/ Finish(c)
      PROVE  supplied' = supplied
  BY <1>2 DEF ReceiveWelcome, ReceiveLater, Lose, CheckExists, Validate, Issue, IssueFails, Register,
              Welcome, Finish
<1>3. ASSUME NEW m \in Machines, Restart(m) \/ ClearToken(m)
      PROVE  supplied' = supplied
  BY <1>3 DEF Restart, ClearToken
<1>4. CASE OtherSend \/ ServerRestart \/ UNCHANGED vars
  BY <1>4 DEF OtherSend, ServerRestart, vars
<1> QED BY <1>1, <1>2, <1>3, <1>4 DEF Next

\* The messages of a stream after a step.
LEMMA CarriedSteps ==
    ASSUME TypeOK, [Next]_vars, NEW c \in Conns, NEW i \in 1..Len(down'[c])
    PROVE  \/ \E j \in 1..Len(down[c]) : down'[c][i] = down[c][j]
           \/ Sent(c) /\ down'[c][i] = issued[c] /\ hpc[c] = "welcome"
           \/ Sent(c) /\ down'[c][i] = NoToken /\ commands' # 0
<1>1. /\ down[c] \in Seq(Tokens) /\ issued[c] \in Tokens /\ NoToken \in Tokens
  BY DEF TypeOK, Tokens, NoToken
<1>2. CASE down'[c] = down[c]
  BY <1>2
<1>3. CASE down'[c] = << >>
  BY <1>3
<1>4. CASE down[c] # << >> /\ down'[c] = Tail(down[c])
  BY <1>1, <1>4, HeadAndTail
<1>5. CASE hpc[c] = "welcome" /\ hpc'[c] = "serving" /\ down'[c] = Append(down[c], issued[c])
  <2>1. down'[c][i] = issued[c] \/ (i \in 1..Len(down[c]) /\ down'[c][i] = down[c][i])
    BY <1>1, <1>5, Appended
  <2> QED BY <1>5, <2>1 DEF Sent
<1>6. CASE hpc[c] \in {"welcome", "serving"} /\ commands' # 0 /\ down'[c] = Append(down[c], NoToken)
  <2>1. down'[c][i] = NoToken \/ (i \in 1..Len(down[c]) /\ down'[c][i] = down[c][i])
    BY <1>1, <1>6, Appended
  <2> QED BY <1>6, <2>1 DEF Sent
<1> QED BY <1>2, <1>3, <1>4, <1>5, <1>6, StreamSteps DEF Sent

\* A handler with messages or a registration behind it keeps its token.
LEMMA IssuedStays ==
    ASSUME TypeOK, StreamInv, [Next]_vars, NEW c \in Conns, hpc[c] # "generate"
    PROVE  issued'[c] = issued[c]
<1>1. ASSUME NEW d \in Conns, Issue(d)
      PROVE  issued'[c] = issued[c]
  BY <1>1 DEF Issue, TypeOK
<1> QED BY <1>1, OnlyIssueIssues

LEMMA OwnerStep == TypeOK /\ StreamInv /\ IssueInv /\ OwnerInv /\ [Next]_vars => OwnerInv'
<1> SUFFICES ASSUME TypeOK, StreamInv, IssueInv, OwnerInv, [Next]_vars PROVE OwnerInv'
  OBVIOUS
<1> USE AuthAssumption
<1>1. ASSUME NEW m \in Machines
      PROVE  Owned(m, mem[m])' /\ Owned(m, file[m])'
  <2>1. /\ mem'[m] \in Tokens /\ Owned(m, mem'[m])
        /\ file'[m] \in Tokens /\ Owned(m, file'[m])
    BY KeptIsOwn
  <2>2. \A t \in Tokens : Owned(m, t) => Owned(m, t)'
    BY OwnedStays
  <2> QED BY <2>1, <2>2 DEF Owned
<1>2. ASSUME NEW c \in Conns
      PROVE  Owned(DialerOf[c], supplied[c])'
  <2>1. supplied'[c] \in Tokens /\ Owned(DialerOf[c], supplied'[c])
    BY PresentedSteps DEF OwnerInv, TypeOK
  <2>2. \A t \in Tokens : Owned(DialerOf[c], t) => Owned(DialerOf[c], t)'
    BY OwnedStays
  <2> QED BY <2>1, <2>2 DEF Owned
<1>3. ASSUME NEW c \in Conns, NEW i \in 1..Len(down'[c])
      PROVE  down'[c][i] \in {NoToken, issued'[c]}
  <2>1. CASE \E j \in 1..Len(down[c]) : down'[c][i] = down[c][j]
    <3>1. PICK j \in 1..Len(down[c]) : down'[c][i] = down[c][j]
      BY <2>1
    <3>2. down[c] # << >>
      BY <3>1
    <3>3. issued'[c] = issued[c]
      BY <3>2, IssuedStays DEF StreamInv
    <3> QED BY <3>1, <3>3 DEF OwnerInv
  <2>2. CASE hpc[c] = "welcome" /\ down'[c][i] = issued[c]
    BY <2>2, IssuedStays
  <2> QED BY <2>1, <2>2, CarriedSteps
<1> QED BY <1>1, <1>2, <1>3 DEF OwnerInv

-----------------------------------------------------------------------------
(* The welcome.                                                             *)

\* The bound on the commands of other goroutines is counted up only.
LEMMA CommandsGrow ==
    ASSUME TypeOK, [Next]_vars, commands' = 0
    PROVE  commands = 0
<1>1. CASE OtherSend
  BY <1>1 DEF OtherSend, TypeOK
<1>2. ASSUME NEW c \in Conns,
             \/ Dial(c) \/ ReceiveWelcome(c) \/ ReceiveLater(c) \/ Lose(c) \/ CheckExists(c) \/ Validate(c)
             \/ Issue(c) \/ IssueFails(c) \/ Register(c) \/ Welcome(c) \/ Finish(c)
      PROVE  commands' = commands
  BY <1>2 DEF Dial, ReceiveWelcome, ReceiveLater, Lose, CheckExists, Validate, Issue, IssueFails,
              Register, Welcome, Finish
<1>3. ASSUME NEW m \in Machines, Restart(m) \/ ClearToken(m)
      PROVE  commands' = commands
  BY <1>3 DEF Restart, ClearToken
<1>4. CASE ServerRestart \/ UNCHANGED vars
  BY <1>4 DEF ServerRestart, vars
<1> QED BY <1>1, <1>2, <1>3, <1>4 DEF Next

\* A stream opens when its machine captures the first message on it, and
\* nothing else is captured.
LEMMA OpenSteps ==
    ASSUME TypeOK, [Next]_vars, NEW c \in Conns, conn'[c] = "open"
    PROVE  ReceiveWelcome(c) \/ conn[c] = "open"
<1>1. ASSUME NEW d \in Conns, ReceiveWelcome(d), d # c
      PROVE  conn[c] = "open"
  BY <1>1 DEF ReceiveWelcome, TypeOK
<1>2. ASSUME NEW d \in Conns, Dial(d) \/ Lose(d)
      PROVE  conn[c] = "open"
  BY <1>2 DEF Dial, Lose, TypeOK
<1>3. ASSUME NEW d \in Conns, CheckExists(d) \/ Validate(d) \/ IssueFails(d)
      PROVE  conn[c] = "open"
  <2>1. conn' = conn \/ conn' = [conn EXCEPT ![d] = "gone"]
    BY <1>3 DEF CheckExists, Validate, IssueFails, Return
  <2> QED BY <2>1 DEF TypeOK
<1>4. ASSUME NEW d \in Conns,
             ReceiveLater(d) \/ Issue(d) \/ Register(d) \/ Welcome(d) \/ Finish(d)
      PROVE  conn[c] = "open"
  BY <1>4 DEF ReceiveLater, Issue, Register, Welcome, Finish
<1>5. ASSUME NEW m \in Machines, Restart(m) \/ ClearToken(m)
      PROVE  conn[c] = "open"
  BY <1>5 DEF Restart, ClearToken
<1>6. CASE OtherSend \/ ServerRestart \/ UNCHANGED vars
  BY <1>6 DEF OtherSend, ServerRestart, vars
<1> QED BY <1>1, <1>2, <1>3, <1>4, <1>5, <1>6 DEF Next

LEMMA WelcomeStep ==
    TypeOK /\ StreamInv /\ WelcomeInv /\ [Next]_vars => WelcomeInv'
<1> SUFFICES ASSUME TypeOK, StreamInv, WelcomeInv, [Next]_vars, commands' = 0, NEW c \in Conns
             PROVE  /\ \A i \in 1..Len(down'[c]) : down'[c][i] = issued'[c]
                    /\ down'[c] # << >> \/ conn'[c] = "open" => hpc'[c] \in {"serving", "returned"}
  BY DEF WelcomeInv
<1>1. /\ \A i \in 1..Len(down[c]) : down[c][i] = issued[c]
      /\ down[c] # << >> \/ conn[c] = "open" => hpc[c] \in {"serving", "returned"}
  BY CommandsGrow DEF WelcomeInv
<1>2. ASSUME NEW i \in 1..Len(down'[c])
      PROVE  down'[c][i] = issued'[c]
  <2>1. CASE \E j \in 1..Len(down[c]) : down'[c][i] = down[c][j]
    <3>1. PICK j \in 1..Len(down[c]) : down'[c][i] = down[c][j]
      BY <2>1
    <3>2. down[c] # << >>
      BY <3>1
    <3> QED BY <1>1, <3>1, <3>2, IssuedStays
  <2>2. CASE hpc[c] = "welcome" /\ down'[c][i] = issued[c]
    BY <2>2, IssuedStays
  <2> QED BY <2>1, <2>2, CarriedSteps
<1>3. ASSUME down'[c] # << >>
      PROVE  hpc'[c] \in {"serving", "returned"}
  BY <1>1, <1>3, StreamSteps, HandlerSteps DEF Sent
<1>4. ASSUME conn'[c] = "open"
      PROVE  hpc'[c] \in {"serving", "returned"}
  <2>1. conn[c] = "open" \/ down[c] # << >>
    BY <1>4, OpenSteps DEF ReceiveWelcome
  <2> QED BY <1>1, <2>1, HandlerSteps
<1> QED BY <1>2, <1>3, <1>4

\* The memory of a machine with an open stream changes only when it captures
\* the first message of that stream.
LEMMA MemorySteps ==
    ASSUME TypeOK, StreamInv, [Next]_vars, NEW c \in Conns, conn[c] = "open", conn'[c] = "open"
    PROVE  mem'[DialerOf[c]] = mem[DialerOf[c]]
<1> USE AuthAssumption
<1>1. ASSUME NEW d \in Conns, ReceiveWelcome(d)
      PROVE  mem'[DialerOf[c]] = mem[DialerOf[c]]
  <2>1. conn[d] = "dialing" /\ (mem' = mem \/ mem' = [mem EXCEPT ![DialerOf[d]] = Head(down[d])])
    BY <1>1 DEF ReceiveWelcome, SaveAuthToken, agentVars
  <2>2. DialerOf[d] # DialerOf[c]
    BY <2>1 DEF StreamInv, Live
  <2> QED BY <2>1, <2>2 DEF TypeOK
<1>2. ASSUME NEW m \in Machines, Restart(m)
      PROVE  mem'[DialerOf[c]] = mem[DialerOf[c]]
  <2>1. m # DialerOf[c]
    BY <1>2 DEF Restart, Live
  <2> QED BY <1>2, <2>1 DEF Restart, TypeOK
<1>3. ASSUME NEW m \in Machines, ClearToken(m)
      PROVE  mem'[DialerOf[c]] = mem[DialerOf[c]]
  <2>1. m # DialerOf[c]
    BY <1>3 DEF ClearToken, Live
  <2> QED BY <1>3, <2>1 DEF ClearToken, TypeOK
<1>4. ASSUME NEW d \in Conns,
             \/ Dial(d) \/ ReceiveLater(d) \/ Lose(d) \/ CheckExists(d) \/ Validate(d) \/ Issue(d)
             \/ IssueFails(d) \/ Register(d) \/ Welcome(d) \/ Finish(d)
      PROVE  mem' = mem
  BY <1>4 DEF Dial, ReceiveLater, Lose, CheckExists, Validate, Issue, IssueFails, Register, Welcome,
              Finish, agentVars
<1>5. CASE OtherSend \/ ServerRestart \/ UNCHANGED vars
  BY <1>5 DEF OtherSend, ServerRestart, vars, agentVars
<1> QED BY <1>1, <1>2, <1>3, <1>4, <1>5 DEF Next

LEMMA HeldStep ==
    TypeOK /\ StreamInv /\ WelcomeInv /\ IssuedTokenIsHeld /\ [Next]_vars => IssuedTokenIsHeld'
<1> SUFFICES ASSUME TypeOK, StreamInv, WelcomeInv, IssuedTokenIsHeld, [Next]_vars, NEW c \in Conns,
                    commands' = 0, conn'[c] = "open", issued'[c] # NoToken
             PROVE  mem'[DialerOf[c]] = issued'[c]
  BY DEF IssuedTokenIsHeld
<1> USE AuthAssumption
<1>1. commands = 0
  BY CommandsGrow
<1>2. CASE ReceiveWelcome(c)
  <2>1. /\ Head(down[c]) = down[c][1] /\ 1 \in 1..Len(down[c])
    BY <1>2, HeadAndTail DEF ReceiveWelcome, TypeOK
  <2>2. Head(down[c]) = issued[c] /\ issued' = issued
    BY <1>1, <1>2, <2>1 DEF WelcomeInv, ReceiveWelcome, serverVars
  <2>3. mem' = [mem EXCEPT ![DialerOf[c]] = issued[c]]
    BY <1>2, <2>2 DEF ReceiveWelcome, SaveAuthToken
  <2> QED BY <2>2, <2>3 DEF TypeOK
<1>3. CASE conn[c] = "open"
  <2>1. hpc[c] # "generate"
    BY <1>1, <1>3 DEF WelcomeInv
  <2>2. issued'[c] = issued[c]
    BY <2>1, IssuedStays
  <2> QED BY <1>1, <1>3, <2>2, MemorySteps DEF IssuedTokenIsHeld
<1> QED BY <1>2, <1>3, OpenSteps

-----------------------------------------------------------------------------
(* Theorems.                                                                *)

LEMMA AuthInit == Init => AuthInv
<1> SUFFICES ASSUME Init PROVE AuthInv
  OBVIOUS
<1>1. TypeOK
  BY TypeInit
<1>2. IssueInv /\ StreamInv /\ IssuedTokenIsHeld
  BY DEF Init, IssueInv, StreamInv, IssuedTokenIsHeld, Live
<1>3. OwnerInv /\ WelcomeInv
  BY AuthAssumption DEF Init, OwnerInv, WelcomeInv, Owned
<1> QED BY <1>1, <1>2, <1>3 DEF AuthInv

LEMMA AuthInductive == Spec => []AuthInv
<1>1. AuthInv /\ [Next]_vars => AuthInv'
  BY TypeStep, IssueStep, OwnerStep, StreamStep, WelcomeStep, HeldStep DEF AuthInv
<1> QED BY <1>1, AuthInit, PTL DEF Spec

\* The variables of the authentication keep their types: no token is in use
\* that GenerateAgentToken did not return, and a registered stream has a
\* handler between its registration and its return (ConnectStream).
THEOREM AuthTypeCorrect == Spec => []TypeOK
<1>1. AuthInv => TypeOK
  BY DEF AuthInv
<1> QED BY <1>1, AuthInductive, PTL

\* However many machines run with one agent identifier, and whichever of them
\* registers, restarts, loses its stream or is cleared: no machine holds or
\* presents a token that was issued to another one (ConnectStream,
\* WaitForCommands, SaveAuthToken).
THEOREM TokensStay == Spec => []TokensStayWithOwner
<1>1. AuthInv => TokensStayWithOwner
  <2> SUFFICES ASSUME IssueInv, OwnerInv PROVE TokensStayWithOwner
    BY DEF AuthInv
  <2>1. ASSUME NEW m \in Machines, NEW n \in Machines, mem[m] # NoToken, mem[m] = mem[n]
        PROVE  m = n
    <3>1. PICK c \in Conns : DialerOf[c] = m /\ issued[c] = mem[m]
      BY <2>1 DEF OwnerInv, Owned
    <3>2. PICK d \in Conns : DialerOf[d] = n /\ issued[d] = mem[n]
      BY <2>1 DEF OwnerInv, Owned
    <3> QED BY <2>1, <3>1, <3>2 DEF IssueInv
  <2>2. ASSUME NEW c \in Conns, NEW d \in Conns, supplied[c] # NoToken, supplied[c] = issued[d]
        PROVE  DialerOf[c] = DialerOf[d]
    <3>1. PICK e \in Conns : DialerOf[e] = DialerOf[c] /\ issued[e] = supplied[c]
      BY <2>2 DEF OwnerInv, Owned
    <3> QED BY <2>2, <3>1 DEF IssueInv
  <2> QED BY <2>1, <2>2 DEF TokensStayWithOwner, TokensNotShared, OnlyOwnTokenPresented
<1> QED BY <1>1, AuthInductive, PTL

\* While no other goroutine sends on the stream between its registration and
\* its welcome, a first connection leaves its agent with the token it was
\* issued, also when the token file could not be written (WaitForCommands,
\* SaveAuthToken).
THEOREM WelcomeCarriesToken == Spec => []IssuedTokenIsHeld
<1>1. AuthInv => IssuedTokenIsHeld
  BY DEF AuthInv
<1> QED BY <1>1, AuthInductive, PTL

\* Once a token is stored and no handler is between its check and its store,
\* no connection ever replaces it: HasAgentToken is then true for everyone
\* who comes without a token.
THEOREM SettledIsFinal == Spec => SettledTokenIsFinal
<1>1. TypeOK /\ StreamInv /\ [Next]_vars => (Settled => Settled' /\ stored' = stored)
  <2> SUFFICES ASSUME TypeOK, StreamInv, [Next]_vars, Settled
               PROVE  stored' = stored /\ \A d \in Conns : hpc'[d] # "generate"
    BY DEF Settled
  <2>1. ASSUME NEW c \in Conns, NEW why, why # "generate", hpc' = [hpc EXCEPT ![c] = why]
        PROVE  \A d \in Conns : hpc'[d] # "generate"
    BY <2>1 DEF Settled, TypeOK
  <2>2. ASSUME NEW c \in Conns, Issue(c) \/ IssueFails(c)
        PROVE  FALSE
    BY <2>2 DEF Issue, IssueFails, Settled
  <2>3. ASSUME NEW c \in Conns, CheckExists(c) \/ Validate(c)
        PROVE  stored' = stored /\ \E why : why # "generate" /\ hpc' = [hpc EXCEPT ![c] = why]
    BY <2>3 DEF CheckExists, Validate, Return, IsNew, Settled
  <2>4. ASSUME NEW c \in Conns, Dial(c) \/ Register(c) \/ Welcome(c) \/ Finish(c)
        PROVE  stored' = stored /\ \E why : why # "generate" /\ hpc' = [hpc EXCEPT ![c] = why]
    BY <2>4 DEF Dial, Register, Welcome, Finish
  <2>5. ASSUME NEW c \in Conns, ReceiveWelcome(c) \/ ReceiveLater(c) \/ Lose(c)
        PROVE  stored' = stored /\ hpc' = hpc
    BY <2>5 DEF ReceiveWelcome, ReceiveLater, Lose, serverVars
  <2>6. ASSUME NEW m \in Machines, Restart(m) \/ ClearToken(m)
        PROVE  stored' = stored /\ hpc' = hpc
    BY <2>6 DEF Restart, ClearToken, serverVars
  <2>7. CASE OtherSend \/ UNCHANGED vars
    BY <2>7 DEF OtherSend, vars, serverVars, Settled
  <2>8. CASE ServerRestart
    BY <2>8 DEF ServerRestart, Settled
  <2> QED BY <2>1, <2>2, <2>3, <2>4, <2>5, <2>6, <2>7, <2>8 DEF Next, Settled
<1>2. AuthInv => TypeOK /\ StreamInv
  BY DEF AuthInv
<1> QED BY <1>1, <1>2, AuthInductive, PTL DEF Spec, SettledTokenIsFinal

-----------------------------------------------------------------------------
(***************************************************************************)
(* Scan results: two merges that do not overlap lose nothing.              *)
(***************************************************************************)
(* Resolving the host.                                                      *)

\* A set of numbers has a smallest one.
LEMMA SmallestOf ==
    ASSUME NEW T, T \subseteq Nat, T # {}
    PROVE  \E x \in T : \A y \in T : x <= y
<1>1. PICK x \in T : \A y \in T : <<y, x>> \notin OpToRel(<, Nat)
  BY NatLessThanWellFounded, WFMin, Zenon
<1>2. \A y \in T : ~(y < x)
  BY <1>1 DEF OpToRel
<1> QED BY <1>2

LEMMA MinIsIn ==
    ASSUME NEW T, T \subseteq Nat, T # {}
    PROVE  Min(T) \in T /\ \A y \in T : Min(T) <= y
<1>1. \E x \in T : \A y \in T : x <= y
  BY SmallestOf
<1> QED BY <1>1 DEF Min

\* FirstIn finds a member of the set if the list has one, and else nothing.
LEMMA FirstIs ==
    ASSUME NEW E, NEW list \in Seq(E), NEW S
    PROVE  /\ FirstIn(list, S) = NoIP \/ FirstIn(list, S) \in S
           /\ (\A i \in DOMAIN list : list[i] \notin S) => FirstIn(list, S) = NoIP
<1> DEFINE at == {i \in DOMAIN list : list[i] \in S}
<1>1. at \subseteq Nat
  OBVIOUS
<1>2. at # {} => Min(at) \in at
  <2> HIDE DEF at
  <2> QED BY <1>1, MinIsIn
<1> QED BY <1>2 DEF FirstIn

LEMMA StrategiesList ==
    ASSUME NEW a, NEW r, NEW hosts
    PROVE  /\ Strategies(a, r, hosts) \in Seq({Strategies(a, r, hosts)[i] : i \in 1..7})
           /\ DOMAIN Strategies(a, r, hosts) = 1..7
BY DEF Strategies

\* The address of an agent is a concrete one, if it is found.
LEMMA ResolvedIs ==
    ASSUME NEW a, NEW r, NEW hosts
    PROVE  resolveAgentHostIP(a, r, hosts) \in IPs \cup {NoIP}
BY StrategiesList, FirstIs DEF resolveAgentHostIP

\* An agent that says nothing of where it runs is not given a host that another
\* has claimed.
Nameless(a, r) ==
    /\ r.name = NoName /\ ~isConcreteHostIP(r.ip)
    /\ Lookup[a] = << >> /\ ~isConcreteHostIP(a)

LEMMA RowsOf ==
    ASSUME NEW hosts \in Seq(HostRows)
    PROVE  /\ Len(hosts) \in Nat /\ DOMAIN hosts = 1..Len(hosts)
           /\ \A i \in DOMAIN hosts : hosts[i] \in HostRows /\ hosts[i].ip \in IPs
<1>1. \A h \in HostRows : h.ip \in IPs
  BY DEF HostRows
<1> QED BY <1>1

LEMMA EliminationIs ==
    ASSUME NEW hosts \in Seq(HostRows)
    PROVE  ByElimination(hosts) = NoIP \/ ByElimination(hosts) \in IPs \ buildAgentClaimedIPs(hosts)
<1>1. HostIPs(hosts) \in Seq(IPs)
  BY RowsOf DEF HostIPs
<1>2. SingleIPs \in Seq({SingleIPs[i] : i \in DOMAIN Targets})
  <2>1. Targets \in Seq(Range(Targets))
    BY MergeAssumption
  <2>2. DOMAIN Targets = 1..Len(Targets) /\ Len(Targets) \in Nat
    BY <2>1
  <2> QED BY <2>2 DEF SingleIPs
<1> QED BY <1>1, <1>2, FirstIs DEF ByElimination

LEMMA NamelessIs ==
    ASSUME NEW a \in Agents, NEW r, NEW hosts \in Seq(HostRows), Nameless(a, r)
    PROVE  \/ resolveAgentHostIP(a, r, hosts) = NoIP
           \/ resolveAgentHostIP(a, r, hosts) \notin buildAgentClaimedIPs(hosts)
<1> DEFINE s == Strategies(a, r, hosts)
<1>1. s[1] = NoIP /\ s[3] = NoIP /\ s[7] = NoIP
  BY DEF Strategies, Nameless, ByPrimary, ByAgentID, LastResort, InTargets
<1>2. s[2] = NoIP /\ s[4] = NoIP
  BY DEF Strategies, Nameless, ByHostname
<1>3. s[5] = NoIP
  <2>1. ByDNS(a) = NoIP
    <3>1. DOMAIN Lookup[a] = {}
      BY DEF Nameless
    <3> QED BY <3>1 DEF ByDNS, FirstIn
  <2> QED BY <2>1 DEF Strategies
<1>4. s[6] = NoIP \/ s[6] \in IPs \ buildAgentClaimedIPs(hosts)
  BY EliminationIs DEF Strategies
<1>5. DOMAIN s = 1..7
  BY StrategiesList
<1>6. FirstIn(s, IPs) = NoIP \/ \E i \in 1..7 : FirstIn(s, IPs) = s[i]
  <2> DEFINE at == {i \in DOMAIN s : s[i] \in IPs}
  <2>1. at # {} => Min(at) \in at
    <3>1. at \subseteq Nat
      BY <1>5
    <3> HIDE DEF at
    <3> QED BY <3>1, MinIsIn
  <2> HIDE DEF s
  <2> QED BY <1>5, <2>1 DEF FirstIn
<1>7. \A i \in 1..7 : s[i] = NoIP \/ s[i] \notin buildAgentClaimedIPs(hosts)
  <2> HIDE DEF s
  <2> QED BY <1>1, <1>2, <1>3, <1>4
<1> HIDE DEF s
<1>8. FirstIn(s, IPs) = NoIP \/ FirstIn(s, IPs) \notin buildAgentClaimedIPs(hosts)
  BY <1>6, <1>7
<1> QED BY <1>8 DEF resolveAgentHostIP, s

-----------------------------------------------------------------------------
(* The rows of the hosts.                                                   *)

OneRow(hosts) == \A i, j \in DOMAIN hosts : hosts[i].ip = hosts[j].ip => i = j

\* No row is lost or forgets that an agent is on it.
Keeps(before, after) ==
    \A i \in DOMAIN before : /\ i \in DOMAIN after /\ after[i].ip = before[i].ip
                             /\ before[i].sources \subseteq after[i].sources
Marked(hosts, ip) == \E i \in DOMAIN hosts : hosts[i].ip = ip /\ "agent" \in hosts[i].sources

LEMMA WithAgentIs ==
    ASSUME NEW h \in HostRows, NEW name \in Names
    PROVE  /\ WithAgent(h, name) \in HostRows
           /\ WithAgent(h, name).ip = h.ip
           /\ WithAgent(h, name).sources = h.sources \cup {"agent"}
<1>1. /\ h = [ip |-> h.ip, name |-> h.name, sources |-> h.sources, aliases |-> h.aliases]
      /\ h.ip \in IPs /\ h.name \in Names /\ h.sources \in SUBSET {"network", "agent"} /\ h.aliases \in SUBSET Names
  BY DEF HostRows
<1>2. PICK n \in Names : n = IF h.name = NoName THEN name ELSE h.name
  BY <1>1
<1>3. PICK aliases \in SUBSET Names :
         aliases = IF h.name \in {NoName, name} THEN h.aliases ELSE appendUniqueString(h.aliases, name)
  BY <1>1 DEF appendUniqueString
<1>4. PICK sources \in SUBSET {"network", "agent"} : sources = h.sources \cup {"agent"}
  BY <1>1
<1>5. WithAgent(h, name) = [h EXCEPT !.sources = sources, !.name = n, !.aliases = aliases]
  BY <1>2, <1>3, <1>4, Zenon DEF WithAgent
<1>6. [h EXCEPT !.sources = sources, !.name = n, !.aliases = aliases] \in HostRows
  BY DEF HostRows
<1>7. /\ [h EXCEPT !.sources = sources, !.name = n, !.aliases = aliases].ip = h.ip
      /\ [h EXCEPT !.sources = sources, !.name = n, !.aliases = aliases].sources = sources
  BY <1>1
<1> QED BY <1>4, <1>5, <1>6, <1>7

LEMMA MergedHostsIs ==
    ASSUME NEW hosts \in Seq(HostRows), OneRow(hosts), NEW ip \in IPs \cup {NoIP}, NEW name \in Names
    PROVE  LET after == MergedHosts(hosts, ip, name) IN
           /\ after \in Seq(HostRows) /\ OneRow(after) /\ Keeps(hosts, after)
           /\ ip # NoIP => Marked(after, ip)
<1>0. PICK after : after = MergedHosts(hosts, ip, name)
  OBVIOUS
<1>1. CASE ip = NoIP
  <2>1. after = hosts
    BY <1>0, <1>1 DEF MergedHosts
  <2> QED BY <1>0, <1>1, <2>1 DEF Keeps
<1>2. CASE ip # NoIP /\ \E i \in DOMAIN hosts : hosts[i].ip = ip
  <2>1. PICK i : i = CHOOSE k \in DOMAIN hosts :
                       hosts[k].ip = ip /\ \A j \in 1..(k-1) : hosts[j].ip # ip
    OBVIOUS
  <2>2. i \in DOMAIN hosts /\ hosts[i].ip = ip
    <3>1. PICK k \in DOMAIN hosts : hosts[k].ip = ip
      BY <1>2
    <3>2. \A j \in 1..(k-1) : j \in DOMAIN hosts /\ j # k
      BY RowsOf
    <3>3. \A j \in 1..(k-1) : hosts[j].ip # ip
      BY <3>1, <3>2 DEF OneRow
    <3> QED BY <2>1, <3>1, <3>3
  <2>3. PICK h : h = WithAgent(hosts[i], name)
    OBVIOUS
  <2>4. h \in HostRows /\ h.ip = ip /\ h.sources = hosts[i].sources \cup {"agent"}
    BY <2>2, <2>3, WithAgentIs, RowsOf
  <2>5. after = [hosts EXCEPT ![i] = h]
    BY <1>0, <1>2, <2>1, <2>3 DEF MergedHosts, AnyRow
  <2>6. after \in Seq(HostRows) /\ DOMAIN after = DOMAIN hosts
    BY <2>2, <2>4, <2>5
  <2>7. \A k \in DOMAIN hosts : after[k] = IF k = i THEN h ELSE hosts[k]
    BY <2>2, <2>5
  <2>8. \A k \in DOMAIN hosts : after[k].ip = hosts[k].ip
    BY <2>2, <2>4, <2>7
  <2>9. OneRow(after)
    BY <2>6, <2>8 DEF OneRow
  <2>10. Keeps(hosts, after) /\ Marked(after, ip)
    BY <2>2, <2>4, <2>6, <2>7, <2>8 DEF Keeps, Marked
  <2> QED BY <1>0, <2>6, <2>9, <2>10
<1>3. CASE ip # NoIP /\ ~\E i \in DOMAIN hosts : hosts[i].ip = ip
  <2>1. PICK h : h = [ip |-> ip, name |-> name, sources |-> {"agent"}, aliases |-> {}]
    OBVIOUS
  <2>2. h \in HostRows /\ h.ip = ip /\ h.sources = {"agent"}
    BY <1>3, <2>1 DEF HostRows
  <2>3. after = Append(hosts, h)
    BY <1>0, <1>3, <2>1 DEF MergedHosts, AnyRow
  <2>4. /\ after \in Seq(HostRows) /\ DOMAIN after = 1..(Len(hosts) + 1)
        /\ \A k \in DOMAIN hosts : after[k] = hosts[k]
        /\ after[Len(hosts) + 1] = h
    BY <2>2, <2>3, RowsOf
  <2>5. \A k \in DOMAIN after : k \in DOMAIN hosts \/ k = Len(hosts) + 1
    BY <2>4, RowsOf
  <2>6. OneRow(after)
    BY <1>3, <2>2, <2>4, <2>5 DEF OneRow
  <2>7. Len(hosts) + 1 \in DOMAIN after /\ DOMAIN hosts \subseteq DOMAIN after
    BY <2>4, RowsOf
  <2>8. Keeps(hosts, after) /\ Marked(after, ip)
    BY <2>2, <2>4, <2>7 DEF Keeps, Marked
  <2> QED BY <1>0, <2>4, <2>6, <2>8
<1> QED BY <1>1, <1>2, <1>3

-----------------------------------------------------------------------------
(* The list of vulnerabilities.                                             *)

Ids == UNION {Range(r.vulns) : r \in Reports}
Vulns == [host : IPs, id : Ids, agent : Agents]
NoneTwice(vulns) == \A i, j \in DOMAIN vulns : vulns[i] = vulns[j] => i = j
Lists(vulns, v) == \E i \in DOMAIN vulns : vulns[i] = v

LEMMA WithVulnIs ==
    ASSUME NEW vulns \in Seq(Vulns), NoneTwice(vulns), NEW v \in Vulns
    PROVE  LET after == WithVuln(vulns, v) IN
           /\ after \in Seq(Vulns) /\ NoneTwice(after) /\ Lists(after, v)
           /\ \A w : Lists(vulns, w) => Lists(after, w)
<1>0. PICK after : after = WithVuln(vulns, v)
  OBVIOUS
<1>1. \A w \in Vulns : VulnKey(w) = VulnKey(v) => w = v
  BY DEF VulnKey, Vulns
<1>2. Len(vulns) \in Nat /\ DOMAIN vulns = 1..Len(vulns) /\ \A i \in DOMAIN vulns : vulns[i] \in Vulns
  OBVIOUS
<1>3. CASE Listed(v, vulns)
  <2>1. after = vulns
    BY <1>0, <1>3 DEF WithVuln
  <2>2. Lists(vulns, v)
    BY <1>1, <1>2, <1>3 DEF Listed, Lists
  <2> QED BY <1>0, <2>1, <2>2
<1>4. CASE ~Listed(v, vulns)
  <2>1. after = Append(vulns, v)
    BY <1>0, <1>4 DEF WithVuln
  <2>2. /\ after \in Seq(Vulns) /\ DOMAIN after = 1..(Len(vulns) + 1)
        /\ \A i \in DOMAIN vulns : after[i] = vulns[i]
        /\ after[Len(vulns) + 1] = v
    BY <1>2, <2>1
  <2>3. \A i \in DOMAIN vulns : vulns[i] # v
    BY <1>4 DEF Listed
  <2>4. \A i \in DOMAIN after : i \in DOMAIN vulns \/ i = Len(vulns) + 1
    BY <1>2, <2>2
  <2>5. NoneTwice(after)
    BY <2>2, <2>3, <2>4 DEF NoneTwice
  <2>6. Len(vulns) + 1 \in DOMAIN after /\ DOMAIN vulns \subseteq DOMAIN after
    BY <1>2, <2>2
  <2>7. Lists(after, v) /\ \A w : Lists(vulns, w) => Lists(after, w)
    BY <2>2, <2>6 DEF Lists
  <2> QED BY <1>0, <2>2, <2>5, <2>7
<1> QED BY <1>3, <1>4

\* The recursion over the identifiers, as a fact: there are as many lists as
\* there are prefixes of them, each with one more than the one before.
Chain(g, ids, existing, ip, a) ==
    /\ g[0] = existing
    /\ \A n \in Nat : n + 1 <= Len(ids) =>
         g[n + 1] = WithVuln(g[n], [host |-> ip, id |-> ids[n + 1], agent |-> a])

LEMMA DedupedIs ==
    ASSUME NEW S, NEW ids \in Seq(S), NEW existing, NEW ip, NEW a
    PROVE  \E g : /\ Chain(g, ids, existing, ip, a)
                  /\ appendAgentVulnerabilitiesDeduped(existing, ids, ip, a) = g[Len(ids)]
<1> DEFINE After(g, n) ==
             IF n = 0 THEN existing
             ELSE WithVuln(g[n - 1], [host |-> ip, id |-> ids[n], agent |-> a])
           Is(g, m) == g = [n \in 0..m |-> After(g, n)]
<1>1. Len(ids) \in Nat
  OBVIOUS
<1>2. PICK g : g = CHOOSE f : Is(f, Len(ids))
  OBVIOUS
<1>3. appendAgentVulnerabilitiesDeduped(existing, ids, ip, a) = g[Len(ids)]
  BY <1>2 DEF appendAgentVulnerabilitiesDeduped
<1>4. Is([n \in 0..0 |-> existing], 0)
  OBVIOUS
<1>5. ASSUME NEW m \in Nat, NEW f, Is(f, m)
      PROVE  \E h : Is(h, m + 1)
  <2>1. PICK h : h = [n \in 0..(m + 1) |-> IF n = m + 1 THEN After(f, m + 1) ELSE f[n]]
    OBVIOUS
  <2>2. \A n \in 0..m : f[n] = After(f, n)
    <3> HIDE DEF After
    <3> QED BY <1>5
  <2>3. ASSUME NEW n \in 0..(m + 1)
        PROVE  h[n] = After(h, n)
    <3>1. n # 0 => h[n - 1] = f[n - 1]
      BY <2>1
    <3>2. h[n] = After(f, n)
      <4>1. CASE n = m + 1
        <5> HIDE DEF After
        <5> QED BY <2>1, <4>1
      <4>2. CASE n # m + 1
        <5>1. n \in 0..m
          BY <4>2
        <5> HIDE DEF After
        <5> QED BY <2>1, <2>2, <4>2, <5>1
      <4> QED BY <4>1, <4>2
    <3> QED BY <3>1, <3>2
  <2>4. Is(h, m + 1)
    <3> HIDE DEF After
    <3> QED BY <2>1, <2>3
  <2> QED BY <2>4
<1>6. ASSUME NEW m \in Nat
      PROVE  \E f : Is(f, m)
  <2> HIDE DEF Is
  <2> DEFINE T == {k \in Nat : ~\E f : Is(f, k)}
  <2>1. SUFFICES ASSUME T # {} PROVE FALSE
    OBVIOUS
  <2>2. T \subseteq Nat
    OBVIOUS
  <2>3. PICK k \in T : \A l \in T : k <= l
    <3> HIDE DEF T
    <3> QED BY <2>1, <2>2, SmallestOf
  <2>4. k # 0
    BY <1>4
  <2>5. k \in Nat /\ ~\E f : Is(f, k)
    OBVIOUS
  <2>6. k - 1 \in Nat /\ k - 1 + 1 = k
    BY <2>4, <2>5
  <2>7. k - 1 \notin T
    <3> HIDE DEF T
    <3> QED BY <2>3, <2>5, <2>6
  <2>8. PICK f : Is(f, k - 1)
    BY <2>6, <2>7
  <2>9. \E h : Is(h, k - 1 + 1)
    BY <1>5, <2>6, <2>8
  <2> QED BY <2>5, <2>6, <2>9
<1>7. Is(g, Len(ids))
  <2> HIDE DEF Is
  <2> QED BY <1>1, <1>2, <1>6
<1>8. \A n \in 0..Len(ids) : g[n] = After(g, n)
  <2> HIDE DEF After
  <2> QED BY <1>7
<1>9. g[0] = existing
  <2>1. g[0] = After(g, 0)
    <3> HIDE DEF After
    <3> QED BY <1>1, <1>8
  <2>2. After(g, 0) = existing
    OBVIOUS
  <2> QED BY <2>1, <2>2
<1>10. ASSUME NEW n \in Nat, n + 1 <= Len(ids)
       PROVE  g[n + 1] = WithVuln(g[n], [host |-> ip, id |-> ids[n + 1], agent |-> a])
  <2>1. n + 1 \in 0..Len(ids) /\ n + 1 # 0 /\ n + 1 - 1 = n
    BY <1>1, <1>10
  <2>2. g[n + 1] = After(g, n + 1)
    BY <1>8, <2>1
  <2> QED BY <2>1, <2>2
<1> QED BY <1>3, <1>9, <1>10 DEF Chain

\* What an agent reports is added without repetition, and nothing is lost.
LEMMA DedupedKeeps ==
    ASSUME NEW existing \in Seq(Vulns), NoneTwice(existing), NEW r \in Reports,
           NEW ip \in IPs, NEW a \in Agents
    PROVE  LET after == appendAgentVulnerabilitiesDeduped(existing, r.vulns, ip, a) IN
           /\ after \in Seq(Vulns) /\ NoneTwice(after)
           /\ \A w : Lists(existing, w) => Lists(after, w)
           /\ \A n \in DOMAIN r.vulns : Lists(after, [host |-> ip, id |-> r.vulns[n], agent |-> a])
<1>1. PICK ids : ids = r.vulns
  OBVIOUS
<1>2. ids \in Seq(Range(ids)) /\ Range(ids) \subseteq Ids
  BY <1>1, MergeAssumption DEF Ids
<1>3. Len(ids) \in Nat /\ DOMAIN ids = 1..Len(ids) /\ \A n \in 1..Len(ids) : ids[n] \in Ids
  BY <1>2
<1>4. PICK g : /\ Chain(g, ids, existing, ip, a)
               /\ appendAgentVulnerabilitiesDeduped(existing, ids, ip, a) = g[Len(ids)]
  BY <1>2, DedupedIs
<1> DEFINE New(n) == [host |-> ip, id |-> ids[n], agent |-> a]
           Good(m) == /\ g[m] \in Seq(Vulns) /\ NoneTwice(g[m])
                      /\ \A w : Lists(existing, w) => Lists(g[m], w)
                      /\ \A n \in 1..m : Lists(g[m], New(n))
           T == {m \in Nat : m <= Len(ids) /\ ~Good(m)}
<1>5. Good(0)
  BY <1>4 DEF Chain
<1>6. ASSUME NEW m \in Nat, m + 1 <= Len(ids), Good(m)
      PROVE  Good(m + 1)
  <2>1. PICK v : v = New(m + 1)
    OBVIOUS
  <2>2. v \in Vulns
    BY <1>3, <1>6, <2>1 DEF Vulns
  <2>3. g[m + 1] = WithVuln(g[m], v)
    BY <1>4, <1>6, <2>1 DEF Chain
  <2>4. /\ g[m + 1] \in Seq(Vulns) /\ NoneTwice(g[m + 1]) /\ Lists(g[m + 1], v)
        /\ \A w : Lists(g[m], w) => Lists(g[m + 1], w)
    <3> HIDE DEF New
    <3> QED BY <1>6, <2>2, <2>3, WithVulnIs
  <2>5. \A n \in 1..(m + 1) : n \in 1..m \/ n = m + 1
    OBVIOUS
  <2> HIDE DEF New
  <2> QED BY <1>6, <2>1, <2>4, <2>5
<1>7. T = {}
  <2>1. SUFFICES ASSUME T # {} PROVE FALSE
    OBVIOUS
  <2> HIDE DEF Good
  <2>2. T \subseteq Nat
    OBVIOUS
  <2>3. PICK k \in T : \A l \in T : k <= l
    <3> HIDE DEF T
    <3> QED BY <2>1, <2>2, SmallestOf
  <2>4. k \in Nat /\ k <= Len(ids) /\ ~Good(k)
    OBVIOUS
  <2>5. k # 0
    BY <1>5, <2>4
  <2>6. k - 1 \in Nat /\ k - 1 + 1 = k /\ k - 1 <= Len(ids)
    BY <1>3, <2>4, <2>5
  <2>7. k - 1 \notin T
    <3> HIDE DEF T
    <3> QED BY <2>3, <2>4, <2>6
  <2>8. Good(k - 1)
    BY <2>6, <2>7
  <2>9. Good(k - 1 + 1)
    BY <1>6, <2>4, <2>6, <2>8
  <2> QED BY <2>4, <2>6, <2>9
<1>8. Good(Len(ids))
  <2> HIDE DEF Good
  <2> QED BY <1>3, <1>7
<1> QED BY <1>1, <1>3, <1>4, <1>8

-----------------------------------------------------------------------------
(* The scan and the agent_scan keys.                                        *)

Phases == {"running", "completed"}
Scans == [id : 1..MaxScans, hosts : Seq(HostRows), vulns : Seq(Vulns), network : Phases,
          agents : Phases, dispatched : SUBSET Agents, statuses : [Agents -> Statuses], status : Phases]

\* A scan that was written by merges, whatever they had read before: a stale
\* copy is as good as the latest one.
ScanOK(s) ==
    /\ s \in Scans /\ OneRow(s.hosts) /\ NoneTwice(s.vulns)
    /\ \A a \in Agents : s.statuses[a] \in Done => a \in s.dispatched
    /\ s.status = "completed" =>
         s.network = "completed" /\ \A a \in s.dispatched : s.statuses[a] \in Done

LEMMA NewScanIs ==
    ASSUME NEW id \in 1..MaxScans
    PROVE  ScanOK(NewScan(id)) /\ NewScan(id).id = id
<1>1. PICK s : s = NewScan(id)
  OBVIOUS
<1>2. /\ s.id = id /\ s.hosts = Discovered /\ s.vulns = << >> /\ s.dispatched = Dispatched
      /\ s.status = "running" /\ \A a \in Agents : s.statuses[a] \in Done => a \in Dispatched
  BY <1>1 DEF NewScan, Done
<1>3. s \in Scans
  <2>1. [a \in Agents |-> IF a \in Dispatched THEN "running" ELSE "none"] \in [Agents -> Statuses]
    BY DEF Statuses
  <2> QED BY <1>1, <2>1, MergeAssumption DEF NewScan, Scans, Phases
<1>4. OneRow(s.hosts) /\ NoneTwice(s.vulns)
  BY <1>2, MergeAssumption DEF OneRow, NoneTwice
<1> QED BY <1>1, <1>2, <1>3, <1>4 DEF ScanOK

\* As many agents have finished as were dispatched only if all of those have.
LEMMA AllAreDone ==
    ASSUME NEW S, IsFiniteSet(S), NEW T, T \subseteq S, Cardinality(T) >= Cardinality(S)
    PROVE  T = S
<1>1. IsFiniteSet(T) /\ Cardinality(T) <= Cardinality(S) /\ (Cardinality(T) = Cardinality(S) => T = S)
  BY FS_Subset
<1>2. Cardinality(T) \in Nat /\ Cardinality(S) \in Nat
  BY <1>1, FS_CardinalityType
<1> QED BY <1>1, <1>2

\* What a scan has of an agent whose result was merged on the host ip.
Has(s, a, r, ip) ==
    /\ s.statuses[a] \in Done
    /\ ip # NoIP => /\ Marked(s.hosts, ip)
                    /\ \A n \in DOMAIN r.vulns : Lists(s.vulns, [host |-> ip, id |-> r.vulns[n], agent |-> a])

\* Nothing of a scan is lost in another one.
Grows(s, t) ==
    /\ \A a \in Agents : s.statuses[a] \in Done => t.statuses[a] \in Done
    /\ Keeps(s.hosts, t.hosts)
    /\ \A v : Lists(s.vulns, v) => Lists(t.vulns, v)

LEMMA GrowsKeeps ==
    ASSUME NEW s, NEW t, Grows(s, t), NEW a \in Agents, NEW r, NEW ip, Has(s, a, r, ip)
    PROVE  Has(t, a, r, ip)
<1>1. Marked(s.hosts, ip) => Marked(t.hosts, ip)
  BY DEF Grows, Keeps, Marked
<1> QED BY <1>1 DEF Grows, Has

LEMMA MergedIs ==
    ASSUME NEW s, ScanOK(s), NEW a \in Agents, NEW r \in Reports
    PROVE  LET t == Merged(s, a, r) IN
           /\ ScanOK(t) /\ t.id = s.id
           /\ Grows(s, t)
           /\ Has(t, a, r, resolveAgentHostIP(a, r, s.hosts))
<1>1. PICK ip \in IPs \cup {NoIP} : ip = resolveAgentHostIP(a, r, s.hosts)
  BY ResolvedIs
<1>2. PICK dispatched \in SUBSET Agents : dispatched = s.dispatched \cup {a}
  BY DEF ScanOK, Scans
<1>3. PICK statuses \in [Agents -> Statuses] :
         statuses = [s.statuses EXCEPT ![a] = IF r.ok THEN "completed" ELSE "failed"]
  BY DEF ScanOK, Scans, Statuses, Done
<1>4. PICK agents \in Phases : agents = IF AllAgentsDone(dispatched, statuses) THEN "completed" ELSE "running"
  BY DEF Phases
<1>5. PICK status \in Phases :
         status = IF agents = "completed" /\ s.network \in Done THEN "completed" ELSE s.status
  BY DEF ScanOK, Scans, Phases
<1>6. PICK hosts : hosts = MergedHosts(s.hosts, ip, r.name)
  OBVIOUS
<1>7. PICK vulns : vulns = IF ip = NoIP THEN s.vulns
                           ELSE appendAgentVulnerabilitiesDeduped(s.vulns, r.vulns, ip, a)
  OBVIOUS
<1>8. PICK t : t = [s EXCEPT !.dispatched = dispatched, !.statuses = statuses, !.agents = agents,
                             !.status = status, !.hosts = hosts, !.vulns = vulns]
  OBVIOUS
<1>9. t = Merged(s, a, r)
  BY <1>1, <1>2, <1>3, <1>4, <1>5, <1>6, <1>7, <1>8, Zenon DEF Merged
<1>10. /\ t.id = s.id /\ t.network = s.network /\ t.dispatched = dispatched /\ t.statuses = statuses
       /\ t.status = status /\ t.hosts = hosts /\ t.vulns = vulns
  BY <1>8 DEF ScanOK, Scans
<1>11. /\ hosts \in Seq(HostRows) /\ OneRow(hosts) /\ Keeps(s.hosts, hosts)
       /\ ip # NoIP => Marked(hosts, ip)
  <2>1. r.name \in Names
    BY DEF Names
  <2>2. s.hosts \in Seq(HostRows) /\ OneRow(s.hosts)
    BY DEF ScanOK, Scans
  <2> QED BY <1>6, <2>1, <2>2, MergedHostsIs
<1>12. /\ vulns \in Seq(Vulns) /\ NoneTwice(vulns) /\ \A v : Lists(s.vulns, v) => Lists(vulns, v)
       /\ ip # NoIP => \A n \in DOMAIN r.vulns : Lists(vulns, [host |-> ip, id |-> r.vulns[n], agent |-> a])
  <2>1. s.vulns \in Seq(Vulns) /\ NoneTwice(s.vulns)
    BY DEF ScanOK, Scans
  <2>2. CASE ip = NoIP
    BY <1>7, <2>1, <2>2
  <2>3. CASE ip # NoIP
    BY <1>7, <2>1, <2>3, DedupedKeeps
  <2> QED BY <2>2, <2>3
<1>13. t \in Scans
  BY <1>8, <1>11, <1>12 DEF ScanOK, Scans
<1>14. statuses[a] \in Done /\ \A b \in Agents : b # a => statuses[b] = s.statuses[b]
  BY <1>3 DEF ScanOK, Scans, Done
<1>15. \A b \in Agents : statuses[b] \in Done => b \in dispatched
  BY <1>2, <1>14 DEF ScanOK
<1>16. ASSUME AllAgentsDone(dispatched, statuses)
       PROVE  \A b \in dispatched : statuses[b] \in Done
  <2>1. PICK done : done = {b \in Agents : statuses[b] \in Done}
    OBVIOUS
  <2>2. Cardinality(done) >= Cardinality(dispatched) /\ done \subseteq dispatched
    BY <1>15, <1>16, <2>1 DEF AllAgentsDone
  <2>3. IsFiniteSet(dispatched)
    BY MergeAssumption, FS_Subset
  <2>4. done = dispatched
    BY <2>2, <2>3, AllAreDone
  <2> QED BY <2>1, <2>4
<1>17. status = "completed" => s.network = "completed" /\ \A b \in dispatched : statuses[b] \in Done
  <2>1. CASE agents = "completed" /\ s.network \in Done
    <3>1. s.network = "completed"
      BY <2>1 DEF ScanOK, Scans, Phases, Done
    <3>2. AllAgentsDone(dispatched, statuses)
      BY <1>4, <2>1
    <3> QED BY <1>16, <3>1, <3>2
  <2>2. CASE ~(agents = "completed" /\ s.network \in Done)
    <3>1. status = s.status
      BY <1>5, <2>2
    <3> QED BY <1>2, <1>14, <3>1 DEF ScanOK
  <2> QED BY <2>1, <2>2
<1>18. ScanOK(t)
  BY <1>10, <1>11, <1>12, <1>13, <1>15, <1>17 DEF ScanOK
<1>19. Grows(s, t)
  BY <1>10, <1>11, <1>12, <1>14 DEF Grows
<1>20. Has(t, a, r, ip)
  BY <1>10, <1>11, <1>12, <1>14 DEF Has
<1> QED BY <1>1, <1>9, <1>10, <1>18, <1>19, <1>20

\* The agents that a key lists as done.
DoneOf(agents) == {x \in DOMAIN agents : agents[x] \in Done}

\* An agent_scan key counts the agents it lists, and is completed when all of
\* them are done.
Keys == [status : Statuses, total : Nat, completed : Nat, agents : UNION {[S -> Statuses] : S \in SUBSET Agents}]
KeyOK(k) ==
    /\ k \in Keys
    /\ k.total = Cardinality(DOMAIN k.agents) /\ k.completed = Cardinality(DoneOf(k.agents))
    /\ k.status = "completed" => DoneOf(k.agents) = DOMAIN k.agents

LEMMA KeyParts ==
    ASSUME NEW k, KeyOK(k)
    PROVE  /\ k \in Keys /\ k # NoKey
           /\ DOMAIN k.agents \subseteq Agents /\ IsFiniteSet(DOMAIN k.agents)
           /\ k.agents \in [DOMAIN k.agents -> Statuses]
<1>1. PICK S \in SUBSET Agents : k.agents \in [S -> Statuses]
  BY DEF KeyOK, Keys
<1>2. DOMAIN k.agents = S /\ IsFiniteSet(S)
  BY <1>1, MergeAssumption, FS_Subset
<1>3. k # NoKey
  BY DEF KeyOK, Keys, NoKey, Statuses, Done
<1> QED BY <1>1, <1>2, <1>3 DEF KeyOK

LEMMA NewKeyIs ==
    ASSUME NEW a \in Agents, NEW r \in Reports
    PROVE  KeyOK(NewKey(a, r))
<1>1. PICK st \in Done : st = IF r.ok THEN "completed" ELSE "failed"
  BY DEF Done
<1>2. PICK agents : agents = [x \in {a} |-> st]
  OBVIOUS
<1>3. NewKey(a, r) = [status |-> st, total |-> 1, completed |-> 1, agents |-> agents]
  BY <1>1, <1>2, Zenon DEF NewKey
<1>4. DOMAIN agents = {a} /\ DoneOf(agents) = {a}
  BY <1>1, <1>2 DEF DoneOf
<1>5. Cardinality({a}) = 1
  BY FS_Singleton
<1>6. agents \in UNION {[S -> Statuses] : S \in SUBSET Agents}
  <2>1. {a} \in SUBSET Agents /\ agents \in [{a} -> Statuses]
    BY <1>1, <1>2 DEF Statuses
  <2> QED BY <2>1
<1>7. NewKey(a, r) \in Keys
  BY <1>1, <1>3, <1>6 DEF Keys, Statuses
<1> QED BY <1>3, <1>4, <1>5, <1>7 DEF KeyOK

LEMMA StartedKeyIs ==
    ASSUME NEW k, k = [status |-> "running", total |-> Cardinality(Dispatched), completed |-> 0,
                       agents |-> [a \in Dispatched |-> "running"]]
    PROVE  KeyOK(k)
<1>1. IsFiniteSet(Dispatched) /\ Cardinality(Dispatched) \in Nat
  BY MergeAssumption, FS_Subset, FS_CardinalityType
<1>2. PICK agents : agents = [a \in Dispatched |-> "running"]
  OBVIOUS
<1>3. DOMAIN agents = Dispatched /\ DoneOf(agents) = {}
  BY <1>2 DEF DoneOf, Done
<1>4. Cardinality({}) = 0
  BY FS_EmptySet
<1>5. agents \in UNION {[S -> Statuses] : S \in SUBSET Agents}
  <2>1. Dispatched \in SUBSET Agents /\ agents \in [Dispatched -> Statuses]
    BY <1>2, MergeAssumption DEF Statuses
  <2> QED BY <2>1
<1>6. k = [status |-> "running", total |-> Cardinality(Dispatched), completed |-> 0, agents |-> agents]
  BY <1>2
<1>7. k \in Keys
  BY <1>1, <1>5, <1>6 DEF Keys, Statuses
<1> QED BY <1>3, <1>4, <1>6, <1>7 DEF KeyOK

LEMMA UpdatedKeyIs ==
    ASSUME NEW k, KeyOK(k), NEW a, NEW r
    PROVE  KeyOK(UpdatedKey(k, a, r))
<1>1. PICK st \in Done : st = IF r.ok THEN "completed" ELSE "failed"
  BY DEF Done
<1>2. PICK S : S = DOMAIN k.agents
  OBVIOUS
<1>3. S \in SUBSET Agents /\ IsFiniteSet(S) /\ k.agents \in [S -> Statuses] /\ k \in Keys
  BY <1>2, KeyParts
<1>4. PICK agents : agents = [x \in S |-> IF x # a THEN k.agents[x] ELSE st]
  OBVIOUS
<1>5. agents \in [S -> Statuses] /\ DOMAIN agents = S /\ DoneOf(k.agents) \subseteq DoneOf(agents)
  BY <1>1, <1>2, <1>3, <1>4 DEF DoneOf, Statuses
<1>6. PICK n : n = Cardinality(DoneOf(agents))
  OBVIOUS
<1>7. DoneOf(agents) \subseteq S /\ n \in Nat
  <2>1. DoneOf(agents) \subseteq S
    BY <1>5 DEF DoneOf
  <2> QED BY <1>3, <1>6, <2>1, FS_Subset, FS_CardinalityType
<1>8. PICK status \in Statuses : status = IF KeyCompleted(k, n) THEN "completed" ELSE k.status
  BY <1>3 DEF Keys, Statuses, Done
<1>9. PICK t : t = [status |-> status, total |-> k.total, completed |-> n, agents |-> agents]
  OBVIOUS
<1>10. t = UpdatedKey(k, a, r)
  <2>1. DoneNow(k, agents) = n
    BY <1>6 DEF DoneNow, DoneOf
  <2>2. [x \in DOMAIN k.agents |-> IF x # a THEN k.agents[x] ELSE IF r.ok THEN "completed" ELSE "failed"] = agents
    BY <1>1, <1>2, <1>4
  <2> QED BY <1>8, <1>9, <2>1, <2>2, Zenon DEF UpdatedKey
<1>11. t \in Keys
  <2>1. agents \in UNION {[T -> Statuses] : T \in SUBSET Agents}
    BY <1>3, <1>5
  <2> QED BY <1>3, <1>7, <1>8, <1>9, <2>1 DEF Keys
<1>12. status = "completed" => DoneOf(agents) = S
  <2>1. CASE KeyCompleted(k, n)
    <3>1. n >= k.total /\ k.total = Cardinality(S)
      BY <1>2, <2>1 DEF KeyCompleted, KeyOK
    <3> QED BY <1>3, <1>6, <1>7, <3>1, AllAreDone
  <2>2. CASE ~KeyCompleted(k, n)
    <3>1. status = k.status
      BY <1>8, <2>2
    <3> QED BY <1>2, <1>5, <1>7, <3>1 DEF KeyOK
  <2> QED BY <2>1, <2>2
<1> QED BY <1>2, <1>5, <1>6, <1>9, <1>10, <1>11, <1>12 DEF KeyOK

-----------------------------------------------------------------------------
(* The inductive invariant.                                                 *)

Places == {"idle", "get", "set", "getKey", "setKey", "done", "skipped", "failed"}
Jobs == [scan : 1..MaxScans, agent : Agents, report : Reports]

\* Where a merge is and what it carries there.
JobInv ==
    /\ pc \in [Merges -> Places] /\ host \in [Merges -> IPs \cup {NoIP}]
    /\ announced \subseteq 1..MaxScans /\ overlap \in BOOLEAN
    /\ DOMAIN job = Merges
    /\ \A m \in Merges : pc[m] # "idle" => job[m] \in Jobs

\* The scan, and what a merge has read of it, is one that merges may write.
ScanInv ==
    /\ ScanOK(scan) /\ DOMAIN copy = Merges
    /\ \A m \in Merges : pc[m] = "set" => ScanOK(copy[m]) /\ copy[m].id = job[m].scan

\* So are the keys.
KeyInv ==
    /\ DOMAIN key = 1..MaxScans /\ DOMAIN keyCopy = Merges
    /\ \A s \in 1..MaxScans : key[s] = NoKey \/ KeyOK(key[s])
    /\ \A m \in Merges : pc[m] = "setKey" => keyCopy[m] = NoKey \/ KeyOK(keyCopy[m])

\* Without a lost update no result is of a scan to come, and what was merged
\* into the latest scan is in it. (A stale write may bring back an older scan.)
Kept(m) ==
    /\ pc[m] # "idle" => job[m].scan <= scan.id
    /\ Written(m) /\ job[m].scan = scan.id => Has(scan, job[m].agent, job[m].report, host[m])
KeptInv == ~overlap => \A m \in Merges : Kept(m)

MergeInv == JobInv /\ ScanInv /\ KeyInv /\ KeptInv /\ AnonymousApart

LEMMA MergeInvInit == MergeInit => MergeInv
<1> SUFFICES ASSUME MergeInit PROVE MergeInv
  OBVIOUS
<1>1. 1 \in 1..MaxScans
  BY MergeAssumption
<1>2. ScanOK(scan)
  BY <1>1, NewScanIs DEF MergeInit
<1>3. JobInv
  BY DEF MergeInit, JobInv, Places
<1>4. ScanInv
  BY <1>2 DEF MergeInit, ScanInv
<1>5. KeyInv
  BY DEF MergeInit, KeyInv
<1>6. \A m \in Merges : pc[m] = "idle" /\ ~Written(m)
  BY DEF MergeInit, Written
<1>7. KeptInv /\ AnonymousApart
  BY <1>6 DEF KeptInv, Kept, AnonymousApart
<1> QED BY <1>3, <1>4, <1>5, <1>7 DEF MergeInv

LEMMA JobStep == JobInv /\ ScanInv /\ [MergeNext]_mergeVars => JobInv'
<1> SUFFICES ASSUME JobInv, ScanInv, [MergeNext]_mergeVars PROVE JobInv'
  OBVIOUS
<1>0. scan.id \in 1..MaxScans /\ MaxScans \in Nat
  BY MergeAssumption DEF ScanInv, ScanOK, Scans
<1>1. ASSUME NEW m \in Merges, NEW a \in Agents, NEW r \in Reports, ResultArrives(m, a, r)
      PROVE  JobInv'
  <2>1. PICK s \in 1..scan.id : job' = [job EXCEPT ![m] = [scan |-> s, agent |-> a, report |-> r]]
    BY <1>1 DEF ResultArrives
  <2>2. [scan |-> s, agent |-> a, report |-> r] \in Jobs
    BY <1>0 DEF Jobs
  <2>3. DOMAIN job' = Merges /\ job'[m] \in Jobs /\ \A n \in Merges : n # m => job'[n] = job[n]
    BY <2>1, <2>2 DEF JobInv
  <2>4. pc' \in [Merges -> Places] /\ \A n \in Merges : n # m => pc'[n] = pc[n]
    BY <1>1 DEF ResultArrives, Goto, JobInv, Places
  <2> QED BY <1>1, <2>3, <2>4 DEF ResultArrives, JobInv
<1>2. ASSUME NEW m \in Merges, NEW where \in Places, pc[m] # "idle", Goto(m, where),
             UNCHANGED <<job, announced>>, host' \in [Merges -> IPs \cup {NoIP}], overlap' \in BOOLEAN
      PROVE  JobInv'
  <2>1. pc' \in [Merges -> Places] /\ \A n \in Merges : pc'[n] # "idle" => pc[n] # "idle"
    BY <1>2 DEF Goto, JobInv
  <2> QED BY <1>2, <2>1 DEF JobInv
<1>3. ASSUME NEW m \in Merges, GetScan(m)
      PROVE  JobInv'
  BY <1>2, <1>3 DEF GetScan, Places, JobInv
<1>4. ASSUME NEW m \in Merges, SetScan(m)
      PROVE  JobInv'
  <2>1. resolveAgentHostIP(job[m].agent, job[m].report, copy[m].hosts) \in IPs \cup {NoIP}
    BY ResolvedIs
  <2>2. host' \in [Merges -> IPs \cup {NoIP}] /\ overlap' \in BOOLEAN
    BY <1>4, <2>1 DEF SetScan, JobInv
  <2>3. pc[m] # "idle" /\ UNCHANGED <<job, announced>>
    BY <1>4 DEF SetScan
  <2>4. Goto(m, "getKey") \/ Goto(m, "failed")
    BY <1>4 DEF SetScan
  <2> QED BY <1>2, <2>2, <2>3, <2>4 DEF Places
<1>5. ASSUME NEW m \in Merges, ScanFails(m) \/ GetKey(m) \/ SetKey(m)
      PROVE  JobInv'
  <2>1. pc[m] # "idle" /\ UNCHANGED <<job, announced, host, overlap>>
    BY <1>5 DEF ScanFails, GetKey, SetKey
  <2>2. Goto(m, "failed") \/ Goto(m, "setKey") \/ Goto(m, "done")
    BY <1>5 DEF ScanFails, GetKey, SetKey
  <2> QED BY <1>2, <2>1, <2>2 DEF Places, JobInv
<1>6. CASE StartScan \/ NetworkDone \/ UNCHANGED mergeVars
  BY <1>6 DEF StartScan, NetworkDone, mergeVars, JobInv
<1>7. CASE WriteKey
  <2>1. announced' \subseteq 1..MaxScans
    BY <1>0, <1>7 DEF WriteKey, JobInv
  <2> QED BY <1>7, <2>1 DEF WriteKey, JobInv
<1> QED BY <1>1, <1>3, <1>4, <1>5, <1>6, <1>7 DEF MergeNext

LEMMA ScanStep == JobInv /\ ScanInv /\ [MergeNext]_mergeVars => ScanInv'
<1> SUFFICES ASSUME JobInv, ScanInv, [MergeNext]_mergeVars PROVE ScanInv'
  OBVIOUS
<1>0. scan.id \in 1..MaxScans /\ MaxScans \in Nat
  BY MergeAssumption DEF ScanInv, ScanOK, Scans
<1>1. ASSUME UNCHANGED copy, ScanOK(scan'),
             \A n \in Merges : pc'[n] = "set" => pc[n] = "set" /\ job'[n] = job[n]
      PROVE  ScanInv'
  BY <1>1 DEF ScanInv
<1>2. ASSUME NEW m \in Merges, NEW a \in Agents, NEW r \in Reports, ResultArrives(m, a, r)
      PROVE  ScanInv'
  <2>1. \A n \in Merges : pc'[n] = IF n = m THEN "get" ELSE pc[n]
    BY <1>2 DEF ResultArrives, Goto, JobInv
  <2>2. \A n \in Merges : n # m => job'[n] = job[n]
    BY <1>2 DEF ResultArrives, JobInv
  <2>3. UNCHANGED <<copy, scan>>
    BY <1>2 DEF ResultArrives
  <2> QED BY <1>1, <2>1, <2>2, <2>3 DEF ScanInv
<1>3. ASSUME NEW m \in Merges, GetScan(m)
      PROVE  ScanInv'
  <2>1. CASE scan.id = job[m].scan
    <3>1. /\ \A n \in Merges : copy'[n] = IF n = m THEN scan ELSE copy[n]
          /\ DOMAIN copy' = Merges
          /\ UNCHANGED <<scan, job>>
      BY <1>3, <2>1 DEF GetScan, ScanInv
    <3>2. \A n \in Merges : pc'[n] = IF n = m THEN "set" ELSE pc[n]
      BY <1>3, <2>1 DEF GetScan, Goto, JobInv
    <3> QED BY <2>1, <3>1, <3>2 DEF ScanInv
  <2>2. CASE scan.id # job[m].scan
    <3>1. \A n \in Merges : pc'[n] = IF n = m THEN "skipped" ELSE pc[n]
      BY <1>3, <2>2 DEF GetScan, Goto, JobInv
    <3>2. UNCHANGED <<scan, job, copy>>
      BY <1>3, <2>2 DEF GetScan
    <3> QED BY <1>1, <3>1, <3>2 DEF ScanInv
  <2> QED BY <2>1, <2>2
<1>4. ASSUME NEW m \in Merges, NEW where \in Places \ {"set"}, Goto(m, where),
             copy' = [copy EXCEPT ![m] = NoScan], UNCHANGED job, ScanOK(scan')
      PROVE  ScanInv'
  <2>1. \A n \in Merges : pc'[n] = IF n = m THEN where ELSE pc[n]
    BY <1>4 DEF Goto, JobInv
  <2>2. DOMAIN copy' = Merges /\ \A n \in Merges : n # m => copy'[n] = copy[n]
    BY <1>4 DEF ScanInv
  <2> QED BY <1>4, <2>1, <2>2 DEF ScanInv
<1>5. ASSUME NEW m \in Merges, SetScan(m)
      PROVE  ScanInv'
  <2>1. ScanOK(copy[m]) /\ job[m] \in Jobs
    BY <1>5 DEF SetScan, ScanInv, JobInv
  <2>2. job[m].agent \in Agents /\ job[m].report \in Reports
    BY <2>1 DEF Jobs
  <2>3. ScanOK(scan')
    BY <1>5, <2>1, <2>2, MergedIs DEF SetScan
  <2>4. copy' = [copy EXCEPT ![m] = NoScan] /\ UNCHANGED job /\ (Goto(m, "getKey") \/ Goto(m, "failed"))
    BY <1>5 DEF SetScan
  <2> QED BY <1>4, <2>3, <2>4 DEF Places
<1>6. ASSUME NEW m \in Merges, ScanFails(m)
      PROVE  ScanInv'
  BY <1>4, <1>6 DEF ScanFails, Places, ScanInv
<1>7. ASSUME NEW m \in Merges, GetKey(m) \/ SetKey(m)
      PROVE  ScanInv'
  <2>1. UNCHANGED <<copy, scan, job>> /\ (Goto(m, "setKey") \/ Goto(m, "done"))
    BY <1>7 DEF GetKey, SetKey
  <2>2. \A n \in Merges : pc'[n] = "set" => pc[n] = "set"
    BY <2>1 DEF Goto, JobInv
  <2> QED BY <1>1, <2>1, <2>2 DEF ScanInv
<1>8. CASE StartScan
  <2>1. scan.id + 1 \in 1..MaxScans
    BY <1>0, <1>8 DEF StartScan
  <2>2. ScanOK(scan') /\ UNCHANGED <<copy, pc, job>>
    BY <1>8, <2>1, NewScanIs DEF StartScan
  <2> QED BY <1>1, <2>2
<1>9. CASE NetworkDone
  <2>1. scan' \in Scans
    BY <1>9 DEF NetworkDone, ScanInv, ScanOK, Scans, Phases
  <2>2. /\ scan'.hosts = scan.hosts /\ scan'.vulns = scan.vulns /\ scan'.statuses = scan.statuses
        /\ scan'.dispatched = scan.dispatched /\ scan'.status = scan.status /\ scan'.network = "completed"
    BY <1>9 DEF NetworkDone, ScanInv, ScanOK, Scans
  <2>3. ScanOK(scan')
    BY <2>1, <2>2 DEF ScanInv, ScanOK
  <2> QED BY <1>1, <1>9, <2>3 DEF NetworkDone
<1>10. CASE WriteKey \/ UNCHANGED mergeVars
  BY <1>1, <1>10 DEF WriteKey, mergeVars, ScanInv
<1> QED BY <1>2, <1>3, <1>5, <1>6, <1>7, <1>8, <1>9, <1>10 DEF MergeNext

LEMMA KeyStep == JobInv /\ ScanInv /\ KeyInv /\ [MergeNext]_mergeVars => KeyInv'
<1> SUFFICES ASSUME JobInv, ScanInv, KeyInv, [MergeNext]_mergeVars PROVE KeyInv'
  OBVIOUS
<1>1. ASSUME UNCHANGED <<key, keyCopy>>, \A n \in Merges : pc'[n] = "setKey" => pc[n] = "setKey"
      PROVE  KeyInv'
  BY <1>1 DEF KeyInv
<1>2. ASSUME NEW m \in Merges, NEW where \in Places \ {"setKey"}, Goto(m, where), UNCHANGED <<key, keyCopy>>
      PROVE  KeyInv'
  BY <1>1, <1>2 DEF Goto, JobInv
<1>3. ASSUME NEW m \in Merges, NEW a \in Agents, NEW r \in Reports, ResultArrives(m, a, r)
      PROVE  KeyInv'
  BY <1>2, <1>3 DEF ResultArrives, Places
<1>4. ASSUME NEW m \in Merges, GetScan(m) \/ SetScan(m) \/ ScanFails(m)
      PROVE  KeyInv'
  BY <1>2, <1>4 DEF GetScan, SetScan, ScanFails, Places
<1>5. ASSUME NEW m \in Merges, GetKey(m)
      PROVE  KeyInv'
  <2>1. job[m].scan \in 1..MaxScans
    BY <1>5 DEF GetKey, JobInv, Jobs
  <2>2. PICK k \in {key[job[m].scan], NoKey} : keyCopy' = [keyCopy EXCEPT ![m] = k]
    BY <1>5 DEF GetKey
  <2>3. k = NoKey \/ KeyOK(k)
    BY <2>1, <2>2 DEF KeyInv
  <2>4. DOMAIN keyCopy' = Merges /\ \A n \in Merges : keyCopy'[n] = IF n = m THEN k ELSE keyCopy[n]
    BY <2>2 DEF KeyInv
  <2>5. \A n \in Merges : n # m => pc'[n] = pc[n]
    BY <1>5 DEF GetKey, Goto, JobInv
  <2>6. UNCHANGED key
    BY <1>5 DEF GetKey
  <2> QED BY <2>3, <2>4, <2>5, <2>6 DEF KeyInv
<1>6. ASSUME NEW m \in Merges, SetKey(m)
      PROVE  KeyInv'
  <2>1. job[m].scan \in 1..MaxScans /\ job[m].agent \in Agents /\ job[m].report \in Reports
    BY <1>6 DEF SetKey, JobInv, Jobs
  <2>2. PICK k : k = IF keyCopy[m] = NoKey THEN NewKey(job[m].agent, job[m].report)
                     ELSE UpdatedKey(keyCopy[m], job[m].agent, job[m].report)
    OBVIOUS
  <2>3. KeyOK(k)
    BY <1>6, <2>1, <2>2, NewKeyIs, UpdatedKeyIs DEF SetKey, KeyInv
  <2>4. key' = [key EXCEPT ![job[m].scan] = k] \/ UNCHANGED key
    BY <1>6, <2>2 DEF SetKey
  <2>5. DOMAIN key' = 1..MaxScans /\ \A s \in 1..MaxScans : key'[s] = NoKey \/ KeyOK(key'[s])
    BY <2>1, <2>3, <2>4 DEF KeyInv
  <2>6. DOMAIN keyCopy' = Merges /\ \A n \in Merges : n # m => keyCopy'[n] = keyCopy[n]
    BY <1>6 DEF SetKey, KeyInv
  <2>7. \A n \in Merges : pc'[n] = IF n = m THEN "done" ELSE pc[n]
    BY <1>6 DEF SetKey, Goto, JobInv
  <2> QED BY <2>5, <2>6, <2>7 DEF KeyInv
<1>7. CASE WriteKey
  <2>1. PICK k : k = [status |-> "running", total |-> Cardinality(Dispatched), completed |-> 0,
                      agents |-> [a \in Dispatched |-> "running"]]
    OBVIOUS
  <2>2. key' = [key EXCEPT ![scan.id] = k] /\ UNCHANGED <<pc, keyCopy>>
    BY <1>7, <2>1 DEF WriteKey
  <2>3. KeyOK(k)
    BY <2>1, StartedKeyIs
  <2>4. DOMAIN key' = 1..MaxScans /\ \A s \in 1..MaxScans : key'[s] = NoKey \/ KeyOK(key'[s])
    BY <2>2, <2>3 DEF KeyInv
  <2> QED BY <2>2, <2>4 DEF KeyInv
<1>8. CASE StartScan \/ NetworkDone \/ UNCHANGED mergeVars
  BY <1>1, <1>8 DEF StartScan, NetworkDone, mergeVars
<1> QED BY <1>3, <1>4, <1>5, <1>6, <1>7, <1>8 DEF MergeNext

\* A merge that writes the scan it read, when nobody has written in between.
LEMMA UndisturbedWrite ==
    ASSUME JobInv, ScanInv, NEW m \in Merges, SetScan(m), ~overlap'
    PROVE  /\ ~overlap /\ scan = copy[m] /\ scan.id = job[m].scan /\ scan'.id = scan.id
           /\ Grows(scan, scan')
           /\ host'[m] = resolveAgentHostIP(job[m].agent, job[m].report, scan.hosts)
           /\ Has(scan', job[m].agent, job[m].report, host'[m])
           /\ UNCHANGED job
           /\ \A n \in Merges : n # m => pc'[n] = pc[n] /\ host'[n] = host[n]
<1>1. /\ ~overlap /\ scan = copy[m] /\ pc[m] = "set" /\ UNCHANGED job
      /\ scan' = Merged(scan, job[m].agent, job[m].report)
      /\ host' = [host EXCEPT ![m] = resolveAgentHostIP(job[m].agent, job[m].report, scan.hosts)]
  BY DEF SetScan
<1>2. job[m].agent \in Agents /\ job[m].report \in Reports /\ ScanOK(scan) /\ scan.id = job[m].scan
  BY <1>1 DEF JobInv, Jobs, ScanInv
<1>3. /\ host'[m] = resolveAgentHostIP(job[m].agent, job[m].report, scan.hosts)
      /\ \A n \in Merges : n # m => host'[n] = host[n]
  BY <1>1 DEF JobInv
<1>4. /\ scan'.id = scan.id /\ Grows(scan, scan')
      /\ Has(scan', job[m].agent, job[m].report, host'[m])
  BY <1>1, <1>2, <1>3, MergedIs
<1>5. \A n \in Merges : n # m => pc'[n] = pc[n]
  BY DEF SetScan, Goto, JobInv
<1> QED BY <1>1, <1>2, <1>3, <1>4, <1>5

LEMMA GrowsNot ==
    ASSUME NEW s, NEW t, t.statuses = s.statuses, t.hosts = s.hosts, t.vulns = s.vulns
    PROVE  Grows(s, t)
BY DEF Grows, Keeps

LEMMA KeptStep == JobInv /\ ScanInv /\ KeptInv /\ [MergeNext]_mergeVars => KeptInv'
<1> SUFFICES ASSUME JobInv, ScanInv, KeptInv, [MergeNext]_mergeVars, ~overlap' PROVE \A n \in Merges : Kept(n)'
  BY DEF KeptInv
<1>0. scan.id \in Nat /\ \A n \in Merges : pc[n] # "idle" => job[n].scan \in Nat /\ job[n].agent \in Agents
  BY MergeAssumption DEF ScanInv, ScanOK, Scans, JobInv, Jobs
<1>1. ASSUME NEW n \in Merges, Kept(n), pc[n] # "idle", job'[n] = job[n], scan'.id = scan.id, Grows(scan, scan'),
             Written(n)' => Written(n) /\ host'[n] = host[n]
      PROVE  Kept(n)'
  <2>1. pc'[n] # "idle" => job'[n].scan <= scan'.id
    BY <1>1 DEF Kept
  <2>2. ASSUME Written(n)', job'[n].scan = scan'.id
        PROVE  Has(scan', job'[n].agent, job'[n].report, host'[n])
    <3>1. Has(scan, job[n].agent, job[n].report, host[n])
      BY <1>1, <2>2 DEF Kept
    <3>2. job[n].agent \in Agents
      BY <1>0, <1>1
    <3>3. Has(scan', job[n].agent, job[n].report, host[n])
      BY <1>1, <3>1, <3>2, GrowsKeeps
    <3> QED BY <1>1, <2>2, <3>3
  <2> QED BY <2>1, <2>2 DEF Kept
<1>2. ASSUME NEW n \in Merges, pc'[n] = "idle"
      PROVE  Kept(n)'
  BY <1>2 DEF Kept, Written
<1>3. ASSUME ~overlap, UNCHANGED <<job, host>>, scan'.id = scan.id, Grows(scan, scan'),
             \A n \in Merges : pc'[n] # "idle" => pc[n] # "idle", \A n \in Merges : Written(n)' => Written(n)
      PROVE  \A n \in Merges : Kept(n)'
  <2> TAKE n \in Merges
  <2>1. Kept(n)
    BY <1>3 DEF KeptInv
  <2> QED BY <1>1, <1>2, <1>3, <2>1
<1>4. Grows(scan, scan)
  BY GrowsNot
<1>5. ASSUME NEW m \in Merges, NEW a \in Agents, NEW r \in Reports, ResultArrives(m, a, r)
      PROVE  \A n \in Merges : Kept(n)'
  <2>1. PICK s \in 1..scan.id : job' = [job EXCEPT ![m] = [scan |-> s, agent |-> a, report |-> r]]
    BY <1>5 DEF ResultArrives
  <2>2. job'[m].scan <= scan.id /\ \A n \in Merges : n # m => job'[n] = job[n]
    BY <1>0, <2>1 DEF JobInv
  <2>3. \A n \in Merges : pc'[n] = IF n = m THEN "get" ELSE pc[n]
    BY <1>5 DEF ResultArrives, Goto, JobInv
  <2>4. UNCHANGED <<scan, host, overlap>>
    BY <1>5 DEF ResultArrives
  <2> TAKE n \in Merges
  <2>5. CASE n = m
    BY <2>2, <2>3, <2>4, <2>5 DEF Kept, Written
  <2>6. CASE n # m
    <3>1. Kept(n) /\ pc'[n] = pc[n]
      BY <2>3, <2>4, <2>6 DEF KeptInv
    <3>2. Written(n)' => Written(n)
      BY <3>1 DEF Written
    <3> QED BY <1>1, <1>2, <1>4, <2>2, <2>4, <2>6, <3>1, <3>2
  <2> QED BY <2>5, <2>6
<1>6. ASSUME NEW m \in Merges, GetScan(m) \/ ScanFails(m) \/ GetKey(m) \/ SetKey(m)
      PROVE  \A n \in Merges : Kept(n)'
  <2>1. UNCHANGED <<job, host, scan, overlap>> /\ pc[m] # "idle"
    BY <1>6 DEF GetScan, ScanFails, GetKey, SetKey
  <2>2. \A n \in Merges : n # m => pc'[n] = pc[n]
    BY <1>6 DEF GetScan, ScanFails, GetKey, SetKey, Goto, JobInv
  <2>3. Written(m)' => Written(m)
    BY <1>6 DEF GetScan, ScanFails, GetKey, SetKey, Goto, JobInv, Written
  <2>4. \A n \in Merges : Written(n)' => Written(n)
    BY <2>2, <2>3 DEF Written
  <2>5. \A n \in Merges : pc'[n] # "idle" => pc[n] # "idle"
    BY <2>1, <2>2
  <2> QED BY <1>3, <1>4, <2>1, <2>4, <2>5
<1>7. ASSUME NEW m \in Merges, SetScan(m)
      PROVE  \A n \in Merges : Kept(n)'
  <2> TAKE n \in Merges
  <2>1. /\ ~overlap /\ scan.id = job[m].scan /\ scan'.id = scan.id /\ Grows(scan, scan') /\ UNCHANGED job
        /\ Has(scan', job[m].agent, job[m].report, host'[m])
        /\ n # m => pc'[n] = pc[n] /\ host'[n] = host[n]
    BY <1>7, UndisturbedWrite
  <2>2. CASE n = m
    <3>1. job'[n].scan <= scan'.id
      BY <1>0, <2>1, <2>2
    <3> QED BY <2>1, <2>2, <3>1 DEF Kept
  <2>3. CASE n # m
    <3>1. Kept(n) /\ (Written(n)' => Written(n))
      BY <2>1, <2>3 DEF KeptInv, Written
    <3> QED BY <1>1, <1>2, <2>1, <2>3, <3>1
  <2> QED BY <2>2, <2>3
<1>8. CASE StartScan
  <2>1. scan'.id = scan.id + 1 /\ UNCHANGED <<pc, job, host, overlap>>
    BY <1>8 DEF StartScan, NewScan
  <2> TAKE n \in Merges
  <2>2. pc[n] # "idle" => job[n].scan <= scan.id
    BY <2>1 DEF KeptInv, Kept
  <2>3. pc[n] # "idle" => job[n].scan <= scan.id + 1 /\ job[n].scan # scan.id + 1
    BY <1>0, <2>2
  <2> QED BY <2>1, <2>3 DEF Kept, Written
<1>9. CASE NetworkDone
  <2>1. scan'.id = scan.id /\ scan'.statuses = scan.statuses /\ scan'.hosts = scan.hosts /\ scan'.vulns = scan.vulns
    BY <1>9 DEF NetworkDone, ScanInv, ScanOK, Scans
  <2>2. Grows(scan, scan')
    BY <2>1, GrowsNot
  <2> QED BY <1>3, <1>9, <2>1, <2>2 DEF NetworkDone, Written
<1>10. CASE WriteKey \/ UNCHANGED mergeVars
  <2>1. UNCHANGED <<scan, pc, job, host, overlap>>
    BY <1>10 DEF WriteKey, mergeVars
  <2> QED BY <1>3, <1>4, <2>1 DEF Written
<1> QED BY <1>5, <1>6, <1>7, <1>8, <1>9, <1>10 DEF MergeNext

LEMMA ApartStep == JobInv /\ ScanInv /\ KeptInv /\ AnonymousApart /\ [MergeNext]_mergeVars => AnonymousApart'
<1> DEFINE Apart(m, n) ==
             /\ Written(m) /\ Written(n) /\ Anonymous(m) /\ Anonymous(n)
             /\ job[m].scan = job[n].scan /\ job[m].agent # job[n].agent
             /\ host[m] # NoIP
             => host[m] # host[n]
<1> SUFFICES ASSUME JobInv, ScanInv, KeptInv, AnonymousApart, [MergeNext]_mergeVars, ~overlap'
             PROVE  \A m, n \in Merges : Apart(m, n)'
  BY DEF AnonymousApart
<1>1. ASSUME ~overlap,
             \A n \in Merges : Written(n)' => Written(n) /\ job'[n] = job[n] /\ host'[n] = host[n]
      PROVE  \A m, n \in Merges : Apart(m, n)'
  BY <1>1 DEF AnonymousApart, Anonymous
<1>2. ASSUME NEW m \in Merges, NEW a \in Agents, NEW r \in Reports, ResultArrives(m, a, r)
      PROVE  \A k, n \in Merges : Apart(k, n)'
  <2>1. \A n \in Merges : Written(n)' => Written(n) /\ job'[n] = job[n]
    BY <1>2 DEF ResultArrives, Goto, JobInv, Written
  <2> QED BY <1>1, <1>2, <2>1 DEF ResultArrives
<1>3. ASSUME NEW m \in Merges, GetScan(m) \/ ScanFails(m) \/ GetKey(m) \/ SetKey(m)
      PROVE  \A k, n \in Merges : Apart(k, n)'
  <2>1. UNCHANGED <<job, host, overlap>>
    BY <1>3 DEF GetScan, ScanFails, GetKey, SetKey
  <2>2. \A n \in Merges : Written(n)' => Written(n)
    BY <1>3 DEF GetScan, ScanFails, GetKey, SetKey, Goto, JobInv, Written
  <2> QED BY <1>1, <2>1, <2>2
<1>4. ASSUME NEW m \in Merges, SetScan(m)
      PROVE  \A k, n \in Merges : Apart(k, n)'
  <2>1. /\ ~overlap /\ scan.id = job[m].scan /\ UNCHANGED job
        /\ host'[m] = resolveAgentHostIP(job[m].agent, job[m].report, scan.hosts)
        /\ \A n \in Merges : n # m => pc'[n] = pc[n] /\ host'[n] = host[n]
    BY <1>4, UndisturbedWrite
  <2>2. job[m].agent \in Agents /\ scan.hosts \in Seq(HostRows)
    BY <1>4 DEF SetScan, JobInv, Jobs, ScanInv, ScanOK, Scans
  <2>3. ASSUME Anonymous(m)
        PROVE  host'[m] = NoIP \/ host'[m] \notin buildAgentClaimedIPs(scan.hosts)
    <3>1. Nameless(job[m].agent, job[m].report)
      BY <2>3 DEF Nameless, Anonymous
    <3> QED BY <2>1, <2>2, <3>1, NamelessIs
  <2>4. ASSUME NEW n \in Merges, n # m, Written(n), job[n].scan = scan.id, host[n] # NoIP
        PROVE  host[n] \in buildAgentClaimedIPs(scan.hosts)
    <3>1. Has(scan, job[n].agent, job[n].report, host[n])
      BY <2>1, <2>4 DEF KeptInv, Kept
    <3> QED BY <2>4, <3>1 DEF Has, Marked, buildAgentClaimedIPs
  <2>5. \A n \in Merges : n # m => (Written(n)' => Written(n)) /\ host'[n] = host[n]
    BY <2>1 DEF Written
  <2>6. \A n \in Merges : Anonymous(n)' => Anonymous(n)
    BY <2>1 DEF Anonymous
  <2>7. ASSUME NEW n \in Merges, n # m, Written(n)', Anonymous(m)', job[n].scan = job[m].scan, host'[n] # NoIP
        PROVE  host'[n] # host'[m]
    BY <2>1, <2>3, <2>4, <2>5, <2>6, <2>7
  <2> TAKE k, n \in Merges
  <2>8. CASE k = m /\ n = m
    BY <2>8
  <2>9. CASE k = m /\ n # m
    BY <2>1, <2>7, <2>9
  <2>10. CASE k # m /\ n = m
    BY <2>1, <2>7, <2>10
  <2>11. CASE k # m /\ n # m
    <3>1. Apart(k, n)
      BY <2>1 DEF AnonymousApart
    <3> QED BY <2>1, <2>5, <2>6, <2>11, <3>1
  <2> QED BY <2>8, <2>9, <2>10, <2>11
<1>5. CASE StartScan \/ WriteKey \/ NetworkDone \/ UNCHANGED mergeVars
  <2>1. UNCHANGED <<pc, job, host, overlap>>
    BY <1>5 DEF StartScan, WriteKey, NetworkDone, mergeVars
  <2> QED BY <1>1, <2>1 DEF Written
<1> QED BY <1>2, <1>3, <1>4, <1>5 DEF MergeNext

LEMMA MergeInductive == MergeSpec => []MergeInv
<1>1. MergeInv /\ [MergeNext]_mergeVars => MergeInv'
  BY JobStep, ScanStep, KeyStep, KeptStep, ApartStep DEF MergeInv
<1> QED BY <1>1, MergeInvInit, PTL DEF MergeSpec

-----------------------------------------------------------------------------
\* Every variable stays in its domain, also after a stale copy was written
\* back (mergeAgentScanResults).
THEOREM ScanTypeCorrect == MergeSpec => []MergeTypeOK
<1>1. MergeInv => MergeTypeOK
  BY DEF MergeInv, JobInv, Places, ScanInv, ScanOK, Scans, Phases, MergeTypeOK
<1> QED BY <1>1, MergeInductive, PTL

\* However many merges overlap, a scan has one row for each host and lists no
\* vulnerability twice (mergeAgentScanResults,
\* appendAgentVulnerabilitiesDeduped).
THEOREM NothingShowsTwice == MergeSpec => []NothingTwice
<1>1. ASSUME ScanOK(scan)
      PROVE  NothingTwice
  <2>1. \A i \in DOMAIN scan.hosts : scan.hosts[i].ip \in IPs
    BY <1>1, RowsOf DEF ScanOK, Scans
  <2> QED BY <1>1, <2>1 DEF ScanOK, OneRow, NoneTwice, NothingTwice, OneRowPerHost, NoVulnTwice, isConcreteHostIP
<1>2. MergeInv => NothingTwice
  BY <1>1 DEF MergeInv, ScanInv
<1> QED BY <1>2, MergeInductive, PTL

\* A scan or a key that says it is completed is finished, and a key counts the
\* agents that are (mergeAgentScanResults, updateAgentScanStatus).
THEOREM CompletedMeansFinished == MergeSpec => []CompleteIsFinished
<1>1. ASSUME ScanOK(scan), KeyInv
      PROVE  CompleteIsFinished
  <2>1. \A s \in DOMAIN key : key[s] = NoKey \/ KeyOK(key[s])
    BY <1>1 DEF KeyInv
  <2>2. NoKey.status # "completed"
    BY DEF NoKey
  <2>3. ASSUME NEW k, KeyOK(k)
        PROVE  /\ k.status = "completed" => \A a \in DOMAIN k.agents : k.agents[a] \in Done
               /\ k.completed = Cardinality({a \in DOMAIN k.agents : k.agents[a] \in Done})
               /\ k.completed <= k.total
    <3>1. DoneOf(k.agents) = {a \in DOMAIN k.agents : k.agents[a] \in Done}
      BY DEF DoneOf
    <3>2. Cardinality(DoneOf(k.agents)) <= Cardinality(DOMAIN k.agents)
      BY <2>3, <3>1, KeyParts, FS_Subset
    <3> QED BY <2>3, <3>1, <3>2 DEF KeyOK
  <2> QED BY <1>1, <2>1, <2>2, <2>3 DEF ScanOK, CompleteIsFinished
<1>2. MergeInv => CompleteIsFinished
  BY <1>1 DEF MergeInv, ScanInv
<1> QED BY <1>2, MergeInductive, PTL

\* As long as nobody has written over what he had not read, every result that
\* was merged is in the scan (mergeAgentScanResults).
THEOREM MergedIsKept == MergeSpec => []NothingLostWithoutOverlap
<1>1. ASSUME KeptInv
      PROVE  NothingLostWithoutOverlap
  BY <1>1 DEF KeptInv, Kept, Has, Marked, Lists, NothingLostWithoutOverlap
<1>2. MergeInv => NothingLostWithoutOverlap
  BY <1>1 DEF MergeInv
<1> QED BY <1>2, MergeInductive, PTL

\* Two agents that say nothing of where they run are not given one host, whatever
\* the targets and the names are (resolveAgentHostIP, buildAgentClaimedIPs).
THEOREM AnonymousStayApart == MergeSpec => []AnonymousApart
<1>1. MergeInv => AnonymousApart
  BY DEF MergeInv
<1> QED BY <1>1, MergeInductive, PTL
=============================================================================
