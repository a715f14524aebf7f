------------------------- MODULE TemplateScanProofs -------------------------
(***************************************************************************)
(* Proofs about the scan of an agent.  Of the worker pool, for any         *)
(* templates, number of workers and results: a job that was taken is in    *)
(* exactly one place, with the worker that runs it, in one message, or in  *)
(* its slot.  Of the executor, for any library and machine: what it        *)
(* returns follows from the steps that apply and from what they found.     *)
(***************************************************************************)
EXTENDS TemplateScan, FiniteSetTheorems, WellFoundedInduction, TLAPS

Has(w) == wpc[w] \in Busy
Posted == results \cup errors

\* What a worker is about to send came of executing the template it took.
OutputInv ==
    /\ output = [w \in Workers |-> output[w]]
    /\ \A w \in Workers : wpc[w] = "report" =>
         /\ output[w] \in Produced[Templates[cur[w]]]
         /\ output[w] # NoResult /\ output[w].template = Templates[cur[w]]

\* What is under way is of the template its message names.
OrderInv ==
    /\ \A m \in results : m.kind = "result" =>
         m.result # NoResult /\ m.result.template = Templates[m.of]
    /\ \A m \in errors : m.kind # "result"
    /\ ResultsInOrder

\* A job is in one place at most, and only once it was taken.
OneInv ==
    /\ OneAnswerEach
    /\ \A m \in Posted : m.of <= taken
    /\ \A i \in 1..N : slots[i] # NoResult => i <= taken
    /\ \A w \in Workers : Has(w) =>
         slots[cur[w]] = NoResult /\ \A m \in Posted : m.of # cur[w]
    /\ \A v, w \in Workers : Has(v) /\ Has(w) /\ cur[v] = cur[w] => v = w

\* Where the caller, the workers and the closing goroutine may be together.
PhaseInv ==
    /\ pc # "send" => sent = N
    /\ \A w \in Workers : wpc[w] = "exited" => taken = N
    /\ ClosedAfterLast
    /\ pc = "done" => closed /\ results = {}

\* A job that was taken is somewhere, and so is every panic.
SomewhereInv ==
    /\ \A i \in 1..taken :
         \/ slots[i] # NoResult
         \/ \E m \in Posted : m.of = i
         \/ \E w \in Workers : Has(w) /\ cur[w] = i
    /\ \A w \in Workers : wpc[w] = "panicked" =>
         \E m \in Posted : m.kind = "panic" /\ m.of = cur[w]

\* So did what is under way and what was collected.
ProducedInv ==
    /\ \A m \in results : m.kind = "result" => m.result \in Produced[Templates[m.of]]
    /\ \A i \in 1..N : slots[i] # NoResult => slots[i] \in Produced[Templates[i]]

PoolInv == TypeOK /\ OutputInv /\ OrderInv /\ OneInv /\ PhaseInv /\ SomewhereInv
           /\ ProducedInv

LEMMA Sizes == N \in Nat \ {0} /\ Workers \subseteq Nat /\ \A i \in 1..N : Templates[i] \in DOMAIN Produced
  BY PoolAssumption DEF N, Workers

LEMMA MessageFields ==
    ASSUME NEW k, NEW i, NEW o, NEW r
    PROVE  LET m == Message(k, i, o, r)
           IN m.kind = k /\ m.index = i /\ m.of = o /\ m.result = r
  BY DEF Message

LEMMA HasJob ==
    ASSUME TypeOK, NEW w \in Workers, Has(w)
    PROVE  cur[w] \in 1..N /\ cur[w] \in 1..taken
  BY Sizes DEF TypeOK, CallerTypeOK, WorkerTypeOK, Has

LEMMA InitInv == Init => PoolInv
  <1> SUFFICES ASSUME Init PROVE PoolInv
    OBVIOUS
  <1> USE Sizes
  <1>1. TypeOK
    <2>1. CallerTypeOK
      <3>1. closed \in BOOLEAN /\ cancelled \in BOOLEAN
        BY Zenon DEF Init
      <3>2. sent \in 0..N /\ taken \in 0..sent
        BY DEF Init
      <3> QED BY <3>1, <3>2 DEF Init, CallerTypeOK
    <2>2. WorkerTypeOK
      BY DEF Init, WorkerTypeOK, Busy
    <2>3. AnswerTypeOK
      BY DEF Init, AnswerTypeOK
    <2> QED BY <2>1, <2>2, <2>3 DEF TypeOK
  <1>2. OutputInv /\ OrderInv /\ OneInv /\ PhaseInv /\ SomewhereInv /\ ProducedInv
    BY DEF Init, ProducedInv, OutputInv, OrderInv, ResultsInOrder, OneInv, OneAnswerEach, Posted, Has,
           Busy, PhaseInv, ClosedAfterLast, SomewhereInv
  <1> QED BY <1>1, <1>2 DEF PoolInv

-----------------------------------------------------------------------------
(* The channel has room.                                                    *)

LEMMA RoomInv == TypeOK /\ OneInv => NeverFull
  <1> SUFFICES ASSUME TypeOK, OneInv, NEW w \in Workers, Has(w)
               PROVE  Cardinality(results) < N
    BY DEF NeverFull, Room, Has
  <1> DEFINE others == (1..N) \ {cur[w]}
             f == [m \in results |-> m.of]
  <1>1. cur[w] \in 1..N
    BY HasJob
  <1>2. \A m \in results : m.of \in others
    BY DEF TypeOK, AnswerTypeOK, IsMessage, OneInv, Posted
  <1>3. f \in Injection(results, others)
    BY <1>2 DEF OneInv, OneAnswerEach, Injection, IsInjective
  <1>4. IsFiniteSet(others) /\ Cardinality(others) = N - 1
    <2>1. IsFiniteSet(1..N) /\ Cardinality(1..N) = N
      BY Sizes, FS_Interval
    <2> QED BY <1>1, <2>1, FS_RemoveElement
  <1>5. Cardinality(results) <= Cardinality(others) /\ IsFiniteSet(results)
    <2> HIDE DEF f, others
    <2> QED BY <1>3, <1>4, FS_Injection
  <1> QED BY <1>4, <1>5, Sizes, FS_CardinalityType

-----------------------------------------------------------------------------
(* The steps keep the domains.                                              *)

LEMMA CallerType == TypeOK /\ [Next]_vars => CallerTypeOK'
  <1> SUFFICES ASSUME TypeOK, [Next]_vars PROVE CallerTypeOK'
    OBVIOUS
  <1> USE Sizes
  <1>1. pc' \in {"send", "collect", "done"} /\ sent' \in 0..N /\ taken' \in 0..sent'
    BY DEF TypeOK, CallerTypeOK, Next, Caller, Worker, vars, callerVars, SendJob, CloseJobs,
           Collect, Finish, CloseResults, Cancel, TakeJob, StartTemplate, RefuseTemplate,
           Execute, Report, WorkerPanics, Exit
  <1>2. closed' \in BOOLEAN /\ cancelled' \in BOOLEAN
    BY Zenon DEF TypeOK, CallerTypeOK, Next, Caller, Worker, vars, callerVars, SendJob, CloseJobs,
           Collect, Finish, CloseResults, Cancel, TakeJob, StartTemplate, RefuseTemplate,
           Execute, Report, WorkerPanics, Exit
  <1> QED BY <1>1, <1>2 DEF CallerTypeOK

LEMMA WorkerType == TypeOK /\ [Next]_vars => WorkerTypeOK'
  <1> SUFFICES ASSUME TypeOK, [Next]_vars PROVE WorkerTypeOK'
    OBVIOUS
  <1> USE Sizes DEF TypeOK, CallerTypeOK, WorkerTypeOK, Busy, Left, Goto, callerVars
  <1>1. ASSUME NEW w \in Workers, TakeJob(w) PROVE WorkerTypeOK'
    BY <1>1 DEF TakeJob
  <1>2. ASSUME NEW w \in Workers, StartTemplate(w) \/ RefuseTemplate(w) \/ Execute(w) \/
               Report(w) \/ WorkerPanics(w) \/ Exit(w)
        PROVE  WorkerTypeOK'
    BY <1>2 DEF StartTemplate, RefuseTemplate, AfterRefusal, Execute, Report, WorkerPanics, Exit
  <1>3. CASE Caller \/ CloseResults \/ Cancel \/ UNCHANGED vars
    BY <1>3 DEF vars, Caller, SendJob, CloseJobs, Collect, Finish, CloseResults, Cancel
  <1> QED BY <1>1, <1>2, <1>3 DEF Next, Worker

LEMMA AnswerType == TypeOK /\ OutputInv /\ [Next]_vars => AnswerTypeOK'
  <1> SUFFICES ASSUME TypeOK, OutputInv, [Next]_vars PROVE AnswerTypeOK'
    OBVIOUS
  <1> USE Sizes
  <1>0. ASSUME results' = results, errors' = errors, slots' = slots PROVE AnswerTypeOK'
    BY <1>0 DEF TypeOK, AnswerTypeOK
  <1>1. ASSUME NEW m, IsMessage(m), results' = results \cup {m}, errors' = errors, slots' = slots
        PROVE  AnswerTypeOK'
    BY <1>1 DEF TypeOK, AnswerTypeOK
  <1>2. CASE Collect
    <2>1. PICK m \in results : 
            /\ results' = results \ {m}
            /\ IF m.kind = "result"
                 THEN slots' = [slots EXCEPT ![m.index] = m.result] /\ errors' = errors
                 ELSE errors' = errors \cup {m} /\ slots' = slots
      BY <1>2 DEF Collect, SlotOf
    <2>2. IsMessage(m)
      BY DEF TypeOK, AnswerTypeOK
    <2>3. \A n \in results' \cup errors' : IsMessage(n)
      BY <2>1, <2>2 DEF TypeOK, AnswerTypeOK
    <2>4. slots' = [i \in 1..N |-> slots'[i]] /\ \A i \in 1..N : slots'[i] = NoResult \/ IsOutput(slots'[i])
      BY <2>1, <2>2 DEF TypeOK, AnswerTypeOK, IsMessage
    <2> QED BY <2>3, <2>4 DEF AnswerTypeOK, IsMessage, IsOutput
  <1>3. ASSUME NEW w \in Workers, RefuseTemplate(w) PROVE AnswerTypeOK'
    <2>1. cur[w] \in 1..N
      BY <1>3, HasJob DEF RefuseTemplate, Has, Busy
    <2>2. IsMessage(Message("cancelled", cur[w], cur[w], NoResult))
      BY <2>1, MessageFields DEF IsMessage
    <2> QED BY <1>1, <1>3, <2>2 DEF RefuseTemplate, SayCancelled, callerVars
  <1>4. ASSUME NEW w \in Workers, Report(w) PROVE AnswerTypeOK'
    <2>1. cur[w] \in 1..N
      BY <1>4, HasJob DEF Report, Has, Busy
    <2>2. IsMessage(Message("result", cur[w], cur[w], output[w]))
      BY <2>1, <1>4, MessageFields DEF IsMessage, IsOutput, Report, OutputInv
    <2> QED BY <1>1, <1>4, <2>2 DEF Report, callerVars
  <1>5. ASSUME NEW w \in Workers, WorkerPanics(w) PROVE AnswerTypeOK'
    <2>1. cur[w] \in 1..N
      BY <1>5, HasJob DEF WorkerPanics, Has, Busy
    <2>2. IsMessage(Message("panic", 0, cur[w], NoResult))
      BY <2>1, MessageFields DEF IsMessage
    <2> QED BY <1>0, <1>1, <1>5, <2>2 DEF WorkerPanics, Recover, callerVars
  <1>6. ASSUME NEW w \in Workers, TakeJob(w) \/ StartTemplate(w) \/ Execute(w) \/ Exit(w)
        PROVE  AnswerTypeOK'
    BY <1>0, <1>6 DEF TakeJob, StartTemplate, Execute, Exit, callerVars
  <1>7. CASE SendJob \/ CloseJobs \/ Finish \/ CloseResults \/ Cancel \/ UNCHANGED vars
    BY <1>0, <1>7 DEF SendJob, CloseJobs, Finish, CloseResults, Cancel, callerVars, vars
  <1> QED BY <1>2, <1>3, <1>4, <1>5, <1>6, <1>7 DEF Next, Caller, Worker

-----------------------------------------------------------------------------
(* The steps keep what is under way in its place.                           *)

\* The actions that move no job and send nothing.
Quiet ==
    \/ SendJob \/ CloseJobs \/ Finish \/ CloseResults \/ Cancel \/ UNCHANGED vars
    \/ \E w \in Workers : StartTemplate(w) \/ Execute(w) \/ Exit(w)

LEMMA QuietStep ==
    ASSUME TypeOK, Quiet
    PROVE  /\ results' = results /\ errors' = errors /\ slots' = slots
           /\ taken' = taken /\ cur' = cur
           /\ \A w \in Workers : Has(w)' <=> Has(w)
           /\ \A w \in Workers : wpc'[w] = "panicked" <=> wpc[w] = "panicked"
  BY DEF TypeOK, WorkerTypeOK, Quiet, SendJob, CloseJobs, Finish, CloseResults, Cancel, vars,
         callerVars, StartTemplate, Execute, Exit, Goto, Has, Busy, Left

LEMMA Cases ==
    [Next]_vars <=>
        \/ Quiet \/ Collect
        \/ \E w \in Workers : TakeJob(w) \/ RefuseTemplate(w) \/ Report(w) \/ WorkerPanics(w)
  BY DEF Next, Caller, Worker, Quiet

Posts(w, m) ==
    /\ m.of = cur[w]
    /\ results' = results \cup {m}
    /\ m.kind = "result" => Report(w) /\ m.result = output[w]
    /\ wpc'[w] = "panicked" => m.kind = "panic"

\* What a worker that ends its job sends, and that it has none any more.
LEMMA PostStep ==
    ASSUME TypeOK, OneInv, NEW w \in Workers,
           RefuseTemplate(w) \/ Report(w) \/ WorkerPanics(w)
    PROVE  /\ Has(w)
           /\ \E m : Posts(w, m)
           /\ errors' = errors /\ slots' = slots /\ taken' = taken /\ cur' = cur
           /\ wpc' = [v \in Workers |-> IF v = w THEN wpc'[w] ELSE wpc[v]]
           /\ wpc'[w] \in {"ready", "panicked"}
  <1>1. CASE RefuseTemplate(w)
    <2> DEFINE m == Message("cancelled", cur[w], cur[w], NoResult)
    <2>1. m.of = cur[w] /\ m.kind = "cancelled"
      BY MessageFields
    <2> HIDE DEF m
    <2>2. results' = results \cup {m}
      BY <1>1 DEF RefuseTemplate, SayCancelled, m
    <2>3. Posts(w, m)
      BY <1>1, <2>1, <2>2 DEF Posts, RefuseTemplate, AfterRefusal, Goto, TypeOK, WorkerTypeOK
    <2> QED BY <1>1, <2>3 DEF RefuseTemplate, AfterRefusal, Goto, Has, Busy, callerVars,
               TypeOK, WorkerTypeOK
  <1>2. CASE Report(w)
    <2> DEFINE m == Message("result", cur[w], cur[w], output[w])
    <2>1. m.of = cur[w] /\ m.kind = "result" /\ m.result = output[w]
      BY MessageFields
    <2> HIDE DEF m
    <2>2. results' = results \cup {m}
      BY <1>2 DEF Report, m
    <2>3. Posts(w, m)
      BY <1>2, <2>1, <2>2 DEF Posts, Report, Goto, TypeOK, WorkerTypeOK
    <2> QED BY <1>2, <2>3 DEF Report, Goto, Has, Busy, callerVars, TypeOK, WorkerTypeOK
  <1>3. CASE WorkerPanics(w)
    <2> DEFINE m == Message("panic", 0, cur[w], NoResult)
    <2>1. m.of = cur[w] /\ m.kind = "panic"
      BY MessageFields
    <2> HIDE DEF m
    <2>2. Has(w) /\ Room
      BY <1>3, RoomInv DEF WorkerPanics, Has, Busy, NeverFull
    <2>3. results' = results \cup {m}
      BY <1>3, <2>2 DEF WorkerPanics, Recover, m
    <2>4. Posts(w, m)
      BY <2>1, <2>3 DEF Posts
    <2> QED BY <1>3, <2>2, <2>4 DEF WorkerPanics, Goto, callerVars, TypeOK, WorkerTypeOK
  <1> QED BY <1>1, <1>2, <1>3

LEMMA CollectStep ==
    ASSUME TypeOK, Collect
    PROVE  \E m \in results :
             /\ results' = results \ {m}
             /\ \/ /\ m.kind = "result" /\ errors' = errors
                   /\ slots' = [i \in 1..N |-> IF i = m.of THEN m.result ELSE slots[i]]
                \/ m.kind # "result" /\ errors' = errors \cup {m} /\ slots' = slots
             /\ m.of \in 1..N
             /\ taken' = taken /\ cur' = cur /\ wpc' = wpc /\ output' = output
  BY DEF Collect, SlotOf, TypeOK, AnswerTypeOK, IsMessage

LEMMA TakeStep ==
    ASSUME TypeOK, NEW w \in Workers, TakeJob(w)
    PROVE  /\ results' = results /\ errors' = errors /\ slots' = slots /\ output' = output
           /\ ~Has(w) /\ wpc[w] = "ready"
           /\ taken' = taken + 1 /\ taken \in 0..N-1
           /\ wpc' = [v \in Workers |-> IF v = w THEN "check" ELSE wpc[v]]
           /\ cur' = [v \in Workers |-> IF v = w THEN taken + 1 ELSE cur[v]]
  <1>1. results' = results /\ errors' = errors /\ slots' = slots /\ output' = output
    BY DEF TakeJob, callerVars
  <1>2. ~Has(w) /\ wpc[w] = "ready"
    BY DEF TakeJob, Has, Busy
  <1>3. taken' = taken + 1 /\ taken \in 0..N-1
    BY Sizes DEF TakeJob, TypeOK, CallerTypeOK
  <1>4. wpc' = [v \in Workers |-> IF v = w THEN "check" ELSE wpc[v]]
    BY DEF TakeJob, Goto, TypeOK, WorkerTypeOK
  <1>5. cur' = [v \in Workers |-> IF v = w THEN taken + 1 ELSE cur[v]]
    BY DEF TakeJob, TypeOK, WorkerTypeOK
  <1> QED BY <1>1, <1>2, <1>3, <1>4, <1>5

LEMMA OutputStep == TypeOK /\ OutputInv /\ [Next]_vars => OutputInv'
  <1> SUFFICES ASSUME TypeOK, OutputInv, [Next]_vars PROVE OutputInv'
    OBVIOUS
  <1> USE DEF OutputInv
  <1>1. ASSUME NEW w \in Workers, Execute(w) PROVE OutputInv'
    <2>1. PICK r \in Produced[Templates[cur[w]]] : output' = [output EXCEPT ![w] = r]
      BY <1>1 DEF Execute
    <2>2. cur[w] \in 1..N
      BY <1>1, HasJob DEF Execute, Has, Busy
    <2>3. r # NoResult /\ r.template = Templates[cur[w]]
      BY <2>2, Sizes, PoolAssumption
    <2>4. cur' = cur /\ wpc' = [wpc EXCEPT ![w] = "report"] /\ wpc \in [Workers -> {"ready"} \cup Busy \cup Left]
      BY <1>1 DEF Execute, Goto, TypeOK, WorkerTypeOK
    <2> QED BY <2>1, <2>3, <2>4
  <1>2. ASSUME NEW w \in Workers, Report(w) PROVE OutputInv'
    BY <1>2 DEF Report, Goto, TypeOK, WorkerTypeOK
  <1>3. ASSUME NEW w \in Workers, TakeJob(w) PROVE OutputInv'
    BY <1>3, TakeStep
  <1>4. ASSUME NEW w \in Workers,
               StartTemplate(w) \/ RefuseTemplate(w) \/ WorkerPanics(w) \/ Exit(w)
        PROVE  OutputInv'
    BY <1>4 DEF StartTemplate, RefuseTemplate, AfterRefusal, WorkerPanics, Exit, Goto, TypeOK, WorkerTypeOK
  <1>5. CASE Caller \/ CloseResults \/ Cancel \/ UNCHANGED vars
    BY <1>5 DEF Caller, SendJob, CloseJobs, Collect, Finish, CloseResults, Cancel, vars, callerVars
  <1> QED BY <1>1, <1>2, <1>3, <1>4, <1>5 DEF Next, Worker

LEMMA OrderStep == TypeOK /\ OutputInv /\ OrderInv /\ OneInv /\ [Next]_vars => OrderInv'
  <1> SUFFICES ASSUME TypeOK, OutputInv, OrderInv, OneInv, [Next]_vars PROVE OrderInv'
    OBVIOUS
  <1> USE DEF OrderInv, ResultsInOrder
  <1>1. CASE Quiet
    BY <1>1, QuietStep
  <1>2. CASE Collect
    BY <1>2, CollectStep
  <1>3. ASSUME NEW w \in Workers, TakeJob(w) PROVE OrderInv'
    BY <1>3, TakeStep
  <1>4. ASSUME NEW w \in Workers, RefuseTemplate(w) \/ Report(w) \/ WorkerPanics(w)
        PROVE  OrderInv'
    <2>1. Report(w) => output[w] # NoResult /\ output[w].template = Templates[cur[w]]
      BY DEF Report, OutputInv
    <2>2. PICK m : Posts(w, m)
      BY <1>4, PostStep
    <2>3. errors' = errors /\ slots' = slots
      BY <1>4, PostStep
    <2> QED BY <2>1, <2>2, <2>3 DEF Posts
  <1> QED BY <1>1, <1>2, <1>3, <1>4, Cases

LEMMA OneStep == TypeOK /\ OrderInv /\ OneInv /\ [Next]_vars => OneInv'
  <1> SUFFICES ASSUME TypeOK, OrderInv, OneInv, [Next]_vars PROVE OneInv'
    OBVIOUS
  <1> USE DEF OneInv, OneAnswerEach, Posted
  <1>1. CASE Quiet
    BY <1>1, QuietStep
  <1>2. CASE Collect
    <2>1. \A w \in Workers : Has(w)' <=> Has(w)
      BY <1>2, CollectStep DEF Has
    <2>2. \A w \in Workers : Has(w) => cur[w] \in 1..N
      BY HasJob
    <2>3. PICK m \in results :
             /\ results' = results \ {m}
             /\ \/ /\ m.kind = "result" /\ errors' = errors
                   /\ slots' = [i \in 1..N |-> IF i = m.of THEN m.result ELSE slots[i]]
                \/ m.kind # "result" /\ errors' = errors \cup {m} /\ slots' = slots
             /\ m.of \in 1..N
             /\ taken' = taken /\ cur' = cur
      BY <1>2, CollectStep
    <2>4. CASE m.kind = "result"
      <3>1. \A n \in results' \cup errors' : n \in Posted /\ n # m /\ n.of # m.of /\ n.of \in 1..N
        BY <2>3, <2>4 DEF OrderInv, TypeOK, AnswerTypeOK, IsMessage
      <3>2. \A w \in Workers : Has(w) => cur[w] # m.of
        BY <2>3
      <3> QED BY <2>1, <2>2, <2>3, <2>4, <3>1, <3>2
    <2>5. CASE m.kind # "result"
      <3>1. results' \cup errors' = results \cup errors /\ slots' = slots
        BY <2>3, <2>5
      <3> QED BY <2>1, <2>3, <3>1
    <2> QED BY <2>4, <2>5
  <1>3. ASSUME NEW w \in Workers, TakeJob(w) PROVE OneInv'
    <2>1. \A v \in Workers : Has(v)' <=> Has(v) \/ v = w
      BY <1>3, TakeStep DEF Has, Busy
    <2>2. \A v \in Workers : Has(v) => cur[v] \in 1..taken
      BY HasJob
    <2>3. \A m \in results \cup errors : m.of \in 1..N
      BY DEF TypeOK, AnswerTypeOK, IsMessage
    <2> QED BY <1>3, <2>1, <2>2, <2>3, TakeStep, Sizes
  <1>4. ASSUME NEW w \in Workers, RefuseTemplate(w) \/ Report(w) \/ WorkerPanics(w)
        PROVE  OneInv'
    <2>1. \A v \in Workers : Has(v)' <=> Has(v) /\ v # w
      BY <1>4, PostStep DEF Has, Busy
    <2>2. cur[w] \in 1..N /\ cur[w] \in 1..taken
      BY <1>4, PostStep, HasJob
    <2>0. PICK m : Posts(w, m)
      BY <1>4, PostStep
    <2>3. m.of = cur[w] /\ results' = results \cup {m}
      BY <2>0 DEF Posts
    <2>4. /\ Has(w) /\ errors' = errors /\ slots' = slots /\ taken' = taken /\ cur' = cur
      BY <1>4, PostStep
    <2>5. OneAnswerEach'
      BY <2>3, <2>4
    <2>6. \A v \in Workers : Has(v)' =>
             slots'[cur'[v]] = NoResult /\ \A n \in results' \cup errors' : n.of # cur'[v]
      BY <2>1, <2>3, <2>4
    <2> QED BY <2>1, <2>2, <2>3, <2>4, <2>5, <2>6
  <1> QED BY <1>1, <1>2, <1>3, <1>4, Cases

LEMMA PhaseStep == TypeOK /\ PhaseInv /\ [Next]_vars => PhaseInv'
  <1> SUFFICES ASSUME TypeOK, PhaseInv, [Next]_vars PROVE PhaseInv'
    OBVIOUS
  <1> USE Sizes DEF PhaseInv, ClosedAfterLast, Left, callerVars
  <1>1. CASE SendJob \/ CloseJobs \/ Finish \/ Cancel \/ Collect \/ UNCHANGED vars
    BY <1>1 DEF SendJob, CloseJobs, Finish, Cancel, Collect, vars
  <1>2. CASE CloseResults
    BY <1>2 DEF CloseResults, AllLeft
  <1>3. ASSUME NEW w \in Workers, Exit(w) PROVE PhaseInv'
    BY <1>3 DEF Exit, NoMoreJobs, Goto, TypeOK, WorkerTypeOK, CallerTypeOK
  <1>4. ASSUME NEW w \in Workers, TakeJob(w) PROVE PhaseInv'
    BY <1>4 DEF TakeJob, Goto, TypeOK, WorkerTypeOK, CallerTypeOK
  <1>5. ASSUME NEW w \in Workers,
               StartTemplate(w) \/ RefuseTemplate(w) \/ Execute(w) \/ Report(w) \/ WorkerPanics(w)
        PROVE  PhaseInv'
    <2>1. \E where \in {"execute", "ready", "report", "panicked"} : wpc' = [wpc EXCEPT ![w] = where]
      BY <1>5 DEF StartTemplate, RefuseTemplate, AfterRefusal, Execute, Report, WorkerPanics, Goto
    <2>2. wpc[w] \notin Left
      BY <1>5 DEF StartTemplate, RefuseTemplate, Execute, Report, WorkerPanics
    <2>3. pc' = pc /\ sent' = sent /\ taken' = taken /\ closed' = closed
      BY <1>5 DEF StartTemplate, RefuseTemplate, Execute, Report, WorkerPanics
    <2>4. ~closed
      BY <2>2
    <2> QED BY <2>1, <2>3, <2>4 DEF TypeOK, WorkerTypeOK
  <1> QED BY <1>1, <1>2, <1>3, <1>4, <1>5 DEF Next, Caller, Worker

LEMMA SomewhereStep ==
    TypeOK /\ OrderInv /\ OneInv /\ SomewhereInv /\ [Next]_vars => SomewhereInv'
  <1> SUFFICES ASSUME TypeOK, OrderInv, OneInv, SomewhereInv, [Next]_vars PROVE SomewhereInv'
    OBVIOUS
  <1> USE DEF SomewhereInv, Posted
  <1>1. CASE Quiet
    BY <1>1, QuietStep
  <1>2. CASE Collect
    <2>1. \A w \in Workers : Has(w)' <=> Has(w)
      BY <1>2, CollectStep DEF Has
    <2>2. PICK m \in results :
             /\ results' = results \ {m}
             /\ \/ /\ m.kind = "result" /\ errors' = errors
                   /\ slots' = [i \in 1..N |-> IF i = m.of THEN m.result ELSE slots[i]]
                \/ m.kind # "result" /\ errors' = errors \cup {m} /\ slots' = slots
             /\ m.of \in 1..N
             /\ taken' = taken /\ cur' = cur /\ wpc' = wpc
      BY <1>2, CollectStep
    <2>3. m.kind = "result" => m.result # NoResult
      BY DEF OrderInv
    <2>4. 1..taken \subseteq 1..N
      BY Sizes DEF TypeOK, CallerTypeOK
    <2>5. CASE m.kind = "result"
      BY <2>1, <2>2, <2>3, <2>4, <2>5
    <2>6. CASE m.kind # "result"
      <3>1. results' \cup errors' = results \cup errors /\ slots' = slots
        BY <2>2, <2>6
      <3> QED BY <2>1, <2>2, <3>1
    <2> QED BY <2>5, <2>6
  <1>3. ASSUME NEW w \in Workers, TakeJob(w) PROVE SomewhereInv'
    <2>1. \A v \in Workers : Has(v)' <=> Has(v) \/ v = w
      BY <1>3, TakeStep DEF Has, Busy
    <2>2. \A i \in 1..taken' : i \in 1..taken \/ i = taken + 1
      BY <1>3, TakeStep
    <2>3. /\ results' = results /\ errors' = errors /\ slots' = slots
          /\ ~Has(w) /\ wpc[w] = "ready"
          /\ cur' = [v \in Workers |-> IF v = w THEN taken + 1 ELSE cur[v]]
          /\ wpc' = [v \in Workers |-> IF v = w THEN "check" ELSE wpc[v]]
      BY <1>3, TakeStep
    <2> QED BY <2>1, <2>2, <2>3
  <1>4. ASSUME NEW w \in Workers, RefuseTemplate(w) \/ Report(w) \/ WorkerPanics(w)
        PROVE  SomewhereInv'
    <2>1. \A v \in Workers : Has(v)' <=> Has(v) /\ v # w
      BY <1>4, PostStep DEF Has, Busy
    <2>2. PICK m : Posts(w, m)
      BY <1>4, PostStep
    <2>3. /\ errors' = errors /\ slots' = slots /\ taken' = taken /\ cur' = cur
          /\ wpc' = [v \in Workers |-> IF v = w THEN wpc'[w] ELSE wpc[v]]
      BY <1>4, PostStep
    <2>4. m.of = cur[w] /\ results' = results \cup {m} /\ (wpc'[w] = "panicked" => m.kind = "panic")
      BY <2>2 DEF Posts
    <2>5. \A v \in Workers : wpc'[v] = "panicked" => v = w \/ wpc[v] = "panicked"
      BY <2>3
    <2> QED BY <2>1, <2>3, <2>4, <2>5
  <1> QED BY <1>1, <1>2, <1>3, <1>4, Cases

LEMMA ProducedStep ==
    TypeOK /\ OutputInv /\ OneInv /\ ProducedInv /\ [Next]_vars => ProducedInv'
  <1> SUFFICES ASSUME TypeOK, OutputInv, OneInv, ProducedInv, [Next]_vars PROVE ProducedInv'
    OBVIOUS
  <1> USE DEF ProducedInv
  <1>1. CASE Quiet
    BY <1>1, QuietStep
  <1>2. CASE Collect
    BY <1>2, CollectStep
  <1>3. ASSUME NEW w \in Workers, TakeJob(w) PROVE ProducedInv'
    BY <1>3, TakeStep
  <1>4. ASSUME NEW w \in Workers, RefuseTemplate(w) \/ Report(w) \/ WorkerPanics(w)
        PROVE  ProducedInv'
    <2>1. Report(w) => output[w] \in Produced[Templates[cur[w]]]
      BY DEF Report, OutputInv
    <2>2. PICK m : Posts(w, m)
      BY <1>4, PostStep
    <2>3. errors' = errors /\ slots' = slots
      BY <1>4, PostStep
    <2> QED BY <2>1, <2>2, <2>3 DEF Posts
  <1> QED BY <1>1, <1>2, <1>3, <1>4, Cases

LEMMA PoolCorrect == Spec => []PoolInv
  <1>1. PoolInv /\ [Next]_vars => PoolInv'
    BY CallerType, WorkerType, AnswerType, OutputStep, OrderStep, OneStep, PhaseStep, SomewhereStep,
       ProducedStep
       DEF PoolInv, TypeOK
  <1> QED BY InitInv, <1>1, PTL DEF Spec

-----------------------------------------------------------------------------
\* Every variable of the pool stays in its domain.
THEOREM PoolTypeCorrect == Spec => []TypeOK
  <1>1. PoolInv => TypeOK
    BY DEF PoolInv
  <1> QED BY <1>1, PoolCorrect, PTL

\* Each result is in the slot of its template, whichever worker finishes
\* first (pool.go:127).
THEOREM OrderCorrect == Spec => []ResultsInOrder
  <1>1. PoolInv => ResultsInOrder
    BY DEF PoolInv, OrderInv
  <1> QED BY <1>1, PoolCorrect, PTL

\* No template is answered twice.
THEOREM AnswersCorrect == Spec => []OneAnswerEach
  <1>1. PoolInv => OneAnswerEach
    BY DEF PoolInv, OneInv
  <1> QED BY <1>1, PoolCorrect, PTL

\* The results channel, as large as the number of templates, never blocks a
\* worker (pool.go:94).
THEOREM RoomCorrect == Spec => []NeverFull
  <1>1. PoolInv => NeverFull
    BY RoomInv DEF PoolInv
  <1> QED BY <1>1, PoolCorrect, PTL

\* Nothing is sent on the results channel once it is closed (pool.go:115).
THEOREM CloseCorrect == Spec => []ClosedAfterLast
  <1>1. PoolInv => ClosedAfterLast
    BY DEF PoolInv, PhaseInv
  <1> QED BY <1>1, PoolCorrect, PTL

\* When the pool returns every template is answered, unless every worker has
\* panicked; and the error of each panic is among those returned.
THEOREM ReturnCorrect == Spec => []EveryTemplateAnswered
  <1>1. ASSUME PoolInv, pc = "done"
        PROVE  /\ (\A i \in 1..N : Answered(i)) \/ (\A w \in Workers : wpc[w] = "panicked")
               /\ \A w \in Workers : wpc[w] = "panicked" => PanicReported(w)
    <2>1. results = {} /\ \A w \in Workers : wpc[w] \in {"exited", "panicked"} /\ ~Has(w)
      BY <1>1 DEF PoolInv, PhaseInv, ClosedAfterLast, Left, Has, Busy
    <2>2. CASE \E w \in Workers : wpc[w] = "exited"
      <3>1. taken = N
        BY <1>1, <2>2 DEF PoolInv, PhaseInv
      <3> QED BY <1>1, <2>1, <3>1 DEF PoolInv, SomewhereInv, Posted, Answered, PanicReported
    <2>3. CASE \A w \in Workers : wpc[w] # "exited"
      BY <1>1, <2>1, <2>3 DEF PoolInv, SomewhereInv, Posted, PanicReported
    <2> QED BY <2>2, <2>3
  <1>2. PoolInv => EveryTemplateAnswered
    BY <1>1 DEF EveryTemplateAnswered
  <1> QED BY <1>2, PoolCorrect, PTL

\* Every template is answered in its place and once, whichever worker is
\* cancelled or panics on it (pool.go:122).
THEOREM AnsweredOnce == Spec => []EachAnsweredOnce
  <1>1. ResultsInOrder /\ OneAnswerEach /\ EveryTemplateAnswered => EachAnsweredOnce
    BY DEF EachAnsweredOnce
  <1> QED BY <1>1, OrderCorrect, AnswersCorrect, ReturnCorrect, PTL

\* No send on the results channel blocks or comes after its closing
\* (pool.go:94, 115).
THEOREM ChannelSafe == Spec => []ResultsChannelSafe
  <1>1. NeverFull /\ ClosedAfterLast => ResultsChannelSafe
    BY DEF ResultsChannelSafe
  <1> QED BY <1>1, RoomCorrect, CloseCorrect, PTL

-----------------------------------------------------------------------------
(* The steps that apply keep their order.                                   *)

\* A set of numbers has a smallest one.
LEMMA SmallestOf ==
    ASSUME NEW T, T \subseteq Nat, T # {}
    PROVE  \E x \in T : \A y \in T : x <= y
  <1>1. PICK x \in T : \A y \in T : <<y, x>> \notin OpToRel(<, Nat)
    BY NatLessThanWellFounded, WFMin, Zenon
  <1>2. \A y \in T : ~(y < x)
    BY <1>1 DEF OpToRel
  <1> QED BY <1>2

\* The steps that apply among the first n.
Applicable(steps, n) == {k \in 1..n : Applies(steps[k])}
Rank(steps, n) == Cardinality(Applicable(steps, n))

LEMMA RankStep ==
    ASSUME NEW steps, NEW n \in Nat
    PROVE  /\ IsFiniteSet(Applicable(steps, n)) /\ Rank(steps, n) \in Nat
           /\ Rank(steps, 0) = 0
           /\ Applies(steps[n + 1]) => /\ Applicable(steps, n + 1) = Applicable(steps, n) \cup {n + 1}
                                       /\ Rank(steps, n + 1) = Rank(steps, n) + 1
           /\ ~Applies(steps[n + 1]) => Applicable(steps, n + 1) = Applicable(steps, n)
  <1>1. IsFiniteSet(Applicable(steps, n))
    <2>1. IsFiniteSet(1..n)
      BY FS_Interval
    <2>2. Applicable(steps, n) \subseteq 1..n
      BY DEF Applicable
    <2> QED BY <2>1, <2>2, FS_Subset
  <1>2. Rank(steps, n) \in Nat
    BY <1>1, FS_CardinalityType DEF Rank
  <1>3. Rank(steps, 0) = 0
    <2>1. Applicable(steps, 0) = {}
      BY DEF Applicable
    <2> QED BY <2>1, FS_EmptySet DEF Rank
  <1>4. 1..(n + 1) = (1..n) \cup {n + 1}
    OBVIOUS
  <1>5. ASSUME Applies(steps[n + 1])
        PROVE  /\ Applicable(steps, n + 1) = Applicable(steps, n) \cup {n + 1}
               /\ Rank(steps, n + 1) = Rank(steps, n) + 1
    <2>1. Applicable(steps, n + 1) = Applicable(steps, n) \cup {n + 1}
      BY <1>4, <1>5 DEF Applicable
    <2>2. n + 1 \notin Applicable(steps, n)
      BY DEF Applicable
    <2> QED BY <1>1, <2>1, <2>2, FS_AddElement DEF Rank
  <1>6. ~Applies(steps[n + 1]) => Applicable(steps, n + 1) = Applicable(steps, n)
    BY <1>4 DEF Applicable
  <1> QED BY <1>1, <1>2, <1>3, <1>5, <1>6

LEMMA KeptIs ==
    ASSUME NEW S, NEW steps \in Seq(S)
    PROVE  /\ KeptSteps(steps)[0] = << >>
           /\ \A n \in Nat : n + 1 <= Len(steps) =>
                KeptSteps(steps)[n + 1] =
                  IF Applies(steps[n + 1]) THEN Append(KeptSteps(steps)[n], steps[n + 1])
                                           ELSE KeptSteps(steps)[n]
  <1> DEFINE After(g, n) ==
               IF n = 0 THEN << >>
               ELSE IF Applies(steps[n]) THEN Append(g[n - 1], steps[n]) ELSE g[n - 1]
             Is(g, m) == g = [n \in 0..m |-> After(g, n)]
  <1>1. Len(steps) \in Nat
    OBVIOUS
  <1>2. KeptSteps(steps) = CHOOSE g : Is(g, Len(steps))
    BY DEF KeptSteps
  <1>3. Is([n \in 0..0 |-> << >>], 0)
    OBVIOUS
  <1>4. ASSUME NEW m \in Nat, NEW g, Is(g, m)
        PROVE  \E h : Is(h, m + 1)
    <2>1. PICK h : h = [n \in 0..(m + 1) |-> IF n = m + 1 THEN After(g, m + 1) ELSE g[n]]
      OBVIOUS
    <2>2. \A n \in 0..m : g[n] = After(g, n)
      <3> HIDE DEF After
      <3> QED BY <1>4
    <2>3. ASSUME NEW n \in 0..(m + 1)
          PROVE  h[n] = After(h, n)
      <3>1. n # 0 => h[n - 1] = g[n - 1]
        BY <2>1
      <3>2. h[n] = After(g, n)
        <4>1. CASE n = m + 1
          <5> HIDE DEF After
          <5> QED BY <2>1, <4>1
        <4>2. CASE n # m + 1
          <5>1. n \in 0..m
            BY <4>2
          <5> HIDE DEF After
          <5> QED BY <2>1, <2>2, <4>2, <5>1
        <4> QED BY <4>1, <4>2
      <3> QED BY <3>1, <3>2
    <2>4. Is(h, m + 1)
      <3> HIDE DEF After
      <3> QED BY <2>1, <2>3
    <2> QED BY <2>4
  <1>5. ASSUME NEW m \in Nat
        PROVE  \E g : Is(g, m)
    <2> HIDE DEF Is
    <2> DEFINE T == {k \in Nat : ~\E g : Is(g, k)}
    <2>1. SUFFICES ASSUME T # {} PROVE FALSE
      OBVIOUS
    <2>2. T \subseteq Nat
      OBVIOUS
    <2>3. PICK k \in T : \A l \in T : k <= l
      <3> HIDE DEF T
      <3> QED BY <2>1, <2>2, SmallestOf
    <2>4. k # 0
      BY <1>3
    <2>5. k \in Nat /\ ~\E g : Is(g, k)
      OBVIOUS
    <2>6. k - 1 \in Nat /\ k - 1 + 1 = k
      BY <2>4, <2>5
    <2>7. k - 1 \notin T
      <3> HIDE DEF T
      <3> QED BY <2>3, <2>5, <2>6
    <2>8. PICK g : Is(g, k - 1)
      BY <2>6, <2>7
    <2>9. \E h : Is(h, k - 1 + 1)
      BY <1>4, <2>6, <2>8
    <2> QED BY <2>5, <2>6, <2>9
  <1>6. Is(KeptSteps(steps), Len(steps))
    <2> HIDE DEF Is
    <2> QED BY <1>1, <1>2, <1>5
  <1>7. \A n \in 0..Len(steps) : KeptSteps(steps)[n] = After(KeptSteps(steps), n)
    <2> HIDE DEF After
    <2> QED BY <1>6
  <1>8. KeptSteps(steps)[0] = << >>
    BY <1>1, <1>7
  <1>9. ASSUME NEW n \in Nat, n + 1 <= Len(steps)
        PROVE  KeptSteps(steps)[n + 1] =
                  IF Applies(steps[n + 1]) THEN Append(KeptSteps(steps)[n], steps[n + 1])
                                           ELSE KeptSteps(steps)[n]
    <2>1. n + 1 \in 0..Len(steps) /\ n + 1 # 0 /\ n + 1 - 1 = n
      BY <1>1, <1>9
    <2>2. KeptSteps(steps)[n + 1] = After(KeptSteps(steps), n + 1)
      BY <1>7, <2>1
    <2> QED BY <2>1, <2>2
  <1> QED BY <1>8, <1>9
\* Each step that applies is kept at its rank, and nothing else is.
Ranked(steps, n, kept) ==
    /\ Len(kept) = Rank(steps, n)
    /\ \A j \in Applicable(steps, n) : Rank(steps, j) \in 1..Len(kept) /\ kept[Rank(steps, j)] = steps[j]
    /\ \A i \in 1..Len(kept) : \E j \in Applicable(steps, n) : Rank(steps, j) = i

LEMMA RankedStep ==
    ASSUME NEW S, NEW steps \in Seq(S), NEW n \in Nat, n + 1 <= Len(steps),
           NEW kept \in Seq(S), Ranked(steps, n, kept), Applies(steps[n + 1])
    PROVE  Ranked(steps, n + 1, Append(kept, steps[n + 1]))
  <1>1. /\ Applicable(steps, n + 1) = Applicable(steps, n) \cup {n + 1}
        /\ Rank(steps, n + 1) = Rank(steps, n) + 1
    BY RankStep
  <1>2. PICK longer : longer = Append(kept, steps[n + 1])
    OBVIOUS
  <1>3. steps[n + 1] \in S
    OBVIOUS
  <1>4. /\ Len(longer) = Len(kept) + 1 /\ longer[Len(kept) + 1] = steps[n + 1]
        /\ \A i \in 1..Len(kept) : longer[i] = kept[i]
    BY <1>2, <1>3
  <1>5. Len(kept) \in Nat /\ Len(kept) = Rank(steps, n)
    BY DEF Ranked
  <1>6. ASSUME NEW j \in Applicable(steps, n + 1)
        PROVE  Rank(steps, j) \in 1..Len(longer) /\ longer[Rank(steps, j)] = steps[j]
    <2>1. CASE j = n + 1
      BY <1>1, <1>4, <1>5, <2>1
    <2>2. CASE j \in Applicable(steps, n)
      BY <1>4, <1>5, <2>2 DEF Ranked
    <2> QED BY <1>1, <2>1, <2>2
  <1>7. ASSUME NEW i \in 1..Len(longer)
        PROVE  \E j \in Applicable(steps, n + 1) : Rank(steps, j) = i
    <2>1. CASE i = Len(kept) + 1
      BY <1>1, <1>5, <2>1
    <2>2. CASE i \in 1..Len(kept)
      BY <1>1, <2>2 DEF Ranked
    <2> QED BY <1>4, <1>5, <2>1, <2>2
  <1> QED BY <1>1, <1>2, <1>4, <1>5, <1>6, <1>7 DEF Ranked

LEMMA KeptInOrder ==
    ASSUME NEW S, NEW steps \in Seq(S)
    PROVE  /\ filterStepsByPlatform(steps) \in Seq(S)
           /\ Ranked(steps, Len(steps), filterStepsByPlatform(steps))
  <1> DEFINE kept == KeptSteps(steps)
             Good(n) == kept[n] \in Seq(S) /\ Ranked(steps, n, kept[n])
             T == {n \in Nat : n <= Len(steps) /\ ~Good(n)}
  <1>1. Good(0)
    <2>1. kept[0] = << >>
      BY KeptIs
    <2>2. Rank(steps, 0) = 0
      <3>1. 0 \in Nat
        OBVIOUS
      <3> QED BY <3>1, RankStep
    <2>3. Applicable(steps, 0) = {}
      BY DEF Applicable
    <2>4. << >> \in Seq(S) /\ Ranked(steps, 0, << >>)
      BY <2>2, <2>3 DEF Ranked
    <2> QED BY <2>1, <2>4
  <1>2. ASSUME NEW n \in Nat, n + 1 <= Len(steps), Good(n)
        PROVE  Good(n + 1)
    <2>1. kept[n + 1] = IF Applies(steps[n + 1]) THEN Append(kept[n], steps[n + 1]) ELSE kept[n]
      BY <1>2, KeptIs
    <2>2. CASE Applies(steps[n + 1])
      <3>1. kept[n + 1] \in Seq(S)
        BY <1>2, <2>1, <2>2
      <3>2. Ranked(steps, n + 1, Append(kept[n], steps[n + 1]))
        BY <1>2, <2>2, RankedStep
      <3> QED BY <2>1, <2>2, <3>1, <3>2
    <2>3. CASE ~Applies(steps[n + 1])
      <3>1. Applicable(steps, n + 1) = Applicable(steps, n)
        BY <2>3, RankStep
      <3> QED BY <1>2, <2>1, <2>3, <3>1 DEF Ranked, Rank
    <2> QED BY <2>2, <2>3
  <1>3. T = {}
    <2>1. SUFFICES ASSUME T # {} PROVE FALSE
      OBVIOUS
    <2>2. T \subseteq Nat
      OBVIOUS
    <2>3. PICK k \in T : \A l \in T : k <= l
      <3> HIDE DEF T
      <3> QED BY <2>1, <2>2, SmallestOf
    <2>4. k \in Nat /\ k <= Len(steps) /\ ~Good(k)
      <3> HIDE DEF Good
      <3> QED OBVIOUS
    <2>5. k # 0
      <3> HIDE DEF Good
      <3> QED BY <1>1, <2>4
    <2>6. k - 1 \in Nat /\ k - 1 + 1 = k /\ k - 1 <= Len(steps)
      <3> HIDE DEF Good
      <3> QED BY <2>4, <2>5
    <2>7. k - 1 \notin T
      <3> HIDE DEF T
      <3> QED BY <2>3, <2>4, <2>6
    <2>8. Good(k - 1)
      <3> HIDE DEF Good
      <3> QED BY <2>6, <2>7
    <2>9. Good(k - 1 + 1)
      <3> HIDE DEF Good
      <3> QED BY <1>2, <2>4, <2>6, <2>8
    <2> HIDE DEF Good
    <2> QED BY <2>4, <2>6, <2>9
  <1>4. Good(Len(steps))
    <2> HIDE DEF Good
    <2> QED BY <1>3
  <1> QED BY <1>4 DEF filterStepsByPlatform

-----------------------------------------------------------------------------
(* What a step finds.                                                       *)

Ends == {Failed, Panic, Found, Clear, Trouble}

LEMMA EndsApart ==
    /\ Failed # Panic /\ Failed # Found /\ Failed # Clear /\ Failed # Trouble
    /\ Panic # Found /\ Panic # Clear /\ Panic # Trouble
    /\ Found # Clear /\ Found # Trouble /\ Clear # Trouble
  <1>1. Failed.kind = "failed" /\ Panic.kind = "panic"
    BY DEF Failed, Panic
  <1>2. \A o \in {Found, Clear, Trouble} : o.kind = "result"
    BY DEF Found, Clear, Trouble, Verdict, Outcome
  <1>3. Found.matched /\ ~Clear.matched /\ ~Trouble.matched /\ ~Clear.error /\ Trouble.error
    BY DEF Found, Clear, Trouble, Verdict, Outcome
  <1> QED BY <1>1, <1>2, <1>3

LEMMA ResultOf ==
    /\ \A o \in Ends : /\ Hit(executeStep(o)) <=> o = Found
                       /\ executeStep(o).error \/ executeStep(o).matched <=> o \notin Missed
  <1>1. executeStep(Failed) = [matched |-> FALSE, error |-> TRUE]
    BY DEF executeStep, Failed
  <1>2. executeStep(Panic) = [matched |-> FALSE, error |-> FALSE]
    BY DEF executeStep, Panic
  <1>3. executeStep(Found) = [matched |-> TRUE, error |-> FALSE]
    BY DEF executeStep, Found, Verdict, Outcome
  <1>4. executeStep(Clear) = [matched |-> FALSE, error |-> FALSE]
    BY DEF executeStep, Clear, Verdict, Outcome
  <1>5. executeStep(Trouble) = [matched |-> FALSE, error |-> TRUE]
    BY DEF executeStep, Trouble, Outcome
  <1> QED BY <1>1, <1>2, <1>3, <1>4, <1>5, EndsApart DEF Ends, Hit, Missed

LEMMA VerdictIs == \A b \in BOOLEAN : Verdict(b) = IF b THEN Found ELSE Clear
  BY DEF Found, Clear, Verdict

\* The first line that does not miss is one of the lines.
LEMMA FirstLine ==
    ASSUME NEW lines, Ordered(lines),
           NEW ends, ends = {i \in DOMAIN lines : lines[i] # "miss"}, ends # {}
    PROVE  Min(ends) \in ends
  <1>1. ends \subseteq Nat
    BY DEF Ordered
  <1>2. \E x \in ends : \A y \in ends : x <= y
    BY <1>1, SmallestOf
  <1> QED BY <1>2 DEF Min

\* What each module answers, and for a file what it says of it.
LEMMA SearchLinesEnds ==
    ASSUME NEW config, NEW lines, Ordered(lines)
    PROVE  /\ searchLines(config, lines) \in Ends
           /\ searchLines(config, lines) = Found => HitsIn(lines) # {}
           /\ searchLines(config, lines) = Clear => HitsIn(lines) = {}
  <1> USE EndsApart DEF Ends
  <1>1. CASE config.pattern = "invalid"
    <2>1. lines = << >> => HitsIn(lines) = {}
      BY DEF HitsIn
    <2> QED BY <1>1, <2>1 DEF searchLines
  <1>2. CASE config.pattern # "invalid"
    <2>1. PICK ends : ends = {i \in DOMAIN lines : lines[i] # "miss"}
      OBVIOUS
    <2>2. HitsIn(lines) \subseteq ends
      BY <2>1 DEF HitsIn
    <2>3. ends # {} => Min(ends) \in DOMAIN lines
      BY <2>1, FirstLine
    <2>4. searchLines(config, lines) =
            IF ends = {} THEN Clear ELSE IF lines[Min(ends)] = "hit" THEN Found ELSE Trouble
      BY <1>2, <2>1 DEF searchLines
    <2> QED BY <2>2, <2>3, <2>4 DEF HitsIn
  <1> QED BY <1>1, <1>2

LEMMA MatchContentEnds ==
    ASSUME NEW config, NEW lines
    PROVE  /\ MatchContent(config, lines) \in Ends
           /\ MatchContent(config, lines) = Found => HitsIn(lines) # {}
           /\ MatchContent(config, lines) = Clear => HitsIn(lines) = {}
  <1>1. PICK b \in BOOLEAN : b <=> HitsIn(lines) # {}
    OBVIOUS
  <1> QED BY <1>1, EndsApart, VerdictIs DEF MatchContent, Ends

LEMMA FileContentEnds ==
    ASSUME NEW config, config.path \in {""} \cup DOMAIN Machine.files, NEW o \in FileContent(config)
    PROVE  /\ o \in Ends
           /\ o = Found => Readable(config.path) /\ HitsIn(LinesOf(config.path)) # {}
           /\ o = Clear => HitsIn(LinesOf(config.path)) = {}
  <1> USE EndsApart DEF Ends
  <1>1. CASE config.path = "" \/ config.pattern = ""
    BY <1>1 DEF FileContent
  <1>2. CASE ~(config.path = "" \/ config.pattern = "")
    <2>1. Ordered(LinesOf(config.path))
      BY <1>2, ScanAssumption
    <2>2. CASE o = Trouble
      BY <2>2
    <2>3. CASE o # Trouble
      <3>1. /\ Readable(config.path)
            /\ o = IF config.multiline THEN MatchContent(config, LinesOf(config.path))
                   ELSE searchLines(config, LinesOf(config.path))
        BY <1>2, <2>3 DEF FileContent, ReadFile, Readable
      <3>2. CASE config.multiline
        BY <3>1, <3>2, MatchContentEnds
      <3>3. CASE ~config.multiline
        BY <2>1, <3>1, <3>3, SearchLinesEnds
      <3> QED BY <3>2, <3>3
    <2> QED BY <2>2, <2>3
  <1> QED BY <1>1, <1>2

LEMMA FileHashEnds ==
    ASSUME NEW config, NEW o \in FileHash(config)
    PROVE  /\ o \in Ends
           /\ o = Found => /\ Readable(config.path)
                           /\ config.hash = CalculateHash(config.path, Algorithm(config))
           /\ o = Clear => config.hash # CalculateHash(config.path, Algorithm(config))
  <1> USE EndsApart DEF Ends
  <1>1. CASE o = Trouble
    BY <1>1
  <1>2. CASE o # Trouble
    <2>1. PICK b \in BOOLEAN : b <=> config.hash = CalculateHash(config.path, Algorithm(config))
      OBVIOUS
    <2>2. /\ Readable(config.path)
          /\ o = Verdict(config.hash = CalculateHash(config.path, Algorithm(config)))
      BY <1>2 DEF FileHash, ReadFile, Readable
    <2>3. o = IF config.hash = CalculateHash(config.path, Algorithm(config)) THEN Found ELSE Clear
      BY <2>2 DEF Verdict, Found, Clear
    <2> QED BY <2>2, <2>3
  <1> QED BY <1>1, <1>2

LEMMA FileSearchEnds ==
    ASSUME NEW config, NEW o \in FileSearch(config)
    PROVE  /\ o \in Ends
           /\ o = Found => Findable(config, Machine.trees[config.root]) # {}
  <1> USE EndsApart DEF Ends
  <1>1. CASE o \in {Failed, Trouble}
    BY <1>1
  <1>2. CASE o \notin {Failed, Trouble}
    <2>1. PICK found \in SUBSET Findable(config, Machine.trees[config.root]) : o = Verdict(found # {})
      BY <1>2 DEF FileSearch
    <2>2. o = IF found # {} THEN Found ELSE Clear
      BY <2>1 DEF Verdict, Found, Clear
    <2> QED BY <2>1, <2>2
  <1> QED BY <1>1, <1>2

LEMMA JudgeEnds ==
    ASSUME NEW config, NEW code, NEW found \in BOOLEAN
    PROVE  /\ Judge(config, code, found) \in Ends
           /\ Judge(config, code, found) = Found => found
  BY EndsApart, VerdictIs DEF Judge, Ends

LEMMA VersionCmdEnds ==
    ASSUME NEW config, NEW o \in VersionCmd(config)
    PROVE  /\ o \in Ends
           /\ o = Found => /\ Machine.programs[config.command].starts
                           /\ \/ Machine.programs[config.command].stdout
                              \/ Machine.programs[config.command].stderr
  <1> USE EndsApart DEF Ends
  <1>1. CASE o = Trouble
    BY <1>1
  <1>2. CASE o # Trouble
    <2> DEFINE program == Machine.programs[config.command]
    <2>1. program.starts
      BY <1>2 DEF VersionCmd
    <2>2. PICK code \in {program.code, Killed} :
             \E found \in {FALSE, Output(program, code)} : o = Judge(config, code, found)
      BY <1>2 DEF VersionCmd
    <2>3. PICK found \in {FALSE, Output(program, code)} : o = Judge(config, code, found)
      BY <2>2
    <2>4. found \in BOOLEAN
      BY <2>3 DEF Output
    <2>5. found => program.stdout \/ program.stderr
      BY <2>3 DEF Output
    <2> QED BY <2>1, <2>3, <2>4, <2>5, JudgeEnds
  <1> QED BY <1>1, <1>2

LEMMA StepEnds ==
    ASSUME NEW step, NEW o \in StepOutcomes(step),
           step.type = "file_content" => step.config.path \in {""} \cup DOMAIN Machine.files
    PROVE  /\ o \in Ends
           /\ o = Found => Present(step)
           /\ o = Clear /\ Present(step) => step.type \in {"file_search", "version_cmd"}
  <1>1. CASE o \in {Failed, Panic}
    BY <1>1, EndsApart DEF Ends
  <1>2. CASE o \notin {Failed, Panic}
    <2>1. step.type \in Registered /\ o \in Dispatched(step)
      BY <1>2 DEF StepOutcomes
    <2>2. CASE step.type = "file_content"
      <3>1. o \in FileContent(step.config)
        BY <2>1, <2>2 DEF Dispatched
      <3>2. Present(step) <=> Readable(step.config.path) /\ HitsIn(LinesOf(step.config.path)) # {}
        BY <2>2 DEF Present
      <3> QED BY <2>2, <3>1, <3>2, FileContentEnds
    <2>3. CASE step.type = "file_hash"
      <3>1. o \in FileHash(step.config)
        BY <2>1, <2>3 DEF Dispatched
      <3>2. Present(step) <=> /\ Readable(step.config.path)
                              /\ step.config.hash = CalculateHash(step.config.path, Algorithm(step.config))
        BY <2>3 DEF Present
      <3> QED BY <3>1, <3>2, FileHashEnds
    <2>4. CASE step.type = "file_search"
      <3>1. o \in FileSearch(step.config)
        BY <2>1, <2>4 DEF Dispatched
      <3>2. Present(step) <=> Findable(step.config, Machine.trees[step.config.root]) # {}
        BY <2>4 DEF Present
      <3> QED BY <2>4, <3>1, <3>2, FileSearchEnds
    <2>5. CASE step.type = "version_cmd"
      <3>1. o \in VersionCmd(step.config)
        BY <2>1, <2>5 DEF Dispatched
      <3>2. /\ Machine.programs[step.config.command].starts
            /\ \/ Machine.programs[step.config.command].stdout
               \/ Machine.programs[step.config.command].stderr
            => Present(step)
        BY <2>5 DEF Present
      <3> QED BY <2>5, <3>1, <3>2, VersionCmdEnds
    <2> QED BY <2>1, <2>2, <2>3, <2>4, <2>5 DEF Registered
  <1> QED BY <1>1, <1>2

-----------------------------------------------------------------------------
(* What the executor makes of the steps.                                    *)

\* The outcomes of an execution are those of the steps that apply, in order.
LEMMA ExecutionIs ==
    ASSUME NEW id \in DOMAIN Library, NEW r \in Executions(id)
    PROVE  LET kept == filterStepsByPlatform(StepsOf(r))
               stepResults == [i \in DOMAIN r.outcomes |-> executeStep(r.outcomes[i])]
           IN /\ r.template = id
              /\ DOMAIN r.outcomes = DOMAIN kept
              /\ \A i \in DOMAIN kept : r.outcomes[i] \in StepOutcomes(kept[i])
              /\ r.matched = evaluateLogic(Library[id].logic, stepResults)
              /\ r.confidence = calculateConfidence(Library[id].logic, stepResults, kept)
  <1> DEFINE kept == filterStepsByPlatform(Library[id].steps)
             All == UNION {StepOutcomes(kept[i]) : i \in DOMAIN kept}
  <1>1. PICK o \in [DOMAIN kept -> All] :
           /\ \A i \in DOMAIN kept : o[i] \in StepOutcomes(kept[i])
           /\ r = ExecuteTemplate(id, o)
    BY DEF Executions
  <1>2. /\ r.template = id /\ r.outcomes = o
        /\ r.matched = evaluateLogic(Library[id].logic, [i \in DOMAIN o |-> executeStep(o[i])])
        /\ r.confidence = calculateConfidence(Library[id].logic, [i \in DOMAIN o |-> executeStep(o[i])], kept)
    BY <1>1 DEF ExecuteTemplate, WeightedSteps
  <1>3. DOMAIN o = DOMAIN kept
    BY <1>1
  <1>4. filterStepsByPlatform(StepsOf(r)) = kept
    BY <1>2 DEF StepsOf
  <1> HIDE DEF kept
  <1> QED BY <1>1, <1>2, <1>3, <1>4

LEMMA StepsInOrder ==
    ASSUME NEW id \in DOMAIN Library, NEW r \in Executions(id)
    PROVE  LET kept == filterStepsByPlatform(StepsOf(r)) IN
           /\ \A j \in DOMAIN StepsOf(r) : Applies(StepsOf(r)[j]) =>
                /\ Rank(StepsOf(r), j) \in DOMAIN r.outcomes
                /\ kept[Rank(StepsOf(r), j)] = StepsOf(r)[j]
                /\ OutcomeOf(r, j) = r.outcomes[Rank(StepsOf(r), j)]
           /\ \A i \in DOMAIN r.outcomes :
                \E j \in DOMAIN StepsOf(r) : Applies(StepsOf(r)[j]) /\ Rank(StepsOf(r), j) = i
  <1> DEFINE steps == Library[id].steps
             S == {steps[j] : j \in DOMAIN steps}
             kept == filterStepsByPlatform(steps)
  <1>1. StepsOf(r) = steps
    BY ExecutionIs DEF StepsOf
  <1>2. steps \in Seq(S)
    BY ScanAssumption DEF StepsAreListed
  <1>3. kept \in Seq(S) /\ Ranked(steps, Len(steps), kept)
    <2> HIDE DEF S, steps
    <2> QED BY <1>2, KeptInOrder
  <1>4. DOMAIN r.outcomes = 1..Len(kept)
    <2>1. DOMAIN r.outcomes = DOMAIN kept
      BY <1>1, ExecutionIs
    <2> HIDE DEF S, kept
    <2> QED BY <1>3, <2>1
  <1>5. \A j : j \in Applicable(steps, Len(steps)) <=> j \in DOMAIN steps /\ Applies(steps[j])
    <2> HIDE DEF S, steps
    <2>1. DOMAIN steps = 1..Len(steps)
      BY <1>2
    <2> QED BY <2>1 DEF Applicable
  <1>6. \A j : OutcomeOf(r, j) = r.outcomes[Rank(steps, j)]
    BY <1>1 DEF OutcomeOf, Rank, Applicable
  <1> HIDE DEF S, steps
  <1> QED BY <1>1, <1>3, <1>4, <1>5, <1>6 DEF Ranked

\* A step that applies ends in one of the ways of its module.
LEMMA OutcomeEnds ==
    ASSUME NEW id \in DOMAIN Library, NEW r \in Executions(id),
           NEW j \in DOMAIN StepsOf(r), Applies(StepsOf(r)[j])
    PROVE  LET step == StepsOf(r)[j] IN
           /\ OutcomeOf(r, j) \in Ends
           /\ OutcomeOf(r, j) = Found => Present(step)
           /\ OutcomeOf(r, j) = Clear /\ Present(step) => step.type \in {"file_search", "version_cmd"}
  <1> DEFINE kept == filterStepsByPlatform(StepsOf(r))
  <1>1. PICK i : i = Rank(StepsOf(r), j)
    OBVIOUS
  <1>2. i \in DOMAIN r.outcomes /\ kept[i] = StepsOf(r)[j] /\ OutcomeOf(r, j) = r.outcomes[i]
    BY <1>1, StepsInOrder
  <1>3. DOMAIN r.outcomes = DOMAIN kept /\ \A k \in DOMAIN kept : r.outcomes[k] \in StepOutcomes(kept[k])
    BY ExecutionIs
  <1>4. OutcomeOf(r, j) \in StepOutcomes(StepsOf(r)[j])
    <2> HIDE DEF kept
    <2> QED BY <1>2, <1>3
  <1>5. StepsOf(r) = Library[id].steps
    BY ExecutionIs DEF StepsOf
  <1>6. StepsOf(r)[j].type = "file_content" =>
           StepsOf(r)[j].config.path \in {""} \cup DOMAIN Machine.files
    BY <1>5, ScanAssumption
  <1>7. PICK o \in StepOutcomes(StepsOf(r)[j]) : o = OutcomeOf(r, j)
    BY <1>4
  <1> QED BY <1>6, <1>7, StepEnds

LEMMA HitsAre ==
    ASSUME NEW id \in DOMAIN Library, NEW r \in Executions(id)
    PROVE  LET kept == filterStepsByPlatform(StepsOf(r))
               stepResults == [i \in DOMAIN r.outcomes |-> executeStep(r.outcomes[i])]
               hits == {i \in DOMAIN stepResults : Hit(stepResults[i])}
           IN /\ \A j : j \in HitSteps(r) =>
                   Rank(StepsOf(r), j) \in hits /\ kept[Rank(StepsOf(r), j)] = StepsOf(r)[j]
              /\ \A i \in hits : \E j \in HitSteps(r) : Rank(StepsOf(r), j) = i
              /\ \A i \in DOMAIN r.outcomes :
                   stepResults[i].error \/ stepResults[i].matched <=> r.outcomes[i] \notin Missed
              /\ DOMAIN stepResults = DOMAIN r.outcomes
  <1>1. \A i \in DOMAIN r.outcomes : r.outcomes[i] \in Ends
    BY StepsInOrder, OutcomeEnds
  <1>2. \A i \in DOMAIN r.outcomes :
          /\ Hit(executeStep(r.outcomes[i])) <=> r.outcomes[i] = Found
          /\ executeStep(r.outcomes[i]).error \/ executeStep(r.outcomes[i]).matched <=> r.outcomes[i] \notin Missed
    BY <1>1, ResultOf
  <1> QED BY <1>2, StepsInOrder DEF HitSteps

\* Some of a finite set of whole numbers is the least of them, and some the greatest.
LEMMA Extremes ==
    ASSUME NEW T, T \subseteq Int, IsFiniteSet(T), T # {}
    PROVE  /\ \E x \in T : \A y \in T : x <= y
           /\ \E x \in T : \A y \in T : x >= y
  <1> DEFINE Least(U) == \E x \in U : \A y \in U : x <= y
             Greatest(U) == \E x \in U : \A y \in U : x >= y
             Bad == {n \in Nat : \E U \in SUBSET T : /\ U # {} /\ IsFiniteSet(U) /\ Cardinality(U) = n
                                                     /\ ~(Least(U) /\ Greatest(U))}
  <1>1. ASSUME Bad # {} PROVE FALSE
    <2>1. Bad \subseteq Nat
      OBVIOUS
    <2>2. PICK n \in Bad : \A m \in Bad : n <= m
      <3> HIDE DEF Bad
      <3> QED BY <1>1, <2>1, SmallestOf
    <2>3. n \in Nat
      OBVIOUS
    <2>4. PICK U \in SUBSET T : /\ U # {} /\ IsFiniteSet(U) /\ Cardinality(U) = n
                                /\ ~(Least(U) /\ Greatest(U))
      <3> HIDE DEF Least, Greatest
      <3> QED OBVIOUS
    <2>5. PICK a \in U : TRUE
      BY <2>4
    <2>6. PICK V : V = U \ {a}
      OBVIOUS
    <2>7. IsFiniteSet(V) /\ Cardinality(V) = n - 1 /\ V \in SUBSET T /\ a \in Int /\ a \notin V /\ U = V \cup {a}
      BY <2>4, <2>5, <2>6, FS_RemoveElement
    <2>8. V # {}
      <3>1. V = {} => Least(U) /\ Greatest(U)
        BY <2>7
      <3> HIDE DEF Least, Greatest
      <3> QED BY <2>4, <3>1
    <2>9. Least(V) /\ Greatest(V)
      <3>1. n - 1 \in Nat
        <4>1. Cardinality(V) \in Nat
          BY <2>7, FS_CardinalityType
        <4> QED BY <2>7, <4>1
      <3>2. n - 1 \notin Bad
        <4> HIDE DEF Bad
        <4> QED BY <2>2, <2>3, <3>1
      <3> HIDE DEF Least, Greatest
      <3> QED BY <2>7, <2>8, <3>1, <3>2
    <2>10. V \subseteq Int
      BY <2>7
    <2>11. Least(U)
      <3>1. PICK x \in V : \A y \in V : x <= y
        BY <2>9
      <3>2. CASE x <= a
        BY <2>7, <2>10, <3>1, <3>2
      <3>3. CASE a <= x
        BY <2>7, <2>10, <3>1, <3>3
      <3> QED BY <2>7, <2>10, <3>1, <3>2, <3>3
    <2>12. Greatest(U)
      <3>1. PICK x \in V : \A y \in V : x >= y
        BY <2>9
      <3>2. CASE x <= a
        BY <2>7, <2>10, <3>1, <3>2
      <3>3. CASE a <= x
        BY <2>7, <2>10, <3>1, <3>3
      <3> QED BY <2>7, <2>10, <3>1, <3>2, <3>3
    <2> QED BY <2>4, <2>11, <2>12
  <1>2. Cardinality(T) \in Nat
    BY FS_CardinalityType
  <1>3. Least(T) /\ Greatest(T)
    <2> HIDE DEF Least, Greatest
    <2> QED BY <1>1, <1>2
  <1> QED BY <1>3

\* The verdict of one execution.
LEMMA MatchOf ==
    ASSUME NEW id \in DOMAIN Library, NEW r \in Executions(id)
    PROVE  r.matched <=> /\ KnownLogic(r) /\ HitSteps(r) # {}
                         /\ LogicOf(r) = "all" => \A i \in DOMAIN r.outcomes : r.outcomes[i] \notin Missed
  <1>1. PICK stepResults : stepResults = [i \in DOMAIN r.outcomes |-> executeStep(r.outcomes[i])]
    OBVIOUS
  <1>2. r.matched = evaluateLogic(Library[id].logic, stepResults) /\ LogicOf(r) = Logic(Library[id].logic)
    BY <1>1, ExecutionIs DEF LogicOf
  <1>3. HitSteps(r) # {} <=> \E i \in DOMAIN stepResults : Hit(stepResults[i])
    BY <1>1, HitsAre
  <1>4. (\A i \in DOMAIN stepResults : stepResults[i].error \/ stepResults[i].matched)
          <=> \A i \in DOMAIN r.outcomes : r.outcomes[i] \notin Missed
    BY <1>1, HitsAre
  <1> QED BY <1>2, <1>3, <1>4 DEF evaluateLogic, KnownLogic

\* The confidence of one execution.
LEMMA ConfidenceOf ==
    ASSUME NEW id \in DOMAIN Library, NEW r \in Executions(id)
    PROVE  LET weights == {Weight(StepsOf(r)[j]) : j \in HitSteps(r)}
           IN IF weights = {} \/ ~KnownLogic(r) THEN r.confidence = 0
              ELSE /\ r.confidence \in weights
                   /\ \A w \in weights : IF LogicOf(r) = "all"
                                           THEN r.confidence <= w ELSE r.confidence >= w
  <1>1. PICK stepResults : stepResults = [i \in DOMAIN r.outcomes |-> executeStep(r.outcomes[i])]
    OBVIOUS
  <1>2. PICK kept : kept = filterStepsByPlatform(StepsOf(r))
    OBVIOUS
  <1>3. PICK hits : hits = {i \in DOMAIN stepResults : Hit(stepResults[i])}
    OBVIOUS
  <1>4. PICK weights : weights = {Weight(StepsOf(r)[j]) : j \in HitSteps(r)}
    OBVIOUS
  <1>5. /\ \A j \in HitSteps(r) : Rank(StepsOf(r), j) \in hits /\ kept[Rank(StepsOf(r), j)] = StepsOf(r)[j]
        /\ \A i \in hits : \E j \in HitSteps(r) : Rank(StepsOf(r), j) = i
    BY <1>1, <1>2, <1>3, HitsAre
  <1>6. weights = {Weight(kept[i]) : i \in hits}
    BY <1>4, <1>5
  <1>7. r.confidence = calculateConfidence(Library[id].logic, stepResults, kept)
        /\ LogicOf(r) = Logic(Library[id].logic) /\ StepsOf(r) = Library[id].steps
    BY <1>1, <1>2, ExecutionIs DEF LogicOf, StepsOf
  <1>8. r.confidence = IF weights = {} \/ ~KnownLogic(r) THEN 0
                       ELSE IF LogicOf(r) = "all" THEN CHOOSE w \in weights : \A v \in weights : w <= v
                       ELSE CHOOSE w \in weights : \A v \in weights : w >= v
    BY <1>3, <1>6, <1>7 DEF calculateConfidence, KnownLogic
  <1>9. weights \subseteq Int
    <2>1. \A j \in DOMAIN StepsOf(r) : StepsOf(r)[j].weight \in Int
      BY <1>7, ScanAssumption DEF StepsAreListed
    <2>2. \A j \in HitSteps(r) : Weight(StepsOf(r)[j]) \in Int
      BY <2>1 DEF HitSteps, Weight
    <2> QED BY <1>4, <2>2
  <1>10. IsFiniteSet(weights)
    <2>1. IsFiniteSet(1..Len(StepsOf(r))) /\ HitSteps(r) \subseteq 1..Len(StepsOf(r))
      <3>1. StepsOf(r) \in Seq({StepsOf(r)[j] : j \in DOMAIN StepsOf(r)})
        BY <1>7, ScanAssumption DEF StepsAreListed
      <3>2. Len(StepsOf(r)) \in Nat /\ DOMAIN StepsOf(r) = 1..Len(StepsOf(r))
        BY <3>1
      <3> QED BY <3>2, FS_Interval DEF HitSteps
    <2>2. IsFiniteSet(HitSteps(r))
      BY <2>1, FS_Subset
    <2>3. PICK f : f = [j \in HitSteps(r) |-> Weight(StepsOf(r)[j])]
      OBVIOUS
    <2>4. f \in Surjection(HitSteps(r), weights)
      BY <1>4, <2>3 DEF Surjection
    <2> QED BY <2>2, <2>4, FS_Surjection
  <1>11. weights # {} => /\ \E x \in weights : \A y \in weights : x <= y
                         /\ \E x \in weights : \A y \in weights : x >= y
    BY <1>9, <1>10, Extremes
  <1> QED BY <1>4, <1>8, <1>11

-----------------------------------------------------------------------------
\* A verdict that the pool returns is one that executing its template may give.
LEMMA VerdictOrigin ==
    ASSUME PoolInv, NEW r \in Verdicts
    PROVE  \E id \in DOMAIN Library : r \in Executions(id)
  <1>1. PICK i \in 1..N : r = slots[i] /\ slots[i] # NoResult
    BY DEF Verdicts
  <1>2. r \in Produced[Templates[i]] /\ Templates[i] \in DOMAIN Produced
    BY <1>1, Sizes DEF PoolInv, ProducedInv
  <1> QED BY <1>2, ScanAssumption

\* The verdict of a template is that of the steps that apply and had no error,
\* whatever the library, the machine, the modules that panic and the deadlines
\* that pass (executor.go:197).
THEOREM VerdictsWitnessed == Spec => []MatchIsWitnessed
  <1>1. PoolInv => MatchIsWitnessed
    BY VerdictOrigin, MatchOf DEF MatchIsWitnessed
  <1> QED BY <1>1, PoolCorrect, PTL

\* Its confidence is the weight of a step that matched, the least or the
\* greatest, whichever steps the platform leaves out (executor.go:245).
THEOREM ConfidenceCorrect == Spec => []ConfidenceOfHits
  <1>1. PoolInv => ConfidenceOfHits
    <2> SUFFICES ASSUME PoolInv, NEW r \in Verdicts
                 PROVE  LET weights == {Weight(StepsOf(r)[j]) : j \in HitSteps(r)}
                        IN IF weights = {} \/ ~KnownLogic(r) THEN r.confidence = 0
                           ELSE /\ r.confidence \in weights
                                /\ \A w \in weights : IF LogicOf(r) = "all"
                                                        THEN r.confidence <= w ELSE r.confidence >= w
      BY DEF ConfidenceOfHits
    <2>1. PICK id \in DOMAIN Library : r \in Executions(id)
      BY VerdictOrigin
    <2> QED BY <2>1, ConfidenceOf
  <1> QED BY <1>1, PoolCorrect, PTL

\* What a step matched is on the machine, and a step that found nothing had
\* nothing to find unless it searched a tree or ran a command.
THEOREM EvidenceCorrect == Spec => []EvidenceIsReal
  <1>1. PoolInv => EvidenceIsReal
    <2> SUFFICES ASSUME PoolInv, NEW r \in Verdicts,
                        NEW j \in DOMAIN StepsOf(r), Applies(StepsOf(r)[j])
                 PROVE  LET step == StepsOf(r)[j] IN
                        /\ OutcomeOf(r, j) = Found => Present(step)
                        /\ OutcomeOf(r, j) = Clear /\ Present(step)
                             => step.type \in {"file_search", "version_cmd"}
      BY DEF EvidenceIsReal
    <2>1. PICK id \in DOMAIN Library : r \in Executions(id)
      BY VerdictOrigin
    <2> QED BY <2>1, OutcomeEnds
  <1> QED BY <1>1, PoolCorrect, PTL

\* Verdict and confidence come of the steps that matched, and these of what the
\* machine holds.
THEOREM VerdictsJustified == Spec => []VerdictJustified
  <1>1. MatchIsWitnessed /\ ConfidenceOfHits /\ EvidenceIsReal => VerdictJustified
    BY DEF VerdictJustified
  <1> QED BY <1>1, VerdictsWitnessed, ConfidenceCorrect, EvidenceCorrect, PTL
=============================================================================
