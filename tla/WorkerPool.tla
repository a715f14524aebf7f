----------------------------- MODULE WorkerPool -----------------------------
(***************************************************************************)
(* ExecuteTemplatesParallelWithConfig: the caller's goroutine fills the     *)
(* jobs channel and closes it, workers run the jobs and send their results, *)
(* a goroutine closes the results channel when all workers have left, and   *)
(* the caller ranges over the results until then.                           *)
(***************************************************************************)
EXTENDS Integers, Sequences, FiniteSets

CONSTANTS
    Templates,    \* the templates, in order
    Produced,     \* what executing each of them may return
    Asked,        \* WorkerPoolConfig.Workers
    NumCPU,       \* runtime.NumCPU()
    Fragile,      \* bound: templates whose execution may panic
    NoResult

N == Len(Templates)

ASSUME PoolAssumption ==
    /\ Templates \in Seq(DOMAIN Produced) /\ Templates # << >>
    /\ Asked \in Int
    /\ NumCPU \in Nat \ {0}
    /\ Fragile \subseteq 1..N
    /\ \A t \in DOMAIN Produced : \A r \in Produced[t] : r.template = t
    /\ \A t \in DOMAIN Produced : NoResult \notin Produced[t]

MinWorkerCount == 1
MaxWorkerCount == 50

\* Clamped to the limits, and never more than the templates.
WorkerCount ==
    LET asked == IF Asked <= 0 THEN NumCPU ELSE Asked
        capped == IF asked > MaxWorkerCount THEN MaxWorkerCount ELSE asked
    IN IF capped > N THEN N ELSE capped

Workers == 1..WorkerCount

VARIABLES
    pc,          \* the caller: "send", "collect", then "done"
    sent,        \* jobs sent: the channel is FIFO, so they are 1..sent
    taken,       \* jobs received by a worker
    wpc,         \* where each worker is
    cur,         \* the job it took last
    output,      \* what its template returned, not yet sent
    results,     \* messages in the results channel, of capacity N
    closed,      \* the results channel is closed
    slots,       \* resultSlice
    errors,      \* the messages with an error, collected
    cancelled    \* the context of the pool is done

vars == <<pc, sent, taken, wpc, cur, output, results, closed, slots, errors, cancelled>>
callerVars == <<pc, sent, slots, errors>>

Busy == {"check", "execute", "report"}
Left == {"exited", "panicked"}

Init ==
    /\ pc = "send"
    /\ sent = 0 /\ taken = 0
    /\ wpc = [w \in Workers |-> "ready"]
    /\ cur = [w \in Workers |-> 0]
    /\ output = [w \in Workers |-> NoResult]
    /\ results = {}
    /\ closed = FALSE
    /\ slots = [i \in 1..N |-> NoResult]
    /\ errors = {}
    /\ cancelled = FALSE

\* A message of the results channel; index is 0 for the -1 of a panic.  of
\* is a ghost: the job whose worker sent it.
Message(kind, index, of, result) ==
    [kind |-> kind, index |-> index, of |-> of, result |-> result]
Room == Cardinality(results) < N

-----------------------------------------------------------------------------
(* The caller and the goroutine that waits for the workers.                 *)

SendJob ==
    /\ pc = "send" /\ sent < N
    /\ sent' = sent + 1
    /\ UNCHANGED <<pc, taken, wpc, cur, output, results, closed, slots, errors, cancelled>>

CloseJobs ==
    /\ pc = "send" /\ sent = N
    /\ pc' = "collect"
    /\ UNCHANGED <<sent, taken, wpc, cur, output, results, closed, slots, errors, cancelled>>

\* Mutant: the results are closed once the jobs are taken.
AllTaken == taken = N
\* Mutant: wg.Done is not deferred.
AllExited == \A w \in Workers : wpc[w] = "exited"
AllLeft == \A w \in Workers : wpc[w] \in Left

CloseResults ==
    /\ pc # "send" /\ ~closed
    /\ AllLeft
    /\ closed' = TRUE
    /\ UNCHANGED <<callerVars, taken, wpc, cur, output, results, cancelled>>

SlotOf(m) == m.index

Collect ==
    /\ pc = "collect"
    /\ \E m \in results :
         /\ results' = results \ {m}
         /\ IF m.kind = "result"
              THEN slots' = [slots EXCEPT ![SlotOf(m)] = m.result] /\ UNCHANGED errors
              ELSE errors' = errors \cup {m} /\ UNCHANGED slots
    /\ UNCHANGED <<pc, sent, taken, wpc, cur, output, closed, cancelled>>

Finish ==
    /\ pc = "collect" /\ closed /\ results = {}
    /\ pc' = "done"
    /\ UNCHANGED <<sent, taken, wpc, cur, output, results, closed, slots, errors, cancelled>>

Cancel ==
    /\ ~cancelled
    /\ cancelled' = TRUE
    /\ UNCHANGED <<callerVars, taken, wpc, cur, output, results, closed>>

-----------------------------------------------------------------------------
(* A worker.                                                                *)

Goto(w, where) == wpc' = [wpc EXCEPT ![w] = where]

TakeJob(w) ==
    /\ wpc[w] = "ready" /\ taken < sent
    /\ taken' = taken + 1
    /\ cur' = [cur EXCEPT ![w] = taken + 1]
    /\ Goto(w, "check")
    /\ UNCHANGED <<callerVars, output, results, closed, cancelled>>

StartTemplate(w) ==
    /\ wpc[w] = "check" /\ ~cancelled
    /\ Goto(w, "execute")
    /\ UNCHANGED <<callerVars, taken, cur, output, results, closed, cancelled>>

\* Mutant: the worker goes on to the next job and says nothing.
SkipSilently(w) == results' = results

AfterRefusal == "ready"

SayCancelled(w) == results' = results \cup {Message("cancelled", cur[w], cur[w], NoResult)}

RefuseTemplate(w) ==
    /\ wpc[w] = "check" /\ cancelled
    /\ Room
    /\ SayCancelled(w)
    /\ Goto(w, AfterRefusal)
    /\ UNCHANGED <<callerVars, taken, cur, output, closed, cancelled>>

Execute(w) ==
    /\ wpc[w] = "execute"
    /\ \E r \in Produced[Templates[cur[w]]] : output' = [output EXCEPT ![w] = r]
    /\ Goto(w, "report")
    /\ UNCHANGED <<callerVars, taken, cur, results, closed, cancelled>>

Report(w) ==
    /\ wpc[w] = "report"
    /\ Room
    /\ results' = results \cup {Message("result", cur[w], cur[w], output[w])}
    /\ output' = [output EXCEPT ![w] = NoResult]
    /\ Goto(w, "ready")
    /\ UNCHANGED <<callerVars, taken, cur, closed, cancelled>>

\* The deferred function reports the panic if the channel has room.
Recover(w) ==
    IF Room THEN results' = results \cup {Message("panic", 0, cur[w], NoResult)}
            ELSE results' = results

WorkerPanics(w) ==
    /\ wpc[w] = "execute" /\ cur[w] \in Fragile
    /\ Recover(w)
    /\ Goto(w, "panicked")
    /\ UNCHANGED <<callerVars, taken, cur, output, closed, cancelled>>

\* Mutant: a worker leaves as soon as it finds no job.
NoJobNow == taken = sent
NoMoreJobs == pc # "send" /\ taken = sent

Exit(w) ==
    /\ wpc[w] = "ready" /\ NoMoreJobs
    /\ Goto(w, "exited")
    /\ UNCHANGED <<callerVars, taken, cur, output, results, closed, cancelled>>

-----------------------------------------------------------------------------
Worker(w) ==
    \/ TakeJob(w) \/ StartTemplate(w) \/ RefuseTemplate(w)
    \/ Execute(w) \/ Report(w) \/ WorkerPanics(w) \/ Exit(w)
Caller == SendJob \/ CloseJobs \/ Collect \/ Finish

Next == Caller \/ CloseResults \/ Cancel \/ (\E w \in Workers : Worker(w))

Spec == Init /\ [][Next]_vars

\* Goroutines are scheduled, and every step of a template has a timeout.
FairSpec ==
    /\ Spec
    /\ WF_vars(Caller) /\ WF_vars(CloseResults)
    /\ \A w \in Workers : WF_vars(Worker(w))

-----------------------------------------------------------------------------
(* Correctness.                                                             *)

IsOutput(r) == \E i \in 1..N : r.template = Templates[i]
IsMessage(m) ==
    /\ m = Message(m.kind, m.index, m.of, m.result)
    /\ m.of \in 1..N
    /\ IF m.kind = "result" THEN m.index = m.of /\ IsOutput(m.result)
                            ELSE m.kind \in {"cancelled", "panic"} /\ m.result = NoResult

CallerTypeOK ==
    /\ pc \in {"send", "collect", "done"}
    /\ sent \in 0..N /\ taken \in 0..sent
    /\ closed \in BOOLEAN /\ cancelled \in BOOLEAN
WorkerTypeOK ==
    /\ wpc \in [Workers -> {"ready"} \cup Busy \cup Left]
    /\ cur \in [Workers -> 0..taken]
    /\ \A w \in Workers : wpc[w] \in Busy => cur[w] # 0
AnswerTypeOK ==
    /\ \A m \in results \cup errors : IsMessage(m)
    /\ slots = [i \in 1..N |-> slots[i]]
    /\ \A i \in 1..N : slots[i] = NoResult \/ IsOutput(slots[i])

\* Every variable stays in its domain, and a worker that has a job has one
\* that was sent (pool.go:92-120).
TypeOK == CallerTypeOK /\ WorkerTypeOK /\ AnswerTypeOK

\* "Returns results in the same order as the input templates" (pool.go:62).
ResultsInOrder ==
    \A i \in 1..N : slots[i] # NoResult => slots[i].template = Templates[i]

\* When the pool returns, each template has a result or an error of its own,
\* unless all workers panicked and left it over, and the error of every panic
\* is among those returned.
Answered(i) == slots[i] # NoResult \/ \E m \in errors : m.of = i
PanicReported(w) == \E m \in errors : m.kind = "panic" /\ m.of = cur[w]
EveryTemplateAnswered ==
    pc = "done" =>
        /\ (\A i \in 1..N : Answered(i)) \/ (\A w \in Workers : wpc[w] = "panicked")
        /\ \A w \in Workers : wpc[w] = "panicked" => PanicReported(w)

\* No template is answered twice, whoever ran it, cancelled it or panicked.
OneAnswerEach ==
    /\ \A m, n \in results \cup errors : m.of = n.of => m = n
    /\ \A m \in results \cup errors : slots[m.of] = NoResult

\* Every template is answered, in its place and once, whichever worker ran,
\* refused or panicked on it.
EachAnsweredOnce == ResultsInOrder /\ OneAnswerEach /\ EveryTemplateAnswered

\* A worker that has a job finds room in the results channel, although the
\* caller may not read yet: no send blocks, and no panic goes unreported.
NeverFull == \A w \in Workers : wpc[w] \in Busy => Room

\* No worker can send on a closed channel.
ClosedAfterLast == closed => \A w \in Workers : wpc[w] \in Left

\* The results channel never blocks a worker that has something to send, and
\* is closed after the last send.
ResultsChannelSafe == NeverFull /\ ClosedAfterLast

\* The pool returns, cancelled or not, whichever workers panic.
PoolReturns == <>(pc = "done")
=============================================================================
