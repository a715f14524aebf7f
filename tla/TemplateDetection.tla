-------------------------- MODULE TemplateDetection --------------------------
(***************************************************************************)
(* ExecuteTemplates of internal/detect/template/executor.go: a goroutine   *)
(* per template, a semaphore that lets MaxConcurrency of them run, and the *)
(* caller that waits for all.  A running template collects evidence with   *)
(* the hash calculator, the registry reader or the configuration reader,   *)
(* one look at the machine per step, and then evaluates its conditions;    *)
(* the condition on the execute bit looks at the machine again.            *)
(*                                                                         *)
(* The files and the registry keys are places of one machine.  What a      *)
(* place holds is a set of lines; two files have the same hash only if     *)
(* they hold the same lines, and a regular expression is the set of the    *)
(* lines it matches.  A registry key holds at most one line, its value.    *)
(***************************************************************************)
EXTENDS Integers, Sequences, FiniteSets

CONSTANTS
    Texts,           \* what a file may hold, each a set of lines
    Values,          \* data of a registry value
    FilePlaces,      \* paths
    KeyPlaces,       \* registry keys
    Absent,          \* there is no such file or key
    Denied,          \* os.Stat and Test-Path fail, there may be something
    Batches,         \* the sequences of templates the engine is called with
    MaxConcurrency,  \* te.maxConcurrency
    MaxChanges       \* bound: changes of the machine during one call

Places == FilePlaces \cup KeyPlaces

\* A target has the platform of this machine, "here", and a place; "lines" is
\* what its hash or its pattern stands for.
TargetRecords == [place : Places, lines : SUBSET (Values \cup UNION Texts), negate : BOOLEAN, here : BOOLEAN]
ConditionRecords == [type : STRING, value : BOOLEAN]
TemplateRecords == [type : STRING, targets : Seq(TargetRecords), conditions : Seq(ConditionRecords)]

ASSUME DetectionAssumption ==
    /\ FilePlaces \cap KeyPlaces = {} /\ Absent # Denied
    /\ \A called \in Batches : called \in Seq(TemplateRecords)
    /\ MaxConcurrency \in Nat \ {0} /\ MaxChanges \in Nat

VARIABLES
    machine,     \* what every place holds
    changes,     \* number of its changes
    batch,       \* platformTemplates
    caller,      \* ExecuteTemplates: "waiting" for done, or "returned"
    done,        \* messages taken from the done channel and left in it
    pc,          \* place of each goroutine
    at,          \* the target, then the condition, it is at
    look,        \* the piece of evidence it is at, for that condition
    evidence,    \* result.Evidence
    met,         \* conditionsMet
    expired,     \* execCtx is done
    result,      \* results
    seen,        \* history: all that every place has held since the call
    failed       \* history: the templates of which a look has failed

vars == <<machine, changes, batch, caller, done, pc, at, look, evidence, met, expired, result, seen, failed>>
world == <<machine, changes, seen>>
call == <<batch, caller, done>>

Things(place) == IF place \in KeyPlaces
                 THEN [lines : {{}} \cup {{v} : v \in Values}, executable : {FALSE}]
                 ELSE [lines : Texts, executable : BOOLEAN]
Contents(place) == Things(place) \cup {Absent, Denied}
Found(content) == content \notin {Absent, Denied}

\* The elements of a sequence at the given indices, in their order.
Kept(elements, indices) ==
    LET upTo[n \in 0..Len(elements)] ==
          IF n = 0 THEN <<>>
          ELSE IF n \in indices THEN Append(upTo[n - 1], elements[n]) ELSE upTo[n - 1]
    IN  upTo[Len(elements)]

\* The targets left after those for another platform are skipped; the files of
\* a configuration template are for every platform.
Here(template) ==
    IF template.type = "config-file" THEN template.targets
    ELSE Kept(template.targets, {t \in DOMAIN template.targets : template.targets[t].here})

Applicable(template) == Here(template) # <<>>
PlatformTemplates(called) == Kept(called, {i \in DOMAIN called : Applicable(called[i])})

NoResult == [error |-> FALSE, vulnerable |-> FALSE, present |-> FALSE]
Failure == [error |-> TRUE, vulnerable |-> FALSE, present |-> TRUE]
Answer(vulnerable) == [error |-> FALSE, vulnerable |-> vulnerable, present |-> TRUE]

Jobs == DOMAIN batch
Type(i) == batch[i].type
Targets(i) == Here(batch[i])
Conditions(i) == batch[i].conditions
Target(i) == Targets(i)[at[i]]

\* The places that some template of the call looks at; the others are left
\* out of the machine.
Watched == {p \in Places : \E i \in Jobs : \E t \in 1..Len(Targets(i)) : Targets(i)[t].place = p}

Init ==
    /\ \E called \in Batches : batch = PlatformTemplates(called)
    /\ machine \in [Places -> UNION {Contents(p) : p \in Places}]
    /\ \A p \in Places : machine[p] \in IF p \in Watched THEN Contents(p) ELSE {Absent}
    /\ changes = 0 /\ seen = [p \in Places |-> {machine[p]}]
    /\ caller = "waiting" /\ done = 0
    /\ pc = [i \in Jobs |-> "queued"]
    /\ at = [i \in Jobs |-> 1] /\ look = [i \in Jobs |-> 1]
    /\ evidence = [i \in Jobs |-> <<>>] /\ met = [i \in Jobs |-> 0]
    /\ expired = [i \in Jobs |-> FALSE]
    /\ result = [i \in Jobs |-> NoResult]
    /\ failed = {}

\* The users of the machine write, remove and replace what is looked at.
Change ==
    /\ caller = "waiting" /\ changes < MaxChanges
    /\ \E p \in Watched : \E content \in Contents(p) \ {machine[p]} :
         /\ machine' = [machine EXCEPT ![p] = content]
         /\ seen' = [seen EXCEPT ![p] = @ \cup {content}]
    /\ changes' = changes + 1
    /\ UNCHANGED <<call, pc, at, look, evidence, met, expired, result, failed>>

(***************************************************************************)
(* The goroutines.  Running is the number of tokens in the semaphore; the  *)
(* deferred function takes the token out and then reports to the caller.   *)
(***************************************************************************)
Running == {i \in Jobs : pc[i] \notin {"queued", "report", "ended"}}

Goto(i, place) == pc' = [pc EXCEPT ![i] = place]

\* executeFileHashDetection with no target for this platform, and a type
\* that the switch of ExecuteTemplate does not know.
Refused(i) ==
    \/ Type(i) \notin {"file-hash", "registry", "config-file"}
    \/ Type(i) \in {"file-hash", "registry"} /\ Targets(i) = <<>>

Acquire(i) ==
    /\ pc[i] = "queued"
    /\ Cardinality(Running) < MaxConcurrency
    /\ IF Refused(i)
       THEN /\ result' = [result EXCEPT ![i] = Failure]
            /\ Goto(i, "release")
       ELSE /\ Goto(i, "check")
            /\ UNCHANGED result
    /\ UNCHANGED <<world, call, at, look, evidence, met, expired, failed>>

\* The 30 seconds of execCtx have passed.
Expire(i) ==
    /\ pc[i] \in {"check", "read"} /\ ~expired[i]
    /\ expired' = [expired EXCEPT ![i] = TRUE]
    /\ failed' = failed \cup {i}
    /\ UNCHANGED <<world, call, pc, at, look, evidence, met, result>>

(***************************************************************************)
(* Collecting evidence: of a target it is first asked whether it is there, *)
(* and what it holds in a later step.  A check that fails leaves evidence  *)
(* like one that found nothing.                                            *)
(***************************************************************************)
Record(i, exists, matches) ==
    /\ evidence' = [evidence EXCEPT ![i] = Append(@, [place |-> Target(i).place, exists |-> exists, matches |-> matches])]
    /\ IF at[i] = Len(Targets(i))
       THEN at' = [at EXCEPT ![i] = 1] /\ Goto(i, "evaluate")
       ELSE at' = [at EXCEPT ![i] = @ + 1] /\ Goto(i, "check")

LookedAt(i) == machine[Target(i).place]

\* What is there is read in the next step, what is not is recorded.
Look(i, there) ==
    /\ IF there THEN Goto(i, "read") /\ UNCHANGED <<at, evidence>> ELSE Record(i, FALSE, FALSE)
    /\ UNCHANGED <<world, call, look, met, expired, result, failed>>

Read(i, matches) ==
    /\ Record(i, TRUE, matches)
    /\ UNCHANGED <<world, call, look, met, expired, result, failed>>

ReadFails(i) ==
    /\ Record(i, TRUE, FALSE)
    /\ failed' = failed \cup {i}
    /\ UNCHANGED <<world, call, look, met, expired, result>>

(***************************************************************************)
(* Files with a known hash: BatchHashCheck takes any error of os.Stat but  *)
(* "not exist" for a file that is there, and looks at no deadline.         *)
(***************************************************************************)
HashStat(i) == pc[i] = "check" /\ Look(i, LookedAt(i) # Absent)

\* Mutant: the hash of a file that could not be read compares as equal.
SameHashOrNone(target, content) == Found(content) => content.lines = target.lines

SameHash(target, content) == Found(content) /\ content.lines = target.lines

HashRead(i) == pc[i] = "read" /\ Read(i, SameHash(Target(i), LookedAt(i)))

\* The file cannot be opened or read, or the algorithm is not known.
HashReadFails(i) == pc[i] = "read" /\ ReadFails(i)

HashJob(i) ==
    /\ Type(i) = "file-hash"
    /\ HashStat(i) \/ HashRead(i) \/ HashReadFails(i)

(***************************************************************************)
(* Registry keys: every look is a process of PowerShell, killed at the     *)
(* deadline; one that fails leaves the evidence of a missing key or value. *)
(* Between two keys the expired context ends the check without a verdict.  *)
(***************************************************************************)
KeyCheck(i) == pc[i] = "check" /\ ~expired[i] /\ Look(i, Found(LookedAt(i)))

KeyCheckFails(i) ==
    /\ pc[i] = "check" /\ ~expired[i]
    /\ Record(i, FALSE, FALSE)
    /\ failed' = failed \cup {i}
    /\ UNCHANGED <<world, call, look, met, expired, result>>

KeyRead(i) ==
    /\ pc[i] = "read" /\ ~expired[i]
    /\ Read(i, Found(LookedAt(i)) /\ LookedAt(i).lines \cap Target(i).lines # {})

\* PowerShell fails or is killed, or the pattern is no expression.
KeyReadFails(i) == pc[i] = "read" /\ ReadFails(i)

RegistryExpires(i) ==
    /\ pc[i] = "check" /\ expired[i]
    /\ result' = [result EXCEPT ![i] = Failure]
    /\ Goto(i, "release")
    /\ UNCHANGED <<world, call, at, look, evidence, met, expired, failed>>

RegistryJob(i) ==
    /\ Type(i) = "registry"
    /\ \/ KeyCheck(i) \/ KeyCheckFails(i) \/ RegistryExpires(i)
       \/ KeyRead(i) \/ KeyReadFails(i)

(***************************************************************************)
(* Configuration files: every line is tried with the pattern, which may be *)
(* negated; an error on the way drops the matches found so far.            *)
(***************************************************************************)
ConfigStat(i) == pc[i] = "check" /\ Look(i, Found(LookedAt(i)))

\* Mutant: the negation of a pattern is forgotten.
SelectedPlainly(target, line) == line \in target.lines

Selected(target, line) == (line \in target.lines) # target.negate

ConfigRead(i) ==
    /\ pc[i] = "read" /\ ~expired[i]
    /\ Read(i, Found(LookedAt(i)) /\ \E line \in LookedAt(i).lines : Selected(Target(i), line))

\* The file is too large, binary or unreadable, an expression is invalid, or
\* the deadline has passed.
ConfigReadFails(i) == pc[i] = "read" /\ ReadFails(i)

ConfigJob(i) ==
    /\ Type(i) = "config-file"
    /\ ConfigStat(i) \/ ConfigRead(i) \/ ConfigReadFails(i)

(***************************************************************************)
(* Evaluating the conditions: one is met by the first piece of evidence    *)
(* that has the value it expects.                                          *)
(***************************************************************************)
FileIs(place, executable) ==
    /\ machine[place] # Denied
    /\ executable = (Found(machine[place]) /\ machine[place].executable)

\* file-exists, hash-match and file-executable; only the last one looks again.
FileMeets(condition, piece) ==
    \/ condition.type = "exists" /\ piece.exists = condition.value
    \/ condition.type = "matches" /\ piece.matches = condition.value
    \/ condition.type = "executable" /\ piece.exists /\ FileIs(piece.place, condition.value)

\* key-exists and value-matches-pattern.
KeyMeets(condition, piece) ==
    \/ condition.type = "exists" /\ piece.exists = condition.value
    \/ condition.type = "matches" /\ piece.matches = condition.value

\* pattern-found: the context of a configuration file carries its matches only
\* if it has some, so that no evidence can show that a pattern was not found.
PatternMeets(condition, piece) == condition.type = "matches" /\ piece.matches /\ condition.value

Meets(i, condition, piece) ==
    \/ Type(i) = "file-hash" /\ FileMeets(condition, piece)
    \/ Type(i) = "registry" /\ KeyMeets(condition, piece)
    \/ Type(i) = "config-file" /\ PatternMeets(condition, piece)

NextCondition(i) == at' = [at EXCEPT ![i] = @ + 1] /\ look' = [look EXCEPT ![i] = 1]

Evaluate(i) ==
    /\ pc[i] = "evaluate" /\ at[i] <= Len(Conditions(i))
    /\ IF Meets(i, Conditions(i)[at[i]], evidence[i][look[i]])
       THEN met' = [met EXCEPT ![i] = @ + 1] /\ NextCondition(i)
       ELSE /\ IF look[i] = Len(evidence[i]) THEN NextCondition(i)
               ELSE look' = [look EXCEPT ![i] = @ + 1] /\ UNCHANGED at
            /\ UNCHANGED met
    /\ UNCHANGED <<world, call, pc, evidence, expired, result, failed>>

\* Without conditions the confidence stays 0, below the 0.8 required.
Vulnerable(hits, total) == hits = total /\ total > 0

Conclude(i) ==
    /\ pc[i] = "evaluate" /\ at[i] > Len(Conditions(i))
    /\ result' = [result EXCEPT ![i] = Answer(Vulnerable(met[i], Len(Conditions(i))))]
    /\ Goto(i, "release")
    /\ UNCHANGED <<world, call, at, look, evidence, met, expired, failed>>

Release(i) ==
    /\ pc[i] = "release"
    /\ Goto(i, "report")
    /\ UNCHANGED <<world, call, at, look, evidence, met, expired, result, failed>>

\* Mutant: a goroutine whose template has an error returns before it reports.
ReportSuccess(i) ==
    /\ pc[i] = "report"
    /\ done' = IF result[i].error THEN done ELSE done + 1
    /\ Goto(i, "ended")
    /\ UNCHANGED <<world, batch, caller, at, look, evidence, met, expired, result, failed>>

\* The done channel has room for every goroutine: the send never waits.
Report(i) ==
    /\ pc[i] = "report"
    /\ done' = done + 1
    /\ Goto(i, "ended")
    /\ UNCHANGED <<world, batch, caller, at, look, evidence, met, expired, result, failed>>

\* Mutant: the caller waits once less than there are templates.
ReturnOneEarly ==
    /\ caller = "waiting" /\ done + 1 >= Len(batch)
    /\ caller' = "returned"
    /\ UNCHANGED <<world, batch, done, pc, at, look, evidence, met, expired, result, failed>>

\* The caller has received from done once for every template.
Return ==
    /\ caller = "waiting" /\ done = Len(batch)
    /\ caller' = "returned"
    /\ UNCHANGED <<world, batch, done, pc, at, look, evidence, met, expired, result, failed>>

Work(i) ==
    \/ Acquire(i) \/ HashJob(i) \/ RegistryJob(i) \/ ConfigJob(i)
    \/ Evaluate(i) \/ Conclude(i) \/ Release(i) \/ Report(i)

Next == Change \/ Return \/ \E i \in Jobs : Work(i) \/ Expire(i)

Spec == Init /\ [][Next]_vars

\* The scheduler runs every goroutine; the machine and the clock owe nothing.
Slots == UNION {DOMAIN called : called \in Batches}
FairSpec == Spec /\ WF_vars(Return) /\ \A i \in Slots : WF_vars(i \in Jobs /\ Work(i))

-----------------------------------------------------------------------------
TypeOK ==
    /\ \A p \in Places : machine[p] \in seen[p] /\ seen[p] \subseteq Contents(p)
    /\ changes \in 0..MaxChanges
    /\ caller \in {"waiting", "returned"} /\ done \in 0..Len(batch)
    /\ pc \in [Jobs -> {"queued", "check", "read", "evaluate", "release", "report", "ended"}]
    /\ \A i \in Jobs :
         /\ pc[i] \in {"check", "read"} => at[i] \in 1..Len(Targets(i))
         /\ met[i] \in 0..Len(Conditions(i)) /\ Len(evidence[i]) <= Len(Targets(i))
         /\ result[i] \in {NoResult, Failure, Answer(TRUE), Answer(FALSE)}
    /\ expired \in [Jobs -> BOOLEAN] /\ failed \subseteq Jobs

\* What a condition says of a target that holds the given content.
Fits(i, target, content) ==
    /\ Found(content)
    /\ IF Type(i) = "file-hash" THEN content.lines = target.lines
       ELSE IF Type(i) = "config-file" /\ target.negate THEN ~(content.lines \subseteq target.lines)
       ELSE content.lines \cap target.lines # {}

There(i, content) == IF Type(i) = "file-hash" THEN content # Absent ELSE Found(content)

Shows(i, condition, target, content) ==
    \/ condition.type = "exists" /\ Type(i) # "config-file" /\ There(i, content) = condition.value
    \/ /\ condition.type = "executable" /\ Type(i) = "file-hash"
       /\ Found(content) /\ content.executable = condition.value
    \/ /\ condition.type = "matches" /\ Fits(i, target, content) = condition.value
       /\ Type(i) = "config-file" => condition.value

\* A template is reported as vulnerable only with a reason: it has
\* conditions, and each one that asks for something to be there held, at some
\* moment of the call, for one of its targets; an interrupted or failed check
\* never stands for it.  (A condition that asks for the absence of something
\* is also met by a check that failed, and two conditions may be met by two
\* different targets.)
VulnerableIsWitnessed ==
    \A i \in Jobs : result[i].vulnerable =>
        /\ Conditions(i) # <<>>
        /\ \A c \in 1..Len(Conditions(i)) : Conditions(i)[c].value =>
             \E t \in 1..Len(Targets(i)) : \E content \in seen[Targets(i)[t].place] :
               Shows(i, Conditions(i)[c], Targets(i)[t], content)

\* On a machine that nobody changes, and when no look fails, the looks of the
\* goroutines add up to the verdict that the template defines: every
\* condition holds for some target.
UndisturbedIsExact ==
    \A i \in Jobs \ failed : changes = 0 /\ result[i].present =>
        result[i].vulnerable =
            (/\ ~Refused(i) /\ Conditions(i) # <<>>
             /\ \A c \in 1..Len(Conditions(i)) : \E t \in 1..Len(Targets(i)) :
                  Shows(i, Conditions(i)[c], Targets(i)[t], machine[Targets(i)[t].place]))

\* ExecuteTemplates returns only when every template has its result and no
\* goroutine of it is left, and at no time do more than MaxConcurrency run.
ReturnsComplete ==
    /\ caller = "returned" => \A i \in Jobs : pc[i] = "ended" /\ result[i].present
    /\ Cardinality(Running) <= MaxConcurrency
    /\ \A i \in Jobs : pc[i] \in {"queued", "check", "read", "evaluate"} => ~result[i].present

\* The call always comes back, whatever fails or expires.
CallReturns == <>(caller = "returned")
=============================================================================
