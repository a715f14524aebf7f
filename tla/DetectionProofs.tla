--------------------------- MODULE DetectionProofs ---------------------------
(***************************************************************************)
(* Proofs about the two detection engines.  Templates: for any templates,  *)
(* machine, number of changes and limit of goroutines, a verdict has a     *)
(* witness and, on a quiet machine, is exact.  Scripts: for any scripts,   *)
(* platforms, size of a pipe and number of calls, what runs is what was    *)
(* loaded and what is answered is drawn from all of its output.            *)
(***************************************************************************)
EXTENDS TemplateDetection, ScriptRun, FiniteSetTheorems, WellFoundedInduction, TLAPS

\* A set of numbers has a smallest one.
LEMMA LeastNumber ==
    ASSUME NEW T, T \subseteq Nat, T # {}
    PROVE  \E x \in T : \A y \in T : x <= y
<1>1. PICK x \in T : \A y \in T : <<y, x>> \notin OpToRel(<, Nat)
  BY NatLessThanWellFounded, WFMin, Zenon
<1>2. \A y \in T : ~(y < x)
  BY <1>1 DEF OpToRel
<1> QED BY <1>2

-----------------------------------------------------------------------------
(***************************************************************************)
(* Templates.  The invariant of the engine: what a goroutine keeps is      *)
(* typed (JobTypes), agrees with its place in the code (Position), was     *)
(* true at some moment of the call (Founded) and, on a quiet machine, is   *)
(* true now (Exact); the caller and the semaphore count the goroutines     *)
(* (Counted).                                                              *)
(***************************************************************************)
Pieces == [place : Places, exists : BOOLEAN, matches : BOOLEAN]
Known(i) == Type(i) \in {"file-hash", "registry", "config-file"}

Something == UNION {Contents(p) : p \in Places}

CallTypes ==
    /\ batch \in Seq(TemplateRecords)
    /\ \A i \in Jobs : Targets(i) \in Seq(TargetRecords) /\ Targets(i) # <<>>
    /\ caller \in {"waiting", "returned"} /\ done \in Nat
WorldTypes ==
    /\ machine \in [Places -> Something] /\ seen \in [Places -> SUBSET Something]
    /\ \A p \in Places : machine[p] \in seen[p] /\ seen[p] \subseteq Contents(p)
    /\ changes \in 0..MaxChanges
JobTypes ==
    /\ pc \in [Jobs -> {"queued", "check", "read", "evaluate", "release", "report", "ended"}]
    /\ at \in [Jobs -> Nat] /\ look \in [Jobs -> Nat] /\ met \in [Jobs -> Nat]
    /\ evidence \in [Jobs -> Seq(Pieces)]
    /\ expired \in [Jobs -> BOOLEAN] /\ failed \subseteq Jobs
    /\ result \in [Jobs -> {NoResult, Failure, Answer(TRUE), Answer(FALSE)}]

Early == {"queued", "check", "read", "evaluate"}

Position(i) ==
    /\ pc[i] = "queued" => at[i] = 1 /\ look[i] = 1 /\ evidence[i] = <<>> /\ met[i] = 0
    /\ pc[i] \in {"check", "read"} =>
         /\ Known(i) /\ at[i] \in 1..Len(Targets(i)) /\ Len(evidence[i]) = at[i] - 1
         /\ look[i] = 1 /\ met[i] = 0
    /\ pc[i] = "evaluate" =>
         /\ Known(i) /\ at[i] \in 1..(Len(Conditions(i)) + 1) /\ Len(evidence[i]) = Len(Targets(i))
         /\ look[i] \in 1..Len(Targets(i)) /\ met[i] <= at[i] - 1
    /\ met[i] <= Len(Conditions(i)) /\ Len(evidence[i]) <= Len(Targets(i))
    /\ pc[i] \in Early => result[i] = NoResult
    /\ pc[i] \notin Early => result[i] # NoResult

\* What a place held at some moment of the call, and what it holds.
ThereOnce(i, k) == \E content \in seen[Targets(i)[k].place] : There(i, content)
FitOnce(i, k) == \E content \in seen[Targets(i)[k].place] : Fits(i, Targets(i)[k], content)
ShownOnce(i, c) ==
    \E t \in 1..Len(Targets(i)) : \E content \in seen[Targets(i)[t].place] :
      Shows(i, Conditions(i)[c], Targets(i)[t], content)
Witnessed(i) ==
    /\ Conditions(i) # <<>>
    /\ \A c \in 1..Len(Conditions(i)) : Conditions(i)[c].value => ShownOnce(i, c)

EvidenceFounded(i) ==
    \A k \in 1..Len(evidence[i]) :
      /\ evidence[i][k].place = Targets(i)[k].place
      /\ evidence[i][k].exists => ThereOnce(i, k)
      /\ evidence[i][k].matches => FitOnce(i, k)
ReadFounded(i) == \A k \in 1..Len(Targets(i)) : pc[i] = "read" /\ at[i] = k => ThereOnce(i, k)
HitsFounded(i) ==
    pc[i] = "evaluate" /\ met[i] = at[i] - 1 =>
      \A c \in 1..(at[i] - 1) : Conditions(i)[c].value => ShownOnce(i, c)
VerdictFounded(i) == result[i].vulnerable => Witnessed(i)

Founded(i) == EvidenceFounded(i) /\ ReadFounded(i) /\ HitsFounded(i) /\ VerdictFounded(i)

ThereNow(i, k) == There(i, machine[Targets(i)[k].place])
FitsNow(i, k) == Fits(i, Targets(i)[k], machine[Targets(i)[k].place])
Shown(i, c, t) == Shows(i, Conditions(i)[c], Targets(i)[t], machine[Targets(i)[t].place])
Holds(i, c) == \E t \in 1..Len(Targets(i)) : Shown(i, c, t)
Decision(i) == ~Refused(i) /\ Conditions(i) # <<>> /\ \A c \in 1..Len(Conditions(i)) : Holds(i, c)

EvidenceExact(i) ==
    \A k \in 1..Len(evidence[i]) :
      (evidence[i][k].exists <=> ThereNow(i, k)) /\ (evidence[i][k].matches <=> FitsNow(i, k))
ReadExact(i) == \A k \in 1..Len(Targets(i)) : pc[i] = "read" /\ at[i] = k => ThereNow(i, k)
HitsExact(i) ==
    pc[i] = "evaluate" =>
      /\ met[i] = at[i] - 1 <=> \A c \in 1..(at[i] - 1) : Holds(i, c)
      /\ \A c \in 1..Len(Conditions(i)) : at[i] = c => \A t \in 1..(look[i] - 1) : ~Shown(i, c, t)
VerdictExact(i) == result[i].present => (result[i].vulnerable <=> Decision(i))

Exact(i) == EvidenceExact(i) /\ ReadExact(i) /\ HitsExact(i) /\ VerdictExact(i)

Findings ==
    /\ \A i \in Jobs : Position(i) /\ Founded(i) /\ (expired[i] => i \in failed)
    /\ changes = 0 => \A i \in Jobs \ failed : Exact(i)

EndedJobs == {i \in Jobs : pc[i] = "ended"}
Counted ==
    /\ done = Cardinality(EndedJobs)
    /\ Cardinality(Running) <= MaxConcurrency
    /\ caller = "returned" => EndedJobs = Jobs

EngineInv == CallTypes /\ WorldTypes /\ JobTypes /\ Findings /\ Counted

\* What Kept picks are elements of the sequence at the given indices.
LEMMA KeptIs ==
    ASSUME NEW S, NEW elements \in Seq(S), NEW indices
    PROVE  /\ Kept(elements, indices) \in Seq(S)
           /\ \A k \in 1..Len(Kept(elements, indices)) :
                \E j \in indices : j \in 1..Len(elements) /\ Kept(elements, indices)[k] = elements[j]
<1> DEFINE After(g, n) ==
             IF n = 0 THEN <<>> ELSE IF n \in indices THEN Append(g[n - 1], elements[n]) ELSE g[n - 1]
           Is(g, m) == g = [n \in 0..m |-> After(g, n)]
           Picked(s) == /\ s \in Seq(S)
                        /\ \A k \in 1..Len(s) :
                             \E j \in indices : j \in 1..Len(elements) /\ s[k] = elements[j]
<1>1. PICK last \in Nat : last = Len(elements)
  OBVIOUS
<1>2. PICK f : f = CHOOSE g : Is(g, last)
  OBVIOUS
<1>3. Kept(elements, indices) = f[last]
  BY <1>1, <1>2 DEF Kept
<1>4. Is([n \in 0..0 |-> <<>>], 0)
  OBVIOUS
<1>5. ASSUME NEW m \in Nat, NEW g, Is(g, m)
      PROVE  \E h : Is(h, m + 1)
  <2>1. PICK h : h = [n \in 0..(m + 1) |-> IF n = m + 1 THEN After(g, m + 1) ELSE g[n]]
    OBVIOUS
  <2>2. \A n \in 0..m : g[n] = After(g, n)
    <3> HIDE DEF After
    <3> QED BY <1>5
  <2>3. ASSUME NEW n \in 0..(m + 1)
        PROVE  h[n] = After(h, n)
    <3>1. n # 0 => h[n - 1] = g[n - 1]
      BY <2>1
    <3>2. h[n] = After(g, n)
      <4>1. CASE n = m + 1
        <5> HIDE DEF After
        <5> QED BY <2>1, <4>1
      <4>2. CASE n # m + 1
        <5>1. n \in 0..m
          BY <4>2
        <5> HIDE DEF After
        <5> QED BY <2>1, <2>2, <4>2, <5>1
      <4> QED BY <4>1, <4>2
    <3> QED BY <3>1, <3>2
  <2>4. Is(h, m + 1)
    <3> HIDE DEF After
    <3> QED BY <2>1, <2>3
  <2> QED BY <2>4
<1>6. ASSUME NEW m \in Nat
      PROVE  \E g : Is(g, m)
  <2> HIDE DEF Is
  <2> DEFINE T == {k \in Nat : ~\E g : Is(g, k)}
  <2>1. SUFFICES ASSUME T # {} PROVE FALSE
    OBVIOUS
  <2>2. T \subseteq Nat
    OBVIOUS
  <2>3. PICK k \in T : \A l \in T : k <= l
    <3> HIDE DEF T
    <3> QED BY <2>1, <2>2, LeastNumber
  <2>4. k # 0
    BY <1>4
  <2>5. k \in Nat /\ ~\E g : Is(g, k)
    OBVIOUS
  <2>6. k - 1 \in Nat /\ k - 1 + 1 = k
    BY <2>4, <2>5
  <2>7. k - 1 \notin T
    <3> HIDE DEF T
    <3> QED BY <2>3, <2>5, <2>6
  <2>8. PICK g : Is(g, k - 1)
    BY <2>6, <2>7
  <2>9. \E h : Is(h, k - 1 + 1)
    BY <1>5, <2>6, <2>8
  <2> QED BY <2>5, <2>6, <2>9
<1>7. Is(f, last)
  <2> HIDE DEF Is
  <2> QED BY <1>2, <1>6
<1>8. \A n \in 0..last : f[n] = After(f, n)
  <2> HIDE DEF After
  <2> QED BY <1>7
<1>9. Picked(f[0])
  <2>1. f[0] = <<>>
    BY <1>8
  <2> QED BY <2>1
<1>10. ASSUME NEW n \in Nat, n # 0, n <= last, Picked(f[n - 1])
       PROVE  Picked(f[n])
  <2>1. f[n] = IF n \in indices THEN Append(f[n - 1], elements[n]) ELSE f[n - 1]
    BY <1>8, <1>10
  <2>2. PICK s : s = f[n - 1]
    OBVIOUS
  <2>3. CASE n \in indices
    <3>1. n \in 1..Len(elements) /\ elements[n] \in S
      BY <1>1, <1>10
    <3>2. s \in Seq(S)
      BY <1>10, <2>2
    <3>3. Append(s, elements[n]) \in Seq(S) /\ Len(Append(s, elements[n])) = Len(s) + 1
      BY <3>1, <3>2
    <3>4. ASSUME NEW k \in 1..Len(Append(s, elements[n]))
          PROVE  \E j \in indices : j \in 1..Len(elements) /\ Append(s, elements[n])[k] = elements[j]
      <4>1. CASE k = Len(s) + 1
        <5>1. Append(s, elements[n])[k] = elements[n]
          BY <3>1, <3>2, <4>1
        <5> QED BY <2>3, <3>1, <5>1
      <4>2. CASE k # Len(s) + 1
        <5>1. k \in 1..Len(s) /\ Append(s, elements[n])[k] = s[k]
          BY <3>1, <3>2, <3>3, <4>2
        <5> QED BY <1>10, <2>2, <5>1
      <4> QED BY <4>1, <4>2
    <3> QED BY <2>1, <2>2, <2>3, <3>3, <3>4
  <2>4. CASE n \notin indices
    <3> HIDE DEF Picked
    <3> QED BY <1>10, <2>1, <2>4
  <2> QED BY <2>3, <2>4
<1>11. Picked(f[last])
  <2> HIDE DEF Picked
  <2> DEFINE T == {n \in 0..last : ~Picked(f[n])}
  <2>1. SUFFICES ASSUME T # {} PROVE FALSE
    OBVIOUS
  <2>2. T \subseteq Nat
    OBVIOUS
  <2>3. PICK k \in T : \A l \in T : k <= l
    <3> HIDE DEF T
    <3> QED BY <2>1, <2>2, LeastNumber
  <2>4. k \in 0..last /\ ~Picked(f[k])
    OBVIOUS
  <2>5. k # 0
    BY <1>9, <2>4
  <2>6. k - 1 \in 0..last /\ k - 1 < k
    BY <2>4, <2>5
  <2>7. k - 1 \notin T
    <3> HIDE DEF T
    <3> QED BY <2>3, <2>4, <2>6
  <2>8. Picked(f[k - 1])
    BY <2>6, <2>7
  <2> QED BY <1>10, <2>4, <2>5, <2>8
<1> QED BY <1>3, <1>11

\* The targets of a template are targets of the engine's kind.
LEMMA HereTypes ==
    ASSUME NEW template \in TemplateRecords
    PROVE  Here(template) \in Seq(TargetRecords)
<1>1. template.targets \in Seq(TargetRecords)
  BY DEF TemplateRecords
<1>2. Kept(template.targets, {t \in DOMAIN template.targets : template.targets[t].here}) \in Seq(TargetRecords)
  BY <1>1, KeptIs
<1> QED BY <1>1, <1>2 DEF Here

LEMMA CallTypesInit == Init => CallTypes
<1> SUFFICES ASSUME Init PROVE CallTypes
  OBVIOUS
<1>1. PICK called \in Batches : batch = PlatformTemplates(called)
  BY DEF Init
<1>2. called \in Seq(TemplateRecords)
  BY DetectionAssumption
<1>3. /\ batch \in Seq(TemplateRecords)
      /\ \A k \in 1..Len(batch) : Applicable(batch[k])
  <2>1. PICK indices : indices = {i \in DOMAIN called : Applicable(called[i])}
    OBVIOUS
  <2>2. batch = Kept(called, indices)
    BY <1>1, <2>1 DEF PlatformTemplates
  <2>3. /\ batch \in Seq(TemplateRecords)
        /\ \A k \in 1..Len(batch) :
             \E j \in indices : j \in 1..Len(called) /\ batch[k] = called[j]
    BY <1>2, <2>2, KeptIs
  <2>4. \A j \in indices : Applicable(called[j])
    BY <2>1
  <2> QED BY <2>3, <2>4
<1>4. ASSUME NEW i \in Jobs
      PROVE  Targets(i) \in Seq(TargetRecords) /\ Targets(i) # <<>>
  <2>1. i \in 1..Len(batch) /\ batch[i] \in TemplateRecords
    BY <1>3 DEF Jobs
  <2>2. Applicable(batch[i])
    BY <1>3, <2>1
  <2> QED BY <2>1, <2>2, HereTypes DEF Applicable, Targets
<1> QED BY <1>3, <1>4 DEF CallTypes, Init

-----------------------------------------------------------------------------
(***************************************************************************)
(* The steps of a goroutine, whatever the type of its template.            *)
(***************************************************************************)
LEMMA SameCall ==
    ASSUME batch' = batch
    PROVE  /\ Jobs' = Jobs
           /\ \A i : Type(i)' = Type(i) /\ Targets(i)' = Targets(i) /\ Conditions(i)' = Conditions(i)
BY DEF Jobs, Type, Targets, Conditions

\* What a look at a target finds, when nothing fails.
LEMMA FitsSomething ==
    ASSUME NEW i, NEW target \in TargetRecords, NEW content
    PROVE  /\ Fits(i, target, content) => Found(content)
           /\ ~There(i, content) => ~Found(content)
           /\ Type(i) = "file-hash" => (SameHash(target, content) <=> Fits(i, target, content))
           /\ Type(i) = "registry" =>
                ((Found(content) /\ content.lines \cap target.lines # {}) <=> Fits(i, target, content))
           /\ Type(i) = "config-file" =>
                ((Found(content) /\ \E line \in content.lines : Selected(target, line))
                  <=> Fits(i, target, content))
<1>1. target.negate \in BOOLEAN
  BY DEF TargetRecords
<1>2. Fits(i, target, content) => Found(content)
  BY DEF Fits
<1>3. ~There(i, content) => ~Found(content)
  BY DEF There, Found
<1>4. Type(i) = "file-hash" => (SameHash(target, content) <=> Fits(i, target, content))
  BY DEF SameHash, Fits
<1>5. Type(i) = "registry" =>
        ((Found(content) /\ content.lines \cap target.lines # {}) <=> Fits(i, target, content))
  BY DEF Fits
<1>6. ASSUME Type(i) = "config-file"
      PROVE  (Found(content) /\ \E line \in content.lines : Selected(target, line))
               <=> Fits(i, target, content)
  <2>1. CASE target.negate
    BY <1>6, <2>1 DEF Fits, Selected
  <2>2. CASE ~target.negate
    BY <1>1, <1>6, <2>2 DEF Fits, Selected
  <2> QED BY <2>1, <2>2
<1> QED BY <1>2, <1>3, <1>4, <1>5, <1>6

\* The goroutine finds its target there.
Enters(i) ==
    /\ pc[i] = "check" /\ Goto(i, "read") /\ There(i, LookedAt(i))
    /\ UNCHANGED <<at, look, evidence, met, expired, result, failed>>

\* It leaves a piece of evidence: what it has seen, or that a look failed.
Noted(i, exists, matches) ==
    /\ pc[i] \in {"check", "read"} /\ Record(i, exists, matches)
    /\ UNCHANGED <<look, met, expired, result>>
    /\ exists <=> pc[i] = "read"
    /\ matches => Fits(i, Target(i), LookedAt(i))
    /\ \/ failed' = failed \cup {i}
       \/ /\ failed' = failed
          /\ pc[i] = "check" => ~There(i, LookedAt(i))
          /\ matches <=> Fits(i, Target(i), LookedAt(i))

LEMMA ReadNotes ==
    ASSUME NEW i, NEW matches \in BOOLEAN, pc[i] = "read", Read(i, matches),
           matches <=> Fits(i, Target(i), LookedAt(i))
    PROVE  Noted(i, TRUE, matches)
BY DEF Read, Noted

LEMMA FailureNotes ==
    ASSUME NEW i, pc[i] = "read", ReadFails(i)
    PROVE  Noted(i, TRUE, FALSE)
BY DEF ReadFails, Noted

LEMMA LookNotes ==
    ASSUME NEW i, NEW there \in BOOLEAN, pc[i] = "check", Target(i) \in TargetRecords, Look(i, there),
           there <=> There(i, LookedAt(i))
    PROVE  Enters(i) \/ Noted(i, FALSE, FALSE)
<1>1. CASE there
  BY <1>1 DEF Look, Enters
<1>2. CASE ~there
  <2>1. ~Fits(i, Target(i), LookedAt(i))
    BY <1>2, FitsSomething
  <2> QED BY <1>2, <2>1 DEF Look, Noted
<1> QED BY <1>1, <1>2

LEMMA LookSteps ==
    ASSUME NEW i, Target(i) \in TargetRecords, HashJob(i) \/ RegistryJob(i) \/ ConfigJob(i)
    PROVE  /\ UNCHANGED <<world, call>>
           /\ \/ Enters(i)
              \/ \E exists, matches \in BOOLEAN : Noted(i, exists, matches)
              \/ RegistryExpires(i)
<1> DEFINE Goal == \/ Enters(i)
                   \/ \E exists, matches \in BOOLEAN : Noted(i, exists, matches)
                   \/ RegistryExpires(i)
<1>1. UNCHANGED <<world, call>>
  BY DEF HashJob, RegistryJob, ConfigJob, HashStat, HashRead, HashReadFails, KeyCheck, KeyCheckFails, KeyRead,
         KeyReadFails, RegistryExpires, ConfigStat, ConfigRead, ConfigReadFails, Look, Read, ReadFails
<1>2. \A matches \in BOOLEAN : Noted(i, TRUE, matches) => Goal
  OBVIOUS
<1>3. Noted(i, FALSE, FALSE) => Goal
  OBVIOUS
<1> HIDE DEF Goal
<1>4. ASSUME pc[i] = "read", ReadFails(i) PROVE Goal
  BY <1>2, <1>4, FailureNotes
<1>5. ASSUME HashJob(i) PROVE Goal
  <2>1. CASE HashStat(i)
    <3>1. pc[i] = "check" /\ Look(i, LookedAt(i) # Absent)
      BY <2>1 DEF HashStat
    <3>2. (LookedAt(i) # Absent) <=> There(i, LookedAt(i))
      BY <1>5 DEF HashJob, There
    <3>3. PICK there \in BOOLEAN : there = (LookedAt(i) # Absent)
      OBVIOUS
    <3>4. Enters(i) \/ Noted(i, FALSE, FALSE)
      BY <3>1, <3>2, <3>3, LookNotes
    <3> QED BY <1>3, <3>4 DEF Goal
  <2>2. CASE HashRead(i)
    <3>1. pc[i] = "read" /\ Read(i, SameHash(Target(i), LookedAt(i)))
      BY <2>2 DEF HashRead
    <3>2. PICK matches \in BOOLEAN : matches = SameHash(Target(i), LookedAt(i))
      BY DEF SameHash
    <3>3. matches <=> Fits(i, Target(i), LookedAt(i))
      BY <1>5, <3>2, FitsSomething DEF HashJob
    <3>4. Noted(i, TRUE, matches)
      BY <3>1, <3>2, <3>3, ReadNotes
    <3> QED BY <1>2, <3>4
  <2>3. CASE HashReadFails(i)
    BY <1>4, <2>3 DEF HashReadFails
  <2> QED BY <1>5, <2>1, <2>2, <2>3 DEF HashJob
<1>6. ASSUME RegistryJob(i) PROVE Goal
  <2>1. CASE KeyCheck(i)
    <3>1. pc[i] = "check" /\ Look(i, Found(LookedAt(i)))
      BY <2>1 DEF KeyCheck
    <3>2. Found(LookedAt(i)) <=> There(i, LookedAt(i))
      BY <1>6 DEF RegistryJob, There
    <3>3. PICK there \in BOOLEAN : there = Found(LookedAt(i))
      BY DEF Found
    <3>4. Enters(i) \/ Noted(i, FALSE, FALSE)
      BY <3>1, <3>2, <3>3, LookNotes
    <3> QED BY <1>3, <3>4 DEF Goal
  <2>2. CASE KeyCheckFails(i)
    <3>1. Noted(i, FALSE, FALSE)
      BY <2>2 DEF KeyCheckFails, Noted
    <3> QED BY <1>3, <3>1
  <2>3. CASE KeyRead(i)
    <3>1. pc[i] = "read" /\ Read(i, Found(LookedAt(i)) /\ LookedAt(i).lines \cap Target(i).lines # {})
      BY <2>3 DEF KeyRead
    <3>2. PICK matches \in BOOLEAN : matches = (Found(LookedAt(i)) /\ LookedAt(i).lines \cap Target(i).lines # {})
      OBVIOUS
    <3>3. matches <=> Fits(i, Target(i), LookedAt(i))
      BY <1>6, <3>2, FitsSomething DEF RegistryJob
    <3>4. Noted(i, TRUE, matches)
      BY <3>1, <3>2, <3>3, ReadNotes
    <3> QED BY <1>2, <3>4
  <2>4. CASE KeyReadFails(i)
    BY <1>4, <2>4 DEF KeyReadFails
  <2>5. CASE RegistryExpires(i)
    BY <2>5 DEF Goal
  <2> QED BY <1>6, <2>1, <2>2, <2>3, <2>4, <2>5 DEF RegistryJob
<1>7. ASSUME ConfigJob(i) PROVE Goal
  <2>1. CASE ConfigStat(i)
    <3>1. pc[i] = "check" /\ Look(i, Found(LookedAt(i)))
      BY <2>1 DEF ConfigStat
    <3>2. Found(LookedAt(i)) <=> There(i, LookedAt(i))
      BY <1>7 DEF ConfigJob, There
    <3>3. PICK there \in BOOLEAN : there = Found(LookedAt(i))
      BY DEF Found
    <3>4. Enters(i) \/ Noted(i, FALSE, FALSE)
      BY <3>1, <3>2, <3>3, LookNotes
    <3> QED BY <1>3, <3>4 DEF Goal
  <2>2. CASE ConfigRead(i)
    <3>1. pc[i] = "read" /\ Read(i, Found(LookedAt(i)) /\ \E line \in LookedAt(i).lines : Selected(Target(i), line))
      BY <2>2 DEF ConfigRead
    <3>2. PICK matches \in BOOLEAN :
            matches = (Found(LookedAt(i)) /\ \E line \in LookedAt(i).lines : Selected(Target(i), line))
      OBVIOUS
    <3>3. matches <=> Fits(i, Target(i), LookedAt(i))
      BY <1>7, <3>2, FitsSomething DEF ConfigJob
    <3>4. Noted(i, TRUE, matches)
      BY <3>1, <3>2, <3>3, ReadNotes
    <3> QED BY <1>2, <3>4
  <2>3. CASE ConfigReadFails(i)
    BY <1>4, <2>3 DEF ConfigReadFails
  <2> QED BY <1>7, <2>1, <2>2, <2>3 DEF ConfigJob
<1>8. Goal
  BY <1>5, <1>6, <1>7
<1> QED BY <1>1, <1>8 DEF Goal

\* What another goroutine leaves as it was.
Apart(j) ==
    /\ pc'[j] = pc[j] /\ at'[j] = at[j] /\ look'[j] = look[j] /\ met'[j] = met[j]
    /\ evidence'[j] = evidence[j] /\ expired'[j] = expired[j] /\ result'[j] = result[j]
    /\ j \in failed' <=> j \in failed

LEMMA TargetTypes ==
    ASSUME CallTypes, NEW i \in Jobs, Position(i), pc[i] \in {"check", "read"}
    PROVE  /\ at[i] \in 1..Len(Targets(i)) /\ Len(Targets(i)) \in Nat
           /\ Target(i) = Targets(i)[at[i]] /\ Target(i) \in TargetRecords /\ Target(i).place \in Places
<1>1. Targets(i) \in Seq(TargetRecords)
  BY DEF CallTypes
<1>2. at[i] \in 1..Len(Targets(i))
  BY DEF Position
<1>3. Target(i) \in TargetRecords
  BY <1>1, <1>2 DEF Target
<1> QED BY <1>1, <1>2, <1>3 DEF Target, TargetRecords

LEMMA RecordIs ==
    ASSUME JobTypes, NEW i \in Jobs, NEW exists \in BOOLEAN, NEW matches \in BOOLEAN,
           Target(i).place \in Places, Record(i, exists, matches)
    PROVE  /\ evidence' \in [Jobs -> Seq(Pieces)] /\ at' \in [Jobs -> Nat]
           /\ pc' \in [Jobs -> {"queued", "check", "read", "evaluate", "release", "report", "ended"}]
           /\ evidence'[i] = Append(evidence[i], [place |-> Target(i).place, exists |-> exists, matches |-> matches])
           /\ IF at[i] = Len(Targets(i)) THEN at'[i] = 1 /\ pc'[i] = "evaluate"
              ELSE at'[i] = at[i] + 1 /\ pc'[i] = "check"
           /\ \A j \in Jobs \ {i} : evidence'[j] = evidence[j] /\ at'[j] = at[j] /\ pc'[j] = pc[j]
<1>1. PICK piece : piece = [place |-> Target(i).place, exists |-> exists, matches |-> matches]
  OBVIOUS
<1>2. piece \in Pieces
  BY <1>1 DEF Pieces
<1>3. evidence' = [evidence EXCEPT ![i] = Append(@, piece)]
  BY <1>1 DEF Record
<1>4. /\ evidence' \in [Jobs -> Seq(Pieces)] /\ evidence'[i] = Append(evidence[i], piece)
      /\ \A j \in Jobs \ {i} : evidence'[j] = evidence[j]
  BY <1>2, <1>3 DEF JobTypes
<1>5. CASE at[i] = Len(Targets(i))
  <2>1. at' = [at EXCEPT ![i] = 1] /\ pc' = [pc EXCEPT ![i] = "evaluate"]
    BY <1>5 DEF Record, Goto
  <2> QED BY <1>1, <1>4, <1>5, <2>1 DEF JobTypes
<1>6. CASE at[i] # Len(Targets(i))
  <2>1. at' = [at EXCEPT ![i] = @ + 1] /\ pc' = [pc EXCEPT ![i] = "check"]
    BY <1>6 DEF Record, Goto
  <2> QED BY <1>1, <1>4, <1>6, <2>1 DEF JobTypes
<1> QED BY <1>5, <1>6

LEMMA GotoTypes ==
    ASSUME JobTypes, NEW i \in Jobs,
           NEW place \in {"queued", "check", "read", "evaluate", "release", "report", "ended"}, Goto(i, place)
    PROVE  /\ pc' \in [Jobs -> {"queued", "check", "read", "evaluate", "release", "report", "ended"}]
           /\ pc'[i] = place /\ \A j \in Jobs \ {i} : pc'[j] = pc[j]
BY DEF JobTypes, Goto

LEMMA ResultTypes ==
    ASSUME JobTypes, NEW i \in Jobs, NEW answer \in {NoResult, Failure, Answer(TRUE), Answer(FALSE)},
           result' = [result EXCEPT ![i] = answer]
    PROVE  /\ result' \in [Jobs -> {NoResult, Failure, Answer(TRUE), Answer(FALSE)}]
           /\ result'[i] = answer /\ \A j \in Jobs \ {i} : result'[j] = result[j]
BY DEF JobTypes

\* The conditions are gone through one piece of evidence at a time.
LEMMA EvaluateIs ==
    ASSUME JobTypes, NEW i \in Jobs, Evaluate(i)
    PROVE  /\ at' \in [Jobs -> Nat] /\ look' \in [Jobs -> Nat] /\ met' \in [Jobs -> Nat]
           /\ \A j \in Jobs \ {i} : at'[j] = at[j] /\ look'[j] = look[j] /\ met'[j] = met[j]
           /\ IF Meets(i, Conditions(i)[at[i]], evidence[i][look[i]])
              THEN met'[i] = met[i] + 1 /\ at'[i] = at[i] + 1 /\ look'[i] = 1
              ELSE /\ met'[i] = met[i]
                   /\ IF look[i] = Len(evidence[i]) THEN at'[i] = at[i] + 1 /\ look'[i] = 1
                      ELSE at'[i] = at[i] /\ look'[i] = look[i] + 1
<1> USE DEF JobTypes
<1>1. NextCondition(i) =>
        /\ at' \in [Jobs -> Nat] /\ look' \in [Jobs -> Nat] /\ at'[i] = at[i] + 1 /\ look'[i] = 1
        /\ \A j \in Jobs \ {i} : at'[j] = at[j] /\ look'[j] = look[j]
  BY DEF NextCondition
<1>2. CASE Meets(i, Conditions(i)[at[i]], evidence[i][look[i]])
  <2>1. met' = [met EXCEPT ![i] = @ + 1] /\ NextCondition(i)
    BY <1>2 DEF Evaluate
  <2>2. met' \in [Jobs -> Nat] /\ met'[i] = met[i] + 1 /\ \A j \in Jobs \ {i} : met'[j] = met[j]
    BY <2>1
  <2> QED BY <1>1, <1>2, <2>1, <2>2
<1>3. CASE ~Meets(i, Conditions(i)[at[i]], evidence[i][look[i]])
  <2>1. met' = met
    BY <1>3 DEF Evaluate
  <2>2. CASE look[i] = Len(evidence[i])
    <3>1. NextCondition(i)
      BY <1>3, <2>2 DEF Evaluate
    <3> QED BY <1>1, <1>3, <2>1, <2>2, <3>1
  <2>3. CASE look[i] # Len(evidence[i])
    <3>1. look' = [look EXCEPT ![i] = @ + 1] /\ at' = at
      BY <1>3, <2>3 DEF Evaluate
    <3>2. look' \in [Jobs -> Nat] /\ look'[i] = look[i] + 1 /\ \A j \in Jobs \ {i} : look'[j] = look[j]
      BY <3>1
    <3> QED BY <1>3, <2>1, <2>3, <3>1, <3>2
  <2> QED BY <2>2, <2>3
<1> QED BY <1>2, <1>3

\* A goroutine works on its own variables only, and leaves them well typed.
LEMMA WorkTypes ==
    ASSUME CallTypes, JobTypes, NEW i \in Jobs, Position(i), Work(i) \/ Expire(i)
    PROVE  /\ UNCHANGED <<world, batch, caller>> /\ JobTypes'
           /\ \A j \in Jobs \ {i} : Apart(j)
<1> DEFINE Goal == UNCHANGED <<world, batch, caller>> /\ JobTypes' /\ \A j \in Jobs \ {i} : Apart(j)
<1> USE DEF call
<1>0. batch' = batch => Jobs' = Jobs
  BY SameCall
<1>1. CASE Acquire(i)
  <2>1. CASE Refused(i)
    <3>1. result' = [result EXCEPT ![i] = Failure] /\ Goto(i, "release")
      BY <1>1, <2>1 DEF Acquire
    <3> QED BY <1>0, <1>1, <3>1, GotoTypes, ResultTypes DEF Acquire, JobTypes, Apart
  <2>2. CASE ~Refused(i)
    <3>1. result' = result /\ Goto(i, "check")
      BY <1>1, <2>2 DEF Acquire
    <3> QED BY <1>0, <1>1, <3>1, GotoTypes DEF Acquire, JobTypes, Apart
  <2> QED BY <2>1, <2>2
<1>2. CASE Expire(i)
  BY <1>0, <1>2 DEF Expire, JobTypes, Apart
<1>3. ASSUME HashJob(i) \/ RegistryJob(i) \/ ConfigJob(i) PROVE Goal
  <2>1. pc[i] \in {"check", "read"}
    BY <1>3 DEF HashJob, RegistryJob, ConfigJob, HashStat, HashRead, HashReadFails, KeyCheck, KeyCheckFails,
                KeyRead, KeyReadFails, RegistryExpires, ConfigStat, ConfigRead, ConfigReadFails
  <2>2. Target(i) \in TargetRecords /\ Target(i).place \in Places
    BY <2>1, TargetTypes
  <2>3. UNCHANGED <<world, call>>
    BY <1>3, <2>2, LookSteps
  <2>4. CASE Enters(i)
    BY <1>0, <2>3, <2>4, GotoTypes DEF Enters, JobTypes, Apart
  <2>5. CASE RegistryExpires(i)
    <3>1. result' = [result EXCEPT ![i] = Failure] /\ Goto(i, "release")
          /\ UNCHANGED <<at, look, evidence, met, expired, failed>>
      BY <2>5 DEF RegistryExpires
    <3> QED BY <1>0, <2>3, <3>1, GotoTypes, ResultTypes DEF JobTypes, Apart
  <2>6. ASSUME NEW exists \in BOOLEAN, NEW matches \in BOOLEAN, Noted(i, exists, matches) PROVE Goal
    <3>1. Record(i, exists, matches) /\ UNCHANGED <<look, met, expired, result>>
          /\ (failed' = failed \cup {i} \/ failed' = failed)
      BY <2>6 DEF Noted
    <3>2. /\ evidence' \in [Jobs -> Seq(Pieces)] /\ at' \in [Jobs -> Nat]
          /\ pc' \in [Jobs -> {"queued", "check", "read", "evaluate", "release", "report", "ended"}]
          /\ \A j \in Jobs \ {i} : evidence'[j] = evidence[j] /\ at'[j] = at[j] /\ pc'[j] = pc[j]
      BY <2>2, <3>1, RecordIs
    <3>3. failed' \subseteq Jobs /\ \A j \in Jobs \ {i} : j \in failed' <=> j \in failed
      BY <3>1 DEF JobTypes
    <3> QED BY <1>0, <2>3, <3>1, <3>2, <3>3 DEF JobTypes, Apart
  <2> QED BY <1>3, <2>2, <2>4, <2>5, <2>6, LookSteps
<1>4. CASE Evaluate(i)
  <2>1. UNCHANGED <<world, call, pc, evidence, expired, result, failed>>
    BY <1>4 DEF Evaluate
  <2> QED BY <1>0, <1>4, <2>1, EvaluateIs DEF JobTypes, Apart
<1>5. CASE Conclude(i)
  <2>1. result' = [result EXCEPT ![i] = Answer(Vulnerable(met[i], Len(Conditions(i))))] /\ Goto(i, "release")
        /\ UNCHANGED <<world, call, at, look, evidence, met, expired, failed>>
    BY <1>5 DEF Conclude
  <2>2. Vulnerable(met[i], Len(Conditions(i))) \in BOOLEAN
    BY DEF Vulnerable
  <2>3. PICK answer \in {Answer(TRUE), Answer(FALSE)} : answer = Answer(Vulnerable(met[i], Len(Conditions(i))))
    BY <2>2
  <2> QED BY <1>0, <2>1, <2>3, GotoTypes, ResultTypes DEF JobTypes, Apart
<1>6. CASE Release(i)
  <2>1. Goto(i, "report") /\ UNCHANGED <<world, call, at, look, evidence, met, expired, result, failed>>
    BY <1>6 DEF Release
  <2> QED BY <1>0, <2>1, GotoTypes DEF JobTypes, Apart
<1>7. CASE Report(i)
  <2>1. Goto(i, "ended") /\ UNCHANGED <<world, batch, caller, at, look, evidence, met, expired, result, failed>>
    BY <1>7 DEF Report
  <2> QED BY <1>0, <2>1, GotoTypes DEF JobTypes, Apart
<1> QED BY <1>1, <1>2, <1>3, <1>4, <1>5, <1>6, <1>7 DEF Work

LEMMA ConditionTypes ==
    ASSUME CallTypes, NEW i \in Jobs
    PROVE  /\ Conditions(i) \in Seq(ConditionRecords) /\ Len(Conditions(i)) \in Nat
           /\ Targets(i) \in Seq(TargetRecords) /\ Len(Targets(i)) \in Nat /\ Len(Targets(i)) > 0
<1>1. batch[i] \in TemplateRecords
  BY DEF CallTypes, Jobs
<1>2. Conditions(i) \in Seq(ConditionRecords)
  BY <1>1 DEF Conditions, TemplateRecords
<1>3. Targets(i) \in Seq(TargetRecords) /\ Targets(i) # <<>>
  BY DEF CallTypes
<1> QED BY <1>2, <1>3

LEMMA ApartKeepsPosition ==
    ASSUME NEW j, Position(j), Apart(j), batch' = batch
    PROVE  Position(j)'
BY SameCall DEF Position, Apart, Known

LEMMA PositionStep ==
    ASSUME CallTypes, JobTypes, NEW i \in Jobs, Position(i), Work(i) \/ Expire(i)
    PROVE  Position(i)'
<1>1. UNCHANGED <<world, batch, caller>> /\ JobTypes'
  BY WorkTypes
<1>2. PICK targets, conditions : targets = Targets(i) /\ conditions = Conditions(i)
  OBVIOUS
<1>3. Targets(i)' = targets /\ Conditions(i)' = conditions /\ (Known(i)' <=> Known(i)) /\ Jobs' = Jobs
  BY <1>1, <1>2, SameCall DEF Known
<1>4. Len(targets) \in Nat /\ Len(targets) > 0 /\ Len(conditions) \in Nat
  BY <1>2, ConditionTypes
<1>5. /\ at[i] \in Nat /\ look[i] \in Nat /\ met[i] \in Nat /\ evidence[i] \in Seq(Pieces) /\ Len(evidence[i]) \in Nat
  BY DEF JobTypes
<1>6. NoResult # Failure /\ \A b : NoResult # Answer(b)
  BY DEF NoResult, Failure, Answer
<1> USE DEF call
<1>7. CASE Acquire(i)
  <2>1. pc[i] = "queued" /\ UNCHANGED <<at, look, evidence, met>>
    BY <1>7 DEF Acquire
  <2>2. CASE Refused(i)
    <3>1. result' = [result EXCEPT ![i] = Failure] /\ Goto(i, "release")
      BY <1>7, <2>2 DEF Acquire
    <3>2. result'[i] = Failure /\ pc'[i] = "release"
      BY <3>1, GotoTypes, ResultTypes
    <3> QED BY <1>2, <1>3, <1>6, <2>1, <3>2 DEF Position, Early
  <2>3. CASE ~Refused(i)
    <3>1. result' = result /\ Goto(i, "check")
      BY <1>7, <2>3 DEF Acquire
    <3>2. pc'[i] = "check"
      BY <3>1, GotoTypes
    <3>3. Known(i)
      BY <2>3 DEF Refused, Known
    <3>4. Len(evidence[i]) = 0
      BY <2>1 DEF Position
    <3> QED BY <1>2, <1>3, <1>4, <2>1, <3>1, <3>2, <3>3, <3>4 DEF Position, Early
  <2> QED BY <2>2, <2>3
<1>8. CASE Expire(i)
  BY <1>2, <1>3, <1>8 DEF Expire, Position
<1>9. CASE HashJob(i) \/ RegistryJob(i) \/ ConfigJob(i)
  <2>1. pc[i] \in {"check", "read"}
    BY <1>9 DEF HashJob, RegistryJob, ConfigJob, HashStat, HashRead, HashReadFails, KeyCheck, KeyCheckFails,
                KeyRead, KeyReadFails, RegistryExpires, ConfigStat, ConfigRead, ConfigReadFails
  <2>2. Target(i) \in TargetRecords /\ Target(i).place \in Places
    BY <2>1, TargetTypes
  <2>3. CASE Enters(i)
    <3>1. pc'[i] = "read" /\ UNCHANGED <<at, look, evidence, met, result>>
      BY <2>3, GotoTypes DEF Enters
    <3> QED BY <1>2, <1>3, <2>1, <3>1 DEF Position, Early
  <2>4. CASE RegistryExpires(i)
    <3>1. result' = [result EXCEPT ![i] = Failure] /\ Goto(i, "release") /\ UNCHANGED <<at, look, evidence, met>>
      BY <2>4 DEF RegistryExpires
    <3>2. result'[i] = Failure /\ pc'[i] = "release"
      BY <3>1, GotoTypes, ResultTypes
    <3> QED BY <1>2, <1>3, <1>6, <2>1, <3>1, <3>2 DEF Position, Early
  <2>5. ASSUME NEW exists \in BOOLEAN, NEW matches \in BOOLEAN, Noted(i, exists, matches) PROVE Position(i)'
    <3>1. Record(i, exists, matches) /\ UNCHANGED <<look, met, result>>
      BY <2>5 DEF Noted
    <3>2. PICK piece \in Pieces : piece = [place |-> Target(i).place, exists |-> exists, matches |-> matches]
      BY <2>2 DEF Pieces
    <3>3. /\ evidence'[i] = Append(evidence[i], piece)
          /\ IF at[i] = Len(targets) THEN at'[i] = 1 /\ pc'[i] = "evaluate"
             ELSE at'[i] = at[i] + 1 /\ pc'[i] = "check"
      BY <1>2, <2>2, <3>1, <3>2, RecordIs
    <3>4. Len(evidence'[i]) = Len(evidence[i]) + 1
      BY <1>5, <3>3
    <3>5. Known(i) /\ at[i] \in 1..Len(targets) /\ Len(evidence[i]) = at[i] - 1 /\ look[i] = 1 /\ met[i] = 0
          /\ result[i] = NoResult
      BY <1>2, <2>1 DEF Position, Early
    <3>6. CASE at[i] = Len(targets)
      <4>1. at'[i] = 1 /\ pc'[i] = "evaluate"
        BY <3>3, <3>6
      <4>2. Len(evidence'[i]) = Len(targets) /\ look'[i] = 1 /\ met'[i] = 0 /\ result'[i] = NoResult
        BY <1>4, <3>1, <3>4, <3>5, <3>6
      <4>3. 1 \in 1..(Len(conditions) + 1) /\ 1 \in 1..Len(targets) /\ 0 <= 1 - 1 /\ 0 <= Len(conditions)
        BY <1>4
      <4> QED BY <1>3, <1>4, <3>5, <4>1, <4>2, <4>3 DEF Position, Early
    <3>7. CASE at[i] # Len(targets)
      <4>1. at'[i] = at[i] + 1 /\ pc'[i] = "check"
        BY <3>3, <3>7
      <4>2. Len(evidence'[i]) = at'[i] - 1 /\ at'[i] \in 1..Len(targets) /\ Len(evidence'[i]) <= Len(targets)
        BY <1>4, <3>4, <3>5, <3>7, <4>1
      <4>3. look'[i] = 1 /\ met'[i] = 0 /\ result'[i] = NoResult /\ 0 <= Len(conditions)
        BY <1>4, <3>1, <3>5
      <4> QED BY <1>3, <3>5, <4>1, <4>2, <4>3 DEF Position, Early
    <3> QED BY <3>6, <3>7
  <2> QED BY <1>9, <2>2, <2>3, <2>4, <2>5, LookSteps
<1>10. CASE Evaluate(i)
  <2>1. pc[i] = "evaluate" /\ at[i] <= Len(conditions) /\ UNCHANGED <<pc, evidence, result>>
    BY <1>2, <1>10 DEF Evaluate
  <2>2. IF Meets(i, Conditions(i)[at[i]], evidence[i][look[i]])
        THEN met'[i] = met[i] + 1 /\ at'[i] = at[i] + 1 /\ look'[i] = 1
        ELSE /\ met'[i] = met[i]
             /\ IF look[i] = Len(evidence[i]) THEN at'[i] = at[i] + 1 /\ look'[i] = 1
                ELSE at'[i] = at[i] /\ look'[i] = look[i] + 1
    BY <1>10, EvaluateIs
  <2>3. /\ at[i] \in 1..(Len(conditions) + 1) /\ Len(evidence[i]) = Len(targets) /\ look[i] \in 1..Len(targets)
        /\ met[i] <= at[i] - 1 /\ met[i] <= Len(conditions) /\ Known(i) /\ result[i] = NoResult
    BY <1>2, <2>1 DEF Position, Early
  <2>4. /\ at'[i] \in 1..(Len(conditions) + 1) /\ look'[i] \in 1..Len(targets)
        /\ met'[i] <= at'[i] - 1 /\ met'[i] <= Len(conditions)
    <3>1. CASE Meets(i, Conditions(i)[at[i]], evidence[i][look[i]])
      <4>1. met'[i] = met[i] + 1 /\ at'[i] = at[i] + 1 /\ look'[i] = 1
        BY <2>2, <3>1
      <4> QED BY <1>4, <1>5, <2>1, <2>3, <4>1
    <3>2. CASE ~Meets(i, Conditions(i)[at[i]], evidence[i][look[i]])
      <4>1. met'[i] = met[i]
        BY <2>2, <3>2
      <4>2. CASE look[i] = Len(evidence[i])
        <5>1. at'[i] = at[i] + 1 /\ look'[i] = 1
          BY <2>2, <3>2, <4>2
        <5> QED BY <1>4, <1>5, <2>1, <2>3, <4>1, <5>1
      <4>3. CASE look[i] # Len(evidence[i])
        <5>1. at'[i] = at[i] /\ look'[i] = look[i] + 1
          BY <2>2, <3>2, <4>3
        <5> QED BY <1>4, <1>5, <2>1, <2>3, <4>1, <4>3, <5>1
      <4> QED BY <4>2, <4>3
    <3> QED BY <3>1, <3>2
  <2> QED BY <1>2, <1>3, <2>1, <2>3, <2>4 DEF Position, Early
<1>11. CASE Conclude(i)
  <2>1. result' = [result EXCEPT ![i] = Answer(Vulnerable(met[i], Len(Conditions(i))))] /\ Goto(i, "release")
        /\ UNCHANGED <<at, look, evidence, met>>
    BY <1>11 DEF Conclude
  <2>2. Vulnerable(met[i], Len(Conditions(i))) \in BOOLEAN
    BY DEF Vulnerable
  <2>3. PICK answer \in {Answer(TRUE), Answer(FALSE)} : answer = Answer(Vulnerable(met[i], Len(Conditions(i))))
    BY <2>2
  <2>4. result'[i] # NoResult /\ pc'[i] = "release"
    BY <1>6, <2>1, <2>3, GotoTypes, ResultTypes
  <2> QED BY <1>2, <1>3, <2>1, <2>4 DEF Position, Early
<1>12. CASE Release(i)
  <2>1. pc[i] = "release" /\ pc'[i] = "report" /\ UNCHANGED <<at, look, evidence, met, result>>
    BY <1>12, GotoTypes DEF Release
  <2> QED BY <1>2, <1>3, <2>1 DEF Position, Early
<1>13. CASE Report(i)
  <2>1. pc[i] = "report" /\ pc'[i] = "ended" /\ UNCHANGED <<at, look, evidence, met, result>>
    BY <1>13, GotoTypes DEF Report
  <2> QED BY <1>2, <1>3, <2>1 DEF Position, Early
<1> QED BY <1>7, <1>8, <1>9, <1>10, <1>11, <1>12, <1>13 DEF Work

-----------------------------------------------------------------------------
(***************************************************************************)
(* What the evidence says, as long as it agrees with the machine.          *)
(***************************************************************************)
LEMMA PlaceTypes ==
    ASSUME CallTypes, WorldTypes, NEW i \in Jobs, NEW k \in 1..Len(Targets(i))
    PROVE  /\ Targets(i)[k] \in TargetRecords /\ Targets(i)[k].place \in Places
           /\ machine[Targets(i)[k].place] \in seen[Targets(i)[k].place]
           /\ Found(machine[Targets(i)[k].place]) => machine[Targets(i)[k].place].executable \in BOOLEAN
<1>1. Targets(i)[k] \in TargetRecords
  BY DEF CallTypes
<1>2. PICK p \in Places : p = Targets(i)[k].place
  BY <1>1 DEF TargetRecords
<1>3. machine[p] \in seen[p] /\ machine[p] \in Contents(p)
  BY DEF WorldTypes
<1>4. Found(machine[p]) => machine[p] \in Things(p)
  BY <1>3 DEF Contents, Found
<1>5. machine[p] \in Things(p) => machine[p].executable \in BOOLEAN
  BY DEF Things
<1> QED BY <1>1, <1>2, <1>3, <1>4, <1>5

\* A piece that has the value a condition asks for was true at some moment.
LEMMA MeetsWasShown ==
    ASSUME CallTypes, WorldTypes, JobTypes, NEW i \in Jobs, Position(i), Founded(i),
           NEW condition \in ConditionRecords, NEW k \in 1..Len(evidence[i]), condition.value,
           Meets(i, condition, evidence[i][k])
    PROVE  \E content \in seen[Targets(i)[k].place] : Shows(i, condition, Targets(i)[k], content)
<1>1. evidence[i] \in Seq(Pieces) /\ Len(evidence[i]) <= Len(Targets(i))
  BY DEF JobTypes, Position
<1>2. k \in 1..Len(Targets(i))
  BY <1>1, ConditionTypes
<1>3. PICK piece \in Pieces : piece = evidence[i][k]
  BY <1>1
<1>4. PICK target \in TargetRecords : target = Targets(i)[k]
  BY <1>2, PlaceTypes
<1>5. /\ piece.place = target.place
      /\ piece.exists => \E content \in seen[target.place] : There(i, content)
      /\ piece.matches => \E content \in seen[target.place] : Fits(i, target, content)
  BY <1>3, <1>4 DEF Founded, EvidenceFounded, ThereOnce, FitOnce
<1>6. condition.value = TRUE /\ piece.exists \in BOOLEAN /\ piece.matches \in BOOLEAN
  BY DEF ConditionRecords, Pieces
<1>7. Type(i) = "config-file" => condition.type = "matches"
  BY <1>3 DEF Meets, PatternMeets
<1>8. CASE condition.type = "exists" /\ piece.exists
  <2>1. PICK content \in seen[target.place] : There(i, content)
    BY <1>5, <1>8
  <2>2. Shows(i, condition, target, content)
    BY <1>6, <1>7, <1>8, <2>1 DEF Shows, There, Found
  <2> QED BY <1>4, <2>2
<1>9. CASE condition.type = "matches" /\ piece.matches
  <2>1. PICK content \in seen[target.place] : Fits(i, target, content)
    BY <1>5, <1>9
  <2>2. Fits(i, target, content) = TRUE
    BY <2>1 DEF Fits, Found
  <2>3. Shows(i, condition, target, content)
    BY <1>6, <1>9, <2>2 DEF Shows
  <2> QED BY <1>4, <2>3
<1>10. CASE condition.type = "executable" /\ Type(i) = "file-hash" /\ FileIs(piece.place, condition.value)
  <2>1. PICK content : content = machine[target.place]
    OBVIOUS
  <2>2. content \in seen[target.place] /\ (Found(content) => content.executable \in BOOLEAN)
    BY <1>2, <1>4, <2>1, PlaceTypes
  <2>3. Found(content) /\ content.executable = TRUE
    BY <1>5, <1>6, <1>10, <2>1, <2>2 DEF FileIs
  <2>4. Shows(i, condition, target, content)
    BY <1>6, <1>10, <2>3 DEF Shows
  <2> QED BY <1>4, <2>2, <2>4
<1> QED BY <1>3, <1>6, <1>8, <1>9, <1>10 DEF Meets, FileMeets, KeyMeets, PatternMeets

\* On a machine that nobody changes a piece meets a condition exactly if its
\* target shows it.
LEMMA MeetsIsShown ==
    ASSUME CallTypes, WorldTypes, JobTypes, NEW i \in Jobs, Position(i), Founded(i), Exact(i), Known(i),
           NEW c \in 1..Len(Conditions(i)), NEW k \in 1..Len(evidence[i])
    PROVE  Meets(i, Conditions(i)[c], evidence[i][k]) <=> Shown(i, c, k)
<1>1. evidence[i] \in Seq(Pieces) /\ Len(evidence[i]) <= Len(Targets(i))
  BY DEF JobTypes, Position
<1>2. k \in 1..Len(Targets(i))
  BY <1>1, ConditionTypes
<1>3. PICK piece \in Pieces : piece = evidence[i][k]
  BY <1>1
<1>4. PICK target \in TargetRecords : target = Targets(i)[k]
  BY <1>2, PlaceTypes
<1>5. PICK condition \in ConditionRecords : condition = Conditions(i)[c]
  BY ConditionTypes
<1>6. PICK content : content = machine[target.place]
  OBVIOUS
<1>7. /\ piece.place = target.place
      /\ piece.exists <=> There(i, content)
      /\ piece.matches <=> Fits(i, target, content)
  BY <1>3, <1>4, <1>6 DEF Founded, EvidenceFounded, Exact, EvidenceExact, ThereNow, FitsNow
<1>8. /\ condition.value \in BOOLEAN /\ piece.exists \in BOOLEAN /\ piece.matches \in BOOLEAN
      /\ Found(content) => content.executable \in BOOLEAN
  BY <1>2, <1>4, <1>6, PlaceTypes DEF ConditionRecords, Pieces
<1>9. There(i, content) \in BOOLEAN /\ Fits(i, target, content) \in BOOLEAN /\ Found(content) \in BOOLEAN
  BY DEF There, Fits, Found
<1>10. piece.exists = There(i, content) /\ piece.matches = Fits(i, target, content)
  BY <1>7, <1>8, <1>9
<1>11. Type(i) = "file-hash" /\ piece.exists =>
         (FileIs(piece.place, condition.value) <=> Found(content) /\ content.executable = condition.value)
  BY <1>6, <1>7, <1>8 DEF FileIs, There, Found
<1>12. Found(content) => There(i, content)
  BY DEF There, Found
<1>13. Meets(i, condition, piece) <=> Shows(i, condition, target, content)
  <2>1. CASE Type(i) = "file-hash"
    <3>1. Meets(i, condition, piece) <=> FileMeets(condition, piece)
      BY <2>1 DEF Meets
    <3> QED BY <1>10, <1>11, <1>12, <2>1, <3>1 DEF FileMeets, Shows
  <2>2. CASE Type(i) = "registry"
    <3>1. Meets(i, condition, piece) <=> KeyMeets(condition, piece)
      BY <2>2 DEF Meets
    <3> QED BY <1>10, <2>2, <3>1 DEF KeyMeets, Shows
  <2>3. CASE Type(i) = "config-file"
    <3>1. Meets(i, condition, piece) <=> PatternMeets(condition, piece)
      BY <2>3 DEF Meets
    <3> QED BY <1>8, <1>9, <1>10, <2>3, <3>1 DEF PatternMeets, Shows
  <2> QED BY <2>1, <2>2, <2>3 DEF Known
<1> QED BY <1>3, <1>4, <1>5, <1>6, <1>13 DEF Shown

\* What a goroutine does changes no place.
LEMMA SameWorld ==
    ASSUME batch' = batch, UNCHANGED world
    PROVE  /\ \A i, k : /\ ThereOnce(i, k)' <=> ThereOnce(i, k)
                        /\ FitOnce(i, k)' <=> FitOnce(i, k)
                        /\ ThereNow(i, k)' <=> ThereNow(i, k)
                        /\ FitsNow(i, k)' <=> FitsNow(i, k)
           /\ \A i, c : /\ ShownOnce(i, c)' <=> ShownOnce(i, c)
                        /\ Holds(i, c)' <=> Holds(i, c)
           /\ \A i, c, t : Shown(i, c, t)' <=> Shown(i, c, t)
           /\ \A i : /\ Witnessed(i)' <=> Witnessed(i)
                     /\ Decision(i)' <=> Decision(i)
<1>1. machine' = machine /\ seen' = seen
  BY DEF world
<1>0. \A i : Type(i)' = Type(i) /\ Targets(i)' = Targets(i) /\ Conditions(i)' = Conditions(i)
  BY SameCall
<1> USE DEF There, Fits, Shows
<1>2. \A i, k : ThereOnce(i, k)' <=> ThereOnce(i, k)
  BY <1>0, <1>1 DEF ThereOnce
<1>3. \A i, k : FitOnce(i, k)' <=> FitOnce(i, k)
  BY <1>0, <1>1 DEF FitOnce
<1>4. \A i, k : ThereNow(i, k)' <=> ThereNow(i, k)
  BY <1>0, <1>1 DEF ThereNow
<1>5. \A i, k : FitsNow(i, k)' <=> FitsNow(i, k)
  BY <1>0, <1>1 DEF FitsNow
<1>6. ASSUME NEW i, NEW c, NEW t, NEW content
      PROVE  Shows(i, Conditions(i)[c], Targets(i)[t], content)' <=> Shows(i, Conditions(i)[c], Targets(i)[t], content)
  <2>1. PICK condition, target : condition = Conditions(i)[c] /\ target = Targets(i)[t]
    OBVIOUS
  <2>2. There(i, content)' = There(i, content) /\ Fits(i, target, content)' = Fits(i, target, content)
    BY <1>0
  <2>3. Fits(i, Targets(i)[t], content)' = Fits(i, target, content)'
    BY <1>0, <2>1
  <2> HIDE DEF There, Fits
  <2> QED BY <1>0, <2>1, <2>2, <2>3
<1> HIDE DEF There, Fits, Shows
<1>7. \A i, c : ShownOnce(i, c)' <=> ShownOnce(i, c)
  <2>1. ASSUME NEW i, NEW c
        PROVE  ShownOnce(i, c)' <=> ShownOnce(i, c)
    BY <1>0, <1>1, <1>6 DEF ShownOnce
  <2> QED BY <2>1
<1>8. \A i, c, t : Shown(i, c, t)' <=> Shown(i, c, t)
  <2>1. ASSUME NEW i, NEW c, NEW t
        PROVE  Shown(i, c, t)' <=> Shown(i, c, t)
    <3>1. PICK content : content = machine[Targets(i)[t].place]
      OBVIOUS
    <3> QED BY <1>0, <1>1, <1>6, <3>1 DEF Shown
  <2> QED BY <2>1
<1>9. \A i, c : Holds(i, c)' <=> Holds(i, c)
  BY <1>0, <1>8 DEF Holds
<1>10. \A i : Witnessed(i)' <=> Witnessed(i)
  BY <1>0, <1>7 DEF Witnessed
<1>11. \A i : Refused(i)' <=> Refused(i)
  BY <1>0 DEF Refused
<1>12. \A i : Decision(i)' <=> Decision(i)
  BY <1>0, <1>9, <1>11 DEF Decision
<1> QED BY <1>2, <1>3, <1>4, <1>5, <1>7, <1>8, <1>9, <1>10, <1>12

LEMMA ApartKeepsFounded ==
    ASSUME NEW j, Founded(j), Apart(j), batch' = batch,
           Len(evidence[j]) \in Nat, Len(Targets(j)) \in Nat, Len(evidence[j]) <= Len(Targets(j)),
           \A k \in 1..Len(Targets(j)) : (ThereOnce(j, k) => ThereOnce(j, k)') /\ (FitOnce(j, k) => FitOnce(j, k)'),
           \A c : ShownOnce(j, c) => ShownOnce(j, c)'
    PROVE  Founded(j)'
<1>1. Targets(j)' = Targets(j) /\ Conditions(j)' = Conditions(j)
  BY SameCall
<1>2. \A k \in 1..Len(evidence[j]) : k \in 1..Len(Targets(j))
  OBVIOUS
<1>3. /\ pc'[j] = pc[j] /\ at'[j] = at[j] /\ met'[j] = met[j]
      /\ evidence'[j] = evidence[j] /\ result'[j] = result[j]
  BY DEF Apart
<1>4. EvidenceFounded(j)'
  BY <1>1, <1>2, <1>3 DEF Founded, EvidenceFounded
<1>5. ReadFounded(j)'
  BY <1>1, <1>3 DEF Founded, ReadFounded
<1>6. HitsFounded(j)'
  BY <1>1, <1>3 DEF Founded, HitsFounded
<1>7. Witnessed(j) => Witnessed(j)'
  BY <1>1 DEF Witnessed
<1>8. VerdictFounded(j)'
  BY <1>3, <1>7 DEF Founded, VerdictFounded
<1> QED BY <1>4, <1>5, <1>6, <1>8 DEF Founded

LEMMA ApartKeepsExact ==
    ASSUME NEW j, Exact(j), Apart(j), batch' = batch, UNCHANGED world
    PROVE  Exact(j)'
<1>1. Targets(j)' = Targets(j) /\ Conditions(j)' = Conditions(j)
  BY SameCall
<1>2. /\ pc'[j] = pc[j] /\ at'[j] = at[j] /\ met'[j] = met[j] /\ look'[j] = look[j]
      /\ evidence'[j] = evidence[j] /\ result'[j] = result[j]
  BY DEF Apart
<1>3. EvidenceExact(j)'
  BY <1>2, SameWorld DEF Exact, EvidenceExact
<1>4. ReadExact(j)'
  BY <1>1, <1>2, SameWorld DEF Exact, ReadExact
<1>5. HitsExact(j)'
  BY <1>1, <1>2, SameWorld DEF Exact, HitsExact
<1>6. VerdictExact(j)'
  BY <1>2, SameWorld DEF Exact, VerdictExact
<1> QED BY <1>3, <1>4, <1>5, <1>6 DEF Exact

\* A place keeps all that it has ever held.
LEMMA ChangeKeepsSeen ==
    ASSUME CallTypes, WorldTypes, Change
    PROVE  /\ WorldTypes' /\ changes' # 0 /\ UNCHANGED <<call, pc, at, look, evidence, met, expired, result, failed>>
           /\ \A j \in Jobs : \A k \in 1..Len(Targets(j)) :
                (ThereOnce(j, k) => ThereOnce(j, k)') /\ (FitOnce(j, k) => FitOnce(j, k)')
           /\ \A j \in Jobs : \A c : ShownOnce(j, c) => ShownOnce(j, c)'
<1>1. PICK p \in Watched, content \in Something :
        /\ content \in Contents(p)
        /\ machine' = [machine EXCEPT ![p] = content] /\ seen' = [seen EXCEPT ![p] = @ \cup {content}]
  BY DEF Change, Something, Watched
<1>2. p \in Places
  BY DEF Watched
<1>3. /\ machine' \in [Places -> Something] /\ seen' \in [Places -> SUBSET Something]
      /\ \A q \in Places : machine'[q] \in seen'[q] /\ seen'[q] \subseteq Contents(q) /\ seen[q] \subseteq seen'[q]
  BY <1>1, <1>2 DEF WorldTypes
<1>4. changes' \in 0..MaxChanges /\ changes' # 0
  BY DetectionAssumption DEF Change, WorldTypes
<1>5. WorldTypes'
  BY <1>3, <1>4 DEF WorldTypes
<1>6. batch' = batch /\ UNCHANGED <<call, pc, at, look, evidence, met, expired, result, failed>>
  BY DEF Change, call
<1>7. \A j \in Jobs : \A k \in 1..Len(Targets(j)) : seen[Targets(j)[k].place] \subseteq seen'[Targets(j)[k].place]
  BY <1>3, PlaceTypes
<1>8. \A j : Targets(j)' = Targets(j) /\ Conditions(j)' = Conditions(j) /\ Type(j)' = Type(j)
  BY <1>6, SameCall
<1>9. \A j \in Jobs : \A k \in 1..Len(Targets(j)) :
        (ThereOnce(j, k) => ThereOnce(j, k)') /\ (FitOnce(j, k) => FitOnce(j, k)')
  BY <1>7, <1>8 DEF ThereOnce, FitOnce, There, Fits
<1>10. \A j \in Jobs : \A c : ShownOnce(j, c) => ShownOnce(j, c)'
  <2>1. ASSUME NEW j \in Jobs, NEW c, ShownOnce(j, c) PROVE ShownOnce(j, c)'
    <3>1. PICK t \in 1..Len(Targets(j)), held \in UNION {seen[q] : q \in Places} :
            held \in seen[Targets(j)[t].place] /\ Shows(j, Conditions(j)[c], Targets(j)[t], held)
      BY <2>1, PlaceTypes DEF ShownOnce
    <3>2. held \in seen'[Targets(j)[t].place]
      BY <1>7, <3>1
    <3>3. Shows(j, Conditions(j)[c], Targets(j)[t], held)'
      BY <1>8, <3>1 DEF Shows, There, Fits
    <3> QED BY <1>8, <3>1, <3>2, <3>3 DEF ShownOnce
  <2> QED BY <2>1
<1> QED BY <1>4, <1>5, <1>6, <1>9, <1>10

\* A goroutine that looks, is refused, is let in or goes on leaves its
\* findings founded.
LEMMA FoundedStep ==
    ASSUME CallTypes, WorldTypes, JobTypes, NEW i \in Jobs, Position(i), Founded(i), Work(i) \/ Expire(i)
    PROVE  Founded(i)'
<1>1. UNCHANGED <<world, batch>> /\ JobTypes'
  BY WorkTypes
<1>2. PICK targets, conditions : targets = Targets(i) /\ conditions = Conditions(i)
  OBVIOUS
<1>3. Targets(i)' = targets /\ Conditions(i)' = conditions
  BY <1>1, <1>2, SameCall
<1>4. targets \in Seq(TargetRecords) /\ Len(targets) \in Nat /\ Len(targets) > 0
      /\ conditions \in Seq(ConditionRecords) /\ Len(conditions) \in Nat
  BY <1>2, ConditionTypes
<1>5. /\ at[i] \in Nat /\ look[i] \in Nat /\ met[i] \in Nat /\ evidence[i] \in Seq(Pieces) /\ Len(evidence[i]) \in Nat
  BY DEF JobTypes
<1>6. /\ \A k : (ThereOnce(i, k)' <=> ThereOnce(i, k)) /\ (FitOnce(i, k)' <=> FitOnce(i, k))
      /\ \A c : ShownOnce(i, c)' <=> ShownOnce(i, c)
      /\ Witnessed(i)' <=> Witnessed(i)
  BY <1>1, SameWorld
<1>7. ASSUME evidence'[i] = evidence[i] PROVE EvidenceFounded(i)'
  BY <1>2, <1>3, <1>6, <1>7 DEF Founded, EvidenceFounded
<1>8. ASSUME pc'[i] # "read" PROVE ReadFounded(i)'
  BY <1>8 DEF ReadFounded
<1>9. ASSUME pc'[i] # "evaluate" PROVE HitsFounded(i)'
  BY <1>9 DEF HitsFounded
<1>10. ASSUME result'[i] = result[i] \/ ~result'[i].vulnerable PROVE VerdictFounded(i)'
  BY <1>6, <1>10 DEF Founded, VerdictFounded
<1>11. ~Failure.vulnerable
  BY DEF Failure
<1> USE DEF call
<1>12. CASE Acquire(i)
  <2>1. evidence' = evidence
    BY <1>12 DEF Acquire
  <2>2. CASE Refused(i)
    <3>1. result' = [result EXCEPT ![i] = Failure] /\ Goto(i, "release")
      BY <1>12, <2>2 DEF Acquire
    <3>2. result'[i] = Failure /\ pc'[i] = "release"
      BY <3>1, GotoTypes, ResultTypes
    <3> QED BY <1>7, <1>8, <1>9, <1>10, <1>11, <2>1, <3>2 DEF Founded
  <2>3. CASE ~Refused(i)
    <3>1. result' = result /\ Goto(i, "check")
      BY <1>12, <2>3 DEF Acquire
    <3>2. pc'[i] = "check"
      BY <3>1, GotoTypes
    <3> QED BY <1>7, <1>8, <1>9, <1>10, <2>1, <3>1, <3>2 DEF Founded
  <2> QED BY <2>2, <2>3
<1>13. CASE Expire(i)
  <2>1. UNCHANGED <<pc, at, evidence, met, result>> /\ pc[i] # "evaluate"
    BY <1>13 DEF Expire
  <2>2. ReadFounded(i)'
    BY <1>2, <1>3, <1>6, <2>1 DEF Founded, ReadFounded
  <2> QED BY <1>7, <1>9, <1>10, <2>1, <2>2 DEF Founded
<1>14. CASE HashJob(i) \/ RegistryJob(i) \/ ConfigJob(i)
  <2>1. pc[i] \in {"check", "read"}
    BY <1>14 DEF HashJob, RegistryJob, ConfigJob, HashStat, HashRead, HashReadFails, KeyCheck, KeyCheckFails,
                KeyRead, KeyReadFails, RegistryExpires, ConfigStat, ConfigRead, ConfigReadFails
  <2>2. PICK target \in TargetRecords, k \in 1..Len(targets) :
          target = Target(i) /\ k = at[i] /\ Target(i) = targets[k] /\ Target(i).place \in Places
    BY <1>2, <2>1, TargetTypes
  <2>3. machine[target.place] \in seen[target.place] /\ LookedAt(i) = machine[target.place] /\ target = Targets(i)[k]
    BY <1>2, <2>2, PlaceTypes DEF LookedAt
  <2>4. CASE Enters(i)
    <3>1. pc'[i] = "read" /\ UNCHANGED <<at, look, evidence, met, result>> /\ There(i, LookedAt(i))
      BY <2>4, GotoTypes DEF Enters
    <3>2. ThereOnce(i, k)
      BY <2>3, <3>1 DEF ThereOnce
    <3>3. ReadFounded(i)'
      BY <1>6, <2>2, <3>1, <3>2 DEF ReadFounded
    <3> QED BY <1>7, <1>9, <1>10, <3>1, <3>3 DEF Founded
  <2>5. CASE RegistryExpires(i)
    <3>1. result' = [result EXCEPT ![i] = Failure] /\ Goto(i, "release") /\ UNCHANGED <<at, look, evidence, met>>
      BY <2>5 DEF RegistryExpires
    <3>2. result'[i] = Failure /\ pc'[i] = "release"
      BY <3>1, GotoTypes, ResultTypes
    <3> QED BY <1>7, <1>8, <1>9, <1>10, <1>11, <3>1, <3>2 DEF Founded
  <2>6. ASSUME NEW exists \in BOOLEAN, NEW matches \in BOOLEAN, Noted(i, exists, matches) PROVE Founded(i)'
    <3>1. /\ Record(i, exists, matches) /\ UNCHANGED <<look, met, result>>
          /\ exists <=> pc[i] = "read"
          /\ matches => Fits(i, target, LookedAt(i))
      BY <2>2, <2>6 DEF Noted
    <3>2. PICK piece \in Pieces : piece = [place |-> target.place, exists |-> exists, matches |-> matches]
      BY <2>2 DEF Pieces
    <3>3. /\ evidence'[i] = Append(evidence[i], piece)
          /\ (at'[i] = 1 /\ pc'[i] = "evaluate") \/ pc'[i] = "check"
      BY <2>2, <3>1, <3>2, RecordIs
    <3>4. Len(evidence[i]) = k - 1
      BY <2>1, <2>2 DEF Position
    <3>5. /\ piece.place = targets[k].place
          /\ piece.exists => ThereOnce(i, k)
          /\ piece.matches => FitOnce(i, k)
      <4>1. piece.exists => ThereOnce(i, k)
        BY <1>2, <2>2, <3>1, <3>2 DEF Founded, ReadFounded
      <4>2. piece.matches => FitOnce(i, k)
        BY <2>3, <3>1, <3>2 DEF FitOnce
      <4> QED BY <2>2, <3>2, <4>1, <4>2
    <3>6. ASSUME NEW n \in 1..Len(Append(evidence[i], piece))
          PROVE  /\ Append(evidence[i], piece)[n].place = targets[n].place
                 /\ Append(evidence[i], piece)[n].exists => ThereOnce(i, n)
                 /\ Append(evidence[i], piece)[n].matches => FitOnce(i, n)
      <4>1. CASE n = k
        <5>1. Append(evidence[i], piece)[n] = piece
          BY <1>5, <3>4, <4>1
        <5> QED BY <3>5, <4>1, <5>1
      <4>2. CASE n # k
        <5>1. n \in 1..Len(evidence[i]) /\ Append(evidence[i], piece)[n] = evidence[i][n]
          BY <1>5, <3>4, <4>2
        <5> QED BY <1>2, <5>1 DEF Founded, EvidenceFounded
      <4> QED BY <4>1, <4>2
    <3>7. EvidenceFounded(i)'
      BY <1>3, <1>6, <3>3, <3>6 DEF EvidenceFounded
    <3>8. HitsFounded(i)'
      BY <3>3 DEF HitsFounded
    <3> QED BY <1>8, <1>10, <3>1, <3>3, <3>7, <3>8 DEF Founded
  <2> QED BY <1>14, <2>2, <2>4, <2>5, <2>6, LookSteps
<1>15. CASE Evaluate(i)
  <2>1. pc[i] = "evaluate" /\ at[i] <= Len(conditions) /\ UNCHANGED <<pc, evidence, result>>
    BY <1>2, <1>15 DEF Evaluate
  <2>2. IF Meets(i, Conditions(i)[at[i]], evidence[i][look[i]])
        THEN met'[i] = met[i] + 1 /\ at'[i] = at[i] + 1 /\ look'[i] = 1
        ELSE /\ met'[i] = met[i]
             /\ IF look[i] = Len(evidence[i]) THEN at'[i] = at[i] + 1 /\ look'[i] = 1
                ELSE at'[i] = at[i] /\ look'[i] = look[i] + 1
    BY <1>15, EvaluateIs
  <2>3. /\ at[i] \in 1..Len(conditions) /\ Len(evidence[i]) = Len(targets) /\ look[i] \in 1..Len(targets)
        /\ met[i] <= at[i] - 1
    BY <1>2, <1>4, <2>1 DEF Position
  <2>4. PICK c \in 1..Len(conditions), k \in 1..Len(targets) : c = at[i] /\ k = look[i]
    BY <2>3
  <2>5. met[i] = c - 1 => \A d \in 1..(c - 1) : conditions[d].value => ShownOnce(i, d)
    BY <1>2, <2>1, <2>4 DEF Founded, HitsFounded
  <2>6. CASE Meets(i, conditions[c], evidence[i][k])
    <3>1. met'[i] = met[i] + 1 /\ at'[i] = c + 1
      BY <1>2, <2>2, <2>4, <2>6
    <3>2. conditions[c].value => ShownOnce(i, c)
      <4>1. PICK condition \in ConditionRecords : condition = conditions[c]
        BY <1>4
      <4>2. k \in 1..Len(evidence[i])
        BY <2>3, <2>4
      <4>3. condition.value => \E content \in seen[Targets(i)[k].place] : Shows(i, condition, Targets(i)[k], content)
        BY <2>6, <4>1, <4>2, MeetsWasShown
      <4> QED BY <1>2, <4>1, <4>3 DEF ShownOnce
    <3>3. met'[i] = at'[i] - 1 => met[i] = c - 1
      BY <1>5, <3>1
    <3>4. \A d \in 1..(at'[i] - 1) : d = c \/ d \in 1..(c - 1)
      BY <3>1
    <3>5. HitsFounded(i)'
      BY <1>3, <1>6, <2>5, <3>2, <3>3, <3>4 DEF HitsFounded
    <3> QED BY <1>7, <1>8, <1>10, <2>1, <3>5 DEF Founded
  <2>7. CASE ~Meets(i, conditions[c], evidence[i][k])
    <3>1. met'[i] = met[i] /\ (at'[i] = c + 1 \/ at'[i] = c)
      BY <1>2, <2>2, <2>4, <2>7
    <3>2. met'[i] = at'[i] - 1 => at'[i] = c /\ met[i] = c - 1
      BY <1>5, <2>3, <2>4, <3>1
    <3>3. HitsFounded(i)'
      BY <1>3, <1>6, <2>5, <3>2 DEF HitsFounded
    <3> QED BY <1>7, <1>8, <1>10, <2>1, <3>3 DEF Founded
  <2> QED BY <2>6, <2>7
<1>16. CASE Conclude(i)
  <2>1. /\ result' = [result EXCEPT ![i] = Answer(Vulnerable(met[i], Len(Conditions(i))))] /\ Goto(i, "release")
        /\ UNCHANGED <<at, look, evidence, met>> /\ pc[i] = "evaluate" /\ at[i] > Len(conditions)
    BY <1>2, <1>16 DEF Conclude
  <2>2. Vulnerable(met[i], Len(Conditions(i))) \in BOOLEAN
    BY DEF Vulnerable
  <2>3. PICK vulnerable \in BOOLEAN : vulnerable = Vulnerable(met[i], Len(conditions))
    BY <1>2, <2>2
  <2>4. result'[i].vulnerable = vulnerable /\ pc'[i] = "release"
    <3>1. Answer(vulnerable) \in {NoResult, Failure, Answer(TRUE), Answer(FALSE)}
      OBVIOUS
    <3>2. result'[i] = Answer(vulnerable)
      BY <1>2, <2>1, <2>3, <3>1, ResultTypes
    <3> QED BY <2>1, <3>2, GotoTypes DEF Answer
  <2>5. vulnerable => Len(conditions) > 0 /\ met[i] = at[i] - 1 /\ at[i] = Len(conditions) + 1
    <3>1. vulnerable => met[i] = Len(conditions) /\ Len(conditions) > 0
      BY <2>3 DEF Vulnerable
    <3>2. at[i] \in 1..(Len(conditions) + 1)
      BY <1>2, <2>1 DEF Position
    <3> QED BY <1>4, <1>5, <2>1, <3>1, <3>2
  <2>6. vulnerable => Witnessed(i)
    BY <1>2, <1>4, <2>1, <2>5 DEF Witnessed, Founded, HitsFounded
  <2>7. VerdictFounded(i)'
    BY <1>6, <2>4, <2>6 DEF VerdictFounded
  <2> QED BY <1>7, <1>8, <1>9, <2>1, <2>4, <2>7 DEF Founded
<1>17. CASE Release(i)
  <2>1. pc'[i] = "report" /\ UNCHANGED <<evidence, result>>
    BY <1>17, GotoTypes DEF Release
  <2> QED BY <1>7, <1>8, <1>9, <1>10, <2>1 DEF Founded
<1>18. CASE Report(i)
  <2>1. pc'[i] = "ended" /\ UNCHANGED <<evidence, result>>
    BY <1>18, GotoTypes DEF Report
  <2> QED BY <1>7, <1>8, <1>9, <1>10, <2>1 DEF Founded
<1> QED BY <1>12, <1>13, <1>14, <1>15, <1>16, <1>17, <1>18 DEF Work

\* On a machine that nobody changes, and when its looks do not fail, what a
\* goroutine finds is what the machine holds.
LEMMA ExactStep ==
    ASSUME CallTypes, WorldTypes, JobTypes, NEW i \in Jobs, Position(i), Founded(i), Exact(i),
           expired[i] => i \in failed, i \notin failed', Work(i) \/ Expire(i)
    PROVE  Exact(i)'
<1>1. UNCHANGED <<world, batch>> /\ JobTypes'
  BY WorkTypes
<1>2. PICK targets, conditions : targets = Targets(i) /\ conditions = Conditions(i)
  OBVIOUS
<1>3. Targets(i)' = targets /\ Conditions(i)' = conditions
  BY <1>1, <1>2, SameCall
<1>4. targets \in Seq(TargetRecords) /\ Len(targets) \in Nat /\ Len(targets) > 0
      /\ conditions \in Seq(ConditionRecords) /\ Len(conditions) \in Nat
  BY <1>2, ConditionTypes
<1>5. /\ at[i] \in Nat /\ look[i] \in Nat /\ met[i] \in Nat /\ evidence[i] \in Seq(Pieces) /\ Len(evidence[i]) \in Nat
  BY DEF JobTypes
<1>6. /\ \A k : (ThereNow(i, k)' <=> ThereNow(i, k)) /\ (FitsNow(i, k)' <=> FitsNow(i, k))
      /\ \A c : Holds(i, c)' <=> Holds(i, c)
      /\ \A c, t : Shown(i, c, t)' <=> Shown(i, c, t)
      /\ Decision(i)' <=> Decision(i)
  BY <1>1, SameWorld
<1>7. ASSUME evidence'[i] = evidence[i] PROVE EvidenceExact(i)'
  BY <1>6, <1>7 DEF Exact, EvidenceExact
<1>8. ASSUME pc'[i] # "read" PROVE ReadExact(i)'
  BY <1>8 DEF ReadExact
<1>9. ASSUME pc'[i] # "evaluate" PROVE HitsExact(i)'
  BY <1>9 DEF HitsExact
<1>10. ASSUME result'[i] = result[i] PROVE VerdictExact(i)'
  BY <1>6, <1>10 DEF Exact, VerdictExact
<1> USE DEF call
<1>11. CASE Acquire(i)
  <2>1. evidence' = evidence
    BY <1>11 DEF Acquire
  <2>2. CASE Refused(i)
    <3>1. result' = [result EXCEPT ![i] = Failure] /\ Goto(i, "release")
      BY <1>11, <2>2 DEF Acquire
    <3>2. result'[i] = Failure /\ pc'[i] = "release"
      BY <3>1, GotoTypes, ResultTypes
    <3>3. ~Decision(i)
      BY <2>2 DEF Decision
    <3>4. VerdictExact(i)'
      BY <1>6, <3>2, <3>3 DEF VerdictExact, Failure
    <3> QED BY <1>7, <1>8, <1>9, <2>1, <3>2, <3>4 DEF Exact
  <2>3. CASE ~Refused(i)
    <3>1. result' = result /\ Goto(i, "check")
      BY <1>11, <2>3 DEF Acquire
    <3>2. pc'[i] = "check"
      BY <3>1, GotoTypes
    <3> QED BY <1>7, <1>8, <1>9, <1>10, <2>1, <3>1, <3>2 DEF Exact
  <2> QED BY <2>2, <2>3
<1>12. ~Expire(i)
  BY DEF Expire
<1>13. CASE HashJob(i) \/ RegistryJob(i) \/ ConfigJob(i)
  <2>1. pc[i] \in {"check", "read"}
    BY <1>13 DEF HashJob, RegistryJob, ConfigJob, HashStat, HashRead, HashReadFails, KeyCheck, KeyCheckFails,
                KeyRead, KeyReadFails, RegistryExpires, ConfigStat, ConfigRead, ConfigReadFails
  <2>2. PICK target \in TargetRecords, k \in 1..Len(targets) :
          target = Target(i) /\ k = at[i] /\ Target(i) = targets[k] /\ Target(i).place \in Places
    BY <1>2, <2>1, TargetTypes
  <2>3. LookedAt(i) = machine[target.place] /\ target = Targets(i)[k]
    BY <1>2, <2>2 DEF LookedAt
  <2>4. CASE Enters(i)
    <3>1. pc'[i] = "read" /\ UNCHANGED <<at, look, evidence, met, result>> /\ There(i, LookedAt(i))
      BY <2>4, GotoTypes DEF Enters
    <3>2. ThereNow(i, k)
      BY <2>3, <3>1 DEF ThereNow
    <3>3. ReadExact(i)'
      BY <1>6, <2>2, <3>1, <3>2 DEF ReadExact
    <3> QED BY <1>7, <1>9, <1>10, <3>1, <3>3 DEF Exact
  <2>5. ~RegistryExpires(i)
    BY DEF RegistryExpires
  <2>6. ASSUME NEW exists \in BOOLEAN, NEW matches \in BOOLEAN, Noted(i, exists, matches) PROVE Exact(i)'
    <3>1. /\ Record(i, exists, matches) /\ UNCHANGED <<look, met, result>>
          /\ exists <=> pc[i] = "read"
          /\ pc[i] = "check" => ~There(i, LookedAt(i))
          /\ matches <=> Fits(i, target, LookedAt(i))
      BY <2>2, <2>6 DEF Noted
    <3>2. PICK piece \in Pieces : piece = [place |-> target.place, exists |-> exists, matches |-> matches]
      BY <2>2 DEF Pieces
    <3>3. /\ evidence'[i] = Append(evidence[i], piece)
          /\ (at'[i] = 1 /\ pc'[i] = "evaluate") \/ pc'[i] = "check"
      BY <2>2, <3>1, <3>2, RecordIs
    <3>4. Len(evidence[i]) = k - 1 /\ look[i] = 1 /\ met[i] = 0
      BY <2>1, <2>2 DEF Position
    <3>5. (piece.exists <=> ThereNow(i, k)) /\ (piece.matches <=> FitsNow(i, k))
      <4>1. pc[i] = "read" => ThereNow(i, k)
        BY <1>2, <2>2 DEF Exact, ReadExact
      <4>2. pc[i] = "check" => ~ThereNow(i, k)
        BY <2>3, <3>1 DEF ThereNow
      <4>3. piece.matches <=> FitsNow(i, k)
        BY <2>3, <3>1, <3>2 DEF FitsNow
      <4> QED BY <2>1, <3>1, <3>2, <4>1, <4>2, <4>3
    <3>6. ASSUME NEW n \in 1..Len(Append(evidence[i], piece))
          PROVE  /\ Append(evidence[i], piece)[n].exists <=> ThereNow(i, n)
                 /\ Append(evidence[i], piece)[n].matches <=> FitsNow(i, n)
      <4>1. CASE n = k
        <5>1. Append(evidence[i], piece)[n] = piece
          BY <1>5, <3>4, <4>1
        <5> QED BY <3>5, <4>1, <5>1
      <4>2. CASE n # k
        <5>1. n \in 1..Len(evidence[i]) /\ Append(evidence[i], piece)[n] = evidence[i][n]
          BY <1>5, <3>4, <4>2
        <5> QED BY <5>1 DEF Exact, EvidenceExact
      <4> QED BY <4>1, <4>2
    <3>7. EvidenceExact(i)'
      BY <1>6, <3>3, <3>6 DEF EvidenceExact
    <3>8. CASE pc'[i] = "evaluate"
      <4>1. at'[i] = 1 /\ met'[i] = 0 /\ look'[i] = 1
        BY <3>1, <3>3, <3>4, <3>8
      <4>2. HitsExact(i)'
        BY <4>1 DEF HitsExact
      <4> QED BY <1>8, <1>10, <3>1, <3>7, <3>8, <4>2 DEF Exact
    <3>9. CASE pc'[i] = "check"
      BY <1>8, <1>9, <1>10, <3>1, <3>7, <3>9 DEF Exact
    <3> QED BY <3>3, <3>8, <3>9
  <2> QED BY <1>13, <2>2, <2>4, <2>5, <2>6, LookSteps
<1>14. CASE Evaluate(i)
  <2>1. pc[i] = "evaluate" /\ at[i] <= Len(conditions) /\ UNCHANGED <<pc, evidence, result>>
    BY <1>2, <1>14 DEF Evaluate
  <2>2. IF Meets(i, Conditions(i)[at[i]], evidence[i][look[i]])
        THEN met'[i] = met[i] + 1 /\ at'[i] = at[i] + 1 /\ look'[i] = 1
        ELSE /\ met'[i] = met[i]
             /\ IF look[i] = Len(evidence[i]) THEN at'[i] = at[i] + 1 /\ look'[i] = 1
                ELSE at'[i] = at[i] /\ look'[i] = look[i] + 1
    BY <1>14, EvaluateIs
  <2>3. /\ at[i] \in 1..Len(conditions) /\ Len(evidence[i]) = Len(targets) /\ look[i] \in 1..Len(targets)
        /\ met[i] <= at[i] - 1 /\ Known(i)
    BY <1>2, <1>4, <2>1 DEF Position
  <2>4. PICK c \in 1..Len(conditions), k \in 1..Len(targets) : c = at[i] /\ k = look[i]
    BY <2>3
  <2>5. /\ met[i] = c - 1 <=> \A d \in 1..(c - 1) : Holds(i, d)
        /\ \A t \in 1..(k - 1) : ~Shown(i, c, t)
    BY <1>2, <2>1, <2>4 DEF Exact, HitsExact
  <2>6. Meets(i, conditions[c], evidence[i][k]) <=> Shown(i, c, k)
    BY <1>2, <2>3, <2>4, MeetsIsShown
  <2>7. CASE Shown(i, c, k)
    <3>1. met'[i] = met[i] + 1 /\ at'[i] = c + 1 /\ look'[i] = 1
      BY <1>2, <2>2, <2>4, <2>6, <2>7
    <3>2. Holds(i, c)
      BY <1>2, <2>7 DEF Holds
    <3>3. met'[i] = at'[i] - 1 <=> met[i] = c - 1
      BY <1>5, <3>1
    <3>4. \A d : d \in 1..(at'[i] - 1) <=> d = c \/ d \in 1..(c - 1)
      BY <3>1
    <3>5. met'[i] = at'[i] - 1 <=> \A d \in 1..(at'[i] - 1) : Holds(i, d)
      BY <2>5, <3>2, <3>3, <3>4
    <3>6. HitsExact(i)'
      BY <1>3, <1>6, <3>1, <3>5 DEF HitsExact
    <3> QED BY <1>7, <1>8, <1>10, <2>1, <3>6 DEF Exact
  <2>8. CASE ~Shown(i, c, k)
    <3>1. /\ met'[i] = met[i]
          /\ IF k = Len(targets) THEN at'[i] = c + 1 /\ look'[i] = 1 ELSE at'[i] = c /\ look'[i] = k + 1
      BY <1>2, <2>2, <2>3, <2>4, <2>6, <2>8
    <3>2. \A t \in 1..k : ~Shown(i, c, t)
      <4>1. \A t \in 1..k : t = k \/ t \in 1..(k - 1)
        OBVIOUS
      <4> QED BY <2>5, <2>8, <4>1
    <3>3. CASE k = Len(targets)
      <4>1. at'[i] = c + 1 /\ look'[i] = 1
        BY <3>1, <3>3
      <4>2. ~Holds(i, c)
        BY <1>2, <3>2, <3>3 DEF Holds
      <4>3. c \in 1..(at'[i] - 1) /\ met'[i] # at'[i] - 1
        BY <1>5, <2>3, <2>4, <3>1, <4>1
      <4>4. met'[i] = at'[i] - 1 <=> \A d \in 1..(at'[i] - 1) : Holds(i, d)
        BY <4>2, <4>3
      <4>5. HitsExact(i)'
        BY <1>3, <1>6, <4>1, <4>4 DEF HitsExact
      <4> QED BY <1>7, <1>8, <1>10, <2>1, <4>5 DEF Exact
    <3>4. CASE k # Len(targets)
      <4>1. at'[i] = c /\ look'[i] = k + 1 /\ look'[i] - 1 = k
        BY <3>1, <3>4
      <4>2. HitsExact(i)'
        BY <1>3, <1>6, <2>5, <3>1, <3>2, <4>1 DEF HitsExact
      <4> QED BY <1>7, <1>8, <1>10, <2>1, <4>2 DEF Exact
    <3> QED BY <3>3, <3>4
  <2> QED BY <2>7, <2>8
<1>15. CASE Conclude(i)
  <2>1. /\ result' = [result EXCEPT ![i] = Answer(Vulnerable(met[i], Len(Conditions(i))))] /\ Goto(i, "release")
        /\ UNCHANGED <<at, look, evidence, met>> /\ pc[i] = "evaluate" /\ at[i] > Len(conditions)
    BY <1>2, <1>15 DEF Conclude
  <2>2. Vulnerable(met[i], Len(Conditions(i))) \in BOOLEAN
    BY DEF Vulnerable
  <2>3. PICK vulnerable \in BOOLEAN : vulnerable = Vulnerable(met[i], Len(conditions))
    BY <1>2, <2>2
  <2>4. result'[i].vulnerable = vulnerable /\ pc'[i] = "release"
    <3>1. Answer(vulnerable) \in {NoResult, Failure, Answer(TRUE), Answer(FALSE)}
      OBVIOUS
    <3>2. result'[i] = Answer(vulnerable)
      BY <1>2, <2>1, <2>3, <3>1, ResultTypes
    <3> QED BY <2>1, <3>2, GotoTypes DEF Answer
  <2>5. at[i] = Len(conditions) + 1 /\ Known(i)
    BY <1>2, <1>4, <1>5, <2>1 DEF Position
  <2>6. vulnerable <=> met[i] = at[i] - 1 /\ Len(conditions) > 0
    <3>1. vulnerable <=> met[i] = Len(conditions) /\ Len(conditions) > 0
      BY <2>3 DEF Vulnerable
    <3>2. met[i] = Len(conditions) <=> met[i] = at[i] - 1
      BY <1>4, <1>5, <2>5
    <3> QED BY <3>1, <3>2
  <2>7. met[i] = at[i] - 1 <=> \A c \in 1..Len(conditions) : Holds(i, c)
    BY <1>4, <2>1, <2>5 DEF Exact, HitsExact
  <2>8. ~Refused(i)
    <3>1. targets # <<>>
      BY <1>4
    <3> QED BY <1>2, <2>5, <3>1 DEF Refused, Known
  <2>9. Len(conditions) > 0 <=> conditions # <<>>
    BY <1>4
  <2>10. vulnerable <=> Decision(i)
    BY <1>2, <2>6, <2>7, <2>8, <2>9 DEF Decision
  <2>11. VerdictExact(i)'
    BY <1>6, <2>4, <2>10 DEF VerdictExact
  <2> QED BY <1>7, <1>8, <1>9, <2>1, <2>4, <2>11 DEF Exact
<1>16. CASE Release(i)
  <2>1. pc'[i] = "report" /\ UNCHANGED <<evidence, result>>
    BY <1>16, GotoTypes DEF Release
  <2> QED BY <1>7, <1>8, <1>9, <1>10, <2>1 DEF Exact
<1>17. CASE Report(i)
  <2>1. pc'[i] = "ended" /\ UNCHANGED <<evidence, result>>
    BY <1>17, GotoTypes DEF Report
  <2> QED BY <1>7, <1>8, <1>9, <1>10, <2>1 DEF Exact
<1> QED BY <1>11, <1>12, <1>13, <1>14, <1>15, <1>16, <1>17 DEF Work

-----------------------------------------------------------------------------
(***************************************************************************)
(* The caller and the semaphore.                                           *)
(***************************************************************************)
LEMMA JobSets ==
    ASSUME CallTypes, JobTypes
    PROVE  /\ IsFiniteSet(Jobs) /\ Cardinality(Jobs) = Len(batch) /\ Len(batch) \in Nat
           /\ EndedJobs \subseteq Jobs /\ IsFiniteSet(EndedJobs) /\ Cardinality(EndedJobs) \in Nat
           /\ Running \subseteq Jobs /\ IsFiniteSet(Running) /\ Cardinality(Running) \in Nat
<1>1. Jobs = 1..Len(batch) /\ Len(batch) \in Nat
  BY DEF CallTypes, Jobs
<1>2. PICK last \in Nat : last = Len(batch)
  BY <1>1
<1>3. IsFiniteSet(1..last) /\ Cardinality(1..last) = IF 1 > last THEN 0 ELSE last - 1 + 1
  BY FS_Interval
<1>4. IsFiniteSet(Jobs) /\ Cardinality(Jobs) = Len(batch)
  BY <1>1, <1>2, <1>3
<1>5. EndedJobs \subseteq Jobs /\ Running \subseteq Jobs
  BY DEF EndedJobs, Running
<1>6. IsFiniteSet(EndedJobs) /\ IsFiniteSet(Running)
  BY <1>4, <1>5, FS_Subset
<1> QED BY <1>1, <1>4, <1>5, <1>6, FS_CardinalityType

\* A goroutine is counted by the caller when it ends, and by the semaphore
\* from the step that lets it in to the one that releases its token.
LEMMA CountedStep ==
    ASSUME CallTypes, JobTypes, Counted, NEW i \in Jobs, Position(i), Work(i) \/ Expire(i)
    PROVE  Counted'
<1>1. UNCHANGED <<world, batch, caller>> /\ JobTypes' /\ \A j \in Jobs \ {i} : pc'[j] = pc[j]
  BY WorkTypes DEF Apart
<1>2. Jobs' = Jobs
  BY <1>1, SameCall
<1>3. /\ EndedJobs' = IF pc'[i] = "ended" THEN EndedJobs \cup {i} ELSE EndedJobs \ {i}
      /\ Running' = IF pc'[i] \in {"queued", "report", "ended"} THEN Running \ {i} ELSE Running \cup {i}
  BY <1>1, <1>2 DEF EndedJobs, Running
<1>4. /\ pc[i] = "ended" <=> i \in EndedJobs
      /\ pc[i] \in {"queued", "report", "ended"} <=> i \notin Running
  BY DEF EndedJobs, Running
<1>5. /\ IsFiniteSet(EndedJobs) /\ IsFiniteSet(Running) /\ EndedJobs \subseteq Jobs
      /\ Cardinality(EndedJobs) \in Nat /\ Cardinality(Running) \in Nat /\ MaxConcurrency \in Nat
  BY JobSets, DetectionAssumption
<1>6. CASE Acquire(i)
  <2>1. pc[i] = "queued" /\ Cardinality(Running) < MaxConcurrency /\ done' = done
    BY <1>6 DEF Acquire, call
  <2>2. pc'[i] \in {"release", "check"}
    BY <1>6, GotoTypes DEF Acquire
  <2>3. EndedJobs' = EndedJobs /\ Running' = Running \cup {i} /\ i \notin Running
    BY <1>3, <1>4, <2>1, <2>2
  <2>4. Cardinality(Running \cup {i}) = Cardinality(Running) + 1
    BY <1>5, <2>3, FS_AddElement
  <2>5. Cardinality(Running)' <= MaxConcurrency
    BY <1>5, <2>1, <2>3, <2>4
  <2> QED BY <1>1, <1>2, <2>1, <2>3, <2>5 DEF Counted
<1>7. CASE Report(i)
  <2>1. pc[i] = "report" /\ done' = done + 1
    BY <1>7 DEF Report
  <2>2. pc'[i] = "ended"
    BY <1>7, GotoTypes DEF Report
  <2>3. EndedJobs' = EndedJobs \cup {i} /\ i \notin EndedJobs /\ Running' = Running
    BY <1>3, <1>4, <2>1, <2>2
  <2>4. Cardinality(EndedJobs \cup {i}) = Cardinality(EndedJobs) + 1
    BY <1>5, <2>3, FS_AddElement
  <2>5. done' = Cardinality(EndedJobs)'
    BY <2>1, <2>3, <2>4 DEF Counted
  <2>6. caller # "returned"
    BY <2>3 DEF Counted
  <2> QED BY <1>1, <2>3, <2>5, <2>6 DEF Counted
<1>8. CASE ~Acquire(i) /\ ~Report(i)
  <2>1. done' = done
    BY <1>8 DEF Work, HashJob, RegistryJob, ConfigJob, HashStat, HashRead, HashReadFails, KeyCheck, KeyCheckFails,
                KeyRead, KeyReadFails, RegistryExpires, ConfigStat, ConfigRead, ConfigReadFails, Look, Read,
                ReadFails, Evaluate, Conclude, Release, Expire, call
  <2>2. pc[i] \in {"check", "read", "evaluate", "release"} /\ pc'[i] \notin {"queued", "ended"}
    <3>1. CASE HashJob(i) \/ RegistryJob(i) \/ ConfigJob(i)
      <4>1. pc[i] \in {"check", "read"}
        BY <3>1 DEF HashJob, RegistryJob, ConfigJob, HashStat, HashRead, HashReadFails, KeyCheck, KeyCheckFails,
                    KeyRead, KeyReadFails, RegistryExpires, ConfigStat, ConfigRead, ConfigReadFails
      <4>2. Target(i) \in TargetRecords /\ Target(i).place \in Places
        BY <4>1, TargetTypes
      <4>3. CASE Enters(i)
        BY <4>1, <4>3, GotoTypes DEF Enters
      <4>4. CASE RegistryExpires(i)
        BY <4>1, <4>4, GotoTypes DEF RegistryExpires
      <4>5. ASSUME NEW exists \in BOOLEAN, NEW matches \in BOOLEAN, Noted(i, exists, matches)
            PROVE  pc'[i] \notin {"queued", "ended"}
        BY <4>2, <4>5, RecordIs DEF Noted
      <4> QED BY <3>1, <4>1, <4>2, <4>3, <4>4, <4>5, LookSteps
    <3>2. CASE Evaluate(i)
      BY <3>2 DEF Evaluate
    <3>3. CASE Conclude(i)
      BY <3>3, GotoTypes DEF Conclude
    <3>4. CASE Release(i)
      BY <3>4, GotoTypes DEF Release
    <3>5. CASE Expire(i)
      BY <3>5 DEF Expire
    <3> QED BY <1>8, <3>1, <3>2, <3>3, <3>4, <3>5 DEF Work
  <2>3. EndedJobs' = EndedJobs /\ Running' \subseteq Running
    BY <1>3, <1>4, <2>2
  <2>4. PICK now : now = Running'
    OBVIOUS
  <2>5. Cardinality(now) <= Cardinality(Running) /\ Cardinality(now) \in Nat
    BY <1>5, <2>3, <2>4, FS_Subset, FS_CardinalityType
  <2>6. Cardinality(Running') <= MaxConcurrency
    BY <1>5, <2>4, <2>5 DEF Counted
  <2> QED BY <1>1, <1>2, <2>1, <2>3, <2>6 DEF Counted
<1> QED BY <1>6, <1>7, <1>8

LEMMA WorldInit == Init => WorldTypes
<1> SUFFICES ASSUME Init PROVE WorldTypes
  OBVIOUS
<1>1. machine \in [Places -> Something] /\ seen = [p \in Places |-> {machine[p]}] /\ changes = 0
  BY DEF Init, Something
<1>2. \A p \in Places : machine[p] \in Contents(p)
  BY DEF Init, Contents
<1>3. \A p \in Places : seen[p] = {machine[p]} /\ machine[p] \in Something
  BY <1>1
<1>4. seen \in [Places -> SUBSET Something]
  BY <1>1, <1>3
<1>5. changes \in 0..MaxChanges
  BY <1>1, DetectionAssumption
<1> QED BY <1>1, <1>2, <1>3, <1>4, <1>5 DEF WorldTypes

LEMMA JobsInit ==
    ASSUME Init, CallTypes
    PROVE  /\ JobTypes /\ Counted
           /\ \A i \in Jobs : Position(i) /\ Founded(i) /\ Exact(i) /\ ~expired[i]
<1>1. /\ pc = [i \in Jobs |-> "queued"] /\ at = [i \in Jobs |-> 1] /\ look = [i \in Jobs |-> 1]
      /\ evidence = [i \in Jobs |-> <<>>] /\ met = [i \in Jobs |-> 0] /\ expired = [i \in Jobs |-> FALSE]
      /\ result = [i \in Jobs |-> NoResult] /\ failed = {} /\ caller = "waiting" /\ done = 0
  BY DEF Init
<1>2. JobTypes
  BY <1>1 DEF JobTypes
<1>3. EndedJobs = {} /\ Running = {}
  BY <1>1 DEF EndedJobs, Running
<1>4. Counted
  BY <1>1, <1>3, FS_EmptySet, DetectionAssumption DEF Counted
<1>5. ASSUME NEW i \in Jobs
      PROVE  Position(i) /\ Founded(i) /\ Exact(i) /\ ~expired[i]
  <2>1. /\ pc[i] = "queued" /\ at[i] = 1 /\ look[i] = 1 /\ evidence[i] = <<>> /\ met[i] = 0 /\ ~expired[i]
        /\ result[i] = NoResult /\ Len(evidence[i]) = 0
    BY <1>1
  <2>2. ~result[i].vulnerable /\ ~result[i].present
    BY <2>1 DEF NoResult
  <2>3. 0 <= Len(Conditions(i)) /\ 0 <= Len(Targets(i))
    BY ConditionTypes
  <2>4. Position(i)
    BY <2>1, <2>3 DEF Position, Early
  <2>5. Founded(i)
    BY <2>1, <2>2 DEF Founded, EvidenceFounded, ReadFounded, HitsFounded, VerdictFounded
  <2>6. Exact(i)
    BY <2>1, <2>2 DEF Exact, EvidenceExact, ReadExact, HitsExact, VerdictExact
  <2> QED BY <2>1, <2>4, <2>5, <2>6
<1> QED BY <1>2, <1>4, <1>5

LEMMA EngineInvInit == Init => EngineInv
<1> SUFFICES ASSUME Init PROVE EngineInv
  OBVIOUS
<1>1. CallTypes /\ WorldTypes
  BY CallTypesInit, WorldInit
<1>2. JobTypes /\ Counted /\ \A i \in Jobs : Position(i) /\ Founded(i) /\ Exact(i) /\ ~expired[i]
  BY <1>1, JobsInit
<1> QED BY <1>1, <1>2 DEF EngineInv, Findings

\* The machine is changed and the goroutines stay as they are.
LEMMA ChangeKeeps == EngineInv /\ Change => EngineInv'
<1> SUFFICES ASSUME EngineInv, Change PROVE EngineInv'
  OBVIOUS
<1> USE DEF EngineInv
<1>1. /\ WorldTypes' /\ changes' # 0
      /\ UNCHANGED <<call, pc, at, look, evidence, met, expired, result, failed>>
  BY ChangeKeepsSeen
<1>2. batch' = batch /\ caller' = caller /\ done' = done
  BY <1>1 DEF call
<1>3. /\ Jobs' = Jobs
      /\ \A i : Type(i)' = Type(i) /\ Targets(i)' = Targets(i) /\ Conditions(i)' = Conditions(i)
  BY <1>2, SameCall
<1>4. CallTypes'
  BY <1>2, <1>3 DEF CallTypes
<1>5. JobTypes'
  BY <1>1, <1>3 DEF JobTypes
<1>6. Counted'
  BY <1>1, <1>2, <1>3 DEF Counted, EndedJobs, Running
<1>7. ASSUME NEW i \in Jobs
      PROVE  Position(i)' /\ Founded(i)' /\ (expired'[i] => i \in failed')
  <2>1. Position(i) /\ Founded(i) /\ (expired[i] => i \in failed)
    BY DEF Findings
  <2>2. Apart(i)
    BY <1>1 DEF Apart
  <2>3. Position(i)'
    BY <1>2, <2>1, <2>2, ApartKeepsPosition
  <2>4. Len(evidence[i]) \in Nat /\ Len(Targets(i)) \in Nat /\ Len(evidence[i]) <= Len(Targets(i))
    <3>1. evidence[i] \in Seq(Pieces)
      BY DEF JobTypes
    <3> QED BY <2>1, <3>1, ConditionTypes DEF Position
  <2>5. \A k \in 1..Len(Targets(i)) : (ThereOnce(i, k) => ThereOnce(i, k)') /\ (FitOnce(i, k) => FitOnce(i, k)')
    BY ChangeKeepsSeen
  <2>6. \A c : ShownOnce(i, c) => ShownOnce(i, c)'
    BY ChangeKeepsSeen
  <2>7. Founded(i)'
    BY <1>2, <2>1, <2>2, <2>4, <2>5, <2>6, ApartKeepsFounded
  <2> QED BY <1>1, <2>1, <2>3, <2>7
<1>8. Findings'
  BY <1>1, <1>3, <1>7 DEF Findings
<1> QED BY <1>1, <1>4, <1>5, <1>6, <1>8

\* The caller has counted every goroutine before it returns.
LEMMA CallerKeeps == EngineInv /\ (Return \/ UNCHANGED vars) => EngineInv'
<1> SUFFICES ASSUME EngineInv, Return \/ UNCHANGED vars PROVE EngineInv'
  OBVIOUS
<1> USE DEF EngineInv
<1>1. /\ caller' = caller \/ (done = Len(batch) /\ caller' = "returned")
      /\ UNCHANGED <<world, batch, done, pc, at, look, evidence, met, expired, result, failed>>
  BY DEF Return, vars, world
<1>2. /\ Jobs' = Jobs
      /\ \A i : Type(i)' = Type(i) /\ Targets(i)' = Targets(i) /\ Conditions(i)' = Conditions(i)
  BY <1>1, SameCall
<1>3. machine' = machine /\ seen' = seen /\ changes' = changes
  BY <1>1 DEF world
<1>4. CallTypes'
  BY <1>1, <1>2 DEF CallTypes
<1>5. JobTypes'
  BY <1>1, <1>2 DEF JobTypes
<1>6. WorldTypes'
  BY <1>3 DEF WorldTypes
<1>7. caller' = "returned" => EndedJobs = Jobs
  BY <1>1, JobSets, FS_Subset DEF Counted
<1>8. Counted'
  BY <1>1, <1>2, <1>7 DEF Counted, EndedJobs, Running
<1>9. ASSUME NEW i \in Jobs
      PROVE  /\ Position(i)' /\ Founded(i)' /\ (expired'[i] => i \in failed')
             /\ Exact(i) => Exact(i)'
  <2>1. Position(i) /\ Founded(i) /\ (expired[i] => i \in failed)
    BY DEF Findings
  <2>2. Apart(i)
    BY <1>1 DEF Apart
  <2>3. Position(i)'
    BY <1>1, <2>1, <2>2, ApartKeepsPosition
  <2>4. Len(evidence[i]) \in Nat /\ Len(Targets(i)) \in Nat /\ Len(evidence[i]) <= Len(Targets(i))
    <3>1. evidence[i] \in Seq(Pieces)
      BY DEF JobTypes
    <3> QED BY <2>1, <3>1, ConditionTypes DEF Position
  <2>5. Founded(i)'
    BY <1>1, <2>1, <2>2, <2>4, SameWorld, ApartKeepsFounded
  <2>6. Exact(i) => Exact(i)'
    BY <1>1, <2>2, ApartKeepsExact
  <2> QED BY <1>1, <2>1, <2>3, <2>5, <2>6
<1>10. Findings'
  BY <1>1, <1>2, <1>3, <1>9 DEF Findings
<1> QED BY <1>4, <1>5, <1>6, <1>8, <1>10

LEMMA WorkKeeps ==
    ASSUME EngineInv, NEW i \in Jobs, Work(i) \/ Expire(i)
    PROVE  EngineInv'
<1> USE DEF EngineInv
<1>1. Position(i) /\ Founded(i) /\ (expired[i] => i \in failed)
  BY DEF Findings
<1>2. UNCHANGED <<world, batch, caller>> /\ JobTypes' /\ \A j \in Jobs \ {i} : Apart(j)
  BY <1>1, WorkTypes
<1>3. /\ Jobs' = Jobs
      /\ \A j : Type(j)' = Type(j) /\ Targets(j)' = Targets(j) /\ Conditions(j)' = Conditions(j)
  BY <1>2, SameCall
<1>4. machine' = machine /\ seen' = seen /\ changes' = changes
  BY <1>2 DEF world
<1>5. WorldTypes'
  BY <1>4 DEF WorldTypes
<1>6. Counted'
  BY <1>1, CountedStep
<1>7. CallTypes'
  <2>1. done' = done \/ done' = done + 1
    BY DEF Work, Acquire, HashJob, RegistryJob, ConfigJob, HashStat, HashRead, HashReadFails, KeyCheck,
        KeyCheckFails, KeyRead, KeyReadFails, RegistryExpires, ConfigStat, ConfigRead, ConfigReadFails, Look, Read,
        ReadFails, Evaluate, Conclude, Release, Report, Expire, call
  <2> QED BY <1>2, <1>3, <2>1 DEF CallTypes
<1>8. failed \subseteq failed' /\ (expired'[i] => i \in failed')
  <2>1. UNCHANGED <<expired, failed>> \/ (expired' = expired /\ failed' = failed \cup {i})
          \/ (expired' = [expired EXCEPT ![i] = TRUE] /\ failed' = failed \cup {i})
    BY <1>1 DEF Work, Acquire, HashJob, RegistryJob, ConfigJob, HashStat, HashRead, HashReadFails, KeyCheck,
        KeyCheckFails, KeyRead, KeyReadFails, RegistryExpires, ConfigStat, ConfigRead, ConfigReadFails, Look, Read,
        ReadFails, Evaluate, Conclude, Release, Report, Expire
  <2> QED BY <1>1, <2>1
<1>9. ASSUME NEW j \in Jobs
      PROVE  /\ Position(j)' /\ Founded(j)' /\ (expired'[j] => j \in failed')
             /\ changes = 0 /\ j \notin failed' => Exact(j)'
  <2>1. Position(j) /\ Founded(j) /\ (expired[j] => j \in failed) /\ (changes = 0 /\ j \notin failed => Exact(j))
    BY DEF Findings
  <2>2. CASE j = i
    <3>1. Position(i)' /\ Founded(i)'
      BY <1>1, PositionStep, FoundedStep
    <3>2. changes = 0 /\ i \notin failed' => Exact(i)'
      BY <1>1, <1>8, <2>1, <2>2, ExactStep
    <3> QED BY <1>8, <2>2, <3>1, <3>2
  <2>3. CASE j # i
    <3>1. Apart(j)
      BY <1>2, <2>3
    <3>2. Position(j)'
      BY <1>2, <2>1, <3>1, ApartKeepsPosition
    <3>3. Len(evidence[j]) \in Nat /\ Len(Targets(j)) \in Nat /\ Len(evidence[j]) <= Len(Targets(j))
      <4>1. evidence[j] \in Seq(Pieces)
        BY DEF JobTypes
      <4> QED BY <2>1, <4>1, ConditionTypes DEF Position
    <3>4. Founded(j)'
      BY <1>2, <2>1, <3>1, <3>3, SameWorld, ApartKeepsFounded
    <3>5. Exact(j) => Exact(j)'
      BY <1>2, <3>1, ApartKeepsExact
    <3>6. (expired'[j] => j \in failed') /\ (j \notin failed' => j \notin failed)
      BY <1>8, <2>1, <3>1 DEF Apart
    <3> QED BY <2>1, <3>2, <3>4, <3>5, <3>6
  <2> QED BY <2>2, <2>3
<1>10. Findings'
  BY <1>3, <1>4, <1>9 DEF Findings
<1> QED BY <1>2, <1>5, <1>6, <1>7, <1>10

LEMMA EngineInvStep == EngineInv /\ [Next]_vars => EngineInv'
<1> SUFFICES ASSUME EngineInv, [Next]_vars PROVE EngineInv'
  OBVIOUS
<1>1. CASE Change
  BY <1>1, ChangeKeeps
<1>2. CASE Return \/ UNCHANGED vars
  BY <1>2, CallerKeeps
<1>3. CASE \E i \in Jobs : Work(i) \/ Expire(i)
  BY <1>3, WorkKeeps
<1> QED BY <1>1, <1>2, <1>3 DEF Next

LEMMA EngineInvAlways == Spec => []EngineInv
BY EngineInvInit, EngineInvStep, PTL DEF Spec

LEMMA EngineInvTypes == EngineInv => TypeOK
<1> SUFFICES ASSUME EngineInv PROVE TypeOK
  OBVIOUS
<1> USE DEF EngineInv
<1>1. done \in 0..Len(batch)
  <2>1. Cardinality(EndedJobs) <= Cardinality(Jobs)
    BY JobSets, FS_Subset
  <2> QED BY <2>1, JobSets DEF Counted
<1>2. ASSUME NEW i \in Jobs
      PROVE  /\ pc[i] \in {"check", "read"} => at[i] \in 1..Len(Targets(i))
             /\ met[i] \in 0..Len(Conditions(i)) /\ Len(evidence[i]) <= Len(Targets(i))
             /\ result[i] \in {NoResult, Failure, Answer(TRUE), Answer(FALSE)}
  <2>1. Position(i) /\ met[i] \in Nat /\ Len(Conditions(i)) \in Nat
    BY ConditionTypes DEF Findings, JobTypes
  <2>2. /\ pc[i] \in {"check", "read"} => at[i] \in 1..Len(Targets(i))
        /\ met[i] <= Len(Conditions(i)) /\ Len(evidence[i]) <= Len(Targets(i))
    BY <2>1 DEF Position
  <2>3. met[i] \in 0..Len(Conditions(i))
    BY <2>1, <2>2
  <2>4. result[i] \in {NoResult, Failure, Answer(TRUE), Answer(FALSE)}
    BY DEF JobTypes
  <2> QED BY <2>2, <2>3, <2>4
<1> QED BY <1>1, <1>2 DEF TypeOK, CallTypes, WorldTypes, JobTypes

LEMMA EngineInvWitnesses == EngineInv => VulnerableIsWitnessed
<1> SUFFICES ASSUME EngineInv, NEW i \in Jobs, result[i].vulnerable PROVE Witnessed(i)
  BY DEF VulnerableIsWitnessed, Witnessed, ShownOnce
<1>1. Founded(i)
  BY DEF EngineInv, Findings
<1> QED BY <1>1 DEF Founded, VerdictFounded

LEMMA EngineInvIsExact == EngineInv => UndisturbedIsExact
<1> SUFFICES ASSUME EngineInv, NEW i \in Jobs \ failed, changes = 0, result[i].present
             PROVE  result[i].vulnerable = Decision(i)
  BY DEF UndisturbedIsExact, Decision, Holds, Shown
<1>1. Exact(i)
  BY DEF EngineInv, Findings
<1>2. result[i].vulnerable <=> Decision(i)
  BY <1>1 DEF Exact, VerdictExact
<1>3. result[i] \in {NoResult, Failure, Answer(TRUE), Answer(FALSE)}
  BY DEF EngineInv, JobTypes
<1>4. result[i].vulnerable \in BOOLEAN
  <2>1. /\ NoResult.vulnerable \in BOOLEAN /\ Failure.vulnerable \in BOOLEAN
        /\ Answer(TRUE).vulnerable \in BOOLEAN /\ Answer(FALSE).vulnerable \in BOOLEAN
    BY DEF NoResult, Failure, Answer
  <2> QED BY <1>3, <2>1
<1>5. Decision(i) \in BOOLEAN
  BY DEF Decision
<1> QED BY <1>2, <1>4, <1>5

LEMMA EngineInvCompletes == EngineInv => ReturnsComplete
<1> SUFFICES ASSUME EngineInv PROVE ReturnsComplete
  OBVIOUS
<1> USE DEF EngineInv
<1>1. NoResult.present = FALSE /\ Failure.present /\ \A b : Answer(b).present
  BY DEF NoResult, Failure, Answer
<1>2. ASSUME NEW i \in Jobs
      PROVE  /\ pc[i] \in Early => ~result[i].present
             /\ pc[i] \notin Early => result[i].present
  <2>1. Position(i) /\ result[i] \in {NoResult, Failure, Answer(TRUE), Answer(FALSE)}
    BY DEF Findings, JobTypes
  <2> QED BY <1>1, <2>1 DEF Position
<1>3. caller = "returned" => \A i \in Jobs : pc[i] = "ended"
  BY DEF Counted, EndedJobs
<1> QED BY <1>2, <1>3 DEF ReturnsComplete, Counted, Early

\* The types of everything that the engine keeps of a call.
THEOREM DetectionTypeCorrect == Spec => []TypeOK
BY EngineInvAlways, EngineInvTypes, PTL

\* A template is reported as vulnerable only if each of its conditions that asks
\* for something held, at some moment of the call, for one of its targets.
THEOREM VerdictsAreWitnessed == Spec => []VulnerableIsWitnessed
BY EngineInvAlways, EngineInvWitnesses, PTL

\* On a machine that nobody changes the verdict of a template whose looks did
\* not fail is the one its conditions define, in any order of the goroutines.
THEOREM QuietVerdictsAreExact == Spec => []UndisturbedIsExact
BY EngineInvAlways, EngineInvIsExact, PTL

\* The caller returns after the last goroutine has ended with a result, and the
\* semaphore lets no more than MaxConcurrency of them run.
THEOREM CallsEndComplete == Spec => []ReturnsComplete
BY EngineInvAlways, EngineInvCompletes, PTL

-----------------------------------------------------------------------------
(***************************************************************************)
(* Scripts.  What the directory and the manifest hold (DirectoryTypes,     *)
(* SumsAgree, Directed), what the engine keeps of a call (EngineTypes,     *)
(* ProcessTypes), and how the output goes through the pipes (Children,     *)
(* Readers, Flow, Drained).                                                *)
(***************************************************************************)
Loadable == [path : Paths, sum : Scripts]
Doings == [to : {"out", "err", "fork"}, line : STRING]
Executing == {"stdout", "stderr", "wait", "copy"}

DirectoryTypes ==
    /\ file \in Entries /\ listed \in Entries /\ sums \in Entries /\ scanned \in Entries
    /\ stored \in [listed : Entries, sums : Entries, state : {"missing", "torn", "whole"}]
    /\ rpc \in {"unloaded", "ready", "scan", "validate", "written", "added", "save"}
    /\ subject \subseteq Paths /\ written \in 0..MaxWritten
    /\ calls \in 0..MaxCalls /\ strayed \subseteq Paths

EngineTypes ==
    /\ platform \in Platforms /\ lpc \subseteq Paths /\ loading \in BOOLEAN
    /\ loaded \in [Names -> Loadable \cup {NoEntry}]
    /\ epc \in {"idle", "called", "valid"} \cup Executing
    /\ script \in Loadable \cup {NoEntry} /\ (epc # "idle" => script \in Loadable)
    /\ deadline \in BOOLEAN /\ touched \in BOOLEAN /\ status \in {"ok", "error"}
    /\ returned \in {NoVerdict, Failed, Verdict(TRUE), Verdict(FALSE)} /\ runs \in 0..MaxRuns

ProcessTypes ==
    /\ ran \in Scripts \cup {NoScript} /\ todo \in Seq(Doings)
    /\ child \in {"none", "running", "exited", "killed"} /\ helper \in BOOLEAN
    /\ out \in Seq(STRING) /\ Len(out) <= PipeRoom
    /\ err \in Seq(STRING) /\ Len(err) <= PipeRoom
    /\ got \in Seq(STRING)

Children ==
    /\ epc \in {"called", "valid"} => child = "none"
    /\ child = "running" => epc \in Executing
    /\ epc \in Executing => ran \in Scripts

Readers ==
    /\ epc \in {"stdout", "stderr"} => ~Combined
    /\ epc = "stderr" \/ (epc = "wait" /\ ~Combined) => out = <<>> /\ child # "running"
    /\ epc = "copy" => /\ Combined /\ child # "running"
                       /\ status = "ok" => child = "exited" /\ ran.code = 0

DoneSteps == Len(ran.does) - Len(todo)
Flow ==
    epc \in Executing =>
        /\ DoneSteps \in Nat
        /\ \A k \in 1..Len(todo) : todo[k] = ran.does[DoneSteps + k]
        /\ got \o out = Printing(ran, Language[script.path])[DoneSteps]
Drained == child = "exited" /\ epc \in Executing => todo = <<>>

Verified == epc = "valid" /\ ~touched => file[script.path] = script.sum

Sound(p) ==
    /\ listed[p] # NoScript \/ stored.listed[p] # NoScript => file[p] \in Scripts /\ file[p].described
    /\ rpc \in {"unloaded", "ready", "save"} /\ listed[p] # NoScript => file[p] = listed[p]
    /\ rpc \in {"written", "added"} =>
         IF p \in subject THEN file[p] \in Scripts /\ file[p].described
         ELSE listed[p] # NoScript => file[p] = listed[p]
    /\ rpc = "added" /\ p \in subject => scanned[p] = file[p]
    /\ rpc = "validate" =>
         IF scanned[p] # NoScript THEN scanned[p] = file[p]
         ELSE listed[p] # NoScript => file[p] = listed[p]
Directed ==
    /\ \A p \in Paths \ strayed : Sound(p)
    /\ \A p, q \in subject : p = q


-----------------------------------------------------------------------------
(***************************************************************************)
(* The directory of scripts.                                               *)
(***************************************************************************)
LEMMA DirectoryTypesInit == RepositoryInit => DirectoryTypes
<1> SUFFICES ASSUME RepositoryInit PROVE DirectoryTypes
  OBVIOUS
<1>1. Nothing \in Entries
  BY DEF Nothing, Entries
<1>2. file \in Entries
  BY ScriptsAssumption DEF RepositoryInit, Entries
<1>3. stored \in [listed : Entries, sums : Entries, state : {"missing", "torn", "whole"}]
  BY <1>1 DEF RepositoryInit, Missing
<1>4. written \in 0..MaxWritten /\ calls \in 0..MaxCalls
  BY ScriptsAssumption DEF RepositoryInit
<1> QED BY <1>1, <1>2, <1>3, <1>4 DEF RepositoryInit, DirectoryTypes

\* What the manifest file may hold after saveManifest.
LEMMA SaveTypes ==
    ASSUME DirectoryTypes, NEW e \in Entries, NEW s \in Entries, Save(e, s)
    PROVE  stored' \in [listed : Entries, sums : Entries, state : {"missing", "torn", "whole"}]
<1>1. Nothing \in Entries
  BY DEF Nothing, Entries
<1>2. CASE stored' = Manifest(e, s)
  BY <1>2 DEF Manifest
<1>3. CASE stored' = stored
  BY <1>3 DEF DirectoryTypes
<1>4. CASE stored' = Torn
  BY <1>1, <1>4 DEF Torn
<1> QED BY <1>2, <1>3, <1>4 DEF Save

LEMMA EntrySet ==
    ASSUME NEW e \in Entries, NEW p \in Paths, NEW s \in Scripts \cup {NoScript}
    PROVE  /\ [e EXCEPT ![p] = s] \in Entries
           /\ [e EXCEPT ![p] = s][p] = s
           /\ \A q \in Paths : q # p => [e EXCEPT ![p] = s][q] = e[q]
BY DEF Entries

LEMMA DirectoryTypesStep == DirectoryTypes /\ (Repository \/ Outside) => DirectoryTypes'
<1> SUFFICES ASSUME DirectoryTypes, Repository \/ Outside PROVE DirectoryTypes'
  OBVIOUS
<1> USE ScriptsAssumption DEF rvars, manifest
<1>0. Nothing \in Entries /\ \A e \in Entries : \A p \in Paths : e[p] \in Scripts \cup {NoScript}
  BY DEF Nothing, Entries
<1>1. CASE Outside
  <2>1. PICK p \in Paths, content \in Scripts \cup {NoScript} :
          /\ file' = [file EXCEPT ![p] = content]
          /\ strayed' = strayed \cup {p}
    BY <1>1 DEF Outside
  <2>2. file' \in Entries
    BY <2>1, EntrySet DEF DirectoryTypes
  <2> QED BY <1>1, <2>1, <2>2 DEF Outside, DirectoryTypes
<1>2. CASE LoadManifest
  <2>1. listed' \in Entries /\ sums' \in Entries
    BY <1>0, <1>2 DEF LoadManifest, DirectoryTypes
  <2>2. stored' \in [listed : Entries, sums : Entries, state : {"missing", "torn", "whole"}]
    <3>1. CASE stored.state = "whole"
      BY <1>2, <3>1 DEF LoadManifest, DirectoryTypes
    <3>2. CASE stored.state # "whole"
      BY <1>0, <1>2, <3>2, SaveTypes DEF LoadManifest
    <3> QED BY <3>1, <3>2
  <2>3. rpc' \in {"ready", "scan"}
    BY <1>2 DEF LoadManifest
  <2>4. calls' \in 0..MaxCalls
    BY <1>2 DEF LoadManifest, DirectoryTypes
  <2> QED BY <1>2, <2>1, <2>2, <2>3, <2>4 DEF LoadManifest, DirectoryTypes
<1>3. CASE Scan
  BY <1>3 DEF Scan, DirectoryTypes
<1>4. CASE ValidateScanned
  <2>1. PICK p \in Paths :
          /\ scanned[p] # NoScript
          /\ IF Accepts(p, scanned[p]) THEN Enter(p, scanned[p]) ELSE UNCHANGED manifest
          /\ scanned' = [scanned EXCEPT ![p] = NoScript]
    BY <1>4 DEF ValidateScanned
  <2>2. scanned' \in Entries
    BY <2>1, EntrySet DEF DirectoryTypes
  <2>3. scanned[p] \in Scripts \cup {NoScript}
    BY <1>0 DEF DirectoryTypes
  <2>4. listed' \in Entries /\ sums' \in Entries
    <3>1. CASE Accepts(p, scanned[p])
      BY <2>1, <2>3, <3>1, EntrySet DEF Enter, DirectoryTypes
    <3>2. CASE ~Accepts(p, scanned[p])
      BY <2>1, <3>2 DEF DirectoryTypes
    <3> QED BY <3>1, <3>2
  <2> QED BY <1>4, <2>2, <2>4 DEF ValidateScanned, DirectoryTypes
<1>5. CASE EndLoad
  BY <1>5 DEF EndLoad, DirectoryTypes
<1>6. CASE WriteScript
  <2>1. PICK p \in Paths, s \in Scripts :
          /\ file' = [file EXCEPT ![p] = s]
          /\ subject' = {p}
          /\ strayed' = IF s.described THEN strayed \ {p} ELSE strayed \cup {p}
    BY <1>6 DEF WriteScript
  <2>2. file' \in Entries
    BY <2>1, EntrySet DEF DirectoryTypes
  <2>3. strayed' \subseteq Paths /\ subject' \subseteq Paths
    BY <2>1 DEF DirectoryTypes
  <2>4. calls' \in 0..MaxCalls /\ written' \in 0..MaxWritten
    BY <1>6 DEF WriteScript, DirectoryTypes
  <2> QED BY <1>6, <2>2, <2>3, <2>4 DEF WriteScript, DirectoryTypes
<1>7. CASE ReadWritten
  <2>1. scanned' \in Entries
    BY <1>0, <1>7 DEF ReadWritten, DirectoryTypes, Entries
  <2> QED BY <1>7, <2>1 DEF ReadWritten, DirectoryTypes
<1>8. CASE ValidateAdded
  <2>1. PICK p \in subject :
          IF scanned[p] # NoScript /\ Accepts(p, scanned[p])
          THEN Enter(p, scanned[p]) /\ rpc' = "save" /\ UNCHANGED file
          ELSE /\ file' = [file EXCEPT ![p] = NoScript]
               /\ rpc' = "ready" /\ UNCHANGED manifest
    BY <1>8 DEF ValidateAdded
  <2>2. p \in Paths /\ scanned[p] \in Scripts \cup {NoScript}
    BY <1>0 DEF DirectoryTypes
  <2>3. file' \in Entries /\ listed' \in Entries /\ sums' \in Entries /\ rpc' \in {"save", "ready"}
    <3>1. CASE scanned[p] # NoScript /\ Accepts(p, scanned[p])
      BY <2>1, <2>2, <3>1, EntrySet DEF Enter, DirectoryTypes
    <3>2. CASE ~(scanned[p] # NoScript /\ Accepts(p, scanned[p]))
      BY <2>1, <2>2, <3>2, EntrySet DEF DirectoryTypes
    <3> QED BY <3>1, <3>2
  <2> QED BY <1>0, <1>8, <2>3 DEF ValidateAdded, DirectoryTypes
<1>9. CASE SaveAdded
  <2>1. stored' \in [listed : Entries, sums : Entries, state : {"missing", "torn", "whole"}]
    BY <1>9, SaveTypes DEF SaveAdded, DirectoryTypes
  <2> QED BY <1>9, <2>1 DEF SaveAdded, DirectoryTypes
<1>10. CASE UpdateChecksum
  <2>1. PICK p \in Paths : file[p] # NoScript /\ Updated(p)
    BY <1>10 DEF UpdateChecksum
  <2>2. file[p] \in Scripts
    BY <1>0, <2>1 DEF DirectoryTypes
  <2>3. listed' \in Entries /\ sums' \in Entries
    BY <2>1, <2>2 DEF Updated, DirectoryTypes, Entries
  <2>4. stored' \in [listed : Entries, sums : Entries, state : {"missing", "torn", "whole"}]
    BY <1>10, <2>3, SaveTypes DEF UpdateChecksum
  <2>5. calls' \in 0..MaxCalls
    BY <1>10 DEF UpdateChecksum, DirectoryTypes
  <2> QED BY <1>10, <2>3, <2>4, <2>5 DEF UpdateChecksum, DirectoryTypes
<1> QED BY <1>1, <1>2, <1>3, <1>4, <1>5, <1>6, <1>7, <1>8, <1>9, <1>10 DEF Repository

\* The two maps of the manifest, in memory and in the file.
SumsAgree ==
    /\ \A p \in Paths : listed[p] # NoScript => sums[p] = listed[p]
    /\ \A p \in Paths : stored.listed[p] # NoScript => stored.sums[p] = stored.listed[p]

LEMMA SaveAgrees ==
    ASSUME SumsAgree, NEW e \in Entries, NEW s \in Entries, Save(e, s),
           \A p \in Paths : e[p] # NoScript => s[p] = e[p]
    PROVE  \A p \in Paths : stored'.listed[p] # NoScript => stored'.sums[p] = stored'.listed[p]
<1>1. CASE stored' = Manifest(e, s)
  BY <1>1 DEF Manifest
<1>2. CASE stored' = stored
  BY <1>2 DEF SumsAgree
<1>3. CASE stored' = Torn
  BY <1>3 DEF Torn, Nothing
<1> QED BY <1>1, <1>2, <1>3 DEF Save

LEMMA EnterAgrees ==
    ASSUME DirectoryTypes, SumsAgree, NEW p \in Paths, NEW s \in Scripts, Enter(p, s)
    PROVE  \A q \in Paths : listed'[q] # NoScript => sums'[q] = listed'[q]
BY DEF Enter, SumsAgree, DirectoryTypes, Entries

LEMMA SumsAgreeStep == DirectoryTypes /\ SumsAgree /\ (Repository \/ Outside) => SumsAgree'
<1> SUFFICES ASSUME DirectoryTypes, SumsAgree, Repository \/ Outside PROVE SumsAgree'
  OBVIOUS
<1> USE ScriptsAssumption DEF rvars, manifest
<1>0. DirectoryTypes' /\ Nothing \in Entries
  BY DirectoryTypesStep DEF Nothing, Entries
<1>1. CASE Outside
  BY <1>1 DEF Outside, SumsAgree
<1>2. CASE LoadManifest
  <2>1. CASE stored.state = "whole"
    BY <1>2, <2>1 DEF LoadManifest, SumsAgree
  <2>2. CASE stored.state # "whole"
    <3>1. listed' = Nothing /\ sums' = Nothing /\ Save(Nothing, Nothing)
      BY <1>2, <2>2 DEF LoadManifest
    <3>2. \A p \in Paths : stored'.listed[p] # NoScript => stored'.sums[p] = stored'.listed[p]
      BY <1>0, <3>1, SaveAgrees
    <3> QED BY <3>1, <3>2 DEF SumsAgree
  <2> QED BY <2>1, <2>2
<1>3. CASE Scan
  BY <1>3 DEF Scan, SumsAgree
<1>4. CASE ValidateScanned
  <2>1. PICK p \in Paths :
          /\ scanned[p] # NoScript
          /\ IF Accepts(p, scanned[p]) THEN Enter(p, scanned[p]) ELSE UNCHANGED manifest
    BY <1>4 DEF ValidateScanned
  <2>2. scanned[p] \in Scripts
    BY <2>1 DEF DirectoryTypes, Entries
  <2>3. stored' = stored
    BY <1>4 DEF ValidateScanned
  <2>4. \A q \in Paths : listed'[q] # NoScript => sums'[q] = listed'[q]
    <3>1. CASE Accepts(p, scanned[p])
      BY <2>1, <2>2, <3>1, EnterAgrees
    <3>2. CASE ~Accepts(p, scanned[p])
      BY <2>1, <3>2 DEF SumsAgree
    <3> QED BY <3>1, <3>2
  <2> QED BY <2>3, <2>4 DEF SumsAgree
<1>5. CASE EndLoad
  BY <1>5 DEF EndLoad, SumsAgree
<1>6. CASE WriteScript
  BY <1>6 DEF WriteScript, SumsAgree
<1>7. CASE ReadWritten
  BY <1>7 DEF ReadWritten, SumsAgree
<1>8. CASE ValidateAdded
  <2>1. PICK p \in subject :
          IF scanned[p] # NoScript /\ Accepts(p, scanned[p])
          THEN Enter(p, scanned[p]) /\ rpc' = "save" /\ UNCHANGED file
          ELSE /\ file' = [file EXCEPT ![p] = NoScript]
               /\ rpc' = "ready" /\ UNCHANGED manifest
    BY <1>8 DEF ValidateAdded
  <2>2. stored' = stored /\ p \in Paths
    BY <1>8 DEF ValidateAdded, DirectoryTypes
  <2>3. \A q \in Paths : listed'[q] # NoScript => sums'[q] = listed'[q]
    <3>1. CASE scanned[p] # NoScript /\ Accepts(p, scanned[p])
      <4>1. scanned[p] \in Scripts
        BY <2>2, <3>1 DEF DirectoryTypes, Entries
      <4> QED BY <2>1, <2>2, <3>1, <4>1, EnterAgrees
    <3>2. CASE ~(scanned[p] # NoScript /\ Accepts(p, scanned[p]))
      BY <2>1, <3>2 DEF SumsAgree
    <3> QED BY <3>1, <3>2
  <2> QED BY <2>2, <2>3 DEF SumsAgree
<1>9. CASE SaveAdded
  <2>1. Save(listed, sums) /\ listed' = listed /\ sums' = sums
    BY <1>9 DEF SaveAdded
  <2>2. \A p \in Paths : stored'.listed[p] # NoScript => stored'.sums[p] = stored'.listed[p]
    BY <2>1, SaveAgrees DEF SumsAgree, DirectoryTypes
  <2> QED BY <2>1, <2>2 DEF SumsAgree
<1>10. CASE UpdateChecksum
  <2>1. PICK p \in Paths : file[p] # NoScript /\ Updated(p)
    BY <1>10 DEF UpdateChecksum
  <2>2. \A q \in Paths : listed'[q] # NoScript => sums'[q] = listed'[q]
    BY <2>1 DEF Updated, SumsAgree, DirectoryTypes, Entries
  <2>3. Save(listed', sums') /\ listed' \in Entries /\ sums' \in Entries
    BY <1>0, <1>10 DEF UpdateChecksum, DirectoryTypes
  <2>4. \A q \in Paths : stored'.listed[q] # NoScript => stored'.sums[q] = stored'.listed[q]
    BY <2>2, <2>3, SaveAgrees
  <2> QED BY <2>2, <2>4 DEF SumsAgree
<1> QED BY <1>1, <1>2, <1>3, <1>4, <1>5, <1>6, <1>7, <1>8, <1>9, <1>10 DEF Repository

\* Nothing is listed in the file but what was listed there, or in memory.
LEMMA SavedIsListed ==
    ASSUME NEW e \in Entries, NEW s \in Entries, Save(e, s), NEW p \in Paths,
           stored'.listed[p] # NoScript
    PROVE  stored'.listed[p] \in {e[p], stored.listed[p]}
BY DEF Save, Manifest, Torn, Nothing

LEMMA DirectedStep == DirectoryTypes /\ Directed /\ (Repository \/ Outside) => Directed'
<1> SUFFICES ASSUME DirectoryTypes, Directed, Repository \/ Outside PROVE Directed'
  OBVIOUS
<1> USE ScriptsAssumption DEF rvars, manifest
<1>0. DirectoryTypes' /\ \A p \in Paths : Nothing[p] = NoScript
  BY DirectoryTypesStep DEF Nothing
<1>1. CASE Outside
  <2>1. PICK p \in Paths, content \in Scripts \cup {NoScript} :
          /\ file' = [file EXCEPT ![p] = content]
          /\ strayed' = strayed \cup {p}
    BY <1>1 DEF Outside
  <2>2. ASSUME NEW q \in Paths \ strayed' PROVE Sound(q)'
    <3>1. q \in Paths \ strayed /\ file'[q] = file[q]
      BY <2>1, <2>2 DEF DirectoryTypes, Entries
    <3>2. Sound(q)
      BY <3>1 DEF Directed
    <3> QED BY <1>1, <3>1, <3>2 DEF Outside, Sound
  <2> QED BY <1>1, <2>2 DEF Outside, Directed
<1>2. CASE LoadManifest
  <2>1. ASSUME NEW q \in Paths \ strayed' PROVE Sound(q)'
    <3>1. q \in Paths \ strayed /\ file' = file
      BY <1>2 DEF LoadManifest
    <3>2. Sound(q)
      BY <3>1 DEF Directed
    <3>3. CASE stored.state = "whole"
      <4>1. listed' = stored.listed /\ stored' = stored /\ rpc' = "scan"
        BY <1>2, <3>3 DEF LoadManifest
      <4> QED BY <3>1, <3>2, <4>1 DEF Sound
    <3>4. CASE stored.state # "whole"
      <4>1. listed' = Nothing /\ Save(Nothing, Nothing) /\ rpc' \in {"scan", "ready"} /\ Nothing \in Entries
        BY <1>2, <3>4 DEF LoadManifest, Nothing, Entries
      <4>2. stored'.listed[q] # NoScript => stored.listed[q] # NoScript
        BY <1>0, <4>1, SavedIsListed
      <4>3. listed'[q] = NoScript
        BY <1>0, <4>1
      <4> QED BY <3>1, <3>2, <4>1, <4>2, <4>3 DEF Sound
    <3> QED BY <3>3, <3>4
  <2> QED BY <1>2, <2>1 DEF LoadManifest, Directed
<1>3. CASE Scan
  <2>1. ASSUME NEW q \in Paths \ strayed' PROVE Sound(q)'
    <3>1. Sound(q)
      BY <1>3, <2>1 DEF Scan, Directed
    <3> QED BY <1>3, <3>1 DEF Scan, Sound
  <2> QED BY <1>3, <2>1 DEF Scan, Directed
<1>4. CASE ValidateScanned
  <2>1. PICK p \in Paths :
          /\ scanned[p] # NoScript
          /\ IF Accepts(p, scanned[p]) THEN Enter(p, scanned[p]) ELSE UNCHANGED manifest
          /\ scanned' = [scanned EXCEPT ![p] = NoScript]
    BY <1>4 DEF ValidateScanned
  <2>2. /\ rpc = "validate" /\ rpc' = "validate" /\ file' = file /\ strayed' = strayed
        /\ stored' = stored /\ subject' = subject
    BY <1>4 DEF ValidateScanned
  <2>3. ASSUME NEW q \in Paths \ strayed' PROVE Sound(q)'
    <3>1. Sound(q)
      BY <2>2, <2>3 DEF Directed
    <3>2. CASE q # p
      <4>1. scanned'[q] = scanned[q] /\ listed'[q] = listed[q]
        BY <2>1, <3>2 DEF DirectoryTypes, Entries, Enter
      <4> QED BY <2>2, <3>1, <4>1 DEF Sound
    <3>3. CASE q = p
      <4>1. scanned'[q] = NoScript
        BY <2>1, <3>3 DEF DirectoryTypes, Entries
      <4>2. scanned[p] = file[p] /\ scanned[p] \in Scripts
        BY <2>1, <2>2, <3>1, <3>3 DEF Sound, DirectoryTypes, Entries
      <4>3. CASE Accepts(p, scanned[p])
        <5>1. listed'[p] = scanned[p]
          BY <2>1, <4>3 DEF DirectoryTypes, Entries, Enter
        <5> QED BY <2>2, <3>3, <4>1, <4>2, <4>3, <5>1 DEF Sound, Accepts
      <4>4. CASE ~Accepts(p, scanned[p])
        <5>1. listed' = listed
          BY <2>1, <4>4
        <5>2. ~file[p].described
          BY <4>2, <4>4 DEF Accepts
        <5> QED BY <2>2, <3>1, <3>3, <4>1, <5>1, <5>2 DEF Sound
      <4> QED BY <4>3, <4>4
    <3> QED BY <3>2, <3>3
  <2> QED BY <2>2, <2>3 DEF Directed
<1>5. CASE EndLoad
  <2>1. ASSUME NEW q \in Paths \ strayed' PROVE Sound(q)'
    <3>1. Sound(q)
      BY <1>5, <2>1 DEF EndLoad, Directed
    <3> QED BY <1>0, <1>5, <3>1 DEF EndLoad, Sound
  <2> QED BY <1>5, <2>1 DEF EndLoad, Directed
<1>6. CASE WriteScript
  <2>1. PICK p \in Paths, s \in Scripts :
          /\ file' = [file EXCEPT ![p] = s]
          /\ subject' = {p}
          /\ strayed' = IF s.described THEN strayed \ {p} ELSE strayed \cup {p}
    BY <1>6 DEF WriteScript
  <2>2. rpc = "ready" /\ rpc' = "written" /\ listed' = listed /\ stored' = stored
    BY <1>6 DEF WriteScript, Ready
  <2>3. ASSUME NEW q \in Paths \ strayed' PROVE Sound(q)'
    <3>1. CASE q = p
      <4>1. file'[q] \in Scripts /\ file'[q].described
        BY <2>1, <2>3, <3>1 DEF DirectoryTypes, Entries
      <4> QED BY <2>1, <2>2, <3>1, <4>1 DEF Sound
    <3>2. CASE q # p
      <4>1. q \in Paths \ strayed /\ file'[q] = file[q] /\ q \notin subject'
        BY <2>1, <2>3, <3>2 DEF DirectoryTypes, Entries
      <4>2. Sound(q)
        BY <4>1 DEF Directed
      <4> QED BY <2>2, <4>1, <4>2 DEF Sound
    <3> QED BY <3>1, <3>2
  <2> QED BY <2>1, <2>3 DEF Directed
<1>7. CASE ReadWritten
  <2>1. ASSUME NEW q \in Paths \ strayed' PROVE Sound(q)'
    <3>1. Sound(q)
      BY <1>7, <2>1 DEF ReadWritten, Directed
    <3>2. q \in subject => scanned'[q] = file[q]
      BY <1>7 DEF ReadWritten
    <3> QED BY <1>7, <3>1, <3>2 DEF ReadWritten, Sound
  <2> QED BY <1>7, <2>1 DEF ReadWritten, Directed
<1>8. CASE ValidateAdded
  <2>1. PICK p \in subject :
          IF scanned[p] # NoScript /\ Accepts(p, scanned[p])
          THEN Enter(p, scanned[p]) /\ rpc' = "save" /\ UNCHANGED file
          ELSE /\ file' = [file EXCEPT ![p] = NoScript]
               /\ rpc' = "ready" /\ UNCHANGED manifest
    BY <1>8 DEF ValidateAdded
  <2>2. /\ rpc = "added" /\ subject' = {} /\ stored' = stored /\ strayed' = strayed
        /\ p \in Paths /\ \A q \in subject : q = p
    BY <1>8 DEF ValidateAdded, DirectoryTypes, Directed
  <2>3. ASSUME NEW q \in Paths \ strayed' PROVE Sound(q)'
    <3>1. Sound(q)
      BY <2>2, <2>3 DEF Directed
    <3>2. q = p => scanned[p] = file[p] /\ file[p] \in Scripts /\ file[p].described
      BY <2>2, <3>1 DEF Sound
    <3>3. CASE scanned[p] # NoScript /\ Accepts(p, scanned[p])
      <4>1. rpc' = "save" /\ file' = file /\ scanned[p] = file[p] /\ Enter(p, scanned[p])
        BY <2>1, <3>3 DEF Accepts
      <4>2. listed'[q] = IF q = p THEN file[p] ELSE listed[q]
        BY <2>2, <4>1 DEF Enter, DirectoryTypes, Entries
      <4> QED BY <2>2, <3>1, <3>2, <4>1, <4>2 DEF Sound
    <3>4. CASE ~(scanned[p] # NoScript /\ Accepts(p, scanned[p]))
      <4>1. rpc' = "ready" /\ file' = [file EXCEPT ![p] = NoScript] /\ listed' = listed
        BY <2>1, <3>4
      <4>2. q # p
        BY <3>2, <3>4 DEF Accepts
      <4>3. q \notin subject /\ file'[q] = file[q]
        BY <2>2, <4>1, <4>2 DEF DirectoryTypes, Entries
      <4> QED BY <2>2, <3>1, <4>1, <4>3 DEF Sound
    <3> QED BY <3>3, <3>4
  <2> QED BY <2>2, <2>3 DEF Directed
<1>9. CASE SaveAdded
  <2>1. Save(listed, sums) /\ listed \in Entries /\ sums \in Entries
    BY <1>9 DEF SaveAdded, DirectoryTypes
  <2>2. ASSUME NEW q \in Paths \ strayed' PROVE Sound(q)'
    <3>1. Sound(q)
      BY <1>9, <2>2 DEF SaveAdded, Directed
    <3>2. stored'.listed[q] # NoScript => stored'.listed[q] \in {listed[q], stored.listed[q]}
      BY <2>1, SavedIsListed
    <3> QED BY <1>9, <3>1, <3>2 DEF SaveAdded, Sound
  <2> QED BY <1>9, <2>2 DEF SaveAdded, Directed
<1>10. CASE UpdateChecksum
  <2>1. PICK p \in Paths : file[p] # NoScript /\ Updated(p)
    BY <1>10 DEF UpdateChecksum
  <2>2. Save(listed', sums') /\ listed' \in Entries /\ sums' \in Entries
    BY <1>0, <1>10 DEF UpdateChecksum, DirectoryTypes
  <2>3. ASSUME NEW q \in Paths \ strayed' PROVE Sound(q)'
    <3>1. Sound(q) /\ rpc = "ready" /\ rpc' = "ready" /\ file' = file
      BY <1>10, <2>3 DEF UpdateChecksum, Directed, Ready
    <3>2. stored'.listed[q] # NoScript => stored'.listed[q] \in {listed'[q], stored.listed[q]}
      BY <2>2, SavedIsListed
    <3>3. listed'[q] # NoScript => listed[q] # NoScript /\ listed'[q] \in {listed[q], file[q]}
      BY <2>1 DEF Updated, DirectoryTypes, Entries
    <3> QED BY <3>1, <3>2, <3>3 DEF Sound
  <2> QED BY <1>10, <2>3 DEF UpdateChecksum, Directed
<1> QED BY <1>1, <1>2, <1>3, <1>4, <1>5, <1>6, <1>7, <1>8, <1>9, <1>10 DEF Repository

LEMMA DirectedInit == RepositoryInit => SumsAgree /\ Directed
BY ScriptsAssumption DEF RepositoryInit, SumsAgree, Directed, Sound, Nothing, Missing

LEMMA DirectedAgrees == SumsAgree /\ Directed => ManifestAgrees
BY DEF SumsAgree, Directed, Sound, ManifestAgrees, Ready

-----------------------------------------------------------------------------
(***************************************************************************)
(* The engine and the process.                                             *)
(***************************************************************************)
LEMMA BoundsAreNumbers == PipeRoom \in Nat /\ 0 < PipeRoom /\ MaxRuns \in Nat
BY RunAssumption

LEMMA RunTypesInit == ScriptInit => EngineTypes /\ ProcessTypes
<1> SUFFICES ASSUME ScriptInit PROVE EngineTypes /\ ProcessTypes
  OBVIOUS
<1>1. loaded \in [Names -> Loadable \cup {NoEntry}] /\ script = NoEntry /\ epc = "idle"
  BY DEF ScriptInit
<1>2. runs \in 0..MaxRuns
  BY BoundsAreNumbers DEF ScriptInit
<1>3. EngineTypes
  BY <1>1, <1>2 DEF ScriptInit, EngineTypes
<1>4. /\ todo \in Seq(Doings) /\ out \in Seq(STRING) /\ err \in Seq(STRING) /\ got \in Seq(STRING)
      /\ Len(out) = 0 /\ Len(err) = 0
  BY DEF ScriptInit
<1>5. Len(out) <= PipeRoom /\ Len(err) <= PipeRoom
  BY <1>4, BoundsAreNumbers
<1>6. ran = NoScript /\ child = "none" /\ helper \in BOOLEAN
  BY DEF ScriptInit
<1>7. ProcessTypes
  BY <1>4, <1>5, <1>6 DEF ProcessTypes
<1> QED BY <1>3, <1>7

LEMMA EntryTypes ==
    ASSUME DirectoryTypes, NEW p \in Paths, file[p] # NoScript
    PROVE  file[p] \in Scripts /\ Entry(p) \in Loadable /\ file[p].does \in Seq(Doings)
<1>1. file[p] \in Scripts
  BY DEF DirectoryTypes, Entries
<1> QED BY <1>1, RunAssumption DEF Entry, Loadable, Doings

LEMMA ReturnTypes ==
    ASSUME EngineTypes, ProcessTypes, NEW answer \in {Failed, Verdict(TRUE), Verdict(FALSE)},
           ReturnResult(answer), UNCHANGED <<engine, script, deadline, runs>>, touched' \in BOOLEAN
    PROVE  EngineTypes' /\ ProcessTypes'
<1> USE DEF ReturnResult, engine
<1>1. EngineTypes'
  BY DEF EngineTypes
<1>2. /\ todo' \in Seq(Doings) /\ out' \in Seq(STRING) /\ err' \in Seq(STRING) /\ got' \in Seq(STRING)
      /\ Len(out') = 0 /\ Len(err') = 0
  OBVIOUS
<1>3. Len(out') <= PipeRoom /\ Len(err') <= PipeRoom
  BY <1>2, BoundsAreNumbers
<1>4. ran' = ran /\ child' = child /\ helper' \in BOOLEAN
  OBVIOUS
<1>5. ProcessTypes'
  BY <1>2, <1>3, <1>4 DEF ProcessTypes
<1> QED BY <1>1, <1>5

LEMMA RunTypesStep ==
    DirectoryTypes /\ EngineTypes /\ ProcessTypes /\ [ScriptNext]_scriptVars => EngineTypes' /\ ProcessTypes'
<1> SUFFICES ASSUME DirectoryTypes, EngineTypes, ProcessTypes, [ScriptNext]_scriptVars
             PROVE  EngineTypes' /\ ProcessTypes'
  OBVIOUS
<1> USE DEF engine, process, pipes
<1>1. CASE Directory
  <2>1. touched' \in BOOLEAN
    BY <1>1 DEF Directory, EngineTypes
  <2>2. EngineTypes'
    BY <1>1, <2>1 DEF Directory, EngineTypes
  <2>3. ProcessTypes'
    BY <1>1 DEF Directory, ProcessTypes
  <2> QED BY <2>2, <2>3
<1>2. CASE LoadScripts
  <2>1. EngineTypes'
    BY <1>2 DEF LoadScripts, EngineTypes
  <2>2. ProcessTypes'
    BY <1>2 DEF LoadScripts, ProcessTypes
  <2> QED BY <2>1, <2>2
<1>3. CASE LoadScript
  <2>1. PICK p \in lpc :
          /\ lpc' = lpc \ {p}
          /\ loaded' = IF file[p] = NoScript THEN loaded ELSE [loaded EXCEPT ![file[p].name] = Entry(p)]
    BY <1>3 DEF LoadScript
  <2>2. loaded' \in [Names -> Loadable \cup {NoEntry}]
    <3>1. CASE file[p] = NoScript
      BY <2>1, <3>1 DEF EngineTypes
    <3>2. CASE file[p] # NoScript
      <4>1. file[p].name \in Names /\ Entry(p) \in Loadable
        <5>1. p \in Paths
          BY DEF EngineTypes
        <5>2. file[p] \in Scripts /\ Entry(p) \in Loadable
          BY <3>2, <5>1, EntryTypes
        <5> QED BY <5>2, RunAssumption
      <4> HIDE DEF Loadable, Entry
      <4> QED BY <2>1, <3>2, <4>1 DEF EngineTypes
    <3> QED BY <3>1, <3>2
  <2>3. EngineTypes'
    BY <1>3, <2>1, <2>2 DEF LoadScript, EngineTypes
  <2>4. ProcessTypes'
    BY <1>3 DEF LoadScript, ProcessTypes
  <2> QED BY <2>3, <2>4
<1>4. CASE EndLoading
  <2>1. EngineTypes'
    BY <1>4 DEF EndLoading, EngineTypes
  <2>2. ProcessTypes'
    BY <1>4 DEF EndLoading, ProcessTypes
  <2> QED BY <2>1, <2>2
<1>5. CASE Call
  <2>1. PICK n \in Names : loaded[n] # NoEntry /\ script' = loaded[n]
    BY <1>5 DEF Call
  <2>2. script' \in Loadable
    BY <2>1 DEF EngineTypes
  <2>3. EngineTypes'
    <3>1. runs' \in 0..MaxRuns
      BY <1>5, BoundsAreNumbers DEF Call, EngineTypes
    <3> QED BY <1>5, <2>2, <3>1 DEF Call, EngineTypes
  <2> QED BY <1>5, <2>3 DEF Call, ProcessTypes
<1>6. CASE ValidateScript
  <2>1. CASE Valid(script)
    BY <1>6, <2>1 DEF ValidateScript, EngineTypes, ProcessTypes
  <2>2. CASE ~Valid(script)
    BY <1>6, <2>2, ReturnTypes DEF ValidateScript
  <2> QED BY <2>1, <2>2
<1>7. CASE Start
  <2>1. CASE deadline \/ file[script.path] = NoScript
    <3>1. ReturnResult(Failed) /\ UNCHANGED <<engine, script, deadline, runs>> /\ touched' \in BOOLEAN
      BY <1>7, <2>1 DEF Start, EngineTypes
    <3> QED BY <3>1, ReturnTypes
  <2>2. CASE ~(deadline \/ file[script.path] = NoScript)
    <3>1. script.path \in Paths
      BY <1>7 DEF Start, EngineTypes, Loadable
    <3>2. file[script.path] \in Scripts /\ file[script.path].does \in Seq(Doings)
      BY <2>2, <3>1, EntryTypes
    <3>3. EngineTypes'
      BY <1>7, <2>2 DEF Start, EngineTypes, Executing
    <3>4. ProcessTypes'
      <4>1. /\ out' \in Seq(STRING) /\ err' \in Seq(STRING) /\ got' \in Seq(STRING)
            /\ Len(out') = 0 /\ Len(err') = 0
        BY <1>7, <2>2 DEF Start
      <4>2. Len(out') <= PipeRoom /\ Len(err') <= PipeRoom
        BY <4>1, BoundsAreNumbers
      <4>3. ran' \in Scripts /\ todo' \in Seq(Doings) /\ child' = "running" /\ helper' \in BOOLEAN
        BY <1>7, <2>2, <3>2 DEF Start
      <4> QED BY <4>1, <4>2, <4>3 DEF ProcessTypes
    <3> QED BY <3>3, <3>4
  <2> QED BY <2>1, <2>2
<1>8. CASE WriteLine
  <2>1. todo # <<>> /\ Head(todo) \in Doings /\ Tail(todo) \in Seq(Doings)
    BY <1>8 DEF WriteLine, ProcessTypes
  <2>2. Head(todo).line \in STRING
    BY <2>1 DEF Doings
  <2>3. ProcessTypes'
    <3>1. CASE /\ Len(out) < PipeRoom
               /\ out' = Append(out, Head(todo).line) /\ UNCHANGED err
      <4>1. out' \in Seq(STRING) /\ Len(out') = Len(out) + 1 /\ Len(out) \in Nat
        BY <2>2, <3>1 DEF ProcessTypes
      <4>2. Len(out') <= PipeRoom /\ Len(err') <= PipeRoom
        BY <3>1, <4>1, BoundsAreNumbers DEF ProcessTypes
      <4> QED BY <1>8, <2>1, <3>1, <4>1, <4>2 DEF WriteLine, ProcessTypes
    <3>2. CASE /\ Len(err) < PipeRoom
               /\ err' = Append(err, Head(todo).line) /\ UNCHANGED out
      <4>1. err' \in Seq(STRING) /\ Len(err') = Len(err) + 1 /\ Len(err) \in Nat
        BY <2>2, <3>2 DEF ProcessTypes
      <4>2. Len(out') <= PipeRoom /\ Len(err') <= PipeRoom
        BY <3>2, <4>1, BoundsAreNumbers DEF ProcessTypes
      <4> QED BY <1>8, <2>1, <3>2, <4>1, <4>2 DEF WriteLine, ProcessTypes
    <3> QED BY <1>8, <3>1, <3>2 DEF WriteLine
  <2> QED BY <1>8, <2>3 DEF WriteLine, EngineTypes
<1>9. CASE Fork
  <2>1. Tail(todo) \in Seq(Doings)
    BY <1>9 DEF Fork, ProcessTypes
  <2> QED BY <1>9, <2>1 DEF Fork, EngineTypes, ProcessTypes
<1>10. CASE Exit
  BY <1>10 DEF Exit, EngineTypes, ProcessTypes
<1>11. CASE HelperEnds
  <2>1. EngineTypes'
    BY <1>11 DEF HelperEnds, EngineTypes
  <2>2. ProcessTypes'
    BY <1>11 DEF HelperEnds, ProcessTypes
  <2> QED BY <2>1, <2>2
<1>12. CASE Deadline
  BY <1>12 DEF Deadline, EngineTypes, ProcessTypes
<1>13. CASE ReadLine
  <2>1. Head(out) \in STRING /\ Tail(out) \in Seq(STRING) /\ Len(Tail(out)) <= Len(out)
    BY <1>13 DEF ReadLine, ProcessTypes
  <2>2. ProcessTypes'
    <3>1. got' \in Seq(STRING) /\ out' = Tail(out) /\ Len(out) \in Nat /\ Len(Tail(out)) \in Nat
      BY <1>13, <2>1 DEF ReadLine, ProcessTypes
    <3> QED BY <1>13, <2>1, <3>1, BoundsAreNumbers DEF ReadLine, ProcessTypes
  <2> QED BY <1>13, <2>2 DEF ReadLine, EngineTypes
<1>14. CASE EndOfStdout
  BY <1>14 DEF EndOfStdout, EngineTypes, ProcessTypes, Executing
<1>15. CASE ReadError
  <2>1. Tail(err) \in Seq(STRING) /\ Len(Tail(err)) <= Len(err)
    BY <1>15 DEF ReadError, ProcessTypes
  <2>2. ProcessTypes'
    <3>1. err' = Tail(err) /\ Len(err) \in Nat /\ Len(Tail(err)) \in Nat
      BY <1>15, <2>1 DEF ReadError, ProcessTypes
    <3> QED BY <1>15, <2>1, <3>1, BoundsAreNumbers DEF ReadError, ProcessTypes
  <2> QED BY <1>15, <2>2 DEF ReadError, EngineTypes
<1>16. CASE EndOfStderr
  BY <1>16 DEF EndOfStderr, EngineTypes, ProcessTypes, Executing
<1>17. CASE Reap
  BY <1>17 DEF Reap, WaitStatus, EngineTypes, ProcessTypes, Executing
<1>18. CASE Finish
  <2>1. \A state : ParsedWith(state) \in {Failed, Verdict(TRUE), Verdict(FALSE)}
    BY DEF ParsedWith, Says, StructuredText
  <2>2. PICK state : ReturnResult(ParsedWith(state))
    BY <1>18 DEF Finish
  <2> QED BY <1>18, <2>1, <2>2, ReturnTypes DEF Finish, EngineTypes
<1>19. CASE UNCHANGED scriptVars
  <2>1. EngineTypes'
    BY <1>19 DEF scriptVars, svars, EngineTypes
  <2>2. ProcessTypes'
    BY <1>19 DEF scriptVars, svars, ProcessTypes
  <2> QED BY <2>1, <2>2
<1> QED BY <1>1, <1>2, <1>3, <1>4, <1>5, <1>6, <1>7, <1>8, <1>9, <1>10, <1>11, <1>12, <1>13,
           <1>14, <1>15, <1>16, <1>17, <1>18, <1>19 DEF ScriptNext, Execute, Process

LEMMA ChildrenStep ==
    DirectoryTypes /\ EngineTypes /\ ProcessTypes /\ Children /\ Readers /\ [ScriptNext]_scriptVars => Children' /\ Readers'
<1> SUFFICES ASSUME DirectoryTypes, EngineTypes, ProcessTypes, Children, Readers, [ScriptNext]_scriptVars
             PROVE  Children' /\ Readers'
  OBVIOUS
<1> USE DEF engine, process, pipes, Executing
<1>1. CASE Directory
  BY <1>1 DEF Directory, Children, Readers, Combined
<1>2. CASE LoadScripts
  BY <1>2 DEF LoadScripts, Children, Readers, Combined
<1>3. CASE LoadScript
  BY <1>3 DEF LoadScript, Children, Readers, Combined
<1>4. CASE EndLoading
  BY <1>4 DEF EndLoading, Children, Readers, Combined
<1>5. CASE Call
  BY <1>5 DEF Call, Children, Readers, Combined
<1>6. CASE ValidateScript
  BY <1>6 DEF ValidateScript, ReturnResult, Children, Readers, Combined
<1>7. CASE Start
  <2>1. CASE deadline \/ file[script.path] = NoScript
    BY <1>7, <2>1 DEF Start, ReturnResult, Children, Readers, Combined
  <2>2. CASE ~(deadline \/ file[script.path] = NoScript)
    <3>1. script.path \in Paths
      BY <1>7 DEF Start, EngineTypes, Loadable
    <3>2. file[script.path] \in Scripts
      BY <2>2, <3>1, EntryTypes
    <3> QED BY <1>7, <2>2, <3>2 DEF Start, Children, Readers, Combined
  <2> QED BY <2>1, <2>2
<1>8. CASE WriteLine
  BY <1>8 DEF WriteLine, Children, Readers, Combined
<1>9. CASE Fork
  BY <1>9 DEF Fork, Children, Readers, Combined
<1>10. CASE Exit
  BY <1>10 DEF Exit, Children, Readers, Combined
<1>11. CASE HelperEnds
  BY <1>11 DEF HelperEnds, Children, Readers, Combined
<1>12. CASE Deadline
  BY <1>12 DEF Deadline, Children, Readers, Combined
<1>13. CASE ReadLine
  BY <1>13 DEF ReadLine, Children, Readers, Combined
<1>14. CASE EndOfStdout
  BY <1>14 DEF EndOfStdout, EndOfFile, Children, Readers, Combined
<1>15. CASE ReadError
  BY <1>15 DEF ReadError, Children, Readers, Combined
<1>16. CASE EndOfStderr
  BY <1>16 DEF EndOfStderr, EndOfFile, Children, Readers, Combined
<1>17. CASE Reap
  BY <1>17 DEF Reap, WaitStatus, Children, Readers, Combined
<1>18. CASE Finish
  <2>1. epc \in Executing /\ child # "running" /\ epc' = "idle" /\ child' = child
    BY <1>18 DEF Finish, ReturnResult, Children, Readers
  <2> QED BY <2>1 DEF Children, Readers
<1>19. CASE UNCHANGED scriptVars
  BY <1>19 DEF scriptVars, svars, Children, Readers, Combined
<1> QED BY <1>1, <1>2, <1>3, <1>4, <1>5, <1>6, <1>7, <1>8, <1>9, <1>10, <1>11, <1>12, <1>13,
           <1>14, <1>15, <1>16, <1>17, <1>18, <1>19 DEF ScriptNext, Execute, Process

\* What was verified is still there, and what was started is what was loaded.
LEMMA LoadedStep ==
    Children /\ Verified /\ RunsWhatWasLoaded /\ [ScriptNext]_scriptVars => Verified' /\ RunsWhatWasLoaded'
<1> SUFFICES ASSUME Children, Verified, RunsWhatWasLoaded, [ScriptNext]_scriptVars
             PROVE  Verified' /\ RunsWhatWasLoaded'
  OBVIOUS
<1> USE DEF engine, process, pipes, Verified, RunsWhatWasLoaded
<1>1. CASE Directory
  BY <1>1 DEF Directory
<1>2. CASE LoadScripts \/ LoadScript \/ EndLoading
  BY <1>2 DEF LoadScripts, LoadScript, EndLoading, rvars
<1>3. CASE Call
  BY <1>3 DEF Call, rvars
<1>4. CASE ValidateScript
  BY <1>4 DEF ValidateScript, Valid, ReturnResult, Children, rvars
<1>5. CASE Start
  BY <1>5 DEF Start, ReturnResult, Children, rvars
<1>6. CASE WriteLine \/ Fork \/ HelperEnds
  BY <1>6 DEF WriteLine, Fork, HelperEnds, rvars
<1>7. CASE Exit \/ Deadline
  BY <1>7 DEF Exit, Deadline, rvars
<1>8. CASE ReadLine \/ EndOfStdout \/ ReadError \/ EndOfStderr \/ Reap
  BY <1>8 DEF ReadLine, EndOfStdout, ReadError, EndOfStderr, Reap, rvars
<1>9. CASE Finish
  BY <1>9 DEF Finish, ReturnResult, rvars
<1>10. CASE UNCHANGED scriptVars
  BY <1>10 DEF scriptVars, svars, rvars
<1> QED BY <1>1, <1>2, <1>3, <1>4, <1>5, <1>6, <1>7, <1>8, <1>9, <1>10 DEF ScriptNext, Execute, Process

-----------------------------------------------------------------------------
(***************************************************************************)
(* The output of a script.                                                 *)
(***************************************************************************)
LEMMA PrintingIs ==
    ASSUME NEW text, Len(text.does) \in Nat, NEW language
    PROVE  /\ Printing(text, language)[0] = <<>>
           /\ \A n \in Nat : n + 1 <= Len(text.does) =>
                Printing(text, language)[n + 1] =
                  IF Prints(text.does[n + 1], language)
                  THEN Append(Printing(text, language)[n], text.does[n + 1].line)
                  ELSE Printing(text, language)[n]
<1> DEFINE After(g, n) ==
             IF n = 0 THEN <<>>
             ELSE IF Prints(text.does[n], language) THEN Append(g[n - 1], text.does[n].line)
             ELSE g[n - 1]
           Is(g, m) == g = [n \in 0..m |-> After(g, n)]
<1>1. PICK last \in Nat : last = Len(text.does)
  OBVIOUS
<1>2. PICK f : f = Printing(text, language)
  OBVIOUS
<1>3. f = CHOOSE g : Is(g, last)
  BY <1>1, <1>2 DEF Printing
<1>4. Is([n \in 0..0 |-> <<>>], 0)
  OBVIOUS
<1>5. ASSUME NEW m \in Nat, NEW g, Is(g, m)
      PROVE  \E h : Is(h, m + 1)
  <2>1. PICK h : h = [n \in 0..(m + 1) |-> IF n = m + 1 THEN After(g, m + 1) ELSE g[n]]
    OBVIOUS
  <2>2. \A n \in 0..m : g[n] = After(g, n)
    <3> HIDE DEF After
    <3> QED BY <1>5
  <2>3. ASSUME NEW n \in 0..(m + 1)
        PROVE  h[n] = After(h, n)
    <3>1. n # 0 => h[n - 1] = g[n - 1]
      BY <2>1
    <3>2. h[n] = After(g, n)
      <4>1. CASE n = m + 1
        <5> HIDE DEF After
        <5> QED BY <2>1, <4>1
      <4>2. CASE n # m + 1
        <5>1. n \in 0..m
          BY <4>2
        <5> HIDE DEF After
        <5> QED BY <2>1, <2>2, <4>2, <5>1
      <4> QED BY <4>1, <4>2
    <3> QED BY <3>1, <3>2
  <2>4. Is(h, m + 1)
    <3> HIDE DEF After
    <3> QED BY <2>1, <2>3
  <2> QED BY <2>4
<1>6. ASSUME NEW m \in Nat
      PROVE  \E g : Is(g, m)
  <2> HIDE DEF Is
  <2> DEFINE T == {k \in Nat : ~\E g : Is(g, k)}
  <2>1. SUFFICES ASSUME T # {} PROVE FALSE
    OBVIOUS
  <2>2. T \subseteq Nat
    OBVIOUS
  <2>3. PICK k \in T : \A l \in T : k <= l
    <3> HIDE DEF T
    <3> QED BY <2>1, <2>2, LeastNumber
  <2>4. k # 0
    BY <1>4
  <2>5. k \in Nat /\ ~\E g : Is(g, k)
    OBVIOUS
  <2>6. k - 1 \in Nat /\ k - 1 + 1 = k
    BY <2>4, <2>5
  <2>7. k - 1 \notin T
    <3> HIDE DEF T
    <3> QED BY <2>3, <2>5, <2>6
  <2>8. PICK g : Is(g, k - 1)
    BY <2>6, <2>7
  <2>9. \E h : Is(h, k - 1 + 1)
    BY <1>5, <2>6, <2>8
  <2> QED BY <2>5, <2>6, <2>9
<1>7. Is(f, last)
  <2> HIDE DEF Is
  <2> QED BY <1>3, <1>6
<1>8. \A n \in 0..last : f[n] = After(f, n)
  <2> HIDE DEF After
  <2> QED BY <1>7
<1>9. f[0] = <<>>
  BY <1>8
<1>10. ASSUME NEW n \in Nat, n + 1 <= last
       PROVE  f[n + 1] = IF Prints(text.does[n + 1], language) THEN Append(f[n], text.does[n + 1].line) ELSE f[n]
  <2>1. n + 1 \in 0..last /\ n + 1 # 0 /\ n + 1 - 1 = n
    BY <1>10
  <2>2. f[n + 1] = After(f, n + 1)
    BY <1>8, <2>1
  <2> QED BY <2>1, <2>2
<1> QED BY <1>1, <1>2, <1>9, <1>10

\* What a pipe moves from its one end to the other.
LEMMA PutThrough ==
    ASSUME NEW S, NEW a \in Seq(S), NEW b \in Seq(S), NEW x \in S
    PROVE  a \o Append(b, x) = Append(a \o b, x)
OBVIOUS

LEMMA TakeThrough ==
    ASSUME NEW S, NEW a \in Seq(S), NEW b \in Seq(S), b # <<>>
    PROVE  Append(a, Head(b)) \o Tail(b) = a \o b
OBVIOUS

\* Where the process is: what it has yet to do is the rest of its script.
LEMMA NextStep ==
    ASSUME ProcessTypes, Flow, Children, child = "running", todo # <<>>
    PROVE  /\ DoneSteps \in Nat /\ Len(todo) \in Nat /\ Len(Tail(todo)) = Len(todo) - 1
           /\ Len(ran.does) \in Nat /\ DoneSteps + 1 <= Len(ran.does)
           /\ Head(todo) = ran.does[DoneSteps + 1] /\ Head(todo) \in Doings
           /\ \A k \in 1..Len(Tail(todo)) : Tail(todo)[k] = ran.does[(DoneSteps + 1) + k]
<1>1. epc \in Executing /\ ran \in Scripts
  BY DEF Children
<1>2. ran.does \in Seq(Doings)
  BY <1>1, RunAssumption DEF Doings
<1>3. todo \in Seq(Doings)
  BY DEF ProcessTypes
<1>4. Len(todo) \in Nat \ {0} /\ Len(ran.does) \in Nat
  BY <1>2, <1>3
<1>5. DoneSteps \in Nat /\ \A k \in 1..Len(todo) : todo[k] = ran.does[DoneSteps + k]
  BY <1>1 DEF Flow
<1>6. DoneSteps = Len(ran.does) - Len(todo)
  BY DEF DoneSteps
<1>7. Head(todo) = todo[1] /\ Head(todo) \in Doings /\ Len(Tail(todo)) = Len(todo) - 1
      /\ \A k \in 1..Len(Tail(todo)) : Tail(todo)[k] = todo[k + 1]
  BY <1>3
<1>8. Head(todo) = ran.does[DoneSteps + 1]
  BY <1>4, <1>5, <1>7
<1>9. ASSUME NEW k \in 1..Len(Tail(todo))
      PROVE  Tail(todo)[k] = ran.does[(DoneSteps + 1) + k]
  <2>1. k + 1 \in 1..Len(todo) /\ DoneSteps + (k + 1) = (DoneSteps + 1) + k
    BY <1>4, <1>5, <1>7
  <2> QED BY <1>5, <1>7, <2>1
<1> QED BY <1>4, <1>5, <1>6, <1>7, <1>8, <1>9

\* One step of the process, seen from both ends of the pipes.
LEMMA FlowGoesOn ==
    ASSUME ProcessTypes, Flow, Children, child = "running", todo # <<>>,
           todo' = Tail(todo), UNCHANGED <<epc, script, ran, got>>,
           out' = IF Prints(Head(todo), Language[script.path]) THEN Append(out, Head(todo).line) ELSE out
    PROVE  Flow'
<1>1. epc \in Executing /\ ran \in Scripts
  BY DEF Children
<1>2. Len(ran.does) \in Nat
  BY <1>1, RunAssumption
<1>3. DoneSteps' = DoneSteps + 1 /\ DoneSteps \in Nat
  BY NextStep DEF DoneSteps
<1>4. \A k \in 1..Len(todo') : todo'[k] = ran'.does[DoneSteps' + k]
  BY <1>3, NextStep
<1>5. PICK n \in Nat : n = DoneSteps
  BY <1>3
<1>6. PICK f : f = Printing(ran, Language[script.path])
  OBVIOUS
<1>7. got \o out = f[n]
  BY <1>1, <1>5, <1>6 DEF Flow
<1>8. Head(todo) = ran.does[n + 1] /\ n + 1 <= Len(ran.does) /\ Head(todo) \in Doings
  BY <1>5, NextStep
<1>9. f[n + 1] = IF Prints(Head(todo), Language[script.path]) THEN Append(f[n], Head(todo).line) ELSE f[n]
  BY <1>2, <1>6, <1>8, PrintingIs
<1>10. got' \o out' = f[n + 1]
  <2>1. CASE Prints(Head(todo), Language[script.path])
    <3>1. Head(todo).line \in STRING
      BY <1>8 DEF Doings
    <3>2. got \in Seq(STRING) /\ out \in Seq(STRING)
      BY DEF ProcessTypes
    <3>3. got \o Append(out, Head(todo).line) = Append(got \o out, Head(todo).line)
      BY <3>1, <3>2, PutThrough
    <3> QED BY <1>7, <1>9, <2>1, <3>3
  <2>2. CASE ~Prints(Head(todo), Language[script.path])
    BY <1>7, <1>9, <2>2
  <2> QED BY <2>1, <2>2
<1>11. Printing(ran, Language[script.path])' = f
  BY <1>6
<1> QED BY <1>3, <1>4, <1>5, <1>10, <1>11 DEF Flow

LEMMA FlowUntouched ==
    ASSUME Flow, Drained, UNCHANGED <<script, ran, todo, got, out>>,
           epc' \in Executing => epc \in Executing, child' = "exited" => child = "exited" \/ todo = <<>>
    PROVE  Flow' /\ Drained'
<1>1. DoneSteps' = DoneSteps /\ Printing(ran, Language[script.path])' = Printing(ran, Language[script.path])
  BY DEF DoneSteps
<1>2. Flow'
  BY <1>1 DEF Flow
<1> QED BY <1>2 DEF Drained

LEMMA FlowStep ==
    /\ DirectoryTypes /\ EngineTypes /\ ProcessTypes /\ Children /\ Readers /\ Flow /\ Drained
    /\ [ScriptNext]_scriptVars
    => Flow' /\ Drained'
<1> SUFFICES ASSUME DirectoryTypes, EngineTypes, ProcessTypes, Children, Readers, Flow, Drained,
                    [ScriptNext]_scriptVars
             PROVE  Flow' /\ Drained'
  OBVIOUS
<1> USE DEF engine, process, pipes
<1>1. CASE Directory
  BY <1>1, FlowUntouched DEF Directory
<1>2. CASE LoadScripts \/ LoadScript \/ EndLoading
  BY <1>2, FlowUntouched DEF LoadScripts, LoadScript, EndLoading
<1>3. CASE Call
  BY <1>3 DEF Call, Flow, Drained, Executing
<1>4. CASE ValidateScript
  BY <1>4 DEF ValidateScript, ReturnResult, Flow, Drained, Executing
<1>5. CASE Start
  <2>1. CASE deadline \/ file[script.path] = NoScript
    BY <1>5, <2>1 DEF Start, ReturnResult, Flow, Drained, Executing
  <2>2. CASE ~(deadline \/ file[script.path] = NoScript)
    <3>1. script.path \in Paths
      BY <1>5 DEF Start, EngineTypes, Loadable
    <3>2. file[script.path] \in Scripts /\ file[script.path].does \in Seq(Doings)
      BY <2>2, <3>1, EntryTypes
    <3>3. /\ ran' = file[script.path] /\ todo' = ran'.does /\ child' = "running"
          /\ out' = <<>> /\ got' = <<>> /\ script' = script
      BY <1>5, <2>2 DEF Start
    <3>4. PICK t : t = ran'
      OBVIOUS
    <3>5. Len(t.does) \in Nat
      BY <3>2, <3>3, <3>4
    <3>6. DoneSteps' = 0
      BY <3>3, <3>4, <3>5 DEF DoneSteps
    <3>7. Printing(t, Language[script.path])[0] = <<>>
      BY <3>5, PrintingIs
    <3>8. got' \o out' = <<>>
      BY <3>3
    <3>9. \A k \in 1..Len(todo') : todo'[k] = ran'.does[DoneSteps' + k]
      BY <3>3, <3>6
    <3>10. Flow'
      BY <3>3, <3>4, <3>6, <3>7, <3>8, <3>9 DEF Flow
    <3> QED BY <3>3, <3>10 DEF Drained
  <2> QED BY <2>1, <2>2
<1>6. CASE WriteLine
  <2>1. child = "running" /\ todo # <<>> /\ Head(todo).to # "fork" /\ todo' = Tail(todo)
        /\ UNCHANGED <<epc, script, ran, got, child>>
    BY <1>6 DEF WriteLine
  <2>2. Head(todo).to \in {"out", "err", "fork"}
    BY <2>1, NextStep DEF Doings
  <2>3. out' = IF Prints(Head(todo), Language[script.path]) THEN Append(out, Head(todo).line) ELSE out
    BY <1>6, <2>2 DEF WriteLine, Prints, Combined
  <2> QED BY <2>1, <2>3, FlowGoesOn DEF Drained
<1>7. CASE Fork
  <2>1. child = "running" /\ todo # <<>> /\ Head(todo).to = "fork" /\ todo' = Tail(todo)
        /\ UNCHANGED <<epc, script, ran, got, child, out>>
    BY <1>7 DEF Fork
  <2>2. ~Prints(Head(todo), Language[script.path])
    BY <2>1 DEF Prints
  <2> QED BY <2>1, <2>2, FlowGoesOn DEF Drained
<1>8. CASE Exit \/ HelperEnds
  BY <1>8, FlowUntouched DEF Exit, HelperEnds
<1>9. CASE Deadline
  BY <1>9, FlowUntouched DEF Deadline
<1>10. CASE ReadLine
  <2>1. out # <<>> /\ got' = Append(got, Head(out)) /\ out' = Tail(out)
        /\ UNCHANGED <<epc, script, ran, todo, child>>
    BY <1>10 DEF ReadLine
  <2>2. got' \o out' = got \o out
    BY <2>1, TakeThrough DEF ProcessTypes
  <2>3. DoneSteps' = DoneSteps /\ Printing(ran, Language[script.path])' = Printing(ran, Language[script.path])
    BY <2>1 DEF DoneSteps
  <2> QED BY <2>1, <2>2, <2>3 DEF Flow, Drained
<1>11. CASE EndOfStdout \/ ReadError \/ EndOfStderr \/ Reap
  BY <1>11, FlowUntouched DEF EndOfStdout, ReadError, EndOfStderr, Reap, Executing
<1>12. CASE Finish
  BY <1>12 DEF Finish, ReturnResult, Flow, Drained, Executing
<1>13. CASE UNCHANGED scriptVars
  BY <1>13, FlowUntouched DEF scriptVars, svars
<1> QED BY <1>1, <1>2, <1>3, <1>4, <1>5, <1>6, <1>7, <1>8, <1>9, <1>10, <1>11, <1>12, <1>13
        DEF ScriptNext, Execute, Process

\* The whole output has been read when an exited process is finished with.
LEMMA WholeOutput ==
    ASSUME EngineTypes, ProcessTypes, Children, Readers, Flow, Drained,
           epc \in Executing, child = "exited", out = <<>>
    PROVE  got = Printed(ran, Language[script.path])
<1>1. todo = <<>> /\ ran \in Scripts
  BY DEF Drained, Children
<1>2. Len(ran.does) \in Nat /\ Len(todo) = 0
  BY <1>1, RunAssumption
<1>3. DoneSteps = Len(ran.does)
  BY <1>2 DEF DoneSteps
<1>4. got \o out = got
  BY DEF ProcessTypes
<1> QED BY <1>3, <1>4 DEF Flow, Printed

LEMMA VerdictUntouched ==
    ASSUME VerdictOfWholeOutput, UNCHANGED <<script, ran, returned>>, child' = "exited" <=> child = "exited"
    PROVE  VerdictOfWholeOutput'
<1>1. Printed(ran, Language[script.path])' = Printed(ran, Language[script.path])
  OBVIOUS
<1> QED BY <1>1 DEF VerdictOfWholeOutput

LEMMA VerdictStep ==
    /\ EngineTypes /\ ProcessTypes /\ Children /\ Readers /\ Flow /\ Drained
    /\ VerdictOfWholeOutput /\ [ScriptNext]_scriptVars
    => VerdictOfWholeOutput'
<1> SUFFICES ASSUME EngineTypes, ProcessTypes, Children, Readers, Flow, Drained,
                    VerdictOfWholeOutput, [ScriptNext]_scriptVars
             PROVE  VerdictOfWholeOutput'
  OBVIOUS
<1> USE DEF engine, process, pipes
<1>0. ReturnResult(Failed) => VerdictOfWholeOutput'
  BY DEF ReturnResult, Failed, VerdictOfWholeOutput
<1>1. CASE Directory
  BY <1>1, VerdictUntouched DEF Directory
<1>2. CASE LoadScripts \/ LoadScript \/ EndLoading
  BY <1>2, VerdictUntouched DEF LoadScripts, LoadScript, EndLoading
<1>3. CASE Call
  BY <1>3 DEF Call, NoVerdict, VerdictOfWholeOutput
<1>4. CASE ValidateScript
  <2>1. CASE Valid(script)
    BY <1>4, <2>1, VerdictUntouched DEF ValidateScript
  <2>2. CASE ~Valid(script)
    BY <1>0, <1>4, <2>2 DEF ValidateScript
  <2> QED BY <2>1, <2>2
<1>5. CASE Start
  <2>1. CASE deadline \/ file[script.path] = NoScript
    BY <1>0, <1>5, <2>1 DEF Start
  <2>2. CASE ~(deadline \/ file[script.path] = NoScript)
    <3>1. returned' = returned /\ child = "none"
      BY <1>5, <2>2 DEF Start, Children
    <3> QED BY <3>1 DEF VerdictOfWholeOutput
  <2> QED BY <2>1, <2>2
<1>6. CASE WriteLine \/ Fork \/ HelperEnds
  BY <1>6, VerdictUntouched DEF WriteLine, Fork, HelperEnds
<1>7. CASE Exit
  <2>1. returned' = returned /\ child = "running"
    BY <1>7 DEF Exit
  <2> QED BY <2>1 DEF VerdictOfWholeOutput
<1>8. CASE Deadline
  BY <1>8, VerdictUntouched DEF Deadline
<1>9. CASE ReadLine \/ EndOfStdout \/ ReadError \/ EndOfStderr \/ Reap
  BY <1>9, VerdictUntouched DEF ReadLine, EndOfStdout, ReadError, EndOfStderr, Reap
<1>10. CASE Finish
  <2>1. PICK state : ReturnResult(ParsedWith(state)) /\ epc \in Executing
                     /\ (state = "ok" => child = "exited" /\ ran.code = 0) /\ out = <<>>
    <3>1. CASE epc = "wait" /\ ~Combined /\ ReturnResult(ParsedWith(WaitStatus))
      BY <3>1 DEF WaitStatus, Readers, Executing
    <3>2. CASE epc = "copy" /\ EndOfFile(out) /\ ReturnResult(ParsedWith(status))
      BY <3>2 DEF EndOfFile, Readers, Executing
    <3> QED BY <1>10, <3>1, <3>2 DEF Finish
  <2>2. CASE state = "ok"
    <3>1. child = "exited" /\ ran.code = 0 /\ UNCHANGED <<child, ran, script>>
      BY <1>10, <2>1, <2>2 DEF Finish, ReturnResult
    <3>2. returned' = Verdict(Says(got))
      BY <2>1, <2>2 DEF ReturnResult, ParsedWith
    <3>3. got = Printed(ran, Language[script.path])
      BY <2>1, <3>1, WholeOutput
    <3>4. PICK answer : answer = Says(got)
      OBVIOUS
    <3>5. returned'.vulnerable = Says(Printed(ran, Language[script.path]))
      BY <3>2, <3>3, <3>4 DEF Verdict
    <3>6. Says(Printed(ran, Language[script.path]))' = Says(Printed(ran, Language[script.path]))
      BY <3>1
    <3> QED BY <3>1, <3>5, <3>6 DEF VerdictOfWholeOutput
  <2>3. CASE state # "ok"
    BY <1>0, <2>1, <2>3 DEF ParsedWith
  <2> QED BY <2>2, <2>3
<1>11. CASE UNCHANGED scriptVars
  BY <1>11, VerdictUntouched DEF scriptVars, svars
<1> QED BY <1>1, <1>2, <1>3, <1>4, <1>5, <1>6, <1>7, <1>8, <1>9, <1>10, <1>11
        DEF ScriptNext, Execute, Process

-----------------------------------------------------------------------------
(***************************************************************************)
(* The theorems about scripts.                                             *)
(***************************************************************************)
ScriptInv ==
    /\ DirectoryTypes /\ SumsAgree /\ Directed
    /\ EngineTypes /\ ProcessTypes /\ Children /\ Readers /\ Verified /\ Flow /\ Drained
    /\ RunsWhatWasLoaded /\ VerdictOfWholeOutput

LEMMA ScriptInvInit == ScriptInit => ScriptInv
<1> SUFFICES ASSUME ScriptInit PROVE ScriptInv
  OBVIOUS
<1>1. DirectoryTypes /\ SumsAgree /\ Directed
  BY DirectoryTypesInit, DirectedInit DEF ScriptInit
<1>2. EngineTypes /\ ProcessTypes
  BY RunTypesInit
<1>3. Children /\ Readers /\ Verified /\ Flow /\ Drained /\ RunsWhatWasLoaded
  BY DEF ScriptInit, Children, Readers, Verified, Flow, Drained, RunsWhatWasLoaded, Executing
<1>4. VerdictOfWholeOutput
  BY DEF ScriptInit, NoVerdict, VerdictOfWholeOutput
<1> QED BY <1>1, <1>2, <1>3, <1>4 DEF ScriptInv

LEMMA OwnSteps == [ScriptNext]_scriptVars => Repository \/ Outside \/ UNCHANGED rvars
<1> SUFFICES ASSUME [ScriptNext]_scriptVars PROVE Repository \/ Outside \/ UNCHANGED rvars
  OBVIOUS
<1>1. CASE Directory
  BY <1>1 DEF Directory
<1>2. CASE LoadScripts \/ LoadScript \/ EndLoading \/ Call \/ Deadline
  BY <1>2 DEF LoadScripts, LoadScript, EndLoading, Call, Deadline
<1>3. CASE Execute
  BY <1>3 DEF Execute, ValidateScript, Start, ReadLine, EndOfStdout, ReadError, EndOfStderr, Reap, Finish
<1>4. CASE Process
  BY <1>4 DEF Process, WriteLine, Fork, Exit, HelperEnds
<1>5. CASE UNCHANGED scriptVars
  BY <1>5 DEF scriptVars
<1> QED BY <1>1, <1>2, <1>3, <1>4, <1>5 DEF ScriptNext

LEMMA ScriptInvStep == ScriptInv /\ [ScriptNext]_scriptVars => ScriptInv'
<1> SUFFICES ASSUME ScriptInv, [ScriptNext]_scriptVars PROVE ScriptInv'
  OBVIOUS
<1> USE DEF ScriptInv
<1>1. DirectoryTypes' /\ SumsAgree' /\ Directed'
  <2>1. CASE Repository \/ Outside
    BY <2>1, DirectoryTypesStep, SumsAgreeStep, DirectedStep
  <2>2. CASE UNCHANGED rvars
    <3>1. DirectoryTypes'
      BY <2>2 DEF rvars, DirectoryTypes
    <3>2. SumsAgree'
      BY <2>2 DEF rvars, SumsAgree
    <3>3. Directed'
      BY <2>2 DEF rvars, Directed, Sound
    <3> QED BY <3>1, <3>2, <3>3
  <2> QED BY <2>1, <2>2, OwnSteps
<1>2. EngineTypes' /\ ProcessTypes'
  BY RunTypesStep
<1>3. Children' /\ Readers'
  BY ChildrenStep
<1>4. Verified' /\ RunsWhatWasLoaded'
  BY LoadedStep
<1>5. Flow' /\ Drained'
  BY FlowStep
<1>6. VerdictOfWholeOutput'
  BY VerdictStep
<1> QED BY <1>1, <1>2, <1>3, <1>4, <1>5, <1>6

LEMMA ScriptInvAlways == ScriptSpec => []ScriptInv
BY ScriptInvInit, ScriptInvStep, PTL DEF ScriptSpec

\* The types of everything that the script engine and its repository keep.
THEOREM ScriptTypeCorrect == ScriptSpec => []ScriptTypeOK
<1>1. ScriptInv => RepositoryTypeOK
  BY DEF ScriptInv, DirectoryTypes, RepositoryTypeOK
<1>2. ScriptInv => ScriptTypeOK
  <2> SUFFICES ASSUME ScriptInv PROVE ScriptTypeOK
    OBVIOUS
  <2> USE DEF ScriptInv
  <2>1. \A n \in Names : loaded[n] # NoEntry => loaded[n].path \in Paths /\ loaded[n].sum \in Scripts
    BY DEF EngineTypes, Loadable
  <2>2. deadline \in BOOLEAN /\ helper \in BOOLEAN /\ touched \in BOOLEAN
    BY DEF EngineTypes, ProcessTypes
  <2>3. platform \in Platforms /\ lpc \subseteq Paths /\ loading \in BOOLEAN
        /\ epc \in {"idle", "called", "valid", "stdout", "stderr", "wait", "copy"}
        /\ status \in {"ok", "error"} /\ runs \in 0..MaxRuns
        /\ returned \in {NoVerdict, Failed, Verdict(TRUE), Verdict(FALSE)}
    BY DEF EngineTypes, Executing
  <2>4. ran \in Scripts \cup {NoScript} /\ child \in {"none", "running", "exited", "killed"}
        /\ Len(out) <= PipeRoom /\ Len(err) <= PipeRoom
    BY DEF ProcessTypes
  <2> QED BY <1>1, <2>1, <2>2, <2>3, <2>4 DEF ScriptTypeOK
<1> QED BY <1>2, ScriptInvAlways, PTL

\* The manifest agrees with itself, with its file and, where nobody else has
\* been at work, with the scripts of the directory.
THEOREM ManifestIsTrue == ScriptSpec => []ManifestAgrees
<1>1. ScriptInv => ManifestAgrees
  BY DirectedAgrees DEF ScriptInv
<1> QED BY <1>1, ScriptInvAlways, PTL

\* The verdict on a script is drawn from all that it printed, and only if it
\* came to its end with status 0.
THEOREM VerdictIsOfWholeOutput == ScriptSpec => []VerdictOfWholeOutput
<1>1. ScriptInv => VerdictOfWholeOutput
  BY DEF ScriptInv
<1> QED BY <1>1, ScriptInvAlways, PTL

\* The process runs the text that was loaded, unless it was changed between
\* the validation and the start.
THEOREM LoadedIsRun == ScriptSpec => []RunsWhatWasLoaded
<1>1. ScriptInv => RunsWhatWasLoaded
  BY DEF ScriptInv
<1> QED BY <1>1, ScriptInvAlways, PTL
=============================================================================
