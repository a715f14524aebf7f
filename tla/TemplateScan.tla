---------------------------- MODULE TemplateScan ----------------------------
(***************************************************************************)
(* The scan of an agent: the worker pool runs the template executor, and   *)
(* the verdicts are in the slots the pool returns.                         *)
(***************************************************************************)
EXTENDS WorkerPool, TemplateExecutor

\* What the pool runs is the executor, on templates as the parser makes them;
\* a weight is only compared with others.  A file has its lines in order.
StepsAreListed(steps) ==
    /\ steps \in Seq({steps[j] : j \in DOMAIN steps})
    /\ \A j \in DOMAIN steps : steps[j].weight \in Int
Ordered(lines) == lines \in Seq({"hit", "miss", "long"})

ASSUME ScanAssumption ==
    /\ \A id \in DOMAIN Library : StepsAreListed(Library[id].steps)
    /\ \A path \in DOMAIN Machine.files : Ordered(LinesOf(path))
    /\ \A id \in DOMAIN Library : \A j \in DOMAIN Library[id].steps :
         LET step == Library[id].steps[j] IN
         step.type = "file_content" => step.config.path \in {""} \cup DOMAIN Machine.files
    /\ \A id \in DOMAIN Produced : id \in DOMAIN Library /\ Produced[id] \subseteq Executions(id)

Verdicts == {slots[i] : i \in 1..N} \ {NoResult}

\* Which outcome is that of step j of a template, as the template lists them.
StepsOf(r) == Library[r.template].steps
LogicOf(r) == Logic(Library[r.template].logic)
OutcomeOf(r, j) == r.outcomes[Cardinality({k \in 1..j : Applies(StepsOf(r)[k])})]
HitSteps(r) ==
    {j \in DOMAIN StepsOf(r) : Applies(StepsOf(r)[j]) /\ OutcomeOf(r, j) = Found}

\* A template matches if and only if a step that applies matched without an
\* error and, with the logic "all", none that ran did not: "Skip steps with
\* errors" (executor.go:211).  A step that panicked counts as one that ran, and
\* a logic that is neither "all" nor "any" matches nothing.
KnownLogic(r) == LogicOf(r) \in {"all", "any"}
Missed == {Clear, Panic}
MatchIsWitnessed ==
    \A r \in Verdicts :
        r.matched <=> /\ KnownLogic(r) /\ HitSteps(r) # {}
                      /\ LogicOf(r) = "all" => \A i \in DOMAIN r.outcomes : r.outcomes[i] \notin Missed

\* The confidence is the least, or with the logic "any" the greatest, weight
\* of the steps that matched, whichever steps the platform leaves out.
ConfidenceOfHits ==
    \A r \in Verdicts :
        LET weights == {Weight(StepsOf(r)[j]) : j \in HitSteps(r)}
        IN IF weights = {} \/ ~KnownLogic(r) THEN r.confidence = 0
           ELSE /\ r.confidence \in weights
                /\ \A w \in weights : IF LogicOf(r) = "all"
                                        THEN r.confidence <= w ELSE r.confidence >= w

\* What a step matched is on the machine.  A step that found nothing and met no
\* trouble had nothing to find, unless it searched a tree, where a file that
\* cannot be read or a deadline goes unsaid (filesearch.go:121, 233), or ran a
\* command, whose standard error is only seen when it fails and whose kill is
\* taken for its exit (versioncmd.go:54, 62).
EvidenceIsReal ==
    \A r \in Verdicts : \A j \in DOMAIN StepsOf(r) :
        LET step == StepsOf(r)[j] IN
        Applies(step) =>
            /\ OutcomeOf(r, j) = Found => Present(step)
            /\ OutcomeOf(r, j) = Clear /\ Present(step) => step.type \in {"file_search", "version_cmd"}

\* The verdict and the confidence of a template come from the steps that
\* matched, each with its own weight, and these from what the machine holds.
VerdictJustified == MatchIsWitnessed /\ ConfidenceOfHits /\ EvidenceIsReal
=============================================================================
