-------------------------- MODULE TemplateExecutor --------------------------
(***************************************************************************)
(* Executor.ExecuteTemplate: the steps of a template that apply to this    *)
(* platform are run in order, an error in one does not stop the next, and  *)
(* the logic of the template makes a verdict and a confidence of them.     *)
(***************************************************************************)
EXTENDS StepModules

CONSTANTS
    Platform,       \* runtime.GOOS
    Library         \* the templates, by TemplateID

Applies(step) == step.platforms = {} \/ Platform \in step.platforms

\* What is kept of the first n steps.
KeptSteps(steps) ==
    LET kept[n \in 0..Len(steps)] ==
          IF n = 0 THEN << >>
          ELSE IF Applies(steps[n]) THEN Append(kept[n - 1], steps[n]) ELSE kept[n - 1]
    IN kept
filterStepsByPlatform(steps) == KeptSteps(steps)[Len(steps)]

\* After a panic the deferred function sets the error of a local variable,
\* and the unnamed return value is the zero StepResult.
executeStep(o) ==
    IF o.kind = "result" THEN [matched |-> o.matched, error |-> o.error]
    ELSE [matched |-> FALSE, error |-> o.kind = "failed"]

Hit(result) == ~result.error /\ result.matched
Logic(l) == IF l = "" THEN "all" ELSE l

evaluateLogic(l, stepResults) ==
    \/ /\ Logic(l) = "all"
       /\ \A i \in DOMAIN stepResults : stepResults[i].error \/ stepResults[i].matched
       /\ \E i \in DOMAIN stepResults : Hit(stepResults[i])
    \/ /\ Logic(l) = "any"
       /\ \E i \in DOMAIN stepResults : Hit(stepResults[i])

Weight(step) == IF step.weight > 0 THEN step.weight ELSE 1

calculateConfidence(l, stepResults, steps) ==
    LET weights == {Weight(steps[i]) : i \in {j \in DOMAIN stepResults : Hit(stepResults[j])}}
    IN IF weights = {} \/ Logic(l) \notin {"all", "any"} THEN 0
       ELSE IF Logic(l) = "all" THEN CHOOSE w \in weights : \A v \in weights : w <= v
       ELSE CHOOSE w \in weights : \A v \in weights : w >= v

WeightedSteps(t) == filterStepsByPlatform(t.steps)

\* outcomes: how the module of each applicable step ends.
ExecuteTemplate(id, outcomes) ==
    LET t == Library[id]
        stepResults == [i \in DOMAIN outcomes |-> executeStep(outcomes[i])]
    IN [template |-> id, outcomes |-> outcomes, steps |-> stepResults,
        matched |-> evaluateLogic(t.logic, stepResults),
        confidence |-> calculateConfidence(t.logic, stepResults, WeightedSteps(t))]

Executions(id) ==
    LET steps == filterStepsByPlatform(Library[id].steps)
        Ends == UNION {StepOutcomes(steps[i]) : i \in DOMAIN steps}
    IN {ExecuteTemplate(id, outcomes) :
          outcomes \in {o \in [DOMAIN steps -> Ends] : \A i \in DOMAIN steps : o[i] \in StepOutcomes(steps[i])}}
=============================================================================
