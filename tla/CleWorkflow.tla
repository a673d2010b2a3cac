---------------------------- MODULE CleWorkflow -----------------------------
(***************************************************************************)
(* CLEPredictiveDispatchWorkflow: four steps in a row, run by the          *)
(* DAGOrchestrator, whose `completed` carries the results from one to the  *)
(* next.  The store's patterns change while the workflow is under way.     *)
(***************************************************************************)
EXTENDS DagOrchestrator

CONSTANTS
    Asked,          \* original_tool
    Learnable,      \* the patterns there may be: [from, to, score], the score being
                    \* what matches_intent returns for the workflow's intent
    Thresholds,     \* the confidence thresholds a workflow may be given
    NoPattern

WorkflowSteps == {"classify_intent", "check_patterns", "validate_correction", "execute_tool"}

ASSUME StepsAssumption == WorkflowSteps \subseteq Steps
ASSUME LearnableAssumption ==
    \A p \in Learnable : p.score \in Nat /\ p.from # {} /\ p # NoPattern

VARIABLES
    threshold,      \* confidence_threshold
    known,          \* the patterns of the correction store
    checked,        \* the result of check_patterns: its pattern and should_correct
    chosen,         \* the result of validate_correction, then of execute_tool
    seen            \* history: the patterns find_patterns returned

results      == <<checked, chosen, seen>>
workflowVars == <<threshold, known, results>>

Asks == [tool |-> Asked, corrected |-> FALSE]

Validated == [tool : {Asked} \cup {p.to : p \in Learnable}, corrected : BOOLEAN]

WorkflowTypeOK ==
    /\ threshold \in Thresholds
    /\ known \subseteq Learnable /\ seen \subseteq Learnable
    /\ checked \in [pattern : Learnable \cup {NoPattern}, should : BOOLEAN]
    /\ chosen \in Validated

WorkflowLocals ==
    /\ threshold \in Thresholds
    /\ known = {} /\ seen = {}
    /\ checked = [pattern |-> NoPattern, should |-> FALSE]
    /\ chosen = Asks

\* Each step depends on the one before it.
WorkflowDeps ==
    [n \in Steps |->
       CASE n = "check_patterns"      -> {"classify_intent"}
         [] n = "validate_correction" -> {"check_patterns"}
         [] n = "execute_tool"        -> {"validate_correction"}
         [] OTHER                     -> {}]

-----------------------------------------------------------------------------
\* A pattern learned from the tool that was asked for counts if it scores at all.
Matching(patterns) == {p \in patterns : Asked \in p.from /\ p.score > 0}

\* The first of the best: the order of the store is left open.
BestMatch(patterns) ==
    IF Matching(patterns) = {} THEN {NoPattern}
    ELSE {p \in Matching(patterns) : \A q \in Matching(patterns) : q.score <= p.score}

ScoreOf(p) == IF p = NoPattern THEN 0 ELSE p.score

\* Mutant of ShouldCorrect: a pattern is enough.
ShouldCorrectAlways(p) == TRUE

ShouldCorrect(p) == ScoreOf(p) >= threshold

\* classify_intent: its result is read by nobody.
ClassifyIntent ==
    /\ StepEnds("classify_intent")
    /\ UNCHANGED workflowVars

CheckPatterns ==
    /\ StepEnds("check_patterns")
    /\ \/ /\ outcome'["check_patterns"] = "ok"
          /\ seen' = known
          /\ \E p \in BestMatch(known) :
               checked' = [pattern |-> p, should |-> ShouldCorrect(p)]
       \/ outcome'["check_patterns"] # "ok" /\ UNCHANGED <<seen, checked>>
    /\ UNCHANGED <<threshold, known, chosen>>

\* The result of a cancelled step is its CancelledError, in which nothing can be looked up.
Reads(n) == outcome[n] # "cancelled"

\* With a threshold of 0 should_correct is set although there is no pattern.
ValidateCorrection ==
    /\ StepEnds("validate_correction")
    /\ outcome'["validate_correction"] = "ok" => Reads("check_patterns")
    /\ chosen' = IF /\ outcome'["validate_correction"] = "ok"
                    /\ checked.should /\ checked.pattern # NoPattern
                 THEN [tool |-> checked.pattern.to, corrected |-> TRUE] ELSE Asks
    /\ UNCHANGED <<threshold, known, checked, seen>>

ExecuteTool ==
    /\ StepEnds("execute_tool")
    /\ outcome'["execute_tool"] = "ok" => Reads("validate_correction")
    /\ UNCHANGED workflowVars

\* Corrections are captured, patterns decay.
StoreChanges ==
    /\ phase \in {"execute", "gather"}
    /\ known' \in SUBSET Learnable
    /\ UNCHANGED <<threshold, results, vars>>

\* The orchestrator around the steps.
Orchestrate ==
    /\ \/ \E name \in Steps : VisitRoot(name)
       \/ \E name \in Names : VisitDependency(name)
       \/ Leave \/ Accept \/ StartBatch \/ CollectBatch \/ Finish
    /\ UNCHANGED workflowVars

WorkflowStep ==
    Orchestrate \/ ClassifyIntent \/ CheckPatterns \/ ValidateCorrection \/ ExecuteTool

WorkflowNext == WorkflowStep \/ StoreChanges

WorkflowInit == Init /\ deps = WorkflowDeps /\ WorkflowLocals

WorkflowSpec == WorkflowInit /\ [][WorkflowNext]_<<vars, workflowVars>>

-----------------------------------------------------------------------------
(* Properties *)

\* The workflow runs the best pattern there was, if its score reaches the threshold,
\* and the tool that was asked for otherwise, whatever the store does meanwhile and
\* however the steps end.
CorrectsIffConfident ==
    LET confident == {p \in BestMatch(seen) \ {NoPattern} : p.score >= threshold} IN
    phase = "done" /\ outcome["execute_tool"] = "ok" =>
      IF confident = {} THEN chosen = Asks
      ELSE chosen \in {[tool |-> p.to, corrected |-> TRUE] : p \in confident}

-----------------------------------------------------------------------------
(* The inductive invariant behind the theorems of OrchestrationProofs, on top of *)
(* the orchestrator's                                                            *)

\* The constructor accepts the workflow, and execute always finds a step to run.
Accepted == phase \notin {"cycle", "unknown", "stuck"}

\* What check_patterns found is the best of what find_patterns returned to it.
CheckedIsBest ==
    /\ checked.pattern \in BestMatch(seen)
    /\ outcome["check_patterns"] = "ok" => checked.should = ShouldCorrect(checked.pattern)

\* A step that ended well read the result of one that did, and chose accordingly.
ChosenAsChecked ==
    /\ outcome["validate_correction"] = "ok" =>
         /\ outcome["check_patterns"] = "ok"
         /\ chosen = IF checked.should /\ checked.pattern # NoPattern
                     THEN [tool |-> checked.pattern.to, corrected |-> TRUE] ELSE Asks
    /\ outcome["execute_tool"] = "ok" => outcome["validate_correction"] = "ok"

WorkflowInv ==
    /\ IndInv /\ deps = WorkflowDeps /\ WorkflowTypeOK
    /\ Accepted /\ CheckedIsBest /\ ChosenAsChecked
=============================================================================
