--------------------------- MODULE OrderedWorkflow ---------------------------
(***************************************************************************)
(* What an orchestrator of workflows promises, however it searches and     *)
(* schedules: a workflow is rejected only if nothing could run all of it,  *)
(* a step starts only on the results of all it depends on, no step starts  *)
(* twice or after a failure, and a workflow that is done has all results.  *)
(***************************************************************************)
CONSTANTS Steps,    \* the steps of the workflow
          Names     \* what a step may be said to depend on

VARIABLES
    deps,       \* the names each step depends on
    running,    \* the steps that have started and not ended
    result,     \* how each step ended
    verdict     \* on the workflow

workflow == <<deps, running, result, verdict>>

HasResult(n) == n \in Steps /\ result[n] \notin {"none", "error"}

Startable == {n \in Steps \ running : result[n] = "none" /\ \A d \in deps[n] : HasResult(d)}

\* No order of the steps has each after all it depends on.
Unorderable ==
    \/ \E n \in Steps : ~ deps[n] \subseteq Steps
    \/ \E S \in (SUBSET Steps) \ {{}} : \A n \in S : deps[n] \cap S # {}

Init ==
    /\ deps \in [Steps -> SUBSET Names]
    /\ running = {}
    /\ result = [n \in Steps |-> "none"]
    /\ verdict = "open"

Start ==
    /\ verdict = "open"
    /\ \A n \in Steps : result[n] # "error"
    /\ \E S \in SUBSET Startable : running' = running \cup S
    /\ UNCHANGED <<deps, result, verdict>>

End(n) ==
    /\ verdict = "open" /\ n \in running
    /\ running' = running \ {n}
    /\ \E how \in {"ok", "error", "cancelled"} : result' = [result EXCEPT ![n] = how]
    /\ UNCHANGED <<deps, verdict>>

Judge(as) ==
    /\ verdict = "open" /\ running = {}
    /\ verdict' = as
    /\ UNCHANGED <<deps, running, result>>

Reject == Unorderable /\ (\A n \in Steps : result[n] = "none") /\ Judge("rejected")
Fail   == (\E n \in Steps : result[n] = "error") /\ Judge("failed")
Finish == (\A n \in Steps : HasResult(n)) /\ Judge("done")

Next == Start \/ (\E n \in Steps : End(n)) \/ Reject \/ Fail \/ Finish

Spec == Init /\ [][Next]_workflow
=============================================================================
