-------------------------- MODULE MCOrchestration ---------------------------
(***************************************************************************)
(* A small instance of what takes turns: the orchestration package, the    *)
(* rate limiter and the dispatches to the SIEM services.                   *)
(* They share no state, so a behaviour exercises one of them; `serving`    *)
(* says which.                                                             *)
(***************************************************************************)
EXTENDS CleWorkflow, ChainPlanner, RateLimiter, SiemDispatch

CONSTANTS t1, t2, t3

VARIABLE serving

allVars == <<serving, vars, workflowVars, plannerVars, limiterVars, siemVars>>

MCLearnable == {[from |-> {t1}, to |-> t2, score |-> 1], [from |-> {t1, t3}, to |-> t3, score |-> 2],
                [from |-> {t3}, to |-> t2, score |-> 3], [from |-> {t2, t1}, to |-> t3, score |-> 0]}

\* As by default: filesystem.write needs filesystem.read.
MCDependencies == [t \in ChainTools |-> IF t = t2 THEN {t1} ELSE {}]

\* A tool used with one, with two, with none.
MCRelated == [t \in ChainTools |-> IF t = t1 THEN <<t2>> ELSE IF t = t2 THEN <<t1, t3>> ELSE <<>>]

\* Every workflow of three steps, which a fourth depends on.
MCWorkflows ==
    LET others == Steps \ {"execute_tool"} IN
    {[n \in Steps |-> IF n = "execute_tool" THEN others ELSE ds[n]] :
       ds \in [others -> SUBSET (Names \ {"execute_tool"})]}

MCInit ==
    /\ serving \in {"dag", "workflow", "planner", "limiter", "siem"}
    /\ deps \in IF serving = "dag" THEN MCWorkflows ELSE {WorkflowDeps}
    /\ threshold \in IF serving = "workflow" THEN Thresholds ELSE {0}
    /\ Init /\ WorkflowLocals /\ PlannerInit /\ LimiterInit /\ SiemInit

MCNext ==
    /\ UNCHANGED serving
    /\ \/ serving = "dag"      /\ Next           /\ UNCHANGED <<workflowVars, plannerVars, limiterVars, siemVars>>
       \/ serving = "workflow" /\ WorkflowNext   /\ UNCHANGED <<plannerVars, limiterVars, siemVars>>
       \/ serving = "planner"  /\ PlannerNext    /\ UNCHANGED <<vars, workflowVars, limiterVars, siemVars>>
       \/ serving = "limiter"  /\ LimiterNext    /\ UNCHANGED <<vars, workflowVars, plannerVars, siemVars>>
       \/ serving = "siem"     /\ SiemNext       /\ UNCHANGED <<vars, workflowVars, plannerVars, limiterVars>>

MCFairness ==
    /\ WF_vars(serving = "dag" /\ Next)
    /\ WF_<<vars, workflowVars>>(serving = "workflow" /\ WorkflowStep)
    /\ WF_limiterVars(serving = "limiter" /\ Tick)
    /\ \A k \in Keys : WF_limiterVars(serving = "limiter" /\ \E c \in Clients : Ask(c, k))
    /\ WF_siemVars(serving = "siem" /\ Elapses)
    /\ \A d \in Dispatches :
         /\ WF_siemVars(serving = "siem" /\ BeginDispatch(d))
         /\ WF_siemVars(serving = "siem" /\ Send(d))
         /\ WF_siemVars(serving = "siem" /\ (Succeeds(d) \/ TimesOut(d)))

MCSpec == MCInit /\ [][MCNext]_allVars /\ MCFairness

-----------------------------------------------------------------------------
\* A workflow whose steps end is rejected, fails or is done, the CLE's own is never
\* rejected.
WorkflowsEnd ==
    /\ serving = "dag" => WorkflowEnds
    /\ serving = "workflow" => <>(phase \in {"failed", "done"})

\* A session whose clients never stop asking is served again and again.
SessionsServed == serving = "limiter" => SessionServed
=============================================================================
