-------------------------- MODULE DagOrchestrator --------------------------
(***************************************************************************)
(* DAGOrchestrator: the constructor searches the workflow for a cycle,     *)
(* depth first; execute then runs, batch after batch, every step whose     *)
(* dependencies have completed.                                            *)
(*                                                                         *)
(* The workflow is any assignment of dependencies to steps.  The order of  *)
(* the dict and of each depends_on is left open.                           *)
(***************************************************************************)
EXTENDS Integers, Sequences, FiniteSets

CONSTANTS Steps,        \* the names of the workflow's steps
          Missing       \* a name in a depends_on that no step has

ASSUME MissingAssumption == Missing \notin Steps

Names == Steps \cup {Missing}

VARIABLES
    deps,       \* each step's depends_on
    phase,      \* where the constructor, then execute, is
    visited, path,  \* _validate_no_cycles
    stack,      \* the calls of visit that have not returned
    todo,       \* the names each of them still has to visit
    rank,       \* history: in which order the calls of visit returned, 0 before
    returned,   \* history: how many did
    pending, completed, running,    \* execute
    outcome     \* history: how each step ended

searching == <<visited, path, stack, todo, rank, returned>>
executing == <<pending, completed, running, outcome>>
vars      == <<deps, phase, searching, executing>>

Phases == {"validate", "cycle", "unknown", "execute", "gather", "stuck", "failed", "done"}

\* A step that was cancelled has raised a CancelledError, which is no Exception.
Outcomes == {"none", "ok", "error", "cancelled"}

TypeOK ==
    /\ deps \in [Steps -> SUBSET Names]
    /\ phase \in Phases
    /\ visited \subseteq Steps
    /\ path \subseteq Steps
    /\ stack \in Seq(Steps)
    /\ todo \in [Steps -> SUBSET Names]
    /\ rank \in [Steps -> Nat]
    /\ returned \in Nat
    /\ pending \subseteq Steps
    /\ completed \subseteq Steps
    /\ running \subseteq Steps
    /\ outcome \in [Steps -> Outcomes]

Init ==
    /\ deps \in [Steps -> SUBSET Names]
    /\ phase = "validate"
    /\ visited = {} /\ path = {} /\ stack = <<>>
    /\ todo = [n \in Steps |-> {}]
    /\ rank = [n \in Steps |-> 0] /\ returned = 0
    /\ pending = Steps /\ completed = {} /\ running = {}
    /\ outcome = [n \in Steps |-> "none"]

-----------------------------------------------------------------------------
(* The search for a cycle *)

Top == stack[Len(stack)]

\* visit(name) goes past its two tests.
Enter(name) ==
    /\ visited' = visited \cup {name}
    /\ path' = path \cup {name}
    /\ stack' = Append(stack, name)
    /\ todo' = [todo EXCEPT ![name] = deps[name]]
    /\ UNCHANGED <<deps, phase, rank, returned, executing>>

\* It returns at once: the loop of its caller goes on.
Skip(name) ==
    /\ todo' = [todo EXCEPT ![Top] = @ \ {name}]
    /\ UNCHANGED <<deps, phase, visited, path, stack, rank, returned, executing>>

\* It raises, and with it the constructor.
Reject(why) ==
    /\ phase' = why
    /\ UNCHANGED <<deps, searching, executing>>

\* The loop over all steps.
VisitRoot(name) ==
    /\ phase = "validate" /\ stack = <<>>
    /\ name \notin visited
    /\ Enter(name)

\* Mutant of Visit: visited is tested before path.
VisitSwapped(name) ==
    \/ name \in visited /\ Skip(name)
    \/ name \in path \ visited /\ Reject("cycle")
    \/ name \notin Steps /\ Reject("unknown")
    \/ name \in Steps \ (path \cup visited) /\ Enter(name)

\* An unknown name is a KeyError.
Visit(name) ==
    \/ name \in path /\ Reject("cycle")
    \/ name \in visited \ path /\ Skip(name)
    \/ name \notin Steps /\ Reject("unknown")
    \/ name \in Steps \ (path \cup visited) /\ Enter(name)

\* The loop over the dependencies of the step being visited.
VisitDependency(name) ==
    /\ phase = "validate" /\ stack # <<>>
    /\ name \in todo[Top]
    /\ Visit(name)

\* visit returns, and its caller has visited one name more.
Return(newPath) ==
    LET calls == SubSeq(stack, 1, Len(stack) - 1) IN
    /\ phase = "validate" /\ stack # <<>> /\ todo[Top] = {}
    /\ path' = newPath
    /\ stack' = calls
    /\ todo' = IF calls = <<>> THEN todo
               ELSE [todo EXCEPT ![calls[Len(calls)]] = @ \ {Top}]
    /\ returned' = returned + 1
    /\ rank' = [rank EXCEPT ![Top] = returned + 1]
    /\ UNCHANGED <<deps, phase, visited, executing>>

\* Mutant of Leave: name stays in path.
LeaveInPath == Return(path)

Leave == Return(path \ {Top})

\* The constructor returns.
Accept ==
    /\ phase = "validate" /\ stack = <<>> /\ visited = Steps
    /\ phase' = "execute"
    /\ UNCHANGED <<deps, searching, executing>>

-----------------------------------------------------------------------------
(* execute *)

Ready == {n \in pending : deps[n] \subseteq completed}

\* gather starts every ready step; without one execute raises.
StartBatch ==
    /\ phase = "execute" /\ pending # {}
    /\ \/ Ready = {} /\ phase' = "stuck" /\ UNCHANGED running
       \/ Ready # {} /\ phase' = "gather" /\ running' = Ready
    /\ UNCHANGED <<deps, searching, pending, completed, outcome>>

\* A step of the batch ends; the others go on, whatever its outcome.
StepEnds(n) ==
    /\ n \in running
    /\ running' = running \ {n}
    /\ \E how \in Outcomes \ {"none"} : outcome' = [outcome EXCEPT ![n] = how]
    /\ UNCHANGED <<deps, phase, searching, pending, completed>>

\* The steps of the batch whose results gather returned.
Batch == {n \in pending : outcome[n] # "none"}

\* Mutant of CollectBatch: the steps of the batch stay in pending.
CollectBatchPending ==
    /\ phase = "gather" /\ running = {}
    /\ \/ /\ \E n \in Batch : outcome[n] = "error"
          /\ phase' = "failed"
          /\ UNCHANGED <<pending, completed>>
       \/ /\ \A n \in Batch : outcome[n] # "error"
          /\ phase' = "execute"
          /\ completed' = completed \cup Batch
          /\ UNCHANGED pending
    /\ UNCHANGED <<deps, searching, running, outcome>>

\* Mutant of CollectBatch: an exception among the results is taken for a result.
CollectBatchAll ==
    /\ phase = "gather" /\ running = {}
    /\ phase' = "execute"
    /\ completed' = completed \cup Batch /\ pending' = pending \ Batch
    /\ UNCHANGED <<deps, searching, running, outcome>>

\* The loop over the results: an Exception among them makes execute raise.
CollectBatch ==
    /\ phase = "gather" /\ running = {}
    /\ \/ /\ \E n \in Batch : outcome[n] = "error"
          /\ phase' = "failed"
          /\ UNCHANGED <<pending, completed>>
       \/ /\ \A n \in Batch : outcome[n] # "error"
          /\ phase' = "execute"
          /\ completed' = completed \cup Batch
          /\ pending' = pending \ Batch
    /\ UNCHANGED <<deps, searching, running, outcome>>

Finish ==
    /\ phase = "execute" /\ pending = {}
    /\ phase' = "done"
    /\ UNCHANGED <<deps, searching, executing>>

Next ==
    \/ \E name \in Steps : VisitRoot(name)
    \/ \E name \in Names : VisitDependency(name)
    \/ Leave \/ Accept
    \/ StartBatch \/ CollectBatch \/ Finish
    \/ \E n \in Steps : StepEnds(n)

Spec == Init /\ [][Next]_vars

\* The code between two awaits runs to its end, and each step's coroutine ends.
FairSpec == Spec /\ WF_vars(Next)

-----------------------------------------------------------------------------
(* Properties *)

Started == running \cup {n \in Steps : outcome[n] # "none"}

\* A step starts only when all it depends on has ended, none of it with an error.
DependenciesFirst ==
    \A n \in Started : \A d \in deps[n] : d \in Steps /\ outcome[d] \in {"ok", "cancelled"}

\* No step runs twice, and none starts once one has failed.
StartsOnce ==
    [][running' \ running # {} =>
         \A n \in Steps :
           outcome[n] # "none" => n \notin running' /\ outcome[n] # "error"]_vars

\* The workflows the constructor accepts never make execute raise "Circular
\* dependency detected": what the search leaves over can be run.
AcceptedIsRunnable == phase # "stuck"

\* Only a workflow with a cycle is rejected for one: some steps all depend on one
\* of themselves.
RejectedIsCyclic ==
    phase = "cycle" => \E S \in (SUBSET Steps) \ {{}} : \A n \in S : deps[n] \cap S # {}

\* What the caller sees of the search and of the batches.
Verdict ==
    IF phase \in {"cycle", "unknown"} THEN "rejected"
    ELSE IF phase \in {"validate", "execute", "gather"} THEN "open"
    ELSE phase

Ordered == INSTANCE OrderedWorkflow WITH result <- outcome, verdict <- Verdict

\* Searching depth first and running in batches, the orchestrator keeps what
\* OrderedWorkflow promises.
ImplementsOrdered == Ordered!Spec

\* What is left to do: of the search, the steps to visit, those to return from and the
\* names to look at in the one being visited; of the execution, the pending steps and,
\* once a batch has started, those of it that run.
Finished == {n \in Steps : rank[n] > 0}
LeftToDo ==
    CASE phase = "validate" -> <<2, Cardinality(Steps \ visited), Cardinality(Steps \ Finished),
                                 IF stack = <<>> THEN 0 ELSE Cardinality(todo[Top])>>
      [] phase = "execute"  -> <<1, Cardinality(pending), 1, 0>>
      [] phase = "gather"   -> <<1, Cardinality(pending), 0, Cardinality(running)>>
      [] OTHER              -> <<0, 0, 0, 0>>

\* Fewer of the first that differ.
LessToDo(a, b) == \E i \in 1 .. 4 : a[i] < b[i] /\ \A j \in 1 .. i - 1 : a[j] = b[j]

\* Neither the search nor the execution ever does a thing for the second time: each step
\* leaves less to do, so a workflow of finitely many steps comes to its end unless one
\* of its coroutines does not.
NeverRepeats == [][LessToDo(LeftToDo', LeftToDo)]_vars

\* A workflow whose steps end is rejected, fails or is done.
WorkflowEnds == <>(phase \in {"cycle", "unknown", "failed", "done"})

-----------------------------------------------------------------------------
(* The inductive invariant behind the theorems of OrchestrationProofs *)

\* The calls of visit that have not returned, each its own step, are the path.
PathIsStack ==
    /\ \A i \in 1 .. Len(stack) : stack[i] \in path
    /\ \A n \in path : \E i \in 1 .. Len(stack) : stack[i] = n
    /\ \A i, j \in 1 .. Len(stack) : stack[i] = stack[j] => i = j
    /\ path = visited \ Finished
    /\ Finished \subseteq visited

\* Steps return after those they depend on.
RankOrders ==
    /\ \A n \in Steps : rank[n] <= returned
    /\ \A n \in path : \A d \in deps[n] \ todo[n] : d \in Finished
    /\ \A n \in Finished : \A d \in deps[n] : d \in Finished /\ rank[d] < rank[n]

\* Each call on the stack was made for a dependency of the step below it, and what
\* a call has still to visit are dependencies of its step.
PathLinked ==
    /\ \A i, j \in 1 .. Len(stack) : j = i + 1 => stack[j] \in deps[stack[i]]
    /\ \A n \in path : todo[n] \subseteq deps[n]

\* Past the search, every step has returned.
SearchEnds == phase \notin {"validate", "cycle", "unknown"} => Finished = Steps

BatchesInOrder ==
    /\ phase \in {"validate", "cycle", "unknown"} => completed = {} /\ pending = Steps
    /\ phase # "gather" => running = {}
    /\ phase \notin {"gather", "failed"} => \A n \in pending : outcome[n] = "none"
    /\ completed = Steps \ pending
    /\ \A n \in completed : outcome[n] \in {"ok", "cancelled"}
    /\ \A n \in running : n \in pending /\ outcome[n] = "none"
    /\ \A n \in pending : n \in Started => deps[n] \subseteq completed
    /\ phase = "gather" => \E n \in pending : n \in Started

IndInv == TypeOK /\ PathIsStack /\ RankOrders /\ PathLinked /\ SearchEnds
          /\ BatchesInOrder /\ DependenciesFirst /\ AcceptedIsRunnable /\ RejectedIsCyclic
=============================================================================
