# SynapticBridge in TLA+

SynapticBridge stands between AI agents and their tools. A client opens a session, asks for a
tool to be run, and the execution fabric checks the session and the policies, lets the Correction
Learning Engine (CLE) suggest or substitute a tool that humans corrected to before, runs the tool
and writes an audit trail. This directory holds TLA+ modules for the parts of it that carry logic
of their own, TLC configurations for small instances of them, and TLAPS proofs for instances of
any size. Paths below are relative to `src/synaptic_bridge/` unless they name a module.

1. [Inventory](#1-inventory)
2. [Modules and the code they model](#2-modules-and-the-code-they-model)
3. [Runs](#3-runs)
4. [Fairness](#4-fairness)
5. [Proofs](#5-proofs)
6. [Where code and documentation disagree](#6-where-code-and-documentation-disagree)
7. [Not modelled](#7-not-modelled)
8. [Plan](#8-plan)
9. [Running it](#9-running-it)

## 1. Inventory

Everything runs on one asyncio event loop: between two awaits a handler is alone, at an await any
other handler may run. The ports of the domain (`domain/ports/__init__.py`) are all `async`, the
adapters wired by default never suspend.

| Component | Keeps | Operations | Talks to | What is hard | What makes it correct |
|---|---|---|---|---|---|
| Execution fabric, `application/commands` with `infrastructure/adapters/__init__.py` | sessions, registered tools, policies, patterns, audit events | execute a tool; create and look up sessions; register tools; add and remove policies; capture corrections | all ports, awaited in turn | other handlers and time move on at each await; every port may raise, and inside the CLE block that is swallowed; the CLE changes the tool after the policy checks | no standing policy is bypassed, an expired session runs nothing, the trail agrees with what ran, the CLE neither blocks a request nor substitutes what it did not learn |
| WORM audit log, `adapters/worm_audit.py` | one file per event, `.sequence`, `.last_hash`; in memory the next number, the last hash and the events | open, append, query, verify | the file system | three files per append, a crash or error between any two operations, truncated files, a restart | what append returned stays, read-only and linked to what came before |
| Circuit breaker, `services/circuit_breaker.py` | state, counts, time of the last failure | record an outcome, half-open, force, reset | its callers | outcomes of sends begun in an earlier state arrive late; counts survive states | trips on runs of failures, lasts its timeout, closes on runs of successes |
| SIEM dispatcher, `adapters/siem_connectors.py` | a breaker per connector | dispatch an event to every connector, each send with a timeout | vendors' services | concurrent dispatches share breakers; a service fails, hangs or comes back | a sick connector costs the others nothing, dispatches end, breakers recover |
| DAG orchestrator, `application/orchestration` | pending and completed steps | search for a cycle, run batches of ready steps | the steps' coroutines | steps end in any order and with any outcome; the search must find every cycle and nothing else | dependencies first, no step twice, an accepted workflow never sticks |
| Rate limiter, `services/rate_limiter.py` with `POST /execute` | timestamps per session | ask, reset | the API handler | the edge of the window, truncated Retry-After | the limit holds in each window, refusals cost nothing, Retry-After is right |
| Correction store, `adapters/duckdb_store.py` | corrections, patterns with counts and embeddings | capture, find | DuckDB; its callers try again | two statements per capture, with a crash or error in between; a LIMIT before the similarity is known | patterns count what was answered; a similar pattern is missed only when crowded out |
| CLE workflow, `application/orchestration` | results of four steps | classify, look up patterns, validate, execute, as a DAG | orchestrator, correction store | the store changes between the steps; a cancelled step leaves an exception where the next looks its result up | only the best pattern there was, above the threshold, replaces the tool |
| Chain planners, `application/orchestration`, `adapters/intent_classifier.py` | dependencies of tools | plan the chains of the tools on offer; follow a tool to those it is used with | none | the first tool of a chain is not checked; orders of the same tools count as one | a tool comes after what it needs, no chain stops early |
| Policy engine, `adapters/opa_engine.py` | policies | add, replace, remove, list, evaluate Rego | dispatcher | it reads Rego as text, and tries builtins in its own order | it permits what the policy permits |
| Call graph, `services/call_graph.py` | a graph per session | start, add, complete, fail, end, show | none | late reports, parents of an earlier start, a session started again | every session is shown once, graphs are trees of their own nodes |
| Pattern marketplace, `services/pattern_marketplace.py` | listings, purchases, reviews, exports | list, buy, review, export, import | none | counts kept beside the sets they count; who may export depends on others' purchases | counts agree; what costs something leaves its owner only by its owner |
| Metrics, `services/metrics.py` | counters, gauges, histograms | get, count, observe, collect, reset | all services | importers keep metrics across a reset; buckets are added up in `observe` and again in `collect` | what is kept is what was counted since, and what is shown is what is kept |
| Drift detector, `adapters/drift_detector.py` | a bounded window and a baseline per tool | check, update the baseline, find anomalies | none | a sample counts in the mean it is compared with; edges of the window | nothing is reported that so few samples cannot show |
| SPIFFE identities, `adapters/spiffe_controller.py` | one cached identity | get, and use it | SPIRE agent | several callers find it expired at once; answers overtake each other | nobody is given an identity about to expire |
| MCP servers, API, portal, partner API, CLI | wiring | decode a request, call a command, encode the answer | commands | ports missing from the container | the right command with the right ports |

`PROJECT.json` lists every component with its status, and, under `hazards`, each place where this
code can go wrong in a way a test would hardly reach, with the properties that cover it.

## 2. Modules and the code they model

| Module | Models | Composed of | Checked by | Proved in |
|---|---|---|---|---|
| `GovernedCalls` | what a fabric promises | | as a property of `ToolDispatch` | |
| `ToolDispatch` | the execution fabric | implements `GovernedCalls` | `MCToolDispatch` | `ToolDispatchProofs` |
| `AppendOnlyLog` | what a log promises | | as a property of `WormAuditLog` | |
| `WormAuditLog` | the WORM log on disk | implements `AppendOnlyLog` | `MCWormAuditLog` | `WormAuditLogProofs` |
| `CircuitBreaker` | one breaker as a value | | through `SiemDispatch` | |
| `SiemDispatch` | dispatches sharing breakers | extends `CircuitBreaker` | `MCOrchestration`, `MCServices` | `SiemDispatchProofs` |
| `OrderedWorkflow` | what an orchestrator promises | | as a property of `DagOrchestrator` | |
| `DagOrchestrator` | cycle search and batches | implements `OrderedWorkflow` | `MCOrchestration` | `OrchestrationProofs` |
| `CleWorkflow` | the CLE's own workflow | extends and implements `DagOrchestrator` | `MCOrchestration` | `OrchestrationProofs` |
| `ChainPlanner` | both planners of chains | | `MCOrchestration` | `OrchestrationProofs` |
| `RateLimiter` | the sliding window and its clients | | `MCOrchestration` | `SecurityProofs` |
| `CorrectionStore` | the DuckDB store and its writers | | `MCServices`, `MCCorrectionStore` | `CorrectionStoreProofs` |
| `PolicyEngine` | reading and evaluating Rego | | `MCServices` | `SecurityProofs` |
| `CallGraph` | the graphs the dashboard shows | | `MCServices` | `ObservabilityProofs` |
| `PatternMarketplace` | listings and who has them | | `MCServices` | `PatternMarketplaceProofs` |
| `MetricsRegistry` | metrics of one name, and their holders | | `MCServices` | `ObservabilityProofs` |
| `WorkloadIdentity` | the identity cache and its callers | | `MCServices` | `SecurityProofs` |
| `DriftDetector` | the window, the baselines and both detectors | | `MCServices` | `ObservabilityProofs` |

`MCOrchestration` and `MCServices` hold several components that share no state. An initial choice,
`serving`, says which of them a behaviour exercises, so the state spaces add up instead of multiplying,
and every component has the same interleavings as in an instance of its own. `SiemDispatch` is in both: with
one connector, where time and liveness matter, and with two, where one may cost the other.

**ToolDispatch.** A request is a record with the handler's location (`pc`) and locals. One action is
one awaited port call with the synchronous code after it: `LookupSession`, `LookupTool`,
`ListPolicies`, `EvaluatePolicy` (once per listed policy of scope tool or session, in any order),
`AuditViolation`, `GetEmbedding`, `FindPatterns`, `ResolveSuggestion` (active mode), `AuditInterception`,
`ExecuteTool`, `AuditCall`. `PortRaises` is the exception at any of them: within `InCle` it sends the
request on to the execution, as `except Exception` does, elsewhere it ends it. The other commands
(`CreateSession`, `RegisterTool`, `AddPolicy`, `RemovePolicy`, `CaptureCorrection`) and time (`Tick`,
`PatternDecays`) run between any two. `unwritten` remembers whose interception event could not be written. Policies, tools and intents are model values; a policy is
the set of tools it denies, similarity is a table, and decay takes whole units off it. The policies
are evaluated one await apart although today's engine never suspends: the port is `async`, and the
behaviours of a handler that runs through are among those of the module.

`GovernedCalls` is the dispatcher without its awaits: a call is judged by all policies in one step, a session ends at its
deadline, the CLE is two permissions (to explain, and to run what was taught). It sees sessions through `SessionSeen`, which is over
at the deadline though the entity's status follows only at the next lookup, and requests through `CallSeen`, which
takes the verdict off the queue as soon as the policies are listed. Policies of other scopes than tool and session
are not among its `Relevant` ones, as the loop skips them.

**WormAuditLog.** `append` operation by operation: `StartAppend` takes the number and puts the event in
memory, then the event file is opened, written and made read-only, and `.sequence` and
`.last_hash` are each truncated and written; `Return` is the last `chmod` and the answer. `Crash` may come between any two, `OperationFails` at
any, `Open` reads back what is there. A truncated file holds `Torn`: as `.sequence` it keeps the log
from opening, as `.last_hash` it becomes the next previous hash. A hash stands for its event. The
sealed files of acknowledged events are the log that `AppendOnlyLog` sees.

**CircuitBreaker, SiemDispatch.** A breaker is a record and each of its methods a function on it;
`_last_failure_time` is kept as an age that stops at the timeout. A dispatch turns to each connector
in order: `Send` is the code up to `wait_for`, and `Succeeds`, `Fails` and `TimesOut` are its three
ends. Services go down and up by themselves, an operator forces breakers.

**DagOrchestrator.** `_validate_no_cycles` is recursive: its calls are a stack, and each
`visit` and each return is a step. `StartBatch` starts every ready step (`gather`), `StepEnds` ends
one with any outcome (ok, error, cancelled: a `CancelledError` is no `Exception`, so it counts as a
result), `CollectBatch` reads the results. The workflow is an initial choice: every assignment of
dependencies, names that are no step included. `OrderedWorkflow` knows neither the search nor batches, only which steps
have started and what came out; `ImplementsOrdered` maps the orchestrator's phases to its verdict.

**CleWorkflow.** Its four steps are steps of the orchestrator: each action is `StepEnds` of one with what the
coroutine computes, and `Orchestrate` is the orchestrator around them. `StoreChanges` may put any patterns in
the place of the known ones between any two. A step that reads the result of a cancelled one raises, since
what it finds there is the `CancelledError`. Scores are whole numbers.

**ChainPlanner.** `plan` and `_plan_with_tool` are recursive functions over sequences; a call of either planner
is one step, since nothing in it suspends. `AddDependency` comes between calls. The matcher's similarity is
any table of whole numbers, of which `match_tool` takes the first maximum. Sorted tools are equal when each tool is used as
often (`SameTools`); `HopsFrom` keeps the last hop that found a chain.

**RateLimiter.** `is_allowed` holds a lock and never awaits under it: one step, `Ask`. The list of
timestamps of a key is a function from `Stamps`, which tells its entries apart, to their ages: the code filters the list,
appends to it and takes its minimum, none of which depends on the order. Ages are in units of which `Second`
make a second, since `Retry-After` is truncated to whole seconds.

**CorrectionStore.** `save_correction` is two statements, each committed: `InsertCorrection` and
`UpdatePattern`; the update may raise (`UpdateFails`), and the process die (`Crash`) in between or between the
second and the answer (`Answer`); no other coroutine can run meanwhile (`running`). `Begin` and `GetEmbedding` are `CaptureCorrectionCommand`. The
pattern rows are keyed by their pair of tools, which is what the SELECT matches on.

**PolicyEngine.** A condition is what stands between two `;`, a sequence of lines; a line is a record of what the
engine's reading of its text depends on: whether it is negated, and whether it is a path, an infix comparison, a call, a call in a
call, or some other text. `EvaluateCall` takes the first builtin, in the engine's order, whose name followed by "(" occurs in any of the lines,
`OccursIn` says that `eq(` occurs in `neq(`, and a call in a call is cut off at the first `)`. Values are of the types JSON has.
What a policy *says* is defined apart from that, after Rego's own rules (`Meaning`, `CallSays`, `LineSays`,
`Says`): every line counts, an absent value makes a line fail and its negation hold, types are told apart, and other text holds where
it is said to hold (`false` nowhere). `IsPlain` are the policies for which both have to agree. Policies are replaced
and removed between a listing and an evaluation, as the dispatcher's awaits allow; `Evaluate` therefore takes any policy. Not
told apart are calls without arguments and string literals that contain a comma, a parenthesis or a builtin's name.

**CallGraph.** Every method is an action; `made` remembers for each node which session, in which start of it,
added it. Each node id is drawn once. Nothing checks a parent, so a caller may pass any id drawn so far, of another session
or of an earlier start too (`Parents`); an id yet to be drawn cannot be guessed.

**PatternMarketplace.** The methods that change something; "of" traces an imported listing to the one whose pattern it
carries. Whoever has export data may import it, so `exports` only grows. A rating is the sum and the number of
the reviews it is the mean of.

**MetricsRegistry.** One counter, one gauge and one histogram with labels. A holder gets its metrics
(`Get`) and goes on using them after `ResetRegistry`, which is how the module-level metrics are used. The first to ask after
a reset decides on the histogram's buckets, with none if it names none (`bounds`). `Increase`
takes any number, as `inc` does; `CollectedCounter` shows only what is above 0.
`CollectedBucket` is what `collect` prints for a bucket; sums are the community modules' `SumFunctionOnSet`.

**WorkloadIdentity.** Time is the life an identity has left. In this repository the fetch stands in for the SPIRE
agent and returns at once; the await is modelled as the agent's answer, which may be slow, overtake another or never
come, and the behaviours of the stand-in are among these.

**DriftDetector.** Scores are compared without division or roots: a window is its number, sum and sum of
squares. `Report` and `Anomalies` are what the read-only methods return.

Definitions that end a word such as `FailOpen`, `Quietly` or `Untimed`, each with a comment "Mutant
of", are variants with a plausible bug. `PROJECT.json` names for each property the one that breaks it.

## 3. Runs

| Run | Configuration | Distinct states | Shows |
|---|---|---|---|
| `dispatch_shadow` | 2 requests, 1 session, 2 tools, 1 policy, all ports fallible, shadow mode | 1.7 M | `NoStandingPolicyBypassed`, `NoExecutionAfterExpiry`, `AuditMatchesExecution`, refinement of `GovernedCalls`, `TypeOK` |
| `dispatch_active` | 1 request, 2 tools, 2 intents, active mode, all ports fallible but execution | 470 k | `InterceptionHonest`, `SuggestionLearned`, `CorrectionExplained`, `SessionsOnlyEnd`, `CleNeverBlocks`, refinement of `GovernedCalls` |
| `worm` | 2 events, numbers up to 3, 2 crashes, any failing operation | 3.4 M | `AckedIsStored`, `ChainUnbroken`, `ServedIsStoredOrRefused`, refinement of `AppendOnlyLog` |
| `orchestration` | every workflow of 3 steps and a fourth that needs them; the CLE's workflow with 4 learnable patterns and 4 thresholds; offers of up to 3 of 3 tools; 1 session, 2 clients, limit 2 (three stamps), window of 2.5 s; 3 dispatches to 1 connector, thresholds 2, timeout 2 | 350 k | `AcceptedIsRunnable`, `RejectedIsCyclic`, `NeverRepeats`, refinement of `OrderedWorkflow`, `WorkflowsEnd`, `CorrectsIffConfident`, `ChainsRunnable`, `WindowRespected`, `RetryAfterRight`, `SessionsServed`, `TripLasts`, `TripsOnFailures`, `ClosesOnSuccesses`, `DispatchEnds`, `Recovers` |
| `services` | per service: see the bounds below; 2 dispatches to 2 connectors | 2.0 M | `CountsAgree`, `MissedOnlyIfCrowdedOut`, `PlainAsWritten`, `CallGraphsAgree`, `MarketplaceAgrees`, `MetricsAgree`, `IdentityFresh`, `DriftAgrees`, `FailuresIsolated` |
| `dispatch_hard_block` | active mode, no failures | violation | section 6 |
| `worm_verify` | as `worm` | violation | section 6 |
| `siem_forced` | as `orchestration` | violation | section 6 |
| `correction_embedding` | 1 caller | violation | section 6 |
| `policy_rego` | as `services` | violation | section 6 |
| `planner_order` | as `orchestration` | violation | section 6 |
| `metrics_buckets` | as `services` | violation | section 6 |

The bounds, and why they are enough for the questions asked:

- *dispatch.* `MaxClock` and `TTL` put a request before, at and after the expiry. Two requests are what
  interleaving needs: they share only sessions, policies and patterns, and each is compared with
  its own history. One policy that denies one of two tools gives every order of adding, listing,
  evaluating and removing it. The CLE needs a second tool and a second intent, and for those one request
  suffices, because writers of patterns are actions of their own. `MaxEnded` bounds the events a
  session accumulates, `MaxAge` the decay.
- *worm.* Two crashes reach a restart from a disk that a restarted process left, and three numbers a gap
  and a reuse.
- *orchestration, siem.* Three dispatches give two late outcomes after the one that trips the breaker; thresholds of 2
  tell a count from a flag; a timeout of 2 tells a delayed reset from none. Operators intervene
  `MaxForced` = 1 time; a forced breaker is excluded where a property says so.
- *services, siem.* What one connector costs another needs two of them, and no longer timeout or runs of successes than 1; two dispatches
  are at different connectors at once.
- *orchestration.* Three steps make self-loops, cycles of two and three, chains and diamonds' halves, and the
  fourth is stuck behind whatever they are; the proofs cover the rest. The learnable patterns have a score of 0, scores below, at
  and above the thresholds, and tools other than the one asked for. Three tools, one of which needs another,
  and any dependencies added on the way make the order of an offer matter; a tool may be offered twice.
  The limiter's keys never share state, so one is enough; at most the limit is recorded, so one stamp more
  than that always leaves a free one. Its window is no multiple of a second, so
  truncation shows.
- *services, corrections.* Two pairs of tools with a LIMIT of 1 crowd one out, `MaxCorrections` = 2 gives unequal
  counts and ties, two callers a retry while another one captures; one embedding beside the zero vector tells a
  similar pattern from one that is not.
- *services, policies.* Rules with no condition, one or two, of one line or two, in policies of one or two rules, over contexts in
  which values compare below, at and above, are missing, or have another type; text that always and that never holds.
- *services, graphs.* Two sessions, three nodes and `MaxStarts` = 3: a session is started again with nodes in
  progress while the other has one, and an edge can lead from an earlier start or from the other session.
- *services, market.* Two organizations and three listings make an import of an import; ids are drawn at random in the
  code and are taken in order here (`ListedInOrder`), which only renames them.
- *services, metrics.* Two holders and one reset, three uses, a value in both buckets, in one, in none; histograms with
  buckets and without.
- *services, identity.* Two callers, a lifetime of 4 and a margin of 1.
- *services, drift.* A window of 3 with times 0, 1 and 5 gives scores on both sides of the threshold, and
  error rates 1 and 4 a fourfold rise; one tool, as they share nothing.

Deadlock is not checked where the system may stop: a workflow ends, a log whose `.sequence` is torn does
not open, the bounds on clocks and counts stop an instance. It is checked for the services.
Requests and logged events are interchangeable, and `dispatch_shadow` and `worm`, which check no liveness, use that as a symmetry.

## 4. Fairness

- `ToolDispatch!FairSpec`: each request's own step, a port's answer or its exception, is taken when it
  stays possible. The event loop resumes every ready coroutine. Nothing says that ports succeed, that other
  commands come or that time passes. `CleNeverBlocks` needs it.
- `SiemDispatch!SiemFairSpec`: timers run (`Elapses`), a ready dispatch goes on, there are always more
  events, and a waiting send ends by its answer or its timeout. `wait_for` is what makes the last one
  hold. That a service recovers is not assumed: `Recovers` has it as a premise.
- `DagOrchestrator!FairSpec`: the steps' coroutines end, with any outcome; `gather` itself has no timeout.
- `MCOrchestration!MCFairness` has these of the components it joins, each under its `serving`. For the
  workflows: the steps' coroutines end, with any outcome; the store need not change. For the limiter: time passes,
  and each session is asked for again and again. The second half is the premise of `SessionsServed` and no
  claim about the code. The planners never wait.

## 5. Proofs

All theorems hold for every value of the constants that satisfies the named assumptions, which TLC
evaluates in the runs. Every safety proof has the same shape: the property is strengthened to an inductive invariant
(`IndInv`, or `SiemInv`, `CleInv`, `WorkflowInv`, `GraphInv` and so on where one proof module has several), stated at the end of the
component's module or at the head of the proofs, and as a rule one lemma per action shows that the action keeps it.
The action properties follow from the invariant and from what one step does.

**ToolDispatchProofs.** `IndInv` is `TypeOK`, for each request `LocalsSet` (which locals are set at
which location), `ShadowKeepsTool`, `PoliciesChecked` (each standing policy is listed, still queued
or known not to deny the requested tool) and `SessionChecked`, and `AuditedSoFar`. None of the
properties is inductive: that no policy was bypassed at the execution follows only from what the loop has
established about each policy so far. Results: `TypeCorrect`, `RequestedToolPermitted` (both modes: the tool
*asked for* is permitted), `ShadowModeHardBlock` (in shadow mode therefore `NoStandingPolicyBypassed`),
`ExpiryRespected`, `AuditAgrees`, and `SessionsOnlyExpire` (`SessionsOnlyEnd`).

The CLE has an invariant of its own, `CleInv`, on top of `IndInv`: `PatternsLearned` (a pattern's vector, unless
it is zeros, is of an intent some human corrected that tool for; decay changes its score only), `CleDecided` (up to its audit event a decision is all in
the request's locals), `InterceptionsKept` (nothing touches the tool after the event) and `CorrectionAudited`. Results:
`InterceptionsHonest`, `SuggestionsLearned` and `CorrectionsExplained`, in both modes and whichever ports fail. The CLE block
swallows a failing audit write after the tool was replaced; the last theorem says that the failure of that very write, which
`unwritten` records, is the only way to a substituted call without its event, and that the call's own event then marks it.

`FabricImplements` is the refinement of `GovernedCalls`, in both modes and with any ports failing. `ToolsFound` is added for it: between the
registry lookup and the execution the requested tool is registered, since tools are only added. The step that judges a call is
`ListPolicies`: what the queue then holds is what is in force, and each `EvaluatePolicy` that finds nothing takes a policy off
that does not deny, so the abstract verdict stays. The lookup of an expired session
is a stutter or a failure, time passing its deadline is `EndSessions`. All of the CLE is stutters but for its audit event, which is an
`Explain` of something taught (`SuggestionLearned`); that the execution then runs what the trail says is
`InterceptionsKept`. What the abstract call does not promise is that a policy added after the listing, or a session ending after
its lookup, stops it: the code does not look again.

**WormAuditLogProofs.** `IndInv` adds `NumbersGrow` (the next number, from memory or from the disk as it is
now, is above every acknowledged one), `FilesSafe` (the file being written is not a sealed one),
`LinksReady` (every source of the next previous hash is a legal link, also where `.last_hash` is already that of an entry whose
append has not returned) and `ServedKnown` (memory holds what is stored,
what the caller knows to have failed and the entry under way). Results: `AckedDurable`, `ChainHolds`, `ServedIsKnown`,
and `Refinement`: initial states map to initial states and each step to an `Append` or a stutter of
`AppendOnlyLog`.

**SiemDispatchProofs.** `SiemInv` adds `ClockBehind` (the code's own clock of an open breaker is never ahead of
the time since it opened: late failures may prolong a trip, not shorten it), `CalmIsClosed` and `CountsEarned` (what a
closed breaker has counted as failures, and a half-open one as successes, is no more than the current run of such
outcomes). Results: `TripsLast`,
`Isolation`, `TripsOnlyOnFailures`, `ClosesOnlyOnSuccesses`.

**OrchestrationProofs.** For the orchestrator `IndInv` adds `PathIsStack`, `RankOrders` (a step's visit returns after those
of its dependencies, so ranks fall along each dependency), `PathLinked` (each call on the stack is for a dependency of
the one below), `SearchEnds` and `BatchesInOrder`. That an accepted workflow never sticks is then a descent: among
the pending steps the one of lowest rank is ready. That a rejected one has a cycle is the stack between the two visits
of one step, `RejectedIsCyclic`. Results: `OrderRespected`, `ValidatedRuns`, `RejectionJustified`, `NoRestart`.

`OrchestratorImplements` is the refinement of `OrderedWorkflow`. A batch is one `Start`, each `StepEnds` an `End`; `Reject`, `Fail` and
`Finish` have to be justified, the first by the set of steps between the two visits on the stack, in which each depends on another of
the set. `WorkRunsOut` is the part of the liveness property `WorkflowsEnd` that
is in the code's hands: for finitely many steps, each step of the search or of the execution lowers `LeftToDo` (the collection of a batch
leaves fewer pending, because by the last conjunct of `BatchesInOrder` no batch is empty), so nothing goes round for ever, and what remains is the fairness of section 4.

`WorkflowImplements` shows that each step of the CLE's workflow is a step of the orchestrator or leaves it alone, so
`IndInv` holds of it. `WorkflowInv` adds `Accepted`, `CheckedIsBest` and `ChosenAsChecked`: a step that ended well read the result
of one that did, which needs `DependenciesFirst`, because what a cancelled step leaves counts as a result. Results:
`WorkflowAccepted`, `CorrectsTheBest` and, from both refinements, `WorkflowKeepsOrder`.

For the planners the invariant is only `PlannerTypeOK` and `ChainsRunnable`; the work is in what the recursive functions return.
`PlanWithTool` is a function on pairs of lists, and a recursive function in TLA+ is a choice, so it has to be shown that there is one to
choose: it is put together from the shorter remainders on. Claims about it then follow by `ByMeasure`, an
induction over a set of exceptions: the exception with the shortest remainder would need a shorter one. That a chain is the offer
rearranged up to where nothing can follow is `Rearranges`, a bijection between positions that each hop extends
by one; chains that `Unique` drops have the same tools as one that stays, hence no tool is lost. `HopsFrom` is done
in the same way over the number of hops. Results: `PlannerTypeCorrect` and `ChainsHold`, for any dependencies, circular ones included.

**CorrectionStoreProofs.** `IndInv` adds `CapturesPlaced` (who is between the statements, and for which pair) and
`AnswerCounted` (what is updated and not yet answered is in its pattern's count).
Results: `CountsHold` and `MissesExplained`, which argues with cardinalities about any choice among ties.

**PatternMarketplaceProofs.** `IndInv` adds `OriginsListed` (what a listing carries is listed and not itself imported)
and `ExportsReleased` (a listing of its own that costs something was exported only after its owner did).
`PaidStaysHome` alone is not inductive: an import may be of an import. Result: `ListingsAgree`.

**SecurityProofs.** *Identities:* `IdentityInv` adds `LifeAccounted`: what an identity has left and the time since it was
issued make up its lifetime, or, from the cache, more than the margin. Result: `FreshWhenUsed`. *Policies:* `PolicyInv` says that a
verdict is the evaluation of a policy that could be written; the work is in the operators: the first deny rule that
no allow rule precedes, found by `SelectInSeq`, decides, and on a line that `Suits` the engine's order of builtins
finds the one that is meant and its Python comparison agrees with the meaning, builtin by builtin. Result: `PlainReadRight`.
What it leaves to the engine's own reading is disagreement, of which `policy_rego` shows a case. *Rate limiter:* `LimiterInv` is `WithinLimit`, `AdmittedRecorded` (what
was admitted within the window is what is recorded and still counts) and `RefusalStands` (while nothing disturbs a refusal,
nothing that counted then is gone before the time told, and the oldest is gone within a second of it: the
arithmetic of a truncated `Retry-After`). Results: `LimitHolds` and `RetryAfterHolds`.

**ObservabilityProofs.** *Call graphs:* `GraphInv` adds `StatusAgrees` (the active sessions are those whose status says so)
and `OriginsPlaced` (a node belongs to a known session and to its last start or one before). Without the latter a restart
could find nodes of its own in the graph it leaves. Parents are arbitrary, so an edge need not come from a node of its graph; that
there is no cycle follows from each new node being drawn after its parent. Result: `GraphsAgree`, in which no cycle of callers is shown
(no set of nodes in which each is called by another). *Metrics:* `MetricsInv` adds `FreshHold` (a holder has the metrics that
are collected exactly if it got them since the reset) and `UnmadeNew`. Result: `CountedIsKept`, of the counters as they are shown and of the histograms as they are kept; what
`collect` makes of the buckets is `BucketsShown`, which is false. *Drift:* `DriftInv` adds
`SamplesCounted` and `BaselinesFounded`. Result: `DriftHolds`, of which `AnomaliesAreRare` is no invariant to induct on but a fact about
any window.

Metrics and drift are about sums, which the community modules define by a recursive function on subsets. An induction
over the size of a set cannot be had from the library's theorems here, but its contrapositive can: among the finite
sets that violate a claim one has fewest elements (`FewestFound`), so it is enough that no violation becomes one by
taking out an element. That gives the lemmas on sums: `SumStep`, `SumOut` (any element can be
taken out, though the definition chooses one), `SumBumped`, and, for the drift detector, `SquareOfSum`
(Cauchy-Schwarz), `WithinDeviations` (Samuelson's inequality: no number is further from the mean than
(n - 1)/sqrt(n) deviations, hence no drift in a small window) and `FewPass` (Chebyshev's, for the anomalies).

What the assumptions on constants come to: thresholds, limits and windows are positive; values that stand for nothing are none
of the others; `StampsAssumption` says that there is always another timestamp when the limit is reached, which a clock gives;
`ConditionsAssumption` and `WrittenAssumption` that policies consist of what the engine can read; `SumsAssumption` that buckets,
values and label sets are finitely many. Bounds such as `MaxStarts` need be no more than natural numbers.

Only model-checked is liveness, which is out of the prover's reach:

- `CleNeverBlocks`, `DispatchEnds`, `Recovers`, `WorkflowsEnd`, `SessionsServed`.

Every other property of a passing run is a theorem. Conversely the runs leave out what a theorem says for every instance and
what a refinement they check contains: `DependenciesFirst` and `StartsOnce` are part of `OrderedWorkflow`, and the type invariants
of all modules are theorems (`TypeCorrect`, `PlannerTypeCorrect` and so on) or part of an invariant that is one; the runs check the
dispatcher's.

## 6. Where code and documentation disagree

- **A substituted tool is not checked against the policies** (`dispatch_hard_block`). The policy loop is over
  when active mode replaces the tool (`application/commands/__init__.py:169`), so a denied tool runs if
  it was learned. `domain/entities/policy.py:5` calls policies "hard blocks". The proofs show what does hold:
  the requested tool is permitted in both modes, and shadow mode, the default, is safe.
- **Verification after a restart checks nothing** (`worm_verify`). `verify_integrity` walks the events of its own
  process, "the entire audit log" says `worm_audit.py:195`.
- **A breaker forced open lets the next send through** (`siem_forced`). `force_open` does not start the
  timeout, so the next check makes the breaker half-open.
- **A correction without an embedding erases the one learned** (`correction_embedding`). The UPDATE writes zeros,
  and the Claude Code server passes no classifier; `README.md:236` of the repository speaks of "real
  intent embeddings (not zero vectors)".
- **Rego is not evaluated as Rego** (`policy_rego`). A condition that starts with `input.` is looked up whole as a path, which for
  an infix comparison is never there (`opa_engine.py:119`), so the rule never fires. The built-in policies, among others the one at
  line 222, are written that way, each condition on a line of its own, where line 106 splits at `;` only. Text without a builtin, `false` or
  `not input.x`, always holds. Line 60 says "Implements actual Rego policy evaluation". `PlainAsWritten` says what
  does hold.
- **A chain may run a tool before what it needs** (`planner_order`). `plan` does not check the first tool of a chain
  and keeps one order of the same tools (`application/orchestration/__init__.py:232` and `:241`): offered `filesystem.write` before
  `filesystem.read` it returns only the chain that writes first, where `add_dependency` (line 212) says
  "`depends_on` must run before `tool`". `ChainsRunnable` says what does hold, from the second tool on.
- **Histogram buckets are added up twice** (`metrics_buckets`). `observe` counts a value in every bucket it fits, which
  `collect` adds up once more (`metrics.py:157`), so that a bucket line passes the count of all; `metrics.py:5` and `README.md:135` of
  the repository speak of Prometheus format. The registry makes its own histograms without buckets, so it shows only where
  somebody asks for a histogram with buckets. `MetricsAgree` says what does hold: what is kept is right.

Other things seen while modelling, which contradict no document and are stated where they matter: a torn
`.sequence` keeps the log from opening; a `ToolCalled` event is missing when the audit write after the
execution raises, and an interception's when that write raises; a `SessionEndedEvent` is raised
by every lookup of an expired session and never audited; a client that waits exactly `Retry-After` may be
refused once more; a cancelled step counts as completed; the cache gives an identity for whatever
audience asked first.

## 7. Not modelled

- *Dispatcher:* cancellation of a whole handler; `SessionStatus.TERMINATED`, which no code reaches;
  contents of parameters and results; policies of a scope other than tool and session, which the loop
  skips.
- *WORM:* the GCS and S3 backends (they log a warning); two processes on one path; the recomputation of
  a hash in `_verify_event`; a file system that reorders writes across a power loss.
- *Breaker:* the decorator and the registry, which nothing uses; clocks stepping backwards. A
  vendor's `_do_send` that returns `False`, or skips a missing endpoint, counts as a success in the
  code and in the model.
- *Rate limiter:* the `X-RateLimit-*` headers; that keys are never evicted.
- *Correction store:* average improvements, statistics, undo. The driver returns `last_updated` without a time
  zone, which `correction.py:91` cannot subtract; the dispatcher would treat the exception as a
  CLE failure. The types a driver returns are outside `src/`, so this is a listed hazard and not a run.
- *Chain planners:* `detect_circular` and `validate_dependencies`, which only read. *Intent classifier:* embeddings
  (hash-based text processing in floating point), of which the dispatcher sees the function `Match`.
- *Policy engine:* parsing itself, that is, the regular expressions; a line's form stands for what they find. How
  Rego defines its builtins is stated only for those the engine has.
- *Marketplace:* searching; the signature of an export, which nobody checks. *Call graph:* parameters, results and usage per
  tool. *Metrics:* text layout, logging, tracing. *Identities:* keys, and `verify_peer_certificate`, which returns True.
- *MCP servers:* the bounded-context servers resolve ports and call the commands of `ToolDispatch`;
  `mcp_servers/claude_code.py` formats results for a client.
- *Admin portal and partner API:* handlers over demonstration data of their own; nothing reaches the dispatcher. *CLI,
  configuration, secrets:* argument parsing, wiring and reading of secrets, with no state beyond a start-up.
  *Value objects and other entities:* immutable records, constants and queries.

## 8. Plan

Order of work, most important behaviour first; all items are done but the last.

1. `ToolDispatch`: policies, sessions, audit, CLE; shadow and active mode; proofs.
2. `WormAuditLog` against `AppendOnlyLog`, with crashes; refinement proved.
3. `SiemDispatch` over `CircuitBreaker`; liveness; proofs.
4. `DagOrchestrator`, for every small workflow; proofs for every workflow.
5. `RateLimiter` and `CorrectionStore` with their proofs.
6. `CleWorkflow` on `DagOrchestrator`, which it is proved to implement, and `ChainPlanner`.
7. `CallGraph` and `PatternMarketplace`, with proofs.
8. `PolicyEngine`, `MetricsRegistry`, `DriftDetector`, `WorkloadIdentity` with their proofs.
9. The abstract `GovernedCalls` and `OrderedWorkflow` with the proofs that the code implements them, and the planners' proofs.
10. Open: `ToolDispatch` over `PolicyEngine` and `CorrectionStore` instead of a table of denials and in-memory patterns;
   the audit trail of the dispatcher as an `AppendOnlyLog`.

## 9. Running it

    tlc -config MCToolDispatchShadow.cfg MCToolDispatch
    tlapm ToolDispatchProofs.tla

and likewise for the others. Each run ends within three minutes on two cores; the largest proof modules,
`ToolDispatchProofs`, `OrchestrationProofs` and `ObservabilityProofs`, take one to two.
