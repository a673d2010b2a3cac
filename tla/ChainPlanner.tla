---------------------------- MODULE ChainPlanner ----------------------------
(***************************************************************************)
(* The two planners of chains of tools: MultiHopChainPlanner, which orders *)
(* the available tools, and SemanticToolMatcher, which follows a tool to   *)
(* the ones it is used with.  Neither awaits anything while it plans.      *)
(***************************************************************************)
EXTENDS Integers, Sequences, Functions, SequencesExt

CONSTANTS
    ChainTools,
    InitialDependencies,    \* the planner's table, before add_dependency
    Related,                \* the matcher's table, a list for each tool
    Unknown,                \* "unknown", what the classifier says of no match
    MaxHops,                \* max_hops
    MaxAvailable            \* bound on the length of available_tools

ASSUME UnknownAssumption == Unknown \notin ChainTools
ASSUME TablesAssumption  == /\ InitialDependencies \in [ChainTools -> SUBSET ChainTools]
                            /\ Related \in [ChainTools -> Seq(ChainTools)]
ASSUME HopsAssumption    == MaxHops \in Nat \ {0} /\ MaxAvailable \in Nat

VARIABLES
    dependencies,   \* MultiHopChainPlanner._tool_dependencies
    planned         \* what either planner returned, until its caller is done with it

plannerVars == <<dependencies, planned>>

\* The tools on offer, in the caller's order; the same one may be on it twice.
Offers == BoundedSeq(ChainTools, MaxAvailable)

PlannerTypeOK ==
    /\ dependencies \in [ChainTools -> SUBSET ChainTools]
    /\ planned.by \in {"nobody", "planner", "matcher"}
    /\ planned.given \in Offers
    /\ planned.chains \in Seq(Seq(ChainTools))

NoPlan == [by |-> "nobody", given |-> <<>>, chains |-> <<>>]

PlannerInit ==
    /\ dependencies = InitialDependencies
    /\ planned = NoPlan

-----------------------------------------------------------------------------
(* MultiHopChainPlanner *)

AddDependency(tool, dependsOn) ==
    /\ planned = NoPlan
    /\ dependencies' = [dependencies EXCEPT ![tool] = @ \cup {dependsOn}]
    /\ UNCHANGED planned

\* Mutant of HasDependency: one of the dependencies is enough ("any" for "all").
HasDependencyAny(tool, chain) ==
    dependencies[tool] = {} \/ dependencies[tool] \cap ToSet(chain) # {}

HasDependency(tool, chain) == dependencies[tool] \subseteq ToSet(chain)

\* Of a chain and the tools that remain: it goes on with each tool it has the
\* dependencies of, or ends.
PlanWithTool[plan \in Seq(ChainTools) \X Seq(ChainTools)] ==
    LET chain     == plan[1]
        remaining == plan[2]
        longer    == FlattenSeq([i \in DOMAIN remaining |->
            IF HasDependency(remaining[i], chain)
            THEN PlanWithTool[<<Append(chain, remaining[i]), RemoveAt(remaining, i)>>]
            ELSE <<>>])
    IN IF longer = <<>> THEN <<chain>> ELSE longer

\* Equal when sorted: each tool is in both as often.
UsesOf(t, c) == {i \in DOMAIN c : c[i] = t}
SameTools(c, d) == \A t \in ChainTools : Cardinality(UsesOf(t, c)) = Cardinality(UsesOf(t, d))

\* Of the chains with the same tools the first stays.
Unique(chains) ==
    FlattenSeq([i \in DOMAIN chains |->
        IF \E j \in 1 .. i - 1 : SameTools(chains[j], chains[i]) THEN <<>> ELSE <<chains[i]>>])

\* plan: the first tool of a chain is not asked for its dependencies.
Chains(available) ==
    IF Len(available) = 1 THEN <<available>>
    ELSE Unique(FlattenSeq([i \in DOMAIN available |->
           PlanWithTool[<< <<available[i]>>, RemoveAt(available, i) >>]]))

Plan(available) ==
    /\ planned = NoPlan
    /\ planned' = [by |-> "planner", given |-> available, chains |-> Chains(available)]
    /\ UNCHANGED dependencies

-----------------------------------------------------------------------------
(* SemanticToolMatcher *)

\* IntentClassifier.match_tool: the first tool of the highest similarity above 0.
MatchTool(similarity) ==
    IF \A t \in ChainTools : similarity[t] = 0 THEN {Unknown}
    ELSE {t \in ChainTools : \A u \in ChainTools : similarity[u] <= similarity[t]}

\* A chain goes on with each tool its last one is used with, unless it repeats it.
Continued(chain) ==
    LET related == Related[Last(chain)] IN
    IF related = <<>> THEN <<chain>>
    ELSE FlattenSeq([j \in DOMAIN related |->
           IF Contains(chain, related[j]) THEN <<>> ELSE <<Append(chain, related[j])>>])

Hop(chains) == FlattenSeq([i \in DOMAIN chains |-> Continued(chains[i])])

\* max_hops - 1 hops from the tool matched, the last of them that finds a chain.
HopsFrom(primary) ==
    LET hops[n \in Nat] ==
          IF n = 0 THEN << <<primary>> >>
          ELSE IF Hop(hops[n - 1]) = <<>> THEN hops[n - 1] ELSE Hop(hops[n - 1])
    IN hops[MaxHops - 1]

PlanChain(similarity) ==
    /\ planned = NoPlan
    /\ \E primary \in MatchTool(similarity) :
         planned' = [by |-> "matcher", given |-> <<>>, chains |->
           IF primary = Unknown THEN <<>> ELSE HopsFrom(primary)]
    /\ UNCHANGED dependencies

\* The caller has read the chains.
PutAway ==
    /\ planned # NoPlan
    /\ planned' = NoPlan
    /\ UNCHANGED dependencies

PlannerNext ==
    \/ PutAway
    \/ \E tool, dependsOn \in ChainTools : AddDependency(tool, dependsOn)
    \/ \E available \in Offers : Plan(available)
    \/ \E similarity \in [ChainTools -> 0 .. 2] : PlanChain(similarity)

PlannerSpec == PlannerInit /\ [][PlannerNext]_plannerVars

-----------------------------------------------------------------------------
(* Properties *)

\* The tools of a chain that does not end while one is left that could come next.
Exhausts(c, given) ==
    \E order \in Bijection(DOMAIN given, DOMAIN given) :
      LET tools == [i \in DOMAIN given |-> given[order[i]]] IN
      /\ SubSeq(tools, 1, Len(c)) = c
      /\ \A i \in Len(c) + 1 .. Len(given) : ~ dependencies[tools[i]] \subseteq ToSet(c)

\* From its second tool on a chain runs no tool before one it depends on (of the first see
\* DependsOnRunsBefore), it uses no tool more often than it is offered and stops only when
\* no tool left can come next, and no tool is left out of all chains.  The matcher's chains
\* repeat no tool.
ChainsRunnable ==
    /\ planned.by = "planner" /\ Len(planned.given) > 1 =>
         /\ \A c \in ToSet(planned.chains) :
              /\ \A i \in 2 .. Len(c) : dependencies[c[i]] \subseteq ToSet(SubSeq(c, 1, i - 1))
              /\ Exhausts(c, planned.given)
         /\ ToSet(planned.given) = UNION {ToSet(c) : c \in ToSet(planned.chains)}
    /\ planned.by = "matcher" => \A c \in ToSet(planned.chains) : IsInjective(c)

\* What the docstrings say, that what a tool depends on must run before it: of two tools of
\* a planned chain the first does not depend on the second.  plan starts a chain with each
\* tool on offer without looking at its dependencies, and keeps the first chain of several
\* with the same tools.
DependsOnRunsBefore ==
    planned.by = "planner" =>
      \A c \in ToSet(planned.chains) :
        \A i, j \in DOMAIN c : i < j => c[j] \notin dependencies[c[i]]
=============================================================================
