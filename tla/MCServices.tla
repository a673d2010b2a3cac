----------------------------- MODULE MCServices -----------------------------
(***************************************************************************)
(* A small instance of the services behind the dispatcher.                 *)
(* They share no state, so a behaviour exercises one of them; `serving`    *)
(* says which.                                                             *)
(***************************************************************************)
EXTENDS CorrectionStore, PolicyEngine, CallGraph, PatternMarketplace, MetricsRegistry,
        WorkloadIdentity, DriftDetector, SiemDispatch

VARIABLE serving

allVars == <<serving, vars, policyVars, graphVars, marketVars, metricVars,
             identityVars, driftVars, siemVars>>

-----------------------------------------------------------------------------
(* Constants *)

\* An intent is similar to itself only; nothing is similar to the zero vector.
MCSimilar(v, w) == v = w

MCContexts == {[a |-> <<"int", 1>>, b |-> <<"str", 2>>], [a |-> <<"int", 2>>, b |-> <<"str", 1>>],
               [a |-> <<"int", 0>>, c |-> FalseValue], [b |-> <<"str", 3>>, c |-> TrueValue],
               [a |-> TrueValue, b |-> <<"list", 2>>, c |-> TrueValue]}

InputOf(path) == <<"input", path>>

CallOf(names, args) == [form |-> "call", negated |-> FALSE, names |-> names, args |-> args]

Negation(c) == [c EXCEPT !.negated = TRUE]

\* Calls in the order in which the engine tries builtins, and in another.
MCCalls ==
    {CallOf(<<n>>, <<InputOf("a"), <<"int", 1>> >>) : n \in {"eq", "neq", "gt", "lte"}}
    \cup {CallOf(<<n>>, <<InputOf("b"), <<"str", 2>> >>) : n \in {"contains", "startswith", "glob_match"}}
    \cup {CallOf(<<n>>, <<InputOf("a"), InputOf("c")>>) : n \in {"and", "or"}}
    \cup {CallOf(<<"not">>, <<InputOf("c")>>), CallOf(<<"eq">>, <<InputOf("c"), TrueValue>>),
          CallOf(<<"not", "eq">>, <<InputOf("a"), <<"int", 1>> >>),
          CallOf(<<"not", "contains">>, <<InputOf("b"), <<"str", 2>> >>)}

PathA   == [form |-> "path",  negated |-> FALSE, path |-> "a"]
PathC   == [form |-> "path",  negated |-> FALSE, path |-> "c"]
InfixA  == [form |-> "infix", negated |-> FALSE, path |-> "a", builtin |-> "eq", value |-> <<"int", 1>>]
Always  == [form |-> "text",  negated |-> FALSE, holdsIn |-> MCContexts]
Nowhere == [form |-> "text",  negated |-> FALSE, holdsIn |-> {}]
EqA     == CallOf(<<"eq">>, <<InputOf("a"), <<"int", 1>> >>)
HasB    == CallOf(<<"contains">>, <<InputOf("b"), <<"str", 2>> >>)

\* Lines on their own, and pairs with no ";" between, as in the templates of the engine.
MCConditions ==
    {<<c>> : c \in MCCalls \cup {PathA, PathC, InfixA, Always, Nowhere, Negation(PathA), Negation(EqA)}}
    \cup {<<InfixA, HasB>>, <<PathA, HasB>>, <<HasB, EqA>>, <<Nowhere, EqA>>}

\* No condition, one, or two, of which one is of a few kinds.
MCBodies ==
    {<<>>} \cup {<<c>> : c \in MCConditions}
    \cup {<<c, d>> : c \in {<<PathA>>, <<Always>>}, d \in MCConditions}

MCRules == [name : {"deny", "allow", "violation"}, conditions : MCBodies]

MCWritten ==
    [enabled : {TRUE}, effect : {"deny"}, package : {TRUE},
     rules : {<<r>> : r \in MCRules}
               \cup {<<q, r>> : q \in [name : {"deny", "allow"}, conditions : {<<c>> : c \in MCConditions}],
                               r \in [name : {"deny"}, conditions : {<<>>, << <<EqA>> >>, << <<HasB>> >>}]}]
    \cup [enabled : BOOLEAN, effect : {"allow", "deny"}, package : BOOLEAN,
          rules : {<<[name |-> "deny", conditions |-> <<>>]>>}]

MCAdded == [enabled : BOOLEAN, effect : {"deny"}, package : {TRUE},
            rules : {<<[name |-> "deny", conditions |-> <<>>]>>}]

\* 3 stands for a string that 2 is part of and starts, but does not match; a list holds one.
MCStringTest(name, s, t) ==
    \/ s[1] = "str" /\ t[1] = "str" /\ (s[2] = t[2] \/ (name # "glob_match" /\ s[2] = 3 /\ t[2] = 2))
    \/ s[1] = "list" /\ name = "contains" /\ s[2] = t[2]

-----------------------------------------------------------------------------
MCInit ==
    /\ serving \in {"corrections", "policies", "graphs", "market", "metrics", "identity", "drift",
                    "siem"}
    /\ Init /\ PolicyInit /\ GraphInit /\ MarketInit /\ MetricsInit /\ IdentityInit /\ DriftInit
    /\ SiemInit

\* The services that are not exercised.
Idle(s) ==
    /\ serving = s
    /\ UNCHANGED serving
    /\ s # "corrections" => UNCHANGED vars
    /\ s # "policies" => UNCHANGED policyVars
    /\ s # "graphs"   => UNCHANGED graphVars
    /\ s # "market"   => UNCHANGED marketVars
    /\ s # "metrics"  => UNCHANGED metricVars
    /\ s # "identity" => UNCHANGED identityVars
    /\ s # "drift"    => UNCHANGED driftVars
    /\ s # "siem"     => UNCHANGED siemVars

\* A listing's id is drawn at random, and nothing tells one from another: they are
\* taken in the order of the numbers that stand for them.
ListedInOrder == \A l \in Listed : l - 1 \in Listings => l - 1 \in Listed

MCNext ==
    \/ Idle("corrections") /\ Next
    \/ Idle("policies") /\ PolicyNext
    \/ Idle("graphs")   /\ GraphNext
    \/ Idle("market")   /\ MarketNext /\ ListedInOrder'
    \/ Idle("metrics")  /\ MetricsNext
    \/ Idle("identity") /\ IdentityNext
    \/ Idle("drift")    /\ DriftNext
    \/ Idle("siem")     /\ SiemNext

MCSpec == MCInit /\ [][MCNext]_allVars
=============================================================================
