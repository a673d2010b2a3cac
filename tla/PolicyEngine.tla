---------------------------- MODULE PolicyEngine ----------------------------
(***************************************************************************)
(* OPAPolicyEngine, the engine the container wires in.  It reads Rego as   *)
(* text: rules are found with a pattern, a rule's body is split at ";" and *)
(* nowhere else, and a condition is the first builtin whose name occurs in *)
(* it, or a path.                                                          *)
(*                                                                         *)
(* A condition is the sequence of the lines between two ";".  A line is    *)
(* abstracted to what the reading of its text depends on and to what the   *)
(* text says: a record with "negated", whether it begins with the keyword  *)
(* not, and                                                                *)
(*   form "path",  path             a path into the input                  *)
(*   form "infix", path, builtin, value            input.a == "v"          *)
(*   form "call",  names, args      g(args) with names <<g>>, or, with     *)
(*                                  <<f, g>>, f(g(args)), f being and, or, *)
(*                                  not                                    *)
(*   form "text",  holdsIn          anything else, such as false or a      *)
(*                                  function that is no builtin, and the   *)
(*                                  contexts in which it holds             *)
(* A value is <<type, rank>>: a bool by 0 and 1, an int, and others by     *)
(* their place in the order of their type, what is empty being 0.          *)
(***************************************************************************)
EXTENDS Integers, Sequences, FiniteSets, SequencesExt

CONSTANTS
    PolicyIds,
    NoPolicy,
    Conditions,         \* the conditions of their rules: sequences of lines
    WrittenPolicies,    \* the policies there may be
    AddedPolicies,      \* those that are added to the engine
    Contexts,           \* the contexts they are evaluated in: path -> value
    TrueWord, FalseWord,    \* the places of "true" and "false" among strings
    StringTest(_, _, _) \* in, startswith, endswith and fnmatch on two values, FALSE
                        \* where they raise

Builtins == <<"eq", "neq", "gt", "gte", "lt", "lte", "and", "or", "not",
              "contains", "startswith", "endswith", "glob_match">>

Rules == [name : {"deny", "allow", "violation"}, conditions : Seq(Conditions)]

\* What the input may hold; it comes from commands and holds no null.
JsonData == ({"bool"} \X {0, 1}) \cup ({"int", "str", "list", "dict"} \X Int)

None       == <<"none", 0>>
TrueValue  == <<"bool", 1>>
FalseValue == <<"bool", 0>>

\* An argument is <<"input", path>> or a literal.
ASSUME ConditionsAssumption ==
    \A part \in Conditions :
      /\ Len(part) \in Nat \ {0} /\ DOMAIN part = 1 .. Len(part)
      /\ \A j \in DOMAIN part : part[j].form = "call" =>
           /\ part[j].names \in Seq(ToSet(Builtins)) /\ part[j].names # <<>>
           /\ Len(part[j].args) \in Nat \ {0}
           /\ DOMAIN part[j].args = 1 .. Len(part[j].args)
           /\ \A i \in DOMAIN part[j].args :
                part[j].args[i][1] = "input" \/ part[j].args[i] \in JsonData
ASSUME ContextsAssumption ==
    \A context \in Contexts : \A path \in DOMAIN context : context[path] \in JsonData
ASSUME WrittenAssumption ==
    WrittenPolicies \subseteq [enabled : BOOLEAN, effect : {"allow", "deny"},
                              package : BOOLEAN, rules : Seq(Rules)]
ASSUME NoPolicyAssumption == NoPolicy \notin WrittenPolicies
ASSUME AddedAssumption    == AddedPolicies \subseteq WrittenPolicies

VARIABLES
    policies,       \* _policies
    verdict         \* what evaluate answered, until its caller has acted on it

policyVars == <<policies, verdict>>

\* The text of a call, cut off at the first ")": a str that is not empty.
Text == <<"str", 1>>

-----------------------------------------------------------------------------
(* Reading a policy *)

\* _get_nested
Lookup(context, path) == IF path \in DOMAIN context THEN context[path] ELSE None

\* A word that is not quoted and no number is taken for the str it is spelled like.
Argument(context, arg) ==
    CASE arg[1] = "input" -> Lookup(context, arg[2])
      [] arg[1] = "bool"  -> <<"str", IF arg[2] = 1 THEN TrueWord ELSE FalseWord>>
      [] OTHER            -> arg

Truthy(value) == value[2] # 0

Numbers == {"bool", "int"}      \* True == 1

SameKind(v, w) == v[1] = w[1] \/ (v[1] \in Numbers /\ w[1] \in Numbers)

Equal(v, w) == v = w \/ (v[1] \in Numbers /\ w[1] \in Numbers /\ v[2] = w[2])

\* TypeErrors are caught, and are FALSE.
Comparable(a) == Len(a) = 2 /\ SameKind(a[1], a[2]) /\ a[1][1] \notin {"none", "dict"}

\* The builtin n applied to the arguments a.
Apply(n, a) ==
    CASE n = "eq"  -> Len(a) = 2 /\ Equal(a[1], a[2])
      [] n = "neq" -> Len(a) = 2 /\ ~Equal(a[1], a[2])
      [] n = "gt"  -> Comparable(a) /\ a[1][2] > a[2][2]
      [] n = "gte" -> Comparable(a) /\ a[1][2] >= a[2][2]
      [] n = "lt"  -> Comparable(a) /\ a[1][2] < a[2][2]
      [] n = "lte" -> Comparable(a) /\ a[1][2] <= a[2][2]
      [] n = "and" -> \A i \in DOMAIN a : Truthy(a[i])
      [] n = "or"  -> \E i \in DOMAIN a : Truthy(a[i])
      [] n = "not" -> Len(a) = 1 /\ ~Truthy(a[1])
      [] OTHER     -> Len(a) = 2 /\ a[1] # None /\ a[2] # None /\ StringTest(n, a[1], a[2])

\* "eq(" is part of "neq(".
OccursIn(n, name) == n = name \/ (n = "eq" /\ name = "neq")

\* Does "n(" occur in the line?
Occurs(n, c) == c.form = "call" /\ \E i \in DOMAIN c.names : OccursIn(n, c.names[i])

\* The first builtin, in the engine's order, that occurs in any of the lines.
BuiltinAt(part) == SelectInSeq(Builtins, LAMBDA n : \E j \in DOMAIN part : Occurs(n, part[j]))

\* The line in which it occurs first.
LineOf(n, part) == SelectInSeq(part, LAMBDA c : Occurs(n, c))

\* _evaluate_builtin takes what is between the first such "(" and the first ")": the
\* arguments of the call inside, whose own text is part of them if it is not the one.
EvaluateCall(context, n, c) ==
    LET args  == [i \in DOMAIN c.args |-> Argument(context, c.args[i])]
        inner == ~OccursIn(n, c.names[1]) \/ Len(c.names) = 1
    IN Apply(n, IF inner THEN args ELSE [args EXCEPT ![1] = Text])

\* A condition that starts with "input." is looked up as a path, all of it.
IsPath(part) == part[1].form \in {"path", "infix"} /\ ~part[1].negated

EvaluateCondition(context, part) ==
    IF IsPath(part)
    THEN Len(part) = 1 /\ part[1].form = "path" /\ Lookup(context, part[1].path) # None
    ELSE LET k == BuiltinAt(part)
             n == Builtins[k]
         IN k = 0 \/ EvaluateCall(context, n, part[LineOf(n, part)])

\* Mutant of EvaluateRule: one condition that holds is enough.
EvaluateRuleAny(context, rule) ==
    \E i \in DOMAIN rule.conditions : EvaluateCondition(context, rule.conditions[i])

EvaluateRule(context, rule) ==
    \A i \in DOMAIN rule.conditions : EvaluateCondition(context, rule.conditions[i])

\* The first deny or allow whose conditions hold decides; a violation decides nothing.
EvaluateRego(rules, context) ==
    LET i == SelectInSeq(rules, LAMBDA r :
               r.name \in {"deny", "allow"} /\ EvaluateRule(context, r))
    IN i = 0 \/ rules[i].name = "allow"

\* Without a package nothing is read.
Evaluation(policy, context) ==
    \/ ~policy.enabled \/ policy.effect = "allow" \/ ~policy.package
    \/ EvaluateRego(policy.rules, context)

-----------------------------------------------------------------------------
(* The engine *)

NoVerdict == [policy |-> NoPolicy, context |-> <<>>, permitted |-> TRUE]

WrittenOrNone == WrittenPolicies \cup {NoPolicy}

PolicyTypeOK ==
    /\ policies \in [PolicyIds -> WrittenOrNone]
    /\ verdict.policy \in WrittenOrNone
    /\ verdict.permitted \in BOOLEAN

PolicyInit ==
    /\ policies = [i \in PolicyIds |-> NoPolicy]
    /\ verdict = NoVerdict

\* Also takes the place of the policy with that id.
AddPolicyAs(i, policy) ==
    /\ policies' = [policies EXCEPT ![i] = policy]
    /\ UNCHANGED verdict

RemovePolicyOf(i) ==
    /\ policies' = [policies EXCEPT ![i] = NoPolicy]
    /\ UNCHANGED verdict

\* list_policies
EnabledPolicies == {p \in {policies[i] : i \in PolicyIds} \ {NoPolicy} : p.enabled}

\* evaluate, of a policy that was listed, perhaps before others took its place.
Evaluate(policy, context) ==
    /\ verdict = NoVerdict
    /\ verdict' = [policy |-> policy, context |-> context,
                   permitted |-> Evaluation(policy, context)]
    /\ UNCHANGED policies

\* The caller goes on, or raises.
ActOnVerdict == verdict # NoVerdict /\ verdict' = NoVerdict /\ UNCHANGED policies

PolicyNext ==
    \/ \E i \in PolicyIds : RemovePolicyOf(i) \/ \E p \in AddedPolicies : AddPolicyAs(i, p)
    \/ \E p \in WrittenPolicies, context \in Contexts : Evaluate(p, context)
    \/ ActOnVerdict

PolicySpec == PolicyInit /\ [][PolicyNext]_policyVars

-----------------------------------------------------------------------------
(* Properties *)

\* What a rule says, as Rego has it.  A value that is not there makes a line fail, and
\* its negation hold; values of different types differ, and are ordered by type.
TypeRank == [bool |-> 1, int |-> 2, str |-> 3, list |-> 4, dict |-> 5]

Below(v, w) == IF v[1] = w[1] THEN v[2] < w[2] ELSE TypeRank[v[1]] < TypeRank[w[1]]

Meaning(n, a) ==
    IF n = "not" THEN Len(a) = 1 /\ a[1] \in {None, FalseValue}
    ELSE /\ \A i \in DOMAIN a : a[i] # None
         /\ CASE n = "eq"  -> Len(a) = 2 /\ a[1] = a[2]
              [] n = "neq" -> Len(a) = 2 /\ a[1] # a[2]
              [] n = "gt"  -> Len(a) = 2 /\ Below(a[2], a[1])
              [] n = "gte" -> Len(a) = 2 /\ (a[1] = a[2] \/ Below(a[2], a[1]))
              [] n = "lt"  -> Len(a) = 2 /\ Below(a[1], a[2])
              [] n = "lte" -> Len(a) = 2 /\ (a[1] = a[2] \/ Below(a[1], a[2]))
              [] n = "and" -> \A i \in DOMAIN a : a[i] = TrueValue
              [] n = "or"  -> \E i \in DOMAIN a : a[i] = TrueValue
              [] OTHER     -> /\ Len(a) = 2 /\ a[1][1] = "str" /\ a[2][1] = "str"
                              /\ StringTest(n, a[1], a[2])

Value(context, arg) == IF arg[1] = "input" THEN Lookup(context, arg[2]) ELSE arg

ValuesOf(context, c) == [i \in DOMAIN c.args |-> Value(context, c.args[i])]

\* Calls mean what they say from the inside out.
CallSays(context, c) ==
    LET n     == Len(c.names)
        inner == Meaning(c.names[n], ValuesOf(context, c))
    IN IF n = 1 THEN inner
       ELSE Meaning(c.names[1], <<IF inner THEN TrueValue ELSE FalseValue>>)

LineSays(context, c) ==
    CASE c.form = "path"  -> Lookup(context, c.path) \notin {None, FalseValue}
      [] c.form = "infix" -> Meaning(c.builtin, <<Lookup(context, c.path), c.value>>)
      [] c.form = "call"  -> CallSays(context, c)
      [] OTHER            -> context \in c.holdsIn

\* Each line says something, whether or not there is a ";" behind it.
Says(context, part) ==
    \A j \in DOMAIN part : LineSays(context, part[j]) <=> ~part[j].negated

Holds(context, rule) == \A i \in DOMAIN rule.conditions : Says(context, rule.conditions[i])

\* Some deny holds, and no allow before it.
Denies(policy, context) ==
    \E i \in DOMAIN policy.rules :
      /\ policy.rules[i].name = "deny" /\ Holds(context, policy.rules[i])
      /\ \A j \in 1 .. i - 1 :
           policy.rules[j].name = "allow" => ~Holds(context, policy.rules[j])

\* What evaluate answers is what the policy says.
AsWritten ==
    verdict.policy # NoPolicy =>
      LET p == verdict.policy IN
      verdict.permitted <=>
        ~(p.enabled /\ p.effect = "deny" /\ p.package /\ Denies(p, verdict.context))

\* Values a builtin is made for: of one type, strings, or truth values.
Typed(n, a) ==
    CASE n \in {"and", "or"} -> \A i \in DOMAIN a : a[i][1] = "bool"
      [] n = "not" -> Len(a) = 1 /\ a[1][1] \in {"bool", "none"}
      [] n \in {"eq", "gt", "gte", "lt", "lte"} ->
           Len(a) = 2 /\ a[1][1] = a[2][1] /\ a[1][1] \in {"bool", "int", "str", "list"}
      [] OTHER -> Len(a) = 2 /\ a[1][1] = "str" /\ a[2][1] = "str"

\* Of two values the input may lack one, unless the other can decide alone.
OneMissing(a) == Len(a) = 2 /\ (a[1] = None \/ a[2] = None) /\ ~(a[1] = None /\ a[2] = None)

Fits(n, a) == Typed(n, a) \/ (n \notin {"or", "not"} /\ OneMissing(a))

\* The lines the engine reads as they are written, in this context: a path to anything but
\* false, a call of one builtin other than neq on values it is made for, with no unquoted
\* word among them, and other text where it holds.
SuitsLine(context, c) ==
    /\ ~c.negated /\ c.form \in {"path", "call", "text"}
    /\ c.form = "path" => Lookup(context, c.path) # FalseValue
    /\ c.form = "text" => context \in c.holdsIn
    /\ c.form = "call" => /\ Len(c.names) = 1 /\ c.names # <<"neq">>
                          /\ \A i \in DOMAIN c.args : c.args[i][1] # "bool"
                          /\ Fits(c.names[1], ValuesOf(context, c))

\* Those lines with a ";" after each.
Suits(context, part) == Len(part) = 1 /\ SuitsLine(context, part[1])

IsPlain(policy, context) ==
    \A i \in DOMAIN policy.rules :
      \A j \in DOMAIN policy.rules[i].conditions : Suits(context, policy.rules[i].conditions[j])

\* A policy of such lines forbids exactly what its rules say, however the policies of the
\* engine change before it is evaluated.
PlainAsWritten ==
    verdict.policy # NoPolicy /\ IsPlain(verdict.policy, verdict.context) => AsWritten

-----------------------------------------------------------------------------
(* The inductive invariant behind the theorems of SecurityProofs *)

\* A verdict is the evaluation of its policy, whatever became of that one since.
VerdictEvaluated ==
    verdict.policy # NoPolicy =>
      /\ verdict.context \in Contexts
      /\ verdict.permitted <=> Evaluation(verdict.policy, verdict.context)

PolicyInv == PolicyTypeOK /\ VerdictEvaluated
=============================================================================
