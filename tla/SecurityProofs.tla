--------------------------- MODULE SecurityProofs ---------------------------
(***************************************************************************)
(* Theorems about the services that decide who may do what: how long an    *)
(* identity of WorkloadIdentity is good for, for any number of callers,    *)
(* any lifetime and any margin below it; what PolicyEngine makes of a      *)
(* policy, for any rules and contexts; and how many requests RateLimiter   *)
(* lets through, for any limit, window and number of clients.              *)
(***************************************************************************)
EXTENDS WorkloadIdentity, PolicyEngine, RateLimiter, FiniteSetTheorems, WellFoundedInduction,
        TLAPS

-----------------------------------------------------------------------------
(* Identities *)

\* What is left of an identity, against the time since it was issued or served.
LifeAccounted(x) ==
    /\ x.pc = "fetch" => ~x.fromCache /\ x.since = 0
    /\ x.pc \in {"fetch", "served"} =>
         \/ x.fromCache /\ x.identity.left + x.since > Margin
         \/ /\ ~x.fromCache /\ x.identity.audience = x.asked
            /\ x.identity.left + x.waited + x.since >= Lifetime

\* IdentityFresh alone is not inductive: it says nothing of an answer still under way,
\* nor how much more than nothing is left.
IdentityInv == IdentityTypeOK /\ \A a \in Askers : LifeAccounted(asker[a])

-----------------------------------------------------------------------------
LEMMA NewIdentityTyped ==
    ASSUME NEW audience \in Audiences \cup {NoAudience}
    PROVE  [audience |-> audience, left |-> Lifetime] \in Identity
BY LifetimeAssumption DEF Identity

LEMMA AgedTyped ==
    ASSUME NEW x \in Identity
    PROVE  /\ Aged(x) \in Identity /\ Aged(x).audience = x.audience
           /\ Aged(x).left = IF x.left = 0 THEN 0 ELSE x.left - 1
BY LifetimeAssumption DEF Aged, Identity

LEMMA NotAskingAccounted == NotAsking \in Asker /\ LifeAccounted(NotAsking)
<1>1. NoIdentity \in Identity /\ 0 \in 0 .. Lifetime /\ 0 \in 0 .. Margin
    BY LifetimeAssumption DEF NoIdentity, Identity
<1>2. NotAsking \in Asker
    BY <1>1 DEF NotAsking, Asker
<1> QED
    BY <1>2 DEF NotAsking, LifeAccounted

\* Every step changes one caller, or lets all of them grow older.
LEMMA OneAskerKeeps ==
    ASSUME IdentityInv, NEW a \in Askers, NEW x \in Asker, LifeAccounted(x),
           asker' = [asker EXCEPT ![a] = x], cached' \in Identity
    PROVE  IdentityInv'
<1>1. /\ asker' \in [Askers -> Asker]
      /\ \A b \in Askers : asker'[b] = IF b = a THEN x ELSE asker[b]
    BY DEF IdentityInv, IdentityTypeOK
<1>2. \A b \in Askers : LifeAccounted(asker'[b])
    BY <1>1 DEF IdentityInv
<1> QED
    BY <1>1, <1>2 DEF IdentityInv, IdentityTypeOK

LEMMA OlderAccounted ==
    ASSUME NEW x \in Asker, LifeAccounted(x)
    PROVE  Older(x) \in Asker /\ LifeAccounted(Older(x))
<1> DEFINE y == Aged(x.identity)
<1>1. /\ x.identity \in Identity /\ x.identity.left \in 0 .. Lifetime
      /\ x.waited \in 0 .. Lifetime /\ x.since \in 0 .. Margin
    BY DEF Asker, Identity
<1>2. /\ y \in Identity /\ y.audience = x.identity.audience
      /\ y.left = IF x.identity.left = 0 THEN 0 ELSE x.identity.left - 1
    BY <1>1, AgedTyped
<1>3. y.left \in 0 .. Lifetime /\ y.left + 1 >= x.identity.left
    BY <1>1, <1>2, LifetimeAssumption
<1> HIDE DEF y
<1>4. CASE x.pc = "fetch"
  <2> DEFINE w == IF x.waited = Lifetime THEN Lifetime ELSE x.waited + 1
             z == [x EXCEPT !.identity = y, !.waited = w]
  <2>1. w \in 0 .. Lifetime /\ (w = x.waited + 1 \/ w = Lifetime)
      BY <1>1, LifetimeAssumption
  <2>2. Older(x) = z
      BY <1>4 DEF Older, y
  <2> HIDE DEF w
  <2>3. /\ z \in Asker /\ z.pc = x.pc /\ z.identity = y /\ z.waited = w
        /\ z.since = x.since /\ z.fromCache = x.fromCache /\ z.asked = x.asked
      BY <1>2, <2>1 DEF Asker
  <2> HIDE DEF z
  <2>4. /\ ~x.fromCache /\ x.since = 0 /\ x.identity.audience = x.asked
        /\ x.identity.left + x.waited + x.since >= Lifetime
      BY <1>4 DEF LifeAccounted
  <2>5. y.left + w + x.since >= Lifetime
      BY <1>1, <1>3, <2>1, <2>4, LifetimeAssumption
  <2> QED
      BY <1>2, <2>2, <2>3, <2>4, <2>5 DEF LifeAccounted
<1>5. CASE x.pc = "served" /\ x.since < Margin
  <2> DEFINE z == [x EXCEPT !.identity = y, !.since = x.since + 1]
  <2>1. x.since + 1 \in 0 .. Margin
      BY <1>1, <1>5, LifetimeAssumption
  <2>2. Older(x) = z
      BY <1>5 DEF Older, y
  <2>3. /\ z \in Asker /\ z.pc = "served" /\ z.identity = y /\ z.waited = x.waited
        /\ z.since = x.since + 1 /\ z.fromCache = x.fromCache /\ z.asked = x.asked
      BY <1>2, <1>5, <2>1 DEF Asker
  <2> HIDE DEF z
  <2>4. CASE x.fromCache /\ x.identity.left + x.since > Margin
    <3>1. y.left + (x.since + 1) > Margin
        BY <1>1, <1>3, <2>4, LifetimeAssumption
    <3> QED
        BY <2>2, <2>3, <2>4, <3>1 DEF LifeAccounted
  <2>5. CASE /\ ~x.fromCache /\ x.identity.audience = x.asked
             /\ x.identity.left + x.waited + x.since >= Lifetime
    <3>1. y.left + x.waited + (x.since + 1) >= Lifetime
        BY <1>1, <1>3, <2>5, LifetimeAssumption
    <3> QED
        BY <1>2, <2>2, <2>3, <2>5, <3>1 DEF LifeAccounted
  <2> QED
      BY <1>5, <2>4, <2>5 DEF LifeAccounted
<1>6. CASE x.pc # "fetch" /\ ~(x.pc = "served" /\ x.since < Margin)
    BY <1>6, NotAskingAccounted DEF Older
<1> QED
    BY <1>4, <1>5, <1>6

-----------------------------------------------------------------------------
LEMMA IdentityInitInv == IdentityInit => IdentityInv
<1> SUFFICES ASSUME IdentityInit PROVE IdentityInv
    OBVIOUS
<1>1. cached \in Identity /\ asker \in [Askers -> Asker]
    BY NotAskingAccounted, LifetimeAssumption DEF IdentityInit, NoIdentity, Identity
<1>2. \A a \in Askers : LifeAccounted(asker[a])
    BY NotAskingAccounted DEF IdentityInit
<1> QED
    BY <1>1, <1>2 DEF IdentityInv, IdentityTypeOK

LEMMA IdentityNextInv == IdentityInv /\ [IdentityNext]_identityVars => IdentityInv'
<1> SUFFICES ASSUME IdentityInv, [IdentityNext]_identityVars PROVE IdentityInv'
    OBVIOUS
<1>1. cached \in Identity /\ \A a \in Askers : asker[a] \in Asker /\ LifeAccounted(asker[a])
    BY DEF IdentityInv, IdentityTypeOK
<1>2. ASSUME IdentitiesAge PROVE IdentityInv'
  <2>1. cached' \in Identity
      BY <1>1, <1>2, AgedTyped DEF IdentitiesAge
  <2>2. asker' = [a \in Askers |-> Older(asker[a])]
      BY <1>2 DEF IdentitiesAge
  <2>3. \A a \in Askers : Older(asker[a]) \in Asker /\ LifeAccounted(Older(asker[a]))
      BY <1>1, OlderAccounted
  <2>4. /\ asker' \in [Askers -> Asker]
        /\ \A a \in Askers : LifeAccounted(asker'[a])
      BY <2>2, <2>3
  <2> QED
      BY <2>1, <2>4 DEF IdentityInv, IdentityTypeOK
<1>3. ASSUME NEW a \in Askers, FetchReturns(a) PROVE IdentityInv'
  <2> DEFINE x == [asker[a] EXCEPT !.pc = "served"]
  <2>1. asker' = [asker EXCEPT ![a] = x] /\ cached' = asker[a].identity
      BY <1>3 DEF FetchReturns
  <2>2. cached' \in Identity
      BY <1>1, <2>1 DEF Asker
  <2>3. asker[a].pc = "fetch"
      BY <1>3 DEF FetchReturns, Awaiting
  <2>4. /\ x \in Asker /\ x.pc = "served" /\ x.identity = asker[a].identity
        /\ x.waited = asker[a].waited /\ x.since = asker[a].since
        /\ x.fromCache = asker[a].fromCache /\ x.asked = asker[a].asked
      BY <1>1 DEF Asker
  <2> HIDE DEF x
  <2>5. LifeAccounted(x)
      BY <1>1, <2>3, <2>4 DEF LifeAccounted
  <2> QED
      BY <2>1, <2>2, <2>4, <2>5, OneAskerKeeps
<1>4. ASSUME NEW a \in Askers, FetchRaises(a) PROVE IdentityInv'
  <2> DEFINE x == [asker[a] EXCEPT !.pc = "raised"]
  <2>1. asker' = [asker EXCEPT ![a] = x] /\ cached' = cached
      BY <1>4 DEF FetchRaises
  <2>2. x \in Asker /\ x.pc = "raised"
      BY <1>1 DEF Asker
  <2> HIDE DEF x
  <2>3. LifeAccounted(x)
      BY <2>2 DEF LifeAccounted
  <2> QED
      BY <1>1, <2>1, <2>2, <2>3, OneAskerKeeps
<1>5. ASSUME NEW a \in Askers, NEW audience \in Audiences, ServeCached(a, audience)
      PROVE  IdentityInv'
  <2> DEFINE x == [pc |-> "served", asked |-> audience, identity |-> cached,
                   fromCache |-> TRUE, waited |-> 0, since |-> 0]
  <2>1. asker' = [asker EXCEPT ![a] = x] /\ cached' = cached /\ cached.left > Margin
      BY <1>5 DEF ServeCached, IsIdentityValid
  <2>2. x \in Asker
      BY <1>1, LifetimeAssumption DEF Asker
  <2>3. LifeAccounted(x)
      BY <1>1, <2>1, LifetimeAssumption DEF LifeAccounted, Identity
  <2> HIDE DEF x
  <2> QED
      BY <1>1, <2>1, <2>2, <2>3, OneAskerKeeps
<1>6. ASSUME NEW a \in Askers, NEW audience \in Audiences, Fetch(a, audience)
      PROVE  IdentityInv'
  <2> DEFINE x == [pc |-> "fetch", asked |-> audience,
                   identity |-> [audience |-> audience, left |-> Lifetime],
                   fromCache |-> FALSE, waited |-> 0, since |-> 0]
  <2>1. asker' = [asker EXCEPT ![a] = x] /\ cached' = cached
      BY <1>6 DEF Fetch
  <2>2. x \in Asker
      BY NewIdentityTyped, LifetimeAssumption DEF Asker
  <2>3. LifeAccounted(x)
      BY LifetimeAssumption DEF LifeAccounted
  <2> HIDE DEF x
  <2> QED
      BY <1>1, <2>1, <2>2, <2>3, OneAskerKeeps
<1>7. CASE UNCHANGED identityVars
    BY <1>7 DEF IdentityInv, IdentityTypeOK, identityVars
<1> QED
    BY <1>2, <1>3, <1>4, <1>5, <1>6, <1>7 DEF IdentityNext

-----------------------------------------------------------------------------
(* Theorems *)

\* The life of every identity that is under way or in use is accounted for.
THEOREM IdentityInvariance == IdentitySpec => []IdentityInv
BY IdentityInitInv, IdentityNextInv, PTL DEF IdentitySpec

\* The controller's state keeps its type: no identity has more left than it was issued
\* with.
THEOREM IdentityTypeCorrect == IdentitySpec => []IdentityTypeOK
<1>1. IdentityInv => IdentityTypeOK
    BY DEF IdentityInv
<1> QED
    BY <1>1, IdentityInvariance, PTL

\* Whatever the callers, the lifetime and the margin, an identity that was answered in
\* good time is good for the margin after it was served, and only the cache
\* (spiffe_controller.py's get_workload_identity) gives one for another audience.
THEOREM FreshWhenUsed == IdentitySpec => []IdentityFresh
<1>1. IdentityInv => IdentityFresh
  <2> SUFFICES ASSUME IdentityInv, NEW a \in Askers, asker[a].pc = "served"
               PROVE  /\ asker[a].waited < Lifetime - Margin => asker[a].identity.left > 0
                      /\ ~asker[a].fromCache => asker[a].identity.audience = asker[a].asked
      BY DEF IdentityFresh
  <2>1. LifeAccounted(asker[a]) /\ asker[a] \in Asker
      BY DEF IdentityInv, IdentityTypeOK
  <2>2. /\ asker[a].identity.left \in 0 .. Lifetime /\ asker[a].waited \in 0 .. Lifetime
        /\ asker[a].since \in 0 .. Margin
      BY <2>1 DEF Asker, Identity
  <2>3. CASE asker[a].fromCache /\ asker[a].identity.left + asker[a].since > Margin
      BY <2>2, <2>3, LifetimeAssumption
  <2>4. CASE /\ ~asker[a].fromCache /\ asker[a].identity.audience = asker[a].asked
             /\ asker[a].identity.left + asker[a].waited + asker[a].since >= Lifetime
      BY <2>2, <2>4, LifetimeAssumption
  <2> QED
      BY <2>1, <2>3, <2>4 DEF LifeAccounted
<1> QED
    BY <1>1, IdentityInvariance, PTL

-----------------------------------------------------------------------------
(* Policies *)

\* A set of naturals that is not empty has a least element, and Min finds it.
LEMMA MinFound ==
    ASSUME NEW T \in SUBSET Nat, T # {}
    PROVE  Min(T) \in T /\ \A i \in T : Min(T) <= i
<1> DEFINE less == {x \in Nat \X Nat : x[1] < x[2]}
<1>1. less = OpToRel(<, Nat)
  BY DEF OpToRel
<1>2. IsWellFoundedOn(less, Nat)
  BY <1>1, NatLessThanWellFounded
<1>3. \E x \in T : \A y \in T : ~(<<y, x>> \in less)
  <2> HIDE DEF less
  <2> QED BY <1>2, WFMin
<1>4. PICK x \in T : \A y \in T : ~(<<y, x>> \in less)
  BY <1>3
<1>5. \A y \in T : ~(y < x) /\ y \in Nat /\ x \in Nat
  BY <1>4
<1>6. \A y \in T : x =< y
  BY <1>5
<1> QED BY <1>6 DEF Min

\* A condition of one line that calls g and nothing else.
CallsOnly(part, g) ==
    /\ Len(part) = 1 /\ DOMAIN part = {1}
    /\ part[1].form = "call" /\ part[1].names = <<g>>

LEMMA OccursOnly ==
    ASSUME NEW g, g # "neq", NEW part, CallsOnly(part, g), NEW n
    PROVE  (\E j \in DOMAIN part : Occurs(n, part[j])) <=> n = g
<1>1. DOMAIN part[1].names = {1} /\ part[1].names[1] = g
  BY DEF CallsOnly
<1>2. Occurs(n, part[1]) <=> n = g
  BY <1>1 DEF CallsOnly, Occurs, OccursIn
<1> QED BY <1>2 DEF CallsOnly

\* The builtin that a call names is the one the engine finds, unless that is neq.
LEMMA BuiltinFound ==
    ASSUME NEW g \in ToSet(Builtins), g # "neq", NEW part, CallsOnly(part, g)
    PROVE  /\ BuiltinAt(part) # 0 /\ Builtins[BuiltinAt(part)] = g
           /\ LineOf(g, part) = 1
<1> DEFINE Test(n) == \E j \in DOMAIN part : Occurs(n, part[j])
           I == {i \in 1 .. Len(Builtins) : Test(Builtins[i])}
           J == {j \in 1 .. Len(part) : Occurs(g, part[j])}
<1>1. \A n : Test(n) <=> n = g
  BY OccursOnly
<1>2. PICK k \in DOMAIN Builtins : Builtins[k] = g
  BY DEF ToSet
<1>3. DOMAIN Builtins = 1 .. Len(Builtins)
  BY DEF Builtins
<1>4. k \in I
  BY <1>1, <1>2, <1>3
<1>5. I \in SUBSET Nat /\ 0 \notin I
  BY DEF Builtins
<1>6. BuiltinAt(part) = IF I # {} THEN Min(I) ELSE 0
  BY DEF BuiltinAt, SelectInSeq
<1>7. Min(I) \in I
  <2> HIDE DEF I
  <2> QED BY <1>4, <1>5, MinFound
<1>8. BuiltinAt(part) # 0 /\ Builtins[BuiltinAt(part)] = g
  BY <1>1, <1>4, <1>5, <1>6, <1>7
<1>9. J = {1} /\ J \in SUBSET Nat
  <2>1. 1 .. Len(part) = {1}
    BY DEF CallsOnly
  <2>2. Occurs(g, part[1])
    BY <1>1 DEF CallsOnly
  <2> QED BY <2>1, <2>2
<1>10. LineOf(g, part) = IF J # {} THEN Min(J) ELSE 0
  BY DEF LineOf, SelectInSeq
<1>11. Min(J) \in J
  <2> HIDE DEF J
  <2> QED BY <1>9, MinFound
<1> HIDE DEF I, J
<1> QED BY <1>8, <1>9, <1>10, <1>11

\* On the values it is made for, each builtin computes what it means.
LEMMA MadeFor ==
    ASSUME NEW n \in ToSet(Builtins), n # "neq", NEW a, Len(a) \in Nat,
           DOMAIN a = 1 .. Len(a), \A i \in DOMAIN a : a[i] \in JsonData \cup {None},
           Fits(n, a)
    PROVE  Apply(n, a) <=> Meaning(n, a)
<1>0. n \in {"eq", "gt", "gte", "lt", "lte", "and", "or", "not", "contains", "startswith",
             "endswith", "glob_match"}
  BY DEF Builtins, ToSet
<1>1. CASE n = "not"
  <2>1. Len(a) = 1 /\ a[1] \in ({"bool"} \X {0, 1}) \cup {None}
    BY <1>1 DEF Fits, Typed, JsonData, None
  <2> QED BY <1>1, <2>1 DEF Apply, Meaning, Truthy, None, FalseValue
<1>2. CASE n = "or"
  <2>1. \A i \in DOMAIN a : a[i] \in {"bool"} \X {0, 1}
    BY <1>2 DEF Fits, Typed, JsonData, None
  <2>2. \A i \in DOMAIN a : a[i] # None /\ (Truthy(a[i]) <=> a[i] = TrueValue)
    BY <2>1 DEF Truthy, None, TrueValue
  <2> QED BY <1>2, <2>2 DEF Apply, Meaning
<1>3. CASE n = "and"
  <2>1. CASE \A i \in DOMAIN a : a[i][1] = "bool"
    <3>1. \A i \in DOMAIN a : a[i] \in {"bool"} \X {0, 1}
      BY <2>1 DEF JsonData, None
    <3>2. \A i \in DOMAIN a : a[i] # None /\ (Truthy(a[i]) <=> a[i] = TrueValue)
      BY <3>1 DEF Truthy, None, TrueValue
    <3> QED BY <1>3, <3>2 DEF Apply, Meaning
  <2>2. CASE OneMissing(a)
    <3>1. PICK i \in DOMAIN a : a[i] = None
      BY <2>2 DEF OneMissing
    <3>2. ~Truthy(a[i])
      BY <3>1 DEF Truthy, None
    <3> QED BY <1>3, <3>1, <3>2 DEF Apply, Meaning
  <2> QED BY <1>3, <2>1, <2>2 DEF Fits, Typed
<1>4. CASE n \in {"eq", "gt", "gte", "lt", "lte"} /\ Typed(n, a)
  <2>1. /\ Len(a) = 2 /\ DOMAIN a = {1, 2}
        /\ a[1][1] = a[2][1] /\ a[1][1] \in {"bool", "int", "str", "list"}
    <3>1. /\ Len(a) = 2 /\ a[1][1] = a[2][1]
          /\ a[1][1] \in {"bool", "int", "str", "list"}
      <4>1. n \notin {"and", "or"} /\ n # "not"
        BY <1>4
      <4> QED BY <1>4, <4>1 DEF Typed
    <3> QED BY <3>1
  <2>2. /\ a[1] # None /\ a[2] # None
        /\ a[1] = <<a[1][1], a[1][2]>> /\ a[2] = <<a[2][1], a[2][2]>>
        /\ a[1][2] \in Int /\ a[2][2] \in Int
    BY <2>1 DEF JsonData, None
  <2>3. /\ a[1] = a[2] <=> a[1][2] = a[2][2]
        /\ Equal(a[1], a[2]) <=> a[1][2] = a[2][2]
        /\ Below(a[1], a[2]) <=> a[1][2] < a[2][2]
        /\ Below(a[2], a[1]) <=> a[2][2] < a[1][2]
        /\ Comparable(a)
    BY <2>1, <2>2 DEF Equal, Below, Comparable, SameKind
  <2>4. \A i \in DOMAIN a : a[i] # None
    BY <2>1, <2>2
  <2> QED BY <1>4, <2>1, <2>2, <2>3, <2>4 DEF Apply, Meaning
<1>5. CASE n \in {"contains", "startswith", "endswith", "glob_match"} /\ Typed(n, a)
  <2>1. Len(a) = 2 /\ DOMAIN a = {1, 2} /\ a[1][1] = "str" /\ a[2][1] = "str"
    BY <1>5 DEF Typed
  <2>2. \A i \in DOMAIN a : a[i] # None
    BY <2>1 DEF None
  <2> QED BY <1>5, <2>1, <2>2 DEF Apply, Meaning
<1>6. CASE n \notin {"and", "or", "not"} /\ OneMissing(a)
  <2>1. /\ Len(a) = 2 /\ DOMAIN a = {1, 2}
        /\ a[1] = None \/ a[2] = None
        /\ ~(a[1] = None /\ a[2] = None)
    BY <1>6 DEF OneMissing
  <2>2. a[1] \in JsonData \cup {None} /\ a[2] \in JsonData \cup {None}
    BY <2>1
  <2>3. \A v \in JsonData : v[1] # "none"
    BY DEF JsonData
  <2>4. ~SameKind(a[1], a[2])
    BY <2>1, <2>2, <2>3 DEF SameKind, Numbers, None
  <2>5. ~Equal(a[1], a[2]) /\ ~Comparable(a)
    BY <2>1, <2>2, <2>3, <2>4 DEF Equal, Comparable, Numbers, None
  <2>6. ~Meaning(n, a)
    BY <1>6, <2>1 DEF Meaning
  <2> QED BY <1>0, <1>6, <2>1, <2>5, <2>6 DEF Apply
<1> QED BY <1>0, <1>1, <1>2, <1>3, <1>4, <1>5, <1>6 DEF Fits

\* A condition that suits the engine is read as it is written.
LEMMA PlainCondition ==
    ASSUME NEW context \in Contexts, NEW part \in Conditions, Suits(context, part)
    PROVE  EvaluateCondition(context, part) <=> Says(context, part)
<1> DEFINE c == part[1]
<1>1. DOMAIN part = {1} /\ Len(part) = 1 /\ SuitsLine(context, c)
  BY ConditionsAssumption DEF Suits
<1>2. Says(context, part) <=> LineSays(context, c)
  BY <1>1 DEF Says, SuitsLine
<1>3. CASE c.form = "call"
  <2> DEFINE g == c.names[1]
             a == ValuesOf(context, c)
  <2>1. /\ Len(c.names) = 1 /\ c.names # <<"neq">> /\ c.names \in Seq(ToSet(Builtins))
        /\ \A i \in DOMAIN c.args : c.args[i][1] # "bool"
        /\ Fits(g, a)
    BY <1>1, <1>3, ConditionsAssumption DEF SuitsLine
  <2>2. c.names = <<g>> /\ g \in ToSet(Builtins) /\ g # "neq"
    BY <2>1
  <2>3. CallsOnly(part, g)
    BY <1>1, <1>3, <2>2 DEF CallsOnly
  <2>4. EvaluateCondition(context, part) <=> EvaluateCall(context, g, c)
    <3>1. ~IsPath(part)
      BY <1>3 DEF IsPath
    <3>2. EvaluateCondition(context, part)
            <=> \/ BuiltinAt(part) = 0
                \/ EvaluateCall(context, Builtins[BuiltinAt(part)],
                                part[LineOf(Builtins[BuiltinAt(part)], part)])
      BY <3>1 DEF EvaluateCondition
    <3> HIDE DEF g
    <3>3. BuiltinAt(part) # 0 /\ Builtins[BuiltinAt(part)] = g /\ LineOf(g, part) = 1
      BY <2>2, <2>3, BuiltinFound
    <3> QED BY <3>2, <3>3
  <2>5. \A i \in DOMAIN c.args : Argument(context, c.args[i]) = Value(context, c.args[i])
    BY <2>1 DEF Argument, Value
  <2>6. [i \in DOMAIN c.args |-> Argument(context, c.args[i])] = a
    BY <2>5 DEF ValuesOf
  <2>7. EvaluateCall(context, g, c) = Apply(g, a)
    BY <2>1, <2>6 DEF EvaluateCall
  <2>8. CallSays(context, c) = Meaning(g, a)
    BY <2>1 DEF CallSays
  <2>9. /\ Len(c.args) \in Nat /\ DOMAIN c.args = 1 .. Len(c.args)
        /\ \A i \in DOMAIN c.args : c.args[i][1] = "input" \/ c.args[i] \in JsonData
    BY <1>1, <1>3, ConditionsAssumption
  <2>10. Len(a) \in Nat /\ DOMAIN a = 1 .. Len(a)
    BY <2>9 DEF ValuesOf
  <2>11. \A i \in DOMAIN a : a[i] \in JsonData \cup {None}
    BY <2>9, ContextsAssumption DEF ValuesOf, Value, Lookup
  <2>12. Apply(g, a) <=> Meaning(g, a)
    <3> HIDE DEF g, a
    <3> QED BY <2>1, <2>2, <2>10, <2>11, MadeFor
  <2> QED BY <1>2, <1>3, <2>4, <2>7, <2>8, <2>12 DEF LineSays
<1>4. CASE c.form = "path"
  BY <1>1, <1>2, <1>4 DEF EvaluateCondition, IsPath, LineSays, SuitsLine
<1>5. CASE c.form = "text"
  <2>1. LineSays(context, c)
    BY <1>1, <1>5 DEF SuitsLine, LineSays
  <2>2. \A n : ~\E j \in DOMAIN part : Occurs(n, part[j])
    BY <1>1, <1>5 DEF Occurs
  <2>3. BuiltinAt(part) = 0
    BY <2>2 DEF BuiltinAt, SelectInSeq
  <2> QED BY <1>2, <1>5, <2>1, <2>3 DEF EvaluateCondition, IsPath
<1> QED BY <1>1, <1>3, <1>4, <1>5 DEF SuitsLine

LEMMA PlainRule ==
    ASSUME NEW context \in Contexts, NEW rule \in Rules,
           \A j \in DOMAIN rule.conditions : Suits(context, rule.conditions[j])
    PROVE  EvaluateRule(context, rule) <=> Holds(context, rule)
<1>1. rule.conditions \in Seq(Conditions)
  BY DEF Rules
<1>2. \A i \in DOMAIN rule.conditions : rule.conditions[i] \in Conditions
  BY <1>1
<1>3. \A i \in DOMAIN rule.conditions :
        EvaluateCondition(context, rule.conditions[i]) <=> Says(context, rule.conditions[i])
  BY <1>2, PlainCondition
<1> QED BY <1>3 DEF EvaluateRule, Holds

\* The engine finds a deny that holds, with no allow before it, if there is one.
LEMMA PlainDenies ==
    ASSUME NEW context \in Contexts, NEW policy \in WrittenPolicies, IsPlain(policy, context)
    PROVE  EvaluateRego(policy.rules, context) <=> ~Denies(policy, context)
<1> DEFINE rules == policy.rules
           Decides(r) == r.name \in {"deny", "allow"} /\ EvaluateRule(context, r)
           I == {i \in 1 .. Len(rules) : Decides(rules[i])}
<1>1. rules \in Seq(Rules)
  BY WrittenAssumption
<1>2. DOMAIN rules = 1 .. Len(rules) /\ I \in SUBSET Nat
  BY <1>1
<1>3. \A i \in DOMAIN rules :
        /\ rules[i] \in Rules
        /\ EvaluateRule(context, rules[i]) <=> Holds(context, rules[i])
  <2> SUFFICES ASSUME NEW i \in DOMAIN rules
               PROVE  /\ rules[i] \in Rules
                      /\ EvaluateRule(context, rules[i]) <=> Holds(context, rules[i])
    OBVIOUS
  <2>1. rules[i] \in Rules
    BY <1>1
  <2>2. \A j \in DOMAIN rules[i].conditions : Suits(context, rules[i].conditions[j])
    BY DEF IsPlain
  <2> QED BY <2>1, <2>2, PlainRule
<1>4. SelectInSeq(rules, Decides) = IF I # {} THEN Min(I) ELSE 0
  BY DEF SelectInSeq
<1>5. EvaluateRego(rules, context) <=> (I = {} \/ rules[Min(I)].name = "allow")
  <2>1. I # {} => Min(I) # 0
    <3>1. I # {} => Min(I) \in I
      BY <1>2, MinFound
    <3> QED BY <1>2, <3>1
  <2> QED BY <1>4, <2>1 DEF EvaluateRego
<1>6. CASE I = {}
  <2>1. ~Denies(policy, context)
    BY <1>2, <1>3, <1>6 DEF Denies
  <2> QED BY <1>5, <1>6, <2>1
<1>7. CASE I # {}
  <2> DEFINE m == Min(I)
  <2>1. m \in I /\ \A i \in I : m <= i
    BY <1>2, <1>7, MinFound
  <2>2. m \in DOMAIN rules /\ Holds(context, rules[m]) /\ rules[m].name \in {"deny", "allow"}
    BY <1>2, <1>3, <2>1
  <2> HIDE DEF m
  <2>3. CASE rules[m].name = "deny"
    <3>1. ASSUME NEW j \in 1 .. m - 1, rules[j].name = "allow"
          PROVE  ~Holds(context, rules[j])
      <4>1. j \in DOMAIN rules /\ ~(m <= j)
        BY <1>1, <1>2, <2>2
      <4>2. j \notin I
        BY <2>1, <4>1
      <4> QED BY <1>2, <1>3, <3>1, <4>1, <4>2
    <3>2. Denies(policy, context)
      BY <2>2, <2>3, <3>1 DEF Denies
    <3> QED BY <1>5, <1>7, <2>3, <3>2 DEF m
  <2>4. CASE rules[m].name = "allow"
    <3>1. ASSUME NEW i \in DOMAIN rules, rules[i].name = "deny", Holds(context, rules[i])
          PROVE  \E j \in 1 .. i - 1 : rules[j].name = "allow" /\ Holds(context, rules[j])
      <4>1. i \in I
        BY <1>2, <1>3, <3>1
      <4>2. m <= i /\ m # i
        BY <2>1, <2>4, <3>1, <4>1
      <4>3. m \in 1 .. i - 1
        BY <1>1, <1>2, <2>2, <3>1, <4>2
      <4> QED BY <2>2, <2>4, <4>3
    <3>2. ~Denies(policy, context)
      BY <3>1 DEF Denies
    <3> QED BY <1>5, <1>7, <2>4, <3>2 DEF m
  <2> QED BY <2>2, <2>3, <2>4
<1> QED BY <1>6, <1>7

LEMMA PolicyInitInv == PolicyInit => PolicyInv
BY DEF PolicyInit, PolicyInv, PolicyTypeOK, WrittenOrNone, VerdictEvaluated, NoVerdict

LEMMA PolicyNextInv == PolicyInv /\ [PolicyNext]_policyVars => PolicyInv'
<1> SUFFICES ASSUME PolicyInv, [PolicyNext]_policyVars PROVE PolicyInv'
  OBVIOUS
<1> USE DEF PolicyInv, PolicyTypeOK, WrittenOrNone, VerdictEvaluated
<1>1. ASSUME NEW i \in PolicyIds, NEW p \in WrittenOrNone,
             policies' = [policies EXCEPT ![i] = p], UNCHANGED verdict
      PROVE  PolicyInv'
  BY <1>1
<1>2. ASSUME NEW i \in PolicyIds, NEW p \in AddedPolicies, AddPolicyAs(i, p) PROVE PolicyInv'
  BY <1>1, <1>2, AddedAssumption DEF AddPolicyAs
<1>3. ASSUME NEW i \in PolicyIds, RemovePolicyOf(i) PROVE PolicyInv'
  BY <1>1, <1>3 DEF RemovePolicyOf
<1>4. ASSUME NEW p \in WrittenPolicies, NEW context \in Contexts, Evaluate(p, context)
      PROVE  PolicyInv'
  <2>1. /\ policies' = policies
        /\ verdict' = [policy |-> p, context |-> context, permitted |-> Evaluation(p, context)]
    BY <1>4 DEF Evaluate
  <2>2. Evaluation(p, context) \in BOOLEAN
    BY WrittenAssumption DEF Evaluation
  <2>3. /\ verdict'.policy = p /\ verdict'.context = context
        /\ verdict'.permitted = Evaluation(p, context)
    BY <2>1
  <2> QED BY <2>1, <2>2, <2>3
<1>5. CASE ActOnVerdict
  BY <1>5 DEF ActOnVerdict, NoVerdict
<1>6. CASE UNCHANGED policyVars
  BY <1>6 DEF policyVars
<1> QED BY <1>2, <1>3, <1>4, <1>5, <1>6 DEF PolicyNext

\* Every verdict is of a policy that could be written, and is what evaluating it says.
THEOREM PolicyInvariance == PolicySpec => []PolicyInv
BY PolicyInitInv, PolicyNextInv, PTL DEF PolicySpec

\* Whatever its rules, the context and the values in it: a policy every line of which
\* ends in ";" and is a path to anything but false, a call of one builtin other than neq on
\* values that builtin is made for, or text that holds, forbids what a deny rule of it
\* forbids, by the meaning of Rego, that no allow rule comes before, and nothing else.
THEOREM PlainReadRight == PolicySpec => []PlainAsWritten
<1>1. PolicyInv => PlainAsWritten
  <2> SUFFICES ASSUME PolicyInv, verdict.policy # NoPolicy,
                      IsPlain(verdict.policy, verdict.context)
               PROVE  AsWritten
    BY DEF PlainAsWritten
  <2> DEFINE p == verdict.policy
  <2>1. /\ p \in WrittenPolicies /\ verdict.context \in Contexts
        /\ verdict.permitted <=> Evaluation(p, verdict.context)
    BY DEF PolicyInv, PolicyTypeOK, WrittenOrNone, VerdictEvaluated
  <2>2. EvaluateRego(p.rules, verdict.context) <=> ~Denies(p, verdict.context)
    BY <2>1, PlainDenies
  <2>3. p.effect = "allow" <=> p.effect # "deny"
    BY <2>1, WrittenAssumption
  <2> QED BY <2>1, <2>2, <2>3 DEF AsWritten, Evaluation
<1> QED BY <1>1, PolicyInvariance, PTL

-----------------------------------------------------------------------------
(* The timestamps of a key *)

Recorded(times, ages) ==
    /\ times \in [DOMAIN times -> ages]
    /\ DOMAIN times \subseteq Stamps /\ IsFiniteSet(DOMAIN times)

LEMMA TimesRecorded ==
    ASSUME NEW times, NEW ages
    PROVE  times \in Times(ages) <=> Recorded(times, ages)
BY DEF Times, Recorded

\* What is fresh of some timestamps is those of an age below the window.
LEMMA FreshOnes ==
    ASSUME NEW times, Recorded(times, Ages)
    PROVE  /\ DOMAIN Fresh(times) = {s \in DOMAIN times : times[s] < Window}
           /\ \A s \in DOMAIN Fresh(times) : Fresh(times)[s] = times[s]
           /\ Recorded(Fresh(times), Ages \ {Window})
           /\ Recorded(Fresh(times), Ages)
           /\ Cardinality(DOMAIN Fresh(times)) <= Cardinality(DOMAIN times)
<1>1. Fresh(times) = [s \in {t \in DOMAIN times : times[t] < Window} |-> times[s]]
  BY DEF Fresh, RestrictValues, Restrict
<1> HIDE DEF Fresh
<1>2. DOMAIN Fresh(times) \subseteq DOMAIN times
  BY <1>1
<1>3. /\ IsFiniteSet(DOMAIN Fresh(times))
      /\ Cardinality(DOMAIN Fresh(times)) <= Cardinality(DOMAIN times)
  BY <1>2, FS_Subset DEF Recorded
<1>4. \A s \in DOMAIN Fresh(times) : Fresh(times)[s] \in Ages \ {Window}
  BY <1>1, WindowAssumption DEF Recorded, Ages
<1> QED BY <1>1, <1>2, <1>3, <1>4 DEF Recorded

LEMMA FreshStaysFresh ==
    ASSUME NEW times, Recorded(times, Ages \ {Window})
    PROVE  Fresh(times) = times
<1>1. \A s \in DOMAIN times : times[s] < Window
  BY WindowAssumption DEF Recorded, Ages
<1>2. Fresh(times) = [s \in DOMAIN times |-> times[s]]
  BY <1>1 DEF Fresh, RestrictValues, Restrict
<1> QED BY <1>2 DEF Recorded

\* A new timestamp is one more.
LEMMA OneMore ==
    ASSUME NEW times, Recorded(times, Ages \ {Window}), NEW s \in Stamps, s \notin DOMAIN times
    PROVE  /\ Recorded(With(times, s), Ages \ {Window}) /\ Recorded(With(times, s), Ages)
           /\ Cardinality(DOMAIN With(times, s)) = Cardinality(DOMAIN times) + 1
<1>1. DOMAIN With(times, s) = DOMAIN times \cup {s}
  BY DEF With
<1>2. /\ IsFiniteSet(DOMAIN With(times, s))
      /\ Cardinality(DOMAIN With(times, s)) = Cardinality(DOMAIN times) + 1
  BY <1>1, FS_AddElement DEF Recorded
<1>3. With(times, s) \in [DOMAIN times \cup {s} -> Ages \ {Window}]
  BY WindowAssumption DEF With, Recorded, Ages
<1> QED BY <1>1, <1>2, <1>3 DEF Recorded

\* As time passes the same ones are there, each a unit older until the window's end.
LEMMA AllLater ==
    ASSUME NEW times, Recorded(times, Ages)
    PROVE  /\ Recorded(Later(times), Ages)
           /\ DOMAIN Later(times) = DOMAIN times
           /\ \A s \in DOMAIN times :
                Later(times)[s] = IF times[s] < Window THEN times[s] + 1 ELSE times[s]
<1>1. Later(times) \in [DOMAIN times -> Ages]
  BY WindowAssumption DEF Later, Recorded, Ages
<1> QED BY <1>1 DEF Later, Recorded

\* It makes no difference to what is fresh later whether the others are dropped now.
LEMMA FreshLater ==
    ASSUME NEW times, Recorded(times, Ages)
    PROVE  Fresh(Later(Fresh(times))) = Fresh(Later(times))
<1> DEFINE f == Fresh(times)
           D == {s \in DOMAIN times : times[s] + 1 < Window}
<1>1. Recorded(f, Ages) /\ DOMAIN f = {s \in DOMAIN times : times[s] < Window}
      /\ \A s \in DOMAIN f : f[s] = times[s]
  BY FreshOnes
<1> HIDE DEF f
<1>2. \A s \in DOMAIN times : times[s] \in Ages
  BY DEF Recorded
<1>3. {s \in DOMAIN Later(f) : Later(f)[s] < Window} = D
  BY <1>1, <1>2, AllLater, WindowAssumption DEF Ages
<1>4. {s \in DOMAIN Later(times) : Later(times)[s] < Window} = D
  BY <1>2, AllLater, WindowAssumption DEF Ages
<1>5. \A s \in D : Later(f)[s] = Later(times)[s]
  <2>1. \A s \in D : s \in DOMAIN f /\ times[s] < Window
    BY <1>1, <1>2, WindowAssumption DEF Ages
  <2> QED BY <1>1, <1>2, <2>1, AllLater
<1> HIDE DEF D
<1>6. Fresh(Later(f)) = [s \in D |-> Later(f)[s]]
  BY <1>3 DEF Fresh, RestrictValues, Restrict
<1>7. Fresh(Later(times)) = [s \in D |-> Later(times)[s]]
  BY <1>4 DEF Fresh, RestrictValues, Restrict
<1> QED BY <1>5, <1>6, <1>7 DEF f

\* The oldest of some timestamps, and what Retry-After makes of it.
LEMMA OldestTold ==
    ASSUME NEW times, Recorded(times, Ages \ {Window}), DOMAIN times # {}
    PROVE  LET told == RetryAfter(times) IN
           /\ told \in 0 .. Window /\ told * Second <= Window
           /\ \A s \in DOMAIN times : times[s] + told * Second <= Window
           /\ \E s \in DOMAIN times : Window < times[s] + (told + 1) * Second /\ times[s] < Window
<1> DEFINE left == {Window - times[s] : s \in DOMAIN times}
           m == Max(Range(times))
           told == RetryAfter(times)
<1>1. \A s \in DOMAIN times : times[s] \in 0 .. Window - 1
  BY WindowAssumption DEF Recorded, Ages
<1>2. PICK s \in DOMAIN times : \A t \in DOMAIN times : Window - times[s] <= Window - times[t]
  <2>1. left \in SUBSET Nat /\ left # {}
    BY <1>1, WindowAssumption
  <2>2. Min(left) \in left /\ \A x \in left : Min(left) <= x
    <3> HIDE DEF left
    <3> QED BY <2>1, MinFound
  <2> QED BY <2>2
<1>3. times[s] \in Range(times) /\ \A x \in Range(times) : times[s] >= x
  BY <1>1, <1>2, WindowAssumption DEF Range
<1>4. m \in Range(times) /\ \A x \in Range(times) : m >= x
  BY <1>3 DEF Max
<1>5. m = times[s]
  <2>1. m \in 0 .. Window - 1 /\ times[s] \in 0 .. Window - 1
    BY <1>1, <1>4 DEF Range
  <2> QED BY <1>3, <1>4, <2>1
<1>6. told = (Window - times[s]) \div Second
  BY <1>5 DEF RetryAfter
<1> HIDE DEF told
<1>7. Window - times[s] \in 0 .. Window /\ Window - times[s] \in Nat
  BY <1>1, WindowAssumption
<1>8. /\ told \in 0 .. Window - times[s] /\ told * Second <= Window - times[s]
      /\ Window - times[s] < told * Second + Second
      /\ (told + 1) * Second = told * Second + Second /\ told * Second \in Nat
  BY <1>6, <1>7, WindowAssumption
<1>9. told \in 0 .. Window /\ told * Second <= Window
  BY <1>1, <1>8, WindowAssumption
<1>10. \A t \in DOMAIN times : times[t] + told * Second <= Window
  <2> DEFINE d == told * Second
  <2>1. d \in Nat /\ d <= Window - times[s]
    BY <1>8
  <2> HIDE DEF d
  <2>2. \A t \in DOMAIN times : times[t] + d <= Window
    BY <1>1, <1>2, <2>1, WindowAssumption
  <2> QED BY <2>2 DEF d
<1>11. Window < times[s] + (told + 1) * Second /\ times[s] < Window
  BY <1>1, <1>8, WindowAssumption
<1> QED BY <1>9, <1>10, <1>11 DEF told
-----------------------------------------------------------------------------
(* The limit *)

\* What is new to a key is new to what it was allowed.
LEMMA NewStampIsNew ==
    ASSUME LimiterInv, NEW k \in Keys
    PROVE  /\ NewStamp(k) \in Stamps
           /\ NewStamp(k) \notin DOMAIN requests[k] /\ NewStamp(k) \notin DOMAIN admitted[k]
<1>1. Recorded(requests[k], Ages) /\ Cardinality(DOMAIN requests[k]) <= RequestsPerWindow
  BY TimesRecorded DEF LimiterInv, LimiterTypeOK, WithinLimit
<1>2. DOMAIN requests[k] \cup DOMAIN admitted[k] = DOMAIN requests[k]
  BY <1>1, FreshOnes DEF LimiterInv, AdmittedRecorded
<1>3. DOMAIN requests[k] \in SUBSET Stamps /\ DOMAIN requests[k] # Stamps
  BY <1>1, StampsAssumption DEF Recorded
<1>4. \E s \in Stamps : s \notin DOMAIN requests[k] \cup DOMAIN admitted[k]
  BY <1>2, <1>3
<1> QED BY <1>4 DEF NewStamp

\* What an answer leaves recorded, and allowed, for the key.
LEMMA AskEffect ==
    ASSUME LimiterInv, NEW c \in Clients, NEW k \in Keys, Ask(c, k)
    PROVE  LET times == Fresh(requests[k]) IN
           \/ /\ Full(times) /\ Refuse(c, k, times)
           \/ /\ ~Full(times) /\ Allow(c, k, times)
              /\ requests'[k] = With(times, NewStamp(k))
              /\ admitted'[k] = With(times, NewStamp(k))
<1>1. DOMAIN requests = Keys /\ DOMAIN admitted = Keys /\ admitted[k] = Fresh(requests[k])
  BY DEF LimiterInv, LimiterTypeOK, AdmittedRecorded
<1>2. CASE Full(Fresh(requests[k]))
  BY <1>2 DEF Ask
<1>3. CASE ~Full(Fresh(requests[k]))
  <2>1. Allow(c, k, Fresh(requests[k]))
    BY <1>3 DEF Ask
  <2> QED BY <1>1, <1>3, <2>1 DEF Allow
<1> QED BY <1>2, <1>3

\* The timestamps of one key change, the others stay.
LEMMA OneKeyKeeps ==
    ASSUME LimiterInv, NEW k \in Keys, NEW times, NEW allowed,
           requests' = [requests EXCEPT ![k] = times], admitted' = [admitted EXCEPT ![k] = allowed],
           Recorded(times, Ages), Recorded(allowed, Ages \ {Window}),
           Cardinality(DOMAIN times) <= RequestsPerWindow, allowed = Fresh(times)
    PROVE  /\ requests' \in [Keys -> Times(Ages)] /\ admitted' \in [Keys -> Times(Ages \ {Window})]
           /\ WithinLimit' /\ AdmittedRecorded'
<1>1. /\ requests'[k] = times /\ admitted'[k] = allowed
      /\ \A j \in Keys \ {k} : requests'[j] = requests[j] /\ admitted'[j] = admitted[j]
  BY DEF LimiterInv, LimiterTypeOK
<1>2. requests' \in [Keys -> Times(Ages)] /\ admitted' \in [Keys -> Times(Ages \ {Window})]
  <2>1. times \in Times(Ages) /\ allowed \in Times(Ages \ {Window})
    BY TimesRecorded
  <2> QED BY <2>1 DEF LimiterInv, LimiterTypeOK
<1>3. WithinLimit'
  BY <1>1 DEF LimiterInv, WithinLimit
<1>4. \A j \in Keys : admitted'[j] = Fresh(requests'[j])
  BY <1>1 DEF LimiterInv, AdmittedRecorded
<1>5. AdmittedRecorded'
  BY <1>4 DEF AdmittedRecorded, Fresh, RestrictValues, Restrict
<1> QED BY <1>1, <1>2, <1>3, <1>5

\* An answer, whichever it is, leaves no more than the limit, and all that counts.
LEMMA AskKeeps ==
    ASSUME LimiterInv, NEW c \in Clients, NEW k \in Keys, Ask(c, k)
    PROVE  /\ requests' \in [Keys -> Times(Ages)] /\ admitted' \in [Keys -> Times(Ages \ {Window})]
           /\ WithinLimit' /\ AdmittedRecorded'
<1> DEFINE times == Fresh(requests[k])
<1>1. Recorded(requests[k], Ages) /\ Cardinality(DOMAIN requests[k]) <= RequestsPerWindow
      /\ admitted[k] = times /\ admitted \in [Keys -> Times(Ages \ {Window})]
  BY TimesRecorded DEF LimiterInv, LimiterTypeOK, WithinLimit, AdmittedRecorded
<1>2. /\ Recorded(times, Ages \ {Window}) /\ Recorded(times, Ages) /\ Fresh(times) = times
      /\ Cardinality(DOMAIN times) <= Cardinality(DOMAIN requests[k])
      /\ DOMAIN times \subseteq DOMAIN requests[k]
  BY <1>1, FreshOnes, FreshStaysFresh
<1>3. Cardinality(DOMAIN times) \in Nat /\ Cardinality(DOMAIN requests[k]) \in Nat
  BY <1>1, <1>2, FS_CardinalityType DEF Recorded
<1> HIDE DEF times
<1>4. CASE Refuse(c, k, times)
  <2>1. requests' = [requests EXCEPT ![k] = times] /\ admitted' = [admitted EXCEPT ![k] = times]
    BY <1>1, <1>4 DEF Refuse, Times
  <2>2. Cardinality(DOMAIN times) <= RequestsPerWindow
    BY <1>1, <1>2, <1>3, LimitAssumption
  <2> QED BY <1>2, <2>1, <2>2, OneKeyKeeps
<1>5. CASE ~Full(times) /\ Allow(c, k, times)
  <2> DEFINE new == With(times, NewStamp(k))
  <2>1. requests' = [requests EXCEPT ![k] = new] /\ admitted' = [admitted EXCEPT ![k] = new]
    BY <1>1, <1>5 DEF Allow
  <2>2. NewStamp(k) \in Stamps /\ NewStamp(k) \notin DOMAIN times
    BY <1>2, NewStampIsNew
  <2>3. /\ Recorded(new, Ages \ {Window}) /\ Recorded(new, Ages)
        /\ Cardinality(DOMAIN new) = Cardinality(DOMAIN times) + 1
    BY <1>2, <2>2, OneMore
  <2> HIDE DEF new
  <2>4. Cardinality(DOMAIN new) <= RequestsPerWindow
    BY <1>3, <1>5, <2>3, LimitAssumption DEF Full
  <2>5. new = Fresh(new)
    BY <2>3, FreshStaysFresh
  <2> QED BY <2>1, <2>3, <2>4, <2>5, OneKeyKeeps
<1> QED BY <1>4, <1>5, AskEffect DEF times

\* As time passes what counts of the requests is what counts of what was allowed.
LEMMA TickKeeps ==
    ASSUME LimiterInv, Tick
    PROVE  /\ requests' \in [Keys -> Times(Ages)] /\ admitted' \in [Keys -> Times(Ages \ {Window})]
           /\ WithinLimit' /\ AdmittedRecorded'
<1>1. /\ requests' = [k \in Keys |-> requests'[k]] /\ admitted' = [k \in Keys |-> admitted'[k]]
      /\ \A k \in Keys : /\ requests'[k] = Later(requests[k])
                          /\ admitted'[k] = Fresh(Later(admitted[k]))
  BY DEF Tick
<1>2. ASSUME NEW k \in Keys
      PROVE  /\ requests'[k] \in Times(Ages) /\ admitted'[k] \in Times(Ages \ {Window})
             /\ Cardinality(DOMAIN requests'[k]) <= RequestsPerWindow
             /\ admitted'[k] = Fresh(requests'[k])
  <2>1. /\ Recorded(requests[k], Ages) /\ admitted[k] = Fresh(requests[k])
        /\ Cardinality(DOMAIN requests[k]) <= RequestsPerWindow
    BY TimesRecorded DEF LimiterInv, LimiterTypeOK, WithinLimit, AdmittedRecorded
  <2>2. Recorded(Later(requests[k]), Ages) /\ DOMAIN Later(requests[k]) = DOMAIN requests[k]
    BY <2>1, AllLater
  <2>3. admitted'[k] = Fresh(Later(requests[k]))
    BY <1>1, <2>1, FreshLater
  <2>4. Recorded(Fresh(Later(requests[k])), Ages \ {Window})
    BY <2>2, FreshOnes
  <2> QED BY <1>1, <2>1, <2>2, <2>3, <2>4, TimesRecorded
<1>3. WithinLimit'
  BY <1>2 DEF WithinLimit
<1>4. AdmittedRecorded'
  BY <1>2 DEF AdmittedRecorded, Fresh, RestrictValues, Restrict
<1> QED BY <1>1, <1>2, <1>3, <1>4

LEMMA ResetKeeps ==
    ASSUME LimiterInv, NEW K \in SUBSET Keys, Reset(K)
    PROVE  /\ requests' \in [Keys -> Times(Ages)] /\ admitted' \in [Keys -> Times(Ages \ {Window})]
           /\ WithinLimit' /\ AdmittedRecorded'
<1>1. /\ requests' = [k \in Keys |-> requests'[k]] /\ admitted' = [k \in Keys |-> admitted'[k]]
      /\ \A k \in Keys : \/ (requests'[k] = NoTimes /\ admitted'[k] = NoTimes)
                          \/ (requests'[k] = requests[k] /\ admitted'[k] = admitted[k])
  BY DEF Reset
<1>2. /\ Recorded(NoTimes, Ages) /\ Recorded(NoTimes, Ages \ {Window})
      /\ Cardinality(DOMAIN NoTimes) <= RequestsPerWindow
  BY FS_EmptySet, LimitAssumption DEF NoTimes, Recorded
<1>3. Fresh(NoTimes) = NoTimes
  BY <1>2, FreshStaysFresh
<1>4. ASSUME NEW k \in Keys
      PROVE  /\ requests'[k] \in Times(Ages) /\ admitted'[k] \in Times(Ages \ {Window})
             /\ Cardinality(DOMAIN requests'[k]) <= RequestsPerWindow
             /\ admitted'[k] = Fresh(requests'[k])
  BY <1>1, <1>2, <1>3, TimesRecorded DEF LimiterInv, LimiterTypeOK, WithinLimit, AdmittedRecorded
<1>5. WithinLimit'
  BY <1>4 DEF WithinLimit
<1>6. AdmittedRecorded'
  BY <1>4 DEF AdmittedRecorded, Fresh, RestrictValues, Restrict
<1> QED BY <1>1, <1>4, <1>5, <1>6
-----------------------------------------------------------------------------
(* Retry-After *)

\* The counts of some timestamps.
LEMMA CountTyped ==
    ASSUME NEW times, Recorded(times, Ages)
    PROVE  /\ Cardinality(DOMAIN times) \in Nat /\ Cardinality(DOMAIN Fresh(times)) \in Nat
           /\ Cardinality(DOMAIN Fresh(times)) <= Cardinality(DOMAIN times)
BY FreshOnes, FS_CardinalityType DEF Recorded

\* A refusal says what it can of the requests it was made for.
LEMMA RefusedStands ==
    ASSUME NEW times, Recorded(times, Ages \ {Window}), Full(times), NEW r \in Refusal,
           r.told = RetryAfter(times), r.waited = 0
    PROVE  Stands(r, times)
<1>1. DOMAIN times # {}
  <2>1. Cardinality({}) = 0
    BY FS_EmptySet
  <2> QED BY <2>1, LimitAssumption DEF Full
<1>2. /\ r.told * Second <= Window
      /\ \A s \in DOMAIN times : times[s] + r.told * Second <= Window
      /\ \E s \in DOMAIN times : Window < times[s] + (r.told + 1) * Second /\ times[s] < Window
  BY <1>1, OldestTold
<1>3. Window + r.waited = Window
  BY WindowAssumption
<1> QED BY <1>2, <1>3 DEF Stands

\* It stands when the requests that no longer count are dropped ...
LEMMA StandsFresh ==
    ASSUME NEW times, Recorded(times, Ages), NEW r \in Refusal, Stands(r, times)
    PROVE  Stands(r, Fresh(times))
<1> DEFINE f == Fresh(times)
           d == r.told * Second
<1>1. /\ DOMAIN f = {s \in DOMAIN times : times[s] < Window}
      /\ \A s \in DOMAIN f : f[s] = times[s]
      /\ Fresh(f) = f
  BY FreshOnes, FreshStaysFresh
<1>2. d \in Nat /\ r.waited \in Nat /\ Window \in Nat /\ \A s \in DOMAIN times : times[s] \in Nat
  BY WindowAssumption DEF Refusal, MaxWait, Recorded, Ages
<1>3. r.waited < d => Full(f) /\ \A s \in DOMAIN f : f[s] + d <= Window + r.waited
  <2> SUFFICES ASSUME r.waited < d
               PROVE  Full(f) /\ \A s \in DOMAIN f : f[s] + d <= Window + r.waited
    OBVIOUS
  <2>1. Full(times) /\ \A s \in DOMAIN times : times[s] + d <= Window + r.waited
    BY DEF Stands
  <2> HIDE DEF d
  <2>2. \A s \in DOMAIN times : times[s] < Window
    BY <1>2, <2>1
  <2>3. DOMAIN f = DOMAIN times
    BY <1>1, <2>2
  <2> HIDE DEF f
  <2> QED BY <1>1, <2>1, <2>3 DEF Full
<1>4. \/ ~Full(Fresh(f))
      \/ \E s \in DOMAIN f :
           Window + r.waited < f[s] + (r.told + 1) * Second /\ f[s] < Window
  BY <1>1 DEF Stands
<1> QED BY <1>3, <1>4 DEF Stands

\* ... and as time passes.
LEMMA StandsLater ==
    ASSUME NEW times, Recorded(times, Ages), Cardinality(DOMAIN times) <= RequestsPerWindow,
           NEW r \in Refusal, r.key # NoKey, Stands(r, times)
    PROVE  Stands(Waits(r), Later(times))
<1> DEFINE t == Later(times)
           d == r.told * Second
           w == Waits(r)
<1>1. /\ Recorded(t, Ages) /\ DOMAIN t = DOMAIN times
      /\ \A s \in DOMAIN times : t[s] = IF times[s] < Window THEN times[s] + 1 ELSE times[s]
  BY AllLater
<1>2. /\ d \in Nat /\ r.waited \in 0 .. MaxWait /\ Window \in Nat /\ Second \in Nat
      /\ \A s \in DOMAIN times : times[s] \in 0 .. Window
      /\ (r.told + 1) * Second = d + Second /\ MaxWait = Window + Second
  BY WindowAssumption DEF Refusal, MaxWait, Recorded, Ages
<1>3. /\ d <= Window
      /\ r.waited < d => Full(times) /\ \A s \in DOMAIN times : times[s] + d <= Window + r.waited
      /\ ~Full(Fresh(times)) \/ \E s \in DOMAIN times :
           Window + r.waited < times[s] + (d + Second) /\ times[s] < Window
  BY <1>2 DEF Stands
<1>4. /\ w.told = r.told
      /\ w.waited = IF r.waited = MaxWait THEN r.waited ELSE r.waited + 1
  BY DEF Waits, Refusal
<1> HIDE DEF t, w, d
<1>5. w.waited < d => Full(t) /\ \A s \in DOMAIN t : t[s] + d <= Window + w.waited
  <2> SUFFICES ASSUME w.waited < d
               PROVE  Full(t) /\ \A s \in DOMAIN t : t[s] + d <= Window + w.waited
    OBVIOUS
  <2>1. w.waited = r.waited + 1 /\ r.waited < d
    BY <1>2, <1>3, <1>4, WindowAssumption
  <2>2. Full(times) /\ \A s \in DOMAIN times : times[s] + d <= Window + r.waited
    BY <1>3, <2>1
  <2>3. \A s \in DOMAIN t : t[s] + d <= Window + w.waited
    BY <1>1, <1>2, <2>1, <2>2
  <2>4. Full(t)
    BY <1>1, <2>2 DEF Full
  <2> QED BY <2>3, <2>4
<1>6. DOMAIN Fresh(t) \subseteq DOMAIN Fresh(times)
  <2>1. DOMAIN Fresh(t) = {s \in DOMAIN t : t[s] < Window}
    BY <1>1, FreshOnes
  <2>2. DOMAIN Fresh(times) = {s \in DOMAIN times : times[s] < Window}
    BY FreshOnes
  <2> QED BY <1>1, <1>2, <2>1, <2>2
<1>7. \/ ~Full(Fresh(t))
      \/ \E s \in DOMAIN t : Window + w.waited < t[s] + (d + Second) /\ t[s] < Window
  <2>1. CASE ~Full(Fresh(times))
    <3>1. IsFiniteSet(DOMAIN Fresh(times))
      BY FreshOnes DEF Recorded
    <3>2. /\ Cardinality(DOMAIN Fresh(t)) <= Cardinality(DOMAIN Fresh(times))
          /\ Cardinality(DOMAIN Fresh(t)) \in Nat /\ Cardinality(DOMAIN Fresh(times)) \in Nat
      BY <1>1, <1>6, <3>1, FS_Subset, CountTyped
    <3> QED BY <2>1, <3>2, LimitAssumption DEF Full
  <2>2. ASSUME NEW s \in DOMAIN times, Window + r.waited < times[s] + (d + Second),
               times[s] < Window, ~(t[s] < Window)
        PROVE  ~Full(Fresh(t))
    <3>1. DOMAIN Fresh(t) \subseteq DOMAIN times \ {s}
      <4>1. DOMAIN Fresh(t) = {u \in DOMAIN t : t[u] < Window}
        BY <1>1, FreshOnes
      <4> QED BY <1>1, <2>2, <4>1
    <3>2. IsFiniteSet(DOMAIN times)
      BY DEF Recorded
    <3>3. /\ IsFiniteSet(DOMAIN times \ {s})
          /\ Cardinality(DOMAIN times \ {s}) = Cardinality(DOMAIN times) - 1
      BY <3>2, FS_RemoveElement
    <3>4. Cardinality(DOMAIN Fresh(t)) <= Cardinality(DOMAIN times \ {s})
      BY <3>1, <3>3, FS_Subset
    <3>5. Cardinality(DOMAIN Fresh(t)) \in Nat /\ Cardinality(DOMAIN times) \in Nat
      BY <1>1, CountTyped
    <3> QED BY <3>3, <3>4, <3>5, LimitAssumption DEF Full
  <2>3. ASSUME NEW s \in DOMAIN times, Window + r.waited < times[s] + (d + Second),
               times[s] < Window, t[s] < Window
        PROVE  Window + w.waited < t[s] + (d + Second)
    <3>1. t[s] = times[s] + 1 /\ times[s] \in Nat
      BY <1>1, <1>2, <2>3
    <3> QED BY <1>2, <1>4, <2>3, <3>1
  <2> QED BY <1>1, <1>3, <2>1, <2>2, <2>3
<1>8. (w.told + 1) * Second = d + Second /\ w.told * Second = d
  BY <1>2, <1>4 DEF d
<1> QED BY <1>3, <1>5, <1>7, <1>8 DEF Stands, t, w
\* A disturbed refusal is none to count on; the others stay as they are.
LEMMA Disturbed ==
    ASSUME LimiterInv, NEW K \in SUBSET Keys
    PROVE  /\ Disturb(K) \in [Clients -> Refusal]
           /\ \A c \in Clients :
                \/ /\ refusal[c].key \in K /\ ~Disturb(K)[c].alone
                \/ refusal[c].key \notin K /\ Disturb(K)[c] = refusal[c]
<1>1. refusal \in [Clients -> Refusal]
  BY DEF LimiterInv, LimiterTypeOK
<1>2. \A r \in Refusal : [r EXCEPT !.alone = FALSE] \in Refusal /\ ~[r EXCEPT !.alone = FALSE].alone
  BY DEF Refusal
<1> QED BY <1>1, <1>2 DEF Disturb

\* Refusals keep their type, and stand until they are disturbed.
LEMMA RefusalTick ==
    ASSUME LimiterInv, Tick
    PROVE  refusal' \in [Clients -> Refusal] /\ RefusalStands'
<1>1. ASSUME NEW r \in Refusal
      PROVE  Waits(r) \in Refusal /\ Waits(r).key = r.key /\ Waits(r).alone = r.alone
  <2>1. r.waited # MaxWait => r.waited + 1 \in 0 .. MaxWait
    BY WindowAssumption DEF Refusal, MaxWait
  <2> QED BY <2>1 DEF Waits, Refusal
<1>2. refusal \in [Clients -> Refusal] /\ \A c \in Clients : refusal'[c] = Waits(refusal[c])
  BY DEF Tick, LimiterInv, LimiterTypeOK
<1>3. refusal' \in [Clients -> Refusal]
  BY <1>1, <1>2 DEF Tick
<1>4. ASSUME NEW c \in Clients, refusal'[c].key # NoKey, refusal'[c].alone
      PROVE  Stands(refusal'[c], requests'[refusal'[c].key])
  <2> DEFINE r == refusal[c]
  <2>1. r \in Refusal /\ refusal'[c] = Waits(r) /\ refusal'[c].key = r.key
        /\ r.key # NoKey /\ r.alone
    BY <1>1, <1>2, <1>4
  <2>2. r.key \in Keys
    BY <2>1 DEF Refusal
  <2>3. Stands(r, requests[r.key])
    BY <2>1 DEF LimiterInv, RefusalStands
  <2>4. /\ Recorded(requests[r.key], Ages)
        /\ Cardinality(DOMAIN requests[r.key]) <= RequestsPerWindow
        /\ requests'[r.key] = Later(requests[r.key])
    BY <2>2, TimesRecorded DEF LimiterInv, LimiterTypeOK, WithinLimit, Tick
  <2> QED BY <2>1, <2>3, <2>4, StandsLater
<1> QED BY <1>3, <1>4 DEF RefusalStands, Stands, Full, Fresh, RestrictValues, Restrict

LEMMA RefusalReset ==
    ASSUME LimiterInv, NEW K \in SUBSET Keys, Reset(K)
    PROVE  refusal' \in [Clients -> Refusal] /\ RefusalStands'
<1>1. refusal' = Disturb(K) /\ refusal \in [Clients -> Refusal]
      /\ \A k \in Keys \ K : requests'[k] = requests[k]
  BY DEF Reset, LimiterInv, LimiterTypeOK
<1>2. ASSUME NEW c \in Clients, refusal'[c].key # NoKey, refusal'[c].alone
      PROVE  Stands(refusal'[c], requests'[refusal'[c].key])
  <2>1. refusal'[c] = refusal[c] /\ refusal[c].key \in Keys \ K
    BY <1>1, <1>2, Disturbed DEF Refusal
  <2> QED BY <1>1, <1>2, <2>1 DEF LimiterInv, RefusalStands
<1>3. refusal' \in [Clients -> Refusal]
  BY <1>1, Disturbed
<1> QED BY <1>2, <1>3 DEF RefusalStands, Stands, Full, Fresh, RestrictValues, Restrict

LEMMA RefusalAsk ==
    ASSUME LimiterInv, NEW c \in Clients, NEW k \in Keys, Ask(c, k)
    PROVE  refusal' \in [Clients -> Refusal] /\ RefusalStands'
<1> DEFINE times == Fresh(requests[k])
<1>1. /\ refusal \in [Clients -> Refusal] /\ DOMAIN requests = Keys
      /\ \A j \in Keys : Recorded(requests[j], Ages)
  BY TimesRecorded DEF LimiterInv, LimiterTypeOK
<1>2. Recorded(times, Ages \ {Window})
  BY <1>1, FreshOnes
<1> HIDE DEF times
<1>3. CASE Full(times) /\ Refuse(c, k, times)
  <2> DEFINE new == [key |-> k, told |-> RetryAfter(times), waited |-> 0, alone |-> TRUE]
  <2>1. refusal' = [refusal EXCEPT ![c] = new] /\ requests' = [requests EXCEPT ![k] = times]
    BY <1>3 DEF Refuse
  <2>2. RetryAfter(times) \in 0 .. Window
    <3>1. Cardinality({}) = 0
      BY FS_EmptySet
    <3>2. DOMAIN times # {}
      BY <1>3, <3>1, LimitAssumption DEF Full
    <3> QED BY <1>2, <3>2, OldestTold
  <2>3. new \in Refusal /\ new.told = RetryAfter(times) /\ new.waited = 0 /\ new.key = k
    BY <2>2, WindowAssumption DEF Refusal, MaxWait
  <2> HIDE DEF new
  <2>4. Stands(new, times)
    BY <1>2, <1>3, <2>3, RefusedStands
  <2>5. ASSUME NEW d \in Clients, refusal'[d].key # NoKey, refusal'[d].alone
        PROVE  Stands(refusal'[d], requests'[refusal'[d].key])
    <3>1. CASE d = c
      <4>1. refusal'[d] = new /\ requests'[k] = times
        BY <1>1, <2>1, <3>1
      <4> QED BY <2>3, <2>4, <4>1
    <3>2. CASE d # c
      <4>1. refusal'[d] = refusal[d] /\ refusal[d] \in Refusal /\ refusal[d].key \in Keys
        BY <1>1, <2>1, <2>5, <3>2 DEF Refusal
      <4>2. Stands(refusal[d], requests[refusal[d].key])
        BY <2>5, <4>1 DEF LimiterInv, RefusalStands
      <4>3. CASE refusal[d].key = k
        <5>1. requests'[k] = times /\ Stands(refusal[d], Fresh(requests[k]))
          BY <1>1, <2>1, <4>1, <4>2, <4>3, StandsFresh
        <5> QED BY <4>1, <4>3, <5>1 DEF times
      <4>4. CASE refusal[d].key # k
        BY <1>1, <2>1, <4>1, <4>2, <4>4
      <4> QED BY <4>3, <4>4
    <3> QED BY <3>1, <3>2
  <2>6. refusal' \in [Clients -> Refusal]
    BY <1>1, <2>1, <2>3
  <2> QED BY <2>5, <2>6 DEF RefusalStands, Stands, Full, Fresh, RestrictValues, Restrict
<1>4. CASE Allow(c, k, times)
  <2>1. /\ refusal' = [Disturb({k}) EXCEPT ![c] = NotRefused]
        /\ \A j \in Keys \ {k} : requests'[j] = requests[j]
    BY <1>1, <1>4 DEF Allow
  <2>2. NotRefused \in Refusal /\ NotRefused.key = NoKey
    BY WindowAssumption DEF NotRefused, Refusal, MaxWait
  <2>3. /\ Disturb({k}) \in [Clients -> Refusal]
        /\ \A d \in Clients :
             \/ /\ refusal[d].key \in {k} /\ ~Disturb({k})[d].alone
             \/ refusal[d].key \notin {k} /\ Disturb({k})[d] = refusal[d]
    BY Disturbed
  <2>4. refusal' \in [Clients -> Refusal]
    BY <2>1, <2>2, <2>3
  <2>5. ASSUME NEW d \in Clients, refusal'[d].key # NoKey, refusal'[d].alone
        PROVE  Stands(refusal'[d], requests'[refusal'[d].key])
    <3>1. d # c /\ refusal'[d] = Disturb({k})[d]
      BY <2>1, <2>2, <2>3, <2>5
    <3>2. refusal'[d] = refusal[d] /\ refusal[d].key # k
      BY <2>3, <2>5, <3>1
    <3>3. refusal[d].key \in Keys \ {k}
      BY <1>1, <2>5, <3>2 DEF Refusal
    <3> QED BY <2>1, <2>5, <3>2, <3>3 DEF LimiterInv, RefusalStands
  <2> QED BY <2>4, <2>5 DEF RefusalStands, Stands, Full, Fresh, RestrictValues, Restrict
<1> QED BY <1>3, <1>4, AskEffect DEF times

-----------------------------------------------------------------------------
(* Theorems about the limiter *)

LEMMA LimiterInitInv == LimiterInit => LimiterInv
<1> SUFFICES ASSUME LimiterInit PROVE LimiterInv
  OBVIOUS
<1>1. /\ Recorded(NoTimes, Ages) /\ Recorded(NoTimes, Ages \ {Window})
      /\ Cardinality(DOMAIN NoTimes) <= RequestsPerWindow
  BY FS_EmptySet, LimitAssumption DEF NoTimes, Recorded
<1>2. NoTimes \in Times(Ages) /\ NoTimes \in Times(Ages \ {Window}) /\ Fresh(NoTimes) = NoTimes
  BY <1>1, TimesRecorded, FreshStaysFresh
<1>3. NotRefused \in Refusal /\ NotRefused.key = NoKey
  BY WindowAssumption DEF NotRefused, Refusal, MaxWait
<1>4. LimiterTypeOK
  BY <1>2, <1>3 DEF LimiterInit, LimiterTypeOK
<1>5. WithinLimit /\ AdmittedRecorded
  BY <1>1, <1>2 DEF LimiterInit, WithinLimit, AdmittedRecorded
<1>6. RefusalStands
  BY <1>3 DEF LimiterInit, RefusalStands
<1> QED BY <1>4, <1>5, <1>6 DEF LimiterInv

LEMMA LimiterNextInv == LimiterInv /\ [LimiterNext]_limiterVars => LimiterInv'
<1> SUFFICES ASSUME LimiterInv, [LimiterNext]_limiterVars PROVE LimiterInv'
  OBVIOUS
<1> USE DEF LimiterInv, LimiterTypeOK
<1>1. CASE Tick
  BY <1>1, TickKeeps, RefusalTick DEF Times, Ages, Refusal, MaxWait
<1>2. ASSUME NEW c \in Clients, NEW k \in Keys, Ask(c, k) PROVE LimiterInv'
  BY <1>2, AskKeeps, RefusalAsk DEF Times, Ages, Refusal, MaxWait
<1>3. ASSUME NEW K \in SUBSET Keys, Reset(K) PROVE LimiterInv'
  BY <1>3, ResetKeeps, RefusalReset DEF Times, Ages, Refusal, MaxWait
<1>4. CASE UNCHANGED limiterVars
  <2>1. requests' = requests /\ admitted' = admitted /\ refusal' = refusal
    BY <1>4 DEF limiterVars
  <2>2. LimiterTypeOK' /\ WithinLimit'
    BY <2>1 DEF WithinLimit, Times, Ages, Refusal, MaxWait
  <2>3. AdmittedRecorded'
    BY <2>1 DEF AdmittedRecorded, Fresh, RestrictValues, Restrict
  <2>4. RefusalStands'
    BY <2>1 DEF RefusalStands, Stands, Full, Fresh, RestrictValues, Restrict
  <2> QED BY <2>2, <2>3, <2>4
<1>5. ASSUME NEW k \in Keys, Reset({k}) PROVE LimiterInv'
  BY <1>3, <1>5
<1> QED BY <1>1, <1>2, <1>3, <1>4, <1>5 DEF LimiterNext

\* What counts against a session is what it was allowed within the window, and what an
\* undisturbed client was told is still true.
THEOREM LimiterInvariance == LimiterSpec => []LimiterInv
BY LimiterInitInv, LimiterNextInv, PTL DEF LimiterSpec

\* The limiter's state keeps its type.
THEOREM LimiterTypeCorrect == LimiterSpec => []LimiterTypeOK
BY LimiterInvariance, PTL DEF LimiterInv

\* Whatever the limit, the window and the clients, no window of any session holds more
\* requests that were let through than the limit, unless the session is reset.
THEOREM LimitHolds == LimiterSpec => []WindowRespected
<1>1. LimiterInv => WindowRespected
  <2> SUFFICES ASSUME LimiterInv, NEW k \in Keys
               PROVE  Cardinality(DOMAIN admitted[k]) <= RequestsPerWindow
    BY DEF WindowRespected
  <2>1. /\ Recorded(requests[k], Ages) /\ admitted[k] = Fresh(requests[k])
        /\ Cardinality(DOMAIN requests[k]) <= RequestsPerWindow
    BY TimesRecorded DEF LimiterInv, LimiterTypeOK, AdmittedRecorded, WithinLimit
  <2> QED BY <2>1, CountTyped, LimitAssumption
<1> QED BY <1>1, LimiterInvariance, PTL

\* Whoever is refused, and whatever other clients are refused meanwhile, Retry-After is
\* right to the second it is truncated to, for any window and limit.
THEOREM RetryAfterHolds == LimiterSpec => RetryAfterRight
<1>1. ASSUME LimiterInv, NEW c \in Clients, NEW k \in Keys, Ask(c, k),
             refusal[c].key = k, refusal[c].alone
      PROVE  /\ refusal[c].waited < refusal[c].told * Second => UNCHANGED admitted
             /\ refusal[c].waited >= (refusal[c].told + 1) * Second =>
                  DOMAIN admitted[k] \subseteq DOMAIN admitted'[k]
                  /\ DOMAIN admitted'[k] # DOMAIN admitted[k]
  <2> DEFINE r == refusal[c]
             times == requests[k]
             d == r.told * Second
  <2>1. /\ r \in Refusal /\ Stands(r, times) /\ Recorded(times, Ages) /\ admitted[k] = Fresh(times)
    BY <1>1, NoKeyAssumption, TimesRecorded DEF LimiterInv, LimiterTypeOK, RefusalStands,
                                                AdmittedRecorded
  <2>2. /\ d \in Nat /\ r.waited \in Nat /\ Window \in Nat /\ (r.told + 1) * Second = d + Second
        /\ \A s \in DOMAIN times : times[s] \in 0 .. Window
    BY <2>1, WindowAssumption DEF Refusal, MaxWait, Recorded, Ages
  <2>3. ASSUME r.waited < d PROVE UNCHANGED admitted
    <3>1. Stands(r, Fresh(times))
      BY <2>1, StandsFresh
    <3>2. Full(Fresh(times))
      BY <2>3, <3>1 DEF Stands
    <3> QED BY <1>1, <3>2 DEF Ask, Refuse
  <2>4. ASSUME r.waited >= d + Second
        PROVE  DOMAIN admitted[k] \subseteq DOMAIN admitted'[k]
               /\ DOMAIN admitted'[k] # DOMAIN admitted[k]
    <3>1. ~Full(Fresh(times))
      <4>1. ~Full(Fresh(times)) \/ \E s \in DOMAIN times : Window + r.waited < times[s] + (d + Second)
        BY <2>1, <2>2 DEF Stands
      <4>2. \A s \in DOMAIN times : ~(Window + r.waited < times[s] + (d + Second))
        <5> HIDE DEF d
        <5> QED BY <2>2, <2>4, WindowAssumption
      <4> QED BY <4>1, <4>2
    <3>2. admitted'[k] = With(Fresh(times), NewStamp(k))
      BY <1>1, <3>1, AskEffect
    <3>3. NewStamp(k) \notin DOMAIN admitted[k]
      BY <1>1, NewStampIsNew
    <3> QED BY <2>1, <3>2, <3>3 DEF With
  <2> HIDE DEF d
  <2> QED BY <2>2, <2>3, <2>4 DEF d
<1>2. LimiterInv /\ [LimiterNext]_limiterVars =>
        [\A c \in Clients, k \in Keys :
           Ask(c, k) /\ refusal[c].key = k /\ refusal[c].alone =>
             /\ refusal[c].waited < refusal[c].told * Second => UNCHANGED admitted
             /\ refusal[c].waited >= (refusal[c].told + 1) * Second =>
                  DOMAIN admitted[k] \subseteq DOMAIN admitted'[k]
                  /\ DOMAIN admitted'[k] # DOMAIN admitted[k]]_limiterVars
  BY <1>1
<1> QED BY <1>2, LimiterInvariance, PTL DEF LimiterSpec, RetryAfterRight
=============================================================================
