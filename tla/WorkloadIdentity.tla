-------------------------- MODULE WorkloadIdentity --------------------------
(***************************************************************************)
(* SPIFFEController, which caches one identity for all its callers, and    *)
(* the callers: get_jwt_token, inject_credentials and get_tls_config.      *)
(* Time is told by the life an identity has left.  The fetch in the code   *)
(* stands in for the SPIRE agent and answers at once; the await before it  *)
(* is modelled as the call to an agent it is written for, which may be     *)
(* slow, answer out of order or fail.                                      *)
(***************************************************************************)
EXTENDS Integers

CONSTANTS
    Askers,         \* the coroutines that ask for an identity
    Audiences,
    Lifetime,       \* of a new identity: 3600 seconds
    Margin,         \* 300 seconds
    NoAudience

ASSUME NoAudienceAssumption == NoAudience \notin Audiences
ASSUME LifetimeAssumption   == Lifetime \in Nat /\ Margin \in Nat /\ Margin < Lifetime

VARIABLES
    cached,         \* _cached_identity
    asker           \* what each of them awaits, or was last given

identityVars == <<cached, asker>>

Identity == [audience : Audiences \cup {NoAudience}, left : 0 .. Lifetime]

NoIdentity == [audience |-> NoAudience, left |-> 0]

\* "waited": from the issue to the answer; "since": from then on.
Asker == [pc : {"idle", "fetch", "served", "raised"}, asked : Audiences \cup {NoAudience},
          identity : Identity, fromCache : BOOLEAN, waited : 0 .. Lifetime, since : 0 .. Margin]

IdentityTypeOK == cached \in Identity /\ asker \in [Askers -> Asker]

NotAsking == [pc |-> "idle", asked |-> NoAudience, identity |-> NoIdentity,
              fromCache |-> FALSE, waited |-> 0, since |-> 0]

IdentityInit ==
    /\ cached = NoIdentity
    /\ asker = [a \in Askers |-> NotAsking]

-----------------------------------------------------------------------------
\* Mutant of IsIdentityValid: the margin is left out.
IsIdentityValidToTheEnd(identity) == identity # NoIdentity /\ identity.left >= 0

\* There is one, and _is_identity_valid.
IsIdentityValid(identity) == identity # NoIdentity /\ identity.left > Margin

Awaiting(a) == asker[a].pc = "fetch"

\* get_workload_identity, with an identity that is valid: whatever its audience.
ServeCached(a, audience) ==
    /\ ~Awaiting(a) /\ IsIdentityValid(cached)
    /\ asker' = [asker EXCEPT ![a] = [pc |-> "served", asked |-> audience,
         identity |-> cached, fromCache |-> TRUE, waited |-> 0, since |-> 0]]
    /\ UNCHANGED cached

\* Without one, _fetch_identity_from_spire; the agent issues an identity at once.
Fetch(a, audience) ==
    /\ ~Awaiting(a) /\ ~IsIdentityValid(cached)
    /\ asker' = [asker EXCEPT ![a] = [pc |-> "fetch", asked |-> audience,
         identity |-> [audience |-> audience, left |-> Lifetime], fromCache |-> FALSE,
         waited |-> 0, since |-> 0]]
    /\ UNCHANGED cached

\* The agent's answer arrives, and takes the place of what others fetched meanwhile.
FetchReturns(a) ==
    /\ Awaiting(a)
    /\ cached' = asker[a].identity
    /\ asker' = [asker EXCEPT ![a].pc = "served"]

FetchRaises(a) ==
    /\ Awaiting(a)
    /\ asker' = [asker EXCEPT ![a].pc = "raised"]
    /\ UNCHANGED cached

Aged(identity) ==
    [identity EXCEPT !.left = IF identity.left = 0 THEN 0 ELSE identity.left - 1]

\* A caller that was served is watched for as long as the margin.
Older(x) ==
    IF x.pc = "fetch"
    THEN [x EXCEPT !.identity = Aged(x.identity),
                   !.waited = IF x.waited = Lifetime THEN Lifetime ELSE x.waited + 1]
    ELSE IF x.pc = "served" /\ x.since < Margin
    THEN [x EXCEPT !.identity = Aged(x.identity), !.since = x.since + 1]
    ELSE NotAsking

IdentitiesAge ==
    /\ cached' = Aged(cached)
    /\ asker' = [a \in Askers |-> Older(asker[a])]

IdentityNext ==
    \/ IdentitiesAge
    \/ \E a \in Askers :
         \/ FetchReturns(a) \/ FetchRaises(a)
         \/ \E audience \in Audiences : ServeCached(a, audience) \/ Fetch(a, audience)

IdentitySpec == IdentityInit /\ [][IdentityNext]_identityVars

-----------------------------------------------------------------------------
(* Properties *)

\* An identity got in good time is good for the margin: whoever uses it so long after
\* it was served uses none that has expired, however answers of the agent overtake each
\* other.  One for another audience only comes from the cache.
IdentityFresh ==
    \A a \in Askers : asker[a].pc = "served" =>
      /\ asker[a].waited < Lifetime - Margin => asker[a].identity.left > 0
      /\ ~asker[a].fromCache => asker[a].identity.audience = asker[a].asked
=============================================================================
