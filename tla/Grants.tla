------------------------------- MODULE Grants -------------------------------
(***************************************************************************)
(* What an approval is made of: the limits and the identity of a route, of *)
(* internal/integrations (limits.go, route.go, approve.go).                *)
(*                                                                         *)
(* A manifest asks for capabilities, routes and one limit, requestBodyKB,  *)
(* the one the identity of a route depends on.  A route is a name (its     *)
(* slot, method, path, use and content type), its queryKeys and its        *)
(* maxBodyKB, 0 when undeclared.  A list that may be nil is a sequence of  *)
(* at most one set: << >> is nil, any key, and <<{}>> is the empty         *)
(* allowlist, no key.  A limit is a sequence of at most one number in the  *)
(* same way.                                                               *)
(***************************************************************************)
EXTENDS Integers

CONSTANTS
    DefaultKB,      \* limitBounds[requestBodyKB].def
    MaxKB           \* limitBounds[requestBodyKB].max

ASSUME LimitsAssumption == DefaultKB \in Nat /\ MaxKB \in Nat \ {0}

Least(S) == CHOOSE x \in S : \A y \in S : x <= y

\* What one side asks for, its default when unset, never above the maximum.
requested(limit) == Least({MaxKB, IF limit = << >> THEN DefaultKB ELSE limit[1]})

\* The mutant keeps only the side of the manifest.
effectiveOfManifest(manifest, approved) == requested(manifest)

effectiveLimit(manifest, approved) == Least({requested(manifest), requested(approved)})

effectiveMaxBodyKB(route, bodyKB) ==
    IF route.maxKB > 0 THEN route.maxKB ELSE IF bodyKB > 0 THEN bodyKB ELSE DefaultKB

identity(route, bodyKB) ==
    [name |-> route.name, keys |-> route.keys, maxKB |-> effectiveMaxBodyKB(route, bodyKB)]

identitySet(routes, bodyKB) == {identity(r, bodyKB) : r \in routes}

\* A route as the lock file keeps it: an empty allowlist is not written.
Written(route) == [route EXCEPT !.keys = IF @ = <<{}>> THEN << >> ELSE @]

\* Approve refuses a grant wider than what the manifest asks for.
Within(m, grants) ==
    /\ grants.caps \subseteq m.caps
    /\ identitySet(grants.routes, requested(m.limit)) \subseteq
           identitySet(m.routes, requested(m.limit))
    /\ grants.limit # << >> => grants.limit[1] <= requested(m.limit)
=============================================================================
