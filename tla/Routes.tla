------------------------------- MODULE Routes -------------------------------
(***************************************************************************)
(* The pure routines that decide which upstream request is the approved    *)
(* one: internal/connections/routepath (Canonicalise, Match, the request   *)
(* templates), joinPath and relativeRedirectPath of internal/connections,  *)
(* the route search of internal/capabilities (Authorize) and the proof of  *)
(* coverage the manifest loader makes (validateRequest).                   *)
(*                                                                         *)
(* A path is the sequence of its segments, << >> being "/", and a segment  *)
(* a sequence of symbols: letters, the dot, the colon, the glob star, the  *)
(* percent escapes below and "{x}", a placeholder.  A routine that may     *)
(* refuse its input returns the set of its results: {} is an error.        *)
(*                                                                         *)
(* The module is one step long: it picks an input, and the invariants      *)
(* compare the routines on it with each other and with what they are for.  *)
(***************************************************************************)
EXTENDS Input, Integers, Sequences

CONSTANTS
    Symbols,        \* the symbols paths are written with
    MaxSegment      \* bound on the symbols of a segment

\* Any symbols, besides the ones with a meaning.
Character ==
    Symbols \cup {"a", "b", ".", ":", "*", "{x}", "%61", "%2e", "%3a", "%3A", "%2f"}
Segment == Seq(Character)
Path == Seq(Segment)

-----------------------------------------------------------------------------
(* Canonicalise. *)

\* A malformed escape, an encoded separator and the characters that a URL
\* parser would read as something other than a path.
Forbidden == {"%zz", "%2f", "?", "#", "\\", " "}

\* The character an escape stands for.
Decoded(x) == CASE x = "%61" -> "a" [] x = "%2e" -> "." [] x \in {"%3a", "%3A"} -> ":"
                [] OTHER -> x

isUnreserved(x) == x \in {"a", "b", "."}

\* Escapes of unreserved characters are decoded, the others are lowercased.
Normalised(x) ==
    IF isUnreserved(Decoded(x)) THEN Decoded(x) ELSE IF x = "%3A" THEN "%3a" ELSE x

Each(Op(_), segment) == [k \in DOMAIN segment |-> Op(segment[k])]

DotSegments == {<<".">>, <<".", ".">>}

\* The mutant looks for dot segments before it decodes, and not after.
segmentUndecoded(segment) ==
    IF segment = << >> \/ segment \in DotSegments THEN {} ELSE {Each(Normalised, segment)}

canonicaliseSegment(segment) ==
    IF segment = << >> \/ segment \in DotSegments \/ Each(Decoded, segment) \in DotSegments
    THEN {}
    ELSE {Each(Normalised, segment)}

Canonicalise(path) ==
    IF \E k \in DOMAIN path : \/ \E n \in DOMAIN path[k] : path[k][n] \in Forbidden
                              \/ canonicaliseSegment(path[k]) = {}
    THEN {}
    ELSE {[k \in DOMAIN path |-> CHOOSE s \in canonicaliseSegment(path[k]) : TRUE]}

\* The mutant compares the first bytes of each segment: "/api" covers "/apix".
HasTextPrefix(path, prefix) ==
    /\ Len(prefix) <= Len(path)
    /\ \A k \in DOMAIN prefix : /\ Len(prefix[k]) <= Len(path[k])
                                 /\ SubSeq(path[k], 1, Len(prefix[k])) = prefix[k]

\* HasPathPrefix: a subtree, never a string that starts the same way.
HasPathPrefix(path, prefix) ==
    Len(prefix) <= Len(path) /\ SubSeq(path, 1, Len(prefix)) = prefix

-----------------------------------------------------------------------------
(* Match: a glob whose star stays inside a segment. *)

\* strings.Split(pattern, "*").
Parts(pattern) ==
    LET parts[n \in 0 .. Len(pattern)] ==
            IF n = 0 THEN << << >> >>
            ELSE IF pattern[n] = "*" THEN Append(parts[n - 1], << >>)
                 ELSE [parts[n - 1] EXCEPT ![Len(parts[n - 1])] = Append(@, pattern[n])]
    IN  parts[Len(pattern)]

OccursAt(part, segment, k) == \A j \in DOMAIN part : segment[k + j] = part[j]

\* strings.Index, of the places where a part occurs.
Leftmost(ks) == CHOOSE k \in ks : \A j \in ks : k <= j

LastPart(parts) == parts[Len(parts)]

\* What is left of the segment after its first part ends at `to`.  Each middle part
\* is put as far left as it fits: the set of where it ends,
\* {} when it does not fit.
Fitted(parts, segment, to) ==
    LET ends[n \in 1 .. Len(parts) - 1] ==
            IF n = 1 THEN {Len(parts[1])}
            ELSE LET fits == {k \in 0 .. to - Len(parts[n]) : /\ \E e \in ends[n - 1] : e <= k
                                                              /\ OccursAt(parts[n], segment, k)}
                 IN  IF fits = {} THEN {} ELSE {Leftmost(fits) + Len(parts[n])}
    IN  ends

\* The mutant measures the last part against the whole segment, so that it may
\* share characters with the first.
matchOverlapping(pattern, segment) ==
    LET parts == Parts(pattern)
        to    == Len(segment) - Len(LastPart(parts))
    IN  IF Len(parts) = 1 THEN pattern = segment
        ELSE /\ Len(parts[1]) <= Len(segment) /\ OccursAt(parts[1], segment, 0)
             /\ 0 <= to /\ OccursAt(LastPart(parts), segment, to)
             /\ Fitted(parts, segment, to)[Len(parts) - 1] # {}

matchSegment(pattern, segment) ==
    LET parts == Parts(pattern)
        to    == Len(segment) - Len(LastPart(parts))
    IN  IF Len(parts) = 1 THEN pattern = segment
        ELSE /\ Len(parts[1]) <= Len(segment) /\ OccursAt(parts[1], segment, 0)
             /\ Len(parts[1]) <= to /\ OccursAt(LastPart(parts), segment, to)
             /\ Fitted(parts, segment, to)[Len(parts) - 1] # {}

\* strings.Split gives the root one empty segment.
Split(path) == IF path = << >> THEN << << >> >> ELSE path

\* The mutant wants at least one character for a star.
MatchNonEmpty(pattern, path) ==
    /\ Len(Split(pattern)) = Len(Split(path))
    /\ \A k \in DOMAIN Split(path) : /\ Len(Split(pattern)[k]) <= Len(Split(path)[k])
                                     /\ matchSegment(Split(pattern)[k], Split(path)[k])

Match(pattern, path) ==
    /\ Len(Split(pattern)) = Len(Split(path))
    /\ \A k \in DOMAIN Split(path) : matchSegment(Split(pattern)[k], Split(path)[k])

-----------------------------------------------------------------------------
(* Request templates: {x} is a whole segment. *)

Placeholder == <<"{x}">>

ParseTemplate(raw) ==
    IF \E k \in DOMAIN raw : raw[k] # Placeholder /\ \E n \in DOMAIN raw[k] : raw[k][n] = "{x}"
    THEN {}
    ELSE {[k \in DOMAIN raw |-> IF raw[k] = Placeholder THEN Placeholder ELSE c[k]] :
             c \in Canonicalise([k \in DOMAIN raw |->
                                    IF raw[k] = Placeholder THEN <<"b">> ELSE raw[k]])}

ValidPlaceholderValue(v) ==
    /\ v # << >>
    /\ v \notin DotSegments
    /\ \A k \in DOMAIN v : isUnreserved(v[k]) \/ v[k] = ":"

CoveredBy(template, pattern) ==
    \E glob \in Canonicalise(pattern) :
        IF template = << >> THEN glob = << >>
        ELSE /\ glob # << >> /\ Len(glob) = Len(template)
             /\ \A k \in DOMAIN glob :
                    IF template[k] = Placeholder THEN glob[k] = <<"*">>
                    ELSE matchSegment(glob[k], template[k])

Expand(template, value) ==
    IF (\E k \in DOMAIN template : template[k] = Placeholder) /\ ~ValidPlaceholderValue(value)
    THEN {}
    ELSE Canonicalise([k \in DOMAIN template |->
                          IF template[k] = Placeholder THEN value ELSE template[k]])

-----------------------------------------------------------------------------
(* The base path of a connection. *)

joinPath(base, path) == {b \o p : b \in Canonicalise(base), p \in Canonicalise(path)}

\* The path of a redirect, in the terms of the caller's own path.
relativeRedirectPath(base, canonical) ==
    {SubSeq(canonical, Len(b) + 1, Len(canonical)) :
        b \in {b \in Canonicalise(base) : HasPathPrefix(canonical, b)}}

-----------------------------------------------------------------------------
(* The same questions as the contract checker answers them.                 *)

\* The regular expression a star-only glob is rewritten to: some way to end each
\* symbol of the pattern in the segment.
Glob(pattern, segment) ==
    \E end \in [0 .. Len(pattern) -> 0 .. Len(segment)] :
        /\ end[0] = 0 /\ end[Len(pattern)] = Len(segment)
        /\ \A n \in 1 .. Len(pattern) :
               \/ pattern[n] = "*" /\ end[n - 1] <= end[n]
               \/ end[n] = end[n - 1] + 1 /\ segment[end[n]] = pattern[n]

GlobMatch(pattern, path) ==
    /\ Len(Split(pattern)) = Len(Split(path))
    /\ \A k \in DOMAIN Split(path) : Glob(Split(pattern)[k], Split(path)[k])

\* The mutant lets any glob that matches one value cover a placeholder.
templateMatched(pattern, path) ==
    GlobMatch(pattern, [k \in DOMAIN path |->
                           IF path[k] = Placeholder THEN <<"b">> ELSE path[k]])

\* The checker reads a request's path as it is written.
templateCovered(pattern, path) ==
    /\ Len(Split(pattern)) = Len(Split(path))
    /\ \A k \in DOMAIN path : path[k] = Placeholder => Split(pattern)[k] = <<"*">>
    /\ GlobMatch(pattern, [k \in DOMAIN path |->
                              IF path[k] = Placeholder THEN <<"b">> ELSE path[k]])

-----------------------------------------------------------------------------
(* Route search.  A route has a path, queryKeys (<< >> is nil), a content   *)
(* type ("" is undeclared) and maxBodyKB; a request has a path, keys, the   *)
(* content type it is sent with ("" for no body) and the size of its body,  *)
(* -1 when it is unknown.                                                   *)

coreDefaultBodyKB == 2

bodySizeAllowed(routeKB, manifestKB, size) ==
    LET manifest  == IF manifestKB <= 0 THEN coreDefaultBodyKB ELSE manifestKB
        effective == IF routeKB > 0 /\ routeKB < manifest THEN routeKB ELSE manifest
    IN  0 <= size /\ size <= effective

queryKeysAllowed(allowed, keys) == allowed = << >> \/ keys \subseteq allowed[1]

contentTypeAllowed(declared, sent) == declared = "" \/ declared = sent

routeAllows(route, request, manifestKB) ==
    /\ \E p \in Canonicalise(request.path), r \in Canonicalise(route.path) : Match(r, p)
    /\ queryKeysAllowed(route.keys, request.keys)
    /\ contentTypeAllowed(route.type, request.type)
    /\ bodySizeAllowed(route.maxKB, manifestKB, request.size)

\* A content type that begins as the one a body is sent with.
StartsAs(declared, sent) == declared = sent \/ (declared = "json;utf-8" /\ sent = "json")

\* routeCoversRequest: what the loader checks besides the path.  The mutant
\* checks the query only for routes that allow some key.
coversUnlessEmpty(route, request) ==
    /\ route.keys = <<{}>> \/ queryKeysAllowed(route.keys, request.keys)
    /\ request.type # "" /\ route.type # "" => StartsAs(route.type, request.type)

coversRequest(route, request) ==
    /\ queryKeysAllowed(route.keys, request.keys)
    /\ request.type # "" /\ route.type # "" => StartsAs(route.type, request.type)

\* validateRequest for a request with a literal path.
literalRequestCovered(route, request) ==
    /\ \E t \in ParseTemplate(request.path) : CoveredBy(t, route.path)
    /\ coversRequest(route, request)

-----------------------------------------------------------------------------
(* Inputs. *)

Segments == UNION {[1 .. n -> Symbols] : n \in 0 .. MaxSegment}
PlainSegments == UNION {[1 .. n -> {"a", "b", ".", "*"}] : n \in 0 .. MaxSegment + 1}
Short == {Placeholder} \cup UNION {[1 .. n -> {"a", "b", "*"}] : n \in 1 .. 2}

\* Paths that differ from "/" in at most one segment out of the ordinary.
Paths == {<< >>} \cup {<<s>> : s \in Segments} \cup {<<s, <<"a">>>> : s \in Segments}
            \cup {<<<<"a">>, s>> : s \in Segments}
Values == UNION {[1 .. n -> {"a", ".", ":", "%2e"}] : n \in 0 .. 2}
Templates == {<< >>} \cup {<<s>> : s \in Short} \cup {<<s, t>> : s, t \in Short}

PickPaths ==
    \E base \in {<< >>, <<<<"a">>>>, <<<<"a">>, <<"b">>>>}, p \in Paths :
        input' = [what |-> "join", base |-> base, path |-> p]

PickGlob ==
    \E g, s \in PlainSegments : input' = [what |-> "glob", pattern |-> g, segment |-> s]

PickTemplate ==
    \E t, g \in Templates : input' = [what |-> "template", template |-> t, pattern |-> g]

PickRequest ==
    \E keys \in {<< >>, <<{}>>, <<{"q"}>>}, type \in {"", "json", "json;utf-8"}, kb \in 0 .. 2,
       sent \in SUBSET {"q"}, with \in {"", "json"}, size \in -1 .. 2 :
        input' = [what |-> "request",
                  route |-> [path |-> <<<<"a">>>>, keys |-> keys, type |-> type, maxKB |-> kb],
                  request |-> [path |-> <<<<"a">>>>, keys |-> sent, type |-> with, size |-> size]]

RoutesNext == input.what = "none" /\ (PickPaths \/ PickGlob \/ PickTemplate \/ PickRequest)

RoutesSpec == InputInit /\ [][RoutesNext]_input

\* What the routines are given: paths of any length, of segments of any length.
WellFormed ==
    /\ input.what = "join" => {input.base, input.path} \subseteq Path
    /\ input.what = "glob" => {input.pattern, input.segment} \subseteq Segment
    /\ input.what = "template" => {input.template, input.pattern} \subseteq Path
    /\ input.what = "request" => {input.route.path, input.request.path} \subseteq Path

\* Templates and routes as manifests usually have them, in their canonical form.
WrittenCanonically ==
    input.what = "template" =>
        /\ Canonicalise(input.pattern) = {input.pattern}
        /\ ParseTemplate(input.template) \subseteq {input.template}

-----------------------------------------------------------------------------
(* Properties. *)

\* What an upstream that decodes a path and then removes its dot segments
\* would serve.
Resolved(path) ==
    LET done[n \in 0 .. Len(path)] ==
            IF n = 0 THEN << >>
            ELSE LET s == Each(Decoded, path[n])
                 IN  IF s = <<".", ".">>
                     THEN SubSeq(done[n - 1], 1, Len(done[n - 1]) - 1)
                     ELSE IF s = <<".">> THEN done[n - 1] ELSE Append(done[n - 1], s)
    IN  done[Len(path)]

\* Nothing joined onto a base path leaves it, even for an upstream that decodes
\* and resolves dot segments itself (request.go: no way for the result to
\* escape base).
StaysBelowBase ==
    input.what = "join" =>
        \A joined \in joinPath(input.base, input.path) :
            \E n \in 0 .. Len(Resolved(joined)) :
                SubSeq(Resolved(joined), 1, n) = Resolved(input.base)

\* relativeRedirectPath is the inverse of joinPath, in both directions: a
\* caller's own path comes back as itself, and a destination that can be named
\* is the one that naming it would reach.
RedirectRoundTrip ==
    input.what = "join" =>
        \A c \in Canonicalise(input.path) :
            /\ \A joined \in joinPath(input.base, c) : relativeRedirectPath(input.base, joined) = {c}
            /\ \A r \in relativeRedirectPath(input.base, c) : joinPath(input.base, r) \subseteq {c}

\* The greedy search of matchSegment decides exactly the globs: the broker and
\* the contract checker, which goes through a regular expression, agree.
GlobAgrees ==
    input.what = "glob" => (matchSegment(input.pattern, input.segment)
                                <=> Glob(input.pattern, input.segment))

\* A template the loader finds covered by a route expands, for every value a
\* card may give, to a path that route matches when the broker searches it.
CoverageSound ==
    input.what = "template" =>
        \A t \in ParseTemplate(input.template) :
            CoveredBy(t, input.pattern) =>
                \A v \in Values, g \in Canonicalise(input.pattern) :
                    \A p \in Expand(t, v) : Match(g, p)

\* The loader and the contract checker, written independently of each other,
\* find the same templates covered by a route.  On the root alone they differ:
\* "/*" covers it for the checker, and for the broker, but not for the loader.
CheckerCovers ==
    input.what = "template" /\ input.template # << >> =>
        \A t \in ParseTemplate(input.template) :
            CoveredBy(t, input.pattern) <=> templateCovered(input.pattern, input.template)

\* A request the loader found covered by a route, with a body within every
\* ceiling, is allowed by that route when it is made (load.go: route coverage
\* is proved when the manifest loads), for every route that leaves the content
\* type open or declares the one the body is sent with: the loader compares
\* content types by their beginning, the broker as a whole.
LoadProvesPlainRoutes ==
    input.what = "request" /\ input.route.type \in {"", input.request.type}
        /\ literalRequestCovered(input.route, input.request)
        /\ bodySizeAllowed(input.route.maxKB, 0, input.request.size)
        => routeAllows(input.route, input.request, 0)

\* The paths of a connection: StaysBelowBase and RedirectRoundTrip.
PathsKept == StaysBelowBase /\ RedirectRoundTrip

\* The matchers of the broker, the loader and the checker: GlobAgrees and
\* CheckerCovers.
MatchersAgree == GlobAgrees /\ CheckerCovers

\* What the loader proves of a manifest the broker honours: CoverageSound for
\* paths, LoadProvesPlainRoutes for whole requests.
LoadProves == CoverageSound /\ LoadProvesPlainRoutes
=============================================================================
