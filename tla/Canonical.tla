----------------------------- MODULE Canonical -----------------------------
(***************************************************************************)
(* The manifest digest of internal/canonical: a strict decoder and one     *)
(* serialisation for every document that means the same.  An approval is   *)
(* bound to this digest.                                                   *)
(*                                                                         *)
(* A value is a record with one field, named for its type.  A string is a  *)
(* sequence of characters; keys are names, ordered by their UTF-16 units.  *)
(* What fails has no result: operators return a set of results.  The hash  *)
(* stands for the text that is hashed.                                     *)
(***************************************************************************)
EXTENDS Input, Integers, SequencesExt

CONSTANTS
    maxSafeInt, maxYAMLDepth, maxYAMLNodes, maxYAMLAliases

Is(v, type) == type \in DOMAIN v
One(set) == CHOOSE x \in set : TRUE

-----------------------------------------------------------------------------
(* normalise *)

setLikePaths == {<<"spec", "capabilities">>,
                 <<"spec", "operations", "*", "routes", "*", "queryKeys">>}

\* The mutant goes by the name of the property.
isSetLikeByName(path) == path # << >> /\ \E p \in setLikePaths : Last(p) = Last(path)

isSetLike(path) ==
    \E p \in setLikePaths :
        Len(p) = Len(path) /\ \A i \in DOMAIN p : p[i] = "*" \/ p[i] = path[i]

\* Sorted and without repetitions: the order of the characters is that of `Letters`.
Letters == <<"\"", ",", "\\", "a", "n", "LF", "SOH">>
Rank(c) == CHOOSE i \in DOMAIN Letters : Letters[i] = c
RECURSIVE Before(_, _)
Before(s, t) ==
    /\ t # << >>
    /\ \/ s = << >>
       \/ Rank(Head(s)) < Rank(Head(t))
       \/ Head(s) = Head(t) /\ Before(Tail(s), Tail(t))

RECURSIVE normalise(_, _)
normalise(v, path) ==
    IF Is(v, "map")
    THEN LET parts == [k \in DOMAIN v.map |-> normalise(v.map[k], Append(path, k))]
         IN  IF \E k \in DOMAIN parts : parts[k] = {} THEN {}
             ELSE {[map |-> [k \in DOMAIN parts |-> One(parts[k])]]}
    ELSE IF Is(v, "list")
    THEN LET parts == [i \in DOMAIN v.list |-> normalise(v.list[i], Append(path, "i"))]
             items == [i \in DOMAIN parts |-> One(parts[i])]
         IN  IF \E i \in DOMAIN parts : parts[i] = {} THEN {}
             ELSE IF ~isSetLike(path) THEN {[list |-> items]}
             ELSE IF \E i \in DOMAIN items : ~Is(items[i], "str") THEN {}
             ELSE {[list |-> SetToSortSeq(ToSet(items), LAMBDA a, b : Before(a.str, b.str))]}
    ELSE IF Is(v, "float") \/ (Is(v, "int") /\ (v.int < -maxSafeInt \/ v.int > maxSafeInt)) THEN {}
    ELSE {v}

-----------------------------------------------------------------------------
(* serialise *)

escape(c) ==
    CASE c = "\"" -> <<"\\", "\"">>
      [] c = "\\" -> <<"\\", "\\">>
      [] c = "LF" -> <<"\\", "n">>
      [] c = "SOH" -> <<"\\", "u", "0", "0", "0", "1">>
      [] OTHER -> <<c>>

Quoted(s) == <<"\"">> \o FlattenSeq([i \in DOMAIN s |-> escape(s[i])]) \o <<"\"">>

\* The UTF-16 units of the keys: `high' is beyond the basic plane, so that its first
\* unit is a surrogate, less than the one of `top'.
Units(k) ==
    CASE k = "a" -> <<1>> [] k = "ab" -> <<1, 2>> [] k = "high" -> <<8, 9>>
      [] k = "higher" -> <<8, 10>> [] k = "top" -> <<11>> [] k = "capabilities" -> <<3>>
      [] k = "o" -> <<4>> [] k = "operations" -> <<4, 1>> [] k = "params" -> <<5>>
      [] k = "queryKeys" -> <<6>> [] k = "routes" -> <<7>> [] k = "spec" -> <<7, 1>>

\* The mutant compares no further than the shorter key.
LessOfPrefix(j, k) ==
    \E n \in DOMAIN Units(j) \cap DOMAIN Units(k) :
        Units(j)[n] < Units(k)[n] /\ \A m \in 1 .. n - 1 : Units(j)[m] = Units(k)[m]

Less(j, k) ==
    LET a == Units(j)
        b == Units(k)
    IN  \/ \E n \in DOMAIN a \cap DOMAIN b :
               a[n] < b[n] /\ \A m \in 1 .. n - 1 : a[m] = b[m]
        \/ Len(a) < Len(b) /\ a = SubSeq(b, 1, Len(a))

\* The orders sort.Slice may leave the keys of a map in, whatever order they came in.
sortKeys(keys) ==
    {s \in SetToSeqs(keys) : \A i, j \in DOMAIN s : i < j => ~Less(s[j], s[i])}

RECURSIVE serialise(_)
serialise(v) ==
    IF Is(v, "str") THEN {Quoted(v.str)}
    ELSE IF Is(v, "int") THEN {<<ToString(v.int)>>}
    ELSE IF Is(v, "bool") THEN {<<ToString(v.bool)>>}
    ELSE IF Is(v, "null") THEN {<<"null">>}
    ELSE LET joined(parts, open, close) ==
                 {<<open>> \o FlattenSeq([i \in DOMAIN parts |->
                               IF i > 1 THEN <<",">> \o p[i] ELSE p[i]]) \o <<close>> :
                     p \in {p \in [DOMAIN parts -> UNION ToSet(parts)] :
                               \A i \in DOMAIN parts : p[i] \in parts[i]}}
         IN  IF Is(v, "list")
             THEN joined([i \in DOMAIN v.list |-> serialise(v.list[i])], "[", "]")
             ELSE UNION {joined([i \in DOMAIN keys |->
                                    {<<"\"", keys[i], "\"", ":">> \o t :
                                        t \in serialise(v.map[keys[i]])}], "{", "}") :
                            keys \in sortKeys(DOMAIN v.map)}

Digest(doc) == UNION {serialise(n) : n \in normalise(doc, << >>)}

-----------------------------------------------------------------------------
(* LoadBytes.  A YAML node is a value whose maps are sequences of pairs, or  *)
(* an alias of a node.  A step of the decoder has a result and the budget it *)
(* has left behind.                                                          *)

Fresh == [depth |-> 0, nodes |-> 0, aliases |-> 0]
Yields(val, b) == [val |-> val, b |-> b]

\* The mutant does not leave the depth as it found it.
LeaveNothing(b) == b
Leave(b) == [b EXCEPT !.depth = @ - 1]

RECURSIVE yamlToAnyBounded(_, _), yamlItems(_, _, _)
\* The elements of a sequence from the i-th on.
yamlItems(items, i, b) ==
    IF i > Len(items) THEN Yields({<< >>}, b)
    ELSE LET first == yamlToAnyBounded(items[i], b)
         IN  IF first.val = {} THEN first
             ELSE LET rest == yamlItems(items, i + 1, first.b)
                  IN  Yields({<<One(first.val)>> \o r : r \in rest.val}, rest.b)

yamlToAnyBounded(n, before) ==
    LET b == [before EXCEPT !.nodes = @ + 1, !.depth = @ + 1]
        many(items, Build(_)) == LET all == yamlItems(items, 1, b)
                                 IN  Yields({Build(x) : x \in all.val}, all.b)
        result ==
            IF b.depth > maxYAMLDepth \/ b.nodes > maxYAMLNodes THEN Yields({}, b)
            ELSE IF Is(n, "doc") THEN yamlToAnyBounded(n.doc, b)
            ELSE IF Is(n, "alias")
            THEN IF b.aliases + 1 > maxYAMLAliases THEN Yields({}, b)
                 ELSE yamlToAnyBounded(n.alias, [b EXCEPT !.aliases = @ + 1])
            ELSE IF Is(n, "list") THEN many(n.list, LAMBDA x : [list |-> x])
            ELSE IF Is(n, "pairs")
            THEN IF \E i, j \in DOMAIN n.pairs : i # j /\ n.pairs[i][1] = n.pairs[j][1]
                 THEN Yields({}, b)
                 ELSE many([i \in DOMAIN n.pairs |-> n.pairs[i][2]],
                           LAMBDA x : [map |-> [k \in {p[1] : p \in ToSet(n.pairs)} |->
                                           x[CHOOSE i \in DOMAIN n.pairs : n.pairs[i][1] = k]]])
            ELSE Yields(IF Is(n, "float") THEN {} ELSE {n}, b)
    IN  [result EXCEPT !.b = Leave(@)]

LoadYAML(n) == yamlToAnyBounded([doc |-> n], Fresh).val

-----------------------------------------------------------------------------
(* Inputs. *)

Str(s) == [str |-> s]
List(s) == [list |-> s]
Map(f) == [map |-> f]
Key(k, v) == Map([x \in {k} |-> v])

Strings == {<< >>} \cup {<<c>> : c \in ToSet(Letters)} \cup {<<c, d>> : c, d \in ToSet(Letters)}
A == Str(<<"a">>)
N == Str(<<"n">>)
Lists == {List(s) : s \in {<< >>, <<A>>, <<N>>, <<A, A>>, <<A, N>>, <<N, A>>, <<N, A, A>>,
                           <<Str(<<"a", "n">>), A>>, <<List(<<A>>)>>, <<Key("a", A)>>}}
Maps == {Map(f) : f \in UNION {[K -> {A, [int |-> 1]}] :
                                  K \in {K \in SUBSET {"a", "ab", "high", "higher", "top"} :
                                            Cardinality(K) <= 3}}}
Scalars == {[null |-> TRUE], [bool |-> TRUE], [float |-> TRUE]} \cup {[int |-> i] : i \in -2 .. 2}

\* The same value at the places whose lists are sets, and at places that look like them.
At(place, v) ==
    CASE place = "caps"   -> Key("spec", Key("capabilities", v))
      [] place = "keys"   -> Key("spec", Key("operations", Key("o",
                                 Key("routes", List(<<Key("queryKeys", v)>>)))))
      [] place = "params" -> Key("spec", Key("params", Key("capabilities", v)))
      [] place = "op"     -> Key("spec", Key("operations", Key("o", Key("queryKeys", v))))
      [] place = "root"   -> v

PickDocuments ==
    \E p, q \in {"caps", "keys", "params", "op", "root"}, kind \in {"list", "map", "scalar"} :
        \E v, w \in IF kind = "list" THEN Lists ELSE IF p # "root" \/ q # "root" THEN {A, N}
                    ELSE IF kind = "map" THEN Maps ELSE Scalars \cup {Str(s) : s \in Strings} :
            input' = [what |-> "documents", one |-> At(p, v), other |-> At(q, w)]

Leaf == {A, [float |-> TRUE]}
Inner == Leaf \cup {List(s) : s \in {<< >>, <<A>>, <<A, N>>}} \cup {[alias |-> A]}
            \cup {[pairs |-> s] : s \in {<<<<"a", A>>>>, <<<<"a", A>>, <<"ab", N>>>>,
                                         <<<<"a", A>>, <<"a", N>>>>}}
Outer == {List(s) : s \in {<<x, y>> : x, y \in Inner} \cup {<<x, y, z>> : x, y, z \in Inner}}
            \cup {[pairs |-> <<<<"a", x>>, <<k, y>>>>] : x, y \in Inner, k \in {"a", "ab"}}
            \cup {[alias |-> x] : x \in Inner}

PickNode ==
    \E n \in Outer \cup {List(<<n>>) : n \in Outer} \cup {[alias |-> n] : n \in Outer} :
        input' = [what |-> "node", node |-> n]

Next == input.what = "none" /\ (PickDocuments \/ PickNode)

Spec == InputInit /\ [][Next]_input

-----------------------------------------------------------------------------
(* Properties. *)

RECURSIVE Meaning(_, _)
\* What an approver reads: the capabilities and the query keys of a route are sets.
Meaning(v, path) ==
    IF Is(v, "map") THEN Map([k \in DOMAIN v.map |-> Meaning(v.map[k], Append(path, k))])
    ELSE IF ~Is(v, "list") THEN v
    ELSE IF path = <<"spec", "capabilities">> \/ path = <<"spec", "operations", "o", "routes", "i",
                                                          "queryKeys">>
    THEN [set |-> ToSet(v.list)]
    ELSE List([i \in DOMAIN v.list |-> Meaning(v.list[i], Append(path, "i"))])

\* A manifest has one digest, whatever order the maps of the decoder iterate in,
\* and two manifests share it exactly when they mean the same: an approval
\* survives another order of keys and of set-like lists, and no edit of anything
\* else, wherever in the document it looks like one of those.
DigestFaithful ==
    input.what = "documents" =>
        LET one == Digest(input.one)
            other == Digest(input.other)
        IN  /\ Cardinality(one) <= 1
            /\ one # {} /\ other # {} =>
                   (one = other <=> Meaning(input.one, << >>) = Meaning(input.other, << >>))

RECURSIVE Height(_), Size(_), Aliases(_), Expanded(_)
Children(n) ==
    IF Is(n, "list") THEN n.list ELSE IF Is(n, "alias") THEN <<n.alias>>
    ELSE IF Is(n, "pairs") THEN [i \in DOMAIN n.pairs |-> n.pairs[i][2]] ELSE << >>
Sums(Op(_), seq) == FoldLeft(LAMBDA x, c : x + Op(c), 0, seq)
Height(n) == 1 + Max({0} \cup {Height(c) : c \in ToSet(Children(n))})
Size(n) == 1 + Sums(Size, Children(n))
Aliases(n) == (IF Is(n, "alias") THEN 1 ELSE 0) + Sums(Aliases, Children(n))

\* The nodes with every alias replaced: none where there is a float or a repeated key.
Expanded(n) ==
    IF Is(n, "float") THEN {}
    ELSE IF Is(n, "alias") THEN Expanded(n.alias)
    ELSE LET parts == [i \in DOMAIN Children(n) |-> Expanded(Children(n)[i])]
         IN  IF \E i \in DOMAIN parts : parts[i] = {} THEN {}
             ELSE IF Is(n, "list") THEN {List([i \in DOMAIN parts |-> One(parts[i])])}
             ELSE IF Is(n, "pairs")
             THEN IF Cardinality({p[1] : p \in ToSet(n.pairs)}) < Len(n.pairs) THEN {}
                  ELSE {Map([k \in {p[1] : p \in ToSet(n.pairs)} |->
                           One(parts[CHOOSE i \in DOMAIN parts : n.pairs[i][1] = k])])}
             ELSE {n}

\* A YAML manifest decodes to what it says with its aliases expanded, or is
\* refused: exactly when the expansion is too deep, too large or has too many
\* aliases, or something in it is not allowed.  The one budget that is passed
\* along counts the document and no sibling twice.
DecodesWithinBudget ==
    input.what = "node" =>
        LoadYAML(input.node) =
            IF \/ Height(input.node) + 1 > maxYAMLDepth
               \/ Size(input.node) + 1 > maxYAMLNodes
               \/ Aliases(input.node) > maxYAMLAliases
            THEN {} ELSE Expanded(input.node)
=============================================================================
