------------------------------- MODULE Layers -------------------------------
(***************************************************************************)
(* How the configuration is put together: the files that config.Load       *)
(* merges in order (load.go, yamlmerge.go), the file a diagnostic is       *)
(* blamed on, and config.Apply, which edits the primary file in place.     *)
(*                                                                         *)
(* A YAML node is a scalar, a sequence or a mapping, the pairs of a        *)
(* mapping in their order, and carries the number of the file it is        *)
(* blamed on.  A path is a sequence of keys.                               *)
(*                                                                         *)
(* The module is one step long: it picks files, and the invariants compare *)
(* the result with the files.                                              *)
(***************************************************************************)
EXTENDS Input, Integers, SequencesExt

CONSTANT Keys       \* the keys of mappings

-----------------------------------------------------------------------------
(* Nodes. *)

Scalar(value, file) == [kind |-> "scalar", value |-> value, file |-> file]
Sequence(items, file) == [kind |-> "sequence", items |-> items, file |-> file]
Mapping(pairs, file) == [kind |-> "mapping", pairs |-> pairs, file |-> file]

KeysOf(node) == {node.pairs[k].key : k \in DOMAIN node.pairs}

\* The value of a key: the first pair that has it.
Lookup(node, key) ==
    node.pairs[CHOOSE k \in DOMAIN node.pairs :
                   node.pairs[k].key = key /\ \A j \in 1 .. k - 1 : node.pairs[j].key # key].val

-----------------------------------------------------------------------------
(* Load. *)

RECURSIVE duplicateKeys(_)
duplicateKeys(node) ==
    /\ node.kind = "mapping"
    /\ \/ \E j, k \in DOMAIN node.pairs : j # k /\ node.pairs[j].key = node.pairs[k].key
       \/ \E k \in DOMAIN node.pairs : duplicateKeys(node.pairs[k].val)

\* The mutant appends the items of sequences.
RECURSIVE mergeAppending(_, _, _)
mergeAppending(base, override, file) ==
    IF base.kind = "sequence" /\ override.kind = "sequence"
    THEN Sequence(base.items \o override.items, file)
    ELSE IF base.kind = "mapping" /\ override.kind = "mapping"
    THEN Mapping([k \in DOMAIN base.pairs |->
                     LET p == base.pairs[k]
                     IN  IF p.key \in KeysOf(override)
                         THEN [p EXCEPT !.val = mergeAppending(@, Lookup(override, p.key), file)]
                         ELSE p]
                 \o SelectSeq(override.pairs, LAMBDA p : p.key \notin KeysOf(base)), file)
    ELSE override

RECURSIVE merge(_, _, _)
\* Mappings merge key by key, anything else is replaced.  The merged mapping
\* is blamed on the later file.
merge(base, override, file) ==
    IF base.kind = "mapping" /\ override.kind = "mapping"
    THEN Mapping([k \in DOMAIN base.pairs |->
                     LET p == base.pairs[k]
                     IN  IF p.key \in KeysOf(override)
                         THEN [p EXCEPT !.val = merge(@, Lookup(override, p.key), file)]
                         ELSE p]
                 \o SelectSeq(override.pairs, LAMBDA p : p.key \notin KeysOf(base)), file)
    ELSE override

\* A file that cannot be merged - unreadable, empty, a list, a key twice -
\* fails the whole load: the result is a set of at most one tree.
Load(files) ==
    IF \E n \in DOMAIN files : files[n].kind # "mapping" \/ duplicateKeys(files[n]) THEN {}
    ELSE {FoldLeft(LAMBDA acc, n : merge(acc, files[n], n), files[1],
                   [n \in 1 .. Len(files) - 1 |-> n + 1])}

RECURSIVE nodeAtPath(_, _)
\* The deepest node a path reaches.
nodeAtPath(node, path) ==
    IF path = << >> THEN node
    ELSE IF node.kind = "mapping" /\ Head(path) \in KeysOf(node)
         THEN nodeAtPath(Lookup(node, Head(path)), Tail(path))
         ELSE node

-----------------------------------------------------------------------------
(* Apply.  Here a file is the ids of its connections, the list of its        *)
(* integrations and the list of its sections, each with a title and cards.   *)
(* << >> is a key that is absent, and <<x>> one whose value is x.            *)

Or(opt, default) == IF opt = << >> THEN default ELSE opt[1]

\* A conf.d file over the primary one: mappings merge, lists are replaced.
Over(primary, layer) ==
    [connections |-> IF layer.connections = << >> THEN primary.connections
                     ELSE <<Or(primary.connections, {}) \cup layer.connections[1]>>,
     integrations |-> IF layer.integrations = << >> THEN primary.integrations
                      ELSE layer.integrations,
     sections |-> IF layer.sections = << >> THEN primary.sections ELSE layer.sections]

\* The mutant replaces the cards of a section with the same title.
replaceSections(sections, new) ==
    LET same == {k \in DOMAIN sections : sections[k].title = new.title}
    IN  IF same = {} THEN Append(sections, new)
        ELSE [sections EXCEPT ![CHOOSE k \in same : \A j \in same : k <= j].cards = new.cards]

\* An added section joins the first one with its title, or comes last.
mergeSections(sections, new) ==
    LET same == {k \in DOMAIN sections : sections[k].title = new.title}
    IN  IF same = {} THEN Append(sections, new)
        ELSE [sections EXCEPT ![CHOOSE k \in same : \A j \in same : k <= j].cards = @ \o new.cards]

\* The edited primary file: refused when a connection is already there.
Edited(primary, patch) ==
    IF patch.connections \cap Or(primary.connections, {}) # {} THEN {}
    ELSE {[connections |-> IF patch.connections = {} THEN primary.connections
                           ELSE <<Or(primary.connections, {}) \cup patch.connections>>,
           integrations |-> IF patch.integrations = << >> THEN primary.integrations
                            ELSE <<Or(primary.integrations, << >>) \o patch.integrations>>,
           sections |-> IF patch.sections = << >> THEN primary.sections
                        ELSE <<FoldLeft(mergeSections, Or(primary.sections, << >>),
                                        patch.sections)>>]}

\* No integration and no card twice.
Valid(file) ==
    LET cards == FlattenSeq([k \in DOMAIN Or(file.sections, << >>) |-> file.sections[1][k].cards])
    IN  IsInjective(cards) /\ IsInjective(Or(file.integrations, << >>))

\* validateAndReplace: the file replaces the primary one when the whole
\* configuration, conf.d included, is valid with it.
Apply(primary, layer, patch) == {file \in Edited(primary, patch) : Valid(Over(file, layer))}

-----------------------------------------------------------------------------
(* Inputs. *)

\* Mappings whose keys have the values `of` gives them, 0 for none.
Maps(of(_), Numbers, file) ==
    LET Pairs(f) == SelectSeq([k \in 1 .. Len(Keys) |-> [key |-> Keys[k], val |-> f[k]]],
                              LAMBDA p : p.val # 0)
    IN  {Mapping([k \in DOMAIN Pairs(f) |-> [Pairs(f)[k] EXCEPT !.val = of(@)]], file) :
            f \in [1 .. Len(Keys) -> Numbers]}

Inner(file) == Maps(LAMBDA v : Scalar(v, file), 0 .. 1, file)
Values(file) == SetToSeq({Scalar(1, file), Sequence(<<file>>, file)} \cup Inner(file))
Files(file) == Maps(LAMBDA v : Values(file)[v], 0 .. Len(Values(file)), file)

\* Files that do not load: a list, and a key twice.
Bad(file) == {Sequence(<<1>>, file)} \cup
                {Mapping(<<[key |-> Keys[1], val |-> Scalar(1, file)],
                           [key |-> Keys[1], val |-> v]>>, file) : v \in Inner(file)}

PickFiles ==
    \E first \in Files(1), second \in Files(2) \cup Bad(2),
       third \in {f \in Files(3) : Len(f.pairs) = 1 /\ f.pairs[1].key = Keys[1]} :
        input' = [what |-> "files", files |-> <<first, second, third>>]

Sections == {<< >>} \cup {<<[title |-> t, cards |-> <<c>>]>> : t \in {"t", "u"}, c \in 1 .. 2}
                \cup {<<[title |-> "t", cards |-> << >>], [title |-> "t", cards |-> <<1>>]>>}

PickPatch ==
    \E conns, more, extra \in SUBSET {"c"}, ints, extraInts \in {<< >>, <<1>>, <<2>>},
       secs, moreSecs, extraSecs \in Sections, has, holds \in BOOLEAN :
        input' = [what |-> "patch",
                  primary |-> [connections |-> IF has THEN <<conns>> ELSE << >>,
                               integrations |-> IF has THEN <<ints>> ELSE << >>,
                               sections |-> <<secs>>],
                  layer |-> [connections |-> IF holds THEN <<more>> ELSE << >>,
                             integrations |-> IF holds /\ has THEN <<<<3>>>> ELSE << >>,
                             sections |-> IF holds THEN <<moreSecs>> ELSE << >>],
                  patch |-> [connections |-> extra, integrations |-> extraInts,
                             sections |-> extraSecs]]

Next == input.what = "none" /\ (PickFiles \/ PickPatch)

Spec == InputInit /\ [][Next]_input

-----------------------------------------------------------------------------
(* Properties. *)

RECURSIVE At(_, _)
\* The node at a path, {} when there is none.
At(node, path) ==
    IF path = << >> THEN {node}
    ELSE IF node.kind = "mapping" /\ Head(path) \in KeysOf(node)
         THEN At(Lookup(node, Head(path)), Tail(path)) ELSE {}

Prefix(path, k) == SubSeq(path, 1, k)

\* The files with a node at a path, and those with a scalar or a list on the
\* way to it.
Holders(files, path) == {n \in DOMAIN files : At(files[n], path) # {}}
Cutters(files, path) ==
    {n \in DOMAIN files : \E k \in 0 .. Len(path) - 1 :
                             \E x \in At(files[n], Prefix(path, k)) : x.kind # "mapping"}

\* A path is in the configuration when a file holds it that no later one cuts.
Visible(files, path) ==
    \E n \in Holders(files, path) : \A c \in Cutters(files, path) : c < n

Latest(S) == CHOOSE x \in S : \A y \in S : y <= x

\* Of every path, present or not, the nearest node in the merged tree is the
\* one the last file to mention it wrote there, lists whole, and is blamed on
\* that file (load.go: later paths override earlier ones; yamlmerge.go: the
\* file that most recently touched this level).
LaterFileWins ==
    input.what = "files" =>
        \A root \in Load(input.files), path \in UNION {[1 .. n -> Range(Keys)] : n \in 1 .. 3} :
            LET seen    == {k \in 0 .. Len(path) : Visible(input.files, Prefix(path, k))}
                nearest == Prefix(path, Latest(seen))
                last    == Latest(Holders(input.files, nearest))
                node    == nodeAtPath(root, path)
            IN  /\ node.file = last
                /\ \A wrote \in At(input.files[last], nearest) :
                       node.kind = wrote.kind /\ (node.kind # "mapping" => node = wrote)

CardsOf(file) ==
    UNION {{<<s.title, c>> : c \in Range(s.cards)} : s \in Range(Or(file.sections, << >>))}

\* Apply adds and never takes away: what was in effect still is, under the same
\* titles, and what was added is too, but for a list that a conf.d file holds,
\* whose additions in the primary file have no effect.
ApplyAdds ==
    input.what = "patch" =>
        \A file \in Apply(input.primary, input.layer, input.patch) :
            LET old == Over(input.primary, input.layer)
                new == Over(file, input.layer)
            IN  /\ Or(new.connections, {}) = Or(old.connections, {}) \cup input.patch.connections
                /\ Or(new.integrations, << >>) =
                       Or(old.integrations, << >>)
                           \o (IF input.layer.integrations = << >> THEN input.patch.integrations
                               ELSE << >>)
                /\ CardsOf(new) = CardsOf(old) \cup
                       (IF input.layer.sections = << >>
                        THEN CardsOf([sections |-> <<input.patch.sections>>]) ELSE {})
                /\ Valid(new)

\* What the files of a configuration say together: LaterFileWins and ApplyAdds.
LayersCompose == LaterFileWins /\ ApplyAdds
=============================================================================
