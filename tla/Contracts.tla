----------------------------- MODULE Contracts ------------------------------
(***************************************************************************)
(* The documents an installation is made of - manifests, the lock file,    *)
(* the configuration and its rules - and the two independent readings of   *)
(* them: the contract checker (internal/contracts/semantic.go), and the    *)
(* code that runs them: the manifest loader (manifestload), Approve,       *)
(* config.validateSemantics, rules.Compile and app.BuildGeneration.        *)
(*                                                                         *)
(* A manifest has slots, capabilities, a limit and one operation, with at  *)
(* most one pipeline step and one asset node.  Routes, lists and limits    *)
(* are those of Grants; the name of a route is its slot, method, path,     *)
(* use and content type.  A path is one segment: a literal, "*" in a       *)
(* route, "{p}" in a request (Routes has paths in full).  An operator      *)
(* named after a check holds when that check reports nothing.              *)
(*                                                                         *)
(* The step picks documents, and the invariants compare the two readings.  *)
(***************************************************************************)
EXTENDS Input, Grants, Sequences

CONSTANT MaxText    \* bound on the characters of an expression

-----------------------------------------------------------------------------
(* The checker: manifests. *)

bodyCeiling(m) == IF m.limit = << >> THEN DefaultKB ELSE m.limit[1]

\* The authority of a route as the checker writes it.
routeIdentity(r, bodyKB) ==
    [name |-> r.name, keys |-> r.keys, maxKB |-> IF r.maxKB > 0 THEN r.maxKB ELSE bodyKB]

Covers(pattern, path) == pattern = "*" \/ pattern = path

\* A parameter that a path is written from: its type, and whether a card
\* always has it.
checkPlaceholderParam(p) == p.type \in {"string", "integer"} /\ (p.default \/ p.required)

QueryAllowed(r, step) == r.keys = << >> \/ step.keys \subseteq r.keys[1]

\* The mutant is content with any declared type.
BodyAllowedAny(r, step) == step.body = "" \/ r.name.type # ""

BodyAllowed(r, step) ==
    CASE step.body = "json" -> r.name.type \in {"json", "json;utf-8", "+json"}
      [] step.body = "form" -> r.name.type = "form"
      [] OTHER -> TRUE

checkPipelineStep(m, step) ==
    /\ step.slot \in m.slots
    /\ step.path # "expr"
    /\ step.path = "{p}" => checkPlaceholderParam(m.param)
    /\ \E r \in m.routes :
           /\ r.name.slot = step.slot /\ r.name.method = step.method /\ r.name.use = "data"
           /\ Covers(r.name.path, step.path)
           /\ QueryAllowed(r, step) /\ BodyAllowed(r, step)

checkOperation(m) ==
    /\ \A r, q \in m.routes :
           r # q => routeIdentity(r, bodyCeiling(m)) # routeIdentity(q, bodyCeiling(m))
    /\ \A r \in m.routes : /\ r.name.slot \in m.slots
                           /\ r.maxKB <= bodyCeiling(m)
                           /\ r.name.type # "bad"
                           /\ (IF r.name.use = "asset" THEN "assets" ELSE "http") \in m.caps
    /\ \A step \in m.pipeline : checkPipelineStep(m, step)
    /\ m.emitted \subseteq m.signals
    /\ \A a \in m.assets : \E r \in m.routes : r.name.slot = a.slot /\ r.name.use = "asset"

checkManifests(m) == bodyCeiling(m) <= MaxKB /\ checkOperation(m)

-----------------------------------------------------------------------------
(* The checker: the lock file, the configuration and its rules. *)

checkerEffectiveLimit(m, approved) ==
    Least({MaxKB, bodyCeiling(m), IF approved = << >> THEN DefaultKB ELSE approved[1]})

\* The mutant compares the names of routes, and not their constraints.
checkLockByName(m, e) ==
    /\ {r.name : r \in e.routes} \subseteq {r.name : r \in m.routes}
    /\ e.caps \subseteq m.caps
    /\ e.override # << >> => e.override[1] <= bodyCeiling(m)
    /\ e.limit = checkerEffectiveLimit(m, e.override)
    /\ e.digest = m.digest

checkLock(m, e) ==
    /\ {routeIdentity(r, bodyCeiling(m)) : r \in e.routes} \subseteq
           {routeIdentity(r, bodyCeiling(m)) : r \in m.routes}
    /\ e.caps \subseteq m.caps
    /\ e.override # << >> => e.override[1] <= bodyCeiling(m)
    /\ e.limit = checkerEffectiveLimit(m, e.override)
    /\ e.digest = m.digest

\* A rule makes one call, to signal or state, about a card.  The call is
\* written plainly, loosely (a space before its parenthesis, single quotes),
\* with an argument that is not a literal, or inside a string literal, where
\* it is no call at all.
checkRules(c) ==
    /\ c.rule.form \notin {"loose", "dynamic"}
    /\ c.rule.form = "plain" =>
           /\ c.rule.card = "card"
           /\ c.rule.call = "signal" => c.operation = "op" /\ c.rule.signal \in c.manifest.signals
    /\ c.notify \subseteq {"channel"}

\* The connections are "http" and "docker", called after their kinds.  The
\* card binds a set of at most one connection to the one slot, an http one,
\* which is required.
checkConfig(c) ==
    /\ c.listed
    /\ c.bound = {"http"}
    /\ c.operation = "op"
    /\ checkRules(c)

-----------------------------------------------------------------------------
(* The loader of manifests. *)

placeholderParam(p) == p.type \in {"string", "integer"} /\ (p.default \/ p.required)

\* The type of a body is compared by its prefix, where the route has one.
routeCoversRequest(r, step) ==
    /\ QueryAllowed(r, step)
    /\ step.body = "json" => r.name.type \in {"", "json", "json;utf-8"}
    /\ step.body = "form" => r.name.type \in {"", "form"}

validateRequest(m, step) ==
    /\ "http" \in m.caps
    /\ step.slot \in m.slots
    /\ step.path # "expr"
    /\ step.path = "{p}" => placeholderParam(m.param)
    /\ \E r \in m.routes :
           /\ r.name.slot = step.slot /\ r.name.method = step.method /\ r.name.use = "data"
           /\ Covers(r.name.path, step.path)
           /\ routeCoversRequest(r, step)

\* A route matches the path of an asset node that is a literal.
AssetCovered(m, a) ==
    \E r \in m.routes : /\ r.name.slot = a.slot /\ r.name.use = "asset"
                        /\ r.name.method = "GET" /\ Covers(r.name.path, a.path)

validateOutput(m) ==
    /\ \A a \in m.assets : /\ "assets" \in m.caps
                           /\ a.slot \in m.slots
                           /\ a.path # "expr" => AssetCovered(m, a)
    /\ m.emitted \subseteq m.signals

\* The schema bounds the limits of a manifest.
Loads(m) ==
    /\ bodyCeiling(m) <= MaxKB
    /\ \A step \in m.pipeline : validateRequest(m, step)
    /\ validateOutput(m)

-----------------------------------------------------------------------------
(* The configuration as the server reads it, and the generation it builds. *)

\* Any text that looks like a call counts, inside a string literal as well.
referencedCardIDs(rule) == IF rule.form \in {"plain", "quoted"} THEN {rule.card} ELSE {}

validateSemantics(c) ==
    /\ c.listed
    /\ c.bound \subseteq {"http", "docker"}
    /\ c.notify \subseteq {"channel"}
    /\ referencedCardIDs(c.rule) \subseteq {"card"}

\* The walk over the parsed expression finds the calls, however written.
Compile(rule, signals) ==
    /\ rule.form # "dynamic"
    /\ rule.form \in {"plain", "loose"} =>
           rule.card = "card" /\ (rule.call = "signal" => rule.signal \in signals)

\* Why the card of a configuration is disabled, "" when it is not.
Disabled(c) ==
    IF ~c.listed \/ ~c.enabled \/ c.source # "directory" THEN "integration-missing"
    ELSE IF ~c.loads \/ c.operation # "op" THEN "config-error"
    ELSE CASE c.lock = "none" -> "unapproved"
           [] c.lock = "stale" -> "permissions-changed"
           [] OTHER -> ""

\* The mutant declares the signals of a card only once it is approved.
SignalsOfApproved(c) == IF Disabled(c) = "" THEN c.manifest.signals ELSE {}

\* The signals a rule may name: those of an operation that was found.
SignalTypes(c) ==
    IF Disabled(c) \in {"integration-missing", "config-error"} THEN {} ELSE c.manifest.signals

\* The card's runtime refuses to load it, or the rule does not compile: either
\* way there is no generation.
BuildGeneration(c) == (Disabled(c) = "" => c.instantiates) /\ Compile(c.rule, SignalTypes(c))

-----------------------------------------------------------------------------
(* The lexer of rules. *)

Quotes == {"\"", "'"}

\* What the lexer tells apart: quotes, the backslash and the rest.
Letters == Quotes \cup {"\\", "x"}
TextSymbols == STRING \cup Letters

\* The position after the quote that closes a string, from each position in it.
EndOfString(text, quote) ==
    LET end[i \in 1 .. Len(text) + 2] ==
            IF i > Len(text) \/ text[i] = quote THEN i + 1
            ELSE end[IF text[i] = "\\" THEN i + 2 ELSE i + 1]
    IN  end

NextQuote(text, i) ==
    Least({j \in i .. Len(text) : text[j] \in Quotes} \cup {Len(text) + 1})

\* The spans from each position that is in no string, or beyond the end.
SpansFrom(text) ==
    LET spans[i \in 1 .. Len(text) + 3] ==
            LET q == NextQuote(text, i)
            IN  {i .. q - 1} \cup
                    IF q > Len(text) THEN {} ELSE spans[EndOfString(text, text[q])[q + 1]]
    IN  spans

\* The mutant closes a string at its first quote, escaped or not.
SpansUnescaped(text) ==
    SpansFrom([i \in DOMAIN text |-> IF text[i] = "\\" THEN "x" ELSE text[i]])[1]

\* The positions outside string literals, in spans.
CodeSpans(text) == SpansFrom(text)[1]

-----------------------------------------------------------------------------
(* Inputs. *)

RouteOf(slot, method, path, use, type, keys, kb) ==
    [name |-> [slot |-> slot, method |-> method, path |-> path, use |-> use, type |-> type],
     keys |-> keys, maxKB |-> kb]

Types == {"", "json", "json;utf-8", "+json", "form", "bad"}
KeyLists == {<< >>, <<{}>>, <<{"q"}>>}
PlainParam == [type |-> "string", default |-> FALSE, required |-> TRUE]
Params == {[type |-> t, default |-> d, required |-> r] :
              t \in {"none", "string", "object"}, d, r \in BOOLEAN}
Steps == {[slot |-> "s", method |-> IF b = "" THEN "GET" ELSE "POST", path |-> p, keys |-> k,
           body |-> b] : p \in {"a", "{p}", "expr"}, k \in SUBSET {"q"}, b \in {"", "json", "form"}}

Base == [slots |-> {"s"}, caps |-> {"http", "assets"}, limit |-> << >>, param |-> PlainParam,
         routes |-> {}, pipeline |-> {}, signals |-> {"x"}, emitted |-> {}, assets |-> {},
         digest |-> 1]

\* A step and the one route it may use.
PickStep ==
    \E step \in Steps, p \in {"a", "*"}, method \in {"GET", "POST"}, type \in Types,
       keys \in KeyLists, kb \in {0, MaxKB}, param \in Params :
        /\ step.path = "{p}" \/ param = PlainParam
        /\ input' = [what |-> "manifest",
                     m |-> [Base EXCEPT !.routes = {RouteOf("s", method, p, "data", type, keys, kb)},
                                        !.pipeline = {step}, !.param = param]]

\* Declarations and their uses.
PickDeclared ==
    \E slots \in SUBSET {"s"}, caps \in SUBSET {"http", "assets"},
       signals, emitted \in SUBSET {"x"},
       routes \in SUBSET {RouteOf("s", "GET", "a", "data", "", << >>, 0),
                          RouteOf("s", "GET", "a", "data", "", << >>, DefaultKB),
                          RouteOf("s", "GET", "b", "asset", "", << >>, 0)},
       limit \in {<< >>, <<1>>, <<MaxKB + 1>>},
       pipeline \in {{}, {CHOOSE s \in Steps : s.path = "a" /\ s.body = "" /\ s.keys = {}}},
       assets \in {{}} \cup {{[slot |-> "s", path |-> p]} : p \in {"a", "b", "expr"}} :
        input' = [what |-> "manifest",
                  m |-> [Base EXCEPT !.slots = slots, !.caps = caps, !.signals = signals,
                                     !.emitted = emitted, !.routes = routes, !.limit = limit,
                                     !.pipeline = pipeline, !.assets = assets]]

LockRoutes == {RouteOf("s", "GET", "a", "data", "", keys, kb) :
                  keys \in KeyLists, kb \in {0, 1, DefaultKB}}
LockLimits == {<< >>, <<1>>, <<MaxKB>>, <<MaxKB + 1>>}

\* A manifest and an entry of the lock file.
PickLock ==
    \E asked, held \in LockRoutes, caps, granted \in SUBSET {"http"},
       limit, override \in LockLimits, kb \in 1 .. MaxKB, digest \in 1 .. 2 :
        input' = [what |-> "lock",
                  m |-> [Base EXCEPT !.routes = {asked}, !.caps = caps, !.limit = limit],
                  e |-> [routes |-> {held}, caps |-> granted, override |-> override,
                         limit |-> kb, digest |-> digest]]

PickConfig ==
    \E listed, enabled, loads, instantiates \in BOOLEAN, source \in {"directory", "builtin"},
       operation \in {"op", "other"}, bound \in {{}, {"http"}, {"docker"}, {"ghost"}},
       lock \in {"none", "stale", "current"}, form \in {"plain", "loose", "dynamic", "quoted"},
       card \in {"card", "ghost"}, call \in {"signal", "state"}, signal \in {"x", "y"},
       notify \in {{}, {"ghost"}} :
        input' = [what |-> "config", manifest |-> Base, listed |-> listed, enabled |-> enabled,
                  loads |-> loads, instantiates |-> instantiates, source |-> source,
                  operation |-> operation, bound |-> bound, lock |-> lock, notify |-> notify,
                  rule |-> [form |-> form, card |-> card, call |-> call, signal |-> signal]]

PickText ==
    \E n \in 0 .. MaxText : \E text \in [1 .. n -> Letters] :
        input' = [what |-> "text", text |-> text]

ContractsNext ==
    /\ input.what = "none"
    /\ PickStep \/ PickDeclared \/ PickLock \/ PickConfig \/ PickText

ContractsSpec == InputInit /\ [][ContractsNext]_input

\* What the schemas have made sure of before either reading: a limit is positive
\* (plugin-manifest.v1), and what a rule is written in is a text.
SchemaHolds ==
    /\ input.what = "lock" =>
           {input.m.limit, input.e.override} \subseteq {<< >>} \cup [1 .. 1 -> Nat \ {0}]
    /\ input.what = "text" => input.text \in Seq(TextSymbols)

-----------------------------------------------------------------------------
(* Properties. *)

\* A manifest the contract checker has no issue with loads, and its pipeline
\* needs nothing the loader would refuse (helpers.go: these are the same
\* checks the configuration loader must perform).  Two readings differ: the
\* loader refuses a JSON body on a route whose type is only a structured
\* suffix, and a literal asset path that its slot's asset routes do not match.
CheckedLoads ==
    input.what = "manifest" /\ checkManifests(input.m)
        /\ (\A r \in input.m.routes : r.name.type # "+json")
        /\ (\A a \in input.m.assets : a.path # "expr" => AssetCovered(input.m, a))
        => Loads(input.m)

\* The lock entries the checker accepts are exactly those Approve could have
\* written for that manifest (limits.go: this mirrors the checker's
\* effectiveLimit exactly).
LockAgrees ==
    input.what = "lock" /\ checkManifests(input.m) =>
        LET grants == [caps |-> input.e.caps, routes |-> input.e.routes, limit |-> input.e.override]
        IN  checkLock(input.m, input.e) <=>
                /\ Within(input.m, grants)
                /\ input.e.limit = effectiveLimit(input.m.limit, input.e.override)
                /\ input.e.digest = input.m.digest

\* A configuration the checker has no issue with builds a generation once its
\* integration is installed and loads, approved or not; approved, its card
\* runs.  It also passes validateSemantics, which however takes a reference
\* inside a string literal for a real one.
CheckedBuilds ==
    input.what = "config" /\ checkConfig(input) =>
        /\ input.rule.form = "plain" => validateSemantics(input)
        /\ input.enabled /\ input.source = "directory" /\ input.loads /\ input.instantiates =>
               BuildGeneration(input) /\ (input.lock = "current" => Disabled(input) = "")

\* A rule's text as a lexer reads it, character by character: the quote of the
\* string it is in ("code" outside), and whether the next character is escaped.
Lexed(text) ==
    LET at[n \in 0 .. Len(text)] ==
            IF n = 0 THEN [quote |-> "code", escaped |-> FALSE]
            ELSE LET s == at[n - 1]
                 IN  [quote   |-> IF s.quote = "code" THEN IF text[n] \in Quotes THEN text[n] ELSE "code"
                                  ELSE IF ~s.escaped /\ text[n] = s.quote THEN "code" ELSE s.quote,
                      escaped |-> s.quote # "code" /\ ~s.escaped /\ text[n] = "\\"]
    IN  at

\* The spans are exactly the text outside string literals: no call hides from
\* the checker behind an escaped quote, and no string is taken for a call.
SpansAgree ==
    input.what = "text" =>
        UNION CodeSpans(input.text) =
            {k \in DOMAIN input.text :
                Lexed(input.text)[k - 1].quote = "code" /\ input.text[k] \notin Quotes}

\* Checker and server agree on manifests and their approvals: CheckedLoads and
\* LockAgrees.
ManifestsAgree == CheckedLoads /\ LockAgrees

\* Checker and server agree on configurations and the rules in them:
\* CheckedBuilds and SpansAgree.
ConfigsAgree == CheckedBuilds /\ SpansAgree
=============================================================================
