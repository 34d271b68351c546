----------------------------- MODULE Declarative -----------------------------
(***************************************************************************)
(* One invocation of a declarative integration                             *)
(* (internal/integrations/declarative): the pipeline of requests, the      *)
(* evaluation of templates against one mutable environment, and the budget *)
(* that all of it shares.                                                  *)
(*                                                                         *)
(* A template is a record with a kind.  The code ranges over Go maps,      *)
(* whose order is random, so an evaluation is the set of its outcomes.     *)
(* An expression is a name, a builtin that charges for its collection, or  *)
(* take.                                                                   *)
(*                                                                         *)
(* The module is one step long: it picks an operation, what the upstream   *)
(* answers and the budget, and the invariants are about the outcomes.      *)
(***************************************************************************)
EXTENDS Input, Integers, SequencesExt

CONSTANTS
    MaxIterations,  \* the budget of iterations goes up to this
    MaxChecks       \* the context may be done after so many checks, or fewer

-----------------------------------------------------------------------------
(* Values. *)

Null == [null |-> TRUE]
Bool(b) == [bool |-> b]
Str(x) == [str |-> x]
List(items) == [items |-> items]
Obj(fields) == [fields |-> fields]

\* What a false `if` evaluates to.
Omitted == [omitted |-> TRUE]

Has(value, kind) == kind \in DOMAIN value
IsString(value) == Has(value, "str") \/ Has(value, "ref")

\* The private sentinel has no exported field: it is written as an empty object.
Marshal(value) == IF value = Omitted THEN Obj(<< >>) ELSE value

-----------------------------------------------------------------------------
(* The budget.  `left` is the iterations left and `live` the checks that     *)
(* find the context not yet done.                                            *)

Got(value, s) == [ok |-> TRUE, val |-> value, s |-> s]
Failed(s) == [ok |-> FALSE, s |-> s]

\* The outcomes of a second step after those of a first.
Then(outcomes, next(_, _)) == UNION {IF o.ok THEN next(o.val, o.s) ELSE {o} : o \in outcomes}

check(s) == [s EXCEPT !.live = @ - 1]

template(s) == [check(s) EXCEPT !.left = @ - 1]

length(value) ==
    IF Has(value, "items") THEN Len(value.items)
    ELSE IF Has(value, "fields") THEN Cardinality(DOMAIN value.fields) ELSE 0

\* The least c with n * log2(n) <= c, for sorting and folding.
Cost(name, n) ==
    IF name = "sortBy" /\ n > 1
    THEN CHOOSE c \in 0 .. n * n : 2 ^ c >= n ^ n /\ 2 ^ (c - 1) < n ^ n
    ELSE n

charge(value, name, s) ==
    LET cost == Cost(name, length(value))
    IN  IF s.live = 0 \/ cost > s.left THEN Failed(s)
        ELSE Got(value, [check(s) EXCEPT !.left = @ - cost])

\* A name that is not bound is null.
Named(name, env) == IF name \in DOMAIN env THEN env[name] ELSE Null

\* A compiled expression.  The builtins refuse what is not a collection.
run(e, s) ==
    LET v == Named(e.name, s.env)
        n == IF length(v) < e.count THEN length(v) ELSE e.count
    IN  IF e.op = "name" THEN Got(v, s)
        ELSE IF ~Has(v, "items") THEN Failed(s)
        ELSE IF e.op # "take" THEN charge(v, e.op, s)
        ELSE IF n > s.left THEN Failed(s)
        ELSE Got(List(SubSeq(v.items, 1, n)), [s EXCEPT !.left = @ - n])

-----------------------------------------------------------------------------
(* Templates. *)

Bound(env, as, value) == (as :> value) @@ env

\* The mutant forgets that the name may have been bound before.
Unbind(before, now, as) == [k \in DOMAIN now \ {as} |-> now[k]]

Restored(before, now, as) ==
    IF as \in DOMAIN before THEN [now EXCEPT ![as] = before[as]]
    ELSE [k \in DOMAIN now \ {as} |-> now[k]]

RECURSIVE eval(_, _), evalArray(_, _), evalObject(_, _, _), evalEach(_, _, _), evalStrings(_, _, _)

evalString(t, s) ==
    {IF o.ok /\ ~IsString(o.val) THEN Failed(o.s) ELSE o : o \in eval(t, s)}

\* The values of some keys, in any order.
evalStrings(of, keys, s) ==
    IF keys = {} THEN {Got(<< >>, s)}
    ELSE UNION {Then(evalString(of[k], s), LAMBDA v, s1 :
                    Then(evalStrings(of, keys \ {k}, s1), LAMBDA f, s2 :
                        {Got((k :> v) @@ f, s2)})) : k \in keys}

evalArray(ts, s) ==
    IF ts = << >> THEN {Got(<< >>, s)}
    ELSE Then(eval(Head(ts), s), LAMBDA v, s1 :
             Then(evalArray(Tail(ts), s1), LAMBDA vs, s2 :
                 {Got(IF v = Omitted THEN vs ELSE <<v>> \o vs, s2)}))

evalObject(of, keys, s) ==
    IF keys = {} THEN {Got(<< >>, s)}
    ELSE UNION {Then(eval(of[k], s), LAMBDA v, s1 :
                    Then(evalObject(of, keys \ {k}, s1), LAMBDA f, s2 :
                        {Got(IF v = Omitted THEN f ELSE (k :> v) @@ f, s2)})) : k \in keys}

\* One item after another, each bound to the name for its own evaluation.
evalEach(t, items, s) ==
    IF items = << >> THEN {Got(<< >>, s)}
    ELSE LET outcomes == eval(t.item, [s EXCEPT !.env = Bound(@, t.as, Head(items))])
         IN  Then({[o EXCEPT !.s.env = Restored(s.env, @, t.as)] : o \in outcomes}, LAMBDA v, s1 :
                 Then(evalEach(t, Tail(items), s1), LAMBDA vs, s2 :
                     {Got(IF v = Omitted THEN vs ELSE <<v>> \o vs, s2)}))

eval(t, s0) ==
    IF s0.left < 1 \/ s0.live = 0 THEN {Failed(s0)}
    ELSE LET s == template(s0)
         IN  CASE t.kind = "literal" -> {Got(t.val, s)}
               [] t.kind = "expr" -> {run(t.expr, s)}
               [] t.kind = "array" ->
                      Then(evalArray(t.of, s), LAMBDA vs, s1 : {Got(List(vs), s1)})
               [] t.kind = "object" ->
                      Then(evalObject(t.of, DOMAIN t.of, s), LAMBDA f, s1 : {Got(Obj(f), s1)})
               [] t.kind = "cond" ->
                      Then({run(t.cond, s)}, LAMBDA v, s1 :
                          IF ~Has(v, "bool") THEN {Failed(s1)}
                          ELSE IF v.bool THEN eval(t.then, s1) ELSE {Got(Omitted, s1)})
               [] t.kind = "each" ->
                      Then({run(t.over, s)}, LAMBDA v, s1 :
                          IF ~Has(v, "items") THEN {Failed(s1)}
                          ELSE Then(evalEach(t, v.items, s1), LAMBDA vs, s2 : {Got(List(vs), s2)}))
               [] t.kind = "asset" ->
                      Then(evalString(t.path, s), LAMBDA p, s1 :
                          Then(evalStrings(t.query, DOMAIN t.query, s1), LAMBDA q, s2 :
                              {Got([ref |-> p, query |-> q], s2)}))

-----------------------------------------------------------------------------
(* Invoke.  A step is [as, when, query, body], `when` an expression or none, *)
(* `body` a JSON template, form fields or none.  An answer of the upstream   *)
(* is [status, size, val].                                                   *)

Body(step, s) ==
    IF step.body.kind = "none" THEN {Got(Null, s)}
    ELSE IF step.body.kind = "json"
    THEN Then(eval(step.body.of, s), LAMBDA v, s1 : {Got(Marshal(v), s1)})
    ELSE Then(evalStrings(step.body.of, DOMAIN step.body.of, s), LAMBDA f, s1 : {Got(Obj(f), s1)})

\* The bytes of all answers share one budget.  The decoded answer is bound to
\* the name of its step.
decodeJSON(answer, step, s) ==
    IF answer.size > s.bytes THEN Failed(s)
    ELSE Got(Null, [s EXCEPT !.bytes = @ - answer.size, !.env = Bound(@, step.as, answer.val)])

\* The request is sent and its answer taken in.  Status 0 is a request the
\* broker refuses or that gets no answer.
Respond(step, query, body, answer, s) ==
    LET sent == [s EXCEPT !.sent = Append(@, [query |-> query, body |-> body, answer |-> answer])]
    IN  IF answer.status \notin 200 .. 299 THEN Failed(sent) ELSE decodeJSON(answer, step, sent)

RECURSIVE Pipeline(_, _, _)
Pipeline(steps, answers, s0) ==
    IF steps = << >> THEN {Got(Null, s0)}
    ELSE IF s0.live = 0 THEN {Failed(s0)}
    ELSE LET step == Head(steps)
             s    == check(s0)
             when == IF step.when = << >> THEN Got(Bool(TRUE), s) ELSE run(step.when[1], s)
         IN  Then({when}, LAMBDA w, s1 :
                 IF w # Bool(TRUE) THEN Pipeline(Tail(steps), answers, s1)
                 ELSE Then(evalStrings(step.query, DOMAIN step.query, s1), LAMBDA q, s2 :
                     Then(Body(step, s2), LAMBDA b, s3 :
                         Then({Respond(step, q, b, answers[step.as], s3)}, LAMBDA v, s4 :
                             Pipeline(Tail(steps), answers, s4)))))

Signals(doc) == IF "signals" \in DOMAIN doc.fields THEN doc.fields["signals"].fields ELSE << >>

\* The widget schema: an object with a version and blocks, and signals with
\* values if there are any.
ValidDocument(doc) ==
    /\ Has(doc, "fields")
    /\ {"schemaVersion", "blocks"} \subseteq DOMAIN doc.fields
    /\ DOMAIN doc.fields \subseteq {"schemaVersion", "blocks", "signals"}
    /\ Has(doc.fields["blocks"], "items")
    /\ "signals" \in DOMAIN doc.fields =>
          /\ Has(doc.fields["signals"], "fields")
          /\ \A name \in DOMAIN Signals(doc) :
                 Has(Signals(doc)[name], "str") \/ Has(Signals(doc)[name], "bool")

\* The mutant trusts that the loader has checked the names of signals.
SignalsTyped(doc, declared) ==
    \A name \in DOMAIN Signals(doc) \cap DOMAIN declared : Has(Signals(doc)[name], declared[name])

SignalsAllowed(doc, declared) ==
    /\ \A name \in DOMAIN Signals(doc) \cap DOMAIN declared :
           Has(Signals(doc)[name], declared[name])
    /\ DOMAIN Signals(doc) \subseteq DOMAIN declared

\* The document: the version is added to an object only.
Document(value) ==
    IF Has(value, "fields") THEN Obj(("schemaVersion" :> Str("1")) @@ value.fields)
    ELSE Marshal(value)

Invoke(op, answers, s) ==
    Then(Pipeline(op.pipeline, answers, s), LAMBDA ran, s1 :
        Then(eval(op.output, s1), LAMBDA value, s2 :
            LET doc == Document(value)
            IN  {IF ValidDocument(doc) /\ SignalsAllowed(doc, op.signals) THEN Got(doc, s2)
                 ELSE Failed(s2)}))

\* What the loader has proved of an output: a signal written out is declared.
validateOutput(t, declared) ==
    t.kind = "object" /\ "signals" \in DOMAIN t.of /\ t.of["signals"].kind = "object"
        => DOMAIN t.of["signals"].of \subseteq DOMAIN declared

-----------------------------------------------------------------------------
(* Inputs. *)

Lit(value) == [kind |-> "literal", val |-> value]
Name(name) == [kind |-> "expr", expr |-> [op |-> "name", name |-> name, count |-> 0]]
If(name, then) == [kind |-> "cond", cond |-> [op |-> "name", name |-> name, count |-> 0],
                   then |-> then]
Each(op, name, as, item) ==
    [kind |-> "each", over |-> [op |-> op, name |-> name, count |-> 1], as |-> as, item |-> item]
Array(ts) == [kind |-> "array", of |-> ts]
Object(of) == [kind |-> "object", of |-> of]

Answers == {Str("x"), List(<<Bool(TRUE), Bool(FALSE)>>), List(<<Str("x"), Str("y"), Str("z")>>),
            List(<<List(<<Bool(FALSE), Str("x")>>), List(<< >>)>>)}

Leaves == {Lit(Str("l")), Name("item"), Name("r")}
Inner == Leaves \cup {If(n, t) : n \in {"item", "r"}, t \in Leaves \ {Lit(Str("l"))}}
            \cup {Each(op, n, as, t) : op \in {"name", "filter", "sortBy", "take"},
                                      n \in {"item", "r"}, as \in {"item", "r"}, t \in Leaves}
Outer == {Array(<<t, u>>) : t, u \in Inner}
            \cup {Object([a |-> t, b |-> u]) : t \in Inner, u \in Inner}
            \cup {Each("name", "r", as, t) : as \in {"item", "r"}, t \in Inner}
            \cup {Each("name", "r", "item", Each("filter", "item", as, If(as, t))) :
                      as \in {"item", "r"}, t \in Inner}
            \cup {If("r", t) : t \in Inner}
            \cup {[kind |-> "asset", path |-> t, query |-> [a |-> u]] : t \in Inner, u \in Leaves}

Fresh(left, live, env) ==
    [left |-> left, live |-> live, bytes |-> 2, env |-> env, sent |-> << >>]

PickTemplate ==
    \E t \in Outer, r \in Answers, left \in {3, MaxIterations}, live \in {4, MaxChecks} :
        input' = [what |-> "expression", t |-> t, s |-> Fresh(left, live, [r |-> r])]

Bodies == {[kind |-> "none"], [kind |-> "form", of |-> [f |-> Name("r")]]}
              \cup {[kind |-> "json", of |-> t] :
                        t \in {If("r", Name("r")), Array(<<If("r", Name("r"))>>)}}
Outputs == {Object([blocks |-> Each("filter", "q", "r", Name("r")), signals |-> t]) :
               t \in {Name("r"), Object([n |-> Name("r")]), If("r", Object([n |-> Name("r")]))}}
              \cup {If("r", Object([blocks |-> Array(<< >>)]))}

PickOperation ==
    \E body \in Bodies, output \in Outputs, when \in {<< >>, <<Name("r").expr>>},
       query \in {Name("r"), Lit(Str("l")), If("r", Lit(Str("l")))},
       signals \in {<< >>, [n |-> "str"], [n |-> "bool"]},
       r \in Answers \cup {Bool(TRUE), Bool(FALSE), Obj([n |-> Str("x")])}, q \in Answers,
       status \in {0, 200, 500}, size \in 1 .. 2, left \in {5, MaxIterations} :
        /\ validateOutput(output, signals)
        /\ input' = [what |-> "operation",
                     op |-> [output |-> output, signals |-> signals,
                             pipeline |-> <<[as |-> "r", when |-> << >>, query |-> << >>,
                                             body |-> [kind |-> "none"]],
                                            [as |-> "q", when |-> when, query |-> [k |-> query],
                                             body |-> body]>>],
                     answers |-> [r |-> [status |-> 200, size |-> 1, val |-> r],
                                  q |-> [status |-> status, size |-> size, val |-> q]],
                     s |-> Fresh(left, MaxChecks, << >>)]

Next == input.what = "none" /\ (PickTemplate \/ PickOperation)

Spec == InputInit /\ [][Next]_input

-----------------------------------------------------------------------------
(* Properties. *)

\* What an expression and a template mean in an environment that nothing ever
\* changes: the value, the iterations it costs and the checks of the context,
\* or {} for an error.
Denotes(e, env) ==
    LET v == Named(e.name, env)
        n == IF e.op = "take" /\ length(v) > e.count THEN e.count ELSE length(v)
    IN  IF e.op = "name" THEN {[val |-> v, cost |-> 0, checks |-> 0]}
        ELSE IF ~Has(v, "items") THEN {}
        ELSE {[val |-> List(IF e.op = "take" THEN SubSeq(v.items, 1, n) ELSE v.items),
               cost |-> Cost(e.op, n), checks |-> IF e.op = "take" THEN 0 ELSE 1]}

Only(S) == CHOOSE x \in S : TRUE

RECURSIVE Means(_, _)
Means(t, env) ==
    LET Whole(value(_), subs) ==
            LET of == [k \in DOMAIN subs |-> Only(subs[k])]
            IN  IF \E k \in DOMAIN subs : subs[k] = {} THEN {}
                ELSE {[val |-> value([k \in DOMAIN subs |-> of[k].val]),
                       cost |-> 1 + MapThenSumSet(LAMBDA k : of[k].cost, DOMAIN subs),
                       checks |-> 1 + MapThenSumSet(LAMBDA k : of[k].checks, DOMAIN subs)]}
        Kept(vs) == List(SelectSeq(vs, LAMBDA v : v # Omitted))
        Text(S) == {m \in S : IsString(m.val)}
    IN  CASE t.kind = "literal" -> Whole(LAMBDA vs : t.val, << >>)
          [] t.kind = "expr" -> Whole(LAMBDA vs : vs[1], <<Denotes(t.expr, env)>>)
          [] t.kind = "array" -> Whole(Kept, [k \in DOMAIN t.of |-> Means(t.of[k], env)])
          [] t.kind = "object" ->
                 Whole(LAMBDA vs : Obj([k \in {k \in DOMAIN vs : vs[k] # Omitted} |-> vs[k]]),
                       [k \in DOMAIN t.of |-> Means(t.of[k], env)])
          [] t.kind = "cond" ->
                 UNION {IF m.val = Bool(TRUE)
                        THEN Whole(LAMBDA vs : vs[2], <<{m}, Means(t.then, env)>>)
                        ELSE Whole(LAMBDA vs : Omitted, <<{m}>>) :
                        m \in {x \in Denotes(t.cond, env) : Has(x.val, "bool")}}
          [] t.kind = "each" ->
                 UNION {Whole(LAMBDA vs : Kept(Tail(vs)),
                              <<{m}>> \o [k \in DOMAIN m.val.items |->
                                            Means(t.item, Bound(env, t.as, m.val.items[k]))]) :
                        m \in {x \in Denotes(t.over, env) : Has(x.val, "items")}}
          [] t.kind = "asset" ->
                 Whole(LAMBDA vs : [ref |-> vs["path"], query |-> [a |-> vs["a"]]],
                       [path |-> Text(Means(t.path, env)), a |-> Text(Means(t.query["a"], env))])

\* Whatever the order in which Go ranges over its maps, a template evaluates to
\* what it means under lexical scope, within exactly the iterations it costs,
\* and leaves the environment as it was; and it fails in one order only if it
\* fails in all (runtime.go saves and restores the name of `each`, budget.go
\* charges every node and collection once).
EvaluatesAsWritten ==
    input.what = "expression" =>
        LET s     == input.s
            means == {m \in Means(input.t, s.env) : m.cost <= s.left /\ m.checks <= s.live}
        IN  \A o \in eval(input.t, s) :
                /\ o.ok <=> means # {}
                /\ o.ok => \A m \in means : /\ o.val = m.val
                                            /\ o.s = [s EXCEPT !.left = @ - m.cost,
                                                               !.live = @ - m.checks]

RECURSIVE HasOmitted(_)
HasOmitted(value) ==
    \/ value = Omitted
    \/ Has(value, "items") /\ \E v \in Range(value.items) : HasOmitted(v)
    \/ Has(value, "fields") /\ \E k \in DOMAIN value.fields : HasOmitted(value.fields[k])

\* A document that comes out of an invocation has the signals the operation
\* declares and no other, with the types it declares, although the loader sees
\* only those that are written out; nothing in it is a value that was omitted;
\* and it rests on successful answers only.
OnlyDeclared ==
    input.what = "operation" =>
        \A o \in Invoke(input.op, input.answers, input.s) : o.ok =>
            /\ DOMAIN Signals(o.val) \subseteq DOMAIN input.op.signals
            /\ \A n \in DOMAIN Signals(o.val) : Has(Signals(o.val)[n], input.op.signals[n])
            /\ ~HasOmitted(o.val)
            /\ \A k \in DOMAIN o.s.sent : o.s.sent[k].answer.status \in 200 .. 299

\* An operation does what its manifest says: EvaluatesAsWritten for every part of
\* it, OnlyDeclared for what comes out.
InvokesAsWritten == EvaluatesAsWritten /\ OnlyDeclared
=============================================================================
