------------------------------- MODULE Rules -------------------------------
(***************************************************************************)
(* The rule engine: internal/rules/manager.go, the rule_state table of     *)
(* internal/storage/rules.go and the steps of main.go that install rules.  *)
(*                                                                         *)
(* An evaluation holds Manager.mu from its snapshot of the cards to its    *)
(* last rule, and commits one transaction per rule.  Cards change, time    *)
(* passes and the process ends between these; Apply reads rule_state       *)
(* before it takes the mutex.                                              *)
(*                                                                         *)
(* A deadline is the time left until it: wait is -1 when since is zero.    *)
(* resolved_at, last_result and severity are written and never read, and   *)
(* are left out.  A predicate is its result, which Evaluate computes from  *)
(* the cards: true, false, unknown, or unknown because a signal has the    *)
(* wrong type.                                                             *)
(***************************************************************************)
EXTENDS Integers, FiniteSets

CONSTANTS
    RuleIDs,    \* rules
    Hashes,     \* hashes of rule definitions
    For,        \* the for: of a definition
    Resolve,    \* the definitions that announce their resolution
    Configs,    \* rule configurations: functions from RuleIDs to Hashes and None
    Buffer,     \* updates that wait, with the one the goroutine has taken (33 in the code)
    MaxFaults,  \* bound: failing store calls
    MaxReloads, \* bound: reloads
    MaxStarts,  \* bound: starts of the process
    None

ASSUME RulesAssumption ==
    /\ For \in [Hashes -> Nat] /\ Resolve \subseteq Hashes
    /\ Configs \subseteq [RuleIDs -> Hashes \cup {None}] /\ None \notin Hashes

ASSUME BoundsAssumption ==
    /\ Buffer \in Nat \ {0}
    /\ MaxFaults \in Nat /\ MaxReloads \in Nat /\ MaxStarts \in Nat \ {0}

VARIABLES
    result,    \* what each predicate yields on the cards as they are
    updates,   \* updates queued for the goroutine, or Closed
    defs,      \* Manager.definitions
    states,    \* Manager.states
    timers,    \* Manager.timers
    callbacks, \* callbacks of timers that fired
    active,    \* Manager.active
    eval,      \* the evaluation that holds the mutex
    act,       \* the activation under way
    table,     \* rule_state
    open,      \* rule.fired events in the log that no rule.resolved follows
    warned,    \* rule.signal-type events of the current episode
    faults, reloads, starts

memory == <<defs, states, timers, callbacks, active>>
log == <<open, warned>>
bounds == <<faults, reloads, starts>>
vars == <<result, updates, memory, eval, act, table, log, bounds>>

Closed == -1
Results == {"true", "false", "unknown", "wrong"}

RuleState == [hash : Hashes, wait : Int, fired : BOOLEAN, wrong : BOOLEAN]
RuleTimer == [hash : Hashes, wait : Int]
Evaluation ==
    [todo : SUBSET RuleIDs, seen : [RuleIDs -> Results], by : {"update", "timer", "activation"}]

ASSUME NoneAssumption == None \notin RuleState \cup RuleTimer \cup Evaluation

New(h) == [hash |-> h, wait |-> -1, fired |-> FALSE, wrong |-> FALSE]

Idle == [phase |-> "idle"]
Failed == [phase |-> "failed"]
Off == [phase |-> "off"]

\* Manager.Apply has begun to read the states of the definitions in d.
Reading(d, from, why) ==
    [phase |-> "read", to |-> d, from |-> from, why |-> why, read |-> [r \in RuleIDs |-> None]]

Blank == [r \in RuleIDs |-> None]

Init ==
    /\ result \in [RuleIDs -> Results]
    /\ updates = 0
    /\ defs = Blank /\ states = Blank /\ timers = Blank /\ callbacks = {} /\ active = FALSE
    /\ eval = None
    /\ \E d \in Configs : act = Reading(d, Blank, "start")
    /\ table = Blank
    /\ open = [r \in RuleIDs |-> 0] /\ warned = [r \in RuleIDs |-> 0]
    /\ faults = 0 /\ reloads = 0 /\ starts = 1

Up == act.phase # "off"
Configured == {r \in RuleIDs : defs[r] # None}
Fault == faults < MaxFaults /\ faults' = faults + 1 /\ UNCHANGED <<reloads, starts>>
-----------------------------------------------------------------------------
(***************************************************************************)
(* The scheduler commits a card and publishes the update.                  *)
(***************************************************************************)
CardsChange(t) ==
    /\ Up
    /\ result' = t
    /\ updates' = IF updates = Closed \/ updates = Buffer THEN Closed ELSE updates + 1
    /\ UNCHANGED <<memory, eval, act, table, log, bounds>>

(***************************************************************************)
(* evaluateAll takes the mutex and a snapshot of the cards.                *)
(***************************************************************************)
Evaluating(by) ==
    eval' = IF active THEN [todo |-> Configured, seen |-> result, by |-> by] ELSE eval

\* The goroutine of NewWithNotifier.
Receive ==
    /\ Up /\ updates > 0 /\ eval = None
    /\ updates' = updates - 1
    /\ Evaluating("update")
    /\ UNCHANGED <<result, memory, act, table, log, bounds>>

TimerFires(r) ==
    /\ timers[r] # None /\ timers[r].wait = 0
    /\ callbacks' = callbacks \cup {[rule |-> r, hash |-> timers[r].hash, checked |-> FALSE]}
    /\ timers' = [timers EXCEPT ![r] = None]
    /\ UNCHANGED <<result, updates, defs, states, active, eval, act, table, log, bounds>>

\* The callback looks its definition up, releases the mutex ...
CallbackChecks(c) ==
    /\ eval = None /\ ~c.checked
    /\ callbacks' = (callbacks \ {c}) \cup
                    {[c EXCEPT !.checked = TRUE] : x \in {r \in Configured : r = c.rule /\ defs[r] = c.hash}}
    /\ UNCHANGED <<result, updates, defs, states, timers, active, eval, act, table, log, bounds>>

\* ... and evaluates.
CallbackEvaluates(c) ==
    /\ eval = None /\ c.checked
    /\ callbacks' = callbacks \ {c}
    /\ Evaluating("timer")
    /\ UNCHANGED <<result, updates, defs, states, timers, active, act, table, log, bounds>>
-----------------------------------------------------------------------------
(***************************************************************************)
(* evaluateLocked.                                                         *)
(***************************************************************************)

\* The time left once the predicate has yielded x.
WaitAfter(s, x) == IF x # "true" THEN -1 ELSE IF s.wait = -1 THEN For[s.hash] ELSE s.wait

\* Mutant: a rule that has fired fires again.
FiresAgain(s, x) == x = "true" /\ WaitAfter(s, x) = 0

Fires(s, x) == x = "true" /\ WaitAfter(s, x) = 0 /\ ~s.fired

Resolves(s, x) == x = "false" /\ s.fired

After(s, x) ==
    [s EXCEPT !.wait = WaitAfter(s, x), !.fired = (@ \/ Fires(s, x)) /\ ~Resolves(s, x), !.wrong = (x = "wrong")]

\* Mutant: only the evaluation that starts the window sets the timer.
TimerOnce(s, x) ==
    IF x = "true" /\ s.wait = -1 /\ WaitAfter(s, x) > 0 THEN [hash |-> s.hash, wait |-> WaitAfter(s, x)] ELSE None

\* The timer is stopped, and set again while the rule waits.
Timer(s, x) ==
    IF x = "true" /\ ~s.fired /\ WaitAfter(s, x) > 0 THEN [hash |-> s.hash, wait |-> WaitAfter(s, x)] ELSE None

(***************************************************************************)
(* CommitRuleTransition: the row, and the event and the notifications that *)
(* go with it.  A row of another definition starts the log anew.           *)
(***************************************************************************)
Commit(r, s, x) ==
    LET same == table[r] # None /\ table[r].hash = s.hash
        before == IF same THEN open[r] ELSE 0
        episode == IF same /\ x = "wrong" THEN warned[r] ELSE 0
    IN /\ table' = [table EXCEPT ![r] = After(s, x)]
       /\ open' = [open EXCEPT ![r] = IF s.hash \notin Resolve THEN 0
                                      ELSE IF Fires(s, x) THEN before + 1
                                      ELSE IF Resolves(s, x) THEN before - 1 ELSE before]
       /\ warned' = [warned EXCEPT ![r] = IF x = "wrong" /\ ~s.wrong THEN episode + 1 ELSE episode]

EvaluateRule(r) ==
    /\ eval # None /\ r \in eval.todo
    /\ Commit(r, states[r], eval.seen[r])
    /\ states' = [states EXCEPT ![r] = After(states[r], eval.seen[r])]
    /\ timers' = [timers EXCEPT ![r] = Timer(states[r], eval.seen[r])]
    /\ eval' = [eval EXCEPT !.todo = @ \ {r}]
    /\ UNCHANGED <<result, updates, defs, callbacks, active, act, bounds>>

\* What the error of the initial evaluation does: the process gives up, or rolls the reload back.
Abandoned(a) ==
    CASE a.why = "start" -> Failed
      [] a.why = "reload" -> Reading(a.from, a.from, "rollback")
      [] a.why = "rollback" -> Idle

\* The predicate, the preparation of the alert or the transaction fails, and evaluateAll returns;
\* by then the timer may have been stopped or set.
EvaluateFails(r) ==
    /\ eval # None /\ r \in eval.todo /\ Fault
    /\ \/ timers' = timers
       \/ timers' = [timers EXCEPT ![r] = Timer(states[r], eval.seen[r])]
    /\ eval' = None
    /\ act' = IF eval.by = "activation" THEN Abandoned(act) ELSE act
    /\ UNCHANGED <<result, updates, defs, states, callbacks, active, table, log>>

EvaluationEnds ==
    /\ eval # None /\ eval.todo = {}
    /\ eval' = None
    /\ act' = IF eval.by = "activation" THEN Idle ELSE act
    /\ UNCHANGED <<result, updates, memory, table, log, bounds>>
-----------------------------------------------------------------------------
(***************************************************************************)
(* Start-up and activateRuntime: Apply, the scheduler's Apply, Evaluate.   *)
(***************************************************************************)
Reload(d) ==
    /\ act = Idle /\ reloads < MaxReloads
    /\ act' = Reading(d, defs, "reload")
    /\ reloads' = reloads + 1
    /\ UNCHANGED <<result, updates, memory, eval, table, log, faults, starts>>

\* Mutant: the row of another definition is restored.
ApplyReadsAny(r) ==
    /\ act.phase = "read" /\ act.to[r] # None /\ act.read[r] = None
    /\ act' = [act EXCEPT !.read[r] = IF table[r] # None THEN table[r] ELSE New(act.to[r])]
    /\ UNCHANGED <<result, updates, memory, eval, table, log, bounds>>

\* GetRuleState, outside the mutex.
ApplyReads(r) ==
    /\ act.phase = "read" /\ act.to[r] # None /\ act.read[r] = None
    /\ act' = [act EXCEPT !.read[r] =
                 IF table[r] # None /\ table[r].hash = act.to[r] THEN table[r] ELSE New(act.to[r])]
    /\ UNCHANGED <<result, updates, memory, eval, table, log, bounds>>

\* The error of Apply; a reload that has changed nothing has nothing to roll back.
ApplyFails ==
    /\ act.phase = "read" /\ Fault
    /\ act' = IF act.why = "start" THEN Failed ELSE Idle
    /\ UNCHANGED <<result, updates, memory, eval, table, log>>

ApplySwaps ==
    /\ act.phase = "read" /\ eval = None
    /\ \A r \in RuleIDs : act.to[r] # None => act.read[r] # None
    /\ defs' = act.to /\ states' = act.read /\ timers' = Blank /\ active' = FALSE
    /\ act' = [act EXCEPT !.phase = "swapped"]
    /\ UNCHANGED <<result, updates, callbacks, eval, table, log, bounds>>

\* The scheduler refuses its part of the configuration.
SchedulerFails ==
    /\ act.phase = "swapped" /\ act.why = "reload" /\ Fault
    /\ act' = Abandoned(act)
    /\ UNCHANGED <<result, updates, memory, eval, table, log>>

\* Evaluate: one critical section sets active, the next evaluates.
Activate ==
    /\ act.phase = "swapped" /\ eval = None
    /\ active' = TRUE
    /\ act' = [act EXCEPT !.phase = "evaluate"]
    /\ UNCHANGED <<result, updates, defs, states, timers, callbacks, eval, table, log, bounds>>

ActivationEvaluates ==
    /\ act.phase = "evaluate" /\ eval = None
    /\ Evaluating("activation")
    /\ act' = [act EXCEPT !.phase = "evaluating"]
    /\ UNCHANGED <<result, updates, memory, table, log, bounds>>
-----------------------------------------------------------------------------
\* The process ends, at any point or because it failed to start; only the table is left.
Stop ==
    /\ Up
    /\ act' = Off
    /\ updates' = 0 /\ eval' = None
    /\ defs' = Blank /\ states' = Blank /\ timers' = Blank /\ callbacks' = {} /\ active' = FALSE
    /\ UNCHANGED <<result, table, log, bounds>>

Start(d) ==
    /\ act = Off /\ starts < MaxStarts
    /\ starts' = starts + 1
    /\ act' = Reading(d, Blank, "start")
    /\ result' \in [RuleIDs -> Results]
    /\ UNCHANGED <<updates, memory, eval, table, log, faults, reloads>>

Aged(s) == IF s # None /\ s.wait > 0 THEN [s EXCEPT !.wait = @ - 1] ELSE s
AllAged(f) == [r \in RuleIDs |-> Aged(f[r])]

TimePasses ==
    /\ \E r \in RuleIDs : \E s \in {states[r], table[r], timers[r]} : Aged(s) # s
    /\ states' = AllAged(states) /\ table' = AllAged(table) /\ timers' = AllAged(timers)
    /\ act' = IF act.phase = "read" THEN [act EXCEPT !.read = AllAged(@)] ELSE act
    /\ UNCHANGED <<result, updates, defs, callbacks, active, eval, log, bounds>>

EvaluationStep ==
    \/ \E r \in RuleIDs : EvaluateRule(r) \/ EvaluateFails(r)
    \/ EvaluationEnds

ActivationStep ==
    \/ \E r \in RuleIDs : ApplyReads(r)
    \/ ApplyFails \/ ApplySwaps \/ SchedulerFails \/ Activate \/ ActivationEvaluates

Next ==
    \/ \E t \in [RuleIDs -> Results] : CardsChange(t)
    \/ Receive
    \/ \E r \in RuleIDs : TimerFires(r)
    \/ \E c \in callbacks : CallbackChecks(c) \/ CallbackEvaluates(c)
    \/ EvaluationStep \/ ActivationStep
    \/ \E d \in Configs : Reload(d) \/ Start(d)
    \/ Stop \/ TimePasses

Spec == Init /\ [][Next]_vars

(***************************************************************************)
(* Evaluations and activations go on, timers fire, time passes, and Go's   *)
(* mutex lets every goroutine that waits for it in.  A process that ended  *)
(* is started again while the bound allows.                                *)
(***************************************************************************)
FairSpec ==
    /\ Spec
    /\ WF_vars(EvaluationStep) /\ SF_vars(ActivationStep) /\ SF_vars(Receive)
    /\ \A r \in RuleIDs : WF_vars(TimerFires(r))
    /\ SF_vars(\E c \in callbacks : CallbackChecks(c) \/ CallbackEvaluates(c))
    /\ WF_vars(TimePasses)
    /\ WF_vars(act = Failed /\ Stop) /\ WF_vars(\E d \in Configs : Start(d))
-----------------------------------------------------------------------------
(***************************************************************************)
(* Properties.                                                             *)
(***************************************************************************)
State(h) == [hash : {h}, wait : -1..For[h], fired : BOOLEAN, wrong : BOOLEAN]

\* What waits in memory or in a timer waits for the definition in force, and never longer than its
\* for:, which is what GetRuleState is careful about when it finds the row of another definition.
OwnDeadlines ==
    \A r \in RuleIDs :
        /\ IF defs[r] = None THEN states[r] = None ELSE states[r] \in State(defs[r])
        /\ timers[r] # None => timers[r].wait \in 0..For[timers[r].hash] /\ timers[r].hash = defs[r]
        /\ table[r] # None => table[r] \in State(table[r].hash)

\* The event log tells the truth about the table whatever failed or ended in between: a rule that
\* resolves is announced as fired exactly when it is fired, never twice in a row, and a signal of
\* the wrong type once per episode (evaluateLocked, CommitRuleTransition).
LogAgrees ==
    \A r \in RuleIDs : table[r] # None =>
        /\ table[r].hash \in Resolve => open[r] = IF table[r].fired THEN 1 ELSE 0
        /\ warned[r] = IF table[r].wrong THEN 1 ELSE 0

\* What a rule of definition h is restored with.
Stored(r, h) == IF table[r] # None /\ table[r].hash = h THEN table[r] ELSE New(h)

\* While rules are evaluated, memory is what a restart would restore, and so is what Apply has read
\* and swapped in: a failed transaction changes neither memory nor table (evaluateLocked assigns
\* m.states after the commit).
InStep ==
    /\ act.phase = "read" => \A r \in RuleIDs : act.read[r] \in {None, Stored(r, act.to[r])}
    /\ active \/ act.phase = "swapped" => \A r \in Configured : states[r] = Stored(r, defs[r])

\* As long as no store call has failed, a rule that waits for its deadline has a timer for it, or a
\* callback that will evaluate it, however evaluations, reloads and edits stop and set timers.
WakeUp ==
    active /\ act = Idle /\ faults = 0 =>
        \A r \in Configured :
            \/ eval # None /\ r \in eval.todo
            \/ states[r].wait = -1 \/ states[r].fired
            \/ timers[r] = [hash |-> defs[r], wait |-> states[r].wait]
            \/ \E c \in callbacks : c.rule = r /\ c.hash = defs[r]

\* The deadlines of the rules: OwnDeadlines and WakeUp.
DeadlinesKept == OwnDeadlines /\ WakeUp

\* A predicate that stays true ends up fired, and one that stays false resolved, without any further
\* traffic: the deadline is a wake-up of its own and no update is lost.
Settles ==
    \A r \in RuleIDs :
        /\ <>[](result[r] = "true") => <>[](~Up \/ defs[r] = None \/ states[r].fired)
        /\ <>[](result[r] = "false") => <>[](~Up \/ defs[r] = None \/ ~states[r].fired)

\* The same when no store call fails and the goroutine keeps up with the scheduler, so that its
\* subscription is not closed: restarts within a for: window and stopped timers lose no wake-up.
SettlesUnlessCutOff == [](faults = 0 /\ updates # Closed) => Settles
=============================================================================
