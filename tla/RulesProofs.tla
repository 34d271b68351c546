---------------------------- MODULE RulesProofs ----------------------------
(***************************************************************************)
(* The rule engine, for any number of rules, faults and restarts: between  *)
(* reloads its memory, its table and the event log agree; across reloads   *)
(* every deadline is kept for the definition it was set for.               *)
(***************************************************************************)
EXTENDS Rules, TLAPS

USE RulesAssumption, NoneAssumption DEF memory, log, bounds

Config == [RuleIDs -> Hashes \cup {None}]

Activation ==
    [phase : {"read", "swapped", "evaluate", "evaluating"}, to : Config, from : Config,
     why : {"start"}, read : [RuleIDs -> RuleState \cup {None}]]

Typed ==
    /\ defs \in Config
    /\ states \in [RuleIDs -> RuleState \cup {None}]
    /\ table \in [RuleIDs -> RuleState \cup {None}]
    /\ open \in [RuleIDs -> Int] /\ warned \in [RuleIDs -> Int]
    /\ act \in Activation \cup {Idle, Failed, Off}
    /\ reloads = 0

\* Evaluations and Apply exclude each other: the first Apply comes before the first evaluation.
Exclusive ==
    /\ eval # None => active /\ eval.todo \subseteq Configured
    /\ eval # None /\ eval.by = "activation" => act.phase = "evaluating"
    /\ act.phase \in {"off", "read", "swapped"} => ~active
    /\ act.phase \in {"off", "read"} => Configured = {}
    /\ act.phase = "read" => \A r \in RuleIDs : act.to[r] = None => act.read[r] = None

IInv == Typed /\ Exclusive /\ InStep /\ LogAgrees

LEMMA InitIInv ==
    ASSUME Init
    PROVE  IInv
  <1>1. PICK d \in Configs : act = Reading(d, Blank, "start")
    BY DEF Init
  <1>2. Typed
    BY <1>1 DEF Init, Typed, Blank, Reading, Activation, Config
  <1>3. Configured = {}
    BY DEF Init, Configured, Blank
  <1> QED
    BY <1>1, <1>2, <1>3 DEF Init, IInv, Exclusive, InStep, LogAgrees, Blank, Reading

\* What is restored for a definition is a state of that definition.
LEMMA StoredState ==
    ASSUME Typed, NEW r \in RuleIDs, NEW h \in Hashes
    PROVE  Stored(r, h) \in RuleState /\ Stored(r, h).hash = h
  BY DEF Typed, Stored, New, RuleState

\* An evaluation of state s by result x yields a state of the same definition.
LEMMA AfterState ==
    ASSUME NEW s \in RuleState, NEW x
    PROVE  /\ After(s, x) \in RuleState /\ After(s, x).hash = s.hash
           /\ After(s, x).fired <=> (s.fired \/ Fires(s, x)) /\ ~Resolves(s, x)
           /\ After(s, x).wrong <=> x = "wrong"
  <1>1. WaitAfter(s, x) \in Int
    BY DEF WaitAfter, RuleState
  <1>2. Fires(s, x) \in BOOLEAN /\ Resolves(s, x) \in BOOLEAN
    BY DEF Fires, Resolves
  <1> HIDE DEF Fires, Resolves
  <1> QED
    BY Zenon, <1>1, <1>2 DEF After, RuleState

\* A step that leaves rules, table and log alone, and activation as it is or past its swap.
LEMMA FrameIInv ==
    ASSUME IInv, UNCHANGED <<defs, states, active, table, open, warned, reloads>>,
           act' \in Activation \cup {Idle, Failed, Off},
           act' = act \/ act'.phase \notin {"off", "read", "swapped"},
           eval' # None => active /\ eval'.todo \subseteq Configured,
           eval' # None /\ eval'.by = "activation" => act'.phase = "evaluating"
    PROVE  IInv'
  <1>1. Configured' = Configured
    BY DEF Configured
  <1>2. Typed' /\ LogAgrees'
    BY DEF IInv, Typed, LogAgrees
  <1>3. Exclusive'
    BY <1>1 DEF IInv, Exclusive
  <1>4. InStep'
    BY <1>1 DEF IInv, InStep, Stored
  <1> QED
    BY <1>2, <1>3, <1>4 DEF IInv

\* Whoever starts an evaluation.
LEMMA EvaluatingFrame ==
    ASSUME IInv, NEW by, Evaluating(by), eval = None
    PROVE  eval' # None => active /\ eval'.todo \subseteq Configured /\ eval'.by = by
  BY DEF IInv, Exclusive, Evaluating

LEMMA QuietIInv ==
    ASSUME IInv,
           \/ \E t \in [RuleIDs -> Results] : CardsChange(t)
           \/ Receive
           \/ \E r \in RuleIDs : TimerFires(r) \/ EvaluateFails(r)
           \/ \E c \in callbacks : CallbackChecks(c) \/ CallbackEvaluates(c)
           \/ EvaluationEnds \/ ApplyFails \/ ActivationEvaluates
           \/ UNCHANGED vars
    PROVE  IInv'
  <1>1. act \in Activation \cup {Idle, Failed, Off}
    BY DEF IInv, Typed
  <1>2. CASE \/ \E t \in [RuleIDs -> Results] : CardsChange(t)
             \/ \E r \in RuleIDs : TimerFires(r)
             \/ \E c \in callbacks : CallbackChecks(c)
             \/ UNCHANGED vars
    <2>1. UNCHANGED <<defs, states, active, table, open, warned, reloads, act, eval>>
      BY <1>2 DEF CardsChange, TimerFires, CallbackChecks, vars
    <2> QED
      BY <1>1, <2>1, FrameIInv DEF IInv, Exclusive
  <1>3. CASE Receive \/ \E c \in callbacks : CallbackEvaluates(c)
    <2>1. UNCHANGED <<defs, states, active, table, open, warned, reloads, act>>
      BY <1>3 DEF Receive, CallbackEvaluates
    <2>2. eval' # None => active /\ eval'.todo \subseteq Configured /\ eval'.by \in {"update", "timer"}
      BY <1>3, EvaluatingFrame DEF Receive, CallbackEvaluates
    <2> QED
      BY <1>1, <2>1, <2>2, FrameIInv
  <1>4. ASSUME NEW r \in RuleIDs, EvaluateFails(r) PROVE IInv'
    <2>1. /\ UNCHANGED <<defs, states, active, table, open, warned, reloads>> /\ eval' = None
          /\ eval # None
      BY <1>4 DEF EvaluateFails, Fault
    <2>2. act' = act \/ act' = Abandoned(act)
      BY <1>4 DEF EvaluateFails
    <2>3. CASE act' = act
      BY <1>1, <2>1, <2>3, FrameIInv
    <2>4. CASE act' = Abandoned(act) /\ act' # act
      <3>1. eval.by = "activation"
        BY <1>4, <2>4 DEF EvaluateFails
      <3>2. act \in Activation
        BY <1>1, <2>1, <3>1 DEF IInv, Exclusive, Idle, Failed, Off
      <3>3. act' = Failed
        BY <2>4, <3>2 DEF Abandoned, Activation
      <3> QED
        BY <2>1, <3>3, FrameIInv DEF Failed
    <2> QED
      BY <2>2, <2>3, <2>4
  <1>5. CASE EvaluationEnds
    <2>1. UNCHANGED <<defs, states, active, table, open, warned, reloads>> /\ eval' = None
      BY <1>5 DEF EvaluationEnds
    <2> QED
      BY <1>1, <1>5, <2>1, FrameIInv DEF EvaluationEnds, Idle
  <1>6. CASE ApplyFails
    BY <1>1, <1>6, FrameIInv DEF ApplyFails, Fault, Failed, Idle, IInv, Exclusive
  <1>7. CASE ActivationEvaluates
    <2>1. UNCHANGED <<defs, states, active, table, open, warned, reloads>>
      BY <1>7 DEF ActivationEvaluates
    <2>2. act' \in Activation /\ act'.phase = "evaluating"
      BY <1>1, <1>7 DEF ActivationEvaluates, Activation, Idle, Failed, Off
    <2>3. eval' # None => active /\ eval'.todo \subseteq Configured
      BY <1>7, EvaluatingFrame DEF ActivationEvaluates
    <2> QED
      BY <2>1, <2>2, <2>3, FrameIInv
  <1> QED
    BY <1>2, <1>3, <1>4, <1>5, <1>6, <1>7

LEMMA EvaluateRuleIInv ==
    ASSUME IInv, NEW r \in RuleIDs, EvaluateRule(r)
    PROVE  IInv'
  <1> DEFINE s == states[r]
             x == eval.seen[r]
             t == After(s, x)
  <1>1. /\ UNCHANGED <<defs, active, act, reloads>> /\ active
        /\ r \in Configured /\ eval # None
        /\ eval' = [eval EXCEPT !.todo = @ \ {r}]
        /\ states' = [states EXCEPT ![r] = t] /\ table' = [table EXCEPT ![r] = t]
    BY DEF IInv, Exclusive, EvaluateRule, Commit
  <1>2. /\ defs[r] \in Hashes
        /\ s = Stored(r, defs[r]) /\ s \in RuleState /\ s.hash = defs[r]
    BY <1>1, StoredState DEF IInv, Typed, Config, InStep, Configured
  <1>3. /\ t \in RuleState /\ t.hash = s.hash /\ t # None
        /\ t.fired <=> (s.fired \/ Fires(s, x)) /\ ~Resolves(s, x)
        /\ t.wrong <=> x = "wrong"
    BY <1>2, AfterState DEF RuleState
  <1> HIDE DEF s, x, t
  <1>4. Configured' = Configured
    BY <1>1 DEF Configured
  <1>5. /\ open' \in [RuleIDs -> Int] /\ warned' \in [RuleIDs -> Int]
        /\ \A q \in RuleIDs : q # r => open'[q] = open[q] /\ warned'[q] = warned[q]
    BY DEF IInv, Typed, EvaluateRule, Commit
  <1>6. Typed'
    BY Zenon, <1>1, <1>3, <1>5 DEF IInv, Typed
  <1>7. Exclusive'
    BY <1>1, <1>4 DEF IInv, Exclusive
  <1>8. InStep'
    <2>1. act.phase # "read"
      BY <1>1 DEF IInv, Exclusive
    <2>2. \A q \in Configured : q # r => states'[q] = states[q] /\ table'[q] = table[q] /\ states[q] = Stored(q, defs[q])
      BY <1>1 DEF IInv, InStep, Typed, Configured
    <2>3. states'[r] = t /\ table'[r] = t
      BY <1>1 DEF IInv, Typed
    <2> QED
      BY <1>1, <1>2, <1>3, <1>4, <2>1, <2>2, <2>3 DEF InStep, Stored
  <1>9. LogAgrees'
    <2>1. ASSUME NEW q \in RuleIDs, q # r, table'[q] # None
          PROVE  /\ table'[q].hash \in Resolve => open'[q] = IF table'[q].fired THEN 1 ELSE 0
                 /\ warned'[q] = IF table'[q].wrong THEN 1 ELSE 0
      BY <1>1, <1>5, <2>1 DEF IInv, Typed, LogAgrees
    <2>2. /\ t.hash \in Resolve => open'[r] = IF t.fired THEN 1 ELSE 0
          /\ warned'[r] = IF t.wrong THEN 1 ELSE 0
      <3> DEFINE same == table[r] # None /\ table[r].hash = s.hash
                 before == IF same THEN open[r] ELSE 0
                 episode == IF same /\ x = "wrong" THEN warned[r] ELSE 0
      <3>1. /\ s.hash \in Resolve =>
                  open'[r] = IF Fires(s, x) THEN before + 1 ELSE IF Resolves(s, x) THEN before - 1 ELSE before
            /\ warned'[r] = IF x = "wrong" /\ ~s.wrong THEN episode + 1 ELSE episode
        BY DEF IInv, Typed, EvaluateRule, Commit, s, x
      <3>2. s.hash \in Resolve => before = IF s.fired THEN 1 ELSE 0
        BY <1>2 DEF IInv, LogAgrees, Stored, New
      <3>3. x = "wrong" => episode = IF s.wrong THEN 1 ELSE 0
        BY <1>2 DEF IInv, LogAgrees, Stored, New
      <3>4. x # "wrong" => episode = 0
        OBVIOUS
      <3>5. (Fires(s, x) => ~s.fired /\ ~Resolves(s, x)) /\ (Resolves(s, x) => s.fired)
        BY DEF Fires, Resolves
      <3> HIDE DEF before, episode
      <3>6. t.hash \in Resolve => open'[r] = IF t.fired THEN 1 ELSE 0
        <4>1. CASE Fires(s, x)
          BY <1>3, <3>1, <3>2, <3>5, <4>1
        <4>2. CASE Resolves(s, x)
          BY <1>3, <3>1, <3>2, <3>5, <4>2
        <4>3. CASE ~Fires(s, x) /\ ~Resolves(s, x)
          BY <1>2, <1>3, <3>1, <3>2, <4>3 DEF RuleState
        <4> QED
          BY <4>1, <4>2, <4>3
      <3>7. warned'[r] = IF t.wrong THEN 1 ELSE 0
        BY <1>3, <3>1, <3>3, <3>4
      <3> QED
        BY <3>6, <3>7
    <2>3. table'[r] = t
      BY <1>1 DEF IInv, Typed
    <2> QED
      BY <2>1, <2>2, <2>3 DEF LogAgrees
  <1> QED
    BY <1>6, <1>7, <1>8, <1>9 DEF IInv

LEMMA ApplyReadsIInv ==
    ASSUME IInv, NEW r \in RuleIDs, ApplyReads(r)
    PROVE  IInv'
  <1>1. act \in Activation /\ act.phase = "read" /\ act.to[r] \in Hashes
    BY DEF IInv, Typed, ApplyReads, Activation, Config, Idle, Failed, Off
  <1>2. act' = [act EXCEPT !.read[r] = Stored(r, act.to[r])]
    BY DEF ApplyReads, Stored
  <1>3. Stored(r, act.to[r]) \in RuleState
    BY <1>1, StoredState DEF IInv
  <1>4. act' \in Activation /\ act'.phase = "read" /\ act'.to = act.to
    BY <1>1, <1>2, <1>3 DEF Activation
  <1>5. \A q \in RuleIDs : act'.read[q] = IF q = r THEN Stored(r, act.to[r]) ELSE act.read[q]
    BY <1>1, <1>2 DEF Activation
  <1>6. UNCHANGED <<defs, states, active, table, open, warned, reloads, eval>> /\ Configured' = Configured
    BY DEF ApplyReads, Configured
  <1>7. Typed' /\ LogAgrees'
    BY <1>4, <1>6 DEF IInv, Typed, LogAgrees
  <1>8. Exclusive'
    BY <1>1, <1>4, <1>5, <1>6 DEF IInv, Exclusive
  <1>9. InStep'
    BY <1>1, <1>4, <1>5, <1>6 DEF IInv, Exclusive, InStep, Stored
  <1> QED
    BY <1>7, <1>8, <1>9 DEF IInv

LEMMA ApplySwapsIInv ==
    ASSUME IInv, ApplySwaps
    PROVE  IInv'
  <1>1. act \in Activation /\ act.phase = "read"
    BY DEF IInv, Typed, ApplySwaps, Idle, Failed, Off
  <1>2. act' \in Activation /\ act'.phase = "swapped"
    BY <1>1 DEF ApplySwaps, Activation
  <1>3. /\ UNCHANGED <<table, open, warned, reloads, eval>> /\ eval = None
        /\ defs' = act.to /\ states' = act.read /\ active' = FALSE
    BY DEF ApplySwaps
  <1>4. Typed' /\ LogAgrees'
    BY <1>1, <1>2, <1>3 DEF IInv, Typed, LogAgrees, Activation
  <1>5. Exclusive'
    BY <1>2, <1>3 DEF Exclusive
  <1>6. InStep'
    BY <1>1, <1>2, <1>3 DEF IInv, InStep, Stored, Configured, ApplySwaps
  <1> QED
    BY <1>4, <1>5, <1>6 DEF IInv

LEMMA ActivateIInv ==
    ASSUME IInv, Activate
    PROVE  IInv'
  <1>1. act \in Activation /\ act.phase = "swapped"
    BY DEF IInv, Typed, Activate, Idle, Failed, Off
  <1>2. act' \in Activation /\ act'.phase = "evaluate"
    BY <1>1 DEF Activate, Activation
  <1>3. UNCHANGED <<defs, states, table, open, warned, reloads, eval>> /\ eval = None /\ Configured' = Configured
    BY DEF Activate, Configured
  <1>4. Typed' /\ LogAgrees'
    BY <1>2, <1>3 DEF IInv, Typed, LogAgrees
  <1>5. Exclusive'
    BY <1>2, <1>3 DEF Exclusive
  <1>6. InStep'
    BY <1>1, <1>2, <1>3 DEF IInv, InStep, Stored
  <1> QED
    BY <1>4, <1>5, <1>6 DEF IInv

LEMMA StopStartIInv ==
    ASSUME IInv, Stop \/ \E d \in Configs : Start(d)
    PROVE  IInv'
  <1>1. CASE Stop
    <2>1. Configured' = {}
      BY <1>1 DEF Stop, Configured, Blank
    <2>2. Typed' /\ LogAgrees'
      BY <1>1 DEF Stop, IInv, Typed, LogAgrees, Blank, Config
    <2> QED
      BY <1>1, <2>1, <2>2 DEF Stop, IInv, Exclusive, InStep, Off
  <1>2. ASSUME NEW d \in Configs, Start(d) PROVE IInv'
    <2>1. Reading(d, Blank, "start") \in Activation
      BY DEF Reading, Activation, Blank, Config
    <2>2. /\ act' = Reading(d, Blank, "start") /\ act = Off
          /\ UNCHANGED <<defs, states, active, table, open, warned, reloads, eval>>
      BY <1>2 DEF Start
    <2>3. Typed' /\ LogAgrees'
      BY <2>1, <2>2 DEF IInv, Typed, LogAgrees
    <2>4. Configured = {} /\ ~active /\ eval = None
      BY <2>2 DEF IInv, Exclusive, Off
    <2>5. Configured' = {}
      BY <2>2, <2>4 DEF Configured
    <2> QED
      BY <2>2, <2>3, <2>4, <2>5 DEF IInv, Exclusive, InStep, Reading
  <1> QED
    BY <1>1, <1>2

\* Time changes the time left and nothing else.
LEMMA AgedState ==
    ASSUME NEW s \in RuleState \cup {None}
    PROVE  /\ Aged(s) \in RuleState \cup {None}
           /\ Aged(s) = None <=> s = None
           /\ s # None => Aged(s).hash = s.hash /\ Aged(s).fired = s.fired /\ Aged(s).wrong = s.wrong
  BY DEF Aged, RuleState

LEMMA TimePassesIInv ==
    ASSUME IInv, TimePasses
    PROVE  IInv'
  <1>1. UNCHANGED <<defs, active, open, warned, reloads, eval>> /\ Configured' = Configured
    BY DEF TimePasses, Configured
  <1>2. /\ states' \in [RuleIDs -> RuleState \cup {None}] /\ table' \in [RuleIDs -> RuleState \cup {None}]
        /\ \A r \in RuleIDs : states'[r] = Aged(states[r]) /\ table'[r] = Aged(table[r])
    BY AgedState DEF IInv, Typed, TimePasses, AllAged
  <1>3. act' \in Activation \cup {Idle, Failed, Off} /\ act'.phase = act.phase
    <2>1. \A f \in [RuleIDs -> RuleState \cup {None}] : AllAged(f) \in [RuleIDs -> RuleState \cup {None}]
      BY AgedState DEF AllAged
    <2>2. CASE act.phase = "read"
      <3>1. act \in Activation /\ act' = [act EXCEPT !.read = AllAged(@)]
        BY <2>2 DEF IInv, Typed, TimePasses, Idle, Failed, Off
      <3> QED
        BY <2>1, <3>1 DEF Activation
    <2>3. CASE act.phase # "read"
      BY <2>3 DEF IInv, Typed, TimePasses
    <2> QED
      BY <2>2, <2>3
  <1>4. Typed'
    BY <1>1, <1>2, <1>3 DEF IInv, Typed
  <1>5. LogAgrees'
    BY <1>1, <1>2, AgedState DEF IInv, Typed, LogAgrees
  <1>6. Exclusive'
    <2>1. ASSUME act.phase = "read" PROVE \A r \in RuleIDs : act'.to[r] = None => act'.read[r] = None
      BY <2>1 DEF IInv, Typed, Exclusive, TimePasses, Activation, Idle, Failed, Off, AllAged, Aged
    <2> QED
      BY <1>1, <1>3, <2>1 DEF IInv, Exclusive
  <1>7. ASSUME NEW r \in RuleIDs, NEW h \in Hashes
        PROVE  Aged(Stored(r, h)) = IF table'[r] # None /\ table'[r].hash = h THEN table'[r] ELSE New(h)
    <2>1. Aged(New(h)) = New(h)
      BY DEF Aged, New
    <2>2. /\ table'[r] = Aged(table[r]) /\ (table'[r] = None <=> table[r] = None)
          /\ table[r] # None => table'[r].hash = table[r].hash
      BY <1>2, AgedState DEF IInv, Typed
    <2> QED
      BY <2>1, <2>2 DEF Stored
  <1>8. InStep'
    <2>1. ASSUME act.phase = "read", NEW r \in RuleIDs
          PROVE  act'.read[r] \in {None, IF table'[r] # None /\ table'[r].hash = act'.to[r]
                                          THEN table'[r] ELSE New(act'.to[r])}
      <3>1. act \in Activation /\ act' = [act EXCEPT !.read = AllAged(@)]
        BY <2>1 DEF IInv, Typed, TimePasses, Idle, Failed, Off
      <3>2. act'.read[r] = Aged(act.read[r]) /\ act'.to = act.to /\ act.to[r] \in Hashes \cup {None}
        BY <3>1 DEF Activation, AllAged, Config
      <3>3. act.read[r] \in {None, Stored(r, act.to[r])}
        BY <2>1 DEF IInv, InStep
      <3>4. Aged(None) = None
        BY DEF Aged
      <3>5. CASE act.to[r] \in Hashes
        BY <1>7, <3>2, <3>3, <3>4, <3>5
      <3>6. CASE act.to[r] = None
        BY <2>1, <3>2, <3>4, <3>6 DEF IInv, Exclusive
      <3> QED
        BY <3>2, <3>5, <3>6
    <2>2. ASSUME active \/ act.phase = "swapped", NEW r \in Configured
          PROVE  states'[r] = IF table'[r] # None /\ table'[r].hash = defs[r] THEN table'[r] ELSE New(defs[r])
      <3>1. r \in RuleIDs /\ defs[r] \in Hashes /\ states[r] = Stored(r, defs[r])
        BY <2>2 DEF IInv, InStep, Typed, Config, Configured
      <3> QED
        BY <1>2, <1>7, <3>1
    <2> QED
      BY <1>1, <1>3, <2>1, <2>2 DEF InStep, Stored
  <1> QED
    BY <1>4, <1>5, <1>6, <1>8 DEF IInv
-----------------------------------------------------------------------------
LEMMA NextIInv ==
    ASSUME MaxReloads = 0, IInv, [Next]_vars
    PROVE  IInv'
  <1>1. ~\E d \in Configs : Reload(d)
    BY DEF IInv, Typed, Reload
  <1>2. ~SchedulerFails
    BY DEF IInv, Typed, SchedulerFails, Activation, Idle, Failed, Off
  <1> QED
    BY <1>1, <1>2, QuietIInv, EvaluateRuleIInv, ApplyReadsIInv, ApplySwapsIInv, ActivateIInv,
       StopStartIInv, TimePassesIInv DEF Next, EvaluationStep, ActivationStep

\* In a process whose configuration is not reloaded, whatever store calls fail and however often the
\* process ends and starts: fired and resolved events alternate, a bad signal is reported once, and
\* memory is what rule_state holds (evaluateLocked, CommitRuleTransition, GetRuleState).
THEOREM Agreement ==
    ASSUME MaxReloads = 0
    PROVE  Spec => [](LogAgrees /\ InStep)
  <1>1. Init => IInv
    BY InitIInv
  <1>2. IInv /\ [Next]_vars => IInv'
    BY NextIInv
  <1>3. IInv => LogAgrees /\ InStep
    BY DEF IInv
  <1> QED
    BY <1>1, <1>2, <1>3, PTL DEF Spec
-----------------------------------------------------------------------------
(***************************************************************************)
(* Deadlines, with any number of reloads: an activation is read, swapped   *)
(* in and evaluated for a start, a reload or its rollback.                 *)
(***************************************************************************)
AnyActivation ==
    [phase : {"read", "swapped", "evaluate", "evaluating"}, to : Config, from : Config,
     why : {"start", "reload", "rollback"}, read : [RuleIDs -> RuleState \cup {None}]]

Shaped ==
    /\ result \in [RuleIDs -> Results] /\ faults \in Nat /\ active \in BOOLEAN
    /\ defs \in Config
    /\ states \in [RuleIDs -> RuleState \cup {None}]
    /\ table \in [RuleIDs -> RuleState \cup {None}]
    /\ timers \in [RuleIDs -> RuleTimer \cup {None}]
    /\ eval \in Evaluation \cup {None}
    /\ act \in AnyActivation \cup {Idle, Failed, Off}

\* The evaluation of an activation is the one that holds the mutex in its last phase, and no
\* evaluation outlives the definitions it has to evaluate.
Phases ==
    /\ eval # None => eval.todo \subseteq Configured
    /\ act.phase = "evaluating" <=> (eval # None /\ eval.by = "activation")
    /\ act.phase \in {"evaluate", "evaluating"} => active

\* What Apply has read belongs to the definitions it is going to install.
ReadOwn ==
    act.phase = "read" =>
        \A r \in RuleIDs : act.read[r] # None => act.to[r] # None /\ act.read[r] \in State(act.to[r])

Awake(r) ==
    \/ eval # None /\ r \in eval.todo
    \/ states[r].wait = -1 \/ states[r].fired
    \/ timers[r] = [hash |-> defs[r], wait |-> states[r].wait]
    \/ \E c \in callbacks : c.rule = r /\ c.hash = defs[r]

\* WakeUp, from the moment the evaluation of an activation holds the mutex.
Woken ==
    active /\ act.phase \in {"idle", "evaluating"} /\ faults = 0 => \A r \in Configured : Awake(r)

DInv == Shaped /\ Phases /\ ReadOwn /\ OwnDeadlines /\ Woken

LEMMA InitDInv ==
    ASSUME Init
    PROVE  DInv
  <1>1. PICK d \in Configs : act = Reading(d, Blank, "start")
    BY DEF Init
  <1>2. act \in AnyActivation /\ act.phase = "read" /\ act.read = Blank
    BY <1>1 DEF Reading, AnyActivation, Blank, Config
  <1>3. Shaped
    BY Zenon, <1>2 DEF Init, Shaped, Blank, Config
  <1>4. OwnDeadlines
    BY DEF Init, OwnDeadlines, Blank
  <1> QED
    BY <1>2, <1>3, <1>4 DEF Init, DInv, Phases, ReadOwn, Woken, Blank

\* The states of a definition.
LEMMA StateShape ==
    ASSUME NEW h \in Hashes
    PROVE  /\ \A s \in State(h) : s \in RuleState /\ s.hash = h /\ s.wait \in -1..For[h] /\ s # None
           /\ New(h) \in State(h)
  BY DEF State, RuleState, New

\* The activation is in progress unless it is one of the three constants.
LEMMA ActShape ==
    ASSUME Shaped
    PROVE  /\ act.phase \in {"read", "swapped", "evaluate", "evaluating"} => act \in AnyActivation
           /\ act.phase = "idle" <=> act = Idle
           /\ act = Idle \/ act = Failed \/ act = Off \/ act \in AnyActivation
           /\ Idle.phase = "idle" /\ Failed.phase = "failed" /\ Off.phase = "off"
  BY DEF Shaped, AnyActivation, Idle, Failed, Off

\* What an error of an activation makes of it.
LEMMA AbandonedShape ==
    ASSUME NEW a \in AnyActivation
    PROVE  /\ Abandoned(a) \in AnyActivation \cup {Idle, Failed}
           /\ Abandoned(a).phase \notin {"evaluate", "evaluating"}
           /\ Abandoned(a).phase = "read" => \A r \in RuleIDs : Abandoned(a).read[r] = None
  <1>1. a.why \in {"start", "reload", "rollback"} /\ a.from \in Config
    BY DEF AnyActivation
  <1>2. Reading(a.from, a.from, "rollback") \in AnyActivation
    BY <1>1 DEF Reading, AnyActivation
  <1>3. /\ Reading(a.from, a.from, "rollback").phase = "read"
        /\ \A r \in RuleIDs : Reading(a.from, a.from, "rollback").read[r] = None
    BY DEF Reading
  <1>4. Abandoned(a) \in {Failed, Idle, Reading(a.from, a.from, "rollback")}
    BY <1>1 DEF Abandoned
  <1> QED
    BY <1>2, <1>3, <1>4 DEF Failed, Idle

\* A step that leaves definitions, states and timers alone, and the activation in its phase.
LEMMA CalmDInv ==
    ASSUME DInv, UNCHANGED <<defs, states, timers, table, active, faults, act>>,
           result' \in [RuleIDs -> Results], eval' \in Evaluation \cup {None}, Phases',
           \A r \in Configured : Awake(r) => Awake(r)'
    PROVE  DInv'
  <1>1. Shaped' /\ Configured' = Configured
    BY DEF DInv, Shaped, Configured
  <1>2. ReadOwn' /\ OwnDeadlines'
    BY DEF DInv, ReadOwn, OwnDeadlines
  <1>3. Woken'
    BY <1>1 DEF DInv, Woken
  <1> QED
    BY <1>1, <1>2, <1>3 DEF DInv

LEMMA CardsChangeDInv ==
    ASSUME DInv, UNCHANGED vars \/ \E t \in [RuleIDs -> Results] : CardsChange(t)
    PROVE  DInv'
  <1>1. /\ UNCHANGED <<defs, states, timers, table, active, faults, act, eval, callbacks>>
        /\ result' \in [RuleIDs -> Results]
    BY DEF CardsChange, vars, DInv, Shaped
  <1>2. Phases' /\ eval' \in Evaluation \cup {None}
    BY <1>1 DEF DInv, Shaped, Phases, Configured
  <1>3. \A r \in Configured : Awake(r) => Awake(r)'
    BY <1>1 DEF Awake
  <1> QED
    BY <1>1, <1>2, <1>3, CalmDInv

\* Whoever takes the mutex to evaluate has every rule to do.
LEMMA EvaluatingShape ==
    ASSUME Shaped, NEW by \in {"update", "timer", "activation"}, Evaluating(by), eval = None, active
    PROVE  /\ eval' \in Evaluation /\ eval' # None
           /\ eval'.todo = Configured /\ eval'.by = by
  <1>1. Configured \subseteq RuleIDs
    BY DEF Configured
  <1>2. eval' = [todo |-> Configured, seen |-> result, by |-> by]
    BY DEF Evaluating
  <1> QED
    BY <1>1, <1>2 DEF Evaluation, Shaped

LEMMA TakesMutexDInv ==
    ASSUME DInv, Receive \/ \E c \in callbacks : CallbackEvaluates(c)
    PROVE  DInv'
  <1>1. UNCHANGED <<defs, states, timers, table, active, faults, act, result>> /\ eval = None
    BY DEF Receive, CallbackEvaluates
  <1>2. CASE active
    <2>1. PICK by \in {"update", "timer"} : Evaluating(by)
      BY DEF Receive, CallbackEvaluates
    <2>2. eval' \in Evaluation /\ eval' # None /\ eval'.todo = Configured /\ eval'.by = by
      BY <1>1, <1>2, <2>1, EvaluatingShape DEF DInv
    <2>3. Phases'
      BY <1>1, <2>2 DEF DInv, Phases, Configured
    <2>4. \A r \in Configured : Awake(r)'
      BY <2>2 DEF Awake
    <2> QED
      BY <1>1, <2>2, <2>3, <2>4, CalmDInv DEF DInv, Shaped
  <1>3. CASE ~active
    <2>1. eval' = None
      BY <1>1, <1>3 DEF Receive, CallbackEvaluates, Evaluating
    <2>2. Phases' /\ Configured' = Configured
      BY <1>1, <2>1 DEF DInv, Phases, Configured
    <2>3. Shaped' /\ ReadOwn' /\ OwnDeadlines'
      BY <1>1, <2>1 DEF DInv, Shaped, ReadOwn, OwnDeadlines
    <2> QED
      BY <1>1, <1>3, <2>2, <2>3 DEF DInv, Woken
  <1> QED
    BY <1>2, <1>3

LEMMA TimerFiresDInv ==
    ASSUME DInv, NEW r \in RuleIDs, TimerFires(r)
    PROVE  DInv'
  <1>1. /\ UNCHANGED <<defs, states, table, active, faults, act, result, eval>>
        /\ timers' = [timers EXCEPT ![r] = None] /\ timers[r] # None
        /\ callbacks' = callbacks \cup {[rule |-> r, hash |-> timers[r].hash, checked |-> FALSE]}
    BY DEF TimerFires
  <1>2. Shaped' /\ Configured' = Configured
    BY <1>1 DEF DInv, Shaped, Configured
  <1>3. Phases' /\ ReadOwn'
    BY <1>1, <1>2 DEF DInv, Phases, ReadOwn
  <1>4. \A q \in RuleIDs : timers'[q] = IF q = r THEN None ELSE timers[q]
    BY <1>1 DEF DInv, Shaped
  <1>5. OwnDeadlines'
    BY <1>1, <1>4 DEF DInv, OwnDeadlines
  <1>6. timers[r].hash = defs[r]
    BY <1>1 DEF DInv, OwnDeadlines
  <1>7. ASSUME NEW q \in Configured, Awake(q) PROVE Awake(q)'
    <2>1. q \in RuleIDs
      BY DEF Configured
    <2>2. CASE q = r
      <3> DEFINE c == [rule |-> r, hash |-> timers[r].hash, checked |-> FALSE]
      <3>1. c \in callbacks' /\ c.rule = q /\ c.hash = defs'[q]
        BY <1>1, <1>6, <2>2
      <3> QED
        BY <3>1 DEF Awake
    <2>3. CASE q # r
      BY <1>1, <1>4, <1>7, <2>1, <2>3 DEF Awake
    <2> QED
      BY <2>2, <2>3
  <1>8. Woken'
    BY <1>1, <1>2, <1>7 DEF DInv, Woken
  <1> QED
    BY <1>2, <1>3, <1>5, <1>8 DEF DInv

LEMMA CallbackChecksDInv ==
    ASSUME DInv, NEW c \in callbacks, CallbackChecks(c)
    PROVE  DInv'
  <1> DEFINE kept == [c EXCEPT !.checked = TRUE]
  <1>1. /\ UNCHANGED <<defs, states, timers, table, active, faults, act, result, eval>>
        /\ callbacks' = (callbacks \ {c}) \cup
               {kept : x \in {r \in Configured : r = c.rule /\ defs[r] = c.hash}}
    BY DEF CallbackChecks
  <1>2. Phases' /\ eval' \in Evaluation \cup {None} /\ result' \in [RuleIDs -> Results]
    BY <1>1 DEF DInv, Shaped, Phases, Configured
  <1>3. kept.rule = c.rule /\ kept.hash = c.hash
    OBVIOUS
  <1>4. ASSUME NEW q \in Configured, NEW d \in callbacks, d.rule = q, d.hash = defs[q]
        PROVE  \E e \in callbacks' : e.rule = q /\ e.hash = defs[q]
    <2>1. CASE d = c
      BY Zenon, <1>1, <1>3, <1>4, <2>1
    <2>2. CASE d # c
      BY <1>1, <1>4, <2>2
    <2> QED
      BY <2>1, <2>2
  <1>5. \A q \in Configured : Awake(q) => Awake(q)'
    BY <1>1, <1>4 DEF Awake
  <1> QED
    BY <1>1, <1>2, <1>5, CalmDInv

\* What an evaluation leaves of a state: one of the same definition, and a timer while it waits.
LEMMA AfterDeadline ==
    ASSUME NEW h \in Hashes, NEW s \in State(h), NEW x
    PROVE  /\ After(s, x) \in State(h)
           /\ Timer(s, x) # None => Timer(s, x) \in RuleTimer /\ Timer(s, x).hash = h
                                    /\ Timer(s, x).wait \in 0..For[h]
           /\ \/ After(s, x).wait = -1 \/ After(s, x).fired
              \/ Timer(s, x) = [hash |-> h, wait |-> After(s, x).wait]
  <1> DEFINE w == WaitAfter(s, x)
  <1>1. s.hash = h /\ s.wait \in -1..For[h] /\ s.fired \in BOOLEAN /\ For[h] \in Nat /\ s \in RuleState
    BY StateShape DEF State
  <1>2. w \in -1..For[h] /\ (x # "true" => w = -1)
    BY <1>1 DEF WaitAfter
  <1>3. After(s, x).wait = w
    BY <1>1 DEF After, RuleState
  <1>4. After(s, x).fired <=> (s.fired \/ Fires(s, x)) /\ ~Resolves(s, x)
    BY <1>1, AfterState
  <1>5. After(s, x) \in State(h)
    <2>1. After(s, x) \in RuleState /\ After(s, x).hash = h
      BY <1>1, AfterState
    <2> HIDE DEF w
    <2>2. \A t \in RuleState : t.hash = h /\ t.wait \in -1..For[h] => t \in State(h)
      BY DEF RuleState, State
    <2> QED
      BY <1>2, <1>3, <2>1, <2>2
  <1>6. Timer(s, x) # None => Timer(s, x) = [hash |-> h, wait |-> w] /\ w > 0
    BY <1>1 DEF Timer
  <1>7. CASE x = "true" /\ ~s.fired /\ w > 0
    <2>1. Timer(s, x) = [hash |-> h, wait |-> w]
      BY <1>1, <1>7 DEF Timer
    <2> HIDE DEF w
    <2> QED
      BY <1>2, <1>3, <1>5, <1>7, <2>1 DEF RuleTimer
  <1>8. CASE ~(x = "true" /\ ~s.fired /\ w > 0)
    <2>1. Timer(s, x) = None
      BY <1>8 DEF Timer
    <2>2. x = "true" => After(s, x).fired
      BY <1>1, <1>2, <1>4, <1>8 DEF Fires, Resolves, WaitAfter
    <2> QED
      BY <1>2, <1>3, <1>5, <2>1, <2>2
  <1> QED
    BY <1>7, <1>8

\* The rule an evaluation is at has a state of the definition in force.
LEMMA AtRule ==
    ASSUME DInv, NEW r \in RuleIDs, eval # None, r \in eval.todo
    PROVE  r \in Configured /\ defs[r] \in Hashes /\ states[r] \in State(defs[r])
  <1>1. r \in Configured
    BY DEF DInv, Phases
  <1> QED
    BY <1>1 DEF DInv, Shaped, Config, Configured, OwnDeadlines

LEMMA EvaluateRuleDInv ==
    ASSUME DInv, NEW r \in RuleIDs, EvaluateRule(r)
    PROVE  DInv'
  <1> DEFINE h == defs[r]
             t == After(states[r], eval.seen[r])
             m == Timer(states[r], eval.seen[r])
  <1>1. /\ UNCHANGED <<defs, active, faults, act, result, callbacks>> /\ eval # None
        /\ eval' = [eval EXCEPT !.todo = @ \ {r}]
        /\ states' = [states EXCEPT ![r] = t] /\ table' = [table EXCEPT ![r] = t]
        /\ timers' = [timers EXCEPT ![r] = m]
    BY DEF EvaluateRule, Commit
  <1>2. r \in Configured /\ h \in Hashes /\ states[r] \in State(h)
    BY AtRule DEF EvaluateRule
  <1>3. /\ t \in State(h)
        /\ m # None => m \in RuleTimer /\ m.hash = h /\ m.wait \in 0..For[h]
        /\ t.wait = -1 \/ t.fired \/ m = [hash |-> h, wait |-> t.wait]
    BY <1>2, AfterDeadline
  <1>4. t \in RuleState /\ t.hash = h /\ m \in RuleTimer \cup {None}
    BY <1>2, <1>3, StateShape
  <1> HIDE DEF h, t, m
  <1>5. /\ \A q \in RuleIDs : q # r => /\ states'[q] = states[q] /\ table'[q] = table[q]
                                       /\ timers'[q] = timers[q]
        /\ states'[r] = t /\ table'[r] = t /\ timers'[r] = m
    BY <1>1 DEF DInv, Shaped
  <1>6. /\ eval' \in Evaluation /\ eval' # None /\ eval'.by = eval.by /\ eval'.todo = eval.todo \ {r}
    BY <1>1 DEF DInv, Shaped, Evaluation
  <1>7. Shaped' /\ Configured' = Configured
    BY Zenon, <1>1, <1>4, <1>6 DEF DInv, Shaped, Configured
  <1>8. Phases' /\ ReadOwn'
    BY <1>1, <1>6, <1>7 DEF DInv, Phases, ReadOwn
  <1>9. OwnDeadlines'
    <2>1. ASSUME NEW q \in RuleIDs
          PROVE  /\ IF defs[q] = None THEN states'[q] = None ELSE states'[q] \in State(defs[q])
                 /\ timers'[q] # None => timers'[q].wait \in 0..For[timers'[q].hash] /\ timers'[q].hash = defs[q]
                 /\ table'[q] # None => table'[q] \in State(table'[q].hash)
      <3>1. CASE q = r
        BY <1>2, <1>3, <1>4, <1>5, <3>1 DEF h
      <3>2. CASE q # r
        BY <1>5, <3>2 DEF DInv, OwnDeadlines
      <3> QED
        BY <3>1, <3>2
    <2> QED
      BY <1>1, <2>1 DEF OwnDeadlines
  <1>10. ASSUME NEW q \in Configured, Awake(q) PROVE Awake(q)'
    <2>1. q \in RuleIDs
      BY DEF Configured
    <2>2. CASE q = r
      BY <1>1, <1>3, <1>5, <2>2 DEF Awake, h
    <2>3. CASE q # r
      BY <1>1, <1>5, <1>6, <1>10, <2>1, <2>3 DEF Awake
    <2> QED
      BY <2>2, <2>3
  <1>11. Woken'
    BY <1>1, <1>7, <1>10 DEF DInv, Woken
  <1> QED
    BY <1>7, <1>8, <1>9, <1>11 DEF DInv

\* A step of the activation that leaves the rules alone, and does not end an evaluation in
\* good order.
LEMMA ActDInv ==
    ASSUME DInv, UNCHANGED <<defs, states, timers, table, active, result>>,
           faults' \in Nat, eval' \in Evaluation \cup {None},
           act' \in AnyActivation \cup {Idle, Failed, Off}, Phases', ReadOwn', Woken'
    PROVE  DInv'
  <1>1. Shaped'
    BY DEF DInv, Shaped
  <1>2. OwnDeadlines'
    BY DEF DInv, OwnDeadlines
  <1> QED
    BY <1>1, <1>2 DEF DInv

LEMMA EvaluateFailsDInv ==
    ASSUME DInv, NEW r \in RuleIDs, EvaluateFails(r)
    PROVE  DInv'
  <1> DEFINE m == Timer(states[r], eval.seen[r])
  <1>1. /\ UNCHANGED <<defs, states, table, active, result>> /\ eval # None /\ eval' = None
        /\ faults' = faults + 1 /\ Configured' = Configured
    BY DEF EvaluateFails, Fault, Configured
  <1>2. faults' \in Nat /\ faults' # 0
    BY <1>1 DEF DInv, Shaped
  <1>3. r \in Configured /\ defs[r] \in Hashes /\ states[r] \in State(defs[r])
    BY AtRule DEF EvaluateFails
  <1>4. m # None => m \in RuleTimer /\ m.hash = defs[r] /\ m.wait \in 0..For[defs[r]]
    BY <1>3, AfterDeadline
  <1>5. timers' = timers \/ timers' = [timers EXCEPT ![r] = m]
    BY Zenon DEF EvaluateFails
  <1> HIDE DEF m
  <1>6. /\ timers' \in [RuleIDs -> RuleTimer \cup {None}]
        /\ \A q \in RuleIDs : timers'[q] = timers[q] \/ (q = r /\ timers'[q] = m)
    <2>1. timers \in [RuleIDs -> RuleTimer \cup {None}] /\ m \in RuleTimer \cup {None}
      BY <1>4 DEF DInv, Shaped
    <2> QED
      BY <1>5, <2>1
  <1>7. /\ act' \in AnyActivation \cup {Idle, Failed, Off}
        /\ act'.phase # "evaluating" /\ (act'.phase = "evaluate" => active)
        /\ act'.phase = "read" =>
              act' = act \/ \A q \in RuleIDs : act'.read[q] = None
    <2>1. CASE eval.by = "activation"
      <3>1. act.phase = "evaluating" /\ act' = Abandoned(act)
        BY <1>1, <2>1 DEF DInv, Phases, EvaluateFails
      <3>2. act \in AnyActivation
        BY <3>1, ActShape DEF DInv
      <3> QED
        BY <3>1, <3>2, AbandonedShape
    <2>2. CASE eval.by # "activation"
      BY <2>2 DEF DInv, Shaped, Phases, EvaluateFails
    <2> QED
      BY <2>1, <2>2
  <1>8. Shaped'
    BY <1>1, <1>2, <1>6, <1>7 DEF DInv, Shaped
  <1>9. Phases'
    BY <1>1, <1>7 DEF Phases
  <1>10. ReadOwn'
    BY <1>7 DEF DInv, ReadOwn
  <1>11. OwnDeadlines'
    BY <1>1, <1>4, <1>6 DEF DInv, OwnDeadlines
  <1>12. Woken'
    BY <1>2 DEF Woken
  <1> QED
    BY <1>8, <1>9, <1>10, <1>11, <1>12 DEF DInv

LEMMA EvaluationEndsDInv ==
    ASSUME DInv, EvaluationEnds
    PROVE  DInv'
  <1>1. /\ UNCHANGED <<defs, states, timers, table, active, faults, result, callbacks>>
        /\ eval # None /\ eval.todo = {} /\ eval' = None /\ Configured' = Configured
    BY Zenon DEF EvaluationEnds, Configured
  <1>2. /\ act' \in AnyActivation \cup {Idle, Failed, Off}
        /\ act'.phase # "evaluating" /\ (act'.phase = "evaluate" => active)
        /\ act' = act \/ (act'.phase = "idle" /\ act.phase = "evaluating")
    <2>1. CASE eval.by = "activation"
      BY <1>1, <2>1, ActShape DEF DInv, Phases, EvaluationEnds
    <2>2. CASE eval.by # "activation"
      BY <2>2 DEF DInv, Shaped, Phases, EvaluationEnds
    <2> QED
      BY <2>1, <2>2
  <1>3. Phases' /\ ReadOwn'
    BY <1>1, <1>2 DEF DInv, Phases, ReadOwn
  <1>4. Woken'
    <2>1. \A q \in Configured : Awake(q) => Awake(q)'
      BY <1>1 DEF Awake
    <2> QED
      BY <1>1, <1>2, <2>1 DEF DInv, Woken
  <1> QED
    BY Zenon, <1>1, <1>2, <1>3, <1>4, ActDInv DEF DInv, Shaped

LEMMA ReadingDInv ==
    ASSUME DInv, \E d \in Configs : Reload(d) \/ Start(d)
    PROVE  DInv'
  <1>1. PICK d \in Configs, f \in Config, why \in {"start", "reload"} :
           act' = Reading(d, f, why)
    BY DEF Reload, Start, DInv, Shaped, Blank, Config
  <1>2. act' \in AnyActivation /\ act'.phase = "read" /\ \A r \in RuleIDs : act'.read[r] = None
    BY <1>1 DEF Reading, AnyActivation, Config
  <1>3. /\ UNCHANGED <<defs, states, timers, table, active, eval, faults>>
        /\ act = Idle \/ act = Off
    BY DEF Reload, Start
  <1>4. result' \in [RuleIDs -> Results]
    BY DEF Reload, Start, DInv, Shaped
  <1>5. Phases'
    BY <1>2, <1>3, ActShape DEF DInv, Phases, Configured
  <1>6. Shaped'
    BY <1>2, <1>3, <1>4 DEF DInv, Shaped
  <1>7. OwnDeadlines'
    BY <1>3 DEF DInv, OwnDeadlines
  <1> QED
    BY Zenon, <1>2, <1>5, <1>6, <1>7 DEF DInv, ReadOwn, Woken

LEMMA ApplyReadsDInv ==
    ASSUME DInv, NEW r \in RuleIDs, ApplyReads(r)
    PROVE  DInv'
  <1>1. act \in AnyActivation /\ act.phase = "read" /\ act.to[r] \in Hashes
    BY ActShape DEF DInv, ApplyReads, AnyActivation, Config
  <1>2. act' = [act EXCEPT !.read[r] = Stored(r, act.to[r])]
    BY DEF ApplyReads, Stored
  <1>3. Stored(r, act.to[r]) \in State(act.to[r])
    BY Zenon, <1>1, StateShape DEF DInv, OwnDeadlines, Stored
  <1>4. Stored(r, act.to[r]) \in RuleState
    BY <1>1, <1>3, StateShape
  <1>5. act' \in AnyActivation /\ act'.phase = "read" /\ act'.to = act.to
    BY <1>1, <1>2, <1>4 DEF AnyActivation
  <1>6. \A q \in RuleIDs : act'.read[q] = IF q = r THEN Stored(r, act.to[r]) ELSE act.read[q]
    BY <1>1, <1>2 DEF AnyActivation
  <1>7. UNCHANGED <<defs, states, timers, table, active, result, eval, faults>>
    BY DEF ApplyReads
  <1>8. Phases'
    BY <1>1, <1>5, <1>7 DEF DInv, Phases, Configured
  <1>9. ReadOwn'
    BY <1>1, <1>3, <1>5, <1>6 DEF DInv, ReadOwn
  <1> QED
    BY <1>5, <1>7, <1>8, <1>9, ActDInv DEF DInv, Shaped, Woken

\* Apply or the scheduler fails: nothing is promised of timers from then on.
LEMMA ActFailsDInv ==
    ASSUME DInv, ApplyFails \/ SchedulerFails
    PROVE  DInv'
  <1>1. /\ UNCHANGED <<defs, states, timers, table, active, result, eval>> /\ faults' = faults + 1
        /\ act.phase \in {"read", "swapped"} /\ act' \in {Failed, Idle, Abandoned(act)}
    BY DEF ApplyFails, SchedulerFails, Fault
  <1>2. faults' \in Nat /\ faults' # 0
    BY <1>1 DEF DInv, Shaped
  <1>3. /\ act' \in AnyActivation \cup {Idle, Failed} /\ act'.phase \notin {"evaluate", "evaluating"}
        /\ act'.phase = "read" => \A r \in RuleIDs : act'.read[r] = None
    BY <1>1, ActShape, AbandonedShape DEF DInv
  <1>4. Phases' /\ ReadOwn' /\ Woken'
    BY <1>1, <1>2, <1>3 DEF DInv, Phases, ReadOwn, Woken, Configured
  <1> QED
    BY <1>1, <1>2, <1>3, <1>4, ActDInv DEF DInv, Shaped

LEMMA ApplySwapsDInv ==
    ASSUME DInv, ApplySwaps
    PROVE  DInv'
  <1>1. act \in AnyActivation /\ act.phase = "read"
    BY ActShape DEF DInv, ApplySwaps
  <1>2. act' \in AnyActivation /\ act'.phase = "swapped"
    BY <1>1 DEF ApplySwaps, AnyActivation
  <1>3. /\ UNCHANGED <<table, eval, faults, result>> /\ eval = None
        /\ defs' = act.to /\ states' = act.read /\ timers' = Blank /\ active' = FALSE
    BY DEF ApplySwaps
  <1>4. \A r \in RuleIDs : timers'[r] = None
    BY <1>3 DEF Blank
  <1>5. Shaped'
    BY Zenon, <1>1, <1>2, <1>3 DEF DInv, Shaped, AnyActivation, Blank
  <1>6. Phases' /\ ReadOwn' /\ Woken'
    BY <1>2, <1>3 DEF Phases, ReadOwn, Woken
  <1>7. OwnDeadlines'
    <2>1. \A r \in RuleIDs : IF act.to[r] = None THEN act.read[r] = None
                                                 ELSE act.read[r] \in State(act.to[r])
      BY <1>1 DEF DInv, ReadOwn, ApplySwaps
    <2> QED
      BY <1>3, <1>4, <2>1 DEF DInv, OwnDeadlines
  <1> QED
    BY <1>5, <1>6, <1>7 DEF DInv

LEMMA ActivateDInv ==
    ASSUME DInv, Activate
    PROVE  DInv'
  <1>1. act \in AnyActivation /\ act.phase = "swapped"
    BY ActShape DEF DInv, Activate
  <1>2. act' \in AnyActivation /\ act'.phase = "evaluate"
    BY <1>1 DEF Activate, AnyActivation
  <1>3. UNCHANGED <<defs, states, timers, table, eval, faults, result>> /\ eval = None /\ active' = TRUE
    BY DEF Activate
  <1>4. Shaped'
    BY <1>2, <1>3 DEF DInv, Shaped
  <1>5. Phases' /\ ReadOwn' /\ Woken'
    BY <1>2, <1>3 DEF Phases, ReadOwn, Woken
  <1>6. OwnDeadlines'
    BY <1>3 DEF DInv, OwnDeadlines
  <1> QED
    BY <1>4, <1>5, <1>6 DEF DInv

LEMMA ActivationEvaluatesDInv ==
    ASSUME DInv, ActivationEvaluates
    PROVE  DInv'
  <1>1. act \in AnyActivation /\ act.phase = "evaluate" /\ active
    BY ActShape DEF DInv, Phases, ActivationEvaluates
  <1>2. act' \in AnyActivation /\ act'.phase = "evaluating"
    BY <1>1 DEF ActivationEvaluates, AnyActivation
  <1>3. UNCHANGED <<defs, states, timers, table, active, faults, result>> /\ Configured' = Configured
    BY DEF ActivationEvaluates, Configured
  <1>4. eval' \in Evaluation /\ eval' # None /\ eval'.todo = Configured /\ eval'.by = "activation"
    BY <1>1, EvaluatingShape DEF DInv, ActivationEvaluates
  <1>5. Phases' /\ ReadOwn'
    BY <1>1, <1>2, <1>3, <1>4 DEF Phases, ReadOwn
  <1>6. Woken'
    BY <1>3, <1>4 DEF Woken, Awake
  <1> QED
    BY <1>2, <1>3, <1>4, <1>5, <1>6, ActDInv DEF DInv, Shaped

LEMMA StopDInv ==
    ASSUME DInv, Stop
    PROVE  DInv'
  <1>1. /\ act' = Off /\ eval' = None /\ active' = FALSE /\ UNCHANGED <<result, table, faults>>
        /\ defs' = Blank /\ states' = Blank /\ timers' = Blank
    BY DEF Stop
  <1>2. Shaped'
    BY Zenon, <1>1 DEF DInv, Shaped, Blank, Config
  <1>3. Phases' /\ ReadOwn' /\ Woken'
    BY <1>1 DEF Phases, ReadOwn, Woken, Off
  <1>4. OwnDeadlines'
    BY <1>1 DEF DInv, OwnDeadlines, Blank
  <1> QED
    BY <1>2, <1>3, <1>4 DEF DInv

\* Time leaves a state or a timer of a definition one of that definition.
LEMMA AgedDeadline ==
    ASSUME NEW h \in Hashes
    PROVE  /\ \A s \in State(h) : Aged(s) \in State(h)
           /\ \A m \in RuleTimer : m.wait \in 0..For[h] =>
                 /\ Aged(m) \in RuleTimer /\ Aged(m).hash = m.hash /\ Aged(m).wait \in 0..For[h]
  BY DEF State, Aged, RuleTimer

\* A state and its timer age alike.
LEMMA AgedTogether ==
    ASSUME NEW h \in Hashes, NEW s \in State(h)
    PROVE  /\ Aged(s).fired = s.fired /\ (s.wait = -1 => Aged(s).wait = -1)
           /\ Aged([hash |-> h, wait |-> s.wait]) = [hash |-> h, wait |-> Aged(s).wait]
  <1>1. s \in RuleState /\ s # None /\ s.wait \in Int
    BY StateShape DEF RuleState
  <1>2. [hash |-> h, wait |-> s.wait] \in RuleTimer
    BY <1>1 DEF RuleTimer
  <1>3. [hash |-> h, wait |-> s.wait] # None
    BY <1>2
  <1> QED
    BY <1>1, <1>3 DEF Aged, RuleState

LEMMA TimePassesDInv ==
    ASSUME DInv, TimePasses
    PROVE  DInv'
  <1>1. UNCHANGED <<defs, active, eval, faults, result, callbacks>> /\ Configured' = Configured
    BY DEF TimePasses, Configured
  <1>2. \A r \in RuleIDs : /\ states'[r] = Aged(states[r]) /\ table'[r] = Aged(table[r])
                           /\ timers'[r] = Aged(timers[r])
    BY DEF TimePasses, AllAged
  <1>3. Aged(None) = None
    BY DEF Aged
  <1>4. ASSUME NEW m \in RuleTimer \cup {None} PROVE Aged(m) \in RuleTimer \cup {None}
    BY DEF Aged, RuleTimer
  <1>5. \A f \in [RuleIDs -> RuleState \cup {None}] : AllAged(f) \in [RuleIDs -> RuleState \cup {None}]
    BY AgedState DEF AllAged
  <1>6. /\ act' \in AnyActivation \cup {Idle, Failed, Off} /\ act'.phase = act.phase
        /\ act.phase = "read" => /\ act'.to = act.to
                                 /\ \A r \in RuleIDs : act'.read[r] = Aged(act.read[r])
    <2>1. CASE act.phase = "read"
      <3>1. act \in AnyActivation /\ act' = [act EXCEPT !.read = AllAged(@)]
        BY <2>1, ActShape DEF DInv, TimePasses
      <3> QED
        BY <1>5, <2>1, <3>1 DEF AnyActivation, AllAged
    <2>2. CASE act.phase # "read"
      BY <2>2 DEF DInv, Shaped, TimePasses
    <2> QED
      BY <2>1, <2>2
  <1>7. Shaped'
    <2>1. timers' \in [RuleIDs -> RuleTimer \cup {None}]
      BY <1>4 DEF DInv, Shaped, TimePasses, AllAged
    <2> QED
      BY <1>1, <1>5, <1>6, <2>1 DEF DInv, Shaped, TimePasses
  <1>8. Phases'
    BY <1>1, <1>6 DEF DInv, Phases
  <1>9. ReadOwn'
    <2>1. ASSUME act.phase = "read", NEW r \in RuleIDs, act'.read[r] # None
          PROVE  act'.to[r] # None /\ act'.read[r] \in State(act'.to[r])
      <3>1. act.read[r] # None
        BY <1>3, <1>6, <2>1
      <3>2. act.to[r] # None /\ act.read[r] \in State(act.to[r])
        BY <2>1, <3>1 DEF DInv, ReadOwn
      <3>3. act.to[r] \in Hashes
        BY <2>1, <3>2, ActShape DEF DInv, AnyActivation, Config
      <3> QED
        BY <1>6, <2>1, <3>2, <3>3, AgedDeadline
    <2> QED
      BY <1>6, <2>1 DEF ReadOwn
  <1>10. OwnDeadlines'
    <2>1. ASSUME NEW r \in RuleIDs
          PROVE  /\ IF defs[r] = None THEN states'[r] = None ELSE states'[r] \in State(defs[r])
                 /\ timers'[r] # None => timers'[r].wait \in 0..For[timers'[r].hash] /\ timers'[r].hash = defs[r]
                 /\ table'[r] # None => table'[r] \in State(table'[r].hash)
      <3>1. IF defs[r] = None THEN states'[r] = None ELSE states'[r] \in State(defs[r])
        <4>1. defs[r] \in Hashes \cup {None} /\ states'[r] = Aged(states[r])
          BY <1>2 DEF DInv, Shaped, Config
        <4>2. IF defs[r] = None THEN states[r] = None ELSE states[r] \in State(defs[r])
          BY DEF DInv, OwnDeadlines
        <4>3. CASE defs[r] = None
          BY <1>3, <4>1, <4>2, <4>3
        <4>4. CASE defs[r] # None
          <5>1. defs[r] \in Hashes /\ states[r] \in State(defs[r])
            BY <4>1, <4>2, <4>4
          <5>2. Aged(states[r]) \in State(defs[r])
            BY Zenon, <5>1, AgedDeadline
          <5> QED
            BY <4>1, <4>4, <5>2
        <4> QED
          BY <4>3, <4>4
      <3>2. ASSUME timers'[r] # None
            PROVE  timers'[r].wait \in 0..For[timers'[r].hash] /\ timers'[r].hash = defs[r]
        <4>1. timers[r] \in RuleTimer
          BY <1>2, <1>3, <3>2 DEF DInv, Shaped
        <4>2. /\ timers[r].wait \in 0..For[timers[r].hash] /\ timers[r].hash = defs[r]
              /\ timers[r].hash \in Hashes
          BY <4>1 DEF DInv, OwnDeadlines, RuleTimer
        <4>3. /\ Aged(timers[r]).hash = timers[r].hash
              /\ Aged(timers[r]).wait \in 0..For[timers[r].hash]
          BY Zenon, <4>1, <4>2, AgedDeadline
        <4> QED
          BY <1>2, <4>2, <4>3
      <3>3. ASSUME table'[r] # None PROVE table'[r] \in State(table'[r].hash)
        <4>1. table[r] \in RuleState
          BY <1>2, <1>3, <3>3 DEF DInv, Shaped
        <4>2. table[r].hash \in Hashes /\ table[r] \in State(table[r].hash)
          BY <4>1 DEF DInv, OwnDeadlines, RuleState
        <4>3. table'[r].hash = table[r].hash
          BY <1>2, <4>1, AgedState
        <4>4. Aged(table[r]) \in State(table[r].hash)
          BY Zenon, <4>2, AgedDeadline
        <4> QED
          BY <1>2, <4>3, <4>4
      <3> QED
        BY <3>1, <3>2, <3>3
    <2> QED
      BY <1>1, <2>1 DEF OwnDeadlines
  <1>11. ASSUME NEW r \in Configured, Awake(r) PROVE Awake(r)'
    <2>1. r \in RuleIDs /\ defs[r] \in Hashes /\ states[r] \in State(defs[r])
      BY DEF Configured, DInv, Shaped, Config, OwnDeadlines
    <2>2. /\ states'[r].fired = states[r].fired /\ (states[r].wait = -1 => states'[r].wait = -1)
          /\ Aged([hash |-> defs[r], wait |-> states[r].wait]) = [hash |-> defs[r], wait |-> states'[r].wait]
      BY <1>2, <2>1, AgedTogether
    <2>3. timers'[r] = Aged(timers[r])
      BY <1>2, <2>1
    <2> QED
      BY <1>1, <1>11, <2>2, <2>3 DEF Awake
  <1>12. Woken'
    BY <1>1, <1>6, <1>11 DEF DInv, Woken
  <1> QED
    BY <1>7, <1>8, <1>9, <1>10, <1>12 DEF DInv

LEMMA NextDInv ==
    ASSUME DInv, [Next]_vars
    PROVE  DInv'
  BY CardsChangeDInv, TakesMutexDInv, TimerFiresDInv, CallbackChecksDInv, EvaluateRuleDInv,
     EvaluateFailsDInv, EvaluationEndsDInv, ReadingDInv, ApplyReadsDInv, ActFailsDInv,
     ApplySwapsDInv, ActivateDInv, ActivationEvaluatesDInv, StopDInv, TimePassesDInv
     DEF Next, EvaluationStep, ActivationStep

\* However rules are edited, removed, rolled back and restarted: what waits in memory, in a timer or
\* in the table waits for its own definition and no longer than its for:, and until a store call
\* fails every rule that waits has a timer or a callback that will evaluate it (evaluateLocked,
\* Apply, GetRuleState).
THEOREM DeadlinesAlwaysKept == Spec => []DeadlinesKept
  <1>1. Init => DInv
    BY InitDInv
  <1>2. DInv /\ [Next]_vars => DInv'
    BY NextDInv
  <1>3. ASSUME DInv PROVE WakeUp
    BY <1>3, ActShape DEF DInv, Woken, WakeUp, Awake
  <1>4. DInv => DeadlinesKept
    BY <1>3 DEF DInv, DeadlinesKept
  <1> QED
    BY <1>1, <1>2, <1>4, PTL DEF Spec
=============================================================================
