----------------------------- MODULE Scheduler -----------------------------
(***************************************************************************)
(* The card refresh scheduler, internal/scheduler/scheduler.go, with the   *)
(* card_state table it persists to (internal/storage/storage.go) and the   *)
(* card states it builds (internal/state/cardstate.go).                    *)
(*                                                                         *)
(* Apply replaces the definitions under a new generation and starts one    *)
(* refresh loop per card; a refresh (from a loop or from the API) runs     *)
(* through a flight shared by every caller with the same key, updates the  *)
(* circuit breaker, and commits behind a generation fence.  Each critical  *)
(* section of Manager.mu is one action; refreshes interleave between them. *)
(*                                                                         *)
(* Wall-clock instants are abstracted to the comparisons the code makes:   *)
(* openUntil[c] says that the circuit's instant is still in the future.    *)
(* The throttle of RefreshNow keeps two accepted calls a second apart, and *)
(* a second may pass between any two steps, so it leaves no trace here.    *)
(* consecutiveFailures saturates at Threshold, above which the code only   *)
(* lengthens its backoff.                                                  *)
(***************************************************************************)
EXTENDS Naturals, FiniteSets

CONSTANTS
    Cards,         \* card ids
    Procs,         \* goroutines that may be inside refresh at the same time
    Subs,          \* subscribers: the SSE hub and the rule manager
    Definitions,   \* the definitions a configuration may give a card
    Hashes,        \* Definition.Hash with Definition.SlotRevisions
    Auths,         \* Definition.ManifestDigest with Definition.ApprovalRevision
    Views,         \* the inline view of an http-json card
    MaxGeneration, \* bound: configurations applied in one process lifetime
    MaxRestarts,   \* bound: restarts of the process
    MaxVersion,    \* bound: times the upstream's data changes
    Workers,       \* capacity of Manager.workers (8 in the code)
    Threshold,     \* failures that open the circuit (3 in the code)
    Buffer,        \* capacity of a subscription (32 in the code)
    None           \* absent: nil document, no row, no definition, failed run

(***************************************************************************)
(* The data.  auth = None stands for the empty ManifestDigest and          *)
(* ApprovalRevision of a card that app.BuildGeneration disabled.  A        *)
(* document remembers the definition that produced it and the version of   *)
(* the upstream's data it shows.                                           *)
(***************************************************************************)
Definition == [hash : Hashes, auth : Auths \cup {None}, view : Views,
               mode : {"run", "nil", "disabled"}]

Doc == [hash : Hashes, auth : Auths, view : Views, version : 0..MaxVersion]

CardState == [st : {"pending", "ok", "stale", "error", "disabled"},
              doc : Doc \cup {None}, fails : 0..Threshold, circuit : BOOLEAN]

Row == [hash : Hashes, auth : Auths \cup {None}, state : CardState]

Call == [card : Cards, gen : 1..MaxGeneration, def : Definitions, loop : BOOLEAN]

Prep == [defs : [Cards -> Definitions \cup {None}], states : [Cards -> CardState \cup {None}],
         failures : [Cards -> 0..Threshold], open : [Cards -> BOOLEAN],
         todo : SUBSET Cards, doomed : Cards \cup {None}]

Key == [gen : 1..MaxGeneration, hash : Hashes, auth : Auths \cup {None}]

Closed == Buffer + 1        \* a subscription whose channel was closed
Unsubscribed == Buffer + 2  \* not subscribed yet

ASSUME DefinitionsAssumption ==
    /\ Definitions \subseteq Definition
    /\ \A d \in Definitions : (d.mode = "run") => (d.auth # None)

ASSUME BoundsAssumption ==
    /\ MaxGeneration \in Nat /\ MaxRestarts \in Nat /\ MaxVersion \in Nat
    /\ Workers \in Nat \ {0} /\ Threshold \in Nat \ {0} /\ Buffer \in Nat \ {0}

ASSUME ProcsAssumption == IsFiniteSet(Procs)

ASSUME NoneAssumption ==
    /\ None \notin Cards /\ None \notin Auths /\ None \notin Definition /\ None \notin Doc
    /\ None \notin CardState /\ None \notin Row /\ None \notin Call /\ None \notin Prep

VARIABLES
    generation, \* Manager.generation
    defs,       \* Manager.defs; None for a card without a definition
    states,     \* Manager.states; None for a card without a state
    failures,   \* Manager.failures
    openUntil,  \* Manager.openUntil, as "is in the future"
    flights,    \* the keys of Manager.flights
    workers,    \* slots taken in Manager.workers
    subs,       \* events waiting in each subscription, or Closed, or Unsubscribed
    closed,     \* Manager.cancel was called by Close
    loops,      \* refresh loops waiting for their timer
    pc,         \* where each goroutine is inside refresh
    call,       \* the definition it captured and who called it
    hungUp,     \* the context of a manual refresh was cancelled
    result,     \* the document runShared returned; None for an error
    next,       \* the card state it is about to commit
    prep,       \* Apply between its first store read and its swap
    store,      \* the card_state table
    upstream,   \* the version of the data the services serve
    restarts    \* restarts so far

manager  == <<generation, defs, closed>>
breaker  == <<failures, openUntil>>
running  == <<flights, workers>>
refresh  == <<pc, call, hungUp, result, next>>
world    == <<prep, upstream, restarts>>

vars == <<manager, breaker, running, refresh, world, states, subs, loops, store>>
-----------------------------------------------------------------------------
(***************************************************************************)
(* Card states, internal/state/cardstate.go.                               *)
(***************************************************************************)
Pending == [st |-> "pending", doc |-> None, fails |-> 0, circuit |-> FALSE]

OK(doc) == [st |-> "ok", doc |-> doc, fails |-> 0, circuit |-> FALSE]

Stale(doc, n, open) == [st |-> "stale", doc |-> doc, fails |-> n, circuit |-> open]

\* ErrorWithOpenCircuit records no consecutiveFailures; refresh sets them on a plain Error.
Error(n, open) ==
    [st |-> "error", doc |-> None, fails |-> IF open THEN 0 ELSE n, circuit |-> open]

Disabled == [st |-> "disabled", doc |-> None, fails |-> 0, circuit |-> FALSE]

\* CardState.Validate
Valid(cs) ==
    /\ cs.st \in {"ok", "stale"} => cs.doc # None
    /\ cs.st \in {"pending", "error"} => cs.doc = None
    /\ cs.circuit => cs.st \in {"stale", "error"}

DocOf(cs) == IF cs = None THEN None ELSE cs.doc

Init ==
    /\ generation = 0
    /\ defs = [c \in Cards |-> None]
    /\ states = [c \in Cards |-> None]
    /\ failures = [c \in Cards |-> 0]
    /\ openUntil = [c \in Cards |-> FALSE]
    /\ flights = {}
    /\ workers = 0
    /\ subs = [s \in Subs |-> Unsubscribed]
    /\ closed = FALSE
    /\ loops = {}
    /\ pc = [p \in Procs |-> "idle"]
    /\ call = [p \in Procs |-> None]
    /\ hungUp = [p \in Procs |-> FALSE]
    /\ result = [p \in Procs |-> None]
    /\ next = [p \in Procs |-> None]
    /\ prep = None
    /\ store = [c \in Cards |-> None]
    /\ upstream = 0
    /\ restarts = 0
-----------------------------------------------------------------------------
(***************************************************************************)
(* Apply.  Its preparation reads the store card by card, outside the lock; *)
(* the swap is one critical section.  Calls to Apply are serialised by     *)
(* their only callers, serve and the configuration watcher.                *)
(***************************************************************************)

\* Mutant: the row's approval is not compared.
MatchesAnyApproval(row, d) == row.hash = d.hash

\* Store.GetCardFor: an empty component of the expected identity matches anything.
Matches(row, d) ==
    /\ row.hash = d.hash
    /\ d.auth # None => row.auth = d.auth

\* restored: an ok state whose ttl has passed comes back stale.
Restored(cs) ==
    {cs} \cup (IF cs.st = "ok" THEN {Stale(cs.doc, 0, FALSE)} ELSE {})

ApplyStarts(nd) ==
    /\ prep = None /\ ~closed /\ generation < MaxGeneration
    /\ prep' = [defs |-> nd,
                states |-> [c \in Cards |-> IF nd[c] = None THEN None ELSE Pending],
                failures |-> [c \in Cards |-> 0],
                open |-> [c \in Cards |-> FALSE],
                todo |-> {c \in Cards : nd[c] # None},
                doomed |-> None]
    /\ UNCHANGED <<manager, breaker, running, refresh, states, subs, loops, store, upstream, restarts>>

\* The next card GetCardFor is called for.
Preparing(c) == prep # None /\ ~closed /\ prep.doomed = None /\ c \in prep.todo

\* There is no row, or its document repeats a registered secret: the card starts pending.
PrepareSkips(c) ==
    /\ Preparing(c)
    /\ store[c] # None => (Matches(store[c], prep.defs[c]) /\ store[c].state.doc # None)
    /\ prep' = [prep EXCEPT !.todo = @ \ {c}]
    /\ UNCHANGED <<manager, breaker, running, refresh, states, subs, loops, store, upstream, restarts>>

PrepareRestores(c) ==
    /\ Preparing(c) /\ store[c] # None /\ Matches(store[c], prep.defs[c])
    /\ \E cs \in Restored(store[c].state), ahead \in BOOLEAN :
          prep' = [prep EXCEPT !.todo = @ \ {c},
                               !.states[c] = cs,
                               !.failures[c] = store[c].state.fails,
                               !.open[c] = store[c].state.circuit /\ ahead]
    /\ UNCHANGED <<manager, breaker, running, refresh, states, subs, loops, store, upstream, restarts>>

\* The SELECT of GetCardFor finds the row of another identity ...
PrepareMismatch(c) ==
    /\ Preparing(c) /\ store[c] # None /\ ~Matches(store[c], prep.defs[c])
    /\ prep' = [prep EXCEPT !.doomed = c]
    /\ UNCHANGED <<manager, breaker, running, refresh, states, subs, loops, store, upstream, restarts>>

\* ... and its DELETE, outside any transaction, removes whatever row the card has by then.
PrepareDeletes ==
    /\ prep # None /\ ~closed /\ prep.doomed # None
    /\ store' = [store EXCEPT ![prep.doomed] = None]
    /\ prep' = [prep EXCEPT !.todo = @ \ {prep.doomed}, !.doomed = None]
    /\ UNCHANGED <<manager, breaker, running, refresh, states, subs, loops, upstream, restarts>>

\* The store returns an error: Apply returns it and nothing is swapped.
ApplyFails ==
    /\ prep # None /\ prep.todo # {}
    /\ prep' = None
    /\ UNCHANGED <<manager, breaker, running, refresh, states, subs, loops, store, upstream, restarts>>

\* The loops of the previous generation are cancelled.  One whose timer had fired as well would
\* call refresh once more, only to find itself superseded; it is dropped here.
ApplySwaps ==
    /\ prep # None /\ prep.todo = {}
    /\ generation' = generation + 1
    /\ defs' = prep.defs
    /\ states' = prep.states
    /\ failures' = prep.failures
    /\ openUntil' = prep.open
    /\ loops' = {[card |-> c, gen |-> generation + 1, def |-> prep.defs[c], loop |-> TRUE] :
                    c \in {x \in Cards : prep.defs[x] # None}}
    /\ prep' = None
    /\ UNCHANGED <<closed, running, refresh, subs, store, upstream, restarts>>

\* serve shuts down: the context it gave to Apply is cancelled and the subscriptions end.
Close ==
    /\ ~closed
    /\ closed' = TRUE
    /\ subs' = [s \in Subs |-> IF subs[s] <= Buffer THEN Closed ELSE subs[s]]
    /\ UNCHANGED <<generation, defs, breaker, running, refresh, world, states, loops, store>>
-----------------------------------------------------------------------------
(***************************************************************************)
(* Refresh loops and manual refreshes.                                     *)
(***************************************************************************)

\* Apply and Close cancel the context of a loop; a manual refresh has the request's own.
Cancelled(p) ==
    IF call[p].loop THEN call[p].gen # generation \/ closed ELSE hungUp[p]

Begin(p, cl) ==
    /\ pc[p] = "idle"
    /\ pc' = [pc EXCEPT ![p] = "start"]
    /\ call' = [call EXCEPT ![p] = cl]
    /\ UNCHANGED <<hungUp, result, next>>

\* Mutant: a loop ends after its first refresh.
ReturnForGood(p) ==
    /\ pc' = [pc EXCEPT ![p] = "idle"]
    /\ call' = [call EXCEPT ![p] = None]
    /\ hungUp' = [hungUp EXCEPT ![p] = FALSE]
    /\ result' = [result EXCEPT ![p] = None]
    /\ next' = [next EXCEPT ![p] = None]
    /\ loops' = loops

\* refresh returns; a loop goes back to its timer, or ends when Apply cancelled it.
Return(p) ==
    /\ pc' = [pc EXCEPT ![p] = "idle"]
    /\ call' = [call EXCEPT ![p] = None]
    /\ hungUp' = [hungUp EXCEPT ![p] = FALSE]
    /\ result' = [result EXCEPT ![p] = None]
    /\ next' = [next EXCEPT ![p] = None]
    /\ loops' = IF call[p].loop /\ call[p].gen = generation THEN loops \cup {call[p]} ELSE loops

LoopFires(p, l) ==
    /\ l \in loops
    /\ Begin(p, l)
    /\ loops' = loops \ {l}
    /\ UNCHANGED <<manager, breaker, running, world, states, subs, store>>

\* After Close the timer and the cancelled context may both be ready: either is picked.
LoopExits(l) ==
    /\ l \in loops /\ closed
    /\ loops' = loops \ {l}
    /\ UNCHANGED <<manager, breaker, running, refresh, world, states, subs, store>>

\* The HTTP server has stopped by the time Close is called.
RefreshNow(p, c) ==
    /\ defs[c] # None /\ ~closed
    /\ Begin(p, [card |-> c, gen |-> generation, def |-> defs[c], loop |-> FALSE])
    /\ UNCHANGED <<manager, breaker, running, world, states, subs, loops, store>>

ClientHangsUp(p) ==
    /\ pc[p] # "idle" /\ ~call[p].loop /\ ~hungUp[p]
    /\ hungUp' = [hungUp EXCEPT ![p] = TRUE]
    /\ UNCHANGED <<manager, breaker, running, pc, call, result, next, world, states, subs, loops, store>>

\* Mutant: only a removed card counts as superseded.
SupersededById(p) == defs[call[p].card] = None

\* refresh, up to the call of runShared
Superseded(p) == defs[call[p].card] = None \/ call[p].gen # generation

CheckReturns(p) ==
    /\ pc[p] = "start"
    /\ \/ Superseded(p)
       \/ call[p].def.mode # "disabled" /\ openUntil[call[p].card]
    /\ Return(p)
    /\ UNCHANGED <<manager, breaker, running, world, states, subs, store>>

CheckDisables(p) ==
    /\ pc[p] = "start" /\ ~Superseded(p)
    /\ \/ call[p].def.mode = "disabled"
       \/ call[p].def.mode = "nil" /\ ~openUntil[call[p].card]
    /\ pc' = [pc EXCEPT ![p] = "commit"]
    /\ next' = [next EXCEPT ![p] = Disabled]
    /\ UNCHANGED <<manager, breaker, running, call, hungUp, result, world, states, subs, loops, store>>

CheckRuns(p) ==
    /\ pc[p] = "start" /\ ~Superseded(p)
    /\ call[p].def.mode = "run" /\ ~openUntil[call[p].card]
    /\ pc' = [pc EXCEPT ![p] = "join"]
    /\ UNCHANGED <<manager, breaker, running, call, hungUp, result, next, world, states, subs, loops, store>>
-----------------------------------------------------------------------------
(***************************************************************************)
(* runShared.  The view of an http-json card is in no part of the key.     *)
(***************************************************************************)
KeyOf(cl) == [gen |-> cl.gen, hash |-> cl.def.hash, auth |-> cl.def.auth]

Produced(d) == [hash |-> d.hash, auth |-> d.auth, view |-> d.view, version |-> upstream]

Join(p) ==
    /\ pc[p] = "join"
    /\ flights' = flights \cup {KeyOf(call[p])}
    /\ pc' = [pc EXCEPT ![p] = IF KeyOf(call[p]) \in flights THEN "waiting" ELSE "slot"]
    /\ UNCHANGED <<manager, breaker, workers, call, hungUp, result, next, world, states, subs, loops, store>>

AcquireWorker(p) ==
    /\ pc[p] = "slot" /\ workers < Workers
    /\ workers' = workers + 1
    /\ pc' = [pc EXCEPT ![p] = "running"]
    /\ UNCHANGED <<manager, breaker, flights, call, hungUp, result, next, world, states, subs, loops, store>>

\* Mutant: the channel is not closed, waiters sleep on.
LandSilently(p, doc) ==
    /\ flights' = flights \ {KeyOf(call[p])}
    /\ pc' = [pc EXCEPT ![p] = "ran"]
    /\ result' = [result EXCEPT ![p] = doc]

\* The deferred function: the flight ends and every waiter can read its outcome.
Land(p, doc) ==
    LET waiters == {q \in Procs : pc[q] = "waiting" /\ KeyOf(call[q]) = KeyOf(call[p])}
    IN  /\ flights' = flights \ {KeyOf(call[p])}
        /\ pc' = [q \in Procs |-> IF q = p THEN "ran" ELSE IF q \in waiters THEN "woken" ELSE pc[q]]
        /\ result' = [q \in Procs |-> IF q = p \/ q \in waiters THEN doc ELSE result[q]]

\* Mutant: the cancelled path returns without releasing the flight.
SlotCancelledLeaks(p) ==
    /\ pc[p] = "slot" /\ Cancelled(p)
    /\ pc' = [pc EXCEPT ![p] = "ran"]
    /\ UNCHANGED <<manager, breaker, running, call, hungUp, result, next, world, states, subs, loops, store>>

SlotCancelled(p) ==
    /\ pc[p] = "slot" /\ Cancelled(p)
    /\ Land(p, None)
    /\ UNCHANGED <<manager, breaker, workers, call, hungUp, next, world, states, subs, loops, store>>

Run(p, doc) ==
    /\ pc[p] = "running"
    /\ workers' = workers - 1
    /\ Land(p, doc)
    /\ UNCHANGED <<manager, breaker, call, hungUp, next, world, states, subs, loops, store>>

RunSucceeds(p) == Run(p, Produced(call[p].def))

\* d.Run returned an error, its timeout included.
RunFails(p) == Run(p, None)

\* select picks the cancelled context, even when the flight has landed as well.
WaiterCancelled(p) ==
    /\ pc[p] \in {"waiting", "woken"} /\ Cancelled(p)
    /\ pc' = [pc EXCEPT ![p] = "ran"]
    /\ result' = [result EXCEPT ![p] = None]
    /\ UNCHANGED <<manager, breaker, running, call, hungUp, next, world, states, subs, loops, store>>
-----------------------------------------------------------------------------
(***************************************************************************)
(* refresh, after runShared: the breaker and the commit are separate       *)
(* critical sections, and only the commit checks the generation.           *)
(***************************************************************************)
Finished(p) == pc[p] \in {"ran", "woken"}

\* The document repeats a secret, or its signals are not the ones this card declares and retains:
\* this refresh counts it as a failure, whatever others make of the same flight's document.
Refuse(p) ==
    /\ Finished(p) /\ result[p] # None
    /\ pc' = [pc EXCEPT ![p] = "ran"]
    /\ result' = [result EXCEPT ![p] = None]
    /\ UNCHANGED <<manager, breaker, running, call, hungUp, next, world, states, subs, loops, store>>

\* boundHistory cannot read the retained points: the error is returned, nothing is recorded.
HistoryFails(p) ==
    /\ Finished(p) /\ result[p] # None
    /\ Return(p)
    /\ UNCHANGED <<manager, breaker, running, world, states, subs, store>>

Succeed(p) ==
    /\ Finished(p) /\ result[p] # None
    /\ failures' = [failures EXCEPT ![call[p].card] = 0]
    /\ openUntil' = [openUntil EXCEPT ![call[p].card] = FALSE]
    /\ next' = [next EXCEPT ![p] = OK(result[p])]
    /\ pc' = [pc EXCEPT ![p] = "commit"]
    /\ UNCHANGED <<manager, running, call, hungUp, result, world, states, subs, loops, store>>

\* The last good document is the one displayed at this moment.
CountFailure(p) ==
    LET c    == call[p].card
        n    == IF failures[c] < Threshold THEN failures[c] + 1 ELSE Threshold
        open == n = Threshold
        last == DocOf(states[c])
    IN  /\ Finished(p) /\ result[p] = None
        /\ failures' = [failures EXCEPT ![c] = n]
        /\ next' = [next EXCEPT ![p] = IF last # None THEN Stale(last, n, open) ELSE Error(n, open)]
        /\ pc' = [pc EXCEPT ![p] = IF open THEN "open" ELSE "commit"]
        /\ UNCHANGED <<manager, openUntil, running, call, hungUp, result, world, states, subs, loops, store>>

OpenCircuit(p) ==
    /\ pc[p] = "open"
    /\ openUntil' = [openUntil EXCEPT ![call[p].card] = TRUE]
    /\ pc' = [pc EXCEPT ![p] = "commit"]
    /\ UNCHANGED <<manager, failures, running, call, hungUp, result, next, world, states, subs, loops, store>>

CircuitElapses(c) ==
    /\ openUntil[c]
    /\ openUntil' = [openUntil EXCEPT ![c] = FALSE]
    /\ UNCHANGED <<manager, failures, running, refresh, world, states, subs, loops, store>>

\* A subscriber that has not drained its buffer is cut off.
Publish ==
    subs' = [s \in Subs |-> IF subs[s] <= Buffer THEN subs[s] + 1 ELSE subs[s]]

RowOf(cl, cs) == [hash |-> cl.def.hash, auth |-> cl.def.auth, state |-> cs]

\* Mutant: the commit does not look at the generation.
CommitUnfenced(p) ==
    /\ pc[p] = "commit"
    /\ Valid(next[p]) /\ ~Cancelled(p)
    /\ store' = [store EXCEPT ![call[p].card] = RowOf(call[p], next[p])]
    /\ states' = [states EXCEPT ![call[p].card] = next[p]]
    /\ Publish
    /\ Return(p)
    /\ UNCHANGED <<manager, breaker, running, world>>

\* commitWithHistory, in one critical section with the transaction of PutCardWithSignals.
Commit(p) ==
    /\ pc[p] = "commit"
    /\ Valid(next[p]) /\ ~Superseded(p) /\ ~Cancelled(p)
    /\ store' = [store EXCEPT ![call[p].card] = RowOf(call[p], next[p])]
    /\ states' = [states EXCEPT ![call[p].card] = next[p]]
    /\ Publish
    /\ Return(p)
    /\ UNCHANGED <<manager, breaker, running, world>>

\* An invalid state, a superseded generation, or a cancelled context, which the store refuses.
CommitRefused(p) ==
    /\ pc[p] = "commit"
    /\ ~Valid(next[p]) \/ Superseded(p) \/ Cancelled(p)
    /\ Return(p)
    /\ UNCHANGED <<manager, breaker, running, world, states, subs, store>>

StoreFails(p) ==
    /\ pc[p] = "commit" /\ Valid(next[p]) /\ ~Superseded(p)
    /\ Return(p)
    /\ UNCHANGED <<manager, breaker, running, world, states, subs, store>>
-----------------------------------------------------------------------------
(***************************************************************************)
(* Subscribers, restarts and the environment.                              *)
(***************************************************************************)
Subscribe(s) ==
    /\ subs[s] = Unsubscribed
    /\ subs' = [subs EXCEPT ![s] = 0]
    /\ UNCHANGED <<manager, breaker, running, refresh, world, states, loops, store>>

Receive(s) ==
    /\ subs[s] \in 1..Buffer
    /\ subs' = [subs EXCEPT ![s] = @ - 1]
    /\ UNCHANGED <<manager, breaker, running, refresh, world, states, loops, store>>

Unsubscribe(s) ==
    /\ subs[s] <= Buffer
    /\ subs' = [subs EXCEPT ![s] = Closed]
    /\ UNCHANGED <<manager, breaker, running, refresh, world, states, loops, store>>

\* The process ends, at any point, and starts again on the same database.
Restart ==
    /\ restarts < MaxRestarts
    /\ restarts' = restarts + 1
    /\ generation' = 0
    /\ defs' = [c \in Cards |-> None]
    /\ states' = [c \in Cards |-> None]
    /\ failures' = [c \in Cards |-> 0]
    /\ openUntil' = [c \in Cards |-> FALSE]
    /\ flights' = {}
    /\ workers' = 0
    /\ subs' = [s \in Subs |-> Unsubscribed]
    /\ closed' = FALSE
    /\ loops' = {}
    /\ pc' = [p \in Procs |-> "idle"]
    /\ call' = [p \in Procs |-> None]
    /\ hungUp' = [p \in Procs |-> FALSE]
    /\ result' = [p \in Procs |-> None]
    /\ next' = [p \in Procs |-> None]
    /\ prep' = None
    /\ UNCHANGED <<store, upstream>>

UpstreamChanges ==
    /\ upstream < MaxVersion
    /\ upstream' = upstream + 1
    /\ UNCHANGED <<manager, breaker, running, refresh, prep, restarts, states, subs, loops, store>>
-----------------------------------------------------------------------------
Apply ==
    \/ \E nd \in [Cards -> Definitions \cup {None}] : ApplyStarts(nd)
    \/ \E c \in Cards : PrepareSkips(c) \/ PrepareRestores(c) \/ PrepareMismatch(c)
    \/ PrepareDeletes
    \/ ApplyFails
    \/ ApplySwaps

\* The steps a refresh takes by itself once it was called.
Step(p) ==
    \/ CheckReturns(p) \/ CheckDisables(p) \/ CheckRuns(p)
    \/ Join(p) \/ AcquireWorker(p) \/ SlotCancelled(p) \/ WaiterCancelled(p)
    \/ RunSucceeds(p) \/ RunFails(p)
    \/ Refuse(p) \/ HistoryFails(p) \/ Succeed(p) \/ CountFailure(p)
    \/ OpenCircuit(p)
    \/ Commit(p) \/ CommitRefused(p) \/ StoreFails(p)

Next ==
    \/ Apply
    \/ \E p \in Procs : Step(p) \/ ClientHangsUp(p)
    \/ \E p \in Procs, l \in loops : LoopFires(p, l)
    \/ \E l \in loops : LoopExits(l)
    \/ \E p \in Procs, c \in Cards : RefreshNow(p, c)
    \/ \E c \in Cards : CircuitElapses(c)
    \/ \E s \in Subs : Subscribe(s) \/ Receive(s) \/ Unsubscribe(s)
    \/ Close \/ Restart \/ UpstreamChanges

Spec == Init /\ [][Next]_vars

(***************************************************************************)
(* Fairness.  A goroutine inside refresh keeps running: Run honours its    *)
(* timeout and the critical sections are short.  Senders blocked on the    *)
(* workers channel are served first come, first served.  Every loop is a   *)
(* goroutine of its own, so the bound on Procs must not starve it.  Timers *)
(* fire.  Nothing is assumed of the API's clients, of reloads, restarts    *)
(* and of the environment.                                                 *)
(***************************************************************************)
Fairness ==
    /\ \A p \in Procs : WF_vars(Step(p)) /\ SF_vars(AcquireWorker(p))
    /\ \A c \in Cards :
          /\ SF_vars(\E p \in Procs, l \in loops : l.card = c /\ LoopFires(p, l))
          /\ WF_vars(CircuitElapses(c))

FairSpec == Spec /\ Fairness
-----------------------------------------------------------------------------
(***************************************************************************)
(* Properties.                                                             *)
(***************************************************************************)

ManagerOK ==
    /\ generation \in 0..MaxGeneration
    /\ defs \in [Cards -> Definitions \cup {None}]
    /\ closed \in BOOLEAN

BreakerOK ==
    /\ failures \in [Cards -> 0..Threshold]
    /\ openUntil \in [Cards -> BOOLEAN]

RunningOK ==
    /\ flights \subseteq Key
    /\ workers \in 0..Workers

RefreshOK ==
    /\ pc \in [Procs -> {"idle", "start", "join", "slot", "running", "waiting", "woken",
                         "ran", "open", "commit"}]
    /\ call \in [Procs -> Call \cup {None}]
    /\ hungUp \in [Procs -> BOOLEAN]
    /\ result \in [Procs -> Doc \cup {None}]
    /\ next \in [Procs -> CardState \cup {None}]

WorldOK ==
    /\ prep \in Prep \cup {None}
    /\ upstream \in 0..MaxVersion
    /\ restarts \in 0..MaxRestarts

DisplayOK ==
    /\ states \in [Cards -> CardState \cup {None}]
    /\ store \in [Cards -> Row \cup {None}]

SubsOK == subs \in [Subs -> 0..Unsubscribed]

LoopsOK == loops \subseteq Call

\* Every variable has its type; in particular Manager.workers holds at most its capacity.
TypeOK ==
    /\ ManagerOK /\ BreakerOK /\ RunningOK /\ RefreshOK
    /\ WorldOK /\ DisplayOK /\ SubsOK /\ LoopsOK

MadeFor(doc, d) ==
    /\ d # None
    /\ doc.hash = d.hash
    /\ d.auth # None => doc.auth = d.auth

\* Whatever reloads, restarts and late refreshes happen, a displayed document was produced under
\* the configuration, connection revisions and (where the card runs at all) the approval of the
\* card's current definition: GetCardFor and the generation fence of commitWithHistory.
DocumentIdentity ==
    \A c \in Cards : DocOf(states[c]) # None => MadeFor(states[c].doc, defs[c])

\* A persisted document was produced under exactly the identity its row is labelled with, so that
\* GetCardFor's comparison of the label decides about the document.
RowIdentity ==
    \A c \in Cards :
        (store[c] # None /\ store[c].state.doc # None) =>
            /\ store[c].state.doc.hash = store[c].hash
            /\ store[c].state.doc.auth = store[c].auth

Leading(p) == pc[p] \in {"slot", "running"}

\* runShared: at most one caller runs per key and generation, a registered flight has a live
\* caller to land it, and nobody waits for a flight that is gone.
SingleFlight ==
    /\ \A p, q \in Procs :
          (Leading(p) /\ Leading(q) /\ KeyOf(call[p]) = KeyOf(call[q])) => p = q
    /\ \A k \in flights : \E p \in Procs : Leading(p) /\ KeyOf(call[p]) = k
    /\ \A p \in Procs : (Leading(p) \/ pc[p] = "waiting") => KeyOf(call[p]) \in flights

\* Every slot of Manager.workers is held by one running refresh, and is returned by it.
WorkersAccounted == workers = Cardinality({p \in Procs : pc[p] = "running"})

FencedStep ==
    \A c \in Cards :
        /\ (states'[c] # states[c] /\ generation' = generation) =>
              \E p \in Procs : pc[p] = "commit" /\ call[p].card = c /\ call[p].gen = generation
        /\ (store'[c] # store[c] /\ store'[c] # None) =>
              defs[c] # None /\ store'[c] = RowOf([def |-> defs[c]], states'[c])

\* The fence of commitWithHistory: within a generation, a refresh started under an earlier one
\* changes neither what is displayed nor what is persisted; what is persisted is what is
\* displayed from then on, labelled with the identity of the card's current definition.
Fence == [][FencedStep]_vars

\* Every refresh returns: a caller is never left waiting on a flight or a worker slot.
RefreshReturns == \A p \in Procs : (pc[p] # "idle") ~> (pc[p] = "idle")

\* What the services, the database or an API client may do to a refresh.
Fault(p) == RunFails(p) \/ Refuse(p) \/ HistoryFails(p) \/ StoreFails(p) \/ ClientHangsUp(p)

\* A card whose integration runs recovers by itself: once faults stop and the card stays
\* configured, it ends up displaying the upstream's current data, whatever failures, open
\* circuits and late refreshes came before.
Converges ==
    \A c \in Cards :
        (/\ <>[][\A p \in Procs : ~Fault(p)]_vars
         /\ <>[](~closed /\ defs[c] # None /\ defs[c].mode = "run"))
        => <>[](states[c] # None /\ states[c].st = "ok" /\ states[c].doc.version = upstream)
-----------------------------------------------------------------------------
(***************************************************************************)
(* The inductive invariant behind the safety properties.                   *)
(***************************************************************************)
Carries(doc, d) == doc.hash = d.hash /\ doc.auth = d.auth

\* A refresh inside the code knows its call, and the state it is about to commit.
Started ==
    \A p \in Procs :
        /\ pc[p] # "idle" => call[p] # None
        /\ pc[p] \in {"open", "commit"} => next[p] # None
        /\ pc[p] \in {"join", "slot", "running", "waiting", "woken", "ran", "open"}
              => call[p].def.mode = "run"

\* Before the first Apply there is nothing to refresh.
Booting == generation = 0 => \A c \in Cards : defs[c] = None /\ states[c] = None

\* What a caller or a loop captured is the current definition as long as its generation is.
Captured ==
    /\ \A p \in Procs : pc[p] # "idle" =>
          /\ call[p].gen <= generation
          /\ call[p].gen = generation => defs[call[p].card] = call[p].def
    /\ \A l \in loops : l.gen = generation /\ defs[l.card] = l.def

\* The documents under way belong to the definition they were run for.
UnderWay ==
    \A p \in Procs :
        /\ (pc[p] \in {"ran", "woken"} /\ result[p] # None) => Carries(result[p], call[p].def)
        /\ (pc[p] \in {"open", "commit"} /\ call[p].gen = generation /\ next[p].doc # None)
              => Carries(next[p].doc, call[p].def)

\* The states Apply has prepared belong to the definitions it will swap in.
Prepared ==
    prep # None =>
        /\ generation < MaxGeneration
        /\ \A c \in prep.todo : prep.defs[c] # None
        /\ prep.doomed # None => prep.doomed \in prep.todo
        /\ \A c \in Cards : DocOf(prep.states[c]) # None => MadeFor(prep.states[c].doc, prep.defs[c])

\* Every part of the argument that displayed and persisted documents carry the identity of the
\* definition they stand for: what Apply, the loops, runShared and refresh hold in between.
Inv ==
    /\ TypeOK
    /\ Started
    /\ Booting
    /\ Captured
    /\ UnderWay
    /\ Prepared
    /\ DocumentIdentity
    /\ RowIdentity
    /\ SingleFlight
    /\ WorkersAccounted
-----------------------------------------------------------------------------
(***************************************************************************)
(* What the documentation says and the code does not do.                   *)
(***************************************************************************)

\* docs/01-architecture.md on failures: the last good document is kept.
LastGoodKept ==
    [][\A c \in Cards :
          (generation' = generation /\ DocOf(states[c]) # None /\ defs[c].mode = "run")
              => DocOf(states'[c]) # None]_vars
=============================================================================
