---------------------------- MODULE SchedulerProofs ----------------------------
(***************************************************************************)
(* Scheduler, for all values of its constants: Inv is inductive, by one    *)
(* lemma per action, and the theorems follow from it.                      *)
(***************************************************************************)
EXTENDS Scheduler, TLAPS

USE DEF manager, breaker, running, refresh, world

-----------------------------------------------------------------------------
(* Outside refresh: Apply, Close, subscribers, the environment *)

\* restored keeps the document and yields a card state.
LEMMA RestoredTypes ==
    ASSUME NEW old \in CardState, NEW cs \in Restored(old)
    PROVE  cs \in CardState /\ cs.doc = old.doc
  <1>1. CASE cs = old
    BY <1>1
  <1>2. CASE cs = Stale(old.doc, 0, FALSE)
    BY <1>2, BoundsAssumption DEF Stale, CardState
  <1> QED
    BY Zenon, <1>1, <1>2 DEF Restored

LEMMA ApplyStartsInv ==
    ASSUME Inv, NEW nd \in [Cards -> Definitions \cup {None}], ApplyStarts(nd)
    PROVE  Inv'
  <1>1. TypeOK'
    <2>1. WorldOK'
      BY BoundsAssumption, NoneAssumption DEF Inv, TypeOK, WorldOK, ManagerOK, Prep, CardState, Pending, ApplyStarts
    <2> QED BY <2>1 DEF Inv, TypeOK, ManagerOK, BreakerOK, RunningOK, RefreshOK, DisplayOK, SubsOK, LoopsOK, ApplyStarts
  <1>2. Prepared'
    BY NoneAssumption DEF Inv, TypeOK, WorldOK, ManagerOK, Prepared, DocOf, MadeFor, Pending, ApplyStarts
  <1>3. Started' /\ Booting' /\ Captured' /\ UnderWay' /\ DocumentIdentity' /\ RowIdentity' /\ SingleFlight' /\ WorkersAccounted'
    BY DEF Inv, Started, Booting, Captured, UnderWay, DocumentIdentity, RowIdentity, SingleFlight, Leading, WorkersAccounted, ApplyStarts
  <1> QED
    BY <1>1, <1>2, <1>3 DEF Inv

LEMMA PrepareSkipsInv ==
    ASSUME Inv, NEW c \in Cards, PrepareSkips(c)
    PROVE  Inv'
  <1>1. TypeOK'
    <2>1. WorldOK'
      BY DEF Inv, TypeOK, WorldOK, Prep, Preparing, PrepareSkips
    <2> QED BY <2>1 DEF Inv, TypeOK, ManagerOK, BreakerOK, RunningOK, RefreshOK, DisplayOK, SubsOK, LoopsOK, PrepareSkips
  <1>2. Prepared'
    BY DEF Inv, TypeOK, WorldOK, Prepared, Prep, DocOf, MadeFor, Preparing, PrepareSkips
  <1>3. Started' /\ Booting' /\ Captured' /\ UnderWay' /\ DocumentIdentity' /\ RowIdentity' /\ SingleFlight' /\ WorkersAccounted'
    BY DEF Inv, Started, Booting, Captured, UnderWay, DocumentIdentity, RowIdentity, SingleFlight, Leading, WorkersAccounted, PrepareSkips
  <1> QED
    BY <1>1, <1>2, <1>3 DEF Inv

LEMMA PrepareRestoresInv ==
    ASSUME Inv, NEW c \in Cards, PrepareRestores(c)
    PROVE  Inv'
  <1>1. TypeOK'
    <2>1. PICK cs \in Restored(store[c].state), ahead \in BOOLEAN :
            prep' = [prep EXCEPT !.todo = @ \ {c}, !.states[c] = cs,
                                 !.failures[c] = store[c].state.fails,
                                 !.open[c] = store[c].state.circuit /\ ahead]
      BY Zenon DEF PrepareRestores
    <2>2. prep \in Prep /\ store[c] \in Row
      BY DEF Inv, TypeOK, WorldOK, DisplayOK, PrepareRestores, Preparing
    <2>3. store[c].state \in CardState
      BY <2>2 DEF Row
    <2>4. cs \in CardState
      BY <2>3, RestoredTypes
    <2>5. store[c].state.fails \in 0..Threshold /\ (store[c].state.circuit /\ ahead) \in BOOLEAN
      BY <2>3 DEF CardState
    <2>6. prep' \in Prep
      BY Zenon, <2>1, <2>2, <2>4, <2>5 DEF Prep
    <2>7. WorldOK'
      BY <2>6 DEF Inv, TypeOK, WorldOK, PrepareRestores
    <2> QED BY <2>7 DEF Inv, TypeOK, ManagerOK, BreakerOK, RunningOK, RefreshOK, DisplayOK, SubsOK, LoopsOK, PrepareRestores
  <1>2. Prepared'
    BY SMTT(20), NoneAssumption DEF Inv, TypeOK, WorldOK, DisplayOK, Prepared, Prep, DocOf, MadeFor, Preparing, Row, CardState, Restored, Stale, Matches, RowIdentity, PrepareRestores
  <1>3. Started' /\ Booting' /\ Captured' /\ UnderWay' /\ DocumentIdentity' /\ RowIdentity' /\ SingleFlight' /\ WorkersAccounted'
    BY DEF Inv, Started, Booting, Captured, UnderWay, DocumentIdentity, RowIdentity, SingleFlight, Leading, WorkersAccounted, PrepareRestores
  <1> QED
    BY <1>1, <1>2, <1>3 DEF Inv

LEMMA PrepareMismatchInv ==
    ASSUME Inv, NEW c \in Cards, PrepareMismatch(c)
    PROVE  Inv'
  <1>1. TypeOK'
    <2>1. WorldOK'
      BY DEF Inv, TypeOK, WorldOK, Prep, Preparing, PrepareMismatch
    <2> QED BY <2>1 DEF Inv, TypeOK, ManagerOK, BreakerOK, RunningOK, RefreshOK, DisplayOK, SubsOK, LoopsOK, PrepareMismatch
  <1>2. Prepared'
    BY DEF Inv, TypeOK, WorldOK, Prepared, Prep, DocOf, MadeFor, Preparing, PrepareMismatch
  <1>3. Started' /\ Booting' /\ Captured' /\ UnderWay' /\ DocumentIdentity' /\ RowIdentity' /\ SingleFlight' /\ WorkersAccounted'
    BY DEF Inv, Started, Booting, Captured, UnderWay, DocumentIdentity, RowIdentity, SingleFlight, Leading, WorkersAccounted, PrepareMismatch
  <1> QED
    BY <1>1, <1>2, <1>3 DEF Inv

LEMMA PrepareDeletesInv ==
    ASSUME Inv, PrepareDeletes
    PROVE  Inv'
  <1>1. TypeOK'
    <2>1. WorldOK' /\ DisplayOK'
      BY Zenon DEF Inv, TypeOK, WorldOK, DisplayOK, Prep, PrepareDeletes
    <2> QED BY <2>1 DEF Inv, TypeOK, ManagerOK, BreakerOK, RunningOK, RefreshOK, SubsOK, LoopsOK, PrepareDeletes
  <1>2. Prepared'
    BY DEF Inv, TypeOK, WorldOK, Prepared, Prep, DocOf, MadeFor, PrepareDeletes
  <1>3. RowIdentity'
    BY DEF Inv, TypeOK, DisplayOK, WorldOK, RowIdentity, Prep, PrepareDeletes
  <1>4. Started' /\ Booting' /\ Captured' /\ UnderWay' /\ DocumentIdentity' /\ SingleFlight' /\ WorkersAccounted'
    BY DEF Inv, Started, Booting, Captured, UnderWay, DocumentIdentity, SingleFlight, Leading, WorkersAccounted, PrepareDeletes
  <1> QED
    BY <1>1, <1>2, <1>3, <1>4 DEF Inv

LEMMA ApplyFailsInv ==
    ASSUME Inv, ApplyFails
    PROVE  Inv'
  <1>1. TypeOK'
    <2>1. WorldOK'
      BY DEF Inv, TypeOK, WorldOK, ApplyFails
    <2> QED BY <2>1 DEF Inv, TypeOK, ManagerOK, BreakerOK, RunningOK, RefreshOK, DisplayOK, SubsOK, LoopsOK, ApplyFails
  <1>2. Prepared'
    BY DEF Inv, TypeOK, WorldOK, Prepared, ApplyFails
  <1>3. Started' /\ Booting' /\ Captured' /\ UnderWay' /\ DocumentIdentity' /\ RowIdentity' /\ SingleFlight' /\ WorkersAccounted'
    BY DEF Inv, Started, Booting, Captured, UnderWay, DocumentIdentity, RowIdentity, SingleFlight, Leading, WorkersAccounted, ApplyFails
  <1> QED
    BY <1>1, <1>2, <1>3 DEF Inv

LEMMA ApplySwapsInv ==
    ASSUME Inv, ApplySwaps
    PROVE  Inv'
  <1>1. TypeOK'
    <2>1. prep \in Prep /\ generation + 1 \in 1..MaxGeneration
      BY BoundsAssumption DEF Inv, TypeOK, ManagerOK, WorldOK, ApplySwaps, Prepared
    <2>2. \A c \in Cards : prep.defs[c] # None =>
            [card |-> c, gen |-> generation + 1, def |-> prep.defs[c], loop |-> TRUE] \in Call
      BY <2>1 DEF Prep, Call
    <2>3. loops' \subseteq Call
      BY <2>2 DEF ApplySwaps
    <2>4. ManagerOK' /\ BreakerOK' /\ WorldOK' /\ DisplayOK' /\ LoopsOK'
      BY <2>1, <2>3 DEF Inv, TypeOK, ManagerOK, BreakerOK, WorldOK, DisplayOK, LoopsOK, ApplySwaps, Prep
    <2> QED BY <2>4 DEF Inv, TypeOK, RunningOK, RefreshOK, SubsOK, ApplySwaps
  <1>2. Booting'
    BY DEF Inv, TypeOK, ManagerOK, Booting, ApplySwaps
  <1>3. Captured'
    BY DEF Inv, TypeOK, ManagerOK, WorldOK, RefreshOK, Prep, Captured, Call, Started, ApplySwaps
  <1>4. UnderWay'
    BY DEF Inv, TypeOK, ManagerOK, RefreshOK, UnderWay, Call, Captured, Started, ApplySwaps
  <1>5. Prepared'
    BY DEF Prepared, ApplySwaps
  <1>6. DocumentIdentity'
    BY DEF Inv, TypeOK, WorldOK, DocumentIdentity, Prep, Prepared, DocOf, MadeFor, ApplySwaps
  <1>7. Started' /\ RowIdentity' /\ SingleFlight' /\ WorkersAccounted'
    BY DEF Inv, Started, RowIdentity, SingleFlight, Leading, WorkersAccounted, ApplySwaps
  <1> QED
    BY <1>1, <1>2, <1>3, <1>4, <1>5, <1>6, <1>7 DEF Inv

LEMMA CloseInv ==
    ASSUME Inv, Close
    PROVE  Inv'
  <1>1. TypeOK'
    <2>1. subs' \in [Subs -> 0..Unsubscribed]
      BY BoundsAssumption DEF Inv, TypeOK, SubsOK, Closed, Unsubscribed, Close
    <2> QED BY <2>1 DEF Inv, TypeOK, ManagerOK, BreakerOK, RunningOK, RefreshOK, WorldOK, DisplayOK, SubsOK, LoopsOK, Close
  <1>2. Started' /\ Booting' /\ Captured' /\ UnderWay' /\ Prepared' /\ DocumentIdentity' /\ RowIdentity' /\ SingleFlight' /\ WorkersAccounted'
    BY DEF Inv, Started, Booting, Captured, UnderWay, Prepared, DocumentIdentity, RowIdentity, SingleFlight, Leading, WorkersAccounted, Close
  <1> QED
    BY <1>1, <1>2 DEF Inv

LEMMA LoopExitsInv ==
    ASSUME Inv, NEW l \in loops, LoopExits(l)
    PROVE  Inv'
  <1>1. TypeOK'
    <2>1. LoopsOK'
      BY BoundsAssumption DEF Inv, TypeOK, LoopsOK, LoopExits
    <2> QED BY <2>1 DEF Inv, TypeOK, ManagerOK, BreakerOK, RunningOK, RefreshOK, WorldOK, DisplayOK, SubsOK, LoopExits
  <1>2. Captured'
    BY DEF Inv, Captured, LoopExits
  <1>3. Started' /\ Booting' /\ UnderWay' /\ Prepared' /\ DocumentIdentity' /\ RowIdentity' /\ SingleFlight' /\ WorkersAccounted'
    BY DEF Inv, Started, Booting, UnderWay, Prepared, DocumentIdentity, RowIdentity, SingleFlight, Leading, WorkersAccounted, LoopExits
  <1> QED
    BY <1>1, <1>2, <1>3 DEF Inv

LEMMA SubscribeInv ==
    ASSUME Inv, NEW s \in Subs, Subscribe(s)
    PROVE  Inv'
  <1>1. TypeOK'
    <2>1. SubsOK'
      BY BoundsAssumption DEF Inv, TypeOK, SubsOK, Unsubscribed, Subscribe
    <2> QED BY <2>1 DEF Inv, TypeOK, ManagerOK, BreakerOK, RunningOK, RefreshOK, WorldOK, DisplayOK, LoopsOK, Subscribe
  <1>2. Started' /\ Booting' /\ Captured' /\ UnderWay' /\ Prepared' /\ DocumentIdentity' /\ RowIdentity' /\ SingleFlight' /\ WorkersAccounted'
    BY DEF Inv, Started, Booting, Captured, UnderWay, Prepared, DocumentIdentity, RowIdentity, SingleFlight, Leading, WorkersAccounted, Subscribe
  <1> QED
    BY <1>1, <1>2 DEF Inv

LEMMA ReceiveInv ==
    ASSUME Inv, NEW s \in Subs, Receive(s)
    PROVE  Inv'
  <1>1. TypeOK'
    <2>1. SubsOK'
      BY BoundsAssumption DEF Inv, TypeOK, SubsOK, Unsubscribed, Receive
    <2> QED BY <2>1 DEF Inv, TypeOK, ManagerOK, BreakerOK, RunningOK, RefreshOK, WorldOK, DisplayOK, LoopsOK, Receive
  <1>2. Started' /\ Booting' /\ Captured' /\ UnderWay' /\ Prepared' /\ DocumentIdentity' /\ RowIdentity' /\ SingleFlight' /\ WorkersAccounted'
    BY DEF Inv, Started, Booting, Captured, UnderWay, Prepared, DocumentIdentity, RowIdentity, SingleFlight, Leading, WorkersAccounted, Receive
  <1> QED
    BY <1>1, <1>2 DEF Inv

LEMMA UnsubscribeInv ==
    ASSUME Inv, NEW s \in Subs, Unsubscribe(s)
    PROVE  Inv'
  <1>1. TypeOK'
    <2>1. SubsOK'
      BY BoundsAssumption DEF Inv, TypeOK, SubsOK, Closed, Unsubscribed, Unsubscribe
    <2> QED BY <2>1 DEF Inv, TypeOK, ManagerOK, BreakerOK, RunningOK, RefreshOK, WorldOK, DisplayOK, LoopsOK, Unsubscribe
  <1>2. Started' /\ Booting' /\ Captured' /\ UnderWay' /\ Prepared' /\ DocumentIdentity' /\ RowIdentity' /\ SingleFlight' /\ WorkersAccounted'
    BY DEF Inv, Started, Booting, Captured, UnderWay, Prepared, DocumentIdentity, RowIdentity, SingleFlight, Leading, WorkersAccounted, Unsubscribe
  <1> QED
    BY <1>1, <1>2 DEF Inv

LEMMA CircuitElapsesInv ==
    ASSUME Inv, NEW c \in Cards, CircuitElapses(c)
    PROVE  Inv'
  <1>1. TypeOK'
    <2>1. BreakerOK'
      BY BoundsAssumption DEF Inv, TypeOK, BreakerOK, CircuitElapses
    <2> QED BY <2>1 DEF Inv, TypeOK, ManagerOK, RunningOK, RefreshOK, WorldOK, DisplayOK, SubsOK, LoopsOK, CircuitElapses
  <1>2. Started' /\ Booting' /\ Captured' /\ UnderWay' /\ Prepared' /\ DocumentIdentity' /\ RowIdentity' /\ SingleFlight' /\ WorkersAccounted'
    BY DEF Inv, Started, Booting, Captured, UnderWay, Prepared, DocumentIdentity, RowIdentity, SingleFlight, Leading, WorkersAccounted, CircuitElapses
  <1> QED
    BY <1>1, <1>2 DEF Inv

LEMMA UpstreamChangesInv ==
    ASSUME Inv, UpstreamChanges
    PROVE  Inv'
  <1>1. TypeOK'
    <2>1. WorldOK'
      BY BoundsAssumption DEF Inv, TypeOK, WorldOK, UpstreamChanges
    <2> QED BY <2>1 DEF Inv, TypeOK, ManagerOK, BreakerOK, RunningOK, RefreshOK, DisplayOK, SubsOK, LoopsOK, UpstreamChanges
  <1>2. Started' /\ Booting' /\ Captured' /\ UnderWay' /\ Prepared' /\ DocumentIdentity' /\ RowIdentity' /\ SingleFlight' /\ WorkersAccounted'
    BY Zenon DEF Inv, Started, Booting, Captured, UnderWay, Prepared, DocumentIdentity, RowIdentity, SingleFlight, Leading, WorkersAccounted, UpstreamChanges
  <1> QED
    BY <1>1, <1>2 DEF Inv

LEMMA ClientHangsUpInv ==
    ASSUME Inv, NEW p \in Procs, ClientHangsUp(p)
    PROVE  Inv'
  <1>1. TypeOK'
    <2>1. RefreshOK'
      BY BoundsAssumption DEF Inv, TypeOK, RefreshOK, ClientHangsUp
    <2> QED BY <2>1 DEF Inv, TypeOK, ManagerOK, BreakerOK, RunningOK, WorldOK, DisplayOK, SubsOK, LoopsOK, ClientHangsUp
  <1>2. Started' /\ Booting' /\ Captured' /\ UnderWay' /\ Prepared' /\ DocumentIdentity' /\ RowIdentity' /\ SingleFlight' /\ WorkersAccounted'
    BY DEF Inv, Started, Booting, Captured, UnderWay, Prepared, DocumentIdentity, RowIdentity, SingleFlight, Leading, WorkersAccounted, ClientHangsUp
  <1> QED
    BY <1>1, <1>2 DEF Inv

-----------------------------------------------------------------------------
(* A refresh: the call, runShared, the breaker and the commit *)

\* The constructors of internal/state/cardstate.go yield card states.
LEMMA ConstructorTypes ==
    /\ Pending \in CardState /\ Disabled \in CardState
    /\ Pending # None /\ Disabled # None
    /\ \A doc \in Doc : OK(doc) \in CardState /\ OK(doc) # None
    /\ \A doc \in Doc, n \in 0..Threshold, open \in BOOLEAN :
          Stale(doc, n, open) \in CardState /\ Stale(doc, n, open) # None
    /\ \A n \in 0..Threshold, open \in BOOLEAN :
          Error(n, open) \in CardState /\ Error(n, open) # None
  <1>1. 0 \in 0..Threshold
    BY BoundsAssumption
  <1>2. Pending \in CardState /\ Disabled \in CardState
    BY <1>1 DEF Pending, Disabled, CardState
  <1>3. \A doc \in Doc : OK(doc) \in CardState
    BY <1>1 DEF OK, CardState
  <1>4. \A doc \in Doc, n \in 0..Threshold, open \in BOOLEAN : Stale(doc, n, open) \in CardState
    BY DEF Stale, CardState
  <1>5. \A n \in 0..Threshold, open \in BOOLEAN : Error(n, open) \in CardState
    BY <1>1 DEF Error, CardState
  <1> QED
    BY <1>2, <1>3, <1>4, <1>5, NoneAssumption

\* What a refresh leaves alone until it commits.
LEMMA Framed ==
    ASSUME Inv, UNCHANGED <<manager, world, states, subs, store>>
    PROVE  /\ ManagerOK' /\ WorldOK' /\ DisplayOK' /\ SubsOK'
           /\ Booting' /\ Prepared' /\ DocumentIdentity' /\ RowIdentity'
  <1>1. ManagerOK' /\ WorldOK' /\ DisplayOK' /\ SubsOK'
    BY DEF Inv, TypeOK, ManagerOK, WorldOK, DisplayOK, SubsOK
  <1>2. Booting' /\ Prepared' /\ DocumentIdentity' /\ RowIdentity'
    BY DEF Inv, Booting, Prepared, DocumentIdentity, RowIdentity
  <1> QED
    BY <1>1, <1>2

\* A step of p that neither joins nor leads a flight concerns no flight and no worker slot.
LEMMA Quiet ==
    ASSUME Inv, NEW p \in Procs, NEW l, l \notin {"slot", "running", "waiting"},
           pc[p] \notin {"slot", "running"}, pc' = [pc EXCEPT ![p] = l],
           \A q \in Procs : q # p => call'[q] = call[q],
           UNCHANGED running
    PROVE  RunningOK' /\ SingleFlight' /\ WorkersAccounted'
  <1>1. RunningOK'
    BY DEF Inv, TypeOK, RunningOK
  <1>2. SingleFlight'
    BY DEF Inv, TypeOK, RefreshOK, SingleFlight, Leading, KeyOf
  <1>3. {q \in Procs : pc'[q] = "running"} = {q \in Procs : pc[q] = "running"}
    BY DEF Inv, TypeOK, RefreshOK
  <1>4. WorkersAccounted'
    BY <1>3, Zenon DEF Inv, WorkersAccounted
  <1> QED
    BY <1>1, <1>2, <1>4

\* A refresh that returns leaves nothing behind but its loop.
LEMMA Returns ==
    ASSUME Inv, NEW p \in Procs, pc[p] \notin {"idle", "slot", "running", "waiting"}, Return(p),
           UNCHANGED <<manager, running>>
    PROVE  /\ RunningOK' /\ RefreshOK' /\ LoopsOK'
           /\ Started' /\ Captured' /\ UnderWay' /\ SingleFlight' /\ WorkersAccounted'
  <1>1. RefreshOK' /\ LoopsOK'
    BY DEF Inv, TypeOK, RefreshOK, LoopsOK, Started, Return
  <1>2. Started'
    BY DEF Inv, TypeOK, RefreshOK, Started, Return
  <1>3. Captured'
    BY DEF Inv, TypeOK, RefreshOK, Captured, Return
  <1>4. UnderWay'
    BY DEF Inv, TypeOK, RefreshOK, UnderWay, Return
  <1>5. RunningOK' /\ SingleFlight' /\ WorkersAccounted'
    BY Zenon, Quiet DEF Inv, TypeOK, RefreshOK, Return
  <1> QED
    BY <1>1, <1>2, <1>3, <1>4, <1>5

\* A loop's timer fires: the refresh starts with the loop's generation and definition.
LEMMA LoopFiresInv ==
    ASSUME Inv, NEW l \in loops, NEW p \in Procs, LoopFires(p, l)
    PROVE  Inv'
  <1>1. RefreshOK' /\ LoopsOK' /\ BreakerOK'
    BY DEF Inv, TypeOK, RefreshOK, LoopsOK, BreakerOK, LoopFires, Begin
  <1>2. Started'
    BY NoneAssumption DEF Inv, TypeOK, RefreshOK, LoopsOK, Started, LoopFires, Begin
  <1>3. Captured'
    BY DEF Inv, TypeOK, ManagerOK, RefreshOK, Captured, LoopFires, Begin
  <1>4. UnderWay'
    BY DEF Inv, TypeOK, RefreshOK, UnderWay, LoopFires, Begin
  <1>5. RunningOK' /\ SingleFlight' /\ WorkersAccounted'
    <2>1. pc[p] = "idle" /\ pc' = [pc EXCEPT ![p] = "start"] /\ UNCHANGED running
      BY DEF LoopFires, Begin
    <2>2. \A q \in Procs : q # p => call'[q] = call[q]
      BY DEF Inv, TypeOK, RefreshOK, LoopFires, Begin
    <2> QED BY Zenon, <2>1, <2>2, Quiet
  <1>6. UNCHANGED <<manager, world, states, subs, store>>
    BY DEF LoopFires
  <1> QED
    BY <1>1, <1>2, <1>3, <1>4, <1>5, <1>6, Framed DEF Inv, TypeOK

\* A manual refresh starts with the current generation and definition.
LEMMA RefreshNowInv ==
    ASSUME Inv, NEW p \in Procs, NEW c \in Cards, RefreshNow(p, c)
    PROVE  Inv'
  <1> DEFINE cl == [card |-> c, gen |-> generation, def |-> defs[c], loop |-> FALSE]
  <1>1. cl \in Call /\ cl # None
    <2>1. generation \in 1..MaxGeneration /\ defs[c] \in Definitions
      BY BoundsAssumption DEF Inv, TypeOK, ManagerOK, Booting, RefreshNow
    <2>2. cl \in Call
      BY <2>1 DEF Call
    <2> QED BY Zenon, <2>2, NoneAssumption
  <1>2. /\ pc[p] = "idle" /\ pc' = [pc EXCEPT ![p] = "start"]
        /\ call' = [call EXCEPT ![p] = cl]
        /\ UNCHANGED <<manager, breaker, running, hungUp, result, next, world, states, subs, loops, store>>
    BY DEF RefreshNow, Begin
  <1>3. cl.gen = generation /\ defs[cl.card] = cl.def
    OBVIOUS
  <1> HIDE DEF cl
  <1>4. RefreshOK' /\ LoopsOK' /\ BreakerOK'
    BY <1>1, <1>2 DEF Inv, TypeOK, RefreshOK, LoopsOK, BreakerOK
  <1>5. Started'
    BY <1>1, <1>2 DEF Inv, TypeOK, RefreshOK, Started
  <1>6. Captured'
    BY <1>2, <1>3 DEF Inv, TypeOK, ManagerOK, RefreshOK, Captured
  <1>7. UnderWay'
    BY <1>2 DEF Inv, TypeOK, RefreshOK, UnderWay
  <1>8. \A q \in Procs : q # p => call'[q] = call[q]
    BY <1>2 DEF Inv, TypeOK, RefreshOK
  <1>9. RunningOK' /\ SingleFlight' /\ WorkersAccounted'
    BY Zenon, <1>2, <1>8, Quiet
  <1> QED
    BY <1>2, <1>4, <1>5, <1>6, <1>7, <1>9, Framed DEF Inv, TypeOK

LEMMA CheckReturnsInv ==
    ASSUME Inv, NEW p \in Procs, CheckReturns(p)
    PROVE  Inv'
  <1>1. pc[p] \notin {"idle", "slot", "running", "waiting"} /\ Return(p) /\ UNCHANGED <<manager, running>>
    BY DEF CheckReturns
  <1>2. BreakerOK'
    BY DEF Inv, TypeOK, BreakerOK, CheckReturns
  <1>3. UNCHANGED <<manager, world, states, subs, store>>
    BY DEF CheckReturns
  <1> QED
    BY <1>1, <1>2, <1>3, Returns, Framed DEF Inv, TypeOK

LEMMA CheckDisablesInv ==
    ASSUME Inv, NEW p \in Procs, CheckDisables(p)
    PROVE  Inv'
  <1>1. RefreshOK'
    BY ConstructorTypes DEF Inv, TypeOK, RefreshOK, Started, CheckDisables
  <1>2. Started'
    BY ConstructorTypes DEF Inv, TypeOK, RefreshOK, Started, CheckDisables
  <1>3. Captured'
    BY DEF Inv, TypeOK, RefreshOK, Captured, CheckDisables
  <1>4. UnderWay'
    BY ConstructorTypes DEF Inv, TypeOK, RefreshOK, UnderWay, Carries, Disabled, CheckDisables
  <1>5. BreakerOK' /\ LoopsOK'
    BY DEF Inv, TypeOK, BreakerOK, LoopsOK, CheckDisables
  <1>6. RunningOK' /\ SingleFlight' /\ WorkersAccounted'
    BY Zenon, Quiet DEF CheckDisables
  <1>7. UNCHANGED <<manager, world, states, subs, store>>
    BY DEF CheckDisables
  <1> QED
    BY <1>1, <1>2, <1>3, <1>4, <1>5, <1>6, <1>7, Framed DEF Inv, TypeOK

LEMMA CheckRunsInv ==
    ASSUME Inv, NEW p \in Procs, CheckRuns(p)
    PROVE  Inv'
  <1>1. RefreshOK'
    BY DEF Inv, TypeOK, RefreshOK, Started, CheckRuns
  <1>2. Started'
    BY DEF Inv, TypeOK, RefreshOK, Started, CheckRuns
  <1>3. Captured'
    BY DEF Inv, TypeOK, RefreshOK, Captured, CheckRuns
  <1>4. UnderWay'
    BY DEF Inv, TypeOK, RefreshOK, UnderWay, Carries, CheckRuns
  <1>5. BreakerOK' /\ LoopsOK'
    BY DEF Inv, TypeOK, BreakerOK, LoopsOK, CheckRuns
  <1>6. RunningOK' /\ SingleFlight' /\ WorkersAccounted'
    BY Zenon, Quiet DEF CheckRuns
  <1>7. UNCHANGED <<manager, world, states, subs, store>>
    BY DEF CheckRuns
  <1> QED
    BY <1>1, <1>2, <1>3, <1>4, <1>5, <1>6, <1>7, Framed DEF Inv, TypeOK

LEMMA JoinInv ==
    ASSUME Inv, NEW p \in Procs, Join(p)
    PROVE  Inv'
  <1>1. TypeOK'
    <2>1. RunningOK' /\ RefreshOK'
      <3>1. call[p] \in Call
        BY DEF Inv, TypeOK, RefreshOK, Started, Join
      <3>2. KeyOf(call[p]) \in Key
        BY <3>1, DefinitionsAssumption DEF KeyOf, Key, Call, Definition
      <3> QED
        BY <3>2 DEF Inv, TypeOK, RunningOK, RefreshOK, Join
    <2> QED BY <2>1 DEF Inv, TypeOK, ManagerOK, BreakerOK, WorldOK, DisplayOK, SubsOK, LoopsOK, Join
  <1>2. Started'
    BY DEF Inv, TypeOK, RefreshOK, Started, Join
  <1>3. Captured'
    BY DEF Inv, TypeOK, RefreshOK, Captured, Join
  <1>4. UnderWay'
    BY DEF Inv, TypeOK, RefreshOK, UnderWay, Carries, Join
  <1>5. SingleFlight'
    BY DEF Inv, TypeOK, RefreshOK, SingleFlight, Leading, KeyOf, Join
  <1>6. WorkersAccounted'
    <2>1. {q \in Procs : pc'[q] = "running"} = {q \in Procs : pc[q] = "running"}
      BY DEF Inv, TypeOK, RefreshOK, Join
    <2> QED BY <2>1, Zenon DEF Inv, WorkersAccounted, Join
  <1>7. Booting' /\ Prepared' /\ DocumentIdentity' /\ RowIdentity'
    BY DEF Inv, Booting, Prepared, DocumentIdentity, RowIdentity, Join
  <1> QED
    BY <1>1, <1>2, <1>3, <1>4, <1>5, <1>6, <1>7 DEF Inv

LEMMA SlotCancelledInv ==
    ASSUME Inv, NEW p \in Procs, SlotCancelled(p)
    PROVE  Inv'
  <1>1. TypeOK'
    <2>1. RunningOK' /\ RefreshOK'
      BY DEF Inv, TypeOK, RunningOK, RefreshOK, SlotCancelled, Land
    <2> QED BY <2>1 DEF Inv, TypeOK, ManagerOK, BreakerOK, WorldOK, DisplayOK, SubsOK, LoopsOK, SlotCancelled
  <1>2. Started'
    BY DEF Inv, TypeOK, RefreshOK, Started, SlotCancelled, Land
  <1>3. Captured'
    BY DEF Inv, TypeOK, RefreshOK, Captured, SlotCancelled, Land
  <1>4. UnderWay'
    BY DEF Inv, TypeOK, RefreshOK, UnderWay, Carries, SlotCancelled, Land
  <1>5. SingleFlight'
    BY Zenon DEF Inv, TypeOK, RefreshOK, SingleFlight, Leading, KeyOf, SlotCancelled, Land
  <1>6. WorkersAccounted'
    <2>1. {q \in Procs : pc'[q] = "running"} = {q \in Procs : pc[q] = "running"}
      BY DEF Inv, TypeOK, RefreshOK, SlotCancelled, Land
    <2> QED BY <2>1, Zenon DEF Inv, WorkersAccounted, SlotCancelled, Land
  <1>7. Booting' /\ Prepared' /\ DocumentIdentity' /\ RowIdentity'
    BY Zenon DEF Inv, Booting, Prepared, DocumentIdentity, RowIdentity, SlotCancelled, Land
  <1> QED
    BY <1>1, <1>2, <1>3, <1>4, <1>5, <1>6, <1>7 DEF Inv

LEMMA WaiterCancelledInv ==
    ASSUME Inv, NEW p \in Procs, WaiterCancelled(p)
    PROVE  Inv'
  <1>1. RefreshOK'
    BY DEF Inv, TypeOK, RefreshOK, Started, WaiterCancelled
  <1>2. Started'
    BY DEF Inv, TypeOK, RefreshOK, Started, WaiterCancelled
  <1>3. Captured'
    BY DEF Inv, TypeOK, RefreshOK, Captured, WaiterCancelled
  <1>4. UnderWay'
    BY DEF Inv, TypeOK, RefreshOK, UnderWay, Carries, WaiterCancelled
  <1>5. BreakerOK' /\ LoopsOK'
    BY DEF Inv, TypeOK, BreakerOK, LoopsOK, WaiterCancelled
  <1>6. RunningOK' /\ SingleFlight' /\ WorkersAccounted'
    BY Zenon, Quiet DEF WaiterCancelled
  <1>7. UNCHANGED <<manager, world, states, subs, store>>
    BY DEF WaiterCancelled
  <1> QED
    BY <1>1, <1>2, <1>3, <1>4, <1>5, <1>6, <1>7, Framed DEF Inv, TypeOK

LEMMA RefuseInv ==
    ASSUME Inv, NEW p \in Procs, Refuse(p)
    PROVE  Inv'
  <1>1. RefreshOK'
    BY DEF Inv, TypeOK, RefreshOK, Started, Refuse, Finished
  <1>2. Started'
    BY DEF Inv, TypeOK, RefreshOK, Started, Refuse, Finished
  <1>3. Captured'
    BY DEF Inv, TypeOK, RefreshOK, Captured, Refuse, Finished
  <1>4. UnderWay'
    BY DEF Inv, TypeOK, RefreshOK, UnderWay, Carries, Refuse, Finished
  <1>5. BreakerOK' /\ LoopsOK'
    BY DEF Inv, TypeOK, BreakerOK, LoopsOK, Refuse
  <1>6. RunningOK' /\ SingleFlight' /\ WorkersAccounted'
    BY Zenon, Quiet DEF Refuse, Finished
  <1>7. UNCHANGED <<manager, world, states, subs, store>>
    BY DEF Refuse
  <1> QED
    BY <1>1, <1>2, <1>3, <1>4, <1>5, <1>6, <1>7, Framed DEF Inv, TypeOK

LEMMA HistoryFailsInv ==
    ASSUME Inv, NEW p \in Procs, HistoryFails(p)
    PROVE  Inv'
  <1>1. pc[p] \notin {"idle", "slot", "running", "waiting"} /\ Return(p) /\ UNCHANGED <<manager, running>>
    BY DEF HistoryFails, Finished
  <1>2. BreakerOK'
    BY DEF Inv, TypeOK, BreakerOK, HistoryFails
  <1>3. UNCHANGED <<manager, world, states, subs, store>>
    BY DEF HistoryFails
  <1> QED
    BY <1>1, <1>2, <1>3, Returns, Framed DEF Inv, TypeOK

LEMMA SucceedInv ==
    ASSUME Inv, NEW p \in Procs, Succeed(p)
    PROVE  Inv'
  <1>1. RefreshOK'
    BY ConstructorTypes DEF Inv, TypeOK, RefreshOK, Started, Succeed, Finished
  <1>2. Started'
    BY ConstructorTypes DEF Inv, TypeOK, RefreshOK, Started, Succeed, Finished
  <1>3. Captured'
    BY DEF Inv, TypeOK, RefreshOK, Captured, Succeed, Finished
  <1>4. UnderWay'
    BY ConstructorTypes DEF Inv, TypeOK, RefreshOK, UnderWay, Carries, OK, Succeed, Finished
  <1>5. BreakerOK' /\ LoopsOK'
    BY BoundsAssumption DEF Inv, TypeOK, BreakerOK, LoopsOK, RefreshOK, Started, Call, Succeed, Finished
  <1>6. RunningOK' /\ SingleFlight' /\ WorkersAccounted'
    BY Zenon, Quiet DEF Succeed, Finished
  <1>7. UNCHANGED <<manager, world, states, subs, store>>
    BY DEF Succeed
  <1> QED
    BY <1>1, <1>2, <1>3, <1>4, <1>5, <1>6, <1>7, Framed DEF Inv, TypeOK

\* The document a failure keeps is the displayed one, and the displayed one is the caller's as
\* long as the caller's generation is current.
LEMMA CountFailureInv ==
    ASSUME Inv, NEW p \in Procs, CountFailure(p)
    PROVE  Inv'
  <1> DEFINE c    == call[p].card
             n    == IF failures[c] < Threshold THEN failures[c] + 1 ELSE Threshold
             open == n = Threshold
             last == DocOf(states[c])
             cs   == IF last # None THEN Stale(last, n, open) ELSE Error(n, open)
  <1>1. /\ call[p] \in Call /\ c \in Cards /\ call[p].def \in Definitions
        /\ call[p].def.mode = "run" /\ call[p].def.auth # None
    BY Zenon, DefinitionsAssumption DEF Inv, TypeOK, RefreshOK, Started, CountFailure, Finished, Call
  <1>2. n \in 0..Threshold /\ open \in BOOLEAN
    BY <1>1, BoundsAssumption DEF Inv, TypeOK, BreakerOK
  <1>3. last \in Doc \cup {None}
    BY <1>1 DEF Inv, TypeOK, DisplayOK, DocOf, CardState
  <1>4. cs \in CardState /\ cs # None /\ cs.doc = last
    <2>1. CASE last # None
      BY Zenon, <1>2, <1>3, <2>1, ConstructorTypes DEF Stale
    <2>2. CASE last = None
      BY Zenon, <1>2, <2>2, ConstructorTypes DEF Error
    <2> QED BY Zenon, <2>1, <2>2
  <1>5. /\ pc[p] \in {"ran", "woken"}
        /\ failures' = [failures EXCEPT ![c] = n]
        /\ next' = [next EXCEPT ![p] = cs]
        /\ pc' = [pc EXCEPT ![p] = IF open THEN "open" ELSE "commit"]
        /\ UNCHANGED <<generation, defs, closed, openUntil, flights, workers, call, hungUp, result,
                       prep, upstream, restarts, states, subs, loops, store>>
    BY Zenon DEF CountFailure, Finished
  <1> HIDE DEF n, open, cs
  <1>6. TypeOK'
    <2>1. BreakerOK' /\ RefreshOK'
      BY <1>1, <1>2, <1>4, <1>5 DEF Inv, TypeOK, BreakerOK, RefreshOK
    <2> QED BY <1>5, <2>1 DEF Inv, TypeOK, ManagerOK, RunningOK, WorldOK, DisplayOK, SubsOK, LoopsOK
  <1>7. Started'
    BY <1>1, <1>4, <1>5 DEF Inv, TypeOK, RefreshOK, Started
  <1>8. Captured'
    BY <1>5 DEF Inv, TypeOK, RefreshOK, Captured
  <1>9. UnderWay'
    <2>1. (call[p].gen = generation /\ last # None) => Carries(last, call[p].def)
      BY Zenon, <1>1, <1>5 DEF Inv, Captured, DocumentIdentity, DocOf, MadeFor, Carries
    <2> HIDE DEF last
    <2> QED BY <1>4, <1>5, <2>1 DEF Inv, TypeOK, RefreshOK, UnderWay
  <1>10. SingleFlight'
    BY SMTT(30), <1>5 DEF Inv, TypeOK, RefreshOK, SingleFlight, Leading, KeyOf
  <1>11. WorkersAccounted'
    <2>1. {q \in Procs : pc'[q] = "running"} = {q \in Procs : pc[q] = "running"}
      BY <1>5 DEF Inv, TypeOK, RefreshOK
    <2> QED BY <1>5, <2>1, Zenon DEF Inv, WorkersAccounted
  <1>12. Booting' /\ Prepared' /\ DocumentIdentity' /\ RowIdentity'
    BY Zenon, <1>5 DEF Inv, Booting, Prepared, DocumentIdentity, RowIdentity
  <1> QED
    BY <1>6, <1>7, <1>8, <1>9, <1>10, <1>11, <1>12 DEF Inv

LEMMA OpenCircuitInv ==
    ASSUME Inv, NEW p \in Procs, OpenCircuit(p)
    PROVE  Inv'
  <1>1. RefreshOK'
    BY DEF Inv, TypeOK, RefreshOK, Started, OpenCircuit
  <1>2. Started'
    BY DEF Inv, TypeOK, RefreshOK, Started, OpenCircuit
  <1>3. Captured'
    BY DEF Inv, TypeOK, RefreshOK, Captured, OpenCircuit
  <1>4. UnderWay'
    BY DEF Inv, TypeOK, RefreshOK, UnderWay, Carries, OpenCircuit
  <1>5. BreakerOK' /\ LoopsOK'
    BY DEF Inv, TypeOK, BreakerOK, LoopsOK, RefreshOK, Started, Call, OpenCircuit
  <1>6. RunningOK' /\ SingleFlight' /\ WorkersAccounted'
    BY Zenon, Quiet DEF OpenCircuit
  <1>7. UNCHANGED <<manager, world, states, subs, store>>
    BY DEF OpenCircuit
  <1> QED
    BY <1>1, <1>2, <1>3, <1>4, <1>5, <1>6, <1>7, Framed DEF Inv, TypeOK

LEMMA CommitRefusedInv ==
    ASSUME Inv, NEW p \in Procs, CommitRefused(p)
    PROVE  Inv'
  <1>1. pc[p] \notin {"idle", "slot", "running", "waiting"} /\ Return(p) /\ UNCHANGED <<manager, running>>
    BY DEF CommitRefused
  <1>2. BreakerOK'
    BY DEF Inv, TypeOK, BreakerOK, CommitRefused
  <1>3. UNCHANGED <<manager, world, states, subs, store>>
    BY DEF CommitRefused
  <1> QED
    BY <1>1, <1>2, <1>3, Returns, Framed DEF Inv, TypeOK

LEMMA StoreFailsInv ==
    ASSUME Inv, NEW p \in Procs, StoreFails(p)
    PROVE  Inv'
  <1>1. pc[p] \notin {"idle", "slot", "running", "waiting"} /\ Return(p) /\ UNCHANGED <<manager, running>>
    BY DEF StoreFails
  <1>2. BreakerOK'
    BY DEF Inv, TypeOK, BreakerOK, StoreFails
  <1>3. UNCHANGED <<manager, world, states, subs, store>>
    BY DEF StoreFails
  <1> QED
    BY <1>1, <1>2, <1>3, Returns, Framed DEF Inv, TypeOK

\* The fence: a commit that passes it writes for the current definition.
LEMMA CommitInv ==
    ASSUME Inv, NEW p \in Procs, Commit(p)
    PROVE  Inv'
  <1> DEFINE c == call[p].card
  <1>1. /\ call[p] \in Call /\ c \in Cards /\ call[p].def \in Definitions
        /\ next[p] \in CardState
    BY DEF Inv, TypeOK, RefreshOK, Started, Commit, Call
  <1>2. defs[c] = call[p].def /\ defs[c] # None /\ call[p].gen = generation
    BY Zenon DEF Inv, Captured, Commit, Superseded
  <1>3. next[p].doc # None => Carries(next[p].doc, defs[c])
    BY <1>2 DEF Inv, UnderWay, Commit
  <1>4. RowOf(call[p], next[p]) \in Row
    BY <1>1, DefinitionsAssumption DEF RowOf, Row, Definition
  <1>5. /\ store' = [store EXCEPT ![c] = RowOf(call[p], next[p])]
        /\ states' = [states EXCEPT ![c] = next[p]]
        /\ UNCHANGED <<generation, defs, closed, failures, openUntil, flights, workers, prep,
                       upstream, restarts>>
    BY DEF Commit
  <1>6. pc[p] = "commit" /\ Return(p) /\ UNCHANGED <<manager, breaker, running, world>>
    BY DEF Commit
  <1>7. /\ RunningOK' /\ RefreshOK' /\ LoopsOK'
        /\ Started' /\ Captured' /\ UnderWay' /\ SingleFlight' /\ WorkersAccounted'
    BY <1>6, Returns
  <1>8. SubsOK'
    <2>1. subs \in [Subs -> 0..Unsubscribed] /\ Publish
      BY DEF Inv, TypeOK, SubsOK, Commit
    <2> QED
      BY <2>1, BoundsAssumption DEF SubsOK, Publish, Unsubscribed
  <1>9. DisplayOK'
    <2>1. states \in [Cards -> CardState \cup {None}] /\ store \in [Cards -> Row \cup {None}]
      BY DEF Inv, TypeOK, DisplayOK
    <2> QED
      BY <1>1, <1>4, <1>5, <2>1 DEF DisplayOK
  <1>10. ManagerOK' /\ BreakerOK' /\ WorldOK'
    BY <1>6 DEF Inv, TypeOK, ManagerOK, BreakerOK, WorldOK
  <1>11. Booting'
    BY <1>1, <1>2, <1>5 DEF Inv, TypeOK, ManagerOK, Booting
  <1>12. DocumentIdentity'
    BY Zenon, <1>1, <1>2, <1>3, <1>5, NoneAssumption
       DEF Inv, TypeOK, DisplayOK, DocumentIdentity, DocOf, MadeFor, Carries
  <1>13. RowIdentity'
    BY <1>1, <1>2, <1>3, <1>5 DEF Inv, TypeOK, DisplayOK, RowIdentity, RowOf, Carries
  <1>14. Prepared'
    BY <1>5 DEF Inv, Prepared
  <1> QED
    BY <1>7, <1>8, <1>9, <1>10, <1>11, <1>12, <1>13, <1>14 DEF Inv, TypeOK

-----------------------------------------------------------------------------
(* The worker slots: what takes, returns or clears them *)

Sets == INSTANCE FiniteSetTheorems

LEMMA SameSets == \A S : Cardinality(S) = Sets!Cardinality(S) /\ (IsFiniteSet(S) <=> Sets!IsFiniteSet(S))
  <1>1. \A S : Cardinality(S) = Sets!Cardinality(S)
    BY Zenon DEF Cardinality, Sets!Cardinality
  <1>2. \A S : IsFiniteSet(S) <=> Sets!IsFiniteSet(S)
    BY Zenon DEF IsFiniteSet, Sets!IsFiniteSet
  <1> QED BY <1>1, <1>2

LEMMA NoneRuns == Cardinality({}) = 0
  BY SameSets, Sets!FS_EmptySet

\* Processes are finitely many; one more or one less moves their count by one.
LEMMA Counting ==
    ASSUME NEW S \in SUBSET Procs, NEW p
    PROVE  /\ p \notin S => Cardinality(S \cup {p}) = Cardinality(S) + 1
           /\ p \in S => Cardinality(S \ {p}) = Cardinality(S) - 1
           /\ p \in S => Cardinality(S) # 0
           /\ Cardinality(S) \in Nat
  <1>1. Sets!IsFiniteSet(Procs)
    BY ProcsAssumption, SameSets
  <1>2. Sets!IsFiniteSet(S)
    BY <1>1, Sets!FS_Subset
  <1>3. p \notin S => Sets!Cardinality(S \cup {p}) = Sets!Cardinality(S) + 1
    BY <1>2, Sets!FS_AddElement
  <1>4. p \in S => Sets!Cardinality(S \ {p}) = Sets!Cardinality(S) - 1
    BY <1>2, Sets!FS_RemoveElement
  <1>5. Sets!Cardinality(S) \in Nat /\ (p \in S => Sets!Cardinality(S) # 0)
    BY <1>2, Sets!FS_EmptySet, Sets!FS_CardinalityType
  <1> QED BY <1>3, <1>4, <1>5, SameSets

LEMMA InitInv == Init => Inv
  <1> SUFFICES ASSUME Init PROVE Inv
    OBVIOUS
  <1>1. TypeOK
    <2>1. 0 \in 0..Threshold /\ 0 \in 0..MaxGeneration /\ 0 \in 0..Workers /\ 0 \in 0..MaxVersion
          /\ 0 \in 0..MaxRestarts /\ Unsubscribed \in 0..Unsubscribed
      BY BoundsAssumption DEF Unsubscribed
    <2> QED BY Zenon, <2>1 DEF Init, TypeOK, ManagerOK, BreakerOK, RunningOK, RefreshOK, WorldOK, DisplayOK, SubsOK, LoopsOK
  <1>2. WorkersAccounted
    <2>1. {q \in Procs : pc[q] = "running"} = {}
      BY DEF Init
    <2> QED BY <2>1, NoneRuns DEF Init, WorkersAccounted
  <1>3. DocumentIdentity
    BY DEF Init, DocumentIdentity, DocOf
  <1>4. Started /\ Booting /\ Captured /\ UnderWay /\ Prepared /\ RowIdentity /\ SingleFlight
    BY DEF Init, Started, Booting, Captured, UnderWay, Prepared, RowIdentity, SingleFlight, Leading
  <1> QED
    BY <1>1, <1>2, <1>3, <1>4 DEF Inv

\* Only the rows outlive a restart; the rest of the state is what Init says.
LEMMA RestartInv ==
    ASSUME Inv, Restart
    PROVE  Inv'
  <1>1. TypeOK'
    <2>1. 0 \in 0..Threshold /\ 0 \in 0..MaxGeneration /\ 0 \in 0..Workers
          /\ Unsubscribed \in 0..Unsubscribed
      BY BoundsAssumption DEF Unsubscribed
    <2>2. restarts' \in 0..MaxRestarts
      BY BoundsAssumption DEF Inv, TypeOK, WorldOK, Restart
    <2> QED BY Zenon, <2>1, <2>2 DEF Inv, TypeOK, ManagerOK, BreakerOK, RunningOK, RefreshOK, WorldOK, DisplayOK, SubsOK, LoopsOK, Restart
  <1>2. WorkersAccounted'
    <2>1. {q \in Procs : pc'[q] = "running"} = {}
      BY DEF Restart
    <2> QED BY <2>1, NoneRuns DEF Restart, WorkersAccounted
  <1>3. DocumentIdentity'
    BY DEF Restart, DocumentIdentity, DocOf
  <1>4. Started' /\ Booting' /\ Captured' /\ UnderWay' /\ Prepared' /\ SingleFlight'
    BY DEF Restart, Started, Booting, Captured, UnderWay, Prepared, SingleFlight, Leading
  <1>5. RowIdentity'
    BY DEF Inv, Restart, RowIdentity
  <1> QED
    BY <1>1, <1>2, <1>3, <1>4, <1>5 DEF Inv

LEMMA AcquireWorkerInv ==
    ASSUME Inv, NEW p \in Procs, AcquireWorker(p)
    PROVE  Inv'
  <1>1. TypeOK'
    <2>1. RunningOK' /\ RefreshOK'
      BY BoundsAssumption DEF Inv, TypeOK, RunningOK, RefreshOK, AcquireWorker
    <2> QED BY <2>1 DEF Inv, TypeOK, ManagerOK, BreakerOK, WorldOK, DisplayOK, SubsOK, LoopsOK, AcquireWorker
  <1>2. Started'
    BY DEF Inv, TypeOK, RefreshOK, Started, AcquireWorker
  <1>3. Captured'
    BY DEF Inv, TypeOK, RefreshOK, Captured, AcquireWorker
  <1>4. UnderWay'
    BY DEF Inv, TypeOK, RefreshOK, UnderWay, Carries, AcquireWorker
  <1>5. SingleFlight'
    BY DEF Inv, TypeOK, RefreshOK, SingleFlight, Leading, KeyOf, AcquireWorker
  <1>6. WorkersAccounted'
    <2>1. {q \in Procs : pc'[q] = "running"} = {q \in Procs : pc[q] = "running"} \cup {p}
      BY DEF Inv, TypeOK, RefreshOK, AcquireWorker
    <2>2. p \notin {q \in Procs : pc[q] = "running"}
      BY DEF AcquireWorker
    <2>3. Cardinality({q \in Procs : pc'[q] = "running"}) = Cardinality({q \in Procs : pc[q] = "running"}) + 1
      BY <2>1, <2>2, Counting, Zenon
    <2> QED BY <2>3, Zenon DEF Inv, WorkersAccounted, AcquireWorker
  <1>7. Booting' /\ Prepared' /\ DocumentIdentity' /\ RowIdentity'
    BY DEF Inv, Booting, Prepared, DocumentIdentity, RowIdentity, AcquireWorker
  <1> QED
    BY <1>1, <1>2, <1>3, <1>4, <1>5, <1>6, <1>7 DEF Inv

LEMMA RunInv ==
    ASSUME Inv, NEW p \in Procs, NEW doc \in Doc \cup {None}, doc # None => Carries(doc, call[p].def),
           Run(p, doc)
    PROVE  Inv'
  <1>1. TypeOK'
    <2>1. workers - 1 \in 0..Workers
      <3> DEFINE S == {q \in Procs : pc[q] = "running"}
      <3>1. S \in SUBSET Procs /\ p \in S
        BY Zenon DEF Run
      <3>2. Cardinality(S) # 0 /\ Cardinality(S) \in Nat
        BY <3>1, Counting, Zenon
      <3>3. workers \in 0..Workers /\ workers = Cardinality(S)
        BY DEF Inv, TypeOK, RunningOK, WorkersAccounted
      <3> HIDE DEF S
      <3> QED BY <3>2, <3>3, BoundsAssumption
    <2>2. RunningOK' /\ RefreshOK'
      BY <2>1 DEF Inv, TypeOK, RunningOK, RefreshOK, Run, Land
    <2> QED BY <2>2 DEF Inv, TypeOK, ManagerOK, BreakerOK, WorldOK, DisplayOK, SubsOK, LoopsOK, Run
  <1>2. Started'
    BY DEF Inv, TypeOK, RefreshOK, Started, Run, Land
  <1>3. Captured'
    BY DEF Inv, TypeOK, RefreshOK, Captured, Run, Land
  <1>4. UnderWay'
    BY DEF Inv, TypeOK, RefreshOK, UnderWay, Carries, KeyOf, Run, Land
  <1>5. SingleFlight'
    BY Zenon DEF Inv, TypeOK, RefreshOK, SingleFlight, Leading, KeyOf, Run, Land
  <1>6. WorkersAccounted'
    <2>1. {q \in Procs : pc'[q] = "running"} = {q \in Procs : pc[q] = "running"} \ {p}
      BY DEF Inv, TypeOK, RefreshOK, Run, Land
    <2>2. p \in {q \in Procs : pc[q] = "running"}
      BY Zenon DEF Run
    <2>3. Cardinality({q \in Procs : pc'[q] = "running"}) = Cardinality({q \in Procs : pc[q] = "running"}) - 1
      BY <2>1, <2>2, Counting, Zenon
    <2> QED BY <2>3, Zenon DEF Inv, WorkersAccounted, Run
  <1>7. Booting' /\ Prepared' /\ DocumentIdentity' /\ RowIdentity'
    BY Zenon DEF Inv, Booting, Prepared, DocumentIdentity, RowIdentity, Run, Land
  <1> QED
    BY <1>1, <1>2, <1>3, <1>4, <1>5, <1>6, <1>7 DEF Inv

LEMMA RunSucceedsInv ==
    ASSUME Inv, NEW p \in Procs, RunSucceeds(p)
    PROVE  Inv'
  <1>1. call[p] \in Call /\ call[p].def.mode = "run"
    BY DEF Inv, TypeOK, RefreshOK, Started, RunSucceeds, Run
  <1>2. call[p].def \in Definitions /\ call[p].def.auth \in Auths
    BY <1>1, DefinitionsAssumption DEF Call, Definition
  <1>3. Produced(call[p].def) \in Doc
    BY <1>2, DefinitionsAssumption DEF Inv, TypeOK, WorldOK, Produced, Doc, Definition
  <1>4. Carries(Produced(call[p].def), call[p].def)
    BY DEF Produced, Carries
  <1> QED
    BY <1>3, <1>4, RunInv DEF RunSucceeds

LEMMA RunFailsInv ==
    ASSUME Inv, NEW p \in Procs, RunFails(p)
    PROVE  Inv'
  BY RunInv DEF RunFails

-----------------------------------------------------------------------------
(* The theorems *)

\* Inv is preserved by every step of the scheduler.
LEMMA NextInv ==
    ASSUME Inv, [Next]_vars
    PROVE  Inv'
  <1>1. CASE Apply
    BY <1>1, ApplyStartsInv, PrepareSkipsInv, PrepareRestoresInv, PrepareMismatchInv,
       PrepareDeletesInv, ApplyFailsInv, ApplySwapsInv DEF Apply
  <1>2. ASSUME NEW p \in Procs, Step(p) PROVE Inv'
    BY <1>2, CheckReturnsInv, CheckDisablesInv, CheckRunsInv, JoinInv, AcquireWorkerInv,
       SlotCancelledInv, WaiterCancelledInv, RunSucceedsInv, RunFailsInv, RefuseInv,
       HistoryFailsInv, SucceedInv, CountFailureInv, OpenCircuitInv, CommitInv, CommitRefusedInv, StoreFailsInv
       DEF Step
  <1>3. ASSUME NEW p \in Procs, ClientHangsUp(p) PROVE Inv'
    BY <1>3, ClientHangsUpInv
  <1>4. ASSUME NEW p \in Procs, NEW l \in loops, LoopFires(p, l) PROVE Inv'
    BY <1>4, LoopFiresInv
  <1>5. ASSUME NEW l \in loops, LoopExits(l) PROVE Inv'
    BY <1>5, LoopExitsInv
  <1>6. ASSUME NEW p \in Procs, NEW c \in Cards, RefreshNow(p, c) PROVE Inv'
    BY <1>6, RefreshNowInv
  <1>7. ASSUME NEW c \in Cards, CircuitElapses(c) PROVE Inv'
    BY <1>7, CircuitElapsesInv
  <1>8. ASSUME NEW s \in Subs, Subscribe(s) \/ Receive(s) \/ Unsubscribe(s) PROVE Inv'
    BY <1>8, SubscribeInv, ReceiveInv, UnsubscribeInv
  <1>9. CASE Close \/ Restart \/ UpstreamChanges
    BY <1>9, CloseInv, RestartInv, UpstreamChangesInv
  <1>10. CASE UNCHANGED vars
    <2>1. TypeOK'
      BY <1>10 DEF vars, Inv, TypeOK, ManagerOK, BreakerOK, RunningOK, RefreshOK,
         WorldOK, DisplayOK, SubsOK, LoopsOK
    <2>2. Started' /\ Booting' /\ Captured' /\ UnderWay' /\ Prepared'
      BY <1>10 DEF vars, Inv, Started, Booting, Captured, UnderWay, Prepared
    <2>3. DocumentIdentity' /\ RowIdentity' /\ SingleFlight' /\ WorkersAccounted'
      BY <1>10 DEF vars, Inv, DocumentIdentity, RowIdentity, SingleFlight, Leading, WorkersAccounted
    <2> QED BY <2>1, <2>2, <2>3 DEF Inv
  <1> QED
    BY <1>1, <1>2, <1>3, <1>4, <1>5, <1>6, <1>7, <1>8, <1>9, <1>10 DEF Next

\* The scheduler keeps its inductive invariant through every interleaving of refreshes, reloads,
\* restarts and faults.
THEOREM Invariance == Spec => []Inv
  BY InitInv, NextInv, PTL DEF Spec

\* Every variable keeps its type, so that the counters stay in their bounds: no more slots of
\* Manager.workers are taken than there are, and none is given back twice.
THEOREM TypeCorrect == Spec => []TypeOK
  <1>1. Inv => TypeOK
    BY DEF Inv
  <1> QED
    BY <1>1, Invariance, PTL

\* A displayed document always carries the identity of the card's current definition, and a
\* persisted one the identity its row is labelled with (refresh, commitWithHistory, GetCardFor).
THEOREM Identity == Spec => [](DocumentIdentity /\ RowIdentity)
  <1>1. Inv => DocumentIdentity /\ RowIdentity
    BY DEF Inv
  <1> QED
    BY <1>1, Invariance, PTL

\* runShared runs each key at most once at a time, lands every flight, and returns every worker
\* slot it took.
THEOREM FlightsLand == Spec => [](SingleFlight /\ WorkersAccounted)
  <1>1. Inv => SingleFlight /\ WorkersAccounted
    BY DEF Inv
  <1> QED
    BY <1>1, Invariance, PTL

LEMMA CommitFenced ==
    ASSUME Inv, NEW p \in Procs, Commit(p)
    PROVE  FencedStep
  <1> DEFINE c == call[p].card
  <1>1. c \in Cards /\ call[p].gen = generation /\ defs[c] = call[p].def /\ defs[c] # None
    BY DEF Inv, TypeOK, RefreshOK, Started, Captured, Commit, Superseded, Call
  <1>2. /\ pc[p] = "commit"
        /\ store' = [store EXCEPT ![c] = RowOf(call[p], next[p])]
        /\ states' = [states EXCEPT ![c] = next[p]]
    BY DEF Commit
  <1>3. store'[c] = RowOf([def |-> defs[c]], states'[c])
    BY <1>1, <1>2 DEF Inv, TypeOK, DisplayOK, RowOf
  <1>4. \A d \in Cards : d # c => states'[d] = states[d] /\ store'[d] = store[d]
    BY <1>2 DEF Inv, TypeOK, DisplayOK
  <1> QED
    BY <1>1, <1>2, <1>3, <1>4 DEF FencedStep

\* Nothing but Commit changes a displayed state within a generation, or writes a row.
LEMMA OthersFenced ==
    ASSUME Inv, Next, \A p \in Procs : ~Commit(p)
    PROVE  FencedStep
  <1>1. CASE ApplySwaps
    <2>1. generation' # generation /\ store' = store
      BY <1>1 DEF Inv, TypeOK, ManagerOK, ApplySwaps
    <2> QED
      BY Zenon, <2>1 DEF FencedStep
  <1>2. CASE Restart
    BY <1>2 DEF Inv, Booting, Restart, FencedStep
  <1>3. CASE PrepareDeletes
    BY <1>3 DEF Inv, TypeOK, WorldOK, DisplayOK, PrepareDeletes, Prep, FencedStep
  <1>4. CASE UNCHANGED <<states, store>>
    BY <1>4 DEF FencedStep
  <1>5. ApplySwaps \/ Restart \/ PrepareDeletes \/ UNCHANGED <<states, store>>
    <2>1. Apply => ApplySwaps \/ PrepareDeletes \/ UNCHANGED <<states, store>>
      BY Zenon DEF Apply, ApplyStarts, PrepareSkips, PrepareRestores, PrepareMismatch, ApplyFails
    <2>2. ASSUME NEW p \in Procs, Step(p) PROVE UNCHANGED <<states, store>>
      BY Zenon, <2>2 DEF Step, CheckReturns, CheckDisables, CheckRuns, Join, AcquireWorker, SlotCancelled,
         WaiterCancelled, RunSucceeds, RunFails, Run, Refuse, HistoryFails, Succeed, CountFailure,
         OpenCircuit, CommitRefused, StoreFails
    <2> QED
      BY Zenon, <2>1, <2>2 DEF Next, ClientHangsUp, LoopFires, LoopExits, RefreshNow, CircuitElapses,
         Subscribe, Receive, Unsubscribe, Close, UpstreamChanges
  <1> QED
    BY <1>1, <1>2, <1>3, <1>4, <1>5

\* The generation fence holds for any number of cards, callers and reloads: a superseded refresh
\* never writes (commitWithHistory).
THEOREM Fenced == Spec => Fence
  <1>1. Inv /\ [Next]_vars => [FencedStep]_vars
    BY CommitFenced, OthersFenced
  <1> QED
    BY <1>1, Invariance, PTL DEF Spec, Fence
=============================================================================
