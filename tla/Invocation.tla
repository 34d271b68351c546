------------------------------ MODULE Invocation ------------------------------
(***************************************************************************)
(* One runtime generation at work: the integration runtimes that run cards *)
(* (internal/integrations/wasm, internal/integrations/declarative), the    *)
(* capability broker every upstream call of theirs goes through            *)
(* (internal/capabilities) and the connection client under it              *)
(* (internal/connections), up to the generation's Close.                   *)
(*                                                                         *)
(* An invocation is a goroutine that is in the guest (or the declarative   *)
(* evaluator), or inside broker.HTTP: waiting for the rate limiter, for a  *)
(* slot of the connection's semaphore, or for the upstream.  Documents,    *)
(* headers and bodies are left out; which requests a route allows is the   *)
(* subject of module Routes and is an input here.                          *)
(***************************************************************************)
EXTENDS Integers, FiniteSets, FiniteSetsExt

CONSTANTS
    Calls,         \* goroutines that may run an invocation
    Cards,         \* cards of one generation, one instance each
    Plugin,        \* [Cards -> plugin id and manifest digest]
    Wasm,          \* cards whose integration is a wasm module
    Keys,          \* cache keys a plugin uses
    HostCalls,     \* the grant's limits; 0 is no limit
    HTTPRequests,
    CacheEntries,
    CacheKB,
    Sizes,         \* sizes in KB of the values a plugin caches
    Concurrency,   \* the connection's semaphore
    MaxRedirects   \* redirects the connection follows

ASSUME InvocationAssumption ==
    /\ IsFiniteSet(Calls) /\ Wasm \subseteq Cards
    /\ {HTTPRequests, Concurrency, MaxRedirects} \subseteq Nat

ASSUME SizesAssumption == Sizes \subseteq Nat

VARIABLES
    call,     \* [Calls -> where the goroutine is, and its grant's budget]
    sem,      \* slots of the connection's semaphore in use
    cache,    \* the generation's memCache
    inst,     \* [Cards -> "open" | "closing" (Close waits for i.mu) | "closed"]
    closing   \* Runtime.Close has been called

vars == <<call, sem, cache, inst, closing>>

NoEntry == [kb |-> 0, by |-> "none"]

\* Grant.Fresh: every invocation starts from an empty budget.
Fresh(k) == [at |-> "guest", card |-> k, host |-> 0, http |-> 0, entries |-> 0,
             kb |-> 0, sent |-> 0, hops |-> 0]

Idle == [at |-> "idle"]

\* Mutant: the card is left out of the namespace.
namespaceOfPlugin(k, key) == <<Plugin[k], key>>

\* cacheNamespace: plugin, manifest digest and card, then the key.
cacheNamespace(k, key) == <<Plugin[k], k, key>>

Within(limit, used) == limit = 0 \/ used < limit

consumeHostCall(r) == Within(HostCalls, r.host)
consumeHTTPRequest(r) == Within(HTTPRequests, r.http)
consumeCacheWrite(r, kb) ==
    /\ Within(CacheEntries, r.entries)
    /\ CacheKB = 0 \/ r.kb + kb <= CacheKB

Running(k) == {c \in Calls : call[c].at # "idle" /\ call[c].card = k}
OnWire == {c \in Calls : call[c].at = "wire"}

Init ==
    /\ call = [c \in Calls |-> Idle]
    /\ sem = 0
    /\ cache = [n \in {cacheNamespace(k, key) : k \in Cards, key \in Keys} |-> NoEntry]
    /\ inst = [k \in Cards |-> "open"]
    /\ closing = FALSE

(***************************************************************************)
(* instance.Invoke.  A wasm invocation takes the instance's read lock,     *)
(* which waits behind a Close that is waiting for the write lock; on a     *)
(* closed instance it returns at once.  The declarative runtime has        *)
(* nothing to close.                                                       *)
(***************************************************************************)
Invoke(c, k) ==
    /\ call[c].at = "idle"
    /\ k \in Wasm => inst[k] = "open"
    /\ call' = [call EXCEPT ![c] = Fresh(k)]
    /\ UNCHANGED <<sem, cache, inst, closing>>

\* What a failed host call does: the wasm guest gets an error result and goes
\* on, the declarative pipeline ends the invocation.
Failed(r) == IF r.card \in Wasm THEN [r EXCEPT !.at = "guest"] ELSE Idle

(***************************************************************************)
(* broker.HTTP up to the call of registry.Do: capability, slot and route   *)
(* (allowed), then the host-call budget, then the request budget.  A       *)
(* request refused by the second budget has used up one host call.         *)
(***************************************************************************)
HTTP(c, allowed) ==
    LET r == call[c]
        charged == [r EXCEPT !.host = @ + 1]
    IN  /\ r.at = "guest"
        /\ call' = [call EXCEPT ![c] =
               IF ~allowed \/ ~consumeHostCall(r) THEN Failed(r)
               ELSE IF ~consumeHTTPRequest(r) THEN Failed(charged)
               ELSE [charged EXCEPT !.at = "limiter", !.http = @ + 1]]
        /\ UNCHANGED <<sem, cache, inst, closing>>

\* registry.Do: limiter.Wait.
Wait(c) ==
    /\ call[c].at = "limiter"
    /\ call' = [call EXCEPT ![c].at = "queue"]
    /\ UNCHANGED <<sem, cache, inst, closing>>

\* registry.Do: sem.acquire, then the request goes out.
Acquire(c) ==
    /\ call[c].at = "queue"
    /\ sem < Concurrency
    /\ sem' = sem + 1
    /\ call' = [call EXCEPT ![c].at = "wire", ![c].sent = @ + 1, ![c].hops = 0]
    /\ UNCHANGED <<cache, inst, closing>>

\* Mutant: one redirect too many.
FollowsOneMore(r, allowed) == allowed /\ r.hops <= MaxRedirects

\* redirectPolicy: a redirect is followed while the connection's limit allows
\* it and the same checks as for the first request allow its target.
Follows(r, allowed) == allowed /\ r.hops < MaxRedirects

Redirected(c, allowed) ==
    LET r == call[c]
    IN  /\ r.at = "wire"
        /\ IF Follows(r, allowed)
           THEN /\ call' = [call EXCEPT ![c].sent = @ + 1, ![c].hops = @ + 1]
                /\ sem' = sem
           ELSE /\ call' = [call EXCEPT ![c] = Failed(r)]
                /\ sem' = sem - 1
        /\ UNCHANGED <<cache, inst, closing>>

\* The upstream answers, or the exchange fails (transport, body over the limit;
\* for a declarative pipeline also a status outside 2xx or an undecodable body).
Answered(c, ok) ==
    LET r == call[c]
    IN  /\ r.at = "wire"
        /\ call' = [call EXCEPT ![c] = IF ok THEN [r EXCEPT !.at = "guest"] ELSE Failed(r)]
        /\ sem' = sem - 1
        /\ UNCHANGED <<cache, inst, closing>>

(***************************************************************************)
(* The host calls that do no I/O.  Only the wasm ABI offers the cache and  *)
(* the log; both runtimes can mint asset references.                       *)
(***************************************************************************)
HostCall(c, r, ok) ==
    call' = [call EXCEPT ![c] =
        IF ok /\ consumeHostCall(r) THEN [r EXCEPT !.host = @ + 1] ELSE Failed(r)]

\* broker.Log, broker.AssetRef.
LogOrAssetRef(c, allowed) ==
    /\ call[c].at = "guest"
    /\ HostCall(c, call[c], allowed)
    /\ UNCHANGED <<sem, cache, inst, closing>>

\* broker.CacheGet: an entry past its time to live is dropped on the way.
CacheGet(c, key, expired) ==
    LET r == call[c]
        name == cacheNamespace(r.card, key)
    IN  /\ r.at = "guest" /\ r.card \in Wasm
        /\ HostCall(c, r, TRUE)
        /\ cache' = IF consumeHostCall(r) /\ expired
                    THEN [cache EXCEPT ![name] = NoEntry] ELSE cache
        /\ UNCHANGED <<sem, inst, closing>>

\* broker.CachePut.
CachePut(c, key, kb) ==
    LET r == call[c]
        charged == [r EXCEPT !.host = @ + 1]
    IN  /\ r.at = "guest" /\ r.card \in Wasm
        /\ IF ~consumeHostCall(r) THEN UNCHANGED <<call, cache>>
           ELSE IF ~consumeCacheWrite(r, kb)
           THEN /\ call' = [call EXCEPT ![c] = charged]
                /\ UNCHANGED cache
           ELSE /\ call' = [call EXCEPT ![c] =
                       [charged EXCEPT !.entries = @ + 1, !.kb = @ + kb]]
                /\ cache' = [cache EXCEPT ![cacheNamespace(r.card, key)] =
                                 [kb |-> kb, by |-> r.card]]
        /\ UNCHANGED <<sem, inst, closing>>

\* Invoke returns: a document, or an error of the guest, the evaluator or the
\* document validator.  The deferred RUnlock runs.
Return(c) ==
    /\ call[c].at = "guest"
    /\ call' = [call EXCEPT ![c] = Idle]
    /\ UNCHANGED <<sem, cache, inst, closing>>

\* Mutant: the semaphore is released only on the way back from an answer.
UnwindKeepingSlot(c) ==
    /\ call[c].at # "idle"
    /\ call' = [call EXCEPT ![c] = Idle]
    /\ UNCHANGED <<sem, cache, inst, closing>>

\* Mutant: the deadline is not attached to the context of the HTTP exchange.
UnwindOffWire(c) ==
    /\ call[c].at \notin {"idle", "wire"}
    /\ call' = [call EXCEPT ![c] = Idle]
    /\ UNCHANGED <<sem, cache, inst, closing>>

(***************************************************************************)
(* The invocation's deadline passes, its caller cancels it, or it panics   *)
(* and guarded recovers.  The context reaches the guest, the limiter, the  *)
(* semaphore and the HTTP exchange, so the goroutine unwinds from wherever *)
(* it is, through the deferred release and RUnlock.                        *)
(***************************************************************************)
Unwind(c) ==
    /\ call[c].at # "idle"
    /\ call' = [call EXCEPT ![c] = Idle]
    /\ sem' = IF call[c].at = "wire" THEN sem - 1 ELSE sem
    /\ UNCHANGED <<cache, inst, closing>>

\* Runtime.Close, once: then instance.Close for one instance after the other.
Close ==
    /\ ~closing
    /\ closing' = TRUE
    /\ UNCHANGED <<call, sem, cache, inst>>

LockInstance(k) ==
    /\ closing
    /\ k \in Wasm /\ inst[k] = "open"
    /\ \A j \in Cards : inst[j] # "closing"
    /\ inst' = [inst EXCEPT ![k] = "closing"]
    /\ UNCHANGED <<call, sem, cache, closing>>

\* Mutant: Close does not take the instance's lock.
CloseInstanceAtOnce(k) ==
    /\ inst[k] = "closing"
    /\ inst' = [inst EXCEPT ![k] = "closed"]
    /\ UNCHANGED <<call, sem, cache, closing>>

CloseInstance(k) ==
    /\ inst[k] = "closing"
    /\ Running(k) = {}
    /\ inst' = [inst EXCEPT ![k] = "closed"]
    /\ UNCHANGED <<call, sem, cache, closing>>

Next ==
    \/ \E c \in Calls, k \in Cards : Invoke(c, k)
    \/ \E c \in Calls, b \in BOOLEAN :
           HTTP(c, b) \/ Redirected(c, b) \/ Answered(c, b) \/ LogOrAssetRef(c, b)
    \/ \E c \in Calls : Wait(c) \/ Acquire(c) \/ Return(c) \/ Unwind(c)
    \/ \E c \in Calls, key \in Keys, b \in BOOLEAN : CacheGet(c, key, b)
    \/ \E c \in Calls, key \in Keys, kb \in Sizes : CachePut(c, key, kb)
    \/ Close
    \/ \E k \in Cards : LockInstance(k) \/ CloseInstance(k)

Spec == Init /\ [][Next]_vars

\* Deadlines pass and the closing goroutine runs; upstreams need not answer.
CloseStep == \E k \in Cards : LockInstance(k) \/ CloseInstance(k)

FairSpec == Spec /\ (\A c \in Calls : WF_vars(Unwind(c))) /\ WF_vars(CloseStep)

-----------------------------------------------------------------------------

\* The connection's semaphore counts exactly the exchanges in progress, whatever
\* ended the others: an answer, a refused redirect, a deadline, a panic.  A slot
\* that leaked would take a connection down for good after a few timeouts.
SlotsAccounted == sem = Cardinality(OnWire) /\ sem <= Concurrency

\* An invocation puts at most httpRequests requests on the wire, each followed
\* by at most the connection's redirects: what one card can ask of an upstream
\* in one refresh is bounded by its approval and by its connection.
RequestsBounded ==
    \A c \in Calls : call[c].at # "idle" /\ HTTPRequests > 0 =>
        call[c].sent <= HTTPRequests * (1 + MaxRedirects)

\* What a connection is asked for is bounded: SlotsAccounted at any moment, and
\* RequestsBounded over an invocation.
ExchangesBounded == SlotsAccounted /\ RequestsBounded

\* What a card reads from the cache was written by that card: cacheNamespace
\* keeps the cards of one plugin, and different plugins, apart.
CacheOwn ==
    \A k \in Cards, key \in Keys :
        cache[cacheNamespace(k, key)] # NoEntry =>
            cache[cacheNamespace(k, key)].by = k

\* Compiled code is released only when no invocation uses it, although
\* invocations start, time out and end while the generation closes.
NotClosedUnderneath == \A k \in Wasm : inst[k] = "closed" => Running(k) = {}

\* "Close waits for bounded invocations" (wasm/runtime.go:81): closing a
\* generation ends, even when no upstream ever answers.
CloseEnds == closing ~> \A k \in Wasm : inst[k] = "closed"
=============================================================================
