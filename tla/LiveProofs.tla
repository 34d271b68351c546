----------------------------- MODULE LiveProofs ------------------------------
(***************************************************************************)
(* What runs while the configuration changes.                              *)
(*                                                                         *)
(* Invocations, for any number of goroutines, cards and cache keys and any *)
(* limits: what the semaphore and the budgets of a grant bound, whose      *)
(* cache a card reads, and when an instance may be released.               *)
(*                                                                         *)
(* Reloads, for any number of edits, failures and restarts: activation,    *)
(* rollback and the revisions of connections.                              *)
(***************************************************************************)
EXTENDS Invocation, Reload, FiniteSetTheorems, TLAPS

\* An invocation in progress.
Record ==
    [at : {"guest", "limiter", "queue", "wire"}, card : Cards, host : Nat, http : Nat,
     entries : Nat, kb : Nat, sent : Nat, hops : Nat]

\* What one request of a grant may put on the wire.
PerRequest == 1 + MaxRedirects

(***************************************************************************)
(* The budget of an invocation that counts its exchanges: a request that   *)
(* waits for the limiter or a slot has sent nothing, one on the wire its   *)
(* first exchange and the redirects it followed, one that is over at most  *)
(* what a request may.                                                     *)
(***************************************************************************)
Accounted(r) ==
    /\ HTTPRequests > 0 => r.http <= HTTPRequests
    /\ r.at = "guest" => r.sent <= r.http * PerRequest
    /\ r.at \in {"limiter", "queue"} => r.sent <= (r.http - 1) * PerRequest
    /\ r.at = "wire" => /\ r.sent <= (r.http - 1) * PerRequest + 1 + r.hops
                        /\ r.hops <= MaxRedirects

Good(r) == r = Idle \/ (r \in Record /\ Accounted(r))

Budgets == call \in [Calls -> Record \cup {Idle}] /\ \A c \in Calls : Good(call[c])

Caches ==
    /\ DOMAIN cache = {cacheNamespace(k, key) : k \in Cards, key \in Keys}
    /\ CacheOwn

Instances == inst \in [Cards -> {"open", "closing", "closed"}] /\ NotClosedUnderneath

IInv == Budgets /\ SlotsAccounted /\ Caches /\ Instances

LEMMA IdleIsNoRecord == Idle \notin Record /\ Idle.at = "idle" /\ \A r \in Record : r.at # "idle"
  BY DEF Idle, Record

\* One request more, or one less, in what the requests may send.
LEMMA OneRequest ==
    ASSUME NEW n \in Int
    PROVE  /\ PerRequest \in Nat /\ n * PerRequest \in Int /\ (n - 1) * PerRequest \in Int
           /\ (n - 1) * PerRequest + PerRequest = n * PerRequest
           /\ ((n + 1) - 1) * PerRequest = n * PerRequest
  BY InvocationAssumption DEF PerRequest

LEMMA Counters ==
    ASSUME NEW r \in Record
    PROVE  /\ {r.host, r.host + 1, r.http, r.http + 1, r.entries, r.entries + 1} \subseteq Nat
           /\ {r.kb, r.sent, r.sent + 1, r.hops, r.hops + 1} \subseteq Nat
           /\ (r.http - 1) * PerRequest \in Int /\ r.http * PerRequest \in Int
  <1>1. /\ {r.host, r.host + 1, r.http, r.http + 1, r.entries, r.entries + 1} \subseteq Nat
        /\ {r.kb, r.sent, r.sent + 1, r.hops, r.hops + 1} \subseteq Nat
    BY DEF Record
  <1>2. r.http \in Int
    BY <1>1
  <1> QED
    BY <1>1, <1>2, OneRequest

LEMMA InitIInv ==
    ASSUME Init
    PROVE  IInv
  <1>1. Budgets
    BY DEF Init, Budgets, Good
  <1>2. OnWire = {} /\ \A k \in Cards : Running(k) = {}
    BY IdleIsNoRecord DEF Init, OnWire, Running
  <1>3. SlotsAccounted
    BY <1>2, FS_EmptySet, InvocationAssumption DEF Init, SlotsAccounted
  <1>4. Caches
    <2> DEFINE names == {cacheNamespace(k, key) : k \in Cards, key \in Keys}
    <2>1. cache = [n \in names |-> NoEntry] /\ \A k \in Cards, key \in Keys : cacheNamespace(k, key) \in names
      BY DEF Init
    <2> HIDE DEF names
    <2>2. CacheOwn
      BY <2>1 DEF CacheOwn
    <2> QED
      BY <2>1, <2>2 DEF Caches, names
  <1>5. Instances
    BY <1>2, InvocationAssumption DEF Init, Instances, NotClosedUnderneath
  <1> QED
    BY <1>1, <1>3, <1>4, <1>5 DEF IInv
-----------------------------------------------------------------------------
(* Steps of one invocation *)

\* Who is on the wire, and who runs a card, after a step of c.
LEMMA CallStep ==
    ASSUME Budgets, NEW c \in Calls, NEW q, Good(q), call' = [call EXCEPT ![c] = q]
    PROVE  /\ Budgets'
           /\ OnWire' = IF q.at = "wire" THEN OnWire \cup {c} ELSE OnWire \ {c}
           /\ \A k \in Cards :
                 ~(q.at # "idle" /\ q.card = k) => Running(k)' \subseteq Running(k)
  <1>1. /\ call'[c] = q /\ \A d \in Calls : d # c => call'[d] = call[d]
        /\ call' \in [Calls -> Record \cup {Idle}]
    BY DEF Budgets, Good
  <1>2. Budgets'
    BY <1>1 DEF Budgets
  <1>3. OnWire' = IF q.at = "wire" THEN OnWire \cup {c} ELSE OnWire \ {c}
    BY <1>1 DEF OnWire
  <1>4. ASSUME NEW k \in Cards, ~(q.at # "idle" /\ q.card = k)
        PROVE  Running(k)' \subseteq Running(k)
    BY <1>1, <1>4 DEF Running
  <1> QED
    BY <1>2, <1>3, <1>4

\* An invocation that goes on, or ends, keeps its instance from being closed.
LEMMA InstancesKept ==
    ASSUME Budgets, Instances, UNCHANGED inst, NEW c \in Calls, NEW q, Good(q),
           call' = [call EXCEPT ![c] = q],
           \/ q.at = "idle"
           \/ call[c].at # "idle" /\ q.card = call[c].card
    PROVE  Instances'
  <1>1. ASSUME NEW k \in Wasm, inst[k] = "closed" PROVE Running(k)' = {}
    <2>1. k \in Cards /\ Running(k) = {}
      BY <1>1, InvocationAssumption DEF Instances, NotClosedUnderneath
    <2>2. ~(q.at # "idle" /\ q.card = k)
      BY <2>1 DEF Running
    <2> QED
      BY <2>1, <2>2, CallStep
  <1> QED
    BY <1>1 DEF Instances, NotClosedUnderneath

LEMMA WireFinite == IsFiniteSet(OnWire) /\ Cardinality(OnWire) \in Nat
  <1>1. OnWire \subseteq Calls
    BY DEF OnWire
  <1> QED
    BY <1>1, InvocationAssumption, FS_Subset, FS_CardinalityType

\* The semaphore after a step of c that does not take it on the wire.
LEMMA LeavesWire ==
    ASSUME Budgets, SlotsAccounted, NEW c \in Calls, NEW q, Good(q), call' = [call EXCEPT ![c] = q],
           q.at # "wire", sem' = IF call[c].at = "wire" THEN sem - 1 ELSE sem
    PROVE  SlotsAccounted'
  <1>1. OnWire' = OnWire \ {c}
    BY CallStep
  <1>2. c \in OnWire <=> call[c].at = "wire"
    BY DEF OnWire
  <1>3. Cardinality(OnWire \ {c}) = IF c \in OnWire THEN Cardinality(OnWire) - 1 ELSE Cardinality(OnWire)
    BY Zenon, WireFinite, FS_RemoveElement
  <1>4. Cardinality(OnWire') = sem'
    BY <1>1, <1>2, <1>3 DEF SlotsAccounted
  <1> QED
    BY <1>2, <1>4, WireFinite, InvocationAssumption DEF SlotsAccounted

\* A step that ends or continues an invocation off the wire.
LEMMA OffWireStep ==
    ASSUME IInv, UNCHANGED inst, NEW c \in Calls, NEW q, Good(q), call' = [call EXCEPT ![c] = q],
           q.at # "wire", sem' = IF call[c].at = "wire" THEN sem - 1 ELSE sem,
           \/ q.at = "idle"
           \/ call[c].at # "idle" /\ q.card = call[c].card,
           Caches'
    PROVE  IInv'
  BY CallStep, InstancesKept, LeavesWire DEF IInv

\* A guest that is refused, or comes back from an exchange.
LEMMA FailedGood ==
    ASSUME NEW r \in Record, HTTPRequests > 0 => r.http <= HTTPRequests,
           r.sent <= r.http * PerRequest
    PROVE  /\ Good(Failed(r)) /\ Failed(r).at # "wire"
           /\ Failed(r).at = "idle" \/ Failed(r).card = r.card
           /\ Good([r EXCEPT !.at = "guest"])
  <1>1. [r EXCEPT !.at = "guest"] \in Record /\ Accounted([r EXCEPT !.at = "guest"])
    BY DEF Record, Accounted
  <1>2. CASE r.card \in Wasm
    <2>1. Failed(r) = [r EXCEPT !.at = "guest"]
      BY <1>2 DEF Failed
    <2> QED
      BY <1>1, <2>1 DEF Good, Record
  <1>3. CASE r.card \notin Wasm
    BY <1>1, <1>3, IdleIsNoRecord DEF Good, Failed
  <1> QED
    BY <1>2, <1>3

\* What is known of an invocation in progress.
LEMMA InProgress ==
    ASSUME Budgets, NEW c \in Calls, call[c].at # "idle"
    PROVE  call[c] \in Record /\ Accounted(call[c])
  BY IdleIsNoRecord DEF Budgets, Good

\* What has been sent is within what the requests so far may.
LEMMA SentWithin ==
    ASSUME NEW r \in Record, Accounted(r)
    PROVE  r.sent <= r.http * PerRequest
  <1> DEFINE x == (r.http - 1) * PerRequest
             y == r.http * PerRequest
  <1>1. r.http \in Int /\ r.sent \in Int /\ r.hops \in Int
    BY DEF Record
  <1>2. x \in Int /\ y \in Int /\ PerRequest \in Nat /\ x + PerRequest = y
    BY <1>1, OneRequest
  <1>3. \/ r.sent <= x + 1 + r.hops /\ r.hops <= MaxRedirects
        \/ r.sent <= x
        \/ r.sent <= y
    BY DEF Record, Accounted
  <1> HIDE DEF x, y
  <1>4. r.sent <= y
    BY <1>1, <1>2, <1>3, InvocationAssumption DEF PerRequest
  <1> QED
    BY <1>4 DEF y

LEMMA CachesKept ==
    ASSUME Caches, UNCHANGED cache
    PROVE  Caches'
  BY DEF Caches, CacheOwn

LEMMA InvokeIInv ==
    ASSUME IInv, NEW c \in Calls, NEW k \in Cards, Invoke(c, k)
    PROVE  IInv'
  <1>1. Fresh(k) \in Record /\ Fresh(k).at = "guest" /\ Fresh(k).card = k
    BY DEF Fresh, Record
  <1>2. Good(Fresh(k))
    <2>1. 0 * PerRequest = 0
      BY OneRequest
    <2> QED
      BY <1>1, <2>1, InvocationAssumption DEF Good, Accounted, Fresh
  <1>3. Budgets' /\ SlotsAccounted'
    BY <1>1, <1>2, CallStep, LeavesWire DEF IInv, Invoke
  <1>4. Instances'
    <2>1. ASSUME NEW j \in Wasm, inst[j] = "closed" PROVE Running(j)' = {}
      <3>1. j \in Cards /\ j # k /\ Running(j) = {}
        BY <2>1, InvocationAssumption DEF IInv, Instances, NotClosedUnderneath, Invoke
      <3> QED
        BY <1>1, <1>2, <3>1, CallStep DEF IInv, Invoke
    <2> QED
      BY <2>1 DEF IInv, Instances, NotClosedUnderneath, Invoke
  <1> QED
    BY <1>3, <1>4, CachesKept DEF IInv, Invoke

LEMMA HTTPIInv ==
    ASSUME IInv, NEW c \in Calls, NEW b \in BOOLEAN, HTTP(c, b)
    PROVE  IInv'
  <1> DEFINE r == call[c]
             charged == [r EXCEPT !.host = @ + 1]
             waits == [charged EXCEPT !.at = "limiter", !.http = @ + 1]
  <1>1. r \in Record /\ Accounted(r) /\ r.at = "guest" /\ r.sent <= r.http * PerRequest
    BY InProgress, SentWithin DEF IInv, HTTP
  <1>2. charged \in Record /\ charged.http = r.http /\ charged.sent = r.sent /\ charged.card = r.card
    BY <1>1, Counters DEF Record
  <1>3. PICK q : /\ call' = [call EXCEPT ![c] = q]
                 /\ \/ q \in {Failed(r), Failed(charged)}
                    \/ q = waits /\ consumeHTTPRequest(r)
    BY Zenon DEF HTTP
  <1>4. Good(q) /\ q.at # "wire" /\ (q.at = "idle" \/ q.card = r.card)
    <2>1. CASE q = Failed(r)
      BY <1>1, <2>1, FailedGood DEF Accounted
    <2>2. CASE q = Failed(charged)
      BY <1>1, <1>2, <2>2, FailedGood DEF Accounted
    <2>3. CASE q = waits /\ consumeHTTPRequest(r)
      <3>1. /\ waits \in Record /\ waits.at = "limiter" /\ waits.http = r.http + 1
            /\ waits.sent = r.sent /\ waits.card = r.card
        BY <1>1, Counters DEF Record
      <3>2. waits.sent <= (waits.http - 1) * PerRequest
        BY <1>1, <3>1, OneRequest DEF Record
      <3>3. HTTPRequests > 0 => waits.http <= HTTPRequests
        BY <1>1, <2>3, <3>1, InvocationAssumption DEF consumeHTTPRequest, Within, Record
      <3> HIDE DEF waits
      <3> QED
        BY <2>3, <3>1, <3>2, <3>3 DEF Good, Accounted
    <2> QED
      BY <1>3, <2>1, <2>2, <2>3
  <1> QED
    BY <1>1, <1>3, <1>4, OffWireStep, CachesKept DEF IInv, HTTP

LEMMA WaitIInv ==
    ASSUME IInv, NEW c \in Calls, Wait(c)
    PROVE  IInv'
  <1> DEFINE r == call[c]
             q == [r EXCEPT !.at = "queue"]
  <1>1. r \in Record /\ Accounted(r) /\ r.at = "limiter" /\ call' = [call EXCEPT ![c] = q]
    BY InProgress DEF IInv, Wait
  <1>2. /\ q \in Record /\ q.at = "queue" /\ q.http = r.http /\ q.sent = r.sent
        /\ q.card = r.card
    BY <1>1 DEF Record
  <1> HIDE DEF q
  <1>3. Good(q)
    BY <1>1, <1>2 DEF Good, Accounted
  <1> QED
    BY <1>1, <1>2, <1>3, OffWireStep, CachesKept DEF IInv, Wait

LEMMA AcquireIInv ==
    ASSUME IInv, NEW c \in Calls, Acquire(c)
    PROVE  IInv'
  <1> DEFINE r == call[c]
             q == [r EXCEPT !.at = "wire", !.sent = @ + 1, !.hops = 0]
  <1>1. r \in Record /\ Accounted(r) /\ r.at = "queue" /\ call' = [call EXCEPT ![c] = q]
    BY InProgress DEF IInv, Acquire
  <1>2. /\ q \in Record /\ q.at = "wire" /\ q.http = r.http /\ q.sent = r.sent + 1
        /\ q.hops = 0 /\ q.card = r.card
    BY <1>1, Counters DEF Record
  <1> HIDE DEF q
  <1>3. Good(q)
    <2>1. r.sent \in Int /\ (r.http - 1) * PerRequest \in Int
      BY <1>1, Counters
    <2>2. q.sent <= (q.http - 1) * PerRequest + 1 + q.hops
      BY <1>1, <1>2, <2>1 DEF Accounted
    <2> QED
      BY <1>1, <1>2, <2>2, InvocationAssumption DEF Good, Accounted
  <1>4. SlotsAccounted'
    <2>1. c \notin OnWire /\ OnWire' = OnWire \cup {c}
      BY <1>1, <1>2, <1>3, CallStep DEF IInv, OnWire
    <2>2. Cardinality(OnWire \cup {c}) = Cardinality(OnWire) + 1
      BY Zenon, <2>1, WireFinite, FS_AddElement
    <2> QED
      BY <2>1, <2>2, WireFinite, InvocationAssumption DEF IInv, SlotsAccounted, Acquire
  <1> QED
    BY <1>1, <1>2, <1>3, <1>4, CallStep, InstancesKept, CachesKept DEF IInv, Acquire

\* A redirect that is followed.
LEMMA FollowedIInv ==
    ASSUME IInv, NEW c \in Calls, NEW b \in BOOLEAN, Redirected(c, b), Follows(call[c], b)
    PROVE  IInv'
  <1> DEFINE r == call[c]
             q == [r EXCEPT !.sent = @ + 1, !.hops = @ + 1]
  <1>1. /\ r \in Record /\ Accounted(r) /\ r.at = "wire" /\ call' = [call EXCEPT ![c] = q]
        /\ r.hops < MaxRedirects /\ sem' = sem
    BY InProgress DEF IInv, Redirected, Follows
  <1>2. /\ q \in Record /\ q.at = "wire" /\ q.http = r.http /\ q.sent = r.sent + 1
        /\ q.hops = r.hops + 1 /\ q.card = r.card
    BY <1>1, Counters DEF Record
  <1> HIDE DEF q
  <1>3. Good(q)
    <2>1. r.sent \in Int /\ r.hops \in Int /\ (r.http - 1) * PerRequest \in Int
      BY <1>1, Counters
    <2>2. q.sent <= (q.http - 1) * PerRequest + 1 + q.hops /\ q.hops <= MaxRedirects
      BY <1>1, <1>2, <2>1, InvocationAssumption DEF Accounted
    <2> QED
      BY <1>1, <1>2, <2>2 DEF Good, Accounted
  <1>4. SlotsAccounted'
    <2>1. OnWire' = OnWire
      BY <1>1, <1>2, <1>3, CallStep DEF IInv, OnWire
    <2> QED
      BY <1>1, <2>1 DEF IInv, SlotsAccounted
  <1> QED
    BY <1>1, <1>2, <1>3, <1>4, CallStep, InstancesKept, CachesKept DEF IInv, Redirected

\* Every way back from the wire: an answer, a failure, a redirect that is refused.
LEMMA BackIInv ==
    ASSUME IInv, NEW c \in Calls, NEW b \in BOOLEAN,
           Answered(c, b) \/ (Redirected(c, b) /\ ~Follows(call[c], b))
    PROVE  IInv'
  <1> DEFINE r == call[c]
  <1>1. r \in Record /\ Accounted(r) /\ r.at = "wire" /\ r.sent <= r.http * PerRequest
    BY InProgress, SentWithin DEF IInv, Answered, Redirected
  <1>2. PICK q \in {Failed(r), [r EXCEPT !.at = "guest"]} : call' = [call EXCEPT ![c] = q]
    BY Zenon DEF Answered, Redirected
  <1>3. Good(q) /\ q.at # "wire" /\ (q.at = "idle" \/ q.card = r.card)
    <2>1. [r EXCEPT !.at = "guest"].at = "guest" /\ [r EXCEPT !.at = "guest"].card = r.card
      BY <1>1 DEF Record
    <2> QED
      BY <1>1, <1>2, <2>1, FailedGood DEF Accounted
  <1>4. UNCHANGED <<cache, inst>> /\ sem' = sem - 1
    BY Zenon DEF Answered, Redirected
  <1> QED
    BY <1>1, <1>2, <1>3, <1>4, OffWireStep, CachesKept DEF IInv

\* A guest after a host call that does no I/O.
LEMMA HostCallGood ==
    ASSUME IInv, NEW c \in Calls, call[c].at = "guest", NEW ok \in BOOLEAN, HostCall(c, call[c], ok)
    PROVE  \E q : /\ Good(q) /\ call' = [call EXCEPT ![c] = q] /\ q.at # "wire"
                  /\ q.at = "idle" \/ q.card = call[c].card
  <1> DEFINE r == call[c]
             charged == [r EXCEPT !.host = @ + 1]
  <1>1. r \in Record /\ Accounted(r) /\ r.sent <= r.http * PerRequest
    BY InProgress, SentWithin DEF IInv
  <1>2. /\ charged \in Record /\ charged.at = "guest" /\ charged.http = r.http
        /\ charged.sent = r.sent /\ charged.card = r.card
    BY <1>1, Counters DEF Record
  <1>3. call' = [call EXCEPT ![c] = charged] \/ call' = [call EXCEPT ![c] = Failed(r)]
    BY Zenon DEF HostCall
  <1>4. Good(Failed(r)) /\ Failed(r).at # "wire" /\ (Failed(r).at = "idle" \/ Failed(r).card = r.card)
    BY <1>1, FailedGood DEF Accounted
  <1> HIDE DEF charged
  <1>5. Good(charged)
    BY <1>1, <1>2 DEF Good, Accounted
  <1> QED
    BY <1>2, <1>3, <1>4, <1>5

LEMMA LogOrAssetRefIInv ==
    ASSUME IInv, NEW c \in Calls, NEW b \in BOOLEAN, LogOrAssetRef(c, b)
    PROVE  IInv'
  <1>1. PICK q : /\ Good(q) /\ call' = [call EXCEPT ![c] = q] /\ q.at # "wire"
                 /\ q.at = "idle" \/ q.card = call[c].card
    BY HostCallGood DEF LogOrAssetRef
  <1> QED
    BY <1>1, OffWireStep, CachesKept DEF IInv, LogOrAssetRef

\* The entry of a card is dropped, or written by that card.
LEMMA EntryKept ==
    ASSUME Caches, NEW k \in Cards, NEW key \in Keys, NEW e, e = NoEntry \/ e.by = k,
           cache' = [cache EXCEPT ![cacheNamespace(k, key)] = e]
    PROVE  Caches'
  <1>1. DOMAIN cache' = DOMAIN cache
    OBVIOUS
  <1>2. ASSUME NEW j \in Cards, NEW n \in Keys, cache'[cacheNamespace(j, n)] # NoEntry
        PROVE  cache'[cacheNamespace(j, n)].by = j
    <2>1. cacheNamespace(j, n) \in DOMAIN cache
      BY DEF Caches
    <2>2. CASE cacheNamespace(j, n) = cacheNamespace(k, key)
      <3>1. j = k
        BY <2>2 DEF cacheNamespace
      <3> QED
        BY <1>2, <2>1, <2>2, <3>1
    <2>3. CASE cacheNamespace(j, n) # cacheNamespace(k, key)
      BY <1>2, <2>1, <2>3 DEF Caches, CacheOwn
    <2> QED
      BY <2>2, <2>3
  <1> QED
    BY <1>1, <1>2 DEF Caches, CacheOwn

LEMMA CacheGetIInv ==
    ASSUME IInv, NEW c \in Calls, NEW key \in Keys, NEW b \in BOOLEAN, CacheGet(c, key, b)
    PROVE  IInv'
  <1>1. PICK q : /\ Good(q) /\ call' = [call EXCEPT ![c] = q] /\ q.at # "wire"
                 /\ q.at = "idle" \/ q.card = call[c].card
    BY HostCallGood DEF CacheGet
  <1>2. call[c].at = "guest" /\ call[c].card \in Cards
    BY InProgress DEF IInv, CacheGet, Record
  <1>3. Caches'
    <2>1. \/ UNCHANGED cache
          \/ cache' = [cache EXCEPT ![cacheNamespace(call[c].card, key)] = NoEntry]
      BY Zenon DEF CacheGet
    <2> QED
      BY <1>2, <2>1, CachesKept, EntryKept DEF IInv
  <1> QED
    BY <1>1, <1>2, <1>3, OffWireStep DEF CacheGet

LEMMA CachePutIInv ==
    ASSUME IInv, NEW c \in Calls, NEW key \in Keys, NEW kb \in Sizes, CachePut(c, key, kb)
    PROVE  IInv'
  <1> DEFINE r == call[c]
             charged == [r EXCEPT !.host = @ + 1]
             written == [charged EXCEPT !.entries = @ + 1, !.kb = @ + kb]
  <1>1. r \in Record /\ Accounted(r) /\ r.at = "guest" /\ r.card \in Cards
    BY InProgress DEF IInv, CachePut, Record
  <1>2. /\ charged \in Record /\ charged.at = "guest" /\ charged.http = r.http
        /\ charged.sent = r.sent /\ charged.card = r.card
    BY <1>1, Counters DEF Record
  <1>3. /\ written \in Record /\ written.at = "guest" /\ written.http = r.http
        /\ written.sent = r.sent /\ written.card = r.card
    <2> HIDE DEF charged
    <2>1. charged.kb \in Nat /\ charged.entries + 1 \in Nat
      BY <1>2, Counters
    <2>2. charged.kb + kb \in Nat
      BY <2>1, SizesAssumption
    <2> QED
      BY <1>1, <1>2, <2>1, <2>2 DEF Record
  <1>4. PICK q \in {r, charged, written} : call' = [call EXCEPT ![c] = q]
    <2>1. call = [call EXCEPT ![c] = r]
      BY DEF IInv, Budgets
    <2> QED
      BY Zenon, <2>1 DEF CachePut
  <1>5. Good(q) /\ q.at = "guest" /\ q.card = r.card
    <2> HIDE DEF r, charged, written
    <2> QED
      BY <1>1, <1>2, <1>3, <1>4 DEF Good, Accounted
  <1>6. Caches'
    <2>1. \/ UNCHANGED cache
          \/ cache' = [cache EXCEPT ![cacheNamespace(r.card, key)] = [kb |-> kb, by |-> r.card]]
      BY Zenon DEF CachePut
    <2> QED
      BY <1>1, <2>1, CachesKept, EntryKept DEF IInv
  <1> QED
    BY <1>1, <1>4, <1>5, <1>6, OffWireStep DEF CachePut

LEMMA EndIInv ==
    ASSUME IInv, NEW c \in Calls, Return(c) \/ Unwind(c)
    PROVE  IInv'
  <1>1. Good(Idle) /\ Idle.at = "idle"
    BY IdleIsNoRecord DEF Good
  <1>2. /\ call' = [call EXCEPT ![c] = Idle] /\ UNCHANGED <<cache, inst>>
        /\ sem' = IF call[c].at = "wire" THEN sem - 1 ELSE sem
    BY DEF Return, Unwind
  <1> QED
    BY <1>1, <1>2, OffWireStep, CachesKept DEF IInv
-----------------------------------------------------------------------------
(* Steps of the closing goroutine *)

LEMMA CloseIInv ==
    ASSUME IInv,
           Close \/ UNCHANGED vars \/ \E k \in Cards : LockInstance(k) \/ CloseInstance(k)
    PROVE  IInv'
  <1>1. UNCHANGED <<call, sem, cache>>
    BY Zenon DEF Close, vars, LockInstance, CloseInstance
  <1>2. Budgets' /\ SlotsAccounted' /\ Caches'
    BY <1>1, CachesKept DEF IInv, Budgets, SlotsAccounted, OnWire
  <1>3. \A k \in Cards : Running(k)' = Running(k)
    BY <1>1 DEF Running
  <1>4. CASE UNCHANGED inst
    BY <1>2, <1>3, <1>4, InvocationAssumption DEF IInv, Instances, NotClosedUnderneath
  <1>5. ASSUME NEW k \in Cards, LockInstance(k) \/ CloseInstance(k) PROVE Instances'
    <2>1. PICK to \in {"closing", "closed"} :
             inst' = [inst EXCEPT ![k] = to] /\ (to = "closed" => Running(k) = {})
      BY Zenon, <1>5 DEF LockInstance, CloseInstance
    <2> QED
      BY <1>3, <2>1, InvocationAssumption DEF IInv, Instances, NotClosedUnderneath
  <1>6. UNCHANGED inst \/ \E k \in Cards : LockInstance(k) \/ CloseInstance(k)
    BY Zenon DEF Close, vars
  <1> QED
    BY <1>2, <1>4, <1>5, <1>6 DEF IInv

LEMMA NextIInv ==
    ASSUME IInv, [Next]_vars
    PROVE  IInv'
  BY InvokeIInv, HTTPIInv, FollowedIInv, BackIInv, LogOrAssetRefIInv, WaitIInv, AcquireIInv,
     EndIInv, CacheGetIInv, CachePutIInv, CloseIInv DEF Next

LEMMA Inductive == Spec => []IInv
  BY InitIInv, NextIInv, PTL DEF Spec
-----------------------------------------------------------------------------
(* What follows *)

\* Whatever ends an exchange (an answer, a refused redirect, a deadline, a panic), the
\* semaphore of a connection counts the exchanges in progress and keeps its limit, and
\* an invocation sends no more than its request budget and the connection's redirects
\* allow (consumeHTTPRequest, registry.Do, redirectPolicy).
THEOREM ExchangesWithinGrant == Spec => []ExchangesBounded
  <1>1. ASSUME IInv PROVE RequestsBounded
    <2>1. SUFFICES ASSUME NEW c \in Calls, call[c].at # "idle", HTTPRequests > 0
                   PROVE  call[c].sent <= HTTPRequests * PerRequest
      BY DEF RequestsBounded, PerRequest
    <2> DEFINE r == call[c]
    <2>2. r \in Record /\ Accounted(r) /\ r.http <= HTTPRequests /\ r.http \in Nat /\ r.sent \in Nat
      BY <1>1, <2>1, InProgress, Counters DEF IInv, Accounted
    <2>3. r.sent <= r.http * PerRequest
      BY <2>2, SentWithin
    <2>4. r.http * PerRequest <= HTTPRequests * PerRequest /\ HTTPRequests * PerRequest \in Int
      <3>1. \A m, n, w \in Nat : m <= n => m * w <= n * w /\ n * w \in Int
        OBVIOUS
      <3> QED
        BY <2>2, <3>1, OneRequest, InvocationAssumption
    <2> QED
      BY <2>2, <2>3, <2>4, Counters
  <1>2. IInv => ExchangesBounded
    BY <1>1 DEF IInv, ExchangesBounded
  <1> QED
    BY <1>2, Inductive, PTL

\* A card never reads what another card, of the same plugin or of another, has put in
\* the cache (cacheNamespace).
THEOREM CachesApart == Spec => []CacheOwn
  BY Inductive, PTL DEF IInv, Caches

\* The code of a wasm instance is released only when no invocation runs it, however
\* invocations start, end and time out while the generation closes (instance.mu).
THEOREM ReleasedUnused == Spec => []NotClosedUnderneath
  BY Inductive, PTL DEF IInv, Instances

-----------------------------------------------------------------------------
(* Reloads *)

Generations == [conf : Nat, manifest : Nat, rev : Nat]

ReloadTyped ==
    /\ disk \in Nat /\ manifest \in Nat /\ cand \in Nat /\ next \in Nat
    /\ gens \in Seq(Generations)
    /\ live \in [Component -> 1..Len(gens)] /\ previous \in [Component -> 1..Len(gens)]
    /\ closed \in SUBSET (1..Len(gens))
    /\ active \in BOOLEAN /\ broken \in BOOLEAN

\* connection_state holds the last revision issued, and revisions count up.
Revisions ==
    /\ IsFiniteSet(issued) /\ table \in issued
    /\ \A a \in issued : a.rev \in 1..Cardinality(issued)
    /\ RevisionIdentifies

-----------------------------------------------------------------------------
(* The labels of activateRuntime, and the components that work with the new *)
(* generation at each of them.                                              *)

Settled == {"starting", "idle", "build", "reject"}
Forward == {"auth", "rules", "channels", "scheduler", "evaluate", "registry", "runtimes", "publish"}
Back == {"undoScheduler", "undoRules", "undoChannels", "undoAuth", "drop"}

Moved(label) ==
    CASE label \in {"rules", "undoAuth"} -> {"auth"}
      [] label = "undoChannels" -> {"auth", "channels"}
      [] label = "channels" -> {"auth", "rules"}
      [] label \in {"scheduler", "undoRules"} -> {"auth", "rules", "channels"}
      [] label \in {"evaluate", "registry", "undoScheduler"} ->
             {"auth", "rules", "channels", "scheduler"}
      [] label = "runtimes" -> {"auth", "rules", "channels", "scheduler", "registry"}
      [] label = "publish" -> Component
      [] label \in Settled \cup {"auth", "drop"} -> {}

\* Whatever happened before, a new generation is open until it is dropped, and
\* every component that activation has passed works with it.
Staged ==
    /\ pc \in Settled \cup Forward \cup Back
    /\ pc \in Forward \cup Back =>
          /\ next \in 1..Len(gens) /\ gens[next].conf = cand /\ next \notin closed
          /\ pc # "publish" => live.runtimes # next
          /\ \A c \in Component : previous[c] # next
    /\ pc \in Forward => \A c \in Moved(pc) : live[c] = next
    /\ pc \in {"registry", "runtimes", "publish"} => active

\* Unless an undo failed, the others work with one open generation, that of the
\* published snapshot, which is also what a rollback restores.
Whole ==
    ~broken =>
        /\ pc \in Settled =>
              /\ \A c \in Component : live[c] = live.runtimes
              /\ gens[live.runtimes].conf = current
              /\ live.runtimes \notin closed
              /\ active
        /\ pc \in Forward \cup Back =>
              /\ \A c \in Component : previous[c] = previous.runtimes
              /\ gens[previous.runtimes].conf = current
              /\ pc # "publish" => previous.runtimes \notin closed
              /\ \A c \in Component :
                    live[c] = IF c \in Moved(pc) THEN next ELSE previous.runtimes
              /\ pc \notin {"channels", "scheduler", "evaluate", "undoRules"} => active

Staging == ReloadTyped /\ Revisions /\ Staged /\ Whole

USE DEF files, store, parts, rows, counters, Component

-----------------------------------------------------------------------------
(* Revisions *)

\* SyncConnectionRevisions keeps the row, or issues a revision nobody has.
LEMMA SyncRevisions ==
    ASSUME Revisions, NEW m, table' = Sync(m), issued' = issued \cup {table'}
    PROVE  Revisions' /\ table'.rev \in Nat
  <1>1. Cardinality(issued) \in Nat
    BY FS_CardinalityType DEF Revisions
  <1>2. CASE table.mat = m
    <2>1. table' = table /\ issued' = issued
      BY <1>2 DEF Sync, Revisions
    <2> QED
      BY <1>1, <2>1 DEF Revisions, RevisionIdentifies
  <1>3. CASE table.mat # m
    <2> DEFINE row == [mat |-> m, rev |-> Cardinality(issued) + 1]
    <2>1. table' = row /\ issued' = issued \cup {row} /\ row.rev = Cardinality(issued) + 1
      BY <1>3 DEF Sync
    <2> HIDE DEF row
    <2>2. row \notin issued
      BY <1>1, <2>1 DEF Revisions
    <2>3. IsFiniteSet(issued \cup {row}) /\ Cardinality(issued \cup {row}) = Cardinality(issued) + 1
      BY <2>2, FS_AddElement DEF Revisions
    <2>4. \A a \in issued' : a.rev \in 1..Cardinality(issued')
      BY <1>1, <2>1, <2>3 DEF Revisions
    <2>5. RevisionIdentifies'
      BY <1>1, <2>1 DEF Revisions, RevisionIdentifies
    <2>6. IsFiniteSet(issued') /\ table' \in issued' /\ table'.rev \in Nat
      BY <1>1, <2>1, <2>3
    <2> QED
      BY <2>4, <2>5, <2>6 DEF Revisions
  <1> QED
    BY <1>2, <1>3

LEMMA InitStaging ==
    ASSUME ReloadInit
    PROVE  Staging
  <1>1. ReloadTyped
    <2> DEFINE g == [conf |-> 0, manifest |-> 0, rev |-> 1]
    <2>1. gens = <<g>> /\ g \in Generations
      BY DEF ReloadInit, Generations
    <2> HIDE DEF g
    <2>2. gens \in Seq(Generations) /\ Len(gens) = 1
      BY <2>1
    <2>3. live \in [Component -> 1..Len(gens)] /\ previous = live
      BY <2>2 DEF ReloadInit
    <2>4. closed = {} /\ active \in BOOLEAN /\ broken \in BOOLEAN
      BY Zenon DEF ReloadInit
    <2>5. disk \in Nat /\ manifest \in Nat /\ cand \in Nat /\ next \in Nat
      BY DEF ReloadInit
    <2> QED
      BY <2>2, <2>3, <2>4, <2>5 DEF ReloadTyped
  <1>2. Revisions
    <2> DEFINE row == [mat |-> Material[0], rev |-> 1]
    <2>1. table = row /\ issued = {row} /\ row.rev = 1
      BY DEF ReloadInit
    <2> HIDE DEF row
    <2>2. IsFiniteSet({row}) /\ Cardinality({row}) = 1
      BY Zenon, FS_Singleton
    <2> QED
      BY <2>1, <2>2 DEF Revisions, RevisionIdentifies
  <1>3. Staged /\ Whole
    BY DEF ReloadInit, Staged, Whole, Settled, Forward, Back
  <1> QED
    BY <1>1, <1>2, <1>3 DEF Staging

-----------------------------------------------------------------------------
(* Steps *)

\* A step that leaves the generations and the components alone, between reloads.
LEMMA QuietStep ==
    ASSUME Staging, UNCHANGED <<gens, parts, rows, current, broken>>,
           disk' \in Nat, manifest' \in Nat, cand' \in Nat, next' = next,
           \/ pc' = pc /\ cand' = cand
           \/ pc \in Settled /\ pc' \in Settled
    PROVE  Staging'
  <1>1. ReloadTyped' /\ Revisions'
    BY DEF Staging, ReloadTyped, Revisions, RevisionIdentifies
  <1>2. Staged' /\ Whole'
    BY DEF Staging, Staged, Whole, Settled, Forward, Back
  <1> QED
    BY <1>1, <1>2 DEF Staging

LEMMA FilesStaging ==
    ASSUME Staging,
           \/ Edit \/ (\E replaced \in BOOLEAN : EditManifest(replaced))
           \/ StartWatch \/ Notice \/ Load \/ Reject \/ UNCHANGED reloadVars
    PROVE  Staging'
  <1>1. disk \in Nat /\ manifest \in Nat /\ cand \in Nat
    BY DEF Staging, ReloadTyped
  <1>2. CASE Edit \/ (\E replaced \in BOOLEAN : EditManifest(replaced)) \/ UNCHANGED reloadVars
    BY <1>1, <1>2, QuietStep DEF Edit, EditManifest, reloadVars
  <1>3. CASE StartWatch \/ Notice \/ Load \/ Reject
    BY <1>1, <1>3, QuietStep DEF StartWatch, Notice, Load, Reject, Go, Settled
  <1> QED
    BY <1>2, <1>3

LEMMA BuildStaging ==
    ASSUME Staging, Build
    PROVE  Staging'
  <1>1. CASE UNCHANGED <<gens, next>> /\ pc' = "reject"
    <2>1. Revisions'
      BY SyncRevisions DEF Staging, Build, Revisions, RevisionIdentifies
    <2>2. ReloadTyped'
      BY <1>1 DEF Staging, ReloadTyped, Build
    <2>3. Staged' /\ Whole'
      BY <1>1 DEF Staging, Staged, Whole, Build, Settled, Forward, Back
    <2> QED
      BY <2>1, <2>2, <2>3 DEF Staging
  <1>2. CASE /\ table' = Sync(Material[cand]) /\ issued' = issued \cup {table'}
             /\ gens' = Append(gens, Generation(cand, table'))
             /\ next' = Len(gens) + 1 /\ pc' = "auth"
    <2>1. Revisions' /\ table'.rev \in Nat
      BY <1>2, SyncRevisions DEF Staging
    <2> DEFINE g == Generation(cand, table')
    <2>2. g \in Generations /\ g.conf = cand
      BY <2>1 DEF Staging, ReloadTyped, Generation, Generations
    <2> HIDE DEF g
    <2>3. /\ gens' = Append(gens, g) /\ gens' \in Seq(Generations)
          /\ Len(gens) \in Nat /\ Len(gens') = Len(gens) + 1 /\ gens'[Len(gens) + 1] = g
          /\ \A i \in 1..Len(gens) : gens'[i] = gens[i]
      BY <1>2, <2>2 DEF Staging, ReloadTyped, g
    <2>4. UNCHANGED <<disk, manifest, cand, live, active, closed, broken, current>>
          /\ previous' = live
      BY DEF Build
    <2>5. ReloadTyped'
      <3>1. \A n \in 1..Len(gens) : n \in 1..Len(gens')
        BY <2>3
      <3>2. live' \in [Component -> 1..Len(gens')] /\ previous' \in [Component -> 1..Len(gens')]
            /\ closed' \in SUBSET (1..Len(gens'))
        BY <2>4, <3>1 DEF Staging, ReloadTyped
      <3> QED
        BY <1>2, <2>3, <2>4, <3>2 DEF Staging, ReloadTyped
    <2>6. Staged'
      <3>1. /\ next' \in 1..Len(gens') /\ next' \notin closed'
            /\ \A c \in Component : live'[c] # next' /\ previous'[c] # next'
        BY <1>2, <2>3, <2>4 DEF Staging, ReloadTyped
      <3>2. gens'[next'].conf = cand'
        BY <1>2, <2>2, <2>3, <2>4
      <3> QED
        BY <1>2, <3>1, <3>2 DEF Staged, Settled, Forward, Back, Moved
    <2>7. Whole'
      <3>1. pc = "build"
        BY DEF Build
      <3> QED
        BY <1>2, <2>3, <2>4, <3>1 DEF Staging, ReloadTyped, Whole, Settled, Forward, Back, Moved
    <2> QED
      BY <2>1, <2>5, <2>6, <2>7 DEF Staging
  <1> QED
    BY <1>1, <1>2 DEF Build, Go

\* A step of activation or of its rollback leaves files, generations and rows alone.
LEMMA ActivationStaging ==
    ASSUME Staging,
           \/ SetAuth \/ SetRules \/ SetChannels \/ SetScheduler \/ EvaluateRules
           \/ SwapRegistry \/ SwapRuntimes
           \/ UndoScheduler \/ UndoRules \/ UndoChannels \/ UndoAuth \/ DropNext
    PROVE  Staging'
  <1>1. UNCHANGED <<files, cand, initialMode, store, gens, next, previous, rows>> /\ Revisions'
    BY DEF Staging, SetAuth, SetRules, SetChannels, SetScheduler, EvaluateRules, SwapRegistry,
           SwapRuntimes, UndoScheduler, UndoRules, UndoChannels, UndoAuth, DropNext, Rest,
           Revisions, RevisionIdentifies
  <1> USE DEF Settled, Forward, Back, Moved
  <1>2. CASE SetAuth
    <2>1. ReloadTyped'
      <3>1. live' \in {live, [live EXCEPT !["auth"] = next]}
        BY <1>2 DEF SetAuth, Set
      <3>2. live' \in [Component -> 1..Len(gens)]
        BY Zenon, <1>2, <3>1 DEF Staging, ReloadTyped, Staged, SetAuth
      <3>3. broken' \in BOOLEAN /\ UNCHANGED <<active, closed>>
        BY <1>2, Zenon DEF Staging, ReloadTyped, SetAuth
      <3> QED
        BY <1>1, <3>2, <3>3 DEF Staging, ReloadTyped
    <2>2. Staged'
      BY Zenon, <1>1, <1>2 DEF Staging, ReloadTyped, Staged, SetAuth, Set, Go
    <2>3. Whole'
      BY <1>1, <1>2 DEF Staging, ReloadTyped, Staged, Whole, SetAuth, Set, Go
    <2> QED
      BY <1>1, <2>1, <2>2, <2>3 DEF Staging
  <1>3. CASE SetRules
    <2>1. ReloadTyped'
      <3>1. live' \in {live, [live EXCEPT !["rules"] = next]}
        BY <1>3 DEF SetRules, Set
      <3>2. live' \in [Component -> 1..Len(gens)]
        BY Zenon, <1>3, <3>1 DEF Staging, ReloadTyped, Staged, SetRules
      <3>3. broken' \in BOOLEAN /\ active' \in BOOLEAN /\ UNCHANGED closed
        BY Zenon, <1>3 DEF Staging, ReloadTyped, SetRules
      <3> QED
        BY <1>1, <3>2, <3>3 DEF Staging, ReloadTyped
    <2>2. Staged'
      BY Zenon, <1>1, <1>3 DEF Staging, ReloadTyped, Staged, SetRules, Set, Go
    <2>3. Whole'
      <3>1. CASE Set("rules", "channels")
        BY <1>1, <1>3, <3>1 DEF Staging, ReloadTyped, Staged, Whole, SetRules, Set, Go
      <3>2. CASE pc' = "undoAuth" /\ UNCHANGED <<live, active>>
        BY <1>1, <1>3, <3>2 DEF Staging, ReloadTyped, Staged, Whole, SetRules
      <3> QED
        BY <1>3, <3>1, <3>2 DEF SetRules, Go
    <2> QED
      BY <1>1, <2>1, <2>2, <2>3 DEF Staging
  <1>4. CASE SetChannels
    BY <1>1, <1>4 DEF Staging, ReloadTyped, Staged, Whole, SetChannels, Set, Go
  <1>5. CASE SetScheduler
    <2>1. ReloadTyped'
      BY <1>1, <1>5 DEF Staging, ReloadTyped, Staged, SetScheduler, Set, Go
    <2>2. Staged'
      BY <1>1, <1>5 DEF Staging, ReloadTyped, Staged, SetScheduler, Set, Go
    <2>3. Whole'
      BY <1>1, <1>5 DEF Staging, ReloadTyped, Staged, Whole, SetScheduler, Set, Go
    <2> QED
      BY <1>1, <2>1, <2>2, <2>3 DEF Staging
  <1>6. CASE EvaluateRules
    BY <1>1, <1>6 DEF Staging, ReloadTyped, Staged, Whole, EvaluateRules, Go
  <1>7. CASE SwapRegistry
    BY <1>1, <1>7 DEF Staging, ReloadTyped, Staged, Whole, SwapRegistry, Set, Go
  <1>8. CASE SwapRuntimes
    BY <1>1, <1>8 DEF Staging, ReloadTyped, Staged, Whole, SwapRuntimes, Set, Go
  <1>9. CASE UndoScheduler
    <2>1. ReloadTyped'
      BY Zenon, <1>1, <1>9 DEF Staging, ReloadTyped, Staged, UndoScheduler, Undo, Go
    <2>2. Staged'
      BY <1>1, <1>9 DEF Staging, ReloadTyped, Staged, UndoScheduler, Undo, Go
    <2>3. Whole'
      BY <1>1, <1>9 DEF Staging, ReloadTyped, Staged, Whole, UndoScheduler, Undo, Go
    <2> QED
      BY <1>1, <2>1, <2>2, <2>3 DEF Staging
  <1>10. CASE UndoRules
    <2>1. ReloadTyped'
      BY Zenon, <1>1, <1>10 DEF Staging, ReloadTyped, Staged, UndoRules, Undo, Go
    <2>2. Staged'
      BY Zenon, <1>1, <1>10 DEF Staging, ReloadTyped, Staged, UndoRules, Undo, Go
    <2>3. ASSUME ~broken' PROVE Whole'
      <3>1. /\ pc = "undoRules" /\ pc' = "undoChannels" /\ ~broken /\ closed' = closed
            /\ live' = [live EXCEPT !["rules"] = previous["rules"]]
        BY <1>10, <2>3 DEF UndoRules, Undo, Go
      <3>2. live'.rules = previous.rules
        BY <3>1 DEF Staging, ReloadTyped
      <3>3. active'
        BY Zenon, <1>10, <3>2 DEF UndoRules
      <3> QED
        BY <1>1, <3>1, <3>3 DEF Staging, ReloadTyped, Whole
    <2> QED
      BY <1>1, <2>1, <2>2, <2>3 DEF Staging, Whole
  <1>11. CASE UndoChannels
    BY Zenon, <1>1, <1>11 DEF Staging, ReloadTyped, Staged, Whole, UndoChannels, Go
  <1>12. CASE UndoAuth
    <2>1. ReloadTyped'
      BY Zenon, <1>1, <1>12 DEF Staging, ReloadTyped, Staged, UndoAuth, Undo, Go
    <2>2. Staged'
      BY Zenon, <1>1, <1>12 DEF Staging, ReloadTyped, Staged, UndoAuth, Undo, Go
    <2>3. Whole'
      BY <1>1, <1>12 DEF Staging, ReloadTyped, Staged, Whole, UndoAuth, Undo, Go
    <2> QED
      BY <1>1, <2>1, <2>2, <2>3 DEF Staging
  <1>13. CASE DropNext
    BY <1>1, <1>13 DEF Staging, ReloadTyped, Staged, Whole, DropNext, Go
  <1> QED
    BY <1>2, <1>3, <1>4, <1>5, <1>6, <1>7, <1>8, <1>9, <1>10, <1>11, <1>12, <1>13

LEMMA PublishStaging ==
    ASSUME Staging, PublishSnapshot
    PROVE  Staging'
  <1>1. ReloadTyped' /\ Revisions'
    BY Zenon DEF Staging, ReloadTyped, Revisions, RevisionIdentifies, PublishSnapshot
  <1>2. Staged' /\ Whole'
    BY DEF Staging, ReloadTyped, Staged, Whole, Settled, Forward, Back, Moved, PublishSnapshot, Go
  <1> QED
    BY <1>1, <1>2 DEF Staging

LEMMA RestartStaging ==
    ASSUME Staging, Restart
    PROVE  Staging'
  <1>1. Revisions' /\ table'.rev \in Nat
    BY SyncRevisions DEF Staging, Restart
  <1> DEFINE g == Generation(disk, table')
  <1>2. g \in Generations /\ g.conf = disk
    BY <1>1 DEF Staging, ReloadTyped, Generation, Generations
  <1>3. gens' = Append(gens, g)
    BY DEF Restart
  <1> HIDE DEF g
  <1>4. /\ gens' \in Seq(Generations) /\ DOMAIN gens = 1..Len(gens)
        /\ Len(gens) \in Nat /\ Len(gens') = Len(gens) + 1 /\ gens'[Len(gens) + 1] = g
    BY <1>2, <1>3 DEF Staging, ReloadTyped
  <1>5. ReloadTyped'
    <2>1. /\ live' = [c \in Component |-> Len(gens')] /\ previous' = live'
          /\ closed' = closed \cup (1..Len(gens)) /\ UNCHANGED <<disk, manifest>> /\ next' = 0
          /\ cand' = disk /\ active' = TRUE /\ broken' = FALSE
      BY <1>4 DEF Restart
    <2>2. ASSUME NEW n \in closed' PROVE n \in 1..Len(gens')
      <3>1. n \in 1..Len(gens)
        BY <2>1 DEF Staging, ReloadTyped
      <3> QED
        BY <1>4, <3>1
    <2>3. live' \in [Component -> 1..Len(gens')]
      <3>1. Len(gens') \in 1..Len(gens')
        BY <1>4
      <3> QED
        BY <2>1, <3>1
    <2>4. disk' \in Nat /\ manifest' \in Nat /\ cand' \in Nat /\ next' \in Nat
      BY <2>1 DEF Staging, ReloadTyped
    <2>5. active' \in BOOLEAN /\ broken' \in BOOLEAN
      BY <2>1, Zenon
    <2> QED
      BY <1>4, <2>1, <2>2, <2>3, <2>4, <2>5 DEF ReloadTyped
  <1>6. Staged' /\ Whole'
    <2>1. pc' = "starting" /\ current' = disk /\ active' = TRUE /\ closed' = closed \cup (1..Len(gens))
      BY <1>4 DEF Restart, Go
    <2>2. \A c \in Component : live'[c] = Len(gens) + 1
      BY DEF Restart
    <2>3. closed \subseteq 1..Len(gens)
      BY DEF Staging, ReloadTyped
    <2>4. live'.runtimes = Len(gens) + 1 /\ live'.runtimes \notin closed' /\ gens'[live'.runtimes].conf = disk
      BY <1>2, <1>4, <2>1, <2>2, <2>3
    <2> QED
      BY <2>1, <2>2, <2>4 DEF Staged, Whole, Settled, Forward, Back
  <1> QED
    BY <1>1, <1>5, <1>6 DEF Staging

LEMMA NextStaging ==
    ASSUME Staging, [ReloadNext]_reloadVars
    PROVE  Staging'
  BY FilesStaging, BuildStaging, ActivationStaging, PublishStaging, RestartStaging DEF ReloadNext, Watcher

\* Whatever reloads fail at whatever step, in whatever order with restarts, and
\* however often: the components agree on one open generation of the published
\* snapshot, unless an undo failed itself (activateRuntime's rollback).
THEOREM ReloadsCohere == ReloadSpec => []Coherent
  <1>1. ReloadInit => Staging
    BY InitStaging
  <1>2. Staging /\ [ReloadNext]_reloadVars => Staging'
    BY NextStaging
  <1>3. Staging => Coherent
    BY DEF Staging, ReloadTyped, Staged, Whole, Coherent, Settled, Forward, Back, Moved
  <1> QED
    BY <1>1, <1>2, <1>3, PTL DEF ReloadSpec

\* A connection revision stands for one material for ever, also one issued to a
\* configuration that was refused (SyncConnectionRevisions before activation).
THEOREM RevisionsUnique == ReloadSpec => []RevisionIdentifies
  <1>1. ReloadInit => Staging
    BY InitStaging
  <1>2. Staging /\ [ReloadNext]_reloadVars => Staging'
    BY NextStaging
  <1>3. Staging => RevisionIdentifies
    BY DEF Staging, Revisions
  <1> QED
    BY <1>1, <1>2, <1>3, PTL DEF ReloadSpec
=============================================================================
