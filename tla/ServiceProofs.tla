---------------------------- MODULE ServiceProofs ----------------------------
(***************************************************************************)
(* Rotation of the credentials, for any number of requests, sources,       *)
(* sessions, rotations and crashes: what configMu and the two statements   *)
(* of Reconfigure and New achieve; and the bounds that the throttle keeps. *)
(* The cache of assets: what it answers, and the budget of its rows.       *)
(***************************************************************************)
EXTENDS Auth, AssetCache, FiniteSetTheorems, WellFoundedInduction, TLAPS

ThrottleKeys == Sources \cup ({"sudo"} \X Ids)

Request ==
    [at : {"none"}]
    \cup [at : {"named"}, session : Ids, password : 0..MaxCred]
    \cup [at : {"queued", "hashing"}, key : ThrottleKeys, session : Ids \cup {0},
          password : 0..MaxCred, cred : Nat, t : Nat]

Typed ==
    /\ now \in Nat /\ config \in Nat /\ params \in Nat
    /\ up \in BOOLEAN /\ rotating \in BOOLEAN /\ revoke \in BOOLEAN /\ stale \in BOOLEAN
    /\ req \in [Requests -> Request]

\* configMu: a request in the pool compares with the credentials in memory, and
\* there is none between the two statements of a rotation or without a process.
Held ==
    /\ \A r \in Verifying : req[r].cred = params
    /\ revoke => Verifying = {} /\ (up => rotating)
    /\ ~up => Verifying = {}

\* The row and the memory change together.  Sessions and windows rest on them,
\* also while the process is down, unless a rotation is or was cut short.
Rests ==
    /\ users = params
    /\ ~stale /\ ~revoke =>
          /\ \A id \in DOMAIN logins : logins[id].cred = params
          /\ \A id \in DOMAIN sudo : sudo[id].cred = params

IInv == Typed /\ Held /\ Rests

USE DEF clocks, service

LEMMA InitIInv ==
    ASSUME AuthInit
    PROVE  IInv
  <1>1. Typed
    BY Zenon DEF AuthInit, Typed, Request, NoRequest
  <1>2. Verifying = {}
    BY DEF AuthInit, Verifying, NoRequest
  <1>3. Held /\ Rests
    BY <1>2 DEF AuthInit, Held, Rests, NoEntries
  <1> QED
    BY <1>1, <1>3 DEF IInv

\* A step that leaves the service alone, and of requests only ends some, or lets
\* some in that compare with the credentials in memory.
LEMMA RequestStep ==
    ASSUME IInv, UNCHANGED <<now, config, service, logins, sudo>>,
           NEW r \in Requests, NEW q \in Request, req' = [req EXCEPT ![r] = q],
           q.at \in {"queued", "hashing"} => /\ q.cred = params
                                             /\ up /\ ~revoke
    PROVE  IInv'
  <1>1. Typed' /\ req'[r] = q /\ \A s \in Requests : s # r => req'[s] = req[s]
    BY DEF IInv, Typed
  <1>2. \A s \in Verifying' : s = r \/ s \in Verifying
    BY <1>1 DEF Verifying
  <1>3. r \in Verifying' => q.at \in {"queued", "hashing"}
    BY <1>1 DEF Verifying
  <1>4. Held'
    <2>1. \A s \in Verifying' : req'[s].cred = params
      BY <1>1, <1>2, <1>3 DEF IInv, Held, Verifying
    <2>2. revoke \/ ~up => Verifying' = {}
      BY <1>2, <1>3 DEF IInv, Held
    <2> QED
      BY <2>1, <2>2 DEF IInv, Held
  <1>5. Rests'
    BY DEF IInv, Rests
  <1> QED
    BY <1>1, <1>4, <1>5 DEF IInv

\* A request that ends after its verification, as a session, a window or a failure.
LEMMA EndStep ==
    ASSUME IInv, UNCHANGED <<now, config, service>>,
           NEW r \in Requests, req[r].at = "hashing", req' = [req EXCEPT ![r] = NoRequest],
           \A id \in DOMAIN logins' : \/ logins'[id].cred = req[r].cred
                                      \/ id \in DOMAIN logins /\ logins'[id] = logins[id],
           \A id \in DOMAIN sudo' : \/ sudo'[id].cred = req[r].cred
                                    \/ id \in DOMAIN sudo /\ sudo'[id] = sudo[id]
    PROVE  IInv'
  <1>1. r \in Verifying /\ req[r].cred = params
    BY DEF IInv, Held, Verifying
  <1>2. NoRequest \in Request /\ NoRequest.at = "none"
    BY DEF NoRequest, Request
  <1>3. Typed' /\ \A s \in Requests : req'[s] = IF s = r THEN NoRequest ELSE req[s]
    BY <1>2 DEF IInv, Typed
  <1>4. Verifying' \subseteq Verifying /\ \A s \in Verifying' : req'[s] = req[s]
    BY <1>2, <1>3 DEF Verifying
  <1>5. Held'
    BY <1>4 DEF IInv, Held
  <1>6. Rests'
    BY <1>1 DEF IInv, Rests
  <1> QED
    BY <1>3, <1>5, <1>6 DEF IInv

LEMMA EnterIInv ==
    ASSUME IInv, NEW r \in Requests, NEW key \in ThrottleKeys, NEW session \in Ids \cup {0},
           NEW password \in 0..MaxCred, Enter(r, key, session, password),
           UNCHANGED <<clocks, service, logins, sudo>>
    PROVE  IInv'
  <1> DEFINE entry == [at |-> "queued", key |-> key, session |-> session,
                       password |-> password, cred |-> params, t |-> now]
  <1>1. entry \in Request /\ NoRequest \in Request /\ NoRequest.at = "none"
    BY DEF IInv, Typed, Request, NoRequest
  <1>2. up /\ ~revoke
    BY DEF IInv, Held, Enter
  <1>3. PICK q \in {entry, NoRequest} : req' = [req EXCEPT ![r] = q]
    BY Zenon DEF Enter
  <1>4. q \in Request /\ (q.at \in {"queued", "hashing"} => q.cred = params)
    BY <1>1
  <1> QED
    BY Zenon, <1>2, <1>3, <1>4, RequestStep

LEMMA RequestsIInv ==
    ASSUME IInv, NEW r \in Requests,
           \/ \E k \in Sources, p \in 0..MaxCred : BeginLogin(r, k, p)
           \/ \E id \in Ids, p \in 0..MaxCred : NameSession(r, id, p)
           \/ BeginSudo(r) \/ TakeSlot(r) \/ Fails(r) \/ LogsIn(r) \/ OpensSudo(r)
    PROVE  IInv'
  <1>1. req[r] \in Request
    BY DEF IInv, Typed
  <1>2. ASSUME NEW k \in Sources, NEW p \in 0..MaxCred, BeginLogin(r, k, p) PROVE IInv'
    BY <1>2, EnterIInv DEF BeginLogin, ThrottleKeys
  <1>3. ASSUME NEW id \in Ids, NEW p \in 0..MaxCred, NameSession(r, id, p) PROVE IInv'
    <2> DEFINE q == [at |-> "named", session |-> id, password |-> p]
    <2>1. q \in Request /\ q.at = "named"
      BY DEF Request
    <2> QED
      BY Zenon, <1>3, <2>1, RequestStep DEF NameSession
  <1>4. CASE BeginSudo(r)
    <2>1. req[r].session \in Ids /\ req[r].password \in 0..MaxCred
      BY <1>1, <1>4 DEF BeginSudo, Request
    <2>2. <<"sudo", req[r].session>> \in ThrottleKeys
      BY <2>1 DEF ThrottleKeys
    <2> QED
      BY <1>4, <2>1, <2>2, EnterIInv DEF BeginSudo
  <1>5. CASE TakeSlot(r)
    <2> DEFINE q == [req[r] EXCEPT !.at = "hashing"]
    <2>1. req[r].at = "queued" /\ req' = [req EXCEPT ![r] = q]
      BY <1>5 DEF TakeSlot
    <2>2. q \in Request /\ q.cred = req[r].cred
      BY <1>1, <2>1 DEF Request
    <2>3. r \in Verifying
      BY <2>1 DEF Verifying
    <2>4. q.cred = params /\ up /\ ~revoke
      BY <2>2, <2>3 DEF IInv, Held, Typed
    <2> QED
      BY Zenon, <1>5, <2>1, <2>2, <2>4, RequestStep DEF TakeSlot
  <1>6. CASE Fails(r)
    BY Zenon, <1>6, EndStep DEF Fails
  <1>7. CASE LogsIn(r)
    BY Zenon, <1>7, EndStep DEF LogsIn, With, Without
  <1>8. CASE OpensSudo(r)
    BY Zenon, <1>8, EndStep DEF OpensSudo, With
  <1> QED
    BY <1>2, <1>3, <1>4, <1>5, <1>6, <1>7, <1>8

\* Sessions and windows that end, the clock, and a new configuration.
LEMMA SessionsIInv ==
    ASSUME IInv,
           \/ \E id \in Ids : Authenticate(id) \/ Logout(id) \/ AllowsPrivileged(id)
           \/ BeginReconfigure \/ Rotate \/ Tick \/ UNCHANGED authVars
    PROVE  IInv'
  <1>1. UNCHANGED <<users, params, up, revoke, stale, req>> /\ Verifying' = Verifying
    BY Zenon DEF Authenticate, Logout, AllowsPrivileged, BeginReconfigure, Rotate, Tick,
                 authVars, Verifying
  <1>2. Typed'
    <2>1. now' \in {now, now + 1} /\ config' \in {config, config + 1}
      BY Zenon DEF Authenticate, Logout, AllowsPrivileged, BeginReconfigure, Rotate, Tick, authVars
    <2>2. rotating' \in BOOLEAN
      BY Zenon DEF IInv, Typed, Authenticate, Logout, AllowsPrivileged, BeginReconfigure, Rotate,
                   Tick, authVars
    <2> QED
      BY <1>1, <2>1, <2>2 DEF IInv, Typed
  <1>3. rotating' = rotating \/ rotating'
    BY Zenon DEF BeginReconfigure, Authenticate, Logout, AllowsPrivileged, Rotate, Tick, authVars
  <1>4. Held'
    BY <1>1, <1>2, <1>3 DEF IInv, Typed, Held
  <1>5. /\ \A id \in DOMAIN logins' : id \in DOMAIN logins /\ logins'[id] = logins[id]
        /\ \A id \in DOMAIN sudo' : id \in DOMAIN sudo /\ sudo'[id] = sudo[id]
    BY Zenon DEF Authenticate, Logout, AllowsPrivileged, BeginReconfigure, Rotate, Tick,
                 authVars, Without
  <1>6. Rests'
    BY <1>1, <1>5 DEF IInv, Rests
  <1> QED
    BY <1>2, <1>4, <1>6 DEF IInv

\* The statements of a rotation, in process and in New, and what cuts it short.
LEMMA RotationIInv ==
    ASSUME IInv, Reconfigure \/ New \/ Revoke \/ RevokeFails \/ Crash
    PROVE  IInv'
  <1>1. CASE Reconfigure \/ New
    <2>1. Verifying = {} /\ Verifying' = Verifying /\ UNCHANGED <<stale, logins, sudo>> /\ ~revoke
      BY <1>1 DEF IInv, Held, Reconfigure, New, Verifying
    <2>2. Typed'
      BY Zenon, <1>1 DEF IInv, Typed, Reconfigure, New
    <2>3. Held'
      BY <1>1, <2>1 DEF IInv, Typed, Held, Reconfigure, New
    <2>4. users' = params' /\ (~revoke' => params' = params)
      BY Zenon, <1>1 DEF IInv, Typed, Rests, Reconfigure, New
    <2>5. Rests'
      BY <2>1, <2>4 DEF IInv, Rests
    <2> QED
      BY <2>2, <2>3, <2>5 DEF IInv
  <1>2. CASE Revoke
    BY Zenon, <1>2 DEF IInv, Typed, Held, Rests, Revoke, Verifying, NoEntries
  <1>3. CASE RevokeFails
    BY Zenon, <1>3 DEF IInv, Typed, Held, Rests, RevokeFails, Verifying
  <1>4. CASE Crash
    <2>1. Verifying' = {} /\ Typed'
      BY Zenon, <1>4 DEF IInv, Typed, Crash, Verifying, NoRequest, Request
    <2>2. Held'
      BY <1>4, <2>1 DEF Held, Crash
    <2>3. Rests'
      BY Zenon, <1>4 DEF IInv, Rests, Crash, NoEntries
    <2> QED
      BY <2>1, <2>2, <2>3 DEF IInv
  <1> QED
    BY <1>1, <1>2, <1>3, <1>4

LEMMA NextIInv ==
    ASSUME IInv, [AuthNext]_authVars
    PROVE  IInv'
  BY RequestsIInv, SessionsIInv, RotationIInv DEF AuthNext

\* Whatever the interleaving of logins, sudo requests, rotations and restarts,
\* sessions and sudo windows rest on the credentials in force (Login and OpenSudo
\* hold configMu from the comparison to the grant), unless a rotation was cut
\* between UPDATE users and DELETE sessions.
THEOREM RotationRevokes == AuthSpec => []Authorised
  <1>1. AuthInit => IInv
    BY InitIInv
  <1>2. IInv /\ [AuthNext]_authVars => IInv'
    BY NextIInv
  <1>3. IInv => Authorised
    BY DEF IInv, Rests, Authorised
  <1> QED
    BY <1>1, <1>2, <1>3, PTL DEF AuthSpec
-----------------------------------------------------------------------------
(* The table of the throttle *)

Table ==
    /\ IsFiniteSet(DOMAIN attempts) /\ Cardinality(DOMAIN attempts) <= MaxTracked
    /\ \A k \in DOMAIN attempts : attempts[k].start \in Nat

\* Among finitely or infinitely many entries one has the oldest window.
LEMMA OldestExists ==
    ASSUME NEW S, S # {}, NEW f, \A k \in S : f[k].start \in Nat
    PROVE  \E k \in S : \A l \in S : f[k].start <= f[l].start
  <1> DEFINE T == {f[k].start : k \in S}
  <1>1. T \subseteq Nat /\ T # {}
    OBVIOUS
  <1>2. PICK n \in T : \A m \in T : ~(<<m, n>> \in OpToRel(<, Nat))
    BY Zenon, <1>1, WFMin, NatLessThanWellFounded
  <1>3. ASSUME NEW m \in T PROVE n <= m
    <2>1. <<m, n>> \in Nat \X Nat /\ <<m, n>>[1] = m /\ <<m, n>>[2] = n /\ n \in Nat /\ m \in Nat
      BY <1>1
    <2>2. ~(m < n)
      BY <1>2, <2>1 DEF OpToRel
    <2> QED
      BY <2>1, <2>2
  <1> QED
    BY <1>3

\* evictLocked makes room.
LEMMA EvictedFits ==
    ASSUME MaxTracked \in Nat \ {0}, Table, NEW t
    PROVE  /\ DOMAIN Evicted(t) \subseteq DOMAIN attempts
           /\ \A k \in DOMAIN Evicted(t) : Evicted(t)[k] = attempts[k]
           /\ Cardinality(DOMAIN Evicted(t)) < MaxTracked
  <1> DEFINE expired == {k \in DOMAIN attempts :
                            t - attempts[k].start >= WindowLen /\ t >= attempts[k].until}
             left == DOMAIN attempts \ expired
             oldest == {k \in left : \A l \in left : attempts[k].start <= attempts[l].start}
             victim == CHOOSE k \in oldest : TRUE
  <1>1. Cardinality(DOMAIN attempts) \in Nat
    BY FS_CardinalityType DEF Table
  <1>2. CASE Cardinality(DOMAIN attempts) < MaxTracked
    BY <1>2 DEF Evicted
  <1>3. CASE Cardinality(DOMAIN attempts) >= MaxTracked /\ Cardinality(left) < MaxTracked
    <2>1. Evicted(t) = Without(attempts, expired)
      BY <1>1, <1>3 DEF Evicted
    <2> HIDE DEF expired
    <2> QED
      BY <1>3, <2>1 DEF Without
  <1>4. CASE Cardinality(DOMAIN attempts) >= MaxTracked /\ ~(Cardinality(left) < MaxTracked)
    <2>1. Evicted(t) = Without(attempts, {victim})
      BY <1>1, <1>4 DEF Evicted
    <2> HIDE DEF expired
    <2>2. left # {}
      BY <1>4, FS_EmptySet
    <2>3. oldest # {}
      BY Zenon, <2>2, OldestExists DEF Table
    <2>4. victim \in DOMAIN attempts
      BY <2>3
    <2> HIDE DEF victim
    <2>5. Cardinality(DOMAIN attempts \ {victim}) = Cardinality(DOMAIN attempts) - 1
      BY Zenon, <2>4, FS_RemoveElement DEF Table
    <2> QED
      BY <1>1, <2>1, <2>5 DEF Without, Table
  <1> QED
    BY <1>1, <1>2, <1>3, <1>4

LEMMA FailureFits ==
    ASSUME MaxTracked \in Nat \ {0}, Table, NEW key, NEW t \in Nat, RecordFailure(key, t)
    PROVE  Table'
  <1> DEFINE tracked == IF key \in DOMAIN attempts THEN attempts ELSE Evicted(t)
  <1>1. /\ DOMAIN tracked \subseteq DOMAIN attempts
        /\ \A k \in DOMAIN tracked : tracked[k] = attempts[k]
        /\ key \notin DOMAIN tracked => Cardinality(DOMAIN tracked) < MaxTracked
    BY EvictedFits
  <1>2. PICK a : /\ a.start \in Nat
                 /\ attempts' = With(tracked, key, a)
    <2> DEFINE b == IF key \in DOMAIN tracked /\ t - tracked[key].start < WindowLen THEN tracked[key]
                    ELSE [count |-> 0, start |-> t, until |-> 0]
               e == [b EXCEPT !.count = @ + 1,
                              !.until = IF b.count + 1 >= Threshold THEN t + LockLen ELSE @]
    <2>1. attempts' = With(tracked, key, e)
      BY DEF RecordFailure
    <2>2. b.start \in Nat
      BY <1>1 DEF Table
    <2>3. e.start = b.start
      OBVIOUS
    <2> QED
      BY Zenon, <2>1, <2>2, <2>3
  <1> HIDE DEF tracked
  <1>3. DOMAIN attempts' = DOMAIN tracked \cup {key}
    BY <1>2 DEF With
  <1>4. IsFiniteSet(DOMAIN tracked) /\ Cardinality(DOMAIN tracked) \in Nat
        /\ Cardinality(DOMAIN tracked) <= MaxTracked
    <2>1. DOMAIN tracked \in SUBSET DOMAIN attempts /\ IsFiniteSet(DOMAIN attempts)
          /\ Cardinality(DOMAIN attempts) <= MaxTracked
      BY <1>1 DEF Table
    <2>2. IsFiniteSet(DOMAIN tracked) /\ Cardinality(DOMAIN tracked) <= Cardinality(DOMAIN attempts)
      BY <2>1, FS_Subset
    <2>3. Cardinality(DOMAIN tracked) \in Nat /\ Cardinality(DOMAIN attempts) \in Nat
      BY <2>1, <2>2, FS_CardinalityType
    <2> QED
      BY <2>1, <2>2, <2>3
  <1>5. IsFiniteSet(DOMAIN attempts') /\ Cardinality(DOMAIN attempts') <= MaxTracked
    <2>1. IsFiniteSet(DOMAIN tracked \cup {key})
          /\ Cardinality(DOMAIN tracked \cup {key}) =
                 IF key \in DOMAIN tracked THEN Cardinality(DOMAIN tracked)
                                          ELSE Cardinality(DOMAIN tracked) + 1
      BY <1>4, FS_AddElement, Zenon
    <2>2. Cardinality(DOMAIN tracked \cup {key}) <= MaxTracked
      BY <1>1, <1>4, <2>1
    <2> QED
      BY <1>3, <2>1, <2>2, Zenon
  <1>6. \A k \in DOMAIN attempts' : attempts'[k].start \in Nat
    BY <1>1, <1>2 DEF With, Table
  <1> QED
    BY <1>5, <1>6 DEF Table

LEMMA NextTable ==
    ASSUME MaxTracked \in Nat \ {0}, IInv, Table, [AuthNext]_authVars
    PROVE  Table'
  <1>1. CASE UNCHANGED attempts
    BY <1>1 DEF Table
  <1>2. ASSUME NEW r \in Requests, Fails(r) PROVE Table'
    <2>1. req[r].t \in Nat
      BY <1>2 DEF IInv, Typed, Request, Fails
    <2> QED
      BY <1>2, <2>1, FailureFits DEF Fails
  <1>3. ASSUME NEW K, attempts' = Without(attempts, K) PROVE Table'
    <2>1. DOMAIN attempts' \subseteq DOMAIN attempts
          /\ \A k \in DOMAIN attempts' : attempts'[k] = attempts[k]
      BY <1>3 DEF Without
    <2>2. IsFiniteSet(DOMAIN attempts') /\ Cardinality(DOMAIN attempts') <= Cardinality(DOMAIN attempts)
          /\ Cardinality(DOMAIN attempts') \in Nat /\ Cardinality(DOMAIN attempts) \in Nat
      BY <2>1, FS_Subset, FS_CardinalityType DEF Table
    <2> QED
      BY <2>1, <2>2 DEF Table
  <1>4. ASSUME NEW r \in Requests, LogsIn(r) \/ OpensSudo(r) PROVE Table'
    BY <1>3, <1>4 DEF LogsIn, OpensSudo
  <1>5. CASE Crash
    BY <1>5, FS_EmptySet DEF Crash, NoEntries, Table
  <1>6. UNCHANGED attempts \/ Crash \/ \E r \in Requests : Fails(r) \/ LogsIn(r) \/ OpensSudo(r)
    BY Zenon DEF AuthNext, authVars, BeginLogin, NameSession, BeginSudo, TakeSlot, Authenticate, Logout,
           AllowsPrivileged, BeginReconfigure, Reconfigure, Revoke, RevokeFails, New, Rotate, Tick
  <1> QED
    BY <1>1, <1>2, <1>4, <1>5, <1>6

\* However many sources fail, with whatever entries locked or recent, the table of
\* the throttle keeps its ceiling (evictLocked always finds an entry to drop).
THEOREM ThrottleTable == AuthSpec => []TableBounded
  <1>1. AuthInit => IInv /\ Table
    <2>1. AuthInit => DOMAIN attempts = {}
      BY DEF AuthInit, NoEntries
    <2>2. IsFiniteSet({}) /\ Cardinality({}) <= MaxTracked
      BY FS_EmptySet, ThrottleAssumption
    <2> QED
      BY <2>1, <2>2, InitIInv, Zenon DEF Table
  <1>2. IInv /\ Table /\ [AuthNext]_authVars => IInv' /\ Table'
    BY NextIInv, NextTable, ThrottleAssumption
  <1>3. Table => TableBounded
    BY DEF Table, TableBounded
  <1> QED
    BY <1>1, <1>2, <1>3, PTL DEF AuthSpec
-----------------------------------------------------------------------------
(***************************************************************************)
(* The guesses of one source.  A request counts its failure in the window  *)
(* of its source's entry only if it began early enough.  Once the entry    *)
(* has reached the threshold, no such request can enter any more: it would *)
(* have to begin after the lockout, which outlasts the window.             *)
(***************************************************************************)
Limit == Threshold - 1 + HashSlots + Queue

Entry == [count : Nat, start : Nat, until : Nat]

\* Requests that would count one more failure in the entry of k.
Live(k) == {r \in Verifying : req[r].key = k /\ req[r].t - attempts[k].start < WindowLen}

\* A verification is over before the end of the unit after the one it began in.
Recent == \A r \in Verifying : req[r].t <= now /\ now <= req[r].t + 1

Pool == IsFiniteSet(Verifying) /\ Cardinality(Verifying) <= HashSlots + Queue

Counts ==
    \A k \in DOMAIN attempts :
        /\ attempts[k] \in Entry /\ attempts[k].start <= now
        /\ attempts[k].count >= Threshold =>
              /\ attempts[k].until >= attempts[k].start + WindowLen
              /\ attempts[k].count + Cardinality(Live(k)) <= Limit

Counted == Recent /\ Pool /\ Counts

LEMMA LiveFinite ==
    ASSUME Pool, NEW k
    PROVE  /\ IsFiniteSet(Live(k)) /\ Cardinality(Live(k)) \in Nat /\ Cardinality(Verifying) \in Nat
           /\ Cardinality(Live(k)) <= Cardinality(Verifying)
  <1>1. Live(k) \subseteq Verifying
    BY DEF Live
  <1> QED
    BY <1>1, FS_Subset, FS_CardinalityType DEF Pool

\* Requests and entries that go, and time, count nothing.
LEMMA FewerCounted ==
    ASSUME Counted, now \in Nat, now' \in Nat, now <= now', Recent',
           Verifying' \subseteq Verifying,
           \A r \in Verifying' : req'[r].key = req[r].key /\ req'[r].t = req[r].t,
           DOMAIN attempts' \subseteq DOMAIN attempts,
           \A k \in DOMAIN attempts' : attempts'[k] = attempts[k]
    PROVE  Counted'
  <1>1. Pool'
    <2>1. IsFiniteSet(Verifying') /\ Cardinality(Verifying') <= Cardinality(Verifying)
          /\ Cardinality(Verifying') \in Nat /\ Cardinality(Verifying) \in Nat
      BY FS_Subset, FS_CardinalityType DEF Counted, Pool
    <2> QED
      BY <2>1, ThrottleAssumption DEF Counted, Pool
  <1>2. ASSUME NEW k \in DOMAIN attempts'
        PROVE  /\ Cardinality(Live(k)') <= Cardinality(Live(k))
               /\ Cardinality(Live(k)') \in Nat /\ Cardinality(Live(k)) \in Nat
    <2>1. Live(k)' \subseteq Live(k)
      BY <1>2 DEF Live
    <2> QED
      BY <2>1, LiveFinite, FS_Subset, FS_CardinalityType DEF Counted
  <1>3. ASSUME NEW k \in DOMAIN attempts'
        PROVE  /\ attempts'[k] \in Entry /\ attempts'[k].start <= now'
               /\ attempts'[k].count >= Threshold =>
                     /\ attempts'[k].until >= attempts'[k].start + WindowLen
                     /\ attempts'[k].count + Cardinality(Live(k)') <= Limit
    <2>1. /\ attempts'[k] = attempts[k] /\ attempts[k] \in Entry /\ attempts[k].start <= now
          /\ attempts[k].count >= Threshold =>
                /\ attempts[k].until >= attempts[k].start + WindowLen
                /\ attempts[k].count + Cardinality(Live(k)) <= Limit
      BY <1>3 DEF Counted, Counts
    <2>2. attempts[k].count \in Nat /\ attempts[k].start \in Nat /\ Limit \in Int
      BY <2>1, ThrottleAssumption DEF Entry, Limit
    <2> QED
      BY <1>2, <2>1, <2>2
  <1>4. Counts'
    BY <1>3 DEF Counts
  <1> QED
    BY <1>1, <1>4 DEF Counted

LEMMA EnterCounted ==
    ASSUME Typed, Counted, NEW r \in Requests, NEW key, NEW session, NEW password,
           r \notin Verifying, Enter(r, key, session, password), UNCHANGED <<now, attempts>>
    PROVE  Counted'
  <1> DEFINE q == [at |-> "queued", key |-> key, session |-> session,
                   password |-> password, cred |-> params, t |-> now]
  <1>1. CASE req' = [req EXCEPT ![r] = NoRequest]
    <2>1. Verifying' \subseteq Verifying /\ \A s \in Verifying' : req'[s] = req[s]
      BY <1>1 DEF Typed, Verifying, NoRequest
    <2>2. Recent'
      BY <2>1 DEF Counted, Recent
    <2> QED
      BY <2>1, <2>2, FewerCounted DEF Typed
  <1>2. CASE /\ req' = [req EXCEPT ![r] = q]
             /\ ~IsLocked(key) /\ ~(Cardinality(Verifying) >= HashSlots + Queue)
    <2>1. /\ req'[r] = q /\ q.at = "queued" /\ q.key = key /\ q.t = now
          /\ \A s \in Requests : s # r => req'[s] = req[s]
      BY <1>2 DEF Typed
    <2> HIDE DEF q
    <2>2. Verifying' = Verifying \cup {r}
      BY <2>1 DEF Verifying
    <2>3. \A s \in Verifying : s # r /\ req'[s] = req[s]
      BY <2>1 DEF Verifying
    <2>4. Recent'
      BY <2>1, <2>2, <2>3 DEF Counted, Recent, Typed
    <2>5. Pool'
      <3>1. IsFiniteSet(Verifying \cup {r}) /\ Cardinality(Verifying \cup {r}) = Cardinality(Verifying) + 1
            /\ Cardinality(Verifying) \in Nat
        BY FS_AddElement, FS_CardinalityType DEF Counted, Pool
      <3> QED
        BY <1>2, <2>2, <3>1, ThrottleAssumption DEF Pool
    <2>6. ASSUME NEW k \in DOMAIN attempts, attempts[k].count >= Threshold
          PROVE  Live(k)' = Live(k)
      <3>1. ~(key = k /\ now - attempts[k].start < WindowLen)
        BY <1>2, <2>6, ThrottleAssumption DEF Counted, Counts, IsLocked, Entry, Typed
      <3> QED
        BY <2>1, <2>2, <2>3, <3>1 DEF Live
    <2>7. Counts'
      BY <2>6 DEF Counted, Counts
    <2> QED
      BY <2>4, <2>5, <2>7 DEF Counted
  <1> QED
    BY Zenon, <1>1, <1>2 DEF Enter

\* One failure more in an entry, before or after it has reached the threshold.
LEMMA FailureCounted ==
    ASSUME Typed, Table, Counted, NEW r \in Requests, Fails(r),
           NEW key, NEW t, key = req[r].key, t = req[r].t
    PROVE  Counted'
  <1> DEFINE tracked == IF key \in DOMAIN attempts THEN attempts ELSE Evicted(t)
             again == key \in DOMAIN tracked /\ t - tracked[key].start < WindowLen
             a == IF again THEN tracked[key] ELSE [count |-> 0, start |-> t, until |-> 0]
             e == [a EXCEPT !.count = @ + 1,
                            !.until = IF a.count + 1 >= Threshold THEN t + LockLen ELSE @]
  <1>1. attempts' = With(tracked, key, e)
    BY DEF Fails, RecordFailure
  <1>2. /\ r \in Verifying /\ t \in Nat /\ t <= now /\ now <= t + 1 /\ now \in Nat
    BY DEF Fails, Typed, Request, Counted, Recent, Verifying
  <1>3. /\ Verifying' = Verifying \ {r} /\ \A s \in Verifying' : req'[s] = req[s]
        /\ UNCHANGED now
    BY DEF Fails, Typed, Verifying, NoRequest
  <1>4. /\ DOMAIN tracked \subseteq DOMAIN attempts
        /\ \A k \in DOMAIN tracked : tracked[k] = attempts[k]
    BY EvictedFits, ThrottleAssumption
  <1>5. Recent'
    BY <1>3 DEF Counted, Recent
  <1>6. /\ IsFiniteSet(Verifying') /\ Cardinality(Verifying') = Cardinality(Verifying) - 1
        /\ Cardinality(Verifying) \in Nat /\ Cardinality(Verifying') \in Nat
    BY <1>2, <1>3, FS_RemoveElement, FS_CardinalityType DEF Counted, Pool
  <1>7. Pool'
    BY <1>6, ThrottleAssumption DEF Counted, Pool
  <1>8. a \in Entry /\ a.start <= now /\ t + 1 >= a.start
    <2>1. CASE again
      <3>1. a = attempts[key] /\ key \in DOMAIN attempts
        BY <1>4, <2>1
      <3> HIDE DEF a, again, tracked
      <3>2. a \in Entry /\ a.start <= now
        BY <3>1 DEF Counted, Counts
      <3> QED
        BY <1>2, <3>2 DEF Entry
    <2>2. CASE ~again
      <3>1. a = [count |-> 0, start |-> t, until |-> 0]
        BY <2>2
      <3> HIDE DEF a, again, tracked
      <3> QED
        BY <1>2, <3>1 DEF Entry
    <2> QED
      BY <2>1, <2>2
  <1>9. /\ DOMAIN attempts' \subseteq DOMAIN attempts \cup {key} /\ attempts'[key] = e
        /\ \A k \in DOMAIN attempts' : k # key => attempts'[k] = attempts[k] /\ k \in DOMAIN attempts
    <2> HIDE DEF tracked, e
    <2> QED
      BY <1>1, <1>4 DEF With
  <1>10. /\ e \in Entry /\ e.start = a.start /\ e.count = a.count + 1
         /\ e.count >= Threshold => e.until = t + LockLen
    <2> HIDE DEF a
    <2>1. t + LockLen \in Nat /\ a.count + 1 \in Nat
      BY <1>2, <1>8, ThrottleAssumption DEF Entry
    <2> QED
      BY Zenon, <1>8, <2>1 DEF Entry
  <1>11. ASSUME e.count >= Threshold
         PROVE  e.until >= e.start + WindowLen /\ e.count + Cardinality(Live(key)') <= Limit
    <2>1. e.until >= e.start + WindowLen
      <3> HIDE DEF e, a
      <3> QED
        BY <1>2, <1>8, <1>10, <1>11, ThrottleAssumption DEF Entry
    <2>2. Live(key)' \subseteq Verifying' /\ IsFiniteSet(Live(key)')
          /\ Cardinality(Live(key)') \in Nat /\ Cardinality(Live(key)') <= Cardinality(Verifying')
      <3>1. Live(key)' \subseteq Verifying'
        BY DEF Live
      <3> QED
        BY <1>6, <3>1, FS_Subset, FS_CardinalityType
    <2>3. CASE again /\ a.count >= Threshold
      <3>1. a = attempts[key] /\ key \in DOMAIN attempts
        BY <1>4, <2>3
      <3>2. a.count + Cardinality(Live(key)) <= Limit
        BY <2>3, <3>1 DEF Counted, Counts
      <3>3. r \in Live(key)
        BY <1>2, <2>3, <3>1 DEF Live
      <3>4. Live(key)' \subseteq Live(key) \ {r}
        <4> HIDE DEF e, a, tracked, again
        <4> QED
          BY <1>3, <1>9, <1>10, <3>1 DEF Live
      <3>5. IsFiniteSet(Live(key)) /\ Cardinality(Live(key)) \in Nat
        BY LiveFinite DEF Counted
      <3>6. Cardinality(Live(key) \ {r}) = Cardinality(Live(key)) - 1 /\ IsFiniteSet(Live(key) \ {r})
        BY <3>3, <3>5, FS_RemoveElement
      <3>7. Cardinality(Live(key)') <= Cardinality(Live(key)) - 1
        BY <3>4, <3>6, FS_Subset
      <3> HIDE DEF e, a, again, tracked
      <3> QED
        BY <1>8, <1>10, <2>1, <2>2, <3>2, <3>5, <3>7, ThrottleAssumption DEF Entry, Limit
    <2>4. CASE a.count < Threshold
      <3> HIDE DEF e, a, again, tracked
      <3>1. e.count = Threshold
        BY <1>8, <1>10, <1>11, <2>4, ThrottleAssumption DEF Entry
      <3> QED
        BY <1>6, <2>1, <2>2, <3>1, ThrottleAssumption DEF Counted, Pool, Limit
    <2>5. CASE ~again
      <3>1. a.count = 0
        BY <2>5
      <3> HIDE DEF e, a, again, tracked
      <3>2. a.count < Threshold
        BY <3>1, ThrottleAssumption
      <3> QED
        BY <2>4, <3>2
    <2> HIDE DEF e, a, again, tracked
    <2> QED
      BY <1>8, <2>3, <2>4, <2>5, ThrottleAssumption DEF Entry
  <1>12. ASSUME NEW k \in DOMAIN attempts', k # key
         PROVE  /\ attempts'[k] \in Entry /\ attempts'[k].start <= now
                /\ attempts'[k].count >= Threshold =>
                      /\ attempts'[k].until >= attempts'[k].start + WindowLen
                      /\ attempts'[k].count + Cardinality(Live(k)') <= Limit
    <2> HIDE DEF e, a, again, tracked
    <2>1. attempts'[k] = attempts[k] /\ k \in DOMAIN attempts
      BY <1>9, <1>12
    <2>2. Live(k)' \subseteq Live(k)
      BY <1>3, <2>1 DEF Live
    <2>3. Cardinality(Live(k)') <= Cardinality(Live(k)) /\ Cardinality(Live(k)') \in Nat
          /\ Cardinality(Live(k)) \in Nat
      BY <2>2, LiveFinite, FS_Subset, FS_CardinalityType DEF Counted
    <2>4. /\ attempts[k] \in Entry /\ attempts[k].start <= now
          /\ attempts[k].count >= Threshold =>
                /\ attempts[k].until >= attempts[k].start + WindowLen
                /\ attempts[k].count + Cardinality(Live(k)) <= Limit
      BY <2>1 DEF Counted, Counts
    <2>5. attempts[k].count \in Nat /\ Limit \in Nat
      BY <2>4, ThrottleAssumption DEF Entry, Limit
    <2> QED
      BY <2>1, <2>3, <2>4, <2>5
  <1>13. Counts'
    <2> HIDE DEF e, a, again, tracked
    <2>1. e.start <= now
      BY <1>8, <1>10
    <2> QED
      BY <1>3, <1>9, <1>10, <1>11, <1>12, <2>1 DEF Counts
  <1> QED
    BY <1>5, <1>7, <1>13 DEF Counted

LEMMA NextCounted ==
    ASSUME IInv, Table, Counted, [AuthNext]_authVars
    PROVE  Counted'
  <1>1. Typed /\ now \in Nat
    BY DEF IInv, Typed
  <1>2. ASSUME NEW r \in Requests, NEW k \in Sources, NEW p \in 0..MaxCred, BeginLogin(r, k, p)
        PROVE  Counted'
    <2>1. r \notin Verifying
      BY <1>2 DEF BeginLogin, Verifying
    <2> QED
      BY <1>1, <1>2, <2>1, EnterCounted DEF BeginLogin
  <1>3. ASSUME NEW r \in Requests, BeginSudo(r) PROVE Counted'
    <2>1. r \notin Verifying
      BY <1>3 DEF BeginSudo, Verifying
    <2> QED
      BY <1>1, <1>3, <2>1, EnterCounted DEF BeginSudo
  <1>4. ASSUME NEW r \in Requests, Fails(r) PROVE Counted'
    <2>1. PICK key, t : key = req[r].key /\ t = req[r].t
      OBVIOUS
    <2> QED
      BY <1>1, <1>4, <2>1, FailureCounted
  <1>5. ASSUME NEW r \in Requests, NEW q, req' = [req EXCEPT ![r] = q], UNCHANGED now,
               \/ q.at \notin {"queued", "hashing"}
               \/ r \in Verifying /\ q.key = req[r].key /\ q.t = req[r].t,
               DOMAIN attempts' \subseteq DOMAIN attempts,
               \A k \in DOMAIN attempts' : attempts'[k] = attempts[k]
        PROVE  Counted'
    <2>1. /\ Verifying' \subseteq Verifying
          /\ \A s \in Verifying' : req'[s].key = req[s].key /\ req'[s].t = req[s].t
      BY <1>1, <1>5 DEF Typed, Verifying
    <2>2. Recent'
      BY <1>5, <2>1 DEF Counted, Recent
    <2>3. now \in Nat /\ now' \in Nat /\ now <= now'
      BY <1>1, <1>5 DEF Typed
    <2> QED
      BY <1>5, <2>1, <2>2, <2>3, FewerCounted
  <1>6. ASSUME NEW r \in Requests, NEW id \in Ids, NEW p \in 0..MaxCred, NameSession(r, id, p)
        PROVE  Counted'
    <2> DEFINE q == [at |-> "named", session |-> id, password |-> p]
    <2>1. q.at \notin {"queued", "hashing"} /\ req' = [req EXCEPT ![r] = q] /\ UNCHANGED <<now, attempts>>
      BY <1>6 DEF NameSession
    <2> HIDE DEF q
    <2> QED
      BY Zenon, <1>5, <2>1
  <1>7. ASSUME NEW r \in Requests, TakeSlot(r) PROVE Counted'
    <2> DEFINE q == [req[r] EXCEPT !.at = "hashing"]
    <2>1. /\ req' = [req EXCEPT ![r] = q] /\ UNCHANGED <<now, attempts>> /\ r \in Verifying
          /\ q.key = req[r].key /\ q.t = req[r].t
      BY <1>7 DEF TakeSlot, Verifying
    <2> HIDE DEF q
    <2> QED
      BY Zenon, <1>5, <2>1
  <1>8. ASSUME NEW r \in Requests, LogsIn(r) \/ OpensSudo(r) PROVE Counted'
    <2>1. /\ req' = [req EXCEPT ![r] = NoRequest] /\ UNCHANGED now
          /\ attempts' = Without(attempts, {req[r].key})
      BY <1>8 DEF LogsIn, OpensSudo
    <2>2. NoRequest.at = "none"
      BY DEF NoRequest
    <2>3. /\ DOMAIN attempts' \subseteq DOMAIN attempts
          /\ \A k \in DOMAIN attempts' : attempts'[k] = attempts[k]
      BY <2>1 DEF Without
    <2> QED
      BY Zenon, <1>5, <2>1, <2>2, <2>3
  <1>9. CASE Crash
    <2>1. Verifying' = {} /\ DOMAIN attempts' = {} /\ UNCHANGED now
      BY <1>9 DEF Crash, Verifying, NoRequest, NoEntries
    <2>2. Recent'
      BY <2>1 DEF Recent
    <2> QED
      BY <1>1, <2>1, <2>2, FewerCounted
  <1>10. CASE UNCHANGED <<now, attempts, req>>
    <2>1. Verifying' = Verifying
      BY <1>10 DEF Verifying
    <2>2. Recent'
      BY <1>10, <2>1 DEF Counted, Recent
    <2> QED
      BY <1>1, <1>10, <2>1, <2>2, FewerCounted
  <1>11. CASE Tick
    <2>1. Verifying' = Verifying /\ UNCHANGED <<attempts, req>> /\ now' = now + 1
          /\ \A r \in Verifying : req[r].t = now
      BY <1>11 DEF Tick, Verifying
    <2>2. Recent'
      BY <1>1, <2>1 DEF Recent
    <2> QED
      BY <1>1, <2>1, <2>2, FewerCounted
  <1>12. CASE \/ \E id \in Ids : Authenticate(id) \/ Logout(id) \/ AllowsPrivileged(id)
              \/ BeginReconfigure \/ Reconfigure \/ Revoke \/ RevokeFails \/ New \/ Rotate
              \/ UNCHANGED authVars
    <2>1. now' = now /\ attempts' = attempts /\ req' = req
      BY Zenon, <1>12 DEF authVars, Authenticate, Logout, AllowsPrivileged, BeginReconfigure, Reconfigure,
                   Revoke, RevokeFails, New, Rotate
    <2> QED
      BY <1>10, <2>1
  <1> QED
    BY <1>2, <1>3, <1>4, <1>6, <1>7, <1>8, <1>9, <1>11, <1>12 DEF AuthNext

\* However requests of one source overlap, and in whatever order their verifications end, a
\* window never counts more wrong guesses than the threshold and the requests that were in
\* the pool when it was reached, and the table keeps its ceiling (isLocked before the hash,
\* recordFailure after it; the lockout outlasts the window by more than a verification).
THEOREM GuessesStayBounded == AuthSpec => []ThrottleBounds
  <1>1. AuthInit => IInv /\ Table /\ Counted
    <2>1. AuthInit => DOMAIN attempts = {} /\ Verifying = {}
      BY DEF AuthInit, NoEntries, Verifying, NoRequest
    <2>2. IsFiniteSet({}) /\ Cardinality({}) = 0
      BY FS_EmptySet
    <2>3. AuthInit => Table
      BY <2>1, <2>2, ThrottleAssumption DEF Table
    <2>4. 0 <= HashSlots + Queue
      BY ThrottleAssumption
    <2>5. AuthInit => Counted
      BY Zenon, <2>1, <2>2, <2>4 DEF Counted, Recent, Pool, Counts
    <2> QED
      BY <2>3, <2>5, InitIInv
  <1>2. IInv /\ Table /\ Counted /\ [AuthNext]_authVars => IInv' /\ Table' /\ Counted'
    BY NextIInv, NextTable, NextCounted, ThrottleAssumption
  <1>3. ASSUME Table, Counted PROVE ThrottleBounds
    <2>1. ASSUME NEW k \in DOMAIN attempts PROVE attempts[k].count <= Limit
      <3>1. Cardinality(Live(k)) \in Nat
        BY <1>3, LiveFinite DEF Counted
      <3> QED
        BY <1>3, <2>1, <3>1, ThrottleAssumption DEF Counted, Counts, Entry, Limit
    <2> QED
      BY <1>3, <2>1 DEF ThrottleBounds, GuessesBounded, TableBounded, Table, Limit
  <1> QED
    BY <1>1, <1>2, <1>3, PTL DEF AuthSpec
-----------------------------------------------------------------------------
(***************************************************************************)
(* The asset cache, for any keys, sizes, requests, damage and crashes: a   *)
(* leader has its own key's bytes or nothing yet, and has them wherever it *)
(* stores, evicts for them or answers.                                     *)
(***************************************************************************)

Leads(k, f) ==
    /\ DOMAIN f = {"at", "result", "victim"}
    /\ f.result \in {k, Nothing}
    /\ f.at \in {"rename", "insert", "evict", "pick", "done"} => f.result = k

Led ==
    /\ flight = [k \in Keys |-> flight[k]]
    /\ \A k \in Keys : Leads(k, flight[k])
    /\ AnswersIntact

\* A leader moves, and the others do not.
LEMMA OneMoves ==
    ASSUME Led, NEW k \in Keys, NEW f, Leads(k, f), flight' = [flight EXCEPT ![k] = f],
           \A a \in served' : a \in served \/ a[2] = a[1]
    PROVE  Led'
  <1>1. \A q \in Keys : flight'[q] = IF q = k THEN f ELSE flight[q]
    BY DEF Led
  <1>2. \A q \in Keys : Leads(q, flight'[q])
    BY <1>1 DEF Led
  <1>3. flight' = [q \in Keys |-> flight'[q]]
    BY DEF Led
  <1>4. AnswersIntact'
    BY DEF Led, AnswersIntact
  <1> QED
    BY <1>2, <1>3, <1>4 DEF Led

LEMMA GroundedLeads ==
    ASSUME NEW k
    PROVE  Leads(k, Grounded)
  BY DEF Leads, Grounded

LEMMA StepLed ==
    ASSUME Led, NEW k \in Keys, Step(k)
    PROVE  Led'
  <1> DEFINE f == flight[k]
  <1>1. Leads(k, f)
    BY DEF Led
  <1>2. CASE Land(k)
    <2>1. f.result = k /\ flight' = [flight EXCEPT ![k] = Grounded]
      BY <1>1, <1>2 DEF Leads, Land, At
    <2>2. \A a \in served' : a \in served \/ a[2] = a[1]
      BY <1>2, <2>1 DEF Land
    <2> QED
      BY <2>1, <2>2, GroundedLeads, OneMoves
  <1>3. ASSUME ~Land(k) PROVE served' = served
    BY <1>3 DEF Step, LookUpRow, ReadFile, Unlink, DeleteRow,
           Fetch, Rename, InsertRow, Evict, PickVictim, Rest
  <1>4. ASSUME ~Land(k) PROVE \E g : Leads(k, g) /\ flight' = [flight EXCEPT ![k] = g]
    <2>1. CASE LookUpRow(k) \/ Unlink(k) \/ DeleteRow(k)
      <3>1. PICK l \in {"file", "fetch", "delete", "evict"} :
               /\ flight' = [flight EXCEPT ![k].at = l]
               /\ l = "evict" => f.result # Nothing
        BY <2>1 DEF LookUpRow, Unlink, DeleteRow, Go
      <3>2. Leads(k, [f EXCEPT !.at = l])
        BY <1>1, <3>1 DEF Leads
      <3> QED
        BY <3>1, <3>2
    <2>2. CASE Rename(k) \/ InsertRow(k) \/ Evict(k)
      <3>1. PICK l : flight' = [flight EXCEPT ![k].at = l]
        BY <2>2 DEF Rename, InsertRow, Evict, Go
      <3>2. f.result = k
        BY <1>1, <2>2 DEF Leads, Rename, InsertRow, Evict, At
      <3>3. Leads(k, [f EXCEPT !.at = l])
        BY <1>1, <3>2 DEF Leads
      <3> QED
        BY <3>1, <3>3
    <2>3. CASE Fetch(k)
      <3>1. PICK l : flight' = [flight EXCEPT ![k].result = k, ![k].at = l]
        BY <2>3 DEF Fetch
      <3>2. Leads(k, [f EXCEPT !.result = k, !.at = l])
        BY <1>1 DEF Leads
      <3> QED
        BY <3>1, <3>2
    <2>4. CASE ReadFile(k)
      <3>1. \/ flight' = [flight EXCEPT ![k].at = "done", ![k].result = k]
            \/ flight' = [flight EXCEPT ![k].at = "unlink", ![k].victim = k]
        BY <2>4 DEF ReadFile, Intact
      <3>2. /\ Leads(k, [f EXCEPT !.at = "done", !.result = k])
            /\ Leads(k, [f EXCEPT !.at = "unlink", !.victim = k])
        BY <1>1 DEF Leads
      <3>3. CASE flight' = [flight EXCEPT ![k].at = "done", ![k].result = k]
        BY <3>2, <3>3
      <3>4. CASE flight' = [flight EXCEPT ![k].at = "unlink", ![k].victim = k]
        BY <3>2, <3>4
      <3> QED
        BY <3>1, <3>3, <3>4
    <2>5. CASE PickVictim(k)
      <3>1. f.result = k
        BY <1>1, <2>5 DEF Leads, PickVictim, At
      <3>2. \/ flight' = [flight EXCEPT ![k] = Grounded]
            \/ flight' = [flight EXCEPT ![k].at = "unlink", ![k].victim = Head(rows)]
        BY <2>5 DEF PickVictim
      <3>3. Leads(k, [f EXCEPT !.at = "unlink", !.victim = Head(rows)])
        BY <1>1, <3>1 DEF Leads
      <3> QED
        BY <3>2, <3>3, GroundedLeads
    <2> QED
      BY <1>4, <2>1, <2>2, <2>3, <2>4, <2>5 DEF Step
  <1> QED
    BY <1>2, <1>3, <1>4, OneMoves

LEMMA NextLed ==
    ASSUME Led, [CacheNext]_cacheVars
    PROVE  Led'
  <1>1. CASE UNCHANGED cacheVars
    BY <1>1 DEF Led, cacheVars, AnswersIntact
  <1>2. CASE CacheCrash
    BY <1>2, GroundedLeads DEF Led, CacheCrash, AnswersIntact
  <1>3. ASSUME NEW k \in Keys, Ask(k) PROVE Led'
    <2>1. served' = served /\ (UNCHANGED flight \/ flight' = [flight EXCEPT ![k].at = "row"])
      BY <1>3 DEF Ask, Go
    <2>2. Leads(k, [flight[k] EXCEPT !.at = "row"])
      BY DEF Led, Leads
    <2>3. CASE UNCHANGED flight
      BY <2>1, <2>3 DEF Led, AnswersIntact
    <2> QED
      BY <2>1, <2>2, <2>3, OneMoves
  <1>4. ASSUME NEW k \in Keys, Cancel(k) PROVE Led'
    BY <1>4, GroundedLeads, OneMoves DEF Cancel
  <1>5. ASSUME NEW k \in Keys, Damage(k) PROVE Led'
    BY <1>5 DEF Led, Damage, AnswersIntact
  <1> QED
    BY <1>1, <1>2, <1>3, <1>4, <1>5, StepLed DEF CacheNext

\* Every answer has the bytes of the key asked for, however leaders of different keys overwrite,
\* damage, evict and unlink each other's entries and the process ends between a file and its row
\* (GetOrFetch, get, put, evict).
THEOREM AnswersAreIntact == CacheSpec => []AnswersIntact
  <1>1. CacheInit => Led
    BY GroundedLeads DEF CacheInit, Led, AnswersIntact
  <1>2. Led /\ [CacheNext]_cacheVars => Led'
    BY NextLed
  <1>3. Led => AnswersIntact
    BY DEF Led
  <1> QED
    BY <1>1, <1>2, <1>3, PTL DEF CacheSpec

-----------------------------------------------------------------------------
(* The budget.  Rows are inserted one by one, and whoever inserted stays at  *)
(* work until it has seen a total within the budget.                         *)

\* Induction, for a set of numbers rather than for a predicate.
LEMMA Induction ==
    ASSUME NEW S, 0 \in S, \A n \in Nat : n \in S => n + 1 \in S
    PROVE  Nat \subseteq S
  <1> DEFINE T == Nat \ S
  <1>1. SUFFICES ASSUME T # {} PROVE FALSE
    OBVIOUS
  <1>2. PICK n \in T : \A m \in T : ~(<<m, n>> \in OpToRel(<, Nat))
    BY Zenon, <1>1, WFMin, NatLessThanWellFounded
  <1>3. n \in Nat /\ n # 0 /\ n - 1 \in Nat /\ n - 1 \notin S
    <2>1. n \in Nat /\ n # 0
      OBVIOUS
    <2>2. n - 1 \in Nat /\ (n - 1) + 1 = n
      BY <2>1
    <2> QED
      BY <2>1, <2>2
  <1>4. <<n - 1, n>> \in Nat \X Nat /\ <<n - 1, n>>[1] < <<n - 1, n>>[2]
    BY <1>3
  <1> QED
    BY <1>2, <1>3, <1>4 DEF OpToRel

Sum(s, m, f) == f = [n \in 0..m |-> IF n = 0 THEN 0 ELSE f[n - 1] + SizeOf[s[n]]]

LEMMA SumExists ==
    ASSUME NEW s \in Seq(Keys)
    PROVE  \E f : Sum(s, Len(s), f)
  <1> DEFINE S == {m \in Nat : \E f : Sum(s, m, f)}
  <1>1. 0 \in S
    <2>1. Sum(s, 0, [n \in 0..0 |-> 0])
      BY DEF Sum
    <2> QED
      BY <2>1
  <1>2. ASSUME NEW m \in Nat, m \in S PROVE m + 1 \in S
    <2>1. PICK f : Sum(s, m, f)
      BY <1>2
    <2> DEFINE g == [n \in 0..(m + 1) |-> IF n = m + 1 THEN f[m] + SizeOf[s[m + 1]] ELSE f[n]]
    <2>2. ASSUME NEW n \in 0..(m + 1)
          PROVE  g[n] = IF n = 0 THEN 0 ELSE g[n - 1] + SizeOf[s[n]]
      <3>1. CASE n = m + 1
        BY <3>1
      <3>2. CASE n # m + 1
        <4>1. n \in 0..m
          BY <3>2
        <4>2. f[n] = IF n = 0 THEN 0 ELSE f[n - 1] + SizeOf[s[n]]
          BY <2>1, <4>1 DEF Sum
        <4>3. n # 0 => n - 1 \in 0..m
          BY <4>1
        <4> QED
          BY <4>1, <4>2, <4>3
      <3> QED
        BY <3>1, <3>2
    <2>3. Sum(s, m + 1, g)
      BY <2>2 DEF Sum
    <2> QED
      BY <2>3
  <1> HIDE DEF S
  <1>3. Nat \subseteq S
    BY <1>1, <1>2, Induction
  <1> QED
    BY <1>3 DEF S

LEMMA SumsAre ==
    ASSUME NEW s \in Seq(Keys)
    PROVE  /\ Sums(s) = [n \in 0..Len(s) |-> Sums(s)[n]]
           /\ Sums(s)[0] = 0
           /\ \A n \in 1..Len(s) : Sums(s)[n] = Sums(s)[n - 1] + SizeOf[s[n]]
  <1>1. Sum(s, Len(s), Sums(s))
    BY SumExists DEF Sums, Sum
  <1> QED
    BY <1>1 DEF Sum

\* Two sequences that agree on their first m rows have the same sums so far.
LEMMA SumsAgree ==
    ASSUME NEW s \in Seq(Keys), NEW t \in Seq(Keys), NEW m \in 0..Len(s), m <= Len(t),
           \A n \in 1..m : t[n] = s[n]
    PROVE  Sums(t)[m] = Sums(s)[m]
  <1> DEFINE S == {n \in Nat : n <= m => Sums(t)[n] = Sums(s)[n]}
  <1>1. 0 \in S
    BY SumsAre
  <1>2. ASSUME NEW n \in Nat, n \in S PROVE n + 1 \in S
    <2>1. SUFFICES ASSUME n + 1 <= m PROVE Sums(t)[n + 1] = Sums(s)[n + 1]
      OBVIOUS
    <2>2. n + 1 \in 1..Len(s) /\ n + 1 \in 1..Len(t) /\ (n + 1) - 1 = n /\ n + 1 \in 1..m
      BY <2>1
    <2>3. Sums(t)[n] = Sums(s)[n]
      BY <1>2, <2>1
    <2>4. t[n + 1] = s[n + 1]
      BY <2>2
    <2>5. Sums(t)[n + 1] = Sums(t)[n] + SizeOf[t[n + 1]]
      BY <2>2, SumsAre
    <2>6. Sums(s)[n + 1] = Sums(s)[n] + SizeOf[s[n + 1]]
      BY <2>2, SumsAre
    <2> QED
      BY <2>3, <2>4, <2>5, <2>6
  <1> HIDE DEF S
  <1>3. Nat \subseteq S
    BY <1>1, <1>2, Induction
  <1> QED
    BY <1>3 DEF S

\* The sums are numbers, and those of a sequence without its p-th row are short of it.
LEMMA SumsNat ==
    ASSUME NEW s \in Seq(Keys)
    PROVE  \A n \in 0..Len(s) : Sums(s)[n] \in Nat
  <1> DEFINE S == {n \in Nat : n <= Len(s) => Sums(s)[n] \in Nat}
  <1>1. 0 \in S
    BY SumsAre
  <1>2. ASSUME NEW n \in Nat, n \in S PROVE n + 1 \in S
    <2>1. SUFFICES ASSUME n + 1 <= Len(s) PROVE Sums(s)[n + 1] \in Nat
      OBVIOUS
    <2>2. n + 1 \in 1..Len(s) /\ (n + 1) - 1 = n
      BY <2>1
    <2>3. Sums(s)[n] \in Nat /\ SizeOf[s[n + 1]] \in Nat
      BY <1>2, <2>1, <2>2, CacheAssumption
    <2> QED
      BY <2>2, <2>3, SumsAre
  <1> HIDE DEF S
  <1>3. Nat \subseteq S
    BY <1>1, <1>2, Induction
  <1> QED
    BY <1>3 DEF S

LEMMA SumsShift ==
    ASSUME NEW s \in Seq(Keys), NEW t \in Seq(Keys), NEW p \in 1..Len(s), Len(t) = Len(s) - 1,
           \A n \in 1..Len(t) : t[n] = IF n < p THEN s[n] ELSE s[n + 1]
    PROVE  Sums(t)[Len(t)] = Sums(s)[Len(s)] - SizeOf[s[p]]
  <1> DEFINE S == {n \in Nat : p - 1 <= n /\ n <= Len(t) =>
                                   Sums(t)[n] = Sums(s)[n + 1] - SizeOf[s[p]]}
  <1>0. /\ Len(t) \in Nat /\ Len(s) \in Nat /\ \A n \in 1..Len(s) : SizeOf[s[n]] \in Nat
        /\ p - 1 \in Nat /\ (p - 1) + 1 = p
    BY CacheAssumption
  <1>1. Sums(t)[p - 1] = Sums(s)[p] - SizeOf[s[p]]
    <2>1. Sums(t)[p - 1] = Sums(s)[p - 1]
      <3>1. p - 1 \in 0..Len(s) /\ p - 1 <= Len(t) /\ \A n \in 1..(p - 1) : t[n] = s[n]
        BY <1>0
      <3> QED
        BY <3>1, SumsAgree
    <2>2. Sums(s)[p] = Sums(s)[p - 1] + SizeOf[s[p]]
      BY SumsAre
    <2>3. Sums(s)[p - 1] \in Nat
      BY <1>0, SumsNat
    <2> QED
      BY <1>0, <2>1, <2>2, <2>3
  <1>2. 0 \in S
    <2>1. p - 1 <= 0 => p = 1
      OBVIOUS
    <2> QED
      BY <1>0, <1>1, <2>1
  <1>3. ASSUME NEW n \in Nat, n \in S PROVE n + 1 \in S
    <2>1. SUFFICES ASSUME p - 1 <= n + 1, n + 1 <= Len(t)
                   PROVE  Sums(t)[n + 1] = Sums(s)[n + 2] - SizeOf[s[p]]
      OBVIOUS
    <2>2. CASE p - 1 = n + 1
      BY <1>0, <1>1, <2>2
    <2>3. CASE p - 1 <= n
      <3>1. /\ n + 1 \in 1..Len(t) /\ n + 2 \in 1..Len(s) /\ (n + 1) - 1 = n /\ (n + 2) - 1 = n + 1
            /\ ~(n + 1 < p) /\ (n + 1) + 1 = n + 2
        BY <1>0, <2>1, <2>3
      <3>2. t[n + 1] = s[n + 2]
        BY <3>1
      <3>3. Sums(t)[n] = Sums(s)[n + 1] - SizeOf[s[p]]
        BY <1>3, <2>1, <2>3
      <3>4. Sums(t)[n + 1] = Sums(t)[n] + SizeOf[s[n + 2]]
        BY <3>1, <3>2, SumsAre
      <3>5. Sums(s)[n + 2] = Sums(s)[n + 1] + SizeOf[s[n + 2]]
        BY <3>1, SumsAre
      <3>6. Sums(s)[n + 1] \in Nat /\ SizeOf[s[n + 2]] \in Nat
        BY <1>0, <3>1, SumsNat
      <3> QED
        BY <1>0, <3>3, <3>4, <3>5, <3>6
    <2> QED
      BY <1>0, <2>1, <2>2, <2>3
  <1> HIDE DEF S
  <1>4. Nat \subseteq S
    BY <1>2, <1>3, Induction
  <1>5. p - 1 <= Len(t) /\ Len(t) + 1 = Len(s)
    BY <1>0
  <1> QED
    BY <1>0, <1>4, <1>5 DEF S

\* What a deletion and an insertion do to the rows.
LEMMA DeletedRows ==
    ASSUME rows \in Seq(Keys), NEW k
    PROVE  /\ Deleted(k) \in Seq(Keys)
           /\ Sums(Deleted(k))[Len(Deleted(k))] \in Nat
           /\ HasRow(k) => Sums(Deleted(k))[Len(Deleted(k))] = Bytes - SizeOf[k]
           /\ ~HasRow(k) => Sums(Deleted(k))[Len(Deleted(k))] = Bytes
           /\ HasRow(k) => k \in Keys
  <1>1. CASE HasRow(k)
    <2> DEFINE p == CHOOSE i \in DOMAIN rows : rows[i] = k
               t == SubSeq(rows, 1, p - 1) \o SubSeq(rows, p + 1, Len(rows))
    <2>1. p \in 1..Len(rows) /\ rows[p] = k
      BY <1>1 DEF HasRow
    <2> HIDE DEF p
    <2>2. /\ t \in Seq(Keys) /\ Len(t) = Len(rows) - 1
          /\ \A n \in 1..Len(t) : t[n] = IF n < p THEN rows[n] ELSE rows[n + 1]
      <3> DEFINE a == SubSeq(rows, 1, p - 1)
                 b == SubSeq(rows, p + 1, Len(rows))
      <3>1. a \in Seq(Keys) /\ Len(a) = p - 1 /\ \A n \in 1..(p - 1) : a[n] = rows[n]
        BY <2>1
      <3>2. /\ b \in Seq(Keys) /\ Len(b) = Len(rows) - p
            /\ \A n \in 1..(Len(rows) - p) : b[n] = rows[n + p]
        BY <2>1
      <3>3. t = a \o b
        OBVIOUS
      <3> HIDE DEF a, b, t
      <3>4. t \in Seq(Keys) /\ Len(t) = Len(rows) - 1
        BY <2>1, <3>1, <3>2, <3>3
      <3>5. ASSUME NEW n \in 1..Len(t)
            PROVE  t[n] = IF n < p THEN rows[n] ELSE rows[n + 1]
        <4>1. CASE n < p
          BY <2>1, <3>1, <3>2, <3>3, <3>4, <4>1
        <4>2. CASE ~(n < p)
          <5>1. n - (p - 1) \in 1..(Len(rows) - p) /\ (n - (p - 1)) + p = n + 1
            BY <2>1, <3>4, <4>2
          <5>2. n \in 1..(Len(a) + Len(b)) /\ ~(n <= Len(a)) /\ n - Len(a) = n - (p - 1)
            BY <2>1, <3>1, <3>2, <3>4, <4>2
          <5>3. t[n] = b[n - Len(a)]
            BY <3>1, <3>2, <3>3, <5>2
          <5> QED
            BY <3>2, <4>2, <5>1, <5>2, <5>3
        <4> QED
          BY <4>1, <4>2
      <3> QED
        BY <3>4, <3>5
    <2> HIDE DEF t
    <2>3. Sums(t)[Len(t)] = Bytes - SizeOf[k]
      BY <2>1, <2>2, SumsShift DEF Bytes
    <2>4. Sums(t)[Len(t)] \in Nat
      BY <2>2, SumsNat
    <2>5. Deleted(k) = t
      BY <1>1 DEF Deleted, t, p
    <2> QED
      BY <1>1, <2>1, <2>2, <2>3, <2>4, <2>5
  <1>2. CASE ~HasRow(k)
    <2>1. Bytes \in Nat
      BY SumsNat DEF Bytes
    <2> QED
      BY <1>2, <2>1 DEF Deleted, Bytes
  <1> QED
    BY <1>1, <1>2

LEMMA TouchedRows ==
    ASSUME rows \in Seq(Keys), NEW k \in Keys
    PROVE  /\ Touched(k) \in Seq(Keys)
           /\ HasRow(k) => Sums(Touched(k))[Len(Touched(k))] = Bytes
  <1> DEFINE s == Deleted(k)
             t == Append(s, k)
  <1>1. s \in Seq(Keys) /\ t \in Seq(Keys) /\ Touched(k) = t
    BY DeletedRows DEF Touched
  <1> HIDE DEF s
  <1>2. Len(t) = Len(s) + 1 /\ t[Len(s) + 1] = k /\ \A n \in 1..Len(s) : t[n] = s[n]
    BY <1>1
  <1> HIDE DEF t
  <1>3. Sums(t)[Len(s)] = Sums(s)[Len(s)]
    <2>1. Len(s) \in 0..Len(s) /\ Len(s) <= Len(t)
      BY <1>1, <1>2
    <2> QED
      BY <1>1, <1>2, <2>1, SumsAgree
  <1>4. Sums(t)[Len(t)] = Sums(t)[Len(s)] + SizeOf[k]
    <2>1. Len(t) \in 1..Len(t) /\ Len(t) - 1 = Len(s)
      BY <1>1, <1>2
    <2>2. Sums(t)[Len(t)] = Sums(t)[Len(t) - 1] + SizeOf[t[Len(t)]]
      BY <1>1, <2>1, SumsAre
    <2> QED
      BY <1>1, <1>2, <2>1, <2>2
  <1>5. Bytes \in Nat /\ SizeOf[k] \in Nat
    BY SumsNat, CacheAssumption DEF Bytes
  <1> QED
    BY <1>1, <1>3, <1>4, <1>5, DeletedRows DEF s

Evicting(k) ==
    \/ flight[k].at \in {"evict", "pick"}
    \/ flight[k].at \in {"unlink", "delete"} /\ flight[k].result # Nothing

\* While the rows exceed the budget some leader is evicting, unless one was cut short.
Accounted ==
    /\ rows \in Seq(Keys) /\ failures \in Nat
    /\ failures = 0 /\ Bytes > Budget => \E k \in Keys : Evicting(k)

\* A step of a leader that neither adds rows nor stops evicting.
LEMMA StaysAccounted ==
    ASSUME Accounted, NEW k \in Keys, rows' \in Seq(Keys), failures' = failures,
           Bytes' > Budget => Bytes > Budget \/ Evicting(k)',
           Bytes' > Budget /\ Evicting(k) => Evicting(k)',
           \A q \in Keys : q # k => flight'[q] = flight[q]
    PROVE  Accounted'
  <1>1. \A q \in Keys : q # k => (Evicting(q)' <=> Evicting(q))
    BY DEF Evicting
  <1> QED
    BY <1>1 DEF Accounted

LEMMA StepAccounted ==
    ASSUME Led, Accounted, NEW k \in Keys, Step(k)
    PROVE  Accounted'
  <1> DEFINE f == flight[k]
             g == flight'[k]
  <1>0. k \in DOMAIN flight /\ DOMAIN f = {"at", "result", "victim"} /\ f.result \in {k, Nothing}
    BY DEF Led, Leads
  <1>1. failures' = failures /\ \A q \in Keys : q # k => flight'[q] = flight[q]
    BY <1>0 DEF Led, Step, LookUpRow, ReadFile, Unlink, DeleteRow, Fetch, Rename, InsertRow, Evict,
           PickVictim, Land, Rest, Go
  <1>2. Bytes \in Nat /\ Budget \in Nat
    BY SumsNat, CacheAssumption DEF Accounted, Bytes
  <1>3. CASE LookUpRow(k) \/ Fetch(k) \/ Rename(k) \/ Land(k)
    <2>1. rows' = rows /\ f.at \in {"row", "fetch", "rename", "done"}
      BY <1>3 DEF LookUpRow, Fetch, Rename, Land, Disk, At
    <2>2. ~Evicting(k) /\ Bytes' = Bytes
      BY <2>1 DEF Evicting, Bytes
    <2> QED
      BY <1>1, <2>1, <2>2, StaysAccounted DEF Accounted
  <1>4. CASE Unlink(k)
    <2>1. rows' = rows /\ f.at = "unlink" /\ g.at = "delete" /\ g.result = f.result
      BY <1>0, <1>4 DEF Unlink, At, Go
    <2>2. (Evicting(k) => Evicting(k)') /\ Bytes' = Bytes
      BY <2>1 DEF Evicting, Bytes
    <2> QED
      BY <1>1, <2>1, <2>2, StaysAccounted DEF Accounted
  <1>5. CASE Evict(k)
    <2>1. rows' = rows /\ f.at = "evict" /\ g.at = IF Bytes <= Budget THEN "done" ELSE "pick"
      BY <1>0, <1>5 DEF Evict, At, Go, Disk
    <2>2. Bytes' = Bytes /\ (Bytes > Budget => Evicting(k)')
      BY <1>2, <2>1 DEF Evicting, Bytes
    <2> QED
      BY <1>1, <2>1, <2>2, StaysAccounted DEF Accounted
  <1>6. CASE PickVictim(k)
    <2>1. rows' = rows /\ f.at = "pick" /\ f.result # Nothing
      BY <1>6, CacheAssumption DEF PickVictim, At, Disk, Led, Leads
    <2>2. rows # << >> => g.at = "unlink" /\ g.result = f.result
      BY <1>0, <1>6 DEF PickVictim
    <2>3. rows = << >> => Bytes = 0
      BY SumsAre DEF Accounted, Bytes
    <2>4. Bytes' = Bytes /\ (Bytes > Budget => Evicting(k)')
      BY <1>2, <2>1, <2>2, <2>3 DEF Evicting, Bytes
    <2> QED
      BY <1>1, <2>1, <2>4, StaysAccounted DEF Accounted
  <1>7. CASE ReadFile(k)
    <2>1. f.at = "file" /\ rows' \in {rows, Touched(k)} /\ (rows' # rows => HasRow(k))
      BY <1>7 DEF ReadFile, At
    <2>2. ~Evicting(k) /\ rows' \in Seq(Keys) /\ Bytes' = Bytes
      BY <2>1, TouchedRows DEF Accounted, Evicting, Bytes
    <2> QED
      BY <1>1, <2>2, StaysAccounted
  <1>8. CASE DeleteRow(k)
    <2>1. /\ f.at = "delete" /\ rows' = Deleted(f.victim)
          /\ g.at = IF f.result = Nothing THEN "fetch" ELSE "evict"
      BY <1>0, <1>8 DEF DeleteRow, At, Go
    <2>2. rows' \in Seq(Keys) /\ Bytes' \in Nat /\ Bytes' <= Bytes
      <3>1. Bytes' = Sums(Deleted(f.victim))[Len(Deleted(f.victim))]
        BY <2>1 DEF Bytes
      <3>2. HasRow(f.victim) => SizeOf[f.victim] \in Nat
        BY DeletedRows, CacheAssumption DEF Accounted
      <3>3. /\ rows' \in Seq(Keys) /\ Bytes' \in Nat
            /\ IF HasRow(f.victim) THEN Bytes' = Bytes - SizeOf[f.victim] ELSE Bytes' = Bytes
        BY <2>1, <3>1, DeletedRows DEF Accounted
      <3> QED
        BY <1>2, <3>2, <3>3
    <2>3. Evicting(k) => Evicting(k)'
      BY <2>1 DEF Evicting
    <2> QED
      BY <1>1, <1>2, <2>2, <2>3, StaysAccounted
  <1>9. CASE InsertRow(k)
    <2>1. rows' = Touched(k) /\ g.at = "evict"
      BY <1>0, <1>9 DEF InsertRow, Go
    <2>2. rows' \in Seq(Keys) /\ Evicting(k)'
      BY <2>1, TouchedRows DEF Accounted, Evicting
    <2> QED
      BY <1>1, <2>2, StaysAccounted
  <1> QED
    BY <1>3, <1>4, <1>5, <1>6, <1>7, <1>8, <1>9 DEF Step

LEMMA NextAccounted ==
    ASSUME Led, Accounted, [CacheNext]_cacheVars
    PROVE  Accounted'
  <1>1. CASE UNCHANGED cacheVars
    BY <1>1 DEF Accounted, cacheVars, Bytes, Evicting
  <1>2. ASSUME failures' = failures + 1, rows' = rows PROVE Accounted'
    BY <1>2 DEF Accounted
  <1>3. CASE CacheCrash
    BY <1>2, <1>3 DEF CacheCrash, Disk
  <1>4. ASSUME NEW k \in Keys, Ask(k) PROVE Accounted'
    <2>1. /\ rows' = rows /\ failures' = failures
          /\ \/ UNCHANGED flight
             \/ flight[k].at = "none" /\ flight' = [flight EXCEPT ![k].at = "row"]
      BY <1>4 DEF Ask, At, Go, Disk
    <2>2. Bytes' = Bytes /\ (Evicting(k) => Evicting(k)')
      BY <2>1 DEF Bytes, Evicting
    <2>3. \A q \in Keys : q # k => flight'[q] = flight[q]
      BY <2>1 DEF Led
    <2> QED
      BY <2>1, <2>2, <2>3, StaysAccounted DEF Accounted
  <1>5. ASSUME NEW k \in Keys, Cancel(k) \/ Damage(k) PROVE Accounted'
    BY <1>2, <1>5 DEF Cancel, Damage, Disk
  <1> QED
    BY <1>1, <1>3, <1>4, <1>5, StepAccounted DEF CacheNext

\* Whenever no leader is at work the rows fit the budget, for any keys, sizes and budget, however
\* the totals, victims and deletions of concurrent evictions cross, unless a leader was cut short
\* (put, evict, remove).
THEOREM BudgetKept == CacheSpec => []WithinBudget
  <1>1. CacheInit => Led /\ Accounted
    <2>1. CacheInit => Led
      BY GroundedLeads DEF CacheInit, Led, AnswersIntact
    <2>2. CacheInit => Accounted
      <3>1. CacheInit => rows \in Seq(Keys) /\ Len(rows) = 0 /\ failures = 0
        BY DEF CacheInit
      <3>2. CacheInit => Bytes = 0
        BY <3>1, SumsAre DEF Bytes
      <3> QED
        BY <3>1, <3>2, CacheAssumption DEF Accounted
    <2> QED
      BY <2>1, <2>2
  <1>2. Led /\ Accounted /\ [CacheNext]_cacheVars => (Led /\ Accounted)'
    BY NextLed, NextAccounted
  <1>3. Accounted => WithinBudget
    <2>1. Accounted => Bytes \in Nat
      BY SumsNat DEF Accounted, Bytes
    <2> QED
      BY <2>1, CacheAssumption DEF Accounted, WithinBudget, Evicting, At
  <1> QED
    BY <1>1, <1>2, <1>3, PTL DEF CacheSpec
============================================================================
