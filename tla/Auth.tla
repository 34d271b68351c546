-------------------------------- MODULE Auth --------------------------------
(***************************************************************************)
(* Password authentication (internal/auth): login, sudo windows, throttled *)
(* attempts, the bounded pool of password hashes, and the rotation of the  *)
(* credentials by a reload or a restart.                                   *)
(*                                                                         *)
(* A credential is a version number, and a password is right when it is    *)
(* that of the version it is compared with.  Sessions remember, as history,*)
(* the credential that authorised them.  Time is counted in units.         *)
(***************************************************************************)
EXTENDS Naturals, FiniteSets

CONSTANTS
    Requests,                        \* requests that may be in flight
    Sources,                         \* user name and address of a login
    HashSlots, Queue,                \* maxConcurrentVerifications, maxQueuedVerifications
    Threshold, MaxTracked,           \* five failures; maxTrackedSources
    WindowLen, LockLen, SudoLen, TTL,
    MaxCred, MaxSession, MaxTime, MaxCuts

\* Of service.go: five failures, a window of ten minutes, a lockout of fifteen.
ASSUME ThrottleAssumption ==
    /\ {HashSlots, Queue, WindowLen, LockLen} \subseteq Nat
    /\ Threshold \in Nat \ {0} /\ MaxTracked \in Nat \ {0} /\ LockLen > WindowLen

VARIABLES
    now,
    config,      \* the credential the operator has configured
    users,       \* the credential of the users row
    params,      \* the credential in memory
    up,          \* the process serves; otherwise New is between its statements or has not run
    rotating,    \* Reconfigure waits for, or holds, configMu
    revoke,      \* UPDATE users is done and DELETE sessions is not
    logins,      \* the sessions table
    issued,      \* sessions ever created
    sudo,        \* sudoUntil
    attempts,    \* the throttle
    req,         \* the requests
    cuts,        \* crashes and storage errors so far
    stale        \* history: a rotation was cut short between its two statements

authVars == <<now, config, users, params, up, rotating, revoke, logins, issued, sudo,
              attempts, req, cuts, stale>>
clocks == <<now, config>>
service == <<users, params, up, rotating, revoke, cuts, stale>>

NoRequest == [at |-> "none"]
Ids == 1..MaxSession
Without(f, ids) == [x \in DOMAIN f \ ids |-> f[x]]
With(f, x, v) == [y \in DOMAIN f \cup {x} |-> IF y = x THEN v ELSE f[y]]
NoEntries == [x \in {} |-> 0]

AuthInit ==
    /\ now = 0 /\ config = 0 /\ users = 0 /\ params = 0
    /\ up = TRUE /\ rotating = FALSE /\ revoke = FALSE
    /\ logins = NoEntries /\ issued = 0 /\ sudo = NoEntries /\ attempts = NoEntries
    /\ req = [r \in Requests |-> NoRequest]
    /\ cuts = 0 /\ stale = FALSE

-----------------------------------------------------------------------------
(* The throttle and the pool *)

Verifying == {r \in Requests : req[r].at \in {"queued", "hashing"}}
Hashing == {r \in Requests : req[r].at = "hashing"}

\* The mutant locks nobody out.
IsLockedNever(key) == FALSE

IsLocked(key) == key \in DOMAIN attempts /\ now < attempts[key].until

\* The mutant evicts nothing.
NoEviction(t) == attempts

\* evictLocked: expired entries go first, then the one with the oldest window.
Evicted(t) ==
    IF Cardinality(DOMAIN attempts) < MaxTracked THEN attempts
    ELSE LET expired == {k \in DOMAIN attempts :
                            t - attempts[k].start >= WindowLen /\ t >= attempts[k].until}
             left == DOMAIN attempts \ expired
             oldest == {k \in left : \A l \in left : attempts[k].start <= attempts[l].start}
         IN  IF Cardinality(left) < MaxTracked THEN Without(attempts, expired)
             ELSE Without(attempts, {CHOOSE k \in oldest : TRUE})

\* recordFailure, with the time the request began.
RecordFailure(key, t) ==
    LET tracked == IF key \in DOMAIN attempts THEN attempts ELSE Evicted(t)
        a == IF key \in DOMAIN tracked /\ t - tracked[key].start < WindowLen THEN tracked[key]
             ELSE [count |-> 0, start |-> t, until |-> 0]
    IN  attempts' = With(tracked, key,
            [a EXCEPT !.count = @ + 1,
                      !.until = IF a.count + 1 >= Threshold THEN t + LockLen ELSE @])

\* Login and OpenSudo from the lock on configMu to their place in the pool: refused while
\* the source is locked out or the pool is full, before anything is hashed.
Enter(r, key, session, password) ==
    /\ up /\ ~rotating
    /\ req' = [req EXCEPT ![r] =
          IF IsLocked(key) \/ Cardinality(Verifying) >= HashSlots + Queue THEN NoRequest
          ELSE [at |-> "queued", key |-> key, session |-> session, password |-> password,
                cred |-> params, t |-> now]]

BeginLogin(r, source, password) ==
    /\ req[r].at = "none"
    /\ Enter(r, source, 0, password)
    /\ UNCHANGED <<clocks, service, logins, issued, sudo, attempts>>

Alive(id) == id \in DOMAIN logins /\ now < logins[id].expires

\* OpenSudo authenticates the session before it takes the lock.
NameSession(r, id, password) ==
    /\ up /\ req[r].at = "none" /\ Alive(id)
    /\ req' = [req EXCEPT ![r] = [at |-> "named", session |-> id, password |-> password]]
    /\ UNCHANGED <<clocks, service, logins, issued, sudo, attempts>>

BeginSudo(r) ==
    /\ req[r].at = "named"
    /\ Enter(r, <<"sudo", req[r].session>>, req[r].session, req[r].password)
    /\ UNCHANGED <<clocks, service, logins, issued, sudo, attempts>>

TakeSlot(r) ==
    /\ req[r].at = "queued" /\ Cardinality(Hashing) < HashSlots
    /\ req' = [req EXCEPT ![r].at = "hashing"]
    /\ UNCHANGED <<clocks, service, logins, issued, sudo, attempts>>

Fails(r) ==
    /\ req[r].at = "hashing" /\ req[r].password # req[r].cred
    /\ RecordFailure(req[r].key, req[r].t)
    /\ req' = [req EXCEPT ![r] = NoRequest]
    /\ UNCHANGED <<clocks, service, logins, issued, sudo>>

\* A login that succeeds inserts its session and prunes the expired ones.
LogsIn(r) ==
    /\ req[r].at = "hashing" /\ req[r].password = req[r].cred
    /\ req[r].session = 0 /\ issued < MaxSession
    /\ issued' = issued + 1
    /\ LET all == With(logins, issued + 1, [expires |-> req[r].t + TTL, cred |-> req[r].cred])
       IN  logins' = Without(all, {id \in DOMAIN all : all[id].expires <= now})
    /\ attempts' = Without(attempts, {req[r].key})
    /\ req' = [req EXCEPT ![r] = NoRequest]
    /\ UNCHANGED <<clocks, service, sudo>>

OpensSudo(r) ==
    /\ req[r].at = "hashing" /\ req[r].password = req[r].cred /\ req[r].session # 0
    /\ sudo' = With(sudo, req[r].session, [until |-> now + SudoLen, cred |-> req[r].cred])
    /\ attempts' = Without(attempts, {req[r].key})
    /\ req' = [req EXCEPT ![r] = NoRequest]
    /\ UNCHANGED <<clocks, service, logins, issued>>

-----------------------------------------------------------------------------
(* Requests with a session *)

\* Authenticate deletes a session it finds expired.
Authenticate(id) ==
    /\ up /\ id \in DOMAIN logins /\ ~Alive(id)
    /\ logins' = Without(logins, {id})
    /\ UNCHANGED <<clocks, service, issued, sudo, attempts, req>>

Logout(id) ==
    /\ up /\ Alive(id)
    /\ logins' = Without(logins, {id})
    /\ sudo' = Without(sudo, {id})
    /\ UNCHANGED <<clocks, service, issued, attempts, req>>

\* AllowsPrivileged deletes a window it finds over.
AllowsPrivileged(id) ==
    /\ up /\ id \in DOMAIN sudo /\ now >= sudo[id].until
    /\ sudo' = Without(sudo, {id})
    /\ UNCHANGED <<clocks, service, logins, issued, attempts, req>>

-----------------------------------------------------------------------------
(* Rotation *)

\* Reconfigure asks for configMu; no request may begin to hold it from here on.
BeginReconfigure ==
    /\ up /\ ~rotating /\ rotating' = TRUE
    /\ UNCHANGED <<clocks, users, params, up, revoke, cuts, stale, logins, issued, sudo,
                   attempts, req>>

\* The mutant does not wait for the requests that hold configMu.
ReconfigureAtOnce ==
    /\ up /\ rotating /\ ~revoke
    /\ users' = config /\ params' = config
    /\ revoke' = (users # config) /\ rotating' = (users # config)
    /\ UNCHANGED <<clocks, up, cuts, stale, logins, issued, sudo, attempts, req>>

\* It has the lock when every request has let go of it: the row is compared and updated.
Reconfigure ==
    /\ up /\ rotating /\ ~revoke /\ Verifying = {}
    /\ users' = config /\ params' = config
    /\ revoke' = (users # config) /\ rotating' = (users # config)
    /\ UNCHANGED <<clocks, up, cuts, stale, logins, issued, sudo, attempts, req>>

\* The mutant leaves the sudo windows open.
RevokeSessionsOnly ==
    /\ revoke /\ revoke' = FALSE /\ rotating' = FALSE
    /\ logins' = NoEntries /\ up' = TRUE
    /\ UNCHANGED <<clocks, users, params, cuts, stale, issued, sudo, attempts, req>>

\* revokeEverythingLocked, or the same statement in New, which has no windows to clear.
Revoke ==
    /\ revoke /\ revoke' = FALSE /\ rotating' = FALSE
    /\ logins' = NoEntries /\ sudo' = NoEntries /\ up' = TRUE
    /\ UNCHANGED <<clocks, users, params, cuts, stale, issued, attempts, req>>

\* DELETE FROM sessions fails: Reconfigure returns the error with the new credentials in
\* place.  Nobody runs that statement again.
RevokeFails ==
    /\ up /\ revoke /\ cuts < MaxCuts
    /\ cuts' = cuts + 1 /\ stale' = TRUE
    /\ revoke' = FALSE /\ rotating' = FALSE
    /\ UNCHANGED <<clocks, users, params, up, logins, issued, sudo, attempts, req>>

\* The process ends at any point; the tables remain.
Crash ==
    /\ cuts < MaxCuts /\ cuts' = cuts + 1
    /\ stale' = (stale \/ revoke)
    /\ up' = FALSE /\ rotating' = FALSE /\ revoke' = FALSE
    /\ sudo' = NoEntries /\ attempts' = NoEntries /\ req' = [r \in Requests |-> NoRequest]
    /\ UNCHANGED <<clocks, users, params, logins, issued>>

\* New: the row is compared with the configuration and updated.
New ==
    /\ ~up /\ ~revoke
    /\ users' = config /\ params' = config
    /\ revoke' = (users # config) /\ up' = (users = config)
    /\ UNCHANGED <<clocks, rotating, cuts, stale, logins, issued, sudo, attempts, req>>

\* The operator writes new credentials into the configuration.
Rotate ==
    /\ config < MaxCred /\ config' = config + 1
    /\ UNCHANGED <<now, service, logins, issued, sudo, attempts, req>>

\* A unit is five minutes, the length of a sudo window: a verification that began in one
\* unit is over before the end of the next.
Tick ==
    /\ now < MaxTime /\ now' = now + 1
    /\ \A r \in Verifying : req[r].t = now
    /\ UNCHANGED <<config, service, logins, issued, sudo, attempts, req>>

AuthNext ==
    \/ \E r \in Requests, k \in Sources, p \in 0..MaxCred : BeginLogin(r, k, p)
    \/ \E r \in Requests, id \in Ids, p \in 0..MaxCred : NameSession(r, id, p)
    \/ \E r \in Requests : BeginSudo(r) \/ TakeSlot(r) \/ Fails(r) \/ LogsIn(r) \/ OpensSudo(r)
    \/ \E id \in Ids : Authenticate(id) \/ Logout(id) \/ AllowsPrivileged(id)
    \/ BeginReconfigure \/ Reconfigure \/ Revoke \/ RevokeFails \/ Crash \/ New
    \/ Rotate \/ Tick

AuthSpec == AuthInit /\ [][AuthNext]_authVars

-----------------------------------------------------------------------------
(* What authentication promises *)

\* While the service answers, every session and every sudo window was authorised by the
\* credentials in force, however logins and sudo requests overlap a rotation (configMu),
\* unless a rotation was cut short between its two statements.
Authorised ==
    up /\ ~stale /\ ~revoke =>
        /\ \A id \in DOMAIN logins : logins[id].cred = params
        /\ \A id \in DOMAIN sudo : sudo[id].cred = params

\* A source never gets more wrong guesses counted in one window than the threshold and
\* the requests that were already in the pool when it was reached: the lockout bounds the
\* hashes and is checked before them.
GuessesBounded ==
    \A k \in DOMAIN attempts : attempts[k].count <= Threshold - 1 + HashSlots + Queue

\* The throttle's table never outgrows its ceiling, however many sources fail at once.
TableBounded == Cardinality(DOMAIN attempts) <= MaxTracked

\* The throttle does its work within bounds: GuessesBounded and TableBounded.
ThrottleBounds == GuessesBounded /\ TableBounded
=============================================================================
