------------------------------ MODULE Approval ------------------------------
(***************************************************************************)
(* The approval of integrations: the digest-bound transaction of           *)
(* internal/integrations (Approve, ComputeDiff, Evaluate, the limits and   *)
(* the identity of a route), the REST handlers that run it under approveMu *)
(* (internal/api/integrations.go) and `veduta integration approve`         *)
(* (cmd/veduta/integration.go), another process that rewrites the same     *)
(* veduta.lock.yaml.  A manifest may be edited at any moment.              *)
(*                                                                         *)
(* A manifest, a route and a limit are those of Grants.                    *)
(***************************************************************************)
EXTENDS Grants

CONSTANTS
    Integrations,   \* the integrations the configuration declares
    Editions,       \* the manifests an integration may be edited to
    Manifest,       \* what each version asks for: caps, routes, limit
    Clients,        \* concurrent requests of the REST API
    Offers,         \* the grants a client may send: caps, routes, limit
    MaxEdits        \* bound on the edits of manifests

\* What a manifest asks for and a client offers: texts, routes and one limit (see Grants).
Optional(S) == {<< >>} \cup [1..1 -> S]
Route == [name : STRING, keys : Optional(SUBSET STRING), maxKB : Nat]
Grant == [caps : SUBSET STRING, routes : SUBSET Route, limit : Optional(Nat)]

ASSUME ApprovalAssumption ==
    1 \in Editions /\ Manifest \in [Editions -> Grant] /\ Offers \subseteq Grant

VARIABLES
    installed,  \* the version of the manifest on disk, by integration
    edits,      \* edits made so far
    lock,       \* veduta.lock.yaml: the entry of each approved integration
    client,     \* where each REST request is, and what it has read
    holder,     \* the requests that hold approveMu: at most one
    cli,        \* the command: where it is, and what it has read
    given,      \* the last entry an approver was told is approved
    raced       \* the command and the server rewrote the file across each other

approvalVars == <<installed, edits, lock, client, holder, cli, given, raced>>

-----------------------------------------------------------------------------
(* The transaction.  NoEntry stands for an integration without a record. *)

NoEntry == [version |-> 0, caps |-> {}, routes |-> {}, override |-> << >>, limit |-> 0,
            shown |-> 0]

\* What ComputeDiff reports, but for the flag on routes that carry a body.
ComputeDiff(m, entry) ==
    LET asked == identitySet(m.routes, requested(m.limit))
        held  == identitySet(entry.routes, entry.limit)
    IN  [added |-> asked \ held, removed |-> held \ asked, caps |-> m.caps \ entry.caps,
         raised |-> requested(m.limit) > entry.limit]

Empty(diff) == diff.added = {} /\ diff.removed = {} /\ diff.caps = {} /\ ~diff.raised

Evaluate(version, entry) ==
    IF entry = NoEntry THEN "unapproved"
    ELSE IF entry.version # version THEN "changed" ELSE "approved"

\* The mutant does not compare the digests.
AcceptsAnyDigest(version, expected, grants) == Within(Manifest[version], grants)

\* Approve refuses a manifest that is not the reviewed one and a grant wider
\* than the request.  The digest of a manifest is its version.
Accepts(version, expected, grants) == version = expected /\ Within(Manifest[version], grants)

\* The record Approve builds, as the lock file keeps it.  `shown` is the
\* version the approver had in front of them.
Record(version, grants, shown) ==
    [version |-> version, caps |-> grants.caps, routes |-> {Written(r) : r \in grants.routes},
     override |-> grants.limit,
     limit |-> effectiveLimit(Manifest[version].limit, grants.limit), shown |-> shown]

-----------------------------------------------------------------------------
(* The REST handlers. *)

Resting == [at |-> "idle"]

ApprovalInit ==
    /\ installed = [i \in Integrations |-> 1]
    /\ edits = 0
    /\ lock = [i \in Integrations |-> NoEntry]
    /\ client = [c \in Clients |-> Resting]
    /\ holder = {}
    /\ cli = Resting
    /\ given = [i \in Integrations |-> NoEntry]
    /\ raced = FALSE

\* GET .../approval: the client sees a digest and decides what to grant.
Preview(c, i) ==
    /\ client[c] = Resting
    /\ \E grants \in Offers :
           client' = [client EXCEPT ![c] = [at |-> "reviewed", id |-> i,
                                            shown |-> installed[i], grants |-> grants]]
    /\ UNCHANGED <<installed, edits, lock, holder, cli, given, raced>>

\* The mutant of approveMu lets every request through.
NoLock(c) == holder' = holder \cup {c}
Lock(c) == holder = {} /\ holder' = {c}

\* POST .../approve up to Approve: a refusal leaves the file alone.
ApproveStep(c) ==
    /\ client[c].at = "reviewed"
    /\ LET q == client[c]
           v == installed[q.id]
       IN  IF Accepts(v, q.shown, q.grants)
           THEN /\ Lock(c)
                /\ client' = [client EXCEPT ![c] = [at |-> "approved", id |-> q.id,
                                                    entry |-> Record(v, q.grants, q.shown)]]
           ELSE /\ holder = {}
                /\ client' = [client EXCEPT ![c] = Resting]
                /\ UNCHANGED holder
    /\ UNCHANGED <<installed, edits, lock, cli, given, raced>>

\* ReadLock of the whole document, again, before it is changed.
ReadLock(c) ==
    /\ client[c].at = "approved"
    /\ client' = [client EXCEPT ![c] = [at |-> "writing", id |-> @.id, entry |-> @.entry,
                                        doc |-> lock]]
    /\ UNCHANGED <<installed, edits, lock, holder, cli, given, raced>>

\* WriteLock replaces the document by a rename, or fails and leaves it alone.
WriteLock(c) ==
    /\ client[c].at = "writing"
    /\ LET q == client[c]
       IN  \/ /\ lock' = [q.doc EXCEPT ![q.id] = q.entry]
              /\ given' = [given EXCEPT ![q.id] = q.entry]
              /\ raced' = (raced \/ cli.at = "prompt")
           \/ UNCHANGED <<lock, given, raced>>
    /\ client' = [client EXCEPT ![c] = Resting]
    /\ holder' = holder \ {c}
    /\ UNCHANGED <<installed, edits, cli>>

-----------------------------------------------------------------------------
(* The command.  It reads the document once, before the prompt. *)

CliStart(i) ==
    /\ cli = Resting
    /\ LET v == installed[i]
           nothing == Empty(ComputeDiff(Manifest[v], lock[i]))
       IN  cli' = [at |-> IF nothing THEN "returned" ELSE "prompt",
                   id |-> i, version |-> v, doc |-> lock]
    /\ UNCHANGED <<installed, edits, lock, client, holder, given, raced>>

\* The administrator agrees: everything the manifest asked for is granted.
CliConfirm ==
    /\ cli.at = "prompt"
    /\ LET entry == Record(cli.version, Manifest[cli.version], cli.version)
       IN  /\ lock' = [cli.doc EXCEPT ![cli.id] = entry]
           /\ given' = [given EXCEPT ![cli.id] = entry]
    /\ raced' = (raced \/ \E c \in Clients : client[c].at = "writing")
    /\ cli' = [cli EXCEPT !.at = "returned"]
    /\ UNCHANGED <<installed, edits, client, holder>>

\* The command ends: the administrator declined, the write failed, or it had
\* returned.
CliEnd ==
    /\ cli # Resting
    /\ cli' = Resting
    /\ UNCHANGED <<installed, edits, lock, client, holder, given, raced>>

\* An integration is upgraded, or its manifest edited.
ReplaceManifest(i, v) ==
    /\ edits < MaxEdits
    /\ installed[i] # v
    /\ installed' = [installed EXCEPT ![i] = v]
    /\ edits' = edits + 1
    /\ UNCHANGED <<lock, client, holder, cli, given, raced>>

ApprovalNext ==
    \/ \E c \in Clients, i \in Integrations : Preview(c, i)
    \/ \E c \in Clients : ApproveStep(c) \/ ReadLock(c) \/ WriteLock(c)
    \/ \E i \in Integrations : CliStart(i)
    \/ CliConfirm
    \/ CliEnd
    \/ \E i \in Integrations, v \in Editions : ReplaceManifest(i, v)

ApprovalSpec == ApprovalInit /\ [][ApprovalNext]_approvalVars

-----------------------------------------------------------------------------
(* Properties. *)

\* Approved is what was reviewed: whatever the order of edits, reviews and
\* writes, a record in the lock file is for the very manifest its approver
\* was shown, and grants no capability, route or limit that manifest does not
\* ask for.  A limit above its default is there only because both sides name
\* it (approve.go: a race cannot widen the grant).  Routes are compared here
\* without their queryKeys: see LockKeepsRoutes.
NeverWidened ==
    \A i \in Integrations : lock[i] # NoEntry =>
        LET e == lock[i]
            m == Manifest[e.version]
        IN  /\ e.version = e.shown
            /\ e.caps \subseteq m.caps
            /\ {r.name : r \in e.routes} \subseteq {r.name : r \in m.routes}
            /\ e.limit <= requested(m.limit)
            /\ e.limit > DefaultKB => e.override # << >> /\ e.limit <= e.override[1]

\* No approval is lost: an entry that an approver was told is in the file is
\* there until another approval of the same integration replaces it, unless
\* the command and the server crossed, the gap Server.approveMu records.
NothingDropped == ~raced => lock = given

\* A record keeps the authority that was reviewed: every route in it is, by
\* its identity, one its manifest asks for (route.go: nil queryKeys and an
\* empty list must never compare equal).
LockKeepsRoutes ==
    \A i \in Integrations : lock[i] # NoEntry =>
        LET m == Manifest[lock[i].version]
        IN  \A r \in lock[i].routes : \E q \in m.routes : q.name = r.name /\ q.keys = r.keys

\* `veduta integration approve` ends with the manifest it reported on approved:
\* the command says so in both of its messages.
CommandApproves ==
    [][cli.at # "returned" /\ cli'.at = "returned"
           => Evaluate(cli'.version, lock'[cli'.id]) = "approved"]_approvalVars
=============================================================================
