----------------------------- MODULE GrantProofs -----------------------------
(***************************************************************************)
(* What an integration may ask of an upstream: its approval by any number  *)
(* of clients and the command (Approval).  For arbitrary documents and     *)
(* texts of rules: the two readings of them (Contracts).  For paths        *)
(* of any length, of segments of any length, over any symbols: what is     *)
(* joined onto a base path stays below it, the greedy search of            *)
(* matchSegment decides exactly the globs, and what the manifest loader    *)
(* finds covered the broker allows (Routes).                               *)
(*                                                                         *)
(* The recursive functions (the spans of a text, the parts of a pattern,   *)
(* the ends of the parts in a segment, the resolution of a path) each      *)
(* satisfy a rule, exist by induction on the length of their argument, and *)
(* unfold; what they compute follows by a second induction.                *)
(***************************************************************************)
EXTENDS Approval, Contracts, Routes, WellFoundedInduction, TLAPS

\* Induction, for a set of numbers rather than for a predicate.
LEMMA Induction ==
    ASSUME NEW S, 0 \in S, \A n \in Nat : n \in S => n + 1 \in S
    PROVE  Nat \subseteq S
  <1> DEFINE T == Nat \ S
  <1>1. SUFFICES ASSUME T # {} PROVE FALSE
    OBVIOUS
  <1>2. PICK n \in T : \A m \in T : ~(<<m, n>> \in OpToRel(<, Nat))
    BY Zenon, <1>1, WFMin, NatLessThanWellFounded
  <1>3. n \in Nat /\ n # 0 /\ n - 1 \in Nat /\ n - 1 \notin S
    <2>1. n \in Nat /\ n # 0
      OBVIOUS
    <2>2. n - 1 \in Nat /\ (n - 1) + 1 = n
      BY <2>1
    <2> QED
      BY <2>1, <2>2
  <1>4. <<n - 1, n>> \in Nat \X Nat /\ <<n - 1, n>>[1] < <<n - 1, n>>[2]
    BY <1>3
  <1> QED
    BY <1>2, <1>3, <1>4 DEF OpToRel

-----------------------------------------------------------------------------
(***************************************************************************)
(* The approval transaction: what is recorded is what was reviewed, and    *)
(* approveMu keeps what was recorded.                                      *)
(***************************************************************************)

\* A record that NeverWidened accepts, wherever it is on its way to the file.
Reviewed(e) ==
    LET m == Manifest[e.version]
    IN  /\ e.version = e.shown
        /\ e.caps \subseteq m.caps
        /\ {r.name : r \in e.routes} \subseteq {r.name : r \in m.routes}
        /\ e.limit <= requested(m.limit)
        /\ e.limit > DefaultKB => e.override # << >> /\ e.limit <= e.override[1]

Document(doc) ==
    /\ DOMAIN doc = Integrations
    /\ \A i \in Integrations : doc[i] # NoEntry => Reviewed(doc[i])

\* What a request and the command carry between their steps.
Carried ==
    /\ installed \in [Integrations -> Editions]
    /\ DOMAIN client = Clients
    /\ \A c \in Clients :
          /\ client[c].at \in {"idle", "reviewed", "approved", "writing"}
          /\ client[c].at # "idle" => client[c].id \in Integrations
          /\ client[c].at = "reviewed" => client[c].grants \in Offers
          /\ client[c].at \in {"approved", "writing"} => Reviewed(client[c].entry)
          /\ client[c].at = "writing" => Document(client[c].doc)
    /\ cli.at = "prompt" =>
          cli.id \in Integrations /\ cli.version \in Editions /\ Document(cli.doc)

\* approveMu: one request at a time is between its checks and its write.
Exclusive == \A c \in Clients : client[c].at \in {"approved", "writing"} => holder = {c}

\* Until the command and the server cross, what is about to be rewritten is what
\* is in the file.
Fresh ==
    ~raced => /\ lock = given
              /\ \A c \in Clients : client[c].at = "writing" => client[c].doc = lock
              /\ cli.at = "prompt" => cli.doc = lock

Recorded == raced \in BOOLEAN /\ Document(lock) /\ Carried /\ Exclusive /\ Fresh

-----------------------------------------------------------------------------
(* Records *)

LEMMA LeastOfTwo ==
    ASSUME NEW a \in Nat, NEW b \in Nat
    PROVE  Least({a, b}) \in Nat /\ Least({a, b}) <= a /\ Least({a, b}) <= b
  <1>1. \E x \in {a, b} : \A y \in {a, b} : x <= y
    OBVIOUS
  <1> QED
    BY <1>1 DEF Least

LEMMA Requested ==
    ASSUME NEW l \in Optional(Nat)
    PROVE  /\ requested(l) \in Nat
           /\ l = << >> => requested(l) <= DefaultKB
           /\ l # << >> => requested(l) <= l[1]
  <1> DEFINE n == IF l = << >> THEN DefaultKB ELSE l[1]
  <1>1. n \in Nat
    BY ApprovalAssumption, LimitsAssumption DEF Optional
  <1>2. requested(l) = Least({MaxKB, n})
    BY DEF requested
  <1> QED
    BY <1>1, <1>2, LeastOfTwo, ApprovalAssumption, LimitsAssumption

\* A record for the manifest that was shown, with capabilities and routes it asks for.
LEMMA RecordReviewed ==
    ASSUME NEW v \in Editions, NEW g \in Grant,
           g.caps \subseteq Manifest[v].caps,
           \A r \in g.routes : \E q \in Manifest[v].routes : q.name = r.name
    PROVE  Reviewed(Record(v, g, v))
  <1> DEFINE e == Record(v, g, v)
             m == Manifest[v]
  <1>1. m \in Grant /\ m.limit \in Optional(Nat) /\ g.limit \in Optional(Nat) /\ g.routes \subseteq Route
    BY ApprovalAssumption, LimitsAssumption DEF Grant
  <1>2. /\ e.version = v /\ e.shown = v /\ e.caps = g.caps
        /\ e.routes = {Written(r) : r \in g.routes} /\ e.override = g.limit
        /\ e.limit = effectiveLimit(m.limit, g.limit)
    BY DEF Record
  <1>3. \A r \in Route : Written(r).name = r.name
    BY DEF Written, Route
  <1>4. {r.name : r \in e.routes} \subseteq {r.name : r \in m.routes}
    BY <1>1, <1>2, <1>3
  <1>5. e.limit \in Nat /\ e.limit <= requested(m.limit) /\ e.limit <= requested(g.limit)
    BY <1>1, <1>2, Requested, LeastOfTwo DEF effectiveLimit
  <1>6. e.limit > DefaultKB => e.override # << >> /\ e.limit <= e.override[1]
    <2>1. g.limit # << >> => g.limit[1] \in Nat
      BY <1>1 DEF Optional
    <2> QED
      BY <1>1, <1>2, <1>5, <2>1, Requested, ApprovalAssumption, LimitsAssumption
  <1> HIDE DEF e
  <1> QED
    BY <1>2, <1>4, <1>5, <1>6 DEF Reviewed, e

\* Approve's test is enough: what is within the request has its capabilities and names.
LEMMA WithinNames ==
    ASSUME NEW m, NEW g, Within(m, g)
    PROVE  /\ g.caps \subseteq m.caps
           /\ \A r \in g.routes : \E q \in m.routes : q.name = r.name
  <1> DEFINE kb == requested(m.limit)
  <1>1. \A r \in g.routes : identity(r, kb) \in identitySet(m.routes, kb)
    BY Zenon DEF Within, identitySet
  <1>2. \A r \in g.routes : \E q \in m.routes : identity(r, kb) = identity(q, kb)
    BY <1>1 DEF identitySet
  <1>3. \A r : identity(r, kb).name = r.name
    BY DEF identity
  <1> QED
    BY <1>2, <1>3 DEF Within

-----------------------------------------------------------------------------
(* Steps *)

LEMMA InitRecorded ==
    ASSUME ApprovalInit
    PROVE  Recorded
  BY Zenon, ApprovalAssumption, LimitsAssumption DEF ApprovalInit, Recorded, Document, Carried, Exclusive, Fresh, Resting

LEMMA ApproveRecorded ==
    ASSUME Recorded, NEW c \in Clients, ApproveStep(c)
    PROVE  Recorded'
  <1> DEFINE q == client[c]
             v == installed[q.id]
  <1>1. q.at = "reviewed" /\ q.id \in Integrations /\ q.grants \in Grant /\ v \in Editions
    BY ApprovalAssumption, LimitsAssumption DEF Recorded, Carried, ApproveStep
  <1>2. CASE Accepts(v, q.shown, q.grants)
    <2> DEFINE e == Record(v, q.grants, q.shown)
    <2>1. Reviewed(e)
      BY <1>1, <1>2, WithinNames, RecordReviewed DEF Accepts
    <2> HIDE DEF e
    <2>2. /\ holder = {} /\ holder' = {c}
          /\ client' = [client EXCEPT ![c] = [at |-> "approved", id |-> q.id, entry |-> e]]
      BY <1>2 DEF ApproveStep, Lock, e
    <2>3. Exclusive'
      BY <2>2 DEF Recorded, Exclusive, Carried
    <2>4. Carried'
      BY <1>1, <2>1, <2>2 DEF Recorded, Carried, ApproveStep
    <2> QED
      BY <2>2, <2>3, <2>4 DEF Recorded, Fresh, Carried, ApproveStep
  <1>3. CASE ~Accepts(v, q.shown, q.grants)
    <2>1. client' = [client EXCEPT ![c] = Resting] /\ UNCHANGED holder
      BY <1>3 DEF ApproveStep
    <2> QED
      BY <2>1 DEF Recorded, Fresh, Carried, Exclusive, ApproveStep, Resting
  <1> QED
    BY <1>2, <1>3

LEMMA ReadRecorded ==
    ASSUME Recorded, NEW c \in Clients,
           ReadLock(c) \/ \E i \in Integrations : Preview(c, i)
    PROVE  Recorded'
  <1>1. UNCHANGED <<installed, lock, holder, cli, given, raced>>
    BY DEF ReadLock, Preview
  <1>2. PICK q :
          /\ client' = [client EXCEPT ![c] = q]
          /\ \/ q.at = "reviewed" /\ q.id \in Integrations /\ q.grants \in Offers
             \/ /\ client[c].at = "approved" /\ q.at = "writing" /\ q.id = client[c].id
                /\ q.entry = client[c].entry /\ q.doc = lock
    <2>1. CASE ReadLock(c)
      <3> WITNESS [at |-> "writing", id |-> client[c].id, entry |-> client[c].entry, doc |-> lock]
      <3> QED
        BY <2>1 DEF ReadLock
    <2>2. ASSUME NEW i \in Integrations, Preview(c, i)
          PROVE  \E q : /\ client' = [client EXCEPT ![c] = q]
                        /\ q.at = "reviewed" /\ q.id \in Integrations /\ q.grants \in Offers
      <3>1. PICK g \in Offers : client' = [client EXCEPT ![c] =
                     [at |-> "reviewed", id |-> i, shown |-> installed[i], grants |-> g]]
        BY Zenon, <2>2 DEF Preview
      <3> WITNESS [at |-> "reviewed", id |-> i, shown |-> installed[i], grants |-> g]
      <3> QED
        BY <3>1
    <2> QED
      BY <2>1, <2>2
  <1>3. Carried'
    BY <1>1, <1>2 DEF Recorded, Carried
  <1>4. Exclusive' /\ Fresh'
    BY <1>1, <1>2 DEF Recorded, Carried, Exclusive, Fresh
  <1> QED
    BY <1>1, <1>3, <1>4 DEF Recorded

\* A rewriting of the file puts one reviewed entry into a document that had only such.
LEMMA Rewritten ==
    ASSUME NEW doc, Document(doc), NEW i \in Integrations, NEW e, Reviewed(e)
    PROVE  Document([doc EXCEPT ![i] = e])
  BY DEF Document

LEMMA WriteRecorded ==
    ASSUME Recorded, NEW c \in Clients, WriteLock(c)
    PROVE  Recorded'
  <1> DEFINE q == client[c]
  <1>1. /\ q.at = "writing" /\ q.id \in Integrations /\ Reviewed(q.entry) /\ Document(q.doc)
        /\ holder = {c}
    BY DEF Recorded, Carried, Exclusive, WriteLock
  <1>2. \A d \in Clients : d # c => client[d].at \notin {"approved", "writing"}
    BY <1>1 DEF Recorded, Exclusive
  <1>3. client' = [client EXCEPT ![c] = Resting] /\ UNCHANGED <<installed, cli>>
    BY DEF WriteLock
  <1>4. Carried' /\ Exclusive'
    BY <1>2, <1>3 DEF Recorded, Carried, Exclusive, Resting
  <1>5. CASE UNCHANGED <<lock, given, raced>>
    <2>1. Fresh'
      BY <1>3, <1>5 DEF Recorded, Carried, Fresh, Resting
    <2> QED
      BY <1>4, <1>5, <2>1 DEF Recorded
  <1>6. CASE /\ lock' = [q.doc EXCEPT ![q.id] = q.entry]
             /\ given' = [given EXCEPT ![q.id] = q.entry]
             /\ raced' = (raced \/ cli.at = "prompt")
    <2>1. Document(lock')
      BY <1>1, <1>6, Rewritten
    <2>2. \A d \in Clients : client'[d].at # "writing"
      BY <1>2, <1>3 DEF Recorded, Carried, Resting
    <2>3. ~raced' => lock' = given'
      BY Zenon, <1>1, <1>6 DEF Recorded, Fresh
    <2>4. Fresh' /\ raced' \in BOOLEAN
      BY Zenon, <1>3, <1>6, <2>2, <2>3 DEF Recorded, Fresh
    <2> QED
      BY <1>4, <2>1, <2>4 DEF Recorded
  <1> QED
    BY <1>5, <1>6 DEF WriteLock

LEMMA ConfirmRecorded ==
    ASSUME Recorded, CliConfirm
    PROVE  Recorded'
  <1> DEFINE e == Record(cli.version, Manifest[cli.version], cli.version)
  <1>1. cli.at = "prompt" /\ cli.id \in Integrations /\ cli.version \in Editions
        /\ Document(cli.doc)
    BY DEF Recorded, Carried, CliConfirm
  <1>2. Reviewed(e)
    <2>1. Manifest[cli.version] \in Grant
      BY <1>1, ApprovalAssumption, LimitsAssumption
    <2> QED
      BY <1>1, <2>1, RecordReviewed
  <1> HIDE DEF e
  <1>3. /\ lock' = [cli.doc EXCEPT ![cli.id] = e]
        /\ given' = [given EXCEPT ![cli.id] = e]
        /\ raced' = (raced \/ \E c \in Clients : client[c].at = "writing")
        /\ cli' = [cli EXCEPT !.at = "returned"]
        /\ UNCHANGED <<installed, client, holder>>
    BY DEF CliConfirm, e
  <1>4. cli'.at # "prompt"
    BY <1>3
  <1>5. Document(lock')
    BY <1>1, <1>2, <1>3, Rewritten
  <1>6. Carried' /\ Exclusive'
    BY <1>3, <1>4 DEF Recorded, Carried, Exclusive
  <1>7. Fresh' /\ raced' \in BOOLEAN
    BY Zenon, <1>1, <1>3, <1>4 DEF Recorded, Fresh
  <1> QED
    BY <1>5, <1>6, <1>7 DEF Recorded

LEMMA NextRecorded ==
    ASSUME Recorded, [ApprovalNext]_approvalVars
    PROVE  Recorded'
  <1>1. ASSUME NEW i \in Integrations, CliStart(i) PROVE Recorded'
    <2>1. /\ UNCHANGED <<installed, lock, client, holder, given, raced>>
          /\ cli'.id = i /\ cli'.version = installed[i] /\ cli'.doc = lock
      BY <1>1 DEF CliStart
    <2> QED
      BY <2>1 DEF Recorded, Carried, Exclusive, Fresh
  <1>2. CASE CliEnd \/ UNCHANGED approvalVars
    <2>1. /\ UNCHANGED <<installed, lock, client, holder, given, raced>>
          /\ UNCHANGED cli \/ cli'.at = "idle"
      BY <1>2 DEF CliEnd, approvalVars, Resting
    <2> QED
      BY <2>1 DEF Recorded, Carried, Exclusive, Fresh
  <1>3. ASSUME NEW i \in Integrations, NEW v \in Editions, ReplaceManifest(i, v) PROVE Recorded'
    BY <1>3 DEF ReplaceManifest, Recorded, Carried, Exclusive, Fresh
  <1> QED
    BY <1>1, <1>2, <1>3, ApproveRecorded, ReadRecorded, WriteRecorded, ConfirmRecorded DEF ApprovalNext

\* However manifests are edited, reviewed and approved by any number of clients
\* and the command, every record of the lock file is for the manifest its approver
\* was shown and grants no more than it asks for (Approve compares the digests
\* under approveMu, at the moment it builds the record).
THEOREM OnlyReviewed == ApprovalSpec => []NeverWidened
  <1>1. ApprovalInit => Recorded
    BY InitRecorded
  <1>2. Recorded /\ [ApprovalNext]_approvalVars => Recorded'
    BY NextRecorded
  <1>3. Recorded => NeverWidened
    BY Zenon DEF Recorded, Document, Reviewed, NeverWidened
  <1> QED
    BY <1>1, <1>2, <1>3, PTL DEF ApprovalSpec

\* Requests of the API never drop each other's approvals: until the command and
\* the server have crossed, the file holds exactly what approvers were told.
THEOREM ApprovalsKept == ApprovalSpec => []NothingDropped
  <1>1. ApprovalInit => Recorded
    BY InitRecorded
  <1>2. Recorded /\ [ApprovalNext]_approvalVars => Recorded'
    BY NextRecorded
  <1>3. Recorded => NothingDropped
    BY DEF Recorded, Fresh, NothingDropped
  <1> QED
    BY <1>1, <1>2, <1>3, PTL DEF ApprovalSpec

-----------------------------------------------------------------------------
(***************************************************************************)
(* The two readings of manifests, lock files and configurations.           *)
(***************************************************************************)

\* The checker asks of an operation everything the loader asks of it.
LEMMA CheckedManifestLoads ==
    ASSUME NEW m, checkManifests(m), \A r \in m.routes : r.name.type # "+json",
           \A a \in m.assets : a.path # "expr" => AssetCovered(m, a)
    PROVE  Loads(m)
  <1>1. ASSUME NEW step \in m.pipeline PROVE validateRequest(m, step)
    <2>1. checkPipelineStep(m, step)
      BY DEF checkManifests, checkOperation
    <2>2. PICK r \in m.routes :
              /\ r.name.slot = step.slot /\ r.name.method = step.method /\ r.name.use = "data"
              /\ Covers(r.name.path, step.path)
              /\ QueryAllowed(r, step) /\ BodyAllowed(r, step)
      BY <2>1 DEF checkPipelineStep
    <2>3. "http" \in m.caps
      BY <2>2 DEF checkManifests, checkOperation
    <2>4. routeCoversRequest(r, step)
      BY <2>2 DEF routeCoversRequest, BodyAllowed
    <2> QED
      BY <2>1, <2>2, <2>3, <2>4
      DEF checkPipelineStep, validateRequest, checkPlaceholderParam, placeholderParam
  <1>2. ASSUME NEW a \in m.assets PROVE "assets" \in m.caps /\ a.slot \in m.slots
    <2>1. PICK r \in m.routes : r.name.slot = a.slot /\ r.name.use = "asset"
      BY DEF checkManifests, checkOperation
    <2> QED
      BY <2>1 DEF checkManifests, checkOperation
  <1> QED
    BY <1>1, <1>2 DEF Loads, validateOutput, checkManifests, checkOperation

LEMMA LeastIs ==
    ASSUME NEW S \in SUBSET Nat, NEW x \in S, \A y \in S : x <= y
    PROVE  Least(S) = x
  <1>1. \E z \in S : \A y \in S : z <= y
    OBVIOUS
  <1>2. Least(S) \in S /\ \A y \in S : Least(S) <= y
    BY <1>1 DEF Least
  <1>3. Least(S) <= x /\ x <= Least(S) /\ Least(S) \in Nat /\ x \in Nat
    BY <1>2
  <1> QED
    BY <1>3

\* Within the ceiling of the manifest the two readings of a limit agree.
LEMMA LimitsAgree ==
    ASSUME NEW m, NEW approved, bodyCeiling(m) <= MaxKB,
           {m.limit, approved} \subseteq {<< >>} \cup [1..1 -> Nat \ {0}]
    PROVE  /\ requested(m.limit) = bodyCeiling(m)
           /\ bodyCeiling(m) \in Nat /\ (bodyCeiling(m) = 0 => bodyCeiling(m) = DefaultKB)
           /\ checkerEffectiveLimit(m, approved) = effectiveLimit(m.limit, approved)
  <1> DEFINE c == bodyCeiling(m)
             a == IF approved = << >> THEN DefaultKB ELSE approved[1]
  <1>1. DefaultKB \in Nat /\ MaxKB \in Nat
    BY ApprovalAssumption, LimitsAssumption
  <1>2. c \in Nat /\ (c = 0 => c = DefaultKB) /\ a \in Nat
    BY <1>1 DEF bodyCeiling
  <1>3. requested(m.limit) = Least({MaxKB, c}) /\ requested(approved) = Least({MaxKB, a})
    BY DEF requested, bodyCeiling
  <1>4. checkerEffectiveLimit(m, approved) = Least({MaxKB, c, a})
    BY DEF checkerEffectiveLimit
  <1> HIDE DEF c, a
  <1>5. Least({MaxKB, c}) = c
    BY <1>1, <1>2 DEF Least, c
  <1>6. Least({MaxKB, a}) = IF MaxKB <= a THEN MaxKB ELSE a
    BY <1>1, <1>2 DEF Least
  <1>7. Least({c, Least({MaxKB, a})}) = Least({MaxKB, c, a})
    <2> DEFINE w == IF c <= a THEN c ELSE a
    <2>1. c <= MaxKB
      BY DEF c
    <2>2. Least({MaxKB, c, a}) = w
      BY <1>1, <1>2, <2>1, LeastIs
    <2>3. Least({c, IF MaxKB <= a THEN MaxKB ELSE a}) = w
      BY <1>1, <1>2, <2>1, LeastIs
    <2> QED
      BY <1>6, <2>2, <2>3
  <1> QED
    BY <1>2, <1>3, <1>4, <1>5, <1>7 DEF effectiveLimit, c

\* The two readings of a route's authority are the same.
LEMMA IdentitiesAgree ==
    ASSUME NEW r, NEW kb \in Nat, kb = 0 => kb = DefaultKB
    PROVE  routeIdentity(r, kb) = identity(r, kb)
  <1>1. (IF r.maxKB > 0 THEN r.maxKB ELSE kb) = effectiveMaxBodyKB(r, kb)
    BY DEF effectiveMaxBodyKB
  <1> QED
    BY <1>1 DEF routeIdentity, identity

\* Whatever a manifest asks for and whatever a lock file holds: a manifest the contract
\* checker has no issue with loads, and the checker accepts an entry of the lock file
\* exactly when Approve could have written it.
THEOREM ManifestReadingsAgree == SchemaHolds => ManifestsAgree
  <1>1. CheckedLoads
    BY CheckedManifestLoads DEF CheckedLoads
  <1>2. ASSUME SchemaHolds, input.what = "lock", checkManifests(input.m)
        PROVE  LET grants == [caps |-> input.e.caps, routes |-> input.e.routes,
                              limit |-> input.e.override]
               IN  checkLock(input.m, input.e) <=>
                       /\ Within(input.m, grants)
                       /\ input.e.limit = effectiveLimit(input.m.limit, input.e.override)
                       /\ input.e.digest = input.m.digest
    <2> DEFINE m == input.m
               e == input.e
               grants == [caps |-> e.caps, routes |-> e.routes, limit |-> e.override]
               kb == bodyCeiling(m)
    <2>1. grants.caps = e.caps /\ grants.routes = e.routes /\ grants.limit = e.override
      OBVIOUS
    <2>2. {m.limit, e.override} \subseteq {<< >>} \cup [1..1 -> Nat \ {0}] /\ kb <= MaxKB
      BY <1>2 DEF SchemaHolds, checkManifests
    <2>3. /\ requested(m.limit) = kb /\ kb \in Nat /\ (kb = 0 => kb = DefaultKB)
          /\ checkerEffectiveLimit(m, e.override) = effectiveLimit(m.limit, e.override)
      BY <2>2, LimitsAgree
    <2> HIDE DEF m, e, grants, kb
    <2>4. \A r : routeIdentity(r, kb) = identity(r, kb)
      BY <2>3, IdentitiesAgree
    <2>5. /\ {routeIdentity(r, kb) : r \in e.routes} = identitySet(e.routes, kb)
          /\ {routeIdentity(r, kb) : r \in m.routes} = identitySet(m.routes, kb)
      BY Zenon, <2>4 DEF identitySet
    <2>6. checkLock(m, e) <=>
              /\ identitySet(e.routes, kb) \subseteq identitySet(m.routes, kb)
              /\ e.caps \subseteq m.caps
              /\ e.override # << >> => e.override[1] <= kb
              /\ e.limit = effectiveLimit(m.limit, e.override)
              /\ e.digest = m.digest
      BY Zenon, <2>3, <2>5 DEF checkLock, kb
    <2>7. Within(m, grants) <=>
              /\ e.caps \subseteq m.caps
              /\ identitySet(e.routes, kb) \subseteq identitySet(m.routes, kb)
              /\ e.override # << >> => e.override[1] <= kb
      BY Zenon, <2>1, <2>3 DEF Within
    <2> QED
      BY Zenon, <2>6, <2>7 DEF m, e, grants
  <1> QED
    BY Zenon, <1>1, <1>2 DEF LockAgrees, ManifestsAgree

-----------------------------------------------------------------------------
(***************************************************************************)
(* The texts of rules.  The recursive functions of the lexer are defined   *)
(* at every position because they only look ahead (or behind); what they   *)
(* compute follows by induction on the length of the rest of the text.     *)
(***************************************************************************)

EndRule(text, quote, D, f) ==
    f = [i \in D |-> IF i > Len(text) \/ text[i] = quote THEN i + 1
                     ELSE f[IF text[i] = "\\" THEN i + 2 ELSE i + 1]]

LEMMA EndExists ==
    ASSUME NEW text \in Seq(TextSymbols), NEW quote
    PROVE  \E f : EndRule(text, quote, 1 .. Len(text) + 2, f)
  <1> DEFINE N == Len(text)
             D(n) == {i \in 1 .. N + 2 : i + n >= N + 3}
             S == {n \in Nat : \E f : EndRule(text, quote, D(n), f)}
  <1>0. N \in Nat
    OBVIOUS
  <1>1. 0 \in S
    <2>1. D(0) = {}
      BY <1>0
    <2>2. EndRule(text, quote, {}, [i \in {} |-> 0])
      BY DEF EndRule
    <2> QED
      BY <2>1, <2>2
  <1>2. ASSUME NEW n \in Nat, n \in S PROVE n + 1 \in S
    <2>1. PICK f : EndRule(text, quote, D(n), f)
      BY <1>2
    <2> DEFINE val(i) == IF i > N \/ text[i] = quote THEN i + 1
                         ELSE f[IF text[i] = "\\" THEN i + 2 ELSE i + 1]
               g == [i \in D(n + 1) |-> IF i \in D(n) THEN f[i] ELSE val(i)]
    <2>2. ASSUME NEW i \in D(n + 1)
          PROVE  g[i] = IF i > N \/ text[i] = quote THEN i + 1
                        ELSE g[IF text[i] = "\\" THEN i + 2 ELSE i + 1]
      <3>1. g[i] = val(i)
        BY <2>1 DEF EndRule
      <3>2. i <= N => i + 1 \in D(n) /\ i + 2 \in D(n)
        BY <1>0
      <3>3. D(n) \subseteq D(n + 1)
        BY <1>0
      <3>4. i <= N => g[i + 1] = f[i + 1] /\ g[i + 2] = f[i + 2]
        BY <3>2, <3>3
      <3> HIDE DEF g, D
      <3>5. i \in Nat
        BY DEF D
      <3> QED
        BY <1>0, <3>1, <3>4, <3>5
    <2>3. EndRule(text, quote, D(n + 1), g)
      BY <2>2 DEF EndRule
    <2> HIDE DEF g, D
    <2>4. \E h : EndRule(text, quote, D(n + 1), h)
      BY Zenon, <2>3
    <2> QED
      BY <2>4
  <1> HIDE DEF S
  <1>3. N + 2 \in S
    BY <1>0, <1>1, <1>2, Induction
  <1>4. D(N + 2) = 1 .. N + 2
    BY <1>0
  <1> QED
    BY <1>3, <1>4 DEF S

LEMMA EndIs ==
    ASSUME NEW text \in Seq(TextSymbols), NEW quote, NEW i \in 1 .. Len(text) + 2
    PROVE  EndOfString(text, quote)[i] =
               IF i > Len(text) \/ text[i] = quote THEN i + 1
               ELSE EndOfString(text, quote)[IF text[i] = "\\" THEN i + 2 ELSE i + 1]
  <1>1. EndRule(text, quote, 1 .. Len(text) + 2, EndOfString(text, quote))
    <2>1. EndOfString(text, quote) = CHOOSE f : EndRule(text, quote, 1 .. Len(text) + 2, f)
      BY Zenon DEF EndOfString, EndRule
    <2> QED
      BY Zenon, <2>1, EndExists
  <1> QED
    BY <1>1 DEF EndRule

\* A string ends after the position it is read from, at most two beyond the text.
LEMMA EndsLater ==
    ASSUME NEW text \in Seq(TextSymbols), NEW quote, NEW i \in 1 .. Len(text) + 2
    PROVE  EndOfString(text, quote)[i] \in (i + 1) .. (Len(text) + 3)
  <1> DEFINE N == Len(text)
             end == EndOfString(text, quote)
             S == {n \in Nat : \A k \in 1 .. N + 2 : k + n >= N + 2 => end[k] \in (k + 1) .. (N + 3)}
  <1>0. N \in Nat
    OBVIOUS
  <1>1. 0 \in S
    BY <1>0, EndIs
  <1>2. ASSUME NEW n \in Nat, n \in S PROVE n + 1 \in S
    <2>1. SUFFICES ASSUME NEW k \in 1 .. N + 2, k + (n + 1) >= N + 2
                   PROVE  end[k] \in (k + 1) .. (N + 3)
      OBVIOUS
    <2>2. CASE k > N \/ text[k] = quote
      BY <1>0, <2>2, EndIs
    <2>3. CASE ~(k > N \/ text[k] = quote)
      <3> DEFINE j == IF text[k] = "\\" THEN k + 2 ELSE k + 1
      <3>1. end[k] = end[j]
        BY <2>3, EndIs
      <3>2. j \in 1 .. N + 2 /\ j + n >= N + 2 /\ j > k /\ j \in Nat
        BY <1>0, <2>1, <2>3
      <3> HIDE DEF j, end
      <3>3. end[j] \in (j + 1) .. (N + 3)
        BY <1>2, <3>2
      <3> QED
        BY <1>0, <3>1, <3>2, <3>3
    <2> QED
      BY <2>2, <2>3
  <1>3. N + 2 \in S
    <2> HIDE DEF S
    <2> QED
      BY <1>0, <1>1, <1>2, Induction
  <1> QED
    BY <1>0, <1>3

LEMMA LeastExists ==
    ASSUME NEW S \in SUBSET Nat, S # {}
    PROVE  Least(S) \in S /\ \A y \in S : Least(S) <= y
  <1>1. PICK x \in S : \A y \in S : ~(<<y, x>> \in OpToRel(<, Nat))
    BY Zenon, WFMin, NatLessThanWellFounded
  <1>2. ASSUME NEW y \in S PROVE x <= y
    <2>1. x \in Nat /\ y \in Nat
      OBVIOUS
    <2>2. ASSUME y < x PROVE FALSE
      <3>1. <<y, x>> \in Nat \X Nat /\ <<y, x>>[1] < <<y, x>>[2]
        BY <2>1, <2>2
      <3> QED
        BY <1>1, <3>1 DEF OpToRel
    <2> QED
      BY <2>1, <2>2
  <1>3. \E z \in S : \A y \in S : z <= y
    BY Zenon, <1>2
  <1> QED
    BY Zenon, <1>3 DEF Least

\* The next quote, or the end of the text.
LEMMA NextQuoteIs ==
    ASSUME NEW text \in Seq(TextSymbols), NEW i \in 1 .. Len(text) + 3
    PROVE  /\ NextQuote(text, i) \in 1 .. Len(text) + 1
           /\ NextQuote(text, i) <= Len(text) =>
                  i <= NextQuote(text, i) /\ text[NextQuote(text, i)] \in Quotes
           /\ \A k \in i .. Len(text) : k < NextQuote(text, i) => text[k] \notin Quotes
  <1> DEFINE N == Len(text)
             Q == {j \in i .. N : text[j] \in Quotes} \cup {N + 1}
             q == NextQuote(text, i)
  <1>1. N \in Nat /\ Q \in SUBSET Nat /\ Q # {}
    OBVIOUS
  <1>2. q = Least(Q)
    BY Zenon DEF NextQuote
  <1> HIDE DEF Q, q
  <1>3. q \in Q /\ \A y \in Q : q <= y
    BY <1>1, <1>2, LeastExists
  <1>4. q \in 1 .. N + 1
    BY <1>1, <1>3 DEF Q
  <1>5. q <= N => i <= q /\ text[q] \in Quotes
    BY <1>1, <1>3 DEF Q
  <1>6. ASSUME NEW k \in i .. N, k < q, text[k] \in Quotes PROVE FALSE
    <2>1. k \in Q
      BY <1>6 DEF Q
    <2> QED
      BY <1>1, <1>3, <1>4, <1>6, <2>1
  <1> QED
    BY <1>4, <1>5, <1>6 DEF q

SpanRule(text, D, f) ==
    f = [i \in D |-> LET q == NextQuote(text, i)
                     IN  {i .. q - 1} \cup
                             IF q > Len(text) THEN {} ELSE f[EndOfString(text, text[q])[q + 1]]]

\* The string that the next quote opens, and what follows it.
LEMMA JumpsAhead ==
    ASSUME NEW text \in Seq(TextSymbols), NEW i \in 1 .. Len(text) + 3, NextQuote(text, i) <= Len(text)
    PROVE  LET q == NextQuote(text, i)
           IN  EndOfString(text, text[q])[q + 1] \in (i + 2) .. (Len(text) + 3)
  <1> DEFINE N == Len(text)
             q == NextQuote(text, i)
             e == EndOfString(text, text[q])[q + 1]
  <1>1. N \in Nat /\ q \in Nat /\ i <= q /\ q <= N /\ q + 1 \in 1 .. N + 2
    BY NextQuoteIs
  <1>2. e \in (q + 2) .. (N + 3)
    <2> HIDE DEF q
    <2>1. e \in ((q + 1) + 1) .. (N + 3)
      BY <1>1, EndsLater
    <2> QED
      BY <1>1, <2>1
  <1> HIDE DEF q, e
  <1>3. e \in (i + 2) .. (N + 3)
    BY <1>1, <1>2
  <1> QED
    BY <1>3 DEF q, e

LEMMA SpansExist ==
    ASSUME NEW text \in Seq(TextSymbols)
    PROVE  \E f : SpanRule(text, 1 .. Len(text) + 3, f)
  <1> DEFINE N == Len(text)
             D(n) == {i \in 1 .. N + 3 : i + n >= N + 4}
             S == {n \in Nat : \E f : SpanRule(text, D(n), f)}
             next(i) == EndOfString(text, text[NextQuote(text, i)])[NextQuote(text, i) + 1]
  <1>0. N \in Nat
    OBVIOUS
  <1>1. 0 \in S
    <2>1. D(0) = {}
      BY <1>0
    <2>2. SpanRule(text, {}, [i \in {} |-> 0])
      BY DEF SpanRule
    <2> QED
      BY <2>1, <2>2
  <1>2. ASSUME NEW n \in Nat, n \in S PROVE n + 1 \in S
    <2>1. PICK f : SpanRule(text, D(n), f)
      BY <1>2
    <2> DEFINE val(h, i) == {i .. NextQuote(text, i) - 1} \cup
                                IF NextQuote(text, i) > N THEN {} ELSE h[next(i)]
               g == [i \in D(n + 1) |-> IF i \in D(n) THEN f[i] ELSE val(f, i)]
    <2>2. ASSUME NEW i \in D(n + 1) PROVE g[i] = val(g, i)
      <3>1. g[i] = val(f, i)
        BY <2>1 DEF SpanRule
      <3>2. i \in 1 .. N + 3 /\ i + (n + 1) >= N + 4 /\ NextQuote(text, i) \in Nat
        BY NextQuoteIs
      <3>3. NextQuote(text, i) <= N => next(i) \in (i + 2) .. (N + 3)
        BY <3>2, JumpsAhead
      <3> HIDE DEF next
      <3>4. NextQuote(text, i) <= N => next(i) \in D(n) /\ next(i) \in D(n + 1)
        BY <1>0, <3>2, <3>3
      <3>5. NextQuote(text, i) <= N => g[next(i)] = f[next(i)]
        BY <3>4
      <3> HIDE DEF g, D
      <3> QED
        BY <1>0, <3>1, <3>2, <3>5
    <2> HIDE DEF D
    <2>3. g = [i \in D(n + 1) |-> val(g, i)]
      <3> HIDE DEF val
      <3> QED
        BY <2>2
    <2>4. \E h : SpanRule(text, D(n + 1), h)
      <3> HIDE DEF g
      <3> QED
        BY Zenon, <2>3 DEF SpanRule
    <2> QED
      BY <2>4
  <1> HIDE DEF S
  <1>3. N + 3 \in S
    BY <1>0, <1>1, <1>2, Induction
  <1>4. D(N + 3) = 1 .. N + 3
    BY <1>0
  <1> QED
    BY <1>3, <1>4 DEF S

LEMMA SpansAre ==
    ASSUME NEW text \in Seq(TextSymbols), NEW i \in 1 .. Len(text) + 3
    PROVE  LET q == NextQuote(text, i)
           IN  SpansFrom(text)[i] =
                   {i .. q - 1} \cup
                       IF q > Len(text) THEN {} ELSE SpansFrom(text)[EndOfString(text, text[q])[q + 1]]
  <1>1. SpanRule(text, 1 .. Len(text) + 3, SpansFrom(text))
    <2>1. SpansFrom(text) = CHOOSE f : SpanRule(text, 1 .. Len(text) + 3, f)
      BY Zenon DEF SpansFrom, SpanRule
    <2> QED
      BY Zenon, <2>1, SpansExist
  <1> QED
    BY <1>1 DEF SpanRule

LexStep(s, x) ==
    [quote   |-> IF s.quote = "code" THEN IF x \in Quotes THEN x ELSE "code"
                 ELSE IF ~s.escaped /\ x = s.quote THEN "code" ELSE s.quote,
     escaped |-> s.quote # "code" /\ ~s.escaped /\ x = "\\"]

LexRule(text, m, f) ==
    f = [n \in 0 .. m |-> IF n = 0 THEN [quote |-> "code", escaped |-> FALSE]
                          ELSE LexStep(f[n - 1], text[n])]

LEMMA LexExists ==
    ASSUME NEW text, NEW m \in Nat
    PROVE  \E f : LexRule(text, m, f)
  <1> DEFINE start == [quote |-> "code", escaped |-> FALSE]
             S == {n \in Nat : \E f : LexRule(text, n, f)}
  <1>1. 0 \in S
    <2>1. LexRule(text, 0, [n \in 0 .. 0 |-> start])
      BY DEF LexRule
    <2> QED
      BY <2>1
  <1>2. ASSUME NEW n \in Nat, n \in S PROVE n + 1 \in S
    <2>1. PICK f : LexRule(text, n, f)
      BY <1>2
    <2> DEFINE g == [k \in 0 .. (n + 1) |-> IF k = n + 1 THEN LexStep(f[n], text[n + 1]) ELSE f[k]]
    <2>2. ASSUME NEW k \in 0 .. (n + 1)
          PROVE  g[k] = IF k = 0 THEN start ELSE LexStep(g[k - 1], text[k])
      <3>1. CASE k = n + 1
        BY <3>1
      <3>2. CASE k # n + 1
        <4>1. k \in 0 .. n /\ g[k] = f[k]
          BY <3>2
        <4>2. f[k] = IF k = 0 THEN start ELSE LexStep(f[k - 1], text[k])
          BY <2>1, <4>1 DEF LexRule
        <4>3. k # 0 => g[k - 1] = f[k - 1]
          BY <4>1
        <4> HIDE DEF g
        <4> QED
          BY <4>1, <4>2, <4>3
      <3> QED
        BY <3>1, <3>2
    <2>3. \E h : LexRule(text, n + 1, h)
      <3>1. g = [k \in 0 .. (n + 1) |-> IF k = 0 THEN start ELSE LexStep(g[k - 1], text[k])]
        BY <2>2
      <3> HIDE DEF g
      <3> QED
        BY Zenon, <3>1 DEF LexRule
    <2> QED
      BY <2>3
  <1> HIDE DEF S
  <1>3. m \in S
    BY <1>1, <1>2, Induction
  <1> QED
    BY <1>3 DEF S

LEMMA LexedIs ==
    ASSUME NEW text \in Seq(TextSymbols)
    PROVE  /\ Lexed(text)[0].quote = "code"
           /\ \A n \in 1 .. Len(text) : Lexed(text)[n] = LexStep(Lexed(text)[n - 1], text[n])
  <1>1. LexRule(text, Len(text), Lexed(text))
    <2>1. Lexed(text) = CHOOSE f : LexRule(text, Len(text), f)
      BY Zenon DEF Lexed, LexRule, LexStep
    <2>2. Len(text) \in Nat
      OBVIOUS
    <2> QED
      BY Zenon, <2>1, <2>2, LexExists
  <1> DEFINE L == Lexed(text)
  <1> HIDE DEF L
  <1>2. L = [n \in 0 .. Len(text) |-> IF n = 0 THEN [quote |-> "code", escaped |-> FALSE]
                                      ELSE LexStep(L[n - 1], text[n])]
    BY Zenon, <1>1 DEF LexRule, L
  <1>3. L[0] = [quote |-> "code", escaped |-> FALSE]
    BY <1>2
  <1>4. ASSUME NEW n \in 1 .. Len(text) PROVE L[n] = LexStep(L[n - 1], text[n])
    <2>1. n \in 0 .. Len(text) /\ n # 0
      OBVIOUS
    <2> QED
      BY Zenon, <1>2, <2>1
  <1> QED
    BY <1>3, <1>4 DEF L

\* A step of the reference: in code, and in a string.
LEMMA LexSteps ==
    ASSUME NEW s, NEW x
    PROVE  /\ s.quote = "code" /\ x \notin Quotes => LexStep(s, x).quote = "code"
           /\ s.quote = "code" /\ x \in Quotes => LexStep(s, x).quote = x /\ ~LexStep(s, x).escaped
           /\ s.quote # "code" /\ ~s.escaped /\ x = s.quote => LexStep(s, x).quote = "code"
           /\ s.quote # "code" /\ ~s.escaped /\ x # s.quote =>
                  LexStep(s, x).quote = s.quote /\ (LexStep(s, x).escaped <=> x = "\\")
           /\ s.quote # "code" /\ s.escaped => LexStep(s, x).quote = s.quote /\ ~LexStep(s, x).escaped
  BY DEF LexStep

\* No quote from i to k: the lexer is in code at k when it is at i.
LEMMA CodeRuns ==
    ASSUME NEW text \in Seq(TextSymbols), NEW i \in 1 .. Len(text) + 1, Lexed(text)[i - 1].quote = "code",
           NEW k \in i .. Len(text) + 1, \A j \in i .. Len(text) : j < k => text[j] \notin Quotes
    PROVE  Lexed(text)[k - 1].quote = "code"
  <1> DEFINE N == Len(text)
             L == Lexed(text)
             S == {n \in Nat : i + n <= k => L[(i + n) - 1].quote = "code"}
  <1>0. N \in Nat /\ i \in Nat /\ k \in Nat
    OBVIOUS
  <1>1. 0 \in S
    BY <1>0
  <1>2. ASSUME NEW n \in Nat, n \in S PROVE n + 1 \in S
    <2>1. SUFFICES ASSUME i + (n + 1) <= k PROVE L[(i + (n + 1)) - 1].quote = "code"
      OBVIOUS
    <2> DEFINE j == i + n
    <2>2. j \in 1 .. N /\ j \in i .. N /\ j < k /\ (i + (n + 1)) - 1 = j
      BY <1>0, <2>1
    <2>3. L[j - 1].quote = "code" /\ text[j] \notin Quotes /\ L[j] = LexStep(L[j - 1], text[j])
      BY <1>2, <2>1, <2>2, LexedIs
    <2> HIDE DEF j, L
    <2> QED
      BY <2>2, <2>3, LexSteps
  <1>3. k - i \in S
    <2> HIDE DEF S
    <2>1. k - i \in Nat
      BY <1>0
    <2> QED
      BY <1>1, <1>2, <2>1, Induction
  <1> QED
    BY <1>0, <1>3

\* From inside a string, EndOfString finds where the reference is back in code, and
\* everything before is in the string.
LEMMA StringEnds ==
    ASSUME NEW text \in Seq(TextSymbols), NEW q \in Quotes, NEW i \in 1 .. Len(text) + 1,
           Lexed(text)[i - 1].quote = q, ~Lexed(text)[i - 1].escaped
    PROVE  LET e == EndOfString(text, q)[i]
           IN  /\ e <= Len(text) + 1 => Lexed(text)[e - 1].quote = "code"
               /\ \A k \in i .. Len(text) : k < e => Lexed(text)[k - 1].quote # "code"
  <1> DEFINE N == Len(text)
             L == Lexed(text)
             end == EndOfString(text, q)
             Ends(j) == /\ end[j] <= N + 1 => L[end[j] - 1].quote = "code"
                        /\ \A k \in j .. N : k < end[j] => L[k - 1].quote # "code"
             Inside(j) == L[j - 1].quote = q /\ ~L[j - 1].escaped
             S == {n \in Nat : \A j \in 1 .. N + 1 : j + n >= N + 1 /\ Inside(j) => Ends(j)}
  <1>0. N \in Nat /\ q # "code" /\ q # "\\"
    <2>1. q # "code" /\ q # "\\"
      BY Zenon DEF Quotes
    <2> QED
      BY <2>1
  <1>1. 0 \in S
    <2>1. SUFFICES ASSUME NEW j \in 1 .. N + 1, j >= N + 1 PROVE Ends(j)
      BY <1>0
    <2>2. j = N + 1 /\ j \in 1 .. N + 2 /\ j > N
      BY <1>0, <2>1
    <2>3. end[j] = N + 2
      BY <1>0, <2>2, EndIs
    <2> HIDE DEF end, L
    <2> QED
      BY <1>0, <2>2, <2>3
  <1>2. ASSUME NEW n \in Nat, n \in S PROVE n + 1 \in S
    <2>1. SUFFICES ASSUME NEW j \in 1 .. N + 1, j + (n + 1) >= N + 1, Inside(j) PROVE Ends(j)
      OBVIOUS
    <2>2. CASE j = N + 1
      BY <1>0, <1>2, <2>1, <2>2
    <2>3. CASE j # N + 1
      <3>1. j \in 1 .. N /\ j \in 1 .. N + 2
        BY <1>0, <2>3
      <3>2. /\ end[j] = IF text[j] = q THEN j + 1
                        ELSE end[IF text[j] = "\\" THEN j + 2 ELSE j + 1]
            /\ L[j] = LexStep(L[j - 1], text[j])
        BY <1>0, <3>1, EndIs, LexedIs
      <3> DEFINE s == L[j - 1]
      <3>3. s.quote = q /\ ~s.escaped /\ s.quote # "code"
        BY <1>0, <2>1
      <3> HIDE DEF end, L
      <3>4. CASE text[j] = q
        <4>1. end[j] = j + 1 /\ L[j].quote = "code"
          BY <3>2, <3>3, <3>4, LexSteps
        <4> QED
          BY <1>0, <3>1, <3>3, <4>1
      <3>5. CASE text[j] # q /\ text[j] = "\\"
        <4>1. end[j] = end[j + 2] /\ L[j].quote = q /\ L[j].escaped
          BY <3>2, <3>3, <3>5, LexSteps
        <4>2. CASE j = N
          <5>1. end[j + 2] = j + 3
            <6>1. j + 2 \in 1 .. N + 2 /\ j + 2 > N
              BY <1>0, <4>2
            <6> QED
              BY <1>0, <3>1, <6>1, EndIs DEF end
          <5> QED
            BY <1>0, <3>1, <3>3, <4>1, <4>2, <5>1
        <4>3. CASE j # N
          <5>1. j + 1 \in 1 .. N /\ j + 2 \in 1 .. N + 1 /\ (j + 1) - 1 = j /\ (j + 2) - 1 = j + 1
                /\ (j + 2) + n >= N + 1
            BY <1>0, <2>1, <3>1, <4>3
          <5>2. L[j + 1] = LexStep(L[j], text[j + 1])
            BY <5>1, LexedIs DEF L
          <5>3. L[j + 1].quote = q /\ ~L[j + 1].escaped
            BY <1>0, <4>1, <5>2, LexSteps
          <5>4. Ends(j + 2)
            BY <1>2, <5>1, <5>3
          <5>5. ASSUME NEW k \in j .. N, k < end[j] PROVE L[k - 1].quote # "code"
            <6>1. k = j \/ k = j + 1 \/ k \in (j + 2) .. N
              BY <1>0, <3>1
            <6> QED
              BY <1>0, <3>3, <4>1, <5>1, <5>4, <5>5, <6>1
          <5> QED
            BY <4>1, <5>4, <5>5
        <4> QED
          BY <4>2, <4>3
      <3>6. CASE text[j] # q /\ text[j] # "\\"
        <4>1. end[j] = end[j + 1] /\ L[j].quote = q /\ ~L[j].escaped
          BY <3>2, <3>3, <3>6, LexSteps
        <4>2. j + 1 \in 1 .. N + 1 /\ (j + 1) - 1 = j /\ (j + 1) + n >= N + 1
          BY <1>0, <2>1, <3>1
        <4>3. Ends(j + 1)
          BY <1>2, <4>1, <4>2
        <4>4. ASSUME NEW k \in j .. N, k < end[j] PROVE L[k - 1].quote # "code"
          <5>1. k = j \/ k \in (j + 1) .. N
            BY <1>0, <3>1
          <5> QED
            BY <1>0, <3>3, <4>1, <4>3, <4>4, <5>1
        <4> QED
          BY <4>1, <4>3, <4>4
      <3> QED
        BY <3>4, <3>5, <3>6
    <2> QED
      BY <2>2, <2>3
  <1>3. N \in S
    <2> HIDE DEF S
    <2> QED
      BY <1>0, <1>1, <1>2, Induction
  <1>4. Ends(i)
    <2> HIDE DEF Ends
    <2> QED
      BY <1>0, <1>3
  <1> QED
    BY <1>4

\* The positions in code, from i on.
CodeFrom(text, i) ==
    {k \in i .. Len(text) : Lexed(text)[k - 1].quote = "code" /\ text[k] \notin Quotes}

\* From a position in code, the spans are the code that follows.
LEMMA SpansAreCode ==
    ASSUME NEW text \in Seq(TextSymbols), NEW i \in 1 .. Len(text) + 3,
           i <= Len(text) + 1 => Lexed(text)[i - 1].quote = "code"
    PROVE  UNION SpansFrom(text)[i] = CodeFrom(text, i)
  <1> DEFINE N == Len(text)
             L == Lexed(text)
             spans == SpansFrom(text)
             Starts(j) == j <= N + 1 => L[j - 1].quote = "code"
             S == {n \in Nat : \A j \in 1 .. N + 3 :
                                   j + n >= N + 4 /\ Starts(j) => UNION spans[j] = CodeFrom(text, j)}
  <1>0. N \in Nat
    OBVIOUS
  <1>1. 0 \in S
    BY <1>0
  <1>2. ASSUME NEW n \in Nat, n \in S PROVE n + 1 \in S
    <2>1. SUFFICES ASSUME NEW j \in 1 .. N + 3, j + (n + 1) >= N + 4, Starts(j)
                   PROVE  UNION spans[j] = CodeFrom(text, j)
      OBVIOUS
    <2> DEFINE q == NextQuote(text, j)
               e == EndOfString(text, text[q])[q + 1]
    <2>2. /\ q \in 1 .. N + 1
          /\ q <= N => j <= q /\ text[q] \in Quotes
          /\ \A k \in j .. N : k < q => text[k] \notin Quotes
      BY NextQuoteIs
    <2>3. spans[j] = {j .. q - 1} \cup IF q > N THEN {} ELSE spans[e]
      BY SpansAre
    <2>4. q <= N => e \in (j + 2) .. (N + 3)
      BY JumpsAhead
    <2> HIDE DEF q
    <2>5. ASSUME NEW k \in j .. N, k <= q PROVE L[k - 1].quote = "code"
      <3>1. j \in 1 .. N + 1 /\ k \in j .. N + 1 /\ L[j - 1].quote = "code"
        BY <1>0, <2>1
      <3>2. \A l \in j .. N : l < k => text[l] \notin Quotes
        BY <1>0, <2>2, <2>5
      <3> QED
        BY <3>1, <3>2, CodeRuns
    <2>6. CASE q > N
      <3>1. q = N + 1 /\ UNION spans[j] = j .. N
        BY <1>0, <2>2, <2>3, <2>6
      <3>2. CodeFrom(text, j) = j .. N
        BY <1>0, <2>2, <2>5, <3>1 DEF CodeFrom
      <3> QED
        BY <3>1, <3>2
    <2>7. CASE q <= N
      <3>1. UNION spans[j] = (j .. q - 1) \cup UNION spans[e]
        <4>1. ~(q > N)
          BY <1>0, <2>2, <2>7
        <4>2. spans[j] = {j .. q - 1} \cup spans[e]
          BY Zenon, <2>3, <4>1
        <4> HIDE DEF spans, e
        <4> QED
          BY Zenon, <4>2
      <3>2. q \in j .. N /\ q \in 1 .. N /\ q + 1 \in 1 .. N + 1 /\ (q + 1) - 1 = q
        BY <1>0, <2>2, <2>7
      <3>3. L[q - 1].quote = "code" /\ L[q] = LexStep(L[q - 1], text[q])
        BY <2>5, <3>2, LexedIs
      <3>4. L[q].quote = text[q] /\ ~L[q].escaped
        <4> HIDE DEF L
        <4> QED
          BY <2>2, <2>7, <3>3, LexSteps
      <3>5. /\ e <= N + 1 => L[e - 1].quote = "code"
            /\ \A k \in (q + 1) .. N : k < e => L[k - 1].quote # "code"
        <4>1. text[q] \in Quotes
          BY <2>2, <2>7
        <4> QED
          BY <3>2, <3>4, <4>1, StringEnds
      <3> HIDE DEF e, spans, L
      <3>6. e \in 1 .. N + 3 /\ e + n >= N + 4 /\ e \in Nat
        BY <1>0, <2>1, <2>4, <2>7
      <3>7. UNION spans[e] = CodeFrom(text, e)
        BY <1>2, <3>5, <3>6
      <3>8. ASSUME NEW k \in j .. N
            PROVE  k \in CodeFrom(text, j) <=> k \in j .. q - 1 \/ k \in CodeFrom(text, e)
        <4>1. CASE k < q
          BY <1>0, <2>2, <2>5, <3>2, <4>1 DEF CodeFrom, L
        <4>2. CASE k = q
          <5>1. k \notin j .. q - 1 /\ text[k] \in Quotes
            BY <1>0, <2>2, <2>7, <3>2, <4>2
          <5> QED
            BY Zenon, <5>1 DEF CodeFrom
        <4>3. CASE k > q
          <5>1. k \in (q + 1) .. N /\ k \notin j .. q - 1
            BY <1>0, <3>2, <4>3
          <5>2. CASE k < e
            <6>1. L[k - 1].quote # "code" /\ k \notin e .. N
              BY <1>0, <3>5, <3>6, <5>1, <5>2
            <6> QED
              BY Zenon, <5>1, <6>1 DEF CodeFrom, L
          <5>3. CASE ~(k < e)
            <6>1. k \in e .. N
              BY <1>0, <3>6, <5>1, <5>3
            <6> QED
              BY Zenon, <5>1, <6>1 DEF CodeFrom
          <5> QED
            BY <5>2, <5>3
        <4> QED
          BY <1>0, <3>2, <4>1, <4>2, <4>3
      <3>9. (j .. q - 1) \subseteq j .. N /\ CodeFrom(text, e) \subseteq j .. N
            /\ CodeFrom(text, j) \subseteq j .. N
        BY <1>0, <2>4, <2>7, <3>2, <3>6 DEF CodeFrom
      <3> QED
        BY Zenon, <3>1, <3>7, <3>8, <3>9
    <2> QED
      BY <1>0, <2>2, <2>6, <2>7
  <1>3. N + 3 \in S
    <2>1. N + 3 \in Nat
      BY <1>0
    <2> HIDE DEF S, N
    <2>2. Nat \subseteq S
      BY <1>1, <1>2, Induction
    <2> QED
      BY Zenon, <2>1, <2>2
  <1> QED
    BY <1>0, <1>3

\* A configuration the checker passes builds.
LEMMA CheckedConfigBuilds ==
    ASSUME NEW c, checkConfig(c)
    PROVE  /\ c.rule.form = "plain" => validateSemantics(c)
           /\ c.enabled /\ c.source = "directory" /\ c.loads /\ c.instantiates =>
                  BuildGeneration(c) /\ (c.lock = "current" => Disabled(c) = "")
  <1>1. /\ c.listed /\ c.bound = {"http"} /\ c.operation = "op" /\ c.notify \subseteq {"channel"}
        /\ c.rule.form \notin {"loose", "dynamic"}
        /\ c.rule.form = "plain" =>
               c.rule.card = "card" /\ (c.rule.call = "signal" => c.rule.signal \in c.manifest.signals)
    BY Zenon DEF checkConfig, checkRules
  <1>2. c.rule.form = "plain" => validateSemantics(c)
    BY Zenon, <1>1 DEF validateSemantics, referencedCardIDs
  <1>3. ASSUME c.enabled, c.source = "directory", c.loads, c.instantiates
        PROVE  BuildGeneration(c) /\ (c.lock = "current" => Disabled(c) = "")
    <2>1. Disabled(c) = CASE c.lock = "none" -> "unapproved"
                          [] c.lock = "stale" -> "permissions-changed"
                          [] OTHER -> ""
      BY Zenon, <1>1, <1>3 DEF Disabled
    <2>2. Disabled(c) \notin {"integration-missing", "config-error"}
      BY Zenon, <2>1
    <2>3. SignalTypes(c) = c.manifest.signals
      BY Zenon, <2>2 DEF SignalTypes
    <2>4. Compile(c.rule, c.manifest.signals)
      BY Zenon, <1>1 DEF Compile
    <2>5. c.lock = "current" => Disabled(c) = ""
      BY Zenon, <2>1
    <2> QED
      BY Zenon, <1>3, <2>3, <2>4, <2>5 DEF BuildGeneration
  <1> QED
    BY Zenon, <1>2, <1>3

\* Whatever a configuration and the text of a rule are: a configuration the contract
\* checker has no issue with builds a generation once its integration loads, and the
\* checker looks for calls exactly outside of the string literals.
THEOREM ConfigReadingsAgree == SchemaHolds => ConfigsAgree
  <1>1. CheckedBuilds
    BY Zenon, CheckedConfigBuilds DEF CheckedBuilds
  <1>2. ASSUME SchemaHolds, input.what = "text"
        PROVE  UNION CodeSpans(input.text) =
                   {k \in DOMAIN input.text :
                       Lexed(input.text)[k - 1].quote = "code" /\ input.text[k] \notin Quotes}
    <2> DEFINE text == input.text
    <2>1. text \in Seq(TextSymbols)
      BY Zenon, <1>2 DEF SchemaHolds
    <2> HIDE DEF text
    <2>2. /\ Len(text) \in Nat /\ DOMAIN text = 1 .. Len(text) /\ 1 \in 1 .. Len(text) + 3
          /\ Lexed(text)[1 - 1].quote = "code"
      BY <2>1, LexedIs
    <2>3. UNION SpansFrom(text)[1] = CodeFrom(text, 1)
      BY Zenon, <2>1, <2>2, SpansAreCode
    <2> QED
      BY Zenon, <2>2, <2>3 DEF CodeSpans, CodeFrom, text
  <1> QED
    BY Zenon, <1>1, <1>2 DEF SpansAgree, ConfigsAgree

\* What the module reads is what the schemas let through.
THEOREM SchemasHold == ContractsSpec => []SchemaHolds
  <1>1. InputInit => SchemaHolds
    BY DEF InputInit, SchemaHolds
  <1>2. ASSUME SchemaHolds, [ContractsNext]_input PROVE SchemaHolds'
    <2>1. ASSUME NEW w \in {"manifest", "config"}, input'.what = w PROVE SchemaHolds'
      BY <2>1 DEF SchemaHolds
    <2>2. CASE PickStep \/ PickDeclared \/ PickConfig
      <3>1. ASSUME PickStep \/ PickDeclared PROVE input'.what = "manifest"
        <4>1. \E m : input' = [what |-> "manifest", m |-> m]
          BY Zenon, <3>1 DEF PickStep, PickDeclared
        <4> QED
          BY <4>1
      <3>2. ASSUME PickConfig PROVE input'.what = "config"
        <4>1. PICK listed, enabled, loads, instantiates \in BOOLEAN, source \in {"directory", "builtin"},
                   operation \in {"op", "other"}, bound \in {{}, {"http"}, {"docker"}, {"ghost"}},
                   held \in {"none", "stale", "current"}, form \in {"plain", "loose", "dynamic", "quoted"},
                   card \in {"card", "ghost"}, call \in {"signal", "state"}, signal \in {"x", "y"},
                   notify \in {{}, {"ghost"}} :
                  input' = [what |-> "config", manifest |-> Base, listed |-> listed, enabled |-> enabled,
                            loads |-> loads, instantiates |-> instantiates, source |-> source,
                            operation |-> operation, bound |-> bound, lock |-> held, notify |-> notify,
                            rule |-> [form |-> form, card |-> card, call |-> call, signal |-> signal]]
          BY Zenon, <3>2 DEF PickConfig
        <4> QED
          BY <4>1
      <3> QED
        BY <2>1, <2>2, <3>1, <3>2
    <2>3. CASE PickLock
      <3>1. PICK asked, held \in LockRoutes, caps, granted \in SUBSET {"http"},
                 limit, override \in LockLimits, kb \in 1 .. MaxKB, digest \in 1 .. 2 :
                input' = [what |-> "lock",
                          m |-> [Base EXCEPT !.routes = {asked}, !.caps = caps, !.limit = limit],
                          e |-> [routes |-> {held}, caps |-> granted, override |-> override,
                                 limit |-> kb, digest |-> digest]]
        BY Zenon, <2>3 DEF PickLock
      <3> DEFINE m == [Base EXCEPT !.routes = {asked}, !.caps = caps, !.limit = limit]
      <3>2. m.limit = limit
        BY DEF Base
      <3> HIDE DEF m
      <3>3. input' = [what |-> "lock", m |-> m,
                      e |-> [routes |-> {held}, caps |-> granted, override |-> override,
                             limit |-> kb, digest |-> digest]]
        BY Zenon, <3>1 DEF m
      <3>4. input'.what = "lock" /\ input'.m.limit = limit /\ input'.e.override = override
        BY <3>2, <3>3
      <3>5. \A l \in LockLimits : l \in {<< >>} \cup [1 .. 1 -> Nat \ {0}]
        BY LimitsAssumption DEF LockLimits
      <3> QED
        BY <3>4, <3>5 DEF SchemaHolds
    <2>4. CASE PickText
      <3>0. PICK n \in 0 .. MaxText :
                \E text \in [1 .. n -> Letters] : input' = [what |-> "text", text |-> text]
        BY Zenon, <2>4 DEF PickText
      <3>1. PICK text \in [1 .. n -> Letters] : input' = [what |-> "text", text |-> text]
        BY Zenon, <3>0
      <3>2. Letters \subseteq TextSymbols
        BY Zenon DEF TextSymbols
      <3>3. n \in Nat
        OBVIOUS
      <3>4. text \in Seq(TextSymbols)
        BY <3>2, <3>3
      <3> QED
        BY <3>1, <3>4 DEF SchemaHolds
    <2>5. CASE UNCHANGED input
      BY Zenon, <1>2, <2>5 DEF SchemaHolds
    <2> QED
      BY <1>2, <2>2, <2>3, <2>4, <2>5 DEF ContractsNext
  <1> QED
    BY <1>1, <1>2, PTL DEF ContractsSpec

-----------------------------------------------------------------------------
(***************************************************************************)
(* Paths.  A canonical path is a fixed point of Canonicalise, and has no   *)
(* segment that an upstream would read as a dot segment.                   *)
(***************************************************************************)

CanonicalSegment(s) ==
    /\ s \in Segment /\ s # << >> /\ s \notin DotSegments
    /\ \A n \in DOMAIN s : s[n] \notin Forbidden /\ Normalised(s[n]) = s[n]
    /\ Each(Decoded, s) \notin DotSegments

CanonicalPath(path) == path \in Path /\ \A k \in DOMAIN path : CanonicalSegment(path[k])

LEMMA SymbolFacts ==
    ASSUME NEW x \in Character
    PROVE  /\ Normalised(x) \in Character /\ Decoded(x) \in Character
           /\ Normalised(Normalised(x)) = Normalised(x)
           /\ Decoded(Normalised(x)) = Decoded(x)
           /\ x \notin Forbidden => Normalised(x) \notin Forbidden
  <1>1. Decoded("a") = "a" /\ Decoded(".") = "." /\ Decoded("%3a") = ":"
    BY Zenon DEF Decoded
  <1>2. Normalised("a") = "a" /\ Normalised(".") = "." /\ Normalised("%3a") = "%3a"
    BY Zenon DEF Decoded, Normalised, isUnreserved
  <1>s. "a" \in Character /\ "." \in Character /\ ":" \in Character /\ "%3a" \in Character
    BY Zenon DEF Character
  <1>f. "a" \notin Forbidden /\ "." \notin Forbidden /\ "%3a" \notin Forbidden
    BY Zenon DEF Forbidden
  <1>3. CASE x = "%61"
    <2>1. Decoded(x) = "a" /\ Normalised(x) = "a"
      BY Zenon, <1>3 DEF Decoded, Normalised, isUnreserved
    <2> QED
      BY Zenon, <1>1, <1>2, <1>s, <1>f, <2>1
  <1>4. CASE x = "%2e"
    <2>1. Decoded(x) = "." /\ Normalised(x) = "."
      BY Zenon, <1>4 DEF Decoded, Normalised, isUnreserved
    <2> QED
      BY Zenon, <1>1, <1>2, <1>s, <1>f, <2>1
  <1>5. CASE x = "%3A"
    <2>1. Decoded(x) = ":" /\ Normalised(x) = "%3a"
      BY Zenon, <1>5 DEF Decoded, Normalised, isUnreserved
    <2> QED
      BY Zenon, <1>1, <1>2, <1>s, <1>f, <2>1
  <1>6. CASE x = "%3a"
    <2>1. Decoded(x) = ":" /\ Normalised(x) = x
      BY Zenon, <1>1, <1>2, <1>6
    <2> QED
      BY Zenon, <1>s, <2>1
  <1>7. CASE x \notin {"%61", "%2e", "%3A", "%3a"}
    <2>1. Decoded(x) = x /\ Normalised(x) = x
      BY Zenon, <1>7 DEF Decoded, Normalised, isUnreserved
    <2> QED
      BY Zenon, <2>1
  <1> QED
    BY Zenon, <1>3, <1>4, <1>5, <1>6, <1>7

LEMMA EachIs ==
    ASSUME NEW s \in Segment
    PROVE  /\ Each(Normalised, s) \in Segment /\ Len(Each(Normalised, s)) = Len(s)
           /\ Each(Decoded, s) \in Segment /\ Len(Each(Decoded, s)) = Len(s)
           /\ \A n \in 1 .. Len(s) : /\ Each(Normalised, s)[n] = Normalised(s[n])
                                     /\ Each(Decoded, s)[n] = Decoded(s[n])
  <1>1. ASSUME NEW n \in 1 .. Len(s)
        PROVE  s[n] \in Character /\ Normalised(s[n]) \in Character /\ Decoded(s[n]) \in Character
    <2>1. s[n] \in Character
      BY DEF Segment
    <2> QED
      BY Zenon, <2>1, SymbolFacts
  <1>2. DOMAIN s = 1 .. Len(s) /\ Len(s) \in Nat
    BY DEF Segment
  <1> QED
    BY <1>1, <1>2 DEF Each, Segment

\* What Canonicalise makes of a segment.
LEMMA SegmentCanonical ==
    ASSUME NEW s \in Segment, canonicaliseSegment(s) # {},
           \A n \in DOMAIN s : s[n] \notin Forbidden
    PROVE  CanonicalSegment(Each(Normalised, s)) /\ canonicaliseSegment(s) = {Each(Normalised, s)}
  <1> DEFINE c == Each(Normalised, s)
  <1>1. s # << >> /\ s \notin DotSegments /\ Each(Decoded, s) \notin DotSegments
        /\ canonicaliseSegment(s) = {c}
    BY Zenon DEF canonicaliseSegment
  <1>2. c \in Segment /\ Len(c) = Len(s) /\ \A n \in 1 .. Len(s) : c[n] = Normalised(s[n])
    BY EachIs
  <1> HIDE DEF c
  <1>3. c # << >>
    BY <1>1, <1>2 DEF Segment
  <1>4. /\ \A n \in DOMAIN c : c[n] \notin Forbidden /\ Normalised(c[n]) = c[n]
        /\ \A n \in 1 .. Len(s) : Decoded(c[n]) = Decoded(s[n])
    <2>1. DOMAIN c = 1 .. Len(s) /\ DOMAIN s = 1 .. Len(s) /\ \A n \in 1 .. Len(s) : s[n] \in Character
      BY <1>2 DEF Segment
    <2> QED
      BY Zenon, <1>2, <2>1, SymbolFacts
  <1>5. Each(Decoded, c) = Each(Decoded, s)
    <2>2. DOMAIN c = 1 .. Len(s) /\ DOMAIN s = 1 .. Len(s)
      BY <1>2 DEF Segment
    <2> QED
      BY <1>4, <2>2 DEF Each
  <1>6. ASSUME c \in DotSegments PROVE FALSE
    <2>1. \A n \in DOMAIN c : Decoded(c[n]) = c[n]
      BY <1>6 DEF DotSegments, Decoded
    <2>2. Each(Decoded, c) = c
      BY <1>2, <2>1 DEF Each, Segment
    <2> QED
      BY <1>1, <1>5, <1>6, <2>2
  <1> QED
    BY <1>1, <1>2, <1>3, <1>4, <1>5, <1>6 DEF CanonicalSegment, c

LEMMA CanonicalSegmentFixed ==
    ASSUME NEW s, CanonicalSegment(s)
    PROVE  s \in Segment /\ canonicaliseSegment(s) = {s} /\ Each(Normalised, s) = s
  <1>1. s \in Segment /\ \A n \in DOMAIN s : Normalised(s[n]) = s[n]
    BY Zenon DEF CanonicalSegment
  <1>2. Each(Normalised, s) = s
    BY <1>1 DEF Each, Segment
  <1> QED
    BY Zenon, <1>1, <1>2 DEF CanonicalSegment, canonicaliseSegment

LEMMA CanonicaliseIs ==
    ASSUME NEW path \in Path, NEW c \in Canonicalise(path)
    PROVE  /\ CanonicalPath(c) /\ Len(c) = Len(path) /\ Canonicalise(path) = {c}
           /\ \A k \in 1 .. Len(path) : c[k] = Each(Normalised, path[k]) /\ path[k] \in Segment
           /\ \A k \in 1 .. Len(path) : path[k] # << >> /\ Each(Decoded, path[k]) \notin DotSegments
  <1>1. /\ DOMAIN path = 1 .. Len(path) /\ Len(path) \in Nat
        /\ \A k \in 1 .. Len(path) : path[k] \in Segment
    BY DEF Path, Segment
  <1>2. /\ \A k \in DOMAIN path : /\ \A n \in DOMAIN path[k] : path[k][n] \notin Forbidden
                                  /\ canonicaliseSegment(path[k]) # {}
        /\ Canonicalise(path) = {[k \in DOMAIN path |-> CHOOSE s \in canonicaliseSegment(path[k]) : TRUE]}
    BY Zenon DEF Canonicalise
  <1>3. ASSUME NEW k \in 1 .. Len(path)
        PROVE  /\ CanonicalSegment(Each(Normalised, path[k]))
               /\ (CHOOSE s \in canonicaliseSegment(path[k]) : TRUE) = Each(Normalised, path[k])
               /\ path[k] # << >> /\ Each(Decoded, path[k]) \notin DotSegments
    <2>1. /\ CanonicalSegment(Each(Normalised, path[k]))
          /\ canonicaliseSegment(path[k]) = {Each(Normalised, path[k])}
      BY Zenon, <1>1, <1>2, SegmentCanonical
    <2>2. path[k] # << >> /\ Each(Decoded, path[k]) \notin DotSegments
      BY Zenon, <1>1, <1>2 DEF canonicaliseSegment
    <2> QED
      BY Zenon, <2>1, <2>2
  <1>4. c = [k \in 1 .. Len(path) |-> Each(Normalised, path[k])]
    <2>1. c = [k \in 1 .. Len(path) |-> CHOOSE s \in canonicaliseSegment(path[k]) : TRUE]
      BY Zenon, <1>1, <1>2
    <2> QED
      BY Zenon, <1>3, <2>1
  <1>5. \A k \in 1 .. Len(path) : Each(Normalised, path[k]) \in Segment
    BY Zenon, <1>1, EachIs
  <1>6. c \in Path /\ Len(c) = Len(path) /\ DOMAIN c = 1 .. Len(path)
    BY <1>1, <1>4, <1>5 DEF Path, Segment
  <1>7. \A k \in 1 .. Len(path) : c[k] = Each(Normalised, path[k])
    BY Zenon, <1>4
  <1> QED
    BY Zenon, <1>1, <1>2, <1>3, <1>6, <1>7 DEF CanonicalPath

LEMMA CanonicalFixed ==
    ASSUME NEW c, CanonicalPath(c)
    PROVE  c \in Path /\ Canonicalise(c) = {c}
  <1>1. c \in Path /\ \A k \in DOMAIN c : CanonicalSegment(c[k])
    BY Zenon DEF CanonicalPath
  <1>2. \A k \in DOMAIN c : /\ canonicaliseSegment(c[k]) = {c[k]}
                            /\ \A n \in DOMAIN c[k] : c[k][n] \notin Forbidden
    <2>1. ASSUME NEW k \in DOMAIN c
          PROVE  canonicaliseSegment(c[k]) = {c[k]}
      BY Zenon, <1>1, CanonicalSegmentFixed
    <2>2. ASSUME NEW k \in DOMAIN c, NEW n \in DOMAIN c[k]
          PROVE  c[k][n] \notin Forbidden
      BY Zenon, <1>1 DEF CanonicalSegment
    <2> QED
      BY Zenon, <2>1, <2>2
  <1>3. \A k \in DOMAIN c : canonicaliseSegment(c[k]) # {} /\ (CHOOSE s \in canonicaliseSegment(c[k]) : TRUE) = c[k]
    <2>1. ASSUME NEW R, NEW e, R = {e} PROVE R # {} /\ (CHOOSE s \in R : TRUE) = e
      <3>1. e \in R /\ \A s \in R : s = e
        BY Zenon, <2>1
      <3> QED
        BY Zenon, <3>1
    <2> QED
      BY Zenon, <1>2, <2>1
  <1>4. Canonicalise(c) = {[k \in DOMAIN c |-> CHOOSE s \in canonicaliseSegment(c[k]) : TRUE]}
    <2>1. ~\E k \in DOMAIN c : \/ \E n \in DOMAIN c[k] : c[k][n] \in Forbidden
                               \/ canonicaliseSegment(c[k]) = {}
      BY Zenon, <1>2, <1>3
    <2> QED
      BY Zenon, <2>1 DEF Canonicalise
  <1>5. [k \in DOMAIN c |-> CHOOSE s \in canonicaliseSegment(c[k]) : TRUE] = [k \in DOMAIN c |-> c[k]]
    BY Zenon, <1>3
  <1>6. [k \in DOMAIN c |-> c[k]] = c
    BY <1>1 DEF Path
  <1> QED
    BY Zenon, <1>1, <1>4, <1>5, <1>6

LEMMA ConcatIs ==
    ASSUME NEW T, NEW l \in Seq(T), NEW r \in Seq(T)
    PROVE  /\ l \o r \in Seq(T) /\ Len(l) \in Nat /\ Len(r) \in Nat /\ Len(l \o r) = Len(l) + Len(r)
           /\ \A k \in 1 .. Len(l) : (l \o r)[k] = l[k]
           /\ \A k \in 1 .. Len(r) : (l \o r)[k + Len(l)] = r[k]
  OBVIOUS

LEMMA SameSequence ==
    ASSUME NEW T, NEW s \in Seq(T), NEW t \in Seq(T), Len(s) = Len(t),
           \A k \in 1 .. Len(s) : s[k] = t[k]
    PROVE  s = t
  OBVIOUS

LEMMA CanonicalJoin ==
    ASSUME NEW b, NEW c, CanonicalPath(b), CanonicalPath(c)
    PROVE  CanonicalPath(b \o c)
  <1>1. b \in Path /\ c \in Path
    BY Zenon DEF CanonicalPath
  <1>2. b \o c \in Path /\ Len(b \o c) = Len(b) + Len(c) /\ Len(b) \in Nat /\ Len(c) \in Nat
    BY <1>1 DEF Path
  <1>3. ASSUME NEW k \in DOMAIN (b \o c) PROVE CanonicalSegment((b \o c)[k])
    <2>1. k \in 1 .. Len(b) + Len(c)
      BY <1>2 DEF Path
    <2>2. CASE k <= Len(b)
      <3>1. k \in DOMAIN b /\ (b \o c)[k] = b[k]
        BY <1>1, <2>1, <2>2 DEF Path
      <3> QED
        BY Zenon, <3>1 DEF CanonicalPath
    <2>3. CASE k > Len(b)
      <3>1. k - Len(b) \in DOMAIN c /\ (b \o c)[k] = c[k - Len(b)]
        BY <1>1, <1>2, <2>1, <2>3 DEF Path
      <3> QED
        BY Zenon, <3>1 DEF CanonicalPath
    <2> QED
      BY <1>2, <2>1, <2>2, <2>3
  <1> QED
    BY Zenon, <1>2, <1>3 DEF CanonicalPath

LEMMA CanonicalRest ==
    ASSUME NEW c, CanonicalPath(c), NEW n \in 0 .. Len(c)
    PROVE  /\ CanonicalPath(SubSeq(c, n + 1, Len(c)))
           /\ SubSeq(c, 1, n) \o SubSeq(c, n + 1, Len(c)) = c
  <1> DEFINE r == SubSeq(c, n + 1, Len(c))
  <1>1. c \in Path /\ Len(c) \in Nat
    BY DEF CanonicalPath, Path
  <1>2. r \in Path /\ DOMAIN r = 1 .. Len(c) - n /\ \A k \in 1 .. Len(c) - n : r[k] = c[k + n]
    BY <1>1 DEF Path
  <1>3. ASSUME NEW k \in DOMAIN r PROVE CanonicalSegment(r[k])
    <2>1. k + n \in DOMAIN c /\ r[k] = c[k + n]
      BY <1>1, <1>2 DEF Path
    <2> QED
      BY Zenon, <2>1 DEF CanonicalPath
  <1>4. SubSeq(c, 1, n) \o r = c
    <2> DEFINE l == SubSeq(c, 1, n)
    <2>0. n \in Nat /\ n <= Len(c)
      BY <1>1
    <2>1. l \in Path /\ Len(l) = n /\ \A k \in 1 .. n : l[k] = c[k]
      BY <1>1 DEF Path
    <2>2. r \in Path /\ Len(r) = Len(c) - n
      BY <1>1, <1>2 DEF Path
    <2> HIDE DEF l, r
    <2> DEFINE j == l \o r
    <2>3. /\ j \in Path /\ Len(j) = Len(l) + Len(r)
          /\ \A k \in 1 .. Len(l) : j[k] = l[k]
          /\ \A k \in 1 .. Len(r) : j[k + Len(l)] = r[k]
      BY <2>1, <2>2, ConcatIs DEF Path
    <2> HIDE DEF j
    <2>4. Len(j) = Len(c)
      BY <1>1, <2>0, <2>1, <2>2, <2>3
    <2>5. ASSUME NEW k \in 1 .. Len(c) PROVE j[k] = c[k]
      <3>1. CASE k <= n
        BY <1>1, <2>0, <2>1, <2>3, <3>1
      <3>2. CASE k > n
        <4>1. k - n \in 1 .. Len(r) /\ k - n \in 1 .. Len(c) - n /\ (k - n) + n = k
          BY <1>1, <2>0, <2>2, <3>2
        <4>2. j[(k - n) + Len(l)] = r[k - n]
          BY Zenon, <2>3, <4>1
        <4>3. r[k - n] = c[(k - n) + n]
          BY Zenon, <1>2, <4>1
        <4> QED
          BY Zenon, <2>1, <4>1, <4>2, <4>3
      <3> QED
        BY <1>1, <2>0, <3>1, <3>2
    <2>6. j = c
      BY Zenon, <1>1, <2>3, <2>4, <2>5, SameSequence DEF Path
    <2> QED
      BY Zenon, <2>6 DEF j, l
  <1> QED
    BY Zenon, <1>2, <1>3, <1>4 DEF CanonicalPath

\* Joining and taking apart, for arbitrary paths.
LEMMA RoundTrips ==
    ASSUME NEW base \in Path, NEW path \in Path, NEW c \in Canonicalise(path)
    PROVE  /\ \A joined \in joinPath(base, c) : relativeRedirectPath(base, joined) = {c}
           /\ \A r \in relativeRedirectPath(base, c) : joinPath(base, r) \subseteq {c}
  <1>1. CanonicalPath(c) /\ c \in Path /\ Canonicalise(c) = {c}
    BY Zenon, CanonicaliseIs, CanonicalFixed
  <1>2. \A b \in Canonicalise(base) : CanonicalPath(b) /\ b \in Path /\ Canonicalise(base) = {b}
    BY Zenon, CanonicaliseIs, CanonicalFixed
  <1>3. ASSUME NEW joined \in joinPath(base, c) PROVE relativeRedirectPath(base, joined) = {c}
    <2>1. PICK b \in Canonicalise(base) : joined = b \o c
      BY <1>1 DEF joinPath
    <2>2. b \in Path /\ Canonicalise(base) = {b}
      BY Zenon, <1>2
    <2>3. /\ Len(joined) = Len(b) + Len(c) /\ Len(b) \in Nat /\ Len(c) \in Nat
          /\ SubSeq(joined, 1, Len(b)) = b /\ SubSeq(b, 1, Len(b)) = b
          /\ SubSeq(joined, Len(b) + 1, Len(joined)) = c
      BY <1>1, <2>1, <2>2 DEF Path
    <2>4. HasPathPrefix(joined, b)
      BY <2>3 DEF HasPathPrefix
    <2> QED
      BY Zenon, <2>2, <2>3, <2>4 DEF relativeRedirectPath
  <1>4. ASSUME NEW r \in relativeRedirectPath(base, c) PROVE joinPath(base, r) \subseteq {c}
    <2>1. PICK b \in Canonicalise(base) : /\ HasPathPrefix(c, b)
                                          /\ r = SubSeq(c, Len(b) + 1, Len(c))
      BY Zenon DEF relativeRedirectPath
    <2>2. b \in Path /\ Canonicalise(base) = {b}
      BY Zenon, <1>2
    <2>3. Len(b) \in 0 .. Len(c) /\ SubSeq(c, 1, Len(b)) = b
      <3>1. Len(b) <= Len(c) /\ SubSeq(c, 1, Len(b)) = b
        BY Zenon, <2>1 DEF HasPathPrefix
      <3>2. Len(b) \in Nat
        BY <2>2 DEF Path
      <3> QED
        BY <1>1, <3>1, <3>2 DEF Path
    <2>4. Canonicalise(r) = {r} /\ b \o r = c
      BY Zenon, <1>1, <2>1, <2>3, CanonicalRest, CanonicalFixed
    <2>5. ASSUME NEW j \in joinPath(base, r) PROVE j = c
      <3>1. PICK d \in Canonicalise(base), p \in Canonicalise(r) : j = d \o p
        BY DEF joinPath
      <3> QED
        BY Zenon, <2>2, <2>4, <3>1
    <2> QED
      BY Zenon, <2>5
  <1> QED
    BY Zenon, <1>3, <1>4

ResolveStep(done, s) ==
    IF s = <<".", ".">> THEN SubSeq(done, 1, Len(done) - 1)
    ELSE IF s = <<".">> THEN done ELSE Append(done, s)

ResolveRule(path, m, f) ==
    f = [n \in 0 .. m |-> IF n = 0 THEN << >> ELSE ResolveStep(f[n - 1], Each(Decoded, path[n]))]

LEMMA ResolveExists ==
    ASSUME NEW path, NEW m \in Nat
    PROVE  \E f : ResolveRule(path, m, f)
  <1> DEFINE S == {n \in Nat : \E f : ResolveRule(path, n, f)}
  <1>1. 0 \in S
    <2>1. ResolveRule(path, 0, [n \in 0 .. 0 |-> << >>])
      BY DEF ResolveRule
    <2> QED
      BY <2>1
  <1>2. ASSUME NEW n \in Nat, n \in S PROVE n + 1 \in S
    <2>1. PICK f : ResolveRule(path, n, f)
      BY <1>2
    <2> DEFINE step(h, k) == ResolveStep(h[k - 1], Each(Decoded, path[k]))
               g == [k \in 0 .. (n + 1) |-> IF k = n + 1 THEN step(f, k) ELSE f[k]]
    <2>2. ASSUME NEW k \in 0 .. (n + 1) PROVE g[k] = IF k = 0 THEN << >> ELSE step(g, k)
      <3>1. CASE k = n + 1
        <4>1. g[k] = step(f, k) /\ g[k - 1] = f[k - 1] /\ k # 0
          BY <3>1
        <4> HIDE DEF g
        <4> QED
          BY Zenon, <4>1
      <3>2. CASE k # n + 1
        <4>1. k \in 0 .. n /\ g[k] = f[k] /\ (k # 0 => g[k - 1] = f[k - 1])
          BY <3>2
        <4> HIDE DEF g
        <4>2. f[k] = IF k = 0 THEN << >> ELSE step(f, k)
          BY Zenon, <2>1, <4>1 DEF ResolveRule
        <4> QED
          BY Zenon, <4>1, <4>2
      <3> QED
        BY <3>1, <3>2
    <2>3. \E h : ResolveRule(path, n + 1, h)
      <3>1. g = [k \in 0 .. (n + 1) |-> IF k = 0 THEN << >> ELSE step(g, k)]
        <4> HIDE DEF step
        <4> QED
          BY <2>2
      <3> HIDE DEF g
      <3> QED
        BY Zenon, <3>1 DEF ResolveRule
    <2> QED
      BY <2>3
  <1> HIDE DEF S
  <1>3. m \in S
    BY <1>1, <1>2, Induction
  <1> QED
    BY <1>3 DEF S

\* Without dot segments there is nothing to resolve.
LEMMA ResolvedIs ==
    ASSUME NEW path \in Path, \A k \in 1 .. Len(path) : Each(Decoded, path[k]) \notin DotSegments
    PROVE  /\ Resolved(path) \in Path /\ Len(Resolved(path)) = Len(path)
           /\ \A k \in 1 .. Len(path) : Resolved(path)[k] = Each(Decoded, path[k])
  <1> DEFINE N == Len(path)
             done == CHOOSE f : ResolveRule(path, N, f)
             S == {n \in Nat : n <= N => /\ done[n] \in Path /\ Len(done[n]) = n
                                         /\ \A k \in 1 .. n : done[n][k] = Each(Decoded, path[k])}
  <1>0. N \in Nat /\ \A k \in 1 .. N : path[k] \in Segment
    BY DEF Path, Segment
  <1>1. Resolved(path) = done[N]
    BY Zenon DEF Resolved, ResolveRule, ResolveStep
  <1>2. ResolveRule(path, N, done)
    BY Zenon, <1>0, ResolveExists
  <1> HIDE DEF done
  <1>3. 0 \in S
    <2>1. done[0] = << >>
      BY <1>0, <1>2 DEF ResolveRule
    <2>2. << >> \in Path /\ Len(<< >>) = 0
      BY DEF Path
    <2> QED
      BY <2>1, <2>2
  <1>4. ASSUME NEW n \in Nat, n \in S PROVE n + 1 \in S
    <2>1. SUFFICES ASSUME n + 1 <= N
                   PROVE  /\ done[n + 1] \in Path /\ Len(done[n + 1]) = n + 1
                          /\ \A k \in 1 .. n + 1 : done[n + 1][k] = Each(Decoded, path[k])
      OBVIOUS
    <2> DEFINE s == Each(Decoded, path[n + 1])
    <2>2. n + 1 \in 0 .. N /\ n + 1 \in 1 .. N /\ n + 1 # 0 /\ (n + 1) - 1 = n
      BY <1>0, <2>1
    <2>3. done[n + 1] = ResolveStep(done[n], s)
      <3>1. done[n + 1] = ResolveStep(done[(n + 1) - 1], s)
        BY Zenon, <1>2, <2>2 DEF ResolveRule
      <3> QED
        BY Zenon, <2>2, <3>1
    <2>4. s \notin DotSegments /\ s \in Segment
      BY Zenon, <1>0, <2>2, EachIs
    <2>5. /\ done[n] \in Path /\ Len(done[n]) = n
          /\ \A k \in 1 .. n : done[n][k] = Each(Decoded, path[k])
      BY <1>0, <1>4, <2>1
    <2>6. done[n + 1] = Append(done[n], s)
      BY Zenon, <2>3, <2>4 DEF ResolveStep, DotSegments
    <2> DEFINE d == done[n]
    <2>7. /\ Append(d, s) \in Path /\ Len(Append(d, s)) = n + 1 /\ Append(d, s)[n + 1] = s
          /\ \A k \in 1 .. n : Append(d, s)[k] = d[k]
      <3>1. d \in Seq(Segment) /\ s \in Segment /\ Len(d) = n
        BY Zenon, <2>4, <2>5 DEF Path
      <3> HIDE DEF s, d
      <3> QED
        BY <3>1 DEF Path
    <2>8. ASSUME NEW k \in 1 .. n + 1 PROVE done[n + 1][k] = Each(Decoded, path[k])
      <3>1. k = n + 1 \/ k \in 1 .. n
        OBVIOUS
      <3> QED
        BY Zenon, <2>5, <2>6, <2>7, <3>1
    <2> QED
      BY Zenon, <2>6, <2>7, <2>8
  <1>5. N \in S
    <2> HIDE DEF S
    <2> QED
      BY <1>0, <1>3, <1>4, Induction
  <1> QED
    BY <1>0, <1>1, <1>5

LEMMA BelowBase ==
    ASSUME NEW base \in Path, NEW path \in Path, NEW joined \in joinPath(base, path)
    PROVE  \E n \in 0 .. Len(Resolved(joined)) : SubSeq(Resolved(joined), 1, n) = Resolved(base)
  <1>1. PICK b \in Canonicalise(base), c \in Canonicalise(path) : joined = b \o c
    BY DEF joinPath
  <1>2. /\ CanonicalPath(b) /\ Len(b) = Len(base) /\ CanonicalPath(c)
        /\ \A k \in 1 .. Len(base) : /\ b[k] = Each(Normalised, base[k]) /\ base[k] \in Segment
                                     /\ Each(Decoded, base[k]) \notin DotSegments
    BY Zenon, CanonicaliseIs
  <1>3. CanonicalPath(joined)
    BY Zenon, <1>1, <1>2, CanonicalJoin
  <1>4. /\ b \in Path /\ c \in Path /\ joined \in Path
        /\ \A k \in 1 .. Len(joined) : Each(Decoded, joined[k]) \notin DotSegments
    <2>1. b \in Path /\ c \in Path /\ joined \in Path
      BY Zenon, <1>2, <1>3 DEF CanonicalPath
    <2>2. DOMAIN joined = 1 .. Len(joined)
      BY <2>1 DEF Path
    <2> QED
      BY Zenon, <1>3, <2>1, <2>2 DEF CanonicalPath, CanonicalSegment
  <1>5. /\ Len(base) \in Nat /\ Len(joined) \in Nat /\ Len(base) <= Len(joined)
        /\ \A k \in 1 .. Len(base) : joined[k] = b[k] /\ k \in 1 .. Len(joined)
    <2>1. /\ Len(b) \in Nat /\ Len(c) \in Nat /\ Len(joined) = Len(b) + Len(c)
          /\ \A k \in 1 .. Len(b) : joined[k] = b[k]
      BY Zenon, <1>1, <1>4, ConcatIs DEF Path
    <2> QED
      BY <1>2, <2>1
  <1>6. ASSUME NEW k \in 1 .. Len(base) PROVE Each(Decoded, joined[k]) = Each(Decoded, base[k])
    <2> DEFINE s == base[k]
               t == Each(Normalised, s)
    <2>1. s \in Segment /\ joined[k] = t
      BY Zenon, <1>2, <1>5
    <2>2. /\ t \in Segment /\ Len(t) = Len(s) /\ Each(Decoded, t) \in Segment /\ Each(Decoded, s) \in Segment
          /\ Len(Each(Decoded, t)) = Len(t) /\ Len(Each(Decoded, s)) = Len(s) /\ Len(s) \in Nat
          /\ \A n \in 1 .. Len(s) : t[n] = Normalised(s[n]) /\ Each(Decoded, s)[n] = Decoded(s[n])
          /\ \A n \in 1 .. Len(t) : Each(Decoded, t)[n] = Decoded(t[n])
      <3>1. t \in Segment
        BY Zenon, <2>1, EachIs
      <3>2. Len(s) \in Nat
        BY <2>1 DEF Segment
      <3> HIDE DEF s
      <3> QED
        BY Zenon, <2>1, <3>1, <3>2, EachIs
    <2>3. ASSUME NEW n \in 1 .. Len(s) PROVE Each(Decoded, t)[n] = Each(Decoded, s)[n]
      <3>1. s[n] \in Character
        <4> HIDE DEF s
        <4> QED
          BY <2>1 DEF Segment
      <3>2. Decoded(Normalised(s[n])) = Decoded(s[n])
        BY Zenon, <3>1, SymbolFacts
      <3> QED
        BY Zenon, <2>2, <3>2
    <2> DEFINE l == Each(Decoded, t)
               r == Each(Decoded, s)
    <2>4. l \in Seq(Character) /\ r \in Seq(Character) /\ Len(l) = Len(r) /\ \A n \in 1 .. Len(l) : l[n] = r[n]
      BY Zenon, <2>2, <2>3 DEF Segment
    <2>5. l = r
      <3> HIDE DEF l, r
      <3> QED
        BY Zenon, <2>4, SameSequence
    <2> QED
      BY Zenon, <2>1, <2>5
  <1>7. /\ Resolved(base) \in Path /\ Len(Resolved(base)) = Len(base)
        /\ \A k \in 1 .. Len(base) : Resolved(base)[k] = Each(Decoded, base[k])
    BY Zenon, <1>2, ResolvedIs
  <1>8. /\ Resolved(joined) \in Path /\ Len(Resolved(joined)) = Len(joined)
        /\ \A k \in 1 .. Len(joined) : Resolved(joined)[k] = Each(Decoded, joined[k])
    BY Zenon, <1>4, ResolvedIs
  <1>9. ASSUME NEW k \in 1 .. Len(base) PROVE Resolved(base)[k] = Resolved(joined)[k]
    BY Zenon, <1>5, <1>6, <1>7, <1>8
  <1> DEFINE u == Resolved(base)
             w == Resolved(joined)
  <1>10. u \in Path /\ w \in Path /\ Len(u) <= Len(w) /\ \A k \in 1 .. Len(u) : u[k] = w[k]
    BY <1>5, <1>7, <1>8, <1>9
  <1>11. Len(u) \in 0 .. Len(w) /\ SubSeq(w, 1, Len(u)) = u
    <2> HIDE DEF u, w
    <2>1. Len(u) \in Nat /\ Len(w) \in Nat
      BY <1>10 DEF Path
    <2>2. SubSeq(w, 1, Len(u)) \in Path /\ Len(SubSeq(w, 1, Len(u))) = Len(u)
      BY <1>10, <2>1 DEF Path
    <2>3. \A k \in 1 .. Len(u) : SubSeq(w, 1, Len(u))[k] = u[k]
      BY <1>10, <2>1 DEF Path
    <2> QED
      BY <1>10, <2>1, <2>2, <2>3, SameSequence DEF Path
  <1> QED
    BY Zenon, <1>11

\* Whatever the base path of a connection and the path of a request are: what they are
\* joined to stays below the base path, decoded and with its dot segments removed, and
\* relativeRedirectPath undoes joinPath (request.go: no way for the result to escape
\* base).
THEOREM PathsStayBelow == WellFormed => PathsKept
  <1> SUFFICES ASSUME WellFormed, input.what = "join" PROVE StaysBelowBase /\ RedirectRoundTrip
    BY Zenon DEF PathsKept, StaysBelowBase, RedirectRoundTrip
  <1>1. input.base \in Path /\ input.path \in Path
    BY DEF WellFormed
  <1>2. StaysBelowBase
    BY Zenon, <1>1, BelowBase DEF StaysBelowBase
  <1>3. RedirectRoundTrip
    BY Zenon, <1>1, RoundTrips DEF RedirectRoundTrip
  <1> QED
    BY <1>2, <1>3

-----------------------------------------------------------------------------
(* strings.Split. *)

PartsStep(parts, x) ==
    IF x = "*" THEN Append(parts, << >>)
    ELSE [parts EXCEPT ![Len(parts)] = Append(@, x)]

PartsRule(pattern, m, f) ==
    f = [n \in 0 .. m |-> IF n = 0 THEN << << >> >> ELSE PartsStep(f[n - 1], pattern[n])]

PartsOf(pattern) == CHOOSE f : PartsRule(pattern, Len(pattern), f)

LEMMA PartsExists ==
    ASSUME NEW pattern, NEW m \in Nat
    PROVE  \E f : PartsRule(pattern, m, f)
  <1> DEFINE S == {n \in Nat : \E f : PartsRule(pattern, n, f)}
  <1>1. 0 \in S
    <2>1. PartsRule(pattern, 0, [n \in 0 .. 0 |-> << << >> >>])
      BY DEF PartsRule
    <2> QED
      BY <2>1
  <1>2. ASSUME NEW n \in Nat, n \in S PROVE n + 1 \in S
    <2>1. PICK f : PartsRule(pattern, n, f)
      BY <1>2
    <2> DEFINE step(h, k) == PartsStep(h[k - 1], pattern[k])
               g == [k \in 0 .. (n + 1) |-> IF k = n + 1 THEN step(f, k) ELSE f[k]]
    <2>2. ASSUME NEW k \in 0 .. (n + 1) PROVE g[k] = IF k = 0 THEN << << >> >> ELSE step(g, k)
      <3>1. CASE k = n + 1
        <4>1. g[k] = step(f, k) /\ g[k - 1] = f[k - 1] /\ k # 0
          BY <3>1
        <4> HIDE DEF g
        <4> QED
          BY Zenon, <4>1
      <3>2. CASE k # n + 1
        <4>1. k \in 0 .. n /\ g[k] = f[k] /\ (k # 0 => g[k - 1] = f[k - 1])
          BY <3>2
        <4> HIDE DEF g
        <4>2. f[k] = IF k = 0 THEN << << >> >> ELSE step(f, k)
          BY Zenon, <2>1, <4>1 DEF PartsRule
        <4> QED
          BY Zenon, <4>1, <4>2
      <3> QED
        BY <3>1, <3>2
    <2>3. \E h : PartsRule(pattern, n + 1, h)
      <3>1. g = [k \in 0 .. (n + 1) |-> IF k = 0 THEN << << >> >> ELSE step(g, k)]
        <4> HIDE DEF step
        <4> QED
          BY <2>2
      <3> HIDE DEF g
      <3> QED
        BY Zenon, <3>1 DEF PartsRule
    <2> QED
      BY <2>3
  <1> HIDE DEF S
  <1>3. m \in S
    BY <1>1, <1>2, Induction
  <1> QED
    BY <1>3 DEF S

\* The parts of each beginning of a pattern.
LEMMA PartsAre ==
    ASSUME NEW pattern \in Segment
    PROVE  /\ Parts(pattern) = PartsOf(pattern)[Len(pattern)]
           /\ PartsOf(pattern)[0] = << << >> >>
           /\ \A n \in 1 .. Len(pattern) :
                  PartsOf(pattern)[n] = PartsStep(PartsOf(pattern)[n - 1], pattern[n])
  <1>0. Len(pattern) \in Nat
    BY DEF Segment
  <1>1. Parts(pattern) = PartsOf(pattern)[Len(pattern)]
    BY Zenon DEF Parts, PartsOf, PartsRule, PartsStep
  <1>2. PartsRule(pattern, Len(pattern), PartsOf(pattern))
    BY Zenon, <1>0, PartsExists DEF PartsOf
  <1>3. /\ 0 \in 0 .. Len(pattern)
        /\ \A n \in 1 .. Len(pattern) : n \in 0 .. Len(pattern) /\ n # 0
    BY <1>0
  <1>4. PartsOf(pattern)[0] = << << >> >>
    BY Zenon, <1>2, <1>3 DEF PartsRule
  <1>5. ASSUME NEW n \in 1 .. Len(pattern)
        PROVE  PartsOf(pattern)[n] = PartsStep(PartsOf(pattern)[n - 1], pattern[n])
    BY Zenon, <1>2, <1>3 DEF PartsRule
  <1> QED
    BY <1>1, <1>4, <1>5


\* Where a part ends that is put as far left as it fits.
FitStep(part, segment, to, from) ==
    LET fits == {k \in 0 .. to - Len(part) : /\ \E e \in from : e <= k
                                             /\ OccursAt(part, segment, k)}
    IN  IF fits = {} THEN {} ELSE {Leftmost(fits) + Len(part)}

FitRule(parts, segment, to, m, f) ==
    f = [n \in 1 .. m |-> IF n = 1 THEN {Len(parts[1])}
                          ELSE FitStep(parts[n], segment, to, f[n - 1])]

LEMMA FitExists ==
    ASSUME NEW parts, NEW segment, NEW to, NEW m \in Nat
    PROVE  \E f : FitRule(parts, segment, to, m, f)
  <1> DEFINE S == {n \in Nat : \E f : FitRule(parts, segment, to, n, f)}
             first == {Len(parts[1])}
             step(h, k) == FitStep(parts[k], segment, to, h[k - 1])
  <1>1. 0 \in S
    <2>1. [n \in 1 .. 0 |-> first] = [n \in 1 .. 0 |-> IF n = 1 THEN first ELSE step([k \in 1 .. 0 |-> first], n)]
      <3> HIDE DEF step, first
      <3> QED
        OBVIOUS
    <2>2. FitRule(parts, segment, to, 0, [n \in 1 .. 0 |-> first])
      BY Zenon, <2>1 DEF FitRule
    <2> QED
      BY <2>2
  <1>2. ASSUME NEW n \in Nat, n \in S PROVE n + 1 \in S
    <2>1. PICK f : FitRule(parts, segment, to, n, f)
      BY <1>2
    <2> DEFINE g == [k \in 1 .. (n + 1) |-> IF k # n + 1 THEN f[k] ELSE IF k = 1 THEN first ELSE step(f, k)]
    <2>2. ASSUME NEW k \in 1 .. (n + 1) PROVE g[k] = IF k = 1 THEN first ELSE step(g, k)
      <3>1. CASE k = n + 1
        <4>1. g[k] = (IF k = 1 THEN first ELSE step(f, k)) /\ (k # 1 => g[k - 1] = f[k - 1])
          <5> HIDE DEF first, step
          <5> QED
            BY <3>1
        <4> HIDE DEF g, first
        <4> QED
          BY Zenon, <4>1
      <3>2. CASE k # n + 1
        <4>1. k \in 1 .. n /\ g[k] = f[k] /\ (k # 1 => g[k - 1] = f[k - 1])
          BY <3>2
        <4> HIDE DEF g
        <4>2. f[k] = IF k = 1 THEN first ELSE step(f, k)
          BY Zenon, <2>1, <4>1 DEF FitRule
        <4> QED
          BY Zenon, <4>1, <4>2
      <3> QED
        BY <3>1, <3>2
    <2>3. \E h : FitRule(parts, segment, to, n + 1, h)
      <3>1. g = [k \in 1 .. (n + 1) |-> IF k = 1 THEN first ELSE step(g, k)]
        <4> HIDE DEF step, first
        <4> QED
          BY <2>2
      <3> HIDE DEF g
      <3> QED
        BY Zenon, <3>1 DEF FitRule
    <2> QED
      BY <2>3
  <1> HIDE DEF S
  <1>3. m \in S
    BY <1>1, <1>2, Induction
  <1> QED
    BY <1>3 DEF S

LEMMA FittedIs ==
    ASSUME NEW parts \in Seq(Segment), NEW segment, NEW to, Len(parts) >= 2
    PROVE  /\ Fitted(parts, segment, to)[1] = {Len(parts[1])}
           /\ \A n \in 2 .. Len(parts) - 1 :
                  Fitted(parts, segment, to)[n] =
                      FitStep(parts[n], segment, to, Fitted(parts, segment, to)[n - 1])
  <1> DEFINE m == Len(parts) - 1
             ends == Fitted(parts, segment, to)
  <1>1. m \in Nat /\ 1 \in 1 .. m /\ \A n \in 2 .. m : n \in 1 .. m /\ n # 1
    OBVIOUS
  <1>2. ends = CHOOSE f : FitRule(parts, segment, to, m, f)
    BY Zenon DEF Fitted, FitRule, FitStep
  <1> HIDE DEF ends
  <1>3. FitRule(parts, segment, to, m, ends)
    <2> HIDE DEF m
    <2> QED
      BY Zenon, <1>1, <1>2, FitExists
  <1> HIDE DEF m
  <1>4. ends[1] = {Len(parts[1])}
    BY Zenon, <1>1, <1>3 DEF FitRule
  <1>5. ASSUME NEW n \in 2 .. m PROVE ends[n] = FitStep(parts[n], segment, to, ends[n - 1])
    BY Zenon, <1>1, <1>3 DEF FitRule
  <1> QED
    BY Zenon, <1>4, <1>5 DEF ends, m

\* A star alone matches everything, and nothing matches only itself.
LEMMA StarMatches ==
    ASSUME NEW s \in Segment
    PROVE  matchSegment(<<"*">>, s)
  <1> DEFINE star == <<"*">>
             parts == Parts(star)
  <1>1. star \in Segment /\ Len(star) = 1 /\ star[1] = "*"
    <2>1. "*" \in Character
      BY Zenon DEF Character
    <2> QED
      BY <2>1 DEF Segment
  <1>2. parts \in Seq(Segment) /\ Len(parts) = 2 /\ parts[1] = << >> /\ parts[2] = << >>
    <2>1. 1 \in 1 .. Len(star) /\ 1 - 1 = 0
      BY <1>1
    <2> DEFINE one == << << >> >>
               none == << >>
    <2>2. parts = PartsStep(one, "*")
      BY Zenon, <1>1, <2>1, PartsAre
    <2>3. PartsStep(one, "*") = Append(one, none)
      BY Zenon DEF PartsStep
    <2>4. one \in Seq(Segment) /\ Len(one) = 1 /\ one[1] = none /\ none \in Segment
      BY DEF Segment
    <2> HIDE DEF star, parts, one, none
    <2>5. parts \in Seq(Segment) /\ Len(parts) = 2 /\ parts[1] = none /\ parts[2] = none
      <3>1. /\ parts \in Seq(Segment) /\ Len(parts) = Len(one) + 1 /\ parts[Len(one) + 1] = none
            /\ \A k \in 1 .. Len(one) : parts[k] = one[k]
        <4>1. one \in Seq(Segment) /\ none \in Segment
          BY <2>4
        <4>2. parts = Append(one, none)
          BY <2>2, <2>3
        <4> QED
          BY SMT, <4>1, <4>2
      <3>2. 1 \in 1 .. Len(one) /\ Len(one) + 1 = 2
        BY <2>4
      <3> QED
        BY Zenon, <2>4, <3>1, <3>2
    <2> QED
      BY <2>5 DEF none
  <1> HIDE DEF parts, star
  <1>3. Len(parts) = 2 /\ LastPart(parts) = << >> /\ parts[1] = << >> /\ Len(<< >>) = 0
    BY <1>2 DEF LastPart
  <1>4. Len(s) \in Nat /\ Len(s) - 0 = Len(s) /\ 0 <= Len(s)
    BY DEF Segment
  <1>5. ASSUME NEW to PROVE Fitted(parts, s, to)[1] # {}
    <2>1. parts \in Seq(Segment) /\ Len(parts) >= 2
      BY <1>2
    <2> QED
      BY Zenon, <2>1, FittedIs
  <1>6. \A k : OccursAt(<< >>, s, k)
    <2>1. DOMAIN << >> = {}
      OBVIOUS
    <2> QED
      BY Zenon, <2>1 DEF OccursAt
  <1>7. Len(parts) # 1 /\ Len(parts) - 1 = 1
    BY <1>3
  <1> QED
    BY Zenon, <1>3, <1>4, <1>5, <1>6, <1>7 DEF matchSegment, parts, star

LEMMA EmptyMatches == matchSegment(<< >>, << >>)
  <1> DEFINE none == << >>
  <1>1. none \in Segment /\ Len(none) = 0
    BY DEF Segment
  <1>2. Parts(none) = << << >> >>
    BY Zenon, <1>1, PartsAre
  <1>3. Len(<< << >> >>) = 1
    OBVIOUS
  <1> QED
    BY Zenon, <1>2, <1>3 DEF matchSegment

\* Match, segment by segment: of the root there is one segment, the empty one.
LEMMA MatchIs ==
    ASSUME NEW g \in Path, NEW p \in Path, Len(g) = Len(p),
           \A k \in 1 .. Len(p) : matchSegment(g[k], p[k])
    PROVE  Match(g, p)
  <1>1. CASE p = << >>
    <2>1. g = << >>
      BY <1>1 DEF Path
    <2>2. Split(g) = << << >> >> /\ Split(p) = << << >> >>
      BY Zenon, <1>1, <2>1 DEF Split
    <2>3. DOMAIN << << >> >> = {1} /\ << << >> >>[1] = << >>
      OBVIOUS
    <2> QED
      BY Zenon, <2>2, <2>3, EmptyMatches DEF Match
  <1>2. CASE p # << >>
    <2>1. g # << >> /\ DOMAIN p = 1 .. Len(p)
      BY <1>2 DEF Path
    <2>2. Split(g) = g /\ Split(p) = p
      BY Zenon, <1>2, <2>1 DEF Split
    <2> QED
      BY Zenon, <2>1, <2>2 DEF Match
  <1> QED
    BY <1>1, <1>2

LEMMA PlaceholderIs ==
    /\ Placeholder \in Segment /\ <<"b">> \in Segment /\ Placeholder # << >>
    /\ Placeholder \notin DotSegments
    /\ Each(Decoded, Placeholder) = Placeholder /\ Each(Normalised, Placeholder) = Placeholder
    /\ \A n \in DOMAIN Placeholder : Placeholder[n] \notin Forbidden
  <1>1. "{x}" \in Character /\ "b" \in Character
    BY Zenon DEF Character
  <1>2. Decoded("{x}") = "{x}" /\ Normalised("{x}") = "{x}" /\ "{x}" \notin Forbidden
    <2>1. Decoded("{x}") = "{x}"
      BY Zenon DEF Decoded
    <2>2. "{x}" \notin Forbidden
      BY Zenon DEF Forbidden
    <2> QED
      BY Zenon, <2>1, <2>2 DEF Normalised, isUnreserved
  <1>3. "{x}" # "."
    BY Zenon
  <1> DEFINE x == "{x}"
  <1>4. x \in Character /\ Decoded(x) = x /\ Normalised(x) = x /\ x \notin Forbidden /\ x # "."
    BY Zenon, <1>1, <1>2, <1>3
  <1>5. Placeholder = <<x>>
    BY Zenon DEF Placeholder
  <1> HIDE DEF x
  <1>6. /\ Placeholder \in Segment /\ Placeholder # << >> /\ DOMAIN Placeholder = {1}
        /\ Placeholder[1] = x /\ Len(Placeholder) = 1
    BY <1>4, <1>5 DEF Segment
  <1>7. Each(Decoded, Placeholder) = [n \in {1} |-> x] /\ Each(Normalised, Placeholder) = [n \in {1} |-> x]
    BY Zenon, <1>4, <1>6 DEF Each
  <1>8. [n \in {1} |-> x] = <<x>>
    OBVIOUS
  <1>9. Placeholder \notin DotSegments
    <2>1. <<x>> # <<".">> /\ <<x>> # <<".", ".">>
      BY <1>4
    <2> QED
      BY Zenon, <1>5, <2>1 DEF DotSegments
  <1>10. <<"b">> \in Segment
    <2>1. \A y \in Character : <<y>> \in Segment
      BY DEF Segment
    <2> QED
      BY Zenon, <1>1, <2>1
  <1> QED
    BY Zenon, <1>4, <1>5, <1>6, <1>7, <1>8, <1>9, <1>10

\* A template is a placeholder or canonical, segment by segment.
LEMMA TemplateIs ==
    ASSUME NEW raw \in Path, NEW t \in ParseTemplate(raw)
    PROVE  /\ t \in Path /\ Len(t) = Len(raw) /\ Len(raw) \in Nat
           /\ \A k \in 1 .. Len(raw) :
                  \/ raw[k] = Placeholder /\ t[k] = Placeholder
                  \/ /\ raw[k] # Placeholder /\ t[k] = Each(Normalised, raw[k])
                     /\ CanonicalSegment(t[k]) /\ canonicaliseSegment(raw[k]) = {t[k]}
                     /\ \A n \in DOMAIN raw[k] : raw[k][n] \notin Forbidden
  <1> DEFINE plain == [k \in DOMAIN raw |-> IF raw[k] = Placeholder THEN <<"b">> ELSE raw[k]]
  <1>1. PICK c \in Canonicalise(plain) :
            t = [k \in DOMAIN raw |-> IF raw[k] = Placeholder THEN Placeholder ELSE c[k]]
    BY Zenon DEF ParseTemplate
  <1>2. Len(raw) \in Nat /\ DOMAIN raw = 1 .. Len(raw) /\ \A k \in 1 .. Len(raw) : raw[k] \in Segment
    BY DEF Path
  <1>3. plain \in Path /\ Len(plain) = Len(raw) /\ DOMAIN plain = 1 .. Len(raw)
    <2> DEFINE b == <<"b">>
    <2>1. b \in Segment
      BY Zenon, PlaceholderIs
    <2>2. \A k \in 1 .. Len(raw) : (IF raw[k] = Placeholder THEN b ELSE raw[k]) \in Segment
      BY Zenon, <1>2, <2>1
    <2>3. plain = [k \in 1 .. Len(raw) |-> IF raw[k] = Placeholder THEN b ELSE raw[k]]
      BY Zenon, <1>2
    <2> HIDE DEF b, plain
    <2> QED
      BY <1>2, <2>2, <2>3 DEF Path
  <1>4. \A k \in 1 .. Len(raw) : raw[k] # Placeholder => plain[k] = raw[k]
    BY Zenon, <1>2
  <1> HIDE DEF plain
  <1>5. /\ CanonicalPath(c) /\ Len(c) = Len(raw)
        /\ \A k \in 1 .. Len(raw) : c[k] = Each(Normalised, plain[k])
    BY Zenon, <1>3, CanonicaliseIs
  <1>6. c \in Path /\ \A k \in 1 .. Len(raw) : c[k] \in Segment /\ CanonicalSegment(c[k])
    <2>1. c \in Path
      BY Zenon, <1>5 DEF CanonicalPath
    <2>2. DOMAIN c = 1 .. Len(raw)
      BY <1>5, <2>1 DEF Path
    <2> QED
      BY Zenon, <1>5, <2>1, <2>2 DEF CanonicalPath, CanonicalSegment
  <1>7. \A k \in 1 .. Len(raw) :
            t[k] = (IF raw[k] = Placeholder THEN Placeholder ELSE c[k]) /\ t[k] \in Segment
    BY Zenon, <1>1, <1>2, <1>6, PlaceholderIs
  <1>8. t \in Path /\ Len(t) = Len(raw)
    <2>1. t = [k \in 1 .. Len(raw) |-> t[k]]
      BY Zenon, <1>1, <1>2
    <2> QED
      BY <1>2, <1>7, <2>1 DEF Path
  <1>9. ASSUME NEW k \in 1 .. Len(raw), raw[k] # Placeholder
        PROVE  /\ t[k] = Each(Normalised, raw[k])
               /\ CanonicalSegment(t[k]) /\ canonicaliseSegment(raw[k]) = {t[k]}
               /\ \A n \in DOMAIN raw[k] : raw[k][n] \notin Forbidden
    <2>1. t[k] = c[k] /\ plain[k] = raw[k] /\ k \in DOMAIN plain
      BY Zenon, <1>3, <1>4, <1>7, <1>9
    <2>2. Canonicalise(plain) # {}
      BY Zenon
    <2>3. canonicaliseSegment(raw[k]) # {} /\ \A n \in DOMAIN raw[k] : raw[k][n] \notin Forbidden
      BY Zenon, <2>1, <2>2 DEF Canonicalise
    <2>4. canonicaliseSegment(raw[k]) = {Each(Normalised, raw[k])}
      BY Zenon, <2>3 DEF canonicaliseSegment
    <2> QED
      BY Zenon, <1>5, <1>6, <2>1, <2>3, <2>4
  <1> QED
    BY Zenon, <1>2, <1>7, <1>8, <1>9

\* What CoveredBy says, of the only canonical form of a pattern.
LEMMA CoverageIs ==
    ASSUME NEW t \in Path, NEW pattern \in Path, NEW g \in Canonicalise(pattern), CoveredBy(t, pattern)
    PROVE  /\ g \in Path /\ Len(g) = Len(t)
           /\ \A k \in 1 .. Len(t) : IF t[k] = Placeholder THEN g[k] = <<"*">>
                                     ELSE matchSegment(g[k], t[k])
  <1>1. PICK glob \in Canonicalise(pattern) :
            IF t = << >> THEN glob = << >>
            ELSE /\ glob # << >> /\ Len(glob) = Len(t)
                 /\ \A k \in DOMAIN glob : IF t[k] = Placeholder THEN glob[k] = <<"*">>
                                           ELSE matchSegment(glob[k], t[k])
    BY Zenon DEF CoveredBy
  <1>2. glob = g /\ g \in Path
    <2>1. Canonicalise(pattern) = {g} /\ CanonicalPath(g)
      BY Zenon, CanonicaliseIs
    <2> QED
      BY Zenon, <2>1 DEF CanonicalPath
  <1>3. DOMAIN g = 1 .. Len(g) /\ Len(<< >>) = 0 /\ 1 .. 0 = {}
    BY <1>2 DEF Path
  <1>4. CASE t = << >>
    BY Zenon, <1>1, <1>2, <1>3, <1>4
  <1>5. CASE t # << >>
    BY Zenon, <1>1, <1>2, <1>3, <1>5
  <1> QED
    BY <1>4, <1>5

\* A template that the loader finds covered by a route (CoveredBy) expands, whatever the
\* value of its placeholder is, to a path which that route matches (Expand, Match).
THEOREM ExpansionMatches ==
    ASSUME NEW raw \in Path, NEW pattern \in Path, NEW t \in ParseTemplate(raw), CoveredBy(t, pattern),
           NEW v \in Segment, NEW g \in Canonicalise(pattern), NEW p \in Expand(t, v)
    PROVE  Match(g, p)
  <1> DEFINE full == [k \in DOMAIN t |-> IF t[k] = Placeholder THEN v ELSE t[k]]
  <1>1. p \in Canonicalise(full)
    BY Zenon DEF Expand
  <1>2. /\ t \in Path /\ Len(t) = Len(raw) /\ Len(raw) \in Nat
        /\ \A k \in 1 .. Len(t) : t[k] = Placeholder \/ CanonicalSegment(t[k])
    BY Zenon, TemplateIs
  <1>3. DOMAIN t = 1 .. Len(t) /\ Len(t) \in Nat
    BY <1>2 DEF Path
  <1>4. full \in Path /\ Len(full) = Len(t)
    <2>1. \A k \in 1 .. Len(t) : (IF t[k] = Placeholder THEN v ELSE t[k]) \in Segment
      BY Zenon, <1>2 DEF CanonicalSegment
    <2>2. full = [k \in 1 .. Len(t) |-> IF t[k] = Placeholder THEN v ELSE t[k]]
      BY Zenon, <1>3
    <2> HIDE DEF full
    <2> QED
      BY <1>3, <2>1, <2>2 DEF Path
  <1>5. \A k \in 1 .. Len(t) : full[k] = IF t[k] = Placeholder THEN v ELSE t[k]
    BY Zenon, <1>3
  <1> HIDE DEF full
  <1>6. /\ CanonicalPath(p) /\ Len(p) = Len(t)
        /\ \A k \in 1 .. Len(t) : p[k] = Each(Normalised, full[k])
    BY Zenon, <1>1, <1>4, CanonicaliseIs
  <1>7. p \in Path /\ \A k \in 1 .. Len(t) : p[k] \in Segment
    <2>1. p \in Path
      BY Zenon, <1>6 DEF CanonicalPath
    <2> QED
      BY <1>3, <1>6, <2>1 DEF Path
  <1>8. /\ g \in Path /\ Len(g) = Len(t)
        /\ \A k \in 1 .. Len(t) : IF t[k] = Placeholder THEN g[k] = <<"*">>
                                  ELSE matchSegment(g[k], t[k])
    BY Zenon, <1>2, CoverageIs
  <1>9. ASSUME NEW k \in 1 .. Len(t) PROVE matchSegment(g[k], p[k])
    <2>1. CASE t[k] = Placeholder
      BY Zenon, <1>7, <1>8, <2>1, StarMatches
    <2>2. CASE t[k] # Placeholder
      <3>1. p[k] = Each(Normalised, t[k]) /\ CanonicalSegment(t[k])
        BY Zenon, <1>2, <1>5, <1>6, <2>2
      <3>2. p[k] = t[k]
        BY Zenon, <3>1, CanonicalSegmentFixed
      <3> QED
        BY Zenon, <1>8, <2>2, <3>2
    <2> QED
      BY <2>1, <2>2
  <1> QED
    BY Zenon, <1>6, <1>7, <1>8, <1>9, MatchIs

\* A request the loader finds covered is one that the broker finds a canonical path
\* for, which the route matches.
LEMMA CoveredMatches ==
    ASSUME NEW raw \in Path, NEW pattern \in Path, NEW t \in ParseTemplate(raw), CoveredBy(t, pattern)
    PROVE  \E p \in Canonicalise(raw), g \in Canonicalise(pattern) : Match(g, p)
  <1>1. PICK g \in Canonicalise(pattern) : TRUE
    BY Zenon DEF CoveredBy
  <1>2. /\ t \in Path /\ Len(t) = Len(raw) /\ Len(raw) \in Nat
        /\ \A k \in 1 .. Len(raw) :
               \/ raw[k] = Placeholder /\ t[k] = Placeholder
               \/ /\ raw[k] # Placeholder /\ t[k] = Each(Normalised, raw[k])
                  /\ canonicaliseSegment(raw[k]) = {t[k]}
                  /\ \A n \in DOMAIN raw[k] : raw[k][n] \notin Forbidden
    BY Zenon, TemplateIs
  <1>3. DOMAIN raw = 1 .. Len(raw)
    BY DEF Path
  <1>4. ASSUME NEW k \in DOMAIN raw
        PROVE  canonicaliseSegment(raw[k]) = {t[k]} /\ \A n \in DOMAIN raw[k] : raw[k][n] \notin Forbidden
    <2>1. canonicaliseSegment(Placeholder) = {Placeholder}
      BY Zenon, PlaceholderIs DEF canonicaliseSegment
    <2> QED
      BY Zenon, <1>2, <1>3, <2>1, PlaceholderIs
  <1>5. Canonicalise(raw) # {}
    BY Zenon, <1>4 DEF Canonicalise
  <1>6. PICK p \in Canonicalise(raw) : TRUE
    BY Zenon, <1>5
  <1>7. /\ CanonicalPath(p) /\ Len(p) = Len(raw)
        /\ \A k \in 1 .. Len(raw) : p[k] = Each(Normalised, raw[k])
    BY Zenon, CanonicaliseIs
  <1>8. p \in Path /\ \A k \in 1 .. Len(raw) : p[k] = t[k] /\ p[k] \in Segment
    <2>1. p \in Path
      BY Zenon, <1>7 DEF CanonicalPath
    <2>2. \A k \in 1 .. Len(raw) : p[k] \in Segment
      BY <1>2, <1>7, <2>1 DEF Path
    <2>3. \A k \in 1 .. Len(raw) : p[k] = t[k]
      BY Zenon, <1>2, <1>7, PlaceholderIs
    <2> QED
      BY <2>1, <2>2, <2>3
  <1>9. /\ g \in Path /\ Len(g) = Len(t)
        /\ \A k \in 1 .. Len(t) : IF t[k] = Placeholder THEN g[k] = <<"*">>
                                  ELSE matchSegment(g[k], t[k])
    BY Zenon, <1>2, CoverageIs
  <1>10. ASSUME NEW k \in 1 .. Len(p) PROVE matchSegment(g[k], p[k])
    <2>1. CASE t[k] = Placeholder
      BY Zenon, <1>2, <1>7, <1>8, <1>9, <2>1, StarMatches
    <2>2. CASE t[k] # Placeholder
      BY Zenon, <1>2, <1>7, <1>8, <1>9, <2>2
    <2> QED
      BY <2>1, <2>2
  <1>11. Match(g, p)
    BY Zenon, <1>2, <1>7, <1>8, <1>9, <1>10, MatchIs
  <1> QED
    BY Zenon, <1>11

LEMMA WordIsSegment ==
    ASSUME NEW T, T \subseteq Character, NEW I, NEW s \in UNION {[1 .. n -> T] : n \in 0 .. I}
    PROVE  s \in Segment
  <1>1. PICK n \in 0 .. I : s \in [1 .. n -> T]
    OBVIOUS
  <1>2. n \in Nat
    OBVIOUS
  <1> QED
    BY <1>1, <1>2 DEF Segment

\* What the loader proves of a manifest, the broker honours: a covered template expands
\* to a path the route matches, and a covered request is allowed (load.go: route
\* coverage is proved when the manifest loads).
THEOREM CoverageHonoured == WellFormed => LoadProves
  <1>1. ASSUME WellFormed, input.what = "template" PROVE CoverageSound
    <2>1. input.template \in Path /\ input.pattern \in Path
      BY <1>1 DEF WellFormed
    <2>2. \A v \in Values : v \in Segment
      <3> DEFINE letters == {"a", ".", ":", "%2e"}
      <3>1. letters \subseteq Character
        BY Zenon DEF Character
      <3>2. Values = UNION {[1 .. n -> letters] : n \in 0 .. 2}
        BY Zenon DEF Values
      <3> HIDE DEF letters
      <3> QED
        BY Zenon, <3>1, <3>2, WordIsSegment
    <2> QED
      BY Zenon, <2>1, <2>2, ExpansionMatches DEF CoverageSound
  <1>2. ASSUME WellFormed, input.what = "request", input.route.type \in {"", input.request.type},
               literalRequestCovered(input.route, input.request),
               bodySizeAllowed(input.route.maxKB, 0, input.request.size)
        PROVE  routeAllows(input.route, input.request, 0)
    <2>1. input.route.path \in Path /\ input.request.path \in Path
      BY <1>2 DEF WellFormed
    <2>2. \E p \in Canonicalise(input.request.path), r \in Canonicalise(input.route.path) : Match(r, p)
      BY Zenon, <1>2, <2>1, CoveredMatches DEF literalRequestCovered
    <2>3. queryKeysAllowed(input.route.keys, input.request.keys)
      BY Zenon, <1>2 DEF literalRequestCovered, coversRequest
    <2>4. contentTypeAllowed(input.route.type, input.request.type)
      BY Zenon, <1>2 DEF contentTypeAllowed
    <2> QED
      BY Zenon, <1>2, <2>2, <2>3, <2>4 DEF routeAllows
  <1> QED
    BY Zenon, <1>1, <1>2 DEF LoadProves, CoverageSound, LoadProvesPlainRoutes

-----------------------------------------------------------------------------
(***************************************************************************)
(* The greedy search and the globs.                                        *)
(***************************************************************************)

GlobStep(pattern, segment, from, n, to) ==
    \/ pattern[n] = "*" /\ from <= to
    \/ to = from + 1 /\ segment[to] = pattern[n]

\* Where in a segment the first n symbols of a pattern may end.
Reach(pattern, segment, n) ==
    {e \in 0 .. Len(segment) :
        \E end \in [0 .. n -> 0 .. Len(segment)] :
            /\ end[0] = 0 /\ end[n] = e
            /\ \A k \in 1 .. n : GlobStep(pattern, segment, end[k - 1], k, end[k])}

LEMMA ReachIs ==
    ASSUME NEW pattern \in Segment, NEW segment \in Segment
    PROVE  /\ Reach(pattern, segment, 0) = {0}
           /\ \A n \in Nat, e \in 0 .. Len(segment) :
                  e \in Reach(pattern, segment, n + 1) <=>
                      \E d \in Reach(pattern, segment, n) : GlobStep(pattern, segment, d, n + 1, e)
           /\ Glob(pattern, segment) <=> Len(segment) \in Reach(pattern, segment, Len(pattern))
  <1> DEFINE N == Len(segment)
             Ends(n) == [0 .. n -> 0 .. N]
             Good(n, end) == \A k \in 1 .. n : GlobStep(pattern, segment, end[k - 1], k, end[k])
  <1>0. N \in Nat /\ Len(pattern) \in Nat
    BY DEF Segment
  <1>1. \A n, e : e \in Reach(pattern, segment, n) <=>
            e \in 0 .. N /\ \E end \in Ends(n) : end[0] = 0 /\ end[n] = e /\ Good(n, end)
    BY Zenon DEF Reach
  <1>2. Glob(pattern, segment) <=> N \in Reach(pattern, segment, Len(pattern))
    <2>1. N \in 0 .. N
      BY <1>0
    <2> QED
      BY Zenon, <2>1 DEF Reach, Glob, GlobStep
  <1> HIDE DEF N
  <1>3. Reach(pattern, segment, 0) = {0}
    <2>1. 0 \in 0 .. N /\ 1 .. 0 = {}
      BY <1>0
    <2> DEFINE end == [k \in 0 .. 0 |-> 0]
    <2>2. end \in Ends(0) /\ end[0] = 0
      BY <2>1
    <2>3. Good(0, end)
      BY Zenon, <2>1
    <2>4. 0 \in Reach(pattern, segment, 0)
      <3> HIDE DEF end, Good, Ends
      <3> QED
        BY Zenon, <1>1, <2>1, <2>2, <2>3
    <2>5. ASSUME NEW e \in Reach(pattern, segment, 0) PROVE e = 0
      <3> HIDE DEF Good, Ends
      <3> QED
        BY Zenon, <1>1
    <2> QED
      BY Zenon, <2>4, <2>5
  <1>4. ASSUME NEW n \in Nat, NEW e \in 0 .. N, e \in Reach(pattern, segment, n + 1)
        PROVE  \E d \in Reach(pattern, segment, n) : GlobStep(pattern, segment, d, n + 1, e)
    <2>1. PICK end \in Ends(n + 1) : end[0] = 0 /\ end[n + 1] = e /\ Good(n + 1, end)
      <3> HIDE DEF Good, Ends
      <3> QED
        BY Zenon, <1>1, <1>4
    <2> DEFINE short == [k \in 0 .. n |-> end[k]]
    <2>2. /\ short \in Ends(n) /\ short[0] = end[0] /\ short[n] = end[n]
          /\ end[n] \in 0 .. N /\ \A k \in 1 .. n : short[k] = end[k] /\ short[k - 1] = end[k - 1] /\ k \in 1 .. n + 1
      OBVIOUS
    <2>3. Good(n, short)
      <3> HIDE DEF short
      <3> QED
        BY Zenon, <2>1, <2>2
    <2>4. end[n] \in Reach(pattern, segment, n)
      <3> HIDE DEF Good, Ends, short
      <3> QED
        BY Zenon, <1>1, <2>1, <2>2, <2>3
    <2>5. n + 1 \in 1 .. n + 1 /\ (n + 1) - 1 = n
      OBVIOUS
    <2>6. GlobStep(pattern, segment, end[n], n + 1, e)
      BY Zenon, <2>1, <2>5
    <2> QED
      BY Zenon, <2>4, <2>6
  <1>5. ASSUME NEW n \in Nat, NEW e \in 0 .. N, NEW d \in Reach(pattern, segment, n),
               GlobStep(pattern, segment, d, n + 1, e)
        PROVE  e \in Reach(pattern, segment, n + 1)
    <2>1. PICK end \in Ends(n) : end[0] = 0 /\ end[n] = d /\ Good(n, end)
      <3> HIDE DEF Good, Ends
      <3> QED
        BY Zenon, <1>1, <1>5
    <2> DEFINE long == [k \in 0 .. n + 1 |-> IF k = n + 1 THEN e ELSE end[k]]
    <2>2. /\ long \in Ends(n + 1) /\ long[0] = end[0] /\ long[n + 1] = e /\ long[n] = end[n]
          /\ \A k \in 1 .. n : long[k] = end[k] /\ long[k - 1] = end[k - 1]
      OBVIOUS
    <2>3. \A k \in 1 .. n + 1 : k \in 1 .. n \/ k = n + 1
      OBVIOUS
    <2>4. (n + 1) - 1 = n
      OBVIOUS
    <2>5. Good(n + 1, long)
      <3> HIDE DEF long
      <3> QED
        BY Zenon, <1>5, <2>1, <2>2, <2>3, <2>4
    <2> HIDE DEF Good, Ends, long
    <2> QED
      BY Zenon, <1>1, <2>1, <2>2, <2>5
  <1> QED
    BY Zenon, <1>2, <1>3, <1>4, <1>5 DEF N

LEMMA LeftmostIs ==
    ASSUME NEW S \in SUBSET Nat, S # {}
    PROVE  Leftmost(S) \in S /\ \A y \in S : Leftmost(S) <= y
  <1>1. PICK x \in S : \A y \in S : ~(<<y, x>> \in OpToRel(<, Nat))
    BY Zenon, WFMin, NatLessThanWellFounded
  <1>2. ASSUME NEW y \in S PROVE x <= y
    <2>1. x \in Nat /\ y \in Nat
      OBVIOUS
    <2>2. ASSUME y < x PROVE FALSE
      <3>1. <<y, x>> \in Nat \X Nat /\ <<y, x>>[1] < <<y, x>>[2]
        BY <2>1, <2>2
      <3> QED
        BY <1>1, <3>1 DEF OpToRel
    <2> QED
      BY <2>1, <2>2
  <1>3. \E z \in S : \A y \in S : z <= y
    BY Zenon, <1>2
  <1> QED
    BY Zenon, <1>3 DEF Leftmost

\* The ends of the parts so far, with `wide` and with less room.
Narrowed(all, less, low, to, wide) ==
    /\ all \in SUBSET Nat /\ \A x \in all : low <= x /\ x <= wide
    /\ less = {x \in all : x <= to}

\* A part that is put as far left as it fits is put there whatever the room to its
\* right is, as long as that is enough.
LEMMA FitWithin ==
    ASSUME NEW part \in Segment, NEW segment, NEW low \in Nat, NEW wide \in Nat, NEW to \in 0 .. wide,
           NEW from, NEW under, Narrowed(from, under, low, to, wide)
    PROVE  Narrowed(FitStep(part, segment, wide, from), FitStep(part, segment, to, under), low, to, wide)
  <1> DEFINE Fit(t, f) == {k \in 0 .. t - Len(part) : (\E e \in f : e <= k) /\ OccursAt(part, segment, k)}
             F == Fit(wide, from)
             f == Fit(to, under)
             L == Len(part)
             all == FitStep(part, segment, wide, from)
             less == FitStep(part, segment, to, under)
  <1>0. L \in Nat
    BY DEF Segment
  <1>0a. from \in SUBSET Nat /\ (\A x \in from : low <= x) /\ under = {x \in from : x <= to}
    BY Zenon DEF Narrowed
  <1>1. /\ all = IF F = {} THEN {} ELSE {Leftmost(F) + L}
        /\ less = IF f = {} THEN {} ELSE {Leftmost(f) + L}
    BY Zenon DEF FitStep
  <1> HIDE DEF L
  <1>2. F \in SUBSET Nat /\ f \in SUBSET Nat /\ \A k \in F : low <= k /\ k + L <= wide /\ k + L \in Nat
    BY <1>0, <1>0a DEF L
  <1>3. \A k \in Nat : k \in f <=> k \in F /\ k + L <= to
    BY <1>0, <1>0a DEF L
  <1> HIDE DEF F, f, all, less
  <1>4. CASE F = {}
    <2>1. f = {}
      BY Zenon, <1>2, <1>3, <1>4
    <2>2. all = {} /\ less = {}
      BY Zenon, <1>1, <1>4, <2>1
    <2> QED
      BY Zenon, <2>2 DEF all, less, Narrowed
  <1>5. CASE F # {}
    <2> DEFINE mu == Leftmost(F)
    <2>1. mu \in F /\ \A y \in F : mu <= y
      BY Zenon, <1>2, <1>5, LeftmostIs
    <2>2. all = {mu + L} /\ mu \in Nat /\ mu + L \in Nat
      BY Zenon, <1>1, <1>2, <1>5, <2>1
    <2> HIDE DEF mu
    <2>3. CASE mu + L <= to
      <3>1. mu \in f /\ f # {}
        BY Zenon, <1>3, <2>1, <2>2, <2>3
      <3> DEFINE nu == Leftmost(f)
      <3>2. nu \in f /\ \A y \in f : nu <= y
        BY Zenon, <1>2, <3>1, LeftmostIs
      <3>3. less = {nu + L}
        BY Zenon, <1>1, <3>1
      <3> HIDE DEF nu
      <3>4. nu = mu
        BY <1>2, <1>3, <2>1, <2>2, <3>1, <3>2
      <3>5. less = all
        BY Zenon, <2>2, <3>3, <3>4
      <3>6. less = {x \in all : x <= to}
        BY <2>2, <2>3, <3>5
      <3> QED
        BY <1>0, <1>2, <2>1, <2>2, <3>6 DEF all, less, Narrowed
    <2>4. CASE ~(mu + L <= to)
      <3>1. ASSUME NEW k \in f PROVE FALSE
        <4>1. k \in Nat /\ k \in F /\ k + L <= to /\ mu <= k
          BY <1>2, <1>3, <2>1
        <4> QED
          BY <1>0, <2>2, <2>4, <4>1
      <3>2. less = {}
        BY Zenon, <1>1, <3>1
      <3>3. less = {x \in all : x <= to}
        BY <2>2, <2>4, <3>2
      <3> QED
        BY <1>0, <1>2, <2>1, <2>2, <3>3 DEF all, less, Narrowed
    <2> QED
      BY <2>3, <2>4
  <1> QED
    BY <1>4, <1>5

LEMMA FittedWithin ==
    ASSUME NEW q \in Seq(Segment), Len(q) >= 2, NEW segment, NEW wide \in Nat, NEW to \in 0 .. wide,
           Len(q[1]) <= to, NEW j \in 1 .. Len(q) - 1
    PROVE  Narrowed(Fitted(q, segment, wide)[j], Fitted(q, segment, to)[j], Len(q[1]), to, wide)
  <1> DEFINE A == Fitted(q, segment, wide)
             B == Fitted(q, segment, to)
             low == Len(q[1])
             Fine(i) == Narrowed(A[i], B[i], low, to, wide)
             S == {n \in Nat : n + 1 < Len(q) => Fine(n + 1)}
  <1>0. /\ Len(q) \in Nat /\ \A i \in 1 .. Len(q) - 1 : q[i] \in Segment
        /\ q[1] \in Segment /\ low \in Nat /\ to \in Nat /\ to <= wide
    <2>1. q[1] \in Segment /\ Len(q) \in Nat /\ \A i \in 1 .. Len(q) - 1 : q[i] \in Segment
      OBVIOUS
    <2> QED
      BY <2>1 DEF Segment
  <1>1. A[1] = {low} /\ B[1] = {low}
    BY Zenon, FittedIs
  <1>2. ASSUME NEW n \in 2 .. Len(q) - 1 PROVE A[n] = FitStep(q[n], segment, wide, A[n - 1])
    BY FittedIs
  <1>2b. ASSUME NEW n \in 2 .. Len(q) - 1 PROVE B[n] = FitStep(q[n], segment, to, B[n - 1])
    BY FittedIs
  <1> HIDE DEF A, B, low
  <1>3. 0 \in S
    <2>1. Fine(1)
      <3>1. low \in Nat /\ low <= to
        BY <1>0 DEF low
      <3> QED
        BY <1>0, <1>1, <3>1 DEF Narrowed
    <2> HIDE DEF Fine
    <2> QED
      BY <2>1
  <1>4. ASSUME NEW n \in Nat, n \in S PROVE n + 1 \in S
    <2>1. SUFFICES ASSUME (n + 1) + 1 < Len(q) PROVE Fine((n + 1) + 1)
      <3> HIDE DEF Fine
      <3> QED
        OBVIOUS
    <2> DEFINE i == (n + 1) + 1
    <2>2. i \in 2 .. Len(q) - 1 /\ i - 1 = n + 1 /\ n + 1 < Len(q) /\ i \in 1 .. Len(q) - 1
      BY <1>0, <2>1
    <2>3. Fine(n + 1)
      <3> HIDE DEF Fine
      <3> QED
        BY <1>4, <2>2
    <2> HIDE DEF i
    <2>4. A[i] = FitStep(q[i], segment, wide, A[n + 1]) /\ B[i] = FitStep(q[i], segment, to, B[n + 1])
      BY Zenon, <1>2, <1>2b, <2>2
    <2>5. q[i] \in Segment
      BY Zenon, <1>0, <2>2
    <2>6. Fine(i)
      BY Zenon, <1>0, <2>3, <2>4, <2>5, FitWithin
    <2> HIDE DEF Fine
    <2> QED
      BY Zenon, <2>6 DEF i
  <1>5. Fine(j)
    <2> HIDE DEF S
    <2>1. j - 1 \in Nat /\ (j - 1) + 1 = j /\ j < Len(q)
      BY <1>0
    <2>2. j - 1 \in S
      BY Zenon, <1>3, <1>4, <2>1, Induction
    <2> HIDE DEF Fine
    <2> QED
      BY <2>1, <2>2 DEF S
  <1> QED
    BY Zenon, <1>5 DEF A, B, low

SameUpTo(q, r, m) == m < Len(q) /\ m < Len(r) /\ \A i \in 1 .. m : q[i] = r[i]

\* Where the parts before the n-th are put does not depend on the later ones.
LEMMA FittedLocal ==
    ASSUME NEW q \in Seq(Segment), Len(q) >= 2, NEW r \in Seq(Segment), Len(r) >= 2, NEW segment, NEW to,
           NEW m \in Nat, SameUpTo(q, r, m), NEW j \in 1 .. m
    PROVE  Fitted(q, segment, to)[j] = Fitted(r, segment, to)[j]
  <1> DEFINE A == Fitted(q, segment, to)
             B == Fitted(r, segment, to)
             S == {n \in Nat : n + 1 <= m => A[n + 1] = B[n + 1]}
  <1>0. /\ Len(q) \in Nat /\ Len(r) \in Nat /\ m < Len(q) /\ m < Len(r)
        /\ \A i \in 1 .. m : q[i] = r[i]
    BY DEF SameUpTo
  <1>1. A[1] = {Len(q[1])} /\ B[1] = {Len(r[1])}
    BY Zenon, FittedIs
  <1>2. ASSUME NEW n \in 2 .. Len(q) - 1 PROVE A[n] = FitStep(q[n], segment, to, A[n - 1])
    BY FittedIs
  <1>2b. ASSUME NEW n \in 2 .. Len(r) - 1 PROVE B[n] = FitStep(r[n], segment, to, B[n - 1])
    BY FittedIs
  <1> HIDE DEF A, B
  <1>3. 0 \in S
    <2>1. ASSUME 1 <= m PROVE A[1] = B[1]
      <3>1. q[1] = r[1]
        BY <1>0, <2>1
      <3> QED
        BY Zenon, <1>1, <3>1
    <2> QED
      BY <2>1
  <1>4. ASSUME NEW n \in Nat, n \in S PROVE n + 1 \in S
    <2>1. SUFFICES ASSUME (n + 1) + 1 <= m PROVE A[(n + 1) + 1] = B[(n + 1) + 1]
      OBVIOUS
    <2> DEFINE i == (n + 1) + 1
    <2>2. i \in 2 .. Len(q) - 1 /\ i \in 2 .. Len(r) - 1 /\ i - 1 = n + 1 /\ n + 1 <= m /\ i \in 1 .. m
      BY <1>0, <2>1
    <2>3. A[n + 1] = B[n + 1]
      BY <1>4, <2>2
    <2> HIDE DEF i
    <2>4. A[i] = B[i]
      BY Zenon, <1>0, <1>2, <1>2b, <2>2, <2>3
    <2> QED
      BY Zenon, <2>4 DEF i
  <1>5. j - 1 \in S /\ (j - 1) + 1 = j /\ j <= m
    <2> HIDE DEF S
    <2>1. j - 1 \in Nat /\ (j - 1) + 1 = j /\ j <= m
      OBVIOUS
    <2> QED
      BY Zenon, <1>3, <1>4, <2>1, Induction
  <1> QED
    BY <1>5 DEF A, B

LEMMA FitNonEmpty ==
    ASSUME NEW part, NEW segment, NEW to, NEW from
    PROVE  FitStep(part, segment, to, from) # {} <=>
               \E k \in 0 .. to - Len(part) : (\E e \in from : e <= k) /\ OccursAt(part, segment, k)
  <1> DEFINE fits == {k \in 0 .. to - Len(part) : (\E e \in from : e <= k) /\ OccursAt(part, segment, k)}
  <1>1. FitStep(part, segment, to, from) = IF fits = {} THEN {} ELSE {Leftmost(fits) + Len(part)}
    BY Zenon DEF FitStep
  <1>2. FitStep(part, segment, to, from) # {} <=> fits # {}
    <2> HIDE DEF fits
    <2> QED
      BY Zenon, <1>1
  <1> QED
    BY Zenon, <1>2

\* matchSegment, of the parts of a pattern and the first e symbols of a segment.
Fits(q, segment, e) ==
    IF Len(q) = 1 THEN e = Len(q[1]) /\ OccursAt(q[1], segment, 0)
    ELSE /\ Len(q[1]) <= e - Len(q[Len(q)]) /\ OccursAt(q[1], segment, 0)
         /\ OccursAt(q[Len(q)], segment, e - Len(q[Len(q)]))
         /\ Fitted(q, segment, e - Len(q[Len(q)]))[Len(q) - 1] # {}

\* After a star, the parts fit into whatever is longer than what they fit into before it.
LEMMA FitsStar ==
    ASSUME NEW q \in Seq(Segment), Len(q) >= 1, NEW segment \in Segment,
           NEW r \in Seq(Segment), Len(r) = Len(q) + 1, r[Len(q) + 1] = << >>,
           \A i \in 1 .. Len(q) : r[i] = q[i], NEW e \in 0 .. Len(segment)
    PROVE  Fits(r, segment, e) <=> \E d \in 0 .. Len(segment) : Fits(q, segment, d) /\ d <= e
  <1> DEFINE m == Len(q)
             low == Len(q[1])
             L == Len(q[m])
             N == Len(segment)
  <1>0. m \in Nat /\ m >= 1 /\ N \in Nat /\ e \in Nat /\ e <= N /\ 1 \in 1 .. m /\ m \in 1 .. m
    BY DEF Segment
  <1>1. q[1] \in Segment /\ q[m] \in Segment /\ r[1] = q[1] /\ r[m] = q[m]
    BY <1>0
  <1>2. low \in Nat /\ L \in Nat
    BY <1>1 DEF Segment
  <1>3. Fits(r, segment, e) <=> low <= e /\ OccursAt(q[1], segment, 0) /\ Fitted(r, segment, e)[m] # {}
    <2>1. Len(r) # 1 /\ Len(r) - 1 = m /\ r[Len(r)] = << >> /\ Len(<< >>) = 0 /\ e - 0 = e /\ DOMAIN << >> = {}
      BY <1>0
    <2>2. OccursAt(<< >>, segment, e)
      BY Zenon, <2>1 DEF OccursAt
    <2> QED
      BY Zenon, <1>1, <2>1, <2>2 DEF Fits
  <1>4. CASE m = 1
    <2>1. Fitted(r, segment, e)[m] = {low}
      <3>1. Len(r) >= 2
        BY <1>0
      <3>2. Fitted(r, segment, e)[1] = {Len(r[1])}
        BY Zenon, <3>1, FittedIs
      <3> QED
        BY Zenon, <1>1, <1>4, <3>2
    <2>2. \A d : Fits(q, segment, d) <=> d = low /\ OccursAt(q[1], segment, 0)
      BY Zenon, <1>4 DEF Fits
    <2>3. low <= e => low \in 0 .. N
      BY <1>0, <1>2
    <2> HIDE DEF m, low, N
    <2> QED
      BY Zenon, <1>3, <2>1, <2>2, <2>3 DEF N
  <1>5. CASE m # 1
    <2> DEFINE h == m - 1
               from == Fitted(q, segment, e)[h]
    <2>1. /\ Len(q) >= 2 /\ Len(r) >= 2 /\ m \in 2 .. Len(r) - 1
          /\ h \in 1 .. h /\ h \in 1 .. Len(q) - 1 /\ h \in Nat /\ h < Len(q) /\ h < Len(r)
      <3>1. Len(r) = m + 1 /\ Len(q) = m
        OBVIOUS
      <3> HIDE DEF m
      <3> QED
        BY <1>0, <1>5, <3>1
    <2>1a. SameUpTo(q, r, h)
      <3>1. \A i \in 1 .. h : q[i] = r[i]
        BY <1>0
      <3> HIDE DEF h
      <3> QED
        BY Zenon, <2>1, <3>1 DEF SameUpTo
    <2>2. Fitted(r, segment, e)[m] = FitStep(q[m], segment, e, from)
      <3>1. Fitted(r, segment, e)[m] = FitStep(r[m], segment, e, Fitted(r, segment, e)[h])
        BY <2>1, FittedIs
      <3>2. Fitted(q, segment, e)[h] = Fitted(r, segment, e)[h]
        <4> HIDE DEF h
        <4> QED
          BY <2>1, <2>1a, FittedLocal
      <3> QED
        BY Zenon, <1>1, <3>1, <3>2
    <2>3. Fitted(r, segment, e)[m] # {} <=>
              \E k \in 0 .. e - L : (\E x \in from : x <= k) /\ OccursAt(q[m], segment, k)
      <3> HIDE DEF from
      <3>1. FitStep(q[m], segment, e, from) # {} <=>
                \E k \in 0 .. e - L : (\E x \in from : x <= k) /\ OccursAt(q[m], segment, k)
        BY Zenon, FitNonEmpty
      <3> QED
        BY Zenon, <2>2, <3>1
    <2>4. ASSUME NEW k \in 0 .. e, low <= k
          PROVE  /\ Fitted(q, segment, k)[h] = {x \in from : x <= k}
                 /\ \A x \in from : x \in Nat /\ low <= x
                 /\ \A x \in Fitted(q, segment, k)[h] : x \in Nat /\ x <= k
      <3>1. Narrowed(from, Fitted(q, segment, k)[h], low, k, e)
        <4> HIDE DEF h
        <4> QED
          BY Zenon, <1>0, <2>1, <2>4, FittedWithin
      <3> HIDE DEF from, low
      <3> QED
        BY <1>2, <3>1 DEF Narrowed
    <2>5. \A d \in 0 .. N : Fits(q, segment, d) <=>
              /\ low <= d - L /\ OccursAt(q[1], segment, 0) /\ OccursAt(q[m], segment, d - L)
              /\ Fitted(q, segment, d - L)[h] # {}
      BY Zenon, <1>5 DEF Fits
    <2> HIDE DEF from, N
    <2>6. ASSUME low <= e, OccursAt(q[1], segment, 0), Fitted(r, segment, e)[m] # {}
          PROVE  \E d \in 0 .. N : Fits(q, segment, d) /\ d <= e
      <3>1. PICK k \in 0 .. e - L : (\E x \in from : x <= k) /\ OccursAt(q[m], segment, k)
        BY Zenon, <2>3, <2>6
      <3>2. PICK x \in from : x <= k
        BY Zenon, <3>1
      <3> HIDE DEF m, low, L, h
      <3>3. k \in 0 .. e /\ k \in Nat /\ e \in 0 .. e
        BY <1>0, <1>2
      <3>4. x \in Nat /\ low <= x
        BY Zenon, <2>4, <2>6, <3>3
      <3>5. low <= k
        BY <1>2, <3>2, <3>3, <3>4
      <3>6. Fitted(q, segment, k)[h] # {}
        BY Zenon, <2>4, <3>2, <3>3, <3>5
      <3>7. k + L \in 0 .. N /\ (k + L) - L = k /\ k + L <= e
        BY <1>0, <1>2, <3>3
      <3>8. Fits(q, segment, k + L)
        BY Zenon, <2>5, <2>6, <3>1, <3>5, <3>6, <3>7
      <3> QED
        BY Zenon, <3>7, <3>8
    <2>7. ASSUME NEW d \in 0 .. N, Fits(q, segment, d), d <= e
          PROVE  low <= e /\ OccursAt(q[1], segment, 0) /\ Fitted(r, segment, e)[m] # {}
      <3> DEFINE k == d - L
      <3>1. /\ low <= k /\ OccursAt(q[1], segment, 0) /\ OccursAt(q[m], segment, k)
            /\ Fitted(q, segment, k)[h] # {}
        BY Zenon, <2>5, <2>7
      <3>2. k \in 0 .. e - L /\ k \in 0 .. e /\ low <= e
        <4> HIDE DEF m, low, L
        <4> QED
          BY <1>0, <1>2, <2>7, <3>1
      <3> HIDE DEF m, low, L, k, h
      <3>3. \E x \in from : x <= k
        BY Zenon, <2>4, <3>1, <3>2
      <3> QED
        BY Zenon, <2>3, <3>1, <3>2, <3>3
    <2> QED
      BY Zenon, <1>3, <2>6, <2>7 DEF N
  <1> QED
    BY <1>4, <1>5

OneLonger(part, x, longer) ==
    /\ Len(longer) = Len(part) + 1 /\ longer[Len(part) + 1] = x
    /\ \A k \in 1 .. Len(part) : longer[k] = part[k]

LEMMA OccursLonger ==
    ASSUME NEW part \in Segment, NEW x, NEW longer \in Segment, OneLonger(part, x, longer),
           NEW segment, NEW k \in Int
    PROVE  OccursAt(longer, segment, k) <=>
               OccursAt(part, segment, k) /\ segment[k + (Len(part) + 1)] = x
  <1>0. /\ Len(part) \in Nat /\ DOMAIN part = 1 .. Len(part) /\ DOMAIN longer = 1 .. Len(part) + 1
        /\ longer[Len(part) + 1] = x /\ \A i \in 1 .. Len(part) : longer[i] = part[i]
    BY DEF Segment, OneLonger
  <1>1. \A j : j \in 1 .. Len(part) + 1 <=> j \in 1 .. Len(part) \/ j = Len(part) + 1
    BY <1>0
  <1> QED
    BY Zenon, <1>0, <1>1 DEF OccursAt

FitsBefore(q, segment, e, x) ==
    \E d \in 0 .. Len(segment) : Fits(q, segment, d) /\ e = d + 1 /\ segment[e] = x

\* A symbol that is no star is one more of the last part.
LEMMA FitsLiteral ==
    ASSUME NEW q \in Seq(Segment), Len(q) >= 1, NEW segment \in Segment, NEW x \in Character,
           NEW r \in Seq(Segment), Len(r) = Len(q), \A i \in 1 .. Len(q) - 1 : r[i] = q[i],
           OneLonger(q[Len(q)], x, r[Len(q)]), NEW e \in 0 .. Len(segment)
    PROVE  Fits(r, segment, e) <=> FitsBefore(q, segment, e, x)
  <1> DEFINE m == Len(q)
             L == Len(q[m])
             N == Len(segment)
  <1>0. m \in Nat /\ m >= 1 /\ N \in Nat /\ e \in Nat /\ e <= N /\ m \in 1 .. m /\ 1 \in 1 .. m
    BY DEF Segment
  <1>1. q[m] \in Segment /\ r[m] \in Segment /\ q[1] \in Segment /\ Len(r) = m /\ Len(q) = m
    BY <1>0
  <1>2. L \in Nat /\ Len(r[m]) = L + 1
    BY <1>1 DEF Segment, OneLonger
  <1>3. ASSUME NEW k \in Int
        PROVE  OccursAt(r[m], segment, k) <=> OccursAt(q[m], segment, k) /\ segment[k + (L + 1)] = x
    <2> DEFINE part == q[m]
               longer == r[m]
    <2>1. part \in Segment /\ longer \in Segment /\ OneLonger(part, x, longer)
      BY Zenon, <1>1
    <2> HIDE DEF part, longer
    <2>2. OccursAt(longer, segment, k) <=> OccursAt(part, segment, k) /\ segment[k + (Len(part) + 1)] = x
      BY <2>1, OccursLonger
    <2> QED
      BY Zenon, <2>2 DEF part, longer
  <1>4. CASE m = 1
    <2>1. \A d : Fits(q, segment, d) <=> d = L /\ OccursAt(q[m], segment, 0)
      BY Zenon, <1>4 DEF Fits
    <2>2. Fits(r, segment, e) <=> e = L + 1 /\ OccursAt(r[m], segment, 0)
      BY Zenon, <1>1, <1>2, <1>4 DEF Fits
    <2>3. OccursAt(r[m], segment, 0) <=> OccursAt(q[m], segment, 0) /\ segment[L + 1] = x
      <3>1. 0 \in Int /\ 0 + (L + 1) = L + 1
        BY <1>2
      <3> QED
        BY Zenon, <1>3, <3>1
    <2> HIDE DEF m, L, N
    <2>4. e = L + 1 => L \in 0 .. N
      BY <1>0, <1>2
    <2> QED
      BY Zenon, <2>1, <2>2, <2>3, <2>4 DEF N, FitsBefore
  <1>5. CASE m # 1
    <2> DEFINE low == Len(q[1])
               to == e - (L + 1)
               h == m - 1
    <2>1. /\ Len(q) >= 2 /\ Len(r) >= 2 /\ h \in 1 .. h /\ h \in Nat /\ h < Len(q) /\ h < Len(r)
          /\ 1 \in 1 .. m - 1
      <3> HIDE DEF m
      <3> QED
        BY <1>0, <1>1, <1>5
    <2>2. SameUpTo(q, r, h)
      <3>1. \A i \in 1 .. h : q[i] = r[i]
        BY <1>0
      <3> HIDE DEF h
      <3> QED
        BY Zenon, <2>1, <3>1 DEF SameUpTo
    <2>3. Fitted(q, segment, to)[h] = Fitted(r, segment, to)[h]
      <3> HIDE DEF h, to
      <3> QED
        BY <2>1, <2>2, FittedLocal
    <2>4. r[1] = q[1] /\ low \in Nat /\ to \in Int
      <3>1. r[1] = q[1]
        BY <2>1
      <3>2. low \in Nat
        BY <1>1 DEF Segment
      <3> HIDE DEF L
      <3>3. to \in Int
        BY <1>0, <1>2
      <3> QED
        BY <3>1, <3>2, <3>3
    <2>5. Fits(r, segment, e) <=>
              /\ low <= to /\ OccursAt(q[1], segment, 0) /\ OccursAt(r[m], segment, to)
              /\ Fitted(r, segment, to)[h] # {}
      BY Zenon, <1>1, <1>2, <1>5, <2>4 DEF Fits
    <2>6. \A d : Fits(q, segment, d) <=>
              /\ low <= d - L /\ OccursAt(q[1], segment, 0) /\ OccursAt(q[m], segment, d - L)
              /\ Fitted(q, segment, d - L)[h] # {}
      BY Zenon, <1>1, <1>5 DEF Fits
    <2>7. OccursAt(r[m], segment, to) <=> OccursAt(q[m], segment, to) /\ segment[e] = x
      <3>1. to + (L + 1) = e
        <4> HIDE DEF L
        <4> QED
          BY <1>0, <1>2
      <3> HIDE DEF to
      <3> QED
        BY Zenon, <1>3, <2>4, <3>1
    <2>8. \A d \in 0 .. N : e = d + 1 => d - L = to
      BY <1>0, <1>2
    <2>9. low <= to => e - 1 \in 0 .. N /\ e = (e - 1) + 1
      <3> HIDE DEF L, N, low
      <3> QED
        BY <1>0, <1>2, <2>4
    <2> HIDE DEF m, L, N, low, to, h
    <2>10. ASSUME Fits(r, segment, e)
           PROVE  \E d \in 0 .. N : Fits(q, segment, d) /\ e = d + 1 /\ segment[e] = x
      <3>1. e - 1 \in 0 .. N /\ e = (e - 1) + 1
        BY Zenon, <2>5, <2>9, <2>10
      <3>2. (e - 1) - L = to
        BY Zenon, <2>8, <3>1
      <3>3. Fits(q, segment, e - 1) /\ segment[e] = x
        BY Zenon, <2>3, <2>5, <2>6, <2>7, <2>10, <3>2
      <3> QED
        BY Zenon, <3>1, <3>3
    <2>11. ASSUME NEW d \in 0 .. N, Fits(q, segment, d), e = d + 1, segment[e] = x
           PROVE  Fits(r, segment, e)
      <3>1. d - L = to
        BY Zenon, <2>8, <2>11
      <3> QED
        BY Zenon, <2>3, <2>5, <2>6, <2>7, <2>11, <3>1
    <2> QED
      BY Zenon, <2>10, <2>11 DEF N, FitsBefore
  <1> QED
    BY <1>4, <1>5

LEMMA PartsStepIs ==
    ASSUME NEW q \in Seq(Segment), Len(q) >= 1, NEW x \in Character, NEW r, r = PartsStep(q, x)
    PROVE  /\ r \in Seq(Segment) /\ Len(r) >= 1
           /\ x = "*" => /\ Len(r) = Len(q) + 1 /\ r[Len(q) + 1] = << >>
                         /\ \A i \in 1 .. Len(q) : r[i] = q[i]
           /\ x # "*" => /\ Len(r) = Len(q) /\ \A i \in 1 .. Len(q) - 1 : r[i] = q[i]
                         /\ OneLonger(q[Len(q)], x, r[Len(q)])
  <1> DEFINE m == Len(q)
             last == q[m]
  <1>0. m \in Nat /\ m >= 1 /\ m \in 1 .. m
    OBVIOUS
  <1>1. CASE x = "*"
    <2>1. r = Append(q, << >>)
      BY Zenon, <1>1 DEF PartsStep
    <2> DEFINE none == << >>
    <2>2. none \in Segment
      BY DEF Segment
    <2> HIDE DEF none
    <2>3. r = Append(q, none)
      BY Zenon, <2>1 DEF none
    <2>4. /\ r \in Seq(Segment) /\ Len(r) = Len(q) + 1 /\ r[Len(q) + 1] = none
          /\ \A i \in 1 .. Len(q) : r[i] = q[i]
      BY SMT, <2>2, <2>3
    <2>5. Len(r) >= 1
      BY <1>0, <2>4
    <2> QED
      BY Zenon, <1>1, <2>4, <2>5 DEF none
  <1>2. CASE x # "*"
    <2> DEFINE long == Append(last, x)
    <2>1. last \in Segment
      BY <1>0
    <2>2. /\ long \in Segment /\ Len(long) = Len(last) + 1 /\ long[Len(last) + 1] = x
          /\ \A k \in 1 .. Len(last) : long[k] = last[k]
      <3> HIDE DEF last
      <3> QED
        BY SMT, <2>1 DEF Segment
    <2>3. r = [q EXCEPT ![m] = long]
      BY Zenon, <1>2 DEF PartsStep
    <2> HIDE DEF long
    <2>4. r \in Seq(Segment) /\ Len(r) = m /\ r[m] = long /\ \A i \in 1 .. m - 1 : r[i] = q[i]
      BY <1>0, <2>2, <2>3
    <2>5. Len(r) >= 1
      BY <1>0, <2>4
    <2> QED
      BY Zenon, <1>2, <2>2, <2>4, <2>5 DEF OneLonger
  <1> QED
    BY <1>1, <1>2

\* The parts of the first n symbols of a pattern fit exactly where these may end.
PrefixFits(pattern, segment, n, q) ==
    /\ q \in Seq(Segment) /\ Len(q) >= 1
    /\ Len(q) = 1 => Len(q[1]) = n /\ \A k \in 1 .. n : q[1][k] = pattern[k]
    /\ \A e \in 0 .. Len(segment) : e \in Reach(pattern, segment, n) <=> Fits(q, segment, e)

LEMMA EmptyFits ==
    ASSUME NEW pattern \in Segment, NEW segment \in Segment
    PROVE  PrefixFits(pattern, segment, 0, << << >> >>)
  <1> DEFINE none == << >>
             q == << none >>
  <1>1. none \in Segment /\ Len(none) = 0 /\ DOMAIN none = {}
    BY DEF Segment
  <1> HIDE DEF none
  <1>2. q \in Seq(Segment) /\ Len(q) = 1 /\ q[1] = none /\ 1 .. 0 = {} /\ Len(q) >= 1
    BY <1>1
  <1> HIDE DEF q
  <1>3. OccursAt(none, segment, 0)
    BY Zenon, <1>1 DEF OccursAt
  <1>4. ASSUME NEW e PROVE e \in Reach(pattern, segment, 0) <=> Fits(q, segment, e)
    <2>0. Reach(pattern, segment, 0) = {0}
      BY Zenon, ReachIs
    <2>1. e \in Reach(pattern, segment, 0) <=> e = 0
      BY Zenon, <2>0
    <2>2. Fits(q, segment, e) <=> e = 0
      BY Zenon, <1>1, <1>2, <1>3 DEF Fits
    <2> QED
      BY <2>1, <2>2
  <1>5. PrefixFits(pattern, segment, 0, q)
    BY Zenon, <1>1, <1>2, <1>4 DEF PrefixFits
  <1> QED
    BY Zenon, <1>5 DEF q, none

LEMMA LongerFits ==
    ASSUME NEW pattern \in Segment, NEW segment \in Segment, NEW n \in Nat, n + 1 <= Len(pattern),
           NEW q, PrefixFits(pattern, segment, n, q), NEW r, r = PartsStep(q, pattern[n + 1])
    PROVE  PrefixFits(pattern, segment, n + 1, r)
  <1> DEFINE x == pattern[n + 1]
             N == Len(segment)
             R == Reach(pattern, segment, n)
  <1>0. x \in Character /\ N \in Nat
    BY DEF Segment
  <1>1. /\ q \in Seq(Segment) /\ Len(q) >= 1
        /\ Len(q) = 1 => Len(q[1]) = n /\ \A k \in 1 .. n : q[1][k] = pattern[k]
        /\ \A e \in 0 .. N : e \in R <=> Fits(q, segment, e)
    BY Zenon DEF PrefixFits
  <1>2. \A d \in R : d \in 0 .. N
    BY Zenon DEF Reach
  <1>3. ASSUME NEW e \in 0 .. N
        PROVE  e \in Reach(pattern, segment, n + 1) <=>
                   \E d \in R : GlobStep(pattern, segment, d, n + 1, e)
    BY Zenon, ReachIs
  <1> HIDE DEF R
  <1>4. CASE x = "*"
    <2>1. /\ r \in Seq(Segment) /\ Len(r) = Len(q) + 1 /\ r[Len(q) + 1] = << >>
          /\ \A i \in 1 .. Len(q) : r[i] = q[i]
      BY Zenon, <1>0, <1>1, <1>4, PartsStepIs
    <2>2. Len(r) >= 1 /\ Len(r) # 1
      BY <1>1, <2>1
    <2>3. ASSUME NEW e \in 0 .. N, NEW d \in 0 .. N
          PROVE  GlobStep(pattern, segment, d, n + 1, e) <=> d <= e
      <3>1. e = d + 1 => d <= e
        OBVIOUS
      <3> QED
        BY Zenon, <1>4, <3>1 DEF GlobStep
    <2>4. ASSUME NEW e \in 0 .. N
          PROVE  e \in Reach(pattern, segment, n + 1) <=> Fits(r, segment, e)
      <3>1. Fits(r, segment, e) <=> \E d \in 0 .. N : Fits(q, segment, d) /\ d <= e
        BY Zenon, <1>1, <2>1, FitsStar
      <3>2. e \in Reach(pattern, segment, n + 1) <=> \E d \in R : d <= e
        BY Zenon, <1>2, <1>3, <2>3
      <3> HIDE DEF N
      <3> QED
        BY Zenon, <1>1, <1>2, <3>1, <3>2
    <2> QED
      BY Zenon, <2>1, <2>2, <2>4 DEF PrefixFits
  <1>5. CASE x # "*"
    <2>1. /\ r \in Seq(Segment) /\ Len(r) >= 1 /\ Len(r) = Len(q)
          /\ \A i \in 1 .. Len(q) - 1 : r[i] = q[i]
          /\ OneLonger(q[Len(q)], x, r[Len(q)])
      BY Zenon, <1>0, <1>1, <1>5, PartsStepIs
    <2>2. ASSUME NEW e \in 0 .. N
          PROVE  e \in Reach(pattern, segment, n + 1) <=> Fits(r, segment, e)
      <3>1. Fits(r, segment, e) <=> \E d \in 0 .. N : Fits(q, segment, d) /\ e = d + 1 /\ segment[e] = x
        <4> HIDE DEF x
        <4>1. Fits(r, segment, e) <=> FitsBefore(q, segment, e, x)
          BY Zenon, <1>0, <1>1, <2>1, FitsLiteral
        <4> QED
          BY Zenon, <4>1 DEF FitsBefore
      <3>2. ASSUME NEW d \in 0 .. N
            PROVE  GlobStep(pattern, segment, d, n + 1, e) <=> e = d + 1 /\ segment[e] = x
        BY Zenon, <1>5 DEF GlobStep
      <3> HIDE DEF N, x
      <3> QED
        BY Zenon, <1>1, <1>2, <1>3, <3>1, <3>2
    <2>3. ASSUME Len(r) = 1 PROVE Len(r[1]) = n + 1 /\ \A k \in 1 .. n + 1 : r[1][k] = pattern[k]
      <3>1. Len(q) = 1 /\ Len(q[1]) = n /\ \A k \in 1 .. n : q[1][k] = pattern[k]
        BY Zenon, <1>1, <2>1, <2>3
      <3>2. Len(r[1]) = n + 1 /\ r[1][n + 1] = x /\ \A k \in 1 .. n : r[1][k] = q[1][k]
        BY Zenon, <2>1, <3>1 DEF OneLonger
      <3>3. \A k \in 1 .. n + 1 : k \in 1 .. n \/ k = n + 1
        OBVIOUS
      <3> QED
        BY Zenon, <3>1, <3>2, <3>3
    <2> QED
      BY Zenon, <2>1, <2>2, <2>3 DEF PrefixFits
  <1> QED
    BY <1>4, <1>5

LEMMA PatternFits ==
    ASSUME NEW pattern \in Segment, NEW segment \in Segment
    PROVE  PrefixFits(pattern, segment, Len(pattern), Parts(pattern))
  <1> DEFINE P == PartsOf(pattern)
             M == Len(pattern)
             S == {n \in Nat : n <= M => PrefixFits(pattern, segment, n, P[n])}
  <1>0. M \in Nat
    BY DEF Segment
  <1>1. P[0] = << << >> >> /\ Parts(pattern) = P[M]
    BY Zenon, PartsAre
  <1>2. ASSUME NEW n \in 1 .. M PROVE P[n] = PartsStep(P[n - 1], pattern[n])
    BY PartsAre
  <1> HIDE DEF P
  <1>3. 0 \in S
    <2>1. PrefixFits(pattern, segment, 0, P[0])
      BY Zenon, <1>1, EmptyFits
    <2> QED
      BY <2>1
  <1>4. ASSUME NEW n \in Nat, n \in S PROVE n + 1 \in S
    <2>1. SUFFICES ASSUME n + 1 <= M PROVE PrefixFits(pattern, segment, n + 1, P[n + 1])
      OBVIOUS
    <2>2. n + 1 \in 1 .. M /\ (n + 1) - 1 = n /\ n <= M
      BY <1>0, <2>1
    <2>3. P[n + 1] = PartsStep(P[n], pattern[n + 1])
      BY Zenon, <1>2, <2>2
    <2>4. PrefixFits(pattern, segment, n, P[n])
      BY <1>4, <2>2
    <2> QED
      BY Zenon, <2>1, <2>3, <2>4, LongerFits
  <1>5. M \in S
    <2> HIDE DEF S
    <2> QED
      BY Zenon, <1>0, <1>3, <1>4, Induction
  <1> QED
    BY <1>0, <1>1, <1>5

\* matchSegment decides the globs.
LEMMA MatchIsGlob ==
    ASSUME NEW pattern \in Segment, NEW segment \in Segment
    PROVE  matchSegment(pattern, segment) <=> Glob(pattern, segment)
  <1> DEFINE q == Parts(pattern)
             N == Len(segment)
             to == N - Len(q[Len(q)])
  <1>0. N \in Nat /\ N \in 0 .. N
    BY DEF Segment
  <1>1. /\ q \in Seq(Segment) /\ Len(q) >= 1
        /\ Len(q) = 1 => Len(q[1]) = Len(pattern) /\ \A k \in 1 .. Len(pattern) : q[1][k] = pattern[k]
        /\ \A e \in 0 .. N : e \in Reach(pattern, segment, Len(pattern)) <=> Fits(q, segment, e)
    BY Zenon, PatternFits DEF PrefixFits
  <1>2. Glob(pattern, segment) <=> Fits(q, segment, N)
    <2>1. Glob(pattern, segment) <=> N \in Reach(pattern, segment, Len(pattern))
      BY Zenon, ReachIs
    <2> QED
      BY Zenon, <1>0, <1>1, <2>1
  <1>3. matchSegment(pattern, segment) <=>
            IF Len(q) = 1 THEN pattern = segment
            ELSE /\ Len(q[1]) <= N /\ OccursAt(q[1], segment, 0)
                 /\ Len(q[1]) <= to /\ OccursAt(q[Len(q)], segment, to)
                 /\ Fitted(q, segment, to)[Len(q) - 1] # {}
    BY Zenon DEF matchSegment, LastPart
  <1> HIDE DEF q
  <1>4. CASE Len(q) = 1
    <2>1. Fits(q, segment, N) <=> N = Len(q[1]) /\ OccursAt(q[1], segment, 0)
      BY Zenon, <1>4 DEF Fits
    <2> DEFINE part == q[1]
    <2>2. part \in Segment /\ Len(part) = Len(pattern) /\ \A k \in 1 .. Len(pattern) : part[k] = pattern[k]
      BY <1>1, <1>4
    <2>3. part = pattern
      BY Zenon, <2>2, SameSequence DEF Segment
    <2>4. OccursAt(pattern, segment, 0) <=> \A j \in 1 .. Len(pattern) : segment[j] = pattern[j]
      <3>1. DOMAIN pattern = 1 .. Len(pattern) /\ \A j \in 1 .. Len(pattern) : 0 + j = j
        BY DEF Segment
      <3> QED
        BY Zenon, <3>1 DEF OccursAt
    <2>5. pattern = segment <=> N = Len(pattern) /\ \A j \in 1 .. Len(pattern) : segment[j] = pattern[j]
      BY Zenon, SameSequence DEF Segment
    <2> QED
      BY Zenon, <1>2, <1>3, <1>4, <2>1, <2>3, <2>4, <2>5
  <1>5. CASE Len(q) # 1
    <2>1. Len(q[1]) <= to => Len(q[1]) <= N
      <3>1. q[1] \in Segment /\ q[Len(q)] \in Segment
        BY <1>1
      <3>2. Len(q[1]) \in Nat /\ Len(q[Len(q)]) \in Nat
        BY <3>1 DEF Segment
      <3> DEFINE a == Len(q[1])
                 b == Len(q[Len(q)])
      <3>3. a \in Nat /\ b \in Nat
        BY Zenon, <3>2
      <3> HIDE DEF a, b, N
      <3>4. a <= N - b => a <= N
        BY <1>0, <3>3
      <3> QED
        BY Zenon, <3>4 DEF a, b
    <2>2. Fits(q, segment, N) <=>
              /\ Len(q[1]) <= to /\ OccursAt(q[1], segment, 0) /\ OccursAt(q[Len(q)], segment, to)
              /\ Fitted(q, segment, to)[Len(q) - 1] # {}
      BY Zenon, <1>5 DEF Fits
    <2> QED
      BY Zenon, <1>2, <1>3, <1>5, <2>1, <2>2
  <1> QED
    BY <1>4, <1>5

\* The loader and the checker find the same templates covered, written canonically.
LEMMA SameCoverage ==
    ASSUME NEW T \in Path, NEW G \in Path, T # << >>, Canonicalise(G) = {G}, T \in ParseTemplate(T)
    PROVE  CoveredBy(T, G) <=> templateCovered(G, T)
  <1> DEFINE plain == [k \in DOMAIN T |-> IF T[k] = Placeholder THEN <<"b">> ELSE T[k]]
             Covered(k) == IF T[k] = Placeholder THEN G[k] = <<"*">> ELSE matchSegment(G[k], T[k])
  <1>0. /\ Len(T) \in Nat /\ DOMAIN T = 1 .. Len(T) /\ Len(T) >= 1 /\ 1 \in 1 .. Len(T)
        /\ DOMAIN G = 1 .. Len(G) /\ Len(G) \in Nat /\ (G = << >> <=> Len(G) = 0)
        /\ \A k \in 1 .. Len(T) : T[k] \in Segment
        /\ \A k \in 1 .. Len(G) : G[k] \in Segment
    <2>1. /\ Len(T) \in Nat /\ DOMAIN T = 1 .. Len(T) /\ Len(T) # 0
          /\ \A k \in 1 .. Len(T) : T[k] \in Segment
      BY DEF Path
    <2>2. /\ DOMAIN G = 1 .. Len(G) /\ Len(G) \in Nat /\ (G = << >> <=> Len(G) = 0)
          /\ \A k \in 1 .. Len(G) : G[k] \in Segment
      BY DEF Path
    <2> QED
      BY <2>1, <2>2
  <1>1. \A k \in 1 .. Len(T) : T[k] = Placeholder \/ CanonicalSegment(T[k])
    BY Zenon, TemplateIs
  <1>2. CoveredBy(T, G) <=> G # << >> /\ Len(G) = Len(T) /\ \A k \in 1 .. Len(T) : Covered(k)
    BY Zenon, <1>0 DEF CoveredBy
  <1>3. /\ plain \in Path /\ Len(plain) = Len(T) /\ plain # << >>
        /\ \A k \in 1 .. Len(T) : plain[k] = IF T[k] = Placeholder THEN <<"b">> ELSE T[k]
    <2> DEFINE b == <<"b">>
    <2>1. b \in Segment
      BY Zenon, PlaceholderIs
    <2>2. \A k \in 1 .. Len(T) : (IF T[k] = Placeholder THEN b ELSE T[k]) \in Segment
      BY Zenon, <1>0, <2>1
    <2>3. plain = [k \in 1 .. Len(T) |-> IF T[k] = Placeholder THEN b ELSE T[k]]
      BY Zenon, <1>0
    <2>4. \A k \in 1 .. Len(T) : plain[k] = IF T[k] = Placeholder THEN b ELSE T[k]
      BY Zenon, <2>3
    <2> HIDE DEF b, plain
    <2>5. plain \in Path /\ Len(plain) = Len(T)
      BY <1>0, <2>2, <2>3 DEF Path
    <2>6. plain # << >>
      BY <1>0, <2>5
    <2> QED
      BY Zenon, <2>4, <2>5, <2>6 DEF b
  <1>4. DOMAIN plain = 1 .. Len(T) /\ \A k \in 1 .. Len(T) : plain[k] \in Segment
    <2> HIDE DEF plain
    <2> QED
      BY <1>0, <1>3 DEF Path
  <1>5. Split(T) = T /\ Split(plain) = plain
    BY Zenon, <1>3 DEF Split
  <1>6. templateCovered(G, T) <=>
            /\ Len(Split(G)) = Len(T)
            /\ \A k \in 1 .. Len(T) : T[k] = Placeholder => Split(G)[k] = <<"*">>
            /\ \A k \in 1 .. Len(T) : Glob(Split(G)[k], plain[k])
    BY Zenon, <1>0, <1>3, <1>4, <1>5 DEF templateCovered, GlobMatch
  <1> HIDE DEF plain
  <1>7. CASE G = << >>
    <2>1. Split(G) = << << >> >>
      BY Zenon, <1>7 DEF Split
    <2> DEFINE none == << >>
    <2>2. Split(G)[1] = none /\ none \in Segment
      <3>1. << << >> >>[1] = << >> /\ << >> \in Segment
        BY DEF Segment
      <3> QED
        BY Zenon, <2>1, <3>1
    <2>3. << >> # <<"*">>
      OBVIOUS
    <2>4. ASSUME templateCovered(G, T) PROVE FALSE
      <3>1. T[1] # Placeholder
        BY Zenon, <1>0, <1>6, <2>2, <2>3, <2>4
      <3>2. plain[1] = T[1] /\ T[1] # << >> /\ T[1] \in Segment
        BY Zenon, <1>0, <1>1, <1>3, <3>1 DEF CanonicalSegment
      <3>3. Glob(none, T[1])
        BY Zenon, <1>0, <1>6, <2>2, <2>4, <3>2
      <3>4. matchSegment(none, T[1])
        BY Zenon, <2>2, <3>2, <3>3, MatchIsGlob
      <3>5. Parts(none) = << << >> >> /\ Len(<< << >> >>) = 1
        <4>1. Len(none) = 0
          OBVIOUS
        <4>2. Parts(none) = << << >> >>
          BY Zenon, <2>2, <4>1, PartsAre
        <4>3. Len(<< << >> >>) = 1
          OBVIOUS
        <4> QED
          BY <4>2, <4>3
      <3>6. none = T[1]
        BY Zenon, <3>4, <3>5 DEF matchSegment
      <3> QED
        BY Zenon, <3>2, <3>6
    <2> QED
      BY Zenon, <1>2, <1>7, <2>4
  <1>8. CASE G # << >>
    <2>1. Split(G) = G
      BY Zenon, <1>8 DEF Split
    <2>2. ASSUME Len(G) = Len(T), NEW k \in 1 .. Len(T)
          PROVE  Covered(k) <=> (T[k] = Placeholder => G[k] = <<"*">>) /\ Glob(G[k], plain[k])
      <3>1. G[k] \in Segment /\ plain[k] \in Segment
        BY Zenon, <1>0, <1>4, <2>2
      <3>2. matchSegment(G[k], plain[k]) <=> Glob(G[k], plain[k])
        BY Zenon, <3>1, MatchIsGlob
      <3>3. CASE T[k] = Placeholder
        <4>1. G[k] = <<"*">> => matchSegment(G[k], plain[k])
          BY Zenon, <3>1, StarMatches
        <4> QED
          BY Zenon, <3>2, <3>3, <4>1
      <3>4. CASE T[k] # Placeholder
        <4>1. plain[k] = T[k]
          BY Zenon, <1>3, <3>4
        <4> QED
          BY Zenon, <3>2, <3>4, <4>1
      <3> QED
        BY <3>3, <3>4
    <2> HIDE DEF Covered
    <2> QED
      BY Zenon, <1>2, <1>6, <1>8, <2>1, <2>2
  <1> QED
    BY <1>7, <1>8

\* Whatever the pattern and the segment are, the greedy search of matchSegment decides
\* the glob; and the loader and the contract checker find the same templates covered by
\* a route when both are written canonically.
THEOREM MatchersDecideGlobs == WellFormed /\ WrittenCanonically => MatchersAgree
  <1>1. ASSUME WellFormed, input.what = "glob" PROVE GlobAgrees
    <2>1. input.pattern \in Segment /\ input.segment \in Segment
      BY <1>1 DEF WellFormed
    <2> QED
      BY Zenon, <2>1, MatchIsGlob DEF GlobAgrees
  <1>2. ASSUME WellFormed, WrittenCanonically, input.what = "template", input.template # << >>,
               NEW t \in ParseTemplate(input.template)
        PROVE  CoveredBy(t, input.pattern) <=> templateCovered(input.pattern, input.template)
    <2>1. input.template \in Path /\ input.pattern \in Path
      BY <1>2 DEF WellFormed
    <2>2. Canonicalise(input.pattern) = {input.pattern} /\ t = input.template
      BY Zenon, <1>2 DEF WrittenCanonically
    <2> QED
      BY Zenon, <1>2, <2>1, <2>2, SameCoverage
  <1> QED
    BY Zenon, <1>1, <1>2 DEF MatchersAgree, GlobAgrees, CheckerCovers

\* The letters of the templates stand for themselves.
LEMMA ShortCanonical ==
    ASSUME NEW s \in Short
    PROVE  CanonicalSegment(s) /\ s \in Segment
  <1> DEFINE letters == {"a", "b", "*"}
             Plain(x) == /\ x \in Character /\ Decoded(x) = x /\ Normalised(x) = x
                         /\ x \notin Forbidden /\ x # "."
  <1>1. \A x \in letters : Plain(x)
    <2>1. letters \subseteq Character
      BY Zenon DEF Character
    <2>2. \A x \in letters : Decoded(x) = x /\ x \notin Forbidden /\ x # "."
      BY Zenon DEF Decoded, Forbidden
    <2>3. \A x \in letters : Normalised(x) = x
      BY Zenon, <2>2 DEF Normalised, isUnreserved
    <2> QED
      BY Zenon, <2>1, <2>2, <2>3
  <1>2. ASSUME NEW n \in 1 .. 2, s \in [1 .. n -> letters] PROVE CanonicalSegment(s)
    <2> HIDE DEF letters
    <2>1. /\ s \in Seq(Character) /\ s # << >> /\ DOMAIN s = 1 .. n /\ 1 \in 1 .. n
          /\ \A k \in 1 .. n : s[k] \in letters
      <3>1. \A k \in 1 .. n : s[k] \in Character
        BY Zenon, <1>1, <1>2
      <3> QED
        BY <1>2, <3>1
    <2>2. Each(Decoded, s) = s
      <3>1. \A k \in 1 .. n : Decoded(s[k]) = s[k]
        BY Zenon, <1>1, <2>1
      <3> QED
        BY Zenon, <1>2, <2>1, <3>1 DEF Each
    <2>3. s \notin DotSegments
      <3>1. s[1] # "."
        BY Zenon, <1>1, <2>1
      <3>2. s # <<".">> /\ s # <<".", ".">>
        BY <3>1
      <3> QED
        BY Zenon, <3>2 DEF DotSegments
    <2> QED
      BY Zenon, <1>1, <2>1, <2>2, <2>3 DEF CanonicalSegment, Segment
  <1>3. ASSUME s = Placeholder PROVE CanonicalSegment(s)
    <2>1. DOMAIN Placeholder = {1} /\ Placeholder[1] = "{x}"
      BY DEF Placeholder
    <2>2. Normalised("{x}") = "{x}"
      BY Zenon DEF Normalised, Decoded, isUnreserved
    <2> QED
      BY Zenon, <1>3, <2>1, <2>2, PlaceholderIs DEF CanonicalSegment
  <1>4. s = Placeholder \/ \E n \in 1 .. 2 : s \in [1 .. n -> letters]
    <2>1. s = Placeholder \/ s \in UNION {[1 .. n -> letters] : n \in 1 .. 2}
      <3> DEFINE U == UNION {[1 .. n -> letters] : n \in 1 .. 2}
      <3>1. Short = {Placeholder} \cup U
        BY Zenon DEF Short
      <3> HIDE DEF U
      <3>2. s = Placeholder \/ s \in U
        BY Zenon, <3>1
      <3> QED
        BY Zenon, <3>2 DEF U
    <2> HIDE DEF letters
    <2> QED
      BY <2>1
  <1>5. CanonicalSegment(s)
    BY Zenon, <1>2, <1>3, <1>4
  <1> QED
    BY Zenon, <1>5 DEF CanonicalSegment

LEMMA TemplatesCanonical ==
    ASSUME NEW t \in Templates
    PROVE  t \in Path /\ Canonicalise(t) = {t} /\ ParseTemplate(t) \subseteq {t}
  <1>1. CanonicalPath(t)
    <2>1. t = << >> \/ (\E s \in Short : t = <<s>>) \/ (\E s, u \in Short : t = <<s, u>>)
      BY DEF Templates
    <2>2. CASE t = << >>
      BY <2>2 DEF CanonicalPath, Path
    <2>3. ASSUME NEW s \in Short, t = <<s>> PROVE CanonicalPath(t)
      <3>1. CanonicalSegment(s) /\ s \in Segment
        BY ShortCanonical
      <3>2. t \in Seq(Segment) /\ DOMAIN t = {1} /\ t[1] = s
        BY <2>3, <3>1
      <3> QED
        BY Zenon, <3>1, <3>2 DEF CanonicalPath, Path
    <2>4. ASSUME NEW s \in Short, NEW u \in Short, t = <<s, u>> PROVE CanonicalPath(t)
      <3>1. CanonicalSegment(s) /\ s \in Segment /\ CanonicalSegment(u) /\ u \in Segment
        BY ShortCanonical
      <3>2. t \in Seq(Segment) /\ DOMAIN t = {1, 2} /\ t[1] = s /\ t[2] = u
        BY <2>4, <3>1
      <3> QED
        BY Zenon, <3>1, <3>2 DEF CanonicalPath, Path
    <2> QED
      BY Zenon, <2>1, <2>2, <2>3, <2>4
  <1>2. t \in Path /\ Canonicalise(t) = {t}
    BY Zenon, <1>1, CanonicalFixed
  <1>3. ASSUME NEW c \in ParseTemplate(t) PROVE c = t
    <2>1. /\ c \in Path /\ Len(c) = Len(t)
          /\ \A k \in 1 .. Len(t) : c[k] = t[k] \/ c[k] = Each(Normalised, t[k])
      BY Zenon, <1>2, TemplateIs
    <2>2. DOMAIN t = 1 .. Len(t)
      BY <1>2 DEF Path
    <2>3. \A k \in 1 .. Len(t) : Each(Normalised, t[k]) = t[k]
      BY Zenon, <1>1, <2>2, CanonicalSegmentFixed DEF CanonicalPath
    <2>4. \A k \in 1 .. Len(c) : c[k] = t[k]
      BY Zenon, <2>1, <2>3
    <2> QED
      BY Zenon, <1>2, <2>1, <2>4, SameSequence DEF Path
  <1> QED
    BY Zenon, <1>2, <1>3

\* What the module computes with is well formed, and its templates are canonical.
THEOREM RouteInputs == RoutesSpec => [](WellFormed /\ WrittenCanonically)
  <1> DEFINE Inv == WellFormed /\ WrittenCanonically
  <1>1. InputInit => Inv
    BY DEF InputInit, WellFormed, WrittenCanonically
  <1>2. ASSUME Inv, [RoutesNext]_input PROVE Inv'
    <2>1. CASE PickPaths
      <3>1. PICK base \in {<< >>, <<<<"a">>>>, <<<<"a">>, <<"b">>>>}, p \in Paths :
                input' = [what |-> "join", base |-> base, path |-> p]
        BY Zenon, <2>1 DEF PickPaths
      <3>2. \A x \in {"a", "b"} : <<x>> \in Segment
        <4>1. {"a", "b"} \subseteq Character
          BY Zenon DEF Character
        <4> QED
          BY <4>1 DEF Segment
      <3> DEFINE a == <<"a">>
                 b == <<"b">>
      <3>3. a \in Segment /\ b \in Segment
        BY Zenon, <3>2
      <3>4. base = << >> \/ base = <<a>> \/ base = <<a, b>>
        BY Zenon
      <3>5. p = << >> \/ \E s \in Segments : p = <<s>> \/ p = <<s, a>> \/ p = <<a, s>>
        BY Zenon DEF Paths
      <3>6. Symbols \subseteq Character
        BY Zenon DEF Character
      <3>7. \A s \in Segments : s \in Segment
        BY Zenon, <3>6, WordIsSegment DEF Segments
      <3> HIDE DEF a, b
      <3>8. base \in Path /\ p \in Path
        <4>1. /\ << >> \in Path /\ \A s \in Segment : <<s>> \in Path
              /\ \A s, t \in Segment : <<s, t>> \in Path
          BY DEF Path
        <4> QED
          BY Zenon, <3>3, <3>4, <3>5, <3>7, <4>1
      <3> QED
        BY <3>1, <3>8 DEF WellFormed, WrittenCanonically
    <2>2. CASE PickGlob
      <3>1. PICK g \in PlainSegments, s \in PlainSegments :
                input' = [what |-> "glob", pattern |-> g, segment |-> s]
        BY Zenon, <2>2 DEF PickGlob
      <3>2. {"a", "b", ".", "*"} \subseteq Character
        BY Zenon DEF Character
      <3>3. g \in Segment /\ s \in Segment
        BY Zenon, <3>2, WordIsSegment DEF PlainSegments
      <3> QED
        BY <3>1, <3>3 DEF WellFormed, WrittenCanonically
    <2>3. CASE PickTemplate
      <3>1. PICK t \in Templates, g \in Templates :
                input' = [what |-> "template", template |-> t, pattern |-> g]
        BY Zenon, <2>3 DEF PickTemplate
      <3>2. /\ t \in Path /\ g \in Path /\ Canonicalise(g) = {g} /\ ParseTemplate(t) \subseteq {t}
        BY Zenon, TemplatesCanonical
      <3>3. input'.what = "template" /\ input'.template = t /\ input'.pattern = g
        BY <3>1
      <3>4. WellFormed'
        BY <3>2, <3>3 DEF WellFormed
      <3>5. WrittenCanonically'
        BY Zenon, <3>2, <3>3 DEF WrittenCanonically
      <3> QED
        BY <3>4, <3>5
    <2>4. CASE PickRequest
      <3>1. /\ input'.what = "request" /\ input'.route.path = <<<<"a">>>>
            /\ input'.request.path = <<<<"a">>>>
        <4>1. PICK keys \in {<< >>, <<{}>>, <<{"q"}>>}, type \in {"", "json", "json;utf-8"}, kb \in 0 .. 2,
                   sent \in SUBSET {"q"}, with \in {"", "json"}, size \in -1 .. 2 :
                  input' = [what |-> "request",
                            route |-> [path |-> <<<<"a">>>>, keys |-> keys, type |-> type, maxKB |-> kb],
                            request |-> [path |-> <<<<"a">>>>, keys |-> sent, type |-> with, size |-> size]]
          BY Zenon, <2>4 DEF PickRequest
        <4> DEFINE a == <<<<"a">>>>
        <4> HIDE DEF a
        <4>2. input' = [what |-> "request",
                        route |-> [path |-> a, keys |-> keys, type |-> type, maxKB |-> kb],
                        request |-> [path |-> a, keys |-> sent, type |-> with, size |-> size]]
          BY Zenon, <4>1 DEF a
        <4>3. input'.what = "request" /\ input'.route.path = a /\ input'.request.path = a
          BY <4>2
        <4> QED
          BY Zenon, <4>3 DEF a
      <3>2. <<<<"a">>>> \in Path
        <4>1. "a" \in Character
          BY Zenon DEF Character
        <4>2. \A x \in Character : <<x>> \in Segment
          BY DEF Segment
        <4>3. \A s \in Segment : <<s>> \in Path
          BY DEF Path
        <4> QED
          BY Zenon, <4>1, <4>2, <4>3
      <3> QED
        BY <3>1, <3>2 DEF WellFormed, WrittenCanonically
    <2>5. CASE UNCHANGED input
      BY Zenon, <1>2, <2>5 DEF WellFormed, WrittenCanonically
    <2> QED
      BY <1>2, <2>1, <2>2, <2>3, <2>4, <2>5 DEF RoutesNext
  <1> QED
    BY <1>1, <1>2, PTL DEF RoutesSpec
=============================================================================
