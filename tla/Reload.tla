------------------------------- MODULE Reload -------------------------------
(***************************************************************************)
(* How an edited configuration comes into force: the watcher, the loader's *)
(* checks, the build of a runtime generation, its activation component by  *)
(* component, the rollback of a failed activation, and the publication of  *)
(* the snapshot.                                                           *)
(*                                                                         *)
(* A configuration is a version number.  Constants say of each version its *)
(* authentication mode, whether it has secrets or actions, and the         *)
(* connection material it resolves to.  A generation is what buildRuntime  *)
(* made of a version: gens[g] remembers the version, the manifest it read  *)
(* and the connection revision it was given.  Every step that can return   *)
(* an error may do so, MaxFaults times in all.                             *)
(***************************************************************************)
EXTENDS Naturals, Sequences, FiniteSets

CONSTANTS
    Versions,            \* 0..n, edited in this order
    ModeOf,              \* the authentication mode of a version
    Sensitive,           \* versions that reference secrets or enable actions
    Material,            \* the connection material of a version
    MaxManifests, MaxFaults, MaxGens, MaxBoots

VARIABLES
    disk, manifest,      \* what an editor last wrote
    watching,            \* the configuration directory is watched
    dirWatch, dirKnown,  \* inotify's and the watcher's view of the integration directory
    event, timer,        \* a file event is queued; the debounce timer runs
    missed,              \* history: the last edit raised no event
    pc, cand,            \* the watcher's goroutine and the version it loads
    initialMode,         \* configLoader's mode of the first load
    current, status,     \* the published snapshot and the load result
    gens, next,          \* generations ever built; the one being activated
    live,                \* the generation each component works with
    active,              \* the rule engine evaluates
    previous,            \* what activateRuntime restores on failure
    closed,              \* generations whose runtimes are closed
    table, issued,       \* connection_state; history: every revision ever issued
    broken,              \* history: since the last accepted reload an undo failed, or a step half way
    faults, boots

files == <<disk, manifest, watching, dirWatch, dirKnown, event, timer, missed>>
store == <<current, status>>
parts == <<live, active, previous, closed>>
rows == <<table, issued>>
counters == <<faults, boots>>
reloadVars == <<files, pc, cand, initialMode, store, gens, next, parts, rows, broken, counters>>

Component == {"auth", "rules", "channels", "scheduler", "registry", "runtimes"}

\* validateAuthNone: without authentication nothing sensitive may be configured.
Unguarded(v) == ModeOf[v] = "none" /\ v \in Sensitive

\* The mutant keeps the revision whatever the material.
SyncById(material) == [mat |-> material, rev |-> table.rev]

\* SyncConnectionRevisions: equal material keeps its revision, anything else gets a new one.
Sync(material) ==
    IF table.mat = material THEN table
    ELSE [mat |-> material, rev |-> Cardinality(issued) + 1]

Generation(v, row) == [conf |-> v, manifest |-> manifest, rev |-> row.rev]

ReloadInit ==
    /\ disk = 0 /\ manifest = 0
    /\ watching = FALSE /\ dirWatch = FALSE /\ dirKnown = FALSE
    /\ event = FALSE /\ timer = FALSE /\ missed = FALSE
    /\ pc = "starting" /\ cand = 0
    /\ initialMode = ModeOf[0]
    /\ current = 0 /\ status = [ok |-> TRUE, generation |-> 1]
    /\ table = [mat |-> Material[0], rev |-> 1] /\ issued = {[mat |-> Material[0], rev |-> 1]}
    /\ gens = <<[conf |-> 0, manifest |-> 0, rev |-> 1]>> /\ next = 0
    /\ live = [c \in Component |-> 1] /\ active = TRUE
    /\ previous = live /\ closed = {}
    /\ broken = FALSE /\ faults = 0 /\ boots = 0

-----------------------------------------------------------------------------
(* The file system *)

\* veduta.yaml, a fragment of conf.d or the lock file is rewritten.
Edit ==
    /\ disk + 1 \in Versions
    /\ disk' = disk + 1
    /\ event' = (event \/ watching)
    /\ missed' = ~watching
    /\ UNCHANGED <<manifest, watching, dirWatch, dirKnown, timer, pc, cand, initialMode,
                   store, gens, next, parts, rows, broken, counters>>

\* A manifest is rewritten in place, or its whole directory is replaced, which ends the
\* watch inotify had on the old one and may or may not be reported.
EditManifest(replaced) ==
    /\ manifest < MaxManifests
    /\ manifest' = manifest + 1
    /\ \/ event' = (event \/ dirWatch)
       \/ replaced /\ event' = event
    /\ missed' = (missed \/ ~dirWatch \/ replaced)
    /\ dirWatch' = (dirWatch /\ ~replaced)
    /\ UNCHANGED <<disk, watching, dirKnown, timer, pc, cand, initialMode,
                   store, gens, next, parts, rows, broken, counters>>

-----------------------------------------------------------------------------
(* The watcher *)

Go(label) == pc' = label

\* Watch begins: the parent directory, then the directories of the current snapshot's
\* integrations.
StartWatch ==
    /\ pc = "starting"
    /\ watching' = TRUE /\ dirWatch' = TRUE /\ dirKnown' = TRUE
    /\ Go("idle")
    /\ UNCHANGED <<disk, manifest, event, timer, missed, cand, initialMode, store, gens, next,
                   parts, rows, broken, counters>>

\* A relevant event restarts the debounce timer.
Notice ==
    /\ pc = "idle" /\ event
    /\ event' = FALSE /\ timer' = TRUE
    /\ UNCHANGED <<disk, manifest, watching, dirWatch, dirKnown, missed, pc, cand, initialMode,
                   store, gens, next, parts, rows, broken, counters>>

\* The timer fires: LoadPath reads the files, and configLoader applies its checks.
Load ==
    /\ pc = "idle" /\ timer
    /\ timer' = FALSE /\ cand' = disk /\ missed' = FALSE
    /\ \/ /\ ~Unguarded(disk) /\ ModeOf[disk] = initialMode
          /\ Go("build") /\ faults' = faults
       \/ /\ Unguarded(disk) \/ ModeOf[disk] # initialMode
          /\ Go("reject") /\ faults' = faults
       \/ /\ faults < MaxFaults
          /\ Go("reject") /\ faults' = faults + 1
    /\ UNCHANGED <<disk, manifest, watching, dirWatch, dirKnown, event, initialMode, store,
                   gens, next, parts, rows, broken, boots>>

-----------------------------------------------------------------------------
(* buildRuntime and activateRuntime *)

Fault == faults < MaxFaults /\ faults' = faults + 1

\* Secrets, registry, material; the revisions are committed; then the generation and its
\* channels are built, which may still fail (a rule that does not compile, a channel).
Build ==
    /\ pc = "build" /\ Len(gens) < MaxGens
    /\ \/ Fault /\ Go("reject") /\ UNCHANGED <<rows, gens, next>>
       \/ /\ table' = Sync(Material[cand])
          /\ issued' = issued \cup {table'}
          /\ \/ Fault /\ Go("reject") /\ UNCHANGED <<gens, next>>
             \/ /\ gens' = Append(gens, Generation(cand, table'))
                /\ next' = Len(gens) + 1
                /\ Go("auth") /\ faults' = faults
    /\ previous' = live
    /\ UNCHANGED <<files, cand, initialMode, store, live, active, closed, broken, boots>>

Set(component, label) ==
    /\ live' = [live EXCEPT ![component] = next]
    /\ Go(label) /\ faults' = faults

Rest == UNCHANGED <<files, cand, initialMode, store, gens, next, previous, rows, boots>>

\* reconfigureAuthenticationResolved: an error before anything changed, or after the new
\* credentials took effect (the sessions could not be deleted); either rejects the reload
\* without a rollback.
SetAuth ==
    /\ pc = "auth"
    /\ \/ Set("auth", "rules") /\ broken' = broken
       \/ Fault /\ Go("drop") /\ UNCHANGED <<live, broken>>
       \/ Fault /\ Go("drop") /\ live' = [live EXCEPT !.auth = next] /\ broken' = TRUE
    /\ Rest /\ UNCHANGED <<active, closed>>

SetRules ==
    /\ pc = "rules"
    /\ \/ Set("rules", "channels") /\ active' = FALSE
       \/ Fault /\ Go("undoAuth") /\ UNCHANGED <<live, active>>
    /\ Rest /\ UNCHANGED <<closed, broken>>

SetChannels ==
    /\ pc = "channels"
    /\ Set("channels", "scheduler")
    /\ Rest /\ UNCHANGED <<active, closed, broken>>

SetScheduler ==
    /\ pc = "scheduler"
    /\ \/ Set("scheduler", "evaluate")
       \/ Fault /\ Go("undoRules") /\ live' = live
    /\ Rest /\ UNCHANGED <<active, closed, broken>>

EvaluateRules ==
    /\ pc = "evaluate"
    /\ active' = TRUE
    /\ \/ Go("registry") /\ faults' = faults
       \/ Fault /\ Go("undoScheduler")
    /\ Rest /\ UNCHANGED <<live, closed, broken>>

SwapRegistry ==
    /\ pc = "registry"
    /\ Set("registry", "runtimes")
    /\ Rest /\ UNCHANGED <<active, closed, broken>>

\* runtimeHolder.Swap closes what it held.
SwapRuntimes ==
    /\ pc = "runtimes"
    /\ closed' = closed \cup {live.runtimes}
    /\ Set("runtimes", "publish")
    /\ Rest /\ UNCHANGED <<active, broken>>

\* The mutant leaves the component as it is.
UndoNothing(component, label) ==
    /\ live' = live /\ Go(label)
    /\ faults' = faults /\ broken' = broken

\* rollback, last component first; an error is collected and the next one still undone.
Undo(component, label) ==
    \/ /\ live' = [live EXCEPT ![component] = previous[component]]
       /\ Go(label) /\ faults' = faults /\ broken' = broken
    \/ /\ Fault /\ live' = live /\ Go(label) /\ broken' = TRUE

UndoScheduler ==
    /\ pc = "undoScheduler"
    /\ Undo("scheduler", "undoRules")
    /\ Rest /\ UNCHANGED <<active, closed>>

\* The rules come back inactive and are evaluated at once; an error of Evaluate leaves
\* them active.
UndoRules ==
    /\ pc = "undoRules"
    /\ Undo("rules", "undoChannels")
    /\ active' = (active \/ live'.rules = previous.rules)
    /\ Rest /\ UNCHANGED closed

UndoChannels ==
    /\ pc = "undoChannels"
    /\ live' = [live EXCEPT !.channels = previous.channels]
    /\ Go("undoAuth") /\ faults' = faults
    /\ Rest /\ UNCHANGED <<active, closed, broken>>

UndoAuth ==
    /\ pc = "undoAuth"
    /\ Undo("auth", "drop")
    /\ Rest /\ UNCHANGED <<active, closed>>

\* activateRuntime returns an error: its deferred call closes the new generation.
DropNext ==
    /\ pc = "drop"
    /\ closed' = closed \cup {next}
    /\ Go("reject") /\ faults' = faults
    /\ Rest /\ UNCHANGED <<live, active, broken>>

\* reload records the outcome, publishes the snapshot, and Watch then adds the directories
\* it does not know yet.
Reject ==
    /\ pc = "reject"
    /\ status' = [status EXCEPT !.ok = FALSE]
    /\ Go("idle")
    /\ dirWatch' = (dirWatch \/ ~dirKnown)
    /\ UNCHANGED <<disk, manifest, watching, dirKnown, event, timer, missed, cand, initialMode,
                   current, gens, next, parts, rows, broken, counters>>

\* The mutant forgets an event that arrived during the reload.
PublishAndDrain ==
    /\ pc = "publish"
    /\ current' = cand /\ event' = FALSE /\ broken' = FALSE
    /\ status' = [ok |-> TRUE, generation |-> status.generation + 1]
    /\ Go("idle")
    /\ dirWatch' = (dirWatch \/ ~dirKnown)
    /\ UNCHANGED <<disk, manifest, watching, dirKnown, timer, missed, cand,
                   initialMode, gens, next, parts, rows, counters>>

PublishSnapshot ==
    /\ pc = "publish"
    /\ current' = cand /\ broken' = FALSE
    /\ status' = [ok |-> TRUE, generation |-> status.generation + 1]
    /\ Go("idle")
    /\ dirWatch' = (dirWatch \/ ~dirKnown)
    /\ UNCHANGED <<disk, manifest, watching, dirKnown, event, timer, missed, cand, initialMode,
                   gens, next, parts, rows, counters>>

\* The process ends anywhere and serve starts again from the files and the database.
Restart ==
    /\ boots < MaxBoots /\ boots' = boots + 1
    /\ ~Unguarded(disk) /\ Len(gens) < MaxGens
    /\ initialMode' = ModeOf[disk]
    /\ table' = Sync(Material[disk]) /\ issued' = issued \cup {table'}
    /\ gens' = Append(gens, Generation(disk, table'))
    /\ live' = [c \in Component |-> Len(gens) + 1]
    /\ previous' = live' /\ next' = 0 /\ closed' = closed \cup DOMAIN gens
    /\ active' = TRUE /\ broken' = FALSE
    /\ current' = disk /\ status' = [ok |-> TRUE, generation |-> 1]
    /\ watching' = FALSE /\ dirWatch' = FALSE /\ dirKnown' = FALSE
    /\ event' = FALSE /\ timer' = FALSE /\ missed' = FALSE
    /\ Go("starting") /\ cand' = disk
    /\ UNCHANGED <<disk, manifest, faults>>

Watcher ==
    \/ StartWatch \/ Notice \/ Load \/ Build
    \/ SetAuth \/ SetRules \/ SetChannels \/ SetScheduler \/ EvaluateRules
    \/ SwapRegistry \/ SwapRuntimes \/ PublishSnapshot
    \/ UndoScheduler \/ UndoRules \/ UndoChannels \/ UndoAuth \/ DropNext \/ Reject

ReloadNext == Edit \/ (\E replaced \in BOOLEAN : EditManifest(replaced)) \/ Watcher \/ Restart

ReloadSpec == ReloadInit /\ [][ReloadNext]_reloadVars

\* The watcher's goroutine keeps running; nobody has to edit, fail or restart.
FairReload == ReloadSpec /\ WF_reloadVars(Watcher)

-----------------------------------------------------------------------------
(* What a reload promises *)

\* Whenever no reload is under way every component works with one and the same
\* generation, made of the published snapshot, its runtimes are open and the rules are
\* evaluated, whatever step of whatever reload failed (activateRuntime's rollback),
\* unless an undo failed itself; and at no moment of a reload does the scheduler run,
\* or the asset proxy use, a generation whose runtimes are closed.
Coherent ==
    ~broken =>
        /\ pc \in {"starting", "idle"} =>
              /\ \A c \in Component : live[c] = live.runtimes
              /\ gens[live.runtimes].conf = current
              /\ live.runtimes \notin closed
              /\ active
        /\ live.scheduler \notin closed /\ live.registry \notin closed

\* A connection revision never stands for two different materials, across reloads
\* accepted and rejected, and restarts: stored cards and cached assets are found by it.
RevisionIdentifies == \A a, b \in issued : a.rev = b.rev => a.mat = b.mat

\* Once the files stay as they are, the newest edit is in force or the status says that
\* it was refused, unless the edit raised no event: it came before Watch had begun, or
\* in a directory that was replaced.
EditsFollowed ==
    <>[](\/ missed \/ ~status.ok
         \/ current = disk /\ gens[live.runtimes].manifest = manifest)
=============================================================================
