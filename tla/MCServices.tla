----------------------------- MODULE MCServices -----------------------------
(***************************************************************************)
(* Small instances of the services around the scheduler, for safety: the   *)
(* event stream, authentication, the asset cache and the approval of       *)
(* integrations; and of the modules that are one step long and only        *)
(* compute: routes, contracts, layers, declarative operations, digests and *)
(* histories.  They do not interact here: every behaviour is one of the    *)
(* component that `part` names, the others stand still.                    *)
(***************************************************************************)
EXTENDS EventStream, Auth, AssetCache, Approval, Contracts, Routes, TLC

VARIABLE part

\* The browsers of the instance share a session.
OneSession == [b \in Browsers |-> "s1"]

\* Assets of different sizes, two of which fill the cache.
Sizes == [k \in Keys |-> IF k = "1" THEN 1 ELSE IF k = "2" THEN 2 ELSE 3]

\* What the segments of paths are made of, plain and escaped.
PathSymbols == {"a", ".", ":", "*", "%61", "%2e", "%3A", "%2f"}

\* An integration is upgraded without asking for anything new (1 to 2), and then for a
\* capability, a route without query keys and a larger body (3).
Items  == [name |-> "items", keys |-> <<{"page"}>>, maxKB |-> 0]
Search == [name |-> "search", keys |-> <<{}>>, maxKB |-> 1]
Asked ==
    <<[caps |-> {"http"}, routes |-> {Items}, limit |-> << >>],
      [caps |-> {"http"}, routes |-> {Items}, limit |-> << >>],
      [caps |-> {"http", "log"}, routes |-> {Items, Search}, limit |-> <<4>>]>>
Offered ==
    {[caps |-> {"http"}, routes |-> {Items}, limit |-> << >>],
     [caps |-> {"http", "log"}, routes |-> {Items, Search}, limit |-> <<3>>]}

L == INSTANCE Layers WITH Keys <- <<"a", "b">>

D == INSTANCE Declarative WITH MaxIterations <- 30, MaxChecks <- 30

N == INSTANCE Canonical WITH
         maxSafeInt <- 1, maxYAMLDepth <- 4, maxYAMLNodes <- 8, maxYAMLAliases <- 2

\* Three buckets of two seconds.
H == INSTANCE History WITH MaxHistoryPoints <- 6, Window <- 12, Scale <- 3600

ServicesInit ==
    /\ part \in {"stream", "auth", "assets", "approval", "routes", "contracts", "layers",
                 "declarative", "canonical", "history"}
    /\ Init /\ AuthInit /\ CacheInit /\ ApprovalInit /\ InputInit

ServicesNext ==
    /\ UNCHANGED part
    /\ \/ part = "stream" /\ Next /\ UNCHANGED <<authVars, cacheVars, approvalVars, input>>
       \/ part = "auth" /\ AuthNext /\ UNCHANGED <<vars, cacheVars, approvalVars, input>>
       \/ part = "assets" /\ CacheNext /\ UNCHANGED <<vars, authVars, approvalVars, input>>
       \/ part = "approval" /\ ApprovalNext /\ UNCHANGED <<vars, authVars, cacheVars, input>>
       \/ /\ \/ part = "routes" /\ RoutesNext
             \/ part = "contracts" /\ ContractsNext
             \/ part = "layers" /\ L!Next
             \/ part = "declarative" /\ D!Next
             \/ part = "canonical" /\ N!Next
             \/ part = "history" /\ H!Next
          /\ UNCHANGED <<vars, authVars, cacheVars, approvalVars>>

ServicesSpec ==
    ServicesInit /\ [][ServicesNext]_<<part, vars, authVars, cacheVars, approvalVars, input>>

Symmetry == Permutations(Requests) \cup Permutations(Sources)

-----------------------------------------------------------------------------
(* The properties of the components that are instances, which say where the *)
(* code is.                                                                 *)

\* Layers!LayersCompose: the last file to mention a path decides it and is blamed,
\* and an applied patch adds and never takes away.
LayersCompose == part = "layers" => L!LayersCompose

\* Declarative!InvokesAsWritten: a template evaluates to what it means, at its
\* cost, and a document has the declared signals and nothing omitted.
InvokesAsWritten == part = "declarative" => D!InvokesAsWritten

\* Canonical!DigestFaithful: a manifest has one digest, and two manifests share it
\* exactly when they mean the same.
DigestFaithful == part = "canonical" => N!DigestFaithful

\* Canonical!DecodesWithinBudget: a YAML manifest decodes to its expansion or is refused.
DecodesWithinBudget == part = "canonical" => N!DecodesWithinBudget

\* History!ChartFaithful: a chart fits, increases, ends with the newest reading,
\* and its points stand for the readings near them.
ChartFaithful == part = "history" => H!ChartFaithful
=============================================================================
