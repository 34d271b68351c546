------------------------------- MODULE MCLive -------------------------------
(***************************************************************************)
(* Small instances of the components whose liveness is checked: the        *)
(* invocation of runtimes, the outbox, the event stream and the reload of  *)
(* the configuration.  They do not interact here: every behaviour is one   *)
(* of the component that `part` names, the others stand still.             *)
(***************************************************************************)
EXTENDS Invocation, Reload

\* The cards of the instance are all of one plugin.
OnePlugin == [k \in Cards |-> "p"]

\* The third version turns authentication off while it still has secrets; the material of
\* the connection changes and changes back.
Modes == [v \in Versions |-> IF v = 3 THEN "none" ELSE "password"]
Alternating == [v \in Versions |-> v % 2]

VARIABLES
    part,
    \* Outbox
    outboxRows, suspended, channels, dispatcherPc, item, outcome, delivered, doubtful, starts,
    \* EventStream
    layout, card, announce, feed, feedOpen, boot, nextId, ring, sessions, streams, conn,
    lastId, fetches, view, seen, failed, drops

\* Alerts of one rule, one after the other, each tried twice.
O == INSTANCE Outbox WITH
         Channels <- {"c1"}, Keys <- {"k1"}, ChannelOf <- [k \in {"k1"} |-> "c1"],
         Cooldown <- {}, PerHour <- 2, MaxAttempts <- 2, StoreFaults <- FALSE,
         MaxRows <- 2, MaxStarts <- 2, rows <- outboxRows, pc <- dispatcherPc

\* One browser with one session.
E == INSTANCE EventStream WITH
         Browsers <- {"b1"}, SessionOf <- [b \in {"b1"} |-> "s1"], NoSession <- "none",
         ReplaySize <- 2, ChanSize <- 1, FeedSize <- 1, MaxClients <- 2, PerSession <- 2,
         MaxCard <- 1, MaxLayout <- 1, MaxBoots <- 2, MaxDrops <- 0, MaxStreams <- 2,
         MaxFetches <- 2, next <- nextId

outbox == <<outboxRows, suspended, channels, dispatcherPc, item, outcome, delivered, doubtful,
            starts>>
stream == <<layout, card, announce, feed, feedOpen, boot, nextId, ring, sessions, streams, conn,
            lastId, fetches, view, seen, failed, drops>>

LiveInit ==
    /\ part \in {"invocation", "outbox", "stream", "reload"}
    /\ Init /\ O!Init /\ E!Init /\ ReloadInit
    /\ part # "outbox" => channels = {}

LiveNext ==
    /\ UNCHANGED part
    /\ \/ part = "invocation" /\ Next /\ UNCHANGED <<outbox, stream, reloadVars>>
       \/ part = "outbox" /\ O!Next /\ UNCHANGED <<vars, stream, reloadVars>>
       \/ part = "stream" /\ E!Next /\ UNCHANGED <<vars, outbox, reloadVars>>
       \/ part = "reload" /\ ReloadNext /\ UNCHANGED <<vars, outbox, stream>>

\* The fairness of each component, for the behaviours that are its own.
LiveSpec ==
    /\ LiveInit /\ [][LiveNext]_<<part, vars, outbox, stream, reloadVars>>
    /\ \A c \in Calls : WF_vars(part = "invocation" /\ Unwind(c))
    /\ WF_vars(part = "invocation" /\ CloseStep)
    /\ WF_outbox(part = "outbox" /\ O!Dispatch)
    /\ \A i \in 1 .. 2 : WF_outbox(part = "outbox" /\ i \in DOMAIN outboxRows /\ O!BackoffPasses(i))
    /\ WF_outbox(part = "outbox" /\ \E chs \in SUBSET {"c1"} : O!Start(chs))
    /\ WF_stream(part = "stream" /\ E!Progress)
    /\ WF_reloadVars(part = "reload" /\ Watcher)

-----------------------------------------------------------------------------
(* The properties of the components that are instances, which say where the *)
(* code is.                                                                 *)

\* Outbox!Drains: every accepted notification is delivered or given up.
Drains == part = "outbox" => O!Drains

\* EventStream!CatchesUp: once changes stop, a browser is shown the present state.
CatchesUp == part = "stream" => E!CatchesUp
=============================================================================
