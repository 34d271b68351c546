---------------------------- MODULE EventStream ----------------------------
(***************************************************************************)
(* The event stream: the hub that turns scheduler events into server-sent  *)
(* events, the handlers that write them, and the browser that keeps a view *)
(* of the dashboard from them and from its own fetches.                    *)
(*                                                                         *)
(* Of the dashboard only versions matter: `layout' of what GET /dashboard  *)
(* answers, `card' of what GET /cards answers.  A handler writes a message *)
(* and the browser receives it in one step; what a lost connection loses   *)
(* is what was not yet written.                                            *)
(***************************************************************************)
EXTENDS Naturals, Integers, Sequences, FiniteSets

CONSTANTS
    Browsers,
    SessionOf,   \* the session of each browser, or NoSession
    NoSession,   \* authentication is off: streams carry no session
    ReplaySize, ChanSize, FeedSize, MaxClients, PerSession,
    MaxCard, MaxLayout, MaxBoots, MaxDrops,  \* bounds on what happens
    MaxStreams,                              \* bound on handlers alive at once
    MaxFetches                               \* bound on a browser's fetches in flight

VARIABLES
    layout, card,   \* what the server would answer now
    announce,       \* a generation that is live but not announced, or 0
    feed, feedOpen, \* the hub's subscription to the scheduler
    boot,           \* stands for the hub's nonce, fresh in every process
    next, ring,     \* the last event id and the events kept for replay
    sessions,       \* streams counted against each session
    streams,        \* the handlers in GET /stream; reg: in h.clients
    conn,           \* the handler a browser is connected to, Off or Dead
    lastId,         \* the browser's Last-Event-ID
    fetches,        \* the browser's requests in flight
    view,           \* what the browser shows
    seen,           \* history: the newest it has shown
    failed,         \* history: one of its fetches failed
    drops

hub == <<feed, feedOpen, boot, next, ring, sessions>>
page == <<conn, lastId, fetches, view, seen, failed>>
vars == <<layout, card, announce, hub, streams, page, drops>>

Off == 0
Dead == -1
NoId == <<0, 0>>
Idle == [busy |-> FALSE]
Unread == -1
Request == [busy |-> TRUE, layout |-> Unread, card |-> Unread]
NoStream == [on |-> FALSE]
Slots == 1..MaxStreams
Session == {SessionOf[b] : b \in Browsers} \ {NoSession}
Registered == {i \in Slots : streams[i].on /\ streams[i].reg}

Init ==
    /\ layout = 0 /\ card = 0 /\ announce = 0
    /\ feed = <<>> /\ feedOpen = TRUE
    /\ boot = 1 /\ next = 0 /\ ring = <<>>
    /\ sessions = [s \in Session |-> 0]
    /\ streams = [i \in Slots |-> NoStream]
    /\ conn = [b \in Browsers |-> Off]
    /\ lastId = [b \in Browsers |-> NoId]
    /\ fetches = [b \in Browsers |-> [f \in 1..MaxFetches |-> IF f = 1 THEN Request ELSE Idle]]
    /\ view = [b \in Browsers |-> [layout |-> Unread, card |-> Unread]]
    /\ seen = view
    /\ failed = [b \in Browsers |-> FALSE]
    /\ drops = 0

-----------------------------------------------------------------------------
(* The server *)

\* The scheduler commits a card and offers the event to the hub's subscription; a
\* subscriber whose buffer is full is closed and never hears again.
Commit ==
    /\ card < MaxCard
    /\ card' = card + 1
    /\ IF feedOpen /\ Len(feed) < FeedSize
       THEN feed' = Append(feed, card') /\ feedOpen' = feedOpen
       ELSE feed' = feed /\ feedOpen' = FALSE
    /\ UNCHANGED <<layout, announce, boot, next, ring, sessions, streams, page, drops>>

\* The mutant releases no slot.
KeepSlot(gone) == sessions

\* removeClient for every stream in gone: the registration and the session's slot go
\* together; the handler drains what is buffered and finds its channel closed.
ReleasedBy(gone) ==
    [s \in Session |->
        sessions[s] - Cardinality({i \in gone \cap Registered : SessionOf[streams[i].b] = s})]

Trimmed(events) ==
    IF Len(events) > ReplaySize THEN SubSeq(events, Len(events) - ReplaySize + 1, Len(events))
                                ELSE events

\* The event joins the ring and every registered channel with room; a stream without
\* room is removed.
Broadcast(event, data) ==
    LET e == [id |-> <<boot, next + 1>>, event |-> event, data |-> data]
        gone == {i \in Registered : Len(streams[i].ch) >= ChanSize}
    IN  /\ next' = next + 1
        /\ ring' = Trimmed(Append(ring, e))
        /\ sessions' = ReleasedBy(gone)
        /\ streams' = [i \in Slots |->
              IF i \notin Registered THEN streams[i]
              ELSE IF i \in gone THEN [streams[i] EXCEPT !.reg = FALSE]
              ELSE [streams[i] EXCEPT !.ch = Append(@, e)]]

\* The hub's goroutine publishes the next scheduler event.
Pump ==
    /\ feed # <<>>
    /\ feed' = Tail(feed)
    /\ Broadcast("card", Head(feed))
    /\ UNCHANGED <<layout, card, announce, feedOpen, boot, page, drops>>

\* A reload makes a new layout readable, and only then announces it.
Publish ==
    /\ announce = 0 /\ layout < MaxLayout
    /\ layout' = layout + 1 /\ announce' = layout + 1
    /\ UNCHANGED <<card, hub, streams, page, drops>>

Announce ==
    /\ announce # 0
    /\ announce' = 0
    /\ Broadcast("config", announce)
    /\ UNCHANGED <<layout, card, feed, feedOpen, boot, page, drops>>

\* Where the ring holds the id a browser presents, and what follows it there.
\* The mutant ignores the nonce of the process.
PositionByCount(last) == {i \in DOMAIN ring : ring[i].id[2] = last[2]}

Position(last) == {i \in DOMAIN ring : ring[i].id = last}

\* The mutant starts the replay one event too late.
ReplayPast(last) ==
    IF Position(last) = {} THEN <<>>
    ELSE SubSeq(ring, (CHOOSE i \in Position(last) : TRUE) + 2, Len(ring))

ReplayFrom(last) ==
    IF Position(last) = {} THEN <<>>
    ELSE SubSeq(ring, (CHOOSE i \in Position(last) : TRUE) + 1, Len(ring))

\* The mutant lets a new browser start without a reset.
NeedsResetIfUnknown(last) == last # NoId /\ Position(last) = {}

NeedsReset(last) == last = NoId \/ Position(last) = {}

\* subscribe: refused at a limit, else registered; the replay is cut under the same lock.
\* A refusal is an HTTP error, which ends an EventSource for good.
Connect(b) ==
    LET s == SessionOf[b]
        full == Cardinality(Registered) >= MaxClients
                \/ (s # NoSession /\ sessions[s] >= PerSession)
    IN  /\ conn[b] = Off
        /\ \/ /\ full
              /\ conn' = [conn EXCEPT ![b] = Dead]
              /\ UNCHANGED <<sessions, streams>>
           \/ /\ ~full
              /\ \E i \in Slots :
                    /\ ~streams[i].on /\ \A j \in 1..(i - 1) : streams[j].on
                    /\ streams' = [streams EXCEPT ![i] =
                          [on |-> TRUE, b |-> b, reg |-> TRUE,
                           reset |-> NeedsReset(lastId[b]),
                           replay |-> ReplayFrom(lastId[b]), ch |-> <<>>]]
                    /\ conn' = [conn EXCEPT ![b] = i]
              /\ sessions' = IF s = NoSession THEN sessions ELSE [sessions EXCEPT ![s] = @ + 1]
        /\ UNCHANGED <<layout, card, announce, feed, feedOpen, boot, next, ring,
                       lastId, fetches, view, seen, failed, drops>>

\* The handler returns: its request is gone, or its channel was closed and is drained.
Exit(i) ==
    /\ streams[i].on
    /\ \/ conn[streams[i].b] # i
       \/ ~streams[i].reg /\ ~streams[i].reset /\ streams[i].replay = <<>> /\ streams[i].ch = <<>>
    /\ sessions' = ReleasedBy({i})
    /\ streams' = [streams EXCEPT ![i] = NoStream]
    /\ conn' = [b \in Browsers |-> IF conn[b] = i THEN Off ELSE conn[b]]
    /\ UNCHANGED <<layout, card, announce, feed, feedOpen, boot, next, ring,
                   lastId, fetches, view, seen, failed, drops>>

\* The process ends and another starts: a new hub, a new nonce, a new subscription.
Restart ==
    /\ boot < MaxBoots
    /\ boot' = boot + 1
    /\ next' = 0 /\ ring' = <<>> /\ feed' = <<>> /\ feedOpen' = TRUE /\ announce' = 0
    /\ sessions' = [s \in Session |-> 0]
    /\ streams' = [i \in Slots |-> NoStream]
    /\ conn' = [b \in Browsers |-> IF conn[b] = Dead THEN Dead ELSE Off]
    /\ UNCHANGED <<layout, card, lastId, fetches, view, seen, failed, drops>>

-----------------------------------------------------------------------------
(* The browser *)

Newest(a, b) == IF a > b THEN a ELSE b
Show(b, l, c) ==
    /\ view' = [view EXCEPT ![b] = [layout |-> l, card |-> c]]
    /\ seen' = [seen EXCEPT ![b] = [layout |-> Newest(@.layout, l), card |-> Newest(@.card, c)]]

\* reloadDashboard begins: two requests go out.
StartFetch(b) ==
    \E f \in 1..MaxFetches :
        /\ ~fetches[b][f].busy /\ \A g \in 1..(f - 1) : fetches[b][g].busy
        /\ fetches' = [fetches EXCEPT ![b][f] = Request]

\* The handler writes its next message and the browser acts on it.
Receive(i) ==
    LET s == streams[i]
        b == s.b
    IN  /\ s.on /\ conn[b] = i
        /\ \/ /\ s.reset
              /\ streams' = [streams EXCEPT ![i].reset = FALSE]
              /\ StartFetch(b)
              /\ UNCHANGED <<lastId, view, seen>>
           \/ /\ ~s.reset /\ s.replay \o s.ch # <<>>
              /\ streams' = IF s.replay # <<>> THEN [streams EXCEPT ![i].replay = Tail(@)]
                                               ELSE [streams EXCEPT ![i].ch = Tail(@)]
              /\ LET e == Head(s.replay \o s.ch)
                 IN  /\ lastId' = [lastId EXCEPT ![b] = e.id]
                     /\ \/ e.event = "card" /\ Show(b, view[b].layout, e.data)
                           /\ fetches' = fetches
                        \/ e.event = "config" /\ StartFetch(b) /\ UNCHANGED <<view, seen>>
        /\ UNCHANGED <<layout, card, announce, hub, conn, failed, drops>>

\* The server answers GET /dashboard and GET /cards, each at its own time.
AnswerLayout(b, f) ==
    /\ fetches[b][f].busy /\ fetches[b][f].layout = Unread
    /\ fetches' = [fetches EXCEPT ![b][f].layout = layout]
    /\ UNCHANGED <<layout, card, announce, hub, streams, conn, lastId, view, seen, failed, drops>>

AnswerCards(b, f) ==
    /\ fetches[b][f].busy /\ fetches[b][f].card = Unread
    /\ fetches' = [fetches EXCEPT ![b][f].card = card]
    /\ UNCHANGED <<layout, card, announce, hub, streams, conn, lastId, view, seen, failed, drops>>

\* Both answers are there: they replace the view, whatever it shows by now.
ApplyFetch(b, f) ==
    /\ fetches[b][f].busy /\ fetches[b][f].layout # Unread /\ fetches[b][f].card # Unread
    /\ Show(b, fetches[b][f].layout, fetches[b][f].card)
    /\ fetches' = [fetches EXCEPT ![b][f] = Idle]
    /\ UNCHANGED <<layout, card, announce, hub, streams, conn, lastId, failed, drops>>

\* Either request fails: the view stays and nothing retries.
FailFetch(b, f) ==
    /\ fetches[b][f].busy
    /\ fetches' = [fetches EXCEPT ![b][f] = Idle]
    /\ failed' = [failed EXCEPT ![b] = TRUE]
    /\ UNCHANGED <<layout, card, announce, hub, streams, conn, lastId, view, seen, drops>>

\* The connection is lost (the server's write timeout ends every stream after a minute);
\* the handler learns of it later.
Drop(b) ==
    /\ conn[b] \in Slots /\ drops < MaxDrops
    /\ conn' = [conn EXCEPT ![b] = Off]
    /\ drops' = drops + 1
    /\ UNCHANGED <<layout, card, announce, hub, streams, lastId, fetches, view, seen, failed>>

ServerNext == Commit \/ Pump \/ Publish \/ Announce \/ Restart \/ \E i \in Slots : Exit(i)
BrowserNext ==
    \/ \E i \in Slots : Receive(i)
    \/ \E b \in Browsers : Connect(b) \/ Drop(b)
    \/ \E b \in Browsers, f \in 1..MaxFetches :
          AnswerLayout(b, f) \/ AnswerCards(b, f) \/ ApplyFetch(b, f) \/ FailFetch(b, f)

Next == ServerNext \/ BrowserNext

Spec == Init /\ [][Next]_vars

\* Goroutines run, answers arrive, an EventSource reconnects; nothing has to fail or change.
Progress ==
    \/ Pump \/ Announce
    \/ \E i \in Slots : Exit(i) \/ Receive(i)
    \/ \E b \in Browsers : Connect(b)
    \/ \E b \in Browsers, f \in 1..MaxFetches :
          AnswerLayout(b, f) \/ AnswerCards(b, f) \/ ApplyFetch(b, f)

FairSpec == Spec /\ WF_vars(Progress)

-----------------------------------------------------------------------------
(* What the stream promises *)

Truth == [layout |-> layout, card |-> card]

\* Nothing is on its way to browser b.
Settled(b) ==
    /\ conn[b] \in Slots
    /\ LET s == streams[conn[b]] IN s.reg /\ ~s.reset /\ s.replay = <<>> /\ s.ch = <<>>
    /\ feed = <<>> /\ announce = 0
    /\ \A f \in 1..MaxFetches : ~fetches[b][f].busy

\* Every session is charged exactly for its registered streams, whichever way a stream
\* ended: cut off by broadcast, closed by its handler, or both (removeClient).
SlotsAccounted ==
    \A s \in Session : sessions[s] = Cardinality({i \in Registered : SessionOf[streams[i].b] = s})

\* A browser to which nothing is on its way has been shown the server's present state,
\* across reconnects, replays, cut-offs and restarts, unless one of its own fetches
\* failed or the scheduler has cut the hub off.
NothingMissed ==
    \A b \in Browsers : Settled(b) /\ feedOpen /\ ~failed[b] => seen[b] = Truth

\* Once changes stop, every browser that still has a stream is eventually shown the
\* present state and stays so, with the exceptions NothingMissed names.
CatchesUp ==
    \A b \in Browsers :
        <>[](conn[b] = Dead \/ failed[b] \/ ~feedOpen \/ seen[b] = Truth)
=============================================================================
