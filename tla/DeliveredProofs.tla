--------------------------- MODULE DeliveredProofs ---------------------------
(***************************************************************************)
(* What reaches a browser of the event stream, for any number of browsers, *)
(* streams, events, restarts and sizes of its buffers: one to which        *)
(* nothing is on its way has been shown the present.                       *)
(***************************************************************************)
EXTENDS EventStreamProofs

USE DEF hub, page

-----------------------------------------------------------------------------
(* What is on its way *)

\* The present card, or layout, has been shown to b, will be by a fetch in flight, or is
\* announced by one of the given events or by one that is not published yet.
CardComes(b, events) ==
    \/ seen[b].card = card
    \/ \E f \in 1..MaxFetches : fetches[b][f].busy /\ fetches[b][f].card \in {Unread, card}
    \/ \E e \in events : e.event = "config" \/ e.data = card
    \/ \E k \in DOMAIN feed : feed[k] = card

LayoutComes(b, events) ==
    \/ seen[b].layout = layout
    \/ \E f \in 1..MaxFetches : fetches[b][f].busy /\ fetches[b][f].layout \in {Unread, layout}
    \/ \E e \in events : e.event = "config"
    \/ announce # 0

Comes(b, events) == CardComes(b, events) /\ LayoutComes(b, events)

\* A browser whose last event is in the ring needs no more than what follows it there.
Resumes(b) ==
    (\E e \in Kept : e.id = lastId[b]) => Comes(b, Later(lastId[b][2]))

\* A browser with a registered stream needs no more than what the stream holds; one that
\* was cut off, what it holds and what follows the last of it in the ring.
Streams(b) ==
    LET i == conn[b] IN
    i \in Slots /\ ~streams[i].reset =>
        /\ streams[i].reg => Comes(b, Pending(i))
        /\ \A z \in Pending(i) :
              ~streams[i].reg /\ z \in Kept /\ (\A e \in Pending(i) : Number(e) <= Number(z)) =>
                  Comes(b, Pending(i) \cup Later(Number(z)))

OnItsWay == feedOpen => \A b \in Browsers : ~failed[b] => Resumes(b) /\ Streams(b)

Ahead == Sound /\ OnItsWay

-----------------------------------------------------------------------------
(* What is on its way stays on its way *)

LEMMA ComesMore ==
    ASSUME NEW b, NEW E, NEW F, Comes(b, E), E \subseteq F
    PROVE  Comes(b, F)
BY DEF Comes, CardComes, LayoutComes

LEMMA ComesMoreNext ==
    ASSUME NEW b, NEW E, NEW F, Comes(b, E)', E \subseteq F
    PROVE  Comes(b, F)'
BY DEF Comes, CardComes, LayoutComes

\* How Resumes and Streams are shown of the next state.
LEMMA ResumesNext ==
    ASSUME NEW b,
           (\E e \in Kept' : e.id = lastId'[b]) => \E E : E \subseteq Later(lastId[b][2])' /\ Comes(b, E)'
    PROVE  Resumes(b)'
<1> SUFFICES ASSUME \E e \in Kept' : e.id = lastId'[b]
             PROVE  Comes(b, Later(lastId[b][2]))'
    BY DEF Resumes
<1>1. PICK E : E \subseteq Later(lastId[b][2])' /\ Comes(b, E)'
    OBVIOUS
<1> QED BY <1>1 DEF Comes, CardComes, LayoutComes

LEMMA StreamsNext ==
    ASSUME NEW b, NEW i, i = conn'[b],
           i \in Slots /\ ~streams'[i].reset =>
             /\ streams'[i].reg => \E E : E \subseteq Pending(i)' /\ Comes(b, E)'
             /\ \A z \in Pending(i)' :
                   ~streams'[i].reg /\ z \in Kept' /\ (\A e \in Pending(i)' : Number(e) <= Number(z)) =>
                     \E E : E \subseteq Pending(i)' \cup Later(Number(z))' /\ Comes(b, E)'
    PROVE  Streams(b)'
<1>1. \A E, F : Comes(b, E)' /\ E \subseteq F => Comes(b, F)'
    BY ComesMoreNext
<1>2. PICK P : P = Pending(i)'
    OBVIOUS
<1>3. ASSUME i \in Slots, ~streams'[i].reset, streams'[i].reg
      PROVE  Comes(b, P)'
    <2>1. PICK E : E \subseteq P /\ Comes(b, E)'
        BY <1>2, <1>3
    <2> QED BY <1>1, <2>1
<1>4. ASSUME i \in Slots, ~streams'[i].reset, NEW z \in P, ~streams'[i].reg, z \in Kept',
             \A e \in P : Number(e) <= Number(z), NEW L, L = Later(Number(z))'
      PROVE  Comes(b, P \cup L)'
    <2>1. PICK E : E \subseteq P \cup L /\ Comes(b, E)'
        BY <1>2, <1>4
    <2> QED BY <1>1, <2>1
<1>5. ASSUME i \in Slots, ~streams'[i].reset, streams'[i].reg
      PROVE  Comes(b, Pending(conn[b]))'
    <2>1. Comes(b, P)'
        BY <1>3, <1>5
    <2>2. P = Pending(conn[b])'
        BY <1>2 DEF Pending
    <2> QED BY <2>1, <2>2 DEF Comes, CardComes, LayoutComes
<1>6. ASSUME i \in Slots, ~streams'[i].reset, NEW z \in Pending(conn[b])', ~streams'[i].reg, z \in Kept',
             \A e \in Pending(conn[b])' : Number(e) <= Number(z)
      PROVE  Comes(b, Pending(conn[b]) \cup Later(Number(z)))'
    <2>1. PICK L : L = Later(Number(z))'
        OBVIOUS
    <2>2. P = Pending(conn[b])'
        BY Zenon, <1>2 DEF Pending
    <2>3. Comes(b, P \cup L)'
        BY Zenon, <1>4, <1>6, <2>1, <2>2
    <2> QED BY Zenon, <2>1, <2>2, <2>3 DEF Comes, CardComes, LayoutComes
<1> QED BY Zenon, <1>5, <1>6 DEF Streams

\* Steps of the server's data and of a browser's requests, which move no event.
LEMMA QuietSteps ==
    ASSUME OnItsWay, UNCHANGED <<ring, streams, conn, lastId>>, feedOpen' => feedOpen,
           \A b \in Browsers : ~failed'[b] => ~failed[b],
           \A b \in Browsers : feedOpen' /\ ~failed'[b] => \A E : Comes(b, E) => Comes(b, E)'
    PROVE  OnItsWay'
<1> SUFFICES ASSUME NEW b \in Browsers, feedOpen', ~failed'[b]
             PROVE  Resumes(b)' /\ Streams(b)'
    BY DEF OnItsWay
<1>1. Resumes(b) /\ Streams(b) /\ \A E : Comes(b, E) => Comes(b, E)'
    BY DEF OnItsWay
<1>2. Kept' = Kept /\ (\A n : Later(n)' = Later(n)) /\ (\A i : Pending(i)' = Pending(i))
    BY DEF Kept, Later, Pending
<1>3. Resumes(b)'
    <2> SUFFICES ASSUME \E e \in Kept : e.id = lastId[b]
                 PROVE  \E E : E \subseteq Later(lastId[b][2])' /\ Comes(b, E)'
        BY <1>2, ResumesNext
    <2>1. Comes(b, Later(lastId[b][2]))
        BY <1>1 DEF Resumes
    <2>2. PICK E : E = Later(lastId[b][2])
        OBVIOUS
    <2>3. E = Later(lastId[b][2])'
        BY <2>2 DEF Later, Kept
    <2>4. Comes(b, E)'
        BY <1>1, <2>1, <2>2
    <2> QED BY <2>3, <2>4
<1>4. Streams(b)'
    <2>1. PICK i : i = conn[b]
        OBVIOUS
    <2> SUFFICES ASSUME i \in Slots, ~streams[i].reset
                 PROVE  /\ streams[i].reg => \E E : E \subseteq Pending(i) /\ Comes(b, E)'
                        /\ \A z \in Pending(i) :
                              ~streams[i].reg /\ z \in Kept /\ (\A e \in Pending(i) : Number(e) <= Number(z)) =>
                                \E E : E \subseteq Pending(i) \cup Later(Number(z)) /\ Comes(b, E)'
        BY Zenon, <1>2, <2>1, StreamsNext
    <2>2. ASSUME streams[i].reg
          PROVE  \E E : E \subseteq Pending(i) /\ Comes(b, E)'
        BY Zenon, <1>1, <2>1, <2>2 DEF Streams
    <2>3. ASSUME NEW z \in Pending(i), ~streams[i].reg, z \in Kept,
                 \A e \in Pending(i) : Number(e) <= Number(z)
          PROVE  \E E : E \subseteq Pending(i) \cup Later(Number(z)) /\ Comes(b, E)'
        BY Zenon, <1>1, <2>1, <2>3 DEF Streams
    <2> QED BY <2>2, <2>3
<1> QED BY <1>3, <1>4

LEMMA CommitOnItsWay ==
    ASSUME Sound, OnItsWay, Commit
    PROVE  OnItsWay'
<1>1. UNCHANGED <<ring, streams, conn, lastId, layout, announce, fetches, seen, failed>>
    BY DEF Commit
<1>2. feedOpen' => feedOpen /\ feed' = Append(feed, card')
    BY Zenon DEF Commit
<1>3. ASSUME NEW b \in Browsers, NEW E, feedOpen', Comes(b, E)
      PROVE  Comes(b, E)'
    <2>1. feed \in Seq(Nat) /\ card' \in Nat
        BY DEF Sound, TypeOfServer, Commit
    <2>2. Len(feed) + 1 \in DOMAIN feed' /\ feed'[Len(feed) + 1] = card'
        BY <1>2, <1>3, <2>1
    <2>3. CardComes(b, E)'
        BY <2>2 DEF CardComes
    <2>4. LayoutComes(b, E)'
        BY Zenon, <1>1, <1>3 DEF Comes, LayoutComes
    <2> QED BY <2>3, <2>4 DEF Comes
<1> QED BY <1>1, <1>2, <1>3, QuietSteps

LEMMA PublishOnItsWay ==
    ASSUME Sound, OnItsWay, Publish
    PROVE  OnItsWay'
<1>1. UNCHANGED <<ring, streams, conn, lastId, card, feed, feedOpen, fetches, seen, failed>>
    BY DEF Publish
<1>2. announce' # 0
    BY DEF Publish, Sound, TypeOfServer
<1>3. ASSUME NEW b \in Browsers, NEW E, Comes(b, E)
      PROVE  Comes(b, E)'
    BY <1>1, <1>2, <1>3 DEF Comes, CardComes, LayoutComes
<1> QED BY <1>1, <1>3, QuietSteps

LEMMA FetchOnItsWay ==
    ASSUME Sound, OnItsWay, NEW b \in Browsers, NEW f \in 1..MaxFetches,
           AnswerLayout(b, f) \/ AnswerCards(b, f) \/ ApplyFetch(b, f) \/ FailFetch(b, f)
    PROVE  OnItsWay'
<1> USE DEF Sound
<1> DEFINE g == fetches[b][f]
<1>1. UNCHANGED <<layout, card, announce, feed, feedOpen, ring, streams, conn, lastId>>
    BY DEF AnswerLayout, AnswerCards, ApplyFetch, FailFetch
<1>2. \A c \in Browsers : ~failed'[c] => ~failed[c]
    BY Zenon DEF AnswerLayout, AnswerCards, ApplyFetch, FailFetch, TypeOfPage
<1>3. g.busy /\ g \in Fetch /\ g.layout <= layout /\ g.card <= card /\ layout \in Nat /\ card \in Nat
    BY Zenon, Answers DEF AnswerLayout, AnswerCards, ApplyFetch, FailFetch, Bounded, TypeOfServer
<1>4. \A c \in Browsers : c # b => fetches'[c] = fetches[c] /\ seen'[c] = seen[c]
    BY DEF AnswerLayout, AnswerCards, ApplyFetch, FailFetch, Show, TypeOfPage
<1>5. \A h \in 1..MaxFetches : h # f => fetches'[b][h] = fetches[b][h]
    <2>1. fetches[b] \in [1..MaxFetches -> Fetch \cup {Idle}]
        BY DEF TypeOfPage
    <2> QED BY Zenon, <2>1 DEF AnswerLayout, AnswerCards, ApplyFetch, FailFetch, TypeOfPage
<1>6. ASSUME NEW c \in Browsers, c # b, NEW E, Comes(c, E)
      PROVE  Comes(c, E)'
    BY Zenon, <1>1, <1>4, <1>6 DEF Comes, CardComes, LayoutComes
<1>7. ASSUME AnswerLayout(b, f) \/ AnswerCards(b, f), NEW E, Comes(b, E)
      PROVE  Comes(b, E)'
    <2>1. seen' = seen
        BY <1>7 DEF AnswerLayout, AnswerCards
    <2>2. /\ fetches'[b][f].busy
          /\ g.card \in {Unread, card} => fetches'[b][f].card \in {Unread, card}
          /\ g.layout \in {Unread, layout} => fetches'[b][f].layout \in {Unread, layout}
        <3>1. fetches[b] \in [1..MaxFetches -> Fetch \cup {Idle}]
            BY DEF TypeOfPage
        <3>2. fetches'[b][f] \in {[g EXCEPT !.layout = layout], [g EXCEPT !.card = card]}
            <4>1. PICK r \in {[g EXCEPT !.layout = layout], [g EXCEPT !.card = card]} :
                      fetches' = [fetches EXCEPT ![b] = [fetches[b] EXCEPT ![f] = r]]
                BY <1>7 DEF AnswerLayout, AnswerCards
            <4>2. fetches'[b] = [fetches[b] EXCEPT ![f] = r]
                BY <4>1 DEF TypeOfPage
            <4>3. fetches'[b][f] = r
                BY Zenon, <3>1, <4>2
            <4> QED BY <4>1, <4>3
        <3> HIDE DEF g
        <3> QED BY <1>3, <3>2 DEF Fetch
    <2>3. CardComes(b, E)'
        <3>1. ASSUME NEW h \in 1..MaxFetches, fetches[b][h].busy, fetches[b][h].card \in {Unread, card}
              PROVE  fetches'[b][h].busy /\ fetches'[b][h].card \in {Unread, card}
            BY Zenon, <1>5, <2>2, <3>1
        <3> QED BY Zenon, <1>1, <1>7, <2>1, <3>1 DEF Comes, CardComes
    <2>4. LayoutComes(b, E)'
        <3>1. ASSUME NEW h \in 1..MaxFetches, fetches[b][h].busy, fetches[b][h].layout \in {Unread, layout}
              PROVE  fetches'[b][h].busy /\ fetches'[b][h].layout \in {Unread, layout}
            BY Zenon, <1>5, <2>2, <3>1
        <3> QED BY Zenon, <1>1, <1>7, <2>1, <3>1 DEF Comes, LayoutComes
    <2> QED BY <2>3, <2>4 DEF Comes
<1>8. ASSUME ApplyFetch(b, f), NEW E, Comes(b, E)
      PROVE  Comes(b, E)'
    <2>1. /\ g.layout # Unread /\ g.card # Unread /\ Show(b, g.layout, g.card)
          /\ g.layout \in Version /\ g.card \in Version
        BY Zenon, <1>3, <1>8 DEF ApplyFetch, Fetch
    <2>2. /\ seen'[b].layout = Newest(seen[b].layout, g.layout)
          /\ seen'[b].card = Newest(seen[b].card, g.card)
        BY Zenon, <2>1, Shows
    <2>3. seen[b].layout \in Int /\ seen[b].card \in Int /\ seen[b].layout <= layout /\ seen[b].card <= card
        BY DEF TypeOfPage, View, Version, Unread, Bounded
    <2>4. g.layout \in Int /\ g.card \in Int
        BY <1>3, FetchVersions
    <2>5. /\ seen[b].card = card \/ g.card = card => seen'[b].card = card
          /\ seen[b].layout = layout \/ g.layout = layout => seen'[b].layout = layout
        <3> HIDE DEF g
        <3> QED BY <1>3, <2>2, <2>3, <2>4 DEF Newest
    <2>6. CardComes(b, E)'
        <3>1. ASSUME NEW h \in 1..MaxFetches, fetches[b][h].busy, fetches[b][h].card \in {Unread, card}
              PROVE  \/ seen'[b].card = card
                     \/ fetches'[b][h].busy /\ fetches'[b][h].card \in {Unread, card}
            BY <1>5, <2>1, <2>5, <3>1
        <3> QED BY Zenon, <1>1, <1>8, <2>5, <3>1 DEF Comes, CardComes
    <2>7. LayoutComes(b, E)'
        <3>1. ASSUME NEW h \in 1..MaxFetches, fetches[b][h].busy, fetches[b][h].layout \in {Unread, layout}
              PROVE  \/ seen'[b].layout = layout
                     \/ fetches'[b][h].busy /\ fetches'[b][h].layout \in {Unread, layout}
            BY Zenon, <1>5, <2>1, <2>5, <3>1
        <3> QED BY <1>1, <1>8, <2>5, <3>1 DEF Comes, LayoutComes
    <2> QED BY <2>6, <2>7 DEF Comes
<1>9. FailFetch(b, f) => failed'[b]
    BY DEF FailFetch, TypeOfPage
<1>10. ASSUME NEW c \in Browsers, ~failed'[c], NEW E, Comes(c, E)
       PROVE  Comes(c, E)'
    BY <1>6, <1>7, <1>8, <1>9, <1>10
<1> QED BY <1>1, <1>2, <1>10, QuietSteps

\* A browser that is not the one whose connection a step is about.
LEMMA OthersOnTheirWay ==
    ASSUME NEW b \in Browsers, Resumes(b), Streams(b),
           UNCHANGED <<card, layout, announce, feed, ring>>,
           lastId'[b] = lastId[b], fetches'[b] = fetches[b], seen'[b] = seen[b],
           conn'[b] \in Slots => conn'[b] = conn[b] /\ streams'[conn[b]] = streams[conn[b]]
    PROVE  Resumes(b)' /\ Streams(b)'
<1>1. \A E : Comes(b, E) => Comes(b, E)'
    BY DEF Comes, CardComes, LayoutComes
<1>2. Kept' = Kept /\ (\A n : Later(n)' = Later(n))
    BY DEF Kept, Later
<1>3. Resumes(b)'
    <2> SUFFICES ASSUME \E e \in Kept : e.id = lastId[b]
                 PROVE  \E E : E \subseteq Later(lastId[b][2])' /\ Comes(b, E)'
        BY Zenon, <1>2, ResumesNext
    <2>2. PICK E : E = Later(lastId[b][2])
        BY Zenon
    <2>3. E = Later(lastId[b][2])'
        BY Zenon, <2>2 DEF Later, Kept
    <2> QED BY <1>1, <2>2, <2>3 DEF Resumes
<1>4. Streams(b)'
    <2>1. PICK i : i = conn'[b]
        OBVIOUS
    <2> SUFFICES ASSUME i \in Slots, ~streams'[i].reset
                 PROVE  /\ streams'[i].reg => \E E : E \subseteq Pending(i)' /\ Comes(b, E)'
                        /\ \A z \in Pending(i)' :
                              ~streams'[i].reg /\ z \in Kept' /\ (\A e \in Pending(i)' : Number(e) <= Number(z)) =>
                                \E E : E \subseteq Pending(i)' \cup Later(Number(z))' /\ Comes(b, E)'
        BY Zenon, <2>1, StreamsNext
    <2>2. i = conn[b] /\ streams'[i] = streams[i]
        BY Zenon, <2>1
    <2>3. Pending(i)' = Pending(i)
        BY <2>2 DEF Pending
    <2>4. ASSUME streams'[i].reg
          PROVE  \E E : E \subseteq Pending(i)' /\ Comes(b, E)'
        BY Zenon, <1>1, <2>2, <2>3, <2>4 DEF Streams
    <2>5. ASSUME NEW z \in Pending(i)', ~streams'[i].reg, z \in Kept',
                 \A e \in Pending(i)' : Number(e) <= Number(z)
          PROVE  \E E : E \subseteq Pending(i)' \cup Later(Number(z))' /\ Comes(b, E)'
        BY Zenon, <1>1, <1>2, <2>2, <2>3, <2>5 DEF Streams
    <2> QED BY Zenon, <2>4, <2>5
<1> QED BY <1>3, <1>4

LEMMA ConnectOnItsWay ==
    ASSUME Sound, OnItsWay, NEW b \in Browsers, Connect(b)
    PROVE  OnItsWay'
<1> USE DEF Sound
<1>1. UNCHANGED <<layout, card, announce, feed, feedOpen, boot, next, ring,
                  lastId, fetches, view, seen, failed, drops>>
    BY Zenon DEF Connect
<1> SUFFICES ASSUME NEW c \in Browsers, feedOpen, ~failed[c]
             PROVE  Resumes(c)' /\ Streams(c)'
    BY <1>1 DEF OnItsWay
<1>2. Resumes(c) /\ Streams(c)
    BY DEF OnItsWay
<1>3. CASE conn' = [conn EXCEPT ![b] = Dead] /\ streams' = streams
    <2>1. conn'[c] \in Slots => conn'[c] = conn[c] /\ streams'[conn[c]] = streams[conn[c]]
        BY Zenon, <1>3, SlotsApart DEF TypeOfPage
    <2> QED BY Zenon, <1>1, <1>2, <2>1, OthersOnTheirWay
<1>4. ASSUME NEW i \in Slots, ~streams[i].on,
             streams' = [streams EXCEPT ![i] =
                 [on |-> TRUE, b |-> b, reg |-> TRUE, reset |-> NeedsReset(lastId[b]),
                  replay |-> ReplayFrom(lastId[b]), ch |-> <<>>]],
             conn' = [conn EXCEPT ![b] = i]
      PROVE  Resumes(c)' /\ Streams(c)'
    <2>1. CASE c # b
        <3>1. conn'[c] = conn[c]
            BY <1>4, <2>1 DEF TypeOfPage
        <3>2. ASSUME conn[c] \in Slots
              PROVE  streams'[conn[c]] = streams[conn[c]]
            <4>1. conn[c] # i
                BY Zenon, <1>4, <3>2 DEF Connected
            <4> QED BY Zenon, <1>4, <3>2, <4>1 DEF TypeOfServer
        <3> QED BY <1>1, <1>2, <3>1, <3>2, OthersOnTheirWay
    <2>2. CASE c = b
        <3>1. \A E : Comes(b, E) => Comes(b, E)'
            BY Zenon, <1>1 DEF Comes, CardComes, LayoutComes
        <3>2. Resumes(b)'
            <4> SUFFICES ASSUME \E e \in Kept : e.id = lastId[b]
                         PROVE  \E E : E \subseteq Later(lastId[b][2])' /\ Comes(b, E)'
                BY Zenon, <1>1, ResumesNext DEF Kept
            <4>1. PICK E : E = Later(lastId[b][2])
                OBVIOUS
            <4>2. E = Later(lastId[b][2])'
                BY Zenon, <1>1, <4>1 DEF Later, Kept
            <4> QED BY <1>2, <2>2, <3>1, <4>1, <4>2 DEF Resumes
        <3>3. /\ streams'[i].reset = NeedsReset(lastId[b]) /\ streams'[i].reg
              /\ streams'[i].replay = ReplayFrom(lastId[b]) /\ streams'[i].ch = <<>>
            BY <1>4 DEF TypeOfServer
        <3>4. i = conn'[b]
            BY <1>4 DEF TypeOfPage
        <3>5. ASSUME ~streams'[i].reset
              PROVE  \E E : E \subseteq Pending(i)' /\ Comes(b, E)'
            <4>1. Position(lastId[b]) # {}
                BY Zenon, <3>3, <3>5 DEF NeedsReset
            <4>2. Elements(ReplayFrom(lastId[b])) = Later(lastId[b][2])
                BY Zenon, <4>1, Replays DEF TypeOfServer, Ordered
            <4>3. \E e \in Kept : e.id = lastId[b]
                BY <4>1 DEF Position, Kept, Elements
            <4>4. Comes(b, Later(lastId[b][2]))
                BY <1>2, <2>2, <4>3 DEF Resumes
            <4>5. PICK E : E = Later(lastId[b][2])
                OBVIOUS
            <4>6. Comes(b, E)'
                BY <3>1, <4>4, <4>5
            <4>7. E \subseteq Pending(i)'
                BY <3>3, <4>2, <4>5 DEF Pending
            <4> QED BY <4>6, <4>7
        <3>6. Streams(b)'
            BY <3>3, <3>4, <3>5, StreamsNext
        <3> QED BY <2>2, <3>2, <3>6
    <2> QED BY <2>1, <2>2
<1> QED BY Zenon, <1>3, <1>4 DEF Connect

LEMMA ExitOnItsWay ==
    ASSUME Sound, OnItsWay, NEW i \in Slots, Exit(i)
    PROVE  OnItsWay'
<1> USE DEF Sound
<1>1. /\ streams' = [streams EXCEPT ![i] = NoStream]
      /\ conn' = [b \in Browsers |-> IF conn[b] = i THEN Off ELSE conn[b]]
      /\ UNCHANGED <<layout, card, announce, feed, feedOpen, boot, next, ring,
                     lastId, fetches, view, seen, failed, drops>>
    BY DEF Exit
<1> SUFFICES ASSUME NEW c \in Browsers, feedOpen, ~failed[c]
             PROVE  Resumes(c)' /\ Streams(c)'
    BY Zenon, <1>1 DEF OnItsWay
<1>2. Resumes(c) /\ Streams(c)
    BY DEF OnItsWay
<1>3. ASSUME conn'[c] \in Slots
      PROVE  conn'[c] = conn[c] /\ streams'[conn[c]] = streams[conn[c]]
    <2>1. conn'[c] = conn[c] /\ conn[c] # i
        BY Zenon, <1>1, <1>3, SlotsApart
    <2> QED BY <1>1, <1>3, <2>1 DEF TypeOfServer
<1> QED BY <1>1, <1>2, <1>3, OthersOnTheirWay

LEMMA DropOnItsWay ==
    ASSUME Sound, OnItsWay, NEW b \in Browsers, Drop(b)
    PROVE  OnItsWay'
<1> USE DEF Sound
<1>1. /\ conn' = [conn EXCEPT ![b] = Off]
      /\ UNCHANGED <<layout, card, announce, feed, feedOpen, ring, streams, lastId, fetches, view, seen, failed>>
    BY DEF Drop
<1> SUFFICES ASSUME NEW c \in Browsers, feedOpen, ~failed[c]
             PROVE  Resumes(c)' /\ Streams(c)'
    BY <1>1 DEF OnItsWay
<1>2. Resumes(c) /\ Streams(c)
    BY DEF OnItsWay
<1>3. conn'[c] \in Slots => conn'[c] = conn[c] /\ streams'[conn[c]] = streams[conn[c]]
    BY <1>1, SlotsApart DEF TypeOfPage
<1> QED BY Zenon, <1>1, <1>2, <1>3, OthersOnTheirWay

LEMMA RestartOnItsWay ==
    ASSUME Restart
    PROVE  OnItsWay'
<1>1. /\ ring' = <<>>
      /\ conn' = [b \in Browsers |-> IF conn[b] = Dead THEN Dead ELSE Off]
    BY DEF Restart
<1> SUFFICES ASSUME NEW b \in Browsers
             PROVE  Resumes(b)' /\ Streams(b)'
    BY DEF OnItsWay
<1>2. Kept' = {}
    BY <1>1 DEF Kept, Elements
<1>3. conn'[b] \notin Slots
    BY <1>1, SlotsApart
<1> QED BY <1>2, <1>3 DEF Resumes, Streams

\* Pump and Announce: whatever else an event does, it is on its way to everybody.
LEMMA BroadcastOnItsWay ==
    ASSUME Sound, OnItsWay, NEW e \in Event, e.id = <<boot, next + 1>>,
           next' = next + 1, RingGets(e), UNCHANGED <<feedOpen, boot, page>>,
           \A i \in Slots : IF streams[i].on THEN StreamGets(i, e) ELSE streams'[i] = streams[i],
           \A b \in Browsers : \A E : Comes(b, E) => Comes(b, E \cup {e})'
    PROVE  OnItsWay'
<1> USE DEF Sound
<1>1. next \in Nat /\ Number(e) = next + 1
    BY DEF TypeOfServer, Number
<1>2. ASSUME NEW n \in Nat, n <= next, NEW x \in Kept', Number(x) = n, x # e
      PROVE  Later(n) \cup {e} \subseteq Later(n)'
    <2>1. ASSUME NEW d \in Later(n)
          PROVE  d \in Later(n)'
        <3>1. d \in Kept /\ Number(d) > n /\ Number(d) \in Nat
            BY Zenon, KeptEvents, Numbered DEF Later
        <3>2. d \in Kept'
            BY <1>2, <3>1 DEF RingGets
        <3> QED BY Zenon, <3>1, <3>2 DEF Later
    <2>2. e \in Later(n)'
        <3>1. Number(e) > n
            BY <1>1, <1>2
        <3> QED BY Zenon, <3>1 DEF Later, RingGets
    <2> QED BY <2>1, <2>2
<1> SUFFICES ASSUME NEW b \in Browsers, feedOpen, ~failed[b]
             PROVE  Resumes(b)' /\ Streams(b)'
    BY Zenon DEF OnItsWay
<1>3. Resumes(b) /\ Streams(b) /\ \A E : Comes(b, E) => Comes(b, E \cup {e})'
    BY Zenon DEF OnItsWay
<1>4. Resumes(b)'
    <2> SUFFICES ASSUME NEW x \in Kept', x.id = lastId[b]
                 PROVE  \E E : E \subseteq Later(lastId[b][2])' /\ Comes(b, E)'
        BY Zenon, ResumesNext
    <2>1. PICK n : n = lastId[b][2]
        BY Zenon
    <2>2. /\ lastId[b] \in Nat \X Nat /\ n \in Nat /\ Number(x) = n
          /\ lastId[b][1] = boot => n <= next
        BY Zenon, <2>1 DEF TypeOfPage, Connected, Number
    <2>3. x # e
        <3>1. SUFFICES ASSUME x = e
                       PROVE  FALSE
            BY Zenon
        <3>2. lastId[b] = <<boot, next + 1>>
            BY Zenon, <3>1
        <3>3. lastId[b][1] = boot /\ n = next + 1
            BY <2>1, <3>2
        <3> QED BY <1>1, <2>2, <3>3
    <2>4. x \in Kept /\ x.id[1] = boot
        BY Zenon, <2>3 DEF RingGets, Ordered, Issued
    <2>5. n <= next
        BY Zenon, <2>2, <2>4
    <2>6. Later(n) \cup {e} \subseteq Later(n)'
        BY Zenon, <1>2, <2>2, <2>3, <2>5
    <2>7. Comes(b, Later(n))
        BY Zenon, <1>3, <2>1, <2>4 DEF Resumes
    <2>8. PICK E : E = Later(n)
        BY Zenon
    <2>9. Comes(b, E \cup {e})'
        BY Zenon, <1>3, <2>7, <2>8
    <2>10. E \cup {e} \subseteq Later(lastId[b][2])'
        BY Zenon, <2>1, <2>6, <2>8 DEF Later
    <2> QED BY Zenon, <2>9, <2>10
<1>5. Streams(b)'
    <2>1. PICK i : i = conn[b]
        BY Zenon
    <2> SUFFICES ASSUME i \in Slots, ~streams'[i].reset
                 PROVE  /\ streams'[i].reg => \E E : E \subseteq Pending(i)' /\ Comes(b, E)'
                        /\ \A z \in Pending(i)' :
                              ~streams'[i].reg /\ z \in Kept' /\ (\A d \in Pending(i)' : Number(d) <= Number(z)) =>
                                \E E : E \subseteq Pending(i)' \cup Later(Number(z))' /\ Comes(b, E)'
        BY Zenon, <2>1, StreamsNext
    <2>2. streams[i].on /\ streams[i] \in Stream /\ StreamGets(i, e) /\ InOrder(i)
        BY Zenon, <2>1, OnStream DEF Connected, Ordered
    <2>3. ~streams[i].reset
        BY Zenon, <2>2 DEF StreamGets
    <2>4. /\ streams'[i].reg => streams[i].reg /\ Pending(i)' = Pending(i) \cup {e}
          /\ ~streams'[i].reg => Pending(i)' = Pending(i)
        BY Zenon, <2>2, PendingGets
    <2>5. ASSUME streams'[i].reg
          PROVE  \E E : E \subseteq Pending(i)' /\ Comes(b, E)'
        <3>1. Comes(b, Pending(i))
            BY Zenon, <1>3, <2>1, <2>3, <2>4, <2>5 DEF Streams
        <3>2. PICK E : E = Pending(i)
            BY Zenon
        <3>3. Comes(b, E \cup {e})'
            BY Zenon, <1>3, <3>1, <3>2
        <3> QED BY Zenon, <2>4, <2>5, <3>2, <3>3
    <2>6. ASSUME NEW z \in Pending(i)', ~streams'[i].reg, z \in Kept',
                 \A d \in Pending(i)' : Number(d) <= Number(z)
          PROVE  \E E : E \subseteq Pending(i)' \cup Later(Number(z))' /\ Comes(b, E)'
        <3>1. Pending(i)' = Pending(i) /\ z \in Pending(i)
            BY Zenon, <2>4, <2>6
        <3>2. Number(z) \in Nat /\ Number(z) <= next
            BY Zenon, <2>2, <3>1, PendingEvents, Numbered DEF InOrder, Issued
        <3>3. z # e
            BY <1>1, <3>2
        <3>4. Later(Number(z)) \cup {e} \subseteq Later(Number(z))'
            BY Zenon, <1>2, <2>6, <3>2, <3>3
        <3>5. z \in Kept
            BY Zenon, <2>6, <3>3 DEF RingGets
        <3>6. Comes(b, Pending(i) \cup Later(Number(z)))
            <4>1. CASE streams[i].reg
                <5>1. Comes(b, Pending(i))
                    BY Zenon, <1>3, <2>1, <2>3, <4>1 DEF Streams
                <5> QED BY <5>1, ComesMore
            <4>2. CASE ~streams[i].reg
                BY Zenon, <1>3, <2>1, <2>3, <2>6, <3>1, <3>5, <4>2 DEF Streams
            <4> QED BY Zenon, <4>1, <4>2
        <3>7. PICK E : E = Pending(i) \cup Later(Number(z))
            BY Zenon
        <3>8. Comes(b, E \cup {e})'
            BY Zenon, <1>3, <3>6, <3>7
        <3>9. E \cup {e} \subseteq Pending(i)' \cup Later(Number(z))'
            BY Zenon, <3>1, <3>4, <3>7
        <3> QED BY <3>8, <3>9
    <2> QED BY Zenon, <2>5, <2>6
<1> QED BY Zenon, <1>4, <1>5

LEMMA PumpOnItsWay ==
    ASSUME ReplaySize \in Nat \ {0}, Sound, OnItsWay, Pump
    PROVE  OnItsWay'
<1> USE DEF Sound
<1>1. /\ feed # <<>> /\ feed' = Tail(feed) /\ Broadcast("card", Head(feed))
      /\ UNCHANGED <<layout, card, announce, feedOpen, boot, page, drops>>
    BY DEF Pump
<1> DEFINE e == [id |-> <<boot, next + 1>>, event |-> "card", data |-> Head(feed)]
<1>2. feed \in Seq(Nat) /\ Head(feed) \in Nat /\ Len(feed) \in Nat \ {0} /\ DOMAIN feed = 1..Len(feed)
    BY <1>1 DEF TypeOfServer
<1>3. /\ e \in Event /\ next' = next + 1 /\ RingGets(e)
      /\ \A i \in Slots : IF streams[i].on THEN StreamGets(i, e) ELSE streams'[i] = streams[i]
    BY Zenon, <1>1, <1>2, BroadcastSteps
<1>4. e.id = <<boot, next + 1>> /\ e.event = "card" /\ e.data = feed[1]
    BY <1>2
<1> HIDE DEF e
<1>5. ASSUME NEW k \in DOMAIN feed, feed[k] = card
      PROVE  e.data = card \/ \E j \in DOMAIN feed' : feed'[j] = card
    <2>1. CASE k = 1
        BY <1>4, <1>5, <2>1
    <2>2. CASE k # 1
        <3>1. k - 1 \in DOMAIN feed' /\ feed'[k - 1] = feed[k]
            BY <1>1, <1>2, <2>2
        <3> QED BY <1>5, <3>1
    <2> QED BY <2>1, <2>2
<1>6. PICK x : x = e
    OBVIOUS
<1>7. ASSUME NEW b \in Browsers, NEW E, Comes(b, E)
      PROVE  Comes(b, E \cup {x})'
    <2>1. CardComes(b, E \cup {x})'
        BY Zenon, <1>1, <1>5, <1>6, <1>7 DEF Comes, CardComes
    <2>2. LayoutComes(b, E \cup {x})'
        BY <1>1, <1>7 DEF Comes, LayoutComes
    <2> QED BY <2>1, <2>2 DEF Comes
<1> QED BY Zenon, <1>1, <1>3, <1>4, <1>6, <1>7, BroadcastOnItsWay

LEMMA AnnounceOnItsWay ==
    ASSUME ReplaySize \in Nat \ {0}, Sound, OnItsWay, Announce
    PROVE  OnItsWay'
<1> USE DEF Sound
<1>1. /\ Broadcast("config", announce)
      /\ UNCHANGED <<layout, card, feed, feedOpen, boot, page, drops>>
    BY DEF Announce
<1>2. PICK x : x = [id |-> <<boot, next + 1>>, event |-> "config", data |-> announce]
    BY Zenon
<1>3. /\ x \in Event /\ next' = next + 1 /\ RingGets(x)
      /\ \A i \in Slots : IF streams[i].on THEN StreamGets(i, x) ELSE streams'[i] = streams[i]
    BY Zenon, <1>1, <1>2, BroadcastSteps DEF TypeOfServer
<1>4. x.id = <<boot, next + 1>> /\ x.event = "config"
    BY <1>2
<1>5. ASSUME NEW b \in Browsers, NEW E, Comes(b, E)
      PROVE  Comes(b, E \cup {x})'
    BY <1>4 DEF Comes, CardComes, LayoutComes
<1> QED BY Zenon, <1>1, <1>3, <1>4, <1>5, BroadcastOnItsWay

LEMMA LastPending ==
    ASSUME NEW i, streams[i] \in Stream, InOrder(i), Pending(i) # {}
    PROVE  \E z \in Pending(i) : \A d \in Pending(i) : Number(d) <= Number(z)
<1> DEFINE r == streams[i].replay
           c == streams[i].ch
<1>1. /\ r \in Seq(Event) /\ c \in Seq(Event) /\ Increasing(r) /\ Increasing(c)
      /\ \A d \in Elements(r), x \in Elements(c) : Number(d) < Number(x)
      /\ Pending(i) = Elements(r) \cup Elements(c)
    BY Zenon DEF Stream, InOrder, Pending
<1> HIDE DEF r, c
<1>2. ASSUME NEW s \in Seq(Event), Increasing(s), Elements(s) # {}
      PROVE  \E z \in Elements(s) : \A d \in Elements(s) : Number(d) <= Number(z)
    <2>1. DOMAIN s = 1..Len(s) /\ Len(s) \in Nat
        OBVIOUS
    <2>2. Len(s) \in DOMAIN s
        BY <1>2, <2>1 DEF Elements
    <2>3. ASSUME NEW k \in DOMAIN s
          PROVE  Number(s[k]) <= Number(s[Len(s)])
        <3>1. s[k] \in Event /\ s[Len(s)] \in Event
            BY <2>1, <2>2
        <3>2. Number(s[k]) \in Nat /\ Number(s[Len(s)]) \in Nat
            BY <3>1, Numbered
        <3>3. CASE k = Len(s)
            BY <3>2, <3>3
        <3>4. CASE k < Len(s)
            <4>1. Number(s[k]) < Number(s[Len(s)])
                BY <1>2, <2>2, <3>4 DEF Increasing
            <4> QED BY <3>2, <4>1
        <3> QED BY <2>1, <3>3, <3>4
    <2> QED BY <2>2, <2>3 DEF Elements
<1>3. CASE Elements(c) = {}
    BY <1>1, <1>2, <1>3
<1>4. CASE Elements(c) # {}
    <2>1. PICK z \in Elements(c) : \A d \in Elements(c) : Number(d) <= Number(z)
        BY <1>1, <1>2, <1>4
    <2>2. ASSUME NEW d \in Elements(r)
          PROVE  Number(d) <= Number(z)
        <3>1. d \in Event /\ z \in Event
            BY <1>1 DEF Elements
        <3>2. Number(d) \in Nat /\ Number(z) \in Nat /\ Number(d) < Number(z)
            BY <1>1, <3>1, Numbered
        <3> QED BY <3>2
    <2> QED BY <1>1, <2>1, <2>2
<1> QED BY <1>3, <1>4

\* A browser acts on an event: what had to come apart from it still has to.
LEMMA ActsOnEvent ==
    ASSUME Sound, NEW b \in Browsers, NEW e \in Event, Issued(e),
           UNCHANGED <<layout, card, announce, feed>>,
           \/ e.event = "card" /\ Show(b, view[b].layout, e.data) /\ fetches' = fetches
           \/ e.event = "config" /\ StartFetch(b) /\ UNCHANGED <<view, seen>>,
           NEW E, Comes(b, E \cup {e})
    PROVE  Comes(b, E)'
<1> USE DEF Sound
<1>1. CASE e.event = "config" /\ StartFetch(b)
    <2>1. PICK f \in 1..MaxFetches : fetches'[b][f] = Request
        BY <1>1, Starts
    <2>2. Request.busy /\ Request.layout = Unread /\ Request.card = Unread
        BY DEF Request
    <2> QED BY Zenon, <2>1, <2>2 DEF Comes, CardComes, LayoutComes
<1>2. CASE e.event = "card" /\ Show(b, view[b].layout, e.data) /\ fetches' = fetches
    <2>1. /\ e.data \in Version /\ view[b].layout \in Version /\ e.data \in Nat
          /\ e.data <= card /\ card \in Nat /\ layout \in Nat
        BY Zenon, <1>2 DEF Version, TypeOfPage, View, Issued, Event, TypeOfServer
    <2>2. /\ seen'[b].layout = Newest(seen[b].layout, view[b].layout)
          /\ seen'[b].card = Newest(seen[b].card, e.data)
        BY <1>2, <2>1, Shows
    <2>3. /\ seen[b].layout \in Int /\ seen[b].card \in Int /\ view[b].layout \in Int
          /\ seen[b].layout <= layout /\ seen[b].card <= card /\ view[b].layout <= layout
        BY DEF TypeOfPage, View, Version, Unread, Bounded
    <2>4. seen[b].card = card \/ e.data = card => seen'[b].card = card
        BY <2>1, <2>2, <2>3 DEF Newest
    <2>5. seen[b].layout = layout => seen'[b].layout = layout
        BY <2>1, <2>2, <2>3 DEF Newest
    <2>6. CardComes(b, E)'
        BY Zenon, <1>2, <2>4 DEF Comes, CardComes
    <2>7. LayoutComes(b, E)'
        BY Zenon, <1>2, <2>5 DEF Comes, LayoutComes
    <2> QED BY <2>6, <2>7 DEF Comes
<1> QED BY <1>1, <1>2

LEMMA ReceiveOnItsWay ==
    ASSUME Sound, OnItsWay, NEW i \in Slots, Receive(i)
    PROVE  OnItsWay'
<1> USE DEF Sound
<1>1. /\ streams[i] \in Stream /\ conn[streams[i].b] = i /\ InOrder(i)
      /\ UNCHANGED <<layout, card, announce, hub, conn, failed, drops>>
      /\ TellsReset(i) \/ \E e \in Event : TellsEvent(i, e)
    BY Receives, OnStream DEF Ordered
<1>2. PICK b \in Browsers : b = streams[i].b
    BY Zenon, <1>1 DEF Stream
<1> SUFFICES ASSUME NEW c \in Browsers, feedOpen, ~failed[c]
             PROVE  Resumes(c)' /\ Streams(c)'
    BY Zenon, <1>1 DEF OnItsWay
<1>3. Resumes(c) /\ Streams(c)
    BY DEF OnItsWay
<1>4. ASSUME c # b, streams' = [streams EXCEPT ![i] = streams'[i]],
             fetches'[c] = fetches[c], seen'[c] = seen[c], lastId'[c] = lastId[c]
      PROVE  Resumes(c)' /\ Streams(c)'
    <2>1. conn[c] \in Slots => conn[c] # i
        BY Zenon, <1>2, <1>4 DEF Connected
    <2>2. conn[c] \in Slots => streams'[conn[c]] = streams[conn[c]]
        BY <1>4, <2>1 DEF TypeOfServer
    <2> QED BY Zenon, <1>1, <1>3, <1>4, <2>2, OthersOnTheirWay
<1>5. CASE TellsReset(i)
    <2>1. /\ streams' = [streams EXCEPT ![i].reset = FALSE]
          /\ StartFetch(b) /\ UNCHANGED <<lastId, view, seen>>
        BY <1>2, <1>5 DEF TellsReset
    <2>2. streams' = [streams EXCEPT ![i] = streams'[i]]
        BY <1>1, <2>1, ResetTold DEF TypeOfServer
    <2>3. CASE c # b
        BY <1>4, <2>1, <2>2, <2>3, Starts
    <2>4. CASE c = b
        <3>1. PICK f \in 1..MaxFetches : fetches'[b][f] = Request
            BY <2>1, Starts
        <3>2. Request.busy /\ Request.layout = Unread /\ Request.card = Unread
            BY DEF Request
        <3>3. \A E : Comes(b, E)'
            BY <3>1, <3>2 DEF Comes, CardComes, LayoutComes
        <3>4. Comes(b, {})'
            BY <3>3
        <3>5. Resumes(b)'
            BY <3>4, ResumesNext
        <3>6. i = conn'[b]
            BY <1>1, <1>2
        <3>7. Streams(b)'
            BY <3>4, <3>6, StreamsNext
        <3> QED BY <2>4, <3>5, <3>7
    <2> QED BY <2>3, <2>4
<1>6. ASSUME NEW e \in Event, TellsEvent(i, e)
      PROVE  Resumes(c)' /\ Streams(c)'
    <2>1. /\ ~streams[i].reset /\ Wrote(i, e) /\ lastId' = [lastId EXCEPT ![b] = e.id]
          /\ \/ e.event = "card" /\ Show(b, view[b].layout, e.data) /\ fetches' = fetches
             \/ e.event = "config" /\ StartFetch(b) /\ UNCHANGED <<view, seen>>
        BY Zenon, <1>2, <1>6 DEF TellsEvent
    <2>2. CASE c # b
        <3>1. lastId'[c] = lastId[c]
            BY Zenon, <2>1, <2>2 DEF TypeOfPage
        <3>2. fetches'[c] = fetches[c] /\ seen'[c] = seen[c]
            BY <2>1, <2>2, Starts DEF Show, TypeOfPage
        <3> QED BY Zenon, <1>4, <2>1, <2>2, <3>1, <3>2 DEF Wrote
    <2>3. CASE c = b
        <3>1. /\ Pending(i) = {e} \cup Pending(i)' /\ e \in Pending(i) /\ Issued(e)
              /\ \A d \in Pending(i)' : Number(e) < Number(d)
              /\ streams'[i].reg = streams[i].reg
            BY Zenon, <1>1, <2>1 DEF Wrote, InOrder
        <3>2. \A E : Comes(b, E \cup {e}) => Comes(b, E)'
            BY Zenon, <1>1, <2>1, <3>1, ActsOnEvent
        <3>3. /\ Kept' = Kept /\ (\A n : Later(n)' = Later(n)) /\ lastId'[b] = e.id /\ i = conn'[b]
              /\ i = conn[b] /\ Number(e) \in Nat
              /\ \A d \in Pending(i) : Number(d) \in Nat
            BY Zenon, <1>1, <1>2, <2>1, PendingEvents, Numbered DEF Kept, Later, TypeOfPage
        <3>4. streams[i].reg => Comes(b, Pending(i))
            BY Zenon, <1>3, <2>1, <2>3, <3>3 DEF Streams
        <3>5. ASSUME NEW z \in Pending(i), ~streams[i].reg, z \in Kept,
                     \A d \in Pending(i) : Number(d) <= Number(z)
              PROVE  Comes(b, Pending(i) \cup Later(Number(z)))
            BY Zenon, <1>3, <2>1, <2>3, <3>3, <3>5 DEF Streams
        <3>6. PICK P : P = Pending(i)'
            OBVIOUS
        <3>7. Resumes(b)'
            <4> SUFFICES ASSUME NEW x \in Kept, x.id = e.id
                         PROVE  \E E : E \subseteq Later(lastId[b][2])' /\ Comes(b, E)'
                BY Zenon, <3>3, ResumesNext
            <4>1. PICK L : L = Later(Number(e))
                BY Zenon
            <4>2. L = Later(lastId[b][2])'
                BY <3>3, <4>1 DEF Number, Later, Kept
            <4>3. e \in Kept
                <5>1. Number(x) <= Number(e)
                    BY <3>3 DEF Number
                <5> QED BY Zenon, <1>1, <3>1, <5>1 DEF InOrder
            <4>4. ASSUME NEW d \in Pending(i)
                  PROVE  d \in Kept /\ Number(e) <= Number(d)
                <5>1. Number(e) <= Number(d)
                    BY <3>1, <3>3
                <5> QED BY Zenon, <1>1, <4>3, <5>1 DEF InOrder
            <4>5. P \subseteq L
                BY Zenon, <3>1, <3>6, <4>1, <4>4 DEF Later
            <4>6. CASE streams[i].reg
                <5>1. Comes(b, P \cup {e})
                    BY <3>1, <3>4, <3>6, <4>6, ComesMore
                <5> QED BY <3>2, <4>2, <4>5, <5>1
            <4>7. CASE ~streams[i].reg
                <5>1. PICK z \in Pending(i) : \A d \in Pending(i) : Number(d) <= Number(z)
                    BY Zenon, <1>1, <3>1, LastPending
                <5>2. Comes(b, Pending(i) \cup Later(Number(z)))
                    BY <3>5, <4>4, <4>7, <5>1
                <5>3. PICK M : M = Later(Number(z))
                    BY Zenon
                <5>4. Comes(b, (P \cup M) \cup {e})
                    BY Zenon, <3>1, <3>6, <5>2, <5>3, ComesMore
                <5>5. M \subseteq L
                    <6>1. Number(e) <= Number(z) /\ Number(z) \in Nat
                        BY <3>3, <4>4
                    <6>2. \A d \in Kept : Number(d) \in Nat
                        BY KeptEvents, Numbered
                    <6> QED BY <3>3, <4>1, <5>3, <6>1, <6>2 DEF Later
                <5> QED BY Zenon, <3>2, <4>2, <4>5, <5>4, <5>5
            <4> QED BY Zenon, <4>6, <4>7
        <3>8. ASSUME streams'[i].reg
              PROVE  \E E : E \subseteq Pending(i)' /\ Comes(b, E)'
            <4>1. Comes(b, P \cup {e})
                BY Zenon, <3>1, <3>4, <3>6, <3>8, ComesMore
            <4> QED BY <3>2, <3>6, <4>1
        <3>9. ASSUME NEW z \in Pending(i)', ~streams'[i].reg, z \in Kept',
                     \A d \in Pending(i)' : Number(d) <= Number(z)
              PROVE  \E E : E \subseteq Pending(i)' \cup Later(Number(z))' /\ Comes(b, E)'
            <4>1. z \in Pending(i) /\ z \in Kept /\ Number(z) \in Nat
                BY <3>1, <3>3, <3>9
            <4>2. Number(e) <= Number(z)
                BY <3>1, <3>3, <3>9, <4>1
            <4>3. \A d \in Pending(i) : Number(d) <= Number(z)
                BY Zenon, <3>1, <3>9, <4>2
            <4>4. Comes(b, Pending(i) \cup Later(Number(z)))
                BY Zenon, <3>1, <3>5, <3>9, <4>1, <4>3
            <4>5. PICK M : M = Later(Number(z))
                OBVIOUS
            <4>6. Comes(b, (P \cup M) \cup {e})
                BY Zenon, <3>1, <3>6, <4>4, <4>5, ComesMore
            <4> QED BY Zenon, <3>2, <3>3, <3>6, <4>5, <4>6
        <3>10. Streams(b)'
            BY Zenon, <3>3, <3>8, <3>9, StreamsNext
        <3> QED BY <2>3, <3>7, <3>10
    <2> QED BY <2>2, <2>3
<1> QED BY Zenon, <1>1, <1>5, <1>6

-----------------------------------------------------------------------------
(* The theorems *)

LEMMA InitAhead == Init => Ahead
<1> SUFFICES ASSUME Init PROVE Ahead
    OBVIOUS
<1>1. Kept = {}
    BY DEF Init, Kept, Elements
<1>2. OnItsWay
    BY Zenon, <1>1, SlotsApart DEF Init, OnItsWay, Resumes, Streams
<1> QED BY <1>2, InitSound DEF Ahead

LEMMA NextAhead ==
    ASSUME ReplaySize \in Nat \ {0}, Ahead, [Next]_vars
    PROVE  Ahead'
<1>1. Sound /\ OnItsWay
    BY DEF Ahead
<1>2. CASE UNCHANGED vars
    <2>1. UNCHANGED <<layout, card, announce, feed, feedOpen, boot, next, ring, streams,
                      conn, lastId, fetches, view, seen, failed>>
        BY <1>2 DEF vars
    <2>2. Sound'
        BY <1>1, SoundStays
    <2>3. \A b, E : Comes(b, E) => Comes(b, E)'
        BY Zenon, <2>1 DEF Comes, CardComes, LayoutComes
    <2>4. OnItsWay'
        BY <1>1, <2>1, <2>3, QuietSteps
    <2> QED BY <2>2, <2>4 DEF Ahead
<1>3. CASE Next
    <2>1. Sound'
        BY <1>1, <1>3, NextSound
    <2>2. OnItsWay'
        BY <1>1, <1>3, CommitOnItsWay, PumpOnItsWay, PublishOnItsWay, AnnounceOnItsWay,
           RestartOnItsWay, ExitOnItsWay, ReceiveOnItsWay, ConnectOnItsWay, DropOnItsWay,
           FetchOnItsWay DEF Next, ServerNext, BrowserNext
    <2> QED BY <2>1, <2>2 DEF Ahead
<1> QED BY <1>2, <1>3

LEMMA AheadMissesNothing == Ahead => NothingMissed
<1> SUFFICES ASSUME Ahead, NEW b \in Browsers, Settled(b), feedOpen, ~failed[b]
             PROVE  seen[b] = Truth
    BY DEF NothingMissed
<1> USE DEF Ahead, Sound
<1>1. Streams(b)
    BY DEF OnItsWay
<1>2. /\ conn[b] \in Slots /\ streams[conn[b]].reg /\ ~streams[conn[b]].reset
      /\ streams[conn[b]].replay = <<>> /\ streams[conn[b]].ch = <<>>
      /\ feed = <<>> /\ announce = 0 /\ \A f \in 1..MaxFetches : ~fetches[b][f].busy
    BY DEF Settled
<1>3. Pending(conn[b]) = {}
    BY <1>2 DEF Pending, Elements
<1>4. Comes(b, {})
    BY Zenon, <1>1, <1>2, <1>3 DEF Streams
<1>5. seen[b].card = card /\ seen[b].layout = layout
    BY <1>2, <1>4 DEF Comes, CardComes, LayoutComes
<1>6. seen[b] \in View
    BY DEF TypeOfPage
<1> QED BY <1>5, <1>6 DEF View, Truth

\* A browser to which nothing is on its way has been shown the present, however often it
\* was reconnected, replayed to, cut off or restarted under (sse.go broadcast and subscribe;
\* a ring for at least one event is all that is asked of the constants).
THEOREM SettledIsCurrent ==
    ASSUME ReplaySize \in Nat \ {0}
    PROVE  Spec => []NothingMissed
<1>1. Init => Ahead
    BY InitAhead
<1>2. Ahead /\ [Next]_vars => Ahead'
    BY NextAhead
<1>3. Ahead => NothingMissed
    BY AheadMissesNothing
<1> QED BY <1>1, <1>2, <1>3, PTL DEF Spec
==============================================================================
