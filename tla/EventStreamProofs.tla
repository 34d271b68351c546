-------------------------- MODULE EventStreamProofs --------------------------
(***************************************************************************)
(* The event stream, for any number of browsers, streams, events, restarts *)
(* and sizes of its buffers: the structure of the buffers and of the page, *)
(* and the streams a session pays for.  What reaches a browser is shown in *)
(* DeliveredProofs, which rests on the lemmas here.                        *)
(***************************************************************************)
EXTENDS EventStream, TLAPS

USE DEF hub, page

Event == [id : Nat \X Nat, event : {"card", "config"}, data : Nat]

Stream ==
    [on : {TRUE}, b : Browsers, reg : BOOLEAN, reset : BOOLEAN, replay : Seq(Event), ch : Seq(Event)]

Version == Nat \cup {Unread}
Fetch == [busy : {TRUE}, layout : Version, card : Version]
View == [layout : Version, card : Version]

TypeOfServer ==
    /\ {layout, card, announce, boot, next} \subseteq Nat /\ feedOpen \in BOOLEAN
    /\ feed \in Seq(Nat) /\ ring \in Seq(Event)
    /\ streams \in [Slots -> Stream \cup {NoStream}]

TypeOfPage ==
    /\ conn \in [Browsers -> Slots \cup {Off, Dead}]
    /\ lastId \in [Browsers -> Nat \X Nat]
    /\ fetches \in [Browsers -> [1..MaxFetches -> Fetch \cup {Idle}]]
    /\ view \in [Browsers -> View] /\ seen \in [Browsers -> View]
    /\ failed \in [Browsers -> BOOLEAN]

-----------------------------------------------------------------------------
(* Events, by their numbers *)

Elements(s) == {s[k] : k \in DOMAIN s}
Number(e) == e.id[2]
Increasing(s) == \A j, k \in DOMAIN s : j < k => Number(s[j]) < Number(s[k])

Kept == Elements(ring)
Later(n) == {e \in Kept : Number(e) > n}

\* What handler i has still to write.
Pending(i) == Elements(streams[i].replay) \cup Elements(streams[i].ch)

\* Events have the numbers of this process, and no card that is not there.
Issued(e) == e.id[1] = boot /\ Number(e) <= next /\ (e.event = "card" => e.data <= card)

\* Both buffers of a handler are in order, and hold what the ring holds of these numbers.
InOrder(i) ==
    /\ Increasing(streams[i].replay) /\ Increasing(streams[i].ch)
    /\ \A d \in Elements(streams[i].replay), e \in Elements(streams[i].ch) : Number(d) < Number(e)
    /\ \A e \in Pending(i) : Issued(e) /\ \A x \in Kept : Number(x) <= Number(e) => e \in Kept

Ordered ==
    /\ Increasing(ring) /\ \A e \in Kept : Issued(e)
    /\ \A i \in Slots : streams[i].on => InOrder(i)
    /\ \A k \in DOMAIN feed : feed[k] <= card

\* A browser is connected to its own handler, and has seen no event of the future.
Connected ==
    \A b \in Browsers :
        /\ conn[b] \in Slots => streams[conn[b]].on /\ streams[conn[b]].b = b
        /\ lastId[b][1] <= boot /\ (lastId[b][1] = boot => lastId[b][2] <= next)

\* Nobody has read or shown what is not there.
Bounded ==
    \A b \in Browsers :
        /\ seen[b].layout <= layout /\ seen[b].card <= card /\ view[b].layout <= layout
        /\ \A f \in 1..MaxFetches : fetches[b][f].busy =>
              fetches[b][f].layout <= layout /\ fetches[b][f].card <= card

-----------------------------------------------------------------------------
(* Sequences of events *)

LEMMA Numbered ==
    ASSUME NEW e \in Event
    PROVE  Number(e) \in Nat
BY DEF Event, Number

LEMMA NoEvents == Elements(<<>>) = {} /\ Increasing(<<>>)
BY DEF Elements, Increasing

LEMMA Appended ==
    ASSUME NEW s \in Seq(Event), NEW e \in Event
    PROVE  /\ Append(s, e) \in Seq(Event)
           /\ Elements(Append(s, e)) = Elements(s) \cup {e}
           /\ Increasing(s) /\ (\A d \in Elements(s) : Number(d) < Number(e)) =>
                 Increasing(Append(s, e))
<1> DEFINE t == Append(s, e)
<1>1. t \in Seq(Event) /\ Len(t) = Len(s) + 1 /\ DOMAIN t = 1..Len(s) + 1 /\ DOMAIN s = 1..Len(s)
      /\ Len(s) \in Nat
    OBVIOUS
<1>2. (\A k \in 1..Len(s) : t[k] = s[k]) /\ t[Len(s) + 1] = e
    OBVIOUS
<1> HIDE DEF t
<1>3. Elements(t) = Elements(s) \cup {e}
    <2>1. ASSUME NEW x \in Elements(t)
          PROVE  x \in Elements(s) \cup {e}
        <3>1. PICK k \in 1..Len(s) + 1 : x = t[k]
            BY <1>1 DEF Elements
        <3>2. CASE k \in 1..Len(s)
            BY <1>1, <1>2, <3>1, <3>2 DEF Elements
        <3>3. CASE k = Len(s) + 1
            BY <1>2, <3>1, <3>3
        <3> QED BY <1>1, <3>1, <3>2, <3>3
    <2>2. ASSUME NEW x \in Elements(s) \cup {e}
          PROVE  x \in Elements(t)
        <3>1. PICK k \in 1..Len(s) + 1 : x = t[k]
            BY <1>1, <1>2, <2>2 DEF Elements
        <3> QED BY <1>1, <3>1 DEF Elements
    <2> QED BY <2>1, <2>2
<1>4. ASSUME Increasing(s), \A d \in Elements(s) : Number(d) < Number(e)
      PROVE  Increasing(t)
    <2> SUFFICES ASSUME NEW j \in 1..Len(s) + 1, NEW k \in 1..Len(s) + 1, j < k
                 PROVE  Number(t[j]) < Number(t[k])
        BY <1>1 DEF Increasing
    <2>1. j \in 1..Len(s) /\ t[j] = s[j] /\ s[j] \in Elements(s)
        BY <1>1, <1>2 DEF Elements
    <2>2. CASE k = Len(s) + 1
        BY <1>2, <1>4, <2>1, <2>2
    <2>3. CASE k \in 1..Len(s)
        BY <1>1, <1>2, <1>4, <2>1, <2>3 DEF Increasing
    <2> QED BY <1>1, <2>2, <2>3
<1> QED BY <1>1, <1>3, <1>4 DEF t

LEMMA Suffix ==
    ASSUME NEW s \in Seq(Event), NEW n \in 0..Len(s)
    PROVE  /\ SubSeq(s, n + 1, Len(s)) \in Seq(Event)
           /\ Elements(SubSeq(s, n + 1, Len(s))) = {s[k] : k \in n + 1..Len(s)}
           /\ Increasing(s) => Increasing(SubSeq(s, n + 1, Len(s)))
<1> DEFINE t == SubSeq(s, n + 1, Len(s))
<1>1. t \in Seq(Event) /\ Len(t) = Len(s) - n /\ DOMAIN t = 1..Len(s) - n /\ Len(s) \in Nat
      /\ DOMAIN s = 1..Len(s)
    OBVIOUS
<1>2. \A k \in 1..Len(s) - n : t[k] = s[n + k]
    OBVIOUS
<1> HIDE DEF t
<1>3. Elements(t) = {s[k] : k \in n + 1..Len(s)}
    <2>1. ASSUME NEW x \in Elements(t)
          PROVE  x \in {s[k] : k \in n + 1..Len(s)}
        <3>1. PICK k \in 1..Len(s) - n : x = t[k]
            BY <1>1 DEF Elements
        <3>2. n + k \in n + 1..Len(s)
            BY <1>1
        <3> QED BY <1>2, <3>1, <3>2
    <2>2. ASSUME NEW k \in n + 1..Len(s)
          PROVE  s[k] \in Elements(t)
        <3>1. k - n \in 1..Len(s) - n /\ n + (k - n) = k
            BY <1>1
        <3>2. t[k - n] = s[k]
            BY <1>2, <3>1
        <3> QED BY <1>1, <3>1, <3>2 DEF Elements
    <2> QED BY <2>1, <2>2
<1>4. ASSUME Increasing(s)
      PROVE  Increasing(t)
    <2> SUFFICES ASSUME NEW j \in 1..Len(s) - n, NEW k \in 1..Len(s) - n, j < k
                 PROVE  Number(t[j]) < Number(t[k])
        BY <1>1 DEF Increasing
    <2>1. n + j \in DOMAIN s /\ n + k \in DOMAIN s /\ n + j < n + k
        BY <1>1
    <2>2. Number(s[n + j]) < Number(s[n + k])
        BY <1>4, <2>1 DEF Increasing
    <2> QED BY <1>2, <2>2
<1> QED BY Zenon, <1>1, <1>3, <1>4 DEF t

LEMMA Tailed ==
    ASSUME NEW s \in Seq(Event), s # <<>>
    PROVE  /\ Tail(s) \in Seq(Event) /\ Head(s) \in Event
           /\ Elements(s) = {Head(s)} \cup Elements(Tail(s))
           /\ Increasing(s) => /\ Increasing(Tail(s))
                               /\ \A d \in Elements(Tail(s)) : Number(Head(s)) < Number(d)
<1> DEFINE t == SubSeq(s, 1 + 1, Len(s))
<1>1. Len(s) \in Nat /\ 1 \in 0..Len(s) /\ DOMAIN s = 1..Len(s) /\ Head(s) = s[1] /\ Head(s) \in Event
    OBVIOUS
<1>2. Tail(s) = t
    OBVIOUS
<1>3. /\ t \in Seq(Event) /\ Elements(t) = {s[k] : k \in 1 + 1..Len(s)}
      /\ Increasing(s) => Increasing(t)
    BY <1>1, Suffix
<1> HIDE DEF t
<1>4. Elements(s) = {s[1]} \cup Elements(t)
    <2>1. 1..Len(s) = {1} \cup 1 + 1..Len(s)
        BY <1>1
    <2>2. Elements(s) = {s[k] : k \in 1..Len(s)}
        BY <1>1 DEF Elements
    <2> QED BY <1>3, <2>1, <2>2
<1>5. ASSUME Increasing(s), NEW d \in Elements(t)
      PROVE  Number(s[1]) < Number(d)
    BY <1>1, <1>3, <1>5 DEF Increasing
<1> QED BY Zenon, <1>1, <1>2, <1>3, <1>4, <1>5

LEMMA TrimmedKeeps ==
    ASSUME ReplaySize \in Nat \ {0}, NEW s \in Seq(Event), NEW e \in Event, Increasing(Append(s, e))
    PROVE  /\ Trimmed(Append(s, e)) \in Seq(Event) /\ Increasing(Trimmed(Append(s, e)))
           /\ Elements(Trimmed(Append(s, e))) \subseteq Elements(s) \cup {e}
           /\ e \in Elements(Trimmed(Append(s, e)))
           /\ \A x \in Elements(Trimmed(Append(s, e))), d \in Elements(s) :
                 Number(x) <= Number(d) => d \in Elements(Trimmed(Append(s, e)))
<1> DEFINE t == Append(s, e)
           n == IF Len(t) > ReplaySize THEN Len(t) - ReplaySize ELSE 0
           u == Trimmed(t)
<1>1. /\ t \in Seq(Event) /\ Len(t) \in Nat \ {0} /\ DOMAIN t = 1..Len(t) /\ t[Len(t)] = e
      /\ Elements(t) = Elements(s) \cup {e}
    BY Appended
<1> HIDE DEF t
<1>2. n \in 0..Len(t) /\ n < Len(t)
    BY <1>1
<1>3. u = IF n = 0 THEN t ELSE SubSeq(t, n + 1, Len(t))
    <2>1. CASE Len(t) > ReplaySize
        <3>0. n = Len(t) - ReplaySize
            BY <2>1, Zenon
        <3>1. n = Len(t) - ReplaySize /\ n # 0
            <4> HIDE DEF n
            <4>1. Len(t) \in Nat /\ ReplaySize \in Nat
                BY <1>1
            <4> QED BY <2>1, <3>0, <4>1
        <3>2. u = SubSeq(t, Len(t) - ReplaySize + 1, Len(t))
            BY <2>1 DEF Trimmed
        <3> QED BY Zenon, <3>1, <3>2
    <2>2. CASE ~(Len(t) > ReplaySize)
        BY <2>2 DEF Trimmed
    <2> QED BY Zenon, <2>1, <2>2
<1> HIDE DEF n, u
<1>4. /\ u \in Seq(Event) /\ Increasing(u) /\ Elements(u) = {t[k] : k \in n + 1..Len(t)}
    <2>1. CASE n = 0
        BY <1>1, <1>3, <2>1 DEF Elements, t
    <2>2. CASE n # 0
        BY Zenon, <1>1, <1>2, <1>3, <2>2, Suffix DEF t
    <2> QED BY <2>1, <2>2
<1>5. e \in Elements(u)
    BY <1>1, <1>2, <1>4
<1>6. Elements(u) \subseteq Elements(t)
    <2> SUFFICES ASSUME NEW x \in Elements(u)
                 PROVE  x \in Elements(t)
        OBVIOUS
    <2>1. PICK k \in n + 1..Len(t) : x = t[k]
        BY <1>4
    <2>2. k \in DOMAIN t
        BY <1>1, <1>2
    <2> QED BY <2>1, <2>2 DEF Elements
<1>7. ASSUME NEW x \in Elements(u), NEW d \in Elements(t), Number(x) <= Number(d)
      PROVE  d \in Elements(u)
    <2>1. PICK j \in n + 1..Len(t) : x = t[j]
        BY <1>4
    <2>2. PICK k \in 1..Len(t) : d = t[k]
        BY <1>1 DEF Elements
    <2>3. j \in 1..Len(t) /\ k \in 1..Len(t)
        BY <1>1, <1>2
    <2>5. x \in Event /\ d \in Event
        BY <1>1, <2>1, <2>2, <2>3
    <2>6. Number(x) \in Nat /\ Number(d) \in Nat
        BY <2>5, Numbered
    <2>4. ~(k < j)
        BY <1>1, <1>2, <1>7, <2>1, <2>2, <2>3, <2>6 DEF Increasing, t
    <2> QED BY <1>1, <1>2, <1>4, <2>1, <2>2, <2>4
<1> QED BY Zenon, <1>1, <1>4, <1>5, <1>6, <1>7 DEF u, t

-----------------------------------------------------------------------------
(* An event is broadcast *)

\* The ring after the broadcast of e: it ends with e, and lost its oldest events at most.
RingGets(e) ==
    /\ ring' \in Seq(Event) /\ Increasing(ring') /\ e \in Kept' /\ Kept' \subseteq Kept \cup {e}
    /\ \A x \in Kept', d \in Kept : Number(x) <= Number(d) => d \in Kept'

\* Handler i after the broadcast of e: it has e, or it is cut off.
StreamGets(i, e) ==
    /\ streams'[i] \in Stream /\ streams'[i].b = streams[i].b
    /\ streams'[i].reset = streams[i].reset
    /\ streams'[i].replay = streams[i].replay
    /\ \/ /\ streams[i].reg /\ streams'[i].reg
          /\ streams'[i].ch = Append(streams[i].ch, e)
       \/ ~streams'[i].reg /\ streams'[i].ch = streams[i].ch

LEMMA BroadcastSteps ==
    ASSUME ReplaySize \in Nat \ {0}, TypeOfServer, Ordered,
           NEW event \in {"card", "config"}, NEW data \in Nat, NEW e,
           e = [id |-> <<boot, next + 1>>, event |-> event, data |-> data],
           Broadcast(event, data)
    PROVE  /\ e \in Event /\ next' = next + 1 /\ RingGets(e)
           /\ streams' \in [Slots -> Stream \cup {NoStream}]
           /\ \A i \in Slots : IF streams[i].on THEN StreamGets(i, e) ELSE streams'[i] = streams[i]
<1>1. e \in Event /\ Number(e) = next + 1 /\ next + 1 \in Nat
    BY DEF TypeOfServer, Event, Number
<1>2. next' = next + 1 /\ ring' = Trimmed(Append(ring, e))
    BY DEF Broadcast
<1>3. RingGets(e)
    <2>1. ring \in Seq(Event) /\ Increasing(ring)
        BY DEF TypeOfServer, Ordered
    <2>2. \A d \in Elements(ring) : Number(d) < Number(e)
        <3> SUFFICES ASSUME NEW d \in Elements(ring)
                     PROVE  Number(d) < Number(e)
            OBVIOUS
        <3>1. d \in Event
            BY <2>1 DEF Elements
        <3>2. Number(d) \in Nat /\ Number(d) <= next /\ next \in Nat
            BY <3>1, Numbered DEF Ordered, Issued, Kept, TypeOfServer
        <3> QED BY <1>1, <3>2
    <2>3. Increasing(Append(ring, e))
        BY <1>1, <2>1, <2>2, Appended
    <2> QED BY <1>1, <1>2, <2>1, <2>3, TrimmedKeeps DEF RingGets, Kept
<1>4. ASSUME NEW i \in Slots, streams[i].on
      PROVE  StreamGets(i, e)
    <2> DEFINE s == streams[i]
               gone == {j \in Registered : Len(streams[j].ch) >= ChanSize}
    <2>1. s \in Stream
        BY <1>4 DEF TypeOfServer, NoStream
    <2>2. /\ i \notin Registered => streams'[i] = s
          /\ i \in gone => streams'[i] = [s EXCEPT !.reg = FALSE]
          /\ i \in Registered /\ i \notin gone => streams'[i] = [s EXCEPT !.ch = Append(@, e)]
        BY DEF Broadcast, Registered
    <2>3. i \in Registered <=> s.reg
        BY <1>4 DEF Registered
    <2>4. Append(s.ch, e) \in Seq(Event)
        BY Zenon, <1>1, <2>1, Appended DEF Stream
    <2> HIDE DEF s, gone
    <2>5. CASE ~s.reg
        <3>1. streams'[i] = s
            BY <2>2, <2>3, <2>5
        <3> QED BY <2>1, <2>5, <3>1 DEF StreamGets, s
    <2>6. CASE i \in gone
        <3>1. streams'[i] = [s EXCEPT !.reg = FALSE]
            BY <2>2, <2>6
        <3>2. /\ [s EXCEPT !.reg = FALSE] \in Stream /\ [s EXCEPT !.reg = FALSE].b = s.b
              /\ [s EXCEPT !.reg = FALSE].reset = s.reset /\ [s EXCEPT !.reg = FALSE].replay = s.replay
              /\ [s EXCEPT !.reg = FALSE].ch = s.ch /\ [s EXCEPT !.reg = FALSE].reg = FALSE
            BY Zenon, <2>1 DEF Stream
        <3> QED BY <3>1, <3>2 DEF StreamGets, s
    <2>7. CASE s.reg /\ i \notin gone
        <3>1. streams'[i] = [s EXCEPT !.ch = Append(s.ch, e)]
            BY <2>2, <2>3, <2>7
        <3> DEFINE t == [s EXCEPT !.ch = Append(s.ch, e)]
        <3>2. /\ t \in Stream /\ t.b = s.b /\ t.reset = s.reset /\ t.replay = s.replay
              /\ t.ch = Append(s.ch, e) /\ t.reg = s.reg
            BY Zenon, <2>1, <2>4 DEF Stream
        <3> QED BY <2>7, <3>1, <3>2 DEF StreamGets, s
    <2> QED BY <2>5, <2>6, <2>7
<1>5. ASSUME NEW i \in Slots, ~streams[i].on
      PROVE  streams'[i] = streams[i]
    BY <1>5 DEF Broadcast, Registered
<1>6. \A i \in Slots : streams'[i] \in Stream \cup {NoStream}
    <2> TAKE i \in Slots
    <2>1. CASE streams[i].on
        BY <1>4, <2>1 DEF StreamGets
    <2>2. CASE ~streams[i].on
        BY <1>5, <2>2 DEF TypeOfServer
    <2> QED BY <2>1, <2>2
<1>7. streams' = [i \in Slots |-> streams'[i]]
    BY DEF Broadcast
<1>8. streams' \in [Slots -> Stream \cup {NoStream}]
    BY <1>6, <1>7
<1> QED BY <1>1, <1>2, <1>3, <1>4, <1>5, <1>8

\* What handler i has to write after the broadcast.
LEMMA PendingGets ==
    ASSUME NEW i \in Slots, streams[i] \in Stream, NEW e \in Event, StreamGets(i, e)
    PROVE  /\ streams'[i].reg => streams[i].reg /\ Pending(i)' = Pending(i) \cup {e}
           /\ ~streams'[i].reg => Pending(i)' = Pending(i)
<1>1. streams[i].ch \in Seq(Event)
    BY Zenon DEF Stream
<1>2. CASE /\ streams[i].reg /\ streams'[i].reg
           /\ streams'[i].ch = Append(streams[i].ch, e)
    BY <1>1, <1>2, Appended DEF StreamGets, Pending
<1>3. CASE ~streams'[i].reg /\ streams'[i].ch = streams[i].ch
    BY <1>3 DEF StreamGets, Pending
<1> QED BY <1>2, <1>3 DEF StreamGets

LEMMA PendingEvents ==
    ASSUME NEW i, streams[i] \in Stream
    PROVE  Pending(i) \subseteq Event
<1>1. streams[i].replay \in Seq(Event) /\ streams[i].ch \in Seq(Event)
    BY Zenon DEF Stream
<1> QED BY <1>1 DEF Pending, Elements

LEMMA BroadcastOrdered ==
    ASSUME TypeOfServer, Ordered, NEW e \in Event, RingGets(e), next' = next + 1,
           \A i \in Slots : IF streams[i].on THEN StreamGets(i, e) ELSE streams'[i] = streams[i],
           e.id = <<boot, next + 1>>, e.event = "card" => e.data <= card, boot' = boot, card' = card
    PROVE  /\ Increasing(ring') /\ \A x \in Kept' : Issued(x)'
           /\ \A i \in Slots : streams'[i].on => InOrder(i)'
<1>1. next \in Nat /\ next' = next + 1 /\ Number(e) = next + 1
    BY DEF TypeOfServer, Number
<1>2. ASSUME NEW x \in Event, Issued(x) \/ x = e
      PROVE  Issued(x)'
    <2>1. Number(x) \in Nat
        BY Numbered
    <2>2. CASE Issued(x)
        BY <1>1, <2>1, <2>2 DEF Issued
    <2>3. CASE x = e
        BY <1>1, <2>3 DEF Issued
    <2> QED BY <1>2, <2>2, <2>3
<1>3. Kept \subseteq Event
    BY DEF TypeOfServer, Kept, Elements
<1>4. \A x \in Kept' : Issued(x)'
    BY <1>2, <1>3 DEF RingGets, Ordered
<1>5. ASSUME NEW i \in Slots, streams'[i].on
      PROVE  InOrder(i)'
    <2>1. streams[i].on /\ streams[i] \in Stream /\ StreamGets(i, e)
        BY <1>5 DEF TypeOfServer, NoStream
    <2>2. InOrder(i) /\ Pending(i) \subseteq Event
        BY <2>1, PendingEvents DEF Ordered
    <2>3. \A d \in Pending(i) : Number(d) \in Nat /\ Number(d) <= next /\ Number(d) < Number(e)
        <3> TAKE d \in Pending(i)
        <3>1. Number(d) \in Nat /\ Number(d) <= next
            BY <2>2, Numbered DEF InOrder, Issued
        <3> QED BY <1>1, <3>1
    <2>4. Pending(i)' \subseteq Pending(i) \cup {e}
        BY <2>1, PendingGets
    <2>5. Increasing(streams'[i].replay) /\ Increasing(streams'[i].ch)
        <3>1. Increasing(streams'[i].replay)
            BY <2>1, <2>2 DEF StreamGets, InOrder
        <3>2. \A d \in Elements(streams[i].ch) : Number(d) < Number(e)
            BY <2>3 DEF Pending
        <3>3. streams[i].ch \in Seq(Event) /\ Increasing(streams[i].ch)
            BY Zenon, <2>1, <2>2 DEF Stream, InOrder
        <3>4. Increasing(Append(streams[i].ch, e))
            BY <3>2, <3>3, Appended
        <3> QED BY Zenon, <2>1, <3>1, <3>3, <3>4 DEF StreamGets
    <2>6. ASSUME NEW d \in Elements(streams'[i].replay), NEW x \in Elements(streams'[i].ch)
          PROVE  Number(d) < Number(x)
        <3>1. d \in Elements(streams[i].replay) /\ d \in Pending(i)
            BY <2>1 DEF StreamGets, Pending
        <3>2. x \in Elements(streams[i].ch) \/ x = e
            <4>1. streams[i].ch \in Seq(Event)
                BY Zenon, <2>1 DEF Stream
            <4> QED BY Zenon, <2>1, <4>1, Appended DEF StreamGets
        <3> QED BY <2>2, <2>3, <3>1, <3>2 DEF InOrder
    <2>7. ASSUME NEW d \in Pending(i)', NEW x \in Kept', Number(x) <= Number(d)
          PROVE  d \in Kept'
        <3>1. CASE d = e
            BY <3>1 DEF RingGets
        <3>2. CASE d \in Pending(i)
            <4>1. Number(d) \in Nat /\ Number(d) < Number(e) /\ Number(e) \in Nat
                BY <2>3, <3>2, Numbered
            <4>2. x # e
                BY <2>7, <4>1
            <4>3. x \in Kept
                BY <4>2 DEF RingGets
            <4>4. d \in Kept
                BY <2>2, <2>7, <3>2, <4>3 DEF InOrder
            <4> QED BY <2>7, <4>4 DEF RingGets
        <3> QED BY <2>4, <3>1, <3>2
    <2>8. \A d \in Pending(i)' : Issued(d)'
        <3> TAKE d \in Pending(i)'
        <3>1. d \in Event /\ (Issued(d) \/ d = e)
            BY <2>2, <2>4 DEF InOrder
        <3> QED BY <1>2, <3>1
    <2> QED BY <2>5, <2>6, <2>7, <2>8 DEF InOrder
<1> QED BY <1>4, <1>5 DEF RingGets

-----------------------------------------------------------------------------
(* A handler writes its next event *)

\* Handler i has written e, which came before the rest; the others stand still.
Wrote(i, e) ==
    /\ streams' = [streams EXCEPT ![i] = streams'[i]]
    /\ streams'[i] \in Stream /\ streams'[i].b = streams[i].b
    /\ streams'[i].reg = streams[i].reg /\ streams'[i].reset = streams[i].reset
    /\ Pending(i) = {e} \cup Pending(i)' /\ \A d \in Pending(i)' : Number(e) < Number(d)
    /\ Increasing(streams'[i].replay) /\ Increasing(streams'[i].ch)
    /\ Elements(streams'[i].replay) \subseteq Elements(streams[i].replay)
    /\ Elements(streams'[i].ch) \subseteq Elements(streams[i].ch)

LEMMA HeadOfBoth ==
    ASSUME NEW s \in Seq(Event), NEW t \in Seq(Event), s # <<>>
    PROVE  Head(s \o t) = Head(s)
<1>1. Len(s) \in Nat \ {0} /\ Len(t) \in Nat
    OBVIOUS
<1>2. s \o t \in Seq(Event) /\ Len(s \o t) = Len(s) + Len(t)
    OBVIOUS
<1>3. (s \o t)[1] = s[1]
    BY <1>1
<1> QED BY <1>1, <1>2, <1>3

LEMMA Writes ==
    ASSUME NEW i \in Slots, streams \in [Slots -> Stream \cup {NoStream}], streams[i] \in Stream,
           InOrder(i), streams[i].replay \o streams[i].ch # <<>>,
           streams' = IF streams[i].replay # <<>> THEN [streams EXCEPT ![i].replay = Tail(@)]
                                                  ELSE [streams EXCEPT ![i].ch = Tail(@)]
    PROVE  /\ Head(streams[i].replay \o streams[i].ch) \in Event
           /\ Wrote(i, Head(streams[i].replay \o streams[i].ch))
<1> DEFINE s == streams[i]
<1>1. s \in Stream /\ s.replay \in Seq(Event) /\ s.ch \in Seq(Event)
    BY Zenon DEF Stream
<1>2. /\ Increasing(s.replay) /\ Increasing(s.ch)
      /\ \A d \in Elements(s.replay), x \in Elements(s.ch) : Number(d) < Number(x)
    BY DEF InOrder
<1>3. CASE s.replay # <<>>
    <2> DEFINE t == [s EXCEPT !.replay = Tail(s.replay)]
    <2>1. streams' = [streams EXCEPT ![i] = t] /\ streams'[i] = t
        BY <1>3
    <2>2. Head(s.replay \o s.ch) = Head(s.replay)
        BY Zenon, <1>1, <1>3, HeadOfBoth
    <2>3. /\ Tail(s.replay) \in Seq(Event) /\ Head(s.replay) \in Event
          /\ Elements(s.replay) = {Head(s.replay)} \cup Elements(Tail(s.replay))
          /\ Increasing(Tail(s.replay))
          /\ \A d \in Elements(Tail(s.replay)) : Number(Head(s.replay)) < Number(d)
        BY <1>1, <1>2, <1>3, Tailed
    <2>4. /\ t \in Stream /\ t.b = s.b /\ t.reg = s.reg /\ t.reset = s.reset
          /\ t.replay = Tail(s.replay) /\ t.ch = s.ch
        BY Zenon, <1>1, <2>3 DEF Stream
    <2>5. Pending(i) = Elements(s.replay) \cup Elements(s.ch)
          /\ Pending(i)' = Elements(Tail(s.replay)) \cup Elements(s.ch)
        BY Zenon, <2>1, <2>4 DEF Pending
    <2> HIDE DEF s, t
    <2>6. \A d \in Pending(i)' : Number(Head(s.replay)) < Number(d)
        BY <1>2, <2>3, <2>5
    <2>7. Wrote(i, Head(s.replay))
        BY Zenon, <1>2, <2>1, <2>3, <2>4, <2>5, <2>6 DEF Wrote, s
    <2> QED BY Zenon, <2>2, <2>3, <2>7 DEF s
<1>4. CASE s.replay = <<>>
    <2> DEFINE t == [s EXCEPT !.ch = Tail(s.ch)]
    <2>1. streams' = [streams EXCEPT ![i] = t] /\ streams'[i] = t
        BY <1>4
    <2>2. s.replay \o s.ch = s.ch /\ s.ch # <<>>
        BY <1>1, <1>4
    <2>3. /\ Tail(s.ch) \in Seq(Event) /\ Head(s.ch) \in Event
          /\ Elements(s.ch) = {Head(s.ch)} \cup Elements(Tail(s.ch))
          /\ Increasing(Tail(s.ch))
          /\ \A d \in Elements(Tail(s.ch)) : Number(Head(s.ch)) < Number(d)
        BY <1>1, <1>2, <2>2, Tailed
    <2>4. /\ t \in Stream /\ t.b = s.b /\ t.reg = s.reg /\ t.reset = s.reset
          /\ t.replay = s.replay /\ t.ch = Tail(s.ch)
        BY Zenon, <1>1, <2>3 DEF Stream
    <2>5. Pending(i) = Elements(s.ch) /\ Pending(i)' = Elements(Tail(s.ch))
        <3>1. Elements(s.replay) = {}
            BY <1>4 DEF Elements
        <3> QED BY Zenon, <2>1, <2>4, <3>1 DEF Pending
    <2> HIDE DEF s, t
    <2>7. Wrote(i, Head(s.ch))
        BY Zenon, <1>2, <2>1, <2>3, <2>4, <2>5 DEF Wrote, s
    <2> QED BY <2>2, <2>3, <2>7 DEF s
<1> QED BY Zenon, <1>3, <1>4

\* The two ways a handler's step goes.
TellsReset(i) ==
    LET s == streams[i] IN
    /\ s.reset /\ streams' = [streams EXCEPT ![i].reset = FALSE]
    /\ StartFetch(s.b) /\ UNCHANGED <<lastId, view, seen>>

TellsEvent(i, e) ==
    LET b == streams[i].b IN
    /\ ~streams[i].reset /\ Wrote(i, e) /\ lastId' = [lastId EXCEPT ![b] = e.id]
    /\ \/ e.event = "card" /\ Show(b, view[b].layout, e.data) /\ fetches' = fetches
       \/ e.event = "config" /\ StartFetch(b) /\ UNCHANGED <<view, seen>>

LEMMA Receives ==
    ASSUME TypeOfServer, Ordered, NEW i \in Slots, Receive(i)
    PROVE  /\ streams[i] \in Stream /\ conn[streams[i].b] = i
           /\ UNCHANGED <<layout, card, announce, hub, conn, failed, drops>>
           /\ TellsReset(i) \/ \E e \in Event : TellsEvent(i, e)
<1>1. streams[i].on /\ streams[i] \in Stream /\ InOrder(i)
    BY DEF Receive, TypeOfServer, NoStream, Ordered
<1>2. conn[streams[i].b] = i /\ UNCHANGED <<layout, card, announce, hub, conn, failed, drops>>
    BY DEF Receive
<1>3. CASE streams[i].reset
    <2>1. TellsReset(i)
        BY <1>3 DEF Receive, TellsReset
    <2> QED BY <1>1, <1>2, <2>1
<1>4. CASE ~streams[i].reset
    <2> DEFINE e == Head(streams[i].replay \o streams[i].ch)
    <2>1. /\ streams[i].replay \o streams[i].ch # <<>>
          /\ streams' = IF streams[i].replay # <<>> THEN [streams EXCEPT ![i].replay = Tail(@)]
                                                    ELSE [streams EXCEPT ![i].ch = Tail(@)]
          /\ lastId' = [lastId EXCEPT ![streams[i].b] = e.id]
          /\ \/ e.event = "card" /\ Show(streams[i].b, view[streams[i].b].layout, e.data)
                /\ fetches' = fetches
             \/ e.event = "config" /\ StartFetch(streams[i].b) /\ UNCHANGED <<view, seen>>
        BY Zenon, <1>4 DEF Receive
    <2>2. e \in Event /\ Wrote(i, e)
        BY Zenon, <1>1, <2>1, Writes DEF TypeOfServer
    <2> HIDE DEF e
    <2>3. TellsEvent(i, e)
        BY <1>4, <2>1, <2>2 DEF TellsEvent
    <2> QED BY <1>1, <1>2, <2>2, <2>3
<1> QED BY <1>1, <1>2, <1>3, <1>4

\* reloadDashboard begins: one request more is in flight, unanswered.
LEMMA Starts ==
    ASSUME TypeOfPage, NEW b \in Browsers, StartFetch(b)
    PROVE  /\ fetches' \in [Browsers -> [1..MaxFetches -> Fetch \cup {Idle}]]
           /\ \A c \in Browsers : c # b => fetches'[c] = fetches[c]
           /\ \A f \in 1..MaxFetches : fetches'[b][f] \in {fetches[b][f], Request}
           /\ \E f \in 1..MaxFetches : fetches'[b][f] = Request
<1>1. PICK f \in 1..MaxFetches : fetches' = [fetches EXCEPT ![b][f] = Request]
    BY Zenon DEF StartFetch
<1>2. fetches[b] \in [1..MaxFetches -> Fetch \cup {Idle}]
    BY DEF TypeOfPage
<1>3. Request \in Fetch
    BY DEF Request, Fetch, Version, Unread
<1> HIDE DEF Request
<1>4. fetches' = [fetches EXCEPT ![b] = [fetches[b] EXCEPT ![f] = Request]]
    BY <1>1
<1> QED BY <1>2, <1>3, <1>4 DEF TypeOfPage

-----------------------------------------------------------------------------
(* Types *)

\* What a browser that presents `last' is replayed.
LEMMA Replays ==
    ASSUME ring \in Seq(Event), Increasing(ring), NEW last
    PROVE  /\ ReplayFrom(last) \in Seq(Event) /\ Increasing(ReplayFrom(last))
           /\ Elements(ReplayFrom(last)) \subseteq Kept
           /\ Position(last) # {} => Elements(ReplayFrom(last)) = Later(last[2])
<1>1. CASE Position(last) = {}
    <2>1. ReplayFrom(last) = <<>>
        BY <1>1 DEF ReplayFrom
    <2> QED BY <1>1, <2>1 DEF Increasing, Elements
<1>2. CASE Position(last) # {}
    <2> DEFINE p == CHOOSE j \in Position(last) : TRUE
    <2>1. p \in DOMAIN ring /\ ring[p].id = last
        BY <1>2 DEF Position
    <2>2. ReplayFrom(last) = SubSeq(ring, p + 1, Len(ring))
        BY Zenon, <1>2 DEF ReplayFrom
    <2> HIDE DEF p
    <2>3. p \in 0..Len(ring) /\ p \in 1..Len(ring) /\ DOMAIN ring = 1..Len(ring) /\ Len(ring) \in Nat
        BY <2>1
    <2>4. /\ ReplayFrom(last) \in Seq(Event) /\ Increasing(ReplayFrom(last))
          /\ Elements(ReplayFrom(last)) = {ring[k] : k \in p + 1..Len(ring)}
        BY <2>2, <2>3, Suffix
    <2>5. \A k \in 1..Len(ring) : Number(ring[k]) \in Nat /\ (Number(ring[k]) > last[2] <=> k > p)
        <3> TAKE k \in 1..Len(ring)
        <3>1. ring[k] \in Event /\ ring[p] \in Event
            BY <2>3
        <3>2. Number(ring[k]) \in Nat /\ Number(ring[p]) \in Nat /\ Number(ring[p]) = last[2]
            BY <2>1, <3>1, Numbered DEF Number
        <3>3. k < p => Number(ring[k]) < Number(ring[p])
            BY <2>3 DEF Increasing
        <3>4. p < k => Number(ring[p]) < Number(ring[k])
            BY <2>3 DEF Increasing
        <3> QED BY <2>3, <3>2, <3>3, <3>4
    <2>6. Kept = {ring[k] : k \in 1..Len(ring)}
        BY <2>3 DEF Kept, Elements
    <2>7. {ring[k] : k \in p + 1..Len(ring)} = Later(last[2])
        <3>1. ASSUME NEW k \in p + 1..Len(ring)
              PROVE  ring[k] \in Later(last[2])
            <4>1. k \in 1..Len(ring) /\ k > p
                BY <2>3
            <4> QED BY <2>5, <2>6, <4>1 DEF Later
        <3>2. ASSUME NEW x \in Later(last[2])
              PROVE  x \in {ring[k] : k \in p + 1..Len(ring)}
            <4>1. PICK k \in 1..Len(ring) : x = ring[k] /\ Number(ring[k]) > last[2]
                BY <2>6 DEF Later
            <4>2. k \in p + 1..Len(ring)
                BY <2>3, <2>5, <4>1
            <4> QED BY <4>1, <4>2
        <3> QED BY <3>1, <3>2
    <2> QED BY <2>4, <2>7 DEF Later
<1> QED BY <1>1, <1>2

\* One handler at most changes.
LEMMA Subscribed ==
    ASSUME NEW b \in Browsers, NEW reset \in BOOLEAN, NEW replay \in Seq(Event)
    PROVE  [on |-> TRUE, b |-> b, reg |-> TRUE, reset |-> reset, replay |-> replay, ch |-> <<>>] \in Stream
BY DEF Stream

LEMMA OneStream ==
    ASSUME streams \in [Slots -> Stream \cup {NoStream}], NEW i \in Slots,
           NEW s \in Stream \cup {NoStream}, streams' = [streams EXCEPT ![i] = s]
    PROVE  /\ streams' \in [Slots -> Stream \cup {NoStream}] /\ streams'[i] = s
           /\ \A j \in Slots : j # i => streams'[j] = streams[j]
OBVIOUS

LEMMA ResetTold ==
    ASSUME streams \in [Slots -> Stream \cup {NoStream}], NEW i \in Slots, streams[i] \in Stream,
           streams' = [streams EXCEPT ![i].reset = FALSE]
    PROVE  /\ streams' = [streams EXCEPT ![i] = streams'[i]]
           /\ streams'[i] \in Stream /\ ~streams'[i].reset
           /\ streams'[i].b = streams[i].b /\ streams'[i].reg = streams[i].reg
           /\ streams'[i].replay = streams[i].replay /\ streams'[i].ch = streams[i].ch
<1> DEFINE t == [streams[i] EXCEPT !.reset = FALSE]
<1>1. streams' = [streams EXCEPT ![i] = t]
    OBVIOUS
<1>2. streams'[i] = t
    BY <1>1
<1>3. /\ t \in Stream /\ ~t.reset /\ t.b = streams[i].b /\ t.reg = streams[i].reg
      /\ t.replay = streams[i].replay /\ t.ch = streams[i].ch
    BY Zenon DEF Stream
<1> HIDE DEF t
<1> QED BY Zenon, <1>1, <1>2, <1>3

LEMMA Shows ==
    ASSUME TypeOfPage, NEW b \in Browsers, NEW l \in Version, NEW c \in Version, Show(b, l, c)
    PROVE  /\ view' \in [Browsers -> View] /\ seen' \in [Browsers -> View]
           /\ view'[b].layout = l
           /\ seen'[b].layout = Newest(seen[b].layout, l) /\ seen'[b].card = Newest(seen[b].card, c)
           /\ \A d \in Browsers : d # b => view'[d] = view[d] /\ seen'[d] = seen[d]
<1> DEFINE v == [layout |-> l, card |-> c]
           n == [layout |-> Newest(seen[b].layout, l), card |-> Newest(seen[b].card, c)]
<1>1. view' = [view EXCEPT ![b] = v] /\ seen' = [seen EXCEPT ![b] = n]
    BY DEF Show
<1>2. seen[b] \in View /\ seen[b].layout \in Version /\ seen[b].card \in Version
    BY DEF TypeOfPage, View
<1>3. v \in View /\ n \in View
    BY <1>2 DEF View, Newest
<1>4. /\ v.layout = l /\ n.layout = Newest(seen[b].layout, l)
      /\ n.card = Newest(seen[b].card, c)
    OBVIOUS
<1> HIDE DEF v, n
<1> QED BY <1>1, <1>3, <1>4 DEF TypeOfPage

\* One request of one browser changes.
LEMMA ShowsPresent ==
    ASSUME TypeOfPage, Bounded, layout \in Nat, card \in Nat, NEW b \in Browsers,
           NEW l \in Version, NEW c \in Version, l <= layout, c <= card, Show(b, l, c)
    PROVE  /\ view' \in [Browsers -> View] /\ seen' \in [Browsers -> View]
           /\ \A d \in Browsers : seen'[d].layout <= layout /\ seen'[d].card <= card /\ view'[d].layout <= layout
BY Shows DEF Bounded, Newest

LEMMA OneFetch ==
    ASSUME TypeOfPage, NEW b \in Browsers, NEW f \in 1..MaxFetches, NEW r \in Fetch \cup {Idle},
           fetches' = [fetches EXCEPT ![b] = [fetches[b] EXCEPT ![f] = r]]
    PROVE  /\ fetches' \in [Browsers -> [1..MaxFetches -> Fetch \cup {Idle}]] /\ fetches'[b][f] = r
           /\ \A d \in Browsers : d # b => fetches'[d] = fetches[d]
           /\ \A g \in 1..MaxFetches : g # f => fetches'[b][g] = fetches[b][g]
<1>1. fetches[b] \in [1..MaxFetches -> Fetch \cup {Idle}]
    BY DEF TypeOfPage
<1> QED BY <1>1 DEF TypeOfPage

LEMMA FetchVersions ==
    ASSUME NEW r \in Fetch
    PROVE  r.layout \in Int /\ r.card \in Int /\ r.busy
<1>1. r.layout \in Version /\ r.card \in Version /\ r.busy
    BY Zenon DEF Fetch
<1>2. Version \subseteq Int
    BY DEF Version, Unread
<1> QED BY Zenon, <1>1, <1>2

LEMMA Answers ==
    ASSUME TypeOfServer, TypeOfPage, NEW b \in Browsers, NEW f \in 1..MaxFetches, fetches[b][f].busy
    PROVE  /\ fetches[b][f] \in Fetch
           /\ [fetches[b][f] EXCEPT !.layout = layout] \in Fetch
           /\ [fetches[b][f] EXCEPT !.card = card] \in Fetch
<1>1. fetches[b][f] \in Fetch
    <2>1. fetches[b] \in [1..MaxFetches -> Fetch \cup {Idle}]
        BY DEF TypeOfPage
    <2>2. fetches[b][f] \in Fetch \cup {Idle}
        BY Zenon, <2>1
    <2>3. ~Idle.busy
        BY DEF Idle
    <2> QED BY <2>2, <2>3
<1>2. layout \in Version /\ card \in Version
    BY DEF TypeOfServer, Version
<1> QED BY Zenon, <1>1, <1>2 DEF Fetch

-----------------------------------------------------------------------------
(* The structure is kept *)

Sound == TypeOfServer /\ TypeOfPage /\ Ordered /\ Connected /\ Bounded

LEMMA OnStream ==
    ASSUME TypeOfServer, NEW i \in Slots
    PROVE  streams[i].on <=> streams[i] \in Stream
<1>1. streams[i] \in Stream \cup {NoStream}
    BY DEF TypeOfServer
<1>2. ~NoStream.on /\ \A s \in Stream : s.on
    BY Zenon DEF NoStream, Stream
<1> QED BY <1>1, <1>2

LEMMA SlotsApart == Off \notin Slots /\ Dead \notin Slots
BY DEF Off, Dead, Slots

\* An event stays issued while cards and events are added.
LEMMA IssuedStays ==
    ASSUME NEW x \in Event, Issued(x), boot' = boot, next \in Nat, card \in Nat,
           next' \in Nat, card' \in Nat, next <= next', card <= card'
    PROVE  Issued(x)'
<1>1. Number(x) \in Nat /\ x.data \in Nat
    BY Numbered DEF Event
<1> QED BY <1>1 DEF Issued

LEMMA KeptEvents ==
    ASSUME TypeOfServer
    PROVE  Kept \subseteq Event
BY DEF TypeOfServer, Kept, Elements

LEMMA CommitSound ==
    ASSUME Sound, Commit
    PROVE  Sound'
<1> USE DEF Sound
<1>1. /\ card \in Nat /\ card' = card + 1 /\ card' \in Nat /\ card <= card' /\ next \in Nat /\ next' = next
      /\ boot' = boot /\ ring' = ring /\ streams' = streams /\ layout' = layout
      /\ UNCHANGED page
    BY DEF Commit, TypeOfServer
<1>2. feed' \in Seq(Nat) /\ feedOpen' \in BOOLEAN /\ \A k \in DOMAIN feed' : feed'[k] <= card'
    <2>0. \A m \in Nat : m <= card => m <= card'
        BY <1>1
    <2>1. feed \in Seq(Nat) /\ \A k \in DOMAIN feed : feed[k] \in Nat /\ feed[k] <= card
        BY DEF TypeOfServer, Ordered
    <2>2. CASE feed' = feed /\ feedOpen' = FALSE
        BY Zenon, <2>0, <2>1, <2>2
    <2>3. CASE feed' = Append(feed, card') /\ feedOpen' = feedOpen
        <3>1. /\ feed' \in Seq(Nat) /\ DOMAIN feed' = 1..Len(feed) + 1 /\ DOMAIN feed = 1..Len(feed)
              /\ Len(feed) \in Nat /\ feed'[Len(feed) + 1] = card' /\ \A k \in 1..Len(feed) : feed'[k] = feed[k]
            BY <1>1, <2>1, <2>3
        <3>2. ASSUME NEW k \in 1..Len(feed) + 1
              PROVE  feed'[k] <= card'
            <4>1. CASE k = Len(feed) + 1
                BY <1>1, <3>1, <4>1
            <4>2. CASE k \in 1..Len(feed)
                BY Zenon, <2>0, <2>1, <3>1, <4>2
            <4> QED BY <3>1, <4>1, <4>2
        <3>3. feedOpen' \in BOOLEAN
            BY <2>3 DEF TypeOfServer
        <3> QED BY <3>1, <3>2, <3>3
    <2> QED BY Zenon, <2>2, <2>3 DEF Commit
<1>3. TypeOfServer'
    BY <1>1, <1>2 DEF TypeOfServer, Commit
<1>4. TypeOfPage'
    BY <1>1 DEF TypeOfPage
<1>5. \A x \in Event : Issued(x) => Issued(x)'
    BY <1>1, IssuedStays
<1>6. Ordered'
    <2>1. \A x \in Kept' : Issued(x)'
        BY <1>1, <1>5, KeptEvents DEF Ordered, Kept
    <2>2. ASSUME NEW i \in Slots, streams'[i].on
          PROVE  InOrder(i)'
        <3>1. streams[i] \in Stream /\ InOrder(i) /\ Pending(i) \subseteq Event
            BY <1>1, <2>2, OnStream, PendingEvents DEF Ordered
        <3>2. Pending(i)' = Pending(i) /\ Kept' = Kept
            BY <1>1 DEF Pending, Kept
        <3>3. \A x \in Pending(i)' : Issued(x)'
            BY <1>5, <3>1, <3>2 DEF InOrder
        <3> QED BY <1>1, <3>1, <3>2, <3>3 DEF InOrder
    <2> QED BY <1>1, <1>2, <2>1, <2>2 DEF Ordered
<1>7. Connected'
    BY <1>1 DEF Connected
<1>8. Bounded'
    <2> SUFFICES ASSUME NEW b \in Browsers
                 PROVE  /\ seen[b].layout <= layout /\ seen[b].card <= card' /\ view[b].layout <= layout
                        /\ \A f \in 1..MaxFetches : fetches[b][f].busy =>
                              fetches[b][f].layout <= layout /\ fetches[b][f].card <= card'
        BY <1>1 DEF Bounded
    <2>1. \A m \in Int : m <= card => m <= card'
        BY <1>1
    <2>2. seen[b].card \in Int
        BY DEF TypeOfPage, View, Version, Unread
    <2>3. \A f \in 1..MaxFetches : fetches[b][f].busy => fetches[b][f].card \in Int
        <3> SUFFICES ASSUME NEW f \in 1..MaxFetches, fetches[b][f].busy
                     PROVE  fetches[b][f].card \in Int
            OBVIOUS
        <3>1. fetches[b][f] \in Fetch
            BY Zenon, Answers
        <3> QED BY <3>1, FetchVersions
    <2> QED BY <2>1, <2>2, <2>3 DEF Bounded
<1> QED BY <1>3, <1>4, <1>6, <1>7, <1>8

LEMMA PublishSound ==
    ASSUME Sound, Publish
    PROVE  Sound'
<1> USE DEF Sound
<1>1. /\ layout \in Nat /\ layout' = layout + 1 /\ layout' \in Nat /\ announce' \in Nat
      /\ UNCHANGED <<card, hub, streams, page>>
    BY DEF Publish, TypeOfServer
<1>2. TypeOfServer' /\ TypeOfPage'
    BY <1>1 DEF TypeOfServer, TypeOfPage
<1>3. Ordered'
    BY <1>1 DEF Ordered, InOrder, Issued, Pending, Kept
<1>4. Connected'
    BY Zenon, <1>1 DEF Connected
<1>5. Bounded'
    <2> SUFFICES ASSUME NEW b \in Browsers
                 PROVE  /\ seen[b].layout <= layout' /\ seen[b].card <= card /\ view[b].layout <= layout'
                        /\ \A f \in 1..MaxFetches : fetches[b][f].busy =>
                              fetches[b][f].layout <= layout' /\ fetches[b][f].card <= card
        BY <1>1 DEF Bounded
    <2>1. \A m \in Int : m <= layout => m <= layout'
        BY <1>1
    <2>2. seen[b].layout \in Int /\ view[b].layout \in Int
        BY DEF TypeOfPage, View, Version, Unread
    <2>3. \A f \in 1..MaxFetches : fetches[b][f].busy => fetches[b][f].layout \in Int
        <3> SUFFICES ASSUME NEW f \in 1..MaxFetches, fetches[b][f].busy
                     PROVE  fetches[b][f].layout \in Int
            OBVIOUS
        <3>1. fetches[b][f] \in Fetch
            BY Zenon, Answers
        <3> QED BY <3>1, FetchVersions
    <2> QED BY <2>1, <2>2, <2>3 DEF Bounded
<1> QED BY <1>2, <1>3, <1>4, <1>5

\* Pump and Announce.
LEMMA BroadcastSound ==
    ASSUME ReplaySize \in Nat \ {0}, Sound,
           NEW event \in {"card", "config"}, NEW data \in Nat, event = "card" => data <= card,
           Broadcast(event, data), UNCHANGED <<layout, card, boot, page>>,
           announce' \in Nat, feedOpen' \in BOOLEAN, feed' \in Seq(Nat),
           \A k \in DOMAIN feed' : feed'[k] <= card
    PROVE  Sound'
<1> USE DEF Sound
<1> DEFINE e == [id |-> <<boot, next + 1>>, event |-> event, data |-> data]
<1>1. /\ e \in Event /\ next' = next + 1 /\ RingGets(e)
      /\ streams' \in [Slots -> Stream \cup {NoStream}]
      /\ \A i \in Slots : IF streams[i].on THEN StreamGets(i, e) ELSE streams'[i] = streams[i]
    BY BroadcastSteps
<1>2. e.id = <<boot, next + 1>> /\ (e.event = "card" => e.data <= card)
    OBVIOUS
<1> HIDE DEF e
<1>3. TypeOfServer' /\ TypeOfPage'
    <2>1. TypeOfPage'
        BY Zenon DEF TypeOfPage
    <2>2. {layout', card', announce', boot', next'} \subseteq Nat
        BY <1>1 DEF TypeOfServer
    <2>3. ring' \in Seq(Event)
        BY Zenon, <1>1 DEF RingGets
    <2> QED BY Zenon, <1>1, <2>1, <2>2, <2>3 DEF TypeOfServer
<1>4. Ordered'
    BY <1>1, <1>2, BroadcastOrdered DEF Ordered
<1>5. Connected'
    <2> SUFFICES ASSUME NEW b \in Browsers
                 PROVE  /\ conn[b] \in Slots => streams'[conn[b]].on /\ streams'[conn[b]].b = b
                        /\ lastId[b][1] <= boot /\ (lastId[b][1] = boot => lastId[b][2] <= next')
        BY DEF Connected
    <2>1. lastId[b][2] \in Nat /\ next \in Nat
        BY DEF TypeOfPage, TypeOfServer
    <2>2. lastId[b][1] <= boot /\ (lastId[b][1] = boot => lastId[b][2] <= next')
        BY <1>1, <2>1 DEF Connected
    <2>3. ASSUME conn[b] \in Slots
          PROVE  streams'[conn[b]].on /\ streams'[conn[b]].b = b
        <3>1. streams[conn[b]].on /\ streams[conn[b]].b = b
            BY <2>3 DEF Connected
        <3>2. StreamGets(conn[b], e)
            BY <1>1, <2>3, <3>1
        <3> QED BY Zenon, <3>1, <3>2 DEF StreamGets, Stream
    <2> QED BY <2>2, <2>3
<1>6. Bounded'
    BY DEF Bounded
<1> QED BY <1>3, <1>4, <1>5, <1>6

LEMMA RestartSound ==
    ASSUME Sound, Restart
    PROVE  Sound'
<1> USE DEF Sound
<1>1. /\ boot \in Nat /\ boot' = boot + 1 /\ boot' \in Nat /\ next' = 0 /\ ring' = <<>> /\ feed' = <<>>
      /\ feedOpen' = TRUE /\ announce' = 0 /\ streams' = [i \in Slots |-> NoStream]
      /\ conn' = [b \in Browsers |-> IF conn[b] = Dead THEN Dead ELSE Off]
      /\ UNCHANGED <<layout, card, lastId, fetches, view, seen, failed>>
    BY DEF Restart, TypeOfServer
<1>2. TypeOfServer' /\ TypeOfPage'
    BY <1>1 DEF TypeOfServer, TypeOfPage
<1>3. Ordered'
    BY <1>1 DEF Ordered, Kept, Elements, Increasing, NoStream
<1>4. Connected'
    <2> SUFFICES ASSUME NEW b \in Browsers
                 PROVE  /\ conn'[b] \notin Slots
                        /\ lastId[b][1] <= boot' /\ lastId[b][1] # boot'
        BY <1>1 DEF Connected
    <2>1. lastId[b][1] \in Nat /\ lastId[b][1] <= boot
        BY DEF TypeOfPage, Connected
    <2> QED BY <1>1, <2>1, SlotsApart
<1>5. Bounded'
    BY <1>1 DEF Bounded
<1> QED BY <1>2, <1>3, <1>4, <1>5

\* What Ordered says of the handlers, when one of them changes and the hub does not.
LEMMA OneInOrder ==
    ASSUME TypeOfServer, Ordered, UNCHANGED <<card, boot, next, ring, feed>>, NEW i \in Slots,
           streams' = [streams EXCEPT ![i] = streams'[i]], streams'[i].on => InOrder(i)'
    PROVE  Ordered'
<1>1. Kept' = Kept /\ \A x : Issued(x)' <=> Issued(x)
    BY DEF Kept, Issued
<1>2. ASSUME NEW j \in Slots, streams'[j].on, j # i
      PROVE  InOrder(j)'
    <2>1. streams'[j] = streams[j]
        BY <1>2 DEF TypeOfServer
    <2>2. InOrder(j)
        BY <1>2, <2>1 DEF Ordered
    <2>3. Pending(j)' = Pending(j)
        BY <2>1 DEF Pending
    <2> QED BY <1>1, <2>1, <2>2, <2>3 DEF InOrder
<1> QED BY <1>1, <1>2 DEF Ordered

LEMMA ConnectSound ==
    ASSUME Sound, NEW b \in Browsers, Connect(b)
    PROVE  Sound'
<1> USE DEF Sound
<1>1. UNCHANGED <<layout, card, announce, feed, feedOpen, boot, next, ring,
                  lastId, fetches, view, seen, failed, drops>>
    BY DEF Connect
<1>2. Bounded'
    BY <1>1 DEF Bounded
<1>3. CASE conn' = [conn EXCEPT ![b] = Dead] /\ streams' = streams
    <2>1. TypeOfServer' /\ TypeOfPage'
        BY <1>1, <1>3 DEF TypeOfServer, TypeOfPage
    <2>2. Ordered'
        BY <1>1, <1>3 DEF Ordered, InOrder, Issued, Pending, Kept
    <2>3. Connected'
        BY Zenon, <1>1, <1>3, SlotsApart DEF Connected, TypeOfPage
    <2> QED BY <1>2, <2>1, <2>2, <2>3
<1>4. ASSUME NEW i \in Slots, ~streams[i].on,
             streams' = [streams EXCEPT ![i] =
                 [on |-> TRUE, b |-> b, reg |-> TRUE, reset |-> NeedsReset(lastId[b]),
                  replay |-> ReplayFrom(lastId[b]), ch |-> <<>>]],
             conn' = [conn EXCEPT ![b] = i]
      PROVE  Sound'
    <2> DEFINE s == [on |-> TRUE, b |-> b, reg |-> TRUE, reset |-> NeedsReset(lastId[b]),
                     replay |-> ReplayFrom(lastId[b]), ch |-> <<>>]
    <2>1. /\ ReplayFrom(lastId[b]) \in Seq(Event) /\ Increasing(ReplayFrom(lastId[b]))
          /\ Elements(ReplayFrom(lastId[b])) \subseteq Kept
        BY Zenon, Replays DEF TypeOfServer, Ordered
    <2>2. NeedsReset(lastId[b]) \in BOOLEAN
        BY DEF NeedsReset
    <2>3. s \in Stream
        BY Zenon, <2>1, <2>2, Subscribed
    <2>4. s.on /\ s.b = b /\ s.replay = ReplayFrom(lastId[b]) /\ s.ch = <<>>
        OBVIOUS
    <2> HIDE DEF s
    <2>5. /\ streams' \in [Slots -> Stream \cup {NoStream}] /\ streams'[i] = s
          /\ \A j \in Slots : j # i => streams'[j] = streams[j]
          /\ streams' = [streams EXCEPT ![i] = streams'[i]]
        <3>1. streams' = [streams EXCEPT ![i] = s]
            BY <1>4 DEF s
        <3>2. streams \in [Slots -> Stream \cup {NoStream}]
            BY DEF TypeOfServer
        <3> QED BY <2>3, <3>1, <3>2, OneStream
    <2>6. TypeOfServer' /\ TypeOfPage'
        BY Zenon, <1>1, <1>4, <2>5 DEF TypeOfServer, TypeOfPage
    <2>7. Elements(s.ch) = {} /\ Increasing(s.ch)
        BY Zenon, <2>4, NoEvents
    <2>8. InOrder(i)'
        <3>1. Pending(i)' = Elements(s.replay) /\ Pending(i)' \subseteq Kept /\ Kept' = Kept
            BY <1>1, <2>1, <2>4, <2>5, <2>7 DEF Pending, Kept
        <3>2. \A x \in Kept : Issued(x)'
            BY Zenon, <1>1 DEF Ordered, Issued
        <3> QED BY Zenon, <2>1, <2>4, <2>5, <2>7, <3>1, <3>2 DEF InOrder
    <2>9. Ordered'
        BY <1>1, <2>5, <2>8, OneInOrder
    <2>10. Connected'
        <3> SUFFICES ASSUME NEW c \in Browsers, conn'[c] \in Slots
                     PROVE  streams'[conn'[c]].on /\ streams'[conn'[c]].b = c
            BY <1>1 DEF Connected
        <3>1. CASE c = b
            BY <1>4, <2>4, <2>5, <3>1 DEF TypeOfPage
        <3>2. CASE c # b
            <4>1. conn'[c] = conn[c] /\ streams[conn[c]].on /\ streams[conn[c]].b = c
                BY <1>4, <3>2 DEF TypeOfPage, Connected
            <4>2. conn[c] # i
                BY <1>4, <4>1
            <4> QED BY <2>5, <4>1, <4>2
        <3> QED BY <3>1, <3>2
    <2> QED BY <1>2, <2>6, <2>9, <2>10
<1> QED BY <1>3, <1>4 DEF Connect

LEMMA ExitSound ==
    ASSUME Sound, NEW i \in Slots, Exit(i)
    PROVE  Sound'
<1> USE DEF Sound
<1>1. /\ streams' = [streams EXCEPT ![i] = NoStream]
      /\ conn' = [b \in Browsers |-> IF conn[b] = i THEN Off ELSE conn[b]]
      /\ UNCHANGED <<layout, card, announce, feed, feedOpen, boot, next, ring,
                     lastId, fetches, view, seen, failed, drops>>
    BY Zenon DEF Exit
<1>2. /\ streams' \in [Slots -> Stream \cup {NoStream}] /\ streams'[i] = NoStream
      /\ \A j \in Slots : j # i => streams'[j] = streams[j]
    BY Zenon, <1>1, OneStream DEF TypeOfServer
<1>3. TypeOfServer' /\ TypeOfPage'
    BY Zenon, <1>1, <1>2 DEF TypeOfServer, TypeOfPage
<1>4. Ordered'
    <2>1. ~NoStream.on
        BY DEF NoStream
    <2> QED BY Zenon, <1>1, <1>2, <2>1, OneInOrder
<1>5. Connected'
    <2> SUFFICES ASSUME NEW b \in Browsers, conn'[b] \in Slots
                 PROVE  streams'[conn'[b]].on /\ streams'[conn'[b]].b = b
        BY Zenon, <1>1 DEF Connected
    <2>1. conn'[b] = conn[b] /\ conn[b] # i
        BY <1>1, SlotsApart
    <2> QED BY <1>2, <2>1 DEF Connected
<1>6. Bounded'
    BY <1>1 DEF Bounded
<1> QED BY <1>3, <1>4, <1>5, <1>6

LEMMA DropSound ==
    ASSUME Sound, NEW b \in Browsers, Drop(b)
    PROVE  Sound'
<1> USE DEF Sound
<1>1. /\ conn' = [conn EXCEPT ![b] = Off]
      /\ UNCHANGED <<layout, card, announce, hub, streams, lastId, fetches, view, seen, failed>>
    BY DEF Drop
<1>2. TypeOfServer' /\ TypeOfPage'
    BY <1>1 DEF TypeOfServer, TypeOfPage
<1>3. Ordered'
    BY <1>1 DEF Ordered, InOrder, Issued, Pending, Kept
<1>4. Connected'
    BY Zenon, <1>1, SlotsApart DEF Connected, TypeOfPage
<1>5. Bounded'
    BY <1>1 DEF Bounded
<1> QED BY <1>2, <1>3, <1>4, <1>5

\* The four steps of a request.
LEMMA FetchSound ==
    ASSUME Sound, NEW b \in Browsers, NEW f \in 1..MaxFetches,
           AnswerLayout(b, f) \/ AnswerCards(b, f) \/ ApplyFetch(b, f) \/ FailFetch(b, f)
    PROVE  Sound'
<1> USE DEF Sound
<1>1. fetches[b][f].busy /\ UNCHANGED <<layout, card, announce, hub, streams, conn, lastId>>
    BY DEF AnswerLayout, AnswerCards, ApplyFetch, FailFetch
<1>2. TypeOfServer' /\ Ordered' /\ Connected'
    BY Zenon, <1>1 DEF TypeOfServer, Ordered, InOrder, Issued, Pending, Kept, Connected
<1> DEFINE g == fetches[b][f]
<1>3. /\ g \in Fetch /\ g.layout <= layout /\ g.card <= card
      /\ [g EXCEPT !.layout = layout] \in Fetch /\ [g EXCEPT !.card = card] \in Fetch
    BY <1>1, Answers DEF Bounded
<1>4. PICK r \in Fetch \cup {Idle} :
          /\ fetches' = [fetches EXCEPT ![b] = [fetches[b] EXCEPT ![f] = r]]
          /\ r.busy => r.layout <= layout /\ r.card <= card
    <2>0. layout \in Nat /\ card \in Nat
        BY DEF TypeOfServer
    <2>1. CASE AnswerLayout(b, f)
        <3> DEFINE r == [g EXCEPT !.layout = layout]
        <3>1. r.layout = layout /\ r.card = g.card
            BY <1>3 DEF Fetch
        <3>2. fetches' = [fetches EXCEPT ![b] = [fetches[b] EXCEPT ![f] = r]]
            BY <2>1 DEF AnswerLayout
        <3>3. r \in Fetch
            BY <1>3
        <3> HIDE DEF r
        <3>4. r.layout <= layout /\ r.card <= card
            BY <1>3, <2>0, <3>1
        <3> QED BY Zenon, <3>2, <3>3, <3>4
    <2>2. CASE AnswerCards(b, f)
        <3> DEFINE r == [g EXCEPT !.card = card]
        <3>1. r.card = card /\ r.layout = g.layout
            BY <1>3 DEF Fetch
        <3>2. fetches' = [fetches EXCEPT ![b] = [fetches[b] EXCEPT ![f] = r]]
            BY <2>2 DEF AnswerCards
        <3>3. r \in Fetch
            BY <1>3
        <3> HIDE DEF r
        <3>4. r.layout <= layout /\ r.card <= card
            BY <1>3, <2>0, <3>1
        <3> QED BY Zenon, <3>2, <3>3, <3>4
    <2>3. CASE ApplyFetch(b, f) \/ FailFetch(b, f)
        <3>1. fetches' = [fetches EXCEPT ![b] = [fetches[b] EXCEPT ![f] = Idle]]
            BY <2>3 DEF ApplyFetch, FailFetch
        <3>2. ~Idle.busy
            BY DEF Idle
        <3> QED BY Zenon, <3>1, <3>2
    <2> QED BY <2>1, <2>2, <2>3
<1>5. /\ fetches' \in [Browsers -> [1..MaxFetches -> Fetch \cup {Idle}]] /\ fetches'[b][f] = r
      /\ \A d \in Browsers : d # b => fetches'[d] = fetches[d]
      /\ \A h \in 1..MaxFetches : h # f => fetches'[b][h] = fetches[b][h]
    BY Zenon, <1>4, OneFetch
<1>6. \A d \in Browsers : \A h \in 1..MaxFetches : fetches'[d][h].busy =>
          fetches'[d][h].layout <= layout /\ fetches'[d][h].card <= card
    BY Zenon, <1>4, <1>5 DEF Bounded
<1>7. /\ view' \in [Browsers -> View] /\ seen' \in [Browsers -> View]
      /\ \A d \in Browsers : seen'[d].layout <= layout /\ seen'[d].card <= card /\ view'[d].layout <= layout
    <2>1. CASE UNCHANGED <<view, seen>>
        BY <2>1 DEF TypeOfPage, Bounded
    <2>2. CASE Show(b, g.layout, g.card)
        <3>1. PICK l \in Version, c \in Version : l <= layout /\ c <= card /\ Show(b, l, c)
            BY <1>3, <2>2 DEF Fetch
        <3>2. layout \in Nat /\ card \in Nat
            BY DEF TypeOfServer
        <3> QED BY Zenon, <3>1, <3>2, ShowsPresent
    <2> QED BY <2>1, <2>2 DEF AnswerLayout, AnswerCards, ApplyFetch, FailFetch
<1>8. failed' \in [Browsers -> BOOLEAN]
    BY Zenon DEF TypeOfPage, AnswerLayout, AnswerCards, ApplyFetch, FailFetch
<1>9. TypeOfPage' /\ Bounded'
    BY <1>1, <1>5, <1>6, <1>7, <1>8 DEF TypeOfPage, Bounded
<1> QED BY <1>2, <1>9

LEMMA ReceiveSound ==
    ASSUME Sound, NEW i \in Slots, Receive(i)
    PROVE  Sound'
<1> USE DEF Sound
<1> DEFINE b == streams[i].b
<1>1. /\ streams[i] \in Stream /\ conn[b] = i /\ InOrder(i) /\ streams[i].on
      /\ UNCHANGED <<layout, card, announce, hub, conn, failed, drops>>
      /\ TellsReset(i) \/ \E e \in Event : TellsEvent(i, e)
    BY Receives, OnStream DEF Ordered
<1>2. b \in Browsers /\ layout \in Nat /\ card \in Nat /\ Unread <= layout /\ Unread <= card
    BY <1>1 DEF Stream, TypeOfServer, Unread
<1>3. ASSUME StartFetch(b)
      PROVE  /\ fetches' \in [Browsers -> [1..MaxFetches -> Fetch \cup {Idle}]]
             /\ \A c \in Browsers : \A f \in 1..MaxFetches : fetches'[c][f].busy =>
                    fetches'[c][f].layout <= layout /\ fetches'[c][f].card <= card
    <2>1. Request.layout = Unread /\ Request.card = Unread
        BY DEF Request
    <2> HIDE DEF b
    <2> QED BY <1>2, <1>3, <2>1, Starts DEF Bounded
<1>4. ASSUME streams' = [streams EXCEPT ![i] = streams'[i]], streams'[i] \in Stream,
             streams'[i].b = b, InOrder(i)',
             lastId' \in [Browsers -> Nat \X Nat],
             \A c \in Browsers : lastId'[c][1] <= boot /\ (lastId'[c][1] = boot => lastId'[c][2] <= next)
      PROVE  TypeOfServer' /\ Ordered' /\ Connected'
    <2>1. /\ streams' \in [Slots -> Stream \cup {NoStream}]
          /\ \A j \in Slots : j # i => streams'[j] = streams[j]
        BY <1>4, OneStream DEF TypeOfServer
    <2>2. TypeOfServer'
        BY <1>1, <2>1 DEF TypeOfServer
    <2>3. Ordered'
        BY <1>1, <1>4, OneInOrder
    <2>4. streams'[i].on
        BY Zenon, <1>4 DEF Stream
    <2> HIDE DEF b
    <2>5. ASSUME NEW c \in Browsers, conn[c] \in Slots
          PROVE  streams'[conn[c]].on /\ streams'[conn[c]].b = c
        <3>0. streams[conn[c]].on /\ streams[conn[c]].b = c
            BY <2>5 DEF Connected
        <3>1. CASE conn[c] = i
            BY <1>4, <2>4, <3>0, <3>1 DEF b
        <3>2. CASE conn[c] # i
            BY <2>1, <2>5, <3>0, <3>2
        <3> QED BY <3>1, <3>2
    <2> QED BY <1>1, <1>4, <2>2, <2>3, <2>5 DEF Connected
<1>5. CASE TellsReset(i)
    <2>1. /\ streams' = [streams EXCEPT ![i].reset = FALSE]
          /\ StartFetch(b) /\ UNCHANGED <<lastId, view, seen>>
        BY <1>5 DEF TellsReset
    <2>2. /\ streams' = [streams EXCEPT ![i] = streams'[i]] /\ streams'[i] \in Stream
          /\ streams'[i].b = b
          /\ streams'[i].replay = streams[i].replay /\ streams'[i].ch = streams[i].ch
        BY Zenon, <1>1, <2>1, ResetTold DEF TypeOfServer
    <2>3. InOrder(i)'
        BY Zenon, <1>1, <2>2 DEF InOrder, Pending, Issued, Kept
    <2>4. /\ lastId' \in [Browsers -> Nat \X Nat]
          /\ \A c \in Browsers : lastId'[c][1] <= boot /\ (lastId'[c][1] = boot => lastId'[c][2] <= next)
        BY <2>1 DEF TypeOfPage, Connected
    <2>5. TypeOfPage' /\ Bounded'
        BY <1>1, <1>3, <2>1 DEF TypeOfPage, Bounded
    <2> QED BY <1>4, <2>2, <2>3, <2>4, <2>5
<1>6. ASSUME NEW e \in Event, TellsEvent(i, e)
      PROVE  Sound'
    <2>1. /\ Wrote(i, e) /\ lastId' = [lastId EXCEPT ![b] = e.id]
          /\ \/ e.event = "card" /\ Show(b, view[b].layout, e.data) /\ fetches' = fetches
             \/ e.event = "config" /\ StartFetch(b) /\ UNCHANGED <<view, seen>>
        BY <1>6 DEF TellsEvent
    <2>2. e \in Pending(i) /\ Issued(e) /\ e.id \in Nat \X Nat /\ e.data \in Nat
        BY Zenon, <1>1, <2>1 DEF Wrote, InOrder, Event
    <2>3. InOrder(i)'
        <3>1. Pending(i)' \subseteq Pending(i) /\ Kept' = Kept /\ \A x : Issued(x)' <=> Issued(x)
            BY Zenon, <1>1, <2>1 DEF Wrote, Kept, Issued
        <3> QED BY Zenon, <1>1, <2>1, <3>1 DEF InOrder, Wrote
    <2> HIDE DEF b
    <2>4. /\ lastId' \in [Browsers -> Nat \X Nat]
          /\ \A c \in Browsers : lastId'[c][1] <= boot /\ (lastId'[c][1] = boot => lastId'[c][2] <= next)
        <3>1. e.id[1] <= boot /\ e.id[2] <= next
            BY <2>2 DEF Issued, Number, TypeOfServer
        <3>2. \A c \in Browsers : lastId'[c] = IF c = b THEN e.id ELSE lastId[c]
            BY <2>1 DEF TypeOfPage
        <3>3. lastId' \in [Browsers -> Nat \X Nat]
            BY Zenon, <2>1, <2>2 DEF TypeOfPage
        <3> QED BY <3>1, <3>2, <3>3 DEF Connected
    <2>5. TypeOfServer' /\ Ordered' /\ Connected'
        BY Zenon, <1>4, <2>1, <2>3, <2>4 DEF Wrote, b
    <2>6. TypeOfPage' /\ Bounded'
        <3>1. CASE e.event = "config" /\ StartFetch(b) /\ UNCHANGED <<view, seen>>
            BY <1>1, <1>3, <2>4, <3>1 DEF TypeOfPage, Bounded
        <3>2. CASE e.event = "card" /\ Show(b, view[b].layout, e.data) /\ fetches' = fetches
            <4>1. e.data \in Version /\ view[b].layout \in Version /\ e.data <= card
                BY <1>2, <2>2, <3>2 DEF Version, TypeOfPage, View, Issued
            <4>2. /\ view' \in [Browsers -> View] /\ seen' \in [Browsers -> View]
                  /\ view'[b].layout = view[b].layout
                  /\ seen'[b].layout = Newest(seen[b].layout, view[b].layout)
                  /\ seen'[b].card = Newest(seen[b].card, e.data)
                  /\ \A d \in Browsers : d # b => view'[d] = view[d] /\ seen'[d] = seen[d]
                BY <1>2, <3>2, <4>1, Shows
            <4>3. TypeOfPage'
                BY Zenon, <1>1, <2>4, <3>2, <4>2 DEF TypeOfPage
            <4>4. Bounded'
                BY Zenon, <1>1, <1>2, <3>2, <4>1, <4>2 DEF Bounded, Newest
            <4> QED BY <4>3, <4>4
        <3> QED BY <2>1, <3>1, <3>2
    <2> QED BY <2>5, <2>6
<1> QED BY Zenon, <1>1, <1>5, <1>6

LEMMA NextSound ==
    ASSUME ReplaySize \in Nat \ {0}, Sound, Next
    PROVE  Sound'
<1>1. ASSUME Pump
      PROVE  Sound'
    <2>1. /\ feed # <<>> /\ feed' = Tail(feed) /\ Broadcast("card", Head(feed))
          /\ UNCHANGED <<layout, card, announce, feedOpen, boot, page, drops>>
        BY <1>1 DEF Pump
    <2>2. /\ feed \in Seq(Nat) /\ \A k \in DOMAIN feed : feed[k] <= card
          /\ announce \in Nat /\ feedOpen \in BOOLEAN
        BY DEF Sound, TypeOfServer, Ordered
    <2>3. Head(feed) \in Nat /\ Head(feed) <= card /\ feed' \in Seq(Nat)
        BY <2>1, <2>2
    <2>4. \A k \in DOMAIN feed' : feed'[k] <= card
        BY <2>1, <2>2
    <2> QED BY <2>1, <2>2, <2>3, <2>4, BroadcastSound
<1>2. ASSUME Announce
      PROVE  Sound'
    <2>1. /\ announce' = 0 /\ Broadcast("config", announce)
          /\ UNCHANGED <<layout, card, feed, feedOpen, boot, page, drops>>
        BY <1>2 DEF Announce
    <2>2. /\ feed \in Seq(Nat) /\ \A k \in DOMAIN feed : feed[k] <= card
          /\ announce \in Nat /\ feedOpen \in BOOLEAN
        BY DEF Sound, TypeOfServer, Ordered
    <2> QED BY <2>1, <2>2, BroadcastSound
<1> QED BY <1>1, <1>2, CommitSound, PublishSound, RestartSound, ExitSound, ReceiveSound,
           ConnectSound, DropSound, FetchSound DEF Next, ServerNext, BrowserNext

LEMMA InitSound == Init => Sound
<1> SUFFICES ASSUME Init PROVE Sound
    OBVIOUS
<1> USE DEF Init
<1>1. Kept = {} /\ Increasing(ring)
    BY DEF Kept, Elements, Increasing
<1>2. TypeOfServer
    BY DEF TypeOfServer
<1>3. TypeOfPage
    <2>1. Request \in Fetch
        BY DEF Request, Fetch, Version, Unread
    <2>2. [layout |-> Unread, card |-> Unread] \in View
        BY DEF View, Version
    <2>3. fetches \in [Browsers -> [1..MaxFetches -> Fetch \cup {Idle}]]
        BY <2>1
    <2> QED BY <2>2, <2>3 DEF TypeOfPage, NoId
<1>4. Ordered
    BY <1>1 DEF Ordered, NoStream
<1>5. Connected
    BY SlotsApart DEF Connected, NoId
<1>6. Bounded
    BY DEF Bounded, Request, Idle, Unread
<1> QED BY <1>2, <1>3, <1>4, <1>5, <1>6 DEF Sound

LEMMA SoundStays ==
    ASSUME ReplaySize \in Nat \ {0}, Sound, [Next]_vars
    PROVE  Sound'
<1>1. CASE UNCHANGED vars
    <2>1. UNCHANGED <<layout, card, announce, feed, feedOpen, boot, next, ring, streams,
                      conn, lastId, fetches, view, seen, failed>>
        BY <1>1 DEF vars
    <2> QED BY Zenon, <2>1 DEF Sound, TypeOfServer, TypeOfPage, Ordered, InOrder, Issued, Pending,
                               Kept, Connected, Bounded
<1> QED BY <1>1, NextSound

-----------------------------------------------------------------------------
(* The slots of a session *)

\* The library's facts about finite sets, kept apart from the lemmas above.
Sets == INSTANCE FiniteSetTheorems

LEMMA SameSets == \A S : Cardinality(S) = Sets!Cardinality(S) /\ (IsFiniteSet(S) <=> Sets!IsFiniteSet(S))
<1>1. \A S : Cardinality(S) = Sets!Cardinality(S)
    BY Zenon DEF Cardinality, Sets!Cardinality
<1>2. \A S : IsFiniteSet(S) <=> Sets!IsFiniteSet(S)
    BY Zenon DEF IsFiniteSet, Sets!IsFiniteSet
<1> QED BY <1>1, <1>2

LEMMA NoStreams == Cardinality({}) = 0
BY SameSets, Sets!FS_EmptySet

LEMMA Slotted ==
    ASSUME NEW m \in Int, NEW n \in Int, NEW S \in SUBSET (m..n)
    PROVE  IsFiniteSet(S) /\ Cardinality(S) \in Nat
<1>1. Sets!IsFiniteSet(m..n)
    BY Sets!FS_Interval
<1>2. Sets!IsFiniteSet(S)
    BY <1>1, Sets!FS_Subset
<1> QED BY <1>2, SameSets, Sets!FS_CardinalityType

LEMMA Without ==
    ASSUME NEW S, NEW T, IsFiniteSet(S)
    PROVE  /\ Cardinality(S \ T) \in Nat
           /\ Cardinality(S \ T) = Cardinality(S) - Cardinality(S \cap T)
<1>1. Sets!IsFiniteSet(S)
    BY SameSets
<1>2. Sets!IsFiniteSet(S \ T) /\ Sets!Cardinality(S \ T) = Sets!Cardinality(S) - Sets!Cardinality(S \cap T)
    BY <1>1, Sets!FS_Difference, Zenon
<1> QED BY <1>2, SameSets, Sets!FS_CardinalityType

LEMMA OneMore ==
    ASSUME NEW S, NEW x, IsFiniteSet(S), x \notin S
    PROVE  Cardinality(S \cup {x}) = Cardinality(S) + 1
<1>1. Sets!IsFiniteSet(S)
    BY SameSets
<1> QED BY <1>1, SameSets, Sets!FS_AddElement

\* The registered streams of a session.
StreamsOf(s) == {i \in Registered : SessionOf[streams[i].b] = s}

Charges == sessions \in [Session -> Int] /\ SlotsAccounted

LEMMA StreamsFinite ==
    ASSUME MaxStreams \in Nat, NEW s
    PROVE  IsFiniteSet(StreamsOf(s)) /\ Cardinality(StreamsOf(s)) \in Nat
<1>1. StreamsOf(s) \in SUBSET (1..MaxStreams)
    BY DEF StreamsOf, Registered, Slots
<1>2. 1 \in Int /\ MaxStreams \in Int
    OBVIOUS
<1> QED BY Zenon, <1>1, <1>2, Slotted

\* Streams that leave h.clients give their slots back.
LEMMA Released ==
    ASSUME MaxStreams \in Nat, Charges, NEW gone, sessions' = ReleasedBy(gone),
           \A s \in Session : StreamsOf(s)' = StreamsOf(s) \ gone
    PROVE  Charges'
<1>1. sessions' = [s \in Session |-> sessions[s] - Cardinality(StreamsOf(s) \cap gone)]
    <2>1. \A s : {i \in gone \cap Registered : SessionOf[streams[i].b] = s} = StreamsOf(s) \cap gone
        BY DEF StreamsOf
    <2> QED BY <2>1 DEF ReleasedBy
<1>2. ASSUME NEW s \in Session
      PROVE  sessions'[s] \in Int /\ sessions'[s] = Cardinality(StreamsOf(s) \ gone)
    <2>1. sessions[s] = Cardinality(StreamsOf(s))
        BY DEF Charges, SlotsAccounted, StreamsOf
    <2>2. /\ Cardinality(StreamsOf(s) \ gone) \in Nat
          /\ Cardinality(StreamsOf(s) \ gone) = Cardinality(StreamsOf(s)) - Cardinality(StreamsOf(s) \cap gone)
        BY Zenon, StreamsFinite, Without
    <2> QED BY <1>1, <2>1, <2>2
<1>3. sessions' \in [Session -> Int]
    BY Zenon, <1>1, <1>2
<1>4. ASSUME NEW s \in Session
      PROVE  sessions'[s] = Cardinality({i \in Registered : SessionOf[streams[i].b] = s})'
    <2>1. {i \in Registered : SessionOf[streams[i].b] = s}' = StreamsOf(s) \ gone
        BY DEF StreamsOf
    <2> QED BY <1>2, <2>1
<1> QED BY <1>3, <1>4 DEF Charges, SlotsAccounted

\* A step that leaves the registered streams alone.
LEMMA ChargesStay ==
    ASSUME Charges, sessions' = sessions, \A s \in Session : StreamsOf(s)' = StreamsOf(s)
    PROVE  Charges'
<1>1. ASSUME NEW s \in Session
      PROVE  sessions'[s] = Cardinality({i \in Registered : SessionOf[streams[i].b] = s})'
    <2>1. {i \in Registered : SessionOf[streams[i].b] = s}' = {i \in Registered : SessionOf[streams[i].b] = s}
        BY DEF StreamsOf
    <2> QED BY <2>1 DEF Charges, SlotsAccounted
<1> QED BY <1>1 DEF Charges, SlotsAccounted

LEMMA BroadcastCharges ==
    ASSUME MaxStreams \in Nat, Sound, Charges, NEW event, NEW data, Broadcast(event, data)
    PROVE  Charges'
<1> DEFINE gone == {i \in Registered : Len(streams[i].ch) >= ChanSize}
<1>1. sessions' = ReleasedBy(gone)
    BY DEF Broadcast
<1>2. ASSUME NEW i \in Slots
      PROVE  /\ i \in Registered' <=> i \in Registered \ gone
             /\ i \in Registered => streams'[i].b = streams[i].b
    <2>1. CASE i \notin Registered
        <3>1. streams'[i] = streams[i] /\ i \notin gone
            BY <2>1 DEF Broadcast
        <3> QED BY <2>1, <3>1 DEF Registered
    <2>2. CASE i \in Registered
        <3> DEFINE s == streams[i]
        <3>1. s.on /\ s.reg /\ s \in Stream
            BY <2>2, OnStream DEF Registered, Sound
        <3>2. CASE i \in gone
            <4>1. streams'[i] = [s EXCEPT !.reg = FALSE]
                BY <2>2, <3>2 DEF Broadcast
            <4>2. ~streams'[i].reg /\ streams'[i].b = s.b
                BY <3>1, <4>1 DEF Stream
            <4> QED BY <3>2, <4>2 DEF Registered
        <3>3. CASE i \notin gone
            <4>1. \E c : streams'[i] = [s EXCEPT !.ch = c]
                BY Zenon, <2>2, <3>3 DEF Broadcast
            <4>2. streams'[i].reg = s.reg /\ streams'[i].on = s.on /\ streams'[i].b = s.b
                BY Zenon, <3>1, <4>1 DEF Stream
            <4> QED BY Zenon, <2>2, <3>1, <3>3, <4>2 DEF Registered
        <3> QED BY <3>2, <3>3
    <2> QED BY <2>1, <2>2
<1> HIDE DEF gone
<1>3. ASSUME NEW s \in Session
      PROVE  StreamsOf(s)' = StreamsOf(s) \ gone
    BY <1>2 DEF StreamsOf, Registered
<1> QED BY <1>1, <1>3, Released

LEMMA ConnectCharges ==
    ASSUME MaxStreams \in Nat, Sound, Charges, NEW b \in Browsers, Connect(b)
    PROVE  Charges'
<1>1. CASE sessions' = sessions /\ streams' = streams
    BY <1>1, ChargesStay DEF StreamsOf, Registered
<1>2. ASSUME NEW i \in Slots, ~streams[i].on,
             streams' = [streams EXCEPT ![i] =
                 [on |-> TRUE, b |-> b, reg |-> TRUE, reset |-> NeedsReset(lastId[b]),
                  replay |-> ReplayFrom(lastId[b]), ch |-> <<>>]],
             sessions' = IF SessionOf[b] = NoSession THEN sessions
                         ELSE [sessions EXCEPT ![SessionOf[b]] = @ + 1]
      PROVE  Charges'
    <2>1. /\ streams'[i].on /\ streams'[i].reg /\ streams'[i].b = b
          /\ \A j \in Slots : j # i => streams'[j] = streams[j]
        BY Zenon, <1>2 DEF Sound, TypeOfServer
    <2>2. i \notin Registered
        BY Zenon, <1>2 DEF Registered
    <2>3. ASSUME NEW s \in Session
          PROVE  StreamsOf(s)' = IF s = SessionOf[b] THEN StreamsOf(s) \cup {i} ELSE StreamsOf(s)
        BY Zenon, <1>2, <2>1, <2>2 DEF StreamsOf, Registered
    <2>4. SessionOf[b] # NoSession => SessionOf[b] \in Session
        BY DEF Session
    <2>5. ASSUME NEW s \in Session
          PROVE  /\ sessions[s] \in Int /\ sessions[s] = Cardinality(StreamsOf(s))
                 /\ Cardinality(StreamsOf(s) \cup {i}) = Cardinality(StreamsOf(s)) + 1
        <3>1. i \notin StreamsOf(s)
            BY <2>2 DEF StreamsOf
        <3>2. sessions[s] \in Int /\ sessions[s] = Cardinality(StreamsOf(s))
            BY DEF Charges, SlotsAccounted, StreamsOf
        <3>3. IsFiniteSet(StreamsOf(s))
            BY StreamsFinite
        <3>4. Cardinality(StreamsOf(s) \cup {i}) = Cardinality(StreamsOf(s)) + 1
            BY Zenon, <3>1, <3>3, OneMore
        <3> QED BY <3>2, <3>4
    <2>6. CASE SessionOf[b] = NoSession
        <3>1. \A s \in Session : s # SessionOf[b]
            BY <2>6 DEF Session
        <3> QED BY Zenon, <1>2, <2>3, <2>6, <3>1, ChargesStay
    <2>7. CASE SessionOf[b] # NoSession
        <3>1. PICK u \in Session : u = SessionOf[b]
            BY <2>4, <2>7
        <3>2. sessions' = [sessions EXCEPT ![u] = sessions[u] + 1] /\ sessions[u] + 1 \in Int
            <4>1. sessions' = [sessions EXCEPT ![u] = sessions[u] + 1]
                BY Zenon, <1>2, <2>7, <3>1
            <4>2. sessions[u] \in Int
                BY <2>5
            <4> QED BY <4>1, <4>2
        <3>3. sessions' \in [Session -> Int]
            BY <3>2 DEF Charges
        <3>4. ASSUME NEW s \in Session
              PROVE  sessions'[s] = Cardinality({j \in Registered : SessionOf[streams[j].b] = s})'
            <4>1. {j \in Registered : SessionOf[streams[j].b] = s}' =
                      IF s = u THEN StreamsOf(s) \cup {i} ELSE StreamsOf(s)
                BY <2>3, <3>1 DEF StreamsOf
            <4>2. sessions'[s] = IF s = u THEN sessions[s] + 1 ELSE sessions[s]
                BY <3>2 DEF Charges
            <4> QED BY <2>5, <4>1, <4>2
        <3> QED BY <3>3, <3>4 DEF Charges, SlotsAccounted
    <2> QED BY <2>6, <2>7
<1> QED BY Zenon, <1>1, <1>2 DEF Connect

LEMMA ExitCharges ==
    ASSUME MaxStreams \in Nat, Sound, Charges, NEW i \in Slots, Exit(i)
    PROVE  Charges'
<1>1. sessions' = ReleasedBy({i}) /\ streams' = [streams EXCEPT ![i] = NoStream]
    BY DEF Exit
<1>2. /\ streams'[i] = NoStream /\ \A j \in Slots : j # i => streams'[j] = streams[j]
    BY <1>1 DEF Sound, TypeOfServer
<1>3. ~NoStream.on
    BY DEF NoStream
<1>4. ASSUME NEW s \in Session
      PROVE  StreamsOf(s)' = StreamsOf(s) \ {i}
    BY <1>2, <1>3 DEF StreamsOf, Registered
<1> QED BY <1>1, <1>4, Released

LEMMA ReceiveCharges ==
    ASSUME Sound, Charges, NEW i \in Slots, Receive(i)
    PROVE  Charges'
<1>1. /\ streams[i] \in Stream /\ sessions' = sessions
      /\ TellsReset(i) \/ \E e \in Event : TellsEvent(i, e)
    BY Receives DEF Sound
<1>2. /\ streams' = [streams EXCEPT ![i] = streams'[i]] /\ streams'[i] \in Stream
      /\ streams'[i].b = streams[i].b /\ streams'[i].reg = streams[i].reg
    <2>1. CASE TellsReset(i)
        <3>1. streams' = [streams EXCEPT ![i].reset = FALSE]
            BY <2>1 DEF TellsReset
        <3> QED BY <1>1, <3>1, ResetTold DEF Sound, TypeOfServer
    <2>2. CASE \E e \in Event : TellsEvent(i, e)
        BY <2>2 DEF TellsEvent, Wrote
    <2> QED BY <1>1, <2>1, <2>2
<1>3. \A j \in Slots : j # i => streams'[j] = streams[j]
    BY <1>2 DEF Sound, TypeOfServer
<1>4. streams[i].on /\ streams'[i].on
    BY <1>1, <1>2 DEF Stream
<1>5. Registered' = Registered
    BY <1>2, <1>3, <1>4 DEF Registered
<1>6. ASSUME NEW s \in Session
      PROVE  StreamsOf(s)' = StreamsOf(s)
    BY <1>2, <1>3, <1>5 DEF StreamsOf, Registered
<1> QED BY <1>1, <1>6, ChargesStay

LEMMA NextCharges ==
    ASSUME MaxStreams \in Nat, Sound, Charges, [Next]_vars
    PROVE  Charges'
<1>1. CASE sessions' = sessions /\ streams' = streams
    BY <1>1, ChargesStay DEF StreamsOf, Registered
<1>2. CASE Restart
    <2>1. Registered' = {} /\ sessions' = [s \in Session |-> 0]
        BY <1>2 DEF Restart, Registered, NoStream
    <2>2. ASSUME NEW s \in Session
          PROVE  sessions'[s] = Cardinality({j \in Registered : SessionOf[streams[j].b] = s})'
        <3>1. {j \in Registered : SessionOf[streams[j].b] = s}' = {}
            BY <2>1
        <3> QED BY <2>1, <3>1, NoStreams
    <2> QED BY <2>1, <2>2 DEF Charges, SlotsAccounted
<1>3. CASE Pump \/ Announce
    BY <1>3, BroadcastCharges DEF Pump, Announce
<1>4. CASE \/ UNCHANGED vars \/ Commit \/ Publish \/ \E b \in Browsers : Drop(b)
           \/ \E b \in Browsers, f \in 1..MaxFetches :
                 AnswerLayout(b, f) \/ AnswerCards(b, f) \/ ApplyFetch(b, f) \/ FailFetch(b, f)
    BY <1>1, <1>4 DEF vars, Commit, Publish, Drop, AnswerLayout, AnswerCards, ApplyFetch, FailFetch
<1> QED BY <1>2, <1>3, <1>4, ExitCharges, ReceiveCharges, ConnectCharges
        DEF Next, ServerNext, BrowserNext

\* A session is charged exactly for its registered streams, whether a broadcast cuts a stream
\* off, its handler leaves, or both, in either order (sse.go removeClient and subscribe).
THEOREM SessionsPayForStreams ==
    ASSUME ReplaySize \in Nat \ {0}, MaxStreams \in Nat
    PROVE  Spec => []SlotsAccounted
<1>1. Init => Sound /\ Charges
    <2> SUFFICES ASSUME Init PROVE Sound /\ Charges
        OBVIOUS
    <2>1. Sound
        BY InitSound
    <2>2. sessions = [s \in Session |-> 0] /\ Registered = {}
        BY DEF Init, Registered, NoStream
    <2>3. ASSUME NEW s \in Session
          PROVE  sessions[s] = Cardinality({j \in Registered : SessionOf[streams[j].b] = s})
        BY <2>2, NoStreams
    <2> QED BY <2>1, <2>2, <2>3 DEF Charges, SlotsAccounted
<1>2. Sound /\ Charges /\ [Next]_vars => Sound' /\ Charges'
    <2> SUFFICES ASSUME Sound, Charges, [Next]_vars PROVE Sound' /\ Charges'
        OBVIOUS
    <2> QED BY NextCharges, SoundStays
<1>3. Charges => SlotsAccounted
    BY DEF Charges
<1> QED BY <1>1, <1>2, <1>3, PTL DEF Spec
=============================================================================
