---------------------------- MODULE OutboxProofs ----------------------------
(***************************************************************************)
(* Inv of Outbox is inductive, and Outbox implements Delivery, for all     *)
(* values of the constants.                                                *)
(***************************************************************************)
EXTENDS Outbox, SequenceTheorems, FiniteSetTheorems, TLAPS

USE ChannelAssumption, LimitsAssumption DEF dispatcher

\* What the type invariant says of the three sequences, position by position.
LEMMA Positions ==
    ASSUME TypeOK
    PROVE  /\ Len(rows) \in Nat
           /\ DOMAIN rows = 1..Len(rows) /\ DOMAIN delivered = 1..Len(rows) /\ DOMAIN doubtful = 1..Len(rows)
           /\ \A i \in 1..Len(rows) : rows[i] \in Row /\ delivered[i] \in Nat /\ doubtful[i] \in Nat
  BY LenProperties, ElementOfSeq DEF TypeOK

LEMMA InitInv ==
    ASSUME Init
    PROVE  Inv
  <1>1. TypeOK
    BY EmptySeq DEF Init, TypeOK
  <1>2. DOMAIN rows = {}
    BY DEF Init
  <1>3. Ceiling
    BY <1>2, FS_EmptySet, \A ch : Hourly(ch) = {} DEF Ceiling, Hourly
  <1> QED
    BY <1>1, <1>2, <1>3 DEF Init, Inv, HoldsItsRow, OneUnderWay, RetriesBounded, RepeatsExplained

LEMMA HourlyFinite ==
    ASSUME TypeOK, NEW ch
    PROVE  IsFiniteSet(Hourly(ch))
  <1>1. Hourly(ch) \in SUBSET (1..Len(rows)) /\ Len(rows) \in Nat
    BY Positions DEF Hourly
  <1>2. IsFiniteSet(1..Len(rows))
    BY <1>1, FS_Interval
  <1> QED
    BY <1>1, <1>2, FS_Subset

\* Fewer rows within the hour, or as many, keep the ceiling.
LEMMA CeilingKept ==
    ASSUME TypeOK, Ceiling, \A ch \in Channels : Hourly(ch)' \subseteq Hourly(ch)
    PROVE  Ceiling'
  <1> SUFFICES ASSUME NEW ch \in Channels PROVE Cardinality(Hourly(ch)') <= PerHour
    BY DEF Ceiling
  <1>1. IsFiniteSet(Hourly(ch))
    BY HourlyFinite
  <1>2. Cardinality(Hourly(ch)') <= Cardinality(Hourly(ch))
    BY <1>1, FS_Subset, Hourly(ch)' \in SUBSET Hourly(ch)
  <1>3. Cardinality(Hourly(ch)) \in Nat /\ Cardinality(Hourly(ch)') \in Nat
    BY <1>1, FS_Subset, FS_CardinalityType, Hourly(ch)' \in SUBSET Hourly(ch)
  <1>4. Cardinality(Hourly(ch)) <= PerHour
    BY DEF Ceiling
  <1> QED
    BY <1>2, <1>3, <1>4

\* A step that rewrites rows in place, gives none another key, and makes none active or recent.
LEMMA Rewritten ==
    ASSUME Inv, rows' \in [1..Len(rows) -> Row],
           \A j \in 1..Len(rows) :
               /\ rows'[j].key = rows[j].key
               /\ Active(rows[j])' => Active(rows[j])
               /\ rows'[j].hour = "after" => rows[j].hour = "after"
    PROVE  /\ rows' \in Seq(Row) /\ Len(rows') = Len(rows) /\ DOMAIN rows' = 1..Len(rows)
           /\ OneUnderWay' /\ Ceiling'
  <1>1. TypeOK /\ Len(rows) \in Nat /\ DOMAIN rows = 1..Len(rows)
    BY Positions DEF Inv
  <1>2. rows' \in Seq(Row) /\ Len(rows') = Len(rows) /\ DOMAIN rows' = 1..Len(rows)
    BY <1>1
  <1>3. OneUnderWay'
    BY <1>1, <1>2 DEF Inv, OneUnderWay
  <1>4. Ceiling'
    BY <1>1, <1>2, CeilingKept DEF Inv, Hourly
  <1> QED
    BY <1>2, <1>3, <1>4

LEMMA Counted ==
    ASSUME NEW s \in Seq(Nat), NEW i \in 1..Len(s)
    PROVE  /\ [s EXCEPT ![i] = @ + 1] \in Seq(Nat)
           /\ Len([s EXCEPT ![i] = @ + 1]) = Len(s)
           /\ \A j \in 1..Len(s) : [s EXCEPT ![i] = @ + 1][j] = IF j = i THEN s[i] + 1 ELSE s[j]
  <1>1. s[i] + 1 \in Nat
    BY ElementOfSeq
  <1> QED
    BY <1>1, ExceptSeq
-----------------------------------------------------------------------------
(***************************************************************************)
(* One lemma per action, or per kind of action.                            *)
(***************************************************************************)

LEMMA EnqueueInv ==
    ASSUME Inv, NEW k \in Keys, Enqueue(k)
    PROVE  Inv'
  <1> DEFINE n == Len(rows)
  <1>1. /\ n \in Nat /\ n < MaxRows /\ Fresh(k) \in Row
        /\ DOMAIN rows = 1..n /\ \A i \in 1..n : rows[i] \in Row
        /\ rows \in Seq(Row) /\ delivered \in Seq(Nat) /\ doubtful \in Seq(Nat)
        /\ Len(delivered) = n /\ Len(doubtful) = n
    <2>1. n < MaxRows /\ Fresh(k) \in Row
      BY LimitsAssumption DEF Enqueue, Fresh, Row, Instants
    <2> QED
      BY <2>1, Positions DEF Inv, TypeOK
  <1>2. /\ rows' \in Seq(Row) /\ Len(rows') = n + 1 /\ DOMAIN rows' = 1..(n + 1)
        /\ \A i \in 1..n : rows'[i] = rows[i]
        /\ rows'[n + 1] = Fresh(k)
    BY <1>1, AppendProperties, LenProperties DEF Enqueue
  <1>3. /\ delivered' \in Seq(Nat) /\ Len(delivered') = n + 1
        /\ doubtful' \in Seq(Nat) /\ Len(doubtful') = n + 1
        /\ \A i \in 1..n : delivered'[i] = delivered[i] /\ doubtful'[i] = doubtful[i]
        /\ delivered'[n + 1] = 0 /\ doubtful'[n + 1] = 0
    BY <1>1, AppendProperties DEF Enqueue
  <1>4. UNCHANGED <<suspended, channels, pc, item, outcome, starts>>
    BY DEF Enqueue
  <1>5. TypeOK'
    BY <1>1, <1>2, <1>3, <1>4 DEF Inv, TypeOK
  <1>6. HoldsItsRow'
    <2>1. item # 0 => item \in 1..n
      BY <1>1 DEF Inv, TypeOK
    <2> QED
      BY <1>2, <1>3, <1>4, <2>1 DEF Inv, HoldsItsRow
  <1>7. OneUnderWay'
    BY <1>1, <1>2 DEF Inv, OneUnderWay, Enqueue, Duplicate, Fresh
  <1>8. RetriesBounded'
    <2>1. starts \in Nat /\ starts > 0
      BY DEF Inv, TypeOK
    <2>2. \A i \in 1..(n + 1) : i \in 1..n \/ (i = n + 1 /\ rows'[i].attempts = 0)
      BY <1>1, <1>2 DEF Fresh
    <2> QED
      BY SMTT(20), <1>1, <1>2, <1>4, <2>1, <2>2 DEF Inv, RetriesBounded
  <1>9. RepeatsExplained'
    <2>1. item # n + 1
      BY <1>1 DEF Inv, TypeOK
    <2>2. ASSUME NEW i, i = n + 1 PROVE ~Known(i)'
      BY <1>2, <1>4, <2>1, <2>2 DEF Known, Fresh
    <2>3. \A i \in 1..n : Known(i)' <=> Known(i)
      BY <1>2, <1>4 DEF Known
    <2>4. \A i \in 1..(n + 1) : i \in 1..n \/ i = n + 1
      BY <1>1
    <2> QED
      BY Zenon, <1>1, <1>2, <1>3, <2>2, <2>3, <2>4 DEF Inv, RepeatsExplained
  <1>10. Ceiling'
    <2> SUFFICES ASSUME NEW ch \in Channels PROVE Cardinality(Hourly(ch)') <= PerHour
      BY DEF Ceiling
    <2>1. IsFiniteSet(Hourly(ch)) /\ Cardinality(Hourly(ch)) \in Nat
      BY HourlyFinite, FS_CardinalityType DEF Inv
    <2>2. CASE ch = ChannelOf[k]
      <3>1. Hourly(ch)' = Hourly(ch) \cup {n + 1} /\ n + 1 \notin Hourly(ch)
        BY <1>1, <1>2, <2>2 DEF Hourly, Fresh
      <3>2. Cardinality(Hourly(ch)') = Cardinality(Hourly(ch)) + 1
        BY Zenon, <3>1, <2>1, FS_AddElement
      <3>3. Cardinality(Hourly(ch)) < PerHour
        BY <2>2 DEF Enqueue, Admitted
      <3> QED
        BY <3>2, <3>3, <2>1
    <2>3. CASE ch # ChannelOf[k]
      <3>1. Hourly(ch)' = Hourly(ch)
        BY <1>1, <1>2, <2>3 DEF Hourly, Fresh
      <3> QED
        BY <3>1 DEF Inv, Ceiling
    <2> QED
      BY <2>2, <2>3
  <1> QED
    BY <1>5, <1>6, <1>7, <1>8, <1>9, <1>10 DEF Inv

\* A step that leaves the table and the row in hand alone.
LEMMA QuietInv ==
    ASSUME Inv, UNCHANGED <<rows, delivered, doubtful, item, outcome>>,
           suspended' \subseteq Channels, channels' \subseteq Channels, starts' \in 1..MaxStarts,
           \/ pc' = pc /\ starts' = starts
           \/ pc \in {"reset", "drain", "sleep"} /\ pc' \in {"stopped", "drain", "sleep"} /\ starts' = starts
           \/ pc = "off" /\ pc' = "reset" /\ starts' = starts + 1
    PROVE  Inv'
  <1>1. DOMAIN rows = 1..Len(rows) /\ \A i \in 1..Len(rows) : rows[i] \in Row
    BY Positions DEF Inv
  <1>2. OneUnderWay' /\ Ceiling'
    BY <1>1, CeilingKept DEF Inv, OneUnderWay, Hourly
  <1>3. TypeOK'
    BY DEF Inv, TypeOK
  <1>4. HoldsItsRow'
    BY DEF Inv, HoldsItsRow
  <1>5. RetriesBounded'
    <2>1. \A i \in 1..Len(rows) : rows[i].attempts \in Int
      BY <1>1 DEF Row
    <2>2. starts \in Int /\ starts' \in Int
      BY DEF Inv, TypeOK
    <2> QED
      BY <1>1, <2>1, <2>2 DEF Inv, RetriesBounded
  <1>6. RepeatsExplained'
    BY DEF Inv, RepeatsExplained, Known
  <1> QED
    BY <1>2, <1>3, <1>4, <1>5, <1>6 DEF Inv

LEMMA QuietStepsInv ==
    ASSUME Inv,
           \/ \E k \in Keys : Suspend(k)
           \/ ResetFails \/ ClaimsNothing \/ WakesUp
           \/ \E chs \in SUBSET Channels : Apply(chs) \/ Start(chs)
           \/ \E ch \in Channels : SuspensionPasses(ch)
    PROVE  Inv'
  <1>1. suspended \subseteq Channels /\ channels \subseteq Channels /\ starts \in 1..MaxStarts
    BY DEF Inv, TypeOK
  <1>2. ASSUME NEW k \in Keys, Suspend(k) PROVE Inv'
    BY <1>1, <1>2, QuietInv DEF Suspend
  <1>3. CASE ResetFails \/ ClaimsNothing \/ WakesUp
    BY <1>1, <1>3, QuietInv DEF ResetFails, ClaimsNothing, WakesUp
  <1>4. ASSUME NEW chs \in SUBSET Channels, Apply(chs) PROVE Inv'
    BY <1>1, <1>4, QuietInv DEF Apply
  <1>5. ASSUME NEW chs \in SUBSET Channels, Start(chs) PROVE Inv'
    BY <1>1, <1>5, QuietInv DEF Start
  <1>6. ASSUME NEW ch \in Channels, SuspensionPasses(ch) PROVE Inv'
    BY <1>1, <1>6, QuietInv DEF SuspensionPasses
  <1> QED
    BY <1>2, <1>3, <1>4, <1>5, <1>6

LEMMA LookUpInv ==
    ASSUME Inv, LookUp
    PROVE  Inv'
  <1>1. UNCHANGED <<rows, delivered, doubtful, item, suspended, channels, starts>>
    BY DEF LookUp
  <1>2. OneUnderWay' /\ Ceiling'
    BY <1>1, CeilingKept DEF Inv, OneUnderWay, Hourly
  <1>3. TypeOK' /\ HoldsItsRow'
    BY <1>1 DEF Inv, TypeOK, HoldsItsRow, LookUp
  <1>4. RetriesBounded'
    BY <1>1 DEF Inv, RetriesBounded, LookUp
  <1>5. \A i : Known(i)' <=> Known(i)
    BY <1>1 DEF Inv, HoldsItsRow, Known, LookUp
  <1>6. RepeatsExplained'
    BY <1>1, <1>5 DEF Inv, RepeatsExplained
  <1> QED
    BY <1>2, <1>3, <1>4, <1>6 DEF Inv

LEMMA SendInv ==
    ASSUME Inv, NEW accepted \in BOOLEAN, NEW o \in {"ok", "temporary", "permanent"}, Send(accepted, o)
    PROVE  Inv'
  <1>1. UNCHANGED <<rows, item, suspended, channels, starts>> /\ outcome' = o /\ pc = "send" /\ pc' = "record"
    BY DEF Send
  <1>2. /\ item \in 1..Len(rows) /\ rows[item].state = "sending" /\ outcome = "none"
        /\ DOMAIN rows = 1..Len(rows)
        /\ delivered \in Seq(Nat) /\ Len(delivered) = Len(rows)
        /\ doubtful \in Seq(Nat) /\ Len(doubtful) = Len(rows)
        /\ \A i \in 1..Len(rows) : delivered[i] \in Nat /\ doubtful[i] \in Nat
    BY <1>1, Positions DEF Inv, TypeOK, HoldsItsRow
  <1>3. /\ delivered' \in Seq(Nat) /\ Len(delivered') = Len(rows)
        /\ \A i \in 1..Len(rows) : delivered'[i] = IF accepted /\ i = item THEN delivered[i] + 1 ELSE delivered[i]
    BY SMTT(30), <1>2, Counted DEF Send
  <1>4. /\ doubtful' \in Seq(Nat) /\ Len(doubtful') = Len(rows)
        /\ \A i \in 1..Len(rows) :
              doubtful'[i] = IF accepted /\ o # "ok" /\ i = item THEN doubtful[i] + 1 ELSE doubtful[i]
    BY SMTT(30), <1>2, Counted DEF Send
  <1>5. OneUnderWay' /\ Ceiling'
    BY <1>1, CeilingKept DEF Inv, OneUnderWay, Hourly
  <1>6. TypeOK'
    BY <1>1, <1>3, <1>4 DEF Inv, TypeOK
  <1>7. HoldsItsRow'
    BY <1>1, <1>2, <1>3 DEF Inv, HoldsItsRow, Send
  <1>8. RetriesBounded'
    BY <1>1 DEF Inv, RetriesBounded
  <1>9. RepeatsExplained'
    <2>1. o = "ok" => accepted
      BY DEF Send
    <2>2. \A i \in 1..Len(rows) : i # item => (Known(i)' <=> Known(i))
      BY <1>1 DEF Known
    <2>3. ~Known(item)
      BY <1>2 DEF Known
    <2>4. \A i \in 1..Len(rows) : i = item => (Known(i)' <=> o = "ok")
      BY <1>1, <1>2 DEF Known
    <2> QED
      BY Zenon, <1>1, <1>2, <1>3, <1>4, <2>1, <2>2, <2>3, <2>4 DEF Inv, RepeatsExplained
  <1> QED
    BY <1>5, <1>6, <1>7, <1>8, <1>9 DEF Inv

\* The row in hand is given up by the dispatcher, and the table is left as it is.
LEMMA ForgetsInv ==
    ASSUME Inv, doubtful' = Forgotten, item' = 0, outcome' = "none",
           pc' \in {"sleep", "off"}, UNCHANGED <<rows, suspended, channels, delivered, starts>>
    PROVE  Inv'
  <1>1. /\ outcome = "ok" => item \in 1..Len(rows) /\ rows[item].state = "sending"
        /\ DOMAIN rows = 1..Len(rows)
        /\ doubtful \in Seq(Nat) /\ Len(doubtful) = Len(rows)
        /\ \A i \in 1..Len(rows) : delivered[i] \in Nat /\ doubtful[i] \in Nat
    BY Positions DEF Inv, TypeOK, HoldsItsRow
  <1>2. /\ doubtful' \in Seq(Nat) /\ Len(doubtful') = Len(rows)
        /\ \A i \in 1..Len(rows) :
              doubtful'[i] = IF outcome = "ok" /\ i = item THEN doubtful[i] + 1 ELSE doubtful[i]
    BY <1>1, Counted DEF Forgotten
  <1>3. OneUnderWay' /\ Ceiling'
    BY CeilingKept DEF Inv, OneUnderWay, Hourly
  <1>4. TypeOK'
    BY <1>2, Positions DEF Inv, TypeOK
  <1>5. HoldsItsRow'
    BY DEF HoldsItsRow
  <1>6. RetriesBounded'
    BY DEF Inv, RetriesBounded
  <1>7. RepeatsExplained'
    <2>1. \A i \in 1..Len(rows) : Known(i)' <=> rows[i].state = "sent"
      BY DEF Known
    <2>2. \A i \in 1..Len(rows) : Known(i) <=> (rows[i].state = "sent" \/ (item = i /\ outcome = "ok"))
      BY DEF Known
    <2> QED
      BY <1>1, <1>2, <2>1, <2>2 DEF Inv, RepeatsExplained
  <1> QED
    BY <1>3, <1>4, <1>5, <1>6, <1>7 DEF Inv

LEMMA ResetSendingInv ==
    ASSUME Inv, ResetSending
    PROVE  Inv'
  <1>1. DOMAIN rows = 1..Len(rows) /\ \A i \in 1..Len(rows) : rows[i] \in Row
    BY Positions DEF Inv
  <1>2. /\ UNCHANGED <<suspended, channels, item, outcome, delivered, doubtful, starts>>
        /\ pc = "reset" /\ pc' = "drain"
    BY DEF ResetSending
  <1>3. rows' \in [1..Len(rows) -> Row]
    BY <1>1 DEF ResetSending, Row
  <1>4. \A i \in 1..Len(rows) :
           /\ rows'[i].key = rows[i].key /\ rows'[i].hour = rows[i].hour
           /\ rows'[i].attempts = rows[i].attempts
           /\ rows'[i].state = IF rows[i].state = "sending" THEN "pending" ELSE rows[i].state
    BY <1>1 DEF ResetSending, Row
  <1>5. /\ rows' \in Seq(Row) /\ Len(rows') = Len(rows) /\ DOMAIN rows' = 1..Len(rows)
        /\ OneUnderWay' /\ Ceiling'
    BY <1>3, <1>4, Rewritten DEF Active
  <1>6. TypeOK'
    BY <1>2, <1>5 DEF Inv, TypeOK
  <1>7. HoldsItsRow'
    BY <1>2 DEF Inv, HoldsItsRow
  <1>8. RetriesBounded'
    BY <1>1, <1>2, <1>4, <1>5 DEF Inv, RetriesBounded
  <1>9. RepeatsExplained'
    BY <1>1, <1>2, <1>4, <1>5 DEF Inv, RepeatsExplained, Known
  <1> QED
    BY <1>5, <1>6, <1>7, <1>8, <1>9 DEF Inv

LEMMA ClaimInv ==
    ASSUME Inv, NEW i \in DOMAIN rows, Claim(i)
    PROVE  Inv'
  <1>1. /\ Len(rows) \in Nat /\ DOMAIN rows = 1..Len(rows) /\ \A j \in 1..Len(rows) : rows[j] \in Row
        /\ starts \in 1..MaxStarts
    BY Positions DEF Inv, TypeOK
  <1>2. /\ UNCHANGED <<suspended, channels, outcome, delivered, doubtful, starts>>
        /\ pc = "drain" /\ pc' = "claimed" /\ item' = i /\ rows[i].state = "pending"
    BY DEF Claim, MaybeDue
  <1>3. rows[i].attempts \in Nat /\ rows[i].attempts < MaxAttempts + starts - 1
    BY <1>1, <1>2 DEF Inv, RetriesBounded, Row
  <1>4. rows' = [rows EXCEPT ![i] = [rows[i] EXCEPT !.state = "sending", !.attempts = @ + 1]]
    BY Zenon, <1>1 DEF Claim
  <1>5. rows[i].attempts + 1 \in 0..(MaxAttempts + MaxStarts)
    BY <1>1, <1>3
  <1>6. rows' \in [1..Len(rows) -> Row]
    BY Zenon, <1>1, <1>4, <1>5 DEF Row
  <1>7. \A j \in 1..Len(rows) :
           /\ rows'[j].key = rows[j].key /\ rows'[j].hour = rows[j].hour
           /\ j # i => rows'[j] = rows[j]
           /\ j = i => rows'[j].state = "sending" /\ rows'[j].attempts = rows[j].attempts + 1
    BY <1>1, <1>4 DEF Row
  <1>8. /\ rows' \in Seq(Row) /\ Len(rows') = Len(rows) /\ DOMAIN rows' = 1..Len(rows)
        /\ OneUnderWay' /\ Ceiling'
    BY <1>2, <1>6, <1>7, Rewritten DEF Active
  <1>9. TypeOK'
    BY <1>1, <1>2, <1>8 DEF Inv, TypeOK
  <1>10. HoldsItsRow'
    BY <1>1, <1>2, <1>7 DEF Inv, HoldsItsRow
  <1>11. RetriesBounded'
    BY <1>1, <1>2, <1>3, <1>7, <1>8 DEF Inv, RetriesBounded
  <1>12. RepeatsExplained'
    <2>1. outcome = "none"
      BY <1>2 DEF Inv, HoldsItsRow
    <2>2. \A j \in 1..Len(rows) : Known(j)' <=> Known(j)
      BY <1>1, <1>2, <1>7, <2>1 DEF Known
    <2> QED
      BY <1>1, <1>2, <1>8, <2>2 DEF Inv, RepeatsExplained
  <1> QED
    BY <1>8, <1>9, <1>10, <1>11, <1>12 DEF Inv

\* What an outcome makes of the row in hand.
LEMMA RecordedRow ==
    ASSUME NEW row \in Row, outcome \in {"ok", "temporary", "permanent"}
    PROVE  /\ Recorded(row) \in Row
           /\ Recorded(row).key = row.key /\ Recorded(row).hour = row.hour
           /\ Recorded(row).attempts = row.attempts
           /\ outcome = "ok" <=> Recorded(row).state = "sent"
           /\ Recorded(row).state \in {"sent", "abandoned", "pending"}
           /\ Recorded(row).state = "pending" => row.attempts < MaxAttempts
  <1>1. DOMAIN Final = {"ok", "permanent"} /\ Final["ok"] = "sent" /\ Final["permanent"] = "abandoned"
    BY DEF Final
  <1>2. CASE outcome \in DOMAIN Final
    BY Zenon, <1>1, <1>2 DEF Recorded, Row, Instants
  <1>3. CASE outcome \notin DOMAIN Final /\ row.attempts >= MaxAttempts
    BY Zenon, <1>1, <1>3 DEF Recorded, Row, Instants
  <1>4. CASE outcome \notin DOMAIN Final /\ ~(row.attempts >= MaxAttempts)
    <2>1. row.attempts < MaxAttempts
      BY <1>4 DEF Row
    <2>2. Recorded(row) = [row EXCEPT !.state = "pending", !.due = "after"]
      BY <1>4 DEF Recorded
    <2> QED
      BY Zenon, <1>1, <1>4, <2>1, <2>2 DEF Row, Instants
  <1> QED
    BY <1>2, <1>3, <1>4

LEMMA RecordInv ==
    ASSUME Inv, Record
    PROVE  Inv'
  <1> DEFINE r == Recorded(rows[item])
  <1>1. /\ Len(rows) \in Nat /\ DOMAIN rows = 1..Len(rows) /\ \A j \in 1..Len(rows) : rows[j] \in Row
        /\ starts \in 1..MaxStarts
    BY Positions DEF Inv, TypeOK
  <1>2. /\ UNCHANGED <<suspended, channels, delivered, doubtful, starts>>
        /\ pc = "record" /\ pc' = "drain" /\ item' = 0 /\ outcome' = "none"
        /\ rows' = [rows EXCEPT ![item] = r]
    BY DEF Record
  <1>3. item \in 1..Len(rows) /\ rows[item].state = "sending" /\ outcome \in {"ok", "temporary", "permanent"}
    BY <1>1, <1>2 DEF Inv, TypeOK, HoldsItsRow
  <1>4. /\ r \in Row /\ r.key = rows[item].key /\ r.hour = rows[item].hour
        /\ r.attempts = rows[item].attempts
        /\ outcome = "ok" <=> r.state = "sent"
        /\ r.state = "pending" => r.attempts < MaxAttempts
        /\ r.state # "sending"
    BY <1>1, <1>3, RecordedRow
  <1> HIDE DEF r
  <1>5. rows' \in [1..Len(rows) -> Row]
    BY Zenon, <1>1, <1>2, <1>3, <1>4
  <1>6. \A j \in 1..Len(rows) : rows'[j] = IF j = item THEN r ELSE rows[j]
    BY <1>1, <1>2, <1>3
  <1>7. /\ rows' \in Seq(Row) /\ Len(rows') = Len(rows) /\ DOMAIN rows' = 1..Len(rows)
        /\ OneUnderWay' /\ Ceiling'
    BY <1>3, <1>4, <1>5, <1>6, Rewritten DEF Active
  <1>8. TypeOK'
    BY <1>1, <1>2, <1>7 DEF Inv, TypeOK
  <1>9. HoldsItsRow'
    BY <1>2 DEF HoldsItsRow
  <1>10. RetriesBounded'
    <2>1. r.attempts \in Int /\ starts \in Int /\ starts >= 1
      BY <1>1, <1>4 DEF Row
    <2>2. \A j \in 1..Len(rows) : j = item => rows'[j].attempts = rows[j].attempts
      BY <1>3, <1>4, <1>6
    <2> QED
      BY <1>1, <1>2, <1>3, <1>4, <1>6, <1>7, <2>1, <2>2 DEF Inv, RetriesBounded
  <1>11. RepeatsExplained'
    <2>1. \A j \in 1..Len(rows) : Known(j)' <=> Known(j)
      BY <1>2, <1>3, <1>4, <1>6 DEF Known
    <2> QED
      BY <1>1, <1>2, <1>7, <2>1 DEF Inv, RepeatsExplained
  <1> QED
    BY <1>7, <1>8, <1>9, <1>10, <1>11 DEF Inv

LEMMA TimePassesInv ==
    ASSUME Inv, NEW i \in DOMAIN rows, BackoffPasses(i) \/ CooldownPasses(i) \/ HourPasses(i)
    PROVE  Inv'
  <1>1. /\ Len(rows) \in Nat /\ DOMAIN rows = 1..Len(rows) /\ \A j \in 1..Len(rows) : rows[j] \in Row
    BY Positions DEF Inv
  <1>2. UNCHANGED <<suspended, channels, pc, item, outcome, delivered, doubtful, starts>>
    BY DEF BackoffPasses, CooldownPasses, HourPasses
  <1>3. \A x : Later(x) \in Instants /\ Later(x) # "after"
    BY DEF Later, Instants
  <1>4. \E r \in Row :
           /\ rows' = [rows EXCEPT ![i] = r]
           /\ r.key = rows[i].key /\ r.state = rows[i].state /\ r.attempts = rows[i].attempts
           /\ r.hour = "after" => rows[i].hour = "after"
    <2>1. CASE BackoffPasses(i)
      <3> [rows[i] EXCEPT !.due = Later(@)] \in Row
        BY <1>1, <1>3 DEF Row
      <3> WITNESS [rows[i] EXCEPT !.due = Later(@)] \in Row
      <3> QED
        BY <1>1, <2>1 DEF BackoffPasses, Row
    <2>2. CASE CooldownPasses(i)
      <3> [rows[i] EXCEPT !.cool = Later(@)] \in Row
        BY <1>1, <1>3 DEF Row
      <3> WITNESS [rows[i] EXCEPT !.cool = Later(@)] \in Row
      <3> QED
        BY <1>1, <2>2 DEF CooldownPasses, Row
    <2>3. CASE HourPasses(i)
      <3> [rows[i] EXCEPT !.hour = Later(@)] \in Row
        BY <1>1, <1>3 DEF Row
      <3> WITNESS [rows[i] EXCEPT !.hour = Later(@)] \in Row
      <3> QED
        BY <1>1, <1>3, <2>3 DEF HourPasses, Row
    <2> QED
      BY <2>1, <2>2, <2>3
  <1>5. rows' \in [1..Len(rows) -> Row]
    BY Zenon, <1>1, <1>4
  <1>6. \A j \in 1..Len(rows) :
           /\ rows'[j].key = rows[j].key /\ rows'[j].state = rows[j].state
           /\ rows'[j].attempts = rows[j].attempts
           /\ rows'[j].hour = "after" => rows[j].hour = "after"
    BY <1>1, <1>4
  <1>7. /\ rows' \in Seq(Row) /\ Len(rows') = Len(rows) /\ DOMAIN rows' = 1..Len(rows)
        /\ OneUnderWay' /\ Ceiling'
    BY <1>5, <1>6, Rewritten DEF Active
  <1>8. TypeOK'
    BY <1>2, <1>7 DEF Inv, TypeOK
  <1>9. HoldsItsRow'
    <2>1. item # 0 => item \in 1..Len(rows)
      BY <1>1 DEF Inv, TypeOK
    <2> QED
      BY <1>2, <1>6, <2>1 DEF Inv, HoldsItsRow
  <1>10. RetriesBounded'
    BY <1>1, <1>2, <1>6, <1>7 DEF Inv, RetriesBounded
  <1>11. RepeatsExplained'
    <2>1. \A j \in 1..Len(rows) : Known(j)' <=> Known(j)
      BY <1>2, <1>6 DEF Known
    <2> QED
      BY <1>1, <1>2, <1>7, <2>1 DEF Inv, RepeatsExplained
  <1> QED
    BY <1>7, <1>8, <1>9, <1>10, <1>11 DEF Inv
-----------------------------------------------------------------------------
LEMMA NextInv ==
    ASSUME Inv, [Next]_vars
    PROVE  Inv'
  <1>1. ASSUME NEW k \in Keys, Enqueue(k) PROVE Inv'
    BY <1>1, EnqueueInv
  <1>2. CASE \/ \E k \in Keys : Suspend(k)
             \/ ResetFails \/ ClaimsNothing \/ WakesUp
             \/ \E chs \in SUBSET Channels : Apply(chs) \/ Start(chs)
             \/ \E ch \in Channels : SuspensionPasses(ch)
    BY <1>2, QuietStepsInv
  <1>3. ASSUME NEW i \in DOMAIN rows, Claim(i) PROVE Inv'
    BY <1>3, ClaimInv
  <1>4. CASE ResetSending \/ LookUp \/ Sending \/ Record
    BY <1>4, ResetSendingInv, LookUpInv, SendInv, RecordInv DEF Sending
  <1>5. CASE RecordFails \/ Stop
    BY <1>5, ForgetsInv DEF RecordFails, Stop
  <1>6. ASSUME NEW i \in DOMAIN rows, BackoffPasses(i) \/ CooldownPasses(i) \/ HourPasses(i) PROVE Inv'
    BY <1>6, TimePassesInv
  <1>7. CASE UNCHANGED vars
    <2>1. suspended \subseteq Channels /\ channels \subseteq Channels /\ starts \in 1..MaxStarts
      BY DEF Inv, TypeOK
    <2> QED
      BY <1>7, <2>1, QuietInv DEF vars
  <1> QED
    BY <1>1, <1>2, <1>3, <1>4, <1>5, <1>6, <1>7 DEF Next, Dispatch

\* The outbox keeps its inductive invariant through every order of requests, claims, deliveries,
\* failures, reloads, crashes and passing time.
THEOREM Invariance == Spec => []Inv
  BY InitInv, NextInv, PTL DEF Spec

\* No two alerts with one dedupe key are under way at once (enqueueNotificationTx), for any number
\* of rows, channels and keys.
THEOREM Limits == Spec => []OneUnderWay
  <1>1. Inv => OneUnderWay
    BY DEF Inv
  <1> QED
    BY <1>1, Invariance, PTL

\* No channel exceeds its hourly ceiling (enqueueNotificationTx), however enqueues, retries and
\* restarts interleave.
THEOREM Ceilings == Spec => []Ceiling
  <1>1. Inv => Ceiling
    BY DEF Inv
  <1> QED
    BY <1>1, Invariance, PTL

\* Attempts beyond MaxAttempts are explained by ends of the process, and repeated deliveries by
\* acceptances that were not recorded (ClaimNotification, RunOnce).
THEOREM Retries == Spec => []RetriesExplained
  <1>1. Inv => RetriesExplained
    BY DEF Inv, RetriesExplained
  <1> QED
    BY <1>1, Invariance, PTL
-----------------------------------------------------------------------------
(***************************************************************************)
(* Outbox implements Delivery.                                             *)
(***************************************************************************)
View(row) == IF Active(row) THEN "open" ELSE row.state

message == [i \in DOMAIN rows |-> IF Active(rows[i]) THEN "open" ELSE rows[i].state]

\* A step that keeps the rows, and what each looks like from outside, is a stutter.
LEMMA Stutters ==
    ASSUME DOMAIN rows' = DOMAIN rows, \A i \in DOMAIN rows : View(rows[i])' = View(rows[i])
    PROVE  message' = message
  BY DEF message, View

LEMMA InPlace ==
    ASSUME Inv, NEW i \in DOMAIN rows, NEW r, rows' = [rows EXCEPT ![i] = r]
    PROVE  /\ DOMAIN rows' = DOMAIN rows
           /\ message' = [message EXCEPT ![i] = IF Active(r) THEN "open" ELSE r.state]
  BY Zenon DEF message, Active

LEMMA EnqueueAccepts ==
    ASSUME Inv, NEW k \in Keys, Enqueue(k)
    PROVE  message' = Append(message, "open")
  <1> DEFINE n == Len(rows)
             S == {"open", "sent", "abandoned"}
  <1>1. /\ n \in Nat /\ DOMAIN rows = 1..n /\ \A i \in 1..n : rows[i] \in Row
        /\ rows \in Seq(Row) /\ Fresh(k) \in Row
    BY Positions DEF Inv, TypeOK, Fresh, Row, Instants
  <1>2. /\ DOMAIN rows' = 1..(n + 1)
        /\ \A i \in 1..n : rows'[i] = rows[i]
        /\ rows'[n + 1] = Fresh(k)
    BY <1>1, AppendProperties, LenProperties DEF Enqueue
  <1>3. message \in [1..n -> S]
    BY <1>1 DEF message, Active, Row
  <1>4. message \in Seq(S) /\ Len(message) = n
    BY <1>1, <1>3
  <1>5. message' \in [1..(n + 1) -> S]
    BY <1>1, <1>2 DEF message, Active, Row, Fresh
  <1>6. \A i \in 1..n : message'[i] = message[i]
    BY <1>1, <1>2 DEF message
  <1>7. message'[n + 1] = "open"
    BY <1>1, <1>2 DEF message, Active, Fresh
  <1> HIDE DEF S
  <1>8. /\ Append(message, "open") \in [1..(n + 1) -> S]
        /\ \A i \in 1..n : Append(message, "open")[i] = message[i]
        /\ Append(message, "open")[n + 1] = "open"
    <2>1. "open" \in S
      BY DEF S
    <2>2. /\ Append(message, "open") \in Seq(S) /\ Len(Append(message, "open")) = n + 1
          /\ \A i \in 1..n : Append(message, "open")[i] = message[i]
          /\ Append(message, "open")[n + 1] = "open"
      BY <1>4, <2>1, AppendProperties
    <2> QED
      BY Zenon, <2>2, LenProperties
  <1>9. \A i \in 1..(n + 1) : i \in 1..n \/ i = n + 1
    BY <1>1
  <1> QED
    BY <1>5, <1>6, <1>7, <1>8, <1>9

\* Every step of the outbox is a step of Delivery, or changes nothing Delivery speaks of.
LEMMA NextPromise ==
    ASSUME Inv, [Next]_vars
    PROVE  [Promise!Next]_(Promise!vars)
  <1> DEFINE
        Same == message' = message /\ delivered' = delivered
        Accepts == message' = Append(message, "open") /\ delivered' = Append(delivered, 0)
        Delivers(i) == message' = message /\ delivered' = [delivered EXCEPT ![i] = @ + 1]
        Closes(i) == message' = [message EXCEPT ![i] = "sent"] /\ delivered' = delivered /\ delivered[i] > 0
        GivesUp(i) == message' = [message EXCEPT ![i] = "abandoned"] /\ delivered' = delivered
        Implemented ==
            \/ Same \/ Accepts
            \/ \E i \in DOMAIN message : message[i] = "open" /\ (Delivers(i) \/ Closes(i) \/ GivesUp(i))
  <1>1. SUFFICES Implemented
    BY Zenon DEF message, Promise!Next, Promise!vars, Promise!Accept, Promise!Deliver, Promise!Close, Promise!GiveUp
  <1>2. /\ DOMAIN rows = 1..Len(rows) /\ DOMAIN message = DOMAIN rows
        /\ \A i \in DOMAIN rows : rows[i] \in Row
    BY Positions DEF Inv, message
  <1>3. ASSUME NEW k \in Keys, Enqueue(k) PROVE Implemented
    BY <1>3, EnqueueAccepts DEF Enqueue
  <1>4. ASSUME UNCHANGED <<rows, delivered>> PROVE Same
    BY <1>4 DEF message
  <1>5. CASE ResetSending
    <2>1. DOMAIN rows' = DOMAIN rows /\ \A i \in DOMAIN rows : View(rows[i])' = View(rows[i])
      BY <1>2, <1>5 DEF ResetSending, View, Active, Row
    <2> QED
      BY <1>5, <2>1, Stutters DEF ResetSending
  <1>6. ASSUME NEW i \in DOMAIN rows,
               Claim(i) \/ BackoffPasses(i) \/ CooldownPasses(i) \/ HourPasses(i)
        PROVE  Same
    <2>1. DOMAIN rows' = DOMAIN rows /\ \A j \in DOMAIN rows : View(rows[j])' = View(rows[j])
      <3>1. CASE Claim(i)
        BY <1>2, <3>1 DEF Claim, MaybeDue, View, Active, Row
      <3>2. CASE BackoffPasses(i)
        BY <1>2, <3>2 DEF BackoffPasses, View, Active, Row
      <3>3. CASE CooldownPasses(i)
        BY <1>2, <3>3 DEF CooldownPasses, View, Active, Row
      <3>4. CASE HourPasses(i)
        BY <1>2, <3>4 DEF HourPasses, View, Active, Row
      <3> QED
        BY <1>6, <3>1, <3>2, <3>3, <3>4
    <2> QED
      BY <1>6, <2>1, Stutters DEF Claim, BackoffPasses, CooldownPasses, HourPasses
  <1>7. pc \in {"send", "record"} => item \in DOMAIN rows /\ message[item] = "open"
    <2>1. pc \in {"send", "record"} => item \in DOMAIN rows /\ rows[item].state = "sending"
      BY <1>2 DEF Inv, TypeOK, HoldsItsRow
    <2> QED
      BY <1>2, <2>1 DEF message, Active
  <1>8. CASE Sending
    <2>1. PICK accepted \in BOOLEAN, o \in {"ok", "temporary", "permanent"} : Send(accepted, o)
      BY <1>8 DEF Sending
    <2>2. message' = message /\ pc = "send"
      BY <2>1 DEF Send, message
    <2>3. delivered' = delivered \/ delivered' = [delivered EXCEPT ![item] = @ + 1]
      BY <2>1 DEF Send
    <2> QED
      BY Zenon, <1>2, <1>7, <2>2, <2>3
  <1>9. CASE Record
    <2> DEFINE r == Recorded(rows[item])
    <2>1. /\ item \in DOMAIN rows /\ message[item] = "open" /\ outcome \in {"ok", "temporary", "permanent"}
          /\ outcome = "ok" => delivered[item] > 0
          /\ rows' = [rows EXCEPT ![item] = r] /\ delivered' = delivered
      BY <1>7, <1>9 DEF Record, Inv, TypeOK, HoldsItsRow
    <2>2. r.state \in {"sent", "abandoned", "pending"} /\ (r.state = "sent" => outcome = "ok")
      BY <1>2, <2>1, RecordedRow
    <2> HIDE DEF r
    <2>3. message' = [message EXCEPT ![item] = IF Active(r) THEN "open" ELSE r.state]
      BY Zenon, <2>1, InPlace
    <2>4. CASE r.state = "pending"
      <3>1. message' = message
        BY <1>2, <2>1, <2>3, <2>4 DEF Active, message
      <3> QED
        BY <2>1, <3>1
    <2>5. CASE r.state = "sent"
      BY Zenon, <1>2, <2>1, <2>2, <2>3, <2>5 DEF Active
    <2>6. CASE r.state = "abandoned"
      BY Zenon, <1>2, <2>1, <2>3, <2>6 DEF Active
    <2> QED
      BY <2>2, <2>4, <2>5, <2>6
  <1>10. \/ \E k \in Keys : Enqueue(k)
         \/ UNCHANGED <<rows, delivered>>
         \/ ResetSending \/ Sending \/ Record
         \/ \E i \in DOMAIN rows : Claim(i) \/ BackoffPasses(i) \/ CooldownPasses(i) \/ HourPasses(i)
    BY DEF vars, Next, Dispatch, Suspend, ResetFails, ClaimsNothing, LookUp, RecordFails, WakesUp,
       Apply, Start, Stop, SuspensionPasses
  <1> QED
    BY <1>3, <1>4, <1>5, <1>6, <1>8, <1>9, <1>10

\* The outbox implements Delivery: nothing that was accepted is lost between its claims, crashes and
\* resets, "sent" is said only of what the receiver took, and nothing closed is delivered again.
THEOREM Refinement == Spec => PromiseKept
  <1>1. Init => Promise!Init
    BY DEF Init, Promise!Init
  <1>2. Inv /\ [Next]_vars => [Promise!Next]_(Promise!vars)
    BY NextPromise
  <1> QED
    BY <1>1, <1>2, Invariance, PTL DEF Spec, PromiseKept, Promise!Spec
=============================================================================
