------------------------------- MODULE Outbox -------------------------------
(***************************************************************************)
(* The notification outbox: the notifications and                          *)
(* notification_channel_state tables (internal/storage/notifications.go)   *)
(* and the dispatcher that drains them (internal/notify/dispatcher.go).    *)
(*                                                                         *)
(* The dispatcher is one goroutine.  Each of its store calls is a          *)
(* transaction and one action; the delivery itself lies between two of     *)
(* them, and the process may end before, between and after them.           *)
(*                                                                         *)
(* Instants are stored as RFC3339Nano text, whose order is that of time    *)
(* except within one second, where trailing zeros are trimmed and "Z"      *)
(* sorts after every digit and the point.  A comparison of two instants    *)
(* therefore has three values: before, after, and Edge, which the database *)
(* may decide either way.  The ticker wakes the dispatcher every second,   *)
(* so Dispatcher.wake only makes it sooner and is left out.                *)
(***************************************************************************)
EXTENDS Integers, Sequences, FiniteSets

CONSTANTS
    Channels,     \* notification channels
    Keys,         \* dedupe keys: channel, rule and event
    ChannelOf,    \* the channel of a key
    Cooldown,     \* the channels whose cooldown is not zero
    PerHour,      \* hourly ceiling of a channel
    MaxAttempts,  \* DispatcherConfig.MaxAttempts (5 in the code)
    StoreFaults,  \* may the database refuse to record an outcome?
    MaxRows,      \* bound: notifications accepted
    MaxStarts     \* bound: times the process starts

ASSUME ChannelAssumption == ChannelOf \in [Keys -> Channels] /\ Cooldown \subseteq Channels

ASSUME LimitsAssumption ==
    /\ PerHour \in Nat \ {0} /\ MaxAttempts \in Nat \ {0}
    /\ MaxRows \in Nat /\ MaxStarts \in Nat \ {0}
    /\ StoreFaults \in BOOLEAN

VARIABLES
    rows,      \* the notifications table, in the order of its ids
    suspended, \* the channels whose suspended_until lies ahead
    channels,  \* Dispatcher.channels
    pc,        \* where the dispatcher is
    item,      \* the row it claimed
    outcome,   \* what the delivery came to
    delivered, \* how often the receiver accepted each row
    doubtful,  \* how often the receiver accepted a row and no record says so
    starts     \* process starts so far

dispatcher == <<pc, item, outcome>>

vars == <<rows, suspended, channels, dispatcher, delivered, doubtful, starts>>

\* How an instant compares with a reference: certainly after it, within its second, before it.
Instants == {"after", "edge", "before"}

(***************************************************************************)
(* due compares next_attempt_at with now, cool created_at with the start   *)
(* of the cooldown, hour created_at with an hour ago.                      *)
(***************************************************************************)
Row == [key : Keys, state : {"pending", "sending", "sent", "abandoned"},
        attempts : 0..(MaxAttempts + MaxStarts),
        due : Instants, cool : Instants, hour : Instants]

Active(row) == row.state \in {"pending", "sending"}

Init ==
    /\ rows = <<>>
    /\ suspended = {}
    /\ channels \in SUBSET Channels
    /\ pc = "reset" /\ item = 0 /\ outcome = "none"
    /\ delivered = <<>> /\ doubtful = <<>>
    /\ starts = 1

Up == pc # "off"
-----------------------------------------------------------------------------
(***************************************************************************)
(* enqueueNotificationTx.                                                  *)
(***************************************************************************)

\* The rows an hourly count is sure to include; those on the edge may be counted as well.
Hourly(ch) == {i \in DOMAIN rows : ChannelOf[rows[i].key] = ch /\ rows[i].hour = "after"}

OnEdge(ch) == {i \in DOMAIN rows : ChannelOf[rows[i].key] = ch /\ rows[i].hour = "edge"}

\* Mutant: a claimed row no longer counts.
DuplicatePending(k) == \E i \in DOMAIN rows : rows[i].key = k /\ rows[i].state = "pending"

\* A row with the key is under way: the partial unique index ignores the insertion.
Duplicate(k) == \E i \in DOMAIN rows : rows[i].key = k /\ Active(rows[i])

\* ... or was certainly created within the cooldown.
Recent(k) == \E i \in DOMAIN rows : rows[i].key = k /\ rows[i].cool = "after"

Fresh(k) == [key |-> k, state |-> "pending", attempts |-> 0,
             due |-> "edge", cool |-> "after", hour |-> "after"]

\* Mutant: one notification more than the ceiling.
AdmittedOneMore(k, counted) ==
    /\ ChannelOf[k] \notin suspended
    /\ ChannelOf[k] \in Cooldown => ~Duplicate(k) /\ ~Recent(k)
    /\ counted <= PerHour

\* The request passes the suspension, the cooldown and the ceiling.
Admitted(k, counted) ==
    /\ ChannelOf[k] \notin suspended
    /\ ChannelOf[k] \in Cooldown => ~Duplicate(k) /\ ~Recent(k)
    /\ counted < PerHour

Enqueue(k) ==
    /\ Up /\ ChannelOf[k] \in channels /\ Len(rows) < MaxRows
    /\ Admitted(k, Cardinality(Hourly(ChannelOf[k])))
    /\ ~Duplicate(k)
    /\ rows' = Append(rows, Fresh(k))
    /\ delivered' = Append(delivered, 0) /\ doubtful' = Append(doubtful, 0)
    /\ UNCHANGED <<suspended, channels, dispatcher, starts>>

\* The ceiling is reached: the channel is suspended for an hour and says so in one event.
Suspend(k) ==
    /\ Up /\ ChannelOf[k] \in channels \ suspended
    /\ ChannelOf[k] \in Cooldown => ~Duplicate(k) /\ ~Recent(k)
    /\ Cardinality(Hourly(ChannelOf[k])) + Cardinality(OnEdge(ChannelOf[k])) >= PerHour
    /\ suspended' = suspended \cup {ChannelOf[k]}
    /\ UNCHANGED <<rows, channels, dispatcher, delivered, doubtful, starts>>
-----------------------------------------------------------------------------
(***************************************************************************)
(* Dispatcher.Run.                                                         *)
(***************************************************************************)

\* Mutant: interrupted claims are left alone.
ResetNothing ==
    /\ pc = "reset"
    /\ pc' = "drain"
    /\ UNCHANGED <<rows, suspended, channels, item, outcome, delivered, doubtful, starts>>

\* Mutant: every row is made pending again.
ResetAll ==
    /\ pc = "reset"
    /\ rows' = [i \in DOMAIN rows |-> [rows[i] EXCEPT !.state = "pending"]]
    /\ pc' = "drain"
    /\ UNCHANGED <<suspended, channels, item, outcome, delivered, doubtful, starts>>

\* ResetSendingNotifications
ResetSending ==
    /\ pc = "reset"
    /\ rows' = [i \in DOMAIN rows |->
                  IF rows[i].state = "sending" THEN [rows[i] EXCEPT !.state = "pending"] ELSE rows[i]]
    /\ pc' = "drain"
    /\ UNCHANGED <<suspended, channels, item, outcome, delivered, doubtful, starts>>

\* Run returns the error and is not called again in this process.
ResetFails ==
    /\ StoreFaults /\ pc = "reset"
    /\ pc' = "stopped"
    /\ UNCHANGED <<rows, suspended, channels, item, outcome, delivered, doubtful, starts>>

Due(i) == rows[i].state = "pending" /\ rows[i].due = "before"
MaybeDue(i) == rows[i].state = "pending" /\ rows[i].due # "after"

\* ClaimNotification takes the due row with the least id.
Claim(i) ==
    /\ pc = "drain" /\ MaybeDue(i)
    /\ \A j \in DOMAIN rows : j < i => ~Due(j)
    /\ rows' = [rows EXCEPT ![i].state = "sending", ![i].attempts = @ + 1]
    /\ pc' = "claimed" /\ item' = i
    /\ UNCHANGED <<suspended, channels, outcome, delivered, doubtful, starts>>

ClaimsNothing ==
    /\ pc = "drain"
    /\ StoreFaults \/ ~\E i \in DOMAIN rows : Due(i)
    /\ pc' = "sleep"
    /\ UNCHANGED <<rows, suspended, channels, item, outcome, delivered, doubtful, starts>>

\* RunOnce looks the channel up; a row of a removed channel is abandoned.
LookUp ==
    /\ pc = "claimed"
    /\ IF ChannelOf[rows[item].key] \in channels
         THEN pc' = "send" /\ outcome' = outcome
         ELSE pc' = "record" /\ outcome' = "permanent"
    /\ UNCHANGED <<rows, suspended, channels, item, delivered, doubtful, starts>>

\* Notifier.Send: the receiver may accept the message and its answer may be lost.
Send(accepted, o) ==
    /\ pc = "send"
    /\ o = "ok" => accepted
    /\ o = "permanent" => ~accepted
    /\ delivered' = IF accepted THEN [delivered EXCEPT ![item] = @ + 1] ELSE delivered
    /\ doubtful' = IF accepted /\ o # "ok" THEN [doubtful EXCEPT ![item] = @ + 1] ELSE doubtful
    /\ outcome' = o
    /\ pc' = "record"
    /\ UNCHANGED <<rows, suspended, channels, item, starts>>

Final == [ok |-> "sent", permanent |-> "abandoned"]

\* Mutant: a failed attempt is never the last one.
RecordedForEver(row) ==
    IF outcome \in DOMAIN Final THEN [row EXCEPT !.state = Final[outcome], !.due = "before"]
    ELSE [row EXCEPT !.state = "pending", !.due = "after"]

\* CompleteNotification, or FailNotification with the backoff; a NULL next_attempt_at is due.
Recorded(row) ==
    IF outcome \in DOMAIN Final THEN [row EXCEPT !.state = Final[outcome], !.due = "before"]
    ELSE IF row.attempts >= MaxAttempts THEN [row EXCEPT !.state = "abandoned", !.due = "before"]
    ELSE [row EXCEPT !.state = "pending", !.due = "after"]

Record ==
    /\ pc = "record"
    /\ rows' = [rows EXCEPT ![item] = Recorded(rows[item])]
    /\ pc' = "drain" /\ item' = 0 /\ outcome' = "none"
    /\ UNCHANGED <<suspended, channels, delivered, doubtful, starts>>

\* An answer that was received but will never be recorded.
Forgotten == IF outcome = "ok" THEN [doubtful EXCEPT ![item] = @ + 1] ELSE doubtful

\* The error is logged; the row stays "sending".
RecordFails ==
    /\ StoreFaults /\ pc = "record"
    /\ doubtful' = Forgotten
    /\ pc' = "sleep" /\ item' = 0 /\ outcome' = "none"
    /\ UNCHANGED <<rows, suspended, channels, delivered, starts>>

WakesUp ==
    /\ pc = "sleep"
    /\ pc' = "drain"
    /\ UNCHANGED <<rows, suspended, channels, item, outcome, delivered, doubtful, starts>>
-----------------------------------------------------------------------------
\* Dispatcher.Apply: a reload replaces the channels.
Apply(chs) ==
    /\ Up /\ channels' = chs /\ chs # channels
    /\ UNCHANGED <<rows, suspended, dispatcher, delivered, doubtful, starts>>

\* The process ends: a crash, or a shutdown whose cancelled context fails every further call.
Stop ==
    /\ Up
    /\ pc' = "off" /\ item' = 0 /\ outcome' = "none"
    /\ doubtful' = Forgotten
    /\ UNCHANGED <<rows, suspended, channels, delivered, starts>>

Start(chs) ==
    /\ pc = "off" /\ starts < MaxStarts
    /\ starts' = starts + 1
    /\ channels' = chs
    /\ pc' = "reset"
    /\ UNCHANGED <<rows, suspended, item, outcome, delivered, doubtful>>

(***************************************************************************)
(* Time passes.                                                            *)
(***************************************************************************)
Later(x) == IF x = "after" THEN "edge" ELSE "before"

BackoffPasses(i) ==
    /\ rows[i].state = "pending" /\ rows[i].due # "before"
    /\ rows' = [rows EXCEPT ![i].due = Later(@)]
    /\ UNCHANGED <<suspended, channels, dispatcher, delivered, doubtful, starts>>

CooldownPasses(i) ==
    /\ rows[i].cool # "before" /\ ChannelOf[rows[i].key] \in Cooldown
    /\ rows' = [rows EXCEPT ![i].cool = Later(@)]
    /\ UNCHANGED <<suspended, channels, dispatcher, delivered, doubtful, starts>>

HourPasses(i) ==
    /\ rows[i].hour # "before"
    /\ rows' = [rows EXCEPT ![i].hour = Later(@)]
    /\ UNCHANGED <<suspended, channels, dispatcher, delivered, doubtful, starts>>

SuspensionPasses(ch) ==
    /\ ch \in suspended
    /\ suspended' = suspended \ {ch}
    /\ UNCHANGED <<rows, channels, dispatcher, delivered, doubtful, starts>>

Sending ==
    \E accepted \in BOOLEAN, o \in {"ok", "temporary", "permanent"} : Send(accepted, o)

Dispatch ==
    \/ ResetSending \/ ResetFails
    \/ \E i \in DOMAIN rows : Claim(i)
    \/ ClaimsNothing \/ LookUp \/ Sending \/ Record \/ RecordFails \/ WakesUp

Next ==
    \/ \E k \in Keys : Enqueue(k) \/ Suspend(k)
    \/ Dispatch
    \/ \E chs \in SUBSET Channels : Apply(chs) \/ Start(chs)
    \/ Stop
    \/ \E i \in DOMAIN rows : BackoffPasses(i) \/ CooldownPasses(i) \/ HourPasses(i)
    \/ \E ch \in Channels : SuspensionPasses(ch)

Spec == Init /\ [][Next]_vars

(***************************************************************************)
(* The dispatcher's goroutine keeps running, backoffs pass, and a process  *)
(* that ended is started again while the bound allows.                     *)
(***************************************************************************)
FairSpec ==
    /\ Spec
    /\ WF_vars(Dispatch)
    /\ \A i \in 1..MaxRows : WF_vars(i \in DOMAIN rows /\ BackoffPasses(i))
    /\ WF_vars(\E chs \in SUBSET Channels : Start(chs))
-----------------------------------------------------------------------------
(***************************************************************************)
(* Properties.                                                             *)
(***************************************************************************)

\* Every variable has its type; attempts stays in the bound that MaxAttempts and the number of
\* starts give it (ClaimNotification, FailNotification).
TypeOK ==
    /\ rows \in Seq(Row) /\ Len(rows) <= MaxRows
    /\ suspended \subseteq Channels
    /\ channels \subseteq Channels
    /\ pc \in {"off", "reset", "stopped", "drain", "claimed", "send", "record", "sleep"}
    /\ item \in 0..Len(rows)
    /\ outcome \in {"none", "ok", "temporary", "permanent"}
    /\ delivered \in Seq(Nat) /\ Len(delivered) = Len(rows)
    /\ doubtful \in Seq(Nat) /\ Len(doubtful) = Len(rows)
    /\ starts \in 1..MaxStarts

\* Two alerts for the same channel, rule and event are never under way at once, whatever crashes
\* reset claims in between: the partial unique index and INSERT OR IGNORE.
OneUnderWay ==
    \A i, j \in DOMAIN rows :
        (Active(rows[i]) /\ Active(rows[j]) /\ rows[i].key = rows[j].key) => i = j

\* A channel is never given more than PerHour notifications within an hour, delivered or not, and
\* whatever order the texts on the edge of the hour have.
Ceiling == \A ch \in Channels : Cardinality(Hourly(ch)) <= PerHour

\* The dispatcher works on a row only while it holds it claimed, and has an answer only of that row.
HoldsItsRow ==
    /\ (item # 0) <=> (pc \in {"claimed", "send", "record"})
    /\ item # 0 => rows[item].state = "sending"
    /\ (outcome # "none") <=> (pc = "record")
    /\ (outcome = "ok") => delivered[item] > 0

\* attempts counts claims, and a claim that an end of the process interrupted is repeated beyond
\* MaxAttempts: once for every start after the first.
RetriesBounded ==
    \A i \in DOMAIN rows :
        /\ rows[i].attempts < MaxAttempts + starts
        /\ (rows[i].state = "pending" \/ (rows[i].state = "sending" /\ pc = "reset"))
              => rows[i].attempts < MaxAttempts + starts - 1

\* That the receiver accepted the row is on record, or in the dispatcher's hands.
Known(i) == rows[i].state = "sent" \/ (item = i /\ outcome = "ok")

\* The receiver sees a notification again only when no record was made of an earlier acceptance (a
\* crash, a shutdown, a failed CompleteNotification, a lost response), and "sent" says that it has
\* accepted it once more than that.
RepeatsExplained ==
    \A i \in DOMAIN rows : delivered[i] = IF Known(i) THEN doubtful[i] + 1 ELSE doubtful[i]

\* Attempts and deliveries beyond the promised ones have an explanation: RetriesBounded and
\* RepeatsExplained.
RetriesExplained == RetriesBounded /\ RepeatsExplained

\* The inductive invariant: OneUnderWay, Ceiling, RetriesBounded and RepeatsExplained hold through
\* every order of claims, deliveries, records, failures and ends of the process.
Inv ==
    TypeOK /\ HoldsItsRow /\ OneUnderWay /\ Ceiling /\ RetriesBounded /\ RepeatsExplained

\* What a rule's author may rely on; claims and retries are hidden in "open".
Promise == INSTANCE Delivery
    WITH message <- [i \in DOMAIN rows |-> IF Active(rows[i]) THEN "open" ELSE rows[i].state]

\* The outbox keeps the contract of Delivery: an accepted alert stays open until the receiver took
\* it or it is abandoned, through crashes and resets, and is not delivered afterwards.
PromiseKept == Promise!Spec

\* Every accepted notification is eventually delivered or given up, as long as the process is
\* started again after each end.
Drains ==
    \A i \in 1..MaxRows :
        (i \in DOMAIN rows) ~> (i \in DOMAIN rows /\ ~Active(rows[i])) \/ (pc = "off" /\ starts = MaxStarts)
=============================================================================
