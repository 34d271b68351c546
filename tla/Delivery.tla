------------------------------ MODULE Delivery ------------------------------
(***************************************************************************)
(* What a notification outbox promises: a message that was accepted stays  *)
(* open until it is known to have been delivered or is given up, may be    *)
(* delivered several times while it is open, and never afterwards.         *)
(***************************************************************************)
EXTENDS Naturals, Sequences

VARIABLES
    message,   \* "open", "sent" or "abandoned", in the order of acceptance
    delivered  \* how often the receiver accepted each of them

vars == <<message, delivered>>

Init == message = <<>> /\ delivered = <<>>

Accept ==
    /\ message' = Append(message, "open")
    /\ delivered' = Append(delivered, 0)

Deliver(i) ==
    /\ message[i] = "open"
    /\ delivered' = [delivered EXCEPT ![i] = @ + 1]
    /\ message' = message

Close(i) ==
    /\ message[i] = "open" /\ delivered[i] > 0
    /\ message' = [message EXCEPT ![i] = "sent"]
    /\ delivered' = delivered

GiveUp(i) ==
    /\ message[i] = "open"
    /\ message' = [message EXCEPT ![i] = "abandoned"]
    /\ delivered' = delivered

Next == Accept \/ \E i \in DOMAIN message : Deliver(i) \/ Close(i) \/ GiveUp(i)

Spec == Init /\ [][Next]_vars
=============================================================================
