---------------------------- MODULE MCScheduler ----------------------------
(***************************************************************************)
(* Small instances of Scheduler.                                           *)
(***************************************************************************)
EXTENDS Scheduler, TLC

CONSTANTS h1, a1, a2, v1

Runnable(a, v) == [hash |-> h1, auth |-> a, view |-> v, mode |-> "run"]
Unapproved == [hash |-> h1, auth |-> None, view |-> v1, mode |-> "disabled"]
Unwired == [hash |-> h1, auth |-> None, view |-> v1, mode |-> "nil"]

\* One runnable definition; two cards that have it share their flights.
Single == {Runnable(a1, v1)}

\* The card's approval changes, or is withdrawn.
Approvals == {Runnable(a1, v1), Runnable(a2, v1), Unapproved}

\* ... or the card has nothing to run.
AllModes == Approvals \cup {Unwired}

Symmetry == Permutations(Procs) \cup Permutations(Auths) \cup Permutations(Cards)
=============================================================================
