------------------------------ MODULE MCOutbox ------------------------------
(***************************************************************************)
(* Small instances of Outbox.                                              *)
(***************************************************************************)
EXTENDS Outbox, TLC

CONSTANTS c1, k1, k2

\* Two alerts of one channel.
OneChannel == [k \in {k1, k2} |-> c1]

Symmetry == Permutations(Keys)
=============================================================================
