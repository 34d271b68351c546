------------------------------ MODULE MCRules ------------------------------
(***************************************************************************)
(* Small instances of Rules.                                               *)
(***************************************************************************)
EXTENDS Rules

CONSTANTS h1, h2, r1

\* One definition waits, the other fires at once.
Debounce == [h \in {h1, h2} |-> IF h = h1 THEN 2 ELSE 0]

Short == [h \in {h1, h2} |-> IF h = h1 THEN 1 ELSE 0]

\* The rules are the same in every configuration.
Same == {[r \in RuleIDs |-> h1]}

\* Rules are edited, removed and put back.
Edits == [RuleIDs -> {h1, h2, None}]
=============================================================================
