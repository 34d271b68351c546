------------------------------- MODULE Input --------------------------------
(***************************************************************************)
(* The variable of the modules that only compute.  They are one step long: *)
(* the step picks an input, and the invariants are about what the code     *)
(* computes from it.                                                       *)
(***************************************************************************)
VARIABLE input

InputInit == input = [what |-> "none"]
=============================================================================
