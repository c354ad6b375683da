----------------------------- MODULE MCFastSet -----------------------------
(***************************************************************************)
(* An instance of FastSet for TLC: two sets whose arrays hold up to four   *)
(* elements, searched in halves from two on, and words of two bits.        *)
(***************************************************************************)
EXTENDS FastSet
=============================================================================
