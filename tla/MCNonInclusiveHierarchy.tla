---------------------- MODULE MCNonInclusiveHierarchy ----------------------
(***************************************************************************)
(* An instance of NonInclusiveHierarchy for TLC: one frame in L1I, L1D and *)
(* LLC, two in L2C, three blocks of data that compete for them and a block *)
(* of code.                                                                *)
(***************************************************************************)
EXTENDS NonInclusiveHierarchy
=============================================================================
