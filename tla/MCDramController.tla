-------------------------- MODULE MCDramController --------------------------
(***************************************************************************)
(* Instances of DramController for TLC.  With 2 banks, 1 column and 2 rows *)
(* block 2 and block 4 share bank 0 in different rows and block 3 is in    *)
(* bank 1.                                                                 *)
(***************************************************************************)
EXTENDS DramController
=============================================================================
