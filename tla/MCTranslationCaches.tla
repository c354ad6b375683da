------------------------ MODULE MCTranslationCaches ------------------------
(***************************************************************************)
(* Instances of TranslationCaches for TLC: two or three pages, TLBs of one *)
(* entry, and queues of one or two.                                        *)
(***************************************************************************)
EXTENDS TranslationCaches
=============================================================================
