------------------------- MODULE MCPageTableWalker -------------------------
(***************************************************************************)
(* Instances of PageTableWalker for TLC: three levels, pages that share    *)
(* two, one or none of them, MMU caches of one or two entries, and memory  *)
(* that fills up before every page has a frame.                            *)
(***************************************************************************)
EXTENDS PageTableWalker

\* The pages 0, 1, 2 and 4, and 0 alone at the top.
FourPages == {<<0, 0, 0>>, <<1, 0, 0>>, <<0, 1, 0>>, <<0, 0, 1>>}

Sets == [l \in 2 .. Levels |-> 1]
Ways == [l \in 2 .. Levels |-> IF l = 2 THEN 2 ELSE 1]
=============================================================================
