--------------------------- MODULE TranslationPort ---------------------------
(***************************************************************************)
(* What the page-table walker promises the STLB (add_rq, add_pq and        *)
(* return_data in pa2/src/page_table_walker.cc): every request is answered *)
(* once, a page is given a frame at most once, every answer is the frame   *)
(* of the page, and only the request of a prefetch may be dropped.  Walks, *)
(* page-table pages, MMU caches and the reads through L2C do not appear.   *)
(***************************************************************************)
CONSTANTS Pages,      \* the virtual pages
          Frames,     \* the physical pages
          None,       \* no request; no translation held
          Dropped     \* the answer UINT64_MAX: no translation

\* The requests of demands, and of prefetches into L1D or L1I and into TLBs.
Types == {"LOAD_TRANSLATION", "TRANSLATION_FROM_L1D", "PREFETCH_TRANSLATION"}
Droppable == Types \ {"LOAD_TRANSLATION"}

VARIABLES asked,        \* per page, the type of the outstanding request
          translation,  \* per page, the frame it has been given
          answer        \* the last answer: its page and its data

vars == <<asked, translation, answer>>

Init == /\ asked = [p \in Pages |-> None]
        /\ translation = [p \in Pages |-> None]
        /\ answer = [page |-> None, data |-> None]

\* The MSHRs of the STLB keep it from asking twice.
Ask(p, t) == /\ asked[p] = None
             /\ asked' = [asked EXCEPT ![p] = t]
             /\ UNCHANGED <<translation, answer>>

Translate(p, f) == /\ asked[p] # None
                   /\ translation[p] \in {None, f}
                   /\ translation' = [translation EXCEPT ![p] = f]
                   /\ asked' = [asked EXCEPT ![p] = None]
                   /\ answer' = [page |-> p, data |-> f]

Drop(p) == /\ asked[p] \in Droppable
           /\ translation[p] = None
           /\ asked' = [asked EXCEPT ![p] = None]
           /\ answer' = [page |-> p, data |-> Dropped]
           /\ UNCHANGED translation

Next == \E p \in Pages : \/ \E t \in Types : Ask(p, t)
                         \/ \E f \in Frames : Translate(p, f)
                         \/ Drop(p)

Spec == Init /\ [][Next]_vars
=============================================================================
