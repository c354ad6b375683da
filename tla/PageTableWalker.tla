--------------------------- MODULE PageTableWalker ---------------------------
(***************************************************************************)
(* The page-table walker of ChampSim (pa2/src/page_table_walker.cc): a     *)
(* radix tree of page-table pages that grows with page faults, MMU caches  *)
(* PSCL5..PSCL2 that remember its inner levels, queues of requests from    *)
(* the STLB, and one walk at a time, whose reads go through L2C.           *)
(*                                                                         *)
(* A virtual page is the tuple of its offsets, p[l] at level l.  The tree  *)
(* maps <<l, p[l..Levels]>>, an entry of a page-table page of level l, to  *)
(* next_level_base_addr: the page of level l - 1, or at level 1 the data   *)
(* page.  CR3 is the entry of level Levels + 1.  Frames are numbered in    *)
(* the order they are drawn: the generator draws a free one, and which one *)
(* is a renaming.  Latencies are left out: what is ready may happen.       *)
(***************************************************************************)
EXTENDS Integers, FiniteSets, Sequences

CONSTANTS
  Levels,             \* levels of the radix tree (5)
  Offsets,            \* offsets in a page-table page (0..511)
  Pages,              \* virtual pages the STLB asks for
  DRAM_PAGES,         \* frames of the memory
  PTW_RQ_SIZE, PTW_PQ_SIZE,
  PSCL_SET, PSCL_WAY, \* per level 2..Levels, the size of its MMU cache
  None, Dropped,
  MaxRequests         \* bound: requests of the STLB in a behaviour

ASSUME WalkerAssumption ==
  /\ Levels \in Nat \ {0, 1} /\ Offsets \subseteq Nat
  /\ Pages \subseteq [1 .. Levels -> Offsets]
  /\ DRAM_PAGES \in Nat /\ MaxRequests \in Nat
  /\ PTW_RQ_SIZE \in Nat \ {0} /\ PTW_PQ_SIZE \in Nat \ {0}
  /\ PSCL_SET \in [2 .. Levels -> Nat \ {0}]
  /\ PSCL_WAY \in [2 .. Levels -> Nat \ {0}]
  /\ {None, Dropped} \cap (Nat \cup Pages) = {} /\ None # Dropped

\* Memory holds the pages of a first fault, or page replacement would have
\* no page to take.
ASSUME RoomForOneWalk == DRAM_PAGES > Levels

VARIABLES
  RQ, PQ,             \* requests of demands, and of TLB prefetchers
  MSHR,               \* the walk in progress: a queue of one entry
  PSCL,               \* per level and set, entries from oldest to newest
  tree,               \* the entries of all page-table pages, and CR3
  page_table,         \* the page map: data pages and their frames
  table_pages,        \* the page map: frames of page-table pages, in order
  allocated_pages,    \* frames drawn so far
  major_fault,        \* page replacement has happened
  L2C_RQ_full,        \* L2C: its read queue has no room
  asked,              \* STLB: per page, the type of its request
  answer,             \* STLB: the last return_data call
  copies,             \* per page, the translation the TLBs hold
  requests            \* counter against MaxRequests

walk == <<RQ, PQ, MSHR, PSCL>>
memory == <<tree, page_table, table_pages, allocated_pages, major_fault>>
stlb == <<asked, answer, copies>>
vars == <<walk, memory, L2C_RQ_full, stlb, requests>>

Types == {"LOAD_TRANSLATION", "TRANSLATION_FROM_L1D", "PREFETCH_TRANSLATION"}

ASSUME TypesAssumption == None \notin Types

\* Mutant: the type of the request is not looked at.
AllDroppable == Types

Droppable == {"TRANSLATION_FROM_L1D", "PREFETCH_TRANSLATION"}

-----------------------------------------------------------------------------
(* The radix tree and the MMU caches *)

\* get_index: the part of the address that levels l..Levels translate.
Node(p, l) == <<l, [k \in l .. Levels |-> p[k]]>>
CR3 == <<Levels + 1, <<>>>>

Inner == 2 .. Levels
PSCLSets == UNION {{l} \X (0 .. PSCL_SET[l] - 1) : l \in Inner}
PSCLSet(p, l) == <<l, p[l] % PSCL_SET[l]>>

\* Mutant: the tag is the offset alone.
OffsetHits(p, l) == {i \in DOMAIN PSCL[PSCLSet(p, l)] :
                       PSCL[PSCLSet(p, l)][i].node[2][l] = p[l]}

\* check_hit: the entries of level l cached for p.
Hits(p, l) == {i \in DOMAIN PSCL[PSCLSet(p, l)] :
                 PSCL[PSCLSet(p, l)][i].node = Node(p, l)}

\* Mutants: a set that is full grows; all levels are filled.
FillGrowing(p, levels, entries) ==
  [x \in DOMAIN PSCL |->
     IF x[1] \in levels /\ x = PSCLSet(p, x[1])
     THEN Append(PSCL[x], [node |-> Node(p, x[1]), data |-> entries[Node(p, x[1])]])
     ELSE PSCL[x]]

FillAll(p, levels, entries) ==
  [x \in DOMAIN PSCL |->
     IF x = PSCLSet(p, x[1])
     THEN Append(IF Len(PSCL[x]) < PSCL_WAY[x[1]] THEN PSCL[x]
                                                  ELSE Tail(PSCL[x]),
                 [node |-> Node(p, x[1]), data |-> entries[Node(p, x[1])]])
     ELSE PSCL[x]]

\* fill_mmu_cache, into the caches of the given levels.  A full set gives up
\* its oldest entry: lookups do not touch the order.
fill_mmu_cache(p, levels, entries) ==
  [x \in DOMAIN PSCL |->
     IF x[1] \in levels /\ x = PSCLSet(p, x[1])
     THEN Append(IF Len(PSCL[x]) < PSCL_WAY[x[1]] THEN PSCL[x]
                                                  ELSE Tail(PSCL[x]),
                 [node |-> Node(p, x[1]), data |-> entries[Node(p, x[1])]])
     ELSE PSCL[x]]

\* The levels of the tree where the walk finds no entry.
Missing(p, level) == {l \in level + 1 .. Levels : Node(p, l) \notin DOMAIN tree}

\* The order of page_table, a map from virtual page numbers.
Lower(p, q) == \E l \in 1 .. Levels :
                 p[l] < q[l] /\ \A k \in l + 1 .. Levels : p[k] = q[k]

\* The n-th page va_to_pa_ptw takes a frame from: data pages first, since
\* page-table pages have the highest virtual addresses.
Victim(n) ==
  CHOOSE v \in DOMAIN page_table :
    Cardinality({u \in DOMAIN page_table : Lower(u, v)}) = n - 1
DataPages == Cardinality(DOMAIN page_table)
TakenFrame(n) == IF n <= DataPages THEN page_table[Victim(n)]
                                   ELSE table_pages[n - DataPages]

\* The n-th frame a fault uses: a free one, or once memory is full that of
\* the first page of the map.
Free == DRAM_PAGES - allocated_pages
Draw(n) == IF n <= Free THEN allocated_pages + n ELSE TakenFrame(n - Free)

\* Mutants: the victim stays in the map; pages are taken with frames free.
VictimsStay(n) == {}
VictimsAlways(n) == {Victim(k) : k \in {i \in 1 .. n : i <= DataPages}}

Victims(n) == {Victim(k) : k \in {i \in 1 .. n - Free : i <= DataPages}}
TakenTables(n) == IF n - Free > DataPages THEN n - Free - DataPages ELSE 0

\* handle_page_fault: page-table pages for the levels pt_level and below, of
\* level Levels + 1 for CR3, and last a frame for the data page.  The TLBs
\* lose the translations of the pages that give up their frames.
handle_page_fault(p, pt_level) ==
  LET frame(l) == Draw(pt_level - l + 1)
      new == {Node(p, l) : l \in 1 .. (IF pt_level > Levels THEN Levels ELSE pt_level)}
               \cup (IF pt_level > Levels THEN {CR3} ELSE {})
  IN  /\ tree' = [n \in DOMAIN tree \cup new |->
                    IF n \in new THEN frame(n[1]) ELSE tree[n]]
      /\ page_table' = [q \in (DOMAIN page_table \ Victims(pt_level)) \cup {p} |->
                          IF q = p THEN frame(1) ELSE page_table[q]]
      /\ table_pages' =
           SubSeq(table_pages, TakenTables(pt_level) + 1, Len(table_pages))
             \o [n \in 1 .. pt_level - 1 |-> Draw(n)]
      /\ allocated_pages' =
           allocated_pages + (IF pt_level <= Free THEN pt_level ELSE Free)
      /\ major_fault' = (major_fault \/ pt_level > Free)

-----------------------------------------------------------------------------
(* Answers to the STLB *)

\* return_data of the STLB with the frame of p; the page offset of the data,
\* which is computed with && and is 0 or 1, is shifted out by the STLB.
Return(p, gone) ==
  /\ asked' = [asked EXCEPT ![p] = None]
  /\ answer' = [page |-> p, data |-> tree'[Node(p, 1)]]
  /\ copies' = [q \in Pages |-> IF q = p THEN tree'[Node(p, 1)]
                                ELSE IF q \in gone THEN None ELSE copies[q]]

ReturnDropped(p) ==
  /\ asked' = [asked EXCEPT ![p] = None]
  /\ answer' = [page |-> p, data |-> Dropped]
  /\ UNCHANGED copies

-----------------------------------------------------------------------------
(* operate: the walk in progress *)

Returned == MSHR # <<>> /\ MSHR[1].returned = "COMPLETED"

\* An entry is missing: a prefetch is dropped.
DropPrefetch ==
  /\ Returned
  /\ Missing(MSHR[1].page, MSHR[1].level) # {}
  /\ MSHR[1].type \in Droppable
  /\ MSHR' = <<>>
  /\ ReturnDropped(MSHR[1].page)
  /\ UNCHANGED <<RQ, PQ, PSCL, memory, L2C_RQ_full, requests>>

\* An entry is missing: a demand faults, and its walk is over.
PageFault ==
  /\ Returned
  /\ MSHR[1].type \notin Droppable
  /\ LET e == MSHR[1]
     IN  \E l \in Missing(e.page, e.level) :
           /\ \A k \in Missing(e.page, e.level) : k <= l
           /\ handle_page_fault(e.page, l)
           /\ PSCL' = fill_mmu_cache(e.page, 2 .. e.init, tree')
           /\ MSHR' = <<>>
           /\ Return(e.page, Victims(l))
  /\ UNCHANGED <<RQ, PQ, L2C_RQ_full, requests>>

\* The leaf has been read.
FinishWalk ==
  /\ Returned
  /\ LET e == MSHR[1]
     IN  /\ e.level = 0
         /\ Missing(e.page, 0) = {}
         /\ PSCL' = fill_mmu_cache(e.page, 2 .. e.init, tree)
         /\ MSHR' = <<>>
         /\ UNCHANGED memory
         /\ Return(e.page, {})
  /\ UNCHANGED <<RQ, PQ, L2C_RQ_full, requests>>

\* The next level is read once the read queue of L2C has room.
NextLevel ==
  /\ Returned
  /\ ~L2C_RQ_full
  /\ LET e == MSHR[1]
     IN  /\ e.level > 0
         /\ Missing(e.page, e.level) = {}
         /\ MSHR' = <<[e EXCEPT !.returned = "INFLIGHT",
                                !.base = tree[Node(e.page, e.level + 1)],
                                !.offset = e.page[e.level]]>>
  /\ UNCHANGED <<RQ, PQ, PSCL, memory, L2C_RQ_full, stlb, requests>>

-----------------------------------------------------------------------------
(* operate: the next request *)

\* A walk begins below the lowest level that is cached.  A prefetch whose
\* PSCL5 entry hits takes its offset from the read queue, which is empty.
Walk(e, source) ==
  LET cached == {l \in Inner : Hits(e.page, l) # {}}
      start == IF cached = {} THEN Levels
               ELSE (CHOOSE l \in cached : \A k \in cached : l <= k) - 1
      found == PSCL[PSCLSet(e.page, start + 1)]
      base == IF cached = {} THEN tree[CR3]
              ELSE found[CHOOSE i \in Hits(e.page, start + 1) : TRUE].data
  IN  [page |-> e.page, type |-> e.type, level |-> start, init |-> start,
       returned |-> "INFLIGHT", base |-> base,
       offset |-> IF source = "PQ" /\ cached # {} /\ start = Levels - 1
                  THEN 0 ELSE e.page[start]]

\* The read queue goes first.
StartWalk(source) ==
  /\ MSHR = <<>> /\ ~L2C_RQ_full
  /\ CR3 \in DOMAIN tree
  /\ \/ source = "RQ" /\ RQ # <<>> /\ RQ' = Tail(RQ) /\ UNCHANGED PQ
        /\ MSHR' = <<Walk(Head(RQ), "RQ")>>
     \/ source = "PQ" /\ RQ = <<>> /\ PQ # <<>> /\ PQ' = Tail(PQ) /\ UNCHANGED RQ
        /\ MSHR' = <<Walk(Head(PQ), "PQ")>>
  /\ UNCHANGED <<PSCL, memory, L2C_RQ_full, stlb, requests>>

\* The first request of all makes the tree and is answered at once, also if
\* it is a prefetch.
FirstWalk(source) ==
  /\ MSHR = <<>> /\ ~L2C_RQ_full
  /\ CR3 \notin DOMAIN tree
  /\ \/ source = "RQ" /\ RQ # <<>> /\ RQ' = Tail(RQ) /\ UNCHANGED PQ
     \/ source = "PQ" /\ RQ = <<>> /\ PQ # <<>> /\ PQ' = Tail(PQ) /\ UNCHANGED RQ
  /\ LET p == Head(IF source = "RQ" THEN RQ ELSE PQ).page
     IN  /\ handle_page_fault(p, Levels + 1)
         /\ PSCL' = fill_mmu_cache(p, Inner, tree')
         /\ Return(p, Victims(Levels + 1))
  /\ UNCHANGED <<MSHR, L2C_RQ_full, requests>>

-----------------------------------------------------------------------------
(* The callers *)

\* add_rq and add_pq: the STLB has just taken an MSHR for the page.
Request(p, t) ==
  /\ requests < MaxRequests /\ requests' = requests + 1
  /\ asked[p] = None /\ asked' = [asked EXCEPT ![p] = t]
  /\ IF t = "PREFETCH_TRANSLATION"
     THEN /\ Len(PQ) < PTW_PQ_SIZE /\ UNCHANGED RQ
          /\ PQ' = Append(PQ, [page |-> p, type |-> t])
     ELSE /\ Len(RQ) < PTW_RQ_SIZE /\ UNCHANGED PQ
          /\ RQ' = Append(RQ, [page |-> p, type |-> t])
  /\ UNCHANGED <<MSHR, PSCL, memory, L2C_RQ_full, answer, copies>>

\* Mutant: the level is not counted down.
ReturnSameLevel ==
  /\ MSHR # <<>> /\ MSHR[1].returned = "INFLIGHT"
  /\ MSHR' = <<[MSHR[1] EXCEPT !.returned = "COMPLETED"]>>
  /\ UNCHANGED <<RQ, PQ, PSCL, memory, L2C_RQ_full, stlb, requests>>

\* return_data: L2C has the entry of the page-table page.
return_data ==
  /\ MSHR # <<>> /\ MSHR[1].returned = "INFLIGHT"
  /\ MSHR' = <<[MSHR[1] EXCEPT !.returned = "COMPLETED", !.level = @ - 1]>>
  /\ UNCHANGED <<RQ, PQ, PSCL, memory, L2C_RQ_full, stlb, requests>>

\* Other readers fill the read queue of L2C, and L2C empties it.
L2CQueueChanges ==
  /\ L2C_RQ_full' = ~L2C_RQ_full
  /\ UNCHANGED <<walk, memory, stlb, requests>>

-----------------------------------------------------------------------------

Init ==
  /\ RQ = <<>> /\ PQ = <<>> /\ MSHR = <<>>
  /\ PSCL = [x \in PSCLSets |-> <<>>]
  /\ tree = <<>> /\ page_table = <<>> /\ table_pages = <<>>
  /\ allocated_pages = 0 /\ major_fault = FALSE
  /\ L2C_RQ_full = FALSE
  /\ asked = [p \in Pages |-> None]
  /\ answer = [page |-> None, data |-> None]
  /\ copies = [p \in Pages |-> None]
  /\ requests = 0

operate ==
  \/ DropPrefetch \/ PageFault \/ FinishWalk \/ NextLevel
  \/ \E source \in {"RQ", "PQ"} : StartWalk(source) \/ FirstWalk(source)

Next == \/ operate \/ return_data \/ L2CQueueChanges
        \/ \E p \in Pages, t \in Types : Request(p, t)

\* The core calls operate every cycle, L2C answers every read, and its read
\* queue, which is as long as the MSHRs of all its readers, is not full for
\* ever whenever the walker looks.
Spec == /\ Init /\ [][Next]_vars
        /\ SF_vars(operate) /\ WF_vars(return_data) /\ WF_vars(L2CQueueChanges)

-----------------------------------------------------------------------------
(* Properties *)

FrameSet == 1 .. DRAM_PAGES
Nodes == {Node(p, l) : p \in Pages, l \in 1 .. Levels} \cup {CR3}
Requests == [page : Pages, type : Types]
PSCLEntries == [node : Nodes, data : FrameSet]
Walks == [page : Pages, type : Types, level : 0 .. Levels, init : 1 .. Levels,
          returned : {"INFLIGHT", "COMPLETED"}, base : FrameSet,
          offset : Offsets \cup {0}]

\* Every variable has its type: the queues keep to their sizes, the walker
\* has one walk at most, and trees and maps hold frames of the memory.
TypeOK ==
  /\ RQ \in Seq(Requests) /\ Len(RQ) <= PTW_RQ_SIZE
  /\ PQ \in Seq(Requests) /\ Len(PQ) <= PTW_PQ_SIZE
  /\ MSHR \in Seq(Walks) /\ Len(MSHR) <= 1
  /\ PSCL \in [PSCLSets -> Seq(PSCLEntries)]
  /\ \A x \in PSCLSets : Len(PSCL[x]) <= PSCL_WAY[x[1]]
  /\ DOMAIN tree \subseteq Nodes /\ tree \in [DOMAIN tree -> FrameSet]
  /\ DOMAIN page_table \subseteq Pages
  /\ page_table \in [DOMAIN page_table -> FrameSet]
  /\ table_pages \in Seq(FrameSet)
  /\ allocated_pages \in 0 .. DRAM_PAGES
  /\ major_fault \in BOOLEAN /\ L2C_RQ_full \in BOOLEAN
  /\ asked \in [Pages -> Types \cup {None}]
  /\ answer \in [page : Pages \cup {None}, data : FrameSet \cup {None, Dropped}]
  /\ copies \in [Pages -> FrameSet \cup {None}]
  /\ requests \in 0 .. MaxRequests

\* Every MMU cache holds what the tree holds, and no entry twice: a walk
\* fills the caches at and above its first level, which it has missed in,
\* and no other walk has run since (fill_mmu_cache, init_translation_level).
MMUCachesCoherent ==
  \A x \in PSCLSets : \A i \in DOMAIN PSCL[x] :
    /\ PSCL[x][i].node \in DOMAIN tree
    /\ PSCL[x][i].data = tree[PSCL[x][i].node]
    /\ \A j \in DOMAIN PSCL[x] : PSCL[x][i].node = PSCL[x][j].node => i = j

\* The page-table page that a walk reads through L2C is the one the tree has
\* for its page at that level, wherever the walk began and whatever other
\* walks have faulted in meanwhile.
ReadsItsTable ==
  MSHR # <<>> /\ MSHR[1].returned = "INFLIGHT" =>
    LET e == MSHR[1]
        table == IF e.level = Levels THEN CR3 ELSE Node(e.page, e.level + 1)
    IN  e.level > 0 /\ table \in DOMAIN tree /\ e.base = tree[table]

\* A walk reads the entry of its own page (page_table_walker.h:32: each level
\* of the address selects the entry of one table).
ReadsItsEntry ==
  MSHR # <<>> /\ MSHR[1].returned = "INFLIGHT" =>
    MSHR[1].offset = MSHR[1].page[MSHR[1].level]

\* No frame has two owners in the page map, also after page replacement; and
\* until then no two entries of the tree lead to one frame.
FramesUnshared ==
  /\ \A p, q \in DOMAIN page_table : page_table[p] = page_table[q] => p = q
  /\ \A i, j \in DOMAIN table_pages : table_pages[i] = table_pages[j] => i = j
  /\ \A p \in DOMAIN page_table, i \in DOMAIN table_pages :
       page_table[p] # table_pages[i]
  /\ ~major_fault => \A m, n \in DOMAIN tree : tree[m] = tree[n] => m = n

\* The page map agrees with every translation the TLBs hold: page replacement
\* invalidates those of the page that loses its frame.
TranslationsCurrent ==
  \A p \in Pages : copies[p] # None =>
                     p \in DOMAIN page_table /\ page_table[p] = copies[p]

\* So it is as long as no page has been replaced.
CurrentUntilReplaced == ~major_fault => TranslationsCurrent

\* The walker is a TranslationPort: a page is given one frame for ever, all
\* its walks lead there, and a dropped page has none.
Port == INSTANCE TranslationPort WITH
  Frames <- FrameSet,
  translation <- [p \in Pages |-> IF Node(p, 1) \in DOMAIN tree
                                 THEN tree[Node(p, 1)] ELSE None]
ImplementsPort == Port!Spec

\* Every request is answered, prefetches included, once requests end.
EveryWalkEnds == \A p \in Pages : asked[p] # None ~> asked[p] = None
=============================================================================
