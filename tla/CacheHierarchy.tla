--------------------------- MODULE CacheHierarchy ---------------------------
(***************************************************************************)
(* The exclusive cache hierarchy of pa2/src/cache.cc: L1I and L1D above a  *)
(* shared L2C above the LLC above memory, and the page-table walker, which *)
(* reads through L2C.  A miss travels down as a packet in the read or the  *)
(* prefetch queue of the next level, an MSHR waits for it at every level   *)
(* it leaves, and the answer travels up through handle_fill.  A block is   *)
(* meant to live at one level only: a level that takes a block invalidates *)
(* it everywhere else, and a level that only passes it on is bypassed.     *)
(*                                                                         *)
(* Each handler is an action on one packet; operate() calls them in a      *)
(* fixed order, but latencies (event_cycle) decide which of them finds a   *)
(* packet that is ready, so here any order may happen.  LRU is abstracted  *)
(* to a choice among the ways.  The queues of the L1s, where requests wait *)
(* for their translation and leave in any order, are the environment: any  *)
(* request may be the one that is ready.  Memory is MemoryPort.            *)
(***************************************************************************)
EXTENDS Integers, FiniteSets, Sequences

CONSTANTS
  Blocks,             \* block addresses of instructions and data
  Code,               \* those that L1I asks for
  TableBlocks,        \* block addresses of page-table entries
  Stored,             \* the data blocks that stores write to
  Prefetchers,        \* the caches that are built with a prefetcher
  L1I_SET, L1I_WAY, L1D_SET, L1D_WAY, L2C_SET, L2C_WAY, LLC_SET, LLC_WAY,
  L1I_MSHR_SIZE, L1D_MSHR_SIZE, L2C_MSHR_SIZE, LLC_MSHR_SIZE, PTW_MSHR_SIZE,
  L2C_RQ_SIZE, L2C_WQ_SIZE, L2C_PQ_SIZE,
  LLC_RQ_SIZE, LLC_WQ_SIZE, LLC_PQ_SIZE,
  DRAM_RQ_SIZE, DRAM_WQ_SIZE,
  MaxRequests,        \* bound: requests and prefetches in a behaviour
  MaxTranslations     \* bound: fills of translation caches in a behaviour

ASSUME HierarchyAssumption ==
  /\ Blocks \subseteq Nat \ {0} /\ TableBlocks \subseteq Nat \ {0}
  /\ Blocks \cap TableBlocks = {} /\ Stored \subseteq Blocks
  /\ Code \subseteq Blocks
  /\ Prefetchers \subseteq {"L1I", "L1D", "L2C"}
  /\ {L1I_SET, L1I_WAY, L1D_SET, L1D_WAY, L2C_SET, L2C_WAY, LLC_SET, LLC_WAY,
      L1I_MSHR_SIZE, L1D_MSHR_SIZE, L2C_MSHR_SIZE, LLC_MSHR_SIZE,
      PTW_MSHR_SIZE, L2C_RQ_SIZE, L2C_WQ_SIZE, L2C_PQ_SIZE, LLC_RQ_SIZE,
      LLC_WQ_SIZE, LLC_PQ_SIZE, DRAM_RQ_SIZE, DRAM_WQ_SIZE} \subseteq Nat \ {0}
  /\ MaxRequests \in Nat /\ MaxTranslations \in Nat

\* The read queues are as long as the MSHRs of everything that reads through
\* them (inc/cache.h:80-107): the callers of add_rq rely on it.
ASSUME QueuesCoverMisses ==
  /\ L1I_MSHR_SIZE + L1D_MSHR_SIZE + PTW_MSHR_SIZE <= L2C_RQ_SIZE
  /\ L2C_MSHR_SIZE <= LLC_RQ_SIZE

VARIABLES
  block,              \* the lines of each cache
  mshr,               \* per requester, the misses it waits for
  rq, wq, pq,         \* queues of L2C and LLC
  rd, wr,             \* the requests memory has accepted (MemoryPort)
  stored,             \* history: blocks written by a store so far
  unfilled,           \* history: blocks with a store waiting for an L1D fill
  issued, translated  \* counters against MaxRequests and MaxTranslations

vars == <<block, mshr, rq, wq, pq, rd, wr, stored, unfilled, issued,
          translated>>

-----------------------------------------------------------------------------
(* Data structures *)

Caches     == {"L1I", "L1D", "L2C", "LLC"}
L1s        == {"L1I", "L1D"}
Shared     == {"L2C", "LLC"}
Requesters == Caches \cup {"PTW"}
Addresses  == Blocks \cup TableBlocks

FILL_L1  == 1
FILL_L2  == 2
FILL_LLC == 4
fill_level(c) == CASE c = "LLC" -> FILL_LLC
                   [] c = "L2C" -> FILL_L2
                   [] OTHER     -> FILL_L1
Lower(c) == IF c = "L2C" THEN "LLC" ELSE "L2C"

MSHR_SIZE(c) == CASE c = "L1I" -> L1I_MSHR_SIZE [] c = "L1D" -> L1D_MSHR_SIZE
                  [] c = "L2C" -> L2C_MSHR_SIZE [] c = "LLC" -> LLC_MSHR_SIZE
                  [] c = "PTW" -> PTW_MSHR_SIZE
NUM_SET(c) == CASE c = "L1I" -> L1I_SET [] c = "L1D" -> L1D_SET
                [] c = "L2C" -> L2C_SET [] c = "LLC" -> LLC_SET
NUM_WAY(c) == CASE c = "L1I" -> L1I_WAY [] c = "L1D" -> L1D_WAY
                [] c = "L2C" -> L2C_WAY [] c = "LLC" -> LLC_WAY
RQ_SIZE(c) == IF c = "L2C" THEN L2C_RQ_SIZE ELSE LLC_RQ_SIZE
WQ_SIZE(c) == IF c = "L2C" THEN L2C_WQ_SIZE ELSE LLC_WQ_SIZE
PQ_SIZE(c) == IF c = "L2C" THEN L2C_PQ_SIZE ELSE LLC_PQ_SIZE

\* A frame is a set and a way.  A line is a block address and a dirty bit;
\* address 0 stands for valid = 0.
Frames(c) == (0 .. NUM_SET(c) - 1) \X (0 .. NUM_WAY(c) - 1)
Line      == [address : Addresses \cup {0}, dirty : BOOLEAN]
NoLine    == [address |-> 0, dirty |-> FALSE]

Packet == [address : Addresses, fill_level : {FILL_L1, FILL_L2, FILL_LLC},
           type : {"LOAD", "RFO", "PREFETCH", "LOAD_TRANSLATION"},
           instruction : BOOLEAN, fill_l1i : BOOLEAN, fill_l1d : BOOLEAN,
           send_both_cache : BOOLEAN, pf_origin_level : {0, FILL_L1, FILL_L2},
           returned : BOOLEAN]

Elements(s) == {s[i] : i \in DOMAIN s}

Init ==
  /\ block = [c \in Caches |-> [f \in Frames(c) |-> NoLine]]
  /\ mshr = [c \in Requesters |-> {}]
  /\ rq = [c \in Shared |-> <<>>]
  /\ wq = [c \in Shared |-> <<>>]
  /\ pq = [c \in Shared |-> <<>>]
  /\ rd = {} /\ wr = {}
  /\ stored = {} /\ unfilled = {}
  /\ issued = 0 /\ translated = 0

-----------------------------------------------------------------------------
(* Lines *)

\* NUM_SET is a power of two.
get_set(c, a)  == a % NUM_SET(c)
SetOf(c, a)    == {f \in Frames(c) : f[1] = get_set(c, a)}
Holding(b, c, a) == {f \in SetOf(c, a) : b[c][f].address = a}
check_hit(c, a)  == Holding(block, c, a) # {}
FirstWay(S)    == CHOOSE f \in S : \A g \in S : f[2] <= g[2]

\* The victim for block a: the first invalid way, else the LRU way, any.
find_victim(c, a) ==
  LET invalid == {f \in SetOf(c, a) : block[c][f].address = 0} IN
  IF invalid # {} THEN {FirstWay(invalid)} ELSE SetOf(c, a)

\* The first copy of block a in cache c becomes invalid; it is not written
\* back, dirty or not.
Invalidate(b, c, a) ==
  IF Holding(b, c, a) = {} THEN b
  ELSE [b EXCEPT ![c][FirstWay(Holding(b, c, a))] = NoLine]

InvalidateIn(b, S, a) ==
  [c \in Caches |-> IF c \in S THEN Invalidate(b, c, a)[c] ELSE b[c]]

\* Mutants: the other caches keep the block; the frame keeps its dirty bit.
FillAlone(c, f, a, dirty) ==
  [block EXCEPT ![c][f] = [address |-> a, dirty |-> dirty]]

FillOverDirty(c, f, a, dirty) ==
  [InvalidateIn(block, Caches \ {c}, a) EXCEPT
     ![c][f] = [address |-> a, dirty |-> dirty \/ @.dirty]]

\* Cache c takes block a into frame f, and every other cache gives it up.
fill_cache(c, f, a, dirty) ==
  [InvalidateIn(block, Caches \ {c}, a) EXCEPT
     ![c][f] = [address |-> a, dirty |-> dirty]]

MarkDirty(c, a) == [block EXCEPT ![c][FirstWay(Holding(block, c, a))].dirty = TRUE]

-----------------------------------------------------------------------------
(* Misses and answers.  The operators take the MSHRs m and return them     *)
(* changed.                                                                *)

\* Mutant: a miss that has its answer but no line yet is not found.
Unreturned(m, c, a) == {e \in m[c] : e.address = a /\ ~e.returned}

Waiting(m, c, a) == {e \in m[c] : e.address = a}

\* return_data of every requester in S for block a.
return_data(m, S, a) ==
  [c \in Requesters |->
     IF c \notin S THEN m[c]
     ELSE {IF e.address = a THEN [e EXCEPT !.returned = TRUE] ELSE e :
             e \in m[c]}]

add_mshr(m, c, p) == [m EXCEPT ![c] = @ \cup {[p EXCEPT !.returned = FALSE]}]

\* Who is asked to fill the L1s by the flags of p alone, and who gets the
\* answer of L2C: translations go to the walker.
Flagged(p) == {c \in L1s : IF c = "L1I" THEN p.fill_l1i ELSE p.fill_l1d}

Receivers(p) ==
  CASE p.type = "LOAD_TRANSLATION" -> {"PTW"}
    [] p.type # "LOAD_TRANSLATION" /\ p.send_both_cache -> L1s
    [] p.type # "LOAD_TRANSLATION" /\ ~p.send_both_cache ->
         IF Flagged(p) # {} THEN Flagged(p)
         ELSE IF p.instruction THEN {"L1I"} ELSE {"L1D"}

\* The answer of cache c to packet p, when p came from a level above c.
Answer(m, c, p) ==
  IF p.fill_level >= fill_level(c) THEN m
  ELSE return_data(m, IF c = "L2C" THEN Receivers(p) ELSE {"L2C"}, p.address)

\* The same when p is answered from the write queue, or is a prefetch.
AnswerFlagged(m, c, p) ==
  IF p.fill_level >= fill_level(c) THEN m
  ELSE return_data(m, IF c = "L2C" THEN Flagged(p) ELSE {"L2C"}, p.address)

\* Mutant: the level of the miss stays that of its first request.
NotLowered(e, p) ==
  [e EXCEPT !.fill_l1i = @ \/ p.fill_l1i, !.fill_l1d = @ \/ p.fill_l1d]

\* A request merges with the miss e it finds in the MSHRs.
Lowered(e, p) ==
  [e EXCEPT !.fill_level = IF p.fill_level < @ THEN p.fill_level ELSE @,
            !.instruction = IF p.fill_level < e.fill_level THEN p.instruction
                            ELSE @,
            !.fill_l1i = @ \/ p.fill_l1i,
            !.fill_l1d = @ \/ p.fill_l1d]

\* Mutant: a demand that takes over a prefetch forgets who else waits.
TakenOver(e, p) == [p EXCEPT !.returned = e.returned]

\* A demand takes over the entry of a prefetch, and keeps its consumers.
Promoted(e, p) ==
  LET l == Lowered(e, p) IN
  [p EXCEPT !.fill_level = l.fill_level,
            !.instruction = @ \/ l.instruction,
            !.fill_l1i = l.fill_l1i, !.fill_l1d = l.fill_l1d,
            !.returned = e.returned]

MergeMiss(e, p) ==
  IF e.type = "PREFETCH" /\ p.type # "PREFETCH" THEN Promoted(e, p)
  ELSE Lowered(e, p)

\* What merge makes of each miss is recorded for the miss p merges with.
Merged(m, c, p, merge) ==
  [m EXCEPT ![c] = {IF e.address = p.address THEN merge[e] ELSE e : e \in @}]

-----------------------------------------------------------------------------
(* Queues *)

\* add_rq: answered from the write queue, merged with a queued read of the
\* same block, refused when the queue is full (no caller looks), or queued.
\* An instruction fetch that merges does not set fill_l1i.  (Reads of LLC come
\* from the MSHRs of L2C, one for a block, and never merge.)
MergeRead(e, p) ==
  [e EXCEPT
     !.send_both_cache = @ \/ ( /\ e.fill_level = FILL_L1
                                /\ p.fill_level = FILL_L1
                                /\ e.instruction # p.instruction ),
     !.fill_level = IF p.fill_level < @ THEN p.fill_level ELSE @,
     !.instruction = @ \/ p.instruction,
     !.fill_l1i = @ \/ (~p.instruction /\ p.fill_l1i),
     !.fill_l1d = @ \/ (~p.instruction /\ p.fill_l1d)]

Queued(q, a) == {i \in DOMAIN q : q[i].address = a}

QueueRead(q, c, p) ==
  IF p.address \in Elements(wq[c]) THEN q
  ELSE IF Queued(q[c], p.address) # {}
  THEN [q EXCEPT ![c] = [i \in DOMAIN @ |->
          IF @[i].address = p.address THEN MergeRead(@[i], p) ELSE @[i]]]
  ELSE IF Len(q[c]) = RQ_SIZE(c) THEN q
  ELSE [q EXCEPT ![c] = Append(@, p)]

Forwarded(m, c, p) ==
  IF p.address \in Elements(wq[c]) THEN AnswerFlagged(m, c, p) ELSE m

add_rq(c, p, m, q) ==
  mshr' = Forwarded(m, c, p) /\ rq' = QueueRead(q, c, p)

\* add_pq: the same for prefetches.
MergePrefetch(e, p) == [Lowered(e, p) EXCEPT !.returned = FALSE]

QueuePrefetch(q, c, p) ==
  IF p.address \in Elements(wq[c]) THEN q
  ELSE IF Queued(q[c], p.address) # {}
  THEN [q EXCEPT ![c] = [i \in DOMAIN @ |->
          IF @[i].address = p.address THEN MergePrefetch(@[i], p) ELSE @[i]]]
  ELSE IF Len(q[c]) = PQ_SIZE(c) THEN q
  ELSE [q EXCEPT ![c] = Append(@, p)]

add_pq(c, p, m, q) ==
  mshr' = Forwarded(m, c, p) /\ pq' = QueuePrefetch(q, c, p)

\* Mutant: the write queue below is not looked at.
NeverFull(c) == TRUE

\* add_wq below cache c, on queues q: a block waits once.
LowerHasRoom(c) ==
  IF c = "LLC" THEN Cardinality(wr) # DRAM_WQ_SIZE
  ELSE Len(wq[Lower(c)]) # WQ_SIZE(Lower(c))

QueueWrite(q, c, a) ==
  IF a \in Elements(q[c]) THEN q ELSE [q EXCEPT ![c] = Append(@, a)]

\* The line in frame f of cache c makes room: a dirty one is written back, or
\* its cache waits; a clean one is dropped.
evict(c, f, q) ==
  LET line == block[c][f] IN
  \/ /\ ~line.dirty
     /\ wq' = q /\ wr' = wr
  \/ /\ line.dirty /\ LowerHasRoom(c)
     /\ IF c = "LLC" THEN wq' = q /\ wr' = wr \cup {line.address}
        ELSE wq' = QueueWrite(q, Lower(c), line.address) /\ wr' = wr

-----------------------------------------------------------------------------
(* The handlers of the caches *)

\* Cache c only passes block e.address on to the level above.
Bypassed(c, e) ==
  \/ e.fill_level < fill_level(c)
  \/ c = "L2C" /\ (e.send_both_cache \/ e.fill_l1i \/ e.fill_l1d)

handle_fill(c) ==
  \E e \in mshr[c] : \E f \in find_victim(c, e.address) :
    /\ e.returned
    /\ evict(c, f, wq)
    /\ block' = IF Bypassed(c, e)
                THEN IF c = "L2C" THEN InvalidateIn(block, Shared, e.address)
                     ELSE block
                ELSE fill_cache(c, f, e.address, c = "L1D" /\ e.type = "RFO")
    /\ mshr' = Answer([mshr EXCEPT ![c] = @ \ {e}], c, e)
    /\ unfilled' = IF c = "L1D" THEN unfilled \ {e.address} ELSE unfilled
    /\ UNCHANGED <<rq, pq, rd, stored, issued, translated>>

\* A writeback that arrives at L2C or LLC.
handle_writeback(c) ==
  /\ wq[c] # <<>>
  /\ LET a == Head(wq[c])
         q == [wq EXCEPT ![c] = Tail(@)]
     IN \/ /\ check_hit(c, a)
           /\ block' = MarkDirty(c, a)
           /\ wq' = q /\ wr' = wr
        \/ /\ ~check_hit(c, a)
           /\ \E f \in find_victim(c, a) :
                evict(c, f, q) /\ block' = fill_cache(c, f, a, TRUE)
  /\ UNCHANGED <<mshr, rq, pq, rd, stored, unfilled, issued, translated>>

HasMshr(c) == Cardinality(mshr[c]) < MSHR_SIZE(c)

\* Mutant: memory does not look into its write queue.
ReadPastWrites(m, a) == mshr' = m /\ rd' = rd \cup {a}

\* LLC sends a read to memory, which may answer it from its write queue.
read_memory(m, a) ==
  IF a \in wr THEN mshr' = return_data(m, {"LLC"}, a) /\ rd' = rd
  ELSE mshr' = m /\ rd' = rd \cup {a}

MemoryHasRoom == Cardinality(rd) # DRAM_RQ_SIZE

\* What a prefetcher may ask for; q is the prefetch queue it is added to.
Prefetch(c, a, level) ==
  [address |-> a, fill_level |-> level, type |-> "PREFETCH",
   instruction |-> c = "L1I", fill_l1i |-> c = "L1I",
   fill_l1d |-> c # "L1I" /\ level = FILL_L1, send_both_cache |-> FALSE,
   pf_origin_level |-> fill_level(c), returned |-> FALSE]

\* The prefetcher of L2C, called on an access, asks for a block or does not.
\* Asking for the block of access p itself changes nothing when p is still in
\* the prefetch queue.
prefetch_line(q, accessed) ==
  \/ pq' = q /\ issued' = issued
  \/ /\ "L2C" \in Prefetchers /\ issued < MaxRequests
     /\ Len(pq["L2C"]) < L2C_PQ_SIZE
     /\ \E a \in Blocks \ accessed, level \in {FILL_L2, FILL_LLC} :
          pq' = QueuePrefetch(q, "L2C", Prefetch("L2C", a, level))
     /\ issued' = issued + 1

handle_read(c) ==
  /\ rq[c] # <<>>
  /\ LET p == Head(rq[c])
         q == [rq EXCEPT ![c] = Tail(@)]
     IN /\ \/ /\ check_hit(c, p.address)
              /\ mshr' = Answer(mshr, c, p)
              /\ rq' = q /\ rd' = rd
           \/ /\ ~check_hit(c, p.address)
              /\ Waiting(mshr, c, p.address) # {}
              /\ mshr' = Merged(mshr, c, p, [e \in mshr[c] |-> MergeMiss(e, p)])
              /\ rq' = q /\ rd' = rd
           \/ /\ ~check_hit(c, p.address)
              /\ Waiting(mshr, c, p.address) = {} /\ HasMshr(c)
              /\ IF c = "L2C"
                 THEN add_rq("LLC", p, add_mshr(mshr, c, p), q) /\ rd' = rd
                 ELSE /\ MemoryHasRoom
                      /\ read_memory(add_mshr(mshr, c, p), p.address)
                      /\ rq' = q
        /\ IF c = "L2C" /\ p.type = "LOAD" /\ ~p.instruction
           THEN prefetch_line(pq, {}) ELSE UNCHANGED <<pq, issued>>
  /\ UNCHANGED <<block, wq, wr, stored, unfilled, translated>>

\* A prefetch takes an MSHR where it will fill.
MissInto(m, c, p) ==
  IF p.fill_level <= fill_level(c) THEN add_mshr(m, c, p) ELSE m

handle_prefetch(c) ==
  /\ pq[c] # <<>>
  /\ LET p == Head(pq[c])
         q == [pq EXCEPT ![c] = Tail(@)]
         Operate(after) ==
           IF c = "L2C" /\ p.pf_origin_level < FILL_L2
           THEN prefetch_line(after, {p.address})
           ELSE pq' = after /\ issued' = issued
     IN \/ /\ check_hit(c, p.address)
           /\ mshr' = AnswerFlagged(mshr, c, p)
           /\ rd' = rd
           /\ Operate(q)
        \/ /\ ~check_hit(c, p.address)
           /\ Waiting(mshr, c, p.address) # {}
           /\ mshr' = Merged(mshr, c, p, [e \in mshr[c] |-> Lowered(e, p)])
           /\ rd' = rd
           /\ pq' = q /\ issued' = issued
        \/ /\ ~check_hit(c, p.address)
           /\ Waiting(mshr, c, p.address) = {} /\ HasMshr(c)
           /\ IF c = "L2C"
              THEN /\ Len(pq["LLC"]) # LLC_PQ_SIZE
                   /\ mshr' = Forwarded(MissInto(mshr, c, p), "LLC", p)
                   /\ rd' = rd
                   /\ Operate(QueuePrefetch(q, "LLC", p))
              ELSE /\ MemoryHasRoom
                   /\ read_memory(MissInto(mshr, c, p), p.address)
                   /\ Operate(q)
  /\ UNCHANGED <<block, rq, wq, wr, stored, unfilled, translated>>

-----------------------------------------------------------------------------
(* The L1s and the page-table walker as clients of L2C *)

Demand(c, a, type) ==
  [address |-> a, fill_level |-> FILL_L1, type |-> type,
   instruction |-> c = "L1I", fill_l1i |-> c = "L1I", fill_l1d |-> c = "L1D",
   send_both_cache |-> FALSE, pf_origin_level |-> 0, returned |-> FALSE]

Issue == issued < MaxRequests /\ issued' = issued + 1

\* A demand that misses in L1 cache c.
Miss(c, p, merge) ==
  /\ ~check_hit(c, p.address)
  /\ \/ /\ Waiting(mshr, c, p.address) # {}
        /\ mshr' = Merged(mshr, c, p, merge)
        /\ rq' = rq
     \/ /\ Waiting(mshr, c, p.address) = {} /\ HasMshr(c)
        /\ add_rq("L2C", p, add_mshr(mshr, c, p), rq)

\* handle_read of an L1: a fetch or a load.  A hit changes only LRU.
read(c, a) ==
  /\ Issue
  /\ Miss(c, Demand(c, a, "LOAD"),
             [e \in mshr[c] |-> MergeMiss(e, Demand(c, a, "LOAD"))])
  /\ UNCHANGED <<block, wq, pq, rd, wr, stored, unfilled, translated>>

\* handle_writeback of L1D: a store.
MergeStore(e, p) ==
  IF e.type = "PREFETCH" THEN [p EXCEPT !.returned = e.returned]
  ELSE Lowered(e, p)

write(a) ==
  /\ Issue
  /\ stored' = stored \cup {a}
  /\ \/ /\ check_hit("L1D", a)
        /\ block' = MarkDirty("L1D", a)
        /\ UNCHANGED <<mshr, rq, unfilled>>
     \/ /\ Miss("L1D", Demand("L1D", a, "RFO"),
                [e \in mshr["L1D"] |-> MergeStore(e, Demand("L1D", a, "RFO"))])
        /\ unfilled' = unfilled \cup {a}
        /\ UNCHANGED block
  /\ UNCHANGED <<wq, pq, rd, wr, translated>>

\* handle_prefetch of an L1.
prefetch(c, a, level) ==
  /\ c \in Prefetchers
  /\ Issue
  /\ ~check_hit(c, a)
  /\ LET p == Prefetch(c, a, level) IN
     \/ /\ Waiting(mshr, c, a) # {}
        /\ mshr' = Merged(mshr, c, p, [e \in mshr[c] |-> Lowered(e, p)])
        /\ pq' = pq
     \/ /\ Waiting(mshr, c, a) = {} /\ HasMshr(c)
        /\ Len(pq["L2C"]) # L2C_PQ_SIZE
        /\ add_pq("L2C", p, MissInto(mshr, c, p), pq)
  /\ UNCHANGED <<block, rq, wq, rd, wr, stored, unfilled, translated>>

\* One step of a page walk: the walker, which serves one request at a time,
\* reads a page-table entry, if L2C has room, and goes on when it has it.
walk(a) ==
  /\ Issue
  /\ mshr["PTW"] = {} /\ Len(rq["L2C"]) < L2C_RQ_SIZE
  /\ LET p == Demand("PTW", a, "LOAD_TRANSLATION") IN
       add_rq("L2C", p, add_mshr(mshr, "PTW", p), rq)
  /\ UNCHANGED <<block, wq, pq, rd, wr, stored, unfilled, translated>>

walked ==
  /\ \E e \in mshr["PTW"] :
       e.returned /\ mshr' = [mshr EXCEPT !["PTW"] = @ \ {e}]
  /\ UNCHANGED <<block, rq, wq, pq, rd, wr, stored, unfilled, issued,
                 translated>>

\* handle_fill of a translation cache runs the same invalidations, with a
\* page number x for the block address and a virtual block y for the L1s:
\* data blocks that happen to have these numbers are lost.  0 is no block.
translation_fill(x, y) ==
  /\ translated < MaxTranslations
  /\ translated' = translated + 1
  /\ block' = InvalidateIn(InvalidateIn(block, Shared, x), L1s, y)
  /\ UNCHANGED <<mshr, rq, wq, pq, rd, wr, stored, unfilled, issued>>

-----------------------------------------------------------------------------
(* Memory *)

memory_returns(a) ==
  /\ a \in rd
  /\ rd' = rd \ {a}
  /\ mshr' = return_data(mshr, {"LLC"}, a)
  /\ UNCHANGED <<block, rq, wq, pq, wr, stored, unfilled, issued, translated>>

memory_writes(a) ==
  /\ a \in wr
  /\ wr' = wr \ {a}
  /\ UNCHANGED <<block, mshr, rq, wq, pq, rd, stored, unfilled, issued,
                 translated>>

-----------------------------------------------------------------------------

Requests ==
  \/ \E a \in Code : read("L1I", a) \/ prefetch("L1I", a, FILL_L1)
  \/ \E a \in Blocks : read("L1D", a)
  \/ \E a \in Stored : write(a)
  \/ \E a \in Blocks, level \in {FILL_L1, FILL_L2} : prefetch("L1D", a, level)
  \/ \E a \in TableBlocks : walk(a)

Lookups ==
  \/ \E c \in Shared : handle_read(c) \/ handle_prefetch(c)
  \/ walked
  \/ \E a \in Addresses : memory_returns(a) \/ memory_writes(a)

Handlers ==
  \/ \E c \in Caches : handle_fill(c)
  \/ \E c \in Shared : handle_writeback(c)
  \/ Lookups

Next ==
  \/ Requests
  \/ \E x, y \in Blocks \cup {0} : translation_fill(x, y)
  \/ Handlers

\* operate() of every cache, of the walker and of memory runs in each cycle
\* (main.cc:1378-1711), so a handler that can act does so in the end.
Spec == Init /\ [][Next]_vars /\ WF_vars(Handlers)

-----------------------------------------------------------------------------
(* Properties *)

\* Type invariant: every packet, line and queue has its type, and no queue or
\* MSHR file is longer than it was built.
TypeOK ==
  /\ DOMAIN block = Caches
  /\ \A c \in Caches : block[c] \in [Frames(c) -> Line]
  /\ mshr \in [Requesters -> SUBSET Packet]
  /\ \A c \in Requesters : Cardinality(mshr[c]) <= MSHR_SIZE(c)
  /\ rq \in [Shared -> Seq(Packet)] /\ pq \in [Shared -> Seq(Packet)]
  /\ wq \in [Shared -> Seq(Addresses)]
  /\ \A c \in Shared : /\ Len(rq[c]) <= RQ_SIZE(c)
                       /\ Len(wq[c]) <= WQ_SIZE(c)
                       /\ Len(pq[c]) <= PQ_SIZE(c)
  /\ rd \subseteq Addresses /\ wr \subseteq Addresses
  /\ stored \subseteq Blocks /\ unfilled \subseteq Blocks
  /\ issued \in 0 .. MaxRequests /\ translated \in 0 .. MaxTranslations

Resides(c, a) == \E f \in Frames(c) : block[c][f].address = a

Awaits(x, a) == \E e \in Waiting(mshr, x, a) : ~e.returned

\* The packets below requester x that will answer it for block a.
Carriers(x, a) ==
  {p \in (IF x = "L2C" THEN Elements(rq["LLC"]) \cup Elements(pq["LLC"]) \cup
             mshr["LLC"]
          ELSE Elements(rq["L2C"]) \cup Elements(pq["L2C"]) \cup mshr["L2C"]) :
     p.address = a}

Answered(x, p) == IF x = "L2C" THEN p.fill_level < FILL_LLC
                  ELSE p.fill_level < FILL_L2 /\ x \in Receivers(p)

Carried(x, a) == IF x = "LLC" THEN a \in rd
                 ELSE \E p \in Carriers(x, a) : Answered(x, p)

\* What waits and what is on its way are the same.  No answer comes for
\* nothing: whatever is on its way to requester x finds an MSHR there that
\* still waits for it; return_data aborts when it does not (assert at
\* cache.cc:3868-3878).  No request is lost: for an MSHR that waits there is a
\* packet below that will be answered to it, although add_rq drops a packet
\* when the queue is full and no caller looks (cache.cc:1784, 1794).
MissesCarried ==
  \A x \in Requesters, a \in Addresses : Carried(x, a) <=> Awaits(x, a)

\* An L1 has one copy of a block at most, one miss for it at most, and never
\* both (cache.cc:1639, 1732-1741): otherwise a load could read one copy and
\* a store write the other.
L1CopiesAreSingle ==
  \A c \in L1s :
    /\ \A f, g \in Frames(c) :
         block[c][f].address = block[c][g].address /\ block[c][f].address # 0
           => f = g
    /\ \A d, e \in mshr[c] : d.address = e.address => d = e
    /\ \A e \in mshr[c] : ~check_hit(c, e.address)

\* Only what a store wrote is ever written back: no frame keeps the dirty bit
\* of the block that it held before (fill_cache, cache.cc:2676-2792).
OnlyStoresAreWrittenBack ==
  /\ \A c \in Caches : \A f \in Frames(c) :
       block[c][f].dirty => block[c][f].address \in stored
  /\ \A c \in Shared : Elements(wq[c]) \subseteq stored
  /\ wr \subseteq stored

\* No block is valid at two levels.  "EXCLUSIVE CACHE: RIGHT BEFORE FILLING,
\* invalidate all other levels" (cache.cc:339) is there to make it so, and
\* handle_read counts the violations (cache.cc:1306-1454).
Exclusive ==
  \A a \in Addresses, c, d \in Caches : Resides(c, a) /\ Resides(d, a) => c = d

\* A store that waited for a fill of L1D finds its line dirty afterwards:
\* "RFO marks cache line dirty" (cache.cc:424-429).
StoresDirtyTheirLine ==
  [][\A a \in unfilled \ unfilled' :
       \E f \in Frames("L1D") : block'["L1D"][f] = [address |-> a, dirty |-> TRUE]]_vars

\* LLC uses memory as MemoryPort allows: it never reads a block it already
\* waits for, nor one with a writeback waiting.
Port == INSTANCE MemoryPort WITH Addrs <- Addresses

UsesMemoryPort == Port!Spec

\* Every miss of an L1 and of the walker is answered in the end, through full
\* queues, full MSHR files and writebacks that have to wait for one another:
\* when no more requests come (MaxRequests), nobody waits for ever.
EveryMissAnswered ==
  []<>(\A x \in {"L1I", "L1D", "PTW"} : mshr[x] = {})
=============================================================================
