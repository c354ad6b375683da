----------------------- MODULE NonInclusiveHierarchy -----------------------
(***************************************************************************)
(* The other build of the caches, cache_hierarchies/non_inclusive_cache.cc *)
(* (build_champsim.sh copies one of the two files over src/cache.cc).      *)
(* Requests, queues, MSHRs, merges and lookups are those of                *)
(* CacheHierarchy.  What differs is handle_fill and handle_writeback: every*)
(* level that a block passes on its way up keeps a copy, and no level      *)
(* gives up its copy because another one has taken the block, which is     *)
(* what keeps the data of stores alive.                                    *)
(***************************************************************************)
EXTENDS CacheHierarchy

\* Cache c takes block a into frame f; no other cache notices.
take(c, f, a, dirty) ==
  block' = [block EXCEPT ![c][f] = [address |-> a, dirty |-> dirty]]

\* Mutant: the line is dropped, dirty or not, when the queue below is full.
DropWhenFull(c, f, q) ==
  LET line == block[c][f] IN
  IF ~line.dirty \/ ~LowerHasRoom(c) THEN wq' = q /\ wr' = wr
  ELSE IF c = "LLC" THEN wq' = q /\ wr' = wr \cup {line.address}
  ELSE wq' = QueueWrite(q, Lower(c), line.address) /\ wr' = wr

\* The line in frame f makes room, on write queues q: a dirty one is written
\* back, or the handler waits until the queue below has room for it.
displace(c, f, q) ==
  LET line == block[c][f] IN
  /\ line.dirty => LowerHasRoom(c)
  /\ IF ~line.dirty THEN wq' = q /\ wr' = wr
     ELSE IF c = "LLC" THEN wq' = q /\ wr' = wr \cup {line.address}
     ELSE wq' = QueueWrite(q, Lower(c), line.address) /\ wr' = wr

\* Miss e of cache c is over; the caches above that wait for it get an answer.
answer_above(c, e) == Answer([mshr EXCEPT ![c] = @ \ {e}], c, e)

\* An answer to miss e of cache c has come: c keeps the block and answers the
\* level above, if the miss came from there.
keep_fill(c) ==
  \E e \in mshr[c] : \E f \in find_victim(c, e.address) :
    /\ e.returned
    /\ displace(c, f, wq)
    /\ take(c, f, e.address, c = "L1D" /\ e.type = "RFO")
    /\ mshr' = answer_above(c, e)
    /\ unfilled' = IF c = "L1D" THEN unfilled \ {e.address} ELSE unfilled
    /\ UNCHANGED <<rq, pq, rd, stored, issued, translated>>

\* A writeback that arrives at L2C or LLC finds the block there,
absorb_writeback(c) ==
  /\ wq[c] # <<>> /\ check_hit(c, Head(wq[c]))
  /\ block' = MarkDirty(c, Head(wq[c]))
  /\ wq' = [wq EXCEPT ![c] = Tail(@)]
  /\ UNCHANGED <<mshr, rq, pq, rd, wr, stored, unfilled, issued, translated>>

\* or takes a frame for it.
place_writeback(c) ==
  /\ wq[c] # <<>> /\ ~check_hit(c, Head(wq[c]))
  /\ \E f \in find_victim(c, Head(wq[c])) :
       /\ displace(c, f, [wq EXCEPT ![c] = Tail(@)])
       /\ take(c, f, Head(wq[c]), TRUE)
  /\ UNCHANGED <<mshr, rq, pq, rd, stored, unfilled, issued, translated>>

KeepingHandlers ==
  \/ \E c \in Caches : keep_fill(c)
  \/ \E c \in Shared : absorb_writeback(c) \/ place_writeback(c)
  \/ Lookups

NextKeeping == Requests \/ KeepingHandlers

SpecKeeping == Init /\ [][NextKeeping]_vars /\ WF_vars(KeepingHandlers)

-----------------------------------------------------------------------------
(* Properties *)

\* Block a holds data that memory does not have yet.
Unsaved(a) ==
  \/ \E c \in Caches : \E f \in Frames(c) :
       block[c][f] = [address |-> a, dirty |-> TRUE]
  \/ \E c \in Shared : a \in Elements(wq[c])
  \/ a \in wr

\* What a store has written is never lost on its way down: a block is dirty
\* somewhere, or waits in a write queue, until memory writes it
\* (handle_fill and handle_writeback, non_inclusive_cache.cc:196, 694).
StoresReachMemory ==
  [][\A a \in Blocks : Unsaved(a) /\ ~Unsaved(a)' => a \in wr \ wr']_vars

\* A cache holds a block once, although fills and writebacks that take frames
\* do not look for each other (non_inclusive_cache.cc:689): L1D writes a block
\* back only when nothing above L2C waits for it, as long as stored blocks are
\* not fetched and no prefetcher fills L2C.
CopiesAreSingle ==
  \A c \in Caches, a \in Addresses : Cardinality(Holding(block, c, a)) <= 1
=============================================================================
