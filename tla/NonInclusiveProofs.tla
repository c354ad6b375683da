------------------------- MODULE NonInclusiveProofs -------------------------
(***************************************************************************)
(* Proofs about NonInclusiveHierarchy for every size of its caches, queues *)
(* and MSHR files: the invariants of CacheHierarchyProofs hold in this     *)
(* build too, and what a store has written reaches memory.  CopiesInv, for *)
(* a build that prefetches into L1I only, says of the shared caches what   *)
(* L1Inv says of the L1s.                                                  *)
(***************************************************************************)
EXTENDS NonInclusiveHierarchy, CacheHierarchyProofs

-----------------------------------------------------------------------------
(* The invariant *)

LEMMA DisplacedIsEvicted ==
  ASSUME NEW c, NEW f, NEW q, displace(c, f, q),
         block[c][f].dirty \in BOOLEAN
  PROVE  evict(c, f, q)
BY DEF displace, evict

LEMMA KeepFillKeeps ==
  ASSUME HierarchyInv, NEW c \in Caches, keep_fill(c)
  PROVE  HierarchyInv'
<1> DEFINE Fills(e, f) ==
      /\ displace(c, f, wq)
      /\ take(c, f, e.address, c = "L1D" /\ e.type = "RFO")
      /\ mshr' = answer_above(c, e)
      /\ unfilled' = IF c = "L1D" THEN unfilled \ {e.address} ELSE unfilled
<1>0. PICK e \in mshr[c] : \E f \in find_victim(c, e.address) : Fills(e, f)
  BY DEF keep_fill
<1>1. PICK f \in find_victim(c, e.address) : Fills(e, f)
  BY <1>0
<1>2. c \in Requesters /\ f \in Frames(c) /\ stored \subseteq Addresses
  BY Names, FramesOfSet DEF HierarchyInv, Addresses
<1>3. /\ e \in Packet /\ e.address \in Addresses
      /\ c = "L1D" /\ e.type = "RFO" => e.address \in stored
  BY <1>0, <1>2 DEF HierarchyInv, MissesOK, Misses, Packet
<1>4. LinesOK(block', stored)
  <2>1. [address |-> e.address, dirty |-> c = "L1D" /\ e.type = "RFO"]
          \in Lines(stored)
    BY <1>3, LineTypes
  <2>2. block' = [block EXCEPT ![c][f] =
                    [address |-> e.address, dirty |-> c = "L1D" /\ e.type = "RFO"]]
    BY <1>1 DEF take
  <2> QED BY <1>2, <2>1, <2>2, LineChanged DEF HierarchyInv
<1>5. WritesOK(wq', stored) /\ wr' \subseteq Addresses \cap stored
  <2>1. block[c][f].dirty \in BOOLEAN
    BY <1>2 DEF HierarchyInv, LinesOK, Lines, Line
  <2>2. evict(c, f, wq)
    BY <1>1, <2>1, DisplacedIsEvicted
  <2> QED BY <1>2, <2>2, LineEvicted DEF HierarchyInv
<1>6. MissesOK(mshr', stored)
  <2>1. MissesOK([mshr EXCEPT ![c] = @ \ {e}], stored)
    BY <1>2, MissRemoved DEF HierarchyInv
  <2> QED BY <1>1, <2>1, MissesAnswered DEF answer_above
<1>7. unfilled' \subseteq Blocks
  BY <1>1 DEF HierarchyInv
<1> QED BY <1>4, <1>5, <1>6, <1>7 DEF HierarchyInv, keep_fill

LEMMA AbsorbKeeps ==
  ASSUME HierarchyInv, NEW c \in Shared, absorb_writeback(c)
  PROVE  HierarchyInv'
<1>1. c \in Caches /\ wq[c] # <<>> /\ check_hit(c, Head(wq[c]))
  BY Names DEF absorb_writeback
<1>2. /\ Head(wq[c]) \in stored
      /\ WritesOK([wq EXCEPT ![c] = Tail(@)], stored)
  BY <1>1, WriteTaken DEF HierarchyInv
<1>3. LinesOK(MarkDirty(c, Head(wq[c])), stored)
  BY <1>1, <1>2, LineMarked DEF HierarchyInv
<1> QED BY <1>2, <1>3 DEF HierarchyInv, absorb_writeback

LEMMA PlaceKeeps ==
  ASSUME HierarchyInv, NEW c \in Shared, place_writeback(c)
  PROVE  HierarchyInv'
<1> DEFINE a == Head(wq[c])
           q == [wq EXCEPT ![c] = Tail(@)]
<1>1. c \in Caches /\ wq[c] # <<>> /\ stored \subseteq Addresses
  BY Names DEF place_writeback, HierarchyInv, Addresses
<1>2. a \in Addresses \cap stored /\ WritesOK(q, stored)
  BY <1>1, WriteTaken DEF HierarchyInv
<1>3. c # "LLC" => q[Lower(c)] = wq[Lower(c)]
  BY DEF HierarchyInv, WritesOK, Shared, Lower
<1>4. PICK f \in find_victim(c, a) : displace(c, f, q) /\ take(c, f, a, TRUE)
  BY DEF place_writeback
<1> HIDE DEF a, q
<1>5. f \in Frames(c)
  BY <1>1, <1>4, FramesOfSet
<1>6. LinesOK(block', stored)
  <2>1. [address |-> a, dirty |-> TRUE] \in Lines(stored)
    BY <1>2, LineTypes
  <2> QED BY <1>1, <1>4, <1>5, <2>1, LineChanged DEF HierarchyInv, take
<1>7. WritesOK(wq', stored) /\ wr' \subseteq Addresses \cap stored
  <2>1. block[c][f].dirty \in BOOLEAN
    BY <1>1, <1>5 DEF HierarchyInv, LinesOK, Lines, Line
  <2>2. evict(c, f, q)
    BY <1>4, <2>1, DisplacedIsEvicted
  <2> QED BY <1>1, <1>2, <1>3, <1>5, <2>2, LineEvicted DEF HierarchyInv
<1> QED BY <1>6, <1>7 DEF HierarchyInv, place_writeback

\* The inductive invariant of the exclusive build holds in this one.
THEOREM KeepingInvariance == SpecKeeping => []HierarchyInv
<1>1. HierarchyInv /\ [NextKeeping]_vars => HierarchyInv'
  <2> SUFFICES ASSUME HierarchyInv, [NextKeeping]_vars PROVE HierarchyInv'
    OBVIOUS
  <2>1. CASE Requests
    BY <2>1, RequestsKeep
  <2>2. CASE KeepingHandlers
    BY <2>2, KeepFillKeeps, AbsorbKeeps, PlaceKeeps, LookupsKeep
    DEF KeepingHandlers
  <2>3. CASE UNCHANGED vars
    BY <2>3, HierarchyStutters
  <2> QED BY <2>1, <2>2, <2>3 DEF NextKeeping
<1> QED BY <1>1, HierarchyStarts, PTL DEF SpecKeeping

\* Types and sizes hold in this build too.
THEOREM KeepingTypeCorrect == SpecKeeping => []TypeOK
BY KeepingInvariance, InvariantTypes, PTL

-----------------------------------------------------------------------------
(* What stores have written *)

DirtyLine(a) == [address |-> a, dirty |-> TRUE]

\* A line that a store reaches becomes the dirty line of its block.
LEMMA MarkedLineDirty ==
  ASSUME NEW r \in Line, NEW x, r.address = x
  PROVE  [r EXCEPT !.dirty = TRUE] = DirtyLine(x)
<1>1. [r EXCEPT !.dirty = TRUE] \in [address : {x}, dirty : {TRUE}]
  BY DEF Line
<1>2. ASSUME NEW s \in [address : {x}, dirty : {TRUE}]
      PROVE  s = DirtyLine(x)
  <2>1. s = [address |-> s.address, dirty |-> s.dirty]
    OBVIOUS
  <2>2. s.address = x /\ s.dirty = TRUE
    OBVIOUS
  <2> QED BY <2>1, <2>2, Zenon DEF DirtyLine
<1> QED BY <1>1, <1>2

\* A line that becomes dirty is lost to no block.
LEMMA MarkedStaysDirty ==
  ASSUME HierarchyInv, NEW c \in Caches, NEW x \in stored \cup stored', check_hit(c, x),
         stored \subseteq stored', block' = MarkDirty(c, x)
  PROVE  /\ \A d \in Caches : \A g \in Frames(d) : \A a :
              block[d][g] = DirtyLine(a) => block'[d][g] = DirtyLine(a)
         /\ \E f \in Frames(c) : block'[c][f] = DirtyLine(x)
<1>1. LinesOK(block, stored') /\ x \in stored'
  BY LinesGrow DEF HierarchyInv
<1>2. PICK f \in Holding(block, c, x) :
        MarkDirty(c, x) = [block EXCEPT ![c][f].dirty = TRUE]
  BY <1>1, LineMarked
<1>3. f \in Frames(c) /\ block[c][f] \in Line /\ block[c][f].address = x
  BY <1>1, <1>2, FramesOfSet DEF LinesOK, Lines
<1>4. [block[c][f] EXCEPT !.dirty = TRUE] = DirtyLine(x)
  BY <1>3, MarkedLineDirty
<1>5. block' = [block EXCEPT ![c][f] = DirtyLine(x)]
  BY <1>2, <1>4
<1>6. DOMAIN block = Caches /\ \A d \in Caches : DOMAIN block[d] = Frames(d)
  BY DEF HierarchyInv, LinesOK
<1>7. block'[c][f] = DirtyLine(x)
  BY <1>3, <1>5, <1>6
<1>8. ASSUME NEW d \in Caches, NEW g \in Frames(d), NEW a,
             block[d][g] = DirtyLine(a)
      PROVE  block'[d][g] = DirtyLine(a)
  <2>1. CASE d = c /\ g = f
    <3>1. a = x
      BY <1>3, <1>8, <2>1 DEF DirtyLine
    <3> QED BY <1>7, <2>1, <3>1
  <2>2. CASE ~(d = c /\ g = f)
    BY <1>5, <1>6, <1>8, <2>2
  <2> QED BY <2>1, <2>2
<1> QED BY <1>3, <1>7, <1>8

LEMMA WriteAdded ==
  ASSUME NEW st, NEW q, WritesOK(q, st), NEW c \in Shared, NEW a \in Addresses \cap st
  PROVE  /\ a \in Elements(QueueWrite(q, c, a)[c])
         /\ \A d \in Shared : Elements(q[d]) \subseteq Elements(QueueWrite(q, c, a)[d])
<1>1. CASE a \in Elements(q[c])
  BY <1>1 DEF QueueWrite
<1>2. CASE a \notin Elements(q[c])
  <2> DEFINE r == [q EXCEPT ![c] = Append(@, a)]
  <2>1. q[c] \in Seq(Addresses \cap st) /\ DOMAIN q = Shared
    BY DEF WritesOK
  <2>2. Elements(Append(q[c], a)) = Elements(q[c]) \cup {a}
    <3>1. /\ DOMAIN q[c] = 1 .. Len(q[c])
          /\ DOMAIN Append(q[c], a) = 1 .. Len(q[c]) + 1
          /\ \A i \in 1 .. Len(q[c]) : Append(q[c], a)[i] = q[c][i]
          /\ Append(q[c], a)[Len(q[c]) + 1] = a /\ Len(q[c]) \in Nat
      BY <2>1
    <3> QED BY <3>1 DEF Elements
  <2>3. \A d \in Shared : r[d] = IF d = c THEN Append(q[c], a) ELSE q[d]
    BY <2>1
  <2>4. QueueWrite(q, c, a) = r
    BY <1>2 DEF QueueWrite
  <2> HIDE DEF r
  <2> QED BY <2>2, <2>3, <2>4
<1> QED BY <1>1, <1>2

\* A line that makes room for another leaves what it held in a write queue.
LEMMA DisplacedStaysUnsaved ==
  ASSUME HierarchyInv, NEW c \in Caches, NEW f \in Frames(c), NEW q,
         WritesOK(q, stored), displace(c, f, q)
  PROVE  /\ wr \subseteq wr'
         /\ \A d \in Shared : Elements(q[d]) \subseteq Elements(wq'[d])
         /\ \A a : block[c][f] = DirtyLine(a) =>
              a \in wr' \/ \E d \in Shared : a \in Elements(wq'[d])
<1> DEFINE line == block[c][f]
<1>1. line \in Lines(stored) /\ stored \subseteq Addresses
  BY DEF HierarchyInv, LinesOK, Addresses
<1>2. CASE ~line.dirty
  BY <1>2 DEF displace, DirtyLine
<1>3. CASE line.dirty
  <2>1. line.address \in Addresses \cap stored
    BY <1>1, <1>3 DEF Lines
  <2>2. \A a : line = DirtyLine(a) => line.address = a
    BY DEF DirtyLine
  <2>3. CASE c = "LLC"
    BY <1>3, <2>2, <2>3 DEF displace
  <2>4. CASE c # "LLC"
    <3>1. /\ Lower(c) \in Shared
          /\ wq' = QueueWrite(q, Lower(c), line.address) /\ wr' = wr
      BY <1>3, <2>4, Names DEF displace
    <3> HIDE DEF line
    <3>2. /\ line.address \in Elements(wq'[Lower(c)])
          /\ \A d \in Shared : Elements(q[d]) \subseteq Elements(wq'[d])
      BY <2>1, <3>1, WriteAdded
    <3> QED BY <2>2, <3>1, <3>2 DEF line
  <2> QED BY <2>3, <2>4
<1> QED BY <1>2, <1>3

\* A frame that is taken changes no other.
LEMMA TakenAlone ==
  ASSUME HierarchyInv, NEW c \in Caches, NEW f \in Frames(c), NEW x, NEW dirty,
         take(c, f, x, dirty)
  PROVE  /\ block'[c][f] = [address |-> x, dirty |-> dirty]
         /\ \A d \in Caches : \A g \in Frames(d) :
              d # c \/ g # f => block'[d][g] = block[d][g]
BY DEF take, HierarchyInv, LinesOK

LEMMA WritebackTaken ==
  ASSUME HierarchyInv, NEW c \in Shared, wq[c] # <<>>
  PROVE  LET q == [wq EXCEPT ![c] = Tail(@)] IN
         \A d \in Shared : Elements(wq[d]) \subseteq Elements(q[d]) \cup {Head(wq[c])}
<1> DEFINE q == [wq EXCEPT ![c] = Tail(@)]
<1>1. wq[c] \in Seq(Addresses \cap stored) /\ DOMAIN wq = Shared
  BY DEF HierarchyInv, WritesOK
<1>2. Elements(wq[c]) \subseteq Elements(Tail(wq[c])) \cup {Head(wq[c])}
  <2> SUFFICES ASSUME NEW i \in DOMAIN wq[c], i # 1
               PROVE  \E j \in DOMAIN Tail(wq[c]) : Tail(wq[c])[j] = wq[c][i]
    BY <1>1 DEF Elements
  <2>1. i - 1 \in DOMAIN Tail(wq[c]) /\ Tail(wq[c])[i - 1] = wq[c][i]
    BY <1>1
  <2> QED BY <2>1
<1>3. \A d \in Shared : q[d] = IF d = c THEN Tail(wq[c]) ELSE wq[d]
  BY <1>1
<1> HIDE DEF q
<1>4. \A d \in Shared : Elements(wq[d]) \subseteq Elements(q[d]) \cup {Head(wq[c])}
  BY <1>2, <1>3
<1> QED BY <1>4 DEF q

\* Block a is dirty, or on its way down, or memory has just written it.
Safe(a) == Unsaved(a)' \/ a \in wr \ wr'

\* A dirty copy is saved by a step that changes one line, loses nothing of the
\* queues and of memory's writes, and sends the copy down when it is that line.
LEMMA SavedByDisplacing ==
  ASSUME NEW a, Unsaved(a), NEW c \in Caches, NEW f \in Frames(c),
         wr \subseteq wr',
         \A d \in Shared : a \in Elements(wq[d]) =>
           \/ a \in Elements(wq'[d])
           \/ \E e \in Caches : \E g \in Frames(e) : block'[e][g] = DirtyLine(a),
         block[c][f] = DirtyLine(a) =>
           a \in wr' \/ \E d \in Shared : a \in Elements(wq'[d]),
         \A d \in Caches : \A g \in Frames(d) :
           d # c \/ g # f => block'[d][g] = block[d][g]
  PROVE  Unsaved(a)'
<1>1. Unsaved(a)' <=> \/ \E d \in Caches : \E g \in Frames(d) : block'[d][g] = DirtyLine(a)
                      \/ \E d \in Shared : a \in Elements(wq'[d])
                      \/ a \in wr'
  BY DEF Unsaved, DirtyLine
<1>2. CASE \E d \in Caches : \E g \in Frames(d) : block[d][g] = DirtyLine(a)
  <2>1. PICK d \in Caches : \E g \in Frames(d) : block[d][g] = DirtyLine(a)
    BY <1>2
  <2>2. PICK g \in Frames(d) : block[d][g] = DirtyLine(a)
    BY <2>1
  <2>3. CASE d = c /\ g = f
    BY <1>1, <2>2, <2>3
  <2>4. CASE d # c \/ g # f
    BY <1>1, <2>2, <2>4
  <2> QED BY <2>3, <2>4
<1>3. CASE \E d \in Shared : a \in Elements(wq[d])
  BY <1>1, <1>3
<1>4. CASE a \in wr
  BY <1>1, <1>4
<1> QED BY <1>2, <1>3, <1>4 DEF Unsaved, DirtyLine

LEMMA KeepFillSaves ==
  ASSUME HierarchyInv, NEW c \in Caches, keep_fill(c), NEW a, Unsaved(a)
  PROVE  Unsaved(a)'
<1>0. PICK e \in mshr[c] : \E f \in find_victim(c, e.address) :
        displace(c, f, wq) /\ take(c, f, e.address, c = "L1D" /\ e.type = "RFO")
  BY DEF keep_fill
<1>1. PICK f \in find_victim(c, e.address) :
        displace(c, f, wq) /\ take(c, f, e.address, c = "L1D" /\ e.type = "RFO")
  BY <1>0
<1>2. f \in Frames(c)
  BY FramesOfSet
<1>3. /\ wr \subseteq wr'
      /\ \A d \in Shared : Elements(wq[d]) \subseteq Elements(wq'[d])
      /\ block[c][f] = DirtyLine(a) =>
           a \in wr' \/ \E d \in Shared : a \in Elements(wq'[d])
  BY <1>1, <1>2, DisplacedStaysUnsaved DEF HierarchyInv
<1>4. \A d \in Caches : \A g \in Frames(d) :
        d # c \/ g # f => block'[d][g] = block[d][g]
  BY <1>1, <1>2, TakenAlone
<1>5. \A d \in Shared : a \in Elements(wq[d]) => a \in Elements(wq'[d])
  BY <1>3
<1> QED BY <1>2, <1>3, <1>4, <1>5, SavedByDisplacing

LEMMA WritebackSaves ==
  ASSUME HierarchyInv, NEW c \in Shared, absorb_writeback(c) \/ place_writeback(c),
         NEW a, Unsaved(a)
  PROVE  Unsaved(a)'
<1> DEFINE x == Head(wq[c])
           q == [wq EXCEPT ![c] = Tail(@)]
<1>1. wq[c] # <<>> /\ c \in Caches
  BY Names DEF absorb_writeback, place_writeback
<1>2. x \in Addresses \cap stored /\ WritesOK(q, stored)
  BY <1>1, WriteTaken DEF HierarchyInv
<1>3. \A d \in Shared : Elements(wq[d]) \subseteq Elements(q[d]) \cup {x}
  BY <1>1, WritebackTaken
<1>4. CASE absorb_writeback(c)
  <2>1. /\ check_hit(c, x) /\ block' = MarkDirty(c, x) /\ wq' = q
        /\ wr' = wr /\ stored' = stored
    BY <1>4 DEF absorb_writeback
  <2> HIDE DEF x, q
  <2>2. /\ \A d \in Caches : \A g \in Frames(d) :
             block[d][g] = DirtyLine(a) => block'[d][g] = DirtyLine(a)
        /\ \E f \in Frames(c) : block'[c][f] = DirtyLine(x)
    BY <1>1, <1>2, <2>1, MarkedStaysDirty
  <2> QED BY <1>1, <1>3, <2>1, <2>2 DEF Unsaved, DirtyLine
<1>5. CASE place_writeback(c)
  <2>1. PICK f \in find_victim(c, x) : displace(c, f, q) /\ take(c, f, x, TRUE)
    BY <1>5 DEF place_writeback
  <2> HIDE DEF x, q
  <2>2. f \in Frames(c)
    BY <1>1, FramesOfSet
  <2>3. /\ wr \subseteq wr'
        /\ \A d \in Shared : Elements(q[d]) \subseteq Elements(wq'[d])
        /\ block[c][f] = DirtyLine(a) =>
             a \in wr' \/ \E d \in Shared : a \in Elements(wq'[d])
    BY <1>1, <1>2, <2>1, <2>2, DisplacedStaysUnsaved
  <2>4. /\ block'[c][f] = DirtyLine(x)
        /\ \A d \in Caches : \A g \in Frames(d) :
             d # c \/ g # f => block'[d][g] = block[d][g]
    BY <1>1, <2>1, <2>2, TakenAlone DEF DirtyLine
  <2>5. \A d \in Shared : a \in Elements(wq[d]) =>
          \/ a \in Elements(wq'[d])
          \/ \E e \in Caches : \E g \in Frames(e) : block'[e][g] = DirtyLine(a)
    BY <1>1, <1>3, <2>2, <2>3, <2>4
  <2> QED BY <1>1, <2>2, <2>3, <2>4, <2>5, SavedByDisplacing
<1> QED BY <1>4, <1>5

LEMMA RequestsSave ==
  ASSUME HierarchyInv, Requests, NEW a, Unsaved(a)
  PROVE  Unsaved(a)'
<1>1. CASE UNCHANGED <<block, wq, wr>>
  BY <1>1 DEF Unsaved
<1>2. ASSUME NEW x \in Stored, write(x)
      PROVE  Unsaved(a)'
  <2>1. CASE check_hit("L1D", x) /\ block' = MarkDirty("L1D", x)
    <3>1. /\ "L1D" \in Caches /\ stored \subseteq stored' /\ x \in stored'
          /\ wq' = wq /\ wr' = wr
      BY <1>2 DEF write, Caches
    <3>2. \A d \in Caches : \A g \in Frames(d) :
            block[d][g] = DirtyLine(a) => block'[d][g] = DirtyLine(a)
      BY <2>1, <3>1, MarkedStaysDirty
    <3> QED BY <3>1, <3>2 DEF Unsaved, DirtyLine
  <2>2. CASE UNCHANGED block
    BY <1>2, <2>2 DEF write, Unsaved
  <2> QED BY <1>2, <2>1, <2>2 DEF write
<1> QED BY <1>1, <1>2 DEF Requests, read, prefetch, walk

LEMMA LookupsSave ==
  ASSUME HierarchyInv, Lookups, NEW a, Unsaved(a)
  PROVE  Safe(a)
<1>1. CASE UNCHANGED <<block, wq, wr>>
  BY <1>1 DEF Unsaved, Safe
<1>2. ASSUME NEW x \in Addresses, memory_writes(x)
      PROVE  Safe(a)
  BY <1>2 DEF memory_writes, Unsaved, Safe
<1> QED BY <1>1, <1>2
        DEF Lookups, handle_read, handle_prefetch, walked, memory_returns

\* What a store has written is never lost on its way down, whatever the sizes
\* of caches and queues: a block is dirty somewhere, or waits in a write queue,
\* until memory writes it (handle_fill and handle_writeback of
\* non_inclusive_cache.cc).
THEOREM StoresAlwaysReachMemory == SpecKeeping => StoresReachMemory
<1>1. HierarchyInv /\ [NextKeeping]_vars =>
        [\A a \in Blocks : Unsaved(a) /\ ~Unsaved(a)' => a \in wr \ wr']_vars
  <2> SUFFICES ASSUME HierarchyInv, NextKeeping, NEW a \in Blocks, Unsaved(a)
               PROVE  Safe(a)
    BY DEF Safe
  <2>1. CASE Requests
    BY <2>1, RequestsSave DEF Safe
  <2>2. CASE KeepingHandlers
    BY <2>2, KeepFillSaves, WritebackSaves, LookupsSave DEF KeepingHandlers, Safe
  <2> QED BY <2>1, <2>2 DEF NextKeeping
<1> QED BY <1>1, KeepingInvariance, PTL DEF SpecKeeping, StoresReachMemory

-----------------------------------------------------------------------------
(* Misses, reads of memory, and the lines of the L1s *)

\* The inductive invariant of the misses holds in this build too: handle_fill
\* answers the same requesters, with or without a copy that stays behind.
THEOREM KeepingMisses == SpecKeeping => []MissesInv
<1>1. HierarchyInv /\ MissesInv /\ [NextKeeping]_vars => MissesInv'
  <2> SUFFICES ASSUME HierarchyInv, MissesInv, [NextKeeping]_vars PROVE MissesInv'
    OBVIOUS
  <2>1. CASE Requests
    BY <2>1, RequestsCarried
  <2>2. ASSUME NEW c \in Caches, keep_fill(c)
        PROVE  MissesInv'
    <3>1. PICK e \in mshr[c] :
                 /\ e.returned /\ mshr' = answer_above(c, e)
                 /\ rq' = rq /\ pq' = pq /\ rd' = rd
      BY <2>2 DEF keep_fill
    <3>2. mshr' = Answer([mshr EXCEPT ![c] = @ \ {e}], c, e)
      BY <3>1 DEF answer_above
    <3> QED BY <3>1, <3>2, FillCarried
  <2>3. CASE \E c \in Shared : absorb_writeback(c) \/ place_writeback(c)
    BY <2>3, MissesStutter DEF absorb_writeback, place_writeback
  <2>4. CASE Lookups
    BY <2>4, LookupsCarried
  <2>5. CASE UNCHANGED vars
    BY <2>5, MissesStutter DEF vars
  <2> QED BY <2>1, <2>2, <2>3, <2>4, <2>5 DEF NextKeeping, KeepingHandlers
<1> QED BY <1>1, MissesStart, KeepingInvariance, PTL DEF SpecKeeping

\* No request is lost in this build, and no answer comes for nothing
\* (non_inclusive_cache.cc: add_rq, return_data).
THEOREM KeepingMissesCarried == SpecKeeping => []MissesCarried
BY KeepingMisses, CarriedFromInvariant, PTL

\* LLC keeps to the contract of memory in this build: it never asks for a block
\* that it waits for, nor for one whose writeback waits (handle_read and
\* handle_fill of non_inclusive_cache.cc, add_rq of dram_controller.cc).
THEOREM KeepingUsesMemoryPort == SpecKeeping => UsesMemoryPort
<1>1. Init => Port!Init
  BY DEF Init, Port!Init
<1>2. HierarchyInv /\ HierarchyInv' /\ MissesInv /\ [NextKeeping]_vars
        => [Port!Next]_(Port!vars)
  <2> SUFFICES ASSUME HierarchyInv, HierarchyInv', MissesInv, [NextKeeping]_vars
               PROVE  PortStep
    BY DEF PortStep
  <2>1. CASE Requests
    BY <2>1, RequestsUsePort
  <2>2. wr' \subseteq Addresses
    BY DEF HierarchyInv
  <2>3. ASSUME NEW c \in Caches, NEW f \in Frames(c), NEW q, displace(c, f, q), rd' = rd
        PROVE  PortStep
    <3>1. block[c][f].dirty \in BOOLEAN
      BY DEF HierarchyInv, LinesOK, Lines, Line
    <3>2. evict(c, f, q)
      BY <2>3, <3>1, DisplacedIsEvicted
    <3> QED BY <2>2, <2>3, <3>2, PortEvict
  <2>4. ASSUME NEW c \in Caches, keep_fill(c)
        PROVE  PortStep
    <3>1. PICK a : \E f \in find_victim(c, a) : displace(c, f, wq) /\ rd' = rd
      BY <2>4 DEF keep_fill
    <3>2. PICK f \in find_victim(c, a) : displace(c, f, wq) /\ rd' = rd
      BY <3>1
    <3> QED BY <2>3, <3>2, VictimInSet
  <2>5. ASSUME NEW c \in Shared, place_writeback(c)
        PROVE  PortStep
    <3>1. PICK a, q : \E f \in find_victim(c, a) : displace(c, f, q) /\ rd' = rd
      BY <2>5 DEF place_writeback
    <3>2. PICK f \in find_victim(c, a) : displace(c, f, q) /\ rd' = rd
      BY <3>1
    <3> QED BY <2>3, <3>2, VictimInSet, Names
  <2>6. CASE \E c \in Shared : absorb_writeback(c)
    BY <2>6 DEF absorb_writeback, PortStep, Port!vars
  <2>7. CASE Lookups
    BY <2>7, LookupsUsePort
  <2>8. CASE UNCHANGED vars
    BY <2>8 DEF vars, PortStep, Port!vars
  <2> QED BY <2>1, <2>4, <2>5, <2>6, <2>7, <2>8 DEF NextKeeping, KeepingHandlers
<1> QED BY <1>1, <1>2, KeepingInvariance, KeepingMisses, PTL
        DEF SpecKeeping, UsesMemoryPort, Port!Spec

\* A frame that a shared cache takes is no frame of an L1.
LEMMA TakenBelowFewer ==
  ASSUME HierarchyInv, NEW c \in Shared, NEW f \in Frames(c), NEW a, NEW d,
         take(c, f, a, d)
  PROVE  FewerLines(block, block')
<1>1. c \in Caches /\ c \notin L1s /\ L1s \subseteq Caches
  BY Names DEF Shared, L1s
<1>2. \A k \in Caches : \A g \in Frames(k) : k # c \/ g # f => block'[k][g] = block[k][g]
  BY <1>1, TakenAlone
<1>3. \A k \in L1s : \A g \in Frames(k) : block'[k][g] = block[k][g]
  BY <1>1, <1>2
<1> QED BY <1>3 DEF FewerLines

LEMMA KeepFillSingle ==
  ASSUME HierarchyInv, MissesInv, L1Inv, NEW c \in Caches, keep_fill(c)
  PROVE  L1Inv'
<1> DEFINE Fills(e, f) ==
      /\ e.returned /\ mshr' = Answer([mshr EXCEPT ![c] = @ \ {e}], c, e)
      /\ take(c, f, e.address, c = "L1D" /\ e.type = "RFO")
<1>0. PICK e \in mshr[c] : \E f \in find_victim(c, e.address) : Fills(e, f)
  BY DEF keep_fill, answer_above
<1>1. PICK f \in find_victim(c, e.address) : Fills(e, f)
  BY <1>0
<1>2. f \in Frames(c) /\ GoodMisses(mshr)
  BY VictimInSet DEF MissesInv
<1>3. /\ FewerMisses(mshr, mshr')
      /\ c \in L1s => e.address \notin BlocksOf(mshr'[c])
  BY <1>1, EndedMiss
<1>4. take(c, f, e.address, c = "L1D" /\ e.type = "RFO")
  BY <1>1
<1>5. CASE c \in L1s
  <2>1. /\ block'[c][f].address = e.address
        /\ \A k \in L1s : \A g \in Frames(k) : k # c \/ g # f =>
             block'[k][g].address \in {0, block[k][g].address}
    <3> DEFINE d == c = "L1D" /\ e.type = "RFO"
    <3>1. take(c, f, e.address, d)
      BY <1>4
    <3> HIDE DEF d
    <3>2. /\ block'[c][f] = [address |-> e.address, dirty |-> d]
          /\ \A k \in Caches : \A g \in Frames(k) :
               k # c \/ g # f => block'[k][g] = block[k][g]
      BY <1>2, <3>1, TakenAlone
    <3> QED BY <3>2, Names
  <2>2. SingleLines(block) /\ NoMissHeld(block, mshr)
    BY DEF L1Inv
  <2>3. SingleLines(block') /\ NoMissHeld(block', mshr')
    BY <1>2, <1>3, <1>5, <2>1, <2>2, FillIsSingle
  <2> QED BY <2>3 DEF L1Inv
<1>6. CASE c \notin L1s
  <2>1. c \in Shared
    BY <1>6 DEF Caches, L1s, Shared
  <2>2. FewerLines(block, block')
    BY <1>2, <1>4, <2>1, TakenBelowFewer
  <2> QED BY <1>2, <1>3, <2>2, FewerKeeps
<1> QED BY <1>5, <1>6

\* The lines of the L1s lie in the sets of their blocks, one for a block, and
\* none for a block that its cache has a miss for, in this build too.
THEOREM KeepingL1s == SpecKeeping => []L1Inv
<1>1. HierarchyInv /\ MissesInv /\ L1Inv /\ [NextKeeping]_vars => L1Inv'
  <2> SUFFICES ASSUME HierarchyInv, MissesInv, L1Inv, [NextKeeping]_vars
               PROVE  L1Inv'
    OBVIOUS
  <2>0. GoodMisses(mshr) /\ LinesOK(block, stored)
    BY DEF HierarchyInv, MissesInv
  <2>1. CASE Requests
    BY <2>1, RequestsSingle
  <2>2. CASE \E c \in Caches : keep_fill(c)
    BY <2>2, KeepFillSingle
  <2>3. ASSUME NEW c \in Shared, absorb_writeback(c)
        PROVE  L1Inv'
    <3>1. FewerLines(block, block') /\ FewerMisses(mshr, mshr')
      BY <2>0, <2>3, MarkFewer, SameIsFewer, Names DEF absorb_writeback
    <3> QED BY <2>0, <3>1, FewerKeeps
  <2>4. ASSUME NEW c \in Shared, place_writeback(c)
        PROVE  L1Inv'
    <3>0. PICK a : \E f \in find_victim(c, a) : take(c, f, a, TRUE)
      BY <2>4 DEF place_writeback
    <3>1. PICK f \in find_victim(c, a) : take(c, f, a, TRUE)
      BY <3>0
    <3>2. FewerLines(block, block')
      BY <3>1, VictimInSet, Names, TakenBelowFewer
    <3>3. FewerMisses(mshr, mshr')
      BY <2>4, SameIsFewer DEF place_writeback
    <3> QED BY <2>0, <3>2, <3>3, FewerKeeps
  <2>5. CASE Lookups
    BY <2>5, LookupsSingle
  <2>6. CASE UNCHANGED vars
    BY <2>6 DEF vars, L1Inv
  <2> QED BY <2>1, <2>2, <2>3, <2>4, <2>5, <2>6 DEF NextKeeping, KeepingHandlers
<1> QED BY <1>1, L1sStart, KeepingInvariance, KeepingMisses, PTL DEF SpecKeeping

\* An L1 has one copy of a block at most, one miss for it at most, and never
\* both, in this build too (non_inclusive_cache.cc: handle_read, handle_fill).
THEOREM KeepingL1sHoldOnce == SpecKeeping => []L1CopiesAreSingle
BY KeepingL1s, KeepingMisses, SingleFromInvariant, PTL

-----------------------------------------------------------------------------
(* Copies of the shared caches, when the prefetcher of L1I is the only one *)
(* and no code is stored to                                                *)

\* A line of a shared cache lies in the set of its block, alone.
SharedAlone(b) ==
  \A c \in Shared : \A f, g \in Frames(c) : b[c][f].address # 0 =>
    /\ f \in SetOf(c, b[c][f].address)
    /\ b[c][g].address = b[c][f].address => f = g

\* A shared cache has no miss for a block it holds.
SharedUnheld(b, m) ==
  \A c \in Shared : \A f \in Frames(c) : b[c][f].address \notin BlocksOf(m[c])

\* Nobody waits for a block on its way down who would get it from the cache it
\* is on its way to.
Uncalled(w, m) == \A a \in Addresses :
  /\ a \in Elements(w["L2C"]) => ~Waits(m["L1D"], a)
  /\ a \in Elements(w["LLC"]) => ~Waits(m["L2C"], a)

\* L1I waits for code and the walker for its tables.
OwnBlocks(m) ==
  BlocksOf(m["L1I"]) \subseteq Code /\ BlocksOf(m["PTW"]) \subseteq TableBlocks

CodeClean(b) == \A f \in Frames("L1I") : ~b["L1I"][f].dirty

CopiesInv ==
  /\ SharedAlone(block) /\ SharedUnheld(block, mshr) /\ Uncalled(wq, mshr)
  /\ OwnBlocks(mshr) /\ CodeClean(block) /\ stored \subseteq Stored

\* From m to n, misses end or get their answers.
Quieter(m, n) ==
  \A k \in Requesters : /\ BlocksOf(n[k]) \subseteq BlocksOf(m[k])
                        /\ \A a : Waits(n[k], a) => Waits(m[k], a)

LEMMA SameIsQuieter ==
  /\ \A m : Quieter(m, m)
  /\ \A m, n, o : Quieter(m, n) /\ Quieter(n, o) => Quieter(m, o)
BY DEF Quieter

LEMMA ReturnedQuieter ==
  ASSUME NEW m, GoodMisses(m), NEW S, NEW a
  PROVE  Quieter(m, return_data(m, S, a))
<1> DEFINE n == return_data(m, S, a)
<1>1. \A k \in Requesters : \A x : Waits(n[k], x) => Waits(m[k], x)
  BY ReturnedMisses
<1>2. ASSUME NEW k \in Requesters, NEW e \in n[k]
      PROVE  \E d \in m[k] : d.address = e.address
  <2>1. m[k] \subseteq Packet
    BY DEF GoodMisses
  <2>2. \E d \in m[k] : e = d \/ e = [d EXCEPT !.returned = TRUE]
    BY <1>2 DEF return_data
  <2> QED BY <2>1, <2>2 DEF Packet
<1> HIDE DEF n
<1>3. Quieter(m, n)
  BY <1>1, <1>2 DEF Quieter, BlocksOf
<1> QED BY <1>3 DEF n

LEMMA AnsweredQuieter ==
  ASSUME NEW m, GoodMisses(m), NEW c, NEW p
  PROVE  /\ Quieter(m, Answer(m, c, p)) /\ Quieter(m, AnswerFlagged(m, c, p))
         /\ Quieter(m, Forwarded(m, c, p))
         /\ \A a : read_memory(m, a) => Quieter(m, mshr')
BY ReturnedQuieter, SameIsQuieter DEF Answer, AnswerFlagged, Forwarded, read_memory

LEMMA RemovedQuieter ==
  ASSUME NEW m, GoodMisses(m), NEW c \in Requesters, NEW e
  PROVE  LET n == [m EXCEPT ![c] = @ \ {e}] IN
         /\ Quieter(m, n)
         /\ e \in m[c] => e.address \notin BlocksOf(n[c])
<1> DEFINE n == [m EXCEPT ![c] = @ \ {e}]
<1>1. \A k \in Requesters : n[k] \subseteq m[k]
  BY DEF GoodMisses
<1>2. n[c] = m[c] \ {e} /\ SingleMisses(m[c])
  BY DEF GoodMisses
<1> HIDE DEF n
<1>3. Quieter(m, n)
  BY <1>1 DEF Quieter, BlocksOf, Waits
<1>4. e \in m[c] => e.address \notin BlocksOf(n[c])
  BY <1>2 DEF SingleMisses, BlocksOf
<1> QED BY <1>3, <1>4 DEF n

LEMMA MergedQuieter ==
  ASSUME NEW m, GoodMisses(m), NEW c \in Requesters, NEW p \in WellFormed, NEW merge,
         \A e \in m[c] : merge[e] \in {MergeMiss(e, p), MergeStore(e, p), Lowered(e, p)}
  PROVE  Quieter(m, Merged(m, c, p, merge))
<1> DEFINE n == Merged(m, c, p, merge)
           M == {IF e.address = p.address THEN merge[e] ELSE e : e \in m[c]}
<1>1. \A e \in m[c] : e.address = p.address =>
        merge[e].address = e.address /\ merge[e].returned = e.returned
  <2>1. m[c] \subseteq Packet /\ p \in Packet
    BY WellFormedPackets DEF GoodMisses
  <2> QED BY <2>1, MergesKeepMiss
<1>2. \A d \in M : \E e \in m[c] : d.address = e.address /\ d.returned = e.returned
  BY <1>1
<1>3. n = [m EXCEPT ![c] = M]
  BY DEF Merged
<1> HIDE DEF M, n
<1>4. \A k \in Requesters : \A d \in n[k] :
        \E e \in m[k] : d.address = e.address /\ d.returned = e.returned
  BY <1>2, <1>3 DEF GoodMisses
<1>5. Quieter(m, n)
  BY <1>4 DEF Quieter, BlocksOf, Waits
<1> QED BY <1>5 DEF n

\* A miss is added for the block of p, and may be answered at once.
LEMMA AddedQuieter ==
  ASSUME NEW m, GoodMisses(m), NEW c \in Requesters, NEW p \in WellFormed,
         Waiting(m, c, p.address) = {}, NEW n, Quieter(add_mshr(m, c, p), n)
  PROVE  \A k \in Requesters :
           /\ BlocksOf(n[k]) \subseteq
                IF k = c THEN BlocksOf(m[k]) \cup {p.address} ELSE BlocksOf(m[k])
           /\ \A a : Waits(n[k], a) => Waits(m[k], a) \/ (k = c /\ a = p.address)
<1> DEFINE o == add_mshr(m, c, p)
<1>1. p \in Packet
  BY WellFormedPackets
<1>2. \A k \in Requesters : \A a :
        Waits(o[k], a) <=> Waits(m[k], a) \/ (k = c /\ a = p.address)
  BY <1>1, AddedMiss
<1>3. \A k \in Requesters : o[k] \subseteq
        IF k = c THEN m[k] \cup {[p EXCEPT !.returned = FALSE]} ELSE m[k]
  BY DEF add_mshr, GoodMisses
<1>4. [p EXCEPT !.returned = FALSE].address = p.address
  BY <1>1 DEF Packet
<1> HIDE DEF o
<1>5. \A k \in Requesters : BlocksOf(o[k]) \subseteq
        IF k = c THEN BlocksOf(m[k]) \cup {p.address} ELSE BlocksOf(m[k])
  BY <1>3, <1>4 DEF BlocksOf
<1>6. Quieter(o, n)
  BY DEF o
<1> QED BY <1>2, <1>5, <1>6 DEF Quieter

\* Of a packet to fill an L1, the write queue answers those it is for.
LEMMA ForwardedReturns ==
  ASSUME NEW m, GoodMisses(m), NEW c \in Shared, NEW p \in WellFormed,
         p.fill_level = FILL_L1, p.address \in Elements(wq[c])
  PROVE  \A k \in IF c = "L2C" THEN Flagged(p) ELSE {"L2C"} :
           ~Waits(Forwarded(m, c, p)[k], p.address)
<1> DEFINE S == IF c = "L2C" THEN Flagged(p) ELSE {"L2C"}
<1>1. Forwarded(m, c, p) = return_data(m, S, p.address)
  BY DEF Forwarded, AnswerFlagged, fill_level, FILL_L1, FILL_L2, FILL_LLC, Shared
<1>2. S \subseteq Requesters
  BY DEF Flagged, L1s, Requesters, Caches
<1> HIDE DEF S
<1>3. \A k \in S : ~Waits(return_data(m, S, p.address)[k], p.address)
  BY <1>2, ReturnedMisses
<1> QED BY <1>1, <1>3 DEF S

\* Who ends or answers misses keeps what is said of them.
LEMMA QuieterKeeps ==
  ASSUME NEW m, NEW n, Quieter(m, n)
  PROVE  /\ \A b : SharedUnheld(b, m) => SharedUnheld(b, n)
         /\ \A w : Uncalled(w, m) => Uncalled(w, n)
         /\ OwnBlocks(m) => OwnBlocks(n)
BY Names DEF Quieter, SharedUnheld, Uncalled, OwnBlocks, Requesters, Caches, Shared

LEMMA LessKeeps ==
  ASSUME NEW b, NEW n, LessHeld(b, n), NEW m, GoodMisses(m), SharedAlone(b),
         SharedUnheld(b, m)
  PROVE  SharedAlone(n) /\ SharedUnheld(n, m)
<1>1. \A c \in Shared : c \in Caches /\ 0 \notin BlocksOf(m[c])
  BY Names, Sizes DEF BlocksOf, GoodMisses, Packet
<1>2. \A c \in Shared : \A f \in Frames(c) : n[c][f].address \in {0, b[c][f].address}
  BY <1>1 DEF LessHeld
<1>3. SharedUnheld(n, m)
  BY <1>1, <1>2 DEF SharedUnheld
<1>4. SharedAlone(n)
  BY <1>2 DEF SharedAlone
<1> QED BY <1>3, <1>4

\* A shared cache has no miss for a block whose writeback it has queued: the
\* miss would be for somebody above, who does not wait for it.
LEMMA NoMissQueued ==
  ASSUME HierarchyInv, MissesInv, ForL1Inv, CopiesInv, Code \cap Stored = {},
         NEW c \in Shared, NEW a \in Elements(wq[c])
  PROVE  a \in Addresses \cap stored /\ a \notin BlocksOf(mshr[c])
<1>1. a \in Addresses \cap stored
  <2>1. wq[c] \in Seq(Addresses \cap stored)
    BY DEF HierarchyInv, WritesOK
  <2> QED BY <2>1 DEF Elements
<1> SUFFICES ASSUME NEW e \in mshr[c], e.address = a
             PROVE  FALSE
  BY <1>1 DEF BlocksOf
<1>2. /\ e \in WellFormed /\ e \in Packet /\ e.fill_level = FILL_L1
      /\ CarriedOnce(mshr, rq, pq)
  BY Names, WellFormedPackets DEF MissesInv, GoodMisses, ForL1Inv, MissesForL1
<1>3. \A x \in Above(c) : Answered(x, e) => Waits(mshr[x], a)
  <2> SUFFICES ASSUME NEW x \in Above(c), Answered(x, e)
               PROVE  Waits(mshr[x], a)
    OBVIOUS
  <2>1. Sends(mshr[c], x, a)
    BY DEF Sends
  <2>2. CarriedAt(mshr, rq, pq, c, x, a)
    BY <1>1, <1>2 DEF CarriedOnce
  <2> QED BY <2>1, <2>2 DEF CarriedAt
<1>4. CASE c = "LLC"
  <2>1. Answered("L2C", e)
    BY <1>2, AnsweredTo DEF FILL_L1, FILL_LLC
  <2> QED BY <1>1, <1>3, <1>4, <2>1, SendersBelow DEF CopiesInv, Uncalled
<1>5. CASE c = "L2C"
  <2>1. e.type # "LOAD_TRANSLATION"
    <3>1. a \in Blocks /\ a \notin TableBlocks
      BY <1>1, HierarchyAssumption DEF HierarchyInv
    <3> QED BY <1>2, <3>1 DEF WellFormed
  <2>2. Answered("L1I", e) \/ Answered("L1D", e)
    BY <1>2, <2>1, AnsweredAbove
  <2>3. ~Waits(mshr["L1D"], a)
    BY <1>1, <1>5 DEF CopiesInv, Uncalled
  <2>4. Waits(mshr["L1I"], a)
    BY <1>3, <1>5, <2>2, <2>3, SendersBelow
  <2>5. a \in Code /\ a \in Stored
    BY <1>1, <2>4 DEF CopiesInv, OwnBlocks, Waits, BlocksOf
  <2> QED BY <2>5
<1> QED BY <1>4, <1>5 DEF Shared

\* Requester c, above L2C, asks for the block of p: when the block is on its
\* way down to L2C, c has it at once.
LEMMA RequestedUncalled ==
  ASSUME MissesInv, CopiesInv, NEW c \in Above("L2C"), NEW p, NEW merge,
         Requested(c, p, merge)
  PROVE  /\ SharedUnheld(block, mshr') /\ OwnBlocks(mshr')
         /\ \A w : w = wq => Uncalled(w, mshr')
<1> DEFINE n == add_mshr(mshr, c, p)
<1>1. /\ c \in Requesters /\ c \notin Shared /\ GoodMisses(mshr) /\ p \in WellFormed
      /\ p \in Packet /\ p.fill_level = FILL_L1 /\ "L2C" \in Shared
      /\ SharedUnheld(block, mshr) /\ OwnBlocks(mshr) /\ Uncalled(wq, mshr)
  BY SendersBelow, WellFormedPackets DEF Shared, MissesInv, Requested, CopiesInv
<1>2. CASE mshr' = Merged(mshr, c, p, merge)
  <2>1. Quieter(mshr, mshr')
    BY <1>1, <1>2, MergedQuieter DEF Requested
  <2> QED BY <1>1, <2>1, QuieterKeeps
<1>3. CASE Waiting(mshr, c, p.address) = {} /\ mshr' = Forwarded(n, "L2C", p)
  <2>1. GoodMisses(n)
    BY <1>1, <1>3, AddedMiss
  <2>2. Quieter(n, mshr')
    <3> HIDE DEF n
    <3> QED BY <1>3, <2>1, AnsweredQuieter
  <2>3. \A k \in Requesters :
          /\ BlocksOf(mshr'[k]) \subseteq
               IF k = c THEN BlocksOf(mshr[k]) \cup {p.address} ELSE BlocksOf(mshr[k])
          /\ \A a : Waits(mshr'[k], a) => Waits(mshr[k], a) \/ (k = c /\ a = p.address)
    BY <1>1, <1>3, <2>2, AddedQuieter
  <2>4. c = "L1D" /\ p.address \in Elements(wq["L2C"]) => ~Waits(mshr'["L1D"], p.address)
    <3> SUFFICES ASSUME c = "L1D", p.address \in Elements(wq["L2C"])
                 PROVE  ~Waits(mshr'["L1D"], p.address)
      OBVIOUS
    <3>1. "L1D" \in Flagged(p)
      BY DEF Requested, L1s
    <3> HIDE DEF n
    <3> QED BY <1>1, <1>3, <2>1, <3>1, ForwardedReturns
  <2>5. SharedUnheld(block, mshr')
    BY <1>1, <2>3, Names DEF SharedUnheld
  <2>6. OwnBlocks(mshr')
    BY <1>1, <2>3 DEF OwnBlocks, Requested, Requesters, Caches
  <2>7. Uncalled(wq, mshr')
    BY <1>1, <2>3, <2>4 DEF Uncalled, Requesters, Caches, Shared
  <2> QED BY <2>5, <2>6, <2>7
<1> QED BY <1>2, <1>3 DEF Requested

LEMMA RequestsCopies ==
  ASSUME HierarchyInv, MissesInv, CopiesInv, Prefetchers \subseteq {"L1I"}, Requests
  PROVE  CopiesInv'
<1>1. wq' = wq /\ stored' \subseteq Stored
  BY DEF Requests, read, write, prefetch, walk, CopiesInv
<1>2. SharedUnheld(block, mshr') /\ OwnBlocks(mshr') /\ Uncalled(wq', mshr')
  <2>1. CASE UNCHANGED <<mshr, pq>>
    BY <1>1, <2>1 DEF CopiesInv
  <2>2. CASE \E c \in Above("L2C") : \E p, merge : Requested(c, p, merge)
    BY <1>1, <2>2, RequestedUncalled
  <2> QED BY <2>1, <2>2, RequestsAreRequested
<1>3. GoodMisses(mshr')
  BY RequestsCarried DEF MissesInv
<1>4. SharedAlone(block') /\ SharedUnheld(block', mshr')
  BY <1>2, <1>3, RequestsHold, LessKeeps DEF CopiesInv
<1>5. CodeClean(block')
  <2>1. block'["L1I"] = block["L1I"]
    <3>1. block' = block \/ \E a : block' = MarkDirty("L1D", a)
      BY DEF Requests, read, write, prefetch, walk
    <3>2. "L1I" \in DOMAIN block
      BY DEF HierarchyInv, LinesOK, Caches
    <3> QED BY <3>1, <3>2 DEF MarkDirty
  <2> QED BY <2>1 DEF CodeClean, CopiesInv
<1> QED BY <1>1, <1>2, <1>4, <1>5 DEF CopiesInv

\* A lookup in L2C makes a miss only for a block that L2C does not hold; when
\* the block is on its way down to LLC, L2C has it at once.
LEMMA LookedUpUncalled ==
  ASSUME MissesInv, CopiesInv, NEW c \in Shared, NEW p, NEW merge, LookedUp(c, p, merge)
  PROVE  /\ SharedUnheld(block, mshr') /\ OwnBlocks(mshr')
         /\ \A w : w = wq => Uncalled(w, mshr')
<1> DEFINE n == add_mshr(mshr, c, p)
<1>1. /\ c \in Requesters /\ GoodMisses(mshr) /\ p \in WellFormed /\ p \in Packet
      /\ p.fill_level = FILL_L1 /\ "LLC" \in Shared /\ c \in Caches
      /\ SharedUnheld(block, mshr) /\ OwnBlocks(mshr) /\ Uncalled(wq, mshr)
      /\ SharedAlone(block)
  BY Names, WellFormedPackets DEF Shared, MissesInv, LookedUp, CopiesInv
<1>2. CASE mshr' \in {Answer(mshr, c, p), AnswerFlagged(mshr, c, p), Merged(mshr, c, p, merge)}
  <2>1. Quieter(mshr, mshr')
    BY <1>1, <1>2, MergedQuieter, AnsweredQuieter DEF LookedUp
  <2> QED BY <1>1, <2>1, QuieterKeeps
<1>3. CASE /\ ~check_hit(c, p.address) /\ Waiting(mshr, c, p.address) = {}
           /\ \/ c = "L2C" /\ mshr' = Forwarded(n, "LLC", p)
              \/ c # "L2C" /\ read_memory(n, p.address)
  <2>1. GoodMisses(n)
    BY <1>1, <1>3, AddedMiss
  <2>2. Quieter(n, mshr')
    <3> HIDE DEF n
    <3> QED BY <1>3, <2>1, AnsweredQuieter
  <2>3. \A k \in Requesters :
          /\ BlocksOf(mshr'[k]) \subseteq
               IF k = c THEN BlocksOf(mshr[k]) \cup {p.address} ELSE BlocksOf(mshr[k])
          /\ \A a : Waits(mshr'[k], a) => Waits(mshr[k], a) \/ (k = c /\ a = p.address)
    BY <1>1, <1>3, <2>2, AddedQuieter
  <2>4. c = "L2C" /\ p.address \in Elements(wq["LLC"]) => ~Waits(mshr'["L2C"], p.address)
    <3> HIDE DEF n
    <3> QED BY <1>1, <1>3, <2>1, ForwardedReturns
  <2>5. \A f \in Frames(c) : block[c][f].address # p.address
    <3> SUFFICES ASSUME NEW f \in Frames(c), block[c][f].address = p.address
                 PROVE  FALSE
      OBVIOUS
    <3>1. p.address # 0
      BY <1>1, Sizes DEF Packet
    <3>2. f \in SetOf(c, p.address)
      BY <1>1, <3>1 DEF SharedAlone
    <3> QED BY <1>3, <3>2 DEF check_hit, Holding
  <2>6. SharedUnheld(block, mshr')
    BY <1>1, <2>3, <2>5, Names DEF SharedUnheld
  <2>7. OwnBlocks(mshr')
    BY <1>1, <2>3 DEF OwnBlocks, Requesters, Caches, Shared
  <2>8. Uncalled(wq, mshr')
    BY <1>1, <2>3, <2>4 DEF Uncalled, Requesters, Caches, Shared
  <2> QED BY <2>6, <2>7, <2>8
<1> QED BY <1>2, <1>3 DEF LookedUp

LEMMA LookupsCopies ==
  ASSUME MissesInv, ForL1Inv, CopiesInv, Prefetchers \subseteq {"L1I"}, Lookups
  PROVE  CopiesInv'
<1>0. block' = block /\ wq' = wq /\ stored' = stored /\ GoodMisses(mshr)
  BY LookupsForL1 DEF Lookups, handle_read, handle_prefetch, walked, memory_returns,
                      memory_writes, MissesInv
<1>1. ASSUME NEW c \in Shared, handle_read(c) \/ handle_prefetch(c)
      PROVE  SharedUnheld(block, mshr') /\ OwnBlocks(mshr') /\ Uncalled(wq, mshr')
  BY <1>1, LookupLooksUp, LookedUpUncalled
<1>2. ASSUME Quieter(mshr, mshr')
      PROVE  SharedUnheld(block, mshr') /\ OwnBlocks(mshr') /\ Uncalled(wq, mshr')
  BY <1>2, QuieterKeeps DEF CopiesInv
<1>3. CASE walked
  <2>1. PICK e \in mshr["PTW"] : mshr' = [mshr EXCEPT !["PTW"] = @ \ {e}]
    BY <1>3 DEF walked
  <2>2. Quieter(mshr, mshr')
    BY <1>0, <2>1, RemovedQuieter, Names
  <2> QED BY <1>0, <1>2, <2>2 DEF CopiesInv
<1>4. CASE \E a \in Addresses : memory_returns(a) \/ memory_writes(a)
  <2>1. Quieter(mshr, mshr')
    BY <1>0, <1>4, ReturnedQuieter, SameIsQuieter DEF memory_returns, memory_writes
  <2> QED BY <1>0, <1>2, <2>1 DEF CopiesInv
<1> QED BY <1>0, <1>1, <1>3, <1>4 DEF Lookups, CopiesInv

\* A write queue takes one block, or none, and gives the head.
LEMMA WriteQueueHolds ==
  ASSUME NEW st, NEW q, WritesOK(q, st), NEW c \in Shared
  PROVE  /\ \A a \in Addresses \cap st : \A d \in Shared :
              Elements(QueueWrite(q, c, a)[d]) \subseteq
                IF d = c THEN Elements(q[d]) \cup {a} ELSE Elements(q[d])
         /\ q[c] # <<>> => \A d \in Shared :
              Elements([q EXCEPT ![c] = Tail(@)][d]) \subseteq Elements(q[d])
<1>1. /\ DOMAIN q = Shared /\ q[c] \in Seq(Addresses \cap st)
  BY DEF WritesOK
<1>2. ASSUME NEW a \in Addresses \cap st, NEW d \in Shared
      PROVE  Elements(QueueWrite(q, c, a)[d]) \subseteq
               IF d = c THEN Elements(q[d]) \cup {a} ELSE Elements(q[d])
  <2>1. Elements(Append(q[c], a)) \subseteq Elements(q[c]) \cup {a}
    BY <1>1 DEF Elements
  <2>2. QueueWrite(q, c, a)[d] = q[d] \/ (d = c /\ QueueWrite(q, c, a)[d] = Append(q[c], a))
    BY <1>1 DEF QueueWrite
  <2> QED BY <2>1, <2>2
<1>3. ASSUME q[c] # <<>>, NEW d \in Shared
      PROVE  Elements([q EXCEPT ![c] = Tail(@)][d]) \subseteq Elements(q[d])
  <2>1. Elements(Tail(q[c])) \subseteq Elements(q[c])
    <3> SUFFICES ASSUME NEW i \in DOMAIN Tail(q[c])
                 PROVE  Tail(q[c])[i] \in Elements(q[c])
      BY DEF Elements
    <3>1. i + 1 \in DOMAIN q[c] /\ Tail(q[c])[i] = q[c][i + 1]
      BY <1>1, <1>3
    <3> QED BY <3>1 DEF Elements
  <2>2. [q EXCEPT ![c] = Tail(@)][d] = IF d = c THEN Tail(q[c]) ELSE q[d]
    BY <1>1
  <2> QED BY <2>1, <2>2
<1> QED BY <1>2, <1>3

\* A dirty line goes down to a cache that nobody asks for its block: its own
\* cache holds it, and has no miss for it.
LEMMA DisplacedUncalled ==
  ASSUME HierarchyInv, MissesInv, L1Inv, CopiesInv, NEW c \in Caches,
         NEW f \in Frames(c), NEW q, WritesOK(q, stored),
         \A d \in Shared : Elements(q[d]) \subseteq Elements(wq[d]), displace(c, f, q)
  PROVE  \A w : w = wq' => Uncalled(w, mshr)
<1> DEFINE v == block[c][f].address
<1>1. \A d \in Shared : Elements(wq'[d]) \subseteq
        IF c \in {"L1D", "L2C"} /\ d = Lower(c) THEN Elements(q[d]) \cup {v}
        ELSE Elements(q[d])
  <2>1. CASE wq' = q
    BY <2>1
  <2>2. CASE /\ block[c][f].dirty /\ c # "LLC"
             /\ wq' = QueueWrite(q, Lower(c), block[c][f].address)
    <3>1. v \in Addresses \cap stored /\ Lower(c) \in Shared
      BY <2>2, Names DEF HierarchyInv, LinesOK, Lines, Addresses
    <3>2. c # "L1I"
      BY <2>2 DEF CopiesInv, CodeClean
    <3>3. c \in {"L1D", "L2C"}
      BY <2>2, <3>2 DEF Caches
    <3> HIDE DEF v
    <3>4. wq' = QueueWrite(q, Lower(c), v)
      BY <2>2 DEF v
    <3> QED BY <3>1, <3>3, <3>4, WriteQueueHolds
  <2> QED BY <2>1, <2>2 DEF displace
<1>2. c \in {"L1D", "L2C"} => ~Waits(mshr[c], v)
  <2>1. c \in {"L1D", "L2C"} => v \notin BlocksOf(mshr[c])
    BY DEF L1Inv, NoMissHeld, CopiesInv, SharedUnheld, L1s, Shared
  <2> QED BY <2>1 DEF Waits, BlocksOf
<1>3. Uncalled(wq, mshr)
  BY DEF CopiesInv
<1> HIDE DEF v
<1>4. Uncalled(wq', mshr)
  <2> SUFFICES ASSUME NEW a \in Addresses
               PROVE  /\ a \in Elements(wq'["L2C"]) => ~Waits(mshr["L1D"], a)
                      /\ a \in Elements(wq'["LLC"]) => ~Waits(mshr["L2C"], a)
    BY DEF Uncalled
  <2>1. a \in Elements(wq'["L2C"]) => a \in Elements(wq["L2C"]) \/ (c = "L1D" /\ a = v)
    BY <1>1 DEF Lower, Shared
  <2>2. a \in Elements(wq'["LLC"]) => a \in Elements(wq["LLC"]) \/ (c = "L2C" /\ a = v)
    BY <1>1 DEF Lower, Shared
  <2> QED BY <1>2, <1>3, <2>1, <2>2 DEF Uncalled
<1> QED BY <1>4

\* Shared cache c takes a block that it does not hold and has no miss for.
LEMMA TakenAlonePerSet ==
  ASSUME HierarchyInv, SharedAlone(block), NEW m, SharedUnheld(block, m),
         NEW c \in Shared, NEW a \in Addresses, a \notin BlocksOf(m[c]),
         \A g \in Frames(c) : block[c][g].address # a,
         NEW f \in find_victim(c, a), NEW dirty, take(c, f, a, dirty)
  PROVE  SharedAlone(block') /\ SharedUnheld(block', m)
<1>1. c \in Caches /\ f \in SetOf(c, a) /\ f \in Frames(c)
  BY VictimInSet, Names
<1>2. /\ block'[c][f].address = a
      /\ \A k \in Shared : \A g \in Frames(k) :
           k # c \/ g # f => block'[k][g] = block[k][g]
  <2>1. /\ block'[c][f] = [address |-> a, dirty |-> dirty]
        /\ \A k \in Caches : \A g \in Frames(k) :
             k # c \/ g # f => block'[k][g] = block[k][g]
    BY <1>1, TakenAlone
  <2> QED BY <2>1, Names
<1>3. SharedUnheld(block', m)
  <2> SUFFICES ASSUME NEW k \in Shared, NEW g \in Frames(k)
               PROVE  block'[k][g].address \notin BlocksOf(m[k])
    BY DEF SharedUnheld
  <2>1. CASE k = c /\ g = f
    BY <1>2, <2>1
  <2>2. CASE k # c \/ g # f
    BY <1>2, <2>2 DEF SharedUnheld
  <2> QED BY <2>1, <2>2
<1>4. SharedAlone(block')
  <2> SUFFICES ASSUME NEW k \in Shared, NEW g \in Frames(k), NEW h \in Frames(k),
                      block'[k][g].address # 0
               PROVE  /\ g \in SetOf(k, block'[k][g].address)
                      /\ block'[k][h].address = block'[k][g].address => g = h
    BY DEF SharedAlone
  <2>1. CASE k = c /\ g = f
    BY <1>1, <1>2, <2>1
  <2>2. CASE k = c /\ h = f /\ g # f
    BY <1>2, <2>2 DEF SharedAlone
  <2>3. CASE k # c \/ (g # f /\ h # f)
    BY <1>2, <2>3 DEF SharedAlone
  <2> QED BY <2>1, <2>2, <2>3
<1> QED BY <1>3, <1>4

LEMMA KeepFillCopies ==
  ASSUME HierarchyInv, MissesInv, L1Inv, CopiesInv, NEW c \in Caches, keep_fill(c)
  PROVE  CopiesInv'
<1> DEFINE Fills(e, f) ==
      /\ e.returned /\ mshr' = Answer([mshr EXCEPT ![c] = @ \ {e}], c, e)
      /\ displace(c, f, wq)
      /\ take(c, f, e.address, c = "L1D" /\ e.type = "RFO")
<1>0. PICK e \in mshr[c] : \E f \in find_victim(c, e.address) : Fills(e, f)
  BY DEF keep_fill, answer_above
<1>1. PICK f \in find_victim(c, e.address) : Fills(e, f)
  BY <1>0
<1> DEFINE m == [mshr EXCEPT ![c] = @ \ {e}]
           dirty == c = "L1D" /\ e.type = "RFO"
<1>2. c \in Requesters /\ f \in Frames(c) /\ GoodMisses(mshr) /\ e.address \in Addresses
  <2>1. c \in Requesters /\ GoodMisses(mshr)
    BY Names DEF MissesInv
  <2>2. e \in Packet
    BY <2>1 DEF GoodMisses
  <2> QED BY <2>1, <2>2, VictimInSet DEF Packet
<1>3. GoodMisses(m) /\ Quieter(mshr, m) /\ e.address \notin BlocksOf(m[c])
  BY <1>1, <1>2, RemovedMiss, RemovedQuieter
<1>4. take(c, f, e.address, dirty) /\ mshr' = Answer(m, c, e)
  BY <1>1
<1> HIDE DEF m
<1>5. Quieter(mshr, mshr') /\ e.address \notin BlocksOf(mshr'[c])
  <2>1. Quieter(m, mshr')
    BY <1>3, <1>4, AnsweredQuieter
  <2> QED BY <1>2, <1>3, <2>1, SameIsQuieter DEF Quieter
<1>6. Uncalled(wq', mshr') /\ OwnBlocks(mshr') /\ SharedUnheld(block, mshr')
  <2>1. Uncalled(wq', mshr)
    BY <1>1, <1>2, DisplacedUncalled DEF HierarchyInv
  <2> QED BY <1>5, <2>1, QuieterKeeps DEF CopiesInv
<1>7. SharedAlone(block') /\ SharedUnheld(block', mshr')
  <2>1. CASE c \in Shared
    <3>1. \A g \in Frames(c) : block[c][g].address # e.address
      BY <2>1 DEF CopiesInv, SharedUnheld, BlocksOf
    <3> QED BY <1>1, <1>2, <1>4, <1>5, <1>6, <2>1, <3>1, TakenAlonePerSet DEF CopiesInv
  <2>2. CASE c \notin Shared
    <3>1. \A k \in Shared : \A g \in Frames(k) : block'[k][g] = block[k][g]
      BY <1>2, <1>4, <2>2, TakenAlone, Names
    <3> QED BY <1>6, <3>1 DEF CopiesInv, SharedAlone, SharedUnheld
  <2> QED BY <2>1, <2>2
<1>8. CodeClean(block')
  <2>1. /\ block'[c][f] = [address |-> e.address, dirty |-> dirty]
        /\ \A k \in Caches : \A g \in Frames(k) :
             k # c \/ g # f => block'[k][g] = block[k][g]
    BY <1>2, <1>4, TakenAlone
  <2>2. c = "L1I" => ~dirty
    OBVIOUS
  <2> HIDE DEF dirty
  <2> QED BY <2>1, <2>2 DEF CodeClean, CopiesInv, Caches
<1>9. stored' \subseteq Stored
  BY DEF keep_fill, CopiesInv
<1> QED BY <1>6, <1>7, <1>8, <1>9 DEF CopiesInv

LEMMA AbsorbCopies ==
  ASSUME HierarchyInv, MissesInv, CopiesInv, NEW c \in Shared, absorb_writeback(c)
  PROVE  CopiesInv'
<1>1. /\ c \in Caches /\ mshr' = mshr /\ stored' = stored
      /\ wq[c] # <<>> /\ wq' = [wq EXCEPT ![c] = Tail(@)]
      /\ block' = MarkDirty(c, Head(wq[c]))
  BY Names DEF absorb_writeback
<1>2. LessHeld(block, block') /\ block'["L1I"] = block["L1I"]
  <2>1. "L1I" \in DOMAIN block /\ c # "L1I"
    BY DEF HierarchyInv, LinesOK, Caches, Shared
  <2>2. block'["L1I"] = block["L1I"]
    BY <1>1, <2>1 DEF MarkDirty
  <2> QED BY <1>1, <2>2, MarkHolds DEF HierarchyInv
<1>3. SharedAlone(block') /\ SharedUnheld(block', mshr)
  BY <1>2, LessKeeps DEF CopiesInv, MissesInv
<1>4. \A d \in Shared : Elements(wq'[d]) \subseteq Elements(wq[d])
  BY <1>1, WriteQueueHolds DEF HierarchyInv
<1>5. Uncalled(wq', mshr)
  BY <1>4 DEF Uncalled, CopiesInv, Shared
<1> QED BY <1>1, <1>2, <1>3, <1>5 DEF CopiesInv, CodeClean

\* A writeback takes a frame for a block that is not held there, and for which
\* there is no miss.
LEMMA PlaceCopies ==
  ASSUME HierarchyInv, MissesInv, L1Inv, ForL1Inv, CopiesInv, Code \cap Stored = {},
         NEW c \in Shared, place_writeback(c)
  PROVE  CopiesInv'
<1> DEFINE a == Head(wq[c])
           q == [wq EXCEPT ![c] = Tail(@)]
<1>1. /\ c \in Caches /\ mshr' = mshr /\ stored' = stored
      /\ wq[c] # <<>> /\ ~check_hit(c, a)
  BY Names DEF place_writeback
<1>2. PICK f \in find_victim(c, a) : displace(c, f, q) /\ take(c, f, a, TRUE)
  BY DEF place_writeback
<1>3. WritesOK(q, stored) /\ \A d \in Shared : Elements(q[d]) \subseteq Elements(wq[d])
  BY <1>1, WriteTaken, WriteQueueHolds DEF HierarchyInv
<1>4. a \in Elements(wq[c])
  <2>1. wq[c] \in Seq(Addresses \cap stored)
    BY DEF HierarchyInv, WritesOK
  <2>2. 1 \in DOMAIN wq[c] /\ Head(wq[c]) = wq[c][1]
    BY <1>1, <2>1
  <2> QED BY <2>2 DEF Elements
<1> HIDE DEF a, q
<1>5. a \in Addresses /\ a # 0 /\ a \notin BlocksOf(mshr[c]) /\ f \in Frames(c)
  BY <1>1, <1>2, <1>4, NoMissQueued, Sizes, VictimInSet
<1>6. Uncalled(wq', mshr)
  BY <1>1, <1>2, <1>3, <1>5, DisplacedUncalled
<1>7. \A g \in Frames(c) : block[c][g].address # a
  <2> SUFFICES ASSUME NEW g \in Frames(c), block[c][g].address = a
               PROVE  FALSE
    OBVIOUS
  <2>1. g \in SetOf(c, a)
    BY <1>5 DEF CopiesInv, SharedAlone
  <2> QED BY <1>1, <2>1 DEF check_hit, Holding
<1>8. SharedAlone(block') /\ SharedUnheld(block', mshr)
  BY <1>2, <1>5, <1>7, TakenAlonePerSet DEF CopiesInv
<1>9. CodeClean(block')
  <2>1. \A g \in Frames("L1I") : block'["L1I"][g] = block["L1I"][g]
    <3>1. c # "L1I" /\ "L1I" \in Caches
      BY DEF Caches, Shared
    <3> QED BY <1>1, <1>2, <1>5, <3>1, TakenAlone
  <2> QED BY <2>1 DEF CodeClean, CopiesInv
<1> QED BY <1>1, <1>6, <1>8, <1>9 DEF CopiesInv

LEMMA CopiesStart == Init => CopiesInv
<1> SUFFICES ASSUME Init PROVE CopiesInv
  OBVIOUS
<1>1. \A c \in Caches : \A f \in Frames(c) :
        block[c][f].address = 0 /\ ~block[c][f].dirty
  BY DEF Init, NoLine
<1>2. \A c \in Requesters : mshr[c] = {}
  BY DEF Init
<1>3. \A c \in Shared : Elements(wq[c]) = {}
  BY DEF Init, Elements
<1> QED BY <1>1, <1>2, <1>3, Names
        DEF Init, CopiesInv, SharedAlone, SharedUnheld, Uncalled, OwnBlocks, CodeClean,
            BlocksOf, Waits, Requesters, Caches, Shared

LEMMA CopiesFromInvariant == L1Inv /\ CopiesInv => CopiesAreSingle
<1> SUFFICES ASSUME L1Inv, CopiesInv, NEW c \in Caches, NEW a \in Addresses
             PROVE  Cardinality(Holding(block, c, a)) <= 1
  BY DEF CopiesAreSingle
<1>1. a # 0
  BY Sizes
<1>2. \A f, g \in Holding(block, c, a) : f = g
  <2> SUFFICES ASSUME NEW f \in Holding(block, c, a), NEW g \in Holding(block, c, a)
               PROVE  f = g
    OBVIOUS
  <2>1. /\ f \in Frames(c) /\ g \in Frames(c)
        /\ block[c][f].address = a /\ block[c][g].address = a
    BY FramesOfSet
  <2> QED BY <1>1, <2>1 DEF L1Inv, SingleLines, CopiesInv, SharedAlone, Caches, L1s, Shared
<1>3. CASE Holding(block, c, a) = {}
  BY <1>3, FS_EmptySet
<1>4. ASSUME NEW f \in Holding(block, c, a)
      PROVE  Cardinality(Holding(block, c, a)) <= 1
  <2>1. Holding(block, c, a) = {f}
    BY <1>2, <1>4
  <2>2. Cardinality({f}) = 1
    BY FS_Singleton
  <2> QED BY <2>1, <2>2
<1> QED BY <1>3, <1>4

\* When only the fetch prefetcher runs and no code is stored to, a cache never
\* holds a block twice, although writebacks and fills take frames without
\* looking for each other (handle_fill and handle_writeback of
\* non_inclusive_cache.cc:196, 689): a block is never missed where its
\* writeback arrives.
THEOREM KeepingCopiesSingle ==
  ASSUME Prefetchers \subseteq {"L1I"}, Code \cap Stored = {}
  PROVE  SpecKeeping => []CopiesAreSingle
<1>1. HierarchyInv /\ MissesInv /\ ForL1Inv /\ [NextKeeping]_vars => ForL1Inv'
  <2> SUFFICES ASSUME HierarchyInv, MissesInv, ForL1Inv, [NextKeeping]_vars
               PROVE  ForL1Inv'
    OBVIOUS
  <2>1. CASE Requests
    BY <2>1, RequestsForL1
  <2>2. ASSUME NEW c \in Caches, keep_fill(c)
        PROVE  ForL1Inv'
    <3>1. PICK e \in mshr[c] :
            /\ e.returned /\ mshr' = Answer([mshr EXCEPT ![c] = @ \ {e}], c, e)
            /\ pq' = pq
      BY <2>2 DEF keep_fill, answer_above
    <3> QED BY <3>1, EndedForL1
  <2>3. CASE \E c \in Shared : absorb_writeback(c) \/ place_writeback(c)
    BY <2>3 DEF absorb_writeback, place_writeback, ForL1Inv
  <2>4. CASE Lookups
    BY <2>4, LookupsForL1
  <2>5. CASE UNCHANGED vars
    BY <2>5 DEF vars, ForL1Inv
  <2> QED BY <2>1, <2>2, <2>3, <2>4, <2>5 DEF NextKeeping, KeepingHandlers
<1>2. HierarchyInv /\ MissesInv /\ L1Inv /\ ForL1Inv /\ CopiesInv /\ [NextKeeping]_vars
        => CopiesInv'
  <2> SUFFICES ASSUME HierarchyInv, MissesInv, L1Inv, ForL1Inv, CopiesInv,
                      [NextKeeping]_vars
               PROVE  CopiesInv'
    OBVIOUS
  <2>1. CASE Requests
    BY <2>1, RequestsCopies
  <2>2. CASE \E c \in Caches : keep_fill(c)
    BY <2>2, KeepFillCopies
  <2>3. CASE \E c \in Shared : absorb_writeback(c) \/ place_writeback(c)
    BY <2>3, AbsorbCopies, PlaceCopies
  <2>4. CASE Lookups
    BY <2>4, LookupsCopies
  <2>5. CASE UNCHANGED vars
    BY <2>5 DEF vars, CopiesInv
  <2> QED BY <2>1, <2>2, <2>3, <2>4, <2>5 DEF NextKeeping, KeepingHandlers
<1> QED BY <1>1, <1>2, ForL1Starts, CopiesStart, CopiesFromInvariant,
           KeepingInvariance, KeepingMisses, KeepingL1s, PTL DEF SpecKeeping
=============================================================================
