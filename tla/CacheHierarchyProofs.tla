------------------------ MODULE CacheHierarchyProofs ------------------------
(***************************************************************************)
(* Proofs about CacheHierarchy for every size of its caches, queues and    *)
(* MSHR files, every set of blocks and every choice of prefetchers.        *)
(* HierarchyInv says of each variable what a line, a miss or a queue may   *)
(* hold when the blocks st have been stored.  MissesInv says that whoever  *)
(* waits for a block is named by one packet below, in one place.  L1Inv    *)
(* says that the lines and the misses of an L1 are single.  ExclusionInv,  *)
(* for a build that prefetches into L1I only, says that every packet is to *)
(* fill an L1 and that a block is held in one place.  Of each, first come  *)
(* the lemmas about what the operators of the model make of it, then those *)
(* about the actions.                                                      *)
(***************************************************************************)
EXTENDS CacheHierarchy, FunctionTheorems, FiniteSetTheorems,
        WellFoundedInduction, TLAPS

\* A line that is dirty holds a block that has been stored.
Lines(st) == {l \in Line : l.dirty => l.address \in st}

LinesOK(b, st) ==
  DOMAIN b = Caches /\ \A c \in Caches : b[c] \in [Frames(c) -> Lines(st)]

\* A miss of L1D that will fill a dirty line is one for a stored block.
Misses(c, st) ==
  {e \in Packet : c = "L1D" /\ e.type = "RFO" => e.address \in st}

MissesOK(m, st) ==
  /\ m \in [Requesters -> SUBSET Packet]
  /\ \A c \in Requesters : /\ m[c] \subseteq Misses(c, st)
                           /\ IsFiniteSet(m[c])
                           /\ Cardinality(m[c]) <= MSHR_SIZE(c)

ReadsOK(q) ==
  q \in [Shared -> Seq(Packet)] /\ \A c \in Shared : Len(q[c]) <= RQ_SIZE(c)

PrefetchesOK(q) ==
  q \in [Shared -> Seq(Packet)] /\ \A c \in Shared : Len(q[c]) <= PQ_SIZE(c)

WritesOK(q, st) ==
  /\ q \in [Shared -> Seq(Addresses \cap st)]
  /\ \A c \in Shared : Len(q[c]) <= WQ_SIZE(c)

HierarchyInv ==
  /\ LinesOK(block, stored)
  /\ MissesOK(mshr, stored)
  /\ ReadsOK(rq) /\ PrefetchesOK(pq) /\ WritesOK(wq, stored)
  /\ rd \subseteq Addresses /\ wr \subseteq Addresses \cap stored
  /\ stored \subseteq Blocks /\ unfilled \subseteq Blocks
  /\ issued \in 0 .. MaxRequests /\ translated \in 0 .. MaxTranslations

-----------------------------------------------------------------------------
(* Sizes and frames *)

LEMMA Sizes ==
  /\ \A c \in Caches : NUM_SET(c) \in Nat \ {0} /\ NUM_WAY(c) \in Nat \ {0}
  /\ \A c \in Requesters : MSHR_SIZE(c) \in Nat \ {0}
  /\ \A c \in Shared : /\ RQ_SIZE(c) \in Nat \ {0} /\ WQ_SIZE(c) \in Nat \ {0}
                       /\ PQ_SIZE(c) \in Nat \ {0}
  /\ Addresses \subseteq Nat \ {0}
<1>1. \A c \in Caches : NUM_SET(c) \in Nat \ {0} /\ NUM_WAY(c) \in Nat \ {0}
  BY HierarchyAssumption DEF Caches, NUM_SET, NUM_WAY
<1>2. \A c \in Requesters : MSHR_SIZE(c) \in Nat \ {0}
  BY HierarchyAssumption DEF Caches, Requesters, MSHR_SIZE
<1>3. \A c \in Shared : /\ RQ_SIZE(c) \in Nat \ {0} /\ WQ_SIZE(c) \in Nat \ {0}
                        /\ PQ_SIZE(c) \in Nat \ {0}
  BY HierarchyAssumption DEF Shared, RQ_SIZE, WQ_SIZE, PQ_SIZE
<1> QED BY <1>1, <1>2, <1>3, HierarchyAssumption DEF Addresses

LEMMA Names ==
  /\ Shared \subseteq Caches /\ L1s \subseteq Caches
  /\ Caches \subseteq Requesters /\ "PTW" \in Requesters
  /\ \A c \in Caches \ {"LLC"} : Lower(c) \in Shared
BY DEF Shared, L1s, Caches, Requesters, Lower

LEMMA LeastNatural ==
  ASSUME NEW E, E \subseteq Nat, E # {}
  PROVE  \E m \in E : \A n \in E : m <= n
<1>1. PICK m \in E : \A n \in E : ~ (<<n, m>> \in OpToRel(<, Nat))
  BY NatLessThanWellFounded, WFMin, Zenon
<1>2. \A n \in E : ~(n < m)
  <2>1. \A n \in E : <<n, m>> \in Nat \X Nat
    BY <1>1
  <2>2. QED
    BY <1>1, <2>1 DEF OpToRel
<1> QED BY <1>2

\* The scans of invalidate_entry and find_victim end on a frame they look at.
LEMMA FirstWayIn ==
  ASSUME NEW c \in Caches, NEW S, S \subseteq Frames(c), S # {}
  PROVE  FirstWay(S) \in S
<1> DEFINE W == {f[2] : f \in S}
<1>1. W \subseteq Nat /\ W # {}
  BY Sizes DEF Frames
<1>2. PICK m \in W : \A n \in W : m <= n
  BY <1>1, LeastNatural
<1>3. PICK f \in S : f[2] = m
  BY <1>2
<1>4. \A g \in S : f[2] <= g[2]
  BY <1>2, <1>3
<1> QED BY <1>4, Zenon DEF FirstWay

LEMMA FramesOfSet ==
  ASSUME NEW c \in Caches, NEW a, NEW b
  PROVE  /\ SetOf(c, a) \subseteq Frames(c)
         /\ Holding(b, c, a) \subseteq Frames(c)
         /\ \A f \in Holding(b, c, a) : b[c][f].address = a
         /\ find_victim(c, a) \subseteq Frames(c)
<1>1. SetOf(c, a) \subseteq Frames(c) /\ Holding(b, c, a) \subseteq SetOf(c, a)
  BY DEF SetOf, Holding
<1> DEFINE invalid == {f \in SetOf(c, a) : block[c][f].address = 0}
<1>2. invalid # {} => FirstWay(invalid) \in invalid
  <2>1. invalid \subseteq Frames(c)
    BY <1>1
  <2> HIDE DEF invalid
  <2> QED BY <2>1, FirstWayIn
<1>3. find_victim(c, a) \subseteq Frames(c)
  BY <1>1, <1>2, Zenon DEF find_victim
<1> QED BY <1>1, <1>3 DEF Holding

-----------------------------------------------------------------------------
(* Lines *)

LEMMA LineTypes ==
  ASSUME NEW st
  PROVE  /\ NoLine \in Lines(st)
         /\ \A a \in Addresses, d \in BOOLEAN :
              (d => a \in st) => [address |-> a, dirty |-> d] \in Lines(st)
         /\ \A l \in Lines(st) : l \in Line
         /\ \A l \in Lines(st) : l.address \in st => [l EXCEPT !.dirty = TRUE] \in Lines(st)
BY DEF Lines, Line, NoLine

\* One line of one cache changes.
LEMMA LineChanged ==
  ASSUME NEW b, NEW st, LinesOK(b, st), NEW c \in Caches, NEW f \in Frames(c),
         NEW l \in Lines(st)
  PROVE  LinesOK([b EXCEPT ![c][f] = l], st)
BY DEF LinesOK

LEMMA LinesDropped ==
  ASSUME NEW b, NEW st, LinesOK(b, st), NEW S, NEW a
  PROVE  LinesOK(InvalidateIn(b, S, a), st)
<1>1. ASSUME NEW c \in Caches
      PROVE  LinesOK(Invalidate(b, c, a), st)
  <2>1. CASE Holding(b, c, a) = {}
    BY <2>1 DEF Invalidate
  <2>2. CASE Holding(b, c, a) # {}
    <3>1. FirstWay(Holding(b, c, a)) \in Frames(c)
      BY <2>2, FirstWayIn, FramesOfSet
    <3> QED BY <2>2, <3>1, LineChanged, LineTypes DEF Invalidate
  <2> QED BY <2>1, <2>2
<1>2. \A c \in Caches : InvalidateIn(b, S, a)[c] \in [Frames(c) -> Lines(st)]
  BY <1>1 DEF InvalidateIn, LinesOK
<1>3. DOMAIN InvalidateIn(b, S, a) = Caches
  BY DEF InvalidateIn
<1> QED BY <1>2, <1>3 DEF LinesOK

LEMMA LineFilled ==
  ASSUME NEW st, LinesOK(block, st), NEW c \in Caches, NEW f \in Frames(c),
         NEW a \in Addresses, NEW d \in BOOLEAN, d => a \in st
  PROVE  LinesOK(fill_cache(c, f, a, d), st)
<1>1. LinesOK(InvalidateIn(block, Caches \ {c}, a), st)
  BY LinesDropped
<1>2. [address |-> a, dirty |-> d] \in Lines(st)
  BY LineTypes
<1> QED BY <1>1, <1>2, LineChanged DEF fill_cache

\* A block that is hit becomes dirty where it is.
LEMMA LineMarked ==
  ASSUME NEW st, LinesOK(block, st), NEW c \in Caches, NEW a \in st, check_hit(c, a)
  PROVE  /\ LinesOK(MarkDirty(c, a), st)
         /\ \E f \in Holding(block, c, a) :
              MarkDirty(c, a) = [block EXCEPT ![c][f].dirty = TRUE]
<1>1. PICK f \in Holding(block, c, a) : f = FirstWay(Holding(block, c, a))
  BY FirstWayIn, FramesOfSet DEF check_hit
<1>2. f \in Frames(c) /\ block[c][f].address = a /\ block[c][f] \in Lines(st)
  BY <1>1, FramesOfSet DEF LinesOK
<1>3. MarkDirty(c, a) = [block EXCEPT ![c][f].dirty = TRUE]
  BY <1>1 DEF MarkDirty
<1>4. [block[c][f] EXCEPT !.dirty = TRUE] \in Lines(st)
  BY <1>2, LineTypes
<1>5. LinesOK([block EXCEPT ![c][f].dirty = TRUE], st)
  BY <1>2, <1>4 DEF LinesOK
<1> QED BY <1>1, <1>3, <1>5

LEMMA LinesGrow ==
  ASSUME NEW b, NEW st, NEW new, LinesOK(b, st), st \subseteq new
  PROVE  LinesOK(b, new)
BY DEF LinesOK, Lines

-----------------------------------------------------------------------------
(* Packets *)

LEMMA PacketFields ==
  ASSUME NEW e \in Packet, NEW level \in {FILL_L1, FILL_L2, FILL_LLC},
         NEW i \in BOOLEAN, NEW fi \in BOOLEAN, NEW fd \in BOOLEAN,
         NEW r \in BOOLEAN
  PROVE  /\ [e EXCEPT !.fill_level = level, !.instruction = i,
                       !.fill_l1i = fi, !.fill_l1d = fd] \in Packet
         /\ [e EXCEPT !.returned = r] \in Packet
BY DEF Packet

LEMMA ReadFields ==
  ASSUME NEW e \in Packet, NEW level \in {FILL_L1, FILL_L2, FILL_LLC},
         NEW i \in BOOLEAN, NEW fi \in BOOLEAN, NEW fd \in BOOLEAN,
         NEW both \in BOOLEAN
  PROVE  [e EXCEPT !.send_both_cache = both, !.fill_level = level,
                   !.instruction = i, !.fill_l1i = fi, !.fill_l1d = fd] \in Packet
BY DEF Packet

LEMMA PacketMerges ==
  ASSUME NEW e \in Packet, NEW p \in Packet
  PROVE  /\ Lowered(e, p) \in Packet
         /\ Lowered(e, p).type = e.type /\ Lowered(e, p).address = e.address
         /\ MergePrefetch(e, p) \in Packet
         /\ MergeRead(e, p) \in Packet
         /\ [p EXCEPT !.returned = e.returned] \in Packet
<1> DEFINE level == IF p.fill_level < e.fill_level THEN p.fill_level ELSE e.fill_level
<1>0. /\ level \in {FILL_L1, FILL_L2, FILL_LLC}
      /\ p.instruction \in BOOLEAN /\ e.instruction \in BOOLEAN
  BY DEF Packet
<1>1. Lowered(e, p) \in Packet
  <2> DEFINE i == IF p.fill_level < e.fill_level THEN p.instruction ELSE e.instruction
             fi == e.fill_l1i \/ p.fill_l1i
             fd == e.fill_l1d \/ p.fill_l1d
  <2>1. i \in BOOLEAN /\ fi \in BOOLEAN /\ fd \in BOOLEAN
    BY <1>0
  <2> HIDE DEF level, i, fi, fd
  <2>2. [e EXCEPT !.fill_level = level, !.instruction = i,
                  !.fill_l1i = fi, !.fill_l1d = fd] \in Packet
    BY <1>0, <2>1, PacketFields
  <2> QED BY <2>2 DEF Lowered, level, i, fi, fd
<1>2. Lowered(e, p).type = e.type /\ Lowered(e, p).address = e.address
  BY DEF Lowered, Packet
<1>3. MergePrefetch(e, p) \in Packet
  BY <1>1, PacketFields DEF MergePrefetch
<1>4. MergeRead(e, p) \in Packet
  <2> DEFINE both == e.send_both_cache \/ ( /\ e.fill_level = FILL_L1
                                            /\ p.fill_level = FILL_L1
                                            /\ e.instruction # p.instruction )
             i == e.instruction \/ p.instruction
             fi == e.fill_l1i \/ (~p.instruction /\ p.fill_l1i)
             fd == e.fill_l1d \/ (~p.instruction /\ p.fill_l1d)
  <2>0. level \in {FILL_L1, FILL_L2, FILL_LLC}
    BY <1>0
  <2>1. both \in BOOLEAN /\ i \in BOOLEAN /\ fi \in BOOLEAN /\ fd \in BOOLEAN
    BY Zenon
  <2> HIDE DEF level, both, i, fi, fd
  <2>2. [e EXCEPT !.send_both_cache = both, !.fill_level = level,
                  !.instruction = i, !.fill_l1i = fi, !.fill_l1d = fd] \in Packet
    BY <2>0, <2>1 DEF Packet
  <2> QED BY <2>2 DEF MergeRead, level, both, i, fi, fd
<1>5. [p EXCEPT !.returned = e.returned] \in Packet
  BY DEF Packet
<1> QED BY <1>1, <1>2, <1>3, <1>4, <1>5

LEMMA MissMerges ==
  ASSUME NEW st, NEW c, NEW e \in Misses(c, st), NEW p \in Misses(c, st)
  PROVE  /\ Lowered(e, p) \in Misses(c, st)
         /\ MergeMiss(e, p) \in Misses(c, st)
         /\ MergeStore(e, p) \in Misses(c, st)
<1>1. e \in Packet /\ p \in Packet
  BY DEF Misses
<1>2. Lowered(e, p) \in Misses(c, st)
  BY <1>1, PacketMerges DEF Misses
<1>3. Promoted(e, p) \in Misses(c, st)
  <2> DEFINE l == Lowered(e, p)
  <2>1. l \in Packet
    BY <1>1, PacketMerges
  <2> HIDE DEF l
  <2>2. [p EXCEPT !.fill_level = l.fill_level,
                  !.instruction = p.instruction \/ l.instruction,
                  !.fill_l1i = l.fill_l1i, !.fill_l1d = l.fill_l1d,
                  !.returned = e.returned] \in Misses(c, st)
    BY <1>1, <2>1 DEF Packet, Misses
  <2> QED BY <2>2 DEF Promoted, l
<1>4. [p EXCEPT !.returned = e.returned] \in Misses(c, st)
  BY <1>1 DEF Misses, Packet
<1> QED BY <1>2, <1>3, <1>4 DEF MergeMiss, MergeStore

LEMMA Unanswered ==
  ASSUME NEW st, NEW c, NEW p \in Misses(c, st), NEW r \in BOOLEAN
  PROVE  [p EXCEPT !.returned = r] \in Misses(c, st)
BY DEF Misses, Packet

-----------------------------------------------------------------------------
(* Misses *)

LEMMA ImageBounded ==
  ASSUME NEW S, IsFiniteSet(S), NEW f, DOMAIN f = S
  PROVE  /\ IsFiniteSet({f[e] : e \in S})
         /\ Cardinality({f[e] : e \in S}) <= Cardinality(S)
<1> DEFINE T == {f[e] : e \in S}
           g == [e \in S |-> f[e]]
<1>1. g \in Surjection(S, T)
  BY DEF Surjection
<1> QED BY <1>1, FS_Surjection

LEMMA OneMissesOK ==
  ASSUME NEW st, NEW m, MissesOK(m, st), NEW c \in Requesters,
         NEW M \in SUBSET Misses(c, st), IsFiniteSet(M),
         Cardinality(M) <= MSHR_SIZE(c)
  PROVE  MissesOK([m EXCEPT ![c] = M], st)
<1>1. M \subseteq Packet
  BY DEF Misses
<1> QED BY <1>1 DEF MissesOK

LEMMA MissesReturned ==
  ASSUME NEW st, NEW m, MissesOK(m, st), NEW S, NEW a
  PROVE  MissesOK(return_data(m, S, a), st)
<1> DEFINE r == return_data(m, S, a)
<1>1. ASSUME NEW c \in Requesters
      PROVE  /\ r[c] \subseteq Misses(c, st) /\ IsFiniteSet(r[c])
             /\ Cardinality(r[c]) <= MSHR_SIZE(c)
  <2>1. /\ m[c] \subseteq Misses(c, st) /\ IsFiniteSet(m[c])
        /\ Cardinality(m[c]) <= MSHR_SIZE(c)
    BY DEF MissesOK
  <2>2. CASE c \notin S
    BY <2>1, <2>2 DEF return_data
  <2>3. CASE c \in S
    <3> DEFINE f == [e \in m[c] |-> IF e.address = a
                                    THEN [e EXCEPT !.returned = TRUE] ELSE e]
               T == {f[e] : e \in m[c]}
    <3>1. \A e \in m[c] : f[e] \in Misses(c, st)
      BY <2>1, Unanswered
    <3>2. r[c] = T
      BY <2>3 DEF return_data
    <3>3. T \subseteq Misses(c, st) /\ IsFiniteSet(T)
          /\ Cardinality(T) <= Cardinality(m[c])
      <4>1. DOMAIN f = m[c]
        OBVIOUS
      <4> HIDE DEF f
      <4>2. T \subseteq Misses(c, st)
        BY <3>1
      <4> QED BY <2>1, <4>1, <4>2, ImageBounded
    <3>4. Cardinality(T) \in Nat /\ Cardinality(m[c]) \in Nat /\ MSHR_SIZE(c) \in Nat
      BY <2>1, <3>3, FS_CardinalityType, Sizes
    <3> HIDE DEF f, T, r
    <3> QED BY <2>1, <3>2, <3>3, <3>4
  <2> QED BY <2>2, <2>3
<1>2. r \in [Requesters -> SUBSET Packet]
  <2>1. DOMAIN r = Requesters /\ r = [c \in Requesters |-> r[c]]
    BY DEF return_data
  <2>2. \A c \in Requesters : r[c] \subseteq Packet
    BY <1>1 DEF Misses
  <2> HIDE DEF r
  <2> QED BY <2>1, <2>2
<1> QED BY <1>1, <1>2 DEF MissesOK

LEMMA MissesAnswered ==
  ASSUME NEW st, NEW m, MissesOK(m, st), NEW c, NEW p
  PROVE  /\ MissesOK(Answer(m, c, p), st)
         /\ MissesOK(AnswerFlagged(m, c, p), st)
         /\ MissesOK(Forwarded(m, c, p), st)
BY MissesReturned, Zenon DEF Answer, AnswerFlagged, Forwarded

LEMMA MissAdded ==
  ASSUME NEW st, NEW m, MissesOK(m, st), NEW c \in Requesters,
         NEW p \in Misses(c, st), Cardinality(m[c]) < MSHR_SIZE(c)
  PROVE  MissesOK(add_mshr(m, c, p), st)
<1> DEFINE q == [p EXCEPT !.returned = FALSE]
           M == m[c] \cup {q}
<1>1. /\ m[c] \subseteq Misses(c, st) /\ IsFiniteSet(m[c])
      /\ Cardinality(m[c]) \in Nat /\ MSHR_SIZE(c) \in Nat
  BY FS_CardinalityType, Sizes DEF MissesOK
<1>2. q \in Misses(c, st)
  BY Unanswered
<1> HIDE DEF q
<1>3. IsFiniteSet(M) /\ Cardinality(M) = IF q \in m[c] THEN Cardinality(m[c])
                                         ELSE Cardinality(m[c]) + 1
  BY <1>1, FS_AddElement
<1>4. Cardinality(M) <= MSHR_SIZE(c)
  BY <1>1, <1>3
<1>5. MissesOK([m EXCEPT ![c] = M], st)
  BY <1>1, <1>2, <1>3, <1>4, OneMissesOK
<1> QED BY <1>5 DEF add_mshr, q

LEMMA MissRemoved ==
  ASSUME NEW st, NEW m, MissesOK(m, st), NEW c \in Requesters, NEW e
  PROVE  MissesOK([m EXCEPT ![c] = @ \ {e}], st)
<1> DEFINE M == m[c] \ {e}
<1>1. /\ m[c] \subseteq Misses(c, st) /\ IsFiniteSet(m[c])
      /\ Cardinality(m[c]) <= MSHR_SIZE(c)
  BY DEF MissesOK
<1>2. IsFiniteSet(M) /\ Cardinality(M) <= Cardinality(m[c])
  BY <1>1, FS_Subset
<1>3. Cardinality(M) \in Nat /\ Cardinality(m[c]) \in Nat /\ MSHR_SIZE(c) \in Nat
  BY <1>1, <1>2, FS_CardinalityType, Sizes
<1>4. Cardinality(M) <= MSHR_SIZE(c)
  BY <1>1, <1>2, <1>3
<1>5. MissesOK([m EXCEPT ![c] = M], st)
  BY <1>1, <1>2, <1>4, OneMissesOK
<1> QED BY <1>5

LEMMA MissMerged ==
  ASSUME NEW st, NEW m, MissesOK(m, st), NEW c \in Requesters, NEW p,
         NEW merge, \A e \in m[c] : merge[e] \in Misses(c, st)
  PROVE  MissesOK(Merged(m, c, p, merge), st)
<1> DEFINE f == [e \in m[c] |-> IF e.address = p.address THEN merge[e] ELSE e]
           T == {f[e] : e \in m[c]}
<1>1. /\ m[c] \subseteq Misses(c, st) /\ IsFiniteSet(m[c])
      /\ Cardinality(m[c]) <= MSHR_SIZE(c)
  BY DEF MissesOK
<1>2. \A e \in m[c] : f[e] \in Misses(c, st)
  BY <1>1
<1>3. T \subseteq Misses(c, st) /\ IsFiniteSet(T)
      /\ Cardinality(T) <= Cardinality(m[c])
  <2>1. DOMAIN f = m[c]
    OBVIOUS
  <2> HIDE DEF f
  <2>2. T \subseteq Misses(c, st)
    BY <1>2
  <2> QED BY <1>1, <2>1, <2>2, ImageBounded
<1>4. Cardinality(T) \in Nat /\ Cardinality(m[c]) \in Nat /\ MSHR_SIZE(c) \in Nat
  BY <1>1, <1>3, FS_CardinalityType, Sizes
<1>5. Merged(m, c, p, merge) = [m EXCEPT ![c] = T]
  BY DEF Merged
<1> HIDE DEF f, T
<1>6. Cardinality(T) <= MSHR_SIZE(c)
  BY <1>1, <1>3, <1>4
<1>7. MissesOK([m EXCEPT ![c] = T], st)
  BY <1>3, <1>6, OneMissesOK
<1> QED BY <1>5, <1>7

LEMMA MissesGrow ==
  ASSUME NEW m, NEW st, NEW new, MissesOK(m, st), st \subseteq new
  PROVE  MissesOK(m, new)
BY DEF MissesOK, Misses

-----------------------------------------------------------------------------
(* Queues *)

LEMMA MappedSequence ==
  ASSUME NEW V, NEW s \in Seq(V), NEW f, f = [i \in DOMAIN s |-> f[i]],
         \A i \in DOMAIN s : f[i] \in V
  PROVE  f \in Seq(V) /\ Len(f) = Len(s)
<1>1. DOMAIN f = 1 .. Len(s) /\ Len(s) \in Nat
  OBVIOUS
<1>2. f \in [1 .. Len(s) -> V]
  BY <1>1
<1> QED BY <1>1, <1>2

LEMMA ShorterSequence ==
  ASSUME NEW V, NEW s \in Seq(V), s # <<>>
  PROVE  /\ Head(s) \in V /\ Tail(s) \in Seq(V)
         /\ Len(Tail(s)) = Len(s) - 1 /\ Len(s) \in Nat
OBVIOUS

LEMMA ReadTaken ==
  ASSUME NEW q, ReadsOK(q), NEW c \in Shared, q[c] # <<>>
  PROVE  Head(q[c]) \in Packet /\ ReadsOK([q EXCEPT ![c] = Tail(@)])
<1>1. q[c] \in Seq(Packet) /\ Len(q[c]) <= RQ_SIZE(c) /\ RQ_SIZE(c) \in Nat
  BY Sizes DEF ReadsOK
<1>2. /\ Head(q[c]) \in Packet /\ Tail(q[c]) \in Seq(Packet)
      /\ Len(Tail(q[c])) = Len(q[c]) - 1 /\ Len(q[c]) \in Nat
  BY <1>1, ShorterSequence
<1> QED BY <1>1, <1>2 DEF ReadsOK

LEMMA PrefetchTaken ==
  ASSUME NEW q, PrefetchesOK(q), NEW c \in Shared, q[c] # <<>>
  PROVE  Head(q[c]) \in Packet /\ PrefetchesOK([q EXCEPT ![c] = Tail(@)])
<1>1. q[c] \in Seq(Packet) /\ Len(q[c]) <= PQ_SIZE(c) /\ PQ_SIZE(c) \in Nat
  BY Sizes DEF PrefetchesOK
<1>2. /\ Head(q[c]) \in Packet /\ Tail(q[c]) \in Seq(Packet)
      /\ Len(Tail(q[c])) = Len(q[c]) - 1 /\ Len(q[c]) \in Nat
  BY <1>1, ShorterSequence
<1> QED BY <1>1, <1>2 DEF PrefetchesOK

LEMMA WriteTaken ==
  ASSUME NEW st, NEW q, WritesOK(q, st), NEW c \in Shared, q[c] # <<>>
  PROVE  /\ Head(q[c]) \in Addresses \cap st
         /\ WritesOK([q EXCEPT ![c] = Tail(@)], st)
<1>1. /\ q[c] \in Seq(Addresses \cap st) /\ Len(q[c]) <= WQ_SIZE(c)
      /\ WQ_SIZE(c) \in Nat
  BY Sizes DEF WritesOK
<1>2. /\ Head(q[c]) \in Addresses \cap st /\ Tail(q[c]) \in Seq(Addresses \cap st)
      /\ Len(Tail(q[c])) = Len(q[c]) - 1 /\ Len(q[c]) \in Nat
  BY <1>1, ShorterSequence
<1> QED BY <1>1, <1>2 DEF WritesOK

LEMMA ReadQueued ==
  ASSUME NEW q, ReadsOK(q), NEW c \in Shared, NEW p \in Packet
  PROVE  ReadsOK(QueueRead(q, c, p))
<1>1. /\ q[c] \in Seq(Packet) /\ Len(q[c]) <= RQ_SIZE(c)
      /\ RQ_SIZE(c) \in Nat /\ Len(q[c]) \in Nat
  BY Sizes DEF ReadsOK
<1> DEFINE f == [i \in DOMAIN q[c] |->
                   IF q[c][i].address = p.address THEN MergeRead(q[c][i], p) ELSE q[c][i]]
<1>2. f \in Seq(Packet) /\ Len(f) = Len(q[c])
  <2>1. \A i \in DOMAIN q[c] : q[c][i] \in Packet
    BY <1>1
  <2>2. \A i \in DOMAIN q[c] : f[i] \in Packet
    BY <2>1, PacketMerges
  <2>3. f = [i \in DOMAIN q[c] |-> f[i]]
    OBVIOUS
  <2> HIDE DEF f
  <2> QED BY <1>1, <2>2, <2>3, MappedSequence
<1>3. ReadsOK([q EXCEPT ![c] = f])
  <2> HIDE DEF f
  <2> QED BY <1>1, <1>2 DEF ReadsOK
<1>4. ASSUME Len(q[c]) # RQ_SIZE(c)
      PROVE  ReadsOK([q EXCEPT ![c] = Append(@, p)])
  <2>1. Append(q[c], p) \in Seq(Packet) /\ Len(Append(q[c], p)) = Len(q[c]) + 1
    BY <1>1
  <2>2. Len(q[c]) + 1 <= RQ_SIZE(c)
    BY <1>1, <1>4
  <2> QED BY <2>1, <2>2 DEF ReadsOK
<1> QED BY <1>3, <1>4 DEF QueueRead

LEMMA PrefetchQueued ==
  ASSUME NEW q, PrefetchesOK(q), NEW c \in Shared, NEW p \in Packet
  PROVE  PrefetchesOK(QueuePrefetch(q, c, p))
<1>1. /\ q[c] \in Seq(Packet) /\ Len(q[c]) <= PQ_SIZE(c)
      /\ PQ_SIZE(c) \in Nat /\ Len(q[c]) \in Nat
  BY Sizes DEF PrefetchesOK
<1> DEFINE f == [i \in DOMAIN q[c] |->
                   IF q[c][i].address = p.address THEN MergePrefetch(q[c][i], p) ELSE q[c][i]]
<1>2. f \in Seq(Packet) /\ Len(f) = Len(q[c])
  <2>1. \A i \in DOMAIN q[c] : q[c][i] \in Packet
    BY <1>1
  <2>2. \A i \in DOMAIN q[c] : f[i] \in Packet
    BY <2>1, PacketMerges
  <2>3. f = [i \in DOMAIN q[c] |-> f[i]]
    OBVIOUS
  <2> HIDE DEF f
  <2> QED BY <1>1, <2>2, <2>3, MappedSequence
<1>3. PrefetchesOK([q EXCEPT ![c] = f])
  <2> HIDE DEF f
  <2> QED BY <1>1, <1>2 DEF PrefetchesOK
<1>4. ASSUME Len(q[c]) # PQ_SIZE(c)
      PROVE  PrefetchesOK([q EXCEPT ![c] = Append(@, p)])
  <2>1. Append(q[c], p) \in Seq(Packet) /\ Len(Append(q[c], p)) = Len(q[c]) + 1
    BY <1>1
  <2>2. Len(q[c]) + 1 <= PQ_SIZE(c)
    BY <1>1, <1>4
  <2> QED BY <2>1, <2>2 DEF PrefetchesOK
<1> QED BY <1>3, <1>4 DEF QueuePrefetch

LEMMA WriteQueued ==
  ASSUME NEW st, NEW q, WritesOK(q, st), NEW c \in Shared,
         NEW a \in Addresses \cap st, Len(q[c]) # WQ_SIZE(c)
  PROVE  WritesOK(QueueWrite(q, c, a), st)
<1>1. /\ q[c] \in Seq(Addresses \cap st) /\ Len(q[c]) <= WQ_SIZE(c)
      /\ WQ_SIZE(c) \in Nat /\ Len(q[c]) \in Nat
  BY Sizes DEF WritesOK
<1>2. /\ Append(q[c], a) \in Seq(Addresses \cap st)
      /\ Len(Append(q[c], a)) = Len(q[c]) + 1 /\ Len(q[c]) + 1 <= WQ_SIZE(c)
  BY <1>1
<1>3. WritesOK([q EXCEPT ![c] = Append(@, a)], st)
  BY <1>1, <1>2 DEF WritesOK
<1> QED BY <1>3 DEF QueueWrite

LEMMA WritesGrow ==
  ASSUME NEW q, NEW st, NEW new, WritesOK(q, st), st \subseteq new
  PROVE  WritesOK(q, new)
<1>1. \A c \in Shared : q[c] \in Seq(Addresses \cap new)
  <2> SUFFICES ASSUME NEW c \in Shared PROVE q[c] \in Seq(Addresses \cap new)
    OBVIOUS
  <2>1. q[c] \in Seq(Addresses \cap st)
    BY DEF WritesOK
  <2> QED BY <2>1
<1> QED BY <1>1 DEF WritesOK

\* A line that makes room leaves an admissible write queue behind, here or in
\* memory; q are the write queues when its cache has taken a writeback.
LEMMA LineEvicted ==
  ASSUME NEW st, st \subseteq Addresses, LinesOK(block, st), WritesOK(wq, st),
         wr \subseteq Addresses \cap st,
         NEW c \in Caches, NEW f \in Frames(c), NEW q, WritesOK(q, st),
         c # "LLC" => q[Lower(c)] = wq[Lower(c)],
         evict(c, f, q)
  PROVE  WritesOK(wq', st) /\ wr' \subseteq Addresses \cap st
<1> DEFINE line == block[c][f]
<1>1. line \in Lines(st)
  BY DEF LinesOK
<1>2. CASE ~line.dirty
  BY <1>2 DEF evict
<1>3. CASE line.dirty
  <2>1. line.address \in Addresses \cap st
    BY <1>1, <1>3 DEF Lines, Line
  <2>2. CASE c = "LLC"
    BY <1>3, <2>1, <2>2 DEF evict
  <2>3. CASE c # "LLC"
    <3>1. /\ Lower(c) \in Shared /\ Len(q[Lower(c)]) # WQ_SIZE(Lower(c))
          /\ wq' = QueueWrite(q, Lower(c), line.address) /\ wr' = wr
      BY <1>3, <2>3, Names DEF evict, LowerHasRoom
    <3> QED BY <2>1, <3>1, WriteQueued
  <2> QED BY <2>2, <2>3
<1> QED BY <1>2, <1>3

-----------------------------------------------------------------------------
(* The actions.  Lookups and requests leave the lines and the write queues *)
(* alone, but for the stores that hit.                                     *)

LEMMA NewPackets ==
  ASSUME NEW st
  PROVE  /\ \A c \in L1s \cup {"PTW"}, a \in Addresses, r \in Requesters :
              /\ Demand(c, a, "LOAD") \in Misses(r, st)
              /\ Demand(c, a, "LOAD_TRANSLATION") \in Misses(r, st)
              /\ a \in st => Demand(c, a, "RFO") \in Misses(r, st)
         /\ \A c \in L1s \cup {"L2C"}, a \in Addresses,
               level \in {FILL_L1, FILL_L2, FILL_LLC}, r \in Requesters :
              Prefetch(c, a, level) \in Misses(r, st)
<1>1. \A c \in L1s \cup {"PTW"}, a \in Addresses :
        \A type \in {"LOAD", "RFO", "LOAD_TRANSLATION"} :
          /\ Demand(c, a, type) \in Packet
          /\ Demand(c, a, type).type = type /\ Demand(c, a, type).address = a
  BY DEF Demand, Packet
<1>2. \A c \in L1s \cup {"L2C"}, a \in Addresses :
        \A level \in {FILL_L1, FILL_L2, FILL_LLC} :
          Prefetch(c, a, level) \in Packet /\ Prefetch(c, a, level).type = "PREFETCH"
  BY DEF Prefetch, Packet, fill_level, L1s, FILL_L1, FILL_L2, FILL_LLC
<1> QED BY <1>1, <1>2 DEF Misses

LEMMA MissKeeps ==
  ASSUME NEW st, MissesOK(mshr, st), ReadsOK(rq), NEW c \in L1s,
         NEW p \in Misses(c, st), NEW merge,
         \A e \in mshr[c] : merge[e] \in Misses(c, st),
         Miss(c, p, merge)
  PROVE  MissesOK(mshr', st) /\ ReadsOK(rq')
<1>1. c \in Requesters /\ p \in Packet /\ "L2C" \in Shared
  BY Names DEF Misses, Shared
<1>2. CASE mshr' = Merged(mshr, c, p, merge) /\ rq' = rq
  <2>1. MissesOK(Merged(mshr, c, p, merge), st)
    BY <1>1, MissMerged
  <2> QED BY <1>2, <2>1
<1>3. CASE HasMshr(c) /\ add_rq("L2C", p, add_mshr(mshr, c, p), rq)
  <2>1. MissesOK(add_mshr(mshr, c, p), st)
    BY <1>1, <1>3, MissAdded DEF HasMshr
  <2>2. MissesOK(Forwarded(add_mshr(mshr, c, p), "L2C", p), st)
    BY <2>1, MissesAnswered
  <2>3. ReadsOK(QueueRead(rq, "L2C", p))
    BY <1>1, ReadQueued
  <2> QED BY <1>3, <2>2, <2>3 DEF add_rq
<1> QED BY <1>2, <1>3 DEF Miss

LEMMA IssueKeeps ==
  ASSUME issued \in 0 .. MaxRequests, Issue
  PROVE  issued' \in 0 .. MaxRequests
BY HierarchyAssumption DEF Issue

LEMMA ReadKeeps ==
  ASSUME HierarchyInv, NEW c \in L1s, NEW a \in Blocks, read(c, a)
  PROVE  HierarchyInv'
<1> DEFINE p == Demand(c, a, "LOAD")
           merge == [e \in mshr[c] |-> MergeMiss(e, p)]
<1>1. c \in Requesters /\ a \in Addresses
  BY Names DEF Addresses
<1>2. p \in Misses(c, stored)
  BY <1>1, NewPackets
<1>3. \A e \in mshr[c] : merge[e] \in Misses(c, stored)
  <2>1. mshr[c] \subseteq Misses(c, stored)
    BY <1>1 DEF HierarchyInv, MissesOK
  <2> QED BY <1>2, <2>1, MissMerges
<1>4. Miss(c, p, merge)
  BY DEF read
<1> HIDE DEF p, merge
<1>5. MissesOK(mshr', stored) /\ ReadsOK(rq')
  BY <1>2, <1>3, <1>4, MissKeeps DEF HierarchyInv
<1>6. issued' \in 0 .. MaxRequests
  BY IssueKeeps DEF HierarchyInv, read
<1> QED BY <1>5, <1>6 DEF HierarchyInv, read

LEMMA WriteKeeps ==
  ASSUME HierarchyInv, NEW a \in Stored, write(a)
  PROVE  HierarchyInv'
<1> DEFINE new == stored \cup {a}
           p == Demand("L1D", a, "RFO")
           merge == [e \in mshr["L1D"] |-> MergeStore(e, p)]
<1>1. /\ a \in Blocks /\ a \in Addresses /\ stored' = new /\ a \in new
      /\ "L1D" \in L1s /\ "L1D" \in Caches /\ "L1D" \in Requesters
  BY HierarchyAssumption DEF write, Addresses, L1s, Caches, Requesters
<1>2. LinesOK(block, new) /\ MissesOK(mshr, new) /\ WritesOK(wq, new)
  BY LinesGrow, MissesGrow, WritesGrow DEF HierarchyInv
<1>3. p \in Misses("L1D", new)
  BY <1>1, NewPackets
<1>4. \A e \in mshr["L1D"] : merge[e] \in Misses("L1D", new)
  <2>1. mshr["L1D"] \subseteq Misses("L1D", new)
    BY <1>1, <1>2 DEF MissesOK
  <2> QED BY <1>3, <2>1, MissMerges
<1>5. /\ LinesOK(block', new) /\ MissesOK(mshr', new) /\ ReadsOK(rq')
      /\ unfilled' \subseteq Blocks
  <2>1. CASE /\ check_hit("L1D", a) /\ block' = MarkDirty("L1D", a)
             /\ UNCHANGED <<mshr, rq, unfilled>>
    <3>1. LinesOK(MarkDirty("L1D", a), new)
      BY <1>1, <1>2, <2>1, LineMarked
    <3> QED BY <1>2, <2>1, <3>1 DEF HierarchyInv
  <2>2. CASE /\ Miss("L1D", p, merge)
             /\ unfilled' = unfilled \cup {a} /\ UNCHANGED block
    <3> HIDE DEF p, merge, new
    <3>1. MissesOK(mshr', new) /\ ReadsOK(rq')
      BY <1>1, <1>2, <1>3, <1>4, <2>2, MissKeeps DEF HierarchyInv
    <3> QED BY <1>1, <1>2, <2>2, <3>1 DEF HierarchyInv
  <2> QED BY <2>1, <2>2 DEF write
<1>6. issued' \in 0 .. MaxRequests
  BY IssueKeeps DEF HierarchyInv, write
<1> QED BY <1>1, <1>2, <1>5, <1>6 DEF HierarchyInv, write

LEMMA MissIntoKeeps ==
  ASSUME NEW st, MissesOK(mshr, st), NEW c \in Caches, NEW p \in Misses(c, st),
         HasMshr(c)
  PROVE  MissesOK(MissInto(mshr, c, p), st)
BY Names, MissAdded DEF MissInto, HasMshr

LEMMA PrefetchKeeps ==
  ASSUME HierarchyInv, NEW c \in L1s, NEW a \in Blocks,
         NEW level \in {FILL_L1, FILL_L2}, prefetch(c, a, level)
  PROVE  HierarchyInv'
<1> DEFINE p == Prefetch(c, a, level)
           merge == [e \in mshr[c] |-> Lowered(e, p)]
<1>1. c \in Caches /\ c \in Requesters /\ a \in Addresses /\ "L2C" \in Shared
  BY Names DEF Addresses, Shared
<1>2. p \in Misses(c, stored) /\ p \in Packet
  BY <1>1, NewPackets DEF Misses
<1>3. \A e \in mshr[c] : merge[e] \in Misses(c, stored)
  <2>1. mshr[c] \subseteq Misses(c, stored)
    BY <1>1 DEF HierarchyInv, MissesOK
  <2> QED BY <1>2, <2>1, MissMerges
<1>4. MissesOK(mshr', stored) /\ PrefetchesOK(pq')
  <2>1. CASE mshr' = Merged(mshr, c, p, merge) /\ pq' = pq
    <3> HIDE DEF p, merge
    <3>1. MissesOK(Merged(mshr, c, p, merge), stored)
      BY <1>1, <1>3, MissMerged DEF HierarchyInv
    <3> QED BY <2>1, <3>1 DEF HierarchyInv
  <2>2. CASE HasMshr(c) /\ add_pq("L2C", p, MissInto(mshr, c, p), pq)
    <3> HIDE DEF p
    <3>1. MissesOK(MissInto(mshr, c, p), stored)
      BY <1>1, <1>2, <2>2, MissIntoKeeps DEF HierarchyInv
    <3>2. MissesOK(Forwarded(MissInto(mshr, c, p), "L2C", p), stored)
      BY <3>1, MissesAnswered
    <3>3. PrefetchesOK(QueuePrefetch(pq, "L2C", p))
      BY <1>1, <1>2, PrefetchQueued DEF HierarchyInv
    <3> QED BY <2>2, <3>2, <3>3 DEF add_pq
  <2> QED BY <2>1, <2>2 DEF prefetch
<1>5. issued' \in 0 .. MaxRequests
  BY IssueKeeps DEF HierarchyInv, prefetch
<1> QED BY <1>4, <1>5 DEF HierarchyInv, prefetch

LEMMA WalkKeeps ==
  ASSUME HierarchyInv, NEW a \in TableBlocks, walk(a)
  PROVE  HierarchyInv'
<1> DEFINE p == Demand("PTW", a, "LOAD_TRANSLATION")
<1>1. "PTW" \in Requesters /\ a \in Addresses /\ "L2C" \in Shared
  BY Names DEF Addresses, Shared
<1>2. p \in Misses("PTW", stored) /\ p \in Packet
  BY <1>1, NewPackets DEF Misses
<1>3. HasMshr("PTW") /\ add_rq("L2C", p, add_mshr(mshr, "PTW", p), rq)
  BY <1>1, FS_EmptySet, Sizes DEF walk, HasMshr
<1> HIDE DEF p
<1>4. MissesOK(add_mshr(mshr, "PTW", p), stored)
  BY <1>1, <1>2, <1>3, MissAdded DEF HasMshr, HierarchyInv
<1>5. MissesOK(Forwarded(add_mshr(mshr, "PTW", p), "L2C", p), stored)
  BY <1>4, MissesAnswered
<1>6. ReadsOK(QueueRead(rq, "L2C", p))
  BY <1>1, <1>2, ReadQueued DEF HierarchyInv
<1>7. issued' \in 0 .. MaxRequests
  BY IssueKeeps DEF HierarchyInv, walk
<1> QED BY <1>3, <1>5, <1>6, <1>7 DEF HierarchyInv, walk, add_rq

LEMMA RequestsKeep ==
  ASSUME HierarchyInv, Requests
  PROVE  HierarchyInv'
<1>1. Code \subseteq Blocks /\ "L1I" \in L1s /\ "L1D" \in L1s
      /\ FILL_L1 \in {FILL_L1, FILL_L2}
  BY HierarchyAssumption DEF L1s
<1> QED BY <1>1, ReadKeeps, WriteKeeps, PrefetchKeeps, WalkKeeps DEF Requests

-----------------------------------------------------------------------------
(* What reads and prefetches find *)

LEMMA MemoryReadKeeps ==
  ASSUME NEW st, NEW m, MissesOK(m, st), NEW a \in Addresses,
         rd \subseteq Addresses, read_memory(m, a)
  PROVE  MissesOK(mshr', st) /\ rd' \subseteq Addresses
<1>1. MissesOK(return_data(m, {"LLC"}, a), st)
  BY MissesReturned
<1> QED BY <1>1 DEF read_memory

LEMMA PrefetchLineKeeps ==
  ASSUME NEW q, PrefetchesOK(q), issued \in 0 .. MaxRequests, NEW accessed,
         prefetch_line(q, accessed)
  PROVE  PrefetchesOK(pq') /\ issued' \in 0 .. MaxRequests
<1>1. CASE pq' = q /\ issued' = issued
  BY <1>1
<1>2. ASSUME NEW a \in Blocks, NEW level \in {FILL_L2, FILL_LLC},
             issued < MaxRequests, issued' = issued + 1,
             pq' = QueuePrefetch(q, "L2C", Prefetch("L2C", a, level))
      PROVE  PrefetchesOK(pq') /\ issued' \in 0 .. MaxRequests
  <2>1. /\ a \in Addresses /\ "L2C" \in Shared /\ "L2C" \in Requesters
        /\ level \in {FILL_L1, FILL_L2, FILL_LLC}
    BY DEF Addresses, Shared, Requesters, Caches
  <2>2. Prefetch("L2C", a, level) \in Packet
    BY <2>1, NewPackets DEF Misses
  <2>3. PrefetchesOK(pq')
    BY <1>2, <2>1, <2>2, PrefetchQueued
  <2>4. issued' \in 0 .. MaxRequests
    BY <1>2, HierarchyAssumption
  <2> QED BY <2>3, <2>4
<1> QED BY <1>1, <1>2 DEF prefetch_line

LEMMA HandleReadKeeps ==
  ASSUME HierarchyInv, NEW c \in Shared, handle_read(c)
  PROVE  HierarchyInv'
<1>1. /\ c \in Requesters /\ c \in Caches /\ c # "L1D" /\ rq[c] # <<>>
      /\ "LLC" \in Shared
  BY Names DEF handle_read, Shared
<1> DEFINE p == Head(rq[c])
           q == [rq EXCEPT ![c] = Tail(@)]
           merge == [e \in mshr[c] |-> MergeMiss(e, p)]
<1>2. p \in Packet /\ ReadsOK(q)
  BY <1>1, ReadTaken DEF HierarchyInv
<1>3. p \in Misses(c, stored) /\ p.address \in Addresses
  BY <1>1, <1>2 DEF Misses, Packet
<1>4. MissesOK(mshr', stored) /\ ReadsOK(rq') /\ rd' \subseteq Addresses
  <2>1. CASE mshr' = Answer(mshr, c, p) /\ rq' = q /\ rd' = rd
    <3>1. MissesOK(Answer(mshr, c, p), stored)
      BY MissesAnswered DEF HierarchyInv
    <3> QED BY <1>2, <2>1, <3>1 DEF HierarchyInv
  <2>2. CASE mshr' = Merged(mshr, c, p, merge) /\ rq' = q /\ rd' = rd
    <3>1. \A e \in mshr[c] : merge[e] \in Misses(c, stored)
      <4>1. mshr[c] \subseteq Misses(c, stored)
        BY <1>1 DEF HierarchyInv, MissesOK
      <4> QED BY <1>3, <4>1, MissMerges
    <3> HIDE DEF p, merge
    <3>2. MissesOK(Merged(mshr, c, p, merge), stored)
      BY <1>1, <3>1, MissMerged DEF HierarchyInv
    <3> QED BY <1>2, <2>2, <3>2 DEF HierarchyInv
  <2>3. CASE /\ HasMshr(c)
             /\ IF c = "L2C"
                THEN add_rq("LLC", p, add_mshr(mshr, c, p), q) /\ rd' = rd
                ELSE /\ read_memory(add_mshr(mshr, c, p), p.address)
                     /\ rq' = q
    <3> HIDE DEF p, q
    <3>1. MissesOK(add_mshr(mshr, c, p), stored)
      BY <1>1, <1>3, <2>3, MissAdded DEF HasMshr, HierarchyInv
    <3>2. CASE c = "L2C"
      <4>1. MissesOK(Forwarded(add_mshr(mshr, c, p), "LLC", p), stored)
        BY <3>1, MissesAnswered
      <4>2. ReadsOK(QueueRead(q, "LLC", p))
        BY <1>1, <1>2, ReadQueued
      <4> QED BY <2>3, <3>2, <4>1, <4>2 DEF add_rq, HierarchyInv
    <3>3. CASE c # "L2C"
      <4>1. read_memory(add_mshr(mshr, c, p), p.address) /\ rq' = q
        BY <2>3, <3>3
      <4>2. rd \subseteq Addresses
        BY DEF HierarchyInv
      <4> QED BY <1>2, <1>3, <3>1, <4>1, <4>2, MemoryReadKeeps
    <3> QED BY <3>2, <3>3
  <2> QED BY <2>1, <2>2, <2>3 DEF handle_read
<1>5. PrefetchesOK(pq') /\ issued' \in 0 .. MaxRequests
  <2>1. CASE prefetch_line(pq, {})
    BY <2>1, PrefetchLineKeeps DEF HierarchyInv
  <2>2. CASE UNCHANGED <<pq, issued>>
    BY <2>2 DEF HierarchyInv
  <2> QED BY <2>1, <2>2 DEF handle_read
<1> QED BY <1>4, <1>5 DEF HierarchyInv, handle_read

LEMMA HandlePrefetchKeeps ==
  ASSUME HierarchyInv, NEW c \in Shared, handle_prefetch(c)
  PROVE  HierarchyInv'
<1>1. /\ c \in Requesters /\ c \in Caches /\ c # "L1D" /\ pq[c] # <<>>
      /\ "LLC" \in Shared
  BY Names DEF handle_prefetch, Shared
<1> DEFINE p == Head(pq[c])
           q == [pq EXCEPT ![c] = Tail(@)]
           merge == [e \in mshr[c] |-> Lowered(e, p)]
           Operate(after) == \/ prefetch_line(after, {p.address})
                             \/ pq' = after /\ issued' = issued
<1>2. p \in Packet /\ PrefetchesOK(q)
  BY <1>1, PrefetchTaken DEF HierarchyInv
<1>3. p \in Misses(c, stored) /\ p.address \in Addresses
  BY <1>1, <1>2 DEF Misses, Packet
<1>4. ASSUME NEW after, PrefetchesOK(after), Operate(after)
      PROVE  PrefetchesOK(pq') /\ issued' \in 0 .. MaxRequests
  <2>1. issued \in 0 .. MaxRequests
    BY DEF HierarchyInv
  <2> HIDE DEF p
  <2> QED BY <1>4, <2>1, PrefetchLineKeeps
<1>5. /\ MissesOK(mshr', stored) /\ rd' \subseteq Addresses
      /\ PrefetchesOK(pq') /\ issued' \in 0 .. MaxRequests
  <2>1. CASE mshr' = AnswerFlagged(mshr, c, p) /\ rd' = rd /\ Operate(q)
    <3>1. MissesOK(AnswerFlagged(mshr, c, p), stored)
      BY MissesAnswered DEF HierarchyInv
    <3> HIDE DEF Operate, p, q
    <3>2. PrefetchesOK(pq') /\ issued' \in 0 .. MaxRequests
      BY <1>2, <1>4, <2>1
    <3> QED BY <2>1, <3>1, <3>2 DEF HierarchyInv
  <2>2. CASE /\ mshr' = Merged(mshr, c, p, merge) /\ rd' = rd
             /\ pq' = q /\ issued' = issued
    <3>1. \A e \in mshr[c] : merge[e] \in Misses(c, stored)
      <4>1. mshr[c] \subseteq Misses(c, stored)
        BY <1>1 DEF HierarchyInv, MissesOK
      <4> QED BY <1>3, <4>1, MissMerges
    <3> HIDE DEF p, q, merge
    <3>2. MissesOK(Merged(mshr, c, p, merge), stored)
      BY <1>1, <3>1, MissMerged DEF HierarchyInv
    <3> QED BY <1>2, <2>2, <3>2 DEF HierarchyInv
  <2>3. CASE /\ HasMshr(c)
             /\ IF c = "L2C"
                THEN /\ mshr' = Forwarded(MissInto(mshr, c, p), "LLC", p)
                     /\ rd' = rd
                     /\ Operate(QueuePrefetch(q, "LLC", p))
                ELSE /\ read_memory(MissInto(mshr, c, p), p.address)
                     /\ Operate(q)
    <3> HIDE DEF Operate, p, q
    <3>1. MissesOK(MissInto(mshr, c, p), stored)
      BY <1>1, <1>3, <2>3, MissIntoKeeps DEF HierarchyInv
    <3>2. CASE c = "L2C"
      <4>1. MissesOK(Forwarded(MissInto(mshr, c, p), "LLC", p), stored)
        BY <3>1, MissesAnswered
      <4>2. PrefetchesOK(QueuePrefetch(q, "LLC", p))
        BY <1>1, <1>2, PrefetchQueued
      <4>3. PrefetchesOK(pq') /\ issued' \in 0 .. MaxRequests
        BY <1>4, <2>3, <3>2, <4>2
      <4> QED BY <2>3, <3>2, <4>1, <4>3 DEF HierarchyInv
    <3>3. CASE c # "L2C"
      <4>1. read_memory(MissInto(mshr, c, p), p.address) /\ Operate(q)
        BY <2>3, <3>3
      <4>2. rd \subseteq Addresses
        BY DEF HierarchyInv
      <4>3. MissesOK(mshr', stored) /\ rd' \subseteq Addresses
        BY <1>3, <3>1, <4>1, <4>2, MemoryReadKeeps
      <4>4. PrefetchesOK(pq') /\ issued' \in 0 .. MaxRequests
        BY <1>2, <1>4, <4>1
      <4> QED BY <4>3, <4>4
    <3> QED BY <3>2, <3>3
  <2> QED BY <2>1, <2>2, <2>3 DEF handle_prefetch
<1> QED BY <1>5 DEF HierarchyInv, handle_prefetch

LEMMA WalkedKeeps ==
  ASSUME HierarchyInv, walked
  PROVE  HierarchyInv'
<1>1. PICK e \in mshr["PTW"] : mshr' = [mshr EXCEPT !["PTW"] = @ \ {e}]
  BY DEF walked
<1>2. MissesOK([mshr EXCEPT !["PTW"] = @ \ {e}], stored)
  BY MissRemoved, Names DEF HierarchyInv
<1> QED BY <1>1, <1>2 DEF HierarchyInv, walked

LEMMA MemoryKeeps ==
  ASSUME HierarchyInv, NEW a \in Addresses, memory_returns(a) \/ memory_writes(a)
  PROVE  HierarchyInv'
<1>1. CASE memory_returns(a)
  <2>1. MissesOK(return_data(mshr, {"LLC"}, a), stored)
    BY MissesReturned DEF HierarchyInv
  <2> QED BY <1>1, <2>1 DEF HierarchyInv, memory_returns
<1>2. CASE memory_writes(a)
  BY <1>2 DEF HierarchyInv, memory_writes
<1> QED BY <1>1, <1>2

LEMMA LookupsKeep ==
  ASSUME HierarchyInv, Lookups
  PROVE  HierarchyInv'
BY HandleReadKeeps, HandlePrefetchKeeps, WalkedKeeps, MemoryKeeps DEF Lookups

-----------------------------------------------------------------------------
(* Fills, writebacks and invalidations *)

LEMMA HandleFillKeeps ==
  ASSUME HierarchyInv, NEW c \in Caches, handle_fill(c)
  PROVE  HierarchyInv'
<1> DEFINE Fills(e, f) ==
      /\ evict(c, f, wq)
      /\ block' = IF Bypassed(c, e)
                  THEN IF c = "L2C" THEN InvalidateIn(block, Shared, e.address)
                       ELSE block
                  ELSE fill_cache(c, f, e.address, c = "L1D" /\ e.type = "RFO")
      /\ mshr' = Answer([mshr EXCEPT ![c] = @ \ {e}], c, e)
      /\ unfilled' = IF c = "L1D" THEN unfilled \ {e.address} ELSE unfilled
<1>0. PICK e \in mshr[c] : \E f \in find_victim(c, e.address) : Fills(e, f)
  BY DEF handle_fill
<1>1. PICK f \in find_victim(c, e.address) : Fills(e, f)
  BY <1>0
<1>2. c \in Requesters /\ f \in Frames(c) /\ stored \subseteq Addresses
  BY Names, FramesOfSet DEF HierarchyInv, Addresses
<1>3. /\ e \in Packet /\ e.address \in Addresses
      /\ c = "L1D" /\ e.type = "RFO" => e.address \in stored
  BY <1>0, <1>2 DEF HierarchyInv, MissesOK, Misses, Packet
<1>4. LinesOK(block', stored)
  <2>1. LinesOK(InvalidateIn(block, Shared, e.address), stored)
    BY LinesDropped DEF HierarchyInv
  <2>2. LinesOK(fill_cache(c, f, e.address, c = "L1D" /\ e.type = "RFO"), stored)
    BY <1>2, <1>3, LineFilled DEF HierarchyInv
  <2> QED BY <1>1, <2>1, <2>2 DEF HierarchyInv
<1>5. WritesOK(wq', stored) /\ wr' \subseteq Addresses \cap stored
  BY <1>1, <1>2, LineEvicted DEF HierarchyInv
<1>6. MissesOK(mshr', stored)
  <2>1. MissesOK([mshr EXCEPT ![c] = @ \ {e}], stored)
    BY <1>2, MissRemoved DEF HierarchyInv
  <2> QED BY <1>1, <2>1, MissesAnswered
<1>7. unfilled' \subseteq Blocks
  BY <1>1 DEF HierarchyInv
<1> QED BY <1>4, <1>5, <1>6, <1>7 DEF HierarchyInv, handle_fill

LEMMA HandleWritebackKeeps ==
  ASSUME HierarchyInv, NEW c \in Shared, handle_writeback(c)
  PROVE  HierarchyInv'
<1>1. c \in Caches /\ wq[c] # <<>> /\ stored \subseteq Addresses
  BY Names DEF handle_writeback, HierarchyInv, Addresses
<1> DEFINE a == Head(wq[c])
           q == [wq EXCEPT ![c] = Tail(@)]
<1>2. a \in Addresses \cap stored /\ WritesOK(q, stored)
  BY <1>1, WriteTaken DEF HierarchyInv
<1>3. c # "LLC" => q[Lower(c)] = wq[Lower(c)]
  BY DEF HierarchyInv, WritesOK, Shared, Lower
<1>4. /\ LinesOK(block', stored) /\ WritesOK(wq', stored)
      /\ wr' \subseteq Addresses \cap stored
  <2>1. CASE check_hit(c, a) /\ block' = MarkDirty(c, a) /\ wq' = q /\ wr' = wr
    <3> HIDE DEF a, q
    <3>1. LinesOK(MarkDirty(c, a), stored)
      BY <1>1, <1>2, <2>1, LineMarked DEF HierarchyInv
    <3> QED BY <1>2, <2>1, <3>1 DEF HierarchyInv
  <2>2. ASSUME NEW f \in find_victim(c, a), evict(c, f, q),
               block' = fill_cache(c, f, a, TRUE)
        PROVE  /\ LinesOK(block', stored) /\ WritesOK(wq', stored)
               /\ wr' \subseteq Addresses \cap stored
    <3> HIDE DEF a, q
    <3>1. f \in Frames(c)
      BY <1>1, <2>2, FramesOfSet
    <3>2. LinesOK(fill_cache(c, f, a, TRUE), stored)
      BY <1>1, <1>2, <3>1, LineFilled DEF HierarchyInv
    <3>3. WritesOK(wq', stored) /\ wr' \subseteq Addresses \cap stored
      BY <1>1, <1>2, <1>3, <2>2, <3>1, LineEvicted DEF HierarchyInv
    <3> QED BY <2>2, <3>2, <3>3
  <2> QED BY <2>1, <2>2 DEF handle_writeback
<1> QED BY <1>4 DEF HierarchyInv, handle_writeback

LEMMA TranslationFillKeeps ==
  ASSUME HierarchyInv, NEW x, NEW y, translation_fill(x, y)
  PROVE  HierarchyInv'
<1>1. LinesOK(InvalidateIn(InvalidateIn(block, Shared, x), L1s, y), stored)
  BY LinesDropped DEF HierarchyInv
<1>2. translated' \in 0 .. MaxTranslations
  BY HierarchyAssumption DEF HierarchyInv, translation_fill
<1> QED BY <1>1, <1>2 DEF HierarchyInv, translation_fill

-----------------------------------------------------------------------------
(* The theorems *)

LEMMA HierarchyStarts == Init => HierarchyInv
<1> SUFFICES ASSUME Init PROVE HierarchyInv
  OBVIOUS
<1>1. LinesOK(block, stored)
  BY LineTypes DEF Init, LinesOK
<1>2. MissesOK(mshr, stored)
  BY FS_EmptySet, Sizes DEF Init, MissesOK
<1>3. ReadsOK(rq) /\ PrefetchesOK(pq) /\ WritesOK(wq, stored)
  BY Sizes DEF Init, ReadsOK, PrefetchesOK, WritesOK
<1> QED BY <1>1, <1>2, <1>3, HierarchyAssumption DEF Init, HierarchyInv

LEMMA HierarchyStutters ==
  ASSUME HierarchyInv, UNCHANGED vars
  PROVE  HierarchyInv'
BY DEF HierarchyInv, vars, LinesOK, MissesOK, ReadsOK, PrefetchesOK, WritesOK

\* The inductive invariant: lines, misses and queues keep to their types and
\* sizes, and what is dirty, or will be when a fill of L1D comes, has been
\* stored (all handlers of cache.cc).
THEOREM HierarchyInvariance == Spec => []HierarchyInv
<1>1. Init => HierarchyInv
  BY HierarchyStarts
<1>2. HierarchyInv /\ [Next]_vars => HierarchyInv'
  <2> SUFFICES ASSUME HierarchyInv, [Next]_vars PROVE HierarchyInv'
    OBVIOUS
  <2>1. CASE Requests
    BY <2>1, RequestsKeep
  <2>2. CASE \E x, y \in Blocks \cup {0} : translation_fill(x, y)
    BY <2>2, TranslationFillKeeps
  <2>3. CASE Handlers
    BY <2>3, HandleFillKeeps, HandleWritebackKeeps, LookupsKeep DEF Handlers
  <2>4. CASE UNCHANGED vars
    BY <2>4, HierarchyStutters
  <2> QED BY <2>1, <2>2, <2>3, <2>4 DEF Next
<1> QED BY <1>1, <1>2, PTL DEF Spec

LEMMA InvariantTypes == HierarchyInv => TypeOK
<1> SUFFICES ASSUME HierarchyInv PROVE TypeOK
  OBVIOUS
<1>1. DOMAIN block = Caches /\ \A c \in Caches : block[c] \in [Frames(c) -> Line]
  BY DEF HierarchyInv, LinesOK, Lines
<1>2. \A c \in Shared : wq[c] \in Seq(Addresses)
  <2> SUFFICES ASSUME NEW c \in Shared PROVE wq[c] \in Seq(Addresses)
    OBVIOUS
  <2>1. wq[c] \in Seq(Addresses \cap stored)
    BY DEF HierarchyInv, WritesOK
  <2> QED BY <2>1
<1>3. wq \in [Shared -> Seq(Addresses)]
  BY <1>2 DEF HierarchyInv, WritesOK
<1> QED BY <1>1, <1>3
        DEF HierarchyInv, TypeOK, MissesOK, ReadsOK, PrefetchesOK, WritesOK

\* Every packet, line and queue has its type, and no queue or MSHR file of any
\* cache grows beyond its size, whatever the sizes are (add_rq, add_wq, add_pq,
\* add_mshr in cache.cc).
THEOREM HierarchyTypeCorrect == Spec => []TypeOK
BY HierarchyInvariance, InvariantTypes, PTL

\* Whatever the sizes and the prefetchers, no level ever writes back a block
\* that no store has written (fill_cache and the dirty bits it sets).
THEOREM OnlyStoresGoDown == Spec => []OnlyStoresAreWrittenBack
<1>1. HierarchyInv => OnlyStoresAreWrittenBack
  <2> SUFFICES ASSUME HierarchyInv PROVE OnlyStoresAreWrittenBack
    OBVIOUS
  <2>1. \A c \in Caches : \A f \in Frames(c) :
          block[c][f].dirty => block[c][f].address \in stored
    BY DEF HierarchyInv, LinesOK, Lines
  <2>2. \A c \in Shared : Elements(wq[c]) \subseteq stored
    <3> SUFFICES ASSUME NEW c \in Shared, NEW i \in DOMAIN wq[c]
                 PROVE  wq[c][i] \in stored
      BY DEF Elements
    <3>1. wq[c] \in Seq(Addresses \cap stored)
      BY DEF HierarchyInv, WritesOK
    <3> QED BY <3>1
  <2> QED BY <2>1, <2>2 DEF HierarchyInv, OnlyStoresAreWrittenBack
<1> QED BY <1>1, HierarchyInvariance, PTL

-----------------------------------------------------------------------------
(* Misses on their way.  What follows is about MSHRs, read queues and      *)
(* prefetch queues only, and holds for both builds of the caches.          *)

\* The requesters that shared cache c answers.
Above(c) == IF c = "L2C" THEN {"L1I", "L1D", "PTW"} ELSE {"L2C"}

\* A packet says whom it is for: walks are for table blocks and demands, and
\* what is to fill an L1 has the flag of an L1, what is not has none.
WellFormed ==
  {p \in Packet :
     /\ p.type = "LOAD_TRANSLATION" <=> p.address \in TableBlocks
     /\ p.type = "PREFETCH" => ~p.send_both_cache
     /\ p.fill_level # FILL_L1 =>
          p.type = "PREFETCH" /\ ~p.fill_l1i /\ ~p.fill_l1d
     /\ p.fill_level = FILL_L1 /\ p.type # "LOAD_TRANSLATION" =>
          p.fill_l1i \/ p.fill_l1d}

\* A read is for one L1, as its flags and its instruction bit say, or for both.
ReadPackets ==
  {p \in WellFormed :
     /\ p.fill_level = FILL_L1 /\ p.type # "PREFETCH"
     /\ p.type # "LOAD_TRANSLATION" /\ ~p.send_both_cache =>
          (p.fill_l1i <=> p.instruction) /\ (p.fill_l1d <=> ~p.instruction)}

PrefetchPackets == {p \in WellFormed : p.type = "PREFETCH"}

\* A queue or an MSHR file holds a block once.
OncePerBlock(q) == \A i, j \in DOMAIN q : q[i].address = q[j].address => i = j
SingleMisses(S) == \A d, e \in S : d.address = e.address => d = e

GoodQueues(q, V) ==
  q \in [Shared -> Seq(V)] /\ \A c \in Shared : OncePerBlock(q[c])

GoodMisses(m) ==
  /\ m \in [Requesters -> SUBSET Packet]
  /\ \A c \in Shared : m[c] \subseteq WellFormed
  /\ \A c \in Requesters : SingleMisses(m[c])

\* The packets of S make requester x wait for block a; one of them will be
\* answered to x.
Waits(S, a) == \E e \in S : e.address = a /\ ~e.returned
Sends(S, x, a) == \E p \in S : p.address = a /\ Answered(x, p)

\* Whoever waits for a block is named by one packet below, which is in one
\* place, and nobody else is.
CarriedAt(m, r, q, c, x, a) ==
  /\ Waits(m[x], a) <=> \/ Sends(Elements(r[c]), x, a)
                        \/ Sends(Elements(q[c]), x, a)
                        \/ Sends(m[c], x, a)
  /\ ~(Sends(Elements(r[c]), x, a) /\ Sends(Elements(q[c]), x, a))
  /\ ~(Sends(Elements(r[c]), x, a) /\ Sends(m[c], x, a))
  /\ ~(Sends(Elements(q[c]), x, a) /\ Sends(m[c], x, a))

CarriedOnce(m, r, q) ==
  \A c \in Shared : \A x \in Above(c), a \in Addresses : CarriedAt(m, r, q, c, x, a)

\* The same when packet p is about to be handed to cache c: those that p is for
\* wait, and no other packet is for them.
Owed(m, r, q, c, p) ==
  \A k \in Shared : \A x \in Above(k), a \in Addresses :
    IF k = c /\ a = p.address /\ Answered(x, p)
    THEN /\ Waits(m[x], a)
         /\ ~Sends(Elements(r[k]), x, a) /\ ~Sends(Elements(q[k]), x, a)
         /\ ~Sends(m[k], x, a)
    ELSE CarriedAt(m, r, q, k, x, a)

\* LLC waits for exactly what memory has been asked for.
ReadOnce(m, reads) == \A a \in Addresses : Waits(m["LLC"], a) <=> a \in reads

MissesInv ==
  /\ GoodQueues(rq, ReadPackets) /\ GoodQueues(pq, PrefetchPackets)
  /\ GoodMisses(mshr)
  /\ CarriedOnce(mshr, rq, pq) /\ ReadOnce(mshr, rd)

-----------------------------------------------------------------------------
(* Whom a packet is answered to *)

LEMMA WellFormedPackets ==
  /\ ReadPackets \subseteq WellFormed /\ PrefetchPackets \subseteq WellFormed
  /\ WellFormed \subseteq Packet
BY DEF ReadPackets, PrefetchPackets, WellFormed

LEMMA SendersBelow ==
  /\ \A c \in Shared : \A x \in Above(c) : x \in Requesters /\ Lower(x) = c /\ x # "LLC" /\ x # c
  /\ Above("L2C") = {"L1I", "L1D", "PTW"} /\ Above("LLC") = {"L2C"}
BY DEF Above, Shared, Requesters, Caches, Lower

\* Answered, for the requesters one by one.
LEMMA AnsweredTo ==
  ASSUME NEW p \in WellFormed
  PROVE  /\ Answered("L2C", p) <=> p.fill_level # FILL_LLC
         /\ Answered("PTW", p) <=>
              p.fill_level = FILL_L1 /\ p.type = "LOAD_TRANSLATION"
         /\ Answered("L1I", p) <=>
              /\ p.fill_level = FILL_L1 /\ p.type # "LOAD_TRANSLATION"
              /\ p.send_both_cache \/ p.fill_l1i
         /\ Answered("L1D", p) <=>
              /\ p.fill_level = FILL_L1 /\ p.type # "LOAD_TRANSLATION"
              /\ p.send_both_cache \/ p.fill_l1d
<1>1. p.fill_level \in {1, 2, 4}
  BY DEF WellFormed, Packet, FILL_L1, FILL_L2, FILL_LLC
<1>2. p.fill_level < FILL_L2 <=> p.fill_level = FILL_L1
  BY <1>1 DEF FILL_L1, FILL_L2
<1>3. p.fill_level < FILL_LLC <=> p.fill_level # FILL_LLC
  BY <1>1 DEF FILL_LLC
<1>4. CASE p.type = "LOAD_TRANSLATION"
  <2>1. Receivers(p) = {"PTW"}
    BY <1>4 DEF Receivers
  <2> QED BY <1>2, <1>3, <1>4, <2>1 DEF Answered
<1>5. CASE p.type # "LOAD_TRANSLATION" /\ p.send_both_cache
  <2>1. Receivers(p) = L1s
    BY <1>5 DEF Receivers
  <2> QED BY <1>2, <1>3, <1>5, <2>1 DEF Answered, L1s
<1>6. CASE p.type # "LOAD_TRANSLATION" /\ ~p.send_both_cache
  <2>1. /\ "L1I" \in Flagged(p) <=> p.fill_l1i
        /\ "L1D" \in Flagged(p) <=> p.fill_l1d
        /\ "PTW" \notin Flagged(p)
    BY DEF Flagged, L1s
  <2>2. Flagged(p) # {} => Receivers(p) = Flagged(p)
    BY <1>6 DEF Receivers
  <2>3. p.fill_level = FILL_L1 => Flagged(p) # {}
    BY <1>6, <2>1 DEF WellFormed
  <2> QED BY <1>2, <1>3, <1>6, <2>1, <2>2, <2>3 DEF Answered
<1> QED BY <1>4, <1>5, <1>6

\* The same for the three requesters above L2C at once, with what the fields
\* say of each other.
LEMMA AnsweredAbove ==
  ASSUME NEW p \in WellFormed
  PROVE  /\ p.type = "LOAD_TRANSLATION" <=> p.address \in TableBlocks
         /\ p.type = "PREFETCH" => ~p.send_both_cache
         /\ p.fill_level # FILL_L1 =>
              p.type = "PREFETCH" /\ ~p.fill_l1i /\ ~p.fill_l1d
         /\ p.fill_level = FILL_L1 /\ p.type # "LOAD_TRANSLATION" =>
              p.fill_l1i \/ p.fill_l1d
         /\ p.fill_level = FILL_L1 /\ p.type = "LOAD_TRANSLATION" =>
              Answered("PTW", p) /\ ~Answered("L1I", p) /\ ~Answered("L1D", p)
         /\ p.fill_level = FILL_L1 /\ p.type # "LOAD_TRANSLATION" =>
              /\ ~Answered("PTW", p)
              /\ Answered("L1I", p) <=> p.send_both_cache \/ p.fill_l1i
              /\ Answered("L1D", p) <=> p.send_both_cache \/ p.fill_l1d
         /\ p.fill_level # FILL_L1 =>
              ~Answered("PTW", p) /\ ~Answered("L1I", p) /\ ~Answered("L1D", p)
<1>1. /\ p.type = "LOAD_TRANSLATION" <=> p.address \in TableBlocks
      /\ p.type = "PREFETCH" => ~p.send_both_cache
      /\ p.fill_level # FILL_L1 =>
           p.type = "PREFETCH" /\ ~p.fill_l1i /\ ~p.fill_l1d
      /\ p.fill_level = FILL_L1 /\ p.type # "LOAD_TRANSLATION" =>
           p.fill_l1i \/ p.fill_l1d
  BY DEF WellFormed
<1> QED BY <1>1, AnsweredTo, Zenon

LEMMA AnsweredToSame ==
  ASSUME NEW e \in Packet, NEW r \in BOOLEAN, NEW x
  PROVE  /\ Answered(x, [e EXCEPT !.returned = r]) <=> Answered(x, e)
         /\ [e EXCEPT !.returned = r].address = e.address
         /\ [e EXCEPT !.returned = r].returned = r
         /\ [e EXCEPT !.returned = r] \in Packet
         /\ e \in WellFormed => [e EXCEPT !.returned = r] \in WellFormed
<1> DEFINE f == [e EXCEPT !.returned = r]
<1>1. /\ f \in Packet /\ f.address = e.address /\ f.fill_level = e.fill_level
      /\ f.type = e.type /\ f.instruction = e.instruction
      /\ f.fill_l1i = e.fill_l1i /\ f.fill_l1d = e.fill_l1d
      /\ f.send_both_cache = e.send_both_cache /\ f.returned = r
  BY DEF Packet
<1> HIDE DEF f
<1>2. Flagged(f) = Flagged(e)
  BY <1>1 DEF Flagged
<1>3. Receivers(f) = Receivers(e)
  BY <1>1, <1>2 DEF Receivers
<1>4. Answered(x, f) <=> Answered(x, e)
  BY <1>1, <1>3 DEF Answered
<1>5. e \in WellFormed => f \in WellFormed
  BY <1>1 DEF WellFormed
<1> QED BY <1>1, <1>4, <1>5 DEF f

LEMMA LevelLowered ==
  ASSUME NEW e \in Packet, NEW p \in Packet
  PROVE  LET l == IF p.fill_level < e.fill_level THEN p.fill_level ELSE e.fill_level IN
         /\ l \in {FILL_L1, FILL_L2, FILL_LLC}
         /\ l = FILL_L1 <=> p.fill_level = FILL_L1 \/ e.fill_level = FILL_L1
         /\ l = FILL_LLC <=> p.fill_level = FILL_LLC /\ e.fill_level = FILL_LLC
<1>1. p.fill_level \in {1, 2, 4} /\ e.fill_level \in {1, 2, 4}
  BY DEF Packet, FILL_L1, FILL_L2, FILL_LLC
<1> QED BY <1>1 DEF FILL_L1, FILL_L2, FILL_LLC

LEMMA LoweredFields ==
  ASSUME NEW e \in Packet, NEW p \in Packet
  PROVE  LET l == Lowered(e, p) IN
         /\ l \in Packet /\ l.address = e.address /\ l.type = e.type
         /\ l.send_both_cache = e.send_both_cache /\ l.returned = e.returned
         /\ l.fill_l1i <=> e.fill_l1i \/ p.fill_l1i
         /\ l.fill_l1d <=> e.fill_l1d \/ p.fill_l1d
         /\ l.fill_level = FILL_L1 <=> p.fill_level = FILL_L1 \/ e.fill_level = FILL_L1
         /\ l.fill_level = FILL_LLC <=> p.fill_level = FILL_LLC /\ e.fill_level = FILL_LLC
<1> DEFINE l == Lowered(e, p)
           level == IF p.fill_level < e.fill_level THEN p.fill_level ELSE e.fill_level
<1>1. l \in Packet
  BY PacketMerges
<1>2. /\ l.address = e.address /\ l.type = e.type
      /\ l.send_both_cache = e.send_both_cache /\ l.returned = e.returned
      /\ l.fill_level = level
  BY DEF Lowered, Packet
<1>3. l.fill_l1i = (e.fill_l1i \/ p.fill_l1i) /\ l.fill_l1d = (e.fill_l1d \/ p.fill_l1d)
  BY DEF Lowered, Packet
<1> HIDE DEF l
<1>4. /\ l.fill_level = FILL_L1 <=> p.fill_level = FILL_L1 \/ e.fill_level = FILL_L1
      /\ l.fill_level = FILL_LLC <=> p.fill_level = FILL_LLC /\ e.fill_level = FILL_LLC
  BY <1>2, LevelLowered
<1> QED BY <1>1, <1>2, <1>3, <1>4 DEF l

\* Packets e and p of shared cache c, for one block, are for different
\* requesters, and f is for those of both.
Apart(c, e, p) == \A x \in Above(c) : ~(Answered(x, e) /\ Answered(x, p))
ForBoth(c, f, e, p) ==
  \A x \in Above(c) : Answered(x, f) <=> Answered(x, e) \/ Answered(x, p)

LEMMA LoweredAnswers ==
  ASSUME NEW c \in Shared, NEW e \in WellFormed, NEW p \in WellFormed,
         e.address = p.address, Apart(c, e, p),
         p.type = "PREFETCH" \/ e.type # "PREFETCH"
  PROVE  Lowered(e, p) \in WellFormed /\ ForBoth(c, Lowered(e, p), e, p)
<1> DEFINE l == Lowered(e, p)
<1>0. e \in Packet /\ p \in Packet
  BY WellFormedPackets
<1>1. /\ l \in Packet /\ l.address = e.address /\ l.type = e.type
      /\ l.send_both_cache = e.send_both_cache
      /\ l.fill_l1i <=> e.fill_l1i \/ p.fill_l1i
      /\ l.fill_l1d <=> e.fill_l1d \/ p.fill_l1d
      /\ l.fill_level = FILL_L1 <=> p.fill_level = FILL_L1 \/ e.fill_level = FILL_L1
      /\ l.fill_level = FILL_LLC <=> p.fill_level = FILL_LLC /\ e.fill_level = FILL_LLC
  BY <1>0, LoweredFields
<1> HIDE DEF l
<1>2. l \in WellFormed
  <2>1. /\ l.type = "LOAD_TRANSLATION" <=> l.address \in TableBlocks
        /\ l.type = "PREFETCH" => ~l.send_both_cache
    BY <1>1, AnsweredAbove, Zenon
  <2>2. l.fill_level # FILL_L1 => l.type = "PREFETCH" /\ ~l.fill_l1i /\ ~l.fill_l1d
    BY <1>1, AnsweredAbove, Zenon
  <2>3. l.fill_level = FILL_L1 /\ l.type # "LOAD_TRANSLATION" => l.fill_l1i \/ l.fill_l1d
    BY <1>1, AnsweredAbove, Zenon
  <2> QED BY <1>1, <2>1, <2>2, <2>3 DEF WellFormed
<1>3. CASE c = "LLC"
  <2>1. Above(c) = {"L2C"}
    BY <1>3, SendersBelow
  <2>2. /\ Answered("L2C", e) <=> e.fill_level # FILL_LLC
        /\ Answered("L2C", p) <=> p.fill_level # FILL_LLC
        /\ Answered("L2C", l) <=> l.fill_level # FILL_LLC
    BY <1>2, AnsweredTo
  <2> QED BY <1>2, <1>1, <2>1, <2>2 DEF ForBoth, l
<1>4. CASE c = "L2C"
  <2>1. Above(c) = {"L1I", "L1D", "PTW"}
    BY <1>4, SendersBelow
  <2>2. /\ ~(Answered("L1I", e) /\ Answered("L1I", p))
        /\ ~(Answered("L1D", e) /\ Answered("L1D", p))
        /\ ~(Answered("PTW", e) /\ Answered("PTW", p))
    BY <2>1 DEF Apart
  <2>3. /\ Answered("L1I", l) <=> Answered("L1I", e) \/ Answered("L1I", p)
        /\ Answered("L1D", l) <=> Answered("L1D", e) \/ Answered("L1D", p)
        /\ Answered("PTW", l) <=> Answered("PTW", e) \/ Answered("PTW", p)
    <3>1. CASE e.type = "LOAD_TRANSLATION"
      BY <1>1, <1>2, <2>2, <3>1, AnsweredAbove, Zenon
    <3>2. CASE e.type # "LOAD_TRANSLATION" /\ e.fill_level = FILL_L1 /\ p.fill_level = FILL_L1
      BY <1>1, <1>2, <2>2, <3>2, AnsweredAbove, Zenon
    <3>3. CASE e.type # "LOAD_TRANSLATION" /\ e.fill_level # FILL_L1
      BY <1>1, <1>2, <2>2, <3>3, AnsweredAbove, Zenon
    <3>4. CASE e.type # "LOAD_TRANSLATION" /\ p.fill_level # FILL_L1
      BY <1>1, <1>2, <2>2, <3>4, AnsweredAbove, Zenon
    <3> QED BY <3>1, <3>2, <3>3, <3>4
  <2> QED BY <1>2, <2>1, <2>3 DEF ForBoth, l
<1> HIDE DEF ForBoth
<1> QED BY <1>2, <1>3, <1>4 DEF Shared, l

LEMMA PromotedAnswers ==
  ASSUME NEW c \in Shared, NEW e \in WellFormed, NEW p \in WellFormed,
         e.address = p.address, Apart(c, e, p),
         e.type = "PREFETCH", p.type # "PREFETCH"
  PROVE  Promoted(e, p) \in WellFormed /\ ForBoth(c, Promoted(e, p), e, p)
<1> DEFINE l == Lowered(e, p)
           f == Promoted(e, p)
<1>0. e \in Packet /\ p \in Packet
  BY WellFormedPackets
<1>1. /\ l \in Packet
      /\ l.fill_l1i <=> e.fill_l1i \/ p.fill_l1i
      /\ l.fill_l1d <=> e.fill_l1d \/ p.fill_l1d
      /\ l.fill_level = FILL_L1 <=> p.fill_level = FILL_L1 \/ e.fill_level = FILL_L1
      /\ l.fill_level = FILL_LLC <=> p.fill_level = FILL_LLC /\ e.fill_level = FILL_LLC
  BY <1>0, LoweredFields
<1>2. /\ f \in Packet /\ f.address = p.address /\ f.type = p.type
      /\ f.send_both_cache = p.send_both_cache
      /\ f.fill_l1i = l.fill_l1i /\ f.fill_l1d = l.fill_l1d
      /\ f.fill_level = l.fill_level
  <2> HIDE DEF l
  <2> DEFINE g == [p EXCEPT !.fill_level = l.fill_level,
                   !.instruction = p.instruction \/ l.instruction,
                   !.fill_l1i = l.fill_l1i, !.fill_l1d = l.fill_l1d,
                   !.returned = e.returned]
  <2>1. g \in Packet
    <3> DEFINE level == l.fill_level
               i == p.instruction \/ l.instruction
               fi == l.fill_l1i
               fd == l.fill_l1d
               r == e.returned
    <3>1. /\ level \in {FILL_L1, FILL_L2, FILL_LLC} /\ i \in BOOLEAN
          /\ fi \in BOOLEAN /\ fd \in BOOLEAN /\ r \in BOOLEAN
      BY <1>0, <1>1 DEF Packet
    <3> HIDE DEF l, level, i, fi, fd, r
    <3>2. [p EXCEPT !.fill_level = level, !.instruction = i, !.fill_l1i = fi,
                    !.fill_l1d = fd, !.returned = r] \in Packet
      BY <1>0, <3>1 DEF Packet
    <3> QED BY <3>2 DEF level, i, fi, fd, r
  <2>2. g.address = p.address /\ g.type = p.type /\ g.send_both_cache = p.send_both_cache
    BY <1>0 DEF Packet
  <2>3. /\ g.fill_l1i = l.fill_l1i /\ g.fill_l1d = l.fill_l1d
        /\ g.fill_level = l.fill_level
    BY <1>0 DEF Packet
  <2>4. g = f
    BY DEF Promoted, l
  <2> HIDE DEF f, g
  <2> QED BY <2>1, <2>2, <2>3, <2>4
<1> HIDE DEF l, f
<1>3. f \in WellFormed
  <2>1. p.fill_level = FILL_L1 /\ f.fill_level = FILL_L1
    BY <1>1, <1>2, AnsweredAbove
  <2>2. /\ f.type = "LOAD_TRANSLATION" <=> f.address \in TableBlocks
        /\ f.type = "PREFETCH" => ~f.send_both_cache
    BY <1>2, AnsweredAbove, Zenon
  <2>3. f.type # "LOAD_TRANSLATION" => f.fill_l1i \/ f.fill_l1d
    BY <1>1, <1>2, <2>1, AnsweredAbove, Zenon
  <2> QED BY <1>2, <2>1, <2>2, <2>3 DEF WellFormed
<1>4. CASE c = "LLC"
  <2>1. Above(c) = {"L2C"}
    BY <1>4, SendersBelow
  <2>2. /\ Answered("L2C", e) <=> e.fill_level # FILL_LLC
        /\ Answered("L2C", p) <=> p.fill_level # FILL_LLC
        /\ Answered("L2C", f) <=> f.fill_level # FILL_LLC
    BY <1>3, AnsweredTo
  <2> QED BY <1>3, <1>1, <1>2, <2>1, <2>2 DEF ForBoth, f
<1>5. CASE c = "L2C"
  <2>1. Above(c) = {"L1I", "L1D", "PTW"}
    BY <1>5, SendersBelow
  <2>2. /\ ~(Answered("L1I", e) /\ Answered("L1I", p))
        /\ ~(Answered("L1D", e) /\ Answered("L1D", p))
        /\ ~(Answered("PTW", e) /\ Answered("PTW", p))
    BY <2>1 DEF Apart
  <2>3. /\ Answered("L1I", f) <=> Answered("L1I", e) \/ Answered("L1I", p)
        /\ Answered("L1D", f) <=> Answered("L1D", e) \/ Answered("L1D", p)
        /\ Answered("PTW", f) <=> Answered("PTW", e) \/ Answered("PTW", p)
    <3>0. p.fill_level = FILL_L1 /\ f.fill_level = FILL_L1
      BY <1>1, <1>2, AnsweredAbove
    <3>1. CASE p.type = "LOAD_TRANSLATION"
      BY <1>2, <1>3, <2>2, <3>0, <3>1, AnsweredAbove, Zenon
    <3>2. CASE p.type # "LOAD_TRANSLATION" /\ e.fill_level = FILL_L1
      <4>1. e.type # "LOAD_TRANSLATION" /\ ~e.send_both_cache
        BY AnsweredAbove
      <4> QED BY <1>1, <1>2, <1>3, <2>2, <3>0, <3>2, <4>1, AnsweredAbove, Zenon
    <3>3. CASE p.type # "LOAD_TRANSLATION" /\ e.fill_level # FILL_L1
      <4>1. ~e.fill_l1i /\ ~e.fill_l1d
        BY <3>3, AnsweredAbove
      <4> QED BY <1>1, <1>2, <1>3, <2>2, <3>0, <3>3, <4>1, AnsweredAbove, Zenon
    <3> QED BY <3>1, <3>2, <3>3
  <2> QED BY <1>3, <2>1, <2>3 DEF ForBoth, f
<1> HIDE DEF ForBoth
<1> QED BY <1>3, <1>4, <1>5 DEF Shared, f

\* A demand or a prefetch merges with a miss.
LEMMA MergeMissAnswers ==
  ASSUME NEW c \in Shared, NEW e \in WellFormed, NEW p \in WellFormed,
         e.address = p.address, Apart(c, e, p)
  PROVE  MergeMiss(e, p) \in WellFormed /\ ForBoth(c, MergeMiss(e, p), e, p)
<1>1. CASE e.type = "PREFETCH" /\ p.type # "PREFETCH"
  BY <1>1, PromotedAnswers DEF MergeMiss
<1>2. CASE ~(e.type = "PREFETCH" /\ p.type # "PREFETCH")
  BY <1>2, LoweredAnswers DEF MergeMiss
<1> QED BY <1>1, <1>2

\* Whatever merges with a miss, block and answer stay.
LEMMA MergesKeepMiss ==
  ASSUME NEW e \in Packet, NEW p \in Packet, e.address = p.address
  PROVE  \A f \in {MergeMiss(e, p), MergeStore(e, p), Lowered(e, p)} :
           f \in Packet /\ f.address = p.address /\ f.returned = e.returned
<1>1. LET l == Lowered(e, p) IN
      l \in Packet /\ l.address = p.address /\ l.returned = e.returned
  BY LoweredFields
<1>2. LET f == [p EXCEPT !.returned = e.returned] IN
      f \in Packet /\ f.address = p.address /\ f.returned = e.returned
  BY DEF Packet
<1>3. LET f == Promoted(e, p) IN
      f \in Packet /\ f.address = p.address /\ f.returned = e.returned
  <2> DEFINE l == Lowered(e, p)
  <2>1. l \in Packet
    BY <1>1
  <2> HIDE DEF l
  <2>2. LET g == [p EXCEPT !.fill_level = l.fill_level,
                  !.instruction = p.instruction \/ l.instruction,
                  !.fill_l1i = l.fill_l1i, !.fill_l1d = l.fill_l1d,
                  !.returned = e.returned]
        IN  g \in Packet /\ g.address = p.address /\ g.returned = e.returned
    BY <2>1 DEF Packet
  <2> QED BY <2>2 DEF Promoted, l
<1> QED BY <1>1, <1>2, <1>3 DEF MergeMiss, MergeStore

\* Prefetches merge in a prefetch queue.
LEMMA MergePrefetchAnswers ==
  ASSUME NEW c \in Shared, NEW e \in PrefetchPackets, NEW p \in PrefetchPackets,
         e.address = p.address, Apart(c, e, p)
  PROVE  LET f == MergePrefetch(e, p) IN
         /\ f \in PrefetchPackets /\ f.address = p.address /\ ForBoth(c, f, e, p)
<1> DEFINE l == Lowered(e, p)
<1>1. e \in WellFormed /\ p \in WellFormed /\ p.type = "PREFETCH" /\ e.type = "PREFETCH"
  BY DEF PrefetchPackets
<1>2. l \in WellFormed /\ ForBoth(c, l, e, p)
  BY <1>1, LoweredAnswers
<1>3. l.address = p.address /\ l.type = "PREFETCH" /\ l \in Packet
  BY <1>1, WellFormedPackets, LoweredFields
<1> HIDE DEF l
<1> DEFINE f == [l EXCEPT !.returned = FALSE]
<1>4. f \in WellFormed /\ f.address = p.address /\ \A x : Answered(x, f) <=> Answered(x, l)
  BY <1>2, <1>3, AnsweredToSame
<1>5. f.type = "PREFETCH"
  BY <1>3 DEF Packet
<1>6. f = MergePrefetch(e, p)
  BY DEF MergePrefetch, l
<1> HIDE DEF f
<1> QED BY <1>2, <1>4, <1>5, <1>6 DEF ForBoth, PrefetchPackets

\* Reads of L1I and of L1D merge in the read queue of L2C: then both get the
\* answer.
LEMMA MergeReadAnswers ==
  ASSUME NEW e \in ReadPackets, NEW p \in ReadPackets, ~p.send_both_cache,
         e.address = p.address, Apart("L2C", e, p)
  PROVE  LET f == MergeRead(e, p) IN
         f \in ReadPackets /\ f.address = p.address /\ ForBoth("L2C", f, e, p)
<1> DEFINE f == MergeRead(e, p)
           level == IF p.fill_level < e.fill_level THEN p.fill_level ELSE e.fill_level
<1>0. /\ e \in WellFormed /\ p \in WellFormed /\ e \in Packet /\ p \in Packet
      /\ p.fill_level = FILL_L1 /\ e.fill_level = FILL_L1
      /\ p.instruction \in BOOLEAN /\ e.instruction \in BOOLEAN
  BY WellFormedPackets DEF ReadPackets, Packet
<1>1. f \in Packet
  BY <1>0, PacketMerges
<1>2. /\ f.address = e.address /\ f.type = e.type /\ f.fill_level = level
      /\ f.send_both_cache = (e.send_both_cache \/ e.instruction # p.instruction)
      /\ f.fill_l1i = (e.fill_l1i \/ (~p.instruction /\ p.fill_l1i))
      /\ f.fill_l1d = (e.fill_l1d \/ (~p.instruction /\ p.fill_l1d))
  BY <1>0 DEF MergeRead, Packet
<1>3. f.fill_level = FILL_L1
  BY <1>0, <1>2
<1> HIDE DEF f
<1>4. /\ ~(Answered("L1I", e) /\ Answered("L1I", p))
      /\ ~(Answered("L1D", e) /\ Answered("L1D", p))
      /\ ~(Answered("PTW", e) /\ Answered("PTW", p))
  BY SendersBelow DEF Apart
<1>5. p.type # "LOAD_TRANSLATION" /\ e.type # "LOAD_TRANSLATION"
  BY <1>0, <1>4, AnsweredTo DEF WellFormed
<1>6. f.send_both_cache
  BY <1>0, <1>2, <1>4, <1>5, AnsweredTo DEF ReadPackets
<1>7. f.fill_l1i \/ f.fill_l1d
  BY <1>0, <1>2, <1>5 DEF WellFormed
<1>8. e.type # "PREFETCH"
  BY DEF ReadPackets
<1>9. f \in ReadPackets
  BY <1>0, <1>1, <1>2, <1>3, <1>5, <1>6, <1>7, <1>8 DEF ReadPackets, WellFormed
<1>10. f \in WellFormed
  BY <1>9 DEF ReadPackets
<1>11. /\ Answered("L1I", f) <=> Answered("L1I", e) \/ Answered("L1I", p)
       /\ Answered("L1D", f) <=> Answered("L1D", e) \/ Answered("L1D", p)
       /\ Answered("PTW", f) <=> Answered("PTW", e) \/ Answered("PTW", p)
  BY <1>0, <1>2, <1>3, <1>4, <1>5, <1>6, <1>10, AnsweredTo DEF ReadPackets
<1> QED BY <1>2, <1>9, <1>11, SendersBelow DEF ForBoth, f

-----------------------------------------------------------------------------
(* What changes of queues and MSHR files do to Sends and Waits *)

LEMMA QueueAppended ==
  ASSUME NEW V \in SUBSET Packet, NEW s \in Seq(V), OncePerBlock(s), NEW p \in V,
         \A i \in DOMAIN s : s[i].address # p.address
  PROVE  LET t == Append(s, p) IN
         /\ t \in Seq(V) /\ OncePerBlock(t)
         /\ \A x, a : Sends(Elements(t), x, a) <=>
                        Sends(Elements(s), x, a) \/ (a = p.address /\ Answered(x, p))
<1> DEFINE t == Append(s, p)
           n == Len(s) + 1
<1>1. t \in Seq(V) /\ t[n] = p /\ DOMAIN t = DOMAIN s \cup {n}
  OBVIOUS
<1>2. \A i \in DOMAIN s : t[i] = s[i]
  OBVIOUS
<1> HIDE DEF t, n
<1>3. OncePerBlock(t)
  BY <1>1, <1>2 DEF OncePerBlock
<1>4. Elements(t) = Elements(s) \cup {p}
  BY <1>1, <1>2 DEF Elements
<1>5. \A x, a : Sends(Elements(t), x, a) <=>
                  Sends(Elements(s), x, a) \/ (a = p.address /\ Answered(x, p))
  BY <1>4 DEF Sends
<1> QED BY <1>1, <1>3, <1>5 DEF t

\* A packet merges with the one of its block that is queued already.
LEMMA QueueMerged ==
  ASSUME NEW V \in SUBSET Packet, NEW s \in Seq(V), OncePerBlock(s), NEW p \in V,
         NEW k \in DOMAIN s, s[k].address = p.address,
         NEW g \in V, g.address = p.address, NEW X,
         \A x \in X : Answered(x, g) <=> Answered(x, s[k]) \/ Answered(x, p)
  PROVE  LET t == [s EXCEPT ![k] = g] IN
         /\ t \in Seq(V) /\ OncePerBlock(t)
         /\ \A x \in X : \A a :
              Sends(Elements(t), x, a) <=>
                Sends(Elements(s), x, a) \/ (a = p.address /\ Answered(x, p))
<1> DEFINE t == [s EXCEPT ![k] = g]
<1>1. t \in Seq(V) /\ DOMAIN t = DOMAIN s /\ t[k] = g
  OBVIOUS
<1>2. \A i \in DOMAIN s : i # k => t[i] = s[i]
  OBVIOUS
<1>3. \A i \in DOMAIN s : s[i].address = p.address <=> i = k
  BY DEF OncePerBlock
<1> HIDE DEF t
<1>4. \A i \in DOMAIN s : t[i].address = s[i].address
  BY <1>1, <1>2
<1>5. OncePerBlock(t)
  BY <1>1, <1>4 DEF OncePerBlock
<1>6. ASSUME NEW x \in X, NEW a
      PROVE  Sends(Elements(t), x, a) <=>
               Sends(Elements(s), x, a) \/ (a = p.address /\ Answered(x, p))
  <2>1. Sends(Elements(t), x, a) <=>
          \E i \in DOMAIN s : t[i].address = a /\ Answered(x, t[i])
    BY <1>1 DEF Sends, Elements
  <2>2. Sends(Elements(s), x, a) <=>
          \E i \in DOMAIN s : s[i].address = a /\ Answered(x, s[i])
    BY DEF Sends, Elements
  <2>3. CASE a = p.address
    <3>1. Sends(Elements(t), x, a) <=> Answered(x, g)
      BY <1>1, <1>3, <1>4, <2>1, <2>3
    <3>2. Sends(Elements(s), x, a) <=> Answered(x, s[k])
      BY <1>3, <2>2, <2>3
    <3> QED BY <2>3, <3>1, <3>2
  <2>4. CASE a # p.address
    BY <1>2, <1>3, <1>4, <2>1, <2>2, <2>4
  <2> QED BY <2>3, <2>4
<1> QED BY <1>1, <1>5, <1>6 DEF t

\* A packet leaves the head of a queue.
LEMMA QueueShrinks ==
  ASSUME NEW V \in SUBSET Packet, NEW s \in Seq(V), OncePerBlock(s), s # <<>>
  PROVE  /\ Head(s) \in V /\ Tail(s) \in Seq(V) /\ OncePerBlock(Tail(s))
         /\ \A x, a : Sends(Elements(Tail(s)), x, a) <=>
                        Sends(Elements(s), x, a) /\ a # Head(s).address
         /\ \A x : Sends(Elements(s), x, Head(s).address) <=> Answered(x, Head(s))
<1> DEFINE t == Tail(s)
<1>1. /\ Len(s) \in Nat \ {0} /\ DOMAIN s = 1 .. Len(s) /\ Head(s) = s[1]
      /\ t \in Seq(V) /\ DOMAIN t = 1 .. Len(s) - 1
      /\ \A i \in DOMAIN t : t[i] = s[i + 1]
      /\ \A i \in DOMAIN s : s[i] \in V
  OBVIOUS
<1> HIDE DEF t
<1>2. 1 \in DOMAIN s /\ \A i \in DOMAIN t : i + 1 \in DOMAIN s /\ i + 1 # 1
  BY <1>1
<1>3. \A j \in DOMAIN s : j = 1 \/ \E i \in DOMAIN t : j = i + 1
  <2> SUFFICES ASSUME NEW j \in DOMAIN s, j # 1
               PROVE  j - 1 \in DOMAIN t /\ j = (j - 1) + 1
    OBVIOUS
  <2> QED BY <1>1
<1>4. OncePerBlock(t)
  <2> SUFFICES ASSUME NEW i \in DOMAIN t, NEW j \in DOMAIN t, t[i].address = t[j].address
               PROVE  i = j
    BY DEF OncePerBlock
  <2>1. i + 1 = j + 1
    BY <1>1, <1>2 DEF OncePerBlock
  <2> QED BY <1>1, <2>1
<1>5. Elements(s) = {s[1]} \cup Elements(t)
  BY <1>1, <1>2, <1>3 DEF Elements
<1>6. \A q \in Elements(t) : q.address # s[1].address
  BY <1>1, <1>2 DEF Elements, OncePerBlock
<1>7. \A x, a : Sends(Elements(t), x, a) <=>
                  Sends(Elements(s), x, a) /\ a # s[1].address
  BY <1>5, <1>6 DEF Sends
<1>8. \A x : Sends(Elements(s), x, s[1].address) <=> Answered(x, s[1])
  BY <1>5, <1>6 DEF Sends
<1> QED BY <1>1, <1>2, <1>4, <1>7, <1>8 DEF t

\* A miss gets an MSHR,
LEMMA SetAdded ==
  ASSUME NEW S \in SUBSET Packet, SingleMisses(S), NEW p \in Packet,
         \A e \in S : e.address # p.address
  PROVE  LET T == S \cup {[p EXCEPT !.returned = FALSE]} IN
         /\ SingleMisses(T)
         /\ \A a : Waits(T, a) <=> Waits(S, a) \/ a = p.address
         /\ \A x, a : Sends(T, x, a) <=>
                        Sends(S, x, a) \/ (a = p.address /\ Answered(x, p))
<1> DEFINE q == [p EXCEPT !.returned = FALSE]
<1>1. /\ q.address = p.address /\ q.returned = FALSE
      /\ \A x : Answered(x, q) <=> Answered(x, p)
  BY AnsweredToSame
<1> HIDE DEF q
<1>2. SingleMisses(S \cup {q})
  BY <1>1 DEF SingleMisses
<1>3. \A a : Waits(S \cup {q}, a) <=> Waits(S, a) \/ a = p.address
  BY <1>1 DEF Waits
<1>4. \A x, a : Sends(S \cup {q}, x, a) <=>
                  Sends(S, x, a) \/ (a = p.address /\ Answered(x, p))
  BY <1>1 DEF Sends
<1> QED BY <1>2, <1>3, <1>4 DEF q

\* is replaced by what it becomes when it is answered or joined,
LEMMA SetMapped ==
  ASSUME NEW S, SingleMisses(S), NEW g, \A e \in S : g[e].address = e.address
  PROVE  LET T == {g[e] : e \in S} IN
         /\ SingleMisses(T)
         /\ \A a : Waits(T, a) <=> \E e \in S : e.address = a /\ ~g[e].returned
         /\ \A x, a : Sends(T, x, a) <=> \E e \in S : e.address = a /\ Answered(x, g[e])
<1> DEFINE T == {g[e] : e \in S}
<1>1. SingleMisses(T)
  BY DEF SingleMisses
<1>2. \A a : Waits(T, a) <=> \E e \in S : e.address = a /\ ~g[e].returned
  BY DEF Waits
<1>3. \A x, a : Sends(T, x, a) <=> \E e \in S : e.address = a /\ Answered(x, g[e])
  BY DEF Sends
<1> QED BY <1>1, <1>2, <1>3

\* and is over.
LEMMA SetRemoved ==
  ASSUME NEW S \in SUBSET Packet, SingleMisses(S), NEW e \in S
  PROVE  /\ SingleMisses(S \ {e})
         /\ \A a : e.returned => (Waits(S \ {e}, a) <=> Waits(S, a))
         /\ \A x, a : Sends(S \ {e}, x, a) <=> Sends(S, x, a) /\ a # e.address
         /\ \A x : Sends(S, x, e.address) <=> Answered(x, e)
BY DEF SingleMisses, Waits, Sends

\* The same for the MSHR files of all requesters.
LEMMA ReturnedMisses ==
  ASSUME NEW m, GoodMisses(m), NEW S, NEW b
  PROVE  LET n == return_data(m, S, b) IN
         /\ GoodMisses(n)
         /\ \A z \in Requesters : \A a : Waits(n[z], a) <=> Waits(m[z], a) /\ ~(z \in S /\ a = b)
         /\ \A z \in Requesters : \A x, a : Sends(n[z], x, a) <=> Sends(m[z], x, a)
<1> DEFINE n == return_data(m, S, b)
<1>1. ASSUME NEW z \in Requesters
      PROVE  /\ n[z] \in SUBSET Packet /\ SingleMisses(n[z])
             /\ z \in Shared => n[z] \subseteq WellFormed
             /\ \A a : Waits(n[z], a) <=> Waits(m[z], a) /\ ~(z \in S /\ a = b)
             /\ \A x, a : Sends(n[z], x, a) <=> Sends(m[z], x, a)
  <2>0. m[z] \in SUBSET Packet /\ SingleMisses(m[z]) /\ (z \in Shared => m[z] \subseteq WellFormed)
    BY DEF GoodMisses
  <2>1. CASE z \notin S
    <3>1. n[z] = m[z]
      BY <2>1 DEF return_data
    <3> HIDE DEF n
    <3> QED BY <2>0, <2>1, <3>1
  <2>2. CASE z \in S
    <3> DEFINE g == [e \in m[z] |-> IF e.address = b THEN [e EXCEPT !.returned = TRUE] ELSE e]
               T == {g[e] : e \in m[z]}
    <3>1. n[z] = T
      BY <2>2 DEF return_data
    <3>2. \A e \in m[z] : /\ g[e] \in Packet /\ (e \in WellFormed => g[e] \in WellFormed)
                          /\ g[e].address = e.address
                          /\ g[e].returned <=> e.returned \/ e.address = b
                          /\ \A x : Answered(x, g[e]) <=> Answered(x, e)
      BY <2>0, AnsweredToSame
    <3> HIDE DEF n, g
    <3>3. \A e \in m[z] : g[e].address = e.address
      BY <3>2
    <3>4. /\ SingleMisses(T)
          /\ \A a : Waits(T, a) <=> \E e \in m[z] : e.address = a /\ ~g[e].returned
          /\ \A x, a : Sends(T, x, a) <=> \E e \in m[z] : e.address = a /\ Answered(x, g[e])
      BY <2>0, <3>3, SetMapped, Zenon
    <3>5. \A a : Waits(T, a) <=> Waits(m[z], a) /\ a # b
      BY <3>2, <3>4 DEF Waits
    <3>6. \A x, a : Sends(T, x, a) <=> Sends(m[z], x, a)
      BY <3>2, <3>4 DEF Sends
    <3>7. T \in SUBSET Packet /\ (z \in Shared => T \subseteq WellFormed)
      BY <2>0, <3>2
    <3> HIDE DEF T
    <3> QED BY <2>2, <3>1, <3>4, <3>5, <3>6, <3>7
  <2> QED BY <2>1, <2>2
<1>2. n = [z \in Requesters |-> n[z]]
  BY DEF return_data
<1> HIDE DEF n
<1>3. n \in [Requesters -> SUBSET Packet]
  BY <1>1, <1>2
<1>4. Shared \subseteq Requesters
  BY Names
<1>5. GoodMisses(n)
  BY <1>1, <1>3, <1>4 DEF GoodMisses
<1> QED BY <1>1, <1>5 DEF n

\* One MSHR file of m becomes T.
LEMMA OneFileChanged ==
  ASSUME NEW m, GoodMisses(m), NEW c \in Requesters, NEW T \in SUBSET Packet,
         SingleMisses(T), c \in Shared => T \subseteq WellFormed
  PROVE  /\ GoodMisses([m EXCEPT ![c] = T])
         /\ [m EXCEPT ![c] = T][c] = T
         /\ \A z \in Requesters : z # c => [m EXCEPT ![c] = T][z] = m[z]
BY DEF GoodMisses

LEMMA AddedMiss ==
  ASSUME NEW m, GoodMisses(m), NEW c \in Requesters, NEW p \in Packet,
         c \in Shared => p \in WellFormed, Waiting(m, c, p.address) = {}
  PROVE  LET n == add_mshr(m, c, p) IN
         /\ GoodMisses(n)
         /\ \A z \in Requesters : \A a :
              Waits(n[z], a) <=> Waits(m[z], a) \/ (z = c /\ a = p.address)
         /\ \A z \in Requesters : \A x, a :
              Sends(n[z], x, a) <=>
                Sends(m[z], x, a) \/ (z = c /\ a = p.address /\ Answered(x, p))
<1> DEFINE T == m[c] \cup {[p EXCEPT !.returned = FALSE]}
           n == [m EXCEPT ![c] = T]
<1>1. /\ m[c] \in SUBSET Packet /\ SingleMisses(m[c])
      /\ c \in Shared => m[c] \subseteq WellFormed
      /\ \A e \in m[c] : e.address # p.address
  BY DEF GoodMisses, Waiting
<1>2. /\ SingleMisses(T)
      /\ \A a : Waits(T, a) <=> Waits(m[c], a) \/ a = p.address
      /\ \A x, a : Sends(T, x, a) <=>
                     Sends(m[c], x, a) \/ (a = p.address /\ Answered(x, p))
  BY <1>1, SetAdded
<1>3. T \in SUBSET Packet /\ (c \in Shared => T \subseteq WellFormed)
  BY <1>1, AnsweredToSame
<1>4. n = add_mshr(m, c, p)
  BY DEF add_mshr
<1> HIDE DEF T
<1>5. /\ GoodMisses(n) /\ n[c] = T
      /\ \A z \in Requesters : z # c => n[z] = m[z]
  BY <1>2, <1>3, OneFileChanged
<1> HIDE DEF n
<1> QED BY <1>2, <1>4, <1>5

LEMMA MergedMiss ==
  ASSUME NEW m, GoodMisses(m), NEW c \in Requesters, NEW p, NEW merge,
         \A e \in m[c] : e.address = p.address =>
           /\ merge[e] \in Packet /\ (c \in Shared => merge[e] \in WellFormed)
           /\ merge[e].address = p.address /\ merge[e].returned = e.returned
  PROVE  LET n == Merged(m, c, p, merge) IN
         /\ GoodMisses(n)
         /\ \A z \in Requesters : \A a : Waits(n[z], a) <=> Waits(m[z], a)
         /\ \A z \in Requesters : z # c => n[z] = m[z]
         /\ \A x : ( /\ Waiting(m, c, p.address) # {}
                    /\ \A e \in m[c] : e.address = p.address =>
                         (Answered(x, merge[e]) <=> Answered(x, e) \/ Answered(x, p)) )
              => \A a : Sends(n[c], x, a) <=>
                         Sends(m[c], x, a) \/ (a = p.address /\ Answered(x, p))
<1> DEFINE g == [e \in m[c] |-> IF e.address = p.address THEN merge[e] ELSE e]
           T == {g[e] : e \in m[c]}
           n == [m EXCEPT ![c] = T]
           Joins(x) == \A e \in m[c] : e.address = p.address =>
                         (Answered(x, merge[e]) <=> Answered(x, e) \/ Answered(x, p))
<1>1. /\ m[c] \in SUBSET Packet /\ SingleMisses(m[c])
      /\ c \in Shared => m[c] \subseteq WellFormed
  BY DEF GoodMisses
<1>2. n = Merged(m, c, p, merge)
  BY DEF Merged
<1>3. \A e \in m[c] : /\ g[e] \in Packet /\ (c \in Shared => g[e] \in WellFormed)
                      /\ g[e].address = e.address /\ g[e].returned = e.returned
                      /\ e.address # p.address => g[e] = e
                      /\ e.address = p.address => g[e] = merge[e]
  BY <1>1
<1> HIDE DEF g
<1>4. /\ SingleMisses(T)
      /\ \A a : Waits(T, a) <=> \E e \in m[c] : e.address = a /\ ~g[e].returned
      /\ \A x, a : Sends(T, x, a) <=> \E e \in m[c] : e.address = a /\ Answered(x, g[e])
  <2>1. \A e \in m[c] : g[e].address = e.address
    BY <1>3
  <2> QED BY <1>1, <2>1, SetMapped, Zenon
<1>5. T \in SUBSET Packet /\ (c \in Shared => T \subseteq WellFormed)
  BY <1>3
<1> HIDE DEF T
<1>6. \A a : Waits(T, a) <=> Waits(m[c], a)
  BY <1>3, <1>4 DEF Waits
<1>7. ASSUME NEW x, Waiting(m, c, p.address) # {}, Joins(x), NEW a
      PROVE  Sends(T, x, a) <=> Sends(m[c], x, a) \/ (a = p.address /\ Answered(x, p))
  <2>1. PICK d \in m[c] : d.address = p.address
    BY <1>7 DEF Waiting
  <2>2. \A e \in m[c] :
          Answered(x, g[e]) <=> Answered(x, e) \/ (e.address = p.address /\ Answered(x, p))
    BY <1>3, <1>7
  <2> QED BY <1>4, <2>1, <2>2 DEF Sends
<1>8. /\ GoodMisses(n) /\ n[c] = T
      /\ \A z \in Requesters : z # c => n[z] = m[z]
  BY <1>1, <1>4, <1>5, OneFileChanged
<1> HIDE DEF n
<1>9. \A z \in Requesters : \A a : Waits(n[z], a) <=> Waits(m[z], a)
  BY <1>6, <1>8
<1> QED BY <1>2, <1>7, <1>8, <1>9

LEMMA RemovedMiss ==
  ASSUME NEW m, GoodMisses(m), NEW c \in Requesters, NEW e \in m[c], e.returned
  PROVE  LET n == [m EXCEPT ![c] = @ \ {e}] IN
         /\ GoodMisses(n)
         /\ \A z \in Requesters : \A a : Waits(n[z], a) <=> Waits(m[z], a)
         /\ \A z \in Requesters : \A x, a :
              Sends(n[z], x, a) <=> Sends(m[z], x, a) /\ ~(z = c /\ a = e.address)
         /\ \A x : Sends(m[c], x, e.address) <=> Answered(x, e)
<1> DEFINE T == m[c] \ {e}
           n == [m EXCEPT ![c] = T]
<1>1. /\ m[c] \in SUBSET Packet /\ SingleMisses(m[c])
      /\ c \in Shared => m[c] \subseteq WellFormed
  BY DEF GoodMisses
<1>2. /\ SingleMisses(T)
      /\ \A a : Waits(T, a) <=> Waits(m[c], a)
      /\ \A x, a : Sends(T, x, a) <=> Sends(m[c], x, a) /\ a # e.address
      /\ \A x : Sends(m[c], x, e.address) <=> Answered(x, e)
  BY <1>1, SetRemoved
<1>3. T \in SUBSET Packet /\ (c \in Shared => T \subseteq WellFormed)
  BY <1>1
<1> HIDE DEF T
<1>5. /\ GoodMisses(n) /\ n[c] = T
      /\ \A z \in Requesters : z # c => n[z] = m[z]
  BY <1>2, <1>3, OneFileChanged
<1>6. n = [m EXCEPT ![c] = @ \ {e}]
  BY DEF T
<1> HIDE DEF n
<1> QED BY <1>2, <1>5, <1>6

\* The answer of a shared cache to packet p ends the waiting of exactly those
\* that p is answered to.
LEMMA AnswerReturns ==
  ASSUME NEW m, GoodMisses(m), NEW c \in Shared, NEW p \in WellFormed
  PROVE  LET n == Answer(m, c, p) IN
         /\ GoodMisses(n)
         /\ \A z \in Requesters : \A a : Waits(n[z], a) <=>
              Waits(m[z], a) /\ ~(z \in Above(c) /\ a = p.address /\ Answered(z, p))
         /\ \A z \in Requesters : \A x, a : Sends(n[z], x, a) <=> Sends(m[z], x, a)
<1> DEFINE S == IF c = "L2C" THEN Receivers(p) ELSE {"L2C"}
<1>0. p.fill_level \in {1, 2, 4}
  BY DEF WellFormed, Packet, FILL_L1, FILL_L2, FILL_LLC
<1>1. CASE p.fill_level >= fill_level(c)
  <2>1. Answer(m, c, p) = m
    BY <1>1 DEF Answer
  <2>2. \A z \in Above(c) : ~Answered(z, p)
    <3>1. CASE c = "L2C"
      <4>1. ~(p.fill_level < FILL_L2)
        BY <1>0, <1>1, <3>1 DEF fill_level, FILL_L2
      <4> QED BY <3>1, <4>1, SendersBelow DEF Answered
    <3>2. CASE c = "LLC"
      <4>1. ~(p.fill_level < FILL_LLC)
        BY <1>0, <1>1, <3>2 DEF fill_level, FILL_LLC
      <4> QED BY <3>2, <4>1, SendersBelow DEF Answered
    <3> QED BY <3>1, <3>2 DEF Shared
  <2> QED BY <2>1, <2>2
<1>2. CASE ~(p.fill_level >= fill_level(c))
  <2>1. Answer(m, c, p) = return_data(m, S, p.address)
    BY <1>2 DEF Answer
  <2>2. \A z \in Requesters : z \in S <=> z \in Above(c) /\ Answered(z, p)
    <3>1. CASE c = "L2C"
      <4>1. p.fill_level < FILL_L2
        BY <1>0, <1>2, <3>1 DEF fill_level, FILL_L2
      <4>2. Receivers(p) \subseteq {"L1I", "L1D", "PTW"}
        BY DEF Receivers, Flagged, L1s
      <4> QED BY <3>1, <4>1, <4>2, SendersBelow DEF Answered
    <3>2. CASE c = "LLC"
      <4>1. p.fill_level < FILL_LLC
        BY <1>0, <1>2, <3>2 DEF fill_level, FILL_LLC
      <4> QED BY <3>2, <4>1, SendersBelow DEF Answered
    <3> QED BY <3>1, <3>2 DEF Shared
  <2> HIDE DEF S
  <2>3. LET n == return_data(m, S, p.address) IN
        /\ GoodMisses(n)
        /\ \A z \in Requesters : \A a : Waits(n[z], a) <=> Waits(m[z], a) /\ ~(z \in S /\ a = p.address)
        /\ \A z \in Requesters : \A x, a : Sends(n[z], x, a) <=> Sends(m[z], x, a)
    BY ReturnedMisses
  <2> QED BY <2>1, <2>2, <2>3
<1> QED BY <1>1, <1>2

\* The same when the answer goes by the flags of p, unless p is for both L1s or
\* the walker.
LEMMA FlaggedReturns ==
  ASSUME NEW c \in Shared, NEW p \in WellFormed, NEW m,
         c = "L2C" /\ p.fill_level = FILL_L1 =>
           p.type # "LOAD_TRANSLATION" /\ ~p.send_both_cache
  PROVE  AnswerFlagged(m, c, p) = Answer(m, c, p)
<1>0. p.fill_level \in {1, 2, 4}
  BY DEF WellFormed, Packet, FILL_L1, FILL_L2, FILL_LLC
<1>1. c = "L2C" /\ ~(p.fill_level >= fill_level(c)) => p.fill_level = FILL_L1
  BY <1>0 DEF fill_level, FILL_L1, FILL_L2
<1>2. c = "L2C" /\ p.fill_level = FILL_L1 => Flagged(p) # {}
  BY DEF WellFormed, Flagged, L1s
<1>3. c = "L2C" /\ p.fill_level = FILL_L1 => Receivers(p) = Flagged(p)
  BY <1>2 DEF Receivers
<1> QED BY <1>1, <1>3, Zenon DEF Answer, AnswerFlagged

-----------------------------------------------------------------------------
(* Queues give and take packets *)

LEMMA TakenFromQueue ==
  ASSUME NEW V \in SUBSET Packet, NEW q, GoodQueues(q, V), NEW c \in Shared, q[c] # <<>>
  PROVE  LET n == [q EXCEPT ![c] = Tail(@)]
             p == Head(q[c])
         IN  /\ p \in V /\ GoodQueues(n, V)
             /\ \A k \in Shared : \A x, a :
                  Sends(Elements(n[k]), x, a) <=>
                    Sends(Elements(q[k]), x, a) /\ ~(k = c /\ a = p.address)
             /\ \A x : Sends(Elements(q[c]), x, p.address) <=> Answered(x, p)
<1> DEFINE n == [q EXCEPT ![c] = Tail(@)]
           p == Head(q[c])
<1>1. q[c] \in Seq(V) /\ OncePerBlock(q[c])
  BY DEF GoodQueues
<1>2. /\ p \in V /\ Tail(q[c]) \in Seq(V) /\ OncePerBlock(Tail(q[c]))
      /\ \A x, a : Sends(Elements(Tail(q[c])), x, a) <=>
                     Sends(Elements(q[c]), x, a) /\ a # p.address
      /\ \A x : Sends(Elements(q[c]), x, p.address) <=> Answered(x, p)
  BY <1>1, QueueShrinks
<1>3. n[c] = Tail(q[c]) /\ \A k \in Shared : k # c => n[k] = q[k]
  BY DEF GoodQueues
<1>4. GoodQueues(n, V)
  BY <1>2 DEF GoodQueues
<1> HIDE DEF n, p
<1>5. \A k \in Shared : \A x, a :
        Sends(Elements(n[k]), x, a) <=>
          Sends(Elements(q[k]), x, a) /\ ~(k = c /\ a = p.address)
  BY <1>2, <1>3
<1> QED BY <1>2, <1>4, <1>5 DEF n, p

\* One queue of q becomes t.
LEMMA OneQueueChanged ==
  ASSUME NEW V, NEW q, GoodQueues(q, V), NEW c \in Shared, NEW t \in Seq(V),
         OncePerBlock(t)
  PROVE  /\ GoodQueues([q EXCEPT ![c] = t], V)
         /\ [q EXCEPT ![c] = t][c] = t
         /\ \A k \in Shared : k # c => [q EXCEPT ![c] = t][k] = q[k]
BY DEF GoodQueues

\* add_rq, when no queued read is for one that p is for.
LEMMA ReadJoins ==
  ASSUME NEW q, GoodQueues(q, ReadPackets), NEW c \in Shared, NEW p \in ReadPackets,
         c = "L2C" => ~p.send_both_cache,
         p.address \notin Elements(wq[c]),
         Queued(q[c], p.address) = {} => Len(q[c]) # RQ_SIZE(c),
         \A x \in Above(c) : Answered(x, p) => ~Sends(Elements(q[c]), x, p.address)
  PROVE  LET n == QueueRead(q, c, p) IN
         /\ GoodQueues(n, ReadPackets)
         /\ \A k \in Shared : k # c => n[k] = q[k]
         /\ \A x \in Above(c) : \A a :
              Sends(Elements(n[c]), x, a) <=>
                Sends(Elements(q[c]), x, a) \/ (a = p.address /\ Answered(x, p))
<1> DEFINE s == q[c]
           n == QueueRead(q, c, p)
<1>1. /\ s \in Seq(ReadPackets) /\ OncePerBlock(s)
      /\ \A i \in DOMAIN s : s[i] \in ReadPackets
  BY DEF GoodQueues
<1>2. ReadPackets \in SUBSET Packet /\ ReadPackets \subseteq WellFormed
  BY WellFormedPackets
<1>3. CASE Queued(s, p.address) # {}
  <2>1. PICK h \in DOMAIN s : s[h].address = p.address
    BY <1>3 DEF Queued
  <2> DEFINE g == MergeRead(s[h], p)
             t == [s EXCEPT ![h] = g]
  <2>2. Apart(c, s[h], p)
    BY <2>1 DEF Apart, Sends, Elements
  <2>3. c = "L2C"
    <3>1. CASE c = "LLC"
      <4>1. p.fill_level = FILL_L1 /\ s[h].fill_level = FILL_L1 /\ FILL_L1 # FILL_LLC
        BY <1>1 DEF ReadPackets, FILL_L1, FILL_LLC
      <4>2. Answered("L2C", s[h]) /\ Answered("L2C", p)
        BY <1>1, <1>2, <4>1, AnsweredTo
      <4> QED BY <2>2, <3>1, <4>2, SendersBelow DEF Apart
    <3> QED BY <3>1 DEF Shared
  <2>4. g \in ReadPackets /\ g.address = p.address /\ ForBoth(c, g, s[h], p)
    <3>1. s[h] \in ReadPackets
      BY <1>1
    <3> HIDE DEF s
    <3> QED BY <2>1, <2>2, <2>3, <3>1, MergeReadAnswers
  <2>5. \A x \in Above(c) : Answered(x, g) <=> Answered(x, s[h]) \/ Answered(x, p)
    BY <2>4 DEF ForBoth
  <2>6. n = [q EXCEPT ![c] = t]
    <3>1. n = [q EXCEPT ![c] = [i \in DOMAIN s |->
                 IF s[i].address = p.address THEN MergeRead(s[i], p) ELSE s[i]]]
      BY <1>3 DEF QueueRead
    <3>2. \A i \in DOMAIN s : s[i].address = p.address <=> i = h
      BY <1>1, <2>1 DEF OncePerBlock
    <3>3. t = [i \in DOMAIN s |->
                 IF s[i].address = p.address THEN MergeRead(s[i], p) ELSE s[i]]
      BY <1>1, <3>2
    <3> QED BY <3>1, <3>3
  <2> HIDE DEF g
  <2>7. /\ t \in Seq(ReadPackets) /\ OncePerBlock(t)
        /\ \A x \in Above(c) : \A a : Sends(Elements(t), x, a) <=>
             Sends(Elements(s), x, a) \/ (a = p.address /\ Answered(x, p))
    <3>1. s \in Seq(ReadPackets) /\ OncePerBlock(s) /\ ReadPackets \in SUBSET Packet
      BY <1>1, <1>2
    <3>2. h \in DOMAIN s /\ s[h].address = p.address /\ g \in ReadPackets /\ g.address = p.address
      BY <2>1, <2>4
    <3> HIDE DEF s
    <3> QED BY <2>5, <3>1, <3>2, QueueMerged
  <2> HIDE DEF t, n
  <2>8. /\ GoodQueues([q EXCEPT ![c] = t], ReadPackets) /\ [q EXCEPT ![c] = t][c] = t
        /\ \A k \in Shared : k # c => [q EXCEPT ![c] = t][k] = q[k]
    BY <2>7, OneQueueChanged
  <2>9. GoodQueues(n, ReadPackets) /\ n[c] = t /\ \A k \in Shared : k # c => n[k] = q[k]
    BY <2>6, <2>8
  <2> QED BY <2>7, <2>9 DEF n
<1>4. CASE Queued(s, p.address) = {}
  <2> DEFINE t == Append(s, p)
  <2>1. n = [q EXCEPT ![c] = t]
    BY <1>4 DEF QueueRead
  <2>2. \A i \in DOMAIN s : s[i].address # p.address
    BY <1>4 DEF Queued
  <2>3. /\ t \in Seq(ReadPackets) /\ OncePerBlock(t)
        /\ \A x, a : Sends(Elements(t), x, a) <=>
             Sends(Elements(s), x, a) \/ (a = p.address /\ Answered(x, p))
    BY <1>1, <1>2, <2>2, QueueAppended
  <2> HIDE DEF t, n
  <2>4. /\ GoodQueues([q EXCEPT ![c] = t], ReadPackets) /\ [q EXCEPT ![c] = t][c] = t
        /\ \A k \in Shared : k # c => [q EXCEPT ![c] = t][k] = q[k]
    BY <2>3, OneQueueChanged
  <2>5. GoodQueues(n, ReadPackets) /\ n[c] = t /\ \A k \in Shared : k # c => n[k] = q[k]
    BY <2>1, <2>4
  <2> QED BY <2>3, <2>5 DEF n
<1> QED BY <1>3, <1>4

\* add_pq, the same.
LEMMA PrefetchJoins ==
  ASSUME NEW q, GoodQueues(q, PrefetchPackets), NEW c \in Shared, NEW p \in PrefetchPackets,
         p.address \notin Elements(wq[c]),
         Queued(q[c], p.address) = {} => Len(q[c]) # PQ_SIZE(c),
         \A x \in Above(c) : Answered(x, p) => ~Sends(Elements(q[c]), x, p.address)
  PROVE  LET n == QueuePrefetch(q, c, p) IN
         /\ GoodQueues(n, PrefetchPackets)
         /\ \A k \in Shared : k # c => n[k] = q[k]
         /\ \A x \in Above(c) : \A a :
              Sends(Elements(n[c]), x, a) <=>
                Sends(Elements(q[c]), x, a) \/ (a = p.address /\ Answered(x, p))
<1> DEFINE s == q[c]
           n == QueuePrefetch(q, c, p)
<1>1. /\ s \in Seq(PrefetchPackets) /\ OncePerBlock(s)
      /\ \A i \in DOMAIN s : s[i] \in PrefetchPackets
  BY DEF GoodQueues
<1>2. PrefetchPackets \in SUBSET Packet
  BY WellFormedPackets
<1>3. CASE Queued(s, p.address) # {}
  <2>1. PICK h \in DOMAIN s : s[h].address = p.address
    BY <1>3 DEF Queued
  <2> DEFINE g == MergePrefetch(s[h], p)
             t == [s EXCEPT ![h] = g]
  <2>2. Apart(c, s[h], p)
    BY <2>1 DEF Apart, Sends, Elements
  <2>3. g \in PrefetchPackets /\ g.address = p.address /\ ForBoth(c, g, s[h], p)
    <3>1. s[h] \in PrefetchPackets
      BY <1>1
    <3> HIDE DEF s
    <3> QED BY <2>1, <2>2, <3>1, MergePrefetchAnswers
  <2>4. \A x \in Above(c) : Answered(x, g) <=> Answered(x, s[h]) \/ Answered(x, p)
    BY <2>3 DEF ForBoth
  <2>5. n = [q EXCEPT ![c] = t]
    <3>1. n = [q EXCEPT ![c] = [i \in DOMAIN s |->
                 IF s[i].address = p.address THEN MergePrefetch(s[i], p) ELSE s[i]]]
      BY <1>3 DEF QueuePrefetch
    <3>2. \A i \in DOMAIN s : s[i].address = p.address <=> i = h
      BY <1>1, <2>1 DEF OncePerBlock
    <3>3. t = [i \in DOMAIN s |->
                 IF s[i].address = p.address THEN MergePrefetch(s[i], p) ELSE s[i]]
      BY <1>1, <3>2
    <3> QED BY <3>1, <3>3
  <2> HIDE DEF g
  <2>6. /\ t \in Seq(PrefetchPackets) /\ OncePerBlock(t)
        /\ \A x \in Above(c) : \A a : Sends(Elements(t), x, a) <=>
             Sends(Elements(s), x, a) \/ (a = p.address /\ Answered(x, p))
    <3>1. s \in Seq(PrefetchPackets) /\ OncePerBlock(s) /\ PrefetchPackets \in SUBSET Packet
      BY <1>1, <1>2
    <3>2. h \in DOMAIN s /\ s[h].address = p.address /\ g \in PrefetchPackets /\ g.address = p.address
      BY <2>1, <2>3
    <3> HIDE DEF s
    <3> QED BY <2>4, <3>1, <3>2, QueueMerged
  <2> HIDE DEF t, n
  <2>7. /\ GoodQueues([q EXCEPT ![c] = t], PrefetchPackets) /\ [q EXCEPT ![c] = t][c] = t
        /\ \A k \in Shared : k # c => [q EXCEPT ![c] = t][k] = q[k]
    BY <2>6, OneQueueChanged
  <2>8. GoodQueues(n, PrefetchPackets) /\ n[c] = t /\ \A k \in Shared : k # c => n[k] = q[k]
    BY <2>5, <2>7
  <2> QED BY <2>6, <2>8 DEF n
<1>4. CASE Queued(s, p.address) = {}
  <2> DEFINE t == Append(s, p)
  <2>1. n = [q EXCEPT ![c] = t]
    BY <1>4 DEF QueuePrefetch
  <2>2. \A i \in DOMAIN s : s[i].address # p.address
    BY <1>4 DEF Queued
  <2>3. /\ t \in Seq(PrefetchPackets) /\ OncePerBlock(t)
        /\ \A x, a : Sends(Elements(t), x, a) <=>
             Sends(Elements(s), x, a) \/ (a = p.address /\ Answered(x, p))
    BY <1>1, <1>2, <2>2, QueueAppended
  <2> HIDE DEF t, n
  <2>4. /\ GoodQueues([q EXCEPT ![c] = t], PrefetchPackets) /\ [q EXCEPT ![c] = t][c] = t
        /\ \A k \in Shared : k # c => [q EXCEPT ![c] = t][k] = q[k]
    BY <2>3, OneQueueChanged
  <2>5. GoodQueues(n, PrefetchPackets) /\ n[c] = t /\ \A k \in Shared : k # c => n[k] = q[k]
    BY <2>1, <2>4
  <2> QED BY <2>3, <2>5 DEF n
<1> QED BY <1>3, <1>4


-----------------------------------------------------------------------------
(* A packet is taken from where it is and handed on: what it owes to those  *)
(* it is for stays, until it is put somewhere, or they get their answer.    *)

\* p leaves a read queue,
LEMMA OwedFromRead ==
  ASSUME NEW m, NEW r, NEW q, NEW c \in Shared, NEW p, NEW n,
         CarriedOnce(m, r, q),
         \A k \in Shared : \A x, a :
           Sends(Elements(n[k]), x, a) <=>
             Sends(Elements(r[k]), x, a) /\ ~(k = c /\ a = p.address),
         \A x : Sends(Elements(r[c]), x, p.address) <=> Answered(x, p)
  PROVE  Owed(m, n, q, c, p)
<1> SUFFICES ASSUME NEW k \in Shared, NEW x \in Above(k), NEW a \in Addresses
             PROVE  IF k = c /\ a = p.address /\ Answered(x, p)
                    THEN /\ Waits(m[x], a)
                         /\ ~Sends(Elements(n[k]), x, a) /\ ~Sends(Elements(q[k]), x, a)
                         /\ ~Sends(m[k], x, a)
                    ELSE CarriedAt(m, n, q, k, x, a)
  BY DEF Owed
<1>1. CarriedAt(m, r, q, k, x, a)
  BY DEF CarriedOnce
<1>2. Sends(Elements(n[k]), x, a) <=>
        Sends(Elements(r[k]), x, a) /\ ~(k = c /\ a = p.address)
  OBVIOUS
<1>3. Sends(Elements(r[c]), x, p.address) <=> Answered(x, p)
  OBVIOUS
<1> QED BY <1>1, <1>2, <1>3 DEF CarriedAt

\* a prefetch queue,
LEMMA OwedFromPrefetch ==
  ASSUME NEW m, NEW r, NEW q, NEW c \in Shared, NEW p, NEW n,
         CarriedOnce(m, r, q),
         \A k \in Shared : \A x, a :
           Sends(Elements(n[k]), x, a) <=>
             Sends(Elements(q[k]), x, a) /\ ~(k = c /\ a = p.address),
         \A x : Sends(Elements(q[c]), x, p.address) <=> Answered(x, p)
  PROVE  Owed(m, r, n, c, p)
<1> SUFFICES ASSUME NEW k \in Shared, NEW x \in Above(k), NEW a \in Addresses
             PROVE  IF k = c /\ a = p.address /\ Answered(x, p)
                    THEN /\ Waits(m[x], a)
                         /\ ~Sends(Elements(r[k]), x, a) /\ ~Sends(Elements(n[k]), x, a)
                         /\ ~Sends(m[k], x, a)
                    ELSE CarriedAt(m, r, n, k, x, a)
  BY DEF Owed
<1>1. CarriedAt(m, r, q, k, x, a)
  BY DEF CarriedOnce
<1>2. Sends(Elements(n[k]), x, a) <=>
        Sends(Elements(q[k]), x, a) /\ ~(k = c /\ a = p.address)
  OBVIOUS
<1>3. Sends(Elements(q[c]), x, p.address) <=> Answered(x, p)
  OBVIOUS
<1> QED BY <1>1, <1>2, <1>3 DEF CarriedAt

\* or the MSHRs of a cache.
LEMMA OwedFromMiss ==
  ASSUME NEW m, NEW r, NEW q, NEW c \in Shared, NEW p, NEW n,
         CarriedOnce(m, r, q),
         \A z \in Requesters : \A a : Waits(n[z], a) <=> Waits(m[z], a),
         \A z \in Requesters : \A x, a :
           Sends(n[z], x, a) <=> Sends(m[z], x, a) /\ ~(z = c /\ a = p.address),
         \A x : Sends(m[c], x, p.address) <=> Answered(x, p)
  PROVE  Owed(n, r, q, c, p)
<1> SUFFICES ASSUME NEW k \in Shared, NEW x \in Above(k), NEW a \in Addresses
             PROVE  IF k = c /\ a = p.address /\ Answered(x, p)
                    THEN /\ Waits(n[x], a)
                         /\ ~Sends(Elements(r[k]), x, a) /\ ~Sends(Elements(q[k]), x, a)
                         /\ ~Sends(n[k], x, a)
                    ELSE CarriedAt(n, r, q, k, x, a)
  BY DEF Owed
<1>1. CarriedAt(m, r, q, k, x, a)
  BY DEF CarriedOnce
<1>2. x \in Requesters /\ k \in Requesters
  BY SendersBelow, Names
<1>3. Sends(n[k], x, a) <=> Sends(m[k], x, a) /\ ~(k = c /\ a = p.address)
  BY <1>2
<1>4. Waits(n[x], a) <=> Waits(m[x], a)
  BY <1>2
<1>5. Sends(m[c], x, p.address) <=> Answered(x, p)
  OBVIOUS
<1> QED BY <1>1, <1>3, <1>4, <1>5 DEF CarriedAt

\* It gets to where it is owed: into a read queue,
LEMMA PaidByRead ==
  ASSUME NEW m, NEW r, NEW q, NEW c \in Shared, NEW p, NEW n,
         Owed(m, r, q, c, p),
         \A k \in Shared : k # c => n[k] = r[k],
         \A x \in Above(c) : \A a :
           Sends(Elements(n[c]), x, a) <=>
             Sends(Elements(r[c]), x, a) \/ (a = p.address /\ Answered(x, p))
  PROVE  CarriedOnce(m, n, q)
<1> SUFFICES ASSUME NEW k \in Shared, NEW x \in Above(k), NEW a \in Addresses
             PROVE  CarriedAt(m, n, q, k, x, a)
  BY DEF CarriedOnce
<1>1. IF k = c /\ a = p.address /\ Answered(x, p)
      THEN /\ Waits(m[x], a)
           /\ ~Sends(Elements(r[k]), x, a) /\ ~Sends(Elements(q[k]), x, a)
           /\ ~Sends(m[k], x, a)
      ELSE CarriedAt(m, r, q, k, x, a)
  BY DEF Owed
<1>2. Sends(Elements(n[k]), x, a) <=>
        Sends(Elements(r[k]), x, a) \/ (k = c /\ a = p.address /\ Answered(x, p))
  OBVIOUS
<1> QED BY <1>1, <1>2 DEF CarriedAt

\* into a prefetch queue,
LEMMA PaidByPrefetch ==
  ASSUME NEW m, NEW r, NEW q, NEW c \in Shared, NEW p, NEW n,
         Owed(m, r, q, c, p),
         \A k \in Shared : k # c => n[k] = q[k],
         \A x \in Above(c) : \A a :
           Sends(Elements(n[c]), x, a) <=>
             Sends(Elements(q[c]), x, a) \/ (a = p.address /\ Answered(x, p))
  PROVE  CarriedOnce(m, r, n)
<1> SUFFICES ASSUME NEW k \in Shared, NEW x \in Above(k), NEW a \in Addresses
             PROVE  CarriedAt(m, r, n, k, x, a)
  BY DEF CarriedOnce
<1>1. IF k = c /\ a = p.address /\ Answered(x, p)
      THEN /\ Waits(m[x], a)
           /\ ~Sends(Elements(r[k]), x, a) /\ ~Sends(Elements(q[k]), x, a)
           /\ ~Sends(m[k], x, a)
      ELSE CarriedAt(m, r, q, k, x, a)
  BY DEF Owed
<1>2. Sends(Elements(n[k]), x, a) <=>
        Sends(Elements(q[k]), x, a) \/ (k = c /\ a = p.address /\ Answered(x, p))
  OBVIOUS
<1> QED BY <1>1, <1>2 DEF CarriedAt

\* or into the MSHRs of a cache, which sends nothing on itself.
LEMMA PaidByMiss ==
  ASSUME NEW m, NEW r, NEW q, NEW c \in Shared, NEW p, NEW n,
         Owed(m, r, q, c, p),
         \A z \in Requesters \ {"LLC"} : \A a : Waits(n[z], a) <=> Waits(m[z], a),
         \A k \in Shared : \A x \in Above(k), a \in Addresses :
           Sends(n[k], x, a) <=>
             Sends(m[k], x, a) \/ (k = c /\ a = p.address /\ Answered(x, p))
  PROVE  CarriedOnce(n, r, q)
<1> SUFFICES ASSUME NEW k \in Shared, NEW x \in Above(k), NEW a \in Addresses
             PROVE  CarriedAt(n, r, q, k, x, a)
  BY DEF CarriedOnce
<1>1. IF k = c /\ a = p.address /\ Answered(x, p)
      THEN /\ Waits(m[x], a)
           /\ ~Sends(Elements(r[k]), x, a) /\ ~Sends(Elements(q[k]), x, a)
           /\ ~Sends(m[k], x, a)
      ELSE CarriedAt(m, r, q, k, x, a)
  BY DEF Owed
<1>2. x \in Requesters \ {"LLC"}
  BY SendersBelow
<1>3. Waits(n[x], a) <=> Waits(m[x], a)
  BY <1>2
<1> QED BY <1>1, <1>3 DEF CarriedAt

\* Or they get their answer.
LEMMA PaidByAnswer ==
  ASSUME NEW m, NEW r, NEW q, NEW c \in Shared, NEW p, NEW n,
         Owed(m, r, q, c, p),
         \A z \in Requesters : \A a : Waits(n[z], a) <=>
           Waits(m[z], a) /\ ~(z \in Above(c) /\ a = p.address /\ Answered(z, p)),
         \A z \in Requesters : \A x, a : Sends(n[z], x, a) <=> Sends(m[z], x, a)
  PROVE  CarriedOnce(n, r, q)
<1> SUFFICES ASSUME NEW k \in Shared, NEW x \in Above(k), NEW a \in Addresses
             PROVE  CarriedAt(n, r, q, k, x, a)
  BY DEF CarriedOnce
<1>1. IF k = c /\ a = p.address /\ Answered(x, p)
      THEN /\ Waits(m[x], a)
           /\ ~Sends(Elements(r[k]), x, a) /\ ~Sends(Elements(q[k]), x, a)
           /\ ~Sends(m[k], x, a)
      ELSE CarriedAt(m, r, q, k, x, a)
  BY DEF Owed
<1>2. x \in Requesters /\ k \in Requesters /\ (x \in Above(c) => k = c)
  BY SendersBelow, Names
<1>3. Waits(n[x], a) <=>
        Waits(m[x], a) /\ ~(k = c /\ a = p.address /\ Answered(x, p))
  BY <1>2
<1>4. Sends(n[k], x, a) <=> Sends(m[k], x, a)
  BY <1>2
<1> QED BY <1>1, <1>3, <1>4 DEF CarriedAt

\* A packet that is for nobody owes nothing.
LEMMA OwedToNobody ==
  ASSUME NEW m, NEW r, NEW q, NEW c \in Shared, NEW p,
         \A x \in Above(c) : ~Answered(x, p)
  PROVE  Owed(m, r, q, c, p) <=> CarriedOnce(m, r, q)
BY DEF Owed, CarriedOnce

\* Requester x starts to wait for the block of p, which is for x and for nobody
\* else.
LEMMA OwedForMiss ==
  ASSUME NEW m, GoodMisses(m), NEW r, NEW q, CarriedOnce(m, r, q),
         NEW c \in Shared, NEW x \in Above(c), NEW p \in Packet,
         \A y \in Above(c) : Answered(y, p) <=> y = x,
         x \notin Shared, Waiting(m, x, p.address) = {}
  PROVE  GoodMisses(add_mshr(m, x, p)) /\ Owed(add_mshr(m, x, p), r, q, c, p)
<1> DEFINE n == add_mshr(m, x, p)
<1>0. x \in Requesters
  BY SendersBelow
<1>1. /\ GoodMisses(n)
      /\ \A z \in Requesters : \A a :
           Waits(n[z], a) <=> Waits(m[z], a) \/ (z = x /\ a = p.address)
      /\ \A z \in Requesters : \A y, a :
           Sends(n[z], y, a) <=>
             Sends(m[z], y, a) \/ (z = x /\ a = p.address /\ Answered(y, p))
  BY <1>0, AddedMiss
<1>2. ~Waits(m[x], p.address)
  BY DEF Waiting, Waits
<1> HIDE DEF n
<1>3. ASSUME NEW k \in Shared, NEW y \in Above(k), NEW a \in Addresses
      PROVE  IF k = c /\ a = p.address /\ Answered(y, p)
             THEN /\ Waits(n[y], a)
                  /\ ~Sends(Elements(r[k]), y, a) /\ ~Sends(Elements(q[k]), y, a)
                  /\ ~Sends(n[k], y, a)
             ELSE CarriedAt(n, r, q, k, y, a)
  <2>1. CarriedAt(m, r, q, k, y, a)
    BY DEF CarriedOnce
  <2>2. /\ y \in Requesters /\ k \in Requesters /\ k # x
        /\ y \in Above(c) => k = c
    BY SendersBelow, Names
  <2>3. Waits(n[y], a) <=> Waits(m[y], a) \/ (y = x /\ a = p.address)
    BY <1>1, <2>2
  <2>4. Sends(n[k], y, a) <=> Sends(m[k], y, a)
    BY <1>1, <2>2
  <2>5. y = x => k = c /\ Answered(y, p)
    BY <2>2
  <2>6. k = c => (Answered(y, p) <=> y = x)
    OBVIOUS
  <2> QED BY <1>2, <2>1, <2>3, <2>4, <2>5, <2>6 DEF CarriedAt
<1> QED BY <1>1, <1>3 DEF n, Owed

\* A packet misses in L2C and goes on to LLC: L2C takes over what it owes, and
\* waits for LLC now.
LEMMA OwedBelow ==
  ASSUME NEW m, GoodMisses(m), NEW r, NEW q, NEW p \in WellFormed,
         Owed(m, r, q, "L2C", p), Answered("L2C", p), p.address \in Addresses,
         Waiting(m, "L2C", p.address) = {}
  PROVE  GoodMisses(add_mshr(m, "L2C", p)) /\ Owed(add_mshr(m, "L2C", p), r, q, "LLC", p)
<1> DEFINE n == add_mshr(m, "L2C", p)
<1>0. "L2C" \in Requesters /\ p \in Packet
  BY SendersBelow, WellFormedPackets DEF Requesters, Caches
<1>1. /\ GoodMisses(n)
      /\ \A z \in Requesters : \A a :
           Waits(n[z], a) <=> Waits(m[z], a) \/ (z = "L2C" /\ a = p.address)
      /\ \A z \in Requesters : \A y, a :
           Sends(n[z], y, a) <=>
             Sends(m[z], y, a) \/ (z = "L2C" /\ a = p.address /\ Answered(y, p))
  BY <1>0, AddedMiss
<1>2. ~Waits(m["L2C"], p.address)
  BY DEF Waiting, Waits
<1> HIDE DEF n
<1>3. ASSUME NEW k \in Shared, NEW y \in Above(k), NEW a \in Addresses
      PROVE  IF k = "LLC" /\ a = p.address /\ Answered(y, p)
             THEN /\ Waits(n[y], a)
                  /\ ~Sends(Elements(r[k]), y, a) /\ ~Sends(Elements(q[k]), y, a)
                  /\ ~Sends(n[k], y, a)
             ELSE CarriedAt(n, r, q, k, y, a)
  <2>1. IF k = "L2C" /\ a = p.address /\ Answered(y, p)
        THEN /\ Waits(m[y], a)
             /\ ~Sends(Elements(r[k]), y, a) /\ ~Sends(Elements(q[k]), y, a)
             /\ ~Sends(m[k], y, a)
        ELSE CarriedAt(m, r, q, k, y, a)
    BY DEF Owed
  <2>2. y \in Requesters /\ k \in Requesters /\ (y = "L2C" <=> k = "LLC")
    BY SendersBelow, Names DEF Shared
  <2>3. Waits(n[y], a) <=> Waits(m[y], a) \/ (y = "L2C" /\ a = p.address)
    BY <1>1, <2>2
  <2>4. Sends(n[k], y, a) <=>
          Sends(m[k], y, a) \/ (k = "L2C" /\ a = p.address /\ Answered(y, p))
    BY <1>1, <2>2
  <2> QED BY <1>2, <2>1, <2>2, <2>3, <2>4 DEF CarriedAt
<1> QED BY <1>1, <1>3 DEF n, Owed

-----------------------------------------------------------------------------
(* No read is refused *)

\* The blocks that the misses of S are for.
BlocksOf(S) == {e.address : e \in S}

LEMMA BlocksBounded ==
  ASSUME NEW m, NEW c \in Shared,
         \A x \in Requesters : IsFiniteSet(m[x]) /\ Cardinality(m[x]) <= MSHR_SIZE(x)
  PROVE  LET U == UNION {BlocksOf(m[x]) : x \in Above(c)} IN
         IsFiniteSet(U) /\ Cardinality(U) <= RQ_SIZE(c)
<1> DEFINE U == UNION {BlocksOf(m[x]) : x \in Above(c)}
<1>1. ASSUME NEW x \in Requesters
      PROVE  /\ IsFiniteSet(BlocksOf(m[x])) /\ Cardinality(BlocksOf(m[x])) \in Nat
             /\ Cardinality(BlocksOf(m[x])) <= MSHR_SIZE(x)
  <2> DEFINE f == [e \in m[x] |-> e.address]
  <2>1. BlocksOf(m[x]) = {f[e] : e \in m[x]} /\ DOMAIN f = m[x]
    BY DEF BlocksOf
  <2> HIDE DEF f
  <2>2. /\ IsFiniteSet(BlocksOf(m[x]))
        /\ Cardinality(BlocksOf(m[x])) <= Cardinality(m[x])
    BY <2>1, ImageBounded
  <2>3. /\ Cardinality(m[x]) \in Nat /\ Cardinality(BlocksOf(m[x])) \in Nat
        /\ MSHR_SIZE(x) \in Nat
    BY <2>2, FS_CardinalityType, Sizes
  <2> QED BY <2>2, <2>3
<1>2. CASE c = "LLC"
  <2>1. U = BlocksOf(m["L2C"]) /\ "L2C" \in Requesters
    BY <1>2, SendersBelow DEF Requesters, Caches
  <2>2. MSHR_SIZE("L2C") \in Nat /\ RQ_SIZE(c) \in Nat /\ MSHR_SIZE("L2C") <= RQ_SIZE(c)
    BY <1>2, <2>1, QueuesCoverMisses, Sizes DEF MSHR_SIZE, RQ_SIZE
  <2> HIDE DEF U
  <2>3. IsFiniteSet(U) /\ Cardinality(U) <= RQ_SIZE(c)
    BY <1>1, <2>1, <2>2
  <2> QED BY <2>3 DEF U
<1>3. CASE c = "L2C"
  <2> DEFINE A == BlocksOf(m["L1I"])
             B == BlocksOf(m["L1D"])
             C == BlocksOf(m["PTW"])
  <2>1. U = (A \cup B) \cup C
    BY <1>3, SendersBelow
  <2>2. /\ IsFiniteSet(A) /\ Cardinality(A) \in Nat /\ Cardinality(A) <= MSHR_SIZE("L1I")
        /\ IsFiniteSet(B) /\ Cardinality(B) \in Nat /\ Cardinality(B) <= MSHR_SIZE("L1D")
        /\ IsFiniteSet(C) /\ Cardinality(C) \in Nat /\ Cardinality(C) <= MSHR_SIZE("PTW")
    BY <1>1 DEF Requesters, Caches
  <2>3. /\ MSHR_SIZE("L1I") \in Nat /\ MSHR_SIZE("L1D") \in Nat /\ MSHR_SIZE("PTW") \in Nat
        /\ RQ_SIZE(c) \in Nat
        /\ (MSHR_SIZE("L1I") + MSHR_SIZE("L1D")) + MSHR_SIZE("PTW") <= RQ_SIZE(c)
    BY <1>3, QueuesCoverMisses, HierarchyAssumption DEF MSHR_SIZE, RQ_SIZE
  <2> HIDE DEF A, B, C, U
  <2>4. /\ IsFiniteSet(A \cup B) /\ Cardinality(A \cup B) \in Nat
        /\ Cardinality(A \cup B) <= Cardinality(A) + Cardinality(B)
    <3>1. /\ IsFiniteSet(A \cup B) /\ IsFiniteSet(A \cap B)
          /\ Cardinality(A \cup B) =
               Cardinality(A) + Cardinality(B) - Cardinality(A \cap B)
      BY <2>2, FS_Union, FS_Intersection
    <3>2. Cardinality(A \cap B) \in Nat /\ Cardinality(A \cup B) \in Nat
      BY <3>1, FS_CardinalityType
    <3> QED BY <2>2, <3>1, <3>2
  <2>5. /\ IsFiniteSet((A \cup B) \cup C) /\ Cardinality((A \cup B) \cup C) \in Nat
        /\ Cardinality((A \cup B) \cup C) <= Cardinality(A \cup B) + Cardinality(C)
    <3>1. /\ IsFiniteSet((A \cup B) \cup C) /\ IsFiniteSet((A \cup B) \cap C)
          /\ Cardinality((A \cup B) \cup C) =
               Cardinality(A \cup B) + Cardinality(C) - Cardinality((A \cup B) \cap C)
      BY <2>2, <2>4, FS_Union, FS_Intersection
    <3>2. Cardinality((A \cup B) \cap C) \in Nat /\ Cardinality((A \cup B) \cup C) \in Nat
      BY <3>1, FS_CardinalityType
    <3> QED BY <2>2, <2>4, <3>1, <3>2
  <2>6. Cardinality((A \cup B) \cup C) <= RQ_SIZE(c)
    <3> DEFINE a == Cardinality(A)
               b == Cardinality(B)
               ab == Cardinality(A \cup B)
               d == Cardinality(C)
               u == Cardinality((A \cup B) \cup C)
    <3>1. /\ a \in Nat /\ b \in Nat /\ ab \in Nat /\ d \in Nat /\ u \in Nat
          /\ ab <= a + b /\ u <= ab + d
          /\ a <= MSHR_SIZE("L1I") /\ b <= MSHR_SIZE("L1D") /\ d <= MSHR_SIZE("PTW")
      BY <2>2, <2>4, <2>5
    <3> HIDE DEF a, b, ab, d, u
    <3>2. u <= RQ_SIZE(c)
      BY <2>3, <3>1
    <3> QED BY <3>2 DEF u
  <2>7. IsFiniteSet(U) /\ Cardinality(U) <= RQ_SIZE(c)
    BY <2>1, <2>5, <2>6
  <2> QED BY <2>7 DEF U
<1> QED BY <1>2, <1>3 DEF Shared

\* Every read queued is for somebody who waits for it, and each waits in an
\* MSHR of its own: so the queue has room for one more (cache.cc:1784, 1794).
LEMMA RoomForRead ==
  ASSUME NEW m, NEW r, NEW q, NEW c \in Shared, NEW p \in ReadPackets,
         \A x \in Requesters : IsFiniteSet(m[x]) /\ Cardinality(m[x]) <= MSHR_SIZE(x),
         GoodQueues(r, ReadPackets), Owed(m, r, q, c, p),
         Queued(r[c], p.address) = {}
  PROVE  Len(r[c]) # RQ_SIZE(c)
<1> DEFINE s == r[c]
           U == UNION {BlocksOf(m[x]) : x \in Above(c)}
           g == [i \in 1 .. Len(s) + 1 |->
                   IF i <= Len(s) THEN s[i].address ELSE p.address]
<1>1. /\ s \in Seq(ReadPackets) /\ OncePerBlock(s) /\ Len(s) \in Nat
      /\ DOMAIN s = 1 .. Len(s) /\ \A i \in DOMAIN s : s[i] \in ReadPackets
      /\ \A i \in DOMAIN s : s[i].address # p.address
  BY DEF GoodQueues, Queued
<1>2. IsFiniteSet(U) /\ Cardinality(U) <= RQ_SIZE(c)
  BY BlocksBounded
<1>3. \A e \in ReadPackets : e.address \in Addresses /\ \E x \in Above(c) : Answered(x, e)
  <2> SUFFICES ASSUME NEW e \in ReadPackets
               PROVE  e.address \in Addresses /\ \E x \in Above(c) : Answered(x, e)
    OBVIOUS
  <2>1. e \in WellFormed /\ e \in Packet /\ e.fill_level = FILL_L1 /\ FILL_L1 # FILL_LLC
    BY WellFormedPackets DEF ReadPackets, FILL_L1, FILL_LLC
  <2>2. e.address \in Addresses
    BY <2>1 DEF Packet
  <2>3. Answered("L2C", e)
    BY <2>1, AnsweredTo
  <2>4. Answered("PTW", e) \/ Answered("L1I", e) \/ Answered("L1D", e)
    BY <2>1, AnsweredAbove, Zenon
  <2> QED BY <2>2, <2>3, <2>4, SendersBelow DEF Shared
<1>4. ASSUME NEW x \in Above(c), NEW a \in Addresses, Waits(m[x], a)
      PROVE  a \in U
  BY <1>4 DEF Waits, BlocksOf
<1>5. \A i \in DOMAIN s : s[i].address \in U
  <2> SUFFICES ASSUME NEW i \in DOMAIN s PROVE s[i].address \in U
    OBVIOUS
  <2>1. PICK x \in Above(c) : Answered(x, s[i])
    BY <1>1, <1>3
  <2>2. s[i].address \in Addresses /\ s[i].address # p.address
    BY <1>1, <1>3
  <2>3. Sends(Elements(s), x, s[i].address)
    BY <2>1 DEF Sends, Elements
  <2>4. Waits(m[x], s[i].address)
    BY <2>2, <2>3 DEF Owed, CarriedAt
  <2> QED BY <1>4, <2>2, <2>4
<1>6. p.address \in U
  <2>1. PICK x \in Above(c) : Answered(x, p)
    BY <1>3
  <2>2. Waits(m[x], p.address)
    BY <1>3, <2>1 DEF Owed
  <2> QED BY <1>3, <1>4, <2>2
<1> HIDE DEF s, U
<1>7. g \in Injection(1 .. Len(s) + 1, U)
  <2>1. g \in [1 .. Len(s) + 1 -> U]
    BY <1>1, <1>5, <1>6
  <2>2. ASSUME NEW i \in 1 .. Len(s) + 1, NEW j \in 1 .. Len(s) + 1, g[i] = g[j]
        PROVE  i = j
    <3>1. CASE i <= Len(s) /\ j <= Len(s)
      BY <1>1, <2>2, <3>1 DEF OncePerBlock
    <3>2. CASE i <= Len(s) /\ ~(j <= Len(s))
      BY <1>1, <2>2, <3>2
    <3>3. CASE ~(i <= Len(s)) /\ j <= Len(s)
      BY <1>1, <2>2, <3>3
    <3>4. CASE ~(i <= Len(s)) /\ ~(j <= Len(s))
      BY <1>1, <3>4
    <3> QED BY <3>1, <3>2, <3>3, <3>4
  <2> QED BY <2>1, <2>2 DEF Injection, IsInjective
<1>8. /\ IsFiniteSet(1 .. Len(s) + 1)
      /\ Cardinality(1 .. Len(s) + 1) <= Cardinality(U)
  BY <1>2, <1>7, FS_Injection
<1>9. Cardinality(1 .. Len(s) + 1) = Len(s) + 1
  <2>1. 1 \in Int /\ Len(s) + 1 \in Int /\ ~(1 > Len(s) + 1) /\ ((Len(s) + 1) - 1) + 1 = Len(s) + 1
    BY <1>1
  <2>2. Cardinality(1 .. Len(s) + 1) = ((Len(s) + 1) - 1) + 1
    BY <2>1, FS_Interval
  <2> QED BY <2>1, <2>2
<1>10. Cardinality(U) \in Nat /\ RQ_SIZE(c) \in Nat
  BY <1>2, FS_CardinalityType, Sizes
<1>11. Len(s) + 1 <= RQ_SIZE(c)
  <2> DEFINE u == Cardinality(U)
             l == Len(s)
  <2>1. u \in Nat /\ l \in Nat /\ l + 1 <= u /\ u <= RQ_SIZE(c) /\ RQ_SIZE(c) \in Nat
    BY <1>1, <1>2, <1>8, <1>9, <1>10
  <2> HIDE DEF u, l
  <2>2. l + 1 <= RQ_SIZE(c)
    BY <2>1
  <2> QED BY <2>2 DEF l
<1> QED BY <1>1, <1>10, <1>11 DEF s

-----------------------------------------------------------------------------
(* Packets are sent *)

\* The MSHR files are as small as they were built.
SmallMisses(m) ==
  \A x \in Requesters : IsFiniteSet(m[x]) /\ Cardinality(m[x]) <= MSHR_SIZE(x)

\* add_rq hands a read to shared cache c: it is queued, or answered from the
\* write queue.
LEMMA ReadSent ==
  ASSUME NEW m, GoodMisses(m), SmallMisses(m), NEW r, GoodQueues(r, ReadPackets), NEW q,
         NEW c \in Shared, NEW p \in ReadPackets, Owed(m, r, q, c, p),
         c = "L2C" => ~p.send_both_cache,
         c = "L2C" /\ p.type = "LOAD_TRANSLATION" => p.address \notin Elements(wq[c])
  PROVE  /\ GoodMisses(Forwarded(m, c, p)) /\ GoodQueues(QueueRead(r, c, p), ReadPackets)
         /\ CarriedOnce(Forwarded(m, c, p), QueueRead(r, c, p), q)
         /\ \A a : Waits(Forwarded(m, c, p)["LLC"], a) <=> Waits(m["LLC"], a)
<1>0. p \in WellFormed /\ "LLC" \in Requesters /\ "LLC" \notin Above(c)
  BY WellFormedPackets, SendersBelow DEF Requesters, Caches
<1>1. CASE p.address \in Elements(wq[c])
  <2>1. QueueRead(r, c, p) = r
    BY <1>1 DEF QueueRead
  <2>2. c = "L2C" /\ p.fill_level = FILL_L1 =>
          p.type # "LOAD_TRANSLATION" /\ ~p.send_both_cache
    BY <1>1
  <2>3. Forwarded(m, c, p) = Answer(m, c, p)
    BY <1>0, <1>1, <2>2, FlaggedReturns DEF Forwarded
  <2> DEFINE n == Answer(m, c, p)
  <2>4. /\ GoodMisses(n)
        /\ \A z \in Requesters : \A a : Waits(n[z], a) <=>
             Waits(m[z], a) /\ ~(z \in Above(c) /\ a = p.address /\ Answered(z, p))
        /\ \A z \in Requesters : \A x, a : Sends(n[z], x, a) <=> Sends(m[z], x, a)
    BY <1>0, AnswerReturns
  <2> HIDE DEF n
  <2>5. CarriedOnce(n, r, q)
    BY <2>4, PaidByAnswer
  <2>6. \A a : Waits(n["LLC"], a) <=> Waits(m["LLC"], a)
    BY <1>0, <2>4
  <2> QED BY <2>1, <2>3, <2>4, <2>5, <2>6 DEF n
<1>2. CASE p.address \notin Elements(wq[c])
  <2>1. Forwarded(m, c, p) = m
    BY <1>2 DEF Forwarded
  <2>2. Queued(r[c], p.address) = {} => Len(r[c]) # RQ_SIZE(c)
    BY RoomForRead DEF SmallMisses
  <2>3. \A x \in Above(c) : Answered(x, p) => ~Sends(Elements(r[c]), x, p.address)
    <3>1. p.address \in Addresses
      BY <1>0 DEF WellFormed, Packet
    <3> QED BY <3>1 DEF Owed
  <2> DEFINE n == QueueRead(r, c, p)
  <2>4. /\ GoodQueues(n, ReadPackets)
        /\ \A k \in Shared : k # c => n[k] = r[k]
        /\ \A x \in Above(c) : \A a :
             Sends(Elements(n[c]), x, a) <=>
               Sends(Elements(r[c]), x, a) \/ (a = p.address /\ Answered(x, p))
    BY <1>2, <2>2, <2>3, ReadJoins
  <2> HIDE DEF n
  <2>5. CarriedOnce(m, n, q)
    BY <2>4, PaidByRead
  <2> QED BY <2>1, <2>4, <2>5 DEF n
<1> QED BY <1>1, <1>2

\* add_pq does the same for a prefetch, which its callers send only when the
\* queue has room.
LEMMA PrefetchSent ==
  ASSUME NEW m, GoodMisses(m), NEW r, NEW q, GoodQueues(q, PrefetchPackets),
         NEW c \in Shared, NEW p \in PrefetchPackets, Owed(m, r, q, c, p),
         Len(q[c]) # PQ_SIZE(c)
  PROVE  /\ GoodMisses(Forwarded(m, c, p))
         /\ GoodQueues(QueuePrefetch(q, c, p), PrefetchPackets)
         /\ CarriedOnce(Forwarded(m, c, p), r, QueuePrefetch(q, c, p))
         /\ \A a : Waits(Forwarded(m, c, p)["LLC"], a) <=> Waits(m["LLC"], a)
<1>0. p \in WellFormed /\ "LLC" \in Requesters /\ "LLC" \notin Above(c)
  BY WellFormedPackets, SendersBelow DEF Requesters, Caches
<1>1. CASE p.address \in Elements(wq[c])
  <2>1. QueuePrefetch(q, c, p) = q
    BY <1>1 DEF QueuePrefetch
  <2>2. p.type # "LOAD_TRANSLATION" /\ ~p.send_both_cache
    BY <1>0 DEF PrefetchPackets, WellFormed
  <2>3. Forwarded(m, c, p) = Answer(m, c, p)
    BY <1>0, <1>1, <2>2, FlaggedReturns DEF Forwarded
  <2> DEFINE n == Answer(m, c, p)
  <2>4. /\ GoodMisses(n)
        /\ \A z \in Requesters : \A a : Waits(n[z], a) <=>
             Waits(m[z], a) /\ ~(z \in Above(c) /\ a = p.address /\ Answered(z, p))
        /\ \A z \in Requesters : \A x, a : Sends(n[z], x, a) <=> Sends(m[z], x, a)
    BY <1>0, AnswerReturns
  <2> HIDE DEF n
  <2>5. CarriedOnce(n, r, q)
    BY <2>4, PaidByAnswer
  <2>6. \A a : Waits(n["LLC"], a) <=> Waits(m["LLC"], a)
    BY <1>0, <2>4
  <2> QED BY <2>1, <2>3, <2>4, <2>5, <2>6 DEF n
<1>2. CASE p.address \notin Elements(wq[c])
  <2>1. Forwarded(m, c, p) = m
    BY <1>2 DEF Forwarded
  <2>3. \A x \in Above(c) : Answered(x, p) => ~Sends(Elements(q[c]), x, p.address)
    <3>1. p.address \in Addresses
      BY <1>0 DEF WellFormed, Packet
    <3> QED BY <3>1 DEF Owed
  <2> DEFINE n == QueuePrefetch(q, c, p)
  <2>4. /\ GoodQueues(n, PrefetchPackets)
        /\ \A k \in Shared : k # c => n[k] = q[k]
        /\ \A x \in Above(c) : \A a :
             Sends(Elements(n[c]), x, a) <=>
               Sends(Elements(q[c]), x, a) \/ (a = p.address /\ Answered(x, p))
    BY <1>2, <2>3, PrefetchJoins
  <2> HIDE DEF n
  <2>5. CarriedOnce(m, r, n)
    BY <2>4, PaidByPrefetch
  <2> QED BY <2>1, <2>4, <2>5 DEF n
<1> QED BY <1>1, <1>2

\* A prefetch that no cache above waits for may be dropped.
LEMMA PrefetchOffered ==
  ASSUME NEW m, NEW r, NEW q, GoodQueues(q, PrefetchPackets), CarriedOnce(m, r, q),
         NEW c \in Shared, NEW p \in PrefetchPackets,
         \A x \in Above(c) : ~Answered(x, p)
  PROVE  /\ GoodQueues(QueuePrefetch(q, c, p), PrefetchPackets)
         /\ CarriedOnce(m, r, QueuePrefetch(q, c, p))
<1>1. CASE \/ p.address \in Elements(wq[c])
           \/ Queued(q[c], p.address) = {} /\ Len(q[c]) = PQ_SIZE(c)
  BY <1>1 DEF QueuePrefetch
<1>2. CASE /\ p.address \notin Elements(wq[c])
           /\ Queued(q[c], p.address) = {} => Len(q[c]) # PQ_SIZE(c)
  <2> DEFINE n == QueuePrefetch(q, c, p)
  <2>1. /\ GoodQueues(n, PrefetchPackets)
        /\ \A k \in Shared : k # c => n[k] = q[k]
        /\ \A x \in Above(c) : \A a :
             Sends(Elements(n[c]), x, a) <=>
               Sends(Elements(q[c]), x, a) \/ (a = p.address /\ Answered(x, p))
    BY <1>2, PrefetchJoins
  <2> HIDE DEF n
  <2>2. Owed(m, r, q, c, p)
    BY OwedToNobody
  <2>3. CarriedOnce(m, r, n)
    BY <2>1, <2>2, PaidByPrefetch
  <2> QED BY <2>1, <2>3 DEF n
<1> QED BY <1>1, <1>2

\* What the L1s and the walker ask for is for themselves alone,
LEMMA DemandsAreTheirs ==
  ASSUME NEW c \in Above("L2C"), NEW a, NEW type,
         \/ c = "PTW" /\ a \in TableBlocks /\ type = "LOAD_TRANSLATION"
         \/ c # "PTW" /\ a \in Blocks /\ type \in {"LOAD", "RFO"}
  PROVE  LET p == Demand(c, a, type) IN
         /\ p \in ReadPackets /\ p.address = a /\ p.type = type /\ ~p.send_both_cache
         /\ \A x \in Above("L2C") : Answered(x, p) <=> x = c
<1> DEFINE p == Demand(c, a, type)
<1>1. /\ p.address = a /\ p.fill_level = FILL_L1 /\ p.type = type
      /\ p.instruction = (c = "L1I") /\ p.fill_l1i = (c = "L1I")
      /\ p.fill_l1d = (c = "L1D") /\ p.send_both_cache = FALSE
  BY DEF Demand
<1>2. c \in {"L1I", "L1D", "PTW"}
  BY SendersBelow
<1>3. p \in Packet
  <2>1. a \in Addresses /\ type \in {"LOAD", "RFO", "PREFETCH", "LOAD_TRANSLATION"}
    BY DEF Addresses
  <2> QED BY <2>1 DEF Demand, Packet, FILL_L1, FILL_L2, FILL_LLC
<1> HIDE DEF p
<1>4. type = "LOAD_TRANSLATION" <=> a \in TableBlocks
  BY HierarchyAssumption
<1>5. p \in WellFormed
  <2>1. p.fill_level = FILL_L1 /\ p.type # "LOAD_TRANSLATION" => p.fill_l1i \/ p.fill_l1d
    BY <1>1, <1>2
  <2>2. p.type = "LOAD_TRANSLATION" <=> p.address \in TableBlocks
    BY <1>1, <1>4
  <2> QED BY <1>1, <1>3, <2>1, <2>2 DEF WellFormed
<1>6. p \in ReadPackets
  <2>1. p.type # "PREFETCH"
    BY <1>1
  <2>2. p.type # "LOAD_TRANSLATION" => (p.fill_l1d <=> ~p.instruction)
    BY <1>1, <1>2
  <2> QED BY <1>1, <1>5, <2>1, <2>2 DEF ReadPackets
<1>7. /\ Answered("L1I", p) <=> c = "L1I"
      /\ Answered("L1D", p) <=> c = "L1D"
      /\ Answered("PTW", p) <=> c = "PTW"
  BY <1>1, <1>5, AnsweredTo
<1> QED BY <1>1, <1>2, <1>6, <1>7, SendersBelow DEF p

\* and so is what the prefetcher of an L1 asks for, unless it is not to come up
\* to the L1 at all, like what the prefetcher of L2C asks for.
LEMMA PrefetchesAreTheirs ==
  ASSUME NEW c \in {"L1I", "L1D", "L2C"}, NEW a \in Blocks,
         NEW level \in {FILL_L1, FILL_L2, FILL_LLC},
         c = "L1I" => level = FILL_L1, c = "L2C" => level # FILL_L1
  PROVE  LET p == Prefetch(c, a, level) IN
         /\ p \in PrefetchPackets /\ p.address = a /\ p.fill_level = level
         /\ \A x \in Above("L2C") : Answered(x, p) <=> level = FILL_L1 /\ x = c
<1> DEFINE p == Prefetch(c, a, level)
<1>1. /\ p.address = a /\ p.fill_level = level /\ p.type = "PREFETCH"
      /\ p.fill_l1i = (c = "L1I") /\ p.fill_l1d = (c # "L1I" /\ level = FILL_L1)
      /\ p.send_both_cache = FALSE
  BY DEF Prefetch
<1>3. p \in Packet
  <2>1. a \in Addresses /\ fill_level(c) \in {0, FILL_L1, FILL_L2}
    BY DEF Addresses, fill_level
  <2> QED BY <2>1 DEF Prefetch, Packet
<1>4. a \notin TableBlocks /\ FILL_L1 # FILL_L2 /\ FILL_L1 # FILL_LLC
  BY HierarchyAssumption DEF FILL_L1, FILL_L2, FILL_LLC
<1> HIDE DEF p
<1>5. p \in WellFormed
  <2>1. p.fill_level # FILL_L1 => ~p.fill_l1i /\ ~p.fill_l1d
    BY <1>1
  <2>2. p.fill_level = FILL_L1 => p.fill_l1i \/ p.fill_l1d
    BY <1>1
  <2>3. p.type # "LOAD_TRANSLATION" /\ p.address \notin TableBlocks
    BY <1>1, <1>4
  <2> QED BY <1>1, <1>3, <2>1, <2>2, <2>3 DEF WellFormed
<1>6. /\ Answered("L1I", p) <=> level = FILL_L1 /\ c = "L1I"
      /\ Answered("L1D", p) <=> level = FILL_L1 /\ c # "L1I"
      /\ ~Answered("PTW", p)
  BY <1>1, <1>5, AnsweredTo
<1>7. level = FILL_L1 => (c # "L1I" <=> c = "L1D")
  OBVIOUS
<1> QED BY <1>1, <1>5, <1>6, <1>7, SendersBelow DEF p, PrefetchPackets

-----------------------------------------------------------------------------
(* What the L1s and the walker do keeps MissesInv *)

LEMMA SmallAfterMiss ==
  ASSUME HierarchyInv, NEW c \in Requesters, NEW p \in Packet, HasMshr(c)
  PROVE  SmallMisses(mshr) /\ SmallMisses(add_mshr(mshr, c, p))
<1>1. MissesOK(mshr, Addresses)
  BY MissesGrow DEF HierarchyInv, Addresses
<1>2. p \in Misses(c, Addresses)
  BY DEF Misses, Packet
<1>3. MissesOK(add_mshr(mshr, c, p), Addresses)
  BY <1>1, <1>2, MissAdded DEF HasMshr
<1> QED BY <1>1, <1>3 DEF MissesOK, SmallMisses

\* LLC is left alone.
LEMMA SameReads ==
  ASSUME NEW m, NEW n, ReadOnce(m, rd), \A a : Waits(n["LLC"], a) <=> Waits(m["LLC"], a)
  PROVE  ReadOnce(n, rd)
BY DEF ReadOnce

\* A request of an L1 or of the walker that has no miss yet goes to L2C.
LEMMA RequestCarried ==
  ASSUME HierarchyInv, MissesInv, NEW c \in Above("L2C"), NEW p \in ReadPackets,
         ~p.send_both_cache, \A x \in Above("L2C") : Answered(x, p) <=> x = c,
         p.type = "LOAD_TRANSLATION" => p.address \notin Elements(wq["L2C"]),
         Waiting(mshr, c, p.address) = {}, HasMshr(c),
         add_rq("L2C", p, add_mshr(mshr, c, p), rq), pq' = pq, rd' = rd
  PROVE  MissesInv'
<1> DEFINE m == add_mshr(mshr, c, p)
<1>0. /\ c \in Requesters /\ c # "LLC" /\ c \notin Shared /\ "L2C" \in Shared
      /\ "LLC" \in Requesters /\ p \in Packet
  BY SendersBelow, WellFormedPackets DEF Shared, Requesters, Caches
<1>1. GoodMisses(m) /\ Owed(m, rq, pq, "L2C", p)
  BY <1>0, OwedForMiss DEF MissesInv
<1>2. \A a : Waits(m["LLC"], a) <=> Waits(mshr["LLC"], a)
  <2>1. m["LLC"] = mshr["LLC"]
    BY <1>0 DEF add_mshr, MissesInv, GoodMisses
  <2> QED BY <2>1
<1>3. SmallMisses(m)
  BY <1>0, SmallAfterMiss
<1> HIDE DEF m
<1>4. /\ GoodMisses(Forwarded(m, "L2C", p))
      /\ GoodQueues(QueueRead(rq, "L2C", p), ReadPackets)
      /\ CarriedOnce(Forwarded(m, "L2C", p), QueueRead(rq, "L2C", p), pq)
      /\ \A a : Waits(Forwarded(m, "L2C", p)["LLC"], a) <=> Waits(m["LLC"], a)
  BY <1>0, <1>1, <1>3, ReadSent DEF MissesInv
<1>5. mshr' = Forwarded(m, "L2C", p) /\ rq' = QueueRead(rq, "L2C", p)
  BY DEF add_rq, m
<1>6. \A a : Waits(mshr'["LLC"], a) <=> Waits(mshr["LLC"], a)
  BY <1>2, <1>4, <1>5
<1>7. ReadOnce(mshr', rd)
  BY <1>6, SameReads DEF MissesInv
<1> QED BY <1>4, <1>5, <1>7 DEF MissesInv

\* The MSHRs of the shared caches, and whoever waits, are as before.
LEMMA SameBelow ==
  ASSUME MissesInv, NEW n, GoodMisses(n),
         \A z \in Requesters : \A a : Waits(n[z], a) <=> Waits(mshr[z], a),
         \A z \in Shared : n[z] = mshr[z]
  PROVE  CarriedOnce(n, rq, pq) /\ ReadOnce(n, rd)
<1>1. ASSUME NEW c \in Shared, NEW x \in Above(c), NEW a \in Addresses
      PROVE  CarriedAt(n, rq, pq, c, x, a)
  <2>1. CarriedAt(mshr, rq, pq, c, x, a)
    BY DEF MissesInv, CarriedOnce
  <2>2. x \in Requesters
    BY SendersBelow
  <2>3. Waits(n[x], a) <=> Waits(mshr[x], a)
    BY <2>2
  <2>4. n[c] = mshr[c]
    OBVIOUS
  <2> QED BY <2>1, <2>3, <2>4 DEF CarriedAt
<1>2. CarriedOnce(n, rq, pq)
  BY <1>1 DEF CarriedOnce
<1>3. n["LLC"] = mshr["LLC"]
  BY DEF Shared
<1> QED BY <1>2, <1>3 DEF ReadOnce, MissesInv

\* A request merges with a miss of its L1.
LEMMA MergeCarried ==
  ASSUME MissesInv, NEW c \in L1s, NEW p, NEW merge,
         \A e \in mshr[c] : e.address = p.address =>
           merge[e] \in Packet /\ merge[e].address = p.address /\ merge[e].returned = e.returned,
         mshr' = Merged(mshr, c, p, merge), rq' = rq, pq' = pq, rd' = rd
  PROVE  MissesInv'
<1>0. c \in Requesters /\ c \notin Shared /\ Shared \subseteq Requesters /\ GoodMisses(mshr)
  BY Names DEF L1s, Shared, MissesInv
<1> DEFINE n == Merged(mshr, c, p, merge)
<1>1. /\ GoodMisses(n)
      /\ \A z \in Requesters : \A a : Waits(n[z], a) <=> Waits(mshr[z], a)
      /\ \A z \in Requesters : z # c => n[z] = mshr[z]
  BY <1>0, MergedMiss
<1> HIDE DEF n
<1>2. \A z \in Shared : n[z] = mshr[z]
  BY <1>0, <1>1
<1>3. CarriedOnce(n, rq, pq) /\ ReadOnce(n, rd)
  BY <1>1, <1>2, SameBelow
<1> QED BY <1>1, <1>3 DEF n, MissesInv

LEMMA MissCarried ==
  ASSUME HierarchyInv, MissesInv, NEW c \in L1s, NEW p \in ReadPackets,
         p.type # "LOAD_TRANSLATION", ~p.send_both_cache,
         \A x \in Above("L2C") : Answered(x, p) <=> x = c,
         NEW merge,
         \A e \in mshr[c] : merge[e] \in {MergeMiss(e, p), MergeStore(e, p)},
         Miss(c, p, merge), pq' = pq, rd' = rd
  PROVE  MissesInv'
<1>0. /\ c \in Above("L2C") /\ c \in Requesters /\ p \in Packet
      /\ mshr[c] \subseteq Packet
  BY SendersBelow, Names, WellFormedPackets DEF L1s, MissesInv, GoodMisses
<1>1. CASE mshr' = Merged(mshr, c, p, merge) /\ rq' = rq
  <2>1. ASSUME NEW e \in mshr[c], e.address = p.address
        PROVE  /\ merge[e] \in Packet /\ merge[e].address = p.address
               /\ merge[e].returned = e.returned
    <3>1. e \in Packet /\ merge[e] \in {MergeMiss(e, p), MergeStore(e, p), Lowered(e, p)}
      BY <1>0
    <3> QED BY <1>0, <2>1, <3>1, MergesKeepMiss
  <2> QED BY <1>1, <2>1, MergeCarried
<1>2. CASE /\ Waiting(mshr, c, p.address) = {} /\ HasMshr(c)
           /\ add_rq("L2C", p, add_mshr(mshr, c, p), rq)
  BY <1>0, <1>2, RequestCarried
<1> QED BY <1>1, <1>2 DEF Miss

LEMMA ReadCarried ==
  ASSUME HierarchyInv, MissesInv, NEW c \in L1s, NEW a \in Blocks, read(c, a)
  PROVE  MissesInv'
<1> DEFINE p == Demand(c, a, "LOAD")
           merge == [e \in mshr[c] |-> MergeMiss(e, p)]
<1>1. /\ p \in ReadPackets /\ p.type # "LOAD_TRANSLATION" /\ ~p.send_both_cache
      /\ \A x \in Above("L2C") : Answered(x, p) <=> x = c
  <2>1. c \in Above("L2C") /\ c # "PTW"
    BY SendersBelow DEF L1s
  <2>2. /\ p \in ReadPackets /\ p.type = "LOAD" /\ ~p.send_both_cache
        /\ \A x \in Above("L2C") : Answered(x, p) <=> x = c
    BY <2>1, DemandsAreTheirs
  <2> QED BY <2>2
<1>2. \A e \in mshr[c] : merge[e] \in {MergeMiss(e, p), MergeStore(e, p)}
  OBVIOUS
<1>3. Miss(c, p, merge) /\ pq' = pq /\ rd' = rd
  BY DEF read
<1> HIDE DEF p, merge
<1> QED BY <1>1, <1>2, <1>3, MissCarried

LEMMA WriteCarried ==
  ASSUME HierarchyInv, MissesInv, NEW a \in Stored, write(a)
  PROVE  MissesInv'
<1> DEFINE p == Demand("L1D", a, "RFO")
           merge == [e \in mshr["L1D"] |-> MergeStore(e, p)]
<1>1. /\ p \in ReadPackets /\ p.type # "LOAD_TRANSLATION" /\ ~p.send_both_cache
      /\ \A x \in Above("L2C") : Answered(x, p) <=> x = "L1D"
  <2>1. "L1D" \in Above("L2C") /\ a \in Blocks
    BY SendersBelow, HierarchyAssumption
  <2>2. /\ p \in ReadPackets /\ p.type = "RFO" /\ ~p.send_both_cache
        /\ \A x \in Above("L2C") : Answered(x, p) <=> x = "L1D"
    BY <2>1, DemandsAreTheirs
  <2> QED BY <2>2
<1>2. \A e \in mshr["L1D"] : merge[e] \in {MergeMiss(e, p), MergeStore(e, p)}
  OBVIOUS
<1>3. pq' = pq /\ rd' = rd /\ (UNCHANGED <<mshr, rq>> \/ Miss("L1D", p, merge))
  BY DEF write
<1>4. "L1D" \in L1s
  BY DEF L1s
<1> HIDE DEF p, merge
<1>5. CASE UNCHANGED <<mshr, rq>>
  BY <1>3, <1>5 DEF MissesInv
<1>6. CASE Miss("L1D", p, merge)
  BY <1>1, <1>2, <1>3, <1>4, <1>6, MissCarried
<1> QED BY <1>3, <1>5, <1>6

LEMMA PrefetchCarried ==
  ASSUME HierarchyInv, MissesInv, NEW c \in L1s, NEW a \in Blocks,
         NEW level \in {FILL_L1, FILL_L2}, c = "L1I" => level = FILL_L1,
         prefetch(c, a, level)
  PROVE  MissesInv'
<1> DEFINE p == Prefetch(c, a, level)
           merge == [e \in mshr[c] |-> Lowered(e, p)]
<1>0. /\ c \in Above("L2C") /\ c \in Requesters /\ c \in {"L1I", "L1D", "L2C"}
      /\ c # "L2C" /\ c # "LLC" /\ c \notin Shared
      /\ mshr[c] \subseteq Packet /\ "L2C" \in Shared /\ GoodMisses(mshr)
      /\ fill_level(c) = FILL_L1
  BY SendersBelow, Names DEF L1s, MissesInv, GoodMisses, Shared, fill_level
<1>1. /\ p \in PrefetchPackets /\ p.address = a /\ p.fill_level = level
      /\ \A x \in Above("L2C") : Answered(x, p) <=> level = FILL_L1 /\ x = c
      /\ p \in Packet
  BY <1>0, PrefetchesAreTheirs, WellFormedPackets
<1>2. \A e \in mshr[c] : merge[e] = Lowered(e, p)
  OBVIOUS
<1>3. /\ rq' = rq /\ rd' = rd
      /\ \/ mshr' = Merged(mshr, c, p, merge) /\ pq' = pq
         \/ /\ Waiting(mshr, c, a) = {} /\ Len(pq["L2C"]) # L2C_PQ_SIZE
            /\ add_pq("L2C", p, MissInto(mshr, c, p), pq)
  BY DEF prefetch
<1> HIDE DEF p, merge
<1>4. CASE mshr' = Merged(mshr, c, p, merge) /\ pq' = pq
  <2>1. ASSUME NEW e \in mshr[c], e.address = p.address
        PROVE  /\ merge[e] \in Packet /\ merge[e].address = p.address
               /\ merge[e].returned = e.returned
    BY <1>0, <1>1, <1>2, <2>1, MergesKeepMiss
  <2> QED BY <1>3, <1>4, <2>1, MergeCarried
<1>5. CASE /\ Waiting(mshr, c, a) = {} /\ Len(pq["L2C"]) # L2C_PQ_SIZE
           /\ add_pq("L2C", p, MissInto(mshr, c, p), pq)
  <2> DEFINE m == MissInto(mshr, c, p)
  <2>1. /\ GoodMisses(m) /\ Owed(m, rq, pq, "L2C", p)
        /\ m["LLC"] = mshr["LLC"]
    <3>1. CASE level = FILL_L1
      <4>1. m = add_mshr(mshr, c, p)
        BY <1>0, <1>1, <3>1 DEF MissInto, FILL_L1
      <4>2. \A x \in Above("L2C") : Answered(x, p) <=> x = c
        BY <1>1, <3>1
      <4>3. GoodMisses(add_mshr(mshr, c, p)) /\ Owed(add_mshr(mshr, c, p), rq, pq, "L2C", p)
        BY <1>0, <1>1, <1>5, <4>2, OwedForMiss DEF MissesInv
      <4>4. add_mshr(mshr, c, p)["LLC"] = mshr["LLC"]
        BY <1>0 DEF add_mshr, GoodMisses, Requesters, Caches
      <4> QED BY <4>1, <4>3, <4>4
    <3>2. CASE level = FILL_L2
      <4>1. m = mshr
        BY <1>0, <1>1, <3>2 DEF MissInto, FILL_L1, FILL_L2
      <4>2. \A x \in Above("L2C") : ~Answered(x, p)
        BY <1>1, <3>2 DEF FILL_L1, FILL_L2
      <4>3. Owed(mshr, rq, pq, "L2C", p)
        BY <1>0, <4>2, OwedToNobody DEF MissesInv
      <4> QED BY <1>0, <4>1, <4>3
    <3> QED BY <3>1, <3>2
  <2>2. Len(pq["L2C"]) # PQ_SIZE("L2C")
    BY <1>5 DEF PQ_SIZE
  <2>3. mshr' = Forwarded(m, "L2C", p) /\ pq' = QueuePrefetch(pq, "L2C", p)
    BY <1>5 DEF add_pq
  <2> HIDE DEF m
  <2>4. /\ GoodMisses(Forwarded(m, "L2C", p))
        /\ GoodQueues(QueuePrefetch(pq, "L2C", p), PrefetchPackets)
        /\ CarriedOnce(Forwarded(m, "L2C", p), rq, QueuePrefetch(pq, "L2C", p))
        /\ \A b : Waits(Forwarded(m, "L2C", p)["LLC"], b) <=> Waits(m["LLC"], b)
    BY <1>0, <1>1, <2>1, <2>2, PrefetchSent DEF MissesInv
  <2>5. \A b : Waits(mshr'["LLC"], b) <=> Waits(mshr["LLC"], b)
    BY <2>1, <2>3, <2>4
  <2>6. ReadOnce(mshr', rd)
    BY <2>5, SameReads DEF MissesInv
  <2> QED BY <1>3, <2>3, <2>4, <2>6 DEF MissesInv
<1> QED BY <1>3, <1>4, <1>5

LEMMA WalkCarried ==
  ASSUME HierarchyInv, MissesInv, NEW a \in TableBlocks, walk(a)
  PROVE  MissesInv'
<1> DEFINE p == Demand("PTW", a, "LOAD_TRANSLATION")
<1>1. "PTW" \in Above("L2C") /\ "PTW" \in Requesters /\ "L2C" \in Shared
  BY SendersBelow, Names DEF Shared
<1>2. /\ p \in ReadPackets /\ p.address = a /\ ~p.send_both_cache
      /\ \A x \in Above("L2C") : Answered(x, p) <=> x = "PTW"
  BY <1>1, DemandsAreTheirs
<1>3. /\ add_rq("L2C", p, add_mshr(mshr, "PTW", p), rq) /\ pq' = pq /\ rd' = rd
      /\ mshr["PTW"] = {}
  BY DEF walk
<1> HIDE DEF p
<1>4. Waiting(mshr, "PTW", p.address) = {} /\ HasMshr("PTW")
  BY <1>1, <1>3, FS_EmptySet, Sizes DEF Waiting, HasMshr
<1>5. p.address \notin Elements(wq["L2C"])
  <2>1. wq["L2C"] \in Seq(Addresses \cap stored) /\ stored \subseteq Blocks
    BY <1>1 DEF HierarchyInv, WritesOK
  <2>2. \A i \in DOMAIN wq["L2C"] : wq["L2C"][i] \in Blocks
    BY <2>1
  <2> QED BY <1>2, <2>2, HierarchyAssumption DEF Elements
<1> QED BY <1>1, <1>2, <1>3, <1>4, <1>5, RequestCarried

-----------------------------------------------------------------------------
(* What the shared caches, memory and the walker's end do keeps MissesInv *)

\* A packet taken from a queue of c merges with a miss of c.
LEMMA SharedMerge ==
  ASSUME NEW m, GoodMisses(m), NEW r, NEW q, NEW c \in Shared, NEW p \in WellFormed,
         Owed(m, r, q, c, p), Waiting(m, c, p.address) # {}, NEW merge,
         \A e \in m[c] : e.address = p.address /\ Apart(c, e, p) =>
           /\ merge[e] \in WellFormed /\ ForBoth(c, merge[e], e, p)
           /\ merge[e].address = p.address /\ merge[e].returned = e.returned
  PROVE  /\ GoodMisses(Merged(m, c, p, merge)) /\ CarriedOnce(Merged(m, c, p, merge), r, q)
         /\ \A a : Waits(Merged(m, c, p, merge)["LLC"], a) <=> Waits(m["LLC"], a)
<1> DEFINE n == Merged(m, c, p, merge)
<1>0. /\ p.address \in Addresses /\ c \in Requesters /\ "LLC" \in Requesters
      /\ Shared \subseteq Requesters
  BY Names DEF WellFormed, Packet, Requesters, Caches
<1>1. ASSUME NEW e \in m[c], e.address = p.address
      PROVE  /\ merge[e] \in WellFormed /\ ForBoth(c, merge[e], e, p)
             /\ merge[e].address = p.address /\ merge[e].returned = e.returned
             /\ merge[e] \in Packet
  <2>1. Apart(c, e, p)
    <3> SUFFICES ASSUME NEW x \in Above(c), Answered(x, e), Answered(x, p)
                 PROVE  FALSE
      BY DEF Apart
    <3>1. ~Sends(m[c], x, p.address)
      BY <1>0 DEF Owed
    <3> QED BY <1>1, <3>1 DEF Sends
  <2> QED BY <1>1, <2>1, WellFormedPackets
<1>2. /\ GoodMisses(n)
      /\ \A z \in Requesters : \A a : Waits(n[z], a) <=> Waits(m[z], a)
      /\ \A z \in Requesters : z # c => n[z] = m[z]
      /\ \A x : ( /\ Waiting(m, c, p.address) # {}
                  /\ \A e \in m[c] : e.address = p.address =>
                       (Answered(x, merge[e]) <=> Answered(x, e) \/ Answered(x, p)) )
            => \A a : Sends(n[c], x, a) <=>
                       Sends(m[c], x, a) \/ (a = p.address /\ Answered(x, p))
  <2>1. \A e \in m[c] : e.address = p.address =>
           /\ merge[e] \in Packet /\ (c \in Shared => merge[e] \in WellFormed)
           /\ merge[e].address = p.address /\ merge[e].returned = e.returned
    BY <1>1
  <2> QED BY <1>0, <2>1, MergedMiss
<1>3. ASSUME NEW x \in Above(c), NEW e \in m[c], e.address = p.address
      PROVE  Answered(x, merge[e]) <=> Answered(x, e) \/ Answered(x, p)
  BY <1>1, <1>3 DEF ForBoth
<1> HIDE DEF n
<1>4. \A x \in Above(c) : \A a : Sends(n[c], x, a) <=>
        Sends(m[c], x, a) \/ (a = p.address /\ Answered(x, p))
  BY <1>2, <1>3
<1>5. \A k \in Shared : \A x \in Above(k), a \in Addresses :
        Sends(n[k], x, a) <=>
          Sends(m[k], x, a) \/ (k = c /\ a = p.address /\ Answered(x, p))
  BY <1>0, <1>2, <1>4
<1>6. CarriedOnce(n, r, q)
  BY <1>2, <1>5, PaidByMiss
<1>7. \A a : Waits(n["LLC"], a) <=> Waits(m["LLC"], a)
  BY <1>0, <1>2
<1> QED BY <1>2, <1>6, <1>7 DEF n

\* A packet that finds its block in c is answered.
LEMMA SharedAnswer ==
  ASSUME NEW m, GoodMisses(m), NEW r, NEW q, NEW c \in Shared, NEW p \in WellFormed,
         Owed(m, r, q, c, p)
  PROVE  /\ GoodMisses(Answer(m, c, p)) /\ CarriedOnce(Answer(m, c, p), r, q)
         /\ \A a : Waits(Answer(m, c, p)["LLC"], a) <=> Waits(m["LLC"], a)
<1> DEFINE n == Answer(m, c, p)
<1>1. /\ GoodMisses(n)
      /\ \A z \in Requesters : \A a : Waits(n[z], a) <=>
           Waits(m[z], a) /\ ~(z \in Above(c) /\ a = p.address /\ Answered(z, p))
      /\ \A z \in Requesters : \A x, a : Sends(n[z], x, a) <=> Sends(m[z], x, a)
  BY AnswerReturns
<1> HIDE DEF n
<1>2. CarriedOnce(n, r, q)
  BY <1>1, PaidByAnswer
<1>3. "LLC" \in Requesters /\ "LLC" \notin Above(c)
  BY SendersBelow DEF Requesters, Caches
<1>4. \A a : Waits(n["LLC"], a) <=> Waits(m["LLC"], a)
  BY <1>1, <1>3
<1> QED BY <1>1, <1>2, <1>4 DEF n

\* A packet misses in LLC and memory is asked for its block.
LEMMA MemoryAsked ==
  ASSUME NEW m, GoodMisses(m), ReadOnce(m, rd), NEW r, NEW q, NEW p \in WellFormed,
         Owed(m, r, q, "LLC", p), Waiting(m, "LLC", p.address) = {},
         read_memory(add_mshr(m, "LLC", p), p.address)
  PROVE  GoodMisses(mshr') /\ CarriedOnce(mshr', r, q) /\ ReadOnce(mshr', rd')
<1> DEFINE n == add_mshr(m, "LLC", p)
           b == p.address
           w == return_data(n, {"LLC"}, b)
<1>0. /\ "LLC" \in Requesters /\ "LLC" \in Shared /\ p \in Packet
      /\ b \in Addresses /\ Shared \subseteq Requesters
      /\ \A k \in Shared : \A x \in Above(k) : x \in Requesters /\ x # "LLC"
  BY Names, SendersBelow, WellFormedPackets DEF Requesters, Caches, Shared, WellFormed, Packet
<1>1. /\ GoodMisses(n)
      /\ \A z \in Requesters : \A a :
           Waits(n[z], a) <=> Waits(m[z], a) \/ (z = "LLC" /\ a = b)
      /\ \A z \in Requesters : \A x, a :
           Sends(n[z], x, a) <=>
             Sends(m[z], x, a) \/ (z = "LLC" /\ a = b /\ Answered(x, p))
  BY <1>0, AddedMiss
<1>2. b \notin rd
  <2>1. ~Waits(m["LLC"], b)
    BY DEF Waits, Waiting
  <2> QED BY <1>0, <2>1 DEF ReadOnce
<1>3. (b \in wr /\ mshr' = w /\ rd' = rd) \/ (mshr' = n /\ rd' = rd \cup {b})
  BY DEF read_memory
<1> HIDE DEF n, b
<1>4. CarriedOnce(n, r, q)
  <2>1. \A z \in Requesters \ {"LLC"} : \A a : Waits(n[z], a) <=> Waits(m[z], a)
    BY <1>1
  <2>2. \A k \in Shared : \A x \in Above(k), a \in Addresses :
          Sends(n[k], x, a) <=>
            Sends(m[k], x, a) \/ (k = "LLC" /\ a = p.address /\ Answered(x, p))
    BY <1>0, <1>1 DEF b
  <2> QED BY <1>0, <2>1, <2>2, PaidByMiss
<1>5. CASE mshr' = n /\ rd' = rd \cup {b}
  <2>1. ReadOnce(n, rd \cup {b})
    BY <1>0, <1>1 DEF ReadOnce
  <2> QED BY <1>1, <1>4, <1>5, <2>1
<1>6. CASE mshr' = w /\ rd' = rd
  <2>1. /\ GoodMisses(w)
        /\ \A z \in Requesters : \A a :
             Waits(w[z], a) <=> Waits(n[z], a) /\ ~(z \in {"LLC"} /\ a = b)
        /\ \A z \in Requesters : \A x, a : Sends(w[z], x, a) <=> Sends(n[z], x, a)
    BY <1>1, ReturnedMisses
  <2> HIDE DEF w
  <2>2. ASSUME NEW k \in Shared, NEW x \in Above(k), NEW a \in Addresses
        PROVE  CarriedAt(w, r, q, k, x, a)
    <3>1. CarriedAt(n, r, q, k, x, a)
      BY <1>4 DEF CarriedOnce
    <3>2. (Waits(w[x], a) <=> Waits(n[x], a)) /\ (Sends(w[k], x, a) <=> Sends(n[k], x, a))
      BY <1>0, <2>1
    <3> QED BY <3>1, <3>2 DEF CarriedAt
  <2>3. \A a \in Addresses : Waits(w["LLC"], a) <=> a \in rd
    BY <1>0, <1>1, <1>2, <2>1 DEF ReadOnce
  <2> QED BY <1>6, <2>1, <2>2, <2>3 DEF ReadOnce, CarriedOnce
<1> QED BY <1>3, <1>5, <1>6

\* What the prefetcher of L2C asks for changes nothing for anybody.
LEMMA PrefetchLineCarries ==
  ASSUME NEW m, NEW r, NEW q, GoodQueues(q, PrefetchPackets), CarriedOnce(m, r, q),
         NEW accessed, prefetch_line(q, accessed)
  PROVE  GoodQueues(pq', PrefetchPackets) /\ CarriedOnce(m, r, pq')
<1>1. CASE pq' = q
  BY <1>1
<1>2. CASE \E a \in Blocks \ accessed, level \in {FILL_L2, FILL_LLC} :
             pq' = QueuePrefetch(q, "L2C", Prefetch("L2C", a, level))
  <2>1. PICK a \in Blocks, level \in {FILL_L2, FILL_LLC} :
               pq' = QueuePrefetch(q, "L2C", Prefetch("L2C", a, level))
    BY <1>2
  <2> DEFINE p == Prefetch("L2C", a, level)
  <2>2. level \in {FILL_L1, FILL_L2, FILL_LLC} /\ level # FILL_L1
    BY DEF FILL_L1, FILL_L2, FILL_LLC
  <2>3. p \in PrefetchPackets /\ \A x \in Above("L2C") : ~Answered(x, p)
    BY <2>2, PrefetchesAreTheirs
  <2> HIDE DEF p
  <2>4. "L2C" \in Shared
    BY DEF Shared
  <2>5. /\ GoodQueues(QueuePrefetch(q, "L2C", p), PrefetchPackets)
        /\ CarriedOnce(m, r, QueuePrefetch(q, "L2C", p))
    BY <2>3, <2>4, PrefetchOffered
  <2> QED BY <2>1, <2>5 DEF p
<1> QED BY <1>1, <1>2 DEF prefetch_line

LEMMA HandleReadCarried ==
  ASSUME HierarchyInv, MissesInv, NEW c \in Shared, handle_read(c)
  PROVE  MissesInv'
<1> DEFINE p == Head(rq[c])
           q == [rq EXCEPT ![c] = Tail(@)]
           merge == [e \in mshr[c] |-> MergeMiss(e, p)]
<1>1. rq[c] # <<>>
  BY DEF handle_read
<1>2. /\ p \in ReadPackets /\ GoodQueues(q, ReadPackets)
      /\ Owed(mshr, q, pq, c, p)
  <2>1. ReadPackets \in SUBSET Packet
    BY WellFormedPackets
  <2>2. /\ p \in ReadPackets /\ GoodQueues(q, ReadPackets)
        /\ \A k \in Shared : \A x, a :
             Sends(Elements(q[k]), x, a) <=>
               Sends(Elements(rq[k]), x, a) /\ ~(k = c /\ a = p.address)
        /\ \A x : Sends(Elements(rq[c]), x, p.address) <=> Answered(x, p)
    BY <1>1, <2>1, TakenFromQueue DEF MissesInv
  <2> HIDE DEF p, q
  <2>3. CarriedOnce(mshr, rq, pq)
    BY DEF MissesInv
  <2> QED BY <2>2, <2>3, OwedFromRead
<1>3. /\ p \in WellFormed /\ p \in Packet /\ p.address \in Addresses
      /\ GoodMisses(mshr) /\ ReadOnce(mshr, rd) /\ GoodQueues(pq, PrefetchPackets)
  <2> HIDE DEF p
  <2> QED BY <1>2, WellFormedPackets DEF MissesInv, Packet
<1>4. /\ \/ mshr' = Answer(mshr, c, p) /\ rq' = q /\ rd' = rd
         \/ /\ Waiting(mshr, c, p.address) # {}
            /\ mshr' = Merged(mshr, c, p, merge) /\ rq' = q /\ rd' = rd
         \/ /\ Waiting(mshr, c, p.address) = {} /\ HasMshr(c)
            /\ IF c = "L2C"
               THEN add_rq("LLC", p, add_mshr(mshr, c, p), q) /\ rd' = rd
               ELSE read_memory(add_mshr(mshr, c, p), p.address) /\ rq' = q
      /\ prefetch_line(pq, {}) \/ UNCHANGED pq
  BY DEF handle_read
<1> HIDE DEF p, q
<1>5. /\ GoodMisses(mshr') /\ GoodQueues(rq', ReadPackets)
      /\ CarriedOnce(mshr', rq', pq) /\ ReadOnce(mshr', rd')
  <2>1. CASE mshr' = Answer(mshr, c, p) /\ rq' = q /\ rd' = rd
    <3>1. /\ GoodMisses(Answer(mshr, c, p)) /\ CarriedOnce(Answer(mshr, c, p), q, pq)
          /\ \A a : Waits(Answer(mshr, c, p)["LLC"], a) <=> Waits(mshr["LLC"], a)
      BY <1>2, <1>3, SharedAnswer
    <3>2. ReadOnce(Answer(mshr, c, p), rd)
      BY <1>3, <3>1, SameReads
    <3> QED BY <1>2, <2>1, <3>1, <3>2
  <2>2. CASE /\ Waiting(mshr, c, p.address) # {}
             /\ mshr' = Merged(mshr, c, p, merge) /\ rq' = q /\ rd' = rd
    <3>1. ASSUME NEW e \in mshr[c], e.address = p.address, Apart(c, e, p)
          PROVE  /\ merge[e] \in WellFormed /\ ForBoth(c, merge[e], e, p)
                 /\ merge[e].address = p.address /\ merge[e].returned = e.returned
      <4>1. e \in WellFormed /\ e \in Packet
        BY WellFormedPackets DEF MissesInv, GoodMisses
      <4>2. MergeMiss(e, p) \in WellFormed /\ ForBoth(c, MergeMiss(e, p), e, p)
        BY <1>3, <3>1, <4>1, MergeMissAnswers
      <4>3. MergeMiss(e, p).address = p.address /\ MergeMiss(e, p).returned = e.returned
        BY <1>3, <3>1, <4>1, MergesKeepMiss
      <4>4. merge[e] = MergeMiss(e, p)
        OBVIOUS
      <4> QED BY <4>2, <4>3, <4>4
    <3> HIDE DEF merge
    <3>2. /\ GoodMisses(Merged(mshr, c, p, merge))
          /\ CarriedOnce(Merged(mshr, c, p, merge), q, pq)
          /\ \A a : Waits(Merged(mshr, c, p, merge)["LLC"], a) <=> Waits(mshr["LLC"], a)
      BY <1>2, <1>3, <2>2, <3>1, SharedMerge
    <3>3. ReadOnce(Merged(mshr, c, p, merge), rd)
      BY <1>3, <3>2, SameReads
    <3> QED BY <1>2, <2>2, <3>2, <3>3
  <2>3. CASE /\ c = "L2C" /\ Waiting(mshr, c, p.address) = {} /\ HasMshr(c)
             /\ add_rq("LLC", p, add_mshr(mshr, c, p), q) /\ rd' = rd
    <3> DEFINE m == add_mshr(mshr, "L2C", p)
    <3>1. Answered("L2C", p)
      <4>1. p.fill_level # FILL_LLC
        BY <1>2 DEF ReadPackets, FILL_L1, FILL_LLC
      <4> QED BY <1>3, <4>1, AnsweredTo
    <3>2. GoodMisses(m) /\ Owed(m, q, pq, "LLC", p)
      BY <1>2, <1>3, <2>3, <3>1, OwedBelow
    <3>3. m["LLC"] = mshr["LLC"]
      BY <1>3 DEF add_mshr, GoodMisses, Requesters, Caches
    <3>4. SmallMisses(m) /\ "LLC" \in Shared
      BY <1>3, <2>3, SmallAfterMiss DEF Requesters, Caches, Shared
    <3>5. mshr' = Forwarded(m, "LLC", p) /\ rq' = QueueRead(q, "LLC", p)
      BY <2>3 DEF add_rq
    <3> HIDE DEF m
    <3>6. /\ GoodMisses(Forwarded(m, "LLC", p))
          /\ GoodQueues(QueueRead(q, "LLC", p), ReadPackets)
          /\ CarriedOnce(Forwarded(m, "LLC", p), QueueRead(q, "LLC", p), pq)
          /\ \A a : Waits(Forwarded(m, "LLC", p)["LLC"], a) <=> Waits(m["LLC"], a)
      BY <1>2, <3>2, <3>4, ReadSent
    <3>7. \A a : Waits(mshr'["LLC"], a) <=> Waits(mshr["LLC"], a)
      BY <3>3, <3>5, <3>6
    <3>8. ReadOnce(mshr', rd)
      BY <1>3, <3>7, SameReads
    <3> QED BY <2>3, <3>5, <3>6, <3>8
  <2>4. CASE /\ c = "LLC" /\ Waiting(mshr, c, p.address) = {}
             /\ read_memory(add_mshr(mshr, c, p), p.address) /\ rq' = q
    <3>1. GoodMisses(mshr') /\ CarriedOnce(mshr', q, pq) /\ ReadOnce(mshr', rd')
      BY <1>2, <1>3, <2>4, MemoryAsked
    <3> QED BY <1>2, <2>4, <3>1
  <2>5. c = "L2C" \/ c = "LLC"
    BY DEF Shared
  <2> HIDE DEF merge
  <2> QED BY <1>4, <2>1, <2>2, <2>3, <2>4, <2>5
<1>6. GoodQueues(pq', PrefetchPackets) /\ CarriedOnce(mshr', rq', pq')
  <2>1. CASE UNCHANGED pq
    BY <1>3, <1>5, <2>1
  <2>2. CASE prefetch_line(pq, {})
    BY <1>3, <1>5, <2>2, PrefetchLineCarries
  <2> QED BY <1>4, <2>1, <2>2
<1> QED BY <1>5, <1>6 DEF MissesInv

LEMMA HandlePrefetchCarried ==
  ASSUME HierarchyInv, MissesInv, NEW c \in Shared, handle_prefetch(c)
  PROVE  MissesInv'
<1> DEFINE p == Head(pq[c])
           q == [pq EXCEPT ![c] = Tail(@)]
           merge == [e \in mshr[c] |-> Lowered(e, p)]
           Then(after) == pq' = after \/ prefetch_line(after, {p.address})
<1>1. pq[c] # <<>>
  BY DEF handle_prefetch
<1>2. /\ p \in PrefetchPackets /\ GoodQueues(q, PrefetchPackets)
      /\ Owed(mshr, rq, q, c, p)
  <2>1. PrefetchPackets \in SUBSET Packet
    BY WellFormedPackets
  <2>2. /\ p \in PrefetchPackets /\ GoodQueues(q, PrefetchPackets)
        /\ \A k \in Shared : \A x, a :
             Sends(Elements(q[k]), x, a) <=>
               Sends(Elements(pq[k]), x, a) /\ ~(k = c /\ a = p.address)
        /\ \A x : Sends(Elements(pq[c]), x, p.address) <=> Answered(x, p)
    BY <1>1, <2>1, TakenFromQueue DEF MissesInv
  <2> HIDE DEF p, q
  <2>3. CarriedOnce(mshr, rq, pq)
    BY DEF MissesInv
  <2> QED BY <2>2, <2>3, OwedFromPrefetch
<1>3. /\ p \in WellFormed /\ p \in Packet /\ p.address \in Addresses
      /\ p.type = "PREFETCH" /\ ~p.send_both_cache
      /\ GoodMisses(mshr) /\ ReadOnce(mshr, rd) /\ GoodQueues(rq, ReadPackets)
  <2> HIDE DEF p
  <2> QED BY <1>2, WellFormedPackets DEF MissesInv, Packet, PrefetchPackets, WellFormed
<1>4. q["LLC"] = pq["LLC"] \/ c # "L2C"
  BY DEF MissesInv, GoodQueues, Shared
<1>5. /\ rq' = rq
      /\ \/ mshr' = AnswerFlagged(mshr, c, p) /\ rd' = rd /\ Then(q)
         \/ /\ Waiting(mshr, c, p.address) # {}
            /\ mshr' = Merged(mshr, c, p, merge) /\ rd' = rd /\ pq' = q
         \/ /\ Waiting(mshr, c, p.address) = {} /\ HasMshr(c)
            /\ IF c = "L2C"
               THEN /\ Len(pq["LLC"]) # LLC_PQ_SIZE
                    /\ mshr' = Forwarded(MissInto(mshr, c, p), "LLC", p)
                    /\ rd' = rd /\ Then(QueuePrefetch(q, "LLC", p))
               ELSE /\ read_memory(MissInto(mshr, c, p), p.address)
                    /\ Then(q)
  BY DEF handle_prefetch
<1> HIDE DEF p, q
<1>6. ASSUME NEW after, Then(after), GoodMisses(mshr'), ReadOnce(mshr', rd'),
             GoodQueues(after, PrefetchPackets), CarriedOnce(mshr', rq, after)
      PROVE  MissesInv'
  <2>1. GoodQueues(pq', PrefetchPackets) /\ CarriedOnce(mshr', rq, pq')
    <3>1. CASE pq' = after
      BY <1>6, <3>1
    <3>2. CASE prefetch_line(after, {p.address})
      BY <1>6, <3>2, PrefetchLineCarries
    <3> QED BY <1>6, <3>1, <3>2
  <2> QED BY <1>3, <1>5, <1>6, <2>1 DEF MissesInv
<1> HIDE DEF Then
<1>7. CASE mshr' = AnswerFlagged(mshr, c, p) /\ rd' = rd /\ Then(q)
  <2>1. AnswerFlagged(mshr, c, p) = Answer(mshr, c, p)
    BY <1>3, FlaggedReturns
  <2>2. /\ GoodMisses(Answer(mshr, c, p)) /\ CarriedOnce(Answer(mshr, c, p), rq, q)
        /\ \A a : Waits(Answer(mshr, c, p)["LLC"], a) <=> Waits(mshr["LLC"], a)
    BY <1>2, <1>3, SharedAnswer
  <2>3. ReadOnce(Answer(mshr, c, p), rd)
    BY <1>3, <2>2, SameReads
  <2> QED BY <1>2, <1>6, <1>7, <2>1, <2>2, <2>3
<1>8. CASE /\ Waiting(mshr, c, p.address) # {}
           /\ mshr' = Merged(mshr, c, p, merge) /\ rd' = rd /\ pq' = q
  <2>1. ASSUME NEW e \in mshr[c], e.address = p.address, Apart(c, e, p)
        PROVE  /\ merge[e] \in WellFormed /\ ForBoth(c, merge[e], e, p)
               /\ merge[e].address = p.address /\ merge[e].returned = e.returned
    <3>1. e \in WellFormed /\ e \in Packet
      BY WellFormedPackets DEF MissesInv, GoodMisses
    <3>2. Lowered(e, p) \in WellFormed /\ ForBoth(c, Lowered(e, p), e, p)
      BY <1>3, <2>1, <3>1, LoweredAnswers
    <3>3. Lowered(e, p).address = p.address /\ Lowered(e, p).returned = e.returned
      BY <1>3, <2>1, <3>1, MergesKeepMiss
    <3>4. merge[e] = Lowered(e, p)
      OBVIOUS
    <3> QED BY <3>2, <3>3, <3>4
  <2> HIDE DEF merge
  <2>2. /\ GoodMisses(Merged(mshr, c, p, merge))
        /\ CarriedOnce(Merged(mshr, c, p, merge), rq, q)
        /\ \A a : Waits(Merged(mshr, c, p, merge)["LLC"], a) <=> Waits(mshr["LLC"], a)
    BY <1>2, <1>3, <1>8, <2>1, SharedMerge
  <2>3. ReadOnce(Merged(mshr, c, p, merge), rd)
    BY <1>3, <2>2, SameReads
  <2> QED BY <1>2, <1>3, <1>5, <1>8, <2>2, <2>3 DEF MissesInv, merge
<1>9. CASE /\ c = "L2C" /\ Waiting(mshr, c, p.address) = {} /\ HasMshr(c)
           /\ Len(pq["LLC"]) # LLC_PQ_SIZE
           /\ mshr' = Forwarded(MissInto(mshr, c, p), "LLC", p)
           /\ rd' = rd /\ Then(QueuePrefetch(q, "LLC", p))
  <2> DEFINE m == MissInto(mshr, c, p)
  <2>0. "LLC" \in Shared /\ "L2C" \in Shared
    BY DEF Shared
  <2>1. GoodMisses(m) /\ Owed(m, rq, q, "LLC", p) /\ m["LLC"] = mshr["LLC"]
    <3>0. p.fill_level \in {1, 2, 4}
      BY <1>3 DEF Packet, FILL_L1, FILL_L2, FILL_LLC
    <3>1. CASE p.fill_level = FILL_LLC
      <4>1. m = mshr
        BY <1>9, <3>1 DEF MissInto, fill_level, FILL_L2, FILL_LLC
      <4>2. \A x \in Above("L2C") : ~Answered(x, p)
        BY <1>3, <3>1, AnsweredTo, SendersBelow DEF FILL_L1, FILL_LLC
      <4>3. \A x \in Above("LLC") : ~Answered(x, p)
        BY <1>3, <3>1, AnsweredTo, SendersBelow
      <4>4. CarriedOnce(mshr, rq, q)
        BY <1>2, <1>9, <2>0, <4>2, OwedToNobody
      <4>5. Owed(mshr, rq, q, "LLC", p)
        BY <2>0, <4>3, <4>4, OwedToNobody
      <4> QED BY <1>3, <4>1, <4>5
    <3>2. CASE p.fill_level # FILL_LLC
      <4>1. m = add_mshr(mshr, "L2C", p)
        BY <1>9, <3>0, <3>2 DEF MissInto, fill_level, FILL_L2, FILL_LLC
      <4>2. Answered("L2C", p)
        BY <1>3, <3>2, AnsweredTo
      <4>3. /\ GoodMisses(add_mshr(mshr, "L2C", p))
            /\ Owed(add_mshr(mshr, "L2C", p), rq, q, "LLC", p)
        BY <1>2, <1>3, <1>9, <4>2, OwedBelow
      <4>4. add_mshr(mshr, "L2C", p)["LLC"] = mshr["LLC"]
        BY <1>3 DEF add_mshr, GoodMisses, Requesters, Caches
      <4> QED BY <4>1, <4>3, <4>4
    <3> QED BY <3>1, <3>2
  <2>2. Len(q["LLC"]) # PQ_SIZE("LLC")
    BY <1>4, <1>9 DEF PQ_SIZE
  <2> HIDE DEF m
  <2>3. /\ GoodMisses(Forwarded(m, "LLC", p))
        /\ GoodQueues(QueuePrefetch(q, "LLC", p), PrefetchPackets)
        /\ CarriedOnce(Forwarded(m, "LLC", p), rq, QueuePrefetch(q, "LLC", p))
        /\ \A a : Waits(Forwarded(m, "LLC", p)["LLC"], a) <=> Waits(m["LLC"], a)
    BY <1>2, <2>0, <2>1, <2>2, PrefetchSent
  <2>4. mshr' = Forwarded(m, "LLC", p)
    BY <1>9 DEF m
  <2>5. \A a : Waits(mshr'["LLC"], a) <=> Waits(mshr["LLC"], a)
    BY <2>1, <2>3, <2>4
  <2>6. ReadOnce(mshr', rd)
    BY <1>3, <2>5, SameReads
  <2> QED BY <1>6, <1>9, <2>3, <2>4, <2>6
<1>10. CASE /\ c = "LLC" /\ Waiting(mshr, c, p.address) = {}
            /\ read_memory(MissInto(mshr, c, p), p.address) /\ Then(q)
  <2>1. MissInto(mshr, c, p) = add_mshr(mshr, "LLC", p)
    <3>1. p.fill_level \in {1, 2, 4}
      BY <1>3 DEF Packet, FILL_L1, FILL_L2, FILL_LLC
    <3> QED BY <1>10, <3>1 DEF MissInto, fill_level, FILL_LLC
  <2>2. GoodMisses(mshr') /\ CarriedOnce(mshr', rq, q) /\ ReadOnce(mshr', rd')
    BY <1>2, <1>3, <1>10, <2>1, MemoryAsked
  <2> QED BY <1>2, <1>6, <1>10, <2>2
<1>11. c = "L2C" \/ c = "LLC"
  BY DEF Shared
<1> HIDE DEF merge
<1> QED BY <1>5, <1>7, <1>8, <1>9, <1>10, <1>11

\* A cache is done with miss e, and answers whoever above waits for it.
LEMMA FillCarried ==
  ASSUME MissesInv, NEW c \in Caches, NEW e \in mshr[c], e.returned,
         mshr' = Answer([mshr EXCEPT ![c] = @ \ {e}], c, e),
         rq' = rq, pq' = pq, rd' = rd
  PROVE  MissesInv'
<1> DEFINE m == [mshr EXCEPT ![c] = @ \ {e}]
<1>0. c \in Requesters /\ GoodMisses(mshr) /\ CarriedOnce(mshr, rq, pq) /\ ReadOnce(mshr, rd)
  BY Names DEF MissesInv
<1>1. /\ GoodMisses(m)
      /\ \A z \in Requesters : \A a : Waits(m[z], a) <=> Waits(mshr[z], a)
      /\ \A z \in Requesters : \A x, a :
           Sends(m[z], x, a) <=> Sends(mshr[z], x, a) /\ ~(z = c /\ a = e.address)
      /\ \A x : Sends(mshr[c], x, e.address) <=> Answered(x, e)
  BY <1>0, RemovedMiss
<1>2. CASE c \in Shared
  <2> HIDE DEF m
  <2>1. Owed(m, rq, pq, c, e)
    BY <1>0, <1>1, <1>2, OwedFromMiss
  <2>2. e \in WellFormed
    BY <1>0, <1>2 DEF GoodMisses
  <2>3. /\ GoodMisses(Answer(m, c, e)) /\ CarriedOnce(Answer(m, c, e), rq, pq)
        /\ \A a : Waits(Answer(m, c, e)["LLC"], a) <=> Waits(m["LLC"], a)
    BY <1>1, <1>2, <2>1, <2>2, SharedAnswer
  <2>4. mshr' = Answer(m, c, e)
    BY DEF m
  <2>5. \A a : Waits(mshr'["LLC"], a) <=> Waits(mshr["LLC"], a)
    BY <1>1, <2>3, <2>4 DEF Requesters, Caches
  <2>6. ReadOnce(mshr', rd)
    BY <1>0, <2>5, SameReads
  <2> QED BY <2>3, <2>4, <2>6 DEF MissesInv
<1>3. CASE c \notin Shared
  <2>1. e.fill_level \in {1, 2, 4} /\ fill_level(c) = 1
    BY <1>0, <1>3 DEF GoodMisses, Packet, FILL_L1, FILL_L2, FILL_LLC, fill_level, Shared, Caches
  <2>2. mshr' = m
    BY <2>1 DEF Answer
  <2>3. \A z \in Shared : m[z] = mshr[z]
    BY <1>0, <1>3 DEF GoodMisses
  <2> HIDE DEF m
  <2>4. CarriedOnce(m, rq, pq) /\ ReadOnce(m, rd)
    BY <1>1, <2>3, SameBelow
  <2> QED BY <1>1, <2>2, <2>4 DEF MissesInv
<1> QED BY <1>2, <1>3

LEMMA WalkedCarried ==
  ASSUME MissesInv, walked
  PROVE  MissesInv'
<1>1. PICK e \in mshr["PTW"] : e.returned /\ mshr' = [mshr EXCEPT !["PTW"] = @ \ {e}]
  BY DEF walked
<1> DEFINE m == [mshr EXCEPT !["PTW"] = @ \ {e}]
<1>0. "PTW" \in Requesters /\ "PTW" \notin Shared /\ GoodMisses(mshr)
  BY Names DEF MissesInv, Shared
<1>2. /\ GoodMisses(m)
      /\ \A z \in Requesters : \A a : Waits(m[z], a) <=> Waits(mshr[z], a)
  BY <1>0, <1>1, RemovedMiss
<1>3. \A z \in Shared : m[z] = mshr[z]
  BY <1>0 DEF GoodMisses
<1>4. mshr' = m /\ rq' = rq /\ pq' = pq /\ rd' = rd
  BY <1>1 DEF walked
<1> HIDE DEF m
<1>5. CarriedOnce(m, rq, pq) /\ ReadOnce(m, rd)
  BY <1>2, <1>3, SameBelow
<1> QED BY <1>2, <1>4, <1>5 DEF MissesInv

LEMMA MemoryCarried ==
  ASSUME MissesInv, NEW a \in Addresses, memory_returns(a)
  PROVE  MissesInv'
<1> DEFINE n == return_data(mshr, {"LLC"}, a)
<1>0. /\ GoodMisses(mshr) /\ ReadOnce(mshr, rd) /\ Shared \subseteq Requesters
      /\ "LLC" \in Requesters
      /\ \A k \in Shared : \A x \in Above(k) : x \in Requesters /\ x # "LLC"
  BY Names, SendersBelow DEF MissesInv, Requesters, Caches
<1>1. /\ GoodMisses(n)
      /\ \A z \in Requesters : \A b :
           Waits(n[z], b) <=> Waits(mshr[z], b) /\ ~(z \in {"LLC"} /\ b = a)
      /\ \A z \in Requesters : \A x, b : Sends(n[z], x, b) <=> Sends(mshr[z], x, b)
  BY <1>0, ReturnedMisses
<1>2. mshr' = n /\ rd' = rd \ {a} /\ rq' = rq /\ pq' = pq
  BY DEF memory_returns
<1> HIDE DEF n
<1>3. ASSUME NEW k \in Shared, NEW x \in Above(k), NEW b \in Addresses
      PROVE  CarriedAt(n, rq, pq, k, x, b)
  <2>1. CarriedAt(mshr, rq, pq, k, x, b)
    BY DEF MissesInv, CarriedOnce
  <2>2. (Waits(n[x], b) <=> Waits(mshr[x], b)) /\ (Sends(n[k], x, b) <=> Sends(mshr[k], x, b))
    BY <1>0, <1>1
  <2> QED BY <2>1, <2>2 DEF CarriedAt
<1>4. ReadOnce(n, rd \ {a})
  BY <1>0, <1>1 DEF ReadOnce
<1> QED BY <1>1, <1>2, <1>3, <1>4 DEF MissesInv, CarriedOnce

-----------------------------------------------------------------------------
(* The theorems about misses, first for what both builds of the caches do   *)

LEMMA MissesStart == Init => MissesInv
<1> SUFFICES ASSUME Init PROVE MissesInv
  OBVIOUS
<1>1. /\ \A c \in Shared : rq[c] = <<>> /\ pq[c] = <<>>
      /\ \A c \in Requesters : mshr[c] = {}
      /\ rd = {} /\ rq \in [Shared -> {<<>>}] /\ pq \in [Shared -> {<<>>}]
      /\ mshr \in [Requesters -> {{}}]
  BY DEF Init
<1>2. GoodQueues(rq, ReadPackets) /\ GoodQueues(pq, PrefetchPackets)
  <2>1. OncePerBlock(<<>>)
    BY DEF OncePerBlock
  <2>2. \A V : <<>> \in Seq(V)
    OBVIOUS
  <2>3. rq \in [Shared -> Seq(ReadPackets)] /\ pq \in [Shared -> Seq(PrefetchPackets)]
    BY <1>1, <2>2
  <2> QED BY <1>1, <2>1, <2>3 DEF GoodQueues
<1>3. GoodMisses(mshr)
  BY <1>1, Names DEF GoodMisses, SingleMisses
<1>4. \A c \in Shared : Elements(rq[c]) = {} /\ Elements(pq[c]) = {}
  BY <1>1 DEF Elements
<1>5. CarriedOnce(mshr, rq, pq)
  <2> SUFFICES ASSUME NEW c \in Shared, NEW x \in Above(c), NEW a \in Addresses
               PROVE  CarriedAt(mshr, rq, pq, c, x, a)
    BY DEF CarriedOnce
  <2>1. mshr[x] = {} /\ mshr[c] = {} /\ Elements(rq[c]) = {} /\ Elements(pq[c]) = {}
    BY <1>1, <1>4, SendersBelow, Names
  <2> QED BY <2>1 DEF CarriedAt, Waits, Sends
<1>6. ReadOnce(mshr, rd)
  BY <1>1, Names DEF ReadOnce, Waits, Requesters, Caches
<1> QED BY <1>2, <1>3, <1>5, <1>6 DEF MissesInv

LEMMA RequestsCarried ==
  ASSUME HierarchyInv, MissesInv, Requests
  PROVE  MissesInv'
<1>1. Code \subseteq Blocks /\ "L1I" \in L1s /\ "L1D" \in L1s /\ "L1I" # "L1D"
      /\ FILL_L1 \in {FILL_L1, FILL_L2}
  BY HierarchyAssumption DEF L1s
<1>2. CASE \E a \in Code : read("L1I", a) \/ prefetch("L1I", a, FILL_L1)
  BY <1>1, <1>2, ReadCarried, PrefetchCarried
<1>3. CASE \E a \in Blocks : read("L1D", a)
  BY <1>1, <1>3, ReadCarried
<1>4. CASE \E a \in Stored : write(a)
  BY <1>4, WriteCarried
<1>5. CASE \E a \in Blocks, level \in {FILL_L1, FILL_L2} : prefetch("L1D", a, level)
  BY <1>1, <1>5, PrefetchCarried
<1>6. CASE \E a \in TableBlocks : walk(a)
  BY <1>6, WalkCarried
<1> QED BY <1>2, <1>3, <1>4, <1>5, <1>6 DEF Requests

LEMMA MissesStutter ==
  ASSUME MissesInv, UNCHANGED <<mshr, rq, pq, rd>>
  PROVE  MissesInv'
BY DEF MissesInv

LEMMA LookupsCarried ==
  ASSUME HierarchyInv, MissesInv, Lookups
  PROVE  MissesInv'
<1>1. CASE \E c \in Shared : handle_read(c) \/ handle_prefetch(c)
  BY <1>1, HandleReadCarried, HandlePrefetchCarried
<1>2. CASE walked
  BY <1>2, WalkedCarried
<1>3. CASE \E a \in Addresses : memory_returns(a)
  BY <1>3, MemoryCarried
<1>4. CASE \E a \in Addresses : memory_writes(a)
  BY <1>4, MissesStutter DEF memory_writes
<1> QED BY <1>1, <1>2, <1>3, <1>4 DEF Lookups

LEMMA CarriedFromInvariant == MissesInv => MissesCarried
<1> SUFFICES ASSUME MissesInv, NEW x \in Requesters, NEW a \in Addresses
             PROVE  Carried(x, a) <=> Awaits(x, a)
  BY DEF MissesCarried
<1>1. Awaits(x, a) <=> Waits(mshr[x], a)
  BY DEF Awaits, Waiting, Waits
<1>2. CASE x = "LLC"
  BY <1>1, <1>2 DEF MissesInv, ReadOnce, Carried
<1>3. CASE x # "LLC"
  <2> DEFINE c == IF x = "L2C" THEN "LLC" ELSE "L2C"
  <2>1. c \in Shared /\ x \in Above(c)
    BY <1>3, SendersBelow DEF Shared, Requesters, Caches
  <2>2. Carried(x, a) <=> \/ Sends(Elements(rq[c]), x, a)
                          \/ Sends(Elements(pq[c]), x, a)
                          \/ Sends(mshr[c], x, a)
    BY <1>3 DEF Carried, Carriers, Sends
  <2> HIDE DEF c
  <2>3. CarriedAt(mshr, rq, pq, c, x, a)
    BY <2>1 DEF MissesInv, CarriedOnce
  <2> QED BY <1>1, <2>2, <2>3 DEF CarriedAt
<1> QED BY <1>2, <1>3

\* A step of the caches is one of MemoryPort, or none.
PortStep == [Port!Next]_(Port!vars)

LEMMA PortRead ==
  ASSUME MissesInv, NEW m, NEW a \in Addresses, Waiting(mshr, "LLC", a) = {},
         read_memory(m, a), wr' = wr
  PROVE  PortStep
<1>1. a \notin rd
  BY DEF MissesInv, ReadOnce, Waits, Waiting
<1>2. CASE a \in wr
  BY <1>2 DEF read_memory, PortStep, Port!vars
<1>3. CASE a \notin wr
  BY <1>1, <1>3 DEF read_memory, PortStep, Port!Next, Port!AcceptRead
<1> QED BY <1>2, <1>3

LEMMA PortEvict ==
  ASSUME NEW c, NEW f, NEW q, evict(c, f, q), rd' = rd, wr' \subseteq Addresses
  PROVE  PortStep
<1>1. CASE wr' = wr
  BY <1>1 DEF PortStep, Port!vars
<1>2. CASE wr' # wr
  <2>1. wr' = wr \cup {block[c][f].address}
    BY <1>2 DEF evict
  <2> QED BY <1>2, <2>1 DEF PortStep, Port!Next, Port!AcceptWrite
<1> QED BY <1>1, <1>2

LEMMA LookupsUsePort ==
  ASSUME HierarchyInv, MissesInv, Lookups
  PROVE  PortStep
<1>1. ASSUME NEW c \in Shared, handle_read(c)
      PROVE  PortStep
  <2> DEFINE p == Head(rq[c])
  <2>1. p.address \in Addresses
    <3>1. rq[c] # <<>> /\ rq[c] \in Seq(Packet)
      BY <1>1 DEF handle_read, HierarchyInv, ReadsOK
    <3>2. p \in Packet
      BY <3>1, ShorterSequence
    <3> QED BY <3>2 DEF Packet
  <2>2. /\ wr' = wr
        /\ \/ rd' = rd
           \/ /\ c # "L2C" /\ Waiting(mshr, c, p.address) = {}
              /\ read_memory(add_mshr(mshr, c, p), p.address)
    BY <1>1 DEF handle_read
  <2> HIDE DEF p
  <2>3. CASE rd' = rd
    BY <2>2, <2>3 DEF PortStep, Port!vars
  <2>4. CASE /\ c # "L2C" /\ Waiting(mshr, c, p.address) = {}
             /\ read_memory(add_mshr(mshr, c, p), p.address)
    <3>1. c = "LLC"
      BY <2>4 DEF Shared
    <3> QED BY <2>1, <2>2, <2>4, <3>1, PortRead
  <2> QED BY <2>2, <2>3, <2>4
<1>2. ASSUME NEW c \in Shared, handle_prefetch(c)
      PROVE  PortStep
  <2> DEFINE p == Head(pq[c])
  <2>1. p.address \in Addresses
    <3>1. pq[c] # <<>> /\ pq[c] \in Seq(Packet)
      BY <1>2 DEF handle_prefetch, HierarchyInv, PrefetchesOK
    <3>2. p \in Packet
      BY <3>1, ShorterSequence
    <3> QED BY <3>2 DEF Packet
  <2>2. /\ wr' = wr
        /\ \/ rd' = rd
           \/ /\ c # "L2C" /\ Waiting(mshr, c, p.address) = {}
              /\ read_memory(MissInto(mshr, c, p), p.address)
    BY <1>2 DEF handle_prefetch
  <2> HIDE DEF p
  <2>3. CASE rd' = rd
    BY <2>2, <2>3 DEF PortStep, Port!vars
  <2>4. CASE /\ c # "L2C" /\ Waiting(mshr, c, p.address) = {}
             /\ read_memory(MissInto(mshr, c, p), p.address)
    <3>1. c = "LLC"
      BY <2>4 DEF Shared
    <3> QED BY <2>1, <2>2, <2>4, <3>1, PortRead
  <2> QED BY <2>2, <2>3, <2>4
<1>3. CASE walked
  BY <1>3 DEF walked, PortStep, Port!vars
<1>4. CASE \E a \in Addresses : memory_returns(a)
  BY <1>4 DEF memory_returns, PortStep, Port!Next, Port!ReturnRead
<1>5. CASE \E a \in Addresses : memory_writes(a)
  BY <1>5 DEF memory_writes, PortStep, Port!Next, Port!CompleteWrite
<1> QED BY <1>1, <1>2, <1>3, <1>4, <1>5 DEF Lookups

LEMMA RequestsUsePort == Requests => PortStep
<1>1. Requests => rd' = rd /\ wr' = wr
  BY DEF Requests, read, write, prefetch, walk
<1> QED BY <1>1 DEF PortStep, Port!vars

-----------------------------------------------------------------------------
(* The theorems about misses in the exclusive hierarchy *)

\* The inductive invariant of the misses: whoever waits for a block is named by
\* one packet below, which is in one place; reads and misses are well formed,
\* one for a block; and LLC waits for exactly what memory was asked for (add_rq,
\* add_pq, handle_read, handle_prefetch, handle_fill and return_data of cache.cc).
THEOREM MissesInvariance == Spec => [](HierarchyInv /\ MissesInv)
<1>1. Init => HierarchyInv /\ MissesInv
  BY HierarchyStarts, MissesStart
<1>2. HierarchyInv /\ HierarchyInv' /\ MissesInv /\ [Next]_vars => MissesInv'
  <2> SUFFICES ASSUME HierarchyInv, MissesInv, [Next]_vars PROVE MissesInv'
    OBVIOUS
  <2>1. CASE Requests
    BY <2>1, RequestsCarried
  <2>2. CASE \E x, y \in Blocks \cup {0} : translation_fill(x, y)
    BY <2>2, MissesStutter DEF translation_fill
  <2>3. ASSUME NEW c \in Caches, handle_fill(c)
        PROVE  MissesInv'
    <3>1. PICK e \in mshr[c] :
                 /\ e.returned /\ mshr' = Answer([mshr EXCEPT ![c] = @ \ {e}], c, e)
                 /\ rq' = rq /\ pq' = pq /\ rd' = rd
      BY <2>3 DEF handle_fill
    <3> QED BY <3>1, FillCarried
  <2>4. CASE \E c \in Shared : handle_writeback(c)
    BY <2>4, MissesStutter DEF handle_writeback
  <2>5. CASE Lookups
    BY <2>5, LookupsCarried
  <2>6. CASE UNCHANGED vars
    BY <2>6, MissesStutter DEF vars
  <2> QED BY <2>1, <2>2, <2>3, <2>4, <2>5, <2>6 DEF Next, Handlers
<1>3. Spec => []HierarchyInv
  BY HierarchyInvariance
<1> QED BY <1>1, <1>2, <1>3, PTL DEF Spec

\* No request is lost and no answer comes for nothing, at any level and for any
\* sizes that satisfy QueuesCoverMisses: add_rq never has to refuse a read
\* (cache.cc:1784, 1794), and return_data never aborts (cache.cc:3868-3878).
THEOREM MissesAreCarried == Spec => []MissesCarried
BY MissesInvariance, CarriedFromInvariant, PTL

\* LLC keeps to the contract of memory: it never asks for a block again that it
\* waits for, nor for one whose writeback waits (handle_read and handle_fill of
\* cache.cc with add_rq and add_wq of dram_controller.cc).
THEOREM CachesUseMemoryPort == Spec => UsesMemoryPort
<1>1. Init => Port!Init
  BY DEF Init, Port!Init
<1>2. HierarchyInv /\ HierarchyInv' /\ MissesInv /\ [Next]_vars => [Port!Next]_(Port!vars)
  <2> SUFFICES ASSUME HierarchyInv, HierarchyInv', MissesInv, [Next]_vars
               PROVE  PortStep
    BY DEF PortStep
  <2>1. CASE Requests
    BY <2>1, RequestsUsePort
  <2>2. CASE \E x, y \in Blocks \cup {0} : translation_fill(x, y)
    BY <2>2 DEF translation_fill, PortStep, Port!vars
  <2>3. wr' \subseteq Addresses
    BY DEF HierarchyInv
  <2>4. ASSUME NEW c \in Caches, handle_fill(c)
        PROVE  PortStep
    <3>1. PICK f : evict(c, f, wq) /\ rd' = rd
      BY <2>4 DEF handle_fill
    <3> QED BY <2>3, <3>1, PortEvict
  <2>5. ASSUME NEW c \in Shared, handle_writeback(c)
        PROVE  PortStep
    <3>1. rd' = rd /\ (wr' = wr \/ \E f, q : evict(c, f, q))
      BY <2>5 DEF handle_writeback
    <3>2. CASE wr' = wr
      BY <3>1, <3>2 DEF PortStep, Port!vars
    <3>3. CASE \E f, q : evict(c, f, q)
      BY <2>3, <3>1, <3>3, PortEvict
    <3> QED BY <3>1, <3>2, <3>3
  <2>6. CASE Lookups
    BY <2>6, LookupsUsePort
  <2>7. CASE UNCHANGED vars
    BY <2>7 DEF vars, PortStep, Port!vars
  <2> QED BY <2>1, <2>2, <2>4, <2>5, <2>6, <2>7 DEF Next, Handlers
<1>3. Spec => [](HierarchyInv /\ MissesInv)
  BY MissesInvariance
<1> QED BY <1>1, <1>2, <1>3, PTL DEF Spec, UsesMemoryPort, Port!Spec

-----------------------------------------------------------------------------
(* The lines and the misses of the L1s                                     *)

\* A line of an L1 lies in the set of its block, alone.
SingleLines(b) ==
  \A c \in L1s : \A f, g \in Frames(c) : b[c][f].address # 0 =>
    /\ f \in SetOf(c, b[c][f].address)
    /\ b[c][g].address = b[c][f].address => f = g

\* An L1 has no miss for a block it holds.
NoMissHeld(b, m) ==
  \A c \in L1s : \A f \in Frames(c) : b[c][f].address \notin BlocksOf(m[c])

L1Inv == SingleLines(block) /\ NoMissHeld(block, mshr)

\* Lines may be lost, those of L1s in particular, and misses end.
LessHeld(b, n) ==
  \A c \in Caches : \A f \in Frames(c) : n[c][f].address \in {0, b[c][f].address}
FewerLines(b, n) ==
  \A c \in L1s : \A f \in Frames(c) : n[c][f].address \in {0, b[c][f].address}
FewerMisses(m, n) == \A c \in L1s : BlocksOf(n[c]) \subseteq BlocksOf(m[c])

LEMMA FewerIsSingle ==
  ASSUME NEW m, GoodMisses(m), NEW n, NEW b, NEW nb, SingleLines(b), NoMissHeld(b, m),
         FewerLines(b, nb), FewerMisses(m, n)
  PROVE  SingleLines(nb) /\ NoMissHeld(nb, n)
<1>1. \A c \in L1s : 0 \notin BlocksOf(m[c])
  BY Sizes, Names DEF GoodMisses, BlocksOf, Packet
<1>2. SingleLines(nb)
  BY DEF SingleLines, FewerLines
<1>3. NoMissHeld(nb, n)
  BY <1>1 DEF NoMissHeld, FewerLines, FewerMisses
<1> QED BY <1>2, <1>3

LEMMA SameIsFewer ==
  /\ \A b : FewerLines(b, b)
  /\ \A m : FewerMisses(m, m)
  /\ \A m, n, o : FewerMisses(m, n) /\ FewerMisses(n, o) => FewerMisses(m, o)
  /\ \A b, n, o : FewerLines(b, n) /\ FewerLines(n, o) => FewerLines(b, o)
BY DEF FewerLines, FewerMisses

\* Lines change as follows.
LEMMA InvalidateLoses ==
  ASSUME NEW st, NEW b, LinesOK(b, st), NEW S, NEW a
  PROVE  /\ LessHeld(b, InvalidateIn(b, S, a))
         /\ \A k \in Caches : k \notin S => InvalidateIn(b, S, a)[k] = b[k]
<1> DEFINE n == InvalidateIn(b, S, a)
<1>1. ASSUME NEW c \in Caches, NEW f \in Frames(c)
      PROVE  n[c][f].address \in {0, b[c][f].address}
  <2>0. c \in DOMAIN b /\ f \in DOMAIN b[c]
    BY DEF LinesOK
  <2>1. n[c] = b[c] \/ n[c] = Invalidate(b, c, a)[c]
    BY <2>0 DEF InvalidateIn
  <2>2. Invalidate(b, c, a)[c] = b[c]
          \/ \E g : Invalidate(b, c, a)[c] = [b[c] EXCEPT ![g] = NoLine]
    <3>1. CASE Holding(b, c, a) = {}
      BY <3>1 DEF Invalidate
    <3>2. CASE Holding(b, c, a) # {}
      <4> DEFINE h == FirstWay(Holding(b, c, a))
      <4>1. Invalidate(b, c, a) = [b EXCEPT ![c][h] = NoLine]
        BY <3>2 DEF Invalidate
      <4> HIDE DEF h
      <4>2. Invalidate(b, c, a)[c] = [b[c] EXCEPT ![h] = NoLine]
        BY <2>0, <4>1
      <4> QED BY <4>2
    <3> QED BY <3>1, <3>2
  <2>3. \A g : [b[c] EXCEPT ![g] = NoLine][f].address \in {0, b[c][f].address}
    BY <2>0 DEF NoLine
  <2> HIDE DEF n
  <2> QED BY <2>1, <2>2, <2>3
<1>2. \A k \in Caches : k \notin S => n[k] = b[k]
  BY DEF InvalidateIn
<1> QED BY <1>1, <1>2 DEF LessHeld

LEMMA InvalidateFewer ==
  ASSUME NEW st, NEW b, LinesOK(b, st), NEW S, NEW a
  PROVE  /\ FewerLines(b, InvalidateIn(b, S, a))
         /\ \A k \in L1s : k \notin S => InvalidateIn(b, S, a)[k] = b[k]
BY InvalidateLoses, Names DEF LessHeld, FewerLines

LEMMA MarkHolds ==
  ASSUME NEW st, LinesOK(block, st), NEW c \in Caches, NEW a
  PROVE  LessHeld(block, MarkDirty(c, a))
<1> DEFINE h == FirstWay(Holding(block, c, a))
           n == [block EXCEPT ![c][h].dirty = TRUE]
<1>1. MarkDirty(c, a) = n
  BY DEF MarkDirty
<1> HIDE DEF h
<1>2. ASSUME NEW k \in Caches, NEW f \in Frames(k)
      PROVE  n[k][f].address = block[k][f].address
  <2>1. k \in DOMAIN block /\ f \in DOMAIN block[k] /\ block[k][f] \in Line
    BY DEF LinesOK, Lines
  <2>2. n[k][f] = block[k][f] \/ n[k][f] = [block[k][f] EXCEPT !.dirty = TRUE]
    BY <2>1
  <2> HIDE DEF n
  <2> QED BY <2>1, <2>2 DEF Line
<1> QED BY <1>1, <1>2 DEF LessHeld

LEMMA MarkFewer ==
  ASSUME NEW st, LinesOK(block, st), NEW c \in Caches, NEW a
  PROVE  FewerLines(block, MarkDirty(c, a))
BY MarkHolds, Names DEF LessHeld, FewerLines

\* Frame f of cache c takes block a.
LEMMA TakeFewer ==
  ASSUME NEW st, NEW b, LinesOK(b, st), NEW c \in Caches, NEW f \in Frames(c), NEW a, NEW d
  PROVE  LET n == [b EXCEPT ![c][f] = [address |-> a, dirty |-> d]] IN
         /\ n[c][f].address = a
         /\ \A k \in L1s : \A g \in Frames(k) : k # c \/ g # f => n[k][g] = b[k][g]
<1>1. /\ c \in DOMAIN b /\ f \in DOMAIN b[c]
      /\ \A k \in L1s : k \in DOMAIN b
  BY Names DEF LinesOK
<1> QED BY <1>1

LEMMA FillFewer ==
  ASSUME NEW st, LinesOK(block, st), NEW c \in Caches, NEW f \in Frames(c), NEW a, NEW d
  PROVE  LET n == fill_cache(c, f, a, d) IN
         /\ n[c][f].address = a
         /\ \A k \in L1s : \A g \in Frames(k) : k # c \/ g # f =>
              n[k][g].address \in {0, block[k][g].address}
<1> DEFINE b == InvalidateIn(block, Caches \ {c}, a)
           n == [b EXCEPT ![c][f] = [address |-> a, dirty |-> d]]
<1>1. LinesOK(b, st) /\ FewerLines(block, b)
  BY LinesDropped, InvalidateFewer
<1>2. n = fill_cache(c, f, a, d)
  BY DEF fill_cache
<1> HIDE DEF b
<1>3. /\ n[c][f].address = a
      /\ \A k \in L1s : \A g \in Frames(k) : k # c \/ g # f => n[k][g] = b[k][g]
  BY <1>1, TakeFewer
<1> HIDE DEF n
<1>4. ASSUME NEW k \in L1s, NEW g \in Frames(k), k # c \/ g # f
      PROVE  n[k][g].address \in {0, block[k][g].address}
  BY <1>1, <1>3, <1>4 DEF FewerLines
<1> QED BY <1>2, <1>3, <1>4

\* A victim is in the set of the block it makes room for.
LEMMA VictimInSet ==
  ASSUME NEW c \in Caches, NEW a
  PROVE  find_victim(c, a) \subseteq SetOf(c, a) /\ SetOf(c, a) \subseteq Frames(c)
<1> DEFINE invalid == {f \in SetOf(c, a) : block[c][f].address = 0}
<1>1. invalid \subseteq SetOf(c, a) /\ SetOf(c, a) \subseteq Frames(c)
  BY DEF SetOf
<1>2. invalid # {} => FirstWay(invalid) \in invalid
  <2>1. invalid \subseteq Frames(c)
    BY <1>1
  <2> HIDE DEF invalid
  <2> QED BY <2>1, FirstWayIn
<1> QED BY <1>1, <1>2, Zenon DEF find_victim

\* An L1 fills a frame for a miss that is over.
LEMMA FillIsSingle ==
  ASSUME NEW m, GoodMisses(m), NEW n, NEW nb, SingleLines(block), NoMissHeld(block, m),
         FewerMisses(m, n), NEW c \in L1s, NEW e \in m[c], e.address \notin BlocksOf(n[c]),
         NEW f \in find_victim(c, e.address), nb[c][f].address = e.address,
         \A k \in L1s : \A g \in Frames(k) : k # c \/ g # f =>
           nb[k][g].address \in {0, block[k][g].address}
  PROVE  SingleLines(nb) /\ NoMissHeld(nb, n)
<1>1. /\ c \in Caches /\ c \in Requesters /\ f \in SetOf(c, e.address) /\ f \in Frames(c)
      /\ e.address \in BlocksOf(m[c])
      /\ \A k \in L1s : 0 \notin BlocksOf(m[k])
  BY Names, VictimInSet, Sizes DEF BlocksOf, GoodMisses, Packet
<1>2. \A g \in Frames(c) : block[c][g].address # e.address
  BY <1>1 DEF NoMissHeld
<1>3. ASSUME NEW k \in L1s, NEW g \in Frames(k), NEW h \in Frames(k), nb[k][g].address # 0
      PROVE  /\ g \in SetOf(k, nb[k][g].address)
             /\ nb[k][h].address = nb[k][g].address => g = h
  <2>1. CASE k = c /\ g = f
    <3>1. h # f => nb[k][h].address # e.address
      BY <1>1, <1>2, <2>1
    <3> QED BY <1>1, <2>1, <3>1
  <2>2. CASE k # c \/ g # f
    <3>1. nb[k][g].address = block[k][g].address
      BY <1>3, <2>2
    <3>2. g \in SetOf(k, nb[k][g].address)
      BY <1>3, <3>1 DEF SingleLines
    <3>3. CASE k = c /\ h = f
      BY <1>2, <2>2, <3>1, <3>2, <3>3
    <3>4. CASE k # c \/ h # f
      <4>1. nb[k][h].address \in {0, block[k][h].address}
        BY <3>4
      <4> QED BY <1>3, <3>1, <3>2, <4>1 DEF SingleLines
    <3> QED BY <3>3, <3>4
  <2> QED BY <2>1, <2>2
<1>4. SingleLines(nb)
  BY <1>3 DEF SingleLines
<1>5. ASSUME NEW k \in L1s, NEW g \in Frames(k)
      PROVE  nb[k][g].address \notin BlocksOf(n[k])
  <2>1. CASE k = c /\ g = f
    BY <2>1
  <2>2. CASE k # c \/ g # f
    <3>1. nb[k][g].address \in {0, block[k][g].address}
      BY <2>2
    <3> QED BY <1>1, <3>1 DEF NoMissHeld, FewerMisses
  <2> QED BY <2>1, <2>2
<1> QED BY <1>4, <1>5 DEF NoMissHeld

\* Misses change as follows.
LEMMA ReturnedFewer ==
  ASSUME NEW m, GoodMisses(m), NEW S, NEW a
  PROVE  FewerMisses(m, return_data(m, S, a))
<1> SUFFICES ASSUME NEW c \in L1s, NEW e \in return_data(m, S, a)[c]
             PROVE  \E d \in m[c] : d.address = e.address
  BY DEF FewerMisses, BlocksOf
<1>1. c \in Requesters /\ m[c] \subseteq Packet
  BY Names DEF GoodMisses
<1>2. \E d \in m[c] : e = d \/ e = [d EXCEPT !.returned = TRUE]
  BY <1>1 DEF return_data
<1> QED BY <1>1, <1>2 DEF Packet

LEMMA AnsweredFewer ==
  ASSUME NEW m, GoodMisses(m), NEW c, NEW p
  PROVE  /\ FewerMisses(m, Answer(m, c, p)) /\ FewerMisses(m, AnswerFlagged(m, c, p))
         /\ FewerMisses(m, Forwarded(m, c, p))
BY ReturnedFewer, SameIsFewer DEF Answer, AnswerFlagged, Forwarded

\* What happens to the MSHRs of another cache is nothing to the L1s.
LEMMA OtherFewer ==
  ASSUME NEW m, GoodMisses(m), NEW c, c \notin L1s, NEW p, NEW merge, NEW e
  PROVE  /\ FewerMisses(m, add_mshr(m, c, p)) /\ FewerMisses(m, Merged(m, c, p, merge))
         /\ FewerMisses(m, [m EXCEPT ![c] = @ \ {e}])
<1>1. L1s \subseteq DOMAIN m
  BY Names DEF GoodMisses
<1>2. \A k \in L1s : /\ add_mshr(m, c, p)[k] = m[k] /\ Merged(m, c, p, merge)[k] = m[k]
                     /\ [m EXCEPT ![c] = @ \ {e}][k] = m[k]
  BY <1>1 DEF add_mshr, Merged
<1> QED BY <1>2 DEF FewerMisses

\* A merge leaves the blocks of an MSHR file as they are.
LEMMA MergedFewer ==
  ASSUME NEW m, GoodMisses(m), NEW c, NEW p, NEW merge,
         \A e \in m[c] : e.address = p.address => merge[e].address = p.address
  PROVE  FewerMisses(m, Merged(m, c, p, merge))
<1> DEFINE n == Merged(m, c, p, merge)
<1>1. L1s \subseteq DOMAIN m
  BY Names DEF GoodMisses
<1>2. ASSUME NEW k \in L1s, NEW d \in n[k]
      PROVE  \E e \in m[k] : e.address = d.address
  <2>1. CASE k # c
    BY <1>1, <1>2, <2>1 DEF Merged
  <2>2. CASE k = c
    <3>1. n[c] = {IF e.address = p.address THEN merge[e] ELSE e : e \in m[c]}
      BY <1>1, <2>2 DEF Merged
    <3> HIDE DEF n
    <3> QED BY <1>2, <2>2, <3>1
  <2> QED BY <2>1, <2>2
<1> HIDE DEF n
<1>3. FewerMisses(m, n)
  BY <1>2 DEF FewerMisses, BlocksOf
<1> QED BY <1>3 DEF n

\* An L1 gets a miss for a block that it does not hold.
LEMMA NewMissNotHeld ==
  ASSUME NEW m, GoodMisses(m), SingleLines(block), NoMissHeld(block, m),
         NEW c \in L1s, NEW p \in Packet, ~check_hit(c, p.address)
  PROVE  NoMissHeld(block, add_mshr(m, c, p))
<1> DEFINE n == add_mshr(m, c, p)
           a == p.address
<1>1. L1s \subseteq DOMAIN m
  BY Names DEF GoodMisses
<1>2. \A k \in L1s : k # c => n[k] = m[k]
  BY <1>1 DEF add_mshr
<1>3. BlocksOf(n[c]) = BlocksOf(m[c]) \cup {a}
  <2>1. n[c] = m[c] \cup {[p EXCEPT !.returned = FALSE]}
    BY <1>1 DEF add_mshr
  <2>2. [p EXCEPT !.returned = FALSE].address = a
    BY DEF Packet
  <2> HIDE DEF n, a
  <2> QED BY <2>1, <2>2 DEF BlocksOf
<1>4. a # 0
  BY Sizes DEF Packet
<1>5. \A f \in Frames(c) : block[c][f].address # a
  <2> SUFFICES ASSUME NEW f \in Frames(c), block[c][f].address = a
               PROVE  FALSE
    OBVIOUS
  <2>1. f \in SetOf(c, a)
    BY <1>4 DEF SingleLines
  <2> QED BY <2>1 DEF check_hit, Holding
<1> HIDE DEF n, a
<1>6. NoMissHeld(block, n)
  BY <1>2, <1>3, <1>5 DEF NoMissHeld
<1> QED BY <1>6 DEF n

\* Whatever makes no line and no miss of an L1 keeps its lines single.
LEMMA FewerKeeps ==
  ASSUME L1Inv, GoodMisses(mshr), FewerLines(block, block'), FewerMisses(mshr, mshr')
  PROVE  L1Inv'
BY FewerIsSingle DEF L1Inv

\* A new miss of L1 cache c is offered to L2C.
LEMMA NewMissKeeps ==
  ASSUME L1Inv, GoodMisses(mshr), NEW c \in L1s, NEW p \in Packet,
         ~check_hit(c, p.address), Waiting(mshr, c, p.address) = {},
         mshr' = Forwarded(add_mshr(mshr, c, p), "L2C", p), block' = block
  PROVE  L1Inv'
<1> DEFINE n == add_mshr(mshr, c, p)
<1>1. c \in Requesters /\ c \notin Shared
  BY Names DEF L1s, Shared
<1>2. GoodMisses(n)
  BY <1>1, AddedMiss
<1>3. NoMissHeld(block, n)
  BY NewMissNotHeld DEF L1Inv
<1> HIDE DEF n
<1>4. FewerMisses(n, mshr') /\ FewerLines(block, block')
  BY <1>2, AnsweredFewer, SameIsFewer DEF n
<1> QED BY <1>2, <1>3, <1>4, FewerIsSingle DEF L1Inv

-----------------------------------------------------------------------------
(* Every request and every lookup keeps the lines and misses of the L1s *)

LEMMA MissSingle ==
  ASSUME MissesInv, L1Inv, NEW c \in L1s, NEW p \in Packet, NEW merge,
         \A e \in mshr[c] : merge[e] \in {MergeMiss(e, p), MergeStore(e, p)},
         Miss(c, p, merge), block' = block
  PROVE  L1Inv'
<1>0. GoodMisses(mshr) /\ mshr[c] \subseteq Packet
  BY Names DEF MissesInv, GoodMisses
<1>1. CASE mshr' = Merged(mshr, c, p, merge)
  <2>1. ASSUME NEW e \in mshr[c], e.address = p.address
        PROVE  merge[e].address = p.address
    <3>1. e \in Packet /\ merge[e] \in {MergeMiss(e, p), MergeStore(e, p), Lowered(e, p)}
      BY <1>0
    <3> QED BY <2>1, <3>1, MergesKeepMiss
  <2>2. FewerMisses(mshr, mshr') /\ FewerLines(block, block')
    BY <1>0, <1>1, <2>1, MergedFewer, SameIsFewer
  <2> QED BY <1>0, <2>2, FewerKeeps
<1>2. CASE /\ Waiting(mshr, c, p.address) = {}
           /\ add_rq("L2C", p, add_mshr(mshr, c, p), rq)
  <2>1. ~check_hit(c, p.address) /\ mshr' = Forwarded(add_mshr(mshr, c, p), "L2C", p)
    BY <1>2 DEF Miss, add_rq
  <2> QED BY <1>0, <1>2, <2>1, NewMissKeeps
<1> QED BY <1>1, <1>2 DEF Miss

LEMMA ReadSingle ==
  ASSUME MissesInv, L1Inv, NEW c \in L1s, NEW a \in Blocks, read(c, a)
  PROVE  L1Inv'
<1> DEFINE p == Demand(c, a, "LOAD")
           merge == [e \in mshr[c] |-> MergeMiss(e, p)]
<1>1. p \in Packet
  <2>1. c \in Above("L2C") /\ c # "PTW"
    BY SendersBelow DEF L1s
  <2> QED BY <2>1, DemandsAreTheirs, WellFormedPackets
<1>2. \A e \in mshr[c] : merge[e] \in {MergeMiss(e, p), MergeStore(e, p)}
  OBVIOUS
<1>3. Miss(c, p, merge) /\ block' = block
  BY DEF read
<1> HIDE DEF p, merge
<1> QED BY <1>1, <1>2, <1>3, MissSingle

LEMMA WriteSingle ==
  ASSUME HierarchyInv, MissesInv, L1Inv, NEW a \in Stored, write(a)
  PROVE  L1Inv'
<1> DEFINE p == Demand("L1D", a, "RFO")
           merge == [e \in mshr["L1D"] |-> MergeStore(e, p)]
<1>1. p \in Packet /\ "L1D" \in L1s /\ "L1D" \in Caches
  <2>1. "L1D" \in Above("L2C") /\ a \in Blocks
    BY SendersBelow, HierarchyAssumption
  <2> QED BY <2>1, DemandsAreTheirs, WellFormedPackets DEF L1s, Caches
<1>2. \A e \in mshr["L1D"] : merge[e] \in {MergeMiss(e, p), MergeStore(e, p)}
  OBVIOUS
<1>3. \/ block' = MarkDirty("L1D", a) /\ UNCHANGED mshr
      \/ Miss("L1D", p, merge) /\ UNCHANGED block
  BY DEF write
<1> HIDE DEF p, merge
<1>4. CASE block' = MarkDirty("L1D", a) /\ UNCHANGED mshr
  <2>1. FewerLines(block, block') /\ FewerMisses(mshr, mshr')
    BY <1>1, <1>4, MarkFewer, SameIsFewer DEF HierarchyInv
  <2> QED BY <2>1, FewerKeeps DEF MissesInv
<1>5. CASE Miss("L1D", p, merge) /\ UNCHANGED block
  BY <1>1, <1>2, <1>5, MissSingle
<1> QED BY <1>3, <1>4, <1>5

LEMMA PrefetchSingle ==
  ASSUME MissesInv, L1Inv, NEW c \in L1s, NEW a \in Blocks,
         NEW level \in {FILL_L1, FILL_L2}, c = "L1I" => level = FILL_L1,
         prefetch(c, a, level)
  PROVE  L1Inv'
<1> DEFINE p == Prefetch(c, a, level)
           merge == [e \in mshr[c] |-> Lowered(e, p)]
<1>0. /\ c \in {"L1I", "L1D", "L2C"} /\ c # "L2C"
      /\ GoodMisses(mshr) /\ mshr[c] \subseteq Packet
  BY Names DEF L1s, MissesInv, GoodMisses
<1>1. p \in Packet /\ p.address = a
  BY <1>0, PrefetchesAreTheirs, WellFormedPackets
<1>2. \A e \in mshr[c] : merge[e] = Lowered(e, p)
  OBVIOUS
<1>3. /\ block' = block /\ ~check_hit(c, a)
      /\ \/ mshr' = Merged(mshr, c, p, merge)
         \/ /\ Waiting(mshr, c, a) = {}
            /\ mshr' = Forwarded(MissInto(mshr, c, p), "L2C", p)
  BY DEF prefetch, add_pq
<1> HIDE DEF p, merge
<1>4. FewerLines(block, block')
  BY <1>3, SameIsFewer
<1>5. CASE mshr' = Merged(mshr, c, p, merge)
  <2>1. ASSUME NEW e \in mshr[c], e.address = p.address
        PROVE  merge[e].address = p.address
    BY <1>0, <1>1, <1>2, <2>1, MergesKeepMiss
  <2>2. FewerMisses(mshr, mshr')
    BY <1>0, <1>5, <2>1, MergedFewer
  <2> QED BY <1>0, <1>4, <2>2, FewerKeeps
<1>6. CASE Waiting(mshr, c, a) = {} /\ mshr' = Forwarded(mshr, "L2C", p)
  <2>1. FewerMisses(mshr, mshr')
    BY <1>0, <1>6, AnsweredFewer
  <2> QED BY <1>0, <1>4, <2>1, FewerKeeps
<1>7. CASE /\ Waiting(mshr, c, a) = {}
           /\ mshr' = Forwarded(add_mshr(mshr, c, p), "L2C", p)
  BY <1>0, <1>1, <1>3, <1>7, NewMissKeeps
<1> QED BY <1>3, <1>6, <1>5, <1>7 DEF MissInto

\* A request of a cache or walker that is no L1 goes to some cache below.
LEMMA OtherMissFewer ==
  ASSUME NEW m, GoodMisses(m), NEW c \in Requesters, c \notin L1s, NEW p \in Packet,
         c \in Shared => p \in WellFormed, Waiting(m, c, p.address) = {}
  PROVE  /\ \A k : FewerMisses(m, Forwarded(add_mshr(m, c, p), k, p))
         /\ read_memory(add_mshr(m, c, p), p.address) => FewerMisses(m, mshr')
<1> DEFINE n == add_mshr(m, c, p)
<1>1. GoodMisses(n) /\ FewerMisses(m, n)
  BY AddedMiss, OtherFewer
<1> HIDE DEF n
<1>2. \A k : FewerMisses(n, Forwarded(n, k, p))
  BY <1>1, AnsweredFewer
<1>3. read_memory(n, p.address) => FewerMisses(n, mshr')
  BY <1>1, ReturnedFewer, SameIsFewer DEF read_memory
<1>4. \A o : FewerMisses(n, o) => FewerMisses(m, o)
  BY <1>1, SameIsFewer
<1> QED BY <1>2, <1>3, <1>4 DEF n

LEMMA WalkSingle ==
  ASSUME MissesInv, L1Inv, NEW a \in TableBlocks, walk(a)
  PROVE  L1Inv'
<1> DEFINE p == Demand("PTW", a, "LOAD_TRANSLATION")
<1>1. /\ "PTW" \in Above("L2C") /\ "PTW" \in Requesters /\ "PTW" \notin L1s
      /\ "PTW" \notin Shared
  BY SendersBelow, Names DEF L1s, Shared
<1>2. p \in Packet
  BY <1>1, DemandsAreTheirs, WellFormedPackets
<1>3. /\ mshr' = Forwarded(add_mshr(mshr, "PTW", p), "L2C", p)
      /\ mshr["PTW"] = {} /\ block' = block
  BY DEF walk, add_rq
<1> HIDE DEF p
<1>4. GoodMisses(mshr) /\ Waiting(mshr, "PTW", p.address) = {}
  BY <1>3 DEF MissesInv, Waiting
<1>5. FewerMisses(mshr, mshr') /\ FewerLines(block, block')
  BY <1>1, <1>2, <1>3, <1>4, OtherMissFewer, SameIsFewer
<1> QED BY <1>4, <1>5, FewerKeeps

LEMMA RequestsSingle ==
  ASSUME HierarchyInv, MissesInv, L1Inv, Requests
  PROVE  L1Inv'
<1>1. Code \subseteq Blocks /\ "L1I" \in L1s /\ "L1D" \in L1s /\ "L1I" # "L1D"
      /\ FILL_L1 \in {FILL_L1, FILL_L2}
  BY HierarchyAssumption DEF L1s
<1>2. CASE \E a \in Code : read("L1I", a) \/ prefetch("L1I", a, FILL_L1)
  BY <1>1, <1>2, ReadSingle, PrefetchSingle
<1>3. CASE \E a \in Blocks : read("L1D", a)
  BY <1>1, <1>3, ReadSingle
<1>4. CASE \E a \in Stored : write(a)
  BY <1>4, WriteSingle
<1>5. CASE \E a \in Blocks, level \in {FILL_L1, FILL_L2} : prefetch("L1D", a, level)
  BY <1>1, <1>5, PrefetchSingle
<1>6. CASE \E a \in TableBlocks : walk(a)
  BY <1>6, WalkSingle
<1> QED BY <1>2, <1>3, <1>4, <1>5, <1>6 DEF Requests

\* A lookup in a shared cache makes no miss of an L1.
LEMMA LookupFewer ==
  ASSUME MissesInv, NEW c \in Shared, handle_read(c) \/ handle_prefetch(c)
  PROVE  FewerMisses(mshr, mshr') /\ block' = block
<1>0. /\ GoodMisses(mshr) /\ c \in Requesters /\ c \notin L1s
      /\ ReadPackets \in SUBSET Packet /\ PrefetchPackets \in SUBSET Packet
  BY Names, WellFormedPackets DEF MissesInv, L1s, Shared
<1>1. ASSUME NEW p \in WellFormed, NEW merge,
             \/ mshr' = Answer(mshr, c, p) \/ mshr' = AnswerFlagged(mshr, c, p)
             \/ mshr' = Merged(mshr, c, p, merge)
             \/ /\ Waiting(mshr, c, p.address) = {}
                /\ \/ \E k : \/ mshr' = Forwarded(add_mshr(mshr, c, p), k, p)
                             \/ mshr' = Forwarded(mshr, k, p)
                   \/ read_memory(add_mshr(mshr, c, p), p.address)
                   \/ read_memory(mshr, p.address)
      PROVE  FewerMisses(mshr, mshr')
  <2>1. p \in Packet
    BY WellFormedPackets
  <2>2. /\ \A k : FewerMisses(mshr, Answer(mshr, k, p))
        /\ \A k : FewerMisses(mshr, AnswerFlagged(mshr, k, p))
        /\ \A k : FewerMisses(mshr, Forwarded(mshr, k, p))
    BY <1>0, AnsweredFewer
  <2>3. FewerMisses(mshr, Merged(mshr, c, p, merge))
    BY <1>0, OtherFewer
  <2>4. read_memory(mshr, p.address) => FewerMisses(mshr, mshr')
    BY <1>0, ReturnedFewer, SameIsFewer DEF read_memory
  <2>5. Waiting(mshr, c, p.address) = {} =>
          /\ \A k : FewerMisses(mshr, Forwarded(add_mshr(mshr, c, p), k, p))
          /\ read_memory(add_mshr(mshr, c, p), p.address) => FewerMisses(mshr, mshr')
    BY <1>0, <2>1, OtherMissFewer
  <2> QED BY <1>1, <2>2, <2>3, <2>4, <2>5
<1>2. CASE handle_read(c)
  <2> DEFINE p == Head(rq[c])
             merge == [e \in mshr[c] |-> MergeMiss(e, p)]
  <2>1. rq[c] # <<>>
    BY <1>2 DEF handle_read
  <2>2. p \in WellFormed
    BY <1>0, <2>1, TakenFromQueue, WellFormedPackets DEF MissesInv
  <2>3. /\ block' = block
        /\ \/ mshr' = Answer(mshr, c, p)
           \/ mshr' = Merged(mshr, c, p, merge)
           \/ /\ Waiting(mshr, c, p.address) = {}
              /\ \/ mshr' = Forwarded(add_mshr(mshr, c, p), "LLC", p)
                 \/ read_memory(add_mshr(mshr, c, p), p.address)
    BY <1>2 DEF handle_read, add_rq
  <2> HIDE DEF p, merge
  <2> QED BY <1>1, <2>2, <2>3
<1>3. CASE handle_prefetch(c)
  <2> DEFINE p == Head(pq[c])
             merge == [e \in mshr[c] |-> Lowered(e, p)]
  <2>1. pq[c] # <<>>
    BY <1>3 DEF handle_prefetch
  <2>2. p \in WellFormed
    BY <1>0, <2>1, TakenFromQueue, WellFormedPackets DEF MissesInv
  <2>3. /\ block' = block
        /\ \/ mshr' = AnswerFlagged(mshr, c, p)
           \/ mshr' = Merged(mshr, c, p, merge)
           \/ /\ Waiting(mshr, c, p.address) = {}
              /\ \/ mshr' = Forwarded(MissInto(mshr, c, p), "LLC", p)
                 \/ read_memory(MissInto(mshr, c, p), p.address)
    BY <1>3 DEF handle_prefetch
  <2>4. MissInto(mshr, c, p) = mshr \/ MissInto(mshr, c, p) = add_mshr(mshr, c, p)
    BY DEF MissInto
  <2> HIDE DEF p, merge
  <2> QED BY <1>1, <2>2, <2>3, <2>4
<1> QED BY <1>2, <1>3

LEMMA LookupsSingle ==
  ASSUME MissesInv, L1Inv, Lookups
  PROVE  L1Inv'
<1>0. GoodMisses(mshr)
  BY DEF MissesInv
<1>1. FewerMisses(mshr, mshr') /\ block' = block
  <2>1. CASE \E c \in Shared : handle_read(c) \/ handle_prefetch(c)
    BY <2>1, LookupFewer
  <2>2. CASE walked
    <3>1. PICK e \in mshr["PTW"] : mshr' = [mshr EXCEPT !["PTW"] = @ \ {e}]
      BY <2>2 DEF walked
    <3>2. "PTW" \notin L1s
      BY DEF L1s
    <3> QED BY <1>0, <2>2, <3>1, <3>2, OtherFewer DEF walked
  <2>3. CASE \E a \in Addresses : memory_returns(a)
    BY <1>0, <2>3, ReturnedFewer DEF memory_returns
  <2>4. CASE \E a \in Addresses : memory_writes(a)
    BY <2>4, SameIsFewer DEF memory_writes
  <2> QED BY <2>1, <2>2, <2>3, <2>4 DEF Lookups
<1> QED BY <1>0, <1>1, FewerKeeps, SameIsFewer

\* A miss of cache c ends: when c is an L1, it has no miss for the block any
\* more and answers nobody.
LEMMA EndedMiss ==
  ASSUME MissesInv, NEW c \in Caches, NEW e \in mshr[c], e.returned,
         mshr' = Answer([mshr EXCEPT ![c] = @ \ {e}], c, e)
  PROVE  /\ FewerMisses(mshr, mshr')
         /\ c \in L1s => e.address \notin BlocksOf(mshr'[c])
<1> DEFINE m == [mshr EXCEPT ![c] = @ \ {e}]
<1>0. c \in Requesters /\ GoodMisses(mshr) /\ L1s \subseteq DOMAIN mshr
  BY Names DEF MissesInv, GoodMisses
<1>1. GoodMisses(m)
  BY <1>0, RemovedMiss
<1>2. \A k \in L1s : m[k] \subseteq mshr[k]
  BY <1>0
<1>3. FewerMisses(mshr, m)
  BY <1>2 DEF FewerMisses, BlocksOf
<1>4. FewerMisses(m, Answer(m, c, e))
  <2> HIDE DEF m
  <2> QED BY <1>1, AnsweredFewer
<1>5. FewerMisses(mshr, mshr')
  BY <1>3, <1>4, SameIsFewer DEF m
<1>6. ASSUME c \in L1s
      PROVE  e.address \notin BlocksOf(mshr'[c])
  <2>1. m[c] = mshr[c] \ {e} /\ SingleMisses(mshr[c])
    BY <1>0, <1>6 DEF GoodMisses
  <2> HIDE DEF m
  <2>2. e.address \notin BlocksOf(m[c])
    BY <2>1 DEF SingleMisses, BlocksOf
  <2>3. FewerMisses(m, mshr')
    BY <1>4 DEF m
  <2> QED BY <1>6, <2>2, <2>3 DEF FewerMisses
<1> QED BY <1>5, <1>6

-----------------------------------------------------------------------------
(* The lines of the L1s in the exclusive hierarchy *)

LEMMA FillSingle ==
  ASSUME HierarchyInv, MissesInv, L1Inv, NEW c \in Caches, handle_fill(c)
  PROVE  L1Inv'
<1> DEFINE Fills(e, f) ==
      /\ e.returned
      /\ block' = IF Bypassed(c, e)
                  THEN IF c = "L2C" THEN InvalidateIn(block, Shared, e.address)
                       ELSE block
                  ELSE fill_cache(c, f, e.address, c = "L1D" /\ e.type = "RFO")
      /\ mshr' = Answer([mshr EXCEPT ![c] = @ \ {e}], c, e)
<1>0. PICK e \in mshr[c] : \E f \in find_victim(c, e.address) : Fills(e, f)
  BY DEF handle_fill
<1>1. PICK f \in find_victim(c, e.address) : Fills(e, f)
  BY <1>0
<1>2. /\ f \in Frames(c) /\ e \in Packet /\ GoodMisses(mshr)
      /\ LinesOK(block, stored)
  BY Names, VictimInSet DEF HierarchyInv, MissesInv, GoodMisses
<1>3. /\ FewerMisses(mshr, mshr')
      /\ c \in L1s => e.address \notin BlocksOf(mshr'[c])
  BY <1>1, EndedMiss
<1>4. CASE Bypassed(c, e)
  <2>1. FewerLines(block, InvalidateIn(block, Shared, e.address)) /\ FewerLines(block, block)
    BY <1>2, InvalidateFewer, SameIsFewer
  <2>2. FewerLines(block, block')
    BY <1>1, <1>4, <2>1
  <2> QED BY <1>2, <1>3, <2>2, FewerKeeps
<1>5. CASE ~Bypassed(c, e)
  <2> DEFINE d == c = "L1D" /\ e.type = "RFO"
  <2>1. block' = fill_cache(c, f, e.address, d)
    BY <1>1, <1>5
  <2> HIDE DEF d
  <2>2. /\ block'[c][f].address = e.address
        /\ \A k \in L1s : \A g \in Frames(k) : k # c \/ g # f =>
             block'[k][g].address \in {0, block[k][g].address}
    BY <1>2, <2>1, FillFewer
  <2>3. CASE c \in L1s
    <3>1. SingleLines(block) /\ NoMissHeld(block, mshr)
      BY DEF L1Inv
    <3>2. SingleLines(block') /\ NoMissHeld(block', mshr')
      BY <1>2, <1>3, <2>2, <2>3, <3>1, FillIsSingle
    <3> QED BY <3>2 DEF L1Inv
  <2>4. CASE c \notin L1s
    <3>1. FewerLines(block, block')
      BY <2>2, <2>4 DEF FewerLines
    <3> QED BY <1>2, <1>3, <3>1, FewerKeeps
  <2> QED BY <2>3, <2>4
<1> QED BY <1>4, <1>5

LEMMA WritebackSingle ==
  ASSUME HierarchyInv, MissesInv, L1Inv, NEW c \in Shared, handle_writeback(c)
  PROVE  L1Inv'
<1> DEFINE a == Head(wq[c])
<1>0. c \in Caches /\ c \notin L1s /\ GoodMisses(mshr) /\ LinesOK(block, stored)
  BY Names DEF L1s, Shared, HierarchyInv, MissesInv
<1>1. /\ mshr' = mshr
      /\ \/ block' = MarkDirty(c, a)
         \/ \E f \in find_victim(c, a) : block' = fill_cache(c, f, a, TRUE)
  BY DEF handle_writeback
<1> HIDE DEF a
<1>2. CASE block' = MarkDirty(c, a)
  BY <1>0, <1>1, <1>2, MarkFewer, SameIsFewer, FewerKeeps
<1>3. ASSUME NEW f \in find_victim(c, a), block' = fill_cache(c, f, a, TRUE)
      PROVE  L1Inv'
  <2>1. f \in Frames(c)
    BY <1>0, VictimInSet
  <2>2. \A k \in L1s : \A g \in Frames(k) : k # c \/ g # f =>
          block'[k][g].address \in {0, block[k][g].address}
    BY <1>0, <1>3, <2>1, FillFewer
  <2>3. FewerLines(block, block')
    BY <1>0, <2>2 DEF FewerLines
  <2> QED BY <1>0, <1>1, <2>3, SameIsFewer, FewerKeeps
<1> QED BY <1>1, <1>2, <1>3

LEMMA TranslationSingle ==
  ASSUME HierarchyInv, MissesInv, L1Inv, NEW x, NEW y, translation_fill(x, y)
  PROVE  L1Inv'
<1> DEFINE b == InvalidateIn(block, Shared, x)
<1>1. GoodMisses(mshr) /\ LinesOK(block, stored) /\ mshr' = mshr
  BY DEF HierarchyInv, MissesInv, translation_fill
<1>2. LinesOK(b, stored) /\ FewerLines(block, b)
  BY <1>1, LinesDropped, InvalidateFewer
<1>3. block' = InvalidateIn(b, L1s, y)
  BY DEF translation_fill
<1> HIDE DEF b
<1>4. FewerLines(b, block')
  BY <1>2, <1>3, InvalidateFewer
<1>5. FewerLines(block, block') /\ FewerMisses(mshr, mshr')
  BY <1>1, <1>2, <1>4, SameIsFewer
<1> QED BY <1>1, <1>5, FewerKeeps

LEMMA L1sStart == Init => L1Inv
<1> SUFFICES ASSUME Init PROVE L1Inv
  OBVIOUS
<1>1. ASSUME NEW c \in L1s
      PROVE  /\ \A f \in Frames(c) : block[c][f].address = 0
             /\ BlocksOf(mshr[c]) = {}
  <2>1. c \in Caches /\ c \in Requesters
    BY Names
  <2>2. block[c] = [f \in Frames(c) |-> NoLine] /\ mshr[c] = {}
    BY <2>1 DEF Init
  <2> QED BY <2>2 DEF NoLine, BlocksOf
<1> QED BY <1>1 DEF L1Inv, SingleLines, NoMissHeld

\* The lines and misses of the L1s are single in every state of the invariants.
LEMMA SingleFromInvariant == MissesInv /\ L1Inv => L1CopiesAreSingle
<1> SUFFICES ASSUME MissesInv, L1Inv, NEW c \in L1s
             PROVE  /\ \A f, g \in Frames(c) :
                         block[c][f].address = block[c][g].address /\ block[c][f].address # 0
                           => f = g
                    /\ \A d, e \in mshr[c] : d.address = e.address => d = e
                    /\ \A e \in mshr[c] : ~check_hit(c, e.address)
  BY DEF L1CopiesAreSingle
<1>1. \A f, g \in Frames(c) :
        block[c][f].address = block[c][g].address /\ block[c][f].address # 0 => f = g
  BY DEF L1Inv, SingleLines
<1>2. \A d, e \in mshr[c] : d.address = e.address => d = e
  BY Names DEF MissesInv, GoodMisses, SingleMisses
<1>3. \A e \in mshr[c] : ~check_hit(c, e.address)
  <2> SUFFICES ASSUME NEW e \in mshr[c], check_hit(c, e.address)
               PROVE  FALSE
    OBVIOUS
  <2>1. PICK f \in Frames(c) : block[c][f].address = e.address
    BY DEF check_hit, Holding, SetOf
  <2>2. block[c][f].address \notin BlocksOf(mshr[c])
    BY DEF L1Inv, NoMissHeld
  <2> QED BY <2>1, <2>2 DEF BlocksOf
<1> QED BY <1>1, <1>2, <1>3

\* The lines of the L1s lie in the sets of their blocks, one for a block, and
\* none for a block that its cache has a miss for: what check_hit, the MSHR
\* lookup of handle_read and find_victim keep together (cache.cc:1639, 1732).
THEOREM L1sInvariance == Spec => []L1Inv
<1>1. HierarchyInv /\ MissesInv /\ L1Inv /\ [Next]_vars => L1Inv'
  <2> SUFFICES ASSUME HierarchyInv, MissesInv, L1Inv, [Next]_vars
               PROVE  L1Inv'
    OBVIOUS
  <2>1. CASE Requests
    BY <2>1, RequestsSingle
  <2>2. CASE \E x, y \in Blocks \cup {0} : translation_fill(x, y)
    BY <2>2, TranslationSingle
  <2>3. CASE \E c \in Caches : handle_fill(c)
    BY <2>3, FillSingle
  <2>4. CASE \E c \in Shared : handle_writeback(c)
    BY <2>4, WritebackSingle
  <2>5. CASE Lookups
    BY <2>5, LookupsSingle
  <2>6. CASE UNCHANGED vars
    BY <2>6 DEF vars, L1Inv
  <2> QED BY <2>1, <2>2, <2>3, <2>4, <2>5, <2>6 DEF Next, Handlers
<1> QED BY <1>1, L1sStart, MissesInvariance, PTL DEF Spec

\* An L1 never has two copies of a block, nor two misses for one, nor a copy
\* and a miss: no load can read one copy while a store writes another
\* (cache.cc:1639, 1732-1741).
THEOREM L1sHoldOnce == Spec => []L1CopiesAreSingle
BY MissesInvariance, L1sInvariance, SingleFromInvariant, PTL

-----------------------------------------------------------------------------
(* Exclusion, for caches whose only prefetcher is that of L1I: all packets *)
(* are to fill an L1, so a shared cache gets lines from write queues only. *)

\* A block is held in one frame of one cache, in its set.
InOnePlace(b) ==
  \A c, d \in Caches : \A f \in Frames(c), g \in Frames(d) : b[c][f].address # 0 =>
    /\ f \in SetOf(c, b[c][f].address)
    /\ b[d][g].address = b[c][f].address => c = d /\ f = g

\* What waits, and what is to be prefetched, is to fill an L1.
MissesForL1(m) == \A c \in Requesters : \A e \in m[c] : e.fill_level = FILL_L1
QueuesForL1(q) ==
  \A c \in Shared : \A i \in DOMAIN q[c] : q[c][i].fill_level = FILL_L1

LEMMA SameLessHeld ==
  /\ \A b : LessHeld(b, b)
  /\ \A b, n, o : LessHeld(b, n) /\ LessHeld(n, o) => LessHeld(b, o)
BY DEF LessHeld

LEMMA LessInOnePlace ==
  ASSUME NEW b, NEW n, InOnePlace(b), LessHeld(b, n)
  PROVE  InOnePlace(n)
BY DEF InOnePlace, LessHeld

\* The one copy a cache has is the one invalidation finds.
LEMMA InvalidateEmpties ==
  ASSUME NEW st, NEW b, LinesOK(b, st), InOnePlace(b), NEW S, NEW a \in Addresses,
         NEW c \in Caches, c \in S, NEW f \in Frames(c)
  PROVE  InvalidateIn(b, S, a)[c][f].address # a
<1> DEFINE H == Holding(b, c, a)
           h == FirstWay(H)
<1>1. /\ InvalidateIn(b, S, a)[c] = Invalidate(b, c, a)[c]
      /\ c \in DOMAIN b /\ f \in DOMAIN b[c] /\ a # 0
  BY Sizes DEF InvalidateIn, LinesOK
<1>2. b[c][f].address = a => f \in H
  BY <1>1 DEF InOnePlace, Holding
<1>3. CASE H = {}
  BY <1>1, <1>2, <1>3 DEF Invalidate
<1>4. CASE H # {}
  <2>1. h \in H
    BY <1>4, FirstWayIn, FramesOfSet
  <2>2. h \in Frames(c) /\ b[c][h].address = a
    BY <2>1, FramesOfSet
  <2>3. b[c][f].address = a => f = h
    BY <1>1, <2>2 DEF InOnePlace
  <2>4. Invalidate(b, c, a) = [b EXCEPT ![c][h] = NoLine]
    BY <1>4 DEF Invalidate
  <2> HIDE DEF h, H
  <2>5. Invalidate(b, c, a)[c][f] = IF f = h THEN NoLine ELSE b[c][f]
    BY <1>1, <2>4
  <2>6. NoLine.address = 0
    BY DEF NoLine
  <2> QED BY <1>1, <2>3, <2>5, <2>6
<1> QED BY <1>3, <1>4

\* A cache takes a block that it does not hold.
LEMMA FillInOnePlace ==
  ASSUME NEW st, LinesOK(block, st), InOnePlace(block), NEW c \in Caches,
         NEW a \in Addresses, NEW f \in find_victim(c, a), NEW d,
         \A g \in Frames(c) : block[c][g].address # a
  PROVE  InOnePlace(fill_cache(c, f, a, d))
<1> DEFINE b == InvalidateIn(block, Caches \ {c}, a)
           n == [b EXCEPT ![c][f] = [address |-> a, dirty |-> d]]
<1>1. /\ LinesOK(b, st) /\ LessHeld(block, b) /\ b[c] = block[c]
      /\ f \in SetOf(c, a) /\ f \in Frames(c)
  BY LinesDropped, InvalidateLoses, VictimInSet
<1>2. InOnePlace(b)
  BY <1>1, LessInOnePlace
<1>3. ASSUME NEW k \in Caches, NEW g \in Frames(k)
      PROVE  b[k][g].address # a
  BY <1>1, <1>3, InvalidateEmpties
<1>4. n = fill_cache(c, f, a, d)
  BY DEF fill_cache
<1> HIDE DEF b
<1>5. c \in DOMAIN b /\ f \in DOMAIN b[c]
  BY <1>1 DEF LinesOK
<1>6. /\ n[c][f].address = a
      /\ \A k \in Caches : \A g \in Frames(k) : k # c \/ g # f => n[k][g] = b[k][g]
  <2>1. \A k \in Caches : k \in DOMAIN b
    BY <1>1 DEF LinesOK
  <2> QED BY <1>5, <2>1
<1> HIDE DEF n
<1>7. ASSUME NEW k \in Caches, NEW j \in Caches, NEW g \in Frames(k), NEW h \in Frames(j),
             n[k][g].address # 0
      PROVE  /\ g \in SetOf(k, n[k][g].address)
             /\ n[j][h].address = n[k][g].address => k = j /\ g = h
  <2>1. CASE k = c /\ g = f
    <3>1. j # c \/ h # f => n[j][h].address # a
      BY <1>3, <1>6
    <3> QED BY <1>1, <1>6, <2>1, <3>1
  <2>2. CASE k # c \/ g # f
    <3>1. n[k][g].address = b[k][g].address /\ b[k][g].address # a
      BY <1>3, <1>6, <2>2
    <3>2. CASE j = c /\ h = f
      BY <1>2, <1>6, <1>7, <3>1, <3>2 DEF InOnePlace
    <3>3. CASE j # c \/ h # f
      <4>1. n[j][h].address = b[j][h].address
        BY <1>6, <3>3
      <4> QED BY <1>2, <1>7, <3>1, <4>1 DEF InOnePlace
    <3> QED BY <3>2, <3>3
  <2> QED BY <2>1, <2>2
<1>8. InOnePlace(n)
  BY <1>7 DEF InOnePlace
<1> QED BY <1>4, <1>8

\* Packets that merge for an L1 are for an L1.
LEMMA MergesForL1 ==
  ASSUME NEW e \in Packet, NEW p \in Packet, e.fill_level = FILL_L1,
         p.fill_level = FILL_L1
  PROVE  /\ \A f \in {MergeMiss(e, p), MergeStore(e, p), Lowered(e, p)} :
              f.fill_level = FILL_L1
         /\ MergePrefetch(e, p).fill_level = FILL_L1
<1> DEFINE l == Lowered(e, p)
<1>1. l \in Packet /\ l.fill_level = FILL_L1
  BY LoweredFields
<1>2. Promoted(e, p).fill_level = FILL_L1
  <2> HIDE DEF l
  <2>1. [p EXCEPT !.fill_level = l.fill_level,
                  !.instruction = p.instruction \/ l.instruction,
                  !.fill_l1i = l.fill_l1i, !.fill_l1d = l.fill_l1d,
                  !.returned = e.returned].fill_level = FILL_L1
    BY <1>1 DEF Packet
  <2> QED BY <2>1 DEF Promoted, l
<1>3. [p EXCEPT !.returned = e.returned].fill_level = FILL_L1
  BY DEF Packet
<1>4. MergePrefetch(e, p).fill_level = FILL_L1
  <2> HIDE DEF l
  <2>1. [l EXCEPT !.returned = FALSE].fill_level = FILL_L1
    BY <1>1 DEF Packet
  <2> QED BY <2>1 DEF MergePrefetch, l
<1> QED BY <1>1, <1>2, <1>3, <1>4 DEF MergeMiss, MergeStore

\* The MSHRs change as follows.
LEMMA ReturnedForL1 ==
  ASSUME NEW m, GoodMisses(m), MissesForL1(m), NEW S, NEW a
  PROVE  MissesForL1(return_data(m, S, a))
<1> SUFFICES ASSUME NEW c \in Requesters, NEW e \in return_data(m, S, a)[c]
             PROVE  e.fill_level = FILL_L1
  BY DEF MissesForL1
<1>1. m[c] \subseteq Packet
  BY DEF GoodMisses
<1>2. \E d \in m[c] : e = d \/ e = [d EXCEPT !.returned = TRUE]
  BY DEF return_data
<1> QED BY <1>1, <1>2 DEF MissesForL1, Packet

LEMMA AnsweredForL1 ==
  ASSUME NEW m, GoodMisses(m), MissesForL1(m), NEW c, NEW p
  PROVE  /\ MissesForL1(Answer(m, c, p)) /\ MissesForL1(AnswerFlagged(m, c, p))
         /\ MissesForL1(Forwarded(m, c, p))
         /\ \A a : read_memory(m, a) => MissesForL1(mshr')
BY ReturnedForL1, Zenon DEF Answer, AnswerFlagged, Forwarded, read_memory

LEMMA RemovedForL1 ==
  ASSUME NEW m, GoodMisses(m), MissesForL1(m), NEW c \in Requesters, NEW e
  PROVE  MissesForL1([m EXCEPT ![c] = @ \ {e}])
BY DEF MissesForL1, GoodMisses

LEMMA AddedForL1 ==
  ASSUME NEW m, GoodMisses(m), MissesForL1(m), NEW c \in Requesters,
         NEW p \in Packet, p.fill_level = FILL_L1
  PROVE  MissesForL1(add_mshr(m, c, p))
<1> DEFINE q == [p EXCEPT !.returned = FALSE]
<1>1. q.fill_level = FILL_L1
  BY DEF Packet
<1> HIDE DEF q
<1>2. MissesForL1([m EXCEPT ![c] = m[c] \cup {q}])
  BY <1>1 DEF MissesForL1, GoodMisses
<1> QED BY <1>2 DEF add_mshr, q

LEMMA MergedForL1 ==
  ASSUME NEW m, GoodMisses(m), MissesForL1(m), NEW c \in Requesters,
         NEW p \in Packet, p.fill_level = FILL_L1, NEW merge,
         \A e \in m[c] : merge[e] \in {MergeMiss(e, p), MergeStore(e, p), Lowered(e, p)}
  PROVE  MissesForL1(Merged(m, c, p, merge))
<1> DEFINE n == Merged(m, c, p, merge)
           M == {IF e.address = p.address THEN merge[e] ELSE e : e \in m[c]}
<1>1. \A e \in m[c] : e.fill_level = FILL_L1 /\ merge[e].fill_level = FILL_L1
  <2>1. m[c] \subseteq Packet
    BY DEF GoodMisses
  <2> QED BY <2>1, MergesForL1 DEF MissesForL1
<1>2. \A d \in M : d.fill_level = FILL_L1
  BY <1>1
<1>3. n = [m EXCEPT ![c] = M]
  BY DEF Merged
<1> HIDE DEF M, n
<1>4. MissesForL1(n)
  BY <1>2, <1>3 DEF MissesForL1, GoodMisses
<1> QED BY <1>4 DEF n

\* The prefetch queues change as follows.
LEMMA PrefetchForL1 ==
  ASSUME NEW q, GoodQueues(q, PrefetchPackets), QueuesForL1(q), NEW c \in Shared
  PROVE  /\ q[c] # <<>> => /\ Head(q[c]).fill_level = FILL_L1
                           /\ QueuesForL1([q EXCEPT ![c] = Tail(@)])
         /\ \A p \in Packet : p.fill_level = FILL_L1 => QueuesForL1(QueuePrefetch(q, c, p))
<1>1. /\ q[c] \in Seq(Packet) /\ c \in DOMAIN q
      /\ \A i \in DOMAIN q[c] : q[c][i] \in Packet /\ q[c][i].fill_level = FILL_L1
  <2>1. q[c] \in Seq(PrefetchPackets) /\ c \in DOMAIN q /\ PrefetchPackets \subseteq Packet
    BY WellFormedPackets DEF GoodQueues
  <2>2. q[c] \in Seq(Packet)
    BY <2>1
  <2> QED BY <2>1, <2>2 DEF QueuesForL1
<1>2. ASSUME NEW s, \A i \in DOMAIN s : s[i].fill_level = FILL_L1
      PROVE  QueuesForL1([q EXCEPT ![c] = s])
  BY <1>1, <1>2 DEF QueuesForL1, GoodQueues
<1>3. ASSUME q[c] # <<>>
      PROVE  /\ Head(q[c]).fill_level = FILL_L1
             /\ QueuesForL1([q EXCEPT ![c] = Tail(@)])
  <2>1. Head(q[c]).fill_level = FILL_L1
    BY <1>1, <1>3
  <2>2. \A i \in DOMAIN Tail(q[c]) : Tail(q[c])[i].fill_level = FILL_L1
    BY <1>1, <1>3
  <2> QED BY <1>2, <2>1, <2>2
<1>4. ASSUME NEW p \in Packet, p.fill_level = FILL_L1
      PROVE  QueuesForL1(QueuePrefetch(q, c, p))
  <2> DEFINE f == [i \in DOMAIN q[c] |->
                     IF q[c][i].address = p.address THEN MergePrefetch(q[c][i], p)
                     ELSE q[c][i]]
  <2>1. \A i \in DOMAIN f : f[i].fill_level = FILL_L1
    BY <1>1, <1>4, MergesForL1
  <2>2. \A i \in DOMAIN Append(q[c], p) : Append(q[c], p)[i].fill_level = FILL_L1
    BY <1>1, <1>4
  <2>3. QueuesForL1([q EXCEPT ![c] = f])
    <3> HIDE DEF f
    <3> QED BY <1>2, <2>1
  <2>4. QueuesForL1([q EXCEPT ![c] = Append(@, p)])
    BY <1>2, <2>2
  <2> QED BY <2>3, <2>4 DEF QueuePrefetch
<1> QED BY <1>3, <1>4

\* A request of an L1, or of the walker, is for an L1.
LEMMA MissForL1 ==
  ASSUME MissesInv, MissesForL1(mshr), NEW c \in Requesters, c \notin Shared,
         NEW p \in Packet, p.fill_level = FILL_L1, NEW merge,
         \A e \in mshr[c] : merge[e] \in {MergeMiss(e, p), MergeStore(e, p), Lowered(e, p)},
         \/ mshr' = Merged(mshr, c, p, merge)
         \/ /\ Waiting(mshr, c, p.address) = {}
            /\ mshr' = Forwarded(add_mshr(mshr, c, p), "L2C", p)
  PROVE  MissesForL1(mshr')
<1> DEFINE n == add_mshr(mshr, c, p)
<1>1. GoodMisses(mshr)
  BY DEF MissesInv
<1>2. CASE mshr' = Merged(mshr, c, p, merge)
  BY <1>1, <1>2, MergedForL1
<1>3. CASE Waiting(mshr, c, p.address) = {} /\ mshr' = Forwarded(n, "L2C", p)
  <2>1. GoodMisses(n) /\ MissesForL1(n)
    BY <1>1, <1>3, AddedMiss, AddedForL1
  <2> HIDE DEF n
  <2> QED BY <1>3, <2>1, AnsweredForL1
<1> QED BY <1>2, <1>3

-----------------------------------------------------------------------------
(* Requests and lookups, when the prefetcher of L1I is the only one.  Both *)
(* builds of the caches share them.                                        *)

ForL1Inv == MissesForL1(mshr) /\ QueuesForL1(pq)

\* Requester c asks L2C for what packet p says.
Requested(c, p, merge) ==
  /\ p \in WellFormed /\ p.fill_level = FILL_L1
  /\ c \in L1s => ~check_hit(c, p.address) /\ c \in Flagged(p)
  /\ c = "L1I" => p.address \in Code
  /\ c = "PTW" => p.address \in TableBlocks
  /\ \A e \in mshr[c] : merge[e] \in {MergeMiss(e, p), MergeStore(e, p), Lowered(e, p)}
  /\ \/ mshr' = Merged(mshr, c, p, merge)
     \/ /\ Waiting(mshr, c, p.address) = {}
        /\ mshr' = Forwarded(add_mshr(mshr, c, p), "L2C", p)
  /\ pq' = pq \/ pq' = QueuePrefetch(pq, "L2C", p)

\* Shared cache c looks up what packet p asks for.
LookedUp(c, p, merge) ==
  /\ p \in WellFormed /\ p.fill_level = FILL_L1
  /\ \A e \in mshr[c] : merge[e] \in {MergeMiss(e, p), MergeStore(e, p), Lowered(e, p)}
  /\ \/ mshr' = Answer(mshr, c, p) \/ mshr' = AnswerFlagged(mshr, c, p)
     \/ mshr' = Merged(mshr, c, p, merge)
     \/ /\ ~check_hit(c, p.address) /\ Waiting(mshr, c, p.address) = {}
        /\ \/ c = "L2C" /\ mshr' = Forwarded(add_mshr(mshr, c, p), "LLC", p)
           \/ c # "L2C" /\ read_memory(add_mshr(mshr, c, p), p.address)

\* A demand is for its own requester.
LEMMA DemandFields ==
  ASSUME NEW c \in Above("L2C"), NEW a, NEW type,
         \/ c = "PTW" /\ a \in TableBlocks /\ type = "LOAD_TRANSLATION"
         \/ c # "PTW" /\ a \in Blocks /\ type \in {"LOAD", "RFO"}
  PROVE  LET p == Demand(c, a, type) IN
         /\ p \in WellFormed /\ p.fill_level = FILL_L1 /\ p.address = a
         /\ c \in L1s => c \in Flagged(p)
<1> DEFINE p == Demand(c, a, type)
<1>1. p \in ReadPackets
  BY DemandsAreTheirs
<1>2. p \in WellFormed
  BY <1>1, WellFormedPackets
<1>3. c \in L1s => c \in Flagged(p)
  BY DEF Flagged, Demand, L1s
<1>4. p.fill_level = FILL_L1 /\ p.address = a
  BY DEF Demand
<1> QED BY <1>2, <1>3, <1>4

LEMMA ReadRequests ==
  ASSUME NEW c \in L1s, NEW a \in Blocks, c = "L1I" => a \in Code, read(c, a)
  PROVE  \E p, merge : Requested(c, p, merge)
<1> DEFINE p == Demand(c, a, "LOAD")
           merge == [e \in mshr[c] |-> MergeMiss(e, p)]
<1>1. c \in Above("L2C") /\ c # "PTW"
  BY SendersBelow DEF L1s
<1>2. p \in WellFormed /\ p.fill_level = FILL_L1 /\ p.address = a /\ c \in Flagged(p)
  BY <1>1, DemandFields
<1>3. /\ pq' = pq /\ ~check_hit(c, p.address)
      /\ \/ mshr' = Merged(mshr, c, p, merge)
         \/ /\ Waiting(mshr, c, p.address) = {}
            /\ mshr' = Forwarded(add_mshr(mshr, c, p), "L2C", p)
  BY DEF read, Miss, add_rq
<1>4. \A e \in mshr[c] : merge[e] \in {MergeMiss(e, p), MergeStore(e, p), Lowered(e, p)}
  OBVIOUS
<1> HIDE DEF p, merge
<1>5. Requested(c, p, merge)
  BY <1>1, <1>2, <1>3, <1>4 DEF Requested
<1> QED BY <1>5

LEMMA WriteRequests ==
  ASSUME NEW a \in Stored, write(a)
  PROVE  UNCHANGED <<mshr, pq>> \/ \E p, merge : Requested("L1D", p, merge)
<1> DEFINE p == Demand("L1D", a, "RFO")
           merge == [e \in mshr["L1D"] |-> MergeStore(e, p)]
<1>1. "L1D" \in L1s /\ "L1D" \in Above("L2C") /\ a \in Blocks
  BY SendersBelow, HierarchyAssumption DEF L1s
<1>2. p \in WellFormed /\ p.fill_level = FILL_L1 /\ p.address = a /\ "L1D" \in Flagged(p)
  BY <1>1, DemandFields
<1>3. /\ pq' = pq
      /\ \/ mshr' = mshr
         \/ /\ ~check_hit("L1D", p.address)
            /\ \/ mshr' = Merged(mshr, "L1D", p, merge)
               \/ /\ Waiting(mshr, "L1D", p.address) = {}
                  /\ mshr' = Forwarded(add_mshr(mshr, "L1D", p), "L2C", p)
  BY DEF write, Miss, add_rq
<1>4. \A e \in mshr["L1D"] : merge[e] \in {MergeMiss(e, p), MergeStore(e, p), Lowered(e, p)}
  OBVIOUS
<1> HIDE DEF p, merge
<1>5. mshr' # mshr => Requested("L1D", p, merge)
  BY <1>1, <1>2, <1>3, <1>4 DEF Requested
<1> QED BY <1>3, <1>5

LEMMA PrefetchRequests ==
  ASSUME NEW a \in Code, prefetch("L1I", a, FILL_L1)
  PROVE  \E p, merge : Requested("L1I", p, merge)
<1> DEFINE p == Prefetch("L1I", a, FILL_L1)
           merge == [e \in mshr["L1I"] |-> Lowered(e, p)]
<1>1. p \in WellFormed /\ p.fill_level = FILL_L1 /\ p.address = a
  <2>1. a \in Blocks
    BY HierarchyAssumption
  <2> QED BY <2>1, PrefetchesAreTheirs DEF PrefetchPackets
<1>2. "L1I" \in L1s /\ "L1I" \in Flagged(p)
  BY DEF Flagged, Prefetch, L1s
<1>3. /\ pq' = pq \/ pq' = QueuePrefetch(pq, "L2C", p)
      /\ ~check_hit("L1I", a)
      /\ \/ mshr' = Merged(mshr, "L1I", p, merge)
         \/ /\ Waiting(mshr, "L1I", a) = {}
            /\ mshr' = Forwarded(MissInto(mshr, "L1I", p), "L2C", p)
  BY DEF prefetch, add_pq
<1>4. MissInto(mshr, "L1I", p) = add_mshr(mshr, "L1I", p)
  BY <1>1 DEF MissInto, fill_level, FILL_L1
<1>5. \A e \in mshr["L1I"] : merge[e] \in {MergeMiss(e, p), MergeStore(e, p), Lowered(e, p)}
  OBVIOUS
<1> HIDE DEF p, merge
<1>6. Requested("L1I", p, merge)
  BY <1>1, <1>2, <1>3, <1>4, <1>5 DEF Requested
<1> QED BY <1>6

LEMMA WalkRequests ==
  ASSUME NEW a \in TableBlocks, walk(a)
  PROVE  \E p, merge : Requested("PTW", p, merge)
<1> DEFINE p == Demand("PTW", a, "LOAD_TRANSLATION")
<1>1. "PTW" \notin L1s /\ "PTW" \in Above("L2C")
  BY SendersBelow DEF L1s
<1>2. p \in WellFormed /\ p.fill_level = FILL_L1 /\ p.address = a
  BY <1>1, DemandFields
<1>3. /\ pq' = pq /\ mshr["PTW"] = {}
      /\ mshr' = Forwarded(add_mshr(mshr, "PTW", p), "L2C", p)
  BY DEF walk, add_rq
<1> HIDE DEF p
<1>4. Requested("PTW", p, p)
  BY <1>1, <1>2, <1>3 DEF Requested, Waiting
<1> QED BY <1>4

LEMMA RequestsAreRequested ==
  ASSUME Prefetchers \subseteq {"L1I"}, Requests
  PROVE  \/ UNCHANGED <<mshr, pq>>
         \/ \E c \in Above("L2C") : \E p, merge : Requested(c, p, merge)
<1>1. /\ Code \subseteq Blocks /\ "L1I" \in L1s /\ "L1D" \in L1s /\ "L1D" \notin Prefetchers
      /\ {"L1I", "L1D", "PTW"} = Above("L2C")
  BY SendersBelow, HierarchyAssumption DEF L1s
<1>2. CASE \E a \in Code : read("L1I", a) \/ prefetch("L1I", a, FILL_L1)
  <2>1. \E p, merge : Requested("L1I", p, merge)
    BY <1>1, <1>2, ReadRequests, PrefetchRequests
  <2> QED BY <1>1, <2>1
<1>3. CASE \E a \in Blocks : read("L1D", a)
  <2>1. \E p, merge : Requested("L1D", p, merge)
    BY <1>1, <1>3, ReadRequests
  <2> QED BY <1>1, <2>1
<1>4. CASE \E a \in Stored : write(a)
  BY <1>1, <1>4, WriteRequests
<1>5. CASE \E a \in Blocks, level \in {FILL_L1, FILL_L2} : prefetch("L1D", a, level)
  BY <1>1, <1>5 DEF prefetch
<1>6. CASE \E a \in TableBlocks : walk(a)
  <2>1. \E p, merge : Requested("PTW", p, merge)
    BY <1>6, WalkRequests
  <2> QED BY <1>1, <2>1
<1> QED BY <1>2, <1>3, <1>4, <1>5, <1>6 DEF Requests

LEMMA RequestsForL1 ==
  ASSUME MissesInv, ForL1Inv, Prefetchers \subseteq {"L1I"}, Requests
  PROVE  ForL1Inv'
<1>1. CASE UNCHANGED <<mshr, pq>>
  BY <1>1 DEF ForL1Inv
<1>2. ASSUME NEW c \in Above("L2C"), NEW p, NEW merge, Requested(c, p, merge)
      PROVE  ForL1Inv'
  <2>1. /\ c \in Requesters /\ c \notin Shared /\ "L2C" \in Shared
        /\ GoodQueues(pq, PrefetchPackets)
    BY SendersBelow DEF Shared, MissesInv
  <2>2. p \in Packet /\ p.fill_level = FILL_L1
    BY <1>2, WellFormedPackets DEF Requested
  <2>3. MissesForL1(mshr')
    BY <1>2, <2>1, <2>2, MissForL1 DEF Requested, ForL1Inv
  <2>4. QueuesForL1(QueuePrefetch(pq, "L2C", p)) /\ QueuesForL1(pq)
    BY <2>1, <2>2, PrefetchForL1 DEF ForL1Inv
  <2>5. QueuesForL1(pq')
    BY <1>2, <2>4 DEF Requested
  <2> QED BY <2>3, <2>5 DEF ForL1Inv
<1> QED BY <1>1, <1>2, RequestsAreRequested

\* A lookup finds a packet for an L1, and so does the prefetcher of L2C, which
\* there is not.
LEMMA LookupLooksUp ==
  ASSUME MissesInv, ForL1Inv, Prefetchers \subseteq {"L1I"}, NEW c \in Shared,
         handle_read(c) \/ handle_prefetch(c)
  PROVE  /\ \E p, merge : LookedUp(c, p, merge)
         /\ QueuesForL1(pq')
<1>0. /\ "L2C" \notin Prefetchers /\ FILL_L1 <= fill_level(c) /\ "LLC" \in Shared
      /\ QueuesForL1(pq) /\ GoodQueues(pq, PrefetchPackets)
      /\ GoodQueues(rq, ReadPackets)
      /\ ReadPackets \in SUBSET Packet /\ PrefetchPackets \in SUBSET Packet
  BY WellFormedPackets DEF MissesInv, ForL1Inv, fill_level, FILL_L1, FILL_L2, FILL_LLC, Shared
<1>1. \A q, s : prefetch_line(q, s) => pq' = q
  BY <1>0 DEF prefetch_line
<1>2. CASE handle_read(c)
  <2> DEFINE p == Head(rq[c])
             merge == [e \in mshr[c] |-> MergeMiss(e, p)]
  <2>1. p \in ReadPackets
    BY <1>0, <1>2, TakenFromQueue DEF handle_read
  <2>2. p \in WellFormed /\ p.fill_level = FILL_L1
    BY <2>1, WellFormedPackets DEF ReadPackets
  <2>3. \/ mshr' = Answer(mshr, c, p)
        \/ mshr' = Merged(mshr, c, p, merge)
        \/ /\ ~check_hit(c, p.address) /\ Waiting(mshr, c, p.address) = {}
           /\ \/ c = "L2C" /\ mshr' = Forwarded(add_mshr(mshr, c, p), "LLC", p)
              \/ c # "L2C" /\ read_memory(add_mshr(mshr, c, p), p.address)
    BY <1>2 DEF handle_read, add_rq
  <2>4. pq' = pq
    BY <1>1, <1>2 DEF handle_read
  <2>5. \A e \in mshr[c] : merge[e] \in {MergeMiss(e, p), MergeStore(e, p), Lowered(e, p)}
    OBVIOUS
  <2> HIDE DEF p, merge
  <2>6. LookedUp(c, p, merge)
    BY <2>2, <2>3, <2>5 DEF LookedUp
  <2> QED BY <1>0, <2>4, <2>6
<1>3. CASE handle_prefetch(c)
  <2> DEFINE p == Head(pq[c])
             q == [pq EXCEPT ![c] = Tail(@)]
             merge == [e \in mshr[c] |-> Lowered(e, p)]
  <2>0. pq[c] # <<>>
    BY <1>3 DEF handle_prefetch
  <2>1. p \in PrefetchPackets /\ GoodQueues(q, PrefetchPackets)
    BY <1>0, <2>0, TakenFromQueue
  <2>2. p \in WellFormed /\ p.fill_level = FILL_L1 /\ QueuesForL1(q)
    BY <1>0, <2>0, <2>1, PrefetchForL1, WellFormedPackets
  <2>3. MissInto(mshr, c, p) = add_mshr(mshr, c, p)
    BY <1>0, <2>2 DEF MissInto
  <2>4. \/ mshr' = AnswerFlagged(mshr, c, p)
        \/ mshr' = Merged(mshr, c, p, merge)
        \/ /\ ~check_hit(c, p.address) /\ Waiting(mshr, c, p.address) = {}
           /\ \/ c = "L2C" /\ mshr' = Forwarded(MissInto(mshr, c, p), "LLC", p)
              \/ c # "L2C" /\ read_memory(MissInto(mshr, c, p), p.address)
    BY <1>3 DEF handle_prefetch
  <2>5. pq' = q \/ pq' = QueuePrefetch(q, "LLC", p)
    BY <1>1, <1>3 DEF handle_prefetch
  <2>6. \A e \in mshr[c] : merge[e] \in {MergeMiss(e, p), MergeStore(e, p), Lowered(e, p)}
    OBVIOUS
  <2> HIDE DEF p, q, merge
  <2>7. LookedUp(c, p, merge)
    BY <2>2, <2>3, <2>4, <2>6 DEF LookedUp
  <2>8. QueuesForL1(pq')
    <3>1. p \in Packet
      BY <2>2, WellFormedPackets
    <3>2. QueuesForL1(QueuePrefetch(q, "LLC", p))
      BY <1>0, <2>1, <2>2, <3>1, PrefetchForL1
    <3> QED BY <2>2, <2>5, <3>2
  <2> QED BY <2>7, <2>8
<1> QED BY <1>2, <1>3

LEMMA LookedUpForL1 ==
  ASSUME MissesInv, ForL1Inv, NEW c \in Shared, NEW p, NEW merge, LookedUp(c, p, merge)
  PROVE  MissesForL1(mshr')
<1> DEFINE n == add_mshr(mshr, c, p)
<1>1. /\ GoodMisses(mshr) /\ MissesForL1(mshr) /\ c \in Requesters
      /\ p \in WellFormed /\ p \in Packet /\ p.fill_level = FILL_L1
      /\ \A e \in mshr[c] : merge[e] \in {MergeMiss(e, p), MergeStore(e, p), Lowered(e, p)}
  BY Names, WellFormedPackets DEF MissesInv, ForL1Inv, LookedUp
<1>2. CASE mshr' = Answer(mshr, c, p) \/ mshr' = AnswerFlagged(mshr, c, p)
  BY <1>1, <1>2, AnsweredForL1
<1>3. CASE mshr' = Merged(mshr, c, p, merge)
  BY <1>1, <1>3, MergedForL1
<1>4. CASE /\ Waiting(mshr, c, p.address) = {}
           /\ mshr' = Forwarded(n, "LLC", p) \/ read_memory(n, p.address)
  <2>1. GoodMisses(n) /\ MissesForL1(n)
    BY <1>1, <1>4, AddedMiss, AddedForL1
  <2> HIDE DEF n
  <2> QED BY <1>4, <2>1, AnsweredForL1
<1> QED BY <1>2, <1>3, <1>4 DEF LookedUp

LEMMA LookupsForL1 ==
  ASSUME MissesInv, ForL1Inv, Prefetchers \subseteq {"L1I"}, Lookups
  PROVE  ForL1Inv' /\ block' = block
<1>0. GoodMisses(mshr) /\ MissesForL1(mshr) /\ QueuesForL1(pq)
  BY DEF MissesInv, ForL1Inv
<1>1. ASSUME NEW c \in Shared, handle_read(c) \/ handle_prefetch(c)
      PROVE  ForL1Inv' /\ block' = block
  <2>1. MissesForL1(mshr') /\ QueuesForL1(pq')
    BY <1>1, LookupLooksUp, LookedUpForL1
  <2> QED BY <1>1, <2>1 DEF ForL1Inv, handle_read, handle_prefetch
<1>2. CASE walked
  <2>1. PICK e \in mshr["PTW"] : mshr' = [mshr EXCEPT !["PTW"] = @ \ {e}]
    BY <1>2 DEF walked
  <2>2. MissesForL1(mshr')
    BY <1>0, <2>1, RemovedForL1, Names
  <2> QED BY <1>0, <1>2, <2>2 DEF walked, ForL1Inv
<1>3. CASE \E a \in Addresses : memory_returns(a)
  BY <1>0, <1>3, ReturnedForL1 DEF memory_returns, ForL1Inv
<1>4. CASE \E a \in Addresses : memory_writes(a)
  BY <1>0, <1>4 DEF memory_writes, ForL1Inv
<1> QED BY <1>1, <1>2, <1>3, <1>4 DEF Lookups

\* A miss of cache c ends.
LEMMA EndedForL1 ==
  ASSUME MissesInv, ForL1Inv, NEW c \in Caches, NEW e \in mshr[c], e.returned,
         mshr' = Answer([mshr EXCEPT ![c] = @ \ {e}], c, e), pq' = pq
  PROVE  ForL1Inv'
<1> DEFINE m == [mshr EXCEPT ![c] = @ \ {e}]
<1>1. c \in Requesters /\ GoodMisses(mshr) /\ MissesForL1(mshr)
  BY Names DEF MissesInv, ForL1Inv
<1>2. GoodMisses(m)
  BY <1>1, RemovedMiss
<1>3. MissesForL1(m)
  BY <1>1, RemovedForL1
<1>4. mshr' = Answer(m, c, e)
  OBVIOUS
<1> HIDE DEF m
<1>5. MissesForL1(mshr')
  BY <1>2, <1>3, <1>4, AnsweredForL1
<1> QED BY <1>5 DEF ForL1Inv

\* A request makes no line.
LEMMA RequestsHold ==
  ASSUME HierarchyInv, Requests
  PROVE  LessHeld(block, block')
<1>1. ASSUME NEW a \in Stored, write(a)
      PROVE  LessHeld(block, block')
  BY <1>1, MarkHolds, SameLessHeld DEF write, HierarchyInv, Caches
<1>2. CASE block' = block
  BY <1>2, SameLessHeld
<1> QED BY <1>1, <1>2 DEF Requests, read, prefetch, walk

-----------------------------------------------------------------------------
(* Exclusion *)

ExclusionInv == InOnePlace(block) /\ ForL1Inv

\* An L1 takes a block that it has a miss for, and does not hold; a shared
\* cache only passes the block on.
LEMMA FillExclusive ==
  ASSUME HierarchyInv, MissesInv, L1Inv, ExclusionInv, NEW c \in Caches, handle_fill(c)
  PROVE  ExclusionInv'
<1> DEFINE Fills(e, f) ==
      /\ e.returned
      /\ block' = IF Bypassed(c, e)
                  THEN IF c = "L2C" THEN InvalidateIn(block, Shared, e.address)
                       ELSE block
                  ELSE fill_cache(c, f, e.address, c = "L1D" /\ e.type = "RFO")
      /\ mshr' = Answer([mshr EXCEPT ![c] = @ \ {e}], c, e)
<1>0. PICK e \in mshr[c] : \E f \in find_victim(c, e.address) : Fills(e, f)
  BY DEF handle_fill
<1>1. PICK f \in find_victim(c, e.address) : Fills(e, f)
  BY <1>0
<1>2. /\ e.address \in Addresses /\ e.fill_level = FILL_L1
      /\ LinesOK(block, stored) /\ InOnePlace(block)
  <2>1. c \in Requesters /\ GoodMisses(mshr) /\ MissesForL1(mshr)
    BY Names DEF MissesInv, ExclusionInv, ForL1Inv
  <2>2. e \in Packet
    BY <2>1 DEF GoodMisses
  <2> QED BY <2>1, <2>2 DEF MissesForL1, Packet, HierarchyInv, ExclusionInv
<1>3. ForL1Inv'
  <2>1. pq' = pq /\ ForL1Inv
    BY DEF handle_fill, ExclusionInv
  <2> QED BY <1>1, <2>1, EndedForL1
<1>4. InOnePlace(block')
  <2>1. CASE Bypassed(c, e)
    <3>1. /\ LessHeld(block, InvalidateIn(block, Shared, e.address))
          /\ LessHeld(block, block)
      BY <1>2, InvalidateLoses, SameLessHeld
    <3>2. LessHeld(block, block')
      BY <1>1, <2>1, <3>1
    <3> QED BY <1>2, <3>2, LessInOnePlace
  <2>2. CASE ~Bypassed(c, e)
    <3>1. c \in L1s
      BY <1>2, <2>2 DEF Bypassed, fill_level, FILL_L1, FILL_L2, FILL_LLC, Caches, L1s
    <3>2. \A g \in Frames(c) : block[c][g].address # e.address
      BY <3>1 DEF L1Inv, NoMissHeld, BlocksOf
    <3> DEFINE d == c = "L1D" /\ e.type = "RFO"
    <3>3. block' = fill_cache(c, f, e.address, d)
      BY <1>1, <2>2
    <3> HIDE DEF d
    <3> QED BY <1>2, <3>2, <3>3, FillInOnePlace
  <2> QED BY <2>1, <2>2
<1> QED BY <1>3, <1>4 DEF ExclusionInv

\* A writeback goes into the line of its block, or the block is not held.
LEMMA WritebackExclusive ==
  ASSUME HierarchyInv, ExclusionInv, NEW c \in Shared, handle_writeback(c)
  PROVE  ExclusionInv'
<1> DEFINE a == Head(wq[c])
<1>0. /\ c \in Caches /\ LinesOK(block, stored) /\ InOnePlace(block)
      /\ ForL1Inv /\ mshr' = mshr /\ pq' = pq
  BY Names DEF HierarchyInv, ExclusionInv, handle_writeback
<1>1. ForL1Inv'
  BY <1>0 DEF ForL1Inv
<1>2. \/ block' = MarkDirty(c, a)
      \/ /\ ~check_hit(c, a)
         /\ \E f \in find_victim(c, a) : block' = fill_cache(c, f, a, TRUE)
  BY DEF handle_writeback
<1>3. a \in Addresses /\ a # 0
  <2>1. a \in Addresses
    BY WriteTaken DEF HierarchyInv, handle_writeback
  <2> QED BY <2>1, Sizes
<1> HIDE DEF a
<1>4. CASE block' = MarkDirty(c, a)
  <2>1. LessHeld(block, block')
    BY <1>0, <1>4, MarkHolds
  <2> QED BY <1>0, <1>1, <2>1, LessInOnePlace DEF ExclusionInv
<1>5. ASSUME ~check_hit(c, a), NEW f \in find_victim(c, a), block' = fill_cache(c, f, a, TRUE)
      PROVE  ExclusionInv'
  <2>1. \A g \in Frames(c) : block[c][g].address # a
    BY <1>0, <1>3, <1>5 DEF InOnePlace, check_hit, Holding
  <2>2. InOnePlace(block')
    BY <1>0, <1>3, <1>5, <2>1, FillInOnePlace
  <2> QED BY <1>1, <2>2 DEF ExclusionInv
<1> QED BY <1>2, <1>4, <1>5

LEMMA TranslationExclusive ==
  ASSUME HierarchyInv, ExclusionInv, NEW x, NEW y, translation_fill(x, y)
  PROVE  ExclusionInv'
<1> DEFINE b == InvalidateIn(block, Shared, x)
<1>1. LinesOK(b, stored) /\ LessHeld(block, b)
  BY LinesDropped, InvalidateLoses DEF HierarchyInv
<1>2. block' = InvalidateIn(b, L1s, y) /\ mshr' = mshr /\ pq' = pq
  BY DEF translation_fill
<1> HIDE DEF b
<1>3. LessHeld(block, block')
  BY <1>1, <1>2, InvalidateLoses, SameLessHeld
<1> QED BY <1>2, <1>3, LessInOnePlace DEF ExclusionInv, ForL1Inv

LEMMA ForL1Starts == Init => ForL1Inv
BY DEF Init, ForL1Inv, MissesForL1, QueuesForL1

\* When neither L1D nor L2C has a prefetcher, no block is ever valid at two
\* levels: what "RIGHT BEFORE FILLING, invalidate all other levels"
\* (cache.cc:339) is for.  Prefetches of L1D and L2C break it: they fill L2C.
THEOREM AlwaysExclusive ==
  ASSUME Prefetchers \subseteq {"L1I"}
  PROVE  Spec => []Exclusive
<1>1. HierarchyInv /\ MissesInv /\ L1Inv /\ ExclusionInv /\ [Next]_vars => ExclusionInv'
  <2> SUFFICES ASSUME HierarchyInv, MissesInv, L1Inv, ExclusionInv, [Next]_vars
               PROVE  ExclusionInv'
    OBVIOUS
  <2>0. InOnePlace(block) /\ ForL1Inv
    BY DEF ExclusionInv
  <2>1. CASE Requests
    BY <2>0, <2>1, RequestsForL1, RequestsHold, LessInOnePlace DEF ExclusionInv
  <2>2. CASE \E x, y \in Blocks \cup {0} : translation_fill(x, y)
    BY <2>2, TranslationExclusive
  <2>3. CASE \E c \in Caches : handle_fill(c)
    BY <2>3, FillExclusive
  <2>4. CASE \E c \in Shared : handle_writeback(c)
    BY <2>4, WritebackExclusive
  <2>5. CASE Lookups
    BY <2>0, <2>5, LookupsForL1 DEF ExclusionInv
  <2>6. CASE UNCHANGED vars
    BY <2>6 DEF vars, ExclusionInv, ForL1Inv
  <2> QED BY <2>1, <2>2, <2>3, <2>4, <2>5, <2>6 DEF Next, Handlers
<1>2. Init => ExclusionInv
  <2>1. Init => InOnePlace(block)
    <3> SUFFICES ASSUME Init PROVE InOnePlace(block)
      OBVIOUS
    <3>1. \A c \in Caches : \A f \in Frames(c) : block[c][f].address = 0
      BY DEF Init, NoLine
    <3> QED BY <3>1 DEF InOnePlace
  <2> QED BY <2>1, ForL1Starts DEF ExclusionInv
<1>3. ExclusionInv => Exclusive
  BY Sizes DEF ExclusionInv, InOnePlace, Exclusive, Resides
<1> QED BY <1>1, <1>2, <1>3, MissesInvariance, L1sInvariance, PTL DEF Spec
=============================================================================
