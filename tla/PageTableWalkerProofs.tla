------------------------ MODULE PageTableWalkerProofs ------------------------
(***************************************************************************)
(* Proofs about PageTableWalker, for every number of levels, every set of  *)
(* pages and every size of memory, queues and MMU caches.  First come the  *)
(* order in which pages give up their frames and the frames a page fault   *)
(* draws, then the radix tree and the MMU caches, then the actions.        *)
(***************************************************************************)
EXTENDS PageTableWalker, FunctionTheorems, FiniteSetTheorems,
        SequenceTheorems, WellFoundedInduction, TLAPS

-----------------------------------------------------------------------------
(* The order of the page map *)

\* A non-empty set of naturals has a least element.
LEMMA LeastOf ==
  ASSUME NEW S \in SUBSET Nat, S # {}
  PROVE  \E m \in S : \A n \in S : m <= n
<1>1. PICK m \in S : \A n \in S : ~(<<n, m>> \in OpToRel(<, Nat))
  BY NatLessThanWellFounded, WFMin, Zenon
<1>2. \A n \in S : ~(n < m)
  <2>1. \A n \in S : <<n, m>> \in Nat \X Nat
    BY <1>1
  <2> QED BY <1>1, <2>1 DEF OpToRel
<1> QED BY <1>2

\* The topmost level at which two pages differ.
LEMMA LastDifference ==
  ASSUME NEW p \in Pages, NEW q \in Pages, p # q
  PROVE  \E l \in 1 .. Levels :
           p[l] # q[l] /\ \A k \in l + 1 .. Levels : p[k] = q[k]
<1> DEFINE D == {n \in 0 .. Levels - 1 : p[Levels - n] # q[Levels - n]}
<1>0. Levels \in Nat /\ p \in [1 .. Levels -> Offsets] /\ q \in [1 .. Levels -> Offsets]
  BY WalkerAssumption
<1>1. PICK k \in 1 .. Levels : p[k] # q[k]
  BY <1>0
<1>2. Levels - k \in D
  BY <1>0, <1>1
<1>3. PICK m \in D : \A n \in D : m <= n
  <2>1. D \subseteq 0 .. Levels - 1
    OBVIOUS
  <2> HIDE DEF D
  <2>2. D \subseteq Nat
    BY <1>0, <2>1
  <2> QED BY <1>2, <2>2, LeastOf
<1>4. ASSUME NEW j \in Levels - m + 1 .. Levels
      PROVE  p[j] = q[j]
  <2>1. Levels - j \in 0 .. Levels - 1 /\ ~(m <= Levels - j)
    BY <1>0, <1>3, <1>4
  <2>2. Levels - j \notin D
    BY <1>3, <2>1
  <2>3. Levels - (Levels - j) = j
    BY <1>0, <1>4
  <2> QED BY <2>1, <2>2, <2>3
<1>5. Levels - m \in 1 .. Levels /\ p[Levels - m] # q[Levels - m]
  BY <1>0, <1>3
<1> QED BY <1>4, <1>5

\* The page map is in a strict total order.
LEMMA LowerOrder ==
  ASSUME NEW p \in Pages, NEW q \in Pages
  PROVE  /\ ~Lower(p, p)
         /\ p # q => Lower(p, q) \/ Lower(q, p)
         /\ \A r \in Pages : Lower(p, q) /\ Lower(q, r) => Lower(p, r)
<1>0. /\ Levels \in Nat
      /\ \A r \in Pages : \A l \in 1 .. Levels : r[l] \in Nat
  BY WalkerAssumption
<1>1. ~Lower(p, p)
  BY <1>0 DEF Lower
<1>2. p # q => Lower(p, q) \/ Lower(q, p)
  <2> SUFFICES ASSUME p # q PROVE Lower(p, q) \/ Lower(q, p)
    OBVIOUS
  <2>1. PICK l \in 1 .. Levels :
          p[l] # q[l] /\ \A k \in l + 1 .. Levels : p[k] = q[k]
    BY LastDifference
  <2>2. p[l] < q[l] \/ q[l] < p[l]
    BY <1>0, <2>1
  <2> QED BY <2>1, <2>2 DEF Lower
<1>3. ASSUME NEW r \in Pages, Lower(p, q), Lower(q, r)
      PROVE  Lower(p, r)
  <2>1. PICK i \in 1 .. Levels :
          p[i] < q[i] /\ \A k \in i + 1 .. Levels : p[k] = q[k]
    BY <1>3 DEF Lower
  <2>2. PICK j \in 1 .. Levels :
          q[j] < r[j] /\ \A k \in j + 1 .. Levels : q[k] = r[k]
    BY <1>3 DEF Lower
  <2>3. CASE i <= j
    <3>1. p[j] < r[j]
      BY <1>0, <2>1, <2>2, <2>3
    <3>2. \A k \in j + 1 .. Levels : p[k] = r[k]
      BY <1>0, <2>1, <2>2, <2>3
    <3> QED BY <3>1, <3>2 DEF Lower
  <2>4. CASE j < i
    <3>1. p[i] < r[i]
      BY <1>0, <2>1, <2>2, <2>4
    <3>2. \A k \in i + 1 .. Levels : p[k] = r[k]
      BY <1>0, <2>1, <2>2, <2>4
    <3> QED BY <3>1, <3>2 DEF Lower
  <2> QED BY <1>0, <2>3, <2>4
<1> QED BY <1>1, <1>2, <1>3

Below(S, v) == {u \in S : Lower(u, v)}

\* A page has more pages below it than a lower one.
LEMMA MoreBelow ==
  ASSUME NEW S \in SUBSET Pages, IsFiniteSet(S), NEW v \in S, NEW w \in S,
         Lower(v, w)
  PROVE  Cardinality(Below(S, v)) # Cardinality(Below(S, w))
<1>1. Below(S, v) \subseteq Below(S, w)
  BY LowerOrder DEF Below
<1>2. v \in Below(S, w) /\ v \notin Below(S, v)
  BY LowerOrder DEF Below
<1>3. IsFiniteSet(Below(S, w))
  BY FS_Subset DEF Below
<1> QED BY <1>1, <1>2, <1>3, FS_Subset

\* Every rank up to the size of the map is that of a page.
LEMMA RankTaken ==
  ASSUME NEW S \in SUBSET Pages, IsFiniteSet(S), NEW n \in 1 .. Cardinality(S)
  PROVE  \E v \in S : Cardinality(Below(S, v)) = n - 1
<1> DEFINE R == 1 .. Cardinality(S)
           rank == [v \in S |-> Cardinality(Below(S, v)) + 1]
<1>1. Cardinality(S) \in Nat
  BY FS_CardinalityType
<1>2. ASSUME NEW v \in S
      PROVE  Cardinality(Below(S, v)) \in 0 .. Cardinality(S) - 1
  <2>1. Below(S, v) \subseteq S \ {v}
    BY LowerOrder DEF Below
  <2>2. IsFiniteSet(S \ {v}) /\ Cardinality(S \ {v}) = Cardinality(S) - 1
    BY FS_RemoveElement
  <2>3. IsFiniteSet(Below(S, v)) /\ Cardinality(Below(S, v)) <= Cardinality(S) - 1
    BY <2>1, <2>2, FS_Subset
  <2>4. Cardinality(Below(S, v)) \in Nat
    BY <2>3, FS_CardinalityType
  <2> QED BY <1>1, <2>3, <2>4
<1>3. rank \in [S -> R]
  BY <1>1, <1>2
<1>4. ASSUME NEW v \in S, NEW w \in S, rank[v] = rank[w]
      PROVE  v = w
  <2>1. Cardinality(Below(S, v)) = Cardinality(Below(S, w))
    BY <1>1, <1>2, <1>4
  <2>2. ~Lower(v, w) /\ ~Lower(w, v)
    BY <2>1, MoreBelow
  <2> QED BY <2>2, LowerOrder
<1> HIDE DEF rank
<1>5. rank \in Injection(S, R)
  BY <1>3, <1>4, Fun_IsInj
<1>6. IsFiniteSet(R) /\ Cardinality(R) = Cardinality(S)
  BY <1>1, FS_Interval
<1>7. rank \in Surjection(S, R)
  BY <1>5, <1>6, FS_Injection
<1>8. PICK v \in S : rank[v] = n
  <2>1. \A t \in R : \E v \in S : rank[v] = t
    BY <1>7 DEF Surjection
  <2> QED BY <2>1
<1>9. Cardinality(Below(S, v)) + 1 = n
  BY <1>8 DEF rank
<1> QED BY <1>1, <1>2, <1>9

\* The pages that give up their frames are in the map, each once.
LEMMA VictimsDistinct ==
  ASSUME DOMAIN page_table \in SUBSET Pages, IsFiniteSet(DOMAIN page_table)
  PROVE  /\ \A n \in 1 .. DataPages : Victim(n) \in DOMAIN page_table
         /\ \A m, n \in 1 .. DataPages : Victim(m) = Victim(n) => m = n
<1>1. \A n \in 1 .. DataPages :
        /\ Victim(n) \in DOMAIN page_table
        /\ Cardinality(Below(DOMAIN page_table, Victim(n))) = n - 1
  BY RankTaken DEF Victim, DataPages, Below
<1>2. DataPages \in Nat
  BY FS_CardinalityType DEF DataPages
<1> QED BY <1>1, <1>2

-----------------------------------------------------------------------------
(* The inductive invariant *)

\* An entry of a page-table page is reached from CR3.
TreeClosed ==
  \A p \in Pages, l \in 1 .. Levels :
    Node(p, l) \in DOMAIN tree =>
      CR3 \in DOMAIN tree /\ \A k \in l .. Levels : Node(p, k) \in DOMAIN tree

\* q holds no page twice, and its entries are what the STLB has asked for.
Once(q) == \A i, j \in DOMAIN q : q[i].page = q[j].page => i = j
Asked(q, types) ==
  \A i \in DOMAIN q : asked[q[i].page] = q[i].type /\ q[i].type \in types

Demands == Types \ {"PREFETCH_TRANSLATION"}

\* A page is requested in one place only.
RequestsAsked ==
  /\ Asked(RQ, Demands) /\ Once(RQ)
  /\ Asked(PQ, {"PREFETCH_TRANSLATION"}) /\ Once(PQ)
  /\ Asked(MSHR, Types)
  /\ \A i \in DOMAIN MSHR :
       /\ \A j \in DOMAIN RQ : RQ[j].page # MSHR[i].page
       /\ \A j \in DOMAIN PQ : PQ[j].page # MSHR[i].page

\* The table that a walk at level l reads.
Table(p, l) == IF l = Levels THEN CR3 ELSE Node(p, l + 1)

\* The entries above level l are in the tree.
Reached(p, l) ==
  CR3 \in DOMAIN tree /\ \A k \in l + 1 .. Levels : Node(p, k) \in DOMAIN tree

\* The walk has found all levels above its own, reads the table of its level,
\* and the MMU caches it will fill do not hold its entries.
WalkOK ==
  \A i \in DOMAIN MSHR :
    LET e == MSHR[i]
    IN  /\ e.returned = "INFLIGHT" => /\ e.level \in 1 .. e.init
                                      /\ Reached(e.page, e.level)
                                      /\ e.base = tree[Table(e.page, e.level)]
        /\ e.returned = "COMPLETED" => /\ e.level \in 0 .. e.init - 1
                                       /\ Reached(e.page, e.level + 1)
        /\ \A l \in 2 .. e.init : Hits(e.page, l) = {}

\* Every frame that has been drawn has an owner in the page map.
FramesCounted ==
  /\ IsFiniteSet(DOMAIN page_table)
  /\ DataPages + Len(table_pages) = allocated_pages
  /\ \A p \in DOMAIN page_table : page_table[p] <= allocated_pages
  /\ \A i \in DOMAIN table_pages : table_pages[i] <= allocated_pages
  /\ \A n \in DOMAIN tree : tree[n] <= allocated_pages

\* The page map and the tree agree on the pages of the map, and until pages
\* are replaced these are all pages of the tree.
MapAgrees ==
  /\ \A p \in DOMAIN page_table :
       Node(p, 1) \in DOMAIN tree /\ page_table[p] = tree[Node(p, 1)]
  /\ ~major_fault =>
       \A p \in Pages : Node(p, 1) \in DOMAIN tree => p \in DOMAIN page_table

\* The TLBs hold what the tree holds.
CopiesAnswered ==
  \A p \in Pages : copies[p] # None =>
    Node(p, 1) \in DOMAIN tree /\ copies[p] = tree[Node(p, 1)]

FrameInv == FramesCounted /\ FramesUnshared /\ MapAgrees

IInv == /\ TypeOK /\ TreeClosed /\ RequestsAsked /\ WalkOK /\ FrameInv
        /\ MMUCachesCoherent /\ CopiesAnswered

-----------------------------------------------------------------------------
(* The frames a page fault draws *)

\* A node of the radix tree names its level and the offsets above it: it
\* determines the nodes over it, and a leaf its page.
LEMMA NodeFacts ==
  ASSUME NEW p \in Pages, NEW l \in 1 .. Levels
  PROVE  /\ Node(p, l)[1] = l /\ Node(p, l) # CR3 /\ CR3[1] = Levels + 1
         /\ Node(p, l) \in Nodes /\ CR3 \in Nodes
         /\ \A q \in Pages, k \in 1 .. Levels : Node(p, l) = Node(q, k) =>
              l = k /\ \A m \in l .. Levels : Node(p, m) = Node(q, m)
         /\ \A q \in Pages : Node(p, 1) = Node(q, 1) => p = q
<1>0. Levels \in Nat /\ Pages \subseteq [1 .. Levels -> Offsets]
  BY WalkerAssumption
<1>1. Node(p, l)[1] = l /\ Node(p, l) # CR3 /\ CR3[1] = Levels + 1
  BY <1>0 DEF Node, CR3
<1>2. Node(p, l) \in Nodes /\ CR3 \in Nodes
  BY DEF Nodes
<1>3. ASSUME NEW q \in Pages, NEW k \in 1 .. Levels, Node(p, l) = Node(q, k)
      PROVE  l = k /\ \A m \in l .. Levels : Node(p, m) = Node(q, m)
  <2>1. l = k /\ [j \in l .. Levels |-> p[j]] = [j \in k .. Levels |-> q[j]]
    BY <1>3 DEF Node
  <2>2. \A j \in l .. Levels : p[j] = q[j]
    BY <2>1
  <2> QED BY <1>0, <2>1, <2>2 DEF Node
<1>4. ASSUME NEW q \in Pages, Node(p, 1) = Node(q, 1)
      PROVE  p = q
  <2>1. [j \in 1 .. Levels |-> p[j]] = [j \in 1 .. Levels |-> q[j]]
    BY <1>4 DEF Node
  <2>2. p = [j \in 1 .. Levels |-> p[j]] /\ q = [j \in 1 .. Levels |-> q[j]]
    BY <1>0
  <2> QED BY <2>1, <2>2
<1> QED BY <1>1, <1>2, <1>3, <1>4

\* The types that a page fault needs.
LEMMA FrameTypes ==
  ASSUME TypeOK, FramesCounted
  PROVE  /\ DOMAIN page_table \in SUBSET Pages /\ IsFiniteSet(DOMAIN page_table)
         /\ DataPages \in Nat /\ DRAM_PAGES \in Nat /\ Levels \in Nat
         /\ allocated_pages \in 0 .. DRAM_PAGES /\ Free \in 0 .. DRAM_PAGES
         /\ Free = DRAM_PAGES - allocated_pages
         /\ Len(table_pages) \in Nat /\ table_pages \in Seq(FrameSet)
         /\ DOMAIN table_pages = 1 .. Len(table_pages)
         /\ DataPages + Len(table_pages) = allocated_pages
         /\ \A p \in DOMAIN page_table : page_table[p] \in 1 .. allocated_pages
         /\ \A i \in 1 .. Len(table_pages) : table_pages[i] \in 1 .. allocated_pages
         /\ DRAM_PAGES >= Levels + 1
<1>1. DataPages \in Nat
  BY FS_CardinalityType DEF FramesCounted, DataPages
<1>2. allocated_pages \in 0 .. DRAM_PAGES /\ DRAM_PAGES \in Nat /\ Levels \in Nat
  BY WalkerAssumption DEF TypeOK
<1>3. Free \in 0 .. DRAM_PAGES /\ Free = DRAM_PAGES - allocated_pages
  BY <1>2 DEF Free
<1>4. Len(table_pages) \in Nat /\ DOMAIN table_pages = 1 .. Len(table_pages)
  BY DEF TypeOK
<1>5. \A p \in DOMAIN page_table : page_table[p] \in FrameSet
  BY DEF TypeOK
<1>6. \A i \in 1 .. Len(table_pages) : table_pages[i] \in FrameSet
  BY <1>4 DEF TypeOK
<1> QED BY <1>1, <1>2, <1>3, <1>4, <1>5, <1>6, RoomForOneWalk
        DEF FramesCounted, TypeOK, FrameSet

\* The frames a fault takes from pages in the map, n of them.
LEMMA TakenFrames ==
  ASSUME TypeOK, FrameInv
  PROVE  /\ \A n \in 1 .. allocated_pages : TakenFrame(n) \in 1 .. allocated_pages
         /\ \A m, n \in 1 .. allocated_pages : TakenFrame(m) = TakenFrame(n) => m = n
         /\ \A n \in 1 .. allocated_pages, q \in DOMAIN page_table :
              TakenFrame(n) = page_table[q] => n <= DataPages /\ q = Victim(n)
         /\ \A n \in 1 .. allocated_pages, i \in 1 .. Len(table_pages) :
              TakenFrame(n) = table_pages[i] => n = DataPages + i
<1>1. TypeOK /\ FramesCounted /\ FramesUnshared
  BY DEF FrameInv
<1>2. /\ \A n \in 1 .. DataPages : Victim(n) \in DOMAIN page_table
      /\ \A m, n \in 1 .. DataPages : Victim(m) = Victim(n) => m = n
  BY <1>1, FrameTypes, VictimsDistinct
<1>3. ASSUME NEW n \in 1 .. allocated_pages
      PROVE  \/ /\ n \in 1 .. DataPages /\ Victim(n) \in DOMAIN page_table
                /\ TakenFrame(n) = page_table[Victim(n)]
             \/ /\ n > DataPages /\ n - DataPages \in 1 .. Len(table_pages)
                /\ TakenFrame(n) = table_pages[n - DataPages]
  BY <1>1, <1>2, FrameTypes DEF TakenFrame
<1>4. \A n \in 1 .. allocated_pages : TakenFrame(n) \in 1 .. allocated_pages
  BY <1>1, <1>3, FrameTypes
<1>5. ASSUME NEW n \in 1 .. allocated_pages, NEW q \in DOMAIN page_table,
             TakenFrame(n) = page_table[q]
      PROVE  n <= DataPages /\ q = Victim(n)
  BY <1>1, <1>3, <1>5, FrameTypes DEF FramesUnshared
<1>6. ASSUME NEW n \in 1 .. allocated_pages, NEW i \in 1 .. Len(table_pages),
             TakenFrame(n) = table_pages[i]
      PROVE  n = DataPages + i
  <2>1. CASE n \in 1 .. DataPages /\ Victim(n) \in DOMAIN page_table
                /\ TakenFrame(n) = page_table[Victim(n)]
    BY <1>1, <1>6, <2>1, FrameTypes DEF FramesUnshared
  <2>2. CASE n > DataPages /\ n - DataPages \in 1 .. Len(table_pages)
                /\ TakenFrame(n) = table_pages[n - DataPages]
    <3>1. n - DataPages = i
      BY <1>1, <1>6, <2>2, FrameTypes DEF FramesUnshared
    <3> QED BY <1>1, <3>1, FrameTypes
  <2> QED BY <1>3, <2>1, <2>2
<1>7. ASSUME NEW m \in 1 .. allocated_pages, NEW n \in 1 .. allocated_pages,
             TakenFrame(m) = TakenFrame(n)
      PROVE  m = n
  <2>1. CASE n \in 1 .. DataPages /\ Victim(n) \in DOMAIN page_table
                /\ TakenFrame(n) = page_table[Victim(n)]
    <3>1. m <= DataPages /\ Victim(n) = Victim(m)
      BY <1>5, <1>7, <2>1
    <3> QED BY <1>1, <1>2, <2>1, <3>1, FrameTypes
  <2>2. CASE n > DataPages /\ n - DataPages \in 1 .. Len(table_pages)
                /\ TakenFrame(n) = table_pages[n - DataPages]
    <3>1. m = DataPages + (n - DataPages)
      BY <1>6, <1>7, <2>2
    <3> QED BY <1>1, <3>1, FrameTypes
  <2> QED BY <1>3, <2>1, <2>2
<1> QED BY <1>4, <1>5, <1>6, <1>7

\* The pages that lose their frames, data pages first.
LEMMA TakenPages ==
  ASSUME TypeOK, FrameInv, NEW L \in 1 .. Levels + 1
  PROVE  /\ Victims(L) \subseteq DOMAIN page_table /\ IsFiniteSet(Victims(L))
         /\ TakenTables(L) \in 0 .. Len(table_pages)
         /\ Cardinality(Victims(L)) + TakenTables(L) =
              (IF L <= Free THEN 0 ELSE L - Free)
         /\ L <= Free => Victims(L) = {} /\ TakenTables(L) = 0
         /\ L > Free => L - Free \in 1 .. allocated_pages
<1> DEFINE n == L - Free
           N == IF n <= DataPages THEN n ELSE DataPages
<1>1. TypeOK /\ FramesCounted /\ FramesUnshared
  BY DEF FrameInv
<1>2. /\ \A k \in 1 .. DataPages : Victim(k) \in DOMAIN page_table
      /\ \A j, k \in 1 .. DataPages : Victim(j) = Victim(k) => j = k
  BY <1>1, FrameTypes, VictimsDistinct
<1>3. n \in Int /\ n <= allocated_pages
  BY <1>1, FrameTypes
<1>4. CASE L <= Free
  <2>1. Victims(L) = {} /\ TakenTables(L) = 0
    BY <1>1, <1>4, FrameTypes DEF Victims, TakenTables
  <2> QED BY <1>1, <1>4, <2>1, FrameTypes, FS_EmptySet
<1>5. CASE L > Free
  <2>1. n \in 1 .. allocated_pages
    BY <1>1, <1>3, <1>5, FrameTypes
  <2>2. TakenTables(L) = n - N /\ TakenTables(L) \in 0 .. Len(table_pages)
        /\ N \in Nat /\ N <= DataPages
    <3>1. TakenTables(L) = IF n > DataPages THEN n - DataPages ELSE 0
      BY DEF TakenTables
    <3> HIDE DEF n
    <3>2. CASE n <= DataPages
      BY <1>1, <2>1, <3>1, <3>2, FrameTypes
    <3>3. CASE n > DataPages
      BY <1>1, <2>1, <3>1, <3>3, FrameTypes
    <3> QED BY <1>1, <2>1, <3>2, <3>3, FrameTypes
  <2>3. {k \in 1 .. n : k <= DataPages} = 1 .. N
    BY <1>1, <2>1, FrameTypes
  <2>4. Victims(L) = {Victim(k) : k \in 1 .. N}
    BY <2>3 DEF Victims
  <2> DEFINE f == [k \in 1 .. N |-> Victim(k)]
  <2> HIDE DEF n, N
  <2>5. f \in Bijection(1 .. N, Victims(L))
    <3>1. f \in [1 .. N -> Victims(L)]
      BY <2>4
    <3>2. ASSUME NEW j \in 1 .. N, NEW k \in 1 .. N, f[j] = f[k]
          PROVE  j = k
      <4>1. j \in 1 .. DataPages /\ k \in 1 .. DataPages
        BY <1>1, <2>2, FrameTypes
      <4>2. Victim(j) = Victim(k)
        BY <3>2
      <4> QED BY <1>2, <4>1, <4>2
    <3>3. \A t \in Victims(L) : \E s \in 1 .. N : f[s] = t
      BY <2>4
    <3> HIDE DEF f
    <3> QED BY <3>1, <3>2, <3>3, Fun_IsBij
  <2>6. IsFiniteSet(1 .. N) /\ Cardinality(1 .. N) = N
    BY <2>2, FS_Interval
  <2>7. ExistsBijection(1 .. N, Victims(L))
    BY <2>5, Fun_ExistsBij
  <2>8. IsFiniteSet(Victims(L)) /\ Cardinality(Victims(L)) = N
    BY <2>6, <2>7, FS_Bijection
  <2>9. Victims(L) \subseteq DOMAIN page_table
    BY <1>1, <1>2, <2>2, <2>4, FrameTypes
  <2>10. n = L - Free
    BY DEF n
  <2>11. N + TakenTables(L) = L - Free
    BY <1>1, <2>2, <2>10, FrameTypes
  <2>12. ~(L <= Free) /\ L - Free \in 1 .. allocated_pages
    BY <1>1, <1>5, <2>1, <2>10, FrameTypes
  <2>13. Cardinality(Victims(L)) + TakenTables(L) = L - Free
    BY <2>8, <2>11
  <2> QED BY <2>2, <2>8, <2>9, <2>12, <2>13
<1> QED BY <1>1, <1>4, <1>5, FrameTypes

\* The frames that have been drawn once a fault has drawn L.
Drawn(L) == allocated_pages + (IF L <= Free THEN L ELSE Free)

\* A fault draws different frames, none of which stays with another page.
LEMMA Draws ==
  ASSUME TypeOK, FrameInv, NEW L \in 1 .. Levels + 1
  PROVE  /\ Drawn(L) \in allocated_pages .. DRAM_PAGES
         /\ \A n \in 1 .. L : Draw(n) \in 1 .. Drawn(L)
         /\ \A m, n \in 1 .. L : Draw(m) = Draw(n) => m = n
         /\ \A n \in 1 .. L, q \in DOMAIN page_table :
              Draw(n) = page_table[q] => q \in Victims(L)
         /\ \A n \in 1 .. L, i \in 1 .. Len(table_pages) :
              Draw(n) = table_pages[i] => i <= TakenTables(L)
         /\ L <= Free => \A n \in 1 .. L : Draw(n) = allocated_pages + n
<1>1. TypeOK /\ FramesCounted /\ FramesUnshared
  BY DEF FrameInv
<1>0. /\ allocated_pages \in Nat /\ Free \in Nat /\ DataPages \in Nat
      /\ L \in Nat \ {0} /\ DRAM_PAGES = allocated_pages + Free
  BY <1>1, FrameTypes
<1>2. ASSUME NEW n \in 1 .. L
      PROVE  \/ n <= Free /\ Draw(n) = allocated_pages + n
             \/ /\ L > Free /\ n - Free \in 1 .. allocated_pages
                /\ n - Free \in 1 .. L - Free
                /\ Draw(n) = TakenFrame(n - Free)
                /\ Draw(n) \in 1 .. allocated_pages
  <2>1. CASE n <= Free
    BY <2>1 DEF Draw
  <2>2. CASE ~(n <= Free)
    <3>1. L > Free /\ L - Free \in 1 .. allocated_pages
      BY <1>1, <2>2, TakenPages, FrameTypes
    <3>2. n - Free \in 1 .. allocated_pages /\ n - Free \in 1 .. L - Free
      BY <1>0, <2>2, <3>1
    <3>3. Draw(n) = TakenFrame(n - Free)
      BY <2>2 DEF Draw
    <3>4. TakenFrame(n - Free) \in 1 .. allocated_pages
      BY <3>2, TakenFrames
    <3> QED BY <3>1, <3>2, <3>3, <3>4
  <2> QED BY <2>1, <2>2
<1>3. Drawn(L) \in allocated_pages .. DRAM_PAGES
  BY <1>0 DEF Drawn
<1>4. \A n \in 1 .. L : Draw(n) \in 1 .. Drawn(L)
  BY <1>0, <1>2 DEF Drawn
<1>5. ASSUME NEW m \in 1 .. L, NEW n \in 1 .. L, Draw(m) = Draw(n)
      PROVE  m = n
  <2>0. /\ m \in Nat \ {0} /\ allocated_pages + m \notin 1 .. allocated_pages
        /\ n \in Nat \ {0} /\ allocated_pages + n \notin 1 .. allocated_pages
    BY <1>0
  <2>1. CASE m <= Free /\ Draw(m) = allocated_pages + m
    <3>1. n <= Free /\ Draw(n) = allocated_pages + n
      BY <1>2, <1>5, <2>0, <2>1
    <3>2. allocated_pages + m = allocated_pages + n
      BY <1>5, <2>1, <3>1
    <3> QED BY <1>0, <2>0, <3>2
  <2>2. CASE /\ L > Free /\ m - Free \in 1 .. allocated_pages
             /\ Draw(m) = TakenFrame(m - Free)
             /\ Draw(m) \in 1 .. allocated_pages
    <3>1. CASE n <= Free /\ Draw(n) = allocated_pages + n
      BY <1>5, <2>0, <2>2, <3>1
    <3>2. CASE n - Free \in 1 .. allocated_pages /\ Draw(n) = TakenFrame(n - Free)
      <4>1. m - Free = n - Free
        BY <1>5, <2>2, <3>2, TakenFrames
      <4> QED BY <1>0, <4>1
    <3> QED BY <1>2, <3>1, <3>2
  <2> QED BY <1>2, <2>1, <2>2
<1>6. ASSUME NEW n \in 1 .. L, NEW q \in DOMAIN page_table,
             Draw(n) = page_table[q]
      PROVE  q \in Victims(L)
  <2>0. page_table[q] \in 1 .. allocated_pages
    BY <1>1, FrameTypes
  <2>1. n - Free \in 1 .. allocated_pages /\ n - Free \in 1 .. L - Free
        /\ TakenFrame(n - Free) = page_table[q]
    BY <1>0, <1>2, <1>6, <2>0
  <2>2. n - Free <= DataPages /\ q = Victim(n - Free)
    BY <2>1, TakenFrames
  <2> QED BY <2>1, <2>2 DEF Victims
<1>7. ASSUME NEW n \in 1 .. L, NEW i \in 1 .. Len(table_pages),
             Draw(n) = table_pages[i]
      PROVE  i <= TakenTables(L)
  <2>0. table_pages[i] \in 1 .. allocated_pages
    BY <1>1, FrameTypes
  <2>1. n - Free \in 1 .. allocated_pages /\ n - Free \in 1 .. L - Free
        /\ TakenFrame(n - Free) = table_pages[i]
    BY <1>0, <1>2, <1>7, <2>0
  <2>2. n - Free = DataPages + i
    BY <2>1, TakenFrames
  <2>3. i \in Nat \ {0}
    BY <1>1, FrameTypes
  <2> QED BY <1>0, <2>1, <2>2, <2>3 DEF TakenTables
<1>8. L <= Free => \A n \in 1 .. L : Draw(n) = allocated_pages + n
  <2> SUFFICES ASSUME L <= Free, NEW n \in 1 .. L
               PROVE  Draw(n) = allocated_pages + n
    OBVIOUS
  <2> QED BY <1>0, <1>2
<1> QED BY <1>3, <1>4, <1>5, <1>6, <1>7, <1>8

\* Table pages that stay, followed by those that have been drawn.
LEMMA KeptAndDrawn ==
  ASSUME NEW S, NEW t \in Seq(S), NEW T \in 0 .. Len(t),
         NEW N \in Nat, NEW d \in [1 .. N -> S]
  PROVE  LET s == SubSeq(t, T + 1, Len(t)) \o d
         IN  /\ s \in Seq(S) /\ Len(s) = Len(t) - T + N
             /\ DOMAIN s = 1 .. Len(t) - T + N
             /\ \A i \in 1 .. Len(t) - T : s[i] = t[T + i]
             /\ \A i \in Len(t) - T + 1 .. Len(t) - T + N :
                  s[i] = d[i - (Len(t) - T)]
<1> DEFINE kept == SubSeq(t, T + 1, Len(t))
<1>1. /\ kept \in Seq(S) /\ Len(kept) = Len(t) - T
      /\ \A i \in 1 .. Len(t) - T : kept[i] = t[T + i]
  <2>1. T + 1 \in 1 .. Len(t) + 1 /\ Len(t) \in Nat
    OBVIOUS
  <2> QED BY <2>1, SubSeqProperties
<1>2. d \in Seq(S) /\ Len(d) = N
  OBVIOUS
<1> HIDE DEF kept
<1>3. /\ kept \o d \in Seq(S) /\ Len(kept \o d) = Len(kept) + N
      /\ \A i \in 1 .. Len(kept) + N :
           (kept \o d)[i] = IF i <= Len(kept) THEN kept[i] ELSE d[i - Len(kept)]
  BY <1>1, <1>2, ConcatProperties
<1>4. DOMAIN (kept \o d) = 1 .. Len(kept) + N
  BY <1>1, <1>2, <1>3
<1>5. \A i \in 1 .. Len(t) - T : (kept \o d)[i] = t[T + i]
  <2> TAKE i \in 1 .. Len(t) - T
  <2>1. i \in 1 .. Len(kept) + N /\ i <= Len(kept)
    BY <1>1
  <2> QED BY <2>1, <1>1, <1>3
<1>6. \A i \in Len(t) - T + 1 .. Len(t) - T + N : (kept \o d)[i] = d[i - (Len(t) - T)]
  <2> TAKE i \in Len(t) - T + 1 .. Len(t) - T + N
  <2>1. i \in 1 .. Len(kept) + N /\ ~(i <= Len(kept))
    BY <1>1
  <2> QED BY <2>1, <1>1, <1>3
<1>7. /\ kept \o d \in Seq(S) /\ Len(kept \o d) = Len(t) - T + N
      /\ DOMAIN (kept \o d) = 1 .. Len(t) - T + N
  BY <1>1, <1>3, <1>4
<1> QED BY <1>5, <1>6, <1>7 DEF kept

-----------------------------------------------------------------------------
(* A page fault *)

\* The walk for p has found the entries above level L and misses level L.
FaultsAt(p, L) ==
  /\ L \in 1 .. Levels + 1
  /\ \A k \in 1 .. Levels : Node(p, k) \in DOMAIN tree <=> k > L
  /\ CR3 \in DOMAIN tree <=> L <= Levels

NewNodes(p, L) ==
  {Node(p, l) : l \in 1 .. (IF L > Levels THEN Levels ELSE L)}
    \cup (IF L > Levels THEN {CR3} ELSE {})

\* The first missing entry of a walk is where it faults.
LEMMA FaultFound ==
  ASSUME TreeClosed, NEW p \in Pages, NEW level \in 0 .. Levels - 1,
         Reached(p, level + 1), NEW l \in Missing(p, level),
         \A k \in Missing(p, level) : k <= l
  PROVE  FaultsAt(p, l) /\ l \in 1 .. Levels
<1>0. Levels \in Nat
  BY WalkerAssumption
<1>1. l \in level + 1 .. Levels /\ l \in 1 .. Levels /\ Node(p, l) \notin DOMAIN tree
  BY <1>0 DEF Missing
<1>2. CR3 \in DOMAIN tree
  BY DEF Reached
<1>3. ASSUME NEW k \in 1 .. Levels, k > l
      PROVE  Node(p, k) \in DOMAIN tree
  BY <1>0, <1>1, <1>3 DEF Missing
<1>4. ASSUME NEW k \in 1 .. Levels, Node(p, k) \in DOMAIN tree
      PROVE  k > l
  BY <1>0, <1>1, <1>4 DEF TreeClosed
<1> QED BY <1>0, <1>1, <1>2, <1>3, <1>4 DEF FaultsAt

\* A fault adds the missing entries of its page, each with a frame of its own,
\* and changes none.
LEMMA FaultTree ==
  ASSUME TypeOK, FrameInv, TreeClosed, NEW p \in Pages, NEW L,
         FaultsAt(p, L), handle_page_fault(p, L)
  PROVE  /\ DOMAIN tree' = DOMAIN tree \cup NewNodes(p, L)
         /\ \A n \in DOMAIN tree : tree'[n] = tree[n]
         /\ \A n \in NewNodes(p, L) :
              /\ n \in Nodes /\ n[1] \in 1 .. L
              /\ tree'[n] = Draw(L - n[1] + 1)
         /\ \A m, n \in NewNodes(p, L) : m[1] = n[1] => m = n
         /\ tree' = [n \in DOMAIN tree' |-> tree'[n]]
         /\ \A k \in 1 .. Levels : Node(p, k) \in DOMAIN tree'
         /\ CR3 \in DOMAIN tree'
<1>0. Levels \in Nat /\ L \in 1 .. Levels + 1
  BY WalkerAssumption DEF FaultsAt
<1>1. tree' = [n \in DOMAIN tree \cup NewNodes(p, L) |->
                 IF n \in NewNodes(p, L) THEN Draw(L - n[1] + 1) ELSE tree[n]]
  BY DEF handle_page_fault, NewNodes
<1>2. /\ \A n \in NewNodes(p, L) : n \in Nodes /\ n[1] \in 1 .. L
      /\ \A m, n \in NewNodes(p, L) : m[1] = n[1] => m = n
      /\ \A n \in NewNodes(p, L) : n \notin DOMAIN tree
  <2>1. \A n \in NewNodes(p, L) :
          \/ \E l \in 1 .. Levels : l <= L /\ n = Node(p, l)
          \/ L = Levels + 1 /\ n = CR3
    BY <1>0 DEF NewNodes
  <2>2. /\ \A l \in 1 .. Levels : Node(p, l)[1] = l /\ Node(p, l) \in Nodes
        /\ CR3[1] = Levels + 1 /\ CR3 \in Nodes
    <3>1. \A l \in 1 .. Levels : Node(p, l)[1] = l /\ Node(p, l) \in Nodes
      BY NodeFacts
    <3> QED BY <3>1 DEF CR3, Nodes
  <2>3. /\ \A l \in 1 .. Levels : l <= L => Node(p, l) \notin DOMAIN tree
        /\ L = Levels + 1 => CR3 \notin DOMAIN tree
    BY <1>0 DEF FaultsAt
  <2>4. \A n \in NewNodes(p, L) : n \in Nodes /\ n[1] \in 1 .. L
    BY <1>0, <2>1, <2>2
  <2>5. \A m, n \in NewNodes(p, L) : m[1] = n[1] => m = n
    BY <1>0, <2>1, <2>2
  <2> QED BY <2>1, <2>3, <2>4, <2>5
<1>3. \A k \in 1 .. Levels : Node(p, k) \in DOMAIN tree \cup NewNodes(p, L)
  BY <1>0 DEF NewNodes, FaultsAt
<1>4. CR3 \in DOMAIN tree \cup NewNodes(p, L)
  BY <1>0 DEF NewNodes, FaultsAt
<1> QED BY <1>1, <1>2, <1>3, <1>4

\* The tree stays closed.
LEMMA FaultCloses ==
  ASSUME TypeOK, FrameInv, TreeClosed, NEW p \in Pages, NEW L,
         FaultsAt(p, L), handle_page_fault(p, L)
  PROVE  TreeClosed'
<1> SUFFICES ASSUME NEW q \in Pages, NEW l \in 1 .. Levels, Node(q, l) \in DOMAIN tree'
             PROVE  CR3 \in DOMAIN tree' /\
                    \A k \in l .. Levels : Node(q, k) \in DOMAIN tree'
  BY DEF TreeClosed, Node, CR3
<1>0. Levels \in Nat
  BY WalkerAssumption
<1>1. CASE Node(q, l) \in DOMAIN tree
  <2>1. DOMAIN tree \subseteq DOMAIN tree'
    BY FaultTree
  <2> QED BY <1>1, <2>1 DEF TreeClosed
<1>2. CASE Node(q, l) \in NewNodes(p, L)
  <2>1. PICK m \in 1 .. Levels : Node(q, l) = Node(p, m)
    BY <1>0, <1>2, NodeFacts DEF NewNodes, FaultsAt
  <2>2. \A k \in l .. Levels : Node(q, k) = Node(p, k)
    BY <2>1, NodeFacts
  <2>3. \A k \in l .. Levels : Node(p, k) \in DOMAIN tree'
    <3>1. \A k \in 1 .. Levels : Node(p, k) \in DOMAIN tree'
      BY FaultTree
    <3> QED BY <1>0, <3>1
  <2>4. CR3 \in DOMAIN tree'
    BY FaultTree
  <2> QED BY <2>2, <2>3, <2>4
<1>3. DOMAIN tree' = DOMAIN tree \cup NewNodes(p, L)
  BY FaultTree
<1> QED BY <1>1, <1>2, <1>3

\* The page map after a fault: the victims are gone, p has the last frame, and
\* the table pages that stay are followed by the other frames.
LEMMA FaultMap ==
  ASSUME TypeOK, FrameInv, NEW p \in Pages, NEW L, FaultsAt(p, L),
         handle_page_fault(p, L)
  PROVE  /\ L \in 1 .. Levels + 1 /\ p \notin DOMAIN page_table
         /\ DOMAIN page_table' = (DOMAIN page_table \ Victims(L)) \cup {p}
         /\ page_table'[p] = Draw(L)
         /\ \A q \in DOMAIN page_table \ Victims(L) : page_table'[q] = page_table[q]
         /\ page_table' = [q \in DOMAIN page_table' |-> page_table'[q]]
         /\ Len(table_pages') = Len(table_pages) - TakenTables(L) + (L - 1)
         /\ table_pages' \in Seq(FrameSet)
         /\ DOMAIN table_pages' = 1 .. Len(table_pages) - TakenTables(L) + (L - 1)
         /\ \A i \in 1 .. Len(table_pages) - TakenTables(L) :
              table_pages'[i] = table_pages[TakenTables(L) + i]
         /\ \A i \in Len(table_pages) - TakenTables(L) + 1
                       .. Len(table_pages) - TakenTables(L) + (L - 1) :
              table_pages'[i] = Draw(i - (Len(table_pages) - TakenTables(L)))
         /\ allocated_pages' = Drawn(L)
         /\ major_fault' = (major_fault \/ L > Free)
<1>0. TypeOK /\ FramesCounted /\ Levels \in Nat /\ L \in 1 .. Levels + 1
  BY WalkerAssumption DEF FrameInv, FaultsAt
<1>1. p \notin DOMAIN page_table
  <2>1. Node(p, 1) \notin DOMAIN tree
    BY <1>0, WalkerAssumption DEF FaultsAt
  <2> QED BY <2>1 DEF FrameInv, MapAgrees
<1>2. page_table' = [q \in (DOMAIN page_table \ Victims(L)) \cup {p} |->
                       IF q = p THEN Draw(L - 1 + 1) ELSE page_table[q]]
  BY DEF handle_page_fault
<1>3. L - 1 + 1 = L
  BY <1>0
<1>4. /\ allocated_pages' = Drawn(L)
      /\ major_fault' = (major_fault \/ L > Free)
  BY DEF handle_page_fault, Drawn
<1> DEFINE M == L - 1
           d == [n \in 1 .. M |-> Draw(n)]
           T == TakenTables(L)
<1>5. table_pages' = SubSeq(table_pages, T + 1, Len(table_pages)) \o d
  BY DEF handle_page_fault
<1>6. d \in [1 .. M -> FrameSet] /\ \A n \in 1 .. M : d[n] = Draw(n)
  <2>1. \A n \in 1 .. M : Draw(n) \in FrameSet
    <3>1. \A n \in 1 .. L : Draw(n) \in 1 .. Drawn(L)
      BY <1>0, Draws
    <3>2. Drawn(L) \in Nat /\ Drawn(L) <= DRAM_PAGES
      BY <1>0, Draws, FrameTypes
    <3>3. DRAM_PAGES \in Nat /\ \A n \in 1 .. M : n \in 1 .. L
      BY <1>0, FrameTypes
    <3> QED BY <3>1, <3>2, <3>3 DEF FrameSet
  <2> QED BY <2>1
<1>7. T \in 0 .. Len(table_pages) /\ table_pages \in Seq(FrameSet) /\ M \in Nat
      /\ Len(table_pages) \in Nat
  BY <1>0, TakenPages, FrameTypes
<1>8. M = L - 1
  OBVIOUS
<1> HIDE DEF d, T, M
<1>9. /\ table_pages' \in Seq(FrameSet)
      /\ Len(table_pages') = Len(table_pages) - T + M
      /\ DOMAIN table_pages' = 1 .. Len(table_pages) - T + M
      /\ \A i \in 1 .. Len(table_pages) - T : table_pages'[i] = table_pages[T + i]
      /\ \A i \in Len(table_pages) - T + 1 .. Len(table_pages) - T + M :
           table_pages'[i] = d[i - (Len(table_pages) - T)]
  <2> DEFINE s == SubSeq(table_pages, T + 1, Len(table_pages)) \o d
  <2>1. /\ s \in Seq(FrameSet)
        /\ Len(s) = Len(table_pages) - T + M
        /\ DOMAIN s = 1 .. Len(table_pages) - T + M
        /\ \A i \in 1 .. Len(table_pages) - T : s[i] = table_pages[T + i]
        /\ \A i \in Len(table_pages) - T + 1 .. Len(table_pages) - T + M :
             s[i] = d[i - (Len(table_pages) - T)]
    <3>1. d \in [1 .. M -> FrameSet]
      BY <1>6
    <3> QED BY <3>1, <1>7, KeptAndDrawn, SMTT(30)
  <2>2. s = table_pages'
    BY <1>5
  <2> HIDE DEF s
  <2> QED BY <2>1, <2>2
<1>10. \A i \in Len(table_pages) - T + 1 .. Len(table_pages) - T + M :
         table_pages'[i] = Draw(i - (Len(table_pages) - T))
  <2>1. Len(table_pages) - T \in Nat
    BY <1>7
  <2>2. \A i \in Len(table_pages) - T + 1 .. Len(table_pages) - T + M :
          i - (Len(table_pages) - T) \in 1 .. M
    BY <1>7, <2>1
  <2> QED BY <1>6, <1>9, <2>2
<1> QED BY <1>0, <1>1, <1>2, <1>3, <1>4, <1>8, <1>9, <1>10 DEF T

\* What a table page of the map after a fault was before.
LEMMA FaultTables ==
  ASSUME TypeOK, FrameInv, NEW p \in Pages, NEW L, FaultsAt(p, L),
         handle_page_fault(p, L), NEW i \in DOMAIN table_pages'
  PROVE  \/ \E k \in TakenTables(L) + 1 .. Len(table_pages) :
              i = k - TakenTables(L) /\ table_pages'[i] = table_pages[k]
         \/ \E n \in 1 .. L - 1 :
              /\ i = n + (Len(table_pages) - TakenTables(L))
              /\ table_pages'[i] = Draw(n)
<1> DEFINE T == TakenTables(L)
           N == Len(table_pages)
           K == N - T
           M == L - 1
<1>0. TypeOK /\ FramesCounted /\ L \in 1 .. Levels + 1 /\ Levels \in Nat
  BY WalkerAssumption DEF FrameInv, FaultsAt
<1>1. N \in Nat /\ T \in 0 .. N /\ M \in Nat /\ K \in Nat
  BY <1>0, TakenPages, FrameTypes
<1>2. /\ i \in 1 .. K + M
      /\ \A j \in 1 .. K : table_pages'[j] = table_pages[T + j]
      /\ \A j \in K + 1 .. K + M : table_pages'[j] = Draw(j - K)
  BY FaultMap
<1>3. M = L - 1 /\ K = N - T
  OBVIOUS
<1> HIDE DEF T, N, K, M
<1>4. CASE i <= K
  <2>1. T + i \in T + 1 .. N /\ i = (T + i) - T /\ i \in 1 .. K
    BY <1>1, <1>2, <1>3, <1>4
  <2>2. table_pages'[i] = table_pages[T + i]
    BY <1>2, <2>1
  <2> DEFINE k == T + i
  <2>4. k \in T + 1 .. N /\ i = k - T
    BY <2>1
  <2>5. table_pages'[i] = table_pages[k]
    BY <2>2
  <2> HIDE DEF k
  <2>3. \E j \in T + 1 .. N : i = j - T /\ table_pages'[i] = table_pages[j]
    BY <2>4, <2>5
  <2> QED BY <2>3 DEF T, N
<1>5. CASE i > K
  <2>1. i - K \in 1 .. M /\ i = i - K + K /\ i \in K + 1 .. K + M
    BY <1>1, <1>2, <1>5
  <2>2. table_pages'[i] = Draw(i - K)
    BY <1>2, <2>1
  <2>3. \E n \in 1 .. M : i = n + K /\ table_pages'[i] = Draw(n)
    BY <2>1, <2>2
  <2>4. \E n \in 1 .. L - 1 : i = n + (N - T) /\ table_pages'[i] = Draw(n)
    BY <1>3, <2>3
  <2> QED BY <2>4 DEF T, N
<1> QED BY <1>1, <1>2, <1>4, <1>5

\* A fault leaves every frame with one owner in the page map.
LEMMA FaultOwners ==
  ASSUME TypeOK, FrameInv, NEW p \in Pages, NEW L, FaultsAt(p, L),
         handle_page_fault(p, L)
  PROVE  /\ \A q, r \in DOMAIN page_table' : page_table'[q] = page_table'[r] => q = r
         /\ \A i, j \in DOMAIN table_pages' : table_pages'[i] = table_pages'[j] => i = j
         /\ \A q \in DOMAIN page_table', i \in DOMAIN table_pages' :
              page_table'[q] # table_pages'[i]
<1> DEFINE T == TakenTables(L)
           N == Len(table_pages)
           M == L - 1
<1>0. TypeOK /\ FramesCounted /\ FramesUnshared /\ L \in 1 .. Levels + 1 /\ Levels \in Nat
  BY WalkerAssumption DEF FrameInv, FaultsAt
<1>1. N \in Nat /\ T \in 0 .. N /\ M \in Nat /\ DOMAIN table_pages = 1 .. N
  BY <1>0, TakenPages, FrameTypes
<1>2. \A q \in DOMAIN page_table' :
        \/ q = p /\ page_table'[q] = Draw(L)
        \/ q \in DOMAIN page_table /\ q \notin Victims(L) /\ page_table'[q] = page_table[q]
  <2>1. DOMAIN page_table' = (DOMAIN page_table \ Victims(L)) \cup {p}
    BY FaultMap
  <2>2. page_table'[p] = Draw(L)
    BY FaultMap
  <2>3. \A q \in DOMAIN page_table \ Victims(L) : page_table'[q] = page_table[q]
    BY FaultMap
  <2> QED BY <2>1, <2>2, <2>3
<1>3. \A i \in DOMAIN table_pages' :
        \/ \E k \in T + 1 .. N : i = k - T /\ table_pages'[i] = table_pages[k]
        \/ \E n \in 1 .. M : i = n + (N - T) /\ table_pages'[i] = Draw(n)
  BY FaultTables
<1>4. /\ \A m, n \in 1 .. L : Draw(m) = Draw(n) => m = n
      /\ \A n \in 1 .. L, q \in DOMAIN page_table :
           Draw(n) = page_table[q] => q \in Victims(L)
      /\ \A n \in 1 .. L, i \in 1 .. N : Draw(n) = table_pages[i] => i <= T
  BY <1>0, Draws
<1>5. /\ \A q, r \in DOMAIN page_table : page_table[q] = page_table[r] => q = r
      /\ \A i, j \in DOMAIN table_pages : table_pages[i] = table_pages[j] => i = j
      /\ \A q \in DOMAIN page_table, i \in DOMAIN table_pages :
           page_table[q] # table_pages[i]
  BY <1>0 DEF FramesUnshared
<1>6. L \in 1 .. L /\ (\A n \in 1 .. M : n \in 1 .. L /\ n # L) /\ L \notin 1 .. M
      /\ \A k \in T + 1 .. N : k \in 1 .. N /\ ~(k <= T)
  BY <1>0, <1>1
<1> HIDE DEF T, N, M
<1>7. \A q, r \in DOMAIN page_table' : page_table'[q] = page_table'[r] => q = r
  BY <1>2, <1>4, <1>5, <1>6
<1>8. ASSUME NEW i \in DOMAIN table_pages', NEW j \in DOMAIN table_pages',
             table_pages'[i] = table_pages'[j]
      PROVE  i = j
  <2>1. CASE \E k \in T + 1 .. N : i = k - T /\ table_pages'[i] = table_pages[k]
    <3>1. PICK k \in T + 1 .. N : i = k - T /\ table_pages'[i] = table_pages[k]
      BY <2>1
    <3>2. ~ \E n \in 1 .. M : j = n + (N - T) /\ table_pages'[j] = Draw(n)
      BY <1>4, <1>6, <1>8, <3>1
    <3>3. PICK m \in T + 1 .. N : j = m - T /\ table_pages'[j] = table_pages[m]
      BY <1>3, <3>2
    <3>4. k \in DOMAIN table_pages /\ m \in DOMAIN table_pages
      BY <1>1, <1>6
    <3>5. k = m
      BY <1>5, <1>8, <3>1, <3>3, <3>4
    <3> QED BY <3>1, <3>3, <3>5
  <2>2. CASE \E n \in 1 .. M : i = n + (N - T) /\ table_pages'[i] = Draw(n)
    <3>1. PICK n \in 1 .. M : i = n + (N - T) /\ table_pages'[i] = Draw(n)
      BY <2>2
    <3>2. ~ \E k \in T + 1 .. N : j = k - T /\ table_pages'[j] = table_pages[k]
      BY <1>4, <1>6, <1>8, <3>1
    <3>3. PICK m \in 1 .. M : j = m + (N - T) /\ table_pages'[j] = Draw(m)
      BY <1>3, <3>2
    <3>4. m = n
      BY <1>4, <1>6, <1>8, <3>1, <3>3
    <3> QED BY <3>1, <3>3, <3>4
  <2> QED BY <1>3, <2>1, <2>2
<1>9. ASSUME NEW q \in DOMAIN page_table', NEW i \in DOMAIN table_pages',
             page_table'[q] = table_pages'[i]
      PROVE  FALSE
  <2>1. CASE \E k \in T + 1 .. N : i = k - T /\ table_pages'[i] = table_pages[k]
    <3>1. PICK k \in T + 1 .. N : table_pages'[i] = table_pages[k]
      BY <2>1
    <3>2. k \in DOMAIN table_pages
      BY <1>1, <1>6
    <3> QED BY <1>2, <1>4, <1>5, <1>6, <1>9, <3>1, <3>2
  <2>2. CASE \E n \in 1 .. M : i = n + (N - T) /\ table_pages'[i] = Draw(n)
    <3>1. PICK n \in 1 .. M : table_pages'[i] = Draw(n)
      BY <2>2
    <3> QED BY <1>2, <1>4, <1>5, <1>6, <1>9, <3>1
  <2> QED BY <1>3, <2>1, <2>2
<1> QED BY <1>7, <1>8, <1>9

\* Until pages are replaced, a fault gives the tree frames it did not hold.
LEMMA FaultFresh ==
  ASSUME TypeOK, FrameInv, TreeClosed, NEW p \in Pages, NEW L, FaultsAt(p, L),
         handle_page_fault(p, L)
  PROVE  ~major_fault' => \A m, n \in DOMAIN tree' : tree'[m] = tree'[n] => m = n
<1> SUFFICES ASSUME ~major_fault', NEW m \in DOMAIN tree', NEW n \in DOMAIN tree',
                    tree'[m] = tree'[n]
             PROVE  m = n
  OBVIOUS
<1>0. TypeOK /\ FramesCounted /\ FramesUnshared /\ L \in 1 .. Levels + 1 /\ Levels \in Nat
  BY WalkerAssumption DEF FrameInv, FaultsAt
<1>1. ~major_fault /\ L <= Free
  <2>1. major_fault' = (major_fault \/ L > Free)
    BY FaultMap
  <2>2. ~major_fault /\ ~(L > Free)
    BY <2>1, Zenon
  <2>3. L \in Int /\ Free \in Int
    BY <1>0, FrameTypes
  <2> QED BY <2>2, <2>3
<1>2. \A k \in 1 .. L : Draw(k) = allocated_pages + k
  BY <1>0, <1>1, Draws
<1>3. allocated_pages \in Nat
  BY <1>0, FrameTypes
<1>4. \A x \in DOMAIN tree : tree[x] \in Int /\ tree[x] <= allocated_pages
  BY <1>0 DEF TypeOK, FramesCounted, FrameSet
<1>5. \A x, y \in DOMAIN tree : tree[x] = tree[y] => x = y
  BY <1>0, <1>1 DEF FramesUnshared
<1>6. \A x \in NewNodes(p, L) : x[1] \in 1 .. L /\ tree'[x] = allocated_pages + (L - x[1] + 1)
  <2>1. \A x \in NewNodes(p, L) : x[1] \in 1 .. L /\ tree'[x] = Draw(L - x[1] + 1)
    BY FaultTree
  <2>2. \A x \in 1 .. L : L - x + 1 \in 1 .. L
    BY <1>0
  <2> QED BY <1>2, <2>1, <2>2
<1>7. \A x \in DOMAIN tree : tree'[x] = tree[x]
  BY FaultTree
<1>8. m \in DOMAIN tree \cup NewNodes(p, L) /\ n \in DOMAIN tree \cup NewNodes(p, L)
  BY FaultTree
<1>9. \A x \in NewNodes(p, L) : ~(tree'[x] <= allocated_pages)
  BY <1>0, <1>3, <1>6
<1>10. CASE m \in NewNodes(p, L) /\ n \in NewNodes(p, L)
  <2>1. m[1] = n[1]
    <3>1. \A a, b \in 1 .. L :
            allocated_pages + (L - a + 1) = allocated_pages + (L - b + 1) => a = b
      BY <1>0, <1>3
    <3> QED BY <1>6, <1>10, <3>1
  <2> QED BY <1>10, <2>1, FaultTree
<1> QED BY <1>4, <1>5, <1>7, <1>8, <1>9, <1>10

\* A fault keeps count of the frames, their owners and the tree's agreement.
LEMMA FaultFrames ==
  ASSUME TypeOK, FrameInv, TreeClosed, NEW p \in Pages, NEW L, FaultsAt(p, L),
         handle_page_fault(p, L)
  PROVE  FrameInv'
<1>0. TypeOK /\ FramesCounted /\ FramesUnshared /\ L \in 1 .. Levels + 1 /\ Levels \in Nat
  BY WalkerAssumption DEF FrameInv, FaultsAt
<1>1. /\ allocated_pages' = Drawn(L) /\ Drawn(L) \in allocated_pages .. DRAM_PAGES
      /\ \A n \in 1 .. L : Draw(n) \in 1 .. Drawn(L)
  BY <1>0, FaultMap, Draws
<1>2. allocated_pages \in Nat /\ DRAM_PAGES \in Nat /\ Len(table_pages) \in Nat
      /\ DataPages \in Nat /\ Free \in Nat
      /\ DataPages + Len(table_pages) = allocated_pages
  BY <1>0, FrameTypes
<1>6. /\ DOMAIN tree' = DOMAIN tree \cup NewNodes(p, L)
      /\ \A n \in DOMAIN tree : tree'[n] = tree[n]
      /\ \A n \in NewNodes(p, L) : n[1] \in 1 .. L /\ tree'[n] = Draw(L - n[1] + 1)
      /\ \A m, n \in NewNodes(p, L) : m[1] = n[1] => m = n
  <2>1. /\ DOMAIN tree' = DOMAIN tree \cup NewNodes(p, L)
        /\ \A n \in DOMAIN tree : tree'[n] = tree[n]
    BY FaultTree
  <2>2. /\ \A n \in NewNodes(p, L) : n[1] \in 1 .. L /\ tree'[n] = Draw(L - n[1] + 1)
        /\ \A m, n \in NewNodes(p, L) : m[1] = n[1] => m = n
    BY FaultTree
  <2> QED BY <2>1, <2>2
<1>7. /\ DOMAIN page_table' = (DOMAIN page_table \ Victims(L)) \cup {p}
      /\ page_table'[p] = Draw(L)
      /\ \A q \in DOMAIN page_table \ Victims(L) : page_table'[q] = page_table[q]
  BY FaultMap
<1>3. FramesCounted'
  <2>1. /\ IsFiniteSet(DOMAIN page_table)
        /\ p \notin DOMAIN page_table \ Victims(L)
        /\ DOMAIN page_table' = (DOMAIN page_table \ Victims(L)) \cup {p}
    BY <1>0, FaultMap DEF FramesCounted
  <2>2. /\ Victims(L) \subseteq DOMAIN page_table /\ IsFiniteSet(Victims(L))
        /\ TakenTables(L) \in 0 .. Len(table_pages)
        /\ Cardinality(Victims(L)) + TakenTables(L) = (IF L <= Free THEN 0 ELSE L - Free)
    BY <1>0, TakenPages
  <2>3. /\ IsFiniteSet(DOMAIN page_table \ Victims(L))
        /\ Cardinality(DOMAIN page_table \ Victims(L)) = DataPages - Cardinality(Victims(L))
    <3>1. DOMAIN page_table \cap Victims(L) = Victims(L)
      BY <2>2
    <3>2. /\ IsFiniteSet(DOMAIN page_table \ Victims(L))
          /\ Cardinality(DOMAIN page_table \ Victims(L)) =
               Cardinality(DOMAIN page_table)
                 - Cardinality(DOMAIN page_table \cap Victims(L))
      BY <2>1, FS_Difference
    <3> QED BY <3>1, <3>2 DEF DataPages
  <2>4. IsFiniteSet(DOMAIN page_table') /\
        Cardinality(DOMAIN page_table') = DataPages - Cardinality(Victims(L)) + 1
    BY <2>1, <2>3, FS_AddElement
  <2>5. DataPages' + Len(table_pages') = allocated_pages'
    <3>1. Len(table_pages') = Len(table_pages) - TakenTables(L) + (L - 1)
      BY FaultMap
    <3>2. Cardinality(Victims(L)) \in Nat
      BY <2>2, FS_CardinalityType
    <3>3. DataPages' = DataPages - Cardinality(Victims(L)) + 1
      BY <2>4 DEF DataPages
    <3>4. allocated_pages' = allocated_pages + (IF L <= Free THEN L ELSE Free)
      BY <1>1 DEF Drawn
    <3> DEFINE C == Cardinality(Victims(L))
               T == TakenTables(L)
    <3>5. C \in Nat /\ T \in Nat /\ C + T = (IF L <= Free THEN 0 ELSE L - Free)
      BY <1>2, <2>2, <3>2
    <3>6. Len(table_pages') = Len(table_pages) - T + (L - 1) /\ DataPages' = DataPages - C + 1
      BY <3>1, <3>3
    <3> HIDE DEF C, T
    <3> QED BY <1>0, <1>2, <3>4, <3>5, <3>6
  <2>6. \A q \in DOMAIN page_table' : page_table'[q] <= allocated_pages'
    <3>1. \A q \in DOMAIN page_table : page_table[q] \in 1 .. allocated_pages
      BY <1>0, FrameTypes
    <3>2. \A q \in DOMAIN page_table' : page_table'[q] = Draw(L) \/
            (q \in DOMAIN page_table /\ page_table'[q] = page_table[q])
      BY FaultMap
    <3>3. L \in 1 .. L
      BY <1>0
    <3>4. \A q \in DOMAIN page_table' : page_table'[q] \in 1 .. Drawn(L)
      BY <1>1, <1>2, <3>1, <3>2, <3>3
    <3> QED BY <1>1, <3>4
  <2>7. \A i \in DOMAIN table_pages' : table_pages'[i] <= allocated_pages'
    <3>1. \A i \in 1 .. Len(table_pages) : table_pages[i] \in 1 .. allocated_pages
      BY <1>0, FrameTypes
    <3>2. ASSUME NEW i \in DOMAIN table_pages'
          PROVE  \/ \E k \in 1 .. Len(table_pages) : table_pages'[i] = table_pages[k]
                 \/ \E n \in 1 .. L : table_pages'[i] = Draw(n)
      <4>1. \/ \E k \in TakenTables(L) + 1 .. Len(table_pages) :
                 table_pages'[i] = table_pages[k]
            \/ \E n \in 1 .. L - 1 : table_pages'[i] = Draw(n)
        BY FaultTables
      <4>2. /\ \A k \in TakenTables(L) + 1 .. Len(table_pages) : k \in 1 .. Len(table_pages)
            /\ \A n \in 1 .. L - 1 : n \in 1 .. L
        BY <1>0, <1>2, <2>2
      <4> QED BY <4>1, <4>2
    <3>3. \A i \in DOMAIN table_pages' : table_pages'[i] \in 1 .. Drawn(L)
      BY <1>1, <1>2, <3>1, <3>2
    <3> QED BY <1>1, <3>3
  <2>8. \A n \in DOMAIN tree' : tree'[n] <= allocated_pages'
    <3>1. \A n \in DOMAIN tree : tree[n] \in Int /\ tree[n] <= allocated_pages
      BY <1>0 DEF TypeOK, FramesCounted, FrameSet
    <3>2. \A n \in DOMAIN tree' :
            \/ n \in DOMAIN tree /\ tree'[n] = tree[n]
            \/ n[1] \in 1 .. L /\ tree'[n] = Draw(L - n[1] + 1)
      BY <1>6
    <3>3. \A k \in 1 .. L : L - k + 1 \in 1 .. L
      BY <1>0
    <3>4. \A n \in DOMAIN tree' : tree'[n] <= Drawn(L)
      BY <1>1, <1>2, <3>1, <3>2, <3>3
    <3> QED BY <1>1, <3>4
  <2> QED BY <2>4, <2>5, <2>6, <2>7, <2>8 DEF FramesCounted
<1>4. FramesUnshared'
  BY FaultOwners, FaultFresh DEF FramesUnshared
<1>5. MapAgrees'
  <2>1. Node(p, 1) \in NewNodes(p, L) /\ tree'[Node(p, 1)] = Draw(L)
    <3>1. Node(p, 1) \in NewNodes(p, L)
      BY <1>0, WalkerAssumption DEF NewNodes
    <3>2. Node(p, 1)[1] = 1 /\ L - 1 + 1 = L
      BY <1>0 DEF Node
    <3> QED BY <1>6, <3>1, <3>2
  <2>2. ASSUME NEW q \in DOMAIN page_table'
        PROVE  Node(q, 1) \in DOMAIN tree' /\ page_table'[q] = tree'[Node(q, 1)]
    <3>1. CASE q = p
      BY <1>6, <1>7, <2>1, <3>1
    <3>2. CASE q \in DOMAIN page_table \ Victims(L)
      <4>1. Node(q, 1) \in DOMAIN tree /\ page_table[q] = tree[Node(q, 1)]
        BY <3>2 DEF FrameInv, MapAgrees
      <4> QED BY <1>6, <1>7, <3>2, <4>1
    <3> QED BY <1>7, <3>1, <3>2
  <2>3. ASSUME ~major_fault', NEW q \in Pages, Node(q, 1) \in DOMAIN tree'
        PROVE  q \in DOMAIN page_table'
    <3>1. ~major_fault /\ L <= Free
      <4>1. major_fault' = (major_fault \/ L > Free)
        BY FaultMap
      <4>2. ~major_fault /\ ~(L > Free)
        BY <2>3, <4>1, Zenon
      <4> QED BY <1>0, <1>2, <4>2
    <3>2. Victims(L) = {}
      BY <1>0, <3>1, TakenPages
    <3>3. CASE Node(q, 1) \in DOMAIN tree
      <4>1. q \in DOMAIN page_table
        BY <3>1, <3>3 DEF FrameInv, MapAgrees
      <4> QED BY <3>2, <4>1, FaultMap
    <3>4. CASE Node(q, 1) \in NewNodes(p, L)
      <4>1. Node(q, 1)[1] = Node(p, 1)[1]
        BY DEF Node
      <4>3. Node(p, 1) = Node(q, 1)
        BY <1>6, <2>1, <3>4, <4>1
      <4>4. 1 \in 1 .. Levels
        BY <1>0, WalkerAssumption
      <4>2. q = p
        BY <4>3, <4>4, NodeFacts
      <4> QED BY <4>2, FaultMap
    <3>5. DOMAIN tree' = DOMAIN tree \cup NewNodes(p, L)
      BY FaultTree
    <3> QED BY <2>3, <3>3, <3>4, <3>5
  <2> QED BY <2>2, <2>3 DEF MapAgrees, Node
<1> QED BY <1>3, <1>4, <1>5 DEF FrameInv

\* The types of the memory after a fault.
LEMMA FaultTypes ==
  ASSUME TypeOK, FrameInv, TreeClosed, NEW p \in Pages, NEW L, FaultsAt(p, L),
         handle_page_fault(p, L)
  PROVE  /\ DOMAIN tree' \subseteq Nodes /\ tree' \in [DOMAIN tree' -> FrameSet]
         /\ DOMAIN page_table' \subseteq Pages
         /\ page_table' \in [DOMAIN page_table' -> FrameSet]
         /\ table_pages' \in Seq(FrameSet)
         /\ allocated_pages' \in 0 .. DRAM_PAGES /\ major_fault' \in BOOLEAN
<1>0. TypeOK /\ FramesCounted /\ L \in 1 .. Levels + 1 /\ Levels \in Nat
  BY WalkerAssumption DEF FrameInv, FaultsAt
<1>1. \A n \in 1 .. L : Draw(n) \in FrameSet
  <2>1. \A n \in 1 .. L : Draw(n) \in 1 .. Drawn(L)
    BY <1>0, Draws
  <2>2. Drawn(L) \in Nat /\ Drawn(L) <= DRAM_PAGES /\ DRAM_PAGES \in Nat
    BY <1>0, Draws, FrameTypes
  <2> QED BY <2>1, <2>2 DEF FrameSet
<1>2. DOMAIN tree \subseteq Nodes /\ (\A n \in DOMAIN tree : tree[n] \in FrameSet)
      /\ DOMAIN page_table \subseteq Pages
      /\ (\A q \in DOMAIN page_table : page_table[q] \in FrameSet)
      /\ major_fault \in BOOLEAN
  BY DEF TypeOK
<1>3. DOMAIN tree' \subseteq Nodes /\ tree' \in [DOMAIN tree' -> FrameSet]
  <2>1. /\ DOMAIN tree' = DOMAIN tree \cup NewNodes(p, L)
        /\ \A n \in DOMAIN tree : tree'[n] = tree[n]
        /\ tree' = [n \in DOMAIN tree' |-> tree'[n]]
    BY FaultTree
  <2>2. \A n \in NewNodes(p, L) : n \in Nodes /\ n[1] \in 1 .. L
                                  /\ tree'[n] = Draw(L - n[1] + 1)
    BY FaultTree
  <2>3. \A k \in 1 .. L : L - k + 1 \in 1 .. L
    BY <1>0
  <2>4. \A n \in DOMAIN tree' : n \in Nodes /\ tree'[n] \in FrameSet
    BY <1>1, <1>2, <2>1, <2>2, <2>3
  <2> QED BY <2>1, <2>4
<1>4. DOMAIN page_table' \subseteq Pages /\ page_table' \in [DOMAIN page_table' -> FrameSet]
  <2>1. /\ DOMAIN page_table' = (DOMAIN page_table \ Victims(L)) \cup {p}
        /\ page_table'[p] = Draw(L)
        /\ \A q \in DOMAIN page_table \ Victims(L) : page_table'[q] = page_table[q]
        /\ page_table' = [q \in DOMAIN page_table' |-> page_table'[q]]
    BY FaultMap
  <2>2. L \in 1 .. L
    BY <1>0
  <2>3. \A q \in DOMAIN page_table' : q \in Pages /\ page_table'[q] \in FrameSet
    BY <1>1, <1>2, <2>1, <2>2
  <2> QED BY <2>1, <2>3
<1>5. table_pages' \in Seq(FrameSet)
  BY FaultMap
<1>6. allocated_pages' \in 0 .. DRAM_PAGES
  <2>1. allocated_pages' = Drawn(L)
    BY FaultMap
  <2>2. Drawn(L) \in allocated_pages .. DRAM_PAGES
    BY <1>0, Draws
  <2>3. allocated_pages \in Nat /\ DRAM_PAGES \in Nat
    BY <1>0, FrameTypes
  <2> QED BY <2>1, <2>2, <2>3
<1>7. major_fault' \in BOOLEAN
  <2>1. major_fault' = (major_fault \/ L > Free)
    BY FaultMap
  <2> QED BY <2>1, Zenon
<1> QED BY <1>3, <1>4, <1>5, <1>6, <1>7

-----------------------------------------------------------------------------
(* The MMU caches *)

\* A set that is filled keeps to its size: what it held moves down by at most
\* one place, and the new entry is the last.
LEMMA Filled ==
  ASSUME NEW S, NEW s \in Seq(S), NEW W \in Nat \ {0}, Len(s) <= W, NEW e \in S
  PROVE  LET t == Append(IF Len(s) < W THEN s ELSE Tail(s), e)
         IN  /\ t \in Seq(S) /\ Len(t) <= W
             /\ \E c \in 0 .. 1 : \A i \in DOMAIN t :
                  \/ i = Len(t) /\ t[i] = e
                  \/ i + c \in DOMAIN s /\ t[i] = s[i + c]
<1> DEFINE u == IF Len(s) < W THEN s ELSE Tail(s)
           t == Append(u, e)
<1>1. u \in Seq(S) /\ Len(u) < W /\
      \E c \in 0 .. 1 : \A i \in 1 .. Len(u) : i + c \in DOMAIN s /\ u[i] = s[i + c]
  <2>1. CASE Len(s) < W
    <3>1. \A i \in 1 .. Len(s) : i + 0 = i /\ i \in DOMAIN s
      OBVIOUS
    <3>2. 0 \in 0 .. 1 /\ u = s
      BY <2>1
    <3>3. \A i \in 1 .. Len(u) : i + 0 \in DOMAIN s /\ u[i] = s[i + 0]
      BY <3>1, <3>2
    <3> QED BY <2>1, <3>2, <3>3
  <2>2. CASE ~(Len(s) < W)
    <3>1. s # <<>> /\ Len(s) = W
      BY <2>2
    <3>2. Tail(s) \in Seq(S) /\ Len(Tail(s)) = Len(s) - 1
          /\ \A i \in 1 .. Len(Tail(s)) : Tail(s)[i] = s[i + 1]
      BY <3>1, HeadTailProperties
    <3>3. \A i \in 1 .. Len(Tail(s)) : i + 1 \in DOMAIN s
      BY <3>1, <3>2
    <3>4. u = Tail(s) /\ 1 \in 0 .. 1
      BY <2>2
    <3> QED BY <3>1, <3>2, <3>3, <3>4
  <2> QED BY <2>1, <2>2
<1> HIDE DEF u
<1>2. /\ t \in Seq(S) /\ Len(t) = Len(u) + 1
      /\ \A i \in 1 .. Len(u) : t[i] = u[i]
      /\ t[Len(u) + 1] = e
      /\ DOMAIN t = 1 .. Len(u) + 1
  BY <1>1, AppendProperties
<1>3. PICK c \in 0 .. 1 : \A i \in 1 .. Len(u) : i + c \in DOMAIN s /\ u[i] = s[i + c]
  BY <1>1
<1> HIDE DEF t
<1>4. Len(u) \in Nat
  BY <1>1
<1>5. \A i \in DOMAIN t :
        \/ i = Len(t) /\ t[i] = e
        \/ i + c \in DOMAIN s /\ t[i] = s[i + c]
  BY <1>2, <1>3, <1>4
<1>6. Len(t) <= W
  BY <1>1, <1>2, <1>4
<1> QED BY <1>2, <1>3, <1>5, <1>6 DEF t, u

\* The caches hold what entries holds, and no entry twice.
Coherent(cache, entries) ==
  \A x \in PSCLSets : \A i \in DOMAIN cache[x] :
    /\ cache[x][i].node \in DOMAIN entries
    /\ cache[x][i].data = entries[cache[x][i].node]
    /\ \A j \in DOMAIN cache[x] : cache[x][i].node = cache[x][j].node => i = j

\* The MMU cache set that a page falls in at a level has that level.
LEMMA SetOfPage ==
  ASSUME NEW p \in Pages, NEW l \in Inner
  PROVE  /\ PSCLSet(p, l) \in PSCLSets /\ PSCLSet(p, l)[1] = l
         /\ PSCL_WAY[l] \in Nat \ {0} /\ l \in 1 .. Levels
<1>0. l \in 2 .. Levels /\ l \in 1 .. Levels
  BY WalkerAssumption DEF Inner
<1>1. l \in 1 .. Levels /\ p[l] \in Nat /\ PSCL_SET[l] \in Nat \ {0} /\ PSCL_WAY[l] \in Nat \ {0}
  <2>1. p \in [1 .. Levels -> Offsets] /\ Offsets \subseteq Nat
    BY WalkerAssumption
  <2>2. PSCL_SET[l] \in Nat \ {0} /\ PSCL_WAY[l] \in Nat \ {0}
    BY <1>0, WalkerAssumption
  <2> QED BY <1>0, <2>1, <2>2
<1>2. p[l] % PSCL_SET[l] \in 0 .. PSCL_SET[l] - 1
  BY <1>1
<1>3. PSCLSet(p, l) \in PSCLSets /\ PSCLSet(p, l)[1] = l
  BY <1>2 DEF PSCLSet, PSCLSets
<1> QED BY <1>1, <1>3

\* There are MMU caches for the inner levels only.
LEMMA SetLevel ==
  ASSUME NEW x \in PSCLSets
  PROVE  x[1] \in Inner
BY DEF PSCLSets

\* Filling the levels that do not hold an entry of the page, from a tree that
\* has grown, keeps the caches coherent with the tree.
LEMMA FillCoherent ==
  ASSUME TypeOK, MMUCachesCoherent, NEW p \in Pages, NEW levels \in SUBSET Inner,
         NEW entries, \A n \in DOMAIN entries : entries[n] \in FrameSet,
         \A n \in DOMAIN tree : n \in DOMAIN entries /\ entries[n] = tree[n],
         \A l \in levels : Hits(p, l) = {} /\ Node(p, l) \in DOMAIN entries
  PROVE  LET cache == fill_mmu_cache(p, levels, entries)
         IN  /\ cache \in [PSCLSets -> Seq(PSCLEntries)]
             /\ \A x \in PSCLSets : Len(cache[x]) <= PSCL_WAY[x[1]]
             /\ Coherent(cache, entries)
<1> DEFINE cache == fill_mmu_cache(p, levels, entries)
           e(x) == [node |-> Node(p, x[1]), data |-> entries[Node(p, x[1])]]
           hit(x) == x[1] \in levels /\ x = PSCLSet(p, x[1])
           fill(x) == Append(IF Len(PSCL[x]) < PSCL_WAY[x[1]] THEN PSCL[x]
                                                              ELSE Tail(PSCL[x]), e(x))
<1>0. PSCL \in [PSCLSets -> Seq(PSCLEntries)] /\ DOMAIN PSCL = PSCLSets
      /\ \A x \in PSCLSets : Len(PSCL[x]) <= PSCL_WAY[x[1]]
  BY DEF TypeOK
<1>1. cache = [x \in PSCLSets |-> IF hit(x) THEN fill(x) ELSE PSCL[x]]
  BY <1>0 DEF fill_mmu_cache
<1>2. ASSUME NEW x \in PSCLSets, hit(x)
      PROVE  /\ PSCL[x] \in Seq(PSCLEntries) /\ PSCL_WAY[x[1]] \in Nat \ {0}
             /\ Len(PSCL[x]) <= PSCL_WAY[x[1]] /\ e(x) \in PSCLEntries
             /\ \A i \in DOMAIN PSCL[x] : PSCL[x][i].node # Node(p, x[1])
             /\ e(x).node = Node(p, x[1]) /\ e(x).data = entries[e(x).node]
             /\ e(x).node \in DOMAIN entries
  <2>1. x[1] \in Inner /\ x[1] \in levels
    BY <1>2, SetLevel
  <2>2. PSCL_WAY[x[1]] \in Nat \ {0} /\ x[1] \in 1 .. Levels
    BY <2>1, SetOfPage
  <2>3. e(x) \in PSCLEntries
    BY <2>1, <2>2, NodeFacts DEF PSCLEntries
  <2>4. \A i \in DOMAIN PSCL[x] : PSCL[x][i].node # Node(p, x[1])
    BY <1>2, <2>1 DEF Hits
  <2> QED BY <1>0, <2>1, <2>2, <2>3, <2>4
<1>3. ASSUME NEW x \in PSCLSets
      PROVE  /\ cache[x] \in Seq(PSCLEntries) /\ Len(cache[x]) <= PSCL_WAY[x[1]]
             /\ \A i \in DOMAIN cache[x] :
                  /\ cache[x][i].node \in DOMAIN entries
                  /\ cache[x][i].data = entries[cache[x][i].node]
                  /\ \A j \in DOMAIN cache[x] : cache[x][i].node = cache[x][j].node => i = j
  <2>0. \A i \in DOMAIN PSCL[x] :
          /\ PSCL[x][i].node \in DOMAIN entries
          /\ PSCL[x][i].data = entries[PSCL[x][i].node]
          /\ \A j \in DOMAIN PSCL[x] : PSCL[x][i].node = PSCL[x][j].node => i = j
    BY DEF MMUCachesCoherent
  <2>1. CASE ~hit(x)
    BY <1>0, <1>1, <2>0, <2>1
  <2>2. CASE hit(x)
    <3> DEFINE s == PSCL[x]
               t == cache[x]
    <3>1. t = fill(x)
      BY <1>1, <2>2
    <3>2. /\ s \in Seq(PSCLEntries) /\ PSCL_WAY[x[1]] \in Nat \ {0}
          /\ Len(s) <= PSCL_WAY[x[1]] /\ e(x) \in PSCLEntries
          /\ \A i \in DOMAIN s : s[i].node # e(x).node
          /\ e(x).data = entries[e(x).node] /\ e(x).node \in DOMAIN entries
      BY <1>2, <2>2
    <3> HIDE DEF e, hit, cache, s, t
    <3>3. /\ t \in Seq(PSCLEntries) /\ Len(t) <= PSCL_WAY[x[1]]
          /\ \E c \in 0 .. 1 : \A i \in DOMAIN t :
                  \/ i = Len(t) /\ t[i] = e(x)
                  \/ i + c \in DOMAIN s /\ t[i] = s[i + c]
      BY <3>1, <3>2, Filled DEF s
    <3>4. PICK c \in 0 .. 1 : \A i \in DOMAIN t :
                  \/ i = Len(t) /\ t[i] = e(x)
                  \/ i + c \in DOMAIN s /\ t[i] = s[i + c]
      BY <3>3
    <3>5. DOMAIN t = 1 .. Len(t) /\ Len(t) \in Nat
      BY <3>3
    <3>6. \A i \in DOMAIN s :
          /\ s[i].node \in DOMAIN entries
          /\ s[i].data = entries[s[i].node]
          /\ \A j \in DOMAIN s : s[i].node = s[j].node => i = j
      BY <2>0 DEF s
    <3>7. \A i \in DOMAIN t : t[i].node \in DOMAIN entries /\ t[i].data = entries[t[i].node]
      BY <3>2, <3>4, <3>6
    <3>8. ASSUME NEW i \in DOMAIN t, NEW j \in DOMAIN t, t[i].node = t[j].node
          PROVE  i = j
      <4>1. CASE i + c \in DOMAIN s /\ t[i] = s[i + c]
        <5>1. j + c \in DOMAIN s /\ t[j] = s[j + c]
          BY <3>2, <3>4, <3>8, <4>1
        <5>2. i + c = j + c
          BY <3>6, <3>8, <4>1, <5>1
        <5> QED BY <3>5, <5>2
      <4>2. CASE i = Len(t) /\ t[i] = e(x)
        BY <3>2, <3>4, <3>8, <4>2
      <4> QED BY <3>4, <4>1, <4>2
    <3> QED BY <3>3, <3>7, <3>8 DEF t
  <2> QED BY <2>1, <2>2
<1>4. cache = [x \in PSCLSets |-> cache[x]]
  BY <1>1
<1> HIDE DEF cache
<1>5. cache \in [PSCLSets -> Seq(PSCLEntries)] /\
      \A x \in PSCLSets : Len(cache[x]) <= PSCL_WAY[x[1]]
  BY <1>3, <1>4
<1>6. Coherent(cache, entries)
  BY <1>3 DEF Coherent
<1> QED BY <1>5, <1>6 DEF cache

-----------------------------------------------------------------------------
(* Requests and answers *)

\* A walk under way is the only one, in the one MSHR.
LEMMA Walking ==
  ASSUME TypeOK, MSHR # <<>>
  PROVE  DOMAIN MSHR = {1} /\ MSHR[1] \in Walks /\ Len(MSHR) = 1
<1>0. MSHR \in Seq(Walks) /\ Len(MSHR) <= 1
  BY DEF TypeOK
<1>1. Len(MSHR) = 1 /\ MSHR \in Seq(Walks)
  <2> DEFINE W == Walks
  <2>1. MSHR \in Seq(W) /\ Len(MSHR) <= 1
    BY <1>0
  <2> HIDE DEF W
  <2>2. Len(MSHR) \in Nat /\ Len(MSHR) # 0
    BY <2>1, EmptySeq
  <2>3. \A n \in Nat : n <= 1 /\ n # 0 => n = 1
    OBVIOUS
  <2>4. Len(MSHR) = 1
    BY <2>1, <2>2, <2>3
  <2> QED BY <1>0, <2>4
<1>2. DOMAIN MSHR = 1 .. 1
  BY <1>1
<1>3. 1 \in DOMAIN MSHR
  BY <1>2
<1> QED BY <1>1, <1>2, <1>3

\* What a queue of one walk is.
LEMMA OneWalk ==
  ASSUME NEW e
  PROVE  /\ DOMAIN <<e>> = {1} /\ <<e>>[1] = e /\ Len(<<e>>) = 1 /\ <<e>> # <<>>
         /\ \A S : e \in S => <<e>> \in Seq(S)
<1>1. DOMAIN <<e>> = 1 .. 1
  OBVIOUS
<1> QED BY <1>1

\* The rest of a queue of requests.
LEMMA Rest ==
  ASSUME NEW q \in Seq(Requests), q # <<>>
  PROVE  /\ Tail(q) \in Seq(Requests) /\ Len(Tail(q)) < Len(q)
         /\ 1 \in DOMAIN q /\ Head(q) = q[1] /\ Head(q) \in Requests
         /\ \A i \in DOMAIN Tail(q) :
              i + 1 \in DOMAIN q /\ i + 1 # 1 /\ Tail(q)[i] = q[i + 1] /\ i \in Nat
<1>1. /\ Tail(q) \in Seq(Requests) /\ Len(Tail(q)) = Len(q) - 1
      /\ \A i \in 1 .. Len(Tail(q)) : Tail(q)[i] = q[i + 1]
  BY HeadTailProperties
<1>2. Len(q) \in Nat \ {0} /\ DOMAIN q = 1 .. Len(q)
  OBVIOUS
<1>3. DOMAIN Tail(q) = 1 .. Len(Tail(q))
  BY <1>1
<1>4. 1 \in DOMAIN q /\ Head(q) = q[1] /\ q[1] \in Requests
  BY <1>2
<1> QED BY <1>1, <1>2, <1>3, <1>4

\* Taking the head of a queue that names each page once leaves a queue that
\* does so, without the page of the head.
LEMMA OnceTail ==
  ASSUME NEW q \in Seq(Requests), q # <<>>, Once(q)
  PROVE  Once(Tail(q)) /\ \A i \in DOMAIN Tail(q) : Tail(q)[i].page # Head(q).page
<1> USE Rest
<1>1. \A i, j \in DOMAIN q : q[i].page = q[j].page => i = j
  BY DEF Once
<1>2. ASSUME NEW i \in DOMAIN Tail(q), NEW j \in DOMAIN Tail(q),
             Tail(q)[i].page = Tail(q)[j].page
      PROVE  i = j
  <2>1. i + 1 = j + 1
    BY <1>1, <1>2
  <2>2. i \in Nat /\ j \in Nat
    OBVIOUS
  <2> QED BY <2>1, <2>2
<1>3. \A i \in DOMAIN Tail(q) : Tail(q)[i].page # Head(q).page
  BY <1>1
<1> QED BY <1>2, <1>3 DEF Once

\* Answering for a page that a queue does not hold leaves its entries asked.
LEMMA StillAsked ==
  ASSUME TypeOK, NEW p \in Pages, asked' = [asked EXCEPT ![p] = None],
         NEW q \in Seq(Requests), NEW types, Asked(q, types),
         \A i \in DOMAIN q : q[i].page # p
  PROVE  \A i \in DOMAIN q : asked'[q[i].page] = q[i].type /\ q[i].type \in types
<1>1. asked \in [Pages -> Types \cup {None}]
  BY DEF TypeOK
<1>2. \A i \in DOMAIN q : q[i].page \in Pages
  <2>1. \A i \in DOMAIN q : q[i] \in Requests
    OBVIOUS
  <2> QED BY <2>1 DEF Requests
<1> QED BY <1>1, <1>2 DEF Asked

\* No entry of the queues is for the page of a walk, nor for the first page
\* of the other queue.
LEMMA WalkAnswered ==
  ASSUME IInv, MSHR # <<>>, MSHR' = <<>>, RQ' = RQ, PQ' = PQ,
         asked' = [asked EXCEPT ![MSHR[1].page] = None]
  PROVE  RequestsAsked'
<1>0. TypeOK /\ RequestsAsked
  BY DEF IInv
<1>1. MSHR[1].page \in Pages /\ 1 \in DOMAIN MSHR
  BY <1>0, Walking DEF Walks
<1>2. RQ \in Seq(Requests) /\ PQ \in Seq(Requests)
  BY <1>0 DEF TypeOK
<1>3. /\ \A j \in DOMAIN RQ : RQ[j].page # MSHR[1].page
      /\ \A j \in DOMAIN PQ : PQ[j].page # MSHR[1].page
      /\ Asked(RQ, Demands) /\ Asked(PQ, {"PREFETCH_TRANSLATION"})
      /\ Once(RQ) /\ Once(PQ)
  BY <1>0, <1>1 DEF RequestsAsked
<1>4. Asked(RQ, Demands)'
  <2>1. \A i \in DOMAIN RQ : asked'[RQ[i].page] = RQ[i].type /\ RQ[i].type \in Demands
    BY <1>0, <1>1, <1>2, <1>3, StillAsked
  <2> QED BY <2>1 DEF Asked, Demands, Types
<1>5. Asked(PQ, {"PREFETCH_TRANSLATION"})'
  <2>1. \A i \in DOMAIN PQ : asked'[PQ[i].page] = PQ[i].type
                             /\ PQ[i].type \in {"PREFETCH_TRANSLATION"}
    BY <1>0, <1>1, <1>2, <1>3, StillAsked
  <2> QED BY <2>1 DEF Asked
<1>6. Once(RQ)' /\ Once(PQ)'
  BY <1>3 DEF Once
<1>7. DOMAIN MSHR' = {}
  OBVIOUS
<1> QED BY <1>4, <1>5, <1>6, <1>7 DEF RequestsAsked, Asked

\* The request that is taken from a queue is the only one for its page.
LEMMA RequestTaken ==
  ASSUME IInv, MSHR = <<>>, NEW source \in {"RQ", "PQ"},
         \/ source = "RQ" /\ RQ # <<>> /\ RQ' = Tail(RQ) /\ PQ' = PQ
         \/ source = "PQ" /\ RQ = <<>> /\ PQ # <<>> /\ PQ' = Tail(PQ) /\ RQ' = RQ
  PROVE  LET r == Head(IF source = "RQ" THEN RQ ELSE PQ)
         IN  /\ r \in Requests /\ asked[r.page] = r.type
             /\ RQ' \in Seq(Requests) /\ Len(RQ') <= PTW_RQ_SIZE
             /\ PQ' \in Seq(Requests) /\ Len(PQ') <= PTW_PQ_SIZE
             /\ \A j \in DOMAIN RQ' : RQ'[j].page # r.page
             /\ \A j \in DOMAIN PQ' : PQ'[j].page # r.page
             /\ Asked(RQ', Demands) /\ Asked(PQ', {"PREFETCH_TRANSLATION"})
             /\ Once(RQ') /\ Once(PQ')
<1> DEFINE r == Head(IF source = "RQ" THEN RQ ELSE PQ)
<1>0. TypeOK /\ RequestsAsked
  BY DEF IInv
<1>1. /\ RQ \in Seq(Requests) /\ Len(RQ) <= PTW_RQ_SIZE
      /\ PQ \in Seq(Requests) /\ Len(PQ) <= PTW_PQ_SIZE
      /\ PTW_RQ_SIZE \in Nat /\ PTW_PQ_SIZE \in Nat
  BY <1>0, WalkerAssumption DEF TypeOK
<1>2. /\ Asked(RQ, Demands) /\ Once(RQ)
      /\ Asked(PQ, {"PREFETCH_TRANSLATION"}) /\ Once(PQ)
  BY <1>0 DEF RequestsAsked
<1>3. CASE source = "RQ" /\ RQ # <<>> /\ RQ' = Tail(RQ) /\ PQ' = PQ
  <2>1. r = Head(RQ)
    BY <1>3
  <2>2. /\ Tail(RQ) \in Seq(Requests) /\ Len(Tail(RQ)) < Len(RQ)
        /\ 1 \in DOMAIN RQ /\ Head(RQ) = RQ[1] /\ Head(RQ) \in Requests
        /\ \A i \in DOMAIN Tail(RQ) : i + 1 \in DOMAIN RQ /\ Tail(RQ)[i] = RQ[i + 1]
    BY <1>1, <1>3, Rest
  <2>3. asked[r.page] = r.type /\ r.type \in Demands
    BY <1>2, <2>1, <2>2 DEF Asked
  <2>4. Once(Tail(RQ)) /\ \A i \in DOMAIN Tail(RQ) : Tail(RQ)[i].page # r.page
    BY <1>1, <1>2, <1>3, <2>1, OnceTail
  <2>5. Asked(Tail(RQ), Demands)
    BY <1>2, <2>2 DEF Asked
  <2>6. \A j \in DOMAIN PQ : PQ[j].page # r.page
    BY <1>2, <2>3 DEF Asked, Demands
  <2>7. Len(Tail(RQ)) <= PTW_RQ_SIZE
    BY <1>1, <2>2
  <2> QED BY <1>1, <1>2, <1>3, <2>1, <2>2, <2>3, <2>4, <2>5, <2>6, <2>7
<1>4. CASE source = "PQ" /\ RQ = <<>> /\ PQ # <<>> /\ PQ' = Tail(PQ) /\ RQ' = RQ
  <2>1. r = Head(PQ)
    BY <1>4
  <2>2. /\ Tail(PQ) \in Seq(Requests) /\ Len(Tail(PQ)) < Len(PQ)
        /\ 1 \in DOMAIN PQ /\ Head(PQ) = PQ[1] /\ Head(PQ) \in Requests
        /\ \A i \in DOMAIN Tail(PQ) : i + 1 \in DOMAIN PQ /\ Tail(PQ)[i] = PQ[i + 1]
    BY <1>1, <1>4, Rest
  <2>3. asked[r.page] = r.type
    BY <1>2, <2>1, <2>2 DEF Asked
  <2>4. Once(Tail(PQ)) /\ \A i \in DOMAIN Tail(PQ) : Tail(PQ)[i].page # r.page
    BY <1>1, <1>2, <1>4, <2>1, OnceTail
  <2>5. Asked(Tail(PQ), {"PREFETCH_TRANSLATION"})
    BY <1>2, <2>2 DEF Asked
  <2>6. DOMAIN RQ = {}
    BY <1>4
  <2>7. Len(Tail(PQ)) <= PTW_PQ_SIZE
    BY <1>1, <2>2
  <2> QED BY <1>1, <1>2, <1>4, <2>1, <2>2, <2>3, <2>4, <2>5, <2>6, <2>7
<1> QED BY <1>3, <1>4

\* An answer from the tree brings the copies in the TLBs up to date with it.
LEMMA Answered ==
  ASSUME TypeOK, CopiesAnswered, NEW p \in Pages, NEW gone, Return(p, gone),
         \A n \in DOMAIN tree : n \in DOMAIN tree' /\ tree'[n] = tree[n],
         Node(p, 1) \in DOMAIN tree', tree'[Node(p, 1)] \in FrameSet
  PROVE  /\ CopiesAnswered' /\ asked' = [asked EXCEPT ![p] = None]
         /\ asked' \in [Pages -> Types \cup {None}]
         /\ answer' \in [page : Pages \cup {None}, data : FrameSet \cup {None, Dropped}]
         /\ copies' \in [Pages -> FrameSet \cup {None}]
<1>1. copies' = [q \in Pages |-> IF q = p THEN tree'[Node(p, 1)]
                                ELSE IF q \in gone THEN None ELSE copies[q]]
  BY DEF Return
<1>2. \A q \in Pages : copies[q] \in FrameSet \cup {None}
  BY DEF TypeOK
<1>3. copies' \in [Pages -> FrameSet \cup {None}]
  BY <1>1, <1>2
<1>4. ASSUME NEW q \in Pages, copies'[q] # None
      PROVE  Node(q, 1) \in DOMAIN tree' /\ copies'[q] = tree'[Node(q, 1)]
  <2>1. CASE q = p
    BY <1>1, <2>1
  <2>2. CASE q # p
    <3>1. copies'[q] = copies[q]
      BY <1>1, <1>4, <2>2
    <3>2. Node(q, 1) \in DOMAIN tree /\ copies[q] = tree[Node(q, 1)]
      BY <1>4, <3>1 DEF CopiesAnswered
    <3> QED BY <3>1, <3>2
  <2> QED BY <2>1, <2>2
<1>5. CopiesAnswered'
  BY <1>4 DEF CopiesAnswered, Node
<1>6. asked' = [asked EXCEPT ![p] = None] /\ asked' \in [Pages -> Types \cup {None}]
  BY DEF Return, TypeOK
<1>7. answer' \in [page : Pages \cup {None}, data : FrameSet \cup {None, Dropped}]
  BY DEF Return
<1> QED BY <1>3, <1>5, <1>6, <1>7

\* What does not touch the memory and the caches keeps what is known of them.
LEMMA MemoryKept ==
  ASSUME TreeClosed, FrameInv, MMUCachesCoherent, CopiesAnswered,
         UNCHANGED <<PSCL, memory, copies>>
  PROVE  TreeClosed' /\ FrameInv' /\ MMUCachesCoherent' /\ CopiesAnswered'
<1>0. /\ PSCL' = PSCL /\ tree' = tree /\ page_table' = page_table
      /\ table_pages' = table_pages /\ allocated_pages' = allocated_pages
      /\ major_fault' = major_fault /\ copies' = copies
  BY DEF memory
<1>1. TreeClosed'
  BY <1>0 DEF TreeClosed, Node, CR3
<1>2. FramesCounted' /\ FramesUnshared' /\ MapAgrees'
  BY <1>0 DEF FrameInv, FramesCounted, DataPages, FramesUnshared, MapAgrees, Node
<1>3. MMUCachesCoherent'
  BY <1>0 DEF MMUCachesCoherent, PSCLSets, Inner
<1>4. CopiesAnswered'
  BY <1>0 DEF CopiesAnswered, Node
<1> QED BY <1>1, <1>2, <1>3, <1>4 DEF FrameInv

\* A step that leaves the walk, the tree and the MMU caches alone keeps what
\* is known of the walk.
LEMMA WalkKept ==
  ASSUME WalkOK, MSHR' = MSHR, tree' = tree, PSCL' = PSCL
  PROVE  WalkOK'
<1>1. \A p, l : Reached(p, l)' = Reached(p, l)
  BY DEF Reached, Node, CR3
<1>2. \A p, l : (tree[Table(p, l)])' = tree[Table(p, l)]
  BY DEF Table, Node, CR3
<1>3. \A p, l : Hits(p, l)' = Hits(p, l)
  BY DEF Hits, Node, PSCLSet
<1>4. ASSUME NEW i \in DOMAIN MSHR', NEW e, e = MSHR'[i]
      PROVE  /\ e.returned = "INFLIGHT" => /\ e.level \in 1 .. e.init
                                           /\ Reached(e.page, e.level)'
                                           /\ e.base = (tree[Table(e.page, e.level)])'
             /\ e.returned = "COMPLETED" => /\ e.level \in 0 .. e.init - 1
                                            /\ Reached(e.page, e.level + 1)'
             /\ \A l \in 2 .. e.init : Hits(e.page, l)' = {}
  <2>1. i \in DOMAIN MSHR /\ e = MSHR[i]
    BY <1>4
  <2>2. /\ e.returned = "INFLIGHT" => /\ e.level \in 1 .. e.init
                                      /\ Reached(e.page, e.level)
                                      /\ e.base = tree[Table(e.page, e.level)]
        /\ e.returned = "COMPLETED" => /\ e.level \in 0 .. e.init - 1
                                       /\ Reached(e.page, e.level + 1)
        /\ \A l \in 2 .. e.init : Hits(e.page, l) = {}
    BY <2>1 DEF WalkOK
  <2> QED BY <1>1, <1>2, <1>3, <2>2
<1> QED BY <1>4 DEF WalkOK

-----------------------------------------------------------------------------
(* The actions keep the invariant *)

\* The fields of a walk have their types.
LEMMA WalkFields ==
  ASSUME NEW e \in Walks
  PROVE  /\ e.page \in Pages /\ e.type \in Types /\ e.level \in 0 .. Levels
         /\ e.init \in 1 .. Levels /\ e.returned \in {"INFLIGHT", "COMPLETED"}
         /\ e.base \in FrameSet /\ e.offset \in Offsets \cup {0}
BY DEF Walks

\* Dropping a prefetch whose entry is missing preserves the invariant.
LEMMA DropPrefetchKeeps ==
  ASSUME IInv, DropPrefetch
  PROVE  IInv'
<1> DEFINE p == MSHR[1].page
<1>0. TypeOK /\ MSHR # <<>> /\ MSHR' = <<>> /\ RQ' = RQ /\ PQ' = PQ
      /\ asked' = [asked EXCEPT ![p] = None] /\ p \in Pages
      /\ answer' = [page |-> p, data |-> Dropped]
      /\ UNCHANGED <<PSCL, memory, copies, L2C_RQ_full, requests>>
  BY Walking, WalkFields DEF IInv, DropPrefetch, Returned, ReturnDropped
<1> HIDE DEF p
<1>1. TreeClosed' /\ FrameInv' /\ MMUCachesCoherent' /\ CopiesAnswered'
  BY <1>0, MemoryKept DEF IInv
<1>2. RequestsAsked'
  BY <1>0, WalkAnswered DEF p
<1>3. WalkOK'
  BY <1>0 DEF WalkOK
<1>4. TypeOK'
  <2>1. asked' \in [Pages -> Types \cup {None}]
        /\ answer' \in [page : Pages \cup {None}, data : FrameSet \cup {None, Dropped}]
    BY <1>0 DEF TypeOK
  <2> QED BY <1>0, <2>1 DEF TypeOK, memory, PSCLSets, Inner
<1> QED BY <1>1, <1>2, <1>3, <1>4 DEF IInv

\* The end of a walk: the caches take the levels it has read, the queues keep
\* what they hold and the TLBs have what the tree holds.
LEMMA WalkEnds ==
  ASSUME IInv, MSHR # <<>>, MSHR' = <<>>, RQ' = RQ, PQ' = PQ,
         PSCL' = fill_mmu_cache(MSHR[1].page, 2 .. MSHR[1].init, tree'),
         NEW gone, Return(MSHR[1].page, gone),
         DOMAIN tree' \subseteq Nodes /\ tree' \in [DOMAIN tree' -> FrameSet],
         \A n \in DOMAIN tree : n \in DOMAIN tree' /\ tree'[n] = tree[n],
         \A l \in 1 .. Levels : Node(MSHR[1].page, l) \in DOMAIN tree'
  PROVE  /\ RequestsAsked' /\ WalkOK' /\ MMUCachesCoherent' /\ CopiesAnswered'
         /\ asked' \in [Pages -> Types \cup {None}]
         /\ answer' \in [page : Pages \cup {None}, data : FrameSet \cup {None, Dropped}]
         /\ copies' \in [Pages -> FrameSet \cup {None}]
         /\ PSCL' \in [PSCLSets -> Seq(PSCLEntries)]
         /\ \A x \in PSCLSets : Len(PSCL'[x]) <= PSCL_WAY[x[1]]
<1> DEFINE e == MSHR[1]
           p == MSHR[1].page
<1>0. TypeOK /\ WalkOK /\ MMUCachesCoherent /\ CopiesAnswered
      /\ Levels \in Nat /\ 1 \in 1 .. Levels
  BY WalkerAssumption DEF IInv
<1>1. p \in Pages /\ e.init \in 1 .. Levels /\ 1 \in DOMAIN MSHR
  BY <1>0, Walking, WalkFields
<1>2. \A n \in DOMAIN tree' : tree'[n] \in FrameSet
  OBVIOUS
<1>3. 2 .. e.init \in SUBSET Inner /\ \A l \in 2 .. e.init : l \in 1 .. Levels
  BY <1>0, <1>1 DEF Inner
<1>4. \A l \in 2 .. e.init : Hits(p, l) = {} /\ Node(p, l) \in DOMAIN tree'
  BY <1>0, <1>1, <1>3 DEF WalkOK
<1>5. /\ PSCL' \in [PSCLSets -> Seq(PSCLEntries)]
      /\ \A x \in PSCLSets : Len(PSCL'[x]) <= PSCL_WAY[x[1]]
      /\ Coherent(PSCL', tree')
  <2> DEFINE levels == 2 .. e.init
  <2>1. levels \in SUBSET Inner /\ PSCL' = fill_mmu_cache(p, levels, tree')
        /\ \A l \in levels : Hits(p, l) = {} /\ Node(p, l) \in DOMAIN tree'
    BY <1>3, <1>4
  <2>2. p \in Pages
    BY <1>1
  <2> HIDE DEF levels, p
  <2> DEFINE entries == tree'
             cache == fill_mmu_cache(p, levels, entries)
  <2>3. /\ \A n \in DOMAIN entries : entries[n] \in FrameSet
        /\ \A n \in DOMAIN tree : n \in DOMAIN entries /\ entries[n] = tree[n]
        /\ \A l \in levels : Hits(p, l) = {} /\ Node(p, l) \in DOMAIN entries
    BY <1>2, <2>1
  <2> HIDE DEF entries
  <2>4. /\ cache \in [PSCLSets -> Seq(PSCLEntries)]
        /\ \A x \in PSCLSets : Len(cache[x]) <= PSCL_WAY[x[1]]
        /\ Coherent(cache, entries)
    BY <1>0, <2>1, <2>2, <2>3, FillCoherent
  <2>5. PSCL' = cache
    BY <2>1 DEF entries
  <2> HIDE DEF cache
  <2> QED BY <2>4, <2>5 DEF entries
<1>6. MMUCachesCoherent'
  BY <1>5 DEF MMUCachesCoherent, Coherent, PSCLSets, Inner
<1>7. /\ CopiesAnswered' /\ asked' = [asked EXCEPT ![p] = None]
      /\ asked' \in [Pages -> Types \cup {None}]
      /\ answer' \in [page : Pages \cup {None}, data : FrameSet \cup {None, Dropped}]
      /\ copies' \in [Pages -> FrameSet \cup {None}]
  BY <1>0, <1>1, <1>2, Answered
<1>8. RequestsAsked'
  BY <1>7, WalkAnswered
<1>9. WalkOK'
  BY DEF WalkOK
<1> QED BY <1>5, <1>6, <1>7, <1>8, <1>9

\* Finishing a walk at its leaf preserves the invariant: the levels it fills
\* are those it missed in.
LEMMA FinishWalkKeeps ==
  ASSUME IInv, FinishWalk
  PROVE  IInv'
<1> DEFINE p == MSHR[1].page
<1>0. TypeOK /\ MSHR # <<>> /\ MSHR' = <<>> /\ RQ' = RQ /\ PQ' = PQ
      /\ PSCL' = fill_mmu_cache(p, 2 .. MSHR[1].init, tree) /\ Return(p, {})
      /\ UNCHANGED <<memory, L2C_RQ_full, requests>> /\ Missing(p, 0) = {}
  BY DEF IInv, FinishWalk, Returned
<1>1. tree' = tree /\ DOMAIN tree \subseteq Nodes /\ tree \in [DOMAIN tree -> FrameSet]
  BY <1>0 DEF memory, TypeOK
<1>2. \A l \in 1 .. Levels : Node(p, l) \in DOMAIN tree
  BY <1>0 DEF Missing
<1>3. /\ RequestsAsked' /\ WalkOK' /\ MMUCachesCoherent' /\ CopiesAnswered'
      /\ asked' \in [Pages -> Types \cup {None}]
      /\ answer' \in [page : Pages \cup {None}, data : FrameSet \cup {None, Dropped}]
      /\ copies' \in [Pages -> FrameSet \cup {None}]
      /\ PSCL' \in [PSCLSets -> Seq(PSCLEntries)]
      /\ \A x \in PSCLSets : Len(PSCL'[x]) <= PSCL_WAY[x[1]]
  BY <1>0, <1>1, <1>2, WalkEnds
<1>4. TreeClosed' /\ FrameInv'
  <2>1. /\ page_table' = page_table /\ table_pages' = table_pages
        /\ allocated_pages' = allocated_pages /\ major_fault' = major_fault
    BY <1>0 DEF memory
  <2> QED BY <1>1, <2>1 DEF IInv, TreeClosed, Node, CR3, FrameInv, FramesCounted,
             DataPages, FramesUnshared, MapAgrees
<1>5. TypeOK'
  BY <1>0, <1>3 DEF TypeOK, memory, PSCLSets, Inner
<1> QED BY <1>3, <1>4, <1>5 DEF IInv

\* handle_page_fault of a demand preserves the invariant: new tables and the
\* page take frames nobody else has.
LEMMA PageFaultKeeps ==
  ASSUME IInv, PageFault
  PROVE  IInv'
<1> DEFINE p == MSHR[1].page
<1>0. TypeOK /\ TreeClosed /\ FrameInv /\ WalkOK /\ MSHR # <<>> /\ MSHR' = <<>>
      /\ MSHR[1].returned = "COMPLETED"
      /\ RQ' = RQ /\ PQ' = PQ /\ UNCHANGED <<L2C_RQ_full, requests>>
      /\ PSCL' = fill_mmu_cache(p, 2 .. MSHR[1].init, tree') /\ Levels \in Nat
  BY WalkerAssumption DEF IInv, PageFault, Returned
<1>1. PICK L \in Missing(p, MSHR[1].level) :
        /\ \A k \in Missing(p, MSHR[1].level) : k <= L
        /\ handle_page_fault(p, L) /\ Return(p, Victims(L))
  BY DEF PageFault
<1>2. p \in Pages /\ MSHR[1].init \in 1 .. Levels /\ 1 \in DOMAIN MSHR
  BY <1>0, Walking, WalkFields
<1>3. MSHR[1].level \in 0 .. Levels - 1 /\ Reached(p, MSHR[1].level + 1)
  <2>1. MSHR[1].level \in 0 .. MSHR[1].init - 1 /\ Reached(p, MSHR[1].level + 1)
    BY <1>0, <1>2 DEF WalkOK
  <2> QED BY <1>0, <1>2, <2>1
<1>4. FaultsAt(p, L) /\ L \in 1 .. Levels
  BY <1>0, <1>1, <1>2, <1>3, FaultFound
<1> HIDE DEF p
<1>5. /\ DOMAIN tree' \subseteq Nodes /\ tree' \in [DOMAIN tree' -> FrameSet]
      /\ DOMAIN page_table' \subseteq Pages
      /\ page_table' \in [DOMAIN page_table' -> FrameSet]
      /\ table_pages' \in Seq(FrameSet)
      /\ allocated_pages' \in 0 .. DRAM_PAGES /\ major_fault' \in BOOLEAN
  BY <1>0, <1>1, <1>2, <1>4, FaultTypes
<1>6. /\ \A n \in DOMAIN tree : n \in DOMAIN tree' /\ tree'[n] = tree[n]
      /\ \A k \in 1 .. Levels : Node(p, k) \in DOMAIN tree'
  <2>1. /\ DOMAIN tree' = DOMAIN tree \cup NewNodes(p, L)
        /\ \A n \in DOMAIN tree : tree'[n] = tree[n]
        /\ \A k \in 1 .. Levels : Node(p, k) \in DOMAIN tree'
    BY <1>0, <1>1, <1>2, <1>4, FaultTree
  <2> QED BY <2>1
<1>7. /\ RequestsAsked' /\ WalkOK' /\ MMUCachesCoherent' /\ CopiesAnswered'
      /\ asked' \in [Pages -> Types \cup {None}]
      /\ answer' \in [page : Pages \cup {None}, data : FrameSet \cup {None, Dropped}]
      /\ copies' \in [Pages -> FrameSet \cup {None}]
      /\ PSCL' \in [PSCLSets -> Seq(PSCLEntries)]
      /\ \A x \in PSCLSets : Len(PSCL'[x]) <= PSCL_WAY[x[1]]
  BY <1>0, <1>1, <1>5, <1>6, WalkEnds DEF p
<1>8. TreeClosed' /\ FrameInv'
  BY <1>0, <1>1, <1>2, <1>4, FaultCloses, FaultFrames
<1>9. TypeOK'
  BY <1>0, <1>5, <1>7 DEF TypeOK, PSCLSets, Inner
<1> QED BY <1>7, <1>8, <1>9 DEF IInv

\* A walk that goes on keeps its page and type, and what it fills at its end.
LEMMA WalkGoesOn ==
  ASSUME IInv, MSHR # <<>>, NEW e \in Walks, MSHR' = <<e>>,
         e.page = MSHR[1].page, e.type = MSHR[1].type, e.init = MSHR[1].init,
         UNCHANGED <<RQ, PQ, PSCL, memory, L2C_RQ_full, stlb, requests>>,
         e.returned = "INFLIGHT" => /\ e.level \in 1 .. e.init
                                    /\ Reached(e.page, e.level)
                                    /\ e.base = tree[Table(e.page, e.level)],
         e.returned = "COMPLETED" => /\ e.level \in 0 .. e.init - 1
                                     /\ Reached(e.page, e.level + 1)
  PROVE  IInv'
<1>0. TypeOK /\ WalkOK /\ RequestsAsked /\ 1 \in DOMAIN MSHR
  BY Walking DEF IInv
<1>1. /\ DOMAIN MSHR' = {1} /\ MSHR'[1] = e /\ Len(MSHR') = 1
      /\ MSHR' \in Seq(Walks)
  BY OneWalk
<1>2. tree' = tree /\ PSCL' = PSCL /\ RQ' = RQ /\ PQ' = PQ /\ asked' = asked
  BY DEF memory, stlb
<1>3. TreeClosed' /\ FrameInv' /\ MMUCachesCoherent' /\ CopiesAnswered'
  BY MemoryKept DEF IInv, stlb
<1>4. TypeOK'
  BY <1>0, <1>1 DEF TypeOK, memory, stlb, PSCLSets, Inner
<1>5. \A l \in 2 .. e.init : Hits(e.page, l) = {}
  BY <1>0 DEF WalkOK
<1>6. WalkOK'
  <2>1. /\ Reached(e.page, e.level)' = Reached(e.page, e.level)
        /\ Reached(e.page, e.level + 1)' = Reached(e.page, e.level + 1)
    BY <1>2 DEF Reached, Node, CR3
  <2>2. tree[Table(e.page, e.level)]' = tree[Table(e.page, e.level)]
    BY <1>2 DEF Table, Node, CR3
  <2>3. \A l \in 2 .. e.init : Hits(e.page, l)' = {}
    BY <1>2, <1>5 DEF Hits, Node, PSCLSet
  <2>4. /\ e.returned = "INFLIGHT" => /\ e.level \in 1 .. e.init
                                      /\ Reached(e.page, e.level)'
                                      /\ e.base = tree[Table(e.page, e.level)]'
        /\ e.returned = "COMPLETED" => /\ e.level \in 0 .. e.init - 1
                                       /\ Reached(e.page, e.level + 1)'
    BY <2>1, <2>2
  <2>5. \A i \in DOMAIN MSHR' : MSHR'[i] = e
    BY <1>1
  <2> QED BY <2>3, <2>4, <2>5 DEF WalkOK
<1>7. RequestsAsked'
  BY <1>0, <1>1, <1>2 DEF RequestsAsked, Asked, Once
<1> QED BY <1>3, <1>4, <1>6, <1>7 DEF IInv

\* Reading the entry of the next level preserves the invariant.
LEMMA NextLevelKeeps ==
  ASSUME IInv, NextLevel
  PROVE  IInv'
<1> DEFINE e == MSHR[1]
           w == [e EXCEPT !.returned = "INFLIGHT",
                          !.base = tree[Node(e.page, e.level + 1)],
                          !.offset = e.page[e.level]]
<1>0. TypeOK /\ WalkOK /\ MSHR # <<>> /\ 1 \in DOMAIN MSHR /\ e \in Walks
      /\ Levels \in Nat
  BY Walking, WalkerAssumption DEF IInv, NextLevel, Returned
<1>1. /\ e.returned = "COMPLETED" /\ e.level > 0 /\ Missing(e.page, e.level) = {}
      /\ MSHR' = <<w>>
      /\ UNCHANGED <<RQ, PQ, PSCL, memory, L2C_RQ_full, stlb, requests>>
  BY DEF NextLevel, Returned
<1>2. /\ e.page \in Pages /\ e.type \in Types /\ e.level \in 0 .. Levels
      /\ e.init \in 1 .. Levels /\ e.base \in FrameSet
  BY <1>0, WalkFields
<1>3. e.level \in 0 .. e.init - 1 /\ Reached(e.page, e.level + 1)
  BY <1>0, <1>1 DEF WalkOK
<1>4. e.level \in 1 .. e.init /\ e.level + 1 \in 1 .. Levels /\ e.level \in 1 .. Levels
      /\ e.level # Levels
  BY <1>0, <1>1, <1>2, <1>3
<1>5. \A l \in e.level + 1 .. Levels : Node(e.page, l) \in DOMAIN tree
  BY <1>1 DEF Missing
<1>6. Reached(e.page, e.level) /\ Node(e.page, e.level + 1) \in DOMAIN tree
  BY <1>0, <1>3, <1>4, <1>5 DEF Reached
<1>7. tree[Node(e.page, e.level + 1)] \in FrameSet
  BY <1>0, <1>6 DEF TypeOK
<1>8. e.page[e.level] \in Offsets
  BY <1>2, <1>4, WalkerAssumption
<1>9. /\ w \in Walks /\ w.page = e.page /\ w.type = e.type /\ w.init = e.init
      /\ w.level = e.level /\ w.returned = "INFLIGHT"
      /\ w.base = tree[Node(e.page, e.level + 1)]
  BY <1>0, <1>7, <1>8 DEF Walks
<1> HIDE DEF w
<1>10. w.base = tree[Table(w.page, w.level)]
  BY <1>4, <1>9 DEF Table
<1> QED BY <1>0, <1>1, <1>4, <1>6, <1>9, <1>10, WalkGoesOn

\* The answer of L2C preserves the invariant.
LEMMA ReturnDataKeeps ==
  ASSUME IInv, return_data
  PROVE  IInv'
<1> DEFINE e == MSHR[1]
           w == [e EXCEPT !.returned = "COMPLETED", !.level = @ - 1]
<1>0. TypeOK /\ WalkOK /\ MSHR # <<>> /\ 1 \in DOMAIN MSHR /\ e \in Walks
      /\ Levels \in Nat
  BY Walking, WalkerAssumption DEF IInv, return_data
<1>1. /\ e.returned = "INFLIGHT" /\ MSHR' = <<w>>
      /\ UNCHANGED <<RQ, PQ, PSCL, memory, L2C_RQ_full, stlb, requests>>
  BY DEF return_data
<1>2. /\ e.level \in 0 .. Levels /\ e.init \in 1 .. Levels
  BY <1>0, WalkFields
<1>3. e.level \in 1 .. e.init /\ Reached(e.page, e.level)
  BY <1>0, <1>1 DEF WalkOK
<1>4. e.level - 1 \in 0 .. Levels /\ e.level - 1 \in 0 .. e.init - 1
      /\ (e.level - 1) + 1 = e.level
  BY <1>0, <1>2, <1>3
<1>5. /\ w \in Walks /\ w.page = e.page /\ w.type = e.type /\ w.init = e.init
      /\ w.level = e.level - 1 /\ w.returned = "COMPLETED"
  BY <1>0, <1>4 DEF Walks
<1> HIDE DEF w
<1>6. w.level + 1 = e.level /\ w.level \in 0 .. w.init - 1 /\ Reached(w.page, w.level + 1)
  BY <1>3, <1>4, <1>5
<1> QED BY <1>0, <1>1, <1>5, <1>6, WalkGoesOn

\* A walk begins at the lowest level below all that is cached, in the table
\* that the tree has there.
LEMMA WalkBegins ==
  ASSUME IInv, CR3 \in DOMAIN tree, NEW r \in Requests, NEW source
  PROVE  LET e == Walk(r, source)
         IN  /\ e \in Walks /\ e.page = r.page /\ e.type = r.type
             /\ e.returned = "INFLIGHT" /\ e.level = e.init /\ e.level \in 1 .. e.init
             /\ Reached(e.page, e.level) /\ e.base = tree[Table(e.page, e.level)]
             /\ \A l \in 2 .. e.init : Hits(e.page, l) = {}
<1> DEFINE p == r.page
           cached == {l \in Inner : Hits(p, l) # {}}
           start == IF cached = {} THEN Levels
                    ELSE (CHOOSE l \in cached : \A k \in cached : l <= k) - 1
           found == PSCL[PSCLSet(p, start + 1)]
           base == IF cached = {} THEN tree[CR3]
                   ELSE found[CHOOSE i \in Hits(p, start + 1) : TRUE].data
           offset == IF source = "PQ" /\ cached # {} /\ start = Levels - 1
                     THEN 0 ELSE p[start]
<1>0. TypeOK /\ TreeClosed /\ MMUCachesCoherent /\ Levels \in Nat \ {0, 1}
  BY WalkerAssumption DEF IInv
<1>1. p \in Pages /\ r.type \in Types
  BY DEF Requests
<1>2. Walk(r, source) =
        [page |-> p, type |-> r.type, level |-> start, init |-> start,
         returned |-> "INFLIGHT", base |-> base, offset |-> offset]
  BY DEF Walk
<1>3. /\ start \in 1 .. Levels /\ Reached(p, start) /\ base = tree[Table(p, start)]
      /\ base \in FrameSet /\ \A l \in 2 .. start : Hits(p, l) = {}
  <2>1. CASE cached = {}
    <3>1. start = Levels /\ base = tree[CR3]
      BY <2>1
    <3>2. \A l \in 2 .. Levels : Hits(p, l) = {}
      BY <2>1 DEF Inner
    <3>3. tree[CR3] \in FrameSet
      BY <1>0 DEF TypeOK
    <3> HIDE DEF start, base
    <3>4. Reached(p, start)
      BY <1>0, <3>1 DEF Reached
    <3> QED BY <1>0, <3>1, <3>2, <3>3, <3>4 DEF Table
  <2>2. CASE cached # {}
    <3>1. cached \in SUBSET Nat
      BY <1>0 DEF Inner
    <3> DEFINE m == CHOOSE l \in cached : \A k \in cached : l <= k
    <3>2. m \in cached /\ \A k \in cached : m <= k
      <4> HIDE DEF cached
      <4>1. \E l \in cached : \A k \in cached : l <= k
        BY <2>2, <3>1, LeastOf
      <4> QED BY <4>1
    <3>3. start = m - 1 /\ m \in Inner /\ Hits(p, m) # {}
      BY <2>2, <3>2
    <3> HIDE DEF m
    <3>4. m \in 2 .. Levels
      BY <3>3 DEF Inner
    <3>5. start \in 1 .. Levels - 1 /\ start + 1 = m /\ start \in 1 .. Levels /\ start # Levels
          /\ m \in 1 .. Levels
      <4> HIDE DEF start
      <4> QED BY <1>0, <3>3, <3>4
    <3>6. \A l \in 2 .. start : Hits(p, l) = {}
      <4>1. ASSUME NEW l \in 2 .. start
            PROVE  l \in Inner /\ ~(m <= l)
        <5> HIDE DEF start
        <5> QED BY <1>0, <3>4, <3>5 DEF Inner
      <4> QED BY <3>2, <4>1
    <3> DEFINE i == CHOOSE i \in Hits(p, start + 1) : TRUE
    <3>7. i \in Hits(p, m)
      <4>1. i \in Hits(p, start + 1)
        <5>1. Hits(p, start + 1) # {}
          BY <3>3, <3>5
        <5> QED BY <5>1
      <4> QED BY <3>5, <4>1
    <3>8. base = found[i].data /\ found = PSCL[PSCLSet(p, m)]
      <4>1. base = found[i].data
        BY <2>2
      <4>2. found = PSCL[PSCLSet(p, m)]
        BY <3>5
      <4> QED BY <4>1, <4>2
    <3> HIDE DEF i, base, found, start, cached
    <3>9. i \in DOMAIN PSCL[PSCLSet(p, m)] /\ PSCL[PSCLSet(p, m)][i].node = Node(p, m)
      BY <3>7 DEF Hits
    <3>10. PSCLSet(p, m) \in PSCLSets
      BY <1>1, <3>3, SetOfPage
    <3>11. Node(p, m) \in DOMAIN tree /\ base = tree[Node(p, m)]
      BY <1>0, <3>8, <3>9, <3>10 DEF MMUCachesCoherent
    <3>12. \A k \in m .. Levels : Node(p, k) \in DOMAIN tree
      BY <1>0, <1>1, <3>5, <3>11 DEF TreeClosed
    <3>13. Reached(p, start)
      BY <3>5, <3>12 DEF Reached
    <3>14. Table(p, start) = Node(p, m)
      BY <3>5 DEF Table
    <3>15. tree[Node(p, m)] \in FrameSet
      BY <1>0, <3>11 DEF TypeOK
    <3> QED BY <3>5, <3>6, <3>11, <3>13, <3>14, <3>15
  <2> QED BY <2>1, <2>2
<1> HIDE DEF start, base
<1>4. offset \in Offsets \cup {0}
  <2>1. p[start] \in Offsets
    BY <1>1, <1>3, WalkerAssumption
  <2> QED BY <2>1
<1> HIDE DEF offset, p
<1>5. Walk(r, source) \in Walks
  BY <1>0, <1>1, <1>2, <1>3, <1>4 DEF Walks
<1>6. start \in 1 .. start
  BY <1>0, <1>3
<1> QED BY <1>2, <1>3, <1>5, <1>6 DEF p

\* Starting a walk below the best hit of the MMU caches preserves the
\* invariant: the table it begins with is the one the tree leads to.
LEMMA StartWalkKeeps ==
  ASSUME IInv, NEW source \in {"RQ", "PQ"}, StartWalk(source)
  PROVE  IInv'
<1> DEFINE r == Head(IF source = "RQ" THEN RQ ELSE PQ)
           e == Walk(r, source)
<1>0. TypeOK /\ MSHR = <<>> /\ CR3 \in DOMAIN tree
      /\ UNCHANGED <<PSCL, memory, L2C_RQ_full, stlb, requests>>
  BY DEF IInv, StartWalk
<1>1. /\ \/ source = "RQ" /\ RQ # <<>> /\ RQ' = Tail(RQ) /\ PQ' = PQ
         \/ source = "PQ" /\ RQ = <<>> /\ PQ # <<>> /\ PQ' = Tail(PQ) /\ RQ' = RQ
      /\ MSHR' = <<e>>
  BY DEF StartWalk
<1>2. /\ r \in Requests /\ asked[r.page] = r.type
      /\ RQ' \in Seq(Requests) /\ Len(RQ') <= PTW_RQ_SIZE
      /\ PQ' \in Seq(Requests) /\ Len(PQ') <= PTW_PQ_SIZE
      /\ \A j \in DOMAIN RQ' : RQ'[j].page # r.page
      /\ \A j \in DOMAIN PQ' : PQ'[j].page # r.page
      /\ Asked(RQ', Demands) /\ Asked(PQ', {"PREFETCH_TRANSLATION"})
      /\ Once(RQ') /\ Once(PQ')
  BY <1>0, <1>1, RequestTaken
<1> HIDE DEF r
<1>3. /\ e \in Walks /\ e.page = r.page /\ e.type = r.type
      /\ e.returned = "INFLIGHT" /\ e.level = e.init /\ e.level \in 1 .. e.init
      /\ Reached(e.page, e.level) /\ e.base = tree[Table(e.page, e.level)]
      /\ \A l \in 2 .. e.init : Hits(e.page, l) = {}
  BY <1>0, <1>2, WalkBegins
<1> HIDE DEF e
<1>4. /\ DOMAIN MSHR' = {1} /\ MSHR'[1] = e /\ Len(MSHR') = 1
      /\ MSHR' \in Seq(Walks)
  BY <1>1, <1>3, OneWalk
<1>5. TreeClosed' /\ FrameInv' /\ MMUCachesCoherent' /\ CopiesAnswered'
  BY <1>0, MemoryKept DEF IInv, stlb
<1>6. tree' = tree /\ PSCL' = PSCL /\ asked' = asked
  BY <1>0 DEF memory, stlb
<1>7. TypeOK'
  BY <1>0, <1>2, <1>4 DEF TypeOK, memory, stlb, PSCLSets, Inner
<1>8. WalkOK'
  <2>1. Reached(MSHR[1].page, MSHR[1].level)'
    BY <1>3, <1>4, <1>6 DEF Reached, Node, CR3
  <2>2. (MSHR[1].base = tree[Table(MSHR[1].page, MSHR[1].level)])'
    BY <1>3, <1>4, <1>6 DEF Table, Node, CR3
  <2>3. (\A l \in 2 .. MSHR[1].init : Hits(MSHR[1].page, l) = {})'
    <3>1. MSHR'[1].init = e.init /\ MSHR'[1].page = e.page /\ PSCL' = PSCL
      BY <1>4, <1>6
    <3>2. \A l \in 2 .. e.init : Hits(e.page, l) = {}
      BY <1>3
    <3> QED BY <3>1, <3>2, Zenon DEF Hits, Node, PSCLSet
  <2>4. MSHR'[1].level \in 1 .. MSHR'[1].init /\ MSHR'[1].returned = "INFLIGHT"
    BY <1>3, <1>4
  <2> QED BY <1>4, <2>1, <2>2, <2>3, <2>4 DEF WalkOK
<1>9. RequestsAsked'
  <2>1. e.type \in Types /\ asked'[e.page] = e.type
    BY <1>2, <1>3, <1>6, WalkFields
  <2>2. Asked(RQ, Demands)' /\ Asked(PQ, {"PREFETCH_TRANSLATION"})' /\ Once(RQ)' /\ Once(PQ)'
    BY <1>2, <1>6 DEF Asked, Once, Demands, Types
  <2>3. Asked(MSHR, Types)'
    BY <1>4, <2>1 DEF Asked, Types
  <2> QED BY <1>2, <1>3, <1>4, <2>2, <2>3 DEF RequestsAsked
<1> QED BY <1>5, <1>7, <1>8, <1>9 DEF IInv

\* The first walk of all, which makes the table of CR3, preserves the
\* invariant.
LEMMA FirstWalkKeeps ==
  ASSUME IInv, NEW source \in {"RQ", "PQ"}, FirstWalk(source)
  PROVE  IInv'
<1> DEFINE r == Head(IF source = "RQ" THEN RQ ELSE PQ)
           p == r.page
           L == Levels + 1
<1>0. TypeOK /\ TreeClosed /\ FrameInv /\ MMUCachesCoherent /\ CopiesAnswered
      /\ MSHR = <<>> /\ CR3 \notin DOMAIN tree /\ UNCHANGED <<MSHR, L2C_RQ_full, requests>>
      /\ Levels \in Nat \ {0, 1}
  BY WalkerAssumption DEF IInv, FirstWalk
<1>1. \/ source = "RQ" /\ RQ # <<>> /\ RQ' = Tail(RQ) /\ PQ' = PQ
      \/ source = "PQ" /\ RQ = <<>> /\ PQ # <<>> /\ PQ' = Tail(PQ) /\ RQ' = RQ
  BY DEF FirstWalk
<1>2. /\ handle_page_fault(p, L) /\ PSCL' = fill_mmu_cache(p, Inner, tree')
      /\ Return(p, Victims(L))
  BY DEF FirstWalk
<1>3. /\ r \in Requests
      /\ RQ' \in Seq(Requests) /\ Len(RQ') <= PTW_RQ_SIZE
      /\ PQ' \in Seq(Requests) /\ Len(PQ') <= PTW_PQ_SIZE
      /\ \A j \in DOMAIN RQ' : RQ'[j].page # r.page
      /\ \A j \in DOMAIN PQ' : PQ'[j].page # r.page
      /\ Asked(RQ', Demands) /\ Asked(PQ', {"PREFETCH_TRANSLATION"})
      /\ Once(RQ') /\ Once(PQ')
  BY <1>0, <1>1, RequestTaken
<1>4. p \in Pages
  BY <1>3 DEF Requests
<1>5. DOMAIN tree = {}
  <2>1. \A n \in DOMAIN tree : n = CR3 \/ \E q \in Pages, l \in 1 .. Levels : n = Node(q, l)
    BY <1>0 DEF TypeOK, Nodes
  <2>2. CR3 \notin DOMAIN tree
    BY <1>0
  <2>3. \A q \in Pages, l \in 1 .. Levels : Node(q, l) \notin DOMAIN tree
    BY <1>0, <2>2 DEF TreeClosed
  <2> QED BY <2>1, <2>2, <2>3
<1>6. FaultsAt(p, L)
  <2>1. L \in 1 .. Levels + 1 /\ ~(L <= Levels) /\ \A k \in 1 .. Levels : ~(k > L)
    BY <1>0
  <2> QED BY <1>0, <1>5, <2>1 DEF FaultsAt
<1> HIDE DEF L, p
<1>7. /\ DOMAIN tree' \subseteq Nodes /\ tree' \in [DOMAIN tree' -> FrameSet]
      /\ DOMAIN page_table' \subseteq Pages
      /\ page_table' \in [DOMAIN page_table' -> FrameSet]
      /\ table_pages' \in Seq(FrameSet)
      /\ allocated_pages' \in 0 .. DRAM_PAGES /\ major_fault' \in BOOLEAN
  BY <1>0, <1>2, <1>4, <1>6, FaultTypes
<1>8. TreeClosed' /\ FrameInv'
  BY <1>0, <1>2, <1>4, <1>6, FaultCloses, FaultFrames
<1>9. /\ \A k \in 1 .. Levels : Node(p, k) \in DOMAIN tree'
      /\ \A n \in DOMAIN tree' : tree'[n] \in FrameSet
      /\ \A n \in DOMAIN tree : n \in DOMAIN tree' /\ tree'[n] = tree[n]
  BY <1>0, <1>2, <1>4, <1>5, <1>6, <1>7, FaultTree
<1>10. /\ PSCL' \in [PSCLSets -> Seq(PSCLEntries)]
       /\ \A x \in PSCLSets : Len(PSCL'[x]) <= PSCL_WAY[x[1]]
       /\ Coherent(PSCL', tree')
  <2> DEFINE levels == Inner
             entries == tree'
             cache == fill_mmu_cache(p, levels, entries)
  <2>1. \A l \in levels : Hits(p, l) = {} /\ Node(p, l) \in DOMAIN entries
    <3> SUFFICES ASSUME NEW l \in Inner
                 PROVE  Hits(p, l) = {} /\ Node(p, l) \in DOMAIN tree'
      OBVIOUS
    <3>1. PSCLSet(p, l) \in PSCLSets /\ l \in 1 .. Levels
      BY <1>4, SetOfPage
    <3>2. DOMAIN PSCL[PSCLSet(p, l)] = {}
      BY <1>0, <1>5, <3>1 DEF MMUCachesCoherent
    <3> QED BY <1>9, <3>1, <3>2 DEF Hits
  <2>2. levels \in SUBSET Inner
    OBVIOUS
  <2>3. /\ \A n \in DOMAIN entries : entries[n] \in FrameSet
        /\ \A n \in DOMAIN tree : n \in DOMAIN entries /\ entries[n] = tree[n]
    BY <1>9
  <2>4. PSCL' = cache
    BY <1>2
  <2> HIDE DEF levels, entries
  <2>5. /\ cache \in [PSCLSets -> Seq(PSCLEntries)]
        /\ \A x \in PSCLSets : Len(cache[x]) <= PSCL_WAY[x[1]]
        /\ Coherent(cache, entries)
    BY <1>0, <1>4, <2>1, <2>2, <2>3, FillCoherent
  <2> HIDE DEF cache
  <2> QED BY <2>4, <2>5 DEF entries
<1>11. MMUCachesCoherent'
  BY <1>10 DEF MMUCachesCoherent, Coherent, PSCLSets, Inner
<1>12. /\ CopiesAnswered' /\ asked' = [asked EXCEPT ![p] = None]
       /\ asked' \in [Pages -> Types \cup {None}]
       /\ answer' \in [page : Pages \cup {None}, data : FrameSet \cup {None, Dropped}]
       /\ copies' \in [Pages -> FrameSet \cup {None}]
  <2>1. Node(p, 1) \in DOMAIN tree' /\ tree'[Node(p, 1)] \in FrameSet
    BY <1>0, <1>9
  <2> QED BY <1>0, <1>2, <1>4, <1>9, <2>1, Answered
<1>13. TypeOK'
  BY <1>0, <1>3, <1>7, <1>10, <1>12 DEF TypeOK, PSCLSets, Inner
<1>14. DOMAIN MSHR' = {}
  BY <1>0
<1>15. WalkOK'
  BY <1>14 DEF WalkOK
<1>16. RequestsAsked'
  <2>1. \A j \in DOMAIN RQ' : RQ'[j].page # p
    BY <1>3 DEF p
  <2>2. \A j \in DOMAIN PQ' : PQ'[j].page # p
    BY <1>3 DEF p
  <2>3. \A i \in DOMAIN RQ' : asked'[RQ'[i].page] = RQ'[i].type /\ RQ'[i].type \in Demands
    BY <1>0, <1>3, <1>4, <1>12, <2>1, StillAsked
  <2>4. \A i \in DOMAIN PQ' : asked'[PQ'[i].page] = PQ'[i].type
                              /\ PQ'[i].type \in {"PREFETCH_TRANSLATION"}
    <3> DEFINE types == {"PREFETCH_TRANSLATION"}
    <3>1. Asked(PQ', types)
      BY <1>3
    <3> HIDE DEF types
    <3>2. \A i \in DOMAIN PQ' : asked'[PQ'[i].page] = PQ'[i].type /\ PQ'[i].type \in types
      BY <1>0, <1>3, <1>4, <1>12, <2>2, <3>1, StillAsked
    <3> QED BY <3>2 DEF types
  <2>5. Asked(RQ, Demands)' /\ Asked(PQ, {"PREFETCH_TRANSLATION"})' /\ Once(RQ)' /\ Once(PQ)'
    BY <1>3, <2>3, <2>4 DEF Asked, Once, Demands, Types
  <2> QED BY <1>14, <2>5 DEF RequestsAsked, Asked
<1> QED BY <1>8, <1>11, <1>12, <1>13, <1>15, <1>16 DEF IInv

\* A request whose page is not in a queue that names each page once may join
\* it.
LEMMA Queued ==
  ASSUME NEW q \in Seq(Requests), NEW r \in Requests, Once(q),
         \A i \in DOMAIN q : q[i].page # r.page
  PROVE  /\ Append(q, r) \in Seq(Requests) /\ Len(Append(q, r)) = Len(q) + 1
         /\ Once(Append(q, r))
         /\ \A i \in DOMAIN Append(q, r) : \/ i \in DOMAIN q /\ Append(q, r)[i] = q[i]
                                           \/ Append(q, r)[i] = r
<1>1. /\ Append(q, r) \in Seq(Requests) /\ Len(Append(q, r)) = Len(q) + 1
      /\ \A i \in 1 .. Len(q) : Append(q, r)[i] = q[i]
      /\ Append(q, r)[Len(q) + 1] = r
  BY AppendProperties
<1>2. Len(q) \in Nat /\ DOMAIN q = 1 .. Len(q) /\ DOMAIN Append(q, r) = 1 .. Len(q) + 1
  BY <1>1
<1> DEFINE a == Append(q, r)
<1>3. \A i \in DOMAIN a : \/ i \in DOMAIN q /\ a[i] = q[i]
                          \/ i = Len(q) + 1 /\ a[i] = r
  BY <1>1, <1>2
<1> HIDE DEF a
<1>4. ASSUME NEW i \in DOMAIN a, NEW j \in DOMAIN a, a[i].page = a[j].page
      PROVE  i = j
  <2>1. \A k, l \in DOMAIN q : q[k].page = q[l].page => k = l
    BY DEF Once
  <2> QED BY <1>3, <1>4, <2>1
<1>5. Once(a)
  BY <1>4 DEF Once
<1> QED BY <1>1, <1>3, <1>5 DEF a

\* A request of STLB (add_rq, add_pq) preserves the invariant.
LEMMA RequestKeeps ==
  ASSUME IInv, NEW p \in Pages, NEW t \in Types, Request(p, t)
  PROVE  IInv'
<1> DEFINE r == [page |-> p, type |-> t]
<1>0. TypeOK /\ RequestsAsked /\ WalkOK
      /\ UNCHANGED <<MSHR, PSCL, memory, L2C_RQ_full, answer, copies>>
      /\ requests < MaxRequests /\ requests' = requests + 1
      /\ asked[p] = None /\ asked' = [asked EXCEPT ![p] = t]
  BY DEF IInv, Request
<1>1. /\ RQ \in Seq(Requests) /\ Len(RQ) <= PTW_RQ_SIZE /\ Len(RQ) \in Nat
      /\ PQ \in Seq(Requests) /\ Len(PQ) <= PTW_PQ_SIZE /\ Len(PQ) \in Nat
      /\ MSHR \in Seq(Walks) /\ asked \in [Pages -> Types \cup {None}]
  BY <1>0 DEF TypeOK
<1>2. \/ /\ t # "PREFETCH_TRANSLATION" /\ PQ' = PQ
         /\ Len(RQ) < PTW_RQ_SIZE /\ RQ' = Append(RQ, r)
      \/ /\ t = "PREFETCH_TRANSLATION" /\ RQ' = RQ
         /\ Len(PQ) < PTW_PQ_SIZE /\ PQ' = Append(PQ, r)
  BY DEF Request
<1>3. r \in Requests /\ r.page = p /\ r.type = t
  BY DEF Requests
<1>4. None \notin Types /\ PTW_RQ_SIZE \in Nat /\ PTW_PQ_SIZE \in Nat /\ MaxRequests \in Nat
      /\ Demands \subseteq Types /\ "PREFETCH_TRANSLATION" \in Types
  BY WalkerAssumption, TypesAssumption DEF Types, Demands
<1> HIDE DEF r
<1>5. /\ \A i \in DOMAIN RQ : RQ[i].page # p /\ asked'[RQ[i].page] = RQ[i].type
                              /\ RQ[i].type \in Demands
      /\ \A i \in DOMAIN PQ : PQ[i].page # p /\ asked'[PQ[i].page] = PQ[i].type
                              /\ PQ[i].type = "PREFETCH_TRANSLATION"
      /\ \A i \in DOMAIN MSHR : MSHR[i].page # p /\ asked'[MSHR[i].page] = MSHR[i].type
                                /\ MSHR[i].type \in Types
  <2>1. \A q \in Pages : q # p => asked'[q] = asked[q]
    BY <1>0, <1>1
  <2>2. /\ \A i \in DOMAIN RQ : asked[RQ[i].page] = RQ[i].type /\ RQ[i].type \in Demands
        /\ \A i \in DOMAIN PQ : asked[PQ[i].page] = PQ[i].type
                                /\ PQ[i].type = "PREFETCH_TRANSLATION"
        /\ \A i \in DOMAIN MSHR : asked[MSHR[i].page] = MSHR[i].type
                                  /\ MSHR[i].type \in Types
    BY <1>0 DEF RequestsAsked, Asked
  <2>3. /\ \A i \in DOMAIN RQ : RQ[i].page \in Pages
        /\ \A i \in DOMAIN PQ : PQ[i].page \in Pages
    <3>1. /\ \A i \in DOMAIN RQ : RQ[i] \in Requests
          /\ \A i \in DOMAIN PQ : PQ[i] \in Requests
      BY <1>1
    <3> QED BY <3>1 DEF Requests
  <2>4. \A i \in DOMAIN MSHR : MSHR[i].page \in Pages
    <3>1. \A i \in DOMAIN MSHR : MSHR[i] \in Walks
      BY <1>1
    <3> QED BY <3>1 DEF Walks
  <2> QED BY <1>0, <1>4, <2>1, <2>2, <2>3, <2>4
<1>6. asked'[p] = t /\ asked' \in [Pages -> Types \cup {None}]
  BY <1>0, <1>1
<1>7. /\ RQ' \in Seq(Requests) /\ Len(RQ') <= PTW_RQ_SIZE
      /\ PQ' \in Seq(Requests) /\ Len(PQ') <= PTW_PQ_SIZE
      /\ Once(RQ') /\ Once(PQ')
      /\ \A i \in DOMAIN RQ' : \/ RQ'[i] = r /\ t # "PREFETCH_TRANSLATION"
                               \/ i \in DOMAIN RQ /\ RQ'[i] = RQ[i]
      /\ \A i \in DOMAIN PQ' : \/ PQ'[i] = r /\ t = "PREFETCH_TRANSLATION"
                               \/ i \in DOMAIN PQ /\ PQ'[i] = PQ[i]
  <2>1. Once(RQ) /\ Once(PQ)
    BY <1>0 DEF RequestsAsked
  <2>2. CASE t # "PREFETCH_TRANSLATION" /\ PQ' = PQ
             /\ Len(RQ) < PTW_RQ_SIZE /\ RQ' = Append(RQ, r)
    <3>1. /\ Append(RQ, r) \in Seq(Requests) /\ Len(Append(RQ, r)) = Len(RQ) + 1
          /\ Once(Append(RQ, r))
          /\ \A i \in DOMAIN Append(RQ, r) : \/ i \in DOMAIN RQ /\ Append(RQ, r)[i] = RQ[i]
                                             \/ Append(RQ, r)[i] = r
      BY <1>1, <1>3, <1>5, <2>1, Queued
    <3>2. Len(RQ) + 1 <= PTW_RQ_SIZE
      BY <1>1, <1>4, <2>2
    <3> QED BY <1>1, <2>1, <2>2, <3>1, <3>2
  <2>3. CASE t = "PREFETCH_TRANSLATION" /\ RQ' = RQ
             /\ Len(PQ) < PTW_PQ_SIZE /\ PQ' = Append(PQ, r)
    <3>1. /\ Append(PQ, r) \in Seq(Requests) /\ Len(Append(PQ, r)) = Len(PQ) + 1
          /\ Once(Append(PQ, r))
          /\ \A i \in DOMAIN Append(PQ, r) : \/ i \in DOMAIN PQ /\ Append(PQ, r)[i] = PQ[i]
                                             \/ Append(PQ, r)[i] = r
      BY <1>1, <1>3, <1>5, <2>1, Queued
    <3>2. Len(PQ) + 1 <= PTW_PQ_SIZE
      BY <1>1, <1>4, <2>3
    <3> QED BY <1>1, <2>1, <2>3, <3>1, <3>2
  <2> QED BY <1>2, <2>2, <2>3
<1>8. TypeOK'
  <2>1. requests' \in 0 .. MaxRequests
    <3>1. requests \in 0 .. MaxRequests
      BY <1>0 DEF TypeOK
    <3> QED BY <1>0, <1>4, <3>1
  <2> QED BY <1>0, <1>6, <1>7, <2>1 DEF TypeOK, memory, PSCLSets, Inner
<1>9. RequestsAsked'
  <2>1. t # "PREFETCH_TRANSLATION" => t \in Demands
    BY DEF Demands
  <2>2. \A i \in DOMAIN RQ' : asked'[RQ'[i].page] = RQ'[i].type /\ RQ'[i].type \in Demands
    BY <1>3, <1>5, <1>6, <1>7, <2>1
  <2>3. \A i \in DOMAIN PQ' : asked'[PQ'[i].page] = PQ'[i].type
                              /\ PQ'[i].type = "PREFETCH_TRANSLATION"
    BY <1>3, <1>5, <1>6, <1>7
  <2>4. Asked(RQ, Demands)' /\ Asked(PQ, {"PREFETCH_TRANSLATION"})' /\ Once(RQ)' /\ Once(PQ)'
    BY <1>7, <2>2, <2>3 DEF Asked, Once, Demands, Types
  <2>5. Asked(MSHR, Types)'
    BY <1>0, <1>5 DEF Asked, Types
  <2>6. ASSUME NEW i \in DOMAIN MSHR'
        PROVE  /\ \A j \in DOMAIN RQ' : RQ'[j].page # MSHR'[i].page
               /\ \A j \in DOMAIN PQ' : PQ'[j].page # MSHR'[i].page
    <3>1. /\ MSHR' = MSHR /\ i \in DOMAIN MSHR /\ MSHR[i].page # p
          /\ \A j \in DOMAIN RQ : RQ[j].page # MSHR[i].page
          /\ \A j \in DOMAIN PQ : PQ[j].page # MSHR[i].page
      BY <1>0, <1>5 DEF RequestsAsked
    <3> QED BY <1>3, <1>7, <3>1
  <2> QED BY <2>4, <2>5, <2>6 DEF RequestsAsked
<1>10. TreeClosed' /\ FrameInv' /\ MMUCachesCoherent' /\ CopiesAnswered'
  BY <1>0, MemoryKept DEF IInv
<1>11. WalkOK'
  BY <1>0, WalkKept DEF memory
<1> QED BY <1>8, <1>9, <1>10, <1>11 DEF IInv

\* Steps that change neither the walker nor its memory, stuttering included.
LEMMA OthersKeep ==
  ASSUME IInv, UNCHANGED <<walk, memory, stlb, requests>>, L2C_RQ_full' \in BOOLEAN
  PROVE  IInv'
<1>0. TypeOK /\ RequestsAsked /\ WalkOK /\ UNCHANGED <<RQ, PQ, MSHR, PSCL, asked, answer, copies>>
      /\ UNCHANGED <<memory, requests>>
  BY DEF IInv, walk, stlb
<1>1. TreeClosed' /\ FrameInv' /\ MMUCachesCoherent' /\ CopiesAnswered'
  BY <1>0, MemoryKept DEF IInv
<1>2. WalkOK'
  BY <1>0, WalkKept DEF memory
<1>3. RequestsAsked'
  BY <1>0 DEF RequestsAsked, Asked, Once, Demands, Types
<1>4. TypeOK'
  BY <1>0 DEF TypeOK, memory, PSCLSets, Inner
<1> QED BY <1>1, <1>2, <1>3, <1>4 DEF IInv

\* The invariant holds when the walker has been built.
LEMMA InitHolds == Init => IInv
<1> SUFFICES ASSUME Init PROVE IInv
  OBVIOUS
<1>0. /\ DOMAIN RQ = {} /\ DOMAIN PQ = {} /\ DOMAIN MSHR = {}
      /\ DOMAIN tree = {} /\ DOMAIN page_table = {} /\ DOMAIN table_pages = {}
      /\ \A x \in PSCLSets : PSCL[x] = <<>>
  BY DEF Init
<1>1. TypeOK
  <2>1. /\ DRAM_PAGES \in Nat /\ MaxRequests \in Nat /\ PTW_RQ_SIZE \in Nat /\ PTW_PQ_SIZE \in Nat
    BY WalkerAssumption
  <2>2. \A x \in PSCLSets : PSCL_WAY[x[1]] \in Nat
    BY SetLevel, WalkerAssumption DEF Inner
  <2>3. PSCL \in [PSCLSets -> Seq(PSCLEntries)] /\ \A x \in PSCLSets : Len(PSCL[x]) <= PSCL_WAY[x[1]]
    BY <2>2 DEF Init
  <2>4. tree \in [DOMAIN tree -> FrameSet] /\ page_table \in [DOMAIN page_table -> FrameSet]
    BY <1>0 DEF Init
  <2>5. RQ \in Seq(Requests) /\ PQ \in Seq(Requests) /\ MSHR \in Seq(Walks)
        /\ table_pages \in Seq(FrameSet)
        /\ Len(RQ) = 0 /\ Len(PQ) = 0 /\ Len(MSHR) = 0
    BY DEF Init
  <2>6. /\ Len(RQ) <= PTW_RQ_SIZE /\ Len(PQ) <= PTW_PQ_SIZE /\ Len(MSHR) <= 1
        /\ allocated_pages \in 0 .. DRAM_PAGES /\ requests \in 0 .. MaxRequests
    BY <2>1, <2>5 DEF Init
  <2>7. /\ asked \in [Pages -> Types \cup {None}]
        /\ answer \in [page : Pages \cup {None}, data : FrameSet \cup {None, Dropped}]
        /\ copies \in [Pages -> FrameSet \cup {None}]
        /\ major_fault \in BOOLEAN /\ L2C_RQ_full \in BOOLEAN
    BY DEF Init
  <2> QED BY <1>0, <2>3, <2>4, <2>5, <2>6, <2>7 DEF TypeOK
<1>2. TreeClosed /\ RequestsAsked /\ WalkOK
  BY <1>0 DEF TreeClosed, RequestsAsked, Asked, Once, WalkOK
<1>3. FramesCounted
  <2>1. IsFiniteSet(DOMAIN page_table) /\ DataPages = 0
    BY <1>0, FS_EmptySet DEF DataPages
  <2>2. Len(table_pages) = 0 /\ allocated_pages = 0
    BY DEF Init
  <2> QED BY <1>0, <2>1, <2>2 DEF FramesCounted
<1>4. FramesUnshared /\ MapAgrees
  BY <1>0 DEF FramesUnshared, MapAgrees
<1>5. MMUCachesCoherent /\ CopiesAnswered
  BY <1>0 DEF Init, MMUCachesCoherent, CopiesAnswered
<1> QED BY <1>1, <1>2, <1>3, <1>4, <1>5 DEF IInv, FrameInv

\* Every step preserves the invariant.
LEMMA NextKeeps == IInv /\ [Next]_vars => IInv'
<1> SUFFICES ASSUME IInv, [Next]_vars PROVE IInv'
  OBVIOUS
<1>1. CASE DropPrefetch
  BY <1>1, DropPrefetchKeeps
<1>2. CASE PageFault
  BY <1>2, PageFaultKeeps
<1>3. CASE FinishWalk
  BY <1>3, FinishWalkKeeps
<1>4. CASE NextLevel
  BY <1>4, NextLevelKeeps
<1>5. CASE \E source \in {"RQ", "PQ"} : StartWalk(source)
  BY <1>5, StartWalkKeeps
<1>6. CASE \E source \in {"RQ", "PQ"} : FirstWalk(source)
  BY <1>6, FirstWalkKeeps
<1>7. CASE return_data
  BY <1>7, ReturnDataKeeps
<1>8. CASE L2CQueueChanges
  BY <1>8, OthersKeep DEF L2CQueueChanges
<1>9. CASE \E p \in Pages, t \in Types : Request(p, t)
  BY <1>9, RequestKeeps
<1>10. CASE UNCHANGED vars
  <2>1. L2C_RQ_full' \in BOOLEAN /\ UNCHANGED <<walk, memory, stlb, requests>>
    BY <1>10 DEF vars, IInv, TypeOK
  <2> QED BY <2>1, OthersKeep
<1> QED BY <1>1, <1>2, <1>3, <1>4, <1>5, <1>6, <1>7, <1>8, <1>9, <1>10 DEF Next, operate

-----------------------------------------------------------------------------
(* The theorems *)

\* IInv holds in every state: the queues, the walk, the tree, the page map,
\* the MMU caches and the TLBs' copies fit together as operate, return_data
\* and handle_page_fault leave them.
THEOREM WalkerInvariance == Spec => []IInv
<1>1. Init => IInv
  BY InitHolds
<1>2. IInv /\ [Next]_vars => IInv'
  BY NextKeeps
<1> QED BY <1>1, <1>2, PTL DEF Spec

\* Type correctness: queues keep to their sizes, the walker has one walk at
\* most, and no more frames are drawn than the memory has.
THEOREM WalkerTypeCorrect == Spec => []TypeOK
<1>1. IInv => TypeOK
  BY DEF IInv
<1> QED BY <1>1, WalkerInvariance, PTL

\* The MMU caches hold what the tree holds, no entry twice (fill_mmu_cache).
THEOREM MMUCachesStayCoherent == Spec => []MMUCachesCoherent
<1>1. IInv => MMUCachesCoherent
  BY DEF IInv
<1> QED BY <1>1, WalkerInvariance, PTL

\* A walk reads the page-table page that the tree has for its page, wherever
\* the MMU caches let it begin (operate, init_translation_level).
THEOREM WalksReadTheirTable == Spec => []ReadsItsTable
<1>1. IInv => ReadsItsTable
  <2> SUFFICES ASSUME IInv, MSHR # <<>>, MSHR[1].returned = "INFLIGHT"
               PROVE  LET e == MSHR[1]
                          table == IF e.level = Levels THEN CR3
                                   ELSE Node(e.page, e.level + 1)
                      IN  e.level > 0 /\ table \in DOMAIN tree /\ e.base = tree[table]
    BY DEF ReadsItsTable
  <2>0. TypeOK /\ WalkOK /\ Levels \in Nat
    BY WalkerAssumption DEF IInv
  <2>1. 1 \in DOMAIN MSHR /\ MSHR[1] \in Walks
    BY <2>0, Walking
  <2> DEFINE e == MSHR[1]
  <2>2. e.level \in 1 .. e.init /\ Reached(e.page, e.level)
        /\ e.base = tree[Table(e.page, e.level)]
    BY <2>0, <2>1 DEF WalkOK
  <2>3. e.init \in 1 .. Levels
    BY <2>1, WalkFields
  <2>4. Table(e.page, e.level) \in DOMAIN tree
    <3>1. CASE e.level = Levels
      BY <2>2, <3>1 DEF Table, Reached
    <3>2. CASE e.level # Levels
      <4>1. e.level + 1 \in e.level + 1 .. Levels
        BY <2>0, <2>2, <2>3, <3>2
      <4> QED BY <2>2, <3>2, <4>1 DEF Table, Reached
    <3> QED BY <3>1, <3>2
  <2>5. e.level > 0
    BY <2>2, <2>3
  <2> QED BY <2>2, <2>4, <2>5 DEF Table
<1> QED BY <1>1, WalkerInvariance, PTL

\* No frame has two owners in the page map, also after page replacement, and
\* until then none is twice in the tree (handle_page_fault, va_to_pa_ptw).
THEOREM FramesStayUnshared == Spec => []FramesUnshared
<1>1. IInv => FramesUnshared
  BY DEF IInv, FrameInv
<1> QED BY <1>1, WalkerInvariance, PTL

\* As long as memory has not filled, the TLBs hold what the page map holds.
THEOREM CopiesCurrentUntilReplaced == Spec => []CurrentUntilReplaced
<1>1. IInv => CurrentUntilReplaced
  BY DEF IInv, FrameInv, CopiesAnswered, MapAgrees, CurrentUntilReplaced,
         TranslationsCurrent
<1> QED BY <1>1, WalkerInvariance, PTL

-----------------------------------------------------------------------------
(* The walker implements the port *)

Translation == [p \in Pages |-> IF Node(p, 1) \in DOMAIN tree
                                THEN tree[Node(p, 1)] ELSE None]

\* An answer of the walker, with the pages whose translation it replaces, is
\* an answer at the port.
LEMMA PortTranslates ==
  ASSUME TypeOK, NEW p \in Pages, NEW gone, Return(p, gone), asked[p] # None,
         tree'[Node(p, 1)] \in FrameSet, Node(p, 1) \in DOMAIN tree',
         \A n \in DOMAIN tree : n \in DOMAIN tree' /\ tree'[n] = tree[n],
         \A q \in Pages : q # p /\ Node(q, 1) \in DOMAIN tree' =>
                            Node(q, 1) \in DOMAIN tree
  PROVE  Port!Next
<1> DEFINE f == tree'[Node(p, 1)]
<1>1. Translation[p] \in {None, f}
  BY DEF Translation
<1>2. Translation' = [Translation EXCEPT ![p] = f]
  <2>1. ASSUME NEW q \in Pages
        PROVE  Translation'[q] = [Translation EXCEPT ![p] = f][q]
    BY DEF Translation, Node
  <2>2. /\ Translation' = [q \in Pages |-> Translation'[q]]
        /\ DOMAIN Translation = Pages
    BY DEF Translation
  <2> QED BY <2>1, <2>2
<1>3. asked' = [asked EXCEPT ![p] = None] /\ answer' = [page |-> p, data |-> f]
  BY DEF Return
<1>4. f \in FrameSet
  OBVIOUS
<1> HIDE DEF f
<1>5. Port!Translate(p, f)
  BY <1>1, <1>2, <1>3 DEF Port!Translate, Translation
<1> QED BY <1>4, <1>5 DEF Port!Next

\* What leaves the tree, the requests and the answer alone is not seen at the
\* port.
LEMMA PortUnchanged ==
  ASSUME UNCHANGED <<tree, asked, answer>>
  PROVE  UNCHANGED Port!vars
BY DEF Port!vars, Node

\* A step of the walker answers, drops or takes a request at the port, or is
\* not seen there.
LEMMA PortSteps == IInv /\ [Next]_vars => [Port!Next]_Port!vars
<1> SUFFICES ASSUME IInv, [Next]_vars PROVE Port!Next \/ UNCHANGED Port!vars
  OBVIOUS
<1>0. TypeOK /\ TreeClosed /\ FrameInv /\ WalkOK /\ RequestsAsked
      /\ Levels \in Nat /\ 1 \in 1 .. Levels /\ None \notin Types
  BY WalkerAssumption, TypesAssumption DEF IInv
<1>w. ASSUME MSHR # <<>>
      PROVE  /\ 1 \in DOMAIN MSHR /\ MSHR[1].page \in Pages
             /\ MSHR[1].level \in 0 .. Levels /\ MSHR[1].init \in 1 .. Levels
             /\ asked[MSHR[1].page] = MSHR[1].type /\ MSHR[1].type \in Types
  <2>1. 1 \in DOMAIN MSHR /\ MSHR[1] \in Walks
    BY <1>0, <1>w, Walking
  <2> QED BY <1>0, <2>1, WalkFields DEF RequestsAsked, Asked
\* What a fault for p at level L does to the entries of level 1.
<1>f. ASSUME NEW p \in Pages, NEW L, FaultsAt(p, L), handle_page_fault(p, L)
      PROVE  /\ Node(p, 1) \in DOMAIN tree' /\ tree'[Node(p, 1)] \in FrameSet
             /\ \A n \in DOMAIN tree : n \in DOMAIN tree' /\ tree'[n] = tree[n]
             /\ \A q \in Pages : q # p /\ Node(q, 1) \in DOMAIN tree' =>
                                   Node(q, 1) \in DOMAIN tree
  <2>1. /\ DOMAIN tree' = DOMAIN tree \cup NewNodes(p, L)
        /\ \A n \in DOMAIN tree : tree'[n] = tree[n]
        /\ \A m, n \in NewNodes(p, L) : m[1] = n[1] => m = n
    BY <1>0, <1>f, FaultTree
  <2>2. Node(p, 1) \in DOMAIN tree'
    BY <1>0, <1>f, FaultTree
  <2>3. tree' \in [DOMAIN tree' -> FrameSet]
    BY <1>0, <1>f, FaultTypes
  <2>4. ASSUME NEW q \in Pages, q # p, Node(q, 1) \in NewNodes(p, L)
        PROVE  FALSE
    <3>1. Node(p, 1) \in NewNodes(p, L)
      BY <1>0, <1>f DEF NewNodes, FaultsAt
    <3>2. Node(q, 1)[1] = Node(p, 1)[1]
      BY DEF Node
    <3>3. Node(p, 1) = Node(q, 1)
      BY <2>1, <2>4, <3>1, <3>2
    <3> QED BY <1>0, <2>4, <3>3, NodeFacts
  <2> QED BY <2>1, <2>2, <2>3, <2>4
<1>1. CASE DropPrefetch
  <2> DEFINE p == MSHR[1].page
  <2>1. MSHR # <<>> /\ p \in Pages /\ asked[p] = MSHR[1].type
        /\ MSHR[1].level \in 0 .. Levels
    BY <1>1, <1>w DEF DropPrefetch, Returned
  <2>2. /\ MSHR[1].type \in Droppable /\ Missing(p, MSHR[1].level) # {}
        /\ asked' = [asked EXCEPT ![p] = None]
        /\ answer' = [page |-> p, data |-> Dropped] /\ tree' = tree
    BY <1>1 DEF DropPrefetch, ReturnDropped, memory
  <2>3. Node(p, 1) \notin DOMAIN tree
    <3>1. PICK l \in MSHR[1].level + 1 .. Levels : Node(p, l) \notin DOMAIN tree
      BY <2>2 DEF Missing
    <3>2. l \in 1 .. Levels
      BY <1>0, <2>1
    <3> QED BY <1>0, <2>1, <3>1, <3>2 DEF TreeClosed
  <2> HIDE DEF p
  <2>4. Translation[p] = None /\ Translation' = Translation
    BY <2>1, <2>2, <2>3 DEF Translation, Node, p
  <2>5. asked[p] \in Port!Droppable
    BY <2>1, <2>2 DEF Droppable, Port!Droppable, Port!Types
  <2>6. Port!Drop(p)
    BY <2>2, <2>4, <2>5 DEF Port!Drop, Translation
  <2> QED BY <2>1, <2>6 DEF Port!Next, p
<1>2. CASE PageFault
  <2> DEFINE p == MSHR[1].page
  <2>1. MSHR # <<>> /\ MSHR[1].returned = "COMPLETED" /\ p \in Pages
        /\ asked[p] # None /\ 1 \in DOMAIN MSHR /\ MSHR[1].init \in 1 .. Levels
    BY <1>0, <1>2, <1>w DEF PageFault, Returned
  <2>2. PICK L \in Missing(p, MSHR[1].level) :
          /\ \A k \in Missing(p, MSHR[1].level) : k <= L
          /\ handle_page_fault(p, L) /\ Return(p, Victims(L))
    BY <1>2 DEF PageFault
  <2>3. MSHR[1].level \in 0 .. Levels - 1 /\ Reached(p, MSHR[1].level + 1)
    <3>1. MSHR[1].level \in 0 .. MSHR[1].init - 1 /\ Reached(p, MSHR[1].level + 1)
      BY <1>0, <2>1 DEF WalkOK
    <3> QED BY <1>0, <2>1, <3>1
  <2>4. FaultsAt(p, L)
    BY <1>0, <2>1, <2>2, <2>3, FaultFound
  <2> HIDE DEF p
  <2> QED BY <1>0, <1>f, <2>1, <2>2, <2>4, PortTranslates
<1>3. CASE FinishWalk
  <2> DEFINE p == MSHR[1].page
  <2>1. MSHR # <<>> /\ p \in Pages /\ asked[p] # None
    BY <1>0, <1>3, <1>w DEF FinishWalk, Returned
  <2>2. Missing(p, 0) = {} /\ tree' = tree /\ Return(p, {})
    BY <1>3 DEF FinishWalk, memory
  <2>3. Node(p, 1) \in DOMAIN tree /\ tree[Node(p, 1)] \in FrameSet
    BY <1>0, <2>2 DEF Missing, TypeOK
  <2> HIDE DEF p
  <2> QED BY <1>0, <2>1, <2>2, <2>3, PortTranslates
<1>4. CASE NextLevel
  BY <1>4, PortUnchanged DEF NextLevel, memory, stlb
<1>5. CASE \E source \in {"RQ", "PQ"} : StartWalk(source)
  BY <1>5, PortUnchanged DEF StartWalk, memory, stlb
<1>6. CASE \E source \in {"RQ", "PQ"} : FirstWalk(source)
  <2>1. PICK source \in {"RQ", "PQ"} : FirstWalk(source)
    BY <1>6
  <2> DEFINE r == Head(IF source = "RQ" THEN RQ ELSE PQ)
             p == r.page
             L == Levels + 1
  <2>2. MSHR = <<>> /\ CR3 \notin DOMAIN tree
    BY <2>1 DEF FirstWalk
  <2>3. \/ source = "RQ" /\ RQ # <<>> /\ RQ' = Tail(RQ) /\ PQ' = PQ
        \/ source = "PQ" /\ RQ = <<>> /\ PQ # <<>> /\ PQ' = Tail(PQ) /\ RQ' = RQ
    BY <2>1 DEF FirstWalk
  <2>4. handle_page_fault(p, L) /\ Return(p, Victims(L))
    BY <2>1 DEF FirstWalk
  <2>5. r \in Requests /\ asked[r.page] = r.type
    BY <2>2, <2>3, RequestTaken
  <2>6. p \in Pages /\ asked[p] # None
    BY <1>0, <2>5 DEF Requests
  <2>7. FaultsAt(p, L)
    <3>1. L \in 1 .. Levels + 1 /\ ~(L <= Levels) /\ \A k \in 1 .. Levels : ~(k > L)
      BY <1>0
    <3>2. \A k \in 1 .. Levels : Node(p, k) \notin DOMAIN tree
      BY <1>0, <2>2, <2>6 DEF TreeClosed
    <3> QED BY <1>0, <2>2, <3>1, <3>2 DEF FaultsAt
  <2> HIDE DEF p, L
  <2> QED BY <1>0, <1>f, <2>4, <2>6, <2>7, PortTranslates
<1>7. CASE return_data
  BY <1>7, PortUnchanged DEF return_data, memory, stlb
<1>8. CASE L2CQueueChanges
  BY <1>8, PortUnchanged DEF L2CQueueChanges, memory, stlb
<1>9. CASE \E p \in Pages, t \in Types : Request(p, t)
  <2>1. PICK p \in Pages, t \in Types : Request(p, t)
    BY <1>9
  <2>2. /\ asked[p] = None /\ asked' = [asked EXCEPT ![p] = t]
        /\ answer' = answer /\ tree' = tree
    BY <2>1 DEF Request, memory
  <2>3. Translation' = Translation
    BY <2>2 DEF Translation, Node
  <2>4. Port!Ask(p, t)
    BY <2>2, <2>3 DEF Port!Ask, Translation
  <2>5. t \in Port!Types
    BY DEF Types, Port!Types
  <2> QED BY <2>4, <2>5 DEF Port!Next
<1>10. CASE UNCHANGED vars
  BY <1>10, PortUnchanged DEF vars, memory, stlb
<1> QED BY <1>1, <1>2, <1>3, <1>4, <1>5, <1>6, <1>7, <1>8, <1>9, <1>10 DEF Next, operate

\* The walker is a TranslationPort: whatever walks, MMU caches and queues do,
\* a page is given one frame for ever, every answer is that frame, and only
\* prefetches are dropped, of pages that have none.
THEOREM WalkerImplementsPort == Spec => ImplementsPort
<1>1. Init => Port!Init
  BY DEF Init, Port!Init, Node
<1>2. IInv /\ [Next]_vars => [Port!Next]_Port!vars
  BY PortSteps
<1> QED BY <1>1, <1>2, WalkerInvariance, PTL DEF Spec, ImplementsPort, Port!Spec
=============================================================================
