---------------------- MODULE TranslationCachesProofs ----------------------
(***************************************************************************)
(* Proofs about TranslationCaches, for all pages and all sizes of TLBs,    *)
(* queues and MSHRs: every variable keeps its type, every translation on   *)
(* its way is right, and STLB uses the walker as it is meant to be used;   *)
(* then, with the packets told apart by their pages, that no miss of ITLB  *)
(* or DTLB and no slot of an L1 is ever forgotten.                         *)
(***************************************************************************)
EXTENDS TranslationCaches, FunctionTheorems, FiniteSetTheorems,
        SequenceTheorems, TLAPS

-----------------------------------------------------------------------------
(* The invariant *)

Entries == [page : Pages, data : Pages \cup {None, Dropped}]

\* A packet that is for prefetches only names slots of prefetch queues only.
ForPrefetches(S) == \A s \in S : s[1] = "PQ"
Asks(r) == r.type = "TRANSLATION_FROM_L1D" => ForPrefetches(Named(r))

\* d is an answer for page p when the walker has given out tr: that p has been
\* dropped, or its translation.
Right(d, p, tr) == d = Dropped \/ (d = p /\ tr[p] = p)

\* Packets in read queues, in MSHRs, and in PROCESSED queues.
Requests == {r \in Packets : ~r.returned /\ Asks(r)}
Misses(p, tr) ==
  {m \in Packets : /\ m.page = p /\ Asks(m)
                   /\ m.returned => Right(m.data, p, tr)}
RightAnswers(tr) ==
  {e \in Answers : /\ Right(e.data, e.page, tr)
                   /\ e.data = Dropped => ForPrefetches(Named(e))}

\* Each part of the state holds such packets, and no more than it has room for.
QueuesOK(q) ==
  /\ q \in [TLBs -> Seq(Requests)]
  /\ \A t \in TLBs : Len(q[t]) <= RQ_SIZE[t]

Busy(m, t) == {p \in Pages : m[t][p] # None}
MissesOK(m, tr) ==
  /\ m \in [TLBs -> [Pages -> Packets \cup {None}]]
  /\ \A t \in TLBs :
       /\ \A p \in Pages : m[t][p] \in Misses(p, tr) \cup {None}
       /\ Cardinality(Busy(m, t)) <= MSHR_SIZE[t]

LinesOK(b, tr) ==
  /\ b \in [TLBs -> [Pages -> Pages \cup {None}]]
  /\ \A t \in TLBs :
       /\ \A p \in Pages : b[t][p] # None => b[t][p] = p /\ tr[p] = p
       /\ Cardinality(Busy(b, t)) <= NUM_WAY[t]

AnswersOK(a, tr) ==
  /\ a \in [TLBs -> Seq(RightAnswers(tr))]
  /\ \A t \in TLBs : Len(a[t]) <= ROB_SIZE

EntryOK(s, e, tr) ==
  \/ e = None
  \/ /\ e \in Entries
     /\ e.data # None => Right(e.data, e.page, tr)
     /\ e.data = Dropped => s[1] = "PQ"
EntriesOK(en, tr) ==
  /\ DOMAIN en = L1s
  /\ \A c \in L1s : /\ en[c] = [s \in Slots[c] |-> en[c][s]]
                    /\ \A s \in Slots[c] : EntryOK(s, en[c][s], tr)

\* The walker has been asked exactly for the pages that STLB waits for.
AskedOK(as, m) ==
  /\ as \in [Pages -> Port!Types \cup {None}]
  /\ \A p \in Pages :
       as[p] # None <=> m["STLB"][p] # None /\ ~m["STLB"][p].returned

\* A page is translated to itself, if at all.
PagesOK(tr) ==
  /\ tr \in [Pages -> Pages \cup {None}]
  /\ \A p \in Pages : tr[p] \in {None, p}

IInv ==
  /\ EntriesOK(entry, translation)
  /\ tail \in [L1s -> Nat] /\ \A c \in L1s : tail[c] \in 1 .. PQ_SIZE[c]
  /\ QueuesOK(RQ) /\ MissesOK(MSHR, translation)
  /\ LinesOK(block, translation) /\ AnswersOK(PROCESSED, translation)
  /\ AskedOK(asked, MSHR) /\ PagesOK(translation)
  /\ aborted \in BOOLEAN /\ requests \in 0 .. MaxRequests

-----------------------------------------------------------------------------
(* Constants *)

\* Sizes are positive numbers.
LEMMA Sizes ==
  /\ \A t \in TLBs : RQ_SIZE[t] \in Nat \ {0} /\ MSHR_SIZE[t] \in Nat \ {0}
                     /\ NUM_WAY[t] \in Nat \ {0}
  /\ \A c \in L1s : PQ_SIZE[c] \in Nat \ {0}
  /\ ROB_SIZE \in Nat \ {0} /\ MaxRequests \in Nat /\ IsFiniteSet(Pages)
BY SizesAssumption DEF TLBs, L1s, RQ_SIZE, MSHR_SIZE, NUM_WAY, PQ_SIZE

\* None is nothing else.
LEMMA Nothing ==
  /\ None \notin Pages /\ Dropped \notin Pages /\ None # Dropped
  /\ None \notin Packets /\ None \notin Entries /\ None \notin Port!Types
  /\ \A s \in AllSlots : s # None
BY QueuesCoverTranslations, NoneAssumption DEF Entries

\* The slots of the L1s, and those of their prefetch queues.
LEMMA SlotFacts ==
  /\ \A c \in L1s : Slots[c] \subseteq AllSlots
  /\ \A c \in L1s : \A i \in 1 .. PQ_SIZE[c] : <<"PQ", i>> \in Slots[c]
BY DEF L1s, Slots, AllSlots, PQ_SIZE

-----------------------------------------------------------------------------
(* Packets *)

\* The fields of a packet have their types.
LEMMA PacketFields ==
  ASSUME NEW r \in Packets
  PROVE  /\ r.page \in Pages /\ r.type \in {"LOAD_TRANSLATION", "TRANSLATION_FROM_L1D"}
         /\ r.fill \in {1, 2} /\ r.instruction \in BOOLEAN /\ r.both \in BOOLEAN
         /\ r.own \in AllSlots \cup {None} /\ r.merged \subseteq AllSlots
         /\ r.returned \in BOOLEAN /\ r.data \in Pages \cup {None, Dropped}
         /\ Named(r) \subseteq AllSlots
BY DEF Packets, Named

\* What an L1 sends.
LEMMA SentIsRequest ==
  ASSUME NEW p \in Pages, NEW type \in {"LOAD_TRANSLATION", "TRANSLATION_FROM_L1D"},
         NEW level \in {1, 2}, NEW i \in BOOLEAN, NEW s \in AllSlots,
         type = "TRANSLATION_FROM_L1D" => s[1] = "PQ"
  PROVE  Packet(p, type, level, i, s) \in Requests
<1> DEFINE r == Packet(p, type, level, i, s)
<1>1. r \in Packets
  BY DEF Packet, Packets
<1>2. ~r.returned /\ r.type = type /\ Named(r) \subseteq {s}
  BY DEF Packet, Named
<1> QED BY <1>1, <1>2 DEF Requests, Asks, ForPrefetches

\* What ITLB and DTLB send to STLB.
LEMMA DownIsRequest ==
  ASSUME NEW r \in Packets, Asks(r)
  PROVE  Down(r) \in Requests /\ Down(r).page = r.page
<1> DEFINE d == Down(r)
           own == IF r.own \in {"PQ"} \X Nat THEN r.own ELSE None
           merged == {s \in r.merged : s[1] = "PQ"}
<1>0. d = [r EXCEPT !.own = own, !.merged = merged, !.returned = FALSE, !.data = None]
  BY DEF Down
<1>5. /\ own \in {r.own, None} /\ (own # None => own[1] = "PQ")
      /\ merged \subseteq r.merged /\ \A s \in merged : s[1] = "PQ"
  OBVIOUS
<1> HIDE DEF d, own, merged
<1>1. d = [page |-> r.page, type |-> r.type, fill |-> r.fill,
           instruction |-> r.instruction, both |-> r.both, own |-> own,
           merged |-> merged, returned |-> FALSE, data |-> None]
  BY <1>0 DEF Packets
<1>2. d \in Packets
  <2>1. own \in AllSlots \cup {None} /\ merged \in SUBSET AllSlots
    BY <1>5, PacketFields
  <2> QED BY <2>1, <1>1, PacketFields DEF Packets
<1>3. Asks(d)
  BY <1>1, <1>5 DEF Asks, ForPrefetches, Named
<1>4. ~d.returned /\ d.page = r.page
  BY <1>1
<1> QED BY <1>2, <1>3, <1>4 DEF d, Requests

\* Two requests that meet in a read queue are one.
LEMMA MergeIsRequest ==
  ASSUME NEW e \in Requests, NEW r \in Requests, NEW t
  PROVE  MergeRead(e, t, r) \in Requests
<1> DEFINE m == MergeRead(e, t, r)
           both == e.both \/ Split(t, e, r)
           level == Least(e.fill, r.fill)
           merged == e.merged \cup ({r.own} \ {None})
           type == IF r.type = "LOAD_TRANSLATION" THEN r.type ELSE e.type
           i == e.instruction \/ r.instruction
<1>0. e \in Packets /\ r \in Packets /\ Asks(e) /\ Asks(r) /\ ~e.returned
  BY DEF Requests
<1>1. m = [page |-> e.page, type |-> type, fill |-> level, instruction |-> i,
           both |-> both, own |-> e.own, merged |-> merged,
           returned |-> e.returned, data |-> e.data]
  <2>1. m = [e EXCEPT !.both = both, !.fill = level, !.instruction = i,
                      !.merged = merged, !.type = type]
    BY Zenon DEF MergeRead
  <2> HIDE DEF m, both, level, merged, type, i
  <2> QED BY <1>0, <2>1 DEF Packets
<1>2. both \in BOOLEAN /\ level \in {1, 2} /\ merged \subseteq AllSlots
      /\ type \in {"LOAD_TRANSLATION", "TRANSLATION_FROM_L1D"}
      /\ i \in BOOLEAN
  BY <1>0, PacketFields DEF Least
<1>3. m \in Packets
  <2> HIDE DEF m, both, level, merged, type, i
  <2> QED BY <1>0, <1>1, <1>2, PacketFields DEF Packets
<1>4. Asks(m)
  <2> SUFFICES ASSUME m.type = "TRANSLATION_FROM_L1D", NEW s \in Named(m)
               PROVE  s[1] = "PQ"
    BY DEF Asks, ForPrefetches
  <2>1. m.own = e.own /\ m.merged = merged /\ m.type = type
    BY <1>1
  <2>2. e.type = "TRANSLATION_FROM_L1D" /\ r.type = "TRANSLATION_FROM_L1D"
    BY <2>1, <1>0, PacketFields
  <2>3. s \in Named(e) \/ s \in Named(r)
    BY <2>1 DEF Named
  <2> QED BY <2>2, <2>3, <1>0 DEF Asks, ForPrefetches
<1>5. ~m.returned
  BY <1>0, <1>1
<1> QED BY <1>3, <1>4, <1>5 DEF Requests

\* A request that joins a miss leaves it a miss of its page.
LEMMA MergeIsMiss ==
  ASSUME NEW p \in Pages, NEW tr, NEW m \in Misses(p, tr), NEW r \in Requests,
         r.page = p, NEW t
  PROVE  /\ MergeMiss(m, t, r) \in Misses(p, tr)
         /\ MergeMiss(m, t, r).returned = m.returned
<1> DEFINE n == MergeMiss(m, t, r)
           both == Split(t, m, r)
           level == Least(m.fill, r.fill)
           instr == IF r.fill < m.fill THEN r.instruction ELSE m.instruction
           taken == m.type = "TRANSLATION_FROM_L1D" /\ r.type = "LOAD_TRANSLATION"
           i == IF taken THEN r.instruction \/ instr ELSE instr
           b == IF taken THEN r.both \/ both ELSE m.both \/ both
           own == IF taken THEN r.own ELSE m.own
           merged == IF taken THEN r.merged \cup Named(m) ELSE m.merged \cup Named(r)
           type == IF taken THEN r.type ELSE m.type
<1>0. /\ m \in Packets /\ r \in Packets /\ Asks(m) /\ Asks(r) /\ m.page = p
      /\ m.returned => Right(m.data, p, tr)
  BY DEF Requests, Misses
<1>1. n = [page |-> p, type |-> type, fill |-> level, instruction |-> i,
           both |-> b, own |-> own, merged |-> merged,
           returned |-> m.returned, data |-> m.data]
  <2>1. CASE taken
    BY <2>1, <1>0 DEF MergeMiss, Packets
  <2>2. CASE ~taken
    BY <2>2, <1>0 DEF MergeMiss, Packets
  <2> QED BY <2>1, <2>2
<1>2. /\ i \in BOOLEAN /\ b \in BOOLEAN /\ level \in {1, 2}
      /\ own \in AllSlots \cup {None} /\ merged \subseteq AllSlots
      /\ type \in {"LOAD_TRANSLATION", "TRANSLATION_FROM_L1D"}
  BY <1>0, PacketFields DEF Least, Split
<1>4. merged \cup ({own} \ {None}) = Named(m) \cup Named(r)
  BY DEF Named
<1> HIDE DEF n, i, b, own, merged, type, level
<1>5. n \in Packets
  BY <1>0, <1>1, <1>2, PacketFields DEF Packets
<1>6. Asks(n)
  <2> SUFFICES ASSUME n.type = "TRANSLATION_FROM_L1D", NEW s \in Named(n)
               PROVE  s[1] = "PQ"
    BY DEF Asks, ForPrefetches
  <2>1. Named(n) = Named(m) \cup Named(r) /\ n.type = type
    BY <1>1, <1>4 DEF Named
  <2>2. m.type = "TRANSLATION_FROM_L1D" /\ r.type = "TRANSLATION_FROM_L1D"
    BY <2>1, <1>0, PacketFields DEF type
  <2> QED BY <2>1, <2>2, <1>0 DEF Asks, ForPrefetches
<1>7. n.page = p /\ n.returned = m.returned /\ n.data = m.data
  BY <1>1
<1> QED BY <1>0, <1>5, <1>6, <1>7 DEF n, Misses

-----------------------------------------------------------------------------
(* Queues, MSHRs, lines *)

\* add_rq keeps the read queues,
LEMMA AddKeeps ==
  ASSUME NEW q, QueuesOK(q), NEW t \in TLBs, NEW r \in Requests
  PROVE  QueuesOK(add_rq(q, t, r))
<1>0. /\ q \in [TLBs -> Seq(Requests)] /\ Len(q[t]) <= RQ_SIZE[t]
      /\ q[t] \in Seq(Requests) /\ Len(q[t]) \in Nat /\ RQ_SIZE[t] \in Nat
      /\ \A u \in TLBs : Len(q[u]) <= RQ_SIZE[u]
  BY Sizes, LenProperties DEF QueuesOK
<1>1. ASSUME NEW s \in Seq(Requests), Len(s) <= RQ_SIZE[t]
      PROVE  QueuesOK([q EXCEPT ![t] = s])
  BY <1>0, <1>1 DEF QueuesOK
<1>2. CASE Queued(q, t, r.page) # {}
  <2> DEFINE Q == Queued(q, t, r.page)
             s == [i \in DOMAIN q[t] |-> IF i \in Q THEN MergeRead(q[t][i], t, r)
                                         ELSE q[t][i]]
  <2>1. DOMAIN q[t] = 1 .. Len(q[t]) /\ \A i \in DOMAIN q[t] : q[t][i] \in Requests
    BY <1>0, LenProperties, ElementOfSeq
  <2>2. \A i \in 1 .. Len(q[t]) : s[i] \in Requests
    BY <2>1, MergeIsRequest
  <2>3. s = [i \in 1 .. Len(q[t]) |-> s[i]]
    BY <2>1
  <2> HIDE DEF s
  <2>4. s \in Seq(Requests) /\ DOMAIN s = 1 .. Len(q[t])
    BY <2>2, <2>3, <1>0, IsASeq
  <2>5. Len(s) = Len(q[t])
    BY <2>4, <1>0, LenProperties
  <2>6. QueuesOK([q EXCEPT ![t] = s])
    BY <2>4, <2>5, <1>0, <1>1
  <2> QED BY <2>6, <1>2 DEF add_rq, s
<1>3. CASE Queued(q, t, r.page) = {}
  <2>1. Append(q[t], r) \in Seq(Requests) /\ Len(Append(q[t], r)) = Len(q[t]) + 1
    BY <1>0, AppendProperties
  <2>2. CASE Len(q[t]) < RQ_SIZE[t]
    <3>1. Len(Append(q[t], r)) <= RQ_SIZE[t]
      BY <2>1, <2>2, <1>0
    <3>2. QueuesOK([q EXCEPT ![t] = Append(q[t], r)])
      BY <2>1, <3>1, <1>1
    <3> QED BY <3>2, <2>2, <1>3 DEF add_rq
  <2>3. CASE ~(Len(q[t]) < RQ_SIZE[t])
    BY <2>3, <1>3 DEF add_rq
  <2> QED BY <2>2, <2>3
<1> QED BY <1>2, <1>3

\* and so does taking the next request.
LEMMA TakeKeeps ==
  ASSUME NEW q, QueuesOK(q), NEW t \in TLBs, q[t] # <<>>
  PROVE  Head(q[t]) \in Requests /\ QueuesOK([q EXCEPT ![t] = Tail(@)])
<1>0. /\ q \in [TLBs -> Seq(Requests)] /\ Len(q[t]) <= RQ_SIZE[t]
      /\ q[t] \in Seq(Requests) /\ Len(q[t]) \in Nat /\ RQ_SIZE[t] \in Nat
      /\ \A u \in TLBs : Len(q[u]) <= RQ_SIZE[u]
  BY Sizes, LenProperties DEF QueuesOK
<1>1. /\ Head(q[t]) \in Requests /\ Tail(q[t]) \in Seq(Requests)
      /\ Len(Tail(q[t])) = Len(q[t]) - 1
  BY <1>0, HeadTailProperties
<1>2. Len(Tail(q[t])) <= RQ_SIZE[t]
  BY <1>0, <1>1
<1> QED BY <1>0, <1>1, <1>2 DEF QueuesOK

\* A set of pages that gets one more, or gives one up for it.
LEMMA OneMore ==
  ASSUME NEW S, NEW T, S \subseteq Pages, NEW p \in Pages, NEW n \in Nat \ {0},
         Cardinality(S) <= n,
         \/ T \subseteq S
         \/ T \subseteq S \cup {p} /\ Cardinality(S) < n
         \/ \E q \in S : T \subseteq (S \cup {p}) \ {q}
  PROVE  Cardinality(T) <= n
<1>1. /\ IsFiniteSet(S) /\ IsFiniteSet(S \cup {p}) /\ Cardinality(S) \in Nat
      /\ Cardinality(S \cup {p}) =
           IF p \in S THEN Cardinality(S) ELSE Cardinality(S) + 1
  BY Sizes, FS_Subset, FS_AddElement, FS_CardinalityType
<1>2. CASE T \subseteq S
  <2>1. Cardinality(T) <= Cardinality(S) /\ Cardinality(T) \in Nat
    BY <1>1, <1>2, FS_Subset, FS_CardinalityType
  <2> QED BY <2>1, <1>1
<1>3. CASE T \subseteq S \cup {p} /\ Cardinality(S) < n
  <2>1. Cardinality(T) <= Cardinality(S \cup {p}) /\ Cardinality(T) \in Nat
    BY <1>1, <1>3, FS_Subset, FS_CardinalityType
  <2> QED BY <2>1, <1>1, <1>3
<1>4. ASSUME NEW q \in S, T \subseteq (S \cup {p}) \ {q}
      PROVE  Cardinality(T) <= n
  <2> DEFINE U == S \cup {p}
  <2>1. q \in U
    OBVIOUS
  <2> HIDE DEF U
  <2>2. IsFiniteSet(U \ {q}) /\ Cardinality(U \ {q}) = Cardinality(U) - 1
    BY <2>1, <1>1, FS_RemoveElement DEF U
  <2>3. Cardinality(T) <= Cardinality(U \ {q}) /\ Cardinality(T) \in Nat
    BY <2>2, <1>4, FS_Subset, FS_CardinalityType DEF U
  <2> QED BY <2>2, <2>3, <1>1 DEF U
<1> QED BY <1>2, <1>3, <1>4

\* An MSHR of page p gets another entry, or gives it up.
LEMMA PutKeeps ==
  ASSUME NEW m, NEW tr, MissesOK(m, tr), NEW t \in TLBs, NEW p \in Pages,
         NEW x \in Misses(p, tr) \cup {None},
         m[t][p] # None \/ x = None \/ Cardinality(Busy(m, t)) < MSHR_SIZE[t],
         NEW n \in [TLBs -> [Pages -> Packets \cup {None}]],
         \A u \in TLBs, q \in Pages : n[u][q] = IF u = t /\ q = p THEN x ELSE m[u][q]
  PROVE  MissesOK(n, tr)
<1>0. /\ m \in [TLBs -> [Pages -> Packets \cup {None}]]
      /\ \A u \in TLBs : \A q \in Pages : m[u][q] \in Misses(q, tr) \cup {None}
      /\ \A u \in TLBs : Cardinality(Busy(m, u)) <= MSHR_SIZE[u]
  BY DEF MissesOK
<1>2. \A u \in TLBs, q \in Pages : n[u][q] = IF u = t /\ q = p THEN x ELSE m[u][q]
  OBVIOUS
<1>3. \A u \in TLBs : \A q \in Pages : n[u][q] \in Misses(q, tr) \cup {None}
  BY <1>0, <1>2
<1>4. ASSUME NEW u \in TLBs PROVE Cardinality(Busy(n, u)) <= MSHR_SIZE[u]
  <2>1. CASE u # t
    <3>1. Busy(n, u) = Busy(m, u)
      BY <2>1, <1>2 DEF Busy
    <3> QED BY <3>1, <1>0
  <2>2. CASE u = t
    <3>1. Busy(n, t) \subseteq Busy(m, t) \cup {p} /\ Busy(m, t) \subseteq Pages
      BY <1>2 DEF Busy
    <3>2. m[t][p] # None \/ x = None => Busy(n, t) \subseteq Busy(m, t)
      BY <1>2 DEF Busy
    <3>3. \/ Busy(n, t) \subseteq Busy(m, t)
          \/ Busy(n, t) \subseteq Busy(m, t) \cup {p}
             /\ Cardinality(Busy(m, t)) < MSHR_SIZE[t]
      BY <3>1, <3>2
    <3> HIDE DEF Busy
    <3> QED BY <3>1, <3>3, <2>2, <1>0, Sizes, OneMore
  <2> QED BY <2>1, <2>2
<1> QED BY <1>3, <1>4 DEF MissesOK

\* In particular it gives it up.
LEMMA GiveUpKeeps ==
  ASSUME NEW m, NEW tr, MissesOK(m, tr), NEW t \in TLBs, NEW p \in Pages,
         NEW n \in [TLBs -> [Pages -> Packets \cup {None}]],
         \A u \in TLBs, q \in Pages : n[u][q] = IF u = t /\ q = p THEN None ELSE m[u][q]
  PROVE  MissesOK(n, tr)
<1> DEFINE x == None
<1>1. x \in Misses(p, tr) \cup {None} /\ x = None
  OBVIOUS
<1>2. \A u \in TLBs, q \in Pages : n[u][q] = IF u = t /\ q = p THEN x ELSE m[u][q]
  OBVIOUS
<1> HIDE DEF x
<1> QED BY <1>1, <1>2, PutKeeps

\* An answer reaches the MSHRs of its page.
LEMMA ReturnKeeps ==
  ASSUME NEW m, NEW tr, MissesOK(m, tr), NEW S, NEW p \in Pages, NEW d,
         Right(d, p, tr)
  PROVE  /\ MissesOK(return_data(m, S, p, d), tr)
         /\ \A t \in TLBs, q \in Pages :
              IF t \in S /\ q = p /\ m[t][q] # None
              THEN /\ return_data(m, S, p, d)[t][q] # None
                   /\ return_data(m, S, p, d)[t][q].returned
              ELSE return_data(m, S, p, d)[t][q] = m[t][q]
<1> DEFINE n == return_data(m, S, p, d)
           new(t) == [m[t][p] EXCEPT !.returned = TRUE, !.data = d]
<1>0. /\ m \in [TLBs -> [Pages -> Packets \cup {None}]]
      /\ \A u \in TLBs : \A q \in Pages : m[u][q] \in Misses(q, tr) \cup {None}
      /\ \A u \in TLBs : Cardinality(Busy(m, u)) <= MSHR_SIZE[u]
  BY DEF MissesOK
<1>1. d \in Pages \cup {None, Dropped}
  BY DEF Right
<1>2. ASSUME NEW t \in TLBs, m[t][p] # None
      PROVE  new(t) \in Misses(p, tr) /\ new(t) # None /\ new(t).returned
  <2>1. m[t][p] \in Packets /\ m[t][p].page = p /\ Asks(m[t][p])
    BY <1>0, <1>2 DEF Misses
  <2>2. new(t) \in Packets /\ new(t).page = p /\ new(t).returned /\ new(t).data = d
        /\ new(t).type = m[t][p].type /\ new(t).own = m[t][p].own
        /\ new(t).merged = m[t][p].merged
    BY <2>1, <1>1 DEF Packets
  <2> HIDE DEF new
  <2>3. Asks(new(t))
    BY <2>1, <2>2 DEF Asks, ForPrefetches, Named
  <2> QED BY <2>2, <2>3, Nothing DEF Misses
<1>3. ASSUME NEW t \in TLBs, NEW q \in Pages
      PROVE  n[t][q] = IF t \in S /\ q = p /\ m[t][q] # None THEN new(t) ELSE m[t][q]
  BY <1>0 DEF return_data
<1>4. n = [t \in TLBs |-> n[t]] /\ \A t \in TLBs : n[t] = [q \in Pages |-> n[t][q]]
  BY <1>0 DEF return_data
<1> HIDE DEF n, new
<1>5. \A t \in TLBs : \A q \in Pages : n[t][q] \in Misses(q, tr) \cup {None}
  BY <1>0, <1>2, <1>3
<1>6. n \in [TLBs -> [Pages -> Packets \cup {None}]]
  <2>1. \A t \in TLBs : \A q \in Pages : n[t][q] \in Packets \cup {None}
    BY <1>5 DEF Misses
  <2>2. \A t \in TLBs : n[t] \in [Pages -> Packets \cup {None}]
    BY <2>1, <1>4
  <2> QED BY <2>2, <1>4
<1>7. \A t \in TLBs : Busy(n, t) = Busy(m, t)
  BY <1>2, <1>3 DEF Busy
<1> QED BY <1>0, <1>2, <1>3, <1>5, <1>6, <1>7 DEF n, MissesOK

\* PROCESSED takes right answers, as long as there is room.
LEMMA ProcessedKeeps ==
  ASSUME AnswersOK(PROCESSED, translation), NEW t \in TLBs,
         NEW s \in Seq(RightAnswers(translation))
  PROVE  AnswersOK(Processed(t, s), translation)
<1> DEFINE A == RightAnswers(translation)
           q == PROCESSED[t] \o s
<1>0. /\ PROCESSED \in [TLBs -> Seq(A)] /\ \A u \in TLBs : Len(PROCESSED[u]) <= ROB_SIZE
  BY DEF AnswersOK
<1> HIDE DEF A
<1>1. q \in Seq(A)
  BY <1>0, ConcatProperties DEF A
<1>2. CASE Len(q) <= ROB_SIZE
  <2>1. Processed(t, s) = [PROCESSED EXCEPT ![t] = q]
    BY <1>2 DEF Processed
  <2> HIDE DEF q
  <2> QED BY <2>1, <1>0, <1>1, <1>2 DEF AnswersOK, A
<1>3. CASE ~(Len(q) <= ROB_SIZE)
  <2>1. Processed(t, s) = [PROCESSED EXCEPT ![t] = PROCESSED[t]]
    BY <1>3 DEF Processed
  <2>2. Processed(t, s) = PROCESSED
    BY <2>1, <1>0
  <2> QED BY <2>2
<1> QED BY <1>2, <1>3

\* The answer to a packet is right if its data is.
LEMMA TranslatedRight ==
  ASSUME NEW p \in Pages, NEW tr, NEW r \in Packets, r.page = p, NEW d, Right(d, p, tr),
         d = Dropped => ForPrefetches(Named(r))
  PROVE  Translated(r, d) \in RightAnswers(tr)
<1> DEFINE e == Translated(r, d)
<1>1. e = [page |-> p, data |-> d, own |-> r.own, merged |-> r.merged]
  BY DEF Translated
<1>2. d \in Pages \cup {Dropped}
  BY DEF Right
<1> HIDE DEF e
<1>3. e \in Answers
  BY <1>1, <1>2, PacketFields DEF Answers
<1>4. e.page = p /\ e.data = d /\ Named(e) = Named(r)
  BY <1>1 DEF Named
<1> QED BY <1>3, <1>4 DEF e, RightAnswers

-----------------------------------------------------------------------------
(* The L1s *)

\* A slot of an L1 is taken, gets its translation, or is given up.
LEMMA SlotKeeps ==
  ASSUME NEW en, NEW tr, EntriesOK(en, tr), NEW c \in L1s, NEW s \in Slots[c],
         NEW x, EntryOK(s, x, tr)
  PROVE  EntriesOK([en EXCEPT ![c][s] = x], tr)
<1> DEFINE n == [en EXCEPT ![c][s] = x]
<1>0. /\ DOMAIN en = L1s
      /\ \A d \in L1s : /\ en[d] = [u \in Slots[d] |-> en[d][u]]
                        /\ \A u \in Slots[d] : EntryOK(u, en[d][u], tr)
  BY DEF EntriesOK
<1>1. DOMAIN n = L1s /\ \A d \in L1s : n[d] = IF d = c THEN [en[c] EXCEPT ![s] = x] ELSE en[d]
  BY <1>0
<1> HIDE DEF n
<1>2. ASSUME NEW d \in L1s
      PROVE  /\ n[d] = [u \in Slots[d] |-> n[d][u]]
             /\ \A u \in Slots[d] : EntryOK(u, n[d][u], tr)
  <2>1. CASE d = c
    <3>1. DOMAIN en[c] = Slots[c]
      BY <1>0
    <3>2. n[c] = [en[c] EXCEPT ![s] = x]
      BY <1>1
    <3>3. /\ n[c] = [u \in Slots[c] |-> n[c][u]]
          /\ \A u \in Slots[c] : n[c][u] = IF u = s THEN x ELSE en[c][u]
      BY <3>1, <3>2
    <3> QED BY <2>1, <3>3, <1>0
  <2>2. CASE d # c
    <3>1. n[d] = en[d]
      BY <2>2, <1>1
    <3> QED BY <3>1, <1>0
  <2> QED BY <2>1, <2>2
<1> QED BY <1>1, <1>2 DEF n, EntriesOK

\* A step of the walker's port, or none.
PortSteps == Port!Next \/ UNCHANGED port

\* demand,
LEMMA DemandKeeps ==
  ASSUME IInv, NEW c \in L1s, NEW queue, NEW p \in Pages, demand(c, queue, p)
  PROVE  IInv' /\ PortSteps
<1>1. PICK s \in Free(c, queue) :
        /\ Take(c, s, p)
        /\ RQ' = add_rq(RQ, Translator[c], Packet(p, "LOAD_TRANSLATION", 1, c = "L1I", s))
  BY DEF demand
<1>2. s \in Slots[c] /\ s \in AllSlots
  BY SlotFacts DEF Free
<1>3. Translator[c] \in TLBs /\ (c = "L1I") \in BOOLEAN
  BY DEF L1s, Translator, TLBs
<1>4. QueuesOK(RQ')
  <2> DEFINE r == Packet(p, "LOAD_TRANSLATION", 1, c = "L1I", s)
  <2>1. r \in Requests
    BY <1>2, <1>3, SentIsRequest
  <2>2. QueuesOK(RQ)
    BY DEF IInv
  <2> HIDE DEF r
  <2>3. QueuesOK(add_rq(RQ, Translator[c], r))
    BY <2>1, <2>2, <1>3, AddKeeps
  <2> QED BY <2>3, <1>1 DEF r
<1>5. EntriesOK(entry', translation)
  <2> DEFINE x == [page |-> p, data |-> None]
  <2>1. EntryOK(s, x, translation)
    BY Nothing DEF EntryOK, Entries
  <2> HIDE DEF x
  <2>2. EntriesOK([entry EXCEPT ![c][s] = x], translation)
    BY <2>1, <1>2, SlotKeeps DEF IInv
  <2> QED BY <2>2, <1>1 DEF Take, x
<1>6. requests' \in 0 .. MaxRequests
  <2>1. requests \in 0 .. MaxRequests /\ MaxRequests \in Nat
    BY Sizes DEF IInv
  <2>2. requests < MaxRequests /\ requests' = requests + 1
    BY DEF demand
  <2> QED BY <2>1, <2>2
<1>7. UNCHANGED <<tail, MSHR, block, PROCESSED, port, aborted>>
  BY DEF demand
<1>8. IInv'
  BY <1>4, <1>5, <1>6, <1>7 DEF IInv, port
<1> QED BY <1>7, <1>8 DEF PortSteps

\* prefetch,
LEMMA PrefetchKeeps ==
  ASSUME IInv, NEW c \in L1s, NEW p \in Pages, prefetch(c, p)
  PROVE  IInv' /\ PortSteps
<1> DEFINE s == <<"PQ", tail[c]>>
           t == IF c = "L1I" THEN "ITLB" ELSE "STLB"
           level == IF c = "L1I" THEN 1 ELSE 2
           r == Packet(p, "TRANSLATION_FROM_L1D", level, c = "L1I", s)
<1>1. s \in Free(c, "PQ") /\ Take(c, s, p) /\ RQ' = add_rq(RQ, t, r)
  BY DEF prefetch
<1>2. s \in Slots[c] /\ s \in AllSlots /\ s[1] = "PQ"
  BY <1>1, SlotFacts DEF Free
<1>3. t \in TLBs /\ (c = "L1I") \in BOOLEAN /\ level \in {1, 2}
  BY DEF L1s, TLBs
<1> HIDE DEF s, t, level
<1>4. QueuesOK(RQ')
  <2>1. r \in Requests
    BY <1>2, <1>3, SentIsRequest
  <2>2. QueuesOK(RQ)
    BY DEF IInv
  <2> HIDE DEF r
  <2> QED BY <2>1, <2>2, <1>1, <1>3, AddKeeps
<1>5. EntriesOK(entry', translation)
  <2> DEFINE x == [page |-> p, data |-> None]
  <2>1. EntryOK(s, x, translation)
    BY Nothing DEF EntryOK, Entries
  <2> HIDE DEF x
  <2>2. EntriesOK([entry EXCEPT ![c][s] = x], translation)
    BY <2>1, <1>2, SlotKeeps DEF IInv
  <2> QED BY <2>2, <1>1 DEF Take, x
<1>6. requests' \in 0 .. MaxRequests
  <2>1. requests \in 0 .. MaxRequests /\ MaxRequests \in Nat
    BY Sizes DEF IInv
  <2>2. requests < MaxRequests /\ requests' = requests + 1
    BY DEF prefetch
  <2> QED BY <2>1, <2>2
<1>7. tail' \in [L1s -> Nat] /\ \A d \in L1s : tail'[d] \in 1 .. PQ_SIZE[d]
  <2> DEFINE n == (tail[c] % PQ_SIZE[c]) + 1
  <2>1. tail \in [L1s -> Nat] /\ \A d \in L1s : tail[d] \in 1 .. PQ_SIZE[d]
    BY DEF IInv
  <2>2. n \in Nat /\ n \in 1 .. PQ_SIZE[c]
    <3>1. tail[c] \in Nat /\ PQ_SIZE[c] \in Nat \ {0}
      BY <2>1, Sizes
    <3> DEFINE a == tail[c]
               b == PQ_SIZE[c]
    <3> HIDE DEF a, b
    <3>2. a % b \in 0 .. b - 1
      BY <3>1 DEF a, b
    <3> QED BY <3>1, <3>2 DEF a, b
  <2>3. tail' = [tail EXCEPT ![c] = n]
    BY DEF prefetch
  <2> HIDE DEF n
  <2> QED BY <2>1, <2>2, <2>3
<1>8. UNCHANGED <<MSHR, block, PROCESSED, port, aborted>>
  BY DEF prefetch
<1>9. IInv'
  BY <1>4, <1>5, <1>6, <1>7, <1>8 DEF IInv, port
<1> QED BY <1>8, <1>9 DEF PortSteps

\* handle_processed, which hands out right answers only, and that a page has
\* been dropped to prefetches only,
LEMMA HandleProcessedKeeps ==
  ASSUME IInv, NEW t \in TLBs, handle_processed(t)
  PROVE  IInv' /\ PortSteps
<1> DEFINE e == Head(PROCESSED[t])
           c == IF t = "ITLB" THEN "L1I" ELSE "L1D"
           Gets(s) == /\ entry[c][s] # None
                      /\ entry[c][s].page = e.page
                      /\ \/ s \in e.merged \cup {e.own} /\ entry[c][s].data = None
                         \/ s = e.own /\ t # "STLB"
           x == [page |-> e.page, data |-> e.data]
           f == [s \in Slots[c] |-> IF Gets(s) THEN x ELSE entry[c][s]]
<1>1. /\ PROCESSED[t] # <<>> /\ PROCESSED' = [PROCESSED EXCEPT ![t] = Tail(@)]
      /\ entry' = [entry EXCEPT ![c] = f]
      /\ UNCHANGED <<tail, RQ, MSHR, block, port, aborted, requests>>
  BY DEF handle_processed
<1>2. c \in L1s
  BY DEF L1s
<1>3. /\ PROCESSED \in [TLBs -> Seq(RightAnswers(translation))]
      /\ PROCESSED[t] \in Seq(RightAnswers(translation))
      /\ \A u \in TLBs : Len(PROCESSED[u]) <= ROB_SIZE
  BY DEF IInv, AnswersOK
<1>4. e \in RightAnswers(translation) /\ Tail(PROCESSED[t]) \in Seq(RightAnswers(translation))
      /\ Len(Tail(PROCESSED[t])) = Len(PROCESSED[t]) - 1 /\ Len(PROCESSED[t]) \in Nat
  BY <1>1, <1>3, HeadTailProperties, LenProperties
<1>5. AnswersOK(PROCESSED', translation)
  <2>1. Len(Tail(PROCESSED[t])) <= ROB_SIZE
    BY <1>3, <1>4, Sizes
  <2> QED BY <2>1, <1>1, <1>3, <1>4 DEF AnswersOK
<1>6. /\ e \in Answers /\ Right(e.data, e.page, translation)
      /\ e.data = Dropped => ForPrefetches(Named(e))
  BY <1>4 DEF RightAnswers
<1>7. x \in Entries /\ x.page = e.page /\ x.data = e.data
  BY <1>6 DEF Answers, Entries
<1> HIDE DEF e, c, x
<1>8. ASSUME NEW s \in Slots[c], Gets(s) PROVE EntryOK(s, x, translation)
  <2>1. s \in Named(e)
    <3>1. s # None
      BY <1>2, SlotFacts, Nothing
    <3> QED BY <1>8, <3>1 DEF Named
  <2> QED BY <2>1, <1>6, <1>7 DEF EntryOK, ForPrefetches
<1>9. EntriesOK(entry, translation)
  BY DEF IInv
<1>10. \A s \in Slots[c] : EntryOK(s, f[s], translation)
  BY <1>2, <1>8, <1>9 DEF EntriesOK
<1>11. f = [s \in Slots[c] |-> f[s]]
  OBVIOUS
<1> HIDE DEF f
<1>12. EntriesOK(entry', translation)
  <2>1. DOMAIN entry' = L1s /\ \A d \in L1s : entry'[d] = IF d = c THEN f ELSE entry[d]
    BY <1>1, <1>2, <1>9 DEF EntriesOK
  <2> QED BY <2>1, <1>9, <1>10, <1>11 DEF EntriesOK
<1>13. IInv'
  BY <1>1, <1>5, <1>12 DEF IInv, port
<1> QED BY <1>1, <1>13 DEF PortSteps

\* and use preserve the invariant.
LEMMA UseKeeps ==
  ASSUME IInv, NEW c \in L1s, NEW s \in Slots[c], use(c, s)
  PROVE  IInv' /\ PortSteps
<1>1. /\ entry' = [entry EXCEPT ![c][s] = None]
      /\ UNCHANGED <<tail, RQ, MSHR, block, PROCESSED, port, aborted, requests>>
  BY DEF use
<1>2. EntriesOK(entry', translation)
  <2>1. EntryOK(s, None, translation)
    BY DEF EntryOK
  <2> QED BY <2>1, <1>1, SlotKeeps DEF IInv
<1>3. IInv'
  BY <1>1, <1>2 DEF IInv, port
<1> QED BY <1>1, <1>3 DEF PortSteps

-----------------------------------------------------------------------------
(* handle_read of a TLB *)

\* The requests of STLB are what it waits for.
Awaits(m, p) == m["STLB"][p] # None /\ ~m["STLB"][p].returned

\* hit preserves the invariant: what a TLB holds is right,
LEMMA HitKeeps ==
  ASSUME IInv, NEW t \in TLBs, hit(t)
  PROVE  IInv' /\ PortSteps
<1> DEFINE r == Head(RQ[t])
           p == r.page
           d == block[t][p]
           e == Translated(r, d)
           packets == IF t # "STLB" THEN <<e>>
                      ELSE IF r.own # None /\ r.merged # {} THEN <<e>> \o <<e>>
                      ELSE IF Named(r) # {} THEN <<e>> ELSE <<>>
           n == IF t = "STLB" THEN return_data(MSHR, Receivers(r), p, d) ELSE MSHR
<1>1. /\ RQ[t] # <<>> /\ d # None /\ RQ' = [RQ EXCEPT ![t] = Tail(@)]
      /\ PROCESSED' = Processed(t, packets) /\ MSHR' = n
      /\ UNCHANGED <<entry, tail, block, port, aborted, requests>>
  BY DEF hit
<1>2. r \in Requests /\ QueuesOK(RQ')
  BY <1>1, TakeKeeps DEF IInv
<1>3. r \in Packets /\ p \in Pages
  BY <1>2, PacketFields DEF Requests
<1>4. Right(d, p, translation) /\ d # Dropped
  <2>1. d = p /\ translation[p] = p
    BY <1>1, <1>3 DEF IInv, LinesOK
  <2> QED BY <2>1, <1>3, Nothing DEF Right
<1> HIDE DEF d
<1>5. e \in RightAnswers(translation)
  BY <1>3, <1>4, TranslatedRight
<1> HIDE DEF r, e
<1>6. AnswersOK(PROCESSED', translation)
  <2>1. <<e>> \in Seq(RightAnswers(translation)) /\ <<>> \in Seq(RightAnswers(translation))
    BY <1>5
  <2>2. <<e>> \o <<e>> \in Seq(RightAnswers(translation))
    BY <2>1, ConcatProperties
  <2>3. packets \in Seq(RightAnswers(translation))
    BY <2>1, <2>2
  <2>4. AnswersOK(PROCESSED, translation)
    BY DEF IInv
  <2> HIDE DEF packets
  <2> QED BY <2>3, <2>4, <1>1, ProcessedKeeps
<1>7. MissesOK(n, translation) /\ \A q \in Pages : n["STLB"][q] = MSHR["STLB"][q]
  <2>1. MissesOK(MSHR, translation) /\ "STLB" \notin Receivers(r) /\ "STLB" \in TLBs
    BY DEF IInv, Receivers, TLBs
  <2>2. CASE t = "STLB"
    BY <2>1, <2>2, <1>3, <1>4, ReturnKeeps
  <2>3. CASE t # "STLB"
    BY <2>1, <2>3
  <2> QED BY <2>2, <2>3
<1> HIDE DEF n
<1>8. AskedOK(asked', MSHR')
  BY <1>1, <1>7 DEF IInv, AskedOK, port
<1>9. IInv'
  BY <1>1, <1>2, <1>6, <1>7, <1>8 DEF IInv, port
<1> QED BY <1>1, <1>9 DEF PortSteps

\* The miss of page p takes an MSHR that has not been answered, and STLB asks
\* the walker, once, or ITLB or DTLB ask STLB.
LEMMA AskBelowKeeps ==
  ASSUME IInv, NEW t \in TLBs, NEW q, QueuesOK(q), NEW r \in Packets, Asks(r),
         NEW p \in Pages, r.page = p, AskBelow(t, q, r),
         ~Awaits(MSHR, p) \/ t # "STLB",
         MissesOK(MSHR', translation),
         \A u \in TLBs, x \in Pages : ~(u = t /\ x = p) => MSHR'[u][x] = MSHR[u][x],
         MSHR'[t][p] # None /\ ~MSHR'[t][p].returned,
         UNCHANGED <<entry, tail, block, PROCESSED, requests>>
  PROVE  IInv' /\ PortSteps
<1>0. /\ AskedOK(asked, MSHR) /\ asked \in [Pages -> Port!Types \cup {None}]
      /\ None \notin Port!Types /\ r.type \in Port!Types /\ "STLB" \in TLBs
  BY Nothing, PacketFields DEF IInv, AskedOK, Port!Types, TLBs
<1>1. CASE t = "STLB"
  <2>1. /\ asked' = [asked EXCEPT ![p] = r.type] /\ RQ' = q
        /\ UNCHANGED <<translation, answer, aborted>>
    BY <1>1 DEF AskBelow
  <2>2. asked[p] = None
    BY <1>0, <1>1 DEF AskedOK, Awaits
  <2>3. Port!Ask(p, r.type)
    BY <2>1, <2>2 DEF Port!Ask
  <2>4. AskedOK(asked', MSHR')
    <3>1. asked' \in [Pages -> Port!Types \cup {None}]
      BY <2>1, <1>0
    <3>2. asked'[p] = r.type /\ \A x \in Pages \ {p} : asked'[x] = asked[x]
      BY <2>1, <1>0
    <3>3. \A x \in Pages \ {p} : MSHR'["STLB"][x] = MSHR["STLB"][x]
      BY <1>0, <1>1
    <3>4. ASSUME NEW x \in Pages
          PROVE  asked'[x] # None <=> MSHR'["STLB"][x] # None /\ ~MSHR'["STLB"][x].returned
      <4>1. CASE x = p
        BY <4>1, <3>2, <1>0, <1>1
      <4>2. CASE x # p
        BY <4>2, <3>2, <3>3, <1>0 DEF AskedOK
      <4> QED BY <4>1, <4>2
    <3> QED BY <3>1, <3>4 DEF AskedOK
  <2>5. IInv'
    BY <2>1, <2>4 DEF IInv
  <2>6. Port!Next
    BY <2>3, <1>0 DEF Port!Next
  <2> QED BY <2>5, <2>6 DEF PortSteps
<1>2. CASE t # "STLB"
  <2>1. /\ RQ' = add_rq(q, "STLB", Down(r)) /\ aborted' = AssertionFails(q, r)
        /\ UNCHANGED port
    BY <1>2 DEF AskBelow
  <2>2. QueuesOK(RQ')
    BY <2>1, <1>0, DownIsRequest, AddKeeps
  <2>3. aborted' \in BOOLEAN
    BY <2>1 DEF AssertionFails
  <2>4. \A x \in Pages : MSHR'["STLB"][x] = MSHR["STLB"][x]
    BY <1>0, <1>2
  <2>5. AskedOK(asked', MSHR')
    BY <2>1, <2>4, <1>0 DEF AskedOK, port
  <2>6. IInv'
    BY <2>1, <2>2, <2>3, <2>5 DEF IInv, port
  <2> QED BY <2>1, <2>6 DEF PortSteps
<1> QED BY <1>1, <1>2

\* miss,
LEMMA MissKeeps ==
  ASSUME IInv, NEW t \in TLBs, miss(t)
  PROVE  IInv' /\ PortSteps
<1> DEFINE r == Head(RQ[t])
           p == r.page
           q == [RQ EXCEPT ![t] = Tail(@)]
<1>1. /\ RQ[t] # <<>> /\ MSHR[t][p] = None
      /\ Cardinality(Busy(MSHR, t)) < MSHR_SIZE[t]
      /\ MSHR' = [MSHR EXCEPT ![t][p] = r] /\ AskBelow(t, q, r)
      /\ UNCHANGED <<entry, tail, block, PROCESSED, requests>>
  BY DEF miss, Busy
<1>2. r \in Requests /\ QueuesOK(q)
  BY <1>1, TakeKeeps DEF IInv
<1>3. /\ r \in Packets /\ p \in Pages /\ Asks(r) /\ ~r.returned /\ r # None
      /\ r.page = p
  BY <1>2, PacketFields, Nothing DEF Requests
<1> HIDE DEF r, q, p
<1>4. /\ r \in Misses(p, translation) \cup {None} /\ MissesOK(MSHR, translation)
      /\ MSHR[t][p] # None \/ r = None \/ Cardinality(Busy(MSHR, t)) < MSHR_SIZE[t]
  BY <1>1, <1>3 DEF Misses, IInv
<1>5. /\ MissesOK(MSHR', translation)
      /\ \A u \in TLBs, x \in Pages :
           MSHR'[u][x] = IF u = t /\ x = p THEN r ELSE MSHR[u][x]
  <2>1. MSHR \in [TLBs -> [Pages -> Packets \cup {None}]]
    BY <1>4 DEF MissesOK
  <2>2. /\ MSHR' \in [TLBs -> [Pages -> Packets \cup {None}]]
        /\ \A u \in TLBs, x \in Pages :
             MSHR'[u][x] = IF u = t /\ x = p THEN r ELSE MSHR[u][x]
    BY <2>1, <1>1, <1>3
  <2> QED BY <2>2, <1>3, <1>4, PutKeeps
<1>6. ~Awaits(MSHR, p) \/ t # "STLB"
  BY <1>1 DEF Awaits
<1>7. /\ \A u \in TLBs, x \in Pages : ~(u = t /\ x = p) => MSHR'[u][x] = MSHR[u][x]
      /\ MSHR'[t][p] # None /\ ~MSHR'[t][p].returned
  BY <1>3, <1>5
<1> QED BY <1>1, <1>2, <1>3, <1>5, <1>6, <1>7, AskBelowKeeps

\* and merge preserve the invariant.
LEMMA MergeKeeps ==
  ASSUME IInv, NEW t \in TLBs, merge(t)
  PROVE  IInv' /\ PortSteps
<1> DEFINE r == Head(RQ[t])
           p == r.page
           n == MergeMiss(MSHR[t][p], t, r)
<1>1. /\ RQ[t] # <<>> /\ MSHR[t][p] # None
      /\ MSHR' = [MSHR EXCEPT ![t][p] = MergeMiss(@, t, r)]
      /\ RQ' = [RQ EXCEPT ![t] = Tail(@)]
      /\ UNCHANGED <<entry, tail, block, PROCESSED, port, aborted, requests>>
  BY DEF merge
<1>2. r \in Requests /\ QueuesOK(RQ')
  BY <1>1, TakeKeeps DEF IInv
<1>3. p \in Pages
  BY <1>2, PacketFields DEF Requests
<1> HIDE DEF r
<1>4. MSHR[t][p] \in Misses(p, translation) /\ MissesOK(MSHR, translation)
      /\ MSHR \in [TLBs -> [Pages -> Packets \cup {None}]]
  BY <1>1, <1>3 DEF IInv, MissesOK
<1>5. n \in Misses(p, translation) /\ n.returned = MSHR[t][p].returned
  BY <1>2, <1>3, <1>4, MergeIsMiss
<1>6. MSHR' = [MSHR EXCEPT ![t][p] = n]
  BY <1>1, <1>3, <1>4
<1>7. n # None /\ n \in Misses(p, translation) \cup {None}
  BY <1>5, Nothing DEF Misses
<1> HIDE DEF n, p
<1>8. /\ MissesOK(MSHR', translation)
      /\ \A u \in TLBs, x \in Pages :
           MSHR'[u][x] = IF u = t /\ x = p THEN n ELSE MSHR[u][x]
  <2>1. n \in Packets
    BY <1>5 DEF Misses
  <2>2. /\ MSHR' \in [TLBs -> [Pages -> Packets \cup {None}]]
        /\ \A u \in TLBs, x \in Pages :
             MSHR'[u][x] = IF u = t /\ x = p THEN n ELSE MSHR[u][x]
    BY <2>1, <1>3, <1>4, <1>6
  <2>3. MSHR[t][p] # None
    BY <1>1
  <2> QED BY <2>2, <2>3, <1>3, <1>4, <1>7, PutKeeps
<1>9. AskedOK(asked', MSHR')
  <2>1. AskedOK(asked, MSHR) /\ asked' = asked /\ "STLB" \in TLBs
    BY <1>1 DEF IInv, port, TLBs
  <2>2. \A x \in Pages :
          MSHR'["STLB"][x] # None /\ ~MSHR'["STLB"][x].returned <=>
          MSHR["STLB"][x] # None /\ ~MSHR["STLB"][x].returned
    BY <2>1, <1>1, <1>5, <1>7, <1>8
  <2> QED BY <2>1, <2>2 DEF AskedOK
<1>10. IInv'
  BY <1>1, <1>2, <1>8, <1>9 DEF IInv, port
<1> QED BY <1>1, <1>10 DEF PortSteps

-----------------------------------------------------------------------------
(* handle_fill of a TLB *)

\* A line takes the translation of its page, and another may give up its own.
LEMMA LineKeeps ==
  ASSUME LinesOK(block, translation), NEW t \in TLBs, NEW p \in Pages,
         translation[p] = p, fill_cache(t, p, p)
  PROVE  LinesOK(block', translation)
<1> DEFINE held == Busy(block, t)
<1>0. /\ block \in [TLBs -> [Pages -> Pages \cup {None}]]
      /\ \A u \in TLBs : \A q \in Pages :
           block[u][q] # None => block[u][q] = q /\ translation[q] = q
      /\ \A u \in TLBs : Cardinality(Busy(block, u)) <= NUM_WAY[u]
      /\ held \subseteq Pages /\ NUM_WAY[t] \in Nat \ {0}
  BY Sizes DEF LinesOK, Busy
<1>1. ASSUME NEW b \in [Pages -> Pages \cup {None}], block' = [block EXCEPT ![t] = b],
             \A q \in Pages : b[q] \in {None, block[t][q]} \/ (q = p /\ b[q] = p),
             \/ Cardinality(held) < NUM_WAY[t]
             \/ \E q \in held : b[q] = None
      PROVE  LinesOK(block', translation)
  <2>1. /\ block' \in [TLBs -> [Pages -> Pages \cup {None}]]
        /\ block'[t] = b /\ \A u \in TLBs \ {t} : block'[u] = block[u]
    BY <1>0, <1>1
  <2>2. ASSUME NEW u \in TLBs, NEW q \in Pages, block'[u][q] # None
        PROVE  block'[u][q] = q /\ translation[q] = q
    <3>1. CASE u = t
      BY <3>1, <2>1, <2>2, <1>0, <1>1
    <3>2. CASE u # t
      BY <3>2, <2>1, <2>2, <1>0
    <3> QED BY <3>1, <3>2
  <2>3. ASSUME NEW u \in TLBs PROVE Cardinality(Busy(block', u)) <= NUM_WAY[u]
    <3>1. CASE u = t
      <4> DEFINE T == Busy(block', t)
      <4>1. T \subseteq held \cup {p} /\ \A q \in Pages : b[q] = None => q \notin T
        BY <2>1, <1>1 DEF Busy
      <4>2. \/ T \subseteq held \cup {p} /\ Cardinality(held) < NUM_WAY[t]
            \/ \E q \in held : T \subseteq (held \cup {p}) \ {q}
        <5>1. ASSUME NEW q \in held, b[q] = None
              PROVE  T \subseteq (held \cup {p}) \ {q}
          <6>1. q \in Pages
            BY <1>0
          <6> QED BY <5>1, <6>1, <4>1
        <5> HIDE DEF T, held
        <5> QED BY <5>1, <4>1, <1>1
      <4>3. Cardinality(held) <= NUM_WAY[t]
        BY <1>0
      <4> HIDE DEF T, held
      <4>4. Cardinality(T) <= NUM_WAY[t]
        BY <4>2, <4>3, <1>0, OneMore
      <4> QED BY <3>1, <4>4 DEF T
    <3>2. CASE u # t
      <4>1. Busy(block', u) = Busy(block, u)
        BY <3>2, <2>1 DEF Busy
      <4> QED BY <4>1, <1>0
    <3> QED BY <3>1, <3>2
  <2> QED BY <2>1, <2>2, <2>3 DEF LinesOK
<1> DEFINE f == [block[t] EXCEPT ![p] = p]
<1>2. /\ f \in [Pages -> Pages \cup {None}] /\ f[p] = p
      /\ \A q \in Pages : q # p => f[q] = block[t][q]
  BY <1>0
<1>3. CASE Cardinality(held) < NUM_WAY[t]
  <2>1. block' = [block EXCEPT ![t] = f]
    BY <1>0, <1>3 DEF fill_cache, Filled, Busy
  <2> HIDE DEF f, held
  <2>2. \A q \in Pages : f[q] \in {None, block[t][q]} \/ (q = p /\ f[q] = p)
    BY <1>2
  <2> QED BY <1>1, <1>2, <1>3, <2>1, <2>2
<1>4. CASE ~(Cardinality(held) < NUM_WAY[t])
  <2>1. PICK q \in held : block' = [block EXCEPT ![t] = [f EXCEPT ![q] = None]]
    BY <1>0, <1>4 DEF fill_cache, Filled, Busy
  <2> DEFINE g == [f EXCEPT ![q] = None]
  <2>2. q \in Pages
    BY <1>0
  <2> HIDE DEF f
  <2>3. /\ g \in [Pages -> Pages \cup {None}] /\ g[q] = None
        /\ \A x \in Pages : x # q => g[x] = f[x]
    BY <1>2, <2>2
  <2>4. block' = [block EXCEPT ![t] = g]
    BY <2>1
  <2> HIDE DEF g, held
  <2>5. \A x \in Pages : g[x] \in {None, block[t][x]} \/ (x = p /\ g[x] = p)
    BY <1>2, <2>3
  <2> QED BY <1>1, <2>1, <2>3, <2>4, <2>5
<1> QED BY <1>3, <1>4

\* MSHR when TLB t has given the answer d for page p to the TLBs in S.
Answering(m, S, t, p, d) == [return_data(m, S, p, d) EXCEPT ![t][p] = None]

\* An MSHR that has been answered gives its answer away.
LEMMA FreeKeeps ==
  ASSUME IInv, NEW t \in TLBs, NEW p \in Pages, MSHR[t][p] # None,
         MSHR[t][p].returned, NEW S, t = "STLB" \/ S = {}, "STLB" \notin S,
         NEW d, Right(d, p, translation),
         MSHR' = Answering(MSHR, S, t, p, d)
  PROVE  MissesOK(MSHR', translation) /\ AskedOK(asked, MSHR')
<1> DEFINE n == return_data(MSHR, S, p, d)
<1>0. MissesOK(MSHR, translation) /\ AskedOK(asked, MSHR) /\ "STLB" \in TLBs
  BY DEF IInv, TLBs
<1>1. /\ MissesOK(n, translation)
      /\ \A q \in Pages : n["STLB"][q] = MSHR["STLB"][q]
  BY <1>0, ReturnKeeps
<1> HIDE DEF n
<1>2. n \in [TLBs -> [Pages -> Packets \cup {None}]]
  BY <1>1 DEF MissesOK
<1>3. /\ MSHR' \in [TLBs -> [Pages -> Packets \cup {None}]]
      /\ \A u \in TLBs, q \in Pages :
           MSHR'[u][q] = IF u = t /\ q = p THEN None ELSE n[u][q]
  BY <1>2 DEF n, Answering
<1>4. MissesOK(MSHR', translation)
  BY <1>1, <1>3, GiveUpKeeps
<1>5. \A q \in Pages :
        MSHR'["STLB"][q] # None /\ ~MSHR'["STLB"][q].returned <=>
        MSHR["STLB"][q] # None /\ ~MSHR["STLB"][q].returned
  BY <1>0, <1>1, <1>3
<1> QED BY <1>0, <1>4, <1>5 DEF AskedOK

\* The answer that an MSHR holds.
LEMMA Answered ==
  ASSUME IInv, NEW t \in TLBs, NEW p \in Pages, MSHR[t][p] # None,
         MSHR[t][p].returned
  PROVE  /\ MSHR[t][p] \in Packets /\ MSHR[t][p].page = p /\ Asks(MSHR[t][p])
         /\ Right(MSHR[t][p].data, p, translation)
         /\ MSHR[t][p].data # Dropped => MSHR[t][p].data = p /\ translation[p] = p
BY DEF IInv, MissesOK, Misses, Right

\* fill,
LEMMA FillKeeps ==
  ASSUME IInv, NEW t \in TLBs, NEW p \in Pages, fill(t, p)
  PROVE  IInv' /\ PortSteps
<1> DEFINE m == MSHR[t][p]
           e == Translated(m, m.data)
           told == IF t # "STLB" THEN TRUE
                   ELSE m.merged # {} \/ (m.own # None /\ (m.both \/ ~m.instruction))
           S == IF t = "STLB" THEN Receivers(m) ELSE {}
           packets == IF told THEN <<e>> ELSE <<>>
<1>1. /\ m # None /\ m.returned /\ m.data # Dropped
      /\ block' = block \/ fill_cache(t, p, m.data)
      /\ PROCESSED' = Processed(t, packets)
      /\ MSHR' = Answering(MSHR, S, t, p, m.data)
      /\ UNCHANGED <<entry, tail, RQ, port, aborted, requests>>
  BY DEF fill, Answering
<1>2. /\ m \in Packets /\ m.page = p /\ Right(m.data, p, translation)
      /\ m.data = p /\ translation[p] = p
  BY <1>1, Answered
<1>3. e \in RightAnswers(translation)
  BY <1>1, <1>2, TranslatedRight
<1> HIDE DEF e, told
<1>4. AnswersOK(PROCESSED', translation)
  <2>1. packets \in Seq(RightAnswers(translation))
    BY <1>3
  <2>2. AnswersOK(PROCESSED, translation)
    BY DEF IInv
  <2> HIDE DEF packets
  <2> QED BY <2>1, <2>2, <1>1, ProcessedKeeps
<1>5. MissesOK(MSHR', translation) /\ AskedOK(asked, MSHR')
  <2>1. (t = "STLB" \/ S = {}) /\ "STLB" \notin S
    BY DEF Receivers
  <2> HIDE DEF S
  <2> QED BY <2>1, <1>1, <1>2, FreeKeeps
<1>6. LinesOK(block', translation)
  <2>1. LinesOK(block, translation)
    BY DEF IInv
  <2>2. CASE block' = block
    BY <2>1, <2>2
  <2>3. CASE fill_cache(t, p, m.data)
    BY <2>1, <2>3, <1>2, LineKeeps
  <2> QED BY <2>2, <2>3, <1>1
<1>7. IInv'
  BY <1>1, <1>4, <1>5, <1>6 DEF IInv, port
<1> QED BY <1>1, <1>7 DEF PortSteps

\* drop,
LEMMA DropKeeps ==
  ASSUME IInv, NEW t \in TLBs, NEW p \in Pages, drop(t, p)
  PROVE  IInv' /\ PortSteps
<1> DEFINE m == MSHR[t][p]
           e == Translated(m, Dropped)
           told == t = "ITLB" \/ (t = "STLB" /\ Named(m) # {})
           S == IF t = "STLB" THEN Receivers(m) ELSE {}
           packets == IF told THEN <<e>> ELSE <<>>
<1>1. /\ m # None /\ m.returned /\ m.type = "TRANSLATION_FROM_L1D"
      /\ PROCESSED' = Processed(t, packets)
      /\ MSHR' = Answering(MSHR, S, t, p, Dropped)
      /\ UNCHANGED <<entry, tail, RQ, block, port, aborted, requests>>
  BY DEF drop, Answering
<1>2. /\ m \in Packets /\ m.page = p /\ ForPrefetches(Named(m))
      /\ Right(Dropped, p, translation)
  BY <1>1, Answered DEF Asks, Right
<1>3. e \in RightAnswers(translation)
  BY <1>1, <1>2, TranslatedRight
<1> HIDE DEF e, told
<1>4. AnswersOK(PROCESSED', translation)
  <2>1. packets \in Seq(RightAnswers(translation))
    BY <1>3
  <2>2. AnswersOK(PROCESSED, translation)
    BY DEF IInv
  <2> HIDE DEF packets
  <2> QED BY <2>1, <2>2, <1>1, ProcessedKeeps
<1>5. MissesOK(MSHR', translation) /\ AskedOK(asked, MSHR')
  <2>1. (t = "STLB" \/ S = {}) /\ "STLB" \notin S
    BY DEF Receivers
  <2> HIDE DEF S
  <2> QED BY <2>1, <1>1, <1>2, FreeKeeps
<1>6. IInv'
  BY <1>1, <1>4, <1>5 DEF IInv, port
<1> QED BY <1>1, <1>6 DEF PortSteps

\* and ask_again preserve the invariant: the walker has answered before it is
\* asked again.
LEMMA AskAgainKeeps ==
  ASSUME IInv, NEW t \in TLBs, NEW p \in Pages, ask_again(t, p)
  PROVE  IInv' /\ PortSteps
<1> DEFINE m == MSHR[t][p]
           x == [m EXCEPT !.returned = FALSE]
<1>1. /\ m # None /\ m.returned /\ AskBelow(t, RQ, m)
      /\ MSHR' = [MSHR EXCEPT ![t][p].returned = FALSE]
      /\ UNCHANGED <<entry, tail, block, PROCESSED, requests>>
  BY DEF ask_again
<1>2. /\ m \in Packets /\ m.page = p /\ Asks(m) /\ QueuesOK(RQ)
      /\ MissesOK(MSHR, translation)
      /\ MSHR \in [TLBs -> [Pages -> Packets \cup {None}]]
  BY <1>1, Answered DEF IInv, MissesOK
<1>3. MSHR' = [MSHR EXCEPT ![t][p] = x]
  BY <1>1, <1>2
<1>4. x \in Packets /\ x.page = p /\ ~x.returned /\ Named(x) = Named(m) /\ x.type = m.type
  BY <1>2 DEF Packets, Named
<1>5. x # None /\ x \in Misses(p, translation) \cup {None}
  BY <1>2, <1>4, Nothing DEF Misses, Asks
<1> HIDE DEF x
<1>6. /\ MSHR' \in [TLBs -> [Pages -> Packets \cup {None}]]
      /\ \A u \in TLBs, q \in Pages :
           MSHR'[u][q] = IF u = t /\ q = p THEN x ELSE MSHR[u][q]
  BY <1>2, <1>3, <1>4
<1>7. MissesOK(MSHR', translation)
  <2>1. m # None
    BY <1>1
  <2> HIDE DEF m
  <2>2. m # None \/ x = None \/ Cardinality(Busy(MSHR, t)) < MSHR_SIZE[t]
    BY <2>1
  <2> QED BY <2>2, <1>2, <1>5, <1>6, PutKeeps DEF m
<1>8. ~Awaits(MSHR, p) \/ t # "STLB"
  BY <1>1 DEF Awaits
<1>9. /\ \A u \in TLBs, q \in Pages : ~(u = t /\ q = p) => MSHR'[u][q] = MSHR[u][q]
      /\ MSHR'[t][p] # None /\ ~MSHR'[t][p].returned
  BY <1>4, <1>5, <1>6
<1>10. /\ m \in Packets /\ m.page = p /\ Asks(m) /\ QueuesOK(RQ) /\ AskBelow(t, RQ, m)
       /\ UNCHANGED <<entry, tail, block, PROCESSED, requests>>
  BY <1>1, <1>2
<1> HIDE DEF m
<1> QED BY <1>7, <1>8, <1>9, <1>10, AskBelowKeeps

-----------------------------------------------------------------------------
(* The walker *)

\* What is right stays right when the walker gives out more translations.
LEMMA RightStays ==
  ASSUME NEW tr, NEW n, \A p \in Pages : tr[p] = p => n[p] = p
  PROVE  /\ \A p \in Pages : \A d : Right(d, p, tr) => Right(d, p, n)
         /\ \A p \in Pages : Misses(p, tr) \subseteq Misses(p, n)
         /\ RightAnswers(tr) \subseteq RightAnswers(n)
<1>1. \A p \in Pages : \A d : Right(d, p, tr) => Right(d, p, n)
  BY DEF Right
<1>2. \A p \in Pages : Misses(p, tr) \subseteq Misses(p, n)
  BY <1>1 DEF Misses
<1>3. RightAnswers(tr) \subseteq RightAnswers(n)
  <2>1. \A e \in Answers : e.page \in Pages
    BY DEF Answers
  <2> QED BY <1>1, <2>1 DEF RightAnswers
<1> QED BY <1>1, <1>2, <1>3

\* translated
LEMMA TranslatedKeeps ==
  ASSUME IInv, NEW p \in Pages, translated(p)
  PROVE  IInv' /\ PortSteps
<1>1. /\ asked[p] # None /\ translation' = [translation EXCEPT ![p] = p]
      /\ asked' = [asked EXCEPT ![p] = None]
      /\ MSHR' = return_data(MSHR, {"STLB"}, p, p)
      /\ UNCHANGED <<entry, tail, RQ, block, PROCESSED, aborted, requests>>
  BY DEF translated, Port!Translate
<1>2. /\ PagesOK(translation) /\ AskedOK(asked, MSHR) /\ MissesOK(MSHR, translation)
      /\ LinesOK(block, translation) /\ AnswersOK(PROCESSED, translation)
      /\ EntriesOK(entry, translation) /\ "STLB" \in TLBs
  BY DEF IInv, TLBs
<1>3. /\ PagesOK(translation') /\ translation'[p] = p
      /\ \A q \in Pages : translation[q] = q => translation'[q] = q
  BY <1>1, <1>2 DEF PagesOK
<1>4. /\ \A q \in Pages : \A d : Right(d, q, translation) => Right(d, q, translation')
      /\ \A q \in Pages : Misses(q, translation) \subseteq Misses(q, translation')
      /\ RightAnswers(translation) \subseteq RightAnswers(translation')
  BY <1>3, RightStays
<1>5. MissesOK(MSHR, translation') /\ LinesOK(block, translation')
  <2>1. MissesOK(MSHR, translation')
    BY <1>2, <1>4 DEF MissesOK
  <2> QED BY <2>1, <1>2, <1>3 DEF LinesOK
<1>6. AnswersOK(PROCESSED, translation')
  <2>1. ASSUME NEW s \in Seq(RightAnswers(translation))
        PROVE  s \in Seq(RightAnswers(translation'))
    <3>1. /\ Len(s) \in Nat /\ s = [i \in 1 .. Len(s) |-> s[i]]
          /\ \A i \in 1 .. Len(s) : s[i] \in RightAnswers(translation')
      BY <1>4, LenProperties, ElementOfSeq
    <3> QED BY <3>1, IsASeq
  <2> QED BY <2>1, <1>2 DEF AnswersOK
<1>7. EntriesOK(entry, translation')
  <2>1. ASSUME NEW c \in L1s, NEW s \in Slots[c]
        PROVE  EntryOK(s, entry[c][s], translation')
    <3>1. EntryOK(s, entry[c][s], translation)
      BY <1>2 DEF EntriesOK
    <3>2. \A e \in Entries : e.page \in Pages
      BY DEF Entries
    <3> QED BY <3>1, <3>2, <1>4 DEF EntryOK
  <2> QED BY <2>1, <1>2 DEF EntriesOK
<1>8. /\ MissesOK(MSHR', translation')
      /\ MSHR["STLB"][p] # None => MSHR'["STLB"][p].returned
      /\ \A q \in Pages \ {p} : MSHR'["STLB"][q] = MSHR["STLB"][q]
  <2>1. Right(p, p, translation')
    BY <1>3 DEF Right
  <2> DEFINE n == return_data(MSHR, {"STLB"}, p, p)
  <2>2. /\ MissesOK(n, translation')
        /\ \A t \in TLBs, q \in Pages :
             IF t \in {"STLB"} /\ q = p /\ MSHR[t][q] # None
             THEN n[t][q] # None /\ n[t][q].returned
             ELSE n[t][q] = MSHR[t][q]
    BY <2>1, <1>5, ReturnKeeps
  <2>3. MSHR' = n
    BY <1>1
  <2> HIDE DEF n
  <2> QED BY <2>2, <2>3, <1>2
<1>9. AskedOK(asked', MSHR')
  <2>1. MSHR["STLB"][p] # None
    BY <1>1, <1>2 DEF AskedOK
  <2> QED BY <2>1, <1>1, <1>2, <1>8 DEF AskedOK
<1>10. IInv'
  BY <1>1, <1>3, <1>5, <1>6, <1>7, <1>8, <1>9 DEF IInv
<1>11. Port!Next
  BY DEF translated, Port!Next
<1> QED BY <1>10, <1>11 DEF PortSteps

\* and dropped preserve the invariant.
LEMMA DroppedKeeps ==
  ASSUME IInv, NEW p \in Pages, dropped(p)
  PROVE  IInv' /\ PortSteps
<1>1. /\ asked[p] \in Port!Droppable /\ asked' = [asked EXCEPT ![p] = None]
      /\ MSHR' = return_data(MSHR, {"STLB"}, p, Dropped)
      /\ UNCHANGED <<entry, tail, RQ, block, PROCESSED, aborted, requests, translation>>
  BY DEF dropped, Port!Drop
<1>2. AskedOK(asked, MSHR) /\ MissesOK(MSHR, translation) /\ "STLB" \in TLBs
  BY DEF IInv, TLBs
<1>3. asked[p] # None
  BY <1>1, Nothing DEF Port!Droppable
<1>4. /\ MissesOK(MSHR', translation)
      /\ MSHR["STLB"][p] # None => MSHR'["STLB"][p].returned
      /\ \A q \in Pages \ {p} : MSHR'["STLB"][q] = MSHR["STLB"][q]
  <2>1. Right(Dropped, p, translation)
    BY DEF Right
  <2> DEFINE n == return_data(MSHR, {"STLB"}, p, Dropped)
  <2>2. /\ MissesOK(n, translation)
        /\ \A t \in TLBs, q \in Pages :
             IF t \in {"STLB"} /\ q = p /\ MSHR[t][q] # None
             THEN n[t][q] # None /\ n[t][q].returned
             ELSE n[t][q] = MSHR[t][q]
    BY <2>1, <1>2, ReturnKeeps
  <2>3. MSHR' = n
    BY <1>1
  <2> HIDE DEF n
  <2> QED BY <2>2, <2>3, <1>2
<1>5. AskedOK(asked', MSHR')
  <2>1. MSHR["STLB"][p] # None
    BY <1>2, <1>3 DEF AskedOK
  <2> QED BY <2>1, <1>1, <1>2, <1>4 DEF AskedOK
<1>6. IInv'
  BY <1>1, <1>4, <1>5 DEF IInv
<1>7. Port!Next
  BY DEF dropped, Port!Next
<1> QED BY <1>6, <1>7 DEF PortSteps

-----------------------------------------------------------------------------
(* Every step *)

\* The invariant holds at first,
LEMMA InitHolds ==
  ASSUME Init
  PROVE  IInv /\ Port!Init
<1>1. EntriesOK(entry, translation)
  BY DEF Init, EntriesOK, EntryOK
<1>2. tail \in [L1s -> Nat] /\ \A c \in L1s : tail[c] \in 1 .. PQ_SIZE[c]
  BY Sizes DEF Init
<1>3. QueuesOK(RQ)
  BY Sizes DEF Init, QueuesOK
<1>4. MissesOK(MSHR, translation)
  <2>1. \A t \in TLBs : Busy(MSHR, t) = {}
    BY DEF Init, Busy
  <2>2. \A t \in TLBs : Cardinality(Busy(MSHR, t)) <= MSHR_SIZE[t]
    BY <2>1, Sizes, FS_EmptySet
  <2>3. MSHR = [t \in TLBs |-> [p \in Pages |-> None]]
    BY DEF Init
  <2> QED BY <2>2, <2>3 DEF MissesOK
<1>5. LinesOK(block, translation)
  <2>1. \A t \in TLBs : Busy(block, t) = {}
    BY DEF Init, Busy
  <2>2. \A t \in TLBs : Cardinality(Busy(block, t)) <= NUM_WAY[t]
    BY <2>1, Sizes, FS_EmptySet
  <2>3. block = [t \in TLBs |-> [p \in Pages |-> None]]
    BY DEF Init
  <2> QED BY <2>2, <2>3 DEF LinesOK
<1>6. AnswersOK(PROCESSED, translation)
  BY Sizes DEF Init, AnswersOK
<1>7. AskedOK(asked, MSHR)
  BY DEF Init, Port!Init, AskedOK, TLBs
<1>8. PagesOK(translation)
  BY DEF Init, Port!Init, PagesOK
<1>9. aborted \in BOOLEAN /\ requests \in 0 .. MaxRequests
  <2>1. aborted = FALSE /\ requests = 0
    BY DEF Init
  <2>2. MaxRequests \in Nat
    BY Sizes
  <2>3. requests \in 0 .. MaxRequests
    BY <2>1, <2>2
  <2> QED BY <2>1, <2>3, Zenon
<1>10. Port!Init
  BY DEF Init
<1> QED BY <1>1, <1>2, <1>3, <1>4, <1>5, <1>6, <1>7, <1>8, <1>9, <1>10
        DEF IInv

\* every step preserves it and is a step of the walker's port or none of its
\* steps,
LEMMA NextKeeps ==
  ASSUME IInv, Next
  PROVE  IInv' /\ PortSteps
<1>1. ASSUME NEW t \in TLBs,
             handle_processed(t) \/ hit(t) \/ miss(t) \/ merge(t)
      PROVE  IInv' /\ PortSteps
  BY <1>1, HandleProcessedKeeps, HitKeeps, MissKeeps, MergeKeeps
<1>2. ASSUME NEW t \in TLBs, NEW p \in Pages, fill(t, p) \/ drop(t, p) \/ ask_again(t, p)
      PROVE  IInv' /\ PortSteps
  BY <1>2, FillKeeps, DropKeeps, AskAgainKeeps
<1>3. ASSUME NEW c \in L1s, NEW s \in Slots[c], use(c, s)
      PROVE  IInv' /\ PortSteps
  BY <1>3, UseKeeps
<1>4. ASSUME NEW p \in Pages, translated(p) \/ dropped(p)
      PROVE  IInv' /\ PortSteps
  BY <1>4, TranslatedKeeps, DroppedKeeps
<1>5. CASE request
  <2>1. "L1I" \in L1s /\ "L1D" \in L1s /\ CodePages \subseteq Pages /\ DataPages \subseteq Pages
    BY QueuesCoverTranslations DEF L1s
  <2>2. \A c \in L1s, p \in Pages : prefetch(c, p) => IInv' /\ PortSteps
    BY PrefetchKeeps
  <2>3. \A c \in L1s, p \in Pages : \A queue : demand(c, queue, p) => IInv' /\ PortSteps
    BY DemandKeeps
  <2> QED BY <1>5, <2>1, <2>2, <2>3 DEF request
<1>6. CASE operate
  BY <1>1, <1>2, <1>3, <1>4, <1>6 DEF operate
<1> QED BY <1>5, <1>6 DEF Next

\* and nothing changes it when nothing happens.
LEMMA NothingKeeps ==
  ASSUME IInv, UNCHANGED vars
  PROVE  IInv' /\ PortSteps
BY DEF IInv, vars, port, PortSteps

-----------------------------------------------------------------------------
(* The theorems *)

\* The inductive invariant holds in every state that the TLBs can be in.
THEOREM TranslationInvariance == Spec => []IInv
<1>1. Init => IInv
  BY InitHolds
<1>2. IInv /\ [Next]_vars => IInv'
  BY NextKeeps, NothingKeeps
<1> QED BY <1>1, <1>2, PTL DEF Spec

\* Every variable of the TLBs has its type, and queues, MSHRs and lines keep to
\* their sizes.
THEOREM TranslationTypes == Spec => []TypeOK
<1>1. ASSUME IInv PROVE TypeOK
  <2>1. ASSUME NEW c \in L1s, NEW s \in Slots[c], entry[c][s] # None
        PROVE  entry[c][s] \in [page : Pages, data : Pages \cup {None, Dropped}]
    BY <1>1, <2>1 DEF IInv, EntriesOK, EntryOK, Entries
  <2>2. ASSUME NEW t \in TLBs
        PROVE  /\ \A i \in DOMAIN RQ[t] : RQ[t][i] \in Packets
               /\ Len(RQ[t]) <= RQ_SIZE[t]
               /\ \A p \in Pages : MSHR[t][p] # None => MSHR[t][p] \in Packets
               /\ Cardinality({p \in Pages : MSHR[t][p] # None}) <= MSHR_SIZE[t]
               /\ block[t] \in [Pages -> Pages \cup {None}]
               /\ Cardinality({p \in Pages : block[t][p] # None}) <= NUM_WAY[t]
               /\ \A i \in DOMAIN PROCESSED[t] : PROCESSED[t][i] \in Answers
               /\ Len(PROCESSED[t]) <= ROB_SIZE
    <3>1. \A i \in DOMAIN RQ[t] : RQ[t][i] \in Packets
      <4>1. RQ[t] \in Seq(Requests)
        BY <1>1 DEF IInv, QueuesOK
      <4>2. \A i \in DOMAIN RQ[t] : RQ[t][i] \in Requests
        BY <4>1
      <4> QED BY <4>2 DEF Requests
    <3>2. \A i \in DOMAIN PROCESSED[t] : PROCESSED[t][i] \in Answers
      <4>1. PROCESSED[t] \in Seq(RightAnswers(translation))
        BY <1>1 DEF IInv, AnswersOK
      <4>2. \A i \in DOMAIN PROCESSED[t] : PROCESSED[t][i] \in RightAnswers(translation)
        BY <4>1
      <4> QED BY <4>2 DEF RightAnswers
    <3>3. Len(RQ[t]) <= RQ_SIZE[t] /\ Len(PROCESSED[t]) <= ROB_SIZE
      BY <1>1 DEF IInv, QueuesOK, AnswersOK
    <3>4. /\ \A p \in Pages : MSHR[t][p] # None => MSHR[t][p] \in Packets
          /\ Cardinality({p \in Pages : MSHR[t][p] # None}) <= MSHR_SIZE[t]
      BY <1>1 DEF IInv, MissesOK, Busy
    <3>5. /\ block[t] \in [Pages -> Pages \cup {None}]
          /\ Cardinality({p \in Pages : block[t][p] # None}) <= NUM_WAY[t]
      BY <1>1 DEF IInv, LinesOK, Busy
    <3> QED BY <3>1, <3>2, <3>3, <3>4, <3>5
  <2>3. /\ \A c \in L1s : tail[c] \in 1 .. PQ_SIZE[c]
        /\ aborted \in BOOLEAN /\ requests \in 0 .. MaxRequests
    BY <1>1 DEF IInv
  <2> QED BY <2>1, <2>2, <2>3 DEF TypeOK
<1> QED BY <1>1, TranslationInvariance, PTL

\* Every translation on its way or held is the one the walker gave the page,
\* and none but a prefetch is told that it has been dropped, however the
\* packets of demands and prefetches have merged (add_rq, handle_read and
\* handle_fill of a TLB, handle_processed of an L1).
THEOREM TranslationsStayRight == Spec => []TranslationsRight
<1>1. ASSUME IInv PROVE TranslationsRight
  <2>1. ASSUME NEW c \in L1s, NEW s \in Slots[c], entry[c][s] # None
        PROVE  /\ entry[c][s].data \in {None, Dropped, translation[entry[c][s].page]}
               /\ entry[c][s].data = Dropped => s[1] = "PQ"
    BY <1>1, <2>1 DEF IInv, EntriesOK, EntryOK, Right
  <2>2. \A t \in TLBs, p \in Pages : block[t][p] \in {None, translation[p]}
    BY <1>1 DEF IInv, LinesOK
  <2> QED BY <2>1, <2>2 DEF TranslationsRight
<1> QED BY <1>1, TranslationInvariance, PTL

\* STLB uses the walker as it is meant to be used: no step asks for a page that
\* has been asked for, not even one that asks again for what was dropped
\* (assert(index == -1) in add_rq of the walker).
THEOREM WalkerAskedOnce == Spec => UsesTranslationPort
<1>1. Init => Port!Init
  BY InitHolds
<1>2. IInv /\ [Next]_vars => [Port!Next]_(Port!vars)
  <2>1. PortSteps => [Port!Next]_(Port!vars)
    BY DEF PortSteps, port, Port!vars
  <2> QED BY <2>1, NextKeeps, NothingKeeps
<1> QED BY <1>1, <1>2, TranslationInvariance, PTL
        DEF Spec, UsesTranslationPort, Port!Spec

-----------------------------------------------------------------------------
(* Packets by their pages *)

\* A read queue holds a page once: Of is its packet of page p.
Once(q) == \A i, j \in DOMAIN q : q[i].page = q[j].page => i = j
Of(q, p) == IF \E i \in DOMAIN q : q[i].page = p
            THEN q[CHOOSE i \in DOMAIN q : q[i].page = p] ELSE None

\* Packets are found by their pages,
LEMMA OfFound ==
  ASSUME NEW q \in Seq(Requests), Once(q)
  PROVE  /\ \A i \in DOMAIN q : Of(q, q[i].page) = q[i]
         /\ \A p : Of(q, p) # None => Of(q, p) \in Requests /\ Of(q, p).page = p
         /\ \A p : Of(q, p) = None <=> \A i \in DOMAIN q : q[i].page # p
<1>1. ASSUME NEW i \in DOMAIN q PROVE Of(q, q[i].page) = q[i]
  <2> DEFINE p == q[i].page
             j == CHOOSE j \in DOMAIN q : q[j].page = p
  <2>1. \E k \in DOMAIN q : q[k].page = p
    OBVIOUS
  <2>2. j \in DOMAIN q /\ q[j].page = p
    BY <2>1
  <2>3. Of(q, p) = q[j]
    BY <2>1 DEF Of
  <2> HIDE DEF j
  <2>4. j = i
    BY <2>2 DEF Once
  <2> QED BY <2>3, <2>4
<1>2. \A i \in DOMAIN q : q[i] \in Requests /\ q[i] # None
  <2>1. \A i \in DOMAIN q : q[i] \in Requests
    OBVIOUS
  <2> QED BY <2>1, Nothing DEF Requests
<1>3. ASSUME NEW p, NEW i \in DOMAIN q, q[i].page = p
      PROVE  Of(q, p) # None /\ Of(q, p) \in Requests /\ Of(q, p).page = p
  BY <1>1, <1>2, <1>3
<1>4. ASSUME NEW p, \A i \in DOMAIN q : q[i].page # p
      PROVE  Of(q, p) = None
  BY <1>4 DEF Of
<1> QED BY <1>1, <1>3, <1>4

\* taken from the queue,
LEMMA OfTaken ==
  ASSUME NEW q \in Seq(Requests), Once(q), q # <<>>
  PROVE  /\ Once(Tail(q)) /\ Of(q, Head(q).page) = Head(q)
         /\ \A p : Of(Tail(q), p) = IF p = Head(q).page THEN None ELSE Of(q, p)
<1> DEFINE w == Tail(q)
           h == Head(q)
           n == Len(q)
<1>1. /\ n \in Nat \ {0} /\ DOMAIN q = 1 .. n /\ w \in Seq(Requests)
      /\ Len(w) = n - 1 /\ DOMAIN w = 1 .. (n - 1) /\ h = q[1]
      /\ \A i \in 1 .. (n - 1) : w[i] = q[i + 1]
  <2>1. w \in Seq(Requests) /\ Len(w) = n - 1 /\ \A i \in 1 .. Len(w) : w[i] = q[i + 1]
    BY HeadTailProperties, Zenon
  <2>2. n \in Nat \ {0} /\ DOMAIN q = 1 .. n
    BY EmptySeq, LenProperties
  <2> QED BY <2>1, <2>2
<1> HIDE DEF w, h, n
<1>2. Once(w)
  <2> SUFFICES ASSUME NEW i \in 1 .. (n - 1), NEW j \in 1 .. (n - 1), w[i].page = w[j].page
               PROVE  i = j
    BY <1>1 DEF Once
  <2>1. i + 1 \in 1 .. n /\ j + 1 \in 1 .. n /\ q[i + 1].page = q[j + 1].page
    BY <1>1
  <2>2. i + 1 = j + 1
    BY <2>1, <1>1 DEF Once
  <2> QED BY <2>2
<1>3. 1 \in 1 .. n
  BY <1>1
<1>4. Of(q, h.page) = h
  BY <1>1, <1>3, OfFound
<1>5. ASSUME NEW p, p # h.page PROVE Of(w, p) = Of(q, p)
  <2>1. CASE \E i \in 1 .. n : q[i].page = p
    <3>1. PICK i \in 1 .. n : q[i].page = p
      BY <2>1
    <3>2. i # 1
      BY <3>1, <1>1, <1>5
    <3>3. i - 1 \in 1 .. (n - 1) /\ w[i - 1] = q[(i - 1) + 1] /\ (i - 1) + 1 = i
      BY <3>2, <1>1
    <3>4. w[i - 1] = q[i]
      BY <3>3
    <3>5. Of(w, w[i - 1].page) = w[i - 1]
      BY <3>3, <1>1, <1>2, OfFound
    <3>6. Of(q, q[i].page) = q[i]
      BY <1>1, OfFound
    <3> QED BY <3>1, <3>4, <3>5, <3>6
  <2>2. CASE \A i \in 1 .. n : q[i].page # p
    <3>1. \A i \in 1 .. (n - 1) : i + 1 \in 1 .. n
      BY <1>1
    <3>2. \A i \in 1 .. (n - 1) : w[i].page # p
      BY <3>1, <2>2, <1>1
    <3> QED BY <3>2, <2>2, <1>1, <1>2, OfFound
  <2> QED BY <2>1, <2>2
<1>6. Of(w, h.page) = None
  <2>1. ASSUME NEW i \in 1 .. (n - 1), w[i].page = h.page PROVE FALSE
    <3>1. i + 1 \in 1 .. n /\ q[i + 1].page = q[1].page
      BY <2>1, <1>1
    <3>2. i + 1 = 1
      BY <3>1, <1>1, <1>3 DEF Once
    <3> QED BY <3>2
  <2> QED BY <2>1, <1>1, <1>2, OfFound
<1> QED BY <1>2, <1>4, <1>5, <1>6 DEF w, h

\* and added to it.
Added(x, t, r) == IF x = None THEN r ELSE MergeRead(x, t, r)

\* A read queue has a packet of the page to merge with, or a free place.
HasRoom(q, t, p) == Queued(q, t, p) # {} \/ Len(q[t]) < RQ_SIZE[t]

\* A packet added to a read queue becomes one with the packet of its page, or
\* finds no room when there is none.
LEMMA OfAdded ==
  ASSUME NEW q, QueuesOK(q), NEW t \in TLBs, NEW r \in Requests, Once(q[t])
  PROVE  /\ \A u \in TLBs : u # t => add_rq(q, t, r)[u] = q[u]
         /\ Once(add_rq(q, t, r)[t])
         /\ \A p : p # r.page => Of(add_rq(q, t, r)[t], p) = Of(q[t], p)
         /\ \/ Of(add_rq(q, t, r)[t], r.page) = Added(Of(q[t], r.page), t, r)
            \/ /\ ~HasRoom(q, t, r.page)
               /\ add_rq(q, t, r) = q
<1> DEFINE w == add_rq(q, t, r)
           Q == Queued(q, t, r.page)
           n == Len(q[t])
<1>0. /\ q \in [TLBs -> Seq(Requests)] /\ q[t] \in Seq(Requests) /\ n \in Nat
      /\ DOMAIN q[t] = 1 .. n
      /\ \A i \in 1 .. n : q[t][i] \in Requests /\ q[t][i].page \in Pages
      /\ QueuesOK(w) /\ w \in [TLBs -> Seq(Requests)] /\ w[t] \in Seq(Requests)
  <2>1. q \in [TLBs -> Seq(Requests)] /\ q[t] \in Seq(Requests)
    BY DEF QueuesOK
  <2>2. n \in Nat /\ DOMAIN q[t] = 1 .. n /\ \A i \in 1 .. n : q[t][i] \in Requests
    BY <2>1, LenProperties, ElementOfSeq
  <2>3. QueuesOK(w)
    BY AddKeeps
  <2>4. w \in [TLBs -> Seq(Requests)]
    BY <2>3 DEF QueuesOK
  <2> QED BY <2>1, <2>2, <2>3, <2>4, PacketFields DEF Requests
<1>1. CASE Q # {}
  <2> DEFINE s == [i \in 1 .. n |-> IF i \in Q THEN MergeRead(q[t][i], t, r)
                                    ELSE q[t][i]]
  <2>1. w = [q EXCEPT ![t] = s]
    BY <1>0, <1>1 DEF add_rq
  <2>2. w[t] = s /\ \A u \in TLBs : u # t => w[u] = q[u]
    BY <2>1, <1>0
  <2>3. \A i \in 1 .. n : i \in Q <=> q[t][i].page = r.page
    BY <1>0 DEF Queued
  <2>4. \A i \in 1 .. n : MergeRead(q[t][i], t, r).page = q[t][i].page
    <3>1. ASSUME NEW e \in Requests PROVE MergeRead(e, t, r).page = e.page
      BY DEF MergeRead, Requests, Packets
    <3> QED BY <3>1, <1>0
  <2>5. /\ DOMAIN s = 1 .. n /\ \A i \in 1 .. n : s[i].page = q[t][i].page
        /\ \A i \in 1 .. n : s[i] = IF q[t][i].page = r.page
                                    THEN MergeRead(q[t][i], t, r) ELSE q[t][i]
    BY <2>3, <2>4
  <2> HIDE DEF s, w
  <2>6. Once(s)
    BY <2>5, <1>0 DEF Once
  <2>7. s \in Seq(Requests)
    BY <2>2, <1>0
  <2>8. ASSUME NEW p, p # r.page PROVE Of(s, p) = Of(q[t], p)
    <3>1. CASE \E i \in 1 .. n : q[t][i].page = p
      <4>1. PICK i \in 1 .. n : q[t][i].page = p
        BY <3>1
      <4>2. s[i] = q[t][i]
        BY <4>1, <2>5, <2>8
      <4>3. Of(s, s[i].page) = s[i]
        BY <2>5, <2>6, <2>7, OfFound
      <4>4. Of(q[t], q[t][i].page) = q[t][i]
        BY <1>0, OfFound
      <4> QED BY <4>1, <4>2, <4>3, <4>4
    <3>2. CASE \A i \in 1 .. n : q[t][i].page # p
      <4>1. Of(q[t], p) = None
        BY <3>2, <1>0, OfFound
      <4>2. \A i \in DOMAIN s : s[i].page # p
        BY <3>2, <2>5
      <4>3. Of(s, p) = None
        BY <4>2, <2>6, <2>7, OfFound
      <4> QED BY <4>1, <4>3
    <3> QED BY <3>1, <3>2
  <2>9. Of(s, r.page) = Added(Of(q[t], r.page), t, r)
    <3>1. PICK i \in 1 .. n : q[t][i].page = r.page
      BY <1>1, <1>0 DEF Queued
    <3>2. s[i] = MergeRead(q[t][i], t, r) /\ s[i].page = r.page
      BY <3>1, <2>5
    <3>3. Of(s, s[i].page) = s[i]
      BY <2>5, <2>6, <2>7, OfFound
    <3>4. Of(q[t], q[t][i].page) = q[t][i] /\ q[t][i] # None
      BY <1>0, OfFound, Nothing DEF Requests
    <3> QED BY <3>1, <3>2, <3>3, <3>4 DEF Added
  <2> QED BY <2>2, <2>6, <2>8, <2>9 DEF w
<1>2. CASE Q = {} /\ n < RQ_SIZE[t]
  <2> DEFINE s == Append(q[t], r)
  <2>1. w = [q EXCEPT ![t] = s]
    BY <1>2 DEF add_rq
  <2>2. w[t] = s /\ \A u \in TLBs : u # t => w[u] = q[u]
    BY <2>1, <1>0
  <2>3. /\ DOMAIN s = 1 .. (n + 1) /\ s[n + 1] = r
        /\ \A i \in 1 .. n : s[i] = q[t][i]
    <3>1. Len(s) = n + 1 /\ \A i \in 1 .. n : s[i] = q[t][i]
      BY <1>0, AppendProperties
    <3>2. s[Len(q[t]) + 1] = r
      BY <1>0, AppendProperties
    <3>3. s \in Seq(Requests)
      BY <1>0
    <3>4. DOMAIN s = 1 .. Len(s)
      BY <3>3, LenProperties
    <3> QED BY <3>1, <3>2, <3>4
  <2>4. \A i \in 1 .. n : q[t][i].page # r.page
    BY <1>0, <1>2 DEF Queued
  <2> HIDE DEF s, w, n
  <2>5. Once(s)
    <3> SUFFICES ASSUME NEW i \in 1 .. (n + 1), NEW j \in 1 .. (n + 1), s[i].page = s[j].page
                 PROVE  i = j
      BY <2>3 DEF Once
    <3>1. CASE i \in 1 .. n /\ j \in 1 .. n
      BY <3>1, <2>3, <1>0 DEF Once
    <3>2. CASE i = n + 1 /\ j = n + 1
      BY <3>2
    <3>3. CASE i = n + 1 /\ j \in 1 .. n
      BY <3>3, <2>3, <2>4
    <3>4. CASE j = n + 1 /\ i \in 1 .. n
      BY <3>4, <2>3, <2>4
    <3> QED BY <3>1, <3>2, <3>3, <3>4, <1>0
  <2>7. s \in Seq(Requests)
    BY <2>2, <1>0
  <2>8. ASSUME NEW p, p # r.page PROVE Of(s, p) = Of(q[t], p)
    <3>1. CASE \E i \in 1 .. n : q[t][i].page = p
      <4>1. PICK i \in 1 .. n : q[t][i].page = p
        BY <3>1
      <4>2. s[i] = q[t][i] /\ i \in 1 .. (n + 1)
        BY <2>3, <1>0
      <4>3. Of(s, s[i].page) = s[i]
        BY <4>2, <2>3, <2>5, <2>7, OfFound
      <4>4. Of(q[t], q[t][i].page) = q[t][i]
        BY <1>0, OfFound
      <4> QED BY <4>1, <4>2, <4>3, <4>4
    <3>2. CASE \A i \in 1 .. n : q[t][i].page # p
      <4>1. Of(q[t], p) = None
        BY <3>2, <1>0, OfFound
      <4>2. ASSUME NEW i \in 1 .. (n + 1) PROVE s[i].page # p
        <5>1. i \in 1 .. n \/ i = n + 1
          BY <1>0
        <5> QED BY <5>1, <3>2, <2>3, <2>8
      <4>3. Of(s, p) = None
        BY <4>2, <2>3, <2>5, <2>7, OfFound
      <4> QED BY <4>1, <4>3
    <3> QED BY <3>1, <3>2
  <2>9. Of(s, r.page) = Added(Of(q[t], r.page), t, r)
    <3>1. n + 1 \in 1 .. (n + 1)
      BY <1>0
    <3>2. Of(s, s[n + 1].page) = s[n + 1]
      BY <3>1, <2>3, <2>5, <2>7, OfFound
    <3>3. Of(q[t], r.page) = None
      BY <2>4, <1>0, OfFound
    <3> QED BY <3>2, <3>3, <2>3 DEF Added
  <2> QED BY <2>2, <2>5, <2>8, <2>9 DEF w
<1>3. CASE Q = {} /\ ~(n < RQ_SIZE[t])
  <2>1. w = q
    BY <1>3 DEF add_rq
  <2> QED BY <2>1, <1>3 DEF HasRoom, w
<1> QED BY <1>1, <1>2, <1>3


\* The TLBs that ask STLB.
UpperTLBs == {"ITLB", "DTLB"}

\* The kinds of packets.  STLB holds demands and prefetches of ITLB and DTLB,
\* and prefetches of L1D (fill 2), which name slots of prefetch queues only;
\* ITLB holds what is for instructions and DTLB demands for data, each with the
\* slot that asked first.
KindOK(t, r) ==
  IF t = "STLB"
  THEN /\ r.fill = 2 => r.type = "TRANSLATION_FROM_L1D" /\ ~r.instruction /\ ~r.both
       /\ "DTLB" \in Receivers(r) => r.type = "LOAD_TRANSLATION"
       /\ r.type = "TRANSLATION_FROM_L1D" => Named(r) # {}
       /\ ForPrefetches(Named(r))
  ELSE /\ r.fill = 1 /\ ~r.both /\ (r.instruction <=> t = "ITLB")
       /\ r.own # None
       /\ t = "DTLB" => r.type = "LOAD_TRANSLATION"

\* The fields of what add_rq makes of two packets,
LEMMA FieldsRead ==
  ASSUME NEW e \in Requests, NEW r \in Requests, NEW t
  PROVE  LET m == MergeRead(e, t, r)
         IN  /\ m \in Requests /\ m.page = e.page /\ m.fill = Least(e.fill, r.fill)
             /\ m.own = e.own /\ m.merged = e.merged \cup ({r.own} \ {None})
             /\ m.both <=> e.both \/ Split(t, e, r)
             /\ m.instruction <=> e.instruction \/ r.instruction
             /\ m.type = IF r.type = "LOAD_TRANSLATION" THEN r.type ELSE e.type
             /\ Named(m) = Named(e) \cup ({r.own} \ {None})
<1> DEFINE m == MergeRead(e, t, r)
           both == e.both \/ Split(t, e, r)
           level == Least(e.fill, r.fill)
           merged == e.merged \cup ({r.own} \ {None})
           type == IF r.type = "LOAD_TRANSLATION" THEN r.type ELSE e.type
           i == e.instruction \/ r.instruction
<1>0. e \in Packets
  BY DEF Requests
<1>1. m = [page |-> e.page, type |-> type, fill |-> level, instruction |-> i,
           both |-> both, own |-> e.own, merged |-> merged,
           returned |-> e.returned, data |-> e.data]
  <2>1. m = [e EXCEPT !.both = both, !.fill = level, !.instruction = i,
                      !.merged = merged, !.type = type]
    BY Zenon DEF MergeRead
  <2> HIDE DEF m, both, level, merged, type, i
  <2> QED BY <1>0, <2>1 DEF Packets
<1>2. m \in Requests
  BY MergeIsRequest
<1>3. /\ m.page = e.page /\ m.own = e.own /\ m.merged = merged /\ m.fill = level
      /\ m.type = type /\ m.both = both /\ m.instruction = i
  <2> HIDE DEF m, both, level, merged, type, i
  <2> QED BY <1>1
<1>4. Named(m) = Named(e) \cup ({r.own} \ {None})
  BY <1>3 DEF Named
<1> HIDE DEF m
<1> QED BY <1>2, <1>3, <1>4 DEF m

\* and of what a miss makes of the one that it joins.
Takes(m, r) == m.type = "TRANSLATION_FROM_L1D" /\ r.type = "LOAD_TRANSLATION"

\* The fields of what a miss makes of the MSHR that it joins.
LEMMA FieldsMiss ==
  ASSUME NEW p \in Pages, NEW tr, NEW m \in Misses(p, tr), NEW r \in Requests,
         r.page = p, NEW t
  PROVE  LET n == MergeMiss(m, t, r)
             i == IF r.fill < m.fill THEN r.instruction ELSE m.instruction
         IN  /\ n \in Misses(p, tr) /\ n.returned = m.returned
             /\ n.fill = Least(m.fill, r.fill)
             /\ Named(n) = Named(m) \cup Named(r)
             /\ Takes(m, r) =>
                  /\ n.own = r.own /\ n.merged = r.merged \cup Named(m)
                  /\ n.type = r.type
                  /\ n.both <=> r.both \/ Split(t, m, r)
                  /\ n.instruction <=> r.instruction \/ i
             /\ ~Takes(m, r) =>
                  /\ n.own = m.own /\ n.merged = m.merged \cup Named(r)
                  /\ n.type = m.type
                  /\ n.both <=> m.both \/ Split(t, m, r)
                  /\ n.instruction <=> i
<1> DEFINE n == MergeMiss(m, t, r)
           level == Least(m.fill, r.fill)
           i == IF r.fill < m.fill THEN r.instruction ELSE m.instruction
<1>0. m \in Packets /\ r \in Packets /\ m.page = p
  BY DEF Requests, Misses
<1>1. n \in Misses(p, tr) /\ n.returned = m.returned
  BY MergeIsMiss
<1>2. CASE Takes(m, r)
  <2>1. /\ n.fill = level /\ n.own = r.own /\ n.merged = r.merged \cup Named(m)
        /\ n.type = r.type /\ n.both = (r.both \/ Split(t, m, r))
        /\ n.instruction = (r.instruction \/ i)
    BY <1>2, <1>0 DEF MergeMiss, Packets, Takes
  <2>2. Named(n) = Named(m) \cup Named(r)
    BY <2>1 DEF Named
  <2> HIDE DEF n, i, level
  <2> QED BY <1>1, <1>2, <2>1, <2>2 DEF n, i, level
<1>3. CASE ~Takes(m, r)
  <2>1. /\ n.fill = level /\ n.own = m.own /\ n.merged = m.merged \cup Named(r)
        /\ n.type = m.type /\ n.both = (m.both \/ Split(t, m, r))
        /\ n.instruction = i
    BY <1>3, <1>0 DEF MergeMiss, Packets, Takes
  <2>2. Named(n) = Named(m) \cup Named(r)
    BY <2>1 DEF Named
  <2> HIDE DEF n, i, level
  <2> QED BY <1>1, <1>3, <2>1, <2>2 DEF n, i, level
<1> QED BY <1>2, <1>3

\* Whom a packet is returned to.
LEMMA Receives ==
  ASSUME NEW r \in Packets, NEW t \in UpperTLBs
  PROVE  t \in Receivers(r) <=>
           r.fill = 1 /\ (r.both \/ (r.instruction <=> t = "ITLB"))
<1>1. r.fill \in {1, 2} /\ r.instruction \in BOOLEAN /\ r.both \in BOOLEAN
  BY PacketFields
<1>2. CASE t = "ITLB"
  BY <1>1, <1>2 DEF Receivers
<1>3. CASE t = "DTLB"
  BY <1>1, <1>3 DEF Receivers
<1> QED BY <1>2, <1>3 DEF UpperTLBs

\* Packets of STLB that merge are returned to all that either is returned to.
LEMMA ReadReceives ==
  ASSUME NEW e \in Requests, NEW r \in Requests, KindOK("STLB", e), KindOK("STLB", r),
         ~r.both, \A t \in UpperTLBs : ~(t \in Receivers(e) /\ t \in Receivers(r)),
         NEW t \in UpperTLBs
  PROVE  t \in Receivers(MergeRead(e, "STLB", r)) <=>
           t \in Receivers(e) \/ t \in Receivers(r)
<1> DEFINE m == MergeRead(e, "STLB", r)
<1>1. e \in Packets /\ r \in Packets /\ m \in Packets
  BY FieldsRead DEF Requests
<1>2. /\ m.fill = Least(e.fill, r.fill)
      /\ m.both <=> e.both \/ Split("STLB", e, r)
      /\ m.instruction <=> e.instruction \/ r.instruction
  BY FieldsRead
<1> HIDE DEF m
<1>3. /\ e.fill \in {1, 2} /\ e.instruction \in BOOLEAN /\ e.both \in BOOLEAN
      /\ r.fill \in {1, 2} /\ r.instruction \in BOOLEAN /\ r.both \in BOOLEAN
      /\ m.instruction \in BOOLEAN /\ m.both \in BOOLEAN
  BY <1>1, PacketFields
<1>4. /\ m.fill = 1 <=> e.fill = 1 \/ r.fill = 1
      /\ Split("STLB", e, r) <=> e.fill = 1 /\ r.fill = 1 /\ e.instruction # r.instruction
  BY <1>2, <1>3 DEF Least, Split
<1>5. /\ e.fill = 2 => ~e.instruction /\ ~e.both
      /\ r.fill = 2 => ~r.instruction /\ ~r.both
  BY DEF KindOK
<1>6. \A u \in UpperTLBs : 
        /\ u \in Receivers(e) <=> e.fill = 1 /\ (e.both \/ (e.instruction <=> u = "ITLB"))
        /\ u \in Receivers(r) <=> r.fill = 1 /\ (r.both \/ (r.instruction <=> u = "ITLB"))
        /\ u \in Receivers(m) <=> m.fill = 1 /\ (m.both \/ (m.instruction <=> u = "ITLB"))
  BY <1>1, Receives
<1>7. "ITLB" \in UpperTLBs /\ "DTLB" \in UpperTLBs /\ "ITLB" # "DTLB"
  BY DEF UpperTLBs
<1> SUFFICES t \in Receivers(m) <=> t \in Receivers(e) \/ t \in Receivers(r)
  BY DEF m
<1>8. CASE e.fill = 1 /\ r.fill = 1
  <2>1. ~e.both
    BY <1>8, <1>6, <1>7, <1>3
  <2>2. e.instruction # r.instruction
    BY <2>1, <1>8, <1>6, <1>7, <1>3
  <2> QED BY <2>1, <2>2, <1>8, <1>2, <1>3, <1>4, <1>6, <1>7
<1>9. CASE ~(e.fill = 1 /\ r.fill = 1)
  BY <1>9, <1>2, <1>3, <1>4, <1>5, <1>6
<1> QED BY <1>8, <1>9

\* and so are those that merge in an MSHR.
LEMMA MissReceives ==
  ASSUME NEW p \in Pages, NEW tr, NEW e \in Misses(p, tr), NEW r \in Requests,
         r.page = p, KindOK("STLB", e), KindOK("STLB", r),
         \A t \in UpperTLBs : ~(t \in Receivers(e) /\ t \in Receivers(r)),
         NEW t \in UpperTLBs
  PROVE  t \in Receivers(MergeMiss(e, "STLB", r)) <=>
           t \in Receivers(e) \/ t \in Receivers(r)
<1> DEFINE m == MergeMiss(e, "STLB", r)
           i == IF r.fill < e.fill THEN r.instruction ELSE e.instruction
<1>1. e \in Packets /\ r \in Packets /\ m \in Packets
  BY FieldsMiss DEF Requests, Misses
<1>2. /\ m.fill = Least(e.fill, r.fill)
      /\ Takes(e, r) => /\ m.both <=> r.both \/ Split("STLB", e, r)
                        /\ m.instruction <=> r.instruction \/ i
      /\ ~Takes(e, r) => /\ m.both <=> e.both \/ Split("STLB", e, r)
                         /\ m.instruction <=> i
  BY FieldsMiss
<1> HIDE DEF m
<1>3. /\ e.fill \in {1, 2} /\ e.instruction \in BOOLEAN /\ e.both \in BOOLEAN
      /\ r.fill \in {1, 2} /\ r.instruction \in BOOLEAN /\ r.both \in BOOLEAN
      /\ m.instruction \in BOOLEAN /\ m.both \in BOOLEAN
      /\ e.type \in {"LOAD_TRANSLATION", "TRANSLATION_FROM_L1D"}
      /\ r.type \in {"LOAD_TRANSLATION", "TRANSLATION_FROM_L1D"}
  BY <1>1, PacketFields
<1>4. /\ m.fill = 1 <=> e.fill = 1 \/ r.fill = 1
      /\ Split("STLB", e, r) <=> e.fill = 1 /\ r.fill = 1 /\ e.instruction # r.instruction
      /\ e.fill = 1 => (i <=> e.instruction)
      /\ e.fill = 2 /\ r.fill = 1 => (i <=> r.instruction)
  BY <1>2, <1>3 DEF Least, Split
<1> HIDE DEF i
<1>5. /\ e.fill = 2 => e.type = "TRANSLATION_FROM_L1D" /\ ~e.instruction /\ ~e.both
      /\ r.fill = 2 => r.type = "TRANSLATION_FROM_L1D" /\ ~r.instruction /\ ~r.both
      /\ "DTLB" \in Receivers(r) => r.type = "LOAD_TRANSLATION"
      /\ "DTLB" \in Receivers(e) => e.type = "LOAD_TRANSLATION"
  BY DEF KindOK
<1>6. \A u \in UpperTLBs :
        /\ u \in Receivers(e) <=> e.fill = 1 /\ (e.both \/ (e.instruction <=> u = "ITLB"))
        /\ u \in Receivers(r) <=> r.fill = 1 /\ (r.both \/ (r.instruction <=> u = "ITLB"))
        /\ u \in Receivers(m) <=> m.fill = 1 /\ (m.both \/ (m.instruction <=> u = "ITLB"))
  BY <1>1, Receives
<1>7. "ITLB" \in UpperTLBs /\ "DTLB" \in UpperTLBs /\ "ITLB" # "DTLB"
  BY DEF UpperTLBs
<1> SUFFICES t \in Receivers(m) <=> t \in Receivers(e) \/ t \in Receivers(r)
  BY DEF m
<1>8. CASE e.fill = 1 /\ r.fill = 1
  <2>1. ~e.both /\ ~r.both
    BY <1>8, <1>6, <1>7, <1>3
  <2>2. e.instruction # r.instruction
    BY <2>1, <1>8, <1>6, <1>7, <1>3
  <2> QED BY <2>1, <2>2, <1>8, <1>2, <1>3, <1>4, <1>6, <1>7
<1>9. CASE e.fill = 1 /\ r.fill = 2
  <2>1. ~Takes(e, r)
    BY <1>9, <1>5 DEF Takes
  <2> QED BY <2>1, <1>9, <1>2, <1>3, <1>4, <1>5, <1>6
<1>10. CASE e.fill = 2 /\ r.fill = 1
  <2>1. ~Takes(e, r) => ~r.both
    BY <1>10, <1>3, <1>5, <1>6, <1>7 DEF Takes
  <2>2. e.fill # 1 /\ r.fill # 2
    BY <1>10
  <2>3. m.both <=> r.both
    BY <2>1, <2>2, <1>2, <1>3, <1>4, <1>5, <1>10
  <2>4. m.instruction <=> r.instruction
    BY <1>2, <1>3, <1>4, <1>10
  <2> QED BY <2>2, <2>3, <2>4, <1>10, <1>4, <1>6
<1>11. CASE e.fill = 2 /\ r.fill = 2
  BY <1>11, <1>4, <1>6
<1> QED BY <1>3, <1>8, <1>9, <1>10, <1>11


\* Packets of a kind that merge are of that kind.
LEMMA ReadKind ==
  ASSUME NEW t \in TLBs, NEW e \in Requests, NEW r \in Requests,
         KindOK(t, e), KindOK(t, r)
  PROVE  KindOK(t, MergeRead(e, t, r))
<1> DEFINE m == MergeRead(e, t, r)
<1>1. /\ m \in Requests /\ m.fill = Least(e.fill, r.fill)
      /\ m.own = e.own
      /\ m.both <=> e.both \/ Split(t, e, r)
      /\ m.instruction <=> e.instruction \/ r.instruction
      /\ m.type = IF r.type = "LOAD_TRANSLATION" THEN r.type ELSE e.type
      /\ Named(m) = Named(e) \cup ({r.own} \ {None})
  BY FieldsRead
<1> HIDE DEF m
<1>2. e \in Packets /\ r \in Packets /\ m \in Packets
  BY <1>1 DEF Requests
<1>3. /\ e.fill \in {1, 2} /\ e.instruction \in BOOLEAN /\ e.both \in BOOLEAN
      /\ r.fill \in {1, 2} /\ r.instruction \in BOOLEAN /\ r.both \in BOOLEAN
      /\ m.fill \in {1, 2} /\ m.instruction \in BOOLEAN /\ m.both \in BOOLEAN
      /\ e.type \in {"LOAD_TRANSLATION", "TRANSLATION_FROM_L1D"}
      /\ r.type \in {"LOAD_TRANSLATION", "TRANSLATION_FROM_L1D"}
  BY <1>2, PacketFields
<1>4. /\ m.fill = 1 <=> e.fill = 1 \/ r.fill = 1
      /\ Split(t, e, r) <=> t = "STLB" /\ e.fill = 1 /\ r.fill = 1 /\ e.instruction # r.instruction
  BY <1>1, <1>3 DEF Least, Split
<1>5. CASE t = "STLB"
  <2>1. /\ e.fill = 2 => e.type = "TRANSLATION_FROM_L1D" /\ ~e.instruction /\ ~e.both
        /\ r.fill = 2 => r.type = "TRANSLATION_FROM_L1D" /\ ~r.instruction /\ ~r.both
        /\ "DTLB" \in Receivers(r) => r.type = "LOAD_TRANSLATION"
        /\ "DTLB" \in Receivers(e) => e.type = "LOAD_TRANSLATION"
        /\ e.type = "TRANSLATION_FROM_L1D" => Named(e) # {}
        /\ ForPrefetches(Named(e)) /\ ForPrefetches(Named(r))
    BY <1>5 DEF KindOK
  <2>2. /\ "DTLB" \in Receivers(e) <=> e.fill = 1 /\ (e.both \/ ~e.instruction)
        /\ "DTLB" \in Receivers(r) <=> r.fill = 1 /\ (r.both \/ ~r.instruction)
        /\ "DTLB" \in Receivers(m) <=> m.fill = 1 /\ (m.both \/ ~m.instruction)
    <3>1. "DTLB" \in UpperTLBs /\ "DTLB" # "ITLB"
      BY DEF UpperTLBs
    <3> QED BY <3>1, <1>2, <1>3, Receives
  <2>3. m.fill = 2 => e.fill = 2 /\ r.fill = 2
    BY <1>3, <1>4
  <2>4. m.fill = 2 => m.type = "TRANSLATION_FROM_L1D" /\ ~m.instruction /\ ~m.both
    BY <1>1, <1>3, <1>4, <2>1, <2>3
  <2>5. "DTLB" \in Receivers(m) => m.type = "LOAD_TRANSLATION"
    <3>1. "DTLB" \in Receivers(m) => "DTLB" \in Receivers(e) \/ "DTLB" \in Receivers(r)
      BY <1>1, <1>3, <1>4, <2>1, <2>2
    <3> QED BY <3>1, <1>1, <2>1
  <2>6. m.type = "TRANSLATION_FROM_L1D" => Named(m) # {}
    BY <1>1, <2>1
  <2>7. ForPrefetches(Named(m))
    BY <1>1, <2>1 DEF ForPrefetches, Named
  <2> QED BY <1>5, <2>4, <2>5, <2>6, <2>7 DEF KindOK, m
<1>6. CASE t # "STLB"
  <2>1. /\ e.fill = 1 /\ ~e.both /\ (e.instruction <=> t = "ITLB") /\ e.own # None
        /\ r.fill = 1 /\ ~r.both /\ (r.instruction <=> t = "ITLB")
        /\ t = "DTLB" => e.type = "LOAD_TRANSLATION" /\ r.type = "LOAD_TRANSLATION"
    BY <1>6 DEF KindOK
  <2>2. /\ m.fill = 1 /\ ~m.both /\ (m.instruction <=> t = "ITLB") /\ m.own # None
        /\ t = "DTLB" => m.type = "LOAD_TRANSLATION"
    BY <2>1, <1>1, <1>3, <1>4, <1>6
  <2> QED BY <1>6, <2>2 DEF KindOK, m
<1> QED BY <1>5, <1>6

\* and so are those that merge in an MSHR.
LEMMA MissKind ==
  ASSUME NEW t \in TLBs, NEW p \in Pages, NEW tr, NEW e \in Misses(p, tr),
         NEW r \in Requests, r.page = p, KindOK(t, e), KindOK(t, r)
  PROVE  KindOK(t, MergeMiss(e, t, r))
<1> DEFINE m == MergeMiss(e, t, r)
           i == IF r.fill < e.fill THEN r.instruction ELSE e.instruction
<1>1. /\ m \in Misses(p, tr) /\ m.fill = Least(e.fill, r.fill)
      /\ Named(m) = Named(e) \cup Named(r)
      /\ Takes(e, r) => /\ m.own = r.own /\ m.type = r.type
                        /\ m.both <=> r.both \/ Split(t, e, r)
                        /\ m.instruction <=> r.instruction \/ i
      /\ ~Takes(e, r) => /\ m.own = e.own /\ m.type = e.type
                         /\ m.both <=> e.both \/ Split(t, e, r)
                         /\ m.instruction <=> i
  BY FieldsMiss
<1> HIDE DEF m
<1>2. e \in Packets /\ r \in Packets /\ m \in Packets
  BY <1>1 DEF Requests, Misses
<1>3. /\ e.fill \in {1, 2} /\ e.instruction \in BOOLEAN /\ e.both \in BOOLEAN
      /\ r.fill \in {1, 2} /\ r.instruction \in BOOLEAN /\ r.both \in BOOLEAN
      /\ m.fill \in {1, 2} /\ m.instruction \in BOOLEAN /\ m.both \in BOOLEAN
      /\ e.type \in {"LOAD_TRANSLATION", "TRANSLATION_FROM_L1D"}
      /\ r.type \in {"LOAD_TRANSLATION", "TRANSLATION_FROM_L1D"}
  BY <1>2, PacketFields
<1>4. /\ m.fill = 1 <=> e.fill = 1 \/ r.fill = 1
      /\ Split(t, e, r) <=> t = "STLB" /\ e.fill = 1 /\ r.fill = 1 /\ e.instruction # r.instruction
      /\ e.fill = 1 => (i <=> e.instruction)
      /\ e.fill = 2 /\ r.fill = 1 => (i <=> r.instruction)
      /\ r.fill = 2 => (i <=> e.instruction)
  BY <1>1, <1>3 DEF Least, Split
<1> HIDE DEF i
<1>5. CASE t = "STLB"
  <2>1. /\ e.fill = 2 => e.type = "TRANSLATION_FROM_L1D" /\ ~e.instruction /\ ~e.both
        /\ r.fill = 2 => r.type = "TRANSLATION_FROM_L1D" /\ ~r.instruction /\ ~r.both
        /\ "DTLB" \in Receivers(r) => r.type = "LOAD_TRANSLATION"
        /\ "DTLB" \in Receivers(e) => e.type = "LOAD_TRANSLATION"
        /\ e.type = "TRANSLATION_FROM_L1D" => Named(e) # {}
        /\ ForPrefetches(Named(e)) /\ ForPrefetches(Named(r))
    BY <1>5 DEF KindOK
  <2>2. /\ "DTLB" \in Receivers(e) <=> e.fill = 1 /\ (e.both \/ ~e.instruction)
        /\ "DTLB" \in Receivers(r) <=> r.fill = 1 /\ (r.both \/ ~r.instruction)
        /\ "DTLB" \in Receivers(m) <=> m.fill = 1 /\ (m.both \/ ~m.instruction)
    <3>1. "DTLB" \in UpperTLBs /\ "DTLB" # "ITLB"
      BY DEF UpperTLBs
    <3> QED BY <3>1, <1>2, <1>3, Receives
  <2>3. Takes(e, r) => r.fill = 1 /\ m.type = "LOAD_TRANSLATION"
    BY <1>1, <1>3, <2>1 DEF Takes
  <2>4. m.fill = 2 => m.type = "TRANSLATION_FROM_L1D" /\ ~m.instruction /\ ~m.both
    <3>1. m.fill = 2 => e.fill = 2 /\ r.fill = 2 /\ ~Takes(e, r)
      BY <1>3, <1>4, <2>3
    <3> QED BY <3>1, <1>1, <1>3, <1>4, <2>1
  <2>5. "DTLB" \in Receivers(m) => m.type = "LOAD_TRANSLATION"
    <3>1. ASSUME ~Takes(e, r), "DTLB" \in Receivers(m)
          PROVE  m.type = "LOAD_TRANSLATION"
      <4>1. m.fill = 1 /\ (m.both \/ ~m.instruction) /\ m.type = e.type
            /\ (m.both <=> e.both \/ Split(t, e, r)) /\ (m.instruction <=> i)
        BY <3>1, <1>1, <2>2
      <4>2. "DTLB" \in Receivers(e) \/ "DTLB" \in Receivers(r)
        BY <4>1, <1>3, <1>4, <2>1, <2>2
      <4>3. e.type = "LOAD_TRANSLATION" \/ r.type = "LOAD_TRANSLATION"
        BY <4>2, <2>1
      <4> QED BY <4>1, <4>3, <3>1, <1>3 DEF Takes
    <3> QED BY <3>1, <2>3
  <2>6. m.type = "TRANSLATION_FROM_L1D" => Named(m) # {}
    BY <1>1, <2>1, <2>3
  <2>7. ForPrefetches(Named(m))
    BY <1>1, <2>1 DEF ForPrefetches
  <2> QED BY <1>5, <2>4, <2>5, <2>6, <2>7 DEF KindOK, m
<1>6. CASE t # "STLB"
  <2>1. /\ e.fill = 1 /\ ~e.both /\ (e.instruction <=> t = "ITLB") /\ e.own # None
        /\ r.fill = 1 /\ ~r.both /\ (r.instruction <=> t = "ITLB") /\ r.own # None
        /\ t = "DTLB" => e.type = "LOAD_TRANSLATION" /\ r.type = "LOAD_TRANSLATION"
    BY <1>6 DEF KindOK
  <2>2. /\ m.fill = 1 /\ m.own # None
        /\ t = "DTLB" => m.type = "LOAD_TRANSLATION"
    BY <2>1, <1>1, <1>4
  <2>3. ~m.both /\ (m.instruction <=> t = "ITLB")
    BY <2>1, <1>1, <1>3, <1>4, <1>6
  <2> QED BY <1>6, <2>2, <2>3 DEF KindOK, m
<1> QED BY <1>5, <1>6

\* What ITLB or DTLB sends to STLB.
LEMMA DownKind ==
  ASSUME NEW t \in UpperTLBs, NEW r \in Packets, Asks(r), KindOK(t, r)
  PROVE  /\ Down(r) \in Requests /\ Down(r).page = r.page
         /\ KindOK("STLB", Down(r)) /\ ~Down(r).both
         /\ Down(r).fill = 1 /\ (Down(r).instruction <=> r.instruction)
         /\ Down(r).type = r.type
         /\ r.type = "TRANSLATION_FROM_L1D" => Down(r).own # None
         /\ \A u \in UpperTLBs : u \in Receivers(Down(r)) <=> u = t
<1> DEFINE d == Down(r)
           own == IF r.own \in {"PQ"} \X Nat THEN r.own ELSE None
           merged == {s \in r.merged : s[1] = "PQ"}
<1>0. d \in Requests /\ d.page = r.page
  BY DownIsRequest
<1>1. /\ d.type = r.type /\ d.fill = r.fill /\ d.instruction = r.instruction
      /\ d.both = r.both /\ d.own = own /\ d.merged = merged
  BY DEF Down, Packets
<1>2. ForPrefetches(Named(d))
  <2>1. own # None => own[1] = "PQ"
    OBVIOUS
  <2>2. Named(d) = merged \cup ({own} \ {None})
    BY <1>1 DEF Named
  <2> QED BY <2>1, <2>2 DEF ForPrefetches
<1>3. /\ t # "STLB" /\ r.fill = 1 /\ ~r.both /\ (r.instruction <=> t = "ITLB")
      /\ r.own # None /\ (t = "DTLB" => r.type = "LOAD_TRANSLATION")
  BY DEF KindOK, UpperTLBs
<1>4. r.type = "TRANSLATION_FROM_L1D" => own # None
  <2>1. ASSUME r.type = "TRANSLATION_FROM_L1D" PROVE own = r.own
    <3>1. r.own \in Named(r)
      BY <1>3 DEF Named
    <3>2. r.own[1] = "PQ"
      BY <2>1, <3>1 DEF Asks, ForPrefetches
    <3>3. r.own \in AllSlots
      BY <1>3, PacketFields
    <3>4. \A s \in AllSlots : s[1] = "PQ" => s \in {"PQ"} \X Nat
      BY DEF AllSlots, Slots
    <3> QED BY <3>2, <3>3, <3>4
  <2> QED BY <2>1, <1>3
<1>5. \A u \in UpperTLBs : u \in Receivers(d) <=> u = t
  <2>1. d \in Packets
    BY <1>0 DEF Requests
  <2>2. \A u \in UpperTLBs : u \in Receivers(d) <=>
           d.fill = 1 /\ (d.both \/ (d.instruction <=> u = "ITLB"))
    BY <2>1, Receives
  <2>3. r.instruction \in BOOLEAN
    BY PacketFields
  <2> QED BY <2>2, <2>3, <1>1, <1>3 DEF UpperTLBs
<1>6. KindOK("STLB", d)
  <2>1. d.fill # 2
    BY <1>1, <1>3
  <2>2. "DTLB" \in Receivers(d) => d.type = "LOAD_TRANSLATION"
    BY <1>1, <1>3, <1>5 DEF UpperTLBs
  <2>3. d.type = "TRANSLATION_FROM_L1D" => Named(d) # {}
    BY <1>1, <1>4 DEF Named
  <2> QED BY <2>1, <2>2, <2>3, <1>2 DEF KindOK
<1> QED BY <1>0, <1>1, <1>3, <1>4, <1>5, <1>6

\* Packets that differ only in the answer.
Alike(x, y) ==
  /\ y.page = x.page /\ y.type = x.type /\ y.fill = x.fill /\ y.both = x.both
  /\ y.instruction = x.instruction /\ y.own = x.own /\ y.merged = x.merged

\* They name the same slots, are returned to the same TLBs, and are of a kind.
LEMMA AlikeSame ==
  ASSUME NEW x, NEW y, Alike(x, y)
  PROVE  /\ Named(y) = Named(x) /\ Receivers(y) = Receivers(x)
         /\ \A t : KindOK(t, x) => KindOK(t, y)
BY DEF Alike, Named, Receivers, KindOK


-----------------------------------------------------------------------------
(* What a step does to the packets and the slots *)

\* Every page is in a read queue once, and all packets are of their kinds.
Onces(q) == \A t \in TLBs : Once(q[t])
IsKind(t, x) == x = None \/ KindOK(t, x)
KindsOK ==
  /\ Onces(RQ)
  /\ \A t \in TLBs, p \in Pages : IsKind(t, Of(RQ[t], p)) /\ IsKind(t, MSHR[t][p])
  /\ \A i \in DOMAIN PROCESSED["STLB"] : ForPrefetches(Named(PROCESSED["STLB"][i]))

\* The page whose translation a slot waits for.
Wants(c, s) == IF Waits(c, s) THEN entry[c][s].page ELSE None

\* What a step does to the read queues: t takes its request for page p,
Took(t, p) ==
  \A u \in TLBs, x \in Pages :
    Of(RQ'[u], x) = IF u = t /\ x = p THEN None ELSE Of(RQ[u], x)
\* t gets the request r for page p,
Got(t, p, r) ==
  \A u \in TLBs, x \in Pages :
    Of(RQ'[u], x) = IF u = t /\ x = p THEN Added(Of(RQ[u], x), t, r) ELSE Of(RQ[u], x)
\* or t takes its request for page p and STLB, if it has room, gets r.
Passed(t, p, r) ==
  /\ \A u \in TLBs, x \in Pages : ~(u = "STLB" /\ x = p) =>
       Of(RQ'[u], x) = IF u = t /\ x = p THEN None ELSE Of(RQ[u], x)
  /\ \/ Of(RQ'["STLB"], p) = Added(Of(RQ["STLB"], p), "STLB", r)
     \/ Of(RQ'["STLB"], p) = Of(RQ["STLB"], p) /\ ~HasRoom(RQ, "STLB", p)

\* What it does to the MSHRs: p is answered in the TLBs in S,
Returned(S, p) ==
  \A u \in TLBs, x \in Pages :
    IF u \in S /\ x = p /\ MSHR[u][x] # None
    THEN MSHR'[u][x] # None /\ Alike(MSHR[u][x], MSHR'[u][x]) /\ MSHR'[u][x].returned
    ELSE MSHR'[u][x] = MSHR[u][x]
\* or so, and given up in t.
Freed(S, t, p) ==
  \A u \in TLBs, x \in Pages :
    IF u = t /\ x = p THEN MSHR'[u][x] = None
    ELSE IF u \in S /\ x = p /\ MSHR[u][x] # None
    THEN MSHR'[u][x] # None /\ Alike(MSHR[u][x], MSHR'[u][x]) /\ MSHR'[u][x].returned
    ELSE MSHR'[u][x] = MSHR[u][x]
\* or changed in t.
Put(t, p, y) ==
  \A u \in TLBs, x \in Pages : MSHR'[u][x] = IF u = t /\ x = p THEN y ELSE MSHR[u][x]

\* What it does to the slots: s is to have the translation of p.
Asked(c, s, p) ==
  \A d \in L1s : \A u \in Slots[d] :
    Wants(d, u)' = IF d = c /\ u = s THEN p ELSE Wants(d, u)

\* Queue t without its next request.
Rest(q, t) == [q EXCEPT ![t] = Tail(@)]

\* Taking the next request leaves all other packets where they are,
LEMMA TakeView ==
  ASSUME NEW q, QueuesOK(q), Onces(q), NEW t \in TLBs, q[t] # <<>>
  PROVE  /\ Head(q[t]) \in Requests /\ Head(q[t]).page \in Pages
         /\ Of(q[t], Head(q[t]).page) = Head(q[t])
         /\ QueuesOK(Rest(q, t)) /\ Onces(Rest(q, t))
         /\ \A u \in TLBs : u # t => Rest(q, t)[u] = q[u]
         /\ \A u \in TLBs, x \in Pages :
              Of(Rest(q, t)[u], x) = IF u = t /\ x = Head(q[t]).page THEN None ELSE Of(q[u], x)
<1> DEFINE w == Rest(q, t)
<1>1. Head(q[t]) \in Requests /\ QueuesOK(w)
  BY TakeKeeps DEF Rest
<1>2. Head(q[t]).page \in Pages
  BY <1>1, PacketFields DEF Requests
<1>3. q \in [TLBs -> Seq(Requests)] /\ q[t] \in Seq(Requests) /\ Once(q[t])
  BY DEF QueuesOK, Onces
<1>4. w[t] = Tail(q[t]) /\ \A u \in TLBs : u # t => w[u] = q[u]
  BY <1>3 DEF Rest
<1> HIDE DEF w
<1>5. /\ Once(Tail(q[t])) /\ Of(q[t], Head(q[t]).page) = Head(q[t])
      /\ \A p : Of(Tail(q[t]), p) = IF p = Head(q[t]).page THEN None ELSE Of(q[t], p)
  BY <1>3, OfTaken
<1>6. Onces(w)
  BY <1>4, <1>5 DEF Onces
<1>7. ASSUME NEW u \in TLBs, NEW x \in Pages
      PROVE  Of(w[u], x) = IF u = t /\ x = Head(q[t]).page THEN None ELSE Of(q[u], x)
  <2>1. CASE u = t
    BY <2>1, <1>4, <1>5
  <2>2. CASE u # t
    BY <2>2, <1>4
  <2> QED BY <2>1, <2>2
<1> QED BY <1>1, <1>2, <1>4, <1>5, <1>6, <1>7 DEF w

\* adding one changes the packet of its page only,
LEMMA AddView ==
  ASSUME NEW q, QueuesOK(q), Onces(q), NEW t \in TLBs, NEW r \in Requests
  PROVE  LET w == add_rq(q, t, r)
         IN  /\ QueuesOK(w) /\ Onces(w)
             /\ \A u \in TLBs, x \in Pages : ~(u = t /\ x = r.page) => Of(w[u], x) = Of(q[u], x)
             /\ \/ Of(w[t], r.page) = Added(Of(q[t], r.page), t, r)
                \/ Of(w[t], r.page) = Of(q[t], r.page) /\ ~HasRoom(q, t, r.page)
<1> DEFINE w == add_rq(q, t, r)
<1>1. Once(q[t])
  BY DEF Onces
<1>2. /\ \A u \in TLBs : u # t => w[u] = q[u]
      /\ Once(w[t])
      /\ \A p : p # r.page => Of(w[t], p) = Of(q[t], p)
      /\ \/ Of(w[t], r.page) = Added(Of(q[t], r.page), t, r)
         \/ ~HasRoom(q, t, r.page) /\ w = q
  BY <1>1, OfAdded
<1>3. QueuesOK(w)
  BY AddKeeps
<1> HIDE DEF w
<1>4. Onces(w)
  BY <1>2 DEF Onces
<1>5. ASSUME NEW u \in TLBs, NEW x \in Pages, ~(u = t /\ x = r.page)
      PROVE  Of(w[u], x) = Of(q[u], x)
  <2>1. CASE u = t
    BY <2>1, <1>2, <1>5
  <2>2. CASE u # t
    BY <2>2, <1>2
  <2> QED BY <2>1, <2>2
<1>6. \/ Of(w[t], r.page) = Added(Of(q[t], r.page), t, r)
      \/ Of(w[t], r.page) = Of(q[t], r.page) /\ ~HasRoom(q, t, r.page)
  BY <1>2
<1> QED BY <1>3, <1>4, <1>5, <1>6 DEF w

\* and return_data changes the MSHRs of the page in the TLBs of S only.
LEMMA ReturnView ==
  ASSUME NEW m, NEW tr, MissesOK(m, tr), NEW S, NEW p \in Pages,
         NEW d \in Pages \cup {None, Dropped}, NEW u \in TLBs, NEW x \in Pages
  PROVE  LET n == return_data(m, S, p, d)
         IN  IF u \in S /\ x = p /\ m[u][x] # None
             THEN n[u][x] # None /\ Alike(m[u][x], n[u][x]) /\ n[u][x].returned
             ELSE n[u][x] = m[u][x]
<1> DEFINE n == return_data(m, S, p, d)
           y == [m[u][p] EXCEPT !.returned = TRUE, !.data = d]
<1>1. m \in [TLBs -> [Pages -> Packets \cup {None}]]
  BY DEF MissesOK
<1>2. n[u][x] = IF u \in S /\ x = p /\ m[u][x] # None THEN y ELSE m[u][x]
  BY <1>1 DEF return_data
<1>3. ASSUME m[u][p] # None PROVE y # None /\ Alike(m[u][p], y) /\ y.returned
  <2>1. m[u][p] \in Packets
    BY <1>1, <1>3
  <2>2. Alike(m[u][p], y) /\ y.returned /\ y \in Packets
    BY <2>1 DEF Packets, Alike
  <2> QED BY <2>2, Nothing
<1> HIDE DEF n, y
<1> QED BY <1>2, <1>3 DEF n

\* PROCESSED when t gives the answers of packets, and has room.
GaveOK(t, packets) ==
  \/ /\ PROCESSED'[t] = PROCESSED[t] \o packets
     /\ \A u \in TLBs \ {t} : PROCESSED'[u] = PROCESSED[u]
  \/ PROCESSED' = PROCESSED /\ Len(PROCESSED[t] \o packets) > ROB_SIZE

\* PROCESSED takes all of the answers, or none when there is no room for them.
LEMMA GiveView ==
  ASSUME AnswersOK(PROCESSED, translation), NEW t \in TLBs, NEW packets,
         packets \in Seq(Answers),
         PROCESSED' = Processed(t, packets)
  PROVE  GaveOK(t, packets)
<1>1. PROCESSED = [u \in TLBs |-> PROCESSED[u]] /\ PROCESSED[t] \in Seq(RightAnswers(translation))
  BY DEF AnswersOK
<1>2. PROCESSED[t] \in Seq(Answers)
  <2>1. RightAnswers(translation) \subseteq Answers
    BY DEF RightAnswers
  <2>2. PROCESSED[t] \in [1 .. Len(PROCESSED[t]) -> Answers] /\ Len(PROCESSED[t]) \in Nat
    BY <1>1, <2>1, LenProperties
  <2> QED BY <2>2, SeqDef
<1>3. Len(PROCESSED[t] \o packets) \in Nat
  BY <1>2, ConcatProperties
<1>4. CASE Len(PROCESSED[t] \o packets) <= ROB_SIZE
  <2>1. PROCESSED' = [PROCESSED EXCEPT ![t] = PROCESSED[t] \o packets]
    BY <1>4 DEF Processed
  <2> QED BY <2>1, <1>1 DEF GaveOK
<1>5. CASE ~(Len(PROCESSED[t] \o packets) <= ROB_SIZE)
  <2>1. PROCESSED' = [PROCESSED EXCEPT ![t] = PROCESSED[t]]
    BY <1>5 DEF Processed
  <2>2. PROCESSED' = PROCESSED
    BY <2>1, <1>1
  <2>3. ROB_SIZE \in Nat
    BY Sizes
  <2> HIDE DEF Processed
  <2>4. Len(PROCESSED[t] \o packets) > ROB_SIZE
    BY <1>3, <1>5, <2>3
  <2> QED BY <2>2, <2>4 DEF GaveOK
<1> QED BY <1>4, <1>5


\* A slot that is taken waits for its page.
LEMMA WantsTaken ==
  ASSUME IInv, NEW c \in L1s, NEW s \in Slots[c], NEW p \in Pages, Take(c, s, p)
  PROVE  Asked(c, s, p)
<1> DEFINE x == [page |-> p, data |-> None]
<1>1. entry' = [entry EXCEPT ![c][s] = x] /\ EntriesOK(entry, translation)
  BY DEF Take, IInv
<1>2. x # None /\ x.page = p /\ x.data = None
  <2>1. x \in Entries
    BY DEF Entries
  <2> QED BY <2>1, Nothing
<1> HIDE DEF x
<1>3. ASSUME NEW d \in L1s, NEW u \in Slots[d]
      PROVE  entry'[d][u] = IF d = c /\ u = s THEN x ELSE entry[d][u]
  BY <1>1 DEF EntriesOK
<1>4. ASSUME NEW d \in L1s, NEW u \in Slots[d]
      PROVE  Wants(d, u)' = IF d = c /\ u = s THEN p ELSE Wants(d, u)
  BY <1>2, <1>3 DEF Wants, Waits
<1> QED BY <1>4 DEF Asked

\* What demand does to the packets and the slots,
LEMMA DemandView ==
  ASSUME IInv, Onces(RQ), NEW c \in L1s, NEW queue, NEW p \in Pages,
         demand(c, queue, p)
  PROVE  \E s \in Slots[c] :
           LET r == Packet(p, "LOAD_TRANSLATION", 1, c = "L1I", s)
           IN  /\ s[1] = queue /\ entry[c][s] = None /\ Asked(c, s, p)
               /\ r \in Requests /\ Onces(RQ') /\ Got(Translator[c], p, r)
               /\ UNCHANGED <<MSHR, PROCESSED, aborted>>
<1>1. PICK s \in Free(c, queue) :
        /\ Take(c, s, p)
        /\ RQ' = add_rq(RQ, Translator[c], Packet(p, "LOAD_TRANSLATION", 1, c = "L1I", s))
  BY DEF demand
<1> DEFINE r == Packet(p, "LOAD_TRANSLATION", 1, c = "L1I", s)
           t == Translator[c]
<1>2. s \in Slots[c] /\ s \in AllSlots /\ s[1] = queue /\ entry[c][s] = None
  BY SlotFacts DEF Free
<1>3. t \in TLBs /\ (c = "L1I") \in BOOLEAN /\ Len(RQ[t]) < RQ_SIZE[t]
  BY DEF L1s, Translator, TLBs, demand
<1>4. r \in Requests
  BY <1>2, <1>3, SentIsRequest
<1>5. r.page = p
  BY DEF Packet
<1>6. RQ' = add_rq(RQ, t, r) /\ QueuesOK(RQ)
  BY <1>1 DEF IInv
<1> HIDE DEF r, t
<1>7. HasRoom(RQ, t, r.page)
  BY <1>3 DEF HasRoom
<1>8. /\ Onces(RQ')
      /\ \A u \in TLBs, x \in Pages : ~(u = t /\ x = p) => Of(RQ'[u], x) = Of(RQ[u], x)
      /\ Of(RQ'[t], p) = Added(Of(RQ[t], p), t, r)
  BY <1>3, <1>4, <1>5, <1>6, <1>7, AddView
<1>9. Got(t, p, r)
  BY <1>8 DEF Got
<1>10. UNCHANGED <<MSHR, PROCESSED, aborted>>
  BY DEF demand
<1>11. Asked(c, s, p)
  BY <1>1, <1>2, WantsTaken
<1> QED BY <1>2, <1>4, <1>8, <1>9, <1>10, <1>11 DEF r, t

\* Whom the prefetches of an L1 ask.
Below(c) == IF c = "L1I" THEN "ITLB" ELSE "STLB"

\* prefetch,
LEMMA PrefetchView ==
  ASSUME IInv, Onces(RQ), NEW c \in L1s, NEW p \in Pages, prefetch(c, p)
  PROVE  \E s \in Slots[c] :
           LET r == Packet(p, "TRANSLATION_FROM_L1D", IF c = "L1I" THEN 1 ELSE 2,
                           c = "L1I", s)
           IN  /\ s[1] = "PQ" /\ entry[c][s] = None /\ Asked(c, s, p)
               /\ r \in Requests /\ Onces(RQ') /\ Got(Below(c), p, r)
               /\ UNCHANGED <<MSHR, PROCESSED, aborted>>
<1> DEFINE s == <<"PQ", tail[c]>>
           t == Below(c)
           level == IF c = "L1I" THEN 1 ELSE 2
           r == Packet(p, "TRANSLATION_FROM_L1D", level, c = "L1I", s)
<1>1. /\ s \in Free(c, "PQ") /\ Len(RQ[t]) < RQ_SIZE[t] /\ Take(c, s, p)
      /\ RQ' = add_rq(RQ, t, r)
      /\ UNCHANGED <<MSHR, PROCESSED, aborted>>
  BY DEF prefetch, Below
<1>2. s \in Slots[c] /\ s \in AllSlots /\ s[1] = "PQ" /\ entry[c][s] = None
  BY <1>1, SlotFacts DEF Free
<1>3. t \in TLBs /\ (c = "L1I") \in BOOLEAN /\ level \in {1, 2}
  BY DEF Below, TLBs
<1> HIDE DEF s, t, level
<1>4. r \in Requests
  BY <1>2, <1>3, SentIsRequest
<1>5. r.page = p /\ QueuesOK(RQ)
  BY DEF Packet, IInv
<1> HIDE DEF r
<1>7. HasRoom(RQ, t, r.page)
  BY <1>1 DEF HasRoom
<1>8. /\ Onces(RQ')
      /\ \A u \in TLBs, x \in Pages : ~(u = t /\ x = p) => Of(RQ'[u], x) = Of(RQ[u], x)
      /\ Of(RQ'[t], p) = Added(Of(RQ[t], p), t, r)
  BY <1>1, <1>3, <1>4, <1>5, <1>7, AddView
<1>9. Got(t, p, r)
  BY <1>8 DEF Got
<1>11. Asked(c, s, p)
  BY <1>1, <1>2, WantsTaken
<1> QED BY <1>1, <1>2, <1>4, <1>8, <1>9, <1>11 DEF r, t, level

\* The L1 that takes the answers of a TLB.
Core(t) == IF t = "ITLB" THEN "L1I" ELSE "L1D"

\* What handle_processed does: the slots that the answer names and that wait
\* for its page wait no more.
LEMMA HandleView ==
  ASSUME IInv, NEW t \in TLBs, handle_processed(t)
  PROVE  LET e == Head(PROCESSED[t])
         IN  /\ PROCESSED[t] # <<>> /\ PROCESSED' = [PROCESSED EXCEPT ![t] = Tail(@)]
             /\ e \in Answers
             /\ UNCHANGED <<RQ, MSHR, aborted>>
             /\ \A d \in L1s : \A s \in Slots[d] :
                  Wants(d, s)' = IF d = Core(t) /\ s \in Named(e) /\ Wants(d, s) = e.page
                                 THEN None ELSE Wants(d, s)
<1> DEFINE e == Head(PROCESSED[t])
           c == Core(t)
           Gets(s) == /\ entry[c][s] # None
                      /\ entry[c][s].page = e.page
                      /\ \/ s \in e.merged \cup {e.own} /\ entry[c][s].data = None
                         \/ s = e.own /\ t # "STLB"
           x == [page |-> e.page, data |-> e.data]
           f == [s \in Slots[c] |-> IF Gets(s) THEN x ELSE entry[c][s]]
<1>1. /\ PROCESSED[t] # <<>> /\ PROCESSED' = [PROCESSED EXCEPT ![t] = Tail(@)]
      /\ entry' = [entry EXCEPT ![c] = f]
      /\ UNCHANGED <<RQ, MSHR, aborted>>
  BY DEF handle_processed, Core
<1>2. c \in L1s
  BY DEF L1s, Core
<1>3. PROCESSED[t] \in Seq(RightAnswers(translation)) /\ EntriesOK(entry, translation)
  BY DEF IInv, AnswersOK
<1>4. e \in Answers
  <2>1. e \in RightAnswers(translation)
    BY <1>1, <1>3, HeadTailProperties
  <2> QED BY <2>1 DEF RightAnswers
<1>5. x # None /\ x.page = e.page /\ x.data = e.data /\ x.data # None /\ e.page # None
  <2>1. x \in Entries /\ e.data # None /\ e.page # None
    BY <1>4, Nothing DEF Answers, Entries
  <2> QED BY <2>1, Nothing
<1> HIDE DEF e, x, c
<1>6. ASSUME NEW d \in L1s, NEW s \in Slots[d]
      PROVE  entry'[d][s] = IF d = c /\ Gets(s) THEN x ELSE entry[d][s]
  BY <1>1, <1>2, <1>3 DEF EntriesOK
<1>7. ASSUME NEW d \in L1s, NEW s \in Slots[d]
      PROVE  Wants(d, s)' = IF d = c /\ s \in Named(e) /\ Wants(d, s) = e.page
                            THEN None ELSE Wants(d, s)
  <2>1. Wants(d, s)' = IF entry'[d][s] # None /\ entry'[d][s].data = None
                       THEN entry'[d][s].page ELSE None
    BY DEF Wants, Waits
  <2>2. Wants(d, s) = IF entry[d][s] # None /\ entry[d][s].data = None
                       THEN entry[d][s].page ELSE None
    BY DEF Wants, Waits
  <2>3. s \in Named(e) <=> s \in e.merged \cup {e.own}
    BY SlotFacts, Nothing DEF Named
  <2>4. CASE d = c /\ Gets(s)
    <3>1. Wants(d, s)' = None
      BY <2>1, <2>4, <1>5, <1>6
    <3>2. CASE entry[c][s].data = None
      <4>1. s \in Named(e) /\ Wants(d, s) = e.page
        BY <2>2, <2>3, <2>4, <3>2
      <4> QED BY <4>1, <3>1, <2>4
    <3>3. CASE entry[c][s].data # None
      <4>1. Wants(d, s) = None
        BY <2>2, <2>4, <3>3
      <4> QED BY <4>1, <3>1
    <3> QED BY <3>2, <3>3
  <2>5. CASE ~(d = c /\ Gets(s))
    <3>1. Wants(d, s)' = Wants(d, s)
      BY <2>1, <2>2, <2>5, <1>6
    <3>2. ~(d = c /\ s \in Named(e) /\ Wants(d, s) = e.page)
      BY <2>2, <2>3, <2>5, <1>5
    <3> QED BY <3>1, <3>2
  <2> QED BY <2>4, <2>5
<1> QED BY <1>1, <1>4, <1>7 DEF e, c

\* use changes no packet, and no slot that it frees was waiting.
LEMMA UseView ==
  ASSUME IInv, NEW c \in L1s, NEW s \in Slots[c], use(c, s)
  PROVE  /\ \A d \in L1s : \A u \in Slots[d] : Wants(d, u)' = Wants(d, u)
         /\ UNCHANGED <<RQ, MSHR, PROCESSED, aborted>>
<1>1. /\ entry' = [entry EXCEPT ![c][s] = None] /\ entry[c][s].data # None
      /\ UNCHANGED <<RQ, MSHR, PROCESSED, aborted>> /\ EntriesOK(entry, translation)
  BY DEF use, IInv
<1>2. ASSUME NEW d \in L1s, NEW u \in Slots[d]
      PROVE  entry'[d][u] = IF d = c /\ u = s THEN None ELSE entry[d][u]
  BY <1>1 DEF EntriesOK
<1>3. ASSUME NEW d \in L1s, NEW u \in Slots[d] PROVE Wants(d, u)' = Wants(d, u)
  BY <1>1, <1>2 DEF Wants, Waits
<1> QED BY <1>1, <1>3

\* The slots wait as before when no entry changes.
LEMMA SameWants ==
  ASSUME entry' = entry
  PROVE  \A d, u : Wants(d, u)' = Wants(d, u)
BY DEF Wants, Waits

\* One or two answers e, or none.
AnswersOf(packets, e) == packets \in {<<e>>, <<e>> \o <<e>>, <<>>}

\* What hit does: the packet of a page is taken and answered, by STLB also to
\* the TLBs that wait for it.
LEMMA HitView ==
  ASSUME IInv, Onces(RQ), NEW t \in TLBs, hit(t)
  PROVE  \E p \in Pages, e \in Answers, packets \in Seq(Answers) :
           LET r == Of(RQ[t], p)
           IN  /\ r \in Requests /\ r.page = p /\ Took(t, p) /\ Onces(RQ')
               /\ Returned(IF t = "STLB" THEN Receivers(r) ELSE {}, p)
               /\ e.page = p /\ e.own = r.own /\ Named(e) = Named(r)
               /\ AnswersOf(packets, e)
               /\ t # "STLB" => packets = <<e>>
               /\ packets = <<>> => Named(r) = {}
               /\ GaveOK(t, packets)
               /\ UNCHANGED <<entry, aborted>>
<1> DEFINE r == Head(RQ[t])
           p == r.page
           d == block[t][p]
           e == Translated(r, d)
           packets == IF t # "STLB" THEN <<e>>
                      ELSE IF r.own # None /\ r.merged # {} THEN <<e>> \o <<e>>
                      ELSE IF Named(r) # {} THEN <<e>> ELSE <<>>
           S == IF t = "STLB" THEN Receivers(r) ELSE {}
<1>1. /\ RQ[t] # <<>> /\ d # None /\ RQ' = [RQ EXCEPT ![t] = Tail(@)]
      /\ PROCESSED' = Processed(t, packets)
      /\ MSHR' = IF t = "STLB" THEN return_data(MSHR, Receivers(r), p, d) ELSE MSHR
      /\ UNCHANGED <<entry, aborted>>
  BY DEF hit
<1>2. QueuesOK(RQ) /\ MissesOK(MSHR, translation) /\ AnswersOK(PROCESSED, translation)
      /\ LinesOK(block, translation)
  BY DEF IInv
<1>3. /\ r \in Requests /\ p \in Pages /\ Of(RQ[t], p) = r /\ Onces(RQ')
      /\ \A u \in TLBs, x \in Pages :
           Of(RQ'[u], x) = IF u = t /\ x = p THEN None ELSE Of(RQ[u], x)
  <2>1. RQ' = Rest(RQ, t) /\ RQ[t] # <<>>
    BY <1>1 DEF Rest
  <2>2. /\ r \in Requests /\ p \in Pages /\ Of(RQ[t], p) = r
        /\ Onces(Rest(RQ, t))
        /\ \A u \in TLBs, x \in Pages :
             Of(Rest(RQ, t)[u], x) = IF u = t /\ x = p THEN None ELSE Of(RQ[u], x)
    BY <2>1, <1>2, TakeView
  <2> QED BY <2>1, <2>2
<1>4. Right(d, p, translation) /\ d # Dropped
  <2>1. d = p /\ translation[p] = p
    BY <1>1, <1>2, <1>3 DEF LinesOK
  <2> QED BY <2>1, <1>3, Nothing DEF Right
<1>5. r \in Packets
  BY <1>3 DEF Requests
<1> HIDE DEF d
<1>6. e \in Answers
  <2>1. e \in RightAnswers(translation)
    BY <1>3, <1>4, <1>5, TranslatedRight
  <2> QED BY <2>1 DEF RightAnswers
<1>7. e.page = p /\ e.own = r.own /\ Named(e) = Named(r)
  BY DEF Translated, Named
<1>8. \A u \in TLBs, x \in Pages :
        IF u \in S /\ x = p /\ MSHR[u][x] # None
        THEN MSHR'[u][x] # None /\ Alike(MSHR[u][x], MSHR'[u][x]) /\ MSHR'[u][x].returned
        ELSE MSHR'[u][x] = MSHR[u][x]
  <2>1. CASE t = "STLB"
    <3>1. MSHR' = return_data(MSHR, S, p, d)
      BY <1>1, <2>1
    <3> HIDE DEF S, p
    <3> QED BY <3>1, <1>2, <1>3, <1>4, ReturnView DEF Right
  <2>2. CASE t # "STLB"
    BY <2>2, <1>1
  <2> QED BY <2>1, <2>2
<1> HIDE DEF e, r, p
<1>9. packets \in {<<e>>, <<e>> \o <<e>>, <<>>} /\ packets \in Seq(Answers)
  <2>1. <<e>> \in Seq(Answers) /\ <<>> \in Seq(Answers)
    BY <1>6
  <2>2. <<e>> \o <<e>> \in Seq(Answers)
    BY <2>1, ConcatProperties
  <2> QED BY <2>1, <2>2
<1>10. /\ t # "STLB" => packets = <<e>>
       /\ packets = <<>> => Named(r) = {}
  <2>1. <<e>> # <<>> /\ <<e>> \o <<e>> # <<>>
    OBVIOUS
  <2> QED BY <2>1
<1> HIDE DEF packets, S
<1>11. GaveOK(t, packets)
  BY <1>1, <1>2, <1>9, GiveView
<1>12. Took(t, p) /\ Returned(S, p)
  BY <1>3, <1>8 DEF Took, Returned
<1>13. r.page = p /\ AnswersOf(packets, e)
  BY <1>9 DEF p, AnswersOf
<1> QED BY <1>1, <1>3, <1>6, <1>7, <1>9, <1>10, <1>11, <1>12, <1>13 DEF S


\* An instruction fetch meets the request of a prefetch in STLB.
Collides(r) ==
  /\ r.instruction /\ r.type = "LOAD_TRANSLATION"
  /\ Of(RQ["STLB"], r.page) # None
  /\ Of(RQ["STLB"], r.page).type = "TRANSLATION_FROM_L1D"

\* That is what the assertion forbids.
LEMMA CollisionAborts ==
  ASSUME NEW q, QueuesOK(q), Onces(q), q["STLB"] = RQ["STLB"], NEW r, Collides(r)
  PROVE  AssertionFails(q, r)
<1>1. "STLB" \in TLBs
  BY DEF TLBs
<1>2. q["STLB"] \in Seq(Requests) /\ Once(q["STLB"])
  BY <1>1 DEF QueuesOK, Onces
<1>3. PICK i \in DOMAIN q["STLB"] : q["STLB"][i].page = r.page
  BY <1>2, OfFound DEF Collides
<1>4. q["STLB"][i] = Of(q["STLB"], r.page)
  BY <1>2, <1>3, OfFound
<1>5. i \in Queued(q, "STLB", r.page)
  BY <1>3 DEF Queued
<1> QED BY <1>4, <1>5 DEF Collides, AssertionFails

\* ITLB or DTLB asks STLB, from queues that have STLB's as it was.
LEMMA PassView ==
  ASSUME NEW q, QueuesOK(q), Onces(q), q["STLB"] = RQ["STLB"],
         NEW t \in UpperTLBs, NEW r \in Packets, Asks(r), AskBelow(t, q, r)
  PROVE  /\ QueuesOK(RQ') /\ Onces(RQ')
         /\ \A u \in TLBs, x \in Pages : ~(u = "STLB" /\ x = r.page) =>
              Of(RQ'[u], x) = Of(q[u], x)
         /\ \/ Of(RQ'["STLB"], r.page) = Added(Of(RQ["STLB"], r.page), "STLB", Down(r))
            \/ Of(RQ'["STLB"], r.page) = Of(RQ["STLB"], r.page)
               /\ ~HasRoom(RQ, "STLB", r.page)
         /\ Collides(r) => aborted'
<1>1. "STLB" \in TLBs /\ t # "STLB"
  BY DEF TLBs, UpperTLBs
<1>2. RQ' = add_rq(q, "STLB", Down(r)) /\ aborted' = AssertionFails(q, r)
  BY <1>1 DEF AskBelow
<1>3. Down(r) \in Requests /\ Down(r).page = r.page
  BY DownIsRequest
<1> DEFINE w == add_rq(q, "STLB", Down(r))
<1>4. /\ QueuesOK(w) /\ Onces(w)
      /\ \A u \in TLBs, x \in Pages : ~(u = "STLB" /\ x = r.page) => Of(w[u], x) = Of(q[u], x)
      /\ \/ Of(w["STLB"], r.page) = Added(Of(q["STLB"], r.page), "STLB", Down(r))
         \/ Of(w["STLB"], r.page) = Of(q["STLB"], r.page) /\ ~HasRoom(q, "STLB", r.page)
  BY <1>1, <1>3, AddView
<1>5. RQ' = w
  BY <1>2
<1> HIDE DEF w
<1>6. HasRoom(q, "STLB", r.page) <=> HasRoom(RQ, "STLB", r.page)
  BY DEF HasRoom, Queued
<1>7. Collides(r) => aborted'
  BY <1>2, CollisionAborts
<1>8. QueuesOK(RQ') /\ Onces(RQ')
  BY <1>4, <1>5
<1> QED BY <1>4, <1>5, <1>6, <1>7, <1>8

\* What miss does: a packet goes to the MSHR, and ITLB and DTLB pass it on.
LEMMA MissView ==
  ASSUME IInv, Onces(RQ), NEW t \in TLBs, miss(t)
  PROVE  \E p \in Pages :
           LET r == Of(RQ[t], p)
           IN  /\ r \in Requests /\ r.page = p /\ r # None /\ Asks(r)
               /\ MSHR[t][p] = None /\ Put(t, p, r) /\ Onces(RQ')
               /\ t = "STLB" => Took(t, p) /\ UNCHANGED aborted
               /\ t # "STLB" => Passed(t, p, Down(r)) /\ (Collides(r) => aborted')
               /\ UNCHANGED <<entry, PROCESSED>>
<1> DEFINE r == Head(RQ[t])
           p == r.page
           q == [RQ EXCEPT ![t] = Tail(@)]
<1>1. /\ RQ[t] # <<>> /\ MSHR[t][p] = None
      /\ MSHR' = [MSHR EXCEPT ![t][p] = r] /\ AskBelow(t, q, r)
      /\ UNCHANGED <<entry, PROCESSED>>
  BY DEF miss
<1>2. QueuesOK(RQ) /\ MissesOK(MSHR, translation)
  BY DEF IInv
<1>3. /\ r \in Requests /\ p \in Pages /\ Of(RQ[t], p) = r
      /\ QueuesOK(q) /\ Onces(q) /\ \A u \in TLBs : u # t => q[u] = RQ[u]
      /\ \A u \in TLBs, x \in Pages :
           Of(q[u], x) = IF u = t /\ x = p THEN None ELSE Of(RQ[u], x)
  <2>1. q = Rest(RQ, t)
    BY DEF Rest
  <2> HIDE DEF q
  <2> QED BY <2>1, <1>1, <1>2, TakeView
<1>4. r # None /\ r \in Packets /\ Asks(r) /\ r.page = p
  BY <1>3, Nothing DEF Requests
<1> HIDE DEF r, p, q
<1>5. Put(t, p, r)
  <2>1. MSHR \in [TLBs -> [Pages -> Packets \cup {None}]]
    BY <1>2 DEF MissesOK
  <2> QED BY <2>1, <1>1, <1>3 DEF Put
<1>6. CASE t = "STLB"
  <2>1. RQ' = q /\ UNCHANGED aborted
    BY <1>1, <1>6 DEF AskBelow
  <2>2. Onces(RQ') /\ Took(t, p)
    BY <2>1, <1>3 DEF Took
  <2> QED BY <2>1, <2>2, <1>1, <1>3, <1>4, <1>5, <1>6
<1>7. CASE t # "STLB"
  <2>1. t \in UpperTLBs /\ "STLB" \in TLBs
    BY <1>7 DEF TLBs, UpperTLBs
  <2>2. q["STLB"] = RQ["STLB"]
    BY <2>1, <1>3, <1>7
  <2>3. /\ Onces(RQ')
        /\ \A u \in TLBs, x \in Pages : ~(u = "STLB" /\ x = p) => Of(RQ'[u], x) = Of(q[u], x)
        /\ \/ Of(RQ'["STLB"], p) = Added(Of(RQ["STLB"], p), "STLB", Down(r))
           \/ Of(RQ'["STLB"], p) = Of(RQ["STLB"], p) /\ ~HasRoom(RQ, "STLB", p)
        /\ Collides(r) => aborted'
    BY <2>1, <2>2, <1>1, <1>3, <1>4, PassView
  <2>4. Passed(t, p, Down(r))
    BY <2>3, <1>3 DEF Passed
  <2> QED BY <2>3, <2>4, <1>1, <1>3, <1>4, <1>5, <1>7
<1> QED BY <1>6, <1>7

\* What merge does: a packet joins the MSHR of its page.
LEMMA MergeView ==
  ASSUME IInv, Onces(RQ), NEW t \in TLBs, merge(t)
  PROVE  \E p \in Pages :
           LET r == Of(RQ[t], p)
               m == MSHR[t][p]
           IN  /\ r \in Requests /\ r.page = p /\ r # None
               /\ m \in Misses(p, translation) /\ m # None
               /\ MergeMiss(m, t, r) # None
               /\ Put(t, p, MergeMiss(m, t, r)) /\ Onces(RQ') /\ Took(t, p)
               /\ UNCHANGED <<entry, PROCESSED, aborted>>
<1> DEFINE r == Head(RQ[t])
           p == r.page
           n == MergeMiss(MSHR[t][p], t, r)
<1>1. /\ RQ[t] # <<>> /\ MSHR[t][p] # None
      /\ MSHR' = [MSHR EXCEPT ![t][p] = MergeMiss(@, t, r)]
      /\ RQ' = [RQ EXCEPT ![t] = Tail(@)]
      /\ UNCHANGED <<entry, PROCESSED, aborted>>
  BY DEF merge
<1>2. QueuesOK(RQ) /\ MissesOK(MSHR, translation)
  BY DEF IInv
<1>3. /\ r \in Requests /\ p \in Pages /\ Of(RQ[t], p) = r /\ Onces(RQ')
      /\ \A u \in TLBs, x \in Pages :
           Of(RQ'[u], x) = IF u = t /\ x = p THEN None ELSE Of(RQ[u], x)
  <2>1. RQ' = Rest(RQ, t) /\ RQ[t] # <<>>
    BY <1>1 DEF Rest
  <2>2. /\ r \in Requests /\ p \in Pages /\ Of(RQ[t], p) = r
        /\ Onces(Rest(RQ, t))
        /\ \A u \in TLBs, x \in Pages :
             Of(Rest(RQ, t)[u], x) = IF u = t /\ x = p THEN None ELSE Of(RQ[u], x)
    BY <2>1, <1>2, TakeView
  <2> QED BY <2>1, <2>2
<1>4. r # None /\ r.page = p
  BY <1>3, Nothing DEF Requests
<1> HIDE DEF r, p
<1>5. MSHR[t][p] \in Misses(p, translation)
      /\ MSHR \in [TLBs -> [Pages -> Packets \cup {None}]]
  BY <1>1, <1>2, <1>3 DEF MissesOK
<1>6. n \in Misses(p, translation)
  BY <1>3, <1>4, <1>5, MergeIsMiss
<1>7. MSHR' = [MSHR EXCEPT ![t][p] = n] /\ n # None
  BY <1>1, <1>3, <1>5, <1>6, Nothing DEF Misses
<1> HIDE DEF n
<1>8. Put(t, p, n)
  BY <1>3, <1>5, <1>7 DEF Put
<1>9. Took(t, p)
  BY <1>3 DEF Took
<1> QED BY <1>1, <1>3, <1>4, <1>5, <1>7, <1>8, <1>9 DEF n

\* An MSHR that gives its answer away: fill and drop.
LEMMA FreeView ==
  ASSUME MissesOK(MSHR, translation), NEW S, NEW t \in TLBs, NEW p \in Pages, NEW d,
         Right(d, p, translation), MSHR' = Answering(MSHR, S, t, p, d)
  PROVE  Freed(S, t, p)
<1> DEFINE n == return_data(MSHR, S, p, d)
<1>1. /\ MissesOK(n, translation)
      /\ \A u \in TLBs, x \in Pages :
           IF u \in S /\ x = p /\ MSHR[u][x] # None
           THEN n[u][x] # None /\ Alike(MSHR[u][x], n[u][x]) /\ n[u][x].returned
           ELSE n[u][x] = MSHR[u][x]
  <2>1. d \in Pages \cup {None, Dropped}
    BY DEF Right
  <2> QED BY <2>1, ReturnView, ReturnKeeps
<1> HIDE DEF n
<1>2. n \in [TLBs -> [Pages -> Packets \cup {None}]]
  BY <1>1 DEF MissesOK
<1>3. \A u \in TLBs, x \in Pages : MSHR'[u][x] = IF u = t /\ x = p THEN None ELSE n[u][x]
  BY <1>2 DEF n, Answering
<1> QED BY <1>1, <1>3 DEF Freed

\* What fill and drop do: an MSHR gives its answer away. STLB gives its core
\* none for a packet that names no slot, or an instruction fetch with one slot.
LEMMA AnswerView ==
  ASSUME IInv, NEW t \in TLBs, NEW p \in Pages, fill(t, p) \/ drop(t, p)
  PROVE  \E e \in Answers, packets \in Seq(Answers) :
           LET m == MSHR[t][p]
           IN  /\ m \in Misses(p, translation) /\ m # None /\ m.returned
               /\ Freed(IF t = "STLB" THEN Receivers(m) ELSE {}, t, p)
               /\ e.page = p /\ e.own = m.own /\ Named(e) = Named(m)
               /\ AnswersOf(packets, e) /\ packets \in {<<e>>, <<>>}
               /\ packets = <<>> =>
                    \/ t = "DTLB" /\ m.type = "TRANSLATION_FROM_L1D"
                    \/ t = "STLB" /\ Named(m) = {}
                    \/ t = "STLB" /\ m.merged = {} /\ ~m.both /\ m.instruction
               /\ GaveOK(t, packets)
               /\ UNCHANGED <<entry, RQ, aborted>>
<1> DEFINE m == MSHR[t][p]
           e == Translated(m, m.data)
           S == IF t = "STLB" THEN Receivers(m) ELSE {}
<1>1. /\ m # None /\ m.returned /\ MSHR' = Answering(MSHR, S, t, p, m.data)
      /\ UNCHANGED <<entry, RQ, aborted>>
  <2>1. CASE fill(t, p)
    BY <2>1 DEF fill, Answering
  <2>2. CASE drop(t, p)
    BY <2>2 DEF drop, Answering
  <2> QED BY <2>1, <2>2
<1>2. /\ m \in Packets /\ Right(m.data, p, translation) /\ m.page = p
      /\ m.data # Dropped => m.data = p /\ translation[p] = p
  BY <1>1, Answered
<1>3. MissesOK(MSHR, translation) /\ AnswersOK(PROCESSED, translation)
  BY DEF IInv
<1>4. m \in Misses(p, translation)
  BY <1>1, <1>3 DEF MissesOK
<1>5. e \in Answers /\ e.page = p /\ e.own = m.own /\ Named(e) = Named(m)
  <2>1. m.data \in Pages \cup {Dropped}
    BY <1>2 DEF Right
  <2>2. e = [page |-> p, data |-> m.data, own |-> m.own, merged |-> m.merged]
    BY <1>2 DEF Translated
  <2> HIDE DEF e, m
  <2>3. e \in Answers
    BY <2>1, <2>2, <1>2, PacketFields DEF Answers
  <2> QED BY <2>2, <2>3 DEF Named
<1> HIDE DEF S
<1>6. Freed(S, t, p)
  BY <1>1, <1>2, <1>3, FreeView
<1>7. \E packets \in {<<e>>, <<>>} :
        /\ PROCESSED' = Processed(t, packets)
        /\ packets = <<>> =>
             \/ t = "DTLB" /\ m.type = "TRANSLATION_FROM_L1D"
             \/ t = "STLB" /\ Named(m) = {}
             \/ t = "STLB" /\ m.merged = {} /\ ~m.both /\ m.instruction
  <2> <<e>> # <<>>
    OBVIOUS
  <2>1. CASE fill(t, p)
    <3> DEFINE told == IF t # "STLB" THEN TRUE
                       ELSE m.merged # {} \/ (m.own # None /\ (m.both \/ ~m.instruction))
    <3>1. PROCESSED' = Processed(t, IF told THEN <<e>> ELSE <<>>)
      BY <2>1 DEF fill
    <3>2. ~told => \/ t = "STLB" /\ Named(m) = {}
                   \/ t = "STLB" /\ m.merged = {} /\ ~m.both /\ m.instruction
      BY DEF Named
    <3> HIDE DEF told, m, e
    <3>3. CASE told
      BY <3>1, <3>3
    <3>4. CASE ~told
      BY <3>1, <3>2, <3>4
    <3> QED BY <3>3, <3>4
  <2>2. CASE drop(t, p)
    <3> DEFINE told == t = "ITLB" \/ (t = "STLB" /\ Named(m) # {})
               f == Translated(m, Dropped)
    <3>1. PROCESSED' = Processed(t, IF told THEN <<f>> ELSE <<>>)
      BY <2>2 DEF drop
    <3>2. m.data = Dropped /\ m.type = "TRANSLATION_FROM_L1D" /\ f = e
      BY <2>2 DEF drop
    <3>3. ~told => \/ t = "DTLB" /\ m.type = "TRANSLATION_FROM_L1D"
                   \/ t = "STLB" /\ Named(m) = {}
      BY <3>2 DEF TLBs
    <3> HIDE DEF told, m, e, f
    <3>4. CASE told
      BY <3>1, <3>2, <3>4
    <3>5. CASE ~told
      BY <3>1, <3>3, <3>5
    <3> QED BY <3>4, <3>5
  <2> QED BY <2>1, <2>2
<1> HIDE DEF m, e
<1>8. PICK packets \in {<<e>>, <<>>} :
        /\ PROCESSED' = Processed(t, packets)
        /\ packets = <<>> =>
             \/ t = "DTLB" /\ m.type = "TRANSLATION_FROM_L1D"
             \/ t = "STLB" /\ Named(m) = {}
             \/ t = "STLB" /\ m.merged = {} /\ ~m.both /\ m.instruction
  BY <1>7
<1>9. packets \in Seq(Answers)
  <2>1. <<e>> \in Seq(Answers) /\ <<>> \in Seq(Answers)
    BY <1>5
  <2> QED BY <2>1
<1>10. GaveOK(t, packets) /\ AnswersOf(packets, e)
  BY <1>3, <1>8, <1>9, GiveView DEF AnswersOf
<1> QED BY <1>1, <1>4, <1>5, <1>6, <1>8, <1>9, <1>10 DEF m, S

\* What ask_again does: an MSHR waits again, and ITLB and DTLB pass it on.
LEMMA AskAgainView ==
  ASSUME IInv, Onces(RQ), NEW t \in TLBs, NEW p \in Pages, ask_again(t, p)
  PROVE  \E y \in Packets :
           LET m == MSHR[t][p]
           IN  /\ m \in Misses(p, translation) /\ m # None /\ m.returned
               /\ m.page = p /\ Asks(m) /\ m.type = "LOAD_TRANSLATION"
               /\ y # None /\ ~y.returned /\ Alike(m, y) /\ Put(t, p, y) /\ Onces(RQ')
               /\ t = "STLB" => UNCHANGED <<RQ, aborted>>
               /\ t # "STLB" =>
                    /\ \A u \in TLBs, x \in Pages : ~(u = "STLB" /\ x = p) =>
                         Of(RQ'[u], x) = Of(RQ[u], x)
                    /\ \/ Of(RQ'["STLB"], p) = Added(Of(RQ["STLB"], p), "STLB", Down(m))
                       \/ Of(RQ'["STLB"], p) = Of(RQ["STLB"], p) /\ ~HasRoom(RQ, "STLB", p)
                    /\ Collides(m) => aborted'
               /\ UNCHANGED <<entry, PROCESSED>>
<1> DEFINE m == MSHR[t][p]
           y == [m EXCEPT !.returned = FALSE]
<1>1. /\ m # None /\ m.returned /\ m.type = "LOAD_TRANSLATION"
      /\ MSHR' = [MSHR EXCEPT ![t][p].returned = FALSE] /\ AskBelow(t, RQ, m)
      /\ UNCHANGED <<entry, PROCESSED>>
  BY DEF ask_again
<1>2. /\ QueuesOK(RQ) /\ m \in Misses(p, translation)
      /\ MSHR \in [TLBs -> [Pages -> Packets \cup {None}]]
  BY <1>1 DEF IInv, MissesOK
<1>3. m \in Packets /\ m.page = p /\ Asks(m)
  BY <1>2 DEF Misses
<1>4. MSHR' = [MSHR EXCEPT ![t][p] = y]
  BY <1>1, <1>2
<1> HIDE DEF m
<1>5. y \in Packets /\ ~y.returned /\ Alike(m, y)
  BY <1>3 DEF Packets, Alike
<1> HIDE DEF y
<1>6. y # None
  BY <1>5, Nothing
<1>7. Put(t, p, y)
  BY <1>2, <1>4 DEF Put
<1>8. CASE t = "STLB"
  <2>1. UNCHANGED <<RQ, aborted>>
    BY <1>1, <1>8 DEF AskBelow
  <2>2. Onces(RQ')
    BY <2>1
  <2> QED BY <2>1, <2>2, <1>1, <1>2, <1>3, <1>5, <1>6, <1>7, <1>8 DEF m
<1>9. CASE t # "STLB"
  <2>1. t \in UpperTLBs
    BY <1>9 DEF TLBs, UpperTLBs
  <2>2. /\ Onces(RQ')
        /\ \A u \in TLBs, x \in Pages : ~(u = "STLB" /\ x = p) => Of(RQ'[u], x) = Of(RQ[u], x)
        /\ \/ Of(RQ'["STLB"], p) = Added(Of(RQ["STLB"], p), "STLB", Down(m))
           \/ Of(RQ'["STLB"], p) = Of(RQ["STLB"], p) /\ ~HasRoom(RQ, "STLB", p)
        /\ Collides(m) => aborted'
    BY <2>1, <1>1, <1>2, <1>3, PassView
  <2> QED BY <2>2, <1>1, <1>2, <1>3, <1>5, <1>6, <1>7, <1>9 DEF m
<1> QED BY <1>8, <1>9

\* What the walker does: the MSHR of STLB is answered.
LEMMA WalkerView ==
  ASSUME IInv, NEW p \in Pages, translated(p) \/ dropped(p)
  PROVE  Returned({"STLB"}, p) /\ UNCHANGED <<entry, RQ, PROCESSED, aborted>>
<1>1. MissesOK(MSHR, translation)
  BY DEF IInv
<1>2. ASSUME NEW d \in {p, Dropped}, MSHR' = return_data(MSHR, {"STLB"}, p, d)
      PROVE  Returned({"STLB"}, p)
  <2>1. \A u \in TLBs, x \in Pages :
          IF u \in {"STLB"} /\ x = p /\ MSHR[u][x] # None
          THEN MSHR'[u][x] # None /\ Alike(MSHR[u][x], MSHR'[u][x]) /\ MSHR'[u][x].returned
          ELSE MSHR'[u][x] = MSHR[u][x]
    BY <1>1, <1>2, ReturnView
  <2> QED BY <2>1 DEF Returned
<1>3. CASE translated(p)
  BY <1>2, <1>3 DEF translated
<1>4. CASE dropped(p)
  BY <1>2, <1>4 DEF dropped
<1> QED BY <1>3, <1>4


-----------------------------------------------------------------------------
(* The kinds of packets *)

\* PROCESSED is a sequence of answers.
LEMMA AnswersAre ==
  ASSUME IInv, NEW t \in TLBs
  PROVE  /\ PROCESSED[t] \in Seq(Answers) /\ Len(PROCESSED[t]) \in Nat
         /\ DOMAIN PROCESSED[t] = 1 .. Len(PROCESSED[t])
         /\ \A i \in DOMAIN PROCESSED[t] : PROCESSED[t][i] \in Answers
         /\ Len(PROCESSED[t]) <= ROB_SIZE /\ ROB_SIZE \in Nat
<1>1. PROCESSED[t] \in Seq(RightAnswers(translation)) /\ Len(PROCESSED[t]) <= ROB_SIZE
  BY DEF IInv, AnswersOK
<1>2. RightAnswers(translation) \subseteq Answers
  BY DEF RightAnswers
<1>3. PROCESSED[t] \in [1 .. Len(PROCESSED[t]) -> Answers] /\ Len(PROCESSED[t]) \in Nat
  BY <1>1, <1>2, LenProperties
<1>4. PROCESSED[t] \in Seq(Answers)
  BY <1>3, SeqDef
<1> QED BY <1>1, <1>3, <1>4, Sizes

\* What PROCESSED holds when t has given the answer e.
LEMMA GaveShape ==
  ASSUME IInv, NEW t \in TLBs, NEW e \in Answers,
         NEW packets, AnswersOf(packets, e), GaveOK(t, packets)
  PROVE  /\ \A u \in TLBs \ {t} : PROCESSED'[u] = PROCESSED[u]
         /\ DOMAIN PROCESSED[t] \subseteq DOMAIN PROCESSED'[t]
         /\ \A i \in DOMAIN PROCESSED'[t] :
              IF i \in DOMAIN PROCESSED[t] THEN PROCESSED'[t][i] = PROCESSED[t][i]
              ELSE PROCESSED'[t][i] = e /\ packets # <<>>
         /\ packets # <<>> /\ Len(PROCESSED[t]) + 2 <= ROB_SIZE =>
              \E i \in DOMAIN PROCESSED'[t] : PROCESSED'[t][i] = e
         /\ packets = <<e>> /\ Len(PROCESSED[t]) + 1 <= ROB_SIZE =>
              /\ DOMAIN PROCESSED'[t] = 1 .. (Len(PROCESSED[t]) + 1)
              /\ PROCESSED'[t][Len(PROCESSED[t]) + 1] = e
         /\ packets = <<e>> =>
              \A i, j \in DOMAIN PROCESSED'[t] \ DOMAIN PROCESSED[t] : i = j
<1> DEFINE s == PROCESSED[t]
           n == Len(s)
           k == Len(packets)
           w == s \o packets
<1>1. s \in Seq(Answers) /\ n \in Nat /\ DOMAIN s = 1 .. n /\ n <= ROB_SIZE /\ ROB_SIZE \in Nat
  BY AnswersAre
<1>2. /\ packets \in Seq(Answers) /\ k \in {0, 1, 2} /\ \A i \in 1 .. k : packets[i] = e
      /\ packets = <<e>> => k = 1
      /\ packets = <<>> <=> k = 0
  <2>1. <<e>> \in Seq(Answers) /\ Len(<<e>>) = 1 /\ <<e>>[1] = e
    OBVIOUS
  <2>2. LET d == <<e>> \o <<e>>
        IN  d \in Seq(Answers) /\ Len(d) = 2 /\ \A i \in 1 .. 2 : d[i] = e
    <3>1. <<e>> \o <<e>> \in Seq(Answers) /\ Len(<<e>> \o <<e>>) = 2
      BY <2>1, ConcatProperties
    <3>2. \A i \in 1 .. Len(<<e>>) + Len(<<e>>) :
            (<<e>> \o <<e>>)[i] = IF i <= Len(<<e>>) THEN <<e>>[i] ELSE <<e>>[i - Len(<<e>>)]
      BY <2>1, ConcatProperties
    <3> QED BY <2>1, <3>1, <3>2
  <2>3. CASE packets = <<e>>
    BY <2>1, <2>3
  <2>4. CASE packets = <<e>> \o <<e>>
    <3>1. packets # <<e>> /\ packets # <<>>
      BY <2>1, <2>2, <2>4
    <3> QED BY <2>2, <2>4, <3>1
  <2>5. CASE packets = <<>>
    BY <2>5
  <2> QED BY <2>3, <2>4, <2>5 DEF AnswersOf
<1>3. w \in Seq(Answers) /\ Len(w) = n + k /\ DOMAIN w = 1 .. (n + k)
      /\ \A i \in 1 .. (n + k) : w[i] = IF i <= n THEN s[i] ELSE packets[i - n]
  BY <1>1, <1>2, ConcatProperties, LenProperties
<1>4. \/ PROCESSED' = PROCESSED /\ n + k > ROB_SIZE
      \/ PROCESSED'[t] = w /\ \A u \in TLBs \ {t} : PROCESSED'[u] = PROCESSED[u]
  BY <1>3 DEF GaveOK
<1> HIDE DEF s, n, k, w
<1>5. CASE PROCESSED'[t] = w /\ \A u \in TLBs \ {t} : PROCESSED'[u] = PROCESSED[u]
  <2>1. \A i \in 1 .. (n + k) : IF i \in 1 .. n THEN w[i] = s[i] ELSE w[i] = e /\ k # 0
    <3> SUFFICES ASSUME NEW i \in 1 .. (n + k)
                 PROVE IF i \in 1 .. n THEN w[i] = s[i] ELSE w[i] = e /\ k # 0
      OBVIOUS
    <3>1. CASE i <= n
      BY <3>1, <1>1, <1>2, <1>3
    <3>2. CASE ~(i <= n)
      <4>1. i - n \in 1 .. k
        BY <3>2, <1>1, <1>2
      <4> QED BY <4>1, <3>2, <1>1, <1>2, <1>3
    <3> QED BY <3>1, <3>2
  <2>2. 1 .. n \subseteq 1 .. (n + k)
    BY <1>1, <1>2
  <2>3. packets # <<>> => n + 1 \in 1 .. (n + k) /\ n + 1 \notin 1 .. n
    BY <1>1, <1>2
  <2>4. k = 1 => /\ DOMAIN w = 1 .. (n + 1) /\ w[n + 1] = e
                 /\ \A i, j \in (1 .. (n + 1)) \ (1 .. n) : i = j
    BY <1>1, <1>2, <1>3, <2>1, <2>3
  <2> QED BY <1>1, <1>2, <1>3, <1>5, <2>1, <2>2, <2>3, <2>4 DEF s, n
<1>6. CASE PROCESSED' = PROCESSED /\ n + k > ROB_SIZE
  <2>1. ~(n + 2 <= ROB_SIZE) /\ (k = 1 => ~(n + 1 <= ROB_SIZE))
    BY <1>1, <1>2, <1>6
  <2> QED BY <1>2, <1>6, <2>1 DEF s, n
<1> QED BY <1>4, <1>5, <1>6

\* Packets of the invariant.
LEMMA Reading ==
  ASSUME QueuesOK(RQ), Onces(RQ), NEW t \in TLBs, NEW p
  PROVE  Of(RQ[t], p) # None => Of(RQ[t], p) \in Requests /\ Of(RQ[t], p).page = p
<1>1. RQ[t] \in Seq(Requests) /\ Once(RQ[t])
  BY DEF QueuesOK, Onces
<1> QED BY <1>1, OfFound

\* A packet of a kind stays so when another of that kind is added.
LEMMA AddedKind ==
  ASSUME NEW t \in TLBs, NEW x, x # None => x \in Requests, IsKind(t, x),
         NEW r \in Requests, KindOK(t, r)
  PROVE  KindOK(t, Added(x, t, r))
BY ReadKind DEF IsKind, Added

\* The packets that the L1s send.
LEMMA SentKind ==
  ASSUME NEW p \in Pages, NEW c \in L1s, NEW s \in Slots[c]
  PROVE  /\ KindOK(Translator[c], Packet(p, "LOAD_TRANSLATION", 1, c = "L1I", s))
         /\ s[1] = "PQ" =>
              KindOK(Below(c), Packet(p, "TRANSLATION_FROM_L1D",
                                      IF c = "L1I" THEN 1 ELSE 2, c = "L1I", s))
<1>1. s # None
  BY SlotFacts, Nothing
<1>2. ASSUME NEW type, NEW level, NEW i \in BOOLEAN
      PROVE  LET r == Packet(p, type, level, i, s)
             IN  /\ r.type = type /\ r.fill = level /\ (r.instruction <=> i) /\ ~r.both
                 /\ r.own = s /\ Named(r) = {s}
  BY <1>1 DEF Packet, Named
<1> HIDE DEF Packet
<1>3. ASSUME NEW i \in BOOLEAN
      PROVE  /\ KindOK(IF i THEN "ITLB" ELSE "DTLB", Packet(p, "LOAD_TRANSLATION", 1, i, s))
             /\ i => KindOK("ITLB", Packet(p, "TRANSLATION_FROM_L1D", 1, i, s))
             /\ ~i /\ s[1] = "PQ" =>
                  KindOK("STLB", Packet(p, "TRANSLATION_FROM_L1D", 2, i, s))
  <2> DEFINE l == Packet(p, "LOAD_TRANSLATION", 1, i, s)
             f == Packet(p, "TRANSLATION_FROM_L1D", 1, i, s)
             g == Packet(p, "TRANSLATION_FROM_L1D", 2, i, s)
  <2>1. /\ l.type = "LOAD_TRANSLATION" /\ l.fill = 1 /\ (l.instruction <=> i) /\ ~l.both
        /\ l.own = s
        /\ f.type = "TRANSLATION_FROM_L1D" /\ f.fill = 1 /\ (f.instruction <=> i) /\ ~f.both
        /\ f.own = s
        /\ g.type = "TRANSLATION_FROM_L1D" /\ g.fill = 2 /\ (g.instruction <=> i) /\ ~g.both
        /\ Named(g) = {s}
    BY <1>2
  <2> HIDE DEF l, f, g
  <2>2. Receivers(g) = {}
    BY <2>1 DEF Receivers
  <2>3. ~i /\ s[1] = "PQ" => KindOK("STLB", g)
    BY <2>1, <2>2 DEF KindOK, ForPrefetches
  <2>4. i => KindOK("ITLB", f)
    BY <2>1, <1>1 DEF KindOK
  <2>5. i => KindOK("ITLB", l)
    BY <2>1, <1>1 DEF KindOK
  <2>6. ~i => KindOK("DTLB", l)
    BY <2>1, <1>1 DEF KindOK
  <2> QED BY <2>3, <2>4, <2>5, <2>6 DEF l, f, g
<1>4. CASE c = "L1I"
  <2>1. (c = "L1I") = TRUE /\ Translator[c] = "ITLB" /\ Below(c) = "ITLB"
    BY <1>4 DEF Translator, Below
  <2> QED BY <2>1, <1>3
<1>5. CASE c = "L1D"
  <2>1. (c = "L1I") = FALSE /\ Translator[c] = "DTLB" /\ Below(c) = "STLB"
    BY <1>5 DEF Translator, Below
  <2> QED BY <2>1, <1>3
<1> QED BY <1>4, <1>5 DEF L1s

\* The kinds of the packets of page p.
KindsNow(t, p) == IsKind(t, Of(RQ[t], p)) /\ IsKind(t, MSHR[t][p])

\* The kinds are kept when each packet of a queue or an MSHR has its kind,
LEMMA KindsKept ==
  ASSUME KindsOK, PROCESSED' = PROCESSED, Onces(RQ'),
         \A t \in TLBs, p \in Pages : KindsNow(t, p)'
  PROVE  KindsOK'
BY DEF KindsOK, KindsNow

\* when an MSHR gets one of its kind,
LEMMA PutKinds ==
  ASSUME KindsOK, NEW t \in TLBs, NEW p \in Pages, NEW y, IsKind(t, y), Put(t, p, y)
  PROVE  \A u \in TLBs, x \in Pages : IsKind(u, MSHR'[u][x])
BY DEF KindsOK, Put

\* when a packet is taken,
LEMMA TookKinds ==
  ASSUME KindsOK, NEW t \in TLBs, NEW p \in Pages, Took(t, p)
  PROVE  \A u \in TLBs, x \in Pages : IsKind(u, Of(RQ'[u], x))
BY DEF KindsOK, Took, IsKind

\* when a TLB gets a packet of its kind,
LEMMA GotKinds ==
  ASSUME IInv, KindsOK, NEW t \in TLBs, NEW p \in Pages, NEW r \in Requests,
         KindOK(t, r), Got(t, p, r)
  PROVE  \A u \in TLBs, x \in Pages : IsKind(u, Of(RQ'[u], x))
<1>1. IsKind(t, Added(Of(RQ[t], p), t, r))
  <2>1. Of(RQ[t], p) # None => Of(RQ[t], p) \in Requests
    BY Reading DEF IInv, KindsOK
  <2> QED BY <2>1, AddedKind DEF KindsOK, IsKind
<1> QED BY <1>1 DEF KindsOK, Got

\* STLB gets what ITLB or DTLB sends, or has no room.
LEMMA PassedKinds ==
  ASSUME IInv, KindsOK, NEW p \in Pages, NEW r \in Requests, KindOK("STLB", r),
         \/ Of(RQ'["STLB"], p) = Added(Of(RQ["STLB"], p), "STLB", r)
         \/ Of(RQ'["STLB"], p) = Of(RQ["STLB"], p)
  PROVE  IsKind("STLB", Of(RQ'["STLB"], p))
<1>1. "STLB" \in TLBs
  BY DEF TLBs
<1>2. Of(RQ["STLB"], p) # None => Of(RQ["STLB"], p) \in Requests
  BY <1>1, Reading DEF IInv, KindsOK
<1>3. IsKind("STLB", Of(RQ["STLB"], p))
  BY <1>1 DEF KindsOK
<1> QED BY <1>1, <1>2, <1>3, AddedKind DEF IsKind

\* when MSHRs are answered or given up,
LEMMA ReturnedKinds ==
  ASSUME KindsOK, NEW S, NEW t, NEW p \in Pages, Returned(S, p) \/ Freed(S, t, p)
  PROVE  \A u \in TLBs, x \in Pages : IsKind(u, MSHR'[u][x])
<1> SUFFICES ASSUME NEW u \in TLBs, NEW x \in Pages PROVE IsKind(u, MSHR'[u][x])
  OBVIOUS
<1>1. IsKind(u, MSHR[u][x])
  BY DEF KindsOK
<1>2. \/ MSHR'[u][x] = MSHR[u][x] \/ MSHR'[u][x] = None
      \/ MSHR[u][x] # None /\ Alike(MSHR[u][x], MSHR'[u][x])
  BY DEF Returned, Freed
<1> QED BY <1>1, <1>2, AlikeSame DEF IsKind

\* and when STLB answers with slots of prefetch queues.
LEMMA GaveKinds ==
  ASSUME IInv, KindsOK, NEW t \in TLBs, NEW e \in Answers,
         NEW packets, AnswersOf(packets, e), GaveOK(t, packets),
         t = "STLB" => ForPrefetches(Named(e))
  PROVE  \A i \in DOMAIN PROCESSED'["STLB"] : ForPrefetches(Named(PROCESSED'["STLB"][i]))
<1>1. "STLB" \in TLBs
  BY DEF TLBs
<1>2. CASE t = "STLB"
  <2>1. \A i \in DOMAIN PROCESSED'[t] :
           IF i \in DOMAIN PROCESSED[t] THEN PROCESSED'[t][i] = PROCESSED[t][i]
           ELSE PROCESSED'[t][i] = e
    BY GaveShape
  <2> QED BY <2>1, <1>2 DEF KindsOK
<1>3. CASE t # "STLB"
  <2>1. PROCESSED'["STLB"] = PROCESSED["STLB"]
    BY <1>1, <1>3, GaveShape
  <2> QED BY <2>1 DEF KindsOK
<1> QED BY <1>2, <1>3

\* Every step keeps the packets of their kinds,
LEMMA KindsStep ==
  ASSUME IInv, KindsOK, Next
  PROVE  KindsOK'
<1>0. /\ Onces(RQ) /\ "STLB" \in TLBs
      /\ \A t \in TLBs, p \in Pages : IsKind(t, Of(RQ[t], p)) /\ IsKind(t, MSHR[t][p])
  BY DEF KindsOK, TLBs
<1>1. ASSUME NEW c \in L1s, NEW queue, NEW p \in Pages, demand(c, queue, p)
      PROVE  KindsOK'
  <2>1. PICK s \in Slots[c] :
           LET r == Packet(p, "LOAD_TRANSLATION", 1, c = "L1I", s)
           IN  /\ r \in Requests /\ Onces(RQ') /\ Got(Translator[c], p, r)
               /\ UNCHANGED <<MSHR, PROCESSED>>
    BY <1>0, <1>1, DemandView
  <2>2. Translator[c] \in TLBs
    BY DEF Translator, L1s, TLBs
  <2>3. KindOK(Translator[c], Packet(p, "LOAD_TRANSLATION", 1, c = "L1I", s))
    BY SentKind
  <2>4. \A u \in TLBs, x \in Pages : IsKind(u, Of(RQ'[u], x))
    BY <2>1, <2>2, <2>3, GotKinds
  <2> QED BY <2>1, <2>4, <1>0, KindsKept DEF KindsNow
<1>2. ASSUME NEW c \in L1s, NEW p \in Pages, prefetch(c, p)
      PROVE  KindsOK'
  <2>1. PICK s \in Slots[c] :
           LET r == Packet(p, "TRANSLATION_FROM_L1D", IF c = "L1I" THEN 1 ELSE 2,
                           c = "L1I", s)
           IN  /\ s[1] = "PQ" /\ r \in Requests /\ Onces(RQ') /\ Got(Below(c), p, r)
               /\ UNCHANGED <<MSHR, PROCESSED>>
    BY <1>0, <1>2, PrefetchView
  <2>2. Below(c) \in TLBs
    BY DEF Below, TLBs
  <2>3. KindOK(Below(c), Packet(p, "TRANSLATION_FROM_L1D", IF c = "L1I" THEN 1 ELSE 2,
                                c = "L1I", s))
    BY <2>1, SentKind
  <2>4. \A u \in TLBs, x \in Pages : IsKind(u, Of(RQ'[u], x))
    BY <2>1, <2>2, <2>3, GotKinds
  <2> QED BY <2>1, <2>4, <1>0, KindsKept DEF KindsNow
<1>3. ASSUME NEW t \in TLBs, handle_processed(t) PROVE KindsOK'
  <2>1. /\ PROCESSED[t] # <<>> /\ PROCESSED' = [PROCESSED EXCEPT ![t] = Tail(@)]
        /\ UNCHANGED <<RQ, MSHR>>
    BY <1>3, HandleView
  <2>2. PROCESSED["STLB"] \in Seq(Answers) /\ PROCESSED = [u \in TLBs |-> PROCESSED[u]]
    BY <1>0, AnswersAre DEF IInv, AnswersOK
  <2>3. \A i \in DOMAIN PROCESSED'["STLB"] : ForPrefetches(Named(PROCESSED'["STLB"][i]))
    <3>1. CASE t = "STLB"
      <4> DEFINE s == PROCESSED["STLB"]
      <4>1. PROCESSED'["STLB"] = Tail(s)
        BY <2>1, <2>2, <3>1
      <4>2. Tail(s) \in Seq(Answers) /\ Len(Tail(s)) = Len(s) - 1 /\ Len(s) \in Nat
            /\ \A i \in 1 .. Len(Tail(s)) : Tail(s)[i] = s[i + 1]
        <5>1. s \in Seq(Answers) /\ s # <<>>
          BY <2>1, <2>2, <3>1
        <5> HIDE DEF s
        <5> QED BY <5>1, HeadTailProperties, LenProperties
      <4>3. DOMAIN Tail(s) = 1 .. (Len(s) - 1) /\ DOMAIN s = 1 .. Len(s)
        BY <4>2, <2>2, LenProperties
      <4>4. \A i \in DOMAIN s : ForPrefetches(Named(s[i]))
        BY DEF KindsOK
      <4> HIDE DEF s
      <4>5. ASSUME NEW i \in 1 .. (Len(s) - 1) PROVE i + 1 \in DOMAIN s /\ Tail(s)[i] = s[i + 1]
        BY <4>2, <4>3
      <4> QED BY <4>1, <4>3, <4>4, <4>5
    <3>2. CASE t # "STLB"
      <4>1. PROCESSED'["STLB"] = PROCESSED["STLB"]
        BY <2>1, <2>2, <3>2, <1>0
      <4> QED BY <4>1 DEF KindsOK
    <3> QED BY <3>1, <3>2
  <2> QED BY <2>1, <2>3, <1>0 DEF KindsOK
<1>4. ASSUME NEW c \in L1s, NEW s \in Slots[c], use(c, s) PROVE KindsOK'
  <2>1. UNCHANGED <<RQ, MSHR, PROCESSED>>
    BY <1>4, UseView
  <2> QED BY <2>1, <1>0 DEF KindsOK
<1>5. ASSUME NEW t \in TLBs, hit(t) PROVE KindsOK'
  <2>1. PICK p \in Pages, e \in Answers, packets \in Seq(Answers) :
           LET r == Of(RQ[t], p)
           IN  /\ r \in Requests /\ Took(t, p) /\ Onces(RQ')
               /\ Returned(IF t = "STLB" THEN Receivers(r) ELSE {}, p)
               /\ Named(e) = Named(r)
               /\ AnswersOf(packets, e)
               /\ GaveOK(t, packets)
    BY <1>0, <1>5, HitView
  <2>2. Of(RQ[t], p) # None
    BY <2>1, Nothing DEF Requests
  <2>3. t = "STLB" => ForPrefetches(Named(e))
    BY <2>1, <2>2, <1>0 DEF IsKind, KindOK
  <2>4. \A i \in DOMAIN PROCESSED'["STLB"] : ForPrefetches(Named(PROCESSED'["STLB"][i]))
    BY <2>1, <2>3, GaveKinds
  <2>5. \A u \in TLBs, x \in Pages : IsKind(u, Of(RQ'[u], x))
    BY <2>1, TookKinds
  <2>6. \A u \in TLBs, x \in Pages : IsKind(u, MSHR'[u][x])
    BY <2>1, ReturnedKinds
  <2> QED BY <2>1, <2>4, <2>5, <2>6 DEF KindsOK
<1>6. ASSUME NEW t \in TLBs, miss(t) PROVE KindsOK'
  <2>1. PICK p \in Pages :
           LET r == Of(RQ[t], p)
           IN  /\ r \in Requests /\ r.page = p /\ r # None /\ Asks(r)
               /\ Put(t, p, r) /\ Onces(RQ')
               /\ t = "STLB" => Took(t, p)
               /\ t # "STLB" => Passed(t, p, Down(r))
               /\ UNCHANGED PROCESSED
    BY <1>0, <1>6, MissView
  <2>2. KindOK(t, Of(RQ[t], p))
    BY <2>1, <1>0 DEF IsKind
  <2>3. \A u \in TLBs, x \in Pages : IsKind(u, MSHR'[u][x])
    BY <2>1, <2>2, PutKinds DEF IsKind
  <2>4. \A u \in TLBs, x \in Pages : IsKind(u, Of(RQ'[u], x))
    <3>1. CASE t = "STLB"
      BY <2>1, <3>1, TookKinds
    <3>2. CASE t # "STLB"
      <4>1. t \in UpperTLBs /\ Of(RQ[t], p) \in Packets
        BY <2>1, <3>2 DEF TLBs, UpperTLBs, Requests
      <4>2. Down(Of(RQ[t], p)) \in Requests /\ KindOK("STLB", Down(Of(RQ[t], p)))
        BY <4>1, <2>1, <2>2, DownKind
      <4>3. IsKind("STLB", Of(RQ'["STLB"], p))
        BY <4>2, <2>1, <3>2, PassedKinds DEF Passed
      <4>4. ASSUME NEW u \in TLBs, NEW x \in Pages, ~(u = "STLB" /\ x = p)
            PROVE  IsKind(u, Of(RQ'[u], x))
        <5>1. Of(RQ'[u], x) \in {None, Of(RQ[u], x)}
          BY <4>4, <2>1, <3>2 DEF Passed
        <5> QED BY <5>1, <1>0 DEF IsKind
      <4> QED BY <4>3, <4>4
    <3> QED BY <3>1, <3>2
  <2> QED BY <2>1, <2>3, <2>4, KindsKept DEF KindsNow
<1>7. ASSUME NEW t \in TLBs, merge(t) PROVE KindsOK'
  <2>1. PICK p \in Pages :
           LET r == Of(RQ[t], p)
               m == MSHR[t][p]
           IN  /\ r \in Requests /\ r.page = p /\ r # None
               /\ m \in Misses(p, translation) /\ m # None
               /\ Put(t, p, MergeMiss(m, t, r)) /\ Onces(RQ') /\ Took(t, p)
               /\ UNCHANGED PROCESSED
    BY <1>0, <1>7, MergeView
  <2>2. KindOK(t, Of(RQ[t], p)) /\ KindOK(t, MSHR[t][p])
    BY <2>1, <1>0 DEF IsKind
  <2>3. IsKind(t, MergeMiss(MSHR[t][p], t, Of(RQ[t], p)))
    BY <2>1, <2>2, MissKind DEF IsKind
  <2>4. \A u \in TLBs, x \in Pages : IsKind(u, MSHR'[u][x])
    BY <2>1, <2>3, PutKinds
  <2>5. \A u \in TLBs, x \in Pages : IsKind(u, Of(RQ'[u], x))
    BY <2>1, TookKinds
  <2> QED BY <2>1, <2>4, <2>5, KindsKept DEF KindsNow
<1>8. ASSUME NEW t \in TLBs, NEW p \in Pages, fill(t, p) \/ drop(t, p) PROVE KindsOK'
  <2>1. PICK e \in Answers, packets \in Seq(Answers) :
           LET m == MSHR[t][p]
           IN  /\ m # None
               /\ Freed(IF t = "STLB" THEN Receivers(m) ELSE {}, t, p)
               /\ Named(e) = Named(m) /\ AnswersOf(packets, e)
               /\ GaveOK(t, packets)
               /\ UNCHANGED RQ
    BY <1>8, AnswerView
  <2>2. t = "STLB" => ForPrefetches(Named(e))
    BY <2>1, <1>0 DEF IsKind, KindOK
  <2>4. \A i \in DOMAIN PROCESSED'["STLB"] : ForPrefetches(Named(PROCESSED'["STLB"][i]))
    BY <2>1, <2>2, GaveKinds
  <2>5. \A u \in TLBs, x \in Pages : IsKind(u, MSHR'[u][x])
    BY <2>1, ReturnedKinds
  <2> QED BY <2>1, <2>4, <2>5, <1>0 DEF KindsOK
<1>9. ASSUME NEW t \in TLBs, NEW p \in Pages, ask_again(t, p) PROVE KindsOK'
  <2>1. PICK y \in Packets :
           LET m == MSHR[t][p]
           IN  /\ m \in Misses(p, translation) /\ m # None /\ Asks(m)
               /\ y # None /\ Alike(m, y) /\ Put(t, p, y) /\ Onces(RQ')
               /\ t = "STLB" => UNCHANGED RQ
               /\ t # "STLB" =>
                    /\ \A u \in TLBs, x \in Pages : ~(u = "STLB" /\ x = p) =>
                         Of(RQ'[u], x) = Of(RQ[u], x)
                    /\ \/ Of(RQ'["STLB"], p) = Added(Of(RQ["STLB"], p), "STLB", Down(m))
                       \/ Of(RQ'["STLB"], p) = Of(RQ["STLB"], p) /\ ~HasRoom(RQ, "STLB", p)
               /\ UNCHANGED PROCESSED
    BY <1>0, <1>9, AskAgainView
  <2>2. KindOK(t, MSHR[t][p]) /\ KindOK(t, y)
    BY <2>1, <1>0, AlikeSame DEF IsKind
  <2>3. \A u \in TLBs, x \in Pages : IsKind(u, MSHR'[u][x])
    BY <2>1, <2>2, PutKinds DEF IsKind
  <2>4. \A u \in TLBs, x \in Pages : IsKind(u, Of(RQ'[u], x))
    <3>1. CASE t = "STLB"
      BY <2>1, <3>1, <1>0
    <3>2. CASE t # "STLB"
      <4>1. t \in UpperTLBs /\ MSHR[t][p] \in Packets
        BY <2>1, <3>2 DEF TLBs, UpperTLBs, Misses
      <4>2. Down(MSHR[t][p]) \in Requests /\ KindOK("STLB", Down(MSHR[t][p]))
        BY <4>1, <2>1, <2>2, DownKind
      <4>3. IsKind("STLB", Of(RQ'["STLB"], p))
        BY <4>2, <2>1, <3>2, PassedKinds
      <4> QED BY <4>3, <2>1, <3>2, <1>0
    <3> QED BY <3>1, <3>2
  <2> QED BY <2>1, <2>3, <2>4, KindsKept DEF KindsNow
<1>10. ASSUME NEW p \in Pages, translated(p) \/ dropped(p) PROVE KindsOK'
  <2>1. Returned({"STLB"}, p) /\ UNCHANGED <<RQ, PROCESSED>>
    BY <1>10, WalkerView
  <2>2. \A u \in TLBs, x \in Pages : IsKind(u, MSHR'[u][x])
    BY <2>1, ReturnedKinds
  <2> QED BY <2>1, <2>2, <1>0 DEF KindsOK
<1>11. CASE request
  <2>1. "L1I" \in L1s /\ "L1D" \in L1s /\ CodePages \subseteq Pages /\ DataPages \subseteq Pages
    BY QueuesCoverTranslations DEF L1s
  <2> QED BY <1>1, <1>2, <1>11, <2>1 DEF request
<1>12. CASE operate
  BY <1>3, <1>4, <1>5, <1>6, <1>7, <1>8, <1>9, <1>10, <1>12 DEF operate
<1> QED BY <1>11, <1>12 DEF Next

\* which hold at first,
LEMMA KindsFirst ==
  ASSUME Init
  PROVE  KindsOK
<1>1. \A t \in TLBs : RQ[t] = <<>> /\ PROCESSED[t] = <<>> /\ \A p \in Pages : MSHR[t][p] = None
  BY DEF Init
<1>2. "STLB" \in TLBs
  BY DEF TLBs
<1>3. \A t \in TLBs : Once(RQ[t]) /\ \A p : Of(RQ[t], p) = None
  BY <1>1 DEF Once, Of
<1>4. \A i \in DOMAIN PROCESSED["STLB"] : ForPrefetches(Named(PROCESSED["STLB"][i]))
  BY <1>1, <1>2
<1> QED BY <1>1, <1>3, <1>4 DEF KindsOK, IsKind, Onces

\* and always: what a TLB holds is of the kind that its place calls for.
LEMMA KindsStay == Spec => []KindsOK
<1>1. IInv /\ KindsOK /\ [Next]_vars => KindsOK'
  <2>1. KindsOK /\ UNCHANGED vars => KindsOK'
    BY DEF vars, KindsOK
  <2> QED BY <2>1, KindsStep
<1> QED BY <1>1, KindsFirst, TranslationInvariance, PTL DEF Spec


-----------------------------------------------------------------------------
(* Misses on their way through STLB *)

\* Packet x will be returned to TLB t; t waits for page p.
Tells(x, t) == x # None /\ t \in Receivers(x)
AwaitsBelow(t, p) == MSHR[t][p] # None /\ ~MSHR[t][p].returned

\* What t waits for is on its way in STLB, in its read queue or in an MSHR.
CarriedAt(t, p) ==
  LET reads == Tells(Of(RQ["STLB"], p), t)
      misses == Tells(MSHR["STLB"][p], t)
  IN  ~(reads /\ misses) /\ (AwaitsBelow(t, p) <=> reads \/ misses)
CarriedOK == \A t \in UpperTLBs, p \in Pages : CarriedAt(t, p)

\* A TLB starts to wait for a page when the read queue of STLB is full of others.
MissOverflows ==
  \E t \in UpperTLBs, p \in Pages :
    ~AwaitsBelow(t, p) /\ AwaitsBelow(t, p)' /\ ~HasRoom(RQ, "STLB", p)

\* Nothing happens to the carriers of p for t.
LEMMA CarriedSame ==
  ASSUME NEW t \in UpperTLBs, NEW p \in Pages, CarriedAt(t, p),
         Tells(Of(RQ'["STLB"], p), t) <=> Tells(Of(RQ["STLB"], p), t),
         Tells(MSHR'["STLB"][p], t) <=> Tells(MSHR["STLB"][p], t),
         AwaitsBelow(t, p)' <=> AwaitsBelow(t, p)
  PROVE  CarriedAt(t, p)'
BY DEF CarriedAt, Tells

\* A request added to STLB, none of whose receivers is told of it yet.
LEMMA AddedTells ==
  ASSUME IInv, KindsOK, NEW p \in Pages, NEW r \in Requests, KindOK("STLB", r), ~r.both,
         \A t \in UpperTLBs : ~(Tells(Of(RQ["STLB"], p), t) /\ t \in Receivers(r)),
         NEW t \in UpperTLBs
  PROVE  Tells(Added(Of(RQ["STLB"], p), "STLB", r), t) <=>
           Tells(Of(RQ["STLB"], p), t) \/ t \in Receivers(r)
<1> DEFINE x == Of(RQ["STLB"], p)
<1>1. /\ x # None => x \in Requests
      /\ IsKind("STLB", x)
  <2>1. "STLB" \in TLBs
    BY DEF TLBs
  <2> QED BY <2>1, Reading DEF IInv, KindsOK
<1>2. r # None
  BY Nothing DEF Requests
<1> HIDE DEF x
<1>3. CASE x = None
  BY <1>2, <1>3 DEF Added, Tells, x
<1>4. CASE x # None
  <2>1. x \in Requests /\ KindOK("STLB", x)
    BY <1>1, <1>4 DEF IsKind
  <2>2. \A u \in UpperTLBs : ~(u \in Receivers(x) /\ u \in Receivers(r))
    BY <1>4 DEF Tells, x
  <2>3. MergeRead(x, "STLB", r) # None
    BY <2>1, MergeIsRequest, Nothing DEF Requests
  <2>4. t \in Receivers(MergeRead(x, "STLB", r)) <=> t \in Receivers(x) \/ t \in Receivers(r)
    BY <2>1, <2>2, ReadReceives
  <2> QED BY <1>4, <2>3, <2>4 DEF Added, Tells, x
<1> QED BY <1>3, <1>4

\* t starts to wait for p, and STLB has room for its request.
LEMMA PassedCarried ==
  ASSUME IInv, KindsOK, CarriedOK, ~MissOverflows, NEW t \in UpperTLBs, NEW p \in Pages,
         NEW r \in Packets, Asks(r), KindOK(t, r), r.page = p,
         ~AwaitsBelow(t, p), AwaitsBelow(t, p)',
         \A u \in TLBs, x \in Pages : ~(u = t /\ x = p) => MSHR'[u][x] = MSHR[u][x],
         \A x \in Pages : x # p => Of(RQ'["STLB"], x) = Of(RQ["STLB"], x),
         \/ Of(RQ'["STLB"], p) = Added(Of(RQ["STLB"], p), "STLB", Down(r))
         \/ Of(RQ'["STLB"], p) = Of(RQ["STLB"], p) /\ ~HasRoom(RQ, "STLB", p)
  PROVE  CarriedOK'
<1>1. "STLB" \in TLBs /\ t # "STLB" /\ UpperTLBs \subseteq TLBs
  BY DEF TLBs, UpperTLBs
<1>2. HasRoom(RQ, "STLB", p)
  BY DEF MissOverflows
<1>3. Of(RQ'["STLB"], p) = Added(Of(RQ["STLB"], p), "STLB", Down(r))
  BY <1>2
<1>4. /\ Down(r) \in Requests /\ KindOK("STLB", Down(r)) /\ ~Down(r).both
      /\ \A u \in UpperTLBs : u \in Receivers(Down(r)) <=> u = t
  BY DownKind
<1>5. CarriedAt(t, p)
  BY DEF CarriedOK
<1>6. ~Tells(Of(RQ["STLB"], p), t) /\ ~Tells(MSHR["STLB"][p], t)
  BY <1>5 DEF CarriedAt
<1>7. \A u \in UpperTLBs : Tells(Of(RQ'["STLB"], p), u) <=>
                             Tells(Of(RQ["STLB"], p), u) \/ u = t
  BY <1>3, <1>4, <1>6, AddedTells
<1>8. \A x \in Pages : MSHR'["STLB"][x] = MSHR["STLB"][x]
  BY <1>1
<1>9. ASSUME NEW u \in UpperTLBs, NEW x \in Pages PROVE CarriedAt(u, x)'
  <2>1. CASE u = t /\ x = p
    BY <2>1, <1>6, <1>7, <1>8 DEF CarriedAt
  <2>2. CASE ~(u = t /\ x = p)
    <3>1. AwaitsBelow(u, x)' <=> AwaitsBelow(u, x)
      BY <2>2, <1>1 DEF AwaitsBelow
    <3>2. Tells(Of(RQ'["STLB"], x), u) <=> Tells(Of(RQ["STLB"], x), u)
      BY <2>2, <1>7
    <3>3. CarriedAt(u, x)
      BY DEF CarriedOK
    <3> QED BY <3>1, <3>2, <3>3, <1>8, CarriedSame
  <2> QED BY <2>1, <2>2
<1> QED BY <1>9 DEF CarriedOK

\* The receivers of a packet of STLB are told that p is answered, and the packet
\* goes.
LEMMA TellCarried ==
  ASSUME CarriedOK, NEW p \in Pages, NEW r, r # None,
         \/ /\ r = Of(RQ["STLB"], p) /\ Took("STLB", p) /\ Returned(Receivers(r), p)
         \/ /\ r = MSHR["STLB"][p] /\ RQ' = RQ /\ Freed(Receivers(r), "STLB", p)
  PROVE  CarriedOK'
<1>1. "STLB" \in TLBs /\ UpperTLBs \subseteq TLBs /\ "STLB" \notin UpperTLBs
      /\ "STLB" \notin Receivers(r)
  BY DEF TLBs, UpperTLBs, Receivers
<1> SUFFICES ASSUME NEW t \in UpperTLBs, NEW x \in Pages PROVE CarriedAt(t, x)'
  BY DEF CarriedOK
<1>2. CarriedAt(t, x)
  BY DEF CarriedOK
<1>3. CASE x = p /\ t \in Receivers(r)
  <2>1. ~AwaitsBelow(t, p)'
    BY <1>1, <1>3 DEF Returned, Freed, AwaitsBelow
  <2>2. ~Tells(Of(RQ'["STLB"], p), t) /\ ~Tells(MSHR'["STLB"][p], t)
    <3>1. CASE r = Of(RQ["STLB"], p) /\ Took("STLB", p) /\ Returned(Receivers(r), p)
      <4>1. Of(RQ'["STLB"], p) = None /\ MSHR'["STLB"][p] = MSHR["STLB"][p]
        BY <3>1, <1>1 DEF Took, Returned
      <4>2. ~Tells(MSHR["STLB"][p], t)
        BY <3>1, <1>2, <1>3 DEF CarriedAt, Tells
      <4> QED BY <4>1, <4>2 DEF Tells
    <3>2. CASE r = MSHR["STLB"][p] /\ RQ' = RQ /\ Freed(Receivers(r), "STLB", p)
      <4>1. MSHR'["STLB"][p] = None
        BY <3>2, <1>1 DEF Freed
      <4>2. ~Tells(Of(RQ["STLB"], p), t)
        BY <3>2, <1>2, <1>3 DEF CarriedAt, Tells
      <4> QED BY <4>1, <4>2, <3>2 DEF Tells
    <3> QED BY <3>1, <3>2
  <2> QED BY <2>1, <2>2, <1>3 DEF CarriedAt
<1>4. CASE ~(x = p /\ t \in Receivers(r))
  <2>1. MSHR'[t][x] = MSHR[t][x]
    BY <1>1, <1>4 DEF Returned, Freed
  <2>2. AwaitsBelow(t, x)' <=> AwaitsBelow(t, x)
    BY <2>1 DEF AwaitsBelow
  <2>3. /\ Tells(Of(RQ'["STLB"], x), t) <=> Tells(Of(RQ["STLB"], x), t)
        /\ Tells(MSHR'["STLB"][x], t) <=> Tells(MSHR["STLB"][x], t)
    <3>1. CASE r = Of(RQ["STLB"], p) /\ Took("STLB", p) /\ Returned(Receivers(r), p)
      <4>1. MSHR'["STLB"][x] = MSHR["STLB"][x]
        BY <3>1, <1>1 DEF Returned
      <4>2. Of(RQ'["STLB"], x) = IF x = p THEN None ELSE Of(RQ["STLB"], x)
        BY <3>1, <1>1 DEF Took
      <4> QED BY <4>1, <4>2, <3>1, <1>4 DEF Tells
    <3>2. CASE r = MSHR["STLB"][p] /\ RQ' = RQ /\ Freed(Receivers(r), "STLB", p)
      <4>1. MSHR'["STLB"][x] = IF x = p THEN None ELSE MSHR["STLB"][x]
        BY <3>2, <1>1 DEF Freed
      <4> QED BY <4>1, <3>2, <1>4 DEF Tells
    <3> QED BY <3>1, <3>2
  <2> QED BY <2>2, <2>3, <1>2, CarriedSame
<1> QED BY <1>3, <1>4

\* Every step carries each miss of ITLB or DTLB once, as long as none finds the
\* read queue of STLB full.
LEMMA CarriedStep ==
  ASSUME IInv, KindsOK, CarriedOK, Next, ~MissOverflows
  PROVE  CarriedOK'
<1>0. /\ Onces(RQ) /\ "STLB" \in TLBs /\ UpperTLBs \subseteq TLBs /\ "STLB" \notin UpperTLBs
      /\ \A t \in TLBs, p \in Pages : IsKind(t, Of(RQ[t], p)) /\ IsKind(t, MSHR[t][p])
  BY DEF KindsOK, TLBs, UpperTLBs
\* The MSHRs of ITLB and DTLB wait as before, and so do the packets of STLB.
<1>a. ASSUME \A t \in UpperTLBs, p \in Pages :
               /\ AwaitsBelow(t, p)' <=> AwaitsBelow(t, p)
               /\ Tells(Of(RQ'["STLB"], p), t) <=> Tells(Of(RQ["STLB"], p), t)
               /\ Tells(MSHR'["STLB"][p], t) <=> Tells(MSHR["STLB"][p], t)
      PROVE  CarriedOK'
  BY <1>a, CarriedSame DEF CarriedOK
<1>1. ASSUME NEW c \in L1s, NEW queue, NEW p \in Pages, demand(c, queue, p)
      PROVE  CarriedOK'
  <2>1. PICK s \in Slots[c] :
          Got(Translator[c], p, Packet(p, "LOAD_TRANSLATION", 1, c = "L1I", s))
          /\ UNCHANGED MSHR
    BY <1>0, <1>1, DemandView
  <2>2. Translator[c] # "STLB"
    BY DEF Translator, L1s
  <2>3. \A x \in Pages : Of(RQ'["STLB"], x) = Of(RQ["STLB"], x)
    BY <2>1, <2>2, <1>0 DEF Got
  <2> QED BY <2>1, <2>3, <1>a DEF AwaitsBelow
<1>2. ASSUME NEW c \in L1s, NEW p \in Pages, prefetch(c, p)
      PROVE  CarriedOK'
  <2>1. PICK s \in Slots[c] :
           LET r == Packet(p, "TRANSLATION_FROM_L1D", IF c = "L1I" THEN 1 ELSE 2,
                           c = "L1I", s)
           IN  /\ s[1] = "PQ" /\ r \in Requests /\ Got(Below(c), p, r)
               /\ UNCHANGED MSHR
    BY <1>0, <1>2, PrefetchView
  <2>2. CASE c = "L1I"
    <3>1. Below(c) # "STLB"
      BY <2>2 DEF Below
    <3>2. \A x \in Pages : Of(RQ'["STLB"], x) = Of(RQ["STLB"], x)
      BY <2>1, <3>1, <1>0 DEF Got
    <3> QED BY <2>1, <3>2, <1>a DEF AwaitsBelow
  <2>3. CASE c = "L1D"
    <3> DEFINE r == Packet(p, "TRANSLATION_FROM_L1D", IF c = "L1I" THEN 1 ELSE 2,
                           c = "L1I", s)
    <3>1. r.fill = 2 /\ ~r.both
      BY <2>3 DEF Packet
    <3>2. Below(c) = "STLB"
      BY <2>3 DEF Below
    <3>3. r \in Requests /\ KindOK("STLB", r)
      BY <2>1, <3>2, SentKind
    <3>4. Got("STLB", p, r)
      BY <2>1, <3>2
    <3> HIDE DEF r
    <3>5. Receivers(r) = {}
      BY <3>1 DEF Receivers
    <3>6. \A t \in UpperTLBs :
            Tells(Added(Of(RQ["STLB"], p), "STLB", r), t) <=> Tells(Of(RQ["STLB"], p), t)
      BY <3>1, <3>3, <3>5, AddedTells
    <3>7. \A t \in UpperTLBs, x \in Pages :
            Tells(Of(RQ'["STLB"], x), t) <=> Tells(Of(RQ["STLB"], x), t)
      BY <3>4, <3>6, <1>0 DEF Got
    <3> QED BY <2>1, <3>7, <1>a DEF AwaitsBelow
  <2> QED BY <2>2, <2>3 DEF L1s
<1>3. ASSUME NEW t \in TLBs, handle_processed(t) PROVE CarriedOK'
  <2>1. UNCHANGED <<RQ, MSHR>>
    BY <1>3, HandleView
  <2> QED BY <2>1, <1>a DEF AwaitsBelow
<1>4. ASSUME NEW c \in L1s, NEW s \in Slots[c], use(c, s) PROVE CarriedOK'
  <2>1. UNCHANGED <<RQ, MSHR>>
    BY <1>4, UseView
  <2> QED BY <2>1, <1>a DEF AwaitsBelow
<1>5. ASSUME NEW t \in TLBs, hit(t) PROVE CarriedOK'
  <2>1. PICK p \in Pages :
           LET r == Of(RQ[t], p)
           IN  /\ r \in Requests /\ Took(t, p)
               /\ Returned(IF t = "STLB" THEN Receivers(r) ELSE {}, p)
    BY <1>0, <1>5, HitView
  <2>2. Of(RQ[t], p) # None
    BY <2>1, Nothing DEF Requests
  <2>3. CASE t = "STLB"
    BY <2>1, <2>2, <2>3, TellCarried
  <2>4. CASE t # "STLB"
    <3>1. \A u \in TLBs, x \in Pages : MSHR'[u][x] = MSHR[u][x]
      BY <2>1, <2>4 DEF Returned
    <3>2. \A x \in Pages : Of(RQ'["STLB"], x) = Of(RQ["STLB"], x)
      BY <2>1, <2>4, <1>0 DEF Took
    <3> QED BY <3>1, <3>2, <1>0, <1>a DEF AwaitsBelow
  <2> QED BY <2>3, <2>4
<1>6. ASSUME NEW t \in TLBs, miss(t) PROVE CarriedOK'
  <2>1. PICK p \in Pages :
           LET r == Of(RQ[t], p)
           IN  /\ r \in Requests /\ r.page = p /\ r # None /\ Asks(r)
               /\ MSHR[t][p] = None /\ Put(t, p, r)
               /\ t = "STLB" => Took(t, p)
               /\ t # "STLB" => Passed(t, p, Down(r))
    BY <1>0, <1>6, MissView
  <2> DEFINE r == Of(RQ[t], p)
  <2>2. r \in Packets /\ ~r.returned /\ KindOK(t, r)
    BY <2>1, <1>0 DEF Requests, IsKind
  <2>3. CASE t = "STLB"
    <3>1. \A u \in UpperTLBs, x \in Pages : MSHR'[u][x] = MSHR[u][x]
      BY <2>1, <2>3, <1>0 DEF Put
    <3>2. \A x \in Pages : /\ Of(RQ'["STLB"], x) = IF x = p THEN None ELSE Of(RQ["STLB"], x)
                           /\ MSHR'["STLB"][x] = IF x = p THEN r ELSE MSHR["STLB"][x]
      BY <2>1, <2>3, <1>0 DEF Put, Took
    <3>3. ASSUME NEW u \in UpperTLBs, NEW x \in Pages PROVE CarriedAt(u, x)'
      <4>1. AwaitsBelow(u, x)' <=> AwaitsBelow(u, x)
        BY <3>1 DEF AwaitsBelow
      <4>2. CarriedAt(u, x)
        BY DEF CarriedOK
      <4>3. CASE x = p
        <5>1. Of(RQ'["STLB"], p) = None /\ MSHR'["STLB"][p] = Of(RQ["STLB"], p)
              /\ MSHR["STLB"][p] = None
          BY <3>2, <2>1, <2>3
        <5> QED BY <4>1, <4>2, <4>3, <5>1 DEF CarriedAt, Tells
      <4>4. CASE x # p
        BY <4>1, <4>2, <4>4, <3>2, CarriedSame
      <4> QED BY <4>3, <4>4
    <3> QED BY <3>3 DEF CarriedOK
  <2>4. CASE t # "STLB"
    <3>1. t \in UpperTLBs
      BY <2>4 DEF TLBs, UpperTLBs
    <3>2. ~AwaitsBelow(t, p) /\ AwaitsBelow(t, p)'
      BY <2>1, <2>2 DEF AwaitsBelow, Put
    <3>3. \A u \in TLBs, x \in Pages : ~(u = t /\ x = p) => MSHR'[u][x] = MSHR[u][x]
      BY <2>1 DEF Put
    <3>4. /\ \A x \in Pages : x # p => Of(RQ'["STLB"], x) = Of(RQ["STLB"], x)
          /\ \/ Of(RQ'["STLB"], p) = Added(Of(RQ["STLB"], p), "STLB", Down(r))
             \/ Of(RQ'["STLB"], p) = Of(RQ["STLB"], p) /\ ~HasRoom(RQ, "STLB", p)
      BY <2>1, <2>4, <1>0 DEF Passed
    <3>5. Asks(r) /\ r.page = p
      BY <2>1
    <3> HIDE DEF r
    <3> QED BY <2>2, <3>1, <3>2, <3>3, <3>4, <3>5, PassedCarried
  <2> QED BY <2>3, <2>4
<1>7. ASSUME NEW t \in TLBs, merge(t) PROVE CarriedOK'
  <2>1. PICK p \in Pages :
           LET r == Of(RQ[t], p)
               m == MSHR[t][p]
           IN  /\ r \in Requests /\ r.page = p /\ r # None
               /\ m \in Misses(p, translation) /\ m # None
               /\ MergeMiss(m, t, r) # None
               /\ Put(t, p, MergeMiss(m, t, r)) /\ Took(t, p)
    BY <1>0, <1>7, MergeView
  <2> DEFINE r == Of(RQ[t], p)
             m == MSHR[t][p]
             n == MergeMiss(m, t, r)
  <2>2. KindOK(t, r) /\ KindOK(t, m) /\ n.returned = m.returned
    BY <2>1, <1>0, MergeIsMiss DEF IsKind
  <2>3. \A u \in TLBs, x \in Pages :
          /\ MSHR'[u][x] = IF u = t /\ x = p THEN n ELSE MSHR[u][x]
          /\ Of(RQ'[u], x) = IF u = t /\ x = p THEN None ELSE Of(RQ[u], x)
    BY <2>1 DEF Put, Took
  <2>4. \A u \in TLBs, x \in Pages : AwaitsBelow(u, x)' <=> AwaitsBelow(u, x)
    <3> HIDE DEF n
    <3> QED BY <2>1, <2>2, <2>3 DEF AwaitsBelow, n
  <2>5. CASE t = "STLB"
    <3>1. ASSUME NEW u \in UpperTLBs
          PROVE  ~(u \in Receivers(m) /\ u \in Receivers(r))
      <4>1. CarriedAt(u, p)
        BY DEF CarriedOK
      <4> QED BY <4>1, <2>1, <2>5 DEF CarriedAt, Tells
    <3>2. \A u \in UpperTLBs : u \in Receivers(n) <=> u \in Receivers(m) \/ u \in Receivers(r)
      BY <2>1, <2>2, <2>5, <3>1, MissReceives
    <3>3. n # None /\ m # None /\ r # None
      BY <2>1
    <3>4. \A x \in Pages :
            /\ MSHR'["STLB"][x] = IF x = p THEN n ELSE MSHR["STLB"][x]
            /\ Of(RQ'["STLB"], x) = IF x = p THEN None ELSE Of(RQ["STLB"], x)
      BY <2>3, <2>5, <1>0
    <3>5. m = MSHR["STLB"][p] /\ r = Of(RQ["STLB"], p)
      BY <2>5
    <3> HIDE DEF n, m, r
    <3>6. ASSUME NEW u \in UpperTLBs, NEW x \in Pages PROVE CarriedAt(u, x)'
      <4>1. AwaitsBelow(u, x)' <=> AwaitsBelow(u, x)
        BY <2>4, <1>0
      <4>2. CarriedAt(u, x)
        BY DEF CarriedOK
      <4>3. CASE x = p
        <5>1. Of(RQ'["STLB"], p) = None /\ MSHR'["STLB"][p] = n
          BY <3>4
        <5>2. /\ ~Tells(Of(RQ'["STLB"], p), u)
              /\ Tells(MSHR'["STLB"][p], u) <=> Tells(m, u) \/ Tells(r, u)
          BY <5>1, <3>2, <3>3 DEF Tells
        <5> QED BY <4>1, <4>2, <4>3, <5>2, <3>5 DEF CarriedAt
      <4>4. CASE x # p
        BY <4>1, <4>2, <4>4, <3>4, CarriedSame
      <4> QED BY <4>3, <4>4
    <3> QED BY <3>6 DEF CarriedOK
  <2>6. CASE t # "STLB"
    <3>1. \A x \in Pages : /\ MSHR'["STLB"][x] = MSHR["STLB"][x]
                           /\ Of(RQ'["STLB"], x) = Of(RQ["STLB"], x)
      BY <2>3, <2>6, <1>0
    <3> QED BY <2>4, <3>1, <1>0, <1>a
  <2> QED BY <2>5, <2>6
<1>8. ASSUME NEW t \in TLBs, NEW p \in Pages, fill(t, p) \/ drop(t, p) PROVE CarriedOK'
  <2>1. LET m == MSHR[t][p]
        IN  /\ m # None /\ m.returned
            /\ Freed(IF t = "STLB" THEN Receivers(m) ELSE {}, t, p) /\ RQ' = RQ
    BY <1>8, AnswerView
  <2>2. CASE t = "STLB"
    BY <2>1, <2>2, TellCarried
  <2>3. CASE t # "STLB"
    <3>1. \A u \in TLBs, x \in Pages :
            MSHR'[u][x] = IF u = t /\ x = p THEN None ELSE MSHR[u][x]
      BY <2>1, <2>3 DEF Freed
    <3>2. \A u \in TLBs, x \in Pages : AwaitsBelow(u, x)' <=> AwaitsBelow(u, x)
      BY <2>1, <3>1 DEF AwaitsBelow
    <3>3. \A x \in Pages : MSHR'["STLB"][x] = MSHR["STLB"][x]
      BY <3>1, <2>3, <1>0
    <3> QED BY <2>1, <3>2, <3>3, <1>0, <1>a
  <2> QED BY <2>2, <2>3
<1>9. ASSUME NEW t \in TLBs, NEW p \in Pages, ask_again(t, p) PROVE CarriedOK'
  <2>1. PICK y \in Packets :
           LET m == MSHR[t][p]
           IN  /\ m \in Misses(p, translation) /\ m # None /\ m.returned
               /\ m.page = p /\ Asks(m)
               /\ y # None /\ ~y.returned /\ Alike(m, y) /\ Put(t, p, y)
               /\ t = "STLB" => UNCHANGED RQ
               /\ t # "STLB" =>
                    /\ \A u \in TLBs, x \in Pages : ~(u = "STLB" /\ x = p) =>
                         Of(RQ'[u], x) = Of(RQ[u], x)
                    /\ \/ Of(RQ'["STLB"], p) = Added(Of(RQ["STLB"], p), "STLB", Down(m))
                       \/ Of(RQ'["STLB"], p) = Of(RQ["STLB"], p) /\ ~HasRoom(RQ, "STLB", p)
    BY <1>0, <1>9, AskAgainView
  <2> DEFINE m == MSHR[t][p]
  <2>2. \A u \in TLBs, x \in Pages : MSHR'[u][x] = IF u = t /\ x = p THEN y ELSE MSHR[u][x]
    BY <2>1 DEF Put
  <2>3. CASE t = "STLB"
    <3>1. Receivers(y) = Receivers(m)
      BY <2>1, AlikeSame
    <3>2. \A u \in UpperTLBs, x \in Pages :
            /\ AwaitsBelow(u, x)' <=> AwaitsBelow(u, x)
            /\ Tells(MSHR'["STLB"][x], u) <=> Tells(MSHR["STLB"][x], u)
      BY <2>1, <2>2, <2>3, <3>1, <1>0 DEF AwaitsBelow, Tells
    <3>3. RQ' = RQ
      BY <2>1, <2>3
    <3> QED BY <3>2, <3>3, <1>a
  <2>4. CASE t # "STLB"
    <3>1. t \in UpperTLBs
      BY <2>4 DEF TLBs, UpperTLBs
    <3>2. ~AwaitsBelow(t, p) /\ AwaitsBelow(t, p)'
      BY <2>1, <2>2 DEF AwaitsBelow
    <3>3. \A u \in TLBs, x \in Pages : ~(u = t /\ x = p) => MSHR'[u][x] = MSHR[u][x]
      BY <2>2
    <3>4. /\ \A x \in Pages : x # p => Of(RQ'["STLB"], x) = Of(RQ["STLB"], x)
          /\ \/ Of(RQ'["STLB"], p) = Added(Of(RQ["STLB"], p), "STLB", Down(m))
             \/ Of(RQ'["STLB"], p) = Of(RQ["STLB"], p) /\ ~HasRoom(RQ, "STLB", p)
      BY <2>1, <2>4, <1>0
    <3>5. m \in Packets /\ KindOK(t, m) /\ Asks(m) /\ m.page = p
      BY <2>1, <1>0 DEF IsKind, Misses
    <3> HIDE DEF m
    <3> QED BY <3>1, <3>2, <3>3, <3>4, <3>5, PassedCarried
  <2> QED BY <2>3, <2>4
<1>10. ASSUME NEW p \in Pages, translated(p) \/ dropped(p) PROVE CarriedOK'
  <2>1. Returned({"STLB"}, p) /\ UNCHANGED RQ
    BY <1>10, WalkerView
  <2>2. \A u \in UpperTLBs, x \in Pages : MSHR'[u][x] = MSHR[u][x]
    BY <2>1, <1>0 DEF Returned
  <2>3. ASSUME NEW u \in UpperTLBs, NEW x \in Pages
        PROVE  Tells(MSHR'["STLB"][x], u) <=> Tells(MSHR["STLB"][x], u)
    <3>1. \/ MSHR'["STLB"][x] = MSHR["STLB"][x]
          \/ /\ MSHR["STLB"][x] # None /\ MSHR'["STLB"][x] # None
             /\ Alike(MSHR["STLB"][x], MSHR'["STLB"][x])
      BY <2>1, <1>0 DEF Returned
    <3> QED BY <3>1, AlikeSame DEF Tells
  <2> QED BY <2>1, <2>2, <2>3, <1>a DEF AwaitsBelow
<1>11. CASE request
  <2>1. "L1I" \in L1s /\ "L1D" \in L1s /\ CodePages \subseteq Pages /\ DataPages \subseteq Pages
    BY QueuesCoverTranslations DEF L1s
  <2> QED BY <1>1, <1>2, <1>11, <2>1 DEF request
<1>12. CASE operate
  BY <1>3, <1>4, <1>5, <1>6, <1>7, <1>8, <1>9, <1>10, <1>12 DEF operate
<1> QED BY <1>11, <1>12 DEF Next

\* No miss is on its way at first.
LEMMA CarriedFirst ==
  ASSUME Init
  PROVE  CarriedOK
<1>1. \A t \in TLBs : RQ[t] = <<>> /\ \A p \in Pages : MSHR[t][p] = None
  BY DEF Init
<1>2. "STLB" \in TLBs /\ UpperTLBs \subseteq TLBs
  BY DEF TLBs, UpperTLBs
<1>3. \A p \in Pages : Of(RQ["STLB"], p) = None
  BY <1>1, <1>2 DEF Of
<1> QED BY <1>1, <1>2, <1>3 DEF CarriedOK, CarriedAt, AwaitsBelow, Tells

\* The carriers of a page are counted.
LEMMA CarriedCount ==
  ASSUME IInv, KindsOK, CarriedOK
  PROVE  MissesCarriedOnce
<1> SUFFICES ASSUME NEW t \in UpperTLBs, NEW p \in Pages
             PROVE  Cardinality({x \in InQueue("STLB") \cup InMshr("STLB") :
                                   At("STLB", x).page = p /\ t \in Receivers(At("STLB", x))})
                      = (IF AwaitsBelow(t, p) THEN 1 ELSE 0)
  BY DEF MissesCarriedOnce, UpperTLBs, AwaitsBelow
<1> DEFINE C == {x \in InQueue("STLB") \cup InMshr("STLB") :
                   At("STLB", x).page = p /\ t \in Receivers(At("STLB", x))}
           q == RQ["STLB"]
<1>1. /\ "STLB" \in TLBs /\ CarriedAt(t, p) /\ q \in Seq(Requests) /\ Once(q)
      /\ \A x \in Pages : MSHR["STLB"][x] # None => MSHR["STLB"][x].page = x
  BY DEF IInv, QueuesOK, MissesOK, Misses, TLBs, CarriedOK, KindsOK, Onces
<1>2. /\ InQueue("STLB") = {<<"RQ", i>> : i \in DOMAIN q}
      /\ InMshr("STLB") = {<<"MSHR", x>> : x \in {y \in Pages : MSHR["STLB"][y] # None}}
      /\ \A i : At("STLB", <<"RQ", i>>) = q[i]
      /\ \A x : At("STLB", <<"MSHR", x>>) = MSHR["STLB"][x]
  BY DEF InQueue, InMshr, At
<1> HIDE DEF q
<1>3. \A x \in C : \/ \E i \in DOMAIN q : /\ x = <<"RQ", i>> /\ q[i].page = p
                                          /\ t \in Receivers(q[i])
                   \/ x = <<"MSHR", p>> /\ Tells(MSHR["STLB"][p], t)
  BY <1>1, <1>2 DEF Tells
<1>4. \A i \in DOMAIN q : q[i].page = p => Of(q, p) = q[i] /\ q[i] # None
  <2>1. \A i \in DOMAIN q : q[i] \in Requests
    BY <1>1
  <2> QED BY <2>1, <1>1, OfFound, Nothing DEF Requests
<1>5. CASE Tells(Of(q, p), t)
  <2>1. PICK i \in DOMAIN q : q[i].page = p
    BY <1>1, <1>5, OfFound DEF Tells
  <2>2. t \in Receivers(q[i])
    BY <2>1, <1>4, <1>5 DEF Tells
  <2>3. <<"RQ", i>> \in C
    BY <2>1, <2>2, <1>2
  <2>4. ~Tells(MSHR["STLB"][p], t) /\ AwaitsBelow(t, p)
    BY <1>1, <1>5 DEF CarriedAt, q
  <2>5. \A j \in DOMAIN q : q[j].page = p => j = i
    BY <2>1, <1>1 DEF Once
  <2> HIDE DEF C
  <2>6. C = {<<"RQ", i>>}
    BY <2>3, <2>4, <2>5, <1>3
  <2> QED BY <2>4, <2>6, FS_Singleton DEF C
<1>6. CASE ~Tells(Of(q, p), t)
  <2>1. \A j \in DOMAIN q : ~(q[j].page = p /\ t \in Receivers(q[j]))
    BY <1>4, <1>6 DEF Tells
  <2>2. CASE Tells(MSHR["STLB"][p], t)
    <3>1. <<"MSHR", p>> \in C
      BY <2>2, <1>1, <1>2 DEF Tells
    <3>2. AwaitsBelow(t, p)
      BY <2>2, <1>1 DEF CarriedAt
    <3> HIDE DEF C
    <3>3. C = {<<"MSHR", p>>}
      BY <3>1, <2>1, <1>3
    <3> QED BY <3>2, <3>3, FS_Singleton DEF C
  <2>3. CASE ~Tells(MSHR["STLB"][p], t)
    <3>1. ~AwaitsBelow(t, p)
      BY <2>3, <1>1, <1>6 DEF CarriedAt, q
    <3> HIDE DEF C
    <3>2. C = {}
      BY <2>1, <2>3, <1>3
    <3> QED BY <3>1, <3>2, FS_EmptySet DEF C
  <2> QED BY <2>2, <2>3
<1> QED BY <1>5, <1>6

\* ITLB and DTLB wait for exactly what STLB will return to them, whatever has
\* merged with what (add_rq, handle_read, handle_fill, return_data), as long as
\* no miss finds the read queue of STLB full of other pages.
THEOREM MissesCarried == Spec /\ [][~MissOverflows]_vars => []MissesCarriedOnce
<1>1. Init => CarriedOK
  BY CarriedFirst
<1>2. IInv /\ KindsOK /\ CarriedOK /\ [Next]_vars /\ [~MissOverflows]_vars => CarriedOK'
  <2>1. CarriedOK /\ UNCHANGED vars => CarriedOK'
    BY DEF vars, CarriedOK, CarriedAt, AwaitsBelow, Tells
  <2> QED BY <2>1, CarriedStep
<1>3. IInv /\ KindsOK /\ CarriedOK => MissesCarriedOnce
  BY CarriedCount
<1> QED BY <1>1, <1>2, <1>3, TranslationInvariance, KindsStay, PTL DEF Spec


-----------------------------------------------------------------------------
(* Slots on their way through ITLB or DTLB *)

\* The slots that ITLB or DTLB translates for, and the page that one waits for.
Mine(t) == {s \in Slots[Core(t)] : t = "DTLB" => s[1] # "PQ"}
Awaited(t, s) == IF s \in Mine(t) THEN Wants(Core(t), s) ELSE None

\* Packet x names slot s; a packet of page p that t has not answered names it;
\* so does answer i.
Names(x, s) == x # None /\ s \in Named(x)
Pending(t, p, s) == Names(Of(RQ[t], p), s) \/ Names(MSHR[t][p], s)
Told(t, i, s) == s \in Named(PROCESSED[t][i])

\* A slot is named once if it waits, and is not named if it does not.
SlotOK(t, s) ==
  LET w == Awaited(t, s)
  IN  /\ \A p \in Pages :
           /\ Pending(t, p, s) => w = p
           /\ ~(Names(Of(RQ[t], p), s) /\ Names(MSHR[t][p], s))
      /\ \A i \in DOMAIN PROCESSED[t] : Told(t, i, s) =>
           w = PROCESSED[t][i].page /\ \A p \in Pages : ~Pending(t, p, s)
      /\ \A i, j \in DOMAIN PROCESSED[t] : Told(t, i, s) /\ Told(t, j, s) => i = j
      /\ w # None => \/ \E p \in Pages : Pending(t, p, s)
                     \/ \E i \in DOMAIN PROCESSED[t] : Told(t, i, s)

\* That holds for every slot, and every answer has the slot that asked first.
SlotsOK == \A t \in UpperTLBs, s \in AllSlots : SlotOK(t, s)
OwnsOK ==
  \A t \in UpperTLBs : \A i \in DOMAIN PROCESSED[t] : PROCESSED[t][i].own # None

\* Where a slot is named changes: nowhere,
LEMMA SlotSame ==
  ASSUME NEW t \in UpperTLBs, NEW s \in AllSlots, SlotOK(t, s),
         Awaited(t, s)' = Awaited(t, s), PROCESSED'[t] = PROCESSED[t],
         \A p \in Pages : /\ Names(Of(RQ'[t], p), s) <=> Names(Of(RQ[t], p), s)
                          /\ Names(MSHR'[t][p], s) <=> Names(MSHR[t][p], s)
  PROVE  SlotOK(t, s)'
<1>1. /\ \A p \in Pages : Pending(t, p, s)' <=> Pending(t, p, s)
      /\ \A i : Told(t, i, s)' <=> Told(t, i, s)
  BY DEF Pending, Told
<1> QED BY <1>1 DEF SlotOK

\* it asks for a page,
LEMMA SlotAsks ==
  ASSUME IInv, NEW t \in UpperTLBs, NEW s \in AllSlots, SlotOK(t, s), NEW p \in Pages,
         Awaited(t, s) = None, Awaited(t, s)' = p, PROCESSED'[t] = PROCESSED[t],
         Names(Of(RQ'[t], p), s),
         \A x \in Pages : /\ x # p => (Names(Of(RQ'[t], x), s) <=> Names(Of(RQ[t], x), s))
                          /\ Names(MSHR'[t][x], s) <=> Names(MSHR[t][x], s)
  PROVE  SlotOK(t, s)'
<1>0. None \notin Pages
  BY Nothing
<1>1. \A x \in Pages : ~Pending(t, x, s)
  BY <1>0 DEF SlotOK
<1>2. \A x \in Pages : ~Names(MSHR'[t][x], s) /\ (x # p => ~Names(Of(RQ'[t], x), s))
  BY <1>1 DEF Pending
<1>3. \A x \in Pages : Pending(t, x, s)' <=> x = p
  BY <1>2 DEF Pending
<1>4. \A i \in DOMAIN PROCESSED[t] : ~Told(t, i, s)
  <2> SUFFICES ASSUME NEW i \in DOMAIN PROCESSED[t], Told(t, i, s) PROVE FALSE
    OBVIOUS
  <2>1. PROCESSED[t][i].page = None
    BY DEF SlotOK
  <2>2. PROCESSED[t][i] \in Answers
    BY AnswersAre DEF UpperTLBs, TLBs
  <2> QED BY <2>1, <2>2, <1>0 DEF Answers
<1> QED BY <1>2, <1>3, <1>4 DEF SlotOK, Told

\* the packet that names it goes from the read queue to an MSHR,
LEMMA SlotMoves ==
  ASSUME NEW t \in UpperTLBs, NEW s \in AllSlots, SlotOK(t, s), NEW p \in Pages,
         Awaited(t, s)' = Awaited(t, s), PROCESSED'[t] = PROCESSED[t],
         ~Names(Of(RQ'[t], p), s),
         Names(MSHR'[t][p], s) <=> Pending(t, p, s),
         \A x \in Pages : x # p =>
           /\ Names(Of(RQ'[t], x), s) <=> Names(Of(RQ[t], x), s)
           /\ Names(MSHR'[t][x], s) <=> Names(MSHR[t][x], s)
  PROVE  SlotOK(t, s)'
<1>1. \A x \in Pages : Pending(t, x, s)' <=> Pending(t, x, s)
  BY DEF Pending
<1>2. \A i : Told(t, i, s)' <=> Told(t, i, s)
  BY DEF Told
<1> QED BY <1>1, <1>2 DEF SlotOK

\* t answers the packet,
LEMMA SlotTold ==
  ASSUME IInv, NEW t \in UpperTLBs, NEW s \in AllSlots, SlotOK(t, s), NEW p \in Pages,
         NEW e \in Answers, e.page = p, GaveOK(t, <<e>>),
         Len(PROCESSED[t]) + 1 <= ROB_SIZE,
         Awaited(t, s)' = Awaited(t, s),
         s \in Named(e) => Pending(t, p, s),
         \A x \in Pages :
           /\ Names(Of(RQ'[t], x), s) <=>
                Names(Of(RQ[t], x), s) /\ ~(x = p /\ s \in Named(e))
           /\ Names(MSHR'[t][x], s) <=>
                Names(MSHR[t][x], s) /\ ~(x = p /\ s \in Named(e))
  PROVE  SlotOK(t, s)'
<1>0. t \in TLBs /\ AnswersOf(<<e>>, e)
  BY DEF UpperTLBs, TLBs, AnswersOf
<1> DEFINE a == PROCESSED'[t]
<1> PICK n \in Nat : n = Len(PROCESSED[t])
  BY <1>0, AnswersAre
<1>1. DOMAIN PROCESSED[t] = 1 .. n
  BY <1>0, AnswersAre
<1>2. /\ DOMAIN a = 1 .. (n + 1) /\ a[n + 1] = e
      /\ \A i \in 1 .. n : a[i] = PROCESSED[t][i]
  <2>1. DOMAIN PROCESSED[t] \subseteq DOMAIN a
        /\ \A i \in DOMAIN a : i \in DOMAIN PROCESSED[t] => a[i] = PROCESSED[t][i]
    BY <1>0, GaveShape
  <2>2. DOMAIN a = 1 .. (n + 1) /\ a[n + 1] = e
    BY <1>0, GaveShape
  <2> QED BY <2>1, <2>2, <1>1
<1>3. n + 1 \notin 1 .. n /\ 1 .. n \subseteq 1 .. (n + 1) /\ n + 1 \in 1 .. (n + 1)
      /\ \A i \in 1 .. (n + 1) : i \in 1 .. n \/ i = n + 1
  BY <1>1
<1> HIDE DEF a
<1>4. /\ \A i \in 1 .. n : Told(t, i, s)' <=> Told(t, i, s)
      /\ Told(t, n + 1, s)' <=> s \in Named(e)
  BY <1>2 DEF Told, a
<1>5. \A x \in Pages : Pending(t, x, s)' <=> Pending(t, x, s) /\ ~(x = p /\ s \in Named(e))
  BY DEF Pending
<1>6. CASE s \in Named(e)
  <2>1. Awaited(t, s) = p /\ \A x \in Pages : ~Pending(t, x, s)'
    BY <1>5, <1>6 DEF SlotOK
  <2>2. \A i \in 1 .. n : ~Told(t, i, s)
    BY <1>1, <1>6 DEF SlotOK
  <2>3. \A i \in 1 .. (n + 1) : Told(t, i, s)' <=> i = n + 1
    BY <2>2, <1>3, <1>4, <1>6
  <2> QED BY <2>1, <2>3, <1>2, <1>3 DEF SlotOK, Pending, a
<1>7. CASE s \notin Named(e)
  <2>1. \A x \in Pages : Pending(t, x, s)' <=> Pending(t, x, s)
    BY <1>5, <1>7
  <2>2. \A i \in 1 .. (n + 1) : Told(t, i, s)' <=> i \in 1 .. n /\ Told(t, i, s)
    BY <1>3, <1>4, <1>7
  <2> QED BY <2>1, <2>2, <1>1, <1>2, <1>3, <1>7 DEF SlotOK, a
<1> QED BY <1>6, <1>7

\* The rest of a sequence.
LEMMA TailOf ==
  ASSUME NEW S, NEW b \in Seq(S), b # <<>>
  PROVE  /\ Len(b) \in Nat \ {0} /\ DOMAIN b = 1 .. Len(b) /\ Head(b) = b[1]
         /\ Tail(b) \in Seq(S) /\ DOMAIN Tail(b) = 1 .. (Len(b) - 1)
         /\ \A i \in 1 .. (Len(b) - 1) : Tail(b)[i] = b[i + 1]
<1>1. Tail(b) \in Seq(S) /\ Len(Tail(b)) = Len(b) - 1
      /\ \A i \in 1 .. Len(Tail(b)) : Tail(b)[i] = b[i + 1]
  BY HeadTailProperties, Zenon
<1>2. Len(b) \in Nat \ {0} /\ DOMAIN b = 1 .. Len(b)
  BY EmptySeq, LenProperties
<1>3. DOMAIN Tail(b) = 1 .. Len(Tail(b))
  BY <1>1, LenProperties
<1> QED BY <1>1, <1>2, <1>3

\* and the core takes the answer.
LEMMA SlotHandles ==
  ASSUME IInv, NEW t \in UpperTLBs, NEW s \in AllSlots, SlotOK(t, s),
         PROCESSED[t] # <<>>, PROCESSED'[t] = Tail(PROCESSED[t]),
         Awaited(t, s)' =
           IF s \in Named(Head(PROCESSED[t])) /\ Awaited(t, s) = Head(PROCESSED[t]).page
           THEN None ELSE Awaited(t, s),
         \A p \in Pages : /\ Names(Of(RQ'[t], p), s) <=> Names(Of(RQ[t], p), s)
                          /\ Names(MSHR'[t][p], s) <=> Names(MSHR[t][p], s)
  PROVE  SlotOK(t, s)'
<1> DEFINE n == Len(PROCESSED[t])
           b == PROCESSED[t]
           a == PROCESSED'[t]
           e == Head(b)
<1>0. t \in TLBs
  BY DEF UpperTLBs, TLBs
<1>1. /\ n \in Nat \ {0} /\ DOMAIN b = 1 .. n /\ DOMAIN a = 1 .. (n - 1) /\ e = b[1]
      /\ \A i \in 1 .. (n - 1) : a[i] = b[i + 1]
  <2>1. b \in Seq(Answers)
    BY <1>0, AnswersAre
  <2>2. a = Tail(b) /\ b # <<>>
    OBVIOUS
  <2> HIDE DEF a, b
  <2> QED BY <2>1, <2>2, TailOf DEF n, e, b
<1>2. \A i \in 1 .. (n - 1) : i + 1 \in 1 .. n /\ i + 1 # 1
  BY <1>1
<1>3. \A i \in 1 .. n : i = 1 \/ (i - 1 \in 1 .. (n - 1) /\ i = (i - 1) + 1)
  BY <1>1
<1>4. 1 \in 1 .. n
  BY <1>1
<1> HIDE DEF n, a, b, e
<1>5. \A i \in 1 .. (n - 1) : Told(t, i, s)' <=> Told(t, i + 1, s)
  BY <1>1 DEF Told, a, b
<1>6. Told(t, 1, s) <=> s \in Named(e)
  BY <1>1 DEF Told, b
<1>7. \A p \in Pages : Pending(t, p, s)' <=> Pending(t, p, s)
  BY DEF Pending
<1>8. CASE s \in Named(e)
  <2>1. Awaited(t, s) = e.page /\ \A p \in Pages : ~Pending(t, p, s)
    BY <1>1, <1>4, <1>6, <1>8 DEF SlotOK, b
  <2>2. Awaited(t, s)' = None
    BY <2>1, <1>8 DEF e, b
  <2>3. \A i \in 1 .. (n - 1) : ~Told(t, i, s)'
    BY <1>1, <1>2, <1>4, <1>5, <1>6, <1>8 DEF SlotOK, b
  <2>4. \A p \in Pages : ~Pending(t, p, s)'
    BY <2>1, <1>7
  <2> QED BY <2>2, <2>3, <2>4, <1>1 DEF SlotOK, a, Pending
<1>9. CASE s \notin Named(e)
  <2>1. Awaited(t, s)' = Awaited(t, s) /\ ~Told(t, 1, s)
    BY <1>6, <1>9 DEF e, b
  <2>2. \A i \in 1 .. (n - 1) : a[i].page = b[i + 1].page
    BY <1>1
  <2>3. \A i \in 1 .. n : Told(t, i, s) => i # 1
    BY <2>1
  <2>4. \A i \in 1 .. n : Told(t, i, s) => \E j \in 1 .. (n - 1) : Told(t, j, s)'
    BY <2>3, <1>3, <1>5
  <2>5. \A i, j \in 1 .. (n - 1) : i + 1 = j + 1 => i = j
    BY <1>1
  <2>6. ASSUME NEW p \in Pages
        PROVE  /\ Pending(t, p, s)' => Awaited(t, s)' = p
               /\ ~(Names(Of(RQ'[t], p), s) /\ Names(MSHR'[t][p], s))
    BY <2>1, <1>7 DEF SlotOK
  <2>7. ASSUME NEW i \in 1 .. (n - 1), Told(t, i, s)'
        PROVE  Awaited(t, s)' = a[i].page /\ \A p \in Pages : ~Pending(t, p, s)'
    BY <2>1, <2>2, <2>7, <1>1, <1>2, <1>5, <1>7 DEF SlotOK, b
  <2>8. ASSUME NEW i \in 1 .. (n - 1), NEW j \in 1 .. (n - 1), Told(t, i, s)', Told(t, j, s)'
        PROVE  i = j
    BY <2>5, <2>8, <1>1, <1>2, <1>5 DEF SlotOK, b
  <2>9. Awaited(t, s)' # None => \/ \E p \in Pages : Pending(t, p, s)'
                                 \/ \E i \in 1 .. (n - 1) : Told(t, i, s)'
    BY <2>1, <2>4, <1>1, <1>7 DEF SlotOK, b
  <2> HIDE DEF a
  <2> QED BY <2>6, <2>7, <2>8, <2>9, <1>1 DEF SlotOK, a
<1> QED BY <1>8, <1>9


\* The slots of ITLB or DTLB are numbered from 1 to at most ROB_SIZE.
Index(t, s) ==
  IF s[1] = "RQ" THEN s[2]
  ELSE IF t = "ITLB" THEN L1I_RQ_SIZE + s[2] ELSE L1D_RQ_SIZE + s[2]

\* The numbers tell the slots apart, and are at most ROB_SIZE.
LEMMA SlotsNumbered ==
  ASSUME NEW t \in UpperTLBs
  PROVE  /\ \A s \in Mine(t) : Index(t, s) \in 1 .. ROB_SIZE
         /\ \A s, u \in Mine(t) : Index(t, s) = Index(t, u) => s = u
<1> DEFINE first == IF t = "ITLB" THEN L1I_RQ_SIZE ELSE L1D_RQ_SIZE
           second == IF t = "ITLB" THEN L1I_PQ_SIZE ELSE L1D_WQ_SIZE
           other == IF t = "ITLB" THEN "PQ" ELSE "WQ"
<1>1. first \in Nat /\ second \in Nat /\ ROB_SIZE \in Nat /\ ROB_SIZE >= first + second
      /\ other # "RQ"
  BY SizesAssumption, AnswersCoverSlots DEF UpperTLBs
<1>2. ASSUME NEW s \in Mine(t)
      PROVE  \/ \E i \in 1 .. first : s = <<"RQ", i>>
             \/ \E i \in 1 .. second : s = <<other, i>>
  <2>1. CASE t = "ITLB"
    BY <2>1 DEF Mine, Core, Slots
  <2>2. CASE t = "DTLB"
    BY <2>2 DEF Mine, Core, Slots
  <2> QED BY <2>1, <2>2 DEF UpperTLBs
<1>3. \A i : Index(t, <<"RQ", i>>) = i /\ Index(t, <<other, i>>) = first + i
  BY DEF Index
<1> HIDE DEF first, second, other
<1>4. ASSUME NEW s \in Mine(t)
      PROVE  \/ s = <<"RQ", Index(t, s)>> /\ Index(t, s) \in 1 .. first
             \/ /\ s = <<other, Index(t, s) - first>>
                /\ Index(t, s) \in (first + 1) .. (first + second)
  <2>1. CASE \E i \in 1 .. first : s = <<"RQ", i>>
    BY <2>1, <1>3
  <2>2. CASE \E i \in 1 .. second : s = <<other, i>>
    <3>1. PICK i \in 1 .. second : s = <<other, i>>
      BY <2>2
    <3>2. Index(t, s) = first + i
      BY <3>1, <1>3
    <3>3. (first + i) - first = i /\ first + i \in (first + 1) .. (first + second)
      BY <1>1
    <3> QED BY <3>1, <3>2, <3>3
  <2> QED BY <2>1, <2>2, <1>2
<1>5. /\ \A k \in 1 .. first : k \in 1 .. ROB_SIZE /\ k \notin (first + 1) .. (first + second)
      /\ \A k \in (first + 1) .. (first + second) : k \in 1 .. ROB_SIZE
  BY <1>1
<1>6. \A s \in Mine(t) : Index(t, s) \in 1 .. ROB_SIZE
  BY <1>4, <1>5
<1>7. ASSUME NEW s \in Mine(t), NEW u \in Mine(t), Index(t, s) = Index(t, u)
      PROVE  s = u
  <2> DEFINE k == Index(t, s)
  <2>1. CASE k \in 1 .. first
    BY <2>1, <1>4, <1>5, <1>7
  <2>2. CASE k \in (first + 1) .. (first + second)
    BY <2>2, <1>4, <1>5, <1>7
  <2> QED BY <2>1, <2>2, <1>4
<1> QED BY <1>6, <1>7

\* As long as a packet names a slot that waits, its answer finds room: all that
\* are in PROCESSED go to other slots.
LEMMA RoomLeft ==
  ASSUME IInv, SlotsOK, OwnsOK, NEW t \in UpperTLBs, NEW p \in Pages,
         NEW s \in AllSlots, Pending(t, p, s)
  PROVE  Len(PROCESSED[t]) + 1 <= ROB_SIZE
<1> PICK n \in Nat : n = Len(PROCESSED[t])
  BY AnswersAre DEF UpperTLBs, TLBs
<1>1. /\ DOMAIN PROCESSED[t] = 1 .. n /\ n <= ROB_SIZE /\ ROB_SIZE \in Nat
      /\ \A i \in 1 .. n : PROCESSED[t][i] \in Answers
  BY AnswersAre DEF UpperTLBs, TLBs
<1>2. ASSUME NEW u \in AllSlots, Awaited(t, u) \in Pages PROVE u \in Mine(t)
  BY <1>2, Nothing DEF Awaited
<1> DEFINE o(i) == IF i \in 1 .. n THEN PROCESSED[t][i].own ELSE s
<1>3. ASSUME NEW i \in 1 .. n
      PROVE  o(i) \in Mine(t) /\ Told(t, i, o(i)) /\ o(i) # s
  <2>1. PROCESSED[t][i].own \in AllSlots /\ PROCESSED[t][i].page \in Pages
    BY <1>1 DEF OwnsOK, Answers
  <2>2. Told(t, i, PROCESSED[t][i].own)
    BY <2>1, Nothing DEF Told, Named
  <2>3. SlotOK(t, PROCESSED[t][i].own) /\ SlotOK(t, s)
    BY <2>1 DEF SlotsOK
  <2>4. Awaited(t, PROCESSED[t][i].own) = PROCESSED[t][i].page
    BY <2>2, <2>3, <1>1 DEF SlotOK
  <2>5. PROCESSED[t][i].own # s
    BY <2>2, <2>3, <1>1 DEF SlotOK
  <2> QED BY <2>1, <2>2, <2>4, <2>5, <1>2
<1>4. s \in Mine(t)
  BY <1>2 DEF SlotsOK, SlotOK
<1>5. \A i \in 1 .. (n + 1) : i \in 1 .. n \/ i = n + 1
  OBVIOUS
<1>6. n + 1 \notin 1 .. n
  OBVIOUS
<1>7. o(n + 1) = s
  BY <1>6
<1> HIDE DEF o
<1>8. ASSUME NEW i \in 1 .. n, NEW j \in 1 .. n, o(i) = o(j) PROVE i = j
  <2>1. SlotOK(t, o(i)) /\ Told(t, i, o(i)) /\ Told(t, j, o(i))
    BY <1>3, <1>8 DEF SlotsOK, Mine, AllSlots, Core
  <2> QED BY <2>1, <1>1 DEF SlotOK
<1>9. \A i, j \in 1 .. (n + 1) : o(i) \in Mine(t) /\ (o(i) = o(j) => i = j)
  BY <1>3, <1>4, <1>5, <1>7, <1>8
<1> DEFINE f == [i \in 1 .. (n + 1) |-> Index(t, o(i))]
<1>10. f \in Injection(1 .. (n + 1), 1 .. ROB_SIZE)
  <2>1. f \in [1 .. (n + 1) -> 1 .. ROB_SIZE]
    BY <1>9, SlotsNumbered
  <2>2. \A i, j \in 1 .. (n + 1) : f[i] = f[j] => i = j
    BY <1>9, SlotsNumbered
  <2> QED BY <2>1, <2>2 DEF Injection, IsInjective
<1>11. /\ IsFiniteSet(1 .. ROB_SIZE) /\ Cardinality(1 .. ROB_SIZE) = ROB_SIZE
       /\ Cardinality(1 .. (n + 1)) = n + 1
  <2>1. \A k \in Nat \ {0} : IsFiniteSet(1 .. k) /\ Cardinality(1 .. k) = k
    <3>1. ASSUME NEW k \in Nat \ {0}
          PROVE  IsFiniteSet(1 .. k) /\ Cardinality(1 .. k) = k
      <4>1. 1 \in Int /\ k \in Int /\ ~(1 > k) /\ k - 1 + 1 = k
        OBVIOUS
      <4> QED BY <4>1, FS_Interval
    <3> QED BY <3>1
  <2>2. n + 1 \in Nat \ {0} /\ ROB_SIZE \in Nat \ {0}
    BY Sizes
  <2> QED BY <2>1, <2>2
<1> HIDE DEF f
<1>12. Cardinality(1 .. (n + 1)) <= Cardinality(1 .. ROB_SIZE)
  BY <1>10, <1>11, FS_Injection
<1> QED BY <1>1, <1>11, <1>12


\* Packets that merge in a read queue name what either names, as far as the one
\* that came later has one slot only.
LEMMA AddedNames ==
  ASSUME NEW t, NEW x, x = None \/ x \in Requests, NEW r \in Requests, r.merged = {},
         NEW s
  PROVE  Names(Added(x, t, r), s) <=> Names(x, s) \/ s \in Named(r)
<1>0. r # None
  BY Nothing DEF Requests
<1>1. CASE x = None
  BY <1>0, <1>1 DEF Added, Names
<1>2. CASE x # None
  <2>1. x \in Requests /\ Added(x, t, r) = MergeRead(x, t, r)
    BY <1>2 DEF Added
  <2>2. MergeRead(x, t, r) \in Requests /\ Named(MergeRead(x, t, r)) = Named(x) \cup ({r.own} \ {None})
    BY <2>1, FieldsRead
  <2>3. MergeRead(x, t, r) # None
    BY <2>2, Nothing DEF Requests
  <2>4. Named(r) = {r.own} \ {None}
    BY DEF Named
  <2> QED BY <1>2, <2>1, <2>2, <2>3, <2>4 DEF Names
<1> QED BY <1>1, <1>2

\* What an L1 sends names its slot.
LEMMA SentNames ==
  ASSUME NEW p, NEW type, NEW level, NEW i, NEW s \in AllSlots
  PROVE  Packet(p, type, level, i, s).merged = {}
         /\ Named(Packet(p, type, level, i, s)) = {s}
         /\ Packet(p, type, level, i, s).own = s
<1>1. s # None
  BY Nothing
<1> QED BY <1>1 DEF Packet, Named

\* Packets that differ only in the answer name the same slots.
LEMMA AlikeNames ==
  ASSUME NEW x, NEW y, x # None, y # None, Alike(x, y), NEW s
  PROVE  Names(y, s) <=> Names(x, s)
BY AlikeSame DEF Names

\* Slots of another core, and prefetches of L1D, are not for TLB t.
LEMMA AwaitedSame ==
  ASSUME NEW t \in UpperTLBs, NEW s \in AllSlots,
         \A u \in Mine(t) : Wants(Core(t), u)' = Wants(Core(t), u)
  PROVE  Awaited(t, s)' = Awaited(t, s)
<1>1. Mine(t)' = Mine(t)
  BY DEF Mine, Core, Slots
<1>2. (s \in Mine(t))' <=> s \in Mine(t)
  BY <1>1
<1>3. CASE s \in Mine(t)
  BY <1>2, <1>3 DEF Awaited, Core
<1>4. CASE s \notin Mine(t)
  BY <1>2, <1>4 DEF Awaited
<1> QED BY <1>3, <1>4

\* Nothing happens to any packet of t or slot that it is to translate for.
NothingFor(t) ==
  /\ \A u \in Mine(t) : Wants(Core(t), u)' = Wants(Core(t), u)
  /\ PROCESSED'[t] = PROCESSED[t]
  /\ \A p \in Pages, s \in AllSlots :
       /\ Names(Of(RQ'[t], p), s) <=> Names(Of(RQ[t], p), s)
       /\ Names(MSHR'[t][p], s) <=> Names(MSHR[t][p], s)

\* SlotsOK and OwnsOK for one TLB.
SlotsAt(t) == \A s \in AllSlots : SlotOK(t, s)
OwnsAt(t) == \A i \in DOMAIN PROCESSED[t] : PROCESSED[t][i].own # None

\* Then what is said of its slots stays true.
LEMMA SlotsKept ==
  ASSUME NEW t \in UpperTLBs, SlotsAt(t), OwnsAt(t), NothingFor(t)
  PROVE  SlotsAt(t)' /\ OwnsAt(t)'
<1>1. OwnsAt(t)'
  BY DEF OwnsAt, NothingFor
<1>2. ASSUME NEW s \in AllSlots PROVE SlotOK(t, s)'
  <2>1. SlotOK(t, s) /\ Awaited(t, s)' = Awaited(t, s)
    BY AwaitedSame DEF SlotsAt, NothingFor
  <2> QED BY <2>1, SlotSame DEF NothingFor
<1> QED BY <1>1, <1>2 DEF SlotsAt, AllSlots, Slots

\* Slot s of core c asks t for page p.
LEMMA SlotsAsked ==
  ASSUME IInv, KindsOK, NEW t \in UpperTLBs, SlotsAt(t), OwnsAt(t), NEW p \in Pages,
         NEW s \in Mine(t), entry[Core(t)][s] = None, Asked(Core(t), s, p),
         NEW r \in Requests, r.merged = {}, Named(r) = {s}, Got(t, p, r),
         UNCHANGED <<MSHR, PROCESSED>>
  PROVE  SlotsAt(t)' /\ OwnsAt(t)'
<1>0. t \in TLBs /\ Core(t) \in L1s /\ Mine(t) \subseteq Slots[Core(t)]
      /\ Slots[Core(t)] \subseteq AllSlots
  BY SlotFacts DEF UpperTLBs, TLBs, Core, L1s, Mine
<1>1. OwnsAt(t)'
  BY DEF OwnsAt
<1>2. ASSUME NEW u \in AllSlots PROVE SlotOK(t, u)'
  <2>1. SlotOK(t, u)
    BY DEF SlotsAt
  <2>2. \A x \in Pages : /\ x # p => Of(RQ'[t], x) = Of(RQ[t], x)
                         /\ x = p => Of(RQ'[t], x) = Added(Of(RQ[t], p), t, r)
    BY <1>0 DEF Got
  <2>3. Of(RQ[t], p) = None \/ Of(RQ[t], p) \in Requests
    BY <1>0, Reading DEF IInv, KindsOK
  <2>4. Names(Of(RQ'[t], p), u) <=> Names(Of(RQ[t], p), u) \/ u = s
    BY <2>2, <2>3, AddedNames
  <2>5. CASE u = s
    <3>1. Awaited(t, s) = None
      BY DEF Awaited, Wants, Waits
    <3>2. Awaited(t, s)' = p
      <4>1. Wants(Core(t), s)' = p
        BY <1>0 DEF Asked, Core
      <4>2. Mine(t)' = Mine(t)
        BY DEF Mine, Core, Slots
      <4> QED BY <4>1, <4>2 DEF Awaited, Core
    <3> QED BY <2>1, <2>2, <2>4, <2>5, <3>1, <3>2, SlotAsks
  <2>6. CASE u # s
    <3>1. Awaited(t, u)' = Awaited(t, u)
      <4>1. \A v \in Mine(t) : v # s => Wants(Core(t), v)' = Wants(Core(t), v)
        BY <1>0 DEF Asked, Core
      <4>2. Mine(t)' = Mine(t)
        BY DEF Mine, Core, Slots
      <4> QED BY <4>1, <4>2, <2>6 DEF Awaited, Core
    <3>2. \A x \in Pages : Names(Of(RQ'[t], x), u) <=> Names(Of(RQ[t], x), u)
      BY <2>2, <2>4, <2>6
    <3> QED BY <2>1, <3>1, <3>2, SlotSame
  <2> QED BY <2>5, <2>6
<1> QED BY <1>1, <1>2 DEF SlotsAt, AllSlots, Slots

\* t moves its packet of page p to the MSHR.
LEMMA SlotsMoved ==
  ASSUME NEW t \in UpperTLBs, SlotsAt(t), OwnsAt(t), NEW p \in Pages,
         UNCHANGED <<entry, PROCESSED>>, Of(RQ'[t], p) = None,
         \A x \in Pages : x # p => /\ Of(RQ'[t], x) = Of(RQ[t], x)
                                   /\ MSHR'[t][x] = MSHR[t][x],
         \A s \in AllSlots : Names(MSHR'[t][p], s) <=> Pending(t, p, s)
  PROVE  SlotsAt(t)' /\ OwnsAt(t)'
<1>1. OwnsAt(t)'
  BY DEF OwnsAt
<1>2. ASSUME NEW s \in AllSlots PROVE SlotOK(t, s)'
  <2>1. SlotOK(t, s)
    BY DEF SlotsAt
  <2>2. Awaited(t, s)' = Awaited(t, s)
    BY SameWants, AwaitedSame
  <2>3. ~Names(Of(RQ'[t], p), s)
    BY DEF Names
  <2> QED BY <2>1, <2>2, <2>3, SlotMoves
<1> QED BY <1>1, <1>2 DEF SlotsAt, AllSlots, Slots

\* t answers its packet of page p, from the read queue or from an MSHR.
LEMMA SlotsTold ==
  ASSUME IInv, SlotsOK, OwnsOK, NEW t \in UpperTLBs, NEW p \in Pages, entry' = entry,
         NEW e \in Answers, e.page = p, e.own # None, GaveOK(t, <<e>>),
         \A x \in Pages : x # p => /\ Of(RQ'[t], x) = Of(RQ[t], x)
                                   /\ MSHR'[t][x] = MSHR[t][x],
         NEW r, r # None, Named(e) = Named(r),
         \/ r = Of(RQ[t], p) /\ Of(RQ'[t], p) = None /\ MSHR'[t][p] = MSHR[t][p]
         \/ r = MSHR[t][p] /\ MSHR'[t][p] = None /\ Of(RQ'[t], p) = Of(RQ[t], p)
  PROVE  SlotsAt(t)' /\ OwnsAt(t)'
<1>0. t \in TLBs /\ AnswersOf(<<e>>, e)
  BY DEF UpperTLBs, TLBs, AnswersOf
<1>1. OwnsAt(t)'
  <2>1. \A i \in DOMAIN PROCESSED'[t] :
          IF i \in DOMAIN PROCESSED[t] THEN PROCESSED'[t][i] = PROCESSED[t][i]
          ELSE PROCESSED'[t][i] = e
    BY <1>0, GaveShape
  <2> QED BY <2>1 DEF OwnsAt, OwnsOK
<1>2. Len(PROCESSED[t]) + 1 <= ROB_SIZE
  <2>1. e.own \in AllSlots /\ e.own \in Named(r)
    BY DEF Answers, Named
  <2>2. Pending(t, p, e.own)
    BY <2>1 DEF Pending, Names
  <2> QED BY <2>1, <2>2, RoomLeft
<1>3. ASSUME NEW s \in AllSlots PROVE SlotOK(t, s)'
  <2>1. SlotOK(t, s)
    BY DEF SlotsOK
  <2>2. Awaited(t, s)' = Awaited(t, s)
    BY SameWants, AwaitedSame
  <2>3. s \in Named(e) <=> Names(r, s)
    BY DEF Names
  <2>4. s \in Named(e) => Pending(t, p, s)
    BY <2>3 DEF Pending
  <2>5. ~(Names(Of(RQ[t], p), s) /\ Names(MSHR[t][p], s))
    BY <2>1 DEF SlotOK
  <2>6. /\ Names(Of(RQ'[t], p), s) <=> Names(Of(RQ[t], p), s) /\ s \notin Named(e)
        /\ Names(MSHR'[t][p], s) <=> Names(MSHR[t][p], s) /\ s \notin Named(e)
    <3>1. ~Names(None, s)
      BY DEF Names
    <3>2. CASE r = Of(RQ[t], p) /\ Of(RQ'[t], p) = None /\ MSHR'[t][p] = MSHR[t][p]
      BY <2>3, <2>5, <3>1, <3>2
    <3>3. CASE r = MSHR[t][p] /\ MSHR'[t][p] = None /\ Of(RQ'[t], p) = Of(RQ[t], p)
      BY <2>3, <2>5, <3>1, <3>3
    <3> QED BY <3>2, <3>3
  <2>7. \A x \in Pages :
          /\ Names(Of(RQ'[t], x), s) <=> Names(Of(RQ[t], x), s) /\ ~(x = p /\ s \in Named(e))
          /\ Names(MSHR'[t][x], s) <=> Names(MSHR[t][x], s) /\ ~(x = p /\ s \in Named(e))
    BY <2>6
  <2> QED BY <2>1, <2>2, <2>4, <2>7, <1>2, SlotTold
<1> QED BY <1>1, <1>3 DEF SlotsAt, AllSlots, Slots


\* Nothing happens for t when its packets and the slots stay as they are.
LEMMA NothingIfSame ==
  ASSUME NEW t \in UpperTLBs, entry' = entry, PROCESSED'[t] = PROCESSED[t],
         \A p \in Pages : /\ Of(RQ'[t], p) = Of(RQ[t], p)
                          /\ \/ MSHR'[t][p] = MSHR[t][p]
                             \/ /\ MSHR[t][p] # None /\ MSHR'[t][p] # None
                                /\ Alike(MSHR[t][p], MSHR'[t][p])
  PROVE  NothingFor(t)
<1>1. \A p \in Pages, s \in AllSlots : Names(MSHR'[t][p], s) <=> Names(MSHR[t][p], s)
  BY AlikeNames
<1> QED BY <1>1, SameWants DEF NothingFor

\* Every step keeps a slot that waits named once, and no other slot named.
LEMMA SlotsStep ==
  ASSUME IInv, KindsOK, SlotsOK, OwnsOK, Next
  PROVE  SlotsOK' /\ OwnsOK'
<1>0. /\ Onces(RQ) /\ UpperTLBs \subseteq TLBs /\ "STLB" \notin UpperTLBs
      /\ \A t \in TLBs, p \in Pages : IsKind(t, Of(RQ[t], p)) /\ IsKind(t, MSHR[t][p])
      /\ \A t \in TLBs : t \in UpperTLBs \/ t = "STLB"
  BY DEF KindsOK, TLBs, UpperTLBs
<1> SUFFICES ASSUME NEW t \in UpperTLBs PROVE SlotsAt(t)' /\ OwnsAt(t)'
  BY DEF SlotsOK, OwnsOK, SlotsAt, OwnsAt, UpperTLBs
<1>a. SlotsAt(t) /\ OwnsAt(t) /\ t \in TLBs /\ t # "STLB"
  BY <1>0 DEF SlotsOK, OwnsOK, SlotsAt, OwnsAt
<1>b. ASSUME NothingFor(t) PROVE SlotsAt(t)' /\ OwnsAt(t)'
  BY <1>a, <1>b, SlotsKept
<1>c. Core(t) \in L1s /\ Mine(t) \subseteq Slots[Core(t)] /\ Slots[Core(t)] \subseteq AllSlots
      /\ Translator[Core(t)] = t
      /\ \A c \in L1s : c # Core(t) => Translator[c] # t
  BY SlotFacts DEF UpperTLBs, Core, L1s, Mine, Translator
<1>1. ASSUME NEW c \in L1s, NEW queue \in {"RQ", "WQ"}, NEW p \in Pages, demand(c, queue, p)
      PROVE  SlotsAt(t)' /\ OwnsAt(t)'
  <2>1. PICK s \in Slots[c] :
          LET r == Packet(p, "LOAD_TRANSLATION", 1, c = "L1I", s)
          IN  /\ s[1] = queue /\ entry[c][s] = None /\ Asked(c, s, p)
              /\ r \in Requests /\ Got(Translator[c], p, r)
              /\ UNCHANGED <<MSHR, PROCESSED>>
    BY <1>0, <1>1, DemandView
  <2> DEFINE r == Packet(p, "LOAD_TRANSLATION", 1, c = "L1I", s)
  <2>2. r.merged = {} /\ Named(r) = {s}
    BY SlotFacts, SentNames
  <2>3. CASE c = Core(t)
    <3>1. s \in Mine(t)
      BY <2>1, <2>3 DEF Mine
    <3> HIDE DEF r
    <3> QED BY <2>1, <2>2, <2>3, <3>1, <1>a, <1>c, SlotsAsked DEF r
  <2>4. CASE c # Core(t)
    <3>1. Translator[c] # t
      BY <2>4, <1>c
    <3>2. \A x \in Pages : Of(RQ'[t], x) = Of(RQ[t], x)
      BY <2>1, <3>1, <1>a DEF Got
    <3>3. \A u \in Mine(t) : Wants(Core(t), u)' = Wants(Core(t), u)
      BY <2>1, <2>4, <1>c DEF Asked, Core
    <3> QED BY <2>1, <3>2, <3>3, <1>b DEF NothingFor
  <2> QED BY <2>3, <2>4
<1>2. ASSUME NEW c \in L1s, NEW p \in Pages, prefetch(c, p)
      PROVE  SlotsAt(t)' /\ OwnsAt(t)'
  <2>1. PICK s \in Slots[c] :
           LET r == Packet(p, "TRANSLATION_FROM_L1D", IF c = "L1I" THEN 1 ELSE 2,
                           c = "L1I", s)
           IN  /\ s[1] = "PQ" /\ entry[c][s] = None /\ Asked(c, s, p)
               /\ r \in Requests /\ Got(Below(c), p, r)
               /\ UNCHANGED <<MSHR, PROCESSED>>
    BY <1>0, <1>2, PrefetchView
  <2> DEFINE r == Packet(p, "TRANSLATION_FROM_L1D", IF c = "L1I" THEN 1 ELSE 2,
                         c = "L1I", s)
  <2>2. r.merged = {} /\ Named(r) = {s}
    BY SlotFacts, SentNames
  <2>3. CASE c = "L1I" /\ t = "ITLB"
    <3>1. c = Core(t) /\ Below(c) = t
      BY <2>3 DEF Core, Below
    <3>2. s \in Mine(t)
      BY <2>3, <3>1 DEF Mine
    <3> HIDE DEF r
    <3> QED BY <2>1, <2>2, <3>1, <3>2, <1>a, SlotsAsked DEF r
  <2>4. CASE ~(c = "L1I" /\ t = "ITLB")
    <3>1. Below(c) # t
      BY <2>4, <1>a DEF Below
    <3>2. \A x \in Pages : Of(RQ'[t], x) = Of(RQ[t], x)
      BY <2>1, <3>1, <1>a DEF Got
    <3>3. \A u \in Mine(t) : u \in Slots[Core(t)] /\ ~(Core(t) = c /\ u = s)
      BY <2>1, <2>4, <1>a DEF Mine, Core, UpperTLBs, L1s
    <3>4. \A u \in Mine(t) : Wants(Core(t), u)' = Wants(Core(t), u)
      BY <2>1, <3>3, <1>c DEF Asked, Core
    <3> QED BY <2>1, <3>2, <3>4, <1>b DEF NothingFor
  <2> QED BY <2>3, <2>4
<1>3. ASSUME NEW u \in TLBs, handle_processed(u) PROVE SlotsAt(t)' /\ OwnsAt(t)'
  <2> DEFINE e == Head(PROCESSED[u])
  <2>1. /\ PROCESSED[u] # <<>> /\ PROCESSED' = [PROCESSED EXCEPT ![u] = Tail(@)]
        /\ e \in Answers /\ UNCHANGED <<RQ, MSHR>>
        /\ \A d \in L1s : \A s \in Slots[d] :
             Wants(d, s)' = IF d = Core(u) /\ s \in Named(e) /\ Wants(d, s) = e.page
                            THEN None ELSE Wants(d, s)
    BY <1>3, HandleView
  <2>2. DOMAIN PROCESSED = TLBs /\ \A v \in TLBs : PROCESSED[v] \in Seq(Answers)
    BY AnswersAre DEF IInv, AnswersOK
  <2>3. CASE u = t
    <3>1. PROCESSED'[t] = Tail(PROCESSED[t])
      BY <2>1, <2>2, <2>3
    <3>2. OwnsAt(t)'
      <4>1. /\ DOMAIN PROCESSED[t] = 1 .. Len(PROCESSED[t]) /\ Len(PROCESSED[t]) \in Nat \ {0}
            /\ DOMAIN PROCESSED'[t] = 1 .. (Len(PROCESSED[t]) - 1)
            /\ \A i \in 1 .. (Len(PROCESSED[t]) - 1) : PROCESSED'[t][i] = PROCESSED[t][i + 1]
        BY <2>1, <2>2, <2>3, <3>1, TailOf
      <4>2. \A i \in 1 .. (Len(PROCESSED[t]) - 1) : i + 1 \in 1 .. Len(PROCESSED[t])
        BY <4>1
      <4> QED BY <4>1, <4>2, <1>a DEF OwnsAt
    <3>3. ASSUME NEW s \in AllSlots PROVE SlotOK(t, s)'
      <4>1. SlotOK(t, s)
        BY <1>a DEF SlotsAt
      <4>2. Mine(t)' = Mine(t)
        BY DEF Mine, Core, Slots
      <4>3. CASE s \in Mine(t)
        <5>1. Awaited(t, s) = Wants(Core(t), s) /\ Awaited(t, s)' = Wants(Core(t), s)'
          BY <4>2, <4>3 DEF Awaited, Core
        <5>2. s \in Slots[Core(t)] /\ Core(t) \in L1s
          BY <4>3, <1>c
        <5> QED BY <2>1, <2>3, <3>1, <4>1, <5>1, <5>2, SlotHandles
      <4>4. CASE s \notin Mine(t)
        <5>1. Awaited(t, s) = None /\ Awaited(t, s)' = None
          BY <4>2, <4>4 DEF Awaited
        <5> QED BY <2>1, <2>3, <3>1, <4>1, <5>1, SlotHandles
      <4> QED BY <4>3, <4>4
    <3> QED BY <3>2, <3>3 DEF SlotsAt, AllSlots, Slots
  <2>4. CASE u # t
    <3>1. PROCESSED'[t] = PROCESSED[t]
      BY <2>1, <2>2, <2>4, <1>a
    <3>2. ASSUME NEW s \in Mine(t), Core(t) = Core(u) PROVE s \notin Named(e)
      <4>1. u = "STLB" /\ t = "DTLB"
        BY <2>4, <3>2 DEF Core, UpperTLBs, TLBs
      <4>2. PROCESSED[u] \in Seq(Answers) /\ PROCESSED[u] # <<>>
        BY <2>1, <2>2
      <4>3. 1 \in DOMAIN PROCESSED["STLB"] /\ e = PROCESSED["STLB"][1]
        BY <4>1, <4>2, TailOf
      <4>4. ForPrefetches(Named(e))
        BY <4>3 DEF KindsOK
      <4> QED BY <4>1, <4>4, <3>2 DEF ForPrefetches, Mine
    <3>3. \A s \in Mine(t) : Wants(Core(t), s)' = Wants(Core(t), s)
      BY <2>1, <3>2, <1>c
    <3> QED BY <2>1, <3>1, <3>3, <1>b DEF NothingFor
  <2> QED BY <2>3, <2>4
<1>4. ASSUME NEW c \in L1s, NEW s \in Slots[c], use(c, s) PROVE SlotsAt(t)' /\ OwnsAt(t)'
  <2>1. /\ \A d \in L1s : \A u \in Slots[d] : Wants(d, u)' = Wants(d, u)
        /\ UNCHANGED <<RQ, MSHR, PROCESSED>>
    BY <1>4, UseView
  <2>2. \A u \in Mine(t) : Wants(Core(t), u)' = Wants(Core(t), u)
    BY <2>1, <1>c DEF Core
  <2> QED BY <2>1, <2>2, <1>b DEF NothingFor
<1>5. ASSUME NEW u \in TLBs, hit(u) PROVE SlotsAt(t)' /\ OwnsAt(t)'
  <2>1. PICK p \in Pages, e \in Answers, packets \in Seq(Answers) :
          LET r == Of(RQ[u], p)
          IN  /\ r \in Requests /\ Took(u, p)
              /\ Returned(IF u = "STLB" THEN Receivers(r) ELSE {}, p)
              /\ e.page = p /\ e.own = r.own /\ Named(e) = Named(r)
              /\ u # "STLB" => packets = <<e>>
              /\ GaveOK(u, packets) /\ UNCHANGED entry
    BY <1>0, <1>5, HitView
  <2> DEFINE r == Of(RQ[u], p)
  <2>2. r # None
    BY <2>1, Nothing DEF Requests
  <2>3. CASE u = t
    <3>1. \A x \in Pages : /\ Of(RQ'[t], x) = IF x = p THEN None ELSE Of(RQ[t], x)
                           /\ MSHR'[t][x] = MSHR[t][x]
      BY <2>1, <2>3, <1>a DEF Took, Returned
    <3>2. KindOK(t, r)
      BY <2>2, <2>3, <1>0, <1>a DEF IsKind
    <3>3. e.own # None
      BY <2>1, <3>2, <1>a DEF KindOK
    <3>4. GaveOK(t, <<e>>) /\ Named(e) = Named(r) /\ r = Of(RQ[t], p)
      BY <2>1, <2>3, <1>a
    <3> HIDE DEF r
    <3> QED BY <2>1, <2>2, <3>1, <3>3, <3>4, SlotsTold
  <2>4. CASE u # t
    <3>1. \A x \in Pages : Of(RQ'[t], x) = Of(RQ[t], x)
      BY <2>1, <2>4, <1>a DEF Took
    <3>2. \A x \in Pages :
            \/ MSHR'[t][x] = MSHR[t][x]
            \/ MSHR[t][x] # None /\ MSHR'[t][x] # None /\ Alike(MSHR[t][x], MSHR'[t][x])
      BY <2>1, <1>a DEF Returned
    <3>3. PROCESSED'[t] = PROCESSED[t]
      BY <2>1, <2>4, <1>a DEF GaveOK
    <3> QED BY <2>1, <3>1, <3>2, <3>3, <1>b, NothingIfSame
  <2> QED BY <2>3, <2>4
<1>6. ASSUME NEW u \in TLBs, miss(u) PROVE SlotsAt(t)' /\ OwnsAt(t)'
  <2>1. PICK p \in Pages :
          LET r == Of(RQ[u], p)
          IN  /\ r # None /\ MSHR[u][p] = None /\ Put(u, p, r)
              /\ u = "STLB" => Took(u, p)
              /\ u # "STLB" => Passed(u, p, Down(r))
              /\ UNCHANGED <<entry, PROCESSED>>
    BY <1>0, <1>6, MissView
  <2>2. \A x \in Pages : Of(RQ'[t], x) = IF u = t /\ x = p THEN None ELSE Of(RQ[t], x)
    BY <2>1, <1>a DEF Took, Passed
  <2>3. \A x \in Pages : MSHR'[t][x] = IF u = t /\ x = p THEN Of(RQ[u], p) ELSE MSHR[t][x]
    BY <2>1, <1>a DEF Put
  <2>4. CASE u = t
    <3>1. \A s \in AllSlots : Names(MSHR'[t][p], s) <=> Pending(t, p, s)
      BY <2>1, <2>3, <2>4 DEF Pending, Names
    <3> QED BY <2>1, <2>2, <2>3, <2>4, <3>1, <1>a, SlotsMoved
  <2>5. CASE u # t
    BY <2>1, <2>2, <2>3, <2>5, <1>b, NothingIfSame
  <2> QED BY <2>4, <2>5
<1>7. ASSUME NEW u \in TLBs, merge(u) PROVE SlotsAt(t)' /\ OwnsAt(t)'
  <2>1. PICK p \in Pages :
           LET r == Of(RQ[u], p)
               m == MSHR[u][p]
           IN  /\ r \in Requests /\ r.page = p /\ r # None
               /\ m \in Misses(p, translation) /\ m # None
               /\ MergeMiss(m, u, r) # None
               /\ Put(u, p, MergeMiss(m, u, r)) /\ Took(u, p)
               /\ UNCHANGED <<entry, PROCESSED>>
    BY <1>0, <1>7, MergeView
  <2> DEFINE r == Of(RQ[u], p)
             m == MSHR[u][p]
             n == MergeMiss(m, u, r)
  <2>2. Named(n) = Named(m) \cup Named(r)
    BY <2>1, FieldsMiss
  <2>3. \A x \in Pages : /\ Of(RQ'[t], x) = IF u = t /\ x = p THEN None ELSE Of(RQ[t], x)
                         /\ MSHR'[t][x] = IF u = t /\ x = p THEN n ELSE MSHR[t][x]
    BY <2>1, <1>a DEF Took, Put
  <2>4. m # None /\ r # None /\ n # None /\ m = MSHR[u][p] /\ r = Of(RQ[u], p)
    BY <2>1
  <2> HIDE DEF m, r, n
  <2>5. CASE u = t
    <3>1. \A s \in AllSlots : Names(n, s) <=> Pending(t, p, s)
      BY <2>2, <2>4, <2>5 DEF Pending, Names
    <3> QED BY <2>1, <2>3, <2>5, <3>1, <1>a, SlotsMoved
  <2>6. CASE u # t
    BY <2>1, <2>3, <2>6, <1>b, NothingIfSame
  <2> QED BY <2>5, <2>6
<1>8. ASSUME NEW u \in TLBs, NEW p \in Pages, fill(u, p) \/ drop(u, p)
      PROVE  SlotsAt(t)' /\ OwnsAt(t)'
  <2>1. PICK e \in Answers, packets \in Seq(Answers) :
           LET m == MSHR[u][p]
           IN  /\ m # None
               /\ Freed(IF u = "STLB" THEN Receivers(m) ELSE {}, u, p)
               /\ e.page = p /\ e.own = m.own /\ Named(e) = Named(m)
               /\ packets \in {<<e>>, <<>>}
               /\ packets = <<>> => \/ u = "DTLB" /\ m.type = "TRANSLATION_FROM_L1D"
                                    \/ u = "STLB"
               /\ GaveOK(u, packets)
               /\ UNCHANGED <<entry, RQ>>
    BY <1>8, AnswerView
  <2> DEFINE m == MSHR[u][p]
  <2>2. CASE u = t
    <3>1. KindOK(t, m)
      BY <2>1, <2>2, <1>0 DEF IsKind
    <3>2. e.own # None /\ packets = <<e>>
      BY <2>1, <2>2, <3>1, <1>a DEF KindOK
    <3>3. \A x \in Pages : MSHR'[t][x] = IF x = p THEN None ELSE MSHR[t][x]
      BY <2>1, <2>2, <1>a DEF Freed
    <3>4. GaveOK(t, <<e>>) /\ Named(e) = Named(m) /\ m = MSHR[t][p] /\ m # None
      BY <2>1, <2>2, <3>2
    <3> HIDE DEF m
    <3> QED BY <2>1, <3>2, <3>3, <3>4, SlotsTold
  <2>3. CASE u # t
    <3>1. \A x \in Pages :
            \/ MSHR'[t][x] = MSHR[t][x]
            \/ MSHR[t][x] # None /\ MSHR'[t][x] # None /\ Alike(MSHR[t][x], MSHR'[t][x])
      BY <2>1, <2>3, <1>a DEF Freed
    <3>2. PROCESSED'[t] = PROCESSED[t]
      BY <2>1, <2>3, <1>a DEF GaveOK
    <3> QED BY <2>1, <3>1, <3>2, <1>b, NothingIfSame
  <2> QED BY <2>2, <2>3
<1>9. ASSUME NEW u \in TLBs, NEW p \in Pages, ask_again(u, p)
      PROVE  SlotsAt(t)' /\ OwnsAt(t)'
  <2>1. PICK y \in Packets :
           LET m == MSHR[u][p]
           IN  /\ m # None /\ y # None /\ Alike(m, y) /\ Put(u, p, y)
               /\ u = "STLB" => UNCHANGED RQ
               /\ u # "STLB" => \A v \in TLBs, x \in Pages : ~(v = "STLB" /\ x = p) =>
                                  Of(RQ'[v], x) = Of(RQ[v], x)
               /\ UNCHANGED <<entry, PROCESSED>>
    BY <1>0, <1>9, AskAgainView
  <2>2. \A x \in Pages : Of(RQ'[t], x) = Of(RQ[t], x)
    BY <2>1, <1>a
  <2>3. \A x \in Pages :
          \/ MSHR'[t][x] = MSHR[t][x]
          \/ MSHR[t][x] # None /\ MSHR'[t][x] # None /\ Alike(MSHR[t][x], MSHR'[t][x])
    BY <2>1, <1>a DEF Put
  <2> QED BY <2>1, <2>2, <2>3, <1>b, NothingIfSame
<1>10. ASSUME NEW p \in Pages, translated(p) \/ dropped(p) PROVE SlotsAt(t)' /\ OwnsAt(t)'
  <2>1. Returned({"STLB"}, p) /\ UNCHANGED <<entry, RQ, PROCESSED>>
    BY <1>10, WalkerView
  <2>2. \A x \in Pages : MSHR'[t][x] = MSHR[t][x]
    BY <2>1, <1>a DEF Returned
  <2> QED BY <2>1, <2>2, <1>b, NothingIfSame
<1>11. CodePages \subseteq Pages /\ DataPages \subseteq Pages
  BY QueuesCoverTranslations
<1>12. CASE operate
  BY <1>12, <1>3, <1>4, <1>5, <1>6, <1>7, <1>8, <1>9, <1>10 DEF operate
<1>13. CASE request
  <2>1. "L1I" \in L1s /\ "L1D" \in L1s
    BY DEF L1s
  <2> QED BY <1>13, <1>1, <1>2, <1>11, <2>1 DEF request
<1> QED BY <1>12, <1>13 DEF Next

\* No slot waits at first.
LEMMA SlotsFirst ==
  ASSUME Init
  PROVE  SlotsOK /\ OwnsOK
<1>1. \A t \in UpperTLBs : PROCESSED[t] = <<>> /\ RQ[t] = <<>>
                           /\ \A p \in Pages : MSHR[t][p] = None
  BY DEF Init, UpperTLBs, TLBs
<1>2. \A p : Of(<<>>, p) = None
  BY DEF Of
<1>3. \A t \in UpperTLBs : \A s : \A p \in Pages : ~Pending(t, p, s)
  BY <1>1, <1>2 DEF Pending, Names
<1>4. \A t \in UpperTLBs : \A s : Awaited(t, s) = None
  <2>1. \A c \in L1s : \A s \in Slots[c] : entry[c][s] = None
    BY DEF Init
  <2>2. \A t \in UpperTLBs : Core(t) \in L1s /\ Mine(t) \subseteq Slots[Core(t)]
    BY DEF Core, L1s, Mine
  <2> QED BY <2>1, <2>2 DEF Awaited, Wants, Waits
<1>5. \A t \in UpperTLBs : DOMAIN PROCESSED[t] = {}
  BY <1>1
<1>6. OwnsOK
  BY <1>5 DEF OwnsOK
<1>7. SlotsOK
  BY <1>1, <1>3, <1>4, <1>5 DEF SlotsOK, SlotOK, Pending
<1> QED BY <1>6, <1>7


-----------------------------------------------------------------------------
(* Prefetches of L1D on their way through STLB *)

\* A packet of STLB that names slot s will tell it: fill gives an answer to the
\* slots of a packet unless it is an instruction fetch's with a slot of its own
\* only.
Answerable(x) == x.merged # {} \/ x.both \/ ~x.instruction
Bears(x, s) == Names(x, s) /\ (aborted \/ Answerable(x))

\* A prefetch of L1D that waits has such a packet, or an answer on its way.
ToldOf(p, s) ==
  \E i \in DOMAIN PROCESSED["STLB"] :
    PROCESSED["STLB"][i].page = p /\ s \in Named(PROCESSED["STLB"][i])
BorneAt(p, s) ==
  Bears(Of(RQ["STLB"], p), s) \/ Bears(MSHR["STLB"][p], s) \/ ToldOf(p, s)

\* The slots of the prefetch queue of L1D, whose packets STLB holds.
PrefetchSlots == {s \in Slots["L1D"] : s[1] = "PQ"}
PrefetchesOK ==
  \A s \in PrefetchSlots, p \in Pages : Wants("L1D", s) = p => BorneAt(p, s)

\* A packet stays one that will tell when another is added to it,
LEMMA ReadAnswerable ==
  ASSUME NEW x \in Requests, NEW r \in Requests, KindOK("STLB", x), KindOK("STLB", r),
         Answerable(x),
         r.type = "TRANSLATION_FROM_L1D" => r.own # None,
         ~(r.instruction /\ r.type = "LOAD_TRANSLATION" /\ x.type = "TRANSLATION_FROM_L1D")
  PROVE  /\ Answerable(MergeRead(x, "STLB", r))
         /\ Named(x) \subseteq Named(MergeRead(x, "STLB", r))
<1> DEFINE m == MergeRead(x, "STLB", r)
<1>1. /\ m.merged = x.merged \cup ({r.own} \ {None})
      /\ m.both <=> x.both \/ Split("STLB", x, r)
      /\ m.instruction <=> x.instruction \/ r.instruction
      /\ Named(m) = Named(x) \cup ({r.own} \ {None})
  BY FieldsRead
<1>2. /\ r.type \in {"LOAD_TRANSLATION", "TRANSLATION_FROM_L1D"}
      /\ x.type \in {"LOAD_TRANSLATION", "TRANSLATION_FROM_L1D"}
      /\ r.fill \in {1, 2} /\ x.fill \in {1, 2}
      /\ r.instruction \in BOOLEAN /\ x.instruction \in BOOLEAN
  BY PacketFields DEF Requests
<1> HIDE DEF m
<1>3. Answerable(m)
  <2>1. CASE x.merged # {} \/ r.own # None \/ x.both
    BY <2>1, <1>1 DEF Answerable
  <2>2. CASE ~(x.merged # {} \/ r.own # None \/ x.both)
    <3>1. ~x.instruction
      BY <2>2 DEF Answerable
    <3>2. CASE ~r.instruction
      BY <3>1, <3>2, <1>1 DEF Answerable
    <3>3. CASE r.instruction
      <4>1. r.type = "LOAD_TRANSLATION" /\ x.type # "TRANSLATION_FROM_L1D"
        BY <2>2, <3>3, <1>2
      <4>2. r.fill = 1 /\ x.fill = 1
        BY <4>1, <1>2 DEF KindOK
      <4>3. Split("STLB", x, r)
        BY <3>1, <3>3, <4>2 DEF Split
      <4> QED BY <4>3, <1>1 DEF Answerable
    <3> QED BY <3>2, <3>3, <1>2
  <2> QED BY <2>1, <2>2
<1> QED BY <1>1, <1>3 DEF m

\* and when one joins the other in an MSHR.
LEMMA MissAnswerable ==
  ASSUME NEW p \in Pages, NEW tr, NEW m \in Misses(p, tr), NEW r \in Requests,
         r.page = p, KindOK("STLB", m), KindOK("STLB", r), NEW s,
         \/ s \in Named(m) /\ Answerable(m)
         \/ s \in Named(r)
  PROVE  LET n == MergeMiss(m, "STLB", r) IN s \in Named(n) /\ Answerable(n)
<1> DEFINE n == MergeMiss(m, "STLB", r)
           i == IF r.fill < m.fill THEN r.instruction ELSE m.instruction
<1>1. /\ Named(n) = Named(m) \cup Named(r)
      /\ Takes(m, r) => n.merged = r.merged \cup Named(m)
      /\ ~Takes(m, r) =>
           /\ n.merged = m.merged \cup Named(r)
           /\ n.both <=> m.both \/ Split("STLB", m, r)
           /\ n.instruction <=> i
  BY FieldsMiss
<1>2. /\ r.type \in {"LOAD_TRANSLATION", "TRANSLATION_FROM_L1D"}
      /\ m.type \in {"LOAD_TRANSLATION", "TRANSLATION_FROM_L1D"}
      /\ r.fill \in {1, 2} /\ m.fill \in {1, 2}
  BY PacketFields DEF Requests, Misses
<1> HIDE DEF n
<1>3. CASE Takes(m, r)
  <2>1. Named(m) # {}
    BY <1>3 DEF Takes, KindOK
  <2> QED BY <2>1, <1>1, <1>3 DEF Answerable, n
<1>4. CASE ~Takes(m, r)
  <2>1. CASE Named(r) # {} \/ m.merged # {} \/ m.both
    BY <2>1, <1>1, <1>4 DEF Answerable, n
  <2>2. CASE ~(Named(r) # {} \/ m.merged # {} \/ m.both)
    <3>1. ~m.instruction
      BY <2>2 DEF Answerable
    <3>2. r.type = "LOAD_TRANSLATION" /\ m.type = "LOAD_TRANSLATION"
      BY <2>2, <1>2, <1>4 DEF KindOK, Takes
    <3>3. ~(r.fill < m.fill)
      <4>1. m.fill = 1
        BY <3>2, <1>2 DEF KindOK
      <4> QED BY <4>1, <1>2
    <3> QED BY <3>1, <3>3, <1>1, <1>4 DEF Answerable, n
  <2> QED BY <2>1, <2>2
<1> QED BY <1>3, <1>4

\* Nothing happens to the packets that carry p for s, unless they turn into others.
LEMMA BorneKept ==
  ASSUME NEW s, NEW p, BorneAt(p, s), ~aborted,
         Names(Of(RQ["STLB"], p), s) /\ Answerable(Of(RQ["STLB"], p)) => BorneAt(p, s)',
         Names(MSHR["STLB"][p], s) /\ Answerable(MSHR["STLB"][p]) => BorneAt(p, s)',
         ToldOf(p, s) => ToldOf(p, s)'
  PROVE  BorneAt(p, s)'
BY DEF BorneAt, Bears

\* STLB gets request r for page p from ITLB or DTLB, or has no room for it.
LEMMA BornePassed ==
  ASSUME IInv, KindsOK, ~aborted, NEW t \in UpperTLBs, NEW p \in Pages,
         NEW r \in Packets, Asks(r), KindOK(t, r), r.page = p,
         Collides(r) => aborted',
         NEW x \in Pages, MSHR'["STLB"][x] = MSHR["STLB"][x], PROCESSED' = PROCESSED,
         \A y \in Pages : y # p => Of(RQ'["STLB"], y) = Of(RQ["STLB"], y),
         \/ Of(RQ'["STLB"], p) = Added(Of(RQ["STLB"], p), "STLB", Down(r))
         \/ Of(RQ'["STLB"], p) = Of(RQ["STLB"], p),
         NEW s, BorneAt(x, s)
  PROVE  BorneAt(x, s)'
<1> DEFINE e == Of(RQ["STLB"], p)
           d == Down(r)
<1>1. ToldOf(x, s) => ToldOf(x, s)'
  BY DEF ToldOf
<1>2. Names(MSHR["STLB"][x], s) /\ Answerable(MSHR["STLB"][x]) => BorneAt(x, s)'
  BY DEF BorneAt, Bears
<1>3. ASSUME Names(Of(RQ["STLB"], x), s), Answerable(Of(RQ["STLB"], x)) PROVE BorneAt(x, s)'
  <2>1. CASE x # p \/ Of(RQ'["STLB"], p) = e
    <3>1. Of(RQ'["STLB"], x) = Of(RQ["STLB"], x)
      BY <2>1
    <3> QED BY <3>1, <1>3 DEF BorneAt, Bears
  <2>2. CASE x = p /\ Of(RQ'["STLB"], p) = Added(e, "STLB", d)
    <3>1. e # None /\ s \in Named(e) /\ Answerable(e)
      BY <1>3, <2>2 DEF Names
    <3>2. e \in Requests /\ e.page = p /\ KindOK("STLB", e)
      BY <3>1, Reading DEF IInv, KindsOK, IsKind, TLBs
    <3>3. /\ d \in Requests /\ d.page = r.page /\ KindOK("STLB", d) /\ d.type = r.type
          /\ d.instruction <=> r.instruction
          /\ r.type = "TRANSLATION_FROM_L1D" => d.own # None
      BY DownKind
    <3> DEFINE n == MergeRead(e, "STLB", d)
    <3>4. Of(RQ'["STLB"], p) = n
      BY <2>2, <3>1 DEF Added
    <3>5. n # None
      <4>1. n \in Requests
        BY <3>2, <3>3, MergeIsRequest
      <4> QED BY <4>1, Nothing DEF Requests
    <3>6. CASE Collides(r)
      <4>1. aborted'
        BY <3>6
      <4>2. Named(e) \subseteq Named(n)
        BY <3>2, <3>3, FieldsRead
      <4> HIDE DEF n, e
      <4> QED BY <4>1, <4>2, <3>1, <3>4, <3>5, <2>2 DEF BorneAt, Bears, Names
    <3>7. CASE ~Collides(r)
      <4>1. ~(d.instruction /\ d.type = "LOAD_TRANSLATION" /\ e.type = "TRANSLATION_FROM_L1D")
        BY <3>1, <3>3, <3>7 DEF Collides
      <4>2. Answerable(n) /\ Named(e) \subseteq Named(n)
        BY <3>1, <3>2, <3>3, <4>1, ReadAnswerable
      <4> HIDE DEF n, e
      <4> QED BY <4>2, <3>1, <3>4, <3>5, <2>2 DEF BorneAt, Bears, Names
    <3> QED BY <3>6, <3>7
  <2> QED BY <2>1, <2>2
<1> QED BY <1>1, <1>2, <1>3, BorneKept


\* STLB has room for the answers of one packet.
RoomForAnswers == Len(PROCESSED["STLB"]) + 2 <= ROB_SIZE

\* An answer that has been given stays until its core takes it.
LEMMA ToldStays ==
  ASSUME IInv, NEW u \in TLBs, NEW e \in Answers, NEW packets, AnswersOf(packets, e),
         GaveOK(u, packets), NEW p, NEW s, ToldOf(p, s)
  PROVE  ToldOf(p, s)'
<1> PICK i \in DOMAIN PROCESSED["STLB"] :
      PROCESSED["STLB"][i].page = p /\ s \in Named(PROCESSED["STLB"][i])
  BY DEF ToldOf
<1>1. i \in DOMAIN PROCESSED'["STLB"] /\ PROCESSED'["STLB"][i] = PROCESSED["STLB"][i]
  <2>1. CASE u = "STLB"
    BY <2>1, GaveShape
  <2>2. CASE u # "STLB"
    BY <2>2, GaveShape DEF TLBs
  <2> QED BY <2>1, <2>2
<1> QED BY <1>1 DEF ToldOf

\* STLB answers a packet that names s.
LEMMA ToldNow ==
  ASSUME IInv, RoomForAnswers, NEW e \in Answers, NEW packets, AnswersOf(packets, e),
         GaveOK("STLB", packets), packets # <<>>, NEW s \in Named(e)
  PROVE  ToldOf(e.page, s)'
<1>1. \E i \in DOMAIN PROCESSED'["STLB"] : PROCESSED'["STLB"][i] = e
  BY GaveShape DEF RoomForAnswers, TLBs
<1> QED BY <1>1 DEF ToldOf

\* Every step keeps the prefetches of L1D that wait on their way.
LEMMA PrefetchesStep ==
  ASSUME IInv, KindsOK, PrefetchesOK, RoomForAnswers, Next
  PROVE  PrefetchesOK'
<1>0. /\ Onces(RQ) /\ ~aborted /\ "STLB" \in TLBs
      /\ \A t \in TLBs, p \in Pages : IsKind(t, Of(RQ[t], p)) /\ IsKind(t, MSHR[t][p])
      /\ \A t \in TLBs : t \in UpperTLBs <=> t # "STLB"
      /\ PrefetchSlots' = PrefetchSlots /\ "L1D" \in L1s
      /\ \A s \in PrefetchSlots : s \in Slots["L1D"] /\ s[1] = "PQ"
  BY DEF KindsOK, TLBs, UpperTLBs, Next, PrefetchSlots, Slots, L1s
<1> SUFFICES ASSUME NEW s \in PrefetchSlots, NEW p \in Pages, Wants("L1D", s)' = p
             PROVE  BorneAt(p, s)'
  BY <1>0 DEF PrefetchesOK
<1>a. ASSUME Wants("L1D", s)' = Wants("L1D", s) PROVE BorneAt(p, s)
  BY <1>a DEF PrefetchesOK
\* The packets that carry p for s stay as they are,
<1>b. ASSUME BorneAt(p, s),
             Of(RQ'["STLB"], p) = Of(RQ["STLB"], p),
             \/ MSHR'["STLB"][p] = MSHR["STLB"][p]
             \/ /\ MSHR["STLB"][p] # None /\ MSHR'["STLB"][p] # None
                /\ Alike(MSHR["STLB"][p], MSHR'["STLB"][p]),
             ToldOf(p, s) => ToldOf(p, s)'
      PROVE  BorneAt(p, s)'
  <2>1. /\ Names(MSHR["STLB"][p], s) => Names(MSHR'["STLB"][p], s)
        /\ Answerable(MSHR["STLB"][p]) => Answerable(MSHR'["STLB"][p])
    BY <1>b, AlikeNames DEF Alike, Answerable
  <2> QED BY <1>0, <1>b, <2>1 DEF BorneAt, Bears
<1>1. ASSUME NEW c \in L1s, NEW queue \in {"RQ", "WQ"}, NEW x \in Pages, demand(c, queue, x)
      PROVE  BorneAt(p, s)'
  <2>1. PICK u \in Slots[c] :
          /\ u[1] = queue /\ Asked(c, u, x)
          /\ Got(Translator[c], x, Packet(x, "LOAD_TRANSLATION", 1, c = "L1I", u))
          /\ UNCHANGED <<MSHR, PROCESSED>>
    BY <1>0, <1>1, DemandView
  <2>2. u # s /\ Translator[c] # "STLB"
    BY <1>0, <2>1 DEF Translator, L1s
  <2>3. Wants("L1D", s)' = Wants("L1D", s)
    BY <1>0, <2>1, <2>2 DEF Asked
  <2>4. Of(RQ'["STLB"], p) = Of(RQ["STLB"], p)
    BY <1>0, <2>1, <2>2 DEF Got
  <2>5. ToldOf(p, s) => ToldOf(p, s)'
    BY <2>1 DEF ToldOf
  <2> QED BY <2>1, <2>3, <2>4, <2>5, <1>a, <1>b
<1>2. ASSUME NEW c \in L1s, NEW x \in Pages, prefetch(c, x) PROVE BorneAt(p, s)'
  <2>1. PICK u \in Slots[c] :
           LET r == Packet(x, "TRANSLATION_FROM_L1D", IF c = "L1I" THEN 1 ELSE 2,
                           c = "L1I", u)
           IN  /\ u[1] = "PQ" /\ Asked(c, u, x) /\ r \in Requests /\ Got(Below(c), x, r)
               /\ UNCHANGED <<MSHR, PROCESSED>>
    BY <1>0, <1>2, PrefetchView
  <2>2. ToldOf(p, s) => ToldOf(p, s)'
    BY <2>1 DEF ToldOf
  <2>3. CASE c = "L1I"
    <3>1. Below(c) # "STLB" /\ c # "L1D"
      BY <2>3 DEF Below
    <3>2. Of(RQ'["STLB"], p) = Of(RQ["STLB"], p)
      BY <1>0, <2>1, <3>1 DEF Got
    <3>3. Wants("L1D", s)' = Wants("L1D", s)
      BY <1>0, <2>1, <3>1 DEF Asked
    <3> QED BY <2>1, <2>2, <3>2, <3>3, <1>a, <1>b
  <2>4. CASE c = "L1D"
    <3> DEFINE r == Packet(x, "TRANSLATION_FROM_L1D", IF c = "L1I" THEN 1 ELSE 2,
                           c = "L1I", u)
               e == Of(RQ["STLB"], x)
               n == Added(e, "STLB", r)
    <3>1. r.merged = {} /\ Named(r) = {u} /\ r.own = u /\ u # None
      BY SlotFacts, SentNames, Nothing
    <3>2. ~r.instruction
      BY <2>4 DEF Packet
    <3>3. r \in Requests /\ Got("STLB", x, r)
      BY <2>1, <2>4 DEF Below
    <3>4. e = None \/ e \in Requests
      BY <1>0, Reading DEF IInv
    <3>5. Of(RQ'["STLB"], x) = n /\ \A y \in Pages : y # x => Of(RQ'["STLB"], y) = Of(RQ["STLB"], y)
      BY <3>3, <1>0 DEF Got
    <3> HIDE DEF r
    <3>6. Names(n, s) <=> Names(e, s) \/ s = u
      BY <3>1, <3>3, <3>4, AddedNames
    <3>7. Answerable(n)
      <4>1. CASE e = None
        BY <4>1, <3>2 DEF Added, Answerable
      <4>2. CASE e # None
        <5>1. n = MergeRead(e, "STLB", r) /\ e \in Requests
          BY <4>2, <3>4 DEF Added
        <5>2. n.merged = e.merged \cup ({r.own} \ {None})
          BY <5>1, <3>3, FieldsRead
        <5> HIDE DEF n
        <5> QED BY <5>2, <3>1 DEF Answerable
      <4> QED BY <4>1, <4>2
    <3> HIDE DEF n
    <3>8. CASE s = u
      <4>1. p = x
        BY <1>0, <2>1, <2>4, <3>8 DEF Asked
      <4> QED BY <4>1, <3>5, <3>6, <3>7, <3>8 DEF BorneAt, Bears
    <3>9. CASE s # u
      <4>1. Wants("L1D", s)' = Wants("L1D", s)
        BY <1>0, <2>1, <2>4, <3>9 DEF Asked
      <4>2. BorneAt(p, s)
        BY <4>1, <1>a
      <4>3. CASE p # x
        BY <2>1, <2>2, <4>2, <4>3, <3>5, <1>b
      <4>4. CASE p = x
        <5>1. Names(Of(RQ["STLB"], p), s) => BorneAt(p, s)'
          BY <4>4, <3>5, <3>6, <3>7 DEF BorneAt, Bears
        <5>2. Names(MSHR["STLB"][p], s) /\ Answerable(MSHR["STLB"][p]) => BorneAt(p, s)'
          BY <2>1 DEF BorneAt, Bears
        <5> QED BY <5>1, <5>2, <2>2, <4>2, <1>0, BorneKept
      <4> QED BY <4>3, <4>4
    <3> QED BY <3>8, <3>9
  <2> QED BY <2>3, <2>4 DEF L1s
<1>3. ASSUME NEW t \in TLBs, handle_processed(t) PROVE BorneAt(p, s)'
  <2> DEFINE e == Head(PROCESSED[t])
  <2>1. /\ PROCESSED[t] # <<>> /\ PROCESSED' = [PROCESSED EXCEPT ![t] = Tail(@)]
        /\ UNCHANGED <<RQ, MSHR>>
        /\ Wants("L1D", s)' = IF "L1D" = Core(t) /\ s \in Named(e) /\ Wants("L1D", s) = e.page
                              THEN None ELSE Wants("L1D", s)
    BY <1>0, <1>3, HandleView
  <2>2. p # None
    BY Nothing
  <2>3. Wants("L1D", s) = p /\ ~("L1D" = Core(t) /\ s \in Named(e) /\ e.page = p)
    BY <2>1, <2>2
  <2>4. DOMAIN PROCESSED = TLBs /\ PROCESSED[t] \in Seq(Answers)
    BY AnswersAre DEF IInv, AnswersOK
  <2>5. ASSUME ToldOf(p, s) PROVE ToldOf(p, s)'
    <3>1. CASE t # "STLB"
      <4>1. PROCESSED'["STLB"] = PROCESSED["STLB"]
        BY <2>1, <2>4, <3>1, <1>0
      <4> QED BY <4>1, <2>5 DEF ToldOf
    <3>2. CASE t = "STLB"
      <4>1. PICK i \in DOMAIN PROCESSED["STLB"] :
              PROCESSED["STLB"][i].page = p /\ s \in Named(PROCESSED["STLB"][i])
        BY <2>5 DEF ToldOf
      <4> PICK k : k = Len(PROCESSED["STLB"])
        OBVIOUS
      <4>2. PROCESSED'["STLB"] = Tail(PROCESSED["STLB"])
        BY <2>1, <2>4, <3>2, <1>0
      <4>3. /\ k \in Nat /\ DOMAIN PROCESSED["STLB"] = 1 .. k
            /\ Head(PROCESSED["STLB"]) = PROCESSED["STLB"][1]
            /\ DOMAIN PROCESSED'["STLB"] = 1 .. (k - 1)
            /\ \A j \in 1 .. (k - 1) : PROCESSED'["STLB"][j] = PROCESSED["STLB"][j + 1]
        BY <2>1, <2>4, <3>2, <4>2, TailOf
      <4>4. i # 1
        BY <2>3, <3>2, <4>1, <4>3 DEF Core
      <4>5. i - 1 \in 1 .. (k - 1) /\ (i - 1) + 1 = i
        BY <4>3, <4>4
      <4>6. PROCESSED'["STLB"][i - 1] = PROCESSED["STLB"][i]
        BY <4>3, <4>5
      <4> QED BY <4>1, <4>3, <4>5, <4>6 DEF ToldOf
    <3> QED BY <3>1, <3>2
  <2>6. BorneAt(p, s)
    BY <2>3 DEF PrefetchesOK
  <2> QED BY <2>1, <2>5, <2>6, <1>b
<1>4. ASSUME NEW c \in L1s, NEW u \in Slots[c], use(c, u) PROVE BorneAt(p, s)'
  <2>1. Wants("L1D", s)' = Wants("L1D", s) /\ UNCHANGED <<RQ, MSHR, PROCESSED>>
    BY <1>0, <1>4, UseView
  <2>2. ToldOf(p, s) => ToldOf(p, s)'
    BY <2>1 DEF ToldOf
  <2> QED BY <2>1, <2>2, <1>a, <1>b
\* and STLB answers its packet of page x,
<1>c. ASSUME BorneAt(p, s), NEW x \in Pages, NEW e \in Answers, e.page = x,
             NEW packets, AnswersOf(packets, e), GaveOK("STLB", packets),
             NEW r, r # None, Named(e) = Named(r),
             s \in Named(r) /\ Answerable(r) => packets # <<>>,
             \/ /\ r = Of(RQ["STLB"], x)
                /\ p # x => Of(RQ'["STLB"], p) = Of(RQ["STLB"], p)
                /\ MSHR'["STLB"][p] = MSHR["STLB"][p]
             \/ /\ r = MSHR["STLB"][x]
                /\ p # x => MSHR'["STLB"][p] = MSHR["STLB"][p]
                /\ Of(RQ'["STLB"], p) = Of(RQ["STLB"], p)
      PROVE  BorneAt(p, s)'
  <2>1. ToldOf(p, s) => ToldOf(p, s)'
    BY <1>0, <1>c, ToldStays
  <2>2. ASSUME s \in Named(r), Answerable(r), p = x PROVE BorneAt(p, s)'
    <3>1. ToldOf(e.page, s)'
      BY <1>c, <2>2, ToldNow
    <3>2. ToldOf(p, s)'
      BY <3>1, <1>c, <2>2
    <3> QED BY <3>2 DEF BorneAt
  <2>3. Names(Of(RQ["STLB"], p), s) /\ Answerable(Of(RQ["STLB"], p)) => BorneAt(p, s)'
    <3>1. ASSUME Of(RQ'["STLB"], p) = Of(RQ["STLB"], p),
                 Names(Of(RQ["STLB"], p), s), Answerable(Of(RQ["STLB"], p))
          PROVE  BorneAt(p, s)'
      BY <3>1 DEF BorneAt, Bears
    <3> QED BY <3>1, <2>2, <1>c DEF Names
  <2>4. Names(MSHR["STLB"][p], s) /\ Answerable(MSHR["STLB"][p]) => BorneAt(p, s)'
    <3>1. ASSUME MSHR'["STLB"][p] = MSHR["STLB"][p],
                 Names(MSHR["STLB"][p], s), Answerable(MSHR["STLB"][p])
          PROVE  BorneAt(p, s)'
      BY <3>1 DEF BorneAt, Bears
    <3> QED BY <3>1, <2>2, <1>c DEF Names
  <2> QED BY <2>1, <2>3, <2>4, <1>0, <1>c, BorneKept
<1>5. ASSUME NEW u \in TLBs, hit(u) PROVE BorneAt(p, s)'
  <2>1. PICK x \in Pages, e \in Answers, packets \in Seq(Answers) :
          LET r == Of(RQ[u], x)
          IN  /\ r \in Requests /\ Took(u, x)
              /\ Returned(IF u = "STLB" THEN Receivers(r) ELSE {}, x)
              /\ e.page = x /\ Named(e) = Named(r) /\ AnswersOf(packets, e)
              /\ packets = <<>> => Named(r) = {}
              /\ GaveOK(u, packets) /\ UNCHANGED entry
    BY <1>0, <1>5, HitView
  <2> DEFINE r == Of(RQ[u], x)
  <2>2. r # None /\ "STLB" \notin Receivers(r)
    BY <2>1, Nothing DEF Requests, Receivers
  <2>3. BorneAt(p, s)
    BY <2>1, SameWants, <1>a
  <2>4. MSHR'["STLB"][p] = MSHR["STLB"][p]
    BY <2>1, <2>2, <1>0 DEF Returned
  <2>5. Of(RQ'["STLB"], p) = IF u = "STLB" /\ p = x THEN None ELSE Of(RQ["STLB"], p)
    BY <2>1, <1>0 DEF Took
  <2>6. CASE u = "STLB"
    <3>1. r = Of(RQ["STLB"], x) /\ GaveOK("STLB", packets)
      BY <2>1, <2>6
    <3>2. Named(e) = Named(r) /\ (s \in Named(r) => packets # <<>>)
      BY <2>1
    <3> HIDE DEF r
    <3> QED BY <2>1, <2>2, <2>3, <2>4, <2>5, <3>1, <3>2, <1>c
  <2>7. CASE u # "STLB"
    <3>1. ToldOf(p, s) => ToldOf(p, s)'
      BY <2>1, ToldStays
    <3> QED BY <2>3, <2>4, <2>5, <2>7, <3>1, <1>b
  <2> QED BY <2>6, <2>7
<1>6. ASSUME NEW u \in TLBs, miss(u) PROVE BorneAt(p, s)'
  <2>1. PICK x \in Pages :
          LET r == Of(RQ[u], x)
          IN  /\ r \in Requests /\ r.page = x /\ r # None /\ Asks(r)
              /\ MSHR[u][x] = None /\ Put(u, x, r)
              /\ u = "STLB" => Took(u, x)
              /\ u # "STLB" => Passed(u, x, Down(r)) /\ (Collides(r) => aborted')
              /\ UNCHANGED <<entry, PROCESSED>>
    BY <1>0, <1>6, MissView
  <2> DEFINE r == Of(RQ[u], x)
  <2>2. BorneAt(p, s)
    BY <2>1, SameWants, <1>a
  <2>3. ToldOf(p, s) => ToldOf(p, s)'
    BY <2>1 DEF ToldOf
  <2>4. CASE u = "STLB"
    <3>1. /\ Of(RQ'["STLB"], p) = IF p = x THEN None ELSE Of(RQ["STLB"], p)
          /\ MSHR'["STLB"][p] = IF p = x THEN Of(RQ["STLB"], p) ELSE MSHR["STLB"][p]
          /\ p = x => MSHR["STLB"][p] = None
      BY <2>1, <2>4, <1>0 DEF Took, Put
    <3>2. CASE p = x
      <4>1. Names(Of(RQ["STLB"], p), s) /\ Answerable(Of(RQ["STLB"], p)) => BorneAt(p, s)'
        BY <3>1, <3>2 DEF BorneAt, Bears
      <4>2. ~Names(MSHR["STLB"][p], s)
        BY <3>1, <3>2 DEF Names
      <4> QED BY <2>2, <2>3, <4>1, <4>2, <1>0, BorneKept
    <3>3. CASE p # x
      BY <2>2, <2>3, <3>1, <3>3, <1>b
    <3> QED BY <3>2, <3>3
  <2>5. CASE u # "STLB"
    <3>1. u \in UpperTLBs /\ r \in Packets /\ KindOK(u, r)
      BY <2>1, <2>5, <1>0 DEF Requests, IsKind
    <3>2. MSHR'["STLB"][p] = MSHR["STLB"][p]
      BY <2>1, <2>5, <1>0 DEF Put
    <3>3. /\ \A y \in Pages : y # x => Of(RQ'["STLB"], y) = Of(RQ["STLB"], y)
          /\ \/ Of(RQ'["STLB"], x) = Added(Of(RQ["STLB"], x), "STLB", Down(r))
             \/ Of(RQ'["STLB"], x) = Of(RQ["STLB"], x)
      BY <2>1, <2>5, <1>0 DEF Passed
    <3>4. Asks(r) /\ r.page = x /\ (Collides(r) => aborted') /\ PROCESSED' = PROCESSED
      BY <2>1, <2>5
    <3> HIDE DEF r
    <3> QED BY <2>2, <3>1, <3>2, <3>3, <3>4, <1>0, BornePassed
  <2> QED BY <2>4, <2>5
<1>7. ASSUME NEW u \in TLBs, merge(u) PROVE BorneAt(p, s)'
  <2>1. PICK x \in Pages :
           LET r == Of(RQ[u], x)
               m == MSHR[u][x]
           IN  /\ r \in Requests /\ r.page = x /\ r # None
               /\ m \in Misses(x, translation) /\ m # None
               /\ MergeMiss(m, u, r) # None
               /\ Put(u, x, MergeMiss(m, u, r)) /\ Took(u, x)
               /\ UNCHANGED <<entry, PROCESSED>>
    BY <1>0, <1>7, MergeView
  <2> DEFINE r == Of(RQ[u], x)
             m == MSHR[u][x]
             n == MergeMiss(m, "STLB", r)
  <2>2. BorneAt(p, s)
    BY <2>1, SameWants, <1>a
  <2>3. ToldOf(p, s) => ToldOf(p, s)'
    BY <2>1 DEF ToldOf
  <2>4. CASE u = "STLB" /\ p = x
    <3>1. /\ Of(RQ["STLB"], p) = r /\ MSHR["STLB"][p] = m
          /\ MSHR'["STLB"][p] = n /\ n # None
      BY <2>1, <2>4, <1>0 DEF Put
    <3>2. KindOK("STLB", m) /\ KindOK("STLB", r)
      BY <2>1, <2>4, <1>0 DEF IsKind
    <3>3. r \in Requests /\ r.page = x /\ m \in Misses(x, translation)
      BY <2>1
    <3>4. ASSUME \/ s \in Named(m) /\ Answerable(m)
                 \/ s \in Named(r)
          PROVE  s \in Named(n) /\ Answerable(n)
      <4> HIDE DEF m, r
      <4> QED BY <3>2, <3>3, <3>4, MissAnswerable
    <3> HIDE DEF m, r, n
    <3>5. (s \in Named(m) /\ Answerable(m)) \/ s \in Named(r) => BorneAt(p, s)'
      BY <3>1, <3>4 DEF BorneAt, Bears, Names
    <3> QED BY <2>2, <2>3, <3>1, <3>5, <1>0, BorneKept DEF Names
  <2>5. CASE ~(u = "STLB" /\ p = x)
    <3>1. Of(RQ'["STLB"], p) = Of(RQ["STLB"], p) /\ MSHR'["STLB"][p] = MSHR["STLB"][p]
      BY <2>1, <2>5, <1>0 DEF Took, Put
    <3> QED BY <2>2, <2>3, <3>1, <1>b
  <2> QED BY <2>4, <2>5
<1>8. ASSUME NEW u \in TLBs, NEW x \in Pages, fill(u, x) \/ drop(u, x) PROVE BorneAt(p, s)'
  <2>1. PICK e \in Answers, packets \in Seq(Answers) :
           LET m == MSHR[u][x]
           IN  /\ m # None
               /\ Freed(IF u = "STLB" THEN Receivers(m) ELSE {}, u, x)
               /\ e.page = x /\ Named(e) = Named(m) /\ AnswersOf(packets, e)
               /\ packets = <<>> =>
                    \/ u = "DTLB"
                    \/ Named(m) = {}
                    \/ m.merged = {} /\ ~m.both /\ m.instruction
               /\ GaveOK(u, packets)
               /\ UNCHANGED <<entry, RQ>>
    BY <1>8, AnswerView
  <2> DEFINE m == MSHR[u][x]
  <2>2. BorneAt(p, s)
    BY <2>1, SameWants, <1>a
  <2>3. CASE u = "STLB"
    <3>1. m = MSHR["STLB"][x] /\ GaveOK("STLB", packets) /\ m # None
      BY <2>1, <2>3
    <3>2. s \in Named(m) /\ Answerable(m) => packets # <<>>
      BY <2>1, <2>3 DEF Answerable
    <3>3. p # x => MSHR'["STLB"][p] = MSHR["STLB"][p]
      BY <2>1, <2>3, <1>0 DEF Freed, Receivers
    <3>4. Named(e) = Named(m) /\ Of(RQ'["STLB"], p) = Of(RQ["STLB"], p)
      BY <2>1
    <3> HIDE DEF m
    <3> QED BY <2>1, <2>2, <3>1, <3>2, <3>3, <3>4, <1>c
  <2>4. CASE u # "STLB"
    <3>1. MSHR'["STLB"][p] = MSHR["STLB"][p]
      BY <2>1, <2>4, <1>0 DEF Freed
    <3>2. ToldOf(p, s) => ToldOf(p, s)'
      BY <2>1, ToldStays
    <3> QED BY <2>1, <2>2, <3>1, <3>2, <1>b
  <2> QED BY <2>3, <2>4
<1>9. ASSUME NEW u \in TLBs, NEW x \in Pages, ask_again(u, x) PROVE BorneAt(p, s)'
  <2>1. PICK y \in Packets :
           LET m == MSHR[u][x]
           IN  /\ m \in Misses(x, translation) /\ m # None /\ m.page = x /\ Asks(m)
               /\ y # None /\ Alike(m, y) /\ Put(u, x, y)
               /\ u = "STLB" => UNCHANGED RQ
               /\ u # "STLB" =>
                    /\ \A v \in TLBs, z \in Pages : ~(v = "STLB" /\ z = x) =>
                         Of(RQ'[v], z) = Of(RQ[v], z)
                    /\ \/ Of(RQ'["STLB"], x) = Added(Of(RQ["STLB"], x), "STLB", Down(m))
                       \/ Of(RQ'["STLB"], x) = Of(RQ["STLB"], x)
                    /\ Collides(m) => aborted'
               /\ UNCHANGED <<entry, PROCESSED>>
    BY <1>0, <1>9, AskAgainView
  <2> DEFINE m == MSHR[u][x]
  <2>2. BorneAt(p, s)
    BY <2>1, SameWants, <1>a
  <2>3. ToldOf(p, s) => ToldOf(p, s)'
    BY <2>1 DEF ToldOf
  <2>4. CASE u = "STLB"
    <3>1. Of(RQ'["STLB"], p) = Of(RQ["STLB"], p)
      BY <2>1, <2>4
    <3>2. \/ MSHR'["STLB"][p] = MSHR["STLB"][p]
          \/ MSHR["STLB"][p] # None /\ MSHR'["STLB"][p] # None
             /\ Alike(MSHR["STLB"][p], MSHR'["STLB"][p])
      BY <2>1, <2>4, <1>0 DEF Put
    <3> QED BY <2>2, <2>3, <3>1, <3>2, <1>b
  <2>5. CASE u # "STLB"
    <3>1. u \in UpperTLBs /\ m \in Packets /\ KindOK(u, m)
      BY <2>1, <2>5, <1>0 DEF Misses, IsKind
    <3>2. MSHR'["STLB"][p] = MSHR["STLB"][p]
      BY <2>1, <2>5, <1>0 DEF Put
    <3>3. /\ \A z \in Pages : z # x => Of(RQ'["STLB"], z) = Of(RQ["STLB"], z)
          /\ \/ Of(RQ'["STLB"], x) = Added(Of(RQ["STLB"], x), "STLB", Down(m))
             \/ Of(RQ'["STLB"], x) = Of(RQ["STLB"], x)
      BY <2>1, <2>5, <1>0
    <3>4. Asks(m) /\ m.page = x /\ (Collides(m) => aborted') /\ PROCESSED' = PROCESSED
      BY <2>1, <2>5
    <3> HIDE DEF m
    <3> QED BY <2>2, <3>1, <3>2, <3>3, <3>4, <1>0, BornePassed
  <2> QED BY <2>4, <2>5
<1>10. ASSUME NEW x \in Pages, translated(x) \/ dropped(x) PROVE BorneAt(p, s)'
  <2>1. Returned({"STLB"}, x) /\ UNCHANGED <<entry, RQ, PROCESSED>>
    BY <1>10, WalkerView
  <2>2. BorneAt(p, s) /\ (ToldOf(p, s) => ToldOf(p, s)')
    BY <2>1, SameWants, <1>a DEF ToldOf
  <2>3. \/ MSHR'["STLB"][p] = MSHR["STLB"][p]
        \/ MSHR["STLB"][p] # None /\ MSHR'["STLB"][p] # None
           /\ Alike(MSHR["STLB"][p], MSHR'["STLB"][p])
    BY <2>1, <1>0 DEF Returned
  <2> QED BY <2>1, <2>2, <2>3, <1>b
<1>11. CodePages \subseteq Pages /\ DataPages \subseteq Pages
  BY QueuesCoverTranslations
<1>12. CASE operate
  BY <1>12, <1>3, <1>4, <1>5, <1>6, <1>7, <1>8, <1>9, <1>10 DEF operate
<1>13. CASE request
  <2>1. "L1I" \in L1s /\ "L1D" \in L1s
    BY DEF L1s
  <2> QED BY <1>13, <1>1, <1>2, <1>11, <2>1 DEF request
<1> QED BY <1>12, <1>13 DEF Next

\* No prefetch waits at first.
LEMMA PrefetchesFirst ==
  ASSUME Init
  PROVE  PrefetchesOK
<1>1. \A s \in PrefetchSlots : Wants("L1D", s) = None
  BY DEF Init, PrefetchSlots, Wants, Waits, L1s
<1> QED BY <1>1, Nothing DEF PrefetchesOK


-----------------------------------------------------------------------------
(* Every slot that waits is named *)

\* What Carriers finds: packets of read queues, MSHRs and answers that name s.
LEMMA CarriersAre ==
  ASSUME NEW t, NEW s
  PROVE  /\ \A i \in DOMAIN RQ[t] : <<"RQ", i>> \in Carriers(t, s) <=> s \in Named(RQ[t][i])
         /\ \A p \in Pages : <<"MSHR", p>> \in Carriers(t, s) <=> Names(MSHR[t][p], s)
         /\ \A i \in DOMAIN PROCESSED[t] : <<"PROCESSED", i>> \in Carriers(t, s) <=> Told(t, i, s)
         /\ \A x \in Carriers(t, s) :
              \/ \E i \in DOMAIN RQ[t] : x = <<"RQ", i>> /\ s \in Named(RQ[t][i])
              \/ \E p \in Pages : x = <<"MSHR", p>> /\ Names(MSHR[t][p], s)
              \/ \E i \in DOMAIN PROCESSED[t] : x = <<"PROCESSED", i>> /\ Told(t, i, s)
         /\ \A i : At(t, <<"RQ", i>>) = RQ[t][i]
         /\ \A p : At(t, <<"MSHR", p>>) = MSHR[t][p]
         /\ \A i : At(t, <<"PROCESSED", i>>) = PROCESSED[t][i]
<1>1. /\ \A i : At(t, <<"RQ", i>>) = RQ[t][i]
      /\ \A p : At(t, <<"MSHR", p>>) = MSHR[t][p]
      /\ \A i : At(t, <<"PROCESSED", i>>) = PROCESSED[t][i]
  BY DEF At
<1> DEFINE all == InQueue(t) \cup InMshr(t) \cup InProcessed(t)
<1>2. /\ \A i \in DOMAIN RQ[t] : <<"RQ", i>> \in all
      /\ \A p \in Pages : <<"MSHR", p>> \in all <=> MSHR[t][p] # None
      /\ \A i \in DOMAIN PROCESSED[t] : <<"PROCESSED", i>> \in all
      /\ \A x \in all : \/ \E i \in DOMAIN RQ[t] : x = <<"RQ", i>>
                        \/ \E p \in Pages : x = <<"MSHR", p>> /\ MSHR[t][p] # None
                        \/ \E i \in DOMAIN PROCESSED[t] : x = <<"PROCESSED", i>>
  BY DEF InQueue, InMshr, InProcessed
<1>3. \A x : x \in Carriers(t, s) <=> x \in all /\ s \in Named(At(t, x))
  BY DEF Carriers
<1> HIDE DEF all
<1> QED BY <1>1, <1>2, <1>3 DEF Names, Told

\* A packet of a read queue is Of its page.
LEMMA QueueNames ==
  ASSUME IInv, KindsOK, NEW t \in TLBs, NEW s
  PROVE  /\ \A i \in DOMAIN RQ[t] : s \in Named(RQ[t][i]) =>
              RQ[t][i].page \in Pages /\ Names(Of(RQ[t], RQ[t][i].page), s)
         /\ \A p : Names(Of(RQ[t], p), s) =>
              \E i \in DOMAIN RQ[t] : RQ[t][i].page = p /\ s \in Named(RQ[t][i])
         /\ \A i, j \in DOMAIN RQ[t] : RQ[t][i].page = RQ[t][j].page => i = j
<1>1. RQ[t] \in Seq(Requests) /\ Once(RQ[t])
  BY DEF IInv, QueuesOK, KindsOK, Onces
<1> DEFINE q == RQ[t]
<1> HIDE DEF q
<1>2. q \in Seq(Requests) /\ Once(q)
  BY <1>1 DEF q
<1>3. \A i \in DOMAIN q : q[i] \in Requests
  BY <1>2
<1>4. \A i \in DOMAIN q : q[i].page \in Pages /\ q[i] # None
  BY <1>3, PacketFields, Nothing DEF Requests
<1>5. \A i \in DOMAIN q : Of(q, q[i].page) = q[i]
  BY <1>2, OfFound
<1>6. \A p : Of(q, p) # None => \E i \in DOMAIN q : q[i].page = p
  BY <1>2, OfFound
<1>7. /\ \A i \in DOMAIN q : s \in Named(q[i]) => q[i].page \in Pages /\ Names(Of(q, q[i].page), s)
      /\ \A p : Names(Of(q, p), s) => \E i \in DOMAIN q : q[i].page = p /\ s \in Named(q[i])
  BY <1>4, <1>5, <1>6 DEF Names
<1> QED BY <1>2, <1>7 DEF Once, q

\* A slot of ITLB or DTLB has one carrier, of its page, or none.
LEMMA SlotCounted ==
  ASSUME IInv, KindsOK, NEW t \in UpperTLBs, NEW s \in AllSlots, SlotOK(t, s)
  PROVE  LET w == Awaited(t, s)
             C == Carriers(t, s)
         IN  /\ Cardinality(C) = (IF w # None THEN 1 ELSE 0)
             /\ w # None => \E x \in C : At(t, x).page = w
<1> DEFINE w == Awaited(t, s)
           C == Carriers(t, s)
<1>0. t \in TLBs /\ None \notin Pages
  BY Nothing DEF UpperTLBs, TLBs
<1>1. \A p \in Pages : MSHR[t][p] # None => MSHR[t][p].page = p
  BY <1>0 DEF IInv, MissesOK, Misses
<1>2. \A i \in DOMAIN PROCESSED[t] : PROCESSED[t][i].page \in Pages
  <2>1. \A i \in DOMAIN PROCESSED[t] : PROCESSED[t][i] \in Answers
    BY <1>0, AnswersAre
  <2> QED BY <2>1 DEF Answers
<1>3. /\ \A p \in Pages : Pending(t, p, s) => w = p
      /\ \A p \in Pages : ~(Names(Of(RQ[t], p), s) /\ Names(MSHR[t][p], s))
      /\ \A i \in DOMAIN PROCESSED[t] : Told(t, i, s) =>
           w = PROCESSED[t][i].page /\ \A p \in Pages : ~Pending(t, p, s)
      /\ \A i, j \in DOMAIN PROCESSED[t] : Told(t, i, s) /\ Told(t, j, s) => i = j
      /\ w # None => \/ \E p \in Pages : Pending(t, p, s)
                     \/ \E i \in DOMAIN PROCESSED[t] : Told(t, i, s)
  BY DEF SlotOK
<1>4. \A x \in C : \/ \E i \in DOMAIN RQ[t] : x = <<"RQ", i>> /\ s \in Named(RQ[t][i])
                   \/ \E p \in Pages : x = <<"MSHR", p>> /\ Names(MSHR[t][p], s)
                   \/ \E i \in DOMAIN PROCESSED[t] : x = <<"PROCESSED", i>> /\ Told(t, i, s)
  BY CarriersAre
<1> HIDE DEF w, C
<1>5. CASE \E p \in Pages : Names(Of(RQ[t], p), s)
  <2> PICK p \in Pages : Names(Of(RQ[t], p), s)
    BY <1>5
  <2> PICK i \in DOMAIN RQ[t] : RQ[t][i].page = p /\ s \in Named(RQ[t][i])
    BY <1>0, QueueNames
  <2>1. w = p /\ w # None /\ ~Names(MSHR[t][p], s)
    BY <1>0, <1>3 DEF Pending
  <2>2. \A x \in Pages : ~Names(MSHR[t][x], s)
    BY <2>1, <1>3 DEF Pending
  <2>3. \A j \in DOMAIN PROCESSED[t] : ~Told(t, j, s)
    BY <1>3 DEF Pending
  <2>4. \A j \in DOMAIN RQ[t] : s \in Named(RQ[t][j]) => j = i
    <3>1. ASSUME NEW j \in DOMAIN RQ[t], s \in Named(RQ[t][j]) PROVE j = i
      <4>1. RQ[t][j].page \in Pages /\ Pending(t, RQ[t][j].page, s)
        BY <1>0, <3>1, QueueNames DEF Pending
      <4>2. RQ[t][j].page = p
        BY <4>1, <2>1, <1>3
      <4> QED BY <4>2, <1>0, QueueNames
    <3> QED BY <3>1
  <2>5. <<"RQ", i>> \in C /\ At(t, <<"RQ", i>>).page = w
    BY <2>1, CarriersAre DEF C
  <2>6. C = {<<"RQ", i>>}
    BY <2>2, <2>3, <2>4, <2>5, <1>4
  <2> QED BY <2>1, <2>5, <2>6, FS_Singleton DEF w, C
<1>6. ASSUME ~\E p \in Pages : Names(Of(RQ[t], p), s)
      PROVE  \A i \in DOMAIN RQ[t] : s \notin Named(RQ[t][i])
  BY <1>0, <1>6, QueueNames
<1>7. CASE /\ ~\E p \in Pages : Names(Of(RQ[t], p), s)
           /\ \E p \in Pages : Names(MSHR[t][p], s)
  <2> PICK p \in Pages : Names(MSHR[t][p], s)
    BY <1>7
  <2>1. w = p /\ w # None
    BY <1>0, <1>3 DEF Pending
  <2>2. \A x \in Pages : Names(MSHR[t][x], s) => x = p
    BY <2>1, <1>3 DEF Pending
  <2>3. \A j \in DOMAIN PROCESSED[t] : ~Told(t, j, s)
    BY <1>3 DEF Pending
  <2>4. <<"MSHR", p>> \in C /\ At(t, <<"MSHR", p>>).page = w
    BY <2>1, <1>1, CarriersAre DEF C, Names
  <2>5. C = {<<"MSHR", p>>}
    BY <2>2, <2>3, <2>4, <1>4, <1>6, <1>7
  <2> QED BY <2>1, <2>4, <2>5, FS_Singleton DEF w, C
<1>8. CASE /\ ~\E p \in Pages : Names(Of(RQ[t], p), s)
           /\ ~\E p \in Pages : Names(MSHR[t][p], s)
           /\ \E i \in DOMAIN PROCESSED[t] : Told(t, i, s)
  <2> PICK i \in DOMAIN PROCESSED[t] : Told(t, i, s)
    BY <1>8
  <2>1. w = PROCESSED[t][i].page /\ w # None
    BY <1>0, <1>2, <1>3
  <2>2. <<"PROCESSED", i>> \in C /\ At(t, <<"PROCESSED", i>>).page = w
    BY <2>1, CarriersAre DEF C
  <2>3. C = {<<"PROCESSED", i>>}
    BY <2>2, <1>3, <1>4, <1>6, <1>8
  <2> QED BY <2>1, <2>2, <2>3, FS_Singleton DEF w, C
<1>9. CASE /\ ~\E p \in Pages : Names(Of(RQ[t], p), s)
           /\ ~\E p \in Pages : Names(MSHR[t][p], s)
           /\ ~\E i \in DOMAIN PROCESSED[t] : Told(t, i, s)
  <2>1. w = None
    BY <1>3, <1>9 DEF Pending
  <2>2. C = {}
    BY <1>4, <1>6, <1>9
  <2> QED BY <2>1, <2>2, FS_EmptySet DEF w, C
<1> QED BY <1>5, <1>7, <1>8, <1>9

\* What a slot that waits wants is a page.
LEMMA WantsPage ==
  ASSUME IInv, NEW c \in L1s, NEW s \in Slots[c]
  PROVE  /\ Waits(c, s) <=> Wants(c, s) # None
         /\ Waits(c, s) => Wants(c, s) = entry[c][s].page /\ Wants(c, s) \in Pages
<1>1. entry[c][s] # None => entry[c][s].page \in Pages
  BY DEF IInv, EntriesOK, EntryOK, Entries
<1> QED BY <1>1, Nothing DEF Wants, Waits

\* A slot that waits on ITLB or DTLB has one packet of its page on the way, and
\* one that does not wait has none.
NamedOnce ==
  \A t \in UpperTLBs : \A s \in Mine(t) :
    /\ Cardinality(Carriers(t, s)) = (IF Waits(Core(t), s) THEN 1 ELSE 0)
    /\ Waits(Core(t), s) =>
         \E x \in Carriers(t, s) : At(t, x).page = entry[Core(t)][s].page

\* That is what the invariant of the slots says.
LEMMA NamedOnceHolds ==
  ASSUME IInv, KindsOK, SlotsOK
  PROVE  NamedOnce
<1> SUFFICES ASSUME NEW t \in UpperTLBs, NEW s \in Mine(t)
             PROVE  /\ Cardinality(Carriers(t, s)) = (IF Waits(Core(t), s) THEN 1 ELSE 0)
                    /\ Waits(Core(t), s) =>
                         \E x \in Carriers(t, s) : At(t, x).page = entry[Core(t)][s].page
  BY DEF NamedOnce
<1>1. Core(t) \in L1s /\ s \in Slots[Core(t)] /\ s \in AllSlots
  BY SlotFacts DEF Core, L1s, Mine
<1>2. Awaited(t, s) = Wants(Core(t), s)
  BY DEF Awaited
<1>3. SlotOK(t, s)
  BY <1>1 DEF SlotsOK
<1>4. /\ Waits(Core(t), s) <=> Awaited(t, s) # None
      /\ Waits(Core(t), s) => Awaited(t, s) = entry[Core(t)][s].page
  BY <1>1, <1>2, WantsPage
<1> QED BY <1>1, <1>3, <1>4, SlotCounted

\* With the prefetches of L1D, every slot that waits is named.
LEMMA WaitersNamedHolds ==
  ASSUME IInv, KindsOK, NamedOnce, PrefetchesOK
  PROVE  WaitersNamed
<1> SUFFICES ASSUME NEW c \in L1s, NEW s \in Slots[c],
                    NEW t, t = IF c = "L1I" THEN "ITLB" ELSE IF s[1] = "PQ" THEN "STLB" ELSE "DTLB"
             PROVE  /\ Waits(c, s) => \E x \in Carriers(t, s) : At(t, x).page = entry[c][s].page
                    /\ t # "STLB" => Cardinality(Carriers(t, s)) = (IF Waits(c, s) THEN 1 ELSE 0)
  BY DEF WaitersNamed
<1>1. CASE t # "STLB"
  <2>1. t \in UpperTLBs /\ c = Core(t) /\ s \in Mine(t)
    BY <1>1 DEF L1s, UpperTLBs, Core, Mine
  <2> QED BY <2>1 DEF NamedOnce
<1>2. CASE t = "STLB"
  <2>1. c = "L1D" /\ s \in PrefetchSlots /\ t \in TLBs
    BY <1>2 DEF L1s, PrefetchSlots, TLBs
  <2> SUFFICES ASSUME Waits(c, s)
               PROVE  \E x \in Carriers(t, s) : At(t, x).page = entry[c][s].page
    BY <1>2
  <2> DEFINE p == entry[c][s].page
  <2>2. Wants("L1D", s) = p /\ p \in Pages
    BY <2>1, WantsPage
  <2>3. BorneAt(p, s)
    BY <2>1, <2>2 DEF PrefetchesOK
  <2> HIDE DEF p
  <2>4. CASE Names(Of(RQ[t], p), s)
    <3>a. \A x : Names(Of(RQ[t], x), s) =>
                  \E i \in DOMAIN RQ[t] : RQ[t][i].page = x /\ s \in Named(RQ[t][i])
      BY <2>1, QueueNames
    <3> PICK i \in DOMAIN RQ[t] : RQ[t][i].page = p /\ s \in Named(RQ[t][i])
      BY <2>4, <3>a
    <3>1. <<"RQ", i>> \in Carriers(t, s) /\ At(t, <<"RQ", i>>).page = p
      BY CarriersAre
    <3> QED BY <3>1 DEF p
  <2>5. CASE Names(MSHR[t][p], s)
    <3>1. MSHR[t][p].page = p
      BY <2>1, <2>2, <2>5 DEF IInv, MissesOK, Misses, Names
    <3>2. <<"MSHR", p>> \in Carriers(t, s) /\ At(t, <<"MSHR", p>>).page = p
      BY <2>2, <2>5, <3>1, CarriersAre
    <3> QED BY <3>2 DEF p
  <2>6. CASE ToldOf(p, s)
    <3> PICK i \in DOMAIN PROCESSED[t] :
          PROCESSED[t][i].page = p /\ s \in Named(PROCESSED[t][i])
      BY <1>2, <2>6 DEF ToldOf
    <3>1. <<"PROCESSED", i>> \in Carriers(t, s) /\ At(t, <<"PROCESSED", i>>).page = p
      BY CarriersAre DEF Told
    <3> QED BY <3>1 DEF p
  <2> QED BY <1>2, <2>3, <2>4, <2>5, <2>6 DEF BorneAt, Bears
<1> QED BY <1>1, <1>2

\* Every slot that waits on ITLB or DTLB is named by exactly one packet of its
\* page, in the read queue, an MSHR or PROCESSED, and no slot that does not wait
\* is named, however packets merge (add_rq, handle_read, handle_fill,
\* handle_processed): no demand is lost, and no answer finds PROCESSED full.
THEOREM SlotsNamedOnce == Spec => []NamedOnce
<1>1. Init => SlotsOK /\ OwnsOK
  BY SlotsFirst
<1>2. IInv /\ KindsOK /\ (SlotsOK /\ OwnsOK) /\ [Next]_vars => (SlotsOK /\ OwnsOK)'
  <2>1. SlotsOK /\ OwnsOK /\ UNCHANGED vars => SlotsOK' /\ OwnsOK'
    BY DEF vars, SlotsOK, OwnsOK, SlotOK, Awaited, Wants, Waits, Mine, Core, Slots, Pending,
           Told, AllSlots, UpperTLBs
  <2> QED BY <2>1, SlotsStep
<1>3. IInv /\ KindsOK /\ (SlotsOK /\ OwnsOK) => NamedOnce
  BY NamedOnceHolds
<1> QED BY <1>1, <1>2, <1>3, TranslationInvariance, KindsStay, PTL DEF Spec

\* Every slot that waits for a translation is named by a packet of its page on
\* the way, the prefetches of L1D in STLB too (cache.cc: add_rq, handle_read,
\* handle_fill), as long as STLB has room for its answers.
THEOREM SlotsStayNamed == Spec /\ []RoomForAnswers => []WaitersNamed
<1>1. Init => PrefetchesOK
  BY PrefetchesFirst
<1>2. IInv /\ KindsOK /\ RoomForAnswers /\ PrefetchesOK /\ [Next]_vars => PrefetchesOK'
  <2>1. PrefetchesOK /\ UNCHANGED vars => PrefetchesOK'
    BY DEF vars, PrefetchesOK, PrefetchSlots, Slots, BorneAt, Bears, ToldOf, Wants, Waits,
           Names, Answerable
  <2> QED BY <2>1, PrefetchesStep
<1>3. IInv /\ KindsOK /\ NamedOnce /\ PrefetchesOK => WaitersNamed
  BY WaitersNamedHolds
<1> QED BY <1>1, <1>2, <1>3, TranslationInvariance, KindsStay, SlotsNamedOnce, PTL DEF Spec

=============================================================================
