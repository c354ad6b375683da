----------------------- MODULE OutOfOrderMemoryProofs -----------------------
(***************************************************************************)
(* Proofs about the memory instructions of OutOfOrderCore: the load queue, *)
(* the store queue and what an instruction counts of its operands agree,   *)
(* the store queue is a ring in program order, a load gets the data of the *)
(* last store before it, and a store that executes wakes loads that wait   *)
(* for it.                                                                 *)
(***************************************************************************)
EXTENDS OutOfOrderCoreProofs

-----------------------------------------------------------------------------
(* The invariant *)

\* An entry of LQ that is in use is that of an operand of an instruction in
\* ROB.  (An instruction remembers its entries after they are released, so
\* that nothing is said the other way round.)
LQLinked ==
  \A l \in LQSlots :
    /\ LQ[l].id = NONE => LQ[l] = NoLSQEntry
    /\ LQ[l].id # NONE =>
         LET s == LQ[l].rob_index
             j == LQ[l].data_index
         IN /\ s \in Slots /\ ROB[s].id = LQ[l].id
            /\ j \in DOMAIN Loads(s) /\ ROB[s].lq_index[j] = l
            /\ LQ[l].address = Loads(s)[j]

\* So is an entry of SQ, and a store that has an entry keeps it.
SQLinked ==
  /\ \A q \in SQSlots :
       /\ SQ[q].id = NONE => SQ[q] = NoLSQEntry
       /\ SQ[q].id # NONE =>
            LET s == SQ[q].rob_index
                j == SQ[q].data_index
            IN /\ s \in Slots /\ ROB[s].id = SQ[q].id
               /\ j \in DOMAIN Stores(s) /\ ROB[s].sq_index[j] = q
               /\ SQ[q].address = Stores(s)[j]
  /\ \A s \in Slots : \A j \in DOMAIN ROB[s].sq_index :
       ROB[s].sq_index[j] # NONE =>
         /\ SQ[ROB[s].sq_index[j]].id = ROB[s].id
         /\ SQ[ROB[s].sq_index[j]].data_index = j

\* What num_mem_ops counts: loads without an entry, entries of LQ, and stores
\* that have not executed.
LoadsOf(s)  == {l \in LQSlots : LQ[l].rob_index = s}
StoresOf(s) ==
  {j \in DOMAIN Stores(s) : \/ ROB[s].sq_index[j] = NONE
                            \/ SQ[ROB[s].sq_index[j]].fetched # "COMPLETED"}

\* num_mem_ops is exact, and an instruction executes when all its operands
\* have had their entries.
Counted(s) ==
  /\ ~Occupied(s) => ROB[s].num_mem_ops = 0
  /\ Occupied(s) =>
       /\ ROB[s].num_mem_ops = Cardinality(LoadsLeft(s))
            + Cardinality(LoadsOf(s)) + Cardinality(StoresOf(s))
       /\ is_memory(s) /\ ROB[s].executed # "no" =>
            LoadsLeft(s) = {} /\ StoresLeft(s) = {}
       /\ is_memory(s) /\ ROB[s].executed = "COMPLETED" =>
            ROB[s].num_mem_ops = 0

MemoryCounted == \A s \in Slots : Counted(s)

\* The part of ReadyQueuesExact that is about RTL0 and RTS0; what is sent to
\* L1D was ready.
LSQReady ==
  /\ Once(RTL0) /\ Once(RTS0)
  /\ Elements(RTL0) = {l \in LQSlots : /\ LQ[l].id # NONE
                                       /\ LQ[l].producer = NONE
                                       /\ LQ[l].fetched = "no"}
  /\ Elements(RTS0) = {q \in SQSlots : /\ SQ[q].id # NONE
                                       /\ SQ[q].fetched = "no"}
  /\ \A l \in l1d : /\ LQ[l].id # NONE /\ LQ[l].producer = NONE
                    /\ LQ[l].fetched = "INFLIGHT"

\* The store queue is a ring, in program order.
Live == {q \in SQSlots : SQ[q].id # NONE}
at(k) == (SQ_head + k) % SQ_SIZE
Precedes(p, q) == \/ SQ[p].id < SQ[q].id
                  \/ /\ SQ[p].id = SQ[q].id
                     /\ SQ[p].data_index < SQ[q].data_index
RingOf(c) ==
  /\ Live = {at(k) : k \in 0 .. c - 1}
  /\ \A j, k \in 0 .. c - 1 : j < k => Precedes(at(j), at(k))

\* Where queue q holds n.
Where(q, n) == {i \in DOMAIN q : q[i] = n}

\* The stores of instruction n that have not entered SQ.
Owed(n) == IF n < Dispatched THEN StoresLeft(slot(n))
           ELSE DOMAIN trace[n].destination_memory

\* STA names the stores that have not entered SQ, in program order; all
\* stores in SQ come before them, and those of an instruction enter in order.
StoresToCome ==
  /\ \A i, j \in DOMAIN STA : i < j => STA[i] <= STA[j]
  /\ \A i \in DOMAIN STA : STA[i] < instr_unique_id
  /\ \A n \in num_retired .. instr_unique_id - 1 :
       Cardinality(Where(STA, n)) = Cardinality(Owed(n))
  /\ \A q \in Live : \A i \in DOMAIN STA : SQ[q].id <= STA[i]
  /\ \A s \in Slots : Occupied(s) =>
       \A j \in StoresLeft(s) : \A k \in DOMAIN Stores(s) :
         j < k => k \in StoresLeft(s)

\* SQ is such a ring, of some length.
SQRing == \E c \in 0 .. SQ_SIZE : RingOf(c)

\* The last instruction before n that writes address a, if any.
StoreBefore(n, a) ==
  LET before == {m \in 0 .. n - 1 : Writes(trace[m], a)}
  IN {m \in before : \A k \in before : k <= m}

\* What a load gets, or is to wait for: memory holds what the instructions
\* that have retired stored last and L1D has taken, and a load of LQ either
\* waits for the store it depends on, or every such store has retired.
DataInv ==
  /\ \A a \in Addresses : Sees(num_retired, a, memory[a])
  /\ \A l \in LQSlots : LQ[l].id # NONE =>
       IF LQ[l].producer = NONE
       THEN \A m \in num_retired .. LQ[l].id - 1 : ~Writes(trace[m], LQ[l].address)
       ELSE LQ[l].producer \in StoreBefore(LQ[l].id, LQ[l].address)
  /\ \A d \in loaded :
       /\ d \in [id : Nat, address : Addresses, from : Ids]
       /\ Sees(d.id, d.address, d.from)

\* The invariant of memory instructions.
MemInv == /\ LQLinked /\ SQLinked /\ MemoryCounted /\ LSQReady
          /\ SQRing /\ StoresToCome /\ DataInv

-----------------------------------------------------------------------------
(* The initial states *)

\* The invariant of OutOfOrderCoreProofs holds initially,
LEMMA CoreInitially ==
  ASSUME Init
  PROVE  CoreInv
<1>1. /\ trace \in Programs /\ instr_unique_id = 0 /\ num_retired = 0
      /\ IFETCH_BUFFER = <<>> /\ DECODE_BUFFER = <<>>
      /\ ROB = [s \in Slots |-> NoEntry] /\ fetch_stall = FALSE /\ resume = FALSE
      /\ RTE0 = <<>> /\ RTE1 = <<>> /\ LQ = [l \in LQSlots |-> NoLSQEntry]
      /\ SQ = [q \in SQSlots |-> NoLSQEntry] /\ SQ_head = 0 /\ STA = <<>>
      /\ RTL0 = <<>> /\ RTS0 = <<>> /\ l1i = {} /\ l1d = {} /\ wq = {}
      /\ memory = [a \in Addresses |-> NONE]
  BY DEF Init
<1>2. \A T : <<>> \in Seq(T) /\ Len(<<>>) = 0 /\ DOMAIN <<>> = {}
  OBVIOUS
<1>3. /\ NoEntry.id = NONE /\ NoEntry.resumes = "never" /\ NoEntry.scheduled = "no"
      /\ NoEntry.executed = "no" /\ ~NoEntry.reg_ready
      /\ NoEntry.num_reg_dependent = 0 /\ NoEntry.reg_dependents = {}
      /\ NoEntry.lq_index = <<>> /\ NoEntry.sq_index = <<>>
      /\ NoEntry \in LooseEntries
  BY <1>2 DEF NoEntry, LooseEntries, Ids, Resumes, Status, NONE
<1>4. NoLSQEntry \in LSQEntries
  BY DEF NoLSQEntry, LSQEntries, Ids, Status
<1>5. FrontTypes /\ RobTypes
  BY <1>1, <1>2, <1>3 DEF FrontTypes, RobTypes
<1>6. MemoryTypes
  <2>1. 0 \in SQSlots
    BY CoreAssumption DEF SQSlots
  <2> QED BY <2>1, <1>1, <1>2, <1>4 DEF MemoryTypes, Ids
<1>7. Dispatched = 0
  <2>1. Len(IFETCH_BUFFER) = 0 /\ Len(DECODE_BUFFER) = 0
    BY <1>1
  <2> QED BY <2>1, <1>1 DEF Dispatched
<1>8. BuffersInOrder
  <2>1. 0 .. instr_unique_id - 1 = {}
    BY <1>1
  <2> QED BY <2>1, <1>1, <1>2, <1>7 DEF BuffersInOrder
<1>9. \A s \in Slots : ROB[s] = NoEntry /\ ~Occupied(s)
  BY <1>1, <1>3 DEF Occupied
<1>10. Ring
  <2>1. num_retired .. Dispatched - 1 = {}
    BY <1>1, <1>7
  <2> QED BY <2>1, <1>3, <1>9 DEF Ring
<1>11. RegistersInv
  <2>1. DependentsYounger
    BY <1>3, <1>9 DEF DependentsYounger
  <2>2. DependencesCounted
    BY <1>2, <1>3, <1>9 DEF DependencesCounted, Idle, NotStarted
  <2>3. RTEExact
    <3>1. RTE0 \o RTE1 = <<>>
      BY <1>1
    <3> QED BY <3>1, <1>2, <1>9 DEF RTEExact, Once, Elements
  <2> QED BY <2>1, <2>2, <2>3 DEF RegistersInv
<1>12. OneStallingBranch
  <2>1. /\ Stalling(IFETCH_BUFFER) = {} /\ Stalling(DECODE_BUFFER) = {}
        /\ StallingInROB = {}
    BY <1>1, <1>2, <1>3, <1>9 DEF Stalling, StallingInROB
  <2>2. Unresolved = {}
    BY <2>1, UnresolvedParts
  <2> QED BY <2>2, <1>1 DEF OneStallingBranch
<1> QED BY <1>5, <1>6, <1>8, <1>10, <1>11, <1>12 DEF CoreInv

\* and so does that of this module.
LEMMA MemoryInitially ==
  ASSUME Init
  PROVE  MemInv
<1>1. /\ instr_unique_id = 0 /\ num_retired = 0
      /\ ROB = [s \in Slots |-> NoEntry]
      /\ LQ = [l \in LQSlots |-> NoLSQEntry]
      /\ SQ = [q \in SQSlots |-> NoLSQEntry] /\ SQ_head = 0 /\ STA = <<>>
      /\ RTL0 = <<>> /\ RTS0 = <<>> /\ l1d = {} /\ loaded = {}
      /\ memory = [a \in Addresses |-> NONE]
  BY DEF Init
<1>2. DOMAIN <<>> = {}
  OBVIOUS
<1>3. /\ \A s \in Slots : ROB[s] = NoEntry /\ ~Occupied(s)
      /\ \A l \in LQSlots : LQ[l] = NoLSQEntry /\ LQ[l].id = NONE
      /\ \A q \in SQSlots : SQ[q] = NoLSQEntry /\ SQ[q].id = NONE
      /\ NoEntry.num_mem_ops = 0 /\ NoEntry.sq_index = <<>>
  BY <1>1 DEF NoEntry, NoLSQEntry, Occupied
<1>4. LQLinked /\ SQLinked /\ MemoryCounted
  BY <1>2, <1>3 DEF LQLinked, SQLinked, MemoryCounted, Counted
<1>5. LSQReady
  BY <1>1, <1>2, <1>3 DEF LSQReady, Once, Elements
<1>6. SQRing
  <2>1. 0 .. 0 - 1 = {} /\ 0 \in 0 .. SQ_SIZE
    BY CoreAssumption
  <2>2. RingOf(0)
    BY <2>1, <1>3 DEF RingOf, Live
  <2> QED BY <2>1, <2>2 DEF SQRing
<1>7. StoresToCome
  <2>1. num_retired .. instr_unique_id - 1 = {}
    BY <1>1
  <2> QED BY <2>1, <1>1, <1>2, <1>3 DEF StoresToCome, Live
<1>8. DataInv
  <2>1. \A a : Sees(num_retired, a, NONE)
    <3>1. 0 .. 0 - 1 = {}
      OBVIOUS
    <3> QED BY <3>1, <1>1 DEF Sees
  <2> QED BY <2>1, <1>1, <1>3 DEF DataInv
<1> QED BY <1>4, <1>5, <1>6, <1>7, <1>8 DEF MemInv

-----------------------------------------------------------------------------
(* What memory instructions leave alone *)

\* A step that concerns memory operands only preserves the invariant of
\* OutOfOrderCoreProofs: it may give an instruction that is ready its entries
\* and start it.
LEMMA MemoryStepKeeps ==
  ASSUME CoreInv, RobTypes', MemoryTypes',
         UNCHANGED <<frontend, DECODE_BUFFER, resume, RTE0, RTE1, num_retired>>,
         \A s \in Slots :
           /\ ROB'[s].id = ROB[s].id /\ ROB'[s].resumes = ROB[s].resumes
           /\ ROB'[s].reg_ready = ROB[s].reg_ready
           /\ ROB'[s].num_reg_dependent = ROB[s].num_reg_dependent
           /\ ROB'[s].reg_dependents = ROB[s].reg_dependents
           /\ DOMAIN ROB'[s].lq_index = DOMAIN ROB[s].lq_index
           /\ DOMAIN ROB'[s].sq_index = DOMAIN ROB[s].sq_index
           /\ (ROB'[s].executed = "COMPLETED") <=> (ROB[s].executed = "COMPLETED")
           /\ (ROB'[s].scheduled = "no") <=> (ROB[s].scheduled = "no")
           /\ ROB'[s].executed = ROB[s].executed \/ is_memory(s)
           /\ ~ROB[s].reg_ready => /\ ROB'[s].executed = ROB[s].executed
                                   /\ ROB'[s].lq_index = ROB[s].lq_index
                                   /\ ROB'[s].sq_index = ROB[s].sq_index
                                   /\ ROB'[s].scheduled = ROB[s].scheduled
  PROVE  CoreInv'
<1>0. /\ FrontTypes /\ RobTypes /\ MemoryTypes /\ BuffersInOrder /\ Ring
      /\ RegistersInv /\ OneStallingBranch /\ RTEExact
  BY DEF CoreInv, RegistersInv
<1>1. UNCHANGED <<trace, RTE0, RTE1, num_retired>>
  BY DEF frontend
<1>2. FrontTypes' /\ BuffersInOrder' /\ Dispatched' = Dispatched
  <2>1. resume' \in BOOLEAN /\ UNCHANGED <<frontend, DECODE_BUFFER, num_retired>>
    BY <1>0 DEF FrontTypes
  <2> QED BY <2>1, <1>0, FrontKept
<1>3. RTEExact'
  BY <1>0, <1>1, RTEKept
<1>4. RegistersInv'
  BY <1>0, <1>1, <1>3, RegistersProceed
<1>5. \A s \in Slots : ~Occupied(s) => ~ROB[s].reg_ready
  BY <1>0, EmptyFacts
<1>6. Ring'
  BY <1>0, <1>1, <1>2, <1>5, RingProceeds
<1>7. OneStallingBranch'
  BY <1>0, StallKept
<1> QED BY <1>2, <1>4, <1>6, <1>7 DEF CoreInv

\* A step that may release loads and count operands, and otherwise leaves ROB
\* alone.
LEMMA CountingKeeps ==
  ASSUME CoreInv, MemoryTypes', NEW n, \A s \in Slots : n[s] \in Int,
         ROB' = [s \in Slots |-> [ROB[s] EXCEPT !.num_mem_ops = n[s]]],
         UNCHANGED <<frontend, DECODE_BUFFER, resume, RTE0, RTE1, num_retired>>
  PROVE  CoreInv'
<1>0. RobTypes /\ RTE0 \in Seq(Slots) /\ RTE1 \in Seq(Slots)
  BY DEF CoreInv, RobTypes
<1>1. ASSUME NEW s \in Slots
      PROVE  /\ ROB'[s] \in LooseEntries
             /\ ROB'[s].id = ROB[s].id /\ ROB'[s].resumes = ROB[s].resumes
             /\ ROB'[s].scheduled = ROB[s].scheduled
             /\ ROB'[s].executed = ROB[s].executed
             /\ ROB'[s].reg_ready = ROB[s].reg_ready
             /\ ROB'[s].num_reg_dependent = ROB[s].num_reg_dependent
             /\ ROB'[s].reg_dependents = ROB[s].reg_dependents
             /\ ROB'[s].lq_index = ROB[s].lq_index
             /\ ROB'[s].sq_index = ROB[s].sq_index
  <2>1. ROB'[s] = [ROB[s] EXCEPT !.num_mem_ops = n[s]]
    OBVIOUS
  <2>2. ROB[s] \in LooseEntries /\ n[s] \in Int
    BY <1>0 DEF RobTypes
  <2> QED BY <2>1, <2>2 DEF LooseEntries
<1>2. RobTypes'
  BY <1>0, <1>1 DEF RobTypes
<1> QED BY <1>1, <1>2, MemoryStepKeeps

\* handle_writeback preserves the invariant of OutOfOrderCoreProofs.
LEMMA WritebackKeeps ==
  ASSUME CoreInv, handle_writeback
  PROVE  CoreInv'
<1>1. /\ wq' \subseteq wq
      /\ UNCHANGED <<trace, instr_unique_id, IFETCH_BUFFER, fetch_stall, l1i,
                     DECODE_BUFFER, resume, ROB, RTE0, RTE1, LQ, SQ, SQ_head, STA,
                     RTL0, RTS0, l1d, loaded, num_retired, memory, lost>>
  BY DEF handle_writeback, frontend, lsq
<1>2. RobTypes' /\ MemoryTypes'
  BY <1>1 DEF CoreInv, RobTypes, MemoryTypes
<1>3. UNCHANGED <<frontend, DECODE_BUFFER, resume, RTE0, RTE1, num_retired>>
  BY <1>1 DEF frontend
<1> QED BY <1>1, <1>2, <1>3, MemoryStepKeeps

\* execute_load preserves the invariant of OutOfOrderCoreProofs.
LEMMA LoadKeeps ==
  ASSUME CoreInv, execute_load
  PROVE  CoreInv'
<1> DEFINE l == Head(RTL0)
<1>0. MemoryTypes /\ RobTypes
  BY DEF CoreInv
<1>1. /\ RTL0 # <<>> /\ LQ' = [LQ EXCEPT ![l].fetched = "INFLIGHT"]
      /\ l1d' = l1d \cup {l} /\ RTL0' = Tail(RTL0)
      /\ UNCHANGED <<frontend, DECODE_BUFFER, resume, ROB, RTE0, RTE1, SQ,
                     SQ_head, STA, RTS0, loaded, num_retired, wq, memory, lost>>
  BY DEF execute_load, retired
<1>2. l \in LQSlots /\ RTL0' \in Seq(LQSlots)
  BY <1>0, <1>1, OnceHead DEF MemoryTypes
<1> HIDE DEF l
<1>3. LQ' \in [LQSlots -> LSQEntries]
  <2>1. LQ \in [LQSlots -> LSQEntries]
    BY <1>0 DEF MemoryTypes
  <2>2. [LQ[l] EXCEPT !.fetched = "INFLIGHT"] \in LSQEntries
    BY <2>1, <1>2 DEF LSQEntries, Status
  <2> QED BY <2>1, <2>2, <1>1, <1>2
<1>4. RobTypes' /\ MemoryTypes'
  BY <1>0, <1>1, <1>2, <1>3 DEF RobTypes, MemoryTypes
<1> QED BY <1>1, <1>4, MemoryStepKeeps

\* The loads of a set of LQ that are operands of an instruction.
LEMMA OperandsFinite ==
  ASSUME NEW ls \in SUBSET LQSlots, NEW s
  PROVE  /\ IsFiniteSet({l \in ls : LQ[l].rob_index = s})
         /\ Operands(ls, s) \in Nat
BY Finite, FS_Subset, FS_CardinalityType DEF Operands

\* Releasing loads leaves the type of LQ.
LEMMA ReleasedType ==
  ASSUME MemoryTypes, NEW ls
  PROVE  Released(ls) \in [LQSlots -> LSQEntries]
<1>1. NoLSQEntry \in LSQEntries
  BY DEF NoLSQEntry, LSQEntries, Ids, Status
<1> QED BY <1>1 DEF MemoryTypes, Released

\* complete_data_fetch preserves the invariant of OutOfOrderCoreProofs.
LEMMA DataFetchKeeps ==
  ASSUME CoreInv, complete_data_fetch
  PROVE  CoreInv'
<1>0. MemoryTypes /\ RobTypes
  BY DEF CoreInv
<1>1. PICK ls \in SUBSET l1d :
         /\ ROB' = [s \in Slots |->
                      [ROB[s] EXCEPT !.num_mem_ops = @ - Operands(ls, s)]]
         /\ LQ' = Released(ls) /\ l1d' = l1d \ ls
  BY DEF complete_data_fetch
<1>2. UNCHANGED <<frontend, DECODE_BUFFER, resume, RTE0, RTE1, SQ, SQ_head, STA,
                  RTL0, RTS0, num_retired, wq, memory, lost>>
  BY DEF complete_data_fetch, retired
<1>3. ls \in SUBSET LQSlots
  BY <1>0 DEF MemoryTypes
<1>4. MemoryTypes'
  <2>1. LQ' \in [LQSlots -> LSQEntries]
    BY <1>0, <1>1, ReleasedType
  <2> QED BY <2>1, <1>0, <1>1, <1>2 DEF MemoryTypes
<1> DEFINE n == [s \in Slots |-> ROB[s].num_mem_ops - Operands(ls, s)]
<1>5. ASSUME NEW s \in Slots PROVE n[s] \in Int
  <2>1. ROB[s].num_mem_ops \in Int
    BY <1>0, EntryFields
  <2>2. Operands(ls, s) \in Nat
    BY <1>3, OperandsFinite
  <2> QED BY <2>1, <2>2
<1>6. ROB' = [s \in Slots |-> [ROB[s] EXCEPT !.num_mem_ops = n[s]]]
  BY <1>1
<1> HIDE DEF n
<1> QED BY <1>2, <1>4, <1>5, <1>6, CountingKeeps

\* The store that execute_store takes is in SQ and has not executed, and the
\* loads that it wakes are in LQ and wait for it.
LEMMA StoreFacts ==
  ASSUME CoreInv, LQLinked, SQLinked, LSQReady, RTS0 # <<>>,
         NEW q, q = Head(RTS0),
         NEW ls, ls = Dependents(q), \A l \in ls : ProducerOf(q, l)
  PROVE  /\ q \in SQSlots /\ q \in Elements(RTS0) /\ Tail(RTS0) \in Seq(SQSlots)
         /\ SQ[q].id # NONE /\ SQ[q].fetched = "no" /\ SQ[q].id \in Nat
         /\ SQ[q].rob_index \in Slots /\ ROB[SQ[q].rob_index].id = SQ[q].id
         /\ ls \in SUBSET LQSlots
         /\ \A l \in ls : LQ[l].producer = SQ[q].id /\ LQ[l].id # NONE
<1>0. MemoryTypes /\ RobTypes
  BY DEF CoreInv
<1>1. q \in SQSlots /\ q \in Elements(RTS0) /\ Tail(RTS0) \in Seq(SQSlots)
  BY <1>0, OnceHead DEF MemoryTypes
<1>2. SQ[q].id # NONE /\ SQ[q].fetched = "no"
  BY <1>1 DEF LSQReady
<1>3. SQ[q].rob_index \in Slots /\ ROB[SQ[q].rob_index].id = SQ[q].id
  BY <1>1, <1>2 DEF SQLinked
<1>4. SQ[q].id \in Nat
  BY <1>0, <1>1, <1>2 DEF MemoryTypes, LSQEntries, Ids
<1>5. ls \in SUBSET LQSlots
  <2> SUFFICES ASSUME NEW l \in AllDependents(q) PROVE l \in LQSlots
    BY DEF Dependents
  <2>1. PICK d \in ROB[SQ[q].rob_index].mem_dependents :
          l \in Elements(ROB[d].lq_index) \ {NONE}
    BY DEF AllDependents
  <2>2. d \in Slots
    BY <2>1, <1>0, <1>3, EntryFields
  <2>3. ROB[d].lq_index \in Seq(LQSlots \cup {NONE})
    BY <2>2, <1>0, EntryFields
  <2>4. PICK i \in DOMAIN ROB[d].lq_index : l = ROB[d].lq_index[i]
    BY <2>1 DEF Elements
  <2>5. l \in LQSlots \cup {NONE}
    BY <2>3, <2>4, LenProperties, ElementOfSeq
  <2> QED BY <2>1, <2>5
<1>6. \A l \in ls : LQ[l].producer = SQ[q].id
  BY DEF ProducerOf
<1>7. ASSUME NEW l \in ls PROVE LQ[l].id # NONE
  <2>1. NoLSQEntry.producer = NONE
    BY DEF NoLSQEntry
  <2> QED BY <2>1, <1>2, <1>5, <1>6 DEF LQLinked
<1> QED BY <1>1, <1>2, <1>3, <1>4, <1>5, <1>6, <1>7

\* execute_store preserves the invariant of OutOfOrderCoreProofs.
LEMMA StoreKeeps ==
  ASSUME CoreInv, LQLinked, SQLinked, LSQReady, execute_store
  PROVE  CoreInv'
<1> DEFINE q == Head(RTS0)
           ls == Dependents(q)
           n == [s \in Slots |-> ROB[s].num_mem_ops - Operands(ls, s)
                                  - (IF s = SQ[q].rob_index THEN 1 ELSE 0)]
<1>0. MemoryTypes /\ RobTypes
  BY DEF CoreInv
<1>1. /\ RTS0 # <<>> /\ \A l \in ls : ProducerOf(q, l)
      /\ SQ' = [SQ EXCEPT ![q].fetched = "COMPLETED"]
      /\ LQ' = Released(ls) /\ RTS0' = Tail(RTS0)
      /\ ROB' = [s \in Slots |-> [ROB[s] EXCEPT !.num_mem_ops = n[s]]]
      /\ UNCHANGED <<frontend, DECODE_BUFFER, resume, RTE0, RTE1, SQ_head, STA,
                     RTL0, l1d, num_retired, wq, memory, lost>>
  BY DEF execute_store, retired
<1> HIDE DEF q, ls
<1>2. q \in SQSlots /\ Tail(RTS0) \in Seq(SQSlots) /\ ls \in SUBSET LQSlots
  BY <1>1, StoreFacts DEF q, ls
<1>3. MemoryTypes'
  <2>1. LQ' \in [LQSlots -> LSQEntries]
    BY <1>0, <1>1, ReleasedType
  <2>2. SQ' \in [SQSlots -> LSQEntries]
    <3>1. SQ \in [SQSlots -> LSQEntries]
      BY <1>0 DEF MemoryTypes
    <3>2. [SQ[q] EXCEPT !.fetched = "COMPLETED"] \in LSQEntries
      BY <3>1, <1>2 DEF LSQEntries, Status
    <3> QED BY <3>1, <3>2, <1>1, <1>2
  <2> QED BY <2>1, <2>2, <1>0, <1>1, <1>2 DEF MemoryTypes
<1>4. ASSUME NEW s \in Slots PROVE n[s] \in Int
  <2>1. ROB[s].num_mem_ops \in Int
    BY <1>0, EntryFields
  <2>2. Operands(ls, s) \in Nat
    BY <1>2, OperandsFinite
  <2> QED BY <2>1, <2>2
<1> HIDE DEF n
<1> QED BY <1>1, <1>3, <1>4, CountingKeeps

-----------------------------------------------------------------------------
(* Places in LQ and SQ *)

\* Counting from SQ_head, each slot of SQ comes once.
LEMMA Places ==
  ASSUME SQ_head \in SQSlots
  PROVE  /\ SQ_SIZE \in Nat \ {0}
         /\ \A k \in 0 .. SQ_SIZE - 1 : at(k) \in SQSlots
         /\ \A j, k \in 0 .. SQ_SIZE - 1 : at(j) = at(k) => j = k
<1>1. SQ_SIZE \in Nat \ {0} /\ SQ_head \in 0 .. SQ_SIZE - 1
  BY CoreAssumption DEF SQSlots
<1>2. ASSUME NEW k \in 0 .. SQ_SIZE - 1
      PROVE  at(k) = IF SQ_head + k < SQ_SIZE THEN SQ_head + k
                     ELSE SQ_head + k - SQ_SIZE
  <2> DEFINE S == SQ_SIZE
             x == SQ_head + k
  <2>1. x \in 0 .. S - 1 \/ x \in S .. S + S - 1
    BY <1>1
  <2>2. S \in Nat \ {0} /\ at(k) = x % S /\ x \in Nat
    BY <1>1 DEF at
  <2> HIDE DEF S, x
  <2>3. CASE x \in 0 .. S - 1
    BY <2>2, <2>3 DEF S, x
  <2>4. CASE x \in S .. S + S - 1
    <3>1. x % S = x - S /\ ~(x < S)
      BY <2>2, <2>4
    <3>2. x - S = SQ_head + k - SQ_SIZE
      BY <1>1 DEF S, x
    <3> QED BY <3>1, <3>2, <2>2 DEF S, x
  <2> QED BY <2>1, <2>3, <2>4
<1>3. \A k \in 0 .. SQ_SIZE - 1 : at(k) \in SQSlots
  BY <1>1, <1>2 DEF SQSlots
<1>4. ASSUME NEW j \in 0 .. SQ_SIZE - 1, NEW k \in 0 .. SQ_SIZE - 1, at(j) = at(k)
      PROVE  j = k
  BY <1>1, <1>2, <1>4
<1> QED BY <1>1, <1>3, <1>4

\* Slots of LQ and of SQ that are free are finitely many; those of SQ are what
\* the ring leaves.
LEMMA FreeFacts ==
  ASSUME SQ_head \in SQSlots
  PROVE  /\ IsFiniteSet(FreeLQ) /\ FreeLQ \in SUBSET Int
         /\ Cardinality(FreeLQ) \in Nat
         /\ IsFiniteSet(Live)
         /\ \A c \in 0 .. SQ_SIZE : RingOf(c) =>
              Cardinality(Live) = c /\ Cardinality(FreeSQ) = SQ_SIZE - c
<1>1. SQ_SIZE \in Nat \ {0} /\ LQ_SIZE \in Nat \ {0}
  BY CoreAssumption
<1>2. FreeLQ \in SUBSET LQSlots /\ LQSlots \in SUBSET Int /\ Live \in SUBSET SQSlots
  BY <1>1 DEF FreeLQ, LQSlots, Live
<1>3. /\ IsFiniteSet(FreeLQ) /\ Cardinality(FreeLQ) \in Nat /\ IsFiniteSet(Live)
  BY <1>2, Finite, FS_Subset, FS_CardinalityType
<1>4. Cardinality(SQSlots) = SQ_SIZE
  <2>1. 0 \in Int /\ SQ_SIZE - 1 \in Int
    BY <1>1
  <2>2. Cardinality(0 .. SQ_SIZE - 1) = IF 0 > SQ_SIZE - 1 THEN 0
                                        ELSE (SQ_SIZE - 1) - 0 + 1
    BY <2>1, FS_Interval, Zenon
  <2> QED BY <2>2, <1>1 DEF SQSlots
<1>5. ASSUME NEW c \in 0 .. SQ_SIZE, RingOf(c)
      PROVE  Cardinality(Live) = c /\ Cardinality(FreeSQ) = SQ_SIZE - c
  <2> DEFINE K == 0 .. c - 1
             g == [k \in K |-> at(k)]
  <2>1. \A k \in K : k \in 0 .. SQ_SIZE - 1
    BY <1>1
  <2>2. Live = {at(k) : k \in K} /\ \A j, k \in K : at(j) = at(k) => j = k
    BY <2>1, <1>5, Places DEF RingOf
  <2>3. IsFiniteSet(K) /\ Cardinality(K) = c
    <3>1. 0 \in Int /\ c - 1 \in Int /\ c \in Nat
      BY <1>1
    <3>2. IsFiniteSet(K) /\ Cardinality(K) = IF 0 > c - 1 THEN 0
                                             ELSE (c - 1) - 0 + 1
      BY <3>1, FS_Interval, Zenon
    <3> QED BY <3>1, <3>2
  <2> HIDE DEF K
  <2>4. g \in Bijection(K, Live)
    BY <2>2 DEF Bijection, Injection, Surjection, IsInjective
  <2>5. ExistsBijection(K, Live)
    BY <2>4 DEF ExistsBijection
  <2>6. Cardinality(Live) = c
    BY <2>3, <2>5, FS_Bijection
  <2>7. FreeSQ = SQSlots \ Live /\ SQSlots \cap Live = Live
    BY DEF FreeSQ, Live
  <2>8. Cardinality(SQSlots \ Live) =
          Cardinality(SQSlots) - Cardinality(SQSlots \cap Live)
    BY Finite, FS_Difference
  <2> QED BY <2>6, <2>7, <2>8, <1>4
<1> QED BY <1>1, <1>2, <1>3, <1>5

\* The operands of an instruction in ROB.
LEMMA OperandFacts ==
  ASSUME CoreInv, NEW s \in Slots, Occupied(s)
  PROVE  /\ Loads(s) \in Seq(Addresses) /\ Stores(s) \in Seq(Addresses)
         /\ DOMAIN Loads(s) = 1 .. Len(Loads(s)) /\ Len(Loads(s)) \in Nat
         /\ DOMAIN Stores(s) = 1 .. Len(Stores(s)) /\ Len(Stores(s)) \in Nat
         /\ DOMAIN ROB[s].lq_index = DOMAIN Loads(s)
         /\ DOMAIN ROB[s].sq_index = DOMAIN Stores(s)
         /\ LoadsLeft(s) \in SUBSET Int /\ IsFiniteSet(LoadsLeft(s))
         /\ StoresLeft(s) \in SUBSET Int /\ IsFiniteSet(StoresLeft(s))
         /\ IsFiniteSet(LoadsOf(s)) /\ IsFiniteSet(StoresOf(s))
         /\ ROB[s].id \in Nat /\ ROB[s].id \in DOMAIN trace
<1>0. /\ FrontTypes /\ RobTypes /\ BuffersInOrder /\ Ring
  BY DEF CoreInv
<1>1. /\ ROB[s].id \in Nat /\ ROB[s].id \in DOMAIN trace
      /\ DOMAIN ROB[s].lq_index = DOMAIN Loads(s)
      /\ DOMAIN ROB[s].sq_index = DOMAIN Stores(s)
  BY <1>0, OccupiedFacts
<1>2. Loads(s) \in Seq(Addresses) /\ Stores(s) \in Seq(Addresses)
  BY <1>0, <1>1, TraceFacts DEF Loads, Stores, Instr
<1>3. /\ DOMAIN Loads(s) = 1 .. Len(Loads(s)) /\ Len(Loads(s)) \in Nat
      /\ DOMAIN Stores(s) = 1 .. Len(Stores(s)) /\ Len(Stores(s)) \in Nat
  BY <1>2, LenProperties
<1>4. /\ DOMAIN Loads(s) \in SUBSET Int /\ IsFiniteSet(DOMAIN Loads(s))
      /\ DOMAIN Stores(s) \in SUBSET Int /\ IsFiniteSet(DOMAIN Stores(s))
  <2>1. /\ IsFiniteSet(1 .. Len(Loads(s))) /\ IsFiniteSet(1 .. Len(Stores(s)))
    BY <1>3, FS_Interval
  <2> QED BY <2>1, <1>3
<1>5. /\ LoadsLeft(s) \subseteq DOMAIN Loads(s)
      /\ StoresLeft(s) \subseteq DOMAIN Stores(s)
      /\ StoresOf(s) \subseteq DOMAIN Stores(s) /\ LoadsOf(s) \subseteq LQSlots
  BY DEF LoadsLeft, StoresLeft, StoresOf, LoadsOf
<1>6. /\ IsFiniteSet(LoadsLeft(s)) /\ IsFiniteSet(StoresLeft(s))
      /\ IsFiniteSet(StoresOf(s)) /\ IsFiniteSet(LoadsOf(s))
  BY <1>4, <1>5, Finite, FS_Subset
<1> QED BY <1>1, <1>2, <1>3, <1>4, <1>5, <1>6

\* The loads that enter LQ get slots that are free, each its own.
LEMMA LoadPlaces ==
  ASSUME CoreInv, NEW s \in Slots, Occupied(s)
  PROVE  /\ LoadsAdded(s) \subseteq LoadsLeft(s)
         /\ \A j \in LoadsAdded(s) : lq_index(s, j) \in FreeLQ
         /\ \A j \in LoadsAdded(s) \cap Staying(s) :
              /\ LoadAt(s, lq_index(s, j)) = {j} /\ Least({j}) = j
              /\ \A k \in LoadsAdded(s) \cap Staying(s) :
                   lq_index(s, j) = lq_index(s, k) => j = k
         /\ \A l \in LQSlots : LoadAt(s, l) # {} =>
              \E j \in LoadsAdded(s) \cap Staying(s) : l = lq_index(s, j)
<1> DEFINE St == Staying(s)
           F == FreeLQ
<1>0. SQ_head \in SQSlots
  BY DEF CoreInv, MemoryTypes
<1>1. /\ IsFiniteSet(F) /\ F \in SUBSET Int /\ Cardinality(F) \in Nat
  BY <1>0, FreeFacts
<1>2. /\ St \in SUBSET Int /\ IsFiniteSet(St) /\ LoadsLeft(s) \in SUBSET Int
  <2>1. LoadsLeft(s) \in SUBSET Int /\ IsFiniteSet(LoadsLeft(s))
    BY OperandFacts
  <2>2. St \subseteq LoadsLeft(s)
    BY DEF Staying
  <2> QED BY <2>1, <2>2, FS_Subset
<1>3. \A j : Before(St, j) \in Nat
  <2> TAKE j
  <2>1. IsFiniteSet({k \in St : k < j})
    BY <1>2, FS_Subset
  <2> QED BY <2>1, FS_CardinalityType DEF Before
<1>4. LoadsAdded(s) \subseteq LoadsLeft(s)
  BY DEF LoadsAdded
<1>5. \A j \in LoadsAdded(s) : Before(St, j) < Cardinality(F)
  BY DEF LoadsAdded
<1> HIDE DEF St, F
<1>6. ASSUME NEW j \in LoadsAdded(s)
      PROVE  /\ lq_index(s, j) \in F
             /\ Before(F, lq_index(s, j)) = Before(St, j)
  <2>1. Before(St, j) \in 0 .. Cardinality(F) - 1
    BY <1>1, <1>3, <1>5
  <2>2. \E l \in F : Before(F, l) = Before(St, j)
    BY <2>1, <1>1, BeforeRanks
  <2>3. lq_index(s, j) = CHOOSE l \in F : Before(F, l) = Before(St, j)
    BY DEF lq_index, F, St
  <2> QED BY <2>2, <2>3
<1>7. ASSUME NEW j \in LoadsAdded(s) \cap St, NEW k \in LoadsAdded(s) \cap St,
             lq_index(s, j) = lq_index(s, k)
      PROVE  j = k
  <2>1. Before(St, j) = Before(St, k)
    BY <1>6, <1>7
  <2>2. \A a, b \in St : Before(St, a) = Before(St, b) => a = b
    BY <1>2, BeforeRanks
  <2> QED BY <2>1, <2>2
<1>8. ASSUME NEW j \in LoadsAdded(s) \cap St
      PROVE  LoadAt(s, lq_index(s, j)) = {j} /\ Least({j}) = j
  <2>1. LoadAt(s, lq_index(s, j)) = {j}
    BY <1>7 DEF LoadAt, St
  <2>2. j \in Int
    BY <1>2
  <2>3. \A x \in {j} : \A y \in {j} : x <= y
    BY <2>2
  <2>4. Least({j}) = j
    BY <2>3 DEF Least
  <2> QED BY <2>1, <2>4
<1>9. \A l \in LQSlots : LoadAt(s, l) # {} =>
         \E j \in LoadsAdded(s) \cap St : l = lq_index(s, j)
  BY DEF LoadAt, St
<1> QED BY <1>4, <1>6, <1>7, <1>8, <1>9 DEF St, F

\* The stores that enter SQ are the first of those that have not, as many as
\* fit, and they get the slots that follow the ring.
LEMMA StorePlaces ==
  ASSUME CoreInv, NEW s \in Slots, Occupied(s), NEW c \in 0 .. SQ_SIZE, RingOf(c),
         NEW L, L = StoresLeft(s), NEW A, A = StoresAdded(s)
  PROVE  /\ A \subseteq L /\ IsFiniteSet(A) /\ A \in SUBSET Int
         /\ Cardinality(A) \in Nat /\ Cardinality(A) <= Cardinality(L)
         /\ c + Cardinality(A) <= SQ_SIZE
         /\ \A j \in A : /\ Before(L, j) \in 0 .. Cardinality(A) - 1
                         /\ sq_index(s, j) = at(c + Before(L, j))
                         /\ sq_index(s, j) \in FreeSQ
         /\ \A k \in 0 .. Cardinality(A) - 1 : \E j \in A : Before(L, j) = k
         /\ \A j, k \in A : sq_index(s, j) = sq_index(s, k) => j = k
         /\ \A j \in A, k \in L : k < j => k \in A
<1> DEFINE F == SQ_SIZE - c
<1>0. SQ_head \in SQSlots /\ SQ_head \in Int
  BY CoreAssumption DEF CoreInv, MemoryTypes, SQSlots
<1>1. /\ L \in SUBSET Int /\ IsFiniteSet(L) /\ A \subseteq L
  BY OperandFacts DEF StoresAdded
<1>2. /\ SQ_SIZE \in Nat \ {0} /\ F \in Nat /\ c \in Nat
      /\ Cardinality(FreeSQ) = F
  BY <1>0, FreeFacts, CoreAssumption
<1>3. /\ Cardinality(L) \in Nat
      /\ \A j \in L : Before(L, j) \in 0 .. Cardinality(L) - 1
      /\ \A j, k \in L : j < k => Before(L, j) < Before(L, k)
      /\ \A j, k \in L : Before(L, j) = Before(L, k) => j = k
      /\ \A n \in 0 .. Cardinality(L) - 1 : \E j \in L : Before(L, j) = n
  BY <1>1, BeforeRanks
<1>4. /\ IsFiniteSet(A) /\ Cardinality(A) \in Nat
      /\ Cardinality(A) <= Cardinality(L)
  BY <1>1, FS_Subset, FS_CardinalityType
<1>5. CASE ~NextStore(s)
  <2>1. A = {}
    BY <1>5 DEF StoresAdded
  <2>2. Cardinality(A) = 0
    BY <2>1, FS_EmptySet
  <2> QED BY <2>1, <2>2, <1>1, <1>2, <1>3, <1>4
<1>6. CASE NextStore(s)
  <2> DEFINE m == IF Cardinality(L) <= F THEN Cardinality(L) ELSE F
             K == 0 .. m - 1
             g == [j \in A |-> Before(L, j)]
  <2>0. m \in Nat /\ m <= F /\ m <= Cardinality(L)
    BY <1>2, <1>3
  <2>1. A = {j \in L : Before(L, j) < F}
    BY <1>2, <1>6 DEF StoresAdded
  <2>2. \A j \in L : j \in A <=> Before(L, j) \in K
    BY <2>1, <1>2, <1>3
  <2>3. \A k \in K : \E j \in A : Before(L, j) = k
    <3> TAKE k \in K
    <3>1. k \in 0 .. Cardinality(L) - 1
      BY <1>2, <1>3
    <3>2. PICK j \in L : Before(L, j) = k
      BY <3>1, <1>3
    <3> QED BY <3>2, <2>2
  <2>4. IsFiniteSet(K) /\ Cardinality(K) = m
    <3>1. 0 \in Int /\ m - 1 \in Int
      BY <2>0
    <3>2. IsFiniteSet(K) /\ Cardinality(K) = IF 0 > m - 1 THEN 0
                                             ELSE (m - 1) - 0 + 1
      BY <3>1, FS_Interval, Zenon
    <3> HIDE DEF m
    <3> QED BY <3>1, <3>2, <2>0
  <2>5. g \in Bijection(A, K)
    <3> HIDE DEF K
    <3>1. g \in [A -> K]
      BY <2>2, <1>1
    <3>2. \A j, k \in A : g[j] = g[k] => j = k
      BY <1>1, <1>3
    <3>3. \A k \in K : \E j \in A : g[j] = k
      BY <2>3
    <3> QED BY <3>1, <3>2, <3>3 DEF Bijection, Injection, Surjection, IsInjective
  <2>6. ExistsBijection(A, K)
    BY <2>5 DEF ExistsBijection
  <2> HIDE DEF m, K, g
  <2>7. Cardinality(A) = m
    BY <2>4, <2>6, <1>4, FS_Bijection
  <2>8. K = 0 .. Cardinality(A) - 1
    BY <2>7 DEF K
  <2>9. c + Cardinality(A) <= SQ_SIZE
    BY <2>0, <2>7, <1>2
  <2>10. ASSUME NEW j \in A
         PROVE  /\ sq_index(s, j) = at(c + Before(L, j))
                /\ c + Before(L, j) \in 0 .. SQ_SIZE - 1
                /\ c + Before(L, j) \notin 0 .. c - 1
    <3>1. j \in L /\ Before(L, j) \in Nat /\ Before(L, j) < F
      BY <2>1, <1>3
    <3>2. SQ_head + SQ_SIZE - Cardinality(FreeSQ) + Before(L, j)
            = SQ_head + (c + Before(L, j))
      BY <3>1, <1>0, <1>2
    <3> QED BY <3>1, <3>2, <1>2 DEF sq_index, at
  <2>11. /\ \A k \in 0 .. SQ_SIZE - 1 : at(k) \in SQSlots
         /\ \A j, k \in 0 .. SQ_SIZE - 1 : at(j) = at(k) => j = k
    BY <1>0, Places
  <2>12. ASSUME NEW j \in A PROVE sq_index(s, j) \in FreeSQ
    <3>1. at(c + Before(L, j)) \in SQSlots
      BY <2>10, <2>11
    <3>2. at(c + Before(L, j)) \notin Live
      <4>1. \A k \in 0 .. c - 1 : k \in 0 .. SQ_SIZE - 1
        BY <1>2
      <4>2. \A k \in 0 .. c - 1 : at(k) # at(c + Before(L, j))
        BY <4>1, <2>10, <2>11
      <4> QED BY <4>2 DEF RingOf
    <3> QED BY <3>1, <3>2, <2>10 DEF Live, FreeSQ
  <2>13. ASSUME NEW j \in A, NEW k \in A, sq_index(s, j) = sq_index(s, k)
         PROVE  j = k
    <3>1. c + Before(L, j) = c + Before(L, k)
      BY <2>10, <2>11, <2>13
    <3>2. Before(L, j) = Before(L, k)
      BY <3>1, <1>1, <1>2, <1>3
    <3> QED BY <3>2, <1>1, <1>3
  <2>14. ASSUME NEW j \in A, NEW k \in L, k < j PROVE k \in A
    <3>1. Before(L, k) < Before(L, j) /\ Before(L, j) < F
      BY <2>14, <1>1, <1>3, <2>1
    <3>2. Before(L, k) < F
      BY <3>1, <1>1, <1>2, <1>3
    <3> QED BY <3>2, <2>1
  <2> QED BY <2>2, <2>3, <2>8, <2>9, <2>10, <2>12, <2>13, <2>14, <1>1, <1>4
<1> QED BY <1>5, <1>6

\* Producer names the last store before an instruction, unless all stores
\* before it have retired.
LEMMA ProducerIs ==
  ASSUME CoreInv, NEW s \in Slots, Occupied(s), NEW a
  PROVE  /\ Producer(s, a) \in Ids
         /\ Producer(s, a) = NONE =>
              \A m \in num_retired .. ROB[s].id - 1 : ~Writes(trace[m], a)
         /\ Producer(s, a) # NONE => Producer(s, a) \in StoreBefore(ROB[s].id, a)
<1> DEFINE T == Storers(s, a)
           i == ROB[s].id
<1>0. /\ FrontTypes /\ RobTypes /\ BuffersInOrder /\ Ring
  BY DEF CoreInv
<1>1. /\ i \in Nat /\ num_retired \in Nat
      /\ \A n \in num_retired .. i :
              slot(n) \in Slots /\ ROB[slot(n)].id = n /\ Occupied(slot(n))
  BY <1>0, OccupiedFacts DEF FrontTypes
<1>2. T \in SUBSET Slots /\ \A x \in T : Occupied(x)
  BY DEF Storers, Older
<1>3. ASSUME NEW m \in num_retired .. i - 1, Writes(trace[m], a)
      PROVE  slot(m) \in T /\ ROB[slot(m)].id = m
  <2>1. m \in num_retired .. i /\ m < i
    BY <1>1
  <2>2. slot(m) \in Slots /\ ROB[slot(m)].id = m /\ Occupied(slot(m))
    BY <2>1, <1>1
  <2> QED BY <2>1, <2>2, <1>3 DEF Storers, Older, Instr
<1>4. CASE T = {}
  <2>1. Producer(s, a) = NONE
    BY <1>4 DEF Producer
  <2> QED BY <2>1, <1>3, <1>4 DEF Ids
<1>5. CASE T # {}
  <2> DEFINE y == Youngest(T)
             p == ROB[y].id
  <2>1. y \in T /\ \A x \in T : ROB[x].id <= p
    BY <1>0, <1>2, <1>5, YoungestIs
  <2>2. Producer(s, a) = p
    BY <1>5 DEF Producer
  <2>3. y \in Slots /\ Occupied(y) /\ p < i /\ Writes(trace[p], a)
    BY <2>1 DEF Storers, Older, Instr
  <2>4. p \in Nat /\ num_retired <= p /\ p # NONE
    BY <2>3, <1>0, OccupiedFacts DEF NONE
  <2>5. ASSUME NEW k \in 0 .. i - 1, Writes(trace[k], a) PROVE k <= p
    <3>1. CASE k < num_retired
      BY <3>1, <2>4, <1>1
    <3>2. CASE ~(k < num_retired)
      <4>1. k \in num_retired .. i - 1
        BY <3>2, <1>1
      <4>2. slot(k) \in T /\ ROB[slot(k)].id = k
        BY <4>1, <2>5, <1>3
      <4> QED BY <4>2, <2>1
    <3> QED BY <3>1, <3>2
  <2>6. p \in 0 .. i - 1
    BY <2>3, <2>4, <1>1
  <2>7. p \in StoreBefore(i, a)
    BY <2>3, <2>5, <2>6 DEF StoreBefore
  <2> QED BY <2>2, <2>4, <2>7 DEF Ids
<1> QED BY <1>4, <1>5

-----------------------------------------------------------------------------
(* Entering LQ and SQ *)

\* What schedule_memory_instruction does to the instruction in slot s, to the
\* others, and to the queues.
Enters(s) ==
  /\ s \in Slots /\ Occupied(s) /\ is_memory(s) /\ ROB[s].reg_ready
  /\ ROB[s].scheduled = "INFLIGHT"
  /\ check_and_add_lsq(s)
  /\ UNCHANGED <<frontend, DECODE_BUFFER, resume, RTE0, RTE1, SQ_head, l1d,
                 retired>>

\* In ROB: the others keep all but their dependents, and s gets the slots.
EntersROB(s) ==
  /\ \A x \in Slots :
       /\ ROB'[x].id = ROB[x].id /\ ROB'[x].resumes = ROB[x].resumes
       /\ ROB'[x].reg_ready = ROB[x].reg_ready
       /\ ROB'[x].num_reg_dependent = ROB[x].num_reg_dependent
       /\ ROB'[x].reg_dependents = ROB[x].reg_dependents
       /\ DOMAIN ROB'[x].lq_index = DOMAIN ROB[x].lq_index
       /\ DOMAIN ROB'[x].sq_index = DOMAIN ROB[x].sq_index
       /\ x # s => /\ ROB'[x].scheduled = ROB[x].scheduled
                   /\ ROB'[x].executed = ROB[x].executed
                   /\ ROB'[x].num_mem_ops = ROB[x].num_mem_ops
                   /\ ROB'[x].lq_index = ROB[x].lq_index
                   /\ ROB'[x].sq_index = ROB[x].sq_index
  /\ \A j \in DOMAIN ROB[s].lq_index : ROB'[s].lq_index[j] =
       IF j \in LoadsAdded(s) THEN lq_index(s, j) ELSE ROB[s].lq_index[j]
  /\ \A j \in DOMAIN ROB[s].sq_index : ROB'[s].sq_index[j] =
       IF j \in StoresAdded(s) THEN sq_index(s, j) ELSE ROB[s].sq_index[j]
  /\ ROB'[s].num_mem_ops =
       ROB[s].num_mem_ops - Cardinality(LoadsAdded(s) \ Staying(s))
  /\ ROB'[s].mem_dependents = ROB[s].mem_dependents
  /\ \/ ROB'[s].executed = ROB[s].executed
     \/ ROB'[s].executed = "INFLIGHT" /\ ROB[s].executed = "no"
  /\ ROB[s].executed = "no" /\ ROB'[s].executed # "no" =>
       /\ \A j \in DOMAIN ROB'[s].lq_index : ROB'[s].lq_index[j] # NONE
       /\ \A j \in DOMAIN ROB'[s].sq_index : ROB'[s].sq_index[j] # NONE
  /\ ROB'[s].scheduled # "no"

\* schedule_memory_instruction does that to ROB.
LEMMA EnteringROB ==
  ASSUME CoreInv, SQRing, NEW s, Enters(s)
  PROVE  RobTypes' /\ EntersROB(s)
<1> DEFINE p == [j \in DOMAIN ROB[s].lq_index |->
                   IF j \in LoadsAdded(s) THEN lq_index(s, j)
                   ELSE ROB[s].lq_index[j]]
           r == [j \in DOMAIN ROB[s].sq_index |->
                   IF j \in StoresAdded(s) THEN sq_index(s, j)
                   ELSE ROB[s].sq_index[j]]
           m == ROB[s].num_mem_ops - Cardinality(LoadsAdded(s) \ Staying(s))
           e == [ROB[s] EXCEPT !.lq_index = p, !.sq_index = r, !.num_mem_ops = m]
           P == {Producer(s, Loads(s)[j]) : j \in LoadsAdded(s)} \ {NONE}
<1>0. /\ s \in Slots /\ Occupied(s) /\ ROB[s].scheduled = "INFLIGHT"
      /\ RobTypes /\ ROB[s] \in LooseEntries
  BY EntryFields DEF CoreInv, Enters
<1>1. ROB' = [x \in Slots |->
       IF x = s THEN Added(e)
       ELSE IF ROB[x].id \in P
       THEN [ROB[x] EXCEPT !.mem_dependents = @ \cup {s}]
       ELSE ROB[x]]
  BY DEF Enters, check_and_add_lsq
<1>2. PICK c \in 0 .. SQ_SIZE : RingOf(c)
  BY DEF SQRing
<1>3. p \in Seq(LQSlots \cup {NONE}) /\ DOMAIN p = DOMAIN ROB[s].lq_index
  <2> DEFINE n == Len(ROB[s].lq_index)
  <2>1. ROB[s].lq_index \in Seq(LQSlots \cup {NONE}) /\ n \in Nat
        /\ DOMAIN ROB[s].lq_index = 1 .. n
        /\ \A j \in 1 .. n : ROB[s].lq_index[j] \in LQSlots \cup {NONE}
    BY <1>0, LenProperties, ElementOfSeq DEF LooseEntries
  <2>2. \A j \in LoadsAdded(s) : lq_index(s, j) \in LQSlots
    BY <1>0, LoadPlaces DEF FreeLQ
  <2>3. \A j \in 1 .. n : p[j] \in LQSlots \cup {NONE}
    BY <2>1, <2>2
  <2>4. p = [j \in 1 .. n |-> p[j]]
    BY <2>1
  <2> HIDE DEF p, n
  <2> QED BY <2>1, <2>3, <2>4, IsASeq
<1>4. r \in Seq(SQSlots \cup {NONE}) /\ DOMAIN r = DOMAIN ROB[s].sq_index
  <2> DEFINE n == Len(ROB[s].sq_index)
  <2>1. ROB[s].sq_index \in Seq(SQSlots \cup {NONE}) /\ n \in Nat
        /\ DOMAIN ROB[s].sq_index = 1 .. n
        /\ \A j \in 1 .. n : ROB[s].sq_index[j] \in SQSlots \cup {NONE}
    BY <1>0, LenProperties, ElementOfSeq DEF LooseEntries
  <2>2. \A j \in StoresAdded(s) : sq_index(s, j) \in SQSlots
    BY <1>0, <1>2, StorePlaces DEF FreeSQ
  <2>3. \A j \in 1 .. n : r[j] \in SQSlots \cup {NONE}
    BY <2>1, <2>2
  <2>4. r = [j \in 1 .. n |-> r[j]]
    BY <2>1
  <2> HIDE DEF r, n
  <2> QED BY <2>1, <2>3, <2>4, IsASeq
<1>5. m \in Int
  <2>1. LoadsAdded(s) \ Staying(s) \subseteq LoadsLeft(s)
    BY DEF LoadsAdded
  <2>2. IsFiniteSet(LoadsLeft(s))
    BY <1>0, OperandFacts
  <2>3. Cardinality(LoadsAdded(s) \ Staying(s)) \in Nat
    BY <2>1, <2>2, FS_Subset, FS_CardinalityType
  <2>4. ROB[s].num_mem_ops \in Int
    BY <1>0, EntryFields
  <2> QED BY <2>3, <2>4
<1>6. \A j \in DOMAIN p : p[j] =
        IF j \in LoadsAdded(s) THEN lq_index(s, j) ELSE ROB[s].lq_index[j]
  OBVIOUS
<1>7. \A j \in DOMAIN r : r[j] =
        IF j \in StoresAdded(s) THEN sq_index(s, j) ELSE ROB[s].sq_index[j]
  OBVIOUS
<1> HIDE DEF p, r, P
<1>8. /\ e \in LooseEntries /\ e.lq_index = p /\ e.sq_index = r /\ e.num_mem_ops = m
      /\ e.id = ROB[s].id /\ e.resumes = ROB[s].resumes
      /\ e.reg_ready = ROB[s].reg_ready /\ e.executed = ROB[s].executed
      /\ e.num_reg_dependent = ROB[s].num_reg_dependent
      /\ e.reg_dependents = ROB[s].reg_dependents
      /\ e.scheduled = ROB[s].scheduled
      /\ e.mem_dependents = ROB[s].mem_dependents
  <2> HIDE DEF m
  <2> QED BY <1>0, <1>3, <1>4, <1>5 DEF LooseEntries
<1> HIDE DEF e, m
<1>9. /\ Added(e) \in LooseEntries
      /\ Added(e).lq_index = p /\ Added(e).sq_index = r /\ Added(e).num_mem_ops = m
      /\ Added(e).id = ROB[s].id /\ Added(e).resumes = ROB[s].resumes
      /\ Added(e).reg_ready = ROB[s].reg_ready
      /\ Added(e).num_reg_dependent = ROB[s].num_reg_dependent
      /\ Added(e).reg_dependents = ROB[s].reg_dependents
      /\ Added(e).mem_dependents = ROB[s].mem_dependents
      /\ Added(e).scheduled # "no"
      /\ \/ Added(e).executed = ROB[s].executed
         \/ Added(e).executed = "INFLIGHT" /\ ROB[s].executed = "no"
      /\ NONE \in Elements(p \o r) => Added(e).executed = ROB[s].executed
  <2>1. CASE NONE \in Elements(e.lq_index \o e.sq_index)
    <3>1. Added(e) = e
      BY <2>1 DEF Added
    <3> QED BY <3>1, <1>0, <1>8
  <2>2. CASE NONE \notin Elements(e.lq_index \o e.sq_index)
    <3> DEFINE f == IF e.executed = "no" THEN "INFLIGHT" ELSE e.executed
    <3>1. Added(e) = [e EXCEPT !.scheduled = "COMPLETED", !.executed = f]
      BY <2>2 DEF Added
    <3>2. f \in Status /\ "COMPLETED" \in Status
      BY <1>8 DEF LooseEntries, Status
    <3>3. f = ROB[s].executed \/ (f = "INFLIGHT" /\ ROB[s].executed = "no")
      BY <1>8
    <3> HIDE DEF f
    <3> QED BY <2>2, <3>1, <3>2, <3>3, <1>8 DEF LooseEntries
  <2> QED BY <2>1, <2>2
<1>10. ROB'[s] = Added(e)
  BY <1>0, <1>1
<1>11. ASSUME NEW x \in Slots, x # s
       PROVE  /\ ROB'[x] \in LooseEntries
              /\ ROB'[x].id = ROB[x].id /\ ROB'[x].resumes = ROB[x].resumes
              /\ ROB'[x].reg_ready = ROB[x].reg_ready
              /\ ROB'[x].num_reg_dependent = ROB[x].num_reg_dependent
              /\ ROB'[x].reg_dependents = ROB[x].reg_dependents
              /\ ROB'[x].scheduled = ROB[x].scheduled
              /\ ROB'[x].executed = ROB[x].executed
              /\ ROB'[x].num_mem_ops = ROB[x].num_mem_ops
              /\ ROB'[x].lq_index = ROB[x].lq_index
              /\ ROB'[x].sq_index = ROB[x].sq_index
  <2>1. ROB[x] \in LooseEntries
    BY <1>0, EntryFields
  <2>2. CASE ROB[x].id \in P
    <3> DEFINE D == ROB[x].mem_dependents \cup {s}
    <3>1. ROB'[x] = [ROB[x] EXCEPT !.mem_dependents = D]
      BY <2>2, <1>1, <1>11
    <3>2. D \in SUBSET Slots
      BY <2>1, <1>0 DEF LooseEntries
    <3> HIDE DEF D
    <3> QED BY <3>1, <3>2, <2>1 DEF LooseEntries
  <2>3. CASE ROB[x].id \notin P
    BY <2>1, <2>3, <1>1, <1>11
  <2> QED BY <2>2, <2>3
<1>12. RobTypes'
  <2>1. ROB' \in [Slots -> LooseEntries]
    BY <1>1, <1>9, <1>10, <1>11
  <2> QED BY <2>1, <1>0 DEF RobTypes, Enters
<1>13. ASSUME NONE \notin Elements(p \o r)
       PROVE  /\ \A j \in DOMAIN p : p[j] # NONE
              /\ \A j \in DOMAIN r : r[j] # NONE
  <2> DEFINE T == Int
  <2>1. p \in Seq(Int) /\ r \in Seq(Int)
    <3>1. LQSlots \cup {NONE} \subseteq Int /\ SQSlots \cup {NONE} \subseteq Int
      BY CoreAssumption DEF LQSlots, SQSlots, NONE
    <3> QED BY <3>1, <1>3, <1>4
  <2>2. Elements(p \o r) = Elements(p) \cup Elements(r)
    BY <2>1, OnceConcat
  <2> QED BY <2>2, <1>13 DEF Elements
<1>14. DOMAIN p = DOMAIN ROB[s].lq_index /\ DOMAIN r = DOMAIN ROB[s].sq_index
  BY <1>3, <1>4
<1> QED BY <1>0, <1>6, <1>7, <1>9, <1>10, <1>11, <1>12, <1>13, <1>14 DEF EntersROB, m

\* What a function gives for the members of a set, in ascending order.
LEMMA MappedInOrder ==
  ASSUME NEW S \in SUBSET Int, IsFiniteSet(S), NEW U, NEW f \in [S -> U],
         \A x, y \in S : f[x] = f[y] => x = y,
         NEW m \in Seq(U), DOMAIN m = DOMAIN InOrder(S),
         \A k \in DOMAIN InOrder(S) : m[k] = f[InOrder(S)[k]]
  PROVE  Elements(m) = {f[x] : x \in S} /\ Once(m)
<1> DEFINE r == InOrder(S)
           D == DOMAIN r
<1>1. Once(r) /\ Elements(r) = S
  BY InOrderLists
<1>2. DOMAIN m = D /\ DOMAIN r = D /\ \A k \in D : m[k] = f[r[k]]
  OBVIOUS
<1> HIDE DEF r, D
<1>3. \A k \in D : r[k] \in S
  BY <1>1, <1>2 DEF Elements
<1>4. Elements(m) = {f[x] : x \in S}
  <2>1. \A x \in S : \E k \in D : r[k] = x
    BY <1>1, <1>2 DEF Elements
  <2>2. ASSUME NEW x \in S PROVE f[x] \in Elements(m)
    <3>1. PICK k \in D : r[k] = x
      BY <2>1
    <3>2. m[k] = f[x] /\ k \in DOMAIN m
      BY <3>1, <1>2
    <3> QED BY <3>2 DEF Elements
  <2>3. ASSUME NEW y \in Elements(m) PROVE \E x \in S : y = f[x]
    <3>1. PICK k \in D : y = m[k]
      BY <2>3, <1>2 DEF Elements
    <3> QED BY <3>1, <1>2, <1>3
  <2> QED BY <2>2, <2>3
<1>5. Once(m)
  <2> SUFFICES ASSUME NEW i \in D, NEW j \in D, m[i] = m[j] PROVE i = j
    BY <1>2 DEF Once
  <2>1. f[r[i]] = f[r[j]]
    BY <1>2
  <2>2. r[i] \in S /\ r[j] \in S
    BY <1>3
  <2>3. r[i] = r[j]
    BY <2>1, <2>2
  <2> QED BY <2>3, <1>1, <1>2 DEF Once
<1> QED BY <1>4, <1>5

\* In the queues: each load that stays and each store gets its entry, in a slot
\* that was free, and is ready if it waits for nothing.
EntersQueues(s) ==
  LET J == LoadsAdded(s) \cap Staying(s)
      A == StoresAdded(s)
  IN
  /\ \A j \in J : LQ'[lq_index(s, j)] =
       [id |-> ROB[s].id, address |-> Loads(s)[j], rob_index |-> s,
        data_index |-> j, producer |-> Producer(s, Loads(s)[j]),
        fetched |-> "no"]
  /\ \A l \in LQSlots : (\E j \in J : l = lq_index(s, j)) \/ LQ'[l] = LQ[l]
  /\ \A j \in A : SQ'[sq_index(s, j)] =
       [id |-> ROB[s].id, address |-> Stores(s)[j], rob_index |-> s,
        data_index |-> j, producer |-> NONE, fetched |-> "no"]
  /\ \A q \in SQSlots : (\E j \in A : q = sq_index(s, j)) \/ SQ'[q] = SQ[q]
  /\ STA' = SubSeq(STA, Cardinality(A) + 1, Len(STA))
  /\ Elements(RTL0') = Elements(RTL0) \cup
       {lq_index(s, j) : j \in {k \in J : Producer(s, Loads(s)[k]) = NONE}}
  /\ Once(RTL0) /\ Elements(RTL0) \cap FreeLQ = {} => Once(RTL0')
  /\ Elements(RTS0') = Elements(RTS0) \cup {sq_index(s, j) : j \in A}
  /\ Once(RTS0) /\ Elements(RTS0) \cap FreeSQ = {} => Once(RTS0')

\* schedule_memory_instruction does that to the queues.
LEMMA EnteringQueues ==
  ASSUME CoreInv, NEW s, Enters(s), NEW c \in 0 .. SQ_SIZE, RingOf(c)
  PROVE  MemoryTypes' /\ EntersQueues(s)
<1> SUFFICES ASSUME NEW J, J = LoadsAdded(s) \cap Staying(s),
                    NEW A, A = StoresAdded(s)
             PROVE  MemoryTypes' /\ EntersQueues(s)
  OBVIOUS
<1> DEFINE K == {j \in J : Producer(s, Loads(s)[j]) = NONE}
           ready == InOrder(K)
           new == InOrder(A)
           f == [j \in K |-> lq_index(s, j)]
           g == [j \in A |-> sq_index(s, j)]
<1>0. /\ s \in Slots /\ Occupied(s) /\ MemoryTypes /\ RobTypes
      /\ add_load_queue(s) /\ add_store_queue(s)
      /\ UNCHANGED <<SQ_head, l1d, wq, memory, lost>>
  BY DEF CoreInv, Enters, check_and_add_lsq, retired
<1>1. /\ Loads(s) \in Seq(Addresses) /\ Stores(s) \in Seq(Addresses)
      /\ LoadsLeft(s) \in SUBSET Int /\ IsFiniteSet(LoadsLeft(s))
      /\ ROB[s].id \in Nat
      /\ DOMAIN Loads(s) = 1 .. Len(Loads(s)) /\ Len(Loads(s)) \in Nat
      /\ DOMAIN Stores(s) = 1 .. Len(Stores(s)) /\ Len(Stores(s)) \in Nat
  BY <1>0, OperandFacts
<1>2. /\ LoadsAdded(s) \subseteq LoadsLeft(s)
      /\ \A j \in J : lq_index(s, j) \in FreeLQ
      /\ \A j \in J : LoadAt(s, lq_index(s, j)) = {j} /\ Least({j}) = j
      /\ \A j, k \in J : lq_index(s, j) = lq_index(s, k) => j = k
      /\ \A l \in LQSlots : LoadAt(s, l) # {} => \E j \in J : l = lq_index(s, j)
  BY <1>0, LoadPlaces
<1>3. /\ A \subseteq StoresLeft(s) /\ IsFiniteSet(A) /\ A \in SUBSET Int
      /\ Cardinality(A) \in Nat
      /\ \A j \in A : sq_index(s, j) \in FreeSQ
      /\ \A j, k \in A : sq_index(s, j) = sq_index(s, k) => j = k
  BY <1>0, StorePlaces
<1>4. /\ \A j \in J : j \in DOMAIN Loads(s) /\ j \in Nat
      /\ \A j \in A : j \in DOMAIN Stores(s) /\ j \in Nat
  BY <1>1, <1>2, <1>3 DEF LoadsLeft, StoresLeft
<1>5. LQ' = [l \in LQSlots |->
       IF LoadAt(s, l) = {} THEN LQ[l]
       ELSE [id |-> ROB[s].id, address |-> Loads(s)[Least(LoadAt(s, l))],
             rob_index |-> s, data_index |-> Least(LoadAt(s, l)),
             producer |-> Producer(s, Loads(s)[Least(LoadAt(s, l))]),
             fetched |-> "no"]]
  BY <1>0 DEF add_load_queue
<1>6. RTL0' = RTL0 \o [k \in DOMAIN ready |-> lq_index(s, ready[k])]
  BY <1>0 DEF add_load_queue
<1>7. SQ' = [q \in SQSlots |->
       IF \E j \in A : sq_index(s, j) = q
       THEN LET j == CHOOSE k \in A : sq_index(s, k) = q IN
            [id |-> ROB[s].id, address |-> Stores(s)[j], rob_index |-> s,
             data_index |-> j, producer |-> NONE, fetched |-> "no"]
       ELSE SQ[q]]
  BY <1>0 DEF add_store_queue
<1>8. /\ STA' = SubSeq(STA, Len(new) + 1, Len(STA))
      /\ RTS0' = RTS0 \o [k \in DOMAIN new |-> sq_index(s, new[k])]
  BY <1>0 DEF add_store_queue
<1>9. K \in SUBSET Int /\ IsFiniteSet(K)
  <2>1. K \subseteq LoadsLeft(s)
    BY <1>2
  <2> HIDE DEF K
  <2> QED BY <2>1, <1>1, FS_Subset
<1>10. FreeLQ \subseteq LQSlots /\ FreeSQ \subseteq SQSlots
  BY DEF FreeLQ, FreeSQ
<1>11. ASSUME NEW j \in J
       PROVE  LQ'[lq_index(s, j)] =
              [id |-> ROB[s].id, address |-> Loads(s)[j], rob_index |-> s,
               data_index |-> j, producer |-> Producer(s, Loads(s)[j]),
               fetched |-> "no"]
  <2> DEFINE l == lq_index(s, j)
  <2>1. l \in LQSlots /\ LoadAt(s, l) = {j} /\ Least({j}) = j /\ {j} # {}
    BY <1>2, <1>10
  <2> HIDE DEF l
  <2>2. Least(LoadAt(s, l)) = j /\ LoadAt(s, l) # {}
    BY <2>1
  <2>3. LQ'[l] = [id |-> ROB[s].id, address |-> Loads(s)[Least(LoadAt(s, l))],
             rob_index |-> s, data_index |-> Least(LoadAt(s, l)),
             producer |-> Producer(s, Loads(s)[Least(LoadAt(s, l))]),
             fetched |-> "no"]
    BY <2>1, <2>2, <1>5
  <2> QED BY <2>2, <2>3 DEF l
<1>12. ASSUME NEW l \in LQSlots
       PROVE  (\E j \in J : l = lq_index(s, j)) \/ LQ'[l] = LQ[l]
  BY <1>2, <1>5
<1>13. ASSUME NEW j \in A
       PROVE  SQ'[sq_index(s, j)] =
              [id |-> ROB[s].id, address |-> Stores(s)[j], rob_index |-> s,
               data_index |-> j, producer |-> NONE, fetched |-> "no"]
  <2> DEFINE q == sq_index(s, j)
             i == CHOOSE k \in A : sq_index(s, k) = q
  <2>1. q \in SQSlots
    BY <1>3, <1>10
  <2>2. i \in A /\ sq_index(s, i) = q
    OBVIOUS
  <2>3. i = j
    BY <2>2, <1>3
  <2>4. SQ'[q] = [id |-> ROB[s].id, address |-> Stores(s)[i], rob_index |-> s,
                  data_index |-> i, producer |-> NONE, fetched |-> "no"]
    BY <2>1, <1>7
  <2> HIDE DEF i, q
  <2> QED BY <2>3, <2>4 DEF q
<1>14. ASSUME NEW q \in SQSlots
       PROVE  (\E j \in A : q = sq_index(s, j)) \/ SQ'[q] = SQ[q]
  BY <1>7
<1>15. /\ ready \in Seq(K) /\ Once(ready) /\ Elements(ready) = K
       /\ new \in Seq(A) /\ Once(new) /\ Elements(new) = A
       /\ Len(new) = Cardinality(A)
  <2> HIDE DEF K
  <2> QED BY <1>3, <1>9, InOrderLists
<1>16. f \in [K -> LQSlots] /\ g \in [A -> SQSlots]
       /\ (\A x, y \in K : f[x] = f[y] => x = y)
       /\ (\A x, y \in A : g[x] = g[y] => x = y)
       /\ (\A x \in K : f[x] = lq_index(s, x)) /\ (\A x \in A : g[x] = sq_index(s, x))
       /\ (\A x \in K : f[x] \in FreeLQ) /\ (\A x \in A : g[x] \in FreeSQ)
  BY <1>2, <1>3, <1>10
<1>17. {f[x] : x \in K} = {lq_index(s, x) : x \in K}
       /\ {g[x] : x \in A} = {sq_index(s, x) : x \in A}
  BY <1>16
<1> DEFINE ml == [k \in DOMAIN ready |-> f[ready[k]]]
           ms == [k \in DOMAIN new |-> g[new[k]]]
<1>18. RTL0' = RTL0 \o ml
  <2>1. \A k \in DOMAIN ready : ready[k] \in K
    <3> HIDE DEF ready, K
    <3> QED BY <1>15 DEF Elements
  <2> HIDE DEF K, ready
  <2>2. [k \in DOMAIN ready |-> lq_index(s, ready[k])] = ml
    BY <2>1, <1>16
  <2> QED BY <2>2, <1>6
<1>19. RTS0' = RTS0 \o ms
  <2>1. \A k \in DOMAIN new : new[k] \in A
    <3> HIDE DEF new
    <3> QED BY <1>15 DEF Elements
  <2> HIDE DEF new
  <2>2. [k \in DOMAIN new |-> sq_index(s, new[k])] = ms
    BY <2>1, <1>16
  <2> QED BY <2>2, <1>8
<1>20. /\ ml \in Seq(LQSlots) /\ Once(ml)
       /\ Elements(ml) = {lq_index(s, x) : x \in K}
  <2> HIDE DEF f, K
  <2>1. /\ ready \in Seq(K) /\ DOMAIN ready = 1 .. Cardinality(K)
        /\ Cardinality(K) \in Nat
    BY <1>9, InOrderLists
  <2>2. DOMAIN ml = DOMAIN ready /\ \A k \in DOMAIN ready : ml[k] = f[ready[k]]
    OBVIOUS
  <2>3. ml \in Seq(LQSlots)
    <3>1. ml = [k \in 1 .. Cardinality(K) |-> f[ready[k]]]
      BY <2>1
    <3>2. \A k \in 1 .. Cardinality(K) : f[ready[k]] \in LQSlots
      BY <2>1, <1>15, <1>16 DEF Elements
    <3> HIDE DEF ml, ready
    <3> QED BY <2>1, <3>1, <3>2, IsASeq
  <2> HIDE DEF ml
  <2>4. Elements(ml) = {f[x] : x \in K} /\ Once(ml)
    BY <2>2, <2>3, <1>9, <1>16, MappedInOrder
  <2> QED BY <2>3, <2>4, <1>17
<1>21. /\ ms \in Seq(SQSlots) /\ Once(ms)
       /\ Elements(ms) = {sq_index(s, x) : x \in A}
  <2> HIDE DEF g
  <2>1. /\ new \in Seq(A) /\ DOMAIN new = 1 .. Cardinality(A)
        /\ Cardinality(A) \in Nat
    BY <1>3, InOrderLists
  <2>2. DOMAIN ms = DOMAIN new /\ \A k \in DOMAIN new : ms[k] = g[new[k]]
    OBVIOUS
  <2>3. ms \in Seq(SQSlots)
    <3>1. ms = [k \in 1 .. Cardinality(A) |-> g[new[k]]]
      BY <2>1
    <3>2. \A k \in 1 .. Cardinality(A) : g[new[k]] \in SQSlots
      BY <2>1, <1>15, <1>16 DEF Elements
    <3> HIDE DEF ms, new
    <3> QED BY <2>1, <3>1, <3>2, IsASeq
  <2> HIDE DEF ms
  <2>4. Elements(ms) = {g[x] : x \in A} /\ Once(ms)
    BY <2>2, <2>3, <1>3, <1>16, MappedInOrder
  <2> QED BY <2>3, <2>4, <1>17
<1>22. RTL0 \in Seq(LQSlots) /\ RTS0 \in Seq(SQSlots)
  BY <1>0 DEF MemoryTypes
<1>23. /\ RTL0' \in Seq(LQSlots)
       /\ Elements(RTL0') = Elements(RTL0) \cup {lq_index(s, x) : x \in K}
       /\ Once(RTL0) /\ Elements(RTL0) \cap FreeLQ = {} => Once(RTL0')
  <2>1. {lq_index(s, x) : x \in K} \subseteq FreeLQ
    BY <1>16
  <2> HIDE DEF ml, K
  <2>2. RTL0 \o ml \in Seq(LQSlots)
    BY <1>20, <1>22, ConcatProperties
  <2>3. /\ Elements(RTL0 \o ml) = Elements(RTL0) \cup Elements(ml)
        /\ Once(RTL0 \o ml) <=> /\ Once(RTL0) /\ Once(ml)
                                /\ Elements(RTL0) \cap Elements(ml) = {}
    BY <1>20, <1>22, OnceConcat
  <2> QED BY <2>1, <2>2, <2>3, <1>18, <1>20
<1>24. /\ RTS0' \in Seq(SQSlots)
       /\ Elements(RTS0') = Elements(RTS0) \cup {sq_index(s, x) : x \in A}
       /\ Once(RTS0) /\ Elements(RTS0) \cap FreeSQ = {} => Once(RTS0')
  <2>1. {sq_index(s, x) : x \in A} \subseteq FreeSQ
    BY <1>16
  <2> HIDE DEF ms
  <2>2. RTS0 \o ms \in Seq(SQSlots)
    BY <1>21, <1>22, ConcatProperties
  <2>3. /\ Elements(RTS0 \o ms) = Elements(RTS0) \cup Elements(ms)
        /\ Once(RTS0 \o ms) <=> /\ Once(RTS0) /\ Once(ms)
                                /\ Elements(RTS0) \cap Elements(ms) = {}
    BY <1>21, <1>22, OnceConcat
  <2> QED BY <2>1, <2>2, <2>3, <1>19, <1>21
<1>25. LQ' \in [LQSlots -> LSQEntries]
  <2>1. ASSUME NEW l \in LQSlots PROVE LQ'[l] \in LSQEntries
    <3>1. CASE LQ'[l] = LQ[l]
      BY <3>1, <1>0 DEF MemoryTypes
    <3>2. CASE \E j \in J : l = lq_index(s, j)
      <4>1. PICK j \in J : l = lq_index(s, j)
        BY <3>2
      <4>2. LQ'[l] = [id |-> ROB[s].id, address |-> Loads(s)[j], rob_index |-> s,
                      data_index |-> j, producer |-> Producer(s, Loads(s)[j]),
                      fetched |-> "no"]
        BY <4>1, <1>11
      <4>3. Loads(s)[j] \in Addresses /\ j \in Nat
        BY <4>1, <1>1, <1>4, ElementOfSeq
      <4>4. Producer(s, Loads(s)[j]) \in Ids
        BY <1>0, ProducerIs
      <4> QED BY <4>2, <4>3, <4>4, <1>0, <1>1 DEF LSQEntries, Ids, Status
    <3> QED BY <3>1, <3>2, <1>12
  <2> QED BY <2>1, <1>5
<1>26. SQ' \in [SQSlots -> LSQEntries]
  <2>1. ASSUME NEW q \in SQSlots PROVE SQ'[q] \in LSQEntries
    <3>1. CASE SQ'[q] = SQ[q]
      BY <3>1, <1>0 DEF MemoryTypes
    <3>2. CASE \E j \in A : q = sq_index(s, j)
      <4>1. PICK j \in A : q = sq_index(s, j)
        BY <3>2
      <4>2. SQ'[q] = [id |-> ROB[s].id, address |-> Stores(s)[j], rob_index |-> s,
                      data_index |-> j, producer |-> NONE, fetched |-> "no"]
        BY <4>1, <1>13
      <4>3. Stores(s)[j] \in Addresses /\ j \in Nat
        BY <4>1, <1>1, <1>4, ElementOfSeq
      <4> QED BY <4>2, <4>3, <1>0, <1>1 DEF LSQEntries, Ids, Status
    <3> QED BY <3>1, <3>2, <1>14
  <2> QED BY <2>1, <1>7
<1>27. STA' = SubSeq(STA, Cardinality(A) + 1, Len(STA))
  BY <1>8, <1>15
<1>28. STA' \in Seq(Nat)
  <2>1. STA \in Seq(Nat) /\ Len(STA) \in Nat /\ Cardinality(A) + 1 \in Nat
    BY <1>0, <1>3, LenProperties DEF MemoryTypes
  <2>2. Cardinality(A) + 1 \in 1 .. Len(STA) + 1 \/ Len(STA) < Cardinality(A) + 1
    BY <2>1, <1>3
  <2> DEFINE k == Cardinality(A) + 1
  <2>3. k \in Nat /\ k >= 1 /\ STA' = SubSeq(STA, k, Len(STA))
    BY <2>1, <1>3, <1>27
  <2> HIDE DEF k
  <2>4. \A i \in k .. Len(STA) : STA[i] \in Nat
    BY <2>1, <2>3, ElementOfSeq
  <2> QED BY <2>1, <2>3, <2>4, SubSeqProperties
<1>29. MemoryTypes'
  BY <1>0, <1>23, <1>24, <1>25, <1>26, <1>28 DEF MemoryTypes
<1> QED BY <1>11, <1>12, <1>13, <1>14, <1>23, <1>24, <1>27, <1>29 DEF EntersQueues

\* Entering LQ and SQ preserves the invariant of OutOfOrderCoreProofs,
LEMMA EnterKeeps ==
  ASSUME CoreInv, SQRing, NEW s, Enters(s)
  PROVE  CoreInv'
<1>1. PICK c \in 0 .. SQ_SIZE : RingOf(c)
  BY DEF SQRing
<1>2. MemoryTypes'
  BY <1>1, EnteringQueues
<1>3. UNCHANGED <<frontend, DECODE_BUFFER, resume, RTE0, RTE1, num_retired>>
  BY DEF Enters, retired
<1>4. s \in Slots /\ is_memory(s) /\ ROB[s].reg_ready /\ ROB[s].scheduled # "no"
  BY DEF Enters
<1>R. RobTypes' /\ EntersROB(s)
  BY EnteringROB
<1>5. RobTypes'
  BY <1>R DEF EntersROB
<1>6. ASSUME NEW x \in Slots
      PROVE
           /\ ROB'[x].id = ROB[x].id /\ ROB'[x].resumes = ROB[x].resumes
           /\ ROB'[x].reg_ready = ROB[x].reg_ready
           /\ ROB'[x].num_reg_dependent = ROB[x].num_reg_dependent
           /\ ROB'[x].reg_dependents = ROB[x].reg_dependents
           /\ DOMAIN ROB'[x].lq_index = DOMAIN ROB[x].lq_index
           /\ DOMAIN ROB'[x].sq_index = DOMAIN ROB[x].sq_index
           /\ (ROB'[x].executed = "COMPLETED") <=> (ROB[x].executed = "COMPLETED")
           /\ (ROB'[x].scheduled = "no") <=> (ROB[x].scheduled = "no")
           /\ ROB'[x].executed = ROB[x].executed \/ is_memory(x)
           /\ ~ROB[x].reg_ready => /\ ROB'[x].executed = ROB[x].executed
                                   /\ ROB'[x].lq_index = ROB[x].lq_index
                                   /\ ROB'[x].sq_index = ROB[x].sq_index
                                   /\ ROB'[x].scheduled = ROB[x].scheduled
  <2>1. CASE x = s
    <3>1. /\ \/ ROB'[s].executed = ROB[s].executed
             \/ ROB'[s].executed = "INFLIGHT" /\ ROB[s].executed = "no"
          /\ ROB'[s].scheduled # "no"
      BY <1>R DEF EntersROB
    <3> QED BY <2>1, <3>1, <1>4, <1>R DEF EntersROB
  <2>2. CASE x # s
    BY <2>2, <1>R DEF EntersROB
  <2> QED BY <2>1, <2>2
<1> QED BY <1>2, <1>3, <1>5, <1>6, MemoryStepKeeps

\* and so does all of schedule_memory_instruction.
LEMMA ScheduleMemoryEnters ==
  ASSUME schedule_memory_instruction
  PROVE  \E s \in Slots : Enters(s)
BY DEF schedule_memory_instruction, Enters

\* The instructions and their operands are those of before, while ids stay.
LEMMA SameInstructions ==
  ASSUME trace' = trace, \A x \in Slots : ROB'[x].id = ROB[x].id
  PROVE  \A x \in Slots : /\ Occupied(x)' <=> Occupied(x)
                          /\ Instr(x)' = Instr(x) /\ Loads(x)' = Loads(x)
                          /\ Stores(x)' = Stores(x)
                          /\ is_memory(x)' <=> is_memory(x)
BY DEF Occupied, Instr, Loads, Stores, is_memory

\* Entering LQ and SQ keeps the entries linked,
LEMMA EnterLinks ==
  ASSUME CoreInv, MemInv, NEW s, Enters(s)
  PROVE  LQLinked' /\ SQLinked'
<1> DEFINE J == LoadsAdded(s) \cap Staying(s)
           A == StoresAdded(s)
<1>0. /\ s \in Slots /\ Occupied(s) /\ trace' = trace
      /\ SQRing /\ LQLinked /\ SQLinked /\ RobTypes /\ Ring
  BY DEF Enters, frontend, MemInv, CoreInv
<1>1. PICK c \in 0 .. SQ_SIZE : RingOf(c)
  BY <1>0 DEF SQRing
<1>R. RobTypes' /\ EntersROB(s)
  BY <1>0, EnteringROB
<1>2. \A x \in Slots : /\ ROB'[x].id = ROB[x].id
                       /\ DOMAIN ROB'[x].lq_index = DOMAIN ROB[x].lq_index
                       /\ DOMAIN ROB'[x].sq_index = DOMAIN ROB[x].sq_index
                       /\ x # s => /\ ROB'[x].lq_index = ROB[x].lq_index
                                   /\ ROB'[x].sq_index = ROB[x].sq_index
  BY <1>R DEF EntersROB
<1>3. /\ \A j \in DOMAIN ROB[s].lq_index : ROB'[s].lq_index[j] =
              IF j \in LoadsAdded(s) THEN lq_index(s, j) ELSE ROB[s].lq_index[j]
      /\ \A j \in DOMAIN ROB[s].sq_index : ROB'[s].sq_index[j] =
              IF j \in A THEN sq_index(s, j) ELSE ROB[s].sq_index[j]
  BY <1>R DEF EntersROB
<1>4. /\ \A j \in J : LQ'[lq_index(s, j)] =
              [id |-> ROB[s].id, address |-> Loads(s)[j], rob_index |-> s,
               data_index |-> j, producer |-> Producer(s, Loads(s)[j]),
               fetched |-> "no"]
      /\ \A l \in LQSlots : (\E j \in J : l = lq_index(s, j)) \/ LQ'[l] = LQ[l]
      /\ \A j \in A : SQ'[sq_index(s, j)] =
              [id |-> ROB[s].id, address |-> Stores(s)[j], rob_index |-> s,
               data_index |-> j, producer |-> NONE, fetched |-> "no"]
      /\ \A q \in SQSlots : (\E j \in A : q = sq_index(s, j)) \/ SQ'[q] = SQ[q]
  <2>1. EntersQueues(s)
    BY <1>1, EnteringQueues
  <2> QED BY <2>1 DEF EntersQueues
<1>5. /\ LoadsAdded(s) \subseteq LoadsLeft(s)
      /\ \A j \in LoadsAdded(s) : lq_index(s, j) \in FreeLQ
  BY <1>0, LoadPlaces
<1>6. /\ A \subseteq StoresLeft(s)
      /\ \A j \in A : sq_index(s, j) \in FreeSQ
  BY <1>0, <1>1, StorePlaces
<1>7. /\ ROB[s].id \in Nat /\ ROB[s].id # NONE
      /\ DOMAIN ROB[s].lq_index = DOMAIN Loads(s)
      /\ DOMAIN ROB[s].sq_index = DOMAIN Stores(s)
  BY <1>0, OperandFacts DEF Occupied
<1> HIDE DEF J, A
<1>8. J \subseteq LoadsAdded(s)
  BY DEF J
<1>9. \A x \in Slots : Loads(x)' = Loads(x) /\ Stores(x)' = Stores(x)
  BY <1>0, <1>2, SameInstructions
<1>10. ASSUME NEW l \in LQSlots
       PROVE  /\ LQ'[l].id = NONE => LQ'[l] = NoLSQEntry
              /\ LQ'[l].id # NONE =>
                   /\ LQ'[l].rob_index \in Slots
                   /\ ROB'[LQ'[l].rob_index].id = LQ'[l].id
                   /\ LQ'[l].data_index \in DOMAIN Loads(LQ'[l].rob_index)
                   /\ ROB'[LQ'[l].rob_index].lq_index[LQ'[l].data_index] = l
                   /\ LQ'[l].address = Loads(LQ'[l].rob_index)[LQ'[l].data_index]
  <2>1. CASE \E j \in J : l = lq_index(s, j)
    <3>1. PICK j \in J : l = lq_index(s, j)
      BY <2>1
    <3>2. LQ'[l] = [id |-> ROB[s].id, address |-> Loads(s)[j], rob_index |-> s,
               data_index |-> j, producer |-> Producer(s, Loads(s)[j]),
               fetched |-> "no"]
      BY <3>1, <1>4
    <3>3. /\ LQ'[l].id = ROB[s].id /\ LQ'[l].address = Loads(s)[j]
          /\ LQ'[l].rob_index = s /\ LQ'[l].data_index = j
      BY <3>2
    <3>4. j \in DOMAIN Loads(s) /\ j \in LoadsAdded(s)
      BY <1>5, <1>8 DEF LoadsLeft
    <3>5. ROB'[s].lq_index[j] = l
      BY <3>1, <3>4, <1>3, <1>7
    <3> QED BY <3>3, <3>4, <3>5, <1>0, <1>2, <1>7
  <2>2. CASE LQ'[l] = LQ[l]
    <3>1. CASE LQ[l].id = NONE
      BY <2>2, <3>1, <1>0 DEF LQLinked
    <3>2. CASE LQ[l].id # NONE
      <4> DEFINE x == LQ[l].rob_index
                 j == LQ[l].data_index
      <4>1. /\ x \in Slots /\ ROB[x].id = LQ[l].id
            /\ j \in DOMAIN Loads(x) /\ ROB[x].lq_index[j] = l
            /\ LQ[l].address = Loads(x)[j]
        BY <3>2, <1>0 DEF LQLinked
      <4>2. ROB'[x].lq_index[j] = l
        <5>1. CASE x # s
          BY <5>1, <4>1, <1>2
        <5>2. CASE x = s
          <6>1. l # NONE
            BY DEF LQSlots, NONE
          <6>2. j \notin LoadsAdded(s)
            BY <6>1, <5>2, <4>1, <1>5 DEF LoadsLeft
          <6> QED BY <6>2, <5>2, <4>1, <1>3, <1>7
        <5> QED BY <5>1, <5>2
      <4> QED BY <4>1, <4>2, <2>2, <3>2, <1>2
    <3> QED BY <3>1, <3>2
  <2> QED BY <2>1, <2>2, <1>4
<1>11. LQLinked'
  <2>1. \A x \in Slots : trace'[ROB'[x].id].source_memory = Loads(x)
    BY <1>0, <1>2 DEF Loads, Instr
  <2>2. \A l \in LQSlots : LQ'[l].id # NONE =>
          trace'[ROB'[LQ'[l].rob_index].id].source_memory = Loads(LQ'[l].rob_index)
    BY <2>1, <1>10
  <2>3. LQLinked' <=> \A l \in LQSlots :
          /\ LQ'[l].id = NONE => LQ'[l] = NoLSQEntry
          /\ LQ'[l].id # NONE =>
               /\ LQ'[l].rob_index \in Slots
               /\ ROB'[LQ'[l].rob_index].id = LQ'[l].id
               /\ LQ'[l].data_index
                    \in DOMAIN trace'[ROB'[LQ'[l].rob_index].id].source_memory
               /\ ROB'[LQ'[l].rob_index].lq_index[LQ'[l].data_index] = l
               /\ LQ'[l].address = trace'[ROB'[LQ'[l].rob_index].id]
                                     .source_memory[LQ'[l].data_index]
    BY DEF LQLinked, Loads, Instr
  <2> QED BY <2>2, <2>3, <1>10
<1>12. ASSUME NEW q \in SQSlots
       PROVE  /\ SQ'[q].id = NONE => SQ'[q] = NoLSQEntry
              /\ SQ'[q].id # NONE =>
                   /\ SQ'[q].rob_index \in Slots
                   /\ ROB'[SQ'[q].rob_index].id = SQ'[q].id
                   /\ SQ'[q].data_index \in DOMAIN Stores(SQ'[q].rob_index)
                   /\ ROB'[SQ'[q].rob_index].sq_index[SQ'[q].data_index] = q
                   /\ SQ'[q].address = Stores(SQ'[q].rob_index)[SQ'[q].data_index]
  <2>1. CASE \E j \in A : q = sq_index(s, j)
    <3>1. PICK j \in A : q = sq_index(s, j)
      BY <2>1
    <3>2. SQ'[q] = [id |-> ROB[s].id, address |-> Stores(s)[j], rob_index |-> s,
               data_index |-> j, producer |-> NONE, fetched |-> "no"]
      BY <3>1, <1>4
    <3>3. /\ SQ'[q].id = ROB[s].id /\ SQ'[q].address = Stores(s)[j]
          /\ SQ'[q].rob_index = s /\ SQ'[q].data_index = j
      BY <3>2
    <3>4. j \in DOMAIN Stores(s)
      BY <1>6 DEF StoresLeft
    <3>5. ROB'[s].sq_index[j] = q
      BY <3>1, <3>4, <1>3, <1>7
    <3> QED BY <3>3, <3>4, <3>5, <1>0, <1>2, <1>7
  <2>2. CASE SQ'[q] = SQ[q]
    <3>1. CASE SQ[q].id = NONE
      BY <2>2, <3>1, <1>0 DEF SQLinked
    <3>2. CASE SQ[q].id # NONE
      <4> DEFINE x == SQ[q].rob_index
                 j == SQ[q].data_index
      <4>1. /\ x \in Slots /\ ROB[x].id = SQ[q].id
            /\ j \in DOMAIN Stores(x) /\ ROB[x].sq_index[j] = q
            /\ SQ[q].address = Stores(x)[j]
        BY <3>2, <1>0 DEF SQLinked
      <4>2. ROB'[x].sq_index[j] = q
        <5>1. CASE x # s
          BY <5>1, <4>1, <1>2
        <5>2. CASE x = s
          <6>1. q # NONE
            BY DEF SQSlots, NONE
          <6>2. j \notin A
            BY <6>1, <5>2, <4>1, <1>6 DEF StoresLeft
          <6> QED BY <6>2, <5>2, <4>1, <1>3, <1>7
        <5> QED BY <5>1, <5>2
      <4> QED BY <4>1, <4>2, <2>2, <3>2, <1>2
    <3> QED BY <3>1, <3>2
  <2> QED BY <2>1, <2>2, <1>4
<1>13. ASSUME NEW x \in Slots, NEW j \in DOMAIN ROB'[x].sq_index,
              ROB'[x].sq_index[j] # NONE
       PROVE  /\ SQ'[ROB'[x].sq_index[j]].id = ROB'[x].id
              /\ SQ'[ROB'[x].sq_index[j]].data_index = j
  <2>1. CASE x = s /\ j \in A
    <3>1. ROB'[x].sq_index[j] = sq_index(s, j)
      BY <2>1, <1>2, <1>3, <1>13
    <3>2. SQ'[sq_index(s, j)] =
              [id |-> ROB[s].id, address |-> Stores(s)[j], rob_index |-> s,
               data_index |-> j, producer |-> NONE, fetched |-> "no"]
      BY <2>1, <1>4
    <3> QED BY <3>1, <3>2, <2>1, <1>2
  <2>2. CASE ~(x = s /\ j \in A)
    <3>1. j \in DOMAIN ROB[x].sq_index /\ ROB'[x].sq_index[j] = ROB[x].sq_index[j]
      BY <2>2, <1>2, <1>3, <1>13
    <3> DEFINE q == ROB[x].sq_index[j]
    <3>2. SQ[q].id = ROB[x].id /\ SQ[q].data_index = j /\ q # NONE
      BY <3>1, <1>0, <1>13 DEF SQLinked
    <3>3. Occupied(x)
      <4>1. ~Occupied(x) => ROB[x].sq_index = <<>>
        BY <1>0 DEF Ring
      <4> QED BY <4>1, <3>1
    <3>4. q \in SQSlots
      <4>1. ROB[x].sq_index \in Seq(SQSlots \cup {NONE})
        BY <1>0, EntryFields
      <4> QED BY <4>1, <3>1, <3>2, LenProperties, ElementOfSeq
    <3> HIDE DEF q
    <3>5. q \notin FreeSQ
      BY <3>2, <3>3 DEF FreeSQ, Occupied
    <3>6. SQ'[q] = SQ[q]
      BY <3>4, <3>5, <1>4, <1>6
    <3> QED BY <3>1, <3>2, <3>6, <1>2 DEF q
  <2> QED BY <2>1, <2>2
<1>14. SQLinked'
  <2>1. \A x \in Slots : trace'[ROB'[x].id].destination_memory = Stores(x)
    BY <1>0, <1>2 DEF Stores, Instr
  <2>2. \A q \in SQSlots : SQ'[q].id # NONE =>
          trace'[ROB'[SQ'[q].rob_index].id].destination_memory
            = Stores(SQ'[q].rob_index)
    BY <2>1, <1>12
  <2>3. ASSUME \A q \in SQSlots :
          /\ SQ'[q].id = NONE => SQ'[q] = NoLSQEntry
          /\ SQ'[q].id # NONE =>
               /\ SQ'[q].rob_index \in Slots
               /\ ROB'[SQ'[q].rob_index].id = SQ'[q].id
               /\ SQ'[q].data_index
                    \in DOMAIN trace'[ROB'[SQ'[q].rob_index].id].destination_memory
               /\ ROB'[SQ'[q].rob_index].sq_index[SQ'[q].data_index] = q
               /\ SQ'[q].address = trace'[ROB'[SQ'[q].rob_index].id]
                                     .destination_memory[SQ'[q].data_index],
                \A x \in Slots : \A j \in DOMAIN ROB'[x].sq_index :
                  ROB'[x].sq_index[j] # NONE =>
                    /\ SQ'[ROB'[x].sq_index[j]].id = ROB'[x].id
                    /\ SQ'[ROB'[x].sq_index[j]].data_index = j
        PROVE SQLinked'
    BY <2>3 DEF SQLinked, Stores, Instr
  <2> QED BY <2>2, <2>3, <1>12, <1>13
<1> QED BY <1>11, <1>14


\* An instruction whose operands and their entries stay counts them as before;
\* it may complete when there are none left.
LEMMA CountedKept ==
  ASSUME NEW x \in Slots, Counted(x), trace' = trace,
         ROB'[x].id = ROB[x].id, ROB'[x].num_mem_ops = ROB[x].num_mem_ops,
         ROB'[x].lq_index = ROB[x].lq_index, ROB'[x].sq_index = ROB[x].sq_index,
         \/ ROB'[x].executed = ROB[x].executed
         \/ ~is_memory(x)
         \/ ROB[x].executed = "INFLIGHT" /\ ROB[x].num_mem_ops = 0,
         Occupied(x) => LoadsOf(x)' = LoadsOf(x) /\ StoresOf(x)' = StoresOf(x)
  PROVE  Counted(x)'
<1>1. /\ Occupied(x)' <=> Occupied(x)
      /\ is_memory(x)' <=> is_memory(x)
      /\ LoadsLeft(x)' = LoadsLeft(x) /\ StoresLeft(x)' = StoresLeft(x)
  BY DEF Occupied, is_memory, LoadsLeft, StoresLeft, Loads, Stores, Instr
<1> QED BY <1>1 DEF Counted

\* Distinct places for the members of a finite set are as many as they are.
LEMMA ManyPlaces ==
  ASSUME NEW J, IsFiniteSet(J), NEW f, f = [j \in J |-> f[j]],
         \A j, k \in J : f[j] = f[k] => j = k
  PROVE  /\ IsFiniteSet({f[j] : j \in J})
         /\ Cardinality({f[j] : j \in J}) = Cardinality(J)
<1> DEFINE P == {f[j] : j \in J}
<1>1. f \in Bijection(J, P)
  <2>1. f \in [J -> P]
    OBVIOUS
  <2>2. \A p \in P : \E j \in J : f[j] = p
    OBVIOUS
  <2> HIDE DEF P
  <2> QED BY <2>1, <2>2 DEF Bijection, Injection, Surjection, IsInjective
<1>2. ExistsBijection(J, P)
  BY <1>1 DEF ExistsBijection
<1> QED BY <1>2, FS_Bijection, FS_CardinalityType

\* Two finite sets that have nothing in common.
LEMMA CountedTogether ==
  ASSUME NEW S, NEW T, IsFiniteSet(S), IsFiniteSet(T), S \cap T = {}
  PROVE  /\ IsFiniteSet(S \cup T) /\ Cardinality(S) \in Nat
         /\ Cardinality(T) \in Nat
         /\ Cardinality(S \cup T) = Cardinality(S) + Cardinality(T)
<1>1. Cardinality(S \cup T) =
        Cardinality(S) + Cardinality(T) - Cardinality(S \cap T)
      /\ IsFiniteSet(S \cup T)
  BY FS_Union
<1>2. Cardinality(S \cap T) = 0 /\ Cardinality(S) \in Nat /\ Cardinality(T) \in Nat
  BY FS_EmptySet, FS_CardinalityType
<1> QED BY <1>1, <1>2

\* A part of a finite set, and the rest of it.
LEMMA CountedApart ==
  ASSUME NEW S, NEW T, IsFiniteSet(S), T \subseteq S
  PROVE  /\ IsFiniteSet(T) /\ IsFiniteSet(S \ T) /\ Cardinality(S) \in Nat
         /\ Cardinality(T) \in Nat /\ Cardinality(S \ T) \in Nat
         /\ Cardinality(S) = Cardinality(T) + Cardinality(S \ T)
<1>1. IsFiniteSet(T) /\ IsFiniteSet(S \ T)
  BY FS_Subset
<1>2. T \cap (S \ T) = {} /\ T \cup (S \ T) = S
  OBVIOUS
<1>3. Cardinality(S) = Cardinality(T) + Cardinality(S \ T)
  BY <1>1, <1>2, CountedTogether
<1> QED BY <1>1, <1>3, FS_CardinalityType

\* What slot s has left to enter once it has entered LQ and SQ, and where its
\* loads are then.
LEMMA EnteredOperands ==
  ASSUME CoreInv, MemInv, NEW s, Enters(s)
  PROVE  /\ LoadsLeft(s)' = LoadsLeft(s) \ LoadsAdded(s)
         /\ StoresLeft(s)' = StoresLeft(s) \ StoresAdded(s)
         /\ LoadsOf(s)' = LoadsOf(s) \cup
              {lq_index(s, j) : j \in LoadsAdded(s) \cap Staying(s)}
         /\ StoresOf(s)' = StoresOf(s)
         /\ \A j \in LoadsAdded(s) : lq_index(s, j) \notin LoadsOf(s)
         /\ \A x \in Slots \ {s} :
              /\ LoadsLeft(x)' = LoadsLeft(x) /\ StoresLeft(x)' = StoresLeft(x)
              /\ LoadsOf(x)' = LoadsOf(x)
              /\ Occupied(x) => StoresOf(x)' = StoresOf(x)
<1> DEFINE J == LoadsAdded(s) \cap Staying(s)
           A == StoresAdded(s)
<1>0. /\ s \in Slots /\ Occupied(s) /\ trace' = trace /\ LQLinked /\ SQLinked
      /\ SQRing /\ RobTypes /\ Ring
  BY DEF Enters, frontend, MemInv, CoreInv
<1>1. PICK c \in 0 .. SQ_SIZE : RingOf(c)
  BY <1>0 DEF SQRing
<1>2. EntersROB(s)
  BY <1>0, EnteringROB
<1>3. EntersQueues(s)
  BY <1>1, EnteringQueues
<1>4. /\ LoadsAdded(s) \subseteq LoadsLeft(s)
      /\ \A j \in LoadsAdded(s) : lq_index(s, j) \in FreeLQ
  BY <1>0, LoadPlaces
<1>5. /\ A \subseteq StoresLeft(s) /\ \A j \in A : sq_index(s, j) \in FreeSQ
  BY <1>0, <1>1, StorePlaces
<1>6. /\ DOMAIN ROB[s].lq_index = DOMAIN Loads(s)
      /\ DOMAIN ROB[s].sq_index = DOMAIN Stores(s)
  BY <1>0, OperandFacts
<1>7. \A x \in Slots : ROB'[x].id = ROB[x].id
  BY <1>2 DEF EntersROB
<1>8. \A x \in Slots : Loads(x)' = Loads(x) /\ Stores(x)' = Stores(x)
  BY <1>0, <1>7, SameInstructions
<1>9. \A l \in FreeLQ : LQ[l].rob_index = NONE /\ l \in LQSlots /\ l # NONE
  BY <1>0 DEF FreeLQ, LQLinked, NoLSQEntry, LQSlots, NONE
<1>10. \A q \in FreeSQ : q \in SQSlots /\ q # NONE
  BY DEF FreeSQ, SQSlots, NONE
<1>11. \A x \in Slots : x # NONE
  BY DEF Slots, NONE
<1>12. LoadsLeft(s)' = LoadsLeft(s) \ LoadsAdded(s)
  <2>1. \A j \in DOMAIN Loads(s) : ROB'[s].lq_index[j] =
          IF j \in LoadsAdded(s) THEN lq_index(s, j) ELSE ROB[s].lq_index[j]
    BY <1>2, <1>6 DEF EntersROB
  <2>2. LoadsLeft(s)' = {j \in DOMAIN Loads(s) : ROB'[s].lq_index[j] = NONE}
    BY <1>0, <1>8 DEF LoadsLeft
  <2>3. \A j \in LoadsAdded(s) : lq_index(s, j) # NONE
    BY <1>4, <1>9
  <2> QED BY <2>1, <2>2, <2>3, <1>4 DEF LoadsLeft
<1>13. \A j \in DOMAIN Stores(s) : ROB'[s].sq_index[j] =
          IF j \in A THEN sq_index(s, j) ELSE ROB[s].sq_index[j]
  BY <1>2, <1>6 DEF EntersROB
<1>14. StoresLeft(s)' = StoresLeft(s) \ A
  <2>2. StoresLeft(s)' = {j \in DOMAIN Stores(s) : ROB'[s].sq_index[j] = NONE}
    BY <1>0, <1>8 DEF StoresLeft
  <2>3. \A j \in A : sq_index(s, j) # NONE
    BY <1>5, <1>10
  <2> QED BY <1>13, <2>2, <2>3, <1>5 DEF StoresLeft
<1>15. \A j \in LoadsAdded(s) : lq_index(s, j) \notin LoadsOf(s)
  BY <1>0, <1>4, <1>9, <1>11 DEF LoadsOf
<1>16. /\ \A j \in J : lq_index(s, j) \in FreeLQ /\ LQ'[lq_index(s, j)].rob_index = s
       /\ \A l \in LQSlots : (\E j \in J : l = lq_index(s, j)) \/ LQ'[l] = LQ[l]
  <2>1. /\ \A j \in J : LQ'[lq_index(s, j)] =
               [id |-> ROB[s].id, address |-> Loads(s)[j], rob_index |-> s,
                data_index |-> j, producer |-> Producer(s, Loads(s)[j]),
                fetched |-> "no"]
        /\ \A l \in LQSlots : (\E j \in J : l = lq_index(s, j)) \/ LQ'[l] = LQ[l]
    BY <1>3 DEF EntersQueues
  <2> HIDE DEF J
  <2>2. ASSUME NEW j \in J PROVE LQ'[lq_index(s, j)].rob_index = s
    <3>1. LQ'[lq_index(s, j)] =
               [id |-> ROB[s].id, address |-> Loads(s)[j], rob_index |-> s,
                data_index |-> j, producer |-> Producer(s, Loads(s)[j]),
                fetched |-> "no"]
      BY <2>1
    <3> QED BY <3>1
  <2>3. \A j \in J : lq_index(s, j) \in FreeLQ
    BY <1>4 DEF J
  <2> QED BY <2>1, <2>2, <2>3
<1> HIDE DEF J
<1>17. LoadsOf(s)' = LoadsOf(s) \cup {lq_index(s, j) : j \in J}
  <2>1. \A l \in LQSlots : LQ'[l].rob_index = s <=>
          LQ[l].rob_index = s \/ \E j \in J : l = lq_index(s, j)
    BY <1>0, <1>9, <1>11, <1>16
  <2> QED BY <2>1, <1>9, <1>16 DEF LoadsOf
<1>18. \A x \in Slots \ {s} : LoadsOf(x)' = LoadsOf(x)
  <2>1. \A x \in Slots \ {s} : \A l \in LQSlots :
          LQ'[l].rob_index = x <=> LQ[l].rob_index = x
    BY <1>0, <1>9, <1>11, <1>16
  <2> QED BY <2>1 DEF LoadsOf
<1>19. ASSUME NEW x \in Slots, NEW j \in DOMAIN Stores(x),
              ROB[x].sq_index[j] # NONE, j \in DOMAIN ROB[x].sq_index
       PROVE  SQ'[ROB[x].sq_index[j]] = SQ[ROB[x].sq_index[j]]
  <2> DEFINE q == ROB[x].sq_index[j]
  <2>1. q \in SQSlots
    <3>1. ROB[x].sq_index \in Seq(SQSlots \cup {NONE})
      BY <1>0, EntryFields
    <3> QED BY <3>1, <1>19, LenProperties, ElementOfSeq
  <2>2. SQ[q].id = ROB[x].id
    BY <1>0, <1>19 DEF SQLinked
  <2>3. ROB[x].id # NONE
    <3>1. ~Occupied(x) => ROB[x].sq_index = <<>>
      BY <1>0 DEF Ring
    <3> QED BY <3>1, <1>19 DEF Occupied
  <2> HIDE DEF q
  <2>4. q \notin FreeSQ
    BY <2>2, <2>3 DEF FreeSQ
  <2>5. \A i \in A : q # sq_index(s, i)
    BY <2>4, <1>5
  <2>6. (\E i \in A : q = sq_index(s, i)) \/ SQ'[q] = SQ[q]
    BY <2>1, <1>3 DEF EntersQueues
  <2> QED BY <2>5, <2>6 DEF q
<1>20. StoresOf(s)' = StoresOf(s)
  <2>1. StoresOf(s)' = {j \in DOMAIN Stores(s) :
            \/ ROB'[s].sq_index[j] = NONE
            \/ SQ'[ROB'[s].sq_index[j]].fetched # "COMPLETED"}
    BY <1>0, <1>8 DEF StoresOf
  <2>2. ASSUME NEW j \in A
        PROVE  j \in StoresOf(s) /\ SQ'[ROB'[s].sq_index[j]].fetched # "COMPLETED"
    <3>1. j \in DOMAIN Stores(s) /\ ROB[s].sq_index[j] = NONE
      BY <1>5 DEF StoresLeft
    <3>2. SQ'[sq_index(s, j)] =
              [id |-> ROB[s].id, address |-> Stores(s)[j], rob_index |-> s,
               data_index |-> j, producer |-> NONE, fetched |-> "no"]
      BY <1>3 DEF EntersQueues
    <3> QED BY <3>1, <3>2, <1>13 DEF StoresOf
  <2>3. ASSUME NEW j \in DOMAIN Stores(s), j \notin A
        PROVE  /\ ROB'[s].sq_index[j] = ROB[s].sq_index[j]
               /\ ROB[s].sq_index[j] # NONE =>
                    SQ'[ROB[s].sq_index[j]] = SQ[ROB[s].sq_index[j]]
    BY <2>3, <1>0, <1>6, <1>13, <1>19
  <2> HIDE DEF A
  <2> QED BY <2>1, <2>2, <2>3 DEF StoresOf
<1>21. ASSUME NEW x \in Slots \ {s}
       PROVE  /\ LoadsLeft(x)' = LoadsLeft(x) /\ StoresLeft(x)' = StoresLeft(x)
              /\ Occupied(x) => StoresOf(x)' = StoresOf(x)
  <2>1. ROB'[x].lq_index = ROB[x].lq_index /\ ROB'[x].sq_index = ROB[x].sq_index
    BY <1>2 DEF EntersROB
  <2>2. /\ LoadsLeft(x)' = {j \in DOMAIN Loads(x) : ROB[x].lq_index[j] = NONE}
        /\ StoresLeft(x)' = {j \in DOMAIN Stores(x) : ROB[x].sq_index[j] = NONE}
        /\ StoresOf(x)' = {j \in DOMAIN Stores(x) :
            \/ ROB[x].sq_index[j] = NONE
            \/ SQ'[ROB[x].sq_index[j]].fetched # "COMPLETED"}
    BY <2>1, <1>8 DEF LoadsLeft, StoresLeft, StoresOf
  <2>3. ASSUME Occupied(x) PROVE StoresOf(x)' = StoresOf(x)
    <3>1. DOMAIN ROB[x].sq_index = DOMAIN Stores(x)
      BY <2>3, <1>0 DEF Ring
    <3>2. \A j \in DOMAIN Stores(x) : ROB[x].sq_index[j] # NONE =>
            SQ'[ROB[x].sq_index[j]] = SQ[ROB[x].sq_index[j]]
      BY <3>1, <1>19
    <3> QED BY <2>2, <3>2 DEF StoresOf
  <2> QED BY <2>2, <2>3 DEF LoadsLeft, StoresLeft
<1> QED BY <1>12, <1>14, <1>15, <1>17, <1>18, <1>20, <1>21 DEF J

\* Entering LQ and SQ keeps the count of operands.
LEMMA EnterCounts ==
  ASSUME CoreInv, MemInv, NEW s, Enters(s)
  PROVE  MemoryCounted'
<1> DEFINE L == LoadsLeft(s)
           N == LoadsAdded(s)
           J == N \cap Staying(s)
           O == LoadsOf(s)
           P == {lq_index(s, j) : j \in J}
           S == StoresOf(s)
<1>0. /\ s \in Slots /\ Occupied(s) /\ trace' = trace /\ MemoryCounted /\ SQRing
      /\ RobTypes
  BY DEF Enters, frontend, MemInv, CoreInv
<1>1. EntersROB(s)
  BY <1>0, EnteringROB
<1>2. /\ LoadsLeft(s)' = L \ N /\ StoresLeft(s)' = StoresLeft(s) \ StoresAdded(s)
      /\ LoadsOf(s)' = O \cup P /\ StoresOf(s)' = S
      /\ \A j \in N : lq_index(s, j) \notin O
      /\ \A x \in Slots \ {s} :
              /\ LoadsLeft(x)' = LoadsLeft(x) /\ StoresLeft(x)' = StoresLeft(x)
              /\ LoadsOf(x)' = LoadsOf(x)
              /\ Occupied(x) => StoresOf(x)' = StoresOf(x)
  BY EnteredOperands
<1>3. IsFiniteSet(L) /\ IsFiniteSet(O) /\ IsFiniteSet(S)
  BY <1>0, OperandFacts
<1>4. N \subseteq L /\ \A j, k \in J : lq_index(s, j) = lq_index(s, k) => j = k
  BY <1>0, LoadPlaces
<1>5. ASSUME NEW x \in Slots, x # s PROVE Counted(x)'
  <2>1. /\ Counted(x) /\ ROB'[x].id = ROB[x].id
        /\ ROB'[x].num_mem_ops = ROB[x].num_mem_ops
        /\ ROB'[x].lq_index = ROB[x].lq_index /\ ROB'[x].sq_index = ROB[x].sq_index
        /\ ROB'[x].executed = ROB[x].executed
    BY <1>0, <1>1, <1>5 DEF MemoryCounted, EntersROB
  <2>2. Occupied(x) => LoadsOf(x)' = LoadsOf(x) /\ StoresOf(x)' = StoresOf(x)
    BY <1>2, <1>5
  <2> QED BY <2>1, <2>2, <1>0, CountedKept
<1>6. Counted(s)'
  <2> DEFINE n == Cardinality(N \ Staying(s))
             f == [j \in J |-> lq_index(s, j)]
  <2>1. /\ ROB[s].num_mem_ops = Cardinality(L) + Cardinality(O) + Cardinality(S)
        /\ is_memory(s) /\ ROB[s].executed # "no" => L = {} /\ StoresLeft(s) = {}
        /\ is_memory(s) /\ ROB[s].executed = "COMPLETED" =>
             ROB[s].num_mem_ops = 0
    BY <1>0 DEF MemoryCounted, Counted
  <2>2. /\ IsFiniteSet(L \ N) /\ IsFiniteSet(N) /\ Cardinality(N) \in Nat
        /\ Cardinality(L \ N) \in Nat
        /\ Cardinality(L) = Cardinality(N) + Cardinality(L \ N)
    BY <1>3, <1>4, CountedApart
  <2>3. /\ IsFiniteSet(J) /\ Cardinality(J) \in Nat /\ n \in Nat
        /\ Cardinality(N) = Cardinality(J) + n
    <3>1. J \subseteq N /\ N \ J = N \ Staying(s)
      OBVIOUS
    <3> HIDE DEF J, N
    <3>2. /\ IsFiniteSet(J) /\ Cardinality(J) \in Nat /\ Cardinality(N \ J) \in Nat
          /\ Cardinality(N) = Cardinality(J) + Cardinality(N \ J)
      BY <3>1, <2>2, CountedApart
    <3> QED BY <3>1, <3>2
  <2>4. IsFiniteSet(P) /\ Cardinality(P) = Cardinality(J)
    <3>1. {f[j] : j \in J} = P /\ f = [j \in J |-> f[j]]
      OBVIOUS
    <3>2. \A j, k \in J : f[j] = f[k] => j = k
      BY <1>4
    <3> HIDE DEF f, P, J
    <3> QED BY <3>1, <3>2, <2>3, ManyPlaces
  <2>5. /\ Cardinality(O \cup P) = Cardinality(O) + Cardinality(P)
        /\ Cardinality(O) \in Nat
    <3>1. O \cap P = {}
      BY <1>2
    <3> HIDE DEF O, P
    <3> QED BY <3>1, <2>4, <1>3, CountedTogether
  <2>6. Cardinality(S) \in Nat
    BY <1>3, FS_CardinalityType
  <2>7. ROB'[s].num_mem_ops = ROB[s].num_mem_ops - n
    BY <1>1 DEF EntersROB
  <2> HIDE DEF n, N, L, O, P, S, J
  <2>8. ROB'[s].num_mem_ops =
          Cardinality(L \ N) + Cardinality(O \cup P) + Cardinality(S)
    BY <2>1, <2>2, <2>3, <2>4, <2>5, <2>6, <2>7
  <2>9. /\ Occupied(s)' /\ (is_memory(s)' <=> is_memory(s))
        /\ Loads(s)' = Loads(s) /\ Stores(s)' = Stores(s)
    <3>1. \A x \in Slots : ROB'[x].id = ROB[x].id
      BY <1>1 DEF EntersROB
    <3> QED BY <3>1, <1>0, SameInstructions
  <2>10. ASSUME is_memory(s), ROB'[s].executed # "no"
         PROVE  L \ N = {} /\ StoresLeft(s)' = {}
    <3>1. CASE ROB[s].executed # "no"
      BY <3>1, <2>1, <2>10, <1>2
    <3>2. CASE ROB[s].executed = "no"
      <4>1. /\ \A j \in DOMAIN ROB'[s].lq_index : ROB'[s].lq_index[j] # NONE
            /\ \A j \in DOMAIN ROB'[s].sq_index : ROB'[s].sq_index[j] # NONE
        BY <3>2, <2>10, <1>1 DEF EntersROB
      <4>2. /\ DOMAIN ROB'[s].lq_index = DOMAIN Loads(s)
            /\ DOMAIN ROB'[s].sq_index = DOMAIN Stores(s)
        BY <1>0, <1>1, OperandFacts DEF EntersROB
      <4>3. LoadsLeft(s)' = {} /\ StoresLeft(s)' = {}
        BY <4>1, <4>2, <2>9 DEF LoadsLeft, StoresLeft
      <4> QED BY <4>3, <1>2
    <3> QED BY <3>1, <3>2
  <2>11. ASSUME is_memory(s), ROB'[s].executed = "COMPLETED"
         PROVE  ROB'[s].num_mem_ops = 0
    <3>1. ROB[s].executed = "COMPLETED"
      BY <2>11, <1>1 DEF EntersROB
    <3>2. L = {} /\ ROB[s].num_mem_ops = 0
      BY <3>1, <2>1, <2>11
    <3>3. N = {}
      BY <3>2, <1>4
    <3>4. Cardinality(N) = 0
      BY <3>3, FS_EmptySet
    <3> QED BY <3>2, <3>4, <2>3, <2>7
  <2> QED BY <2>8, <2>9, <2>10, <2>11, <1>2 DEF Counted
<1> QED BY <1>5, <1>6 DEF MemoryCounted

\* Entering LQ and SQ keeps the ready queues exact.
LEMMA EnterReady ==
  ASSUME CoreInv, MemInv, NEW s, Enters(s)
  PROVE  LSQReady'
<1> DEFINE J == LoadsAdded(s) \cap Staying(s)
           A == StoresAdded(s)
           K == {k \in J : Producer(s, Loads(s)[k]) = NONE}
<1>0. /\ s \in Slots /\ Occupied(s) /\ SQRing /\ LSQReady /\ l1d' = l1d
      /\ l1d \subseteq LQSlots
  BY DEF Enters, MemInv, CoreInv, MemoryTypes
<1>1. PICK c \in 0 .. SQ_SIZE : RingOf(c)
  BY <1>0 DEF SQRing
<1>2. EntersQueues(s)
  BY <1>1, EnteringQueues
<1>3. /\ \A j \in J : LQ'[lq_index(s, j)] =
              [id |-> ROB[s].id, address |-> Loads(s)[j], rob_index |-> s,
               data_index |-> j, producer |-> Producer(s, Loads(s)[j]),
               fetched |-> "no"]
      /\ \A l \in LQSlots : (\E j \in J : l = lq_index(s, j)) \/ LQ'[l] = LQ[l]
      /\ \A j \in A : SQ'[sq_index(s, j)] =
              [id |-> ROB[s].id, address |-> Stores(s)[j], rob_index |-> s,
               data_index |-> j, producer |-> NONE, fetched |-> "no"]
      /\ \A q \in SQSlots : (\E j \in A : q = sq_index(s, j)) \/ SQ'[q] = SQ[q]
      /\ Elements(RTL0') = Elements(RTL0) \cup {lq_index(s, j) : j \in K}
      /\ Once(RTL0) /\ Elements(RTL0) \cap FreeLQ = {} => Once(RTL0')
      /\ Elements(RTS0') = Elements(RTS0) \cup {sq_index(s, j) : j \in A}
      /\ Once(RTS0) /\ Elements(RTS0) \cap FreeSQ = {} => Once(RTS0')
  BY <1>2 DEF EntersQueues
<1>4. /\ \A j \in J : lq_index(s, j) \in FreeLQ
      /\ \A j, k \in J : lq_index(s, j) = lq_index(s, k) => j = k
  BY <1>0, LoadPlaces
<1>5. \A j \in A : sq_index(s, j) \in FreeSQ
  BY <1>0, <1>1, StorePlaces
<1>6. ROB[s].id # NONE
  BY <1>0 DEF Occupied
<1>7. /\ Once(RTL0) /\ Once(RTS0)
      /\ \A l : l \in Elements(RTL0) <=>
           /\ l \in LQSlots /\ LQ[l].id # NONE /\ LQ[l].producer = NONE
           /\ LQ[l].fetched = "no"
      /\ \A q : q \in Elements(RTS0) <=>
           q \in SQSlots /\ SQ[q].id # NONE /\ SQ[q].fetched = "no"
      /\ \A l \in l1d : /\ LQ[l].id # NONE /\ LQ[l].producer = NONE
                        /\ LQ[l].fetched = "INFLIGHT"
  BY <1>0 DEF LSQReady
<1>8. Once(RTL0') /\ Once(RTS0')
  BY <1>3, <1>7 DEF FreeLQ, FreeSQ
<1> HIDE DEF J, A
<1>9. ASSUME NEW l \in LQSlots
      PROVE  l \in Elements(RTL0') <=>
               /\ LQ'[l].id # NONE /\ LQ'[l].producer = NONE
               /\ LQ'[l].fetched = "no"
  <2>1. CASE \E j \in J : l = lq_index(s, j)
    <3>1. PICK j \in J : l = lq_index(s, j)
      BY <2>1
    <3>2. LQ'[l] = [id |-> ROB[s].id, address |-> Loads(s)[j], rob_index |-> s,
               data_index |-> j, producer |-> Producer(s, Loads(s)[j]),
               fetched |-> "no"]
      BY <3>1, <1>3
    <3>3. LQ'[l].id # NONE /\ LQ'[l].fetched = "no"
          /\ LQ'[l].producer = Producer(s, Loads(s)[j])
      BY <3>2, <1>6
    <3>4. l \in {lq_index(s, k) : k \in K} <=> Producer(s, Loads(s)[j]) = NONE
      BY <3>1, <1>4
    <3>5. l \notin Elements(RTL0)
      BY <3>1, <1>4, <1>7 DEF FreeLQ
    <3> HIDE DEF K
    <3> QED BY <3>3, <3>4, <3>5, <1>3
  <2>2. CASE ~ \E j \in J : l = lq_index(s, j)
    <3>1. LQ'[l] = LQ[l]
      BY <2>2, <1>3
    <3>2. l \notin {lq_index(s, k) : k \in K}
      BY <2>2
    <3> HIDE DEF K
    <3> QED BY <3>1, <3>2, <1>3, <1>7
  <2> QED BY <2>1, <2>2
<1>10. ASSUME NEW q \in SQSlots
       PROVE  q \in Elements(RTS0') <=> SQ'[q].id # NONE /\ SQ'[q].fetched = "no"
  <2>1. CASE \E j \in A : q = sq_index(s, j)
    <3>1. PICK j \in A : q = sq_index(s, j)
      BY <2>1
    <3>2. SQ'[q] = [id |-> ROB[s].id, address |-> Stores(s)[j], rob_index |-> s,
               data_index |-> j, producer |-> NONE, fetched |-> "no"]
      BY <3>1, <1>3
    <3>3. SQ'[q].id # NONE /\ SQ'[q].fetched = "no"
      BY <3>2, <1>6
    <3> QED BY <3>1, <3>3, <1>3
  <2>2. CASE ~ \E j \in A : q = sq_index(s, j)
    <3>1. SQ'[q] = SQ[q]
      BY <2>2, <1>3
    <3>2. q \notin {sq_index(s, k) : k \in A}
      BY <2>2
    <3> QED BY <3>1, <3>2, <1>3, <1>7
  <2> QED BY <2>1, <2>2
<1>11. ASSUME NEW l \in l1d
       PROVE  /\ LQ'[l].id # NONE /\ LQ'[l].producer = NONE
              /\ LQ'[l].fetched = "INFLIGHT"
  <2>1. l \in LQSlots /\ l \notin FreeLQ
    BY <1>0, <1>7 DEF FreeLQ
  <2>2. LQ'[l] = LQ[l]
    BY <2>1, <1>3, <1>4
  <2> QED BY <2>2, <1>7
<1>12. /\ Elements(RTL0') \subseteq LQSlots /\ Elements(RTS0') \subseteq SQSlots
  <2>1. /\ \A j \in K : lq_index(s, j) \in LQSlots
        /\ \A j \in A : sq_index(s, j) \in SQSlots
    BY <1>4, <1>5 DEF FreeLQ, FreeSQ
  <2> HIDE DEF K
  <2> QED BY <2>1, <1>3, <1>7
<1>13. /\ Elements(RTL0') = {l \in LQSlots : /\ LQ'[l].id # NONE
                                             /\ LQ'[l].producer = NONE
                                             /\ LQ'[l].fetched = "no"}
       /\ Elements(RTS0') = {q \in SQSlots : /\ SQ'[q].id # NONE
                                             /\ SQ'[q].fetched = "no"}
  BY <1>9, <1>10, <1>12
<1>14. Elements(RTL0)' = Elements(RTL0') /\ Elements(RTS0)' = Elements(RTS0')
       /\ (Once(RTL0)' <=> Once(RTL0')) /\ (Once(RTS0)' <=> Once(RTS0'))
  BY DEF Elements, Once
<1> QED BY <1>0, <1>8, <1>11, <1>13, <1>14 DEF LSQReady

\* A queue of numbers that loses its first k.
Drop(q, k) == SubSeq(q, k + 1, Len(q))

\* What is left, and where it was.
LEMMA Dropped ==
  ASSUME NEW q \in Seq(Nat), NEW k \in 0 .. Len(q)
  PROVE  /\ Drop(q, k) \in Seq(Nat) /\ Len(Drop(q, k)) = Len(q) - k
         /\ DOMAIN Drop(q, k) = 1 .. Len(q) - k
         /\ \A i \in DOMAIN Drop(q, k) :
              i + k \in DOMAIN q /\ Drop(q, k)[i] = q[i + k]
         /\ \A n : /\ IsFiniteSet(Where(q, n))
                   /\ Cardinality(Where(Drop(q, k), n)) =
                        Cardinality(Where(q, n) \ 1 .. k)
<1> DEFINE m == Len(q)
           d == Drop(q, k)
<1>1. m \in Nat /\ DOMAIN q = 1 .. m /\ k \in Nat /\ k <= m
  BY LenProperties
<1>2. \A i \in 1 .. m : q[i] \in Nat
  BY ElementOfSeq
<1>3. /\ SubSeq(q, k + 1, m) \in Seq(Nat) /\ Len(SubSeq(q, k + 1, m)) = m - k
      /\ \A i \in 1 .. m - k : SubSeq(q, k + 1, m)[i] = q[k + i]
  <2> DEFINE a == k + 1
  <2>1. a \in Int /\ m \in Int /\ \A i \in a .. m : q[i] \in Nat
    BY <1>1, <1>2
  <2> HIDE DEF a, m
  <2>2. /\ SubSeq(q, a, m) \in Seq(Nat)
        /\ Len(SubSeq(q, a, m)) = IF a <= m THEN m - a + 1 ELSE 0
        /\ \A i \in 1 .. m - a + 1 : SubSeq(q, a, m)[i] = q[a + i - 1]
    BY <2>1, SubSeqProperties
  <2>3. (IF a <= m THEN m - a + 1 ELSE 0) = m - k
    BY <1>1 DEF a
  <2>4. \A i \in 1 .. m - k : i \in 1 .. m - a + 1 /\ a + i - 1 = k + i
    BY <1>1 DEF a
  <2> QED BY <2>2, <2>3, <2>4 DEF a
<1> HIDE DEF m
<1>4. /\ d \in Seq(Nat) /\ Len(d) = m - k /\ DOMAIN d = 1 .. m - k
      /\ m - k \in Nat /\ \A i \in 1 .. m - k : d[i] = q[k + i]
  <2>1. d \in Seq(Nat) /\ Len(d) = m - k /\ \A i \in 1 .. m - k : d[i] = q[k + i]
    BY <1>3 DEF Drop, m
  <2>2. m - k \in Nat
    BY <1>1
  <2> HIDE DEF d
  <2> QED BY <2>1, <2>2, LenProperties
<1> HIDE DEF d
<1>5. \A i \in DOMAIN d : i + k \in DOMAIN q /\ d[i] = q[i + k]
  <2> TAKE i \in DOMAIN d
  <2>1. i \in 1 .. m - k /\ i + k = k + i /\ i + k \in 1 .. m
    <3>1. i \in 1 .. m - k
      BY <1>4
    <3> QED BY <3>1, <1>1
  <2> QED BY <2>1, <1>1, <1>4
<1>6. ASSUME NEW n
      PROVE  /\ IsFiniteSet(Where(q, n))
             /\ Cardinality(Where(d, n)) = Cardinality(Where(q, n) \ 1 .. k)
  <2> DEFINE D == {i \in DOMAIN d : d[i] = n}
             Q == {i \in DOMAIN q : q[i] = n}
             f == [i \in D |-> i + k]
  <2>1. IsFiniteSet(1 .. m) /\ IsFiniteSet(1 .. m - k)
    <3>1. 1 \in Int /\ m \in Int /\ m - k \in Int
      BY <1>1, <1>4
    <3> QED BY <3>1, FS_Interval
  <2>2. IsFiniteSet(Q) /\ IsFiniteSet(D)
    BY <2>1, <1>1, <1>4, FS_Subset
  <2>3. \A i \in D : i \in Int /\ i >= 1 /\ f[i] \in Q \ 1 .. k
    <3> TAKE i \in D
    <3>1. i \in 1 .. m - k /\ i + k \in DOMAIN q /\ q[i + k] = n
      BY <1>4, <1>5
    <3>2. i \in Int /\ i >= 1 /\ i + k \notin 1 .. k
      <4>1. i \in Int /\ i >= 1
        BY <3>1
      <4> QED BY <4>1, <1>1
    <3> QED BY <3>1, <3>2
  <2>4. \A i, j \in D : f[i] = f[j] => i = j
    BY <2>3, <1>1
  <2>5. \A j \in Q \ 1 .. k : \E i \in D : f[i] = j
    <3> TAKE j \in Q \ 1 .. k
    <3>1. j \in 1 .. m /\ q[j] = n /\ ~(j <= k) /\ j \in Int
      BY <1>1
    <3>2. j - k \in 1 .. m - k /\ (j - k) + k = j
      BY <3>1, <1>1
    <3>3. j - k \in DOMAIN d
      BY <3>2, <1>3, <1>4
    <3>4. d[j - k] = n
      BY <3>1, <3>2, <3>3, <1>5
    <3>5. j - k \in D /\ f[j - k] = j
      BY <3>2, <3>3, <3>4
    <3> QED BY <3>5
  <2> DEFINE R == Q \ 1 .. k
  <2>6. f \in [D -> R]
    BY <2>3
  <2>7. f \in Bijection(D, R)
    <3> HIDE DEF f, D, R
    <3>1. (\A i, j \in D : f[i] = f[j] => i = j) /\ \A j \in R : \E i \in D : f[i] = j
      BY <2>4, <2>5 DEF R
    <3> QED BY <3>1, <2>6 DEF Bijection, Injection, Surjection, IsInjective
  <2>8. ExistsBijection(D, R)
    BY <2>7 DEF ExistsBijection
  <2>9. Cardinality(R) = Cardinality(D)
    <3> HIDE DEF D, R
    <3> QED BY <2>2, <2>8, FS_Bijection
  <2> QED BY <2>2, <2>9 DEF Where
<1> QED BY <1>4, <1>5, <1>6 DEF m, d

\* The numbers from 1 to n are n, and a set of them has n members at most.
LEMMA IntervalSize ==
  ASSUME NEW n \in Nat
  PROVE  IsFiniteSet(1 .. n) /\ Cardinality(1 .. n) = n
<1>1. 1 \in Int /\ n \in Int
  OBVIOUS
<1>2. IsFiniteSet(1 .. n) /\ Cardinality(1 .. n) = IF 1 > n THEN 0 ELSE n - 1 + 1
  BY <1>1, FS_Interval, Zenon
<1> QED BY <1>2

\* A set of numbers up to n has n members at most.
LEMMA AtMost ==
  ASSUME NEW n \in Nat, NEW S, S \subseteq 1 .. n
  PROVE  Cardinality(S) <= n /\ Cardinality(S) \in Nat
<1>1. IsFiniteSet(1 .. n) /\ Cardinality(1 .. n) = n
  BY IntervalSize
<1>2. S \in SUBSET (1 .. n)
  OBVIOUS
<1> QED BY <1>1, <1>2, FS_Subset, FS_CardinalityType

\* In a queue in ascending order, what equals the head comes first.
LEMMA Leading ==
  ASSUME NEW q \in Seq(Nat), \A i, j \in DOMAIN q : i < j => q[i] <= q[j],
         q # <<>>, NEW k \in Nat,
         k <= Cardinality(Where(q, Head(q)))
  PROVE  k <= Len(q) /\ \A i \in 1 .. k : q[i] = Head(q)
<1> DEFINE Q == Where(q, Head(q))
<1>1. /\ Len(q) \in Nat /\ DOMAIN q = 1 .. Len(q) /\ Len(q) >= 1 /\ q[1] = Head(q)
      /\ \A i \in 1 .. Len(q) : q[i] \in Nat
  BY LenProperties, ElementOfSeq, HeadTailProperties, EmptySeq
<1>3. k <= Len(q)
  <2>1. Q \subseteq 1 .. Len(q)
    BY <1>1 DEF Where
  <2> HIDE DEF Q
  <2>2. Cardinality(Q) <= Len(q) /\ Cardinality(Q) \in Nat
    BY <2>1, <1>1, AtMost
  <2> QED BY <2>2, <1>1 DEF Q
<1>4. ASSUME NEW i \in 1 .. k, q[i] # Head(q) PROVE FALSE
  <2>1. i \in 1 .. Len(q) /\ i \in Nat /\ i - 1 \in Nat /\ 1 < i
    <3>1. i \in 1 .. Len(q)
      BY <1>1, <1>3
    <3>2. i # 1
      BY <1>1, <1>4
    <3> QED BY <3>1, <3>2
  <2>2. q[1] <= q[i] /\ q[i] # q[1] /\ q[i] \in Nat /\ q[1] \in Nat
    BY <2>1, <1>1, <1>4
  <2>3. \A j \in Q : j \in 1 .. i - 1
    <3> TAKE j \in Q
    <3>1. j \in 1 .. Len(q) /\ q[j] = q[1]
      BY <1>1 DEF Where
    <3>2. ~(i < j)
      <4> SUFFICES ASSUME i < j PROVE FALSE
        OBVIOUS
      <4>1. i \in DOMAIN q /\ j \in DOMAIN q
        BY <3>1, <2>1, <1>1
      <4>2. q[i] <= q[j]
        BY <4>1
      <4> QED BY <4>2, <3>1, <2>2
    <3>3. j # i
      BY <3>1, <2>2
    <3> QED BY <3>1, <3>2, <3>3, <2>1
  <2>4. Q \subseteq 1 .. i - 1
    BY <2>3
  <2> HIDE DEF Q
  <2>5. Cardinality(Q) <= i - 1 /\ Cardinality(Q) \in Nat
    BY <2>1, <2>4, AtMost
  <2>6. k <= Cardinality(Q)
    BY DEF Q
  <2> QED BY <2>1, <2>5, <2>6
<1> QED BY <1>3, <1>4

\* STA starts with the stores of an instruction, as many as it has not entered,
\* when it is its turn.
LEMMA StoresDue ==
  ASSUME CoreInv, StoresToCome, NEW s \in Slots, Occupied(s),
         NEW k \in 0 .. Cardinality(StoresLeft(s)), k # 0 => NextStore(s)
  PROVE  /\ k \in 0 .. Len(STA) /\ \A i \in 1 .. k : STA[i] = ROB[s].id
         /\ ROB[s].id \in num_retired .. instr_unique_id - 1
         /\ Owed(ROB[s].id) = StoresLeft(s)
<1> DEFINE n == ROB[s].id
<1>0. /\ FrontTypes /\ RobTypes /\ BuffersInOrder /\ Ring /\ STA \in Seq(Nat)
  BY DEF CoreInv, MemoryTypes
<1>1. /\ n \in Nat /\ num_retired <= n /\ n < Dispatched /\ slot(n) = s
  BY <1>0, OccupiedFacts
<1>2. /\ num_retired \in Nat /\ Dispatched \in Nat /\ instr_unique_id \in Nat
      /\ Dispatched <= instr_unique_id
  <2>1. /\ Dispatched \in Nat /\ num_retired \in Nat /\ instr_unique_id \in Nat
        /\ Len(IFETCH_BUFFER) \in Nat /\ Len(DECODE_BUFFER) \in Nat
        /\ Dispatched + Len(DECODE_BUFFER) + Len(IFETCH_BUFFER) = instr_unique_id
    BY <1>0, Numbers
  <2> QED BY <2>1
<1>3. Owed(n) = StoresLeft(s) /\ n \in num_retired .. instr_unique_id - 1
  BY <1>1, <1>2 DEF Owed
<1>4. Cardinality(Where(STA, n)) = Cardinality(StoresLeft(s))
  BY <1>3 DEF StoresToCome
<1>5. Len(STA) \in Nat /\ DOMAIN STA = 1 .. Len(STA)
  BY <1>0, LenProperties
<1>6. Cardinality(StoresLeft(s)) \in Nat
  BY OperandFacts, FS_CardinalityType
<1>7. CASE k = 0
  <2>1. k \in 0 .. Len(STA) /\ 1 .. k = {}
    BY <1>5, <1>7
  <2> QED BY <2>1, <1>3
<1>8. CASE k # 0
  <2>1. k \in Nat /\ k <= Cardinality(StoresLeft(s)) /\ Head(STA) = n
    BY <1>6, <1>8 DEF NextStore
  <2>2. STA # <<>>
    <3>1. ASSUME STA = <<>> PROVE FALSE
      <4>1. Where(STA, n) = {}
        BY <3>1, <1>5 DEF Where
      <4>2. Cardinality(Where(STA, n)) = 0
        BY <4>1, FS_EmptySet
      <4> QED BY <4>2, <2>1, <1>4, <1>8
    <3> QED BY <3>1
  <2>3. \A i, j \in DOMAIN STA : i < j => STA[i] <= STA[j]
    BY DEF StoresToCome
  <2>4. k <= Cardinality(Where(STA, Head(STA)))
    BY <2>1, <1>4
  <2>5. k <= Len(STA) /\ \A i \in 1 .. k : STA[i] = Head(STA)
    BY <2>1, <2>2, <2>3, <2>4, <1>0, Leading
  <2> QED BY <2>1, <2>5, <1>3, <1>5
<1> QED BY <1>7, <1>8

\* Entering SQ keeps it a ring in program order,
LEMMA EnterRing ==
  ASSUME CoreInv, MemInv, NEW s, Enters(s)
  PROVE  SQRing'
<1> DEFINE A == StoresAdded(s)
           L == StoresLeft(s)
           k == Cardinality(A)
           id == ROB[s].id
<1>0. /\ s \in Slots /\ Occupied(s) /\ SQRing /\ SQLinked /\ StoresToCome
      /\ SQ_head' = SQ_head /\ SQ_head \in SQSlots
      /\ RobTypes /\ FrontTypes /\ BuffersInOrder /\ Ring
      /\ STA \in Seq(Nat) /\ SQ \in [SQSlots -> LSQEntries]
  BY DEF Enters, MemInv, CoreInv, MemoryTypes
<1>1. PICK c \in 0 .. SQ_SIZE : RingOf(c)
  BY <1>0 DEF SQRing
<1>2. EntersQueues(s)
  BY <1>1, EnteringQueues
<1>3. /\ \A j \in A : SQ'[sq_index(s, j)] =
              [id |-> ROB[s].id, address |-> Stores(s)[j], rob_index |-> s,
               data_index |-> j, producer |-> NONE, fetched |-> "no"]
      /\ \A q \in SQSlots : (\E j \in A : q = sq_index(s, j)) \/ SQ'[q] = SQ[q]
  BY <1>2 DEF EntersQueues
<1>4. /\ A \subseteq L /\ IsFiniteSet(A) /\ A \in SUBSET Int
      /\ k \in Nat /\ k <= Cardinality(L) /\ c + k <= SQ_SIZE
      /\ \A j \in A : /\ Before(L, j) \in 0 .. k - 1
                      /\ sq_index(s, j) = at(c + Before(L, j))
                      /\ sq_index(s, j) \in FreeSQ
      /\ \A n \in 0 .. k - 1 : \E j \in A : Before(L, j) = n
  BY <1>0, <1>1, StorePlaces
<1>5. SQ_SIZE \in Nat \ {0} /\ c \in Nat
  BY CoreAssumption
<1>6. /\ L \in SUBSET Int /\ IsFiniteSet(L) /\ id \in Nat /\ id # NONE
  BY <1>0, OperandFacts DEF Occupied
<1>7. /\ \A j, m \in L : j < m => Before(L, j) < Before(L, m)
      /\ \A j, m \in L : Before(L, j) = Before(L, m) => j = m
      /\ Cardinality(L) \in Nat
  BY <1>6, BeforeRanks
<1>8. /\ \A i \in 0 .. SQ_SIZE - 1 : at(i) \in SQSlots
      /\ \A i, j \in 0 .. SQ_SIZE - 1 : at(i) = at(j) => i = j
  BY <1>0, Places
<1>10. /\ Live = {at(i) : i \in 0 .. c - 1}
       /\ \A i, j \in 0 .. c - 1 : i < j => Precedes(at(i), at(j))
  BY <1>1 DEF RingOf
<1> HIDE DEF A, L, k, id
<1>11. ASSUME NEW i \in 0 .. c - 1
       PROVE  at(i) \in SQSlots /\ at(i) \in Live /\ SQ'[at(i)] = SQ[at(i)]
  <2>1. i \in 0 .. SQ_SIZE - 1 /\ at(i) \in Live
    BY <1>5, <1>10
  <2>2. at(i) \in SQSlots /\ at(i) \notin FreeSQ
    BY <2>1, <1>8 DEF Live, FreeSQ
  <2> QED BY <2>1, <2>2, <1>3, <1>4
<1>12. ASSUME NEW i \in c .. c + k - 1
       PROVE  \E j \in A : /\ i = c + Before(L, j) /\ at(i) = sq_index(s, j)
                           /\ SQ'[at(i)].id = id /\ SQ'[at(i)].data_index = j
                           /\ at(i) \in SQSlots
  <2>1. i - c \in 0 .. k - 1 /\ c + (i - c) = i
    BY <1>4, <1>5
  <2>2. PICK j \in A : Before(L, j) = i - c
    BY <2>1, <1>4
  <2>3. i = c + Before(L, j) /\ at(i) = sq_index(s, j)
    BY <2>1, <2>2, <1>4
  <2>4. SQ'[at(i)] = [id |-> id, address |-> Stores(s)[j], rob_index |-> s,
               data_index |-> j, producer |-> NONE, fetched |-> "no"]
    BY <2>3, <1>3 DEF id
  <2>5. SQ'[at(i)].id = id /\ SQ'[at(i)].data_index = j
    BY <2>4
  <2>6. at(i) \in SQSlots
    BY <2>3, <1>4 DEF FreeSQ
  <2> QED BY <2>3, <2>5, <2>6
<1>13. \A i \in 0 .. c + k - 1 : i \in 0 .. c - 1 \/ i \in c .. c + k - 1
  BY <1>4, <1>5
<1>14. /\ \A i \in 0 .. c - 1 : i \in 0 .. c + k - 1
       /\ \A j \in A : c + Before(L, j) \in 0 .. c + k - 1
  BY <1>4, <1>5
<1>15. {q \in SQSlots : SQ'[q].id # NONE} = {at(i) : i \in 0 .. c + k - 1}
  <2>1. ASSUME NEW i \in 0 .. c + k - 1
        PROVE  at(i) \in SQSlots /\ SQ'[at(i)].id # NONE
    <3>1. CASE i \in 0 .. c - 1
      BY <3>1, <1>11 DEF Live
    <3>2. CASE i \in c .. c + k - 1
      BY <3>2, <1>12, <1>6 DEF id
    <3> QED BY <3>1, <3>2, <1>13
  <2>2. ASSUME NEW q \in SQSlots, SQ'[q].id # NONE
        PROVE  \E i \in 0 .. c + k - 1 : q = at(i)
    <3>1. CASE \E j \in A : q = sq_index(s, j)
      BY <3>1, <1>4, <1>14
    <3>2. CASE SQ'[q] = SQ[q]
      <4>1. q \in Live
        BY <3>2, <2>2 DEF Live
      <4> QED BY <4>1, <1>10, <1>14
    <3> QED BY <3>1, <3>2, <1>3
  <2> QED BY <2>1, <2>2
<1>16. ASSUME NEW i \in 0 .. c - 1, NEW m \in c .. c + k - 1
       PROVE  \/ SQ'[at(i)].id < SQ'[at(m)].id
              \/ /\ SQ'[at(i)].id = SQ'[at(m)].id
                 /\ SQ'[at(i)].data_index < SQ'[at(m)].data_index
  <2>1. PICK j \in A : SQ'[at(m)].id = id /\ SQ'[at(m)].data_index = j
    BY <1>12
  <2> DEFINE q == at(i)
  <2>2. q \in SQSlots /\ q \in Live /\ SQ'[q] = SQ[q]
    BY <1>11
  <2>3. NextStore(s)
    BY <2>1 DEF A, StoresAdded
  <2>4. SQ[q].id <= id
    <3>1. Cardinality(L) # 0
      <4>1. Before(L, j) \in Nat /\ Before(L, j) < k
        BY <2>1, <1>4
      <4> QED BY <4>1, <1>4, <1>7
    <3>2. 1 \in 0 .. Cardinality(L)
      BY <3>1, <1>7
    <3>3. 1 \in 0 .. Len(STA) /\ \A n \in 1 .. 1 : STA[n] = id
      BY <3>2, <2>3, <1>0, StoresDue DEF L, id
    <3>4. 1 \in DOMAIN STA /\ STA[1] = id
      BY <3>3, <1>0, LenProperties
    <3> QED BY <3>4, <2>2, <1>0 DEF StoresToCome
  <2>5. ASSUME SQ[q].id = id PROVE SQ[q].data_index < j
    <3> DEFINE d == SQ[q].data_index
    <3>1. /\ SQ[q].rob_index \in Slots /\ ROB[SQ[q].rob_index].id = id
          /\ d \in DOMAIN Stores(SQ[q].rob_index)
          /\ ROB[SQ[q].rob_index].sq_index[d] = q
      BY <2>2, <2>5, <1>0 DEF SQLinked, Live
    <3>2. SQ[q].rob_index = s
      BY <3>1, <1>0, OccupiedFacts DEF id
    <3>3. d \in DOMAIN Stores(s) /\ d \notin L /\ d \in Int
      <4>1. q # NONE
        BY <2>2 DEF SQSlots, NONE
      <4>2. DOMAIN Stores(s) \subseteq Int
        BY <1>0, OperandFacts
      <4> QED BY <4>1, <4>2, <3>1, <3>2 DEF L, StoresLeft
    <3>4. j \in L /\ j \in Int
      BY <2>1, <1>4
    <3>5. ~(j < d)
      BY <3>3, <3>4, <1>0 DEF StoresToCome, L
    <3>6. j # d
      BY <3>3, <3>4
    <3> QED BY <3>3, <3>4, <3>5, <3>6
  <2>6. SQ[q].id \in Int
    BY <2>2, <1>0 DEF LSQEntries, Ids, NONE
  <2> QED BY <2>1, <2>2, <2>4, <2>5, <2>6, <1>6 DEF id
<1>17. ASSUME NEW i \in 0 .. c + k - 1, NEW m \in 0 .. c + k - 1, i < m
       PROVE  \/ SQ'[at(i)].id < SQ'[at(m)].id
              \/ /\ SQ'[at(i)].id = SQ'[at(m)].id
                 /\ SQ'[at(i)].data_index < SQ'[at(m)].data_index
  <2>1. CASE m \in 0 .. c - 1
    <3>1. i \in 0 .. c - 1
      BY <2>1, <1>5, <1>17
    <3>2. Precedes(at(i), at(m))
      BY <2>1, <3>1, <1>10, <1>17
    <3> QED BY <2>1, <3>1, <3>2, <1>11 DEF Precedes
  <2>2. CASE m \in c .. c + k - 1 /\ i \in 0 .. c - 1
    BY <2>2, <1>16
  <2>3. CASE m \in c .. c + k - 1 /\ i \in c .. c + k - 1
    <3>1. PICK j \in A : /\ i = c + Before(L, j) /\ SQ'[at(i)].id = id
                         /\ SQ'[at(i)].data_index = j
      BY <2>3, <1>12
    <3>2. PICK n \in A : /\ m = c + Before(L, n) /\ SQ'[at(m)].id = id
                         /\ SQ'[at(m)].data_index = n
      BY <2>3, <1>12
    <3>3. Before(L, j) < Before(L, n)
      BY <3>1, <3>2, <1>4, <1>5, <1>17
    <3>4. j \in L /\ n \in L /\ j \in Int /\ n \in Int
          /\ Before(L, j) \in Int /\ Before(L, n) \in Int
      BY <1>4
    <3>5. ~(n < j) /\ n # j
      BY <3>3, <3>4, <1>7
    <3>6. j < n
      BY <3>4, <3>5
    <3> QED BY <3>1, <3>2, <3>6
  <2> QED BY <2>1, <2>2, <2>3, <1>13
<1>18. PICK n \in 0 .. SQ_SIZE : n = c + k
  BY <1>4, <1>5
<1>19. RingOf(n)'
  <2>0. 0 .. n - 1 = 0 .. c + k - 1
    <3>1. n - 1 = c + k - 1
      BY <1>4, <1>5, <1>18
    <3> QED BY <3>1
  <2>1. Live' = {q \in SQSlots : SQ'[q].id # NONE}
    BY DEF Live
  <2>2. \A i : at(i)' = at(i)
    BY <1>0 DEF at
  <2>3. \A i, m \in 0 .. n - 1 : i < m =>
           \/ SQ'[at(i)].id < SQ'[at(m)].id
           \/ /\ SQ'[at(i)].id = SQ'[at(m)].id
              /\ SQ'[at(i)].data_index < SQ'[at(m)].data_index
    BY <2>0, <1>17
  <2>4. Live' = {at(i) : i \in 0 .. n - 1}
    BY <2>0, <2>1, <1>15
  <2>5. (\A i, m \in 0 .. n - 1 : i < m => Precedes(at(i), at(m)))'
    BY <2>3, <1>0 DEF Precedes, at
  <2> QED BY <2>2, <2>4, <2>5 DEF RingOf
<1> QED BY <1>18, <1>19 DEF SQRing


\* and STA the stores to come.
LEMMA EnterStores ==
  ASSUME CoreInv, MemInv, NEW s, Enters(s)
  PROVE  StoresToCome'
<1> DEFINE A == StoresAdded(s)
           L == StoresLeft(s)
           k == Cardinality(A)
           id == ROB[s].id
<1>0. /\ s \in Slots /\ Occupied(s) /\ SQRing /\ StoresToCome
      /\ RobTypes /\ FrontTypes /\ BuffersInOrder /\ Ring /\ STA \in Seq(Nat)
      /\ UNCHANGED <<trace, instr_unique_id, num_retired>>
      /\ UNCHANGED <<IFETCH_BUFFER, DECODE_BUFFER>>
  BY DEF Enters, MemInv, CoreInv, MemoryTypes, frontend, retired
<1>1. PICK c \in 0 .. SQ_SIZE : RingOf(c)
  BY <1>0 DEF SQRing
<1>2. EntersQueues(s) /\ EntersROB(s)
  BY <1>0, <1>1, EnteringQueues, EnteringROB
<1>3. /\ \A j \in A : SQ'[sq_index(s, j)] =
              [id |-> ROB[s].id, address |-> Stores(s)[j], rob_index |-> s,
               data_index |-> j, producer |-> NONE, fetched |-> "no"]
      /\ \A q \in SQSlots : (\E j \in A : q = sq_index(s, j)) \/ SQ'[q] = SQ[q]
      /\ STA' = SubSeq(STA, k + 1, Len(STA))
  BY <1>2 DEF EntersQueues
<1>4. /\ A \subseteq L /\ IsFiniteSet(A) /\ A \in SUBSET Int
      /\ k \in Nat /\ k <= Cardinality(L)
      /\ \A i \in A, m \in L : m < i => m \in A
  BY <1>0, <1>1, StorePlaces
<1>5. k # 0 => NextStore(s)
  <2>1. ASSUME ~NextStore(s) PROVE k = 0
    <3>1. A = {}
      BY <2>1 DEF StoresAdded
    <3> QED BY <3>1, FS_EmptySet
  <2> QED BY <2>1
<1>6. L \in SUBSET Int /\ IsFiniteSet(L) /\ Cardinality(L) \in Nat
  BY <1>0, OperandFacts, FS_CardinalityType
<1>7. /\ k \in 0 .. Len(STA) /\ \A i \in 1 .. k : STA[i] = id
      /\ id \in num_retired .. instr_unique_id - 1 /\ Owed(id) = L
  <2>1. k \in 0 .. Cardinality(L)
    BY <1>4, <1>6
  <2> HIDE DEF k
  <2> QED BY <2>1, <1>0, <1>5, StoresDue
<1>8. /\ DOMAIN STA' = 1 .. Len(STA) - k
      /\ \A i \in DOMAIN STA' : i + k \in DOMAIN STA /\ STA'[i] = STA[i + k]
      /\ \A n : /\ IsFiniteSet(Where(STA, n))
                /\ Cardinality(Where(STA', n)) =
                     Cardinality(Where(STA, n) \ 1 .. k)
  <2> HIDE DEF k
  <2>1. STA' = Drop(STA, k)
    BY <1>3 DEF Drop
  <2> QED BY <2>1, <1>0, <1>7, Dropped
<1>9. /\ LoadsLeft(s)' = LoadsLeft(s) \ LoadsAdded(s) /\ StoresLeft(s)' = L \ A
      /\ \A x \in Slots \ {s} : StoresLeft(x)' = StoresLeft(x)
  BY EnteredOperands
<1>10. Len(STA) \in Nat /\ DOMAIN STA = 1 .. Len(STA)
  BY <1>0, LenProperties
<1>11. /\ \A i, j \in DOMAIN STA : i < j => STA[i] <= STA[j]
       /\ \A i \in DOMAIN STA : STA[i] < instr_unique_id
       /\ \A n \in num_retired .. instr_unique_id - 1 :
            Cardinality(Where(STA, n)) = Cardinality(Owed(n))
       /\ \A q \in Live : \A i \in DOMAIN STA : SQ[q].id <= STA[i]
       /\ \A x \in Slots : Occupied(x) =>
            \A j \in StoresLeft(x) : \A m \in DOMAIN Stores(x) :
              j < m => m \in StoresLeft(x)
  BY <1>0 DEF StoresToCome
<1>12. /\ id \in Nat /\ slot(id) = s /\ num_retired <= id /\ id < Dispatched
  BY <1>0, OccupiedFacts
<1>13. Dispatched' = Dispatched /\ Dispatched \in Nat /\ num_retired \in Nat
  BY <1>0, Numbers DEF Dispatched
<1>14. \A x \in Slots : /\ Occupied(x)' <=> Occupied(x)
                        /\ Stores(x)' = Stores(x)
  <2>1. \A x \in Slots : ROB'[x].id = ROB[x].id
    BY <1>2 DEF EntersROB
  <2> QED BY <2>1, <1>0, SameInstructions
<1> HIDE DEF A, k, L, id
<1>15. ASSUME NEW i \in DOMAIN STA', NEW j \in DOMAIN STA', i < j
       PROVE  STA'[i] <= STA'[j]
  <2>1. i \in Int /\ j \in Int
    BY <1>8
  <2>2. i + k \in DOMAIN STA /\ j + k \in DOMAIN STA /\ i + k < j + k
    BY <2>1, <1>4, <1>8, <1>15
  <2> QED BY <2>2, <1>8, <1>11
<1>16. \A i \in DOMAIN STA' : STA'[i] < instr_unique_id
  BY <1>8, <1>11
<1>17. ASSUME NEW n \in num_retired .. instr_unique_id - 1
       PROVE  Cardinality(Where(STA', n)) = Cardinality(Owed(n)')
  <2>1. n \in Int
    BY <1>13
  <2>2. Owed(n)' = IF n < Dispatched THEN StoresLeft(slot(n))'
                   ELSE DOMAIN trace[n].destination_memory
    BY <1>0, <1>13 DEF Owed, slot
  <2>3. CASE n = id
    <3>1. Owed(n)' = L \ A
      BY <2>2, <2>3, <1>9, <1>12
    <3>2. 1 .. k \subseteq Where(STA, n)
      <4>1. \A i \in 1 .. k : i \in 1 .. Len(STA)
        BY <1>7, <1>10
      <4> QED BY <4>1, <2>3, <1>7, <1>10 DEF Where
    <3>3. Cardinality(1 .. k) = k
      BY <1>4, IntervalSize
    <3> DEFINE S == Where(STA, n)
               K == 1 .. k
    <3>4. IsFiniteSet(S) /\ K \subseteq S
      BY <3>2, <1>8
    <3>5. Cardinality(S) = Cardinality(L)
      BY <2>3, <1>7, <1>11
    <3>6. Cardinality(Where(STA', n)) = Cardinality(S \ K)
      BY <1>8
    <3>7. Cardinality(K) = k
      BY <3>3
    <3> HIDE DEF S, K
    <3>8. /\ Cardinality(S) = Cardinality(K) + Cardinality(S \ K)
          /\ Cardinality(S \ K) \in Nat
      BY <3>4, CountedApart
    <3>9. /\ Cardinality(L) = Cardinality(A) + Cardinality(L \ A)
          /\ Cardinality(L \ A) \in Nat
      BY <1>4, <1>6, CountedApart
    <3>10. Cardinality(A) = k
      BY DEF k
    <3>11. Cardinality(S \ K) = Cardinality(L \ A)
      <4>1. Cardinality(S) = k + Cardinality(S \ K)
        BY <3>7, <3>8
      <4>2. Cardinality(S) = k + Cardinality(L \ A)
        BY <3>5, <3>9, <3>10
      <4>3. Cardinality(S \ K) \in Nat /\ Cardinality(L \ A) \in Nat /\ k \in Nat
        BY <3>8, <3>9, <1>4
      <4> QED BY <4>1, <4>2, <4>3
    <3> QED BY <3>1, <3>6, <3>11
  <2>4. CASE n # id
    <3>1. Owed(n)' = Owed(n)
      <4>1. CASE n < Dispatched
        <5>1. n \in num_retired .. Dispatched - 1
          BY <4>1, <2>1, <1>13
        <5>2. ROB[slot(n)].id = n /\ slot(n) \in Slots
          BY <5>1, <1>0, <1>13, SlotOf DEF Ring
        <5>3. slot(n) \in Slots \ {s}
          BY <5>2, <2>4 DEF id
        <5>4. StoresLeft(slot(n))' = StoresLeft(slot(n))
          <6>1. \A x \in Slots \ {s} : \A m : StoresLeft(x)' = StoresLeft(x)
            BY <1>9
          <6>2. PICK x \in Slots \ {s} : x = slot(n)
            BY <5>3
          <6>3. StoresLeft(x)' = StoresLeft(x)
            BY <1>9
          <6> QED BY <6>2, <6>3 DEF slot
        <5> QED BY <4>1, <5>4, <2>2 DEF Owed
      <4>2. CASE ~(n < Dispatched)
        BY <4>2, <2>2 DEF Owed
      <4> QED BY <4>1, <4>2
    <3>2. Where(STA, n) \ 1 .. k = Where(STA, n)
      BY <2>4, <1>7 DEF Where
    <3> QED BY <3>1, <3>2, <1>8, <1>11
  <2> QED BY <2>3, <2>4
<1>18. ASSUME NEW q \in SQSlots, SQ'[q].id # NONE, NEW i \in DOMAIN STA'
       PROVE  SQ'[q].id <= STA'[i]
  <2>1. i + k \in DOMAIN STA /\ STA'[i] = STA[i + k]
    BY <1>8
  <2>2. CASE SQ'[q] = SQ[q]
    <3>1. q \in Live
      BY <2>2, <1>18 DEF Live
    <3> QED BY <3>1, <2>1, <2>2, <1>11
  <2>3. CASE \E j \in A : q = sq_index(s, j)
    <3>1. PICK j \in A : q = sq_index(s, j)
      BY <2>3
    <3>2. SQ'[q] = [id |-> id, address |-> Stores(s)[j], rob_index |-> s,
               data_index |-> j, producer |-> NONE, fetched |-> "no"]
      BY <3>1, <1>3 DEF id
    <3>3. SQ'[q].id = id
      BY <3>2
    <3>4. k # 0
      BY <3>1, <1>4, FS_EmptySet DEF k
    <3>5. 1 \in 1 .. k /\ 1 \in DOMAIN STA /\ STA[1] = id
      BY <3>4, <1>4, <1>7, <1>10
    <3>6. i + k \in Int /\ 1 < i + k
      <4>1. i \in Int /\ i >= 1
        BY <1>8
      <4> QED BY <4>1, <3>4, <1>4
    <3>7. STA[1] <= STA[i + k]
      BY <3>5, <3>6, <2>1, <1>11
    <3> QED BY <3>3, <3>5, <3>7, <2>1
  <2> QED BY <2>2, <2>3, <1>3
<1>19. ASSUME NEW x \in Slots, Occupied(x)', NEW j \in StoresLeft(x)',
              NEW m \in DOMAIN Stores(x)', j < m
       PROVE  m \in StoresLeft(x)'
  <2>1. Occupied(x) /\ m \in DOMAIN Stores(x)
    BY <1>14, <1>19
  <2>2. CASE x = s
    <3>1. j \in L /\ j \notin A
      BY <2>2, <1>9
    <3>2. m \in L
      BY <2>1, <2>2, <3>1, <1>11, <1>19 DEF L
    <3>3. m \notin A
      BY <3>1, <1>4, <1>19
    <3> QED BY <2>2, <3>2, <3>3, <1>9
  <2>3. CASE x # s
    <3>1. StoresLeft(x)' = StoresLeft(x)
      BY <2>3, <1>9
    <3> QED BY <3>1, <2>1, <1>11, <1>19
  <2> QED BY <2>2, <2>3
<1>20. Live' = {q \in SQSlots : SQ'[q].id # NONE}
  BY DEF Live
<1> QED BY <1>0, <1>15, <1>16, <1>17, <1>18, <1>19, <1>20 DEF StoresToCome

\* An instruction sees the last store before it,
LEMMA SeesLast ==
  ASSUME NEW n, NEW a, NEW m \in StoreBefore(n, a)
  PROVE  Sees(n, a, m)
BY DEF Sees, StoreBefore

\* and what it sees it sees still when L1D has refused more stores.
LEMMA SeesStill ==
  ASSUME trace' = trace, lost \subseteq lost'
  PROVE  \A n, a, m : Sees(n, a, m) => Sees(n, a, m)'
BY DEF Sees, Writes

\* What a step does to DataInv that retires nothing: each load in LQ was there
\* or waits for the right store, and each new load has got the right data.
LEMMA DataKept ==
  ASSUME DataInv, UNCHANGED <<trace, memory, lost, num_retired>>,
         \A l \in LQSlots : LQ'[l].id # NONE =>
           \/ /\ LQ'[l].id = LQ[l].id /\ LQ'[l].address = LQ[l].address
              /\ LQ'[l].producer = LQ[l].producer
           \/ IF LQ'[l].producer = NONE
              THEN \A m \in num_retired .. LQ'[l].id - 1 :
                     ~Writes(trace[m], LQ'[l].address)
              ELSE LQ'[l].producer \in StoreBefore(LQ'[l].id, LQ'[l].address),
         \A d \in loaded' : d \in loaded \/
           /\ d \in [id : Nat, address : Addresses, from : Ids]
           /\ Sees(d.id, d.address, d.from)
  PROVE  DataInv'
<1>1. \A n, a, m : Sees(n, a, m) => Sees(n, a, m)'
  BY SeesStill
<1>2. (\A a \in Addresses : Sees(num_retired, a, memory[a]))'
  BY DEF DataInv, Sees, Writes
<1>3. (\A l \in LQSlots : LQ[l].id # NONE =>
         IF LQ[l].producer = NONE
         THEN \A m \in num_retired .. LQ[l].id - 1 : ~Writes(trace[m], LQ[l].address)
         ELSE LQ[l].producer \in StoreBefore(LQ[l].id, LQ[l].address))'
  BY DEF DataInv, StoreBefore
<1>4. (\A d \in loaded :
         /\ d \in [id : Nat, address : Addresses, from : Ids]
         /\ Sees(d.id, d.address, d.from))'
  BY <1>1 DEF DataInv
<1> QED BY <1>2, <1>3, <1>4 DEF DataInv

\* Entering LQ and SQ keeps the right data.
LEMMA EnterData ==
  ASSUME CoreInv, MemInv, NEW s, Enters(s)
  PROVE  DataInv'
<1> DEFINE J == LoadsAdded(s) \cap Staying(s)
           P(j) == Producer(s, Loads(s)[j])
<1>0. /\ s \in Slots /\ Occupied(s) /\ SQRing /\ DataInv
      /\ UNCHANGED <<trace, memory, lost, num_retired>> /\ add_load_queue(s)
  BY DEF Enters, MemInv, CoreInv, frontend, retired, check_and_add_lsq
<1>1. PICK c \in 0 .. SQ_SIZE : RingOf(c)
  BY <1>0 DEF SQRing
<1>2. EntersQueues(s)
  BY <1>1, EnteringQueues
<1>3. /\ \A j \in J : LQ'[lq_index(s, j)] =
              [id |-> ROB[s].id, address |-> Loads(s)[j], rob_index |-> s,
               data_index |-> j, producer |-> P(j), fetched |-> "no"]
      /\ \A l \in LQSlots : (\E j \in J : l = lq_index(s, j)) \/ LQ'[l] = LQ[l]
  BY <1>2 DEF EntersQueues
<1>4. loaded' = loaded \cup {[id |-> ROB[s].id, address |-> Loads(s)[j],
                              from |-> P(j)] : j \in LoadsAdded(s) \ Staying(s)}
  BY <1>0 DEF add_load_queue
<1>5. \A a : /\ Producer(s, a) \in Ids
             /\ Producer(s, a) = NONE =>
                  \A m \in num_retired .. ROB[s].id - 1 : ~Writes(trace[m], a)
             /\ Producer(s, a) # NONE =>
                  Producer(s, a) \in StoreBefore(ROB[s].id, a)
  BY <1>0, ProducerIs
<1>6. /\ Loads(s) \in Seq(Addresses) /\ ROB[s].id \in Nat
      /\ DOMAIN Loads(s) = 1 .. Len(Loads(s))
  BY <1>0, OperandFacts
<1> HIDE DEF J
<1>7. ASSUME NEW l \in LQSlots, LQ'[l] # LQ[l]
      PROVE  IF LQ'[l].producer = NONE
             THEN \A m \in num_retired .. LQ'[l].id - 1 :
                     ~Writes(trace[m], LQ'[l].address)
             ELSE LQ'[l].producer \in StoreBefore(LQ'[l].id, LQ'[l].address)
  <2>1. PICK j \in J : l = lq_index(s, j)
    BY <1>3, <1>7
  <2>2. LQ'[l] = [id |-> ROB[s].id, address |-> Loads(s)[j], rob_index |-> s,
                  data_index |-> j, producer |-> P(j), fetched |-> "no"]
    BY <2>1, <1>3
  <2>3. LQ'[l].producer = P(j) /\ LQ'[l].id = ROB[s].id
        /\ LQ'[l].address = Loads(s)[j]
    BY <2>2
  <2> QED BY <2>3, <1>5
<1>8. ASSUME NEW d \in loaded', d \notin loaded
      PROVE  /\ d \in [id : Nat, address : Addresses, from : Ids]
             /\ d.from \in StoreBefore(d.id, d.address)
  <2>1. PICK j \in LoadsAdded(s) \ Staying(s) :
          d = [id |-> ROB[s].id, address |-> Loads(s)[j], from |-> P(j)]
    BY <1>4, <1>8
  <2>2. j \in LoadsLeft(s) /\ Forwarded(s, j)
    BY DEF LoadsAdded, Staying
  <2>3. P(j) # NONE
    BY <2>2 DEF Forwarded
  <2>4. Loads(s)[j] \in Addresses
    BY <2>2, <1>6, ElementOfSeq DEF LoadsLeft
  <2>5. P(j) \in Ids /\ P(j) \in StoreBefore(ROB[s].id, Loads(s)[j])
    BY <2>3, <1>5
  <2> HIDE DEF P
  <2>6. d.id = ROB[s].id /\ d.address = Loads(s)[j] /\ d.from = P(j)
    BY <2>1
  <2> QED BY <2>1, <2>4, <2>5, <2>6, <1>6
<1>9. \A d \in loaded' : d \in loaded \/
        /\ d \in [id : Nat, address : Addresses, from : Ids]
        /\ Sees(d.id, d.address, d.from)
  BY <1>8, SeesLast
<1> QED BY <1>0, <1>7, <1>9, DataKept

\* So entering LQ and SQ preserves the invariant.
LEMMA EnterMemory ==
  ASSUME CoreInv, MemInv, NEW s, Enters(s)
  PROVE  CoreInv' /\ MemInv'
<1>1. SQRing
  BY DEF MemInv
<1> QED BY <1>1, EnterKeeps, EnterLinks, EnterCounts, EnterReady, EnterRing,
           EnterStores, EnterData DEF MemInv

-----------------------------------------------------------------------------
(* What steps leave of the invariant that enter nothing into LQ or SQ *)

\* Instructions stay, with the entries they have had.
RobStays ==
  /\ trace' = trace
  /\ \A x \in Slots : /\ ROB'[x].id = ROB[x].id
                      /\ ROB'[x].lq_index = ROB[x].lq_index
                      /\ ROB'[x].sq_index = ROB[x].sq_index

\* The entries of LQ stay linked if each is released or keeps its operand,
LEMMA LQLinkedKept ==
  ASSUME LQLinked, RobStays,
         \A l \in LQSlots :
           \/ LQ'[l] = NoLSQEntry \/ LQ'[l] = LQ[l]
           \/ /\ LQ[l].id # NONE
              /\ LQ'[l].id = LQ[l].id /\ LQ'[l].address = LQ[l].address
              /\ LQ'[l].rob_index = LQ[l].rob_index
              /\ LQ'[l].data_index = LQ[l].data_index
  PROVE  LQLinked'
<1>1. \A x \in Slots : trace'[ROB'[x].id].source_memory = Loads(x)
  BY DEF RobStays, Loads, Instr
<1>2. ASSUME NEW l \in LQSlots
      PROVE  /\ LQ'[l].id = NONE => LQ'[l] = NoLSQEntry
             /\ LQ'[l].id # NONE =>
                  /\ LQ'[l].rob_index \in Slots
                  /\ ROB'[LQ'[l].rob_index].id = LQ'[l].id
                  /\ LQ'[l].data_index
                       \in DOMAIN trace'[ROB'[LQ'[l].rob_index].id].source_memory
                  /\ ROB'[LQ'[l].rob_index].lq_index[LQ'[l].data_index] = l
                  /\ LQ'[l].address = trace'[ROB'[LQ'[l].rob_index].id]
                                        .source_memory[LQ'[l].data_index]
  <2>1. CASE LQ'[l] = NoLSQEntry
    BY <2>1 DEF NoLSQEntry
  <2>2. CASE /\ LQ[l].id # NONE
             /\ LQ'[l].id = LQ[l].id /\ LQ'[l].address = LQ[l].address
             /\ LQ'[l].rob_index = LQ[l].rob_index
             /\ LQ'[l].data_index = LQ[l].data_index
    <3> DEFINE x == LQ[l].rob_index
    <3>1. /\ x \in Slots /\ ROB[x].id = LQ[l].id
          /\ LQ[l].data_index \in DOMAIN Loads(x)
          /\ ROB[x].lq_index[LQ[l].data_index] = l
          /\ LQ[l].address = Loads(x)[LQ[l].data_index]
      BY <2>2 DEF LQLinked
    <3>2. trace'[ROB'[x].id].source_memory = Loads(x)
          /\ ROB'[x].id = ROB[x].id /\ ROB'[x].lq_index = ROB[x].lq_index
      BY <3>1, <1>1 DEF RobStays
    <3> QED BY <2>2, <3>1, <3>2
  <2>3. CASE LQ'[l] = LQ[l] /\ LQ[l].id = NONE
    BY <2>3 DEF LQLinked
  <2> QED BY <2>1, <2>2, <2>3
<1> QED BY <1>2 DEF LQLinked, Loads, Instr

\* and those of SQ if they keep theirs.
LEMMA SQLinkedKept ==
  ASSUME SQLinked, RobStays,
         \A q \in SQSlots :
           \/ SQ'[q] = SQ[q]
           \/ /\ SQ[q].id # NONE
              /\ SQ'[q].id = SQ[q].id /\ SQ'[q].address = SQ[q].address
              /\ SQ'[q].rob_index = SQ[q].rob_index
              /\ SQ'[q].data_index = SQ[q].data_index,
         RobTypes
  PROVE  SQLinked'
<1>1. \A x \in Slots : trace'[ROB'[x].id].destination_memory = Stores(x)
  BY DEF RobStays, Stores, Instr
<1>2. ASSUME NEW q \in SQSlots
      PROVE  /\ SQ'[q].id = NONE => SQ'[q] = NoLSQEntry
             /\ SQ'[q].id # NONE =>
               /\ SQ'[q].rob_index \in Slots
               /\ ROB'[SQ'[q].rob_index].id = SQ'[q].id
               /\ SQ'[q].data_index
                    \in DOMAIN trace'[ROB'[SQ'[q].rob_index].id].destination_memory
               /\ ROB'[SQ'[q].rob_index].sq_index[SQ'[q].data_index] = q
               /\ SQ'[q].address = trace'[ROB'[SQ'[q].rob_index].id]
                                     .destination_memory[SQ'[q].data_index]
  <2>1. CASE SQ[q].id # NONE
    <3> DEFINE x == SQ[q].rob_index
    <3>1. /\ x \in Slots /\ ROB[x].id = SQ[q].id
          /\ SQ[q].data_index \in DOMAIN Stores(x)
          /\ ROB[x].sq_index[SQ[q].data_index] = q
          /\ SQ[q].address = Stores(x)[SQ[q].data_index]
      BY <2>1 DEF SQLinked
    <3>2. trace'[ROB'[x].id].destination_memory = Stores(x)
          /\ ROB'[x].id = ROB[x].id /\ ROB'[x].sq_index = ROB[x].sq_index
      BY <3>1, <1>1 DEF RobStays
    <3>3. /\ SQ'[q].id = SQ[q].id /\ SQ'[q].address = SQ[q].address
          /\ SQ'[q].rob_index = SQ[q].rob_index
          /\ SQ'[q].data_index = SQ[q].data_index
      OBVIOUS
    <3> QED BY <2>1, <3>1, <3>2, <3>3
  <2>2. CASE SQ'[q] = SQ[q] /\ SQ[q].id = NONE
    BY <2>2 DEF SQLinked
  <2> QED BY <2>1, <2>2
<1>3. ASSUME NEW x \in Slots, NEW j \in DOMAIN ROB'[x].sq_index,
             ROB'[x].sq_index[j] # NONE
      PROVE  /\ SQ'[ROB'[x].sq_index[j]].id = ROB'[x].id
             /\ SQ'[ROB'[x].sq_index[j]].data_index = j
  <2> DEFINE q == ROB[x].sq_index[j]
  <2>1. /\ ROB'[x].id = ROB[x].id /\ ROB'[x].sq_index[j] = q
        /\ j \in DOMAIN ROB[x].sq_index /\ q # NONE
    BY <1>3 DEF RobStays
  <2>2. SQ[q].id = ROB[x].id /\ SQ[q].data_index = j
    BY <2>1 DEF SQLinked
  <2>3. q \in SQSlots
    <3>1. ROB[x].sq_index \in Seq(SQSlots \cup {NONE})
      BY EntryFields
    <3> QED BY <3>1, <2>1, LenProperties, ElementOfSeq
  <2> HIDE DEF q
  <2>4. SQ'[q].id = SQ[q].id /\ SQ'[q].data_index = SQ[q].data_index
    BY <2>3
  <2> QED BY <2>1, <2>2, <2>4
<1> QED BY <1>2, <1>3 DEF SQLinked, Stores, Instr

\* SQ stays a ring if it stays where it is,
LEMMA SQRingKept ==
  ASSUME SQRing, SQ_head' = SQ_head,
         \A q \in SQSlots : /\ SQ'[q].id = SQ[q].id
                            /\ SQ'[q].data_index = SQ[q].data_index,
         SQ_head \in SQSlots
  PROVE  SQRing'
<1>1. PICK c \in 0 .. SQ_SIZE : RingOf(c)
  BY DEF SQRing
<1>2. SQ_SIZE \in Nat \ {0} /\ \A k \in 0 .. SQ_SIZE - 1 : at(k) \in SQSlots
  BY Places
<1>3. \A k \in 0 .. c - 1 : k \in 0 .. SQ_SIZE - 1
  BY <1>2
<1>4. Live' = Live
  BY DEF Live
<1>5. ASSUME NEW j \in 0 .. c - 1, NEW k \in 0 .. c - 1, j < k
      PROVE  Precedes(at(j), at(k))'
  <2>1. Precedes(at(j), at(k)) /\ at(j) \in SQSlots /\ at(k) \in SQSlots
    BY <1>1, <1>2, <1>3, <1>5 DEF RingOf
  <2>2. at(j)' = at(j) /\ at(k)' = at(k)
    BY DEF at
  <2> QED BY <2>1, <2>2 DEF Precedes
<1>6. {at(k) : k \in 0 .. c - 1}' = {at(k) : k \in 0 .. c - 1}
  BY DEF at
<1>7. RingOf(c)'
  BY <1>1, <1>4, <1>5, <1>6 DEF RingOf
<1> QED BY <1>7 DEF SQRing

\* and STA holds the stores to come as long as nothing is read from the trace.
LEMMA StoresToComeKept ==
  ASSUME StoresToCome, FrontTypes, RobStays,
         UNCHANGED <<instr_unique_id, num_retired, STA>>,
         Dispatched' = Dispatched, \A q \in SQSlots : SQ'[q].id = SQ[q].id
  PROVE  StoresToCome'
<1>1. trace' = trace
  BY DEF RobStays
<1>2. Live' = Live
  BY DEF Live
<1>3. /\ \A i, j \in DOMAIN STA : i < j => STA[i] <= STA[j]
      /\ \A i \in DOMAIN STA : STA[i] < instr_unique_id
      /\ \A n \in num_retired .. instr_unique_id - 1 :
            Cardinality(Where(STA, n)) = Cardinality(Owed(n))
      /\ \A q \in Live : \A i \in DOMAIN STA : SQ[q].id <= STA[i]
      /\ \A x \in Slots : Occupied(x) =>
            \A j \in StoresLeft(x) : \A m \in DOMAIN Stores(x) :
              j < m => m \in StoresLeft(x)
  BY DEF StoresToCome
<1>4. \A x \in Slots : /\ (Occupied(x)' <=> Occupied(x)) /\ Stores(x)' = Stores(x)
                       /\ StoresLeft(x)' = StoresLeft(x)
  BY <1>1 DEF RobStays, Occupied, Stores, Instr, StoresLeft
<1>5. ASSUME NEW n \in num_retired .. instr_unique_id - 1
      PROVE  Owed(n)' = Owed(n)
  <2>1. CASE n < Dispatched
    <3>1. PICK x \in Slots : x = slot(n)
      BY SlotOf DEF FrontTypes
    <3>2. StoresLeft(x)' = StoresLeft(x)
      BY <1>4
    <3> QED BY <2>1, <3>1, <3>2 DEF Owed, slot
  <2>2. CASE ~(n < Dispatched)
    BY <2>2, <1>1 DEF Owed
  <2> QED BY <2>1, <2>2
<1>6. ASSUME NEW x \in Slots, Occupied(x)', NEW j \in StoresLeft(x)',
             NEW m \in DOMAIN Stores(x)', j < m
      PROVE  m \in StoresLeft(x)'
  BY <1>3, <1>4, <1>6
<1>7. \A q \in Live' : \A i \in DOMAIN STA : SQ'[q].id <= STA[i]
  BY <1>2, <1>3 DEF Live
<1> QED BY <1>3, <1>5, <1>6, <1>7 DEF StoresToCome

\* While neither changes, nor what is counted, the memory instructions are not
\* concerned.
EntriesStay ==
  /\ RobStays
  /\ UNCHANGED <<LQ, SQ, SQ_head, RTL0, RTS0, l1d, loaded, memory, lost, num_retired>>
  /\ \A x \in Slots :
       /\ ROB'[x].num_mem_ops = ROB[x].num_mem_ops
       /\ \/ ROB'[x].executed = ROB[x].executed
          \/ ~is_memory(x)
          \/ ROB[x].executed = "INFLIGHT" /\ ROB[x].num_mem_ops = 0

\* The same, and nothing new in STA.
MemoryStays ==
  /\ EntriesStay /\ Dispatched' = Dispatched
  /\ UNCHANGED <<STA, instr_unique_id>>

\* Such a step preserves what the invariant says of LQ and SQ,
LEMMA EntriesKept ==
  ASSUME CoreInv, MemInv, EntriesStay
  PROVE  LQLinked' /\ SQLinked' /\ MemoryCounted' /\ LSQReady' /\ SQRing' /\ DataInv'
<1>0. /\ FrontTypes /\ RobTypes /\ MemoryTypes /\ RobStays /\ trace' = trace
      /\ LQLinked /\ SQLinked /\ MemoryCounted /\ LSQReady /\ SQRing /\ DataInv
      /\ UNCHANGED <<LQ, SQ, SQ_head, RTL0, RTS0, l1d, loaded, memory, lost, num_retired>>
  BY DEF CoreInv, MemInv, EntriesStay, RobStays
<1>1. LQLinked'
  BY <1>0, LQLinkedKept
<1>2. SQLinked'
  BY <1>0, SQLinkedKept
<1>3. ASSUME NEW x \in Slots PROVE Counted(x)'
  <2>1. /\ Counted(x) /\ ROB'[x].id = ROB[x].id
        /\ ROB'[x].num_mem_ops = ROB[x].num_mem_ops
        /\ ROB'[x].lq_index = ROB[x].lq_index /\ ROB'[x].sq_index = ROB[x].sq_index
        /\ \/ ROB'[x].executed = ROB[x].executed
           \/ ~is_memory(x)
           \/ ROB[x].executed = "INFLIGHT" /\ ROB[x].num_mem_ops = 0
    BY <1>0 DEF MemoryCounted, EntriesStay, RobStays
  <2>2. LoadsOf(x)' = LoadsOf(x) /\ StoresOf(x)' = StoresOf(x)
    BY <2>1, <1>0 DEF LoadsOf, StoresOf, Stores, Instr
  <2> QED BY <2>1, <2>2, <1>0, CountedKept
<1>4. MemoryCounted'
  BY <1>3 DEF MemoryCounted
<1>5. LSQReady'
  BY <1>0 DEF LSQReady, Once, Elements
<1>6. SQRing'
  BY <1>0, SQRingKept DEF MemoryTypes
<1>7. DataInv'
  BY <1>0, DataKept
<1> QED BY <1>1, <1>2, <1>4, <1>5, <1>6, <1>7

\* and all of it if nothing is read from the trace.
LEMMA MemoryKept ==
  ASSUME CoreInv, MemInv, MemoryStays
  PROVE  MemInv'
<1>1. /\ FrontTypes /\ StoresToCome /\ EntriesStay /\ RobStays
      /\ UNCHANGED <<instr_unique_id, num_retired, STA, SQ>>
      /\ Dispatched' = Dispatched
  BY DEF CoreInv, MemInv, MemoryStays, EntriesStay
<1>2. StoresToCome'
  BY <1>1, StoresToComeKept
<1> QED BY <1>1, <1>2, EntriesKept DEF MemInv

\* The steps of the front end that dispatch nothing are such steps, if
\* instructions only move from one buffer to the other,
LEMMA FrontSteps ==
  ASSUME CoreInv, MemInv,
         \/ request_block \/ complete_instr_fetch \/ resume_fetch
         \/ fetch_instruction \/ handle_writeback
  PROVE  CoreInv' /\ MemInv'
<1>0. FrontTypes /\ BuffersInOrder
  BY DEF CoreInv
<1>1. /\ UNCHANGED <<trace, ROB, LQ, SQ, SQ_head, STA, RTL0, RTS0, l1d, loaded,
                     memory, lost, num_retired, instr_unique_id>>
  BY DEF request_block, complete_instr_fetch, resume_fetch, fetch_instruction,
         handle_writeback, frontend, lsq, retired
<1>2. Len(IFETCH_BUFFER') + Len(DECODE_BUFFER')
        = Len(IFETCH_BUFFER) + Len(DECODE_BUFFER)
  <2>1. \A b : \A f \in Status : Len(Mark(b, f)) = Len(IFETCH_BUFFER)
    BY <1>0, MarkFacts
  <2>2. "INFLIGHT" \in Status /\ "COMPLETED" \in Status
    BY DEF Status
  <2>3. CASE request_block
    <3>1. PICK b : IFETCH_BUFFER' = Mark(b, "INFLIGHT")
      BY <2>3 DEF request_block
    <3>2. DECODE_BUFFER' = DECODE_BUFFER
      BY <2>3 DEF request_block
    <3> QED BY <3>1, <3>2, <2>1, <2>2
  <2>4. CASE complete_instr_fetch
    <3>1. PICK b : IFETCH_BUFFER' = Mark(b, "COMPLETED")
      BY <2>4 DEF complete_instr_fetch
    <3>2. DECODE_BUFFER' = DECODE_BUFFER
      BY <2>4 DEF complete_instr_fetch
    <3> QED BY <3>1, <3>2, <2>1, <2>2
  <2>5. CASE resume_fetch \/ handle_writeback
    BY <2>5 DEF resume_fetch, handle_writeback, frontend
  <2>6. CASE fetch_instruction
    <3>1. PICK d \in Decodes : /\ IFETCH_BUFFER # <<>>
                               /\ IFETCH_BUFFER' = Tail(IFETCH_BUFFER)
                               /\ DECODE_BUFFER' = Append(DECODE_BUFFER, d)
      <4>1. /\ IFETCH_BUFFER # <<>> /\ IFETCH_BUFFER' = Tail(IFETCH_BUFFER)
            /\ DECODE_BUFFER' = Append(DECODE_BUFFER,
                 [id |-> Head(IFETCH_BUFFER).id,
                  resumes |-> Head(IFETCH_BUFFER).resumes])
        BY <2>6 DEF fetch_instruction
      <4>2. Head(IFETCH_BUFFER) \in Fetches
        BY <4>1, <1>0, OnceHead DEF FrontTypes
      <4>3. [id |-> Head(IFETCH_BUFFER).id,
             resumes |-> Head(IFETCH_BUFFER).resumes] \in Decodes
        BY <4>2 DEF Fetches, Decodes, Resumes
      <4> QED BY <4>1, <4>3
    <3>2. Len(IFETCH_BUFFER') = Len(IFETCH_BUFFER) - 1 /\ Len(IFETCH_BUFFER) \in Nat
      BY <3>1, <1>0 DEF FrontTypes
    <3>3. Len(DECODE_BUFFER') = Len(DECODE_BUFFER) + 1 /\ Len(DECODE_BUFFER) \in Nat
      BY <3>1, <1>0 DEF FrontTypes
    <3> QED BY <3>2, <3>3
  <2> QED BY <2>3, <2>4, <2>5, <2>6
<1>3. Dispatched' = Dispatched
  BY <1>1, <1>2 DEF Dispatched
<1>4. MemoryStays
  BY <1>1, <1>3 DEF MemoryStays, EntriesStay, RobStays
<1> QED BY <1>4, MemoryKept, RequestBlockKeeps, InstrFetchKeeps, ResumeKeeps,
           FetchKeeps, WritebackKeeps

\* and so are those of the register instructions.
LEMMA ScheduleSteps ==
  ASSUME CoreInv, MemInv, schedule_instruction
  PROVE  CoreInv' /\ MemInv'
<1> DEFINE s == Oldest(Unscheduled)
<1>0. /\ FrontTypes /\ RobTypes /\ BuffersInOrder /\ Ring /\ RegistersInv
  BY DEF CoreInv
<1>1. /\ Unscheduled # {} /\ do_scheduling(s)
      /\ UNCHANGED <<trace, instr_unique_id, IFETCH_BUFFER, DECODE_BUFFER, RTE0,
                     LQ, SQ, SQ_head, STA, RTL0, RTS0, l1d, loaded, memory, lost,
                     num_retired>>
  BY DEF schedule_instruction, frontend, lsq, retired
<1>2. s \in Unscheduled
  <2>1. Unscheduled \in SUBSET Slots /\ \A x \in Unscheduled : Occupied(x)
    BY DEF Unscheduled
  <2> QED BY <2>1, <1>0, <1>1, OldestIs
<1>3. s \in Slots /\ Occupied(s) /\ ROB[s].scheduled = "no"
  BY <1>2 DEF Unscheduled
<1> HIDE DEF s
<1>4. \A x \in Slots : /\ ROB'[x].id = ROB[x].id
                       /\ ROB'[x].executed = ROB[x].executed
                       /\ ROB'[x].lq_index = ROB[x].lq_index
                       /\ ROB'[x].sq_index = ROB[x].sq_index
                       /\ ROB'[x].num_mem_ops = ROB[x].num_mem_ops
  BY <1>0, <1>1, <1>3, RegistersOfScheduled
<1>5. MemoryStays
  BY <1>1, <1>4 DEF MemoryStays, EntriesStay, RobStays, Dispatched
<1> QED BY <1>5, MemoryKept, ScheduleKeeps

\* What is ready in RTE0 or RTE1 has no operands in memory.
LEMMA ExecuteSteps ==
  ASSUME CoreInv, MemInv, execute_instruction
  PROVE  CoreInv' /\ MemInv'
<1>0. /\ RobTypes /\ RTEExact
  BY DEF CoreInv, RegistersInv
<1>1. UNCHANGED <<trace, instr_unique_id, IFETCH_BUFFER, DECODE_BUFFER, LQ, SQ,
                  SQ_head, STA, RTL0, RTS0, l1d, loaded, memory, lost, num_retired>>
  BY DEF execute_instruction, frontend, lsq, retired
<1>2. PICK s \in Slots : do_execution(s) /\ ~is_memory(s)
  <2>1. RTE0 \in Seq(Slots) /\ RTE1 \in Seq(Slots)
    BY <1>0 DEF RobTypes
  <2>2. Elements(RTE0 \o RTE1) = Elements(RTE0) \cup Elements(RTE1)
    BY <2>1, OnceConcat
  <2>3. \A s \in Elements(RTE0 \o RTE1) : s \in Slots /\ ~is_memory(s)
    BY <1>0 DEF RTEExact
  <2>4. CASE RTE0 # <<>> /\ do_execution(Head(RTE0))
    <3>1. Head(RTE0) \in Elements(RTE0)
      BY <2>1, <2>4, OnceHead
    <3> QED BY <3>1, <2>2, <2>3, <2>4
  <2>5. CASE RTE1 # <<>> /\ do_execution(Head(RTE1))
    <3>1. Head(RTE1) \in Elements(RTE1)
      BY <2>1, <2>5, OnceHead
    <3> QED BY <3>1, <2>2, <2>3, <2>5
  <2> QED BY <2>4, <2>5 DEF execute_instruction
<1>3. ASSUME NEW x \in Slots
      PROVE  /\ ROB'[x].id = ROB[x].id
             /\ ROB'[x].lq_index = ROB[x].lq_index
             /\ ROB'[x].sq_index = ROB[x].sq_index
             /\ ROB'[x].num_mem_ops = ROB[x].num_mem_ops
             /\ ROB'[x].executed = ROB[x].executed \/ ~is_memory(x)
  <2>1. ROB'[x] = IF x = s THEN [ROB[x] EXCEPT !.executed = "INFLIGHT"]
                  ELSE ROB[x]
    BY <1>0, <1>2 DEF do_execution, RobTypes
  <2>2. ROB[x] \in LooseEntries
    BY <1>0, EntryFields
  <2> QED BY <2>1, <2>2, <1>2 DEF LooseEntries
<1>4. MemoryStays
  BY <1>1, <1>3 DEF MemoryStays, EntriesStay, RobStays, Dispatched
<1> QED BY <1>4, MemoryKept, ExecuteKeeps

\* A memory instruction completes when nothing is counted any more.
LEMMA CompleteSteps ==
  ASSUME CoreInv, MemInv, NEW s \in Slots, complete_execution(s)
  PROVE  CoreInv' /\ MemInv'
<1>0. RobTypes
  BY DEF CoreInv
<1>1. /\ UNCHANGED <<trace, instr_unique_id, IFETCH_BUFFER, DECODE_BUFFER, LQ, SQ,
                     SQ_head, STA, RTL0, RTS0, l1d, loaded, memory, lost, num_retired>>
      /\ ROB[s].executed = "INFLIGHT" /\ (is_memory(s) => ROB[s].num_mem_ops = 0)
  BY DEF complete_execution, frontend, lsq, retired
<1>2. ASSUME NEW x \in Slots
      PROVE  /\ ROB'[x].id = ROB[x].id
             /\ ROB'[x].lq_index = ROB[x].lq_index
             /\ ROB'[x].sq_index = ROB[x].sq_index
             /\ ROB'[x].num_mem_ops = ROB[x].num_mem_ops
             /\ ROB'[x].executed = ROB[x].executed \/ x = s
  <2>1. ROB'[x] = IF x = s THEN [ROB[s] EXCEPT !.executed = "COMPLETED"]
                  ELSE [ROB[x] EXCEPT !.num_reg_dependent = Remaining(s, x),
                                      !.reg_ready = @ \/ x \in Freed(s)]
    BY DEF complete_execution
  <2>2. ROB[x] \in LooseEntries
    BY <1>0, EntryFields
  <2>3. CASE x = s
    BY <2>1, <2>2, <2>3 DEF LooseEntries
  <2>4. CASE x # s
    <3>1. ROB'[x] = [ROB[x] EXCEPT !.num_reg_dependent = Remaining(s, x),
                                   !.reg_ready = @ \/ x \in Freed(s)]
      BY <2>1, <2>4
    <3> QED BY <3>1, <2>2 DEF LooseEntries
  <2> QED BY <2>3, <2>4
<1>3. MemoryStays
  BY <1>1, <1>2 DEF MemoryStays, EntriesStay, RobStays, Dispatched
<1> QED BY <1>3, MemoryKept, CompleteKeeps

-----------------------------------------------------------------------------
(* Execution of loads and stores *)

\* Sending a load to L1D takes it out of RTL0 and changes nothing else.
LEMMA LoadSteps ==
  ASSUME CoreInv, MemInv, execute_load
  PROVE  CoreInv' /\ MemInv'
<1> DEFINE h == Head(RTL0)
<1>0. /\ FrontTypes /\ RobTypes /\ MemoryTypes /\ LQLinked /\ SQLinked
      /\ MemoryCounted /\ LSQReady /\ SQRing /\ StoresToCome /\ DataInv
  BY DEF CoreInv, MemInv
<1>1. /\ RTL0 # <<>> /\ LQ' = [LQ EXCEPT ![h].fetched = "INFLIGHT"]
      /\ l1d' = l1d \cup {h} /\ RTL0' = Tail(RTL0)
      /\ UNCHANGED <<trace, instr_unique_id, IFETCH_BUFFER, DECODE_BUFFER, ROB, SQ,
                     SQ_head, STA, RTS0, loaded, memory, lost, num_retired>>
  BY DEF execute_load, frontend, retired
<1>2. /\ h \in LQSlots /\ h \in Elements(RTL0) /\ RTL0 \in Seq(LQSlots)
      /\ Elements(RTL0) = {h} \cup Elements(Tail(RTL0))
      /\ Once(Tail(RTL0)) /\ h \notin Elements(Tail(RTL0))
  <2>1. RTL0 \in Seq(LQSlots) /\ Once(RTL0)
    BY <1>0 DEF MemoryTypes, LSQReady
  <2> QED BY <2>1, <1>1, OnceHead
<1> HIDE DEF h
<1>3. LQ[h].id # NONE /\ LQ[h].producer = NONE /\ LQ[h].fetched = "no"
  BY <1>0, <1>2 DEF LSQReady
<1>4. ASSUME NEW l \in LQSlots
      PROVE  /\ l # h => LQ'[l] = LQ[l]
             /\ LQ'[h].fetched = "INFLIGHT"
             /\ LQ'[l].id = LQ[l].id /\ LQ'[l].address = LQ[l].address
             /\ LQ'[l].rob_index = LQ[l].rob_index
             /\ LQ'[l].data_index = LQ[l].data_index
             /\ LQ'[l].producer = LQ[l].producer
  <2>1. LQ[l] \in LSQEntries /\ LQ[h] \in LSQEntries
    BY <1>0, <1>2 DEF MemoryTypes
  <2>2. /\ LQ'[h] = [LQ[h] EXCEPT !.fetched = "INFLIGHT"]
        /\ l # h => LQ'[l] = LQ[l]
    BY <1>0, <1>1, <1>2 DEF MemoryTypes
  <2> QED BY <2>1, <2>2 DEF LSQEntries
<1>5. Dispatched' = Dispatched /\ RobStays
  BY <1>1 DEF Dispatched, RobStays
<1>6. LQLinked'
  <2>1. \A l \in LQSlots :
           \/ LQ'[l] = NoLSQEntry \/ LQ'[l] = LQ[l]
           \/ /\ LQ[l].id # NONE
              /\ LQ'[l].id = LQ[l].id /\ LQ'[l].address = LQ[l].address
              /\ LQ'[l].rob_index = LQ[l].rob_index
              /\ LQ'[l].data_index = LQ[l].data_index
    BY <1>3, <1>4
  <2> QED BY <2>1, <1>0, <1>5, LQLinkedKept
<1>7. SQLinked'
  BY <1>0, <1>1, <1>5, SQLinkedKept
<1>8. ASSUME NEW x \in Slots PROVE Counted(x)'
  <2>1. Counted(x)
    BY <1>0 DEF MemoryCounted
  <2>2. LoadsOf(x)' = LoadsOf(x)
    BY <1>4 DEF LoadsOf
  <2>3. StoresOf(x)' = StoresOf(x)
    BY <1>1 DEF StoresOf, Stores, Instr
  <2> QED BY <2>1, <2>2, <2>3, <1>1, CountedKept
<1>9. MemoryCounted'
  BY <1>8 DEF MemoryCounted
<1>10. LSQReady'
  <2>1. Elements(RTL0') = {l \in LQSlots : /\ LQ'[l].id # NONE
                                           /\ LQ'[l].producer = NONE
                                           /\ LQ'[l].fetched = "no"}
    <3>1. Elements(RTL0) = {l \in LQSlots : /\ LQ[l].id # NONE
                                            /\ LQ[l].producer = NONE
                                            /\ LQ[l].fetched = "no"}
      BY <1>0 DEF LSQReady
    <3>2. Elements(RTL0') = Elements(RTL0) \ {h}
      BY <1>1, <1>2
    <3> QED BY <3>1, <3>2, <1>4
  <2>2. Once(RTL0)'
    BY <1>1, <1>2 DEF Once
  <2>3. Elements(RTL0)' = Elements(RTL0')
    BY DEF Elements
  <2>4. \A l \in l1d' : /\ LQ'[l].id # NONE /\ LQ'[l].producer = NONE
                        /\ LQ'[l].fetched = "INFLIGHT"
    <3>1. \A l \in l1d : /\ LQ[l].id # NONE /\ LQ[l].producer = NONE
                         /\ LQ[l].fetched = "INFLIGHT"
      BY <1>0 DEF LSQReady
    <3>2. l1d \subseteq LQSlots
      BY <1>0 DEF MemoryTypes
    <3> QED BY <3>1, <3>2, <1>1, <1>2, <1>3, <1>4
  <2>5. /\ Once(RTS0)'
        /\ (Elements(RTS0) = {q \in SQSlots : /\ SQ[q].id # NONE
                                              /\ SQ[q].fetched = "no"})'
    BY <1>0, <1>1 DEF LSQReady, Once, Elements
  <2> QED BY <2>1, <2>2, <2>3, <2>4, <2>5 DEF LSQReady
<1>11. SQRing'
  BY <1>0, <1>1, SQRingKept DEF MemoryTypes
<1>12. StoresToCome'
  BY <1>0, <1>1, <1>5, StoresToComeKept
<1>13. DataInv'
  BY <1>0, <1>1, <1>4, DataKept
<1> QED BY <1>6, <1>7, <1>9, <1>10, <1>11, <1>12, <1>13, LoadKeeps DEF MemInv

\* The loads that are released are counted no longer, and the others as before.
LEMMA ReleasedCounts ==
  ASSUME NEW ls \in SUBSET LQSlots, LQ' = Released(ls), NEW x \in Slots
  PROVE  /\ Cardinality(LoadsOf(x)) - Operands(ls, x) = Cardinality(LoadsOf(x)')
         /\ Cardinality(LoadsOf(x)') \in Nat /\ Cardinality(LoadsOf(x)) \in Nat
         /\ Operands(ls, x) \in Nat
<1> DEFINE S == LoadsOf(x)
           T == {l \in ls : LQ[l].rob_index = x}
<1>1. IsFiniteSet(S) /\ T \subseteq S
  <2>1. S \in SUBSET LQSlots
    BY DEF LoadsOf
  <2> QED BY <2>1, Finite, FS_Subset DEF LoadsOf
<1>2. LoadsOf(x)' = S \ T
  <2>1. \A l \in LQSlots :
          LQ'[l].rob_index = x <=> LQ[l].rob_index = x /\ l \notin ls
    <3>1. NoLSQEntry.rob_index = NONE /\ x # NONE
      BY CoreAssumption DEF NoLSQEntry, Slots, NONE
    <3> QED BY <3>1 DEF Released
  <2> QED BY <2>1 DEF LoadsOf
<1>3. Operands(ls, x) = Cardinality(T)
  BY DEF Operands
<1> HIDE DEF S, T
<1>4. /\ Cardinality(S) \in Nat /\ Cardinality(T) \in Nat
      /\ Cardinality(S \ T) \in Nat
      /\ Cardinality(S) = Cardinality(T) + Cardinality(S \ T)
  BY <1>1, CountedApart
<1> QED BY <1>2, <1>3, <1>4 DEF S

\* A step that releases loads counts them out, and with them the stores that
\* have executed.
LEMMA CountedReleased ==
  ASSUME CoreInv, LQLinked, NEW x \in Slots, Counted(x),
         NEW ls \in SUBSET LQSlots, \A l \in ls : LQ[l].id # NONE,
         NEW k \in Nat, trace' = trace, LQ' = Released(ls),
         ROB'[x].id = ROB[x].id, ROB'[x].executed = ROB[x].executed,
         ROB'[x].lq_index = ROB[x].lq_index, ROB'[x].sq_index = ROB[x].sq_index,
         ROB'[x].num_mem_ops = ROB[x].num_mem_ops - Operands(ls, x) - k,
         ~Occupied(x) => k = 0,
         Occupied(x) => /\ Cardinality(StoresOf(x)') \in Nat
                        /\ Cardinality(StoresOf(x)) = Cardinality(StoresOf(x)') + k
  PROVE  Counted(x)'
<1>1. /\ Occupied(x)' <=> Occupied(x)
      /\ LoadsLeft(x)' = LoadsLeft(x) /\ StoresLeft(x)' = StoresLeft(x)
      /\ is_memory(x)' <=> is_memory(x)
  BY DEF Occupied, LoadsLeft, StoresLeft, Loads, Stores, Instr, is_memory
<1>2. /\ Cardinality(LoadsOf(x)) - Operands(ls, x) = Cardinality(LoadsOf(x)')
      /\ Cardinality(LoadsOf(x)') \in Nat /\ Cardinality(LoadsOf(x)) \in Nat
      /\ Operands(ls, x) \in Nat
  BY ReleasedCounts
<1>3. CASE ~Occupied(x)
  <2>1. {l \in ls : LQ[l].rob_index = x} = {}
    <3> SUFFICES ASSUME NEW l \in ls, LQ[l].rob_index = x PROVE FALSE
      OBVIOUS
    <3>1. ROB[x].id = LQ[l].id /\ LQ[l].id # NONE
      BY DEF LQLinked
    <3> QED BY <3>1, <1>3 DEF Occupied
  <2>2. Operands(ls, x) = 0
    BY <2>1, FS_EmptySet DEF Operands
  <2>3. ROB[x].num_mem_ops = 0
    BY <1>3 DEF Counted
  <2>4. ROB'[x].num_mem_ops = 0
    <3>1. k = 0
      BY <1>3
    <3>2. ROB'[x].num_mem_ops = 0 - 0 - 0
      BY <3>1, <2>2, <2>3
    <3> QED BY <3>2
  <2> QED BY <2>4, <1>1, <1>3 DEF Counted
<1>4. CASE Occupied(x)
  <2> DEFINE A == Cardinality(LoadsLeft(x))
             B == Cardinality(LoadsOf(x))
             C == Cardinality(StoresOf(x))
             B1 == Cardinality(LoadsOf(x)')
             C1 == Cardinality(StoresOf(x)')
             o == Operands(ls, x)
             m == ROB[x].num_mem_ops
             m1 == ROB'[x].num_mem_ops
  <2>1. A \in Nat
    BY <1>4, OperandFacts, FS_CardinalityType
  <2>2. /\ m = A + B + C
        /\ is_memory(x) /\ ROB[x].executed # "no" =>
              LoadsLeft(x) = {} /\ StoresLeft(x) = {}
        /\ is_memory(x) /\ ROB[x].executed = "COMPLETED" => m = 0
    BY <1>4 DEF Counted
  <2>3. /\ B - o = B1 /\ B1 \in Nat /\ B \in Nat /\ o \in Nat
        /\ C1 \in Nat /\ C = C1 + k /\ m1 = m - o - k
    BY <1>2, <1>4
  <2> HIDE DEF A, B, C, B1, C1, o, m, m1
  <2>4. m1 = A + B1 + C1
    BY <2>1, <2>2, <2>3
  <2>5. m = 0 => m1 = 0
    BY <2>1, <2>2, <2>3
  <2>6. m1 = Cardinality(LoadsLeft(x)') + Cardinality(LoadsOf(x)')
               + Cardinality(StoresOf(x)')
    BY <2>4, <1>1 DEF A, B1, C1
  <2>7. is_memory(x)' /\ ROB'[x].executed = "COMPLETED" => m1 = 0
    BY <2>2, <2>5, <1>1
  <2> QED BY <2>2, <2>6, <2>7, <1>1, <1>4 DEF m1, Counted
<1> QED BY <1>3, <1>4

\* Loads that were not in RTL0 leave it as it is when they are released.
LEMMA ReadyReleased ==
  ASSUME LSQReady, NEW ls \in SUBSET LQSlots, LQ' = Released(ls), RTL0' = RTL0,
         \A l \in ls : ~(LQ[l].producer = NONE /\ LQ[l].fetched = "no"),
         l1d \subseteq LQSlots, l1d' \subseteq l1d, l1d' \cap ls = {}
  PROVE  /\ Once(RTL0)'
         /\ (Elements(RTL0) = {l \in LQSlots : /\ LQ[l].id # NONE
                                               /\ LQ[l].producer = NONE
                                               /\ LQ[l].fetched = "no"})'
         /\ (\A l \in l1d : /\ LQ[l].id # NONE /\ LQ[l].producer = NONE
                            /\ LQ[l].fetched = "INFLIGHT")'
<1>1. \A l \in LQSlots : LQ'[l] = IF l \in ls THEN NoLSQEntry ELSE LQ[l]
  BY DEF Released
<1>2. NoLSQEntry.id = NONE
  BY DEF NoLSQEntry
<1>3. Elements(RTL0') = {l \in LQSlots : /\ LQ'[l].id # NONE
                                         /\ LQ'[l].producer = NONE
                                         /\ LQ'[l].fetched = "no"}
  <2>1. Elements(RTL0') = Elements(RTL0)
    BY DEF Elements
  <2>2. Elements(RTL0) = {l \in LQSlots : /\ LQ[l].id # NONE
                                          /\ LQ[l].producer = NONE
                                          /\ LQ[l].fetched = "no"}
    BY DEF LSQReady
  <2> QED BY <2>1, <2>2, <1>1, <1>2
<1>4. \A l \in l1d' : /\ LQ'[l].id # NONE /\ LQ'[l].producer = NONE
                      /\ LQ'[l].fetched = "INFLIGHT"
  BY <1>1 DEF LSQReady
<1>5. Once(RTL0)'
  BY DEF LSQReady, Once
<1> QED BY <1>3, <1>4, <1>5 DEF Elements

\* An instruction sees what an earlier one does, when none of those between
\* stores to the address.
LEMMA SameSeen ==
  ASSUME NEW n \in Nat, NEW k \in Nat, n <= k, NEW a,
         \A m \in n .. k - 1 : ~Writes(trace[m], a)
  PROVE  \A m : Sees(n, a, m) => Sees(k, a, m)
<1>1. \A m : m \in 0 .. k - 1 /\ Writes(trace[m], a)
               <=> m \in 0 .. n - 1 /\ Writes(trace[m], a)
  <2>1. \A m \in 0 .. k - 1 : m \in 0 .. n - 1 \/ m \in n .. k - 1
    OBVIOUS
  <2>2. \A m \in 0 .. n - 1 : m \in 0 .. k - 1
    OBVIOUS
  <2> QED BY <2>1, <2>2
<1>2. {m \in 0 .. k - 1 : Writes(trace[m], a)}
        = {m \in 0 .. n - 1 : Writes(trace[m], a)}
  BY <1>1
<1> QED BY <1>2 DEF Sees

\* What is known of a load in LQ.
LEMMA LoadFacts ==
  ASSUME CoreInv, LQLinked, NEW l \in LQSlots, LQ[l].id # NONE
  PROVE  /\ LQ[l].id \in Nat /\ LQ[l].address \in Addresses
         /\ num_retired \in Nat /\ num_retired <= LQ[l].id
<1>1. LQ[l].rob_index \in Slots /\ ROB[LQ[l].rob_index].id = LQ[l].id
      /\ LQ[l].data_index \in DOMAIN Loads(LQ[l].rob_index)
      /\ LQ[l].address = Loads(LQ[l].rob_index)[LQ[l].data_index]
  BY DEF LQLinked
<1> DEFINE s == LQ[l].rob_index
<1>2. s \in Slots /\ Occupied(s)
  BY <1>1 DEF Occupied
<1>3. Loads(s) \in Seq(Addresses) /\ DOMAIN Loads(s) = 1 .. Len(Loads(s))
  BY <1>2, OperandFacts
<1>4. ROB[s].id \in Nat /\ num_retired <= ROB[s].id
  BY <1>2, OccupiedFacts DEF CoreInv
<1>5. LQ[l].address \in Addresses
  BY <1>1, <1>3, ElementOfSeq
<1>6. num_retired \in Nat
  BY DEF CoreInv, FrontTypes
<1> QED BY <1>1, <1>4, <1>5, <1>6

\* L1D answers loads with what the last store before them has left in memory.
LEMMA DataFetchSteps ==
  ASSUME CoreInv, MemInv, complete_data_fetch
  PROVE  CoreInv' /\ MemInv'
<1>0. /\ FrontTypes /\ RobTypes /\ MemoryTypes /\ LQLinked /\ SQLinked
      /\ MemoryCounted /\ LSQReady /\ SQRing /\ StoresToCome /\ DataInv
  BY DEF CoreInv, MemInv
<1>1. PICK ls \in SUBSET l1d :
         /\ ROB' = [s \in Slots |->
                      [ROB[s] EXCEPT !.num_mem_ops = @ - Operands(ls, s)]]
         /\ LQ' = Released(ls) /\ l1d' = l1d \ ls
         /\ loaded' = loaded \cup Got(ls, memory)
  BY DEF complete_data_fetch
<1>2. UNCHANGED <<trace, instr_unique_id, IFETCH_BUFFER, DECODE_BUFFER, SQ, SQ_head,
                  STA, RTL0, RTS0, memory, lost, num_retired>>
  BY DEF complete_data_fetch, frontend, retired
<1>3. l1d \subseteq LQSlots /\ ls \in SUBSET LQSlots
  BY <1>0 DEF MemoryTypes
<1>4. \A l \in ls : /\ LQ[l].id # NONE /\ LQ[l].producer = NONE
                    /\ LQ[l].fetched = "INFLIGHT"
  BY <1>0 DEF LSQReady
<1>5. ASSUME NEW x \in Slots
      PROVE  /\ ROB'[x].id = ROB[x].id /\ ROB'[x].executed = ROB[x].executed
             /\ ROB'[x].lq_index = ROB[x].lq_index
             /\ ROB'[x].sq_index = ROB[x].sq_index
             /\ ROB'[x].num_mem_ops = ROB[x].num_mem_ops - Operands(ls, x)
  <2>1. ROB[x] \in LooseEntries
    BY <1>0, EntryFields
  <2>2. ROB'[x] = [ROB[x] EXCEPT !.num_mem_ops = @ - Operands(ls, x)]
    BY <1>1
  <2> QED BY <2>1, <2>2 DEF LooseEntries
<1>6. Dispatched' = Dispatched /\ RobStays
  BY <1>2, <1>5 DEF Dispatched, RobStays
<1>7. \A l \in LQSlots : LQ'[l] = IF l \in ls THEN NoLSQEntry ELSE LQ[l]
  BY <1>1 DEF Released
<1>8. LQLinked'
  <2>1. \A l \in LQSlots : LQ'[l] = NoLSQEntry \/ LQ'[l] = LQ[l]
    BY <1>7
  <2> QED BY <2>1, <1>0, <1>6, LQLinkedKept
<1>9. SQLinked'
  BY <1>0, <1>2, <1>6, SQLinkedKept
<1>10. ASSUME NEW x \in Slots PROVE Counted(x)'
  <2>1. StoresOf(x)' = StoresOf(x)
    BY <1>2, <1>5 DEF StoresOf, Stores, Instr
  <2>2. Occupied(x) => Cardinality(StoresOf(x)) \in Nat
    BY OperandFacts, FS_CardinalityType
  <2>3. ROB[x].num_mem_ops \in Int /\ Operands(ls, x) \in Nat
    BY <1>0, <1>3, EntryFields, OperandsFinite
  <2>4. ROB'[x].num_mem_ops = ROB[x].num_mem_ops - Operands(ls, x) - 0
    BY <2>3, <1>5
  <2>5. Occupied(x) => /\ Cardinality(StoresOf(x)') \in Nat
                       /\ Cardinality(StoresOf(x)) = Cardinality(StoresOf(x)') + 0
    BY <2>1, <2>2
  <2>6. 0 \in Nat /\ Counted(x)
    BY <1>0 DEF MemoryCounted
  <2> QED BY <2>4, <2>5, <2>6, <1>0, <1>1, <1>2, <1>3, <1>4, <1>5, CountedReleased
<1>11. MemoryCounted'
  BY <1>10 DEF MemoryCounted
<1>12. LSQReady'
  <2>1. /\ Once(RTL0)'
        /\ (Elements(RTL0) = {l \in LQSlots : /\ LQ[l].id # NONE
                                              /\ LQ[l].producer = NONE
                                              /\ LQ[l].fetched = "no"})'
        /\ (\A l \in l1d : /\ LQ[l].id # NONE /\ LQ[l].producer = NONE
                           /\ LQ[l].fetched = "INFLIGHT")'
    <3>1. l1d' \subseteq l1d /\ l1d' \cap ls = {}
      BY <1>1
    <3> QED BY <3>1, <1>0, <1>1, <1>2, <1>3, <1>4, ReadyReleased
  <2>2. /\ Once(RTS0)'
        /\ (Elements(RTS0) = {q \in SQSlots : /\ SQ[q].id # NONE
                                              /\ SQ[q].fetched = "no"})'
    BY <1>0, <1>2 DEF LSQReady, Once, Elements
  <2> QED BY <2>1, <2>2 DEF LSQReady
<1>13. SQRing'
  BY <1>0, <1>2, SQRingKept DEF MemoryTypes
<1>14. StoresToCome'
  BY <1>0, <1>2, <1>6, StoresToComeKept
<1>15. DataInv'
  <2>1. ASSUME NEW l \in LQSlots, LQ'[l].id # NONE
        PROVE  /\ LQ'[l].id = LQ[l].id /\ LQ'[l].address = LQ[l].address
               /\ LQ'[l].producer = LQ[l].producer
    BY <2>1, <1>7 DEF NoLSQEntry
  <2>2. ASSUME NEW d \in loaded', d \notin loaded
        PROVE  /\ d \in [id : Nat, address : Addresses, from : Ids]
               /\ Sees(d.id, d.address, d.from)
    <3>1. PICK l \in ls : d = [id |-> LQ[l].id, address |-> LQ[l].address,
                               from |-> memory[LQ[l].address]]
      BY <2>2, <1>1 DEF Got
    <3> DEFINE a == LQ[l].address
               n == LQ[l].id
    <3>2. d.id = n /\ d.address = a /\ d.from = memory[a]
      BY <3>1
    <3>3. n \in Nat /\ a \in Addresses /\ num_retired \in Nat /\ num_retired <= n
      BY <1>0, <1>3, <1>4, LoadFacts
    <3>4. memory[a] \in Ids
      BY <3>3, <1>0 DEF MemoryTypes
    <3>5. \A m \in num_retired .. n - 1 : ~Writes(trace[m], a)
      BY <1>0, <1>3, <1>4 DEF DataInv
    <3>6. Sees(num_retired, a, memory[a])
      BY <3>3, <1>0 DEF DataInv
    <3> HIDE DEF a, n
    <3>7. Sees(n, a, memory[a])
      BY <3>3, <3>5, <3>6, SameSeen
    <3>8. d \in [id : Nat, address : Addresses, from : Ids]
      <4>1. d = [id |-> n, address |-> a, from |-> memory[a]]
        BY <3>1 DEF a, n
      <4> QED BY <4>1, <3>3, <3>4
    <3> QED BY <3>2, <3>7, <3>8
  <2> QED BY <2>1, <2>2, <1>0, <1>2, DataKept
<1> QED BY <1>8, <1>9, <1>11, <1>12, <1>13, <1>14, <1>15, DataFetchKeeps
        DEF MemInv

\* A store that executes is no longer among those its instruction waits for,
\* and no other instruction is concerned.
LEMMA StoreCounted ==
  ASSUME CoreInv, SQLinked, NEW q \in SQSlots, SQ[q].id # NONE,
         SQ[q].fetched = "no", SQ' = [SQ EXCEPT ![q].fetched = "COMPLETED"],
         NEW x \in Slots, Occupied(x), trace' = trace, ROB'[x].id = ROB[x].id,
         ROB'[x].sq_index = ROB[x].sq_index
  PROVE  /\ Cardinality(StoresOf(x)') \in Nat
         /\ Cardinality(StoresOf(x)) = Cardinality(StoresOf(x)')
              + (IF x = SQ[q].rob_index THEN 1 ELSE 0)
<1>0. /\ FrontTypes /\ RobTypes /\ MemoryTypes /\ BuffersInOrder /\ Ring
  BY DEF CoreInv
<1> DEFINE o == SQ[q].rob_index
           j == SQ[q].data_index
           S == StoresOf(x)
<1>1. /\ o \in Slots /\ ROB[o].id = SQ[q].id /\ Occupied(o)
      /\ j \in DOMAIN Stores(o) /\ ROB[o].sq_index[j] = q
  BY DEF SQLinked, Occupied
<1>2. /\ S \subseteq DOMAIN Stores(x) /\ DOMAIN ROB[x].sq_index = DOMAIN Stores(x)
      /\ IsFiniteSet(S)
  BY OperandFacts DEF StoresOf
<1>3. \A p \in SQSlots : SQ'[p].fetched =
         IF p = q THEN "COMPLETED" ELSE SQ[p].fetched
  <2>1. \A p \in SQSlots : p # q => SQ'[p] = SQ[p]
    BY <1>0 DEF MemoryTypes
  <2>2. SQ'[q] = [SQ[q] EXCEPT !.fetched = "COMPLETED"] /\ SQ[q] \in LSQEntries
    BY <1>0 DEF MemoryTypes
  <2>3. SQ'[q].fetched = "COMPLETED"
    BY <2>2 DEF LSQEntries
  <2> QED BY <2>1, <2>3
<1>4. \A i \in DOMAIN Stores(x) : ROB[x].sq_index[i] # NONE =>
        ROB[x].sq_index[i] \in SQSlots
  <2>1. ROB[x].sq_index \in Seq(SQSlots \cup {NONE})
    BY <1>0, EntryFields
  <2> QED BY <2>1, <1>2, LenProperties, ElementOfSeq
<1>5. \A i \in DOMAIN Stores(x) : ROB[x].sq_index[i] = q => x = o /\ i = j
  <2> SUFFICES ASSUME NEW i \in DOMAIN Stores(x), ROB[x].sq_index[i] = q
               PROVE  x = o /\ i = j
    OBVIOUS
  <2>1. q # NONE
    BY CoreAssumption DEF SQSlots, NONE
  <2>2. SQ[q].id = ROB[x].id /\ SQ[q].data_index = i
    BY <2>1, <1>2 DEF SQLinked
  <2>3. x = o
    BY <2>2, <1>0, <1>1, OccupiedFacts
  <2> QED BY <2>2, <2>3
<1>6. StoresOf(x)' = {i \in DOMAIN Stores(x) :
                        \/ ROB[x].sq_index[i] = NONE
                        \/ SQ'[ROB[x].sq_index[i]].fetched # "COMPLETED"}
  BY DEF StoresOf, Stores, Instr
<1>7. CASE x = o
  <2>1. StoresOf(x)' = S \ {j}
    <3>1. q # NONE /\ q = ROB[x].sq_index[j]
      BY <1>1, <1>7 DEF SQSlots, NONE
    <3> QED BY <3>1, <1>3, <1>4, <1>5, <1>6 DEF StoresOf
  <2>2. j \in S
    <3>1. j \in DOMAIN Stores(x) /\ ROB[x].sq_index[j] = q
      BY <1>1, <1>7
    <3> QED BY <3>1 DEF StoresOf
  <2> HIDE DEF S
  <2>3. {j} \subseteq S /\ Cardinality({j}) = 1
    BY <2>2, FS_Singleton
  <2>4. /\ Cardinality(S \ {j}) \in Nat
        /\ Cardinality(S) = Cardinality({j}) + Cardinality(S \ {j})
    BY <2>3, <1>2, CountedApart
  <2>5. Cardinality(S) = Cardinality(S \ {j}) + 1
    BY <2>3, <2>4
  <2> QED BY <2>1, <2>4, <2>5, <1>7 DEF S
<1>8. CASE x # o
  <2>1. StoresOf(x)' = S
    BY <1>3, <1>4, <1>5, <1>6, <1>8 DEF StoresOf
  <2>2. Cardinality(S) \in Nat
    BY <1>2, FS_CardinalityType
  <2> QED BY <2>1, <2>2, <1>8
<1> QED BY <1>7, <1>8

\* A store wakes loads that wait for it, and those get its data.
LEMMA StoreSteps ==
  ASSUME CoreInv, MemInv, execute_store
  PROVE  CoreInv' /\ MemInv'
<1> DEFINE q == Head(RTS0)
           ls == Dependents(q)
<1>0. /\ FrontTypes /\ RobTypes /\ MemoryTypes /\ LQLinked /\ SQLinked
      /\ MemoryCounted /\ LSQReady /\ SQRing /\ StoresToCome /\ DataInv
  BY DEF CoreInv, MemInv
<1>1. /\ RTS0 # <<>> /\ \A l \in ls : ProducerOf(q, l)
      /\ SQ' = [SQ EXCEPT ![q].fetched = "COMPLETED"]
      /\ ROB' = [s \in Slots |->
            [ROB[s] EXCEPT !.num_mem_ops =
              @ - Operands(ls, s) - (IF s = SQ[q].rob_index THEN 1 ELSE 0)]]
      /\ LQ' = Released(ls)
      /\ loaded' = loaded \cup Got(ls, [a \in Addresses |-> SQ[q].id])
      /\ RTS0' = Tail(RTS0)
  BY DEF execute_store
<1>2. UNCHANGED <<trace, instr_unique_id, IFETCH_BUFFER, DECODE_BUFFER, SQ_head,
                  STA, RTL0, l1d, memory, lost, num_retired>>
  BY DEF execute_store, frontend, retired
<1>3. /\ q \in SQSlots /\ q \in Elements(RTS0)
      /\ SQ[q].id # NONE /\ SQ[q].fetched = "no" /\ SQ[q].id \in Nat
      /\ SQ[q].rob_index \in Slots /\ ROB[SQ[q].rob_index].id = SQ[q].id
      /\ ls \in SUBSET LQSlots
      /\ \A l \in ls : LQ[l].producer = SQ[q].id /\ LQ[l].id # NONE
  BY <1>0, <1>1, StoreFacts
<1>4. /\ RTS0 \in Seq(SQSlots) /\ Elements(RTS0) = {q} \cup Elements(Tail(RTS0))
      /\ Once(Tail(RTS0)) /\ q \notin Elements(Tail(RTS0))
  <2>1. RTS0 \in Seq(SQSlots) /\ Once(RTS0)
    BY <1>0 DEF MemoryTypes, LSQReady
  <2> QED BY <2>1, <1>1, OnceHead
<1>5. l1d \subseteq LQSlots
  BY <1>0 DEF MemoryTypes
<1> HIDE DEF q, ls
<1>6. ASSUME NEW x \in Slots
      PROVE  /\ ROB'[x].id = ROB[x].id /\ ROB'[x].executed = ROB[x].executed
             /\ ROB'[x].lq_index = ROB[x].lq_index
             /\ ROB'[x].sq_index = ROB[x].sq_index
             /\ ROB'[x].num_mem_ops = ROB[x].num_mem_ops - Operands(ls, x)
                                        - (IF x = SQ[q].rob_index THEN 1 ELSE 0)
  <2>1. ROB[x] \in LooseEntries
    BY <1>0, EntryFields
  <2>2. ROB'[x] = [ROB[x] EXCEPT !.num_mem_ops =
                @ - Operands(ls, x) - (IF x = SQ[q].rob_index THEN 1 ELSE 0)]
    BY <1>1
  <2> QED BY <2>1, <2>2 DEF LooseEntries
<1>7. ASSUME NEW p \in SQSlots
      PROVE  /\ SQ'[p].id = SQ[p].id /\ SQ'[p].address = SQ[p].address
             /\ SQ'[p].rob_index = SQ[p].rob_index
             /\ SQ'[p].data_index = SQ[p].data_index
             /\ SQ'[q].fetched = "COMPLETED" /\ (p # q => SQ'[p] = SQ[p])
  <2>1. SQ[p] \in LSQEntries /\ SQ[q] \in LSQEntries
    BY <1>0, <1>3 DEF MemoryTypes
  <2>2. /\ SQ'[q] = [SQ[q] EXCEPT !.fetched = "COMPLETED"]
        /\ p # q => SQ'[p] = SQ[p]
    BY <1>0, <1>1, <1>3 DEF MemoryTypes
  <2> QED BY <2>1, <2>2 DEF LSQEntries
<1>8. Dispatched' = Dispatched /\ RobStays
  BY <1>2, <1>6 DEF Dispatched, RobStays
<1>9. \A l \in LQSlots : LQ'[l] = IF l \in ls THEN NoLSQEntry ELSE LQ[l]
  BY <1>1 DEF Released
<1>10. LQLinked'
  <2>1. \A l \in LQSlots : LQ'[l] = NoLSQEntry \/ LQ'[l] = LQ[l]
    BY <1>9
  <2> QED BY <2>1, <1>0, <1>8, LQLinkedKept
<1>11. SQLinked'
  <2>1. \A p \in SQSlots :
           \/ SQ'[p] = SQ[p]
           \/ /\ SQ[p].id # NONE
              /\ SQ'[p].id = SQ[p].id /\ SQ'[p].address = SQ[p].address
              /\ SQ'[p].rob_index = SQ[p].rob_index
              /\ SQ'[p].data_index = SQ[p].data_index
    BY <1>3, <1>7
  <2> QED BY <2>1, <1>0, <1>8, SQLinkedKept
<1>12. ASSUME NEW x \in Slots PROVE Counted(x)'
  <2> DEFINE k == IF x = SQ[q].rob_index THEN 1 ELSE 0
  <2>1. k \in Nat /\ Counted(x)
    BY <1>0 DEF MemoryCounted
  <2>2. ~Occupied(x) => k = 0
    BY <1>3 DEF Occupied
  <2>3. Occupied(x) => /\ Cardinality(StoresOf(x)') \in Nat
                       /\ Cardinality(StoresOf(x)) = Cardinality(StoresOf(x)') + k
    BY <1>0, <1>1, <1>2, <1>3, <1>6, StoreCounted
  <2>4. ROB'[x].num_mem_ops = ROB[x].num_mem_ops - Operands(ls, x) - k
    BY <1>6
  <2> HIDE DEF k
  <2> QED BY <2>1, <2>2, <2>3, <2>4, <1>0, <1>1, <1>2, <1>3, <1>6, CountedReleased
<1>13. MemoryCounted'
  BY <1>12 DEF MemoryCounted
<1>14. LSQReady'
  <2>1. \A l \in ls : LQ[l].producer # NONE
    BY <1>3 DEF NONE
  <2>2. l1d' \subseteq l1d /\ l1d' \cap ls = {}
    BY <2>1, <1>0, <1>2 DEF LSQReady
  <2>3. /\ Once(RTL0)'
        /\ (Elements(RTL0) = {l \in LQSlots : /\ LQ[l].id # NONE
                                              /\ LQ[l].producer = NONE
                                              /\ LQ[l].fetched = "no"})'
        /\ (\A l \in l1d : /\ LQ[l].id # NONE /\ LQ[l].producer = NONE
                           /\ LQ[l].fetched = "INFLIGHT")'
    BY <2>1, <2>2, <1>0, <1>1, <1>2, <1>3, <1>5, ReadyReleased
  <2>4. Elements(RTS0') = {p \in SQSlots : /\ SQ'[p].id # NONE
                                           /\ SQ'[p].fetched = "no"}
    <3>1. Elements(RTS0') = Elements(RTS0) \ {q}
      BY <1>1, <1>4
    <3>2. Elements(RTS0) = {p \in SQSlots : /\ SQ[p].id # NONE
                                            /\ SQ[p].fetched = "no"}
      BY <1>0 DEF LSQReady
    <3> QED BY <3>1, <3>2, <1>7
  <2>5. Once(RTS0)' /\ Elements(RTS0)' = Elements(RTS0')
    BY <1>1, <1>4 DEF Once, Elements
  <2> QED BY <2>3, <2>4, <2>5 DEF LSQReady
<1>15. SQRing'
  BY <1>0, <1>2, <1>7, SQRingKept DEF MemoryTypes
<1>16. StoresToCome'
  BY <1>0, <1>2, <1>7, <1>8, StoresToComeKept
<1>17. DataInv'
  <2>1. ASSUME NEW l \in LQSlots, LQ'[l].id # NONE
        PROVE  /\ LQ'[l].id = LQ[l].id /\ LQ'[l].address = LQ[l].address
               /\ LQ'[l].producer = LQ[l].producer
    BY <2>1, <1>9 DEF NoLSQEntry
  <2>2. ASSUME NEW d \in loaded', d \notin loaded
        PROVE  /\ d \in [id : Nat, address : Addresses, from : Ids]
               /\ Sees(d.id, d.address, d.from)
    <3>1. PICK l \in ls : d = [id |-> LQ[l].id, address |-> LQ[l].address,
              from |-> [a \in Addresses |-> SQ[q].id][LQ[l].address]]
      BY <2>2, <1>1 DEF Got
    <3>2. LQ[l].id \in Nat /\ LQ[l].address \in Addresses
      BY <1>0, <1>3, LoadFacts
    <3>3. d = [id |-> LQ[l].id, address |-> LQ[l].address, from |-> SQ[q].id]
      BY <3>1, <3>2
    <3>4. d.id = LQ[l].id /\ d.address = LQ[l].address /\ d.from = SQ[q].id
      BY <3>3
    <3>5. LQ[l].producer # NONE
      BY <1>3 DEF NONE
    <3>6. LQ[l].producer \in StoreBefore(LQ[l].id, LQ[l].address)
      BY <3>5, <1>0, <1>3 DEF DataInv
    <3>7. SQ[q].id \in Ids
      BY <1>3 DEF Ids
    <3>8. Sees(d.id, d.address, d.from)
      BY <3>4, <3>6, <1>3, SeesLast
    <3> QED BY <3>2, <3>3, <3>7, <3>8
  <2> QED BY <2>1, <2>2, <1>0, <1>2, DataKept
<1> QED BY <1>0, <1>10, <1>11, <1>13, <1>14, <1>15, <1>16, <1>17, StoreKeeps
        DEF MemInv

-----------------------------------------------------------------------------
(* Instructions come *)

\* A sequence to which k copies of n are added at the end.
Copied(q, n, k) == q \o [i \in 1 .. k |-> n]

\* Sequence p is q with k copies of n after it.
CopiesFollow(p, q, n, k) ==
  /\ p \in Seq(Nat) /\ Len(p) = Len(q) + k
  /\ DOMAIN p = 1 .. Len(q) + k /\ DOMAIN q = 1 .. Len(q) /\ Len(q) \in Nat
  /\ \A i \in 1 .. Len(q) : p[i] = q[i]
  /\ \A i \in Len(q) + 1 .. Len(q) + k : p[i] = n
  /\ Cardinality(Len(q) + 1 .. Len(q) + k) = k

\* Where they are.
LEMMA CopiesAdded ==
  ASSUME NEW q \in Seq(Nat), NEW n \in Nat, NEW k \in Nat
  PROVE  CopiesFollow(Copied(q, n, k), q, n, k)
<1> DEFINE p == Copied(q, n, k)
           c == [i \in 1 .. k |-> n]
           m == Len(q)
<1>1. c \in Seq(Nat) /\ DOMAIN c = 1 .. k
  BY IsASeq
<1>2. Len(c) = k /\ m \in Nat /\ DOMAIN q = 1 .. m
  BY <1>1, LenProperties
<1>3. \A i \in 1 .. k : c[i] = n
  OBVIOUS
<1> HIDE DEF c, p
<1>4. /\ p \in Seq(Nat) /\ Len(p) = m + k
      /\ \A i \in 1 .. m + k : p[i] = IF i <= m THEN q[i] ELSE c[i - m]
  <2>1. p = q \o c
    BY DEF c, p, Copied
  <2>2. /\ q \o c \in Seq(Nat) /\ Len(q \o c) = Len(q) + Len(c)
        /\ \A i \in 1 .. Len(q) + Len(c) :
             (q \o c)[i] = IF i <= Len(q) THEN q[i] ELSE c[i - Len(q)]
    BY <1>1, ConcatProperties, Zenon
  <2> QED BY <2>1, <2>2, <1>2, Zenon
<1> HIDE DEF m
<1>5. DOMAIN p = 1 .. m + k
  BY <1>4, LenProperties
<1>6. ASSUME NEW i \in m + 1 .. m + k PROVE p[i] = n
  <2>1. i \in 1 .. m + k /\ ~(i <= m) /\ i - m \in 1 .. k
    BY <1>2
  <2> QED BY <2>1, <1>3, <1>4
<1>7. ASSUME NEW i \in 1 .. m PROVE p[i] = q[i]
  <2>1. i \in 1 .. m + k /\ i <= m
    BY <1>2
  <2> QED BY <2>1, <1>4
<1>8. Cardinality(m + 1 .. m + k) = k
  <2> DEFINE a == m + 1
             b == m + k
  <2>1. a \in Int /\ b \in Int
    BY <1>2
  <2>2. Cardinality(a .. b) = IF a > b THEN 0 ELSE b - a + 1
    <3> HIDE DEF a, b
    <3> QED BY <2>1, FS_Interval, Zenon
  <2>3. (IF a > b THEN 0 ELSE b - a + 1) = k
    BY <1>2
  <2> QED BY <2>2, <2>3
<1>9. CopiesFollow(p, q, n, k)
  BY <1>2, <1>4, <1>5, <1>6, <1>7, <1>8 DEF m, CopiesFollow
<1> QED BY <1>9 DEF p

\* The stores of an instruction that is read from the trace are the last to
\* come.
LEMMA ReadSteps ==
  ASSUME CoreInv, MemInv, read_from_trace
  PROVE  CoreInv' /\ MemInv'
<1> DEFINE n == instr_unique_id
           k == Len(trace[n].destination_memory)
           m == Len(STA)
<1>0. /\ FrontTypes /\ RobTypes /\ MemoryTypes /\ BuffersInOrder /\ Ring
      /\ SQLinked /\ StoresToCome
  BY DEF CoreInv, MemInv
<1>1. /\ n \in DOMAIN trace /\ n' = n + 1
      /\ UNCHANGED <<trace, DECODE_BUFFER, ROB, LQ, SQ, SQ_head, RTL0, RTS0, l1d,
                     loaded, num_retired, memory, lost>>
      /\ STA' = STA \o [i \in DOMAIN trace[n].destination_memory |-> n]
  BY DEF read_from_trace, retired
<1>2. /\ n \in Nat /\ k \in Nat /\ DOMAIN trace[n].destination_memory = 1 .. k
      /\ STA \in Seq(Nat)
  BY <1>0, <1>1, TraceFacts, LenProperties DEF MemoryTypes
<1>3. Dispatched' = Dispatched
  <2>1. PICK e : IFETCH_BUFFER' = Append(IFETCH_BUFFER, e) /\ e \in Fetches
    <3>1. PICK r \in Predictions(trace[n].branch) : IFETCH_BUFFER' =
            Append(IFETCH_BUFFER, [id |-> n, resumes |-> r, fetched |-> "no"])
      BY DEF read_from_trace
    <3>2. r \in Resumes
      BY <1>0, <1>1, TraceFacts DEF Predictions, Resumes
    <3>3. [id |-> n, resumes |-> r, fetched |-> "no"] \in Fetches
      BY <3>2, <1>2 DEF Fetches, Resumes, Status
    <3> QED BY <3>1, <3>3
  <2>2. Len(IFETCH_BUFFER') = Len(IFETCH_BUFFER) + 1
    BY <2>1, <1>0 DEF FrontTypes
  <2> QED BY <2>2, <1>0, <1>1, Numbers DEF Dispatched
<1>4. /\ Dispatched \in Nat /\ Dispatched <= n /\ num_retired \in Nat
  BY <1>0, Numbers
<1>5. /\ DOMAIN STA' = 1 .. m + k /\ DOMAIN STA = 1 .. m /\ m \in Nat
      /\ \A i \in 1 .. m : STA'[i] = STA[i]
      /\ \A i \in m + 1 .. m + k : STA'[i] = n
      /\ Cardinality(m + 1 .. m + k) = k
  <2>1. STA' = STA \o [i \in 1 .. k |-> n]
    BY <1>1, <1>2
  <2>2. STA' = Copied(STA, n, k)
    BY <2>1 DEF Copied
  <2> HIDE DEF k, n
  <2>3. n \in Nat /\ k \in Nat /\ STA \in Seq(Nat)
    BY <1>2
  <2>4. CopiesFollow(Copied(STA, n, k), STA, n, k)
    BY <2>3, CopiesAdded
  <2>5. CopiesFollow(STA', STA, n, k)
    BY <2>2, <2>4
  <2> QED BY <2>5 DEF CopiesFollow
<1>6. /\ \A i, j \in DOMAIN STA : i < j => STA[i] <= STA[j]
      /\ \A i \in DOMAIN STA : STA[i] < n
      /\ \A h \in num_retired .. n - 1 :
            Cardinality(Where(STA, h)) = Cardinality(Owed(h))
      /\ \A q \in Live : \A i \in DOMAIN STA : SQ[q].id <= STA[i]
      /\ \A x \in Slots : Occupied(x) =>
            \A j \in StoresLeft(x) : \A i \in DOMAIN Stores(x) :
              j < i => i \in StoresLeft(x)
  BY <1>0 DEF StoresToCome
<1>7. \A i \in 1 .. m : STA[i] \in Nat
  BY <1>2, ElementOfSeq
<1>8. \A i \in 1 .. m + k : i \in 1 .. m \/ i \in m + 1 .. m + k
  BY <1>2, <1>5
<1> HIDE DEF k, m
<1>9. ASSUME NEW i \in DOMAIN STA', NEW j \in DOMAIN STA', i < j
      PROVE  STA'[i] <= STA'[j]
  <2>1. CASE i \in 1 .. m /\ j \in 1 .. m
    BY <2>1, <1>5, <1>6, <1>9
  <2>2. CASE i \in 1 .. m /\ j \in m + 1 .. m + k
    <3>1. STA'[i] = STA[i] /\ STA[i] < n /\ STA[i] \in Nat /\ STA'[j] = n
      BY <2>2, <1>5, <1>6, <1>7
    <3> QED BY <3>1, <1>2
  <2>3. CASE i \in m + 1 .. m + k /\ j \in m + 1 .. m + k
    BY <2>3, <1>2, <1>5
  <2>4. CASE i \in m + 1 .. m + k /\ j \in 1 .. m
    BY <2>4, <1>2, <1>5, <1>9
  <2> QED BY <2>1, <2>2, <2>3, <2>4, <1>5, <1>8
<1>10. ASSUME NEW i \in DOMAIN STA' PROVE STA'[i] < n'
  <2>1. CASE i \in 1 .. m
    <3>1. STA'[i] = STA[i] /\ STA[i] < n /\ STA[i] \in Nat
      BY <2>1, <1>5, <1>6, <1>7
    <3> QED BY <3>1, <1>1, <1>2
  <2>2. CASE i \in m + 1 .. m + k
    BY <2>2, <1>1, <1>2, <1>5
  <2> QED BY <2>1, <2>2, <1>5, <1>8
<1>11. ASSUME NEW h \in num_retired .. n
       PROVE  Cardinality(Where(STA', h)) = Cardinality(Owed(h)')
  <2>1. h \in Nat /\ n' - 1 = n
    BY <1>1, <1>2, <1>4
  <2>2. CASE h = n
    <3>1. Where(STA', h) = m + 1 .. m + k
      <4>1. \A i \in 1 .. m : STA'[i] # n
        <5> TAKE i \in 1 .. m
        <5>1. STA'[i] = STA[i] /\ STA[i] < n /\ STA[i] \in Nat
          BY <1>5, <1>6, <1>7
        <5> QED BY <5>1, <1>2
      <4>2. \A i \in m + 1 .. m + k : i \in 1 .. m + k
        BY <1>2, <1>5
      <4> QED BY <4>1, <4>2, <2>2, <1>5, <1>8 DEF Where
    <3>2. Owed(h)' = 1 .. k
      <4>1. ~(h < Dispatched)
        BY <2>2, <1>2, <1>4
      <4> QED BY <4>1, <2>2, <1>1, <1>2, <1>3 DEF Owed
    <3>3. Cardinality(1 .. k) = k
      BY <1>2, IntervalSize
    <3> QED BY <3>1, <3>2, <3>3, <1>5
  <2>3. CASE h # n
    <3>1. h \in num_retired .. n - 1
      BY <2>1, <2>3, <1>2, <1>4
    <3>2. Where(STA', h) = Where(STA, h)
      <4>1. \A i \in m + 1 .. m + k : STA'[i] # h
        BY <2>3, <1>5
      <4>2. \A i \in 1 .. m : i \in 1 .. m + k
        BY <1>2, <1>5
      <4> QED BY <4>1, <4>2, <1>5, <1>8 DEF Where
    <3>3. Owed(h)' = Owed(h)
      BY <1>1, <1>3 DEF Owed, StoresLeft, Stores, Instr, slot
    <3> QED BY <3>1, <3>2, <3>3, <1>6
  <2> QED BY <2>2, <2>3
<1>12. ASSUME NEW q \in SQSlots, SQ[q].id # NONE, NEW i \in DOMAIN STA'
       PROVE  SQ[q].id <= STA'[i]
  <2>1. CASE i \in 1 .. m
    <3>1. q \in Live
      BY <1>12 DEF Live
    <3> QED BY <2>1, <3>1, <1>5, <1>6
  <2>2. CASE i \in m + 1 .. m + k
    <3>1. SQ[q].rob_index \in Slots /\ ROB[SQ[q].rob_index].id = SQ[q].id
      BY <1>0, <1>12 DEF SQLinked
    <3>2. SQ[q].id \in Nat /\ SQ[q].id < Dispatched
      BY <3>1, <1>0, <1>12, OccupiedFacts DEF Occupied
    <3>3. STA'[i] = n
      BY <2>2, <1>5
    <3> QED BY <3>2, <3>3, <1>2, <1>4
  <2> QED BY <2>1, <2>2, <1>5, <1>8
<1>13. StoresToCome'
  <2>1. \A q \in Live' : \A i \in DOMAIN STA' : SQ'[q].id <= STA'[i]
    BY <1>1, <1>12 DEF Live
  <2>2. \A x \in Slots : Occupied(x)' =>
            \A j \in StoresLeft(x)' : \A i \in DOMAIN Stores(x)' :
              j < i => i \in StoresLeft(x)'
    BY <1>1, <1>6 DEF Occupied, StoresLeft, Stores, Instr
  <2>3. n' - 1 = n
    BY <1>1, <1>2
  <2>4. \A h \in (num_retired .. n - 1)' :
          Cardinality(Where(STA', h)) = Cardinality(Owed(h)')
    BY <2>3, <1>1, <1>11
  <2> QED BY <2>1, <2>2, <2>4, <1>9, <1>10 DEF StoresToCome
<1>14. EntriesStay
  BY <1>1 DEF EntriesStay, RobStays
<1> QED BY <1>13, <1>14, EntriesKept, ReadKeeps DEF MemInv

\* What decode_and_dispatch does to ROB: instruction n gets a free slot, where
\* none of its operands has an entry.
Dispatches(n) ==
  /\ n = Dispatched /\ n \in Nat /\ n \in DOMAIN trace /\ Dispatched' = n + 1
  /\ slot(n) \in Slots /\ ~Occupied(slot(n)) /\ n < instr_unique_id
  /\ \A y \in Slots : y # slot(n) => ROB'[y] = ROB[y]
  /\ ROB'[slot(n)].id = n /\ ROB'[slot(n)].executed = "no"
  /\ ROB'[slot(n)].lq_index = [j \in DOMAIN trace[n].source_memory |-> NONE]
  /\ ROB'[slot(n)].sq_index = [j \in DOMAIN trace[n].destination_memory |-> NONE]
  /\ ROB'[slot(n)].num_mem_ops = Len(trace[n].source_memory)
                                   + Len(trace[n].destination_memory)
  /\ ROB'[slot(n)].mem_dependents = {}
  /\ UNCHANGED <<trace, instr_unique_id, LQ, SQ, SQ_head, STA, RTL0, RTS0, l1d,
                 loaded, num_retired, memory, lost>>

\* That is what it does.
LEMMA DispatchFacts ==
  ASSUME CoreInv, decode_and_dispatch
  PROVE  \E n \in Nat : Dispatches(n)
<1> DEFINE d == Head(DECODE_BUFFER)
           n == d.id
           x == slot(n)
           e == [NoEntry EXCEPT
             !.id = n, !.resumes = d.resumes,
             !.num_mem_ops = Len(trace[n].source_memory)
                               + Len(trace[n].destination_memory),
             !.lq_index = [j \in DOMAIN trace[n].source_memory |-> NONE],
             !.sq_index = [j \in DOMAIN trace[n].destination_memory |-> NONE]]
           M == Len(DECODE_BUFFER)
<1>0. /\ FrontTypes /\ RobTypes /\ BuffersInOrder
  BY DEF CoreInv
<1>1. /\ DECODE_BUFFER # <<>> /\ ~Occupied(x) /\ ROB' = [ROB EXCEPT ![x] = e]
      /\ DECODE_BUFFER' = Tail(DECODE_BUFFER)
      /\ UNCHANGED <<trace, instr_unique_id, IFETCH_BUFFER, LQ, SQ, SQ_head, STA,
                     RTL0, RTS0, l1d, loaded, num_retired, memory, lost>>
  BY DEF decode_and_dispatch, frontend, lsq, retired
<1>2. DECODE_BUFFER \in Seq(Decodes)
  BY <1>0 DEF FrontTypes
<1>3. /\ d \in Decodes /\ Len(Tail(DECODE_BUFFER)) = M - 1 /\ d = DECODE_BUFFER[1]
      /\ M \in Nat /\ M >= 1
  BY <1>1, <1>2, HeadTailProperties
<1>4. n \in Nat
  BY <1>3 DEF Decodes
<1>5. /\ Len(IFETCH_BUFFER) \in Nat /\ DOMAIN DECODE_BUFFER = 1 .. M
      /\ Dispatched \in Nat
      /\ Dispatched + M + Len(IFETCH_BUFFER) = instr_unique_id
      /\ instr_unique_id \in Nat
  BY <1>0, Numbers
<1>6. n = Dispatched
  <2>1. 1 \in DOMAIN DECODE_BUFFER
    BY <1>3, <1>5
  <2>2. DECODE_BUFFER[1].id = Dispatched + (1 - 1)
    BY <2>1, <1>0 DEF BuffersInOrder
  <2> QED BY <2>2, <1>3, <1>5
<1>7. n < instr_unique_id /\ n \in DOMAIN trace
  <2>1. n < instr_unique_id /\ n \in 0 .. instr_unique_id - 1
    BY <1>3, <1>5, <1>6
  <2> QED BY <2>1, <1>0 DEF BuffersInOrder
<1>8. Dispatched' = n + 1
  <2>1. Dispatched' = instr_unique_id - (Len(IFETCH_BUFFER) + (M - 1))
    BY <1>1, <1>3 DEF Dispatched
  <2> QED BY <2>1, <1>3, <1>5, <1>6
<1>9. x \in Slots
  BY <1>4, SlotOf
<1>10. /\ e.id = n /\ e.executed = "no" /\ e.mem_dependents = {}
       /\ e.lq_index = [j \in DOMAIN trace[n].source_memory |-> NONE]
       /\ e.sq_index = [j \in DOMAIN trace[n].destination_memory |-> NONE]
       /\ e.num_mem_ops = Len(trace[n].source_memory)
                            + Len(trace[n].destination_memory)
  BY DEF NoEntry
<1> HIDE DEF e, x, n
<1>11. ROB'[x] = e /\ \A s \in Slots : s # x => ROB'[s] = ROB[s]
  BY <1>0, <1>1, <1>9 DEF RobTypes
<1>12. Dispatches(n)
  BY <1>1, <1>4, <1>6, <1>7, <1>8, <1>9, <1>10, <1>11 DEF x, Dispatches
<1> QED BY <1>4, <1>12

\* All its operands are counted, and its stores are those that STA names.
LEMMA DispatchSteps ==
  ASSUME CoreInv, MemInv, decode_and_dispatch
  PROVE  CoreInv' /\ MemInv'
<1>0. /\ FrontTypes /\ RobTypes /\ MemoryTypes /\ BuffersInOrder /\ Ring
      /\ LQLinked /\ SQLinked /\ MemoryCounted /\ LSQReady /\ SQRing
      /\ StoresToCome /\ DataInv
  BY DEF CoreInv, MemInv
<1>1. PICK n \in Nat : Dispatches(n)
  BY DispatchFacts
<1> DEFINE x == slot(n)
           sm == trace[n].source_memory
           dm == trace[n].destination_memory
<1>2. /\ n = Dispatched /\ n \in DOMAIN trace /\ Dispatched' = n + 1
      /\ x \in Slots /\ ~Occupied(x) /\ n < instr_unique_id
      /\ \A y \in Slots : y # x => ROB'[y] = ROB[y]
      /\ ROB'[x].id = n /\ ROB'[x].executed = "no"
      /\ ROB'[x].lq_index = [j \in DOMAIN sm |-> NONE]
      /\ ROB'[x].sq_index = [j \in DOMAIN dm |-> NONE]
      /\ ROB'[x].num_mem_ops = Len(sm) + Len(dm)
      /\ UNCHANGED <<trace, instr_unique_id, LQ, SQ, SQ_head, STA, RTL0, RTS0, l1d,
                     loaded, num_retired, memory, lost>>
  BY <1>1 DEF Dispatches
<1>3. /\ Len(sm) \in Nat /\ DOMAIN sm = 1 .. Len(sm)
      /\ Len(dm) \in Nat /\ DOMAIN dm = 1 .. Len(dm)
  BY <1>0, <1>2, TraceFacts, LenProperties
<1>4. num_retired \in Nat /\ num_retired <= Dispatched /\ instr_unique_id \in Nat
  BY <1>0, Numbers
<1>5. trace'[ROB'[x].id] = trace[n]
  BY <1>2
<1> HIDE DEF x
<1>6. \A y \in Slots : y # x => Instr(y)' = Instr(y)
  BY <1>2 DEF Instr
<1>7. \A l \in LQSlots : LQ[l].rob_index # x
  <2> SUFFICES ASSUME NEW l \in LQSlots, LQ[l].rob_index = x PROVE FALSE
    OBVIOUS
  <2>1. LQ[l].id # NONE
    <3>1. NoLSQEntry.rob_index = NONE /\ x # NONE
      BY <1>2, CoreAssumption DEF NoLSQEntry, Slots, NONE
    <3> QED BY <3>1, <1>0 DEF LQLinked
  <2>2. ROB[x].id = LQ[l].id
    BY <2>1, <1>0 DEF LQLinked
  <2> QED BY <2>1, <2>2, <1>2 DEF Occupied
<1>8. LQLinked'
  <2>1. ASSUME NEW l \in LQSlots, LQ[l].id # NONE
        PROVE  /\ LQ[l].rob_index \in Slots /\ ROB'[LQ[l].rob_index].id = LQ[l].id
               /\ LQ[l].data_index
                    \in DOMAIN trace'[ROB'[LQ[l].rob_index].id].source_memory
               /\ ROB'[LQ[l].rob_index].lq_index[LQ[l].data_index] = l
               /\ LQ[l].address = trace'[ROB'[LQ[l].rob_index].id]
                                        .source_memory[LQ[l].data_index]
    <3>1. /\ LQ[l].rob_index \in Slots /\ ROB[LQ[l].rob_index].id = LQ[l].id
          /\ LQ[l].data_index \in DOMAIN Loads(LQ[l].rob_index)
          /\ ROB[LQ[l].rob_index].lq_index[LQ[l].data_index] = l
          /\ LQ[l].address = Loads(LQ[l].rob_index)[LQ[l].data_index]
      BY <2>1, <1>0 DEF LQLinked
    <3>2. ROB'[LQ[l].rob_index] = ROB[LQ[l].rob_index]
      BY <3>1, <1>2, <1>7
    <3> QED BY <3>1, <3>2, <1>2 DEF Loads, Instr
  <2>2. \A l \in LQSlots : LQ[l].id = NONE => LQ[l] = NoLSQEntry
    BY <1>0 DEF LQLinked
  <2> QED BY <2>1, <2>2, <1>2 DEF LQLinked, Loads, Instr
<1>9. SQLinked'
  <2>1. ASSUME NEW q \in SQSlots, SQ[q].id # NONE
        PROVE  /\ SQ[q].rob_index \in Slots /\ ROB'[SQ[q].rob_index].id = SQ[q].id
               /\ SQ[q].data_index
                    \in DOMAIN trace'[ROB'[SQ[q].rob_index].id].destination_memory
               /\ ROB'[SQ[q].rob_index].sq_index[SQ[q].data_index] = q
               /\ SQ[q].address = trace'[ROB'[SQ[q].rob_index].id]
                                    .destination_memory[SQ[q].data_index]
    <3>1. /\ SQ[q].rob_index \in Slots /\ ROB[SQ[q].rob_index].id = SQ[q].id
          /\ SQ[q].data_index \in DOMAIN Stores(SQ[q].rob_index)
          /\ ROB[SQ[q].rob_index].sq_index[SQ[q].data_index] = q
          /\ SQ[q].address = Stores(SQ[q].rob_index)[SQ[q].data_index]
      BY <2>1, <1>0 DEF SQLinked
    <3>2. SQ[q].rob_index # x
      BY <3>1, <2>1, <1>2 DEF Occupied
    <3>3. ROB'[SQ[q].rob_index] = ROB[SQ[q].rob_index]
      BY <3>1, <3>2, <1>2
    <3> QED BY <3>1, <3>3, <1>2 DEF Stores, Instr
  <2>2. \A q \in SQSlots : SQ[q].id = NONE => SQ[q] = NoLSQEntry
    BY <1>0 DEF SQLinked
  <2>3. ASSUME NEW y \in Slots, NEW j \in DOMAIN ROB'[y].sq_index,
               ROB'[y].sq_index[j] # NONE
        PROVE  /\ SQ[ROB'[y].sq_index[j]].id = ROB'[y].id
               /\ SQ[ROB'[y].sq_index[j]].data_index = j
    <3>1. y # x
      BY <2>3, <1>2
    <3>2. ROB'[y] = ROB[y]
      BY <3>1, <1>2
    <3> QED BY <2>3, <3>2, <1>0 DEF SQLinked
  <2>4. SQ' = SQ
    BY <1>2
  <2> QED BY <2>1, <2>2, <2>3, <2>4 DEF SQLinked, Stores, Instr
<1>10. StoresLeft(x)' = DOMAIN dm
  BY <1>2, <1>5 DEF StoresLeft, Stores, Instr
<1>11. Counted(x)'
  <2>1. LoadsLeft(x)' = DOMAIN sm
    BY <1>2, <1>5 DEF LoadsLeft, Loads, Instr
  <2>2. StoresOf(x)' = DOMAIN dm
    BY <1>2, <1>5 DEF StoresOf, Stores, Instr
  <2>3. LoadsOf(x)' = {}
    BY <1>2, <1>7 DEF LoadsOf
  <2>4. /\ Cardinality(DOMAIN sm) = Len(sm) /\ Cardinality(DOMAIN dm) = Len(dm)
        /\ Cardinality({}) = 0
    BY <1>3, IntervalSize, FS_EmptySet
  <2>5. Len(sm) + Len(dm) = Len(sm) + 0 + Len(dm)
    BY <1>3
  <2>6. ROB'[x].num_mem_ops = Cardinality(LoadsLeft(x)')
            + Cardinality(LoadsOf(x)') + Cardinality(StoresOf(x)')
    BY <2>1, <2>2, <2>3, <2>4, <2>5, <1>2
  <2>7. Occupied(x)'
    BY <1>2 DEF Occupied, NONE
  <2> QED BY <2>6, <2>7, <1>2 DEF Counted
<1>12. ASSUME NEW y \in Slots, y # x PROVE Counted(y)'
  <2>1. Counted(y)
    BY <1>0 DEF MemoryCounted
  <2>2. LoadsOf(y)' = LoadsOf(y) /\ StoresOf(y)' = StoresOf(y)
    BY <1>2, <1>6, <1>12 DEF LoadsOf, StoresOf, Stores
  <2> QED BY <2>1, <2>2, <1>2, <1>12, CountedKept
<1>13. MemoryCounted'
  BY <1>11, <1>12 DEF MemoryCounted
<1>14. LSQReady'
  BY <1>0, <1>2 DEF LSQReady, Once, Elements
<1>15. SQRing'
  BY <1>0, <1>2, SQRingKept DEF MemoryTypes
<1>16. DataInv'
  BY <1>0, <1>2, DataKept
<1>17. StoresToCome'
  <2>1. /\ \A i, j \in DOMAIN STA : i < j => STA[i] <= STA[j]
        /\ \A i \in DOMAIN STA : STA[i] < instr_unique_id
        /\ \A h \in num_retired .. instr_unique_id - 1 :
              Cardinality(Where(STA, h)) = Cardinality(Owed(h))
        /\ \A q \in Live : \A i \in DOMAIN STA : SQ[q].id <= STA[i]
        /\ \A y \in Slots : Occupied(y) =>
              \A j \in StoresLeft(y) : \A i \in DOMAIN Stores(y) :
                j < i => i \in StoresLeft(y)
    BY <1>0 DEF StoresToCome
  <2>2. \A y \in Slots : y # x =>
          /\ Occupied(y)' <=> Occupied(y)
          /\ Stores(y)' = Stores(y) /\ StoresLeft(y)' = StoresLeft(y)
    BY <1>2, <1>6 DEF Occupied, Stores, StoresLeft
  <2>3. ASSUME NEW h \in num_retired .. instr_unique_id - 1
        PROVE  Owed(h)' = Owed(h)
    <3>0. h \in Nat /\ (h < n + 1 <=> h < n \/ h = n)
      BY <1>4
    <3>1. Owed(h)' = IF h < n + 1 THEN StoresLeft(slot(h))'
                     ELSE DOMAIN trace[h].destination_memory
      BY <1>2 DEF Owed, slot
    <3>2. CASE h = n
      <4>1. Owed(h)' = StoresLeft(x)'
        BY <3>0, <3>1, <3>2 DEF x, slot
      <4>2. Owed(h) = DOMAIN dm
        BY <3>2, <1>2 DEF Owed
      <4> QED BY <4>1, <4>2, <1>10
    <3>3. CASE h < n
      <4>1. ROB[slot(h)].id = h /\ slot(h) \in Slots
        <5>1. h \in num_retired .. Dispatched - 1
          BY <3>3, <3>0, <1>2, <1>4
        <5> QED BY <5>1, <3>0, <1>0, SlotOf DEF Ring
      <4>2. slot(h) # x
        BY <4>1, <3>0, <1>2 DEF Occupied, NONE
      <4>3. PICK y \in Slots : y = slot(h)
        BY <4>1
      <4>4. StoresLeft(y)' = StoresLeft(y)
        BY <4>2, <4>3, <2>2
      <4> QED BY <4>3, <4>4, <3>0, <3>1, <3>3, <1>2 DEF Owed, slot
    <3>4. CASE ~(h < n + 1)
      BY <3>0, <3>1, <3>4, <1>2 DEF Owed
    <3> QED BY <3>0, <3>2, <3>3, <3>4
  <2>4. ASSUME NEW y \in Slots, Occupied(y)', NEW j \in StoresLeft(y)',
               NEW i \in DOMAIN Stores(y)', j < i
        PROVE  i \in StoresLeft(y)'
    <3>1. CASE y = x
      <4>1. Stores(x)' = dm
        BY <1>5 DEF Stores, Instr
      <4> QED BY <4>1, <3>1, <2>4, <1>10
    <3>2. CASE y # x
      BY <3>2, <2>1, <2>2, <2>4
    <3> QED BY <3>1, <3>2
  <2>5. \A q \in Live' : \A i \in DOMAIN STA' : SQ'[q].id <= STA'[i]
    BY <2>1, <1>2 DEF Live
  <2> QED BY <2>1, <2>3, <2>4, <2>5, <1>2 DEF StoresToCome
<1> QED BY <1>8, <1>9, <1>13, <1>14, <1>15, <1>16, <1>17, DispatchKeeps DEF MemInv

-----------------------------------------------------------------------------
(* Instructions retire *)

\* What retire_rob does: the oldest instruction leaves ROB, slot s, and its
\* stores, which have all executed, leave SQ.
Retires(s) ==
  /\ s \in Slots /\ s = slot(num_retired) /\ ROB[s].id = num_retired
  /\ num_retired \in Nat /\ num_retired < Dispatched /\ Occupied(s)
  /\ StoresLeft(s) = {} /\ LoadsOf(s) = {}
  /\ \A j \in DOMAIN Stores(s) :
       /\ ROB[s].sq_index[j] \in SQSlots
       /\ SQ[ROB[s].sq_index[j]].id = num_retired
       /\ SQ[ROB[s].sq_index[j]].data_index = j
  /\ \A q \in SQSlots : SQ[q].id = num_retired =>
       /\ SQ[q].rob_index = s /\ SQ[q].data_index \in DOMAIN Stores(s)
       /\ ROB[s].sq_index[SQ[q].data_index] = q
       /\ SQ[q].fetched = "COMPLETED"
  /\ ROB'[s] = NoEntry /\ \A y \in Slots : y # s => ROB'[y] = ROB[y]
  /\ \A q \in SQSlots :
       SQ'[q] = IF SQ[q].id = num_retired THEN NoLSQEntry ELSE SQ[q]
  /\ SQ_head' = (SQ_head + Len(Stores(s))) % SQ_SIZE
  /\ lost \subseteq lost'
  /\ \A a \in Addresses :
       \/ Writes(Instr(s), a) /\ memory'[a] = num_retired
       \/ /\ memory'[a] = memory[a]
          /\ Writes(Instr(s), a) =>
               [id |-> num_retired, address |-> a] \in lost'
  /\ num_retired' = num_retired + 1 /\ Dispatched' = Dispatched
  /\ UNCHANGED <<trace, instr_unique_id, LQ, STA, RTL0, RTS0, l1d, loaded>>

\* That is what it does: an instruction that has executed waits for nothing.
LEMMA RetireFacts ==
  ASSUME CoreInv, MemInv, retire_rob
  PROVE  \E s \in Slots : Retires(s)
<1> DEFINE s == slot(num_retired)
           n == num_retired
<1>0. /\ FrontTypes /\ RobTypes /\ MemoryTypes /\ BuffersInOrder /\ Ring
      /\ LQLinked /\ SQLinked /\ MemoryCounted
  BY DEF CoreInv, MemInv
<1>1. /\ Occupied(s) /\ ROB[s].executed = "COMPLETED"
      /\ memory' = [a \in Addresses |->
           IF Writes(Instr(s), a) /\ a \in wq' THEN ROB[s].id ELSE memory[a]]
      /\ lost' = lost \cup
           {[id |-> ROB[s].id, address |-> a] : a \in Elements(Stores(s)) \ wq'}
      /\ SQ' = [q \in SQSlots |->
              IF q \in Elements(ROB[s].sq_index) THEN NoLSQEntry ELSE SQ[q]]
      /\ SQ_head' = (SQ_head + Len(Stores(s))) % SQ_SIZE
      /\ ROB' = [ROB EXCEPT ![s] = NoEntry]
      /\ num_retired' = n + 1
      /\ UNCHANGED <<trace, instr_unique_id, IFETCH_BUFFER, DECODE_BUFFER, LQ, STA,
                     RTL0, RTS0, l1d, loaded>>
  BY DEF retire_rob, frontend
<1>2. s \in Slots /\ ROB[s].id = n /\ n < Dispatched /\ n \in Nat
  BY <1>0, <1>1, OldestFacts, Numbers
<1>3. Dispatched' = Dispatched
  BY <1>1 DEF Dispatched
<1> HIDE DEF s
<1>4. ROB'[s] = NoEntry /\ \A x \in Slots : x # s => ROB'[x] = ROB[x]
  BY <1>0, <1>1, <1>2 DEF RobTypes
<1>5. /\ DOMAIN ROB[s].sq_index = DOMAIN Stores(s)
      /\ DOMAIN ROB[s].lq_index = DOMAIN Loads(s)
      /\ IsFiniteSet(LoadsOf(s)) /\ IsFiniteSet(StoresOf(s))
      /\ IsFiniteSet(LoadsLeft(s))
      /\ Loads(s) \in Seq(Addresses) /\ Stores(s) \in Seq(Addresses)
  BY <1>1, <1>2, OperandFacts
<1>6. /\ StoresLeft(s) = {} /\ StoresOf(s) = {} /\ LoadsOf(s) = {}
  <2>1. CASE is_memory(s)
    <3>1. /\ StoresLeft(s) = {} /\ ROB[s].num_mem_ops = 0
          /\ ROB[s].num_mem_ops = Cardinality(LoadsLeft(s))
               + Cardinality(LoadsOf(s)) + Cardinality(StoresOf(s))
      BY <2>1, <1>0, <1>1, <1>2 DEF MemoryCounted, Counted
    <3>2. /\ Cardinality(LoadsLeft(s)) \in Nat /\ Cardinality(LoadsOf(s)) \in Nat
          /\ Cardinality(StoresOf(s)) \in Nat
      BY <1>5, FS_CardinalityType
    <3>3. Cardinality(LoadsOf(s)) = 0 /\ Cardinality(StoresOf(s)) = 0
      BY <3>1, <3>2
    <3> QED BY <3>1, <3>3, <1>5, FS_EmptySet
  <2>2. CASE ~is_memory(s)
    <3>1. DOMAIN Loads(s) = {} /\ DOMAIN Stores(s) = {}
      <4>1. Loads(s) = <<>> /\ Stores(s) = <<>>
        BY <2>2 DEF is_memory
      <4> QED BY <4>1
    <3>2. StoresLeft(s) = {} /\ StoresOf(s) = {}
      BY <3>1 DEF StoresLeft, StoresOf
    <3>3. LoadsOf(s) = {}
      <4> SUFFICES ASSUME NEW l \in LQSlots, LQ[l].rob_index = s PROVE FALSE
        BY DEF LoadsOf
      <4>1. LQ[l].id # NONE
        <5>1. NoLSQEntry.rob_index = NONE /\ s # NONE
          BY <1>2, CoreAssumption DEF NoLSQEntry, Slots, NONE
        <5> QED BY <5>1, <1>0 DEF LQLinked
      <4>2. LQ[l].data_index \in DOMAIN Loads(s)
        BY <4>1, <1>0 DEF LQLinked
      <4> QED BY <4>2, <3>1
    <3> QED BY <3>2, <3>3
  <2> QED BY <2>1, <2>2
<1>7. ASSUME NEW j \in DOMAIN Stores(s)
      PROVE  /\ ROB[s].sq_index[j] \in SQSlots
             /\ ROB[s].sq_index[j] \in Elements(ROB[s].sq_index)
             /\ SQ[ROB[s].sq_index[j]].id = n
             /\ SQ[ROB[s].sq_index[j]].data_index = j
             /\ SQ[ROB[s].sq_index[j]].fetched = "COMPLETED"
  <2>1. ROB[s].sq_index[j] # NONE
    BY <1>6 DEF StoresLeft
  <2>2. ROB[s].sq_index \in Seq(SQSlots \cup {NONE})
    BY <1>0, <1>2, EntryFields
  <2>3. ROB[s].sq_index[j] \in SQSlots
    BY <2>1, <2>2, <1>5, LenProperties, ElementOfSeq
  <2>4. SQ[ROB[s].sq_index[j]].fetched = "COMPLETED"
    BY <1>6 DEF StoresOf
  <2>5. ROB[s].sq_index[j] \in Elements(ROB[s].sq_index)
    BY <1>5 DEF Elements
  <2> QED BY <2>1, <2>3, <2>4, <2>5, <1>0, <1>2, <1>5 DEF SQLinked
<1>8. ASSUME NEW q \in SQSlots, SQ[q].id = n
      PROVE  /\ SQ[q].rob_index = s /\ SQ[q].data_index \in DOMAIN Stores(s)
             /\ ROB[s].sq_index[SQ[q].data_index] = q
             /\ SQ[q].fetched = "COMPLETED"
             /\ q \in Elements(ROB[s].sq_index)
  <2>1. n # NONE
    BY <1>2 DEF NONE
  <2>2. /\ SQ[q].rob_index \in Slots /\ ROB[SQ[q].rob_index].id = n
        /\ SQ[q].data_index \in DOMAIN Stores(SQ[q].rob_index)
        /\ ROB[SQ[q].rob_index].sq_index[SQ[q].data_index] = q
    BY <2>1, <1>0, <1>8 DEF SQLinked
  <2>3. SQ[q].rob_index = s
    BY <2>2, <1>0, <1>1, <1>2, OccupiedFacts
  <2> QED BY <2>2, <2>3, <1>7
<1>9. \A q \in SQSlots : q \in Elements(ROB[s].sq_index) <=> SQ[q].id = n
  <2> SUFFICES ASSUME NEW q \in Elements(ROB[s].sq_index) PROVE SQ[q].id = n
    BY <1>8
  <2>1. PICK j \in DOMAIN ROB[s].sq_index : q = ROB[s].sq_index[j]
    BY DEF Elements
  <2> QED BY <2>1, <1>5, <1>7
<1>10. \A q \in SQSlots : SQ'[q] = IF SQ[q].id = n THEN NoLSQEntry ELSE SQ[q]
  BY <1>1, <1>9
<1>11. /\ lost \subseteq lost'
       /\ \A a \in Addresses :
            \/ Writes(Instr(s), a) /\ memory'[a] = n
            \/ /\ memory'[a] = memory[a]
               /\ Writes(Instr(s), a) => [id |-> n, address |-> a] \in lost'
  <2>1. \A a : Writes(Instr(s), a) <=> a \in Elements(Stores(s))
    BY DEF Writes, Stores
  <2> QED BY <2>1, <1>1, <1>2
<1>12. Retires(s)
  BY <1>1, <1>2, <1>3, <1>4, <1>6, <1>7, <1>8, <1>10, <1>11 DEF s, Retires
<1> QED BY <1>2, <1>12

\* What remains in LQ and SQ stays linked to ROB and counted.
LEMMA RetireLinks ==
  ASSUME CoreInv, MemInv, NEW s \in Slots, Retires(s)
  PROVE  LQLinked' /\ SQLinked' /\ MemoryCounted' /\ LSQReady'
<1> DEFINE n == num_retired
<1>0. /\ FrontTypes /\ RobTypes /\ MemoryTypes /\ BuffersInOrder /\ Ring
      /\ LQLinked /\ SQLinked /\ MemoryCounted /\ LSQReady
  BY DEF CoreInv, MemInv
<1>1. /\ ROB[s].id = n /\ n \in Nat /\ Occupied(s) /\ LoadsOf(s) = {}
      /\ ROB'[s] = NoEntry /\ \A y \in Slots : y # s => ROB'[y] = ROB[y]
      /\ \A q \in SQSlots : SQ'[q] = IF SQ[q].id = n THEN NoLSQEntry ELSE SQ[q]
      /\ \A q \in SQSlots : SQ[q].id = n => /\ SQ[q].rob_index = s
                                            /\ SQ[q].fetched = "COMPLETED"
      /\ UNCHANGED <<trace, LQ, RTL0, RTS0, l1d>>
  BY DEF Retires
<1>2. \A y \in Slots : y # s => Instr(y)' = Instr(y) /\ ROB[y].id # n
  BY <1>0, <1>1, OccupiedFacts DEF Instr
<1>3. NoLSQEntry.id = NONE
  BY DEF NoLSQEntry
<1>4. LQLinked'
  <2>1. ASSUME NEW l \in LQSlots, LQ[l].id # NONE
        PROVE  /\ LQ[l].rob_index \in Slots /\ ROB'[LQ[l].rob_index].id = LQ[l].id
               /\ LQ[l].data_index
                    \in DOMAIN trace'[ROB'[LQ[l].rob_index].id].source_memory
               /\ ROB'[LQ[l].rob_index].lq_index[LQ[l].data_index] = l
               /\ LQ[l].address = trace'[ROB'[LQ[l].rob_index].id]
                                        .source_memory[LQ[l].data_index]
    <3>1. /\ LQ[l].rob_index \in Slots /\ ROB[LQ[l].rob_index].id = LQ[l].id
          /\ LQ[l].data_index \in DOMAIN Loads(LQ[l].rob_index)
          /\ ROB[LQ[l].rob_index].lq_index[LQ[l].data_index] = l
          /\ LQ[l].address = Loads(LQ[l].rob_index)[LQ[l].data_index]
      BY <2>1, <1>0 DEF LQLinked
    <3>2. LQ[l].rob_index # s
      BY <1>1 DEF LoadsOf
    <3>3. ROB'[LQ[l].rob_index] = ROB[LQ[l].rob_index]
      BY <3>1, <3>2, <1>1
    <3> QED BY <3>1, <3>3, <1>1 DEF Loads, Instr
  <2>2. \A l \in LQSlots : LQ[l].id = NONE => LQ[l] = NoLSQEntry
    BY <1>0 DEF LQLinked
  <2> QED BY <2>1, <2>2, <1>1 DEF LQLinked, Loads, Instr
<1>5. SQLinked'
  <2>1. ASSUME NEW q \in SQSlots, SQ'[q].id # NONE
        PROVE  /\ SQ'[q].rob_index \in Slots
               /\ ROB'[SQ'[q].rob_index].id = SQ'[q].id
               /\ SQ'[q].data_index
                    \in DOMAIN trace'[ROB'[SQ'[q].rob_index].id].destination_memory
               /\ ROB'[SQ'[q].rob_index].sq_index[SQ'[q].data_index] = q
               /\ SQ'[q].address = trace'[ROB'[SQ'[q].rob_index].id]
                                    .destination_memory[SQ'[q].data_index]
    <3>1. SQ'[q] = SQ[q] /\ SQ[q].id # n /\ SQ[q].id # NONE
      BY <2>1, <1>1, <1>3
    <3>2. /\ SQ[q].rob_index \in Slots /\ ROB[SQ[q].rob_index].id = SQ[q].id
          /\ SQ[q].data_index \in DOMAIN Stores(SQ[q].rob_index)
          /\ ROB[SQ[q].rob_index].sq_index[SQ[q].data_index] = q
          /\ SQ[q].address = Stores(SQ[q].rob_index)[SQ[q].data_index]
      BY <3>1, <1>0 DEF SQLinked
    <3>3. SQ[q].rob_index # s
      BY <3>1, <3>2, <1>1
    <3>4. ROB'[SQ[q].rob_index] = ROB[SQ[q].rob_index]
      BY <3>2, <3>3, <1>1
    <3> QED BY <3>1, <3>2, <3>4, <1>1 DEF Stores, Instr
  <2>2. \A q \in SQSlots : SQ'[q].id = NONE => SQ'[q] = NoLSQEntry
    BY <1>0, <1>1 DEF SQLinked
  <2>3. ASSUME NEW y \in Slots, NEW j \in DOMAIN ROB'[y].sq_index,
               ROB'[y].sq_index[j] # NONE
        PROVE  /\ SQ'[ROB'[y].sq_index[j]].id = ROB'[y].id
               /\ SQ'[ROB'[y].sq_index[j]].data_index = j
    <3>1. y # s
      <4>1. NoEntry.sq_index = <<>> /\ DOMAIN <<>> = {}
        BY DEF NoEntry
      <4> QED BY <4>1, <2>3, <1>1
    <3>2. ROB'[y] = ROB[y]
      BY <3>1, <1>1
    <3> DEFINE q == ROB[y].sq_index[j]
    <3>3. SQ[q].id = ROB[y].id /\ SQ[q].data_index = j /\ q # NONE
      BY <2>3, <3>2, <1>0 DEF SQLinked
    <3>4. q \in SQSlots
      <4>1. ROB[y].sq_index \in Seq(SQSlots \cup {NONE})
        BY <1>0, EntryFields
      <4> QED BY <4>1, <2>3, <3>2, <3>3, LenProperties, ElementOfSeq
    <3> HIDE DEF q
    <3>5. SQ'[q] = SQ[q]
      BY <3>1, <3>3, <3>4, <1>1, <1>2
    <3> QED BY <3>2, <3>3, <3>5 DEF q
  <2> QED BY <2>1, <2>2, <2>3 DEF SQLinked, Stores, Instr
<1>6. ASSUME NEW y \in Slots, y # s PROVE Counted(y)'
  <2>1. Counted(y)
    BY <1>0 DEF MemoryCounted
  <2>2. LoadsOf(y)' = LoadsOf(y)
    BY <1>1 DEF LoadsOf
  <2>3. Occupied(y) => StoresOf(y)' = StoresOf(y)
    <3> SUFFICES ASSUME Occupied(y) PROVE StoresOf(y)' = StoresOf(y)
      OBVIOUS
    <3>1. ROB'[y] = ROB[y] /\ Stores(y)' = Stores(y)
      BY <1>1, <1>2, <1>6 DEF Stores
    <3>2. ASSUME NEW j \in DOMAIN Stores(y), ROB[y].sq_index[j] # NONE
          PROVE  SQ'[ROB[y].sq_index[j]] = SQ[ROB[y].sq_index[j]]
      <4>1. DOMAIN ROB[y].sq_index = DOMAIN Stores(y)
        BY OperandFacts
      <4>2. SQ[ROB[y].sq_index[j]].id = ROB[y].id
        BY <4>1, <3>2, <1>0 DEF SQLinked
      <4>3. ROB[y].sq_index[j] \in SQSlots
        <5>1. ROB[y].sq_index \in Seq(SQSlots \cup {NONE})
          BY <1>0, EntryFields
        <5> QED BY <5>1, <4>1, <3>2, LenProperties, ElementOfSeq
      <4> QED BY <4>2, <4>3, <1>1, <1>2, <1>6
    <3> QED BY <3>1, <3>2 DEF StoresOf
  <2> QED BY <2>1, <2>2, <2>3, <1>1, <1>6, CountedKept
<1>7. Counted(s)'
  <2>1. NoEntry.id = NONE /\ NoEntry.num_mem_ops = 0
    BY DEF NoEntry
  <2> QED BY <2>1, <1>1 DEF Counted, Occupied
<1>8. MemoryCounted'
  BY <1>6, <1>7 DEF MemoryCounted
<1>9. LSQReady'
  <2>1. {q \in SQSlots : SQ'[q].id # NONE /\ SQ'[q].fetched = "no"}
          = {q \in SQSlots : SQ[q].id # NONE /\ SQ[q].fetched = "no"}
    BY <1>1, <1>3
  <2>2. Elements(RTS0) = {q \in SQSlots : SQ[q].id # NONE /\ SQ[q].fetched = "no"}
    BY <1>0 DEF LSQReady
  <2>3. Elements(RTS0') = {q \in SQSlots : SQ'[q].id # NONE /\ SQ'[q].fetched = "no"}
    BY <2>1, <2>2, <1>1
  <2> QED BY <2>3, <1>0, <1>1 DEF LSQReady, Once, Elements
<1> QED BY <1>4, <1>5, <1>8, <1>9

\* Adding up to a ring's size to a place in the ring.
LEMMA Wrapping ==
  ASSUME NEW S \in Nat \ {0}, NEW x \in 0 .. S + S - 1
  PROVE  x % S = IF x < S THEN x ELSE x - S
<1>1. CASE x \in 0 .. S - 1
  BY <1>1
<1>2. CASE x \in S .. S + S - 1
  BY <1>2
<1> QED BY <1>1, <1>2

\* When the head of SQ moves, what was farther from it comes nearer.
LEMMA PlacesShift ==
  ASSUME SQ_head \in SQSlots, NEW m \in Nat, NEW k \in Nat, k + m < SQ_SIZE,
         SQ_head' = (SQ_head + m) % SQ_SIZE
  PROVE  (SQ_head' + k) % SQ_SIZE = at(k + m)
<1> DEFINE S == SQ_SIZE
           h == SQ_head
           g == SQ_head'
<1>1. /\ S \in Nat \ {0} /\ h \in 0 .. S - 1 /\ g = (h + m) % S
      /\ at(k + m) = (h + (k + m)) % S /\ k + m < S
  BY CoreAssumption DEF SQSlots, at
<1> HIDE DEF S, h, g
<1>2. h + m \in 0 .. S + S - 1 /\ h + (k + m) \in 0 .. S + S - 1
  BY <1>1
<1>3. /\ (h + m) % S = IF h + m < S THEN h + m ELSE (h + m) - S
      /\ (h + (k + m)) % S =
           IF h + (k + m) < S THEN h + (k + m) ELSE (h + (k + m)) - S
  <2> DEFINE x == h + m
             y == h + (k + m)
  <2>1. x \in 0 .. S + S - 1 /\ y \in 0 .. S + S - 1
    BY <1>2
  <2> HIDE DEF x, y
  <2>2. x % S = IF x < S THEN x ELSE x - S
    BY <2>1, <1>1, Wrapping
  <2>3. y % S = IF y < S THEN y ELSE y - S
    BY <2>1, <1>1, Wrapping
  <2> QED BY <2>2, <2>3 DEF x, y
<1>4. CASE h + m < S
  <2>1. g + k = h + (k + m)
    BY <1>1, <1>3, <1>4
  <2> QED BY <2>1, <1>1 DEF S, g
<1>5. CASE ~(h + m < S)
  <2>1. g = (h + m) - S
    BY <1>1, <1>3, <1>5
  <2>2. g + k \in 0 .. S - 1 /\ g + k = h + (k + m) - S
        /\ ~(h + (k + m) < S)
    BY <2>1, <1>1, <1>5
  <2>3. g + k \in 0 .. S + S - 1 /\ g + k < S
    BY <2>2, <1>1
  <2>4. (g + k) % S = g + k
    BY <2>3, <1>1, Wrapping
  <2> QED BY <2>2, <2>4, <1>1, <1>3 DEF S, g
<1> QED BY <1>4, <1>5

\* A set of the first naturals that has all those before any of its members.
LEMMA FirstOnes ==
  ASSUME NEW c \in Nat, NEW K, K \subseteq 0 .. c - 1,
         \A j, k \in 0 .. c - 1 : j < k /\ k \in K => j \in K
  PROVE  /\ Cardinality(K) \in 0 .. c /\ K = 0 .. Cardinality(K) - 1
<1>1. CASE K = {}
  <2>1. Cardinality(K) = 0
    BY <1>1, FS_EmptySet
  <2>2. 0 .. 0 - 1 = {} /\ 0 \in 0 .. c
    OBVIOUS
  <2> QED BY <2>1, <2>2, <1>1
<1>2. CASE K # {}
  <2>1. IsFiniteSet(0 .. c - 1)
    <3>1. 0 \in Int /\ c - 1 \in Int
      OBVIOUS
    <3> QED BY <3>1, FS_Interval, Zenon
  <2>2. K \in SUBSET (0 .. c - 1) /\ K \in SUBSET Int
    OBVIOUS
  <2>3. IsFiniteSet(K)
    BY <2>1, <2>2, FS_Subset
  <2>4. PICK m \in K : \A k \in K : k <= m
    BY <2>2, <2>3, <1>2, GreatestOf
  <2>5. m \in 0 .. c - 1
    OBVIOUS
  <2>6. \A j \in 0 .. m : j \in K
    <3> TAKE j \in 0 .. m
    <3>1. j \in 0 .. c - 1 /\ (j < m \/ j = m)
      BY <2>5
    <3> QED BY <3>1, <2>5
  <2>7. \A k \in K : k \in 0 .. m
    <3> TAKE k \in K
    <3>1. k \in 0 .. c - 1 /\ k <= m
      BY <2>4
    <3> QED BY <3>1, <2>5
  <2>8. K = 0 .. m
    BY <2>6, <2>7
  <2>9. 0 \in Int /\ m \in Int /\ ~(0 > m)
    BY <2>5
  <2>10. Cardinality(0 .. m) = m - 0 + 1
    BY <2>9, FS_Interval, Zenon
  <2>11. Cardinality(K) = m + 1 /\ m + 1 \in 0 .. c /\ m + 1 - 1 = m
    BY <2>5, <2>8, <2>10
  <2> QED BY <2>8, <2>11
<1> QED BY <1>1, <1>2

\* The stores of the oldest instruction are the first in SQ, so that what
\* remains is a ring.
LEMMA RetireRing ==
  ASSUME CoreInv, MemInv, NEW s \in Slots, Retires(s)
  PROVE  SQRing'
<1> DEFINE n == num_retired
           L == Len(Stores(s))
           D == DOMAIN Stores(s)
           F == {q \in SQSlots : SQ[q].id = n}
           f == [j \in D |-> ROB[s].sq_index[j]]
<1>0. /\ SQRing /\ SQLinked /\ Ring /\ RobTypes /\ SQ_head \in SQSlots
      /\ SQ \in [SQSlots -> LSQEntries] /\ FrontTypes /\ BuffersInOrder
  BY DEF MemInv, CoreInv, MemoryTypes
<1>1. PICK c \in 0 .. SQ_SIZE : RingOf(c)
  BY <1>0 DEF SQRing
<1>2. /\ n \in Nat /\ Occupied(s) /\ SQ_head' = (SQ_head + L) % SQ_SIZE
      /\ \A j \in D : /\ ROB[s].sq_index[j] \in SQSlots
                      /\ SQ[ROB[s].sq_index[j]].id = n
                      /\ SQ[ROB[s].sq_index[j]].data_index = j
      /\ \A q \in SQSlots : SQ[q].id = n => /\ SQ[q].data_index \in D
                                            /\ ROB[s].sq_index[SQ[q].data_index] = q
      /\ \A q \in SQSlots : SQ'[q] = IF SQ[q].id = n THEN NoLSQEntry ELSE SQ[q]
  BY DEF Retires
<1>3. SQ_SIZE \in Nat \ {0} /\ c \in Nat /\ c <= SQ_SIZE
  BY CoreAssumption
<1>4. ASSUME NEW q \in SQSlots, SQ[q].id # NONE
      PROVE  SQ[q].id \in Nat /\ n <= SQ[q].id
  <2>1. SQ[q].rob_index \in Slots /\ ROB[SQ[q].rob_index].id = SQ[q].id
    BY <1>0, <1>4 DEF SQLinked
  <2>2. Occupied(SQ[q].rob_index)
    BY <2>1, <1>4 DEF Occupied
  <2>3. SQ[q].id \in n .. Dispatched - 1
    BY <2>1, <2>2, <1>0 DEF Ring
  <2> QED BY <2>3, <1>2
<1>5. /\ \A i \in 0 .. SQ_SIZE - 1 : at(i) \in SQSlots
      /\ \A i, j \in 0 .. SQ_SIZE - 1 : at(i) = at(j) => i = j
  BY <1>0, Places
<1>6. /\ Live = {at(i) : i \in 0 .. c - 1}
      /\ \A i, j \in 0 .. c - 1 : i < j => Precedes(at(i), at(j))
  BY <1>1 DEF RingOf
<1>7. \A i \in 0 .. c - 1 : i \in 0 .. SQ_SIZE - 1 /\ at(i) \in SQSlots
                            /\ SQ[at(i)].id # NONE
  <2>1. \A i \in 0 .. c - 1 : i \in 0 .. SQ_SIZE - 1 /\ at(i) \in Live
    BY <1>3, <1>6
  <2> QED BY <2>1, <1>5 DEF Live
<1>8. Stores(s) \in Seq(Addresses) /\ L \in Nat /\ D = 1 .. L
  <2>1. Stores(s) \in Seq(Addresses)
    BY <1>2, OperandFacts
  <2> QED BY <2>1, LenProperties
<1>9. Cardinality(F) = L
  <2>1. IsFiniteSet(D) /\ Cardinality(D) = L
    BY <1>8, IntervalSize
  <2>2. F = {f[j] : j \in D}
    BY <1>2
  <2>3. \A j, k \in D : f[j] = f[k] => j = k
    BY <1>2
  <2>4. f = [j \in D |-> f[j]]
    OBVIOUS
  <2> HIDE DEF F, f, D
  <2>5. Cardinality({f[j] : j \in D}) = Cardinality(D)
    BY <2>1, <2>3, <2>4, ManyPlaces
  <2> QED BY <2>1, <2>2, <2>5
<1> DEFINE K == {k \in 0 .. c - 1 : at(k) \in F}
           g == [k \in K |-> at(k)]
<1>10. Cardinality(K) = L
  <2>1. IsFiniteSet(K)
    <3>1. 0 \in Int /\ c - 1 \in Int
      BY <1>3
    <3>2. IsFiniteSet(0 .. c - 1)
      BY <3>1, FS_Interval, Zenon
    <3>3. K \in SUBSET (0 .. c - 1)
      OBVIOUS
    <3> QED BY <3>2, <3>3, FS_Subset
  <2>2. F \subseteq Live
    <3>1. n # NONE
      BY <1>2 DEF NONE
    <3> QED BY <3>1 DEF Live
  <2>3. F = {g[k] : k \in K}
    <3>1. ASSUME NEW q \in F PROVE \E k \in K : q = g[k]
      <4>1. PICK k \in 0 .. c - 1 : q = at(k)
        BY <2>2, <1>6
      <4> QED BY <4>1
    <3>2. \A k \in K : g[k] \in F
      OBVIOUS
    <3> HIDE DEF F, K, g
    <3> QED BY <3>1, <3>2
  <2>4. \A j, k \in K : g[j] = g[k] => j = k
    BY <1>5, <1>7
  <2>5. g = [k \in K |-> g[k]]
    OBVIOUS
  <2> HIDE DEF F, K, g
  <2>6. Cardinality({g[k] : k \in K}) = Cardinality(K)
    BY <2>1, <2>4, <2>5, ManyPlaces
  <2> QED BY <2>3, <2>6, <1>9
<1>11. ASSUME NEW j \in 0 .. c - 1, NEW k \in 0 .. c - 1, j < k, k \in K
       PROVE  j \in K
  <2>1. Precedes(at(j), at(k))
    BY <1>6, <1>11
  <2>2. SQ[at(k)].id = n
    BY <1>11
  <2>3. SQ[at(j)].id \in Nat /\ n <= SQ[at(j)].id
    BY <1>4, <1>7
  <2>4. SQ[at(j)].id = n
    BY <2>1, <2>2, <2>3, <1>2 DEF Precedes
  <2> QED BY <2>4, <1>7
<1>12. L \in 0 .. c /\ K = 0 .. L - 1
  <2>1. K \subseteq 0 .. c - 1
    OBVIOUS
  <2>2. \A j, k \in 0 .. c - 1 : j < k /\ k \in K => j \in K
    <3> HIDE DEF K
    <3> QED BY <1>11
  <2> HIDE DEF K
  <2>3. Cardinality(K) \in 0 .. c /\ K = 0 .. Cardinality(K) - 1
    BY <2>1, <2>2, <1>3, FirstOnes
  <2> QED BY <2>3, <1>10
<1>13. ASSUME NEW k \in 0 .. c - L - 1
       PROVE  /\ k + L \in 0 .. c - 1 /\ (SQ_head' + k) % SQ_SIZE = at(k + L)
              /\ SQ'[at(k + L)] = SQ[at(k + L)] /\ SQ[at(k + L)].id # NONE
              /\ at(k + L) \in SQSlots
  <2>1. k + L \in 0 .. c - 1 /\ k \in Nat /\ k + L < SQ_SIZE /\ ~(k + L \in 0 .. L - 1)
    BY <1>3, <1>8, <1>12
  <2>2. (SQ_head' + k) % SQ_SIZE = at(k + L)
    BY <2>1, <1>0, <1>2, <1>8, PlacesShift
  <2>3. at(k + L) \in SQSlots /\ SQ[at(k + L)].id # n
    BY <2>1, <1>7, <1>12
  <2> QED BY <2>1, <2>2, <2>3, <1>2, <1>7
<1>14. ASSUME NEW q \in SQSlots, SQ'[q].id # NONE
       PROVE  \E k \in 0 .. c - L - 1 : q = at(k + L)
  <2>1. SQ[q].id # n /\ SQ[q].id # NONE
    BY <1>2, <1>14 DEF NoLSQEntry
  <2>2. PICK i \in 0 .. c - 1 : q = at(i)
    BY <2>1, <1>6 DEF Live
  <2>3. i \notin 0 .. L - 1
    BY <2>1, <2>2, <1>12
  <2>4. i - L \in 0 .. c - L - 1 /\ (i - L) + L = i
    BY <2>3, <1>3, <1>8
  <2> QED BY <2>2, <2>4
<1>15. PICK m \in 0 .. SQ_SIZE : m = c - L
  BY <1>3, <1>12
<1>16. RingOf(m)'
  <2>1. Live' = {q \in SQSlots : SQ'[q].id # NONE}
    BY DEF Live
  <2>2. {q \in SQSlots : SQ'[q].id # NONE}
          = {(SQ_head' + k) % SQ_SIZE : k \in 0 .. m - 1}
    <3>1. \A k \in 0 .. m - 1 : k \in 0 .. c - L - 1
      BY <1>15
    <3>2. \A k \in 0 .. m - 1 : /\ (SQ_head' + k) % SQ_SIZE \in SQSlots
                                /\ SQ'[(SQ_head' + k) % SQ_SIZE].id # NONE
      BY <3>1, <1>13
    <3>3. \A q \in SQSlots : SQ'[q].id # NONE =>
            \E k \in 0 .. m - 1 : q = (SQ_head' + k) % SQ_SIZE
      BY <1>13, <1>14, <1>15
    <3> QED BY <3>2, <3>3
  <2>3. ASSUME NEW i \in 0 .. m - 1, NEW j \in 0 .. m - 1, i < j
        PROVE  LET p == (SQ_head' + i) % SQ_SIZE
                   q == (SQ_head' + j) % SQ_SIZE
               IN \/ SQ'[p].id < SQ'[q].id
                  \/ /\ SQ'[p].id = SQ'[q].id
                     /\ SQ'[p].data_index < SQ'[q].data_index
    <3>1. i \in 0 .. c - L - 1 /\ j \in 0 .. c - L - 1 /\ i + L < j + L
      BY <1>8, <1>15, <2>3
    <3>2. Precedes(at(i + L), at(j + L))
      BY <3>1, <1>6, <1>13
    <3> QED BY <3>1, <3>2, <1>13 DEF Precedes
  <2> QED BY <2>1, <2>2, <2>3 DEF RingOf, at, Precedes
<1> QED BY <1>15, <1>16 DEF SQRing

\* STA still holds the stores to come, none of which is of the instruction that
\* retires.
LEMMA RetireStores ==
  ASSUME CoreInv, MemInv, NEW s \in Slots, Retires(s)
  PROVE  StoresToCome'
<1> DEFINE n == num_retired
<1>0. /\ FrontTypes /\ BuffersInOrder /\ Ring /\ StoresToCome
      /\ Dispatched \in Nat /\ instr_unique_id \in Nat
  BY Numbers DEF CoreInv, MemInv
<1>1. /\ ROB[s].id = n /\ n \in Nat /\ Occupied(s)
      /\ ROB'[s] = NoEntry /\ \A y \in Slots : y # s => ROB'[y] = ROB[y]
      /\ \A q \in SQSlots : SQ'[q] = IF SQ[q].id = n THEN NoLSQEntry ELSE SQ[q]
      /\ num_retired' = n + 1 /\ Dispatched' = Dispatched
      /\ UNCHANGED <<trace, instr_unique_id, STA>>
  BY DEF Retires
<1>2. /\ \A i, j \in DOMAIN STA : i < j => STA[i] <= STA[j]
      /\ \A i \in DOMAIN STA : STA[i] < instr_unique_id
      /\ \A h \in n .. instr_unique_id - 1 :
            Cardinality(Where(STA, h)) = Cardinality(Owed(h))
      /\ \A q \in Live : \A i \in DOMAIN STA : SQ[q].id <= STA[i]
      /\ \A x \in Slots : Occupied(x) =>
            \A j \in StoresLeft(x) : \A m \in DOMAIN Stores(x) :
              j < m => m \in StoresLeft(x)
  BY <1>0 DEF StoresToCome
<1>3. \A x \in Slots : x # s =>
        /\ (Occupied(x)' <=> Occupied(x)) /\ Stores(x)' = Stores(x)
        /\ StoresLeft(x)' = StoresLeft(x)
  BY <1>1 DEF Occupied, Stores, Instr, StoresLeft
<1>4. NoEntry.id = NONE /\ NoLSQEntry.id = NONE
  BY DEF NoEntry, NoLSQEntry
<1>5. ~Occupied(s)'
  BY <1>1, <1>4 DEF Occupied
<1>6. ASSUME NEW h \in n + 1 .. instr_unique_id - 1
      PROVE  Cardinality(Where(STA, h)) = Cardinality(Owed(h)')
  <2>1. h \in n .. instr_unique_id - 1 /\ h \in Nat /\ h # n
    BY <1>0, <1>1
  <2>2. CASE h < Dispatched
    <3>1. h \in n .. Dispatched - 1
      BY <2>1, <2>2, <1>0
    <3>2. PICK x \in Slots : x = slot(h)
      BY <2>1, SlotOf
    <3>3. ROB[x].id = h
      BY <3>1, <3>2, <1>0 DEF Ring
    <3>4. x # s
      BY <3>3, <2>1, <1>1
    <3>5. StoresLeft(x)' = StoresLeft(x)
      BY <3>4, <1>3
    <3>6. Owed(h) = StoresLeft(x) /\ Owed(h)' = StoresLeft(x)'
      BY <2>2, <3>2, <1>1 DEF Owed
    <3> QED BY <3>5, <3>6, <2>1, <1>2
  <2>3. CASE ~(h < Dispatched)
    <3>1. Owed(h)' = Owed(h)
      BY <2>3, <1>1 DEF Owed
    <3> QED BY <3>1, <2>1, <1>2
  <2> QED BY <2>2, <2>3
<1>7. (\A h \in num_retired .. instr_unique_id - 1 :
         Cardinality(Where(STA, h)) = Cardinality(Owed(h)))'
  BY <1>1, <1>6 DEF Where
<1>8. (\A q \in Live : \A i \in DOMAIN STA : SQ[q].id <= STA[i])'
  BY <1>1, <1>2, <1>4 DEF Live
<1>9. (\A x \in Slots : Occupied(x) =>
         \A j \in StoresLeft(x) : \A m \in DOMAIN Stores(x) :
           j < m => m \in StoresLeft(x))'
  BY <1>2, <1>3, <1>5
<1>10. (/\ \A i, j \in DOMAIN STA : i < j => STA[i] <= STA[j]
        /\ \A i \in DOMAIN STA : STA[i] < instr_unique_id)'
  BY <1>1, <1>2
<1> QED BY <1>7, <1>8, <1>9, <1>10 DEF StoresToCome

\* Memory holds what has retired, which is the last store before the next
\* instruction.
LEMMA RetireData ==
  ASSUME CoreInv, MemInv, NEW s \in Slots, Retires(s)
  PROVE  DataInv'
<1> DEFINE n == num_retired
<1>0. DataInv
  BY DEF MemInv
<1>1. /\ ROB[s].id = n /\ n \in Nat /\ n + 1 \in Nat
      /\ num_retired' = n + 1 /\ UNCHANGED <<trace, LQ, loaded>>
      /\ lost \subseteq lost'
      /\ \A a \in Addresses :
           \/ Writes(Instr(s), a) /\ memory'[a] = n
           \/ /\ memory'[a] = memory[a]
              /\ Writes(Instr(s), a) => [id |-> n, address |-> a] \in lost'
  BY DEF Retires
<1>2. Instr(s) = trace[n]
  BY <1>1 DEF Instr
<1>3. \A k, a, m : Sees(k, a, m) => Sees(k, a, m)'
  BY <1>1, SeesStill
<1>4. ASSUME NEW a \in Addresses
      PROVE  Sees(num_retired, a, memory[a])'
  <2> DEFINE before == {k \in 0 .. n - 1 : Writes(trace[k], a)}
             after == {k \in 0 .. (n + 1) - 1 : Writes(trace[k], a)}
  <2>1. \A k \in 0 .. (n + 1) - 1 : k \in 0 .. n - 1 \/ k = n
    BY <1>1
  <2>2. /\ \A k \in before : k \in after
        /\ \A k \in after : k \in before \/ (k = n /\ Writes(trace[n], a))
    <3>1. \A k \in 0 .. n - 1 : k \in 0 .. (n + 1) - 1
      BY <1>1
    <3> QED BY <2>1, <3>1
  <2>3. /\ memory[a] \in before \cup {NONE}
        /\ \A k \in before : k <= memory[a] \/ [id |-> k, address |-> a] \in lost
    BY <1>0 DEF DataInv, Sees
  <2>4. /\ memory'[a] \in after \cup {NONE}
        /\ \A k \in after : k <= memory'[a] \/ [id |-> k, address |-> a] \in lost'
    <3>1. CASE Writes(trace[n], a) /\ memory'[a] = n
      <4>1. n \in after /\ \A k \in after : k <= n
        BY <3>1, <1>1
      <4> QED BY <3>1, <4>1
    <3>2. CASE /\ memory'[a] = memory[a]
               /\ Writes(trace[n], a) => [id |-> n, address |-> a] \in lost'
      <4> HIDE DEF before, after
      <4> QED BY <3>2, <2>2, <2>3, <1>1
    <3> QED BY <3>1, <3>2, <1>1, <1>2
  <2>5. (Sees(num_retired, a, memory[a]))' <=>
          /\ memory'[a] \in after \cup {NONE}
          /\ \A k \in after : k <= memory'[a] \/ [id |-> k, address |-> a] \in lost'
    BY <1>1 DEF Sees, Writes
  <2> QED BY <2>4, <2>5
<1>5. ASSUME NEW l \in LQSlots, LQ[l].id # NONE
      PROVE  IF LQ[l].producer = NONE
             THEN \A m \in n + 1 .. LQ[l].id - 1 : ~Writes(trace[m], LQ[l].address)
             ELSE LQ[l].producer \in StoreBefore(LQ[l].id, LQ[l].address)
  <2>1. LQ[l].id \in Nat
    BY <1>5, LoadFacts DEF MemInv
  <2>2. \A m \in n + 1 .. LQ[l].id - 1 : m \in n .. LQ[l].id - 1
    BY <2>1, <1>1
  <2> QED BY <2>2, <1>0, <1>5 DEF DataInv
<1>6. (\A a \in Addresses : Sees(num_retired, a, memory[a]))'
  BY <1>4
<1>7. (\A l \in LQSlots : LQ[l].id # NONE =>
         IF LQ[l].producer = NONE
         THEN \A m \in num_retired .. LQ[l].id - 1 : ~Writes(trace[m], LQ[l].address)
         ELSE LQ[l].producer \in StoreBefore(LQ[l].id, LQ[l].address))'
  BY <1>1, <1>5 DEF StoreBefore
<1>8. (\A d \in loaded :
         /\ d \in [id : Nat, address : Addresses, from : Ids]
         /\ Sees(d.id, d.address, d.from))'
  BY <1>0, <1>1, <1>3 DEF DataInv
<1> QED BY <1>6, <1>7, <1>8 DEF DataInv

\* An instruction retires and the invariant holds.
LEMMA RetireSteps ==
  ASSUME CoreInv, MemInv, retire_rob
  PROVE  CoreInv' /\ MemInv'
<1>1. CoreInv'
  BY RetireKeeps
<1>2. PICK s \in Slots : Retires(s)
  BY RetireFacts
<1> QED BY <1>1, <1>2, RetireLinks, RetireRing, RetireStores, RetireData DEF MemInv

-----------------------------------------------------------------------------
(* Every step *)

\* The invariant holds whatever step is next,
LEMMA NextSteps ==
  ASSUME CoreInv, MemInv, Next
  PROVE  CoreInv' /\ MemInv'
<1>1. CASE \/ request_block \/ complete_instr_fetch \/ resume_fetch
           \/ fetch_instruction \/ handle_writeback
  BY <1>1, FrontSteps
<1>2. CASE read_from_trace
  BY <1>2, ReadSteps
<1>3. CASE decode_and_dispatch
  BY <1>3, DispatchSteps
<1>4. CASE schedule_instruction
  BY <1>4, ScheduleSteps
<1>5. CASE execute_instruction
  BY <1>5, ExecuteSteps
<1>6. ASSUME NEW s \in Slots, complete_execution(s) PROVE CoreInv' /\ MemInv'
  BY <1>6, CompleteSteps
<1>7. CASE schedule_memory_instruction
  BY <1>7, ScheduleMemoryEnters, EnterMemory
<1>8. CASE execute_store
  BY <1>8, StoreSteps
<1>9. CASE execute_load
  BY <1>9, LoadSteps
<1>10. CASE complete_data_fetch
  BY <1>10, DataFetchSteps
<1>11. CASE retire_rob
  BY <1>11, RetireSteps
<1> QED BY <1>1, <1>2, <1>3, <1>4, <1>5, <1>6, <1>7, <1>8, <1>9, <1>10, <1>11
        DEF Next

\* and if nothing happens.
LEMMA NothingSteps ==
  ASSUME CoreInv, MemInv, UNCHANGED vars
  PROVE  CoreInv' /\ MemInv'
<1>1. UNCHANGED <<trace, instr_unique_id, num_retired, IFETCH_BUFFER,
                  DECODE_BUFFER, ROB, fetch_stall, resume, RTE0, RTE1, LQ, SQ,
                  SQ_head, STA, RTL0, RTS0, l1i, l1d, wq, memory, lost, loaded>>
  BY DEF vars, frontend, lsq, retired
<1>2. Dispatched' = Dispatched
  BY <1>1 DEF Dispatched
<1>3. MemoryStays
  BY <1>1, <1>2 DEF MemoryStays, EntriesStay, RobStays
<1>4. FrontTypes' /\ RobTypes' /\ MemoryTypes'
  BY <1>1 DEF CoreInv, FrontTypes, RobTypes, MemoryTypes
<1>5. BuffersInOrder' /\ Ring'
  BY <1>1, <1>2 DEF CoreInv, BuffersInOrder, Ring, Occupied, Loads, Stores, Instr
<1>6. RegistersInv'
  <2>0. DependentsYounger /\ DependencesCounted /\ RTEExact
    BY DEF CoreInv, RegistersInv
  <2>1. DependentsYounger'
    BY <1>1, <2>0 DEF DependentsYounger, Occupied
  <2>2. DependencesCounted'
    BY <1>1, <2>0 DEF DependencesCounted, Idle, NotStarted, Pending, Produced,
                      LastWriter, Instr
  <2>3. RTEExact'
    BY <1>1, <2>0 DEF RTEExact, Once, Elements, Occupied, is_memory, Loads,
                      Stores, Instr
  <2> QED BY <2>1, <2>2, <2>3 DEF RegistersInv
<1>7. OneStallingBranch'
  <2>1. Unresolved' = Unresolved
    <3>1. StallingInROB' = StallingInROB
      BY <1>1 DEF StallingInROB
    <3>2. IFETCH_BUFFER' = IFETCH_BUFFER /\ DECODE_BUFFER' = DECODE_BUFFER
      BY <1>1
    <3> QED BY <3>1, <3>2, UnresolvedParts
  <2> QED BY <2>1, <1>1 DEF CoreInv, OneStallingBranch
<1> QED BY <1>3, <1>4, <1>5, <1>6, <1>7, MemoryKept DEF CoreInv

\* The inductive invariant of the core holds in every state it can be in.
THEOREM CoreInvariance == Spec => [](CoreInv /\ MemInv)
<1>1. Init => CoreInv /\ MemInv
  BY CoreInitially, MemoryInitially
<1>2. (CoreInv /\ MemInv) /\ [Next]_vars => (CoreInv /\ MemInv)'
  BY NextSteps, NothingSteps
<1> QED BY <1>1, <1>2, PTL DEF Spec

-----------------------------------------------------------------------------
(* What follows from it *)

\* Type correctness: in particular num_mem_ops and num_reg_dependent are never
\* below zero, since they count what is there to count.
THEOREM CoreTypeCorrect == Spec => []TypeOK
<1>1. ASSUME CoreInv, MemInv PROVE TypeOK
  <2>0. /\ FrontTypes /\ RobTypes /\ MemoryTypes /\ RegistersInv
        /\ MemoryCounted /\ DataInv
    BY <1>1 DEF CoreInv, MemInv
  <2>1. ASSUME NEW s \in Slots PROVE ROB[s].num_mem_ops \in Nat
    <3>1. CASE Occupied(s)
      <4>1. /\ IsFiniteSet(LoadsLeft(s)) /\ IsFiniteSet(LoadsOf(s))
            /\ IsFiniteSet(StoresOf(s))
        BY <3>1, <1>1, OperandFacts
      <4>2. /\ Cardinality(LoadsLeft(s)) \in Nat /\ Cardinality(LoadsOf(s)) \in Nat
            /\ Cardinality(StoresOf(s)) \in Nat
        BY <4>1, FS_CardinalityType
      <4>3. ROB[s].num_mem_ops = Cardinality(LoadsLeft(s))
              + Cardinality(LoadsOf(s)) + Cardinality(StoresOf(s))
        BY <3>1, <2>0 DEF MemoryCounted, Counted
      <4> QED BY <4>2, <4>3
    <3>2. CASE ~Occupied(s)
      BY <3>2, <2>0 DEF MemoryCounted, Counted
    <3> QED BY <3>1, <3>2
  <2>2. ASSUME NEW s \in Slots PROVE ROB[s].num_reg_dependent \in Nat
    <3>1. IsFiniteSet(Pending(s))
      <4>1. IsFiniteSet(Slots \X Registers)
        BY Finite, CoreAssumption, FS_Product
      <4>2. Pending(s) \in SUBSET (Slots \X Registers)
        BY DEF Pending
      <4> QED BY <4>1, <4>2, FS_Subset
    <3>2. Cardinality(Pending(s)) \in Nat
      BY <3>1, FS_CardinalityType
    <3> QED BY <3>2, <2>0 DEF RegistersInv, DependencesCounted, Idle
  <2>3. ASSUME NEW s \in Slots PROVE ROB[s] \in Entries
    <3>1. ROB[s] \in LooseEntries
      BY <2>0, EntryFields
    <3> QED BY <3>1, <2>1, <2>2 DEF LooseEntries, Entries, Resumes
  <2>4. ROB \in [Slots -> Entries]
    BY <2>0, <2>3 DEF RobTypes
  <2>5. loaded \subseteq [id : Nat, address : Addresses, from : Ids]
    BY <2>0 DEF DataInv
  <2> QED BY <2>0, <2>4, <2>5
          DEF TypeOK, FrontTypes, RobTypes, MemoryTypes, Decodes, Resumes
<1> QED BY <1>1, CoreInvariance, PTL

\* No instruction starts before those that produce its registers have executed
\* (reg_RAW_dependency, reg_RAW_release).
THEOREM ProducersComeFirst == Spec => []ProducersFirst
<1>1. ASSUME CoreInv PROVE ProducersFirst
  <2> SUFFICES ASSUME NEW s \in Slots, Occupied(s), Started(s),
                      NEW r \in Instr(s).source_registers,
                      NEW m \in LastWriter(ROB[s].id, r), ~(m < num_retired)
               PROVE  ROB[slot(m)].id = m /\ ROB[slot(m)].executed = "COMPLETED"
    BY DEF ProducersFirst
  <2>0. /\ FrontTypes /\ RobTypes /\ BuffersInOrder /\ Ring
        /\ DependencesCounted /\ num_retired \in Nat
    BY <1>1 DEF CoreInv, RegistersInv, FrontTypes
  <2>1. ~NotStarted(s)
    <3> SUFFICES ASSUME NotStarted(s) PROVE FALSE
      OBVIOUS
    <3>1. /\ ROB[s].lq_index \in Seq(Int) /\ ROB[s].sq_index \in Seq(Int)
      <4>1. LQSlots \cup {NONE} \subseteq Int /\ SQSlots \cup {NONE} \subseteq Int
        BY DEF LQSlots, SQSlots, NONE
      <4>2. /\ ROB[s].lq_index \in Seq(LQSlots \cup {NONE})
            /\ ROB[s].sq_index \in Seq(SQSlots \cup {NONE})
        BY <2>0, EntryFields
      <4> QED BY <4>1, <4>2
    <3>2. Elements(ROB[s].lq_index \o ROB[s].sq_index)
            = Elements(ROB[s].lq_index) \cup Elements(ROB[s].sq_index)
      BY <3>1, OnceConcat
    <3>3. /\ Elements(ROB[s].lq_index) \subseteq {NONE}
          /\ Elements(ROB[s].sq_index) \subseteq {NONE}
      BY DEF NotStarted, Elements
    <3> QED BY <3>2, <3>3 DEF Started, NotStarted
  <2>2. ROB[s].reg_ready
    BY <2>0, <2>1 DEF DependencesCounted
  <2>3. ROB[s].scheduled # "no" /\ Pending(s) = {} /\ Produced(s, r)
    BY <2>0, <2>2 DEF DependencesCounted, Idle
  <2>4. r \in Registers
    <3>1. ROB[s].id \in DOMAIN trace
      BY <2>0, OccupiedFacts
    <3> QED BY <3>1, <2>0, TraceFacts DEF Instr
  <2>5. m \in num_retired .. ROB[s].id
    <3>1. m \in 0 .. ROB[s].id - 1 /\ ROB[s].id \in Nat
      BY <2>0, OccupiedFacts DEF LastWriter
    <3> QED BY <3>1, <2>0
  <2>6. slot(m) \in Slots /\ ROB[slot(m)].id = m
    BY <2>0, <2>5, OccupiedFacts
  <2>7. ROB[slot(m)].executed = "COMPLETED"
    <3> SUFFICES ASSUME ROB[slot(m)].executed # "COMPLETED" PROVE FALSE
      OBVIOUS
    <3>1. <<s, r>> \in ROB[slot(m)].reg_dependents
      BY <2>3 DEF Produced
    <3>2. <<slot(m), r>> \in Pending(s)
      BY <3>1, <2>4, <2>6 DEF Pending
    <3> QED BY <3>2, <2>3
  <2> QED BY <2>6, <2>7
<1> QED BY <1>1, CoreInvariance, PTL

\* One branch at most stalls fetching, and it is not forgotten.
THEOREM OneBranchStalls == Spec => []OneStallingBranch
<1>1. CoreInv => OneStallingBranch
  BY DEF CoreInv
<1> QED BY <1>1, CoreInvariance, PTL

\* num_mem_ops is the number of operands an instruction still waits for.
THEOREM OperandsStayCounted == Spec => []OperandsCounted
<1>1. MemInv => OperandsCounted
  BY DEF MemInv, OperandsCounted, MemoryCounted, Counted, LQLinked, LoadsLeft,
         LoadsOf, StoresOf
<1> QED BY <1>1, CoreInvariance, PTL

\* The store queue is a ring in program order, whatever order stores become
\* ready in (add_store_queue, retire_rob).
THEOREM StoresStayInOrder == Spec => []StoresInOrder
<1>1. ASSUME CoreInv, MemInv PROVE StoresInOrder
  <2>0. SQ_head \in SQSlots /\ SQRing /\ SQLinked /\ FrontTypes /\ RobTypes
        /\ BuffersInOrder /\ Ring
    BY <1>1 DEF CoreInv, MemInv, MemoryTypes
  <2>1. PICK c \in 0 .. SQ_SIZE : RingOf(c)
    BY <2>0 DEF SQRing
  <2>2. Cardinality(Live) = c
    BY <2>0, <2>1, FreeFacts
  <2>3. Live = {at(k) : k \in 0 .. Cardinality(Live) - 1}
    BY <2>1, <2>2 DEF RingOf
  <2>4. \A j, k \in 0 .. Cardinality(Live) - 1 : j < k => Precedes(at(j), at(k))
    BY <2>1, <2>2 DEF RingOf
  <2>5. ASSUME NEW q \in Live
        PROVE  ROB[slot(SQ[q].id)].sq_index[SQ[q].data_index] = q
    <3>1. /\ SQ[q].rob_index \in Slots /\ ROB[SQ[q].rob_index].id = SQ[q].id
          /\ ROB[SQ[q].rob_index].sq_index[SQ[q].data_index] = q
          /\ SQ[q].id # NONE
      BY <2>0 DEF SQLinked, Live
    <3>2. slot(ROB[SQ[q].rob_index].id) = SQ[q].rob_index
      BY <3>1, <2>0, OccupiedFacts DEF Occupied
    <3> QED BY <3>1, <3>2
  <2> QED BY <2>3, <2>4, <2>5 DEF StoresInOrder, Live, at, Precedes
<1> QED BY <1>1, CoreInvariance, PTL

\* What is ready waits in one ready queue, once, and nothing else does.
THEOREM ReadyQueuesStayExact == Spec => []ReadyQueuesExact
<1>1. CoreInv /\ MemInv => ReadyQueuesExact
  BY DEF CoreInv, RegistersInv, MemInv, RTEExact, LSQReady, ReadyQueuesExact
<1> QED BY <1>1, CoreInvariance, PTL

\* A load gets the data of the last store before it in program order, from the
\* store or from L1D, but for stores that L1D has refused when they retired.
THEOREM LoadsAlwaysSeeStores == Spec => []LoadsSeeStores
<1>1. MemInv => LoadsSeeStores
  BY DEF MemInv, DataInv, LoadsSeeStores
<1> QED BY <1>1, CoreInvariance, PTL

-----------------------------------------------------------------------------
(* The loads that a store wakes *)

\* The memory dependents of an instruction are in ROB, and the last store
\* before one of their loads is by that instruction.
DependentsWait ==
  \A s \in Slots : Occupied(s) => \A d \in ROB[s].mem_dependents :
    /\ Occupied(d)
    /\ \E j \in DOMAIN Loads(d) :
         ROB[s].id \in StoreBefore(ROB[d].id, Loads(d)[j])

\* A load that has had its entry of LQ has it still, and waits in it, until the
\* last store before it executes, if that is of an instruction that stores once.
StoresOnce(s) == Len(Stores(s)) = 1
LoadsWait ==
  \A s, d \in Slots :
    Occupied(s) /\ Occupied(d) /\ StoresOf(s) # {} /\ StoresOnce(s) =>
    \A j \in DOMAIN Loads(d) :
      /\ ROB[d].lq_index[j] # NONE
      /\ ROB[s].id \in StoreBefore(ROB[d].id, Loads(d)[j])
      => /\ LQ[ROB[d].lq_index[j]].id = ROB[d].id
         /\ LQ[ROB[d].lq_index[j]].producer = ROB[s].id

WaitInv == DependentsWait /\ LoadsWait

\* Slot x keeps its instruction, with its dependents and its entries of LQ.
Remains(x) == /\ ROB'[x].id = ROB[x].id
              /\ ROB'[x].lq_index = ROB[x].lq_index
              /\ ROB'[x].mem_dependents = ROB[x].mem_dependents

\* What a step does that enters nothing into LQ and SQ: instructions leave ROB
\* when they are the oldest and enter it as the youngest, and loads leave LQ
\* when the store they wait for has executed, if there is one.
OldestLeaves ==
  \A x \in Slots : Occupied(x) =>
    \/ Remains(x)
    \/ ~Occupied(x)' /\ \A s \in Slots : Occupied(s) => ROB[x].id <= ROB[s].id
YoungestEnters ==
  \A x \in Slots : ~Occupied(x) /\ Occupied(x)' =>
    /\ ROB'[x].mem_dependents = {}
    /\ \A j \in DOMAIN ROB'[x].lq_index : ROB'[x].lq_index[j] = NONE
    /\ \A s \in Slots : Occupied(s) => ROB[s].id < ROB'[x].id
ServedLeave ==
  /\ \A x \in Slots : Occupied(x) /\ Occupied(x)' => StoresOf(x)' \subseteq StoresOf(x)
  /\ \A l \in LQSlots : LQ[l].id # NONE =>
       \/ LQ'[l].id = LQ[l].id /\ LQ'[l].producer = LQ[l].producer
       \/ \A s \in Slots :
            Occupied(s) /\ ROB[s].id = LQ[l].producer /\ StoresOnce(s) =>
            StoresOf(s)' = {}

\* Such a step keeps what dependents and loads wait for.
LEMMA WaitsKept ==
  ASSUME CoreInv, CoreInv', WaitInv, trace' = trace,
         OldestLeaves, YoungestEnters, ServedLeave
  PROVE  WaitInv'
<1>0. /\ DependentsWait /\ LoadsWait
      /\ FrontTypes /\ RobTypes /\ BuffersInOrder /\ Ring
      /\ FrontTypes' /\ RobTypes' /\ BuffersInOrder' /\ Ring'
  BY DEF WaitInv, CoreInv
<1>1. Dispatched' \in Nat /\ num_retired' \in Nat
  BY <1>0 DEF FrontTypes, BuffersInOrder, Dispatched
<1>2. ASSUME NEW x \in Slots, Occupied(x), Occupied(x)'
      PROVE  /\ Remains(x) /\ Loads(x)' = Loads(x)
             /\ StoresOf(x)' \subseteq StoresOf(x) /\ ROB[x].id \in Nat
             /\ StoresOnce(x)' = StoresOnce(x)
  <2>1. Remains(x)
    BY <1>2 DEF OldestLeaves
  <2>2. StoresOf(x)' \subseteq StoresOf(x)
    BY <1>2 DEF ServedLeave
  <2>3. ROB[x].id \in Nat
    BY <1>0, <1>2, OccupiedFacts
  <2>4. StoresOnce(x)' = StoresOnce(x)
    BY <2>1 DEF Remains, StoresOnce, Stores, Instr
  <2> QED BY <2>1, <2>2, <2>3, <2>4 DEF Remains, Loads, Instr
<1>3. \A n, m, a : n \in StoreBefore(m, a) => n \in 0 .. m - 1
  BY DEF StoreBefore
<1>4. DependentsWait'
  <2> SUFFICES ASSUME NEW s \in Slots, Occupied(s)', NEW d \in ROB'[s].mem_dependents
               PROVE  /\ Occupied(d)'
                      /\ \E j \in DOMAIN trace[ROB'[d].id].source_memory :
                           ROB'[s].id \in StoreBefore(ROB'[d].id,
                             trace[ROB'[d].id].source_memory[j])
    BY DEF DependentsWait, StoreBefore, Writes, Loads, Instr
  <2>1. Occupied(s)
    BY DEF YoungestEnters
  <2>2. Remains(s) /\ ROB[s].id \in Nat
    BY <2>1, <1>2
  <2>3. d \in ROB[s].mem_dependents /\ d \in Slots
    <3>1. d \in ROB[s].mem_dependents
      BY <2>2 DEF Remains
    <3> QED BY <3>1, <1>0, EntryFields
  <2>4. PICK j \in DOMAIN Loads(d) : ROB[s].id \in StoreBefore(ROB[d].id, Loads(d)[j])
    BY <1>0, <2>1, <2>3 DEF DependentsWait
  <2>5. Occupied(d)
    BY <1>0, <2>1, <2>3 DEF DependentsWait
  <2>6. ROB[s].id < ROB[d].id /\ ROB[d].id \in Nat
    <3>1. ROB[d].id \in Nat
      BY <1>0, <2>3, <2>5, OccupiedFacts
    <3>2. ROB[s].id \in 0 .. ROB[d].id - 1
      BY <1>3, <2>4
    <3> QED BY <2>2, <3>1, <3>2
  <2>7. Remains(d)
    <3>1. ~(ROB[d].id <= ROB[s].id)
      BY <2>2, <2>6
    <3> QED BY <3>1, <2>1, <2>3, <2>5 DEF OldestLeaves
  <2>8. Occupied(d)'
    BY <2>5, <2>7 DEF Remains, Occupied
  <2> QED BY <2>2, <2>4, <2>7, <2>8 DEF Remains, Loads, Instr
<1>5. LoadsWait'
  <2> SUFFICES ASSUME NEW s \in Slots, NEW d \in Slots, Occupied(s)', Occupied(d)',
                      StoresOf(s)' # {}, StoresOnce(s)',
                      NEW j \in DOMAIN trace[ROB'[d].id].source_memory,
                      ROB'[d].lq_index[j] # NONE,
                      ROB'[s].id \in StoreBefore(ROB'[d].id,
                        trace[ROB'[d].id].source_memory[j])
               PROVE  /\ LQ'[ROB'[d].lq_index[j]].id = ROB'[d].id
                      /\ LQ'[ROB'[d].lq_index[j]].producer = ROB'[s].id
    <3>1. \A x \in Slots : Loads(x)' = trace[ROB'[x].id].source_memory
      BY DEF Loads, Instr
    <3>2. \A x, y \in Slots : \A j \in DOMAIN Loads(x)' :
            (ROB[y].id \in StoreBefore(ROB[x].id, Loads(x)[j]))' =>
              ROB'[y].id \in StoreBefore(ROB'[x].id,
                trace[ROB'[x].id].source_memory[j])
      BY DEF StoreBefore, Writes, Loads, Instr
    <3> QED BY <3>1, <3>2 DEF LoadsWait
  <2>1. /\ ROB'[s].id \in Nat /\ ROB'[d].id \in Nat
        /\ DOMAIN ROB'[d].lq_index = DOMAIN trace[ROB'[d].id].source_memory
    <3>1. Ring'
      BY <1>0
    <3>2. Dispatched' \in Nat /\ num_retired' \in Nat
      BY <1>1
    <3>3. /\ ROB'[s].id \in num_retired' .. Dispatched' - 1
          /\ ROB'[d].id \in num_retired' .. Dispatched' - 1
          /\ DOMAIN ROB'[d].lq_index = DOMAIN trace'[ROB'[d].id].source_memory
      BY <3>1 DEF Ring, Loads, Instr
    <3> QED BY <3>2, <3>3
  <2>2. ROB'[s].id < ROB'[d].id
    <3>1. ROB'[s].id \in 0 .. ROB'[d].id - 1
      BY <1>3
    <3> QED BY <3>1, <2>1
  <2>3. Occupied(d)
    BY <2>1 DEF YoungestEnters
  <2>4. Remains(d) /\ Loads(d)' = Loads(d) /\ ROB[d].id \in Nat
    BY <2>3, <1>2
  <2>5. Occupied(s)
    <3> SUFFICES ASSUME ~Occupied(s) PROVE FALSE
      OBVIOUS
    <3>1. ROB[d].id < ROB'[s].id
      BY <2>3 DEF YoungestEnters
    <3> QED BY <3>1, <2>1, <2>2, <2>4 DEF Remains
  <2>6. Remains(s) /\ StoresOf(s) # {} /\ StoresOnce(s)
    BY <2>5, <1>2
  <2> DEFINE l == ROB[d].lq_index[j]
  <2>7. LQ[l].id = ROB[d].id /\ LQ[l].producer = ROB[s].id /\ l # NONE
    <3>1. j \in DOMAIN Loads(d) /\ l # NONE
      BY <2>4 DEF Remains, Loads, Instr
    <3>2. ROB[s].id \in StoreBefore(ROB[d].id, Loads(d)[j])
      BY <2>4, <2>6 DEF Remains, Loads, Instr
    <3> QED BY <3>1, <3>2, <2>3, <2>5, <2>6, <1>0 DEF LoadsWait
  <2>8. l \in LQSlots
    <3>1. ROB[d].lq_index \in Seq(LQSlots \cup {NONE}) /\ j \in DOMAIN ROB[d].lq_index
      BY <1>0, <2>1, <2>4, EntryFields DEF Remains
    <3> QED BY <3>1, <2>7, LenProperties, ElementOfSeq
  <2>9. LQ[l].id # NONE
    BY <2>7, <2>4 DEF NONE
  <2>10. LQ'[l].id = LQ[l].id /\ LQ'[l].producer = LQ[l].producer
    BY <2>5, <2>6, <2>7, <2>8, <2>9 DEF ServedLeave
  <2> QED BY <2>4, <2>6, <2>7, <2>10 DEF Remains
<1> QED BY <1>4, <1>5 DEF WaitInv

\* Steps that leave ROB alone, but for registers and counters, and SQ are such
\* steps if each load stays or waits for no store.
LEMMA OthersWait ==
  ASSUME CoreInv, CoreInv', WaitInv, trace' = trace, SQ' = SQ,
         \A x \in Slots : Remains(x) /\ ROB'[x].sq_index = ROB[x].sq_index,
         \A l \in LQSlots :
           \/ LQ'[l].id = LQ[l].id /\ LQ'[l].producer = LQ[l].producer
           \/ LQ[l].producer = NONE
  PROVE  WaitInv'
<1>1. \A x \in Slots : (Occupied(x)' <=> Occupied(x)) /\ StoresOf(x)' = StoresOf(x)
  BY DEF Remains, Occupied, StoresOf, Stores, Instr
<1>2. OldestLeaves
  BY DEF OldestLeaves
<1>3. YoungestEnters
  BY <1>1 DEF YoungestEnters
<1>4. ServedLeave
  BY <1>1 DEF ServedLeave, Occupied
<1> QED BY <1>2, <1>3, <1>4, WaitsKept

\* So are those of the front end, and those that execute what has no operands
\* in memory,
LEMMA RegisterStepsWait ==
  ASSUME CoreInv, CoreInv', WaitInv,
         \/ request_block \/ complete_instr_fetch \/ resume_fetch
         \/ fetch_instruction \/ handle_writeback \/ read_from_trace
         \/ schedule_instruction \/ execute_instruction
         \/ \E s \in Slots : complete_execution(s)
         \/ UNCHANGED vars
  PROVE  WaitInv'
<1>0. /\ FrontTypes /\ RobTypes /\ BuffersInOrder /\ Ring /\ RegistersInv
  BY DEF CoreInv
<1>1. UNCHANGED <<trace, LQ, SQ>>
  BY DEF request_block, complete_instr_fetch, resume_fetch, fetch_instruction,
         handle_writeback, read_from_trace, schedule_instruction,
         execute_instruction, complete_execution, frontend, lsq, retired, vars
<1>2. \A x \in Slots : ROB[x] \in LooseEntries
  BY <1>0, EntryFields
<1>3. ASSUME NEW x \in Slots
      PROVE  Remains(x) /\ ROB'[x].sq_index = ROB[x].sq_index
  <2>1. CASE ROB' = ROB
    BY <2>1 DEF Remains
  <2>2. CASE schedule_instruction
    <3> DEFINE s == Oldest(Unscheduled)
    <3>1. /\ Unscheduled # {} /\ do_scheduling(s)
          /\ UNCHANGED <<trace, RTE0, num_retired>>
      BY <2>2 DEF schedule_instruction, frontend, lsq, retired
    <3>2. s \in Unscheduled
      <4>1. Unscheduled \in SUBSET Slots /\ \A y \in Unscheduled : Occupied(y)
        BY DEF Unscheduled
      <4> QED BY <4>1, <1>0, <3>1, OldestIs
    <3>3. s \in Slots /\ Occupied(s) /\ ROB[s].scheduled = "no"
      BY <3>2 DEF Unscheduled
    <3> HIDE DEF s
    <3> QED BY <1>0, <3>1, <3>3, RegistersOfScheduled DEF Remains
  <2>3. ASSUME NEW s, do_execution(s)
        PROVE  Remains(x) /\ ROB'[x].sq_index = ROB[x].sq_index
    <3>1. ROB'[x] = IF x = s THEN [ROB[x] EXCEPT !.executed = "INFLIGHT"]
                    ELSE ROB[x]
      BY <2>3, <1>0 DEF do_execution, RobTypes
    <3> QED BY <3>1, <1>2 DEF LooseEntries, Remains
  <2>4. ASSUME NEW s \in Slots, complete_execution(s)
        PROVE  Remains(x) /\ ROB'[x].sq_index = ROB[x].sq_index
    <3>1. ROB'[x] = IF x = s THEN [ROB[s] EXCEPT !.executed = "COMPLETED"]
                    ELSE [ROB[x] EXCEPT !.num_reg_dependent = Remaining(s, x),
                                        !.reg_ready = @ \/ x \in Freed(s)]
      BY <2>4 DEF complete_execution
    <3>2. CASE x = s
      BY <3>1, <3>2, <1>2 DEF LooseEntries, Remains
    <3>3. CASE x # s
      <4>1. ROB'[x] = [ROB[x] EXCEPT !.num_reg_dependent = Remaining(s, x),
                                     !.reg_ready = @ \/ x \in Freed(s)]
        BY <3>1, <3>3
      <4> QED BY <4>1, <1>2 DEF LooseEntries, Remains
    <3> QED BY <3>2, <3>3
  <2>5. CASE execute_instruction
    BY <2>5, <2>3 DEF execute_instruction
  <2>6. ROB' = ROB \/ schedule_instruction \/ execute_instruction
        \/ \E s \in Slots : complete_execution(s)
    BY DEF request_block, complete_instr_fetch, resume_fetch, fetch_instruction,
           handle_writeback, read_from_trace, vars
  <2> QED BY <2>1, <2>2, <2>4, <2>5, <2>6
<1> QED BY <1>1, <1>3, OthersWait

\* those that send loads to L1D and bring them back,
LEMMA LoadStepsWait ==
  ASSUME CoreInv, CoreInv', MemInv, WaitInv, execute_load \/ complete_data_fetch
  PROVE  WaitInv'
<1>0. /\ RobTypes /\ MemoryTypes /\ LSQReady
  BY DEF CoreInv, MemInv
<1>1. \A x \in Slots : ROB[x] \in LooseEntries
  BY <1>0, EntryFields
<1>2. CASE execute_load
  <2>1. /\ LQ' = [LQ EXCEPT ![Head(RTL0)].fetched = "INFLIGHT"]
        /\ UNCHANGED <<trace, ROB, SQ>>
    BY <1>2 DEF execute_load, frontend
  <2>2. ASSUME NEW l \in LQSlots
        PROVE  LQ'[l].id = LQ[l].id /\ LQ'[l].producer = LQ[l].producer
    <3>1. LQ[l] \in LSQEntries
      BY <1>0 DEF MemoryTypes
    <3>2. LQ'[l] = IF l = Head(RTL0) THEN [LQ[l] EXCEPT !.fetched = "INFLIGHT"]
                   ELSE LQ[l]
      BY <2>1, <1>0 DEF MemoryTypes
    <3> QED BY <3>1, <3>2 DEF LSQEntries
  <2>3. \A x \in Slots : Remains(x) /\ ROB'[x].sq_index = ROB[x].sq_index
    BY <2>1 DEF Remains
  <2> QED BY <2>1, <2>2, <2>3, OthersWait
<1>3. CASE complete_data_fetch
  <2>1. PICK ls \in SUBSET l1d :
           /\ ROB' = [s \in Slots |->
                        [ROB[s] EXCEPT !.num_mem_ops = @ - Operands(ls, s)]]
           /\ LQ' = Released(ls)
    BY <1>3 DEF complete_data_fetch
  <2>2. UNCHANGED <<trace, SQ>>
    BY <1>3 DEF complete_data_fetch, frontend
  <2>3. \A l \in ls : LQ[l].producer = NONE
    BY <1>0 DEF LSQReady
  <2>4. \A l \in LQSlots : LQ'[l] = IF l \in ls THEN NoLSQEntry ELSE LQ[l]
    BY <2>1 DEF Released
  <2>5. ASSUME NEW x \in Slots
        PROVE  Remains(x) /\ ROB'[x].sq_index = ROB[x].sq_index
    <3>1. ROB'[x] = [ROB[x] EXCEPT !.num_mem_ops = @ - Operands(ls, x)]
      BY <2>1
    <3> QED BY <3>1, <1>1 DEF LooseEntries, Remains
  <2> QED BY <2>2, <2>3, <2>4, <2>5, OthersWait
<1> QED BY <1>2, <1>3

\* When an instruction has one store, none is left when it has executed.
LEMMA OnlyStore ==
  ASSUME CoreInv, NEW s \in Slots, Occupied(s), StoresOnce(s),
         NEW j \in DOMAIN Stores(s), NEW k \in DOMAIN Stores(s)
  PROVE  j = k
<1>1. DOMAIN Stores(s) = 1 .. Len(Stores(s)) /\ Len(Stores(s)) = 1
  BY OperandFacts DEF StoresOnce
<1> QED BY <1>1

\* A store that executes takes the loads that wait for it out of LQ.
LEMMA StoreStepsWait ==
  ASSUME CoreInv, CoreInv', MemInv, WaitInv, execute_store
  PROVE  WaitInv'
<1> DEFINE q == Head(RTS0)
           ls == Dependents(q)
           o == SQ[q].rob_index
<1>0. /\ FrontTypes /\ RobTypes /\ MemoryTypes /\ BuffersInOrder /\ Ring
      /\ LQLinked /\ SQLinked /\ LSQReady
  BY DEF CoreInv, MemInv
<1>1. /\ RTS0 # <<>> /\ \A l \in ls : ProducerOf(q, l)
      /\ SQ' = [SQ EXCEPT ![q].fetched = "COMPLETED"]
      /\ ROB' = [s \in Slots |->
            [ROB[s] EXCEPT !.num_mem_ops =
              @ - Operands(ls, s) - (IF s = SQ[q].rob_index THEN 1 ELSE 0)]]
      /\ LQ' = Released(ls) /\ trace' = trace
  BY DEF execute_store, frontend
<1>2. /\ q \in SQSlots /\ SQ[q].id # NONE
      /\ SQ[q].rob_index \in Slots /\ ROB[SQ[q].rob_index].id = SQ[q].id
      /\ \A l \in ls : LQ[l].producer = SQ[q].id /\ LQ[l].id # NONE
  BY <1>0, <1>1, StoreFacts
<1>3. /\ SQ[q].data_index \in DOMAIN Stores(o)
      /\ ROB[o].sq_index[SQ[q].data_index] = q
  BY <1>0, <1>2 DEF SQLinked
<1>4. Occupied(o) /\ o \in Slots /\ ROB[o].id = SQ[q].id
  BY <1>2 DEF Occupied
<1> HIDE DEF q, ls, o
<1>5. ASSUME NEW x \in Slots
      PROVE  Remains(x) /\ ROB'[x].sq_index = ROB[x].sq_index
  <2>1. ROB[x] \in LooseEntries
    BY <1>0, EntryFields
  <2>2. ROB'[x] = [ROB[x] EXCEPT !.num_mem_ops =
                @ - Operands(ls, x) - (IF x = SQ[q].rob_index THEN 1 ELSE 0)]
    BY <1>1
  <2> QED BY <2>1, <2>2 DEF LooseEntries, Remains
<1>6. /\ SQ'[q].fetched = "COMPLETED" /\ q # NONE
      /\ \A p \in SQSlots : p # q => SQ'[p] = SQ[p]
  <2>1. SQ[q] \in LSQEntries
    BY <1>0, <1>2 DEF MemoryTypes
  <2>2. SQ'[q] = [SQ[q] EXCEPT !.fetched = "COMPLETED"]
        /\ \A p \in SQSlots : p # q => SQ'[p] = SQ[p]
    BY <1>0, <1>1, <1>2 DEF MemoryTypes
  <2> QED BY <2>1, <2>2, <1>2 DEF LSQEntries, SQSlots, NONE
<1>7. ASSUME NEW x \in Slots, Occupied(x)
      PROVE  /\ StoresOf(x)' \subseteq StoresOf(x)
             /\ x = o /\ StoresOnce(x) => StoresOf(x)' = {}
  <2>1. StoresOf(x)' = {i \in DOMAIN Stores(x) :
                          \/ ROB[x].sq_index[i] = NONE
                          \/ SQ'[ROB[x].sq_index[i]].fetched # "COMPLETED"}
    BY <1>1, <1>5 DEF StoresOf, Stores, Instr, Remains
  <2>2. \A i \in DOMAIN Stores(x) : ROB[x].sq_index[i] # NONE =>
          ROB[x].sq_index[i] \in SQSlots
    <3>1. ROB[x].sq_index \in Seq(SQSlots \cup {NONE})
      BY <1>0, EntryFields
    <3>2. DOMAIN ROB[x].sq_index = DOMAIN Stores(x)
      BY <1>7, OperandFacts
    <3> QED BY <3>1, <3>2, LenProperties, ElementOfSeq
  <2>3. StoresOf(x)' \subseteq StoresOf(x)
    BY <2>1, <2>2, <1>6 DEF StoresOf
  <2>4. ASSUME x = o, StoresOnce(x) PROVE StoresOf(x)' = {}
    <3> SUFFICES ASSUME NEW i \in StoresOf(x)' PROVE FALSE
      OBVIOUS
    <3>1. i \in DOMAIN Stores(x) /\ i = SQ[q].data_index
      BY <2>1, <2>4, <1>3, <1>4, OnlyStore
    <3>2. ROB[x].sq_index[i] = q
      BY <3>1, <2>4, <1>3
    <3> QED BY <3>2, <2>1, <1>6
  <2> QED BY <2>3, <2>4
<1>8. OldestLeaves /\ YoungestEnters
  BY <1>5 DEF OldestLeaves, YoungestEnters, Remains, Occupied
<1>9. ServedLeave
  <2>1. \A l \in LQSlots : LQ'[l] = IF l \in ls THEN NoLSQEntry ELSE LQ[l]
    BY <1>1 DEF Released
  <2>2. ASSUME NEW l \in ls, NEW s \in Slots, Occupied(s),
               ROB[s].id = LQ[l].producer, StoresOnce(s)
        PROVE  StoresOf(s)' = {}
    <3>1. ROB[s].id = ROB[o].id
      BY <2>2, <1>2, <1>4
    <3>2. s = o
      BY <3>1, <2>2, <1>0, <1>4, OccupiedFacts
    <3> QED BY <3>2, <2>2, <1>7
  <2> QED BY <2>1, <2>2, <1>7 DEF ServedLeave
<1> QED BY <1>1, <1>8, <1>9, WaitsKept

\* An instruction enters ROB as the youngest, without dependents,
LEMMA DispatchWaits ==
  ASSUME CoreInv, CoreInv', MemInv, WaitInv, decode_and_dispatch
  PROVE  WaitInv'
<1>0. /\ FrontTypes /\ RobTypes /\ BuffersInOrder /\ Ring
  BY DEF CoreInv
<1>1. PICK n \in Nat : Dispatches(n)
  BY DispatchFacts
<1> DEFINE x == slot(n)
<1>2. /\ n = Dispatched /\ x \in Slots /\ ~Occupied(x)
      /\ \A y \in Slots : y # x => ROB'[y] = ROB[y]
      /\ ROB'[x].id = n /\ ROB'[x].mem_dependents = {}
      /\ ROB'[x].lq_index = [j \in DOMAIN trace[n].source_memory |-> NONE]
      /\ UNCHANGED <<trace, LQ, SQ>>
  BY <1>1 DEF Dispatches
<1> HIDE DEF x
<1>3. OldestLeaves
  BY <1>2 DEF OldestLeaves, Remains
<1>4. YoungestEnters
  <2>1. \A y \in Slots : ~Occupied(y) /\ Occupied(y)' => y = x
    BY <1>2 DEF Occupied
  <2>2. \A s \in Slots : Occupied(s) => ROB[s].id < n
    BY <1>0, <1>2, OccupiedFacts
  <2> QED BY <2>1, <2>2, <1>2 DEF YoungestEnters
<1>5. ServedLeave
  <2>1. ASSUME NEW y \in Slots, Occupied(y) PROVE StoresOf(y)' = StoresOf(y)
    <3>1. ROB'[y] = ROB[y]
      BY <2>1, <1>2
    <3> QED BY <3>1, <1>2 DEF StoresOf, Stores, Instr
  <2> QED BY <2>1, <1>2 DEF ServedLeave
<1> QED BY <1>2, <1>3, <1>4, <1>5, WaitsKept

\* and leaves it as the oldest.
LEMMA RetireWaits ==
  ASSUME CoreInv, CoreInv', MemInv, WaitInv, retire_rob
  PROVE  WaitInv'
<1>0. /\ FrontTypes /\ RobTypes /\ BuffersInOrder /\ Ring /\ SQLinked
  BY DEF CoreInv, MemInv
<1>1. PICK s \in Slots : Retires(s)
  BY RetireFacts
<1>2. /\ ROB[s].id = num_retired /\ num_retired \in Nat
      /\ ROB'[s] = NoEntry /\ \A y \in Slots : y # s => ROB'[y] = ROB[y]
      /\ \A q \in SQSlots :
           SQ'[q] = IF SQ[q].id = num_retired THEN NoLSQEntry ELSE SQ[q]
      /\ UNCHANGED <<trace, LQ>>
  BY <1>1 DEF Retires
<1>3. ~Occupied(s)'
  BY <1>2 DEF Occupied, NoEntry
<1>4. OldestLeaves
  <2>1. \A x \in Slots : Occupied(x) => ROB[s].id <= ROB[x].id
    BY <1>0, <1>2, OccupiedFacts
  <2> QED BY <2>1, <1>2, <1>3 DEF OldestLeaves, Remains
<1>5. YoungestEnters
  BY <1>2, <1>3 DEF YoungestEnters, Occupied
<1>6. ServedLeave
  <2>1. ASSUME NEW x \in Slots, Occupied(x), Occupied(x)'
        PROVE  StoresOf(x)' = StoresOf(x)
    <3>1. x # s /\ ROB'[x] = ROB[x]
      BY <2>1, <1>2, <1>3
    <3>2. ROB[x].id # num_retired
      BY <3>1, <2>1, <1>0, <1>1, <1>2, OccupiedFacts DEF Retires
    <3>3. ASSUME NEW i \in DOMAIN Stores(x), ROB[x].sq_index[i] # NONE
          PROVE  SQ'[ROB[x].sq_index[i]] = SQ[ROB[x].sq_index[i]]
      <4>1. /\ ROB[x].sq_index \in Seq(SQSlots \cup {NONE})
            /\ DOMAIN ROB[x].sq_index = DOMAIN Stores(x)
        BY <2>1, <1>0, EntryFields, OperandFacts
      <4>2. ROB[x].sq_index[i] \in SQSlots
        BY <4>1, <3>3, LenProperties, ElementOfSeq
      <4>3. SQ[ROB[x].sq_index[i]].id = ROB[x].id
        BY <4>1, <3>3, <1>0 DEF SQLinked
      <4> QED BY <4>2, <4>3, <3>2, <1>2
    <3>4. StoresOf(x)' = {i \in DOMAIN Stores(x) :
                            \/ ROB[x].sq_index[i] = NONE
                            \/ SQ'[ROB[x].sq_index[i]].fetched # "COMPLETED"}
      BY <3>1, <1>2 DEF StoresOf, Stores, Instr
    <3> QED BY <3>3, <3>4 DEF StoresOf
  <2> QED BY <2>1, <1>2 DEF ServedLeave
<1> QED BY <1>2, <1>4, <1>5, <1>6, WaitsKept

\* A load that enters LQ waits for the store that Producer names, and becomes
\* its dependent; one that the store has served is not asked about.
LEMMA EnterWaits ==
  ASSUME CoreInv, CoreInv', MemInv, WaitInv, NEW x, Enters(x)
  PROVE  WaitInv'
<1> DEFINE J == LoadsAdded(x) \cap Staying(x)
           P == {Producer(x, Loads(x)[j]) : j \in LoadsAdded(x)} \ {NONE}
<1>0. /\ FrontTypes /\ RobTypes /\ MemoryTypes /\ BuffersInOrder /\ Ring
      /\ LQLinked /\ SQLinked /\ SQRing /\ DependentsWait /\ LoadsWait
      /\ x \in Slots /\ Occupied(x) /\ trace' = trace
  BY DEF CoreInv, MemInv, WaitInv, Enters, frontend
<1>1. EntersROB(x)
  BY <1>0, EnteringROB
<1>2. EntersQueues(x)
  <2>1. PICK c \in 0 .. SQ_SIZE : RingOf(c)
    BY <1>0 DEF SQRing
  <2> QED BY <2>1, EnteringQueues
<1>3. \A s \in Slots : /\ ROB'[s].id = ROB[s].id
                       /\ Occupied(s)' <=> Occupied(s)
                       /\ Loads(s)' = Loads(s)
                       /\ StoresOnce(s)' = StoresOnce(s)
                       /\ Occupied(s) => StoresOf(s)' = StoresOf(s)
  <2>1. \A s \in Slots : ROB'[s].id = ROB[s].id
    BY <1>1 DEF EntersROB
  <2>2. \A s \in Slots : Occupied(s) => StoresOf(s)' = StoresOf(s)
    BY EnteredOperands
  <2>3. \A s \in Slots : StoresOnce(s)' = StoresOnce(s)
    BY <2>1, <1>0 DEF StoresOnce, Stores, Instr
  <2> QED BY <2>1, <2>2, <2>3, <1>0, SameInstructions
<1>4. \A s \in Slots : ROB'[s].mem_dependents =
        IF s # x /\ ROB[s].id \in P THEN ROB[s].mem_dependents \cup {x}
        ELSE ROB[s].mem_dependents
  <2>1. \A s \in Slots : s # x =>
          ROB'[s] = IF ROB[s].id \in P
                    THEN [ROB[s] EXCEPT !.mem_dependents = @ \cup {x}]
                    ELSE ROB[s]
    BY DEF Enters, check_and_add_lsq
  <2> HIDE DEF P
  <2>2. \A s \in Slots : ROB[s] \in LooseEntries
    BY <1>0, EntryFields
  <2>3. ROB'[x].mem_dependents = ROB[x].mem_dependents
    BY <1>1 DEF EntersROB
  <2>4. ASSUME NEW s \in Slots, s # x
        PROVE  ROB'[s].mem_dependents =
                 IF ROB[s].id \in P THEN ROB[s].mem_dependents \cup {x}
                 ELSE ROB[s].mem_dependents
    <3>1. CASE ROB[s].id \in P
      <4>1. ROB'[s] = [ROB[s] EXCEPT !.mem_dependents = @ \cup {x}]
        BY <2>1, <2>4, <3>1
      <4> QED BY <4>1, <3>1, <2>2 DEF LooseEntries
    <3>2. CASE ROB[s].id \notin P
      BY <2>1, <2>4, <3>2
    <3> QED BY <3>1, <3>2
  <2> QED BY <2>3, <2>4
<1>5. \A a : /\ Producer(x, a) = NONE =>
                  \A m \in num_retired .. ROB[x].id - 1 : ~Writes(trace[m], a)
             /\ Producer(x, a) # NONE =>
                  Producer(x, a) \in StoreBefore(ROB[x].id, a)
  BY <1>0, ProducerIs
<1>6. LoadsAdded(x) \subseteq LoadsLeft(x)
      /\ \A j \in LoadsAdded(x) : lq_index(x, j) \in FreeLQ
  BY <1>0, LoadPlaces
<1>7. DependentsWait'
  <2> SUFFICES ASSUME NEW s \in Slots, Occupied(s), NEW d \in ROB'[s].mem_dependents
               PROVE  /\ Occupied(d)
                      /\ \E j \in DOMAIN Loads(d) :
                           ROB[s].id \in StoreBefore(ROB[d].id, Loads(d)[j])
    <3>1. \A s \in Slots : ROB'[s].mem_dependents \subseteq Slots
      BY <1>0, <1>4, EntryFields
    <3>2. \A s \in Slots : Loads(s)' = trace[ROB[s].id].source_memory
                        /\ Loads(s) = trace[ROB[s].id].source_memory
      BY <1>0, <1>3 DEF Loads, Instr
    <3>3. \A s, d \in Slots : \A j \in DOMAIN Loads(d) :
            ROB[s].id \in StoreBefore(ROB[d].id, Loads(d)[j]) =>
              (ROB[s].id \in StoreBefore(ROB[d].id, Loads(d)[j]))'
      BY <1>0, <1>3 DEF StoreBefore, Writes, Loads, Instr
    <3> QED BY <3>1, <3>2, <3>3, <1>3 DEF DependentsWait
  <2>1. CASE d \in ROB[s].mem_dependents
    BY <2>1, <1>0 DEF DependentsWait
  <2>2. CASE d = x /\ ROB[s].id \in P
    <3>1. PICK j \in LoadsAdded(x) : ROB[s].id = Producer(x, Loads(x)[j])
      BY <2>2
    <3>2. j \in DOMAIN Loads(x)
      BY <1>6 DEF LoadsLeft
    <3>3. Producer(x, Loads(x)[j]) # NONE
      BY <3>1 DEF Occupied
    <3> QED BY <2>2, <3>1, <3>2, <3>3, <1>0, <1>5
  <2> QED BY <2>1, <2>2, <1>4
<1> HIDE DEF P
<1>8. ASSUME NEW s \in Slots, NEW d \in Slots, Occupied(s), Occupied(d),
             StoresOf(s) # {}, StoresOnce(s), NEW j \in DOMAIN Loads(d),
             ROB'[d].lq_index[j] # NONE,
             ROB[s].id \in StoreBefore(ROB[d].id, Loads(d)[j])
      PROVE  /\ LQ'[ROB'[d].lq_index[j]].id = ROB[d].id
             /\ LQ'[ROB'[d].lq_index[j]].producer = ROB[s].id
  <2> DEFINE l == ROB'[d].lq_index[j]
  <2>1. CASE d = x /\ j \in LoadsAdded(x)
    <3>1. Producer(x, Loads(x)[j]) = ROB[s].id
      <4>1. ROB[s].id \in 0 .. ROB[x].id - 1 /\ Writes(trace[ROB[s].id], Loads(x)[j])
        BY <1>8, <2>1 DEF StoreBefore
      <4>2. /\ ROB[s].id \in Nat /\ num_retired <= ROB[s].id
            /\ ROB[x].id \in Nat /\ num_retired \in Nat
        BY <1>0, <1>8, OccupiedFacts DEF FrontTypes
      <4>3. ROB[s].id \in num_retired .. ROB[x].id - 1
        BY <4>1, <4>2
      <4>4. Producer(x, Loads(x)[j]) \in StoreBefore(ROB[x].id, Loads(x)[j])
        BY <4>1, <4>3, <1>5
      <4>5. \A m, n \in StoreBefore(ROB[x].id, Loads(x)[j]) : m = n
        BY <4>2 DEF StoreBefore
      <4> QED BY <4>4, <4>5, <1>8, <2>1
    <3>2. j \in Staying(x)
      <4> SUFFICES ASSUME Forwarded(x, j) PROVE FALSE
        BY <2>1, <1>6 DEF Staying
      <4>1. PICK q \in SQSlots : /\ SQ[q].id = ROB[s].id
                                 /\ SQ[q].fetched = "COMPLETED"
        BY <3>1 DEF Forwarded, Forwarding
      <4>2. /\ SQ[q].rob_index \in Slots /\ ROB[SQ[q].rob_index].id = SQ[q].id
            /\ SQ[q].data_index \in DOMAIN Stores(SQ[q].rob_index)
            /\ ROB[SQ[q].rob_index].sq_index[SQ[q].data_index] = q
        BY <4>1, <1>0, <1>8 DEF SQLinked, Occupied
      <4>3. SQ[q].rob_index = s
        BY <4>1, <4>2, <1>0, <1>8, OccupiedFacts
      <4>4. SQ[q].data_index \notin StoresOf(s)
        BY <4>1, <4>2, <4>3 DEF StoresOf, SQSlots, NONE
      <4>5. \A i \in StoresOf(s) : i = SQ[q].data_index
        <5>1. StoresOf(s) \subseteq DOMAIN Stores(s)
          BY DEF StoresOf
        <5> QED BY <5>1, <4>2, <4>3, <1>8, OnlyStore
      <4> QED BY <4>4, <4>5, <1>8
    <3>3. l = lq_index(x, j)
      <4>1. j \in DOMAIN ROB[x].lq_index
        BY <2>1, <1>0, <1>8, OperandFacts
      <4> QED BY <4>1, <2>1, <1>1 DEF EntersROB
    <3>4. LQ'[lq_index(x, j)] =
            [id |-> ROB[x].id, address |-> Loads(x)[j], rob_index |-> x,
             data_index |-> j, producer |-> Producer(x, Loads(x)[j]),
             fetched |-> "no"]
      BY <3>2, <2>1, <1>2 DEF EntersQueues
    <3>5. LQ'[l].id = ROB[x].id /\ LQ'[l].producer = Producer(x, Loads(x)[j])
      BY <3>3, <3>4
    <3> QED BY <3>1, <3>5, <2>1
  <2>2. CASE ~(d = x /\ j \in LoadsAdded(x))
    <3>1. j \in DOMAIN ROB[d].lq_index
      BY <1>8, OperandFacts
    <3>2. l = ROB[d].lq_index[j]
      BY <3>1, <2>2, <1>1 DEF EntersROB
    <3>3. LQ[l].id = ROB[d].id /\ LQ[l].producer = ROB[s].id
      BY <3>2, <1>0, <1>8 DEF LoadsWait
    <3>4. l \in LQSlots
      <4>1. ROB[d].lq_index \in Seq(LQSlots \cup {NONE})
        BY <1>0, EntryFields
      <4> QED BY <4>1, <3>1, <3>2, <1>8, LenProperties, ElementOfSeq
    <3>5. l \notin FreeLQ
      BY <3>3, <1>8 DEF FreeLQ, Occupied
    <3>6. LQ'[l] = LQ[l]
      BY <3>4, <3>5, <1>2, <1>6 DEF EntersQueues
    <3> QED BY <3>3, <3>6
  <2> QED BY <2>1, <2>2
<1>9. LoadsWait'
  <2>1. \A s, d \in Slots : \A j \in DOMAIN Loads(d)' :
          /\ j \in DOMAIN Loads(d)
          /\ (ROB[s].id \in StoreBefore(ROB[d].id, Loads(d)[j]))' =>
               ROB[s].id \in StoreBefore(ROB[d].id, Loads(d)[j])
    BY <1>0, <1>3 DEF StoreBefore, Writes, Loads, Instr
  <2> QED BY <2>1, <1>3, <1>8 DEF LoadsWait
<1> QED BY <1>7, <1>9 DEF WaitInv

\* Dependents and loads wait as they should, in every state.
LEMMA WaitInvariance == Spec => [](CoreInv /\ MemInv /\ WaitInv)
<1>1. Init => CoreInv /\ MemInv /\ WaitInv
  <2>1. Init => \A s \in Slots : ~Occupied(s)
    BY DEF Init, Occupied, NoEntry
  <2> QED BY <2>1, CoreInitially, MemoryInitially
          DEF WaitInv, DependentsWait, LoadsWait
<1>2. ASSUME CoreInv, MemInv, WaitInv, [Next]_vars
      PROVE  CoreInv' /\ MemInv' /\ WaitInv'
  <2>1. CoreInv' /\ MemInv'
    BY <1>2, NextSteps, NothingSteps
  <2>2. CASE schedule_memory_instruction
    BY <2>1, <2>2, <1>2, ScheduleMemoryEnters, EnterWaits
  <2>3. CASE execute_store
    BY <2>1, <2>3, <1>2, StoreStepsWait
  <2>4. CASE execute_load \/ complete_data_fetch
    BY <2>1, <2>4, <1>2, LoadStepsWait
  <2>5. CASE decode_and_dispatch
    BY <2>1, <2>5, <1>2, DispatchWaits
  <2>6. CASE retire_rob
    BY <2>1, <2>6, <1>2, RetireWaits
  <2>7. CASE \/ request_block \/ complete_instr_fetch \/ resume_fetch
             \/ fetch_instruction \/ handle_writeback \/ read_from_trace
             \/ schedule_instruction \/ execute_instruction
             \/ \E s \in Slots : complete_execution(s)
             \/ UNCHANGED vars
    BY <2>1, <2>7, <1>2, RegisterStepsWait
  <2> QED BY <2>1, <2>2, <2>3, <2>4, <2>5, <2>6, <2>7, <1>2 DEF Next
<1> QED BY <1>1, <1>2, PTL DEF Spec

\* In every program, the assertion of execute_store holds for the store of an
\* instruction that stores once: the loads it finds wait for that store.
THEOREM StoresWakeTheirOwn == Spec => []WakesItsOwn
<1>1. ASSUME CoreInv, MemInv, WaitInv PROVE WakesItsOwn
  <2> SUFFICES ASSUME RTS0 # <<>>, StoresOnce(SQ[Head(RTS0)].rob_index),
                      NEW l \in Dependents(Head(RTS0))
               PROVE  LQ[l].producer = SQ[Head(RTS0)].id
    BY DEF WakesItsOwn, ProducerOf, StoresOnce
  <2> DEFINE q == Head(RTS0)
             s == SQ[q].rob_index
  <2>0. /\ FrontTypes /\ RobTypes /\ MemoryTypes /\ BuffersInOrder /\ Ring
        /\ SQLinked /\ LSQReady /\ DependentsWait /\ LoadsWait
    BY <1>1 DEF CoreInv, MemInv, WaitInv
  <2>1. q \in SQSlots /\ SQ[q].id # NONE /\ SQ[q].fetched = "no"
    <3>1. q \in Elements(RTS0)
      BY <2>0, OnceHead DEF MemoryTypes
    <3> QED BY <3>1, <2>0 DEF LSQReady
  <2>2. /\ s \in Slots /\ ROB[s].id = SQ[q].id /\ Occupied(s)
        /\ SQ[q].data_index \in DOMAIN Stores(s)
        /\ ROB[s].sq_index[SQ[q].data_index] = q
        /\ SQ[q].address = Stores(s)[SQ[q].data_index]
    BY <2>0, <2>1 DEF SQLinked, Occupied
  <2>3. SQ[q].data_index \in StoresOf(s)
    BY <2>1, <2>2 DEF StoresOf
  <2>4. PICK d \in ROB[s].mem_dependents : \E j \in DOMAIN Loads(d) :
              ROB[d].lq_index[j] = l /\ Loads(d)[j] = SQ[q].address
    BY DEF Dependents
  <2>10. PICK j \in DOMAIN Loads(d) :
            ROB[d].lq_index[j] = l /\ Loads(d)[j] = SQ[q].address
    BY <2>4
  <2>5. l # NONE
    BY DEF Dependents, AllDependents
  <2>6. d \in Slots /\ Occupied(d)
    BY <2>0, <2>2, EntryFields DEF DependentsWait
  <2>7. PICK i \in DOMAIN Loads(d) :
           ROB[s].id \in StoreBefore(ROB[d].id, Loads(d)[i])
    BY <2>0, <2>2 DEF DependentsWait
  <2>8. Loads(d)[i] = SQ[q].address
    <3>1. Writes(Instr(s), Loads(d)[i])
      BY <2>7 DEF StoreBefore, Instr
    <3>2. PICK k \in DOMAIN Stores(s) : Stores(s)[k] = Loads(d)[i]
      BY <3>1 DEF Writes, Elements, Stores
    <3>3. k = SQ[q].data_index
      BY <2>2, <1>1, OnlyStore
    <3> QED BY <3>2, <3>3, <2>2
  <2>9. LQ[l].producer = ROB[s].id
    BY <2>0, <2>2, <2>3, <2>5, <2>6, <2>7, <2>8, <2>10 DEF LoadsWait
  <2> QED BY <2>2, <2>9
<1> QED BY <1>1, WaitInvariance, PTL

=============================================================================
