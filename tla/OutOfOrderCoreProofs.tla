------------------------ MODULE OutOfOrderCoreProofs ------------------------
(***************************************************************************)
(* Proofs about OutOfOrderCore, for every program and every size of its    *)
(* buffers and queues: the reorder buffer is a ring of the instructions    *)
(* under way, one branch at most stalls fetching, and no instruction       *)
(* starts before the instructions that produce its registers.              *)
(***************************************************************************)
EXTENDS OutOfOrderCore, FunctionTheorems, FiniteSetTheorems,
        SequenceTheorems, WellFoundedInduction, TLAPS

-----------------------------------------------------------------------------
(* The invariant *)

Resumes == {"never", "decode", "completion"}
Decodes == [id : Nat, resumes : Resumes]

\* Entries of ROB whose counters may be any number.
LooseEntries ==
  [id : Ids, resumes : Resumes, scheduled : Status, executed : Status,
   reg_ready : BOOLEAN, num_reg_dependent : Int, num_mem_ops : Int,
   reg_dependents : SUBSET (Slots \X Registers),
   mem_dependents : SUBSET Slots, lq_index : Seq(LQSlots \cup {NONE}),
   sq_index : Seq(SQSlots \cup {NONE})]

\* TypeOK without what it says of the counters of ROB and of the history of
\* loads, which needs the rest of the invariant.
FrontTypes ==
  /\ trace \in Programs /\ instr_unique_id \in Nat /\ num_retired \in Nat
  /\ IFETCH_BUFFER \in Seq(Fetches) /\ DECODE_BUFFER \in Seq(Decodes)
  /\ fetch_stall \in BOOLEAN /\ resume \in BOOLEAN
  /\ l1i \subseteq Blocks

RobTypes ==
  /\ ROB \in [Slots -> LooseEntries]
  /\ RTE0 \in Seq(Slots) /\ RTE1 \in Seq(Slots)

MemoryTypes ==
  /\ LQ \in [LQSlots -> LSQEntries] /\ SQ \in [SQSlots -> LSQEntries]
  /\ SQ_head \in SQSlots /\ STA \in Seq(Nat)
  /\ RTL0 \in Seq(LQSlots) /\ RTS0 \in Seq(SQSlots)
  /\ l1d \subseteq LQSlots /\ wq \subseteq Addresses
  /\ memory \in [Addresses -> Ids]
  /\ lost \subseteq [id : Nat, address : Addresses]

\* How many instructions have entered ROB.
Dispatched == instr_unique_id - (Len(IFETCH_BUFFER) + Len(DECODE_BUFFER))

\* The buffers hold the instructions that follow, in program order.
BuffersInOrder ==
  /\ 0 .. instr_unique_id - 1 \subseteq DOMAIN trace
  /\ num_retired <= Dispatched
  /\ \A i \in DOMAIN DECODE_BUFFER : DECODE_BUFFER[i].id = Dispatched + (i - 1)
  /\ \A i \in DOMAIN IFETCH_BUFFER :
       IFETCH_BUFFER[i].id = Dispatched + Len(DECODE_BUFFER) + (i - 1)

\* ROB holds exactly the instructions that have entered it and not retired,
\* each in its slot.
Ring ==
  /\ \A n \in num_retired .. Dispatched - 1 : ROB[slot(n)].id = n
  /\ \A s \in Slots : Occupied(s) =>
       /\ ROB[s].id \in num_retired .. Dispatched - 1
       /\ slot(ROB[s].id) = s
       /\ DOMAIN ROB[s].lq_index = DOMAIN Loads(s)
       /\ DOMAIN ROB[s].sq_index = DOMAIN Stores(s)
  /\ \A s \in Slots : ~Occupied(s) =>
       /\ ROB[s].resumes = "never" /\ ROB[s].scheduled = "no"
       /\ ROB[s].lq_index = <<>> /\ ROB[s].sq_index = <<>>
       /\ ROB[s].reg_dependents = {}

\* The writers that slot s still waits for, each with the register it writes.
Pending(s) ==
  {d \in Slots \X Registers : /\ ROB[d[1]].executed # "COMPLETED"
                              /\ <<s, d[2]>> \in ROB[d[1]].reg_dependents}

\* What has not been scheduled has no dependence yet, and what is not ready
\* has not started.
Idle(s) == ~ROB[s].reg_ready /\ ROB[s].num_reg_dependent = 0

NotStarted(s) ==
  /\ ROB[s].executed = "no"
  /\ \A j \in DOMAIN ROB[s].lq_index : ROB[s].lq_index[j] = NONE
  /\ \A j \in DOMAIN ROB[s].sq_index : ROB[s].sq_index[j] = NONE

\* Each writer of a register that slot s reads is retired, has executed, or
\* will release s.
Produced(s, r) ==
  \A m \in LastWriter(ROB[s].id, r) :
    \/ m < num_retired
    \/ ROB[slot(m)].executed = "COMPLETED"
    \/ <<s, r>> \in ROB[slot(m)].reg_dependents

\* The dependents of an instruction are younger than it and scheduled.
DependentsYounger ==
  \A x \in Slots : \A d \in ROB[x].reg_dependents :
    /\ Occupied(d[1]) /\ ROB[d[1]].scheduled # "no"
    /\ ROB[x].id < ROB[d[1]].id

\* num_reg_dependent and reg_ready say what slot s waits for.
DependencesCounted ==
  \A s \in Slots :
    /\ ROB[s].scheduled = "no" => Idle(s)
    /\ ROB[s].scheduled # "no" =>
         /\ ROB[s].num_reg_dependent = Cardinality(Pending(s))
         /\ ROB[s].reg_ready <=> (Pending(s) = {})
         /\ \A r \in Instr(s).source_registers : Produced(s, r)
    /\ ~ROB[s].reg_ready => NotStarted(s)

\* The part of ReadyQueuesExact that is about RTE0 and RTE1.
RTEExact ==
  /\ Once(RTE0 \o RTE1)
  /\ Elements(RTE0 \o RTE1) =
       {s \in Slots : /\ Occupied(s) /\ ~is_memory(s) /\ ROB[s].reg_ready
                      /\ ROB[s].executed = "no"}

\* What registers make instructions wait for is accounted for.
RegistersInv == DependentsYounger /\ DependencesCounted /\ RTEExact

\* The invariant of buffers, ROB and registers.
CoreInv ==
  /\ FrontTypes /\ RobTypes /\ MemoryTypes
  /\ BuffersInOrder /\ Ring /\ RegistersInv /\ OneStallingBranch


-----------------------------------------------------------------------------
(* Numbers, sets and sequences *)

\* A non-empty set of naturals has a least element.
LEMMA LeastOf ==
  ASSUME NEW S \in SUBSET Nat, S # {}
  PROVE  \E m \in S : \A n \in S : m <= n
<1>1. PICK m \in S : \A n \in S : ~(<<n, m>> \in OpToRel(<, Nat))
  BY NatLessThanWellFounded, WFMin, Zenon
<1>2. \A n \in S : ~(n < m)
  <2>1. \A n \in S : <<n, m>> \in Nat \X Nat
    OBVIOUS
  <2> QED BY <1>1, <2>1 DEF OpToRel
<1> QED BY <1>2

\* A finite set of integers has a greatest element: the one with the fewest
\* members above it.
LEMMA GreatestOf ==
  ASSUME NEW S \in SUBSET Int, IsFiniteSet(S), S # {}
  PROVE  \E m \in S : \A n \in S : n <= m
<1> DEFINE Above(m) == {n \in S : m < n}
           C == {Cardinality(Above(m)) : m \in S}
<1>1. \A m \in S : /\ IsFiniteSet(Above(m)) /\ Cardinality(Above(m)) \in Nat
  BY FS_Subset, FS_CardinalityType
<1>2. C \in SUBSET Nat /\ C # {}
  BY <1>1
<1>3. PICK c \in C : \A d \in C : c <= d
  BY <1>2, LeastOf
<1>4. PICK m \in S : c = Cardinality(Above(m))
  BY <1>3
<1>5. ASSUME NEW n \in S, m < n PROVE FALSE
  <2>1. Above(n) \subseteq Above(m) /\ n \in Above(m) /\ n \notin Above(n)
    <3>1. m \in Int /\ n \in Int /\ \A k \in S : k \in Int
      OBVIOUS
    <3>2. \A k \in S : n < k => m < k
      BY <1>5, <3>1
    <3>3. ~(n < n)
      BY <3>1
    <3> QED BY <1>5, <3>2, <3>3, Zenon
  <2>2. /\ Cardinality(Above(n)) <= Cardinality(Above(m))
        /\ Cardinality(Above(n)) # Cardinality(Above(m))
    <3>1. IsFiniteSet(Above(m))
      BY <1>1
    <3> HIDE DEF Above
    <3> QED BY <2>1, <3>1, FS_Subset
  <2>3. Cardinality(Above(m)) <= Cardinality(Above(n))
    BY <1>3, <1>4
  <2>4. Cardinality(Above(n)) \in Nat /\ Cardinality(Above(m)) \in Nat
    BY <1>1
  <2> QED BY <2>2, <2>3, <2>4
<1> QED BY <1>5

\* Before numbers the members of a finite set of integers from 0 on, in
\* ascending order.
LEMMA BeforeRanks ==
  ASSUME NEW S \in SUBSET Int, IsFiniteSet(S)
  PROVE  /\ Cardinality(S) \in Nat
         /\ \A j \in S : Before(S, j) \in 0 .. Cardinality(S) - 1
         /\ \A j, k \in S : j < k => Before(S, j) < Before(S, k)
         /\ \A j, k \in S : Before(S, j) = Before(S, k) => j = k
         /\ \A n \in 0 .. Cardinality(S) - 1 : \E j \in S : Before(S, j) = n
<1> DEFINE Under(j) == {k \in S : k < j}
           B == [j \in S |-> Before(S, j)]
           N == 0 .. Cardinality(S) - 1
<1>1. Cardinality(S) \in Nat
  BY FS_CardinalityType
<1>2. \A j \in S : IsFiniteSet(Under(j)) /\ Before(S, j) = Cardinality(Under(j))
                   /\ Before(S, j) \in Nat
  BY FS_Subset, FS_CardinalityType DEF Before
<1>3. ASSUME NEW j \in S PROVE Before(S, j) < Cardinality(S)
  <2>1. Under(j) \subseteq S /\ j \in S /\ j \notin Under(j)
    OBVIOUS
  <2> HIDE DEF Under
  <2>2. /\ Cardinality(Under(j)) <= Cardinality(S)
        /\ Cardinality(Under(j)) # Cardinality(S)
    BY <2>1, FS_Subset
  <2> QED BY <2>2, <1>1, <1>2
<1>4. ASSUME NEW j \in S, NEW k \in S, j < k PROVE Before(S, j) < Before(S, k)
  <2>1. Under(j) \subseteq Under(k) /\ j \in Under(k) /\ j \notin Under(j)
    <3>1. j \in Int /\ k \in Int /\ \A i \in S : i \in Int
      OBVIOUS
    <3>2. \A i \in S : i < j => i < k
      BY <1>4, <3>1
    <3>3. ~(j < j)
      BY <3>1
    <3> QED BY <1>4, <3>2, <3>3, Zenon
  <2>2. IsFiniteSet(Under(k)) /\ Before(S, j) = Cardinality(Under(j))
        /\ Before(S, k) = Cardinality(Under(k))
        /\ Before(S, j) \in Nat /\ Before(S, k) \in Nat
    BY <1>2
  <2> HIDE DEF Under
  <2>3. /\ Cardinality(Under(j)) <= Cardinality(Under(k))
        /\ Cardinality(Under(j)) # Cardinality(Under(k))
    BY <2>1, <2>2, FS_Subset
  <2> QED BY <2>2, <2>3
<1>5. ASSUME NEW j \in S PROVE Before(S, j) \in N
  <2>1. Before(S, j) \in Nat /\ Before(S, j) < Cardinality(S)
    BY <1>2, <1>3
  <2> QED BY <2>1, <1>1
<1>6. ASSUME NEW j \in S, NEW k \in S, Before(S, j) = Before(S, k) PROVE j = k
  <2>0. j \in Int /\ k \in Int /\ Before(S, j) \in Nat
    BY <1>2
  <2>1. ~(j < k)
    BY <2>0, <1>4, <1>6
  <2>2. ~(k < j)
    BY <2>0, <1>4, <1>6
  <2> QED BY <2>0, <2>1, <2>2
<1>7. IsFiniteSet(N) /\ Cardinality(N) = Cardinality(S)
  <2>1. 0 \in Int /\ Cardinality(S) - 1 \in Int
    BY <1>1
  <2>2. IsFiniteSet(N) /\ Cardinality(N) = IF 0 > Cardinality(S) - 1 THEN 0
                                           ELSE (Cardinality(S) - 1) - 0 + 1
    BY <2>1, FS_Interval, Zenon
  <2> QED BY <2>2, <1>1
<1>8. B \in Injection(S, N)
  <2>1. B \in [S -> N]
    BY <1>5
  <2> QED BY <2>1, <1>6 DEF Injection, IsInjective
<1>9. B \in Surjection(S, N)
  BY <1>7, <1>8, FS_Injection
<1>10. \A n \in N : \E j \in S : B[j] = n
  BY <1>9 DEF Surjection
<1> QED BY <1>1, <1>4, <1>5, <1>6, <1>10

\* InOrder lists each member of a finite set of integers once.
LEMMA InOrderLists ==
  ASSUME NEW S \in SUBSET Int, IsFiniteSet(S)
  PROVE  /\ InOrder(S) \in Seq(S) /\ Len(InOrder(S)) = Cardinality(S)
         /\ Once(InOrder(S)) /\ Elements(InOrder(S)) = S
         /\ Cardinality(S) \in Nat /\ DOMAIN InOrder(S) = 1 .. Cardinality(S)
         /\ \A k \in 1 .. Cardinality(S) : Before(S, InOrder(S)[k]) = k - 1
<1> DEFINE c == Cardinality(S)
           E(k) == CHOOSE j \in S : Before(S, j) = k - 1
<1>1. c \in Nat
  BY BeforeRanks
<1>2. ASSUME NEW k \in 1 .. c PROVE E(k) \in S /\ Before(S, E(k)) = k - 1
  <2>1. k - 1 \in 0 .. c - 1
    BY <1>1
  <2>2. \E j \in S : Before(S, j) = k - 1
    BY <2>1, BeforeRanks
  <2> QED BY <2>2
<1>3. InOrder(S) = [k \in 1 .. c |-> E(k)]
  BY DEF InOrder
<1>4. \A k \in 1 .. c : InOrder(S)[k] = E(k)
  BY <1>3
<1>5. DOMAIN InOrder(S) = 1 .. c
  BY <1>3
<1> HIDE DEF c, E
<1>6. InOrder(S) \in Seq(S)
  BY <1>1, <1>2, <1>3, IsASeq
<1>7. Len(InOrder(S)) = c
  BY <1>1, <1>5, <1>6, LenProperties
<1>8. ASSUME NEW k \in 1 .. c, NEW l \in 1 .. c, E(k) = E(l) PROVE k = l
  <2>1. k - 1 = l - 1
    BY <1>2, <1>8
  <2> QED BY <2>1, <1>1
<1>9. Once(InOrder(S))
  BY <1>4, <1>5, <1>8 DEF Once
<1>10. ASSUME NEW j \in S PROVE \E k \in 1 .. c : E(k) = j
  <2>1. Before(S, j) \in 0 .. c - 1
    BY BeforeRanks DEF c
  <2>2. Before(S, j) + 1 \in 1 .. c
    BY <2>1, <1>1
  <2>3. Before(S, E(Before(S, j) + 1)) = (Before(S, j) + 1) - 1
        /\ E(Before(S, j) + 1) \in S
    BY <2>2, <1>2
  <2>4. Before(S, E(Before(S, j) + 1)) = Before(S, j)
    BY <2>1, <2>3, <1>1
  <2> DEFINE i == E(Before(S, j) + 1)
  <2>5. i = j
    <3>1. i \in S /\ Before(S, i) = Before(S, j)
      BY <2>3, <2>4
    <3> HIDE DEF i
    <3> QED BY <3>1, BeforeRanks
  <2> QED BY <2>2, <2>5
<1>11. Elements(InOrder(S)) = S
  BY <1>2, <1>4, <1>5, <1>10 DEF Elements
<1> QED BY <1>1, <1>2, <1>4, <1>5, <1>6, <1>7, <1>9, <1>11 DEF c

\* A queue that names each thing once, and what it names: for a queue joined
\* from two, for one that grows, and for one that loses its head.
LEMMA OnceConcat ==
  ASSUME NEW T, NEW p \in Seq(T), NEW q \in Seq(T)
  PROVE  /\ Elements(p \o q) = Elements(p) \cup Elements(q)
         /\ Once(p \o q) <=> /\ Once(p) /\ Once(q)
                             /\ Elements(p) \cap Elements(q) = {}
<1> DEFINE m == Len(p)
           n == Len(q)
           c == p \o q
<1>1. /\ m \in Nat /\ n \in Nat /\ DOMAIN p = 1 .. m /\ DOMAIN q = 1 .. n
      /\ DOMAIN c = 1 .. m + n
  BY LenProperties, ConcatProperties
<1>2. \A i \in 1 .. m + n : c[i] = IF i <= m THEN p[i] ELSE q[i - m]
  BY ConcatProperties
<1> HIDE DEF m, n, c
<1>3. \A i \in 1 .. m : i \in 1 .. m + n /\ c[i] = p[i]
  BY <1>1, <1>2
<1>4. \A i \in 1 .. n : i + m \in 1 .. m + n /\ c[i + m] = q[i] /\ i + m \notin 1 .. m
  <2> TAKE i \in 1 .. n
  <2>1. i + m \in 1 .. m + n /\ ~(i + m <= m) /\ (i + m) - m = i
    BY <1>1
  <2> QED BY <2>1, <1>2
<1>5. \A i \in 1 .. m + n : \/ i \in 1 .. m
                            \/ i - m \in 1 .. n /\ c[i] = q[i - m]
  BY <1>1, <1>2
<1>6. Elements(c) = Elements(p) \cup Elements(q)
  <2>1. \A x \in Elements(c) : x \in Elements(p) \/ x \in Elements(q)
    BY <1>1, <1>3, <1>5 DEF Elements
  <2>2. \A x \in Elements(p) : x \in Elements(c)
    BY <1>1, <1>3 DEF Elements
  <2>3. \A x \in Elements(q) : x \in Elements(c)
    <3> TAKE x \in Elements(q)
    <3>1. PICK i \in 1 .. n : x = q[i]
      BY <1>1 DEF Elements
    <3>2. i + m \in DOMAIN c /\ c[i + m] = x
      BY <3>1, <1>1, <1>4
    <3> QED BY <3>2 DEF Elements
  <2> QED BY <2>1, <2>2, <2>3
<1>7. ASSUME Once(c)
      PROVE  Once(p) /\ Once(q) /\ Elements(p) \cap Elements(q) = {}
  <2>1. \A i, j \in 1 .. m + n : c[i] = c[j] => i = j
    BY <1>1, <1>7 DEF Once
  <2>2. Once(p)
    BY <1>1, <1>3, <2>1 DEF Once
  <2>3. ASSUME NEW i \in 1 .. n, NEW j \in 1 .. n, q[i] = q[j] PROVE i = j
    <3>1. i + m = j + m
      BY <1>4, <2>1, <2>3
    <3> QED BY <3>1, <1>1
  <2>4. Once(q)
    BY <1>1, <2>3 DEF Once
  <2>5. ASSUME NEW i \in 1 .. m, NEW j \in 1 .. n, p[i] = q[j] PROVE FALSE
    <3>1. i = j + m
      BY <1>3, <1>4, <2>1, <2>5
    <3> QED BY <3>1, <1>1
  <2>6. Elements(p) \cap Elements(q) = {}
    BY <1>1, <2>5 DEF Elements
  <2> QED BY <2>2, <2>4, <2>6
<1>8. ASSUME Once(p), Once(q), Elements(p) \cap Elements(q) = {}
      PROVE  Once(c)
  <2>1. /\ \A i, j \in 1 .. m : p[i] = p[j] => i = j
        /\ \A i, j \in 1 .. n : q[i] = q[j] => i = j
        /\ \A i \in 1 .. m, j \in 1 .. n : p[i] # q[j]
    <3>1. \A i \in 1 .. m : p[i] \in Elements(p)
      BY <1>1 DEF Elements
    <3>2. \A i \in 1 .. n : q[i] \in Elements(q)
      BY <1>1 DEF Elements
    <3>3. \A i \in 1 .. m, j \in 1 .. n : p[i] # q[j]
      BY <3>1, <3>2, <1>8
    <3> QED BY <3>3, <1>1, <1>8 DEF Once
  <2>2. ASSUME NEW i \in 1 .. m + n, NEW j \in 1 .. m + n, c[i] = c[j]
        PROVE  i = j
    <3>1. CASE i \in 1 .. m /\ j \in 1 .. m
      BY <2>1, <2>2, <3>1, <1>3
    <3>2. CASE i \in 1 .. m /\ j \notin 1 .. m
      BY <2>1, <2>2, <3>2, <1>3, <1>5
    <3>3. CASE i \notin 1 .. m /\ j \in 1 .. m
      BY <2>1, <2>2, <3>3, <1>3, <1>5
    <3>4. CASE i \notin 1 .. m /\ j \notin 1 .. m
      <4>1. i - m = j - m
        BY <2>1, <2>2, <3>4, <1>5
      <4> QED BY <4>1, <1>1
    <3> QED BY <3>1, <3>2, <3>3, <3>4
  <2> QED BY <1>1, <2>2 DEF Once
<1> QED BY <1>6, <1>7, <1>8 DEF c

\* A queue of one.
LEMMA OneElement ==
  ASSUME NEW T, NEW x \in T
  PROVE  <<x>> \in Seq(T) /\ Once(<<x>>) /\ Elements(<<x>>) = {x}
<1>1. DOMAIN <<x>> = {1} /\ <<x>>[1] = x
  OBVIOUS
<1> QED BY <1>1 DEF Once, Elements

\* Taking the head of a queue.
LEMMA OnceHead ==
  ASSUME NEW T, NEW q \in Seq(T), q # <<>>
  PROVE  /\ Head(q) \in T /\ Tail(q) \in Seq(T) /\ Head(q) \in Elements(q)
         /\ Elements(q) = {Head(q)} \cup Elements(Tail(q))
         /\ Once(q) => Once(Tail(q)) /\ Head(q) \notin Elements(Tail(q))
<1>1. <<Head(q)>> \o Tail(q) = q /\ Head(q) \in T /\ Tail(q) \in Seq(T)
  BY HeadTailProperties
<1>2. /\ <<Head(q)>> \in Seq(T) /\ Elements(<<Head(q)>>) = {Head(q)}
  BY <1>1, OneElement
<1>3. /\ Elements(<<Head(q)>> \o Tail(q)) =
           Elements(<<Head(q)>>) \cup Elements(Tail(q))
      /\ Once(<<Head(q)>> \o Tail(q)) =>
           Once(Tail(q)) /\ Elements(<<Head(q)>>) \cap Elements(Tail(q)) = {}
  BY <1>1, <1>2, OnceConcat
<1> QED BY <1>1, <1>2, <1>3

\* A queue that takes one more.
LEMMA OnceAppend ==
  ASSUME NEW T, NEW q \in Seq(T), NEW x \in T
  PROVE  /\ Append(q, x) \in Seq(T)
         /\ Elements(Append(q, x)) = Elements(q) \cup {x}
         /\ Once(q) /\ x \notin Elements(q) => Once(Append(q, x))
<1>1. Append(q, x) = q \o <<x>> /\ Append(q, x) \in Seq(T)
  BY AppendIsConcat, AppendProperties
<1>2. <<x>> \in Seq(T) /\ Once(<<x>>) /\ Elements(<<x>>) = {x}
  BY OneElement
<1>3. /\ Elements(q \o <<x>>) = Elements(q) \cup Elements(<<x>>)
      /\ Once(q \o <<x>>) <=> /\ Once(q) /\ Once(<<x>>)
                              /\ Elements(q) \cap Elements(<<x>>) = {}
  BY <1>2, OnceConcat
<1> QED BY <1>1, <1>2, <1>3

\* Each slot is below ROB_SIZE.
LEMMA SlotOf ==
  ASSUME NEW n \in Nat
  PROVE  slot(n) \in Slots
BY CoreAssumption DEF slot, Slots

-----------------------------------------------------------------------------
(* What the invariant says of instructions and entries *)

\* The instructions read from the trace are what a trace file may hold.
LEMMA TraceFacts ==
  ASSUME FrontTypes, NEW n \in DOMAIN trace
  PROVE  /\ trace[n] \in Instructions /\ n \in Nat
         /\ trace[n].block \in Blocks
         /\ trace[n].source_registers \subseteq Registers
         /\ trace[n].destination_registers \subseteq Registers
         /\ trace[n].source_memory \in Seq(Addresses)
         /\ trace[n].destination_memory \in Seq(Addresses)
         /\ trace[n].branch \in {"none", "direct", "indirect"}
<1>1. trace \in Programs
  BY DEF FrontTypes
<1>2. /\ trace[n] \in Instructions /\ IsFiniteSet(DOMAIN trace)
      /\ DOMAIN trace = 0 .. Cardinality(DOMAIN trace) - 1
  BY <1>1, CoreAssumption
<1>3. n \in Nat
  <2>1. Cardinality(DOMAIN trace) \in Nat
    BY <1>2, FS_CardinalityType
  <2> DEFINE c == Cardinality(DOMAIN trace) - 1
  <2>2. c \in Int /\ n \in 0 .. c
    BY <2>1, <1>2
  <2> HIDE DEF c
  <2> QED BY <2>2
<1> QED BY <1>2, <1>3 DEF Instructions

\* What is known of the numbers that bound the buffers and the ring.
LEMMA Numbers ==
  ASSUME FrontTypes, BuffersInOrder
  PROVE  /\ Len(IFETCH_BUFFER) \in Nat /\ Len(DECODE_BUFFER) \in Nat
         /\ DOMAIN IFETCH_BUFFER = 1 .. Len(IFETCH_BUFFER)
         /\ DOMAIN DECODE_BUFFER = 1 .. Len(DECODE_BUFFER)
         /\ instr_unique_id \in Nat /\ num_retired \in Nat
         /\ Dispatched \in Nat /\ num_retired <= Dispatched
         /\ Dispatched + Len(DECODE_BUFFER) + Len(IFETCH_BUFFER) = instr_unique_id
         /\ \A n \in 0 .. Dispatched - 1 : n \in DOMAIN trace
<1>1. /\ Len(IFETCH_BUFFER) \in Nat /\ Len(DECODE_BUFFER) \in Nat
      /\ DOMAIN IFETCH_BUFFER = 1 .. Len(IFETCH_BUFFER)
      /\ DOMAIN DECODE_BUFFER = 1 .. Len(DECODE_BUFFER)
  BY LenProperties DEF FrontTypes
<1>2. instr_unique_id \in Nat /\ num_retired \in Nat /\ num_retired <= Dispatched
      /\ 0 .. instr_unique_id - 1 \subseteq DOMAIN trace
  BY DEF FrontTypes, BuffersInOrder
<1>3. Dispatched \in Nat
      /\ Dispatched + Len(DECODE_BUFFER) + Len(IFETCH_BUFFER) = instr_unique_id
      /\ Dispatched <= instr_unique_id
  BY <1>1, <1>2 DEF Dispatched
<1>4. \A n \in 0 .. Dispatched - 1 : n \in 0 .. instr_unique_id - 1
  BY <1>2, <1>3
<1> QED BY <1>1, <1>2, <1>3, <1>4

\* The fields of an entry of ROB have their types.
LEMMA EntryFields ==
  ASSUME RobTypes, NEW s \in Slots
  PROVE  /\ ROB[s] \in LooseEntries /\ ROB[s].id \in Ids
         /\ ROB[s].resumes \in Resumes /\ ROB[s].scheduled \in Status
         /\ ROB[s].executed \in Status /\ ROB[s].reg_ready \in BOOLEAN
         /\ ROB[s].num_reg_dependent \in Int /\ ROB[s].num_mem_ops \in Int
         /\ ROB[s].reg_dependents \in SUBSET (Slots \X Registers)
         /\ ROB[s].mem_dependents \in SUBSET Slots
         /\ ROB[s].lq_index \in Seq(LQSlots \cup {NONE})
         /\ ROB[s].sq_index \in Seq(SQSlots \cup {NONE})
BY DEF RobTypes, LooseEntries

\* An entry of ROB holds an instruction of the trace, no other entry holds it,
\* and everything older is retired or in ROB.
LEMMA OccupiedFacts ==
  ASSUME FrontTypes, RobTypes, BuffersInOrder, Ring, NEW s \in Slots, Occupied(s)
  PROVE  /\ ROB[s].id \in Nat /\ ROB[s].id \in DOMAIN trace
         /\ num_retired <= ROB[s].id /\ ROB[s].id < Dispatched
         /\ slot(ROB[s].id) = s
         /\ DOMAIN ROB[s].lq_index = DOMAIN Loads(s)
         /\ DOMAIN ROB[s].sq_index = DOMAIN Stores(s)
         /\ \A x \in Slots : ROB[x].id = ROB[s].id => x = s
         /\ \A n \in num_retired .. ROB[s].id :
              slot(n) \in Slots /\ ROB[slot(n)].id = n /\ Occupied(slot(n))
<1>0. /\ Dispatched \in Nat /\ num_retired \in Nat
      /\ \A n \in 0 .. Dispatched - 1 : n \in DOMAIN trace
  BY Numbers
<1>1. /\ ROB[s].id \in num_retired .. Dispatched - 1
      /\ slot(ROB[s].id) = s
      /\ DOMAIN ROB[s].lq_index = DOMAIN Loads(s)
      /\ DOMAIN ROB[s].sq_index = DOMAIN Stores(s)
  BY DEF Ring
<1>2. ROB[s].id \in 0 .. Dispatched - 1
  BY <1>0, <1>1
<1>3. \A x \in Slots : ROB[x].id = ROB[s].id => slot(ROB[x].id) = x
  <2>1. \A x \in Slots : Occupied(x) => slot(ROB[x].id) = x
    BY DEF Ring
  <2> QED BY <2>1 DEF Occupied
<1>4. ASSUME NEW n \in num_retired .. ROB[s].id
      PROVE  slot(n) \in Slots /\ ROB[slot(n)].id = n /\ Occupied(slot(n))
  <2>1. n \in Nat /\ n \in num_retired .. Dispatched - 1 /\ n # NONE
    BY <1>0, <1>1 DEF NONE
  <2>2. ROB[slot(n)].id = n
    BY <2>1 DEF Ring
  <2> QED BY <2>1, <2>2, SlotOf DEF Occupied
<1> QED BY <1>0, <1>1, <1>2, <1>3, <1>4

\* The oldest instruction is where retire_rob looks for it.
LEMMA OldestFacts ==
  ASSUME FrontTypes, RobTypes, BuffersInOrder, Ring, Occupied(slot(num_retired))
  PROVE  /\ slot(num_retired) \in Slots
         /\ ROB[slot(num_retired)].id = num_retired /\ num_retired < Dispatched
<1>0. /\ Dispatched \in Nat /\ num_retired \in Nat
  BY Numbers
<1>1. slot(num_retired) \in Slots
  BY <1>0, SlotOf
<1>2. /\ num_retired <= ROB[slot(num_retired)].id
      /\ ROB[slot(num_retired)].id < Dispatched /\ ROB[slot(num_retired)].id \in Nat
  BY <1>1, OccupiedFacts
<1>3. num_retired \in num_retired .. Dispatched - 1
  BY <1>0, <1>2
<1> QED BY <1>0, <1>1, <1>2, <1>3 DEF Ring

\* What an entry that is not occupied holds, when registers are accounted for.
LEMMA EmptyFacts ==
  ASSUME Ring, RegistersInv, NEW s \in Slots, ~Occupied(s)
  PROVE  /\ ROB[s].id = NONE /\ ROB[s].resumes = "never"
         /\ ROB[s].scheduled = "no" /\ ROB[s].executed = "no"
         /\ ~ROB[s].reg_ready /\ ROB[s].num_reg_dependent = 0
         /\ ROB[s].lq_index = <<>> /\ ROB[s].sq_index = <<>>
         /\ ROB[s].reg_dependents = {}
BY DEF Ring, RegistersInv, DependencesCounted, Idle, NotStarted, Occupied

-----------------------------------------------------------------------------
(* Fetching *)

\* Mark changes nothing but the fetched status.
LEMMA MarkFacts ==
  ASSUME FrontTypes, NEW b, NEW f \in Status
  PROVE  /\ Mark(b, f) \in Seq(Fetches) /\ Len(Mark(b, f)) = Len(IFETCH_BUFFER)
         /\ DOMAIN Mark(b, f) = DOMAIN IFETCH_BUFFER
         /\ \A i \in DOMAIN IFETCH_BUFFER :
              /\ Mark(b, f)[i].id = IFETCH_BUFFER[i].id
              /\ Mark(b, f)[i].resumes = IFETCH_BUFFER[i].resumes
<1> DEFINE n == Len(IFETCH_BUFFER)
           e(i) == IF trace[IFETCH_BUFFER[i].id].block = b
                   THEN [IFETCH_BUFFER[i] EXCEPT !.fetched = f]
                   ELSE IFETCH_BUFFER[i]
<1>1. n \in Nat /\ DOMAIN IFETCH_BUFFER = 1 .. n
      /\ \A i \in 1 .. n : IFETCH_BUFFER[i] \in Fetches
  BY LenProperties, ElementOfSeq DEF FrontTypes
<1>2. \A i \in 1 .. n : /\ e(i) \in Fetches /\ e(i).id = IFETCH_BUFFER[i].id
                        /\ e(i).resumes = IFETCH_BUFFER[i].resumes
  BY <1>1 DEF Fetches
<1>3. Mark(b, f) = [i \in 1 .. n |-> e(i)]
  BY <1>1 DEF Mark
<1> HIDE DEF e, n
<1>4. Mark(b, f) \in Seq(Fetches)
  BY <1>1, <1>2, <1>3, IsASeq
<1>5. DOMAIN Mark(b, f) = 1 .. n /\ \A i \in 1 .. n : Mark(b, f)[i] = e(i)
  BY <1>3
<1>6. Len(Mark(b, f)) = n
  BY <1>1, <1>4, <1>5, LenProperties
<1> QED BY <1>1, <1>2, <1>4, <1>5, <1>6 DEF n

\* The registers are not concerned while ROB and its ready queues stay.
LEMMA RegistersKept ==
  ASSUME RegistersInv, UNCHANGED <<trace, ROB, RTE0, RTE1, num_retired>>
  PROVE  RegistersInv'
<1>1. DependentsYounger'
  BY DEF RegistersInv, DependentsYounger, Occupied
<1>2. \A s : Pending(s)' = Pending(s)
  BY DEF Pending
<1>3. \A n, r : LastWriter(n, r)' = LastWriter(n, r)
  BY DEF LastWriter
<1>4. \A s, r : Produced(s, r)' <=> Produced(s, r)
  <2> TAKE s, r
  <2>1. LastWriter(ROB[s].id, r)' = LastWriter(ROB[s].id, r)
    BY <1>3
  <2> QED BY <2>1 DEF Produced
<1>5. DependencesCounted'
  BY <1>2, <1>4 DEF RegistersInv, DependencesCounted, Idle, NotStarted, Instr
<1>6. RTEExact'
  BY DEF RegistersInv, RTEExact, Occupied, is_memory, Loads, Stores, Instr
<1> QED BY <1>1, <1>5, <1>6 DEF RegistersInv

\* Nor is the ring while nothing enters ROB or leaves it.
LEMMA RingKept ==
  ASSUME Ring, UNCHANGED <<trace, ROB, num_retired>>, Dispatched' = Dispatched
  PROVE  Ring'
BY DEF Ring, Occupied, Loads, Stores, Instr, slot

\* The stalling branches in a buffer, and in ROB.
Stalling(q) == {q[i].id : i \in {j \in DOMAIN q : q[j].resumes # "never"}}
StallingInROB ==
  {ROB[s].id : s \in {x \in Slots : /\ ROB[x].resumes = "completion"
                                    /\ ROB[x].executed # "COMPLETED"}}

\* They are the branches that are not resolved.
LEMMA UnresolvedParts ==
  /\ Unresolved = Stalling(IFETCH_BUFFER) \cup Stalling(DECODE_BUFFER)
                    \cup StallingInROB
  /\ Unresolved' = Stalling(IFETCH_BUFFER') \cup Stalling(DECODE_BUFFER')
                     \cup StallingInROB'
<1>1. ASSUME NEW p, NEW q
      PROVE  {f.id : f \in {x \in Elements(p) \cup Elements(q) :
                             x.resumes # "never"}} = Stalling(p) \cup Stalling(q)
  BY DEF Elements, Stalling
<1>2. Unresolved = Stalling(IFETCH_BUFFER) \cup Stalling(DECODE_BUFFER)
                    \cup StallingInROB
  BY <1>1, Zenon DEF Unresolved, StallingInROB
<1>3. Unresolved' = Stalling(IFETCH_BUFFER') \cup Stalling(DECODE_BUFFER')
                     \cup StallingInROB'
  <2>1. Unresolved' = {f.id : f \in {x \in Elements(IFETCH_BUFFER') \cup
                                           Elements(DECODE_BUFFER') :
                                    x.resumes # "never"}} \cup StallingInROB'
    BY Zenon DEF Unresolved, StallingInROB, Elements
  <2> QED BY <1>1, <2>1, Zenon
<1> QED BY <1>2, <1>3

\* A buffer that takes or loses an instruction.
LEMMA StallingChanges ==
  ASSUME NEW T, NEW q \in Seq(T)
  PROVE  /\ \A e \in T : Stalling(Append(q, e)) =
              Stalling(q) \cup (IF e.resumes = "never" THEN {} ELSE {e.id})
         /\ q # <<>> => Stalling(q) = Stalling(Tail(q)) \cup
              (IF Head(q).resumes = "never" THEN {} ELSE {Head(q).id})
<1> DEFINE Of(E) == {e.id : e \in {x \in E : x.resumes # "never"}}
<1>1. \A p : Stalling(p) = Of(Elements(p))
  BY DEF Stalling, Elements
<1>2. \A E, e : Of(E \cup {e}) =
        Of(E) \cup (IF e.resumes = "never" THEN {} ELSE {e.id})
  OBVIOUS
<1> HIDE DEF Of
<1>3. ASSUME NEW e \in T
      PROVE  Stalling(Append(q, e)) =
               Stalling(q) \cup (IF e.resumes = "never" THEN {} ELSE {e.id})
  <2>1. Elements(Append(q, e)) = Elements(q) \cup {e}
    BY OnceAppend
  <2> QED BY <1>1, <1>2, <2>1
<1>4. ASSUME q # <<>>
      PROVE  Stalling(q) = Stalling(Tail(q)) \cup
               (IF Head(q).resumes = "never" THEN {} ELSE {Head(q).id})
  <2>1. Elements(q) = Elements(Tail(q)) \cup {Head(q)}
    BY <1>4, OnceHead
  <2> QED BY <1>1, <1>2, <2>1
<1> QED BY <1>3, <1>4

\* Reading the next instruction of the trace preserves the invariant.
LEMMA ReadKeeps ==
  ASSUME CoreInv, read_from_trace
  PROVE  CoreInv'
<1> DEFINE n == instr_unique_id
           e(r) == [id |-> n, resumes |-> r, fetched |-> "no"]
<1>0. /\ FrontTypes /\ RobTypes /\ MemoryTypes /\ BuffersInOrder /\ Ring
      /\ RegistersInv /\ OneStallingBranch
  BY DEF CoreInv
<1>1. /\ n \in DOMAIN trace /\ ~fetch_stall /\ n' = n + 1
      /\ UNCHANGED <<trace, DECODE_BUFFER, ROB, resume, RTE0, RTE1, LQ, SQ,
                     SQ_head, RTL0, RTS0, l1i, l1d, num_retired, wq, memory, lost>>
      /\ STA' = STA \o [i \in DOMAIN trace[n].destination_memory |-> n]
  BY DEF read_from_trace, retired
<1>2. PICK r \in Predictions(trace[n].branch) :
        IFETCH_BUFFER' = Append(IFETCH_BUFFER, e(r)) /\ fetch_stall' = (r # "never")
  BY DEF read_from_trace
<1>3. /\ n \in Nat /\ trace[n].branch \in {"none", "direct", "indirect"}
      /\ trace[n].destination_memory \in Seq(Addresses)
  BY <1>0, <1>1, TraceFacts
<1>4. r \in Resumes
  BY <1>2, <1>3 DEF Predictions, Resumes
<1>5. e(r) \in Fetches /\ e(r).id = n /\ e(r).resumes = r
  BY <1>3, <1>4 DEF Fetches, Resumes, Status
<1> HIDE DEF e
<1>6. /\ IFETCH_BUFFER \in Seq(Fetches) /\ DECODE_BUFFER \in Seq(Decodes)
      /\ instr_unique_id \in Nat /\ num_retired \in Nat
  BY <1>0 DEF FrontTypes
<1> DEFINE L == Len(IFETCH_BUFFER)
           M == Len(DECODE_BUFFER)
<1>7. /\ IFETCH_BUFFER' \in Seq(Fetches) /\ Len(IFETCH_BUFFER') = L + 1
      /\ \A i \in 1 .. L : IFETCH_BUFFER'[i] = IFETCH_BUFFER[i]
      /\ IFETCH_BUFFER'[L + 1] = e(r)
  BY <1>2, <1>5, <1>6, AppendProperties
<1>8. DOMAIN IFETCH_BUFFER' = 1 .. L + 1
  BY <1>7, LenProperties
<1>9. /\ L \in Nat /\ M \in Nat /\ DOMAIN IFETCH_BUFFER = 1 .. L
      /\ Dispatched \in Nat /\ Dispatched + M + L = n /\ num_retired <= Dispatched
  BY <1>0, Numbers
<1>10. Dispatched' = Dispatched
  <2>1. Dispatched' = (n + 1) - ((L + 1) + M)
    BY <1>1, <1>7 DEF Dispatched
  <2> QED BY <2>1, <1>3, <1>9
<1>11. FrontTypes'
  BY <1>0, <1>1, <1>2, <1>3, <1>7 DEF FrontTypes
<1>12. RobTypes'
  BY <1>0, <1>1 DEF RobTypes
<1>13. STA' \in Seq(Nat)
  <2> DEFINE q == [i \in DOMAIN trace[n].destination_memory |-> n]
  <2>1. Len(trace[n].destination_memory) \in Nat
        /\ DOMAIN trace[n].destination_memory = 1 .. Len(trace[n].destination_memory)
    BY <1>3, LenProperties
  <2>2. q \in Seq(Nat)
    BY <2>1, <1>3, IsASeq
  <2>3. STA \in Seq(Nat)
    BY <1>0 DEF MemoryTypes
  <2> HIDE DEF q
  <2>4. STA \o q \in Seq(Nat)
    BY <2>2, <2>3, ConcatProperties
  <2> QED BY <2>4, <1>1 DEF q
<1>14. MemoryTypes'
  BY <1>0, <1>1, <1>13 DEF MemoryTypes
<1>15. BuffersInOrder'
  <2>1. 0 .. n' - 1 \subseteq DOMAIN trace'
    <3>1. 0 .. n - 1 \subseteq DOMAIN trace
      BY <1>0 DEF BuffersInOrder
    <3>2. \A k \in 0 .. (n + 1) - 1 : k = n \/ k \in 0 .. n - 1
      BY <1>3
    <3> QED BY <3>1, <3>2, <1>1
  <2>2. \A i \in 1 .. L : IFETCH_BUFFER[i].id = Dispatched + M + (i - 1)
    BY <1>0, <1>9 DEF BuffersInOrder
  <2>3. \A i \in 1 .. L + 1 : IFETCH_BUFFER'[i].id = Dispatched + M + (i - 1)
    <3> TAKE i \in 1 .. L + 1
    <3>1. CASE i \in 1 .. L
      BY <3>1, <2>2, <1>7
    <3>2. CASE i = L + 1
      BY <3>2, <1>7, <1>5, <1>9
    <3> QED BY <3>1, <3>2, <1>9
  <2>4. \A i \in DOMAIN DECODE_BUFFER : DECODE_BUFFER[i].id = Dispatched + (i - 1)
    BY <1>0 DEF BuffersInOrder
  <2> QED BY <2>1, <2>3, <2>4, <1>1, <1>8, <1>9, <1>10 DEF BuffersInOrder
<1>16. Ring'
  BY <1>0, <1>1, <1>10, RingKept
<1>17. RegistersInv'
  BY <1>0, <1>1, RegistersKept
<1>18. OneStallingBranch'
  <2>1. Unresolved = {} /\ ~resume
    BY <1>0, <1>1 DEF OneStallingBranch
  <2>2. Stalling(IFETCH_BUFFER') =
          Stalling(IFETCH_BUFFER) \cup (IF r = "never" THEN {} ELSE {n})
    BY <1>2, <1>5, <1>6, StallingChanges
  <2>3. Unresolved' = Unresolved \cup (IF r = "never" THEN {} ELSE {n})
    <3>1. StallingInROB' = StallingInROB /\ DECODE_BUFFER' = DECODE_BUFFER
      BY <1>1 DEF StallingInROB
    <3> QED BY <3>1, <2>2, UnresolvedParts, Zenon
  <2>4. n' - 1 = n
    BY <1>1, <1>3
  <2> QED BY <2>1, <2>3, <2>4, <1>1, <1>2 DEF OneStallingBranch
<1> QED BY <1>11, <1>12, <1>14, <1>15, <1>16, <1>17, <1>18 DEF CoreInv

\* Marking the instructions of a block of code, for a request or an answer of
\* L1I, preserves the invariant.
LEMMA MarkKeeps ==
  ASSUME CoreInv, NEW b, NEW f \in Status, IFETCH_BUFFER' = Mark(b, f),
         l1i' \subseteq Blocks,
         UNCHANGED <<trace, instr_unique_id, fetch_stall, DECODE_BUFFER, resume,
                     ROB, RTE0, RTE1, lsq, retired>>
  PROVE  CoreInv'
<1>0. /\ FrontTypes /\ RobTypes /\ MemoryTypes /\ BuffersInOrder /\ Ring
      /\ RegistersInv /\ OneStallingBranch
  BY DEF CoreInv
<1>1. UNCHANGED <<trace, instr_unique_id, fetch_stall, DECODE_BUFFER, resume, ROB,
                  RTE0, RTE1, LQ, SQ, SQ_head, STA, RTL0, RTS0, l1d, loaded,
                  num_retired, wq, memory, lost>>
  BY DEF lsq, retired
<1>2. /\ IFETCH_BUFFER' \in Seq(Fetches)
      /\ Len(IFETCH_BUFFER') = Len(IFETCH_BUFFER)
      /\ DOMAIN IFETCH_BUFFER' = DOMAIN IFETCH_BUFFER
      /\ \A i \in DOMAIN IFETCH_BUFFER :
           /\ IFETCH_BUFFER'[i].id = IFETCH_BUFFER[i].id
           /\ IFETCH_BUFFER'[i].resumes = IFETCH_BUFFER[i].resumes
  BY <1>0, MarkFacts
<1>3. Dispatched' = Dispatched
  BY <1>1, <1>2 DEF Dispatched
<1>4. FrontTypes'
  BY <1>0, <1>1, <1>2 DEF FrontTypes
<1>5. RobTypes' /\ MemoryTypes'
  BY <1>0, <1>1 DEF RobTypes, MemoryTypes
<1>6. BuffersInOrder'
  BY <1>0, <1>1, <1>2, <1>3 DEF BuffersInOrder
<1>7. Ring' /\ RegistersInv'
  BY <1>0, <1>1, <1>3, RingKept, RegistersKept
<1>8. OneStallingBranch'
  <2>1. Stalling(IFETCH_BUFFER') = Stalling(IFETCH_BUFFER)
    BY <1>2 DEF Stalling
  <2>2. StallingInROB' = StallingInROB
    BY <1>1 DEF StallingInROB
  <2>3. Unresolved' = Unresolved
    BY <2>1, <2>2, <1>1, UnresolvedParts, Zenon
  <2> QED BY <2>3, <1>0, <1>1 DEF OneStallingBranch
<1> QED BY <1>4, <1>5, <1>6, <1>7, <1>8 DEF CoreInv

\* Requesting a block of code preserves the invariant.
LEMMA RequestBlockKeeps ==
  ASSUME CoreInv, request_block
  PROVE  CoreInv'
<1>0. FrontTypes /\ BuffersInOrder
  BY DEF CoreInv
<1>1. PICK i \in DOMAIN IFETCH_BUFFER :
        /\ IFETCH_BUFFER' = Mark(trace[IFETCH_BUFFER[i].id].block, "INFLIGHT")
        /\ l1i' = l1i \cup {trace[IFETCH_BUFFER[i].id].block}
  BY DEF request_block
<1>2. IFETCH_BUFFER[i].id \in DOMAIN trace
  <2>1. /\ Dispatched \in Nat /\ Len(DECODE_BUFFER) \in Nat
        /\ Len(IFETCH_BUFFER) \in Nat /\ i \in 1 .. Len(IFETCH_BUFFER)
        /\ Dispatched + Len(DECODE_BUFFER) + Len(IFETCH_BUFFER) = instr_unique_id
    BY <1>0, Numbers
  <2>2. IFETCH_BUFFER[i].id = Dispatched + Len(DECODE_BUFFER) + (i - 1)
        /\ 0 .. instr_unique_id - 1 \subseteq DOMAIN trace
    BY <1>0 DEF BuffersInOrder
  <2>3. Dispatched + Len(DECODE_BUFFER) + (i - 1) \in 0 .. instr_unique_id - 1
    BY <2>1
  <2> QED BY <2>2, <2>3
<1>3. trace[IFETCH_BUFFER[i].id].block \in Blocks
  BY <1>0, <1>2, TraceFacts
<1>4. l1i' \subseteq Blocks
  BY <1>0, <1>1, <1>3 DEF FrontTypes
<1>5. "INFLIGHT" \in Status
  BY DEF Status
<1>6. UNCHANGED <<trace, instr_unique_id, fetch_stall, DECODE_BUFFER, resume, ROB,
                  RTE0, RTE1, lsq, retired>>
  BY DEF request_block
<1> QED BY <1>1, <1>4, <1>5, <1>6, MarkKeeps

\* An answer of L1I preserves the invariant.
LEMMA InstrFetchKeeps ==
  ASSUME CoreInv, complete_instr_fetch
  PROVE  CoreInv'
<1>0. FrontTypes
  BY DEF CoreInv
<1>1. PICK b \in l1i : IFETCH_BUFFER' = Mark(b, "COMPLETED") /\ l1i' = l1i \ {b}
  BY DEF complete_instr_fetch
<1>2. l1i' \subseteq Blocks /\ "COMPLETED" \in Status
  BY <1>0, <1>1 DEF FrontTypes, Status
<1>3. UNCHANGED <<trace, instr_unique_id, fetch_stall, DECODE_BUFFER, resume, ROB,
                  RTE0, RTE1, lsq, retired>>
  BY DEF complete_instr_fetch
<1> QED BY <1>1, <1>2, <1>3, MarkKeeps

\* The end of a stall preserves the invariant.
LEMMA ResumeKeeps ==
  ASSUME CoreInv, resume_fetch
  PROVE  CoreInv'
<1>0. /\ FrontTypes /\ RobTypes /\ MemoryTypes /\ BuffersInOrder /\ Ring
      /\ RegistersInv /\ OneStallingBranch
  BY DEF CoreInv
<1>1. /\ fetch_stall /\ resume /\ fetch_stall' = FALSE /\ resume' = FALSE
      /\ UNCHANGED <<trace, instr_unique_id, IFETCH_BUFFER, l1i, DECODE_BUFFER,
                     ROB, RTE0, RTE1, LQ, SQ, SQ_head, STA, RTL0, RTS0, l1d,
                     loaded, num_retired, wq, memory, lost>>
  BY DEF resume_fetch, lsq, retired
<1>2. Dispatched' = Dispatched
  BY <1>1 DEF Dispatched
<1>3. FrontTypes' /\ RobTypes' /\ MemoryTypes'
  BY <1>0, <1>1 DEF FrontTypes, RobTypes, MemoryTypes
<1>4. BuffersInOrder'
  BY <1>0, <1>1, <1>2 DEF BuffersInOrder
<1>5. Ring' /\ RegistersInv'
  BY <1>0, <1>1, <1>2, RingKept, RegistersKept
<1>6. Unresolved' = Unresolved
  <2>1. StallingInROB' = StallingInROB
    BY <1>1 DEF StallingInROB
  <2>2. IFETCH_BUFFER' = IFETCH_BUFFER /\ DECODE_BUFFER' = DECODE_BUFFER
    BY <1>1
  <2> QED BY <2>1, <2>2, UnresolvedParts, Zenon
<1>7. OneStallingBranch'
  BY <1>0, <1>1, <1>6 DEF OneStallingBranch
<1> QED BY <1>3, <1>4, <1>5, <1>7 DEF CoreInv

\* Passing an instruction on to the decode buffer preserves the invariant.
LEMMA FetchKeeps ==
  ASSUME CoreInv, fetch_instruction
  PROVE  CoreInv'
<1> DEFINE f == Head(IFETCH_BUFFER)
           d == [id |-> f.id, resumes |-> f.resumes]
           L == Len(IFETCH_BUFFER)
           M == Len(DECODE_BUFFER)
<1>0. /\ FrontTypes /\ RobTypes /\ MemoryTypes /\ BuffersInOrder /\ Ring
      /\ RegistersInv /\ OneStallingBranch
  BY DEF CoreInv
<1>1. /\ IFETCH_BUFFER # <<>> /\ DECODE_BUFFER' = Append(DECODE_BUFFER, d)
      /\ IFETCH_BUFFER' = Tail(IFETCH_BUFFER)
      /\ UNCHANGED <<trace, instr_unique_id, fetch_stall, l1i, resume, ROB, RTE0,
                     RTE1, LQ, SQ, SQ_head, STA, RTL0, RTS0, l1d, loaded,
                     num_retired, wq, memory, lost>>
  BY DEF fetch_instruction, lsq, retired
<1>2. /\ L \in Nat /\ M \in Nat /\ DOMAIN IFETCH_BUFFER = 1 .. L
      /\ DOMAIN DECODE_BUFFER = 1 .. M
      /\ Dispatched \in Nat /\ Dispatched + M + L = instr_unique_id
      /\ instr_unique_id \in Nat
  BY <1>0, Numbers
<1>3. IFETCH_BUFFER \in Seq(Fetches) /\ DECODE_BUFFER \in Seq(Decodes)
  BY <1>0 DEF FrontTypes
<1>4. /\ f \in Fetches /\ IFETCH_BUFFER' \in Seq(Fetches)
      /\ Len(IFETCH_BUFFER') = L - 1 /\ f = IFETCH_BUFFER[1]
      /\ \A i \in 1 .. L - 1 : IFETCH_BUFFER'[i] = IFETCH_BUFFER[i + 1]
  BY <1>1, <1>3, HeadTailProperties
<1>5. L >= 1
  BY <1>1, <1>2, <1>3, EmptySeq
<1>6. d \in Decodes /\ d.id = f.id /\ d.resumes = f.resumes
  BY <1>4 DEF Fetches, Decodes, Resumes
<1> HIDE DEF d, f
<1>7. /\ DECODE_BUFFER' \in Seq(Decodes) /\ Len(DECODE_BUFFER') = M + 1
      /\ \A i \in 1 .. M : DECODE_BUFFER'[i] = DECODE_BUFFER[i]
      /\ DECODE_BUFFER'[M + 1] = d
  BY <1>1, <1>3, <1>6, AppendProperties
<1>8. DOMAIN IFETCH_BUFFER' = 1 .. L - 1 /\ DOMAIN DECODE_BUFFER' = 1 .. M + 1
  BY <1>4, <1>7, LenProperties
<1>9. Dispatched' = Dispatched
  <2>1. Dispatched' = instr_unique_id - ((L - 1) + (M + 1))
    BY <1>1, <1>4, <1>7 DEF Dispatched
  <2> QED BY <2>1, <1>2
<1>10. FrontTypes'
  BY <1>0, <1>1, <1>4, <1>7 DEF FrontTypes
<1>11. RobTypes' /\ MemoryTypes'
  BY <1>0, <1>1 DEF RobTypes, MemoryTypes
<1>12. BuffersInOrder'
  <2>1. /\ \A i \in 1 .. L : IFETCH_BUFFER[i].id = Dispatched + M + (i - 1)
        /\ \A i \in 1 .. M : DECODE_BUFFER[i].id = Dispatched + (i - 1)
        /\ 0 .. instr_unique_id - 1 \subseteq DOMAIN trace
        /\ num_retired <= Dispatched
    BY <1>0, <1>2 DEF BuffersInOrder
  <2>2. ASSUME NEW i \in 1 .. L - 1
        PROVE  IFETCH_BUFFER'[i].id = Dispatched + (M + 1) + (i - 1)
    <3>1. i + 1 \in 1 .. L
      BY <1>2
    <3>2. IFETCH_BUFFER'[i].id = Dispatched + M + ((i + 1) - 1)
      BY <3>1, <2>1, <1>4
    <3> QED BY <3>2, <1>2
  <2>3. ASSUME NEW i \in 1 .. M + 1
        PROVE  DECODE_BUFFER'[i].id = Dispatched + (i - 1)
    <3>1. CASE i \in 1 .. M
      BY <3>1, <2>1, <1>7
    <3>2. CASE i = M + 1
      <4>1. 1 \in 1 .. L
        BY <1>2, <1>5
      <4>2. f.id = Dispatched + M + (1 - 1)
        BY <4>1, <2>1, <1>4
      <4> QED BY <4>2, <3>2, <1>2, <1>6, <1>7
    <3> QED BY <3>1, <3>2, <1>2
  <2> QED BY <2>1, <2>2, <2>3, <1>1, <1>4, <1>7, <1>8, <1>9 DEF BuffersInOrder
<1>13. Ring' /\ RegistersInv'
  BY <1>0, <1>1, <1>9, RingKept, RegistersKept
<1>14. OneStallingBranch'
  <2>1. Stalling(IFETCH_BUFFER) = Stalling(IFETCH_BUFFER') \cup
          (IF f.resumes = "never" THEN {} ELSE {f.id})
    BY <1>1, <1>3, StallingChanges DEF f
  <2>2. Stalling(DECODE_BUFFER') = Stalling(DECODE_BUFFER) \cup
          (IF f.resumes = "never" THEN {} ELSE {f.id})
    BY <1>1, <1>3, <1>6, StallingChanges
  <2>3. StallingInROB' = StallingInROB
    BY <1>1 DEF StallingInROB
  <2>4. Unresolved' = Unresolved
    BY <2>1, <2>2, <2>3, UnresolvedParts, Zenon
  <2> QED BY <2>4, <1>0, <1>1 DEF OneStallingBranch
<1> QED BY <1>10, <1>11, <1>12, <1>13, <1>14 DEF CoreInv

-----------------------------------------------------------------------------
(* The reorder buffer *)

\* The producer of a register is older than its reader.
LEMMA LastWriterOlder ==
  ASSUME NEW n \in Nat, NEW r
  PROVE  \A m \in LastWriter(n, r) : /\ m \in Nat /\ m < n
                                     /\ r \in trace[m].destination_registers
BY DEF LastWriter

\* An instruction that enters ROB waits for nothing and is waited for by
\* nobody.
LEMMA RegistersOfNew ==
  ASSUME FrontTypes, RobTypes, BuffersInOrder, Ring, RegistersInv,
         NEW n \in Nat, NEW e \in LooseEntries, NEW x \in Slots, ~Occupied(x),
         e.scheduled = "no", e.executed = "no", ~e.reg_ready,
         e.num_reg_dependent = 0, e.reg_dependents = {},
         \A j \in DOMAIN e.lq_index : e.lq_index[j] = NONE,
         \A j \in DOMAIN e.sq_index : e.sq_index[j] = NONE,
         ROB' = [ROB EXCEPT ![x] = e],
         UNCHANGED <<trace, RTE0, RTE1, num_retired>>
  PROVE  RegistersInv'
<1>1. ROB'[x] = e /\ \A s \in Slots : s # x => ROB'[s] = ROB[s]
  BY DEF RobTypes
<1>2. /\ ROB[x].reg_dependents = {} /\ ROB[x].executed = "no" /\ ~ROB[x].reg_ready
      /\ ROB[x].scheduled = "no"
  BY EmptyFacts
<1>3. \A s \in Slots : Occupied(s) => s # x
  OBVIOUS
<1>4. DependentsYounger'
  <2> SUFFICES ASSUME NEW y \in Slots, NEW d \in ROB'[y].reg_dependents
               PROVE  /\ Occupied(d[1])' /\ ROB'[d[1]].scheduled # "no"
                      /\ ROB'[y].id < ROB'[d[1]].id
    BY DEF DependentsYounger
  <2>1. y # x /\ ROB'[y] = ROB[y] /\ d \in ROB[y].reg_dependents
    BY <1>1
  <2>2. Occupied(d[1]) /\ ROB[d[1]].scheduled # "no" /\ ROB[y].id < ROB[d[1]].id
    BY <2>1 DEF RegistersInv, DependentsYounger
  <2>3. d[1] \in Slots
    BY <2>1, EntryFields
  <2>4. d[1] # x
    BY <2>2, <2>3, <1>3
  <2> QED BY <2>1, <2>2, <2>3, <2>4, <1>1 DEF Occupied
<1>5. ASSUME NEW s \in Slots PROVE Pending(s)' = Pending(s)
  <2>1. \A y \in Slots : /\ ROB'[y].reg_dependents = ROB[y].reg_dependents
                         /\ ROB'[y].executed = ROB[y].executed
    BY <1>1, <1>2
  <2> QED BY <2>1 DEF Pending
<1>6. ASSUME NEW s \in Slots, s # x, ROB[s].scheduled # "no", NEW r, Produced(s, r)
      PROVE  Produced(s, r)'
  <2>1. Occupied(s) /\ ROB[s].id \in Nat
        /\ \A m \in num_retired .. ROB[s].id : slot(m) \in Slots /\ Occupied(slot(m))
    BY <1>6, EmptyFacts, OccupiedFacts
  <2>2. num_retired \in Nat
    BY DEF FrontTypes
  <2>3. LastWriter(ROB[s].id, r)' = LastWriter(ROB[s].id, r)
    BY <1>1, <1>6 DEF LastWriter
  <2>4. ASSUME NEW m \in LastWriter(ROB[s].id, r), ~(m < num_retired)
        PROVE  slot(m) \in Slots /\ slot(m) # x
    <3>1. m \in Nat /\ m < ROB[s].id
      BY <2>1, LastWriterOlder
    <3>2. m \in num_retired .. ROB[s].id
      BY <3>1, <2>1, <2>2, <2>4
    <3> QED BY <3>2, <2>1, <1>3
  <2> QED BY <2>3, <2>4, <1>1, <1>6 DEF Produced, slot
<1>7. \A s \in Slots : s # x => (Instr(s)' = Instr(s))
  BY <1>1 DEF Instr
<1>8. DependencesCounted'
  <2> SUFFICES ASSUME NEW s \in Slots
        PROVE /\ ROB'[s].scheduled = "no" => Idle(s)'
              /\ ROB'[s].scheduled # "no" =>
                   /\ ROB'[s].num_reg_dependent = Cardinality(Pending(s)')
                   /\ ROB'[s].reg_ready <=> (Pending(s)' = {})
                   /\ \A r \in Instr(s)'.source_registers : Produced(s, r)'
              /\ ~ROB'[s].reg_ready => NotStarted(s)'
    BY DEF DependencesCounted
  <2>1. CASE s = x
    BY <2>1, <1>1 DEF Idle, NotStarted
  <2>2. CASE s # x
    <3>1. /\ ROB[s].scheduled = "no" => Idle(s)
          /\ ROB[s].scheduled # "no" =>
                   /\ ROB[s].num_reg_dependent = Cardinality(Pending(s))
                   /\ ROB[s].reg_ready <=> (Pending(s) = {})
                   /\ \A r \in Instr(s).source_registers : Produced(s, r)
          /\ ~ROB[s].reg_ready => NotStarted(s)
      BY DEF RegistersInv, DependencesCounted
    <3>2. ROB'[s] = ROB[s] /\ Pending(s)' = Pending(s) /\ Instr(s)' = Instr(s)
      BY <2>2, <1>1, <1>5, <1>7
    <3> QED BY <3>1, <3>2, <2>2, <1>6 DEF Idle, NotStarted
  <2> QED BY <2>1, <2>2
<1>9. RTEExact'
  <2>1. \A s \in Slots :
          (Occupied(s) /\ ~is_memory(s) /\ ROB[s].reg_ready /\ ROB[s].executed = "no")
          <=> (Occupied(s) /\ ~is_memory(s) /\ ROB[s].reg_ready
               /\ ROB[s].executed = "no")'
    <3> TAKE s \in Slots
    <3>1. CASE s = x
      BY <3>1, <1>1, <1>2
    <3>2. CASE s # x
      <4>1. ROB'[s] = ROB[s] /\ Instr(s)' = Instr(s)
        BY <3>2, <1>1, <1>7
      <4> QED BY <4>1 DEF Occupied, is_memory, Loads, Stores
    <3> QED BY <3>1, <3>2
  <2>2. RTEExact
    BY DEF RegistersInv
  <2> QED BY <2>1, <2>2 DEF RTEExact
<1> QED BY <1>4, <1>8, <1>9 DEF RegistersInv

\* decode_and_dispatch preserves the invariant.
LEMMA DispatchKeeps ==
  ASSUME CoreInv, decode_and_dispatch
  PROVE  CoreInv'
<1> DEFINE d == Head(DECODE_BUFFER)
           x == slot(d.id)
           e == [NoEntry EXCEPT
             !.id = d.id, !.resumes = d.resumes,
             !.num_mem_ops = Len(trace[d.id].source_memory)
                               + Len(trace[d.id].destination_memory),
             !.lq_index = [j \in DOMAIN trace[d.id].source_memory |-> NONE],
             !.sq_index = [j \in DOMAIN trace[d.id].destination_memory |->
                             NONE]]
           L == Len(IFETCH_BUFFER)
           M == Len(DECODE_BUFFER)
           n == d.id
<1>0. /\ FrontTypes /\ RobTypes /\ MemoryTypes /\ BuffersInOrder /\ Ring
      /\ RegistersInv /\ OneStallingBranch
  BY DEF CoreInv
<1>1. /\ DECODE_BUFFER # <<>> /\ ~Occupied(x)
      /\ ROB' = [ROB EXCEPT ![x] = e]
      /\ resume' = (resume \/ ResumedByDecoding(d.resumes))
      /\ DECODE_BUFFER' = Tail(DECODE_BUFFER)
      /\ UNCHANGED <<trace, instr_unique_id, IFETCH_BUFFER, fetch_stall, l1i, RTE0,
                     RTE1, LQ, SQ, SQ_head, STA, RTL0, RTS0, l1d, loaded,
                     num_retired, wq, memory, lost>>
  BY DEF decode_and_dispatch, frontend, lsq, retired
<1>2. /\ L \in Nat /\ M \in Nat /\ DOMAIN IFETCH_BUFFER = 1 .. L
      /\ DOMAIN DECODE_BUFFER = 1 .. M
      /\ Dispatched \in Nat /\ Dispatched + M + L = instr_unique_id
      /\ instr_unique_id \in Nat /\ num_retired \in Nat /\ num_retired <= Dispatched
  BY <1>0, Numbers
<1>3. IFETCH_BUFFER \in Seq(Fetches) /\ DECODE_BUFFER \in Seq(Decodes)
  BY <1>0 DEF FrontTypes
<1>4. /\ d \in Decodes /\ DECODE_BUFFER' \in Seq(Decodes)
      /\ Len(DECODE_BUFFER') = M - 1 /\ d = DECODE_BUFFER[1]
      /\ \A i \in 1 .. M - 1 : DECODE_BUFFER'[i] = DECODE_BUFFER[i + 1]
  BY <1>1, <1>3, HeadTailProperties
<1>5. M >= 1
  BY <1>1, <1>2, <1>3, EmptySeq
<1>6. n \in Nat /\ d.resumes \in Resumes
  BY <1>4 DEF Decodes
<1>7. /\ \A i \in 1 .. L : IFETCH_BUFFER[i].id = Dispatched + M + (i - 1)
      /\ \A i \in 1 .. M : DECODE_BUFFER[i].id = Dispatched + (i - 1)
      /\ 0 .. instr_unique_id - 1 \subseteq DOMAIN trace
  BY <1>0, <1>2 DEF BuffersInOrder
<1>8. n = Dispatched
  <2>1. 1 \in 1 .. M
    BY <1>2, <1>5
  <2>2. DECODE_BUFFER[1].id = Dispatched + (1 - 1)
    BY <2>1, <1>7
  <2> QED BY <2>2, <1>2, <1>4
<1>9. n \in DOMAIN trace
  <2>1. n \in 0 .. instr_unique_id - 1
    BY <1>2, <1>5, <1>8
  <2> QED BY <2>1, <1>7
<1>10. x \in Slots
  BY <1>6, SlotOf
<1>11. trace[n].source_memory \in Seq(Addresses)
       /\ trace[n].destination_memory \in Seq(Addresses)
  BY <1>0, <1>9, TraceFacts
<1>12. /\ e.id = n /\ e.resumes = d.resumes /\ e.scheduled = "no" /\ e.executed = "no"
       /\ ~e.reg_ready /\ e.num_reg_dependent = 0 /\ e.reg_dependents = {}
       /\ e.mem_dependents = {}
       /\ e.lq_index = [j \in DOMAIN trace[n].source_memory |-> NONE]
       /\ e.sq_index = [j \in DOMAIN trace[n].destination_memory |-> NONE]
       /\ e.num_mem_ops = Len(trace[n].source_memory)
                            + Len(trace[n].destination_memory)
  BY DEF NoEntry
<1>13. e \in LooseEntries
  <2> DEFINE a == Len(trace[n].source_memory)
             b == Len(trace[n].destination_memory)
  <2>1. /\ a \in Nat /\ b \in Nat /\ DOMAIN trace[n].source_memory = 1 .. a
        /\ DOMAIN trace[n].destination_memory = 1 .. b
    BY <1>11, LenProperties
  <2>2. [j \in 1 .. a |-> NONE] \in Seq(LQSlots \cup {NONE})
    BY <2>1, IsASeq
  <2>3. [j \in 1 .. b |-> NONE] \in Seq(SQSlots \cup {NONE})
    BY <2>1, IsASeq
  <2>4. a + b \in Int
    BY <2>1
  <2> DEFINE p == [j \in 1 .. a |-> NONE]
             q == [j \in 1 .. b |-> NONE]
  <2>5. e = [NoEntry EXCEPT !.id = n, !.resumes = d.resumes, !.num_mem_ops = a + b,
                            !.lq_index = p, !.sq_index = q]
    BY <2>1
  <2> HIDE DEF p, q, a, b, e, n
  <2>6. p \in Seq(LQSlots \cup {NONE}) /\ q \in Seq(SQSlots \cup {NONE})
    BY <2>2, <2>3 DEF p, q
  <2>7. e = [id |-> n, resumes |-> d.resumes, scheduled |-> "no", executed |-> "no",
             reg_ready |-> FALSE, num_reg_dependent |-> 0, num_mem_ops |-> a + b,
             reg_dependents |-> {}, mem_dependents |-> {},
             lq_index |-> p, sq_index |-> q]
    BY <2>5 DEF NoEntry
  <2> QED BY <2>4, <2>6, <2>7, <1>6 DEF LooseEntries, Ids, Status
<1> HIDE DEF e, x, d
<1>14. ROB'[x] = e /\ \A s \in Slots : s # x => ROB'[s] = ROB[s]
  BY <1>0, <1>1, <1>10 DEF RobTypes
<1>15. Dispatched' = Dispatched + 1
  <2>1. Dispatched' = instr_unique_id - (L + (M - 1))
    BY <1>1, <1>4 DEF Dispatched
  <2> QED BY <2>1, <1>2
<1>16. DOMAIN DECODE_BUFFER' = 1 .. M - 1
  BY <1>4, LenProperties
<1>17. FrontTypes'
  BY <1>0, <1>1, <1>4 DEF FrontTypes
<1>18. RobTypes'
  BY <1>0, <1>1, <1>13, <1>10 DEF RobTypes
<1>19. MemoryTypes'
  BY <1>0, <1>1 DEF MemoryTypes
<1>20. BuffersInOrder'
  <2>1. ASSUME NEW i \in 1 .. M - 1
        PROVE  DECODE_BUFFER'[i].id = (Dispatched + 1) + (i - 1)
    <3>1. i + 1 \in 1 .. M
      BY <1>2
    <3>2. DECODE_BUFFER'[i].id = Dispatched + ((i + 1) - 1)
      BY <3>1, <1>4, <1>7
    <3> QED BY <3>2, <1>2
  <2>2. ASSUME NEW i \in 1 .. L
        PROVE  IFETCH_BUFFER[i].id = (Dispatched + 1) + (M - 1) + (i - 1)
    <3>1. IFETCH_BUFFER[i].id = Dispatched + M + (i - 1)
      BY <1>7
    <3> QED BY <3>1, <1>2
  <2>3. num_retired <= Dispatched + 1
    BY <1>2
  <2> QED BY <2>1, <2>2, <2>3, <1>1, <1>2, <1>4, <1>7, <1>15, <1>16
          DEF BuffersInOrder
<1>21. Ring'
  <2>1. ASSUME NEW k \in num_retired .. Dispatched PROVE ROB'[slot(k)].id = k
    <3>1. CASE k = n
      BY <3>1, <1>12, <1>14 DEF x
    <3>2. CASE k # n
      <4>1. k \in num_retired .. Dispatched - 1 /\ k \in Nat /\ k # NONE
        BY <3>2, <1>2, <1>8 DEF NONE
      <4>2. ROB[slot(k)].id = k /\ slot(k) \in Slots
        BY <4>1, <1>0, SlotOf DEF Ring
      <4>3. slot(k) # x
        BY <4>1, <4>2, <1>1 DEF Occupied
      <4> QED BY <4>2, <4>3, <1>14
    <3> QED BY <3>1, <3>2
  <2>2. ASSUME NEW s \in Slots, Occupied(s)'
        PROVE  /\ ROB'[s].id \in num_retired .. Dispatched
               /\ slot(ROB'[s].id) = s
               /\ DOMAIN ROB'[s].lq_index = DOMAIN Loads(s)'
               /\ DOMAIN ROB'[s].sq_index = DOMAIN Stores(s)'
    <3>1. CASE s = x
      <4>1. Instr(s)' = trace[n]
        BY <3>1, <1>1, <1>12, <1>14 DEF Instr
      <4>2. ROB'[s].id = n /\ slot(n) = s /\ n \in num_retired .. Dispatched
        BY <3>1, <1>2, <1>8, <1>12, <1>14 DEF x
      <4> QED BY <4>1, <4>2, <3>1, <1>12, <1>14 DEF Loads, Stores
    <3>2. CASE s # x
      <4>1. ROB'[s] = ROB[s] /\ Instr(s)' = Instr(s) /\ Occupied(s)
        BY <3>2, <2>2, <1>1, <1>14 DEF Instr, Occupied
      <4>2. /\ ROB[s].id \in num_retired .. Dispatched - 1
            /\ slot(ROB[s].id) = s
            /\ DOMAIN ROB[s].lq_index = DOMAIN Loads(s)
            /\ DOMAIN ROB[s].sq_index = DOMAIN Stores(s)
        BY <4>1, <1>0 DEF Ring
      <4>3. ROB[s].id \in num_retired .. Dispatched
        BY <4>2, <1>2
      <4> QED BY <4>1, <4>2, <4>3 DEF Loads, Stores
    <3> QED BY <3>1, <3>2
  <2>3. ASSUME NEW s \in Slots, ~Occupied(s)'
        PROVE  /\ ROB'[s].resumes = "never" /\ ROB'[s].scheduled = "no"
               /\ ROB'[s].lq_index = <<>> /\ ROB'[s].sq_index = <<>>
               /\ ROB'[s].reg_dependents = {}
    <3>1. s # x
      BY <2>3, <1>6, <1>12, <1>14 DEF Occupied, NONE
    <3>2. ROB'[s] = ROB[s] /\ ~Occupied(s)
      BY <3>1, <2>3, <1>14 DEF Occupied
    <3> QED BY <3>2, <1>0 DEF Ring
  <2>4. (Dispatched + 1) - 1 = Dispatched
    BY <1>2
  <2> QED BY <2>1, <2>2, <2>3, <2>4, <1>1, <1>15 DEF Ring, slot
<1>22. RegistersInv'
  <2>1. /\ \A j \in DOMAIN e.lq_index : e.lq_index[j] = NONE
        /\ \A j \in DOMAIN e.sq_index : e.sq_index[j] = NONE
    BY <1>12
  <2>2. UNCHANGED <<trace, RTE0, RTE1, num_retired>>
    BY <1>1
  <2>3. /\ e.scheduled = "no" /\ e.executed = "no" /\ ~e.reg_ready
        /\ e.num_reg_dependent = 0 /\ e.reg_dependents = {}
        /\ ROB' = [ROB EXCEPT ![x] = e] /\ ~Occupied(x)
    BY <1>1, <1>12
  <2> HIDE DEF n
  <2> QED BY <2>1, <2>2, <2>3, <1>0, <1>6, <1>10, <1>13, RegistersOfNew
<1>23. OneStallingBranch'
  <2>1. StallingInROB' =
          StallingInROB \cup (IF d.resumes = "completion" THEN {n} ELSE {})
    <3>1. ROB[x].resumes = "never" /\ e.executed # "COMPLETED"
      BY <1>0, <1>1, <1>10, <1>12 DEF Ring
    <3>2. StallingInROB' \subseteq
            StallingInROB \cup (IF d.resumes = "completion" THEN {n} ELSE {})
      BY <3>1, <1>12, <1>14 DEF StallingInROB
    <3>3. StallingInROB \subseteq StallingInROB'
      BY <3>1, <1>12, <1>14 DEF StallingInROB
    <3>4. d.resumes = "completion" => n \in StallingInROB'
      BY <3>1, <1>10, <1>12, <1>14 DEF StallingInROB
    <3> QED BY <3>2, <3>3, <3>4
  <2>2. Stalling(DECODE_BUFFER) = Stalling(DECODE_BUFFER') \cup
          (IF d.resumes = "never" THEN {} ELSE {n})
    BY <1>1, <1>3, StallingChanges DEF d
  <2>3. /\ Unresolved = Stalling(IFETCH_BUFFER) \cup Stalling(DECODE_BUFFER)
                    \cup StallingInROB
        /\ Unresolved' = Stalling(IFETCH_BUFFER) \cup Stalling(DECODE_BUFFER')
                     \cup StallingInROB'
    BY <1>1, UnresolvedParts, Zenon
  <2>4. CASE d.resumes \in {"never", "completion"}
    <3>1. Unresolved' = Unresolved
      BY <2>4, <2>1, <2>2, <2>3
    <3>2. resume' = resume
      BY <2>4, <1>0, <1>1 DEF ResumedByDecoding, FrontTypes
    <3> QED BY <3>1, <3>2, <1>0, <1>1 DEF OneStallingBranch
  <2>5. CASE d.resumes = "decode"
    <3>1. n \in Unresolved
      BY <2>2, <2>3, <2>5
    <3>2. fetch_stall /\ ~resume /\ Unresolved = {instr_unique_id - 1}
      BY <3>1, <1>0 DEF OneStallingBranch
    <3>3. n = instr_unique_id - 1
      BY <3>1, <3>2
    <3>4. M = 1 /\ L = 0
      BY <3>3, <1>2, <1>5, <1>8
    <3>5. Stalling(IFETCH_BUFFER) = {}
      BY <3>4, <1>2 DEF Stalling
    <3>6. Stalling(DECODE_BUFFER') = {}
      <4>1. DOMAIN DECODE_BUFFER' = {}
        BY <3>4, <1>16
      <4> QED BY <4>1 DEF Stalling
    <3>7. StallingInROB = {}
      <4> SUFFICES ASSUME NEW y \in Slots, ROB[y].resumes = "completion",
                          ROB[y].executed # "COMPLETED"
                   PROVE  FALSE
        BY DEF StallingInROB
      <4>1. ROB[y].id \in Unresolved
        BY <2>3 DEF StallingInROB
      <4>2. ROB[y].id = n
        BY <4>1, <3>2, <3>3
      <4>3. Occupied(y)
        BY <1>0 DEF Ring
      <4>4. ROB[y].id < Dispatched
        BY <4>3, <1>0, OccupiedFacts
      <4> QED BY <4>2, <4>4, <1>2, <1>8
    <3>8. Unresolved' = {}
      BY <2>1, <2>3, <2>5, <3>5, <3>6, <3>7
    <3>9. resume' /\ fetch_stall'
      BY <3>2, <2>5, <1>1 DEF ResumedByDecoding
    <3> QED BY <3>8, <3>9 DEF OneStallingBranch
  <2> QED BY <2>4, <2>5, <1>6 DEF Resumes
<1> QED BY <1>17, <1>18, <1>19, <1>20, <1>21, <1>22, <1>23 DEF CoreInv

\* Among entries in use there is one that none is older than.
LEMMA OldestIs ==
  ASSUME FrontTypes, RobTypes, BuffersInOrder, Ring,
         NEW S \in SUBSET Slots, S # {}, \A x \in S : Occupied(x)
  PROVE  Oldest(S) \in S /\ \A y \in S : ROB[Oldest(S)].id <= ROB[y].id
<1> DEFINE I == {ROB[x].id : x \in S}
<1>1. \A x \in S : ROB[x].id \in Nat
  BY OccupiedFacts
<1>2. I \in SUBSET Nat /\ I # {}
  BY <1>1
<1>3. PICK m \in I : \A n \in I : m <= n
  BY <1>2, LeastOf
<1>4. \E x \in S : \A y \in S : ROB[x].id <= ROB[y].id
  BY <1>3
<1> QED BY <1>4 DEF Oldest

\* An entry that none of S is younger than exists, since S is finite.
LEMMA YoungestIs ==
  ASSUME FrontTypes, RobTypes, BuffersInOrder, Ring,
         NEW S \in SUBSET Slots, S # {}, \A x \in S : Occupied(x)
  PROVE  Youngest(S) \in S /\ \A y \in S : ROB[y].id <= ROB[Youngest(S)].id
<1> DEFINE I == {ROB[x].id : x \in S}
<1>1. \A x \in S : ROB[x].id \in Nat /\ ROB[x].id < Dispatched
  BY OccupiedFacts
<1>2. Dispatched \in Nat
  BY Numbers
<1>3. I \in SUBSET Int /\ I # {} /\ I \in SUBSET Nat /\ \A n \in I : n <= Dispatched
  BY <1>1, <1>2
<1>4. IsFiniteSet(I)
  BY <1>2, <1>3, FS_BoundedSetOfNaturals
<1> HIDE DEF I
<1>5. PICK m \in I : \A n \in I : n <= m
  BY <1>3, <1>4, GreatestOf
<1>6. \E x \in S : \A y \in S : ROB[y].id <= ROB[x].id
  BY <1>5 DEF I
<1> QED BY <1>6 DEF Youngest

\* A step that leaves the buffers alone.
LEMMA FrontKept ==
  ASSUME FrontTypes, BuffersInOrder, resume' \in BOOLEAN,
         UNCHANGED <<frontend, DECODE_BUFFER, num_retired>>
  PROVE  FrontTypes' /\ BuffersInOrder' /\ Dispatched' = Dispatched
<1>1. UNCHANGED <<trace, instr_unique_id, IFETCH_BUFFER, fetch_stall, l1i,
                  DECODE_BUFFER, num_retired>>
  BY DEF frontend
<1>2. Dispatched' = Dispatched
  BY <1>1 DEF Dispatched
<1> QED BY <1>1, <1>2 DEF FrontTypes, BuffersInOrder

\* A step in which entries of ROB keep their instructions and operands.
LEMMA RingProceeds ==
  ASSUME Ring, UNCHANGED <<trace, num_retired>>, Dispatched' = Dispatched,
         FrontTypes,
         \A s \in Slots : /\ ROB'[s].id = ROB[s].id
                          /\ DOMAIN ROB'[s].lq_index = DOMAIN ROB[s].lq_index
                          /\ DOMAIN ROB'[s].sq_index = DOMAIN ROB[s].sq_index,
         \A s \in Slots : ~Occupied(s) =>
            /\ ROB'[s].resumes = ROB[s].resumes
            /\ ROB'[s].scheduled = ROB[s].scheduled
            /\ ROB'[s].lq_index = ROB[s].lq_index
            /\ ROB'[s].sq_index = ROB[s].sq_index
            /\ ROB'[s].reg_dependents = ROB[s].reg_dependents
  PROVE  Ring'
<1>1. \A s \in Slots : /\ Occupied(s)' <=> Occupied(s)
                       /\ Loads(s)' = Loads(s) /\ Stores(s)' = Stores(s)
  BY DEF Occupied, Loads, Stores, Instr
<1>2. \A n \in num_retired .. Dispatched - 1 : ROB'[slot(n)].id = n
  <2> TAKE n \in num_retired .. Dispatched - 1
  <2>1. n \in Nat
    BY DEF FrontTypes
  <2> QED BY <2>1, SlotOf DEF Ring
<1>3. \A s \in Slots : Occupied(s)' =>
       /\ ROB'[s].id \in num_retired .. Dispatched - 1
       /\ slot(ROB'[s].id) = s
       /\ DOMAIN ROB'[s].lq_index = DOMAIN Loads(s)'
       /\ DOMAIN ROB'[s].sq_index = DOMAIN Stores(s)'
  BY <1>1 DEF Ring
<1>4. \A s \in Slots : ~Occupied(s)' =>
       /\ ROB'[s].resumes = "never" /\ ROB'[s].scheduled = "no"
       /\ ROB'[s].lq_index = <<>> /\ ROB'[s].sq_index = <<>>
       /\ ROB'[s].reg_dependents = {}
  BY <1>1 DEF Ring
<1> QED BY <1>2, <1>3, <1>4 DEF Ring, slot

\* A step that resolves no branch and leaves the buffers alone.
LEMMA StallKept ==
  ASSUME OneStallingBranch, UNCHANGED <<frontend, DECODE_BUFFER, resume>>,
         \A s \in Slots : /\ ROB'[s].id = ROB[s].id
                          /\ ROB'[s].resumes = ROB[s].resumes
                          /\ (ROB'[s].executed = "COMPLETED")
                               <=> (ROB[s].executed = "COMPLETED")
  PROVE  OneStallingBranch'
<1>1. UNCHANGED <<trace, instr_unique_id, IFETCH_BUFFER, fetch_stall, l1i,
                  DECODE_BUFFER, resume>>
  BY DEF frontend
<1>2. StallingInROB' = StallingInROB
  BY DEF StallingInROB
<1>3. Unresolved' = Unresolved
  BY <1>1, <1>2, UnresolvedParts, Zenon
<1> QED BY <1>1, <1>3 DEF OneStallingBranch

-----------------------------------------------------------------------------
(* Scheduling *)

\* The slots are finitely many, and so are the dependents of an instruction.
LEMMA Finite ==
  /\ IsFiniteSet(Slots) /\ IsFiniteSet(Registers) /\ IsFiniteSet(LQSlots)
  /\ IsFiniteSet(SQSlots) /\ IsFiniteSet(Slots \X Registers)
<1>1. /\ ROB_SIZE \in Nat \ {0} /\ LQ_SIZE \in Nat \ {0} /\ SQ_SIZE \in Nat \ {0}
      /\ IsFiniteSet(Registers)
  BY CoreAssumption
<1>2. ROB_SIZE - 1 \in Int /\ LQ_SIZE - 1 \in Int /\ SQ_SIZE - 1 \in Int /\ 0 \in Int
  BY <1>1
<1>3. IsFiniteSet(Slots) /\ IsFiniteSet(LQSlots) /\ IsFiniteSet(SQSlots)
  BY <1>2, FS_Interval DEF Slots, LQSlots, SQSlots
<1> QED BY <1>1, <1>3, FS_Product

\* The writers that an instruction has to wait for are older and in ROB.
LEMMA WriterFacts ==
  ASSUME FrontTypes, RobTypes, BuffersInOrder, Ring, NEW s \in Slots,
         NEW r \in Needed(s)
  PROVE  /\ Youngest(Writers(s, r)) \in Slots /\ Occupied(Youngest(Writers(s, r)))
         /\ ROB[Youngest(Writers(s, r))].id < ROB[s].id
         /\ ROB[Youngest(Writers(s, r))].executed # "COMPLETED"
         /\ Youngest(Writers(s, r)) \in Writers(s, r)
         /\ \A y \in Writers(s, r) : ROB[y].id <= ROB[Youngest(Writers(s, r))].id
<1> DEFINE W == Writers(s, r)
<1>1. W # {}
  BY DEF Needed
<1>2. \A x \in W : /\ x \in Slots /\ Occupied(x) /\ ROB[x].id < ROB[s].id
                   /\ ROB[x].executed # "COMPLETED"
  BY DEF Writers, Older
<1>3. W \in SUBSET Slots
  BY <1>2
<1>4. Youngest(W) \in W /\ \A y \in W : ROB[y].id <= ROB[Youngest(W)].id
  BY <1>1, <1>2, <1>3, YoungestIs
<1> QED BY <1>2, <1>4

\* The youngest writer of a register that is not retired and has not executed
\* is the instruction whose value is read.
LEMMA WaitsForTheRightOne ==
  ASSUME FrontTypes, RobTypes, BuffersInOrder, Ring, NEW s \in Slots, Occupied(s),
         NEW r \in Instr(s).source_registers,
         NEW m \in LastWriter(ROB[s].id, r), ~(m < num_retired),
         ROB[slot(m)].executed # "COMPLETED"
  PROVE  /\ r \in Needed(s) /\ Youngest(Writers(s, r)) = slot(m)
         /\ slot(m) \in Slots
<1>0. ROB[s].id \in Nat /\ num_retired \in Nat /\ ROB[s].id \in DOMAIN trace
      /\ \A n \in num_retired .. ROB[s].id :
              slot(n) \in Slots /\ ROB[slot(n)].id = n /\ Occupied(slot(n))
  BY OccupiedFacts DEF FrontTypes
<1>1. m \in Nat /\ m < ROB[s].id /\ r \in trace[m].destination_registers
  BY <1>0, LastWriterOlder
<1>2. m \in num_retired .. ROB[s].id
  BY <1>0, <1>1
<1>3. slot(m) \in Slots /\ ROB[slot(m)].id = m /\ Occupied(slot(m))
  BY <1>0, <1>2
<1>4. slot(m) \in Writers(s, r)
  BY <1>1, <1>3 DEF Writers, Older, Instr
<1>5. r \in Needed(s)
  BY <1>4 DEF Needed
<1> DEFINE y == Youngest(Writers(s, r))
<1>6. /\ y \in Slots /\ Occupied(y) /\ ROB[y].id < ROB[s].id
      /\ m <= ROB[y].id /\ y \in Writers(s, r)
  BY <1>3, <1>4, <1>5, WriterFacts
<1>7. r \in trace[ROB[y].id].destination_registers /\ ROB[y].id \in Nat
  BY <1>6, OccupiedFacts DEF Writers, Instr
<1>8. ROB[y].id <= m
  BY <1>0, <1>6, <1>7 DEF LastWriter
<1>9. ROB[y].id = m
  BY <1>1, <1>6, <1>7, <1>8
<1>10. y = slot(m)
  BY <1>3, <1>6, <1>9, OccupiedFacts
<1> QED BY <1>3, <1>5, <1>10

\* do_scheduling makes an instruction wait for the writers of its registers.
LEMMA RegistersOfScheduled ==
  ASSUME FrontTypes, RobTypes, BuffersInOrder, Ring, RegistersInv,
         NEW s \in Slots, Occupied(s), ROB[s].scheduled = "no",
         do_scheduling(s), UNCHANGED <<trace, RTE0, num_retired>>
  PROVE  /\ RobTypes' /\ RegistersInv'
         /\ \A x \in Slots :
              /\ ROB'[x].id = ROB[x].id /\ ROB'[x].resumes = ROB[x].resumes
              /\ ROB'[x].executed = ROB[x].executed
              /\ ROB'[x].lq_index = ROB[x].lq_index
              /\ ROB'[x].sq_index = ROB[x].sq_index
              /\ ROB'[x].num_mem_ops = ROB[x].num_mem_ops
              /\ ROB'[x].mem_dependents = ROB[x].mem_dependents
         /\ \A x \in Slots : x # s => ROB'[x].scheduled = ROB[x].scheduled
         /\ \A x \in Slots : ~Occupied(x) =>
              ROB'[x].reg_dependents = ROB[x].reg_dependents
         /\ ROB'[s].scheduled # "no"
<1> DEFINE needed == Needed(s)
           Y(r) == Youngest(Writers(s, r))
           new(x) == {<<s, r>> : r \in {q \in needed : x = Y(q)}}
           c == Cardinality(needed)
           me == [ROB[s] EXCEPT
               !.scheduled = IF is_memory(s) THEN "INFLIGHT" ELSE "COMPLETED",
               !.reg_ready = (needed = {}),
               !.num_reg_dependent = @ + c]
<1>1. \A r \in needed :
        /\ Y(r) \in Slots /\ Occupied(Y(r)) /\ ROB[Y(r)].id < ROB[s].id
        /\ ROB[Y(r)].executed # "COMPLETED" /\ Y(r) # s
  <2>1. ROB[s].id \in Nat
    BY OccupiedFacts
  <2> QED BY <2>1, WriterFacts
<1>2. ROB[s].id \in DOMAIN trace
  BY OccupiedFacts
<1>3. needed \subseteq Registers
  BY <1>2, TraceFacts DEF Needed, Instr
<1>4. IsFiniteSet(needed) /\ c \in Nat
  BY <1>3, Finite, FS_Subset, FS_CardinalityType
<1>5. ROB' = [x \in Slots |-> IF x = s THEN me ELSE
                [ROB[x] EXCEPT !.reg_dependents = @ \cup new(x)]]
  BY DEF do_scheduling
<1>6. /\ ROB[s].num_reg_dependent = 0 /\ ~ROB[s].reg_ready /\ NotStarted(s)
  BY DEF RegistersInv, DependencesCounted, Idle
<1> HIDE DEF needed, Y, new, c
<1>7. ROB'[s] = me /\ \A x \in Slots : x # s =>
        ROB'[x] = [ROB[x] EXCEPT !.reg_dependents = @ \cup new(x)]
  BY <1>5
<1>8. \A x \in Slots : new(x) \subseteq {<<s, r>> : r \in needed}
  BY DEF new
<1>9. ASSUME NEW x \in Slots
      PROVE  /\ ROB[x] \in LooseEntries
             /\ ROB'[x].id = ROB[x].id /\ ROB'[x].resumes = ROB[x].resumes
             /\ ROB'[x].executed = ROB[x].executed
             /\ ROB'[x].lq_index = ROB[x].lq_index
             /\ ROB'[x].sq_index = ROB[x].sq_index
             /\ ROB'[x].num_mem_ops = ROB[x].num_mem_ops
             /\ ROB'[x].mem_dependents = ROB[x].mem_dependents
             /\ x # s => /\ ROB'[x].scheduled = ROB[x].scheduled
                         /\ ROB'[x].reg_ready = ROB[x].reg_ready
                         /\ ROB'[x].num_reg_dependent = ROB[x].num_reg_dependent
                         /\ ROB'[x].reg_dependents = ROB[x].reg_dependents \cup new(x)
             /\ x = s => /\ ROB'[x].scheduled =
                              (IF is_memory(s) THEN "INFLIGHT" ELSE "COMPLETED")
                         /\ ROB'[x].reg_ready = (needed = {})
                         /\ ROB'[x].num_reg_dependent = c
                         /\ ROB'[x].reg_dependents = ROB[x].reg_dependents
  <2>1. ROB[x] \in LooseEntries
    BY DEF RobTypes
  <2>2. CASE x = s
    <3>1. ROB'[x] = [ROB[x] EXCEPT
               !.scheduled = IF is_memory(s) THEN "INFLIGHT" ELSE "COMPLETED",
               !.reg_ready = (needed = {}),
               !.num_reg_dependent = c]
      <4>1. ROB[s].num_reg_dependent + c = c
        BY <1>4, <1>6
      <4> QED BY <4>1, <2>2, <1>7 DEF me
    <3> QED BY <3>1, <2>1, <2>2 DEF LooseEntries
  <2>3. CASE x # s
    <3>1. ROB'[x] = [ROB[x] EXCEPT !.reg_dependents = @ \cup new(x)]
      BY <2>3, <1>7
    <3> QED BY <3>1, <2>1, <2>3 DEF LooseEntries
  <2> QED BY <2>1, <2>2, <2>3
<1> HIDE DEF me
<1>10. new(s) = {}
  BY <1>1 DEF new
<1>11. \A x \in Slots : ROB'[x].reg_dependents = ROB[x].reg_dependents \cup new(x)
  BY <1>9, <1>10
<1>12. ASSUME NEW x \in Slots PROVE ROB'[x] \in LooseEntries
  <2>1. new(x) \subseteq Slots \X Registers
    BY <1>3, <1>8
  <2>2. ROB[x] \in LooseEntries
    BY <1>9
  <2>3. CASE x = s
    <3>1. /\ ROB[s].num_reg_dependent + c \in Int /\ (needed = {}) \in BOOLEAN
          /\ (IF is_memory(s) THEN "INFLIGHT" ELSE "COMPLETED") \in Status
      BY <1>4, <1>6 DEF Status
    <3> QED BY <3>1, <2>2, <2>3, <1>7 DEF LooseEntries, me
  <2>4. CASE x # s
    <3>1. ROB'[x] = [ROB[x] EXCEPT !.reg_dependents = @ \cup new(x)]
      BY <2>4, <1>7
    <3> DEFINE D == ROB[x].reg_dependents \cup new(x)
    <3>2. D \in SUBSET (Slots \X Registers)
      BY <2>1, <2>2 DEF LooseEntries
    <3>3. ROB'[x] = [ROB[x] EXCEPT !.reg_dependents = D]
      BY <3>1
    <3> HIDE DEF D
    <3> QED BY <3>2, <3>3, <2>2 DEF LooseEntries
  <2> QED BY <2>3, <2>4
<1>13. ROB' \in [Slots -> LooseEntries]
  BY <1>5, <1>12
<1>14. RTE1' \in Seq(Slots) /\ RTE0' = RTE0 /\ RTE1 \in Seq(Slots) /\ RTE0 \in Seq(Slots)
       /\ RTE1' = IF ReadyAtOnce(s) THEN Append(RTE1, s) ELSE RTE1
  <2>1. /\ RTE1 \in Seq(Slots) /\ RTE0 \in Seq(Slots)
        /\ RTE1' = IF ReadyAtOnce(s) THEN Append(RTE1, s) ELSE RTE1
    BY DEF RobTypes, do_scheduling
  <2> QED BY <2>1, AppendProperties
<1>15. RobTypes'
  BY <1>13, <1>14 DEF RobTypes
<1>16. ASSUME NEW x \in Slots, ~Occupied(x) PROVE new(x) = {}
  BY <1>1, <1>16 DEF new
<1>17. DependentsYounger'
  <2> SUFFICES ASSUME NEW x \in Slots, NEW d \in ROB'[x].reg_dependents
               PROVE  /\ Occupied(d[1])' /\ ROB'[d[1]].scheduled # "no"
                      /\ ROB'[x].id < ROB'[d[1]].id
    BY DEF DependentsYounger
  <2>1. CASE d \in ROB[x].reg_dependents
    <3>1. Occupied(d[1]) /\ ROB[d[1]].scheduled # "no" /\ ROB[x].id < ROB[d[1]].id
      BY <2>1 DEF RegistersInv, DependentsYounger
    <3>2. d[1] \in Slots
      BY <2>1, EntryFields
    <3>3. d[1] # s
      BY <3>1
    <3> QED BY <3>1, <3>2, <3>3, <1>9 DEF Occupied
  <2>2. CASE d \in new(x)
    <3>1. PICK r \in needed : d = <<s, r>> /\ x = Y(r)
      BY <2>2 DEF new
    <3> QED BY <3>1, <1>1, <1>9 DEF Occupied
  <2> QED BY <2>1, <2>2, <1>11
<1>18. Pending(s) = {}
  <2> SUFFICES ASSUME NEW d \in Slots \X Registers,
                      <<s, d[2]>> \in ROB[d[1]].reg_dependents
               PROVE  FALSE
    BY DEF Pending
  <2>1. d[1] \in Slots /\ <<s, d[2]>>[1] = s
    OBVIOUS
  <2> DEFINE e == <<s, d[2]>>
  <2>2. e \in ROB[d[1]].reg_dependents /\ e[1] = s
    OBVIOUS
  <2> HIDE DEF e
  <2> QED BY <2>1, <2>2 DEF RegistersInv, DependentsYounger
<1>19. ASSUME NEW x \in Slots, x # s PROVE Pending(x)' = Pending(x)
  <2>1. \A y \in Slots : \A r : <<x, r>> \in new(y) => FALSE
    BY <1>8, <1>19
  <2>2. \A y \in Slots : \A r : <<x, r>> \in ROB'[y].reg_dependents
                            <=> <<x, r>> \in ROB[y].reg_dependents
    BY <2>1, <1>11
  <2>3. \A y \in Slots : ROB'[y].executed = ROB[y].executed
    BY <1>9
  <2> QED BY <2>2, <2>3 DEF Pending
<1>20. Pending(s)' = {<<Y(r), r>> : r \in needed}
  <2>1. \A y \in Slots : \A r : <<s, r>> \in ROB'[y].reg_dependents
                            <=> (<<s, r>> \in ROB[y].reg_dependents
                                 \/ <<s, r>> \in new(y))
    BY <1>11
  <2>2. ASSUME NEW y \in Slots, NEW r \in Registers, ROB[y].executed # "COMPLETED"
        PROVE <<s, r>> \notin ROB[y].reg_dependents
    <3> SUFFICES ASSUME <<s, r>> \in ROB[y].reg_dependents PROVE FALSE
      OBVIOUS
    <3>1. <<y, r>> \in Pending(s)
      BY <2>2 DEF Pending
    <3> QED BY <3>1, <1>18
  <2>3. \A y \in Slots : \A r : <<s, r>> \in new(y) <=> (r \in needed /\ y = Y(r))
    BY DEF new
  <2>4. \A y \in Slots : ROB'[y].executed = ROB[y].executed
    BY <1>9
  <2>5. ASSUME NEW d \in Pending(s)' PROVE d \in {<<Y(r), r>> : r \in needed}
    <3>1. /\ d \in Slots \X Registers /\ ROB[d[1]].executed # "COMPLETED"
          /\ <<s, d[2]>> \in ROB'[d[1]].reg_dependents
      BY <2>4, <2>5 DEF Pending
    <3>2. d[1] \in Slots /\ d[2] \in Registers /\ d = <<d[1], d[2]>>
      BY <3>1
    <3>3. <<s, d[2]>> \in new(d[1])
      BY <3>1, <3>2, <2>1, <2>2
    <3>4. d[2] \in needed /\ d[1] = Y(d[2])
      BY <3>2, <3>3, <2>3
    <3> QED BY <3>2, <3>4
  <2>6. ASSUME NEW r \in needed PROVE <<Y(r), r>> \in Pending(s)'
    <3>1. /\ Y(r) \in Slots /\ r \in Registers /\ ROB'[Y(r)].executed # "COMPLETED"
          /\ <<s, r>> \in ROB'[Y(r)].reg_dependents
      BY <1>1, <1>3, <2>1, <2>3, <2>4
    <3> DEFINE d == <<Y(r), r>>
    <3>2. d \in Slots \X Registers /\ d[1] = Y(r) /\ d[2] = r
      BY <3>1
    <3> HIDE DEF d
    <3>3. d \in Pending(s)'
      BY <3>1, <3>2 DEF Pending
    <3> QED BY <3>3 DEF d
  <2> QED BY <2>5, <2>6
<1>21. /\ Cardinality(Pending(s)') = c
       /\ (needed = {}) <=> (Pending(s)' = {})
  <2> DEFINE T == {<<Y(r), r>> : r \in needed}
             g == [r \in needed |-> <<Y(r), r>>]
  <2>1. g \in Bijection(needed, T)
    <3>1. g \in [needed -> T]
      OBVIOUS
    <3>2. \A p, q \in needed : g[p] = g[q] => p = q
      OBVIOUS
    <3>3. \A t \in T : \E r \in needed : g[r] = t
      OBVIOUS
    <3> QED BY <3>1, <3>2, <3>3 DEF Bijection, Injection, Surjection, IsInjective
  <2>2. ExistsBijection(needed, T)
    BY <2>1 DEF ExistsBijection
  <2> HIDE DEF T, g
  <2>3. Cardinality(T) = c
    BY <2>2, <1>4, FS_Bijection DEF c
  <2>4. (needed = {}) <=> (T = {})
    BY DEF T
  <2>5. Pending(s)' = T
    BY <1>20 DEF T
  <2> QED BY <2>3, <2>4, <2>5
<1>22. \A x \in Slots : /\ Instr(x)' = Instr(x) /\ (is_memory(x)' <=> is_memory(x))
                        /\ (Occupied(x)' <=> Occupied(x))
                        /\ (NotStarted(x)' <=> NotStarted(x))
  <2>1. \A x \in Slots : Instr(x)' = Instr(x)
    BY <1>9 DEF Instr
  <2> QED BY <2>1, <1>9 DEF is_memory, Loads, Stores, Occupied, NotStarted
<1>23. ASSUME NEW x \in Slots, x # s, ROB[x].scheduled # "no", NEW r, Produced(x, r)
       PROVE  Produced(x, r)'
  <2>1. Occupied(x) /\ ROB[x].id \in Nat /\ num_retired \in Nat
        /\ \A n \in num_retired .. ROB[x].id : slot(n) \in Slots
    BY <1>23, EmptyFacts, OccupiedFacts DEF FrontTypes
  <2>2. LastWriter(ROB[x].id, r)' = LastWriter(ROB[x].id, r)
    BY <1>9 DEF LastWriter
  <2>3. ASSUME NEW m \in LastWriter(ROB[x].id, r), ~(m < num_retired)
        PROVE  slot(m) \in Slots
    <3>1. m \in Nat /\ m < ROB[x].id
      BY <2>1, LastWriterOlder
    <3>2. m \in num_retired .. ROB[x].id
      BY <3>1, <2>1, <2>3
    <3> QED BY <3>2, <2>1
  <2> QED BY <2>2, <2>3, <1>9, <1>11, <1>23 DEF Produced, slot
<1>24. ASSUME NEW r \in Instr(s).source_registers PROVE Produced(s, r)'
  <2>1. LastWriter(ROB[s].id, r)' = LastWriter(ROB[s].id, r)
    BY <1>9 DEF LastWriter
  <2>2. ASSUME NEW m \in LastWriter(ROB[s].id, r), ~(m < num_retired),
               ROB'[slot(m)].executed # "COMPLETED"
        PROVE  <<s, r>> \in ROB'[slot(m)].reg_dependents
    <3>1. slot(m) \in Slots
      <4>1. ROB[s].id \in Nat /\ num_retired \in Nat
        BY OccupiedFacts DEF FrontTypes
      <4>2. m \in Nat
        BY <4>1, LastWriterOlder
      <4> QED BY <4>2, SlotOf
    <3>2. ROB[slot(m)].executed # "COMPLETED"
      BY <3>1, <2>2, <1>9
    <3>3. r \in needed /\ Y(r) = slot(m)
      BY <3>2, <2>2, WaitsForTheRightOne DEF needed, Y
    <3>4. <<s, r>> \in new(slot(m))
      BY <3>3 DEF new
    <3> QED BY <3>1, <3>4, <1>11
  <2>3. \A m \in LastWriter(ROB[s].id, r) :
          \/ m < num_retired
          \/ ROB'[slot(m)].executed = "COMPLETED"
          \/ <<s, r>> \in ROB'[slot(m)].reg_dependents
    BY <2>2
  <2> QED BY <2>1, <2>3 DEF Produced, slot
<1>25. DependencesCounted'
  <2> SUFFICES ASSUME NEW x \in Slots
        PROVE /\ ROB'[x].scheduled = "no" => Idle(x)'
              /\ ROB'[x].scheduled # "no" =>
                   /\ ROB'[x].num_reg_dependent = Cardinality(Pending(x)')
                   /\ ROB'[x].reg_ready <=> (Pending(x)' = {})
                   /\ \A r \in Instr(x)'.source_registers : Produced(x, r)'
              /\ ~ROB'[x].reg_ready => NotStarted(x)'
    BY DEF DependencesCounted
  <2>1. CASE x = s
    BY <2>1, <1>6, <1>9, <1>21, <1>22, <1>24
  <2>2. CASE x # s
    <3>1. /\ ROB[x].scheduled = "no" => Idle(x)
          /\ ROB[x].scheduled # "no" =>
                   /\ ROB[x].num_reg_dependent = Cardinality(Pending(x))
                   /\ ROB[x].reg_ready <=> (Pending(x) = {})
                   /\ \A r \in Instr(x).source_registers : Produced(x, r)
          /\ ~ROB[x].reg_ready => NotStarted(x)
      BY DEF RegistersInv, DependencesCounted
    <3>2. Idle(x) => Idle(x)'
      BY <2>2, <1>9 DEF Idle
    <3> QED BY <3>1, <3>2, <2>2, <1>9, <1>19, <1>22, <1>23
  <2> QED BY <2>1, <2>2
<1>26. RTEExact'
  <2> DEFINE Ready(x) == /\ Occupied(x) /\ ~is_memory(x) /\ ROB[x].reg_ready
                         /\ ROB[x].executed = "no"
             E == Elements(RTE0 \o RTE1)
  <2>1. Once(RTE0 \o RTE1) /\ E = {x \in Slots : Ready(x)}
    BY DEF RegistersInv, RTEExact
  <2>2. \A x \in Slots : x # s => (Ready(x)' <=> Ready(x))
    BY <1>9, <1>22
  <2>3. Ready(s)' <=> ReadyAtOnce(s)
    BY <1>6, <1>9, <1>22 DEF ReadyAtOnce, NotStarted, needed
  <2>4. ~Ready(s)
    BY <1>6
  <2> HIDE DEF Ready
  <2>5. /\ E = Elements(RTE0) \cup Elements(RTE1)
        /\ Once(RTE0) /\ Once(RTE1) /\ Elements(RTE0) \cap Elements(RTE1) = {}
    BY <2>1, <1>14, OnceConcat
  <2>6. CASE ReadyAtOnce(s)
    <3>1. RTE1' = Append(RTE1, s)
      BY <2>6, <1>14
    <3>2. s \notin E /\ s \notin Elements(RTE1) /\ s \notin Elements(RTE0)
      BY <2>1, <2>4, <2>5
    <3>3. /\ Elements(RTE1') = Elements(RTE1) \cup {s} /\ Once(RTE1')
          /\ RTE1' \in Seq(Slots)
      <4>1. RTE1 \in Seq(Slots) /\ Once(RTE1) /\ s \notin Elements(RTE1)
        BY <3>2, <2>5, <1>14
      <4>2. /\ Append(RTE1, s) \in Seq(Slots) /\ Once(Append(RTE1, s))
            /\ Elements(Append(RTE1, s)) = Elements(RTE1) \cup {s}
        BY <4>1, OnceAppend
      <4> QED BY <4>2, <3>1
    <3>4. Elements(RTE0) \cap Elements(RTE1') = {}
      BY <3>2, <3>3, <2>5
    <3>5. /\ Once(RTE0 \o RTE1')
          /\ Elements(RTE0 \o RTE1') = Elements(RTE0) \cup Elements(RTE1')
      BY <3>3, <3>4, <2>5, <1>14, OnceConcat
    <3>6. Elements(RTE0 \o RTE1') = E \cup {s}
      BY <3>3, <3>5, <2>5
    <3>7. Elements(RTE0 \o RTE1') = {x \in Slots : Ready(x)'}
      BY <3>6, <2>1, <2>2, <2>3, <2>6
    <3>8. RTE0' = RTE0
      BY <1>14
    <3>9. Once((RTE0 \o RTE1)') /\ Elements((RTE0 \o RTE1)') = {x \in Slots : Ready(x)'}
      BY <3>5, <3>7, <3>8
    <3> QED BY <3>9 DEF RTEExact, Ready, Elements, Once
  <2>7. CASE ~ReadyAtOnce(s)
    <3>1. RTE1' = RTE1
      BY <2>7, <1>14
    <3>2. \A x \in Slots : Ready(x)' <=> Ready(x)
      BY <2>2, <2>3, <2>4, <2>7
    <3>3. E = {x \in Slots : Ready(x)'}
      BY <2>1, <3>2
    <3> QED BY <3>1, <3>3, <2>1, <1>14 DEF RTEExact, Ready, Elements, Once
  <2> QED BY <2>6, <2>7
<1>27. RegistersInv'
  BY <1>17, <1>25, <1>26 DEF RegistersInv
<1>28. ROB'[s].scheduled # "no"
  BY <1>9
<1>29. \A x \in Slots : ~Occupied(x) => ROB'[x].reg_dependents = ROB[x].reg_dependents
  BY <1>11, <1>16
<1> QED BY <1>9, <1>15, <1>27, <1>28, <1>29

\* schedule_instruction preserves the invariant.
LEMMA ScheduleKeeps ==
  ASSUME CoreInv, schedule_instruction
  PROVE  CoreInv'
<1> DEFINE s == Oldest(Unscheduled)
<1>0. /\ FrontTypes /\ RobTypes /\ MemoryTypes /\ BuffersInOrder /\ Ring
      /\ RegistersInv /\ OneStallingBranch
  BY DEF CoreInv
<1>1. /\ Unscheduled # {} /\ do_scheduling(s)
      /\ UNCHANGED <<frontend, DECODE_BUFFER, resume, RTE0, lsq, retired>>
  BY DEF schedule_instruction
<1>2. s \in Slots /\ Occupied(s) /\ ROB[s].scheduled = "no"
  <2>1. Unscheduled \in SUBSET Slots /\ \A x \in Unscheduled : Occupied(x)
    BY DEF Unscheduled
  <2>2. s \in Unscheduled
    BY <2>1, <1>0, <1>1, OldestIs
  <2> QED BY <2>2 DEF Unscheduled
<1>3. UNCHANGED <<trace, RTE0, num_retired>>
  BY <1>1 DEF frontend, retired
<1> HIDE DEF s
<1>4. /\ RobTypes' /\ RegistersInv'
      /\ \A x \in Slots :
              /\ ROB'[x].id = ROB[x].id /\ ROB'[x].resumes = ROB[x].resumes
              /\ ROB'[x].executed = ROB[x].executed
              /\ ROB'[x].lq_index = ROB[x].lq_index
              /\ ROB'[x].sq_index = ROB[x].sq_index
      /\ \A x \in Slots : x # s => ROB'[x].scheduled = ROB[x].scheduled
      /\ \A x \in Slots : ~Occupied(x) =>
              ROB'[x].reg_dependents = ROB[x].reg_dependents
  BY <1>0, <1>1, <1>2, <1>3, RegistersOfScheduled
<1>5. FrontTypes' /\ BuffersInOrder' /\ Dispatched' = Dispatched
  <2>1. resume' \in BOOLEAN /\ UNCHANGED <<frontend, DECODE_BUFFER, num_retired>>
    BY <1>0, <1>1 DEF FrontTypes, retired
  <2> QED BY <2>1, <1>0, FrontKept
<1>6. MemoryTypes'
  BY <1>0, <1>1 DEF MemoryTypes, lsq, retired
<1>7. Ring'
  BY <1>0, <1>2, <1>3, <1>4, <1>5, RingProceeds
<1>8. OneStallingBranch'
  BY <1>0, <1>1, <1>4, StallKept
<1> QED BY <1>4, <1>5, <1>6, <1>7, <1>8 DEF CoreInv

\* A step in which some instructions start, which they do when they are ready,
\* and none completes, preserves what is known of registers.
LEMMA RegistersProceed ==
  ASSUME FrontTypes, RobTypes, BuffersInOrder, Ring, RegistersInv, RTEExact',
         UNCHANGED <<trace, num_retired>>,
         \A s \in Slots :
           /\ ROB'[s].id = ROB[s].id /\ ROB'[s].reg_ready = ROB[s].reg_ready
           /\ ROB'[s].num_reg_dependent = ROB[s].num_reg_dependent
           /\ ROB'[s].reg_dependents = ROB[s].reg_dependents
           /\ (ROB'[s].executed = "COMPLETED") <=> (ROB[s].executed = "COMPLETED")
           /\ (ROB'[s].scheduled = "no") <=> (ROB[s].scheduled = "no")
           /\ ~ROB[s].reg_ready => /\ ROB'[s].executed = ROB[s].executed
                                   /\ ROB'[s].lq_index = ROB[s].lq_index
                                   /\ ROB'[s].sq_index = ROB[s].sq_index
  PROVE  RegistersInv'
<1>1. DependentsYounger'
  <2> SUFFICES ASSUME NEW x \in Slots, NEW d \in ROB'[x].reg_dependents
               PROVE  /\ Occupied(d[1])' /\ ROB'[d[1]].scheduled # "no"
                      /\ ROB'[x].id < ROB'[d[1]].id
    BY DEF DependentsYounger
  <2>1. d \in ROB[x].reg_dependents
    OBVIOUS
  <2>2. Occupied(d[1]) /\ ROB[d[1]].scheduled # "no" /\ ROB[x].id < ROB[d[1]].id
    BY <2>1 DEF RegistersInv, DependentsYounger
  <2>3. d[1] \in Slots
    BY <2>1, EntryFields
  <2> QED BY <2>2, <2>3 DEF Occupied
<1>2. ASSUME NEW s \in Slots PROVE Pending(s)' = Pending(s)
  BY DEF Pending
<1>3. \A s \in Slots : /\ Instr(s)' = Instr(s)
                       /\ ~ROB[s].reg_ready /\ NotStarted(s) => NotStarted(s)'
                       /\ Idle(s) => Idle(s)'
  BY DEF Instr, NotStarted, Idle
<1>4. ASSUME NEW s \in Slots, ROB[s].scheduled # "no", NEW r, Produced(s, r)
      PROVE  Produced(s, r)'
  <2>1. Occupied(s) /\ ROB[s].id \in Nat
    BY <1>4, EmptyFacts, OccupiedFacts
  <2>2. LastWriter(ROB[s].id, r)' = LastWriter(ROB[s].id, r)
    BY DEF LastWriter
  <2>3. \A m \in LastWriter(ROB[s].id, r) : slot(m) \in Slots
    BY <2>1, LastWriterOlder, SlotOf
  <2> QED BY <2>2, <2>3, <1>4 DEF Produced, slot
<1>5. DependencesCounted'
  <2> SUFFICES ASSUME NEW x \in Slots
        PROVE /\ ROB'[x].scheduled = "no" => Idle(x)'
              /\ ROB'[x].scheduled # "no" =>
                   /\ ROB'[x].num_reg_dependent = Cardinality(Pending(x)')
                   /\ ROB'[x].reg_ready <=> (Pending(x)' = {})
                   /\ \A r \in Instr(x)'.source_registers : Produced(x, r)'
              /\ ~ROB'[x].reg_ready => NotStarted(x)'
    BY DEF DependencesCounted
  <2>1. /\ ROB[x].scheduled = "no" => Idle(x)
        /\ ROB[x].scheduled # "no" =>
                   /\ ROB[x].num_reg_dependent = Cardinality(Pending(x))
                   /\ ROB[x].reg_ready <=> (Pending(x) = {})
                   /\ \A r \in Instr(x).source_registers : Produced(x, r)
        /\ ~ROB[x].reg_ready => NotStarted(x)
    BY DEF RegistersInv, DependencesCounted
  <2> QED BY <2>1, <1>2, <1>3, <1>4
<1> QED BY <1>1, <1>5 DEF RegistersInv

\* What leaves the ready queues and the instructions they name alone.
LEMMA RTEKept ==
  ASSUME RTEExact, UNCHANGED <<trace, RTE0, RTE1>>,
         \A s \in Slots :
           /\ ROB'[s].id = ROB[s].id /\ ROB'[s].reg_ready = ROB[s].reg_ready
           /\ ROB'[s].executed = ROB[s].executed \/ is_memory(s)
  PROVE  RTEExact'
<1>1. \A s \in Slots : is_memory(s)' <=> is_memory(s)
  BY DEF is_memory, Loads, Stores, Instr
<1>2. \A s \in Slots :
        (Occupied(s) /\ ~is_memory(s) /\ ROB[s].reg_ready /\ ROB[s].executed = "no")
        <=> (Occupied(s) /\ ~is_memory(s) /\ ROB[s].reg_ready
             /\ ROB[s].executed = "no")'
  BY <1>1 DEF Occupied
<1> QED BY <1>2 DEF RTEExact

\* execute_instruction preserves the invariant: what it takes from a ready
\* queue is ready and has not started.
LEMMA ExecuteKeeps ==
  ASSUME CoreInv, execute_instruction
  PROVE  CoreInv'
<1>0. /\ FrontTypes /\ RobTypes /\ MemoryTypes /\ BuffersInOrder /\ Ring
      /\ RegistersInv /\ OneStallingBranch /\ RTEExact
  BY DEF CoreInv, RegistersInv
<1>1. UNCHANGED <<frontend, DECODE_BUFFER, resume, lsq, retired>>
  BY DEF execute_instruction
<1>2. RTE0 \in Seq(Slots) /\ RTE1 \in Seq(Slots)
  BY <1>0 DEF RobTypes
<1>3. /\ Once(RTE0) /\ Once(RTE1) /\ Elements(RTE0) \cap Elements(RTE1) = {}
      /\ Elements(RTE0 \o RTE1) = Elements(RTE0) \cup Elements(RTE1)
  BY <1>0, <1>2, OnceConcat DEF RTEExact
<1>4. \E s \in Slots : /\ s \in Elements(RTE0) \cup Elements(RTE1)
                       /\ ROB' = [ROB EXCEPT ![s].executed = "INFLIGHT"]
                       /\ RTE0' \in Seq(Slots) /\ RTE1' \in Seq(Slots)
                       /\ Once(RTE0') /\ Once(RTE1')
                       /\ Elements(RTE0') \cap Elements(RTE1') = {}
                       /\ Elements(RTE0') \cup Elements(RTE1') =
                            (Elements(RTE0) \cup Elements(RTE1)) \ {s}
  <2>1. CASE /\ RTE0 # <<>> /\ do_execution(Head(RTE0))
             /\ RTE0' = Tail(RTE0) /\ RTE1' = RTE1
    <3> DEFINE s == Head(RTE0)
    <3>1. /\ s \in Slots /\ Tail(RTE0) \in Seq(Slots) /\ s \in Elements(RTE0)
          /\ Elements(RTE0) = {s} \cup Elements(Tail(RTE0))
          /\ Once(Tail(RTE0)) /\ s \notin Elements(Tail(RTE0))
      BY <2>1, <1>2, <1>3, OnceHead
    <3>2. ROB' = [ROB EXCEPT ![s].executed = "INFLIGHT"]
      BY <2>1 DEF do_execution
    <3> HIDE DEF s
    <3>3. /\ Elements(Tail(RTE0)) \cap Elements(RTE1) = {}
          /\ Elements(Tail(RTE0)) \cup Elements(RTE1) =
               (Elements(RTE0) \cup Elements(RTE1)) \ {s}
      BY <3>1, <1>3
    <3> QED BY <3>1, <3>2, <3>3, <2>1, <1>2, <1>3
  <2>2. CASE /\ RTE1 # <<>> /\ do_execution(Head(RTE1))
             /\ RTE1' = Tail(RTE1) /\ RTE0' = RTE0
    <3> DEFINE s == Head(RTE1)
    <3>1. /\ s \in Slots /\ Tail(RTE1) \in Seq(Slots) /\ s \in Elements(RTE1)
          /\ Elements(RTE1) = {s} \cup Elements(Tail(RTE1))
          /\ Once(Tail(RTE1)) /\ s \notin Elements(Tail(RTE1))
      BY <2>2, <1>2, <1>3, OnceHead
    <3>2. ROB' = [ROB EXCEPT ![s].executed = "INFLIGHT"]
      BY <2>2 DEF do_execution
    <3> HIDE DEF s
    <3>3. /\ Elements(RTE0) \cap Elements(Tail(RTE1)) = {}
          /\ Elements(RTE0) \cup Elements(Tail(RTE1)) =
               (Elements(RTE0) \cup Elements(RTE1)) \ {s}
      BY <3>1, <1>3
    <3> QED BY <3>1, <3>2, <3>3, <2>2, <1>2, <1>3
  <2> QED BY <2>1, <2>2 DEF execute_instruction
<1>5. PICK s \in Slots : /\ s \in Elements(RTE0) \cup Elements(RTE1)
                         /\ ROB' = [ROB EXCEPT ![s].executed = "INFLIGHT"]
                         /\ RTE0' \in Seq(Slots) /\ RTE1' \in Seq(Slots)
                         /\ Once(RTE0') /\ Once(RTE1')
                         /\ Elements(RTE0') \cap Elements(RTE1') = {}
                         /\ Elements(RTE0') \cup Elements(RTE1') =
                              (Elements(RTE0) \cup Elements(RTE1)) \ {s}
  BY <1>4
<1>6. Occupied(s) /\ ~is_memory(s) /\ ROB[s].reg_ready /\ ROB[s].executed = "no"
  BY <1>0, <1>3, <1>5 DEF RTEExact
<1>7. /\ ROB'[s] = [ROB[s] EXCEPT !.executed = "INFLIGHT"]
      /\ \A x \in Slots : x # s => ROB'[x] = ROB[x]
  BY <1>0, <1>5 DEF RobTypes
<1>8. /\ ROB'[s] \in LooseEntries /\ ROB'[s].executed = "INFLIGHT"
      /\ ROB'[s].id = ROB[s].id /\ ROB'[s].resumes = ROB[s].resumes
      /\ ROB'[s].scheduled = ROB[s].scheduled /\ ROB'[s].reg_ready = ROB[s].reg_ready
      /\ ROB'[s].num_reg_dependent = ROB[s].num_reg_dependent
      /\ ROB'[s].reg_dependents = ROB[s].reg_dependents
      /\ ROB'[s].lq_index = ROB[s].lq_index /\ ROB'[s].sq_index = ROB[s].sq_index
  BY <1>0, <1>7, EntryFields DEF LooseEntries, Status
<1>9. RobTypes'
  BY <1>0, <1>5, <1>8 DEF RobTypes
<1>10. UNCHANGED <<trace, num_retired>>
  BY <1>1 DEF frontend, retired
<1>11. RTEExact'
  <2>1. \A x \in Slots : is_memory(x)' <=> is_memory(x)
    BY <1>7, <1>8, <1>10 DEF is_memory, Loads, Stores, Instr
  <2>2. \A x \in Slots :
          (Occupied(x) /\ ~is_memory(x) /\ ROB[x].reg_ready
           /\ ROB[x].executed = "no")' <=>
          (x # s /\ Occupied(x) /\ ~is_memory(x) /\ ROB[x].reg_ready
           /\ ROB[x].executed = "no")
    BY <2>1, <1>7, <1>8 DEF Occupied
  <2> DEFINE Ready(x) == /\ Occupied(x) /\ ~is_memory(x) /\ ROB[x].reg_ready
                         /\ ROB[x].executed = "no"
  <2>3. Elements(RTE0) \cup Elements(RTE1) = {x \in Slots : Ready(x)}
    BY <1>0, <1>3 DEF RTEExact
  <2>4. \A x \in Slots : Ready(x)' <=> (x # s /\ Ready(x))
    BY <2>2
  <2> HIDE DEF Ready
  <2>5. Elements(RTE0') \cup Elements(RTE1') = {x \in Slots : Ready(x)'}
    BY <2>3, <2>4, <1>5
  <2>6. /\ Once(RTE0' \o RTE1')
        /\ Elements(RTE0' \o RTE1') = {x \in Slots : Ready(x)'}
    BY <2>5, <1>5, OnceConcat
  <2> QED BY <2>6 DEF RTEExact, Ready, Elements, Once
<1>12. RegistersInv'
  <2>1. \A x \in Slots :
          /\ ROB'[x].id = ROB[x].id /\ ROB'[x].reg_ready = ROB[x].reg_ready
          /\ ROB'[x].num_reg_dependent = ROB[x].num_reg_dependent
          /\ ROB'[x].reg_dependents = ROB[x].reg_dependents
          /\ (ROB'[x].executed = "COMPLETED") <=> (ROB[x].executed = "COMPLETED")
          /\ (ROB'[x].scheduled = "no") <=> (ROB[x].scheduled = "no")
          /\ ~ROB[x].reg_ready => /\ ROB'[x].executed = ROB[x].executed
                                  /\ ROB'[x].lq_index = ROB[x].lq_index
                                  /\ ROB'[x].sq_index = ROB[x].sq_index
    <3> TAKE x \in Slots
    <3>1. CASE x = s
      BY <3>1, <1>6, <1>8
    <3>2. CASE x # s
      <4>1. ROB'[x] = ROB[x]
        BY <3>2, <1>7
      <4> QED BY <4>1
    <3> QED BY <3>1, <3>2
  <2> QED BY <2>1, <1>0, <1>10, <1>11, RegistersProceed
<1>13. FrontTypes' /\ BuffersInOrder' /\ Dispatched' = Dispatched
  <2>1. resume' \in BOOLEAN /\ UNCHANGED <<frontend, DECODE_BUFFER, num_retired>>
    BY <1>0, <1>1 DEF FrontTypes, retired
  <2> QED BY <2>1, <1>0, FrontKept
<1>14. MemoryTypes'
  BY <1>0, <1>1 DEF MemoryTypes, lsq, retired
<1>15. Ring'
  BY <1>0, <1>6, <1>7, <1>8, <1>10, <1>13, RingProceeds
<1>16. OneStallingBranch'
  BY <1>0, <1>1, <1>6, <1>7, <1>8, StallKept
<1> QED BY <1>9, <1>12, <1>13, <1>14, <1>15, <1>16 DEF CoreInv

-----------------------------------------------------------------------------
(* Completing and retiring *)

\* What an instruction that executes releases: each dependent has as many
\* writers less to wait for as reg_RAW_release counts, and is freed exactly if
\* it waits for no other.
LEMMA Release ==
  ASSUME FrontTypes, RobTypes, BuffersInOrder, Ring, RegistersInv,
         NEW s \in Slots, Occupied(s), ROB[s].executed = "INFLIGHT",
         \A y \in Slots : /\ ROB'[y].reg_dependents = ROB[y].reg_dependents
                          /\ y # s => ROB'[y].executed = ROB[y].executed,
         ROB'[s].executed = "COMPLETED",
         NEW x \in Slots
  PROVE  /\ Remaining(s, x) \in Int
         /\ (ROB[x].scheduled = "no" \/ x = s) =>
              Remaining(s, x) = ROB[x].num_reg_dependent /\ x \notin Freed(s)
         /\ ROB[x].scheduled # "no" =>
              /\ Remaining(s, x) = Cardinality(Pending(x)')
              /\ (ROB[x].reg_ready \/ x \in Freed(s)) <=> (Pending(x)' = {})
         /\ x \in Freed(s) => ~ROB[x].reg_ready /\ Occupied(x)
<1> DEFINE deps == ROB[s].reg_dependents
           D == {d \in deps : d[1] = x}
           P == {p \in Pending(x) : p[1] = s}
<1>1. deps \subseteq Slots \X Registers /\ ROB[x].num_reg_dependent \in Int
  BY EntryFields
<1>2. \A d \in deps : Occupied(d[1]) /\ ROB[d[1]].scheduled # "no"
                      /\ ROB[s].id < ROB[d[1]].id
  BY DEF RegistersInv, DependentsYounger
<1>3. /\ IsFiniteSet(D) /\ Cardinality(D) \in Nat
      /\ IsFiniteSet(Pending(x)) /\ Cardinality(Pending(x)) \in Nat
      /\ (Cardinality(D) = 0 <=> D = {})
  <2>1. D \subseteq Slots \X Registers /\ Pending(x) \subseteq Slots \X Registers
    BY <1>1 DEF Pending
  <2> HIDE DEF D
  <2> QED BY <2>1, Finite, FS_Subset, FS_CardinalityType, FS_EmptySet
<1>4. Remaining(s, x) = ROB[x].num_reg_dependent - Cardinality(D)
  BY DEF Remaining
<1>5. x \in Freed(s) <=> (D # {} /\ Remaining(s, x) = 0)
  BY DEF Freed
<1>6. (ROB[x].scheduled = "no" \/ x = s) => D = {}
  <2>1. ROB[s].id \in Nat
    BY OccupiedFacts
  <2> QED BY <2>1, <1>2
<1>7. D # {} => Occupied(x) /\ ROB[x].scheduled # "no"
  BY <1>2
<1>8. P = {<<s, d[2]>> : d \in D}
  <2>1. ASSUME NEW p \in P PROVE p \in {<<s, d[2]>> : d \in D}
    <3>1. /\ p \in Slots \X Registers /\ p[1] = s
          /\ <<x, p[2]>> \in ROB[p[1]].reg_dependents
      BY <2>1 DEF Pending
    <3>2. p = <<s, p[2]>> /\ <<x, p[2]>> \in deps
      BY <3>1
    <3> DEFINE d == <<x, p[2]>>
    <3>3. d \in deps /\ d[1] = x /\ d[2] = p[2]
      BY <3>2
    <3> HIDE DEF d
    <3>4. d \in D /\ p = <<s, d[2]>>
      BY <3>2, <3>3
    <3> QED BY <3>4
  <2>2. ASSUME NEW d \in D PROVE <<s, d[2]>> \in P
    <3>1. d \in Slots \X Registers /\ d[1] = x /\ d \in deps
      BY <1>1
    <3>2. d = <<x, d[2]>> /\ d[2] \in Registers
      BY <3>1
    <3> DEFINE p == <<s, d[2]>>
    <3>3. p \in Slots \X Registers /\ p[1] = s /\ p[2] = d[2]
      BY <3>2
    <3> HIDE DEF p
    <3>4. <<x, p[2]>> \in ROB[p[1]].reg_dependents
      BY <3>1, <3>2, <3>3
    <3>5. ROB[p[1]].executed # "COMPLETED"
      BY <3>3
    <3>6. p \in P
      BY <3>3, <3>4, <3>5 DEF Pending
    <3> QED BY <3>6 DEF p
  <2> QED BY <2>1, <2>2
<1>9. IsFiniteSet(P) /\ Cardinality(P) = Cardinality(D)
  <2> DEFINE g == [d \in D |-> <<s, d[2]>>]
  <2>1. \A d, e \in D : <<s, d[2]>> = <<s, e[2]>> => d = e
    <3> SUFFICES ASSUME NEW d \in D, NEW e \in D, <<s, d[2]>> = <<s, e[2]>>
                 PROVE  d = e
      OBVIOUS
    <3>1. d \in Slots \X Registers /\ e \in Slots \X Registers /\ d[1] = x /\ e[1] = x
      BY <1>1
    <3>2. d[2] = e[2]
      OBVIOUS
    <3> QED BY <3>1, <3>2
  <2>2. g \in Bijection(D, P)
    <3> HIDE DEF D, P
    <3>1. g \in [D -> P]
      BY <1>8
    <3>2. \A d, e \in D : g[d] = g[e] => d = e
      BY <2>1
    <3>3. \A p \in P : \E d \in D : g[d] = p
      BY <1>8
    <3> QED BY <3>1, <3>2, <3>3 DEF Bijection, Injection, Surjection, IsInjective
  <2>3. ExistsBijection(D, P)
    BY <2>2 DEF ExistsBijection
  <2> HIDE DEF D, P
  <2> QED BY <2>3, <1>3, FS_Bijection
<1>10. Pending(x)' = Pending(x) \ P
  <2>1. \A p \in Slots \X Registers :
          (ROB'[p[1]].executed # "COMPLETED") <=>
          (ROB[p[1]].executed # "COMPLETED" /\ p[1] # s)
    OBVIOUS
  <2>2. \A p \in Slots \X Registers :
          ROB'[p[1]].reg_dependents = ROB[p[1]].reg_dependents
    OBVIOUS
  <2> QED BY <2>1, <2>2 DEF Pending
<1> HIDE DEF D, P, deps
<1>11. /\ IsFiniteSet(Pending(x)')
       /\ Cardinality(Pending(x)') = Cardinality(Pending(x)) - Cardinality(D)
       /\ Cardinality(Pending(x)') \in Nat
       /\ (Cardinality(Pending(x)') = 0 <=> Pending(x)' = {})
  <2>1. Pending(x) \cap P = P
    BY DEF P
  <2>2. /\ IsFiniteSet(Pending(x) \ P)
        /\ Cardinality(Pending(x) \ P) =
             Cardinality(Pending(x)) - Cardinality(Pending(x) \cap P)
    BY <1>3, FS_Difference
  <2>3. /\ Cardinality(Pending(x) \ P) \in Nat
        /\ (Cardinality(Pending(x) \ P) = 0 <=> Pending(x) \ P = {})
    BY <2>2, FS_CardinalityType, FS_EmptySet
  <2> QED BY <2>1, <2>2, <2>3, <1>9, <1>10
<1>12. D # {} => Pending(x) # {}
  <2>1. P # {} => Pending(x) # {}
    BY DEF P
  <2>2. D # {} => P # {}
    BY <1>8
  <2> QED BY <2>1, <2>2
<1>13. ROB[x].scheduled # "no" =>
         /\ ROB[x].num_reg_dependent = Cardinality(Pending(x))
         /\ ROB[x].reg_ready <=> (Pending(x) = {})
  BY DEF RegistersInv, DependencesCounted
<1>14. Remaining(s, x) \in Int
  BY <1>1, <1>3, <1>4
<1>15. (ROB[x].scheduled = "no" \/ x = s) =>
              Remaining(s, x) = ROB[x].num_reg_dependent /\ x \notin Freed(s)
  BY <1>1, <1>3, <1>4, <1>5, <1>6
<1>16. x \in Freed(s) => ~ROB[x].reg_ready /\ Occupied(x)
  BY <1>5, <1>7, <1>12, <1>13
<1>17. ASSUME ROB[x].scheduled # "no"
       PROVE  /\ Remaining(s, x) = Cardinality(Pending(x)')
              /\ (ROB[x].reg_ready \/ x \in Freed(s)) <=> (Pending(x)' = {})
  <2>1. Remaining(s, x) = Cardinality(Pending(x)')
    BY <1>4, <1>11, <1>13, <1>17
  <2>2. Pending(x)' = {} <=> Remaining(s, x) = 0
    BY <2>1, <1>11
  <2>3. Pending(x) = {} => Pending(x)' = {}
    BY <1>10
  <2>4. D = {} => (Pending(x)' = {} <=> Pending(x) = {})
    <3>1. D = {} => P = {}
      BY <1>8
    <3> QED BY <3>1, <1>10
  <2> QED BY <2>1, <2>2, <2>3, <2>4, <1>5, <1>13, <1>17
<1> QED BY <1>14, <1>15, <1>16, <1>17

\* complete_execution preserves the invariant.
LEMMA CompleteKeeps ==
  ASSUME CoreInv, NEW s \in Slots, complete_execution(s)
  PROVE  CoreInv'
<1>0. /\ FrontTypes /\ RobTypes /\ MemoryTypes /\ BuffersInOrder /\ Ring
      /\ RegistersInv /\ OneStallingBranch /\ RTEExact
  BY DEF CoreInv, RegistersInv
<1> DEFINE free == {x \in Freed(s) : ~is_memory(x)}
<1>1. /\ Occupied(s) /\ ROB[s].executed = "INFLIGHT"
      /\ RTE0' = RTE0 \o InOrder(free)
      /\ resume' = (resume \/ ROB[s].resumes = "completion")
      /\ UNCHANGED <<frontend, DECODE_BUFFER, RTE1, lsq, retired>>
  BY DEF complete_execution
<1>2. ROB' = [x \in Slots |->
       IF x = s THEN [ROB[s] EXCEPT !.executed = "COMPLETED"]
       ELSE [ROB[x] EXCEPT !.num_reg_dependent = Remaining(s, x),
                           !.reg_ready = @ \/ x \in Freed(s)]]
  BY DEF complete_execution
<1>3. ASSUME NEW x \in Slots
      PROVE  /\ ROB'[x].id = ROB[x].id /\ ROB'[x].resumes = ROB[x].resumes
             /\ ROB'[x].scheduled = ROB[x].scheduled
             /\ ROB'[x].lq_index = ROB[x].lq_index
             /\ ROB'[x].sq_index = ROB[x].sq_index
             /\ ROB'[x].reg_dependents = ROB[x].reg_dependents
             /\ ROB'[x].mem_dependents = ROB[x].mem_dependents
             /\ ROB'[x].num_mem_ops = ROB[x].num_mem_ops
             /\ x # s => /\ ROB'[x].executed = ROB[x].executed
                         /\ ROB'[x].num_reg_dependent = Remaining(s, x)
                         /\ ROB'[x].reg_ready = (ROB[x].reg_ready \/ x \in Freed(s))
             /\ x = s => /\ ROB'[x].executed = "COMPLETED"
                         /\ ROB'[x].num_reg_dependent = ROB[x].num_reg_dependent
                         /\ ROB'[x].reg_ready = ROB[x].reg_ready
  <2>1. ROB[x] \in LooseEntries
    BY <1>0, EntryFields
  <2>2. CASE x = s
    <3>1. ROB'[x] = [ROB[x] EXCEPT !.executed = "COMPLETED"]
      BY <2>2, <1>2
    <3> QED BY <3>1, <2>1, <2>2 DEF LooseEntries
  <2>3. CASE x # s
    <3>1. ROB'[x] = [ROB[x] EXCEPT !.num_reg_dependent = Remaining(s, x),
                                   !.reg_ready = @ \/ x \in Freed(s)]
      BY <2>3, <1>2
    <3> QED BY <3>1, <2>1, <2>3 DEF LooseEntries
  <2> QED BY <2>2, <2>3
<1>4. ASSUME NEW x \in Slots
      PROVE  /\ Remaining(s, x) \in Int
             /\ (ROB[x].scheduled = "no" \/ x = s) =>
                  Remaining(s, x) = ROB[x].num_reg_dependent /\ x \notin Freed(s)
             /\ ROB[x].scheduled # "no" =>
                  /\ Remaining(s, x) = Cardinality(Pending(x)')
                  /\ (ROB[x].reg_ready \/ x \in Freed(s)) <=> (Pending(x)' = {})
             /\ x \in Freed(s) => ~ROB[x].reg_ready /\ Occupied(x)
  BY <1>0, <1>1, <1>3, Release
<1>5. \A x \in Slots : /\ ROB'[x].num_reg_dependent = Remaining(s, x)
                       /\ ROB'[x].reg_ready <=> (ROB[x].reg_ready \/ x \in Freed(s))
  BY <1>3, <1>4
<1>6. ASSUME NEW x \in Slots PROVE ROB'[x] \in LooseEntries
  <2>1. ROB[x] \in LooseEntries
    BY <1>0, EntryFields
  <2>2. CASE x = s
    <3>1. ROB'[x] = [ROB[x] EXCEPT !.executed = "COMPLETED"]
      BY <2>2, <1>2
    <3> QED BY <3>1, <2>1 DEF LooseEntries, Status
  <2>3. CASE x # s
    <3> DEFINE n == Remaining(s, x)
               b == ROB[x].reg_ready \/ x \in Freed(s)
    <3>1. n \in Int /\ b \in BOOLEAN
      BY <1>4
    <3>2. ROB'[x] = [ROB[x] EXCEPT !.num_reg_dependent = n, !.reg_ready = b]
      BY <2>3, <1>2
    <3> HIDE DEF n, b
    <3> QED BY <3>1, <3>2, <2>1 DEF LooseEntries
  <2> QED BY <2>2, <2>3
<1>7. UNCHANGED <<trace, num_retired>>
  BY <1>1 DEF frontend, retired
<1>8. \A x \in Slots : /\ Instr(x)' = Instr(x) /\ (is_memory(x)' <=> is_memory(x))
                       /\ (Occupied(x)' <=> Occupied(x))
  <2>1. \A x \in Slots : Instr(x)' = Instr(x)
    BY <1>3, <1>7 DEF Instr
  <2> QED BY <2>1, <1>3 DEF is_memory, Loads, Stores, Occupied
<1>9. Freed(s) \in SUBSET Slots
  <2>1. \A d \in ROB[s].reg_dependents : d[1] \in Slots
    BY <1>0, EntryFields
  <2> QED BY <2>1 DEF Freed
<1>10. /\ free \in SUBSET Slots /\ free \in SUBSET Int /\ IsFiniteSet(free)
  <2>1. free \in SUBSET Slots
    BY <1>9
  <2>2. Slots \subseteq Int
    BY DEF Slots
  <2> HIDE DEF free
  <2> QED BY <2>1, <2>2, Finite, FS_Subset
<1> HIDE DEF free
<1>11. /\ InOrder(free) \in Seq(Slots) /\ Once(InOrder(free))
       /\ Elements(InOrder(free)) = free
  <2>1. /\ InOrder(free) \in Seq(free) /\ Once(InOrder(free))
        /\ Elements(InOrder(free)) = free
    BY <1>10, InOrderLists
  <2> QED BY <2>1, <1>10, SeqMonotonic
<1>12. RTE0 \in Seq(Slots) /\ RTE1 \in Seq(Slots) /\ RTE1' = RTE1
       /\ RTE0' \in Seq(Slots)
  <2>1. RTE0 \in Seq(Slots) /\ RTE1 \in Seq(Slots) /\ RTE1' = RTE1
    BY <1>0, <1>1 DEF RobTypes
  <2> QED BY <2>1, <1>1, <1>11, ConcatProperties
<1>13. RobTypes'
  <2>1. ROB' \in [Slots -> LooseEntries]
    BY <1>2, <1>6
  <2> QED BY <2>1, <1>12 DEF RobTypes
<1>14. DependentsYounger'
  <2> SUFFICES ASSUME NEW x \in Slots, NEW d \in ROB'[x].reg_dependents
               PROVE  /\ Occupied(d[1])' /\ ROB'[d[1]].scheduled # "no"
                      /\ ROB'[x].id < ROB'[d[1]].id
    BY DEF DependentsYounger
  <2>1. d \in ROB[x].reg_dependents
    BY <1>3
  <2>2. Occupied(d[1]) /\ ROB[d[1]].scheduled # "no" /\ ROB[x].id < ROB[d[1]].id
    BY <2>1, <1>0 DEF RegistersInv, DependentsYounger
  <2>3. d[1] \in Slots
    BY <2>1, <1>0, EntryFields
  <2> QED BY <2>2, <2>3, <1>3, <1>8
<1>15. ASSUME NEW x \in Slots, ROB[x].scheduled # "no", NEW r, Produced(x, r)
       PROVE  Produced(x, r)'
  <2>1. Occupied(x) /\ ROB[x].id \in Nat
    BY <1>15, <1>0, EmptyFacts, OccupiedFacts
  <2>2. LastWriter(ROB[x].id, r)' = LastWriter(ROB[x].id, r)
    BY <1>3, <1>7 DEF LastWriter
  <2>3. \A m \in LastWriter(ROB[x].id, r) : slot(m) \in Slots
    BY <2>1, LastWriterOlder, SlotOf
  <2> QED BY <2>2, <2>3, <1>3, <1>7, <1>15 DEF Produced, slot
<1>16. DependencesCounted'
  <2> SUFFICES ASSUME NEW x \in Slots
        PROVE /\ ROB'[x].scheduled = "no" => Idle(x)'
              /\ ROB'[x].scheduled # "no" =>
                   /\ ROB'[x].num_reg_dependent = Cardinality(Pending(x)')
                   /\ ROB'[x].reg_ready <=> (Pending(x)' = {})
                   /\ \A r \in Instr(x)'.source_registers : Produced(x, r)'
              /\ ~ROB'[x].reg_ready => NotStarted(x)'
    BY DEF DependencesCounted
  <2>1. /\ ROB[x].scheduled = "no" => Idle(x)
        /\ ROB[x].scheduled # "no" =>
                   \A r \in Instr(x).source_registers : Produced(x, r)
        /\ ~ROB[x].reg_ready => NotStarted(x)
    BY <1>0 DEF RegistersInv, DependencesCounted
  <2>2. ROB'[x].scheduled = "no" => Idle(x)'
    BY <2>1, <1>3, <1>4, <1>5 DEF Idle
  <2>3. ASSUME ROB'[x].scheduled # "no"
        PROVE  /\ ROB'[x].num_reg_dependent = Cardinality(Pending(x)')
               /\ ROB'[x].reg_ready <=> (Pending(x)' = {})
               /\ \A r \in Instr(x)'.source_registers : Produced(x, r)'
    <3>1. ROB[x].scheduled # "no"
      BY <2>3, <1>3
    <3> QED BY <3>1, <2>1, <1>4, <1>5, <1>8, <1>15
  <2>4. ASSUME ~ROB'[x].reg_ready PROVE NotStarted(x)'
    <3>1. ~ROB[x].reg_ready
      BY <2>4, <1>5
    <3>2. NotStarted(x)
      BY <3>1, <2>1
    <3>3. x # s
      BY <3>2, <1>1 DEF NotStarted
    <3> QED BY <3>2, <3>3, <1>3 DEF NotStarted
  <2> QED BY <2>2, <2>3, <2>4
<1>17. RTEExact'
  <2> DEFINE Ready(x) == /\ Occupied(x) /\ ~is_memory(x) /\ ROB[x].reg_ready
                         /\ ROB[x].executed = "no"
             E == Elements(RTE0 \o RTE1)
  <2>1. Once(RTE0 \o RTE1) /\ E = {x \in Slots : Ready(x)}
    BY <1>0 DEF RTEExact
  <2>2. ASSUME NEW x \in Slots
        PROVE  Ready(x)' <=> (Ready(x) \/ x \in free)
    <3>1. CASE x = s
      <4>1. ~Ready(x) /\ ~Ready(x)' /\ x \notin free
        BY <3>1, <1>1, <1>3, <1>4 DEF free
      <4> QED BY <4>1
    <3>2. CASE x # s
      <4>1. ~ROB[x].reg_ready => ROB[x].executed = "no"
        BY <1>0 DEF RegistersInv, DependencesCounted, NotStarted
      <4> QED BY <4>1, <3>2, <1>3, <1>4, <1>5, <1>8 DEF free
    <3> QED BY <3>1, <3>2
  <2>3. \A x \in free : ~Ready(x)
    BY <1>4, <1>10 DEF free
  <2> HIDE DEF Ready
  <2>4. /\ E = Elements(RTE0) \cup Elements(RTE1)
        /\ Once(RTE0) /\ Once(RTE1) /\ Elements(RTE0) \cap Elements(RTE1) = {}
    BY <2>1, <1>12, OnceConcat
  <2>5. free \cap Elements(RTE0) = {} /\ free \cap Elements(RTE1) = {}
    BY <2>1, <2>3, <2>4
  <2>6. /\ Once(RTE0') /\ Elements(RTE0') = Elements(RTE0) \cup free
    <3>1. Elements(RTE0) \cap Elements(InOrder(free)) = {}
      BY <2>5, <1>11
    <3> QED BY <3>1, <2>4, <1>1, <1>11, <1>12, OnceConcat
  <2>7. /\ Once(RTE0' \o RTE1)
        /\ Elements(RTE0' \o RTE1) = E \cup free
    <3>1. Elements(RTE0') \cap Elements(RTE1) = {}
      BY <2>4, <2>5, <2>6
    <3>2. /\ Once(RTE0' \o RTE1)
          /\ Elements(RTE0' \o RTE1) = Elements(RTE0') \cup Elements(RTE1)
      BY <3>1, <2>4, <2>6, <1>12, OnceConcat
    <3> QED BY <3>2, <2>4, <2>6
  <2>8. E \cup free = {x \in Slots : Ready(x)'}
    BY <2>1, <2>2, <1>10
  <2>9. Once((RTE0 \o RTE1)') /\ Elements((RTE0 \o RTE1)') = {x \in Slots : Ready(x)'}
    BY <2>7, <2>8, <1>12
  <2> QED BY <2>9 DEF RTEExact, Ready, Elements, Once
<1>18. RegistersInv'
  BY <1>14, <1>16, <1>17 DEF RegistersInv
<1>19. FrontTypes' /\ BuffersInOrder' /\ Dispatched' = Dispatched
  <2>1. resume' \in BOOLEAN /\ UNCHANGED <<frontend, DECODE_BUFFER, num_retired>>
    BY <1>0, <1>1 DEF FrontTypes, retired
  <2> QED BY <2>1, <1>0, FrontKept
<1>20. MemoryTypes'
  BY <1>0, <1>1 DEF MemoryTypes, lsq, retired
<1>21. Ring'
  BY <1>0, <1>3, <1>7, <1>19, RingProceeds
<1>22. OneStallingBranch'
  <2>1. UNCHANGED <<trace, instr_unique_id, IFETCH_BUFFER, fetch_stall, l1i,
                    DECODE_BUFFER>>
    BY <1>1 DEF frontend
  <2>2. CASE ROB[s].resumes = "completion"
    <3>1. ROB[s].id \in StallingInROB
      BY <2>2, <1>1 DEF StallingInROB
    <3>2. ROB[s].id \in Unresolved
      BY <3>1, UnresolvedParts
    <3>3. fetch_stall /\ ~resume /\ Unresolved = {instr_unique_id - 1}
      BY <3>2, <1>0 DEF OneStallingBranch
    <3>4. ROB[s].id = instr_unique_id - 1 /\ ROB[s].id \in Nat /\ ROB[s].id < Dispatched
      BY <3>2, <3>3, <1>0, <1>1, OccupiedFacts
    <3>5. Len(IFETCH_BUFFER) = 0 /\ Len(DECODE_BUFFER) = 0
      BY <3>4, <1>0, Numbers
    <3>6. Stalling(IFETCH_BUFFER) = {} /\ Stalling(DECODE_BUFFER) = {}
      <4>1. DOMAIN IFETCH_BUFFER = {} /\ DOMAIN DECODE_BUFFER = {}
        BY <3>5, <1>0, Numbers
      <4> QED BY <4>1 DEF Stalling
    <3>7. StallingInROB' = {}
      <4> SUFFICES ASSUME NEW y \in Slots, ROB'[y].resumes = "completion",
                          ROB'[y].executed # "COMPLETED"
                   PROVE  FALSE
        BY DEF StallingInROB
      <4>1. y # s /\ ROB[y].id \in StallingInROB
        BY <1>3 DEF StallingInROB
      <4>2. ROB[y].id \in Unresolved
        BY <4>1, UnresolvedParts
      <4>3. ROB[y].id = ROB[s].id
        BY <4>2, <3>3, <3>4
      <4> QED BY <4>1, <4>3, <1>0, <1>1, OccupiedFacts
    <3>8. Unresolved' = {}
      <4>1. Unresolved' = Stalling(IFETCH_BUFFER) \cup Stalling(DECODE_BUFFER)
                           \cup StallingInROB'
        BY <2>1, UnresolvedParts
      <4> QED BY <4>1, <3>6, <3>7
    <3>9. resume' /\ fetch_stall'
      BY <3>3, <2>1, <2>2, <1>1
    <3> QED BY <3>8, <3>9 DEF OneStallingBranch
  <2>3. CASE ROB[s].resumes # "completion"
    <3>1. StallingInROB' = StallingInROB
      <4>1. \A y \in Slots :
              (ROB'[y].resumes = "completion" /\ ROB'[y].executed # "COMPLETED")
              <=> (ROB[y].resumes = "completion" /\ ROB[y].executed # "COMPLETED")
        BY <2>3, <1>3
      <4>2. \A y \in Slots : ROB'[y].id = ROB[y].id
        BY <1>3
      <4> QED BY <4>1, <4>2 DEF StallingInROB
    <3>2. Unresolved' = Unresolved
      BY <3>1, <2>1, UnresolvedParts, Zenon
    <3>3. resume' = resume
      BY <2>3, <1>0, <1>1 DEF FrontTypes
    <3> QED BY <3>2, <3>3, <2>1, <1>0 DEF OneStallingBranch
  <2> QED BY <2>2, <2>3
<1> QED BY <1>13, <1>18, <1>19, <1>20, <1>21, <1>22 DEF CoreInv

\* retire_rob preserves the invariant.
LEMMA RetireKeeps ==
  ASSUME CoreInv, retire_rob
  PROVE  CoreInv'
<1> DEFINE s == slot(num_retired)
           n == num_retired
<1>0. /\ FrontTypes /\ RobTypes /\ MemoryTypes /\ BuffersInOrder /\ Ring
      /\ RegistersInv /\ OneStallingBranch /\ RTEExact
  BY DEF CoreInv, RegistersInv
<1>1. /\ Occupied(s) /\ ROB[s].executed = "COMPLETED"
      /\ \E k \in 0 .. Len(Stores(s)) : wq' = add_wq(Stores(s), k)
      /\ memory' = [a \in Addresses |->
           IF Writes(Instr(s), a) /\ a \in wq' THEN ROB[s].id ELSE memory[a]]
      /\ lost' = lost \cup
           {[id |-> ROB[s].id, address |-> a] : a \in Elements(Stores(s)) \ wq'}
      /\ SQ' = [q \in SQSlots |->
              IF q \in Elements(ROB[s].sq_index) THEN NoLSQEntry ELSE SQ[q]]
      /\ SQ_head' = (SQ_head + Len(Stores(s))) % SQ_SIZE
      /\ ROB' = [ROB EXCEPT ![s] = NoEntry]
      /\ num_retired' = n + 1
      /\ UNCHANGED <<trace, instr_unique_id, IFETCH_BUFFER, fetch_stall, l1i,
                     DECODE_BUFFER, resume, RTE0, RTE1, LQ, STA, RTL0,
                     RTS0, l1d, loaded>>
  BY DEF retire_rob, frontend
<1>2. s \in Slots /\ ROB[s].id = n /\ n < Dispatched
  BY <1>0, <1>1, OldestFacts
<1>3. n \in Nat /\ Dispatched \in Nat /\ instr_unique_id \in Nat
  BY <1>0, Numbers
<1>4. Dispatched' = Dispatched
  BY <1>1 DEF Dispatched
<1> HIDE DEF s
<1>5. ROB'[s] = NoEntry /\ \A x \in Slots : x # s => ROB'[x] = ROB[x]
  BY <1>0, <1>1, <1>2 DEF RobTypes
<1>6. /\ NoEntry.id = NONE /\ NoEntry.resumes = "never" /\ NoEntry.scheduled = "no"
      /\ NoEntry.executed = "no" /\ ~NoEntry.reg_ready
      /\ NoEntry.num_reg_dependent = 0 /\ NoEntry.num_mem_ops = 0
      /\ NoEntry.reg_dependents = {} /\ NoEntry.mem_dependents = {}
      /\ NoEntry.lq_index = <<>> /\ NoEntry.sq_index = <<>>
      /\ NoEntry \in LooseEntries
  <2>1. <<>> \in Seq(LQSlots \cup {NONE}) /\ <<>> \in Seq(SQSlots \cup {NONE})
    BY EmptySeq
  <2> QED BY <2>1 DEF NoEntry, LooseEntries, Ids, Resumes, Status, NONE
<1>7. FrontTypes'
  BY <1>0, <1>1, <1>3 DEF FrontTypes
<1>8. RobTypes'
  BY <1>0, <1>1, <1>6 DEF RobTypes
<1>9. Stores(s) \in Seq(Addresses)
  <2>1. ROB[s].id \in DOMAIN trace
    BY <1>0, <1>1, <1>2, OccupiedFacts
  <2> QED BY <2>1, <1>0, TraceFacts DEF Stores, Instr
<1>10. MemoryTypes'
  <2>1. wq' \subseteq Addresses
    <3>1. PICK k \in 0 .. Len(Stores(s)) : wq' = add_wq(Stores(s), k)
      BY <1>1
    <3>2. \A j \in 1 .. k : j \in DOMAIN Stores(s)
      BY <1>9, LenProperties
    <3>3. \A j \in 1 .. k : Stores(s)[j] \in Addresses
      BY <3>2, <1>9, ElementOfSeq
    <3> QED BY <3>1, <3>3, <1>0 DEF MemoryTypes, add_wq
  <2>2. memory' \in [Addresses -> Ids]
    BY <1>0, <1>1, <1>2, <1>3 DEF MemoryTypes, Ids
  <2>3. NoLSQEntry \in LSQEntries
    BY DEF NoLSQEntry, LSQEntries, Ids, Status
  <2>4. SQ' \in [SQSlots -> LSQEntries]
    BY <2>3, <1>0, <1>1 DEF MemoryTypes
  <2>5. SQ_head' \in SQSlots
    <3>1. SQ_head \in Nat /\ Len(Stores(s)) \in Nat /\ SQ_SIZE \in Nat \ {0}
      BY <1>0, <1>9, LenProperties, CoreAssumption DEF MemoryTypes, SQSlots
    <3>2. (SQ_head + Len(Stores(s))) % SQ_SIZE \in 0 .. SQ_SIZE - 1
      BY <3>1
    <3> QED BY <3>2, <1>1 DEF SQSlots
  <2>6. lost' \subseteq [id : Nat, address : Addresses]
    <3>1. \A a \in Elements(Stores(s)) : a \in Addresses
      BY <1>9, ElementOfSeq DEF Elements
    <3>2. lost \subseteq [id : Nat, address : Addresses] /\ ROB[s].id \in Nat
      BY <1>0, <1>2, <1>3 DEF MemoryTypes
    <3> QED BY <3>1, <3>2, <1>1
  <2> QED BY <2>1, <2>2, <2>4, <2>5, <2>6, <1>0, <1>1 DEF MemoryTypes
<1>11. BuffersInOrder'
  <2>1. n + 1 <= Dispatched
    BY <1>2, <1>3
  <2> QED BY <2>1, <1>0, <1>1, <1>4 DEF BuffersInOrder
<1>12. Ring'
  <2>1. ASSUME NEW k \in n + 1 .. Dispatched - 1
        PROVE  ROB'[slot(k)].id = k
    <3>1. k \in n .. Dispatched - 1 /\ k \in Nat /\ k # n
      BY <1>3
    <3>2. ROB[slot(k)].id = k /\ slot(k) \in Slots
      BY <3>1, <1>0, SlotOf DEF Ring
    <3>3. slot(k) # s
      BY <3>1, <3>2, <1>2
    <3> QED BY <3>2, <3>3, <1>5
  <2>2. ASSUME NEW x \in Slots, Occupied(x)'
        PROVE  /\ ROB'[x].id \in n + 1 .. Dispatched - 1
               /\ slot(ROB'[x].id) = x
               /\ DOMAIN ROB'[x].lq_index = DOMAIN Loads(x)'
               /\ DOMAIN ROB'[x].sq_index = DOMAIN Stores(x)'
    <3>1. x # s
      BY <2>2, <1>5, <1>6 DEF Occupied
    <3>2. ROB'[x] = ROB[x] /\ Instr(x)' = Instr(x) /\ Occupied(x)
      BY <2>2, <3>1, <1>1, <1>5 DEF Occupied, Instr
    <3>3. ROB[x].id # n
      BY <3>1, <3>2, <1>0, <1>1, <1>2, OccupiedFacts
    <3>4. /\ ROB[x].id \in n .. Dispatched - 1
          /\ slot(ROB[x].id) = x
          /\ DOMAIN ROB[x].lq_index = DOMAIN Loads(x)
          /\ DOMAIN ROB[x].sq_index = DOMAIN Stores(x)
      BY <3>2, <1>0 DEF Ring
    <3>5. ROB[x].id \in n + 1 .. Dispatched - 1
      BY <3>3, <3>4, <1>3
    <3> QED BY <3>2, <3>4, <3>5 DEF Loads, Stores
  <2>3. ASSUME NEW x \in Slots, ~Occupied(x)'
        PROVE  /\ ROB'[x].resumes = "never" /\ ROB'[x].scheduled = "no"
               /\ ROB'[x].lq_index = <<>> /\ ROB'[x].sq_index = <<>>
               /\ ROB'[x].reg_dependents = {}
    <3>1. CASE x = s
      BY <3>1, <1>5, <1>6
    <3>2. CASE x # s
      <4>1. ROB'[x] = ROB[x] /\ ~Occupied(x)
        BY <2>3, <3>2, <1>5 DEF Occupied
      <4> QED BY <4>1, <1>0 DEF Ring
    <3> QED BY <3>1, <3>2
  <2> QED BY <2>1, <2>2, <2>3, <1>1, <1>4 DEF Ring, slot
<1>13. DependentsYounger'
  <2> SUFFICES ASSUME NEW x \in Slots, NEW d \in ROB'[x].reg_dependents
               PROVE  /\ Occupied(d[1])' /\ ROB'[d[1]].scheduled # "no"
                      /\ ROB'[x].id < ROB'[d[1]].id
    BY DEF DependentsYounger
  <2>1. x # s /\ ROB'[x] = ROB[x] /\ d \in ROB[x].reg_dependents
    BY <1>5, <1>6
  <2>2. Occupied(d[1]) /\ ROB[d[1]].scheduled # "no" /\ ROB[x].id < ROB[d[1]].id
    BY <2>1, <1>0 DEF RegistersInv, DependentsYounger
  <2>3. d[1] \in Slots
    BY <2>1, <1>0, EntryFields
  <2>4. Occupied(x)
    BY <2>1, <1>0 DEF Ring
  <2>5. n <= ROB[x].id /\ ROB[x].id \in Nat
    BY <2>4, <1>0, OccupiedFacts
  <2>6. d[1] # s
    BY <2>2, <2>5, <1>2, <1>3
  <2> QED BY <2>1, <2>2, <2>3, <2>6, <1>5 DEF Occupied
<1>14. ASSUME NEW x \in Slots PROVE Pending(x)' = Pending(x)
  <2>1. \A y \in Slots : \A r :
          (ROB'[y].executed # "COMPLETED" /\ <<x, r>> \in ROB'[y].reg_dependents)
          <=> (ROB[y].executed # "COMPLETED" /\ <<x, r>> \in ROB[y].reg_dependents)
    BY <1>1, <1>5, <1>6
  <2> QED BY <2>1 DEF Pending
<1>15. \A x \in Slots : x # s => Instr(x)' = Instr(x)
  BY <1>1, <1>5 DEF Instr
<1>16. ASSUME NEW x \in Slots, x # s, ROB[x].scheduled # "no", NEW r, Produced(x, r)
       PROVE  Produced(x, r)'
  <2>1. Occupied(x) /\ ROB[x].id \in Nat
        /\ \A m \in n .. ROB[x].id : slot(m) \in Slots /\ ROB[slot(m)].id = m
    BY <1>16, <1>0, EmptyFacts, OccupiedFacts
  <2>2. LastWriter(ROB[x].id, r)' = LastWriter(ROB[x].id, r)
    BY <1>1, <1>5, <1>16 DEF LastWriter
  <2>3. ASSUME NEW m \in LastWriter(ROB[x].id, r), ~(m < n + 1)
        PROVE  slot(m) \in Slots /\ slot(m) # s /\ ~(m < n)
    <3>1. m \in Nat /\ m < ROB[x].id
      BY <2>1, LastWriterOlder
    <3>2. m \in n .. ROB[x].id /\ m # n /\ ~(m < n)
      BY <3>1, <2>1, <2>3, <1>3
    <3> QED BY <3>2, <2>1, <1>2
  <2>4. ASSUME NEW m \in LastWriter(ROB[x].id, r)
        PROVE  \/ m < n + 1
               \/ ROB'[slot(m)].executed = "COMPLETED"
               \/ <<x, r>> \in ROB'[slot(m)].reg_dependents
    <3>1. CASE ~(m < n + 1)
      <4>1. /\ slot(m) \in Slots /\ slot(m) # s /\ ~(m < n)
        BY <3>1, <2>3
      <4>2. \/ ROB[slot(m)].executed = "COMPLETED"
            \/ <<x, r>> \in ROB[slot(m)].reg_dependents
        BY <4>1, <1>16 DEF Produced
      <4> QED BY <4>1, <4>2, <1>5
    <3> QED BY <3>1
  <2> QED BY <2>2, <2>4, <1>1, <1>5, <1>16 DEF Produced, slot
<1>17. DependencesCounted'
  <2> SUFFICES ASSUME NEW x \in Slots
        PROVE /\ ROB'[x].scheduled = "no" => Idle(x)'
              /\ ROB'[x].scheduled # "no" =>
                   /\ ROB'[x].num_reg_dependent = Cardinality(Pending(x)')
                   /\ ROB'[x].reg_ready <=> (Pending(x)' = {})
                   /\ \A r \in Instr(x)'.source_registers : Produced(x, r)'
              /\ ~ROB'[x].reg_ready => NotStarted(x)'
    BY DEF DependencesCounted
  <2>1. CASE x = s
    <3>1. Idle(x)'
      BY <2>1, <1>5, <1>6 DEF Idle
    <3>2. DOMAIN ROB'[x].lq_index = {} /\ DOMAIN ROB'[x].sq_index = {}
      BY <2>1, <1>5, <1>6
    <3>3. NotStarted(x)'
      BY <2>1, <3>2, <1>5, <1>6 DEF NotStarted
    <3> QED BY <2>1, <3>1, <3>3, <1>5, <1>6
  <2>2. CASE x # s
    <3>1. /\ ROB[x].scheduled = "no" => Idle(x)
          /\ ROB[x].scheduled # "no" =>
                   /\ ROB[x].num_reg_dependent = Cardinality(Pending(x))
                   /\ ROB[x].reg_ready <=> (Pending(x) = {})
                   /\ \A r \in Instr(x).source_registers : Produced(x, r)
          /\ ~ROB[x].reg_ready => NotStarted(x)
      BY <1>0 DEF RegistersInv, DependencesCounted
    <3>2. ROB'[x] = ROB[x] /\ Pending(x)' = Pending(x) /\ Instr(x)' = Instr(x)
      BY <2>2, <1>5, <1>14, <1>15
    <3> QED BY <3>1, <3>2, <2>2, <1>16 DEF Idle, NotStarted
  <2> QED BY <2>1, <2>2
<1>18. RTEExact'
  <2>1. ASSUME NEW x \in Slots
        PROVE
          (Occupied(x) /\ ~is_memory(x) /\ ROB[x].reg_ready /\ ROB[x].executed = "no")
          <=> (Occupied(x) /\ ~is_memory(x) /\ ROB[x].reg_ready
               /\ ROB[x].executed = "no")'
    <3>1. CASE x = s
      BY <3>1, <1>1, <1>5, <1>6
    <3>2. CASE x # s
      <4>1. ROB'[x] = ROB[x] /\ Instr(x)' = Instr(x)
        BY <3>2, <1>5, <1>15
      <4> QED BY <4>1 DEF Occupied, is_memory, Loads, Stores
    <3> QED BY <3>1, <3>2
  <2> QED BY <2>1, <1>0, <1>1 DEF RTEExact
<1>19. OneStallingBranch'
  <2>1. StallingInROB' = StallingInROB
    <3>1. \A y \in Slots :
            (ROB'[y].resumes = "completion" /\ ROB'[y].executed # "COMPLETED")
            <=> (ROB[y].resumes = "completion" /\ ROB[y].executed # "COMPLETED")
      BY <1>1, <1>5, <1>6
    <3>2. \A y \in Slots : ROB[y].resumes = "completion" /\ ROB[y].executed # "COMPLETED"
            => ROB'[y].id = ROB[y].id
      BY <1>1, <1>5
    <3> QED BY <3>1, <3>2 DEF StallingInROB
  <2>2. Unresolved' = Unresolved
    BY <2>1, <1>1, UnresolvedParts, Zenon
  <2> QED BY <2>2, <1>0, <1>1 DEF OneStallingBranch
<1> QED BY <1>7, <1>8, <1>10, <1>11, <1>12, <1>13, <1>17, <1>18, <1>19
        DEF CoreInv, RegistersInv

=============================================================================
