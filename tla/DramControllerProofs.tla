------------------------ MODULE DramControllerProofs ------------------------
(***************************************************************************)
(* Proofs about DramController for every size of its queues, number of     *)
(* banks, timing and watermark.  The inductive invariant ChannelInv is     *)
(* kept by each function that operate() is composed of, so the proof of a  *)
(* step follows the order in which operate() applies them.                 *)
(***************************************************************************)
EXTENDS DramController, FiniteSetTheorems, WellFoundedInduction, TLAPS

-----------------------------------------------------------------------------
(* Choosing entries *)

LEMMA LeastNatural ==
  ASSUME NEW E, E \subseteq Nat, E # {}
  PROVE  \E m \in E : \A n \in E : m <= n
<1>1. PICK m \in E : \A n \in E : ~ (<<n, m>> \in OpToRel(<, Nat))
  BY NatLessThanWellFounded, WFMin, Zenon
<1>2. \A n \in E : ~(n < m)
  <2>1. \A n \in E : <<n, m>> \in Nat \X Nat
    BY <1>1
  <2>2. QED
    BY <1>1, <2>1 DEF OpToRel
<1> QED BY <1>2

\* The scans of schedule, update_schedule_cycle and update_process_cycle end
\* on the first entry with the least event_cycle of the set they look at.
LEMMA OldestFirst ==
  ASSUME NEW q, NEW S, S \subseteq Nat, S # {},
         \A i \in S : q.entry[i].event_cycle \in Nat
  PROVE  /\ Oldest(q, S) \in S
         /\ \A j \in S :
              \/ q.entry[Oldest(q, S)].event_cycle < q.entry[j].event_cycle
              \/ /\ q.entry[Oldest(q, S)].event_cycle = q.entry[j].event_cycle
                 /\ Oldest(q, S) <= j
<1> DEFINE cycle(i) == q.entry[i].event_cycle
<1>1. PICK m \in {cycle(i) : i \in S} : \A n \in {cycle(i) : i \in S} : m <= n
  <2>1. {cycle(i) : i \in S} \subseteq Nat /\ {cycle(i) : i \in S} # {}
    OBVIOUS
  <2>2. QED
    BY <2>1, LeastNatural
<1>2. \A j \in S : m <= cycle(j)
  BY <1>1
<1>3. PICK i \in {j \in S : cycle(j) = m} :
               \A j \in {x \in S : cycle(x) = m} : i <= j
  <2>1. {j \in S : cycle(j) = m} \subseteq Nat /\ {j \in S : cycle(j) = m} # {}
    BY <1>1
  <2>2. QED
    BY <2>1, LeastNatural
<1>4. i \in S /\ \A j \in S : \/ cycle(i) < cycle(j)
                              \/ cycle(i) = cycle(j) /\ i <= j
  <2>1. \A j \in S : cycle(j) \in Nat
    OBVIOUS
  <2>2. m \in Nat
    BY <1>1
  <2>3. QED
    BY <1>2, <1>3, <2>1, <2>2
<1> QED BY <1>4, Zenon DEF Oldest

LEMMA OldestExists ==
  ASSUME NEW q, NEW S, S \subseteq Nat, S # {},
         \A i \in S : q.entry[i].event_cycle \in Nat
  PROVE  /\ Oldest(q, S) \in S
         /\ \A j \in S :
              q.entry[Oldest(q, S)].event_cycle <= q.entry[j].event_cycle
<1> DEFINE cycle(i) == q.entry[i].event_cycle
<1>1. /\ Oldest(q, S) \in S
      /\ \A j \in S : \/ cycle(Oldest(q, S)) < cycle(j)
                      \/ cycle(Oldest(q, S)) = cycle(j) /\ Oldest(q, S) <= j
  BY OldestFirst, Zenon
<1>2. ASSUME NEW j \in S
      PROVE  cycle(Oldest(q, S)) <= cycle(j)
  <2>1. cycle(Oldest(q, S)) \in Nat /\ cycle(j) \in Nat
    BY <1>1
  <2>2. \/ cycle(Oldest(q, S)) < cycle(j)
        \/ cycle(Oldest(q, S)) = cycle(j) /\ Oldest(q, S) <= j
    BY <1>1, Zenon
  <2> HIDE DEF cycle
  <2>3. QED
    BY <2>1, <2>2
<1> QED BY <1>1, <1>2

\* They depend on the event_cycles only, and end on one entry.
LEMMA OldestSame ==
  ASSUME NEW q, NEW r, NEW S, S \subseteq Nat, S # {},
         \A i \in S : q.entry[i].event_cycle \in Nat,
         \A i \in S : r.entry[i].event_cycle = q.entry[i].event_cycle
  PROVE  Oldest(r, S) = Oldest(q, S)
<1> DEFINE x == Oldest(q, S)
           y == Oldest(r, S)
           cycle(i) == q.entry[i].event_cycle
<1>1. x \in S /\ \A j \in S : cycle(x) < cycle(j) \/ (cycle(x) = cycle(j) /\ x <= j)
  BY OldestFirst, Zenon
<1>2. \A i \in S : r.entry[i].event_cycle \in Nat
  OBVIOUS
<1>3. /\ y \in S
      /\ \A j \in S : \/ r.entry[y].event_cycle < r.entry[j].event_cycle
                      \/ r.entry[y].event_cycle = r.entry[j].event_cycle /\ y <= j
  BY <1>2, OldestFirst, Zenon
<1> HIDE DEF x, y
<1>4. cycle(y) < cycle(x) \/ (cycle(y) = cycle(x) /\ y <= x)
  BY <1>1, <1>3
<1>5. cycle(x) < cycle(y) \/ (cycle(x) = cycle(y) /\ x <= y)
  BY <1>1, <1>3
<1>6. x \in Nat /\ y \in Nat /\ cycle(x) \in Nat /\ cycle(y) \in Nat
  BY <1>1, <1>3
<1> HIDE DEF cycle
<1>7. x = y
  BY <1>4, <1>5, <1>6
<1> QED BY <1>7 DEF x, y

LEMMA FirstExists ==
  ASSUME NEW S, S \subseteq Nat, S # {}
  PROVE  FirstOf(S) \in S
<1>1. PICK m \in S : \A n \in S : m <= n
  BY LeastNatural
<1> QED BY <1>1, Zenon DEF FirstOf

-----------------------------------------------------------------------------
(* The cached indices *)

\* A process index that will be used points at a request in service.
ProcessIndexOK(q) ==
  q.next_process_cycle < UINT64_MAX => q.next_process_index \in InService(q)

\* What both update functions leave alone.
SameEntries(r, q) == r.entry = q.entry /\ r.occupancy = q.occupancy

LEMMA SlotsNat ==
  ASSUME NEW k \in QueueNames, NEW q \in Queue(k)
  PROVE  /\ DOMAIN q.entry = Slots(k) /\ Slots(k) \subseteq Nat
         /\ q.SIZE = SIZE(k) /\ SIZE(k) \in Nat \ {0}
         /\ \A i \in Slots(k) : q.entry[i] \in Packet
BY DramAssumption DEF QueueNames, Queue, Slots, SIZE

LEMMA ScheduleUpdate ==
  ASSUME NEW k \in QueueNames, NEW q \in Queue(k)
  PROVE  LET r == update_schedule_cycle(q) IN
         /\ r \in Queue(k)
         /\ SameEntries(r, q)
         /\ r.next_process_index = q.next_process_index
         /\ r.next_process_cycle = q.next_process_cycle
<1> DEFINE S == Unscheduled(q)
<1>1. /\ S \subseteq Slots(k) /\ S \subseteq Nat
      /\ \A i \in S : q.entry[i].event_cycle \in Nat
  BY SlotsNat DEF Unscheduled, Timed, Live, Packet
<1>2. CASE S = {}
  BY <1>2, SlotsNat, DramAssumption
  DEF update_schedule_cycle, Queue, SameEntries
<1>3. CASE S # {}
  <2>1. Oldest(q, S) \in S
    BY <1>1, <1>3, OldestExists
  <2>2. Oldest(q, S) \in Nat /\ q.entry[Oldest(q, S)].event_cycle \in Nat
    BY <1>1, <2>1
  <2>3. QED
    BY <1>3, <2>2 DEF update_schedule_cycle, Queue, SameEntries
<1> QED BY <1>2, <1>3

LEMMA ProcessUpdate ==
  ASSUME NEW k \in QueueNames, NEW q \in Queue(k)
  PROVE  LET r == update_process_cycle(q) IN
         /\ r \in Queue(k)
         /\ SameEntries(r, q)
         /\ ProcessIndexOK(r)
<1> DEFINE S == Timed(q, InService(q))
<1>1. /\ S \subseteq Slots(k) /\ S \subseteq Nat /\ S \subseteq InService(q)
      /\ \A i \in S : q.entry[i].event_cycle \in Nat
  BY SlotsNat DEF InService, Timed, Packet
<1>2. CASE S = {}
  <2>1. update_process_cycle(q) = [q EXCEPT !.next_process_index = q.SIZE,
                                            !.next_process_cycle = UINT64_MAX]
    BY <1>2, Zenon DEF update_process_cycle
  <2>2. update_process_cycle(q) \in Queue(k)
    BY <2>1, SlotsNat, DramAssumption DEF Queue
  <2>3. SameEntries(update_process_cycle(q), q)
    BY <2>1 DEF Queue, SameEntries
  <2>4. ProcessIndexOK(update_process_cycle(q))
    <3>1. update_process_cycle(q).next_process_cycle = UINT64_MAX
      BY <2>1 DEF Queue
    <3>2. QED
      BY <3>1, DramAssumption DEF ProcessIndexOK
  <2> QED BY <2>2, <2>3, <2>4, Zenon
<1>3. CASE S # {}
  <2>1. Oldest(q, S) \in S
    BY <1>1, <1>3, OldestExists
  <2>2. Oldest(q, S) \in Nat /\ q.entry[Oldest(q, S)].event_cycle \in Nat
    BY <1>1, <2>1
  <2>3. update_process_cycle(q).entry = q.entry
    BY <1>3, <2>2 DEF update_process_cycle, Queue
  <2>4. InService(update_process_cycle(q)) = InService(q)
    BY <2>3 DEF InService
  <2>5. update_process_cycle(q).next_process_index = Oldest(q, S)
    BY <1>3 DEF update_process_cycle, Queue
  <2>6. ProcessIndexOK(update_process_cycle(q))
    BY <1>1, <2>1, <2>4, <2>5 DEF ProcessIndexOK
  <2>7. update_process_cycle(q) \in Queue(k)
    BY <1>3, <2>2 DEF update_process_cycle, Queue
  <2>8. SameEntries(update_process_cycle(q), q)
    BY <1>3, <2>2 DEF update_process_cycle, Queue, SameEntries
  <2> QED BY <2>6, <2>7, <2>8, Zenon
<1> QED BY <1>2, <1>3

LEMMA BothUpdates ==
  ASSUME NEW k \in QueueNames, NEW q \in Queue(k)
  PROVE  /\ update_cycles(q) \in Queue(k)
         /\ SameEntries(update_cycles(q), q)
         /\ ProcessIndexOK(update_cycles(q))
<1>1. /\ update_schedule_cycle(q) \in Queue(k)
      /\ SameEntries(update_schedule_cycle(q), q)
  BY ScheduleUpdate
<1>2. /\ update_cycles(q) \in Queue(k)
      /\ SameEntries(update_cycles(q), update_schedule_cycle(q))
      /\ ProcessIndexOK(update_cycles(q))
  BY <1>1, ProcessUpdate DEF update_cycles
<1> QED BY <1>1, <1>2, Zenon DEF SameEntries

-----------------------------------------------------------------------------
(* The invariant *)

\* One queue on its own: its occupancy is exact, no block is in two slots
\* and only slots in use are in service.
QueueInv(k, q) ==
  /\ q \in Queue(k)
  /\ ProcessIndexOK(q)
  /\ q.occupancy = Cardinality(Live(q))
  /\ \A i, j \in Live(q) : q.entry[i].address = q.entry[j].address => i = j
  /\ InService(q) \subseteq Live(q)

ChannelInv(c) ==
  /\ ChannelOK(c)
  /\ \A k \in QueueNames : QueueInv(k, c.queue[k])
  /\ BanksAgree(c)
  /\ CountersAgree(c)

SameBlocks(r, q) ==
  /\ DOMAIN r.entry = DOMAIN q.entry
  /\ \A i \in DOMAIN q.entry : r.entry[i].address = q.entry[i].address

LEMMA LiveFinite ==
  ASSUME NEW k \in QueueNames, NEW q \in Queue(k)
  PROVE  /\ Live(q) \subseteq Slots(k) /\ InService(q) \subseteq Slots(k)
         /\ \A S \in SUBSET Slots(k) : IsFiniteSet(S)
<1>1. Live(q) \subseteq Slots(k) /\ InService(q) \subseteq Slots(k)
  BY SlotsNat DEF Live, InService
<1>2. IsFiniteSet(Slots(k))
  BY FS_Interval, SlotsNat DEF Slots
<1> QED BY <1>1, <1>2, FS_Subset

LEMMA BankInRange ==
  ASSUME NEW a \in Addrs \cup {0}
  PROVE  dram_get_bank(a) \in Banks /\ dram_get_row(a) \in Rows
<1>1. a \in Nat
  BY DramAssumption
<1>2. \A x \in Nat, n \in Nat \ {0} : x % n \in 0 .. n - 1
  OBVIOUS
<1>3. \A x, y \in Nat \ {0} : x * y \in Nat \ {0}
  OBVIOUS
<1>4. \A x \in Nat, n \in Nat \ {0} : x \div n \in Nat
  OBVIOUS
<1>5. dram_get_bank(a) \in Banks
  BY <1>1, <1>2, DramAssumption DEF dram_get_bank, Banks
<1>6. DRAM_BANKS * DRAM_COLUMNS \in Nat \ {0}
  BY <1>3, DramAssumption
<1>7. a \div (DRAM_BANKS * DRAM_COLUMNS) \in Nat
  BY <1>1, <1>4, <1>6
<1>8. dram_get_row(a) \in Rows
  BY <1>2, <1>7, DramAssumption DEF dram_get_row, Rows
<1> QED BY <1>5, <1>8

LEMMA EntryBank ==
  ASSUME NEW k \in QueueNames, NEW q \in Queue(k), NEW i \in Slots(k)
  PROVE  BankOf(q, i) \in Banks /\ RowOf(q, i) \in Rows
BY SlotsNat, BankInRange DEF Packet, BankOf, RowOf

LEMMA SameBlocksFacts ==
  ASSUME NEW k \in QueueNames, NEW q \in Queue(k), NEW r \in Queue(k),
         SameBlocks(r, q)
  PROVE  /\ Live(r) = Live(q)
         /\ Holds(r) = Holds(q)
         /\ \A i \in Slots(k) : BankOf(r, i) = BankOf(q, i)
<1>1. Live(r) = Live(q)
  BY DEF SameBlocks, Live
<1>2. Holds(r) = Holds(q)
  BY <1>1, SlotsNat, LiveFinite DEF SameBlocks, Holds
<1>3. \A i \in Slots(k) : BankOf(r, i) = BankOf(q, i)
  BY SlotsNat DEF SameBlocks, BankOf
<1> QED BY <1>1, <1>2, <1>3

-----------------------------------------------------------------------------
(* The operations on one queue *)

\* The update functions keep a queue's invariant: they only cache.
LEMMA UpdatesKeepQueue ==
  ASSUME NEW k \in QueueNames, NEW q \in Queue(k), NEW r \in Queue(k),
         SameEntries(r, q), ProcessIndexOK(r),
         q.occupancy = Cardinality(Live(q)),
         \A i, j \in Live(q) : q.entry[i].address = q.entry[j].address => i = j,
         InService(q) \subseteq Live(q)
  PROVE  /\ QueueInv(k, r)
         /\ InService(r) = InService(q) /\ Live(r) = Live(q)
         /\ SameBlocks(r, q)
<1>1. r.entry = q.entry /\ r.occupancy = q.occupancy
  BY DEF SameEntries
<1>2. InService(r) = InService(q) /\ Live(r) = Live(q)
  BY <1>1, Zenon DEF InService, Live
<1>3. SameBlocks(r, q)
  BY <1>1 DEF SameBlocks
<1>4. QueueInv(k, r)
  BY <1>1, <1>2 DEF QueueInv
<1> QED BY <1>2, <1>3, <1>4

\* What the operations make of the entries, before they update the indices.
LEMMA WithdrawEntries ==
  ASSUME NEW k \in QueueNames, NEW q \in Queue(k), now \in Nat
  PROVE  LET w == Withdraw(q) IN
         /\ w \in Queue(k) /\ w.occupancy = q.occupancy
         /\ \A i \in Slots(k) : /\ w.entry[i].scheduled = FALSE
                               /\ w.entry[i].address = q.entry[i].address
<1> DEFINE w == Withdraw(q)
<1>1. DOMAIN q.entry = Slots(k)
  BY SlotsNat
<1>2. w.entry = [i \in Slots(k) |-> IF i \in InService(q)
                  THEN [q.entry[i] EXCEPT !.scheduled = FALSE,
                                          !.event_cycle = now]
                  ELSE q.entry[i]]
  BY <1>1 DEF Withdraw, Queue
<1>3. \A i \in Slots(k) : /\ w.entry[i] \in Packet
                          /\ w.entry[i].scheduled = FALSE
                          /\ w.entry[i].address = q.entry[i].address
  <2> TAKE i \in Slots(k)
  <2>1. q.entry[i] \in Packet
    BY SlotsNat
  <2>2. CASE i \in InService(q)
    BY <1>2, <2>1, <2>2 DEF Packet
  <2>3. CASE i \notin InService(q)
    BY <1>1, <1>2, <2>1, <2>3 DEF Packet, InService
  <2> QED BY <2>2, <2>3
<1>4. w.entry \in [Slots(k) -> Packet]
  BY <1>2, <1>3
<1>5. w \in Queue(k) /\ w.occupancy = q.occupancy
  BY <1>1, <1>2, <1>4 DEF Withdraw, Queue
<1> QED BY <1>3, <1>5

Claimed(q, i, ready) ==
  [q EXCEPT !.entry[i].scheduled = TRUE, !.entry[i].event_cycle = ready]

LEMMA ClaimEntries ==
  ASSUME NEW k \in QueueNames, NEW q \in Queue(k), NEW i \in Slots(k),
         NEW ready \in Nat
  PROVE  LET w == Claimed(q, i, ready) IN
         /\ w \in Queue(k) /\ w.occupancy = q.occupancy
         /\ \A j \in Slots(k) :
              /\ w.entry[j].scheduled <=> j = i \/ q.entry[j].scheduled
              /\ w.entry[j].address = q.entry[j].address
<1> DEFINE w == Claimed(q, i, ready)
<1>1. DOMAIN q.entry = Slots(k)
  BY SlotsNat
<1>2. w.entry = [q.entry EXCEPT ![i] = [@ EXCEPT !.scheduled = TRUE,
                                                 !.event_cycle = ready]]
  BY <1>1 DEF Claimed, Queue, Packet
<1>3. \A j \in Slots(k) :
        /\ w.entry[j] \in Packet
        /\ w.entry[j].scheduled <=> j = i \/ q.entry[j].scheduled
        /\ w.entry[j].address = q.entry[j].address
  <2> TAKE j \in Slots(k)
  <2>1. q.entry[j] \in Packet /\ j \in DOMAIN q.entry
    BY <1>1, SlotsNat
  <2>2. CASE j = i
    <3>1. w.entry[j] = [q.entry[j] EXCEPT !.scheduled = TRUE,
                                          !.event_cycle = ready]
      BY <1>2, <2>1, <2>2
    <3> HIDE DEF w
    <3>2. QED
      BY <2>1, <2>2, <3>1 DEF Packet
  <2>3. CASE j # i
    BY <1>2, <2>1, <2>3
  <2> QED BY <2>2, <2>3
<1>4. w.entry \in [Slots(k) -> Packet]
  BY <1>1, <1>2, <1>3 DEF Queue
<1>5. w \in Queue(k) /\ w.occupancy = q.occupancy
  BY <1>1, <1>4 DEF Claimed, Queue
<1> QED BY <1>3, <1>5

LEMMA RemoveEntries ==
  ASSUME NEW k \in QueueNames, NEW q, QueueInv(k, q), NEW i \in Live(q)
  PROVE  LET w == remove_queue(q, i) IN
         /\ w \in Queue(k) /\ i \in Slots(k) /\ w.entry[i] = EmptyPacket
         /\ \A j \in Slots(k) \ {i} : w.entry[j] = q.entry[j]
         /\ Live(w) = Live(q) \ {i} /\ InService(w) = InService(q) \ {i}
         /\ w.occupancy = Cardinality(Live(w))
         /\ w.next_schedule_index = q.next_schedule_index
         /\ w.next_schedule_cycle = q.next_schedule_cycle
<1> DEFINE w == remove_queue(q, i)
<1>1. /\ q \in Queue(k) /\ DOMAIN q.entry = Slots(k) /\ i \in Slots(k)
      /\ EmptyPacket \in Packet
  BY SlotsNat, LiveFinite, DramAssumption DEF QueueInv, EmptyPacket, Packet
<1>2. /\ w.entry = [q.entry EXCEPT ![i] = EmptyPacket]
      /\ w.next_schedule_index = q.next_schedule_index
      /\ w.next_schedule_cycle = q.next_schedule_cycle
  BY <1>1 DEF remove_queue, Queue
<1>3. /\ w.entry \in [Slots(k) -> Packet] /\ DOMAIN w.entry = Slots(k)
      /\ w.entry[i] = EmptyPacket
      /\ \A j \in Slots(k) \ {i} : w.entry[j] = q.entry[j]
  BY <1>1, <1>2 DEF Queue
<1>4. Live(w) = Live(q) \ {i} /\ InService(w) = InService(q) \ {i}
  BY <1>1, <1>3 DEF Live, InService, EmptyPacket
<1>5. Cardinality(Live(w)) = q.occupancy - 1 /\ Cardinality(Live(w)) \in Nat
  <2>1. IsFiniteSet(Live(q)) /\ IsFiniteSet(Live(w))
    BY <1>1, <1>4, LiveFinite
  <2>2. q.occupancy = Cardinality(Live(q))
    BY DEF QueueInv
  <2>3. QED
    BY <1>4, <2>1, <2>2, FS_RemoveElement, FS_CardinalityType
<1>6. w.occupancy = Cardinality(Live(w)) /\ w \in Queue(k)
  BY <1>1, <1>3, <1>5 DEF remove_queue, Queue
<1> QED BY <1>1, <1>2, <1>3, <1>4, <1>6

LEMMA InsertEntries ==
  ASSUME NEW k \in QueueNames, NEW q, QueueInv(k, q), q.occupancy # SIZE(k),
         NEW p \in Packet
  PROVE  \E e \in Slots(k) \ Live(q) : \E w \in Queue(k) :
           /\ Insert(q, p) = update_schedule_cycle(w)
           /\ w.entry[e] = p
           /\ \A j \in Slots(k) \ {e} : w.entry[j] = q.entry[j]
           /\ w.occupancy = q.occupancy + 1
           /\ w.next_process_index = q.next_process_index
           /\ w.next_process_cycle = q.next_process_cycle
<1> DEFINE empty == check_dram_queue(q, 0)
           e == FirstOf(empty)
           w == [q EXCEPT !.entry[e] = p, !.occupancy = @ + 1]
<1>1. /\ q \in Queue(k) /\ DOMAIN q.entry = Slots(k) /\ Slots(k) \subseteq Nat
      /\ empty = Slots(k) \ Live(q)
  BY SlotsNat DEF QueueInv, check_dram_queue, Live
<1>2. empty # {}
  <2>1. SUFFICES ASSUME empty = {}
                 PROVE  FALSE
    OBVIOUS
  <2>2. Live(q) = Slots(k)
    BY <1>1, <2>1, LiveFinite
  <2>3. Cardinality(Slots(k)) = SIZE(k)
    BY FS_Interval, <1>1, SlotsNat DEF Slots
  <2>4. QED
    BY <2>2, <2>3 DEF QueueInv
<1>3. e \in Slots(k) \ Live(q)
  BY <1>1, <1>2, FirstExists
<1>4. /\ w.entry = [q.entry EXCEPT ![e] = p]
      /\ w.next_process_index = q.next_process_index
      /\ w.next_process_cycle = q.next_process_cycle
  BY <1>1 DEF Queue
<1>5. /\ w.entry \in [Slots(k) -> Packet] /\ w.entry[e] = p
      /\ \A j \in Slots(k) \ {e} : w.entry[j] = q.entry[j]
  BY <1>1, <1>3, <1>4 DEF Queue
<1>6. w.occupancy = q.occupancy + 1 /\ q.occupancy + 1 \in Nat
  BY <1>1 DEF Queue
<1>7. w \in Queue(k)
  <2>1. \A f \in [Slots(k) -> Packet], n \in Nat :
          [q EXCEPT !.entry = f, !.occupancy = n] \in Queue(k)
    BY <1>1 DEF Queue
  <2>2. w = [q EXCEPT !.entry = [q.entry EXCEPT ![e] = p],
                      !.occupancy = q.occupancy + 1]
    BY <1>1 DEF Queue
  <2>3. [q.entry EXCEPT ![e] = p] \in [Slots(k) -> Packet]
    BY <1>4, <1>5
  <2> QED BY <1>6, <2>1, <2>2, <2>3, Zenon
<1>8. Insert(q, p) = update_schedule_cycle(w)
  BY <1>2, Zenon DEF Insert
<1> HIDE DEF w, e, empty
<1> QED BY <1>3, <1>4, <1>5, <1>6, <1>7, <1>8

LEMMA WithdrawQueue ==
  ASSUME NEW k \in QueueNames, NEW q, QueueInv(k, q), now \in Nat
  PROVE  LET r == update_cycles(Withdraw(q)) IN
         /\ QueueInv(k, r)
         /\ InService(r) = {}
         /\ SameBlocks(r, q)
<1> DEFINE w == Withdraw(q)
<1>1. q \in Queue(k) /\ DOMAIN q.entry = Slots(k)
  BY SlotsNat DEF QueueInv
<1>2. \A i \in Slots(k) : /\ w.entry[i].scheduled = FALSE
                          /\ w.entry[i].address = q.entry[i].address
  BY <1>1, WithdrawEntries
<1>3. w \in Queue(k) /\ w.occupancy = q.occupancy
  BY <1>1, WithdrawEntries
<1>4. DOMAIN w.entry = Slots(k)
  BY <1>3, SlotsNat
<1>5. InService(w) = {}
  BY <1>2, <1>4 DEF InService
<1>6. SameBlocks(w, q)
  BY <1>1, <1>2, <1>4 DEF SameBlocks
<1>7. Live(w) = Live(q)
  BY <1>1, <1>3, <1>6, SameBlocksFacts
<1>8. \A i, j \in Live(w) : w.entry[i].address = w.entry[j].address => i = j
  BY <1>1, <1>2, <1>7, LiveFinite DEF QueueInv
<1>9. w.occupancy = Cardinality(Live(w)) /\ InService(w) \subseteq Live(w)
  BY <1>3, <1>5, <1>7 DEF QueueInv
<1> HIDE DEF w
<1>10. /\ update_cycles(w) \in Queue(k) /\ SameEntries(update_cycles(w), w)
       /\ ProcessIndexOK(update_cycles(w))
  BY <1>3, BothUpdates
<1>11. /\ QueueInv(k, update_cycles(w)) /\ InService(update_cycles(w)) = {}
       /\ SameBlocks(update_cycles(w), w)
  BY <1>3, <1>5, <1>8, <1>9, <1>10, UpdatesKeepQueue
<1>12. SameBlocks(update_cycles(w), q)
  BY <1>6, <1>11, Zenon DEF SameBlocks
<1> QED BY <1>11, <1>12 DEF w

LEMMA ClaimQueue ==
  ASSUME NEW k \in QueueNames, NEW q, QueueInv(k, q),
         NEW i \in Live(q), NEW ready \in Nat
  PROVE  LET r == Claim(q, i, ready) IN
         /\ QueueInv(k, r)
         /\ InService(r) = InService(q) \cup {i}
         /\ SameBlocks(r, q)
<1> DEFINE w == Claimed(q, i, ready)
<1>1. q \in Queue(k) /\ DOMAIN q.entry = Slots(k) /\ i \in Slots(k)
  BY SlotsNat, LiveFinite DEF QueueInv
<1>2. /\ w \in Queue(k) /\ w.occupancy = q.occupancy
      /\ \A j \in Slots(k) :
           /\ w.entry[j].scheduled <=> j = i \/ q.entry[j].scheduled
           /\ w.entry[j].address = q.entry[j].address
  BY <1>1, ClaimEntries
<1> HIDE DEF w
<1>3. DOMAIN w.entry = Slots(k)
  BY <1>2, SlotsNat
<1>4. InService(w) = InService(q) \cup {i}
  BY <1>1, <1>2, <1>3 DEF InService
<1>5. SameBlocks(w, q)
  BY <1>1, <1>2, <1>3 DEF SameBlocks
<1>6. Live(w) = Live(q)
  BY <1>1, <1>2, <1>5, SameBlocksFacts
<1>7. \A x, y \in Live(w) : w.entry[x].address = w.entry[y].address => x = y
  BY <1>1, <1>2, <1>6, LiveFinite DEF QueueInv
<1>8. w.occupancy = Cardinality(Live(w)) /\ InService(w) \subseteq Live(w)
  BY <1>2, <1>4, <1>6 DEF QueueInv
<1>9. /\ update_cycles(w) \in Queue(k) /\ SameEntries(update_cycles(w), w)
       /\ ProcessIndexOK(update_cycles(w))
  BY <1>2, BothUpdates
<1>10. /\ QueueInv(k, update_cycles(w))
       /\ InService(update_cycles(w)) = InService(w)
       /\ SameBlocks(update_cycles(w), w)
  BY <1>2, <1>7, <1>8, <1>9, UpdatesKeepQueue
<1>11. SameBlocks(update_cycles(w), q)
  BY <1>5, <1>10, Zenon DEF SameBlocks
<1> QED BY <1>4, <1>10, <1>11 DEF w, Claim, Claimed

LEMMA RemoveFromQueue ==
  ASSUME NEW k \in QueueNames, NEW q, QueueInv(k, q), NEW i \in Live(q)
  PROVE  LET r == update_process_cycle(remove_queue(q, i)) IN
         /\ QueueInv(k, r)
         /\ InService(r) = InService(q) \ {i}
         /\ Live(r) = Live(q) \ {i}
         /\ Holds(r) = Holds(q) \ {q.entry[i].address}
         /\ \A j \in Slots(k) \ {i} : r.entry[j] = q.entry[j]
<1> DEFINE w == remove_queue(q, i)
<1>1. q \in Queue(k) /\ DOMAIN q.entry = Slots(k)
  BY SlotsNat DEF QueueInv
<1>2. /\ i \in Slots(k) /\ w.entry[i] = EmptyPacket
      /\ \A j \in Slots(k) \ {i} : w.entry[j] = q.entry[j]
  BY RemoveEntries
<1>3. Live(w) = Live(q) \ {i} /\ InService(w) = InService(q) \ {i}
  BY RemoveEntries
<1>4. w.occupancy = Cardinality(Live(w)) /\ w \in Queue(k)
  BY RemoveEntries
<1> HIDE DEF w
<1>5. \A x, y \in Live(w) : w.entry[x].address = w.entry[y].address => x = y
  BY <1>1, <1>2, <1>3, LiveFinite DEF QueueInv
<1>6. InService(w) \subseteq Live(w)
  BY <1>3 DEF QueueInv
<1>7. Holds(w) = Holds(q) \ {q.entry[i].address}
  <2>1. \A x \in Live(q) \ {i} : /\ w.entry[x].address = q.entry[x].address
                                 /\ w.entry[x].address # q.entry[i].address
    BY <1>1, <1>2, LiveFinite DEF QueueInv
  <2>2. QED
    BY <1>3, <2>1 DEF Holds
<1>8. /\ update_process_cycle(w) \in Queue(k)
       /\ SameEntries(update_process_cycle(w), w)
       /\ ProcessIndexOK(update_process_cycle(w))
  BY <1>4, ProcessUpdate
<1>9. /\ QueueInv(k, update_process_cycle(w))
       /\ InService(update_process_cycle(w)) = InService(w)
       /\ Live(update_process_cycle(w)) = Live(w)
       /\ SameBlocks(update_process_cycle(w), w)
  BY <1>4, <1>5, <1>6, <1>8, UpdatesKeepQueue
<1>10. Holds(update_process_cycle(w)) = Holds(w)
  BY <1>4, <1>8, <1>9, SameBlocksFacts
<1>11. \A j \in Slots(k) \ {i} : update_process_cycle(w).entry[j] = q.entry[j]
  BY <1>2, <1>8 DEF SameEntries
<1> QED BY <1>3, <1>7, <1>9, <1>10, <1>11 DEF w

\* A queue that is not full has an empty slot, and the packet goes there.
LEMMA InsertInQueue ==
  ASSUME NEW k \in QueueNames, NEW q, QueueInv(k, q), q.occupancy # SIZE(k),
         NEW p \in Packet, p.address \in Addrs, p.scheduled = FALSE,
         p.address \notin Holds(q)
  PROVE  LET r == Insert(q, p) IN
         /\ QueueInv(k, r)
         /\ InService(r) = InService(q)
         /\ Holds(r) = Holds(q) \cup {p.address}
         /\ \A j \in InService(q) : r.entry[j] = q.entry[j]
<1>1. /\ q \in Queue(k) /\ DOMAIN q.entry = Slots(k) /\ Slots(k) \subseteq Nat
  BY SlotsNat DEF QueueInv
<1>2. PICK e \in Slots(k) \ Live(q) : \E w \in Queue(k) :
              /\ Insert(q, p) = update_schedule_cycle(w)
              /\ w.entry[e] = p
              /\ \A j \in Slots(k) \ {e} : w.entry[j] = q.entry[j]
              /\ w.occupancy = q.occupancy + 1
              /\ w.next_process_index = q.next_process_index
              /\ w.next_process_cycle = q.next_process_cycle
  BY InsertEntries
<1>3. PICK w \in Queue(k) :
              /\ Insert(q, p) = update_schedule_cycle(w)
              /\ w.entry[e] = p
              /\ \A j \in Slots(k) \ {e} : w.entry[j] = q.entry[j]
              /\ w.occupancy = q.occupancy + 1
              /\ w.next_process_index = q.next_process_index
              /\ w.next_process_cycle = q.next_process_cycle
  BY <1>2
<1>4. e \in Slots(k) /\ e \notin Live(q) /\ e \notin InService(q)
  BY DEF QueueInv
<1>5. /\ DOMAIN w.entry = Slots(k) /\ w.entry[e] = p
      /\ \A j \in Slots(k) \ {e} : w.entry[j] = q.entry[j]
  BY <1>3, SlotsNat
<1>6. p.address # 0
  BY DramAssumption
<1>7. Live(w) = Live(q) \cup {e} /\ InService(w) = InService(q)
  BY <1>1, <1>4, <1>5, <1>6 DEF Live, InService
<1>8. Cardinality(Live(w)) = q.occupancy + 1
  <2>1. IsFiniteSet(Live(q))
    BY <1>1, LiveFinite
  <2>2. q.occupancy = Cardinality(Live(q))
    BY DEF QueueInv
  <2>3. QED
    BY <1>4, <1>7, <2>1, <2>2, FS_AddElement
<1>9. w.occupancy = Cardinality(Live(w)) /\ w \in Queue(k)
  BY <1>3, <1>8
<1>10. \A x \in Live(q) : /\ w.entry[x].address = q.entry[x].address
                          /\ q.entry[x].address # p.address
  BY <1>1, <1>4, <1>5, LiveFinite DEF Holds
<1>11. \A x, y \in Live(w) : w.entry[x].address = w.entry[y].address => x = y
  BY <1>5, <1>7, <1>10 DEF QueueInv
<1>12. InService(w) \subseteq Live(w)
  BY <1>7 DEF QueueInv
<1>13. Holds(w) = Holds(q) \cup {p.address}
  BY <1>5, <1>7, <1>10 DEF Holds
<1>14. Insert(q, p) = update_schedule_cycle(w)
  BY <1>3
<1>15. ProcessIndexOK(q)
  BY DEF QueueInv
<1>16. /\ w.next_process_index = q.next_process_index
       /\ w.next_process_cycle = q.next_process_cycle
  BY <1>3
<1>17. /\ Insert(q, p) \in Queue(k)
       /\ SameEntries(Insert(q, p), w)
       /\ Insert(q, p).next_process_index = q.next_process_index
       /\ Insert(q, p).next_process_cycle = q.next_process_cycle
  BY <1>9, <1>14, <1>16, ScheduleUpdate
<1>18. ProcessIndexOK(Insert(q, p))
  BY <1>7, <1>15, <1>17 DEF ProcessIndexOK, InService, SameEntries
<1>19. /\ QueueInv(k, Insert(q, p))
       /\ InService(Insert(q, p)) = InService(w)
       /\ SameBlocks(Insert(q, p), w)
  BY <1>9, <1>11, <1>12, <1>17, <1>18, UpdatesKeepQueue
<1>20. Holds(Insert(q, p)) = Holds(w)
  BY <1>9, <1>17, <1>19, SameBlocksFacts
<1>21. \A j \in InService(q) : Insert(q, p).entry[j] = q.entry[j]
  BY <1>1, <1>4, <1>5, <1>17, LiveFinite DEF SameEntries
<1> QED BY <1>7, <1>13, <1>19, <1>20, <1>21

-----------------------------------------------------------------------------
(* The steps of operate() on the channel *)

ChannelType ==
  [write_mode : BOOLEAN, dbus_cycle_available : Nat,
   scheduled : [QueueNames -> Nat], bank_request : [Banks -> BankRequest],
   queue : [QueueNames -> Queue("RQ") \cup Queue("WQ")]]

LEMMA ChannelUpdate ==
  ASSUME NEW c \in ChannelType,
         NEW banks \in [Banks -> BankRequest],
         NEW counters \in [QueueNames -> Nat],
         NEW queues \in [QueueNames -> Queue("RQ") \cup Queue("WQ")],
         NEW mode \in BOOLEAN, NEW dbus \in Nat
  PROVE  [c EXCEPT !.bank_request = banks, !.scheduled = counters,
                   !.queue = queues, !.write_mode = mode,
                   !.dbus_cycle_available = dbus] \in ChannelType
BY DEF ChannelType

LEMMA ChannelFields ==
  ASSUME NEW c, ChannelInv(c)
  PROVE  /\ c \in ChannelType
         /\ Active(c) \in QueueNames
         /\ \A b \in Banks : c.bank_request[b] \in BankRequest
         /\ \A k \in QueueNames :
              /\ c.queue[k] \in Queue(k) /\ QueueInv(k, c.queue[k])
              /\ c.scheduled[k] = Cardinality(InService(c.queue[k]))
              /\ c.scheduled[k] \in Nat
              /\ k # Active(c) => InService(c.queue[k]) = {}
<1>1. c \in ChannelType
  BY DEF ChannelInv, ChannelOK, ChannelType
<1>2. Active(c) \in QueueNames
  BY DEF Active, QueueNames
<1>3. \A b \in Banks : c.bank_request[b] \in BankRequest
  BY <1>1 DEF ChannelType
<1>4. \A k \in QueueNames : c.scheduled[k] \in Nat
  BY <1>1 DEF ChannelType
<1>5. \A k \in QueueNames :
        /\ c.queue[k] \in Queue(k) /\ QueueInv(k, c.queue[k])
        /\ c.scheduled[k] = Cardinality(InService(c.queue[k]))
        /\ k # Active(c) => InService(c.queue[k]) = {}
  BY DEF ChannelInv, ChannelOK, BanksAgree, CountersAgree
<1> QED BY <1>1, <1>2, <1>3, <1>4, <1>5

\* The requests that a mode switch withdraws are in different banks, so the
\* counter of their queue, decremented once per bank, ends at zero.
LEMMA CountersReachZero ==
  ASSUME NEW c, ChannelInv(c)
  PROVE  \A x \in QueueNames : CountersLeft(c, c.queue[Active(c)])[x] = 0
<1> DEFINE k == Active(c)
           q == c.queue[k]
           touched == {BankOf(q, i) : i \in InService(q)}
           f == [i \in InService(q) |-> BankOf(q, i)]
<1>1. k \in QueueNames /\ q \in Queue(k) /\ InService(q) \subseteq Slots(k)
  BY ChannelFields, LiveFinite
<1>2. \A i \in InService(q) : c.bank_request[BankOf(q, i)].request_index = i
  BY DEF ChannelInv, BanksAgree
<1>3. f \in Bijection(InService(q), touched)
  <2>1. f \in [InService(q) -> touched]
    OBVIOUS
  <2>2. \A i, j \in InService(q) : f[i] = f[j] => i = j
    BY <1>2
  <2>3. \A b \in touched : \E i \in InService(q) : f[i] = b
    OBVIOUS
  <2> HIDE DEF f, touched
  <2>4. f \in Injection(InService(q), touched)
    BY <2>1, <2>2 DEF Injection, IsInjective
  <2>5. f \in Surjection(InService(q), touched)
    BY <2>1, <2>3 DEF Surjection
  <2>6. QED
    BY <2>4, <2>5 DEF Bijection
<1>4. /\ IsFiniteSet(touched)
      /\ Cardinality(touched) = Cardinality(InService(q))
  <2>1. IsFiniteSet(InService(q))
    BY <1>1, LiveFinite
  <2>2. ExistsBijection(InService(q), touched)
    BY <1>3 DEF ExistsBijection
  <2>3. QED
    BY <2>1, <2>2, FS_Bijection
<1>5. \A b \in touched : c.bank_request[b].serving = k
  <2> TAKE b \in touched
  <2>1. PICK i \in InService(q) : b = BankOf(q, i)
    OBVIOUS
  <2>2. b \in Banks /\ i \in Nat
    BY <1>1, <2>1, EntryBank, SlotsNat
  <2>3. c.bank_request[b].request_index = i
    BY <1>2, <2>1
  <2>4. c.bank_request[b].working
    <3>1. ~c.bank_request[b].working =>
            c.bank_request[b].request_index = NoBank
      BY <2>2 DEF ChannelInv, BanksAgree
    <3>2. QED
      BY <2>2, <2>3, <3>1 DEF NoBank
  <2>5. QED
    BY <2>2, <2>4 DEF ChannelInv, BanksAgree
<1>6. ASSUME NEW x \in QueueNames
      PROVE  CountersLeft(c, q)[x] = 0
  <2> DEFINE mine == {b \in touched : c.bank_request[b].serving = x}
  <2>1. CountersLeft(c, q)[x] = c.scheduled[x] - Cardinality(mine)
    BY DEF CountersLeft
  <2>2. c.scheduled[x] = Cardinality(mine) /\ c.scheduled[x] \in Nat
    <3>1. CASE x = k
      <4>1. mine = touched
        BY <1>5, <3>1
      <4>2. c.scheduled[x] = Cardinality(touched) /\ c.scheduled[x] \in Nat
        BY <1>1, <1>4, <3>1, ChannelFields
      <4> HIDE DEF mine, touched
      <4>3. QED
        BY <4>1, <4>2
    <3>2. CASE x # k
      <4>1. mine = {}
        BY <1>5, <3>2
      <4>2. c.scheduled[x] = 0
        BY <3>2, ChannelFields, FS_EmptySet
      <4> HIDE DEF mine
      <4>3. QED
        BY <4>1, <4>2, FS_EmptySet
    <3> QED BY <3>1, <3>2
  <2> HIDE DEF mine
  <2>3. QED
    BY <2>1, <2>2
<1> QED BY <1>6

\* The entry point for the rest: the parts of ChannelInv, put together again.
LEMMA ChannelInvIntro ==
  ASSUME NEW d, d \in ChannelType, BanksAgree(d),
         \A k \in QueueNames : QueueInv(k, d.queue[k]),
         \A k \in QueueNames :
           d.scheduled[k] = Cardinality(InService(d.queue[k]))
  PROVE  ChannelInv(d)
BY DEF ChannelInv, ChannelOK, ChannelType, QueueInv, CountersAgree

LEMMA SwitchKeeps ==
  ASSUME NEW c, ChannelInv(c), now \in Nat
  PROVE  /\ ChannelInv(SwitchMode(c))
         /\ \A x \in QueueNames :
              Holds(SwitchMode(c).queue[x]) = Holds(c.queue[x])
<1> DEFINE k == Active(c)
           q == c.queue[k]
           d == SwitchMode(c)
<1>1. CASE ~(StartWriting(c) \/ StopWriting(c))
  BY <1>1, Zenon DEF SwitchMode
<1>2. CASE StartWriting(c) \/ StopWriting(c)
  <2>1. k \in QueueNames /\ q \in Queue(k) /\ QueueInv(k, q)
    BY ChannelFields
  <2>2. d = [c EXCEPT
               !.bank_request = [b \in Banks |->
                                   ResetBank(q, b, c.bank_request[b])],
               !.scheduled = CountersLeft(c, q),
               !.queue = [x \in QueueNames |->
                  update_cycles(IF x = k THEN Withdraw(q) ELSE c.queue[x])],
               !.write_mode = ~@,
               !.dbus_cycle_available = @ + DRAM_DBUS_TURN_AROUND_TIME]
    BY <1>2, ChannelFields DEF SwitchMode, reset_remain_requests, ChannelType
  <2>3. /\ d.write_mode = ~c.write_mode
        /\ d.dbus_cycle_available =
             c.dbus_cycle_available + DRAM_DBUS_TURN_AROUND_TIME
        /\ d.scheduled = CountersLeft(c, q)
        /\ d.bank_request = [b \in Banks |->
                               ResetBank(q, b, c.bank_request[b])]
        /\ d.queue = [x \in QueueNames |->
             update_cycles(IF x = k THEN Withdraw(q) ELSE c.queue[x])]
    BY <2>2, ChannelFields DEF ChannelType
  <2>4. ASSUME NEW x \in QueueNames
        PROVE  /\ QueueInv(x, d.queue[x])
               /\ InService(d.queue[x]) = {}
               /\ SameBlocks(d.queue[x], c.queue[x])
    <3>1. CASE x = k
      <4>1. d.queue[x] = update_cycles(Withdraw(q))
        BY <2>3, <3>1
      <4>2. QED
        BY <2>1, <3>1, <4>1, WithdrawQueue
    <3>2. CASE x # k
      <4>1. d.queue[x] = update_cycles(c.queue[x])
        BY <2>3, <3>2
      <4>2. /\ c.queue[x] \in Queue(x) /\ QueueInv(x, c.queue[x])
            /\ InService(c.queue[x]) = {}
        BY <3>2, ChannelFields
      <4>3. /\ update_cycles(c.queue[x]) \in Queue(x)
            /\ SameEntries(update_cycles(c.queue[x]), c.queue[x])
            /\ ProcessIndexOK(update_cycles(c.queue[x]))
        BY <4>2, BothUpdates
      <4> DEFINE r == update_cycles(c.queue[x])
                 p == c.queue[x]
      <4> HIDE DEF r, p, d
      <4>4. /\ QueueInv(x, r) /\ InService(r) = InService(p)
            /\ SameBlocks(r, p)
        <5>1. /\ p \in Queue(x) /\ r \in Queue(x) /\ SameEntries(r, p)
              /\ ProcessIndexOK(r)
          BY <4>2, <4>3 DEF r, p
        <5>2. /\ p.occupancy = Cardinality(Live(p))
              /\ InService(p) \subseteq Live(p)
              /\ \A i, j \in Live(p) :
                   p.entry[i].address = p.entry[j].address => i = j
          BY <4>2, Zenon DEF QueueInv, p
        <5>3. QED
          BY <5>1, <5>2, UpdatesKeepQueue
      <4>5. QED
        BY <4>1, <4>2, <4>4 DEF r, p
    <3> QED BY <3>1, <3>2
  <2>5. ASSUME NEW b \in Banks
        PROVE  /\ d.bank_request[b] \in BankRequest
               /\ ~d.bank_request[b].working
               /\ d.bank_request[b].request_index = NoBank
               /\ d.bank_request[b].serving = "none"
    <3> DEFINE S == {i \in InService(q) : BankOf(q, i) = b}
               bank == c.bank_request[b]
    <3>1. d.bank_request[b] = ResetBank(q, b, bank)
      BY <2>3
    <3>2. bank \in BankRequest
      BY ChannelFields
    <3>3. CASE S = {}
      <4>1. ResetBank(q, b, bank) = bank
        BY <3>3, Zenon DEF ResetBank
      <4>2. ~bank.working
        BY <3>3 DEF ChannelInv, BanksAgree
      <4>3. bank.request_index = NoBank /\ bank.serving = "none"
        BY <4>2, Zenon DEF ChannelInv, BanksAgree
      <4>4. QED
        BY <3>1, <3>2, <4>1, <4>2, <4>3
    <3>4. CASE S # {}
      <4>1. ResetBank(q, b, bank) =
              [working |-> FALSE, cycle_available |-> now,
               request_index |-> NoBank, serving |-> "none",
               open_row |-> IF bank.cycle_available - tCAS <= now
                            THEN RowOf(q, FirstOf(S)) ELSE NoRow]
        BY <3>4, Zenon DEF ResetBank
      <4>2. S \subseteq Slots(k) /\ S \subseteq Nat
        BY <2>1, LiveFinite, SlotsNat
      <4>3. FirstOf(S) \in S
        BY <3>4, <4>2, FirstExists
      <4>4. RowOf(q, FirstOf(S)) \in Rows
        BY <2>1, <4>2, <4>3, EntryBank
      <4> DEFINE row == IF bank.cycle_available - tCAS <= now
                        THEN RowOf(q, FirstOf(S)) ELSE NoRow
      <4>5. row \in Rows \cup {NoRow}
        BY <4>4
      <4> HIDE DEF row, S, bank, d
      <4>6. d.bank_request[b] = [working |-> FALSE, cycle_available |-> now,
                 request_index |-> NoBank, serving |-> "none",
                 open_row |-> row]
        BY <3>1, <4>1 DEF row
      <4>7. QED
        BY <4>5, <4>6 DEF BankRequest
    <3> QED BY <3>3, <3>4
  <2>6. ASSUME NEW x \in QueueNames
        PROVE  d.scheduled[x] = 0
    BY <2>3, CountersReachZero
  <2>7. \A x \in QueueNames :
          d.scheduled[x] = Cardinality(InService(d.queue[x]))
    BY <2>4, <2>6, FS_EmptySet
  <2>8. d \in ChannelType
    <3>1. d.dbus_cycle_available \in Nat /\ d.write_mode \in BOOLEAN
      BY <2>3, ChannelFields, DramAssumption DEF ChannelType
    <3>2. d.bank_request \in [Banks -> BankRequest]
      BY <2>3, <2>5
    <3>3. d.scheduled \in [QueueNames -> Nat]
      <4>1. DOMAIN CountersLeft(c, q) = QueueNames
        BY DEF CountersLeft
      <4>2. CountersLeft(c, q) = [x \in QueueNames |-> CountersLeft(c, q)[x]]
        BY DEF CountersLeft
      <4>3. QED
        BY <2>3, <2>6, <4>1, <4>2
    <3>4. d.queue \in [QueueNames -> Queue("RQ") \cup Queue("WQ")]
      <4>1. \A x \in QueueNames : d.queue[x] \in Queue("RQ") \cup Queue("WQ")
        BY <2>4 DEF QueueInv, QueueNames
      <4> HIDE DEF d
      <4>2. QED
        BY <2>3, <4>1
    <3>5. d = [c EXCEPT !.bank_request = d.bank_request,
                        !.scheduled = d.scheduled, !.queue = d.queue,
                        !.write_mode = d.write_mode,
                        !.dbus_cycle_available = d.dbus_cycle_available]
      BY <2>2, <2>3, Zenon
    <3>6. c \in ChannelType
      BY ChannelFields
    <3> DEFINE banks == d.bank_request
               counters == d.scheduled
               queues == d.queue
               mode == d.write_mode
               dbus == d.dbus_cycle_available
    <3> HIDE DEF d, banks, counters, queues, mode, dbus
    <3>7. [c EXCEPT !.bank_request = banks, !.scheduled = counters,
                    !.queue = queues, !.write_mode = mode,
                    !.dbus_cycle_available = dbus] \in ChannelType
      BY <3>1, <3>2, <3>3, <3>4, <3>6, ChannelUpdate
         DEF banks, counters, queues, mode, dbus
    <3>8. QED
      BY <3>5, <3>7, Zenon DEF banks, counters, queues, mode, dbus
  <2>9. BanksAgree(d)
    <3>1. Active(d) \in QueueNames
      BY DEF Active, QueueNames
    <3> HIDE DEF d
    <3>2. QED
      BY <2>4, <2>5, <3>1 DEF BanksAgree
  <2>10. \A x \in QueueNames : Holds(d.queue[x]) = Holds(c.queue[x])
    BY <2>4, ChannelFields, SameBlocksFacts DEF QueueInv
  <2> HIDE DEF d
  <2>11. ChannelInv(d)
    BY <2>4, <2>7, <2>8, <2>9, ChannelInvIntro
  <2>12. QED
    BY <2>10, <2>11 DEF d
<1> QED BY <1>1, <1>2

LEMMA ScheduleKeeps ==
  ASSUME NEW c, ChannelInv(c), now \in Nat
  PROVE  /\ ChannelInv(ScheduleStep(c))
         /\ \A x \in QueueNames :
              Holds(ScheduleStep(c).queue[x]) = Holds(c.queue[x])
<1> DEFINE k == Active(c)
           q == c.queue[k]
           free == {i \in Unscheduled(q) :
                      ~c.bank_request[BankOf(q, i)].working}
           hits == {i \in free :
                      c.bank_request[BankOf(q, i)].open_row = RowOf(q, i)}
           best == IF hits # {} THEN hits ELSE free
           i == Oldest(q, best)
           b == BankOf(q, i)
           ready == now + (IF hits # {} THEN tCAS ELSE tRP + tRCD + tCAS)
           d == ScheduleStep(c)
           claimed == [working |-> TRUE, cycle_available |-> ready,
                       request_index |-> i, serving |-> k,
                       open_row |-> RowOf(q, i)]
<1>1. CASE d = c
  BY <1>1
<1>2. CASE d # c
  <2>1. k \in QueueNames /\ q \in Queue(k) /\ QueueInv(k, q)
    BY ChannelFields
  <2>2. free # {} /\ d = schedule(c, k)
    <3>1. d = schedule(c, k)
      BY <1>2, Zenon DEF ScheduleStep
    <3>2. free = {} => schedule(c, k) = c
      BY Zenon DEF schedule
    <3> QED BY <1>2, <3>1, <3>2
  <2>3. /\ best # {} /\ best \subseteq free
        /\ free \subseteq Live(q) \ InService(q)
        /\ free \subseteq Slots(k) /\ free \subseteq Nat
    BY <2>1, <2>2, LiveFinite, SlotsNat DEF Unscheduled, Timed
  <2>4. \A j \in best : q.entry[j].event_cycle \in Nat
    BY <2>1, <2>3, SlotsNat DEF Packet
  <2>5. i \in best
    <3> HIDE DEF best, q
    <3>1. QED
      BY <2>3, <2>4, OldestExists
  <2>6. /\ i \in Live(q) /\ i \notin InService(q) /\ i \in Slots(k)
        /\ i \in Nat
        /\ b \in Banks /\ RowOf(q, i) \in Rows
        /\ ~c.bank_request[b].working
    BY <2>1, <2>3, <2>5, EntryBank
  <2>7. ready \in Nat
    BY DramAssumption
  <2>8. d = [c EXCEPT !.bank_request[b] = claimed,
                      !.scheduled[k] = @ + 1,
                      !.queue[k] = Claim(q, i, ready)]
    BY <2>2, Zenon DEF schedule
  <2> HIDE DEF i, b, ready, best, free, hits, d, claimed
  <2>9. /\ c \in ChannelType
        /\ c.bank_request \in [Banks -> BankRequest]
        /\ c.scheduled \in [QueueNames -> Nat]
        /\ c.queue \in [QueueNames -> Queue("RQ") \cup Queue("WQ")]
    BY ChannelFields DEF ChannelType
  <2>10. /\ d.bank_request = [c.bank_request EXCEPT ![b] = claimed]
         /\ d.scheduled = [c.scheduled EXCEPT ![k] = @ + 1]
         /\ d.queue = [c.queue EXCEPT ![k] = Claim(q, i, ready)]
         /\ d.write_mode = c.write_mode
         /\ d.dbus_cycle_available = c.dbus_cycle_available
    BY <2>8, <2>9 DEF ChannelType
  <2>11. /\ QueueInv(k, Claim(q, i, ready))
         /\ InService(Claim(q, i, ready)) = InService(q) \cup {i}
         /\ SameBlocks(Claim(q, i, ready), q)
    BY <2>1, <2>6, <2>7, ClaimQueue
  <2>12. /\ d.queue[k] = Claim(q, i, ready)
         /\ \A x \in QueueNames \ {k} : d.queue[x] = c.queue[x]
    BY <2>1, <2>9, <2>10
  <2>13. \A x \in QueueNames : QueueInv(x, d.queue[x])
    BY <2>11, <2>12, ChannelFields
  <2>14. \A x \in QueueNames :
           d.scheduled[x] = Cardinality(InService(d.queue[x]))
    <3>1. d.scheduled[k] = Cardinality(InService(d.queue[k]))
      <4>1. IsFiniteSet(InService(q))
        BY <2>1, LiveFinite
      <4>2. Cardinality(InService(q) \cup {i}) = Cardinality(InService(q)) + 1
        BY <2>6, <4>1, FS_AddElement
      <4>3. d.scheduled[k] = c.scheduled[k] + 1
        BY <2>1, <2>9, <2>10
      <4>4. c.scheduled[k] = Cardinality(InService(q))
        BY ChannelFields
      <4> HIDE DEF k, q
      <4>5. QED
        BY <2>11, <2>12, <4>2, <4>3, <4>4
    <3>2. \A x \in QueueNames \ {k} : d.scheduled[x] = c.scheduled[x]
      BY <2>9, <2>10
    <3>3. QED
      BY <2>12, <3>1, <3>2, ChannelFields
  <2>15. d.bank_request[b] = claimed /\ claimed \in BankRequest
    <3>1. claimed \in BankRequest
      BY <2>1, <2>6, <2>7 DEF claimed, BankRequest
    <3>2. QED
      BY <2>6, <2>9, <2>10, <3>1
  <2>16. \A x \in Banks \ {b} : d.bank_request[x] = c.bank_request[x]
    BY <2>9, <2>10
  <2>17. d \in ChannelType
    <3>1. d.bank_request \in [Banks -> BankRequest]
      BY <2>9, <2>10, <2>15
    <3>2. d.scheduled \in [QueueNames -> Nat]
      <4>1. c.scheduled[k] + 1 \in Nat
        BY <2>1, <2>9
      <4> HIDE DEF k, q
      <4>2. QED
        BY <2>1, <2>9, <2>10, <4>1
    <3>3. d.queue \in [QueueNames -> Queue("RQ") \cup Queue("WQ")]
      <4>1. Claim(q, i, ready) \in Queue("RQ") \cup Queue("WQ")
        BY <2>1, <2>11 DEF QueueInv, QueueNames
      <4>2. QED
        BY <2>9, <2>10, <4>1
    <3>4. d = [c EXCEPT !.bank_request = d.bank_request,
                        !.scheduled = d.scheduled, !.queue = d.queue,
                        !.write_mode = d.write_mode,
                        !.dbus_cycle_available = d.dbus_cycle_available]
      <4>1. d = [c EXCEPT
               !.bank_request = [c.bank_request EXCEPT ![b] = claimed],
               !.scheduled = [c.scheduled EXCEPT ![k] = @ + 1],
               !.queue = [c.queue EXCEPT ![k] = Claim(q, i, ready)],
               !.write_mode = c.write_mode,
               !.dbus_cycle_available = c.dbus_cycle_available]
        BY <2>8, <2>9 DEF ChannelType
      <4>2. QED
        BY <2>10, <4>1, Zenon
    <3>5. d.write_mode \in BOOLEAN /\ d.dbus_cycle_available \in Nat
      BY <2>9, <2>10 DEF ChannelType
    <3> DEFINE banks == d.bank_request
               counters == d.scheduled
               queues == d.queue
               mode == d.write_mode
               dbus == d.dbus_cycle_available
    <3> HIDE DEF banks, counters, queues, mode, dbus
    <3>6. [c EXCEPT !.bank_request = banks, !.scheduled = counters,
                    !.queue = queues, !.write_mode = mode,
                    !.dbus_cycle_available = dbus] \in ChannelType
      BY <2>9, <3>1, <3>2, <3>3, <3>5, ChannelUpdate
         DEF banks, counters, queues, mode, dbus
    <3>7. QED
      BY <3>4, <3>6, Zenon DEF banks, counters, queues, mode, dbus
  <2>18. BanksAgree(d)
    <3>1. Active(d) = k
      BY <2>10 DEF Active
    <3>2. \A x \in QueueNames \ {k} : InService(d.queue[x]) = {}
      BY <2>12, ChannelFields
    <3>3. /\ InService(d.queue[k]) = InService(q) \cup {i}
          /\ InService(q) \subseteq Slots(k)
          /\ \A j \in Slots(k) :
               /\ d.queue[k].entry[j].address = q.entry[j].address
               /\ BankOf(d.queue[k], j) = BankOf(q, j)
      BY <2>1, <2>11, <2>12, SlotsNat, LiveFinite
         DEF SameBlocks, BankOf
    <3>4. ASSUME NEW j \in InService(d.queue[k])
          PROVE  /\ d.queue[k].entry[j].address # 0
                 /\ d.bank_request[BankOf(d.queue[k], j)].request_index = j
      <4>1. CASE j = i
        <5>1. q.entry[i].address # 0
          BY <2>6 DEF Live
        <5>2. claimed.request_index = i
          BY DEF claimed
        <5>3. QED
          BY <2>6, <2>15, <3>3, <4>1, <5>1, <5>2 DEF b
      <4>2. CASE j # i
        <5>1. j \in InService(q) /\ j \in Slots(k)
          BY <3>3, <4>2
        <5>2. /\ q.entry[j].address # 0
              /\ c.bank_request[BankOf(q, j)].request_index = j
          BY <5>1 DEF ChannelInv, BanksAgree
        <5>3. BankOf(q, j) \in Banks
          BY <2>1, <5>1, EntryBank
        <5>4. BankOf(q, j) # b
          <6>1. c.bank_request[b].request_index = NoBank
            BY <2>6, Zenon DEF ChannelInv, BanksAgree
          <6>2. j # NoBank
            BY <2>1, <5>1, SlotsNat DEF NoBank
          <6>3. QED
            BY <5>2, <6>1, <6>2
        <5>5. QED
          BY <2>16, <3>3, <5>1, <5>2, <5>3, <5>4
      <4> QED BY <4>1, <4>2
    <3>5. ASSUME NEW x \in Banks
          PROVE  LET bank == d.bank_request[x] IN
                 IF bank.working
                 THEN /\ bank.request_index \in InService(d.queue[k])
                      /\ BankOf(d.queue[k], bank.request_index) = x
                      /\ bank.serving = k
                 ELSE bank.request_index = NoBank /\ bank.serving = "none"
      <4>1. CASE x = b
        <5>1. /\ claimed.working /\ claimed.request_index = i
              /\ claimed.serving = k
          BY DEF claimed
        <5>2. BankOf(d.queue[k], i) = b
          BY <2>6, <3>3 DEF b
        <5>3. QED
          BY <2>15, <3>3, <4>1, <5>1, <5>2
      <4>2. CASE x # b
        <5>1. d.bank_request[x] = c.bank_request[x]
          BY <2>16, <4>2
        <5>2. LET bank == c.bank_request[x] IN
              IF bank.working
              THEN /\ bank.request_index \in InService(q)
                   /\ BankOf(q, bank.request_index) = x
                   /\ bank.serving = k
              ELSE bank.request_index = NoBank /\ bank.serving = "none"
          BY DEF ChannelInv, BanksAgree
        <5>3. QED
          BY <3>3, <5>1, <5>2
      <4> QED BY <4>1, <4>2
    <3> HIDE DEF k, q
    <3>6. QED
      BY <3>1, <3>2, <3>4, <3>5 DEF BanksAgree
  <2>19. \A x \in QueueNames : Holds(d.queue[x]) = Holds(c.queue[x])
    <3>1. Holds(d.queue[k]) = Holds(q)
      BY <2>1, <2>11, <2>12, SameBlocksFacts DEF QueueInv
    <3>2. QED
      BY <2>12, <3>1
  <2>20. ChannelInv(d)
    BY <2>13, <2>14, <2>17, <2>18, ChannelInvIntro
  <2>21. QED
    BY <2>19, <2>20 DEF d
<1> QED BY <1>1, <1>2

\* process() is called on a request in service, and the assertion of
\* process() that its bank is serving it holds.
LEMMA ProcessedRequest ==
  ASSUME NEW c, ChannelInv(c), now \in Nat, now + 1 < UINT64_MAX, Processes(c)
  PROVE  LET q == c.queue[Active(c)]
             i == q.next_process_index
         IN /\ i \in InService(q) /\ i \in Live(q) /\ i \in Slots(Active(c))
            /\ ProcessBank(c) = BankOf(q, i) /\ ProcessBank(c) \in Banks
            /\ c.bank_request[ProcessBank(c)].request_index = i
            /\ c.bank_request[ProcessBank(c)].working
<1> DEFINE k == Active(c)
           q == c.queue[k]
           i == q.next_process_index
<1>1. k \in QueueNames /\ q \in Queue(k) /\ QueueInv(k, q)
  BY ChannelFields
<1>2. q.next_process_cycle <= now /\ q.next_process_cycle \in Nat
  BY <1>1 DEF Processes, Queue
<1>3. i \in InService(q)
  BY <1>1, <1>2, DramAssumption DEF QueueInv, ProcessIndexOK
<1>4. i \in Live(q) /\ i \in Slots(k) /\ i \in Nat
  BY <1>1, <1>3, LiveFinite, SlotsNat DEF QueueInv
<1>5. ProcessBank(c) = BankOf(q, i) /\ ProcessBank(c) \in Banks
  BY <1>1, <1>4, EntryBank DEF ProcessBank
<1>6. c.bank_request[ProcessBank(c)].request_index = i
  BY <1>3, <1>5 DEF ChannelInv, BanksAgree
<1>7. c.bank_request[ProcessBank(c)].working
  <2>1. ~c.bank_request[ProcessBank(c)].working =>
          c.bank_request[ProcessBank(c)].request_index = NoBank
    BY <1>5, Zenon DEF ChannelInv, BanksAgree
  <2>2. QED
    BY <1>4, <1>6, <2>1 DEF NoBank
<1> QED BY <1>3, <1>4, <1>5, <1>6, <1>7

LEMMA TransferKeeps ==
  ASSUME NEW c, ChannelInv(c), now \in Nat, now + 1 < UINT64_MAX, Transfers(c)
  PROVE  LET k == Active(c)
             q == c.queue[k]
             a == q.entry[q.next_process_index].address
             d == process(c, k)
         IN /\ ChannelInv(d)
            /\ a \in Holds(q) /\ Holds(d.queue[k]) = Holds(q) \ {a}
            /\ \A x \in QueueNames \ {k} : d.queue[x] = c.queue[x]
<1> DEFINE k == Active(c)
           q == c.queue[k]
           i == q.next_process_index
           a == q.entry[i].address
           d == process(c, k)
           b == ProcessBank(c)
           r == update_process_cycle(remove_queue(q, i))
           freed == [c.bank_request[b] EXCEPT !.request_index = NoBank,
                                              !.working = FALSE,
                                              !.serving = "none"]
<1>1. k \in QueueNames /\ q \in Queue(k) /\ QueueInv(k, q)
  BY ChannelFields
<1>2. /\ i \in InService(q) /\ i \in Live(q) /\ i \in Slots(k)
      /\ b = BankOf(q, i) /\ b \in Banks
      /\ c.bank_request[b].request_index = i
      /\ c.bank_request[b].working
  BY ProcessedRequest DEF Transfers
<1>3. d = [c EXCEPT !.dbus_cycle_available = now + DRAM_DBUS_RETURN_TIME,
                    !.bank_request[b] = freed,
                    !.scheduled[k] = @ - 1,
                    !.queue[k] = r]
  <2>1. ~BusBusy(c)
    <3>1. c.dbus_cycle_available \in Nat
      BY ChannelFields DEF ChannelType
    <3>2. QED
      BY <3>1 DEF BusBusy, Transfers
  <2>2. QED
    BY <2>1, Zenon DEF process
<1>4. /\ c \in ChannelType
      /\ c.bank_request \in [Banks -> BankRequest]
      /\ c.scheduled \in [QueueNames -> Nat]
      /\ c.queue \in [QueueNames -> Queue("RQ") \cup Queue("WQ")]
  BY ChannelFields DEF ChannelType
<1> HIDE DEF d, freed, r, b
<1>5. /\ d.bank_request = [c.bank_request EXCEPT ![b] = freed]
      /\ d.scheduled = [c.scheduled EXCEPT ![k] = @ - 1]
      /\ d.queue = [c.queue EXCEPT ![k] = r]
      /\ d.write_mode = c.write_mode
      /\ d.dbus_cycle_available = now + DRAM_DBUS_RETURN_TIME
  BY <1>3, <1>4 DEF ChannelType
<1>6. /\ QueueInv(k, r)
      /\ InService(r) = InService(q) \ {i}
      /\ Holds(r) = Holds(q) \ {a}
      /\ \A j \in Slots(k) \ {i} : r.entry[j] = q.entry[j]
  BY <1>1, <1>2, RemoveFromQueue DEF r
<1>7. /\ d.queue[k] = r
      /\ \A x \in QueueNames \ {k} : d.queue[x] = c.queue[x]
  BY <1>1, <1>4, <1>5
<1>8. \A x \in QueueNames : QueueInv(x, d.queue[x])
  BY <1>6, <1>7, ChannelFields
<1>9. c.scheduled[k] - 1 = Cardinality(InService(r)) /\ c.scheduled[k] - 1 \in Nat
  <2>1. IsFiniteSet(InService(q)) /\ IsFiniteSet(InService(r))
    BY <1>1, <1>6, LiveFinite
  <2>2. Cardinality(InService(r)) = Cardinality(InService(q)) - 1
    BY <1>2, <1>6, <2>1, FS_RemoveElement
  <2>3. c.scheduled[k] = Cardinality(InService(q)) /\ c.scheduled[k] \in Nat
    BY ChannelFields
  <2>4. Cardinality(InService(r)) \in Nat
    BY <2>1, FS_CardinalityType
  <2> HIDE DEF k, q
  <2>5. QED
    BY <2>2, <2>3, <2>4
<1>10. /\ d.scheduled[k] = c.scheduled[k] - 1
       /\ \A x \in QueueNames \ {k} : d.scheduled[x] = c.scheduled[x]
  BY <1>1, <1>4, <1>5
<1>11. \A x \in QueueNames :
         d.scheduled[x] = Cardinality(InService(d.queue[x]))
  BY <1>7, <1>9, <1>10, ChannelFields
<1>12. /\ freed \in BankRequest /\ ~freed.working
       /\ freed.request_index = NoBank /\ freed.serving = "none"
  <2> DEFINE bank == c.bank_request[b]
  <2>1. bank \in BankRequest
    BY <1>2, <1>4
  <2>2. freed = [bank EXCEPT !.request_index = NoBank, !.working = FALSE,
                             !.serving = "none"]
    BY DEF freed
  <2> HIDE DEF bank
  <2>3. QED
    BY <2>1, <2>2 DEF BankRequest
<1>13. /\ d.bank_request[b] = freed
       /\ \A x \in Banks \ {b} : d.bank_request[x] = c.bank_request[x]
  BY <1>2, <1>4, <1>5
<1>14. d \in ChannelType
  <2>1. d.bank_request \in [Banks -> BankRequest]
    BY <1>4, <1>5, <1>12
  <2>2. d.scheduled \in [QueueNames -> Nat]
    <3> HIDE DEF k, q
    <3>1. QED
      BY <1>1, <1>4, <1>5, <1>9
  <2>3. d.queue \in [QueueNames -> Queue("RQ") \cup Queue("WQ")]
    <3>1. r \in Queue("RQ") \cup Queue("WQ")
      BY <1>1, <1>6 DEF QueueInv, QueueNames
    <3>2. QED
      BY <1>4, <1>5, <3>1
  <2>4. d = [c EXCEPT !.bank_request = d.bank_request,
                      !.scheduled = d.scheduled, !.queue = d.queue,
                      !.write_mode = d.write_mode,
                      !.dbus_cycle_available = d.dbus_cycle_available]
    <3>1. d = [c EXCEPT
             !.bank_request = [c.bank_request EXCEPT ![b] = freed],
             !.scheduled = [c.scheduled EXCEPT ![k] = @ - 1],
             !.queue = [c.queue EXCEPT ![k] = r],
             !.write_mode = c.write_mode,
             !.dbus_cycle_available = now + DRAM_DBUS_RETURN_TIME]
      BY <1>3, <1>4 DEF ChannelType
    <3>2. QED
      BY <1>5, <3>1, Zenon
  <2>5. d.write_mode \in BOOLEAN /\ d.dbus_cycle_available \in Nat
    BY <1>4, <1>5, DramAssumption DEF ChannelType
  <2> DEFINE banks == d.bank_request
             counters == d.scheduled
             queues == d.queue
             mode == d.write_mode
             dbus == d.dbus_cycle_available
  <2> HIDE DEF banks, counters, queues, mode, dbus
  <2>6. [c EXCEPT !.bank_request = banks, !.scheduled = counters,
                  !.queue = queues, !.write_mode = mode,
                  !.dbus_cycle_available = dbus] \in ChannelType
    BY <1>4, <2>1, <2>2, <2>3, <2>5, ChannelUpdate
       DEF banks, counters, queues, mode, dbus
  <2>7. QED
    BY <2>4, <2>6, Zenon DEF banks, counters, queues, mode, dbus
<1>15. BanksAgree(d)
  <2>1. Active(d) = k
    BY <1>5 DEF Active
  <2>2. \A x \in QueueNames \ {k} : InService(d.queue[x]) = {}
    BY <1>7, ChannelFields
  <2>3. InService(d.queue[k]) = InService(q) \ {i} /\ InService(q) \subseteq Slots(k)
    BY <1>1, <1>6, <1>7, LiveFinite
  <2>4. \A j \in Slots(k) \ {i} : /\ d.queue[k].entry[j] = q.entry[j]
                                  /\ BankOf(d.queue[k], j) = BankOf(q, j)
    BY <1>6, <1>7 DEF BankOf
  <2>5. ASSUME NEW j \in InService(d.queue[k])
        PROVE  /\ d.queue[k].entry[j].address # 0
               /\ d.bank_request[BankOf(d.queue[k], j)].request_index = j
    <3>1. j \in InService(q) /\ j \in Slots(k) \ {i}
      BY <2>3
    <3>2. /\ q.entry[j].address # 0
          /\ c.bank_request[BankOf(q, j)].request_index = j
      BY <3>1 DEF ChannelInv, BanksAgree
    <3>3. BankOf(q, j) \in Banks \ {b}
      BY <1>1, <1>2, <3>1, <3>2, EntryBank
    <3>4. QED
      BY <1>13, <2>4, <3>1, <3>2, <3>3
  <2>6. ASSUME NEW x \in Banks
        PROVE  LET bank == d.bank_request[x] IN
               IF bank.working
               THEN /\ bank.request_index \in InService(d.queue[k])
                    /\ BankOf(d.queue[k], bank.request_index) = x
                    /\ bank.serving = k
               ELSE bank.request_index = NoBank /\ bank.serving = "none"
    <3>1. CASE x = b
      BY <1>12, <1>13, <3>1
    <3>2. CASE x # b
      <4>1. d.bank_request[x] = c.bank_request[x]
        BY <1>13, <3>2
      <4>2. LET bank == c.bank_request[x] IN
            IF bank.working
            THEN /\ bank.request_index \in InService(q)
                 /\ BankOf(q, bank.request_index) = x
                 /\ bank.serving = k
            ELSE bank.request_index = NoBank /\ bank.serving = "none"
        BY DEF ChannelInv, BanksAgree
      <4>3. QED
        BY <1>2, <2>3, <2>4, <3>2, <4>1, <4>2
    <3> QED BY <3>1, <3>2
  <2> HIDE DEF k, q
  <2>7. QED
    BY <2>1, <2>2, <2>5, <2>6 DEF BanksAgree
<1>16. a \in Holds(q)
  BY <1>2 DEF Holds
<1>17. ChannelInv(d)
  BY <1>8, <1>11, <1>14, <1>15, ChannelInvIntro
<1> QED BY <1>6, <1>7, <1>16, <1>17 DEF d

LEMMA BusBusyKeeps ==
  ASSUME NEW c, ChannelInv(c), now \in Nat, now + 1 < UINT64_MAX, BusBusy(c)
  PROVE  LET d == process(c, Active(c)) IN
         ChannelInv(d) /\ d.queue = c.queue
<1> DEFINE k == Active(c)
           b == ProcessBank(c)
           d == process(c, k)
           bank == c.bank_request[b]
           late == [bank EXCEPT !.cycle_available = c.dbus_cycle_available]
<1>1. b \in Banks
  BY ProcessedRequest DEF BusBusy
<1>2. /\ c \in ChannelType
      /\ c.bank_request \in [Banks -> BankRequest]
      /\ c.dbus_cycle_available \in Nat
  BY ChannelFields DEF ChannelType
<1>3. ~Transfers(c)
  BY <1>2 DEF BusBusy, Transfers
<1>4. d = [c EXCEPT !.bank_request[b].cycle_available = c.dbus_cycle_available]
  BY <1>3, Zenon DEF process
<1> HIDE DEF d, b
<1>5. d = [c EXCEPT !.bank_request = [c.bank_request EXCEPT ![b] = late]]
  BY <1>1, <1>2, <1>4 DEF ChannelType
<1>6. bank \in BankRequest
  BY <1>1, <1>2
<1>7. /\ late \in BankRequest /\ late.working = bank.working
      /\ late.request_index = bank.request_index
      /\ late.serving = bank.serving
  <2> HIDE DEF bank
  <2>1. QED
    BY <1>2, <1>6 DEF BankRequest
<1> HIDE DEF late
<1>8. /\ d.bank_request = [c.bank_request EXCEPT ![b] = late]
      /\ d.queue = c.queue /\ d.scheduled = c.scheduled
      /\ d.write_mode = c.write_mode /\ d \in ChannelType
  BY <1>2, <1>5, <1>7 DEF ChannelType
<1>9. \A x \in Banks :
        /\ d.bank_request[x].working = c.bank_request[x].working
        /\ d.bank_request[x].request_index = c.bank_request[x].request_index
        /\ d.bank_request[x].serving = c.bank_request[x].serving
  <2> TAKE x \in Banks
  <2>1. CASE x = b
    <3>1. d.bank_request[x] = late
      BY <1>1, <1>2, <1>8, <2>1
    <3>2. QED
      BY <1>7, <2>1, <3>1
  <2>2. CASE x # b
    BY <1>2, <1>8, <2>2
  <2> QED BY <2>1, <2>2
<1>10. BanksAgree(d)
  <2>1. Active(d) = Active(c)
    BY <1>8 DEF Active
  <2>2. \A i \in InService(c.queue[k]) : BankOf(c.queue[k], i) \in Banks
    BY ChannelFields, EntryBank, LiveFinite
  <2>3. BanksAgree(c)
    BY DEF ChannelInv
  <2> HIDE DEF k
  <2>4. QED
    BY <1>8, <1>9, <2>1, <2>2, <2>3 DEF BanksAgree, k
<1>11. ChannelInv(d)
  BY <1>8, <1>10, ChannelFields, ChannelInvIntro
<1> QED BY <1>8, <1>11 DEF d

\* A packet put into a queue with room disturbs nothing.
LEMMA InsertKeeps ==
  ASSUME NEW c, ChannelInv(c), NEW k \in QueueNames,
         c.queue[k].occupancy # SIZE(k),
         NEW p \in Packet, p.address \in Addrs, p.scheduled = FALSE,
         p.address \notin Holds(c.queue[k])
  PROVE  LET d == [c EXCEPT !.queue[k] = Insert(@, p)] IN
         /\ ChannelInv(d)
         /\ Holds(d.queue[k]) = Holds(c.queue[k]) \cup {p.address}
         /\ \A x \in QueueNames \ {k} : d.queue[x] = c.queue[x]
<1> DEFINE d == [c EXCEPT !.queue[k] = Insert(@, p)]
           q == c.queue[k]
           r == Insert(q, p)
<1>1. q \in Queue(k) /\ QueueInv(k, q)
  BY ChannelFields
<1>2. /\ QueueInv(k, r)
      /\ InService(r) = InService(q)
      /\ Holds(r) = Holds(q) \cup {p.address}
      /\ \A j \in InService(q) : r.entry[j] = q.entry[j]
  BY <1>1, InsertInQueue
<1>3. /\ c \in ChannelType
      /\ c.queue \in [QueueNames -> Queue("RQ") \cup Queue("WQ")]
  BY ChannelFields DEF ChannelType
<1>4. r \in Queue("RQ") \cup Queue("WQ")
  BY <1>2 DEF QueueInv, QueueNames
<1>5. d = [c EXCEPT !.queue = [c.queue EXCEPT ![k] = r]]
  BY <1>3 DEF ChannelType
<1> HIDE DEF d, r
<1>6. /\ d.queue = [c.queue EXCEPT ![k] = r]
      /\ d.bank_request = c.bank_request /\ d.scheduled = c.scheduled
      /\ d.write_mode = c.write_mode /\ d \in ChannelType
  BY <1>3, <1>4, <1>5 DEF ChannelType
<1>7. /\ d.queue[k] = r
      /\ \A x \in QueueNames \ {k} : d.queue[x] = c.queue[x]
  BY <1>3, <1>6
<1>8. \A x \in QueueNames : /\ QueueInv(x, d.queue[x])
                            /\ InService(d.queue[x]) = InService(c.queue[x])
  BY <1>2, <1>7, ChannelFields
<1>9. \A x \in QueueNames : \A j \in InService(c.queue[x]) :
        d.queue[x].entry[j] = c.queue[x].entry[j]
  BY <1>2, <1>7
<1>10. BanksAgree(d)
  <2> DEFINE act == Active(c)
  <2>1. Active(d) = act /\ act \in QueueNames
    BY <1>6, ChannelFields DEF Active
  <2>2. \A j \in InService(c.queue[act]) :
          BankOf(d.queue[act], j) = BankOf(c.queue[act], j)
    BY <1>9, <2>1 DEF BankOf
  <2>3. BanksAgree(c)
    BY DEF ChannelInv
  <2>4. \A x \in QueueNames \ {act} : InService(d.queue[x]) = {}
    BY <1>8, ChannelFields
  <2>5. \A j \in InService(d.queue[act]) :
          /\ d.queue[act].entry[j].address # 0
          /\ d.bank_request[BankOf(d.queue[act], j)].request_index = j
    BY <1>6, <1>8, <1>9, <2>1, <2>2, <2>3 DEF BanksAgree
  <2>6. \A b \in Banks : LET bank == d.bank_request[b] IN
          IF bank.working
          THEN /\ bank.request_index \in InService(d.queue[act])
               /\ BankOf(d.queue[act], bank.request_index) = b
               /\ bank.serving = act
          ELSE bank.request_index = NoBank /\ bank.serving = "none"
    <3>1. \A b \in Banks : LET bank == c.bank_request[b] IN
            IF bank.working
            THEN /\ bank.request_index \in InService(c.queue[act])
                 /\ BankOf(c.queue[act], bank.request_index) = b
                 /\ bank.serving = act
            ELSE bank.request_index = NoBank /\ bank.serving = "none"
      BY <2>3 DEF BanksAgree
    <3> HIDE DEF act
    <3>2. QED
      BY <1>6, <1>8, <2>1, <2>2, <3>1
  <2> HIDE DEF act
  <2>7. QED
    BY <2>1, <2>4, <2>5, <2>6 DEF BanksAgree
<1>11. ChannelInv(d)
  <2>1. \A x \in QueueNames :
          d.scheduled[x] = Cardinality(InService(d.queue[x]))
    BY <1>6, <1>8, ChannelFields
  <2>2. QED
    BY <1>6, <1>8, <1>10, <2>1, ChannelInvIntro
<1> QED BY <1>2, <1>7, <1>11 DEF d

\* The search by address finds a block exactly when the queue holds it.
LEMMA SearchIsHolds ==
  ASSUME NEW k \in QueueNames, NEW q \in Queue(k), NEW a \in Addrs
  PROVE  /\ check_dram_queue(q, a) = {} <=> a \notin Holds(q)
         /\ check_dram_queue(q, a) \subseteq Slots(k)
         /\ Holds(q) \subseteq Addrs
<1>1. a # 0
  BY DramAssumption
<1>2. check_dram_queue(q, a) \subseteq Live(q)
  BY <1>1 DEF check_dram_queue, Live
<1>3. \A i \in Live(q) : q.entry[i].address = a => i \in check_dram_queue(q, a)
  BY DEF check_dram_queue, Live
<1>4. \A i \in check_dram_queue(q, a) : q.entry[i].address = a
  BY DEF check_dram_queue
<1>5. check_dram_queue(q, a) = {} <=> a \notin Holds(q)
  BY <1>2, <1>3, <1>4 DEF Holds
<1>6. Holds(q) \subseteq Addrs
  BY SlotsNat DEF Holds, Live, Packet
<1> QED BY <1>2, <1>5, <1>6, LiveFinite

-----------------------------------------------------------------------------
(* The specification *)

IInv ==
  /\ TypeOK
  /\ ChannelInv(channel)
  /\ pending = Holds(channel.queue["RQ"])

LEMMA InitInv == Init => IInv
<1> SUFFICES ASSUME Init
             PROVE  IInv
  OBVIOUS
<1>1. ASSUME NEW k \in QueueNames
      PROVE  /\ EmptyQueue(k) \in Queue(k)
             /\ Live(EmptyQueue(k)) = {} /\ InService(EmptyQueue(k)) = {}
  <2>1. EmptyPacket \in Packet /\ EmptyPacket.address = 0
        /\ EmptyPacket.scheduled = FALSE
    BY DramAssumption DEF EmptyPacket, Packet
  <2>2. EmptyQueue(k).entry = [i \in Slots(k) |-> EmptyPacket]
    BY DEF EmptyQueue
  <2>3. Live(EmptyQueue(k)) = {} /\ InService(EmptyQueue(k)) = {}
    BY <2>1, <2>2 DEF Live, InService
  <2>4. EmptyQueue(k) \in Queue(k)
    BY <2>1, DramAssumption DEF EmptyQueue, Queue
  <2> QED BY <2>3, <2>4
<1>2. ASSUME NEW k \in QueueNames
      PROVE  QueueInv(k, EmptyQueue(k))
  <2>1. ProcessIndexOK(EmptyQueue(k))
    BY DramAssumption DEF ProcessIndexOK, EmptyQueue
  <2>2. EmptyQueue(k).occupancy = 0
    BY DEF EmptyQueue
  <2>3. QED
    BY <1>1, <2>1, <2>2, FS_EmptySet DEF QueueInv
<1>3. /\ channel.write_mode = FALSE /\ channel.dbus_cycle_available = 0
      /\ channel.scheduled = [k \in QueueNames |-> 0]
      /\ channel.bank_request = [b \in Banks |-> BankAtRest]
      /\ channel.queue = [k \in QueueNames |-> EmptyQueue(k)]
  BY DEF Init
<1>4. channel \in ChannelType
  <2>1. BankAtRest \in BankRequest
    BY DEF BankAtRest, BankRequest
  <2>2. \A k \in QueueNames : EmptyQueue(k) \in Queue("RQ") \cup Queue("WQ")
    BY <1>1 DEF QueueNames
  <2>3. QED
    BY <2>1, <2>2 DEF Init, ChannelType
<1>5. BanksAgree(channel)
  <2>1. Active(channel) \in QueueNames
    BY DEF Active, QueueNames
  <2>2. \A x \in QueueNames : InService(channel.queue[x]) = {}
    BY <1>1, <1>3
  <2>3. \A b \in Banks : channel.bank_request[b] = BankAtRest
    BY <1>3
  <2>4. QED
    BY <2>1, <2>2, <2>3 DEF BanksAgree, BankAtRest
<1>6. \A k \in QueueNames : /\ QueueInv(k, channel.queue[k])
                            /\ InService(channel.queue[k]) = {}
                            /\ channel.scheduled[k] = 0
  BY <1>1, <1>2, <1>3
<1>7. ChannelInv(channel)
  BY <1>4, <1>5, <1>6, FS_EmptySet, ChannelInvIntro
<1>8. pending = Holds(channel.queue["RQ"])
  BY <1>1, <1>3 DEF Init, Holds, QueueNames
<1>9. TypeOK
  <2>1. ChannelOK(channel)
    BY <1>7 DEF ChannelInv
  <2>2. /\ now \in Nat /\ warm \in BOOLEAN /\ pending \subseteq Addrs
        /\ reads \in 0 .. MaxReads /\ writes \in 0 .. MaxWrites
        /\ last_transfer \in [start : Nat, queue : QueueNames \cup {"none"}]
    <3>1. /\ now = 0 /\ warm = FALSE /\ pending = {} /\ reads = 0 /\ writes = 0
          /\ last_transfer = [start |-> 0, queue |-> "none"]
      BY DEF Init
    <3>2. last_transfer \in [start : Nat, queue : QueueNames \cup {"none"}]
      BY <3>1
    <3>3. reads \in 0 .. MaxReads /\ writes \in 0 .. MaxWrites
      BY <3>1, DramAssumption
    <3>4. QED
      BY <3>1, <3>2, <3>3
  <2>3. QED
    BY <2>1, <2>2 DEF TypeOK
<1> QED BY <1>7, <1>8, <1>9 DEF IInv

\* What operate() does to the blocks the queues hold.
Completes(k, a) ==
  /\ a \in Holds(channel.queue[k])
  /\ Holds(channel'.queue[k]) = Holds(channel.queue[k]) \ {a}
  /\ \A x \in QueueNames \ {k} :
       Holds(channel'.queue[x]) = Holds(channel.queue[x])
  /\ pending' = IF k = "RQ" THEN pending \ {a} ELSE pending

CompletesNothing ==
  /\ \A x \in QueueNames :
       Holds(channel'.queue[x]) = Holds(channel.queue[x])
  /\ pending' = pending

LEMMA OperateStep ==
  ASSUME IInv, operate
  PROVE  /\ ChannelInv(channel')
         /\ \/ \E k \in QueueNames, a \in Addrs : Completes(k, a)
            \/ CompletesNothing
         /\ now' \in Nat
         /\ last_transfer' \in [start : Nat, queue : QueueNames \cup {"none"}]
<1> DEFINE c == ScheduleStep(SwitchMode(channel))
           k == Active(c)
           q == c.queue[k]
           p == q.entry[q.next_process_index]
           d == process(c, k)
<1>1. now \in Nat /\ now + 1 < UINT64_MAX /\ now' \in Nat
  BY DEF IInv, TypeOK, operate, CycleEnds
<1>2. /\ ChannelInv(c)
      /\ \A x \in QueueNames : Holds(c.queue[x]) = Holds(channel.queue[x])
  <2>1. /\ ChannelInv(SwitchMode(channel))
        /\ \A x \in QueueNames :
             Holds(SwitchMode(channel).queue[x]) = Holds(channel.queue[x])
    BY <1>1, SwitchKeeps DEF IInv
  <2>2. /\ ChannelInv(c)
        /\ \A x \in QueueNames :
             Holds(c.queue[x]) = Holds(SwitchMode(channel).queue[x])
    BY <1>1, <2>1, ScheduleKeeps
  <2>3. QED
    BY <2>1, <2>2
<1>3. /\ channel' = d
      /\ IF Transfers(c)
         THEN last_transfer' = [start |-> now, queue |-> k]
         ELSE UNCHANGED last_transfer
      /\ pending' = IF Transfers(c) /\ k = "RQ" THEN pending \ {p.address}
                    ELSE pending
  BY Zenon DEF operate
<1>4. last_transfer \in [start : Nat, queue : QueueNames \cup {"none"}]
  BY DEF IInv, TypeOK
<1>5. k \in QueueNames /\ q \in Queue(k)
  BY <1>2, ChannelFields
<1> HIDE DEF c, k, q, d, p
<1>6. CASE Transfers(c)
  <2>1. /\ ChannelInv(d)
        /\ p.address \in Holds(q) /\ Holds(d.queue[k]) = Holds(q) \ {p.address}
        /\ \A x \in QueueNames \ {k} : d.queue[x] = c.queue[x]
    BY <1>1, <1>2, <1>6, TransferKeeps DEF k, q, d, p
  <2>2. p.address \in Addrs /\ p \in Packet
    <3>1. Holds(q) \subseteq Addrs
      BY <1>5, SlotsNat DEF Holds, Live, Packet
    <3>2. q.next_process_index \in Slots(k)
      BY <1>1, <1>2, <1>6, ProcessedRequest DEF Transfers, k, q
    <3>3. QED
      BY <1>5, <2>1, <3>1, <3>2, SlotsNat DEF p
  <2>3. Completes(k, p.address)
    BY <1>2, <1>3, <1>5, <1>6, <2>1 DEF Completes, q
  <2>4. last_transfer' \in [start : Nat, queue : QueueNames \cup {"none"}]
    BY <1>1, <1>3, <1>4, <1>5, <1>6, <2>2 DEF Packet
  <2>5. QED
    BY <1>1, <1>3, <1>5, <2>1, <2>2, <2>3, <2>4
<1>7. CASE ~Transfers(c)
  <2>1. ChannelInv(d) /\ d.queue = c.queue
    <3>1. CASE BusBusy(c)
      BY <1>1, <1>2, <3>1, BusBusyKeeps DEF d, k
    <3>2. CASE ~BusBusy(c)
      <4>1. d = c
        BY <1>7, <3>2, Zenon DEF d, process
      <4>2. QED
        BY <1>2, <4>1
    <3> QED BY <3>1, <3>2
  <2>2. CompletesNothing
    BY <1>2, <1>3, <1>7, <2>1 DEF CompletesNothing
  <2>3. QED
    BY <1>1, <1>3, <1>4, <1>7, <2>1, <2>2
<1> QED BY <1>6, <1>7

\* What a read or a writeback of block a does.
Accepts(k, a) ==
  /\ a \notin Holds(channel.queue[k])
  /\ Holds(channel'.queue[k]) = Holds(channel.queue[k]) \cup {a}
  /\ \A x \in QueueNames \ {k} :
       Holds(channel'.queue[x]) = Holds(channel.queue[x])
  /\ pending' = IF k = "RQ" THEN pending \cup {a} ELSE pending

LEMMA ReadStep ==
  ASSUME IInv, NEW a \in Addrs, NEW t \in Nat, add_rq(a, t)
  PROVE  /\ ChannelInv(channel')
         /\ \/ Accepts("RQ", a) /\ a \notin Holds(channel.queue["WQ"])
            \/ CompletesNothing
<1> DEFINE wq == channel.queue["WQ"]
           rq == channel.queue["RQ"]
           p == [address |-> a, scheduled |-> FALSE, event_cycle |-> t]
<1>1. /\ wq \in Queue("WQ") /\ rq \in Queue("RQ") /\ ChannelInv(channel)
      /\ "RQ" \in QueueNames /\ "WQ" \in QueueNames
  BY ChannelFields DEF IInv, QueueNames
<1>2. /\ check_dram_queue(wq, a) = {} <=> a \notin Holds(wq)
      /\ check_dram_queue(rq, a) = {} <=> a \notin Holds(rq)
      /\ check_dram_queue(wq, a) \subseteq Slots("WQ")
  BY <1>1, SearchIsHolds
<1>3. a \notin Holds(rq)
  BY DEF IInv, add_rq
<1>5. CASE ~warm \/ check_dram_queue(wq, a) # {}
  <2>1. channel' = channel /\ pending' = pending
    BY <1>5 DEF add_rq, WaitingWrite
  <2>2. QED
    BY <1>1, <2>1 DEF CompletesNothing
<1>6. CASE warm /\ check_dram_queue(wq, a) = {}
  <2>1. /\ channel' = [channel EXCEPT !.queue["RQ"] = Insert(@, p)]
        /\ pending' = pending \cup {a}
        /\ rq.occupancy # SIZE("RQ")
    BY <1>2, <1>3, <1>6, Zenon DEF add_rq, WaitingWrite, HasRoom
  <2>2. p \in Packet /\ p.address = a /\ p.scheduled = FALSE
    BY DEF Packet
  <2> HIDE DEF p
  <2>3. /\ ChannelInv(channel')
        /\ Holds(channel'.queue["RQ"]) = Holds(rq) \cup {a}
        /\ \A x \in QueueNames \ {"RQ"} : channel'.queue[x] = channel.queue[x]
    <3> DEFINE d == [channel EXCEPT !.queue["RQ"] = Insert(@, p)]
    <3>1. p.address \in Addrs /\ p.address \notin Holds(channel.queue["RQ"])
      BY <1>3, <2>2
    <3>2. /\ ChannelInv(d)
          /\ Holds(d.queue["RQ"]) = Holds(channel.queue["RQ"]) \cup {p.address}
          /\ \A x \in QueueNames \ {"RQ"} : d.queue[x] = channel.queue[x]
      BY <1>1, <2>1, <2>2, <3>1, InsertKeeps, Zenon
    <3> HIDE DEF d
    <3>3. channel' = d
      BY <2>1, Zenon DEF d
    <3>4. QED
      BY <2>2, <3>2, <3>3
  <2>4. QED
    BY <1>2, <1>3, <1>6, <2>1, <2>3 DEF Accepts
<1>7. QED
  BY <1>5, <1>6

LEMMA WriteStep ==
  ASSUME IInv, NEW a \in Addrs, NEW t \in Nat, add_wq(a, t)
  PROVE  /\ ChannelInv(channel')
         /\ Accepts("WQ", a) \/ CompletesNothing
<1> DEFINE wq == channel.queue["WQ"]
           p == [address |-> a, scheduled |-> FALSE, event_cycle |-> t]
<1>1. /\ wq \in Queue("WQ") /\ ChannelInv(channel)
      /\ "RQ" \in QueueNames /\ "WQ" \in QueueNames
      /\ writes \in Nat /\ pending' = pending
  BY ChannelFields, DramAssumption DEF IInv, QueueNames, TypeOK, add_wq
<1>2. check_dram_queue(wq, a) = {} <=> a \notin Holds(wq)
  BY <1>1, SearchIsHolds
<1>3. CASE ~warm \/ check_dram_queue(wq, a) # {}
  <2>1. channel' = channel
    BY <1>3, Zenon DEF add_wq, WaitingWrite
  <2>2. QED
    BY <1>1, <2>1 DEF CompletesNothing
<1>4. CASE ~(~warm \/ check_dram_queue(wq, a) # {})
  <2>1. /\ channel' = [channel EXCEPT !.queue["WQ"] = Insert(@, p)]
        /\ wq.occupancy # SIZE("WQ")
    BY <1>4, Zenon DEF add_wq, WaitingWrite, HasRoom
  <2>2. p \in Packet /\ p.address = a /\ p.scheduled = FALSE
    BY <1>1 DEF Packet
  <2>3. a \notin Holds(wq)
    BY <1>2, <1>4
  <2> HIDE DEF p
  <2>4. /\ ChannelInv(channel')
        /\ Holds(channel'.queue["WQ"]) = Holds(wq) \cup {a}
        /\ \A x \in QueueNames \ {"WQ"} : channel'.queue[x] = channel.queue[x]
    <3> DEFINE d == [channel EXCEPT !.queue["WQ"] = Insert(@, p)]
    <3>1. p.address \in Addrs /\ p.address \notin Holds(channel.queue["WQ"])
      BY <2>2, <2>3
    <3>2. /\ ChannelInv(d)
          /\ Holds(d.queue["WQ"]) = Holds(channel.queue["WQ"]) \cup {p.address}
          /\ \A x \in QueueNames \ {"WQ"} : d.queue[x] = channel.queue[x]
      BY <1>1, <2>1, <2>2, <3>1, InsertKeeps, Zenon
    <3> HIDE DEF d
    <3>3. channel' = d
      BY <2>1, Zenon DEF d
    <3>4. QED
      BY <2>2, <3>2, <3>3
  <2>5. QED
    BY <1>1, <2>3, <2>4 DEF Accepts
<1> QED BY <1>3, <1>4

\* Every step keeps the invariant, and what it does to the blocks held is a
\* step of the memory port or nothing.
LEMMA StepInv ==
  ASSUME IInv, [Next]_vars
  PROVE  /\ IInv'
         /\ \/ \E k \in QueueNames, a \in Addrs : Completes(k, a)
            \/ \E a \in Addrs : /\ Accepts("RQ", a)
                                /\ a \notin Holds(channel.queue["WQ"])
            \/ \E a \in Addrs : Accepts("WQ", a)
            \/ CompletesNothing
<1> DEFINE Effect == \/ \E k \in QueueNames, a \in Addrs : Completes(k, a)
                     \/ \E a \in Addrs : /\ Accepts("RQ", a)
                                         /\ a \notin Holds(channel.queue["WQ"])
                     \/ \E a \in Addrs : Accepts("WQ", a)
                     \/ CompletesNothing
           Others == /\ now' \in Nat /\ warm' \in BOOLEAN
                     /\ reads' \in 0 .. MaxReads /\ writes' \in 0 .. MaxWrites
                     /\ last_transfer' \in
                          [start : Nat, queue : QueueNames \cup {"none"}]
<1>1. /\ now \in Nat /\ warm \in BOOLEAN
      /\ reads \in 0 .. MaxReads /\ writes \in 0 .. MaxWrites
      /\ last_transfer \in [start : Nat, queue : QueueNames \cup {"none"}]
      /\ ChannelInv(channel) /\ pending = Holds(channel.queue["RQ"])
  BY DEF IInv, TypeOK
<1>2. ChannelInv(channel') /\ Effect /\ Others
  <2>1. CASE operate
    <3>1. /\ ChannelInv(channel') /\ Effect /\ now' \in Nat
          /\ last_transfer' \in [start : Nat, queue : QueueNames \cup {"none"}]
      BY <2>1, OperateStep, Zenon
    <3>2. warm' = warm /\ reads' = reads /\ writes' = writes
      BY <2>1 DEF operate
    <3> HIDE DEF Effect
    <3>3. QED
      BY <1>1, <3>1, <3>2
  <2>2. ASSUME NEW a \in Addrs, NEW t \in now - MaxQueueing .. now,
               t >= 0, add_rq(a, t)
        PROVE  ChannelInv(channel') /\ Effect /\ Others
    <3>1. t \in Nat
      BY <1>1, <2>2, DramAssumption
    <3>2. /\ ChannelInv(channel') /\ Effect
      BY <2>2, <3>1, ReadStep, Zenon
    <3>3. /\ now' = now /\ warm' = warm /\ writes' = writes
          /\ last_transfer' = last_transfer
          /\ reads < MaxReads /\ reads' = reads + 1
      BY <2>2 DEF add_rq
    <3> HIDE DEF Effect
    <3>4. QED
      BY <1>1, <3>2, <3>3, DramAssumption
  <2>3. ASSUME NEW a \in Addrs, NEW t \in now - MaxQueueing .. now,
               t >= 0, add_wq(a, t)
        PROVE  ChannelInv(channel') /\ Effect /\ Others
    <3>1. t \in Nat
      BY <1>1, <2>3, DramAssumption
    <3>2. ChannelInv(channel') /\ Effect
      BY <2>3, <3>1, WriteStep, Zenon
    <3>3. /\ now' = now /\ warm' = warm /\ reads' = reads
          /\ last_transfer' = last_transfer
          /\ writes < MaxWrites /\ writes' = writes + 1
      BY <2>3 DEF add_wq
    <3> HIDE DEF Effect
    <3>4. QED
      BY <1>1, <3>2, <3>3, DramAssumption
  <2>4. CASE finish_warmup
    <3>1. CompletesNothing
      BY <2>4 DEF finish_warmup, CompletesNothing
    <3>2. /\ channel' = channel /\ now' = now /\ warm' = TRUE /\ reads' = reads
          /\ writes' = writes
          /\ last_transfer' = last_transfer
      BY <2>4 DEF finish_warmup
    <3>3. QED
      BY <1>1, <3>1, <3>2
  <2>5. CASE UNCHANGED vars
    <3>1. CompletesNothing
      BY <2>5 DEF vars, CompletesNothing
    <3>2. /\ channel' = channel /\ now' = now /\ warm' = warm /\ reads' = reads
          /\ writes' = writes
          /\ last_transfer' = last_transfer
      BY <2>5 DEF vars
    <3>3. QED
      BY <1>1, <3>1, <3>2
  <2> HIDE DEF Effect, Others
  <2>6. QED
    BY <2>1, <2>2, <2>3, <2>4, <2>5 DEF Next
<1>3. pending' = Holds(channel'.queue["RQ"]) /\ pending' \subseteq Addrs
  <2>1. pending' = Holds(channel'.queue["RQ"])
    <3>1. CASE CompletesNothing
      BY <1>1, <3>1 DEF CompletesNothing, QueueNames
    <3>2. CASE \E k \in QueueNames, a \in Addrs : Completes(k, a)
      BY <1>1, <3>2 DEF Completes, QueueNames
    <3>3. CASE \E a \in Addrs : Accepts("RQ", a)
      BY <1>1, <3>3 DEF Accepts
    <3>4. CASE \E a \in Addrs : Accepts("WQ", a)
      BY <1>1, <3>4 DEF Accepts, QueueNames
    <3>5. QED
      BY <1>2, <3>1, <3>2, <3>3, <3>4
  <2>2. channel'.queue["RQ"] \in Queue("RQ")
    BY <1>2, ChannelFields DEF QueueNames
  <2>3. QED
    BY <2>1, <2>2, SlotsNat DEF Holds, Live, Packet, QueueNames
<1>4. ChannelOK(channel')
  BY <1>2 DEF ChannelInv
<1>5. IInv'
  BY <1>2, <1>3, <1>4 DEF IInv, TypeOK
<1> QED BY <1>2, <1>5

\* ChannelInv and pending = Holds(...) hold in every reachable state.
THEOREM Invariance == Spec => []IInv
<1>1. IInv /\ [Next]_vars => IInv'
  BY StepInv
<1> QED BY InitInv, <1>1, PTL DEF Spec

\* No operation leaves the types of the channel: in particular occupancy and
\* the counters of requests in service never go below zero.
THEOREM TypeCorrect == Spec => []TypeOK
<1>1. IInv => TypeOK
  BY DEF IInv
<1> QED BY Invariance, <1>1, PTL

\* Banks and requests in service point at each other one to one, so the
\* assertion of process() never fails.
THEOREM BanksAlwaysAgree == Spec => []BankBookkeeping
<1>1. IInv => BankBookkeeping
  BY DEF IInv, ChannelInv, BankBookkeeping
<1> QED BY Invariance, <1>1, PTL

\* The counters of scheduled reads and writes are exact, so the assertions of
\* reset_remain_requests never fail.
THEOREM CountersAlwaysExact == Spec => []CountersExact
<1>1. IInv => CountersExact
  BY DEF IInv, ChannelInv, CountersExact
<1> QED BY Invariance, <1>1, PTL

\* No read is lost, and no block is in two slots of a queue.
THEOREM QueuesAlwaysExact == Spec => []QueuesExact
<1>1. IInv => QueuesExact
  BY DEF IInv, ChannelInv, QueueInv, QueuesExact
<1> QED BY Invariance, <1>1, PTL

\* The controller, with its modes, banks and abandoned requests, implements
\* the abstract memory port.
THEOREM ControllerImplementsPort == Spec => ImplementsPort
<1>1. Init => Port!Init
  <2> SUFFICES ASSUME Init
               PROVE  Port!Init
    OBVIOUS
  <2>1. \A k \in QueueNames : Live(EmptyQueue(k)) = {}
    BY DEF EmptyQueue, EmptyPacket, Live
  <2>2. \A k \in QueueNames : channel.queue[k] = EmptyQueue(k)
    BY DEF Init
  <2>3. QED
    BY <2>1, <2>2 DEF Port!Init, Holds, QueueNames
<1>2. IInv /\ [Next]_vars => [Port!Next]_(Port!vars)
  <2> SUFFICES ASSUME IInv, [Next]_vars
               PROVE  [Port!Next]_(Port!vars)
    OBVIOUS
  <2> DEFINE rd == Holds(channel.queue["RQ"])
             wr == Holds(channel.queue["WQ"])
             rd2 == Holds(channel'.queue["RQ"])
             wr2 == Holds(channel'.queue["WQ"])
  <2>1. \/ \E k \in QueueNames, a \in Addrs : Completes(k, a)
        \/ \E a \in Addrs : Accepts("RQ", a) /\ a \notin wr
        \/ \E a \in Addrs : Accepts("WQ", a)
        \/ CompletesNothing
    BY StepInv
  <2>2. \/ \E a \in Addrs : \/ a \notin rd \cup wr /\ rd2 = rd \cup {a} /\ wr2 = wr
                            \/ a \notin wr /\ wr2 = wr \cup {a} /\ rd2 = rd
                            \/ a \in rd /\ rd2 = rd \ {a} /\ wr2 = wr
                            \/ a \in wr /\ wr2 = wr \ {a} /\ rd2 = rd
        \/ rd2 = rd /\ wr2 = wr
    BY <2>1 DEF Completes, Accepts, CompletesNothing, QueueNames
  <2>3. rd' = rd2 /\ wr' = wr2
    BY DEF Holds, Live
  <2> HIDE DEF rd2, wr2
  <2>4. QED
    BY <2>2, <2>3 DEF Port!Next, Port!vars, Port!AcceptRead, Port!AcceptWrite,
                      Port!ReturnRead, Port!CompleteWrite
<1> QED BY Invariance, <1>1, <1>2, PTL DEF Spec, ImplementsPort, Port!Spec

-----------------------------------------------------------------------------
(* The data bus *)

\* The bus is reserved past the last transfer, and past the turn-around time
\* when the mode has changed since.
BusReserved(c) ==
  IF last_transfer.queue = "none" THEN last_transfer.start = 0
  ELSE c.dbus_cycle_available >=
         last_transfer.start + DRAM_DBUS_RETURN_TIME
         + (IF last_transfer.queue = Active(c) THEN 0
            ELSE DRAM_DBUS_TURN_AROUND_TIME)

LEMMA SwitchReserves ==
  ASSUME IInv, BusReserved(channel)
  PROVE  BusReserved(SwitchMode(channel))
<1> DEFINE d == SwitchMode(channel)
<1>1. /\ last_transfer.start \in Nat
      /\ channel.dbus_cycle_available \in Nat
      /\ channel.write_mode \in BOOLEAN /\ channel \in ChannelType
  BY ChannelFields DEF IInv, TypeOK, ChannelType
<1>2. CASE ~(StartWriting(channel) \/ StopWriting(channel))
  BY <1>2 DEF SwitchMode
<1>3. CASE StartWriting(channel) \/ StopWriting(channel)
  <2>1. /\ d.write_mode = ~channel.write_mode
        /\ d.dbus_cycle_available =
             channel.dbus_cycle_available + DRAM_DBUS_TURN_AROUND_TIME
    BY <1>1, <1>3 DEF SwitchMode, reset_remain_requests, ChannelType
  <2>2. Active(d) # Active(channel)
    BY <1>1, <2>1 DEF Active
  <2> HIDE DEF d
  <2>3. BusReserved(d)
    BY <1>1, <2>1, <2>2, DramAssumption DEF BusReserved
  <2>4. QED
    BY <2>3 DEF d
<1> QED BY <1>2, <1>3

LEMMA ScheduleReserves ==
  ASSUME NEW c, c \in ChannelType
  PROVE  /\ ScheduleStep(c).write_mode = c.write_mode
         /\ ScheduleStep(c).dbus_cycle_available = c.dbus_cycle_available
<1>1. \A k, i, x, y, z :
        LET d == [c EXCEPT !.bank_request[x] = y, !.scheduled[k] = @ + 1,
                           !.queue[k] = z]
        IN /\ d.write_mode = c.write_mode
           /\ d.dbus_cycle_available = c.dbus_cycle_available
  BY DEF ChannelType
<1>2. CASE ScheduleStep(c) = c
  BY <1>2
<1>3. CASE ScheduleStep(c) # c
  <2>1. ScheduleStep(c) = schedule(c, Active(c))
    BY <1>3, Zenon DEF ScheduleStep
  <2>2. \E k, x, y, z :
          schedule(c, Active(c)) =
            [c EXCEPT !.bank_request[x] = y, !.scheduled[k] = @ + 1,
                      !.queue[k] = z]
    BY <1>3, <2>1, Zenon DEF schedule
  <2>3. QED
    BY <1>1, <2>1, <2>2
<1> QED BY <1>2, <1>3

\* A transfer starts after the gap that the previous one calls for.
LEMMA OperateReserves ==
  ASSUME IInv, BusReserved(channel), operate
  PROVE  /\ BusReserved(channel)'
         /\ last_transfer' # last_transfer =>
              last_transfer'.start >=
                last_transfer.start + TransferGap(last_transfer, last_transfer')
<1> DEFINE c == ScheduleStep(SwitchMode(channel))
           k == Active(c)
           d == process(c, k)
<1>1. /\ now \in Nat /\ now + 1 < UINT64_MAX /\ last_transfer.start \in Nat
      /\ last_transfer.queue \in QueueNames \cup {"none"}
  BY DEF IInv, TypeOK, operate, CycleEnds
<1>2. ChannelInv(SwitchMode(channel)) /\ ChannelInv(c)
  BY <1>1, SwitchKeeps, ScheduleKeeps DEF IInv
<1>3. BusReserved(c)
  <2>1. BusReserved(SwitchMode(channel))
    BY SwitchReserves
  <2>2. /\ c.write_mode = SwitchMode(channel).write_mode
        /\ c.dbus_cycle_available = SwitchMode(channel).dbus_cycle_available
    BY <1>2, ChannelFields, ScheduleReserves
  <2> HIDE DEF c
  <2>3. QED
    BY <2>1, <2>2 DEF BusReserved, Active
<1>4. /\ c \in ChannelType /\ c.dbus_cycle_available \in Nat
      /\ c.write_mode \in BOOLEAN /\ k \in QueueNames
  BY <1>2, ChannelFields DEF ChannelType
<1>5. /\ channel' = d
      /\ IF Transfers(c)
         THEN last_transfer' = [start |-> now, queue |-> k]
         ELSE UNCHANGED last_transfer
  BY Zenon DEF operate
<1> HIDE DEF c, k, d
<1>6. BusReserved(channel)' <=>
        IF last_transfer'.queue = "none" THEN last_transfer'.start = 0
        ELSE d.dbus_cycle_available >=
               last_transfer'.start + DRAM_DBUS_RETURN_TIME
               + (IF last_transfer'.queue = Active(d) THEN 0
                  ELSE DRAM_DBUS_TURN_AROUND_TIME)
  BY <1>5 DEF BusReserved, Active
<1>7. CASE Transfers(c)
  <2>1. d.write_mode = c.write_mode
        /\ d.dbus_cycle_available = now + DRAM_DBUS_RETURN_TIME
    <3>1. ~BusBusy(c)
      BY <1>1, <1>4, <1>7 DEF BusBusy, Transfers
    <3>2. QED
      BY <1>4, <1>7, <3>1 DEF d, process, ChannelType
  <2>2. Active(d) = k
    BY <2>1 DEF Active, k
  <2>3. c.dbus_cycle_available <= now
    BY <1>7 DEF Transfers
  <2>4. last_transfer' = [start |-> now, queue |-> k] /\ k # "none"
    BY <1>4, <1>5, <1>7 DEF QueueNames
  <2>5. BusReserved(channel)'
    BY <1>1, <1>6, <2>1, <2>2, <2>4, DramAssumption
  <2>6. now >= last_transfer.start + TransferGap(last_transfer, last_transfer')
    BY <1>1, <1>3, <1>4, <2>3, <2>4, DramAssumption
       DEF TransferGap, BusReserved, k
  <2>7. QED
    BY <2>4, <2>5, <2>6
<1>8. CASE ~Transfers(c)
  <2>1. d.write_mode = c.write_mode
        /\ d.dbus_cycle_available = c.dbus_cycle_available
    <3>1. CASE BusBusy(c)
      BY <1>4, <1>8, <3>1 DEF d, process, ChannelType
    <3>2. CASE ~BusBusy(c)
      BY <1>8, <3>2 DEF d, process
    <3> QED BY <3>1, <3>2
  <2>2. Active(d) = k
    BY <2>1 DEF Active, k
  <2>3. last_transfer' = last_transfer
    BY <1>5, <1>8
  <2>4. QED
    BY <1>3, <1>6, <2>1, <2>2, <2>3 DEF BusReserved, k
<1> QED BY <1>7, <1>8

\* The calls of the LLC touch neither the bus nor the mode.
LEMMA CallsReserve ==
  ASSUME IInv, BusReserved(channel), [Next]_vars, ~operate
  PROVE  BusReserved(channel)' /\ last_transfer' = last_transfer
<1>1. channel \in ChannelType
  BY ChannelFields DEF IInv
<1>2. \A k, r : LET d == [channel EXCEPT !.queue[k] = r] IN
        /\ d.write_mode = channel.write_mode
        /\ d.dbus_cycle_available = channel.dbus_cycle_available
  BY <1>1 DEF ChannelType
<1>3. /\ last_transfer' = last_transfer
      /\ channel' = channel \/ \E k, r : channel' = [channel EXCEPT !.queue[k] = r]
  <2>1. ASSUME NEW a \in Addrs, NEW t, add_rq(a, t)
        PROVE  <1>3!:
    BY <2>1, Zenon DEF add_rq
  <2>2. ASSUME NEW a \in Addrs, NEW t, add_wq(a, t)
        PROVE  <1>3!:
    BY <2>2, Zenon DEF add_wq
  <2>3. CASE finish_warmup \/ UNCHANGED vars
    BY <2>3 DEF finish_warmup, vars
  <2> QED BY <2>1, <2>2, <2>3 DEF Next
<1>4. /\ channel'.write_mode = channel.write_mode
      /\ channel'.dbus_cycle_available = channel.dbus_cycle_available
  <2>1. CASE channel' = channel
    BY <2>1
  <2>2. CASE channel' # channel
    <3>1. PICK k, r : channel' = [channel EXCEPT !.queue[k] = r]
      BY <1>3, <2>2, Zenon
    <3>2. QED
      BY <1>2, <3>1, Zenon
  <2> QED BY <2>1, <2>2
<1> QED BY <1>3, <1>4 DEF BusReserved, Active

\* Transfers never overlap on the data bus, and the bus rests between
\* transfers in opposite directions.
THEOREM TransfersAlwaysSpaced == Spec => TransfersSpaced
<1>1. Init => BusReserved(channel)
  BY DEF Init, BusReserved
<1>2. IInv /\ BusReserved(channel) /\ [Next]_vars => BusReserved(channel)'
  BY OperateReserves, CallsReserve
<1>3. IInv /\ BusReserved(channel) /\ [Next]_vars =>
        [last_transfer'.start >= last_transfer.start
           + TransferGap(last_transfer, last_transfer')]_last_transfer
  BY OperateReserves, CallsReserve
<1> QED BY Invariance, <1>1, <1>2, <1>3, PTL DEF Spec, TransfersSpaced
-----------------------------------------------------------------------------
(* The cached indices are those of the oldest entries *)

\* What CachedIndicesFresh says of one queue.
WaitingFresh(q) ==
  IF Unscheduled(q) = {} THEN q.next_schedule_cycle = UINT64_MAX
  ELSE /\ q.next_schedule_index = Oldest(q, Unscheduled(q))
       /\ q.next_schedule_cycle = q.entry[q.next_schedule_index].event_cycle

ServedFresh(q) ==
  LET served == Timed(q, InService(q)) IN
  IF served = {} THEN q.next_process_cycle = UINT64_MAX
  ELSE /\ q.next_process_index = Oldest(q, served)
       /\ q.next_process_cycle = q.entry[q.next_process_index].event_cycle

QueueFresh(q) == WaitingFresh(q) /\ ServedFresh(q)

LEMMA ChosenSets ==
  ASSUME NEW k \in QueueNames, NEW q \in Queue(k)
  PROVE  /\ Unscheduled(q) \subseteq Slots(k) /\ Unscheduled(q) \subseteq Nat
         /\ Timed(q, InService(q)) \subseteq Slots(k)
         /\ Timed(q, InService(q)) \subseteq Nat
         /\ \A i \in Slots(k) : q.entry[i].event_cycle \in Nat
BY SlotsNat DEF Unscheduled, Timed, Live, InService, Packet

\* A queue whose entries waiting are those of another is as fresh.
LEMMA WaitingKept ==
  ASSUME NEW k \in QueueNames, NEW q \in Queue(k), NEW r, WaitingFresh(q),
         Unscheduled(r) = Unscheduled(q),
         \A i \in Unscheduled(q) : r.entry[i].event_cycle = q.entry[i].event_cycle,
         r.next_schedule_index = q.next_schedule_index,
         r.next_schedule_cycle = q.next_schedule_cycle
  PROVE  WaitingFresh(r)
<1>1. CASE Unscheduled(q) = {}
  BY <1>1 DEF WaitingFresh
<1>2. CASE Unscheduled(q) # {}
  <2>1. /\ Oldest(q, Unscheduled(q)) \in Unscheduled(q)
        /\ Oldest(r, Unscheduled(q)) = Oldest(q, Unscheduled(q))
    BY <1>2, ChosenSets, OldestFirst, OldestSame
  <2> QED BY <1>2, <2>1 DEF WaitingFresh
<1> QED BY <1>1, <1>2

LEMMA ServedKept ==
  ASSUME NEW k \in QueueNames, NEW q \in Queue(k), NEW r, ServedFresh(q),
         Timed(r, InService(r)) = Timed(q, InService(q)),
         \A i \in InService(q) : r.entry[i].event_cycle = q.entry[i].event_cycle,
         r.next_process_index = q.next_process_index,
         r.next_process_cycle = q.next_process_cycle
  PROVE  ServedFresh(r)
<1> DEFINE S == Timed(q, InService(q))
<1>1. CASE S = {}
  BY <1>1 DEF ServedFresh
<1>2. CASE S # {}
  <2>1. S \subseteq InService(q) /\ S \subseteq Nat /\ \A i \in S : q.entry[i].event_cycle \in Nat
    BY ChosenSets DEF Timed
  <2>2. Oldest(q, S) \in S /\ Oldest(r, S) = Oldest(q, S)
    <3> HIDE DEF S
    <3> QED BY <1>2, <2>1, OldestFirst, OldestSame
  <2> QED BY <1>2, <2>1, <2>2 DEF ServedFresh
<1> QED BY <1>1, <1>2

\* The update functions make their part fresh and leave the other one alone.
LEMMA ScheduleUpdateFresh ==
  ASSUME NEW k \in QueueNames, NEW q \in Queue(k)
  PROVE  LET r == update_schedule_cycle(q) IN
         WaitingFresh(r) /\ (ServedFresh(q) => ServedFresh(r))
<1> DEFINE r == update_schedule_cycle(q)
           S == Unscheduled(q)
<1>1. /\ r.entry = q.entry /\ r.next_process_index = q.next_process_index
      /\ r.next_process_cycle = q.next_process_cycle
  BY ScheduleUpdate DEF SameEntries
<1>2. /\ S = {} => r.next_schedule_cycle = UINT64_MAX
      /\ S # {} => /\ r.next_schedule_index = Oldest(q, S)
                   /\ r.next_schedule_cycle = q.entry[Oldest(q, S)].event_cycle
  BY DEF update_schedule_cycle, Queue
<1> HIDE DEF r
<1>3. Unscheduled(r) = S /\ Timed(r, InService(r)) = Timed(q, InService(q))
  BY <1>1, Zenon DEF Unscheduled, Timed, Live, InService
<1>4. Oldest(r, S) = Oldest(q, S)
  BY <1>1, Zenon DEF Oldest
<1> HIDE DEF S
<1>5. WaitingFresh(r)
  BY <1>1, <1>2, <1>3, <1>4 DEF WaitingFresh
<1>6. ServedFresh(q) => ServedFresh(r)
  BY <1>1, <1>3, ServedKept
<1> QED BY <1>5, <1>6 DEF r

LEMMA ProcessUpdateFresh ==
  ASSUME NEW k \in QueueNames, NEW q \in Queue(k)
  PROVE  LET r == update_process_cycle(q) IN
         ServedFresh(r) /\ (WaitingFresh(q) => WaitingFresh(r))
<1> DEFINE r == update_process_cycle(q)
           S == Timed(q, InService(q))
<1>1. r.entry = q.entry
  BY ProcessUpdate DEF SameEntries
<1>2. /\ S = {} => r.next_process_cycle = UINT64_MAX
      /\ S # {} => /\ r.next_process_index = Oldest(q, S)
                   /\ r.next_process_cycle = q.entry[Oldest(q, S)].event_cycle
      /\ r.next_schedule_index = q.next_schedule_index
      /\ r.next_schedule_cycle = q.next_schedule_cycle
  <2>1. CASE S = {}
    <3>1. r = [q EXCEPT !.next_process_index = q.SIZE,
                        !.next_process_cycle = UINT64_MAX]
      BY <2>1, Zenon DEF update_process_cycle
    <3> HIDE DEF r, S
    <3> QED BY <2>1, <3>1 DEF Queue
  <2>2. CASE S # {}
    <3>1. r = [q EXCEPT !.next_process_index = Oldest(q, S),
                        !.next_process_cycle = q.entry[Oldest(q, S)].event_cycle]
      BY <2>2, Zenon DEF update_process_cycle
    <3> HIDE DEF r, S
    <3> QED BY <2>2, <3>1 DEF Queue
  <2> QED BY <2>1, <2>2
<1> HIDE DEF r
<1>3. Unscheduled(r) = Unscheduled(q) /\ Timed(r, InService(r)) = S
  BY <1>1, Zenon DEF Unscheduled, Timed, Live, InService
<1>4. Oldest(r, S) = Oldest(q, S)
  BY <1>1, Zenon DEF Oldest
<1> HIDE DEF S
<1>5. ServedFresh(r)
  BY <1>1, <1>2, <1>3, <1>4 DEF ServedFresh
<1>6. WaitingFresh(q) => WaitingFresh(r)
  BY <1>1, <1>2, <1>3, WaitingKept
<1> QED BY <1>5, <1>6 DEF r

LEMMA UpdatesFresh ==
  ASSUME NEW k \in QueueNames, NEW q \in Queue(k)
  PROVE  QueueFresh(update_cycles(q))
<1>1. update_schedule_cycle(q) \in Queue(k) /\ WaitingFresh(update_schedule_cycle(q))
  BY ScheduleUpdate, ScheduleUpdateFresh
<1> QED BY <1>1, ProcessUpdateFresh DEF update_cycles, QueueFresh

\* The entry that process removes is in service, so what waits stays.
LEMMA RemoveFresh ==
  ASSUME NEW k \in QueueNames, NEW q, QueueInv(k, q), QueueFresh(q),
         NEW i \in InService(q)
  PROVE  QueueFresh(update_process_cycle(remove_queue(q, i)))
<1> DEFINE w == remove_queue(q, i)
<1>1. q \in Queue(k) /\ DOMAIN q.entry = Slots(k) /\ i \in Live(q)
  BY SlotsNat DEF QueueInv
<1>2. /\ w \in Queue(k) /\ i \in Slots(k)
      /\ \A j \in Slots(k) \ {i} : w.entry[j] = q.entry[j]
      /\ Live(w) = Live(q) \ {i} /\ InService(w) = InService(q) \ {i}
      /\ w.next_schedule_index = q.next_schedule_index
      /\ w.next_schedule_cycle = q.next_schedule_cycle
  BY <1>1, RemoveEntries
<1> HIDE DEF w
<1>3. Live(w) \ InService(w) = Live(q) \ InService(q)
  BY <1>2
<1>4. \A j \in Live(q) \ InService(q) :
        w.entry[j].event_cycle = q.entry[j].event_cycle
  BY <1>1, <1>2, LiveFinite
<1>5. Unscheduled(w) = Unscheduled(q)
  BY <1>3, <1>4 DEF Unscheduled, Timed
<1>6. \A j \in Unscheduled(q) : w.entry[j].event_cycle = q.entry[j].event_cycle
  BY <1>4 DEF Unscheduled, Timed
<1>7. WaitingFresh(w)
  BY <1>1, <1>2, <1>5, <1>6, WaitingKept DEF QueueFresh
<1> QED BY <1>2, <1>7, ProcessUpdateFresh DEF w, QueueFresh

\* The slot that a packet goes into was empty, so what is served stays.
LEMMA InsertFresh ==
  ASSUME NEW k \in QueueNames, NEW q, QueueInv(k, q), QueueFresh(q),
         q.occupancy # SIZE(k), NEW p \in Packet, p.scheduled = FALSE
  PROVE  QueueFresh(Insert(q, p))
<1>1. q \in Queue(k) /\ DOMAIN q.entry = Slots(k)
  BY SlotsNat DEF QueueInv
<1> DEFINE Placed(e, w) ==
      /\ Insert(q, p) = update_schedule_cycle(w)
      /\ w.entry[e] = p
      /\ \A j \in Slots(k) \ {e} : w.entry[j] = q.entry[j]
      /\ w.next_process_index = q.next_process_index
      /\ w.next_process_cycle = q.next_process_cycle
<1>2. PICK e \in Slots(k) \ Live(q) : \E w \in Queue(k) : Placed(e, w)
  BY InsertEntries
<1>3. PICK w \in Queue(k) : Placed(e, w)
  BY <1>2
<1>4. e \notin InService(q) /\ DOMAIN w.entry = Slots(k)
  BY SlotsNat DEF QueueInv
<1>5. \A j \in InService(q) : j \in Slots(k) /\ w.entry[j] = q.entry[j]
  BY <1>1, <1>3, <1>4, LiveFinite
<1>6. InService(w) = InService(q)
  BY <1>1, <1>3, <1>4, <1>5 DEF InService
<1>7. Timed(w, InService(w)) = Timed(q, InService(q))
  BY <1>5, <1>6 DEF Timed
<1>8. ServedFresh(w)
  BY <1>1, <1>3, <1>5, <1>7, ServedKept DEF QueueFresh
<1> QED BY <1>3, <1>8, ScheduleUpdateFresh DEF QueueFresh
ChannelFresh(c) == \A k \in QueueNames : QueueFresh(c.queue[k])

LEMMA FreshIsCached == ChannelFresh(channel) <=> CachedIndicesFresh
BY DEF ChannelFresh, QueueFresh, WaitingFresh, ServedFresh, CachedIndicesFresh

\* A switch of mode computes the indices of both queues anew.
LEMMA SwitchFresh ==
  ASSUME NEW c, ChannelInv(c), now \in Nat, ChannelFresh(c)
  PROVE  ChannelFresh(SwitchMode(c))
<1> DEFINE k == Active(c)
           q == c.queue[k]
           left(x) == IF x = k THEN Withdraw(q) ELSE c.queue[x]
<1>1. CASE ~(StartWriting(c) \/ StopWriting(c))
  BY <1>1 DEF SwitchMode
<1>2. CASE StartWriting(c) \/ StopWriting(c)
  <2>1. c \in ChannelType /\ k \in QueueNames /\ q \in Queue(k)
    BY ChannelFields
  <2>2. \A x \in QueueNames : left(x) \in Queue(x)
    BY <2>1, ChannelFields, WithdrawEntries
  <2>3. SwitchMode(c).queue = [x \in QueueNames |-> update_cycles(left(x))]
    BY <1>2, <2>1 DEF SwitchMode, reset_remain_requests, ChannelType
  <2> HIDE DEF left
  <2>4. \A x \in QueueNames : QueueFresh(update_cycles(left(x)))
    BY <2>2, UpdatesFresh
  <2> QED BY <2>3, <2>4 DEF ChannelFresh
<1> QED BY <1>1, <1>2

LEMMA ScheduleFresh ==
  ASSUME NEW c, ChannelInv(c), now \in Nat, ChannelFresh(c)
  PROVE  ChannelFresh(ScheduleStep(c))
<1> DEFINE k == Active(c)
           q == c.queue[k]
           free == {i \in Unscheduled(q) : ~c.bank_request[BankOf(q, i)].working}
           hits == {i \in free : c.bank_request[BankOf(q, i)].open_row = RowOf(q, i)}
           S == IF hits # {} THEN hits ELSE free
           i == Oldest(q, S)
           ready == now + (IF hits # {} THEN tCAS ELSE tRP + tRCD + tCAS)
<1>1. c \in ChannelType /\ k \in QueueNames /\ q \in Queue(k)
  BY ChannelFields
<1>2. CASE ScheduleStep(c) = c
  BY <1>2
<1>3. CASE ScheduleStep(c) # c
  <2>1. ScheduleStep(c) = schedule(c, k)
    BY <1>3, Zenon DEF ScheduleStep
  <2>2. free # {}
    BY <1>3, <2>1, Zenon DEF schedule
  <2>3. /\ schedule(c, k) =
             [c EXCEPT !.bank_request[BankOf(q, i)] =
                          [working |-> TRUE, cycle_available |-> ready,
                           request_index |-> i, serving |-> k,
                           open_row |-> RowOf(q, i)],
                       !.scheduled[k] = @ + 1,
                       !.queue[k] = Claim(q, i, ready)]
    BY <2>2, Zenon DEF schedule
  <2>4. S \subseteq Unscheduled(q) /\ S # {}
    BY <2>2
  <2>5. ready \in Nat
    BY DramAssumption
  <2> HIDE DEF S, ready
  <2>6. i \in Slots(k)
    BY <1>1, <2>4, ChosenSets, OldestExists
  <2> HIDE DEF i, free, hits, q, k
  <2>7. Claimed(q, i, ready) \in Queue(k)
    BY <1>1, <2>5, <2>6, ClaimEntries
  <2>8. QueueFresh(Claim(q, i, ready))
    BY <1>1, <2>7, UpdatesFresh DEF Claim, Claimed
  <2>9. /\ schedule(c, k).queue[k] = Claim(q, i, ready)
        /\ \A x \in QueueNames : x # k => schedule(c, k).queue[x] = c.queue[x]
    BY <1>1, <2>3 DEF ChannelType
  <2> QED BY <2>1, <2>8, <2>9 DEF ChannelFresh, k
<1> QED BY <1>2, <1>3

LEMMA ProcessFresh ==
  ASSUME NEW c, ChannelInv(c), now \in Nat, now + 1 < UINT64_MAX, ChannelFresh(c)
  PROVE  ChannelFresh(process(c, Active(c)))
<1> DEFINE k == Active(c)
           q == c.queue[k]
           a == q.next_process_index
           b == ProcessBank(c)
           d == process(c, k)
<1>1. c \in ChannelType /\ k \in QueueNames /\ q \in Queue(k) /\ QueueInv(k, q)
  BY ChannelFields
<1>2. CASE Transfers(c)
  <2>1. a \in InService(q)
    <3>1. q.next_process_cycle <= now /\ q.next_process_cycle \in Nat
      BY <1>1, <1>2 DEF Transfers, Processes, Queue
    <3>2. q.next_process_cycle < UINT64_MAX
      BY <3>1, DramAssumption
    <3> QED BY <1>1, <3>2 DEF QueueInv, ProcessIndexOK
  <2>2. ~BusBusy(c)
    BY <1>1, <1>2 DEF Transfers, BusBusy, ChannelType
  <2>3. d = [c EXCEPT
              !.dbus_cycle_available = now + DRAM_DBUS_RETURN_TIME,
              !.bank_request[b] = [@ EXCEPT !.request_index = NoBank,
                                            !.working = FALSE,
                                            !.serving = "none"],
              !.scheduled[k] = @ - 1,
              !.queue[k] = update_process_cycle(remove_queue(q, a))]
    BY <1>2, <2>2, Zenon DEF process
  <2>4. QueueFresh(update_process_cycle(remove_queue(q, a)))
    BY <1>1, <2>1, RemoveFresh DEF ChannelFresh
  <2> HIDE DEF a, b, d, q, k
  <2>5. /\ d.queue[k] = update_process_cycle(remove_queue(q, a))
        /\ \A x \in QueueNames : x # k => d.queue[x] = c.queue[x]
    BY <1>1, <2>3 DEF ChannelType
  <2> QED BY <2>4, <2>5 DEF ChannelFresh, d, k
<1>3. CASE ~Transfers(c)
  <2>1. d.queue = c.queue
    <3>1. CASE BusBusy(c)
      BY <3>1, BusBusyKeeps
    <3>2. CASE ~BusBusy(c)
      BY <1>3, <3>2 DEF process
    <3> QED BY <3>1, <3>2
  <2> QED BY <2>1 DEF ChannelFresh
<1> QED BY <1>2, <1>3

LEMMA CallFresh ==
  ASSUME ChannelInv(channel), ChannelFresh(channel), NEW k \in QueueNames,
         NEW p \in Packet, p.scheduled = FALSE, HasRoom(k),
         channel' = [channel EXCEPT !.queue[k] = Insert(@, p)]
  PROVE  ChannelFresh(channel)'
<1>1. channel \in ChannelType /\ QueueInv(k, channel.queue[k])
  BY ChannelFields
<1>2. QueueFresh(Insert(channel.queue[k], p))
  BY <1>1, InsertFresh DEF HasRoom, ChannelFresh
<1>3. /\ channel'.queue[k] = Insert(channel.queue[k], p)
      /\ \A x \in QueueNames : x # k => channel'.queue[x] = channel.queue[x]
  BY <1>1 DEF ChannelType
<1>4. \A x \in QueueNames : QueueFresh(channel'.queue[x])
  BY <1>2, <1>3 DEF ChannelFresh
<1>5. ChannelFresh(channel') <=> ChannelFresh(channel)'
  BY DEF ChannelFresh, QueueFresh, WaitingFresh, ServedFresh, Unscheduled, Timed,
         Live, InService, Oldest
<1> QED BY <1>4, <1>5 DEF ChannelFresh

\* The cached indices are those of the oldest entry waiting and of the oldest
\* in service, in both queues, although requests are added, claimed, removed
\* and withdrawn by different functions.
THEOREM IndicesAlwaysFresh == Spec => []CachedIndicesFresh
<1>1. Init => ChannelFresh(channel)
  <2> SUFFICES ASSUME NEW k \in QueueNames
               PROVE  QueueFresh(EmptyQueue(k))
    <3>1. Init => \A k \in QueueNames : channel.queue[k] = EmptyQueue(k)
      BY DEF Init
    <3> QED BY <3>1 DEF ChannelFresh
  <2>1. Unscheduled(EmptyQueue(k)) = {} /\ InService(EmptyQueue(k)) = {}
    BY DEF EmptyQueue, EmptyPacket, Unscheduled, Timed, Live, InService
  <2>2. Timed(EmptyQueue(k), InService(EmptyQueue(k))) = {}
    BY <2>1 DEF Timed
  <2> QED BY <2>1, <2>2 DEF QueueFresh, WaitingFresh, ServedFresh, EmptyQueue
<1>2. IInv /\ ChannelFresh(channel) /\ [Next]_vars => ChannelFresh(channel)'
  <2> SUFFICES ASSUME IInv, ChannelFresh(channel), [Next]_vars
               PROVE  ChannelFresh(channel)'
    OBVIOUS
  <2>1. ChannelInv(channel) /\ now \in Nat
    BY DEF IInv, TypeOK
  <2>2. ChannelFresh(channel') => ChannelFresh(channel)'
    BY DEF ChannelFresh, QueueFresh, WaitingFresh, ServedFresh, Unscheduled, Timed,
           Live, InService, Oldest
  <2>3. CASE operate
    <3> DEFINE s == SwitchMode(channel)
               c == ScheduleStep(s)
    <3>1. channel' = process(c, Active(c)) /\ now + 1 < UINT64_MAX
      BY <2>3, Zenon DEF operate, CycleEnds
    <3>2. ChannelInv(s) /\ ChannelFresh(s)
      BY <2>1, SwitchKeeps, SwitchFresh
    <3>3. ChannelInv(c) /\ ChannelFresh(c)
      BY <2>1, <3>1, <3>2, ScheduleKeeps, ScheduleFresh
    <3> HIDE DEF c, s
    <3>4. ChannelFresh(process(c, Active(c)))
      BY <2>1, <3>1, <3>3, ProcessFresh
    <3> QED BY <2>2, <3>1, <3>4
  <2>4. ASSUME NEW a \in Addrs, NEW t \in Nat, add_rq(a, t)
        PROVE  ChannelFresh(channel)'
    <3> DEFINE p == [address |-> a, scheduled |-> FALSE, event_cycle |-> t]
    <3>1. p \in Packet /\ p.scheduled = FALSE /\ "RQ" \in QueueNames
      BY DEF Packet, QueueNames
    <3>2. HasRoom("RQ") /\ (\/ channel' = channel
                            \/ channel' = [channel EXCEPT !.queue["RQ"] = Insert(@, p)])
      BY <2>4, Zenon DEF add_rq
    <3> HIDE DEF p
    <3> QED BY <2>1, <2>2, <3>1, <3>2, CallFresh
  <2>5. ASSUME NEW a \in Addrs, NEW t \in Nat, add_wq(a, t)
        PROVE  ChannelFresh(channel)'
    <3> DEFINE p == [address |-> a, scheduled |-> FALSE, event_cycle |-> t]
    <3>1. p \in Packet /\ p.scheduled = FALSE /\ "WQ" \in QueueNames
      BY DEF Packet, QueueNames
    <3>2. HasRoom("WQ") /\ (\/ channel' = channel
                            \/ channel' = [channel EXCEPT !.queue["WQ"] = Insert(@, p)])
      BY <2>5, Zenon DEF add_wq
    <3> HIDE DEF p
    <3> QED BY <2>1, <2>2, <3>1, <3>2, CallFresh
  <2>6. CASE finish_warmup \/ UNCHANGED vars
    <3>1. channel' = channel
      BY <2>6 DEF finish_warmup, vars
    <3> QED BY <2>2, <3>1
  <2>7. \A t \in now - MaxQueueing .. now : t >= 0 => t \in Nat
    BY <2>1, DramAssumption
  <2> QED BY <2>3, <2>4, <2>5, <2>6, <2>7 DEF Next
<1> QED BY Invariance, <1>1, <1>2, FreshIsCached, PTL DEF Spec
=============================================================================
