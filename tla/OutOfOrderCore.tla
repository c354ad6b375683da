--------------------------- MODULE OutOfOrderCore ---------------------------
(***************************************************************************)
(* The out-of-order core of pa2/src/ooo_cpu.cc.  Instructions of a trace   *)
(* go through the fetch and decode buffers into the reorder buffer.  They  *)
(* wait there for the registers they read, then execute, or enter the load *)
(* and store queues; they retire in program order.  A trace tells memory   *)
(* addresses in advance, so loads wait for just the stores they depend on. *)
(*                                                                         *)
(* main.cc:1539-1576 calls every stage once per cycle, and a stage handles *)
(* the entries that are ready, in order, up to its width.  Latencies       *)
(* (event_cycle) and widths decide how many those are.  Here an action is  *)
(* one round of a stage's loop, and any stage may be next, so that all     *)
(* latencies and widths are covered.                                       *)
(*                                                                         *)
(* The L1 caches are the environment: they answer requests in any order,   *)
(* and L1D may refuse a store, which the core does not notice.             *)
(* Branch prediction is a choice.  Statistics, prefetching, address        *)
(* translation and context switches are left out.                          *)
(***************************************************************************)
EXTENDS Integers, Sequences, FiniteSets

CONSTANTS
  Blocks,             \* blocks of code
  Registers, Addresses,
  Programs,           \* what a trace file may hold: instructions from 0 on
  IFETCH_BUFFER_SIZE, DECODE_BUFFER_SIZE, ROB_SIZE, LQ_SIZE, SQ_SIZE,
  SCHEDULER_SIZE, L1D_WQ_SIZE

\* What a trace says of an instruction: the block its code is in, registers
\* and memory it reads and writes, and the kind of branch it is, if any.
Instructions ==
  [block : Blocks, source_registers : SUBSET Registers,
   destination_registers : SUBSET Registers, source_memory : Seq(Addresses),
   destination_memory : Seq(Addresses),
   branch : {"none", "direct", "indirect"}]

ASSUME CoreAssumption ==
  /\ {IFETCH_BUFFER_SIZE, DECODE_BUFFER_SIZE, ROB_SIZE, LQ_SIZE, SQ_SIZE,
      SCHEDULER_SIZE, L1D_WQ_SIZE} \subseteq Nat \ {0}
  /\ \A p \in Programs :
       /\ IsFiniteSet(DOMAIN p) /\ DOMAIN p = 0 .. Cardinality(DOMAIN p) - 1
       /\ \A n \in DOMAIN p : p[n] \in Instructions
  /\ IsFiniteSet(Registers) /\ Addresses \subseteq Nat \ {0}

VARIABLES
  trace,              \* the instructions of the trace file
  instr_unique_id,    \* how many of them have been read
  num_retired,        \* how many of them have retired
  IFETCH_BUFFER, DECODE_BUFFER, ROB,
  fetch_stall,        \* no reading beyond an unresolved branch
  resume,             \* fetch_resume_cycle # 0
  RTE0, RTE1,         \* ready to execute: slots of ROB
  LQ, SQ, SQ_head,
  STA,                \* stores read and not in SQ yet, in program order
  RTL0, RTS0,         \* ready loads and stores: slots of LQ and of SQ
  l1i, l1d,           \* code blocks and LQ slots the L1s have to answer
  wq,                 \* addresses in the write queue of L1D
  memory,             \* history: per address, the last store L1D has taken
  lost,               \* history: the stores L1D has refused
  loaded              \* history: which store each load got its data from

frontend == <<trace, instr_unique_id, IFETCH_BUFFER, fetch_stall, l1i>>
lsq == <<LQ, SQ, SQ_head, STA, RTL0, RTS0, l1d, loaded>>
retired == <<num_retired, wq, memory, lost>>
vars == <<frontend, DECODE_BUFFER, resume, ROB, RTE0, RTE1, lsq, retired>>

-----------------------------------------------------------------------------
(* Data structures *)

NONE    == -1         \* UINT32_MAX, UINT64_MAX
Slots   == 0 .. ROB_SIZE - 1
LQSlots == 0 .. LQ_SIZE - 1
SQSlots == 0 .. SQ_SIZE - 1
Status  == {"no", "INFLIGHT", "COMPLETED"}

NoEntry ==
  [id |-> NONE, resumes |-> "never", scheduled |-> "no", executed |-> "no",
   reg_ready |-> FALSE, num_reg_dependent |-> 0, num_mem_ops |-> 0,
   reg_dependents |-> {}, mem_dependents |-> {},
   lq_index |-> <<>>, sq_index |-> <<>>]

NoLSQEntry == [id |-> NONE, address |-> NONE, rob_index |-> NONE,
               data_index |-> NONE, producer |-> NONE, fetched |-> "no"]

Occupied(s) == ROB[s].id # NONE
Instr(s)    == trace[ROB[s].id]
Loads(s)    == Instr(s).source_memory
Stores(s)   == Instr(s).destination_memory
is_memory(s) == Loads(s) # <<>> \/ Stores(s) # <<>>
Elements(q) == {q[i] : i \in DOMAIN q}
Writes(i, a) == a \in Elements(i.destination_memory)

\* The entries of ROB that are older than slot s, and the youngest slot of S.
Older(s) == {x \in Slots : Occupied(x) /\ ROB[x].id < ROB[s].id}
Youngest(S) == CHOOSE x \in S : \A y \in S : ROB[y].id <= ROB[x].id
Oldest(S)   == CHOOSE x \in S : \A y \in S : ROB[x].id <= ROB[y].id
Least(S)    == CHOOSE x \in S : \A y \in S : x <= y

\* The members of S, in the order ITERATE_SET visits them.
Before(S, j) == Cardinality({k \in S : k < j})
InOrder(S) ==
  [k \in 1 .. Cardinality(S) |-> CHOOSE j \in S : Before(S, j) = k - 1]

Init ==
  /\ trace \in Programs
  /\ instr_unique_id = 0 /\ num_retired = 0
  /\ IFETCH_BUFFER = <<>> /\ DECODE_BUFFER = <<>>
  /\ ROB = [s \in Slots |-> NoEntry]
  /\ fetch_stall = FALSE /\ resume = FALSE
  /\ RTE0 = <<>> /\ RTE1 = <<>>
  /\ LQ = [l \in LQSlots |-> NoLSQEntry]
  /\ SQ = [q \in SQSlots |-> NoLSQEntry] /\ SQ_head = 0
  /\ STA = <<>> /\ RTL0 = <<>> /\ RTS0 = <<>>
  /\ l1i = {} /\ l1d = {} /\ wq = {}
  /\ memory = [a \in Addresses |-> NONE]
  /\ lost = {} /\ loaded = {}

-----------------------------------------------------------------------------
(* Fetch and decode *)

\* What a branch does to fetching, when it is read: nothing, if it is
\* predicted; a direct branch that misses in the BTB stalls it until it is
\* decoded, other misses and mispredictions until it is executed.
Predictions(branch) ==
  CASE branch = "none"     -> {"never"}
    [] branch = "direct"   -> {"never", "decode", "completion"}
    [] branch = "indirect" -> {"never", "completion"}

read_from_trace ==
  /\ instr_unique_id \in DOMAIN trace
  /\ ~fetch_stall /\ Len(IFETCH_BUFFER) < IFETCH_BUFFER_SIZE
  /\ \E r \in Predictions(trace[instr_unique_id].branch) :
       /\ IFETCH_BUFFER' = Append(IFETCH_BUFFER,
            [id |-> instr_unique_id, resumes |-> r, fetched |-> "no"])
       /\ fetch_stall' = (r # "never")
  /\ STA' = STA \o [i \in DOMAIN trace[instr_unique_id].destination_memory |->
                      instr_unique_id]
  /\ instr_unique_id' = instr_unique_id + 1
  /\ UNCHANGED <<trace, DECODE_BUFFER, ROB, resume, RTE0, RTE1, LQ, SQ,
                 SQ_head, RTL0, RTS0, l1i, l1d, loaded, retired>>

\* The fetched status of the instructions in block b becomes f.
Mark(b, f) ==
  [i \in DOMAIN IFETCH_BUFFER |->
     IF trace[IFETCH_BUFFER[i].id].block = b
     THEN [IFETCH_BUFFER[i] EXCEPT !.fetched = f] ELSE IFETCH_BUFFER[i]]

\* fetch_instruction is three things: it ends a stall,
resume_fetch ==
  /\ fetch_stall /\ resume
  /\ fetch_stall' = FALSE /\ resume' = FALSE
  /\ UNCHANGED <<trace, instr_unique_id, IFETCH_BUFFER, l1i, DECODE_BUFFER,
                 ROB, RTE0, RTE1, lsq, retired>>

\* it requests the block of an instruction that has not been requested,
request_block ==
  /\ \E i \in DOMAIN IFETCH_BUFFER :
       LET b == trace[IFETCH_BUFFER[i].id].block IN
       /\ IFETCH_BUFFER[i].fetched = "no"
       /\ IFETCH_BUFFER' = Mark(b, "INFLIGHT")
       /\ l1i' = l1i \cup {b}
  /\ UNCHANGED <<trace, instr_unique_id, fetch_stall, DECODE_BUFFER, resume,
                 ROB, RTE0, RTE1, lsq, retired>>

\* and it passes the oldest instruction on, once it is fetched.
fetch_instruction ==
  /\ IFETCH_BUFFER # <<>> /\ Head(IFETCH_BUFFER).fetched = "COMPLETED"
  /\ Len(DECODE_BUFFER) < DECODE_BUFFER_SIZE
  /\ DECODE_BUFFER' = Append(DECODE_BUFFER,
       [id |-> Head(IFETCH_BUFFER).id,
        resumes |-> Head(IFETCH_BUFFER).resumes])
  /\ IFETCH_BUFFER' = Tail(IFETCH_BUFFER)
  /\ UNCHANGED <<trace, instr_unique_id, fetch_stall, l1i, resume, ROB,
                 RTE0, RTE1, lsq, retired>>

\* L1I answers.
complete_instr_fetch ==
  /\ \E b \in l1i :
       IFETCH_BUFFER' = Mark(b, "COMPLETED") /\ l1i' = l1i \ {b}
  /\ UNCHANGED <<trace, instr_unique_id, fetch_stall, DECODE_BUFFER, resume,
                 ROB, RTE0, RTE1, lsq, retired>>

\* ROB is a ring that instructions enter and leave in program order.
slot(n) == n % ROB_SIZE

\* Mutant: any branch that missed in the BTB resumes fetching once decoded.
ResumedEarly(r) == r # "never"

ResumedByDecoding(r) == r = "decode"

decode_and_dispatch ==
  /\ DECODE_BUFFER # <<>>
  /\ LET d == Head(DECODE_BUFFER) IN
     /\ ~Occupied(slot(d.id))
     /\ ROB' = [ROB EXCEPT ![slot(d.id)] =
          [NoEntry EXCEPT
             !.id = d.id, !.resumes = d.resumes,
             !.num_mem_ops = Len(trace[d.id].source_memory)
                               + Len(trace[d.id].destination_memory),
             !.lq_index = [j \in DOMAIN trace[d.id].source_memory |-> NONE],
             !.sq_index = [j \in DOMAIN trace[d.id].destination_memory |->
                             NONE]]]
     /\ resume' = (resume \/ ResumedByDecoding(d.resumes))
  /\ DECODE_BUFFER' = Tail(DECODE_BUFFER)
  /\ UNCHANGED <<frontend, RTE0, RTE1, lsq, retired>>

-----------------------------------------------------------------------------
(* Registers *)

\* Mutant: only instructions that are executing are waited for.
Executing(s, r) ==
  {x \in Older(s) : /\ ROB[x].executed = "INFLIGHT"
                    /\ r \in Instr(x).destination_registers}

\* reg_dependency: older instructions that have yet to write register r.
Writers(s, r) ==
  {x \in Older(s) : /\ ROB[x].executed # "COMPLETED"
                    /\ r \in Instr(x).destination_registers}

Needed(s) == {r \in Instr(s).source_registers : Writers(s, r) # {}}

\* Mutant: instructions that wait for a register are executed as well.
AlwaysReady(s) == ~is_memory(s)

ReadyAtOnce(s) == ~is_memory(s) /\ Needed(s) = {}

do_scheduling(s) ==
  LET needed == Needed(s) IN
  /\ ROB' = [x \in Slots |->
       IF x = s
       THEN [ROB[s] EXCEPT
               !.scheduled = IF is_memory(s) THEN "INFLIGHT" ELSE "COMPLETED",
               !.reg_ready = (needed = {}),
               !.num_reg_dependent = @ + Cardinality(needed)]
       ELSE [ROB[x] EXCEPT !.reg_dependents = @ \cup
               {<<s, r>> : r \in {q \in needed :
                                    x = Youngest(Writers(s, q))}}]]
  /\ RTE1' = IF ReadyAtOnce(s) THEN Append(RTE1, s) ELSE RTE1

Unscheduled == {s \in Slots : Occupied(s) /\ ROB[s].scheduled = "no"}

\* The scan gives up after SCHEDULER_SIZE instructions that wait.
schedule_instruction ==
  /\ Unscheduled # {}
  /\ LET s == Oldest(Unscheduled) IN
     /\ Cardinality({x \in Older(s) : ~ROB[x].reg_ready}) < SCHEDULER_SIZE
     /\ do_scheduling(s)
  /\ UNCHANGED <<frontend, DECODE_BUFFER, resume, RTE0, lsq, retired>>

do_execution(s) == ROB' = [ROB EXCEPT ![s].executed = "INFLIGHT"]

execute_instruction ==
  /\ \/ /\ RTE0 # <<>>
        /\ do_execution(Head(RTE0))
        /\ RTE0' = Tail(RTE0) /\ RTE1' = RTE1
     \/ /\ RTE1 # <<>>
        /\ do_execution(Head(RTE1))
        /\ RTE1' = Tail(RTE1) /\ RTE0' = RTE0
  /\ UNCHANGED <<frontend, DECODE_BUFFER, resume, lsq, retired>>

\* reg_RAW_release: what the instructions that depend on slot s still wait for.
Remaining(s, x) ==
  ROB[x].num_reg_dependent
    - Cardinality({d \in ROB[s].reg_dependents : d[1] = x})

\* Mutant: the first of several registers frees the instructions that wait.
FreedByAny(s) == {d[1] : d \in ROB[s].reg_dependents}

Freed(s) == {x \in {d[1] : d \in ROB[s].reg_dependents} : Remaining(s, x) = 0}

complete_execution(s) ==
  /\ Occupied(s) /\ ROB[s].executed = "INFLIGHT"
  /\ is_memory(s) => ROB[s].num_mem_ops = 0
  /\ ROB' = [x \in Slots |->
       IF x = s THEN [ROB[s] EXCEPT !.executed = "COMPLETED"]
       ELSE [ROB[x] EXCEPT !.num_reg_dependent = Remaining(s, x),
                           !.reg_ready = @ \/ x \in Freed(s)]]
  /\ RTE0' = RTE0 \o InOrder({x \in Freed(s) : ~is_memory(x)})
  /\ resume' = (resume \/ ROB[s].resumes = "completion")
  /\ UNCHANGED <<frontend, DECODE_BUFFER, RTE1, lsq, retired>>

-----------------------------------------------------------------------------
(* Memory *)

\* Mutant: an answer counts once for an instruction, however many of its loads
\* it was for.
OperandsOnce(ls, s) == IF \E l \in ls : LQ[l].rob_index = s THEN 1 ELSE 0

\* One operand less to wait for, for the loads in the set ls of LQ slots.
Operands(ls, s) == Cardinality({l \in ls : LQ[l].rob_index = s})

\* Loads ls have their data; release_load_queue.
Released(ls) == [l \in LQSlots |-> IF l \in ls THEN NoLSQEntry ELSE LQ[l]]

Got(ls, from) ==
  {[id |-> LQ[l].id, address |-> LQ[l].address, from |-> from[LQ[l].address]] :
     l \in ls}

\* mem_RAW_dependency: older instructions in ROB that write address a.
Storers(s, a) == {x \in Older(s) : Writes(Instr(x), a)}

\* Mutant: the oldest of them is taken for the producer.
FirstProducer(s, a) ==
  IF Storers(s, a) = {} THEN NONE ELSE ROB[Oldest(Storers(s, a))].id

Producer(s, a) ==
  IF Storers(s, a) = {} THEN NONE ELSE ROB[Youngest(Storers(s, a))].id

\* The stores of instruction n to address a that are in SQ and have executed.
Forwarding(n, a) ==
  {q \in SQSlots : /\ SQ[q].id = n /\ SQ[q].address = a
                   /\ SQ[q].fetched = "COMPLETED"}

FreeLQ == {l \in LQSlots : LQ[l].id = NONE}
FreeSQ == {q \in SQSlots : SQ[q].id = NONE}

\* do_memory_scheduling: scheduled once every operand has had its entry.
Added(e) ==
  IF NONE \in Elements(e.lq_index \o e.sq_index) THEN e
  ELSE [e EXCEPT !.scheduled = "COMPLETED",
                 !.executed = IF @ = "no" THEN "INFLIGHT" ELSE @]

\* The operands j of slot s that have no entry of LQ or SQ yet.
LoadsLeft(s)  == {j \in DOMAIN Loads(s) : ROB[s].lq_index[j] = NONE}
StoresLeft(s) == {j \in DOMAIN Stores(s) : ROB[s].sq_index[j] = NONE}

\* Loads that get their data at once from a store; they leave LQ again.
Forwarded(s, j) ==
  LET n == Producer(s, Loads(s)[j])
  IN n # NONE /\ Forwarding(n, Loads(s)[j]) # {}

Staying(s) == {j \in LoadsLeft(s) : ~Forwarded(s, j)}

\* The loads that fit into LQ, each in the first slot that is free.
LoadsAdded(s) ==
  {j \in LoadsLeft(s) : Before(Staying(s), j) < Cardinality(FreeLQ)}

lq_index(s, j) ==
  CHOOSE l \in FreeLQ : Before(FreeLQ, l) = Before(Staying(s), j)

LoadAt(s, l) ==
  {j \in LoadsAdded(s) \cap Staying(s) : lq_index(s, j) = l}

\* add_load_queue, for all these loads.
add_load_queue(s) ==
  LET ready == InOrder({j \in LoadsAdded(s) \cap Staying(s) :
                          Producer(s, Loads(s)[j]) = NONE})
  IN
  /\ LQ' = [l \in LQSlots |->
       IF LoadAt(s, l) = {} THEN LQ[l]
       ELSE LET j == Least(LoadAt(s, l)) IN
            [id |-> ROB[s].id, address |-> Loads(s)[j], rob_index |-> s,
             data_index |-> j, producer |-> Producer(s, Loads(s)[j]),
             fetched |-> "no"]]
  /\ RTL0' = RTL0 \o [k \in DOMAIN ready |-> lq_index(s, ready[k])]
  /\ loaded' = loaded \cup
       {[id |-> ROB[s].id, address |-> Loads(s)[j],
         from |-> Producer(s, Loads(s)[j])] : j \in LoadsAdded(s) \ Staying(s)}

\* Mutant: stores enter SQ as they become ready.
AnyStore(s) == TRUE

NextStore(s) == Head(STA) = ROB[s].id

\* The stores that fit into SQ, at its tail, when it is their turn.
StoresAdded(s) ==
  {j \in StoresLeft(s) :
     NextStore(s) /\ Before(StoresLeft(s), j) < Cardinality(FreeSQ)}

sq_index(s, j) ==
  (SQ_head + SQ_SIZE - Cardinality(FreeSQ) + Before(StoresLeft(s), j)) % SQ_SIZE

\* add_store_queue, for all these stores.
add_store_queue(s) ==
  LET new == InOrder(StoresAdded(s)) IN
  /\ SQ' = [q \in SQSlots |->
       IF \E j \in StoresAdded(s) : sq_index(s, j) = q
       THEN LET j == CHOOSE k \in StoresAdded(s) : sq_index(s, k) = q IN
            [id |-> ROB[s].id, address |-> Stores(s)[j], rob_index |-> s,
             data_index |-> j, producer |-> NONE, fetched |-> "no"]
       ELSE SQ[q]]
  /\ STA' = SubSeq(STA, Len(new) + 1, Len(STA))
  /\ RTS0' = RTS0 \o [k \in DOMAIN new |-> sq_index(s, new[k])]

check_and_add_lsq(s) ==
  LET e == [ROB[s] EXCEPT
              !.lq_index = [j \in DOMAIN @ |->
                 IF j \in LoadsAdded(s) THEN lq_index(s, j) ELSE @[j]],
              !.sq_index = [j \in DOMAIN @ |->
                 IF j \in StoresAdded(s) THEN sq_index(s, j) ELSE @[j]],
              !.num_mem_ops = @ - Cardinality(LoadsAdded(s) \ Staying(s))]
      producers == {Producer(s, Loads(s)[j]) : j \in LoadsAdded(s)} \ {NONE}
  IN
  /\ ROB' = [x \in Slots |->
       IF x = s THEN Added(e)
       ELSE IF ROB[x].id \in producers
       THEN [ROB[x] EXCEPT !.mem_dependents = @ \cup {s}]
       ELSE ROB[x]]
  /\ add_load_queue(s) /\ add_store_queue(s)

\* The scan finds the oldest instruction with an operand that fits, unless
\* SCHEDULER_SIZE of those before it had none.
schedule_memory_instruction ==
  LET ready == {s \in Slots : /\ Occupied(s) /\ is_memory(s)
                              /\ ROB[s].reg_ready
                              /\ ROB[s].scheduled = "INFLIGHT"}
      fits  == {s \in ready : LoadsAdded(s) \cup StoresAdded(s) # {}}
  IN
  /\ \E s \in fits :
       /\ fits \cap Older(s) = {}
       /\ Cardinality(ready \cap Older(s)) < SCHEDULER_SIZE
       /\ check_and_add_lsq(s)
  /\ UNCHANGED <<frontend, DECODE_BUFFER, resume, RTE0, RTE1, SQ_head, l1d,
                 retired>>

\* The loads that the execution of the store in slot q of SQ completes.
\* Mutant: whatever their address.
AllDependents(q) ==
  UNION {Elements(ROB[d].lq_index) \ {NONE} :
           d \in ROB[SQ[q].rob_index].mem_dependents}

Dependents(q) ==
  {l \in AllDependents(q) : \E d \in ROB[SQ[q].rob_index].mem_dependents :
     \E j \in DOMAIN Loads(d) : /\ ROB[d].lq_index[j] = l
                                /\ Loads(d)[j] = SQ[q].address}

\* The assertion execute_store makes about them.
ProducerOf(q, l) == LQ[l].producer = SQ[q].id

\* operate_lsq: execute_store wakes the loads that wait for the store.
execute_store ==
  /\ RTS0 # <<>>
  /\ LET q == Head(RTS0)
         ls == Dependents(q)
     IN
     /\ \A l \in ls : ProducerOf(q, l)
     /\ SQ' = [SQ EXCEPT ![q].fetched = "COMPLETED"]
     /\ ROB' = [s \in Slots |->
          [ROB[s] EXCEPT !.num_mem_ops =
             @ - Operands(ls, s) - (IF s = SQ[q].rob_index THEN 1 ELSE 0)]]
     /\ LQ' = Released(ls)
     /\ loaded' = loaded \cup Got(ls, [a \in Addresses |-> SQ[q].id])
  /\ RTS0' = Tail(RTS0)
  /\ UNCHANGED <<frontend, DECODE_BUFFER, resume, RTE0, RTE1, SQ_head, STA,
                 RTL0, l1d, retired>>

\* operate_lsq: execute_load sends a load to L1D, if L1D accepts it.
execute_load ==
  /\ RTL0 # <<>>
  /\ LQ' = [LQ EXCEPT ![Head(RTL0)].fetched = "INFLIGHT"]
  /\ l1d' = l1d \cup {Head(RTL0)}
  /\ RTL0' = Tail(RTL0)
  /\ UNCHANGED <<frontend, DECODE_BUFFER, resume, ROB, RTE0, RTE1, SQ,
                 SQ_head, STA, RTS0, loaded, retired>>

\* L1D answers a load, and with it others of its block that have merged.
complete_data_fetch ==
  /\ \E ls \in SUBSET l1d :
       /\ ls # {}
       /\ \A l, m \in ls : LQ[l].address = LQ[m].address
       /\ ROB' = [s \in Slots |->
                    [ROB[s] EXCEPT !.num_mem_ops = @ - Operands(ls, s)]]
       /\ LQ' = Released(ls)
       /\ loaded' = loaded \cup Got(ls, memory)
       /\ l1d' = l1d \ ls
  /\ UNCHANGED <<frontend, DECODE_BUFFER, resume, RTE0, RTE1, SQ, SQ_head, STA,
                 RTL0, RTS0, retired>>

-----------------------------------------------------------------------------
(* Retirement *)

\* Mutant: room for one entry more than the stores need is asked for.
RoomToSpare(n) == Cardinality(wq) + n < L1D_WQ_SIZE

HasRoom(n) == n = 0 \/ Cardinality(wq) + n <= L1D_WQ_SIZE

\* CACHE::add_wq of L1D, for the stores to addresses as: a store merges with
\* one of its address that waits, or is queued with a request to DTLB.  The
\* read queue of DTLB, which other requests fill too, has room for those of
\* the first n stores; when it is full add_wq returns -2.
add_wq(as, n) == wq \cup {as[j] : j \in 1 .. n}

\* The result of add_wq is ignored: the instruction retires, and the store that
\* L1D has refused is lost.
retire_rob ==
  LET s == slot(num_retired) IN
  /\ Occupied(s) /\ ROB[s].executed = "COMPLETED"
  /\ HasRoom(Len(Stores(s)))
  /\ \E n \in 0 .. Len(Stores(s)) : wq' = add_wq(Stores(s), n)
  /\ memory' = [a \in Addresses |->
       IF Writes(Instr(s), a) /\ a \in wq' THEN ROB[s].id ELSE memory[a]]
  /\ lost' = lost \cup
       {[id |-> ROB[s].id, address |-> a] : a \in Elements(Stores(s)) \ wq'}
  /\ SQ' = [q \in SQSlots |->
              IF q \in Elements(ROB[s].sq_index) THEN NoLSQEntry ELSE SQ[q]]
  /\ SQ_head' = (SQ_head + Len(Stores(s))) % SQ_SIZE
  /\ ROB' = [ROB EXCEPT ![s] = NoEntry]
  /\ num_retired' = num_retired + 1
  /\ UNCHANGED <<frontend, DECODE_BUFFER, resume, RTE0, RTE1, LQ, STA, RTL0,
                 RTS0, l1d, loaded>>

\* L1D takes a store from its write queue.
handle_writeback ==
  /\ \E a \in wq : wq' = wq \ {a}
  /\ UNCHANGED <<frontend, DECODE_BUFFER, resume, ROB, RTE0, RTE1, lsq,
                 num_retired, memory, lost>>

Next ==
  \/ read_from_trace \/ resume_fetch \/ request_block \/ fetch_instruction
  \/ complete_instr_fetch \/ decode_and_dispatch
  \/ schedule_instruction \/ execute_instruction
  \/ \E s \in Slots : complete_execution(s)
  \/ schedule_memory_instruction \/ execute_store \/ execute_load
  \/ complete_data_fetch \/ retire_rob \/ handle_writeback

\* Every stage is called once per cycle and the L1s answer what they accept,
\* so while any of them can do something, something happens.  (Nothing can
\* happen for ever: each step brings an instruction closer to its end.)
Spec == Init /\ [][Next]_vars /\ WF_vars(Next)

-----------------------------------------------------------------------------
(* Properties *)

Ids   == Nat \cup {NONE}
Fetches == [id : Nat, resumes : {"never", "decode", "completion"},
            fetched : Status]
Entries ==
  [id : Ids, resumes : {"never", "decode", "completion"}, scheduled : Status,
   executed : Status, reg_ready : BOOLEAN, num_reg_dependent : Nat,
   num_mem_ops : Nat, reg_dependents : SUBSET (Slots \X Registers),
   mem_dependents : SUBSET Slots, lq_index : Seq(LQSlots \cup {NONE}),
   sq_index : Seq(SQSlots \cup {NONE})]
LSQEntries ==
  [id : Ids, address : Addresses \cup {NONE}, rob_index : Slots \cup {NONE},
   data_index : Ids, producer : Ids, fetched : Status]

\* Every part of the core's state has the type that ooo_cpu.h gives it; in
\* particular num_mem_ops, an int, is never below zero (asserted in
\* ooo_cpu.cc:1803, 2165, 2649).
TypeOK ==
  /\ trace \in Programs /\ instr_unique_id \in Nat /\ num_retired \in Nat
  /\ IFETCH_BUFFER \in Seq(Fetches)
  /\ DECODE_BUFFER \in Seq([id : Nat,
                            resumes : {"never", "decode", "completion"}])
  /\ ROB \in [Slots -> Entries]
  /\ fetch_stall \in BOOLEAN /\ resume \in BOOLEAN
  /\ RTE0 \in Seq(Slots) /\ RTE1 \in Seq(Slots)
  /\ LQ \in [LQSlots -> LSQEntries] /\ SQ \in [SQSlots -> LSQEntries]
  /\ SQ_head \in SQSlots /\ STA \in Seq(Nat)
  /\ RTL0 \in Seq(LQSlots) /\ RTS0 \in Seq(SQSlots)
  /\ l1i \subseteq Blocks /\ l1d \subseteq LQSlots
  /\ wq \subseteq Addresses
  /\ memory \in [Addresses -> Ids]
  /\ lost \subseteq [id : Nat, address : Addresses]
  /\ loaded \subseteq [id : Nat, address : Addresses, from : Ids]

\* An instruction that executes, or has entered LQ or SQ.
Started(s) ==
  \/ ROB[s].executed # "no"
  \/ Elements(ROB[s].lq_index \o ROB[s].sq_index) \ {NONE} # {}

\* The instruction whose value of register r instruction n reads, if any.
LastWriter(n, r) ==
  LET before == {m \in 0 .. n - 1 : r \in trace[m].destination_registers}
  IN {m \in before : \A k \in before : k <= m}

\* No instruction starts before the instructions that produce its registers
\* have executed, however the dependency sets (reg_RAW_dependency,
\* reg_RAW_release) were built up while these were coming and going.
ProducersFirst ==
  \A s \in Slots : Occupied(s) /\ Started(s) =>
    \A r \in Instr(s).source_registers :
      \A m \in LastWriter(ROB[s].id, r) :
        \/ m < num_retired
        \/ ROB[slot(m)].id = m /\ ROB[slot(m)].executed = "COMPLETED"

\* Instruction m is the last before n to store to address a, or NONE if there
\* is none, but for stores that L1D has refused.
Sees(n, a, m) ==
  LET before == {k \in 0 .. n - 1 : Writes(trace[k], a)}
  IN /\ m \in before \cup {NONE}
     /\ \A k \in before : k <= m \/ [id |-> k, address |-> a] \in lost

\* A load gets the data of the last store before it in program order, whether
\* it is forwarded at once (add_load_queue), woken by the store
\* (execute_store), or read from L1D after the store has retired; it gets that
\* of an earlier store only if L1D has refused those between, whose loss
\* retire_rob (ooo_cpu.cc:2913) does not notice.
LoadsSeeStores == \A l \in loaded : Sees(l.id, l.address, l.from)

\* num_mem_ops counts exactly the operands an instruction still waits for:
\* those not in LQ or SQ yet, its entries of LQ, and its stores that have not
\* executed.  An instruction completes when it is zero (complete_execution),
\* and an entry of LQ that nobody counts would never be released.
OperandsCounted ==
  /\ \A s \in Slots : Occupied(s) =>
       ROB[s].num_mem_ops =
         Cardinality({j \in DOMAIN Loads(s) : ROB[s].lq_index[j] = NONE})
         + Cardinality({l \in LQSlots : LQ[l].rob_index = s})
         + Cardinality({j \in DOMAIN Stores(s) :
              \/ ROB[s].sq_index[j] = NONE
              \/ SQ[ROB[s].sq_index[j]].fetched # "COMPLETED"})
  /\ \A l \in LQSlots : LQ[l].id # NONE =>
       LET s == LQ[l].rob_index IN
       /\ ROB[s].id = LQ[l].id
       /\ ROB[s].lq_index[LQ[l].data_index] = l

\* The store queue is a ring: whatever the order in which stores become ready,
\* they enter it in program order, so that retire_rob, which frees the entries
\* of the oldest instruction and advances SQ.head, always frees the entries at
\* the head, and the entry at the tail is free.
StoresInOrder ==
  LET live == {q \in SQSlots : SQ[q].id # NONE}
      at(k) == (SQ_head + k) % SQ_SIZE
  IN /\ live = {at(k) : k \in 0 .. Cardinality(live) - 1}
     /\ \A j, k \in 0 .. Cardinality(live) - 1 :
          j < k => \/ SQ[at(j)].id < SQ[at(k)].id
                   \/ /\ SQ[at(j)].id = SQ[at(k)].id
                      /\ SQ[at(j)].data_index < SQ[at(k)].data_index
     /\ \A q \in live : ROB[slot(SQ[q].id)].sq_index[SQ[q].data_index] = q

Once(q) == \A i, j \in DOMAIN q : q[i] = q[j] => i = j

\* Each instruction, load and store waits in exactly one ready queue from when
\* it is ready until it starts: the queues of slot numbers neither lose nor
\* repeat one, and none names a slot that has been given to another.
ReadyQueuesExact ==
  /\ Once(RTE0 \o RTE1) /\ Once(RTL0) /\ Once(RTS0)
  /\ Elements(RTE0 \o RTE1) =
       {s \in Slots : /\ Occupied(s) /\ ~is_memory(s) /\ ROB[s].reg_ready
                      /\ ROB[s].executed = "no"}
  /\ Elements(RTL0) = {l \in LQSlots : /\ LQ[l].id # NONE
                                       /\ LQ[l].producer = NONE
                                       /\ LQ[l].fetched = "no"}
  /\ Elements(RTS0) = {q \in SQSlots : /\ SQ[q].id # NONE
                                       /\ SQ[q].fetched = "no"}

\* The branches that have stalled fetching and have not been resolved.
Unresolved ==
  {f.id : f \in {x \in Elements(IFETCH_BUFFER) \cup Elements(DECODE_BUFFER) :
                   x.resumes # "never"}}
  \cup {ROB[s].id : s \in {x \in Slots : /\ ROB[x].resumes = "completion"
                                         /\ ROB[x].executed # "COMPLETED"}}

\* While fetching is stalled exactly one branch is unresolved and nothing
\* younger is in the core, or that branch has asked for fetching to resume; a
\* core that fetches has no such branch.  fetch_stall and fetch_resume_cycle
\* are one flag each: a second unresolved branch would be forgotten.
OneStallingBranch ==
  IF fetch_stall /\ ~resume THEN Unresolved = {instr_unique_id - 1}
  ELSE Unresolved = {} /\ (resume => fetch_stall)

\* The assertion in execute_store (ooo_cpu.cc:2195-2199) holds for the store of
\* an instruction that stores once: the loads that it finds by address among
\* its dependents wait for it and no other, whatever slots of LQ and ROB have
\* been given away since the load entered.  A load is a dependent of an
\* instruction, not of one of its stores, so with two stores it need not: even
\* to one address, the first to execute wakes the load and the second finds it
\* again.
WakesItsOwn ==
  RTS0 # <<>> /\ Len(Stores(SQ[Head(RTS0)].rob_index)) = 1 =>
    \A l \in Dependents(Head(RTS0)) : ProducerOf(Head(RTS0), l)

\* Every instruction retires.  main.cc:1624-1642 takes a core whose oldest
\* instruction does not for deadlocked, and aborts.
EveryInstructionRetires == <>(num_retired = Cardinality(DOMAIN trace))

=============================================================================
