--------------------------- MODULE DramController ---------------------------
(***************************************************************************)
(* The memory controller of ChampSim (MEMORY_CONTROLLER in                 *)
(* pa2/src/dram_controller.cc): a read queue and a write queue that share  *)
(* the banks and the data bus of one channel.  The controller serves one   *)
(* queue at a time; a switch of mode abandons whatever the other queue had *)
(* in service and starts it again later.                                   *)
(*                                                                         *)
(* The build has one channel, one rank and one CPU (inc/champsim.h:61,     *)
(* 92-95), so channel, rank and cpu indices are left out, as are the       *)
(* statistics and the fields that only feed them (row_buffer_hit, types).  *)
(*                                                                         *)
(* The LLC is the client: it reads a block it has just allocated an MSHR   *)
(* for and writes back dirty victims, after checking that the queue has    *)
(* room.  Any number of its calls falls between two calls of operate().    *)
(***************************************************************************)
EXTENDS Integers, FiniteSets

CONSTANTS
  Addrs,              \* block addresses the LLC uses; 0 marks an empty slot
  DRAM_BANKS, DRAM_COLUMNS, DRAM_ROWS,
  DRAM_RQ_SIZE, DRAM_WQ_SIZE,
  DRAM_WRITE_HIGH_WM, DRAM_WRITE_LOW_WM,
  tRP, tRCD, tCAS,
  DRAM_DBUS_RETURN_TIME, DRAM_DBUS_TURN_AROUND_TIME,
  UINT64_MAX,         \* the event_cycle of an empty slot; the clock's limit
  MaxQueueing,        \* bound: how old a packet is when it reaches DRAM
  MaxReads,           \* bound: reads sent in a behaviour
  MaxWrites,          \* bound: writebacks sent in a behaviour
  IdleHorizon         \* bound: idle cycles are counted up to this cycle

ASSUME DramAssumption ==
  /\ Addrs \subseteq Nat \ {0}
  /\ DRAM_BANKS \in Nat \ {0} /\ DRAM_COLUMNS \in Nat \ {0}
  /\ DRAM_ROWS \in Nat \ {0}
  /\ DRAM_RQ_SIZE \in Nat \ {0} /\ DRAM_WQ_SIZE \in Nat \ {0}
  /\ DRAM_WRITE_HIGH_WM \in Nat /\ DRAM_WRITE_LOW_WM \in Nat
  /\ tRP \in Nat /\ tRCD \in Nat /\ tCAS \in Nat
  /\ DRAM_DBUS_RETURN_TIME \in Nat /\ DRAM_DBUS_TURN_AROUND_TIME \in Nat
  /\ UINT64_MAX \in Nat \ {0} /\ IdleHorizon \in Nat
  /\ MaxQueueing \in Nat /\ MaxReads \in Nat /\ MaxWrites \in Nat

VARIABLES
  channel,            \* the controller's state of its channel
  now,                \* current_core_cycle[0]
  warm,               \* all_warmup_complete >= NUM_CPUS
  pending,            \* LLC: blocks sent to DRAM and not returned yet
  reads, writes,      \* how many reads and writebacks the LLC has sent
  last_transfer       \* history: start and queue of the last bus transfer

vars == <<channel, now, warm, pending, reads, writes, last_transfer>>

-----------------------------------------------------------------------------
(* The controller's data structures *)

QueueNames == {"RQ", "WQ"}
SIZE(k)  == IF k = "WQ" THEN DRAM_WQ_SIZE ELSE DRAM_RQ_SIZE
Slots(k) == 0 .. SIZE(k) - 1
Banks    == 0 .. DRAM_BANKS - 1
Rows     == 0 .. DRAM_ROWS - 1
NoRow    == -1        \* open_row = UINT32_MAX
NoBank   == -1        \* request_index of a bank at rest

dram_get_bank(a) == a % DRAM_BANKS
dram_get_row(a)  == (a \div (DRAM_BANKS * DRAM_COLUMNS)) % DRAM_ROWS

Packet == [address : Addrs \cup {0}, scheduled : BOOLEAN, event_cycle : Nat]

Queue(k) == [SIZE : {SIZE(k)}, entry : [Slots(k) -> Packet],
             occupancy : Nat,
             next_schedule_index : Nat, next_schedule_cycle : Nat,
             next_process_index : Nat, next_process_cycle : Nat]

\* serving stands for the pair is_read, is_write.
BankRequest == [working : BOOLEAN, cycle_available : Nat,
                request_index : Nat \cup {NoBank},
                serving : QueueNames \cup {"none"},
                open_row : Rows \cup {NoRow}]

EmptyPacket == [address |-> 0, scheduled |-> FALSE, event_cycle |-> UINT64_MAX]

EmptyQueue(k) == [SIZE |-> SIZE(k), entry |-> [i \in Slots(k) |-> EmptyPacket],
                  occupancy |-> 0,
                  next_schedule_index |-> 0,
                  next_schedule_cycle |-> UINT64_MAX,
                  next_process_index |-> 0,
                  next_process_cycle |-> UINT64_MAX]

BankAtRest == [working |-> FALSE, cycle_available |-> 0,
               request_index |-> NoBank, serving |-> "none",
               open_row |-> NoRow]

Init ==
  /\ channel = [write_mode |-> FALSE, dbus_cycle_available |-> 0,
                scheduled |-> [k \in QueueNames |-> 0],
                bank_request |-> [b \in Banks |-> BankAtRest],
                queue |-> [k \in QueueNames |-> EmptyQueue(k)]]
  /\ now = 0
  /\ warm = FALSE
  /\ pending = {}
  /\ reads = 0 /\ writes = 0
  /\ last_transfer = [start |-> 0, queue |-> "none"]

-----------------------------------------------------------------------------
(* Picking entries.  Both scans keep the first entry with the least       *)
(* event_cycle, starting from UINT64_MAX.                                 *)

Live(q)        == {i \in DOMAIN q.entry : q.entry[i].address # 0}
InService(q)   == {i \in DOMAIN q.entry : q.entry[i].scheduled}
Timed(q, S)    == {i \in S : q.entry[i].event_cycle < UINT64_MAX}
Unscheduled(q) == Timed(q, Live(q) \ InService(q))

Oldest(q, S) ==
  CHOOSE i \in S : \A j \in S :
    \/ q.entry[i].event_cycle < q.entry[j].event_cycle
    \/ q.entry[i].event_cycle = q.entry[j].event_cycle /\ i <= j

update_schedule_cycle(q) ==
  LET S == Unscheduled(q) IN
  IF S = {} THEN [q EXCEPT !.next_schedule_index = q.SIZE,
                           !.next_schedule_cycle = UINT64_MAX]
  ELSE [q EXCEPT !.next_schedule_index = Oldest(q, S),
                 !.next_schedule_cycle = q.entry[Oldest(q, S)].event_cycle]

update_process_cycle(q) ==
  LET S == Timed(q, InService(q)) IN
  IF S = {} THEN [q EXCEPT !.next_process_index = q.SIZE,
                           !.next_process_cycle = UINT64_MAX]
  ELSE [q EXCEPT !.next_process_index = Oldest(q, S),
                 !.next_process_cycle = q.entry[Oldest(q, S)].event_cycle]

BankOf(q, i) == dram_get_bank(q.entry[i].address)
RowOf(q, i)  == dram_get_row(q.entry[i].address)

check_dram_queue(q, a) == {i \in DOMAIN q.entry : q.entry[i].address = a}
FirstOf(S) == CHOOSE i \in S : \A j \in S : i <= j

-----------------------------------------------------------------------------
(* The steps of operate(), as functions of the channel's state c *)

\* The queue that the current mode serves.
Active(c) == IF c.write_mode THEN "WQ" ELSE "RQ"

\* What reset_remain_requests makes of bank b while queue q is reset: its
\* request is withdrawn, and the row counts as open only when the row access
\* had got as far as the column access.
ResetBank(q, b, bank) ==
  LET S == {i \in InService(q) : BankOf(q, i) = b} IN
  IF S = {} THEN bank
  ELSE [working |-> FALSE, cycle_available |-> now,
        request_index |-> NoBank, serving |-> "none",
        open_row |-> IF bank.cycle_available - tCAS <= now
                     THEN RowOf(q, FirstOf(S)) ELSE NoRow]

\* scheduled_reads and scheduled_writes after the requests of q are withdrawn.
CountersKept(c, q) == c.scheduled          \* mutant: not decremented

CountersLeft(c, q) ==
  LET touched == {BankOf(q, i) : i \in InService(q)} IN
  [x \in QueueNames |-> c.scheduled[x] -
     Cardinality({b \in touched : c.bank_request[b].serving = x})]

\* Its requests in service wait again, from now on.
Withdraw(q) ==
  [q EXCEPT !.entry = [i \in DOMAIN q.entry |->
     IF i \in InService(q)
     THEN [q.entry[i] EXCEPT !.scheduled = FALSE, !.event_cycle = now]
     ELSE q.entry[i]]]

update_cycles(q) == update_process_cycle(update_schedule_cycle(q))

reset_remain_requests(c, k) ==
  LET q == c.queue[k] IN
  [c EXCEPT
    !.bank_request = [b \in Banks |-> ResetBank(q, b, c.bank_request[b])],
    !.scheduled = CountersLeft(c, q),
    !.queue = [x \in QueueNames |->
       update_cycles(IF x = k THEN Withdraw(q) ELSE c.queue[x])]]

\* Writes start when the write queue is nearly full or there is nothing to
\* read; reads resume when the writes are done, or low with a read waiting.
NoIdleWrites(c) ==                         \* mutant: no idle writes
  ~c.write_mode /\ c.queue["WQ"].occupancy >= DRAM_WRITE_HIGH_WM

StartWriting(c) ==
  /\ ~c.write_mode
  /\ \/ c.queue["WQ"].occupancy >= DRAM_WRITE_HIGH_WM
     \/ c.queue["RQ"].occupancy = 0 /\ c.queue["WQ"].occupancy > 0

StopWriting(c) ==
  /\ c.write_mode
  /\ \/ c.queue["WQ"].occupancy = 0
     \/ c.queue["RQ"].occupancy > 0
        /\ c.queue["WQ"].occupancy < DRAM_WRITE_LOW_WM

SwitchWithoutReset(c) ==                   \* mutant: requests not withdrawn
  IF StartWriting(c) \/ StopWriting(c)
  THEN [c EXCEPT !.write_mode = ~@,
                 !.dbus_cycle_available = @ + DRAM_DBUS_TURN_AROUND_TIME]
  ELSE c

SwitchWithoutWait(c) ==                    \* mutant: no turn-around time
  IF StartWriting(c) \/ StopWriting(c)
  THEN [reset_remain_requests(c, Active(c)) EXCEPT !.write_mode = ~@]
  ELSE c

SwitchMode(c) ==
  IF StartWriting(c) \/ StopWriting(c)
  THEN [reset_remain_requests(c, Active(c)) EXCEPT
          !.write_mode = ~@,
          !.dbus_cycle_available = @ + DRAM_DBUS_TURN_AROUND_TIME]
  ELSE c

\* Packet i is in service until cycle ready.
Claim(q, i, ready) ==
  update_cycles([q EXCEPT !.entry[i].scheduled = TRUE,
                          !.entry[i].event_cycle = ready])

schedule(c, k) ==
  LET q     == c.queue[k]
      free  == {i \in Unscheduled(q) :
                  ~c.bank_request[BankOf(q, i)].working}
      hits  == {i \in free :
                  c.bank_request[BankOf(q, i)].open_row = RowOf(q, i)}
      i     == Oldest(q, IF hits # {} THEN hits ELSE free)
      ready == now + (IF hits # {} THEN tCAS ELSE tRP + tRCD + tCAS)
  IN IF free = {} THEN c
     ELSE [c EXCEPT
            !.bank_request[BankOf(q, i)] =
               [working |-> TRUE, cycle_available |-> ready,
                request_index |-> i, serving |-> k,
                open_row |-> RowOf(q, i)],
            !.scheduled[k] = @ + 1,
            !.queue[k] = Claim(q, i, ready)]

ScheduleStep(c) ==
  LET q == c.queue[Active(c)] IN
  IF q.next_schedule_index < q.SIZE /\ q.next_schedule_cycle <= now
  THEN schedule(c, Active(c)) ELSE c

\* process() is called, and on which bank.
Processes(c) ==
  LET q == c.queue[Active(c)] IN
  q.next_process_index < q.SIZE /\ q.next_process_cycle <= now

ProcessBank(c) ==
  BankOf(c.queue[Active(c)], c.queue[Active(c)].next_process_index)

\* The bank has paid its latency and the data bus is free.
Transfers(c) ==
  /\ Processes(c)
  /\ c.bank_request[ProcessBank(c)].cycle_available <= now
  /\ c.dbus_cycle_available <= now

BusBusy(c) ==
  /\ Processes(c)
  /\ c.bank_request[ProcessBank(c)].cycle_available <= now
  /\ c.dbus_cycle_available > now

OccupancyTwice(q, i) ==                    \* mutant: counted twice
  [q EXCEPT !.entry[i] = EmptyPacket, !.occupancy = @ - 2]

remove_queue(q, i) == [q EXCEPT !.entry[i] = EmptyPacket, !.occupancy = @ - 1]

process(c, k) ==
  LET q == c.queue[k]
      b == ProcessBank(c)
  IN CASE Transfers(c) ->
            [c EXCEPT
              !.dbus_cycle_available = now + DRAM_DBUS_RETURN_TIME,
              !.bank_request[b] = [@ EXCEPT !.request_index = NoBank,
                                            !.working = FALSE,
                                            !.serving = "none"],
              !.scheduled[k] = @ - 1,
              !.queue[k] = update_process_cycle(
                             remove_queue(q, q.next_process_index))]
       [] BusBusy(c) ->
            [c EXCEPT !.bank_request[b].cycle_available =
                         c.dbus_cycle_available]
       [] OTHER -> c

-----------------------------------------------------------------------------
(* The calls *)

\* A cycle in which operate() changes nothing but the clock.
Idle ==
  /\ ~StartWriting(channel) /\ ~StopWriting(channel)
  /\ channel.queue[Active(channel)].occupancy = 0

\* The clock advances once per operate(); only idle cycles are not counted
\* beyond IdleHorizon.
CycleEnds ==
  /\ now + 1 < UINT64_MAX
  /\ now' = IF Idle /\ now >= IdleHorizon THEN now ELSE now + 1

operate ==
  /\ CycleEnds
  /\ LET c == ScheduleStep(SwitchMode(channel))
         k == Active(c)
         p == c.queue[k].entry[c.queue[k].next_process_index]
     IN /\ channel' = process(c, k)
        /\ IF Transfers(c)
           THEN last_transfer' = [start |-> now, queue |-> k]
           ELSE UNCHANGED last_transfer
        /\ pending' = IF Transfers(c) /\ k = "RQ" THEN pending \ {p.address}
                      ELSE pending
  /\ UNCHANGED <<warm, reads, writes>>

InsertUnseen(q, p) ==                      \* mutant: cached index kept
  [q EXCEPT !.entry[FirstOf(check_dram_queue(q, 0))] = p, !.occupancy = @ + 1]

\* The queue with packet p in its first empty slot, if it has one.
Insert(q, p) ==
  LET empty == check_dram_queue(q, 0) IN
  update_schedule_cycle(
    IF empty = {} THEN q
    ELSE [q EXCEPT !.entry[FirstOf(empty)] = p, !.occupancy = @ + 1])

\* The LLC checks get_occupancy against get_size before it sends.
NeverFull(k) == k \in QueueNames          \* mutant: caller does not check

HasRoom(k) == channel.queue[k].occupancy # SIZE(k)

NotForwarded(a) == {i \in {} : i = a}      \* mutant: write queue not searched

WaitingWrite(a) == check_dram_queue(channel.queue["WQ"], a)

\* A read whose block is not in an MSHR already.  During warm-up, or when a
\* writeback of the block waits, return_data answers it at once.
add_rq(a, t) ==
  LET in_wq == WaitingWrite(a)
      in_rq == check_dram_queue(channel.queue["RQ"], a)
      packet == [address |-> a, scheduled |-> FALSE, event_cycle |-> t]
  IN /\ reads < MaxReads
     /\ a \notin pending
     /\ HasRoom("RQ")
     /\ reads' = reads + 1
     /\ \/ /\ ~warm \/ in_wq # {}
           /\ UNCHANGED <<channel, pending>>
        \/ /\ warm /\ in_wq = {}
           /\ pending' = pending \cup {a}
           /\ channel' = IF in_rq # {} THEN channel
                         ELSE [channel EXCEPT !.queue["RQ"] = Insert(@, packet)]
     /\ UNCHANGED <<now, warm, writes, last_transfer>>

\* A dirty victim.
add_wq(a, t) ==
  LET in_wq == WaitingWrite(a)
      packet == [address |-> a, scheduled |-> FALSE, event_cycle |-> t]
  IN /\ writes < MaxWrites
     /\ HasRoom("WQ")
     /\ writes' = writes + 1
     /\ channel' = IF ~warm \/ in_wq # {} THEN channel
                   ELSE [channel EXCEPT !.queue["WQ"] = Insert(@, packet)]
     /\ UNCHANGED <<now, warm, pending, reads, last_transfer>>

finish_warmup ==
  /\ ~warm
  /\ warm' = TRUE
  /\ UNCHANGED <<channel, now, pending, reads, writes, last_transfer>>

Next ==
  \/ operate
  \/ \E a \in Addrs, t \in now - MaxQueueing .. now :
       t >= 0 /\ (add_rq(a, t) \/ add_wq(a, t))
  \/ finish_warmup

\* main() calls DRAM.operate() in every iteration of its loop (main.cc:1711);
\* operate is the only action that ends a cycle, so this is its fairness.
Spec == Init /\ [][Next]_vars /\ WF_now(CycleEnds)

-----------------------------------------------------------------------------
(* Properties *)

\* Type invariant: every field of the channel and of the history variables
\* has its type; in particular no counter of the controller ever underflows.
ChannelOK(c) ==
  /\ c \in [write_mode : BOOLEAN, dbus_cycle_available : Nat,
            scheduled : [QueueNames -> Nat],
            bank_request : [Banks -> BankRequest],
            queue : [QueueNames -> Queue("RQ") \cup Queue("WQ")]]
  /\ \A k \in QueueNames : c.queue[k] \in Queue(k)

TypeOK ==
  /\ ChannelOK(channel)
  /\ now \in Nat
  /\ warm \in BOOLEAN
  /\ pending \subseteq Addrs
  /\ reads \in 0 .. MaxReads /\ writes \in 0 .. MaxWrites
  /\ last_transfer \in [start : Nat, queue : QueueNames \cup {"none"}]

\* Only the queue of the current mode has requests in service, and banks and
\* requests in service point at each other one to one: the assertion of
\* process() (dram_controller.cc:425) and what a bank left working by a mode
\* switch, or claimed by two requests, would break.
BanksAgree(c) ==
  LET k == Active(c)
      q == c.queue[k]
  IN /\ \A x \in QueueNames \ {k} : InService(c.queue[x]) = {}
     /\ \A i \in InService(q) :
          /\ q.entry[i].address # 0
          /\ c.bank_request[BankOf(q, i)].request_index = i
     /\ \A b \in Banks : LET bank == c.bank_request[b] IN
          IF bank.working
          THEN /\ bank.request_index \in InService(q)
               /\ BankOf(q, bank.request_index) = b
               /\ bank.serving = k
          ELSE bank.request_index = NoBank /\ bank.serving = "none"

BankBookkeeping == BanksAgree(channel)

\* scheduled_reads and scheduled_writes count the requests in service: the
\* assertions at the end of reset_remain_requests (dram_controller.cc:68-75).
CountersAgree(c) ==
  \A k \in QueueNames : c.scheduled[k] = Cardinality(InService(c.queue[k]))

CountersExact == CountersAgree(channel)

\* The cached next_schedule_* and next_process_* always describe the oldest
\* waiting and the oldest served request of their queue, although five
\* different functions change the entries they were computed from.
CachedIndicesFresh ==
  \A k \in QueueNames :
    LET q == channel.queue[k]
        waiting == Unscheduled(q)
        served == Timed(q, InService(q))
    IN /\ IF waiting = {} THEN q.next_schedule_cycle = UINT64_MAX
          ELSE /\ q.next_schedule_index = Oldest(q, waiting)
               /\ q.next_schedule_cycle =
                    q.entry[q.next_schedule_index].event_cycle
       /\ IF served = {} THEN q.next_process_cycle = UINT64_MAX
          ELSE /\ q.next_process_index = Oldest(q, served)
               /\ q.next_process_cycle =
                    q.entry[q.next_process_index].event_cycle

\* What the LLC waits for is exactly what the read queue holds, each block in
\* one slot, and occupancy counts the slots in use: no read is lost or
\* answered twice, whatever is abandoned and restarted.
Holds(q) == {q.entry[i].address : i \in Live(q)}

QueuesExact ==
  /\ pending = Holds(channel.queue["RQ"])
  /\ \A k \in QueueNames : LET q == channel.queue[k] IN
       /\ q.occupancy = Cardinality(Live(q))
       /\ \A i, j \in Live(q) :
            q.entry[i].address = q.entry[j].address => i = j

\* Two transfers never overlap on the data bus, and when they go in opposite
\* directions the bus also rests for the turn-around time between them
\* (dram_controller.h:16, "the data bus must wait this amount of time when
\* switching between reads and writes, and vice versa").
TransferGap(before, after) ==
  IF before.queue = "none" THEN 0
  ELSE DRAM_DBUS_RETURN_TIME
       + (IF before.queue = after.queue THEN 0 ELSE DRAM_DBUS_TURN_AROUND_TIME)

TransfersSpaced ==
  [][last_transfer'.start >=
       last_transfer.start + TransferGap(last_transfer, last_transfer')
    ]_last_transfer

\* The controller implements a memory that serves each block it accepted,
\* one at a time, and never sends a read past a waiting write of its block.
Port == INSTANCE MemoryPort WITH
          rd <- Holds(channel.queue["RQ"]), wr <- Holds(channel.queue["WQ"])

ImplementsPort == Port!Spec

\* Every read sent to memory is returned and every accepted writeback is
\* written, in spite of the mode switches that abandon requests: when no more
\* requests come (MaxReads, MaxWrites), both queues run empty.
EveryRequestServed ==
  []<>(Holds(channel.queue["RQ"]) = {} /\ Holds(channel.queue["WQ"]) = {})
=============================================================================
