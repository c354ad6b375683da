# TLA+ models of the ChampSim core and memory system

This directory specifies and verifies the core and the memory system of `pa2/`, a
cycle-level simulator (ChampSim) whose cache hierarchy was rewritten to be
exclusive. Paths below are relative to the repository's root, `cache.cc` and
the like to `pa2/src/`.

## 1. The system

| part | state | operations | talks to |
|---|---|---|---|
| main loop (`main.cc`) | core cycles, warm-up and completion flags | one iteration = one cycle of every core, then LLC, then DRAM | calls `operate()` of everything |
| core (`ooo_cpu.cc`) | ROB, load and store queues, fetch and decode buffers | fetch, dispatch, schedule, execute, retire | sends fetches, loads and stores to L1I and L1D, takes answers from `PROCESSED` |
| translation caches ITLB, DTLB, STLB (`cache.cc`) | sets, MSHRs, queues | the handlers of CACHE; `handle_processed` gives translations to the L1 queues | STLB misses go to the walker |
| page-table walker (`page_table_walker.cc`) | radix tree, page maps, MMU caches, one MSHR | `operate`, `handle_page_fault`, `va_to_pa_ptw`, `return_data` | reads page-table entries through L2C |
| L1I, L1D, L2C, LLC (`cache.cc`) | lines with valid and dirty bits, MSHRs, read, write and prefetch queues | `handle_fill`, `handle_writeback`, `handle_read`, `handle_prefetch`; `add_rq`, `add_wq`, `add_pq`, `return_data` called by the neighbours | misses go down, answers go up, fills reach into every other level to invalidate |
| memory controller (`dram_controller.cc`) | read and write queue, 8 banks, data bus, read/write mode | `operate` (mode, schedule, process), `add_rq`, `add_wq` | answers LLC through `return_data` |
| packet queues (`block.cc`) | ring of packets, head, tail, occupancy | `check_queue`, `add_queue`, `remove_queue` | inside every cache |
| prefetchers, replacement, branch prediction | tables | called by the caches and the core | `prefetch_line` |

There are no threads. What makes the code hard is that one packet is handled
by half a dozen components over hundreds of cycles: latencies, queue limits and
MSHR merges decide in which order the handlers meet, and each neighbour changes
state the other has cached, merged or is about to overwrite. The behaviours
that matter:

- a fill, a writeback, a demand and a prefetch of the same block under way at
  the same time, at different levels;
- results of `add_rq` that nobody looks at, `assert(0)` where an answer finds
  no MSHR, and rules on sizes that make both harmless;
- the mode switch of the memory controller, which abandons requests in service
  and repairs five kinds of bookkeeping;
- progress: fills wait for write queues, which wait for fills below.

The correctness properties wanted per component: *memory controller* — banks,
queues, cached indices and counters agree, nothing accepted is lost, the bus is
never used twice, everything is served; *caches* — a block is where the build
says it may be, an L1 holds it once, each miss is answered exactly once and in the
end, what is stored reaches memory; *translation caches* — every slot of an L1
queue gets the translation of its page, whatever has merged with it; *walker* —
each request is answered once, with the page that is mapped, also while other
walks fault pages in; *core* — instructions retire in order, loads see older
stores, wake-ups are not lost; *dependency sets* — they are sets.

The rest of the repository: `pa2/cache_hierarchies` holds the two variants of
`cache.cc` (`build_champsim.sh` copies one over it; the exclusive one is the same
text as `cache.cc`, the other is modelled in `NonInclusiveHierarchy`),
`pa1-three-geniuses` numeric kernels (tiled matrix product, a small network,
embedding lookups) and `PA1-others` scripts, measurements and binaries.

## 2. Modules

| module | what it is |
|---|---|
| `MemoryPort` | abstract specification of memory as LLC sees it: accepted reads `rd`, accepted writes `wr`, completed one at a time |
| `DramController` | the memory controller in detail; refines `MemoryPort` |
| `CacheHierarchy` | L1I, L1D, L2C, LLC of the exclusive build, the walker as a client, on top of the two variables of `MemoryPort` |
| `NonInclusiveHierarchy` | the other build: extends `CacheHierarchy` with its own fills and writebacks |
| `TranslationPort` | abstract specification of the walker as STLB sees it |
| `TranslationCaches` | ITLB, DTLB, STLB and the slots of the L1 queues, on top of the three variables of `TranslationPort` |
| `PageTableWalker` | the walker in detail; refines `TranslationPort` |
| `OutOfOrderCore` | the core, from the trace to retirement; the L1s are its environment |
| `DependencySets` | abstract specification of the sets of slots that core and caches keep |
| `FastSet` | `fastset` in its two representations, loop by loop; refines `DependencySets` |
| `DramControllerProofs`, `CacheHierarchyProofs`, `NonInclusiveProofs`, `FastSetProofs`, `PageTableWalkerProofs`, `TranslationCachesProofs` | theorems |
| `OutOfOrderCoreProofs`, `OutOfOrderMemoryProofs` | theorems about the core: registers and the reorder buffer; then memory and the whole |
| `MC*` | TLC instances |

Two ports are the seams between components. `DramController` offers `MemoryPort`
(`ImplementsPort`) and LLC uses it as intended (`UsesMemoryPort`): a read of a
block is not repeated while it is pending, and `add_rq` and `add_wq` are called
only with room in the queue, which is what `DramController` assumes of its client.
`PageTableWalker` offers `TranslationPort` (`ImplementsPort`) and STLB uses it as
intended (`UsesTranslationPort`): it asks for a page once at a time, which is
what the walker assumes and asserts.

### DramController

One channel and one rank, as built. `channel` is a record of two queues (slots
with address, event cycle and scheduled flag; occupancy; the cached `next_schedule_*` and `next_process_*`), the banks (`cycle_available`,
open row, the request in service), the write mode, the counters of scheduled
requests and the cycle the bus is free from. Actions:

| action | code |
|---|---|
| `add_rq`, `add_wq` | `MEMORY_CONTROLLER::add_rq`, `add_wq`: forward from the write queue, merge, insert, refresh the cached index; answer at once or drop during warm-up |
| `operate` | one whole call: mode switch with `reset_remain_requests`, `schedule`, `process` |
| `finish_warmup` | the end of warm-up in `main.cc` |

Packets carry no data. Ghost variables: `pending` (what LLC waits for) and
`last_transfer`. `operate` ends a cycle; cycles in which it finds nothing to do
(`Idle`) are not counted beyond `IdleHorizon`.

### CacheHierarchy

`block[c]` maps frames (set, way) of cache `c` to a line (address, dirty; address
0 is an invalid line); `mshr[c]` is the set of misses `c` waits for; `rq`, `wq`,
`pq` are the queues of L2C and LLC. A packet keeps what decisions depend on:
address, fill level, type, `instruction`, `fill_l1i`, `fill_l1d`,
`send_both_cache`, the level a prefetch came from, and whether the answer has
arrived. Each handler of each cache is an action on one packet:

| action | code |
|---|---|
| `handle_fill(c)` | `CACHE::handle_fill`: victim, writeback, bypass, invalidations, fill, answers to the levels above |
| `handle_writeback(c)` | L2C and LLC: hit marks dirty, miss allocates |
| `handle_read(c)`, `handle_prefetch(c)` | L2C and LLC: hit, merge, miss |
| `read`, `write`, `prefetch` | the same handlers of the L1s, on a request of the core or an L1 prefetcher whose translation is there |
| `walk`, `walked` | the walker's read of a page-table entry, and its use |
| `translation_fill` | what `handle_fill` of a translation cache does to the data caches |
| `memory_returns`, `memory_writes` | memory, as `MemoryPort` |

Abstractions: latencies become interleaving (a packet that is ready may be
handled at any time, so `operate()`'s fixed order is one of the orders
explored); LRU becomes a choice among valid ways when no way is invalid; the
prefetcher of L2C asks for any block at either level or for none; requests of
the core are any block at any time, because the L1 queues release requests in
the order of their translations. The walker's blocks are distinct from data
blocks, as the allocator of physical pages keeps them. Ghost variables:
`stored`, and `unfilled` (blocks with a store waiting for a fill of L1D).

### NonInclusiveHierarchy

Requests, queues, MSHRs and lookups are the same text in both files and are
taken from `CacheHierarchy`. `keep_fill(c)` is `handle_fill` of
`non_inclusive_cache.cc`: it writes back a dirty victim or waits, keeps the block
at its own level and answers the level above. `absorb_writeback` and
`place_writeback` are `handle_writeback` for a hit and a miss. Nothing is
invalidated elsewhere.

### PageTableWalker and TranslationCaches

In the walker a virtual page is the tuple of its offsets and the radix tree a
function from entries `<<l, offsets>>` to frames, drawn in order. `PSCL` are the MMU
caches, `MSHR` the walk in progress, which carries the base address of the table
it reads next. Page maps, page replacement and the answer to STLB are part
of the actions:

| action | code |
|---|---|
| `Request` | `add_rq`, `add_pq` |
| `FirstWalk`, `StartWalk` | `operate`, next request: `handle_page_fault` for CR3, or a walk below the best hit of the MMU caches |
| `NextLevel`, `return_data` | a read through L2C, and its answer |
| `FinishWalk`, `PageFault`, `DropPrefetch` | `operate`, an answer: the leaf; a missing entry of a demand; of a prefetch |
| `L2CQueueChanges` | other readers of L2C |

`TranslationCaches` has a queue, MSHRs and lines per TLB, and for each L1 the slots
of its queues, each with a page and a translation. A packet names its own slot
(`own`) and those that merged with it (`merged`). A frame has the name of its page,
since which frame it is decides nothing.

| action | code |
|---|---|
| `demand`, `prefetch` | `add_rq`, `add_wq`, `add_pq` of an L1, with `add_rq` of the TLB they call |
| `hit`, `miss`, `merge` | `handle_read` of a TLB |
| `fill`, `drop`, `ask_again` | `handle_fill` of a TLB: a translation; a dropped request; a dropped request that a demand has joined |
| `handle_processed`, `use` | `CACHE::handle_processed`, and an L1 handler that takes a translated slot |
| `translated`, `dropped` | the walker, as `TranslationPort` |

The read queue of STLB is tested nowhere and must be long enough for the MSHRs
above it and the prefetch queue of L1D (`QueuesCoverTranslations`); the build has
32 = 8 + 8 + 16. A slot of the prefetch queue may be translated early by a packet it did
not send, and be reused while its own is under way, so the sum is not a strict
bound; TLC finds none lost in the instance. In the exclusive build demand
translations bypass STLB (`fill` with `m.fill = 1`); in the other they are kept,
which is not modelled. Code and data pages are separate when the build is for
CloudSuite traces (`knob_cloudsuite`); otherwise a page may hold both.

### FastSet

`card`, `values` and `bits` are the element count and the two views of the union.
`insert` is one step; `search`, `join` and `expand` start a call whose loop takes a
step for each iteration (`bisect`, `join_next`, `expand_next`). Calls do not
overlap. `Contents` is the refinement mapping: a join has happened as a whole
from its first step on.

### OutOfOrderCore

The trace is a variable that never changes, chosen among `Programs`; an
instruction is named by its place in it (`instr_id`). `ROB`, `LQ` and `SQ` are
the arrays of the code, indexed by slot, with the fields that decide something;
`RTE0`, `RTE1`, `RTL0`, `RTS0` and `STA` are sequences of slots or
instructions, `IFETCH_BUFFER` and `DECODE_BUFFER` of instructions. The lists of
dependents of a `ROB` entry are sets of slots, as in the code.

| action | code |
|---|---|
| `read_from_trace` | reads an instruction, predicts its branch, notes its stores in `STA` |
| `resume_fetch`, `request_block`, `fetch_instruction` | the three parts of `fetch_instruction`, whose widths differ |
| `complete_instr_fetch`, `complete_data_fetch` | the same, and `handle_merged_load` |
| `decode_and_dispatch` | moves an instruction to `ROB` |
| `schedule_instruction` | `do_scheduling`, `reg_dependency`, `reg_RAW_dependency` on the next instruction |
| `execute_instruction` | `do_execution` on the head of `RTE0` or of `RTE1` |
| `schedule_memory_instruction` | `do_memory_scheduling` and `check_and_add_lsq` for one instruction: `add_load_queue` with forwarding and `add_store_queue` for all its operands that fit |
| `execute_store`, `execute_load` | the two loops of `operate_lsq` |
| `complete_execution(s)` | `update_rob`, `complete_execution`, `reg_RAW_release` |
| `retire_rob` | one instruction: its stores go to L1D, which may refuse them (`add_wq`), its entries are freed |
| `handle_writeback` | L1D takes a store |

An action is one round of a stage's loop, and any stage may be next: a superset
of what the fixed order of `main.cc:1539-1576`, the widths and the latencies
allow. Branch prediction is a choice (`Predictions`), and so is how many stores of a
retiring instruction find room in the read queue of DTLB. Ghost variables: `memory`
(the last store L1D has taken, per address), `lost` (the stores it has refused) and
`loaded` (which store each load read).

## 3. Runs

| run | checks | shows |
|---|---|---|
| `dram` | `TypeOK`, `BankBookkeeping`, `CountersExact`, `CachedIndicesFresh`, `QueuesExact`, `TransfersSpaced`, `ImplementsPort`, `EveryRequestServed` | three reads and two writes over three blocks, two of them in one bank in different rows; both modes are abandoned with requests in service |
| `hierarchy_demand` | `TypeOK`, `L1CopiesAreSingle`, `Exclusive`, `OnlyStoresAreWrittenBack` | loads, stores, fetches, fetch prefetches and walks; four stored blocks and one frame per cache, so dirty blocks travel down to memory |
| `hierarchy_misses` | `MissesCarried`, `EveryMissAnswered` | L1D and L2C prefetchers, walks and a translation fill together: what is on its way to a cache is exactly what it waits for, and comes |
| `noninclusive` | `CopiesAreSingle`, `StoresReachMemory`, `UsesMemoryPort` | the other build: a stored block is dirty somewhere or in a write queue until memory has it, through full queues and lines that make room |
| `tlb` | `TypeOK`, `WaitersNamed`, `MissesCarriedOnce`, `TranslationsRight`, `UsesTranslationPort`, `EveryRequestTranslated` | every slot that waits is named by a packet under way, whatever merges, is dropped or asked again |
| `walker` | `TypeOK`, `MMUCachesCoherent`, `ReadsItsTable`, `FramesUnshared`, `CurrentUntilReplaced`, `ImplementsPort`, `EveryWalkEnds` | demands and prefetches of four pages that share tables, in memory of seven frames, so that pages are replaced |
| `core` | `TypeOK`, `ProducersFirst`, `LoadsSeeStores`, `OperandsCounted`, `StoresInOrder`, `ReadyQueuesExact`, `OneStallingBranch`, `WakesItsOwn`, `EveryInstructionRetires` | five families of programs (chains of registers and memory, crowds of loads, branches, loads of two addresses, stores to two) in buffers shorter than the programs |
| `fastset` | `ImplementsSets` | two sets of up to six numbers that turn into bit sets at five, in the middle of inserts and joins |
| `hierarchy_exclusion` | `Exclusive` (violated) | finding 1 |
| `hierarchy_stores` | `StoresDirtyTheirLine` (violated) | finding 2 |
| `core_deadlock` | `EveryInstructionRetires` (violated) | finding 3 |
| `tlb_assertion` | `NoAssertionFails` (violated) | finding 4 |

Some properties hold within limits that the other runs or builds lift:

- `hierarchy_demand` checks `Exclusive` without the prefetchers that fill L2C;
  `hierarchy_exclusion` shows it fails with them.
- `StoresReachMemory` is checked of the non-inclusive build. The exclusive build
  drops dirty copies when it invalidates (see section 4).
- `CopiesAreSingle` needs stored blocks to be fetched by L1D only, and no prefetcher
  but that of L1I: a writeback takes a frame without looking at the MSHRs.
- `core` checks `EveryInstructionRetires` with a reorder buffer too short
  for younger loads to fill the load queue. `WakesItsOwn` is about the store of an
  instruction that has no other: the assertion fails with a second one (section 4).
- `LoadsSeeStores` excuses a load from the stores that L1D has refused (section 4).
- The walker's translations are current only until a page is replaced
  (`CurrentUntilReplaced`): the page map moves on, the tree does not.
- The properties of `tlb` hold up to the failed assertion of finding 4, where
  the program stops.

**Bounds.** `MaxReads`, `MaxWrites` and `MaxRequests` bound the requests of
a behaviour, `MaxTranslations` the fills of translation caches, `MaxQueueing`
the cycles a request may already have waited when it arrives, `IdleHorizon` the
idle cycles counted towards it, `UINT64_MAX` the cycles of a run: the longest
behaviour of `dram` ends before it, or its deadlock check would fail. Timing
constants are 1 or 2: the controller compares cycles, and 1 and 2 already order
every pair of events both ways. Two banks and two rows give row hits, row
conflicts and independent banks. The two watermarks of `dram` are both 2, so that
one write remains in service when reads resume; in the code they are 28 and 24
of 32, and the theorems hold for any.

In the hierarchy caches have a single frame (L2C two where duplicates are the
point): two blocks compete at once, and four stores fill L1D, L2C, LLC and the
write queue of memory. The read queues are exactly as long as `QueuesCoverMisses`
demands, so a read that were one too many would be lost; the other queues hold
one packet (two prefetches in `hierarchy_misses`, so that they can merge).
Addresses start at 1 because 0 marks an empty slot in the code. `noninclusive`
has five requests: three stores and two more accesses push a dirty line through every
level.

`walker` has three levels instead of five: one that only CR3 leads to, one
leaf, one between, and every rule of the code is about a level and the next.
Four pages share two, one or none of their tables; seven frames hold two walks and
then run out. `tlb` has two pages and four requests, enough for two L1s to ask for
the same page twice while STLB has one MSHR.

The programs of `core` have four instructions and its reorder buffer
three slots, so that slots are reused while dependents of their old owners are
still about; the load and store queues have two entries, fewer than the operands
of the instructions in flight; the write queue of L1D holds two stores, those of one
instruction. Two registers and
two addresses are enough for an instruction to wait for two others and for a
store of another address to come between. `core_deadlock` has four slots, the
least that finding 3 needs.

**Fairness.** `DramController` assumes weak fairness of the end of a cycle:
`main()` calls `DRAM.operate()` in each iteration. `CacheHierarchy`,
`NonInclusiveHierarchy` and `TranslationCaches` assume weak fairness of the handlers
together, less than the code gives: `operate()` of every cache runs in each
cycle, so a handler that can act does. It does not cover a steady stream of
demands, under which `handle_prefetch` may never run (`cache.cc:2643`); the requests
of a behaviour end, and what is under way then must complete. `[]<>` in
`EveryRequestServed` and `EveryRequestTranslated` says the same: as requests end,
nothing waits from some time on. `PageTableWalker` assumes
strong fairness of `operate`: L2C's read queue, which other readers fill and
which is as long as their MSHRs together, is not full whenever the walker looks.
`OutOfOrderCore` assumes weak fairness of `Next`: every stage is
called in every cycle (`main.cc:1539-1576`) and the L1s answer, which is what
`CacheHierarchy` shows. Every step brings some instruction closer to its end, so
no stage can be kept from running for ever by the others. Deadlock checking is
off where the environment may simply stop.

**Mutants.** For each property of a passing run `PROJECT.json` names a small
change of the model — a dropped guard, a lost flag, a missing reset — under
which TLC finds it violated. They are the operators marked as mutants.

## 4. Findings

1. **Blocks at two levels** (`cache.cc:339`). A writeback allocates in L2C while
   a prefetch of the block is in flight, which then fills a second copy. The
   invalidation loops stop at the first copy.
2. **Stores filled clean** (`cache.cc:697`). A store that joins the MSHR of a
   load does not make it an RFO; its line is clean and the data is dropped on
   eviction.
3. **Deadlock of the core** (`ooo_cpu.cc:1625`). `check_and_add_lsq` hands out
   the load queue to whatever load is ready. Younger loads that wait for a store
   can fill it; if the store needs the value of a load that has no entry yet,
   nothing retires any more and the detector at `main.cc:1624` aborts the run.
4. **Assertion in STLB** (`cache.cc:3074`). The request of an instruction fetch
   that meets the request of an L1D prefetch of its page in the read queue of
   STLB takes the branch of instructions, which asserts that the cache is ITLB.
   It takes a page that is fetched and prefetched as data.

Met while modelling, without a run, since the models leave out what is affected or
nothing in the repository is at stake:

- `add_wq` of the controller drops the data of a second writeback of a queued
  block, and a read that is forwarded from it gets the first
  (`dram_controller.cc:646`, 558). No value is simulated.
- A fill above drops dirty copies below without writing them back
  (`cache.cc:303-409`), so a load that hits a dirty block of L2C loses it.
- Fills of translation caches run the same invalidations with page numbers
  (`cache.cc:338`); `translation_fill` models it. A dirty block that they hit is
  lost too, which `Exclusive`, `L1CopiesAreSingle` and `MissesCarried` cannot notice.
- Clean victims are dropped (`cache.cc:168`), against the comment at
  `cache.cc:187`; a victim is written back, or the fill held up, before the fill is
  found to bypass the cache (`cache.cc:284`).
- `execute_store` looks for the loads to wake by instruction and address
  (`ooo_cpu.cc:2187`). With two stores in one instruction it can find a load that
  waits for a younger store, or to one address find the same load twice, and the
  assertion at `ooo_cpu.cc:2195` fails. TLC finds both with programs of the sizes of
  `core`, whose own programs with two stores are such that it holds.
- `retire_rob` ignores the result of `L1D.add_wq` (`ooo_cpu.cc:2913`), which returns -2
  and queues nothing when the read queue of DTLB is full (`cache.cc:3353`): 16
  requests, which stay there once the 8 MSHRs are taken. The instruction retires, its
  store counts as sent (`sim_store_sent`), and its data is lost: a later load of the
  address gets that of an earlier store. `retire_rob` models it; without the excuse
  in `Sees` TLC finds `LoadsSeeStores` violated. Both hierarchies start with the
  stores that L1D has taken, so `StoresReachMemory` is about those only.
- The walker takes the offset of a walk from the read queue where it serves the
  prefetch queue (`page_table_walker.cc:317`); `Walk` models it. The offset decides
  only the address read, not where the walk leads.
- The page offset is joined with `&&` (`page_table_walker.cc:106`); STLB shifts
  it out.
- `PROCESSED` drops a translation that finds it full (`cache.cc:566`); with queues
  as long as the build's that does not happen.

## 5. Proofs

`DramControllerProofs` proves for all sizes, timings, watermarks and sets of
addresses that `DramAssumption` in `DramController` allows:

- `Invariance`: `Spec => []IInv`;
- `TypeCorrect`, `BanksAlwaysAgree`, `CountersAlwaysExact`, `QueuesAlwaysExact`:
  the invariants of `dram` of the same names;
- `ControllerImplementsPort`: `Spec => ImplementsPort`;
- `TransfersAlwaysSpaced`: `Spec => TransfersSpaced`;
- `IndicesAlwaysFresh`: `Spec => []CachedIndicesFresh`.

`IInv` is types, plus `ChannelInv` (each queue has exact occupancy and one entry
per block; a bank in service and its queue entry name each other; the counters
equal the entries in service; the cached indices point at entries they may
point at), plus `pending` equal to the read queue's blocks. No part is
inductive alone: `process` may decrement a counter only because the bank it
serves names an entry in service, which needs the agreement of banks and
entries; scheduling keeps that agreement only because its cached index is an
unscheduled entry; and `reset_remain_requests`, which decrements a counter once
for each bank it abandons, ends with counters at zero only because the entries
in service are in different banks (`CountersReachZero`, a bijection between
entries in service and the banks that serve them). The scans for the oldest
entry return an entry of the set they look at because a set of naturals has a
least element (`LeastNatural`, from the library's well-founded order on `Nat`).
There is one lemma per function of the code (`Insert`, `remove_queue`,
`schedule`, `process`, the reset), each preserving `ChannelInv`, and one step
per action above them. The refinement follows from what each lemma says about
`Holds`: inserts add one block, `process` removes one, mode switches none. The
bus theorem uses a further invariant, `BusReserved`: the bus is busy at least
until the last transfer has ended. The cached indices are fresh, step by step,
over `IInv`: a scan depends on `event_cycle`s only and breaks ties by index
(`OldestSame`), an insertion goes to an empty slot and `process` empties one that is
in service, and a mode switch, which takes requests out of service, recomputes
the indices of the queue it abandons.

`FastSetProofs` proves, for all sizes of the two representations
that `SizesAssumption` in `FastSet` allows, `FastSetInvariant` (`Spec => []IInv`) and
`FastSetIsSet` (`Spec => ImplementsSets`): what a caller sees of `fastset` is a
set, in either representation and across the change. `IInv` is types; a small
array ascends up to `card`; a bisection under way keeps the sought number, if it
is there, between its two ends; the set a join reads stays small, also when it
joins itself; an expansion has listed the members below its position. The
refinement needs all of them: the answer of a search is right only because what
the bisection has thrown away of a sorted array cannot hold the number, and
`join` may change representation with half of its source merged.

`CacheHierarchyProofs` proves for all sizes, blocks and prefetchers that
`HierarchyAssumption` and `QueuesCoverMisses` allow every safety property of the
hierarchy but `StoresDirtyTheirLine`, which finding 2 refutes, from four invariants:

- `HierarchyInvariance` (`Spec => []HierarchyInv`), from it `HierarchyTypeCorrect`
  and `OnlyStoresGoDown` (`OnlyStoresAreWrittenBack`). `HierarchyInv` has a part for
  lines, misses, reads, prefetches and writes. What is written back is not
  inductive alone: a fill of L1D makes a line dirty because its miss is an RFO, so
  an RFO miss of L1D must be for a block that a store has asked for, whatever
  demands and prefetches have merged with it.
- `MissesInvariance` (`Spec => [](HierarchyInv /\ MissesInv)`), from it
  `MissesAreCarried` (`MissesCarried`) and `CachesUseMemoryPort` (`UsesMemoryPort`).
  `MissesInv` says that a queue or an MSHR file holds a block once, that a packet
  is answered only to caches it names (`WellFormed`), and that whoever waits for a
  block is named by one packet in one place below (`CarriedOnce`); LLC waits for
  what memory has been asked for (`ReadOnce`). A handler that takes a packet from
  one place and puts it in another passes through a state in which the packet is
  nowhere, which `Owed` describes: those the packet is for wait, and nothing else
  names them. `Owed` is what a packet taken from a queue or from a miss above
  leaves (`OwedFromRead`, `OwedFromPrefetch`, `OwedFromMiss`), and what merging it
  or putting it into a queue or an MSHR needs. `add_rq` drops a packet that
  finds the queue full; that it never does is a counting argument (`RoomForRead`):
  each packet of a read queue is for a miss above, no two for the same one
  (`BlocksBounded`), and `QueuesCoverMisses` says that there are no more misses
  than entries, as in the build.
- `L1sInvariance` (`Spec => []L1Inv`), from it `L1sHoldOnce` (`L1CopiesAreSingle`):
  a line lies in the set of its block, alone, and a block that is held has no
  miss. A fill needs the second to keep the first, and a new miss needs the lookup
  of the same step to keep the second.
- `AlwaysExclusive` (`Spec => []Exclusive`) assumes `Prefetchers \subseteq
  {"L1I"}`; finding 1 shows that it is false with a prefetcher that fills L2C. Its
  invariant, `ExclusionInv`, says that every packet is to fill an L1 (`ForL1Inv`:
  whatever merges takes the lower level) and that a block is in one frame of one
  cache, in its set (`InOnePlace`). So the shared caches bypass every fill and get
  lines from write queues only; `fill_cache` invalidates one copy per cache, which
  is enough because there is no second.

There is one lemma per handler and part, over lemmas about lines (placing,
marking, invalidating), misses (new, merged, answered, promoted) and queues.

`NonInclusiveProofs` proves the same invariants of the other build
(`KeepingInvariance`, `KeepingTypeCorrect`, `KeepingMisses`) and from them
`KeepingMissesCarried`, `KeepingUsesMemoryPort` and `KeepingL1sHoldOnce`: its fills
answer misses, place lines and write back victims by the same lemmas, and its
writebacks take frames of shared caches only. On the first rests
`StoresAlwaysReachMemory` (`SpecKeeping => StoresReachMemory`): a dirty copy is
lost by no step but memory's own write. A fill that takes a dirty line's frame
puts its block into the write queue below in the same step, a writeback leaves a
queue only for a line that becomes dirty, and a line is marked dirty, never clean.
`KeepingCopiesSingle` (`SpecKeeping => []CopiesAreSingle`) assumes that nothing but
L1I prefetches and that no code is stored to. A writeback takes a frame without
looking at the MSHRs, so the cache it arrives at must have no miss for its block
(`NoMissQueued`). `CopiesInv` has the reason: while a block is on its way down to
L2C, L1D does not wait for it, and neither does L2C while it is on its way to LLC
(`Uncalled`). The cache that sent it down held it and so had no miss, and one that
asks for it again is answered from the write queue in the same step. L1I and the
walker have no business with stored blocks, and by `MissesInv` a miss of a shared
cache is for somebody above who waits.

`PageTableWalkerProofs` proves, for all pages, levels and sizes that
`WalkerAssumption` allows and the request types of the build (`TypesAssumption`),
`WalkerInvariance` (`Spec => []IInv`), from it `WalkerTypeCorrect`,
`MMUCachesStayCoherent`, `WalksReadTheirTable`, `FramesStayUnshared` and
`CopiesCurrentUntilReplaced`, and `WalkerImplementsPort` (`Spec =>
ImplementsPort`). `IInv` says that an entry of the tree has all entries above it
(`TreeClosed`), that queue and walk hold what STLB has asked for
(`RequestsAsked`), that a walk has found every level above its own and carries
the base address of the table it reads (`WalkOK`), that frames are counted and
owned once (`FrameInv`), that the MMU caches hold what the tree holds, and that
the TLBs above hold only answers. The MMU caches stay coherent because a walk
fills only levels it missed in, and because the tree only grows, except in its
leaves, which they do not cache. Frames stay unshared through page replacement
because the victims `va_to_pa_ptw` takes from the page map are distinct: each
has a place in the map's order, and each place is taken once.

`TranslationCachesProofs` proves for all pages and sizes that `SizesAssumption` and
`QueuesCoverTranslations` allow (`NoneAssumption` says that `None` is not a slot, packet or
entry; one theorem below also needs `AnswersCoverSlots`) `TranslationInvariance` (`Spec => []IInv`), `TranslationTypes`,
`TranslationsStayRight` and `WalkerAskedOnce` (`Spec => UsesTranslationPort`).
`IInv` says that a line, an answer and a slot hold the walker's translation of
their page or nothing, and that packets are of the kind their queue takes. That
is not inductive alone: `dropped` gives up a prefetch for good, so every slot a
packet of type `TRANSLATION_FROM_L1D` names must be a prefetch slot (`Asks`), in
whatever queue merges have brought it. The page map only grows, so a translation
that is right stays right (`RightStays`). `WalkerAskedOnce` needs `AskedOK`: STLB
waits in its MSHR for exactly the pages it has asked for or has an answer of,
which makes `ask_again`, after a dropped prefetch that a demand has joined, the
one request the port allows.

Three theorems of `TranslationCachesProofs` say that nothing that waits is
forgotten. They rest on `KindsStay` (`Spec => []KindsOK`): a read queue has one
packet of a page (`Once`), so that a page names a packet (`Of`), and the packets of
a place are of its kind: ITLB holds what is for instructions, DTLB demands for
data, each with the slot that asked first, and a packet of STLB that does not
answer ITLB or DTLB is a prefetch of L1D. One lemma per action (`HitView`,
`MissView`, ...) says what it does to the packets of each page.

- `SlotsNamedOnce` (`Spec => []NamedOnce`): a slot that waits on ITLB or DTLB is
  named by exactly one packet of its page, in the read queue, an MSHR or
  `PROCESSED`, and a slot that does not wait by none. `SlotOK` says where a slot is
  named; each action leaves it, takes it from nowhere to the read queue, from there
  to an MSHR, from either to `PROCESSED`, and from there to the slot.
  `Processed` drops an answer that finds no room. That ITLB and DTLB never lose
  one so is a pigeonhole argument (`RoomLeft`): every answer in the queue has a
  slot of its own, the new one too, and `AnswersCoverSlots` says that
  there are no more slots than places (80 and 128 to 352 in the build).
- `SlotsStayNamed` (`Spec /\ []RoomForAnswers => []WaitersNamed`) adds the
  prefetches of L1D, which STLB translates. Its `handle_fill` does not answer
  every packet that names a slot: one of an instruction fetch, with a slot of its
  own only, gets none. `PrefetchesOK` says that the packet that names a waiting
  prefetch is not of that sort (`Answerable`). `ReadAnswerable` and `MissAnswerable`
  show that no merge makes it one: an instruction fetch that joins a prefetch in an
  MSHR takes its slots over, and one that joins it in the read queue fails
  the assertion of `add_rq` (finding 4). `RoomForAnswers` says that `PROCESSED` of
  STLB has two free places. The sizes do not give that: `handle_read` answers a
  packet of STLB twice when it has a slot of its own and others, and answers may
  outlive the slots they name. With the constants of the run `tlb` it holds in every
  state, with up to half of the places taken; in the build the queue has 352 places
  and L1D takes one answer from it every cycle (`cache.cc:1166`).
- `MissesCarried` (`Spec /\ [][~MissOverflows]_vars => []MissesCarriedOnce`):
  `CarriedAt` is the invariant for one TLB and page. A packet of STLB is returned
  to the TLBs that `Receivers` names, by its level, `send_both_tlb` and whether it is
  for instructions; `ReadReceives` and `MissReceives` show that a merge of two of any
  kinds is returned to all that either was. `MissOverflows` is a step in which
  ITLB or DTLB starts to wait while the read queue of STLB is full of other
  pages. `QueuesCoverTranslations` does not rule it out: a slot of L1I and one of
  L1D may have the same name in STLB, and a packet of a prefetch may outlive its
  slot, which another answer serves and the L1 gives away, so that there can be more
  packets of prefetches than slots.

`OutOfOrderCoreProofs` and `OutOfOrderMemoryProofs` prove for every program, of any
finite length, and every size of buffers and queues `CoreInvariance` (`Spec =>
[](CoreInv /\ MemInv)`) and what follows from it: `CoreTypeCorrect`,
`ProducersComeFirst`, `OneBranchStalls`, `OperandsStayCounted`,
`StoresStayInOrder`, `ReadyQueuesStayExact` and `LoadsAlwaysSeeStores`; with
`StoresWakeTheirOwn` they state every safety property of the run `core`.

- `CoreInv` is about registers. `Ring`: the instructions that have entered ROB
  and not retired are those of consecutive numbers, each in its slot, so a slot
  number stands for one instruction at a time. `DependencesCounted`:
  `num_reg_dependent` is the number of writers that have yet to execute and name
  the slot (`Pending`), `reg_ready` says there are none, and the last writer of
  each register has retired, has executed or will release the slot
  (`Produced`). A release counts for the right instruction because dependents
  are younger than what they wait for (`DependentsYounger`), so they are still
  there.
- `MemInv` is about memory. An entry of LQ or SQ names an operand of an
  instruction in ROB that names it back (`LQLinked`, `SQLinked`; for LQ only one way,
  because an instruction keeps the numbers of entries that have been released
  and given away). `MemoryCounted`: `num_mem_ops` is what is left to enter, is in
  LQ, or is a store that has not executed. `SQRing` needs `StoresToCome`: STA names
  as many stores of an instruction as it has yet to enter, in program order, and
  nothing in SQ is younger. `DataInv` is what `LoadsSeeStores` needs: memory holds
  the last store that has retired but for those L1D has refused, and a load in LQ
  waits for the last store before it or there is none in the core. Retirement frees the head of the ring
  because the stores of the oldest instruction are a set of places in the ring
  that has all places before any of its members (`FirstOnes`).

There is one lemma per action and part (`RetireRing`, `RetireStores`, ...), over
lemmas about the order `ITERATE_SET` visits a set in (`BeforeRanks`,
`InOrderLists`), queues that name things once, and places in a ring. The
assertion of `execute_store` is a guard of the model's action, so the other
theorems are about executions in which it holds.

`StoresWakeTheirOwn` says that it does whenever the store is the only one of its
instruction, in every program, whatever the other instructions store. Its
invariant `WaitInv` has two parts. `DependentsWait`: a memory dependent of an
instruction is in ROB, and the last store before one of its loads is that
instruction's. `LoadsWait`: a load that has had its entry of LQ keeps it, with
that store for its producer, until the store executes, if that is the only one of
its instruction. The second is what fails for two stores: an instruction names its dependents whole, so with two
stores to one address the first to execute wakes the load and releases nothing
of the list, the second finds the load again, and its entry of LQ may no longer
wait, or may be another instruction's. TLC finds the
assertion violated for such a program within the bounds of `core`.

No safety invariant of a passing run is only model-checked, within the
hypotheses named above (those of `SlotsStayNamed` and `MissesCarried`).
Out of the prover's reach are liveness (`EveryRequestServed`, `EveryMissAnswered`,
`EveryRequestTranslated`, `EveryWalkEnds`, `EveryInstructionRetires`) and what
would need induction over data.

## 6. Not modelled, and the plan

- **Branch prediction, trace input, kernels, scripts**: predictors are functions
  of tables whose effect is one bit per branch, a choice in `OutOfOrderCore`; the
  trace reader is input; the kernels of `pa1-three-geniuses` are sequential numeric
  code; scripts build and plot.
- **Main loop**: the order of a cycle, the end of warm-up and the wiring are in the
  models; context switches, the deadlock detector, the end of simulation and
  statistics are not.
- **Translation**: TLB prefetchers, the invalidation of TLB entries on a page
  replacement, and the translation caches of the non-inclusive build, which keep
  demand translations in STLB.
- **Data**: packets and lines carry no values beyond what `LoadsSeeStores` and
  the dirty bits tell apart; DRAM has no contents.
- **Replacement**: the LRU order is a choice of any way. **Queues**: the ring of
  `block.cc` is a sequence, and slots of the L1 queues exist in `TranslationCaches`
  only. `PROCESSED` between L1D and the core is unbounded.

Next in the plan: a bound on the packets of prefetches in STLB, which would turn the
hypotheses of `SlotsStayNamed` and `MissesCarried` into assumptions on sizes;
the ring of `block.cc` as a refinement of a sequence; the LRU stack; context
switches of the main loop.
