-------------------------- MODULE TranslationCaches --------------------------
(***************************************************************************)
(* ITLB, DTLB and STLB (class CACHE in pa2/src/cache.cc), and how the      *)
(* entries of the L1 queues get their translations: an L1 takes a request  *)
(* into a slot of its queue and sends a translation packet that names the  *)
(* slot; packets of one page merge and name several slots; translations    *)
(* come back in PROCESSED queues, from which handle_processed of the L1    *)
(* hands them to the slots.  The demands of L1I and L1D and the prefetches *)
(* of L1I ask ITLB or DTLB, the prefetches of L1D ask STLB, and STLB asks  *)
(* the page-table walker, which is a TranslationPort.                      *)
(*                                                                         *)
(* A frame has the name of its page: which frame it is makes no            *)
(* difference.  Latencies are left out: what is ready may happen.  TLB     *)
(* prefetchers (PREFETCH_TRANSLATION) are not built in.                    *)
(***************************************************************************)
EXTENDS Integers, FiniteSets, Sequences

CONSTANTS
  Pages, CodePages, DataPages,
  ITLB_RQ_SIZE, DTLB_RQ_SIZE, STLB_RQ_SIZE,
  ITLB_MSHR_SIZE, DTLB_MSHR_SIZE, STLB_MSHR_SIZE,
  ITLB_WAY, DTLB_WAY, STLB_WAY,                \* one set each
  L1I_RQ_SIZE, L1I_PQ_SIZE, L1D_RQ_SIZE, L1D_WQ_SIZE, L1D_PQ_SIZE,
  ROB_SIZE,                                    \* size of a PROCESSED queue
  None, Dropped,
  MaxRequests         \* bound: requests of the core and the prefetchers

TLBs == {"ITLB", "DTLB", "STLB"}
RQ_SIZE == [ITLB |-> ITLB_RQ_SIZE, DTLB |-> DTLB_RQ_SIZE, STLB |-> STLB_RQ_SIZE]
MSHR_SIZE == [ITLB |-> ITLB_MSHR_SIZE, DTLB |-> DTLB_MSHR_SIZE, STLB |-> STLB_MSHR_SIZE]
NUM_WAY == [ITLB |-> ITLB_WAY, DTLB |-> DTLB_WAY, STLB |-> STLB_WAY]

\* The slots of the L1 queues.
Slots == [L1I |-> ({"RQ"} \X (1 .. L1I_RQ_SIZE)) \cup ({"PQ"} \X (1 .. L1I_PQ_SIZE)),
          L1D |-> ({"RQ"} \X (1 .. L1D_RQ_SIZE)) \cup ({"WQ"} \X (1 .. L1D_WQ_SIZE))
                    \cup ({"PQ"} \X (1 .. L1D_PQ_SIZE))]
L1s == {"L1I", "L1D"}
PQ_SIZE == [L1I |-> L1I_PQ_SIZE, L1D |-> L1D_PQ_SIZE]

\* STLB has room for all that ITLB, DTLB and the prefetches of L1D ask for.
ASSUME QueuesCoverTranslations ==
  /\ STLB_RQ_SIZE >= ITLB_MSHR_SIZE + DTLB_MSHR_SIZE + L1D_PQ_SIZE
  /\ {None, Dropped} \cap Pages = {} /\ None # Dropped
  /\ CodePages \subseteq Pages /\ DataPages \subseteq Pages

\* Sizes are positive, and there are finitely many pages.
ASSUME SizesAssumption ==
  /\ {ITLB_RQ_SIZE, DTLB_RQ_SIZE, STLB_RQ_SIZE, ITLB_MSHR_SIZE, DTLB_MSHR_SIZE,
      STLB_MSHR_SIZE, ITLB_WAY, DTLB_WAY, STLB_WAY, L1I_RQ_SIZE, L1I_PQ_SIZE,
      L1D_RQ_SIZE, L1D_WQ_SIZE, L1D_PQ_SIZE, ROB_SIZE} \subseteq Nat \ {0}
  /\ MaxRequests \in Nat /\ IsFiniteSet(Pages)

\* A PROCESSED queue has room for every slot that waits for ITLB or for DTLB.
ASSUME AnswersCoverSlots ==
  /\ ROB_SIZE >= L1I_RQ_SIZE + L1I_PQ_SIZE
  /\ ROB_SIZE >= L1D_RQ_SIZE + L1D_WQ_SIZE

VARIABLES
  entry,        \* per L1 and slot: page and translation, or None
  tail,         \* per L1: where its prefetch queue, a ring, grows
  RQ,           \* per TLB: packets
  MSHR,         \* per TLB and page: the packet that waits for it
  block,        \* per TLB and page: the frame it holds
  PROCESSED,    \* per TLB: translations for the L1s
  asked, translation, answer,                  \* the TranslationPort
  aborted,      \* an assertion has failed
  requests      \* counter against MaxRequests

port == <<asked, translation, answer>>
vars == <<entry, tail, RQ, MSHR, block, PROCESSED, port, aborted, requests>>

Port == INSTANCE TranslationPort WITH Frames <- Pages

-----------------------------------------------------------------------------
(* Packets *)

\* fill is the level that wants the translation, 1 for ITLB and DTLB; both
\* is send_both_tlb; own is the slot of l1_rq_index, l1_wq_index or
\* l1_pq_index, merged the slots of the *_depend_on_me sets.
Packet(p, type, fill, instruction, slot) ==
  [page |-> p, type |-> type, fill |-> fill, instruction |-> instruction,
   both |-> FALSE, own |-> slot, merged |-> {}, returned |-> FALSE, data |-> None]

Named(r) == r.merged \cup ({r.own} \ {None})

\* In STLB only the slots of prefetch queues are looked at.
Down(r) == [r EXCEPT !.own = IF @ \in {"PQ"} \X Nat THEN @ ELSE None,
                     !.merged = {s \in @ : s[1] = "PQ"},
                     !.returned = FALSE, !.data = None]

\* One packet is for instructions and one for data.
Split(t, e, r) ==
  t = "STLB" /\ e.fill = 1 /\ r.fill = 1 /\ e.instruction # r.instruction

Least(m, n) == IF m < n THEN m ELSE n

\* Mutant: of two TLBs the one that asked first is answered.
ReceiversOne(r) == IF r.fill # 1 THEN {} ELSE IF r.instruction THEN {"ITLB"} ELSE {"DTLB"}

\* The TLBs a packet of STLB is returned to.
Receivers(r) == IF r.fill # 1 THEN {} ELSE IF r.both THEN {"ITLB", "DTLB"}
                ELSE IF r.instruction THEN {"ITLB"} ELSE {"DTLB"}

-----------------------------------------------------------------------------
(* add_rq, return_data and the queues *)

\* Mutant: the packet leaves no trace in the one it merges with.
MergeUnnamed(e, t, r) ==
  [e EXCEPT !.both = @ \/ Split(t, e, r), !.fill = Least(@, r.fill),
            !.instruction = @ \/ r.instruction,
            !.type = IF r.type = "LOAD_TRANSLATION" THEN r.type ELSE @]

\* add_rq: a packet r meets e, of its page, in the read queue of t.
MergeRead(e, t, r) ==
  [e EXCEPT !.both = @ \/ Split(t, e, r), !.fill = Least(@, r.fill),
            !.instruction = @ \/ r.instruction,
            !.merged = @ \cup ({r.own} \ {None}),
            !.type = IF r.type = "LOAD_TRANSLATION" THEN r.type ELSE @]

Queued(q, t, p) == {i \in DOMAIN q[t] : q[t][i].page = p}

\* A packet that finds no room is lost.
add_rq(q, t, r) ==
  IF Queued(q, t, r.page) # {}
  THEN [q EXCEPT ![t] = [i \in DOMAIN @ |-> IF i \in Queued(q, t, r.page)
                                            THEN MergeRead(@[i], t, r) ELSE @[i]]]
  ELSE IF Len(q[t]) < RQ_SIZE[t] THEN [q EXCEPT ![t] = Append(@, r)] ELSE q

\* assert(cache_type == IS_ITLB): an instruction fetch meets the request of a
\* prefetch in STLB.
AssertionFails(q, r) ==
  /\ r.instruction /\ r.type = "LOAD_TRANSLATION"
  /\ \E i \in Queued(q, "STLB", r.page) :
       q["STLB"][i].type = "TRANSLATION_FROM_L1D"

\* The miss of r, taken from queues q, goes to STLB or to the walker.
AskBelow(t, q, r) ==
  IF t = "STLB"
  THEN /\ asked' = [asked EXCEPT ![r.page] = r.type]
       /\ RQ' = q
       /\ UNCHANGED <<translation, answer, aborted>>
  ELSE /\ RQ' = add_rq(q, "STLB", Down(r))
       /\ aborted' = AssertionFails(q, r)
       /\ UNCHANGED port

\* return_data of the TLBs in S.
return_data(m, S, p, d) ==
  [t \in TLBs |-> IF t \in S /\ m[t][p] # None
                  THEN [m[t] EXCEPT ![p].returned = TRUE, ![p].data = d]
                  ELSE m[t]]

\* PROCESSED.add_queue: ITLB and DTLB drop the packet when there is no room.
Translated(r, d) == [page |-> r.page, data |-> d, own |-> r.own, merged |-> r.merged]
Processed(t, packets) ==
  [PROCESSED EXCEPT ![t] = IF Len(@ \o packets) <= ROB_SIZE THEN @ \o packets ELSE @]

-----------------------------------------------------------------------------
(* The L1s *)

Free(c, queue) == {s \in Slots[c] : s[1] = queue /\ entry[c][s] = None}
Take(c, s, p) == entry' = [entry EXCEPT ![c][s] = [page |-> p, data |-> None]]
Translator == [L1I |-> "ITLB", L1D |-> "DTLB"]

\* add_rq and add_wq of an L1: no request is taken while the TLB is full.
demand(c, queue, p) ==
  /\ Len(RQ[Translator[c]]) < RQ_SIZE[Translator[c]]
  /\ \E s \in Free(c, queue) :
       /\ \A u \in Free(c, queue) : s[2] <= u[2]
       /\ Take(c, s, p)
       /\ RQ' = add_rq(RQ, Translator[c],
                       Packet(p, "LOAD_TRANSLATION", 1, c = "L1I", s))
  /\ requests < MaxRequests /\ requests' = requests + 1
  /\ UNCHANGED <<tail, MSHR, block, PROCESSED, port, aborted>>

\* add_pq of an L1: a prefetch of L1I asks ITLB, one of L1D asks STLB.
prefetch(c, p) ==
  /\ LET s == <<"PQ", tail[c]>>
         t == IF c = "L1I" THEN "ITLB" ELSE "STLB"
         level == IF c = "L1I" THEN 1 ELSE 2
     IN  /\ s \in Free(c, "PQ")
         /\ Len(RQ[t]) < RQ_SIZE[t]
         /\ Take(c, s, p)
         /\ RQ' = add_rq(RQ, t, Packet(p, "TRANSLATION_FROM_L1D", level, c = "L1I", s))
  /\ tail' = [tail EXCEPT ![c] = (@ % PQ_SIZE[c]) + 1]
  /\ requests < MaxRequests /\ requests' = requests + 1
  /\ UNCHANGED <<MSHR, block, PROCESSED, port, aborted>>

\* handle_processed: the next translation goes to the slots that the packet
\* names, if they still wait for its page; its own slot need not wait.
handle_processed(t) ==
  /\ PROCESSED[t] # <<>>
  /\ PROCESSED' = [PROCESSED EXCEPT ![t] = Tail(@)]
  /\ LET e == Head(PROCESSED[t])
         c == IF t = "ITLB" THEN "L1I" ELSE "L1D"
         Gets(s) == /\ entry[c][s] # None
                    /\ entry[c][s].page = e.page
                    /\ \/ s \in e.merged \cup {e.own} /\ entry[c][s].data = None
                       \/ s = e.own /\ t # "STLB"
     IN  entry' = [entry EXCEPT ![c] = [s \in Slots[c] |->
                     IF Gets(s) THEN [page |-> e.page, data |-> e.data] ELSE @[s]]]
  /\ UNCHANGED <<tail, RQ, MSHR, block, port, aborted, requests>>

\* handle_read, handle_writeback and handle_prefetch of an L1 use a slot that
\* has its translation; the prefetch queue goes by its head.
Oldest(c) == LET used == PQ_SIZE[c] - Cardinality(Free(c, "PQ"))
             IN  <<"PQ", ((tail[c] - 1 - used) % PQ_SIZE[c]) + 1>>
use(c, s) ==
  /\ entry[c][s] # None /\ entry[c][s].data # None
  /\ s[1] = "PQ" => s = Oldest(c)
  /\ entry' = [entry EXCEPT ![c][s] = None]
  /\ UNCHANGED <<tail, RQ, MSHR, block, PROCESSED, port, aborted, requests>>

-----------------------------------------------------------------------------
(* handle_read of a TLB *)

hit(t) ==
  /\ RQ[t] # <<>> /\ block[t][Head(RQ[t]).page] # None
  /\ RQ' = [RQ EXCEPT ![t] = Tail(@)]
  /\ LET r == Head(RQ[t])
         d == block[t][r.page]
         e == Translated(r, d)
         twice == <<e>> \o <<e>>
         packets == IF t # "STLB" THEN <<e>>
                    ELSE IF r.own # None /\ r.merged # {} THEN twice
                    ELSE IF Named(r) # {} THEN <<e>> ELSE <<>>
     IN  /\ PROCESSED' = Processed(t, packets)
         /\ MSHR' = IF t = "STLB" THEN return_data(MSHR, Receivers(r), r.page, d)
                                  ELSE MSHR
  /\ UNCHANGED <<entry, tail, block, port, aborted, requests>>

\* Mutant: the size of MSHR is not tested.
MissOver(t) ==
  /\ RQ[t] # <<>>
  /\ LET r == Head(RQ[t])
     IN  /\ block[t][r.page] = None /\ MSHR[t][r.page] = None
         /\ MSHR' = [MSHR EXCEPT ![t][r.page] = r]
         /\ AskBelow(t, [RQ EXCEPT ![t] = Tail(@)], r)
  /\ UNCHANGED <<entry, tail, block, PROCESSED, requests>>

miss(t) ==
  /\ RQ[t] # <<>>
  /\ LET r == Head(RQ[t])
     IN  /\ block[t][r.page] = None /\ MSHR[t][r.page] = None
         /\ Cardinality({p \in Pages : MSHR[t][p] # None}) < MSHR_SIZE[t]
         /\ MSHR' = [MSHR EXCEPT ![t][r.page] = r]
         /\ AskBelow(t, [RQ EXCEPT ![t] = Tail(@)], r)
  /\ UNCHANGED <<entry, tail, block, PROCESSED, requests>>

\* Mutant: that both TLBs wait is not noticed.
MergeMissForOne(m, t, r) ==
  LET fill == Least(m.fill, r.fill)
      instruction == IF r.fill < m.fill THEN r.instruction ELSE m.instruction
  IN  IF m.type = "TRANSLATION_FROM_L1D" /\ r.type = "LOAD_TRANSLATION"
      THEN [r EXCEPT !.fill = fill, !.instruction = @ \/ instruction,
                     !.merged = @ \cup Named(m),
                     !.returned = m.returned, !.data = m.data]
      ELSE [m EXCEPT !.fill = fill, !.instruction = instruction,
                     !.merged = @ \cup Named(r)]

\* A miss r joins the MSHR m of its page; a demand takes over the entry of a
\* prefetch and all that the prefetch has collected.
MergeMiss(m, t, r) ==
  LET both == Split(t, m, r)
      fill == Least(m.fill, r.fill)
      instruction == IF r.fill < m.fill THEN r.instruction ELSE m.instruction
  IN  IF m.type = "TRANSLATION_FROM_L1D" /\ r.type = "LOAD_TRANSLATION"
      THEN [r EXCEPT !.both = @ \/ both, !.fill = fill,
                     !.instruction = @ \/ instruction,
                     !.merged = @ \cup Named(m),
                     !.returned = m.returned, !.data = m.data]
      ELSE [m EXCEPT !.both = @ \/ both, !.fill = fill, !.instruction = instruction,
                     !.merged = @ \cup Named(r)]

merge(t) ==
  /\ RQ[t] # <<>>
  /\ LET r == Head(RQ[t])
     IN  /\ block[t][r.page] = None /\ MSHR[t][r.page] # None
         /\ MSHR' = [MSHR EXCEPT ![t][r.page] = MergeMiss(@, t, r)]
  /\ RQ' = [RQ EXCEPT ![t] = Tail(@)]
  /\ UNCHANGED <<entry, tail, block, PROCESSED, port, aborted, requests>>

-----------------------------------------------------------------------------
(* handle_fill of a TLB *)

\* fill_cache: a full set gives up any other page.
Filled(b, p, d) == [b EXCEPT ![p] = d]
fill_cache(t, p, d) ==
  LET held == {q \in Pages : block[t][q] # None}
  IN  IF Cardinality(held) < NUM_WAY[t]
      THEN block' = [block EXCEPT ![t] = Filled(@, p, d)]
      ELSE \E q \in held : block' = [block EXCEPT ![t] = [Filled(@, p, d) EXCEPT ![q] = None]]

\* STLB keeps what only prefetches have asked for: demands bypass it.
fill(t, p) ==
  /\ MSHR[t][p] # None /\ MSHR[t][p].returned /\ MSHR[t][p].data # Dropped
  /\ LET m == MSHR[t][p]
         e == Translated(m, m.data)
         told == IF t # "STLB" THEN TRUE
                 ELSE m.merged # {} \/ (m.own # None /\ (m.both \/ ~m.instruction))
     IN  /\ IF t = "STLB" /\ m.fill = 1 THEN UNCHANGED block
                                        ELSE fill_cache(t, p, m.data)
         /\ PROCESSED' = Processed(t, IF told THEN <<e>> ELSE <<>>)
         /\ MSHR' = [return_data(MSHR, IF t = "STLB" THEN Receivers(m) ELSE {}, p, m.data)
                       EXCEPT ![t][p] = None]
  /\ UNCHANGED <<entry, tail, RQ, port, aborted, requests>>

\* Mutant: a demand that has joined a dropped prefetch is dropped with it.
DropAll(t, p) ==
  /\ MSHR[t][p] # None /\ MSHR[t][p].returned /\ MSHR[t][p].data = Dropped
  /\ LET m == MSHR[t][p]
         told == t = "ITLB" \/ (t = "STLB" /\ Named(m) # {})
     IN  /\ PROCESSED' = Processed(t, IF told THEN <<Translated(m, Dropped)>> ELSE <<>>)
         /\ MSHR' = [return_data(MSHR, IF t = "STLB" THEN Receivers(m) ELSE {}, p, Dropped)
                       EXCEPT ![t][p] = None]
  /\ UNCHANGED <<entry, tail, RQ, block, port, aborted, requests>>

\* The walker has dropped the request: so does the TLB when only prefetches
\* wait for it,
drop(t, p) ==
  /\ MSHR[t][p] # None /\ MSHR[t][p].returned /\ MSHR[t][p].data = Dropped
  /\ MSHR[t][p].type = "TRANSLATION_FROM_L1D"
  /\ LET m == MSHR[t][p]
         told == t = "ITLB" \/ (t = "STLB" /\ Named(m) # {})
     IN  /\ PROCESSED' = Processed(t, IF told THEN <<Translated(m, Dropped)>> ELSE <<>>)
         /\ MSHR' = [return_data(MSHR, IF t = "STLB" THEN Receivers(m) ELSE {}, p, Dropped)
                       EXCEPT ![t][p] = None]
  /\ UNCHANGED <<entry, tail, RQ, block, port, aborted, requests>>

\* Mutant: without waiting for the answer.
AskAgainAtOnce(t, p) ==
  /\ MSHR[t][p] # None
  /\ MSHR[t][p].type = "LOAD_TRANSLATION"
  /\ MSHR' = [MSHR EXCEPT ![t][p].returned = FALSE]
  /\ AskBelow(t, RQ, MSHR[t][p])
  /\ UNCHANGED <<entry, tail, block, PROCESSED, requests>>

\* and asks again when a demand has joined them.
ask_again(t, p) ==
  /\ MSHR[t][p] # None /\ MSHR[t][p].returned /\ MSHR[t][p].data = Dropped
  /\ MSHR[t][p].type = "LOAD_TRANSLATION"
  /\ MSHR' = [MSHR EXCEPT ![t][p].returned = FALSE]
  /\ AskBelow(t, RQ, MSHR[t][p])
  /\ UNCHANGED <<entry, tail, block, PROCESSED, requests>>

-----------------------------------------------------------------------------
(* The walker *)

translated(p) ==
  /\ Port!Translate(p, p)
  /\ MSHR' = return_data(MSHR, {"STLB"}, p, p)
  /\ UNCHANGED <<entry, tail, RQ, block, PROCESSED, aborted, requests>>

dropped(p) ==
  /\ Port!Drop(p)
  /\ MSHR' = return_data(MSHR, {"STLB"}, p, Dropped)
  /\ UNCHANGED <<entry, tail, RQ, block, PROCESSED, aborted, requests>>

-----------------------------------------------------------------------------

Init ==
  /\ entry = [c \in L1s |-> [s \in Slots[c] |-> None]]
  /\ tail = [c \in L1s |-> 1]
  /\ RQ = [t \in TLBs |-> <<>>]
  /\ MSHR = [t \in TLBs |-> [p \in Pages |-> None]]
  /\ block = [t \in TLBs |-> [p \in Pages |-> None]]
  /\ PROCESSED = [t \in TLBs |-> <<>>]
  /\ Port!Init
  /\ aborted = FALSE /\ requests = 0

operate ==
  \/ \E t \in TLBs : \/ handle_processed(t) \/ hit(t) \/ miss(t) \/ merge(t)
                     \/ \E p \in Pages : fill(t, p) \/ drop(t, p) \/ ask_again(t, p)
  \/ \E c \in L1s : \E s \in Slots[c] : use(c, s)
  \/ \E p \in Pages : translated(p) \/ dropped(p)

request ==
  \/ \E p \in CodePages : demand("L1I", "RQ", p) \/ prefetch("L1I", p)
  \/ \E p \in DataPages : \/ demand("L1D", "RQ", p) \/ demand("L1D", "WQ", p)
                          \/ prefetch("L1D", p)

Next == ~aborted /\ (operate \/ request)

\* The core calls operate of every cache every cycle, and the walker answers.
Spec == Init /\ [][Next]_vars /\ WF_vars(~aborted /\ operate)

-----------------------------------------------------------------------------
(* Properties *)

AllSlots == Slots["L1I"] \cup Slots["L1D"]
Packets == [page : Pages, type : {"LOAD_TRANSLATION", "TRANSLATION_FROM_L1D"},
            fill : {1, 2}, instruction : BOOLEAN, both : BOOLEAN,
            own : AllSlots \cup {None}, merged : SUBSET AllSlots,
            returned : BOOLEAN, data : Pages \cup {None, Dropped}]
Answers == [page : Pages, data : Pages \cup {Dropped},
            own : AllSlots \cup {None}, merged : SUBSET AllSlots]

\* None is none of these.
ASSUME NoneAssumption ==
  /\ None \notin AllSlots /\ None \notin Packets /\ None \notin Port!Types
  /\ None \notin [page : Pages, data : Pages \cup {None, Dropped}]

\* Every variable has its type; queues and TLBs keep to their sizes.
TypeOK ==
  /\ \A c \in L1s : \A s \in Slots[c] : entry[c][s] # None =>
       entry[c][s] \in [page : Pages, data : Pages \cup {None, Dropped}]
  /\ \A c \in L1s : tail[c] \in 1 .. PQ_SIZE[c]
  /\ \A t \in TLBs :
       /\ \A i \in DOMAIN RQ[t] : RQ[t][i] \in Packets
       /\ Len(RQ[t]) <= RQ_SIZE[t]
       /\ \A p \in Pages : MSHR[t][p] # None => MSHR[t][p] \in Packets
       /\ Cardinality({p \in Pages : MSHR[t][p] # None}) <= MSHR_SIZE[t]
       /\ block[t] \in [Pages -> Pages \cup {None}]
       /\ Cardinality({p \in Pages : block[t][p] # None}) <= NUM_WAY[t]
       /\ \A i \in DOMAIN PROCESSED[t] : PROCESSED[t][i] \in Answers
       /\ Len(PROCESSED[t]) <= ROB_SIZE
  /\ aborted \in BOOLEAN /\ requests \in 0 .. MaxRequests

\* All the packets of a TLB.
InQueue(t) == {<<"RQ", i>> : i \in DOMAIN RQ[t]}
InMshr(t) == {<<"MSHR", p>> : p \in {q \in Pages : MSHR[t][q] # None}}
InProcessed(t) == {<<"PROCESSED", i>> : i \in DOMAIN PROCESSED[t]}
At(t, x) == CASE x[1] = "RQ" -> RQ[t][x[2]]
              [] x[1] = "MSHR" -> MSHR[t][x[2]]
              [] x[1] = "PROCESSED" -> PROCESSED[t][x[2]]
Carriers(t, s) == {x \in InQueue(t) \cup InMshr(t) \cup InProcessed(t) :
                     s \in Named(At(t, x))}

Waits(c, s) == entry[c][s] # None /\ entry[c][s].data = None

\* Every slot that waits for a translation is named by a packet of its page on
\* the way, whatever has merged into what (add_rq, handle_read, handle_fill):
\* by exactly one in ITLB or DTLB, which name only slots that wait, and by at
\* least one in STLB for a prefetch of L1D.
WaitersNamed ==
  \A c \in L1s : \A s \in Slots[c] :
    LET t == IF c = "L1I" THEN "ITLB" ELSE IF s[1] = "PQ" THEN "STLB" ELSE "DTLB"
        carriers == Carriers(t, s)
    IN  /\ Waits(c, s) => \E x \in carriers : At(t, x).page = entry[c][s].page
        /\ t # "STLB" => Cardinality(carriers) = (IF Waits(c, s) THEN 1 ELSE 0)

\* ITLB and DTLB wait for exactly what STLB will return to them: no miss is
\* lost on the way (a full queue, a merge), and return_data always finds its
\* MSHR.
MissesCarriedOnce ==
  \A t \in {"ITLB", "DTLB"}, p \in Pages :
    Cardinality({x \in InQueue("STLB") \cup InMshr("STLB") :
                   At("STLB", x).page = p /\ t \in Receivers(At("STLB", x))})
      = (IF MSHR[t][p] # None /\ ~MSHR[t][p].returned THEN 1 ELSE 0)

\* Every translation on its way or held is the one the walker gave the page,
\* and none but a prefetch is told that it has been dropped.
TranslationsRight ==
  /\ \A c \in L1s : \A s \in Slots[c] :
       entry[c][s] # None => /\ entry[c][s].data \in {None, Dropped, translation[entry[c][s].page]}
                             /\ entry[c][s].data = Dropped => s[1] = "PQ"
  /\ \A t \in TLBs, p \in Pages : block[t][p] \in {None, translation[p]}

\* STLB uses the walker as it is meant to be used: it asks for a page once at
\* a time (assert(index == -1) in add_rq of the walker).
UsesTranslationPort == Port!Spec

\* No assertion fails (cache.cc:3074).
NoAssertionFails == ~aborted

\* Every slot of an L1 gets its translation, or learns that it was dropped:
\* when no more requests come (MaxRequests), no slot waits for ever.
EveryRequestTranslated ==
  []<>(aborted \/ \A c \in L1s : \A s \in Slots[c] : ~Waits(c, s))
=============================================================================
