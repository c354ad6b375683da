----------------------------- MODULE MemoryPort -----------------------------
(***************************************************************************)
(* What the memory controller promises the LLC (pa2/src/dram_controller.cc *)
(* behind add_rq, add_wq and return_data): it accepts reads and writes of  *)
(* blocks, holds each accepted block once, and completes one of them at a  *)
(* time.  Queues, banks, modes and the data bus do not appear here.        *)
(***************************************************************************)
CONSTANT Addrs        \* the block addresses

VARIABLES rd,         \* blocks with an accepted read, not yet returned
          wr          \* blocks with an accepted write, not yet written

vars == <<rd, wr>>

Init == rd = {} /\ wr = {}

\* A block with a waiting write is never read from memory: such a read is
\* answered on the spot and leaves no trace here.
AcceptRead(a) == a \notin rd \cup wr /\ rd' = rd \cup {a} /\ UNCHANGED wr

\* A second write of a waiting block is merged with the first.
AcceptWrite(a) == a \notin wr /\ wr' = wr \cup {a} /\ UNCHANGED rd

ReturnRead(a) == a \in rd /\ rd' = rd \ {a} /\ UNCHANGED wr

CompleteWrite(a) == a \in wr /\ wr' = wr \ {a} /\ UNCHANGED rd

Next == \E a \in Addrs : \/ AcceptRead(a) \/ AcceptWrite(a)
                         \/ ReturnRead(a) \/ CompleteWrite(a)

Spec == Init /\ [][Next]_vars
=============================================================================
