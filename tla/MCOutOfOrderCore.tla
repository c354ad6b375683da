-------------------------- MODULE MCOutOfOrderCore --------------------------
(***************************************************************************)
(* Instances of OutOfOrderCore for TLC: short programs over two registers  *)
(* and two addresses, in buffers that are shorter than the programs.       *)
(***************************************************************************)
EXTENDS OutOfOrderCore

instr(sources, destinations, loads, stores, branch) ==
  [block |-> 1, source_registers |-> sources,
   destination_registers |-> destinations, source_memory |-> loads,
   destination_memory |-> stores, branch |-> branch]

Add(r, q)  == instr({r, q}, {r}, <<>>, <<>>, "none")
Load(r, a) == instr({}, {r}, <<a>>, <<>>, "none")
Follow(r, a) == instr({r}, {r}, <<a>>, <<>>, "none")
Store(r, a)  == instr({r}, {}, <<>>, <<a>>, "none")
Update(a)    == instr({}, {}, <<a>>, <<a>>, "none")
Compare(a)   == instr({}, {}, <<a, a>>, <<>>, "none")
Branch(r, k) == instr({r}, {}, <<>>, <<>>, k)

\* Two instructions share a block of code.
Program(s) == [n \in 0 .. Len(s) - 1 |-> [s[n + 1] EXCEPT !.block = n \div 2]]

\* Registers and memory that are written and read over and over.
Links == {Add(1, 2), Follow(1, 1), Store(1, 1), Load(2, 2)}

Chains ==
  {Program(<<a, b, c, d>>) : <<a, b, c, d>> \in
     {Load(1, 1), Store(2, 1)} \X Links \X Links
       \X {Add(1, 2), Follow(1, 1), Update(1)}}

\* More loads than LQ holds.
Crowds ==
  {Program(<<a, Compare(1), c, d>>) : <<a, c, d>> \in
     {Load(1, 1), Store(2, 1)} \X {Store(1, 1), Load(2, 1), Compare(1)}
       \X {Follow(1, 1), Update(1), Compare(1)}}

Branches ==
  {Program(<<Branch(1, k), Load(1, 1), Branch(1, m), Store(2, 1)>>) :
     k, m \in {"direct", "indirect"}}

\* Loads of two addresses in one instruction, after stores to them.
Pairs ==
  {Program(<<Load(1, 1), Store(1, a), Store(q, b),
             instr({}, {2}, <<1, 2>>, <<>>, "none")>>) :
     a, b, q \in {1, 2}}

\* Two stores in one instruction, and loads and a store after it.
Doubles ==
  {Program(<<instr({q}, {1}, <<>>, <<a, 3 - a>>, "none"), Load(1, b),
             Store(1, b), Load(2, 3 - b)>>) : a, b, q \in {1, 2}}

AllPrograms == Chains \cup Crowds \cup Branches \cup Pairs \cup Doubles

\* A load waits for an executing instruction, and younger loads for a store
\* that waits for it.
Waits == {Program(<<Add(1, 2), Follow(1, 1), Store(1, 1), Compare(1)>>)}
=============================================================================
