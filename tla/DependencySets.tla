--------------------------- MODULE DependencySets ---------------------------
(***************************************************************************)
(* What the users of fastset (pa2/inc/set.h) expect of it: sets of slot    *)
(* numbers that grow by an element or by another set, that can be asked    *)
(* for an element, and that list their elements in ascending order.        *)
(***************************************************************************)
EXTENDS Integers, Sequences

CONSTANTS
  Names,              \* the sets
  Values              \* slot numbers

VARIABLES
  contents,           \* the elements of each set
  answer              \* the elements that the last call has found

vars == <<contents, answer>>

Init == contents = [s \in Names |-> {}] /\ answer = <<>>

insert(s, x) ==
  /\ contents' = [contents EXCEPT ![s] = @ \cup {x}]
  /\ answer' = <<>>

join(s, t) ==
  /\ contents' = [contents EXCEPT ![s] = @ \cup contents[t]]
  /\ answer' = <<>>

search(s, x) ==
  /\ answer' = IF x \in contents[s] THEN <<x>> ELSE <<>>
  /\ UNCHANGED contents

expand(s) ==
  /\ {answer'[i] : i \in 1 .. Len(answer')} = contents[s]
  /\ \A i, j \in 1 .. Len(answer') : i < j => answer'[i] < answer'[j]
  /\ UNCHANGED contents

Next ==
  \E s \in Names : \/ \E x \in Values : insert(s, x) \/ search(s, x)
                   \/ \E t \in Names : join(s, t)
                   \/ expand(s)

Spec == Init /\ [][Next]_vars
=============================================================================
