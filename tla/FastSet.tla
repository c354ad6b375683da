------------------------------ MODULE FastSet ------------------------------
(***************************************************************************)
(* fastset (pa2/inc/set.h), the sets in which the core and the caches keep *)
(* the slots that depend on a packet or an instruction: a sorted array     *)
(* while it is small, a bit set from SMALL_SIZE elements on, both in one   *)
(* piece of memory.  The loops of search_small, join and expand take a     *)
(* step for each iteration, other functions one step; calls do not overlap.*)
(***************************************************************************)
EXTENDS Integers, Sequences

CONSTANTS
  Names,              \* the sets
  N,                  \* elements are below N, the size that callers pass
  MAX_SIZE, SMALL_SIZE, SMALLER_SIZE,
  WORD                \* bits of a word of the bit set

Values == 0 .. N - 1
Places == 0 .. SMALL_SIZE - 1

ASSUME SizesAssumption ==
  /\ N \in Nat /\ MAX_SIZE \in Nat /\ SMALL_SIZE \in Nat /\ SMALLER_SIZE \in Nat
  /\ WORD \in Nat \ {0}
  /\ SMALL_SIZE > 1 /\ SMALLER_SIZE > 1
  /\ 0 < N /\ N + WORD <= MAX_SIZE

VARIABLES
  card,               \* number of elements, SMALL_SIZE from then on
  values, bits,       \* the union data: what is not meant is left out
  call,               \* the function whose loop runs, and its locals
  answer              \* what search or expand has found

vars == <<card, values, bits, call, answer>>

NoValues == [k \in Places |-> 0]
Idle == [loop |-> "none"]

-----------------------------------------------------------------------------
(* insert *)

\* The loop of insert_small stops at place p of the array v for y.
StopsAt(v, c, y, p) ==
  /\ \A k \in 0 .. p - 1 : v[k] < y
  /\ p < c => v[p] >= y

\* Everything from place p on moves up.
Moved(v, c, y, p) ==
  [k \in Places |-> IF k < p THEN v[k] ELSE IF k = p THEN y
                    ELSE IF k <= c THEN v[k - 1] ELSE v[k]]

smalltobit(v, c) == {v[k] : k \in 0 .. c - 1}

\* Set s takes element y; with SMALL_SIZE elements it becomes a bit set.
Insert(s, y) ==
  IF card[s] < SMALL_SIZE
  THEN \E p \in 0 .. card[s] :
         /\ StopsAt(values[s], card[s], y, p)
         /\ \/ p < card[s] /\ values[s][p] = y
               /\ UNCHANGED <<card, values, bits>>
            \/ ~(p < card[s] /\ values[s][p] = y)
               /\ card' = [card EXCEPT ![s] = @ + 1]
               /\ LET v == Moved(values[s], card[s], y, p)
                      small == card[s] + 1 < SMALL_SIZE
                  IN  /\ values' = [values EXCEPT ![s] = IF small THEN v ELSE NoValues]
                      /\ bits' = [bits EXCEPT ![s] = IF small THEN @
                                                     ELSE smalltobit(v, SMALL_SIZE)]
  ELSE /\ bits' = [bits EXCEPT ![s] = @ \cup {y}]
       /\ UNCHANGED <<card, values>>

insert(s, y) ==
  /\ call = Idle
  /\ Insert(s, y)
  /\ answer' = <<>>
  /\ UNCHANGED call

-----------------------------------------------------------------------------
(* search *)

\* search_small_linear: in an array of c elements.
Linear(v, c, y) ==
  \E k \in 0 .. c - 1 : v[k] = y /\ \A l \in 0 .. k - 1 : v[l] <= y

search(s, y) ==
  /\ call = Idle
  /\ IF SMALLER_SIZE <= card[s] /\ card[s] < SMALL_SIZE
     THEN /\ call' = [loop |-> "search", set |-> s, x |-> y, begin |-> 0,
                      end |-> card[s] - 1, middle |-> (card[s] - 1) \div 2]
          /\ UNCHANGED answer
     ELSE /\ answer' = IF \/ card[s] < SMALL_SIZE /\ Linear(values[s], card[s], y)
                          \/ card[s] >= SMALL_SIZE /\ y \in bits[s]
                       THEN <<y>> ELSE <<>>
          /\ UNCHANGED call
  /\ UNCHANGED <<card, values, bits>>

\* The binary search goes on between b and e.
Continue(b, e) ==
  IF e < b THEN answer' = <<>> /\ call' = Idle
  ELSE /\ call' = [call EXCEPT !.begin = b, !.end = e, !.middle = (b + e) \div 2]
       /\ UNCHANGED answer

bisect ==
  /\ call.loop = "search"
  /\ LET y == values[call.set][call.middle]
     IN  \/ call.x < y /\ Continue(call.begin, call.middle - 1)
         \/ call.x > y /\ Continue(call.middle + 1, call.end)
         \/ call.x = y /\ answer' = <<y>> /\ call' = Idle
  /\ UNCHANGED <<card, values, bits>>

-----------------------------------------------------------------------------
(* join *)

\* The elements of a small set are inserted one by one, those of a bit set
\* word by word, up to the next multiple of a word.
join(s, t) ==
  /\ call = Idle /\ card[t] # 0
  /\ IF card[t] < SMALL_SIZE
     THEN /\ call' = [loop |-> "join", set |-> s, other |-> t, i |-> 0]
          /\ UNCHANGED <<card, values, bits>>
     ELSE /\ card' = [card EXCEPT ![s] = SMALL_SIZE]
          /\ values' = [values EXCEPT ![s] = NoValues]
          /\ \E lim \in N + 1 .. N + WORD :
               /\ lim % WORD = 0
               /\ bits' = [bits EXCEPT ![s] =
                    (IF card[s] < SMALL_SIZE THEN smalltobit(values[s], card[s]) ELSE @)
                      \cup {y \in bits[t] : y < lim}]
          /\ UNCHANGED call
  /\ answer' = <<>>

\* Mutant: the loop looks at its own set, which grows, and not at the other.
JoinOwn ==
  /\ call.loop = "join"
  /\ IF call.i < card[call.set]
     THEN /\ Insert(call.set, values[call.other][call.i])
          /\ call' = [call EXCEPT !.i = @ + 1]
     ELSE call' = Idle /\ UNCHANGED <<card, values, bits>>
  /\ UNCHANGED answer

join_next ==
  /\ call.loop = "join"
  /\ IF call.i < card[call.other]
     THEN /\ Insert(call.set, values[call.other][call.i])
          /\ call' = [call EXCEPT !.i = @ + 1]
     ELSE call' = Idle /\ UNCHANGED <<card, values, bits>>
  /\ UNCHANGED answer

-----------------------------------------------------------------------------
(* expand *)

expand(s) ==
  /\ call = Idle
  /\ IF card[s] < SMALL_SIZE
     THEN /\ answer' = [k \in 1 .. card[s] |-> values[s][k - 1]]
          /\ UNCHANGED call
     ELSE /\ call' = [loop |-> "expand", set |-> s, i |-> 0, out |-> <<>>]
          /\ UNCHANGED answer
  /\ UNCHANGED <<card, values, bits>>

\* Words without elements are skipped.
expand_next ==
  /\ call.loop = "expand"
  /\ LET set == bits[call.set]
         k == call.i
     IN  IF k >= N
         THEN answer' = call.out /\ call' = Idle
         ELSE /\ call' = IF k % WORD = 0 /\ set \cap (k .. k + WORD - 1) = {}
                         THEN [call EXCEPT !.i = k + WORD]
                         ELSE [call EXCEPT !.i = k + 1,
                                 !.out = IF k \in set THEN Append(@, k) ELSE @]
              /\ UNCHANGED answer
  /\ UNCHANGED <<card, values, bits>>

-----------------------------------------------------------------------------

\* The constructor sets card alone: what data holds is never looked at.
Init ==
  /\ card = [s \in Names |-> 0]
  /\ values = [s \in Names |-> NoValues]
  /\ bits = [s \in Names |-> {}]
  /\ call = Idle
  /\ answer = <<>>

Next ==
  \/ \E s \in Names, y \in Values : insert(s, y) \/ search(s, y)
  \/ \E s, t \in Names : join(s, t)
  \/ \E s \in Names : expand(s)
  \/ bisect \/ join_next \/ expand_next

Spec == Init /\ [][Next]_vars

-----------------------------------------------------------------------------
(* Properties *)

Elements(s) == IF card[s] < SMALL_SIZE THEN smalltobit(values[s], card[s]) ELSE bits[s]

\* The elements of set s; a join that runs has happened as a whole.
Contents(s) ==
  Elements(s) \cup
    (IF call.loop = "join" /\ call.set = s
     THEN {values[call.other][k] : k \in call.i .. card[call.other] - 1} ELSE {})

\* fastset is a set, whichever representation its operands have: no element is
\* lost or invented when one representation takes the place of the other, and
\* the searches and the lists of both agree with it (set.h:36-248).
Sets == INSTANCE DependencySets WITH contents <- [s \in Names |-> Contents(s)]
ImplementsSets == Sets!Spec
=============================================================================
