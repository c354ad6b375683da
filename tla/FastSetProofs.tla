--------------------------- MODULE FastSetProofs ---------------------------
(***************************************************************************)
(* Proofs about FastSet: for all sizes, fastset is a set.                  *)
(***************************************************************************)
EXTENDS FastSet, TLAPS

\* The first c elements of array v are ascending.
Ascending(v, c) == \A j, k \in 0 .. c - 1 : j < k => v[j] < v[k]

-----------------------------------------------------------------------------
(* Arrays *)

\* insert_small keeps the array sorted and adds exactly y to it
\* (set.h:57-71).
LEMMA MovedSorted ==
  ASSUME NEW c \in 0 .. SMALL_SIZE - 1, NEW v \in [Places -> Values],
         NEW y \in Values, NEW p \in 0 .. c,
         StopsAt(v, c, y, p), ~(p < c /\ v[p] = y), Ascending(v, c)
  PROVE  /\ Moved(v, c, y, p) \in [Places -> Values]
         /\ Ascending(Moved(v, c, y, p), c + 1)
         /\ smalltobit(Moved(v, c, y, p), c + 1) = smalltobit(v, c) \cup {y}
<1> DEFINE w == Moved(v, c, y, p)
<1>0. SMALL_SIZE \in Nat /\ N \in Nat
  BY SizesAssumption
<1>1. w \in [Places -> Values]
  BY <1>0 DEF Moved, Places, Values
<1>2. /\ \A k \in 0 .. p - 1 : w[k] = v[k] /\ v[k] < y
      /\ w[p] = y
      /\ \A k \in p + 1 .. c : w[k] = v[k - 1] /\ y < v[k - 1]
  <2>1. ASSUME NEW k \in p + 1 .. c PROVE y < v[k - 1]
    <3>1. p < c /\ v[p] > y
      BY <1>0, <2>1 DEF StopsAt, Values, Places
    <3>2. k - 1 = p \/ v[p] < v[k - 1]
      BY <1>0, <2>1 DEF Ascending
    <3>3. v[p] \in Int /\ v[k - 1] \in Int /\ y \in Int
      BY <1>0, <2>1 DEF Values, Places
    <3> QED BY <3>1, <3>2, <3>3
  <2> QED BY <1>0, <2>1 DEF Moved, StopsAt, Places
<1>3. Ascending(w, c + 1)
  <2> SUFFICES ASSUME NEW j \in 0 .. c, NEW k \in 0 .. c, j < k
               PROVE  w[j] < w[k]
    BY <1>0 DEF Ascending
  <2> HIDE DEF w
  <2>0. \A l \in 0 .. c : l \in Places
    BY <1>0 DEF Places
  <2>1. CASE k < p
    <3>1. v[j] < v[k]
      BY <1>0, <2>1 DEF Ascending
    <3> QED BY <1>0, <1>2, <2>1, <3>1
  <2>2. CASE k = p
    BY <1>0, <1>2, <2>2
  <2>3. CASE k > p /\ j < p
    <3>1. w[j] = v[j] /\ v[j] < y /\ w[k] = v[k - 1] /\ y < v[k - 1]
      BY <1>0, <1>2, <2>3
    <3>2. v[j] \in Int /\ v[k - 1] \in Int /\ y \in Int
      BY <1>0, <2>0, <2>3 DEF Values
    <3> QED BY <3>1, <3>2
  <2>4. CASE k > p /\ j = p
    BY <1>0, <1>2, <2>4
  <2>5. CASE k > p /\ j > p
    <3>1. w[j] = v[j - 1] /\ w[k] = v[k - 1]
      BY <1>0, <1>2, <2>5
    <3>2. v[j - 1] < v[k - 1]
      BY <1>0, <2>5 DEF Ascending
    <3> QED BY <3>1, <3>2
  <2> QED BY <1>0, <2>1, <2>2, <2>3, <2>4, <2>5
<1>4. smalltobit(w, c + 1) = smalltobit(v, c) \cup {y}
  <2> HIDE DEF w
  <2>1. ASSUME NEW k \in 0 .. c PROVE w[k] \in smalltobit(v, c) \cup {y}
    <3>1. CASE k < p
      BY <1>0, <1>2, <3>1 DEF smalltobit
    <3>2. CASE k = p
      BY <1>2, <3>2
    <3>3. CASE k > p
      <4>1. w[k] = v[k - 1] /\ k - 1 \in 0 .. c - 1
        BY <1>0, <1>2, <3>3
      <4> QED BY <4>1 DEF smalltobit
    <3> QED BY <1>0, <3>1, <3>2, <3>3
  <2>2. ASSUME NEW k \in 0 .. c - 1 PROVE \E l \in 0 .. c : w[l] = v[k]
    <3>1. CASE k < p
      BY <1>0, <1>2, <3>1
    <3>2. CASE k >= p
      <4>1. k + 1 \in p + 1 .. c /\ k + 1 \in 0 .. c /\ (k + 1) - 1 = k
        BY <1>0, <3>2
      <4>2. w[k + 1] = v[(k + 1) - 1]
        BY <1>2, <4>1
      <4> QED BY <4>1, <4>2
    <3> QED BY <1>0, <3>1, <3>2
  <2>3. p \in 0 .. c /\ w[p] = y
    BY <1>2
  <2>4. (c + 1) - 1 = c
    BY <1>0
  <2>5. smalltobit(w, c + 1) = {w[k] : k \in 0 .. c}
    BY <2>4 DEF smalltobit
  <2> QED BY <2>1, <2>2, <2>3, <2>5 DEF smalltobit
<1> QED BY <1>1, <1>3, <1>4
-----------------------------------------------------------------------------
(* The invariant *)

Calls ==
  {Idle}
  \cup [loop : {"search"}, set : Names, x : Values, begin : Places, end : Places,
        middle : Places]
  \cup [loop : {"join"}, set : Names, other : Names, i : Nat]
  \cup [loop : {"expand"}, set : Names, i : Nat, out : Seq(Values)]

Types ==
  /\ card \in [Names -> 0 .. SMALL_SIZE]
  /\ values \in [Names -> [Places -> Values]]
  /\ bits \in [Names -> SUBSET Values]

\* The array of a small set is sorted.
Sorted ==
  \A s \in Names : card[s] < SMALL_SIZE => Ascending(values[s], card[s])

\* What the binary search has ruled out does not hold its element.
Halving ==
  call.loop = "search" =>
    /\ card[call.set] < SMALL_SIZE
    /\ call.end < card[call.set]
    /\ call.begin <= call.middle /\ call.middle <= call.end
    /\ \A k \in 0 .. card[call.set] - 1 :
         values[call.set][k] = call.x => call.begin <= k /\ k <= call.end

\* The set that a join reads stays small, also when it joins itself.
Joining ==
  call.loop = "join" =>
    card[call.other] < SMALL_SIZE /\ call.i <= card[call.other]

\* out lists what B holds below i, in ascending order.
Lists(out, B, i) ==
  /\ {out[k] : k \in 1 .. Len(out)} = {y \in B : y < i}
  /\ Ascending([k \in 0 .. Len(out) - 1 |-> out[k + 1]], Len(out))

\* expand has listed what lies below i.
Listing ==
  call.loop = "expand" =>
    /\ card[call.set] = SMALL_SIZE
    /\ Lists(call.out, bits[call.set], call.i)

IInv == Types /\ call \in Calls /\ Sorted /\ Halving /\ Joining /\ Listing

-----------------------------------------------------------------------------
(* insert *)

\* insert changes one set, by exactly its element, in both representations
\* and from one to the other (set.h:142-165).
LEMMA InsertAdds ==
  ASSUME Types, Sorted, NEW s \in Names, NEW y \in Values, Insert(s, y)
  PROVE  /\ Types' /\ Sorted'
         /\ Elements(s)' = Elements(s) \cup {y}
         /\ \A t \in Names \ {s} : /\ card'[t] = card[t]
                                  /\ values'[t] = values[t]
                                  /\ bits'[t] = bits[t]
<1>0. SMALL_SIZE \in Nat /\ SMALL_SIZE > 1 /\ N \in Nat /\ N > 0
  BY SizesAssumption
<1>1. /\ card[s] \in 0 .. SMALL_SIZE /\ values[s] \in [Places -> Values]
      /\ bits[s] \in SUBSET Values
  BY DEF Types
<1>2. CASE card[s] < SMALL_SIZE
  <2>1. PICK p \in 0 .. card[s] :
          /\ StopsAt(values[s], card[s], y, p)
          /\ \/ p < card[s] /\ values[s][p] = y
                /\ UNCHANGED <<card, values, bits>>
             \/ ~(p < card[s] /\ values[s][p] = y)
                /\ card' = [card EXCEPT ![s] = @ + 1]
                /\ LET v == Moved(values[s], card[s], y, p)
                       small == card[s] + 1 < SMALL_SIZE
                   IN  /\ values' = [values EXCEPT ![s] = IF small THEN v ELSE NoValues]
                       /\ bits' = [bits EXCEPT ![s] = IF small THEN @
                                                      ELSE smalltobit(v, SMALL_SIZE)]
    BY <1>2 DEF Insert
  <2>2. CASE p < card[s] /\ values[s][p] = y
    <3>1. UNCHANGED <<card, values, bits>>
      BY <2>1, <2>2
    <3>2. y \in smalltobit(values[s], card[s])
      BY <1>0, <1>1, <2>2 DEF smalltobit
    <3>3. Elements(s) = smalltobit(values[s], card[s])
      BY <1>2 DEF Elements
    <3>4. Elements(s)' = Elements(s)
      BY <3>1 DEF Elements
    <3>5. Types' /\ Sorted'
      BY <3>1 DEF Types, Sorted
    <3> QED BY <3>1, <3>2, <3>3, <3>4, <3>5
  <2>3. CASE ~(p < card[s] /\ values[s][p] = y)
    <3> DEFINE c == card[s]
               v == Moved(values[s], c, y, p)
    <3>1. /\ card' = [card EXCEPT ![s] = c + 1]
          /\ values' = [values EXCEPT ![s] = IF c + 1 < SMALL_SIZE THEN v ELSE NoValues]
          /\ bits' = [bits EXCEPT ![s] = IF c + 1 < SMALL_SIZE THEN @
                                         ELSE smalltobit(v, SMALL_SIZE)]
      BY <2>1, <2>3
    <3>2. c \in 0 .. SMALL_SIZE - 1 /\ Ascending(values[s], c)
      BY <1>0, <1>1, <1>2 DEF Sorted
    <3>3. /\ v \in [Places -> Values]
          /\ Ascending(v, c + 1)
          /\ smalltobit(v, c + 1) = smalltobit(values[s], c) \cup {y}
      BY <1>1, <2>1, <2>3, <3>2, MovedSorted
    <3>4. NoValues \in [Places -> Values]
      BY <1>0 DEF NoValues, Values
    <3> HIDE DEF v, c
    <3>5. CASE c + 1 < SMALL_SIZE
      <4>1. /\ values' = [values EXCEPT ![s] = v] /\ bits' = bits
            /\ card'[s] = c + 1 /\ values'[s] = v
        BY <3>1, <3>5 DEF Types
      <4>2. Types'
        BY <1>0, <3>1, <3>2, <3>3, <3>5, <4>1 DEF Types
      <4>3. Sorted'
        <5> SUFFICES ASSUME NEW t \in Names, card'[t] < SMALL_SIZE
                     PROVE  Ascending(values'[t], card'[t])
          BY DEF Sorted
        <5>1. CASE t = s
          BY <3>3, <4>1, <5>1
        <5>2. CASE t # s
          <6>1. card'[t] = card[t] /\ values'[t] = values[t]
            BY <3>1, <4>1, <5>2 DEF Types
          <6> QED BY <6>1 DEF Sorted
        <5> QED BY <5>1, <5>2
      <4>4. Elements(s)' = smalltobit(v, c + 1)
        BY <3>5, <4>1 DEF Elements, smalltobit
      <4>5. Elements(s) = smalltobit(values[s], c)
        BY <1>2 DEF Elements, c
      <4> QED BY <3>1, <3>3, <4>1, <4>2, <4>3, <4>4, <4>5 DEF Types
    <3>6. CASE ~(c + 1 < SMALL_SIZE)
      <4>0. c + 1 = SMALL_SIZE
        BY <1>0, <3>2, <3>6
      <4>1. /\ values' = [values EXCEPT ![s] = NoValues]
            /\ bits' = [bits EXCEPT ![s] = smalltobit(v, SMALL_SIZE)]
            /\ card'[s] = SMALL_SIZE /\ bits'[s] = smalltobit(v, SMALL_SIZE)
        BY <3>1, <3>6, <4>0 DEF Types
      <4>2. smalltobit(v, SMALL_SIZE) \subseteq Values
        BY <1>0, <3>3 DEF smalltobit, Places
      <4>3. Types'
        BY <1>0, <3>1, <3>2, <3>4, <4>0, <4>1, <4>2 DEF Types
      <4>4. Sorted'
        <5> SUFFICES ASSUME NEW t \in Names, card'[t] < SMALL_SIZE
                     PROVE  Ascending(values'[t], card'[t])
          BY DEF Sorted
        <5>1. t # s
          BY <1>0, <4>1
        <5>2. card'[t] = card[t] /\ values'[t] = values[t]
          BY <3>1, <4>1, <5>1 DEF Types
        <5> QED BY <5>2 DEF Sorted
      <4>5. Elements(s)' = smalltobit(v, SMALL_SIZE)
        BY <1>0, <4>1 DEF Elements
      <4>6. Elements(s) = smalltobit(values[s], c)
        BY <1>2 DEF Elements, c
      <4> QED BY <3>1, <3>3, <4>0, <4>1, <4>3, <4>4, <4>5, <4>6 DEF Types
    <3> QED BY <3>5, <3>6
  <2> QED BY <2>2, <2>3
<1>3. CASE ~(card[s] < SMALL_SIZE)
  <2>1. /\ bits' = [bits EXCEPT ![s] = @ \cup {y}]
        /\ UNCHANGED <<card, values>>
    BY <1>3 DEF Insert
  <2>2. Types' /\ Sorted'
    BY <2>1 DEF Types, Sorted
  <2>3. Elements(s)' = Elements(s) \cup {y}
    BY <1>3, <2>1 DEF Elements, Types
  <2> QED BY <2>1, <2>2, <2>3 DEF Types
<1> QED BY <1>2, <1>3

\* insert of an element that a small set holds changes nothing
\* (set.h:61): a set may be joined with itself.
LEMMA InsertAgain ==
  ASSUME Types, Sorted, NEW s \in Names, card[s] < SMALL_SIZE,
         NEW k \in 0 .. card[s] - 1, Insert(s, values[s][k])
  PROVE  UNCHANGED <<card, values, bits>>
<1> DEFINE y == values[s][k]
           c == card[s]
<1>0. SMALL_SIZE \in Nat /\ N \in Nat /\ c \in 0 .. SMALL_SIZE
  BY SizesAssumption DEF Types
<1>1. PICK p \in 0 .. c :
        /\ StopsAt(values[s], c, y, p)
        /\ \/ UNCHANGED <<card, values, bits>>
           \/ ~(p < c /\ values[s][p] = y)
  BY DEF Insert
<1>2. \A l \in 0 .. c - 1 : values[s][l] \in Int
  BY <1>0 DEF Types, Values, Places
<1>3. p <= k
  BY <1>0, <1>1, <1>2 DEF StopsAt
<1>4. values[s][p] >= y
  BY <1>0, <1>1, <1>3 DEF StopsAt
<1>5. p = k \/ values[s][p] < y
  BY <1>0, <1>3 DEF Sorted, Ascending
<1>6. p < c /\ values[s][p] = y
  BY <1>0, <1>2, <1>3, <1>4, <1>5
<1> QED BY <1>1, <1>6

-----------------------------------------------------------------------------
(* Calls *)

\* A loop that runs has its locals.
LEMMA Locals ==
  ASSUME call \in Calls
  PROVE  /\ call.loop = "search" =>
              /\ call \in [loop : {"search"}, set : Names, x : Values, begin : Places,
                           end : Places, middle : Places]
         /\ call.loop = "join" =>
              call \in [loop : {"join"}, set : Names, other : Names, i : Nat]
         /\ call.loop = "expand" =>
              call \in [loop : {"expand"}, set : Names, i : Nat, out : Seq(Values)]
         /\ Idle.loop = "none"
  BY DEF Calls, Idle

\* A step that changes no set and runs no join keeps what the sets hold.
LEMMA SameContents ==
  ASSUME UNCHANGED <<card, values, bits>>, call.loop # "join", call'.loop # "join"
  PROVE  UNCHANGED [s \in Names |-> Contents(s)]
<1>1. ASSUME NEW s \in Names PROVE Contents(s)' = Contents(s)
  BY DEF Contents, Elements
<1> QED BY <1>1

\* The set of an array, and its elements as numbers.
LEMMA SmallElements ==
  ASSUME Types, NEW s \in Names
  PROVE  /\ card[s] \in 0 .. SMALL_SIZE
         /\ \A k \in 0 .. card[s] - 1 : card[s] < SMALL_SIZE => values[s][k] \in Values
         /\ Elements(s) \subseteq Values
<1>0. SMALL_SIZE \in Nat
  BY SizesAssumption
<1>1. card[s] \in 0 .. SMALL_SIZE /\ values[s] \in [Places -> Values] /\ bits[s] \subseteq Values
  BY DEF Types
<1>2. card[s] < SMALL_SIZE => \A k \in 0 .. card[s] - 1 : values[s][k] \in Values
  BY <1>0, <1>1 DEF Places
<1> QED BY <1>1, <1>2 DEF Elements, smalltobit

LEMMA InitHolds == Init => IInv
<1> SUFFICES ASSUME Init PROVE IInv
  OBVIOUS
<1>0. SMALL_SIZE \in Nat /\ SMALL_SIZE > 1 /\ N \in Nat /\ N > 0
  BY SizesAssumption
<1>1. Types
  BY <1>0 DEF Init, Types, NoValues, Values, Places
<1>2. Sorted
  BY <1>0 DEF Init, Sorted, Ascending
<1>3. call = Idle /\ call \in Calls /\ call.loop = "none"
  BY DEF Init, Calls, Idle
<1> QED BY <1>1, <1>2, <1>3 DEF IInv, Halving, Joining, Listing

\* A set starts empty.
LEMMA InitAbstract == Init => Sets!Init
<1> SUFFICES ASSUME Init PROVE Sets!Init
  OBVIOUS
<1>0. SMALL_SIZE \in Nat /\ SMALL_SIZE > 1
  BY SizesAssumption
<1>1. ASSUME NEW s \in Names PROVE Contents(s) = {}
  <2>1. card[s] = 0 /\ call.loop # "join"
    BY DEF Init, Idle
  <2>2. Elements(s) = {}
    BY <1>0, <2>1 DEF Elements, smalltobit
  <2> QED BY <2>1, <2>2 DEF Contents
<1>2. [s \in Names |-> Contents(s)] = [s \in Names |-> {}]
  BY <1>1
<1> QED BY <1>2 DEF Init, Sets!Init

-----------------------------------------------------------------------------
(* The steps *)

\* insert adds one element (set.h:142-165).
LEMMA InsertStep ==
  ASSUME IInv, NEW s \in Names, NEW y \in Values, insert(s, y)
  PROVE  IInv' /\ Sets!insert(s, y)
<1>1. call = Idle /\ call' = Idle /\ Insert(s, y) /\ answer' = <<>>
  BY DEF insert
<1>2. Idle.loop = "none" /\ Idle \in Calls
  BY DEF Idle, Calls
<1>3. /\ Types' /\ Sorted'
      /\ Elements(s)' = Elements(s) \cup {y}
      /\ \A t \in Names \ {s} : /\ card'[t] = card[t]
                               /\ values'[t] = values[t]
                               /\ bits'[t] = bits[t]
  BY <1>1, InsertAdds DEF IInv
<1>4. IInv'
  BY <1>1, <1>2, <1>3 DEF IInv, Halving, Joining, Listing
<1>5. ASSUME NEW t \in Names
      PROVE  Contents(t)' = IF t = s THEN Contents(t) \cup {y} ELSE Contents(t)
  <2>1. Contents(t) = Elements(t) /\ Contents(t)' = Elements(t)'
    BY <1>1, <1>2 DEF Contents
  <2>2. CASE t = s
    BY <1>3, <2>1, <2>2
  <2>3. CASE t # s
    <3>1. Elements(t)' = Elements(t)
      BY <1>3, <2>3 DEF Elements, smalltobit
    <3> QED BY <2>1, <2>3, <3>1
  <2> QED BY <2>2, <2>3
<1> DEFINE old == [t \in Names |-> Contents(t)]
<1>6. old' = [old EXCEPT ![s] = @ \cup {y}]
  BY <1>5
<1> QED BY <1>1, <1>4, <1>6 DEF Sets!insert

\* The linear search finds exactly the elements of a sorted array
\* (set.h:76-83).
LEMMA LinearFinds ==
  ASSUME NEW c \in 0 .. SMALL_SIZE, NEW v \in [Places -> Values], NEW y \in Values,
         c < SMALL_SIZE, Ascending(v, c)
  PROVE  Linear(v, c, y) <=> y \in smalltobit(v, c)
<1>0. SMALL_SIZE \in Nat /\ N \in Nat
  BY SizesAssumption
<1>1. \A k \in 0 .. c - 1 : v[k] \in Int
  BY <1>0 DEF Values, Places
<1>2. ASSUME NEW k \in 0 .. c - 1, v[k] = y PROVE \A l \in 0 .. k - 1 : v[l] <= y
  BY <1>0, <1>1, <1>2 DEF Ascending
<1> QED BY <1>2 DEF Linear, smalltobit

\* search either answers at once or starts to bisect the whole array
\* (set.h:88-106, 169-184).
LEMMA SearchStep ==
  ASSUME IInv, NEW s \in Names, NEW y \in Values, search(s, y)
  PROVE  IInv' /\ (Sets!search(s, y) \/ UNCHANGED Sets!vars)
<1>0. /\ SMALL_SIZE \in Nat /\ SMALLER_SIZE \in Nat /\ SMALLER_SIZE > 1
  BY SizesAssumption
<1>1. call = Idle /\ UNCHANGED <<card, values, bits>>
  BY DEF search
<1>2. Idle.loop = "none" /\ Idle \in Calls
  BY DEF Idle, Calls
<1>3. Types' /\ Sorted'
  BY <1>1 DEF IInv, Types, Sorted
<1>4. Types /\ card[s] \in 0 .. SMALL_SIZE /\ values[s] \in [Places -> Values]
  BY DEF IInv, Types
<1>5. CASE SMALLER_SIZE <= card[s] /\ card[s] < SMALL_SIZE
  <2> DEFINE c == card[s]
             m == (c - 1) \div 2
  <2>1. /\ call' = [loop |-> "search", set |-> s, x |-> y, begin |-> 0,
                    end |-> c - 1, middle |-> m]
        /\ answer' = answer
    BY <1>5 DEF search
  <2>2. m \in Int /\ 0 <= m /\ m <= c - 1 /\ c \in 0 .. SMALL_SIZE
    BY <1>0, <1>4, <1>5
  <2>3. c - 1 \in Places /\ m \in Places /\ 0 \in Places
    BY <1>0, <1>5, <2>2 DEF Places
  <2> HIDE DEF m
  <2>4. call' \in Calls /\ call'.loop = "search"
    BY <2>1, <2>3 DEF Calls
  <2>5. Halving'
    BY <1>1, <1>5, <2>1, <2>2 DEF Halving
  <2>6. IInv'
    BY <1>3, <2>4, <2>5 DEF IInv, Joining, Listing
  <2>7. UNCHANGED [t \in Names |-> Contents(t)]
    BY <1>1, <1>2, <2>4, SameContents
  <2> QED BY <2>1, <2>6, <2>7 DEF Sets!vars
<1>6. CASE ~(SMALLER_SIZE <= card[s] /\ card[s] < SMALL_SIZE)
  <2>1. /\ answer' = IF \/ card[s] < SMALL_SIZE /\ Linear(values[s], card[s], y)
                        \/ card[s] >= SMALL_SIZE /\ y \in bits[s]
                     THEN <<y>> ELSE <<>>
        /\ call' = call
    BY <1>6 DEF search
  <2>2. IInv'
    BY <1>1, <1>2, <1>3, <2>1 DEF IInv, Halving, Joining, Listing
  <2>3. card[s] < SMALL_SIZE =>
          (Linear(values[s], card[s], y) <=> y \in smalltobit(values[s], card[s]))
    BY <1>4, LinearFinds DEF IInv, Sorted
  <2>4. Contents(s) = Elements(s)
    BY <1>1, <1>2 DEF Contents
  <2>5. answer' = IF y \in Contents(s) THEN <<y>> ELSE <<>>
    BY <1>0, <1>4, <2>1, <2>3, <2>4 DEF Elements
  <2>6. UNCHANGED [t \in Names |-> Contents(t)]
    BY <1>1, <1>2, <2>1, SameContents
  <2> QED BY <2>2, <2>5, <2>6 DEF Sets!search
<1> QED BY <1>5, <1>6

\* When the search goes on, what is left still holds all that can be its
\* element; when nothing is left, the set does not hold it (set.h:98-115).
LEMMA ContinueStep ==
  ASSUME IInv, call.loop = "search", UNCHANGED <<card, values, bits>>,
         NEW b \in Int, NEW e \in Int, 0 <= b, e < card[call.set],
         \A k \in 0 .. card[call.set] - 1 :
           values[call.set][k] = call.x => b <= k /\ k <= e,
         Continue(b, e)
  PROVE  IInv' /\ (Sets!search(call.set, call.x) \/ UNCHANGED Sets!vars)
<1> DEFINE s == call.set
           c == card[s]
           m == (b + e) \div 2
<1>0. SMALL_SIZE \in Nat
  BY SizesAssumption
<1>1. /\ call \in [loop : {"search"}, set : Names, x : Values, begin : Places,
                  end : Places, middle : Places]
      /\ Idle.loop = "none" /\ Idle \in Calls
  BY Locals DEF IInv, Calls
<1>2. s \in Names /\ c \in 0 .. SMALL_SIZE /\ c < SMALL_SIZE
  BY <1>1, SmallElements DEF IInv, Halving
<1>3. Types' /\ Sorted'
  BY DEF IInv, Types, Sorted
<1>4. CASE e < b
  <2>1. answer' = <<>> /\ call' = Idle
    BY <1>4 DEF Continue
  <2>2. IInv'
    BY <1>1, <1>3, <2>1 DEF IInv, Halving, Joining, Listing
  <2>3. call.x \notin Contents(s)
    <3>1. Contents(s) = smalltobit(values[s], c)
      BY <1>2 DEF Contents, Elements
    <3>2. \A k \in 0 .. c - 1 : values[s][k] # call.x
      BY <1>0, <1>2, <1>4
    <3> QED BY <3>1, <3>2 DEF smalltobit
  <2>4. UNCHANGED [t \in Names |-> Contents(t)]
    BY <1>1, <2>1, SameContents
  <2> QED BY <1>2, <2>1, <2>2, <2>3, <2>4 DEF Sets!search
<1>5. CASE ~(e < b)
  <2>1. /\ call' = [call EXCEPT !.begin = b, !.end = e, !.middle = m]
        /\ answer' = answer
    BY <1>5 DEF Continue
  <2>2. m \in Int /\ b <= m /\ m <= e
    BY <1>5
  <2>3. b \in Places /\ e \in Places /\ m \in Places
    BY <1>0, <1>2, <1>5, <2>2 DEF Places
  <2> HIDE DEF m
  <2>4. /\ call'.set = call.set /\ call'.x = call.x /\ call'.loop = "search"
        /\ call'.begin = b /\ call'.end = e /\ call'.middle = m
        /\ call' \in [loop : {"search"}, set : Names, x : Values, begin : Places,
                      end : Places, middle : Places]
    BY <1>1, <2>1, <2>3
  <2>5. call' \in Calls
    BY <2>4 DEF Calls
  <2>6. Halving'
    BY <1>2, <2>2, <2>4 DEF Halving
  <2>7. IInv'
    BY <1>3, <2>4, <2>5, <2>6 DEF IInv, Joining, Listing
  <2>8. UNCHANGED [t \in Names |-> Contents(t)]
    BY <2>4, SameContents
  <2> QED BY <2>1, <2>7, <2>8 DEF Sets!vars
<1> QED BY <1>4, <1>5

LEMMA BisectStep ==
  ASSUME IInv, bisect
  PROVE  /\ IInv'
         /\ \/ \E s \in Names, y \in Values : Sets!search(s, y)
            \/ UNCHANGED Sets!vars
<1> DEFINE s == call.set
           c == card[s]
           m == call.middle
           y == values[s][m]
<1>0. SMALL_SIZE \in Nat
  BY SizesAssumption
<1>1. /\ call.loop = "search" /\ UNCHANGED <<card, values, bits>>
      /\ call \in [loop : {"search"}, set : Names, x : Values, begin : Places,
                  end : Places, middle : Places]
      /\ Idle.loop = "none" /\ Idle \in Calls
  BY Locals DEF IInv, Calls, bisect
<1>2. /\ s \in Names /\ c \in 0 .. SMALL_SIZE /\ c < SMALL_SIZE /\ call.x \in Values
      /\ m \in Int /\ call.begin \in Int /\ call.end \in Int
      /\ 0 <= call.begin /\ call.begin <= m /\ m <= call.end /\ call.end < c
  BY <1>0, <1>1, SmallElements DEF IInv, Halving, Places
<1>3. /\ \A k \in 0 .. c - 1 : values[s][k] \in Int
      /\ \A j, k \in 0 .. c - 1 : j < k => values[s][j] < values[s][k]
      /\ \A k \in 0 .. c - 1 : values[s][k] = call.x => call.begin <= k /\ k <= call.end
      /\ call.x \in Int /\ m \in 0 .. c - 1
  BY <1>0, <1>1, <1>2, SmallElements DEF IInv, Sorted, Ascending, Halving, Values
<1>4. CASE call.x < y /\ Continue(call.begin, m - 1)
  <2>1. \A k \in 0 .. c - 1 : values[s][k] = call.x => k < m
    BY <1>2, <1>3, <1>4
  <2>2. \A k \in 0 .. c - 1 : values[s][k] = call.x => call.begin <= k /\ k <= m - 1
    BY <1>2, <1>3, <2>1
  <2>3. m - 1 \in Int /\ m - 1 < c
    BY <1>2
  <2> QED BY <1>1, <1>2, <1>4, <2>2, <2>3, ContinueStep
<1>5. CASE call.x > y /\ Continue(m + 1, call.end)
  <2>1. \A k \in 0 .. c - 1 : values[s][k] = call.x => k > m
    BY <1>2, <1>3, <1>5
  <2>2. \A k \in 0 .. c - 1 : values[s][k] = call.x => m + 1 <= k /\ k <= call.end
    BY <1>2, <1>3, <2>1
  <2>3. m + 1 \in Int /\ 0 <= m + 1
    BY <1>2
  <2> QED BY <1>1, <1>2, <1>5, <2>2, <2>3, ContinueStep
<1>6. CASE call.x = y /\ answer' = <<y>> /\ call' = Idle
  <2>1. IInv'
    BY <1>1, <1>6 DEF IInv, Types, Sorted, Halving, Joining, Listing
  <2>2. call.x \in Contents(s)
    BY <1>1, <1>2, <1>3, <1>6 DEF Contents, Elements, smalltobit
  <2>3. UNCHANGED [t \in Names |-> Contents(t)]
    BY <1>1, <1>6, SameContents
  <2>4. Sets!search(s, call.x)
    BY <1>2, <1>6, <2>2, <2>3 DEF Sets!search
  <2> QED BY <1>2, <2>1, <2>4
<1> QED BY <1>4, <1>5, <1>6 DEF bisect

\* join with a small set has happened as a whole when its loop starts; with
\* a bit set it is one step, that turns a small set into a bit set
\* (set.h:189-216).
LEMMA JoinStep ==
  ASSUME IInv, NEW s \in Names, NEW t \in Names, join(s, t)
  PROVE  IInv' /\ Sets!join(s, t)
<1>0. SMALL_SIZE \in Nat /\ SMALL_SIZE > 1 /\ N \in Nat /\ WORD \in Nat \ {0} /\ N > 0
  BY SizesAssumption
<1>1. call = Idle /\ Idle.loop = "none" /\ Idle \in Calls /\ answer' = <<>>
  BY DEF join, Idle, Calls
<1>2. Types /\ Sorted /\ card[t] \in 0 .. SMALL_SIZE /\ card[s] \in 0 .. SMALL_SIZE
  BY SmallElements DEF IInv
<1>3. \A u \in Names : Contents(u) = Elements(u)
  BY <1>1 DEF Contents
<1> DEFINE old == [u \in Names |-> Contents(u)]
<1> SUFFICES IInv' /\ \A u \in Names : Contents(u)' = IF u = s
                                    THEN Contents(s) \cup Contents(t) ELSE Contents(u)
  <2>1. ASSUME \A u \in Names : Contents(u)' = IF u = s
                                THEN Contents(s) \cup Contents(t) ELSE Contents(u)
        PROVE  old' = [old EXCEPT ![s] = @ \cup old[t]]
    BY <2>1
  <2> QED BY <1>1, <2>1 DEF Sets!join
<1>4. CASE card[t] < SMALL_SIZE
  <2>1. /\ call' = [loop |-> "join", set |-> s, other |-> t, i |-> 0]
        /\ UNCHANGED <<card, values, bits>>
    BY <1>4 DEF join
  <2>2. call' \in Calls
    BY <2>1 DEF Calls
  <2>3. IInv'
    BY <1>0, <1>2, <1>4, <2>1, <2>2 DEF IInv, Types, Sorted, Halving, Joining, Listing
  <2>4. \A u \in Names : Elements(u)' = Elements(u)
    BY <2>1 DEF Elements
  <2>5. ASSUME NEW u \in Names
        PROVE  Contents(u)' = Elements(u) \cup
                 (IF u = s THEN smalltobit(values[t], card[t]) ELSE {})
    BY <2>1, <2>4 DEF Contents, smalltobit
  <2>6. Elements(t) = smalltobit(values[t], card[t])
    BY <1>4 DEF Elements
  <2> QED BY <1>3, <2>3, <2>5, <2>6
<1>5. CASE ~(card[t] < SMALL_SIZE)
  <2> DEFINE own == IF card[s] < SMALL_SIZE THEN smalltobit(values[s], card[s]) ELSE bits[s]
  <2>1. PICK lim \in N + 1 .. N + WORD :
          /\ card' = [card EXCEPT ![s] = SMALL_SIZE]
          /\ values' = [values EXCEPT ![s] = NoValues]
          /\ bits' = [bits EXCEPT ![s] = own \cup {y \in bits[t] : y < lim}]
          /\ call' = call
    BY <1>5 DEF join
  <2>2. {y \in bits[t] : y < lim} = bits[t]
    BY <1>0, <1>2 DEF Types, Values
  <2>3. own = Elements(s) /\ bits[t] = Elements(t)
    BY <1>5 DEF Elements
  <2> HIDE DEF own
  <2>4. bits' = [bits EXCEPT ![s] = Elements(s) \cup Elements(t)]
    BY <2>1, <2>2, <2>3
  <2>5. NoValues \in [Places -> Values]
    BY <1>0 DEF NoValues, Values
  <2>6. Elements(s) \cup Elements(t) \subseteq Values
    BY <1>2, SmallElements
  <2>7. Types'
    BY <1>0, <1>2, <2>1, <2>4, <2>5, <2>6 DEF Types
  <2>8. Sorted'
    <3> SUFFICES ASSUME NEW u \in Names, card'[u] < SMALL_SIZE
                 PROVE  Ascending(values'[u], card'[u])
      BY DEF Sorted
    <3>1. u # s /\ card'[u] = card[u] /\ values'[u] = values[u]
      BY <1>0, <1>2, <2>1 DEF Types
    <3> QED BY <1>2, <3>1 DEF Sorted
  <2>9. IInv'
    BY <1>1, <2>1, <2>7, <2>8 DEF IInv, Halving, Joining, Listing
  <2>10. ASSUME NEW u \in Names
         PROVE  Contents(u)' = IF u = s THEN Elements(s) \cup Elements(t) ELSE Elements(u)
    <3>1. Contents(u)' = Elements(u)'
      BY <1>1, <2>1 DEF Contents
    <3>2. CASE u = s
      <4>1. card'[s] = SMALL_SIZE /\ bits'[s] = Elements(s) \cup Elements(t)
        BY <1>2, <2>1, <2>4 DEF Types
      <4>2. Elements(s)' = bits'[s]
        BY <1>0, <4>1 DEF Elements
      <4> QED BY <3>1, <3>2, <4>1, <4>2
    <3>3. CASE u # s
      <4>1. card'[u] = card[u] /\ values'[u] = values[u] /\ bits'[u] = bits[u]
        BY <1>2, <2>1, <2>4, <3>3 DEF Types
      <4> QED BY <3>1, <3>3, <4>1 DEF Elements, smalltobit
    <3> QED BY <3>2, <3>3
  <2> QED BY <1>3, <2>9, <2>10
<1> QED BY <1>4, <1>5

\* An iteration of join moves one element from what is still to come into
\* the set; the set it reads does not change (set.h:198).
LEMMA JoinNextStep ==
  ASSUME IInv, join_next
  PROVE  IInv' /\ UNCHANGED Sets!vars
<1>0. /\ SMALL_SIZE \in Nat
      /\ call.loop = "join" /\ answer' = answer
      /\ call \in [loop : {"join"}, set : Names, other : Names, i : Nat]
      /\ Idle.loop = "none" /\ Idle \in Calls
  BY Locals, SizesAssumption DEF IInv, Calls, join_next
<1>1. PICK s \in Names, t \in Names, i \in Nat :
         call.set = s /\ call.other = t /\ call.i = i
  BY <1>0
<1>2. /\ Types /\ Sorted
      /\ card[t] \in 0 .. SMALL_SIZE /\ card[t] < SMALL_SIZE /\ i <= card[t]
  BY <1>0, <1>1, SmallElements DEF IInv, Joining
<1> SUFFICES IInv' /\ \A u \in Names : Contents(u)' = Contents(u)
  BY <1>0 DEF Sets!vars
<1>3. CASE ~(i < card[t])
  <2>1. call' = Idle /\ UNCHANGED <<card, values, bits>>
    BY <1>1, <1>3 DEF join_next
  <2>2. IInv'
    BY <1>0, <1>2, <2>1 DEF IInv, Types, Sorted, Halving, Joining, Listing
  <2>3. ASSUME NEW u \in Names PROVE Contents(u)' = Contents(u)
    <3>1. {values[t][k] : k \in i .. card[t] - 1} = {}
      BY <1>2, <1>3
    <3>2. Elements(u)' = Elements(u)
      BY <2>1 DEF Elements
    <3> QED BY <1>0, <1>1, <2>1, <3>1, <3>2 DEF Contents
  <2> QED BY <2>2, <2>3
<1>4. CASE i < card[t]
  <2> DEFINE y == values[t][i]
  <2>1. /\ Insert(s, y)
        /\ call' = [call EXCEPT !.i = i + 1]
    BY <1>1, <1>4 DEF join_next
  <2>2. y \in Values
    BY <1>2, <1>4, SmallElements
  <2>3. /\ call' \in [loop : {"join"}, set : Names, other : Names, i : Nat]
        /\ call'.loop = "join" /\ call'.set = s /\ call'.other = t /\ call'.i = i + 1
    BY <1>0, <1>1, <2>1
  <2>4. call' \in Calls
    BY <2>3 DEF Calls
  <2> DEFINE rest == {values[t][k] : k \in i .. card[t] - 1}
             later == {values[t][k] : k \in i + 1 .. card[t] - 1}
  <2>5. rest = later \cup {y}
    <3>1. i .. card[t] - 1 = (i + 1 .. card[t] - 1) \cup {i}
      BY <1>2, <1>4
    <3> QED BY <3>1
  <2>6. /\ Types' /\ Sorted'
        /\ card'[t] = card[t] /\ values'[t] = values[t]
        /\ \A u \in Names : Elements(u)' = IF u = s THEN Elements(s) \cup {y} ELSE Elements(u)
    <3>1. CASE s = t
      <4>1. UNCHANGED <<card, values, bits>>
        BY <1>2, <1>4, <2>1, <3>1, InsertAgain
      <4>2. y \in Elements(s)
        BY <1>2, <1>4, <3>1 DEF Elements, smalltobit
      <4> QED BY <1>2, <4>1, <4>2 DEF Types, Sorted, Elements
    <3>2. CASE s # t
      <4>1. /\ Types' /\ Sorted'
            /\ Elements(s)' = Elements(s) \cup {y}
            /\ \A u \in Names \ {s} : /\ card'[u] = card[u]
                                     /\ values'[u] = values[u]
                                     /\ bits'[u] = bits[u]
        BY <1>2, <2>1, <2>2, InsertAdds
      <4>2. ASSUME NEW u \in Names, u # s PROVE Elements(u)' = Elements(u)
        BY <4>1, <4>2 DEF Elements, smalltobit
      <4>3. t \in Names \ {s}
        BY <3>2
      <4>4. card'[t] = card[t] /\ values'[t] = values[t]
        BY <4>1, <4>3
      <4>5. \A u \in Names : Elements(u)' = IF u = s THEN Elements(s) \cup {y} ELSE Elements(u)
        <5> HIDE DEF y
        <5> QED BY <4>1, <4>2
      <4> QED BY <4>1, <4>4, <4>5
    <3> QED BY <3>1, <3>2
  <2>7. Joining'
    BY <1>2, <1>4, <2>3, <2>6 DEF Joining
  <2>8. IInv'
    BY <2>3, <2>4, <2>6, <2>7 DEF IInv, Halving, Listing
  <2>9. ASSUME NEW u \in Names PROVE Contents(u)' = Contents(u)
    <3>1. Contents(u) = Elements(u) \cup (IF u = s THEN rest ELSE {})
      BY <1>0, <1>1 DEF Contents
    <3>2. Contents(u)' = Elements(u)' \cup (IF u = s THEN later ELSE {})
      BY <2>3, <2>6 DEF Contents
    <3> HIDE DEF rest, later, y
    <3> QED BY <2>5, <2>6, <3>1, <3>2
  <2> QED BY <2>8, <2>9
<1> QED BY <1>3, <1>4

\* expand copies a sorted array, or starts to look at the bits
\* (set.h:220-228).
LEMMA ExpandStep ==
  ASSUME IInv, NEW s \in Names, expand(s)
  PROVE  IInv' /\ (Sets!expand(s) \/ UNCHANGED Sets!vars)
<1>0. SMALL_SIZE \in Nat /\ SMALL_SIZE > 1
  BY SizesAssumption
<1>1. /\ call = Idle /\ Idle.loop = "none" /\ Idle \in Calls
      /\ UNCHANGED <<card, values, bits>>
  BY DEF expand, Idle, Calls
<1>2. /\ Types /\ Sorted /\ card[s] \in 0 .. SMALL_SIZE
      /\ \A k \in 0 .. card[s] - 1 : card[s] < SMALL_SIZE => values[s][k] \in Values
      /\ Types' /\ Sorted'
  BY <1>1, SmallElements DEF IInv, Types, Sorted
<1>3. Contents(s) = Elements(s)
  BY <1>1 DEF Contents
<1>4. CASE card[s] < SMALL_SIZE
  <2> DEFINE list == [k \in 1 .. card[s] |-> values[s][k - 1]]
  <2>1. answer' = list /\ call' = call
    BY <1>4 DEF expand
  <2>2. IInv'
    BY <1>1, <1>2, <2>1 DEF IInv, Halving, Joining, Listing
  <2>3. UNCHANGED [t \in Names |-> Contents(t)]
    BY <1>1, <2>1, SameContents
  <2>4. Len(list) = card[s]
    BY <1>2, <1>4
  <2>5. {list[k] : k \in 1 .. card[s]} = smalltobit(values[s], card[s])
    <3>1. \A k \in 1 .. card[s] : k - 1 \in 0 .. card[s] - 1 /\ list[k] = values[s][k - 1]
      BY <1>2
    <3>2. \A k \in 0 .. card[s] - 1 : k + 1 \in 1 .. card[s] /\ list[k + 1] = values[s][k]
      BY <1>2
    <3> HIDE DEF list
    <3> QED BY <3>1, <3>2 DEF smalltobit
  <2>6. ASSUME NEW k \in 1 .. card[s], NEW l \in 1 .. card[s], k < l
        PROVE  list[k] < list[l]
    <3>1. k - 1 \in 0 .. card[s] - 1 /\ l - 1 \in 0 .. card[s] - 1 /\ k - 1 < l - 1
      BY <1>2, <2>6
    <3>2. values[s][k - 1] < values[s][l - 1]
      BY <1>2, <1>4, <3>1 DEF Sorted, Ascending
    <3> QED BY <3>2
  <2>7. Elements(s) = smalltobit(values[s], card[s])
    BY <1>4 DEF Elements
  <2> HIDE DEF list
  <2>8. Sets!expand(s)
    BY <1>3, <2>1, <2>3, <2>4, <2>5, <2>6, <2>7 DEF Sets!expand
  <2> QED BY <2>2, <2>8
<1>5. CASE ~(card[s] < SMALL_SIZE)
  <2>1. call' = [loop |-> "expand", set |-> s, i |-> 0, out |-> <<>>] /\ answer' = answer
    BY <1>5 DEF expand
  <2>2. call' \in Calls
    BY <2>1 DEF Calls
  <2>3. {y \in bits[s] : y < 0} = {}
    BY <1>2 DEF Types, Values
  <2>4. Listing'
    BY <1>0, <1>1, <1>2, <1>5, <2>1, <2>3 DEF Listing, Lists, Ascending
  <2>5. IInv'
    BY <1>2, <2>1, <2>2, <2>4 DEF IInv, Halving, Joining
  <2>6. UNCHANGED [t \in Names |-> Contents(t)]
    BY <1>1, <2>1, SameContents
  <2> QED BY <2>1, <2>5, <2>6 DEF Sets!vars
<1> QED BY <1>4, <1>5

\* What expand has listed below i stays sorted when i itself is appended.
LEMMA AppendLists ==
  ASSUME NEW B \in SUBSET Values, NEW i \in Nat, NEW out \in Seq(Values),
         Lists(out, B, i), i \in B, NEW new, new = Append(out, i)
  PROVE  new \in Seq(Values) /\ Lists(new, B, i + 1)
<1>0. N \in Nat /\ i \in Values /\ Len(out) \in Nat
  BY SizesAssumption
<1>a. /\ {out[k] : k \in 1 .. Len(out)} = {y \in B : y < i}
      /\ Ascending([k \in 0 .. Len(out) - 1 |-> out[k + 1]], Len(out))
  BY DEF Lists
<1>1. /\ new \in Seq(Values) /\ Len(new) = Len(out) + 1
      /\ \A k \in 1 .. Len(out) : new[k] = out[k]
      /\ new[Len(out) + 1] = i
  BY <1>0
<1>2. {y \in B : y < i + 1} = {y \in B : y < i} \cup {i}
  <2>1. \A y \in B : y \in Int /\ (y < i + 1 <=> y < i \/ y = i)
    BY <1>0 DEF Values
  <2> QED BY <2>1
<1>3. {new[k] : k \in 1 .. Len(new)} = {out[k] : k \in 1 .. Len(out)} \cup {i}
  <2>1. 1 .. Len(new) = (1 .. Len(out)) \cup {Len(out) + 1}
    BY <1>0, <1>1
  <2> QED BY <1>1, <2>1
<1>4. \A k \in 1 .. Len(out) : out[k] < i /\ out[k] \in Int
  BY <1>0, <1>a DEF Values
<1>5. ASSUME NEW j \in 0 .. Len(new) - 1, NEW k \in 0 .. Len(new) - 1, j < k
      PROVE  new[j + 1] < new[k + 1]
  <2>1. CASE k = Len(out)
    <3>1. j + 1 \in 1 .. Len(out)
      BY <1>0, <1>1, <1>5, <2>1
    <3>2. new[k + 1] = i /\ new[j + 1] = out[j + 1]
      BY <1>1, <2>1, <3>1
    <3> QED BY <1>4, <3>1, <3>2
  <2>2. CASE k # Len(out)
    <3>1. /\ j \in 0 .. Len(out) - 1 /\ k \in 0 .. Len(out) - 1
          /\ j + 1 \in 1 .. Len(out) /\ k + 1 \in 1 .. Len(out)
      BY <1>0, <1>1, <1>5, <2>2
    <3>2. out[j + 1] < out[k + 1]
      BY <1>a, <1>5, <3>1 DEF Ascending
    <3> QED BY <1>1, <3>1, <3>2
  <2> QED BY <2>1, <2>2
<1>6. Ascending([k \in 0 .. Len(new) - 1 |-> new[k + 1]], Len(new))
  BY <1>5 DEF Ascending
<1> QED BY <1>a, <1>1, <1>2, <1>3, <1>6 DEF Lists

\* expand looks at the bits in ascending order and skips words that are empty
\* (set.h:230-248).
LEMMA ExpandNextStep ==
  ASSUME IInv, expand_next
  PROVE  IInv' /\ ((\E s \in Names : Sets!expand(s)) \/ UNCHANGED Sets!vars)
<1>0. SMALL_SIZE \in Nat /\ N \in Nat /\ WORD \in Nat \ {0}
  BY SizesAssumption
<1>1. /\ call.loop = "expand" /\ UNCHANGED <<card, values, bits>>
      /\ call \in [loop : {"expand"}, set : Names, i : Nat, out : Seq(Values)]
      /\ Idle.loop = "none" /\ Idle \in Calls
  BY Locals DEF IInv, Calls, expand_next
<1>2. PICK s \in Names, i \in Nat, out \in Seq(Values), B \in SUBSET Values :
        call.set = s /\ call.i = i /\ call.out = out /\ bits[s] = B
  BY <1>1 DEF IInv, Types
<1> DEFINE skip == i % WORD = 0 /\ B \cap (i .. i + WORD - 1) = {}
<1>3. /\ Types /\ Sorted /\ Types' /\ Sorted' /\ card[s] = SMALL_SIZE
      /\ Lists(out, B, i)
  BY <1>1, <1>2 DEF IInv, Types, Sorted, Listing
<1>4. CASE i >= N
  <2>1. answer' = out /\ call' = Idle
    BY <1>2, <1>4 DEF expand_next
  <2>2. IInv'
    BY <1>1, <1>3, <2>1 DEF IInv, Halving, Joining, Listing
  <2>3. {y \in B : y < i} = B
    <3>1. \A y \in B : y < i
      BY <1>0, <1>4 DEF Values
    <3> QED BY <3>1
  <2>4. Contents(s) = B
    BY <1>0, <1>1, <1>2, <1>3 DEF Contents, Elements
  <2>5. ASSUME NEW k \in 1 .. Len(out), NEW l \in 1 .. Len(out), k < l
        PROVE  out[k] < out[l]
    <3>1. /\ k - 1 \in 0 .. Len(out) - 1 /\ l - 1 \in 0 .. Len(out) - 1
          /\ k - 1 < l - 1 /\ (k - 1) + 1 = k /\ (l - 1) + 1 = l
      BY <1>2, <2>5
    <3>2. out[(k - 1) + 1] < out[(l - 1) + 1]
      BY <1>3, <3>1 DEF Lists, Ascending
    <3> QED BY <3>1, <3>2
  <2>6. UNCHANGED [t \in Names |-> Contents(t)]
    BY <1>1, <2>1, SameContents
  <2>7. Sets!expand(s)
    BY <1>2, <1>3, <2>1, <2>3, <2>4, <2>5, <2>6 DEF Sets!expand, Lists
  <2> QED BY <1>2, <2>2, <2>7
<1>5. CASE ~(i >= N)
  <2>1. /\ call' = IF skip THEN [call EXCEPT !.i = i + WORD]
                   ELSE [call EXCEPT !.i = i + 1, !.out = IF i \in B THEN Append(out, i) ELSE out]
        /\ answer' = answer
    BY <1>2, <1>5 DEF expand_next
  <2>2. CASE skip
    <3>1. call' = [call EXCEPT !.i = i + WORD]
      BY <2>1, <2>2
    <3>2. /\ call' \in [loop : {"expand"}, set : Names, i : Nat, out : Seq(Values)]
          /\ call'.set = s /\ call'.i = i + WORD /\ call'.out = out
          /\ call'.loop = "expand"
      BY <1>0, <1>1, <1>2, <3>1
    <3>3. Lists(out, B, i + WORD)
      <4>1. \A y \in B : y \in Int /\ y \notin i .. i + WORD - 1
        BY <2>2 DEF Values
      <4>2. \A y \in B : y < i + WORD <=> y < i
        BY <1>0, <4>1
      <4>3. {y \in B : y < i + WORD} = {y \in B : y < i}
        BY <4>2
      <4> QED BY <1>3, <4>3 DEF Lists
    <3>4. Listing'
      <4> HIDE DEF skip
      <4> QED BY <1>1, <1>2, <1>3, <3>2, <3>3 DEF Listing
    <3>5. call' \in Calls
      BY <3>2 DEF Calls
    <3>6. IInv'
      BY <1>3, <3>2, <3>4, <3>5 DEF IInv, Halving, Joining
    <3>7. UNCHANGED [t \in Names |-> Contents(t)]
      BY <1>1, <3>2, SameContents
    <3> QED BY <2>1, <3>6, <3>7 DEF Sets!vars
  <2>3. CASE ~skip
    <3>1. PICK new \in Seq(Values) :
            Lists(new, B, i + 1) /\ call' = [call EXCEPT !.i = i + 1, !.out = new]
      <4>1. CASE i \in B
        <5>1. PICK new : new = Append(out, i)
          OBVIOUS
        <5>2. new \in Seq(Values) /\ Lists(new, B, i + 1)
          BY <1>3, <4>1, <5>1, AppendLists
        <5> QED BY <2>1, <2>3, <4>1, <5>1, <5>2
      <4>2. CASE i \notin B
        <5>1. \A y \in B : y < i + 1 <=> y < i
          BY <4>2 DEF Values
        <5>2. {y \in B : y < i + 1} = {y \in B : y < i}
          BY <5>1
        <5>3. Lists(out, B, i + 1)
          BY <1>3, <5>2 DEF Lists
        <5> QED BY <2>1, <2>3, <4>2, <5>3
      <4> QED BY <4>1, <4>2
    <3> HIDE DEF skip
    <3>2. PICK next : next = i + 1 /\ next \in Nat
      OBVIOUS
    <3>3. /\ call' \in [loop : {"expand"}, set : Names, i : Nat, out : Seq(Values)]
          /\ call'.set = s /\ call'.i = i + 1 /\ call'.out = new
          /\ call'.loop = "expand"
      <4>1. call' = [call EXCEPT !.i = next, !.out = new]
        BY <3>1, <3>2
      <4> QED BY <1>1, <1>2, <3>2, <4>1
    <3>4. Listing'
      BY <1>1, <1>2, <1>3, <3>1, <3>3 DEF Listing
    <3>5. call' \in Calls
      BY <3>3 DEF Calls
    <3>6. IInv'
      BY <1>3, <3>3, <3>4, <3>5 DEF IInv, Halving, Joining
    <3>7. UNCHANGED [t \in Names |-> Contents(t)]
      BY <1>1, <3>3, SameContents
    <3> QED BY <2>1, <3>6, <3>7 DEF Sets!vars
  <2> QED BY <2>2, <2>3
<1> QED BY <1>4, <1>5

-----------------------------------------------------------------------------
(* The theorems *)

LEMMA StepHolds ==
  ASSUME IInv, [Next]_vars
  PROVE  IInv' /\ [Sets!Next]_(Sets!vars)
<1>1. ASSUME NEW s \in Names, NEW y \in Values, insert(s, y)
      PROVE  IInv' /\ [Sets!Next]_(Sets!vars)
  BY <1>1, InsertStep DEF Sets!Next
<1>2. ASSUME NEW s \in Names, NEW y \in Values, search(s, y)
      PROVE  IInv' /\ [Sets!Next]_(Sets!vars)
  BY <1>2, SearchStep DEF Sets!Next
<1>3. ASSUME NEW s \in Names, NEW t \in Names, join(s, t)
      PROVE  IInv' /\ [Sets!Next]_(Sets!vars)
  BY <1>3, JoinStep DEF Sets!Next
<1>4. ASSUME NEW s \in Names, expand(s)
      PROVE  IInv' /\ [Sets!Next]_(Sets!vars)
  BY <1>4, ExpandStep DEF Sets!Next
<1>5. CASE bisect
  BY <1>5, BisectStep DEF Sets!Next
<1>6. CASE join_next
  BY <1>6, JoinNextStep
<1>7. CASE expand_next
  BY <1>7, ExpandNextStep DEF Sets!Next
<1>8. CASE UNCHANGED vars
  <2>1. UNCHANGED <<card, values, bits, call, answer>>
    BY <1>8 DEF vars
  <2>2. IInv'
    BY <2>1 DEF IInv, Types, Calls, Sorted, Halving, Joining, Listing
  <2>3. \A s \in Names : Contents(s)' = Contents(s)
    BY <2>1 DEF Contents, Elements
  <2> QED BY <2>1, <2>2, <2>3 DEF Sets!vars
<1> QED BY <1>1, <1>2, <1>3, <1>4, <1>5, <1>6, <1>7, <1>8 DEF Next

\* Small sets are sorted, the binary search never loses the place of its
\* element, and expand has listed what it has passed, for all sizes
\* (set.h:57-248).
THEOREM FastSetInvariant == Spec => []IInv
  BY InitHolds, StepHolds, PTL DEF Spec

\* fastset is a set, for all sizes of its two representations: what a run of
\* calls of insert, join, search and expand does and answers is what it does
\* to abstract sets (set.h:36-248).
THEOREM FastSetIsSet == Spec => ImplementsSets
<1>1. Spec => []IInv
  BY FastSetInvariant
<1>2. Init => Sets!Init
  BY InitAbstract
<1>3. IInv /\ [Next]_vars => [Sets!Next]_(Sets!vars)
  BY StepHolds
<1> QED BY <1>1, <1>2, <1>3, PTL DEF Spec, ImplementsSets, Sets!Spec
=============================================================================
