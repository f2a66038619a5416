----------------------------- MODULE ListProofs ------------------------------
(***************************************************************************)
(* What the proofs about several modules need of numbers, of sequences and *)
(* of folds over them.                                                     *)
(***************************************************************************)
EXTENDS Integers, Sequences, SequencesExt, FiniteSetTheorems, TLAPS

(* A bounded set of natural numbers that is not empty has a greatest       *)
(* element.  If it had none, n |-> n + 1 would map the numbers up to some  *)
(* element into themselves, one to one, though nothing is mapped to 0.     *)
LEMMA GreatestExists ==
  ASSUME NEW T \in SUBSET Nat, NEW bound \in Nat, \A t \in T : t <= bound, T # {}
  PROVE  \E greatest \in T : \A t \in T : t <= greatest
<1> DEFINE below == {n \in 0..bound : \E t \in T : n <= t}
           next == [n \in below |-> n + 1]
<1>1. SUFFICES ASSUME ~ \E greatest \in T : \A t \in T : t <= greatest
               PROVE  FALSE
  OBVIOUS
<1>2. IsFiniteSet(below)
  BY FS_Interval, FS_Subset, 0 \in Int, bound \in Int, below \in SUBSET (0..bound)
<1>3. \A n \in below : n + 1 \in below
  <2>1. TAKE n \in below
  <2>2. PICK t \in T : n <= t
    OBVIOUS
  <2>3. PICK u \in T : ~(u <= t)
    BY <1>1, <2>2
  <2> QED
    BY <2>2, <2>3
<1>4. next \in Injection(below, below)
  <2>1. next \in [below -> below]
    BY <1>3
  <2>2. \A m, n \in below : next[m] = next[n] => m = n
    OBVIOUS
  <2> QED
    BY <2>1, <2>2 DEF Injection, IsInjective
<1>5. next \in Surjection(below, below)
  BY <1>2, <1>4, FS_Injection
<1>6. 0 \in below
  <2>1. PICK t \in T : TRUE
    OBVIOUS
  <2> QED
    BY <2>1
<1>7. PICK n \in below : next[n] = 0
  BY <1>5, <1>6 DEF Surjection
<1> QED
  BY <1>7

(* A set of natural numbers that has 0 and with each number the next one   *)
(* has them all.                                                           *)
LEMMA HasAllNumbers ==
  ASSUME NEW T \in SUBSET Nat, 0 \in T, \A n \in T : n + 1 \in T
  PROVE  T = Nat
<1>1. SUFFICES ASSUME NEW m \in Nat, m \notin T PROVE FALSE
  OBVIOUS
<1> DEFINE below == {n \in T : n <= m}
<1>2. PICK greatest \in below : \A n \in below : n <= greatest
  <2>1. below \in SUBSET Nat /\ below # {} /\ \A n \in below : n <= m
    <3>1. 0 \in below
      BY <1>1
    <3> QED
      BY <3>1
  <2> HIDE DEF below
  <2> QED
    BY <1>1, <2>1, GreatestExists
<1>3. greatest + 1 \in T /\ greatest <= m /\ greatest # m
  BY <1>1, <1>2
<1>4. greatest + 1 \in below
  BY <1>1, <1>2, <1>3
<1> QED
  BY <1>2, <1>4

(* A set of natural numbers that is not empty has a least element: if it   *)
(* had none, every number would be below all of them.                      *)
LEMMA LeastExists ==
  ASSUME NEW T \in SUBSET Nat, T # {}
  PROVE  \E least \in T : \A t \in T : least <= t
<1>1. SUFFICES ASSUME ~ \E least \in T : \A t \in T : least <= t
               PROVE  FALSE
  OBVIOUS
<1> DEFINE below == {n \in Nat : \A t \in T : n <= t}
<1>2. 0 \in below
  OBVIOUS
<1>3. \A n \in below : n + 1 \in below
  <2>1. TAKE n \in below
  <2>2. n \notin T
    BY <1>1
  <2> QED
    BY <2>2
<1>4. below = Nat
  <2>1. below \in SUBSET Nat
    OBVIOUS
  <2> HIDE DEF below
  <2> QED
    BY <1>2, <1>3, <2>1, HasAllNumbers
<1>5. PICK t \in T : TRUE
  OBVIOUS
<1>6. t + 1 \in below
  <2> HIDE DEF below
  <2> QED
    BY <1>4, <1>5
<1> QED
  BY <1>5, <1>6

(* The minimum of a set of natural numbers is one of them.                 *)
LEMMA MinIsLeast ==
  ASSUME NEW T \in SUBSET Nat, T # {}
  PROVE  Min(T) \in T /\ \A t \in T : Min(T) <= t
<1>1. \E least \in T : \A t \in T : least <= t
  BY LeastExists
<1> QED
  BY <1>1, Zenon DEF Min

LEMMA GreatestIsChosen ==
  ASSUME NEW T \in SUBSET Int, NEW j \in T, \A i \in T : i <= j
  PROVE  (CHOOSE l \in T : \A i \in T : i <= l) = j
<1>1. PICK c : c = CHOOSE l \in T : \A i \in T : i <= l
  OBVIOUS
<1>2. c \in T /\ \A i \in T : i <= c
  BY <1>1, Zenon
<1>3. c \in Int /\ j \in Int /\ c <= j /\ j <= c
  BY <1>2
<1>4. c = j
  BY <1>3
<1> QED
  BY <1>1, <1>4

LEMMA LeastIsChosen ==
  ASSUME NEW T \in SUBSET Int, NEW j \in T, \A i \in T : j <= i
  PROVE  (CHOOSE l \in T : \A i \in T : l <= i) = j
<1>1. PICK c : c = CHOOSE l \in T : \A i \in T : l <= i
  OBVIOUS
<1>2. c \in T /\ \A i \in T : c <= i
  BY <1>1, Zenon
<1>3. c \in Int /\ j \in Int /\ c <= j /\ j <= c
  BY <1>2
<1>4. c = j
  BY <1>3
<1> QED
  BY <1>1, <1>4

-----------------------------------------------------------------------------
(* A sequence of its own elements stays one when an element is appended.   *)
LEMMA OneMore ==
  ASSUME NEW s, s \in Seq(ToSet(s)), NEW x
  PROVE  /\ Len(s) \in Nat /\ DOMAIN s = 1..Len(s)
         /\ Append(s, x) \in Seq(ToSet(Append(s, x)))
         /\ Len(Append(s, x)) = Len(s) + 1
         /\ DOMAIN Append(s, x) = 1..(Len(s) + 1)
         /\ \A i \in 1..Len(s) : Append(s, x)[i] = s[i]
         /\ Append(s, x)[Len(s) + 1] = x
         /\ ToSet(Append(s, x)) = ToSet(s) \union {x}
<1> DEFINE all == ToSet(s) \union {x}
           more == Append(s, x)
<1>1. s \in Seq(all)
  OBVIOUS
<1>2. /\ Len(s) \in Nat /\ DOMAIN s = 1..Len(s)
      /\ more \in Seq(all) /\ Len(more) = Len(s) + 1
      /\ \A i \in 1..Len(s) : more[i] = s[i]
      /\ more[Len(s) + 1] = x
  <2> HIDE DEF all
  <2>1. x \in all
    BY DEF all
  <2> QED
    BY <1>1, <2>1
<1>3. DOMAIN more = 1..(Len(s) + 1)
  BY <1>2
<1>4. \A i \in 1..(Len(s) + 1) : i = Len(s) + 1 \/ i \in 1..Len(s)
  BY <1>2
<1>5. \A i \in 1..Len(s) : i \in 1..(Len(s) + 1)
  BY <1>2
<1>6. Len(s) + 1 \in 1..(Len(s) + 1)
  BY <1>2
<1> HIDE DEF more
<1>7. ToSet(more) = all
  BY <1>2, <1>3, <1>4, <1>5, <1>6, Zenon DEF ToSet
<1>8. more \in Seq(ToSet(more))
  BY <1>2, <1>7, Zenon
<1> QED
  BY <1>2, <1>3, <1>7, <1>8, Zenon DEF more

-----------------------------------------------------------------------------
(* Orders on a finite set, as sets of pairs, and what is before an element.*)
Before(S, order, x) == {u \in S : <<u, x>> \in order}

IsTransitive(S, order) ==
  \A x, y, z \in S : <<x, y>> \in order /\ <<y, z>> \in order => <<x, z>> \in order

LEMMA BeforeIsFinite ==
  ASSUME NEW S, IsFiniteSet(S), NEW order, NEW x \in S
  PROVE  /\ Cardinality(S) \in Nat /\ IsFiniteSet(Before(S, order, x))
         /\ Cardinality(Before(S, order, x)) \in Nat
         /\ Cardinality(Before(S, order, x)) <= Cardinality(S)
<1>1. Before(S, order, x) \in SUBSET S
  BY DEF Before
<1> QED
  BY <1>1, FS_Subset, FS_CardinalityType

(* What is before more elements is a larger number of them.                *)
LEMMA MoreAreBefore ==
  ASSUME NEW S, IsFiniteSet(S), NEW order, NEW x \in S, NEW y \in S,
         NEW w \in Before(S, order, y), w \notin Before(S, order, x),
         Before(S, order, x) \subseteq Before(S, order, y)
  PROVE  Cardinality(Before(S, order, x)) < Cardinality(Before(S, order, y))
<1>1. PICK A, B : A = Before(S, order, x) /\ B = Before(S, order, y)
  OBVIOUS
<1>2. IsFiniteSet(B) /\ A \in SUBSET B /\ A # B
  BY <1>1, BeforeIsFinite
<1>3. Cardinality(A) <= Cardinality(B) /\ Cardinality(A) # Cardinality(B)
  BY <1>2, FS_Subset
<1>4. Cardinality(A) \in Nat /\ Cardinality(B) \in Nat
  BY <1>1, BeforeIsFinite
<1> QED
  BY <1>1, <1>3, <1>4

(* If any two elements can be compared one of them has all others before.  *)
LEMMA ChainHasTop ==
  ASSUME NEW S, IsFiniteSet(S), S # {}, NEW order, IsTransitive(S, order),
         \A x, y \in S : <<x, y>> \in order \/ <<y, x>> \in order
  PROVE  \E top \in S : \A x \in S : <<x, top>> \in order
<1> DEFINE size(x) == Cardinality(Before(S, order, x))
           sizes == {size(x) : x \in S}
<1>1. \A x \in S : size(x) \in Nat /\ size(x) <= Cardinality(S)
  BY BeforeIsFinite
<1>2. Cardinality(S) \in Nat
  BY FS_CardinalityType
<1>3. PICK greatest \in sizes : \A n \in sizes : n <= greatest
  <2>1. sizes \in SUBSET Nat /\ sizes # {} /\ \A n \in sizes : n <= Cardinality(S)
    BY <1>1
  <2> HIDE DEF sizes
  <2> QED
    BY <1>2, <2>1, GreatestExists
<1>4. PICK top \in S : greatest = size(top)
  BY <1>3
<1>5. SUFFICES ASSUME NEW x \in S, <<x, top>> \notin order
               PROVE  FALSE
  BY <1>4
<1>6. <<top, x>> \in order /\ <<x, x>> \in order
  BY <1>5
<1>7. /\ x \in Before(S, order, x) /\ x \notin Before(S, order, top)
      /\ Before(S, order, top) \subseteq Before(S, order, x)
  BY <1>4, <1>5, <1>6 DEF Before, IsTransitive
<1>8. size(top) < size(x)
  BY <1>4, <1>5, <1>7, MoreAreBefore
<1>9. size(x) <= size(top)
  BY <1>3, <1>4
<1> QED
  BY <1>1, <1>4, <1>8, <1>9

-----------------------------------------------------------------------------
(* A fold over a sequence visits the positions one by one: the greatest of *)
(* the first ones is the last of them.                                     *)
LEMMA LastOfFirst ==
  ASSUME NEW n \in Nat \ {0}
  PROVE  Max(1..n) = n /\ (1..n) \ {Max(1..n)} = 1..(n - 1) /\ 1..n # {}
<1>1. n \in 1..n /\ \A i \in 1..n : n >= i
  OBVIOUS
<1>2. Max(1..n) = n
  <2>1. Max(1..n) \in 1..n /\ Max(1..n) >= n
    BY <1>1 DEF Max
  <2> QED
    BY <2>1
<1> QED
  BY <1>1, <1>2

(* The table in which a fold looks up what it has made of some of the      *)
(* positions exists, for a step that stays among the states.               *)
FoldStep(s, base, step, table) ==
  IF s = {} THEN base ELSE step[Max(s)][table[s \ {Max(s)}]]

IsFoldTable(table, n, States, base, step) ==
  /\ table \in [SUBSET (1..n) -> States]
  /\ \A s \in SUBSET (1..n) : table[s] = FoldStep(s, base, step, table)

LEMMA FoldTableExists ==
  ASSUME NEW n \in Nat, NEW States, NEW base \in States,
         NEW step \in [1..n -> [States -> States]]
  PROVE  \E table : IsFoldTable(table, n, States, base, step)
<1> DEFINE T == {k \in Nat : k <= n => \E table : IsFoldTable(table, k, States, base, step)}
<1>1. 0 \in T
  <2> DEFINE table == [s \in SUBSET (1..0) |-> base]
  <2>1. SUBSET (1..0) = {{}}
    BY 1..0 = {}
  <2>2. table \in [SUBSET (1..0) -> States]
    BY Zenon
  <2>3. \A s \in SUBSET (1..0) : table[s] = FoldStep(s, base, step, table)
    BY <2>1, Zenon DEF FoldStep
  <2> HIDE DEF table
  <2>4. IsFoldTable(table, 0, States, base, step)
    BY <2>2, <2>3, Zenon DEF IsFoldTable
  <2> QED
    BY <2>4
<1>2. \A k \in T : k + 1 \in T
  <2>1. SUFFICES ASSUME NEW k \in Nat, k + 1 <= n,
                        NEW old, IsFoldTable(old, k, States, base, step)
                 PROVE  \E table : IsFoldTable(table, k + 1, States, base, step)
    OBVIOUS
  <2> DEFINE table == [s \in SUBSET (1..(k + 1)) |->
                         IF s \in SUBSET (1..k) THEN old[s]
                         ELSE step[k + 1][old[s \ {k + 1}]]]
  <2>2. \A s \in SUBSET (1..(k + 1)) : s \ {k + 1} \in SUBSET (1..k)
    <3>1. \A i \in 1..(k + 1) : i # k + 1 => i \in 1..k
      BY <2>1
    <3> QED
      BY <3>1, Zenon
  <2>3. \A s \in SUBSET (1..k) : old[s] \in States /\ old[s] = FoldStep(s, base, step, old)
    BY <2>1, Zenon DEF IsFoldTable
  <2>4. \A x \in States : step[k + 1][x] \in States
    <3>1. k + 1 \in 1..n
      BY <2>1
    <3> QED
      BY <3>1, Zenon
  <2>5. table \in [SUBSET (1..(k + 1)) -> States]
    BY <2>2, <2>3, <2>4, Zenon
  <2>6. ASSUME NEW s \in SUBSET (1..(k + 1))
        PROVE  table[s] = FoldStep(s, base, step, table)
    <3>1. CASE s = {}
      BY <2>3, <3>1, Zenon DEF FoldStep
    <3>2. CASE s # {} /\ s \in SUBSET (1..k)
      <4>1. s \ {Max(s)} \in SUBSET (1..k) /\ s \ {Max(s)} \in SUBSET (1..(k + 1))
        BY <3>2, Zenon
      <4>2. table[s] = old[s] /\ table[s \ {Max(s)}] = old[s \ {Max(s)}]
        BY <3>2, <4>1, Zenon
      <4> QED
        BY <2>3, <3>2, <4>2, Zenon DEF FoldStep
    <3>3. CASE s \notin SUBSET (1..k)
      <4>1. k + 1 \in s /\ s # {}
        BY <2>1, <3>3
      <4>2. Max(s) = k + 1
        <5>1. \A i \in s : i \in Nat /\ k + 1 >= i
          BY <2>1
        <5>2. Max(s) \in s /\ Max(s) >= k + 1
          BY <4>1, <5>1 DEF Max
        <5>3. PICK m : m = Max(s)
          OBVIOUS
        <5>4. m \in Nat /\ k + 1 >= m /\ m >= k + 1
          BY <5>1, <5>2, <5>3
        <5>5. m = k + 1
          BY <2>1, <5>4
        <5> QED
          BY <5>3, <5>5
      <4>3. s \ {k + 1} \in SUBSET (1..k) /\ s \ {k + 1} \in SUBSET (1..(k + 1))
        BY <2>2, Zenon
      <4>4. table[s] = step[k + 1][old[s \ {k + 1}]] /\ table[s \ {k + 1}] = old[s \ {k + 1}]
        BY <3>3, <4>3, Zenon
      <4> QED
        BY <4>1, <4>2, <4>4, Zenon DEF FoldStep
    <3> QED
      BY <3>1, <3>2, <3>3
  <2> HIDE DEF table
  <2>7. IsFoldTable(table, k + 1, States, base, step)
    BY <2>5, <2>6, Zenon DEF IsFoldTable
  <2> QED
    BY <2>7
<1>3. T = Nat
  <2>1. T \in SUBSET Nat
    OBVIOUS
  <2> HIDE DEF T
  <2> QED
    BY <1>1, <1>2, <2>1, HasAllNumbers
<1>4. n \in T
  <2> HIDE DEF T
  <2> QED
    BY <1>3
<1>5. n <= n
  OBVIOUS
<1> QED
  BY <1>4, <1>5
=============================================================================
