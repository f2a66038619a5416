---------------------------- MODULE SearchProofs -----------------------------
(***************************************************************************)
(* Proofs about TagSelect and Search, for all catalogues, plans, queries   *)
(* and limits.  The columns of a catalogue are derived or empty (Shelved): *)
(* what they say, names of the image state.  A finished selection is what  *)
(* select_tags returns (Chosen): its lines share the limit, its choice is  *)
(* independent of the other images, and ended lines are told.  A search    *)
(* stands somewhere on the ladder of its plan's conditions (Laddered): it  *)
(* drops none without need, and its candidates meet those that are left.   *)
(*                                                                         *)
(* FoldLeftDomain, the sorts by rank and Take are shown once to be what    *)
(* they stand for: ReadsWordByWord, PlacedIsListed, TakenFromList.         *)
(***************************************************************************)
EXTENDS Search, ListProofs

(* A strict order, and a list in it.                                       *)
IsStrictOrder(S, order) ==
  /\ IsTransitive(S, order)
  /\ \A x \in S : <<x, x>> \notin order
  /\ \A x, y \in S : x = y \/ <<x, y>> \in order \/ <<y, x>> \in order

IsListing(s, S, order) ==
  /\ Cardinality(S) \in Nat
  /\ s \in [1..Cardinality(S) -> S]
  /\ s \in Seq(S) /\ Len(s) = Cardinality(S)
  /\ \A t \in S : \E i \in 1..Cardinality(S) : s[i] = t
  /\ ToSet(s) = S
  /\ \A i, j \in 1..Cardinality(S) : i < j <=> <<s[i], s[j]>> \in order

(* Every element has a place of its own: the number of those before it.    *)
LEMMA PlacesAreTaken ==
  ASSUME NEW S, IsFiniteSet(S), NEW order, IsStrictOrder(S, order)
  PROVE  /\ \A x \in S : Cardinality(Before(S, order, x)) \in 0..(Cardinality(S) - 1)
         /\ \A x, y \in S : <<x, y>> \in order <=>
              Cardinality(Before(S, order, x)) < Cardinality(Before(S, order, y))
         /\ \A n \in 0..(Cardinality(S) - 1) : \E x \in S :
              Cardinality(Before(S, order, x)) = n
<1> DEFINE rank(x) == Cardinality(Before(S, order, x))
           n == Cardinality(S)
           f == [x \in S |-> rank(x)]
<1>1. n \in Nat /\ \A x \in S : rank(x) \in Nat /\ rank(x) <= n
  BY BeforeIsFinite, FS_CardinalityType
<1>2. ASSUME NEW x \in S PROVE rank(x) \in 0..(n - 1)
  <2>1. Before(S, order, x) \in SUBSET S /\ Before(S, order, x) # S
    BY DEF Before, IsStrictOrder
  <2>2. rank(x) # n
    BY <2>1, FS_Subset
  <2>3. PICK k : k = rank(x)
    OBVIOUS
  <2>4. k \in Nat /\ k <= n /\ k # n
    BY <1>1, <2>2, <2>3
  <2>5. k \in 0..(n - 1)
    BY <1>1, <2>4
  <2> QED
    BY <2>3, <2>5
<1>3. ASSUME NEW x \in S, NEW y \in S, <<x, y>> \in order
      PROVE  rank(x) < rank(y)
  <2>1. x \in Before(S, order, y) /\ x \notin Before(S, order, x)
    BY <1>3 DEF Before, IsStrictOrder
  <2>2. Before(S, order, x) \subseteq Before(S, order, y)
    BY <1>3 DEF Before, IsStrictOrder, IsTransitive
  <2> QED
    BY <2>1, <2>2, MoreAreBefore
<1>4. ASSUME NEW x \in S, NEW y \in S, rank(x) < rank(y)
      PROVE  <<x, y>> \in order
  <2>1. SUFFICES ASSUME <<x, y>> \notin order PROVE FALSE
    OBVIOUS
  <2>2. PICK j, k : j = rank(x) /\ k = rank(y)
    OBVIOUS
  <2>3. j \in Nat /\ k \in Nat /\ j < k
    BY <1>1, <1>4, <2>2
  <2>4. x # y
    BY <2>2, <2>3
  <2>5. <<y, x>> \in order
    BY <2>1, <2>4 DEF IsStrictOrder
  <2>6. k < j
    BY <1>3, <2>2, <2>5
  <2> QED
    BY <2>3, <2>6
<1>5. f \in Injection(S, 0..(n - 1))
  <2>1. f \in [S -> 0..(n - 1)]
    <3> HIDE DEF rank, n
    <3> QED
      BY <1>2
  <2>2. ASSUME NEW x \in S, NEW y \in S, f[x] = f[y] PROVE x = y
    <3>1. SUFFICES ASSUME x # y PROVE FALSE
      OBVIOUS
    <3>2. PICK j : j = rank(x) /\ j = rank(y)
      BY <2>2
    <3>3. j \in Nat /\ j < j
      BY <1>1, <1>3, <3>1, <3>2 DEF IsStrictOrder
    <3> QED
      BY <3>3
  <2> HIDE DEF f
  <2> QED
    BY <2>1, <2>2 DEF Injection, IsInjective
<1>6. IsFiniteSet(0..(n - 1)) /\ Cardinality(0..(n - 1)) = n
  <2>1. 0 \in Int /\ n - 1 \in Int
    BY <1>1
  <2>2. /\ IsFiniteSet(0..(n - 1))
        /\ Cardinality(0..(n - 1)) = IF 0 > n - 1 THEN 0 ELSE (n - 1) - 0 + 1
    <3> HIDE DEF n
    <3> QED
      BY <2>1, FS_Interval
  <2> HIDE DEF n
  <2> QED
    BY <1>1, <2>2
<1>7. f \in Surjection(S, 0..(n - 1))
  <2>1. Cardinality(S) = Cardinality(0..(n - 1))
    BY <1>6
  <2> HIDE DEF f, n
  <2> QED
    BY <1>5, <1>6, <2>1, FS_Injection
<1>8. \A k \in 0..(n - 1) : \E x \in S : rank(x) = k
  <2>1. \A k \in 0..(n - 1) : \E x \in S : f[x] = k
    <3> HIDE DEF f, n
    <3> QED
      BY <1>7 DEF Surjection
  <2> HIDE DEF rank, n
  <2> QED
    BY <2>1
<1> QED
  BY <1>2, <1>3, <1>4, <1>8

LEMMA ListIsSequence ==
  ASSUME NEW S, NEW n \in Nat, NEW s \in [1..n -> S]
  PROVE  s \in Seq(S) /\ Len(s) = n /\ DOMAIN s = 1..n
  OBVIOUS

LEMMA PlacedIsListed ==
  ASSUME NEW S, IsFiniteSet(S), NEW order, IsStrictOrder(S, order), 
         NEW s \in [1..Cardinality(S) -> S],
         \A i \in 1..Cardinality(S) : Cardinality(Before(S, order, s[i])) = i - 1
  PROVE  IsListing(s, S, order)
<1> DEFINE rank(x) == Cardinality(Before(S, order, x))
           n == Cardinality(S)
<1>1. n \in Nat
  BY FS_CardinalityType
<1>2. /\ \A x \in S : rank(x) \in 0..(n - 1)
      /\ \A x, y \in S : <<x, y>> \in order <=> rank(x) < rank(y)
      /\ \A k \in 0..(n - 1) : \E x \in S : rank(x) = k
  BY PlacesAreTaken
<1>3. s \in [1..n -> S] /\ \A i \in 1..n : rank(s[i]) = i - 1
  OBVIOUS
<1> HIDE DEF rank, n
<1>4. \A i \in 1..n : s[i] \in S /\ rank(s[i]) = i - 1
  BY <1>3
<1>5. s \in [1..n -> S]
  BY <1>3, <1>4, Zenon
<1>6. s \in Seq(S) /\ Len(s) = n /\ DOMAIN s = 1..n
  BY <1>1, <1>5, ListIsSequence
<1>7. ASSUME NEW t \in S PROVE \E i \in 1..n : s[i] = t
  <2>1. rank(t) \in 0..(n - 1)
    BY <1>2
  <2>2. PICK i \in 1..n : i - 1 = rank(t)
    <3>1. PICK k : k = rank(t)
      OBVIOUS
    <3>2. k + 1 \in 1..n /\ (k + 1) - 1 = k
      BY <1>1, <2>1, <3>1
    <3> QED
      BY <3>1, <3>2
  <2>3. s[i] \in S /\ rank(s[i]) = rank(t)
    BY <1>4, <2>2
  <2>4. \A x, y \in S : x = y \/ rank(x) < rank(y) \/ rank(y) < rank(x)
    BY <1>2 DEF IsStrictOrder
  <2>5. s[i] = t
    BY <1>2, <2>3, <2>4
  <2> QED
    BY <2>5
<1>8. ToSet(s) = S
  BY <1>4, <1>6, <1>7, Zenon DEF ToSet
<1>9. \A i, j \in 1..n : i < j <=> <<s[i], s[j]>> \in order
  <2>1. TAKE i, j \in 1..n
  <2>2. <<s[i], s[j]>> \in order <=> i - 1 < j - 1
    BY <1>2, <1>4
  <2> QED
    BY <1>1, <2>2
<1> QED
  BY <1>1, <1>5, <1>6, <1>7, <1>8, <1>9 DEF IsListing, n

-----------------------------------------------------------------------------
(* What a name says while its words are read.                              *)
FactsOf(words, version) ==
  [version : {version},
   distribution : Distributions \union {"windows", None},
   codename : {w.text : w \in ToSet(words)} \union {None},
   variant : Seq({w.text : w \in ToSet(words)})]

LEMMA ReadWordTyped ==
  ASSUME NEW words, words \in Seq(ToSet(words)), NEW version,
         NEW facts \in FactsOf(words, version), NEW i \in 1..Len(words), NEW before
  PROVE  ReadWord(facts, words[i], before) \in FactsOf(words, version)
<1>1. words[i] \in ToSet(words)
  BY DEF ToSet
<1>2. PICK w \in ToSet(words) : w = words[i]
  BY <1>1
<1>3. /\ facts = [version |-> facts.version, distribution |-> facts.distribution,
                  codename |-> facts.codename, variant |-> facts.variant]
      /\ facts.version = version
      /\ facts.distribution \in Distributions \union {"windows", None}
      /\ facts.codename \in {v.text : v \in ToSet(words)} \union {None}
      /\ facts.variant \in Seq({v.text : v \in ToSet(words)})
  BY DEF FactsOf
<1>4. w.text \in {v.text : v \in ToSet(words)}
  OBVIOUS
<1>5. Append(facts.variant, w.text) \in Seq({v.text : v \in ToSet(words)})
  BY <1>3, <1>4
<1>6. ReadWord(facts, w, before) \in FactsOf(words, version)
  BY <1>3, <1>4, <1>5 DEF ReadWord, FactsOf
<1> QED
  BY <1>2, <1>6

LEMMA MaxIsIn ==
  ASSUME NEW n \in Nat, NEW s \in SUBSET (1..n), s # {}
  PROVE  Max(s) \in s
<1>1. s \in SUBSET Nat /\ \A i \in s : i <= n
  OBVIOUS
<1>2. \E i \in s : \A j \in s : j <= i
  BY <1>1, GreatestExists
<1> QED
  BY <1>1, <1>2 DEF Max

LEMMA ReadsWordByWord ==
  ASSUME NEW words, words \in Seq(ToSet(words)), NEW version,
         NEW start \in FactsOf(words, version)
  PROVE  \E facts :
           /\ facts[0] = start
           /\ \A k \in 0..Len(words) : facts[k] \in FactsOf(words, version)
           /\ \A k \in 1..Len(words) :
                facts[k] = ReadWord(facts[k - 1], words[k], SubSeq(words, 1, k - 1))
           /\ ReadWords(start, words) = facts[Len(words)]
<1> DEFINE n == Len(words)
           States == FactsOf(words, version)
           Read(x, i) == ReadWord(x, words[i], SubSeq(words, 1, i - 1))
           step == [i \in 1..n |-> [x \in States |-> Read(x, i)]]
           pos == [i \in DOMAIN words |-> i]
           IsIter(iter) == iter = [s \in SUBSET DOMAIN pos |->
                             IF s = {} THEN start ELSE Read(iter[s \ {Max(s)}], pos[Max(s)])]
           iter == CHOOSE iter : IsIter(iter)
           facts == [k \in 0..n |-> iter[1..k]]
<1>1. n \in Nat /\ DOMAIN words = 1..n
  OBVIOUS
<1>2. DOMAIN pos = 1..n /\ \A i \in 1..n : pos[i] = i
  BY <1>1
<1>3. \A i \in 1..n : \A x \in States : Read(x, i) \in States
  BY ReadWordTyped
<1>4. step \in [1..n -> [States -> States]]
  <2> HIDE DEF Read, States
  <2> QED
    BY <1>3, Zenon
<1>5. PICK table : IsFoldTable(table, n, States, start, step)
  <2> HIDE DEF step, n, States
  <2> QED
    BY <1>1, <1>4, FoldTableExists DEF States
<1>6. IsIter(table)
  <2>1. ASSUME NEW s \in SUBSET (1..n), s # {}
        PROVE  FoldStep(s, start, step, table) = Read(table[s \ {Max(s)}], Max(s))
    <3>1. Max(s) \in s
      BY <1>1, <2>1, MaxIsIn
    <3>2. Max(s) \in 1..n /\ s \ {Max(s)} \in SUBSET (1..n)
      BY <2>1, <3>1, Zenon
    <3> HIDE DEF Read, States
    <3>3. table[s \ {Max(s)}] \in States
      BY <1>5, <3>2, Zenon DEF IsFoldTable
    <3> QED
      BY <2>1, <3>2, <3>3, Zenon DEF FoldStep
  <2> HIDE DEF Read, pos
  <2>2. \A s \in SUBSET (1..n) :
          table[s] = IF s = {} THEN start ELSE Read(table[s \ {Max(s)}], pos[Max(s)])
    <3>1. ASSUME NEW s \in SUBSET (1..n), s # {}
          PROVE  table[s] = Read(table[s \ {Max(s)}], pos[Max(s)])
      <4>1. table[s] = Read(table[s \ {Max(s)}], Max(s))
        BY <1>5, <2>1, <3>1, Zenon DEF IsFoldTable, FoldStep
      <4>2. Max(s) \in 1..n
        BY <1>1, <3>1, MaxIsIn
      <4> QED
        BY <1>2, <4>1, <4>2, Zenon
    <3> QED
      BY <1>5, <3>1, Zenon DEF IsFoldTable, FoldStep
  <2>3. table = [s \in SUBSET (1..n) |-> table[s]]
    BY <1>5, Zenon DEF IsFoldTable
  <2> QED
    BY <1>2, <2>2, <2>3, Zenon
<1>7. IsIter(iter)
  BY <1>6, Zenon
<1>8. \A s \in SUBSET (1..n) :
          iter[s] = IF s = {} THEN start ELSE Read(iter[s \ {Max(s)}], pos[Max(s)])
  <2> HIDE DEF iter, pos, Read
  <2> QED
    BY <1>7, <1>2, Zenon
<1>9. ReadWords(start, words) = iter[1..n]
  <2>1. ReadWords(start, words) = iter[DOMAIN pos]
    BY Zenon DEF ReadWords, FoldLeftDomain, FoldLeft, MapThenFoldSet
  <2> HIDE DEF iter, pos
  <2> QED
    BY <1>2, <2>1, Zenon
<1>10. iter[1..0] = start
  <2>1. 1..0 \in SUBSET (1..n) /\ 1..0 = {}
    BY <1>1
  <2> HIDE DEF iter, Read, pos
  <2> QED
    BY <1>8, <2>1, Zenon
<1>11. ASSUME NEW k \in 1..n
      PROVE  iter[1..k] = Read(iter[1..(k - 1)], k)
  <2>1. 1..k \in SUBSET (1..n) /\ k \in Nat \ {0}
    BY <1>1
  <2>2. Max(1..k) = k /\ (1..k) \ {Max(1..k)} = 1..(k - 1) /\ 1..k # {}
    BY <2>1, LastOfFirst
  <2> HIDE DEF iter, Read, pos
  <2> QED
    BY <1>8, <1>2, <2>1, <2>2, Zenon
<1>12. \A k \in 0..n : iter[1..k] \in States
  <2> DEFINE T == {k \in Nat : k <= n => iter[1..k] \in States}
  <2>1. 0 \in T
    BY <1>10
  <2>2. \A k \in T : k + 1 \in T
    <3> HIDE DEF iter, States
    <3>1. SUFFICES ASSUME NEW k \in Nat, k <= n => iter[1..k] \in States, k + 1 <= n
                   PROVE  iter[1..(k + 1)] \in States
      OBVIOUS
    <3>2. k + 1 \in 1..n /\ (k + 1) - 1 = k /\ k <= n
      BY <1>1, <3>1
    <3>3. iter[1..(k + 1)] = Read(iter[1..k], k + 1)
      BY <1>11, <3>2
    <3> HIDE DEF iter, Read, States
    <3> QED
      BY <1>3, <3>1, <3>2, <3>3, Zenon
  <2>3. T = Nat
    <3>1. T \in SUBSET Nat
      OBVIOUS
    <3> HIDE DEF T
    <3> QED
      BY <2>1, <2>2, <3>1, HasAllNumbers
  <2>4. TAKE k \in 0..n
  <2>5. k \in T /\ k <= n
    <3> HIDE DEF T
    <3> QED
      BY <1>1, <2>3
  <2> QED
    BY <2>5
<1>13. \A k \in 1..n : k \in 0..n /\ k - 1 \in 0..n
  BY <1>1
<1>14. 0 \in 0..n /\ n \in 0..n
  BY <1>1
<1>15. \A k \in 1..n : facts[k] = Read(facts[k - 1], k)
  <2> HIDE DEF iter, Read
  <2> QED
    BY <1>11, <1>13, Zenon
<1>16. facts[0] = start /\ \A k \in 0..n : facts[k] \in States
  <2> HIDE DEF iter, Read, States
  <2> QED
    BY <1>10, <1>12, <1>14, Zenon
<1>17. ReadWords(start, words) = facts[n]
  <2> HIDE DEF iter
  <2> QED
    BY <1>9, <1>14, Zenon
<1> HIDE DEF facts
<1> QED
  BY <1>15, <1>16, <1>17, Zenon


(* A codename comes with a distribution.                                   *)
StatesPair(facts) == facts.codename # None => facts.distribution # None

(* As long as no word named a distribution only an ltsc word has given a   *)
(* codename.                                                               *)
ReadSoFar(facts, words, k) ==
  facts.distribution = None =>
    /\ \A j \in 1..k : words[j].kind \notin Distributions \union {"windows"}
    /\ facts.codename # None => \E j \in 1..k : words[j].kind = "ltsc"

LEMMA ReadWordPairs ==
  ASSUME NEW words, AreWords(words), NEW version, NEW k \in 1..Len(words),
         NEW facts \in FactsOf(words, version), ReadSoFar(facts, words, k - 1)
  PROVE  ReadSoFar(ReadWord(facts, words[k], SubSeq(words, 1, k - 1)), words, k)
<1> DEFINE before == SubSeq(words, 1, k - 1)
           new == ReadWord(facts, words[k], before)
<1>1. SUFFICES ASSUME new.distribution = None
               PROVE  /\ \A j \in 1..k : words[j].kind \notin Distributions \union {"windows"}
                      /\ new.codename # None => \E j \in 1..k : words[j].kind = "ltsc"
  BY DEF ReadSoFar
<1>2. None \notin Distributions \union {"windows"}
  BY SearchAssumption
<1>3. words \in Seq(ToSet(words)) /\ DOMAIN words = 1..Len(words) /\ Len(words) \in Nat
  BY DEF AreWords
<1>4. PICK w : w = words[k]
  OBVIOUS
<1>5. /\ facts = [version |-> facts.version, distribution |-> facts.distribution,
                  codename |-> facts.codename, variant |-> facts.variant]
  BY DEF FactsOf
<1>6. PICK r : r = ReadWord(facts, w, before)
  OBVIOUS
<1>7. r.distribution = None
  BY <1>1, <1>4, <1>6
<1>8. w.kind \notin Distributions \union {"windows"} /\ facts.distribution = None
  BY <1>2, <1>5, <1>6, <1>7 DEF ReadWord, Distributions
<1>9. /\ \A j \in 1..(k - 1) : words[j].kind \notin Distributions \union {"windows"}
      /\ facts.codename # None => \E j \in 1..(k - 1) : words[j].kind = "ltsc"
  BY <1>8 DEF ReadSoFar
<1>10. \A j \in 1..k : words[j].kind \notin Distributions \union {"windows"}
  BY <1>3, <1>4, <1>8, <1>9
<1>11. ASSUME before # <<>>
       PROVE  Last(before) # BareAlpine
  <2>1. before \in Seq(ToSet(words)) /\ Len(before) = k - 1
    BY <1>3
  <2>2. k - 1 \in 1..(k - 1)
    BY <1>3, <1>11, <2>1
  <2>3. Last(before) = words[k - 1]
    BY <1>3, <2>1, <2>2 DEF Last
  <2>4. words[k - 1].kind \notin Distributions
    BY <1>9, <2>2
  <2> QED
    BY <2>3, <2>4 DEF BareAlpine, Distributions
<1>12. r.codename # facts.codename => w.kind = "ltsc"
  <2>1. SUFFICES ASSUME w.kind # "ltsc" PROVE r.codename = facts.codename
    OBVIOUS
  <2>2. facts.distribution # "windows"
    BY <1>2, <1>8
  <2>3. ~ (before # <<>> /\ Last(before) = BareAlpine)
    BY <1>11
  <2> HIDE DEF before
  <2>4. PICK added : added = Append(facts.variant, w.text)
    OBVIOUS
  <2>5. \/ r = facts
        \/ r = [facts EXCEPT !.variant = added]
        \/ r = [facts EXCEPT !.distribution = "windows", !.variant = added]
    BY <1>6, <1>8, <2>1, <2>2, <2>3, <2>4 DEF ReadWord
  <2> QED
    BY <1>5, <2>5
<1>13. r.codename # None => \E j \in 1..k : words[j].kind = "ltsc"
  BY <1>3, <1>4, <1>9, <1>12
<1> QED
  BY <1>4, <1>6, <1>10, <1>13

LEMMA ReadWordsPairs ==
  ASSUME NEW words, AreWords(words), NEW version, NEW start,
         start = [NoFacts EXCEPT !.version = version]
  PROVE  /\ ReadWords(start, words) \in FactsOf(words, version)
         /\ StatesPair(ReadWords(start, words))
<1> DEFINE n == Len(words)
<1>1. words \in Seq(ToSet(words)) /\ n \in Nat /\ DOMAIN words = 1..n
  BY DEF AreWords
<1>2. start \in FactsOf(words, version) /\ start.distribution = None /\ start.codename = None
  <2>1. start = [version |-> version, distribution |-> None, codename |-> None,
                 variant |-> <<>>]
    BY DEF NoFacts
  <2>2. <<>> \in Seq({w.text : w \in ToSet(words)})
    OBVIOUS
  <2> QED
    <3>1. PICK variants : variants = Seq({w.text : w \in ToSet(words)})
      OBVIOUS
    <3>2. FactsOf(words, version) =
            [version : {version}, distribution : Distributions \union {"windows", None},
             codename : {w.text : w \in ToSet(words)} \union {None}, variant : variants]
      BY <3>1, Zenon DEF FactsOf
    <3>3. start \in FactsOf(words, version)
      BY <2>1, <2>2, <3>1, <3>2
    <3> QED
      BY <2>1, <3>3
<1>3. PICK facts :
           /\ facts[0] = start
           /\ \A k \in 0..n : facts[k] \in FactsOf(words, version)
           /\ \A k \in 1..n :
                facts[k] = ReadWord(facts[k - 1], words[k], SubSeq(words, 1, k - 1))
           /\ ReadWords(start, words) = facts[n]
  BY <1>1, <1>2, ReadsWordByWord
<1>4. \A k \in 0..n : ReadSoFar(facts[k], words, k)
  <2> DEFINE T == {k \in Nat : k <= n => ReadSoFar(facts[k], words, k)}
  <2>1. 0 \in T
    <3>1. facts[0].codename = None /\ 1..0 = {}
      BY <1>2, <1>3
    <3> QED
      BY <3>1 DEF ReadSoFar
  <2>2. \A k \in T : k + 1 \in T
    <3>1. SUFFICES ASSUME NEW k \in Nat, k <= n => ReadSoFar(facts[k], words, k), k + 1 <= n
                   PROVE  ReadSoFar(facts[k + 1], words, k + 1)
      OBVIOUS
    <3>2. k + 1 \in 1..n /\ (k + 1) - 1 = k /\ k <= n /\ k \in 0..n
      BY <1>1, <3>1
    <3> QED
      BY <1>3, <3>1, <3>2, ReadWordPairs
  <2>3. T = Nat
    <3>1. T \in SUBSET Nat
      OBVIOUS
    <3> HIDE DEF T
    <3> QED
      BY <2>1, <2>2, <3>1, HasAllNumbers
  <2>4. TAKE k \in 0..n
  <2>5. k \in T /\ k <= n
    <3> HIDE DEF T
    <3> QED
      BY <1>1, <2>3
  <2> QED
    BY <2>5
<1>5. n \in 0..n
  BY <1>1
<1>6. PICK last \in FactsOf(words, version) : last = facts[n] /\ ReadSoFar(last, words, n)
  BY <1>3, <1>4, <1>5
<1>7. StatesPair(last)
  <2>1. SUFFICES ASSUME last.distribution = None PROVE last.codename = None
    BY DEF StatesPair
  <2>2. \A w \in ToSet(words) : w.kind \notin Distributions \union {"windows"}
    BY <1>1, <1>6, <2>1 DEF ReadSoFar, ToSet
  <2>3. \A w \in ToSet(words) : w.kind # "ltsc"
    BY <2>2 DEF AreWords
  <2>4. \A j \in 1..n : words[j] \in ToSet(words)
    BY <1>1 DEF ToSet
  <2> QED
    BY <1>6, <2>1, <2>3, <2>4 DEF ReadSoFar
<1> QED
  BY <1>3, <1>6, <1>7

(* The comment at derive.py:93: the parser gives a codename only together  *)
(* with a distribution.                                                    *)
LEMMA ParsedPairs ==
  ASSUME NEW t, AreWords(t.words), NEW repository
  PROVE  /\ StatesPair(ParseTag(t, repository))
         /\ ParseTag(t, repository).version =
              IF t.name.ver = <<>> THEN None ELSE [ver |-> t.name.ver, build |-> t.name.build]
<1> DEFINE version == IF t.name.ver = <<>> THEN None
                      ELSE [ver |-> t.name.ver, build |-> t.name.build]
           start == [NoFacts EXCEPT !.version = version]
<1>1. PICK read : read = ReadWords(start, t.words)
  OBVIOUS
<1>2. read \in FactsOf(t.words, version) /\ StatesPair(read)
  BY <1>1, ReadWordsPairs
<1>3. PICK facts : facts = OsFacts(read, repository)
  OBVIOUS
<1>4. None \notin OsRepositories
  BY SearchAssumption
<1>5. read = [version |-> read.version, distribution |-> read.distribution,
              codename |-> read.codename, variant |-> read.variant]
  BY <1>2 DEF FactsOf
<1>6. /\ facts = [version |-> facts.version, distribution |-> facts.distribution,
                  codename |-> facts.codename, variant |-> facts.variant]
      /\ StatesPair(facts)
      /\ facts.version = read.version
  BY <1>2, <1>3, <1>4, <1>5 DEF OsFacts, StatesPair
<1>7. ParseTag(t, repository) = [facts EXCEPT !.variant = IF @ = <<>> THEN None ELSE @]
  BY <1>1, <1>3, Zenon DEF ParseTag
<1>8. PICK parsed : parsed = [facts EXCEPT !.variant = IF @ = <<>> THEN None ELSE @]
  OBVIOUS
<1>9. /\ parsed.distribution = facts.distribution /\ parsed.codename = facts.codename
      /\ parsed.version = facts.version
  BY <1>6, <1>8
<1>10. read.version = version
  BY <1>2 DEF FactsOf
<1> QED
  BY <1>6, <1>7, <1>8, <1>9, <1>10 DEF StatesPair

-----------------------------------------------------------------------------
(* A value that all give is the value of one of them.                      *)
LEMMA SingleIsOne ==
  ASSUME NEW values, Single(values) # None
  PROVE  Single(values) \in values
<1>1. Cardinality(values) = 1 /\ Single(values) = CHOOSE v \in values : TRUE
  BY DEF Single
<1>2. values # {}
  BY <1>1, FS_EmptySet
<1> QED
  BY <1>1, <1>2

(* A pair of distribution and codename that was resolved is one that a     *)
(* name of the image stated.                                               *)
LEMMA ResolvedPairs ==
  ASSUME NEW own, NEW group, StatesPair(own),
         NEW col, col = ResolveAlias(own, group), col.codename # None
  PROVE  \E f \in group \union {own} : /\ f.codename = col.codename
                                       /\ f.distribution = col.distribution
<1>1. col.distribution = IF own.distribution # None THEN own.distribution
                         ELSE Single({f.distribution : f \in group} \ {None})
  BY DEF ResolveAlias
<1>2. col.codename = IF own.codename # None THEN own.codename
                     ELSE Single(CodenamesOf(group, col.distribution))
  BY DEF ResolveAlias
<1>3. CASE own.codename # None
  BY <1>1, <1>2, <1>3 DEF StatesPair
<1>4. CASE own.codename = None
  <2>1. col.codename \in CodenamesOf(group, col.distribution)
    BY <1>2, <1>4, SingleIsOne
  <2> QED
    BY <2>1 DEF CodenamesOf
<1> QED
  BY <1>3, <1>4

(* The catalogue is one that can be searched; a tag's columns are derived  *)
(* or empty.                                                               *)
Shelved ==
  /\ \E s \in Searches : catalogue = s.catalogue
  /\ columns = [r \in DOMAIN catalogue |-> [t \in catalogue[r] |-> columns[r][t]]]
  /\ \A r \in DOMAIN catalogue : \A t \in catalogue[r] :
       columns[r][t] \in {Underived, DeriveRepository(catalogue[r], r)[t]}

LEMMA InitShelved == ASSUME SearchInit PROVE Shelved
  BY DEF SearchInit, Shelved

LEMMA NextShelved ==
  ASSUME Shelved, [SearchNext]_searchVars
  PROVE  Shelved'
<1>1. ASSUME UNCHANGED <<catalogue, columns>> PROVE Shelved'
  BY <1>1 DEF Shelved
<1>2. CASE DeriveAll
  BY <1>2 DEF DeriveAll, Shelved, DeriveRepository
<1>3. CASE ClearChanged
  <2>1. PICK r \in DOMAIN catalogue : \E t \in catalogue[r] :
          columns' = [columns EXCEPT ![r][t] = Underived]
    BY <1>3, Zenon DEF ClearChanged
  <2>2. PICK t \in catalogue[r] : columns' = [columns EXCEPT ![r][t] = Underived]
    BY <2>1
  <2>3. catalogue' = catalogue
    BY <1>3 DEF ClearChanged
  <2>4. \A q \in DOMAIN catalogue : \A u \in catalogue[q] :
          columns'[q][u] = IF q = r /\ u = t THEN Underived ELSE columns[q][u]
    BY <2>2 DEF Shelved
  <2>5. columns' = [q \in DOMAIN catalogue |-> [u \in catalogue[q] |-> columns'[q][u]]]
    BY <2>2 DEF Shelved
  <2> QED
    <3>1. \A q \in DOMAIN catalogue : \A u \in catalogue[q] :
            columns'[q][u] \in {Underived, DeriveRepository(catalogue[q], q)[u]}
      BY <2>4, Zenon DEF Shelved
    <3> QED
      BY <2>3, <2>5, <3>1, Zenon DEF Shelved
<1>4. CASE Begin \/ StageEnds \/ StageFails \/ UNCHANGED searchVars
  <2>1. UNCHANGED <<catalogue, columns>>
    BY <1>4, Zenon DEF Begin, StageEnds, StageFails, searchVars, storedVars
  <2> QED
    BY <1>1, <2>1
<1> QED
  BY <1>2, <1>3, <1>4 DEF SearchNext

LEMMA CatalogueIsFine ==
  ASSUME Shelved, NEW r \in DOMAIN catalogue
  PROVE  IsRepository(catalogue[r]) /\ \A t \in catalogue[r] : AreWords(t.words)
  BY SearchAssumption DEF Shelved

LEMMA ShelvedPairs == ASSUME Shelved PROVE PairsAreStated
<1>1. SUFFICES ASSUME NEW r \in DOMAIN catalogue, NEW t \in catalogue[r],
                      columns[r][t].distribution # None, columns[r][t].codename # None
               PROVE  \E u \in GroupOf(catalogue[r], t) \union {t} :
                        /\ Facts(r, u).codename = columns[r][t].codename
                        /\ Facts(r, u).distribution = columns[r][t].distribution
  BY DEF PairsAreStated
<1> DEFINE group == {ParseTag(u, r) : u \in GroupOf(catalogue[r], t)}
<1>2. PICK col : col = columns[r][t]
  OBVIOUS
<1>3. col = ResolveAlias(ParseTag(t, r), group)
  <2>1. Underived.codename = None
    BY DEF Underived
  <2>2. col = DeriveRepository(catalogue[r], r)[t]
    BY <1>1, <1>2, <2>1 DEF Shelved
  <2> QED
    BY <2>2, Zenon DEF DeriveRepository
<1>4. StatesPair(ParseTag(t, r))
  BY CatalogueIsFine, ParsedPairs
<1>5. PICK f \in group \union {ParseTag(t, r)} : /\ f.codename = col.codename
                                                 /\ f.distribution = col.distribution
  <2> HIDE DEF group
  <2>1. col.codename # None
    BY <1>1, <1>2
  <2>2. PICK own : own = ParseTag(t, r)
    OBVIOUS
  <2>3. StatesPair(own) /\ col = ResolveAlias(own, group)
    BY <1>3, <1>4, <2>2
  <2> QED
    BY <2>1, <2>2, <2>3, ResolvedPairs
<1>6. PICK u \in GroupOf(catalogue[r], t) \union {t} : f = ParseTag(u, r)
  BY <1>5
<1> QED
  BY <1>2, <1>5, <1>6 DEF Facts

(* No column pairs a distribution with a codename of another one, at any   *)
(* moment of deriving, collecting and searching (derive.py:93).            *)
THEOREM StatedPairs == SearchSpec => []PairsAreStated
<1>1. SearchInit => Shelved
  BY InitShelved
<1>2. Shelved /\ [SearchNext]_searchVars => Shelved'
  BY NextShelved
<1>3. Shelved => PairsAreStated
  BY ShelvedPairs
<1> QED
  BY <1>1, <1>2, <1>3, PTL DEF SearchSpec

-----------------------------------------------------------------------------
(* To be continued by another version is an order.                         *)
LEMMA PrefixMeans ==
  ASSUME NEW s \in Seq(Nat), NEW t \in Seq(Nat)
  PROVE  IsPrefix(s, t) <=> Len(s) <= Len(t) /\ \A i \in 1..Len(s) : s[i] = t[i]
<1>1. Len(s) \in Nat /\ Len(t) \in Nat
  OBVIOUS
<1>2. ASSUME Len(s) <= Len(t), SubSeq(s, 1, Len(s)) = SubSeq(t, 1, Len(s)),
             NEW i \in 1..Len(s)
      PROVE  s[i] = t[i]
  <2>1. SubSeq(s, 1, Len(s))[i] = s[i] /\ SubSeq(t, 1, Len(s))[i] = t[i]
    BY <1>1, <1>2
  <2> QED
    BY <1>2, <2>1
<1>3. ASSUME Len(s) <= Len(t), \A i \in 1..Len(s) : s[i] = t[i]
      PROVE  SubSeq(s, 1, Len(s)) = SubSeq(t, 1, Len(s))
  BY <1>1, <1>3
<1> QED
  BY <1>2, <1>3 DEF IsPrefix

LEMMA SamePrefix ==
  ASSUME NEW s \in Seq(Nat), NEW t \in Seq(Nat), IsPrefix(s, t), IsPrefix(t, s)
  PROVE  s = t
<1>1. Len(s) = Len(t)
  BY PrefixMeans
<1>2. \A i \in 1..Len(s) : s[i] = t[i]
  BY PrefixMeans
<1> QED
  BY <1>1, <1>2

LEMMA ExtendsIsOrder ==
  ASSUME NEW a \in Versions, NEW b \in Versions, NEW c \in Versions
  PROVE  /\ ExtendsVersion(a, a)
         /\ ExtendsVersion(a, b) /\ ExtendsVersion(b, a) => a = b
         /\ ExtendsVersion(a, b) /\ ExtendsVersion(b, c) => ExtendsVersion(a, c)
<1>1. /\ a.ver \in Seq(Nat) /\ b.ver \in Seq(Nat) /\ c.ver \in Seq(Nat)
      /\ a = [ver |-> a.ver, build |-> a.build] /\ b = [ver |-> b.ver, build |-> b.build]
      /\ c = [ver |-> c.ver, build |-> c.build]
  BY DEF Versions
<1>2. IsPrefix(a.ver, a.ver)
  BY <1>1, PrefixMeans
<1>3. IsPrefix(a.ver, b.ver) /\ IsPrefix(b.ver, a.ver) => a.ver = b.ver
  BY <1>1, SamePrefix
<1>4. IsPrefix(a.ver, b.ver) /\ IsPrefix(b.ver, c.ver) => IsPrefix(a.ver, c.ver)
  <2>1. Len(a.ver) \in Nat /\ Len(b.ver) \in Nat /\ Len(c.ver) \in Nat
    BY <1>1
  <2> QED
    BY <1>1, <2>1, PrefixMeans
<1>5. ExtendsVersion(a, a)
  BY <1>2 DEF ExtendsVersion
<1>6. ASSUME ExtendsVersion(a, b), ExtendsVersion(b, a) PROVE a = b
  BY <1>1, <1>3, <1>6 DEF ExtendsVersion
<1>7. ASSUME ExtendsVersion(a, b), ExtendsVersion(b, c) PROVE ExtendsVersion(a, c)
  BY <1>4, <1>7 DEF ExtendsVersion
<1> QED
  BY <1>5, <1>6, <1>7

(* If the versions of an image continue each other the end of the chain    *)
(* is one that continues all of them.                                      *)
LEMMA ChainEndIs ==
  ASSUME NEW versions \in SUBSET Versions, NEW top \in versions,
         \A v \in versions : ExtendsVersion(v, top)
  PROVE  ChainEnd(versions) = top
<1> DEFINE ends == {v \in versions : \A other \in versions : ExtendsVersion(other, v)}
<1>1. ends = {top}
  BY ExtendsIsOrder
<1>2. ChainEnd(versions) = CHOOSE v \in {top} : TRUE
  <2> HIDE DEF ends
  <2>1. ChainEnd(versions) = IF ends = {} THEN None ELSE CHOOSE v \in ends : TRUE
    BY Zenon DEF ChainEnd, ends
  <2> QED
    BY <1>1, <2>1
<1> QED
  BY <1>2

LEMMA ChainHasEnd ==
  ASSUME NEW versions \in SUBSET Versions, IsFiniteSet(versions), versions # {},
         \A v, w \in versions : ExtendsVersion(v, w) \/ ExtendsVersion(w, v)
  PROVE  \E top \in versions : \A v \in versions : ExtendsVersion(v, top)
<1> DEFINE order == {p \in versions \X versions : ExtendsVersion(p[1], p[2])}
<1>1. \A v, w \in versions : <<v, w>> \in order <=> ExtendsVersion(v, w)
  OBVIOUS
<1>2. IsTransitive(versions, order)
  BY <1>1, ExtendsIsOrder DEF IsTransitive
<1> HIDE DEF order
<1>3. PICK top \in versions : \A v \in versions : <<v, top>> \in order
  BY <1>1, <1>2, ChainHasTop
<1> QED
  BY <1>1, <1>3

(* Then every name of the image gets that version.                         *)
LEMMA ChainResolves ==
  ASSUME NEW versions \in SUBSET (Versions \ {None}), IsFiniteSet(versions),
         \A v, w \in versions : ExtendsVersion(v, w) \/ ExtendsVersion(w, v),
         NEW own \in versions \union {None}
  PROVE  ResolveVersion(own, versions) = ChainEnd(versions)
<1>1. CASE own = None
  BY <1>1 DEF ResolveVersion
<1>2. CASE own # None
  <2> DEFINE finer == {v \in versions : ExtendsVersion(own, v)}
  <2>1. PICK top \in versions : \A v \in versions : ExtendsVersion(v, top)
    BY <1>2, ChainHasEnd
  <2>2. ChainEnd(versions) = top
    BY <2>1, ChainEndIs
  <2>3. top \in finer /\ finer \in SUBSET Versions /\ \A v \in finer : ExtendsVersion(v, top)
    BY <1>2, <2>1
  <2>4. ChainEnd(finer) = top
    BY <2>3, ChainEndIs
  <2>5. top # None
    OBVIOUS
  <2> HIDE DEF finer
  <2>6. ResolveVersion(own, versions)
          = IF ChainEnd(finer) = None THEN own ELSE ChainEnd(finer)
    BY <1>2, Zenon DEF ResolveVersion, finer
  <2> QED
    BY <2>2, <2>4, <2>5, <2>6
<1> QED
  BY <1>1, <1>2

(* What at most one value is stated of is the same for all names.          *)
LEMMA OneStated ==
  ASSUME NEW values, IsFiniteSet(values), Cardinality(values) <= 1, NEW v \in values
  PROVE  values = {v} /\ Single(values) = v
<1>1. Cardinality(values) \in Nat /\ Cardinality(values) # 0
  BY FS_CardinalityType, FS_EmptySet
<1>2. Cardinality(values) = 1
  BY <1>1
<1>3. PICK x : values = {x}
  BY <1>2, FS_Singleton
<1>4. values = {v}
  BY <1>3
<1> QED
  BY <1>2, <1>4 DEF Single

-----------------------------------------------------------------------------
Stated(group, column) == {f[column] : f \in group} \ {None}

(* What names of one image state that do not contradict each other, and    *)
(* the columns all of them get.                                            *)
IsConsistent(group) ==
  /\ IsFiniteSet(group)
  /\ \A f \in group : StatesPair(f) /\ f.version \in Versions \union {None}
  /\ \A column \in {"distribution", "codename", "variant"} :
       Cardinality(Stated(group, column)) <= 1
  /\ \A v, w \in Stated(group, "version") : ExtendsVersion(v, w) \/ ExtendsVersion(w, v)

Agreed(group) ==
  LET distribution == Single(Stated(group, "distribution"))
      version == ChainEnd(Stated(group, "version"))
  IN [version |-> version,
      majorMinor |-> MajorMinor(version),
      distribution |-> distribution,
      codename |-> Single(CodenamesOf(group, distribution)),
      variant |-> IF Stated(group, "variant") = {} THEN <<"full">>
                  ELSE Single(Stated(group, "variant"))]

LEMMA StatedIsFinite ==
  ASSUME NEW group, IsFiniteSet(group), NEW column
  PROVE  IsFiniteSet(Stated(group, column))
<1> DEFINE values == {f[column] : f \in group}
           f == [x \in group |-> x[column]]
<1>1. f \in Surjection(group, values)
  BY DEF Surjection
<1>2. IsFiniteSet(values)
  <2> HIDE DEF f, values
  <2> QED
    BY <1>1, FS_Surjection
<1>3. Stated(group, column) \in SUBSET values
  BY DEF Stated
<1> QED
  BY <1>2, <1>3, FS_Subset

LEMMA ConsistentAgree ==
  ASSUME NEW group, IsConsistent(group), NEW own \in group
  PROVE  ResolveAlias(own, group) = Agreed(group)
<1> DEFINE dists == Stated(group, "distribution")
           names == Stated(group, "codename")
           kinds == Stated(group, "variant")
           versions == Stated(group, "version")
           distribution == Single(dists)
           codes == CodenamesOf(group, distribution)
<1>1. /\ IsFiniteSet(group)
      /\ IsFiniteSet(dists) /\ IsFiniteSet(names) /\ IsFiniteSet(kinds) /\ IsFiniteSet(versions)
  BY StatedIsFinite DEF IsConsistent
<1>2. Cardinality(dists) <= 1 /\ Cardinality(names) <= 1 /\ Cardinality(kinds) <= 1
  BY Zenon DEF IsConsistent
<1>3. /\ own.distribution # None => own.distribution \in dists
      /\ own.codename # None => own.codename \in names
      /\ own.variant # None => own.variant \in kinds
      /\ own.version \in versions \union {None}
  BY Zenon DEF Stated
<1>4. own.distribution # None => own.distribution = distribution
  <2> HIDE DEF dists
  <2> QED
    BY <1>1, <1>2, <1>3, OneStated
<1>5. own.codename # None => own.codename = Single(codes)
  <2>1. SUFFICES ASSUME own.codename # None PROVE own.codename = Single(codes)
    OBVIOUS
  <2>2. own.distribution = distribution
    BY <1>4, <2>1 DEF IsConsistent, StatesPair
  <2>3. own.codename \in codes
    BY <2>1, <2>2, Zenon DEF CodenamesOf
  <2>4. codes \in SUBSET names
    BY Zenon DEF CodenamesOf, Stated
  <2> HIDE DEF codes, names
  <2>5. IsFiniteSet(codes) /\ Cardinality(codes) <= Cardinality(names)
    BY <1>1, <2>4, FS_Subset
  <2>6. Cardinality(codes) <= 1
    BY <1>1, <1>2, <2>5, FS_CardinalityType
  <2> QED
    BY <2>3, <2>5, <2>6, OneStated
<1>6. own.variant # None => own.variant = Single(kinds) /\ kinds # {}
  <2> HIDE DEF kinds
  <2> QED
    BY <1>1, <1>2, <1>3, OneStated
<1>7. ResolveVersion(own.version, versions) = ChainEnd(versions)
  <2>1. versions \in SUBSET (Versions \ {None})
    BY Zenon DEF IsConsistent, Stated
  <2>2. \A v, w \in versions : ExtendsVersion(v, w) \/ ExtendsVersion(w, v)
    BY Zenon DEF IsConsistent
  <2> HIDE DEF versions
  <2> QED
    BY <1>1, <1>3, <2>1, <2>2, ChainResolves
<1>8. PICK d, c, k : /\ d = IF own.distribution # None THEN own.distribution ELSE distribution
                     /\ c = IF own.codename # None THEN own.codename ELSE Single(CodenamesOf(group, d))
                     /\ k = IF own.variant # None THEN own.variant
                            ELSE IF kinds = {} THEN <<"full">> ELSE Single(kinds)
  OBVIOUS
<1>9. ResolveAlias(own, group)
        = [version |-> ResolveVersion(own.version, versions),
           majorMinor |-> MajorMinor(ResolveVersion(own.version, versions)),
           distribution |-> d, codename |-> c, variant |-> k]
  BY <1>8, Zenon DEF ResolveAlias, Stated
<1>10. /\ d = distribution
       /\ c = Single(codes)
       /\ k = IF kinds = {} THEN <<"full">> ELSE Single(kinds)
  <2> HIDE DEF distribution, kinds
  <2> QED
    BY <1>4, <1>5, <1>6, <1>8
<1> QED
  BY <1>7, <1>9, <1>10, Zenon DEF Agreed

LEMMA ShelvedAliases == ASSUME Shelved PROVE AliasesAgree
<1>1. SUFFICES ASSUME NEW r \in DOMAIN catalogue, NEW t \in catalogue[r], NEW u \in catalogue[r]
               PROVE
    LET facts == {Facts(r, w) : w \in GroupOf(catalogue[r], t)}
        stated(column) == {f[column] : f \in facts} \ {None}
    IN /\ columns[r][t] # Underived /\ columns[r][u] # Underived
       /\ u \in GroupOf(catalogue[r], t)
       /\ \A column \in {"distribution", "codename", "variant"} :
            Cardinality(stated(column)) <= 1
       /\ \A v, w \in stated("version") : ExtendsVersion(v, w) \/ ExtendsVersion(w, v)
       => columns[r][t] = columns[r][u]
  BY Zenon DEF AliasesAgree
<1> DEFINE group == {Facts(r, w) : w \in GroupOf(catalogue[r], t)}
<1>2. SUFFICES ASSUME columns[r][t] # Underived, columns[r][u] # Underived,
                      u \in GroupOf(catalogue[r], t),
                      \A column \in {"distribution", "codename", "variant"} :
                        Cardinality(Stated(group, column)) <= 1,
                      \A v, w \in Stated(group, "version") :
                        ExtendsVersion(v, w) \/ ExtendsVersion(w, v)
               PROVE  columns[r][t] = columns[r][u]
  BY Zenon DEF Stated
<1>3. IsRepository(catalogue[r]) /\ \A w \in catalogue[r] : AreWords(w.words)
  BY CatalogueIsFine
<1>4. /\ GroupOf(catalogue[r], u) = GroupOf(catalogue[r], t)
      /\ t \in GroupOf(catalogue[r], t) /\ GroupOf(catalogue[r], t) \in SUBSET catalogue[r]
  BY <1>2 DEF GroupOf
<1>5. IsFiniteSet(group)
  <2> DEFINE f == [w \in GroupOf(catalogue[r], t) |-> Facts(r, w)]
  <2>1. IsFiniteSet(GroupOf(catalogue[r], t))
    BY <1>3, <1>4, FS_Subset DEF IsRepository
  <2>2. f \in Surjection(GroupOf(catalogue[r], t), group)
    BY DEF Surjection
  <2> HIDE DEF f, group
  <2> QED
    BY <2>1, <2>2, FS_Surjection
<1>6. \A f \in group : StatesPair(f) /\ f.version \in Versions \union {None}
  <2>1. TAKE f \in group
  <2>2. PICK w \in catalogue[r] : f = ParseTag(w, r)
    BY <1>4, Zenon DEF Facts
  <2>3. [ver |-> w.name.ver, build |-> w.name.build] \in Versions
    <3>1. w.name \in Names
      BY <1>3, Zenon DEF IsRepository
    <3> QED
      BY <3>1 DEF Names, Versions
  <2>4. /\ StatesPair(ParseTag(w, r))
        /\ ParseTag(w, r).version = IF w.name.ver = <<>> THEN None
                                    ELSE [ver |-> w.name.ver, build |-> w.name.build]
    BY <1>3, ParsedPairs
  <2> QED
    BY <2>2, <2>3, <2>4
<1>7. IsConsistent(group)
  <2> HIDE DEF group
  <2> QED
    BY <1>2, <1>5, <1>6, Zenon DEF IsConsistent
<1>8. ASSUME NEW w \in {t, u}
      PROVE  columns[r][w] = Agreed(group)
  <2>1. w \in catalogue[r] /\ GroupOf(catalogue[r], w) = GroupOf(catalogue[r], t)
    BY <1>4
  <2>2. columns[r][w] = DeriveRepository(catalogue[r], r)[w]
    BY <1>2, <2>1 DEF Shelved
  <2>3. columns[r][w] = ResolveAlias(Facts(r, w), group)
    BY <2>1, <2>2, Zenon DEF DeriveRepository, Facts
  <2>4. Facts(r, w) \in group
    BY <1>2, <1>4, Zenon
  <2> HIDE DEF group
  <2> QED
    BY <1>7, <2>3, <2>4, ConsistentAgree
<1> QED
  BY <1>8

(* Names of one image that contradict each other in nothing get the same   *)
(* columns, however many there are and whatever each of them says.         *)
THEOREM AliasesGetTheSame == SearchSpec => []AliasesAgree
<1>1. SearchInit => Shelved
  BY InitShelved
<1>2. Shelved /\ [SearchNext]_searchVars => Shelved'
  BY NextShelved
<1>3. Shelved => AliasesAgree
  BY ShelvedAliases
<1> QED
  BY <1>1, <1>2, <1>3, PTL DEF SearchSpec

-----------------------------------------------------------------------------
(* The orders of tag selection are strict, and what they sort is listed.   *)
NameOrder(S) == {p \in S \X S : ShorterName(p[1], p[2])}
PushOrder(S) == {p \in S \X S : LaterPush(p[1], p[2])}
LineOrder(S) == {p \in S \X S : NewerLine(p[1], p[2])}
TurnOrder(S) == {p \in S \X S : EarlierTurn(p[1], p[2])}

LEMMA NameOrderIsStrict ==
  ASSUME NEW S, IsRepository(S)
  PROVE  IsStrictOrder(S, NameOrder(S))
<1>1. \A x, y \in S : <<x, y>> \in NameOrder(S) <=> ShorterName(x, y)
  BY DEF NameOrder
<1>2. \A x \in S : x.name.size \in Nat /\ x.name.alpha \in Nat
  BY DEF IsRepository, Names
<1>3. \A x, y \in S : x.name.alpha = y.name.alpha => x = y
  BY Zenon DEF IsRepository
<1>4. IsTransitive(S, NameOrder(S))
  <2>1. ASSUME NEW x \in S, NEW y \in S, NEW z \in S, ShorterName(x, y), ShorterName(y, z)
        PROVE  ShorterName(x, z)
    BY <1>2, <2>1 DEF ShorterName
  <2> QED
    BY <1>1, <2>1 DEF IsTransitive
<1>5. \A x \in S : ~ShorterName(x, x)
  BY <1>2 DEF ShorterName
<1>6. \A x, y \in S : x = y \/ ShorterName(x, y) \/ ShorterName(y, x)
  BY <1>2, <1>3 DEF ShorterName
<1> QED
  BY <1>1, <1>4, <1>5, <1>6 DEF IsStrictOrder

LEMMA PushOrderIsStrict ==
  ASSUME NEW S, IsRepository(S)
  PROVE  IsStrictOrder(S, PushOrder(S))
<1>1. \A x, y \in S : <<x, y>> \in PushOrder(S) <=> LaterPush(x, y)
  BY DEF PushOrder
<1>2. \A x \in S : x.day \in Nat \union {None} /\ x.name.alpha \in Nat
  BY DEF IsRepository, Names
<1>3. \A x, y \in S : x.name.alpha = y.name.alpha => x = y
  BY Zenon DEF IsRepository
<1>4. None \notin Nat
  BY TagSelectAssumption
<1>5. IsTransitive(S, PushOrder(S))
  <2>1. ASSUME NEW x \in S, NEW y \in S, NEW z \in S, LaterPush(x, y), LaterPush(y, z)
        PROVE  LaterPush(x, z)
    BY <1>2, <1>4, <2>1 DEF LaterPush
  <2> QED
    BY <1>1, <2>1 DEF IsTransitive
<1>6. \A x \in S : ~LaterPush(x, x)
  BY <1>2 DEF LaterPush
<1>7. \A x, y \in S : x = y \/ LaterPush(x, y) \/ LaterPush(y, x)
  BY <1>2, <1>3, <1>4 DEF LaterPush
<1> QED
  BY <1>1, <1>5, <1>6, <1>7 DEF IsStrictOrder

(* Of two lines of equal length that differ the one with the greater       *)
(* number at the first difference is newer.                                *)
LEMMA LineOrderIsStrict ==
  ASSUME NEW depth \in Nat, NEW S \in SUBSET [1..depth -> Nat]
  PROVE  IsStrictOrder(S, LineOrder(S))
<1>1. \A x, y \in S : <<x, y>> \in LineOrder(S) <=> NewerLine(x, y)
  BY DEF LineOrder
<1>2. \A x, y \in S : NewerLine(x, y) <=>
        \E i \in 1..depth : x[i] > y[i] /\ \A j \in 1..(i - 1) : x[j] = y[j]
  BY DEF NewerLine
<1>3. \A x \in S : \A i \in 1..depth : x[i] \in Nat
  OBVIOUS
<1>4. IsTransitive(S, LineOrder(S))
  <2>1. ASSUME NEW x \in S, NEW y \in S, NEW z \in S, NewerLine(x, y), NewerLine(y, z)
        PROVE  NewerLine(x, z)
    <3>1. PICK i \in 1..depth : x[i] > y[i] /\ \A j \in 1..(i - 1) : x[j] = y[j]
      BY <1>2, <2>1
    <3>2. PICK k \in 1..depth : y[k] > z[k] /\ \A j \in 1..(k - 1) : y[j] = z[j]
      BY <1>2, <2>1
    <3>3. x[i] \in Nat /\ y[i] \in Nat /\ z[i] \in Nat /\ x[k] \in Nat /\ y[k] \in Nat /\ z[k] \in Nat
      BY <1>3
    <3>4. CASE i <= k
      <4>1. x[i] > z[i]
        <5>1. CASE i = k
          <6>1. x[i] > y[i] /\ y[i] > z[i]
            BY <3>1, <3>2, <5>1
          <6> QED
            BY <3>3, <6>1
        <5>2. CASE i \in 1..(k - 1)
          <6>1. x[i] > y[i] /\ y[i] = z[i]
            BY <3>1, <3>2, <5>2
          <6> QED
            BY <6>1
        <5> QED
          BY <3>4, <5>1, <5>2
      <4>2. \A j \in 1..(i - 1) : x[j] = z[j]
        BY <3>1, <3>2, <3>4
      <4> QED
        BY <1>2, <4>1, <4>2
    <3>5. CASE k < i
      <4>1. x[k] > z[k]
        BY <3>1, <3>2, <3>3, <3>5
      <4>2. \A j \in 1..(k - 1) : x[j] = z[j]
        BY <3>1, <3>2, <3>5
      <4> QED
        BY <1>2, <4>1, <4>2
    <3> QED
      BY <3>4, <3>5
  <2> QED
    BY <1>1, <2>1 DEF IsTransitive
<1>5. \A x \in S : ~NewerLine(x, x)
  BY <1>2, <1>3
<1>6. ASSUME NEW x \in S, NEW y \in S, x # y
      PROVE  NewerLine(x, y) \/ NewerLine(y, x)
  <2> DEFINE differ == {i \in 1..depth : x[i] # y[i]}
  <2>1. differ \in SUBSET Nat /\ differ # {}
    <3>1. x = [i \in 1..depth |-> x[i]] /\ y = [i \in 1..depth |-> y[i]]
      OBVIOUS
    <3>2. ASSUME \A i \in 1..depth : x[i] = y[i] PROVE FALSE
      BY <1>6, <3>1, <3>2, Zenon
    <3>3. PICK i \in 1..depth : x[i] # y[i]
      BY <3>2, Zenon
    <3>4. i \in differ
      BY <3>3
    <3>5. \A k \in differ : k \in 1..depth
      OBVIOUS
    <3>6. \A k \in 1..depth : k \in Nat
      OBVIOUS
    <3> HIDE DEF differ
    <3> QED
      BY <3>4, <3>5, <3>6, Zenon
  <2>2. PICK i \in differ : \A j \in differ : i <= j
    <3> HIDE DEF differ
    <3> QED
      BY <2>1, LeastExists
  <2>3. \A j \in 1..(i - 1) : x[j] = y[j]
    BY <2>2
  <2>4. x[i] > y[i] \/ y[i] > x[i]
    BY <1>3, <2>2
  <2> QED
    BY <1>2, <2>2, <2>3, <2>4
<1> QED
  BY <1>1, <1>4, <1>5, <1>6 DEF IsStrictOrder

LEMMA TurnOrderIsStrict ==
  ASSUME NEW S \in SUBSET (Nat \X Nat)
  PROVE  IsStrictOrder(S, TurnOrder(S))
<1>1. \A x, y \in S : <<x, y>> \in TurnOrder(S) <=> EarlierTurn(x, y)
  BY DEF TurnOrder
<1>2. \A x \in S : x[1] \in Nat /\ x[2] \in Nat /\ x = <<x[1], x[2]>>
  OBVIOUS
<1>3. IsTransitive(S, TurnOrder(S))
  <2>1. ASSUME NEW x \in S, NEW y \in S, NEW z \in S, EarlierTurn(x, y), EarlierTurn(y, z)
        PROVE  EarlierTurn(x, z)
    BY <1>2, <2>1 DEF EarlierTurn
  <2> QED
    BY <1>1, <2>1 DEF IsTransitive
<1>4. \A x \in S : ~EarlierTurn(x, x)
  BY <1>2 DEF EarlierTurn
<1>5. \A x, y \in S : x = y \/ EarlierTurn(x, y) \/ EarlierTurn(y, x)
  BY <1>2 DEF EarlierTurn
<1> QED
  BY <1>1, <1>3, <1>4, <1>5 DEF IsStrictOrder

LEMMA NamesInOrder ==
  ASSUME NEW S, IsRepository(S)
  PROVE  IsListing(InOrder(S, ShorterName), S, NameOrder(S))
<1> DEFINE s == InOrder(S, ShorterName)
           n == Cardinality(S)
<1>1. IsFiniteSet(S) /\ IsStrictOrder(S, NameOrder(S))
  BY NameOrderIsStrict DEF IsRepository
<1>2. s = [i \in 1..n |-> CHOOSE t \in S : Cardinality({u \in S : ShorterName(u, t)}) = i - 1]
  BY Zenon DEF InOrder
<1>3. \A t \in S : {u \in S : ShorterName(u, t)} = Before(S, NameOrder(S), t)
  BY DEF Before, NameOrder
<1> HIDE DEF s, n
<1>4. ASSUME NEW i \in 1..n
      PROVE  s[i] \in S /\ Cardinality(Before(S, NameOrder(S), s[i])) = i - 1
  <2>1. PICK t \in S : Cardinality(Before(S, NameOrder(S), t)) = i - 1
    <3>1. i - 1 \in 0..(n - 1) /\ n = Cardinality(S)
      BY <1>1, FS_CardinalityType DEF n
    <3> QED
      BY <1>1, <3>1, PlacesAreTaken
  <2>2. Cardinality({u \in S : ShorterName(u, t)}) = i - 1
    BY <1>3, <2>1
  <2>3. s[i] = CHOOSE v \in S : Cardinality({u \in S : ShorterName(u, v)}) = i - 1
    BY <1>2, Zenon
  <2>4. s[i] \in S /\ Cardinality({u \in S : ShorterName(u, s[i])}) = i - 1
    BY <2>2, <2>3, Zenon
  <2> QED
    BY <1>3, <2>4
<1>5. s \in [1..Cardinality(S) -> S]
  <2>1. s \in [1..n -> S]
    BY <1>2, <1>4, Zenon
  <2> QED
    BY <2>1 DEF n
<1>6. IsListing(s, S, NameOrder(S))
  <2>1. \A i \in 1..Cardinality(S) :
          Cardinality(Before(S, NameOrder(S), s[i])) = i - 1
    BY <1>4 DEF n
  <2> QED
    BY <1>1, <1>5, <2>1, PlacedIsListed
<1> QED
  BY <1>6 DEF s

LEMMA PushesInOrder ==
  ASSUME NEW S, IsRepository(S)
  PROVE  IsListing(InOrder(S, LaterPush), S, PushOrder(S))
<1> DEFINE s == InOrder(S, LaterPush)
           n == Cardinality(S)
<1>1. IsFiniteSet(S) /\ IsStrictOrder(S, PushOrder(S))
  BY PushOrderIsStrict DEF IsRepository
<1>2. s = [i \in 1..n |-> CHOOSE t \in S : Cardinality({u \in S : LaterPush(u, t)}) = i - 1]
  BY Zenon DEF InOrder
<1>3. \A t \in S : {u \in S : LaterPush(u, t)} = Before(S, PushOrder(S), t)
  BY DEF Before, PushOrder
<1> HIDE DEF s, n
<1>4. ASSUME NEW i \in 1..n
      PROVE  s[i] \in S /\ Cardinality(Before(S, PushOrder(S), s[i])) = i - 1
  <2>1. PICK t \in S : Cardinality(Before(S, PushOrder(S), t)) = i - 1
    <3>1. i - 1 \in 0..(n - 1) /\ n = Cardinality(S)
      BY <1>1, FS_CardinalityType DEF n
    <3> QED
      BY <1>1, <3>1, PlacesAreTaken
  <2>2. Cardinality({u \in S : LaterPush(u, t)}) = i - 1
    BY <1>3, <2>1
  <2>3. s[i] = CHOOSE v \in S : Cardinality({u \in S : LaterPush(u, v)}) = i - 1
    BY <1>2, Zenon
  <2>4. s[i] \in S /\ Cardinality({u \in S : LaterPush(u, s[i])}) = i - 1
    BY <2>2, <2>3, Zenon
  <2> QED
    BY <1>3, <2>4
<1>5. s \in [1..Cardinality(S) -> S]
  <2>1. s \in [1..n -> S]
    BY <1>2, <1>4, Zenon
  <2> QED
    BY <2>1 DEF n
<1>6. IsListing(s, S, PushOrder(S))
  <2>1. \A i \in 1..Cardinality(S) :
          Cardinality(Before(S, PushOrder(S), s[i])) = i - 1
    BY <1>4 DEF n
  <2> QED
    BY <1>1, <1>5, <2>1, PlacedIsListed
<1> QED
  BY <1>6 DEF s

LEMMA LinesInOrder ==
  ASSUME NEW depth \in Nat, NEW S \in SUBSET [1..depth -> Nat], IsFiniteSet(S)
  PROVE  IsListing(InOrder(S, NewerLine), S, LineOrder(S))
<1> DEFINE s == InOrder(S, NewerLine)
           n == Cardinality(S)
<1>1. IsFiniteSet(S) /\ IsStrictOrder(S, LineOrder(S))
  BY LineOrderIsStrict DEF IsRepository
<1>2. s = [i \in 1..n |-> CHOOSE t \in S : Cardinality({u \in S : NewerLine(u, t)}) = i - 1]
  BY Zenon DEF InOrder
<1>3. \A t \in S : {u \in S : NewerLine(u, t)} = Before(S, LineOrder(S), t)
  BY DEF Before, LineOrder
<1> HIDE DEF s, n
<1>4. ASSUME NEW i \in 1..n
      PROVE  s[i] \in S /\ Cardinality(Before(S, LineOrder(S), s[i])) = i - 1
  <2>1. PICK t \in S : Cardinality(Before(S, LineOrder(S), t)) = i - 1
    <3>1. i - 1 \in 0..(n - 1) /\ n = Cardinality(S)
      BY <1>1, FS_CardinalityType DEF n
    <3> QED
      BY <1>1, <3>1, PlacesAreTaken
  <2>2. Cardinality({u \in S : NewerLine(u, t)}) = i - 1
    BY <1>3, <2>1
  <2>3. s[i] = CHOOSE v \in S : Cardinality({u \in S : NewerLine(u, v)}) = i - 1
    BY <1>2, Zenon
  <2>4. s[i] \in S /\ Cardinality({u \in S : NewerLine(u, s[i])}) = i - 1
    BY <2>2, <2>3, Zenon
  <2> QED
    BY <1>3, <2>4
<1>5. s \in [1..Cardinality(S) -> S]
  <2>1. s \in [1..n -> S]
    BY <1>2, <1>4, Zenon
  <2> QED
    BY <2>1 DEF n
<1>6. IsListing(s, S, LineOrder(S))
  <2>1. \A i \in 1..Cardinality(S) :
          Cardinality(Before(S, LineOrder(S), s[i])) = i - 1
    BY <1>4 DEF n
  <2> QED
    BY <1>1, <1>5, <2>1, PlacedIsListed
<1> QED
  BY <1>6 DEF s

LEMMA TurnsInOrder ==
  ASSUME NEW S \in SUBSET (Nat \X Nat), IsFiniteSet(S)
  PROVE  IsListing(InOrder(S, EarlierTurn), S, TurnOrder(S))
<1> DEFINE s == InOrder(S, EarlierTurn)
           n == Cardinality(S)
<1>1. IsFiniteSet(S) /\ IsStrictOrder(S, TurnOrder(S))
  BY TurnOrderIsStrict DEF IsRepository
<1>2. s = [i \in 1..n |-> CHOOSE t \in S : Cardinality({u \in S : EarlierTurn(u, t)}) = i - 1]
  BY Zenon DEF InOrder
<1>3. \A t \in S : {u \in S : EarlierTurn(u, t)} = Before(S, TurnOrder(S), t)
  BY DEF Before, TurnOrder
<1> HIDE DEF s, n
<1>4. ASSUME NEW i \in 1..n
      PROVE  s[i] \in S /\ Cardinality(Before(S, TurnOrder(S), s[i])) = i - 1
  <2>1. PICK t \in S : Cardinality(Before(S, TurnOrder(S), t)) = i - 1
    <3>1. i - 1 \in 0..(n - 1) /\ n = Cardinality(S)
      BY <1>1, FS_CardinalityType DEF n
    <3> QED
      BY <1>1, <3>1, PlacesAreTaken
  <2>2. Cardinality({u \in S : EarlierTurn(u, t)}) = i - 1
    BY <1>3, <2>1
  <2>3. s[i] = CHOOSE v \in S : Cardinality({u \in S : EarlierTurn(u, v)}) = i - 1
    BY <1>2, Zenon
  <2>4. s[i] \in S /\ Cardinality({u \in S : EarlierTurn(u, s[i])}) = i - 1
    BY <2>2, <2>3, Zenon
  <2> QED
    BY <1>3, <2>4
<1>5. s \in [1..Cardinality(S) -> S]
  <2>1. s \in [1..n -> S]
    BY <1>2, <1>4, Zenon
  <2> QED
    BY <2>1 DEF n
<1>6. IsListing(s, S, TurnOrder(S))
  <2>1. \A i \in 1..Cardinality(S) :
          Cardinality(Before(S, TurnOrder(S), s[i])) = i - 1
    BY <1>4 DEF n
  <2> QED
    BY <1>1, <1>5, <2>1, PlacedIsListed
<1> QED
  BY <1>6 DEF s

-----------------------------------------------------------------------------
(* A choice of at most n of some tags, empty only if it has to be.         *)
IsPick(s, S, n) ==
  /\ s \in Seq(S)
  /\ S # {} /\ n # 0 => s # <<>>
  /\ S = {} => s = <<>>

LEMMA TakenAre ==
  ASSUME NEW S, NEW s \in Seq(S), NEW n \in Nat
  PROVE  /\ Take(s, n) \in Seq(S)
         /\ Len(Take(s, n)) = IF Len(s) < n THEN Len(s) ELSE n
         /\ \A i \in 1..Len(Take(s, n)) : i \in 1..Len(s) /\ Take(s, n)[i] = s[i]
<1>1. Len(s) \in Nat
  OBVIOUS
<1>2. PICK m \in 0..Len(s) : m = IF Len(s) < n THEN Len(s) ELSE n
  BY <1>1
<1>3. Take(s, n) = SubSeq(s, 1, m)
  BY <1>2 DEF Take
<1>4. /\ SubSeq(s, 1, m) \in Seq(S) /\ Len(SubSeq(s, 1, m)) = m
      /\ \A i \in 1..m : i \in 1..Len(s) /\ SubSeq(s, 1, m)[i] = s[i]
  BY <1>1
<1> QED
  BY <1>2, <1>3, <1>4

LEMMA ListTaken ==
  ASSUME NEW S, NEW s \in Seq(S), ToSet(s) = S, NEW n \in Nat
  PROVE  IsPick(Take(s, n), S, n)
<1>1. Len(s) \in Nat /\ DOMAIN s = 1..Len(s)
  OBVIOUS
<1>2. S = {} <=> Len(s) = 0
  BY <1>1 DEF ToSet
<1>3. PICK p \in Seq(S) : /\ p = Take(s, n)
                          /\ Len(p) = IF Len(s) < n THEN Len(s) ELSE n
  BY TakenAre
<1>4. p = <<>> <=> Len(p) = 0
  OBVIOUS
<1>5. IsPick(p, S, n)
  BY <1>1, <1>2, <1>3, <1>4 DEF IsPick
<1> QED
  BY <1>3, <1>5

LEMMA SubRepository ==
  ASSUME NEW R, IsRepository(R), NEW S \in SUBSET R
  PROVE  IsRepository(S)
<1>1. IsFiniteSet(S)
  BY FS_Subset DEF IsRepository
<1> QED
  BY <1>1, Zenon DEF IsRepository

(* A list of some tags, each of them once.                                 *)
IsOnce(list, S) ==
  /\ Cardinality(S) \in Nat
  /\ list \in Seq(S) /\ ToSet(list) = S /\ Len(list) = Cardinality(S)

LEMMA TakenFromList ==
  ASSUME NEW S, NEW list, IsOnce(list, S), NEW n \in Nat
  PROVE  IsPick(Take(list, n), S, n) /\ (Cardinality(S) <= n => Take(list, n) = list)
<1>1. IsPick(Take(list, n), S, n)
  BY ListTaken DEF IsOnce
<1>2. ASSUME Cardinality(S) <= n
      PROVE  Take(list, n) = list
  <2>1. PICK l \in Seq(S) : l = list /\ Len(l) \in Nat /\ Len(l) <= n
    BY <1>2 DEF IsOnce
  <2>2. Take(l, n) = SubSeq(l, 1, Len(l))
    BY <2>1 DEF Take
  <2>3. SubSeq(l, 1, Len(l)) = l
    BY <2>1
  <2> QED
    BY <2>1, <2>2, <2>3
<1> QED
  BY <1>1, <1>2

-----------------------------------------------------------------------------
(* The lines of some tags, newer ones first, each with its tags, shorter   *)
(* names first.                                                            *)
LinesOf(refs, depth) == {LineOf(t, depth) : t \in refs}

OfLine(refs, depth, line) == {t \in refs : LineOf(t, depth) = line}

IsGrouped(queues, lines, refs, depth) ==
  /\ IsListing(lines, LinesOf(refs, depth), LineOrder(LinesOf(refs, depth)))
  /\ DOMAIN queues = 1..Len(lines)
  /\ \A i \in 1..Len(lines) :
       IsListing(queues[i], OfLine(refs, depth, lines[i]), NameOrder(OfLine(refs, depth, lines[i])))

LEMMA LineIsList ==
  ASSUME NEW t, t.name \in Names, NEW depth \in Nat, LineOf(t, depth) # None
  PROVE  /\ LineOf(t, depth) \in [1..depth -> Nat] /\ LineOf(t, depth) \in Seq(Nat)
         /\ Len(LineOf(t, depth)) = depth
         /\ depth <= Len(t.name.ver)
         /\ \A i \in 1..depth : LineOf(t, depth)[i] = t.name.ver[i]
<1>1. t.name.ver \in Seq(Nat)
  BY DEF Names
<1>2. LineOf(t, depth) = SubSeq(t.name.ver, 1, depth) /\ ~(Len(t.name.ver) < depth)
  BY DEF LineOf
<1>3. PICK ver \in Seq(Nat) : ver = t.name.ver
  BY <1>1
<1>4. Len(ver) \in Nat /\ depth <= Len(ver)
  BY <1>2, <1>3
<1>5. PICK line : line = SubSeq(ver, 1, depth)
  OBVIOUS
<1>6. line \in Seq(Nat) /\ Len(line) = depth /\ \A i \in 1..depth : line[i] = ver[i]
  BY <1>4, <1>5
<1>7. line \in [1..depth -> Nat]
  BY <1>6
<1> QED
  BY <1>2, <1>3, <1>4, <1>5, <1>6, <1>7

LEMMA LinesAreFinite ==
  ASSUME NEW refs, IsRepository(refs), NEW depth
  PROVE  IsFiniteSet(LinesOf(refs, depth))
<1> DEFINE f == [t \in refs |-> LineOf(t, depth)]
<1>1. f \in Surjection(refs, LinesOf(refs, depth))
  BY DEF Surjection, LinesOf
<1> HIDE DEF f
<1> QED
  BY <1>1, FS_Surjection DEF IsRepository

LEMMA LinesAreGrouped ==
  ASSUME NEW refs, IsRepository(refs), NEW depth \in Nat,
         \A t \in refs : LineOf(t, depth) # None
  PROVE  \E lines : IsGrouped(GroupLines(refs, depth), lines, refs, depth)
<1>1. LinesOf(refs, depth) \in SUBSET [1..depth -> Nat]
  BY LineIsList DEF LinesOf, IsRepository
<1>2. PICK lines : lines = InOrder(LinesOf(refs, depth), NewerLine)
  OBVIOUS
<1>3. IsListing(lines, LinesOf(refs, depth), LineOrder(LinesOf(refs, depth)))
  BY <1>1, <1>2, LinesAreFinite, LinesInOrder
<1>4. DOMAIN lines = 1..Len(lines)
  BY <1>3 DEF IsListing
<1>5. GroupLines(refs, depth)
        = [i \in DOMAIN lines |-> InOrder(OfLine(refs, depth, lines[i]), ShorterName)]
  BY <1>2, Zenon DEF GroupLines, LinesOf, OfLine
<1>6. ASSUME NEW i \in 1..Len(lines)
      PROVE  IsListing(GroupLines(refs, depth)[i], OfLine(refs, depth, lines[i]),
                       NameOrder(OfLine(refs, depth, lines[i])))
  <2>1. OfLine(refs, depth, lines[i]) \in SUBSET refs
    BY DEF OfLine
  <2>2. IsRepository(OfLine(refs, depth, lines[i]))
    BY <2>1, SubRepository
  <2>3. GroupLines(refs, depth)[i] = InOrder(OfLine(refs, depth, lines[i]), ShorterName)
    BY <1>4, <1>5, Zenon
  <2> QED
    BY <2>2, <2>3, NamesInOrder
<1> QED
  BY <1>3, <1>4, <1>5, <1>6, Zenon DEF IsGrouped

(* The places in the queues: each is the place of one tag.                 *)
TurnsOf(queues) == UNION {{i} \X DOMAIN queues[i] : i \in DOMAIN queues}

LEMMA LinesAreListed ==
  ASSUME NEW refs, NEW depth, NEW queues, NEW lines, IsGrouped(queues, lines, refs, depth)
  PROVE  /\ Len(lines) \in Nat /\ lines \in Seq(LinesOf(refs, depth))
         /\ ToSet(lines) = LinesOf(refs, depth)
         /\ DOMAIN lines = 1..Len(lines) /\ DOMAIN queues = 1..Len(lines)
         /\ \A i, j \in 1..Len(lines) : i < j <=> <<lines[i], lines[j]>> \in LineOrder(LinesOf(refs, depth))
         /\ \A i, j \in 1..Len(lines) : lines[i] = lines[j] => i = j
<1> DEFINE n == Len(lines)
<1>1. /\ n \in Nat /\ lines \in Seq(LinesOf(refs, depth)) /\ ToSet(lines) = LinesOf(refs, depth)
      /\ DOMAIN lines = 1..n /\ DOMAIN queues = 1..n
      /\ \A i, j \in 1..n : i < j <=> <<lines[i], lines[j]>> \in LineOrder(LinesOf(refs, depth))
  <2>1. lines \in Seq(LinesOf(refs, depth)) /\ Cardinality(LinesOf(refs, depth)) = n /\ n \in Nat
    BY Zenon DEF IsGrouped, IsListing
  <2> QED
    BY <2>1 DEF IsGrouped, IsListing
<1>2. \A i, j \in 1..n : lines[i] = lines[j] => i = j
  <2>1. SUFFICES ASSUME NEW i \in 1..n, NEW j \in 1..n, lines[i] = lines[j], i < j
                 PROVE  FALSE
    BY <1>1
  <2>2. <<lines[i], lines[i]>> \in LineOrder(LinesOf(refs, depth))
    BY <1>1, <2>1
  <2>3. i < i
    BY <1>1, <2>2
  <2> QED
    BY <1>1, <2>3
<1> QED
  BY <1>1, <1>2

LEMMA QueueIsListed ==
  ASSUME NEW refs, NEW depth, NEW queues, NEW lines, IsGrouped(queues, lines, refs, depth),
         NEW i \in 1..Len(lines)
  PROVE  /\ \E m \in Nat : DOMAIN queues[i] = 1..m
         /\ DOMAIN queues[i] \subseteq Nat
         /\ \A k \in DOMAIN queues[i] : queues[i][k] \in OfLine(refs, depth, lines[i])
         /\ \A k, l \in DOMAIN queues[i] : queues[i][k] = queues[i][l] => k = l
         /\ \A t \in OfLine(refs, depth, lines[i]) : \E k \in DOMAIN queues[i] : queues[i][k] = t
<1> DEFINE S == OfLine(refs, depth, lines[i])
           m == Cardinality(S)
<1>1. IsListing(queues[i], S, NameOrder(S))
  BY Zenon DEF IsGrouped
<1>2. PICK q : q = queues[i]
  OBVIOUS
<1>3. /\ m \in Nat /\ q \in [1..m -> S]
      /\ \A t \in S : \E k \in 1..m : q[k] = t
      /\ \A k, l \in 1..m : k < l <=> <<q[k], q[l]>> \in NameOrder(S)
  BY <1>1, <1>2, Zenon DEF IsListing
<1>4. DOMAIN q = 1..m /\ 1..m \subseteq Nat
  BY <1>3
<1> HIDE DEF m, S
<1>5. \A k, l \in 1..m : q[k] = q[l] => k = l
  <2>1. SUFFICES ASSUME NEW k \in 1..m, NEW l \in 1..m, q[k] = q[l], k < l
                 PROVE  FALSE
    BY <1>3
  <2>2. <<q[k], q[k]>> \in NameOrder(S)
    BY <1>3, <2>1
  <2>3. k < k
    BY <1>3, <2>2
  <2> QED
    BY <1>3, <2>3
<1>6. \A k \in DOMAIN q : q[k] \in S
  BY <1>3, <1>4
<1> QED
  BY <1>2, <1>3, <1>4, <1>5, <1>6 DEF S

LEMMA TurnIsTag ==
  ASSUME NEW refs, IsRepository(refs), NEW depth, NEW queues, NEW lines,
         IsGrouped(queues, lines, refs, depth)
  PROVE  /\ IsFiniteSet(TurnsOf(queues)) /\ TurnsOf(queues) \in SUBSET (Nat \X Nat)
         /\ \A x \in TurnsOf(queues) :
              /\ x[1] \in 1..Len(lines) /\ x[2] \in DOMAIN queues[x[1]]
              /\ queues[x[1]][x[2]] \in refs
              /\ LineOf(queues[x[1]][x[2]], depth) = lines[x[1]]
         /\ \A x, y \in TurnsOf(queues) :
              queues[x[1]][x[2]] = queues[y[1]][y[2]] => x = y
         /\ \A t \in refs : \E x \in TurnsOf(queues) : queues[x[1]][x[2]] = t
<1> DEFINE turns == TurnsOf(queues)
           n == Len(lines)
           tag(x) == queues[x[1]][x[2]]
<1>1. /\ n \in Nat /\ lines \in Seq(LinesOf(refs, depth)) /\ ToSet(lines) = LinesOf(refs, depth)
      /\ DOMAIN lines = 1..n /\ DOMAIN queues = 1..n
      /\ \A i, j \in 1..n : lines[i] = lines[j] => i = j
  BY LinesAreListed
<1>2. \A i, j \in 1..n : lines[i] = lines[j] => i = j
  BY <1>1
<1>3. \A i \in 1..n :
        /\ DOMAIN queues[i] \subseteq Nat
        /\ \A k \in DOMAIN queues[i] : queues[i][k] \in OfLine(refs, depth, lines[i])
        /\ \A k, l \in DOMAIN queues[i] : queues[i][k] = queues[i][l] => k = l
        /\ \A t \in OfLine(refs, depth, lines[i]) : \E k \in DOMAIN queues[i] : queues[i][k] = t
  <2>1. TAKE i \in 1..n
  <2>2. DOMAIN queues[i] \subseteq Nat
    BY QueueIsListed
  <2>3. \A k \in DOMAIN queues[i] : queues[i][k] \in OfLine(refs, depth, lines[i])
    BY QueueIsListed
  <2>4. \A k, l \in DOMAIN queues[i] : queues[i][k] = queues[i][l] => k = l
    BY QueueIsListed
  <2>5. \A t \in OfLine(refs, depth, lines[i]) : \E k \in DOMAIN queues[i] : queues[i][k] = t
    BY QueueIsListed
  <2> QED
    BY <2>2, <2>3, <2>4, <2>5
<1>4. \A x : x \in turns <=> /\ x = <<x[1], x[2]>>
                             /\ x[1] \in 1..n /\ x[2] \in DOMAIN queues[x[1]]
  BY <1>1 DEF TurnsOf
<1> HIDE DEF turns
<1>5. turns \in SUBSET (Nat \X Nat)
  <2>1. \A x \in turns : x[1] \in Nat /\ x[2] \in Nat /\ x = <<x[1], x[2]>>
    BY <1>1, <1>3, <1>4
  <2> QED
    BY <2>1
<1>6. ASSUME NEW x \in turns
      PROVE  /\ x[1] \in 1..n /\ x[2] \in DOMAIN queues[x[1]] /\ x = <<x[1], x[2]>>
             /\ tag(x) \in refs /\ LineOf(tag(x), depth) = lines[x[1]]
  <2>1. x[1] \in 1..n /\ x[2] \in DOMAIN queues[x[1]] /\ x = <<x[1], x[2]>>
    BY <1>4, Zenon
  <2>2. PICK i, k : i = x[1] /\ k = x[2]
    OBVIOUS
  <2>3. queues[i][k] \in OfLine(refs, depth, lines[i])
    BY <1>3, <2>1, <2>2
  <2> QED
    BY <2>1, <2>2, <2>3 DEF OfLine
<1>7. ASSUME NEW x \in turns, NEW y \in turns, tag(x) = tag(y)
      PROVE  x = y
  <2>1. lines[x[1]] = lines[y[1]]
    BY <1>6, <1>7, Zenon
  <2>2. x[1] = y[1]
    BY <1>2, <1>6, <2>1
  <2>3. PICK i, k, l : i = x[1] /\ k = x[2] /\ l = y[2]
    OBVIOUS
  <2>4. i \in 1..n /\ k \in DOMAIN queues[i] /\ l \in DOMAIN queues[i]
        /\ queues[i][k] = queues[i][l]
    BY <1>6, <1>7, <2>2, <2>3
  <2>5. k = l
    BY <1>3, <2>4
  <2>6. x = <<i, k>> /\ y = <<i, l>>
    BY <1>6, <2>2, <2>3
  <2> QED
    BY <2>5, <2>6
<1>8. ASSUME NEW t \in refs
      PROVE  \E x \in turns : tag(x) = t
  <2>1. LineOf(t, depth) \in ToSet(lines)
    BY <1>1 DEF LinesOf
  <2>2. PICK i \in 1..n : lines[i] = LineOf(t, depth)
    BY <1>1, <2>1 DEF ToSet
  <2>3. t \in OfLine(refs, depth, lines[i])
    BY <2>2 DEF OfLine
  <2>4. PICK k \in DOMAIN queues[i] : queues[i][k] = t
    BY <1>3, <2>3
  <2>5. <<i, k>> \in turns
    BY <1>1, <2>4 DEF TurnsOf, turns
  <2>6. tag(<<i, k>>) = t
    BY <2>4
  <2> QED
    BY <2>5, <2>6
<1>9. IsFiniteSet(turns)
  <2> DEFINE f == [x \in turns |-> tag(x)]
  <2>1. f \in Injection(turns, refs)
    <3>1. f \in [turns -> refs]
      BY <1>6, Zenon
    <3>2. \A x, y \in turns : f[x] = f[y] => x = y
      BY <1>7, Zenon
    <3> QED
      BY <3>1, <3>2, Zenon DEF Injection, IsInjective
  <2> HIDE DEF f
  <2> QED
    BY <2>1, FS_Injection DEF IsRepository
<1> QED
  BY <1>4, <1>5, <1>6, <1>7, <1>8, <1>9, Zenon DEF turns

LEMMA InterleavedList ==
  ASSUME NEW refs, IsRepository(refs), NEW depth \in Nat,
         \A t \in refs : LineOf(t, depth) # None
  PROVE  \E list : /\ IsOnce(list, refs)
                   /\ \A n \in Nat : InterleaveLines(GroupLines(refs, depth), n) = Take(list, n)
<1>1. PICK queues, lines : queues = GroupLines(refs, depth) /\ IsGrouped(queues, lines, refs, depth)
  BY LinesAreGrouped
<1>2. PICK places : places = TurnsOf(queues)
  OBVIOUS
<1>3. /\ IsFiniteSet(places) /\ places \in SUBSET (Nat \X Nat)
      /\ \A x \in places : queues[x[1]][x[2]] \in refs
      /\ \A x, y \in places : queues[x[1]][x[2]] = queues[y[1]][y[2]] => x = y
      /\ \A t \in refs : \E x \in places : queues[x[1]][x[2]] = t
  BY <1>1, <1>2, TurnIsTag
<1>4. PICK turns : turns = InOrder(places, EarlierTurn)
  OBVIOUS
<1>5. /\ turns \in Seq(places) /\ ToSet(turns) = places
      /\ Len(turns) = Cardinality(places) /\ Cardinality(places) \in Nat
  BY <1>3, <1>4, TurnsInOrder DEF IsListing
<1>6. PICK s : s = [k \in DOMAIN turns |-> queues[turns[k][1]][turns[k][2]]]
  OBVIOUS
<1>7. \A n \in Nat : InterleaveLines(queues, n) = Take(s, n)
  BY <1>2, <1>4, <1>6, Zenon DEF InterleaveLines, TurnsOf
<1>8. Len(turns) \in Nat /\ DOMAIN turns = 1..Len(turns)
  BY <1>5
<1>9. \A k \in 1..Len(turns) : turns[k] \in places
  BY <1>5, <1>8 DEF ToSet
<1>10. s \in [1..Len(turns) -> refs]
  BY <1>3, <1>6, <1>8, <1>9, Zenon
<1>11. s \in Seq(refs) /\ DOMAIN s = 1..Len(turns)
  BY <1>8, <1>10, ListIsSequence
<1>12. ToSet(s) = refs
  <2>1. ASSUME NEW t \in refs
        PROVE  \E k \in 1..Len(turns) : s[k] = t
    <3>1. PICK x \in places : queues[x[1]][x[2]] = t
      BY <1>3
    <3>2. PICK k \in 1..Len(turns) : turns[k] = x
      BY <1>5, <1>8, <3>1 DEF ToSet
    <3>3. s[k] = queues[turns[k][1]][turns[k][2]]
      BY <1>6, <1>8, <3>2, Zenon
    <3> QED
      BY <3>1, <3>2, <3>3, Zenon
  <2>2. \A k \in 1..Len(turns) : s[k] \in refs
    BY <1>10
  <2> QED
    BY <1>11, <2>1, <2>2, Zenon DEF ToSet
<1>13. Cardinality(refs) = Cardinality(places)
  <2> DEFINE f == [x \in places |-> queues[x[1]][x[2]]]
  <2>1. f \in Injection(places, refs) /\ f \in Surjection(places, refs)
    <3>1. f \in [places -> refs]
      BY <1>3, Zenon
    <3>2. (\A x, y \in places : f[x] = f[y] => x = y)
          /\ (\A t \in refs : \E x \in places : f[x] = t)
      BY <1>3, Zenon
    <3> QED
      BY <3>1, <3>2, Zenon DEF Injection, IsInjective, Surjection
  <2> HIDE DEF f
  <2> QED
    BY <1>3, <2>1, FS_Surjection
<1>14. IsOnce(s, refs)
  BY <1>5, <1>10, <1>11, <1>12, <1>13, ListIsSequence DEF IsOnce
<1> QED
  BY <1>1, <1>7, <1>14

LEMMA OneIsFirst ==
  ASSUME NEW some, IsRepository(some), some # {}
  PROVE  \E first \in some : \A u \in some : first = u \/ ShorterName(first, u)
<1> DEFINE s == InOrder(some, ShorterName)
<1>1. IsListing(s, some, NameOrder(some))
  BY NamesInOrder
<1> HIDE DEF s
<1>2. PICK n \in Nat : n = Cardinality(some)
  BY <1>1 DEF IsListing
<1>3. /\ \A i \in 1..n : s[i] \in some
      /\ \A t \in some : \E i \in 1..n : s[i] = t
      /\ \A i, j \in 1..n : i < j <=> <<s[i], s[j]>> \in NameOrder(some)
  BY <1>1, <1>2 DEF IsListing
<1>4. 1 \in 1..n
  BY <1>3
<1>5. ASSUME NEW u \in some
      PROVE  s[1] = u \/ ShorterName(s[1], u)
  <2>1. PICK i \in 1..n : s[i] = u
    BY <1>3
  <2>2. i = 1 \/ 1 < i
    OBVIOUS
  <2>3. 1 < i => <<s[1], u>> \in NameOrder(some)
    BY <1>3, <1>4, <2>1
  <2> QED
    BY <2>1, <2>2, <2>3 DEF NameOrder
<1> QED
  BY <1>3, <1>4, <1>5

(* Of every image with an allowed tag one name is left.                    *)
LEMMA OneNameIsLeft ==
  ASSUME NEW refs, IsRepository(refs), NEW ids
  PROVE  /\ FoldByDigest(refs, ids) \in SUBSET Allowed(refs, ids)
         /\ IsRepository(FoldByDigest(refs, ids))
         /\ Allowed(refs, ids) # {} => FoldByDigest(refs, ids) # {}
<1> DEFINE some == Allowed(refs, ids)
<1>1. some \in SUBSET refs
  BY DEF Allowed
<1>2. FoldByDigest(refs, ids)
        = {t \in some : \A u \in some : SameImage(t, u) => t = u \/ ShorterName(t, u)}
  BY DEF FoldByDigest
<1>3. IsRepository(some)
  BY <1>1, SubRepository
<1> HIDE DEF some
<1>4. ASSUME some # {}
      PROVE  FoldByDigest(refs, ids) # {}
  <2>1. PICK first \in some : \A u \in some : first = u \/ ShorterName(first, u)
    BY <1>3, <1>4, OneIsFirst
  <2> QED
    BY <1>2, <2>1
<1>5. FoldByDigest(refs, ids) \in SUBSET some
  BY <1>2
<1>6. IsRepository(FoldByDigest(refs, ids))
  BY <1>3, <1>5, SubRepository
<1> QED
  BY <1>4, <1>5, <1>6 DEF some

(* The tags that may be selected, before the conditions and the limit.     *)
Pool(refs, version) ==
  LET stable == Stable(refs)
      depth == LineDepth(stable)
      kept == SupportedAliases(stable, depth, version)
  IN CASE stable = {} -> ExcludeWindowsOnly(refs)
       [] stable # {} /\ depth = None -> stable
       [] OTHER ->
            IF version # None /\ FinerThanLines(version, Lines(stable, depth))
            THEN {t \in stable : ExtendsVersion(version, t.name)}
            ELSE IF kept = {}
            THEN {t \in stable : LineOf(t, depth) \in SupportedLines(stable, depth, version)}
            ELSE kept

LEMMA LineDepthTyped ==
  ASSUME NEW refs
  PROVE  LineDepth(refs) # None =>
           LineDepth(refs) \in Nat \ {0} /\ Lines(refs, LineDepth(refs)) # {}
<1> DEFINE two == {d \in 1..(MaxLineDepth - 1) : Cardinality(Lines(refs, d)) >= 2}
           one == {d \in 1..MaxLineDepth : Lines(refs, d) # {}}
<1>1. MaxLineDepth \in Nat
  BY TagSelectAssumption
<1>2. two \in SUBSET (Nat \ {0}) /\ two \in SUBSET Nat /\ one \in SUBSET Nat /\ one \in SUBSET (Nat \ {0})
  BY <1>1
<1>3. \A d \in two : Lines(refs, d) # {}
  <2>1. Cardinality({}) = 0
    BY FS_EmptySet
  <2>2. ~(0 >= 2)
    OBVIOUS
  <2> QED
    BY <2>1, <2>2, Zenon
<1>4. LineDepth(refs) = CASE two # {} -> Min(two)
                          [] two = {} /\ one # {} -> Min(one)
                          [] OTHER -> None
  BY Zenon DEF LineDepth
<1>5. two # {} => Min(two) \in two
  BY <1>2, MinIsLeast
<1>6. one # {} => Min(one) \in one
  BY <1>2, MinIsLeast
<1>7. \A d \in one : Lines(refs, d) # {}
  OBVIOUS
<1> HIDE DEF two, one
<1> QED
  BY <1>2, <1>3, <1>4, <1>5, <1>6, <1>7

LEMMA AliasHasLine ==
  ASSUME NEW t, t.name \in Names, NEW depth \in Nat, IsAlias(t, depth)
  PROVE  LineOf(t, depth) # None /\ LineOf(t, depth) \in Seq(Nat)
<1>1. PICK ver \in Seq(Nat) : ver = t.name.ver
  BY DEF Names
<1>2. Len(ver) = depth
  BY <1>1 DEF IsAlias
<1>3. LineOf(t, depth) = SubSeq(ver, 1, depth)
  BY <1>1, <1>2 DEF LineOf
<1>4. SubSeq(ver, 1, depth) \in Seq(Nat)
  BY <1>2
<1> QED
  BY <1>3, <1>4, TagSelectAssumption

LEMMA StableAre ==
  ASSUME NEW refs, IsRepository(refs)
  PROVE  /\ ExcludeWindowsOnly(refs) \in SUBSET refs /\ IsRepository(ExcludeWindowsOnly(refs))
         /\ Stable(refs) \in SUBSET refs /\ IsRepository(Stable(refs))
<1>1. ExcludeWindowsOnly(refs) \in SUBSET refs /\ Stable(refs) \in SUBSET refs
  BY DEF ExcludeWindowsOnly, ExcludePrerelease, ExcludeWithDigest, Stable
<1> QED
  BY <1>1, SubRepository

LEMMA KeptAreAliases ==
  ASSUME NEW refs, NEW depth, NEW version
  PROVE  \A t \in SupportedAliases(refs, depth, version) :
           /\ t \in refs /\ IsAlias(t, depth)
           /\ LineOf(t, depth) \in SupportedLines(refs, depth, version)
BY DEF SupportedAliases, DropStaleVariants, AliasesAt

LEMMA PoolIsRepository ==
  ASSUME NEW refs, IsRepository(refs), NEW version
  PROVE  Pool(refs, version) \in SUBSET refs /\ IsRepository(Pool(refs, version))
<1> DEFINE stable == Stable(refs)
           depth == LineDepth(stable)
           kept == SupportedAliases(stable, depth, version)
<1>1. stable \in SUBSET refs /\ ExcludeWindowsOnly(refs) \in SUBSET refs
  BY StableAre
<1>2. kept \in SUBSET stable
  BY KeptAreAliases
<1> HIDE DEF stable, depth, kept
<1>3. Pool(refs, version) \in SUBSET refs
  <2>1. \/ Pool(refs, version) = ExcludeWindowsOnly(refs)
        \/ Pool(refs, version) = stable
        \/ Pool(refs, version) = {t \in stable : ExtendsVersion(version, t.name)}
        \/ Pool(refs, version)
             = {t \in stable : LineOf(t, depth) \in SupportedLines(stable, depth, version)}
        \/ Pool(refs, version) = kept
    BY Zenon DEF Pool, stable, depth, kept
  <2> QED
    BY <1>1, <1>2, <2>1
<1> QED
  BY <1>3, SubRepository

LEMMA InOrderIsOnce ==
  ASSUME NEW S, IsRepository(S)
  PROVE  IsOnce(InOrder(S, LaterPush), S) /\ IsOnce(InOrder(S, ShorterName), S)
BY NamesInOrder, PushesInOrder DEF IsListing, IsOnce

(* The selected names are the first of a list that does not depend on the  *)
(* limit, and that has one name of every image with an allowed tag in the  *)
(* pool.                                                                   *)
LEMMA SelectsFromList ==
  ASSUME NEW refs, IsRepository(refs), NEW ids, NEW version
  PROVE  \E list : /\ IsOnce(list, FoldByDigest(Pool(refs, version), ids))
                   /\ \A n \in Nat : SelectTags(refs, n, ids, version) = Take(list, n)
<1> DEFINE linux == ExcludeWindowsOnly(refs)
           stable == Stable(refs)
           depth == LineDepth(stable)
           kept == SupportedAliases(stable, depth, version)
           inLines == {t \in stable : LineOf(t, depth) \in SupportedLines(stable, depth, version)}
           fixed == {t \in stable : ExtendsVersion(version, t.name)}
           pool == Pool(refs, version)
           folded == FoldByDigest(pool, ids)
<1>1. IsRepository(pool)
  BY PoolIsRepository
<1>2. IsRepository(folded) /\ folded \in SUBSET pool
  BY <1>1, OneNameIsLeft DEF Allowed
<1>3. kept \in SUBSET stable /\ \A t \in kept : IsAlias(t, depth)
  BY KeptAreAliases
<1>4. IsRepository(stable) /\ \A t \in stable : t.name \in Names
  BY StableAre DEF IsRepository
<1> HIDE DEF folded, pool, linux, stable, kept, inLines, fixed, depth
<1>5. SUFFICES \E list : /\ IsOnce(list, folded)
                         /\ \A n \in Nat : SelectTags(refs, n, ids, version) = Take(list, n)
  BY DEF folded, pool
<1>6. CASE \A n \in Nat : SelectTags(refs, n, ids, version) = ByRecentPush(folded, n)
  BY <1>2, <1>6, InOrderIsOnce, Zenon DEF ByRecentPush
<1>7. CASE \A n \in Nat : SelectTags(refs, n, ids, version) = Take(InOrder(folded, ShorterName), n)
  BY <1>2, <1>7, InOrderIsOnce, Zenon
<1>8. CASE /\ \A n \in Nat : SelectTags(refs, n, ids, version)
                               = InterleaveLines(GroupLines(folded, depth), n)
           /\ pool = kept /\ depth # None
  <2>1. depth \in Nat
    BY <1>8, LineDepthTyped DEF depth
  <2>2. \A t \in folded : LineOf(t, depth) # None
    BY <1>2, <1>3, <1>4, <1>8, <2>1, AliasHasLine
  <2>3. PICK list : /\ IsOnce(list, folded)
                    /\ \A n \in Nat : InterleaveLines(GroupLines(folded, depth), n) = Take(list, n)
    BY <1>2, <2>1, <2>2, InterleavedList
  <2> QED
    BY <1>8, <2>3, Zenon
<1>9. CASE stable = {} \/ depth = None
  <2>1. \A n \in Nat : SelectTags(refs, n, ids, version) = ByRecentPush(folded, n)
    BY <1>9, Zenon DEF SelectTags, Pool, folded, pool, linux, stable, depth
  <2> QED
    BY <1>6, <2>1
<1>10. CASE ~(stable = {} \/ depth = None)
  <2>1. CASE version # None /\ FinerThanLines(version, Lines(stable, depth))
    <3>1. \A n \in Nat : SelectTags(refs, n, ids, version) = Take(InOrder(folded, ShorterName), n)
      BY <1>10, <2>1, Zenon DEF SelectTags, Pool, folded, pool, fixed, stable, depth
    <3> QED
      BY <1>7, <3>1
  <2>2. CASE ~(version # None /\ FinerThanLines(version, Lines(stable, depth)))
    <3>1. CASE kept = {}
      <4>1. \A n \in Nat : SelectTags(refs, n, ids, version) = ByRecentPush(folded, n)
        BY <1>10, <2>2, <3>1, Zenon DEF SelectTags, Pool, folded, pool, inLines, stable, depth, kept
      <4> QED
        BY <1>6, <4>1
    <3>2. CASE kept # {}
      <4>1. /\ \A n \in Nat : SelectTags(refs, n, ids, version)
                                = InterleaveLines(GroupLines(folded, depth), n)
            /\ pool = kept
        BY <1>10, <2>2, <3>2, Zenon DEF SelectTags, Pool, folded, pool, stable, depth, kept
      <4> QED
        BY <1>8, <1>10, <4>1
    <3> QED
      BY <3>1, <3>2
  <2> QED
    BY <2>1, <2>2
<1> QED
  BY <1>9, <1>10

(* At most n names are selected, and one at least if there is any.         *)
LEMMA SelectsFromPool ==
  ASSUME NEW refs, IsRepository(refs), NEW n \in Nat, NEW ids, NEW version
  PROVE  IsPick(SelectTags(refs, n, ids, version), FoldByDigest(Pool(refs, version), ids), n)
BY SelectsFromList, TakenFromList

-----------------------------------------------------------------------------
(* The tags of a line whose push is known, and whether the line is within  *)
(* the gap of every other one.                                             *)
Dated(refs, depth, line) == {t \in refs : t.day # None /\ LineOf(t, depth) = line}

IsCurrent(refs, depth, line) ==
  \/ \A other \in Lines(refs, depth) : Dated(refs, depth, other) = {}
  \/ \E t \in Dated(refs, depth, line) :
       \A other \in Lines(refs, depth) : \A u \in Dated(refs, depth, other) :
          u.day - t.day <= SupportGap

LEMMA LatestPushIsTagged ==
  ASSUME NEW refs, IsRepository(refs), NEW depth, NEW line
  PROVE  /\ LatestPush(refs, depth, line) # None <=> Dated(refs, depth, line) # {}
         /\ LatestPush(refs, depth, line) # None =>
              /\ LatestPush(refs, depth, line) \in Nat
              /\ \E t \in Dated(refs, depth, line) : t.day = LatestPush(refs, depth, line)
              /\ \A u \in Dated(refs, depth, line) :
                   u.day \in Nat /\ u.day <= LatestPush(refs, depth, line)
<1> DEFINE dated == Dated(refs, depth, line)
           days == {t.day : t \in {u \in refs : LineOf(u, depth) = line}} \ {None}
<1>1. days = {t.day : t \in dated} /\ \A t \in dated : t.day \in Nat
  BY DEF Dated, IsRepository
<1>2. days \in SUBSET Nat
  BY <1>1
<1>3. LatestPush(refs, depth, line) = IF days = {} THEN None ELSE Max(days)
  BY Zenon DEF LatestPush
<1>4. IsFiniteSet(days)
  <2>1. IsFiniteSet(dated)
    <3>1. dated \in SUBSET refs
      BY DEF Dated
    <3> QED
      BY <3>1, FS_Subset DEF IsRepository
  <2> DEFINE f == [t \in dated |-> t.day]
  <2>2. f \in Surjection(dated, days)
    BY <1>1 DEF Surjection
  <2> HIDE DEF f, days, dated
  <2> QED
    BY <2>1, <2>2, FS_Surjection
<1>5. days # {} => Max(days) \in days /\ \A d \in days : d <= Max(days)
  <2>1. SUFFICES ASSUME days # {}
                 PROVE  \E top \in days : \A d \in days : d <= top
    BY DEF Max
  <2> DEFINE order == {p \in days \X days : p[1] <= p[2]}
  <2> HIDE DEF days
  <2>2. IsTransitive(days, order) /\ \A x, y \in days : <<x, y>> \in order \/ <<y, x>> \in order
    BY <1>2 DEF IsTransitive
  <2>3. \A x, y \in days : <<x, y>> \in order => x <= y
    OBVIOUS
  <2> HIDE DEF order
  <2>4. \E top \in days : \A x \in days : <<x, top>> \in order
    BY <1>4, <2>1, <2>2, ChainHasTop
  <2> QED
    BY <2>3, <2>4
<1> HIDE DEF days, dated
<1>6. dated = {} <=> days = {}
  BY <1>1
<1>7. LatestPush(refs, depth, line) # None <=> days # {}
  BY <1>2, <1>3, <1>5, TagSelectAssumption
<1>8. ASSUME days # {}
      PROVE  /\ LatestPush(refs, depth, line) \in Nat
             /\ \E t \in dated : t.day = LatestPush(refs, depth, line)
             /\ \A u \in dated : u.day \in Nat /\ u.day <= LatestPush(refs, depth, line)
  <2>1. LatestPush(refs, depth, line) \in days
        /\ \A d \in days : d <= LatestPush(refs, depth, line)
    BY <1>3, <1>5, <1>8
  <2> QED
    BY <1>1, <1>2, <2>1
<1> QED
  BY <1>6, <1>7, <1>8 DEF dated

LEMMA SupportedAreCurrent ==
  ASSUME NEW refs, IsRepository(refs), NEW depth
  PROVE  /\ Supported(refs, depth) \in SUBSET Lines(refs, depth)
         /\ \A line \in Lines(refs, depth) :
              line \in Supported(refs, depth) <=> IsCurrent(refs, depth, line)
<1> DEFINE lines == Lines(refs, depth)
           push == [line \in lines |-> LatestPush(refs, depth, line)]
           known == {line \in lines : push[line] # None}
<1>1. Supported(refs, depth)
        = IF known = {} THEN lines
          ELSE {line \in known : \A other \in known : push[other] - push[line] <= SupportGap}
  <2>1. DOMAIN push = lines
    OBVIOUS
  <2> QED
    BY <2>1, Zenon DEF Supported
<1>2. \A line \in lines :
        /\ push[line] # None <=> Dated(refs, depth, line) # {}
        /\ push[line] # None =>
             /\ push[line] \in Nat
             /\ \E t \in Dated(refs, depth, line) : t.day = push[line]
             /\ \A u \in Dated(refs, depth, line) : u.day \in Nat /\ u.day <= push[line]
  <2>1. TAKE line \in lines
  <2>2. push[line] = LatestPush(refs, depth, line)
    OBVIOUS
  <2> HIDE DEF push
  <2> QED
    BY <2>2, LatestPushIsTagged
<1> HIDE DEF push, lines
<1>3. SupportGap \in Nat
  BY TagSelectAssumption
<1>4. CASE known = {}
  BY <1>1, <1>2, <1>4 DEF IsCurrent, lines
<1>5. CASE known # {}
  <2>1. ASSUME NEW line \in known, \A other \in known : push[other] - push[line] <= SupportGap
        PROVE  IsCurrent(refs, depth, line)
    <3>1. PICK t \in Dated(refs, depth, line) : t.day = push[line] /\ push[line] \in Nat
      BY <1>2, <2>1
    <3>2. ASSUME NEW other \in lines, NEW u \in Dated(refs, depth, other)
          PROVE  u.day - t.day <= SupportGap
      <4>1. other \in known /\ push[other] \in Nat /\ u.day \in Nat /\ u.day <= push[other]
        BY <1>2, <3>2
      <4>2. push[other] - push[line] <= SupportGap
        BY <2>1, <4>1
      <4> QED
        BY <1>3, <3>1, <4>1, <4>2
    <3> QED
      BY <3>1, <3>2 DEF IsCurrent, lines
  <2>2. ASSUME NEW line \in lines, IsCurrent(refs, depth, line)
        PROVE  line \in known /\ \A other \in known : push[other] - push[line] <= SupportGap
    <3>1. ~ \A other \in lines : Dated(refs, depth, other) = {}
      BY <1>2, <1>5
    <3>2. PICK t \in Dated(refs, depth, line) :
            \A other \in lines : \A u \in Dated(refs, depth, other) : u.day - t.day <= SupportGap
      BY <2>2, <3>1 DEF IsCurrent, lines
    <3>3. line \in known /\ push[line] \in Nat /\ t.day \in Nat /\ t.day <= push[line]
      BY <1>2, <3>2
    <3>4. ASSUME NEW other \in known
          PROVE  push[other] - push[line] <= SupportGap
      <4>1. PICK u \in Dated(refs, depth, other) : u.day = push[other] /\ push[other] \in Nat
        BY <1>2
      <4>2. u.day - t.day <= SupportGap
        BY <3>2, <4>1
      <4> QED
        BY <1>3, <3>3, <4>1, <4>2
    <3> QED
      BY <3>3, <3>4
  <2> QED
    BY <1>1, <1>5, <2>1, <2>2 DEF lines
<1>6. Supported(refs, depth) \in SUBSET lines
  BY <1>1
<1> QED
  BY <1>4, <1>5, <1>6 DEF lines


LEMMA LinesTyped ==
  ASSUME NEW refs, IsRepository(refs), NEW depth \in Nat, NEW line \in Lines(refs, depth)
  PROVE  line \in Seq(Nat) /\ Len(line) = depth
<1>1. PICK t \in refs : IsAlias(t, depth) /\ line = LineOf(t, depth)
  BY DEF Lines, AliasesAt
<1>2. t.name \in Names
  BY DEF IsRepository
<1> QED
  BY <1>1, <1>2, AliasHasLine, LineIsList

(* A name that continues a version is of the line that the version is of.  *)
LEMMA LineOfExtended ==
  ASSUME NEW t, t.name \in Names, NEW line \in Seq(Nat), NEW version, version.ver \in Seq(Nat),
         ExtendsVersion(LineVersion(line), version), ExtendsVersion(version, t.name)
  PROVE  LineOf(t, Len(line)) = line
<1>1. PICK have, wanted \in Seq(Nat) : have = t.name.ver /\ wanted = version.ver
  BY DEF Names
<1>2. IsPrefix(line, wanted)
  BY <1>1 DEF ExtendsVersion, LineVersion
<1>3. IsPrefix(wanted, have) \/ wanted = have
  BY <1>1 DEF ExtendsVersion
<1>4. /\ Len(line) \in Nat /\ Len(wanted) \in Nat /\ Len(have) \in Nat
      /\ Len(line) <= Len(wanted) /\ Len(wanted) <= Len(have)
      /\ \A i \in 1..Len(line) : line[i] = have[i]
  <2>1. Len(line) \in Nat /\ Len(wanted) \in Nat /\ Len(have) \in Nat
    OBVIOUS
  <2>2. Len(line) <= Len(wanted) /\ \A i \in 1..Len(line) : line[i] = wanted[i]
    BY <1>2, PrefixMeans
  <2>3. Len(wanted) <= Len(have) /\ \A i \in 1..Len(wanted) : wanted[i] = have[i]
    BY <1>3, <2>1, PrefixMeans
  <2> QED
    BY <2>1, <2>2, <2>3
<1>5. SubSeq(have, 1, Len(line)) = line
  <2>1. PICK begin \in Seq(Nat) : begin = SubSeq(have, 1, Len(line))
    BY <1>4
  <2>2. Len(begin) = Len(line) /\ \A i \in 1..Len(line) : begin[i] = have[i]
    BY <1>4, <2>1
  <2>3. Len(begin) <= Len(line) /\ Len(line) <= Len(begin)
        /\ (\A i \in 1..Len(begin) : begin[i] = line[i])
        /\ (\A i \in 1..Len(line) : line[i] = begin[i])
    BY <1>4, <2>2
  <2>4. IsPrefix(begin, line) /\ IsPrefix(line, begin)
    BY <2>3, PrefixMeans
  <2>5. begin = line
    BY <2>4, SamePrefix
  <2> QED
    BY <2>1, <2>5
<1>6. ~(Len(have) < Len(line))
  BY <1>4
<1> QED
  BY <1>1, <1>5, <1>6 DEF LineOf

(* Only tags of supported lines are in the pool, if there are lines.       *)
LEMMA PoolIsSupported ==
  ASSUME NEW refs, IsRepository(refs), NEW version,
         version # None => version.ver \in Seq(Nat),
         LineDepth(Stable(refs)) # None,
         NEW t \in Pool(refs, version)
  PROVE  LineOf(t, LineDepth(Stable(refs)))
           \in SupportedLines(Stable(refs), LineDepth(Stable(refs)), version)
<1> DEFINE stable == Stable(refs)
           depth == LineDepth(stable)
           lines == Lines(stable, depth)
           kept == SupportedAliases(stable, depth, version)
           fixed == {u \in stable : ExtendsVersion(version, u.name)}
           inLines == {u \in stable : LineOf(u, depth) \in SupportedLines(stable, depth, version)}
<1>1. depth \in Nat /\ lines # {}
  BY LineDepthTyped
<1>2. IsRepository(stable)
  BY StableAre
<1>3. stable # {}
  BY <1>1 DEF Lines, AliasesAt
<1>4. CASE version # None /\ FinerThanLines(version, lines)
  <2>1. Pool(refs, version) = fixed
    BY <1>3, <1>4, Zenon DEF Pool
  <2>2. PICK line \in lines : ExtendsVersion(LineVersion(line), version)
    BY <1>4 DEF FinerThanLines
  <2>3. line \in Seq(Nat) /\ Len(line) = depth
    <3> HIDE DEF stable, depth
    <3> QED
      BY <1>1, <1>2, LinesTyped
  <2>4. t \in stable /\ ExtendsVersion(version, t.name) /\ t.name \in Names
    BY <1>2, <2>1 DEF IsRepository
  <2>5. LineOf(t, depth) = line
    <3> HIDE DEF stable, depth
    <3> QED
      BY <1>4, <2>2, <2>3, <2>4, LineOfExtended
  <2> HIDE DEF stable, depth
  <2> QED
    BY <1>4, <2>2, <2>5 DEF SupportedLines, stable, depth
<1>5. CASE ~(version # None /\ FinerThanLines(version, lines))
  <2>1. Pool(refs, version) = IF kept = {} THEN inLines ELSE kept
    BY <1>3, <1>5, Zenon DEF Pool
  <2>2. \A u \in kept : LineOf(u, depth) \in SupportedLines(stable, depth, version)
    BY KeptAreAliases
  <2> HIDE DEF stable, depth, kept
  <2> QED
    BY <2>1, <2>2 DEF stable, depth
<1> QED
  BY <1>4, <1>5

(* A repository that is queried, and what was selected from it.            *)
Chosen ==
  /\ IsRepository(tags) /\ NoneIsOther(tags) /\ limit \in Nat
  /\ pin # None => pin.ver \in Seq(Nat) /\ pin.build \in Nat
  /\ chosen # None =>
       /\ chosen = SelectTags(tags, limit, allowed, pin)
       /\ stale = IF pin = None THEN {} ELSE StalePinnedLines(tags, pin, chosen)

LEMMA InitChosen == ASSUME Init PROVE Chosen
<1>1. IsRepository(tags) /\ NoneIsOther(tags) /\ (pin # None => pin.ver \in Seq(Nat) /\ pin.build \in Nat)
  BY TagSelectAssumption DEF Init
<1> QED
  BY <1>1, TagSelectAssumption DEF Init, Chosen

LEMMA NextChosen == ASSUME Chosen, [Next]_vars PROVE Chosen'
<1>1. UNCHANGED <<tags, allowed, pin, limit>>
  BY DEF Next, Select, vars
<1>2. /\ (IsRepository(tags) /\ NoneIsOther(tags))' = (IsRepository(tags) /\ NoneIsOther(tags))
      /\ SelectTags(tags, limit, allowed, pin)' = SelectTags(tags, limit, allowed, pin)
  BY <1>1 DEF IsRepository, NoneIsOther, SelectTags
<1>3. CASE Select
  <2>1. /\ chosen' = SelectTags(tags, limit, allowed, pin)
        /\ stale' = IF pin = None THEN {} ELSE StalePinnedLines(tags, pin, chosen')
    BY <1>3 DEF Select
  <2>2. (pin # None)' = (pin # None) /\ (pin # None => pin.ver \in Seq(Nat) /\ pin.build \in Nat)'
    BY <1>1 DEF Chosen
  <2>3. (limit \in Nat)'
    BY <1>1 DEF Chosen
  <2>4. StalePinnedLines(tags, pin, chosen)' = StalePinnedLines(tags, pin, chosen')
    BY <1>1 DEF StalePinnedLines
  <2> QED
    BY <1>1, <1>2, <2>1, <2>2, <2>3, <2>4 DEF Chosen
<1>4. CASE UNCHANGED vars
  <2>1. StalePinnedLines(tags, pin, chosen)' = StalePinnedLines(tags, pin, chosen)
    BY <1>4 DEF StalePinnedLines, vars
  <2> QED
    BY <1>1, <1>2, <1>4, <2>1 DEF Chosen, vars
<1> QED
  BY <1>3, <1>4 DEF Next

LEMMA ChosenLines == ASSUME Chosen PROVE EndedLinesAreNamed
<1> DEFINE stable == Stable(tags)
           depth == LineDepth(stable)
           lines == Lines(stable, depth)
           supported == Supported(stable, depth)
           picked == {LineOf(t, depth) : t \in Picked}
<1>1. SUFFICES ASSUME chosen # None, depth # None
               PROVE  /\ picked \subseteq lines
                      /\ stale = {line \in picked : ~IsCurrent(stable, depth, line)}
                      /\ \A line \in stale : pin # None /\ ExtendsVersion(LineVersion(line), pin)
  BY Zenon DEF EndedLinesAreNamed, IsCurrent, Dated
<1>2. chosen = SelectTags(tags, limit, allowed, pin)
  BY <1>1 DEF Chosen
<1>3. Picked \in SUBSET Pool(tags, pin)
  <2>1. IsPick(chosen, FoldByDigest(Pool(tags, pin), allowed), limit)
    BY <1>2, SelectsFromPool DEF Chosen
  <2>2. FoldByDigest(Pool(tags, pin), allowed) \in SUBSET Pool(tags, pin)
    BY PoolIsRepository, OneNameIsLeft DEF Chosen, Allowed
  <2>3. chosen \in Seq(FoldByDigest(Pool(tags, pin), allowed))
    BY <2>1 DEF IsPick
  <2>4. ToSet(chosen) \in SUBSET FoldByDigest(Pool(tags, pin), allowed)
    BY <2>3 DEF ToSet
  <2> QED
    BY <1>1, <2>2, <2>4 DEF Picked
<1>4. picked \in SUBSET SupportedLines(stable, depth, pin)
  <2>1. \A t \in Pool(tags, pin) : LineOf(t, depth) \in SupportedLines(stable, depth, pin)
    BY <1>1, PoolIsSupported DEF Chosen
  <2> QED
    BY <1>3, <2>1
<1>5. supported \in SUBSET lines
      /\ \A line \in lines : line \in supported <=> IsCurrent(stable, depth, line)
  BY SupportedAreCurrent, StableAre DEF Chosen
<1>6. stale = IF pin = None THEN {}
              ELSE {line \in lines \ supported :
                      ExtendsVersion(LineVersion(line), pin) /\ line \in picked}
  <2>1. pin # None => stale = StalePinnedLines(tags, pin, chosen)
    BY <1>1 DEF Chosen
  <2>2. StalePinnedLines(tags, pin, chosen)
          = {line \in lines \ supported :
               /\ ExtendsVersion(LineVersion(line), pin)
               /\ \E t \in ToSet(chosen) : LineOf(t, depth) = line}
    BY <1>1, Zenon DEF StalePinnedLines
  <2>3. \A line : line \in picked <=> \E t \in ToSet(chosen) : LineOf(t, depth) = line
    BY <1>1 DEF Picked
  <2>4. pin = None => stale = {}
    BY <1>1 DEF Chosen
  <2> HIDE DEF stable, depth, lines, supported, picked
  <2> QED
    BY <2>1, <2>2, <2>3, <2>4
<1>7. SupportedLines(stable, depth, pin)
        = supported \union {line \in lines : pin # None /\ ExtendsVersion(LineVersion(line), pin)}
  BY Zenon DEF SupportedLines
<1> HIDE DEF stable, depth, lines, supported, picked
<1> QED
  BY <1>4, <1>5, <1>6, <1>7

(* A chosen tag is of a line that is not behind the others, or the user    *)
(* named its version and is warned; nothing else is warned about           *)
(* (stale_pinned_lines, search/tagselect.py).                              *)
THEOREM EndedLinesAreTold == Spec => []EndedLinesAreNamed
<1>1. Spec => []Chosen
  BY InitChosen, NextChosen, PTL DEF Spec
<1>2. Chosen => EndedLinesAreNamed
  BY ChosenLines
<1> QED
  BY <1>1, <1>2, PTL


-----------------------------------------------------------------------------
(* The tags are taken in turns: what is taken is earlier than what is not. *)
LEMMA TakenInTurns ==
  ASSUME NEW refs, IsRepository(refs), NEW depth \in Nat, NEW lines,
         IsGrouped(GroupLines(refs, depth), lines, refs, depth), NEW n \in Nat
  PROVE  LET queues == GroupLines(refs, depth)
         IN \E got \in SUBSET TurnsOf(queues) :
              /\ \A x \in got, y \in TurnsOf(queues) \ got : EarlierTurn(x, y)
              /\ \A t : t \in ToSet(InterleaveLines(queues, n)) <=>
                   \E x \in got : queues[x[1]][x[2]] = t
<1>1. PICK queues : queues = GroupLines(refs, depth) /\ IsGrouped(queues, lines, refs, depth)
  OBVIOUS
<1>2. PICK places : places = TurnsOf(queues)
  OBVIOUS
<1>3. /\ IsFiniteSet(places) /\ places \in SUBSET (Nat \X Nat)
      /\ \A x \in places : queues[x[1]][x[2]] \in refs
  BY <1>1, <1>2, TurnIsTag
<1>4. PICK turns : turns = InOrder(places, EarlierTurn)
  OBVIOUS
<1>5. PICK m \in Nat :
        /\ turns \in Seq(places) /\ ToSet(turns) = places
        /\ Len(turns) = m /\ DOMAIN turns = 1..m
        /\ \A k \in 1..m : turns[k] \in places
        /\ \A x \in places : \E k \in 1..m : turns[k] = x
        /\ \A k, l \in 1..m : k < l <=> <<turns[k], turns[l]>> \in TurnOrder(places)
  <2>1. IsListing(turns, places, TurnOrder(places))
    BY <1>3, <1>4, TurnsInOrder
  <2>2. PICK m \in Nat : m = Cardinality(places)
    BY <2>1 DEF IsListing
  <2>3. turns \in [1..m -> places] /\ turns \in Seq(places) /\ Len(turns) = m
    BY <2>1, <2>2 DEF IsListing
  <2> QED
    BY <2>1, <2>2, <2>3 DEF IsListing
<1>6. PICK s : s = [k \in DOMAIN turns |-> queues[turns[k][1]][turns[k][2]]]
  OBVIOUS
<1>7. InterleaveLines(queues, n) = Take(s, n)
  BY <1>2, <1>4, <1>6, Zenon DEF InterleaveLines, TurnsOf
<1>8. s \in [1..m -> refs] /\ \A k \in 1..m : s[k] = queues[turns[k][1]][turns[k][2]]
  BY <1>3, <1>5, <1>6, Zenon
<1>9. s \in Seq(refs) /\ Len(s) = m
  BY <1>8, ListIsSequence
<1>10. PICK most \in 0..m : most = IF m < n THEN m ELSE n
  OBVIOUS
<1>11. PICK first \in Seq(refs) : /\ first = Take(s, n) /\ Len(first) = most
                                  /\ \A k \in 1..most : first[k] = s[k]
  <2>1. PICK first : first = Take(s, n)
    OBVIOUS
  <2>2. /\ first \in Seq(refs) /\ Len(first) = IF m < n THEN m ELSE n
        /\ \A i \in 1..Len(first) : first[i] = s[i]
    BY <1>9, <2>1, TakenAre, Zenon
  <2>3. Len(first) = most
    BY <1>10, <2>2, Zenon
  <2> QED
    BY <2>1, <2>2, <2>3, Zenon
<1>12. ToSet(first) = {s[k] : k \in 1..most}
  BY <1>11 DEF ToSet
<1> DEFINE got == {turns[k] : k \in 1..most}
<1>13. 1..most \subseteq 1..m
  BY <1>10
<1>14. got \in SUBSET places
  BY <1>5, <1>13
<1>15. ASSUME NEW x \in got, NEW y \in places \ got
       PROVE  EarlierTurn(x, y)
  <2>1. PICK k \in 1..most : turns[k] = x
    OBVIOUS
  <2>2. PICK l \in 1..m : turns[l] = y
    BY <1>5
  <2>3. l \notin 1..most
    BY <1>15, <2>2
  <2>4. k \in 1..m /\ k < l
    BY <1>10, <1>13, <2>3
  <2>5. <<turns[k], turns[l]>> \in TurnOrder(places)
    BY <1>5, <2>4
  <2> QED
    BY <2>1, <2>2, <2>5 DEF TurnOrder
<1>16. \A t : t \in ToSet(first) <=> \E x \in got : queues[x[1]][x[2]] = t
  <2>1. ASSUME NEW k \in 1..most
        PROVE  turns[k] \in got /\ s[k] = queues[turns[k][1]][turns[k][2]]
    BY <1>8, <1>13
  <2>2. \A x \in got : \E k \in 1..most : x = turns[k]
    OBVIOUS
  <2> HIDE DEF got
  <2>3. ASSUME NEW t, t \in ToSet(first)
        PROVE  \E x \in got : queues[x[1]][x[2]] = t
    <3>1. PICK k \in 1..most : t = s[k]
      BY <1>12, <2>3
    <3> QED
      BY <2>1, <3>1, Zenon
  <2>4. ASSUME NEW x \in got
        PROVE  queues[x[1]][x[2]] \in ToSet(first)
    <3>1. PICK k \in 1..most : x = turns[k]
      BY <2>2
    <3>2. s[k] \in ToSet(first) /\ s[k] = queues[turns[k][1]][turns[k][2]]
      BY <1>12, <2>1
    <3> QED
      BY <3>1, <3>2, Zenon
  <2> QED
    BY <2>3, <2>4, Zenon
<1> HIDE DEF got
<1>17. \E some \in SUBSET TurnsOf(queues) :
         /\ \A x \in some, y \in TurnsOf(queues) \ some : EarlierTurn(x, y)
         /\ \A t : t \in ToSet(InterleaveLines(queues, n)) <=>
              \E x \in some : queues[x[1]][x[2]] = t
  BY <1>2, <1>7, <1>11, <1>14, <1>15, <1>16, Zenon
<1> QED
  BY <1>1, <1>17, Zenon

LEMMA InjectionBounds ==
  ASSUME NEW S, NEW T, IsFiniteSet(T), NEW f \in [S -> T],
         \A x, y \in S : f[x] = f[y] => x = y
  PROVE  /\ IsFiniteSet(S) /\ Cardinality(S) \in Nat /\ Cardinality(T) \in Nat
         /\ Cardinality(S) <= Cardinality(T)
<1>1. f \in Injection(S, T)
  BY Zenon DEF Injection, IsInjective
<1> QED
  BY <1>1, FS_Injection, FS_CardinalityType

LEMMA UpTo ==
  ASSUME NEW n \in Nat
  PROVE  IsFiniteSet(1..n) /\ Cardinality(1..n) = n
<1>1. /\ IsFiniteSet(1..n)
      /\ Cardinality(1..n) = IF 1 > n THEN 0 ELSE n - 1 + 1
  BY FS_Interval, 1 \in Int, n \in Int
<1> QED
  BY <1>1

(* A line with a tag left is not two behind, and not behind an older one.  *)
LEMMA LinesTakeTurns ==
  ASSUME NEW refs, IsRepository(refs), NEW depth \in Nat,
         \A t \in refs : LineOf(t, depth) # None, NEW n \in Nat,
         NEW picked, picked = ToSet(InterleaveLines(GroupLines(refs, depth), n)),
         NEW a \in LinesOf(refs, depth), NEW b \in LinesOf(refs, depth),
         OfLine(picked, depth, b) # OfLine(refs, depth, b)
  PROVE  Cardinality(OfLine(picked, depth, a)) - Cardinality(OfLine(picked, depth, b))
           <= IF NewerLine(b, a) THEN 0 ELSE 1
<1> DEFINE A == OfLine(picked, depth, a)
           B == OfLine(picked, depth, b)
<1>1. PICK queues, lines : queues = GroupLines(refs, depth) /\ IsGrouped(queues, lines, refs, depth)
  BY LinesAreGrouped
<1>2. PICK places : places = TurnsOf(queues)
  OBVIOUS
<1>3. PICK got \in SUBSET places :
        /\ \A x \in got, y \in places \ got : EarlierTurn(x, y)
        /\ \A t : t \in picked <=> \E x \in got : queues[x[1]][x[2]] = t
  BY <1>1, <1>2, TakenInTurns
<1>4. /\ \A x \in places : /\ queues[x[1]][x[2]] \in refs
                           /\ LineOf(queues[x[1]][x[2]], depth) = lines[x[1]]
      /\ \A x, y \in places : queues[x[1]][x[2]] = queues[y[1]][y[2]] => x = y
      /\ \A t \in refs : \E x \in places : queues[x[1]][x[2]] = t
  BY <1>1, <1>2, TurnIsTag
<1>5. /\ Len(lines) \in Nat
      /\ \A line \in LinesOf(refs, depth) : \E i \in 1..Len(lines) : lines[i] = line
      /\ \A i, j \in 1..Len(lines) : i < j <=> <<lines[i], lines[j]>> \in LineOrder(LinesOf(refs, depth))
      /\ \A i, j \in 1..Len(lines) : lines[i] = lines[j] => i = j
      /\ \A x : x \in places <=> /\ x = <<x[1], x[2]>>
                                 /\ x[1] \in 1..Len(lines) /\ x[2] \in DOMAIN queues[x[1]]
  <2>1. /\ ToSet(lines) = LinesOf(refs, depth)
        /\ DOMAIN lines = 1..Len(lines) /\ DOMAIN queues = 1..Len(lines)
    BY <1>1, LinesAreListed
  <2>2. \A line \in LinesOf(refs, depth) : \E i \in 1..Len(lines) : lines[i] = line
    BY <2>1 DEF ToSet
  <2>3. \A x : x \in places <=> /\ x = <<x[1], x[2]>>
                                /\ x[1] \in 1..Len(lines) /\ x[2] \in DOMAIN queues[x[1]]
    BY <1>2, <2>1 DEF TurnsOf
  <2>4. /\ Len(lines) \in Nat
        /\ \A i, j \in 1..Len(lines) :
             i < j <=> <<lines[i], lines[j]>> \in LineOrder(LinesOf(refs, depth))
        /\ \A i, j \in 1..Len(lines) : lines[i] = lines[j] => i = j
    BY <1>1, LinesAreListed
  <2> QED
    BY <2>2, <2>3, <2>4, Zenon
<1>6. PICK i, j \in 1..Len(lines) : a = lines[i] /\ b = lines[j]
  BY <1>5
<1>7. \A x \in got : x[1] \in Nat /\ x[2] \in Nat
  BY <1>1, <1>2, <1>3, TurnIsTag
<1>8. PICK left \in DOMAIN queues[j] :
        /\ <<j, left>> \notin got
        /\ \A k \in DOMAIN queues[j] : <<j, k>> \notin got => left <= k
  <2> DEFINE open == {k \in DOMAIN queues[j] : <<j, k>> \notin got}
  <2>1. open \in SUBSET Nat
    BY <1>1, QueueIsListed
  <2>2. open # {}
    <3>1. picked \subseteq refs
      BY <1>3, <1>4
    <3>2. PICK t \in refs : LineOf(t, depth) = b /\ t \notin picked
      BY <3>1 DEF OfLine
    <3>3. PICK x \in places : queues[x[1]][x[2]] = t
      BY <1>4, <3>2
    <3>4. lines[x[1]] = lines[j] /\ x[1] \in 1..Len(lines) /\ x[2] \in DOMAIN queues[x[1]]
          /\ x = <<x[1], x[2]>>
      BY <1>4, <1>5, <1>6, <3>2, <3>3
    <3>5. x[1] = j
      BY <1>5, <3>4
    <3>6. x \notin got
      BY <1>3, <3>2, <3>3
    <3>7. x[2] \in DOMAIN queues[j] /\ x = <<j, x[2]>>
      BY <3>4, <3>5
    <3>8. x[2] \in open
      BY <3>6, <3>7
    <3> QED
      BY <3>8
  <2> HIDE DEF open
  <2>3. PICK left \in open : \A k \in open : left <= k
    BY <2>1, <2>2, LeastExists
  <2> QED
    BY <2>3 DEF open
<1>9. left \in Nat \ {0} /\ \A k \in 1..(left - 1) : k \in DOMAIN queues[j] /\ <<j, k>> \in got
  <2>1. PICK m \in Nat : DOMAIN queues[j] = 1..m
    BY <1>1, QueueIsListed
  <2> QED
    BY <1>8, <2>1
<1>10. /\ left - 1 \in Nat /\ Cardinality(B) \in Nat
       /\ left - 1 <= Cardinality(B)
  <2> DEFINE f == [k \in 1..(left - 1) |-> queues[j][k]]
  <2>1. ASSUME NEW k \in 1..(left - 1)
        PROVE  queues[j][k] \in B
    <3>1. <<j, k>> \in got /\ queues[j][k] \in picked
      BY <1>3, <1>9
    <3>2. LineOf(queues[j][k], depth) = b
      BY <1>4, <1>6, <3>1
    <3> QED
      BY <3>1, <3>2 DEF OfLine
  <2>2. \A k, l \in 1..(left - 1) : queues[j][k] = queues[j][l] => k = l
    <3>1. \A k, l \in DOMAIN queues[j] : queues[j][k] = queues[j][l] => k = l
      BY <1>1, QueueIsListed
    <3> QED
      BY <1>9, <3>1, Zenon
  <2>3. f \in [1..(left - 1) -> B] /\ \A k, l \in 1..(left - 1) : f[k] = f[l] => k = l
    BY <2>1, <2>2
  <2> HIDE DEF f, B
  <2>4. IsFiniteSet(B)
    <3>1. B \in SUBSET refs
      BY <1>3, <1>4 DEF OfLine, B
    <3> QED
      BY <3>1, FS_Subset DEF IsRepository
  <2>5. left - 1 \in Nat
    BY <1>9
  <2>6. Cardinality(1..(left - 1)) = left - 1
    BY <2>5, UpTo
  <2> QED
    BY <2>3, <2>4, <2>5, <2>6, InjectionBounds
<1> DEFINE most == IF i < j THEN left ELSE left - 1
<1>11. /\ most \in Nat /\ Cardinality(A) \in Nat /\ Cardinality(A) <= most
  <2>1. most \in Nat
    BY <1>9
  <2> DEFINE f == [t \in A |-> CHOOSE k \in 1..most : <<i, k>> \in got /\ queues[i][k] = t]
  <2>2. ASSUME NEW t \in A
        PROVE  \E k \in 1..most : <<i, k>> \in got /\ queues[i][k] = t
    <3>1. PICK x \in got : queues[x[1]][x[2]] = t
      BY <1>3 DEF OfLine
    <3>2. lines[x[1]] = lines[i] /\ x[1] \in 1..Len(lines) /\ x[2] \in DOMAIN queues[x[1]]
          /\ x = <<x[1], x[2]>>
      BY <1>4, <1>5, <1>6, <3>1 DEF OfLine
    <3>3. x[1] = i
      BY <1>5, <3>2
    <3>4. PICK k : k = x[2]
      OBVIOUS
    <3>5. x = <<i, k>> /\ k \in DOMAIN queues[i] /\ k \in Nat
      BY <1>7, <3>2, <3>3, <3>4
    <3>6. k \in Nat \ {0}
      <4>1. PICK m \in Nat : DOMAIN queues[i] = 1..m
        BY <1>1, QueueIsListed
      <4> QED
        BY <3>5, <4>1
    <3>7. <<j, left>> \in places \ got
      BY <1>5, <1>8
    <3>8. EarlierTurn(<<i, k>>, <<j, left>>)
      BY <1>3, <3>5, <3>7
    <3>9. k < left \/ (k = left /\ i < j)
      BY <3>8 DEF EarlierTurn
    <3>10. k \in 1..most
      BY <1>9, <3>6, <3>9
    <3> QED
      BY <3>1, <3>3, <3>4, <3>5, <3>10
  <2> HIDE DEF most, A
  <2>3. \A t \in A : f[t] \in 1..most /\ queues[i][f[t]] = t
    BY <2>2
  <2>4. f \in [A -> 1..most]
    BY <2>3, Zenon
  <2> HIDE DEF f
  <2>5. \A t, u \in A : f[t] = f[u] => t = u
    BY <2>3, Zenon
  <2>6. IsFiniteSet(1..most) /\ Cardinality(1..most) = most
    BY <2>1, UpTo
  <2> QED
    BY <2>1, <2>4, <2>5, <2>6, InjectionBounds
<1>12. NewerLine(b, a) => j < i
  BY <1>5, <1>6 DEF LineOrder
<1> HIDE DEF A, B
<1>13. Cardinality(A) - Cardinality(B) <= IF NewerLine(b, a) THEN 0 ELSE 1
  BY <1>9, <1>10, <1>11, <1>12
<1> QED
  BY <1>13 DEF A, B

LEMMA AllAreFolded ==
  ASSUME Chosen
  PROVE  /\ ToSet(All) = FoldByDigest(Pool(tags, pin), allowed)
         /\ chosen # None => chosen = Take(All, limit)
         /\ chosen # None => Picked \in SUBSET ToSet(All)
<1>1. PICK list :
        /\ IsOnce(list, FoldByDigest(Pool(tags, pin), allowed))
        /\ \A n \in Nat : SelectTags(tags, n, allowed, pin) = Take(list, n)
  BY SelectsFromList DEF Chosen
<1>2. IsFiniteSet(tags)
  BY DEF Chosen, IsRepository
<1>3. FoldByDigest(Pool(tags, pin), allowed) \in SUBSET tags
  BY PoolIsRepository, OneNameIsLeft DEF Chosen, Allowed
<1>4. /\ Cardinality(tags) \in Nat
      /\ Cardinality(FoldByDigest(Pool(tags, pin), allowed)) <= Cardinality(tags)
  BY <1>2, <1>3, FS_Subset, FS_CardinalityType
<1>5. All = Take(list, Cardinality(tags))
  BY <1>1, <1>4 DEF All
<1>6. All = list
  BY <1>1, <1>4, <1>5, TakenFromList
<1>7. chosen # None => chosen = Take(list, limit) /\ chosen \in Seq(ToSet(list))
  <2>1. IsPick(Take(list, limit), FoldByDigest(Pool(tags, pin), allowed), limit)
    BY <1>1, TakenFromList DEF Chosen
  <2> QED
    BY <1>1, <2>1 DEF Chosen, IsPick, IsOnce
<1>8. chosen # None => ToSet(chosen) \in SUBSET ToSet(list)
  BY <1>7 DEF ToSet
<1> QED
  BY <1>1, <1>6, <1>7, <1>8 DEF IsOnce, Picked

(* If the version is finer than the lines all tags are of one line.        *)
LEMMA FinerIsOneLine ==
  ASSUME NEW refs, IsRepository(refs), NEW version, version # None,
         version.ver \in Seq(Nat), LineDepth(Stable(refs)) # None,
         FinerThanLines(version, Lines(Stable(refs), LineDepth(Stable(refs))))
  PROVE  \E line : \A t \in Pool(refs, version) : LineOf(t, LineDepth(Stable(refs))) = line
<1> DEFINE stable == Stable(refs)
           depth == LineDepth(stable)
           lines == Lines(stable, depth)
           fixed == {u \in stable : ExtendsVersion(version, u.name)}
<1>1. depth \in Nat /\ lines # {}
  BY LineDepthTyped
<1>2. IsRepository(stable)
  BY StableAre
<1>3. stable # {}
  BY <1>1 DEF Lines, AliasesAt
<1>4. Pool(refs, version) = fixed
  BY <1>3, Zenon DEF Pool
<1>5. PICK line \in lines : ExtendsVersion(LineVersion(line), version)
  BY DEF FinerThanLines
<1>6. line \in Seq(Nat) /\ Len(line) = depth
  <2> HIDE DEF stable, depth
  <2> QED
    BY <1>1, <1>2, LinesTyped
<1>7. ASSUME NEW t \in Pool(refs, version) PROVE LineOf(t, depth) = line
  <2>1. t \in stable /\ ExtendsVersion(version, t.name) /\ t.name \in Names
    BY <1>2, <1>4 DEF IsRepository
  <2> HIDE DEF stable, depth
  <2> QED
    BY <1>5, <1>6, <2>1, LineOfExtended
<1> QED
  BY <1>7

LEMMA ChosenFairly == ASSUME Chosen PROVE FairToLines
<1> DEFINE stable == Stable(tags)
           depth == LineDepth(stable)
           all == ToSet(All)
           kept == SupportedAliases(stable, depth, pin)
<1>1. SUFFICES ASSUME chosen # None, depth # None, kept # {},
                      NEW a \in LinesOf(all, depth), NEW b \in LinesOf(all, depth),
                      OfLine(Picked, depth, b) # OfLine(all, depth, b)
               PROVE  Cardinality(OfLine(Picked, depth, a)) - Cardinality(OfLine(Picked, depth, b))
                        <= IF NewerLine(b, a) THEN 0 ELSE 1
  BY Zenon DEF FairToLines, LinesOf, OfLine
<1>2. all = FoldByDigest(Pool(tags, pin), allowed) /\ Picked \in SUBSET all
  BY <1>1, AllAreFolded
<1>3. IsRepository(Pool(tags, pin)) /\ IsRepository(all) /\ all \in SUBSET Pool(tags, pin)
  BY <1>2, PoolIsRepository, OneNameIsLeft DEF Chosen, Allowed
<1>4. depth \in Nat /\ stable # {}
  <2>1. depth \in Nat /\ Lines(stable, depth) # {}
    BY <1>1, LineDepthTyped
  <2> QED
    BY <2>1 DEF Lines, AliasesAt
<1>5. CASE pin # None /\ FinerThanLines(pin, Lines(stable, depth))
  <2>1. PICK line : \A t \in Pool(tags, pin) : LineOf(t, depth) = line
    BY <1>1, <1>5, FinerIsOneLine DEF Chosen
  <2>2. a = b
    BY <1>3, <2>1 DEF LinesOf
  <2>3. OfLine(Picked, depth, a) \in SUBSET all
    BY <1>2 DEF OfLine
  <2>4. IsFiniteSet(OfLine(Picked, depth, a))
    BY <1>3, <2>3, FS_Subset DEF IsRepository
  <2>5. PICK n \in Nat : n = Cardinality(OfLine(Picked, depth, a))
    BY <2>4, FS_CardinalityType
  <2>6. n - n <= IF NewerLine(b, a) THEN 0 ELSE 1
    OBVIOUS
  <2> QED
    BY <2>2, <2>5, <2>6
<1>6. CASE ~(pin # None /\ FinerThanLines(pin, Lines(stable, depth)))
  <2>1. Pool(tags, pin) = kept
    BY <1>1, <1>4, <1>6, Zenon DEF Pool
  <2>2. SelectTags(tags, limit, allowed, pin)
          = InterleaveLines(GroupLines(FoldByDigest(kept, allowed), depth), limit)
    BY <1>1, <1>4, <1>6, Zenon DEF SelectTags
  <2>3. Picked = ToSet(InterleaveLines(GroupLines(all, depth), limit))
    BY <1>1, <1>2, <2>1, <2>2 DEF Picked, Chosen
  <2>4. \A t \in all : LineOf(t, depth) # None
    <3>1. \A t \in kept : t \in stable /\ IsAlias(t, depth)
      BY KeptAreAliases
    <3>2. \A t \in all : t.name \in Names
      BY <1>3 DEF IsRepository
    <3> HIDE DEF all, kept, depth
    <3> QED
      BY <1>3, <1>4, <2>1, <3>1, <3>2, AliasHasLine
  <2>5. limit \in Nat
    BY DEF Chosen
  <2> HIDE DEF all, kept, depth
  <2> QED
    BY <1>1, <1>3, <1>4, <2>3, <2>4, <2>5, LinesTakeTurns
<1> QED
  BY <1>5, <1>6

(* The lines of a repository share the limit: while one has a tag left no  *)
(* other is two ahead of it, nor one if it is older (_interleave_lines,    *)
(* search/tagselect.py).                                                   *)
THEOREM LinesShareTheLimit == Spec => []FairToLines
<1>1. Spec => []Chosen
  BY InitChosen, NextChosen, PTL DEF Spec
<1>2. Chosen => FairToLines
  BY ChosenFairly
<1> QED
  BY <1>1, <1>2, PTL


-----------------------------------------------------------------------------
(* What lines, the support gap and the pool see of a tag is its name and   *)
(* its day: two sets of tags with the same names and days look the same.   *)
Alike(t, u) == t.name = u.name /\ t.day = u.day

LookTheSame(refs, others) ==
  /\ \A t \in refs : \E u \in others : Alike(t, u)
  /\ \A u \in others : \E t \in refs : Alike(t, u)

LEMMA AlikeInLines ==
  ASSUME NEW t, NEW u, Alike(t, u), NEW depth
  PROVE  IsAlias(t, depth) = IsAlias(u, depth) /\ LineOf(t, depth) = LineOf(u, depth)
BY DEF Alike, IsAlias, LineOf

LEMMA SameLines ==
  ASSUME NEW refs, NEW others, LookTheSame(refs, others), NEW depth
  PROVE  Lines(refs, depth) = Lines(others, depth)
<1>1. ASSUME NEW line PROVE line \in Lines(refs, depth) <=> line \in Lines(others, depth)
  <2>1. ASSUME NEW t \in refs, IsAlias(t, depth)
        PROVE  \E u \in others : IsAlias(u, depth) /\ LineOf(u, depth) = LineOf(t, depth)
    <3>1. PICK u \in others : Alike(t, u)
      BY DEF LookTheSame
    <3> QED
      BY <2>1, <3>1, AlikeInLines
  <2>2. ASSUME NEW u \in others, IsAlias(u, depth)
        PROVE  \E t \in refs : IsAlias(t, depth) /\ LineOf(t, depth) = LineOf(u, depth)
    <3>1. PICK t \in refs : Alike(t, u)
      BY DEF LookTheSame
    <3> QED
      BY <2>2, <3>1, AlikeInLines
  <2> QED
    BY <2>1, <2>2 DEF Lines, AliasesAt
<1> QED
  BY <1>1

LEMMA SamePushes ==
  ASSUME NEW refs, NEW others, LookTheSame(refs, others), NEW depth, NEW line
  PROVE  LatestPush(refs, depth, line) = LatestPush(others, depth, line)
<1> DEFINE Days(some) == {t.day : t \in {u \in some : LineOf(u, depth) = line}} \ {None}
<1>1. Days(refs) = Days(others)
  <2>1. ASSUME NEW t \in refs, LineOf(t, depth) = line
        PROVE  \E u \in others : LineOf(u, depth) = line /\ u.day = t.day
    <3>1. PICK u \in others : Alike(t, u)
      BY DEF LookTheSame
    <3> QED
      BY <2>1, <3>1, AlikeInLines DEF Alike
  <2>2. ASSUME NEW u \in others, LineOf(u, depth) = line
        PROVE  \E t \in refs : LineOf(t, depth) = line /\ t.day = u.day
    <3>1. PICK t \in refs : Alike(t, u)
      BY DEF LookTheSame
    <3> QED
      BY <2>2, <3>1, AlikeInLines DEF Alike
  <2>3. \A d : d \in Days(refs) <=> d \in Days(others)
    BY <2>1, <2>2
  <2> QED
    BY <2>3
<1>2. \A some : LatestPush(some, depth, line)
                  = IF Days(some) = {} THEN None ELSE Max(Days(some))
  BY Zenon DEF LatestPush
<1> HIDE DEF Days
<1> QED
  BY <1>1, <1>2

LEMMA SameSupport ==
  ASSUME NEW refs, NEW others, LookTheSame(refs, others)
  PROVE  /\ LineDepth(refs) = LineDepth(others)
         /\ \A depth : Supported(refs, depth) = Supported(others, depth)
         /\ \A depth, version :
              SupportedLines(refs, depth, version) = SupportedLines(others, depth, version)
<1>1. \A depth : Lines(refs, depth) = Lines(others, depth)
  BY SameLines
<1>2. \A depth, line : LatestPush(refs, depth, line) = LatestPush(others, depth, line)
  BY SamePushes
<1>3. LineDepth(refs) = LineDepth(others)
  BY <1>1 DEF LineDepth
<1>4. ASSUME NEW depth
      PROVE  Supported(refs, depth) = Supported(others, depth)
  <2>1. [line \in Lines(refs, depth) |-> LatestPush(refs, depth, line)]
          = [line \in Lines(others, depth) |-> LatestPush(others, depth, line)]
    BY <1>1, <1>2
  <2> QED
    BY <2>1, Zenon DEF Supported
<1>5. ASSUME NEW depth, NEW version
      PROVE  SupportedLines(refs, depth, version) = SupportedLines(others, depth, version)
  BY <1>1, <1>4, Zenon DEF SupportedLines
<1> QED
  BY <1>3, <1>4, <1>5

LEMMA SameAliases ==
  ASSUME NEW refs, NEW others, LookTheSame(refs, others), NEW depth, NEW version
  PROVE  /\ LookTheSame(SupportedAliases(refs, depth, version),
                        SupportedAliases(others, depth, version))
         /\ \A t \in refs, u \in others : Alike(t, u) =>
              (t \in SupportedAliases(refs, depth, version)
                 <=> u \in SupportedAliases(others, depth, version))
<1> DEFINE Keeps(t, some) ==
             /\ IsAlias(t, depth) /\ LineOf(t, depth) \in SupportedLines(some, depth, version)
             /\ LatestPush(some, depth, LineOf(t, depth)) # None =>
                  t.day # None /\ LatestPush(some, depth, LineOf(t, depth)) - t.day <= SupportGap
<1>1. ASSUME NEW some, NEW t
      PROVE  t \in SupportedAliases(some, depth, version) <=> t \in some /\ Keeps(t, some)
  BY DEF SupportedAliases, DropStaleVariants, AliasesAt
<1>2. ASSUME NEW t, NEW u, Alike(t, u)
      PROVE  Keeps(t, refs) <=> Keeps(u, others)
  <2>1. /\ IsAlias(t, depth) = IsAlias(u, depth) /\ LineOf(t, depth) = LineOf(u, depth)
        /\ t.day = u.day
    BY <1>2, AlikeInLines DEF Alike
  <2>2. /\ SupportedLines(refs, depth, version) = SupportedLines(others, depth, version)
        /\ \A line : LatestPush(refs, depth, line) = LatestPush(others, depth, line)
    BY SameSupport, SamePushes
  <2> QED
    BY <2>1, <2>2
<1> HIDE DEF Keeps
<1> QED
  BY <1>1, <1>2 DEF LookTheSame


LEMMA SamePool ==
  ASSUME NEW refs, NEW others, LookTheSame(Stable(refs), Stable(others)), NEW version,
         NEW t \in Stable(refs), NEW u \in Stable(others), Alike(t, u)
  PROVE  t \in Pool(refs, version) <=> u \in Pool(others, version)
<1> DEFINE R == Stable(refs)
           Q == Stable(others)
           depth == LineDepth(R)
           In(x, some) == IF depth = None THEN TRUE
                          ELSE IF version # None /\ FinerThanLines(version, Lines(some, depth))
                               THEN ExtendsVersion(version, x.name)
                               ELSE IF SupportedAliases(some, depth, version) = {}
                               THEN LineOf(x, depth) \in SupportedLines(some, depth, version)
                               ELSE x \in SupportedAliases(some, depth, version)
<1>1. depth = LineDepth(Q)
  BY SameSupport
<1>2. t \in Pool(refs, version) <=> In(t, R)
  <2>1. SupportedAliases(R, depth, version) \subseteq R
    BY KeptAreAliases
  <2>2. Pool(refs, version)
          = IF depth = None THEN R
            ELSE IF version # None /\ FinerThanLines(version, Lines(R, depth))
                 THEN {x \in R : ExtendsVersion(version, x.name)}
                 ELSE IF SupportedAliases(R, depth, version) = {}
                 THEN {x \in R : LineOf(x, depth) \in SupportedLines(R, depth, version)}
                 ELSE SupportedAliases(R, depth, version)
    BY Zenon DEF Pool
  <2> HIDE DEF R, Q, depth
  <2> QED
    BY <2>2 DEF R
<1>3. u \in Pool(others, version) <=> In(u, Q)
  <2>1. Pool(others, version)
          = IF depth = None THEN Q
            ELSE IF version # None /\ FinerThanLines(version, Lines(Q, depth))
                 THEN {x \in Q : ExtendsVersion(version, x.name)}
                 ELSE IF SupportedAliases(Q, depth, version) = {}
                 THEN {x \in Q : LineOf(x, depth) \in SupportedLines(Q, depth, version)}
                 ELSE SupportedAliases(Q, depth, version)
    BY <1>1, Zenon DEF Pool
  <2> HIDE DEF R, Q, depth
  <2> QED
    BY <2>1 DEF Q
<1> HIDE DEF depth
<1>4. Lines(R, depth) = Lines(Q, depth)
  BY SameLines
<1>5. SupportedLines(R, depth, version) = SupportedLines(Q, depth, version)
  BY SameSupport
<1>6. /\ SupportedAliases(R, depth, version) = {} <=> SupportedAliases(Q, depth, version) = {}
      /\ t \in SupportedAliases(R, depth, version) <=> u \in SupportedAliases(Q, depth, version)
  <2>1. /\ LookTheSame(SupportedAliases(R, depth, version), SupportedAliases(Q, depth, version))
        /\ t \in SupportedAliases(R, depth, version) <=> u \in SupportedAliases(Q, depth, version)
    BY SameAliases
  <2> QED
    BY <2>1 DEF LookTheSame
<1>7. LineOf(t, depth) = LineOf(u, depth) /\ t.name = u.name
  BY AlikeInLines DEF Alike
<1>8. In(t, R) <=> In(u, Q)
  <2> HIDE DEF R, Q
  <2> QED
    BY <1>4, <1>5, <1>6, <1>7, Zenon
<1> QED
  BY <1>2, <1>3, <1>8

(* A tag that shares its image with no excluded name, alone with its name. *)
LEMMA AnonymousIsAlike ==
  ASSUME NEW refs, IsRepository(refs), NEW t \in refs
  PROVE  Anonymous(t).name = t.name /\ Anonymous(t).day = t.day /\ Anonymous(t).digest = None
BY DEF Anonymous, IsRepository

LEMMA AloneIsRepository ==
  ASSUME NEW refs, IsRepository(refs), NEW t \in refs, NEW u \in {t, Anonymous(t)}
  PROVE  IsRepository((refs \ {t}) \union {u}) /\ Alike(t, u)
<1> DEFINE others == (refs \ {t}) \union {u}
<1>1. Alike(t, u)
  BY AnonymousIsAlike DEF Alike
<1>2. DOMAIN u = DOMAIN t
  BY DEF Anonymous
<1>3. IsFiniteSet(others)
  <2>1. IsFiniteSet(refs \ {t})
    BY FS_Subset DEF IsRepository
  <2> QED
    BY <2>1, FS_AddElement
<1>4. ASSUME NEW x \in others
      PROVE  /\ {"name", "digest", "day"} \subseteq DOMAIN x
             /\ x.name \in Names /\ x.day \in Nat \union {None}
  <2>1. x \in refs \/ x = u
    OBVIOUS
  <2> QED
    BY <1>1, <1>2, <2>1, Zenon DEF Alike, IsRepository
<1>5. ASSUME NEW x \in others, NEW y \in others, x.name.alpha = y.name.alpha
      PROVE  x = y
  <2>1. \A v, w \in refs : v.name.alpha = w.name.alpha => v = w
    BY DEF IsRepository
  <2>2. u.name = t.name
    BY <1>1 DEF Alike
  <2>3. \A v \in others : v = u \/ (v \in refs /\ v # t)
    OBVIOUS
  <2>4. CASE x = u /\ y = u
    BY <2>4
  <2>5. CASE x = u /\ y # u
    BY <1>5, <2>1, <2>2, <2>3, <2>5, Zenon
  <2>6. CASE x # u /\ y = u
    BY <1>5, <2>1, <2>2, <2>3, <2>6, Zenon
  <2>7. CASE x # u /\ y # u
    BY <1>5, <2>1, <2>3, <2>7, Zenon
  <2> QED
    BY <2>4, <2>5, <2>6, <2>7
<1> HIDE DEF others
<1>6. IsRepository(others)
  BY <1>3, <1>4, <1>5, Zenon DEF IsRepository
<1> QED
  BY <1>1, <1>6 DEF others

(* A good tag is a stable one, in its repository and in the one where its  *)
(* digest is unknown; for the other tags nothing changes.                  *)
LEMMA GoodIsStable ==
  ASSUME Chosen, NEW t \in tags, Good(t), NEW others, NEW u,
         u = Anonymous(t), others = (tags \ {t}) \union {u}
  PROVE  /\ t \in Stable(tags) /\ u \in Stable(others)
         /\ LookTheSame(Stable(tags), Stable(others))
<1>1. IsRepository(tags)
  BY DEF Chosen
<1>2. u.name = t.name /\ u.day = t.day /\ u.digest = None
  BY <1>1, AnonymousIsAlike
<1>3. t.name.kind # "windows" /\ t.name.kind # "prerelease"
  BY DEF Good, Named, SameImage
<1>4. \A v \in tags : v.name.kind \in {"windows", "prerelease"} => ~SameImage(t, v)
  BY DEF Good, Named
<1>5. \A v : v \in others <=> v = u \/ (v \in tags /\ v # t)
  OBVIOUS
<1>6. \A v : v.name.kind \in {"windows", "prerelease"} => (v \in others <=> v \in tags)
  BY <1>2, <1>3, <1>5
<1>7. \A v \in others : v.name.kind \in {"windows", "prerelease"} => ~SameImage(u, v)
  BY <1>2, <1>3, <1>5 DEF SameImage
<1>8. \A refs, v : v \in ExcludeWindowsOnly(refs) <=>
        v \in refs /\ \A w \in refs : w.name.kind = "windows" => ~SameImage(v, w)
  BY DEF ExcludeWindowsOnly, ExcludeWithDigest
<1>9. \A refs, v : v \in Stable(refs) <=>
        /\ v \in ExcludeWindowsOnly(refs)
        /\ \A w \in ExcludeWindowsOnly(refs) : w.name.kind = "prerelease" => ~SameImage(v, w)
  BY DEF Stable, ExcludePrerelease, ExcludeWithDigest
<1>10. t \in Stable(tags)
  BY <1>4, <1>8, <1>9
<1>11. u \in Stable(others)
  BY <1>5, <1>7, <1>8, <1>9
<1>12. \A v : v \in tags /\ v \in others =>
         (v \in ExcludeWindowsOnly(tags) <=> v \in ExcludeWindowsOnly(others))
  BY <1>6, <1>8
<1>13. \A v : v.name.kind = "prerelease" =>
         (v \in ExcludeWindowsOnly(tags) <=> v \in ExcludeWindowsOnly(others))
  BY <1>6, <1>8, <1>12
<1>14. \A v : v \in tags /\ v \in others => (v \in Stable(tags) <=> v \in Stable(others))
  BY <1>9, <1>12, <1>13
<1>15. ASSUME NEW v \in Stable(tags)
       PROVE  \E w \in Stable(others) : Alike(v, w)
  <2>1. v \in tags
    BY <1>8, <1>9
  <2>2. CASE v = t
    BY <1>2, <1>11, <2>2 DEF Alike
  <2>3. CASE v # t
    BY <1>5, <1>14, <2>1, <2>3 DEF Alike
  <2> QED
    BY <2>2, <2>3
<1>16. ASSUME NEW w \in Stable(others)
       PROVE  \E v \in Stable(tags) : Alike(v, w)
  <2>1. w \in others
    BY <1>8, <1>9
  <2>2. CASE w = u
    BY <1>2, <1>10, <2>2 DEF Alike
  <2>3. CASE w # u
    BY <1>5, <1>14, <2>1, <2>3 DEF Alike
  <2> QED
    BY <2>2, <2>3
<1> QED
  BY <1>10, <1>11, <1>15, <1>16 DEF LookTheSame

(* Alone, a tag is selected if it is in the pool of the repository.        *)
LEMMA AloneIsInPool ==
  ASSUME Chosen, NEW t \in tags, NEW u,
         u = IF Good(t) THEN Anonymous(t) ELSE t
  PROVE  SelectTags((tags \ {t}) \union {u}, Cardinality(tags), {u}, pin) # <<>>
           <=> t \in Pool(tags, pin)
<1> DEFINE others == (tags \ {t}) \union {u}
           pool == Pool(others, pin)
<1>1. IsRepository(tags) /\ NoneIsOther(tags)
  BY DEF Chosen
<1>2. IsRepository(others) /\ Alike(t, u)
  BY <1>1, AloneIsRepository
<1>3. {u} # None
  <2>1. {u} \in (SUBSET tags) \union {{Anonymous(v)} : v \in tags}
    <3>1. CASE u = t
      BY <3>1
    <3>2. CASE u = Anonymous(t)
      <4>1. {Anonymous(t)} \in {{Anonymous(v)} : v \in tags}
        OBVIOUS
      <4>2. {u} = {Anonymous(t)}
        BY <3>2
      <4> QED
        BY <4>1, <4>2, Zenon
    <3> QED
      BY <3>1, <3>2
  <2> QED
    BY <1>1, <2>1, Zenon DEF NoneIsOther
<1>4. PICK n \in Nat : n = Cardinality(tags) /\ n # 0
  <2>1. IsFiniteSet(tags)
    BY <1>1 DEF IsRepository
  <2> QED
    BY <2>1, FS_CardinalityType, FS_EmptySet
<1>5. u \in pool <=> t \in Pool(tags, pin)
  <2>1. CASE Good(t)
    BY <1>2, <2>1, GoodIsStable, SamePool
  <2>2. CASE ~Good(t)
    <3>1. others = tags /\ u = t
      BY <2>2
    <3> QED
      BY <3>1
  <2> QED
    BY <2>1, <2>2
<1>6. IsRepository(pool)
  BY <1>2, PoolIsRepository
<1> HIDE DEF pool
<1>7. Allowed(pool, {u}) = IF u \in pool THEN {u} ELSE {}
  BY <1>3 DEF Allowed
<1>8. FoldByDigest(pool, {u}) # {} <=> u \in pool
  BY <1>6, <1>7, OneNameIsLeft
<1>9. IsPick(SelectTags(others, n, {u}, pin), FoldByDigest(pool, {u}), n)
  BY <1>2, SelectsFromPool DEF pool
<1>10. SelectTags(others, n, {u}, pin) # <<>> <=> u \in pool
  BY <1>4, <1>8, <1>9 DEF IsPick
<1> QED
  BY <1>4, <1>5, <1>10

(* Of the allowed tags of one image the one with the shortest name is left.*)
LEMMA ShortestIsLeft ==
  ASSUME NEW refs, IsRepository(refs), NEW ids, NEW t \in Allowed(refs, ids)
  PROVE  \E u \in FoldByDigest(refs, ids) : SameImage(t, u) /\ ~ShorterName(t, u)
<1> DEFINE some == Allowed(refs, ids)
           image == {u \in some : SameImage(t, u)}
<1>1. image \in SUBSET refs /\ t \in image
  BY DEF Allowed, SameImage
<1>2. PICK first \in image : \A u \in image : first = u \/ ShorterName(first, u)
  <2>1. IsRepository(image)
    BY <1>1, SubRepository
  <2> HIDE DEF image
  <2> QED
    BY <1>1, <2>1, OneIsFirst
<1>3. \A u \in some : SameImage(first, u) => u \in image
  BY <1>1, <1>2 DEF SameImage
<1>4. first \in FoldByDigest(refs, ids)
  BY <1>2, <1>3 DEF FoldByDigest
<1>5. ~ShorterName(t, first)
  <2>1. /\ t.name.size \in Nat /\ t.name.alpha \in Nat
        /\ first.name.size \in Nat /\ first.name.alpha \in Nat
    <3>1. t \in refs /\ first \in refs
      BY <1>1
    <3>2. t.name \in Names /\ first.name \in Names
      BY <3>1 DEF IsRepository
    <3> QED
      BY <3>2 DEF Names
  <2>2. first = t \/ ShorterName(first, t)
    BY <1>1, <1>2
  <2> QED
    BY <2>1, <2>2 DEF ShorterName
<1> QED
  BY <1>2, <1>4, <1>5

LEMMA ChosenIndependently == ASSUME Chosen PROVE IndependentChoice
<1> DEFINE n == Cardinality(tags)
           anonymous(t) == IF Good(t) THEN Anonymous(t) ELSE t
           alone(t) == SelectTags((tags \ {t}) \union {anonymous(t)}, n, {anonymous(t)}, pin) # <<>>
           able == {t \in Asked : alone(t)}
           pool == Pool(tags, pin)
<1>1. SUFFICES ASSUME chosen # None
               PROVE  /\ chosen = Take(All, limit)
                      /\ ToSet(All) \subseteq able
                      /\ \A t \in able : \E u \in ToSet(All) : SameImage(t, u) /\ ~ShorterName(t, u)
  BY Zenon DEF IndependentChoice
<1>2. ToSet(All) = FoldByDigest(pool, allowed) /\ chosen = Take(All, limit)
  BY <1>1, AllAreFolded
<1>3. IsRepository(pool) /\ pool \in SUBSET tags
  BY PoolIsRepository DEF Chosen
<1>4. \A t \in tags : alone(t) <=> t \in pool
  <2>1. TAKE t \in tags
  <2>2. PICK u : u = anonymous(t)
    OBVIOUS
  <2>3. SelectTags((tags \ {t}) \union {u}, n, {u}, pin) # <<>> <=> t \in pool
    BY <2>2, AloneIsInPool
  <2> QED
    BY <2>2, <2>3, Zenon
<1> HIDE DEF alone, pool
<1>5. able = Allowed(pool, allowed)
  BY <1>3, <1>4 DEF Asked, Allowed
<1>6. FoldByDigest(pool, allowed) \in SUBSET Allowed(pool, allowed)
  BY <1>3, OneNameIsLeft
<1>7. \A t \in Allowed(pool, allowed) :
        \E u \in FoldByDigest(pool, allowed) : SameImage(t, u) /\ ~ShorterName(t, u)
  BY <1>3, ShortestIsLeft
<1> QED
  BY <1>2, <1>5, <1>6, <1>7

(* Which images have a candidate depends on the repository and the version *)
(* alone: a tag is no candidate because of another one that meets the      *)
(* conditions or shares its image, and of every image with a tag that may  *)
(* be selected the shortest such name is (select_tags and _fold_by_digest, *)
(* search/tagselect.py).                                                   *)
THEOREM ChoiceIsIndependent == Spec => []IndependentChoice
<1>1. Spec => []Chosen
  BY InitChosen, NextChosen, PTL DEF Spec
<1>2. Chosen => IndependentChoice
  BY ChosenIndependently
<1> QED
  BY <1>1, <1>2, PTL


-----------------------------------------------------------------------------
(* Conditions without the first k: size, distributions, architectures,     *)
(* version.                                                                *)
Order == <<"size", "distribution", "architecture", "version">>

Less(conds, k) == [version |-> IF k >= 4 THEN None ELSE conds.version,
                   archs |-> IF k >= 3 THEN <<>> ELSE conds.archs,
                   dists |-> IF k >= 2 THEN {} ELSE conds.dists,
                   excluded |-> IF k >= 2 THEN {} ELSE conds.excluded,
                   size |-> IF k >= 1 THEN None ELSE conds.size]

IsAbsent(i, conds) ==
  /\ i = 1 => conds.size = None
  /\ i = 2 => conds.dists = {} /\ conds.excluded = {}
  /\ i = 3 => conds.archs = <<>>
  /\ i = 4 => conds.version = None

LEMMA LessIsConditions ==
  ASSUME NEW conds, AreConditions(conds), NEW k \in 0..4
  PROVE  AreConditions(Less(conds, k))
<1>1. PICK less : less = Less(conds, k)
  OBVIOUS
<1>2. /\ less = [version |-> less.version, archs |-> less.archs, dists |-> less.dists,
                 excluded |-> less.excluded, size |-> less.size]
      /\ less.archs = (IF k >= 3 THEN <<>> ELSE conds.archs)
      /\ less.dists = (IF k >= 2 THEN {} ELSE conds.dists)
      /\ less.excluded = (IF k >= 2 THEN {} ELSE conds.excluded)
      /\ less.size = (IF k >= 1 THEN None ELSE conds.size)
  BY <1>1 DEF Less
<1>3. <<>> \in Seq(ToSet(<<>>))
  OBVIOUS
<1>4. less.archs \in Seq(ToSet(less.archs))
  BY <1>2, <1>3 DEF AreConditions
<1> QED
  BY <1>1, <1>2, <1>4 DEF AreConditions

(* The next conditions are those without the weakest that is there.        *)
LEMMA WeakestIsNext ==
  ASSUME NEW conds, AreConditions(conds), NEW m \in 0..4, Less(conds, m) # NoConditions
  PROVE  \E k \in 1..4 :
           /\ m < k /\ \A i \in (m + 1)..(k - 1) : IsAbsent(i, conds)
           /\ RelaxWeakest(Less(conds, m))[1] = Order[k]
           /\ RelaxWeakest(Less(conds, m))[2] = Less(conds, k)
           /\ \A j \in m..(k - 1) : Less(conds, j) = Less(conds, m)
<1>1. PICK s : s = Less(conds, m)
  OBVIOUS
<1>2. /\ s = [version |-> s.version, archs |-> s.archs, dists |-> s.dists,
              excluded |-> s.excluded, size |-> s.size]
      /\ s.version = (IF m >= 4 THEN None ELSE conds.version)
      /\ s.archs = (IF m >= 3 THEN <<>> ELSE conds.archs)
      /\ s.dists = (IF m >= 2 THEN {} ELSE conds.dists)
      /\ s.excluded = (IF m >= 2 THEN {} ELSE conds.excluded)
      /\ s.size = (IF m >= 1 THEN None ELSE conds.size)
  BY <1>1 DEF Less
<1>3. CASE s.size # None
  <2>1. m = 0 /\ \A i \in (m + 1)..(1 - 1) : IsAbsent(i, conds)
    BY <1>2, <1>3
  <2>2. RelaxWeakest(s) = <<"size", [s EXCEPT !.size = None]>>
    BY <1>3 DEF RelaxWeakest
  <2>3. [s EXCEPT !.size = None] = Less(conds, 1)
    BY <1>2, <2>1 DEF Less
  <2>4. \A j \in m..(1 - 1) : Less(conds, j) = Less(conds, m)
    BY <2>1
  <2> QED
    BY <1>1, <2>1, <2>2, <2>3, <2>4 DEF Order
<1>4. CASE s.size = None /\ (s.dists # {} \/ s.excluded # {})
  <2>1. m \in 0..1 /\ \A i \in (m + 1)..(2 - 1) : IsAbsent(i, conds)
    BY <1>2, <1>4 DEF IsAbsent
  <2>2. RelaxWeakest(s) = <<"distribution", [s EXCEPT !.dists = {}, !.excluded = {}]>>
    BY <1>4 DEF RelaxWeakest
  <2>3. [s EXCEPT !.dists = {}, !.excluded = {}] = Less(conds, 2)
    <3>1. PICK l : l = Less(conds, 2)
      OBVIOUS
    <3>2. l = [version |-> conds.version, archs |-> conds.archs, dists |-> {}, excluded |-> {}, size |-> None]
      BY <3>1 DEF Less
    <3>3. s.version = conds.version /\ s.archs = conds.archs
      BY <1>2, <2>1
    <3>4. [s EXCEPT !.dists = {}, !.excluded = {}]
            = [version |-> s.version, archs |-> s.archs, dists |-> {}, excluded |-> {}, size |-> s.size]
      <4>1. PICK d : d = [s EXCEPT !.dists = {}]
        OBVIOUS
      <4>2. d = [version |-> s.version, archs |-> s.archs, dists |-> {}, excluded |-> s.excluded,
                 size |-> s.size]
        BY <1>2, <4>1
      <4>3. [s EXCEPT !.dists = {}, !.excluded = {}] = [d EXCEPT !.excluded = {}]
        BY <4>1
      <4> QED
        BY <4>2, <4>3
    <3> QED
      BY <1>4, <3>1, <3>2, <3>3, <3>4
  <2>4. ASSUME NEW j \in m..(2 - 1) PROVE Less(conds, j) = s
    <3>1. PICK l : l = Less(conds, j)
      OBVIOUS
    <3>2. j \in 0..1 /\ m <= j
      BY <2>1
    <3>3. /\ l = [version |-> l.version, archs |-> l.archs, dists |-> l.dists,
                  excluded |-> l.excluded, size |-> l.size]
          /\ l.version = conds.version
          /\ l.archs = (IF j >= 3 THEN <<>> ELSE conds.archs)
          /\ l.dists = (IF j >= 2 THEN {} ELSE conds.dists)
          /\ l.excluded = (IF j >= 2 THEN {} ELSE conds.excluded)
          /\ l.size = (IF j >= 1 THEN None ELSE conds.size)
      BY <3>1, <3>2 DEF Less
    <3>4. l.version = s.version
      BY <1>2, <2>1, <3>3
    <3>5. l.archs = s.archs
      BY <1>2, <1>4, <2>1, <3>2, <3>3
    <3>6. l.dists = s.dists
      BY <1>2, <1>4, <2>1, <3>2, <3>3
    <3>7. l.excluded = s.excluded
      BY <1>2, <1>4, <2>1, <3>2, <3>3
    <3>8. l.size = s.size
      BY <1>2, <1>4, <2>1, <3>2, <3>3
    <3> QED
      BY <1>2, <3>1, <3>3, <3>4, <3>5, <3>6, <3>7, <3>8
  <2> QED
    BY <1>1, <2>1, <2>2, <2>3, <2>4 DEF Order
<1>5. CASE s.size = None /\ s.dists = {} /\ s.excluded = {} /\ s.archs # <<>>
  <2>1. m \in 0..2 /\ \A i \in (m + 1)..(3 - 1) : IsAbsent(i, conds)
    BY <1>2, <1>5 DEF IsAbsent
  <2>2. RelaxWeakest(s) = <<"architecture", [s EXCEPT !.archs = <<>>]>>
    BY <1>5 DEF RelaxWeakest
  <2>3. [s EXCEPT !.archs = <<>>] = Less(conds, 3)
    <3>1. PICK l : l = Less(conds, 3)
      OBVIOUS
    <3>2. l = [version |-> conds.version, archs |-> <<>>, dists |-> {}, excluded |-> {}, size |-> None]
      BY <3>1 DEF Less
    <3>3. s.version = conds.version
      BY <1>2, <2>1
    <3>4. [s EXCEPT !.archs = <<>>]
            = [version |-> s.version, archs |-> <<>>, dists |-> s.dists, excluded |-> s.excluded, size |-> s.size]
      <4>1. s = [version |-> s.version, archs |-> s.archs, dists |-> s.dists,
                 excluded |-> s.excluded, size |-> s.size]
        BY <1>2
      <4> QED
        BY <4>1
    <3> QED
      BY <1>5, <3>1, <3>2, <3>3, <3>4
  <2>4. ASSUME NEW j \in m..(3 - 1) PROVE Less(conds, j) = s
    <3>1. PICK l : l = Less(conds, j)
      OBVIOUS
    <3>2. j \in 0..2 /\ m <= j
      BY <2>1
    <3>3. /\ l = [version |-> l.version, archs |-> l.archs, dists |-> l.dists,
                  excluded |-> l.excluded, size |-> l.size]
          /\ l.version = conds.version
          /\ l.archs = (IF j >= 3 THEN <<>> ELSE conds.archs)
          /\ l.dists = (IF j >= 2 THEN {} ELSE conds.dists)
          /\ l.excluded = (IF j >= 2 THEN {} ELSE conds.excluded)
          /\ l.size = (IF j >= 1 THEN None ELSE conds.size)
      BY <3>1, <3>2 DEF Less
    <3>4. l.version = s.version
      BY <1>2, <2>1, <3>3
    <3>5. l.archs = s.archs
      BY <1>2, <1>5, <2>1, <3>2, <3>3
    <3>6. l.dists = s.dists
      <4>1. CASE j >= 2
        BY <1>5, <3>3, <4>1
      <4>2. CASE ~(j >= 2)
        <5>1. ~(m >= 2)
          BY <2>1, <3>2, <4>2
        <5> QED
          BY <1>2, <3>3, <4>2, <5>1
      <4> QED
        BY <4>1, <4>2
    <3>7. l.excluded = s.excluded
      <4>1. CASE j >= 2
        BY <1>5, <3>3, <4>1
      <4>2. CASE ~(j >= 2)
        <5>1. ~(m >= 2)
          BY <2>1, <3>2, <4>2
        <5> QED
          BY <1>2, <3>3, <4>2, <5>1
      <4> QED
        BY <4>1, <4>2
    <3>8. l.size = s.size
      BY <1>2, <1>5, <2>1, <3>2, <3>3
    <3> QED
      BY <1>2, <3>1, <3>3, <3>4, <3>5, <3>6, <3>7, <3>8
  <2> QED
    BY <1>1, <2>1, <2>2, <2>3, <2>4 DEF Order
<1>6. CASE s.size = None /\ s.dists = {} /\ s.excluded = {} /\ s.archs = <<>>
  <2>1. s.version # None
    BY <1>1, <1>2, <1>6 DEF NoConditions
  <2>2. m \in 0..3 /\ \A i \in (m + 1)..(4 - 1) : IsAbsent(i, conds)
    BY <1>2, <1>6, <2>1 DEF IsAbsent
  <2>3. RelaxWeakest(s) = <<"version", [s EXCEPT !.version = None]>>
    BY <1>6 DEF RelaxWeakest
  <2>4. [s EXCEPT !.version = None] = Less(conds, 4)
    <3>1. PICK l : l = Less(conds, 4)
      OBVIOUS
    <3>2. l = [version |-> None, archs |-> <<>>, dists |-> {}, excluded |-> {}, size |-> None]
      BY <3>1 DEF Less
    <3>3. [s EXCEPT !.version = None]
            = [version |-> None, archs |-> s.archs, dists |-> s.dists, excluded |-> s.excluded, size |-> s.size]
      <4>1. s = [version |-> s.version, archs |-> s.archs, dists |-> s.dists,
                 excluded |-> s.excluded, size |-> s.size]
        BY <1>2
      <4> QED
        BY <4>1
    <3> QED
      BY <1>6, <3>1, <3>2, <3>3
  <2>5. ASSUME NEW j \in m..(4 - 1) PROVE Less(conds, j) = s
    <3>1. PICK l : l = Less(conds, j)
      OBVIOUS
    <3>2. j \in 0..3 /\ m <= j
      BY <2>2
    <3>3. /\ l = [version |-> l.version, archs |-> l.archs, dists |-> l.dists,
                  excluded |-> l.excluded, size |-> l.size]
          /\ l.version = conds.version
          /\ l.archs = (IF j >= 3 THEN <<>> ELSE conds.archs)
          /\ l.dists = (IF j >= 2 THEN {} ELSE conds.dists)
          /\ l.excluded = (IF j >= 2 THEN {} ELSE conds.excluded)
          /\ l.size = (IF j >= 1 THEN None ELSE conds.size)
      BY <3>1, <3>2 DEF Less
    <3>4. l.version = s.version
      BY <1>2, <2>2, <3>3
    <3>5. l.archs = s.archs
      BY <1>2, <1>6, <2>2, <3>2, <3>3
    <3>6. l.dists = s.dists
      <4>1. CASE j >= 2
        BY <1>6, <3>3, <4>1
      <4>2. CASE ~(j >= 2)
        <5>1. ~(m >= 2)
          BY <2>2, <3>2, <4>2
        <5> QED
          BY <1>2, <3>3, <4>2, <5>1
      <4> QED
        BY <4>1, <4>2
    <3>7. l.excluded = s.excluded
      <4>1. CASE j >= 2
        BY <1>6, <3>3, <4>1
      <4>2. CASE ~(j >= 2)
        <5>1. ~(m >= 2)
          BY <2>2, <3>2, <4>2
        <5> QED
          BY <1>2, <3>3, <4>2, <5>1
      <4> QED
        BY <4>1, <4>2
    <3>8. l.size = s.size
      BY <1>2, <1>6, <2>2, <3>2, <3>3
    <3> QED
      BY <1>2, <3>1, <3>3, <3>4, <3>5, <3>6, <3>7, <3>8
  <2> QED
    BY <1>1, <2>2, <2>3, <2>4, <2>5 DEF Order
<1> QED
  BY <1>3, <1>4, <1>5, <1>6


-----------------------------------------------------------------------------
(* What the evaluation says meets the conditions passes the filters of the *)
(* search, and the other way round for all but the distributions.          *)
LEMMA MeansTheSame ==
  ASSUME NEW conds, AreConditions(conds), NEW t, NEW col,
         \A p \in t.linux : p.size \in Nat
  PROVE  ConditionsSatisfied(conds, t, col)
           <=> /\ Avoids(t, col, conds.excluded)
               /\ FitsVersion(t, col, conds.version)
               /\ \A a \in ToSet(conds.archs) : LinuxVariant(t, a, None)
               /\ conds.size # None =>
                    LinuxVariant(t, IF conds.archs = <<>> THEN "amd64" ELSE Head(conds.archs),
                                 conds.size)
<1> DEFINE derived == {col.distribution, col.codename} \ {None}
           judged == IF conds.archs = <<>> THEN "amd64" ELSE Head(conds.archs)
           sizes == {p.size : p \in {q \in t.linux : q.arch = judged}}
<1>1. (\A i \in DOMAIN conds.archs : \E p \in t.linux : p.arch = conds.archs[i])
        <=> \A a \in ToSet(conds.archs) : LinuxVariant(t, a, None)
  BY DEF ToSet, LinuxVariant
<1>2. (\A v \in conds.excluded : IF derived # {} THEN v \notin derived ELSE ~NameContains(t, v))
        <=> Avoids(t, col, conds.excluded)
  <2>1. ASSUME NEW v \in conds.excluded
        PROVE  (IF derived # {} THEN v \notin derived ELSE ~NameContains(t, v))
                 <=> ~ (\/ col.distribution = v \/ col.codename = v
                        \/ IsUnderived(col) /\ NameContains(t, v))
    <3>1. v # None
      BY DEF AreConditions
    <3>2. derived = {} <=> IsUnderived(col)
      BY DEF IsUnderived
    <3>3. v \in derived <=> col.distribution = v \/ col.codename = v
      BY <3>1
    <3> HIDE DEF derived
    <3> QED
      BY <3>2, <3>3
  <2> HIDE DEF derived
  <2> QED
    BY <2>1, Zenon DEF Avoids
<1>3. (conds.version # None =>
         ExtendsVersion(conds.version, IF col.version # None THEN col.version ELSE t.name))
        <=> FitsVersion(t, col, conds.version)
  BY DEF FitsVersion
<1>4. ASSUME conds.size # None
      PROVE  sizes # {} /\ Min(sizes) <= conds.size <=> LinuxVariant(t, judged, conds.size)
  <2>1. sizes \in SUBSET Nat /\ conds.size \in Nat
    BY <1>4 DEF AreConditions
  <2>2. LinuxVariant(t, judged, conds.size) <=> \E n \in sizes : n <= conds.size
    BY <1>4 DEF LinuxVariant
  <2> HIDE DEF sizes
  <2>3. sizes # {} => Min(sizes) \in sizes /\ \A n \in sizes : Min(sizes) <= n
    BY <2>1, MinIsLeast
  <2>4. ASSUME NEW n \in sizes, n <= conds.size
        PROVE  Min(sizes) <= conds.size
    <3>1. PICK least : least = Min(sizes)
      OBVIOUS
    <3>2. least \in Nat /\ n \in Nat /\ least <= n
      BY <2>1, <2>3, <3>1
    <3> QED
      BY <2>1, <2>4, <3>1, <3>2
  <2> QED
    BY <2>2, <2>3, <2>4
<1> HIDE DEF derived, judged, sizes
<1> QED
  BY <1>1, <1>2, <1>3, <1>4, Zenon DEF ConditionsSatisfied, derived, judged, sizes

LEMMA MetIsFiltered ==
  ASSUME NEW conds, AreConditions(conds), NEW r, NEW t, Meets(r, t, conds),
         \A p \in t.linux : p.size \in Nat
  PROVE  TagFilters(t, columns[r][t], conds)
<1>1. PICK col : col = columns[r][t]
  OBVIOUS
<1>2. ConditionsSatisfied(conds, t, col)
  BY <1>1 DEF Meets
<1>3. FitsDistribution(t, col, conds.dists)
  BY <1>1 DEF Meets, FitsDistribution, IsUnderived
<1> QED
  BY <1>1, <1>2, <1>3, MeansTheSame DEF TagFilters

(* The catalogue that is searched.                                         *)
CanBeSearched ==
  \A r \in DOMAIN catalogue :
    /\ IsRepository(catalogue[r]) /\ NoneIsOther(catalogue[r])
    /\ \A t \in catalogue[r] : \A p \in t.linux : p.size \in Nat

(* If a searched repository has a tag that meets the conditions and may be *)
(* selected, something is found.                                           *)
LEMMA EligibleIsFound ==
  ASSUME CanBeSearched, searched \subseteq DOMAIN catalogue,
         NEW conds, AreConditions(conds), FoundAt(conds) = <<>>
  PROVE  Eligible(conds) = {}
<1>1. SUFFICES ASSUME NEW r \in searched, NEW t \in catalogue[r], Meets(r, t, conds),
                      SelectTags(catalogue[r], Limit, {t}, conds.version) # <<>>
               PROVE  FALSE
  <2>1. SUFFICES ASSUME NEW c \in Eligible(conds)
                 PROVE  \E r \in searched : \E t \in catalogue[r] :
                          /\ Meets(r, t, conds)
                          /\ SelectTags(catalogue[r], Limit, {t}, conds.version) # <<>>
    OBVIOUS
  <2>2. PICK r \in searched : c \in {r} \X catalogue[r]
    BY DEF Eligible
  <2>3. c[1] = r /\ c[2] \in catalogue[r]
    BY <2>2
  <2>4. Meets(c[1], c[2], conds)
        /\ SelectTags(catalogue[c[1]], Limit, {c[2]}, conds.version) # <<>>
    BY Zenon DEF Eligible
  <2> QED
    BY <2>3, <2>4
<1> DEFINE pool == Pool(catalogue[r], conds.version)
           ids == AllowedIds(r, conds)
<1>2. /\ IsRepository(catalogue[r]) /\ NoneIsOther(catalogue[r])
      /\ \A p \in t.linux : p.size \in Nat
  BY DEF CanBeSearched
<1>3. IsRepository(pool) /\ pool \in SUBSET catalogue[r]
  BY <1>2, PoolIsRepository
<1>4. Limit \in Nat /\ Limit # 0
  BY SearchAssumption
<1>5. \A some \in SUBSET catalogue[r] : some # None
  BY <1>2 DEF NoneIsOther
<1>6. t \in pool
  <2>1. IsPick(SelectTags(catalogue[r], Limit, {t}, conds.version), FoldByDigest(pool, {t}), Limit)
    BY <1>2, <1>4, SelectsFromPool
  <2>2. FoldByDigest(pool, {t}) # {}
    BY <1>1, <2>1 DEF IsPick
  <2>3. Allowed(pool, {t}) # {}
    BY <1>3, <2>2, OneNameIsLeft
  <2>4. {t} # None
    BY <1>5
  <2> HIDE DEF pool
  <2> QED
    BY <2>3, <2>4 DEF Allowed
<1>7. t \in Allowed(pool, ids)
  <2>1. TagFilters(t, columns[r][t], conds)
    BY <1>1, <1>2, MetIsFiltered
  <2>2. ids = None \/ t \in ids
    BY <2>1 DEF AllowedIds
  <2> HIDE DEF pool, ids
  <2> QED
    BY <1>6, <2>2 DEF Allowed
<1>8. SelectedIn(r, conds) # <<>>
  <2>1. FoldByDigest(pool, ids) # {}
    BY <1>3, <1>7, OneNameIsLeft
  <2>2. IsPick(SelectTags(catalogue[r], Limit, ids, conds.version), FoldByDigest(pool, ids), Limit)
    BY <1>2, <1>4, SelectsFromPool
  <2>3. SelectTags(catalogue[r], Limit, ids, conds.version) # <<>>
    BY <1>4, <2>1, <2>2 DEF IsPick
  <2> QED
    BY <2>3 DEF SelectedIn
<1>9. r \in DOMAIN FoundAt(conds)
  BY <1>8 DEF FoundAt
<1>10. DOMAIN <<>> = {}
  OBVIOUS
<1> QED
  BY <1>9, <1>10


(* The line that was pushed last is supported.                             *)
LEMMA SomeAreSupported ==
  ASSUME NEW refs, IsRepository(refs), NEW depth, Lines(refs, depth) # {}
  PROVE  Supported(refs, depth) # {}
<1> DEFINE lines == Lines(refs, depth)
           dated == {t \in refs : t.day # None /\ LineOf(t, depth) \in lines}
           order == {p \in dated \X dated : p[1].day <= p[2].day}
<1>1. CASE dated = {}
  <2>1. \A line \in lines : Dated(refs, depth, line) = {}
    BY <1>1 DEF Dated
  <2> QED
    BY <2>1, SupportedAreCurrent DEF IsCurrent
<1>2. CASE dated # {}
  <2>1. \A t \in dated : t.day \in Nat
    BY DEF IsRepository
  <2>2. IsFiniteSet(dated)
    BY FS_Subset DEF IsRepository
  <2> HIDE DEF dated
  <2>3. IsTransitive(dated, order) /\ \A x, y \in dated : <<x, y>> \in order \/ <<y, x>> \in order
    BY <2>1 DEF IsTransitive
  <2>4. \A x, y \in dated : <<x, y>> \in order => x.day <= y.day
    OBVIOUS
  <2> HIDE DEF order
  <2>5. PICK top \in dated : \A x \in dated : <<x, top>> \in order
    BY <1>2, <2>2, <2>3, ChainHasTop
  <2>6. \A x \in dated : x.day - top.day <= SupportGap
    <3>1. TAKE x \in dated
    <3>2. x.day \in Nat /\ top.day \in Nat /\ x.day <= top.day
      BY <2>1, <2>4, <2>5
    <3> QED
      BY <3>2, TagSelectAssumption
  <2>7. PICK line \in lines : line = LineOf(top, depth)
    BY <2>5 DEF dated
  <2>8. IsCurrent(refs, depth, line)
    <3>1. top \in Dated(refs, depth, line)
      BY <2>5, <2>7 DEF dated, Dated
    <3>2. \A other \in lines : \A u \in Dated(refs, depth, other) : u \in dated
      BY DEF dated, Dated
    <3> QED
      BY <2>6, <3>1, <3>2 DEF IsCurrent
  <2> QED
    BY <2>7, <2>8, SupportedAreCurrent
<1> QED
  BY <1>1, <1>2

LEMMA SomeMayBeSelected ==
  ASSUME NEW refs, IsRepository(refs), ExcludeWindowsOnly(refs) # {}
  PROVE  Pool(refs, None) # {}
<1> DEFINE stable == Stable(refs)
           depth == LineDepth(stable)
           kept == SupportedAliases(stable, depth, None)
           inLines == {u \in stable : LineOf(u, depth) \in SupportedLines(stable, depth, None)}
<1>1. CASE stable = {} \/ depth = None
  <2>1. Pool(refs, None) = IF stable = {} THEN ExcludeWindowsOnly(refs) ELSE stable
    BY <1>1, Zenon DEF Pool
  <2> QED
    BY <2>1
<1>2. CASE ~(stable = {} \/ depth = None)
  <2>1. Pool(refs, None) = IF kept = {} THEN inLines ELSE kept
    BY <1>2, Zenon DEF Pool
  <2>2. IsRepository(stable) /\ Lines(stable, depth) # {}
    BY <1>2, StableAre, LineDepthTyped
  <2>3. PICK line \in Supported(stable, depth) : line \in Lines(stable, depth)
    BY <2>2, SomeAreSupported, SupportedAreCurrent
  <2>4. PICK t \in stable : line = LineOf(t, depth)
    BY <2>3 DEF Lines, AliasesAt
  <2>5. t \in inLines
    BY <2>3, <2>4 DEF SupportedLines
  <2> HIDE DEF kept, inLines
  <2> QED
    BY <2>1, <2>5
<1> QED
  BY <1>1, <1>2

LEMMA LinuxIsFound ==
  ASSUME CanBeSearched, searched \subseteq DOMAIN catalogue, NEW r \in searched,
         ExcludeWindowsOnly(catalogue[r]) # {}
  PROVE  FoundAt(NoConditions) # <<>>
<1> DEFINE pool == Pool(catalogue[r], None)
<1>1. IsRepository(catalogue[r])
  BY DEF CanBeSearched
<1>2. IsRepository(pool) /\ pool # {}
  BY <1>1, PoolIsRepository, SomeMayBeSelected
<1>3. FoldByDigest(pool, None) # {}
  <2>1. Allowed(pool, None) # {}
    BY <1>2 DEF Allowed
  <2> HIDE DEF pool
  <2> QED
    BY <1>2, <2>1, OneNameIsLeft
<1>4. Limit \in Nat /\ Limit # 0
  BY SearchAssumption
<1>5. IsPick(SelectTags(catalogue[r], Limit, None, None), FoldByDigest(pool, None), Limit)
  BY <1>1, <1>4, SelectsFromPool
<1>6. SelectedIn(r, NoConditions) = SelectTags(catalogue[r], Limit, None, None)
  BY DEF SelectedIn, AllowedIds, NoConditions
<1>7. SelectedIn(r, NoConditions) # <<>>
  BY <1>3, <1>4, <1>5, <1>6 DEF IsPick
<1>8. r \in DOMAIN FoundAt(NoConditions)
  BY <1>7 DEF FoundAt
<1>9. DOMAIN <<>> = {}
  OBVIOUS
<1> QED
  BY <1>8, <1>9

-----------------------------------------------------------------------------
(* A search is for a plan that can be asked.                               *)
Planned ==
  /\ \E s \in Searches : catalogue = s.catalogue /\ hits = s.hits /\ plan \in s.plans

(* The search has tried the conditions it began with and all of those      *)
(* without some of the weakest, in this order, and is at the m-th.         *)
Tried(first, m) ==
  /\ stage = Less(first, m)
  /\ \A j \in 0..(m - 1) : FoundAt(Less(first, j)) = <<>>
  /\ \A name \in ToSet(relaxed) : \E i \in 1..m : name = Order[i]
  /\ \A i \in 1..m : Order[i] \in ToSet(relaxed) \/ IsAbsent(i, first)

BeginsWith(first) ==
  /\ AreConditions(first)
  /\ first.archs = plan.conds.archs /\ first.dists = plan.conds.dists
  /\ first.excluded = plan.conds.excluded /\ first.size = plan.conds.size
  /\ first.version \in {plan.conds.version, None}
  /\ \/ first.version = (IF searched # {plan.repo} THEN None ELSE plan.conds.version)
     \/ \A r \in searched : catalogue[r] = {}

Laddered ==
  /\ Planned /\ relaxed \in Seq(ToSet(relaxed))
  /\ at \notin {"searching", "done"} => relaxed = <<>>
  /\ at # "done" => found = <<>>
  /\ at \in {"searching", "done"} =>
       /\ searched \subseteq DOMAIN catalogue
       /\ \E first : BeginsWith(first) /\ \E m \in 0..4 : Tried(first, m)
  /\ at = "done" => /\ found = FoundAt(stage)
                    /\ FoundAt(stage) # <<>> \/ stage = NoConditions

LEMMA PlannedIsFine ==
  ASSUME Planned
  PROVE  /\ CanBeSearched /\ hits \subseteq DOMAIN catalogue /\ None \notin DOMAIN catalogue
         /\ plan # None => AreConditions(plan.conds)
BY SearchAssumption DEF Planned, CanBeSearched

LEMMA InitLaddered == ASSUME SearchInit PROVE Laddered
BY DEF SearchInit, Laddered, Planned

LEMMA BeginLaddered == ASSUME Laddered, Begin PROVE Laddered'
<1> DEFINE named == plan.repo # None
           forced == named /\ HasEvidence(plan.repo) /\ HasTags(plan.repo)
           first == [plan.conds EXCEPT !.version = IF forced THEN @ ELSE None]
<1>1. /\ at \notin {"searching", "done"} /\ plan # None /\ at' = "searching"
      /\ searched' = (IF forced THEN {plan.repo} ELSE hits)
      /\ stage' = first
      /\ UNCHANGED <<catalogue, columns, hits, plan, relaxed, found>>
  BY DEF Begin, storedVars
<1>2. /\ hits \subseteq DOMAIN catalogue /\ None \notin DOMAIN catalogue
      /\ AreConditions(plan.conds)
  BY <1>1, PlannedIsFine DEF Laddered
<1>3. relaxed' = <<>> /\ (relaxed \in Seq(ToSet(relaxed)))' /\ Planned'
  BY <1>1 DEF Laddered, Planned, ToSet
<1>4. searched' \subseteq DOMAIN catalogue
  BY <1>1, <1>2 DEF HasTags
<1>5. PICK begin : begin = first
  OBVIOUS
<1>6. begin = [version |-> IF forced THEN plan.conds.version ELSE None,
               archs |-> plan.conds.archs, dists |-> plan.conds.dists,
               excluded |-> plan.conds.excluded, size |-> plan.conds.size]
  <2>1. PICK c : c = plan.conds
    OBVIOUS
  <2>2. c = [version |-> c.version, archs |-> c.archs, dists |-> c.dists,
             excluded |-> c.excluded, size |-> c.size]
    BY <1>2, <2>1 DEF AreConditions
  <2> HIDE DEF forced
  <2>3. begin = [c EXCEPT !.version = IF forced THEN @ ELSE None]
    BY <1>5, <2>1
  <2> QED
    BY <2>1, <2>2, <2>3
<1> HIDE DEF first
<1>7. AreConditions(begin)
  <2> HIDE DEF forced
  <2> QED
    BY <1>2, <1>6 DEF AreConditions
<1>8. Less(begin, 0) = begin
  BY <1>7 DEF Less, AreConditions
<1>9. \/ begin.version = (IF searched' # {plan.repo} THEN None ELSE plan.conds.version)
      \/ \A r \in searched' : catalogue[r] = {}
  <2>1. CASE forced
    BY <1>1, <1>6, <2>1
  <2>2. CASE ~forced /\ searched' # {plan.repo}
    BY <1>1, <1>6, <2>2
  <2>3. CASE ~forced /\ searched' = {plan.repo}
    <3>1. plan.repo \in hits /\ plan.repo \in DOMAIN catalogue
      BY <1>1, <1>2, <2>3
    <3>2. catalogue[plan.repo] = {}
      BY <1>2, <2>3, <3>1 DEF HasEvidence, HasTags
    <3> QED
      BY <2>3, <3>2
  <2> QED
    BY <2>1, <2>2, <2>3
<1>10. BeginsWith(begin)'
  <2> HIDE DEF forced
  <2>1. /\ begin.archs = plan.conds.archs /\ begin.dists = plan.conds.dists
        /\ begin.excluded = plan.conds.excluded /\ begin.size = plan.conds.size
        /\ begin.version \in {plan.conds.version, None}
    BY <1>6
  <2> QED
    BY <1>1, <1>7, <1>9, <2>1 DEF BeginsWith, AreConditions
<1>11. Tried(begin, 0)'
  <2>1. ToSet(<<>>) = {}
    BY DEF ToSet
  <2> QED
    BY <1>1, <1>3, <1>5, <1>8, <2>1 DEF Tried, Less, ToSet, first
<1>12. at' = "searching" /\ 0 \in 0..4 /\ catalogue' = catalogue /\ found' = <<>>
  BY <1>1 DEF Laddered
<1> QED
  BY <1>3, <1>4, <1>10, <1>11, <1>12 DEF Laddered

LEMMA FailsLaddered == ASSUME Laddered, StageFails PROVE Laddered'
<1>1. /\ at = "searching" /\ at' = at
      /\ FoundAt(stage) = <<>> /\ stage # NoConditions
      /\ relaxed' = Append(relaxed, RelaxWeakest(stage)[1])
      /\ stage' = RelaxWeakest(stage)[2]
      /\ UNCHANGED <<catalogue, columns, hits, plan, searched>>
  BY DEF StageFails, storedVars
<1>2. PICK first : BeginsWith(first) /\ \E m \in 0..4 : Tried(first, m)
  BY <1>1 DEF Laddered
<1>3. PICK m \in 0..4 : Tried(first, m)
  BY <1>2
<1>4. AreConditions(first) /\ stage = Less(first, m)
  BY <1>2, <1>3 DEF BeginsWith, Tried
<1>5. PICK k \in 1..4 :
        /\ m < k /\ \A i \in (m + 1)..(k - 1) : IsAbsent(i, first)
        /\ RelaxWeakest(stage)[1] = Order[k]
        /\ RelaxWeakest(stage)[2] = Less(first, k)
        /\ \A j \in m..(k - 1) : Less(first, j) = stage
  BY <1>1, <1>4, WeakestIsNext
<1>6. \A conds : FoundAt(conds)' = FoundAt(conds)
  BY <1>1 DEF FoundAt, SelectedIn, AllowedIds
<1>7. relaxed' = Append(relaxed, Order[k]) /\ relaxed \in Seq(ToSet(relaxed))
  BY <1>1, <1>5 DEF Laddered
<1>8. ToSet(relaxed)' = ToSet(relaxed) \union {Order[k]} /\ (relaxed \in Seq(ToSet(relaxed)))'
  <2>1. ToSet(relaxed)' = ToSet(relaxed')
    BY DEF ToSet
  <2> QED
    BY <1>7, <2>1, OneMore
<1>9. Tried(first, k)'
  <2>1. stage' = Less(first, k)
    BY <1>1, <1>5
  <2>2. \A j \in 0..(k - 1) : FoundAt(Less(first, j)) = <<>>
    <3> TAKE j \in 0..(k - 1)
    <3>1. CASE j < m
      BY <1>3, <3>1 DEF Tried
    <3>2. CASE j >= m
      BY <1>1, <1>5, <3>2
    <3> QED
      BY <3>1, <3>2
  <2>3. \A name \in ToSet(relaxed)' : \E i \in 1..k : name = Order[i]
    BY <1>3, <1>5, <1>8 DEF Tried
  <2>4. \A i \in 1..k : Order[i] \in ToSet(relaxed)' \/ IsAbsent(i, first)
    <3> TAKE i \in 1..k
    <3>1. CASE i \in 1..m
      BY <1>3, <1>8, <3>1 DEF Tried
    <3>2. CASE i \in (m + 1)..(k - 1)
      BY <1>5, <3>2
    <3>3. CASE i = k
      BY <1>8, <3>3
    <3> QED
      BY <1>5, <3>1, <3>2, <3>3
  <2>5. \A j : Less(first, j)' = Less(first, j)
    BY DEF Less
  <2> QED
    BY <1>6, <2>1, <2>2, <2>3, <2>4 DEF Tried, Less, IsAbsent
<1>10. BeginsWith(first)'
  BY <1>1, <1>2 DEF BeginsWith, AreConditions
<1>11. Planned' /\ at' # "done" /\ found' = <<>>
  BY <1>1 DEF Laddered, Planned, StageFails
<1>12. searched \subseteq DOMAIN catalogue
  BY <1>1 DEF Laddered
<1>13. k \in 0..4
  OBVIOUS
<1> QED
  BY <1>1, <1>8, <1>9, <1>10, <1>11, <1>12, <1>13 DEF Laddered

LEMMA NextLaddered == ASSUME Laddered, [SearchNext]_searchVars PROVE Laddered'
<1>1. CASE DeriveAll
  BY <1>1 DEF DeriveAll, Laddered, Planned
<1>2. CASE ClearChanged
  BY <1>2 DEF ClearChanged, Laddered, Planned
<1>3. CASE Begin
  BY <1>3, BeginLaddered
<1>4. CASE StageFails
  BY <1>4, FailsLaddered
<1>5. ASSUME StageEnds \/ UNCHANGED searchVars PROVE Laddered'
  <2>1. UNCHANGED <<catalogue, columns, hits, plan, searched, stage, relaxed>>
    BY <1>5 DEF StageEnds, storedVars, searchVars
  <2>2. \A conds : FoundAt(conds)' = FoundAt(conds)
    BY <2>1 DEF FoundAt, SelectedIn, AllowedIds
  <2>3. \A first : BeginsWith(first)' <=> BeginsWith(first)
    BY <2>1 DEF BeginsWith, AreConditions
  <2>4. \A first : \A m : Tried(first, m)' <=> Tried(first, m)
    BY <2>1, <2>2 DEF Tried, Less, IsAbsent
  <2>5. Planned' /\ (relaxed \in Seq(ToSet(relaxed)))'
    BY <2>1 DEF Laddered, Planned, ToSet
  <2>6. /\ at' \notin {"searching", "done"} => at = at'
        /\ at' \in {"searching", "done"} => at \in {"searching", "done"}
    BY <1>5 DEF StageEnds, searchVars
  <2>7. /\ at' \notin {"searching", "done"} => relaxed' = <<>>
        /\ at' # "done" => found' = <<>>
    BY <1>5, <2>1, <2>6 DEF Laddered, StageEnds, searchVars
  <2>8. at' \in {"searching", "done"} =>
          /\ (searched \subseteq DOMAIN catalogue)'
          /\ \E first : BeginsWith(first)' /\ \E m \in 0..4 : Tried(first, m)'
    BY <2>1, <2>3, <2>4, <2>6 DEF Laddered
  <2>9. at' = "done" => /\ found' = FoundAt(stage)
                        /\ FoundAt(stage) # <<>> \/ stage = NoConditions
    BY <1>5 DEF StageEnds, searchVars, Laddered
  <2>10. FoundAt(stage)' = FoundAt(stage)
    BY <2>1 DEF FoundAt, SelectedIn, AllowedIds
  <2> QED
    BY <2>1, <2>5, <2>7, <2>8, <2>9, <2>10 DEF Laddered
<1> QED
  BY <1>1, <1>2, <1>3, <1>4, <1>5 DEF SearchNext


(* Nothing may be eligible where all searched repositories are empty.      *)
LEMMA EmptyHasNoneEligible ==
  ASSUME \A r \in searched : catalogue[r] = {}, NEW conds
  PROVE  Eligible(conds) = {}
<1>1. SUFFICES ASSUME NEW c \in Eligible(conds) PROVE FALSE
  OBVIOUS
<1>2. PICK r \in searched : c \in {r} \X catalogue[r]
  BY DEF Eligible
<1> QED
  BY <1>2

(* The plan without its k weakest conditions is what was tried.            *)
LEMMA WithoutIsTried ==
  ASSUME CanBeSearched, searched \subseteq DOMAIN catalogue,
         NEW first, BeginsWith(first), NEW k \in 0..3, FoundAt(Less(first, k)) = <<>>
  PROVE  Eligible(Without(k)) = {}
<1>1. CASE first.version = (IF searched # {plan.repo} THEN None ELSE plan.conds.version)
  <2>1. Without(k) = Less(first, k)
    BY <1>1 DEF Without, Less, BeginsWith
  <2>2. AreConditions(Less(first, k))
    BY LessIsConditions DEF BeginsWith
  <2> QED
    BY <2>1, <2>2, EligibleIsFound
<1>2. CASE \A r \in searched : catalogue[r] = {}
  BY <1>2, EmptyHasNoneEligible
<1> QED
  BY <1>1, <1>2 DEF BeginsWith

LEMMA LadderedNeeds == ASSUME Laddered PROVE RelaxedOnlyIfNeeded
<1> DEFINE Keeps(name, conds) ==
             CASE name = "size" -> conds.size = plan.conds.size
               [] name = "distribution" -> /\ conds.dists = plan.conds.dists
                                           /\ conds.excluded = plan.conds.excluded
               [] name = "architecture" -> conds.archs = plan.conds.archs
               [] OTHER -> conds.version \in {plan.conds.version, None}
<1>1. SUFFICES ASSUME at = "done"
               PROVE  /\ \A name \in ToSet(relaxed) : \A k \in 0..3 :
                           Order[k + 1] = name => \A j \in 0..k : Eligible(Without(j)) = {}
                      /\ \A name \in ToSet(Order) \ ToSet(relaxed) : Keeps(name, stage)
                      /\ \A r \in DOMAIN found : r \in searched
                      /\ (\E r \in searched : ExcludeWindowsOnly(catalogue[r]) # {})
                           => found # <<>>
  BY Zenon DEF RelaxedOnlyIfNeeded, Order
<1>2. PICK first : BeginsWith(first) /\ \E m \in 0..4 : Tried(first, m)
  BY <1>1 DEF Laddered
<1>3. PICK m \in 0..4 : Tried(first, m)
  BY <1>2
<1>4. CanBeSearched /\ searched \subseteq DOMAIN catalogue
  BY <1>1, PlannedIsFine DEF Laddered
<1>5. ASSUME NEW name \in ToSet(relaxed), NEW k \in 0..3, Order[k + 1] = name, NEW j \in 0..k
      PROVE  Eligible(Without(j)) = {}
  <2>1. PICK i \in 1..m : name = Order[i]
    BY <1>3, <1>5 DEF Tried
  <2>2. i = k + 1
    BY <1>5, <2>1 DEF Order
  <2>3. j \in 0..(m - 1) /\ j \in 0..3
    BY <2>1, <2>2
  <2> QED
    BY <1>2, <1>3, <1>4, <2>3, WithoutIsTried DEF Tried
<1>6. ASSUME NEW name \in ToSet(Order) \ ToSet(relaxed) PROVE Keeps(name, stage)
  <2>1. PICK i \in 1..4 : name = Order[i]
    BY <1>6 DEF ToSet, Order
  <2>2. i > m \/ IsAbsent(i, first)
    BY <1>3, <1>6, <2>1 DEF Tried
  <2>3. /\ stage.version = (IF m >= 4 THEN None ELSE first.version)
        /\ stage.archs = (IF m >= 3 THEN <<>> ELSE first.archs)
        /\ stage.dists = (IF m >= 2 THEN {} ELSE first.dists)
        /\ stage.excluded = (IF m >= 2 THEN {} ELSE first.excluded)
        /\ stage.size = (IF m >= 1 THEN None ELSE first.size)
    BY <1>3 DEF Tried, Less
  <2>4. CASE i = 1
    BY <1>2, <2>1, <2>2, <2>3, <2>4 DEF BeginsWith, IsAbsent, Order
  <2>5. CASE i = 2
    <3>1. name = "distribution"
      BY <2>1, <2>5 DEF Order
    <3>2. stage.dists = first.dists /\ stage.excluded = first.excluded
      <4>1. CASE m >= 2
        <5>1. first.dists = {} /\ first.excluded = {}
          BY <2>2, <2>5, <4>1 DEF IsAbsent
        <5>2. stage.dists = {} /\ stage.excluded = {}
          BY <2>3, <4>1
        <5> QED
          BY <5>1, <5>2
      <4>2. CASE ~(m >= 2)
        BY <2>3, <4>2
      <4> QED
        BY <4>1, <4>2
    <3>3. stage.dists = plan.conds.dists /\ stage.excluded = plan.conds.excluded
      BY <1>2, <3>2 DEF BeginsWith
    <3> QED
      BY <3>1, <3>3
  <2>6. CASE i = 3
    BY <1>2, <2>1, <2>2, <2>3, <2>6 DEF BeginsWith, IsAbsent, Order
  <2>7. CASE i = 4
    BY <1>2, <2>1, <2>2, <2>3, <2>7 DEF BeginsWith, IsAbsent, Order
  <2> QED
    BY <2>4, <2>5, <2>6, <2>7
<1>7. \A r \in DOMAIN found : r \in searched
  BY <1>1 DEF Laddered, FoundAt
<1>8. ASSUME NEW r \in searched, ExcludeWindowsOnly(catalogue[r]) # {} PROVE found # <<>>
  BY <1>1, <1>4, <1>8, LinuxIsFound DEF Laddered
<1> HIDE DEF Keeps
<1> QED
  BY <1>5, <1>6, <1>7, <1>8

(* A condition of a plan is dropped only if nothing that could be selected *)
(* meets it and all stronger ones, the weakest first; the others are kept, *)
(* and the search ends with candidates if a Linux tag is there at all.     *)
THEOREM RelaxedByNeed == SearchSpec => []RelaxedOnlyIfNeeded
<1>1. SearchSpec => []Laddered
  BY InitLaddered, NextLaddered, PTL DEF SearchSpec
<1>2. Laddered => RelaxedOnlyIfNeeded
  BY LadderedNeeds
<1> QED
  BY <1>1, <1>2, PTL


-----------------------------------------------------------------------------
(* A candidate has passed the filters of the stage.                        *)
LEMMA CandidatesAreFiltered ==
  ASSUME Laddered, NEW c \in Candidates
  PROVE  /\ at = "done" /\ AreConditions(stage)
         /\ c[1] \in DOMAIN catalogue /\ c[2] \in catalogue[c[1]]
         /\ \A p \in c[2].linux : p.size \in Nat
         /\ stage # NoConditions => TagFilters(c[2], columns[c[1]][c[2]], stage)
<1>1. PICK r \in DOMAIN found : c \in {<<r, t>> : t \in ToSet(found[r])}
  BY DEF Candidates
<1>2. PICK t \in ToSet(found[r]) : c = <<r, t>>
  BY <1>1
<1>3. DOMAIN <<>> = {}
  OBVIOUS
<1>4. at = "done" /\ found = FoundAt(stage)
  BY <1>1, <1>3 DEF Laddered
<1>5. r \in searched /\ r \in DOMAIN catalogue /\ found[r] = SelectedIn(r, stage)
  BY <1>1, <1>4 DEF Laddered, FoundAt
<1>6. PICK first : BeginsWith(first) /\ \E m \in 0..4 : Tried(first, m)
  BY <1>4 DEF Laddered
<1>7. AreConditions(stage)
  BY <1>6, LessIsConditions DEF Tried, BeginsWith
<1>8. IsRepository(catalogue[r]) /\ NoneIsOther(catalogue[r])
      /\ \A u \in catalogue[r] : \A p \in u.linux : p.size \in Nat
  BY <1>5, PlannedIsFine DEF Laddered, CanBeSearched
<1> DEFINE pool == Pool(catalogue[r], stage.version)
           ids == AllowedIds(r, stage)
<1>9. IsRepository(pool) /\ pool \in SUBSET catalogue[r]
  BY <1>8, PoolIsRepository
<1>10. t \in Allowed(pool, ids)
  <2>1. Limit \in Nat
    BY SearchAssumption
  <2>2. IsPick(SelectTags(catalogue[r], Limit, ids, stage.version), FoldByDigest(pool, ids), Limit)
    BY <1>8, <2>1, SelectsFromPool
  <2>3. found[r] \in Seq(FoldByDigest(pool, ids))
    BY <1>5, <2>2 DEF IsPick, SelectedIn
  <2>4. t \in FoldByDigest(pool, ids)
    BY <1>2, <2>3 DEF ToSet
  <2>5. FoldByDigest(pool, ids) \in SUBSET Allowed(pool, ids)
    BY <1>9, OneNameIsLeft
  <2> QED
    BY <2>4, <2>5
<1>11. t \in catalogue[r] /\ (ids # None => t \in ids)
  <2> HIDE DEF pool, ids
  <2> QED
    BY <1>9, <1>10 DEF Allowed
<1>12. stage # NoConditions => TagFilters(t, columns[r][t], stage)
  <2>1. ASSUME stage # NoConditions PROVE ids = {u \in catalogue[r] : TagFilters(u, columns[r][u], stage)}
    BY <2>1 DEF AllowedIds
  <2>2. \A some \in SUBSET catalogue[r] : some # None
    BY <1>8 DEF NoneIsOther
  <2> HIDE DEF ids
  <2>3. ASSUME stage # NoConditions PROVE TagFilters(t, columns[r][t], stage)
    <3>1. ids \in SUBSET catalogue[r]
      BY <2>1, <2>3
    <3>2. t \in ids
      BY <1>11, <2>2, <3>1
    <3> QED
      BY <2>1, <2>3, <3>2
  <2> QED
    BY <2>3
<1> QED
  BY <1>2, <1>4, <1>5, <1>7, <1>8, <1>11, <1>12

LEMMA LadderedMeets == ASSUME Laddered PROVE CandidatesMeet
<1> SUFFICES ASSUME NEW c \in Candidates
             PROVE  ConditionsSatisfied(stage, c[2], columns[c[1]][c[2]])
  BY DEF CandidatesMeet
<1>1. AreConditions(stage) /\ \A p \in c[2].linux : p.size \in Nat
  BY CandidatesAreFiltered
<1>2. CASE stage # NoConditions
  BY <1>1, <1>2, CandidatesAreFiltered, MeansTheSame DEF TagFilters
<1>3. CASE stage = NoConditions
  <2>1. ToSet(<<>>) = {}
    BY DEF ToSet
  <2>2. /\ stage.excluded = {} /\ stage.version = None /\ stage.size = None
        /\ stage.archs = <<>>
    BY <1>3 DEF NoConditions
  <2> QED
    BY <1>1, <2>1, <2>2, MeansTheSame DEF Avoids, FitsVersion
<1> QED
  BY <1>2, <1>3

(* Every candidate meets the conditions in force as the evaluation, with   *)
(* code of its own, would judge it.                                        *)
THEOREM CandidatesMeetConditions == SearchSpec => []CandidatesMeet
<1>1. SearchSpec => []Laddered
  BY InitLaddered, NextLaddered, PTL DEF SearchSpec
<1>2. Laddered => CandidatesMeet
  BY LadderedMeets
<1> QED
  BY <1>1, <1>2, PTL

(* A candidate whose columns are filled is of a wanted distribution as     *)
(* derivation says; one whose columns are empty has a wanted one in its    *)
(* name.                                                                   *)
CandidatesAreWanted ==
  \A c \in Candidates :
    LET truth == DeriveRepository(catalogue[c[1]], c[1])[c[2]]
    IN stage.dists # {} =>
         \/ {truth.distribution, truth.codename} \intersect stage.dists # {}
         \/ /\ IsUnderived(columns[c[1]][c[2]])
            /\ \E v \in stage.dists : NameContains(c[2], v)

LEMMA LadderedWants == ASSUME Laddered, Shelved PROVE CandidatesAreWanted
<1> SUFFICES ASSUME NEW c \in Candidates, stage.dists # {}
             PROVE  LET truth == DeriveRepository(catalogue[c[1]], c[1])[c[2]]
                    IN \/ {truth.distribution, truth.codename} \intersect stage.dists # {}
                       \/ /\ IsUnderived(columns[c[1]][c[2]])
                          /\ \E v \in stage.dists : NameContains(c[2], v)
  BY DEF CandidatesAreWanted
<1>1. PICK col, truth : /\ col = columns[c[1]][c[2]]
                        /\ truth = DeriveRepository(catalogue[c[1]], c[1])[c[2]]
  OBVIOUS
<1>2. NoConditions.dists = {}
  BY DEF NoConditions
<1>3. FitsDistribution(c[2], col, stage.dists) /\ AreConditions(stage)
  BY <1>1, <1>2, CandidatesAreFiltered DEF TagFilters
<1>4. None \notin stage.dists
  BY <1>3 DEF AreConditions
<1>5. col = Underived \/ col = truth
  BY <1>1, CandidatesAreFiltered DEF Shelved
<1>6. Underived.distribution = None /\ Underived.codename = None
  BY DEF Underived
<1>7. \/ {truth.distribution, truth.codename} \intersect stage.dists # {}
      \/ IsUnderived(col) /\ \E v \in stage.dists : NameContains(c[2], v)
  BY <1>3, <1>4, <1>5, <1>6 DEF FitsDistribution
<1> QED
  BY <1>1, <1>7

(* Of the wanted distributions a candidate has one, by its true columns or *)
(* where it has none by its name.                                          *)
THEOREM CandidatesAreOfWanted == SearchSpec => []CandidatesAreWanted
<1>1. SearchSpec => []Laddered
  BY InitLaddered, NextLaddered, PTL DEF SearchSpec
<1>2. SearchSpec => []Shelved
  BY InitShelved, NextShelved, PTL DEF SearchSpec
<1>3. Laddered /\ Shelved => CandidatesAreWanted
  BY LadderedWants
<1> QED
  BY <1>1, <1>2, <1>3, PTL

-----------------------------------------------------------------------------
(* A word states a value: trixie both debian and trixie, and 3.24 behind   *)
(* the word alpine the branch 3.24.                                        *)
StatesValue(words, i, v) ==
  \/ words[i].kind \in Distributions /\ v \in {words[i].kind, words[i].text}
  \/ words[i].kind = "release" /\ i > 1 /\ words[i - 1] = BareAlpine /\ v = words[i].text

(* No word behind it names another system.                                 *)
IsLastSystem(words, i) ==
  \A j \in (i + 1)..Len(words) : words[j].kind \notin Distributions \union {"windows", "ltsc"}

(* From that word on the facts say the value.                              *)
SaysSo(facts, word, v) ==
  /\ facts.distribution \in Distributions
  /\ IF v = word.text THEN facts.codename = v ELSE facts.distribution = v

LEMMA PlacesBefore ==
  ASSUME NEW words, words \in Seq(ToSet(words)), NEW k \in 2..Len(words)
  PROVE  /\ SubSeq(words, 1, k - 1) # <<>>
         /\ Last(SubSeq(words, 1, k - 1)) = words[k - 1]
<1>1. PICK before : before = SubSeq(words, 1, k - 1)
  OBVIOUS
<1>2. /\ before \in Seq(ToSet(words)) /\ Len(before) = k - 1
      /\ \A j \in 1..(k - 1) : before[j] = words[j]
  BY <1>1
<1>3. Last(before) = words[k - 1]
  BY <1>2 DEF Last
<1> QED
  BY <1>1, <1>2, <1>3

LEMMA LaterWordsKeep ==
  ASSUME NEW words, words \in Seq(ToSet(words)), NEW version, NEW v, v # None,
         NEW i \in 1..Len(words), StatesValue(words, i, v), IsLastSystem(words, i),
         NEW k \in (i + 1)..Len(words),
         NEW facts \in FactsOf(words, version), SaysSo(facts, words[i], v)
  PROVE  SaysSo(ReadWord(facts, words[k], SubSeq(words, 1, k - 1)), words[i], v)
<1>1. PICK w, before : w = words[k] /\ before = SubSeq(words, 1, k - 1)
  OBVIOUS
<1>2. PICK r : r = ReadWord(facts, w, before)
  OBVIOUS
<1>3. /\ facts = [version |-> facts.version, distribution |-> facts.distribution,
                  codename |-> facts.codename, variant |-> facts.variant]
  BY DEF FactsOf
<1>4. w.kind \notin Distributions \union {"windows", "ltsc"}
  BY <1>1 DEF IsLastSystem
<1>5. facts.distribution # "windows"
  BY DEF SaysSo, Distributions
<1>6. PICK added : added = Append(facts.variant, w.text)
  OBVIOUS
<1>7. \/ r = facts
      \/ r = [facts EXCEPT !.variant = added]
      \/ Last(before) = BareAlpine /\ r = [facts EXCEPT !.codename = w.text]
  BY <1>2, <1>4, <1>5, <1>6 DEF ReadWord
<1>8. Last(before) = words[k - 1]
  BY <1>1, PlacesBefore
<1>9. ASSUME words[k - 1] = BareAlpine PROVE v # words[i].text
  <2>1. BareAlpine.kind = "alpine" /\ BareAlpine.text = None /\ "alpine" \in Distributions
    BY DEF BareAlpine, Distributions
  <2>2. k - 1 \notin (i + 1)..Len(words)
    BY <1>9, <2>1 DEF IsLastSystem
  <2>3. k - 1 = i
    BY <2>2
  <2> QED
    BY <1>9, <2>1, <2>3
<1>10. /\ r.distribution = facts.distribution
       /\ v = words[i].text => r.codename = facts.codename
  BY <1>3, <1>7, <1>8, <1>9
<1> QED
  BY <1>1, <1>2, <1>10 DEF SaysSo

LEMMA WordSaysSo ==
  ASSUME NEW words, words \in Seq(ToSet(words)), NEW version, NEW v,
         NEW i \in 1..Len(words), StatesValue(words, i, v),
         NEW facts \in FactsOf(words, version),
         i > 1 /\ words[i - 1] = BareAlpine => facts.distribution \in Distributions
  PROVE  SaysSo(ReadWord(facts, words[i], SubSeq(words, 1, i - 1)), words[i], v)
<1>1. PICK w, before : w = words[i] /\ before = SubSeq(words, 1, i - 1)
  OBVIOUS
<1>2. PICK r : r = ReadWord(facts, w, before)
  OBVIOUS
<1>3. /\ facts = [version |-> facts.version, distribution |-> facts.distribution,
                  codename |-> facts.codename, variant |-> facts.variant]
  BY DEF FactsOf
<1>4. CASE w.kind \in Distributions /\ v \in {w.kind, w.text}
  <2>1. r = [facts EXCEPT !.distribution = w.kind, !.codename = w.text]
    BY <1>2, <1>4 DEF ReadWord, Distributions
  <2> QED
    BY <1>1, <1>2, <1>3, <1>4, <2>1 DEF SaysSo
<1>5. CASE w.kind = "release" /\ i > 1 /\ words[i - 1] = BareAlpine /\ v = w.text
  <2>1. before # <<>> /\ Last(before) = BareAlpine
    <3>1. i \in 2..Len(words)
      BY <1>5
    <3> QED
      BY <1>1, <1>5, <3>1, PlacesBefore
  <2>2. r = [facts EXCEPT !.codename = w.text]
    BY <1>2, <1>5, <2>1 DEF ReadWord, Distributions
  <2> QED
    BY <1>1, <1>2, <1>3, <1>5, <2>2 DEF SaysSo
<1> QED
  BY <1>1, <1>4, <1>5 DEF StatesValue

LEMMA StatedIsRead ==
  ASSUME NEW words, words \in Seq(ToSet(words)), NEW version,
         NEW start \in FactsOf(words, version), NEW v, v # None,
         NEW i \in 1..Len(words), StatesValue(words, i, v), IsLastSystem(words, i)
  PROVE  SaysSo(ReadWords(start, words), words[i], v)
<1> DEFINE n == Len(words)
<1>1. n \in Nat /\ i \in Nat /\ i <= n /\ i >= 1
  OBVIOUS
<1>2. PICK facts :
           /\ facts[0] = start
           /\ \A k \in 0..n : facts[k] \in FactsOf(words, version)
           /\ \A k \in 1..n :
                facts[k] = ReadWord(facts[k - 1], words[k], SubSeq(words, 1, k - 1))
           /\ ReadWords(start, words) = facts[n]
  BY ReadsWordByWord
<1>3. ASSUME i > 1, words[i - 1] = BareAlpine PROVE facts[i - 1].distribution \in Distributions
  <2>1. i - 1 \in 1..n /\ (i - 1) - 1 \in 0..n
    BY <1>1, <1>3
  <2>2. PICK last \in FactsOf(words, version) : last = facts[(i - 1) - 1]
    BY <1>2, <2>1
  <2>3. BareAlpine.kind = "alpine" /\ "alpine" \in Distributions
    BY DEF BareAlpine, Distributions
  <2>4. PICK r : r = facts[i - 1] /\ \E before : r = ReadWord(last, BareAlpine, before)
    BY <1>2, <1>3, <2>1, <2>2
  <2>5. r = [last EXCEPT !.distribution = "alpine", !.codename = BareAlpine.text]
    BY <2>3, <2>4 DEF ReadWord
  <2>6. last = [version |-> last.version, distribution |-> last.distribution,
                codename |-> last.codename, variant |-> last.variant]
    BY DEF FactsOf
  <2> QED
    BY <2>3, <2>4, <2>5, <2>6
<1> DEFINE T == {k \in Nat : i + k <= n => SaysSo(facts[i + k], words[i], v)}
<1>4. 0 \in T
  <2>1. i - 1 \in 0..n /\ i + 0 = i
    BY <1>1
  <2> QED
    BY <1>2, <1>3, <2>1, WordSaysSo
<1>5. \A k \in T : k + 1 \in T
  <2>1. SUFFICES ASSUME NEW k \in Nat, i + k <= n => SaysSo(facts[i + k], words[i], v),
                        i + (k + 1) <= n
                 PROVE  SaysSo(facts[i + (k + 1)], words[i], v)
    OBVIOUS
  <2>2. /\ i + (k + 1) \in (i + 1)..n /\ i + (k + 1) \in 1..n
        /\ (i + (k + 1)) - 1 = i + k /\ i + k \in 0..n /\ i + k <= n
    BY <1>1, <2>1
  <2> QED
    BY <1>2, <2>1, <2>2, LaterWordsKeep
<1>6. T = Nat
  <2>1. T \in SUBSET Nat
    OBVIOUS
  <2> HIDE DEF T
  <2> QED
    BY <1>4, <1>5, <2>1, HasAllNumbers
<1>7. n - i \in T /\ i + (n - i) = n
  <2> HIDE DEF T
  <2> QED
    BY <1>1, <1>6
<1> QED
  BY <1>1, <1>2, <1>7

(* A name is clear about a value: a word states it, no later one names     *)
(* another system, and the repository is not itself another distribution.  *)
IsClear(t, repository, v) ==
  \E i \in DOMAIN t.words :
    /\ StatesValue(t.words, i, v) /\ IsLastSystem(t.words, i)
    /\ v = t.words[i].text \/ repository \notin OsRepositories \ {v}

(* What a clear name states its own facts say.                             *)
LEMMA ClearIsParsed ==
  ASSUME NEW t, AreWords(t.words), NEW repository, NEW v, v # None, IsClear(t, repository, v)
  PROVE  v \in {ParseTag(t, repository).distribution, ParseTag(t, repository).codename}
<1> DEFINE version == IF t.name.ver = <<>> THEN None
                      ELSE [ver |-> t.name.ver, build |-> t.name.build]
           start == [NoFacts EXCEPT !.version = version]
<1>1. t.words \in Seq(ToSet(t.words)) /\ DOMAIN t.words = 1..Len(t.words)
  BY DEF AreWords
<1>2. PICK i \in 1..Len(t.words) :
        /\ StatesValue(t.words, i, v) /\ IsLastSystem(t.words, i)
        /\ v = t.words[i].text \/ repository \notin OsRepositories \ {v}
  BY <1>1 DEF IsClear
<1>3. start \in FactsOf(t.words, version)
  <2>1. start = [version |-> version, distribution |-> None, codename |-> None,
                 variant |-> <<>>]
    BY DEF NoFacts
  <2>2. PICK variants : variants = Seq({w.text : w \in ToSet(t.words)})
    OBVIOUS
  <2>3. <<>> \in variants
    BY <2>2
  <2>4. FactsOf(t.words, version) =
          [version : {version}, distribution : Distributions \union {"windows", None},
           codename : {w.text : w \in ToSet(t.words)} \union {None}, variant : variants]
    BY <2>2, Zenon DEF FactsOf
  <2> HIDE DEF version
  <2> QED
    BY <2>1, <2>3, <2>4
<1>4. PICK read \in FactsOf(t.words, version) :
        read = ReadWords(start, t.words) /\ SaysSo(read, t.words[i], v)
  <2>1. ReadWords(start, t.words) \in FactsOf(t.words, version)
    BY ReadWordsPairs
  <2>2. SaysSo(ReadWords(start, t.words), t.words[i], v)
    <3> HIDE DEF start, version
    <3> QED
      BY <1>1, <1>2, <1>3, StatedIsRead
  <2> QED
    BY <2>1, <2>2
<1>5. PICK facts : facts = OsFacts(read, repository)
  OBVIOUS
<1>6. read = [version |-> read.version, distribution |-> read.distribution,
              codename |-> read.codename, variant |-> read.variant]
  BY DEF FactsOf
<1>7. /\ facts = [version |-> facts.version, distribution |-> facts.distribution,
                  codename |-> facts.codename, variant |-> facts.variant]
      /\ facts.distribution = IF repository \in OsRepositories THEN repository
                              ELSE read.distribution
      /\ read.codename # None => facts.codename = read.codename
  BY <1>5, <1>6 DEF OsFacts
<1>8. v \in {facts.distribution, facts.codename}
  BY <1>2, <1>4, <1>7 DEF SaysSo
<1>9. PICK parsed : parsed = [facts EXCEPT !.variant = IF @ = <<>> THEN None ELSE @]
  OBVIOUS
<1>10. parsed.distribution = facts.distribution /\ parsed.codename = facts.codename
  BY <1>7, <1>9
<1>11. ParseTag(t, repository) = parsed
  BY <1>4, <1>5, <1>9, Zenon DEF ParseTag
<1> QED
  BY <1>8, <1>10, <1>11

(* Where the name of a candidate contains a distribution that is wanted,   *)
(* it is clear about it.                                                   *)
NamesAreClear ==
  \A c \in Candidates : \A v \in stage.dists :
    NameContains(c[2], v) => IsClear(c[2], c[1], v)

LEMMA WantedAndClear ==
  ASSUME Laddered, CandidatesAreWanted, NamesAreClear
  PROVE  CandidatesFit
<1> SUFFICES ASSUME NEW c \in Candidates, stage.dists # {}
             PROVE  LET truth == DeriveRepository(catalogue[c[1]], c[1])[c[2]]
                    IN {truth.distribution, truth.codename} \intersect stage.dists # {}
  BY LadderedMeets DEF CandidatesFit
<1>1. PICK truth, own, group :
        /\ truth = DeriveRepository(catalogue[c[1]], c[1])[c[2]]
        /\ own = ParseTag(c[2], c[1])
        /\ group = {ParseTag(u, c[1]) : u \in GroupOf(catalogue[c[1]], c[2])}
  OBVIOUS
<1>2. /\ AreConditions(stage) /\ c[1] \in DOMAIN catalogue /\ c[2] \in catalogue[c[1]]
  BY CandidatesAreFiltered
<1>3. None \notin stage.dists
  BY <1>2 DEF AreConditions
<1>4. truth = ResolveAlias(own, group)
  BY <1>1, <1>2 DEF DeriveRepository
<1>5. ASSUME NEW v \in stage.dists, NameContains(c[2], v)
      PROVE  v \in {truth.distribution, truth.codename}
  <2>1. IsClear(c[2], c[1], v) /\ v # None
    BY <1>2, <1>3, <1>5 DEF NamesAreClear
  <2>2. AreWords(c[2].words)
    BY <1>2, SearchAssumption DEF Laddered, Planned
  <2>3. v \in {own.distribution, own.codename}
    BY <1>1, <2>1, <2>2, ClearIsParsed
  <2>4. /\ own.distribution # None => truth.distribution = own.distribution
        /\ own.codename # None => truth.codename = own.codename
    BY <1>4 DEF ResolveAlias
  <2> QED
    BY <2>1, <2>3, <2>4
<1>6. \/ {truth.distribution, truth.codename} \intersect stage.dists # {}
      \/ \E v \in stage.dists : NameContains(c[2], v)
  BY <1>1 DEF CandidatesAreWanted
<1> QED
  BY <1>1, <1>5, <1>6

(* Where its name is clear about the wanted distributions, a candidate     *)
(* is of one of them as derivation would say, whether its columns are      *)
(* filled or empty (search/filters.py and collect/derive.py mean the same).*)
THEOREM ClearCandidatesFit == SearchSpec => [](NamesAreClear => CandidatesFit)
<1>1. SearchSpec => []Laddered
  BY InitLaddered, NextLaddered, PTL DEF SearchSpec
<1>2. Laddered /\ CandidatesAreWanted => (NamesAreClear => CandidatesFit)
  BY WantedAndClear
<1> QED
  BY <1>1, <1>2, CandidatesAreOfWanted, PTL

=============================================================================
