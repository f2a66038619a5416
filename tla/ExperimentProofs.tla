-------------------------- MODULE ExperimentProofs --------------------------
(***************************************************************************)
(* Proofs about the experiments.  About Trial, for every set of settings,  *)
(* prices, measurements and bounds: a study that concludes does so about   *)
(* one state of the database.  About Review, for all result files, sample  *)
(* sizes and edits of the sheet: what a score says of an arm rests on a    *)
(* complete review, and the sample drawn for it is fair.  About            *)
(* RemoteCall, for every client and every answer: what a call counts and   *)
(* waits for is what it did.                                               *)
(***************************************************************************)
EXTENDS Trial, Review, RemoteCall, ListProofs

-----------------------------------------------------------------------------
Sides == {"before", "after"}

(* What is measured, and the result files made of it.                      *)
AllMeasured == UNION {Measurements[name] : name \in Names}
RoundRows ==
  [hits : {m.hits : m \in AllMeasured}, seconds : {m.seconds : m \in AllMeasured},
   request : {m.request : m \in AllMeasured}, calls : {m.calls : m \in AllMeasured},
   world : Nat, inside : BOOLEAN]

TrialTyped ==
  /\ study \in {"plan", "recommend"}
  /\ world \in Nat
  /\ snaps \in [Rounds -> [Sides -> Nat \union {Unknown}]]
  /\ results \in [Names -> Seq(RoundRows)]

(* A snapshot shows a state there was.                                     *)
SnapsTaken ==
  \A scope \in Rounds, side \in Sides :
    snaps[scope][side] # Unknown => snaps[scope][side] <= world

(* A round came after the first snapshot of its scope, and one measured    *)
(* inside came before the second: the states they saw are in this order.   *)
Dated(row, scope) ==
  /\ scope \in Rounds
  /\ snaps[scope]["before"] # Unknown
  /\ snaps[scope]["before"] <= row.world
  /\ row.world <= world
  /\ row.inside /\ snaps[scope]["after"] # Unknown => row.world <= snaps[scope]["after"]

AllDated == \A name \in Names : \A i \in 1..RoundsOf(name) : Dated(results[name][i], Scope(i))

(* A conclusion was drawn from snapshots that agree, and stays the last    *)
(* word.                                                                   *)
Concluded == ~IsOpen => \A scope \in Scopes : SameDatabase(scope)

TrialInv == TrialTyped /\ SnapsTaken /\ AllDated /\ Concluded

-----------------------------------------------------------------------------
LEMMA RowFields ==
  ASSUME NEW row \in RoundRows
  PROVE  row.world \in Nat /\ row.inside \in BOOLEAN
BY DEF RoundRows

LEMMA TrialStarts == ASSUME TrialInit PROVE TrialInv
<1>1. TrialTyped
  BY TrialAssumption DEF TrialInit, TrialTyped, Sides
<1>2. SnapsTaken
  BY DEF TrialInit, SnapsTaken, Sides
<1>3. AllDated
  BY DEF TrialInit, AllDated, RoundsOf
<1>4. Concluded
  BY DEF TrialInit, Concluded, IsOpen, NoVerdict
<1> QED
  BY <1>1, <1>2, <1>3, <1>4 DEF TrialInv

(* The database moves on: every order stays.                               *)
LEMMA ChangeKeeps == ASSUME TrialInv, IsOpen, Change PROVE TrialInv'
<1>1. /\ world \in Nat /\ world' = world + 1
      /\ UNCHANGED <<study, snaps, results, verdict>>
  BY DEF TrialInv, TrialTyped, Change
<1>2. TrialTyped'
  BY <1>1 DEF TrialInv, TrialTyped
<1>3. SnapsTaken'
  <2>1. SUFFICES ASSUME NEW scope \in Rounds, NEW side \in Sides, snaps[scope][side] # Unknown
                 PROVE  snaps[scope][side] <= world'
    BY <1>1 DEF SnapsTaken
  <2>2. snaps[scope][side] \in Nat /\ snaps[scope][side] <= world
    BY <2>1 DEF TrialInv, TrialTyped, SnapsTaken
  <2> QED
    BY <1>1, <2>2
<1>4. AllDated'
  <2>1. SUFFICES ASSUME NEW name \in Names, NEW i \in 1..RoundsOf(name)
                 PROVE  Dated(results[name][i], Scope(i))'
    BY <1>1 DEF AllDated, RoundsOf
  <2>2. results[name][i].world \in Nat
    BY <2>1, RowFields DEF TrialInv, TrialTyped, RoundsOf
  <2>3. Dated(results[name][i], Scope(i))
    BY <2>1 DEF TrialInv, AllDated
  <2> QED
    BY <1>1, <2>2, <2>3 DEF Dated, Scope
<1>5. Concluded'
  BY <1>1 DEF Concluded, IsOpen
<1> QED
  BY <1>2, <1>3, <1>4, <1>5 DEF TrialInv

(* The new snapshot shows the present, which no row is later than.         *)
LEMMA SnapshotKeeps ==
  ASSUME TrialInv, IsOpen, NEW round \in Rounds, NEW when \in Sides, Snapshot(round, when)
  PROVE  TrialInv'
<1>1. /\ snaps[round][when] = Unknown
      /\ snaps' = [snaps EXCEPT ![round][when] = world]
      /\ UNCHANGED <<study, world, results, verdict>>
  BY DEF Snapshot
<1>2. world \in Nat /\ snaps \in [Rounds -> [Sides -> Nat \union {Unknown}]]
  BY DEF TrialInv, TrialTyped
<1>3. TrialTyped'
  BY <1>1, <1>2 DEF TrialInv, TrialTyped
<1>4. \A scope \in Rounds, side \in Sides :
        snaps'[scope][side] = IF scope = round /\ side = when THEN world ELSE snaps[scope][side]
  BY <1>1, <1>2
<1>5. SnapsTaken'
  BY <1>1, <1>2, <1>4 DEF TrialInv, SnapsTaken
<1>6. AllDated'
  <2>1. SUFFICES ASSUME NEW name \in Names, NEW i \in 1..RoundsOf(name)
                 PROVE  Dated(results[name][i], Scope(i))'
    BY <1>1 DEF AllDated, RoundsOf
  <2>2. Dated(results[name][i], Scope(i)) /\ Scope(i)' = Scope(i)
    BY <1>1, <2>1 DEF TrialInv, AllDated, Scope
  <2>3. Scope(i) \in Rounds /\ "before" \in Sides /\ "after" \in Sides
    BY <2>2 DEF Dated, Sides
  <2>4. snaps'[Scope(i)]["before"] = snaps[Scope(i)]["before"]
    BY <1>1, <1>4, <2>2, <2>3 DEF Dated
  <2>5. \/ snaps'[Scope(i)]["after"] = snaps[Scope(i)]["after"]
        \/ snaps'[Scope(i)]["after"] = world
    BY <1>4, <2>3
  <2> QED
    BY <1>1, <2>2, <2>4, <2>5 DEF Dated
<1>7. Concluded'
  BY <1>1 DEF Concluded, IsOpen
<1> QED
  BY <1>3, <1>5, <1>6, <1>7 DEF TrialInv

(* The new row saw the present: after the first snapshot, and, inside,     *)
(* before the second is taken.                                             *)
LEMMA MeasureKeeps ==
  ASSUME TrialInv, IsOpen, NEW name \in Names, Measure(name)
  PROVE  TrialInv'
<1> DEFINE round == RoundsOf(name) + 1
<1>1. /\ round <= MaxRounds
      /\ snaps[Scope(round)]["before"] # Unknown
      /\ UNCHANGED <<study, world, snaps>>
      /\ verdict' = NoVerdict \/ verdict' = verdict
  BY DEF Measure
<1>2. PICK measured \in Measurements[name] :
        results' = [results EXCEPT ![name] = Append(@, Row(measured, round))]
  BY DEF Measure
<1> DEFINE row == Row(measured, round)
<1>3. /\ study \in {"plan", "recommend"} /\ world \in Nat /\ results[name] \in Seq(RoundRows)
      /\ results \in [Names -> Seq(RoundRows)]
  BY DEF TrialInv, TrialTyped
<1>4. /\ row.world = world
      /\ row.inside => snaps[Scope(round)]["after"] = Unknown
      /\ row \in RoundRows
  <2>1. row.world = world /\ (row.inside => snaps[Scope(round)]["after"] = Unknown)
    BY DEF Row
  <2>2. measured \in AllMeasured
    BY <1>2 DEF AllMeasured
  <2>3. (snaps[Scope(round)]["after"] = Unknown) \in BOOLEAN
    OBVIOUS
  <2> QED
    BY <1>3, <2>1, <2>2, <2>3 DEF Row, RoundRows
<1>5. RoundsOf(name) \in Nat
  BY <1>3 DEF RoundsOf
<1>6. Scope(round) \in Rounds
  BY <1>1, <1>3, <1>5, TrialAssumption DEF Scope, Rounds
<1> HIDE DEF row
<1>7. /\ results'[name] = Append(results[name], row)
      /\ results' \in [Names -> Seq(RoundRows)]
      /\ \A other \in Names \ {name} : results'[other] = results[other]
  BY <1>2, <1>3, <1>4 DEF row
<1>8. TrialTyped'
  BY <1>1, <1>7 DEF TrialInv, TrialTyped
<1>9. SnapsTaken'
  BY <1>1 DEF TrialInv, SnapsTaken
<1>10. Dated(row, Scope(round))
  <2>1. snaps[Scope(round)]["before"] <= world
    BY <1>1, <1>6 DEF TrialInv, SnapsTaken, Sides
  <2>2. world <= world
    BY <1>3
  <2> QED
    BY <1>1, <1>4, <1>6, <2>1, <2>2, Zenon DEF Dated
<1>11. AllDated'
  <2>1. SUFFICES ASSUME NEW other \in Names, NEW i \in 1..RoundsOf(other)'
                 PROVE  Dated(results'[other][i], Scope(i))
    BY <1>1 DEF AllDated, Dated, Scope
  <2>2. CASE other # name
    BY <1>7, <2>1, <2>2 DEF TrialInv, AllDated, RoundsOf
  <2>3. CASE other = name
    <3>1. RoundsOf(name)' = round
      BY <1>3, <1>4, <1>7 DEF RoundsOf
    <3>2. CASE i = round
      BY <1>3, <1>4, <1>5, <1>7, <1>10, <2>3, <3>2 DEF RoundsOf
    <3>3. CASE i # round
      <4>1. i \in 1..RoundsOf(name)
        BY <1>5, <2>1, <2>3, <3>1, <3>3
      <4>2. results'[name][i] = results[name][i]
        BY <1>3, <1>4, <1>7, <4>1 DEF RoundsOf
      <4> QED
        BY <2>3, <4>1, <4>2 DEF TrialInv, AllDated
    <3> QED
      BY <3>2, <3>3
  <2> QED
    BY <2>2, <2>3
<1>12. Concluded'
  BY <1>1 DEF Concluded, IsOpen, NoVerdict
<1> QED
  BY <1>8, <1>9, <1>11, <1>12 DEF TrialInv

(* A summary concludes only from snapshots that agree: else it is invalid. *)
LEMMA SummarizeKeeps == ASSUME TrialInv, Summarize PROVE TrialInv'
<1>1. UNCHANGED <<study, world, snaps, results>> /\ verdict'.kind = Summary.kind
  BY DEF Summarize
<1>2. TrialTyped' /\ SnapsTaken' /\ AllDated'
  BY <1>1 DEF TrialInv, TrialTyped, SnapsTaken, AllDated, Dated, Scope, RoundsOf
<1>3. Concluded'
  <2>1. CASE \A scope \in Scopes : SameDatabase(scope)
    BY <1>1, <2>1 DEF Concluded, Scopes, SameDatabase, Present, RoundsOf
  <2>2. CASE ~ \A scope \in Scopes : SameDatabase(scope)
    <3>1. Summary.kind = "invalid"
      BY <2>2 DEF Summary, Outcome
    <3> QED
      BY <1>1, <3>1 DEF Concluded, IsOpen
  <2> QED
    BY <2>1, <2>2
<1> QED
  BY <1>2, <1>3 DEF TrialInv

LEMMA TrialKeeps == ASSUME TrialInv, [TrialNext]_trialVars PROVE TrialInv'
<1>1. CASE UNCHANGED trialVars
  BY <1>1 DEF trialVars, TrialInv, TrialTyped, SnapsTaken, AllDated, Dated, Scope, RoundsOf,
                   Concluded, IsOpen,
              Scopes, SameDatabase, Present
<1>2. CASE TrialNext
  <2>1. IsOpen
    BY <1>2 DEF TrialNext
  <2>2. CASE Change
    BY <2>1, <2>2, ChangeKeeps
  <2>3. CASE \E round \in Rounds, when \in Sides : Snapshot(round, when)
    BY <2>1, <2>3, SnapshotKeeps
  <2>4. CASE \E name \in Names : Measure(name)
    BY <2>1, <2>4, MeasureKeeps
  <2>5. CASE Summarize
    BY <2>5, SummarizeKeeps
  <2> QED
    BY <1>2, <2>2, <2>3, <2>4, <2>5 DEF TrialNext, Sides
<1> QED
  BY <1>1, <1>2

(* Between snapshots that agree the database stood still.                  *)
LEMMA AgreeingSnapshots == ASSUME TrialInv PROVE OneDatabase
<1>1. SUFFICES ASSUME ~IsOpen, NEW scope \in Scopes
               PROVE  \A name \in Names : \A i \in Inside(name, scope) :
                        results[name][i].world = snaps[scope]["before"]
  BY DEF OneDatabase, IsOpen
<1> DEFINE state == snaps[scope]["before"]
<1>2. state # Unknown /\ snaps[scope]["after"] = state
  BY <1>1 DEF TrialInv, Concluded, SameDatabase, Present
<1>3. SUFFICES ASSUME NEW name \in Names, NEW i \in Inside(name, scope)
               PROVE  results[name][i].world = state
  OBVIOUS
<1>4. i \in 1..RoundsOf(name) /\ Scope(i) = scope /\ results[name][i].inside
  BY <1>3 DEF Inside
<1>5. results[name][i].world \in Nat
  BY <1>4, RowFields DEF TrialInv, TrialTyped, RoundsOf
<1>6. Dated(results[name][i], scope)
  BY <1>4 DEF TrialInv, AllDated
<1>7. state \in Nat
  BY <1>2, <1>6 DEF Dated, TrialInv, TrialTyped, Sides
<1> QED
  BY <1>2, <1>4, <1>5, <1>6, <1>7 DEF Dated

(* Whatever is measured and whenever the database changes: a study that    *)
(* ends with a setting, without one, or undecided compared rounds that saw *)
(* one state of the database, scope by scope (summarize, choose).          *)
THEOREM ComparesOneDatabase == TrialSpec => []OneDatabase
<1>1. TrialInit => TrialInv
  BY TrialStarts
<1>2. TrialInv /\ [TrialNext]_trialVars => TrialInv'
  BY TrialKeeps
<1>3. TrialInv => OneDatabase
  BY AgreeingSnapshots
<1> QED
  BY <1>1, <1>2, <1>3, PTL DEF TrialSpec

-----------------------------------------------------------------------------
(* Ratios compared by cross-multiplication are ordered.                    *)
LEMMA RatiosAreOrdered ==
  ASSUME NEW a \in Int, NEW b \in Int, NEW c \in Int,
         NEW m \in Nat \ {0}, NEW n \in Nat \ {0}, NEW k \in Nat \ {0},
         a * n <= b * m, b * k <= c * n
  PROVE  a * k <= c * m
OBVIOUS

-----------------------------------------------------------------------------
(* A sum of natural numbers is one: it is a fold, which visits the places  *)
(* of the sequence one by one.                                             *)
LEMMA SumIsNat == ASSUME NEW values \in Seq(Nat) PROVE SumOf(values) \in Nat
<1> DEFINE n == Len(values)
           step == [i \in 1..n |-> [x \in Nat |-> x + values[i]]]
           IsIter(iter) == iter = [s \in SUBSET (1..n) |->
                             IF s = {} THEN 0 ELSE iter[s \ {Max(s)}] + values[Max(s)]]
           iter == CHOOSE iter : IsIter(iter)
<1>1. n \in Nat /\ DOMAIN values = 1..n /\ \A i \in 1..n : values[i] \in Nat
  OBVIOUS
<1>2. \A i \in 1..n : \A x \in Nat : x + values[i] \in Nat
  BY <1>1
<1>3. step \in [1..n -> [Nat -> Nat]]
  BY <1>2, Zenon
<1>4. PICK table : IsFoldTable(table, n, Nat, 0, step)
  <2>1. 0 \in Nat
    OBVIOUS
  <2> HIDE DEF step, n
  <2> QED
    BY <1>1, <1>3, <2>1, FoldTableExists
<1>5. \A s \in SUBSET (1..n) : s # {} => Max(s) \in 1..n /\ s \ {Max(s)} \in SUBSET (1..n)
  <2>1. TAKE s \in SUBSET (1..n)
  <2>2. HAVE s # {}
  <2>3. \A i \in s : i \in Nat /\ i <= n
    BY <1>1
  <2>4. s \in SUBSET Nat
    BY <2>3
  <2>5. \E i \in s : \A j \in s : j <= i
    <3> HIDE DEF n
    <3> QED
      BY <1>1, <2>2, <2>3, <2>4, GreatestExists
  <2>6. Max(s) \in s
    BY <2>3, <2>5 DEF Max
  <2> QED
    BY <2>6, Zenon
<1>6. IsIter(table)
  <2>1. ASSUME NEW s \in SUBSET (1..n), s # {}
        PROVE  FoldStep(s, 0, step, table) = table[s \ {Max(s)}] + values[Max(s)]
    <3>1. Max(s) \in 1..n /\ s \ {Max(s)} \in SUBSET (1..n)
      BY <1>5, <2>1
    <3>2. table[s \ {Max(s)}] \in Nat
      BY <1>4, <3>1, Zenon DEF IsFoldTable
    <3> QED
      BY <2>1, <3>1, <3>2, Zenon DEF FoldStep
  <2>2. \A s \in SUBSET (1..n) :
          table[s] = IF s = {} THEN 0 ELSE table[s \ {Max(s)}] + values[Max(s)]
    BY <1>4, <2>1, Zenon DEF IsFoldTable, FoldStep
  <2>3. table = [s \in SUBSET (1..n) |-> table[s]]
    BY <1>4, Zenon DEF IsFoldTable
  <2> QED
    BY <2>2, <2>3, Zenon
<1>7. IsIter(iter)
  BY <1>6, Zenon
<1>8. SumOf(values) = iter[1..n]
  BY <1>1, Zenon DEF SumOf, FoldLeft, MapThenFoldSet
<1> HIDE DEF iter
<1> DEFINE at(k) == iter[1..k]
           T == {k \in Nat : k <= n => at(k) \in Nat}
<1>9. 0 \in T
  <2>1. 1..0 \in SUBSET (1..n) /\ 1..0 = {} /\ 0 \in Nat
    BY <1>1
  <2>2. iter[1..0] = 0
    BY <1>7, <2>1, Zenon
  <2> QED
    BY <2>1, <2>2
<1>10. \A k \in T : k + 1 \in T
  <2>1. SUFFICES ASSUME NEW k \in Nat, k + 1 <= n, at(k) \in Nat
                 PROVE  at(k + 1) \in Nat
    <3> HIDE DEF at
    <3> QED
      BY <1>1
  <2>2. 1..(k + 1) \in SUBSET (1..n) /\ k + 1 \in Nat \ {0} /\ (k + 1) - 1 = k /\ k + 1 \in 1..n
    BY <1>1, <2>1
  <2>3. Max(1..(k + 1)) = k + 1 /\ (1..(k + 1)) \ {Max(1..(k + 1))} = 1..((k + 1) - 1)
          /\ 1..(k + 1) # {}
    BY <2>2, LastOfFirst
  <2>4. at(k + 1) = at(k) + values[k + 1]
    BY <1>7, <2>2, <2>3, Zenon
  <2> HIDE DEF at
  <2> QED
    BY <1>1, <2>1, <2>2, <2>4
<1>11. T = Nat
  <2>1. T \in SUBSET Nat
    OBVIOUS
  <2> HIDE DEF T
  <2> QED
    BY <1>9, <1>10, <2>1, HasAllNumbers
<1>12. n \in T /\ n <= n
  BY <1>1, <1>11
<1> QED
  BY <1>8, <1>12

(* A known sum is of known values.                                         *)
LEMMA SumIsKnown ==
  ASSUME NEW values \in Seq(Nat \union {Unknown})
  PROVE  /\ SumOrUnknown(values) \in Nat \union {Unknown}
         /\ SumOrUnknown(values) # Unknown => \A i \in DOMAIN values : values[i] # Unknown
<1>1. CASE Unknown \in ToSet(values)
  BY <1>1 DEF SumOrUnknown
<1>2. CASE Unknown \notin ToSet(values)
  <2>1. \A i \in DOMAIN values : values[i] # Unknown
    BY <1>2 DEF ToSet
  <2>2. values \in Seq(Nat)
    BY <2>1
  <2> QED
    BY <1>2, <2>1, <2>2, SumIsNat DEF SumOrUnknown
<1> QED
  BY <1>1, <1>2

(* Of some values that are numbers, the greatest is not exceeded by any.   *)
LEMMA RankIsNat ==
  ASSUME NEW values, IsFiniteSet(DOMAIN values), DOMAIN values # {},
         \A place \in DOMAIN values : values[place] \in Nat
  PROVE  NearestRank(values, 95) \in Nat
<1> DEFINE places == DOMAIN values
           order == {pair \in places \X places : values[pair[1]] <= values[pair[2]]}
           enough == {p \in places :
             100 * Cardinality(NotAbove(values, values[p])) >= 95 * Cardinality(places)}
<1>1. \A x, y \in places : <<x, y>> \in order <=> values[x] <= values[y]
  OBVIOUS
<1>2. PICK top \in places : \A x \in places : <<x, top>> \in order
  <2>1. IsTransitive(places, order)
    <3>1. ASSUME NEW x \in places, NEW y \in places, NEW z \in places,
                 <<x, y>> \in order, <<y, z>> \in order
          PROVE  <<x, z>> \in order
      <4>1. values[x] <= values[y] /\ values[y] <= values[z]
        BY <1>1, <3>1
      <4>2. values[x] <= values[z]
        BY <4>1
      <4> QED
        BY <1>1, <4>2
    <3> QED
      BY <3>1, Zenon DEF IsTransitive
  <2>2. \A x, y \in places : <<x, y>> \in order \/ <<y, x>> \in order
    <3>1. \A x, y \in places : values[x] <= values[y] \/ values[y] <= values[x]
      OBVIOUS
    <3> QED
      BY <1>1, <3>1
  <2> HIDE DEF order
  <2> QED
    BY <2>1, <2>2, ChainHasTop
<1>3. NotAbove(values, values[top]) = places
  BY <1>1, <1>2 DEF NotAbove
<1>4. top \in enough
  <2>1. PICK c : c = Cardinality(places)
    OBVIOUS
  <2>2. c \in Nat
    BY <2>1, FS_CardinalityType
  <2>3. 100 * c >= 95 * c
    BY <2>2
  <2> QED
    BY <1>3, <2>1, <2>3
<1> DEFINE found == {values[p] : p \in enough}
<1>5. found \in SUBSET Nat /\ found # {}
  BY <1>4
<1>6. NearestRank(values, 95) = Min(found)
  BY DEF NearestRank
<1> HIDE DEF found
<1> QED
  BY <1>5, <1>6, MinIsLeast

(* The times of some rounds have a rank if each round has times.           *)
LEMMA SpreadRank ==
  ASSUME NEW times, IsFiniteSet(DOMAIN times), DOMAIN times # {},
         \A i \in DOMAIN times : times[i] \in Seq(Nat) /\ times[i] # <<>>
  PROVE  NearestRank(Spread(times), 95) \in Nat
<1> DEFINE at(i) == {i} \X DOMAIN times[i]
           parts == {at(i) : i \in DOMAIN times}
           places == UNION parts
<1>1. ASSUME NEW i \in DOMAIN times
      PROVE  /\ IsFiniteSet(at(i)) /\ <<i, 1>> \in at(i)
             /\ \A place \in at(i) : times[place[1]][place[2]] \in Nat
  <2>1. PICK n \in Nat : n # 0 /\ DOMAIN times[i] = 1..n
    <3>1. Len(times[i]) \in Nat /\ DOMAIN times[i] = 1..Len(times[i]) /\ Len(times[i]) # 0
      OBVIOUS
    <3> QED
      BY <3>1
  <2>2. IsFiniteSet({i}) /\ IsFiniteSet(1..n)
    BY FS_Singleton, FS_Interval, 1 \in Int, n \in Int
  <2>3. 1 \in 1..n /\ \A k \in 1..n : times[i][k] \in Nat
    BY <2>1
  <2>4. IsFiniteSet({i} \X (1..n))
    BY <2>2, FS_Product
  <2> QED
    BY <2>1, <2>3, <2>4
<1>2. IsFiniteSet(places)
  <2>1. IsFiniteSet(parts)
    <3>1. [i \in DOMAIN times |-> at(i)] \in Surjection(DOMAIN times, parts)
      <4> HIDE DEF at
      <4> QED
        BY DEF Surjection
    <3> HIDE DEF parts
    <3> QED
      BY <3>1, FS_Surjection
  <2>2. \A part \in parts : IsFiniteSet(part)
    BY <1>1
  <2> HIDE DEF parts
  <2> QED
    BY <2>1, <2>2, FS_UNION
<1>3. places # {} /\ \A place \in places : times[place[1]][place[2]] \in Nat
  <2> HIDE DEF at
  <2> QED
    BY <1>1
<1>4. Spread(times) = [place \in places |-> times[place[1]][place[2]]]
  BY Zenon DEF Spread
<1>5. DOMAIN Spread(times) = places /\ \A place \in places : Spread(times)[place] \in Nat
  <2> HIDE DEF places
  <2> QED
    BY <1>3, <1>4
<1> HIDE DEF places
<1> QED
  BY <1>2, <1>3, <1>5, RankIsNat

-----------------------------------------------------------------------------
(* What a result file holds.                                               *)
LEMMA RowIsMeasured ==
  ASSUME NEW row \in RoundRows
  PROVE  /\ row.hits \in Nat \X Nat
         /\ row.seconds \in Seq(Nat) /\ row.seconds # <<>>
         /\ row.request \in Seq(Nat) /\ row.request # <<>>
         /\ row.calls \in Seq(ToSet(row.calls))
         /\ \A call \in ToSet(row.calls) :
              /\ call.input \in Nat \union {Unknown} /\ call.output \in Nat \union {Unknown}
              /\ call.reasoning \in Nat \union {Unknown}
<1>1. /\ row.hits \in {m.hits : m \in AllMeasured}
      /\ row.seconds \in {m.seconds : m \in AllMeasured}
      /\ row.request \in {m.request : m \in AllMeasured}
      /\ row.calls \in {m.calls : m \in AllMeasured}
  BY DEF RoundRows
<1>2. \A m \in AllMeasured : IsMeasured(m)
  BY TrialAssumption DEF AllMeasured
<1>3. row.hits \in Nat \X Nat
  BY <1>1, <1>2 DEF IsMeasured
<1>4. row.seconds \in Seq(Nat) /\ row.seconds # <<>>
  BY <1>1, <1>2 DEF IsMeasured
<1>5. row.request \in Seq(Nat) /\ row.request # <<>>
  BY <1>1, <1>2 DEF IsMeasured
<1>6. PICK m \in AllMeasured : row.calls = m.calls
  BY <1>1
<1> QED
  BY <1>2, <1>3, <1>4, <1>5, <1>6, Zenon DEF IsMeasured

LEMMA HitsAreNat ==
  ASSUME NEW row \in RoundRows
  PROVE  Hits(row) \in Seq(Nat) /\ SumOf(Hits(row)) \in Nat
<1>1. row.hits \in Nat \X Nat
  BY RowIsMeasured
<1>2. row.hits \in Seq(Nat) /\ <<row.hits[2]>> \in Seq(Nat)
  <2>1. PICK a \in Nat, b \in Nat : row.hits = <<a, b>>
    BY <1>1
  <2>2. row.hits[2] = b
    BY <2>1
  <2> QED
    BY <2>1, <2>2
<1>3. Hits(row) \in Seq(Nat)
  BY <1>2 DEF Hits
<1> QED
  BY <1>3, SumIsNat

(* The rounds of a setting.                                                *)
LEMMA RoundsTyped ==
  ASSUME TrialTyped, NEW name \in Names
  PROVE  /\ RoundsOf(name) \in Nat /\ DOMAIN results[name] = 1..RoundsOf(name)
         /\ IsFiniteSet(DOMAIN results[name])
         /\ \A i \in DOMAIN results[name] : results[name][i] \in RoundRows
         /\ name \in Measured <=> RoundsOf(name) # 0
         /\ name \in Measured <=> DOMAIN results[name] # {}
<1>1. results[name] \in Seq(RoundRows)
  BY DEF TrialTyped
<1>2. /\ RoundsOf(name) \in Nat /\ DOMAIN results[name] = 1..RoundsOf(name)
      /\ \A i \in DOMAIN results[name] : results[name][i] \in RoundRows
      /\ results[name] # <<>> <=> RoundsOf(name) # 0
  BY <1>1 DEF RoundsOf
<1>3. IsFiniteSet(1..RoundsOf(name))
  BY <1>2, FS_Interval, 1 \in Int, RoundsOf(name) \in Int
<1>4. RoundsOf(name) # 0 <=> 1..RoundsOf(name) # {}
  BY <1>2
<1> QED
  BY <1>2, <1>3, <1>4 DEF Measured

(* A measured setting has a time, a number of hits, and a cost unless a    *)
(* call did not say what it cost.                                          *)
LEMMA TimeIsNat == ASSUME TrialTyped, NEW name \in Measured PROVE P95(name) \in Nat
<1>1. name \in Names /\ DOMAIN results[name] # {} /\ IsFiniteSet(DOMAIN results[name])
  BY RoundsTyped DEF Measured
<1> DEFINE used == IF Trusted(name) THEN CleanRounds(name) ELSE DOMAIN results[name]
           times == [i \in used |-> results[name][i].seconds]
<1>2. used \in SUBSET DOMAIN results[name] /\ used # {}
  BY <1>1 DEF Trusted, CleanRounds
<1>3. IsFiniteSet(used)
  BY <1>1, <1>2, FS_Subset
<1>4. P95(name) = NearestRank(Spread(times), 95)
  BY Zenon DEF P95, Seconds
<1> HIDE DEF used
<1>5. \A i \in used : results[name][i].seconds \in Seq(Nat) /\ results[name][i].seconds # <<>>
  <2>1. TAKE i \in used
  <2>2. results[name][i] \in RoundRows
    BY <1>1, <1>2, RoundsTyped
  <2> QED
    BY <2>2, RowIsMeasured
<1>6. DOMAIN times = used /\ \A i \in used : times[i] = results[name][i].seconds
  BY Zenon
<1> HIDE DEF times
<1> QED
  BY <1>2, <1>3, <1>4, <1>5, <1>6, SpreadRank

LEMMA AccuracyIsNat == ASSUME TrialTyped, NEW name \in Measured PROVE Accuracy(name) \in Nat
<1>1. name \in Names
  BY DEF Measured
<1> DEFINE n == RoundsOf(name)
           counts == [i \in 1..n |-> SumOf(Hits(results[name][i]))]
<1>2. n \in Nat /\ DOMAIN results[name] = 1..n
  BY <1>1, RoundsTyped
<1>3. \A i \in 1..n : SumOf(Hits(results[name][i])) \in Nat
  BY <1>1, <1>2, RoundsTyped, HitsAreNat
<1>4. counts \in Seq(Nat)
  <2> HIDE DEF n
  <2> QED
    BY <1>2, <1>3
<1>5. Accuracy(name) = SumOf(counts)
  BY <1>2, Zenon DEF Accuracy
<1> HIDE DEF counts
<1> QED
  BY <1>4, <1>5, SumIsNat

LEMMA SimilarIsNat == ASSUME TrialTyped, BASELINE \in Measured PROVE Similar \in Nat
<1>1. CASE study # "plan"
  BY <1>1, TrialAssumption DEF Similar
<1>2. CASE study = "plan"
  <2> DEFINE times == [i \in DOMAIN results[BASELINE] |-> results[BASELINE][i].request]
  <2>1. Similar = NearestRank(Spread(times), 95)
    BY <1>2, Zenon DEF Similar
  <2>2. DOMAIN times = DOMAIN results[BASELINE]
    BY Zenon
  <2>3. DOMAIN times # {} /\ IsFiniteSet(DOMAIN times)
    BY <2>2, RoundsTyped, TrialAssumption
  <2>4. \A i \in DOMAIN times : times[i] \in Seq(Nat) /\ times[i] # <<>>
    <3>1. TAKE i \in DOMAIN times
    <3>2. results[BASELINE][i] \in RoundRows
      BY <2>2, RoundsTyped, TrialAssumption
    <3> QED
      BY <2>2, <3>2, RowIsMeasured
  <2> HIDE DEF times
  <2> QED
    BY <2>1, <2>3, <2>4, SpreadRank
<1> QED
  BY <1>1, <1>2

(* The bill of a call is known if its tokens are and the rule is.          *)
Tells(call, rule) ==
  /\ Unknown \notin {rule, call.input, call.output}
  /\ rule = "completion+reasoning" => call.reasoning # Unknown

LEMMA BillIsTold ==
  ASSUME NEW call, NEW rule,
         call.input \in Nat \union {Unknown}, call.output \in Nat \union {Unknown},
         call.reasoning \in Nat \union {Unknown}
  PROVE  /\ BilledOutput(call, rule) \in Nat \union {Unknown}
         /\ call.input # Unknown /\ BilledOutput(call, rule) # Unknown => Tells(call, rule)
<1>1. CASE rule = Unknown \/ call.output = Unknown
  BY <1>1 DEF BilledOutput
<1>2. CASE rule # Unknown /\ call.output # Unknown /\ rule = "completion+reasoning"
  <2>1. CASE call.reasoning = Unknown
    BY <1>2, <2>1 DEF BilledOutput
  <2>2. CASE call.reasoning # Unknown
    <3>1. BilledOutput(call, rule) = call.output + call.reasoning
      BY <1>2, <2>2 DEF BilledOutput
    <3>2. call.output + call.reasoning \in Nat
      BY <1>2, <2>2
    <3> QED
      BY <1>2, <2>2, <3>1, <3>2 DEF Tells
  <2> QED
    BY <2>1, <2>2
<1>3. CASE rule # Unknown /\ call.output # Unknown /\ rule # "completion+reasoning"
  BY <1>3 DEF BilledOutput, Tells
<1> QED
  BY <1>1, <1>2, <1>3

(* The cost of a round is known only if each of its calls told.            *)
LEMMA UsageIsTold ==
  ASSUME NEW name \in Names, NEW row \in RoundRows
  PROVE  /\ UsageOf(name, row.calls) \in Nat \union {Unknown}
         /\ UsageOf(name, row.calls) # Unknown =>
              \A k \in DOMAIN row.calls : Tells(row.calls[k], Configs[name].rule)
<1> DEFINE told == row.calls
           n == Len(told)
           rule == Configs[name].rule
           inputs == [i \in DOMAIN told |-> told[i].input]
           outputs == [i \in DOMAIN told |-> BilledOutput(told[i], rule)]
           in == SumOrUnknown(inputs)
           out == SumOrUnknown(outputs)
<1>1. n \in Nat /\ DOMAIN told = 1..n /\ \A i \in 1..n : told[i] \in ToSet(told)
  <2>1. told \in Seq(ToSet(told))
    BY RowIsMeasured
  <2> QED
    BY <2>1
<1>2. \A i \in 1..n : /\ told[i].input \in Nat \union {Unknown}
                      /\ told[i].output \in Nat \union {Unknown}
                      /\ told[i].reasoning \in Nat \union {Unknown}
  BY <1>1, RowIsMeasured
<1> HIDE DEF told, n, rule
<1>3. \A i \in 1..n : BilledOutput(told[i], rule) \in Nat \union {Unknown}
  BY <1>2, BillIsTold
<1>4. inputs \in Seq(Nat \union {Unknown}) /\ outputs \in Seq(Nat \union {Unknown})
  BY <1>1, <1>2, <1>3
<1>5. /\ DOMAIN inputs = 1..n /\ DOMAIN outputs = 1..n
      /\ \A i \in 1..n : inputs[i] = told[i].input /\ outputs[i] = BilledOutput(told[i], rule)
  BY <1>1
<1>6. UsageOf(name, told) = IF in = Unknown \/ out = Unknown THEN Unknown
                             ELSE in * Configs[name].input + out * Configs[name].output
  BY Zenon DEF UsageOf, rule
<1> HIDE DEF inputs, outputs
<1>7. /\ in \in Nat \union {Unknown} /\ (in # Unknown => \A i \in 1..n : inputs[i] # Unknown)
      /\ out \in Nat \union {Unknown} /\ (out # Unknown => \A i \in 1..n : outputs[i] # Unknown)
  BY <1>4, <1>5, SumIsKnown
<1> HIDE DEF in, out
<1>8. CASE in = Unknown \/ out = Unknown
  BY <1>6, <1>8 DEF told
<1>9. CASE in # Unknown /\ out # Unknown
  <2>1. in \in Nat /\ out \in Nat /\ Configs[name].input \in Nat /\ Configs[name].output \in Nat
    BY <1>7, <1>9, TrialAssumption
  <2>2. in * Configs[name].input + out * Configs[name].output \in Nat
    BY <2>1
  <2>3. UsageOf(name, told) \in Nat
    BY <1>6, <1>9, <2>2
  <2>4. \A i \in 1..n : Tells(told[i], rule)
    <3>1. TAKE i \in 1..n
    <3>2. told[i].input # Unknown /\ BilledOutput(told[i], rule) # Unknown
      BY <1>5, <1>7, <1>9
    <3> QED
      BY <1>2, <3>2, BillIsTold
  <2> QED
    BY <1>1, <2>3, <2>4, Zenon DEF told, rule
<1> QED
  BY <1>8, <1>9

LEMMA CostIsTold ==
  ASSUME TrialTyped, NEW name \in Measured
  PROVE  /\ Cost(name) \in Nat \union {Unknown}
         /\ Cost(name) # Unknown => IsReported(name)
<1>1. name \in Names
  BY DEF Measured
<1> DEFINE n == RoundsOf(name)
           usages == [i \in DOMAIN results[name] |-> UsageOf(name, results[name][i].calls)]
<1>2. n \in Nat /\ DOMAIN results[name] = 1..n
  BY <1>1, RoundsTyped
<1>3. \A i \in 1..n :
        /\ UsageOf(name, results[name][i].calls) \in Nat \union {Unknown}
        /\ UsageOf(name, results[name][i].calls) # Unknown =>
             \A k \in DOMAIN results[name][i].calls :
               Tells(results[name][i].calls[k], Configs[name].rule)
  <2>1. TAKE i \in 1..n
  <2>2. results[name][i] \in RoundRows
    BY <1>1, <1>2, RoundsTyped
  <2> QED
    BY <1>1, <2>2, UsageIsTold
<1> HIDE DEF n
<1>4. /\ usages \in Seq(Nat \union {Unknown}) /\ DOMAIN usages = 1..n
      /\ \A i \in 1..n : usages[i] = UsageOf(name, results[name][i].calls)
  BY <1>2, <1>3
<1>5. Cost(name) = SumOrUnknown(usages)
  BY Zenon DEF Cost
<1> HIDE DEF usages
<1>6. /\ Cost(name) \in Nat \union {Unknown}
      /\ Cost(name) # Unknown => \A i \in 1..n : usages[i] # Unknown
  BY <1>4, <1>5, SumIsKnown
<1>7. ASSUME Cost(name) # Unknown PROVE IsReported(name)
  <2>1. SUFFICES ASSUME NEW i \in 1..n, NEW k \in DOMAIN results[name][i].calls
                 PROVE  Tells(results[name][i].calls[k], Configs[name].rule)
    BY <1>2, Zenon DEF IsReported, Tells
  <2> QED
    BY <1>3, <1>4, <1>6, <1>7, <2>1, Zenon
<1> QED
  BY <1>6, <1>7

-----------------------------------------------------------------------------
(* Of finitely many ratios one is the least and one the greatest.          *)
LEMMA RatiosHaveEnds ==
  ASSUME NEW S, IsFiniteSet(S), S # {}, NEW a \in [S -> Nat], NEW m \in [S -> Nat \ {0}]
  PROVE  /\ \E least \in S : \A x \in S : AtMost(a[least], m[least], a[x], m[x])
         /\ \E greatest \in S : \A x \in S : AtMost(a[x], m[x], a[greatest], m[greatest])
<1> DEFINE up == {pair \in S \X S : AtMost(a[pair[1]], m[pair[1]], a[pair[2]], m[pair[2]])}
           down == {pair \in S \X S : AtMost(a[pair[2]], m[pair[2]], a[pair[1]], m[pair[1]])}
<1>1. \A x, y \in S : /\ <<x, y>> \in up <=> AtMost(a[x], m[x], a[y], m[y])
                      /\ <<x, y>> \in down <=> AtMost(a[y], m[y], a[x], m[x])
  OBVIOUS
<1>2. ASSUME NEW x \in S, NEW y \in S, NEW z \in S,
             AtMost(a[x], m[x], a[y], m[y]), AtMost(a[y], m[y], a[z], m[z])
      PROVE  AtMost(a[x], m[x], a[z], m[z])
  BY <1>2, RatiosAreOrdered DEF AtMost
<1>3. \A x, y \in S : AtMost(a[x], m[x], a[y], m[y]) \/ AtMost(a[y], m[y], a[x], m[x])
  <2>1. TAKE x, y \in S
  <2>2. a[x] * m[y] \in Nat /\ a[y] * m[x] \in Nat
    OBVIOUS
  <2> QED
    BY <2>2 DEF AtMost
<1> HIDE DEF up, down
<1>4. IsTransitive(S, up) /\ IsTransitive(S, down)
  BY <1>1, <1>2, Zenon DEF IsTransitive
<1>5. /\ \A x, y \in S : <<x, y>> \in up \/ <<y, x>> \in up
      /\ \A x, y \in S : <<x, y>> \in down \/ <<y, x>> \in down
  BY <1>1, <1>3
<1>6. \E least \in S : \A x \in S : <<x, least>> \in down
  BY <1>4, <1>5, ChainHasTop
<1>7. \E greatest \in S : \A x \in S : <<x, greatest>> \in up
  BY <1>4, <1>5, ChainHasTop
<1> QED
  BY <1>1, <1>6, <1>7

(* The fastest of a pool are in its group, and who is as fast as one of    *)
(* the group.                                                              *)
LEMMA GroupIsFastest ==
  ASSUME TrialTyped, BASELINE \in Measured, NEW pool \in SUBSET Measured, pool # {}
  PROVE  /\ Group(pool) \in SUBSET pool /\ Group(pool) # {}
         /\ IsFiniteSet(Group(pool)) /\ Cardinality(Group(pool)) \in Nat \ {0}
         /\ \A name \in Group(pool), other \in pool :
              P95(other) <= P95(name) => other \in Group(pool)
<1> DEFINE times == {P95(name) : name \in pool}
           fastest == Min(times)
<1>1. \A name \in pool : P95(name) \in Nat
  BY TimeIsNat
<1>2. times \in SUBSET Nat /\ times # {}
  BY <1>1
<1>3. fastest \in times /\ fastest \in Nat
  <2> HIDE DEF times
  <2> QED
    BY <1>2, MinIsLeast
<1>4. Group(pool) = {name \in pool : 20 * (P95(name) - fastest) <= Similar}
  BY DEF Group
<1>5. Similar \in Nat
  BY SimilarIsNat
<1>6. PICK first \in pool : P95(first) = fastest
  <2> HIDE DEF fastest
  <2> QED
    BY <1>3
<1> HIDE DEF fastest
<1>7. first \in Group(pool)
  BY <1>1, <1>4, <1>5, <1>6
<1>8. \A name \in Group(pool), other \in pool : P95(other) <= P95(name) => other \in Group(pool)
  <2>1. TAKE name \in Group(pool), other \in pool
  <2>2. HAVE P95(other) <= P95(name)
  <2>3. PICK s, t : s = P95(other) /\ t = P95(name)
    OBVIOUS
  <2>4. s \in Nat /\ t \in Nat /\ s <= t /\ 20 * (t - fastest) <= Similar
    BY <1>1, <1>4, <2>2, <2>3
  <2>5. 20 * (s - fastest) <= Similar
    BY <1>3, <1>5, <2>4
  <2> QED
    BY <1>4, <2>3, <2>5
<1>9. IsFiniteSet(Group(pool))
  <2>1. Group(pool) \in SUBSET Names
    BY <1>4 DEF Measured
  <2> QED
    BY <2>1, FS_Subset, TrialAssumption
<1> QED
  BY <1>4, <1>7, <1>8, <1>9, FS_CardinalityType, FS_EmptySet

(* In a group whose costs are known some setting is the cheapest, and of   *)
(* those as cheap some is the most accurate.                               *)
LEMMA BestOfGroup ==
  ASSUME TrialTyped, NEW group \in SUBSET Measured, IsFiniteSet(group), group # {},
         \A name \in group : Cost(name) # Unknown
  PROVE  /\ MostAccurate(Cheapest(group)) # {}
         /\ MostAccurate(Cheapest(group)) \in SUBSET Cheapest(group)
         /\ Cheapest(group) \in SUBSET group
<1>1. \A name \in group : /\ Cost(name) \in Nat /\ Accuracy(name) \in Nat
                          /\ RoundsOf(name) \in Nat \ {0}
  BY CostIsTold, AccuracyIsNat, RoundsTyped DEF Measured
<1> DEFINE cost == [name \in group |-> Cost(name)]
           hits == [name \in Cheapest(group) |-> Accuracy(name)]
           of(some) == [name \in some |-> RoundsOf(name)]
<1>2. cost \in [group -> Nat] /\ of(group) \in [group -> Nat \ {0}]
  BY <1>1
<1>3. PICK least \in group :
        \A x \in group : AtMost(cost[least], of(group)[least], cost[x], of(group)[x])
  <2> HIDE DEF cost, of
  <2> QED
    BY <1>2, RatiosHaveEnds
<1>4. \A x \in group : AtMost(Cost(least), RoundsOf(least), Cost(x), RoundsOf(x))
  BY <1>3
<1>5. least \in Cheapest(group)
  <2>1. ASSUME NEW x \in group
        PROVE  AtMost(10 * Cost(least), RoundsOf(least), 11 * Cost(x), RoundsOf(x))
    <3>1. PICK a, b, m, n : /\ a = Cost(least) /\ m = RoundsOf(least)
                            /\ b = Cost(x) /\ n = RoundsOf(x)
      OBVIOUS
    <3>2. a \in Nat /\ b \in Nat /\ m \in Nat /\ n \in Nat /\ a * n <= b * m
      BY <1>1, <1>4, <3>1 DEF AtMost
    <3>3. PICK p, q : p = a * n /\ q = b * m
      OBVIOUS
    <3>4. (10 * a) * n = 10 * p /\ (11 * b) * m = 11 * q /\ p \in Nat /\ q \in Nat /\ p <= q
      BY <3>2, <3>3
    <3>5. (10 * a) * n <= (11 * b) * m
      BY <3>4
    <3> QED
      BY <3>1, <3>5 DEF AtMost
  <2> QED
    BY <2>1 DEF Cheapest
<1>6. Cheapest(group) \in SUBSET group /\ IsFiniteSet(Cheapest(group))
  <2>1. Cheapest(group) \in SUBSET group
    BY DEF Cheapest
  <2> QED
    BY <2>1, FS_Subset
<1>7. hits \in [Cheapest(group) -> Nat] /\ of(Cheapest(group)) \in [Cheapest(group) -> Nat \ {0}]
  BY <1>1, <1>6
<1>8. PICK greatest \in Cheapest(group) : \A x \in Cheapest(group) :
        AtMost(hits[x], of(Cheapest(group))[x], hits[greatest], of(Cheapest(group))[greatest])
  <2> HIDE DEF hits, of
  <2> QED
    BY <1>5, <1>6, <1>7, RatiosHaveEnds
<1>9. \A x \in Cheapest(group) :
        AtMost(Accuracy(x), RoundsOf(x), Accuracy(greatest), RoundsOf(greatest))
  BY <1>8
<1>10. greatest \in MostAccurate(Cheapest(group))
  BY <1>9 DEF MostAccurate
<1>11. MostAccurate(Cheapest(group)) \in SUBSET Cheapest(group)
  BY DEF MostAccurate
<1> QED
  BY <1>6, <1>10, <1>11

Winner(pool) == CHOOSE name \in Top(pool) : TRUE

(* What a setting that was chosen has over one that is as fast.            *)
Beats(chosen, other) ==
  /\ IsReported(chosen) /\ IsReported(other)
  /\ AtMost(Cost(other), RoundsOf(other), Cost(chosen), RoundsOf(chosen)) =>
       ~AtMost(Accuracy(chosen), RoundsOf(chosen), Accuracy(other), RoundsOf(other))

BeatsAsFast(chosen, pool) ==
  \A other \in pool \ {chosen} : P95(other) <= P95(chosen) => Beats(chosen, other)

LEMMA WinnerIsBest ==
  ASSUME TrialTyped, BASELINE \in Measured, NEW pool \in SUBSET Measured, pool # {},
         ~CostsUnknown(pool), ~(Cardinality(Top(pool)) > 1)
  PROVE  Winner(pool) \in pool /\ BeatsAsFast(Winner(pool), pool)
<1> DEFINE group == Group(pool)
           winner == Winner(pool)
<1>1. /\ group \in SUBSET pool /\ group # {} /\ IsFiniteSet(group)
      /\ Cardinality(group) \in Nat \ {0}
      /\ \A name \in group, other \in pool : P95(other) <= P95(name) => other \in group
  BY GroupIsFastest
<1>2. winner = CHOOSE name \in Top(pool) : TRUE
  BY Zenon DEF Winner
<1> HIDE DEF winner
<1>3. CASE Cardinality(group) = 1
  <2>1. Top(pool) = group
    BY <1>3 DEF Top
  <2>2. PICK only : group = {only}
    BY <1>1, <1>3, FS_Singleton
  <2>3. winner = only /\ winner \in pool
    BY <1>1, <1>2, <2>1, <2>2
  <2>4. \A other \in pool \ {winner} : ~(P95(other) <= P95(winner))
    BY <1>1, <2>2, <2>3
  <2> QED
    BY <2>3, <2>4, Zenon DEF BeatsAsFast, winner
<1>4. CASE Cardinality(group) # 1
  <2> DEFINE near == Cheapest(group)
             best == MostAccurate(near)
  <2>1. \A name \in group : Cost(name) # Unknown
    BY <1>1, <1>4 DEF CostsUnknown
  <2>2. best # {} /\ best \in SUBSET near /\ near \in SUBSET group
    <3>1. group \in SUBSET Measured
      BY <1>1
    <3> HIDE DEF group
    <3> QED
      BY <1>1, <2>1, <3>1, BestOfGroup
  <2>3. Top(pool) = best
    BY <1>4, Zenon DEF Top
  <2> HIDE DEF group, near, best
  <2>4. winner \in best /\ winner \in near /\ winner \in group /\ winner \in pool
    BY <1>1, <1>2, <2>2, <2>3
  <2>5. IsFiniteSet(best)
    BY <1>1, <2>2, FS_Subset
  <2>6. PICK n : n = Cardinality(best)
    OBVIOUS
  <2>7. n \in Nat /\ ~(n > 1)
    BY <2>3, <2>5, <2>6, FS_CardinalityType
  <2>8. n = 1
    BY <2>4, <2>5, <2>6, <2>7, FS_EmptySet
  <2>9. best = {winner}
    <3>1. PICK only : best = {only}
      BY <2>5, <2>6, <2>8, FS_Singleton
    <3> QED
      BY <2>4, <3>1
  <2>10. \A name \in group : /\ Cost(name) \in Nat /\ Accuracy(name) \in Nat
                             /\ RoundsOf(name) \in Nat \ {0} /\ IsReported(name)
    BY <1>1, <2>1, CostIsTold, AccuracyIsNat, RoundsTyped DEF Measured
  <2>11. ASSUME NEW other \in pool \ {winner}, P95(other) <= P95(winner)
         PROVE  Beats(winner, other)
    <3>1. other \in group
      BY <1>1, <2>4, <2>11 DEF group
    <3>2. SUFFICES ASSUME AtMost(Cost(other), RoundsOf(other), Cost(winner), RoundsOf(winner)),
                          AtMost(Accuracy(winner), RoundsOf(winner), Accuracy(other), RoundsOf(other))
                   PROVE  FALSE
      BY <2>4, <2>10, <3>1, Zenon DEF Beats
    <3>3. other \in near
      <4>1. ASSUME NEW x \in group
            PROVE  AtMost(10 * Cost(other), RoundsOf(other), 11 * Cost(x), RoundsOf(x))
        <5>1. PICK a, b, c, m, n1, k : /\ a = Cost(other) /\ m = RoundsOf(other)
                                      /\ b = Cost(winner) /\ n1 = RoundsOf(winner)
                                      /\ c = Cost(x) /\ k = RoundsOf(x)
          OBVIOUS
        <5>2. /\ a \in Nat /\ b \in Nat /\ c \in Nat
              /\ m \in Nat \ {0} /\ n1 \in Nat \ {0} /\ k \in Nat \ {0}
          BY <2>4, <2>10, <3>1, <5>1
        <5>3. a * n1 <= b * m
          BY <3>2, <5>1 DEF AtMost
        <5>4. (10 * b) * k <= (11 * c) * n1
          BY <2>4, <5>1 DEF AtMost, near, Cheapest
        <5>5. (10 * a) * n1 <= (10 * b) * m
          <6>1. PICK p, q : p = a * n1 /\ q = b * m
            OBVIOUS
          <6>2. (10 * a) * n1 = 10 * p /\ (10 * b) * m = 10 * q /\ p \in Nat /\ q \in Nat /\ p <= q
            BY <5>2, <5>3, <6>1
          <6> QED
            BY <6>2
        <5>6. 10 * a \in Int /\ 10 * b \in Int /\ 11 * c \in Int
          BY <5>2
        <5>7. (10 * a) * k <= (11 * c) * m
          BY <5>2, <5>4, <5>5, <5>6, RatiosAreOrdered
        <5> QED
          BY <5>1, <5>7 DEF AtMost
      <4> QED
        BY <3>1, <4>1 DEF near, Cheapest
    <3>4. other \in best
      <4>1. ASSUME NEW x \in near
            PROVE  AtMost(Accuracy(x), RoundsOf(x), Accuracy(other), RoundsOf(other))
        <5>1. AtMost(Accuracy(x), RoundsOf(x), Accuracy(winner), RoundsOf(winner))
          BY <2>4 DEF best, MostAccurate
        <5>2. x \in group
          BY <2>2
        <5> QED
          BY <2>4, <2>10, <3>1, <3>2, <5>1, <5>2, RatiosAreOrdered DEF AtMost
      <4> QED
        BY <3>3, <4>1 DEF best, MostAccurate
    <3> QED
      BY <2>9, <2>11, <3>4
  <2> QED
    BY <2>4, <2>11, Zenon DEF BeatsAsFast, winner
<1> QED
  BY <1>3, <1>4

-----------------------------------------------------------------------------
(* One step of the choice, given the choice from smaller pools.            *)
Rest(pool) == pool \ {Winner(pool)}
Undecided(pool) == CostsUnknown(pool) \/ Cardinality(Top(pool)) > 1

ChoiceStep(choice, pool) ==
  IF pool = {} THEN Outcome("keep_kimi", Unknown, {})
  ELSE IF Undecided(pool) THEN Outcome("inconclusive", Unknown, {})
  ELSE IF Trusted(Winner(pool)) THEN Outcome("chosen", Winner(pool), {})
  ELSE IF GivenUp(Winner(pool)) THEN choice[Rest(pool)]
  ELSE Outcome("needs_runs", Unknown, {Winner(pool)})

Pools(k) == {pool \in SUBSET Measured : Cardinality(pool) <= k}

LEMMA PoolsShrink ==
  ASSUME TrialTyped, BASELINE \in Measured, NEW pool \in SUBSET Measured, pool # {},
         ~Undecided(pool)
  PROVE  /\ Cardinality(pool) \in Nat /\ Cardinality(Rest(pool)) = Cardinality(pool) - 1
         /\ Rest(pool) \in SUBSET Measured /\ Winner(pool) \in pool
<1>1. Winner(pool) \in pool
  BY WinnerIsBest DEF Undecided
<1>2. IsFiniteSet(pool)
  BY FS_Subset, TrialAssumption DEF Measured
<1> QED
  BY <1>1, <1>2, FS_CardinalityType, FS_RemoveElement DEF Rest

(* The choice is what its definition says: a table of the choices from all *)
(* pools exists, built up by their size.                                   *)
LEMMA ChoiceUnfolds ==
  ASSUME TrialTyped, BASELINE \in Measured
  PROVE  \A pool \in SUBSET Measured : Choice[pool] = ChoiceStep(Choice, pool)
<1> DEFINE IsTable(f, k) == f = [pool \in Pools(k) |-> ChoiceStep(f, pool)]
           T == {k \in Nat : \E f : IsTable(f, k)}
<1>1. IsFiniteSet(Measured) /\ \A pool \in SUBSET Measured :
        Cardinality(pool) \in Nat /\ Cardinality(pool) <= Cardinality(Measured)
        /\ (Cardinality(pool) = 0 => pool = {})
  BY FS_Subset, FS_CardinalityType, FS_EmptySet, TrialAssumption DEF Measured
<1>2. 0 \in T
  <2> DEFINE f == [pool \in Pools(0) |-> Outcome("keep_kimi", Unknown, {})]
  <2>1. \A pool \in Pools(0) : pool = {}
    BY <1>1 DEF Pools
  <2>2. \A pool \in Pools(0) : ChoiceStep(f, pool) = Outcome("keep_kimi", Unknown, {})
    BY <2>1, Zenon DEF ChoiceStep
  <2>3. IsTable(f, 0)
    BY <2>2, Zenon
  <2> HIDE DEF IsTable
  <2> QED
    BY <2>3
<1>3. \A k \in T : k + 1 \in T
  <2>1. SUFFICES ASSUME NEW k \in Nat, NEW f, IsTable(f, k)
                 PROVE  \E g : IsTable(g, k + 1)
    <3> HIDE DEF IsTable
    <3> QED
      OBVIOUS
  <2> DEFINE g == [pool \in Pools(k + 1) |-> ChoiceStep(f, pool)]
  <2>2. \A pool \in Pools(k) : pool \in Pools(k + 1) /\ f[pool] = ChoiceStep(f, pool)
    <3>1. Pools(k) \in SUBSET Pools(k + 1)
      BY <1>1, <2>1 DEF Pools
    <3>2. \A pool \in Pools(k) : f[pool] = ChoiceStep(f, pool)
      BY <2>1, Zenon
    <3> QED
      BY <3>1, <3>2, Zenon
  <2>3. \A pool \in Pools(k) : g[pool] = f[pool]
    BY <2>2, Zenon
  <2>4. ASSUME NEW pool \in Pools(k + 1), pool # {}, ~Undecided(pool)
        PROVE  g[Rest(pool)] = f[Rest(pool)]
    <3>1. PICK n, m : n = Cardinality(pool) /\ m = Cardinality(Rest(pool))
      OBVIOUS
    <3>2. n \in Nat /\ m = n - 1 /\ n <= k + 1 /\ Rest(pool) \in SUBSET Measured
      BY <2>4, <3>1, PoolsShrink DEF Pools
    <3>3. m <= k
      BY <2>1, <3>2
    <3>4. Rest(pool) \in Pools(k)
      BY <3>1, <3>2, <3>3 DEF Pools
    <3> QED
      BY <2>3, <3>4
  <2>5. \A pool \in Pools(k + 1) : ChoiceStep(g, pool) = ChoiceStep(f, pool)
    <3> HIDE DEF g
    <3> QED
      BY <2>4, Zenon DEF ChoiceStep
  <2>6. IsTable(g, k + 1)
    <3>1. g = [pool \in Pools(k + 1) |-> ChoiceStep(g, pool)]
      BY <2>5, Zenon
    <3> QED
      BY <3>1, Zenon
  <2> HIDE DEF IsTable
  <2> QED
    BY <2>6
<1>4. Cardinality(Measured) \in T
  <2>1. T = Nat
    <3>1. T \in SUBSET Nat
      OBVIOUS
    <3> HIDE DEF T
    <3> QED
      BY <1>2, <1>3, <3>1, HasAllNumbers
  <2> HIDE DEF T
  <2> QED
    BY <1>1, <2>1
<1>5. Pools(Cardinality(Measured)) = SUBSET Measured
  BY <1>1 DEF Pools
<1>6. PICK f : f = [pool \in SUBSET Measured |-> ChoiceStep(f, pool)]
  BY <1>4, <1>5
<1> DEFINE Body(choice, pool) ==
             LET top == Top(pool)
                 winner == CHOOSE name \in top : TRUE
             IN IF pool = {} THEN Outcome("keep_kimi", Unknown, {})
                ELSE IF CostsUnknown(pool) \/ Cardinality(top) > 1
                THEN Outcome("inconclusive", Unknown, {})
                ELSE IF Trusted(winner) THEN Outcome("chosen", winner, {})
                ELSE IF GivenUp(winner) THEN choice[pool \ {winner}]
                ELSE Outcome("needs_runs", Unknown, {winner})
<1>7. \A choice, pool : Body(choice, pool) = ChoiceStep(choice, pool)
  BY Zenon DEF ChoiceStep, Undecided, Rest, Winner
<1>8. Choice = CHOOSE choice : choice = [pool \in SUBSET Measured |-> Body(choice, pool)]
  BY DEF Choice
<1> HIDE DEF Body
<1>9. f = [pool \in SUBSET Measured |-> Body(f, pool)]
  BY <1>6, <1>7, Zenon
<1>10. Choice = [pool \in SUBSET Measured |-> Body(Choice, pool)]
  BY <1>8, <1>9, Zenon
<1> QED
  BY <1>7, <1>10, Zenon

(* What a choice from a pool asks for is in it and not given up, and what  *)
(* it chooses beats all in it that are as fast and not out of it.          *)
IsSound(choice, pool) ==
  /\ \A name \in choice.asks : name \in pool /\ ~GivenUp(name)
  /\ choice.kind = "chosen" =>
       /\ choice.config \in pool /\ Trusted(choice.config)
       /\ \A other \in pool \ {choice.config} :
            (~Excused(other) /\ P95(other) <= P95(choice.config)) => Beats(choice.config, other)

LEMMA ChoiceIsSound ==
  ASSUME TrialTyped, BASELINE \in Measured, NEW pool \in SUBSET Measured
  PROVE  IsSound(Choice[pool], pool)
<1> DEFINE T == {k \in Nat : \A some \in Pools(k) : IsSound(Choice[some], some)}
<1>1. \A some \in SUBSET Measured :
        /\ IsFiniteSet(some) /\ Cardinality(some) \in Nat
        /\ Cardinality(some) = 0 => some = {}
        /\ Choice[some] = ChoiceStep(Choice, some)
  BY FS_Subset, FS_CardinalityType, FS_EmptySet, ChoiceUnfolds, TrialAssumption DEF Measured
<1>2. ASSUME NEW some \in SUBSET Measured,
             some # {} /\ ~Undecided(some) => IsSound(Choice[Rest(some)], Rest(some))
      PROVE  IsSound(Choice[some], some)
  <2> DEFINE winner == Winner(some)
  <2>1. CASE some = {} \/ Undecided(some)
    <3>1. \/ Choice[some] = Outcome("keep_kimi", Unknown, {})
          \/ Choice[some] = Outcome("inconclusive", Unknown, {})
      BY <1>1, <2>1 DEF ChoiceStep
    <3>2. Choice[some].asks = {} /\ Choice[some].kind # "chosen"
      BY <3>1 DEF Outcome
    <3> QED
      BY <3>2, Zenon DEF IsSound
  <2>2. CASE some # {} /\ ~Undecided(some) /\ Trusted(winner)
    <3>1. winner \in some /\ BeatsAsFast(winner, some)
      BY <2>2, WinnerIsBest DEF Undecided
    <3>2. Choice[some] = Outcome("chosen", winner, {})
      BY <1>1, <2>2 DEF ChoiceStep
    <3>3. Choice[some].asks = {} /\ Choice[some].config = winner
      BY <3>2 DEF Outcome
    <3> HIDE DEF winner
    <3> QED
      BY <2>2, <3>1, <3>3, Zenon DEF IsSound, BeatsAsFast
  <2>3. CASE some # {} /\ ~Undecided(some) /\ ~Trusted(winner) /\ GivenUp(winner)
    <3>1. Choice[some] = Choice[Rest(some)]
      BY <1>1, <2>3 DEF ChoiceStep
    <3>2. IsSound(Choice[some], Rest(some))
      BY <1>2, <2>3, <3>1
    <3>3. Rest(some) \in SUBSET some /\ \A other \in some : other \notin Rest(some) => Excused(other)
      BY <2>3 DEF Rest, Excused
    <3> QED
      BY <3>2, <3>3, Zenon DEF IsSound
  <2>4. CASE some # {} /\ ~Undecided(some) /\ ~Trusted(winner) /\ ~GivenUp(winner)
    <3>1. Choice[some] = Outcome("needs_runs", Unknown, {winner})
      BY <1>1, <2>4 DEF ChoiceStep
    <3>2. Choice[some].asks = {winner} /\ Choice[some].kind # "chosen"
      BY <3>1 DEF Outcome
    <3>3. winner \in some
      BY <2>4, PoolsShrink
    <3> QED
      BY <2>4, <3>2, <3>3 DEF IsSound
  <2> QED
    BY <2>1, <2>2, <2>3, <2>4
<1>3. 0 \in T
  <2>1. \A some \in Pools(0) : some \in SUBSET Measured /\ some = {}
    BY <1>1 DEF Pools
  <2> QED
    BY <1>2, <2>1
<1>4. \A k \in T : k + 1 \in T
  <2>1. SUFFICES ASSUME NEW k \in Nat, \A some \in Pools(k) : IsSound(Choice[some], some),
                        NEW some \in Pools(k + 1)
                 PROVE  IsSound(Choice[some], some)
    OBVIOUS
  <2>2. some \in SUBSET Measured
    BY DEF Pools
  <2>3. ASSUME some # {}, ~Undecided(some) PROVE Rest(some) \in Pools(k)
    <3>1. PICK n, m : n = Cardinality(some) /\ m = Cardinality(Rest(some))
      OBVIOUS
    <3>2. n \in Nat /\ m = n - 1 /\ n <= k + 1 /\ Rest(some) \in SUBSET Measured
      BY <2>2, <2>3, <3>1, PoolsShrink DEF Pools
    <3>3. m <= k
      BY <2>1, <3>2
    <3> QED
      BY <3>1, <3>2, <3>3 DEF Pools
  <2> QED
    BY <1>2, <2>1, <2>2, <2>3
<1>5. T = Nat
  <2>1. T \in SUBSET Nat
    OBVIOUS
  <2> HIDE DEF T
  <2> QED
    BY <1>3, <1>4, <2>1, HasAllNumbers
<1>6. Cardinality(pool) \in T /\ Cardinality(pool) <= Cardinality(pool)
  BY <1>1, <1>5
<1> QED
  BY <1>6 DEF Pools

-----------------------------------------------------------------------------
Followable(name) == Accepts(name, RoundsOf(name) + 1) /\ RoundsOf(name) < 2 + MAX_CONFIRMATIONS

IsUndominated(chosen) ==
  /\ Trusted(chosen) /\ Passes(chosen)
  /\ \A name \in Measured : NearFloor(name) => RoundsOf(name) >= 2
  /\ \A other \in Measured \ {chosen} :
       (Passes(other) /\ ~Excused(other) /\ P95(other) <= P95(chosen)) => Beats(chosen, other)

(* What a summary says of the results.                                     *)
LEMMA SummarySays ==
  ASSUME TrialTyped
  PROVE  /\ \A name \in Summary.asks : name \in Names /\ Followable(name)
         /\ Summary.kind = "chosen" => IsUndominated(Summary.config)
<1> DEFINE pool == {name \in Measured : Passes(name)}
<1>1. CASE ~ \A scope \in Scopes : SameDatabase(scope)
  BY <1>1 DEF Summary, Outcome
<1>2. CASE (\A scope \in Scopes : SameDatabase(scope)) /\ BASELINE \notin Measured
  BY <1>2 DEF Summary, Choose, Outcome
<1>3. CASE (\A scope \in Scopes : SameDatabase(scope)) /\ BASELINE \in Measured /\ Pending # {}
  <2>1. Summary.asks = Pending /\ Summary.kind # "chosen"
    BY <1>3 DEF Summary, Choose, Outcome
  <2>2. ASSUME NEW name \in Pending PROVE name \in Names /\ Followable(name)
    <3>1. name \in Names /\ NearFloor(name) /\ RoundsOf(name) < 2
      BY DEF Pending, Measured
    <3>2. RoundsOf(name) \in Nat /\ MAX_CONFIRMATIONS \in Nat
      BY <3>1, RoundsTyped, TrialAssumption
    <3> QED
      BY <3>1, <3>2 DEF NearFloor, Followable, Accepts
  <2> QED
    BY <2>1, <2>2
<1>4. CASE (\A scope \in Scopes : SameDatabase(scope)) /\ BASELINE \in Measured /\ Pending = {}
  <2>1. Summary = Choice[pool]
    BY <1>4 DEF Summary, Choose
  <2>2. IsSound(Summary, pool)
    BY <1>4, <2>1, ChoiceIsSound
  <2>3. ASSUME NEW name \in Summary.asks PROVE name \in Names /\ Followable(name)
    <3>1. name \in Names /\ ~GivenUp(name)
      BY <2>2 DEF IsSound, Measured
    <3>2. RoundsOf(name) \in Nat /\ MAX_CONFIRMATIONS \in Nat
      BY <3>1, RoundsTyped, TrialAssumption
    <3>3. ~(study = "plan" /\ name = BASELINE) /\ RoundsOf(name) < 2 + MAX_CONFIRMATIONS
      BY <3>1, <3>2 DEF GivenUp, GivenUpByCount
    <3> QED
      BY <3>1, <3>3 DEF Followable, Accepts
  <2>4. ASSUME Summary.kind = "chosen" PROVE IsUndominated(Summary.config)
    <3>1. PICK chosen : chosen = Summary.config
      OBVIOUS
    <3>2. /\ chosen \in pool /\ Trusted(chosen)
          /\ \A other \in pool \ {chosen} :
               (~Excused(other) /\ P95(other) <= P95(chosen)) => Beats(chosen, other)
      BY <2>2, <2>4, <3>1, Zenon DEF IsSound
    <3>3. \A name \in Measured : NearFloor(name) => RoundsOf(name) >= 2
      <4>1. TAKE name \in Measured
      <4>2. RoundsOf(name) \in Nat
        BY RoundsTyped DEF Measured
      <4> QED
        BY <1>4, <4>2 DEF Pending
    <3> QED
      BY <3>1, <3>2, <3>3, Zenon DEF IsUndominated
  <2> QED
    BY <2>3, <2>4
<1> QED
  BY <1>1, <1>2, <1>3, <1>4

(* The two properties rest on the study and the result files.              *)
LEMMA SameResults ==
  ASSUME UNCHANGED <<study, results>>, NEW name
  PROVE  /\ (Followable(name))' <=> Followable(name)
         /\ (IsUndominated(name))' <=> IsUndominated(name)
<1>1. ASSUME NEW some
      PROVE  /\ RoundsOf(some)' = RoundsOf(some)
             /\ Trusted(some)' <=> Trusted(some)
             /\ NearFloor(some)' <=> NearFloor(some)
             /\ Passes(some)' <=> Passes(some)
             /\ GivenUp(some)' <=> GivenUp(some)
             /\ P95(some)' = P95(some)
             /\ Cost(some)' = Cost(some)
             /\ Accuracy(some)' = Accuracy(some)
             /\ IsReported(some)' <=> IsReported(some)
  <2>1. RoundsOf(some)' = RoundsOf(some)
    BY DEF RoundsOf
  <2>2. Trusted(some)' <=> Trusted(some)
    BY DEF Trusted, CleanRounds, IsClean
  <2>3. NearFloor(some)' <=> NearFloor(some)
    BY DEF NearFloor, Floors, Hits
  <2>4. Passes(some)' <=> Passes(some)
    BY DEF Passes, Floors, HitsOf, Hits, RoundsOf
  <2>5. GivenUp(some)' <=> GivenUp(some)
    BY <2>1, <2>3 DEF GivenUp, GivenUpByCount
  <2>6. P95(some)' = P95(some)
    BY DEF P95, Seconds, Trusted, CleanRounds
  <2>7. Cost(some)' = Cost(some) /\ Accuracy(some)' = Accuracy(some)
    BY DEF Cost, Accuracy, Hits
  <2>8. IsReported(some)' <=> IsReported(some)
    BY DEF IsReported
  <2> QED
    BY <2>1, <2>2, <2>3, <2>4, <2>5, <2>6, <2>7, <2>8
<1>2. Measured' = Measured
  BY DEF Measured
<1>3. (Followable(name))' <=> Followable(name)
  BY <1>1 DEF Followable, Accepts
<1>4. \A some : (Excused(some))' <=> Excused(some)
  BY <1>1 DEF Excused
<1>5. \A some : (Beats(name, some))' <=> Beats(name, some)
  BY <1>1 DEF Beats
<1>6. (IsUndominated(name))' <=> IsUndominated(name)
  BY <1>1, <1>2, <1>4, <1>5 DEF IsUndominated
<1> QED
  BY <1>3, <1>6

(* What was asked for stays possible until it is done, and what was chosen *)
(* ends the study.                                                         *)
StandsByResults ==
  /\ \A name \in asked : name \in Names /\ Followable(name)
  /\ \A config : verdict.kind = "chosen" /\ verdict.config = config => IsUndominated(config)

LEMMA SummarizeStands == ASSUME TrialTyped, Summarize PROVE StandsByResults'
<1>1. /\ UNCHANGED <<study, results>>
      /\ asked' = Summary.asks /\ verdict'.kind = Summary.kind
      /\ verdict'.config = Summary.config
  BY DEF Summarize
<1>2. /\ \A name \in Summary.asks : name \in Names /\ Followable(name)
      /\ Summary.kind = "chosen" => IsUndominated(Summary.config)
  BY SummarySays
<1>3. PICK asks, kind, config :
        asks = Summary.asks /\ kind = Summary.kind /\ config = Summary.config
  OBVIOUS
<1>4. \A name \in asks : name \in Names /\ (Followable(name))'
  BY <1>1, <1>2, <1>3, SameResults
<1>5. kind = "chosen" => (IsUndominated(config))'
  BY <1>1, <1>2, <1>3, SameResults
<1>6. asked' = asks /\ verdict'.kind = kind /\ verdict'.config = config
  BY <1>1, <1>3
<1> QED
  BY <1>4, <1>5, <1>6, Zenon DEF StandsByResults

(* A round of a setting leaves the others as they are; it is no longer     *)
(* asked for.                                                              *)
LEMMA MeasureStands ==
  ASSUME TrialTyped, StandsByResults, IsOpen, NEW name \in Names, Measure(name)
  PROVE  StandsByResults'
<1>1. /\ asked' = asked \ {name} /\ study' = study
      /\ verdict' = IF asked' = {} THEN NoVerdict ELSE verdict
  BY DEF Measure
<1>2. \A other \in Names : other # name => results'[other] = results[other]
  <2>1. PICK measured :
          results' = [results EXCEPT ![name] = Append(@, Row(measured, RoundsOf(name) + 1))]
    BY DEF Measure
  <2> QED
    BY <2>1 DEF TrialTyped
<1>3. ASSUME NEW other \in asked' PROVE other \in Names /\ (Followable(other))'
  <2>1. other \in Names /\ other # name /\ Followable(other)
    BY <1>1, <1>3 DEF StandsByResults
  <2>2. RoundsOf(other)' = RoundsOf(other)
    BY <1>2, <2>1 DEF RoundsOf
  <2> QED
    BY <1>1, <2>1, <2>2 DEF Followable, Accepts
<1>4. verdict'.kind # "chosen"
  BY <1>1 DEF IsOpen, NoVerdict
<1> QED
  BY <1>3, <1>4, Zenon DEF StandsByResults

LEMMA ResultsStand ==
  ASSUME TrialTyped, StandsByResults, [TrialNext]_trialVars PROVE StandsByResults'
<1>1. CASE UNCHANGED <<study, results, asked, verdict>>
  <2>1. \A name : /\ (Followable(name))' <=> Followable(name)
                  /\ (IsUndominated(name))' <=> IsUndominated(name)
    BY <1>1, SameResults
  <2> QED
    BY <1>1, <2>1 DEF StandsByResults
<1>2. CASE TrialNext
  <2>1. IsOpen
    BY <1>2 DEF TrialNext
  <2>2. CASE Change
    BY <1>1, <2>2 DEF Change
  <2>3. CASE \E round \in Rounds, when \in {"before", "after"} : Snapshot(round, when)
    BY <1>1, <2>3 DEF Snapshot
  <2>4. CASE \E name \in Names : Measure(name)
    BY <2>1, <2>4, MeasureStands
  <2>5. CASE Summarize
    BY <2>5, SummarizeStands
  <2> QED
    BY <1>2, <2>2, <2>3, <2>4, <2>5 DEF TrialNext
<1>3. CASE UNCHANGED trialVars
  BY <1>1, <1>3 DEF trialVars
<1> QED
  BY <1>2, <1>3

LEMMA NothingStandsYet == ASSUME TrialInit PROVE StandsByResults
BY DEF TrialInit, NoVerdict, StandsByResults

(* Whatever was measured: each setting that a summary asks for may run its *)
(* next round, and is asked for only as long as there is one left for it   *)
(* (choose, validate).                                                     *)
THEOREM AdviceIsFollowable == TrialSpec => []AdviceCanBeFollowed
<1> DEFINE Inv == TrialInv /\ StandsByResults
<1>1. TrialInit => Inv
  BY TrialStarts, NothingStandsYet
<1>2. Inv /\ [TrialNext]_trialVars => Inv'
  BY TrialKeeps, ResultsStand DEF TrialInv
<1>3. Inv => AdviceCanBeFollowed
  BY DEF StandsByResults, Followable, AdviceCanBeFollowed
<1> QED
  BY <1>1, <1>2, <1>3, PTL DEF TrialSpec

(* Whatever was measured: the setting that is chosen passes on times to be *)
(* trusted, and none that passes is as fast, as cheap and as accurate;     *)
(* a setting whose tokens are not all reported does not count as cheap     *)
(* (choose, usage_of).                                                     *)
THEOREM BestIsChosen == TrialSpec => []ChoiceIsUndominated
<1> DEFINE Inv == TrialInv /\ StandsByResults
<1>1. TrialInit => Inv
  BY TrialStarts, NothingStandsYet
<1>2. Inv /\ [TrialNext]_trialVars => Inv'
  BY TrialKeeps, ResultsStand DEF TrialInv
<1>3. Inv => ChoiceIsUndominated
  BY DEF StandsByResults, IsUndominated, Beats, ChoiceIsUndominated
<1> QED
  BY <1>1, <1>2, <1>3, PTL DEF TrialSpec

-----------------------------------------------------------------------------
AllFiles == UNION {{archive[i] : i \in DOMAIN archive} : archive \in Archives}
Items ==
  [arm : {file.arm : file \in AllFiles}, source : Nat,
   statement : UNION {file.statements : file \in AllFiles}]
Words == {cell.verdict : cell \in Cells} \union {cell.check : cell \in Cells} \union {Blank}
SheetRows == [id : Nat, item : Items \union {Blank}, verdict : Words, check : Words]

ReviewTyped ==
  /\ files \in Archives
  /\ next \in Nat \ {0}
  /\ drawn \in Seq(Items)
  /\ \A i \in DOMAIN drawn : drawn[i].arm \in Arms
  /\ sheet \in Seq(SheetRows)

(* Once scored, what was said is what the sheet still says.                *)
Told ==
  rpc = "scored" =>
    /\ problems = Problems
    /\ outcome = [arm \in Arms |-> IF Problems = {} THEN Judge(arm) ELSE Blank]

ReviewInv == ReviewTyped /\ Told

Rows(id) == {i \in DOMAIN sheet : sheet[i].id = id}

-----------------------------------------------------------------------------
(* The sequence of the elements of a finite set is a sequence of them.     *)
LEMMA SequenceOfSet ==
  ASSUME NEW S, IsFiniteSet(S)
  PROVE  SetToSeq(S) \in Seq(S)
<1> DEFINE n == Cardinality(S)
<1>1. n \in Nat /\ ExistsBijection(1..n, S)
  BY FS_CardinalityType
<1>2. PICK f : f \in Bijection(1..n, S)
  BY <1>1 DEF ExistsBijection
<1>3. f \in [1..n -> S] /\ IsInjective(f)
  BY <1>2 DEF Bijection, Injection, IsInjective
<1>4. SetToSeq(S) \in [1..n -> S]
  BY <1>3 DEF SetToSeq
<1> QED
  BY <1>1, <1>4

(* Items that differ in their statement are as many as the statements.     *)
LEMMA FiniteItems ==
  ASSUME NEW chosen, IsFiniteSet(chosen), NEW arm, NEW source
  PROVE  IsFiniteSet({[arm |-> arm, source |-> source, statement |-> st] : st \in chosen})
<1> DEFINE item(st) == [arm |-> arm, source |-> source, statement |-> st]
           T == {item(st) : st \in chosen}
           f == [st \in chosen |-> item(st)]
<1>1. f \in Surjection(chosen, T)
  <2>1. f \in [chosen -> T] /\ \A t \in T : \E st \in chosen : f[st] = t
    BY Zenon
  <2> QED
    BY <2>1, Zenon DEF Surjection
<1> QED
  BY <1>1, FS_Surjection, Zenon

LEMMA FileIsKnown ==
  ASSUME files \in Archives, NEW k \in DOMAIN files
  PROVE  files[k] \in AllFiles
<1>1. {files[i] : i \in DOMAIN files} \in {{archive[i] : i \in DOMAIN archive} : archive \in Archives}
  OBVIOUS
<1> QED
  BY <1>1, Zenon DEF AllFiles

(* A row that is changed is a row, and a sheet with one changed is a sheet. *)
LEMMA ChangedRow ==
  ASSUME NEW row \in SheetRows
  PROVE  /\ \A v \in Words, c \in Words :
              [row EXCEPT !.verdict = v, !.check = c] \in SheetRows
         /\ [row EXCEPT !.item = Blank] \in SheetRows
         /\ \A id \in Nat : [row EXCEPT !.id = id] \in SheetRows
BY DEF SheetRows

LEMMA ChangedSheet ==
  ASSUME NEW rows \in Seq(SheetRows), NEW i \in DOMAIN rows, NEW row \in SheetRows
  PROVE  [rows EXCEPT ![i] = row] \in Seq(SheetRows)
OBVIOUS

LEMMA ReviewStarts == ASSUME ReviewInit PROVE ReviewInv
BY DEF ReviewInit, ReviewInv, ReviewTyped, Told

LEMMA DrawKeeps == ASSUME ReviewInv, Draw PROVE ReviewInv'
<1> DEFINE file == files[next]
           item(st) == [arm |-> file.arm, source |-> next, statement |-> st]
<1>1. /\ rpc = "draw" /\ rpc' = rpc /\ next' = next + 1 /\ files' = files /\ sheet' = sheet
      /\ next <= Len(files)
  BY DEF Draw
<1>2. PICK chosen \in Samples(file.arm, file.statements) :
        drawn' = drawn \o SetToSeq({item(st) : st \in chosen})
  BY DEF Draw
<1>3. /\ files \in Archives /\ next \in Nat \ {0} /\ drawn \in Seq(Items)
      /\ sheet \in Seq(SheetRows)
  BY DEF ReviewInv, ReviewTyped
<1>4. next \in DOMAIN files /\ file \in AllFiles
  BY <1>1, <1>3, ReviewAssumption, FileIsKnown
<1>5. chosen \subseteq file.statements
  BY <1>2 DEF Samples, kSubset
<1>6. IsFiniteSet(chosen)
  <2>1. IsFiniteSet(file.statements)
    BY <1>3, <1>4, ReviewAssumption, Zenon
  <2> QED
    BY <1>5, <2>1, FS_Subset, Zenon
<1> DEFINE T == {item(st) : st \in chosen}
<1>7. IsFiniteSet(T)
  <2>1. \A arm, source :
          IsFiniteSet({[arm |-> arm, source |-> source, statement |-> st] : st \in chosen})
    BY <1>6, FiniteItems
  <2> QED
    BY <2>1, Zenon
<1>8. T \subseteq Items
  <2>1. file.arm \in {known.arm : known \in AllFiles}
    BY <1>4, Zenon
  <2>2. \A st \in chosen : st \in UNION {known.statements : known \in AllFiles}
    BY <1>4, <1>5, Zenon
  <2>3. \A st \in chosen : item(st) \in Items
    BY <1>3, <2>1, <2>2 DEF Items
  <2> QED
    BY <2>3, Zenon
<1> DEFINE Listable == {x \in Items : x.arm \in Arms}
<1>9. T \subseteq Listable
  <2>1. \A st \in chosen : item(st).arm \in Arms
    BY <1>4, Zenon DEF Arms
  <2> QED
    BY <1>8, <2>1, Zenon
<1>10. drawn \in Seq(Listable)
  BY <1>3 DEF ReviewInv, ReviewTyped
<1> HIDE DEF T, Listable
<1>11. SetToSeq(T) \in Seq(T)
  BY <1>7, SequenceOfSet
<1>12. SetToSeq(T) \in Seq(Listable)
  BY <1>11, <1>9
<1>13. drawn' \in Seq(Listable)
  BY <1>2, <1>12, <1>10 DEF T
<1>14. drawn' \in Seq(Items) /\ \A i \in DOMAIN drawn' : drawn'[i].arm \in Arms
  <2>1. Listable \subseteq Items /\ \A x \in Listable : x.arm \in Arms
    BY Zenon DEF Listable
  <2> QED
    BY <1>13, <2>1
<1>15. Arms' = Arms
  BY <1>1 DEF Arms
<1> QED
  BY <1>1, <1>3, <1>14, <1>15 DEF ReviewInv, ReviewTyped, Told

LEMMA DumpKeeps == ASSUME ReviewInv, Dump PROVE ReviewInv'
<1>1. /\ rpc' = "fill" /\ UNCHANGED <<files, drawn, next>>
      /\ sheet' = [i \in DOMAIN drawn |->
                     [id |-> i, item |-> drawn[i], verdict |-> Blank, check |-> Blank]]
  BY DEF Dump
<1>2. drawn \in Seq(Items)
  BY DEF ReviewInv, ReviewTyped
<1>3. \A i \in DOMAIN drawn :
        [id |-> i, item |-> drawn[i], verdict |-> Blank, check |-> Blank] \in SheetRows
  BY <1>2 DEF SheetRows, Words
<1>4. sheet' \in Seq(SheetRows)
  BY <1>1, <1>2, <1>3
<1> QED
  BY <1>1, <1>4 DEF ReviewInv, ReviewTyped, Told, Arms

LEMMA FillKeeps == ASSUME ReviewInv, Fill PROVE ReviewInv'
<1>1. rpc' = "edit" /\ UNCHANGED <<files, drawn, next>>
  BY DEF Fill
<1>2. sheet \in Seq(SheetRows)
  BY DEF ReviewInv, ReviewTyped
<1>3. PICK filled \in [DOMAIN sheet -> Cells] :
        sheet' = [i \in DOMAIN sheet |-> [sheet[i] EXCEPT !.verdict = filled[i].verdict,
                                                          !.check = filled[i].check]]
  BY DEF Fill
<1>4. \A i \in DOMAIN sheet :
        [sheet[i] EXCEPT !.verdict = filled[i].verdict, !.check = filled[i].check] \in SheetRows
  <2>1. TAKE i \in DOMAIN sheet
  <2>2. sheet[i] \in SheetRows /\ filled[i] \in Cells
    BY <1>2
  <2>3. filled[i].verdict \in Words /\ filled[i].check \in Words
    BY <2>2, Zenon DEF Words
  <2> QED
    BY <2>2, <2>3, ChangedRow, Zenon
<1>5. /\ DOMAIN sheet = 1..Len(sheet) /\ Len(sheet) \in Nat
      /\ sheet' \in [DOMAIN sheet -> SheetRows]
  <2>1. DOMAIN sheet = 1..Len(sheet) /\ Len(sheet) \in Nat
    BY <1>2
  <2> QED
    BY <1>3, <1>4, <2>1, Zenon
<1>6. sheet' \in Seq(SheetRows)
  BY <1>5
<1> QED
  BY <1>1, <1>6 DEF ReviewInv, ReviewTyped, Told, Arms

LEMMA EditKeeps == ASSUME ReviewInv, Edit PROVE ReviewInv'
<1>1. rpc = "edit" /\ rpc' = rpc /\ UNCHANGED <<files, drawn, next>> /\ sheet' \in Edits(sheet)
  BY DEF Edit
<1>2. sheet \in Seq(SheetRows) /\ drawn \in Seq(Items)
  BY DEF ReviewInv, ReviewTyped
<1>3. sheet' \in Seq(SheetRows)
  <2>1. ASSUME NEW i \in DOMAIN sheet, sheet' = RemoveAt(sheet, i)
        PROVE  sheet' \in Seq(SheetRows)
    <3>1. /\ SubSeq(sheet, 1, i - 1) \in Seq(SheetRows)
          /\ SubSeq(sheet, i + 1, Len(sheet)) \in Seq(SheetRows)
      BY <1>2, <2>1
    <3> QED
      BY <2>1, <3>1 DEF RemoveAt
  <2>2. ASSUME NEW i \in DOMAIN sheet, sheet' = Append(sheet, sheet[i])
        PROVE  sheet' \in Seq(SheetRows)
    BY <1>2, <2>2
  <2>3. ASSUME NEW i \in DOMAIN sheet, sheet' = [sheet EXCEPT ![i].item = Blank]
        PROVE  sheet' \in Seq(SheetRows)
    <3>1. [sheet[i] EXCEPT !.item = Blank] \in SheetRows
      <4>1. sheet[i] \in SheetRows
        BY <1>2
      <4> QED
        BY <4>1, ChangedRow, Zenon
    <3>2. sheet' = [sheet EXCEPT ![i] = [sheet[i] EXCEPT !.item = Blank]]
      BY <2>3, Zenon
    <3> QED
      BY <1>2, <3>1, <3>2, ChangedSheet, Zenon
  <2>4. ASSUME NEW i \in DOMAIN sheet, NEW other \in 1..(Len(drawn) + 1),
               sheet' = [sheet EXCEPT ![i].id = other]
        PROVE  sheet' \in Seq(SheetRows)
    <3>1. other \in Nat /\ sheet[i] \in SheetRows
      BY <1>2
    <3>2. [sheet[i] EXCEPT !.id = other] \in SheetRows
      BY <3>1, ChangedRow, Zenon
    <3>3. sheet' = [sheet EXCEPT ![i] = [sheet[i] EXCEPT !.id = other]]
      BY <2>4, Zenon
    <3> QED
      BY <1>2, <3>2, <3>3, ChangedSheet, Zenon
  <2> QED
    <3>1. \/ \E i \in DOMAIN sheet : sheet' = RemoveAt(sheet, i)
          \/ \E i \in DOMAIN sheet : sheet' = Append(sheet, sheet[i])
          \/ \E i \in DOMAIN sheet : sheet' = [sheet EXCEPT ![i].item = Blank]
          \/ \E i \in DOMAIN sheet, other \in 1..(Len(drawn) + 1) :
               sheet' = [sheet EXCEPT ![i].id = other]
      <4>1. \/ sheet' \in {RemoveAt(sheet, i) : i \in DOMAIN sheet}
            \/ sheet' \in {Append(sheet, sheet[i]) : i \in DOMAIN sheet}
            \/ sheet' \in {[sheet EXCEPT ![i].item = Blank] : i \in DOMAIN sheet}
            \/ sheet' \in {[sheet EXCEPT ![i].id = other] :
                             i \in DOMAIN sheet, other \in 1..(Len(drawn) + 1)}
        BY <1>1 DEF Edits
      <4> QED
        BY <4>1
    <3> QED
      BY <2>1, <2>2, <2>3, <2>4, <3>1, Zenon
<1> QED
  BY <1>1, <1>3 DEF ReviewInv, ReviewTyped, Told, Arms

LEMMA ScoreKeeps == ASSUME ReviewInv, Score PROVE ReviewInv'
<1>1. UNCHANGED <<files, drawn, next, sheet>>
  BY DEF Score
<1>2. Problems' = Problems /\ Arms' = Arms /\ \A arm : Judge(arm)' = Judge(arm)
  BY <1>1 DEF Problems, Seen, Counted, Listed, UnknownChecks, Missing, Altered, Arms, Judge,
              CountOf, Sampled
<1>3. Told'
  BY <1>2 DEF Score, Told
<1> QED
  BY <1>1, <1>2, <1>3 DEF ReviewInv, ReviewTyped

LEMMA ReviewKeeps == ASSUME ReviewInv, [ReviewNext]_reviewVars PROVE ReviewInv'
<1>1. CASE UNCHANGED reviewVars
  <2>1. UNCHANGED <<files, drawn, next, sheet, rpc, problems, outcome>>
    BY <1>1 DEF reviewVars
  <2>2. Problems' = Problems /\ Arms' = Arms /\ \A arm : Judge(arm)' = Judge(arm)
    BY <2>1 DEF Problems, Seen, Counted, Listed, UnknownChecks, Missing, Altered, Arms, Judge,
                CountOf, Sampled
  <2>3. Told'
    BY <2>1, <2>2 DEF ReviewInv, Told
  <2> QED
    BY <2>1, <2>2, <2>3 DEF ReviewInv, ReviewTyped
<1>2. CASE ReviewNext
  BY <1>2, DrawKeeps, DumpKeeps, FillKeeps, EditKeeps, ScoreKeeps DEF ReviewNext
<1> QED
  BY <1>1, <1>2

-----------------------------------------------------------------------------
(* What a sheet without problems is, row by row.                           *)
IsReviewed(i) ==
  /\ sheet[i].id \in DOMAIN drawn
  /\ sheet[i].item = drawn[sheet[i].id]
  /\ sheet[i].verdict \in Verdicts
  /\ sheet[i].check \in CandidateChecks

Whole ==
  /\ \A i, j \in DOMAIN sheet : sheet[i].id = sheet[j].id => i = j
  /\ \A i \in DOMAIN sheet : IsReviewed(i)
  /\ \A id \in DOMAIN drawn : \E i \in DOMAIN sheet : sheet[i].id = id

(* The same, as VerdictNeedsReview says it.                                *)
Complete ==
  /\ \A i \in DOMAIN sheet : sheet[i].id \in DOMAIN drawn
  /\ \A id \in DOMAIN drawn :
       /\ Cardinality(Rows(id)) = 1
       /\ \A i \in Rows(id) : /\ sheet[i].item = drawn[id]
                              /\ sheet[i].verdict \in Verdicts
                              /\ sheet[i].check \in CandidateChecks

Said(arm, v) ==
  Cardinality({id \in OfArm(arm) : \E i \in Rows(id) : sheet[i].verdict = v})

LEMMA SheetTyped ==
  ASSUME ReviewTyped
  PROVE  /\ DOMAIN sheet = 1..Len(sheet) /\ Len(sheet) \in Nat
         /\ DOMAIN drawn = 1..Len(drawn) /\ Len(drawn) \in Nat
<1>1. sheet \in Seq(SheetRows) /\ drawn \in Seq(Items)
  BY DEF ReviewTyped
<1> QED
  BY <1>1

(* Without duplicates every row of a known id is counted.                  *)
LEMMA AllCounted ==
  ASSUME ReviewTyped, \A i, j \in DOMAIN sheet : sheet[i].id = sheet[j].id => i = j,
         \A i \in DOMAIN sheet : sheet[i].id \in DOMAIN drawn
  PROVE  Counted = DOMAIN sheet
<1>1. \A i \in DOMAIN sheet : \A j \in 1..(i - 1) : j \in DOMAIN sheet /\ j # i
  BY SheetTyped
<1>2. \A i \in DOMAIN sheet : \A j \in 1..(i - 1) : sheet[j].id # sheet[i].id
  BY <1>1, Zenon
<1> QED
  BY <1>2, Zenon DEF Counted

LEMMA NoProblemIsWhole == ASSUME ReviewTyped, Problems = {} PROVE Whole
<1>1. \A k \in DOMAIN sheet : \A j \in 1..(k - 1) : sheet[j].id # sheet[k].id
  <2>1. SUFFICES ASSUME NEW k \in DOMAIN sheet, NEW j \in 1..(k - 1), sheet[j].id = sheet[k].id
                 PROVE  FALSE
    BY Zenon
  <2>2. <<"duplicate", sheet[k].id>> \in Problems
    BY <2>1, Zenon DEF Problems
  <2> QED
    BY <2>2
<1>2. \A i, j \in DOMAIN sheet : sheet[i].id = sheet[j].id => i = j
  <2>1. SUFFICES ASSUME NEW i \in DOMAIN sheet, NEW j \in DOMAIN sheet,
                        sheet[i].id = sheet[j].id, i # j
                 PROVE  FALSE
    BY Zenon
  <2>2. i \in 1..(j - 1) \/ j \in 1..(i - 1)
    BY <2>1, SheetTyped
  <2> QED
    BY <1>1, <2>1, <2>2, Zenon
<1>3. Seen \subseteq DOMAIN drawn
  <2>1. SUFFICES ASSUME NEW id \in Seen, id \notin DOMAIN drawn PROVE FALSE
    BY Zenon
  <2>2. <<"unknown", id>> \in Problems
    BY <2>1, Zenon DEF Problems
  <2> QED
    BY <2>2
<1>4. \A i \in DOMAIN sheet : sheet[i].id \in DOMAIN drawn
  BY <1>3, Zenon DEF Seen
<1>5. Counted = DOMAIN sheet
  BY <1>2, <1>4, AllCounted, Zenon
<1>6. \A i \in DOMAIN sheet : IsReviewed(i)
  <2>1. TAKE i \in DOMAIN sheet
  <2>2. sheet[i].item = drawn[sheet[i].id]
    <3>1. ~Altered(sheet[i]) \/ <<"changed", sheet[i].id>> \in Problems
      BY <1>5, Zenon DEF Problems
    <3> QED
      BY <3>1 DEF Altered
  <2>3. i \in Listed
    <3>1. i \in Listed \/ <<"arm", sheet[i].id>> \in Problems
      BY <1>5, Zenon DEF Problems
    <3> QED
      BY <3>1
  <2>4. sheet[i].verdict \in Verdicts \union {Blank}
    <3>1. \/ sheet[i].verdict \in Verdicts \union {Blank}
          \/ <<"verdict", sheet[i].id>> \in Problems
      BY <2>3, Zenon DEF Problems
    <3> QED
      BY <3>1
  <2>5. Blank \notin {sheet[i].verdict, sheet[i].check}
    <3>1. \/ Blank \notin {sheet[i].verdict, sheet[i].check}
          \/ <<"blank", sheet[i].id>> \in Problems
      BY <2>3, Zenon DEF Problems
    <3> QED
      BY <3>1
  <2>6. sheet[i].check \in CandidateChecks \union {Blank}
    <3>1. i \notin UnknownChecks \/ <<"check", sheet[i].id>> \in Problems
      BY Zenon DEF Problems
    <3>2. i \notin UnknownChecks
      BY <3>1
    <3> QED
      BY <2>3, <3>2, Zenon DEF UnknownChecks
  <2> QED
    BY <1>4, <2>2, <2>4, <2>5, <2>6, Zenon DEF IsReviewed
<1>7. \A id \in DOMAIN drawn : \E i \in DOMAIN sheet : sheet[i].id = id
  <2>1. SUFFICES ASSUME NEW id \in DOMAIN drawn, ~ \E i \in DOMAIN sheet : sheet[i].id = id
                 PROVE  FALSE
    BY Zenon
  <2>2. id \in Missing
    BY <2>1, Zenon DEF Missing, Seen
  <2>3. <<"missing", id>> \in Problems
    BY <2>2, Zenon DEF Problems
  <2> QED
    BY <2>3
<1> QED
  BY <1>2, <1>6, <1>7, Zenon DEF Whole

LEMMA NothingMissing ==
  ASSUME \A i \in DOMAIN sheet : sheet[i].id \in DOMAIN drawn,
         \A id \in DOMAIN drawn : \E i \in DOMAIN sheet : sheet[i].id = id
  PROVE  Seen \ DOMAIN drawn = {} /\ Missing = {}
<1>1. Seen \subseteq DOMAIN drawn
  BY Zenon DEF Seen
<1>2. \A id \in DOMAIN drawn : id \in Seen
  BY Zenon DEF Seen
<1> QED
  BY <1>1, <1>2, Zenon DEF Missing

LEMMA WholeHasNoProblem == ASSUME ReviewTyped, Whole PROVE Problems = {}
<1>1. /\ \A i, j \in DOMAIN sheet : sheet[i].id = sheet[j].id => i = j
      /\ \A i \in DOMAIN sheet : IsReviewed(i)
      /\ \A id \in DOMAIN drawn : \E i \in DOMAIN sheet : sheet[i].id = id
  BY Zenon DEF Whole
<1>2. Counted = DOMAIN sheet
  BY <1>1, AllCounted, Zenon DEF IsReviewed
<1>3. {k \in DOMAIN sheet : \E j \in 1..(k - 1) : sheet[j].id = sheet[k].id} = {}
  <2>1. \A k \in DOMAIN sheet : \A j \in 1..(k - 1) : j \in DOMAIN sheet /\ j # k
    BY SheetTyped
  <2> QED
    BY <1>1, <2>1, Zenon
<1>4. Seen \ DOMAIN drawn = {} /\ Missing = {}
  BY <1>1, NothingMissing, Zenon DEF IsReviewed
<1>5. Listed = Counted
  <2>1. \A id \in DOMAIN drawn : drawn[id].arm \in Arms
    BY Zenon DEF ReviewTyped
  <2> QED
    BY <2>1, Zenon DEF Listed, Counted
<1>6. \A k \in Counted : /\ ~Altered(sheet[k])
                         /\ sheet[k].verdict \in Verdicts \union {Blank}
                         /\ sheet[k].check \in CandidateChecks \union {Blank}
                         /\ Blank \notin {sheet[k].verdict, sheet[k].check}
  <2>1. TAKE k \in Counted
  <2>2. IsReviewed(k)
    BY <1>1, <1>2, Zenon
  <2>3. Blank \notin Verdicts /\ Blank \notin CandidateChecks
    BY ReviewAssumption
  <2> QED
    BY <2>2, <2>3, Zenon DEF IsReviewed, Altered
<1>7. /\ {k \in Counted : Altered(sheet[k])} = {}
      /\ {k \in Listed : sheet[k].verdict \notin Verdicts \union {Blank}} = {}
      /\ {k \in Listed : Blank \in {sheet[k].verdict, sheet[k].check}} = {}
      /\ Counted \ Listed = {}
  BY <1>5, <1>6, Zenon
<1>8. UnknownChecks = {}
  BY <1>5, <1>6, Zenon DEF UnknownChecks
<1> QED
  BY <1>3, <1>4, <1>7, <1>8, Zenon DEF Problems

LEMMA RowsFinite ==
  ASSUME ReviewTyped, NEW A \in SUBSET DOMAIN sheet
  PROVE  IsFiniteSet(A)
<1>1. IsFiniteSet(1..Len(sheet)) /\ DOMAIN sheet = 1..Len(sheet)
  BY SheetTyped, FS_Interval
<1> QED
  BY <1>1, FS_Subset

LEMMA CompleteIsWhole == ASSUME ReviewTyped PROVE Complete <=> Whole
<1>1. ASSUME Complete PROVE Whole
  <2>1. \A id \in DOMAIN drawn : \E k : Rows(id) = {k}
    <3>1. TAKE id \in DOMAIN drawn
    <3>2. IsFiniteSet(Rows(id))
      BY RowsFinite, Zenon DEF Rows
    <3> QED
      BY <1>1, <3>2, FS_Singleton, Zenon DEF Complete
  <2>2. \A i \in DOMAIN sheet : sheet[i].id \in DOMAIN drawn /\ i \in Rows(sheet[i].id)
    BY <1>1, Zenon DEF Complete, Rows
  <2>3. \A i, j \in DOMAIN sheet : sheet[i].id = sheet[j].id => i = j
    <3>1. SUFFICES ASSUME NEW i \in DOMAIN sheet, NEW j \in DOMAIN sheet,
                          sheet[i].id = sheet[j].id
                   PROVE  i = j
      BY Zenon
    <3>2. PICK k : Rows(sheet[i].id) = {k}
      BY <2>1, <2>2, Zenon
    <3>3. i \in {k} /\ j \in {k}
      BY <2>2, <3>1, <3>2, Zenon
    <3> QED
      BY <3>3, Zenon
  <2>4. \A i \in DOMAIN sheet : IsReviewed(i)
    BY <1>1, <2>2, Zenon DEF Complete, IsReviewed
  <2>5. \A id \in DOMAIN drawn : \E i \in DOMAIN sheet : sheet[i].id = id
    BY <2>1, Zenon DEF Rows
  <2> QED
    BY <2>3, <2>4, <2>5, Zenon DEF Whole
<1>2. ASSUME Whole PROVE Complete
  <2>1. \A id \in DOMAIN drawn : Cardinality(Rows(id)) = 1
    <3>1. TAKE id \in DOMAIN drawn
    <3>2. PICK k \in DOMAIN sheet : sheet[k].id = id
      BY <1>2, Zenon DEF Whole
    <3>3. \A i \in DOMAIN sheet : sheet[i].id = id => i = k
      BY <1>2, <3>2, Zenon DEF Whole
    <3>4. Rows(id) = {k}
      BY <3>2, <3>3, Zenon DEF Rows
    <3> QED
      BY <3>4, FS_Singleton, Zenon
  <2>2. \A i \in DOMAIN sheet : sheet[i].id \in DOMAIN drawn
    BY <1>2, Zenon DEF Whole, IsReviewed
  <2>3. \A id \in DOMAIN drawn : \A i \in Rows(id) :
          sheet[i].item = drawn[id] /\ sheet[i].verdict \in Verdicts
            /\ sheet[i].check \in CandidateChecks
    BY <1>2, Zenon DEF Whole, IsReviewed, Rows
  <2> QED
    BY <2>1, <2>2, <2>3, Zenon DEF Complete
<1> QED
  BY <1>1, <1>2

(* Rows are as many as their ids.                                          *)
LEMMA RowsAreIds ==
  ASSUME ReviewTyped, Whole, NEW A \in SUBSET DOMAIN sheet
  PROVE  /\ Cardinality(A) = Cardinality({sheet[i].id : i \in A})
         /\ Cardinality(A) \in Nat
<1> DEFINE f == [i \in A |-> sheet[i].id]
           B == {sheet[i].id : i \in A}
<1>1. IsFiniteSet(A)
  BY RowsFinite
<1>2. f \in [A -> B] /\ \A b \in B : \E i \in A : f[i] = b
  BY Zenon
<1>3. \A i, j \in A : f[i] = f[j] => i = j
  <2>1. \A i, j \in A : sheet[i].id = sheet[j].id => i = j
    BY Zenon DEF Whole
  <2> QED
    BY <2>1, Zenon
<1>4. f \in Bijection(A, B)
  BY <1>2, <1>3, Zenon DEF Bijection, Injection, IsInjective, Surjection
<1> HIDE DEF f, B
<1>5. ExistsBijection(A, B)
  BY <1>4 DEF ExistsBijection
<1> QED
  BY <1>1, <1>5, FS_Bijection, FS_CardinalityType, Zenon DEF B

(* On a whole sheet the counts are of the statements.                      *)
LEMMA CountsAreOfStatements ==
  ASSUME ReviewTyped, Whole, NEW arm
  PROVE  /\ \A v : CountOf(arm, v) = Said(arm, v) /\ Said(arm, v) \in Nat
         /\ Sampled(arm) = Cardinality(OfArm(arm)) /\ Cardinality(OfArm(arm)) \in Nat
<1>1. /\ \A i, j \in DOMAIN sheet : sheet[i].id = sheet[j].id => i = j
      /\ \A i \in DOMAIN sheet : sheet[i].id \in DOMAIN drawn
      /\ \A id \in DOMAIN drawn : \E i \in DOMAIN sheet : sheet[i].id = id
  BY Zenon DEF Whole, IsReviewed
<1>2. Counted = DOMAIN sheet
  BY <1>1, AllCounted, Zenon
<1>3. ASSUME NEW v
      PROVE  CountOf(arm, v) = Said(arm, v) /\ Said(arm, v) \in Nat
  <2> DEFINE A == {i \in DOMAIN sheet : drawn[sheet[i].id].arm = arm
                                          /\ sheet[i].verdict = v}
             B == {id \in OfArm(arm) : \E i \in Rows(id) : sheet[i].verdict = v}
  <2>1. {sheet[i].id : i \in A} = B
    <3>1. \A i \in A : sheet[i].id \in B
      BY <1>1, Zenon DEF OfArm, Rows
    <3>2. \A id \in B : \E i \in A : sheet[i].id = id
      BY Zenon DEF OfArm, Rows
    <3> HIDE DEF A, B
    <3> QED
      BY <3>1, <3>2, Zenon
  <2>2. CountOf(arm, v) = Cardinality(A)
    BY <1>2, Zenon DEF CountOf
  <2>3. Said(arm, v) = Cardinality(B)
    BY Zenon DEF Said
  <2>4. A \in SUBSET DOMAIN sheet
    BY Zenon
  <2> HIDE DEF A, B
  <2> QED
    BY <2>1, <2>2, <2>3, <2>4, RowsAreIds, Zenon
<1>4. Sampled(arm) = Cardinality(OfArm(arm)) /\ Cardinality(OfArm(arm)) \in Nat
  <2> DEFINE A == {i \in DOMAIN sheet : drawn[sheet[i].id].arm = arm}
  <2>1. {sheet[i].id : i \in A} = OfArm(arm)
    <3>1. \A i \in A : sheet[i].id \in OfArm(arm)
      BY <1>1, Zenon DEF OfArm
    <3>2. \A id \in OfArm(arm) : \E i \in A : sheet[i].id = id
      BY <1>1, Zenon DEF OfArm
    <3> HIDE DEF A
    <3> QED
      BY <3>1, <3>2, Zenon
  <2>2. Missing = {}
    BY <1>1, NothingMissing, Zenon
  <2>3. {id \in Missing : drawn[id].arm = arm} = {}
    BY <2>2, Zenon
  <2>4. Sampled(arm) = Cardinality(A) + 0
    BY <1>2, <2>3, FS_EmptySet, Zenon DEF Sampled
  <2>5. A \in SUBSET DOMAIN sheet
    BY Zenon
  <2> HIDE DEF A
  <2>6. Cardinality(A) = Cardinality(OfArm(arm)) /\ Cardinality(A) \in Nat
    BY <2>1, <2>5, RowsAreIds, Zenon
  <2> QED
    BY <2>4, <2>6
<1> QED
  BY <1>3, <1>4

(* The bounds that an outcome stands for.                                  *)
LEMMA JudgeIsFair ==
  ASSUME ReviewTyped, Whole, NEW arm
  PROVE  /\ Judge(arm) \in Outcomes
         /\ Judge(arm) = "passed" =>
              /\ 10 * Said(arm, "supported")
                   >= 9 * (Said(arm, "supported") + Said(arm, "unsupported"))
              /\ Said(arm, "supported") > 0
              /\ 10 * Said(arm, "unclear") <= Cardinality(OfArm(arm))
         /\ Judge(arm) = "failed" =>
              10 * Said(arm, "unsupported") > Said(arm, "supported")
<1> DEFINE s == Said(arm, "supported")
           u == Said(arm, "unsupported")
           c == Said(arm, "unclear")
           n == Cardinality(OfArm(arm))
<1>1. s \in Nat /\ u \in Nat /\ c \in Nat /\ n \in Nat
  BY CountsAreOfStatements, Zenon
<1>2. /\ CountOf(arm, "supported") = s /\ CountOf(arm, "unsupported") = u
      /\ CountOf(arm, "unclear") = c /\ Sampled(arm) = n
  BY CountsAreOfStatements, Zenon
<1> HIDE DEF s, u, c, n
<1>3. Judge(arm) = IF s + u = 0 THEN "unmeasured"
                   ELSE IF s + u > 0 /\ c * 10 > n THEN "deferred"
                   ELSE IF s * 10 >= (s + u) * 9 THEN "passed" ELSE "failed"
  BY <1>1, <1>2 DEF Judge
<1> QED
  BY <1>1, <1>3 DEF Outcomes, s, u, c, n

-----------------------------------------------------------------------------
LEMMA ScoreIsOfReview == ASSUME ReviewInv PROVE VerdictNeedsReview
<1>1. SUFFICES ASSUME rpc = "scored"
               PROVE  /\ Complete <=> (\A arm \in Arms : outcome[arm] # Blank)
                      /\ \A arm \in Arms : outcome[arm] # Blank => Complete
                      /\ \A arm \in Arms :
                           /\ outcome[arm] = "passed" =>
                                /\ 10 * Said(arm, "supported")
                                     >= 9 * (Said(arm, "supported") + Said(arm, "unsupported"))
                                /\ Said(arm, "supported") > 0
                                /\ 10 * Said(arm, "unclear") <= Cardinality(OfArm(arm))
                           /\ outcome[arm] = "failed" =>
                                10 * Said(arm, "unsupported") > Said(arm, "supported")
  BY Zenon DEF VerdictNeedsReview, Complete, Said, Rows
<1>2. /\ ReviewTyped
      /\ \A arm \in Arms : outcome[arm] = IF Problems = {} THEN Judge(arm) ELSE Blank
  BY <1>1 DEF ReviewInv, Told
<1>3. Problems = {} <=> Complete
  BY <1>2, NoProblemIsWhole, WholeHasNoProblem, CompleteIsWhole, Zenon
<1>4. Blank \notin Outcomes /\ "passed" \in Outcomes /\ "failed" \in Outcomes
  BY ReviewAssumption DEF Outcomes
<1>5. \E arm : arm \in Arms
  <2>1. 1 \in DOMAIN files
    BY <1>2, ReviewAssumption DEF ReviewTyped
  <2> QED
    BY <2>1, Zenon DEF Arms
<1>6. CASE Complete
  <2>1. Whole /\ \A arm \in Arms : outcome[arm] = Judge(arm)
    BY <1>2, <1>3, <1>6, CompleteIsWhole, Zenon
  <2>2. \A arm \in Arms : outcome[arm] # Blank
    BY <1>2, <1>4, <2>1, JudgeIsFair, Zenon
  <2> QED
    BY <1>2, <1>6, <2>1, <2>2, JudgeIsFair, Zenon
<1>7. CASE ~Complete
  <2>1. \A arm \in Arms : outcome[arm] = Blank
    BY <1>2, <1>3, <1>7, Zenon
  <2> QED
    BY <1>4, <1>5, <1>7, <2>1, Zenon
<1> QED
  BY <1>6, <1>7, Zenon

(* Whatever was written into the two cells of a row, known words or not,   *)
(* and however the sheet was cut, copied and changed: an arm has an        *)
(* outcome exactly if every statement that was drawn was reviewed as it    *)
(* was drawn in known words, and passed and failed mean what the           *)
(* thresholds say of these statements (score_citations, ArmScore.judge).   *)
THEOREM OutcomesRestOnReviews == ReviewSpec => []VerdictNeedsReview
<1>1. ReviewInit => ReviewInv
  BY ReviewStarts
<1>2. ReviewInv /\ [ReviewNext]_reviewVars => ReviewInv'
  BY ReviewKeeps
<1>3. ReviewInv => VerdictNeedsReview
  BY ScoreIsOfReview
<1> QED
  BY <1>1, <1>2, <1>3, PTL DEF ReviewSpec

-----------------------------------------------------------------------------
(* What the files of an arm that were drawn from hold, and hold of a case, *)
(* and what was taken of it.                                               *)
Earlier(arm)       == {k \in DOMAIN files : files[k].arm = arm /\ k < next}
Held(arm)          == UNION {{i} \X files[i].statements : i \in Earlier(arm)}
HeldOf(arm, case)  == {x \in Held(arm) : x[2].case = case}
TakenOf(arm, case) == {i \in OfArm(arm) : drawn[i].statement.case = case}

(* A sample within its limits, and as large as they allow.                 *)
Within(arm) ==
  /\ IsFiniteSet(Held(arm))
  /\ Cardinality(OfArm(arm)) <= PerArm
  /\ \A case : Cardinality(TakenOf(arm, case)) <= PerCase

Filled(arm) ==
  \/ Cardinality(OfArm(arm)) = PerArm
  \/ \A case : Cardinality(TakenOf(arm, case)) = Smaller(PerCase, Cardinality(HeldOf(arm, case)))

Drawing ==
  /\ ReviewTyped
  /\ \A i, j \in DOMAIN drawn : drawn[i] = drawn[j] => i = j
  /\ \A arm : \A i \in OfArm(arm) : <<drawn[i].source, drawn[i].statement>> \in Held(arm)
  /\ \A arm \in Arms : Within(arm) /\ Filled(arm)
  /\ rpc # "draw" => next > Len(files)

-----------------------------------------------------------------------------
(* SetToSeq lists the elements of a finite set, each once.                 *)
LEMMA SetInSequence ==
  ASSUME NEW T, IsFiniteSet(T)
  PROVE  /\ SetToSeq(T) \in Seq(T)
         /\ \A i, j \in 1..Len(SetToSeq(T)) : SetToSeq(T)[i] = SetToSeq(T)[j] => i = j
         /\ \A x \in T : \E i \in 1..Len(SetToSeq(T)) : SetToSeq(T)[i] = x
<1> DEFINE s == SetToSeq(T)
           n == Cardinality(T)
<1>1. n \in Nat /\ ExistsBijection(1..n, T)
  BY FS_CardinalityType
<1>2. PICK f : f \in Bijection(1..n, T)
  BY <1>1 DEF ExistsBijection
<1>3. f \in [1..n -> T] /\ IsInjective(f)
  BY <1>2 DEF Bijection, Injection, IsInjective
<1>4. s \in [1..n -> T] /\ IsInjective(s)
  BY <1>3 DEF SetToSeq
<1>5. s \in Seq(T) /\ Len(s) = n
  BY <1>1, <1>4
<1> HIDE DEF s
<1>6. \A i, j \in 1..Len(s) : s[i] = s[j] => i = j
  BY <1>4, <1>5 DEF IsInjective
<1>7. s \in Injection(1..n, T)
  BY <1>4, <1>5, <1>6 DEF Injection, IsInjective
<1>8. s \in Surjection(1..n, T)
  <2>1. Cardinality(1..n) = n
    BY <1>1, FS_Interval
  <2> QED
    BY <1>7, <2>1, FS_Injection, Zenon
<1>9. \A x \in T : \E i \in 1..n : s[i] = x
  BY <1>8 DEF Surjection
<1> QED
  BY <1>5, <1>6, <1>9 DEF s

(* Places behind the first L that hold some of the statements chosen.      *)
Places(s, L, m, some) == {i \in L + 1..L + m : s[i - L].statement \in some}

LEMMA AsManyPlaces ==
  ASSUME NEW some, IsFiniteSet(some), NEW m \in Nat, NEW L \in Nat, NEW s,
         \A i, j \in 1..m : s[i].statement = s[j].statement => i = j,
         \A st \in some : \E i \in 1..m : s[i].statement = st
  PROVE  /\ IsFiniteSet(Places(s, L, m, some))
         /\ Cardinality(Places(s, L, m, some)) = Cardinality(some)
<1> DEFINE places == {i \in L + 1..L + m : s[i - L].statement \in some}
           f == [i \in places |-> s[i - L].statement]
<1>1. f \in Injection(places, some)
  <2>1. f \in [places -> some]
    OBVIOUS
  <2>2. ASSUME NEW i \in places, NEW j \in places, f[i] = f[j]
        PROVE  i = j
    <3>1. i - L \in 1..m /\ j - L \in 1..m /\ s[i - L].statement = s[j - L].statement
      BY <2>2
    <3>2. i - L = j - L
      BY <3>1, Zenon
    <3> QED
      BY <3>2
  <2> QED
    BY <2>1, <2>2 DEF Injection, IsInjective
<1>2. \A st \in some : \E i \in places : f[i] = st
  <2> SUFFICES ASSUME NEW st \in some PROVE \E i \in places : f[i] = st
    OBVIOUS
  <2>1. PICK k \in 1..m : s[k].statement = st
    OBVIOUS
  <2>2. L + k \in L + 1..L + m /\ (L + k) - L = k
    OBVIOUS
  <2>3. L + k \in places /\ f[L + k] = st
    BY <2>1, <2>2
  <2> QED
    BY <2>3
<1> HIDE DEF places, f
<1>3. f \in Surjection(places, some)
  BY <1>1, <1>2 DEF Surjection, Injection
<1>4. IsFiniteSet(places) /\ (Cardinality(places) = Cardinality(some) <=> f \in Surjection(places, some))
  BY <1>1, FS_Injection, Zenon
<1> QED
  BY <1>3, <1>4 DEF places, Places

(* A statement is in as many pairs with its file as there are of it.       *)
LEMMA AsManyPairs ==
  ASSUME NEW S, IsFiniteSet(S), NEW n
  PROVE  IsFiniteSet({n} \X S) /\ Cardinality({n} \X S) = Cardinality(S)
<1>1. IsFiniteSet({n}) /\ Cardinality({n}) = 1
  BY FS_Singleton
<1>2. IsFiniteSet({n} \X S) /\ Cardinality({n} \X S) = 1 * Cardinality(S)
  BY <1>1, FS_Product
<1>3. Cardinality(S) \in Nat
  BY FS_CardinalityType
<1> QED
  BY <1>2, <1>3

LEMMA DisjointCount ==
  ASSUME NEW S, NEW T, IsFiniteSet(S), IsFiniteSet(T), S \intersect T = {}
  PROVE  /\ IsFiniteSet(S \union T)
         /\ Cardinality(S \union T) = Cardinality(S) + Cardinality(T)
         /\ Cardinality(S) \in Nat /\ Cardinality(T) \in Nat
<1>1. Cardinality(S) \in Nat /\ Cardinality(T) \in Nat
  BY FS_CardinalityType
<1>2. /\ IsFiniteSet(S \union T)
      /\ Cardinality(S \union T) = Cardinality(S) + Cardinality(T) - Cardinality(S \intersect T)
  BY FS_Union, Zenon
<1>3. Cardinality(S \intersect T) = 0
  BY FS_EmptySet, Zenon
<1> QED
  BY <1>1, <1>2, <1>3

-----------------------------------------------------------------------------
(* What a file may still give of a case.                                   *)
Room(arm, statements, case) ==
  Smaller(IF PerCase > Taken(arm, case) THEN PerCase - Taken(arm, case) ELSE 0,
          Cardinality(OfCase(statements, case)))

LEMMA RoomFillsUp ==
  ASSUME NEW most \in Nat, NEW had \in Nat, NEW more \in Nat, NEW taken \in Nat,
         taken = Smaller(most, had)
  PROVE  taken + Smaller(IF most > taken THEN most - taken ELSE 0, more) = Smaller(most, had + more)
BY DEF Smaller

LEMMA PlacesFinite ==
  ASSUME ReviewTyped
  PROVE  \A arm : /\ IsFiniteSet(OfArm(arm)) /\ Cardinality(OfArm(arm)) \in Nat
                  /\ \A case : /\ IsFiniteSet(TakenOf(arm, case))
                               /\ Taken(arm, case) = Cardinality(TakenOf(arm, case))
                               /\ Taken(arm, case) \in Nat
<1> TAKE arm
<1>1. IsFiniteSet(DOMAIN drawn)
  BY FS_Interval DEF ReviewTyped
<1>2. OfArm(arm) \subseteq DOMAIN drawn /\ \A case : TakenOf(arm, case) \subseteq DOMAIN drawn
  BY DEF OfArm, TakenOf
<1>3. IsFiniteSet(OfArm(arm)) /\ \A case : IsFiniteSet(TakenOf(arm, case))
  BY <1>1, <1>2, FS_Subset, Zenon
<1>4. \A case : Taken(arm, case) = Cardinality(TakenOf(arm, case))
  BY DEF Taken, TakenOf
<1> QED
  BY <1>3, <1>4, FS_CardinalityType, Zenon

(* A choice from a file keeps to the limits, and is as large as they allow. *)
LEMMA ChoiceSays ==
  ASSUME ReviewTyped, NEW arm, NEW S, IsFiniteSet(S), NEW chosen \in Samples(arm, S),
         Cardinality(OfArm(arm)) <= PerArm
  PROVE  /\ chosen \subseteq S /\ IsFiniteSet(chosen)
         /\ Cardinality(OfArm(arm)) + Cardinality(chosen) <= PerArm
         /\ \A case : Cardinality(OfCase(chosen, case)) <= Room(arm, S, case)
         /\ \/ Cardinality(OfArm(arm)) + Cardinality(chosen) = PerArm
            \/ \A case : Cardinality(OfCase(chosen, case)) = Room(arm, S, case)
<1> DEFINE limit == PerArm - Cardinality(OfArm(arm))
<1>1. PICK some \in SUBSET S :
        /\ \A case \in Cases(S) : Cardinality(OfCase(some, case)) = Room(arm, S, case)
        /\ chosen \in kSubset(Smaller(limit, Cardinality(some)), some)
  BY Zenon DEF Samples, Room
<1>2. chosen \subseteq some /\ Cardinality(chosen) = Smaller(limit, Cardinality(some))
  BY <1>1 DEF kSubset
<1>3. limit \in Nat
  BY PlacesFinite, ReviewAssumption
<1>4. IsFiniteSet(some) /\ IsFiniteSet(chosen)
  BY <1>1, <1>2, FS_Subset, Zenon
<1>5. Cardinality(some) \in Nat /\ Cardinality(chosen) \in Nat
  BY <1>4, FS_CardinalityType
<1>6. \A case : Cardinality(OfCase(some, case)) = Room(arm, S, case)
  <2> SUFFICES ASSUME NEW case, case \notin Cases(S)
               PROVE  Cardinality(OfCase(some, case)) = Room(arm, S, case)
    BY <1>1
  <2>1. OfCase(S, case) = {} /\ OfCase(some, case) = {}
    BY DEF OfCase, Cases
  <2>2. Cardinality({}) = 0
    BY FS_EmptySet
  <2>3. Taken(arm, case) \in Nat
    BY PlacesFinite
  <2> QED
    BY <2>1, <2>2, <2>3, ReviewAssumption DEF Room, Smaller
<1>7. \A case : Cardinality(OfCase(chosen, case)) <= Room(arm, S, case)
  <2> TAKE case
  <2>1. IsFiniteSet(OfCase(some, case))
    BY <1>4, FS_Subset DEF OfCase
  <2>2. OfCase(chosen, case) \in SUBSET OfCase(some, case)
    BY <1>2 DEF OfCase
  <2> QED
    BY <1>6, <2>1, <2>2, FS_Subset
<1>8. CASE Cardinality(some) <= limit
  <2>1. Cardinality(chosen) = Cardinality(some)
    BY <1>2, <1>3, <1>5, <1>8 DEF Smaller
  <2>2. chosen = some
    BY <1>2, <1>4, <2>1, FS_Subset, Zenon
  <2> QED
    BY <1>1, <1>3, <1>4, <1>5, <1>6, <1>7, <1>8, <2>2, PlacesFinite, ReviewAssumption
<1>9. CASE ~(Cardinality(some) <= limit)
  <2>1. Cardinality(chosen) = limit
    BY <1>2, <1>3, <1>5, <1>9 DEF Smaller
  <2>2. Cardinality(OfArm(arm)) + Cardinality(chosen) = PerArm
    BY <2>1, PlacesFinite, ReviewAssumption
  <2> QED
    BY <1>1, <1>2, <1>4, <1>7, <2>2, ReviewAssumption
<1> QED
  BY <1>8, <1>9

-----------------------------------------------------------------------------
LEMMA NothingDrawn == ASSUME ReviewInit PROVE Drawing
<1>1. ReviewTyped /\ rpc = "draw" /\ drawn = <<>> /\ next = 1
  BY ReviewStarts DEF ReviewInit, ReviewInv
<1>2. \A arm : Held(arm) = {} /\ OfArm(arm) = {}
  <2>1. \A arm : Earlier(arm) = {}
    BY <1>1, ReviewAssumption DEF Earlier, ReviewInit
  <2> QED
    BY <1>1, <2>1 DEF Held, OfArm
<1>3. \A arm, case : HeldOf(arm, case) = {} /\ TakenOf(arm, case) = {}
  BY <1>2 DEF HeldOf, TakenOf
<1>4. IsFiniteSet({}) /\ Cardinality({}) = 0
  BY FS_EmptySet
<1>5. \A arm : Within(arm) /\ Filled(arm)
  <2>1. 0 <= PerArm /\ 0 <= PerCase /\ 0 = Smaller(PerCase, 0)
    BY ReviewAssumption DEF Smaller
  <2> QED
    BY <1>2, <1>3, <1>4, <2>1 DEF Within, Filled
<1> QED
  BY <1>1, <1>2, <1>5 DEF Drawing

LEMMA Joined ==
  ASSUME NEW A, NEW B, NEW u \in Seq(A), NEW v \in Seq(B), NEW L, NEW m, NEW w,
         L = Len(u), m = Len(v), w = u \o v
  PROVE  /\ DOMAIN w = 1..L + m /\ DOMAIN u = 1..L /\ L \in Nat /\ m \in Nat
         /\ \A i \in 1..L : w[i] = u[i]
         /\ \A i \in L + 1..L + m : i - L \in 1..m /\ w[i] = v[i - L]
OBVIOUS

LEMMA DrawIsFair == ASSUME Drawing, Draw PROVE Drawing'
<1> DEFINE file == files[next]
           S == file.statements
<1>1. PICK a : a = file.arm
  OBVIOUS
<1> DEFINE item(st) == [arm |-> a, source |-> next, statement |-> st]
<1>2. /\ rpc = "draw" /\ rpc' = rpc /\ next' = next + 1 /\ files' = files /\ sheet' = sheet
      /\ next <= Len(files)
  BY DEF Draw
<1>3. /\ ReviewTyped /\ files \in Archives /\ next \in Nat \ {0} /\ drawn \in Seq(Items)
      /\ sheet \in Seq(SheetRows)
  BY DEF Drawing, ReviewTyped
<1>4. DOMAIN files = 1..Len(files) /\ Len(files) \in Nat /\ next \in DOMAIN files
  BY <1>2, <1>3, ReviewAssumption
<1>5. PICK chosen \in Samples(a, S) :
        drawn' = drawn \o SetToSeq({item(st) : st \in chosen})
  BY <1>1 DEF Draw
<1>6. a \in Arms
  BY <1>1, <1>4 DEF Arms
<1>7. IsFiniteSet(S)
  BY <1>3, <1>4, ReviewAssumption, Zenon
<1>8. Cardinality(OfArm(a)) <= PerArm
  BY <1>6 DEF Drawing, Within
<1>9. /\ chosen \subseteq S /\ IsFiniteSet(chosen)
      /\ Cardinality(OfArm(a)) + Cardinality(chosen) <= PerArm
      /\ \A case : Cardinality(OfCase(chosen, case)) <= Room(a, S, case)
      /\ \/ Cardinality(OfArm(a)) + Cardinality(chosen) = PerArm
         \/ \A case : Cardinality(OfCase(chosen, case)) = Room(a, S, case)
  BY <1>3, <1>5, <1>7, <1>8, ChoiceSays
<1>10. PICK T, s, m, L : /\ m = Len(s) /\ L = Len(drawn) /\ s = SetToSeq(T)
                         /\ T = {item(st) : st \in chosen}
  BY Zenon
<1>11. drawn' = drawn \o s
  BY <1>5, <1>10, Zenon
<1>12. /\ \A x \in T : \E st \in chosen : x = item(st)
       /\ \A st \in chosen : item(st) \in T
       /\ \A st : item(st).arm = a /\ item(st).source = next /\ item(st).statement = st
  <2>1. \A st : item(st).arm = a /\ item(st).source = next /\ item(st).statement = st
    OBVIOUS
  <2> HIDE DEF item
  <2> QED
    BY <1>10, <2>1, Zenon
<1>13. IsFiniteSet(T)
  <2>1. T = {[arm |-> a, source |-> next, statement |-> st] : st \in chosen}
    BY <1>10, Zenon
  <2>2. IsFiniteSet({[arm |-> a, source |-> next, statement |-> st] : st \in chosen})
    BY <1>9, FiniteItems, ZenonT(30)
  <2> QED
    BY <2>1, <2>2, Zenon
<1> HIDE DEF item
<1>14. /\ \E U : s \in Seq(U)
       /\ \A i \in 1..m : /\ s[i].arm = a /\ s[i].source = next /\ s[i].statement \in chosen
       /\ \A i, j \in 1..m : s[i].statement = s[j].statement => i = j
       /\ \A st \in chosen : \E i \in 1..m : s[i].statement = st
  <2>1. /\ \A x \in T : x.arm = a /\ x.source = next /\ x.statement \in chosen
        /\ \A x, y \in T : x.statement = y.statement => x = y
        /\ \A st \in chosen : \E x \in T : x.statement = st
    <3> HIDE DEF item
    <3>1. \A x \in T : x.statement \in chosen /\ x = item(x.statement)
      BY <1>12, Zenon
    <3>2. \A x \in T : x.arm = a /\ x.source = next
      BY <1>12, <3>1
    <3>3. \A st \in chosen : \E x \in T : x.statement = st
      BY <1>12, Zenon
    <3>4. \A x, y \in T : x.statement = y.statement => x = y
      BY <3>1
    <3> QED
      BY <3>1, <3>2, <3>3, <3>4, Zenon
  <2>2. SetToSeq(T) \in Seq(T)
    BY <1>13, SetInSequence
  <2>3. \A i, j \in 1..Len(SetToSeq(T)) : SetToSeq(T)[i] = SetToSeq(T)[j] => i = j
    BY <1>13, SetInSequence
  <2>4. \A x \in T : \E i \in 1..Len(SetToSeq(T)) : SetToSeq(T)[i] = x
    BY <1>13, SetInSequence
  <2>5. /\ s \in Seq(T) /\ \A i, j \in 1..m : s[i] = s[j] => i = j
        /\ \A x \in T : \E i \in 1..m : s[i] = x
    <3>1. s = SetToSeq(T) /\ m = Len(SetToSeq(T))
      BY <1>10
    <3>2. \A i, j \in 1..m : s[i] = s[j] => i = j
      BY <2>3, <3>1, Zenon
    <3>3. \A x \in T : \E i \in 1..m : s[i] = x
      BY <2>4, <3>1, Zenon
    <3> QED
      BY <2>2, <3>1, <3>2, <3>3, Zenon
  <2>6. \A i \in 1..m : s[i] \in T
    <3>1. m = Len(s) /\ s \in Seq(T)
      BY <1>10, <2>5
    <3> QED
      BY <3>1
  <2>7. \A i, j \in 1..m : s[i].statement = s[j].statement => i = j
    BY <2>1, <2>5, <2>6, ZenonT(30)
  <2>8. ASSUME NEW st \in chosen
        PROVE  \E i \in 1..m : s[i].statement = st
    <3>1. PICK x \in T : x.statement = st
      BY <2>1
    <3> QED
      BY <2>5, <3>1
  <2> QED
    BY <2>1, <2>5, <2>6, <2>7, <2>8, Zenon
<1>15. /\ DOMAIN drawn' = 1..L + m /\ DOMAIN drawn = 1..L /\ L \in Nat /\ m \in Nat
       /\ \A i \in 1..L : drawn'[i] = drawn[i]
       /\ \A i \in L + 1..L + m : i - L \in 1..m /\ drawn'[i] = s[i - L]
  <2>1. PICK U : s \in Seq(U)
    BY <1>14
  <2> QED
    <3>1. L = Len(drawn) /\ m = Len(s) /\ drawn \in Seq(Items)
      BY <1>3, <1>10
    <3> QED
      BY <1>11, <2>1, <3>1, Joined
<1>16. \A some \in SUBSET chosen :
         /\ IsFiniteSet(Places(s, L, m, some))
         /\ Cardinality(Places(s, L, m, some)) = Cardinality(some)
  <2> SUFFICES ASSUME NEW some \in SUBSET chosen
               PROVE  /\ IsFiniteSet(Places(s, L, m, some))
                      /\ Cardinality(Places(s, L, m, some)) = Cardinality(some)
    OBVIOUS
  <2>1. IsFiniteSet(some)
    BY <1>9, FS_Subset
  <2>2. m \in Nat /\ L \in Nat
    BY <1>15
  <2>3. /\ \A i, j \in 1..m : s[i].statement = s[j].statement => i = j
        /\ \A st \in some : \E i \in 1..m : s[i].statement = st
    BY <1>14
  <2> QED
    BY <2>1, <2>2, <2>3, AsManyPlaces
<1> HIDE DEF item
<1>17. ReviewTyped'
  <2>1. ReviewInv
    BY <1>2 DEF Drawing, ReviewInv, Told
  <2> QED
    BY <2>1, DrawKeeps DEF ReviewInv
<1>18. /\ \A i \in 1..L : i \notin L + 1..L + m
       /\ \A i \in L + 1..L + m : /\ drawn'[i].arm = a /\ drawn'[i].source = next
                                  /\ drawn'[i].statement = s[i - L].statement
                                  /\ s[i - L].statement \in chosen
       /\ \A i : i \in DOMAIN drawn' <=> i \in DOMAIN drawn \/ i \in L + 1..L + m
  <2>1. /\ \A i \in 1..L : i \notin L + 1..L + m
        /\ \A i : i \in 1..L + m <=> i \in 1..L \/ i \in L + 1..L + m
    BY <1>15
  <2> QED
    BY <1>14, <1>15, <2>1
<1> DEFINE added == L + 1..L + m
           addedOf(case) == Places(s, L, m, OfCase(chosen, case))
<1>19. /\ \A arm : arm # a => OfArm(arm)' = OfArm(arm)
       /\ OfArm(a)' = OfArm(a) \union added
       /\ \A arm : OfArm(arm) \intersect added = {}
  <2>1. \A i \in DOMAIN drawn : drawn'[i] = drawn[i] /\ i \notin added
    BY <1>15, <1>18
  <2>2. \A i \in added : drawn'[i].arm = a
    BY <1>18
  <2>3. \A i : i \in DOMAIN drawn' <=> i \in DOMAIN drawn \/ i \in added
    BY <1>18
  <2> HIDE DEF added
  <2> QED
    <3>1. \A arm : OfArm(arm) \intersect added = {}
      BY <2>1 DEF OfArm
    <3>2. ASSUME NEW arm, arm # a
          PROVE  OfArm(arm)' = OfArm(arm)
      <4>1. \A i : i \in OfArm(arm)' <=> i \in DOMAIN drawn' /\ drawn'[i].arm = arm
        BY DEF OfArm
      <4>2. \A i : i \in OfArm(arm) <=> i \in DOMAIN drawn /\ drawn[i].arm = arm
        BY DEF OfArm
      <4>3. \A i : i \in OfArm(arm)' <=> i \in OfArm(arm)
        BY <2>1, <2>2, <2>3, <3>2, <4>1, <4>2
      <4> QED
        BY <4>3
    <3>3. OfArm(a)' = OfArm(a) \union added
      BY <2>1, <2>2, <2>3 DEF OfArm
    <3> QED
      BY <3>1, <3>2, <3>3
<1>20. /\ \A arm, case : arm # a => TakenOf(arm, case)' = TakenOf(arm, case)
       /\ \A case : TakenOf(a, case)' = TakenOf(a, case) \union addedOf(case)
       /\ \A arm, case : TakenOf(arm, case) \intersect addedOf(case) = {}
  <2>1. \A arm : \A i \in OfArm(arm) : drawn'[i] = drawn[i]
    BY <1>15 DEF OfArm
  <2>2. \A i \in added : drawn'[i].statement = s[i - L].statement /\ s[i - L].statement \in chosen
    BY <1>18
  <2>3. \A case : \A i \in added : i \in addedOf(case) <=> drawn'[i].statement.case = case
    BY <2>2 DEF OfCase, Places
  <2>4. \A case : addedOf(case) \subseteq added
    BY DEF Places
  <2> HIDE DEF added, addedOf
  <2>5. \A arm, case : arm # a => TakenOf(arm, case)' = TakenOf(arm, case)
    BY <1>19, <2>1 DEF TakenOf
  <2>6. \A case : TakenOf(a, case)' = TakenOf(a, case) \union addedOf(case)
    BY <1>19, <2>1, <2>3, <2>4 DEF TakenOf
  <2> QED
    BY <1>19, <2>4, <2>5, <2>6 DEF TakenOf
<1>21. /\ IsFiniteSet(added) /\ Cardinality(added) = Cardinality(chosen)
       /\ \A case : /\ IsFiniteSet(addedOf(case))
                    /\ Cardinality(addedOf(case)) = Cardinality(OfCase(chosen, case))
  <2>1. \A case : OfCase(chosen, case) \in SUBSET chosen
    BY DEF OfCase
  <2>2. Places(s, L, m, chosen) = added
    BY <1>18 DEF Places
  <2> QED
    BY <1>16, <2>1, <2>2
<1> HIDE DEF added, addedOf
<1>22. /\ Cardinality(OfArm(a)') = Cardinality(OfArm(a)) + Cardinality(chosen)
       /\ \A case : Cardinality(TakenOf(a, case)')
                      = Cardinality(TakenOf(a, case)) + Cardinality(OfCase(chosen, case))
  <2>1. IsFiniteSet(OfArm(a)) /\ \A case : IsFiniteSet(TakenOf(a, case))
    BY <1>3, PlacesFinite
  <2>2. Cardinality(OfArm(a) \union added)
          = Cardinality(OfArm(a)) + Cardinality(added)
    BY <1>19, <1>21, <2>1, DisjointCount
  <2>3. \A case : Cardinality(TakenOf(a, case) \union addedOf(case))
                    = Cardinality(TakenOf(a, case)) + Cardinality(addedOf(case))
    BY <1>20, <1>21, <2>1, DisjointCount
  <2> QED
    BY <1>19, <1>20, <1>21, <2>2, <2>3
<1>23. /\ \A arm : arm # a => Held(arm)' = Held(arm)
       /\ Held(a)' = Held(a) \union ({next} \X S)
       /\ \A arm : Held(arm) \intersect ({next} \X S) = {}
       /\ \A arm : Held(arm) \subseteq Held(arm)'
  <2>1. /\ \A arm : arm # a => Earlier(arm)' = Earlier(arm)
        /\ Earlier(a)' = Earlier(a) \union {next}
        /\ \A arm : next \notin Earlier(arm)
    <3>1. next' = next + 1 /\ files' = files /\ \A k \in DOMAIN files : k \in Nat
      BY <1>2, <1>4
    <3> QED
      <4>1. \A arm, k : k \in Earlier(arm) <=> k \in DOMAIN files /\ files[k].arm = arm /\ k < next
        BY DEF Earlier
      <4>2. \A arm, k : k \in Earlier(arm)' <=> k \in DOMAIN files /\ files[k].arm = arm /\ k < next + 1
        BY <3>1 DEF Earlier
      <4>3. \A k \in DOMAIN files : k < next + 1 <=> k < next \/ k = next
        BY <1>3, <3>1
      <4>4. \A arm : next \notin Earlier(arm)
        BY <1>3, <4>1
      <4>5. ASSUME NEW arm, arm # a
            PROVE  \A k : k \in Earlier(arm)' <=> k \in Earlier(arm)
        BY <1>1, <4>1, <4>2, <4>3, <4>5
      <4>6. \A k : k \in Earlier(a)' <=> k \in Earlier(a) \/ k = next
        BY <1>1, <1>3, <1>4, <4>1, <4>2, <4>3
      <4> QED
        BY <4>4, <4>5, <4>6
  <2> QED
    BY <1>2, <2>1 DEF Held
<1>24. /\ \A arm, case : arm # a => HeldOf(arm, case)' = HeldOf(arm, case)
       /\ \A case : HeldOf(a, case)' = HeldOf(a, case) \union ({next} \X OfCase(S, case))
       /\ \A arm, case : HeldOf(arm, case) \intersect ({next} \X OfCase(S, case)) = {}
  BY <1>23 DEF HeldOf, OfCase
<1>25. \A case : /\ IsFiniteSet(OfCase(S, case)) /\ Cardinality(OfCase(S, case)) \in Nat
  BY <1>7, FS_Subset, FS_CardinalityType DEF OfCase
<1>26. IsFiniteSet(Held(a)) /\ \A case : IsFiniteSet(HeldOf(a, case))
  <2>1. IsFiniteSet(Held(a))
    BY <1>6 DEF Drawing, Within
  <2>2. \A case : HeldOf(a, case) \in SUBSET Held(a)
    BY DEF HeldOf
  <2> QED
    BY <2>1, <2>2, FS_Subset
<1>27. /\ IsFiniteSet(Held(a)')
       /\ \A case : /\ Cardinality(HeldOf(a, case)) \in Nat
                    /\ Cardinality(HeldOf(a, case)')
                         = Cardinality(HeldOf(a, case)) + Cardinality(OfCase(S, case))
  <2>1. IsFiniteSet({next} \X S)
    BY <1>7, AsManyPairs
  <2>2. \A case : /\ IsFiniteSet({next} \X OfCase(S, case))
                  /\ Cardinality({next} \X OfCase(S, case)) = Cardinality(OfCase(S, case))
    BY <1>25, AsManyPairs
  <2> QED
    <3>1. IsFiniteSet(Held(a) \union ({next} \X S))
      BY <1>23, <1>26, <2>1, DisjointCount
    <3>2. \A case : /\ Cardinality(HeldOf(a, case)) \in Nat
                    /\ Cardinality(HeldOf(a, case) \union ({next} \X OfCase(S, case)))
                         = Cardinality(HeldOf(a, case)) + Cardinality(OfCase(S, case))
      <4> TAKE case
      <4> DEFINE held == HeldOf(a, case)
                 more == {next} \X OfCase(S, case)
      <4>1. IsFiniteSet(held) /\ IsFiniteSet(more) /\ held \intersect more = {}
        BY <1>24, <1>26, <2>2
      <4>2. Cardinality(more) = Cardinality(OfCase(S, case))
        BY <2>2
      <4> HIDE DEF held, more
      <4>3. /\ Cardinality(held) \in Nat
            /\ Cardinality(held \union more) = Cardinality(held) + Cardinality(more)
        BY <4>1, DisjointCount
      <4> QED
        BY <4>2, <4>3 DEF held, more
    <3> QED
      BY <1>23, <1>24, <3>1, <3>2
<1>28. \A case : Cardinality(TakenOf(a, case)) = Taken(a, case)
                   /\ Taken(a, case) \in Nat
  BY <1>3, PlacesFinite
<1>29. Within(a)'
  <2>1. \A case : Cardinality(TakenOf(a, case)) <= PerCase
    BY <1>6 DEF Drawing, Within
  <2>2. \A case : Cardinality(TakenOf(a, case)') <= PerCase
    <3> TAKE case
    <3>1. Cardinality(OfCase(chosen, case)) <= Room(a, S, case)
      BY <1>9
    <3>2. Cardinality(OfCase(chosen, case)) \in Nat
      BY <1>9, FS_Subset, FS_CardinalityType DEF OfCase
    <3> QED
      BY <1>22, <1>25, <1>28, <2>1, <3>1, <3>2, ReviewAssumption DEF Room, Smaller
  <2>3. Cardinality(OfArm(a)') <= PerArm
    BY <1>9, <1>22
  <2> QED
    BY <1>27, <2>2, <2>3 DEF Within
<1>30. Filled(a)'
  <2>1. CASE Cardinality(OfArm(a)) + Cardinality(chosen) = PerArm
    BY <1>22, <2>1 DEF Filled
  <2>2. CASE Cardinality(OfArm(a)) + Cardinality(chosen) # PerArm
    <3>1. \A case : Cardinality(OfCase(chosen, case)) = Room(a, S, case)
      BY <1>9, <2>2
    <3>2. CASE Cardinality(OfArm(a)) = PerArm
      <4>1. Cardinality(chosen) = 0
        BY <1>3, <1>9, <3>2, PlacesFinite, FS_CardinalityType, ReviewAssumption
      <4> QED
        BY <2>2, <3>2, <4>1, ReviewAssumption
    <3>3. CASE \A case : Cardinality(TakenOf(a, case))
                           = Smaller(PerCase, Cardinality(HeldOf(a, case)))
      <4>1. \A case : Cardinality(TakenOf(a, case)')
                        = Smaller(PerCase, Cardinality(HeldOf(a, case)'))
        <5> TAKE case
        <5> DEFINE taken == Cardinality(TakenOf(a, case))
                   had   == Cardinality(HeldOf(a, case))
                   more  == Cardinality(OfCase(S, case))
        <5>1. /\ PerCase \in Nat /\ had \in Nat /\ more \in Nat /\ taken \in Nat
              /\ taken = Smaller(PerCase, had)
          BY <1>25, <1>27, <1>28, <3>3, ReviewAssumption
        <5>2. /\ Cardinality(TakenOf(a, case)') = taken + Cardinality(OfCase(chosen, case))
              /\ Cardinality(HeldOf(a, case)') = had + more
          BY <1>22, <1>27
        <5>3. Cardinality(OfCase(chosen, case))
                = Smaller(IF PerCase > taken THEN PerCase - taken ELSE 0, more)
          BY <1>28, <3>1 DEF Room
        <5> HIDE DEF taken, had, more
        <5>4. taken + Smaller(IF PerCase > taken THEN PerCase - taken ELSE 0, more)
                = Smaller(PerCase, had + more)
          BY <5>1, RoomFillsUp
        <5> QED
          BY <5>2, <5>3, <5>4, Zenon
      <4> QED
        BY <4>1 DEF Filled
    <3> QED
      BY <1>6, <3>2, <3>3 DEF Drawing, Filled
  <2> QED
    BY <2>1, <2>2
<1>31. ASSUME NEW arm \in Arms', arm # a
       PROVE  Within(arm)' /\ Filled(arm)'
  <2>1. arm \in Arms
    BY <1>2, <1>31 DEF Arms
  <2> QED
    BY <1>19, <1>20, <1>23, <1>24, <1>31, <2>1 DEF Drawing, Within, Filled
<1>32. \A i, j \in DOMAIN drawn' : drawn'[i] = drawn'[j] => i = j
  <2>1. \A i, j \in DOMAIN drawn : drawn'[i] = drawn'[j] => i = j
    BY <1>15 DEF Drawing
  <2>2. \A i, j \in L + 1..L + m : drawn'[i] = drawn'[j] => i = j
    <3> SUFFICES ASSUME NEW i \in L + 1..L + m, NEW j \in L + 1..L + m, drawn'[i] = drawn'[j]
                 PROVE  i = j
      OBVIOUS
    <3>1. i - L \in 1..m /\ j - L \in 1..m /\ s[i - L].statement = s[j - L].statement
      BY <1>15, <1>18
    <3>2. i - L = j - L
      BY <1>14, <3>1, Zenon
    <3> QED
      BY <1>15, <3>2
  <2>3. \A i \in DOMAIN drawn, j \in L + 1..L + m : drawn'[i] # drawn'[j]
    <3> SUFFICES ASSUME NEW i \in DOMAIN drawn, NEW j \in L + 1..L + m
                 PROVE  drawn'[i].source # drawn'[j].source
      BY Zenon
    <3>1. drawn'[j].source = next
      BY <1>18
    <3>2. drawn[i].source \in Earlier(drawn[i].arm)
      <4>1. <<drawn[i].source, drawn[i].statement>> \in Held(drawn[i].arm)
        BY DEF Drawing, OfArm
      <4> QED
        BY <4>1 DEF Held
    <3>3. drawn'[i] = drawn[i]
      BY <1>15
    <3> QED
      BY <1>3, <1>4, <3>1, <3>2, <3>3 DEF Earlier
  <2> QED
    BY <1>18, <2>1, <2>2, <2>3
<1>33. \A arm : \A i \in OfArm(arm)' :
         <<drawn'[i].source, drawn'[i].statement>> \in Held(arm)'
  <2>1. ASSUME NEW arm, NEW i \in OfArm(arm)
        PROVE  <<drawn'[i].source, drawn'[i].statement>> \in Held(arm)'
    <3>1. drawn'[i] = drawn[i]
      BY <1>15 DEF OfArm
    <3> QED
      BY <1>23, <3>1 DEF Drawing
  <2>2. ASSUME NEW i \in added
        PROVE  <<drawn'[i].source, drawn'[i].statement>> \in Held(a)'
    BY <1>9, <1>18, <1>23 DEF added
  <2> QED
    BY <1>19, <2>1, <2>2
<1> QED
  BY <1>2, <1>17, <1>29, <1>30, <1>31, <1>32, <1>33 DEF Drawing

LEMMA OthersLeaveSample ==
  ASSUME ReviewInv, Drawing, Dump \/ Fill \/ Edit \/ Score \/ UNCHANGED reviewVars, ReviewTyped'
  PROVE  Drawing'
<1>1. files' = files /\ drawn' = drawn /\ next' = next
  BY DEF Dump, Fill, Edit, Score, reviewVars
<1>2. /\ Arms' = Arms
      /\ \A arm : OfArm(arm)' = OfArm(arm) /\ Held(arm)' = Held(arm)
  BY <1>1 DEF Arms, OfArm, Held, Earlier
<1>3. \A arm : (Within(arm) => Within(arm)') /\ (Filled(arm) => Filled(arm)')
  BY <1>1, <1>2 DEF Within, Filled, TakenOf, HeldOf
<1>4. rpc' # "draw" => next' > Len(files')
  BY <1>1 DEF Drawing, Dump, Fill, Edit, Score, reviewVars
<1> QED
  BY <1>1, <1>2, <1>3, <1>4 DEF Drawing

LEMMA DrawnSampleIsFair == ASSUME Drawing PROVE FairSample
<1> SUFFICES ASSUME rpc # "draw", NEW arm \in Arms
             PROVE  LET all == UNION {{i} \X files[i].statements :
                                        i \in {k \in DOMAIN files : files[k].arm = arm}}
                        of(case) == {x \in all : x[2].case = case}
                        cases == {x[2].case : x \in all}
                        taken(case) == {i \in OfArm(arm) : drawn[i].statement.case = case}
                    IN /\ \A case \in cases : Cardinality(taken(case)) <= PerCase
                       /\ \A i \in OfArm(arm) : <<drawn[i].source, drawn[i].statement>> \in all
                       /\ \/ Cardinality(OfArm(arm)) = PerArm
                          \/ \A case \in cases :
                               Cardinality(taken(case)) = Smaller(PerCase, Cardinality(of(case)))
  BY DEF Drawing, FairSample
<1> DEFINE all == UNION {{i} \X files[i].statements :
                           i \in {k \in DOMAIN files : files[k].arm = arm}}
<1>1. Held(arm) = all
  <2>1. \A k \in DOMAIN files : k < next
    BY ReviewAssumption DEF Drawing, ReviewTyped
  <2>2. Earlier(arm) = {k \in DOMAIN files : files[k].arm = arm}
    BY <2>1 DEF Earlier
  <2> QED
    BY <2>2 DEF Held
<1>2. Within(arm) /\ Filled(arm)
  BY DEF Drawing
<1>3. \A i \in OfArm(arm) : <<drawn[i].source, drawn[i].statement>> \in Held(arm)
  BY DEF Drawing
<1> HIDE DEF all
<1>4. \A case : {x \in all : x[2].case = case} = HeldOf(arm, case)
  BY <1>1 DEF HeldOf
<1>5. \A case : {i \in OfArm(arm) : drawn[i].statement.case = case} = TakenOf(arm, case)
  BY DEF TakenOf
<1>6. /\ \A case : Cardinality({i \in OfArm(arm) : drawn[i].statement.case = case}) <= PerCase
      /\ \A i \in OfArm(arm) : <<drawn[i].source, drawn[i].statement>> \in all
      /\ \/ Cardinality(OfArm(arm)) = PerArm
         \/ \A case : Cardinality({i \in OfArm(arm) : drawn[i].statement.case = case})
                        = Smaller(PerCase, Cardinality({x \in all : x[2].case = case}))
  BY <1>1, <1>2, <1>3, <1>4, <1>5, Zenon DEF Within, Filled
<1> QED
  BY <1>6, Zenon DEF all

(* For all result files and sample sizes: no statement is drawn twice, no  *)
(* case of an arm is drawn from more than PerCase times over all its       *)
(* files, and the sample is as large as that and PerArm allow.             *)
THEOREM SamplesAreFair == ReviewSpec => []FairSample
<1>1. ReviewInit => ReviewInv /\ Drawing
  BY ReviewStarts, NothingDrawn
<1>2. ReviewInv /\ Drawing /\ [ReviewNext]_reviewVars => (ReviewInv /\ Drawing)'
  <2> SUFFICES ASSUME ReviewInv, Drawing, [ReviewNext]_reviewVars PROVE ReviewInv' /\ Drawing'
    OBVIOUS
  <2>1. ReviewInv'
    BY ReviewKeeps
  <2>2. CASE Draw
    BY <2>1, <2>2, DrawIsFair
  <2>3. CASE ~Draw
    BY <2>1, <2>3, OthersLeaveSample DEF ReviewNext, ReviewInv
  <2> QED
    BY <2>1, <2>2, <2>3
<1>3. Drawing => FairSample
  BY DrawnSampleIsFair
<1> QED
  BY <1>1, <1>2, <1>3, PTL DEF ReviewSpec

-----------------------------------------------------------------------------
(* The calls of RemoteCall.                                                *)
CallTyped ==
  /\ client \in Clients
  /\ pc \in {"ready", "send", "flight"}
  /\ calls \in Nat /\ attempt \in Nat /\ sent \in Nat
  /\ timeouts \in Nat /\ waits \in Nat
  /\ log \in [count : Nat, attempts : Nat, ok : BOOLEAN, tokens : BOOLEAN]
  /\ paid \in BOOLEAN

(* The attempts counted are the requests sent; between two requests there  *)
(* is at most one sleep; a running call has read no answer, and on the     *)
(* request path has met no read timeout.                                   *)
Running ==
  /\ attempt = sent
  /\ pc # "ready" => /\ calls > 0 /\ ~paid
                     /\ client # "hub" => timeouts = 0
  /\ pc = "send" => waits <= sent
  /\ pc = "flight" => waits < sent

IInv == CallTyped /\ Running /\ OneTimeoutAtMost /\ NoIdleBeforeFailure /\ RecordsMatchWire

LEMMA InitIInv == Init => IInv
<1> SUFFICES ASSUME Init PROVE IInv
  OBVIOUS
<1>1. CallTyped
  BY DEF Init, CallTyped, NoRecord
<1>2. Running
  BY DEF Init, Running
<1>3. OneTimeoutAtMost /\ NoIdleBeforeFailure
  BY DEF Init, OneTimeoutAtMost, NoIdleBeforeFailure
<1>4. RecordsMatchWire
  BY DEF Init, RecordsMatchWire, NoRecord
<1> QED BY <1>1, <1>2, <1>3, <1>4 DEF IInv

(* What the end of a call does to the record and to the locals.            *)
Ended(ending) ==
  /\ pc' = "ready" /\ result' = ending
  /\ UNCHANGED <<client, calls, attempt, sent>>
  /\ paid' \in BOOLEAN
  /\ client # "llm" => log' = log
  /\ client = "llm" => log' = [count |-> log.count + 1, attempts |-> attempt,
                              ok |-> (ending = "answer"), tokens |-> paid']

LEMMA EndedUnpaid == ASSUME NEW ending, End(ending, FALSE), ~paid', paid' \in BOOLEAN
                     PROVE  Ended(ending)
<1>1. paid' = FALSE
  OBVIOUS
<1> QED BY <1>1 DEF End, Ended, Recorded

LEMMA EndedPaid == ASSUME NEW ending, NEW tokens \in BOOLEAN, End(ending, tokens),
                          paid' = tokens
                   PROVE  Ended(ending)
  BY DEF End, Ended, Recorded

LEMMA RecordType ==
  ASSUME NEW n \in Nat, NEW a \in Nat, NEW o \in BOOLEAN, NEW t \in BOOLEAN
  PROVE  [count |-> n, attempts |-> a, ok |-> o, tokens |-> t]
           \in [count : Nat, attempts : Nat, ok : BOOLEAN, tokens : BOOLEAN]
  OBVIOUS

LEMMA EndStep ==
  ASSUME IInv, pc = "flight", NEW ending \in Results, Ended(ending),
         timeouts' \in Nat,
         client # "hub" => timeouts' <= 1 /\ (timeouts' = 1 => ending = "error"),
         waits' \in Nat, ending # "answer" => waits' < sent
  PROVE  IInv'
<1>1. CallTyped'
  <2>1. log' \in [count : Nat, attempts : Nat, ok : BOOLEAN, tokens : BOOLEAN]
    <3>1. CASE client # "llm"
      BY <3>1 DEF IInv, CallTyped, Ended
    <3>2. CASE client = "llm"
      <4>1. log.count + 1 \in Nat /\ attempt \in Nat
        BY DEF IInv, CallTyped
      <4>2. (ending = "answer") \in BOOLEAN /\ paid' \in BOOLEAN
        BY DEF Ended
      <4>3. log' = [count |-> log.count + 1, attempts |-> attempt,
                    ok |-> (ending = "answer"), tokens |-> paid']
        BY <3>2 DEF Ended
      <4> QED BY <4>1, <4>2, <4>3, RecordType
    <3> QED BY <3>1, <3>2
  <2> QED BY <2>1 DEF IInv, CallTyped, Ended
<1>2. Running'
  BY DEF IInv, Running, Ended
<1>3. OneTimeoutAtMost'
  BY DEF Ended, OneTimeoutAtMost
<1>4. NoIdleBeforeFailure'
  BY DEF Ended, NoIdleBeforeFailure
<1>5. RecordsMatchWire'
  BY DEF IInv, CallTyped, Running, Ended, RecordsMatchWire
<1> QED BY <1>1, <1>2, <1>3, <1>4, <1>5 DEF IInv

(* A failure: it ends the call or leads to the next attempt.               *)
LEMMA FailsStep == ASSUME IInv, Fails PROVE IInv'
<1> USE DEF Fails
<1>1. PICK kind \in Failures :
        /\ timeouts' = timeouts + IF kind = "timeout" THEN 1 ELSE 0
        /\ \/ Refuse(kind)
           \/ \E seconds \in RetryWait(kind) : Retry(kind, seconds) \/ GiveUp(kind, seconds)
  OBVIOUS
<1>2. /\ pc = "flight" /\ paid' = paid /\ ~paid' /\ paid' \in BOOLEAN /\ timeouts' \in Nat
      /\ waits \in Nat /\ waits < sent
      /\ client # "hub" => timeouts' <= 1
  BY <1>1 DEF IInv, CallTyped, Running
<1>3. CASE Refuse(kind)
  <2>1. Ended("error") /\ waits' = waits
    BY <1>2, <1>3, EndedUnpaid DEF Refuse
  <2> QED BY <1>2, <2>1, EndStep DEF Results
<1>4. ASSUME NEW seconds \in RetryWait(kind), GiveUp(kind, seconds) PROVE IInv'
  <2>1. Ended("error") /\ waits' = waits
    BY <1>2, <1>4, EndedUnpaid DEF GiveUp
  <2> QED BY <1>2, <2>1, EndStep DEF Results
<1>5. ASSUME NEW seconds \in RetryWait(kind), Retry(kind, seconds) PROVE IInv'
  <2>1. /\ waits' \in Nat /\ waits' <= sent
        /\ UNCHANGED <<client, calls, attempt, result, log, sent, paid>>
        /\ pc' = "send"
    BY <1>2, <1>5 DEF Retry, Pause, IInv, CallTyped
  <2>2. client # "hub" => timeouts' = 0
    BY <1>1, <1>2, <1>5 DEF Retry, Retryable, IInv, CallTyped, Running
  <2> QED BY <1>2, <2>1, <2>2 DEF IInv, CallTyped, Running, OneTimeoutAtMost,
             NoIdleBeforeFailure, RecordsMatchWire
<1> QED BY <1>1, <1>3, <1>4, <1>5

LEMMA NextIInv == IInv /\ [Next]_vars => IInv'
<1> SUFFICES ASSUME IInv, [Next]_vars PROVE IInv'
  OBVIOUS
<1>1. CASE Call
  <2>0. /\ calls' = calls + 1 /\ attempt' = 0 /\ sent' = 0 /\ timeouts' = 0 /\ waits' = 0
        /\ pc' = "send" /\ paid' = FALSE /\ UNCHANGED <<client, log>>
    BY <1>1 DEF Call
  <2>a. calls' \in Nat /\ attempt' \in Nat /\ sent' \in Nat /\ timeouts' \in Nat /\ waits' \in Nat
    BY <2>0 DEF IInv, CallTyped
  <2>b. log' \in [count : Nat, attempts : Nat, ok : BOOLEAN, tokens : BOOLEAN]
    BY <2>0 DEF IInv, CallTyped
  <2>c. client' \in Clients /\ pc' \in {"ready", "send", "flight"}
    BY <2>0 DEF IInv, CallTyped
  <2>d. paid' \in BOOLEAN
    BY <2>0
  <2>1. CallTyped'
    BY <2>a, <2>b, <2>c, <2>d DEF CallTyped
  <2>2. Running'
    BY <1>1 DEF Call, IInv, CallTyped, Running
  <2>3. OneTimeoutAtMost' /\ NoIdleBeforeFailure'
    BY <1>1 DEF Call, OneTimeoutAtMost, NoIdleBeforeFailure
  <2>4. RecordsMatchWire'
    BY <1>1 DEF Call, IInv, CallTyped, RecordsMatchWire
  <2> QED BY <2>1, <2>2, <2>3, <2>4 DEF IInv
<1>2. CASE Send
  BY <1>2 DEF Send, IInv, CallTyped, Running, OneTimeoutAtMost, NoIdleBeforeFailure,
              RecordsMatchWire
<1>3. CASE Fails
  BY <1>3, FailsStep
<1>4. ASSUME pc = "flight"
      PROVE  /\ waits \in Nat /\ waits < sent /\ timeouts \in Nat
             /\ client # "hub" => timeouts = 0
             /\ ~paid /\ paid \in BOOLEAN
  BY <1>4 DEF IInv, CallTyped, Running
<1>5. CASE OffsetLimit
  <2>1. pc = "flight" /\ UNCHANGED <<timeouts, waits, paid>>
    BY <1>5 DEF OffsetLimit
  <2>2. Ended("offset")
    <3>1. End("offset", FALSE)
      BY <1>5 DEF OffsetLimit
    <3>2. ~paid' /\ paid' \in BOOLEAN
      BY <1>4, <2>1
    <3> QED BY <3>1, <3>2, EndedUnpaid
  <2> QED BY <1>4, <2>1, <2>2, EndStep DEF Results
<1>6. CASE NullEmbedding
  <2>1. pc = "flight" /\ UNCHANGED <<timeouts, waits, paid>>
    BY <1>6 DEF NullEmbedding
  <2>2. Ended("TypeError")
    <3>1. End("TypeError", FALSE)
      BY <1>6 DEF NullEmbedding
    <3>2. ~paid' /\ paid' \in BOOLEAN
      BY <1>4, <2>1
    <3> QED BY <3>1, <3>2, EndedUnpaid
  <2> QED BY <1>4, <2>1, <2>2, EndStep DEF Results
<1>7. CASE Posted
  <2>1. PICK tokens \in BOOLEAN :
          paid' = tokens /\ (End("error", tokens) \/ End("answer", tokens))
    BY <1>7 DEF Posted, BrokenAnswer
  <2>2. pc = "flight" /\ UNCHANGED <<timeouts, waits>>
    BY <1>7 DEF Posted
  <2>3. Ended("error") \/ Ended("answer")
    BY <2>1, EndedPaid
  <2> QED BY <1>4, <2>2, <2>3, EndStep DEF Results
<1>8. CASE Got
  <2>1. pc = "flight" /\ client = "hub" /\ UNCHANGED <<timeouts, paid>>
    BY <1>8 DEF Got
  <2>2. CASE End("answer", FALSE) /\ waits' \in Nat
    <3>1. Ended("answer")
      BY <1>4, <2>1, <2>2, EndedUnpaid
    <3> QED BY <1>4, <2>1, <2>2, <3>1, EndStep DEF Results
  <2>3. CASE End("error", FALSE) /\ waits' = waits
    <3>1. Ended("error")
      BY <1>4, <2>1, <2>3, EndedUnpaid
    <3> QED BY <1>4, <2>1, <2>3, <3>1, EndStep DEF Results
  <2>4. waits' = waits => waits' \in Nat
    BY <1>4, <2>1
  <2>5. ASSUME NEW reset \in Announced, Pause(reset) PROVE waits' \in Nat
    BY <1>4, <2>1, <2>5 DEF Pause
  <2> QED BY <1>8, <2>2, <2>3, <2>4, <2>5 DEF Got
<1>9. CASE UNCHANGED vars
  BY <1>9 DEF vars, IInv, CallTyped, Running, OneTimeoutAtMost, NoIdleBeforeFailure,
              RecordsMatchWire
<1> QED BY <1>1, <1>2, <1>3, <1>5, <1>6, <1>7, <1>8, <1>9 DEF Next

(* The inductive invariant holds in every behaviour.                       *)
THEOREM Inductive == Spec => []IInv
  BY InitIInv, NextIInv, PTL DEF Spec

(* No call of post_json is continued after a read timeout.                 *)
THEOREM TimeoutEndsTheCall == Spec => []OneTimeoutAtMost
<1>1. IInv => OneTimeoutAtMost
  BY DEF IInv
<1> QED BY <1>1, Inductive, PTL

(* A call that fails does so right after its last request, in both loops.  *)
THEOREM FailsAtOnce == Spec => []NoIdleBeforeFailure
<1>1. IInv => NoIdleBeforeFailure
  BY DEF IInv
<1> QED BY <1>1, Inductive, PTL

(* The records of SchemaLLMProvider agree with what the wire saw.          *)
THEOREM RecordsAreTrue == Spec => []RecordsMatchWire
<1>1. IInv => RecordsMatchWire
  BY DEF IInv
<1> QED BY <1>1, Inductive, PTL
=============================================================================
