-------------------------- MODULE EvaluationProofs ---------------------------
(***************************************************************************)
(* Proofs about Evaluation, for every golden set, every answer the         *)
(* recommendation path may give and every change of the file and of the    *)
(* database meanwhile.                                                     *)
(***************************************************************************)
EXTENDS Evaluation, ListProofs

Standing ==
  /\ goldenFile \in GoldenSets
  /\ indexed \subseteq Collected
  /\ epc \in {"idle", "plans", "case", "ask", "exists", "score"}
  /\ run = [mode |-> run.mode, golden |-> run.golden, checked |-> run.checked,
            todo |-> run.todo, skipped |-> run.skipped, plans |-> run.plans,
            source |-> run.source, found |-> run.found, real |-> run.real]
  /\ scores \in Seq(ToSet(scores))
  /\ docs \in Seq(ToSet(docs))
  /\ epc # "idle" =>
       /\ run.golden \in GoldenSets /\ run.todo \subseteq DOMAIN run.golden
       /\ \A i \in run.todo : run.golden[i].repos \subseteq Collected
  /\ epc = "plans" => scores = <<>>
  /\ epc \in {"ask", "exists", "score"} => run.todo # {} /\ run.mode # "plan-only"

-----------------------------------------------------------------------------
(* What the recommendation path returned belongs to the case.              *)
IsOffered(response) ==
  /\ response = [plan |-> response.plan, candidates |-> response.candidates,
                 image |-> response.image, citations |-> response.citations,
                 heard |-> response.heard]
  /\ response.candidates \in Seq(ToSet(response.candidates))
  /\ \A c \in ToSet(response.candidates) : c.image \in Stock
  /\ response.image # Null => response.image \in Images(response.candidates)

Answering ==
  epc \in {"exists", "score"} =>
    /\ IsOffered(answer)
    /\ IF answer.heard THEN answer.plan \in PlansOf(Case) ELSE answer.plan = Null

(* The scores of one case as they bound each other.                        *)
IsSound(s) ==
  /\ s.full.accurate => s.retrieval.hit
  /\ s.retrieval.topAccepted => s.retrieval.hit
  /\ s.retrieval.accepted # {} => s.retrieval.hit
  /\ s.retrieval.count \in Nat
  /\ IsFiniteSet(s.retrieval.accepted)
  /\ Cardinality(s.retrieval.accepted) <= s.retrieval.count
  /\ s.full.needs \in BOOLEAN

Scoring ==
  run.mode \notin {"retrieval-only", "plan-only"} => \A i \in DOMAIN scores : IsSound(scores[i])

-----------------------------------------------------------------------------
(* A plan that a run on fixed plans takes as it is.                        *)
IsNormal(plan) == FixedPlan(plan) = {plan}

Planning ==
  /\ epc # "idle" /\ run.mode = "fixed-plans" => run.source \in DOMAIN docs
  /\ epc \notin {"idle", "plans"} =>
       /\ HasFixedPlans(run.mode) =>
            /\ \A i \in run.todo : run.golden[i].id \in DOMAIN run.plans
            /\ \A id \in DOMAIN run.plans : IsNormal(run.plans[id])
       /\ run.mode = "fixed-plans" =>
            /\ docs[run.source].hash = run.checked
            /\ \A id \in DOMAIN run.plans : run.plans[id] = docs[run.source].plans[id]
       /\ IsLabelled(run.mode) =>
            \A c \in ToSet(run.golden) :
              c.id \in DOMAIN run.plans => run.plans[c.id] = LabelPlan(c)

Keeping ==
  \A s \in ToSet(scores) :
    /\ HasFixedPlans(run.mode) =>
         s.id \in DOMAIN run.plans /\ (s.heard => s.plan = run.plans[s.id])
    /\ run.mode = "full" => IsNormal(s.plan)

Filing ==
  \A i \in DOMAIN docs :
    /\ docs[i].mode = "full" => \A id \in DOMAIN docs[i].plans : IsNormal(docs[i].plans[id])
    /\ docs[i].mode = "fixed-plans" => docs[i].source \in DOMAIN docs

EvalInv ==
  Standing /\ Answering /\ Scoring /\ Planning /\ Keeping /\ Filing /\ FixedRunsRepeat

USE EvaluationAssumption

-----------------------------------------------------------------------------
(* The scores of the candidates bound each other.                          *)
BoundsItself(r) ==
  /\ r.topAccepted => r.hit
  /\ r.accepted # {} => r.hit
  /\ r.accepted \intersect r.rejected = {}
  /\ r.count \in Nat
  /\ IsFiniteSet(r.accepted)
  /\ Cardinality(r.accepted) <= r.count

LEMMA RetrievalBounds ==
  ASSUME NEW case, NEW candidates, candidates \in Seq(ToSet(candidates)), NEW found, NEW digests,
         NEW s, s = ScoreRetrieval(case, candidates, found, digests)
  PROVE  s.hit = CandidateHit(case, candidates, digests) /\ BoundsItself(s)
<1> DEFINE n == Len(candidates)
           good == {i \in 1..n : IsAccepted(case, candidates[i], digests)}
           accepted == {c.image : c \in {d \in ToSet(candidates) : IsAccepted(case, d, digests)}}
           f == [i \in good |-> candidates[i].image]
<1>1. n \in Nat /\ DOMAIN candidates = 1..n
  OBVIOUS
<1>2. ToSet(candidates) = {candidates[i] : i \in 1..n}
  BY <1>1, Zenon DEF ToSet
<1>3. /\ s.hit = CandidateHit(case, candidates, digests) /\ s.count = n /\ s.accepted = accepted
      /\ s.rejected = Images(candidates) \intersect case.reject
      /\ s.topAccepted = (candidates # <<>> /\ IsAccepted(case, candidates[1], digests))
  BY Zenon DEF ScoreRetrieval
<1>4. s.topAccepted => s.hit
  <2>1. SUFFICES ASSUME s.topAccepted PROVE CandidateHit(case, candidates, digests)
    BY <1>3
  <2>2. candidates # <<>>
    BY <1>3, <2>1, Zenon
  <2>3. n # 0
    BY <2>2
  <2>4. 1 \in 1..n
    <3> HIDE DEF n
    <3> QED
      BY <1>1, <2>3
  <2> QED
    BY <1>2, <1>3, <2>1, <2>4, Zenon DEF CandidateHit
<1>5. s.accepted # {} => s.hit
  BY <1>3, Zenon DEF CandidateHit
<1>6. s.accepted \intersect s.rejected = {}
  <2>1. SUFFICES ASSUME NEW image \in accepted, image \in case.reject PROVE FALSE
    BY <1>3
  <2>2. PICK d \in ToSet(candidates) : IsAccepted(case, d, digests) /\ image = d.image
    BY <2>1, Zenon
  <2> QED
    BY <2>1, <2>2, Zenon DEF IsAccepted
<1>7. f \in Surjection(good, accepted)
  <2>1. f \in [good -> accepted]
    BY <1>2, Zenon
  <2>2. \A image \in accepted : \E i \in good : f[i] = image
    BY <1>2, Zenon
  <2> QED
    BY <2>1, <2>2, Zenon DEF Surjection
<1>8. IsFiniteSet(good) /\ Cardinality(good) \in Nat /\ Cardinality(good) <= n
  <2>1. IsFiniteSet(1..n) /\ Cardinality(1..n) = n
    <3> HIDE DEF n
    <3>1. 1 \in Int /\ n \in Int /\ n - 1 + 1 = n /\ (1 > n => n = 0)
      BY <1>1
    <3> QED
      BY <3>1, FS_Interval
  <2>2. good \in SUBSET (1..n)
    OBVIOUS
  <2> HIDE DEF good, n
  <2>3. IsFiniteSet(good) /\ Cardinality(good) <= Cardinality(1..n)
    BY <2>1, <2>2, FS_Subset
  <2> QED
    BY <2>1, <2>3, FS_CardinalityType
<1>9. IsFiniteSet(accepted) /\ Cardinality(accepted) <= n
  <2> HIDE DEF good, n, accepted, f
  <2>1. IsFiniteSet(accepted) /\ Cardinality(accepted) <= Cardinality(good)
    BY <1>7, <1>8, FS_Surjection
  <2>2. Cardinality(accepted) \in Nat
    BY <2>1, FS_CardinalityType
  <2> QED
    BY <1>1, <1>8, <2>1, <2>2
<1> QED
  BY <1>1, <1>3, <1>4, <1>5, <1>6, <1>9, Zenon DEF BoundsItself

(* A right answer is an accepted candidate and not an explicit error.      *)
LEMMA RightAnswer ==
  ASSUME NEW case, case.accept \intersect case.reject = {},
         NEW response, IsOffered(response), NEW real, NEW digests,
         NEW s, s = ScoreFull(case, response, real, digests), s.accurate
  PROVE  CandidateHit(case, response.candidates, digests) /\ ~s.rejectedPick
<1>1. /\ s.accurate = (\/ response.image # Null /\ response.image \in case.accept
                       \/ \E c \in ToSet(response.candidates) :
                            c.image = response.image /\ IsAccepted(case, c, digests))
      /\ s.rejectedPick = (response.image \in case.reject)
  BY Zenon DEF ScoreFull
<1>2. CASE response.image # Null /\ response.image \in case.accept
  <2>1. PICK c \in ToSet(response.candidates) : c.image = response.image
    BY <1>2, Zenon DEF IsOffered, Images
  <2>2. response.image \notin case.reject
    BY <1>2, Zenon
  <2>3. IsAccepted(case, c, digests)
    BY <1>2, <2>1, <2>2, Zenon DEF IsAccepted
  <2> QED
    BY <1>1, <2>1, <2>2, <2>3, Zenon DEF CandidateHit
<1>3. ASSUME NEW c \in ToSet(response.candidates), c.image = response.image,
             IsAccepted(case, c, digests)
      PROVE  CandidateHit(case, response.candidates, digests) /\ ~s.rejectedPick
  BY <1>1, <1>3, Zenon DEF CandidateHit, IsAccepted
<1> QED
  BY <1>1, <1>2, <1>3, Zenon

(* The golden set of a run and its cases.                                  *)
LEMMA GoldenCases ==
  ASSUME NEW golden \in GoldenSets
  PROVE  /\ golden \in Seq(Range(golden)) /\ Len(golden) \in Nat /\ DOMAIN golden = 1..Len(golden)
         /\ \A i \in DOMAIN golden : golden[i] \in ToSet(golden)
         /\ \A c \in ToSet(golden) : \E i \in DOMAIN golden : c = golden[i]
         /\ \A c, d \in ToSet(golden) : c.id = d.id => c = d
         /\ \A c \in ToSet(golden) :
              c.repos # {} /\ c.accept \intersect c.reject = {} /\ c.needs \in BOOLEAN
<1>1. golden \in Seq(Range(golden)) /\ IsGoldenSet(golden)
  BY Zenon
<1>2. /\ \A i \in DOMAIN golden : golden[i] \in ToSet(golden)
      /\ \A c \in ToSet(golden) : \E i \in DOMAIN golden : c = golden[i]
  <2>1. ToSet(golden) = {golden[i] : i \in DOMAIN golden}
    BY Zenon DEF ToSet
  <2> QED
    BY <2>1, Zenon
<1>3. \A c, d \in ToSet(golden) : c.id = d.id => c = d
  <2>1. TAKE c, d \in ToSet(golden)
  <2>2. HAVE c.id = d.id
  <2>3. PICK i \in DOMAIN golden : c = golden[i]
    BY <1>2, Zenon
  <2>4. PICK j \in DOMAIN golden : d = golden[j]
    BY <1>2, Zenon
  <2>5. i = j
    BY <1>1, <2>2, <2>3, <2>4, Zenon DEF IsGoldenSet
  <2> QED
    BY <2>3, <2>4, <2>5
<1>4. \A c \in ToSet(golden) :
        c.repos # {} /\ c.accept \intersect c.reject = {} /\ c.needs \in BOOLEAN
  BY <1>1, Zenon DEF IsGoldenSet
<1>5. Len(golden) \in Nat /\ DOMAIN golden = 1..Len(golden)
  BY <1>1
<1> QED
  BY <1>1, <1>2, <1>3, <1>4, <1>5, Zenon

(* The case a run is at is one of its golden set's.                        *)
LEMMA CaseIsGolden ==
  ASSUME Standing, epc # "idle", run.todo # {}
  PROVE  Min(run.todo) \in run.todo /\ Case \in ToSet(run.golden)
<1>1. run.golden \in GoldenSets /\ run.todo \subseteq DOMAIN run.golden
  BY DEF Standing
<1>2. run.todo \in SUBSET Nat
  BY <1>1, GoldenCases
<1>3. Min(run.todo) \in run.todo
  BY <1>2, MinIsLeast
<1> QED
  BY <1>1, <1>3, GoldenCases, Zenon DEF Case

(* The score of an answer that was offered is sound.                       *)
LEMMA ScoreIsSound ==
  ASSUME Standing, epc = "score", run.mode # "retrieval-only",
         NEW response, IsOffered(response)
  PROVE  /\ IsSound(Scored(response))
         /\ ~(Scored(response).full.accurate /\ Scored(response).full.rejectedPick)
         /\ Scored(response).retrieval.accepted \intersect Scored(response).retrieval.rejected = {}
<1>15. PICK digests : digests = AcceptedDigests(Case)
  OBVIOUS
<1>16. PICK found, real : found = run.found /\ real = run.real
  OBVIOUS
<1>1. PICK s : s = Scored(response)
  OBVIOUS
<1>6. PICK case : case = Case
  OBVIOUS
<1>2. PICK retrieval :
        retrieval = ScoreRetrieval(case, response.candidates, found, digests)
  OBVIOUS
<1>3. PICK full : full = ScoreFull(case, response, real, digests)
  OBVIOUS
<1>4. s.retrieval = retrieval /\ s.full = full
  BY <1>1, <1>2, <1>3, <1>6, <1>15, <1>16, Zenon DEF Scored
<1>5. Case \in ToSet(run.golden) /\ run.golden \in GoldenSets
  <2>1. run.golden \in GoldenSets /\ run.todo # {} /\ epc # "idle"
    BY Zenon DEF Standing
  <2> QED
    BY <2>1, CaseIsGolden
<1>7. case.accept \intersect case.reject = {} /\ case.needs \in BOOLEAN
  BY <1>5, <1>6, GoldenCases, Zenon
<1>8. response.candidates \in Seq(ToSet(response.candidates))
  BY Zenon DEF IsOffered
<1>9. retrieval.hit = CandidateHit(case, response.candidates, digests) /\ BoundsItself(retrieval)
  BY <1>2, <1>8, RetrievalBounds
<1>10. full.accurate => CandidateHit(case, response.candidates, digests) /\ ~full.rejectedPick
  BY <1>3, <1>7, RightAnswer
<1>11. full.needs = case.needs
  BY <1>3, Zenon DEF ScoreFull
<1>12. IsSound(s)
  BY <1>4, <1>7, <1>9, <1>10, <1>11, Zenon DEF IsSound, BoundsItself
<1>13. ~(s.full.accurate /\ s.full.rejectedPick)
  BY <1>4, <1>10, Zenon
<1>14. s.retrieval.accepted \intersect s.retrieval.rejected = {}
  BY <1>4, <1>9, Zenon DEF BoundsItself
<1> QED
  BY <1>1, <1>12, <1>13, <1>14, Zenon

-----------------------------------------------------------------------------
(* More hits count for more.                                               *)
LEMMA MoreHits ==
  ASSUME NEW C, NEW D, IsFiniteSet(D), NEW A, NEW B,
         A \intersect C \subseteq B \intersect D
  PROVE  Share(A, C).hits <= Share(B, D).hits
<1>1. IsFiniteSet(B \intersect D)
  BY FS_Intersection
<1>2. A \intersect C \in SUBSET (B \intersect D)
  OBVIOUS
<1>3. Cardinality(A \intersect C) <= Cardinality(B \intersect D)
  BY <1>1, <1>2, FS_Subset
<1> QED
  BY <1>3 DEF Share

(* A part of no more than the whole is no more than the whole.             *)
LEMMA PartOf ==
  ASSUME NEW p \in Nat, NEW a \in Nat, NEW n \in Nat \ {0}, a <= n
  PROVE  (p * a) \div n \in Nat /\ (p * a) \div n <= p /\ (a = 0 => (p * a) \div n = 0)
<1>1. PICK x : x = p * a
  OBVIOUS
<1>2. x \in Nat /\ x <= p * n /\ (a = 0 => x = 0)
  BY <1>1
<1>3. PICK q : q = x \div n
  OBVIOUS
<1>4. q \in Int /\ n * q <= x /\ x < n * q + n
  BY <1>2, <1>3
<1>5. q \in Nat
  BY <1>2, <1>4
<1>6. q <= p
  <2>1. SUFFICES ASSUME q >= p + 1 PROVE FALSE
    BY <1>5
  <2>2. n * q >= n * (p + 1)
    BY <1>5, <2>1
  <2> QED
    BY <1>2, <1>4, <1>5, <2>2
<1>7. a = 0 => q = 0
  BY <1>2, <1>4, <1>5
<1> QED
  BY <1>1, <1>3, <1>5, <1>6, <1>7

LEMMA RandomShareBounds ==
  ASSUME NEW s, IsSound(s)
  PROVE  /\ RandomShare(s.retrieval) \in Nat
         /\ RandomShare(s.retrieval) <= Parts
         /\ ~s.retrieval.hit => RandomShare(s.retrieval) = 0
<1>1. PICK r : r = s.retrieval
  OBVIOUS
<1>2. /\ r.accepted # {} => r.hit
      /\ r.count \in Nat /\ IsFiniteSet(r.accepted) /\ Cardinality(r.accepted) <= r.count
  BY <1>1, Zenon DEF IsSound
<1>3. Cardinality(r.accepted) \in Nat /\ (~r.hit => Cardinality(r.accepted) = 0)
  BY <1>2, FS_CardinalityType, FS_EmptySet
<1>4. CASE r.count = 0
  BY <1>1, <1>4 DEF RandomShare
<1>5. CASE r.count # 0
  <2>1. PICK a, n : a = Cardinality(r.accepted) /\ n = r.count
    OBVIOUS
  <2>2. RandomShare(r) = (Parts * a) \div n
    BY <1>5, <2>1 DEF RandomShare
  <2>3. Parts \in Nat /\ a \in Nat /\ n \in Nat \ {0} /\ a <= n
    BY <1>2, <1>3, <1>5, <2>1
  <2>4. (Parts * a) \div n \in Nat /\ (Parts * a) \div n <= Parts
          /\ (a = 0 => (Parts * a) \div n = 0)
    BY <2>3, PartOf
  <2> QED
    BY <1>1, <1>3, <2>1, <2>2, <2>4
<1> QED
  BY <1>4, <1>5

(* The sum over all cases, case by case.                                   *)
LEMMA SumsCaseByCase ==
  ASSUME NEW these, these \in Seq(ToSet(these)),
         \A i \in 1..Len(these) : RandomShare(these[i].retrieval) \in Nat
  PROVE  \E sum :
           /\ sum[0] = 0
           /\ \A k \in 1..Len(these) : sum[k] = sum[k - 1] + RandomShare(these[k].retrieval)
           /\ RandomBaseline(these) = sum[Len(these)]
<1> DEFINE n == Len(these)
           step == [i \in 1..n |-> [x \in Nat |-> x + RandomShare(these[i].retrieval)]]
           IsIter(iter) == iter = [s \in SUBSET (1..n) |->
                             IF s = {} THEN 0
                             ELSE iter[s \ {Max(s)}] + RandomShare(these[Max(s)].retrieval)]
           iter == CHOOSE iter : IsIter(iter)
           sum == [k \in 0..n |-> iter[1..k]]
<1>1. n \in Nat /\ DOMAIN these = 1..n
  OBVIOUS
<1>2. \A i \in 1..n : \A x \in Nat : x + RandomShare(these[i].retrieval) \in Nat
  OBVIOUS
<1>3. step \in [1..n -> [Nat -> Nat]]
  BY <1>2, Zenon
<1>4. PICK table : IsFoldTable(table, n, Nat, 0, step)
  <2>1. 0 \in Nat
    OBVIOUS
  <2> HIDE DEF step, n
  <2> QED
    BY <1>1, <1>3, <2>1, FoldTableExists
<1>5. IsIter(table)
  <2>1. ASSUME NEW s \in SUBSET (1..n), s # {}
        PROVE  FoldStep(s, 0, step, table)
                 = table[s \ {Max(s)}] + RandomShare(these[Max(s)].retrieval)
    <3>1. Max(s) \in s
      <4>1. \A i \in s : i \in Nat /\ i <= n
        BY <1>1
      <4>2. \E i \in s : \A j \in s : j <= i
        <5>1. s \in SUBSET Nat
          BY <4>1
        <5> HIDE DEF n
        <5> QED
          BY <1>1, <2>1, <4>1, <5>1, GreatestExists
      <4> QED
        BY <4>1, <4>2 DEF Max
    <3>2. Max(s) \in 1..n /\ s \ {Max(s)} \in SUBSET (1..n)
      BY <2>1, <3>1, Zenon
    <3>3. table[s \ {Max(s)}] \in Nat
      BY <1>4, <3>2, Zenon DEF IsFoldTable
    <3> QED
      BY <2>1, <3>2, <3>3, Zenon DEF FoldStep
  <2>2. \A s \in SUBSET (1..n) :
          table[s] = IF s = {} THEN 0
                     ELSE table[s \ {Max(s)}] + RandomShare(these[Max(s)].retrieval)
    BY <1>4, <2>1, Zenon DEF IsFoldTable, FoldStep
  <2>3. table = [s \in SUBSET (1..n) |-> table[s]]
    BY <1>4, Zenon DEF IsFoldTable
  <2> QED
    BY <2>2, <2>3, Zenon
<1>6. IsIter(iter)
  BY <1>5, Zenon
<1>7. RandomBaseline(these) = iter[1..n]
  BY <1>1, Zenon DEF RandomBaseline, FoldLeft, MapThenFoldSet
<1>8. iter[1..0] = 0
  <2>1. 1..0 \in SUBSET (1..n) /\ 1..0 = {}
    BY <1>1
  <2> HIDE DEF iter
  <2> QED
    BY <1>6, <2>1, Zenon
<1>9. ASSUME NEW k \in 1..n
      PROVE  iter[1..k] = iter[1..(k - 1)] + RandomShare(these[k].retrieval)
  <2>1. 1..k \in SUBSET (1..n) /\ k \in Nat \ {0}
    BY <1>1
  <2>2. Max(1..k) = k /\ (1..k) \ {Max(1..k)} = 1..(k - 1) /\ 1..k # {}
    BY <2>1, LastOfFirst
  <2> HIDE DEF iter
  <2> QED
    BY <1>6, <2>1, <2>2, Zenon
<1>10. \A k \in 1..n : k \in 0..n /\ k - 1 \in 0..n /\ 0 \in 0..n /\ n \in 0..n
  BY <1>1
<1>11. sum[0] = 0 /\ sum[n] = iter[1..n]
  <2>1. 0 \in 0..n /\ n \in 0..n
    BY <1>1
  <2> HIDE DEF iter
  <2> QED
    BY <1>8, <2>1, Zenon
<1>12. \A k \in 1..n : sum[k] = sum[k - 1] + RandomShare(these[k].retrieval)
  <2> HIDE DEF iter
  <2> QED
    BY <1>9, <1>10, Zenon
<1> QED
  <2> HIDE DEF sum, iter
  <2> QED
    BY <1>7, <1>11, <1>12, Zenon

(* The candidate rate bounds what a random candidate would reach.          *)
LEMMA RandomIsBounded ==
  ASSUME NEW these, these \in Seq(ToSet(these)), \A i \in DOMAIN these : IsSound(these[i])
  PROVE  /\ Cardinality(HitCases(these)) \in Nat
         /\ RandomBaseline(these) <= Parts * Cardinality(HitCases(these))
<1> DEFINE n == Len(these)
           upTo(k) == {i \in 1..k : these[i].retrieval.hit}
<1>1. n \in Nat /\ DOMAIN these = 1..n
  OBVIOUS
<1>2. \A i \in 1..n :
        /\ RandomShare(these[i].retrieval) \in Nat
        /\ RandomShare(these[i].retrieval) <= Parts
        /\ ~these[i].retrieval.hit => RandomShare(these[i].retrieval) = 0
  BY <1>1, RandomShareBounds
<1>3. PICK sum :
        /\ sum[0] = 0
        /\ \A k \in 1..n : sum[k] = sum[k - 1] + RandomShare(these[k].retrieval)
        /\ RandomBaseline(these) = sum[n]
  BY <1>2, SumsCaseByCase
<1>4. ASSUME NEW k \in Nat
      PROVE  IsFiniteSet(upTo(k)) /\ Cardinality(upTo(k)) \in Nat
  <2>1. IsFiniteSet(1..k) /\ upTo(k) \in SUBSET (1..k)
    BY FS_Interval, 1 \in Int, k \in Int
  <2> HIDE DEF upTo
  <2> QED
    BY <2>1, FS_Subset, FS_CardinalityType
<1> HIDE DEF upTo, n
<1> DEFINE T == {k \in Nat : k <= n => sum[k] \in Nat /\ sum[k] <= Parts * Cardinality(upTo(k))}
<1>5. 0 \in T
  <2>1. PICK c : c = Cardinality(upTo(0))
    OBVIOUS
  <2>2. c \in Nat
    BY <1>4, <2>1
  <2>3. Parts * c >= 0
    BY <2>2
  <2> QED
    BY <1>3, <2>1, <2>3
<1>6. \A k \in T : k + 1 \in T
  <2>1. SUFFICES ASSUME NEW k \in Nat, k + 1 <= n,
                        sum[k] \in Nat, sum[k] <= Parts * Cardinality(upTo(k))
                 PROVE  sum[k + 1] \in Nat /\ sum[k + 1] <= Parts * Cardinality(upTo(k + 1))
    BY <1>1
  <2>2. k + 1 \in 1..n /\ (k + 1) - 1 = k
    BY <1>1, <2>1
  <2>3. PICK x : x = RandomShare(these[k + 1].retrieval)
    OBVIOUS
  <2>4. sum[k + 1] = sum[k] + x
    BY <1>3, <2>2, <2>3, Zenon
  <2>5. x \in Nat /\ x <= Parts /\ (~these[k + 1].retrieval.hit => x = 0)
    BY <1>2, <2>2, <2>3
  <2>6. PICK c, d : c = Cardinality(upTo(k)) /\ d = Cardinality(upTo(k + 1))
    OBVIOUS
  <2>7. c \in Nat /\ d \in Nat
    BY <1>4, <2>6
  <2>8. CASE these[k + 1].retrieval.hit
    <3>1. upTo(k + 1) = upTo(k) \union {k + 1} /\ k + 1 \notin upTo(k)
      <4>1. 1..(k + 1) = (1..k) \union {k + 1} /\ k + 1 \notin 1..k
        BY <2>1
      <4> QED
        BY <2>8, <4>1, Zenon DEF upTo
    <3>2. d = c + 1
      BY <1>4, <2>6, <3>1, FS_AddElement
    <3>3. PICK y, a : y = Parts * c /\ a = sum[k]
      OBVIOUS
    <3>4. Parts * (c + 1) = y + Parts /\ y \in Nat
      BY <2>7, <3>3
    <3>5. a \in Nat /\ a <= y
      BY <2>1, <2>6, <3>3
    <3>6. a + x \in Nat /\ a + x <= y + Parts
      BY <2>5, <3>4, <3>5
    <3> QED
      BY <2>4, <2>6, <3>2, <3>3, <3>4, <3>6, Zenon
  <2>9. CASE ~these[k + 1].retrieval.hit
    <3>1. upTo(k + 1) = upTo(k)
      <4>1. 1..(k + 1) = (1..k) \union {k + 1}
        BY <2>1
      <4> QED
        BY <2>9, <4>1, Zenon DEF upTo
    <3>2. x = 0 /\ d = c
      BY <2>5, <2>6, <2>9, <3>1, Zenon
    <3> QED
      BY <2>1, <2>4, <2>6, <2>7, <3>2
  <2> QED
    BY <2>8, <2>9
<1>7. T = Nat
  <2>1. T \in SUBSET Nat
    OBVIOUS
  <2> HIDE DEF T
  <2> QED
    BY <1>5, <1>6, <2>1, HasAllNumbers
<1>8. sum[n] <= Parts * Cardinality(upTo(n))
  <2>1. n \in T /\ n <= n
    BY <1>1, <1>7
  <2> QED
    BY <2>1
<1>9. HitCases(these) = upTo(n)
  BY <1>1, Zenon DEF HitCases, upTo
<1>10. Cardinality(upTo(n)) \in Nat
  BY <1>1, <1>4
<1> QED
  BY <1>3, <1>8, <1>9, <1>10

(* The cases with needs and those without are all cases.                   *)
LEMMA GroupsAddUp ==
  ASSUME NEW these, these \in Seq(ToSet(these)), \A i \in DOMAIN these : IsSound(these[i])
  PROVE  MetricGroups(these)[TRUE].accuracy.hits + MetricGroups(these)[FALSE].accuracy.hits
           = Share(AccurateCases(these), DOMAIN these).hits
<1> DEFINE of(needs) == AccurateCases(these) \intersect {i \in DOMAIN these : these[i].full.needs = needs}
<1>1. MetricGroups(these)[TRUE].accuracy.hits = Cardinality(of(TRUE))
        /\ MetricGroups(these)[FALSE].accuracy.hits = Cardinality(of(FALSE))
  BY Zenon DEF MetricGroups, Share
<1>2. Share(AccurateCases(these), DOMAIN these).hits = Cardinality(AccurateCases(these) \intersect DOMAIN these)
  BY Zenon DEF Share
<1>3. \A i \in DOMAIN these : these[i].full.needs \in BOOLEAN
  BY Zenon DEF IsSound
<1>4. AccurateCases(these) \intersect DOMAIN these = of(TRUE) \union of(FALSE)
  BY <1>3, Zenon
<1>5. of(TRUE) \intersect of(FALSE) = {}
  BY Zenon
<1>6. IsFiniteSet(DOMAIN these)
  BY FS_Interval, 1 \in Int, Len(these) \in Int
<1>7. \A needs \in BOOLEAN : of(needs) \in SUBSET DOMAIN these
  BY Zenon
<1> HIDE DEF of
<1>8. IsFiniteSet(of(TRUE)) /\ IsFiniteSet(of(FALSE))
  BY <1>6, <1>7, FS_Subset
<1>9. Cardinality(of(TRUE) \union of(FALSE))
        = Cardinality(of(TRUE)) + Cardinality(of(FALSE)) - Cardinality(of(TRUE) \intersect of(FALSE))
  BY <1>8, FS_Union
<1>10. Cardinality(of(TRUE)) \in Nat /\ Cardinality(of(FALSE)) \in Nat
         /\ Cardinality(of(TRUE) \intersect of(FALSE)) = 0
  BY <1>5, <1>8, FS_CardinalityType, FS_EmptySet
<1>11. PICK a, b, c :
         /\ a = Cardinality(of(TRUE)) /\ b = Cardinality(of(FALSE))
         /\ c = Cardinality(AccurateCases(these) \intersect DOMAIN these)
  OBVIOUS
<1>12. a \in Nat /\ b \in Nat /\ c = a + b
  <2>1. PICK d : d = Cardinality(of(TRUE) \intersect of(FALSE))
    OBVIOUS
  <2>2. c = a + b - d
    BY <1>4, <1>9, <1>11, <2>1, Zenon
  <2>3. a \in Nat /\ b \in Nat /\ d = 0
    BY <1>10, <1>11, <2>1, Zenon
  <2> QED
    BY <2>2, <2>3
<1> QED
  BY <1>1, <1>2, <1>11, <1>12, Zenon

(* Sound scores bound the accuracy and the controls.                       *)
LEMMA SoundIsBounded ==
  ASSUME NEW these, these \in Seq(ToSet(these)), \A i \in DOMAIN these : IsSound(these[i])
  PROVE  LET metrics == AggregateRecommendation(these)
             groups == MetricGroups(these)
         IN /\ metrics.accuracy.hits <= metrics.hit.hits
            /\ TopCandidateBaseline(these).hits <= metrics.hit.hits
            /\ RandomBaseline(these) <= Parts * metrics.hit.hits
            /\ groups[TRUE].accuracy.hits + groups[FALSE].accuracy.hits = metrics.accuracy.hits
<1>1. PICK metrics : metrics = AggregateRecommendation(these)
  OBVIOUS
<1>2. /\ metrics.accuracy = Share(AccurateCases(these), DOMAIN these)
      /\ metrics.hit = Share(HitCases(these), DOMAIN these)
  BY <1>1, Zenon DEF AggregateRecommendation
<1>3. IsFiniteSet(DOMAIN these)
  BY FS_Interval, 1 \in Int, Len(these) \in Int
<1>4. Share(AccurateCases(these), DOMAIN these).hits <= Share(HitCases(these), DOMAIN these).hits
  <2>1. AccurateCases(these) \intersect DOMAIN these \subseteq HitCases(these) \intersect DOMAIN these
    BY Zenon DEF AccurateCases, HitCases, IsSound
  <2> QED
    BY <1>3, <2>1, MoreHits
<1>5. Share(TopCases(these), DOMAIN these).hits <= Share(HitCases(these), DOMAIN these).hits
  <2>1. TopCases(these) \intersect DOMAIN these \subseteq HitCases(these) \intersect DOMAIN these
    BY Zenon DEF TopCases, HitCases, IsSound
  <2> QED
    BY <1>3, <2>1, MoreHits
<1>6. TopCandidateBaseline(these) = Share(TopCases(these), DOMAIN these)
  BY Zenon DEF TopCandidateBaseline
<1>7. Share(HitCases(these), DOMAIN these).hits = Cardinality(HitCases(these))
  <2>1. HitCases(these) \intersect DOMAIN these = HitCases(these)
    BY Zenon DEF HitCases
  <2> QED
    BY <2>1, Zenon DEF Share
<1>8. RandomBaseline(these) <= Parts * Cardinality(HitCases(these))
  BY RandomIsBounded
<1>9. MetricGroups(these)[TRUE].accuracy.hits + MetricGroups(these)[FALSE].accuracy.hits
        = Share(AccurateCases(these), DOMAIN these).hits
  BY GroupsAddUp
<1>10. metrics.accuracy.hits <= metrics.hit.hits
  BY <1>2, <1>4, Zenon
<1>11. TopCandidateBaseline(these).hits <= metrics.hit.hits
  BY <1>2, <1>5, <1>6, Zenon
<1>12. RandomBaseline(these) <= Parts * metrics.hit.hits
  BY <1>2, <1>7, <1>8, Zenon
<1>13. MetricGroups(these)[TRUE].accuracy.hits + MetricGroups(these)[FALSE].accuracy.hits = metrics.accuracy.hits
  BY <1>2, <1>9, Zenon
<1> QED
  BY <1>1, <1>10, <1>11, <1>12, <1>13, Zenon

LEMMA AccuracyBounded == ASSUME EvalInv PROVE AccuracyIsBounded
<1>1. SUFFICES ASSUME epc = "score", run.mode # "retrieval-only"
               PROVE  AccuracyIsBounded
  BY Zenon DEF AccuracyIsBounded
<1>2. Standing /\ Answering /\ Scoring
  BY Zenon DEF EvalInv
<1>3. PICK s : s = Scored(answer)
  OBVIOUS
<1>4. PICK all : all = Append(scores, s)
  OBVIOUS
<1>5. /\ IsSound(s) /\ ~(s.full.accurate /\ s.full.rejectedPick)
      /\ s.retrieval.accepted \intersect s.retrieval.rejected = {}
  <2>1. IsOffered(answer)
    BY <1>1, <1>2, Zenon DEF Answering
  <2>2. PICK response : response = answer
    OBVIOUS
  <2> QED
    BY <1>1, <1>2, <1>3, <2>1, <2>2, ScoreIsSound, Zenon
<1>6. scores \in Seq(ToSet(scores)) /\ run.mode # "plan-only"
  BY <1>1, <1>2, Zenon DEF Standing
<1>7. all \in Seq(ToSet(all)) /\ \A i \in DOMAIN all : IsSound(all[i])
  <2>1. PICK old : old = scores
    OBVIOUS
  <2>5. old \in Seq(ToSet(old)) /\ all = Append(old, s)
    BY <1>4, <1>6, <2>1, Zenon
  <2>2. /\ Len(old) \in Nat /\ DOMAIN old = 1..Len(old)
        /\ all \in Seq(ToSet(all))
        /\ DOMAIN all = 1..(Len(old) + 1)
        /\ \A i \in 1..Len(old) : all[i] = old[i]
        /\ all[Len(old) + 1] = s
    BY <2>5, OneMore
  <2>3. \A i \in 1..Len(old) : IsSound(old[i])
    BY <1>1, <1>2, <1>6, <2>1, <2>2, Zenon DEF Scoring
  <2>4. \A i \in 1..(Len(old) + 1) : i = Len(old) + 1 \/ i \in 1..Len(old)
    BY <2>2
  <2> QED
    BY <1>5, <2>2, <2>3, <2>4, Zenon
<1>8. PICK metrics, groups :
        metrics = AggregateRecommendation(all) /\ groups = MetricGroups(all)
  OBVIOUS
<1>9. /\ metrics.accuracy.hits <= metrics.hit.hits
      /\ TopCandidateBaseline(all).hits <= metrics.hit.hits
      /\ RandomBaseline(all) <= Parts * metrics.hit.hits
      /\ groups[TRUE].accuracy.hits + groups[FALSE].accuracy.hits = metrics.accuracy.hits
  BY <1>7, <1>8, SoundIsBounded, Zenon
<1>10. s.full.accurate => s.retrieval.hit /\ ~s.full.rejectedPick
  BY <1>5, Zenon DEF IsSound
<1> QED
  BY <1>3, <1>4, <1>5, <1>8, <1>9, <1>10, Zenon DEF AccuracyIsBounded

-----------------------------------------------------------------------------
(* What a case can count for once its answer is withheld.                  *)
CountsForLess(less, more) ==
  /\ less.full.accurate => more.full.accurate
  /\ less.retrieval.hit => more.retrieval.hit
  /\ less.full.met => more.full.met
  /\ less.full.declared = more.full.declared
  /\ less.full.sourcesOk => more.full.sourcesOk
  /\ less.retrieval.hitAt5 = more.retrieval.hitAt5
  /\ less.retrieval.hitDeclared = more.retrieval.hitDeclared
  /\ less.extraction.repository => more.extraction.repository
  /\ less.retrieval.rejected # {} => more.retrieval.rejected # {}
  /\ less.extraction.matched => more.extraction.matched

(* A score that says nothing of what an answer contains.                   *)
SaysNothing(score) ==
  score.full.tagReal = Null /\ score.full.citations = <<>> /\ score.full.unsatisfied = Null

(* What is left of an answer.                                              *)
LEMMA WithheldFields ==
  ASSUME NEW response, IsOffered(response), NEW less \in Withheld(response)
  PROVE  /\ less.image = Null /\ less.citations = <<>>
         /\ less.candidates = response.candidates \/ less.candidates = <<>>
         /\ less.plan = response.plan \/ less.plan = Null
<1>1. PICK plan, candidates, image, cited, heard :
        response = [plan |-> plan, candidates |-> candidates, image |-> image,
                    citations |-> cited, heard |-> heard]
  BY Zenon DEF IsOffered
<1>2. PICK unchosen : unchosen = [response EXCEPT !.image = Null, !.citations = <<>>]
  OBVIOUS
<1>3. unchosen = [plan |-> plan, candidates |-> candidates, image |-> Null,
                  citations |-> <<>>, heard |-> heard]
  BY <1>1, <1>2
<1>4. CASE less = Silence
  BY <1>4 DEF Silence
<1>5. CASE less = unchosen
  BY <1>1, <1>3, <1>5
<1>6. CASE less = [unchosen EXCEPT !.candidates = <<>>]
  BY <1>1, <1>3, <1>6
<1>7. CASE less = [unchosen EXCEPT !.plan = Null]
  BY <1>1, <1>3, <1>7
<1>8. less \in {Silence, unchosen, [unchosen EXCEPT !.candidates = <<>>], [unchosen EXCEPT !.plan = Null]}
  BY <1>2, Zenon DEF Withheld
<1> QED
  BY <1>4, <1>5, <1>6, <1>7, <1>8, Zenon

LEMMA WithheldCountsForLess ==
  ASSUME run.mode # "retrieval-only",
         NEW response, IsOffered(response), NEW less \in Withheld(response)
  PROVE  CountsForLess(Scored(less), Scored(response)) /\ SaysNothing(Scored(less))
<1> DEFINE digests == AcceptedDigests(Case)
<1>1. /\ less.image = Null /\ less.citations = <<>>
      /\ less.candidates = response.candidates \/ less.candidates = <<>>
      /\ less.plan = response.plan \/ less.plan = Null
  BY WithheldFields
<1>2. PICK s, t : s = Scored(less) /\ t = Scored(response)
  OBVIOUS
<1>17. PICK r, q :
         /\ r = ScoreRetrieval(Case, less.candidates, run.found, digests)
         /\ q = ScoreRetrieval(Case, response.candidates, run.found, digests)
  OBVIOUS
<1>18. PICK f, g : f = ScoreFull(Case, less, run.real, digests)
                     /\ g = ScoreFull(Case, response, run.real, digests)
  OBVIOUS
<1>19. PICK d, e : d = ScorePlan(Case, less.plan) /\ e = ScorePlan(Case, response.plan)
  OBVIOUS
<1>3. /\ s.retrieval = r /\ s.full = f /\ s.extraction = d
      /\ t.retrieval = q /\ t.full = g /\ t.extraction = e
  BY <1>2, <1>17, <1>18, <1>19, Zenon DEF Scored
<1> HIDE DEF digests
<1>4. ToSet(<<>>) = {}
  BY DEF ToSet
<1>5. ToSet(less.candidates) \subseteq ToSet(response.candidates)
  BY <1>1, <1>4, Zenon
<1>6. Null \notin Stock /\ \A c \in ToSet(response.candidates) : c.image # Null
  BY Zenon DEF IsOffered
<1>7. ~f.accurate
  <2>1. f.accurate = (\/ less.image # Null /\ less.image \in Case.accept
                      \/ \E c \in ToSet(less.candidates) :
                           c.image = less.image /\ IsAccepted(Case, c, digests))
    BY <1>18, Zenon DEF ScoreFull
  <2> QED
    BY <1>1, <1>5, <1>6, <2>1, Zenon
<1>8. r.hit => q.hit
  <2>1. r.hit = CandidateHit(Case, less.candidates, digests)
          /\ q.hit = CandidateHit(Case, response.candidates, digests)
    BY <1>17, Zenon DEF ScoreRetrieval
  <2> QED
    BY <1>5, <2>1, Zenon DEF CandidateHit
<1>9. f.tagReal = Null /\ f.citations = <<>> /\ f.unsatisfied = Null
  BY <1>1, <1>18, Zenon DEF ScoreFull
<1>10. ~f.met
  <2>1. f.met = ConditionsMet(Case, less)
    BY <1>18, Zenon DEF ScoreFull
  <2> QED
    BY <1>1, <1>5, <1>6, <2>1, Zenon DEF ConditionsMet
<1>11. f.declared = g.declared
  BY <1>18, Zenon DEF ScoreFull
<1>12. f.sourcesOk => g.sourcesOk
  <2>1. f.sourcesOk = SourcesOk(less) /\ g.sourcesOk = SourcesOk(response)
    BY <1>18, Zenon DEF ScoreFull
  <2>2. SUFFICES ASSUME SourcesOk(less) PROVE SourcesOk(response)
    BY <2>1, Zenon
  <2>3. less.candidates # <<>>
    BY <1>1, <2>2, Zenon DEF SourcesOk
  <2>4. response.candidates # <<>>
    BY <1>1, <2>3, Zenon
  <2>5. CASE response.image = Null
    BY <2>4, <2>5, Zenon DEF SourcesOk
  <2>6. CASE response.image # Null
    <3>1. \E c \in ToSet(response.candidates) : c.image = response.image
      BY <2>6, Zenon DEF IsOffered, Images
    <3> QED
      BY <2>6, <3>1, Zenon DEF SourcesOk
  <2> QED
    BY <2>5, <2>6
<1>13. r.hitAt5 = q.hitAt5 /\ r.hitDeclared = q.hitDeclared
  BY <1>17, Zenon DEF ScoreRetrieval
<1>14. d.repository => e.repository
  BY <1>1, <1>19, Zenon DEF ScorePlan
<1>15. d.matched => e.matched
  BY <1>1, <1>19, Zenon DEF ScorePlan
<1>16. r.rejected # {} => q.rejected # {}
  <2>1. /\ r.rejected = Images(less.candidates) \intersect Case.reject
        /\ q.rejected = Images(response.candidates) \intersect Case.reject
    BY <1>17, Zenon DEF ScoreRetrieval
  <2>2. Images(less.candidates) \subseteq Images(response.candidates)
    BY <1>5, Zenon DEF Images
  <2> QED
    BY <2>1, <2>2, Zenon
<1>20. CountsForLess(s, t)
  BY <1>3, <1>7, <1>8, <1>10, <1>11, <1>12, <1>13, <1>14, <1>15, <1>16, Zenon DEF CountsForLess
<1>21. SaysNothing(s)
  BY <1>3, <1>9, Zenon DEF SaysNothing
<1> QED
  BY <1>2, <1>20, <1>21, Zenon

(* A score that counts for less raises no metric over the cases.          *)
LEMMA NoCaseMetricRises ==
  ASSUME NEW old, old \in Seq(ToSet(old)), NEW less, NEW more, CountsForLess(less, more),
         NEW without, without = Append(old, less), NEW with, with = Append(old, more)
  PROVE  /\ \A m \in CaseMetrics :
              NoBetter(AggregateRecommendation(without)[m], AggregateRecommendation(with)[m])
         /\ \A m \in PlanMetrics : NoBetter(AggregatePlan(without)[m], AggregatePlan(with)[m])
<1> DEFINE n == Len(old)
           cases == 1..(n + 1)
<1>1. /\ n \in Nat /\ DOMAIN without = cases /\ DOMAIN with = cases
      /\ \A i \in 1..n : without[i] = with[i]
      /\ without[n + 1] = less /\ with[n + 1] = more
  BY OneMore
<1>2. \A i \in cases : without[i] = with[i] \/ CountsForLess(without[i], with[i])
  <2>1. \A i \in cases : i = n + 1 \/ i \in 1..n
    BY <1>1
  <2> QED
    BY <1>1, <2>1, Zenon
<1>3. IsFiniteSet(cases)
  BY <1>1, FS_Interval, 1 \in Int, n + 1 \in Int
<1> HIDE DEF n, cases
<1> DEFINE met(these) == {i \in cases : these[i].full.met}
           declared(these) == {i \in cases : these[i].full.declared}
           sourced(these) == {i \in cases : these[i].full.sourcesOk}
           rejecting(these) == {i \in cases : these[i].retrieval.rejected # {}}
           hitAt5(these) == {i \in cases : these[i].retrieval.hitAt5}
           expected(these) == {i \in cases : these[i].retrieval.hitDeclared}
           repository(these) == {i \in cases : these[i].extraction.repository}
           matched(these) == {i \in cases : these[i].extraction.matched}
<1>4. ASSUME NEW these, DOMAIN these = cases
      PROVE  /\ AggregateRecommendation(these)["accuracy"] = Share(AccurateCases(these), cases)
             /\ AggregateRecommendation(these)["hit"] = Share(HitCases(these), cases)
             /\ AggregateRecommendation(these)["conditions"] = Share(met(these), declared(these))
             /\ AggregateRecommendation(these)["sources"] = Share(sourced(these), cases)
             /\ AggregateRecommendation(these)["rejecting"] = Share(rejecting(these), cases)
             /\ AggregateRecommendation(these)["hitAt5"] = Share(hitAt5(these), expected(these))
             /\ AggregatePlan(these)["repository"] = Share(repository(these), cases)
             /\ AggregatePlan(these)["matched"] = Share(matched(these), cases)
  BY <1>4, Zenon DEF AggregateRecommendation, RejectedCases, AggregatePlan
<1>5. AccurateCases(without) \intersect cases \subseteq AccurateCases(with) \intersect cases
  BY <1>1, <1>2, Zenon DEF AccurateCases, CountsForLess
<1>6. HitCases(without) \intersect cases \subseteq HitCases(with) \intersect cases
  BY <1>1, <1>2, Zenon DEF HitCases, CountsForLess
<1>7. declared(without) = declared(with) /\ expected(without) = expected(with)
  BY <1>2, Zenon DEF CountsForLess
<1>8. met(without) \intersect declared(with) \subseteq met(with) \intersect declared(with)
  BY <1>2, Zenon DEF CountsForLess
<1>9. hitAt5(without) \intersect expected(with) \subseteq hitAt5(with) \intersect expected(with)
  BY <1>2, Zenon DEF CountsForLess
<1>10. sourced(without) \intersect cases \subseteq sourced(with) \intersect cases
  BY <1>2, Zenon DEF CountsForLess
<1>11. rejecting(without) \intersect cases \subseteq rejecting(with) \intersect cases
  BY <1>2, Zenon DEF CountsForLess
<1>12. repository(without) \intersect cases \subseteq repository(with) \intersect cases
  BY <1>2, Zenon DEF CountsForLess
<1>13. matched(without) \intersect cases \subseteq matched(with) \intersect cases
  BY <1>2, Zenon DEF CountsForLess
<1>14. IsFiniteSet(declared(with)) /\ IsFiniteSet(expected(with))
  BY <1>3, FS_Subset
<1> HIDE DEF met, declared, sourced, rejecting, hitAt5, expected, repository, matched
<1>15. ASSUME NEW A, NEW B, NEW C, IsFiniteSet(C), A \intersect C \subseteq B \intersect C
       PROVE  NoBetter(Share(A, C), Share(B, C))
  <2>1. Share(A, C).hits <= Share(B, C).hits
    BY <1>15, MoreHits
  <2>2. Share(A, C).total = Share(B, C).total
    BY Zenon DEF Share
  <2> QED
    BY <2>1, <2>2, Zenon DEF NoBetter
<1> DEFINE Falls(m) ==
             NoBetter(AggregateRecommendation(without)[m], AggregateRecommendation(with)[m])
           PlanFalls(m) == NoBetter(AggregatePlan(without)[m], AggregatePlan(with)[m])
<1>16. Falls("accuracy")
  <2>1. NoBetter(Share(AccurateCases(without), cases), Share(AccurateCases(with), cases))
    BY <1>3, <1>5, <1>15
  <2> QED
    BY <1>1, <1>4, <2>1, Zenon
<1>17. Falls("hit")
  <2>1. NoBetter(Share(HitCases(without), cases), Share(HitCases(with), cases))
    BY <1>3, <1>6, <1>15
  <2> QED
    BY <1>1, <1>4, <2>1, Zenon
<1>18. Falls("conditions")
  <2>1. NoBetter(Share(met(without), declared(with)), Share(met(with), declared(with)))
    BY <1>8, <1>14, <1>15
  <2> QED
    BY <1>1, <1>4, <1>7, <2>1, Zenon
<1>19. Falls("sources")
  <2>1. NoBetter(Share(sourced(without), cases), Share(sourced(with), cases))
    BY <1>3, <1>10, <1>15
  <2> QED
    BY <1>1, <1>4, <2>1, Zenon
<1>20. Falls("rejecting")
  <2>1. NoBetter(Share(rejecting(without), cases), Share(rejecting(with), cases))
    BY <1>3, <1>11, <1>15
  <2> QED
    BY <1>1, <1>4, <2>1, Zenon
<1>21. Falls("hitAt5")
  <2>1. NoBetter(Share(hitAt5(without), expected(with)), Share(hitAt5(with), expected(with)))
    BY <1>9, <1>14, <1>15
  <2> QED
    BY <1>1, <1>4, <1>7, <2>1, Zenon
<1>22. PlanFalls("repository")
  <2>1. NoBetter(Share(repository(without), cases), Share(repository(with), cases))
    BY <1>3, <1>12, <1>15
  <2> QED
    BY <1>1, <1>4, <2>1, Zenon
<1>23. PlanFalls("matched")
  <2>1. NoBetter(Share(matched(without), cases), Share(matched(with), cases))
    BY <1>3, <1>13, <1>15
  <2> QED
    BY <1>1, <1>4, <2>1, Zenon
<1>24. \A m \in CaseMetrics : Falls(m)
  <2> HIDE DEF Falls
  <2> QED
    BY <1>16, <1>17, <1>18, <1>19, <1>20, <1>21, Zenon DEF CaseMetrics
<1>25. \A m \in PlanMetrics : PlanFalls(m)
  <2> HIDE DEF PlanFalls
  <2> QED
    BY <1>22, <1>23, Zenon DEF PlanMetrics
<1> QED
  BY <1>24, <1>25, Zenon

(* A score that says nothing of an answer leaves the metrics over answers  *)
(* as they were.                                                           *)
SameOfAnswers(these, old) ==
  \A m \in AnswerMetrics : AggregateRecommendation(these)[m] = AggregateRecommendation(old)[m]

LEMMA LeftOut ==
  ASSUME NEW old, old \in Seq(ToSet(old)), NEW less, SaysNothing(less),
         NEW these, these = Append(old, less)
  PROVE  SameOfAnswers(these, old)
<1> DEFINE n == Len(old)
           was == 1..n
           cases == 1..(n + 1)
<1>1. /\ n \in Nat /\ DOMAIN old = was /\ DOMAIN these = cases
      /\ \A i \in was : these[i] = old[i] /\ these[n + 1] = less
  BY OneMore
<1>2. /\ \A i \in cases : i \in was \/ SaysNothing(these[i])
      /\ was \subseteq cases
  <2>1. (\A i \in cases : i = n + 1 \/ i \in was) /\ was \subseteq cases
    BY <1>1
  <2>2. PICK last : last = n + 1
    OBVIOUS
  <2>3. these[last] = less /\ (\A i \in cases : i = last \/ i \in was)
    BY <1>1, <2>1, <2>2
  <2> HIDE DEF n, was, cases
  <2> QED
    BY <2>1, <2>3, Zenon
<1> HIDE DEF n, was, cases
<1> DEFINE real(some, all) == {i \in all : some[i].full.tagReal = TRUE}
           answered(some, all) == {i \in all : some[i].full.tagReal # Null}
<1>3. answered(these, cases) = answered(old, was)
  BY <1>1, <1>2, Zenon DEF SaysNothing
<1>4. real(these, cases) \intersect answered(old, was) = real(old, was) \intersect answered(old, was)
  BY <1>1, <1>2, Zenon DEF SaysNothing
<1>5. Share(real(these, cases), answered(these, cases)) = Share(real(old, was), answered(old, was))
  <2> HIDE DEF real, answered
  <2> QED
    BY <1>3, <1>4, Zenon DEF Share
<1>6. CitationPassRate(these, cases) = CitationPassRate(old, was)
  <2> DEFINE cited(some, all) == UNION {{i} \X DOMAIN some[i].full.citations : i \in all}
             verified(some, all) == {c \in cited(some, all) : some[c[1]].full.citations[c[2]]}
  <2>1. \A i \in cases : i \in was \/ {i} \X DOMAIN these[i].full.citations = {}
    <3>1. DOMAIN <<>> = {}
      OBVIOUS
    <3>2. \A i \in cases : i \in was \/ DOMAIN these[i].full.citations = {}
      BY <1>2, <3>1, Zenon DEF SaysNothing
    <3>3. \A i : {i} \X {} = {}
      OBVIOUS
    <3> QED
      BY <3>2, <3>3, Zenon
  <2>2. cited(these, cases) = cited(old, was)
    <3> DEFINE of(some, i) == {i} \X DOMAIN some[i].full.citations
    <3>1. \A i \in was : of(these, i) = of(old, i) /\ i \in cases
      BY <1>1, <1>2, Zenon
    <3>2. \A i \in cases : i \in was \/ of(these, i) = {}
      BY <2>1, Zenon
    <3>3. cited(these, cases) = UNION {of(these, i) : i \in cases}
            /\ cited(old, was) = UNION {of(old, i) : i \in was}
      BY Zenon
    <3> HIDE DEF of, cited
    <3>4. UNION {of(these, i) : i \in cases} = UNION {of(old, i) : i \in was}
      BY <3>1, <3>2
    <3> QED
      BY <3>3, <3>4, Zenon
  <2>3. \A c \in cited(old, was) : c[1] \in was
    OBVIOUS
  <2>4. verified(these, cases) = verified(old, was)
    <3> HIDE DEF cited
    <3> QED
      BY <1>1, <2>2, <2>3, Zenon
  <2>5. /\ CitationPassRate(these, cases) = Share(verified(these, cases), cited(these, cases))
        /\ CitationPassRate(old, was) = Share(verified(old, was), cited(old, was))
    BY Zenon DEF CitationPassRate
  <2> HIDE DEF cited, verified
  <2> QED
    BY <2>2, <2>4, <2>5, Zenon
<1>7. JudgedCases(these) = JudgedCases(old) /\ JudgedCases(old) \subseteq was
  BY <1>1, <1>2, Zenon DEF JudgedCases, SaysNothing
<1>8. ASSUME NEW wanted, NEW wished, \A i \in was : wanted[i] = wished[i]
      PROVE  JudgedShare(these, wanted) = JudgedShare(old, wished)
  <2>1. PICK judged : judged = JudgedCases(old)
    OBVIOUS
  <2>2. UNION {{i} \X these[i].full.unsatisfied : i \in judged}
          = UNION {{i} \X old[i].full.unsatisfied : i \in judged}
    BY <1>1, <1>7, <2>1, Zenon
  <2>3. UNION {{i} \X wanted[i] : i \in judged} = UNION {{i} \X wished[i] : i \in judged}
    BY <1>7, <1>8, <2>1, Zenon
  <2> QED
    BY <1>7, <2>1, <2>2, <2>3, Zenon DEF JudgedShare
<1> DEFINE rejected(some, all) == [i \in all |-> some[i].retrieval.rejected]
           accepted(some, all) == [i \in all |-> some[i].retrieval.accepted]
<1>9. /\ JudgedShare(these, rejected(these, cases)) = JudgedShare(old, rejected(old, was))
      /\ JudgedShare(these, accepted(these, cases)) = JudgedShare(old, accepted(old, was))
  <2>1. PICK w, x, y, z : /\ w = rejected(these, cases) /\ x = rejected(old, was)
                          /\ y = accepted(these, cases) /\ z = accepted(old, was)
    OBVIOUS
  <2>2. \A i \in was : w[i] = x[i] /\ y[i] = z[i]
    BY <1>1, <1>2, <2>1, Zenon
  <2>3. JudgedShare(these, w) = JudgedShare(old, x) /\ JudgedShare(these, y) = JudgedShare(old, z)
    BY <1>8, <2>2
  <2> QED
    BY <2>1, <2>3, Zenon
<1>10. /\ AggregateRecommendation(these)["real"] = Share(real(these, cases), answered(these, cases))
       /\ AggregateRecommendation(these)["citations"] = CitationPassRate(these, cases)
       /\ AggregateRecommendation(these)["detected"] = JudgedShare(these, rejected(these, cases))
       /\ AggregateRecommendation(these)["misjudged"] = JudgedShare(these, accepted(these, cases))
  BY <1>1, Zenon DEF AggregateRecommendation
<1>11. /\ AggregateRecommendation(old)["real"] = Share(real(old, was), answered(old, was))
       /\ AggregateRecommendation(old)["citations"] = CitationPassRate(old, was)
       /\ AggregateRecommendation(old)["detected"] = JudgedShare(old, rejected(old, was))
       /\ AggregateRecommendation(old)["misjudged"] = JudgedShare(old, accepted(old, was))
  BY <1>1, Zenon DEF AggregateRecommendation
<1> HIDE DEF real, answered, rejected, accepted
<1>12. AggregateRecommendation(these)["real"] = AggregateRecommendation(old)["real"]
  BY <1>5, <1>10, <1>11, Zenon
<1>13. AggregateRecommendation(these)["citations"] = AggregateRecommendation(old)["citations"]
  BY <1>6, <1>10, <1>11, Zenon
<1>14. AggregateRecommendation(these)["detected"] = AggregateRecommendation(old)["detected"]
  BY <1>9, <1>10, <1>11, Zenon
<1>15. AggregateRecommendation(these)["misjudged"] = AggregateRecommendation(old)["misjudged"]
  BY <1>9, <1>10, <1>11, Zenon
<1> QED
  BY <1>12, <1>13, <1>14, <1>15, Zenon DEF SameOfAnswers, AnswerMetrics

LEMMA WithheldIsNoSuccess == ASSUME EvalInv PROVE WithheldIsMissOrLeftOut
<1>1. SUFFICES ASSUME epc = "score", run.mode # "retrieval-only",
                      NEW withheld \in Withheld(answer)
               PROVE  LET these(response) == Append(scores, Scored(response))
                          less == AggregateRecommendation(these(withheld))
                          more == AggregateRecommendation(these(answer))
                      IN /\ \A m \in CaseMetrics : NoBetter(less[m], more[m])
                         /\ \A m \in PlanMetrics :
                              NoBetter(AggregatePlan(these(withheld))[m], AggregatePlan(these(answer))[m])
                         /\ \A m \in AnswerMetrics : less[m] = AggregateRecommendation(scores)[m]
  BY Zenon DEF WithheldIsMissOrLeftOut
<1>2. IsOffered(answer)
  BY <1>1, Zenon DEF EvalInv, Answering
<1>3. PICK old, response : old = scores /\ response = answer
  OBVIOUS
<1>4. PICK less, more : less = Scored(withheld) /\ more = Scored(response)
  OBVIOUS
<1>5. CountsForLess(less, more) /\ SaysNothing(less)
  BY <1>1, <1>2, <1>3, <1>4, WithheldCountsForLess, Zenon
<1>6. old \in Seq(ToSet(old))
  BY <1>3, Zenon DEF EvalInv, Standing
<1>7. PICK without, with : without = Append(old, less) /\ with = Append(old, more)
  OBVIOUS
<1>8. /\ \A m \in CaseMetrics :
            NoBetter(AggregateRecommendation(without)[m], AggregateRecommendation(with)[m])
      /\ \A m \in PlanMetrics : NoBetter(AggregatePlan(without)[m], AggregatePlan(with)[m])
  BY <1>5, <1>6, <1>7, NoCaseMetricRises, Zenon
<1>9. SameOfAnswers(without, old)
  <2>1. SaysNothing(less) /\ old \in Seq(ToSet(old)) /\ without = Append(old, less)
    BY <1>5, <1>6, <1>7, Zenon
  <2> QED
    BY <2>1, LeftOut
<1> QED
  BY <1>3, <1>4, <1>7, <1>8, <1>9, Zenon DEF SameOfAnswers

-----------------------------------------------------------------------------
(* The steps of the command and of the world.                              *)
IsRun(r) ==
  r = [mode |-> r.mode, golden |-> r.golden, checked |-> r.checked, todo |-> r.todo,
       skipped |-> r.skipped, plans |-> r.plans, source |-> r.source, found |-> r.found,
       real |-> r.real]

SameRun(r, s) ==
  /\ IsRun(s)
  /\ s.mode = r.mode /\ s.golden = r.golden /\ s.todo = r.todo
  /\ s.plans = r.plans /\ s.source = r.source /\ s.skipped = r.skipped
  /\ s.checked = r.checked

LEMMA FoundKeepsRun ==
  ASSUME NEW r, IsRun(r), NEW found, NEW real,
         NEW s, s = [r EXCEPT !.found = found, !.real = real]
  PROVE  SameRun(r, s)
<1>1. PICK m, g, h, t, k, p, o, f, e :
        r = [mode |-> m, golden |-> g, checked |-> h, todo |-> t, skipped |-> k,
             plans |-> p, source |-> o, found |-> f, real |-> e]
  BY Zenon DEF IsRun
<1>2. s = [mode |-> m, golden |-> g, checked |-> h, todo |-> t, skipped |-> k,
           plans |-> p, source |-> o, found |-> found, real |-> real]
  BY <1>1
<1> QED
  BY <1>1, <1>2 DEF SameRun, IsRun

LEMMA RealKeepsRun ==
  ASSUME NEW r, IsRun(r), NEW real, NEW s, s = [r EXCEPT !.real = real]
  PROVE  SameRun(r, s)
<1>1. PICK m, g, h, t, k, p, o, f, e :
        r = [mode |-> m, golden |-> g, checked |-> h, todo |-> t, skipped |-> k,
             plans |-> p, source |-> o, found |-> f, real |-> e]
  BY Zenon DEF IsRun
<1>2. s = [mode |-> m, golden |-> g, checked |-> h, todo |-> t, skipped |-> k,
           plans |-> p, source |-> o, found |-> f, real |-> real]
  BY <1>1
<1> QED
  BY <1>1, <1>2 DEF SameRun, IsRun

(* A run at its next case.                                                 *)
Follows(r, s) ==
  /\ IsRun(s)
  /\ s.mode = r.mode /\ s.golden = r.golden /\ s.plans = r.plans /\ s.source = r.source
  /\ s.checked = r.checked

LEMMA NextRun ==
  ASSUME NEW r, IsRun(r), NEW todo,
         NEW s, s = [r EXCEPT !.todo = todo, !.found = {}, !.real = Null]
  PROVE  Follows(r, s) /\ s.todo = todo
<1>1. PICK m, g, h, t, k, p, o, f, e :
        r = [mode |-> m, golden |-> g, checked |-> h, todo |-> t, skipped |-> k,
             plans |-> p, source |-> o, found |-> f, real |-> e]
  BY Zenon DEF IsRun
<1>2. s = [mode |-> m, golden |-> g, checked |-> h, todo |-> todo, skipped |-> k,
           plans |-> p, source |-> o, found |-> {}, real |-> Null]
  BY <1>1
<1> QED
  BY <1>1, <1>2 DEF Follows, IsRun

LEMMA NoRunFields == IsRun(NoRun) /\ NoRun.mode = "none"
<1>1. PICK none : none = [id \in {} |-> Null]
  OBVIOUS
<1>2. NoRun = [mode |-> "none", golden |-> <<>>, checked |-> Null, todo |-> {}, skipped |-> {},
               plans |-> none, source |-> 0, found |-> {}, real |-> Null]
  BY <1>1, Zenon DEF NoRun
<1> QED
  BY <1>2 DEF IsRun

LEMMA EmptyLists ==
  /\ <<>> \in Seq(ToSet(<<>>)) /\ DOMAIN <<>> = {} /\ ToSet(<<>>) = {}
  /\ IsOffered(Silence) /\ Silence.plan = Null /\ Silence.heard = FALSE
<1>1. DOMAIN <<>> = {} /\ ToSet(<<>>) = {}
  BY DEF ToSet
<1>2. <<>> \in Seq(ToSet(<<>>))
  OBVIOUS
<1>3. /\ Silence.candidates = <<>> /\ Silence.image = Null
      /\ Silence.plan = Null /\ Silence.citations = <<>> /\ Silence.heard = FALSE
      /\ Silence = [plan |-> Silence.plan, candidates |-> Silence.candidates,
                    image |-> Silence.image, citations |-> Silence.citations,
                    heard |-> Silence.heard]
  BY DEF Silence
<1>4. IsOffered(Silence)
  BY <1>1, <1>2, <1>3, Zenon DEF IsOffered
<1> QED
  BY <1>1, <1>2, <1>3, <1>4, Zenon

LEMMA DocsStay ==
  ASSUME Filing, FixedRunsRepeat, docs' = docs
  PROVE  Filing' /\ FixedRunsRepeat'
<1>1. Filing'
  BY Zenon DEF Filing
<1>2. FixedRunsRepeat'
  BY SMT DEF FixedRunsRepeat, LabelPlan, IsLabelled
<1> QED
  BY <1>1, <1>2

(* A run that goes on with the same plans over the same golden set.        *)
LEMMA PlansStay ==
  ASSUME Planning, Keeping, Scoring, epc \notin {"idle", "plans"}, SameRun(run, run'),
         docs' = docs, scores' = scores
  PROVE  Planning' /\ Keeping' /\ Scoring' /\ PlansOf(Case)' = PlansOf(Case)
<1>1. /\ run'.mode = run.mode /\ run'.golden = run.golden /\ run'.todo = run.todo
      /\ run'.plans = run.plans /\ run'.source = run.source /\ run'.checked = run.checked
  BY Zenon DEF SameRun
<1>2. Planning'
  BY <1>1, Zenon DEF Planning, HasFixedPlans, IsLabelled, IsNormal, FixedPlan, Normalized, LabelPlan
<1>3. Keeping'
  BY <1>1, Zenon DEF Keeping, HasFixedPlans, IsLabelled, IsNormal, FixedPlan, Normalized
<1>4. Scoring'
  BY <1>1, Zenon DEF Scoring, IsSound
<1>5. Case' = Case
  BY <1>1, Zenon DEF Case
<1>6. PlansOf(Case)' = PlansOf(Case)
  BY <1>1, <1>5, Zenon DEF PlansOf, HasFixedPlans, IsLabelled, CallsPlan, FixedPlan, AskedPlans, Normalized
<1> QED
  BY <1>2, <1>3, <1>4, <1>6

(* A label names a repository that is collected.                           *)
LEMMA LabelIsNormal ==
  ASSUME NEW case, case.repos # {}, case.repos \subseteq Collected
  PROVE  IsNormal(LabelPlan(case))
<1>1. PICK plan : plan = LabelPlan(case)
  OBVIOUS
<1>2. PICK repo, wishes : repo = (CHOOSE r \in case.repos : TRUE) /\ wishes = case.expected
  OBVIOUS
<1>3. repo \in Collected
  BY <1>2, Zenon
<1>4. plan = [repository |-> repo, wishes |-> wishes]
  BY <1>1, <1>2, Zenon DEF LabelPlan
<1>5. Normalized(plan) = plan
  BY <1>3, <1>4 DEF Normalized
<1> QED
  BY <1>1, <1>5, Zenon DEF IsNormal, FixedPlan

(* Whatever the extraction returned is normal, a failure included.         *)
LEMMA AskedIsNormal == ASSUME NEW plan \in AskedPlans PROVE IsNormal(plan)
<1>1. CASE plan = Null
  BY <1>1, Zenon DEF IsNormal, FixedPlan
<1>2. CASE plan # Null
  <2>1. PICK q \in Plans : plan = Normalized(q)
    BY <1>2, Zenon DEF AskedPlans
  <2>2. PICK repo, wishes :
          /\ repo = (IF q.repository \in Collected THEN q.repository ELSE Null)
          /\ wishes = q.wishes
    OBVIOUS
  <2>3. plan = [repository |-> repo, wishes |-> wishes]
    BY <2>1, <2>2, Zenon DEF Normalized
  <2>4. (IF repo \in Collected THEN repo ELSE Null) = repo
    BY <2>2
  <2>5. Normalized(plan) = plan
    BY <2>3, <2>4 DEF Normalized
  <2> QED
    BY <2>5, Zenon DEF IsNormal, FixedPlan
<1> QED
  BY <1>1, <1>2

LEMMA StartsEvaluating == ASSUME EvalInit PROVE EvalInv
<1>1. /\ goldenFile \in GoldenSets /\ indexed \subseteq Collected
      /\ epc = "idle" /\ run = NoRun /\ scores = <<>> /\ docs = <<>>
  BY Zenon DEF EvalInit
<1>2. Standing
  BY <1>1, NoRunFields, EmptyLists, Zenon DEF Standing, IsRun
<1>3. Answering /\ Planning
  BY <1>1 DEF Answering, Planning
<1>4. Scoring
  BY <1>1, EmptyLists, Zenon DEF Scoring
<1>5. Keeping
  BY <1>1, EmptyLists, Zenon DEF Keeping
<1>6. Filing /\ FixedRunsRepeat
  BY <1>1, EmptyLists, Zenon DEF Filing, FixedRunsRepeat
<1> QED
  BY <1>2, <1>3, <1>4, <1>5, <1>6, Zenon DEF EvalInv

(* The command gives up or has written its result.                         *)
LEMMA EndsWell ==
  ASSUME epc' = "idle", run' = NoRun, scores' = <<>>,
         goldenFile \in GoldenSets, indexed \subseteq Collected,
         UNCHANGED <<goldenFile, indexed>>, docs' \in Seq(ToSet(docs'))
  PROVE  Standing' /\ Answering' /\ Scoring' /\ Planning' /\ Keeping'
<1>1. Standing'
  BY NoRunFields, EmptyLists, Zenon DEF Standing, IsRun
<1>2. Answering' /\ Planning'
  BY DEF Answering, Planning
<1>3. Scoring'
  BY EmptyLists, Zenon DEF Scoring
<1>4. Keeping'
  BY EmptyLists, Zenon DEF Keeping
<1> QED
  BY <1>1, <1>2, <1>3, <1>4

LEMMA AbortKeeps == ASSUME EvalInv, Abort PROVE EvalInv'
<1>1. /\ epc' = "idle" /\ run' = NoRun /\ scores' = <<>>
      /\ UNCHANGED <<goldenFile, indexed>> /\ docs' = docs
  BY Zenon DEF Abort
<1>2. /\ goldenFile \in GoldenSets /\ indexed \subseteq Collected
      /\ docs \in Seq(ToSet(docs)) /\ Filing /\ FixedRunsRepeat
  BY Zenon DEF EvalInv, Standing
<1>3. docs' \in Seq(ToSet(docs'))
  BY <1>1, <1>2, Zenon
<1>4. Standing' /\ Answering' /\ Scoring' /\ Planning' /\ Keeping'
  BY <1>1, <1>2, <1>3, EndsWell
<1>5. Filing' /\ FixedRunsRepeat'
  BY <1>1, <1>2, DocsStay
<1> QED
  BY <1>4, <1>5, Zenon DEF EvalInv

(* A run begins with no plans yet; its cases are of indexed repositories.  *)
LEMMA BeginKeeps ==
  ASSUME EvalInv, NEW mode, NEW filter, NEW source, BeginRun(mode, filter, source)
  PROVE  EvalInv'
<1>1. PICK golden, measured, skipped, none :
        /\ golden = goldenFile /\ measured = EvalCases(filter).measured
        /\ skipped = EvalCases(filter).skipped /\ none = [id \in {} |-> Null]
  OBVIOUS
<1>2. /\ mode = "fixed-plans" => source \in DOMAIN docs
      /\ epc' = IF HasFixedPlans(mode) THEN "plans" ELSE "case"
      /\ scores' = <<>>
      /\ goldenFile' = goldenFile /\ indexed' = indexed /\ docs' = docs
  BY Zenon DEF BeginRun
<1>3. PICK s : s = run'
  OBVIOUS
<1>4. s = [mode |-> mode, golden |-> golden, checked |-> Null, todo |-> measured,
           skipped |-> skipped, plans |-> none, source |-> source, found |-> {}, real |-> Null]
  <2>1. run' = [NoRun EXCEPT !.mode = mode, !.golden = goldenFile,
                             !.todo = EvalCases(filter).measured,
                             !.skipped = EvalCases(filter).skipped, !.source = source]
    BY Zenon DEF BeginRun
  <2>2. s = [NoRun EXCEPT !.mode = mode, !.golden = golden, !.todo = measured,
                          !.skipped = skipped, !.source = source]
    BY <1>1, <1>3, <2>1, Zenon
  <2>3. NoRun = [mode |-> "none", golden |-> <<>>, checked |-> Null, todo |-> {},
                 skipped |-> {}, plans |-> none, source |-> 0, found |-> {}, real |-> Null]
    BY <1>1, Zenon DEF NoRun
  <2> QED
    BY <2>2, <2>3
<1>5. /\ IsRun(s) /\ s.todo = measured /\ s.mode = mode /\ s.golden = golden
      /\ s.source = source
  BY <1>4 DEF IsRun
<1>6. /\ golden \in GoldenSets /\ indexed \subseteq Collected
      /\ docs \in Seq(ToSet(docs)) /\ Filing /\ FixedRunsRepeat
  BY <1>1, Zenon DEF EvalInv, Standing
<1>7. measured \subseteq DOMAIN golden /\ \A i \in measured : golden[i].repos \subseteq Collected
  <2>1. measured \subseteq DOMAIN golden /\ \A i \in measured : golden[i].repos \subseteq indexed
    BY <1>1, Zenon DEF EvalCases, IsIndexed
  <2> QED
    BY <1>6, <2>1, Zenon
<1>8. epc' \in {"plans", "case"}
  BY <1>2, Zenon
<1>9. Standing'
  BY <1>1, <1>2, <1>3, <1>5, <1>6, <1>7, <1>8, EmptyLists, Zenon DEF Standing, IsRun
<1>10. Answering'
  BY <1>8 DEF Answering
<1>11. Scoring'
  BY <1>2, EmptyLists, Zenon DEF Scoring
<1>12. Keeping'
  BY <1>2, EmptyLists, Zenon DEF Keeping
<1>13. Planning'
  <2>1. epc' # "plans" => ~HasFixedPlans(mode)
    BY <1>2, Zenon
  <2>2. mode = "fixed-plans" \/ IsLabelled(mode) => HasFixedPlans(mode)
    BY DEF HasFixedPlans
  <2>3. run'.mode = mode /\ run'.source = source
    BY <1>3, <1>5, Zenon
  <2>4. HasFixedPlans(run'.mode) = HasFixedPlans(mode) /\ IsLabelled(run'.mode) = IsLabelled(mode)
    BY <2>3, Zenon
  <2> QED
    BY <1>2, <2>1, <2>2, <2>3, <2>4, Zenon DEF Planning
<1>14. Filing' /\ FixedRunsRepeat'
  BY <1>2, <1>6, DocsStay
<1> QED
  BY <1>9, <1>10, <1>11, <1>12, <1>13, <1>14, Zenon DEF EvalInv

FixesPlans(r, s, plans, checked) ==
  /\ IsRun(s) /\ s.plans = plans /\ s.checked = checked
  /\ s.mode = r.mode /\ s.golden = r.golden /\ s.todo = r.todo /\ s.source = r.source

LEMMA FixedRun ==
  ASSUME NEW r, IsRun(r), NEW plans, NEW checked,
         NEW s, s = [r EXCEPT !.plans = plans, !.checked = checked]
  PROVE  FixesPlans(r, s, plans, checked)
<1>1. PICK m, g, h, t, k, p, o, f, e :
        r = [mode |-> m, golden |-> g, checked |-> h, todo |-> t, skipped |-> k,
             plans |-> p, source |-> o, found |-> f, real |-> e]
  BY Zenon DEF IsRun
<1>2. s = [mode |-> m, golden |-> g, checked |-> checked, todo |-> t, skipped |-> k,
           plans |-> plans, source |-> o, found |-> f, real |-> e]
  BY <1>1
<1> QED
  BY <1>1, <1>2 DEF FixesPlans, IsRun

LEMMA LabelledRun ==
  ASSUME NEW r, IsRun(r), NEW plans, NEW s, s = [r EXCEPT !.plans = plans]
  PROVE  FixesPlans(r, s, plans, r.checked)
<1>1. PICK m, g, h, t, k, p, o, f, e :
        r = [mode |-> m, golden |-> g, checked |-> h, todo |-> t, skipped |-> k,
             plans |-> p, source |-> o, found |-> f, real |-> e]
  BY Zenon DEF IsRun
<1>2. s = [mode |-> m, golden |-> g, checked |-> h, todo |-> t, skipped |-> k,
           plans |-> plans, source |-> o, found |-> f, real |-> e]
  BY <1>1
<1> QED
  BY <1>1, <1>2 DEF FixesPlans, IsRun

(* The plans of a result that fits are normal.                             *)
LEMMA LoadedPlans ==
  ASSUME Filing, NEW source \in DOMAIN docs, NEW ids, LoadsFixedPlans(source, ids),
         NEW plans, plans = [id \in ids |-> docs[source].plans[id]]
  PROVE  /\ DOMAIN plans = ids /\ docs[source].hash = goldenFile
         /\ \A id \in ids : plans[id] = docs[source].plans[id] /\ IsNormal(plans[id])
<1>1. /\ docs[source].mode = "full" /\ docs[source].hash = goldenFile
      /\ ids \subseteq DOMAIN docs[source].plans
  BY Zenon DEF LoadsFixedPlans
<1>2. DOMAIN plans = ids /\ \A id \in ids : plans[id] = docs[source].plans[id]
  BY Zenon
<1>3. \A id \in ids : IsNormal(docs[source].plans[id])
  BY <1>1, Zenon DEF Filing
<1> QED
  BY <1>1, <1>2, <1>3, Zenon

(* The plans of labels are those of the cases, and normal.                 *)
AreLabels(plans, golden, ids) ==
  /\ DOMAIN plans = ids
  /\ \A c \in ToSet(golden) : c.id \in ids => plans[c.id] = LabelPlan(c)
  /\ \A id \in ids : IsNormal(plans[id])

LEMMA LabelledPlans ==
  ASSUME NEW golden \in GoldenSets, NEW measured, measured \subseteq DOMAIN golden,
         \A i \in measured : golden[i].repos \subseteq Collected,
         NEW ids, ids = {golden[i].id : i \in measured}, NEW plans,
         plans = [id \in ids |-> LabelPlan(golden[CHOOSE i \in measured : golden[i].id = id])]
  PROVE  AreLabels(plans, golden, ids)
<1>1. DOMAIN plans = ids
  BY Zenon
<1>2. ASSUME NEW id \in ids
      PROVE  \E i \in measured : golden[i].id = id /\ plans[id] = LabelPlan(golden[i])
  <2>1. \E i \in measured : golden[i].id = id
    BY Zenon
  <2>2. PICK i : i = CHOOSE j \in measured : golden[j].id = id
    OBVIOUS
  <2>3. i \in measured /\ golden[i].id = id
    BY <2>1, <2>2, Zenon
  <2>4. plans[id] = LabelPlan(golden[i])
    BY <2>2, Zenon
  <2> QED
    BY <2>3, <2>4, Zenon
<1>3. ASSUME NEW c \in ToSet(golden), c.id \in ids
      PROVE  plans[c.id] = LabelPlan(c)
  <2>1. PICK i \in measured : golden[i].id = c.id /\ plans[c.id] = LabelPlan(golden[i])
    BY <1>2, <1>3, Zenon
  <2>2. golden[i] \in ToSet(golden)
    BY GoldenCases, Zenon
  <2>3. golden[i] = c
    BY <2>1, <2>2, GoldenCases, Zenon
  <2> QED
    BY <2>1, <2>3, Zenon
<1>4. ASSUME NEW id \in ids PROVE IsNormal(plans[id])
  <2>1. PICK i \in measured : plans[id] = LabelPlan(golden[i])
    BY <1>2, Zenon
  <2>2. PICK c : c = golden[i]
    OBVIOUS
  <2>3. c \in ToSet(golden)
    BY <2>2, GoldenCases, Zenon
  <2>4. c.repos # {}
    BY <2>3, GoldenCases, Zenon
  <2>5. c.repos \subseteq Collected
    BY <2>2, Zenon
  <2>6. IsNormal(LabelPlan(c))
    BY <2>4, <2>5, LabelIsNormal
  <2> QED
    BY <2>1, <2>2, <2>6, Zenon
<1> QED
  BY <1>1, <1>3, <1>4, Zenon DEF AreLabels

(* Fixed plans come from a full run over what the file says now, whose     *)
(* plans are normal, or from labels of indexed repositories.               *)
LEMMA FixKeeps == ASSUME EvalInv, FixPlans PROVE EvalInv'
<1>1. PICK golden, measured, mode, source, r, s :
        /\ golden = run.golden /\ measured = run.todo /\ mode = run.mode
        /\ source = run.source /\ r = run /\ s = run'
  OBVIOUS
<1>2. PICK ids, file : ids = {golden[i].id : i \in measured} /\ file = goldenFile
  OBVIOUS
<1>3. /\ epc = "plans" /\ epc' = "case" /\ scores' = scores
      /\ goldenFile' = goldenFile /\ indexed' = indexed /\ docs' = docs
  BY Zenon DEF FixPlans
<1>4. /\ golden \in GoldenSets /\ measured \subseteq DOMAIN golden
      /\ \A i \in measured : golden[i].repos \subseteq Collected
      /\ IsRun(r) /\ scores = <<>>
      /\ goldenFile \in GoldenSets /\ indexed \subseteq Collected
      /\ docs \in Seq(ToSet(docs)) /\ Filing /\ FixedRunsRepeat
      /\ mode = "fixed-plans" => source \in DOMAIN docs
  BY <1>1, <1>3 DEF EvalInv, Standing, Planning, IsRun
<1> DEFINE labelOf(id) == LabelPlan(golden[CHOOSE i \in measured : golden[i].id = id])
<1>5. PICK labels : labels = [id \in ids |-> labelOf(id)]
  OBVIOUS
<1>6. PICK loaded : loaded = [id \in ids |-> docs[source].plans[id]]
  OBVIOUS
<1>7. \/ IsLabelled(mode) /\ s = [r EXCEPT !.plans = labels]
      \/ /\ mode = "fixed-plans" /\ LoadsFixedPlans(source, ids)
         /\ s = [r EXCEPT !.plans = loaded, !.checked = file]
  <2> DEFINE caseOf(id) == run.golden[CHOOSE i \in run.todo : run.golden[i].id = id]
  <2>1. \/ /\ IsLabelled(run.mode)
           /\ run' = [run EXCEPT !.plans =
                       [id \in {run.golden[i].id : i \in run.todo} |-> LabelPlan(caseOf(id))]]
        \/ /\ run.mode = "fixed-plans"
           /\ LoadsFixedPlans(run.source, {run.golden[i].id : i \in run.todo})
           /\ run' = [run EXCEPT
                !.plans = [id \in {run.golden[i].id : i \in run.todo} |-> docs[run.source].plans[id]],
                !.checked = goldenFile]
    BY Zenon DEF FixPlans
  <2>2. {run.golden[i].id : i \in run.todo} = ids
    BY <1>1, <1>2
  <2>3. \A id : LabelPlan(caseOf(id)) = labelOf(id)
    BY <1>1
  <2>4. [id \in ids |-> LabelPlan(caseOf(id))] = labels
    <3> HIDE DEF caseOf, labelOf
    <3> QED
      BY <1>5, <2>3, Zenon
  <2>5. [id \in ids |-> docs[run.source].plans[id]] = loaded
    BY <1>1, <1>6, Zenon
  <2> HIDE DEF caseOf
  <2> QED
    BY <1>1, <1>2, <2>1, <2>2, <2>4, <2>5, Zenon
<1>8. /\ IsRun(s) /\ s.mode = mode /\ s.golden = golden /\ s.todo = measured
      /\ s.source = source
      /\ DOMAIN s.plans = ids /\ \A id \in ids : IsNormal(s.plans[id])
      /\ mode = "fixed-plans" =>
           /\ docs[source].hash = s.checked
           /\ \A id \in ids : s.plans[id] = docs[source].plans[id]
      /\ IsLabelled(mode) =>
           \A c \in ToSet(golden) : c.id \in ids => s.plans[c.id] = LabelPlan(c)
  <2>1. CASE IsLabelled(mode) /\ s = [r EXCEPT !.plans = labels]
    <3>1. FixesPlans(r, s, labels, r.checked)
      <4>1. IsRun(r) /\ s = [r EXCEPT !.plans = labels]
        BY <1>4, <2>1, Zenon
      <4> QED
        BY <4>1, LabelledRun
    <3>2. AreLabels(labels, golden, ids)
      <4>1. /\ golden \in GoldenSets /\ measured \subseteq DOMAIN golden
            /\ \A i \in measured : golden[i].repos \subseteq Collected
        BY <1>4, Zenon
      <4> QED
        BY <1>2, <1>5, <4>1, LabelledPlans
    <3>3. mode # "fixed-plans"
      BY <2>1 DEF IsLabelled
    <3> QED
      BY <1>1, <3>1, <3>2, <3>3, Zenon DEF FixesPlans, AreLabels
  <2>2. CASE /\ mode = "fixed-plans" /\ LoadsFixedPlans(source, ids)
             /\ s = [r EXCEPT !.plans = loaded, !.checked = file]
    <3>1. FixesPlans(r, s, loaded, file)
      <4>1. IsRun(r) /\ s = [r EXCEPT !.plans = loaded, !.checked = file]
        BY <1>4, <2>2, Zenon
      <4> QED
        BY <4>1, FixedRun
    <3>2. source \in DOMAIN docs
      BY <1>4, <2>2
    <3>3. /\ DOMAIN loaded = ids /\ docs[source].hash = goldenFile
          /\ \A id \in ids : loaded[id] = docs[source].plans[id] /\ IsNormal(loaded[id])
      BY <1>4, <1>6, <2>2, <3>2, LoadedPlans
    <3>4. ~IsLabelled(mode)
      BY <2>2 DEF IsLabelled
    <3> QED
      BY <1>1, <1>2, <2>2, <3>1, <3>3, <3>4, Zenon DEF FixesPlans
  <2> QED
    BY <1>7, <2>1, <2>2
<1>9. Standing'
  BY <1>1, <1>3, <1>4, <1>8, EmptyLists, Zenon DEF Standing, IsRun
<1>10. Answering'
  BY <1>3 DEF Answering
<1>11. Scoring'
  BY <1>3, <1>4, EmptyLists, Zenon DEF Scoring
<1>12. Keeping'
  BY <1>3, <1>4, EmptyLists, Zenon DEF Keeping
<1>13. Planning'
  <2>1. /\ run'.mode = mode /\ run'.golden = golden /\ run'.todo = measured
        /\ run'.source = source /\ run'.plans = s.plans /\ run'.checked = s.checked
    BY <1>1, <1>8, Zenon
  <2>2. \A i \in run'.todo : run'.golden[i].id \in DOMAIN run'.plans
    BY <1>2, <1>8, <2>1, Zenon
  <2>3. \A id \in DOMAIN run'.plans : IsNormal(run'.plans[id])
    BY <1>8, <2>1, Zenon
  <2>4. run'.mode = "fixed-plans" =>
          /\ run'.source \in DOMAIN docs'
          /\ docs'[run'.source].hash = run'.checked
          /\ \A id \in DOMAIN run'.plans : run'.plans[id] = docs'[run'.source].plans[id]
    BY <1>3, <1>4, <1>8, <2>1, Zenon
  <2>5. IsLabelled(run'.mode) =>
          \A c \in ToSet(run'.golden) :
            c.id \in DOMAIN run'.plans => run'.plans[c.id] = LabelPlan(c)
    BY <1>8, <2>1, Zenon
  <2> QED
    BY <2>2, <2>3, <2>4, <2>5, Zenon
       DEF Planning, HasFixedPlans, IsLabelled, IsNormal, FixedPlan, Normalized, LabelPlan
<1>14. Filing' /\ FixedRunsRepeat'
  BY <1>3, <1>4, DocsStay
<1> QED
  BY <1>9, <1>10, <1>11, <1>12, <1>13, <1>14, Zenon DEF EvalInv

(* A run that stands still while file and database may change.             *)
LEMMA RunStands ==
  ASSUME EvalInv, epc' = epc, run' = run, answer' = answer, scores' = scores, docs' = docs,
         goldenFile' \in GoldenSets, indexed' \subseteq Collected
  PROVE  EvalInv'
<1>1. Standing'
  BY Zenon DEF EvalInv, Standing
<1>2. Answering'
  <2>1. Case' = Case
    BY Zenon DEF Case
  <2>2. PlansOf(Case)' = PlansOf(Case)
    BY <2>1, Zenon
       DEF PlansOf, HasFixedPlans, IsLabelled, CallsPlan, FixedPlan, AskedPlans, Normalized
  <2> QED
    BY <2>2, Zenon DEF EvalInv, Answering, IsOffered, Images
<1>3. Scoring'
  BY Zenon DEF EvalInv, Scoring, IsSound
<1>4. Planning'
  BY Zenon DEF EvalInv, Planning, HasFixedPlans, IsLabelled, IsNormal, FixedPlan,
                     Normalized, LabelPlan
<1>5. Keeping'
  BY Zenon DEF EvalInv, Keeping, HasFixedPlans, IsLabelled, IsNormal, FixedPlan, Normalized
<1>6. Filing' /\ FixedRunsRepeat'
  BY DocsStay, Zenon DEF EvalInv
<1> QED
  BY <1>1, <1>2, <1>3, <1>4, <1>5, <1>6, Zenon DEF EvalInv

(* What happens in the file and in the database is no business of a run.   *)
LEMMA WorldKeeps == ASSUME EvalInv, World PROVE EvalInv'
<1>1. epc' = epc /\ run' = run /\ answer' = answer /\ scores' = scores /\ docs' = docs
  BY Zenon DEF World
<1>2. goldenFile \in GoldenSets /\ indexed \subseteq Collected
  BY Zenon DEF EvalInv, Standing
<1>3. goldenFile' \in GoldenSets
  BY <1>2, Zenon DEF World
<1>4. indexed' = indexed \/ \E repo \in Collected : indexed' = indexed \union {repo}
  BY Zenon DEF World
<1>5. indexed' \subseteq Collected
  BY <1>2, <1>4
<1> QED
  BY <1>1, <1>3, <1>5, RunStands

(* The search of the question leaves the run as it was.                    *)
LEMMA SearchKeeps == ASSUME EvalInv, SearchChunks PROVE EvalInv'
<1>1. /\ epc = "case" /\ run.todo # {} /\ run.mode # "plan-only" /\ epc' = "ask"
      /\ goldenFile' = goldenFile /\ indexed' = indexed /\ docs' = docs /\ scores' = scores
      /\ \E found : run' = [run EXCEPT !.found = found, !.real = Null]
  BY Zenon DEF SearchChunks
<1>2. Standing /\ Planning /\ Keeping /\ Scoring /\ Filing /\ FixedRunsRepeat
  BY Zenon DEF EvalInv
<1>3. SameRun(run, run')
  <2>1. PICK found : run' = [run EXCEPT !.found = found, !.real = Null]
    BY <1>1, Zenon
  <2>2. IsRun(run)
    BY <1>2, Zenon DEF Standing, IsRun
  <2>3. PICK r, s : r = run /\ s = run'
    OBVIOUS
  <2>4. IsRun(r) /\ s = [r EXCEPT !.found = found, !.real = Null]
    BY <2>1, <2>2, <2>3, Zenon
  <2>5. SameRun(r, s)
    BY <2>4, FoundKeepsRun
  <2> QED
    BY <2>3, <2>5, Zenon
<1>4. Planning' /\ Keeping' /\ Scoring'
  BY <1>1, <1>2, <1>3, PlansStay
<1>5. Standing'
  BY <1>1, <1>2, <1>3, Zenon DEF Standing, SameRun, IsRun
<1>6. Answering'
  BY <1>1 DEF Answering
<1>7. Filing' /\ FixedRunsRepeat'
  BY <1>1, <1>2, DocsStay
<1> QED
  BY <1>4, <1>5, <1>6, <1>7, Zenon DEF EvalInv

(* What the recommendation path may return belongs to the case.            *)
LEMMA ListIsOffered ==
  ASSUME NEW list \in Candidates
  PROVE  list \in Seq(ToSet(list)) /\ \A c \in ToSet(list) : c.image \in Stock
<1>1. PICK some \in UNION {[1..n -> Rows] : n \in 0..MaxCandidates} :
        list = [i \in DOMAIN some |-> [image |-> some[i], digest |-> digest[some[i]]]]
  BY Zenon DEF Candidates
<1>2. PICK n \in 0..MaxCandidates : some \in [1..n -> Rows]
  BY <1>1, Zenon
<1>3. n \in Nat /\ DOMAIN some = 1..n /\ \A i \in 1..n : some[i] \in Stock
  <2>1. n \in Nat
    BY <1>2
  <2>2. Rows \subseteq Stock
    BY Zenon DEF Rows
  <2> QED
    BY <1>2, <2>1, <2>2, Zenon
<1>4. /\ list = [i \in 1..n |-> list[i]] /\ DOMAIN list = 1..n
      /\ \A i \in 1..n : list[i].image \in Stock
  BY <1>1, <1>3
<1>5. ToSet(list) = {list[i] : i \in 1..n}
  BY <1>4, Zenon DEF ToSet
<1>6. \A i \in 1..n : list[i] \in ToSet(list)
  BY <1>5, Zenon
<1>7. list \in Seq(ToSet(list))
  BY <1>3, <1>4, <1>6
<1>8. \A c \in ToSet(list) : c.image \in Stock
  BY <1>4, <1>5, Zenon
<1> QED
  BY <1>7, <1>8

LEMMA AnswerIsOffered ==
  ASSUME NEW case, NEW response \in Answers(case), IsAnswer(response)
  PROVE  IsOffered(response) /\ response.heard /\ response.plan \in PlansOf(case)
<1>1. PICK plan \in PlansOf(case), list \in Candidates, image \in Stock \union {Null},
          cited \in Citings \union {<<>>} :
        response = [plan |-> plan, candidates |-> list, image |-> image, citations |-> cited,
                    heard |-> TRUE]
  BY DEF Answers
<1>2. /\ response.plan = plan /\ response.candidates = list /\ response.image = image
      /\ response.heard = TRUE
  BY <1>1
<1>3. response = [plan |-> response.plan, candidates |-> response.candidates,
                  image |-> response.image, citations |-> response.citations,
                  heard |-> response.heard]
  BY <1>1, <1>2
<1>4. list \in Seq(ToSet(list)) /\ \A c \in ToSet(list) : c.image \in Stock
  BY ListIsOffered
<1>5. response.image # Null => response.image \in Images(response.candidates)
  BY Zenon DEF IsAnswer
<1>6. IsOffered(response)
  BY <1>2, <1>3, <1>4, <1>5, Zenon DEF IsOffered
<1> QED
  BY <1>2, <1>6

(* The question is asked; the path may fail in its own embedding.          *)
LEMMA AskKeeps == ASSUME EvalInv, Ask PROVE EvalInv'
<1>1. /\ epc = "ask" /\ epc' \in {"exists", "score"}
      /\ goldenFile' = goldenFile /\ indexed' = indexed /\ docs' = docs /\ scores' = scores
      /\ run' = run
      /\ answer' = Silence \/ answer' \in {response \in Answers(Case) : IsAnswer(response)}
  BY Zenon DEF Ask
<1>2. Standing /\ Planning /\ Keeping /\ Scoring /\ Filing /\ FixedRunsRepeat
  BY Zenon DEF EvalInv
<1>3. SameRun(run, run')
  BY <1>1, <1>2, Zenon DEF Standing, SameRun, IsRun
<1>4. Planning' /\ Keeping' /\ Scoring' /\ PlansOf(Case)' = PlansOf(Case)
  BY <1>1, <1>2, <1>3, PlansStay
<1>5. Standing'
  BY <1>1, <1>2, Zenon DEF Standing
<1>6. Answering'
  <2>1. PICK response : response = answer'
    OBVIOUS
  <2>2. CASE response = Silence
    <3>1. IsOffered(response) /\ response.plan = Null /\ response.heard = FALSE
      BY <2>2, EmptyLists, Zenon
    <3>2. IsOffered(answer)' /\ answer'.plan = Null /\ answer'.heard = FALSE
      BY <2>1, <3>1, Zenon DEF IsOffered, Images
    <3> QED
      BY <3>2, Zenon DEF Answering
  <2>3. CASE response \in Answers(Case) /\ IsAnswer(response)
    <3>1. IsOffered(response) /\ response.heard /\ response.plan \in PlansOf(Case)
      BY <2>3, AnswerIsOffered
    <3>2. IsOffered(answer)' /\ answer'.heard /\ answer'.plan \in PlansOf(Case)'
      BY <1>4, <2>1, <3>1, Zenon DEF IsOffered, Images
    <3> QED
      BY <3>2, Zenon DEF Answering
  <2> QED
    BY <1>1, <2>1, <2>2, <2>3, Zenon
<1>7. Filing' /\ FixedRunsRepeat'
  BY <1>1, <1>2, DocsStay
<1> QED
  BY <1>4, <1>5, <1>6, <1>7, Zenon DEF EvalInv

(* The database is asked for the recommended image.                        *)
LEMMA ExistsKeeps == ASSUME EvalInv, ImageExists PROVE EvalInv'
<1>1. /\ epc = "exists" /\ epc' = "score"
      /\ goldenFile' = goldenFile /\ indexed' = indexed /\ docs' = docs /\ scores' = scores
      /\ answer' = answer
      /\ run' = [run EXCEPT !.real = answer.image \in Rows]
  BY Zenon DEF ImageExists
<1>2. Standing /\ Answering /\ Planning /\ Keeping /\ Scoring /\ Filing /\ FixedRunsRepeat
  BY Zenon DEF EvalInv
<1>3. SameRun(run, run')
  <2>1. PICK r, s, real : r = run /\ s = run' /\ real = (answer.image \in Rows)
    OBVIOUS
  <2>2. IsRun(r) /\ s = [r EXCEPT !.real = real]
    BY <1>1, <1>2, <2>1, Zenon DEF Standing, IsRun
  <2>3. SameRun(r, s)
    BY <2>2, RealKeepsRun
  <2> QED
    BY <2>1, <2>3, Zenon
<1>4. Planning' /\ Keeping' /\ Scoring' /\ PlansOf(Case)' = PlansOf(Case)
  BY <1>1, <1>2, <1>3, PlansStay
<1>5. Standing'
  BY <1>1, <1>2, <1>3, Zenon DEF Standing, SameRun, IsRun
<1>6. Answering'
  BY <1>1, <1>2, <1>4, Zenon DEF Answering, IsOffered, Images
<1>7. Filing' /\ FixedRunsRepeat'
  BY <1>1, <1>2, DocsStay
<1> QED
  BY <1>4, <1>5, <1>6, <1>7, Zenon DEF EvalInv

(* What the score of a case says of its plan.                              *)
KeepsPlan(s) ==
  /\ HasFixedPlans(run.mode) =>
       s.id \in DOMAIN run.plans /\ (s.heard => s.plan = run.plans[s.id])
  /\ run.mode = "full" => IsNormal(s.plan)

(* A scored case is added and the next one is due.                         *)
LEMMA NextCaseKeeps ==
  ASSUME EvalInv, epc \notin {"idle", "plans"}, run.todo # {}, NEW s, NextCase(s), KeepsPlan(s),
         run.mode \notin {"retrieval-only", "plan-only"} => IsSound(s)
  PROVE  EvalInv'
<1>1. /\ scores' = Append(scores, s) /\ epc' = "case"
      /\ goldenFile' = goldenFile /\ indexed' = indexed /\ docs' = docs
      /\ run' = [run EXCEPT !.todo = run.todo \ {Min(run.todo)}, !.found = {}, !.real = Null]
  BY Zenon DEF NextCase
<1>2. Standing /\ Planning /\ Keeping /\ Scoring /\ Filing /\ FixedRunsRepeat
  BY Zenon DEF EvalInv
<1>3. Follows(run, run') /\ run'.todo \subseteq run.todo
  <2>1. PICK r, t, todo : r = run /\ t = run' /\ todo = run.todo \ {Min(run.todo)}
    OBVIOUS
  <2>2. IsRun(r) /\ t = [r EXCEPT !.todo = todo, !.found = {}, !.real = Null]
    BY <1>1, <1>2, <2>1, Zenon DEF Standing, IsRun
  <2>3. Follows(r, t) /\ t.todo = todo
    BY <2>2, NextRun
  <2> QED
    BY <2>1, <2>3, Zenon
<1>4. /\ run'.mode = run.mode /\ run'.golden = run.golden
      /\ run'.plans = run.plans /\ run'.source = run.source /\ run'.checked = run.checked
      /\ IsRun(run')
  BY <1>3, Zenon DEF Follows
<1>5. scores \in Seq(ToSet(scores))
  BY <1>2, Zenon DEF Standing
<1>6. /\ scores' \in Seq(ToSet(scores'))
      /\ DOMAIN scores = 1..Len(scores) /\ Len(scores) \in Nat
      /\ DOMAIN scores' = 1..(Len(scores) + 1)
      /\ \A i \in 1..Len(scores) : scores'[i] = scores[i]
      /\ scores'[Len(scores) + 1] = s
      /\ ToSet(scores') = ToSet(scores) \union {s}
  <2>1. PICK old, new : old = scores /\ new = Append(scores, s)
    OBVIOUS
  <2>2. /\ new \in Seq(ToSet(new)) /\ DOMAIN old = 1..Len(old) /\ Len(old) \in Nat
        /\ DOMAIN new = 1..(Len(old) + 1)
    BY <1>5, <2>1, OneMore
  <2>3. /\ \A i \in 1..Len(old) : new[i] = old[i]
        /\ new[Len(old) + 1] = s
    BY <1>5, <2>1, OneMore
  <2>4. ToSet(new) = ToSet(old) \union {s}
    BY <1>5, <2>1, OneMore
  <2> QED
    BY <1>1, <2>1, <2>2, <2>3, <2>4, Zenon
<1>7. Standing'
  BY <1>1, <1>2, <1>3, <1>4, <1>6, Zenon DEF Standing, IsRun
<1>8. Answering'
  BY <1>1 DEF Answering
<1>9. Scoring'
  <2>1. SUFFICES ASSUME run'.mode \notin {"retrieval-only", "plan-only"}, NEW i \in DOMAIN scores'
                 PROVE  IsSound(scores'[i])
    BY Zenon DEF Scoring, IsSound
  <2>2. i \in 1..Len(scores) \/ i = Len(scores) + 1
    BY <1>6, <2>1
  <2>3. i \in 1..Len(scores) => IsSound(scores[i])
    BY <1>2, <1>4, <1>6, <2>1, Zenon DEF Scoring
  <2>4. IsSound(s)
    BY <1>4, <2>1, Zenon
  <2> QED
    BY <1>6, <2>2, <2>3, <2>4, Zenon
<1>10. Planning'
  <2>1. HasFixedPlans(run'.mode) => \A i \in run'.todo : run'.golden[i].id \in DOMAIN run'.plans
    BY <1>2, <1>3, <1>4, Zenon DEF Planning
  <2>2. HasFixedPlans(run'.mode) => \A id \in DOMAIN run'.plans : IsNormal(run'.plans[id])
    BY <1>2, <1>4, Zenon DEF Planning
  <2>3. run'.mode = "fixed-plans" =>
          /\ run'.source \in DOMAIN docs'
          /\ docs'[run'.source].hash = run'.checked
          /\ \A id \in DOMAIN run'.plans : run'.plans[id] = docs'[run'.source].plans[id]
    BY <1>1, <1>2, <1>4, Zenon DEF Planning
  <2>4. IsLabelled(run'.mode) =>
          \A c \in ToSet(run'.golden) :
            c.id \in DOMAIN run'.plans => run'.plans[c.id] = LabelPlan(c)
    BY <1>2, <1>4, Zenon DEF Planning
  <2> QED
    BY <2>1, <2>2, <2>3, <2>4, Zenon
       DEF Planning, HasFixedPlans, IsLabelled, IsNormal, FixedPlan, Normalized, LabelPlan
<1>11. Keeping'
  <2>1. SUFFICES ASSUME NEW t \in ToSet(scores') PROVE KeepsPlan(t)
    BY <1>4, Zenon DEF Keeping, KeepsPlan, HasFixedPlans, IsLabelled, IsNormal, FixedPlan, Normalized
  <2>2. t \in ToSet(scores) \/ t = s
    BY <1>6, Zenon
  <2>3. t \in ToSet(scores) => KeepsPlan(t)
    BY <1>2, Zenon DEF Keeping, KeepsPlan
  <2> QED
    BY <2>2, <2>3, Zenon
<1>12. Filing' /\ FixedRunsRepeat'
  BY <1>1, <1>2, DocsStay
<1> QED
  BY <1>7, <1>8, <1>9, <1>10, <1>11, <1>12, Zenon DEF EvalInv

(* The case that is due has a plan when plans are fixed, and it is taken   *)
(* as it is.                                                               *)
LEMMA DuePlan ==
  ASSUME EvalInv, epc \notin {"idle", "plans"}, run.todo # {}
  PROVE  /\ HasFixedPlans(run.mode) =>
              Case.id \in DOMAIN run.plans /\ PlansOf(Case) = {run.plans[Case.id]}
         /\ run.mode = "full" => PlansOf(Case) = AskedPlans
<1>1. Min(run.todo) \in run.todo
  BY CaseIsGolden, Zenon DEF EvalInv
<1>2. HasFixedPlans(run.mode) => Case.id \in DOMAIN run.plans
  BY <1>1, Zenon DEF EvalInv, Planning, Case
<1>3. HasFixedPlans(run.mode) => IsNormal(run.plans[Case.id])
  BY <1>2, Zenon DEF EvalInv, Planning
<1>4. HasFixedPlans(run.mode) => PlansOf(Case) = {run.plans[Case.id]}
  BY <1>3, Zenon DEF PlansOf, IsNormal
<1>5. run.mode = "full" => CallsPlan(run.mode) /\ ~HasFixedPlans(run.mode)
  BY DEF CallsPlan, HasFixedPlans, IsLabelled
<1>6. run.mode = "full" => PlansOf(Case) = AskedPlans
  BY <1>5, Zenon DEF PlansOf
<1> QED
  BY <1>2, <1>4, <1>6

LEMMA ScoreKeeps == ASSUME EvalInv, ScoreCase PROVE EvalInv'
<1>1. epc = "score" /\ NextCase(Scored(answer))
  BY Zenon DEF ScoreCase
<1>2. /\ run.todo # {} /\ run.mode # "plan-only" /\ Standing
      /\ IsOffered(answer)
      /\ IF answer.heard THEN answer.plan \in PlansOf(Case) ELSE answer.plan = Null
  BY <1>1, Zenon DEF EvalInv, Standing, Answering
<1>3. epc \notin {"idle", "plans"}
  BY <1>1
<1>4. PICK s : s = Scored(answer)
  OBVIOUS
<1>5. PICK id, heard, plan : id = Case.id /\ heard = answer.heard /\ plan = answer.plan
  OBVIOUS
<1>6. /\ s.id = id /\ s.heard = heard
      /\ run.mode # "retrieval-only" => s.plan = plan
  <2>1. PICK retrieval, extraction, full :
          /\ retrieval = ScoreRetrieval(Case, answer.candidates, run.found, AcceptedDigests(Case))
          /\ extraction = ScorePlan(Case, answer.plan)
          /\ full = ScoreFull(Case, answer, run.real, AcceptedDigests(Case))
    OBVIOUS
  <2>2. CASE run.mode = "retrieval-only"
    <3>1. s = [id |-> id, heard |-> heard, plan |-> Null, retrieval |-> retrieval]
      BY <1>4, <1>5, <2>1, <2>2, Zenon DEF Scored
    <3> QED
      BY <2>2, <3>1
  <2>3. CASE run.mode # "retrieval-only"
    <3>1. s = [id |-> id, heard |-> heard, plan |-> plan,
               retrieval |-> retrieval, extraction |-> extraction, full |-> full]
      BY <1>4, <1>5, <2>1, <2>3, Zenon DEF Scored
    <3> QED
      BY <3>1
  <2> QED
    BY <2>2, <2>3
<1>7. /\ HasFixedPlans(run.mode) =>
           id \in DOMAIN run.plans /\ PlansOf(Case) = {run.plans[id]}
      /\ run.mode = "full" => PlansOf(Case) = AskedPlans
  BY <1>2, <1>3, <1>5, DuePlan, Zenon
<1>8. HasFixedPlans(run.mode) => run.mode # "retrieval-only"
  BY DEF HasFixedPlans, IsLabelled
<1>9. HasFixedPlans(run.mode) /\ heard => plan = run.plans[id]
  BY <1>2, <1>5, <1>7, Zenon
<1>10. run.mode = "full" => IsNormal(plan)
  <2>1. run.mode = "full" => plan \in AskedPlans
    BY <1>2, <1>5, <1>7, Zenon DEF AskedPlans
  <2> QED
    BY <2>1, AskedIsNormal
<1>11. KeepsPlan(s)
  <2>1. run.mode = "full" => run.mode # "retrieval-only"
    OBVIOUS
  <2> QED
    BY <1>6, <1>7, <1>8, <1>9, <1>10, <2>1, Zenon DEF KeepsPlan
<1>12. run.mode \notin {"retrieval-only", "plan-only"} => IsSound(s)
  <2>1. run.mode # "retrieval-only" => IsSound(Scored(answer))
    BY <1>1, <1>2, ScoreIsSound
  <2> QED
    BY <1>4, <2>1
<1>13. NextCase(s)
  BY <1>1, <1>4, Zenon
<1> QED
  BY <1>2, <1>3, <1>11, <1>12, <1>13, NextCaseKeeps

(* An extraction alone.                                                    *)
LEMMA ScorePlanKeeps == ASSUME EvalInv, ScorePlanCase PROVE EvalInv'
<1>1. /\ epc \notin {"idle", "plans"} /\ run.todo # {} /\ run.mode = "plan-only"
      /\ \E plan : NextCase([id |-> Case.id, heard |-> TRUE, plan |-> plan,
                             extraction |-> ScorePlan(Case, plan)])
  BY Zenon DEF ScorePlanCase
<1>2. PICK plan : NextCase([id |-> Case.id, heard |-> TRUE, plan |-> plan,
                            extraction |-> ScorePlan(Case, plan)])
  BY <1>1
<1>3. PICK s, id, extraction :
        /\ id = Case.id /\ extraction = ScorePlan(Case, plan)
        /\ s = [id |-> id, heard |-> TRUE, plan |-> plan, extraction |-> extraction]
  OBVIOUS
<1>4. NextCase(s)
  BY <1>2, <1>3, Zenon
<1>6. ~HasFixedPlans(run.mode) /\ run.mode # "full" /\ run.mode \in {"retrieval-only", "plan-only"}
  BY <1>1 DEF HasFixedPlans, IsLabelled
<1>7. KeepsPlan(s)
  BY <1>6, Zenon DEF KeepsPlan
<1> QED
  BY <1>1, <1>4, <1>6, <1>7, NextCaseKeeps

(* The file of a run names, for every score, the plan of a score of that   *)
(* case, and a case is unheard when one of its scores is.                  *)
LEMMA ResultOfRun ==
  ASSUME NEW doc, doc = ResultDocument
  PROVE  /\ doc.mode = run.mode /\ doc.source = run.source /\ doc.golden = run.golden
         /\ doc.checked = run.checked
         /\ \A id \in DOMAIN doc.plans :
              \E s \in ToSet(scores) :
                s.id = id /\ doc.plans[id] = s.plan /\ (id \notin doc.unheard => s.heard)
<1>1. PICK plans, unheard, hash :
        /\ plans = [id \in {s.id : s \in ToSet(scores)} |->
                      (CHOOSE s \in ToSet(scores) : s.id = id).plan]
        /\ unheard = {s.id : s \in {t \in ToSet(scores) : ~t.heard}}
        /\ hash = GoldenHash
  OBVIOUS
<1>2. PICK mode, source, golden, checked, skipped :
        /\ mode = run.mode /\ source = run.source /\ golden = run.golden
        /\ checked = run.checked /\ skipped = run.skipped
  OBVIOUS
<1>3. doc = [mode |-> mode, hash |-> hash, source |-> source, plans |-> plans,
             unheard |-> unheard, skipped |-> skipped, golden |-> golden, checked |-> checked]
  BY <1>1, <1>2, Zenon DEF ResultDocument
<1>4. /\ doc.mode = mode /\ doc.source = source /\ doc.golden = golden /\ doc.checked = checked
      /\ doc.plans = plans /\ doc.unheard = unheard
  BY <1>3
<1>5. ASSUME NEW id \in DOMAIN plans
      PROVE  \E s \in ToSet(scores) :
               s.id = id /\ plans[id] = s.plan /\ (id \notin unheard => s.heard)
  <2>1. id \in {s.id : s \in ToSet(scores)}
    BY <1>1, Zenon
  <2>2. PICK s : s = CHOOSE t \in ToSet(scores) : t.id = id
    OBVIOUS
  <2>3. s \in ToSet(scores) /\ s.id = id
    BY <2>1, <2>2, Zenon
  <2>4. plans[id] = s.plan
    BY <1>1, <2>1, <2>2, Zenon
  <2>5. ~s.heard => id \in unheard
    BY <1>1, <2>3, Zenon
  <2> QED
    BY <2>3, <2>4, <2>5, Zenon
<1> QED
  BY <1>2, <1>4, <1>5, Zenon

(* One result file.                                                        *)
Repeats(doc, files) ==
  LET heard == DOMAIN doc.plans \ doc.unheard
  IN /\ doc.mode = "fixed-plans" =>
          /\ \A id \in heard : doc.plans[id] = files[doc.source].plans[id]
          /\ files[doc.source].hash = files[doc.source].golden /\ doc.checked = doc.golden
               => doc.golden = files[doc.source].golden
     /\ IsLabelled(doc.mode) =>
          \A c \in ToSet(doc.golden) : c.id \in heard => doc.plans[c.id] = LabelPlan(c)

LEMMA ReportKeeps == ASSUME EvalInv, Report PROVE EvalInv'
<1>1. /\ epc = "case" /\ epc' = "idle" /\ run' = NoRun /\ scores' = <<>>
      /\ UNCHANGED <<goldenFile, indexed>>
      /\ docs' = Append(docs, ResultDocument)
  BY Zenon DEF Report
<1>2. Standing /\ Planning /\ Keeping /\ Filing /\ FixedRunsRepeat
  BY Zenon DEF EvalInv
<1>3. /\ goldenFile \in GoldenSets /\ indexed \subseteq Collected
      /\ docs \in Seq(ToSet(docs)) /\ epc # "idle"
  BY <1>1, <1>2 DEF Standing
<1>4. PICK doc : doc = ResultDocument
  OBVIOUS
<1>5. PICK n : n = Len(docs)
  OBVIOUS
<1>6. /\ docs' \in Seq(ToSet(docs')) /\ n \in Nat
      /\ DOMAIN docs = 1..n /\ DOMAIN docs' = 1..(n + 1)
      /\ \A i \in 1..n : docs'[i] = docs[i]
      /\ docs'[n + 1] = doc
  <2>1. PICK old, new : old = docs /\ new = Append(docs, doc)
    OBVIOUS
  <2>2. /\ new \in Seq(ToSet(new)) /\ DOMAIN old = 1..Len(old) /\ Len(old) \in Nat
        /\ DOMAIN new = 1..(Len(old) + 1)
    BY <1>3, <2>1, OneMore
  <2>3. /\ \A i \in 1..Len(old) : new[i] = old[i]
        /\ new[Len(old) + 1] = doc
    BY <1>3, <2>1, OneMore
  <2> QED
    BY <1>1, <1>4, <1>5, <2>1, <2>2, <2>3, Zenon
<1>7. Standing' /\ Answering' /\ Scoring' /\ Planning' /\ Keeping'
  BY <1>1, <1>3, <1>6, EndsWell
<1>8. PICK mode, source, golden, checked, plans :
        /\ mode = run.mode /\ source = run.source /\ golden = run.golden
        /\ checked = run.checked /\ plans = run.plans
  OBVIOUS
<1>9. /\ doc.mode = mode /\ doc.source = source /\ doc.golden = golden /\ doc.checked = checked
      /\ \A id \in DOMAIN doc.plans :
           \E s \in ToSet(scores) :
             s.id = id /\ doc.plans[id] = s.plan /\ (id \notin doc.unheard => s.heard)
  <2>1. /\ doc.mode = run.mode /\ doc.source = run.source
        /\ doc.golden = run.golden /\ doc.checked = run.checked
    BY <1>4, ResultOfRun
  <2>2. \A id \in DOMAIN doc.plans :
          \E s \in ToSet(scores) :
            s.id = id /\ doc.plans[id] = s.plan /\ (id \notin doc.unheard => s.heard)
    BY <1>4, ResultOfRun
  <2> QED
    BY <1>8, <2>1, <2>2
<1>10. /\ mode = "full" => \A id \in DOMAIN doc.plans : IsNormal(doc.plans[id])
       /\ \A id \in DOMAIN doc.plans \ doc.unheard :
            HasFixedPlans(mode) => id \in DOMAIN plans /\ doc.plans[id] = plans[id]
  <2>1. \A s \in ToSet(scores) :
          /\ HasFixedPlans(mode) =>
               s.id \in DOMAIN plans /\ (s.heard => s.plan = plans[s.id])
          /\ mode = "full" => IsNormal(s.plan)
    BY <1>2, <1>8, Zenon DEF Keeping
  <2>2. ASSUME mode = "full", NEW id \in DOMAIN doc.plans PROVE IsNormal(doc.plans[id])
    BY <1>9, <2>1, <2>2, Zenon
  <2>3. ASSUME NEW id \in DOMAIN doc.plans \ doc.unheard
        PROVE  HasFixedPlans(mode) => id \in DOMAIN plans /\ doc.plans[id] = plans[id]
    <3>1. PICK s \in ToSet(scores) : s.id = id /\ doc.plans[id] = s.plan /\ s.heard
      BY <1>9, Zenon
    <3> QED
      BY <2>1, <3>1, Zenon
  <2> QED
    BY <2>2, <2>3, Zenon
<1>11. /\ mode = "fixed-plans" =>
            /\ source \in 1..n /\ docs[source].hash = checked
            /\ \A id \in DOMAIN plans : plans[id] = docs[source].plans[id]
       /\ IsLabelled(mode) =>
            \A c \in ToSet(golden) : c.id \in DOMAIN plans => plans[c.id] = LabelPlan(c)
  BY <1>1, <1>2, <1>6, <1>8 DEF Planning
<1>12. /\ \A i \in 1..(n + 1) : i \in 1..n \/ i = n + 1
       /\ 1..n \subseteq 1..(n + 1)
  BY <1>6
<1>13. Filing'
  <2>1. SUFFICES ASSUME NEW i \in 1..(n + 1)
                 PROVE  /\ docs'[i].mode = "full" =>
                             \A id \in DOMAIN docs'[i].plans : IsNormal(docs'[i].plans[id])
                        /\ docs'[i].mode = "fixed-plans" => docs'[i].source \in 1..(n + 1)
    BY <1>6, Zenon DEF Filing, IsNormal, FixedPlan, Normalized
  <2>2. ASSUME i \in 1..n
        PROVE  /\ docs'[i].mode = "full" =>
                    \A id \in DOMAIN docs'[i].plans : IsNormal(docs'[i].plans[id])
               /\ docs'[i].mode = "fixed-plans" => docs'[i].source \in 1..(n + 1)
    BY <1>2, <1>6, <1>12, <2>2, Zenon DEF Filing
  <2>3. ASSUME i = n + 1
        PROVE  /\ docs'[i].mode = "full" =>
                    \A id \in DOMAIN docs'[i].plans : IsNormal(docs'[i].plans[id])
               /\ docs'[i].mode = "fixed-plans" => docs'[i].source \in 1..(n + 1)
    BY <1>6, <1>9, <1>10, <1>11, <1>12, <2>3, Zenon
  <2> QED
    BY <1>12, <2>2, <2>3, Zenon
<1>14. HasFixedPlans(mode) \/ ~(mode = "fixed-plans" \/ IsLabelled(mode))
  BY Zenon DEF HasFixedPlans
<1>15. ASSUME NEW i \in 1..n PROVE Repeats(docs'[i], docs')
  <2>1. Repeats(docs[i], docs)
    BY <1>2, <1>6, Zenon DEF FixedRunsRepeat, Repeats
  <2>2. docs[i].mode = "fixed-plans" => docs'[docs[i].source] = docs[docs[i].source]
    BY <1>2, <1>6, Zenon DEF Filing
  <2>3. docs'[i] = docs[i]
    BY <1>6, Zenon
  <2> QED
    BY <2>1, <2>2, <2>3, Zenon DEF Repeats
<1>16. Repeats(doc, docs')
  <2>1. ASSUME mode = "fixed-plans", NEW id \in DOMAIN doc.plans \ doc.unheard
        PROVE  doc.plans[id] = docs'[source].plans[id]
    BY <1>6, <1>10, <1>11, <1>14, <2>1, Zenon
  <2>2. ASSUME mode = "fixed-plans", docs'[source].hash = docs'[source].golden,
               checked = golden
        PROVE  golden = docs'[source].golden
    BY <1>6, <1>11, <2>2, Zenon
  <2>3. ASSUME IsLabelled(mode), NEW c \in ToSet(golden), c.id \in DOMAIN doc.plans \ doc.unheard
        PROVE  doc.plans[c.id] = LabelPlan(c)
    BY <1>10, <1>11, <1>14, <2>3, Zenon
  <2> QED
    BY <1>9, <2>1, <2>2, <2>3, Zenon DEF Repeats
<1>17. FixedRunsRepeat'
  <2>1. \A i \in DOMAIN docs' : Repeats(docs'[i], docs')
    BY <1>6, <1>12, <1>15, <1>16, Zenon
  <2> QED
    BY <2>1, SMT DEF FixedRunsRepeat, Repeats, LabelPlan, IsLabelled
<1> QED
  BY <1>7, <1>13, <1>17, Zenon DEF EvalInv

-----------------------------------------------------------------------------
LEMMA EvaluationKeeps == ASSUME EvalInv, [EvalNext]_evalVars PROVE EvalInv'
<1>1. CASE UNCHANGED evalVars
  <2>1. /\ goldenFile' = goldenFile /\ indexed' = indexed /\ epc' = epc /\ run' = run
        /\ answer' = answer /\ scores' = scores /\ docs' = docs
    BY <1>1 DEF evalVars
  <2>2. goldenFile \in GoldenSets /\ indexed \subseteq Collected
    BY Zenon DEF EvalInv, Standing
  <2> QED
    BY <2>1, <2>2, RunStands
<1>2. ASSUME NEW mode, NEW filter, NEW source, BeginRun(mode, filter, source) PROVE EvalInv'
  BY <1>2, BeginKeeps
<1>3. CASE FixPlans
  BY <1>3, FixKeeps
<1>4. CASE SearchChunks
  BY <1>4, SearchKeeps
<1>5. CASE Ask
  BY <1>5, AskKeeps
<1>6. CASE ImageExists
  BY <1>6, ExistsKeeps
<1>7. CASE ScoreCase
  BY <1>7, ScoreKeeps
<1>8. CASE ScorePlanCase
  BY <1>8, ScorePlanKeeps
<1>9. CASE Report
  BY <1>9, ReportKeeps
<1>10. CASE Abort
  BY <1>10, AbortKeeps
<1>11. CASE World
  BY <1>11, WorldKeeps
<1> QED
  BY <1>1, <1>2, <1>3, <1>4, <1>5, <1>6, <1>7, <1>8, <1>9, <1>10, <1>11, Zenon DEF EvalNext

(* The evaluation stays within EvalInv, which says of the scores so far    *)
(* that each bounds itself, of the answer that it belongs to the case, and *)
(* of the plans where they come from.                                      *)
THEOREM EvaluationIsSound == EvalSpec => []EvalInv
<1>1. EvalInit => EvalInv
  BY StartsEvaluating
<1>2. EvalInv /\ [EvalNext]_evalVars => EvalInv'
  BY EvaluationKeeps
<1> QED
  BY <1>1, <1>2, PTL DEF EvalSpec

(* The candidate rate bounds the accuracy of every run, case by case and   *)
(* in total, whatever file and database say (report.py).                   *)
THEOREM RightAnswersWereFound == EvalSpec => []AccuracyIsBounded
<1>1. EvalInv => AccuracyIsBounded
  BY AccuracyBounded
<1> QED
  BY <1>1, EvaluationIsSound, PTL

(* A withheld answer is a miss wherever the denominator is the cases, and  *)
(* is left out wherever it is what answers contain: no metric counts it as *)
(* a success, though a ratio of the latter may rise (report.py).           *)
THEOREM SilenceIsNoSuccess == EvalSpec => []WithheldIsMissOrLeftOut
<1>1. EvalInv => WithheldIsMissOrLeftOut
  BY WithheldIsNoSuccess
<1> QED
  BY <1>1, EvaluationIsSound, PTL

(* A run on the plans of an earlier result repeats them, a run on labels   *)
(* searches with the labels (runner.py).                                   *)
THEOREM RepeatedPlansAreTheSame == EvalSpec => []FixedRunsRepeat
<1>1. EvalInv => FixedRunsRepeat
  BY Zenon DEF EvalInv
<1> QED
  BY <1>1, EvaluationIsSound, PTL
=============================================================================
