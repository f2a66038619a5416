------------------------------ MODULE Evaluation -----------------------------
(***************************************************************************)
(* The eval command and its scoring.  A run takes the golden set as the    *)
(* file says when it begins, asks the recommendation path case after case, *)
(* scores each answer with what the database says after it, and writes one *)
(* result file that a later run may take its plans from.  Meanwhile the    *)
(* file is edited and collect and index commit.                            *)
(***************************************************************************)
EXTENDS Integers, FiniteSets, Sequences, SequencesExt

CONSTANTS
  GoldenSets,   \* contents the file may have: sequences of cases
  Stock,        \* images: "repository:tag"
  Collected,    \* the repositories
  Meets,        \* the conditions an image meets
  Digests,
  FirstDigest,  \* what image_tags says at first: a digest, Null or Absent
  FirstIndexed, \* the repositories that have embedded chunks at first
  Shelf,        \* <<repository, section title>> of the chunks a search may find
  ChunkLimit,   \* limit of search_chunks_by_vector
  Wishes,       \* the search conditions a plan or a case may name
  Plans,        \* what the extraction may return
  Citings,      \* the citations of an answer: of each whether it was verified
  TagFilters,   \* what --tags may say
  ModesOfRun,   \* bound: the modes of the first result file, of the second, ...
  MaxCandidates, MaxMoves,
  Parts,        \* the unit of the random baseline is 1/Parts of a case
  Absent, Null

EvalModes == {"full", "retrieval-only", "plan-only", "fixed-plans", "label-plans",
              "label-plans-retrieval"}

(* What the loader checks.  That no image is both accepted and rejected is *)
(* a test of the file: test_accept_and_reject_do_not_overlap.              *)
IsGoldenSet(golden) ==
  /\ golden # <<>>
  /\ \A i, j \in DOMAIN golden : golden[i].id = golden[j].id => i = j
  /\ \A case \in ToSet(golden) : case.repos # {} /\ case.accept # {}

(* Documents are of repositories of the table (their foreign key).         *)
ASSUME EvaluationAssumption ==
  /\ \A golden \in GoldenSets :
       /\ golden \in Seq(Range(golden)) /\ IsGoldenSet(golden)
       /\ \A case \in ToSet(golden) :
            case.accept \intersect case.reject = {} /\ case.needs \in BOOLEAN
  /\ FirstIndexed \subseteq Collected
  /\ Null \notin Stock
  /\ Citings \subseteq Seq(BOOLEAN)
  /\ Parts \in Nat /\ MaxCandidates \in Nat

VARIABLES
  goldenFile,  \* the golden set file
  digest,      \* manifest_digest of each row of image_tags
  indexed,     \* repositories with embedded chunks
  moves,       \* how often file or database changed
  epc,         \* where the command stands
  run,         \* its locals
  answer,      \* what the recommendation path returned for this case
  scores,      \* the scores so far
  docs         \* the result files, oldest first

evalVars == <<goldenFile, digest, indexed, moves, epc, run, answer, scores, docs>>

CallsPlan(mode)      == mode \in {"full", "plan-only"}
CallsRecommend(mode) == mode \in {"full", "fixed-plans", "label-plans"}
IsLabelled(mode)     == mode \in {"label-plans", "label-plans-retrieval"}
HasFixedPlans(mode)  == mode = "fixed-plans" \/ IsLabelled(mode)

NoRun   == [mode |-> "none", golden |-> <<>>, checked |-> Null, todo |-> {}, skipped |-> {},
            plans |-> [id \in {} |-> Null], source |-> 0, found |-> {}, real |-> Null]
Silence == [plan |-> Null, candidates |-> <<>>, image |-> Null, citations |-> <<>>, heard |-> FALSE]

Rows == {image \in Stock : digest[image] # Absent}

-----------------------------------------------------------------------------
(* Scoring of candidates.                                                  *)

(* Mutant: an equal digest is looked at before the rejected names.         *)
AcceptedByDigestFirst(case, c, digests) ==
  c.image \in case.accept \/ (c.digest # Null /\ c.digest \in digests)

IsAccepted(case, c, digests) ==
  /\ c.image \notin case.reject
  /\ c.image \in case.accept \/ (c.digest # Null /\ c.digest \in digests)

CandidateHit(case, candidates, digests) ==
  \E c \in ToSet(candidates) : IsAccepted(case, c, digests)

HitAt5(case, found) == \E hit \in found : hit[1] \in case.repos /\ hit[2] \in case.sections

Images(candidates) == {c.image : c \in ToSet(candidates)}

(* The candidates are of different images.                                 *)
ScoreRetrieval(case, candidates, found, digests) ==
  [hit         |-> CandidateHit(case, candidates, digests),
   count       |-> Len(candidates),
   hitDeclared |-> case.sections # {},
   hitAt5      |-> case.sections # {} /\ HitAt5(case, found),
   topAccepted |-> candidates # <<>> /\ IsAccepted(case, candidates[1], digests),
   rejected    |-> Images(candidates) \intersect case.reject,
   accepted    |-> {c.image : c \in {d \in ToSet(candidates) : IsAccepted(case, d, digests)}}]

(* The five fields of a plan are the wishes it names or does not name.     *)
PlanFieldMatches(case, plan) == [w \in Wishes |-> (w \in plan.wishes) = (w \in case.expected)]

ScorePlan(case, plan) ==
  [repository |-> plan # Null /\ plan.repository \in case.repos,
   matched    |-> plan # Null /\ \A w \in Wishes : PlanFieldMatches(case, plan)[w]]

(* source_url and collected_at are filled in every candidate; what may be  *)
(* missing is the candidate.                                               *)
SourcesOk(response) ==
  IF response.image = Null THEN response.candidates # <<>>
  ELSE \E c \in ToSet(response.candidates) : c.image = response.image

(* Mutant: a case without an answer has broken no condition.               *)
ConditionsUnbroken(case, response) ==
  case.conditions # {}
    /\ (response.image # Null => case.conditions \subseteq Meets[response.image])

ConditionsMet(case, response) ==
  /\ case.conditions # {}
  /\ \E c \in ToSet(response.candidates) :
       c.image = response.image /\ case.conditions \subseteq Meets[c.image]

(* real is what the database said of the recommended image.  No stage      *)
(* judges candidates yet: unsatisfied_candidates keeps its default.        *)
ScoreFull(case, response, real, digests) ==
  LET byName == response.image # Null /\ response.image \in case.accept
      accurate == byName \/ \E c \in ToSet(response.candidates) :
                              c.image = response.image /\ IsAccepted(case, c, digests)
  IN [accurate   |-> accurate,
      byDigest   |-> accurate /\ ~byName,
      rejectedPick |-> response.image \in case.reject,
      tagReal    |-> IF response.image = Null THEN Null ELSE real,
      citations  |-> response.citations,
      unsatisfied |-> Null,
      declared   |-> case.conditions # {},
      met        |-> ConditionsMet(case, response),
      sourcesOk  |-> SourcesOk(response),
      needs      |-> case.needs]

-----------------------------------------------------------------------------
(* The report.                                                             *)
Share(hits, cases) == [hits |-> Cardinality(hits \intersect cases), total |-> Cardinality(cases)]

AccurateCases(these) == {i \in DOMAIN these : these[i].full.accurate}
HitCases(these)      == {i \in DOMAIN these : these[i].retrieval.hit}
TopCases(these)      == {i \in DOMAIN these : these[i].retrieval.topAccepted}

(* A citation is its case and its place in the answer.                     *)
CitationPassRate(these, cases) ==
  LET citations == UNION {{i} \X DOMAIN these[i].full.citations : i \in cases}
  IN Share({c \in citations : these[c[1]].full.citations[c[2]]}, citations)

JudgedCases(these) == {i \in DOMAIN these : these[i].full.unsatisfied # Null}

(* Of the candidates that judged cases are to find, those found            *)
(* unsatisfied.                                                            *)
JudgedShare(these, wanted) ==
  LET judged == JudgedCases(these)
  IN Share(UNION {{i} \X these[i].full.unsatisfied : i \in judged},
           UNION {{i} \X wanted[i] : i \in judged})

RejectedCases(these) ==
  Share({i \in DOMAIN these : these[i].retrieval.rejected # {}}, DOMAIN these)

AggregateRecommendation(these) ==
  LET cases == DOMAIN these
      rejected == [i \in cases |-> these[i].retrieval.rejected]
      accepted == [i \in cases |-> these[i].retrieval.accepted]
  IN [accuracy   |-> Share(AccurateCases(these), cases),
      hit        |-> Share(HitCases(these), cases),
      real       |-> Share({i \in cases : these[i].full.tagReal = TRUE},
                           {i \in cases : these[i].full.tagReal # Null}),
      conditions |-> Share({i \in cases : these[i].full.met},
                           {i \in cases : these[i].full.declared}),
      sources    |-> Share({i \in cases : these[i].full.sourcesOk}, cases),
      citations  |-> CitationPassRate(these, cases),
      detected   |-> JudgedShare(these, rejected),
      misjudged  |-> JudgedShare(these, accepted),
      rejecting  |-> RejectedCases(these),
      hitAt5     |-> Share({i \in cases : these[i].retrieval.hitAt5},
                           {i \in cases : these[i].retrieval.hitDeclared})]

AggregatePlan(these) ==
  LET cases == DOMAIN these
  IN [repository |-> Share({i \in cases : these[i].extraction.repository}, cases),
      matched    |-> Share({i \in cases : these[i].extraction.matched}, cases)]

TopCandidateBaseline(these) == Share(TopCases(these), DOMAIN these)

(* The expected accuracy of a random candidate, in 1/Parts of a case.      *)
RandomShare(retrieval) ==
  IF retrieval.count = 0 THEN 0
  ELSE (Parts * Cardinality(retrieval.accepted)) \div retrieval.count

RandomBaseline(these) == FoldLeft(LAMBDA sum, s : sum + RandomShare(s.retrieval), 0, these)

MetricGroups(these) ==
  [needs \in BOOLEAN |->
     LET group == {i \in DOMAIN these : these[i].full.needs = needs}
     IN [accuracy  |-> Share(AccurateCases(these), group),
         top       |-> Share(TopCases(these), group),
         citations |-> CitationPassRate(these, group)]]

-----------------------------------------------------------------------------
(* The command.                                                            *)
Case == run.golden[Min(run.todo)]
AcceptedDigests(case) == {digest[image] : image \in case.accept \intersect Rows} \ {Null}

Normalized(plan) ==
  [repository |-> IF plan.repository \in Collected THEN plan.repository ELSE Null,
   wishes     |-> plan.wishes]
AskedPlans == {Null} \union {Normalized(plan) : plan \in Plans}

(* Mutant: a case whose extraction had failed is extracted again.          *)
FixedPlanOrAsk(plan) == IF plan = Null THEN AskedPlans ELSE {Normalized(plan)}

(* FixedPlanProvider: a failed extraction fails again.                     *)
FixedPlan(plan) == IF plan = Null THEN {Null} ELSE {Normalized(plan)}

PlansOf(case) ==
  IF HasFixedPlans(run.mode) THEN FixedPlan(run.plans[case.id])
  ELSE IF CallsPlan(run.mode) THEN AskedPlans ELSE {Null}

Candidates ==
  {[i \in DOMAIN list |-> [image |-> list[i], digest |-> digest[list[i]]]] :
     list \in {some \in UNION {[1..n -> Rows] : n \in 0..MaxCandidates} : IsInjective(some)}}

(* What the recommendation path may return: nothing but notes when its own *)
(* embedding fails, else candidates and, from a review that succeeds, one  *)
(* of them with citations.  Without a provider there are candidates only.  *)
Answers(case) ==
  {[plan |-> plan, candidates |-> list, image |-> image, citations |-> cited, heard |-> TRUE] :
     plan \in PlansOf(case), list \in Candidates, image \in Stock \union {Null},
     cited \in Citings \union {<<>>}}

IsAnswer(response) ==
  /\ response.image = Null => response.citations = <<>>
  /\ response.image # Null => /\ CallsRecommend(run.mode)
                              /\ response.image \in Images(response.candidates)
                              /\ response.citations \in Citings

EvalInit ==
  /\ goldenFile \in GoldenSets
  /\ digest = FirstDigest /\ indexed = FirstIndexed
  /\ moves = 0
  /\ epc = "idle" /\ run = NoRun /\ answer = Silence /\ scores = <<>> /\ docs = <<>>

IsIndexed(case) == case.repos \subseteq indexed

(* The places in the file of the cases to measure; those left out by name. *)
EvalCases(filter) ==
  LET wanted == {i \in DOMAIN goldenFile : filter = Null \/ filter \in goldenFile[i].tags}
      measured == {i \in wanted : IsIndexed(goldenFile[i])}
  IN [measured |-> measured, skipped |-> {goldenFile[i].id : i \in wanted \ measured}]

LabelPlan(case) == [repository |-> CHOOSE repo \in case.repos : TRUE, wishes |-> case.expected]

(* The file is read once; what is indexed is asked of the database then.   *)
BeginRun(mode, filter, source) ==
  /\ epc = "idle" /\ Len(docs) < Len(ModesOfRun) /\ mode \in ModesOfRun[Len(docs) + 1]
  /\ IF mode = "fixed-plans" THEN source \in DOMAIN docs ELSE source = 0
  /\ epc' = IF HasFixedPlans(mode) THEN "plans" ELSE "case"
  /\ LET cases == EvalCases(filter)
     IN run' = [NoRun EXCEPT !.mode = mode, !.golden = goldenFile, !.todo = cases.measured,
                             !.skipped = cases.skipped, !.source = source]
  /\ answer' = Silence /\ scores' = <<>>
  /\ UNCHANGED <<goldenFile, digest, indexed, moves, docs>>

(* The hash is of the file as it is now, which may not be what was read.   *)
LoadsFixedPlans(source, ids) ==
  /\ docs[source].mode = "full"
  /\ docs[source].hash = goldenFile
  /\ ids \subseteq DOMAIN docs[source].plans

(* What does not fit stops the command before any model is called (Abort). *)
FixPlans ==
  LET ids == {run.golden[i].id : i \in run.todo}
      caseOf(id) == run.golden[CHOOSE i \in run.todo : run.golden[i].id = id]
  IN /\ epc = "plans"
     /\ \/ /\ IsLabelled(run.mode)
           /\ \A i \in run.todo : Cardinality(run.golden[i].repos) = 1
           /\ run' = [run EXCEPT !.plans = [id \in ids |-> LabelPlan(caseOf(id))]]
        \/ /\ run.mode = "fixed-plans" /\ LoadsFixedPlans(run.source, ids)
           /\ run' = [run EXCEPT !.plans = [id \in ids |-> docs[run.source].plans[id]],
                                 !.checked = goldenFile]
     /\ epc' = "case"
     /\ UNCHANGED <<goldenFile, digest, indexed, moves, answer, scores, docs>>

(* The question's vector and the five nearest chunks.                      *)
Nearest(chunks) == IF Cardinality(chunks) <= ChunkLimit THEN {chunks} ELSE kSubset(ChunkLimit, chunks)

SearchChunks ==
  /\ epc = "case" /\ run.todo # {} /\ run.mode # "plan-only"
  /\ \E found \in Nearest({chunk \in Shelf : chunk[1] \in indexed}) :
       run' = [run EXCEPT !.found = found, !.real = Null]
  /\ epc' = "ask"
  /\ UNCHANGED <<goldenFile, digest, indexed, moves, answer, scores, docs>>

Ask ==
  /\ epc = "ask"
  /\ \/ run.mode # "retrieval-only" /\ answer' = Silence
     \/ answer' \in {response \in Answers(Case) : IsAnswer(response)}
  /\ epc' = IF answer'.image # Null THEN "exists" ELSE "score"
  /\ UNCHANGED <<goldenFile, digest, indexed, moves, run, scores, docs>>

ImageExists ==
  /\ epc = "exists"
  /\ run' = [run EXCEPT !.real = answer.image \in Rows]
  /\ epc' = "score"
  /\ UNCHANGED <<goldenFile, digest, indexed, moves, answer, scores, docs>>

Scored(response) ==
  LET digests == AcceptedDigests(Case)
      retrieval == ScoreRetrieval(Case, response.candidates, run.found, digests)
  IN IF run.mode = "retrieval-only"
     THEN [id |-> Case.id, heard |-> response.heard, plan |-> Null, retrieval |-> retrieval]
     ELSE [id |-> Case.id, heard |-> response.heard, plan |-> response.plan,
           retrieval |-> retrieval, extraction |-> ScorePlan(Case, response.plan),
           full |-> ScoreFull(Case, response, run.real, digests)]

NextCase(score) ==
  /\ scores' = Append(scores, score)
  /\ epc' = "case"
  /\ run' = [run EXCEPT !.todo = run.todo \ {Min(run.todo)}, !.found = {}, !.real = Null]
  /\ answer' = Silence
  /\ UNCHANGED <<goldenFile, digest, indexed, moves, docs>>

ScoreCase == epc = "score" /\ NextCase(Scored(answer))

ScorePlanCase ==
  /\ epc = "case" /\ run.todo # {} /\ run.mode = "plan-only"
  /\ \E plan \in PlansOf(Case) :
       NextCase([id |-> Case.id, heard |-> TRUE, plan |-> plan, extraction |-> ScorePlan(Case, plan)])

(* The hash is taken of the file as it is when the run ends.               *)
GoldenHash == goldenFile

(* golden and checked, what was read and what was hashed, are history.     *)
ResultDocument ==
  [mode    |-> run.mode, hash |-> GoldenHash, source |-> run.source,
   plans   |-> [id \in {s.id : s \in ToSet(scores)} |->
                  (CHOOSE s \in ToSet(scores) : s.id = id).plan],
   unheard |-> {s.id : s \in {t \in ToSet(scores) : ~t.heard}},
   skipped |-> run.skipped,
   golden  |-> run.golden, checked |-> run.checked]

Report ==
  /\ epc = "case" /\ run.todo = {}
  /\ docs' = Append(docs, ResultDocument)
  /\ epc' = "idle" /\ run' = NoRun /\ answer' = Silence /\ scores' = <<>>
  /\ UNCHANGED <<goldenFile, digest, indexed, moves>>

(* The plans do not fit, or an embedding or a statement fails outside the  *)
(* recommendation path: the command ends without a result file.            *)
Abort ==
  /\ epc # "idle"
  /\ epc' = "idle" /\ run' = NoRun /\ answer' = Silence /\ scores' = <<>>
  /\ UNCHANGED <<goldenFile, digest, indexed, moves, docs>>

(* The file is edited, a page of tags or a README is committed.            *)
World ==
  /\ moves < MaxMoves /\ moves' = moves + 1
  /\ \/ goldenFile' \in GoldenSets \ {goldenFile} /\ UNCHANGED <<digest, indexed>>
     \/ /\ \E image \in Stock, d \in (Digests \union {Null}) :
             d # digest[image] /\ digest' = [digest EXCEPT ![image] = d]
        /\ UNCHANGED <<goldenFile, indexed>>
     \/ /\ \E repo \in Collected \ indexed : indexed' = indexed \union {repo}
        /\ UNCHANGED <<goldenFile, digest>>
  /\ UNCHANGED <<epc, run, answer, scores, docs>>

EvalNext ==
  \/ \E mode \in EvalModes, filter \in TagFilters, source \in 0..Len(docs) :
       BeginRun(mode, filter, source)
  \/ FixPlans \/ SearchChunks \/ Ask \/ ImageExists \/ ScoreCase \/ ScorePlanCase \/ Report \/ Abort
  \/ World

EvalSpec == EvalInit /\ [][EvalNext]_evalVars

-----------------------------------------------------------------------------
(* The candidate rate bounds the accuracy, because both judge alike, with  *)
(* digests that were read once: a case answered rightly had an accepted    *)
(* candidate, an answer is never right and explicitly wrong, no candidate  *)
(* is both, and no control (first candidate, random candidate) and no      *)
(* group beats the bound.  Asked of every score, before it is added.       *)
AccuracyIsBounded ==
  epc = "score" /\ run.mode # "retrieval-only" =>
    LET s == Scored(answer)
        all == Append(scores, s)
        metrics == AggregateRecommendation(all)
        groups == MetricGroups(all)
    IN /\ s.full.accurate => s.retrieval.hit /\ ~s.full.rejectedPick
       /\ s.retrieval.accepted \intersect s.retrieval.rejected = {}
       /\ metrics.accuracy.hits <= metrics.hit.hits
       /\ TopCandidateBaseline(all).hits <= metrics.hit.hits
       /\ RandomBaseline(all) <= Parts * metrics.hit.hits
       /\ groups[TRUE].accuracy.hits + groups[FALSE].accuracy.hits = metrics.accuracy.hits

(* A withheld answer (no recommendation, no candidates or no plan) is a    *)
(* miss in every metric over the cases: no hit is gained and the case      *)
(* stays in the denominator.  From the metrics over what answers contain   *)
(* (real tags, citations, judged candidates) it is left out altogether:    *)
(* they are what they were before the case, so of these the ratio may rise *)
(* (score_full, aggregate_recommendation, _citation_pass_rate).            *)
Withheld(response) ==
  LET unchosen == [response EXCEPT !.image = Null, !.citations = <<>>]
  IN {Silence, unchosen, [unchosen EXCEPT !.candidates = <<>>], [unchosen EXCEPT !.plan = Null]}

CaseMetrics   == {"accuracy", "hit", "conditions", "sources", "rejecting", "hitAt5"}
PlanMetrics   == {"repository", "matched"}
AnswerMetrics == {"real", "citations", "detected", "misjudged"}

NoBetter(less, more) == less.hits <= more.hits /\ less.total = more.total

WithheldIsMissOrLeftOut ==
  epc = "score" /\ run.mode # "retrieval-only" =>
    LET these(response) == Append(scores, Scored(response))
        before   == AggregateRecommendation(scores)
        more     == AggregateRecommendation(these(answer))
        morePlan == AggregatePlan(these(answer))
    IN \A withheld \in Withheld(answer) :
         LET less     == AggregateRecommendation(these(withheld))
             lessPlan == AggregatePlan(these(withheld))
         IN /\ \A m \in CaseMetrics : NoBetter(less[m], more[m])
            /\ \A m \in PlanMetrics : NoBetter(lessPlan[m], morePlan[m])
            /\ \A m \in AnswerMetrics : less[m] = before[m]

(* A run on the plans of an earlier result gives the second stage the same *)
(* plans, failures included; unless the file was edited while the earlier  *)
(* run went on, or between its reading and its hashing by the later one,   *)
(* both measured the same golden set.  A run on labels searches with the   *)
(* label.                                                                  *)
FixedRunsRepeat ==
  \A i \in DOMAIN docs :
    LET doc == docs[i]
        heard == DOMAIN doc.plans \ doc.unheard
    IN /\ doc.mode = "fixed-plans" =>
            /\ \A id \in heard : doc.plans[id] = docs[doc.source].plans[id]
            /\ docs[doc.source].hash = docs[doc.source].golden /\ doc.checked = doc.golden
                 => doc.golden = docs[doc.source].golden
       /\ IsLabelled(doc.mode) =>
            \A c \in ToSet(doc.golden) : c.id \in heard => doc.plans[c.id] = LabelPlan(c)
=============================================================================
