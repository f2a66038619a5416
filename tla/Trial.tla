------------------------------- MODULE Trial --------------------------------
(***************************************************************************)
(* The two comparisons of LLM settings under eval/experiments: M1-a (study *)
(* "plan", plan_llm.py) and M1-b (study "recommend", recommend_llm.py).    *)
(* An operator snapshots the database, measures settings round by round,   *)
(* and asks for a summary, which picks a setting or asks for more rounds.  *)
(* A collect run may change the database in between.                       *)
(***************************************************************************)
EXTENDS Integers, Sequences, FiniteSets, FiniteSetsExt, SequencesExt

CONSTANTS
  Studies,       \* the comparisons that are run, a subset of {"plan", "recommend"}
  Configs,       \* CONFIGS: record [input, output, rule] of prices and the output rule
  BASELINE,      \* the setting that runs in production
  Measurements,  \* what a round of a setting may give: [hits, seconds, request, calls]
  FLOOR, MARGIN, MAX_CONFIRMATIONS,
  RequestP95,    \* of the reference of M1-b
  MaxChanges,    \* bound on the changes to the database
  MaxRounds,     \* bound on the rounds of a setting
  Unknown        \* no value: a missing file, an unreported count, an unknown cost

Names == DOMAIN Configs
Rounds == 0 .. MaxRounds

(* A round has a count of hits by each measure, the times of its cases and *)
(* requests, and what the calls reported.                                  *)
IsMeasured(m) ==
  /\ m.hits \in Nat \X Nat
  /\ m.seconds \in Seq(Nat) \ {<<>>} /\ m.request \in Seq(Nat) \ {<<>>}
  /\ m.calls \in Seq(ToSet(m.calls))
  /\ \A call \in ToSet(m.calls) :
       call.input \in Nat \union {Unknown} /\ call.output \in Nat \union {Unknown}
       /\ call.reasoning \in Nat \union {Unknown}

ASSUME TrialAssumption ==
  /\ Studies \subseteq {"plan", "recommend"}
  /\ BASELINE \in Names
  /\ IsFiniteSet(Names)
  /\ \A name \in Names : Configs[name].input \in Nat /\ Configs[name].output \in Nat
  /\ DOMAIN Measurements = Names
  /\ \A name \in Names : \A m \in Measurements[name] : IsMeasured(m)
  /\ {FLOOR, MARGIN, MAX_CONFIRMATIONS, RequestP95, MaxChanges, MaxRounds} \subseteq Nat
  /\ MaxRounds > 2 + MAX_CONFIRMATIONS     \* the bound never stops what is asked for
  /\ Unknown \notin Nat

VARIABLES
  study,
  world,    \* the state of the database; a change leads to one not seen before
  snaps,    \* the snapshot files, by round (0: the whole of M1-a) and "before" or "after"
  results,  \* the result files: of each setting the sequence of its rounds
  asked,    \* the settings the last summary asked to run again
  verdict   \* of the last summary: [kind, config]

trialVars == <<study, world, snaps, results, asked, verdict>>

NoVerdict == [kind |-> "none", config |-> Unknown]
Scope(round) == IF study = "plan" THEN 0 ELSE round

-----------------------------------------------------------------------------
(* Tokens and money: usage_of, billed_output, and the row of a setting.    *)
SumOf(values) == FoldLeft(LAMBDA sum, value : sum + value, 0, values)
SumOrUnknown(values) == IF Unknown \in ToSet(values) THEN Unknown ELSE SumOf(values)

BilledOutput(call, rule) ==
  IF rule = Unknown \/ call.output = Unknown THEN Unknown
  ELSE IF rule # "completion+reasoning" THEN call.output
  ELSE IF call.reasoning = Unknown THEN Unknown ELSE call.output + call.reasoning

(* Mutant: calls that report nothing cost nothing.                         *)
UsageIgnoringUnknown(name, calls) ==
  LET outputs == [i \in DOMAIN calls |-> BilledOutput(calls[i], Configs[name].rule)]
      known(values) == SumOf(SelectSeq(values, LAMBDA value : value # Unknown))
  IN   known([i \in DOMAIN calls |-> calls[i].input]) * Configs[name].input
     + known(outputs) * Configs[name].output

UsageOf(name, calls) ==
  LET inputs == SumOrUnknown([i \in DOMAIN calls |-> calls[i].input])
      outputs == SumOrUnknown([i \in DOMAIN calls |-> BilledOutput(calls[i], Configs[name].rule)])
  IN IF inputs = Unknown \/ outputs = Unknown THEN Unknown
     ELSE inputs * Configs[name].input + outputs * Configs[name].output

(* All values of some sequences, by the sequence and the place in it.      *)
Spread(times) ==
  [place \in UNION {{i} \X DOMAIN times[i] : i \in DOMAIN times} |-> times[place[1]][place[2]]]

(* The smallest value that percent of the values do not exceed.            *)
NotAbove(values, value) == {place \in DOMAIN values : values[place] <= value}

NearestRank(values, percent) ==
  LET places == DOMAIN values
      enough == {place \in places :
                   100 * Cardinality(NotAbove(values, values[place])) >= percent * Cardinality(places)}
  IN Min({values[place] : place \in enough})

Hits(measured) == IF study = "plan" THEN measured.hits ELSE <<measured.hits[2]>>
IsClean(measured) == \A i \in DOMAIN measured.calls : measured.calls[i].attempts = 1

RoundsOf(name) == Len(results[name])
CleanRounds(name) == {i \in DOMAIN results[name] : IsClean(results[name][i])}
Trusted(name) == CleanRounds(name) # {}

(* Times come from rounds without retries; from all only if there are none. *)
Seconds(name) ==
  LET used == IF Trusted(name) THEN CleanRounds(name) ELSE DOMAIN results[name]
  IN Spread([i \in used |-> results[name][i].seconds])
P95(name) == NearestRank(Seconds(name), 95)

(* Sums over the rounds; a mean is compared by cross-multiplication.       *)
HitsOf(name, k) == SumOf([i \in DOMAIN results[name] |-> Hits(results[name][i])[k]])
Accuracy(name) == SumOf([i \in DOMAIN results[name] |-> SumOf(Hits(results[name][i]))])
Cost(name) == SumOrUnknown([i \in DOMAIN results[name] |-> UsageOf(name, results[name][i].calls)])
AtMost(a, m, b, n) == a * n <= b * m         \* a/m <= b/n

-----------------------------------------------------------------------------
(* choose and _choose.                                                     *)
Floors ==
  IF study = "plan"
  THEN [k \in 1 .. 2 |-> Hits(results[BASELINE][1])[k] - MARGIN]
  ELSE <<FLOOR>>

Near(a, b) == a - b <= MARGIN /\ b - a <= MARGIN

(* The floor of M1-a follows from its baseline, which is not run again.    *)
NearFloor(name) ==
  /\ study = "plan" => name # BASELINE
  /\ \E k \in DOMAIN Floors : Near(Hits(results[name][1])[k], Floors[k])

Passes(name) == \A k \in DOMAIN Floors : AtMost(Floors[k], 1, HitsOf(name, k), RoundsOf(name))

Measured == {name \in Names : results[name] # <<>>}
Similar ==
  IF study = "plan"
  THEN NearestRank(Spread([i \in DOMAIN results[BASELINE] |-> results[BASELINE][i].request]), 95)
  ELSE RequestP95

(* The setting whose confirmation can never come: out of the pool at once, *)
(* or after MAX_CONFIRMATIONS of them.  Mutant: the first case forgotten.  *)
GivenUpByCount(name) == RoundsOf(name) - (IF NearFloor(name) THEN 2 ELSE 1) >= MAX_CONFIRMATIONS
GivenUp(name) == (study = "plan" /\ name = BASELINE) \/ GivenUpByCount(name)

Outcome(kind, config, asks) == [kind |-> kind, config |-> config, asks |-> asks]

(* The fastest of a pool and those as fast, the cheapest of a group and    *)
(* those as cheap, and of these the most accurate.                         *)
Group(pool) ==
  LET fastest == Min({P95(name) : name \in pool})
  IN {name \in pool : 20 * (P95(name) - fastest) <= Similar}

Cheapest(group) ==
  {name \in group : \A other \in group :
     AtMost(10 * Cost(name), RoundsOf(name), 11 * Cost(other), RoundsOf(other))}

MostAccurate(near) ==
  {name \in near : \A other \in near :
     AtMost(Accuracy(other), RoundsOf(other), Accuracy(name), RoundsOf(name))}

(* A group of one is not compared; it needs no costs.                      *)
Top(pool) ==
  LET group == Group(pool)
  IN IF Cardinality(group) = 1 THEN group ELSE MostAccurate(Cheapest(group))

CostsUnknown(pool) ==
  LET group == Group(pool) IN Cardinality(group) > 1 /\ \E name \in group : Cost(name) = Unknown

(* The choice from a pool.  A winner whose time cannot be trusted is run   *)
(* again or leaves the pool.                                               *)
Choice[pool \in SUBSET Measured] ==
  LET top == Top(pool)
      winner == CHOOSE name \in top : TRUE
  IN IF pool = {} THEN Outcome("keep_kimi", Unknown, {})
     ELSE IF CostsUnknown(pool) \/ Cardinality(top) > 1
     THEN Outcome("inconclusive", Unknown, {})
     ELSE IF Trusted(winner) THEN Outcome("chosen", winner, {})
     ELSE IF GivenUp(winner) THEN Choice[pool \ {winner}]
     ELSE Outcome("needs_runs", Unknown, {winner})

Pending == {name \in Measured : NearFloor(name) /\ RoundsOf(name) < 2}

Choose ==
  IF BASELINE \notin Measured THEN Outcome("incomplete", Unknown, {})
  ELSE IF Pending # {} THEN Outcome("needs_runs", Unknown, Pending)
  ELSE Choice[{name \in Measured : Passes(name)}]

-----------------------------------------------------------------------------
(* summarize refuses results measured on a database that changed.          *)
Scopes == IF study = "plan" THEN {0}
          ELSE UNION {1 .. RoundsOf(name) : name \in Names}

(* Mutant: the snapshots have to exist, not to agree.                      *)
Present(scope) == \A when \in {"before", "after"} : snaps[scope][when] # Unknown
SameDatabase(scope) == Present(scope) /\ snaps[scope]["before"] = snaps[scope]["after"]

Summary ==
  IF \A scope \in Scopes : SameDatabase(scope) THEN Choose ELSE Outcome("invalid", Unknown, {})

(* What validate accepts of a round measured as the setting says.          *)
Accepts(name, round) == study = "plan" /\ name = BASELINE => round = 1

TrialInit ==
  /\ study \in Studies
  /\ world = 0
  /\ snaps = [round \in Rounds |-> [when \in {"before", "after"} |-> Unknown]]
  /\ results = [name \in Names |-> <<>>]
  /\ asked = {} /\ verdict = NoVerdict

(* A collect or index run; later nothing compares with an earlier state.   *)
Change ==
  /\ world < MaxChanges
  /\ world' = world + 1
  /\ UNCHANGED <<study, snaps, results, asked, verdict>>

(* A file that exists is not written again.  Rounds are taken in order.    *)
Snapshot(round, when) ==
  /\ IF study = "plan" THEN round = 0
     ELSE round > 0 /\ \E name \in Names : round <= RoundsOf(name) + (IF name \in asked \/ round = 1
                                                                     THEN 1 ELSE 0)
  /\ snaps[round][when] = Unknown
  /\ snaps' = [snaps EXCEPT ![round][when] = world]
  /\ UNCHANGED <<study, world, results, asked, verdict>>

(* A result file; world and inside, the state of the database it was       *)
(* measured on and whether the snapshot after it was still to come, are    *)
(* history.                                                                *)
Row(measured, round) ==
  [hits |-> measured.hits, seconds |-> measured.seconds, request |-> measured.request,
   calls |-> measured.calls,
   world |-> world, inside |-> snaps[Scope(round)]["after"] = Unknown]

(* The operator measures every setting once, then what a summary asks for. *)
(* A result that validate refuses is not copied: nothing changes then.     *)
Measure(name) ==
  LET round == RoundsOf(name) + 1 IN
  /\ round = 1 \/ name \in asked
  /\ round <= MaxRounds
  /\ snaps[Scope(round)]["before"] # Unknown
  /\ Accepts(name, round)
  /\ \E measured \in Measurements[name] :
       results' = [results EXCEPT ![name] = Append(@, Row(measured, round))]
  /\ asked' = asked \ {name}
  /\ verdict' = IF asked' = {} THEN NoVerdict ELSE verdict
  /\ UNCHANGED <<study, world, snaps>>

Summarize ==
  /\ Measured # {}
  /\ LET outcome == Summary IN
     /\ asked' = outcome.asks
     /\ verdict' = [kind |-> outcome.kind, config |-> outcome.config]
  /\ UNCHANGED <<study, world, snaps, results>>

(* A conclusion ends the study.                                            *)
IsOpen == verdict.kind \notin {"chosen", "inconclusive", "keep_kimi"}

TrialNext ==
  /\ IsOpen
  /\ \/ Change
     \/ \E round \in Rounds, when \in {"before", "after"} : Snapshot(round, when)
     \/ \E name \in Names : Measure(name)
     \/ Summarize

TrialSpec == TrialInit /\ [][TrialNext]_trialVars

-----------------------------------------------------------------------------
(* What a summary asks for can be done, and only so often: validate takes  *)
(* the next round of every setting it names, and a setting is named for at *)
(* most its second round and MAX_CONFIRMATIONS more (choose, validate).    *)
AdviceCanBeFollowed ==
  \A name \in asked : /\ Accepts(name, RoundsOf(name) + 1)
                      /\ RoundsOf(name) < 2 + MAX_CONFIRMATIONS

(* A setting is out of the comparison when nothing in it can be trusted.   *)
Excused(name) == ~Trusted(name) /\ GivenUp(name)

IsReported(name) ==
  \A i \in DOMAIN results[name] : \A k \in DOMAIN results[name][i].calls :
    LET call == results[name][i].calls[k] IN
    /\ Unknown \notin {Configs[name].rule, call.input, call.output}
    /\ Configs[name].rule = "completion+reasoning" => call.reasoning # Unknown

(* A chosen setting passes on trusted times, every setting near the floor  *)
(* had its second round, and no other passing setting is at least as fast, *)
(* as cheap and as accurate; what it was weighed against reported all its  *)
(* tokens, and so did it: silence never counts as cheap (choose, usage_of). *)
ChoiceIsUndominated ==
  verdict.kind = "chosen" =>
    LET chosen == verdict.config IN
    /\ Trusted(chosen) /\ Passes(chosen)
    /\ \A name \in Measured : NearFloor(name) => RoundsOf(name) >= 2
    /\ \A other \in Measured \ {chosen} :
         (Passes(other) /\ ~Excused(other) /\ P95(other) <= P95(chosen)) =>
           /\ IsReported(chosen) /\ IsReported(other)
           /\ AtMost(Cost(other), RoundsOf(other), Cost(chosen), RoundsOf(chosen)) =>
                ~AtMost(Accuracy(chosen), RoundsOf(chosen), Accuracy(other), RoundsOf(other))

Inside(name, scope) ==
  {i \in 1 .. RoundsOf(name) : Scope(i) = scope /\ results[name][i].inside}

(* A verdict stands on one database: the rounds that it compares and that  *)
(* were measured between the two snapshots all saw the same state of it    *)
(* (summarize; the snapshots of M1-a span the study, those of M1-b a round). *)
OneDatabase ==
  verdict.kind \in {"chosen", "inconclusive", "keep_kimi"} =>
    \A scope \in Scopes : \A name, other \in Names :
      \A i \in Inside(name, scope), j \in Inside(other, scope) :
        results[name][i].world = results[other][j].world
=============================================================================
