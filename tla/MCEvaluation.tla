----------------------------- MODULE MCEvaluation ----------------------------
(* Instances of Evaluation for TLC.  latest is the same image as slim: the *)
(* first case rejects it by name, the second accepts it for its digest.    *)
EXTENDS Evaluation

CONSTANTS slim, latest

MCCase(id, repo, reject, needs) ==
  [id |-> id, repos |-> {repo}, accept |-> {slim}, reject |-> reject, tags |-> {},
   conditions |-> {"size"}, sections |-> {"Variants"}, expected |-> {"size"}, needs |-> needs]

MCGoldenSets == {
  <<MCCase("c1", "python", {latest}, TRUE)>>,
  <<MCCase("c1", "python", {latest}, TRUE), MCCase("c2", "node", {}, FALSE)>>}

MCPlans == {[repository |-> "python", wishes |-> {"size"}], [repository |-> "perl", wishes |-> {}]}
MCCitings == {<<FALSE>>, <<TRUE, FALSE>>}
MCMeets == [image \in Stock |-> IF image = slim THEN {"size"} ELSE {}]
MCFirstDigest == [image \in Stock |-> "d1"]
(* Only a run on fixed plans reads an earlier result. *)
MCModesOfRun == <<EvalModes, {"fixed-plans"}>>
MCShelf == {<<"python", "Variants">>, <<"node", "Variants">>}
=============================================================================
