------------------------------- MODULE Review -------------------------------
(***************************************************************************)
(* The review of citations (eval/citations.py): a sample of statements is  *)
(* drawn from the result files of each arm, a person fills in a sheet on   *)
(* which the arms cannot be told apart, and the sheet is scored against a  *)
(* key.  The sheet is a text file: rows get lost, copied and changed.      *)
(***************************************************************************)
EXTENDS Integers, Sequences, FiniteSets, SequencesExt, FiniteSetsExt

CONSTANTS
  Archives,   \* the result files of a review: for each its arm and statements
  PerArm,     \* PER_ARM
  PerCase,    \* per_case
  Cells,      \* what a reviewer may write into the two cells of a row
  MaxRows,    \* bound on the sheets that are filled in
  MaxEdits,   \* bound on the changes to the sheet that are no reviews
  Blank       \* a cell left empty; no outcome

Verdicts == {"supported", "unsupported", "unclear", "no_doc_fact"}
CandidateChecks == {"match", "mismatch", "unclear", "not_applicable"}

(* What the score may say of an arm.                                       *)
Outcomes == {"unmeasured", "deferred", "passed", "failed"}

(* A statement is its case and its number there; a file yields those with  *)
(* a verified citation.                                                    *)
ASSUME ReviewAssumption ==
  /\ PerArm \in Nat \ {0} /\ PerCase \in Nat /\ MaxEdits \in Nat /\ MaxRows \in Nat
  /\ \A archive \in Archives :
       /\ Len(archive) \in Nat \ {0} /\ DOMAIN archive = 1..Len(archive)
       /\ \A i \in DOMAIN archive : IsFiniteSet(archive[i].statements)
  /\ \A cell \in Cells : cell = [verdict |-> cell.verdict, check |-> cell.check]
  /\ Blank \notin Verdicts \union CandidateChecks \union Outcomes

VARIABLES
  files,    \* the result files, the arm of each and its statements
  drawn,    \* the sample: sequence of [arm, source, statement]
  next,     \* the file to draw from
  sheet,    \* the rows of the sample file
  edits,    \* changes that are no reviews
  rpc,      \* "draw", "fill", "edit", "scored"
  problems, \* what score_citations found wrong
  outcome   \* of each arm

reviewVars == <<files, drawn, next, sheet, edits, rpc, problems, outcome>>

Arms == {files[i].arm : i \in DOMAIN files}
OfArm(arm) == {i \in DOMAIN drawn : drawn[i].arm = arm}

-----------------------------------------------------------------------------
(* sample_citations and _choose.                                           *)
Cases(statements) == {st.case : st \in statements}
OfCase(statements, case) == {st \in statements : st.case = case}

(* Mutant: the cap on a case holds for each file, not for the arm.         *)
TakenInFile(arm, case) == 0

Taken(arm, case) == Cardinality({i \in OfArm(arm) : drawn[i].statement.case = case})

Smaller(m, n) == IF m < n THEN m ELSE n

(* At most PerCase of a case, counting what earlier files of the arm gave, *)
(* then at most as many as the arm has room for.                           *)
Samples(arm, statements) ==
  LET room(case) == Smaller(IF PerCase > Taken(arm, case) THEN PerCase - Taken(arm, case) ELSE 0,
                            Cardinality(OfCase(statements, case)))
      capped == {some \in SUBSET statements :
                   \A case \in Cases(statements) : Cardinality(OfCase(some, case)) = room(case)}
      limit == PerArm - Cardinality(OfArm(arm))
  IN UNION {kSubset(Smaller(limit, Cardinality(some)), some) : some \in capped}

ReviewInit ==
  /\ files \in Archives
  /\ drawn = <<>> /\ next = 1
  /\ sheet = <<>> /\ edits = 0
  /\ rpc = "draw"
  /\ problems = {} /\ outcome = <<>>

(* Files of one arm are drawn from in their order.                         *)
Draw ==
  /\ rpc = "draw" /\ next <= Len(files)
  /\ \E chosen \in Samples(files[next].arm, files[next].statements) :
       drawn' = drawn \o SetToSeq({[arm |-> files[next].arm, source |-> next, statement |-> st] :
                                     st \in chosen})
  /\ next' = next + 1
  /\ UNCHANGED <<files, sheet, edits, rpc, problems, outcome>>

(* A row holds its id and its item; which arm it is of only the key knows. *)
Dump ==
  /\ rpc = "draw" /\ next > Len(files)
  /\ rpc' = "fill"
  /\ sheet' = [i \in DOMAIN drawn |->
                 [id |-> i, item |-> drawn[i], verdict |-> Blank, check |-> Blank]]
  /\ UNCHANGED <<files, drawn, next, edits, problems, outcome>>

(* The verdict and the check of the candidate, in words the vocabulary may *)
(* not have.                                                               *)
Fill ==
  /\ rpc = "fill" /\ Len(sheet) <= MaxRows
  /\ rpc' = "edit"
  /\ \E filled \in [DOMAIN sheet -> Cells] :
       sheet' = [i \in DOMAIN sheet |-> [sheet[i] EXCEPT !.verdict = filled[i].verdict,
                                                         !.check = filled[i].check]]
  /\ UNCHANGED <<files, drawn, next, edits, problems, outcome>>

(* A row is deleted, copied, changed, given another id or taken from a     *)
(* sheet of another review.                                                *)
Edits(rows) ==
  {RemoveAt(rows, i) : i \in DOMAIN rows}
    \union {Append(rows, rows[i]) : i \in DOMAIN rows}
    \union {[rows EXCEPT ![i].item = Blank] : i \in DOMAIN rows}
    \union {[rows EXCEPT ![i].id = other] : i \in DOMAIN rows, other \in 1..(Len(drawn) + 1)}

Edit ==
  /\ rpc = "edit" /\ edits < MaxEdits
  /\ sheet' \in Edits(sheet)
  /\ edits' = edits + 1
  /\ UNCHANGED <<files, drawn, next, rpc, problems, outcome>>

-----------------------------------------------------------------------------
(* score_citations.  Of several rows with one id only the first counts.    *)
Counted ==
  {i \in DOMAIN sheet : /\ sheet[i].id \in DOMAIN drawn
                        /\ \A j \in 1..(i - 1) : sheet[j].id # sheet[i].id}

Seen == {sheet[i].id : i \in DOMAIN sheet}

Missing == DOMAIN drawn \ Seen

(* The hash covers the id and the item of a row.                           *)
Altered(row) == row.item # drawn[row.id]

(* An entry of an arm that the key does not list is not looked at further. *)
Listed == {i \in Counted : drawn[sheet[i].id].arm \in Arms}

(* Mutant: what is written of the candidate is not looked at.              *)
ChecksUnread == {}

UnknownChecks == {i \in Listed : sheet[i].check \notin CandidateChecks \union {Blank}}

Problems ==
  {<<"duplicate", sheet[i].id>> : i \in {k \in DOMAIN sheet :
                                           \E j \in 1..(k - 1) : sheet[j].id = sheet[k].id}}
    \union {<<"unknown", id>> : id \in Seen \ DOMAIN drawn}
    \union {<<"changed", sheet[i].id>> : i \in {k \in Counted : Altered(sheet[k])}}
    \union {<<"arm", sheet[i].id>> : i \in Counted \ Listed}
    \union {<<"verdict", sheet[i].id>> :
              i \in {k \in Listed : sheet[k].verdict \notin Verdicts \union {Blank}}}
    \union {<<"check", sheet[i].id>> : i \in UnknownChecks}
    \union {<<"blank", sheet[i].id>> :
              i \in {k \in Listed : Blank \in {sheet[k].verdict, sheet[k].check}}}
    \union {<<"missing", id>> : id \in Missing}

CountOf(arm, verdict) ==
  Cardinality({i \in Counted : drawn[sheet[i].id].arm = arm /\ sheet[i].verdict = verdict})

Sampled(arm) ==
  Cardinality({i \in Counted : drawn[sheet[i].id].arm = arm})
    + Cardinality({id \in Missing : drawn[id].arm = arm})

(* ArmScore.judge: nine of ten scorable statements are supported, and not  *)
(* more than one of ten is unclear.                                        *)
Judge(arm) ==
  LET supported == CountOf(arm, "supported")
      scorable == supported + CountOf(arm, "unsupported")
  IN CASE scorable = 0 -> "unmeasured"
       [] scorable > 0 /\ CountOf(arm, "unclear") * 10 > Sampled(arm) -> "deferred"
       [] OTHER -> IF supported * 10 >= scorable * 9 THEN "passed" ELSE "failed"

Score ==
  /\ rpc = "edit"
  /\ rpc' = "scored"
  /\ problems' = Problems
  /\ outcome' = [arm \in Arms |-> IF Problems = {} THEN Judge(arm) ELSE Blank]
  /\ UNCHANGED <<files, drawn, next, sheet, edits>>

ReviewNext == Draw \/ Dump \/ Fill \/ Edit \/ Score

ReviewSpec == ReviewInit /\ [][ReviewNext]_reviewVars

-----------------------------------------------------------------------------
(* The sample of an arm takes no statement twice, at most PerCase of any   *)
(* case over all its files, and is as large as that and PerArm allow: a    *)
(* talkative case cannot crowd out others, and a second file fills up what *)
(* the first one lacks.                                                    *)
FairSample ==
  /\ \A i, j \in DOMAIN drawn : drawn[i] = drawn[j] => i = j
  /\ rpc # "draw" => \A arm \in Arms :
       LET all == UNION {{i} \X files[i].statements :
                           i \in {k \in DOMAIN files : files[k].arm = arm}}
           of(case) == {x \in all : x[2].case = case}
           cases == {x[2].case : x \in all}
           taken(case) == {i \in OfArm(arm) : drawn[i].statement.case = case}
       IN /\ \A case \in cases : Cardinality(taken(case)) <= PerCase
          /\ \A i \in OfArm(arm) : <<drawn[i].source, drawn[i].statement>> \in all
          /\ \/ Cardinality(OfArm(arm)) = PerArm
             \/ \A case \in cases : Cardinality(taken(case)) = Smaller(PerCase, Cardinality(of(case)))

(* An arm has an outcome only if every statement that was drawn, of every  *)
(* arm, is on the sheet once and unchanged with a known word in both       *)
(* cells, and then the outcome is that of these statements; a complete     *)
(* sheet is never refused (score_citations: a damaged or partial sheet     *)
(* declares no pass).                                                      *)
VerdictNeedsReview ==
  rpc = "scored" =>
    LET rows(id) == {i \in DOMAIN sheet : sheet[i].id = id}
        complete == /\ \A i \in DOMAIN sheet : sheet[i].id \in DOMAIN drawn
                    /\ \A id \in DOMAIN drawn :
                         /\ Cardinality(rows(id)) = 1
                         /\ \A i \in rows(id) : /\ sheet[i].item = drawn[id]
                                                /\ sheet[i].verdict \in Verdicts
                                                /\ sheet[i].check \in CandidateChecks
        said(arm, verdict) ==
          Cardinality({id \in OfArm(arm) : \E i \in rows(id) : sheet[i].verdict = verdict})
    IN /\ complete <=> (\A arm \in Arms : outcome[arm] # Blank)
       /\ \A arm \in Arms : outcome[arm] # Blank => complete
       /\ \A arm \in Arms :
            /\ outcome[arm] = "passed" =>
                 /\ 10 * said(arm, "supported")
                      >= 9 * (said(arm, "supported") + said(arm, "unsupported"))
                 /\ said(arm, "supported") > 0
                 /\ 10 * said(arm, "unclear") <= Cardinality(OfArm(arm))
            /\ outcome[arm] = "failed" => 10 * said(arm, "unsupported") > said(arm, "supported")
=============================================================================
