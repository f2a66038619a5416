------------------------------- MODULE Search -------------------------------
(***************************************************************************)
(* search_candidates_with_plan over derived tags: the conditions of a plan *)
(* become filters (search/filters.py), are relaxed one by one as long as   *)
(* no repository has a candidate, and select_tags orders what fits.        *)
(*                                                                         *)
(* A tag has, beside what TagSelect needs, the words of its name and its   *)
(* Linux platforms.  Nothing commits during the search here; Recommend has *)
(* the interleavings.                                                      *)
(***************************************************************************)
EXTENDS TagSelect, Derive

CONSTANTS
  Searches,  \* collected repositories, those the vector search finds, and plans
  Limit      \* tags_per_repo

(* derive.py relies on it that a codename never comes alone: behind a word *)
(* like ltsc2022 there is a distribution.                                  *)
AreWords(words) ==
  /\ words \in Seq(ToSet(words))
  /\ \A w \in ToSet(words) :
       w.kind = "ltsc" => \E v \in ToSet(words) : v.kind \in Distributions \union {"windows"}

AreConditions(conds) ==
  /\ conds = [version |-> conds.version, archs |-> conds.archs, dists |-> conds.dists,
              excluded |-> conds.excluded, size |-> conds.size]
  /\ conds.archs \in Seq(ToSet(conds.archs)) /\ conds.size \in Nat \union {None}
  /\ None \notin conds.dists /\ None \notin conds.excluded

ASSUME SearchAssumption ==
  /\ Limit \in Nat \ {0}
  /\ None \notin OsRepositories \union Distributions \union {"windows"}
  /\ \A s \in Searches :
       /\ s.hits \subseteq DOMAIN s.catalogue /\ None \notin DOMAIN s.catalogue
       /\ \A p \in s.plans : p # None => AreConditions(p.conds)
       /\ \A r \in DOMAIN s.catalogue :
            /\ IsRepository(s.catalogue[r]) /\ NoneIsOther(s.catalogue[r])
            /\ \A t \in s.catalogue[r] :
                 AreWords(t.words) /\ \A p \in t.linux : p.size \in Nat

VARIABLES
  catalogue,  \* the tags of each repository
  columns,    \* their derived columns
  hits,       \* repositories with evidence among the nearest chunks
  plan,       \* the SearchPlan, None while there is no search
  at,         \* where the search stands
  searched,   \* the repositories that candidates may come from
  stage,      \* the conditions in force
  relaxed,    \* the conditions that were dropped
  found,      \* the selected tags of each repository that has any
  degraded,
  warned      \* ended lines the user is told about, as <<repository, line>>

storedVars == <<catalogue, columns, hits, plan>>
searchVars == <<storedVars, at, searched, stage, relaxed, found, degraded, warned>>

Architectures == {"amd64", "arm64"}

NoConditions == [version |-> None, archs |-> <<>>, dists |-> {}, excluded |-> {}, size |-> None]

-----------------------------------------------------------------------------
(* Substring of the name: alpine3.24 contains alpine, trixie not debian.   *)
(* Only alpine and ubi are written together with a release; that another   *)
(* value stands inside a longer word or in the version does not occur.     *)
NameContains(t, value) ==
  \E i \in DOMAIN t.words :
    \/ t.words[i].text = value
    \/ t.words[i].kind = value /\ value \in {"alpine", "ubi"}

IsUnderived(col) == col.distribution = None /\ col.codename = None

FitsDistribution(t, col, dists) ==
  dists # {} =>
    \/ col.distribution \in dists \/ col.codename \in dists
    \/ IsUnderived(col) /\ \E v \in dists : NameContains(t, v)

Avoids(t, col, excluded) ==
  \A v \in excluded : ~ (\/ col.distribution = v \/ col.codename = v
                         \/ IsUnderived(col) /\ NameContains(t, v))

(* COALESCE(language_version, tag) is the prefix or continues it.          *)
FitsVersion(t, col, prefix) ==
  prefix # None =>
    ExtendsVersion(prefix, IF col.version = None THEN t.name ELSE col.version)

LinuxVariant(t, architecture, most) ==
  \E p \in t.linux : p.arch = architecture /\ (most # None => p.size <= most)

(* The size counts for the first architecture asked for, else for amd64.   *)
TagFilters(t, col, conds) ==
  /\ FitsDistribution(t, col, conds.dists)
  /\ Avoids(t, col, conds.excluded)
  /\ FitsVersion(t, col, conds.version)
  /\ \A a \in ToSet(conds.archs) : LinuxVariant(t, a, None)
  /\ conds.size # None =>
       LinuxVariant(t, IF conds.archs = <<>> THEN "amd64" ELSE Head(conds.archs), conds.size)

(* Mutant: the distributions are dropped first.                            *)
RelaxDistributionFirst(conds) ==
  CASE conds.dists # {} \/ conds.excluded # {} ->
         <<"distribution", [conds EXCEPT !.dists = {}, !.excluded = {}]>>
    [] conds.size # None -> <<"size", [conds EXCEPT !.size = None]>>
    [] conds.archs # <<>> -> <<"architecture", [conds EXCEPT !.archs = <<>>]>>
    [] OTHER -> <<"version", [conds EXCEPT !.version = None]>>

(* The weakest condition still there, and the conditions without it.       *)
RelaxWeakest(conds) ==
  CASE conds.size # None -> <<"size", [conds EXCEPT !.size = None]>>
    [] conds.size = None /\ (conds.dists # {} \/ conds.excluded # {}) ->
         <<"distribution", [conds EXCEPT !.dists = {}, !.excluded = {}]>>
    [] conds.size = None /\ conds.dists \union conds.excluded = {} /\ conds.archs # <<>> ->
         <<"architecture", [conds EXCEPT !.archs = <<>>]>>
    [] OTHER -> <<"version", [conds EXCEPT !.version = None]>>

AllowedIds(repo, conds) ==
  IF conds = NoConditions THEN None
  ELSE {t \in catalogue[repo] : TagFilters(t, columns[repo][t], conds)}

SelectedIn(repo, conds) ==
  SelectTags(catalogue[repo], Limit, AllowedIds(repo, conds), conds.version)

(* Mutant: every repository relaxes on its own.                            *)
FoundWithFillers(conds) ==
  LET with == {r \in searched : SelectedIn(r, conds) # <<>>}
  IN [r \in IF with = {} THEN {} ELSE searched |->
        IF r \in with THEN SelectedIn(r, conds) ELSE SelectedIn(r, NoConditions)]

(* The candidates of a stage.                                              *)
FoundAt(conds) ==
  LET with == {r \in searched : SelectedIn(r, conds) # <<>>}
  IN [r \in with |-> SelectedIn(r, conds)]

-----------------------------------------------------------------------------
SearchInit ==
  /\ \E s \in Searches : /\ catalogue = s.catalogue /\ hits = s.hits /\ plan \in s.plans
                         /\ columns = [r \in DOMAIN s.catalogue |->
                                         [t \in s.catalogue[r] |-> Underived]]
  /\ at = "collected"
  /\ searched = {} /\ stage = NoConditions /\ relaxed = <<>>
  /\ found = <<>> /\ degraded = FALSE /\ warned = {}

(* derive_repository for all repositories; collecting a changed tag clears *)
(* its columns again.                                                      *)
DeriveAll ==
  /\ at = "collected"
  /\ at' = "derived"
  /\ columns' = [r \in DOMAIN catalogue |-> DeriveRepository(catalogue[r], r)]
  /\ UNCHANGED <<catalogue, hits, plan, searched, stage, relaxed, found, degraded, warned>>

ClearChanged ==
  /\ at = "derived"
  /\ at' = "cleared"
  /\ \E r \in DOMAIN catalogue : \E t \in catalogue[r] :
       columns' = [columns EXCEPT ![r][t] = Underived]
  /\ UNCHANGED <<catalogue, hits, plan, searched, stage, relaxed, found, degraded, warned>>

(* A repository that is named, indexed and collected is the only one; else *)
(* those of the nearest chunks are searched, without the version.  Only if *)
(* the named one is not among them its own chunks are asked for.           *)
HasEvidence(repo) == repo \in hits \/ plan.indexed

HasTags(repo) == repo \in DOMAIN catalogue /\ catalogue[repo] # {}

Begin ==
  /\ at \in {"collected", "derived", "cleared"} /\ plan # None
  /\ at' = "searching"
  /\ LET named == plan.repo # None
         forced == named /\ HasEvidence(plan.repo) /\ HasTags(plan.repo)
     IN /\ searched' = IF forced THEN {plan.repo} ELSE hits
        /\ degraded' = (named /\ ~forced)
        /\ stage' = [plan.conds EXCEPT !.version = IF forced THEN @ ELSE None]
  /\ UNCHANGED <<storedVars, relaxed, found, warned>>

StageEnds ==
  /\ at = "searching"
  /\ FoundAt(stage) # <<>> \/ stage = NoConditions
  /\ at' = "done"
  /\ found' = FoundAt(stage)
  /\ degraded' = (degraded \/ relaxed # <<>>)
  /\ warned' = IF stage.version = None THEN {}
               ELSE UNION {{<<r, line>> : line \in
                              StalePinnedLines(catalogue[r], stage.version, found'[r])}
                             : r \in DOMAIN found'}
  /\ UNCHANGED <<storedVars, searched, stage, relaxed>>

StageFails ==
  /\ at = "searching"
  /\ FoundAt(stage) = <<>> /\ stage # NoConditions
  /\ relaxed' = Append(relaxed, RelaxWeakest(stage)[1])
  /\ stage' = RelaxWeakest(stage)[2]
  /\ UNCHANGED <<storedVars, at, searched, found, degraded, warned>>

SearchNext == DeriveAll \/ ClearChanged \/ Begin \/ StageEnds \/ StageFails

SearchSpec == SearchInit /\ [][SearchNext]_searchVars

-----------------------------------------------------------------------------
(* eval/scoring.py judges a candidate by code of its own.                  *)
ConditionsSatisfied(conds, t, col) ==
  LET derived == {col.distribution, col.codename} \ {None}
      judged == IF conds.archs = <<>> THEN "amd64" ELSE Head(conds.archs)
      sizes == {p.size : p \in {q \in t.linux : q.arch = judged}}
  IN /\ \A i \in DOMAIN conds.archs : \E p \in t.linux : p.arch = conds.archs[i]
     /\ \A v \in conds.excluded : IF derived # {} THEN v \notin derived
                                  ELSE ~NameContains(t, v)
     /\ conds.version # None =>
          ExtendsVersion(conds.version, IF col.version # None THEN col.version ELSE t.name)
     /\ conds.size # None => sizes # {} /\ Min(sizes) <= conds.size

Candidates == UNION {{<<r, t>> : t \in ToSet(found[r])} : r \in DOMAIN found}

Facts(r, t) == ParseTag(t, r)

(* The pair of distribution and codename of a tag was stated together by a *)
(* name of the same image: no column makes an alpine trixie out of two     *)
(* names (comment at collect/derive.py:93).                                *)
PairsAreStated ==
  \A r \in DOMAIN catalogue : \A t \in catalogue[r] :
    LET col == columns[r][t]
    IN col.distribution # None /\ col.codename # None =>
         \E u \in GroupOf(catalogue[r], t) \union {t} :
           /\ Facts(r, u).codename = col.codename
           /\ Facts(r, u).distribution = col.distribution

(* Names of one image that state nothing contradictory get the same        *)
(* columns, whichever of them the user asks for and in whatever order they *)
(* are met.                                                                *)
AliasesAgree ==
  \A r \in DOMAIN catalogue : \A t, u \in catalogue[r] :
    LET facts == {Facts(r, w) : w \in GroupOf(catalogue[r], t)}
        stated(column) == {f[column] : f \in facts} \ {None}
    IN /\ columns[r][t] # Underived /\ columns[r][u] # Underived
       /\ u \in GroupOf(catalogue[r], t)
       /\ \A column \in {"distribution", "codename", "variant"} :
            Cardinality(stated(column)) <= 1
       /\ \A v, w \in stated("version") : ExtendsVersion(v, w) \/ ExtendsVersion(w, v)
       => columns[r][t] = columns[r][u]

(* Every candidate meets the conditions that were not reported as dropped, *)
(* as the evaluation judges them with code of its own.                     *)
CandidatesMeet ==
  \A c \in Candidates : ConditionsSatisfied(stage, c[2], columns[c[1]][c[2]])

(* Moreover it is of a wanted distribution as derivation would say even    *)
(* where the columns are empty (search/filters.py: the meaning is the      *)
(* same, the code is not shared).                                          *)
CandidatesFit ==
  /\ CandidatesMeet
  /\ \A c \in Candidates :
       LET truth == DeriveRepository(catalogue[c[1]], c[1])[c[2]]
       IN stage.dists # {} => {truth.distribution, truth.codename} \intersect stage.dists # {}

(* The plan without its k weakest conditions; the version, which means     *)
(* nothing for other repositories, is never applied to them.               *)
Without(k) == [version |-> IF k >= 4 \/ searched # {plan.repo} THEN None
                           ELSE plan.conds.version,
               archs |-> IF k >= 3 THEN <<>> ELSE plan.conds.archs,
               dists |-> IF k >= 2 THEN {} ELSE plan.conds.dists,
               excluded |-> IF k >= 2 THEN {} ELSE plan.conds.excluded,
               size |-> IF k >= 1 THEN None ELSE plan.conds.size]

Meets(r, t, conds) ==
  LET col == columns[r][t]
  IN /\ ConditionsSatisfied(conds, t, col)
     /\ conds.dists # {} => \/ {col.distribution, col.codename} \intersect conds.dists # {}
                            \/ {col.distribution, col.codename} = {None}
                               /\ \E v \in conds.dists : NameContains(t, v)

Eligible(conds) ==
  {c \in UNION {{r} \X catalogue[r] : r \in searched} :
     /\ Meets(c[1], c[2], conds)
     /\ SelectTags(catalogue[c[1]], Limit, {c[2]}, conds.version) # <<>>}

(* A condition is dropped only if no searched repository has a tag that    *)
(* meets it and all stronger ones and that could be selected, and weaker   *)
(* ones go first; what is not reported as dropped is kept; with everything *)
(* dropped there is a candidate if a searched repository has a Linux tag   *)
(* at all.                                                                 *)
RelaxedOnlyIfNeeded ==
  LET order == <<"size", "distribution", "architecture", "version">>
      keeps(name, conds) == CASE name = "size" -> conds.size = plan.conds.size
                              [] name = "distribution" -> /\ conds.dists = plan.conds.dists
                                                          /\ conds.excluded = plan.conds.excluded
                              [] name = "architecture" -> conds.archs = plan.conds.archs
                              [] OTHER -> conds.version \in {plan.conds.version, None}
  IN at = "done" =>
       /\ \A name \in ToSet(relaxed) : \A k \in 0..3 :
            order[k + 1] = name => \A j \in 0..k : Eligible(Without(j)) = {}
       /\ \A name \in ToSet(order) \ ToSet(relaxed) : keeps(name, stage)
       /\ \A r \in DOMAIN found : r \in searched
       /\ (\E r \in searched : ExcludeWindowsOnly(catalogue[r]) # {}) => found # <<>>
=============================================================================
