----------------------------- MODULE Recommend ------------------------------
(***************************************************************************)
(* recommend_for_question, the degradation ladder of POST /recommend: an   *)
(* embedding, a search plan and an advice are fetched from remote services *)
(* with no session open, three short sessions read the database before,    *)
(* between and after them.  Every statement is a step of its own (READ     *)
(* COMMITTED): collecting runs and the index batch commit in between.      *)
(***************************************************************************)
EXTENDS Integers, FiniteSets, Sequences

CONSTANTS
  Requests,
  Repos, Images, Docs,   \* repositories, their tags, sections of their READMEs
  RepoOf,                \* the repository of an image or a section
  Conditions,            \* kinds of search conditions that occur
  ChunkK, ForcedK,       \* chunk_k and FORCED_EVIDENCE_CHUNKS
  Pool,                  \* connections: db_pool_size + db_max_overflow
  MayFail,               \* which steps may fail
  MaxCommits, MaxReindexes,  \* bounds on what the batches do
  Invented,              \* an image name or a quote the language model made up
  None

Relaxing == <<"size", "distribution", "architecture", "version">>

ASSUME RecommendAssumption ==
  /\ RepoOf \in [Images \union Docs -> Repos]
  /\ Conditions \subseteq {Relaxing[k] : k \in DOMAIN Relaxing}
  /\ ChunkK \in Nat \ {0} /\ ForcedK \in Nat \ {0} /\ Pool \in Nat \ {0}
  /\ MayFail \subseteq {"embedding", "plan", "advise", "db", "pool"}
  /\ MaxCommits \in Nat /\ MaxReindexes \in Nat
  /\ Invented \notin Images /\ None \notin Repos \union Images

VARIABLES
  tag,      \* image_tags and image_variants: digest and met conditions, or None
  doc,      \* documents: the text of each section, or None
  commits, reindexes,  \* how often the batches committed
  pc,       \* where each request stands
  loc,      \* its locals
  conns,    \* the requests that hold a connection of the pool
  answer,   \* the response of each request, None before and for a 500
  window    \* history: what the database has said since the request began

storeVars == <<tag, doc, commits, reindexes>>
vars == <<storeVars, pc, loc, conns, answer, window>>

Waiting == {"wantNames", "wantSearch", "wantVerify"}
InDb    == {"names", "rank", "load", "rankOwn", "loadOwn", "tags", "filter",
            "rows", "platforms", "verify"}
Remote  == {"embed", "plan", "advise"}
Over    == {"idle", "answered"}

Tagged  == {i \in Images : tag[i] # None}
Written == {d \in Docs : doc[d] # None}
CurrentFacts ==
  (UNION {{<<"digest", i, tag[i].digest>>, <<"platforms", i, tag[i].digest>>} : i \in Tagged})
    \union {<<"text", d, doc[d]>> : d \in Written}

FreshLocals == [plan |-> None, hits |-> {}, evidence |-> <<>>, own |-> <<>>,
                refs |-> {}, conds |-> {}, chosen |-> {}, rows |-> <<>>,
                cands |-> <<>>, rec |-> None, degraded |-> FALSE]

TagRows     == [digest : 0..MaxCommits, fits : SUBSET Conditions]
SearchPlans == [repo : Repos \union {None}, conds : SUBSET Conditions]

ASSUME NoneAssumption == None \notin TagRows \union SearchPlans

Init ==
  /\ tag \in [Images -> {row \in TagRows : row.digest = 0} \union {None}]
  /\ doc \in [Docs -> {0, None}]
  /\ commits = 0 /\ reindexes = 0
  /\ pc = [r \in Requests |-> "idle"]
  /\ loc = [r \in Requests |-> FreshLocals]
  /\ conns = {}
  /\ answer = [r \in Requests |-> None]
  /\ window = [r \in Requests |-> {}]

-----------------------------------------------------------------------------
(* The batches: what one transaction of theirs commits.                    *)

Observe == window' = [r \in Requests |-> IF pc[r] \in Over THEN window[r]
                                         ELSE window[r] \union CurrentFacts']

(* A page of a collecting run: new and changed tags get new images.        *)
CollectPage(repo) ==
  /\ commits < MaxCommits
  /\ commits' = commits + 1
  /\ \E page \in SUBSET {i \in Images : RepoOf[i] = repo} \ {{}} :
     \E fits \in [page -> SUBSET Conditions] :
       tag' = [i \in Images |-> IF i \in page
                                THEN [digest |-> commits + 1, fits |-> fits[i]]
                                ELSE tag[i]]
  /\ UNCHANGED <<doc, reindexes, pc, loc, conns, answer>>
  /\ Observe

(* derive_repository: the derived columns are filled, no image changes.    *)
Derive(repo) ==
  /\ commits < MaxCommits
  /\ commits' = commits + 1
  /\ \E fits \in [{i \in Tagged : RepoOf[i] = repo} -> SUBSET Conditions] :
       tag' = [i \in Images |-> IF i \in DOMAIN fits THEN [tag[i] EXCEPT !.fits = fits[i]]
                                ELSE tag[i]]
  /\ UNCHANGED <<doc, reindexes, pc, loc, conns, answer>>
  /\ Observe

(* index_readme: the README's sections as they are now replace the old     *)
(* ones, sections that disappeared are deleted.                            *)
IndexReadme(repo) ==
  /\ reindexes < MaxReindexes
  /\ reindexes' = reindexes + 1
  /\ \E written, gone \in SUBSET {d \in Docs : RepoOf[d] = repo} :
       doc' = [d \in Docs |-> IF d \in written THEN reindexes + 1
                              ELSE IF d \in gone THEN None ELSE doc[d]]
  /\ UNCHANGED <<tag, commits, pc, loc, conns, answer>>
  /\ Observe

-----------------------------------------------------------------------------
Goto(r, where) == pc' = [pc EXCEPT ![r] = where]
Release(r)     == conns' = conns \ {r}

(* The response; it ends the request and drops its locals.                 *)
Respond(r, response) ==
  /\ answer' = [answer EXCEPT ![r] = response]
  /\ Goto(r, "answered")
  /\ loc' = [loc EXCEPT ![r] = FreshLocals]
  /\ window' = [window EXCEPT ![r] = {}]

WithoutRecommendation(r, cands, evidence) ==
  [image |-> None, pinned |-> {}, alternatives |-> {}, verified |-> {},
   cands |-> cands, evidence |-> evidence, degraded |-> TRUE,
   plan |-> loc[r].plan, applied |-> loc[r].conds]

-----------------------------------------------------------------------------
(* The remote calls.  post_json has retried already when one fails.        *)

Begin(r) ==
  /\ pc[r] = "idle"
  /\ Goto(r, "embed")
  /\ window' = [window EXCEPT ![r] = CurrentFacts]
  /\ UNCHANGED <<storeVars, loc, conns, answer>>

Embed(r) ==
  /\ pc[r] = "embed"
  /\ Goto(r, "wantNames")
  /\ UNCHANGED <<storeVars, loc, conns, answer, window>>

EmbedFails(r) ==
  /\ pc[r] = "embed" /\ "embedding" \in MayFail
  /\ Respond(r, WithoutRecommendation(r, <<>>, <<>>))
  /\ UNCHANGED <<storeVars, conns>>

(* normalize_plan drops a repository that is not on the list.              *)
Normalized(named) == IF named \in Repos THEN named ELSE None

Plan(r) ==
  /\ pc[r] = "plan"
  /\ \E named \in Repos \union {Invented}, conds \in SUBSET Conditions :
       loc' = [loc EXCEPT ![r].plan = [repo |-> Normalized(named), conds |-> conds]]
  /\ Goto(r, "wantSearch")
  /\ UNCHANGED <<storeVars, conns, answer, window>>

PlanFails(r) ==
  /\ pc[r] = "plan" /\ "plan" \in MayFail
  /\ loc' = [loc EXCEPT ![r].degraded = TRUE]
  /\ Goto(r, "wantSearch")
  /\ UNCHANGED <<storeVars, conns, answer, window>>

(* The advice: an image, alternatives, and citations of sections; any of   *)
(* them may be made up.                                                    *)
Quotes == [doc : Docs, text : 0..MaxReindexes \union {Invented}]

Advise(r) ==
  /\ pc[r] = "advise"
  /\ \E image \in Images \union {Invented},
        alternatives \in {{}} \union {{i} : i \in Images \union {Invented}},
        quotes \in {{}} \union {{q} : q \in Quotes} :
       loc' = [loc EXCEPT ![r].rec = [image |-> image, quotes |-> quotes,
                                      alternatives |-> alternatives]]
  /\ Goto(r, "wantVerify")
  /\ UNCHANGED <<storeVars, conns, answer, window>>

AdviseFails(r) ==
  /\ pc[r] = "advise" /\ "advise" \in MayFail
  /\ Respond(r, WithoutRecommendation(r, loc[r].cands, loc[r].evidence))
  /\ UNCHANGED <<storeVars, conns>>

-----------------------------------------------------------------------------
(* The sessions.  A session takes a connection with its first statement    *)
(* and gives it back when it closes.  Verification has no statement for an *)
(* image that was not offered.                                             *)

Offered(r, image) == image \in DOMAIN loc[r].cands
Wants(r) == pc[r] \in Waiting /\ (pc[r] = "wantVerify" => Offered(r, loc[r].rec.image))

Acquire(r) ==
  /\ Wants(r)
  /\ Cardinality(conns) < Pool
  /\ conns' = conns \union {r}
  /\ Goto(r, CASE pc[r] = "wantNames"  -> "names"
               [] pc[r] = "wantSearch" -> "rank"
               [] pc[r] = "wantVerify" -> "verify")
  /\ UNCHANGED <<storeVars, loc, answer, window>>

(* The pool's own timeout, which nothing catches.                          *)
PoolTimeout(r) ==
  /\ Wants(r) /\ "pool" \in MayFail
  /\ Cardinality(conns) >= Pool
  /\ Respond(r, None)
  /\ UNCHANGED <<storeVars, conns>>

(* A statement that fails or times out; nothing catches it either.         *)
DbFails(r) ==
  /\ pc[r] \in InDb /\ "db" \in MayFail
  /\ Respond(r, None)
  /\ Release(r)
  /\ UNCHANGED storeVars

(* Mutant: one session for the whole request.                              *)
ReadNamesHolding(r) ==
  /\ pc[r] = "names"
  /\ Goto(r, "plan")
  /\ UNCHANGED <<storeVars, loc, conns, answer, window>>

ReadNames(r) ==
  /\ pc[r] = "names"
  /\ Release(r)
  /\ Goto(r, "plan")
  /\ UNCHANGED <<storeVars, loc, answer, window>>

(* search_chunks_by_vector, first statement: the nearest sections, at most *)
(* k of them, some if there are any.                                       *)
Nearest(from, k) == {hits \in SUBSET from : Cardinality(hits) <= k /\
                                            (hits = {} => from = {})}

Rank(r) ==
  /\ pc[r] = "rank"
  /\ \E hits \in Nearest(Written, ChunkK) : loc' = [loc EXCEPT ![r].hits = hits]
  /\ Goto(r, "load")
  /\ UNCHANGED <<storeVars, conns, answer, window>>

RankOwn(r) ==
  /\ pc[r] = "rankOwn"
  /\ \E hits \in Nearest({d \in Written : RepoOf[d] = loc[r].plan.repo}, ForcedK) :
       loc' = [loc EXCEPT ![r].hits = hits]
  /\ Goto(r, "loadOwn")
  /\ UNCHANGED <<storeVars, conns, answer, window>>

(* Second statement: the sections' texts.  A section that was deleted in   *)
(* between is None, and reading its repository raises.                     *)
Texts(r)      == [d \in loc[r].hits |-> doc[d]]
Reps(texts)   == {RepoOf[d] : d \in DOMAIN texts}
Of(texts, rs) == [d \in {e \in DOMAIN texts : RepoOf[e] \in rs} |-> texts[d]]
Vanished(r)   == \E d \in loc[r].hits : doc[d] = None
Named(r)      == loc[r].plan # None /\ loc[r].plan.repo # None

Load(r) ==
  /\ pc[r] = "load" /\ ~Vanished(r)
  /\ LET found == Named(r) /\ loc[r].plan.repo \in Reps(Texts(r))
     IN  /\ loc' = [loc EXCEPT ![r].evidence = Texts(r), ![r].hits = {},
                      ![r].own = IF found THEN Of(Texts(r), {loc[r].plan.repo})
                                 ELSE <<>>]
         /\ Goto(r, IF Named(r) /\ ~found THEN "rankOwn" ELSE "tags")
  /\ UNCHANGED <<storeVars, conns, answer, window>>

LoadOwn(r) ==
  /\ pc[r] = "loadOwn" /\ ~Vanished(r)
  /\ loc' = [loc EXCEPT ![r].own = Texts(r), ![r].hits = {}]
  /\ Goto(r, "tags")
  /\ UNCHANGED <<storeVars, conns, answer, window>>

LoadRaises(r) ==
  /\ pc[r] \in {"load", "loadOwn"} /\ Vanished(r)
  /\ Respond(r, None)
  /\ Release(r)
  /\ UNCHANGED storeVars

(* _has_tags, then _tag_refs: the plan's repository is forced if it has    *)
(* evidence and tags, else the repositories of the evidence are searched   *)
(* and a version means nothing.  These statements are one step: rows of    *)
(* image_tags are never deleted, so a later one sees no fewer tags.        *)
ReadTags(r) ==
  LET plan   == loc[r].plan
      forced == /\ Named(r) /\ DOMAIN loc[r].own # {}
                /\ \E i \in Tagged : RepoOf[i] = plan.repo
      used   == IF forced THEN loc[r].own ELSE loc[r].evidence
  IN  /\ pc[r] = "tags"
      /\ loc' = [loc EXCEPT
           ![r].evidence = used, ![r].own = <<>>,
           ![r].refs = {i \in Tagged : RepoOf[i] \in Reps(used)},
           ![r].conds = IF plan = None THEN {}
                        ELSE plan.conds \ IF forced THEN {} ELSE {"version"},
           ![r].degraded = @ \/ (Named(r) /\ ~forced)]
      /\ Goto(r, "filter")
      /\ UNCHANGED <<storeVars, conns, answer, window>>

(* relaxations: the weakest condition goes first.                          *)
Relaxed(conds) ==
  conds \ {Relaxing[k] : k \in {j \in DOMAIN Relaxing :
             Relaxing[j] \in conds /\ \A m \in 1..(j - 1) : Relaxing[m] \notin conds}}

(* Mutant: a relaxed condition is forgotten.                               *)
RelaxQuietly(r) ==
  /\ loc[r].conds # {}
  /\ loc' = [loc EXCEPT ![r].conds = Relaxed(@)]
  /\ UNCHANGED <<pc, conns, answer, window>>

(* Nothing was selected: the next stage of the relaxation.                 *)
Relax(r) ==
  /\ loc[r].conds # {}
  /\ loc' = [loc EXCEPT ![r].conds = Relaxed(@), ![r].degraded = TRUE]
  /\ UNCHANGED <<pc, conns, answer, window>>

(* One stage: the tags that meet its conditions, and select_tags among     *)
(* them, which may leave out any.                                          *)
Filter(r) ==
  LET allowed == {i \in loc[r].refs : loc[r].conds \subseteq tag[i].fits}
  IN  /\ pc[r] = "filter"
      /\ \/ \E chosen \in SUBSET allowed \ {{}} :
              /\ loc' = [loc EXCEPT ![r].chosen = chosen, ![r].refs = {}]
              /\ Goto(r, "rows")
              /\ UNCHANGED <<conns, answer, window>>
         \/ Relax(r)
         \/ /\ loc[r].conds = {}
            /\ Respond(r, WithoutRecommendation(r, <<>>, <<>>))
            /\ Release(r)
      /\ UNCHANGED storeVars

(* _build_candidates: the rows of the tags, then their platforms.          *)
ReadRows(r) ==
  /\ pc[r] = "rows"
  /\ loc' = [loc EXCEPT ![r].rows = [i \in loc[r].chosen |-> tag[i].digest],
                        ![r].chosen = {}]
  /\ Goto(r, "platforms")
  /\ UNCHANGED <<storeVars, conns, answer, window>>

(* number_evidence keeps the evidence of repositories with a candidate.    *)
ReadPlatforms(r) ==
  LET rows == loc[r].rows
  IN  /\ pc[r] = "platforms"
      /\ loc' = [loc EXCEPT
           ![r].cands = [i \in DOMAIN rows |->
                           [digest |-> rows[i], platforms |-> tag[i].digest]],
           ![r].evidence = Of(@, {RepoOf[i] : i \in DOMAIN rows}),
           ![r].rows = <<>>]
      /\ Release(r)
      /\ Goto(r, "advise")
      /\ UNCHANGED <<storeVars, answer, window>>

-----------------------------------------------------------------------------
(* Verification, against the candidates and the evidence of this request.  *)

(* Mutant: any stored image will do.                                       *)
RealIfStored(r, image) == image \in Tagged

Real(r, image) == Offered(r, image) /\ image \in Tagged

(* Mutant: the quote is looked up in the database.                         *)
GenuineInStore(r, quote, repos) ==
  /\ quote.doc \in DOMAIN loc[r].evidence
  /\ doc[quote.doc] = quote.text
  /\ RepoOf[quote.doc] \in repos

(* verify_citation.                                                        *)
Genuine(r, quote, repos) ==
  /\ quote.doc \in DOMAIN loc[r].evidence
  /\ loc[r].evidence[quote.doc] = quote.text
  /\ RepoOf[quote.doc] \in repos

(* Mutant: the digest is read again.                                       *)
PinnedFresh(r, image) == {[digest |-> tag[i].digest, platforms |-> tag[i].digest] :
                            i \in {image} \intersect Tagged}

(* The candidate that carries the image.                                   *)
Pinned(r, image) == {loc[r].cands[i] : i \in {image} \intersect DOMAIN loc[r].cands}

(* An image that is no candidate is discarded without a statement.         *)
Discard(r) ==
  /\ pc[r] \in {"wantVerify", "verify"} /\ ~Real(r, loc[r].rec.image)
  /\ pc[r] = IF Offered(r, loc[r].rec.image) THEN "verify" ELSE "wantVerify"
  /\ Release(r)
  /\ Respond(r, WithoutRecommendation(r, loc[r].cands, loc[r].evidence))
  /\ UNCHANGED storeVars

Verify(r) ==
  LET rec   == loc[r].rec
      kept  == {i \in rec.alternatives : Real(r, i)}
      repos == {RepoOf[i] : i \in {rec.image} \union kept}
  IN  /\ pc[r] = "verify" /\ Real(r, rec.image)
      /\ Release(r)
      /\ Respond(r,
           [image |-> rec.image, pinned |-> Pinned(r, rec.image),
            alternatives |-> kept,
            verified |-> {q \in rec.quotes : Genuine(r, q, repos)},
            cands |-> loc[r].cands, evidence |-> loc[r].evidence,
            degraded |-> loc[r].degraded,
            plan |-> loc[r].plan, applied |-> loc[r].conds])
      /\ UNCHANGED storeVars

-----------------------------------------------------------------------------
Statement(r) ==
  \/ ReadNames(r) \/ Rank(r) \/ RankOwn(r) \/ Load(r) \/ LoadOwn(r)
  \/ LoadRaises(r) \/ ReadTags(r) \/ Filter(r) \/ ReadRows(r)
  \/ ReadPlatforms(r) \/ Discard(r) \/ Verify(r)

RemoteCall(r) == \/ Embed(r) \/ EmbedFails(r) \/ Plan(r) \/ PlanFails(r)
                 \/ Advise(r) \/ AdviseFails(r)

Next ==
  \/ \E repo \in Repos : CollectPage(repo) \/ Derive(repo) \/ IndexReadme(repo)
  \/ \E r \in Requests : \/ Begin(r) \/ RemoteCall(r) \/ Acquire(r)
                         \/ PoolTimeout(r) \/ Statement(r) \/ DbFails(r)

Spec == Init /\ [][Next]_vars

(* Statements end (statement_timeout) and the pool hands out connections.  *)
(* No fairness for remote calls, and none for the pool's timeout: it must  *)
(* not be what saves a waiting request.                                    *)
FairSpec == Spec /\ \A r \in Requests : WF_vars(Statement(r)) /\ SF_vars(Acquire(r))

-----------------------------------------------------------------------------
Answered == {r \in Requests : answer[r] # None}

(* Every variable keeps its type.                                          *)
TypeOK ==
  /\ tag \in [Images -> TagRows \union {None}]
  /\ doc \in [Docs -> 0..MaxReindexes \union {None}]
  /\ commits \in 0..MaxCommits /\ reindexes \in 0..MaxReindexes
  /\ pc \in [Requests -> Waiting \union InDb \union Remote \union Over]
  /\ \A r \in Requests : loc[r].plan \in SearchPlans \union {None}
  /\ conns \subseteq Requests /\ Cardinality(conns) <= Pool

(* A recommended image, and every alternative, is one of the candidates of *)
(* its own answer and stored; its digest is the one that the candidate     *)
(* shows (verify_recommendation, RecommendedImage).                        *)
RecommendationIsCandidate ==
  \A r \in Answered : answer[r].image # None =>
    /\ {answer[r].image} \union answer[r].alternatives
         \subseteq DOMAIN answer[r].cands \intersect Tagged
    /\ answer[r].pinned = {answer[r].cands[answer[r].image]}

(* A verified citation stands in a text that the answer itself carries, of *)
(* the repository of the recommended image or of an alternative that was   *)
(* kept, however the documents were indexed anew meanwhile (design.md 7).  *)
CitationsAreCarried ==
  \A r \in Answered : \A q \in answer[r].verified :
    /\ q.doc \in DOMAIN answer[r].evidence
    /\ answer[r].evidence[q.doc] = q.text
    /\ RepoOf[q.doc] \in {RepoOf[i] : i \in {answer[r].image} \union answer[r].alternatives}

(* An answer that does not call itself degraded recommends an image from a *)
(* search that kept to the plan: its repository if it names one, and all   *)
(* its conditions, a version only counting within a repository.            *)
UndegradedKeepsPlan ==
  \A r \in Answered : ~answer[r].degraded =>
    LET plan == answer[r].plan
    IN  /\ answer[r].image # None /\ plan # None
        /\ plan.repo # None => \A i \in DOMAIN answer[r].cands : RepoOf[i] = plan.repo
        /\ answer[r].applied = plan.conds \ IF plan.repo = None THEN {"version"} ELSE {}

(* A connection is held exactly from the first to the last statement of a  *)
(* session, so never during a remote call (recommend_for_question).        *)
SessionsAreShort == conns = {r \in Requests : pc[r] \in InDb}

(* A request that waits for a connection gets one, even if every other     *)
(* request hangs in a remote call for ever.                                *)
WaitersAreServed ==
  \A r \in Requests : pc[r] \in Waiting ~> pc[r] \in InDb \union Over

(* What the docstring of recommend_for_question says: whatever the stage   *)
(* at which the ladder stops, the answer is a 200.                         *)
AlwaysAnswers200 == \A r \in Requests : pc[r] = "answered" => answer[r] # None

ShownBy(a) ==
  {<<"digest", i, a.cands[i].digest>> : i \in DOMAIN a.cands}
    \union {<<"platforms", i, a.cands[i].platforms>> : i \in DOMAIN a.cands}
    \union {<<"text", d, a.evidence[d]>> : d \in DOMAIN a.evidence}

(* The abstract service that the ladder implements.                        *)
Service == INSTANCE AnswerService WITH
  Facts  <- {"digest", "platforms", "text"} \X (Images \union Docs)
              \X (0..(MaxCommits + MaxReindexes)),
  facts  <- CurrentFacts,
  stage  <- [r \in Requests |-> IF pc[r] \in Over THEN pc[r] ELSE "asked"],
  reply  <- [r \in Requests |->
               IF answer[r] = None THEN None
               ELSE [shown  |-> ShownBy(answer[r]),
                     pinned |-> {<<"digest", answer[r].image, p.digest>> :
                                   p \in answer[r].pinned},
                     quoted |-> {<<"text", q.doc, q.text>> : q \in answer[r].verified},
                     recommends |-> answer[r].image # None,
                     degraded   |-> answer[r].degraded]]

(* Every answer is one of the abstract service.                            *)
ImplementsAnswerService == Service!Spec
=============================================================================
