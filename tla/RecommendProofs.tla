-------------------------- MODULE RecommendProofs ---------------------------
(***************************************************************************)
(* Proofs about Recommend for every number of requests, repositories,      *)
(* images and sections, and any number of commits and index runs beside    *)
(* them.                                                                   *)
(***************************************************************************)
EXTENDS Recommend, FiniteSetTheorems, TLAPS

Places == Waiting \union InDb \union Remote \union Over

(* The fields of a request's locals.                                       *)
IsLocals(l) ==
  l = [plan |-> l.plan, hits |-> l.hits, evidence |-> l.evidence, own |-> l.own,
       refs |-> l.refs, conds |-> l.conds, chosen |-> l.chosen, rows |-> l.rows,
       cands |-> l.cands, rec |-> l.rec, degraded |-> l.degraded]

Typed ==
  /\ tag \in [Images -> TagRows \union {None}]
  /\ doc \in [Docs -> 0..MaxReindexes \union {None}]
  /\ commits \in 0..MaxCommits /\ reindexes \in 0..MaxReindexes
  /\ pc \in [Requests -> Places]
  /\ answer = [r \in Requests |-> answer[r]]
  /\ window = [r \in Requests |-> window[r]]
  /\ loc = [r \in Requests |-> loc[r]]
  /\ \A r \in Requests : IsLocals(loc[r]) /\ loc[r].degraded \in BOOLEAN

-----------------------------------------------------------------------------
(* The search has a plan, or has failed to get one; it has candidates.     *)
Searching == {"wantSearch", "rank", "load", "rankOwn", "loadOwn", "tags"}
Selecting == {"filter", "rows", "platforms"}
Advising  == {"advise", "wantVerify", "verify"}

(* The images that a request works on, by the stage it is at.              *)
AtHand(r) == IF pc[r] = "filter" THEN loc[r].refs
             ELSE IF pc[r] = "rows" THEN loc[r].chosen
             ELSE IF pc[r] = "platforms" THEN DOMAIN loc[r].rows
             ELSE DOMAIN loc[r].cands

(* A request that has not degraded yet has kept to its plan so far.        *)
Keeping(r) ==
  LET plan == loc[r].plan
  IN  /\ pc[r] \in Searching /\ ~loc[r].degraded => plan # None
      /\ pc[r] \in {"rankOwn", "loadOwn"} => Named(r)
      /\ pc[r] = "loadOwn" => \A d \in loc[r].hits : RepoOf[d] = plan.repo
      /\ pc[r] = "tags" /\ Named(r) => \A d \in DOMAIN loc[r].own : RepoOf[d] = plan.repo
      /\ pc[r] \in Selecting \union Advising /\ ~loc[r].degraded =>
           /\ plan # None
           /\ plan.repo # None => \A i \in AtHand(r) : RepoOf[i] = plan.repo
           /\ loc[r].conds = plan.conds \ IF plan.repo = None THEN {"version"} ELSE {}

AreTrue(texts, known) == \A d \in DOMAIN texts : <<"text", d, texts[d]>> \in known

(* What a request has read and carries on was said by the database since   *)
(* it began; the images it works on are stored.                            *)
Knowing(r) ==
  LET known == window[r]
  IN  /\ pc[r] \notin Over => CurrentFacts \subseteq known
      /\ pc[r] \in {"load", "loadOwn"} => loc[r].hits \subseteq Docs
      /\ pc[r] \in {"rankOwn", "loadOwn", "tags"} \union Selecting \union Advising =>
           AreTrue(loc[r].evidence, known)
      /\ pc[r] = "tags" => AreTrue(loc[r].own, known)
      /\ pc[r] \in Selecting \union Advising => AtHand(r) \subseteq Tagged
      /\ pc[r] = "platforms" =>
           \A i \in DOMAIN loc[r].rows : <<"digest", i, loc[r].rows[i]>> \in known
      /\ pc[r] \in Advising =>
           \A i \in DOMAIN loc[r].cands :
             /\ <<"digest", i, loc[r].cands[i].digest>> \in known
             /\ <<"platforms", i, loc[r].cands[i].platforms>> \in known

RequestInv(r) == Keeping(r) /\ Knowing(r)

-----------------------------------------------------------------------------
(* An answer that may be given to a request that knows these facts.        *)
KeptPlan(a) ==
  a.image # None /\ a.plan # None
    /\ (a.plan.repo # None => \A i \in DOMAIN a.cands : RepoOf[i] = a.plan.repo)
    /\ a.applied = a.plan.conds \ IF a.plan.repo = None THEN {"version"} ELSE {}

Recommends(a) ==
  /\ {a.image} \union a.alternatives \subseteq DOMAIN a.cands \intersect Tagged
  /\ a.pinned = {a.cands[a.image]}

Carries(a) ==
  \A q \in a.verified :
    /\ q.doc \in DOMAIN a.evidence
    /\ a.evidence[q.doc] = q.text
    /\ RepoOf[q.doc] \in {RepoOf[i] : i \in {a.image} \union a.alternatives}

Good(a, known) ==
  /\ a.image # None => Recommends(a)
  /\ a.image = None => a.degraded /\ a.pinned = {}
  /\ Carries(a)
  /\ ~a.degraded => KeptPlan(a)
  /\ AreTrue(a.evidence, known)
  /\ \A i \in DOMAIN a.cands : /\ <<"digest", i, a.cands[i].digest>> \in known
                               /\ <<"platforms", i, a.cands[i].platforms>> \in known

GoodAnswers == /\ RecommendationIsCandidate /\ CitationsAreCarried /\ UndegradedKeepsPlan

Inv == Typed /\ (\A r \in Requests : RequestInv(r)) /\ GoodAnswers

-----------------------------------------------------------------------------
USE RecommendAssumption, NoneAssumption

(* A step of one request leaves the others' locals.                        *)
Touches(r) ==
  /\ loc' = [q \in Requests |-> loc'[q]]
  /\ IsLocals(loc'[r])
  /\ \A q \in Requests \ {r} : loc'[q] = loc[q]

FoundOwn(r) == IF Named(r) /\ loc[r].plan.repo \in Reps(Texts(r))
               THEN Of(Texts(r), {loc[r].plan.repo}) ELSE <<>>

Forced(r) == /\ Named(r) /\ DOMAIN loc[r].own # {}
             /\ \E i \in Tagged : RepoOf[i] = loc[r].plan.repo

Used(r) == IF Forced(r) THEN loc[r].own ELSE loc[r].evidence

FoundTags(r) == {i \in Tagged : RepoOf[i] \in Reps(Used(r))}

Applied(r) == IF loc[r].plan = None THEN {}
              ELSE loc[r].plan.conds \ IF Forced(r) THEN {} ELSE {"version"}

Strays(r) == loc[r].degraded \/ (Named(r) /\ ~Forced(r))

Described(r) == [i \in DOMAIN loc[r].rows |->
                   [digest |-> loc[r].rows[i], platforms |-> tag[i].digest]]

(* What each action does to the locals of its request, field by field.     *)
LEMMA PlanLocals ==
  ASSUME Typed, NEW r \in Requests, NEW plan, loc' = [loc EXCEPT ![r].plan = plan]
  PROVE  /\ Touches(r)
         /\ loc'[r].plan = plan
         /\ loc'[r].degraded = loc[r].degraded /\ loc'[r].conds = loc[r].conds
<1>1. IsLocals(loc[r]) /\ DOMAIN loc = Requests
  BY Zenon DEF Typed
<1>2. loc'[r] = [loc[r] EXCEPT !.plan = plan]
  BY <1>1, Zenon
<1>3. loc' = [q \in Requests |-> loc'[q]] /\ \A q \in Requests \ {r} : loc'[q] = loc[q]
  BY <1>1, Zenon DEF Typed
<1>4. IsLocals(loc'[r])
  BY <1>1, <1>2, Zenon DEF IsLocals
<1>5. loc'[r].plan = plan
  BY <1>1, <1>2, Zenon DEF IsLocals
<1>6. loc'[r].degraded = loc[r].degraded /\ loc'[r].conds = loc[r].conds
  BY <1>1, <1>2, Zenon DEF IsLocals
<1> QED
  BY <1>3, <1>4, <1>5, <1>6, Zenon DEF Touches

LEMMA PlanFailsLocals ==
  ASSUME Typed, NEW r \in Requests, PlanFails(r)
  PROVE  /\ Touches(r)
         /\ loc'[r].degraded = TRUE
         /\ loc'[r].plan = loc[r].plan /\ loc'[r].conds = loc[r].conds
<1>1. IsLocals(loc[r]) /\ DOMAIN loc = Requests
  BY Zenon DEF Typed
<1>2. loc'[r] = [loc[r] EXCEPT !.degraded = TRUE]
  BY <1>1, Zenon DEF PlanFails
<1>3. loc' = [q \in Requests |-> loc'[q]] /\ \A q \in Requests \ {r} : loc'[q] = loc[q]
  BY <1>1, Zenon DEF Typed, PlanFails
<1>4. IsLocals(loc'[r])
  BY <1>1, <1>2, Zenon DEF IsLocals
<1>5. loc'[r].degraded = TRUE
  BY <1>1, <1>2, Zenon DEF IsLocals
<1>6. loc'[r].plan = loc[r].plan /\ loc'[r].conds = loc[r].conds
  BY <1>1, <1>2, Zenon DEF IsLocals
<1> QED
  BY <1>3, <1>4, <1>5, <1>6, Zenon DEF Touches

LEMMA AdviseLocals ==
  ASSUME Typed, NEW r \in Requests, NEW rec, loc' = [loc EXCEPT ![r].rec = rec]
  PROVE  /\ Touches(r)
         /\ loc'[r].rec = rec
         /\ loc'[r].plan = loc[r].plan /\ loc'[r].evidence = loc[r].evidence
            /\ loc'[r].conds = loc[r].conds /\ loc'[r].cands = loc[r].cands
               /\ loc'[r].degraded = loc[r].degraded
<1>1. IsLocals(loc[r]) /\ DOMAIN loc = Requests
  BY Zenon DEF Typed
<1>2. loc'[r] = [loc[r] EXCEPT !.rec = rec]
  BY <1>1, Zenon
<1>3. loc' = [q \in Requests |-> loc'[q]] /\ \A q \in Requests \ {r} : loc'[q] = loc[q]
  BY <1>1, Zenon DEF Typed
<1>4. IsLocals(loc'[r])
  BY <1>1, <1>2, Zenon DEF IsLocals
<1>5. loc'[r].rec = rec
  BY <1>1, <1>2, Zenon DEF IsLocals
<1>6. loc'[r].plan = loc[r].plan /\ loc'[r].evidence = loc[r].evidence
        /\ loc'[r].conds = loc[r].conds /\ loc'[r].cands = loc[r].cands
           /\ loc'[r].degraded = loc[r].degraded
  BY <1>1, <1>2, Zenon DEF IsLocals
<1> QED
  BY <1>3, <1>4, <1>5, <1>6, Zenon DEF Touches

LEMMA RankLocals ==
  ASSUME Typed, NEW r \in Requests, NEW hits, loc' = [loc EXCEPT ![r].hits = hits]
  PROVE  /\ Touches(r)
         /\ loc'[r].hits = hits
         /\ loc'[r].plan = loc[r].plan /\ loc'[r].evidence = loc[r].evidence
            /\ loc'[r].degraded = loc[r].degraded /\ loc'[r].conds = loc[r].conds
<1>1. IsLocals(loc[r]) /\ DOMAIN loc = Requests
  BY Zenon DEF Typed
<1>2. loc'[r] = [loc[r] EXCEPT !.hits = hits]
  BY <1>1, Zenon
<1>3. loc' = [q \in Requests |-> loc'[q]] /\ \A q \in Requests \ {r} : loc'[q] = loc[q]
  BY <1>1, Zenon DEF Typed
<1>4. IsLocals(loc'[r])
  BY <1>1, <1>2, Zenon DEF IsLocals
<1>5. loc'[r].hits = hits
  BY <1>1, <1>2, Zenon DEF IsLocals
<1>6. loc'[r].plan = loc[r].plan /\ loc'[r].evidence = loc[r].evidence
        /\ loc'[r].degraded = loc[r].degraded /\ loc'[r].conds = loc[r].conds
  BY <1>1, <1>2, Zenon DEF IsLocals
<1> QED
  BY <1>3, <1>4, <1>5, <1>6, Zenon DEF Touches

LEMMA LoadLocals ==
  ASSUME Typed, NEW r \in Requests, Load(r)
  PROVE  /\ Touches(r)
         /\ loc'[r].evidence = Texts(r)
         /\ loc'[r].hits = {}
         /\ loc'[r].own = FoundOwn(r)
         /\ loc'[r].plan = loc[r].plan /\ loc'[r].degraded = loc[r].degraded /\ loc'[r].conds = loc[r].conds
<1>1. IsLocals(loc[r]) /\ DOMAIN loc = Requests
  BY Zenon DEF Typed
<1>2. loc'[r] = [[[loc[r] EXCEPT !.evidence = Texts(r)] EXCEPT !.hits = {}]
        EXCEPT !.own = FoundOwn(r)]
  BY <1>1, Zenon DEF Load, FoundOwn
<1>3. loc' = [q \in Requests |-> loc'[q]] /\ \A q \in Requests \ {r} : loc'[q] = loc[q]
  BY <1>1, ZenonT(60) DEF Typed, Load, FoundOwn
<1>4. IsLocals(loc'[r])
  BY <1>1, <1>2, Zenon DEF IsLocals
<1>5. loc'[r].evidence = Texts(r)
  BY <1>1, <1>2, Zenon DEF IsLocals
<1>6. loc'[r].hits = {}
  BY <1>1, <1>2, Zenon DEF IsLocals
<1>7. loc'[r].own = FoundOwn(r)
  BY <1>1, <1>2, Zenon DEF IsLocals
<1>8. loc'[r].plan = loc[r].plan /\ loc'[r].degraded = loc[r].degraded /\ loc'[r].conds = loc[r].conds
  BY <1>1, <1>2, Zenon DEF IsLocals
<1> QED
  BY <1>3, <1>4, <1>5, <1>6, <1>7, <1>8, Zenon DEF Touches

LEMMA LoadOwnLocals ==
  ASSUME Typed, NEW r \in Requests, LoadOwn(r)
  PROVE  /\ Touches(r)
         /\ loc'[r].own = Texts(r)
         /\ loc'[r].hits = {}
         /\ loc'[r].plan = loc[r].plan /\ loc'[r].evidence = loc[r].evidence
            /\ loc'[r].degraded = loc[r].degraded /\ loc'[r].conds = loc[r].conds
<1>1. IsLocals(loc[r]) /\ DOMAIN loc = Requests
  BY Zenon DEF Typed
<1>2. loc'[r] = [[loc[r] EXCEPT !.own = Texts(r)] EXCEPT !.hits = {}]
  BY <1>1, Zenon DEF LoadOwn
<1>3. loc' = [q \in Requests |-> loc'[q]] /\ \A q \in Requests \ {r} : loc'[q] = loc[q]
  BY <1>1, ZenonT(60) DEF Typed, LoadOwn
<1>4. IsLocals(loc'[r])
  BY <1>1, <1>2, Zenon DEF IsLocals
<1>5. loc'[r].own = Texts(r)
  BY <1>1, <1>2, Zenon DEF IsLocals
<1>6. loc'[r].hits = {}
  BY <1>1, <1>2, Zenon DEF IsLocals
<1>7. loc'[r].plan = loc[r].plan /\ loc'[r].evidence = loc[r].evidence
        /\ loc'[r].degraded = loc[r].degraded /\ loc'[r].conds = loc[r].conds
  BY <1>1, <1>2, Zenon DEF IsLocals
<1> QED
  BY <1>3, <1>4, <1>5, <1>6, <1>7, Zenon DEF Touches

LEMMA ReadTagsLocals ==
  ASSUME Typed, NEW r \in Requests, ReadTags(r)
  PROVE  /\ Touches(r)
         /\ loc'[r].evidence = Used(r)
         /\ loc'[r].own = <<>>
         /\ loc'[r].refs = FoundTags(r)
         /\ loc'[r].conds = Applied(r)
         /\ loc'[r].degraded = Strays(r)
         /\ loc'[r].plan = loc[r].plan
<1>1. IsLocals(loc[r]) /\ DOMAIN loc = Requests
  BY Zenon DEF Typed
<1>0. loc' = [loc EXCEPT ![r].evidence = Used(r), ![r].own = <<>>,
        ![r].refs = FoundTags(r), ![r].conds = Applied(r), ![r].degraded = Strays(r)]
  BY Zenon DEF ReadTags, Used, Forced, FoundTags, Applied, Strays
<1>2. loc'[r] = [[[[[loc[r] EXCEPT !.evidence = Used(r)] EXCEPT !.own = <<>>]
        EXCEPT !.refs = FoundTags(r)] EXCEPT !.conds = Applied(r)] EXCEPT !.degraded = Strays(r)]
  BY <1>0, <1>1, Zenon
<1>3. loc' = [q \in Requests |-> loc'[q]] /\ \A q \in Requests \ {r} : loc'[q] = loc[q]
  BY <1>0, <1>1, ZenonT(60) DEF Typed
<1>4. IsLocals(loc'[r])
  BY <1>1, <1>2, Zenon DEF IsLocals
<1>5. loc'[r].evidence = Used(r)
  BY <1>1, <1>2, Zenon DEF IsLocals
<1>6. loc'[r].own = <<>>
  BY <1>1, <1>2, Zenon DEF IsLocals
<1>7. loc'[r].refs = FoundTags(r)
  BY <1>1, <1>2, Zenon DEF IsLocals
<1>8. loc'[r].conds = Applied(r)
  BY <1>1, <1>2, Zenon DEF IsLocals
<1>9. loc'[r].degraded = Strays(r)
  BY <1>1, <1>2, Zenon DEF IsLocals
<1>10. loc'[r].plan = loc[r].plan
  BY <1>1, <1>2, Zenon DEF IsLocals
<1> QED
  BY <1>3, <1>4, <1>5, <1>6, <1>7, <1>8, <1>9, <1>10, Zenon DEF Touches

LEMMA RelaxLocals ==
  ASSUME Typed, NEW r \in Requests, Relax(r)
  PROVE  /\ Touches(r)
         /\ loc'[r].conds = Relaxed(loc[r].conds)
         /\ loc'[r].degraded = TRUE
         /\ loc'[r].plan = loc[r].plan /\ loc'[r].evidence = loc[r].evidence
            /\ loc'[r].refs = loc[r].refs
<1>1. IsLocals(loc[r]) /\ DOMAIN loc = Requests
  BY Zenon DEF Typed
<1>2. loc'[r] = [[loc[r] EXCEPT !.conds = Relaxed(loc[r].conds)] EXCEPT !.degraded = TRUE]
  BY <1>1, Zenon DEF Relax
<1>3. loc' = [q \in Requests |-> loc'[q]] /\ \A q \in Requests \ {r} : loc'[q] = loc[q]
  BY <1>1, Zenon DEF Typed, Relax
<1>4. IsLocals(loc'[r])
  BY <1>1, <1>2, Zenon DEF IsLocals
<1>5. loc'[r].conds = Relaxed(loc[r].conds)
  BY <1>1, <1>2, Zenon DEF IsLocals
<1>6. loc'[r].degraded = TRUE
  BY <1>1, <1>2, Zenon DEF IsLocals
<1>7. loc'[r].plan = loc[r].plan /\ loc'[r].evidence = loc[r].evidence
        /\ loc'[r].refs = loc[r].refs
  BY <1>1, <1>2, Zenon DEF IsLocals
<1> QED
  BY <1>3, <1>4, <1>5, <1>6, <1>7, Zenon DEF Touches

LEMMA ChooseLocals ==
  ASSUME Typed, NEW r \in Requests, NEW chosen,
     loc' = [loc EXCEPT ![r].chosen = chosen, ![r].refs = {}]
  PROVE  /\ Touches(r)
         /\ loc'[r].chosen = chosen
         /\ loc'[r].refs = {}
         /\ loc'[r].plan = loc[r].plan /\ loc'[r].evidence = loc[r].evidence
            /\ loc'[r].conds = loc[r].conds /\ loc'[r].degraded = loc[r].degraded
<1>1. IsLocals(loc[r]) /\ DOMAIN loc = Requests
  BY Zenon DEF Typed
<1>2. loc'[r] = [[loc[r] EXCEPT !.chosen = chosen] EXCEPT !.refs = {}]
  BY <1>1, Zenon
<1>3. loc' = [q \in Requests |-> loc'[q]] /\ \A q \in Requests \ {r} : loc'[q] = loc[q]
  BY <1>1, Zenon DEF Typed
<1>4. IsLocals(loc'[r])
  BY <1>1, <1>2, Zenon DEF IsLocals
<1>5. loc'[r].chosen = chosen
  BY <1>1, <1>2, Zenon DEF IsLocals
<1>6. loc'[r].refs = {}
  BY <1>1, <1>2, Zenon DEF IsLocals
<1>7. loc'[r].plan = loc[r].plan /\ loc'[r].evidence = loc[r].evidence
        /\ loc'[r].conds = loc[r].conds /\ loc'[r].degraded = loc[r].degraded
  BY <1>1, <1>2, Zenon DEF IsLocals
<1> QED
  BY <1>3, <1>4, <1>5, <1>6, <1>7, Zenon DEF Touches

LEMMA ReadRowsLocals ==
  ASSUME Typed, NEW r \in Requests, ReadRows(r)
  PROVE  /\ Touches(r)
         /\ loc'[r].rows = [i \in loc[r].chosen |-> tag[i].digest]
         /\ loc'[r].chosen = {}
         /\ loc'[r].plan = loc[r].plan /\ loc'[r].evidence = loc[r].evidence
            /\ loc'[r].conds = loc[r].conds /\ loc'[r].degraded = loc[r].degraded
<1>1. IsLocals(loc[r]) /\ DOMAIN loc = Requests
  BY Zenon DEF Typed
<1>2. loc'[r] = [[loc[r] EXCEPT !.rows = [i \in loc[r].chosen |-> tag[i].digest]]
        EXCEPT !.chosen = {}]
  BY <1>1, Zenon DEF ReadRows
<1>3. loc' = [q \in Requests |-> loc'[q]] /\ \A q \in Requests \ {r} : loc'[q] = loc[q]
  BY <1>1, ZenonT(60) DEF Typed, ReadRows
<1>4. IsLocals(loc'[r])
  BY <1>1, <1>2, Zenon DEF IsLocals
<1>5. loc'[r].rows = [i \in loc[r].chosen |-> tag[i].digest]
  BY <1>1, <1>2, Zenon DEF IsLocals
<1>6. loc'[r].chosen = {}
  BY <1>1, <1>2, Zenon DEF IsLocals
<1>7. loc'[r].plan = loc[r].plan /\ loc'[r].evidence = loc[r].evidence
        /\ loc'[r].conds = loc[r].conds /\ loc'[r].degraded = loc[r].degraded
  BY <1>1, <1>2, Zenon DEF IsLocals
<1> QED
  BY <1>3, <1>4, <1>5, <1>6, <1>7, Zenon DEF Touches

LEMMA ReadPlatformsLocals ==
  ASSUME Typed, NEW r \in Requests, ReadPlatforms(r)
  PROVE  /\ Touches(r)
         /\ loc'[r].cands = Described(r)
         /\ loc'[r].evidence = Of(loc[r].evidence, {RepoOf[i] : i \in DOMAIN loc[r].rows})
         /\ loc'[r].rows = <<>>
         /\ loc'[r].plan = loc[r].plan /\ loc'[r].conds = loc[r].conds
            /\ loc'[r].degraded = loc[r].degraded
<1>1. IsLocals(loc[r]) /\ DOMAIN loc = Requests
  BY Zenon DEF Typed
<1>2. loc'[r] = [[[loc[r] EXCEPT !.cands = Described(r)]
        EXCEPT !.evidence = Of(loc[r].evidence, {RepoOf[i] : i \in DOMAIN loc[r].rows})] EXCEPT !.rows = <<>>]
  BY <1>1, Zenon DEF ReadPlatforms, Described
<1>3. loc' = [q \in Requests |-> loc'[q]] /\ \A q \in Requests \ {r} : loc'[q] = loc[q]
  BY <1>1, ZenonT(60) DEF Typed, ReadPlatforms, Described
<1>4. IsLocals(loc'[r])
  BY <1>1, <1>2, Zenon DEF IsLocals
<1>5. loc'[r].cands = Described(r)
  BY <1>1, <1>2, Zenon DEF IsLocals
<1>6. loc'[r].evidence = Of(loc[r].evidence, {RepoOf[i] : i \in DOMAIN loc[r].rows})
  BY <1>1, <1>2, Zenon DEF IsLocals
<1>7. loc'[r].rows = <<>>
  BY <1>1, <1>2, Zenon DEF IsLocals
<1>8. loc'[r].plan = loc[r].plan /\ loc'[r].conds = loc[r].conds
        /\ loc'[r].degraded = loc[r].degraded
  BY <1>1, <1>2, Zenon DEF IsLocals
<1> QED
  BY <1>3, <1>4, <1>5, <1>6, <1>7, <1>8, Zenon DEF Touches
-----------------------------------------------------------------------------
(* A step of a request that does not end it.                               *)
Works(r) ==
  /\ storeVars' = storeVars /\ window' = window /\ answer' = answer
  /\ Touches(r) /\ loc'[r].degraded \in BOOLEAN
  /\ pc' \in [Requests -> Places] /\ \A q \in Requests \ {r} : pc'[q] = pc[q]
  /\ pc[r] \notin Over /\ pc'[r] \notin Over

LEMMA GotoPlace ==
  ASSUME Typed, NEW r \in Requests, NEW where \in Places, Goto(r, where)
  PROVE  /\ pc' \in [Requests -> Places] /\ pc'[r] = where
         /\ \A q \in Requests \ {r} : pc'[q] = pc[q]
  BY DEF Typed, Goto

LEMMA SameStore ==
  ASSUME storeVars' = storeVars
  PROVE  /\ tag' = tag /\ doc' = doc /\ commits' = commits /\ reindexes' = reindexes
         /\ Tagged' = Tagged /\ CurrentFacts' = CurrentFacts
<1>1. tag' = tag /\ doc' = doc /\ commits' = commits /\ reindexes' = reindexes
  BY DEF storeVars
<1> QED
  BY <1>1, Zenon DEF Tagged, Written, CurrentFacts

LEMMA SameLocals ==
  ASSUME Typed, NEW r \in Requests, loc' = loc
  PROVE  Touches(r) /\ loc'[r].degraded \in BOOLEAN
  BY DEF Typed, Touches

(* Facts about what is stored are facts.                                   *)
LEMMA StoredIsFact ==
  /\ \A i \in Tagged : <<"digest", i, tag[i].digest>> \in CurrentFacts
  /\ \A i \in Tagged : <<"platforms", i, tag[i].digest>> \in CurrentFacts
  /\ \A d \in Written : <<"text", d, doc[d]>> \in CurrentFacts
<1> DEFINE OfTags ==
             UNION {{<<"digest", i, tag[i].digest>>, <<"platforms", i, tag[i].digest>>} : i \in Tagged}
           OfTexts == {<<"text", d, doc[d]>> : d \in Written}
<1>2. CurrentFacts = OfTags \union OfTexts
  BY Zenon DEF CurrentFacts
<1>3. \A i \in Tagged : <<"digest", i, tag[i].digest>> \in OfTags
  OBVIOUS
<1>4. \A i \in Tagged : <<"platforms", i, tag[i].digest>> \in OfTags
  OBVIOUS
<1>5. \A d \in Written : <<"text", d, doc[d]>> \in OfTexts
  OBVIOUS
<1> HIDE DEF OfTags, OfTexts
<1> QED
  BY <1>2, <1>3, <1>4, <1>5

(* A step that changes nothing that a request has read.                    *)
LEMMA StoodStill ==
  ASSUME Typed, NEW r \in Requests, RequestInv(r), loc'[r] = loc[r],
         storeVars' = storeVars, window'[r] = window[r],
         \/ pc'[r] = pc[r]
         \/ pc'[r] \in {"wantNames", "names", "plan"} /\ pc[r] \notin Over
         \/ pc[r] = "wantSearch" /\ pc'[r] = "rank"
         \/ pc[r] = "wantVerify" /\ pc'[r] = "verify"
  PROVE  RequestInv(r)'
<1>1. Tagged' = Tagged /\ CurrentFacts' = CurrentFacts
  BY SameStore
<1>2. /\ Named(r)' = Named(r) /\ loc'[r].plan = loc[r].plan
      /\ AreTrue(loc[r].evidence, window[r])' = AreTrue(loc[r].evidence, window[r])
      /\ AreTrue(loc[r].own, window[r])' = AreTrue(loc[r].own, window[r])
  BY DEF Named, AreTrue
<1>3. pc'[r] \in Selecting \union Advising => /\ pc[r] \in Selecting \union Advising
                                              /\ AtHand(r)' = AtHand(r)
  BY DEF AtHand, Selecting, Advising
<1>4. Keeping(r)'
  BY <1>2, <1>3 DEF RequestInv, Keeping, Searching, Selecting, Advising
<1>5. Knowing(r)'
  BY <1>1, <1>2, <1>3 DEF RequestInv, Knowing, Selecting, Advising, Over
<1> QED
  BY <1>4, <1>5 DEF RequestInv

LEMMA EmbedKeeps ==
  ASSUME Typed, NEW r \in Requests, RequestInv(r), Embed(r)
  PROVE  Works(r) /\ RequestInv(r)'
<1>1. pc' \in [Requests -> Places] /\ pc'[r] = "wantNames"
      /\ \A q \in Requests \ {r} : pc'[q] = pc[q]
  BY GotoPlace DEF Embed, Places, Waiting
<1>2. pc[r] = "embed" /\ storeVars' = storeVars /\ loc' = loc /\ window' = window
      /\ answer' = answer
  BY DEF Embed
<1>3. Works(r)
  BY <1>1, <1>2, SameLocals DEF Works, Over
<1>4. RequestInv(r)'
  BY <1>1, <1>2, StoodStill DEF Over
<1> QED
  BY <1>3, <1>4

LEMMA AcquireKeeps ==
  ASSUME Typed, NEW r \in Requests, RequestInv(r), Acquire(r)
  PROVE  Works(r) /\ RequestInv(r)'
<1> DEFINE where == CASE pc[r] = "wantNames"  -> "names"
                      [] pc[r] = "wantSearch" -> "rank"
                      [] pc[r] = "wantVerify" -> "verify"
<1>1. pc[r] \in Waiting
  BY DEF Acquire, Wants
<1>2. where \in Places /\ where \notin Over
      /\ (pc[r] = "wantNames" => where = "names")
      /\ (pc[r] = "wantSearch" => where = "rank")
      /\ (pc[r] = "wantVerify" => where = "verify")
  BY <1>1 DEF Waiting, Places, InDb, Over
<1>3. pc' \in [Requests -> Places] /\ pc'[r] = where
      /\ \A q \in Requests \ {r} : pc'[q] = pc[q]
  <2>1. Goto(r, where)
    BY DEF Acquire
  <2> QED
    BY <1>2, <2>1, GotoPlace
<1>4. storeVars' = storeVars /\ loc' = loc /\ window' = window /\ answer' = answer
  BY DEF Acquire
<1>5. Works(r)
  BY <1>1, <1>2, <1>3, <1>4, SameLocals DEF Works, Over, Waiting
<1>6. RequestInv(r)'
  BY <1>1, <1>2, <1>3, <1>4, StoodStill DEF Over, Waiting
<1> QED
  BY <1>5, <1>6

LEMMA ReadNamesKeeps ==
  ASSUME Typed, NEW r \in Requests, RequestInv(r), ReadNames(r)
  PROVE  Works(r) /\ RequestInv(r)'
<1>1. pc' \in [Requests -> Places] /\ pc'[r] = "plan"
      /\ \A q \in Requests \ {r} : pc'[q] = pc[q]
  BY GotoPlace DEF ReadNames, Places, Remote
<1>2. pc[r] = "names" /\ storeVars' = storeVars /\ loc' = loc /\ window' = window
      /\ answer' = answer
  BY DEF ReadNames
<1>3. Works(r)
  BY <1>1, <1>2, SameLocals DEF Works, Over
<1>4. RequestInv(r)'
  BY <1>1, <1>2, StoodStill DEF Over
<1> QED
  BY <1>3, <1>4

(* What remains to be shown of a step that changes the locals.             *)
LEMMA WorksIf ==
  ASSUME Typed, NEW r \in Requests, NEW where \in Places \ Over, Goto(r, where),
         pc[r] \notin Over, Touches(r), loc'[r].degraded \in BOOLEAN,
         storeVars' = storeVars, window' = window, answer' = answer
  PROVE  Works(r) /\ pc'[r] = where
  BY GotoPlace DEF Works

LEMMA PlanKeeps ==
  ASSUME Typed, NEW r \in Requests, RequestInv(r), Plan(r)
  PROVE  Works(r) /\ RequestInv(r)'
<1>1. PICK named \in Repos \union {Invented}, conds \in SUBSET Conditions :
        loc' = [loc EXCEPT ![r].plan = [repo |-> Normalized(named), conds |-> conds]]
  BY Zenon DEF Plan
<1> DEFINE plan == [repo |-> Normalized(named), conds |-> conds]
<1>2. plan \in SearchPlans
  BY DEF Normalized, SearchPlans
<1>3. Touches(r) /\ loc'[r].plan = plan /\ loc'[r].degraded = loc[r].degraded
  BY <1>1, PlanLocals, Zenon
<1>4. plan # None
  BY <1>2
<1>5. storeVars' = storeVars /\ window' = window /\ answer' = answer /\ pc[r] = "plan"
      /\ Goto(r, "wantSearch")
  BY DEF Plan
<1>6. "wantSearch" \in Places \ Over /\ pc[r] \notin Over /\ loc'[r].degraded \in BOOLEAN
  BY <1>3, <1>5 DEF Places, Waiting, Over, Typed
<1>7. Works(r) /\ pc'[r] = "wantSearch"
  BY <1>3, <1>5, <1>6, WorksIf, Zenon
<1>8. Keeping(r)'
  BY <1>3, <1>4, <1>7 DEF Keeping, Selecting, Advising
<1>9. Knowing(r)'
  BY <1>5, <1>7, SameStore DEF Knowing, RequestInv, Selecting, Advising, Over
<1> QED
  BY <1>7, <1>8, <1>9 DEF RequestInv

LEMMA PlanFailsKeeps ==
  ASSUME Typed, NEW r \in Requests, RequestInv(r), PlanFails(r)
  PROVE  Works(r) /\ RequestInv(r)'
<1>1. Touches(r) /\ loc'[r].degraded = TRUE
  BY PlanFailsLocals
<1>2. storeVars' = storeVars /\ window' = window /\ answer' = answer /\ pc[r] = "plan"
      /\ Goto(r, "wantSearch")
  BY DEF PlanFails
<1>3. "wantSearch" \in Places \ Over /\ pc[r] \notin Over /\ loc'[r].degraded \in BOOLEAN
  BY <1>1, <1>2 DEF Places, Waiting, Over
<1>4. Works(r) /\ pc'[r] = "wantSearch"
  BY <1>1, <1>2, <1>3, WorksIf, Zenon
<1>5. Keeping(r)'
  BY <1>1, <1>4 DEF Keeping, Selecting, Advising
<1>6. Knowing(r)'
  BY <1>2, <1>4, SameStore DEF Knowing, RequestInv, Selecting, Advising, Over
<1> QED
  BY <1>4, <1>5, <1>6 DEF RequestInv

LEMMA AdviseKeeps ==
  ASSUME Typed, NEW r \in Requests, RequestInv(r), Advise(r)
  PROVE  Works(r) /\ RequestInv(r)'
<1>1. PICK rec : loc' = [loc EXCEPT ![r].rec = rec]
  BY Zenon DEF Advise
<1>2. /\ Touches(r)
      /\ loc'[r].plan = loc[r].plan /\ loc'[r].evidence = loc[r].evidence
      /\ loc'[r].conds = loc[r].conds /\ loc'[r].cands = loc[r].cands
      /\ loc'[r].degraded = loc[r].degraded
  BY <1>1, AdviseLocals, Zenon
<1>3. storeVars' = storeVars /\ window' = window /\ answer' = answer /\ pc[r] = "advise"
      /\ Goto(r, "wantVerify")
  BY DEF Advise
<1>4. "wantVerify" \in Places \ Over /\ pc[r] \notin Over /\ loc'[r].degraded \in BOOLEAN
  BY <1>2, <1>3 DEF Places, Waiting, Over, Typed
<1>5. Works(r) /\ pc'[r] = "wantVerify"
  BY <1>2, <1>3, <1>4, WorksIf, Zenon
<1>6. AtHand(r)' = AtHand(r) /\ AtHand(r) = DOMAIN loc[r].cands
  BY <1>2, <1>3, <1>5 DEF AtHand
<1>7. Keeping(r)'
  BY <1>2, <1>3, <1>5, <1>6 DEF Keeping, RequestInv, Searching, Selecting, Advising
<1>8. Knowing(r)'
  BY <1>2, <1>3, <1>5, <1>6, SameStore
     DEF Knowing, RequestInv, AreTrue, Selecting, Advising, Over
<1> QED
  BY <1>5, <1>7, <1>8 DEF RequestInv

LEMMA RankKeeps ==
  ASSUME Typed, NEW r \in Requests, RequestInv(r), Rank(r)
  PROVE  Works(r) /\ RequestInv(r)'
<1>1. PICK hits \in Nearest(Written, ChunkK) : loc' = [loc EXCEPT ![r].hits = hits]
  BY Zenon DEF Rank
<1>2. /\ Touches(r) /\ loc'[r].hits = hits
      /\ loc'[r].plan = loc[r].plan /\ loc'[r].degraded = loc[r].degraded
  BY <1>1, RankLocals, Zenon
<1>3. hits \subseteq Docs
  BY DEF Nearest, Written
<1>4. storeVars' = storeVars /\ window' = window /\ answer' = answer /\ pc[r] = "rank"
      /\ Goto(r, "load")
  BY DEF Rank
<1>5. "load" \in Places \ Over /\ pc[r] \notin Over /\ loc'[r].degraded \in BOOLEAN
  BY <1>2, <1>4 DEF Places, InDb, Over, Typed
<1>6. Works(r) /\ pc'[r] = "load"
  BY <1>2, <1>4, <1>5, WorksIf, Zenon
<1>7. Keeping(r)'
  BY <1>2, <1>4, <1>6 DEF Keeping, RequestInv, Searching, Selecting, Advising
<1>8. Knowing(r)'
  BY <1>2, <1>3, <1>4, <1>6, SameStore DEF Knowing, RequestInv, Selecting, Advising, Over
<1> QED
  BY <1>6, <1>7, <1>8 DEF RequestInv

LEMMA RankOwnKeeps ==
  ASSUME Typed, NEW r \in Requests, RequestInv(r), RankOwn(r)
  PROVE  Works(r) /\ RequestInv(r)'
<1>1. PICK hits \in Nearest({d \in Written : RepoOf[d] = loc[r].plan.repo}, ForcedK) :
        loc' = [loc EXCEPT ![r].hits = hits]
  BY Zenon DEF RankOwn
<1>2. /\ Touches(r) /\ loc'[r].hits = hits /\ loc'[r].evidence = loc[r].evidence
      /\ loc'[r].plan = loc[r].plan /\ loc'[r].degraded = loc[r].degraded
  BY <1>1, RankLocals, Zenon
<1>3. hits \subseteq Docs /\ \A d \in hits : RepoOf[d] = loc[r].plan.repo
  BY DEF Nearest, Written
<1>4. storeVars' = storeVars /\ window' = window /\ answer' = answer /\ pc[r] = "rankOwn"
      /\ Goto(r, "loadOwn")
  BY DEF RankOwn
<1>5. "loadOwn" \in Places \ Over /\ pc[r] \notin Over /\ loc'[r].degraded \in BOOLEAN
  BY <1>2, <1>4 DEF Places, InDb, Over, Typed
<1>6. Works(r) /\ pc'[r] = "loadOwn"
  BY <1>2, <1>4, <1>5, WorksIf, Zenon
<1>7. Keeping(r)'
  BY <1>2, <1>3, <1>4, <1>6 DEF Keeping, RequestInv, Named, Searching, Selecting, Advising
<1>8. Knowing(r)'
  BY <1>2, <1>3, <1>4, <1>6, SameStore
     DEF Knowing, RequestInv, AreTrue, Selecting, Advising, Over
<1> QED
  BY <1>6, <1>7, <1>8 DEF RequestInv

(* The texts of sections that are still there are facts.                   *)
LEMMA TextsAreTrue ==
  ASSUME Typed, NEW r \in Requests, RequestInv(r), pc[r] \in {"load", "loadOwn"}, ~Vanished(r)
  PROVE  /\ DOMAIN Texts(r) = loc[r].hits /\ AreTrue(Texts(r), window[r])
         /\ AreTrue(FoundOwn(r), window[r])
         /\ \A d \in DOMAIN FoundOwn(r) : Named(r) /\ RepoOf[d] = loc[r].plan.repo
<1>1. DOMAIN Texts(r) = loc[r].hits /\ \A d \in loc[r].hits : Texts(r)[d] = doc[d]
  BY DEF Texts
<1>2. loc[r].hits \subseteq Written /\ CurrentFacts \subseteq window[r]
  BY DEF RequestInv, Knowing, Vanished, Written, Over
<1>3. AreTrue(Texts(r), window[r])
  BY <1>1, <1>2, StoredIsFact DEF AreTrue
<1>4. CASE Named(r) /\ loc[r].plan.repo \in Reps(Texts(r))
  <2>1. /\ DOMAIN FoundOwn(r) = {d \in DOMAIN Texts(r) : RepoOf[d] \in {loc[r].plan.repo}}
        /\ \A d \in DOMAIN FoundOwn(r) : FoundOwn(r)[d] = Texts(r)[d]
    BY <1>4, Zenon DEF FoundOwn, Of
  <2> QED
    BY <1>1, <1>3, <1>4, <2>1 DEF AreTrue
<1>5. CASE ~(Named(r) /\ loc[r].plan.repo \in Reps(Texts(r)))
  <2>1. FoundOwn(r) = <<>>
    BY <1>5, Zenon DEF FoundOwn
  <2>2. DOMAIN FoundOwn(r) = {}
    BY <2>1
  <2> QED
    BY <1>1, <1>3, <2>2 DEF AreTrue
<1> QED
  BY <1>4, <1>5

LEMMA LoadKeeps ==
  ASSUME Typed, NEW r \in Requests, RequestInv(r), Load(r)
  PROVE  Works(r) /\ RequestInv(r)'
<1> DEFINE found == Named(r) /\ loc[r].plan.repo \in Reps(Texts(r))
           where == IF Named(r) /\ ~found THEN "rankOwn" ELSE "tags"
<1>1. /\ Touches(r)
      /\ loc'[r].evidence = Texts(r) /\ loc'[r].hits = {} /\ loc'[r].own = FoundOwn(r)
      /\ loc'[r].plan = loc[r].plan /\ loc'[r].degraded = loc[r].degraded
  BY LoadLocals, Zenon
<1>2. storeVars' = storeVars /\ window' = window /\ answer' = answer /\ pc[r] = "load"
      /\ Goto(r, where) /\ ~Vanished(r)
  BY DEF Load
<1>3. where \in Places \ Over /\ pc[r] \notin Over /\ loc'[r].degraded \in BOOLEAN
  BY <1>1, <1>2 DEF Places, InDb, Over, Typed
<1>4. Works(r) /\ pc'[r] = where
  <2> HIDE DEF where
  <2> QED
    BY <1>1, <1>2, <1>3, WorksIf, Zenon
<1>5. /\ AreTrue(Texts(r), window[r]) /\ AreTrue(FoundOwn(r), window[r])
      /\ \A d \in DOMAIN FoundOwn(r) : RepoOf[d] = loc[r].plan.repo
  BY <1>2, TextsAreTrue
<1>6. Named(r)' = Named(r)
  BY <1>1 DEF Named
<1>7. Keeping(r)'
  BY <1>1, <1>2, <1>4, <1>5, <1>6 DEF Keeping, RequestInv, Searching, Selecting, Advising
<1>8. AreTrue(loc[r].evidence, window[r])' /\ AreTrue(loc[r].own, window[r])'
  BY <1>1, <1>2, <1>5 DEF AreTrue
<1>9. Knowing(r)'
  BY <1>1, <1>2, <1>4, <1>8, SameStore DEF Knowing, RequestInv, Selecting, Advising, Over
<1> QED
  BY <1>4, <1>7, <1>9 DEF RequestInv

LEMMA LoadOwnKeeps ==
  ASSUME Typed, NEW r \in Requests, RequestInv(r), LoadOwn(r)
  PROVE  Works(r) /\ RequestInv(r)'
<1>1. /\ Touches(r) /\ loc'[r].own = Texts(r) /\ loc'[r].hits = {}
      /\ loc'[r].plan = loc[r].plan /\ loc'[r].evidence = loc[r].evidence
      /\ loc'[r].degraded = loc[r].degraded
  BY LoadOwnLocals, Zenon
<1>2. storeVars' = storeVars /\ window' = window /\ answer' = answer /\ pc[r] = "loadOwn"
      /\ Goto(r, "tags") /\ ~Vanished(r)
  BY DEF LoadOwn
<1>3. "tags" \in Places \ Over /\ pc[r] \notin Over /\ loc'[r].degraded \in BOOLEAN
  BY <1>1, <1>2 DEF Places, InDb, Over, Typed
<1>4. Works(r) /\ pc'[r] = "tags"
  BY <1>1, <1>2, <1>3, WorksIf, Zenon
<1>5. DOMAIN Texts(r) = loc[r].hits /\ AreTrue(Texts(r), window[r])
  BY <1>2, TextsAreTrue
<1>6. Keeping(r)'
  BY <1>1, <1>2, <1>4, <1>5 DEF Keeping, RequestInv, Searching, Selecting, Advising
<1>7. AreTrue(loc[r].evidence, window[r])' /\ AreTrue(loc[r].own, window[r])'
  BY <1>1, <1>2, <1>5 DEF AreTrue, RequestInv, Knowing
<1>8. Knowing(r)'
  BY <1>1, <1>2, <1>4, <1>7, SameStore DEF Knowing, RequestInv, Selecting, Advising, Over
<1> QED
  BY <1>4, <1>6, <1>8 DEF RequestInv

LEMMA ReadTagsKeeps ==
  ASSUME Typed, NEW r \in Requests, RequestInv(r), ReadTags(r)
  PROVE  Works(r) /\ RequestInv(r)'
<1>1. /\ Touches(r)
      /\ loc'[r].evidence = Used(r) /\ loc'[r].refs = FoundTags(r)
      /\ loc'[r].conds = Applied(r) /\ loc'[r].degraded = Strays(r)
      /\ loc'[r].plan = loc[r].plan
  BY ReadTagsLocals, Zenon
<1>2. storeVars' = storeVars /\ window' = window /\ answer' = answer /\ pc[r] = "tags"
      /\ Goto(r, "filter")
  BY DEF ReadTags
<1>3. Strays(r) \in BOOLEAN
  BY DEF Strays, Typed
<1>4. "filter" \in Places \ Over /\ pc[r] \notin Over /\ loc'[r].degraded \in BOOLEAN
  BY <1>1, <1>2, <1>3 DEF Places, InDb, Over
<1>5. Works(r) /\ pc'[r] = "filter"
  BY <1>1, <1>2, <1>4, WorksIf, Zenon
<1>6. AreTrue(Used(r), window[r])
  BY <1>2 DEF Used, RequestInv, Knowing
<1>7. AtHand(r)' = FoundTags(r)
  BY <1>1, <1>5 DEF AtHand
<1>8. FoundTags(r) \subseteq Tagged
  BY DEF FoundTags
<1>9. Knowing(r)'
  <2>1. AreTrue(loc[r].evidence, window[r])'
    BY <1>1, <1>2, <1>6 DEF AreTrue
  <2>2. AtHand(r)' \subseteq Tagged'
    BY <1>2, <1>7, <1>8, SameStore
  <2> QED
    BY <1>2, <1>5, <2>1, <2>2, SameStore
       DEF Knowing, RequestInv, Selecting, Advising, Over
<1>10. Keeping(r)'
  <2>1. CASE loc'[r].degraded
    BY <1>5, <2>1 DEF Keeping, Selecting, Advising, Searching
  <2>2. CASE ~loc'[r].degraded
    <3>1. ~loc[r].degraded /\ (Named(r) => Forced(r))
      BY <1>1, <2>2 DEF Strays
    <3>2. loc[r].plan # None
      BY <1>2, <3>1 DEF RequestInv, Keeping, Searching
    <3>3. CASE Named(r)
      <4>1. Used(r) = loc[r].own
        BY <3>1, <3>3 DEF Used
      <4>2. \A d \in DOMAIN loc[r].own : RepoOf[d] = loc[r].plan.repo
        BY <1>2, <3>3 DEF RequestInv, Keeping
      <4>3. \A i \in FoundTags(r) : RepoOf[i] = loc[r].plan.repo
        BY <4>1, <4>2 DEF FoundTags, Reps
      <4>4. Applied(r) = loc[r].plan.conds \ {}
        BY <3>1, <3>2, <3>3, Zenon DEF Applied
      <4>5. loc[r].plan.repo # None
        BY <3>3 DEF Named
      <4> QED
        BY <1>1, <1>5, <1>7, <3>2, <4>3, <4>4, <4>5
           DEF Keeping, Selecting, Advising, Searching
    <3>4. CASE ~Named(r)
      <4>1. loc[r].plan.repo = None
        BY <3>2, <3>4 DEF Named
      <4>2. Applied(r) = loc[r].plan.conds \ {"version"}
        BY <3>2, <3>4, Zenon DEF Applied, Forced
      <4> QED
        BY <1>1, <1>5, <3>2, <4>1, <4>2 DEF Keeping, Selecting, Advising, Searching
    <3> QED
      BY <3>3, <3>4
  <2> QED
    BY <2>1, <2>2
<1> QED
  BY <1>5, <1>9, <1>10 DEF RequestInv

LEMMA RelaxKeeps ==
  ASSUME Typed, NEW r \in Requests, RequestInv(r), pc[r] = "filter", Relax(r),
         storeVars' = storeVars
  PROVE  Works(r) /\ RequestInv(r)'
<1>1. /\ Touches(r) /\ loc'[r].degraded = TRUE
      /\ loc'[r].plan = loc[r].plan /\ loc'[r].evidence = loc[r].evidence
      /\ loc'[r].refs = loc[r].refs
  BY RelaxLocals, Zenon
<1>2. window' = window /\ answer' = answer /\ pc' = pc
  BY DEF Relax
<1>3. Works(r)
  BY <1>1, <1>2 DEF Works, Over, Typed
<1>4. Keeping(r)'
  BY <1>1, <1>2 DEF Keeping, Searching
<1>5. AtHand(r)' = AtHand(r)
  BY <1>1, <1>2 DEF AtHand
<1>6. Knowing(r)'
  BY <1>1, <1>2, <1>5, SameStore DEF Knowing, RequestInv, AreTrue, Selecting, Advising, Over
<1> QED
  BY <1>3, <1>4, <1>6 DEF RequestInv

LEMMA ChooseKeeps ==
  ASSUME Typed, NEW r \in Requests, RequestInv(r), pc[r] = "filter",
         NEW chosen \in SUBSET loc[r].refs,
         loc' = [loc EXCEPT ![r].chosen = chosen, ![r].refs = {}],
         Goto(r, "rows"), storeVars' = storeVars, window' = window, answer' = answer
  PROVE  Works(r) /\ RequestInv(r)'
<1>1. /\ Touches(r) /\ loc'[r].chosen = chosen
      /\ loc'[r].plan = loc[r].plan /\ loc'[r].evidence = loc[r].evidence
      /\ loc'[r].conds = loc[r].conds /\ loc'[r].degraded = loc[r].degraded
  BY ChooseLocals, Zenon
<1>2. "rows" \in Places \ Over /\ pc[r] \notin Over /\ loc'[r].degraded \in BOOLEAN
  BY <1>1 DEF Places, InDb, Over, Typed
<1>3. Works(r) /\ pc'[r] = "rows"
  BY <1>1, <1>2, WorksIf, Zenon
<1>4. AtHand(r)' = chosen /\ AtHand(r) = loc[r].refs
  BY <1>1, <1>3 DEF AtHand
<1>5. Keeping(r)'
  <2>1. CASE loc[r].degraded
    BY <1>1, <1>3, <2>1 DEF Keeping, Searching
  <2>2. CASE ~loc[r].degraded
    <3>1. /\ loc[r].plan # None
          /\ loc[r].plan.repo # None => \A i \in chosen : RepoOf[i] = loc[r].plan.repo
          /\ loc[r].conds = loc[r].plan.conds \ IF loc[r].plan.repo = None
                                                THEN {"version"} ELSE {}
      BY <1>4, <2>2 DEF Keeping, RequestInv, Selecting
    <3> QED
      BY <1>1, <1>3, <1>4, <3>1, ZenonT(60) DEF Keeping, Searching
  <2> QED
    BY <2>1, <2>2
<1>6. AreTrue(loc[r].evidence, window[r])'
  BY <1>1 DEF AreTrue, Knowing, RequestInv, Selecting
<1>7. AtHand(r)' \subseteq Tagged'
  BY <1>4, SameStore DEF Knowing, RequestInv, Selecting
<1>8. Knowing(r)'
  BY <1>3, <1>6, <1>7, SameStore DEF Knowing, RequestInv, Selecting, Advising, Over
<1> QED
  BY <1>3, <1>5, <1>8 DEF RequestInv

LEMMA ReadRowsKeeps ==
  ASSUME Typed, NEW r \in Requests, RequestInv(r), ReadRows(r)
  PROVE  Works(r) /\ RequestInv(r)'
<1>1. /\ Touches(r) /\ loc'[r].rows = [i \in loc[r].chosen |-> tag[i].digest]
      /\ loc'[r].plan = loc[r].plan /\ loc'[r].evidence = loc[r].evidence
      /\ loc'[r].conds = loc[r].conds /\ loc'[r].degraded = loc[r].degraded
  BY ReadRowsLocals, Zenon
<1>2. storeVars' = storeVars /\ window' = window /\ answer' = answer /\ pc[r] = "rows"
      /\ Goto(r, "platforms")
  BY DEF ReadRows
<1>3. "platforms" \in Places \ Over /\ pc[r] \notin Over /\ loc'[r].degraded \in BOOLEAN
  BY <1>1, <1>2 DEF Places, InDb, Over, Typed
<1>4. Works(r) /\ pc'[r] = "platforms"
  BY <1>1, <1>2, <1>3, WorksIf, Zenon
<1>5. /\ DOMAIN loc'[r].rows = loc[r].chosen
      /\ \A i \in loc[r].chosen : loc'[r].rows[i] = tag[i].digest
  BY <1>1
<1>6. AtHand(r)' = loc[r].chosen /\ AtHand(r) = loc[r].chosen
  BY <1>2, <1>4, <1>5 DEF AtHand
<1>7. Keeping(r)'
  BY <1>1, <1>2, <1>4, <1>6 DEF Keeping, RequestInv, Searching, Selecting, Advising
<1>8. AtHand(r) \subseteq Tagged /\ CurrentFacts \subseteq window[r]
  BY <1>2 DEF Knowing, RequestInv, Selecting, Over
<1>9. \A i \in DOMAIN loc'[r].rows : <<"digest", i, loc'[r].rows[i]>> \in window'[r]
  BY <1>2, <1>5, <1>6, <1>8, StoredIsFact
<1>10. AreTrue(loc[r].evidence, window[r])' /\ AtHand(r)' \subseteq Tagged'
  BY <1>1, <1>2, <1>6, <1>8, SameStore DEF AreTrue, Knowing, RequestInv, Selecting
<1>11. Knowing(r)'
  BY <1>2, <1>4, <1>8, <1>9, <1>10, SameStore DEF Knowing, Selecting, Advising, Over
<1> QED
  BY <1>4, <1>7, <1>11 DEF RequestInv

LEMMA ReadPlatformsKeeps ==
  ASSUME Typed, NEW r \in Requests, RequestInv(r), ReadPlatforms(r)
  PROVE  Works(r) /\ RequestInv(r)'
<1> DEFINE rows == loc[r].rows
           repos == {RepoOf[i] : i \in DOMAIN rows}
<1>1. /\ Touches(r) /\ loc'[r].cands = Described(r)
      /\ loc'[r].evidence = Of(loc[r].evidence, repos)
      /\ loc'[r].plan = loc[r].plan
      /\ loc'[r].conds = loc[r].conds /\ loc'[r].degraded = loc[r].degraded
  BY ReadPlatformsLocals, Zenon
<1>2. storeVars' = storeVars /\ window' = window /\ answer' = answer /\ pc[r] = "platforms"
      /\ Goto(r, "advise")
  BY DEF ReadPlatforms
<1>3. "advise" \in Places \ Over /\ pc[r] \notin Over /\ loc'[r].degraded \in BOOLEAN
  BY <1>1, <1>2 DEF Places, InDb, Remote, Over, Typed
<1>4. Works(r) /\ pc'[r] = "advise"
  BY <1>1, <1>2, <1>3, WorksIf, Zenon
<1>5. /\ DOMAIN loc'[r].cands = DOMAIN rows
      /\ \A i \in DOMAIN rows : /\ loc'[r].cands[i].digest = rows[i]
                                /\ loc'[r].cands[i].platforms = tag[i].digest
  BY <1>1 DEF Described
<1>6. AtHand(r)' = DOMAIN rows /\ AtHand(r) = DOMAIN rows
  BY <1>2, <1>4, <1>5 DEF AtHand
<1>7. Keeping(r)'
  BY <1>1, <1>2, <1>4, <1>6 DEF Keeping, RequestInv, Searching, Selecting, Advising
<1>8. /\ DOMAIN rows \subseteq Tagged /\ CurrentFacts \subseteq window[r]
      /\ \A i \in DOMAIN rows : <<"digest", i, rows[i]>> \in window[r]
      /\ AreTrue(loc[r].evidence, window[r])
  BY <1>2, <1>6 DEF Knowing, RequestInv, Selecting, Over
<1>9. \A i \in DOMAIN loc'[r].cands :
        /\ <<"digest", i, loc'[r].cands[i].digest>> \in window'[r]
        /\ <<"platforms", i, loc'[r].cands[i].platforms>> \in window'[r]
  BY <1>2, <1>5, <1>8, StoredIsFact
<1>10. AreTrue(loc[r].evidence, window[r])'
  <2>1. /\ DOMAIN Of(loc[r].evidence, repos) \subseteq DOMAIN loc[r].evidence
        /\ \A d \in DOMAIN Of(loc[r].evidence, repos) :
             Of(loc[r].evidence, repos)[d] = loc[r].evidence[d]
    BY DEF Of
  <2> HIDE DEF repos
  <2> QED
    BY <1>1, <1>2, <1>8, <2>1 DEF AreTrue
<1>11. Knowing(r)'
  BY <1>2, <1>4, <1>6, <1>8, <1>9, <1>10, SameStore DEF Knowing, Selecting, Advising, Over
<1> QED
  BY <1>4, <1>7, <1>11 DEF RequestInv

-----------------------------------------------------------------------------
(* The steps that end a request.                                           *)
Ends(r) ==
  /\ storeVars' = storeVars /\ pc[r] \notin Over
  /\ \E response : /\ Respond(r, response)
                   /\ response # None => Good(response, window[r])

CandsAreTrue(cands, known) ==
  \A i \in DOMAIN cands : /\ <<"digest", i, cands[i].digest>> \in known
                          /\ <<"platforms", i, cands[i].platforms>> \in known

LEMMA WithoutIsGood ==
  ASSUME NEW r \in Requests, NEW cands, NEW evidence,
         AreTrue(evidence, window[r]), CandsAreTrue(cands, window[r])
  PROVE  Good(WithoutRecommendation(r, cands, evidence), window[r])
<1> DEFINE a == WithoutRecommendation(r, cands, evidence)
<1>1. /\ a.image = None /\ a.pinned = {} /\ a.verified = {} /\ a.degraded = TRUE
      /\ a.cands = cands /\ a.evidence = evidence
  BY DEF WithoutRecommendation
<1>2. Carries(a)
  BY <1>1 DEF Carries
<1> HIDE DEF a
<1>3. AreTrue(a.evidence, window[r]) /\ CandsAreTrue(a.cands, window[r])
  BY <1>1
<1>4. /\ a.image # None => Recommends(a)
      /\ a.image = None => a.degraded /\ a.pinned = {}
  BY <1>1
<1>5. ~a.degraded => KeptPlan(a)
  BY <1>1
<1>6. Good(a, window[r])
  BY <1>2, <1>3, <1>4, <1>5, Zenon DEF Good, CandsAreTrue
<1> QED
  BY <1>6 DEF a

LEMMA EmptyIsTrue ==
  ASSUME NEW known
  PROVE  AreTrue(<<>>, known) /\ CandsAreTrue(<<>>, known)
<1>1. DOMAIN <<>> = {}
  OBVIOUS
<1> QED
  BY <1>1, Zenon DEF AreTrue, CandsAreTrue

LEMMA AdvisingIsTrue ==
  ASSUME NEW r \in Requests, RequestInv(r), pc[r] \in Advising
  PROVE  AreTrue(loc[r].evidence, window[r]) /\ CandsAreTrue(loc[r].cands, window[r])
  BY DEF RequestInv, Knowing, CandsAreTrue

LEMMA VerifyEnds ==
  ASSUME Typed, NEW r \in Requests, RequestInv(r), Verify(r)
  PROVE  Ends(r)
<1> DEFINE rec   == loc[r].rec
           kept  == {i \in rec.alternatives : Real(r, i)}
           repos == {RepoOf[i] : i \in {rec.image} \union kept}
           a == [image |-> rec.image, pinned |-> Pinned(r, rec.image),
                 alternatives |-> kept,
                 verified |-> {q \in rec.quotes : Genuine(r, q, repos)},
                 cands |-> loc[r].cands, evidence |-> loc[r].evidence,
                 degraded |-> loc[r].degraded,
                 plan |-> loc[r].plan, applied |-> loc[r].conds]
<1>1. pc[r] = "verify" /\ Real(r, rec.image) /\ storeVars' = storeVars /\ Respond(r, a)
  BY Zenon DEF Verify
<1>2. /\ a.image = rec.image /\ a.pinned = Pinned(r, rec.image) /\ a.alternatives = kept
      /\ a.verified = {q \in rec.quotes : Genuine(r, q, repos)}
      /\ a.cands = loc[r].cands /\ a.evidence = loc[r].evidence
      /\ a.degraded = loc[r].degraded /\ a.plan = loc[r].plan /\ a.applied = loc[r].conds
  OBVIOUS
<1> HIDE DEF a
<1>3. Recommends(a)
  <2>1. rec.image \in DOMAIN loc[r].cands /\ rec.image \in Tagged
    BY <1>1 DEF Real, Offered
  <2>2. \A i \in kept : i \in DOMAIN loc[r].cands /\ i \in Tagged
    BY DEF Real, Offered
  <2>3. Pinned(r, rec.image) = {loc[r].cands[rec.image]}
    BY <2>1 DEF Pinned
  <2> HIDE DEF rec, kept
  <2> QED
    BY <1>2, <2>1, <2>2, <2>3 DEF Recommends
<1>4. rec.image # None
  BY <1>1 DEF Real, Tagged
<1>5. Carries(a)
  <2>1. \A q \in a.verified : Genuine(r, q, repos)
    BY <1>2
  <2>2. repos = {RepoOf[i] : i \in {a.image} \union a.alternatives}
    BY <1>2
  <2> HIDE DEF repos
  <2> QED
    BY <1>2, <2>1, <2>2 DEF Carries, Genuine
<1>6. ~a.degraded => KeptPlan(a)
  <2>1. AtHand(r) = DOMAIN loc[r].cands
    BY <1>1 DEF AtHand
  <2> HIDE DEF rec
  <2> QED
    BY <1>1, <1>2, <1>4, <2>1 DEF KeptPlan, RequestInv, Keeping, Advising
<1>7. AreTrue(a.evidence, window[r]) /\ CandsAreTrue(a.cands, window[r])
  BY <1>1, <1>2, AdvisingIsTrue DEF Advising
<1>8. Good(a, window[r])
  BY <1>2, <1>3, <1>4, <1>5, <1>6, <1>7 DEF Good, CandsAreTrue
<1> QED
  BY <1>1, <1>8, Zenon DEF Ends, Over

LEMMA DiscardEnds ==
  ASSUME Typed, NEW r \in Requests, RequestInv(r), Discard(r)
  PROVE  Ends(r)
<1> DEFINE a == WithoutRecommendation(r, loc[r].cands, loc[r].evidence)
<1>1. pc[r] \in {"wantVerify", "verify"} /\ storeVars' = storeVars /\ Respond(r, a)
  BY DEF Discard
<1>2. Good(a, window[r])
  BY <1>1, AdvisingIsTrue, WithoutIsGood DEF Advising
<1>3. pc[r] \notin Over
  BY <1>1 DEF Over
<1> HIDE DEF a
<1> QED
  BY <1>1, <1>2, <1>3, Zenon DEF Ends

LEMMA AdviseFailsEnds ==
  ASSUME Typed, NEW r \in Requests, RequestInv(r), AdviseFails(r)
  PROVE  Ends(r)
<1> DEFINE a == WithoutRecommendation(r, loc[r].cands, loc[r].evidence)
<1>1. pc[r] = "advise" /\ storeVars' = storeVars /\ Respond(r, a)
  BY DEF AdviseFails
<1>2. Good(a, window[r])
  BY <1>1, AdvisingIsTrue, WithoutIsGood DEF Advising
<1>3. pc[r] \notin Over
  BY <1>1 DEF Over
<1> HIDE DEF a
<1> QED
  BY <1>1, <1>2, <1>3, Zenon DEF Ends

(* The stages of the ladder that answer with nothing but notes, and those  *)
(* that raise.                                                             *)
LEMMA OthersEnd ==
  ASSUME NEW r \in Requests, storeVars' = storeVars, pc[r] \notin Over,
         \/ Respond(r, WithoutRecommendation(r, <<>>, <<>>))
         \/ Respond(r, None)
  PROVE  Ends(r)
<1>1. Good(WithoutRecommendation(r, <<>>, <<>>), window[r])
  BY EmptyIsTrue, WithoutIsGood
<1> QED
  BY <1>1, Zenon DEF Ends

(* Every step of a request other than its first.                           *)
LEMMA FilterKeeps ==
  ASSUME Typed, NEW r \in Requests, RequestInv(r), Filter(r)
  PROVE  (Works(r) /\ RequestInv(r)') \/ Ends(r)
<1> DEFINE allowed == {i \in loc[r].refs : loc[r].conds \subseteq tag[i].fits}
<1>1. pc[r] = "filter" /\ storeVars' = storeVars
  BY DEF Filter
<1>2. CASE Relax(r)
  BY <1>1, <1>2, RelaxKeeps
<1>3. CASE Respond(r, WithoutRecommendation(r, <<>>, <<>>))
  BY <1>1, <1>3, OthersEnd DEF Over
<1>4. ASSUME NEW chosen \in SUBSET allowed \ {{}},
             loc' = [loc EXCEPT ![r].chosen = chosen, ![r].refs = {}],
             Goto(r, "rows"), UNCHANGED <<conns, answer, window>>
      PROVE  Works(r) /\ RequestInv(r)'
  <2>1. chosen \in SUBSET loc[r].refs
    OBVIOUS
  <2>2. window' = window /\ answer' = answer
    BY <1>4
  <2> HIDE DEF allowed
  <2> QED
    BY <1>1, <1>4, <2>1, <2>2, ChooseKeeps, Zenon
<1> HIDE DEF allowed
<1>5. \/ \E chosen \in SUBSET allowed \ {{}} :
           /\ loc' = [loc EXCEPT ![r].chosen = chosen, ![r].refs = {}]
           /\ Goto(r, "rows")
           /\ UNCHANGED <<conns, answer, window>>
      \/ Relax(r)
      \/ Respond(r, WithoutRecommendation(r, <<>>, <<>>))
  BY Zenon DEF Filter, allowed
<1> QED
  BY <1>2, <1>3, <1>4, <1>5, Zenon

LEMMA RequestSteps ==
  ASSUME Typed, NEW r \in Requests, RequestInv(r),
         RemoteCall(r) \/ Acquire(r) \/ PoolTimeout(r) \/ Statement(r) \/ DbFails(r)
  PROVE  (Works(r) /\ RequestInv(r)') \/ Ends(r)
<1>1. CASE RemoteCall(r)
  <2>1. CASE EmbedFails(r)
    BY <2>1, OthersEnd DEF EmbedFails, Over, storeVars
  <2> QED
    BY <1>1, <2>1, EmbedKeeps, PlanKeeps, PlanFailsKeeps, AdviseKeeps, AdviseFailsEnds, Zenon
       DEF RemoteCall
<1>2. CASE Acquire(r)
  BY <1>2, AcquireKeeps
<1>3. CASE PoolTimeout(r)
  BY <1>3, OthersEnd DEF PoolTimeout, Wants, Waiting, Over, storeVars
<1>4. CASE DbFails(r)
  BY <1>4, OthersEnd DEF DbFails, InDb, Over
<1>5. CASE Statement(r)
  <2>1. CASE LoadRaises(r)
    BY <2>1, OthersEnd DEF LoadRaises, Over
  <2> QED
    BY <1>5, <2>1, ReadNamesKeeps, RankKeeps, RankOwnKeeps, LoadKeeps, LoadOwnKeeps,
       ReadTagsKeeps, FilterKeeps, ReadRowsKeeps, ReadPlatformsKeeps, DiscardEnds,
       VerifyEnds, Zenon
       DEF Statement
<1> QED
  BY <1>1, <1>2, <1>3, <1>4, <1>5, Zenon

-----------------------------------------------------------------------------
(* Steps keep the invariant: first the beginning of a request, ...         *)
LEMMA StartInv == Init => Inv
<1> SUFFICES ASSUME Init PROVE Inv
  OBVIOUS
<1>1. Typed
  <2>1. tag \in [Images -> TagRows \union {None}]
    BY DEF Init
  <2>2. doc \in [Docs -> 0..MaxReindexes \union {None}]
    BY DEF Init
  <2>3. commits \in 0..MaxCommits /\ reindexes \in 0..MaxReindexes
    BY DEF Init
  <2>4. pc \in [Requests -> Places]
    BY DEF Init, Places, Over
  <2>5. /\ answer = [r \in Requests |-> answer[r]]
        /\ window = [r \in Requests |-> window[r]]
        /\ loc = [r \in Requests |-> loc[r]]
    BY DEF Init
  <2>6. \A r \in Requests : IsLocals(loc[r]) /\ loc[r].degraded \in BOOLEAN
    BY DEF Init, FreshLocals, IsLocals
  <2> QED
    BY <2>1, <2>2, <2>3, <2>4, <2>5, <2>6 DEF Typed
<1>2. \A r \in Requests : RequestInv(r)
  BY DEF Init, RequestInv, Keeping, Knowing, Searching, Selecting, Advising, Over
<1>3. GoodAnswers
  BY DEF Init, GoodAnswers, RecommendationIsCandidate, CitationsAreCarried,
         UndegradedKeepsPlan, Answered
<1> QED
  BY <1>1, <1>2, <1>3 DEF Inv

LEMMA TypedStep ==
  ASSUME Typed, NEW r \in Requests, Touches(r), loc'[r].degraded \in BOOLEAN,
         storeVars' = storeVars, pc' \in [Requests -> Places],
         answer' = [q \in Requests |-> answer'[q]],
         window' = [q \in Requests |-> window'[q]]
  PROVE  Typed'
<1>1. /\ tag' \in [Images -> TagRows \union {None}]
      /\ doc' \in [Docs -> 0..MaxReindexes \union {None}]
      /\ commits' \in 0..MaxCommits /\ reindexes' \in 0..MaxReindexes
  BY SameStore DEF Typed
<1>2. \A q \in Requests : IsLocals(loc'[q]) /\ loc'[q].degraded \in BOOLEAN
  BY DEF Typed, Touches
<1> QED
  BY <1>1, <1>2, Zenon DEF Typed, Touches

(* Answers that were given stay good while images are only added.          *)
LEMMA AnswersStayGood ==
  ASSUME GoodAnswers, answer' = answer, Tagged \subseteq Tagged'
  PROVE  GoodAnswers'
<1>1. Answered' = Answered
  BY DEF Answered
<1>2. RecommendationIsCandidate'
  BY <1>1 DEF GoodAnswers, RecommendationIsCandidate
<1>3. CitationsAreCarried'
  BY <1>1 DEF GoodAnswers, CitationsAreCarried
<1>4. UndegradedKeepsPlan'
  BY <1>1 DEF GoodAnswers, UndegradedKeepsPlan
<1> QED
  BY <1>2, <1>3, <1>4 DEF GoodAnswers

LEMMA BeginInv ==
  ASSUME Inv, NEW r \in Requests, Begin(r)
  PROVE  Inv'
<1> USE DEF Inv
<1>1. pc' \in [Requests -> Places] /\ pc'[r] = "embed"
      /\ \A q \in Requests \ {r} : pc'[q] = pc[q]
  BY GotoPlace DEF Begin, Places, Remote
<1>2. storeVars' = storeVars /\ loc' = loc /\ answer' = answer
      /\ window' = [window EXCEPT ![r] = CurrentFacts]
  BY DEF Begin
<1>3. window'[r] = CurrentFacts /\ (\A q \in Requests \ {r} : window'[q] = window[q])
      /\ window' = [q \in Requests |-> window'[q]]
  BY <1>2 DEF Typed
<1>4. Typed'
  <2>1. answer' = [q \in Requests |-> answer'[q]]
    BY <1>2 DEF Typed
  <2> QED
    BY <1>1, <1>2, <1>3, <2>1, SameLocals, TypedStep
<1>5. RequestInv(r)'
  <2>1. CurrentFacts' = CurrentFacts
    BY <1>2, SameStore
  <2> QED
    BY <1>1, <1>3, <2>1 DEF RequestInv, Keeping, Knowing, Searching, Selecting, Advising, Over
<1>6. \A q \in Requests \ {r} : RequestInv(q)'
  BY <1>1, <1>2, <1>3, StoodStill
<1>7. GoodAnswers'
  BY <1>2, SameStore, AnswersStayGood
<1> QED
  BY <1>4, <1>5, <1>6, <1>7

(* ... its further steps, ...                                              *)
LEMMA WorksInv ==
  ASSUME Inv, NEW r \in Requests, Works(r), RequestInv(r)'
  PROVE  Inv'
<1> USE DEF Inv
<1>1. /\ storeVars' = storeVars /\ window' = window /\ answer' = answer
      /\ \A q \in Requests \ {r} : pc'[q] = pc[q] /\ loc'[q] = loc[q]
  BY DEF Works, Touches
<1>2. Typed'
  <2>1. /\ answer' = [q \in Requests |-> answer'[q]]
        /\ window' = [q \in Requests |-> window'[q]]
    BY <1>1 DEF Typed
  <2> QED
    BY <2>1, TypedStep, Zenon DEF Works
<1>3. \A q \in Requests \ {r} : RequestInv(q)'
  BY <1>1, StoodStill
<1>4. GoodAnswers'
  BY <1>1, SameStore, AnswersStayGood
<1> QED
  BY <1>2, <1>3, <1>4

(* ... its answer, ...                                                     *)
LEMMA EndsInv ==
  ASSUME Inv, NEW r \in Requests, Ends(r)
  PROVE  Inv'
<1> USE DEF Inv
<1>1. PICK response : /\ Respond(r, response)
                      /\ response # None => Good(response, window[r])
  BY Zenon DEF Ends
<1>2. /\ storeVars' = storeVars /\ pc[r] \notin Over
      /\ answer' = [answer EXCEPT ![r] = response]
      /\ loc' = [loc EXCEPT ![r] = FreshLocals]
      /\ window' = [window EXCEPT ![r] = {}]
      /\ Goto(r, "answered")
  BY <1>1 DEF Ends, Respond
<1>3. pc' \in [Requests -> Places] /\ pc'[r] = "answered"
      /\ \A q \in Requests \ {r} : pc'[q] = pc[q]
  BY <1>2, GotoPlace DEF Places, Over
<1>4. /\ answer' = [q \in Requests |-> answer'[q]] /\ answer'[r] = response
      /\ \A q \in Requests \ {r} : answer'[q] = answer[q]
  BY <1>2 DEF Typed
<1>5. /\ window' = [q \in Requests |-> window'[q]]
      /\ \A q \in Requests \ {r} : window'[q] = window[q]
  BY <1>2 DEF Typed
<1>6. /\ loc' = [q \in Requests |-> loc'[q]] /\ loc'[r] = FreshLocals
      /\ \A q \in Requests \ {r} : loc'[q] = loc[q]
  BY <1>2 DEF Typed
<1>7. Touches(r) /\ loc'[r].degraded \in BOOLEAN
  <2>1. IsLocals(loc'[r]) /\ loc'[r].degraded = FALSE
    BY <1>6 DEF FreshLocals, IsLocals
  <2> QED
    BY <1>6, <2>1, Zenon DEF Touches
<1>8. Typed'
  BY <1>2, <1>3, <1>4, <1>5, <1>7, TypedStep
<1>9. RequestInv(r)'
  BY <1>3 DEF RequestInv, Keeping, Knowing, Searching, Selecting, Advising, Over
<1>10. \A q \in Requests \ {r} : RequestInv(q)'
  BY <1>2, <1>3, <1>5, <1>6, StoodStill
<1>11. GoodAnswers'
  <2>1. Tagged' = Tagged
    BY <1>2, SameStore
  <2>2. \A q \in Answered' : q = r \/ (q \in Answered /\ answer'[q] = answer[q])
    BY <1>4 DEF Answered
  <2>3. r \in Answered' => Good(answer'[r], window[r])
    BY <1>1, <1>4 DEF Answered
  <2>4. RecommendationIsCandidate'
    BY <2>1, <2>2, <2>3 DEF GoodAnswers, RecommendationIsCandidate, Good, Recommends
  <2>5. CitationsAreCarried'
    BY <2>2, <2>3 DEF GoodAnswers, CitationsAreCarried, Good, Carries
  <2>6. UndegradedKeepsPlan'
    BY <2>2, <2>3 DEF GoodAnswers, UndegradedKeepsPlan, Good, KeptPlan
  <2> QED
    BY <2>4, <2>5, <2>6 DEF GoodAnswers
<1> QED
  BY <1>8, <1>9, <1>10, <1>11

(* ... and what the batches commit beside it.                              *)
LEMMA BatchInv ==
  ASSUME Inv, /\ tag' \in [Images -> TagRows \union {None}]
              /\ doc' \in [Docs -> 0..MaxReindexes \union {None}]
              /\ commits' \in 0..MaxCommits /\ reindexes' \in 0..MaxReindexes,
         Tagged \subseteq Tagged', UNCHANGED <<pc, loc, conns, answer>>, Observe
  PROVE  Inv'
<1> USE DEF Inv
<1>1. pc' = pc /\ loc' = loc /\ answer' = answer
  OBVIOUS
<1>2. /\ window' = [r \in Requests |-> window'[r]]
      /\ \A r \in Requests : /\ window[r] \subseteq window'[r]
                             /\ pc[r] \notin Over => CurrentFacts' \subseteq window'[r]
  BY DEF Observe
<1>3. Typed'
  BY <1>1, <1>2, Zenon DEF Typed
<1>4. ASSUME NEW r \in Requests PROVE RequestInv(r)'
  <2>1. Keeping(r)'
    <3>1. Named(r)' = Named(r) /\ AtHand(r)' = AtHand(r)
      BY <1>1 DEF Named, AtHand
    <3> QED
      BY <1>1, <3>1 DEF RequestInv, Keeping
  <2>2. Knowing(r)'
    <3>1. AtHand(r)' = AtHand(r) /\ window[r] \subseteq window'[r]
      BY <1>1, <1>2 DEF AtHand
    <3>2. /\ AreTrue(loc[r].evidence, window[r]) => AreTrue(loc[r].evidence, window[r])'
          /\ AreTrue(loc[r].own, window[r]) => AreTrue(loc[r].own, window[r])'
      BY <1>1, <3>1 DEF AreTrue
    <3>3. pc'[r] \notin Over => CurrentFacts' \subseteq window'[r]
      BY <1>1, <1>2
    <3> QED
      BY <1>1, <3>1, <3>2, <3>3 DEF RequestInv, Knowing
  <2> QED
    BY <2>1, <2>2 DEF RequestInv
<1>5. GoodAnswers'
  BY <1>1, AnswersStayGood
<1> QED
  BY <1>3, <1>4, <1>5

LEMMA Batches ==
  ASSUME Inv, NEW repo \in Repos, CollectPage(repo) \/ Derive(repo) \/ IndexReadme(repo)
  PROVE  /\ tag' \in [Images -> TagRows \union {None}]
         /\ doc' \in [Docs -> 0..MaxReindexes \union {None}]
         /\ commits' \in 0..MaxCommits /\ reindexes' \in 0..MaxReindexes
         /\ Tagged \subseteq Tagged' /\ Observe
         /\ UNCHANGED <<pc, loc, conns, answer>>
<1>0. Typed
  BY DEF Inv
<1>1. CASE CollectPage(repo)
  <2>0. PICK page \in SUBSET {i \in Images : RepoOf[i] = repo} \ {{}} :
          \E fits \in [page -> SUBSET Conditions] :
            tag' = [i \in Images |-> IF i \in page
                                     THEN [digest |-> commits + 1, fits |-> fits[i]]
                                     ELSE tag[i]]
    BY <1>1, Zenon DEF CollectPage
  <2>1. PICK fits \in [page -> SUBSET Conditions] :
          tag' = [i \in Images |-> IF i \in page
                                   THEN [digest |-> commits + 1, fits |-> fits[i]]
                                   ELSE tag[i]]
    BY <2>0
  <2>2. /\ commits < MaxCommits /\ commits' = commits + 1 /\ Observe
        /\ doc' = doc /\ reindexes' = reindexes /\ UNCHANGED <<pc, loc, conns, answer>>
    BY <1>1 DEF CollectPage
  <2>3. commits + 1 \in 0..MaxCommits
    BY <1>0, <2>2 DEF Typed
  <2>4. \A i \in page : [digest |-> commits + 1, fits |-> fits[i]] \in TagRows
    BY <2>3 DEF TagRows
  <2>5. tag' \in [Images -> TagRows \union {None}]
    BY <1>0, <2>1, <2>4 DEF Typed
  <2>6. Tagged \subseteq Tagged'
    <3>1. \A i \in page : tag'[i] # None
      BY <2>1, <2>4
    <3>2. \A i \in Images \ page : tag'[i] = tag[i]
      BY <2>1
    <3> QED
      BY <3>1, <3>2 DEF Tagged
  <2> QED
    BY <1>0, <2>2, <2>3, <2>5, <2>6 DEF Typed
<1>2. CASE Derive(repo)
  <2> DEFINE those == {i \in Tagged : RepoOf[i] = repo}
  <2>1. PICK fits \in [those -> SUBSET Conditions] :
          tag' = [i \in Images |-> IF i \in DOMAIN fits
                                   THEN [tag[i] EXCEPT !.fits = fits[i]] ELSE tag[i]]
    BY <1>2, Zenon DEF Derive
  <2>2. /\ commits < MaxCommits /\ commits' = commits + 1 /\ Observe
        /\ doc' = doc /\ reindexes' = reindexes /\ UNCHANGED <<pc, loc, conns, answer>>
    BY <1>2 DEF Derive
  <2>3. commits + 1 \in 0..MaxCommits
    BY <1>0, <2>2 DEF Typed
  <2>4. \A i \in those : [tag[i] EXCEPT !.fits = fits[i]] \in TagRows
    <3>1. \A i \in those : tag[i] \in TagRows
      BY <1>0 DEF Typed, Tagged
    <3> QED
      BY <3>1 DEF TagRows
  <2>5. DOMAIN fits = those
    OBVIOUS
  <2>6. /\ \A i \in those : i \in Images /\ tag'[i] = [tag[i] EXCEPT !.fits = fits[i]]
        /\ \A i \in Images \ those : tag'[i] = tag[i]
        /\ tag' = [i \in Images |-> tag'[i]]
    BY <2>1, <2>5 DEF Tagged
  <2> HIDE DEF those
  <2>9. \A i \in those : i \in Images /\ tag'[i] \in TagRows
    BY <2>4, <2>6, Zenon
  <2>7. tag' \in [Images -> TagRows \union {None}]
    BY <1>0, <2>6, <2>9 DEF Typed
  <2>8. Tagged \subseteq Tagged'
    BY <2>6, <2>9 DEF Tagged
  <2> QED
    BY <1>0, <2>2, <2>3, <2>7, <2>8 DEF Typed
<1>3. CASE IndexReadme(repo)
  <2>1. PICK written \in SUBSET {d \in Docs : RepoOf[d] = repo},
             gone \in SUBSET {d \in Docs : RepoOf[d] = repo} :
          doc' = [d \in Docs |-> IF d \in written THEN reindexes + 1
                                 ELSE IF d \in gone THEN None ELSE doc[d]]
    BY <1>3, Zenon DEF IndexReadme
  <2>2. /\ reindexes < MaxReindexes /\ reindexes' = reindexes + 1 /\ Observe
        /\ tag' = tag /\ commits' = commits /\ UNCHANGED <<pc, loc, conns, answer>>
    BY <1>3 DEF IndexReadme
  <2>3. reindexes + 1 \in 0..MaxReindexes
    BY <1>0, <2>2 DEF Typed
  <2>4. doc' \in [Docs -> 0..MaxReindexes \union {None}]
    BY <1>0, <2>1, <2>3 DEF Typed
  <2>5. Tagged' = Tagged
    BY <2>2 DEF Tagged
  <2> QED
    BY <1>0, <2>2, <2>3, <2>4, <2>5 DEF Typed
<1> QED
  BY <1>1, <1>2, <1>3

-----------------------------------------------------------------------------
LEMMA StepInv == Inv /\ [Next]_vars => Inv'
<1> SUFFICES ASSUME Inv, [Next]_vars PROVE Inv'
  OBVIOUS
<1>1. CASE UNCHANGED vars
  <2>1. /\ storeVars' = storeVars /\ pc' = pc /\ loc' = loc /\ answer' = answer
        /\ window' = window
    BY <1>1 DEF vars
  <2>2. \A r \in Requests : RequestInv(r)'
    BY <2>1, StoodStill DEF Inv
  <2>3. Typed'
    BY <2>1, SameStore, Zenon DEF Inv, Typed
  <2>4. GoodAnswers'
    BY <2>1, SameStore, AnswersStayGood DEF Inv
  <2> QED
    BY <2>2, <2>3, <2>4 DEF Inv
<1>2. ASSUME NEW repo \in Repos, CollectPage(repo) \/ Derive(repo) \/ IndexReadme(repo)
      PROVE  Inv'
  BY <1>2, Batches, BatchInv
<1>3. ASSUME NEW r \in Requests, Begin(r) PROVE Inv'
  BY <1>3, BeginInv
<1>4. ASSUME NEW r \in Requests,
             RemoteCall(r) \/ Acquire(r) \/ PoolTimeout(r) \/ Statement(r) \/ DbFails(r)
      PROVE  Inv'
  BY <1>4, RequestSteps, WorksInv, EndsInv DEF Inv
<1> QED
  BY <1>1, <1>2, <1>3, <1>4, Zenon DEF Next

LEMMA Invariant == Spec => []Inv
  BY StartInv, StepInv, PTL DEF Spec

(* A recommended image and its alternatives are candidates of their own    *)
(* answer, stored, and pinned to the digest that the candidate shows       *)
(* (verify_recommendation), whatever the batches commit meanwhile.         *)
THEOREM RecommendsCandidates == Spec => []RecommendationIsCandidate
<1>1. Inv => RecommendationIsCandidate
  BY DEF Inv, GoodAnswers
<1> QED
  BY <1>1, Invariant, PTL

(* A citation that is called verified stands in a text that the answer     *)
(* carries, of a repository it recommends (verify_citation).               *)
THEOREM CitesWhatItCarries == Spec => []CitationsAreCarried
<1>1. Inv => CitationsAreCarried
  BY DEF Inv, GoodAnswers
<1> QED
  BY <1>1, Invariant, PTL

(* An answer that does not call itself degraded comes from a search that   *)
(* kept to the plan: the forced repository (_has_tags), every condition    *)
(* (relaxations) and a version only within a repository.                   *)
THEOREM KeepsItsPlan == Spec => []UndegradedKeepsPlan
<1>1. Inv => UndegradedKeepsPlan
  BY DEF Inv, GoodAnswers
<1> QED
  BY <1>1, Invariant, PTL

-----------------------------------------------------------------------------
(* The abstract service: how its variables read off the ladder.            *)
Stages == [r \in Requests |-> IF pc[r] \in Over THEN pc[r] ELSE "asked"]

ReplyOf(a) == [shown  |-> ShownBy(a),
               pinned |-> {<<"digest", a.image, p.digest>> : p \in a.pinned},
               quoted |-> {<<"text", q.doc, q.text>> : q \in a.verified},
               recommends |-> a.image # None,
               degraded   |-> a.degraded]

Replies == [r \in Requests |-> IF answer[r] = None THEN None ELSE ReplyOf(answer[r])]

AllFacts == {"digest", "platforms", "text"} \X (Images \union Docs)
              \X (0..(MaxCommits + MaxReindexes))

LEMMA FactsAreFacts ==
  ASSUME Typed
  PROVE  CurrentFacts \subseteq AllFacts
<1>1. \A i \in Tagged : tag[i].digest \in 0..MaxCommits /\ i \in Images
  BY DEF Typed, Tagged, TagRows
<1>2. \A d \in Written : doc[d] \in 0..MaxReindexes /\ d \in Docs
  BY DEF Typed, Written
<1>3. 0..MaxCommits \subseteq 0..(MaxCommits + MaxReindexes)
      /\ 0..MaxReindexes \subseteq 0..(MaxCommits + MaxReindexes)
  OBVIOUS
<1>4. \A i \in Tagged : /\ <<"digest", i, tag[i].digest>> \in AllFacts
                        /\ <<"platforms", i, tag[i].digest>> \in AllFacts
  BY <1>1, <1>3 DEF AllFacts
<1>5. \A d \in Written : <<"text", d, doc[d]>> \in AllFacts
  BY <1>2, <1>3 DEF AllFacts
<1> DEFINE OfTags ==
             {{<<"digest", i, tag[i].digest>>, <<"platforms", i, tag[i].digest>>} : i \in Tagged}
           OfTexts == {<<"text", d, doc[d]>> : d \in Written}
<1>6. CurrentFacts = (UNION OfTags) \union OfTexts
  BY Zenon DEF CurrentFacts
<1> HIDE DEF AllFacts
<1>7. UNION OfTags \subseteq AllFacts
  BY <1>4
<1>8. OfTexts \subseteq AllFacts
  BY <1>5
<1> HIDE DEF OfTags, OfTexts
<1> QED
  BY <1>6, <1>7, <1>8

LEMMA FactsOfInv == Inv => CurrentFacts \subseteq AllFacts
  BY FactsAreFacts DEF Inv

(* A good answer is one that the service may give.                         *)
LEMMA GoodIsHonest ==
  ASSUME NEW a, NEW known, Good(a, known)
  PROVE  Service!Honest(ReplyOf(a), known)
<1> DEFINE Digests == {<<"digest", i, a.cands[i].digest>> : i \in DOMAIN a.cands}
           Platforms == {<<"platforms", i, a.cands[i].platforms>> : i \in DOMAIN a.cands}
           Quotable == {<<"text", d, a.evidence[d]>> : d \in DOMAIN a.evidence}
<1>1. ShownBy(a) = (Digests \union Platforms) \union Quotable
  BY DEF ShownBy
<1>2. Digests \subseteq known /\ Platforms \subseteq known
  BY DEF Good
<1>3. Quotable \subseteq known
  BY DEF Good, AreTrue
<1>4. {<<"digest", a.image, p.digest>> : p \in a.pinned} \subseteq Digests
  <2>1. CASE a.image = None
    BY <2>1 DEF Good
  <2>2. CASE a.image # None
    <3>1. a.image \in DOMAIN a.cands /\ a.pinned = {a.cands[a.image]}
      BY <2>2 DEF Good, Recommends
    <3> QED
      BY <3>1
  <2> QED
    BY <2>1, <2>2
<1>5. {<<"text", q.doc, q.text>> : q \in a.verified} \subseteq Quotable
  BY DEF Good, Carries
<1>6. a.image # None => {<<"digest", a.image, p.digest>> : p \in a.pinned} # {}
  <2> SUFFICES ASSUME a.image # None
               PROVE  {<<"digest", a.image, p.digest>> : p \in a.pinned} # {}
    OBVIOUS
  <2>1. a.cands[a.image] \in a.pinned
    BY DEF Good, Recommends
  <2>2. <<"digest", a.image, a.cands[a.image].digest>>
          \in {<<"digest", a.image, p.digest>> : p \in a.pinned}
    BY <2>1, Zenon
  <2> QED
    BY <2>2, Zenon
<1>7. a.image # None \/ a.degraded
  BY DEF Good
<1> HIDE DEF Digests, Platforms, Quotable
<1>8. /\ ReplyOf(a).shown = ShownBy(a)
      /\ ReplyOf(a).pinned = {<<"digest", a.image, p.digest>> : p \in a.pinned}
      /\ ReplyOf(a).quoted = {<<"text", q.doc, q.text>> : q \in a.verified}
      /\ ReplyOf(a).recommends = (a.image # None)
      /\ ReplyOf(a).degraded = a.degraded
  BY Zenon DEF ReplyOf
<1>9. /\ ReplyOf(a).shown \subseteq known
      /\ ReplyOf(a).pinned \subseteq ReplyOf(a).shown
      /\ ReplyOf(a).quoted \subseteq ReplyOf(a).shown
  BY <1>1, <1>2, <1>3, <1>4, <1>5, <1>8
<1>10. ReplyOf(a).recommends => ReplyOf(a).pinned # {}
  BY <1>6, <1>8
<1>11. ReplyOf(a).recommends \/ ReplyOf(a).degraded
  BY <1>7, <1>8
<1> QED
  BY <1>9, <1>10, <1>11, Zenon DEF Service!Honest

(* Every answer is one of the abstract service: all that it shows was true *)
(* at some moment since the question, the pinned digest and the quotes are *)
(* among what it shows, and an answer without a recommendation says that   *)
(* it is degraded.                                                         *)
THEOREM AnswersAreHonest == Spec => ImplementsAnswerService
<1>1. Init => Service!Init
  <2> SUFFICES ASSUME Init PROVE Service!Init
    OBVIOUS
  <2>1. CurrentFacts \subseteq AllFacts
    BY StartInv, FactsAreFacts DEF Inv
  <2>2. window = [r \in Requests |-> {}]
    BY DEF Init
  <2>3. Stages = [r \in Requests |-> "idle"]
    BY DEF Init, Stages, Over
  <2>4. Replies = [r \in Requests |-> None]
    BY DEF Init, Replies
  <2> QED
    BY <2>1, <2>2, <2>3, <2>4, Zenon DEF Service!Init, Stages, Replies, ReplyOf, AllFacts
<1>2. Inv /\ [Next]_vars => [Service!Next]_(Service!serviceVars)
  <2> SUFFICES ASSUME Inv, [Next]_vars PROVE [Service!Next]_(Service!serviceVars)
    OBVIOUS
  <2> DEFINE Still == /\ CurrentFacts' = CurrentFacts /\ window' = window
                      /\ Stages' = Stages /\ Replies' = Replies
  <2>1. ASSUME Still PROVE UNCHANGED Service!serviceVars
    BY <2>1, Zenon DEF Service!serviceVars, Stages, Replies, ReplyOf
  <2>2. CASE UNCHANGED vars
    <3>1. Still
      BY <2>2, SameStore DEF vars, Stages, Replies
    <3> QED
      BY <3>1, <2>1
  <2>3. ASSUME NEW repo \in Repos, CollectPage(repo) \/ Derive(repo) \/ IndexReadme(repo)
        PROVE  Service!Publish
    <3>1. /\ Observe /\ pc' = pc /\ answer' = answer
      BY <2>3, Batches
    <3>2. CurrentFacts' \subseteq AllFacts
      <4>1. (Inv => CurrentFacts \subseteq AllFacts)'
        BY FactsOfInv, PTL
      <4> QED
        BY <4>1, StepInv DEF AllFacts
    <3>3. Stages' = Stages /\ Replies' = Replies
      BY <3>1 DEF Stages, Replies
    <3>4. window' = [r \in Requests |-> IF Stages[r] = "asked"
                                        THEN window[r] \union CurrentFacts' ELSE window[r]]
      <4>1. \A r \in Requests : Stages[r] = "asked" <=> pc[r] \notin Over
        BY DEF Stages, Over
      <4> QED
        BY <3>1, <4>1 DEF Observe
    <3> QED
      BY <3>2, <3>3, <3>4, Zenon DEF Service!Publish, Stages, Replies, ReplyOf, AllFacts
  <2>4. ASSUME NEW r \in Requests, Begin(r) PROVE Service!Ask(r)
    <3>1. /\ pc[r] = "idle" /\ pc' = [pc EXCEPT ![r] = "embed"] /\ pc \in [Requests -> Places]
          /\ window' = [window EXCEPT ![r] = CurrentFacts]
          /\ storeVars' = storeVars /\ answer' = answer
      BY <2>4 DEF Begin, Goto, Inv, Typed
    <3>2. CurrentFacts' = CurrentFacts /\ Replies' = Replies
      BY <3>1, SameStore DEF Replies
    <3>3. Stages[r] = "idle" /\ Stages' = [Stages EXCEPT ![r] = "asked"]
      BY <3>1 DEF Stages, Over
    <3> QED
      BY <3>1, <3>2, <3>3, Zenon DEF Service!Ask, Stages, Replies, ReplyOf
  <2>5. ASSUME NEW r \in Requests, Works(r) PROVE Still
    <3>1. /\ storeVars' = storeVars /\ window' = window /\ answer' = answer
          /\ pc[r] \notin Over /\ pc'[r] \notin Over
          /\ \A q \in Requests \ {r} : pc'[q] = pc[q]
      BY <2>5 DEF Works
    <3>2. CurrentFacts' = CurrentFacts /\ Replies' = Replies
      BY <3>1, SameStore DEF Replies
    <3>3. Stages' = Stages
      BY <3>1 DEF Stages
    <3> QED
      BY <3>1, <3>2, <3>3
  <2>6. ASSUME NEW r \in Requests, Ends(r) PROVE Service!Answer(r)
    <3>1. PICK response : /\ Respond(r, response)
                          /\ response # None => Good(response, window[r])
      BY <2>6, Zenon DEF Ends
    <3>2. /\ storeVars' = storeVars /\ pc[r] \notin Over
          /\ answer' = [answer EXCEPT ![r] = response]
          /\ window' = [window EXCEPT ![r] = {}]
          /\ pc' = [pc EXCEPT ![r] = "answered"]
      BY <2>6, <3>1 DEF Ends, Respond, Goto
    <3>3. CurrentFacts' = CurrentFacts
      BY <3>2, SameStore
    <3>4. Stages[r] = "asked" /\ Stages' = [Stages EXCEPT ![r] = "answered"]
      BY <3>2 DEF Stages, Over, Inv, Typed
    <3>5. /\ answer'[r] = response /\ \A q \in Requests \ {r} : answer'[q] = answer[q]
      BY <3>2 DEF Inv, Typed
    <3>6. Replies' = [Replies EXCEPT ![r] = Replies'[r]]
      BY <3>5 DEF Replies
    <3>7. ASSUME Replies'[r] # None PROVE Service!Honest(Replies'[r], window[r])
      <4>1. response # None /\ Replies'[r] = ReplyOf(response)
        BY <3>5, <3>7, Zenon DEF Replies
      <4> QED
        BY <3>1, <4>1, GoodIsHonest, Zenon
    <3> QED
      BY <3>2, <3>3, <3>4, <3>6, <3>7, Zenon DEF Service!Answer, Stages, Replies, ReplyOf
  <2>7. ASSUME NEW r \in Requests,
               RemoteCall(r) \/ Acquire(r) \/ PoolTimeout(r) \/ Statement(r) \/ DbFails(r)
        PROVE  Still \/ Service!Answer(r)
    BY <2>5, <2>6, <2>7, RequestSteps, Zenon DEF Inv
  <2> HIDE DEF Still
  <2> QED
    BY <2>1, <2>2, <2>3, <2>4, <2>7, Zenon DEF Next, Service!Next
<1> QED
  BY <1>1, <1>2, Invariant, PTL DEF Spec, ImplementsAnswerService, Service!Spec
-----------------------------------------------------------------------------
(* Where a request stands.  The places in the order of the ladder: *)
Ladder == <<"idle", "embed", "wantNames", "names", "plan", "wantSearch", "rank", "load",
            "rankOwn", "loadOwn", "tags", "filter", "rows", "platforms", "advise",
            "wantVerify", "verify", "answered">>

(* A request goes down the ladder, or its search drops a condition.        *)
GoesDown(r) ==
  \/ \E i, j \in DOMAIN Ladder : i < j /\ pc[r] = Ladder[i] /\ pc'[r] = Ladder[j]
  \/ /\ pc[r] = "filter" /\ pc'[r] = "filter"
     /\ loc'[r].conds \subseteq loc[r].conds /\ loc'[r].conds # loc[r].conds

(* A step is one of a batch, or takes one request down and no other.       *)
OneGoesDown ==
  \/ UNCHANGED <<pc, loc, conns, answer>>
  \/ \E r \in Requests : /\ GoesDown(r)
                         /\ \A q \in Requests \ {r} : pc'[q] = pc[q] /\ loc'[q] = loc[q]

(* The conditions that a request searches by are conditions of a plan.     *)
PlansAre(r) == loc[r].plan \in SearchPlans \union {None} /\ loc[r].conds \subseteq Conditions

PoolKept == IsFiniteSet(conns) /\ Cardinality(conns) <= Pool

Pooled == (\A r \in Requests : PlansAre(r)) /\ SessionsAreShort /\ PoolKept

(* What a step of a request does to the pool.                              *)
Holds(r) ==
  \/ conns' = conns /\ (pc'[r] \in InDb <=> pc[r] \in InDb)
  \/ conns' = conns \ {r} /\ pc'[r] \notin InDb
  \/ conns' = conns \union {r} /\ Cardinality(conns) < Pool /\ pc'[r] \in InDb

Moves(r) ==
  /\ GoesDown(r) /\ Holds(r) /\ PlansAre(r)'
  /\ \A q \in Requests \ {r} : pc'[q] = pc[q] /\ loc'[q] = loc[q]

LEMMA Rungs ==
  /\ DOMAIN Ladder = 1..18
  /\ Ladder[1] = "idle" /\ Ladder[2] = "embed" /\ Ladder[3] = "wantNames"
  /\ Ladder[4] = "names" /\ Ladder[5] = "plan" /\ Ladder[6] = "wantSearch"
  /\ Ladder[7] = "rank" /\ Ladder[8] = "load" /\ Ladder[9] = "rankOwn"
  /\ Ladder[10] = "loadOwn" /\ Ladder[11] = "tags" /\ Ladder[12] = "filter"
  /\ Ladder[13] = "rows" /\ Ladder[14] = "platforms" /\ Ladder[15] = "advise"
  /\ Ladder[16] = "wantVerify" /\ Ladder[17] = "verify" /\ Ladder[18] = "answered"
  BY DEF Ladder

(* Those of them at which a session is open.                               *)
LEMMA Sessions ==
  \A k \in 1..18 : Ladder[k] \in Places /\ (Ladder[k] \in InDb <=> k \in {4, 17} \union 7..14)
<1> SUFFICES ASSUME NEW k \in 1..18
             PROVE  Ladder[k] \in Places /\ (Ladder[k] \in InDb <=> k \in {4, 17} \union 7..14)
  OBVIOUS
<1>1. CASE k \in 1..6
  BY <1>1, Rungs DEF Places, Waiting, InDb, Remote, Over
<1>2. CASE k \in 7..12
  BY <1>2, Rungs DEF Places, Waiting, InDb, Remote, Over
<1>3. CASE k \in 13..18
  BY <1>3, Rungs DEF Places, Waiting, InDb, Remote, Over
<1> QED
  BY <1>1, <1>2, <1>3

(* A place that is lower on the ladder.                                    *)
LEMMA LowerDown ==
  ASSUME NEW r, NEW i \in 1..18, NEW j \in 1..18, i < j,
         pc[r] = Ladder[i], pc'[r] = Ladder[j]
  PROVE  GoesDown(r)
  BY Rungs, Zenon DEF GoesDown

LEMMA PlacesAreRungs ==
  ASSUME NEW place \in Places, place # "answered"
  PROVE  \E i \in 1..17 : place = Ladder[i]
  BY Rungs DEF Places, Waiting, InDb, Remote, Over

(* The response ends a request, wherever it stood.                         *)
LEMMA RespondGoesDown ==
  ASSUME Typed, NEW r \in Requests, NEW response, Respond(r, response), pc[r] \notin Over
  PROVE  /\ GoesDown(r) /\ PlansAre(r)' /\ pc'[r] = "answered"
         /\ \A q \in Requests \ {r} : pc'[q] = pc[q] /\ loc'[q] = loc[q]
<1>1. pc'[r] = "answered" /\ \A q \in Requests \ {r} : pc'[q] = pc[q]
  BY GotoPlace DEF Respond, Places, Over
<1>2. loc'[r] = FreshLocals /\ \A q \in Requests \ {r} : loc'[q] = loc[q]
  BY DEF Respond, Typed
<1>3. PlansAre(r)'
  BY <1>2 DEF PlansAre, FreshLocals
<1>4. PICK i \in 1..17 : pc[r] = Ladder[i]
  BY PlacesAreRungs DEF Typed, Over
<1>5. GoesDown(r)
  BY <1>1, <1>4, Rungs, LowerDown
<1> QED
  BY <1>1, <1>2, <1>3, <1>5

(* ... and gives its connection back, if it holds one.                     *)
LEMMA ResponseMoves ==
  ASSUME Typed, SessionsAreShort, NEW r \in Requests, NEW response, Respond(r, response),
         pc[r] \notin Over, conns' = conns \ {r} \/ (conns' = conns /\ pc[r] \notin InDb)
  PROVE  Moves(r)
  BY RespondGoesDown DEF Moves, Holds, InDb

(* A step of a request that goes on.                                       *)
LEMMA StepMoves ==
  ASSUME Typed, NEW r \in Requests, NEW i \in 1..18, NEW j \in 1..18, i < j,
         pc[r] = Ladder[i], Goto(r, Ladder[j]), Touches(r), PlansAre(r)',
         \/ conns' = conns /\ (Ladder[j] \in InDb <=> Ladder[i] \in InDb)
         \/ conns' = conns \ {r} /\ Ladder[j] \notin InDb
         \/ conns' = conns \union {r} /\ Cardinality(conns) < Pool /\ Ladder[j] \in InDb
  PROVE  Moves(r)
<1>1. pc'[r] = Ladder[j] /\ \A q \in Requests \ {r} : pc'[q] = pc[q]
  BY GotoPlace, Sessions, Zenon
<1>2. GoesDown(r)
  BY <1>1, LowerDown
<1>3. Holds(r)
  BY <1>1, Zenon DEF Holds
<1> QED
  BY <1>1, <1>2, <1>3, Zenon DEF Moves, Touches

(* The stages that read nothing but places.                                *)
LEMMA LightStepsMove ==
  ASSUME Typed, NEW r \in Requests, PlansAre(r),
         Begin(r) \/ Embed(r) \/ Acquire(r) \/ ReadNames(r)
  PROVE  Moves(r)
<1>1. loc' = loc
  BY DEF Begin, Embed, Acquire, ReadNames
<1>2. Touches(r) /\ PlansAre(r)'
  BY <1>1, SameLocals DEF PlansAre
<1>3. CASE Begin(r)
  <2>1. pc[r] = Ladder[1] /\ Goto(r, Ladder[2]) /\ conns' = conns
    BY <1>3, Rungs DEF Begin
  <2> QED
    BY <1>2, <2>1, Sessions, StepMoves
<1>4. CASE Embed(r)
  <2>1. pc[r] = Ladder[2] /\ Goto(r, Ladder[3]) /\ conns' = conns
    BY <1>4, Rungs DEF Embed
  <2> QED
    BY <1>2, <2>1, Sessions, StepMoves
<1>5. CASE ReadNames(r)
  <2>1. pc[r] = Ladder[4] /\ Goto(r, Ladder[5]) /\ conns' = conns \ {r}
    BY <1>5, Rungs DEF ReadNames, Release
  <2> QED
    BY <1>2, <2>1, Sessions, StepMoves
<1>6. CASE Acquire(r)
  <2>1. conns' = conns \union {r} /\ Cardinality(conns) < Pool /\ pc[r] \in Waiting
    BY <1>6 DEF Acquire, Wants
  <2>2. CASE pc[r] = "wantNames"
    <3>1. pc[r] = Ladder[3] /\ Goto(r, Ladder[4])
      BY <1>6, <2>2, Rungs DEF Acquire
    <3> QED
      BY <1>2, <2>1, <3>1, Sessions, StepMoves
  <2>3. CASE pc[r] = "wantSearch"
    <3>1. pc[r] = Ladder[6] /\ Goto(r, Ladder[7])
      BY <1>6, <2>3, Rungs DEF Acquire
    <3> QED
      BY <1>2, <2>1, <3>1, Sessions, StepMoves
  <2>4. CASE pc[r] = "wantVerify"
    <3>1. pc[r] = Ladder[16] /\ Goto(r, Ladder[17])
      BY <1>6, <2>4, Rungs DEF Acquire
    <3> QED
      BY <1>2, <2>1, <3>1, Sessions, StepMoves
  <2> QED
    BY <2>1, <2>2, <2>3, <2>4 DEF Waiting
<1> QED
  BY <1>3, <1>4, <1>5, <1>6

(* The answers of the language model: the plan and the advice.             *)
LEMMA ModelStepsMove ==
  ASSUME Typed, NEW r \in Requests, PlansAre(r), Plan(r) \/ PlanFails(r) \/ Advise(r)
  PROVE  Moves(r)
<1>1. CASE Plan(r)
  <2>1. pc[r] = Ladder[5] /\ Goto(r, Ladder[6]) /\ conns' = conns
    BY <1>1, Rungs DEF Plan
  <2>2. PICK named \in Repos \union {Invented}, conds \in SUBSET Conditions :
          loc' = [loc EXCEPT ![r].plan = [repo |-> Normalized(named), conds |-> conds]]
    BY <1>1, Zenon DEF Plan
  <2>3. [repo |-> Normalized(named), conds |-> conds] \in SearchPlans
    BY DEF Normalized, SearchPlans
  <2>4. PICK plan \in SearchPlans : loc' = [loc EXCEPT ![r].plan = plan]
    BY <2>2, <2>3, Zenon
  <2>5. Touches(r) /\ loc'[r].plan = plan /\ loc'[r].conds = loc[r].conds
    BY <2>4, PlanLocals, Zenon
  <2>6. PlansAre(r)'
    BY <2>5 DEF PlansAre
  <2> QED
    BY <2>1, <2>5, <2>6, Sessions, StepMoves
<1>2. CASE PlanFails(r)
  <2>1. pc[r] = Ladder[5] /\ Goto(r, Ladder[6]) /\ conns' = conns
    BY <1>2, Rungs DEF PlanFails
  <2>2. Touches(r) /\ PlansAre(r)'
    BY <1>2, PlanFailsLocals DEF PlansAre
  <2> QED
    BY <2>1, <2>2, Sessions, StepMoves
<1>3. CASE Advise(r)
  <2>1. pc[r] = Ladder[15] /\ Goto(r, Ladder[16]) /\ conns' = conns
    BY <1>3, Rungs DEF Advise
  <2>2. PICK rec : loc' = [loc EXCEPT ![r].rec = rec]
    BY <1>3, Zenon DEF Advise
  <2>3. Touches(r) /\ PlansAre(r)'
    BY <2>2, AdviseLocals DEF PlansAre
  <2> QED
    BY <2>1, <2>3, Sessions, StepMoves
<1> QED
  BY <1>1, <1>2, <1>3

(* The statements of the search that read the sections.                    *)
LEMMA EvidenceStepsMove ==
  ASSUME Typed, NEW r \in Requests, PlansAre(r),
         Rank(r) \/ RankOwn(r) \/ Load(r) \/ LoadOwn(r)
  PROVE  Moves(r)
<1>1. CASE Rank(r)
  <2>1. pc[r] = Ladder[7] /\ Goto(r, Ladder[8]) /\ conns' = conns
    BY <1>1, Rungs DEF Rank
  <2>2. PICK hits : loc' = [loc EXCEPT ![r].hits = hits]
    BY <1>1, Zenon DEF Rank
  <2>3. Touches(r) /\ PlansAre(r)'
    BY <2>2, RankLocals DEF PlansAre
  <2> QED
    BY <2>1, <2>3, Sessions, StepMoves
<1>2. CASE RankOwn(r)
  <2>1. pc[r] = Ladder[9] /\ Goto(r, Ladder[10]) /\ conns' = conns
    BY <1>2, Rungs DEF RankOwn
  <2>2. PICK hits : loc' = [loc EXCEPT ![r].hits = hits]
    BY <1>2, Zenon DEF RankOwn
  <2>3. Touches(r) /\ PlansAre(r)'
    BY <2>2, RankLocals DEF PlansAre
  <2> QED
    BY <2>1, <2>3, Sessions, StepMoves
<1>3. CASE Load(r)
  <2>1. pc[r] = Ladder[8] /\ conns' = conns
        /\ (Goto(r, Ladder[9]) \/ Goto(r, Ladder[11]))
    BY <1>3, Rungs, Zenon DEF Load
  <2>2. Touches(r) /\ PlansAre(r)'
    BY <1>3, LoadLocals DEF PlansAre
  <2>3. CASE Goto(r, Ladder[9])
    BY <2>1, <2>2, <2>3, Sessions, StepMoves
  <2>4. CASE Goto(r, Ladder[11])
    BY <2>1, <2>2, <2>4, Sessions, StepMoves
  <2> QED
    BY <2>1, <2>3, <2>4
<1>4. CASE LoadOwn(r)
  <2>1. pc[r] = Ladder[10] /\ Goto(r, Ladder[11]) /\ conns' = conns
    BY <1>4, Rungs DEF LoadOwn
  <2>2. Touches(r) /\ PlansAre(r)'
    BY <1>4, LoadOwnLocals DEF PlansAre
  <2> QED
    BY <2>1, <2>2, Sessions, StepMoves
<1> QED
  BY <1>1, <1>2, <1>3, <1>4

(* A relaxation drops a condition: all that occur are on the list.         *)
LEMMA RelaxedIsLess ==
  ASSUME NEW conds \in SUBSET Conditions, conds # {}
  PROVE  Relaxed(conds) \subseteq conds /\ Relaxed(conds) # conds
<1>1. DOMAIN Relaxing = 1..4
  BY DEF Relaxing
<1>2. PICK k \in 1..4 : Relaxing[k] \in conds
  BY <1>1
<1>3. PICK least \in 1..4 : /\ Relaxing[least] \in conds
                            /\ \A m \in 1..(least - 1) : Relaxing[m] \notin conds
  <2>1. CASE Relaxing[1] \in conds
    BY <2>1
  <2>2. CASE Relaxing[1] \notin conds /\ Relaxing[2] \in conds
    BY <2>2
  <2>3. CASE Relaxing[1] \notin conds /\ Relaxing[2] \notin conds /\ Relaxing[3] \in conds
    BY <2>3
  <2>4. CASE Relaxing[1] \notin conds /\ Relaxing[2] \notin conds /\ Relaxing[3] \notin conds
    <3>1. k = 4
      BY <1>2, <2>4
    <3> QED
      BY <1>2, <2>4, <3>1
  <2> QED
    BY <2>1, <2>2, <2>3, <2>4
<1>4. Relaxing[least] \in conds /\ Relaxing[least] \notin Relaxed(conds)
  BY <1>1, <1>3 DEF Relaxed
<1>5. Relaxed(conds) \subseteq conds
  BY DEF Relaxed
<1> QED
  BY <1>4, <1>5

(* The statements of the search that read the tags.                        *)
LEMMA TagStepsMove ==
  ASSUME Typed, NEW r \in Requests, PlansAre(r),
         ReadTags(r) \/ ReadRows(r) \/ ReadPlatforms(r)
  PROVE  Moves(r)
<1>1. CASE ReadTags(r)
  <2>1. pc[r] = Ladder[11] /\ Goto(r, Ladder[12]) /\ conns' = conns
    BY <1>1, Rungs DEF ReadTags
  <2>2. Touches(r) /\ loc'[r].plan = loc[r].plan /\ loc'[r].conds = Applied(r)
    BY <1>1, ReadTagsLocals
  <2>3. Applied(r) \subseteq Conditions
    BY DEF Applied, PlansAre, SearchPlans
  <2>4. PlansAre(r)'
    BY <2>2, <2>3 DEF PlansAre
  <2> QED
    BY <2>1, <2>2, <2>4, Sessions, StepMoves
<1>2. CASE ReadRows(r)
  <2>1. pc[r] = Ladder[13] /\ Goto(r, Ladder[14]) /\ conns' = conns
    BY <1>2, Rungs DEF ReadRows
  <2>2. Touches(r) /\ PlansAre(r)'
    BY <1>2, ReadRowsLocals DEF PlansAre
  <2> QED
    BY <2>1, <2>2, Sessions, StepMoves
<1>3. CASE ReadPlatforms(r)
  <2>1. pc[r] = Ladder[14] /\ Goto(r, Ladder[15]) /\ conns' = conns \ {r}
    BY <1>3, Rungs DEF ReadPlatforms, Release
  <2>2. Touches(r) /\ PlansAre(r)'
    BY <1>3, ReadPlatformsLocals DEF PlansAre
  <2> QED
    BY <2>1, <2>2, Sessions, StepMoves
<1> QED
  BY <1>1, <1>2, <1>3

LEMMA FilterMoves ==
  ASSUME Typed, SessionsAreShort, NEW r \in Requests, PlansAre(r), Filter(r)
  PROVE  Moves(r)
<1> DEFINE allowed == {i \in loc[r].refs : loc[r].conds \subseteq tag[i].fits}
<1>1. pc[r] = "filter"
  BY DEF Filter
<1>2. CASE Relax(r)
  <2>1. pc' = pc /\ conns' = conns /\ loc[r].conds # {}
    BY <1>2 DEF Relax
  <2>2. Touches(r) /\ loc'[r].plan = loc[r].plan /\ loc'[r].conds = Relaxed(loc[r].conds)
    BY <1>2, RelaxLocals
  <2>3. /\ loc'[r].conds \subseteq loc[r].conds /\ loc'[r].conds # loc[r].conds
        /\ PlansAre(r)'
    BY <2>1, <2>2, RelaxedIsLess DEF PlansAre
  <2>4. GoesDown(r) /\ Holds(r)
    BY <1>1, <2>1, <2>3 DEF GoesDown, Holds
  <2> QED
    BY <2>1, <2>2, <2>3, <2>4 DEF Moves, Touches
<1>3. CASE Respond(r, WithoutRecommendation(r, <<>>, <<>>)) /\ Release(r)
  BY <1>1, <1>3, ResponseMoves DEF Over, Release
<1>4. ASSUME NEW chosen \in SUBSET allowed \ {{}},
             loc' = [loc EXCEPT ![r].chosen = chosen, ![r].refs = {}],
             Goto(r, "rows"), UNCHANGED <<conns, answer, window>>
      PROVE  Moves(r)
  <2>1. pc[r] = Ladder[12] /\ Goto(r, Ladder[13]) /\ conns' = conns
    BY <1>1, <1>4, Rungs
  <2>2. Touches(r) /\ PlansAre(r)'
    BY <1>4, ChooseLocals DEF PlansAre
  <2> QED
    BY <2>1, <2>2, Sessions, StepMoves
<1> HIDE DEF allowed
<1>5. \/ \E chosen \in SUBSET allowed \ {{}} :
           /\ loc' = [loc EXCEPT ![r].chosen = chosen, ![r].refs = {}]
           /\ Goto(r, "rows")
           /\ UNCHANGED <<conns, answer, window>>
      \/ Relax(r)
      \/ Respond(r, WithoutRecommendation(r, <<>>, <<>>)) /\ Release(r)
  BY Zenon DEF Filter, allowed
<1> QED
  BY <1>2, <1>3, <1>4, <1>5, Zenon

(* The steps that end a request, each with the connection it holds.        *)
LEMMA EndingStepsMove ==
  ASSUME Typed, SessionsAreShort, NEW r \in Requests,
         \/ EmbedFails(r) \/ AdviseFails(r) \/ PoolTimeout(r) \/ DbFails(r)
         \/ LoadRaises(r) \/ Discard(r) \/ Verify(r)
  PROVE  Moves(r)
<1>1. pc[r] \notin Over
  BY DEF EmbedFails, AdviseFails, PoolTimeout, DbFails, LoadRaises, Discard, Verify,
         Wants, Waiting, InDb, Over
<1>2. conns' = conns \ {r} \/ (conns' = conns /\ pc[r] \notin InDb)
  BY DEF EmbedFails, AdviseFails, PoolTimeout, DbFails, LoadRaises, Discard, Verify,
         Release, Wants, Waiting, InDb
<1>3. \E response : Respond(r, response)
  BY Zenon DEF EmbedFails, AdviseFails, PoolTimeout, DbFails, LoadRaises, Discard, Verify
<1> QED
  BY <1>1, <1>2, <1>3, ResponseMoves

LEMMA RequestsMove ==
  ASSUME Typed, Pooled, NEW r \in Requests,
         Begin(r) \/ RemoteCall(r) \/ Acquire(r) \/ PoolTimeout(r) \/ Statement(r) \/ DbFails(r)
  PROVE  Moves(r)
<1>1. PlansAre(r) /\ SessionsAreShort
  BY DEF Pooled
<1>2. CASE RemoteCall(r)
  BY <1>1, <1>2, LightStepsMove, ModelStepsMove, EndingStepsMove, Zenon DEF RemoteCall
<1>3. CASE Statement(r)
  BY <1>1, <1>3, LightStepsMove, EvidenceStepsMove, TagStepsMove, FilterMoves,
     EndingStepsMove, Zenon DEF Statement
<1> QED
  BY <1>1, <1>2, <1>3, LightStepsMove, EndingStepsMove, Zenon

(* A connection that is taken was free, so the pool is kept.               *)
LEMMA HoldsKeepsPool ==
  ASSUME PoolKept, NEW r \in Requests, Holds(r)
  PROVE  PoolKept'
<1>1. CASE conns' = conns
  BY <1>1 DEF PoolKept
<1>2. CASE conns' = conns \ {r}
  <2>1. IsFiniteSet(conns') /\ Cardinality(conns') <= Cardinality(conns)
    BY <1>2, FS_Subset DEF PoolKept
  <2>2. Cardinality(conns') \in Nat /\ Cardinality(conns) \in Nat
    BY <2>1, FS_CardinalityType DEF PoolKept
  <2> QED
    BY <2>1, <2>2 DEF PoolKept
<1>3. CASE conns' = conns \union {r} /\ Cardinality(conns) < Pool
  <2>1. IsFiniteSet(conns')
        /\ (Cardinality(conns') = Cardinality(conns)
              \/ Cardinality(conns') = Cardinality(conns) + 1)
    BY <1>3, FS_AddElement DEF PoolKept
  <2>2. Cardinality(conns) \in Nat
    BY FS_CardinalityType DEF PoolKept
  <2> QED
    BY <1>3, <2>1, <2>2 DEF PoolKept
<1> QED
  BY <1>1, <1>2, <1>3 DEF Holds

LEMMA MovesKeepPooled ==
  ASSUME Typed, Pooled, NEW r \in Requests, Moves(r)
  PROVE  Pooled'
<1>1. /\ Holds(r) /\ PlansAre(r)'
      /\ \A q \in Requests \ {r} : pc'[q] = pc[q] /\ loc'[q] = loc[q]
  BY DEF Moves
<1>2. \A q \in Requests : PlansAre(q)'
  BY <1>1 DEF Pooled, PlansAre
<1>3. SessionsAreShort'
  BY <1>1 DEF Pooled, SessionsAreShort, Holds
<1>4. PoolKept'
  BY <1>1, HoldsKeepsPool DEF Pooled
<1> QED
  BY <1>2, <1>3, <1>4 DEF Pooled

LEMMA SameKeepsPooled ==
  ASSUME Pooled, pc' = pc, loc' = loc, conns' = conns
  PROVE  Pooled'
  BY DEF Pooled, PlansAre, SessionsAreShort, PoolKept

LEMMA StartPooled == Init => Pooled
<1> SUFFICES ASSUME Init PROVE Pooled
  OBVIOUS
<1>1. \A r \in Requests : PlansAre(r)
  BY DEF Init, PlansAre, FreshLocals
<1>2. SessionsAreShort
  BY DEF Init, SessionsAreShort, InDb
<1>3. PoolKept
  BY FS_EmptySet DEF Init, PoolKept
<1> QED
  BY <1>1, <1>2, <1>3 DEF Pooled

LEMMA StepDown ==
  ASSUME Inv, Pooled, [Next]_vars
  PROVE  Pooled' /\ [OneGoesDown]_vars
<1>0. Typed
  BY DEF Inv
<1>1. CASE UNCHANGED vars
  BY <1>1, SameKeepsPooled DEF vars
<1>2. ASSUME NEW repo \in Repos, CollectPage(repo) \/ Derive(repo) \/ IndexReadme(repo)
      PROVE  Pooled' /\ [OneGoesDown]_vars
  <2>1. UNCHANGED <<pc, loc, conns, answer>>
    BY <1>2, Batches
  <2> QED
    BY <2>1, SameKeepsPooled DEF OneGoesDown
<1>3. ASSUME NEW r \in Requests,
             Begin(r) \/ RemoteCall(r) \/ Acquire(r) \/ PoolTimeout(r) \/ Statement(r)
                \/ DbFails(r)
      PROVE  Pooled' /\ [OneGoesDown]_vars
  <2>1. Moves(r)
    BY <1>0, <1>3, RequestsMove
  <2> QED
    BY <1>0, <2>1, MovesKeepPooled, Zenon DEF Moves, OneGoesDown
<1> QED
  BY <1>1, <1>2, <1>3, Zenon DEF Next

LEMMA PooledAlways == Spec => [](Inv /\ Pooled)
<1>1. Init => Inv /\ Pooled
  BY StartInv, StartPooled
<1>2. Inv /\ Pooled /\ [Next]_vars => (Inv /\ Pooled)'
  BY StepInv, StepDown
<1> QED
  BY <1>1, <1>2, PTL DEF Spec

(* Exactly the requests between the first and the last statement of a      *)
(* session hold a connection, none during a remote call or a wait          *)
(* (recommend_for_question).                                               *)
THEOREM SessionsStayShort == Spec => []SessionsAreShort
<1>1. Pooled => SessionsAreShort
  BY DEF Pooled
<1> QED
  BY <1>1, PooledAlways, PTL

(* Every variable keeps its type, and no more connections are held than    *)
(* db_pool_size and db_max_overflow allow.                                 *)
THEOREM TypesAndPool == Spec => []TypeOK
<1>1. Inv /\ Pooled => TypeOK
  <2> SUFFICES ASSUME Inv, Pooled PROVE TypeOK
    OBVIOUS
  <2>1. conns \subseteq Requests
    BY DEF Pooled, SessionsAreShort
  <2>2. Typed /\ Cardinality(conns) <= Pool
    BY DEF Inv, Pooled, PoolKept
  <2>3. \A r \in Requests : loc[r].plan \in SearchPlans \union {None}
    BY DEF Pooled, PlansAre
  <2> QED
    BY <2>1, <2>2, <2>3, Zenon DEF TypeOK, Typed, Places
<1> QED
  BY <1>1, PooledAlways, PTL

(* Every step of a request takes it further down the ladder, or drops a    *)
(* condition of its search, and leaves the other requests alone: no stage  *)
(* is run twice, whatever fails and whatever the batches commit            *)
(* (recommend_for_question).                                               *)
THEOREM RequestsGoDown == Spec => [][OneGoesDown]_vars
<1>1. Inv /\ Pooled /\ [Next]_vars => [OneGoesDown]_vars
  BY StepDown
<1> QED
  BY <1>1, PooledAlways, PTL DEF Spec

=============================================================================
