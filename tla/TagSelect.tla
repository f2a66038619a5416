------------------------------ MODULE TagSelect ------------------------------
(***************************************************************************)
(* Which tags of one repository become candidates: select_tags and         *)
(* stale_pinned_lines of search/tagselect.py, as operators on sets of      *)
(* tags, and a query that applies them to one repository.                  *)
(*                                                                         *)
(* A name is what the code reads from it: the components of its version,   *)
(* the build behind them (8u502), what kind of name it is, its length and  *)
(* its place in the alphabet.  Names are unique within a repository, so a  *)
(* tag is known by its name.                                               *)
(***************************************************************************)
EXTENDS Integers, Sequences, FiniteSets, SequencesExt, Versions

CONSTANTS
  SupportGap,    \* SUPPORT_GAP, in the unit in which pushes are dated
  MaxLineDepth,  \* MAX_LINE_DEPTH
  Queries,       \* repositories (sets of tags) with a version asked for, or None
  Limits         \* tags_per_repo

(* kind: plain and word may follow a line (24, 24-alpine), number may not  *)
(* (24-1); prerelease, windows: the names that the code excludes.          *)
Kinds == {"plain", "word", "number", "prerelease", "windows"}

Names == [ver : Seq(Nat), build : Nat, kind : Kinds, size : Nat, alpha : Nat]

Anonymous(t) == [t EXCEPT !.digest = None]

(* None is no set of tags.                                                 *)
NoneIsOther(refs) ==
  \A some \in (SUBSET refs) \union {{Anonymous(t)} : t \in refs} : some # None

IsRepository(refs) ==
  /\ IsFiniteSet(refs)
  /\ \A t, u \in refs : /\ {"name", "digest", "day"} \subseteq DOMAIN t
                        /\ t.name \in Names /\ t.day \in Nat \union {None}
                        /\ t.name.alpha = u.name.alpha => t = u

ASSUME TagSelectAssumption ==
  /\ None \notin Nat \union Seq(Nat)
  /\ SupportGap \in Nat /\ MaxLineDepth \in Nat \ {0} /\ Limits \subseteq Nat
  /\ \A query \in Queries :
       /\ IsRepository(query.tags) /\ NoneIsOther(query.tags)
       /\ query.pin # None => query.pin.ver \in Seq(Nat) /\ query.pin.build \in Nat

VARIABLES
  tags,     \* the repository asked about
  allowed,  \* allowed_ids, None if the query has no conditions
  pin,      \* pinned_version, or None
  limit,
  chosen,   \* the selected tags, in their order; None before
  stale     \* the lines to warn about

vars == <<tags, allowed, pin, limit, chosen, stale>>

-----------------------------------------------------------------------------
(* Order: a shorter name first, of two equally long ones the first in the  *)
(* alphabet; a later push first, an unknown one last.                      *)
ShorterName(t, u) == \/ t.name.size < u.name.size
                     \/ t.name.size = u.name.size /\ t.name.alpha < u.name.alpha

LaterPush(t, u) == IF t.day = u.day THEN t.name.alpha < u.name.alpha
                   ELSE u.day = None \/ (t.day # None /\ t.day > u.day)

(* SetToSortSeq, in terms of what the prover knows.                        *)
InOrder(refs, Before(_, _)) ==
  [i \in 1..Cardinality(refs) |->
     CHOOSE t \in refs : Cardinality({u \in refs : Before(u, t)}) = i - 1]

Take(s, n) == SubSeq(s, 1, IF Len(s) < n THEN Len(s) ELSE n)

SameImage(t, u) == t = u \/ (t.digest # None /\ t.digest = u.digest)

ExcludeWithDigest(refs, named) ==
  {t \in refs : \A u \in named : ~SameImage(t, u)}

ExcludeWindowsOnly(refs) == ExcludeWithDigest(refs, {t \in refs : t.name.kind = "windows"})

ExcludePrerelease(refs) == ExcludeWithDigest(refs, {t \in refs : t.name.kind = "prerelease"})

Stable(refs) == ExcludePrerelease(ExcludeWindowsOnly(refs))

Allowed(refs, ids) == IF ids = None THEN refs ELSE refs \intersect ids

(* Mutant: folded by digest before the conditions are applied.             *)
FoldThenAllow(refs, ids) ==
  Allowed({t \in refs : \A u \in refs : SameImage(t, u) => t = u \/ ShorterName(t, u)}, ids)

(* Of the allowed tags of one image the one with the shortest name.        *)
FoldByDigest(refs, ids) ==
  LET some == Allowed(refs, ids)
  IN {t \in some : \A u \in some : SameImage(t, u) => t = u \/ ShorterName(t, u)}

-----------------------------------------------------------------------------
(* A line is a sequence of version components.                             *)
LineOf(t, depth) == IF Len(t.name.ver) < depth THEN None ELSE SubSeq(t.name.ver, 1, depth)

IsAlias(t, depth) ==
  /\ Len(t.name.ver) = depth /\ t.name.build = 0
  /\ t.name.kind # "number"

AliasesAt(refs, depth) == {t \in refs : IsAlias(t, depth)}

Lines(refs, depth) == {LineOf(t, depth) : t \in AliasesAt(refs, depth)}

(* The shortest depth with two lines, else with one; patch lines need not  *)
(* be two.                                                                 *)
LineDepth(refs) ==
  LET two == {d \in 1..(MaxLineDepth - 1) : Cardinality(Lines(refs, d)) >= 2}
      one == {d \in 1..MaxLineDepth : Lines(refs, d) # {}}
  IN CASE two # {} -> Min(two)
       [] two = {} /\ one # {} -> Min(one)
       [] OTHER -> None

LatestPush(refs, depth, line) ==
  LET days == {t.day : t \in {u \in refs : LineOf(u, depth) = line}} \ {None}
  IN IF days = {} THEN None ELSE Max(days)

(* Mutant: a line that is exactly the gap behind counts as ended.          *)
SupportedStrictly(refs, depth) ==
  LET push == [line \in Lines(refs, depth) |-> LatestPush(refs, depth, line)]
      known == {line \in DOMAIN push : push[line] # None}
  IN IF known = {} THEN DOMAIN push
     ELSE {line \in known : \A other \in known : push[other] - push[line] < SupportGap}

(* The lines not too far behind the latest one; a line without a known     *)
(* push is not supported if another has one.                               *)
Supported(refs, depth) ==
  LET push == [line \in Lines(refs, depth) |-> LatestPush(refs, depth, line)]
      known == {line \in DOMAIN push : push[line] # None}
  IN IF known = {} THEN DOMAIN push
     ELSE {line \in known : \A other \in known : push[other] - push[line] <= SupportGap}

(* The lines that the wanted version is part of are kept in any case.      *)
SupportedLines(refs, depth, version) ==
  Supported(refs, depth)
    \union {line \in Lines(refs, depth) : /\ version # None
                                           /\ ExtendsVersion(LineVersion(line), version)}

DropStaleVariants(refs, latest) ==
  {t \in refs : latest # None => t.day # None /\ latest - t.day <= SupportGap}

SupportedAliases(refs, depth, version) ==
  UNION {DropStaleVariants({t \in AliasesAt(refs, depth) : LineOf(t, depth) = line},
                           LatestPush(refs, depth, line))
           : line \in SupportedLines(refs, depth, version)}

FinerThanLines(version, lines) ==
  /\ version.build # 0 \/ version.ver \notin lines
  /\ \E line \in lines : ExtendsVersion(LineVersion(line), version)

NewerLine(a, b) ==
  \E i \in DOMAIN a : a[i] > b[i] /\ \A j \in 1..(i - 1) : a[j] = b[j]

(* One sequence for each line, newer lines first.                          *)
GroupLines(refs, depth) ==
  LET lines == InOrder({LineOf(t, depth) : t \in refs}, NewerLine)
  IN [i \in DOMAIN lines |->
        InOrder({t \in refs : LineOf(t, depth) = lines[i]}, ShorterName)]

(* Mutant: one line after the other.                                       *)
OneLineAfterTheOther(queues, n) == Take(FlattenSeq(queues), n)

(* Every pass over the queues takes the next tag of each that has one.  A  *)
(* turn is a queue and a place in it, which is the pass that reaches it.   *)
EarlierTurn(a, b) == a[2] < b[2] \/ (a[2] = b[2] /\ a[1] < b[1])

InterleaveLines(queues, n) ==
  LET turns == InOrder(UNION {{i} \X DOMAIN queues[i] : i \in DOMAIN queues}, EarlierTurn)
  IN Take([k \in DOMAIN turns |-> queues[turns[k][1]][turns[k][2]]], n)

-----------------------------------------------------------------------------
ByRecentPush(refs, n) == Take(InOrder(refs, LaterPush), n)

SelectTags(refs, n, ids, version) ==
  LET linux == ExcludeWindowsOnly(refs)
      stable == Stable(refs)
      depth == LineDepth(stable)
      kept == SupportedAliases(stable, depth, version)
      inLines == {t \in stable : LineOf(t, depth) \in SupportedLines(stable, depth, version)}
      fixed == {t \in stable : ExtendsVersion(version, t.name)}
  IN CASE stable = {} -> ByRecentPush(FoldByDigest(linux, ids), n)
       [] stable # {} /\ depth = None -> ByRecentPush(FoldByDigest(stable, ids), n)
       [] OTHER ->
            IF version # None /\ FinerThanLines(version, Lines(stable, depth))
            THEN Take(InOrder(FoldByDigest(fixed, ids), ShorterName), n)
            ELSE IF kept = {} THEN ByRecentPush(FoldByDigest(inLines, ids), n)
            ELSE InterleaveLines(GroupLines(FoldByDigest(kept, ids), depth), n)

(* The lines chosen only because the user named their version.             *)
StalePinnedLines(refs, version, picked) ==
  LET stable == Stable(refs)
      depth == LineDepth(stable)
  IN IF depth = None THEN {}
     ELSE {line \in Lines(stable, depth) \ Supported(stable, depth) :
             /\ ExtendsVersion(LineVersion(line), version)
             /\ \E t \in ToSet(picked) : LineOf(t, depth) = line}

-----------------------------------------------------------------------------
Init ==
  /\ \E query \in Queries : tags = query.tags /\ pin = query.pin
  /\ allowed \in {None} \union SUBSET tags
  /\ limit \in Limits
  /\ chosen = None /\ stale = {}

Select ==
  /\ chosen = None
  /\ chosen' = SelectTags(tags, limit, allowed, pin)
  /\ stale' = IF pin = None THEN {} ELSE StalePinnedLines(tags, pin, chosen')
  /\ UNCHANGED <<tags, allowed, pin, limit>>

Next == Select

Spec == Init /\ [][Next]_vars

-----------------------------------------------------------------------------
Picked == IF chosen = None THEN {} ELSE ToSet(chosen)

Asked == Allowed(tags, allowed)

(* What would be chosen without a limit.                                   *)
All == SelectTags(tags, Cardinality(tags), allowed, pin)

Named(t, kind) == \E u \in tags : SameImage(t, u) /\ u.name.kind = kind

Good(t) == ~Named(t, "windows") /\ ~Named(t, "prerelease")

(* Whether a tag is a candidate depends on the repository and the version  *)
(* wanted, never on which other tags meet the conditions, nor on the names *)
(* it shares its image with: of every image with a tag that would be       *)
(* chosen alone, its digest unknown, the shortest such name is chosen,     *)
(* unless the limit cuts it off.                                           *)
IndependentChoice ==
  LET n == Cardinality(tags)
      anonymous(t) == IF Good(t) THEN Anonymous(t) ELSE t
      alone(t) == SelectTags((tags \ {t}) \union {anonymous(t)}, n, {anonymous(t)}, pin) # <<>>
      able == {t \in Asked : alone(t)}
  IN chosen # None =>
       /\ chosen = Take(All, limit)
       /\ ToSet(All) \subseteq able
       /\ \A t \in able : \E u \in ToSet(All) : SameImage(t, u) /\ ~ShorterName(t, u)

(* The lines share the limit: while a line has a tag left no other line is *)
(* two ahead of it, nor one if it is older (the LTS lines stay in).        *)
FairToLines ==
  LET stable == Stable(tags)
      depth == LineDepth(stable)
      all == ToSet(All)
      of(line, refs) == {t \in refs : LineOf(t, depth) = line}
      lines == {LineOf(t, depth) : t \in all}
      ahead(a, b) == Cardinality(of(a, Picked)) - Cardinality(of(b, Picked))
  IN chosen # None /\ depth # None /\ SupportedAliases(stable, depth, pin) # {}
       => \A a, b \in lines :
            \/ of(b, Picked) = of(b, all)
            \/ ahead(a, b) <= IF NewerLine(b, a) THEN 0 ELSE 1

(* A chosen tag is of a line that was pushed within the gap of every other *)
(* line of the repository, or the user named its version and is warned;    *)
(* a warning is about a chosen line that has ended.                        *)
EndedLinesAreNamed ==
  LET stable == Stable(tags)
      depth == LineDepth(stable)
      lines == Lines(stable, depth)
      dated(line) == {t \in stable : t.day # None /\ LineOf(t, depth) = line}
      current(line) ==
        \/ \A other \in lines : dated(other) = {}
        \/ \E t \in dated(line) : \A other \in lines : \A u \in dated(other) :
              u.day - t.day <= SupportGap
      picked == {LineOf(t, depth) : t \in Picked}
  IN chosen # None /\ depth # None =>
       /\ picked \subseteq lines
       /\ stale = {line \in picked : ~current(line)}
       /\ \A line \in stale : pin # None /\ ExtendsVersion(LineVersion(line), pin)
=============================================================================
