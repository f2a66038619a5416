------------------------------- MODULE Derive -------------------------------
(***************************************************************************)
(* The derived columns of a repository's tags: what parse_tag reads from a *)
(* name (collect/tagparse.py) and what resolve_aliases adds from the other *)
(* names of the same image (collect/derive.py).                            *)
(*                                                                         *)
(* A name is a version, which may be missing, and the words behind it.  A  *)
(* word has a kind and a text: trixie is of kind debian, alpine3.24 of     *)
(* kind alpine with the text 3.24, bare alpine has no text, and 3.24 is of *)
(* kind release.  The Linux platforms of a tag are its fingerprint.        *)
(***************************************************************************)
EXTENDS Integers, Sequences, FiniteSets, SequencesExt, Versions

CONSTANTS
  OsRepositories,  \* OS_REPOSITORIES: repositories that are distributions
  Branches         \* alpine's branch, by the first components of its version

Distributions == {"debian", "ubuntu", "alpine", "ubi"}
WordKinds == Distributions \union
  {"release", "ltsc", "build", "variant", "windows", "other"}

BareAlpine == [kind |-> "alpine", text |-> None]

NoFacts == [version |-> None, distribution |-> None, codename |-> None, variant |-> <<>>]

(* What one word adds to the facts, given the words before it.             *)
ReadWord(facts, word, before) ==
  CASE word.kind \in Distributions ->
         [facts EXCEPT !.distribution = word.kind, !.codename = word.text]
    [] word.kind = "release" /\ before # <<>> /\ Last(before) = BareAlpine ->
         [facts EXCEPT !.codename = word.text]
    [] word.kind = "ltsc" \/ (word.kind = "build" /\ facts.distribution = "windows") ->
         [facts EXCEPT !.codename = word.text]
    [] word.kind = "variant" -> [facts EXCEPT !.variant = Append(@, word.text)]
    [] word.kind = "windows" ->
         [facts EXCEPT !.distribution = "windows", !.variant = Append(@, word.text)]
    [] OTHER -> facts

(* The image of an OS repository is of that distribution; the branch of an *)
(* alpine image is the beginning of its version.                           *)
OsFacts(facts, repository) ==
  IF repository \notin OsRepositories THEN facts
  ELSE [facts EXCEPT
          !.distribution = repository,
          !.codename = IF repository = "alpine" /\ @ = None /\ facts.version # None
                            /\ Len(facts.version.ver) >= 2
                       THEN Branches[SubSeq(facts.version.ver, 1, 2)] ELSE @]

(* What the words add one after the other.                                 *)
ReadWords(start, words) ==
  FoldLeftDomain(LAMBDA facts, i : ReadWord(facts, words[i], SubSeq(words, 1, i - 1)),
                 start, words)

ParseTag(t, repository) ==
  LET start == [NoFacts EXCEPT !.version = IF t.name.ver = <<>> THEN None
                                           ELSE [ver |-> t.name.ver, build |-> t.name.build]]
      facts == OsFacts(ReadWords(start, t.words), repository)
  IN [facts EXCEPT !.variant = IF @ = <<>> THEN None ELSE @]

-----------------------------------------------------------------------------
(* The other names of the image, itself included: the tags with the same   *)
(* Linux platforms.  A tag without any belongs to no group.                *)
GroupOf(tags, t) == {u \in tags : t.linux # {} /\ u.linux = t.linux}

Single(values) == IF Cardinality(values) = 1 THEN CHOOSE v \in values : TRUE ELSE None

(* The most detailed version, if all of them are one chain.                *)
ChainEnd(versions) ==
  LET ends == {v \in versions : \A other \in versions : ExtendsVersion(other, v)}
  IN IF ends = {} THEN None ELSE CHOOSE v \in ends : TRUE

(* Mutant: a codename is taken from any name of the image.                 *)
CodenamesOfAny(group, distribution) == {f.codename : f \in group} \ {None}

(* Codenames come only from names that state the same distribution.        *)
CodenamesOf(group, distribution) ==
  {f.codename : f \in {g \in group : g.distribution = distribution}} \ {None}

(* Mutant: a name's own version is kept although another one is finer.     *)
OwnVersion(own, versions) == IF own # None THEN own ELSE ChainEnd(versions)

ResolveVersion(own, versions) ==
  IF own = None THEN ChainEnd(versions)
  ELSE LET finer == ChainEnd({v \in versions : ExtendsVersion(own, v)})
       IN IF finer = None THEN own ELSE finer

(* The values of a tag: its own statements, and for those it does not make *)
(* the ones on which the other names of the image agree.                   *)
ResolveAlias(own, group) ==
  LET stated(column) == {f[column] : f \in group} \ {None}
      distribution == IF own.distribution # None THEN own.distribution
                      ELSE Single(stated("distribution"))
      variant == IF own.variant # None THEN own.variant
                 ELSE IF stated("variant") = {} THEN <<"full">> ELSE Single(stated("variant"))
      version == ResolveVersion(own.version, stated("version"))
  IN [version |-> version,
      majorMinor |-> MajorMinor(version),
      distribution |-> distribution,
      codename |-> IF own.codename # None THEN own.codename
                   ELSE Single(CodenamesOf(group, distribution)),
      variant |-> variant]

Underived == [version |-> None, majorMinor |-> None, distribution |-> None,
              codename |-> None, variant |-> None]

(* derive_repository: the columns of all tags of a repository.             *)
DeriveRepository(tags, repository) ==
  [t \in tags |-> ResolveAlias(ParseTag(t, repository),
                               {ParseTag(u, repository) : u \in GroupOf(tags, t)})]
=============================================================================
