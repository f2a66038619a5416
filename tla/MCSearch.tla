------------------------------ MODULE MCSearch ------------------------------
(***************************************************************************)
(* Tag selection and search in one run, side by side: a behaviour is       *)
(* either a query of TagSelect or a search; the other part stands still.   *)
(***************************************************************************)
EXTENDS Search, MCTagSelect

Trixie == [kind |-> "debian", text |-> "trixie"]
Noble == [kind |-> "ubuntu", text |-> "noble"]
Alpine324 == [kind |-> "alpine", text |-> "3.24"]
Release324 == [kind |-> "release", text |-> "3.24"]
Slim == [kind |-> "variant", text |-> "slim"]
Nano == [kind |-> "windows", text |-> "nanoserver"]
Build1809 == [kind |-> "build", text |-> "1809"]
Ltsc == [kind |-> "ltsc", text |-> "ltsc2022"]

Tag(name, words) == [name |-> name, words |-> words, digest |-> None, day |-> 0]

Minor == Name(<<3, 14>>, 0, "plain", 4, 20)
T314 == Tag(Minor, <<>>)                                               \* 3.14
T314slim == Tag(Name(<<3, 14>>, 0, "word", 9, 21), <<Slim>>)           \* 3.14-slim
T314trixie == Tag(Name(<<3, 14>>, 0, "word", 11, 22), <<Trixie>>)      \* 3.14-trixie
T314slimTrixie == Tag(Name(<<3, 14>>, 0, "word", 16, 23), <<Slim, Trixie>>)
T314alpine == Tag(Name(<<3, 14>>, 0, "word", 15, 24), <<Alpine324>>)   \* 3.14-alpine3.24
T314alpineOld == Tag(Name(<<3, 14>>, 0, "word", 16, 25),               \* 3.14-alpine-3.24
                     <<BareAlpine, Release324>>)
T314bareAlpine == Tag(Name(<<3, 14>>, 0, "word", 11, 33), <<BareAlpine>>)  \* 3.14-alpine
T3147 == Tag(Name(<<3, 14, 7>>, 0, "plain", 6, 26), <<>>)              \* 3.14.7
T313 == Tag(Name(<<3, 13>>, 0, "plain", 4, 27), <<>>)                  \* 3.13
Tnoble == Tag(Name(<<>>, 0, "plain", 5, 28), <<Noble>>)                \* noble
Tnano == Tag(Name(<<3, 14>>, 0, "windows", 20, 29), <<Nano, Build1809>>)
Tltsc == Tag(Name(<<3, 14>>, 0, "windows", 24, 30), <<Nano, Ltsc>>)
T3241 == Tag(Name(<<3, 24, 1>>, 0, "plain", 6, 31), <<>>)              \* alpine:3.24.1
T324 == Tag(Name(<<3, 24>>, 0, "plain", 4, 32), <<>>)                  \* alpine:3.24

MCBranches == [pair \in {<<3, 14>>, <<3, 24>>} |-> IF pair = <<3, 24>> THEN "3.24" ELSE "3.14"]

(* Small images for two architectures, and a large one for amd64.          *)
Both == {[arch |-> "amd64", digest |-> 1, size |-> 1], [arch |-> "arm64", digest |-> 1, size |-> 2]}
Large == {[arch |-> "amd64", digest |-> 2, size |-> 2]}

With(tag, linux) ==
  [name |-> tag.name, words |-> tag.words, digest |-> tag.digest, day |-> tag.day, linux |-> linux]

Shelves(some) ==
  {{With(t, linux[t]) : t \in some} : linux \in [some -> {Both, Large, {}}]}

(* Every way in which names share images; no plan.                         *)
Derivations ==
  {[catalogue |-> [python |-> shelf], hits |-> {}, plans |-> {None}] :
     shelf \in Shelves({T314, T314slim, T314slimTrixie, T314alpine, T3147, T314trixie})
       \union Shelves({T314, T314bareAlpine, T314alpineOld, T314trixie, T313, Tnano, Tltsc})}
  \union {[catalogue |-> [alpine |-> shelf, ubuntu |-> {With(Tnoble, Both)}],
            hits |-> {}, plans |-> {None}] : shelf \in Shelves({T324, T3241})}

Plans(isIndexed) ==
  {[repo |-> repo, indexed |-> isIndexed, conds |-> conds] :
     repo \in {None, "python"},
     conds \in [version : {None, LineVersion(<<3, 14>>), LineVersion(<<3, 14, 7>>)},
                archs : {<<>>, <<"arm64">>, <<"arm64", "amd64">>},
                dists : {{}, {"alpine"}, {"trixie"}},
                excluded : {{}, {"debian", "3.24"}},
                size : {None, 1}]}

(* Python as a forced repository or beside alpine, and where it cannot be  *)
(* forced.                                                                 *)
Asks ==
  {[catalogue |-> [python |-> shelf, alpine |-> {With(T324, Both)}],
    hits |-> {"python", "alpine"}, plans |-> Plans(TRUE)] :
     shelf \in Shelves({T314, T314alpine, T3147})}
  \union
  {[catalogue |-> [python |-> shelf, alpine |-> {With(T324, Large)}],
    hits |-> hit, plans |-> Plans(FALSE)] :
     shelf \in {{}} \union Shelves({Tnano}), hit \in {{"alpine"}, {"python"}, {}}}

MCSearches == Derivations \union Asks

SearchOff ==
  /\ catalogue = <<>> /\ columns = <<>> /\ hits = {} /\ plan = None /\ at = "off"
  /\ searched = {} /\ stage = NoConditions /\ relaxed = <<>>
  /\ found = <<>> /\ degraded = FALSE /\ warned = {}

SelectOff ==
  /\ tags = {} /\ allowed = None /\ pin = None /\ limit = 0 /\ chosen = None /\ stale = {}

MCInit == (Init /\ SearchOff) \/ (SelectOff /\ SearchInit)

MCNext == \/ at = "off" /\ Next /\ UNCHANGED searchVars
          \/ SearchNext /\ UNCHANGED vars

MCSpec == MCInit /\ [][MCNext]_<<vars, searchVars>>
=============================================================================
