----------------------------- MODULE MCTagSelect -----------------------------
(* Names as they occur on Docker Hub.  Numbered in alphabetical order.  *)
EXTENDS TagSelect

CONSTANT a

Name(ver, build, kind, size, alpha) ==
  [ver |-> ver, build |-> build, kind |-> kind, size |-> size, alpha |-> alpha]

N22 == Name(<<22>>, 0, "plain", 2, 1)             \* 22
N22alpine == Name(<<22>>, 0, "word", 9, 2)        \* 22-alpine
N22u5 == Name(<<22>>, 5, "plain", 4, 3)           \* 22u5
N24 == Name(<<24>>, 0, "plain", 2, 4)             \* 24
N24x1 == Name(<<24>>, 0, "number", 4, 5)          \* 24-1
N24alpine == Name(<<24>>, 0, "word", 9, 6)        \* 24-alpine
N24p1 == Name(<<24, 1>>, 0, "plain", 4, 7)        \* 24.1
N24p1alpine == Name(<<24, 1>>, 0, "word", 11, 8)  \* 24.1-alpine
Nedge == Name(<<>>, 0, "prerelease", 4, 9)        \* edge
Nlatest == Name(<<>>, 0, "plain", 6, 10)          \* latest
Nwindows == Name(<<>>, 0, "windows", 10, 11)      \* nanoserver

(* The names of a repository, and the versions asked for there. *)
Cases == {
  <<{N22, N22alpine, N24, N24alpine}, {None, LineVersion(<<22>>)}>>,
  <<{N22, N24, N24p1, N24p1alpine}, {None, LineVersion(<<24, 1>>)}>>,
  <<{N22, N22u5, N24, N24x1}, {None, [ver |-> <<22>>, build |-> 5]}>>,
  <<{N24p1, Nedge, Nlatest, Nwindows}, {None, LineVersion(<<24, 1>>)}>>}

(* One image that none or two of the names share. *)
Digests(names) ==
  {digest \in [names -> {None, a}] : Cardinality({n \in names : digest[n] = a}) \in {0, 2}}

(* Only the distance of pushes matters, so the earliest is at 0.  None, *)
(* one or all of the push times are unknown.                            *)
Days(names) ==
  {day \in [names -> {0, 1, 2}] : \E n \in names : day[n] = 0}
    \union {day \in [names -> {None, 0, 2}] :
              /\ \E n \in names : day[n] = 0
              /\ Cardinality({n \in names : day[n] = None}) = 1}
    \union {[n \in names |-> None]}

Repositories(names) ==
  {{[name |-> n, digest |-> digest[n], day |-> day[n]] : n \in names} :
     digest \in Digests(names), day \in Days(names)}

MCQueries ==
  UNION {{[tags |-> tagSet, pin |-> version] :
            tagSet \in Repositories(case[1]), version \in case[2]} : case \in Cases}
=============================================================================
