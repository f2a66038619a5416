------------------------------ MODULE MCReview ------------------------------
EXTENDS Review

Statements(case, count) == {[case |-> case, claim |-> k] : k \in 1..count}

File(armName, statements) == [arm |-> armName, statements |-> statements]

(* Two files of one arm, one of another; the second archive is small       *)
(* enough to be reviewed in every way.                                     *)
MCArchives == {
  <<File("A", Statements("c1", 3) \union Statements("c2", 1)),
    File("A", Statements("c1", 1) \union Statements("c2", 2) \union Statements("c3", 1)),
    File("B", Statements("c1", 1))>>,
  <<File("A", Statements("c1", 2)), File("B", Statements("c1", 1))>>}

(* Every word of both vocabularies, one of neither, and cells left empty.  *)
Cell(verdict, check) == [verdict |-> verdict, check |-> check]
MCCells == {
  Cell("supported", "match"), Cell("unsupported", "mismatch"),
  Cell("unclear", "not_applicable"), Cell("no_doc_fact", "unclear"),
  Cell("yes", "match"), Cell("supported", "yes"),
  Cell("supported", Blank), Cell(Blank, "match")}
=============================================================================
