------------------------------ MODULE MCIndex -------------------------------
EXTENDS Index

CONSTANTS p1, p2

Line(kind, text) == [kind |-> kind, text |-> text]
H1 == Line("h1", "Python")
H2a == Line("h2", "Run")
H2b == Line("h2", "Tags")
Fence == Line("fence", "")
Short == Line("text", "short")
Long == Line("text", "long")
Template == Line("template", "")

(* Two sections of one title; a comment in a code block that looks like a  *)
(* heading; another title that takes the place of the first.               *)
MCReadmes == {
  <<Short, H1, H2a, Long, H2a, Short>>,
  <<H1, Short, H2b, Fence, H2a, Fence, H2a, Template>>,
  <<H2b, Long, H1, H2a>>}

(* "ab cdefg", "abc" and a code block of five characters. *)
MCText(body) ==
  IF body = <<Long>> THEN [size |-> 8, spaces |-> {2}]
  ELSE IF body = <<Short>> THEN [size |-> 3, spaces |-> {}]
  ELSE [size |-> 6, spaces |-> {2, 3}]

MCTexts == [body \in UNION {{SubSeq(readme, i, j) : i, j \in DOMAIN readme} : readme \in MCReadmes} |->
              MCText(body)]

MCCommand == [p \in {p1, p2} |-> IF p = p1 THEN <<"node", "python">> ELSE <<"python">>]
=============================================================================
