------------------------------- MODULE Chunk --------------------------------
(***************************************************************************)
(* chunk_text of index/chunk.py: a text is cut into overlapping pieces.    *)
(* A text is its length and the positions of its spaces; a piece is the    *)
(* half-open interval <<from, to>> of positions.  One iteration of the     *)
(* loop takes a record to the next one.                                    *)
(***************************************************************************)
EXTENDS Integers, Sequences, SequencesExt

CONSTANTS
  MaxChars,  \* max_chars
  Overlap    \* overlap

ASSUME ChunkAssumption == MaxChars \in Nat \ {0} /\ Overlap \in Nat

(* The first and the last character are no spaces: the text is stripped.   *)
IsText(text) ==
  /\ text.size \in Nat \ {0}
  /\ text.spaces \subseteq 1..(text.size - 2)

StartCutting(text) == [text |-> text, start |-> 0, pieces |-> <<>>, done |-> FALSE]

SpacesAhead(c) == {s \in c.text.spaces : c.start < s /\ s < c.start + MaxChars}

(* The last space of the window, if it is behind the start, else the end   *)
(* of the window.                                                          *)
CutAt(c) ==
  IF c.start + MaxChars >= c.text.size THEN c.text.size
  ELSE IF SpacesAhead(c) = {} THEN c.start + MaxChars
  ELSE Max(SpacesAhead(c))

(* Mutant: the next piece starts too late.                                 *)
NextStartSkips(c) == CutAt(c) + 1

NextStart(c) == IF CutAt(c) - Overlap > c.start + 1 THEN CutAt(c) - Overlap ELSE c.start + 1

Cut(c) ==
  LET grown == Append(c.pieces, <<c.start, CutAt(c)>>)
  IN IF CutAt(c) >= c.text.size
     THEN [c EXCEPT !.pieces = grown, !.done = TRUE]
     ELSE [c EXCEPT !.pieces = grown, !.start = NextStart(c)]

(* A piece that is nothing but spaces is dropped.                          *)
Letters(text, piece) == (piece[1]..(piece[2] - 1)) \ text.spaces

Keep(text, kept, piece) == IF Letters(text, piece) = {} THEN kept ELSE Append(kept, piece)

PiecesOf(c) == FoldLeft(LAMBDA kept, piece : Keep(c.text, kept, piece), <<>>, c.pieces)

-----------------------------------------------------------------------------
Reached(c) == IF c.pieces = <<>> THEN 0 ELSE c.pieces[Len(c.pieces)][2]

(* The loop so far: what is behind the reached position is covered, no     *)
(* piece is empty or too long, and each starts behind the one before it    *)
(* and not behind its end.                                                 *)
CutWell(c) ==
  /\ \A i \in DOMAIN c.pieces :
       /\ 0 <= c.pieces[i][1] /\ c.pieces[i][1] < c.pieces[i][2]
       /\ c.pieces[i][2] <= c.text.size
       /\ c.pieces[i][2] - c.pieces[i][1] <= MaxChars
  /\ \A k \in 0..(Reached(c) - 1) :
       \E i \in DOMAIN c.pieces : c.pieces[i][1] <= k /\ k < c.pieces[i][2]
  /\ \A i, j \in DOMAIN c.pieces : i < j => c.pieces[i][1] < c.pieces[j][1]
  /\ \A i \in DOMAIN c.pieces : ~c.done => c.pieces[i][1] < c.start
  /\ IF c.done THEN Reached(c) = c.text.size ELSE c.start <= Reached(c) /\ c.start < c.text.size
=============================================================================
