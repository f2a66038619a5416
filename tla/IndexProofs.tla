---------------------------- MODULE IndexProofs -----------------------------
(***************************************************************************)
(* Proofs about Index for every set of commands and every list of          *)
(* repositories, READMEs and texts that the assumptions of Index allow.    *)
(***************************************************************************)
EXTENDS Index, ListProofs

-----------------------------------------------------------------------------
(* Cutting a text, for every piece length and every overlap, an overlap    *)
(* longer than the pieces included.                                        *)

(* The records the loop over a text goes through.                          *)
CutRecords(text) ==
  [text : {text}, start : Nat, pieces : Seq(Nat \X Nat), done : BOOLEAN]

USE ChunkAssumption

-----------------------------------------------------------------------------
(* A cut lies behind the start, within the text, and no more than MaxChars *)
(* behind the start.                                                       *)
LEMMA CutAtBounds ==
  ASSUME NEW text, IsText(text), NEW c \in CutRecords(text), c.start < text.size
  PROVE  /\ CutAt(c) \in Nat
         /\ c.start < CutAt(c)
         /\ CutAt(c) <= text.size
         /\ CutAt(c) - c.start <= MaxChars
<1>1. c.text = text /\ c.start \in Nat /\ text.size \in Nat \ {0}
  BY DEF CutRecords, IsText
<1>2. CASE c.start + MaxChars >= text.size
  BY <1>1, <1>2 DEF CutAt
<1>3. CASE c.start + MaxChars < text.size /\ SpacesAhead(c) = {}
  <2>1. CutAt(c) = c.start + MaxChars
    BY <1>1, <1>3 DEF CutAt
  <2> QED
    BY <1>1, <1>3, <2>1
<1>4. CASE c.start + MaxChars < text.size /\ SpacesAhead(c) # {}
  <2>1. SpacesAhead(c) \in SUBSET Nat
    BY <1>1 DEF SpacesAhead, IsText
  <2>2. \A s \in SpacesAhead(c) : c.start < s /\ s <= c.start + MaxChars
    BY <1>1, <2>1 DEF SpacesAhead
  <2>3. \E s \in SpacesAhead(c) : \A other \in SpacesAhead(c) : other <= s
    <3>1. c.start + MaxChars \in Nat
      BY <1>1
    <3> QED
      BY <1>4, <2>1, <2>2, <3>1, GreatestExists
  <2>4. Max(SpacesAhead(c)) \in SpacesAhead(c)
    BY <2>1, <2>3 DEF Max
  <2>5. CutAt(c) = Max(SpacesAhead(c))
    BY <1>1, <1>4 DEF CutAt
  <2> QED
    BY <1>1, <1>4, <2>1, <2>2, <2>4, <2>5
<1> QED
  BY <1>1, <1>2, <1>3, <1>4

(* The next piece starts behind the last one's start, not behind its end.  *)
LEMMA NextStartBounds ==
  ASSUME NEW text, IsText(text), NEW c \in CutRecords(text), c.start < text.size
  PROVE  /\ NextStart(c) \in Nat
         /\ c.start < NextStart(c)
         /\ NextStart(c) <= CutAt(c)
<1>1. c.start \in Nat
  BY DEF CutRecords
<1> QED
  BY <1>1, CutAtBounds DEF NextStart

(* What one iteration does to each field.                                  *)
LEMMA CutFields ==
  ASSUME NEW text, IsText(text), NEW c \in CutRecords(text), c.start < text.size
  PROVE  /\ Cut(c) \in CutRecords(text)
         /\ Cut(c).pieces = Append(c.pieces, <<c.start, CutAt(c)>>)
         /\ CutAt(c) >= text.size => Cut(c).done /\ Cut(c).start = c.start
         /\ CutAt(c) < text.size => Cut(c).done = c.done /\ Cut(c).start = NextStart(c)
<1>1. /\ c.text = text /\ c.start \in Nat /\ c.pieces \in Seq(Nat \X Nat)
      /\ c = [text |-> c.text, start |-> c.start, pieces |-> c.pieces, done |-> c.done]
      /\ text.size \in Nat
  BY DEF CutRecords, IsText
<1>2. CutAt(c) \in Nat /\ NextStart(c) \in Nat
  BY CutAtBounds, NextStartBounds
<1>3. Append(c.pieces, <<c.start, CutAt(c)>>) \in Seq(Nat \X Nat)
  BY <1>1, <1>2
<1> DEFINE grown == Append(c.pieces, <<c.start, CutAt(c)>>)
<1>4. CASE CutAt(c) >= text.size
  <2>1. Cut(c) = [c EXCEPT !.pieces = grown, !.done = TRUE]
    BY <1>1, <1>4 DEF Cut
  <2>2. Cut(c) \in CutRecords(text)
    BY <1>3, <2>1 DEF CutRecords
  <2>3. Cut(c).pieces = grown /\ Cut(c).start = c.start
    BY <2>1 DEF CutRecords
  <2>4. Cut(c).done
    BY <2>1 DEF CutRecords
  <2>5. ~(CutAt(c) < text.size)
    BY <1>1, <1>2, <1>4
  <2> QED
    BY <2>2, <2>3, <2>4, <2>5, Zenon
<1>5. CASE CutAt(c) < text.size
  <2>1. Cut(c) = [c EXCEPT !.pieces = grown, !.start = NextStart(c)]
    BY <1>1, <1>2, <1>5 DEF Cut
  <2>2. Cut(c) \in CutRecords(text)
    BY <1>2, <1>3, <2>1 DEF CutRecords
  <2>3. Cut(c).pieces = grown /\ Cut(c).start = NextStart(c)
    BY <2>1 DEF CutRecords
  <2>4. Cut(c).done = c.done
    BY <2>1 DEF CutRecords
  <2> QED
    BY <1>1, <1>2, <1>5, <2>2, <2>3, <2>4
<1> QED
  BY <1>1, <1>2, <1>4, <1>5

(* An unfinished cutting that went well so far has a start in the text.    *)
LEMMA WellHasRoom ==
  ASSUME NEW c, CutWell(c), ~c.done
  PROVE  c.start <= Reached(c) /\ c.start < c.text.size
  BY DEF CutWell

-----------------------------------------------------------------------------
(* chunk_text begins well.                                                 *)
THEOREM CuttingBeginsWell ==
  ASSUME NEW text, IsText(text)
  PROVE  StartCutting(text) \in CutRecords(text) /\ CutWell(StartCutting(text))
<1> DEFINE c == StartCutting(text)
<1>1. c \in CutRecords(text)
  BY DEF StartCutting, CutRecords
<1>2. c.pieces = <<>> /\ c.start = 0 /\ c.text = text
  BY DEF StartCutting
<1>3. ~c.done
  BY DEF StartCutting
<1>4. Reached(c) = 0 /\ 0 < text.size
  BY <1>2 DEF Reached, IsText
<1>5. c.start <= Reached(c) /\ c.start < c.text.size
  BY <1>2, <1>4
<1>6. DOMAIN c.pieces = {} /\ 0..(Reached(c) - 1) = {}
  BY <1>2, <1>4
<1> HIDE DEF c
<1>7. CutWell(c)
  BY <1>3, <1>5, <1>6, Zenon DEF CutWell
<1> QED
  BY <1>1, <1>7 DEF c

(* Every iteration of the loop of chunk_text goes well: no letter between  *)
(* two pieces is lost, no piece is empty or too long, and the last one     *)
(* ends with the text.                                                     *)
THEOREM CuttingGoesWell ==
  ASSUME NEW text, IsText(text), NEW c \in CutRecords(text), CutWell(c), ~c.done
  PROVE  Cut(c) \in CutRecords(text) /\ CutWell(Cut(c))
<1> DEFINE n == Len(c.pieces) + 1
           d == Cut(c)
<1>1. /\ c.text = text /\ c.start \in Nat /\ c.pieces \in Seq(Nat \X Nat)
      /\ text.size \in Nat
  BY DEF CutRecords, IsText
<1>2. c.start <= Reached(c) /\ c.start < text.size
  BY <1>1, WellHasRoom
<1>3. /\ CutAt(c) \in Nat /\ c.start < CutAt(c) /\ CutAt(c) <= text.size
      /\ CutAt(c) - c.start <= MaxChars
      /\ NextStart(c) \in Nat /\ c.start < NextStart(c) /\ NextStart(c) <= CutAt(c)
  BY <1>2, CutAtBounds, NextStartBounds
<1>4. d \in CutRecords(text) /\ d.text = text
  BY <1>2, CutFields DEF CutRecords
<1>5. d.pieces = Append(c.pieces, <<c.start, CutAt(c)>>)
  BY <1>2, CutFields
<1>6. /\ DOMAIN c.pieces = 1..(n - 1) /\ DOMAIN d.pieces = 1..n /\ n \in Nat \ {0}
      /\ \A i \in 1..(n - 1) : d.pieces[i] = c.pieces[i]
      /\ d.pieces[n] = <<c.start, CutAt(c)>>
      /\ \A i \in 1..(n - 1) : c.pieces[i] \in Nat \X Nat
  BY <1>1, <1>3, <1>5, SMTT(60)
<1>7. Reached(d) = CutAt(c)
  <2>1. Len(d.pieces) = n /\ d.pieces # <<>>
    <3>1. d.pieces \in Seq(Nat \X Nat)
      BY <1>4 DEF CutRecords
    <3> QED
      BY <1>6, <3>1, SMTT(60)
  <2> QED
    BY <1>6, <2>1 DEF Reached
<1>8. \A i \in DOMAIN d.pieces :
        /\ 0 <= d.pieces[i][1] /\ d.pieces[i][1] < d.pieces[i][2]
        /\ d.pieces[i][2] <= d.text.size
        /\ d.pieces[i][2] - d.pieces[i][1] <= MaxChars
  <2>1. \A i \in 1..(n - 1) :
          /\ 0 <= c.pieces[i][1] /\ c.pieces[i][1] < c.pieces[i][2]
          /\ c.pieces[i][2] <= text.size
          /\ c.pieces[i][2] - c.pieces[i][1] <= MaxChars
    BY <1>1, <1>6 DEF CutWell
  <2>2. TAKE i \in DOMAIN d.pieces
  <2>3. CASE i = n
    BY <1>1, <1>3, <1>4, <1>6, <2>3, SMTT(60)
  <2>4. CASE i # n
    <3>1. i \in 1..(n - 1)
      BY <1>6, <2>2, <2>4
    <3> QED
      BY <1>4, <1>6, <2>1, <3>1
  <2> QED
    BY <2>3, <2>4
<1>9. \A k \in 0..(Reached(d) - 1) :
        \E i \in DOMAIN d.pieces : d.pieces[i][1] <= k /\ k < d.pieces[i][2]
  <2>1. \A k \in 0..(Reached(c) - 1) :
          \E i \in 1..(n - 1) : c.pieces[i][1] <= k /\ k < c.pieces[i][2]
    BY <1>6 DEF CutWell
  <2>2. TAKE k \in 0..(Reached(d) - 1)
  <2>3. k \in Nat /\ k < CutAt(c)
    BY <1>3, <1>7, <2>2
  <2>4. CASE k < c.start
    <3>1. Reached(c) \in Nat
      BY <1>1, <1>6 DEF Reached
    <3>2. k \in 0..(Reached(c) - 1)
      BY <1>1, <1>2, <2>3, <2>4, <3>1
    <3>3. PICK i \in 1..(n - 1) : c.pieces[i][1] <= k /\ k < c.pieces[i][2]
      BY <2>1, <3>2
    <3>4. i \in DOMAIN d.pieces /\ d.pieces[i] = c.pieces[i]
      BY <1>6, <3>3
    <3> QED
      BY <3>3, <3>4
  <2>5. CASE c.start <= k
    <3>1. n \in DOMAIN d.pieces /\ d.pieces[n][1] <= k /\ k < d.pieces[n][2]
      BY <1>1, <1>3, <1>6, <2>3, <2>5
    <3> QED
      BY <3>1
  <2> QED
    BY <1>1, <2>3, <2>4, <2>5
<1>20. \A i, j \in DOMAIN d.pieces : i < j => d.pieces[i][1] < d.pieces[j][1]
  <2>1. /\ \A i, j \in 1..(n - 1) : i < j => c.pieces[i][1] < c.pieces[j][1]
        /\ \A i \in 1..(n - 1) : c.pieces[i][1] < c.start
    BY <1>6 DEF CutWell
  <2>2. TAKE i, j \in DOMAIN d.pieces
  <2>3. HAVE i < j
  <2>4. i \in 1..(n - 1) /\ d.pieces[i] = c.pieces[i]
    BY <1>6, <2>2, <2>3
  <2>5. CASE j = n
    BY <1>6, <2>1, <2>4, <2>5
  <2>6. CASE j # n
    <3>1. j \in 1..(n - 1) /\ d.pieces[j] = c.pieces[j]
      BY <1>6, <2>2, <2>6
    <3> QED
      BY <2>1, <2>3, <2>4, <3>1
  <2> QED
    BY <2>5, <2>6
<1>10. CASE CutAt(c) >= text.size
  <2>1. d.done
    BY <1>2, <1>10, CutFields
  <2>2. Reached(d) = d.text.size
    BY <1>1, <1>3, <1>4, <1>7, <1>10
  <2>3. CutWell(d)
    BY <1>8, <1>9, <1>20, <2>1, <2>2, Zenon DEF CutWell
  <2> QED
    BY <1>4, <2>3
<1>11. CASE CutAt(c) < text.size
  <2>1. d.done = c.done /\ d.start = NextStart(c)
    BY <1>2, <1>11, CutFields
  <2>2. d.start <= Reached(d) /\ d.start < d.text.size
    BY <1>1, <1>3, <1>4, <1>7, <1>11, <2>1
  <2>3. \A i \in DOMAIN d.pieces : d.pieces[i][1] < d.start
    <3>1. \A i \in 1..(n - 1) : c.pieces[i][1] < c.start
      BY <1>6 DEF CutWell
    <3>2. TAKE i \in DOMAIN d.pieces
    <3>3. CASE i = n
      BY <1>1, <1>3, <1>6, <2>1, <3>3
    <3>4. CASE i # n
      <4>1. i \in 1..(n - 1)
        BY <1>6, <3>2, <3>4
      <4>2. d.pieces[i] = c.pieces[i] /\ c.pieces[i][1] < c.start
        BY <1>6, <3>1, <4>1
      <4>3. c.pieces[i][1] \in Nat
        BY <1>6, <4>1
      <4> QED
        BY <1>1, <1>3, <2>1, <4>2, <4>3, SMTT(60)
    <3> QED
      BY <3>3, <3>4
  <2>4. ~d.done
    BY <2>1
  <2>5. CutWell(d)
    BY <1>8, <1>9, <1>20, <2>2, <2>3, <2>4, Zenon DEF CutWell
  <2> QED
    BY <1>4, <2>5
<1> QED
  BY <1>1, <1>3, <1>10, <1>11

(* The loop comes to an end whatever the overlap: an iteration is the last *)
(* one or moves the start, which never leaves the text, forward.           *)
THEOREM CuttingMovesOn ==
  ASSUME NEW text, IsText(text), NEW c \in CutRecords(text), CutWell(c), ~c.done
  PROVE  Cut(c).done \/ (c.start < Cut(c).start /\ Cut(c).start < text.size)
<1>1. /\ c.text = text /\ c.start \in Nat /\ text.size \in Nat
  BY DEF CutRecords, IsText
<1>2. c.start < text.size
  BY <1>1, WellHasRoom
<1>3. /\ CutAt(c) \in Nat /\ CutAt(c) <= text.size
      /\ NextStart(c) \in Nat /\ c.start < NextStart(c) /\ NextStart(c) <= CutAt(c)
  BY <1>2, CutAtBounds, NextStartBounds
<1>4. CASE CutAt(c) >= text.size
  BY <1>2, <1>4, CutFields
<1>5. CASE CutAt(c) < text.size
  <2>1. Cut(c).start = NextStart(c)
    BY <1>2, <1>5, CutFields
  <2>2. c.start < Cut(c).start /\ Cut(c).start < text.size
    BY <1>1, <1>3, <1>5, <2>1
  <2> QED
    BY <2>2
<1> QED
  BY <1>1, <1>3, <1>4, <1>5

(* The pieces of a finished cutting hold every character of the text.      *)
THEOREM PiecesCoverText ==
  ASSUME NEW text, IsText(text), NEW c \in CutRecords(text), CutWell(c), c.done
  PROVE  \A k \in 0..(text.size - 1) :
           \E i \in DOMAIN c.pieces : c.pieces[i][1] <= k /\ k < c.pieces[i][2]
<1>1. Reached(c) = c.text.size
  BY DEF CutWell
<1>2. c.text = text
  BY DEF CutRecords
<1> QED
  BY <1>1, <1>2 DEF CutWell

-----------------------------------------------------------------------------
(* The pieces kept so far, piece by piece.                                 *)
LEMMA KeepsPieceByPiece ==
  ASSUME NEW text, NEW c \in CutRecords(text)
  PROVE  \E kept :
           /\ kept[0] = <<>>
           /\ \A k \in 1..Len(c.pieces) : kept[k] = Keep(text, kept[k - 1], c.pieces[k])
           /\ PiecesOf(c) = kept[Len(c.pieces)]
<1> DEFINE n == Len(c.pieces)
           States == Seq(Nat \X Nat)
           step == [i \in 1..n |-> [kept \in States |-> Keep(text, kept, c.pieces[i])]]
           IsIter(iter) == iter = [s \in SUBSET (1..n) |->
                             IF s = {} THEN <<>>
                             ELSE Keep(text, iter[s \ {Max(s)}], c.pieces[Max(s)])]
           iter == CHOOSE iter : IsIter(iter)
           kept == [k \in 0..n |-> iter[1..k]]
<1>1. /\ c.text = text /\ n \in Nat /\ DOMAIN c.pieces = 1..n
      /\ \A i \in 1..n : c.pieces[i] \in Nat \X Nat
  BY DEF CutRecords
<1>2. \A i \in 1..n : \A x \in States : Keep(text, x, c.pieces[i]) \in States
  BY <1>1 DEF Keep
<1>3. step \in [1..n -> [States -> States]]
  BY <1>2, Zenon
<1>4. PICK table : IsFoldTable(table, n, States, <<>>, step)
  <2>1. <<>> \in States
    OBVIOUS
  <2> HIDE DEF step, n, States
  <2> QED
    BY <1>1, <1>3, <2>1, FoldTableExists
<1>5. IsIter(table)
  <2>1. ASSUME NEW s \in SUBSET (1..n), s # {}
        PROVE  FoldStep(s, <<>>, step, table)
                 = Keep(text, table[s \ {Max(s)}], c.pieces[Max(s)])
    <3>1. Max(s) \in s
      <4>1. \A i \in s : i \in Nat /\ i <= n
        BY <1>1
      <4>2. \E i \in s : \A j \in s : j <= i
        <5>1. s \in SUBSET Nat
          BY <4>1
        <5> HIDE DEF n
        <5> QED
          BY <1>1, <2>1, <4>1, <5>1, GreatestExists
      <4> QED
        BY <4>1, <4>2 DEF Max
    <3>2. Max(s) \in 1..n /\ s \ {Max(s)} \in SUBSET (1..n)
      BY <2>1, <3>1, Zenon
    <3>3. table[s \ {Max(s)}] \in States
      BY <1>4, <3>2, Zenon DEF IsFoldTable
    <3> QED
      BY <2>1, <3>2, <3>3, Zenon DEF FoldStep
  <2>2. \A s \in SUBSET (1..n) :
          table[s] = IF s = {} THEN <<>> ELSE Keep(text, table[s \ {Max(s)}], c.pieces[Max(s)])
    BY <1>4, <2>1, Zenon DEF IsFoldTable, FoldStep
  <2>3. table = [s \in SUBSET (1..n) |-> table[s]]
    BY <1>4, Zenon DEF IsFoldTable
  <2> QED
    BY <2>2, <2>3, Zenon
<1>6. IsIter(iter)
  BY <1>5, Zenon
<1>7. PiecesOf(c) = iter[1..n]
  BY <1>1, Zenon DEF PiecesOf, FoldLeft, MapThenFoldSet
<1>8. iter[1..0] = <<>>
  <2>1. 1..0 \in SUBSET (1..n) /\ 1..0 = {}
    BY <1>1
  <2> HIDE DEF iter
  <2> QED
    BY <1>6, <2>1, Zenon
<1>9. ASSUME NEW k \in 1..n
      PROVE  iter[1..k] = Keep(text, iter[1..(k - 1)], c.pieces[k])
  <2>1. 1..k \in SUBSET (1..n) /\ k \in Nat \ {0}
    BY <1>1
  <2>2. Max(1..k) = k /\ (1..k) \ {Max(1..k)} = 1..(k - 1) /\ 1..k # {}
    BY <2>1, LastOfFirst
  <2> HIDE DEF iter
  <2> QED
    BY <1>6, <2>1, <2>2, Zenon
<1>10. \A k \in 1..n : k \in 0..n /\ k - 1 \in 0..n /\ 0 \in 0..n /\ n \in 0..n
  BY <1>1
<1>11. kept[0] = <<>> /\ kept[n] = iter[1..n]
  <2>1. 0 \in 0..n /\ n \in 0..n
    BY <1>1
  <2> HIDE DEF iter
  <2> QED
    BY <1>8, <2>1, Zenon
<1>12. \A k \in 1..n : kept[k] = Keep(text, kept[k - 1], c.pieces[k])
  <2> HIDE DEF iter
  <2> QED
    BY <1>9, <1>10, Zenon
<1> QED
  <2> HIDE DEF kept, iter
  <2> QED
    BY <1>7, <1>11, <1>12, Zenon

(* The chunks of chunk_text are the pieces that are more than spaces, in   *)
(* the order of their starts: together they hold every letter of the text, *)
(* and none is longer than the limit.                                      *)
CutsUp(text, chunks) ==
  /\ \A k \in (0..(text.size - 1)) \ text.spaces :
       \E i \in 1..Len(chunks) : k \in Letters(text, chunks[i])
  /\ \A i \in 1..Len(chunks) :
       /\ 0 <= chunks[i][1] /\ chunks[i][2] <= text.size
       /\ chunks[i][2] - chunks[i][1] <= MaxChars
       /\ Letters(text, chunks[i]) # {}
  /\ \A i \in 1..(Len(chunks) - 1) : chunks[i][1] < chunks[i + 1][1]

(* The pieces kept are those of the first ones that have letters.          *)
KeptOf(text, pieces, k, kept) ==
  /\ kept \in Seq(Nat \X Nat)
  /\ \A i \in 1..Len(kept) : \E j \in 1..k :
       kept[i] = pieces[j] /\ Letters(text, pieces[j]) # {}
  /\ \A j \in 1..k : Letters(text, pieces[j]) # {} =>
       \E i \in 1..Len(kept) : kept[i] = pieces[j]
  /\ \A i \in 1..(Len(kept) - 1) : kept[i][1] < kept[i + 1][1]

LEMMA KeepsOneMore ==
  ASSUME NEW text, NEW pieces \in Seq(Nat \X Nat), NEW k \in 1..Len(pieces),
         \A i, j \in 1..Len(pieces) : i < j => pieces[i][1] < pieces[j][1],
         NEW kept, KeptOf(text, pieces, k - 1, kept)
  PROVE  KeptOf(text, pieces, k, Keep(text, kept, pieces[k]))
<1>1. /\ k \in Nat /\ k - 1 \in Nat /\ pieces[k] \in Nat \X Nat
      /\ \A j \in 1..(k - 1) : j \in 1..k /\ j < k
      /\ \A j \in 1..k : j # k => j \in 1..(k - 1)
      /\ k \in 1..k /\ \A j \in 1..k : j \in 1..Len(pieces)
  <2>1. Len(pieces) \in Nat /\ \A i \in 1..Len(pieces) : pieces[i] \in Nat \X Nat
    OBVIOUS
  <2>2. k \in Nat /\ 1 <= k /\ k <= Len(pieces)
    BY <2>1
  <2>3. /\ \A j \in 1..(k - 1) : j \in 1..k /\ j < k
        /\ \A j \in 1..k : j # k => j \in 1..(k - 1)
    BY <2>2
  <2>4. \A j \in 1..k : j \in 1..Len(pieces)
    BY <2>1, <2>2
  <2> QED
    BY <2>1, <2>2, <2>3, <2>4
<1>2. /\ kept \in Seq(Nat \X Nat)
      /\ \A i \in 1..Len(kept) : \E j \in 1..(k - 1) :
           kept[i] = pieces[j] /\ Letters(text, pieces[j]) # {}
      /\ \A j \in 1..(k - 1) : Letters(text, pieces[j]) # {} =>
           \E i \in 1..Len(kept) : kept[i] = pieces[j]
      /\ \A i \in 1..(Len(kept) - 1) : kept[i][1] < kept[i + 1][1]
  BY Zenon DEF KeptOf
<1>3. CASE Letters(text, pieces[k]) = {}
  <2>1. Keep(text, kept, pieces[k]) = kept
    BY <1>3, Zenon DEF Keep
  <2>2. KeptOf(text, pieces, k, kept)
    BY <1>1, <1>2, <1>3, Zenon DEF KeptOf
  <2> QED
    BY <2>1, <2>2, Zenon
<1>4. CASE Letters(text, pieces[k]) # {}
  <2> DEFINE m == Len(kept)
             more == Append(kept, pieces[k])
  <2>1. Keep(text, kept, pieces[k]) = more
    BY <1>4, Zenon DEF Keep
  <2>2. /\ m \in Nat /\ more \in Seq(Nat \X Nat) /\ Len(more) = m + 1
        /\ \A i \in 1..m : more[i] = kept[i]
        /\ more[m + 1] = pieces[k]
    BY <1>1, <1>2
  <2> HIDE DEF more
  <2>3. ASSUME NEW i \in 1..Len(more)
        PROVE  \E j \in 1..k : more[i] = pieces[j] /\ Letters(text, pieces[j]) # {}
    <3>1. CASE i = m + 1
      BY <1>1, <1>4, <2>2, <3>1, Zenon
    <3>2. CASE i # m + 1
      <4>1. i \in 1..m
        BY <2>2, <3>2
      <4>2. PICK j \in 1..(k - 1) : kept[i] = pieces[j] /\ Letters(text, pieces[j]) # {}
        BY <1>2, <4>1, Zenon
      <4>3. j \in 1..k /\ more[i] = pieces[j]
        BY <1>1, <2>2, <4>1, <4>2, Zenon
      <4> QED
        BY <4>2, <4>3, Zenon
    <3> QED
      BY <3>1, <3>2
  <2>4. ASSUME NEW j \in 1..k, Letters(text, pieces[j]) # {}
        PROVE  \E i \in 1..Len(more) : more[i] = pieces[j]
    <3>1. CASE j = k
      <4>1. m + 1 \in 1..Len(more)
        BY <2>2
      <4> QED
        BY <2>2, <3>1, <4>1, Zenon
    <3>2. CASE j # k
      <4>1. PICK i \in 1..m : kept[i] = pieces[j]
        BY <1>1, <1>2, <2>4, <3>2, Zenon
      <4>2. i \in 1..Len(more)
        BY <2>2
      <4> QED
        BY <2>2, <4>1, <4>2, Zenon
    <3> QED
      BY <3>1, <3>2
  <2>5. ASSUME NEW i \in 1..(Len(more) - 1)
        PROVE  more[i][1] < more[i + 1][1]
    <3>1. CASE i = m
      <4>1. i \in 1..m /\ i + 1 = m + 1
        BY <2>2, <3>1
      <4>2. PICK j \in 1..(k - 1) : kept[i] = pieces[j]
        BY <1>2, <4>1, Zenon
      <4>3. pieces[j][1] < pieces[k][1]
        BY <1>1
      <4> QED
        BY <2>2, <4>1, <4>2, <4>3, Zenon
    <3>2. CASE i # m
      <4>1. i \in 1..(m - 1) /\ i \in 1..m /\ i + 1 \in 1..m
        BY <2>2, <3>2
      <4> QED
        BY <1>2, <2>2, <4>1, Zenon
    <3> QED
      BY <3>1, <3>2
  <2>6. KeptOf(text, pieces, k, more)
    BY <2>2, <2>3, <2>4, <2>5, Zenon DEF KeptOf
  <2> QED
    BY <2>1, <2>6, Zenon
<1> QED
  BY <1>3, <1>4

LEMMA KeepsAll ==
  ASSUME NEW text, NEW c \in CutRecords(text), CutWell(c)
  PROVE  KeptOf(text, c.pieces, Len(c.pieces), PiecesOf(c))
<1> DEFINE n == Len(c.pieces)
<1>1. c.pieces \in Seq(Nat \X Nat) /\ n \in Nat /\ DOMAIN c.pieces = 1..n
  BY DEF CutRecords
<1>2. \A i, j \in 1..n : i < j => c.pieces[i][1] < c.pieces[j][1]
  BY <1>1, Zenon DEF CutWell
<1>3. PICK kept :
        /\ kept[0] = <<>>
        /\ \A k \in 1..n : kept[k] = Keep(text, kept[k - 1], c.pieces[k])
        /\ PiecesOf(c) = kept[n]
  BY KeepsPieceByPiece, Zenon
<1> DEFINE T == {k \in Nat : k <= n => KeptOf(text, c.pieces, k, kept[k])}
<1>4. 0 \in T
  <2>1. KeptOf(text, c.pieces, 0, <<>>)
    BY DEF KeptOf
  <2> QED
    BY <1>3, <2>1
<1>5. \A k \in T : k + 1 \in T
  <2>1. SUFFICES ASSUME NEW k \in Nat, k + 1 <= n, KeptOf(text, c.pieces, k, kept[k])
                 PROVE  KeptOf(text, c.pieces, k + 1, kept[k + 1])
    <3>1. \A k \in Nat : k + 1 <= n => k <= n
      <4> HIDE DEF n
      <4> QED
        BY <1>1
    <3> HIDE DEF n
    <3> QED
      BY <2>1, <3>1
  <2>2. k + 1 \in 1..n /\ (k + 1) - 1 = k
    <3> HIDE DEF n
    <3> QED
      BY <1>1, <2>1
  <2>3. KeptOf(text, c.pieces, k + 1, Keep(text, kept[k], c.pieces[k + 1]))
    <3>1. KeptOf(text, c.pieces, (k + 1) - 1, kept[k])
      BY <2>1, <2>2, Zenon
    <3> QED
      BY <1>1, <1>2, <2>2, <3>1, KeepsOneMore, Zenon
  <2>4. kept[k + 1] = Keep(text, kept[k], c.pieces[k + 1])
    BY <1>3, <2>2, Zenon
  <2> QED
    BY <2>3, <2>4, Zenon
<1>6. T = Nat
  <2>1. T \in SUBSET Nat
    OBVIOUS
  <2> HIDE DEF T
  <2> QED
    BY <1>4, <1>5, <2>1, HasAllNumbers
<1>7. n \in T /\ n <= n
  BY <1>1, <1>6
<1>8. KeptOf(text, c.pieces, n, kept[n])
  BY <1>7
<1> QED
  BY <1>3, <1>8, Zenon

(* chunk_text cuts up every text: its chunks hold every letter, each at    *)
(* most MaxChars long and more than spaces, each starting behind the one   *)
(* before it.                                                              *)
THEOREM ChunksCutUpText ==
  ASSUME NEW text, IsText(text), NEW c \in CutRecords(text), CutWell(c), c.done
  PROVE  PiecesOf(c) \in Seq(Nat \X Nat) /\ CutsUp(text, PiecesOf(c))
<1> DEFINE n == Len(c.pieces)
           chunks == PiecesOf(c)
<1>1. c.pieces \in Seq(Nat \X Nat) /\ n \in Nat /\ DOMAIN c.pieces = 1..n /\ c.text = text
  BY DEF CutRecords
<1>2. KeptOf(text, c.pieces, n, chunks)
  BY KeepsAll
<1> HIDE DEF chunks
<1>3. ASSUME NEW k \in (0..(text.size - 1)) \ text.spaces
      PROVE  \E i \in 1..Len(chunks) : k \in Letters(text, chunks[i])
  <2>1. PICK j \in 1..n : c.pieces[j][1] <= k /\ k < c.pieces[j][2]
    BY <1>1, <1>3, PiecesCoverText
  <2>2. k \in Letters(text, c.pieces[j])
    <3>1. c.pieces[j][1] \in Nat /\ c.pieces[j][2] \in Nat /\ k \in Int
      BY <1>1, <1>3, <2>1 DEF IsText
    <3> QED
      BY <1>3, <2>1, <3>1 DEF Letters
  <2>3. PICK i \in 1..Len(chunks) : chunks[i] = c.pieces[j]
    BY <1>2, <2>2, Zenon DEF KeptOf
  <2> QED
    BY <2>2, <2>3, Zenon
<1>4. ASSUME NEW i \in 1..Len(chunks)
      PROVE  /\ 0 <= chunks[i][1] /\ chunks[i][2] <= text.size
             /\ chunks[i][2] - chunks[i][1] <= MaxChars
             /\ Letters(text, chunks[i]) # {}
  <2>1. PICK j \in 1..n : chunks[i] = c.pieces[j] /\ Letters(text, c.pieces[j]) # {}
    BY <1>2, Zenon DEF KeptOf
  <2>2. /\ 0 <= c.pieces[j][1] /\ c.pieces[j][2] <= text.size
        /\ c.pieces[j][2] - c.pieces[j][1] <= MaxChars
    BY <1>1, Zenon DEF CutWell
  <2> QED
    BY <2>1, <2>2, Zenon
<1> QED
  BY <1>2, <1>3, <1>4, Zenon DEF KeptOf, CutsUp, chunks

HIDE ChunkAssumption

-----------------------------------------------------------------------------
(* Indexing.                                                               *)
Places == {"fetch", "open", "lock", "section", "cut", "embed", "commit", "exit", "killed"}

(* The commands that have written in a transaction that is still open.     *)
Holding == {"section", "cut", "embed", "commit"}

(* The fields of a command's locals.                                       *)
IsLocals(l) ==
  l = [turn |-> l.turn, failed |-> l.failed, committed |-> l.committed, unsure |-> l.unsure,
       readme |-> l.readme, knew |-> l.knew, left |-> l.left, seen |-> l.seen,
       wrote |-> l.wrote, gone |-> l.gone, cut |-> l.cut]

Typed ==
  /\ stored = [r \in Repos |-> stored[r]]
  /\ known \subseteq Repos
  /\ holder \in [Repos -> Procs \union {Nothing}]
  /\ ipc \in [Procs -> Places]
  /\ shown \in [Repos -> Readmes \union {Nothing}]
  /\ loc = [p \in Procs |-> loc[p]]
  /\ \A p \in Procs : IsLocals(loc[p])

-----------------------------------------------------------------------------
(* What a command has come to, turn by turn.                               *)
Accounted(p) ==
  /\ loc[p].turn \in 1..Len(Command[p])
  /\ loc[p].unsure \subseteq loc[p].failed
  /\ loc[p].failed \intersect loc[p].committed = {}
  /\ loc[p].failed \union loc[p].committed =
       IF ipc[p] = "exit" THEN ToSet(Command[p])
       ELSE IF ipc[p] = "killed" THEN {}
       ELSE {Command[p][i] : i \in 1..(loc[p].turn - 1)}
  /\ ipc[p] \in {"open", "lock"} \union Holding => loc[p].readme \in Readmes
  /\ \A r \in loc[p].committed : r \in known /\ shown[r] # Nothing

(* A command is alone if no other one has begun.                           *)
Alone(p) == \A q \in Procs \ {p} : loc[q].turn = 1 /\ ipc[q] = "fetch"

Answerable(p) ==
  ipc[p] # "killed" /\ Alone(p) =>
    \A r \in Repos : shown[r] # Nothing => r \in loc[p].committed \union loc[p].unsure

AccountInv == Typed /\ \A p \in Procs : Accounted(p) /\ Answerable(p)

-----------------------------------------------------------------------------
(* docs holds, under each title, the last of the first n sections that has *)
(* this title and is more than a template.                                 *)
TellsFirst(sections, n, docs) ==
  /\ \A i \in 1..n : ~IsTemplateOnly(sections[i].body) => sections[i].title \in DOMAIN docs
  /\ \A t \in DOMAIN docs : \E i \in 1..n :
       /\ sections[i].title = t /\ ~IsTemplateOnly(sections[i].body)
       /\ docs[t].content = sections[i].body
       /\ \A j \in (i + 1)..n : sections[j].title = t => IsTemplateOnly(sections[j].body)

(* The chunks of a document come from a cutting of its content that went   *)
(* well to its end.                                                        *)
IsCut(doc) ==
  \E c \in CutRecords(Text[doc.content]) :
    CutWell(c) /\ c.done /\ doc.chunks = <<>> \o PiecesOf(c)

SectionSet == [title : Seq(STRING), body : DOMAIN Text]

(* The section a command is at.                                            *)
Section(p) == Head(loc[p].left)

IsDoc(doc) == doc = [content |-> doc.content, chunks |-> doc.chunks]
               /\ doc.content \in DOMAIN Text

(* How many sections of its README a command has written or skipped.       *)
Read(p) == Len(Sections[loc[p].readme]) - Len(loc[p].left)
             + (IF ipc[p] \in {"cut", "embed"} THEN 1 ELSE 0)

(* The sections it has not come to are the last ones of the README, and    *)
(* its transaction keeps the other commands out.                           *)
Reading(p) ==
  LET sections == Sections[loc[p].readme]
      left == loc[p].left
  IN /\ holder[Repo(p)] = p
     /\ left \in Seq(SectionSet)
     /\ Len(left) <= Len(sections)
     /\ \A i \in 1..Len(left) : left[i] = sections[Len(sections) - Len(left) + i]

(* Those it has come to are what it has written.                           *)
Telling(p) ==
  /\ loc[p].seen = DOMAIN loc[p].wrote
  /\ TellsFirst(Sections[loc[p].readme], Read(p), loc[p].wrote)
  /\ \A t \in DOMAIN loc[p].wrote : IsDoc(loc[p].wrote[t])

(* The document it is at has no chunks yet; its content is being cut.      *)
Cutting(p) ==
  /\ loc[p].left # <<>>
  /\ Section(p).title \in DOMAIN loc[p].wrote
  /\ loc[p].wrote[Section(p).title].content = Section(p).body
  /\ loc[p].wrote[Section(p).title].chunks = <<>>
  /\ \A t \in DOMAIN loc[p].wrote \ {Section(p).title} : IsCut(loc[p].wrote[t])
  /\ loc[p].cut \in CutRecords(Text[Section(p).body])
  /\ CutWell(loc[p].cut)
  /\ loc[p].cut.done <=> ipc[p] = "embed"

Writing(p) ==
  /\ ipc[p] = "lock" => loc[p].left = Sections[loc[p].readme]
  /\ ipc[p] \in {"fetch", "open", "lock"} => loc[p].wrote = <<>> /\ loc[p].seen = {}
  /\ ipc[p] \in Holding => Reading(p) /\ Telling(p)
  /\ ipc[p] \in {"section", "commit"} => \A t \in DOMAIN loc[p].wrote : IsCut(loc[p].wrote[t])
  /\ ipc[p] = "commit" => loc[p].left = <<>>
                          /\ loc[p].gone = DOMAIN stored[Repo(p)] \ loc[p].seen
  /\ ipc[p] \in {"cut", "embed"} => Cutting(p)

(* What is stored of a repository is what its last README says, however    *)
(* the commands interleave, fail, are killed or lose the answer to a       *)
(* COMMIT.  IndexIsWhole and ChunksAreOfContent say so in terms of the     *)
(* lines of the README; this is in terms of the sections the code reads.   *)
StoredIsTold ==
  \A r \in Repos :
    IF shown[r] = Nothing THEN stored[r] = <<>>
    ELSE /\ TellsFirst(Sections[shown[r]], Len(Sections[shown[r]]), stored[r])
         /\ \A t \in DOMAIN stored[r] : IsDoc(stored[r][t]) /\ IsCut(stored[r][t])

DocumentInv == StoredIsTold /\ \A p \in Procs : Writing(p)

-----------------------------------------------------------------------------
(* split_sections while it reads.                                          *)
SectionsSoFar == Seq([title : Seq(STRING), body : Seq(ReadmeLines)])

Readings ==
  [h1 : Seq(STRING), title : Seq(STRING), body : Seq(ReadmeLines),
   fenced : BOOLEAN, sections : SectionsSoFar]

Unread == [h1 |-> <<>>, title |-> <<>>, body |-> <<>>, fenced |-> FALSE, sections |-> <<>>]

LEMMA FlushTyped ==
  ASSUME NEW s \in Readings
  PROVE  Flush(s) \in SectionsSoFar
<1>1. s.title \in Seq(STRING) /\ s.body \in Seq(ReadmeLines) /\ s.sections \in SectionsSoFar
  BY DEF Readings
<1>2. [title |-> s.title, body |-> s.body] \in [title : Seq(STRING), body : Seq(ReadmeLines)]
  BY <1>1
<1>3. Append(s.sections, [title |-> s.title, body |-> s.body]) \in SectionsSoFar
  BY <1>1, <1>2 DEF SectionsSoFar
<1> QED
  BY <1>1, <1>3, Zenon DEF Flush

LEMMA ReadingMade ==
  ASSUME NEW h1 \in Seq(STRING), NEW title \in Seq(STRING), NEW body \in Seq(ReadmeLines),
         NEW fenced \in BOOLEAN, NEW sections \in SectionsSoFar, NEW s,
         s = [h1 |-> h1, title |-> title, body |-> body, fenced |-> fenced,
              sections |-> sections]
  PROVE  /\ s \in Readings
         /\ s.h1 = h1 /\ s.title = title /\ s.body = body
         /\ s.fenced = fenced /\ s.sections = sections
  BY DEF Readings

(* What a line does to each field.                                         *)
LEMMA PlainLine ==
  ASSUME NEW s \in Readings, NEW line \in ReadmeLines, ~IsHeading(line, s.fenced)
  PROVE  /\ ReadLine(s, line) \in Readings
         /\ ReadLine(s, line).h1 = s.h1
         /\ ReadLine(s, line).title = s.title
         /\ ReadLine(s, line).sections = s.sections
         /\ ReadLine(s, line).body = Append(s.body, line)
         /\ ReadLine(s, line).fenced = ((line.kind = "fence") # s.fenced)
<1>1. s = [h1 |-> s.h1, title |-> s.title, body |-> s.body, fenced |-> s.fenced,
           sections |-> s.sections]
  BY DEF Readings
<1>2. /\ s.h1 \in Seq(STRING) /\ s.title \in Seq(STRING) /\ s.sections \in SectionsSoFar
      /\ s.fenced \in BOOLEAN /\ Append(s.body, line) \in Seq(ReadmeLines)
  BY DEF Readings
<1>3. ReadLine(s, line) = [h1 |-> s.h1, title |-> s.title, body |-> Append(s.body, line),
                           fenced |-> ((line.kind = "fence") # s.fenced),
                           sections |-> s.sections]
  <2>1. ReadLine(s, line) = [[s EXCEPT !.body = Append(s.body, line)]
                               EXCEPT !.fenced = ((line.kind = "fence") # s.fenced)]
    BY <1>1, Zenon DEF ReadLine
  <2> QED
    BY <1>1, <2>1, Zenon
<1>4. ((line.kind = "fence") # s.fenced) \in BOOLEAN
  OBVIOUS
<1>5. PICK fenced, body, r : /\ fenced = ((line.kind = "fence") # s.fenced)
                             /\ body = Append(s.body, line) /\ r = ReadLine(s, line)
  OBVIOUS
<1>6. fenced \in BOOLEAN /\ body \in Seq(ReadmeLines)
  BY <1>2, <1>4, <1>5, Zenon
<1>7. r = [h1 |-> s.h1, title |-> s.title, body |-> body, fenced |-> fenced,
           sections |-> s.sections]
  BY <1>3, <1>5, Zenon
<1>8. /\ r \in Readings
      /\ r.h1 = s.h1 /\ r.title = s.title /\ r.body = body
      /\ r.fenced = fenced /\ r.sections = s.sections
  BY <1>2, <1>6, <1>7, ReadingMade
<1> QED
  BY <1>5, <1>8, Zenon

LEMMA HeadingLine ==
  ASSUME NEW s \in Readings, NEW line \in ReadmeLines, IsHeading(line, s.fenced)
  PROVE  /\ ReadLine(s, line) \in Readings
         /\ ReadLine(s, line).h1 = IF line.kind = "h1" THEN <<line.text>> ELSE s.h1
         /\ ReadLine(s, line).title
              = IF line.kind = "h1" THEN <<line.text>> ELSE Append(s.h1, line.text)
         /\ ReadLine(s, line).sections = Flush(s)
         /\ ReadLine(s, line).body = <<>>
         /\ ReadLine(s, line).fenced = s.fenced
<1> DEFINE h1 == IF line.kind = "h1" THEN <<line.text>> ELSE s.h1
           title == IF line.kind = "h1" THEN <<line.text>> ELSE Append(s.h1, line.text)
<1>1. s = [h1 |-> s.h1, title |-> s.title, body |-> s.body, fenced |-> s.fenced,
           sections |-> s.sections]
  BY DEF Readings
<1>2. s.h1 \in Seq(STRING) /\ s.fenced \in BOOLEAN /\ line.text \in STRING
  BY DEF Readings, ReadmeLines
<1>3. h1 \in Seq(STRING) /\ title \in Seq(STRING) /\ <<>> \in Seq(ReadmeLines)
  <2>1. <<line.text>> \in Seq(STRING) /\ Append(s.h1, line.text) \in Seq(STRING)
        /\ <<>> \in Seq(ReadmeLines)
    BY <1>2
  <2> QED
    BY <1>2, <2>1, Zenon
<1>4. Flush(s) \in SectionsSoFar
  BY FlushTyped
<1>5. ReadLine(s, line) = [h1 |-> h1, title |-> title, body |-> <<>>, fenced |-> s.fenced,
                           sections |-> Flush(s)]
  <2>1. ReadLine(s, line)
          = [[[[s EXCEPT !.sections = Flush(s)] EXCEPT !.body = <<>>]
                 EXCEPT !.h1 = h1] EXCEPT !.title = title]
    BY <1>1, Zenon DEF ReadLine
  <2> HIDE DEF h1, title
  <2>2. PICK h, t, b, f, x, sections, body :
          /\ s = [h1 |-> h, title |-> t, body |-> b, fenced |-> f, sections |-> x]
          /\ f = s.fenced /\ sections = Flush(s) /\ body = <<>>
    BY <1>1, Zenon
  <2>3. PICK s1 : s1 = [s EXCEPT !.sections = sections]
    OBVIOUS
  <2>4. s1 = [h1 |-> h, title |-> t, body |-> b, fenced |-> f, sections |-> sections]
    BY <2>2, <2>3, SMT
  <2>5. PICK s2 : s2 = [s1 EXCEPT !.body = body]
    OBVIOUS
  <2>6. s2 = [h1 |-> h, title |-> t, body |-> body, fenced |-> f, sections |-> sections]
    BY <2>4, <2>5, SMT
  <2>7. PICK s3 : s3 = [s2 EXCEPT !.h1 = h1]
    OBVIOUS
  <2>8. s3 = [h1 |-> h1, title |-> t, body |-> body, fenced |-> f, sections |-> sections]
    BY <2>6, <2>7, SMT
  <2>9. [s3 EXCEPT !.title = title]
          = [h1 |-> h1, title |-> title, body |-> body, fenced |-> f, sections |-> sections]
    BY <2>8, SMT
  <2> QED
    BY <2>1, <2>2, <2>3, <2>5, <2>7, <2>9, Zenon
<1> HIDE DEF h1, title
<1>6. PICK r, sections, body :
        r = ReadLine(s, line) /\ sections = Flush(s) /\ body = <<>>
  OBVIOUS
<1>7. /\ r \in Readings
      /\ r.h1 = h1 /\ r.title = title /\ r.body = body
      /\ r.fenced = s.fenced /\ r.sections = sections
  <2>1. sections \in SectionsSoFar /\ body \in Seq(ReadmeLines)
    BY <1>3, <1>4, <1>6, Zenon
  <2>2. r = [h1 |-> h1, title |-> title, body |-> body, fenced |-> s.fenced,
             sections |-> sections]
    BY <1>5, <1>6, Zenon
  <2> QED
    BY <1>2, <1>3, <2>1, <2>2, ReadingMade
<1> QED
  BY <1>6, <1>7, Zenon DEF h1, title

LEMMA ReadLineTyped ==
  ASSUME NEW s \in Readings, NEW line \in ReadmeLines
  PROVE  ReadLine(s, line) \in Readings
  BY PlainLine, HeadingLine

(* The states of split_sections, line by line.                             *)
LEMMA ReadsLineByLine ==
  ASSUME NEW readme \in Seq(ReadmeLines)
  PROVE  \E s :
           /\ s[0] = Unread
           /\ \A k \in 1..Len(readme) : s[k] = ReadLine(s[k - 1], readme[k])
           /\ SplitSections(readme) = Flush(s[Len(readme)])
<1> DEFINE n == Len(readme)
           step == [i \in 1..n |-> [r \in Readings |-> ReadLine(r, readme[i])]]
           IsIter(iter) == iter = [s \in SUBSET (1..n) |->
                             IF s = {} THEN Unread
                             ELSE ReadLine(iter[s \ {Max(s)}], readme[Max(s)])]
           iter == CHOOSE iter : IsIter(iter)
           reading == [k \in 0..n |-> iter[1..k]]
<1>1. n \in Nat /\ DOMAIN readme = 1..n /\ \A i \in 1..n : readme[i] \in ReadmeLines
  OBVIOUS
<1>2. \A i \in 1..n : \A r \in Readings : ReadLine(r, readme[i]) \in Readings
  BY <1>1, ReadLineTyped
<1>3. step \in [1..n -> [Readings -> Readings]]
  BY <1>2, Zenon
<1>4. PICK table : IsFoldTable(table, n, Readings, Unread, step)
  <2>1. Unread \in Readings
    BY DEF Unread, Readings, SectionsSoFar
  <2> HIDE DEF step, n
  <2> QED
    BY <1>1, <1>3, <2>1, FoldTableExists
<1>5. IsIter(table)
  <2>1. ASSUME NEW s \in SUBSET (1..n), s # {}
        PROVE  FoldStep(s, Unread, step, table)
                 = ReadLine(table[s \ {Max(s)}], readme[Max(s)])
    <3>1. Max(s) \in s
      <4>1. \A i \in s : i \in Nat /\ i <= n
        BY <1>1
      <4>2. \E i \in s : \A j \in s : j <= i
        <5>1. s \in SUBSET Nat
          BY <4>1
        <5> HIDE DEF n
        <5> QED
          BY <1>1, <2>1, <4>1, <5>1, GreatestExists
      <4> QED
        BY <4>1, <4>2 DEF Max
    <3>2. Max(s) \in 1..n /\ s \ {Max(s)} \in SUBSET (1..n)
      BY <2>1, <3>1, Zenon
    <3>3. table[s \ {Max(s)}] \in Readings
      BY <1>4, <3>2, Zenon DEF IsFoldTable
    <3> QED
      BY <2>1, <3>2, <3>3, Zenon DEF FoldStep
  <2>2. \A s \in SUBSET (1..n) :
          table[s] = IF s = {} THEN Unread ELSE ReadLine(table[s \ {Max(s)}], readme[Max(s)])
    BY <1>4, <2>1, Zenon DEF IsFoldTable, FoldStep
  <2>3. table = [s \in SUBSET (1..n) |-> table[s]]
    BY <1>4, Zenon DEF IsFoldTable
  <2> QED
    BY <2>2, <2>3, Zenon
<1>6. IsIter(iter)
  BY <1>5, Zenon
<1>7. SplitSections(readme) = Flush(iter[1..n])
  BY <1>1, Zenon DEF SplitSections, FoldLeft, MapThenFoldSet, Unread
<1> HIDE DEF iter
<1>8. iter[1..0] = Unread
  <2>1. 1..0 \in SUBSET (1..n) /\ 1..0 = {}
    BY <1>1
  <2> QED
    BY <1>6, <2>1, Zenon
<1>9. ASSUME NEW k \in 1..n
      PROVE  iter[1..k] = ReadLine(iter[1..(k - 1)], readme[k])
  <2>1. 1..k \in SUBSET (1..n) /\ k \in Nat \ {0}
    BY <1>1
  <2>2. Max(1..k) = k /\ (1..k) \ {Max(1..k)} = 1..(k - 1) /\ 1..k # {}
    BY <2>1, LastOfFirst
  <2> QED
    BY <1>6, <2>1, <2>2, Zenon
<1>10. 0 \in 0..n /\ n \in 0..n /\ \A k \in 1..n : k \in 0..n /\ k - 1 \in 0..n
  BY <1>1
<1>11. reading[0] = Unread /\ reading[n] = iter[1..n]
  BY <1>8, <1>10, Zenon
<1>12. \A k \in 1..n : reading[k] = ReadLine(reading[k - 1], readme[k])
  BY <1>9, <1>10, Zenon
<1> QED
  <2> HIDE DEF reading
  <2> QED
    BY <1>7, <1>11, <1>12, Zenon

(* The sections are those of the headings of the first k lines, heading by *)
(* heading, each with what is said under it, empty ones left out.          *)
SectionsSay(readme, k, sections) ==
  \E at \in [1..Len(sections) -> HeadingsOf(readme)] :
    /\ \A m \in 1..Len(sections) :
         /\ at[m] <= k
         /\ sections[m].title = TitleOf(readme, at[m])
         /\ sections[m].body = BodyOf(readme, at[m])
         /\ sections[m].body # <<>>
    /\ \A l, m \in 1..Len(sections) : l < m => at[l] < at[m]
    /\ \A i \in HeadingsOf(readme) : i <= k /\ BodyOf(readme, i) # <<>> =>
         \E m \in 1..Len(sections) : at[m] = i

(* i is the last of the positions up to k that are in the set.             *)
IsLastOf(i, positions, k) ==
  i \in positions /\ i <= k /\ \A j \in positions : j <= k => j <= i

NoneOf(positions, k) == \A j \in positions : ~(j <= k)

TitlesOf(readme) == {i \in HeadingsOf(readme) : readme[i].kind = "h1"}

(* What split_sections holds after k lines.                                *)
HoldsTitle(readme, k, s) ==
  \/ NoneOf(TitlesOf(readme), k) /\ s.h1 = <<>>
  \/ \E j \in Nat : IsLastOf(j, TitlesOf(readme), k) /\ s.h1 = <<readme[j].text>>

HoldsSections(readme, k, s) ==
  \/ NoneOf(HeadingsOf(readme), k) /\ s.title = <<>> /\ s.sections = <<>>
  \/ \E i \in Nat : /\ IsLastOf(i, HeadingsOf(readme), k)
                    /\ s.title = TitleOf(readme, i)
                    /\ s.body = SubSeq(readme, i + 1, k)
                    /\ SectionsSay(readme, i - 1, s.sections)

HasRead(readme, k, s) ==
  /\ s \in Readings
  /\ s.fenced = (FencesBefore(readme, k + 1) % 2 = 1)
  /\ HoldsTitle(readme, k, s)
  /\ HoldsSections(readme, k, s)

LEMMA HeadingsAreLines ==
  ASSUME NEW readme \in Seq(ReadmeLines)
  PROVE  /\ HeadingsOf(readme) \in SUBSET (1..Len(readme))
         /\ HeadingsOf(readme) \in SUBSET Nat
         /\ TitlesOf(readme) \in SUBSET HeadingsOf(readme)
  BY DEF HeadingsOf, TitlesOf

(* A line is in a code block if the number of fences above it is odd.      *)
LEMMA FencesAlternate ==
  ASSUME NEW readme \in Seq(ReadmeLines), NEW k \in Nat, k + 1 <= Len(readme)
  PROVE  (FencesBefore(readme, k + 2) % 2 = 1)
           = ((readme[k + 1].kind = "fence") # (FencesBefore(readme, k + 1) % 2 = 1))
<1> DEFINE before == {j \in 1..((k + 1) - 1) : readme[j].kind = "fence"}
           after == {j \in 1..((k + 2) - 1) : readme[j].kind = "fence"}
<1>1. IsFiniteSet(before) /\ Cardinality(before) \in Nat
  <2>1. IsFiniteSet(1..((k + 1) - 1))
    BY FS_Interval
  <2>2. IsFiniteSet(before)
    BY <2>1, FS_Subset
  <2> QED
    BY <2>2, FS_CardinalityType
<1>2. FencesBefore(readme, k + 1) = Cardinality(before)
      /\ FencesBefore(readme, k + 2) = Cardinality(after)
  BY Zenon DEF FencesBefore
<1>3. CASE readme[k + 1].kind = "fence"
  <2>1. after = before \cup {k + 1} /\ k + 1 \notin before
    BY <1>3
  <2>2. Cardinality(after) = Cardinality(before) + 1
    BY <1>1, <2>1, FS_AddElement
  <2>3. \A c \in Nat : ((c + 1) % 2 = 1) = ~(c % 2 = 1)
    OBVIOUS
  <2> HIDE DEF before, after
  <2> QED
    BY <1>1, <1>2, <1>3, <2>2, <2>3
<1>4. CASE readme[k + 1].kind # "fence"
  <2>1. after = before
    BY <1>4
  <2> QED
    BY <1>2, <1>4, <2>1
<1> QED
  BY <1>3, <1>4

LEMMA NoFencesYet ==
  ASSUME NEW readme
  PROVE  FencesBefore(readme, 1) = 0
<1>1. {j \in 1..(1 - 1) : readme[j].kind = "fence"} = {}
  OBVIOUS
<1> QED
  BY <1>1, FS_EmptySet DEF FencesBefore

LEMMA AppendToOne ==
  ASSUME NEW x, NEW y
  PROVE  Append(<<x>>, y) = <<x, y>> /\ Append(<<>>, y) = <<y>>
<1>1. <<x>> \in Seq({x, y}) /\ Len(<<x>>) = 1 /\ y \in {x, y}
  OBVIOUS
<1>2. Append(<<x>>, y) = [i \in 1..2 |-> IF i = 2 THEN y ELSE x]
  OBVIOUS
<1>3. <<x, y>> = [i \in 1..2 |-> IF i = 2 THEN y ELSE x]
  OBVIOUS
<1>4. Append(<<>>, y) = <<y>>
  OBVIOUS
<1> QED
  BY <1>2, <1>3, <1>4, Zenon

(* The title of a heading is made of the last h1 above it.                 *)
LEMMA TitleFromAbove ==
  ASSUME NEW readme \in Seq(ReadmeLines), NEW k \in Nat, k + 1 \in HeadingsOf(readme),
         NEW s \in Readings, HoldsTitle(readme, k, s)
  PROVE  TitleOf(readme, k + 1)
           = IF readme[k + 1].kind = "h1" THEN <<readme[k + 1].text>>
             ELSE Append(s.h1, readme[k + 1].text)
<1> DEFINE above == {j \in HeadingsOf(readme) : j < k + 1 /\ readme[j].kind = "h1"}
<1>1. \A j : j \in above <=> j \in TitlesOf(readme) /\ j <= k
  BY HeadingsAreLines DEF TitlesOf
<1>2. TitleOf(readme, k + 1)
        = IF readme[k + 1].kind = "h1" \/ above = {} THEN <<readme[k + 1].text>>
          ELSE <<readme[CHOOSE j \in above : \A i \in above : i <= j].text, readme[k + 1].text>>
  BY DEF TitleOf
<1>3. CASE readme[k + 1].kind = "h1"
  BY <1>2, <1>3, Zenon
<1>4. CASE NoneOf(TitlesOf(readme), k) /\ s.h1 = <<>> /\ readme[k + 1].kind # "h1"
  <2>1. above = {}
    BY <1>1, <1>4, Zenon DEF NoneOf
  <2>2. TitleOf(readme, k + 1) = <<readme[k + 1].text>>
    BY <1>2, <2>1, Zenon
  <2> QED
    BY <1>4, <2>2, AppendToOne, Zenon
<1>5. ASSUME NEW j \in Nat, IsLastOf(j, TitlesOf(readme), k), s.h1 = <<readme[j].text>>,
             readme[k + 1].kind # "h1"
      PROVE  TitleOf(readme, k + 1) = Append(s.h1, readme[k + 1].text)
  <2>1. j \in above /\ \A i \in above : i <= j
    BY <1>1, <1>5, Zenon DEF IsLastOf
  <2>2. above \in SUBSET Nat
    BY HeadingsAreLines
  <2> HIDE DEF above
  <2>3. (CHOOSE l \in above : \A i \in above : i <= l) = j
    BY <2>1, <2>2, GreatestIsChosen
  <2>4. TitleOf(readme, k + 1) = <<readme[j].text, readme[k + 1].text>>
    BY <1>2, <1>5, <2>1, <2>3, Zenon
  <2> QED
    BY <1>5, <2>4, AppendToOne, Zenon
<1> QED
  BY <1>3, <1>4, <1>5, Zenon DEF HoldsTitle

(* What is said under the last heading ends where the next one begins.     *)
LEMMA BodyEnds ==
  ASSUME NEW readme \in Seq(ReadmeLines), NEW k \in 0..Len(readme),
         k = Len(readme) \/ k + 1 \in HeadingsOf(readme),
         NEW i, IsLastOf(i, HeadingsOf(readme), k)
  PROVE  BodyOf(readme, i) = SubSeq(readme, i + 1, k)
<1> DEFINE after == {j \in HeadingsOf(readme) : j > i}
           last == IF after = {} THEN Len(readme)
                   ELSE (CHOOSE j \in after : \A l \in after : j <= l) - 1
<1>1. /\ HeadingsOf(readme) \in SUBSET (1..Len(readme)) /\ Len(readme) \in Nat
      /\ i \in HeadingsOf(readme) /\ i <= k
      /\ \A j \in HeadingsOf(readme) : j <= k => j <= i
  BY HeadingsAreLines DEF IsLastOf
<1>2. BodyOf(readme, i) = SubSeq(readme, i + 1, last)
  BY Zenon DEF BodyOf
<1>3. CASE k = Len(readme)
  <2>1. after = {}
    BY <1>1, <1>3
  <2> QED
    BY <1>2, <1>3, <2>1, Zenon
<1>4. CASE k + 1 \in HeadingsOf(readme)
  <2>1. k + 1 \in after /\ \A l \in after : k + 1 <= l
    BY <1>1, <1>4
  <2>2. after \in SUBSET Nat
    BY <1>1
  <2>3. k \in Nat /\ (k + 1) - 1 = k
    BY <1>1
  <2> HIDE DEF after
  <2>4. (CHOOSE j \in after : \A l \in after : j <= l) = k + 1
    BY <2>1, <2>2, LeastIsChosen
  <2>5. last = k
    BY <2>1, <2>3, <2>4, Zenon
  <2> HIDE DEF last
  <2> QED
    BY <1>2, <2>5, Zenon
<1> QED
  BY <1>3, <1>4

(* A section is written when the next heading, or the end, is read.        *)
LEMMA FlushSays ==
  ASSUME NEW readme \in Seq(ReadmeLines), NEW k \in 0..Len(readme),
         k = Len(readme) \/ k + 1 \in HeadingsOf(readme),
         NEW s \in Readings, HoldsSections(readme, k, s)
  PROVE  SectionsSay(readme, k, Flush(s))
<1>1. /\ HeadingsOf(readme) \in SUBSET (1..Len(readme)) /\ Len(readme) \in Nat
      /\ k \in Nat /\ HeadingsOf(readme) \in SUBSET Nat
  BY HeadingsAreLines
<1>2. s.sections \in SectionsSoFar /\ s.title \in Seq(STRING) /\ s.body \in Seq(ReadmeLines)
  BY DEF Readings
<1>3. CASE NoneOf(HeadingsOf(readme), k) /\ s.title = <<>> /\ s.sections = <<>>
  <2>1. Flush(s) = <<>>
    BY <1>3, Zenon DEF Flush
  <2>2. Len(<<>>) = 0 /\ 1..0 = {}
    OBVIOUS
  <2>3. <<>> \in [1..0 -> HeadingsOf(readme)]
    OBVIOUS
  <2>4. SectionsSay(readme, k, <<>>)
    <3>1. /\ <<>> \in [1..Len(<<>>) -> HeadingsOf(readme)]
          /\ \A m \in 1..Len(<<>>) : FALSE
      BY <2>2, <2>3, Zenon
    <3> QED
      BY <1>3, <3>1, Zenon DEF SectionsSay, NoneOf
  <2> QED
    BY <2>1, <2>4, Zenon
<1>4. ASSUME NEW i \in Nat, IsLastOf(i, HeadingsOf(readme), k),
             s.title = TitleOf(readme, i), s.body = SubSeq(readme, i + 1, k),
             SectionsSay(readme, i - 1, s.sections)
      PROVE  SectionsSay(readme, k, Flush(s))
  <2> DEFINE n == Len(s.sections)
  <2>1. BodyOf(readme, i) = s.body
    BY <1>4, BodyEnds
  <2>2. PICK at \in [1..n -> HeadingsOf(readme)] :
          /\ \A m \in 1..n :
               /\ at[m] <= i - 1
               /\ s.sections[m].title = TitleOf(readme, at[m])
               /\ s.sections[m].body = BodyOf(readme, at[m])
               /\ s.sections[m].body # <<>>
          /\ \A l, m \in 1..n : l < m => at[l] < at[m]
          /\ \A j \in HeadingsOf(readme) : j <= i - 1 /\ BodyOf(readme, j) # <<>> =>
               \E m \in 1..n : at[m] = j
    BY <1>4, Zenon DEF SectionsSay
  <2>3. /\ i \in HeadingsOf(readme) /\ i <= k
        /\ \A j \in HeadingsOf(readme) : j <= k => j = i \/ j <= i - 1
    BY <1>1, <1>4 DEF IsLastOf
  <2>4. n \in Nat /\ s.title # <<>>
    <3>1. TitleOf(readme, i) # <<>>
      BY DEF TitleOf
    <3> QED
      BY <1>2, <1>4, <3>1 DEF SectionsSoFar
  <2>5. \A m \in 1..n : at[m] <= k
    BY <1>1, <2>2, <2>3
  <2>6. CASE s.body = <<>>
    <3>1. Flush(s) = s.sections
      BY <2>6, Zenon DEF Flush
    <3>2. \A j \in HeadingsOf(readme) : j <= k /\ BodyOf(readme, j) # <<>> =>
            \E m \in 1..n : at[m] = j
      BY <2>1, <2>2, <2>3, <2>6, Zenon
    <3>3. SectionsSay(readme, k, s.sections)
      BY <2>2, <2>5, <3>2, Zenon DEF SectionsSay
    <3> QED
      BY <3>1, <3>3, Zenon
  <2>7. CASE s.body # <<>>
    <3> DEFINE section == [title |-> s.title, body |-> s.body]
               more == Append(s.sections, section)
               where == [m \in 1..(n + 1) |-> IF m = n + 1 THEN i ELSE at[m]]
    <3>1. Flush(s) = more
      BY <2>4, <2>7, Zenon DEF Flush
    <3>2. /\ Len(more) = n + 1 /\ more[n + 1] = section
          /\ \A m \in 1..n : more[m] = s.sections[m]
      <4>1. section \in [title : Seq(STRING), body : Seq(ReadmeLines)]
        BY <1>2
      <4> HIDE DEF section
      <4> QED
        BY <1>2, <4>1 DEF SectionsSoFar
    <3>3. section.title = TitleOf(readme, i) /\ section.body = BodyOf(readme, i)
          /\ section.body # <<>>
      BY <1>4, <2>1, <2>7
    <3>4. \A m \in 1..(n + 1) : m = n + 1 \/ (m \in 1..n /\ m # n + 1)
      BY <2>4
    <3>5. n + 1 \in 1..(n + 1) /\ \A m \in 1..n : m \in 1..(n + 1) /\ m # n + 1
      BY <2>4
    <3>6. where \in [1..(n + 1) -> HeadingsOf(readme)]
      BY <2>2, <2>3, <3>4, Zenon
    <3>7. where[n + 1] = i /\ \A m \in 1..n : where[m] = at[m]
      BY <3>5, Zenon
    <3> HIDE DEF section, more, where
    <3>8. \A m \in 1..(n + 1) :
            /\ where[m] <= k
            /\ more[m].title = TitleOf(readme, where[m])
            /\ more[m].body = BodyOf(readme, where[m])
            /\ more[m].body # <<>>
      <4>1. TAKE m \in 1..(n + 1)
      <4>2. CASE m = n + 1
        BY <2>3, <3>2, <3>3, <3>7, <4>2, Zenon
      <4>3. CASE m # n + 1
        <5>1. m \in 1..n
          BY <3>4, <4>3, Zenon
        <5>2. more[m] = s.sections[m] /\ where[m] = at[m]
          BY <3>2, <3>7, <5>1, Zenon
        <5> QED
          BY <2>2, <2>5, <5>1, <5>2, Zenon
      <4> QED
        BY <4>2, <4>3
    <3>9. \A l, m \in 1..(n + 1) : l < m => where[l] < where[m]
      <4>1. TAKE l, m \in 1..(n + 1)
      <4>2. HAVE l < m
      <4>3. l \in 1..n
        BY <2>4, <4>2
      <4>4. CASE m = n + 1
        <5>1. at[l] \in Nat /\ at[l] <= i - 1
          BY <1>1, <2>2, <4>3
        <5>2. at[l] < i
          BY <5>1
        <5> QED
          BY <3>7, <4>3, <4>4, <5>2, Zenon
      <4>5. CASE m # n + 1
        BY <2>2, <3>4, <3>7, <4>2, <4>3, <4>5, Zenon
      <4> QED
        BY <4>4, <4>5
    <3>10. \A j \in HeadingsOf(readme) : j <= k /\ BodyOf(readme, j) # <<>> =>
             \E m \in 1..(n + 1) : where[m] = j
      BY <2>2, <2>3, <3>5, <3>7, Zenon
    <3>11. SectionsSay(readme, k, more)
      BY <3>2, <3>6, <3>8, <3>9, <3>10, ZenonT(60) DEF SectionsSay
    <3> QED
      BY <3>1, <3>11, Zenon
  <2> QED
    BY <2>6, <2>7
<1> QED
  BY <1>3, <1>4, Zenon DEF HoldsSections

(* The last of the first k + 1 positions of a set.                         *)
LEMMA LastGoesOn ==
  ASSUME NEW T \in SUBSET Nat, NEW k \in Nat
  PROVE  /\ k + 1 \in T => IsLastOf(k + 1, T, k + 1)
         /\ k + 1 \notin T => /\ NoneOf(T, k) => NoneOf(T, k + 1)
                              /\ \A i : IsLastOf(i, T, k) => IsLastOf(i, T, k + 1)
<1>1. \A j \in T : j <= k + 1 <=> j <= k \/ j = k + 1
  OBVIOUS
<1>2. \A j \in T : j <= k => j <= k + 1
  OBVIOUS
<1>3. k + 1 \in T => IsLastOf(k + 1, T, k + 1)
  BY DEF IsLastOf
<1> QED
  BY <1>1, <1>3, Zenon DEF IsLastOf, NoneOf

LEMMA BodyGoesOn ==
  ASSUME NEW readme \in Seq(ReadmeLines), NEW k \in Nat, k + 1 <= Len(readme),
         NEW i \in Nat, i <= k
  PROVE  Append(SubSeq(readme, i + 1, k), readme[k + 1]) = SubSeq(readme, i + 1, k + 1)
  OBVIOUS

(* split_sections keeps what it says with each line.                       *)
LEMMA ReadsOneMore ==
  ASSUME NEW readme \in Seq(ReadmeLines), NEW k \in Nat, k + 1 <= Len(readme),
         NEW s, HasRead(readme, k, s)
  PROVE  HasRead(readme, k + 1, ReadLine(s, readme[k + 1]))
<1> DEFINE headings == HeadingsOf(readme)
           titles == TitlesOf(readme)
<1>1. PICK line, t : line = readme[k + 1] /\ t = ReadLine(s, line)
  OBVIOUS
<1>2. /\ s \in Readings /\ s.fenced = (FencesBefore(readme, k + 1) % 2 = 1)
      /\ HoldsTitle(readme, k, s) /\ HoldsSections(readme, k, s)
  BY Zenon DEF HasRead
<1>3. /\ line \in ReadmeLines /\ k + 1 \in DOMAIN readme /\ k \in 0..Len(readme)
      /\ headings \in SUBSET Nat /\ titles \in SUBSET Nat
      /\ titles \in SUBSET headings
  BY <1>1, HeadingsAreLines
<1>4. k + 1 \in headings <=> IsHeading(line, s.fenced)
  BY <1>1, <1>2, <1>3, Zenon DEF HeadingsOf
<1>5. k + 1 \in titles <=> IsHeading(line, s.fenced) /\ line.kind = "h1"
  BY <1>1, <1>4, Zenon DEF TitlesOf
<1>6. (FencesBefore(readme, (k + 1) + 1) % 2 = 1) = ((line.kind = "fence") # s.fenced)
  <2>1. (k + 1) + 1 = k + 2
    OBVIOUS
  <2> QED
    BY <1>1, <1>2, <2>1, FencesAlternate, Zenon
<1>7. CASE ~IsHeading(line, s.fenced)
  <2>1. /\ t \in Readings /\ t.h1 = s.h1 /\ t.title = s.title
        /\ t.sections = s.sections /\ t.body = Append(s.body, line)
        /\ t.fenced = ((line.kind = "fence") # s.fenced)
    BY <1>1, <1>2, <1>3, <1>7, PlainLine, Zenon
  <2>2. k + 1 \notin headings /\ k + 1 \notin titles
    BY <1>4, <1>5, <1>7
  <2>3. HoldsTitle(readme, k + 1, t)
    BY <1>2, <1>3, <2>1, <2>2, LastGoesOn, Zenon DEF HoldsTitle
  <2>4. HoldsSections(readme, k + 1, t)
    <3>1. CASE NoneOf(headings, k) /\ s.title = <<>> /\ s.sections = <<>>
      <4>1. NoneOf(headings, k + 1)
        BY <1>3, <2>2, <3>1, LastGoesOn, Zenon
      <4> QED
        BY <2>1, <3>1, <4>1, Zenon DEF HoldsSections
    <3>2. ASSUME NEW i \in Nat, IsLastOf(i, headings, k), s.title = TitleOf(readme, i),
                 s.body = SubSeq(readme, i + 1, k), SectionsSay(readme, i - 1, s.sections)
          PROVE  HoldsSections(readme, k + 1, t)
      <4>1. IsLastOf(i, headings, k + 1)
        BY <1>3, <2>2, <3>2, LastGoesOn, Zenon
      <4>2. i <= k
        BY <3>2, Zenon DEF IsLastOf
      <4>3. t.body = SubSeq(readme, i + 1, k + 1)
        BY <1>1, <2>1, <3>2, <4>2, BodyGoesOn, Zenon
      <4> QED
        BY <2>1, <3>2, <4>1, <4>3, Zenon DEF HoldsSections
    <3> QED
      BY <1>2, <3>1, <3>2, Zenon DEF HoldsSections
  <2> QED
    BY <1>1, <1>6, <2>1, <2>3, <2>4, Zenon DEF HasRead
<1>8. CASE IsHeading(line, s.fenced)
  <2>1. /\ t \in Readings
        /\ t.h1 = IF line.kind = "h1" THEN <<line.text>> ELSE s.h1
        /\ t.title = IF line.kind = "h1" THEN <<line.text>> ELSE Append(s.h1, line.text)
        /\ t.sections = Flush(s) /\ t.body = <<>> /\ t.fenced = s.fenced
    BY <1>1, <1>2, <1>3, <1>8, HeadingLine, Zenon
  <2>2. k + 1 \in headings /\ IsLastOf(k + 1, headings, k + 1)
    BY <1>3, <1>4, <1>8, LastGoesOn, Zenon
  <2>3. t.title = TitleOf(readme, k + 1)
    BY <1>1, <1>2, <2>1, <2>2, TitleFromAbove, Zenon
  <2>4. HoldsTitle(readme, k + 1, t)
    <3>1. CASE line.kind = "h1"
      <4>1. IsLastOf(k + 1, titles, k + 1)
        BY <1>3, <1>5, <1>8, <3>1, LastGoesOn, Zenon
      <4> QED
        BY <1>1, <2>1, <3>1, <4>1 DEF HoldsTitle
    <3>2. CASE line.kind # "h1"
      <4>1. k + 1 \notin titles
        BY <1>5, <3>2
      <4> QED
        BY <1>2, <1>3, <2>1, <3>2, <4>1, LastGoesOn, Zenon DEF HoldsTitle
    <3> QED
      BY <3>1, <3>2
  <2>5. SectionsSay(readme, k, t.sections)
    BY <1>2, <1>3, <2>1, <2>2, FlushSays, Zenon
  <2>6. HoldsSections(readme, k + 1, t)
    <3>1. t.body = SubSeq(readme, (k + 1) + 1, k + 1)
      <4>1. SubSeq(readme, (k + 1) + 1, k + 1) = <<>>
        OBVIOUS
      <4> QED
        BY <2>1, <4>1, Zenon
    <3>2. (k + 1) - 1 = k /\ k + 1 \in Nat
      OBVIOUS
    <3> QED
      BY <2>2, <2>3, <2>5, <3>1, <3>2, Zenon DEF HoldsSections
  <2>7. t.fenced = (FencesBefore(readme, (k + 1) + 1) % 2 = 1)
    <3>1. line.kind # "fence" /\ s.fenced = FALSE
      BY <1>2, <1>8 DEF IsHeading, Readings
    <3> QED
      BY <1>6, <2>1, <3>1
  <2> QED
    BY <1>1, <2>1, <2>4, <2>6, <2>7, Zenon DEF HasRead
<1> QED
  BY <1>7, <1>8

(* split_sections returns what a README says, heading by heading.          *)
THEOREM SplitSectionsTells ==
  ASSUME NEW readme \in Seq(ReadmeLines)
  PROVE  SplitSections(readme) \in SectionsSoFar
         /\ SectionsSay(readme, Len(readme), SplitSections(readme))
<1> DEFINE n == Len(readme)
<1>1. PICK s :
        /\ s[0] = Unread
        /\ \A k \in 1..n : s[k] = ReadLine(s[k - 1], readme[k])
        /\ SplitSections(readme) = Flush(s[n])
  BY ReadsLineByLine, Zenon
<1> DEFINE T == {k \in Nat : k <= n => HasRead(readme, k, s[k])}
<1>2. n \in Nat
  OBVIOUS
<1>3. 0 \in T
  <2>1. Unread \in Readings
    BY DEF Unread, Readings, SectionsSoFar
  <2>2. /\ Unread.h1 = <<>> /\ Unread.title = <<>> /\ Unread.sections = <<>>
        /\ Unread.fenced = FALSE
    BY DEF Unread
  <2>3. NoneOf(HeadingsOf(readme), 0) /\ NoneOf(TitlesOf(readme), 0)
    BY HeadingsAreLines DEF NoneOf
  <2>4. FencesBefore(readme, 0 + 1) % 2 = 0
    BY NoFencesYet
  <2>5. HasRead(readme, 0, Unread)
    <3>1. Unread.fenced = (FencesBefore(readme, 0 + 1) % 2 = 1)
      <4>1. ~(FencesBefore(readme, 0 + 1) % 2 = 1)
        BY <2>4
      <4> QED
        BY <2>2, <4>1, Zenon
    <3> QED
      BY <2>1, <2>2, <2>3, <3>1, Zenon DEF HasRead, HoldsTitle, HoldsSections
  <2> QED
    BY <1>1, <2>5
<1>4. \A k \in T : k + 1 \in T
  <2>1. SUFFICES ASSUME NEW k \in Nat, k + 1 <= n, HasRead(readme, k, s[k])
                 PROVE  HasRead(readme, k + 1, s[k + 1])
    BY <1>2
  <2>2. k + 1 \in 1..n /\ (k + 1) - 1 = k
    BY <1>2, <2>1
  <2>3. s[k + 1] = ReadLine(s[k], readme[k + 1])
    BY <1>1, <2>2, Zenon
  <2> QED
    BY <2>1, <2>3, ReadsOneMore, Zenon
<1>5. T = Nat
  <2>1. T \in SUBSET Nat
    OBVIOUS
  <2> HIDE DEF T
  <2> QED
    BY <1>3, <1>4, <2>1, HasAllNumbers
<1>6. n \in T /\ n <= n
  BY <1>2, <1>5
<1>7. HasRead(readme, n, s[n])
  BY <1>6
<1>8. s[n] \in Readings /\ HoldsSections(readme, n, s[n])
  BY <1>7, Zenon DEF HasRead
<1>9. n \in 0..n
  BY <1>2
<1> QED
  BY <1>1, <1>8, <1>9, FlushSays, FlushTyped, Zenon

-----------------------------------------------------------------------------
USE IndexAssumption

(* A step of one command: the others' locals and places stay.              *)
Touches(p) ==
  /\ loc' = [q \in Procs |-> loc'[q]]
  /\ IsLocals(loc'[p])
  /\ \A q \in Procs \ {p} : loc'[q] = loc[q] /\ ipc'[q] = ipc[q]

(* ... within one turn.                                                    *)
SameTurn(p) ==
  /\ loc'[p].turn = loc[p].turn
  /\ loc'[p].failed = loc[p].failed
  /\ loc'[p].committed = loc[p].committed
  /\ loc'[p].unsure = loc[p].unsure

(* A command's documents with the one of its section, and with its chunks. *)
Grown(p) == [t \in DOMAIN loc[p].wrote \union {Section(p).title} |->
               IF t = Section(p).title THEN Cleared(p, Section(p)) ELSE loc[p].wrote[t]]

Chunked(p) ==
  [loc[p].wrote EXCEPT ![Section(p).title].chunks = @ \o PiecesOf(loc[p].cut)]

LEMMA GotoPlace ==
  ASSUME Typed, NEW p \in Procs, NEW where \in Places, Goto(p, where)
  PROVE  /\ ipc' \in [Procs -> Places] /\ ipc'[p] = where
         /\ \A q \in Procs \ {p} : ipc'[q] = ipc[q]
  BY DEF Typed, Goto

(* What each action does to the locals of its command, field by field.     *)
LEMMA OpenLocals ==
  ASSUME Typed, NEW p \in Procs, Open(p)
  PROVE  /\ Touches(p) /\ SameTurn(p)
         /\ loc'[p].left = Sections[loc[p].readme]
         /\ loc'[p].readme = loc[p].readme /\ loc'[p].wrote = loc[p].wrote
         /\ loc'[p].seen = loc[p].seen
<1>1. IsLocals(loc[p]) /\ DOMAIN loc = Procs
  BY Zenon DEF Typed
<1>2. loc'[p] = [[loc[p] EXCEPT !.knew = Repo(p) \in known]
                    EXCEPT !.left = Sections[loc[p].readme]]
  BY <1>1, Zenon DEF Open, Section
<1>3. \A q \in Procs \ {p} : loc'[q] = loc[q] /\ ipc'[q] = ipc[q]
  BY <1>1, Zenon DEF Open, Goto, Typed
<1>4. loc' = [q \in Procs |-> loc'[q]]
  BY <1>1, Zenon DEF Open, Typed
<1>5. IsLocals(loc'[p])
  BY <1>1, <1>2, Zenon DEF IsLocals
<1>6. SameTurn(p)
  BY <1>1, <1>2, Zenon DEF IsLocals, SameTurn
<1>7. loc'[p].left = Sections[loc[p].readme]
  BY <1>1, <1>2, Zenon DEF IsLocals
<1>8. /\ loc'[p].readme = loc[p].readme /\ loc'[p].wrote = loc[p].wrote
      /\ loc'[p].seen = loc[p].seen
  BY <1>1, <1>2, Zenon DEF IsLocals
<1> QED
  BY <1>3, <1>4, <1>5, <1>6, <1>7, <1>8, Zenon DEF Touches

LEMMA SkipSectionLocals ==
  ASSUME Typed, NEW p \in Procs, SkipSection(p)
  PROVE  /\ Touches(p) /\ SameTurn(p)
         /\ loc'[p].left = Tail(loc[p].left)
         /\ loc'[p].readme = loc[p].readme /\ loc'[p].wrote = loc[p].wrote
         /\ loc'[p].seen = loc[p].seen
<1>1. IsLocals(loc[p]) /\ DOMAIN loc = Procs
  BY Zenon DEF Typed
<1>2. loc'[p] = [loc[p] EXCEPT !.left = Tail(loc[p].left)]
  BY <1>1, Zenon DEF SkipSection, Section
<1>3. \A q \in Procs \ {p} : loc'[q] = loc[q] /\ ipc'[q] = ipc[q]
  BY <1>1, Zenon DEF SkipSection, Goto, Typed
<1>4. loc' = [q \in Procs |-> loc'[q]]
  BY <1>1, Zenon DEF SkipSection, Typed
<1>5. IsLocals(loc'[p])
  BY <1>1, <1>2, Zenon DEF IsLocals
<1>6. SameTurn(p)
  BY <1>1, <1>2, Zenon DEF IsLocals, SameTurn
<1>7. loc'[p].left = Tail(loc[p].left)
  BY <1>1, <1>2, Zenon DEF IsLocals
<1>8. /\ loc'[p].readme = loc[p].readme /\ loc'[p].wrote = loc[p].wrote
      /\ loc'[p].seen = loc[p].seen
  BY <1>1, <1>2, Zenon DEF IsLocals
<1> QED
  BY <1>3, <1>4, <1>5, <1>6, <1>7, <1>8, Zenon DEF Touches

LEMMA WriteSectionLocals ==
  ASSUME Typed, NEW p \in Procs, WriteSection(p)
  PROVE  /\ Touches(p) /\ SameTurn(p)
         /\ loc'[p].seen = loc[p].seen \union {Section(p).title}
         /\ loc'[p].wrote = Grown(p)
         /\ loc'[p].cut = StartCutting(Text[Section(p).body])
         /\ loc'[p].readme = loc[p].readme /\ loc'[p].left = loc[p].left
<1>1. IsLocals(loc[p]) /\ DOMAIN loc = Procs
  BY Zenon DEF Typed
<1>2. loc'[p] = [[[loc[p] EXCEPT !.seen = loc[p].seen \union {Section(p).title}]
                     EXCEPT !.wrote = Grown(p)]
                     EXCEPT !.cut = StartCutting(Text[Section(p).body])]
  BY <1>1, Zenon DEF WriteSection, Section, Grown
<1>3. \A q \in Procs \ {p} : loc'[q] = loc[q] /\ ipc'[q] = ipc[q]
  BY <1>1, Zenon DEF WriteSection, Goto, Typed
<1>4. loc' = [q \in Procs |-> loc'[q]]
  BY <1>1, Zenon DEF WriteSection, Typed
<1>5. IsLocals(loc'[p])
  BY <1>1, <1>2, Zenon DEF IsLocals
<1>6. SameTurn(p)
  BY <1>1, <1>2, Zenon DEF IsLocals, SameTurn
<1>7. loc'[p].seen = loc[p].seen \union {Section(p).title}
  BY <1>1, <1>2, Zenon DEF IsLocals
<1>8. loc'[p].wrote = Grown(p)
  BY <1>1, <1>2, Zenon DEF IsLocals
<1>9. loc'[p].cut = StartCutting(Text[Section(p).body])
  BY <1>1, <1>2, Zenon DEF IsLocals
<1>10. loc'[p].readme = loc[p].readme /\ loc'[p].left = loc[p].left
  BY <1>1, <1>2, Zenon DEF IsLocals
<1> QED
  BY <1>3, <1>4, <1>5, <1>6, <1>7, <1>8, <1>9, <1>10, Zenon DEF Touches

LEMMA CutPieceLocals ==
  ASSUME Typed, NEW p \in Procs, CutPiece(p)
  PROVE  /\ Touches(p) /\ SameTurn(p)
         /\ loc'[p].cut = Cut(loc[p].cut)
         /\ loc'[p].readme = loc[p].readme /\ loc'[p].left = loc[p].left
         /\ loc'[p].wrote = loc[p].wrote /\ loc'[p].seen = loc[p].seen
<1>1. IsLocals(loc[p]) /\ DOMAIN loc = Procs
  BY Zenon DEF Typed
<1>2. loc'[p] = [loc[p] EXCEPT !.cut = Cut(loc[p].cut)]
  BY <1>1, Zenon DEF CutPiece, Section
<1>3. \A q \in Procs \ {p} : loc'[q] = loc[q] /\ ipc'[q] = ipc[q]
  BY <1>1, Zenon DEF CutPiece, Goto, Typed
<1>4. loc' = [q \in Procs |-> loc'[q]]
  BY <1>1, Zenon DEF CutPiece, Typed
<1>5. IsLocals(loc'[p])
  BY <1>1, <1>2, Zenon DEF IsLocals
<1>6. SameTurn(p)
  BY <1>1, <1>2, Zenon DEF IsLocals, SameTurn
<1>7. loc'[p].cut = Cut(loc[p].cut)
  BY <1>1, <1>2, Zenon DEF IsLocals
<1>8. /\ loc'[p].readme = loc[p].readme /\ loc'[p].left = loc[p].left
      /\ loc'[p].wrote = loc[p].wrote /\ loc'[p].seen = loc[p].seen
  BY <1>1, <1>2, Zenon DEF IsLocals
<1> QED
  BY <1>3, <1>4, <1>5, <1>6, <1>7, <1>8, Zenon DEF Touches

LEMMA EmbedLocals ==
  ASSUME Typed, NEW p \in Procs, Embed(p)
  PROVE  /\ Touches(p) /\ SameTurn(p)
         /\ loc'[p].wrote = Chunked(p)
         /\ loc'[p].left = Tail(loc[p].left)
         /\ loc'[p].readme = loc[p].readme /\ loc'[p].seen = loc[p].seen
<1>1. IsLocals(loc[p]) /\ DOMAIN loc = Procs
  BY Zenon DEF Typed
<1>2. loc'[p] = [[[loc[p] EXCEPT !.wrote = Chunked(p)]
                     EXCEPT !.left = Tail(loc[p].left)]
                     EXCEPT !.cut = Nothing]
  BY <1>1, Zenon DEF Embed, Section, Chunked
<1>3. \A q \in Procs \ {p} : loc'[q] = loc[q] /\ ipc'[q] = ipc[q]
  BY <1>1, Zenon DEF Embed, Goto, Typed
<1>4. loc' = [q \in Procs |-> loc'[q]]
  BY <1>1, Zenon DEF Embed, Typed
<1>5. IsLocals(loc'[p])
  BY <1>1, <1>2, Zenon DEF IsLocals
<1>6. SameTurn(p)
  BY <1>1, <1>2, Zenon DEF IsLocals, SameTurn
<1>7. loc'[p].wrote = Chunked(p)
  BY <1>1, <1>2, Zenon DEF IsLocals
<1>8. loc'[p].left = Tail(loc[p].left)
  BY <1>1, <1>2, Zenon DEF IsLocals
<1>9. loc'[p].readme = loc[p].readme /\ loc'[p].seen = loc[p].seen
  BY <1>1, <1>2, Zenon DEF IsLocals
<1> QED
  BY <1>3, <1>4, <1>5, <1>6, <1>7, <1>8, <1>9, Zenon DEF Touches

LEMMA DeleteStaleLocals ==
  ASSUME Typed, NEW p \in Procs, DeleteStale(p)
  PROVE  /\ Touches(p) /\ SameTurn(p)
         /\ loc'[p].gone = DOMAIN stored[Repo(p)] \ loc[p].seen
         /\ loc'[p].readme = loc[p].readme /\ loc'[p].left = loc[p].left
         /\ loc'[p].wrote = loc[p].wrote /\ loc'[p].seen = loc[p].seen
<1>1. IsLocals(loc[p]) /\ DOMAIN loc = Procs
  BY Zenon DEF Typed
<1>2. loc'[p] = [loc[p] EXCEPT !.gone = DOMAIN stored[Repo(p)] \ loc[p].seen]
  BY <1>1, Zenon DEF DeleteStale, Section
<1>3. \A q \in Procs \ {p} : loc'[q] = loc[q] /\ ipc'[q] = ipc[q]
  BY <1>1, Zenon DEF DeleteStale, Goto, Typed
<1>4. loc' = [q \in Procs |-> loc'[q]]
  BY <1>1, Zenon DEF DeleteStale, Typed
<1>5. IsLocals(loc'[p])
  BY <1>1, <1>2, Zenon DEF IsLocals
<1>6. SameTurn(p)
  BY <1>1, <1>2, Zenon DEF IsLocals, SameTurn
<1>7. loc'[p].gone = DOMAIN stored[Repo(p)] \ loc[p].seen
  BY <1>1, <1>2, Zenon DEF IsLocals
<1>8. /\ loc'[p].readme = loc[p].readme /\ loc'[p].left = loc[p].left
      /\ loc'[p].wrote = loc[p].wrote /\ loc'[p].seen = loc[p].seen
  BY <1>1, <1>2, Zenon DEF IsLocals
<1> QED
  BY <1>3, <1>4, <1>5, <1>6, <1>7, <1>8, Zenon DEF Touches

LEMMA FetchLocals ==
  ASSUME Typed, NEW p \in Procs, Fetch(p)
  PROVE  /\ Touches(p) /\ SameTurn(p)
         /\ loc'[p].readme \in Readmes
         /\ loc'[p].wrote = loc[p].wrote /\ loc'[p].seen = loc[p].seen
<1>1. IsLocals(loc[p]) /\ DOMAIN loc = Procs
  BY Zenon DEF Typed
<1>2. PICK readme \in Readmes : loc' = [loc EXCEPT ![p].readme = readme]
  BY Zenon DEF Fetch
<1>3. loc'[p] = [loc[p] EXCEPT !.readme = readme]
  BY <1>1, <1>2, Zenon
<1>4. \A q \in Procs \ {p} : loc'[q] = loc[q] /\ ipc'[q] = ipc[q]
  BY <1>1, <1>2, Zenon DEF Fetch, Goto, Typed
<1>5. loc' = [q \in Procs |-> loc'[q]]
  BY <1>1, <1>2, Zenon DEF Typed
<1>6. IsLocals(loc'[p])
  BY <1>1, <1>3, Zenon DEF IsLocals
<1>7. SameTurn(p)
  BY <1>1, <1>3, Zenon DEF IsLocals, SameTurn
<1>8. loc'[p].readme \in Readmes
  BY <1>1, <1>3, Zenon DEF IsLocals
<1>9. loc'[p].wrote = loc[p].wrote /\ loc'[p].seen = loc[p].seen
  BY <1>1, <1>3, Zenon DEF IsLocals
<1> QED
  BY <1>4, <1>5, <1>6, <1>7, <1>8, <1>9, Zenon DEF Touches

(* Leaving a repository for the next one or the exit.                      *)
LEMMA NextRepoLocals ==
  ASSUME Typed, NEW p \in Procs, NEW result, NextRepo(p, result)
  PROVE  /\ Touches(p)
         /\ ipc' \in [Procs -> Places]
         /\ ipc'[p] = IF loc[p].turn = Len(Command[p]) THEN "exit" ELSE "fetch"
         /\ loc'[p].turn = IF loc[p].turn = Len(Command[p]) THEN 1 ELSE loc[p].turn + 1
         /\ loc'[p].failed = loc[p].failed
              \union (IF result = "committed" THEN {} ELSE {Repo(p)})
         /\ loc'[p].unsure = loc[p].unsure
              \union (IF result = "unsure" THEN {Repo(p)} ELSE {})
         /\ loc'[p].committed = loc[p].committed
              \union (IF result = "committed" THEN {Repo(p)} ELSE {})
         /\ loc'[p].wrote = <<>> /\ loc'[p].seen = {}
         /\ holder' = Unlocked(p)
<1> DEFINE next ==
      [turn |-> IF loc[p].turn = Len(Command[p]) THEN 1 ELSE loc[p].turn + 1,
       failed |-> loc[p].failed \union (IF result = "committed" THEN {} ELSE {Repo(p)}),
       committed |-> loc[p].committed \union (IF result = "committed" THEN {Repo(p)} ELSE {}),
       unsure |-> loc[p].unsure \union (IF result = "unsure" THEN {Repo(p)} ELSE {}),
       readme |-> Nothing, knew |-> FALSE, left |-> <<>>, seen |-> {},
       wrote |-> <<>>, gone |-> {}, cut |-> Nothing]
<1>1. DOMAIN loc = Procs
  BY Zenon DEF Typed
<1>2. loc'[p] = next
  BY <1>1, Zenon DEF NextRepo, FreshLocals
<1>3. \A q \in Procs \ {p} : loc'[q] = loc[q]
  BY <1>1, Zenon DEF NextRepo
<1>4. loc' = [q \in Procs |-> loc'[q]]
  BY <1>1, Zenon DEF NextRepo, Typed
<1>5. IsLocals(loc'[p])
  BY <1>2, Zenon DEF IsLocals
<1>6. /\ ipc' \in [Procs -> Places]
      /\ ipc'[p] = IF loc[p].turn = Len(Command[p]) THEN "exit" ELSE "fetch"
      /\ \A q \in Procs \ {p} : ipc'[q] = ipc[q]
  BY DEF NextRepo, Goto, Typed, Places
<1>7. Touches(p)
  BY <1>3, <1>4, <1>5, <1>6, Zenon DEF Touches
<1>8. holder' = Unlocked(p)
  BY Zenon DEF NextRepo
<1>9. loc'[p].turn = next.turn /\ loc'[p].failed = next.failed
      /\ loc'[p].unsure = next.unsure /\ loc'[p].committed = next.committed
      /\ loc'[p].wrote = next.wrote /\ loc'[p].seen = next.seen
  BY <1>2, Zenon
<1>10. /\ next.turn = IF loc[p].turn = Len(Command[p]) THEN 1 ELSE loc[p].turn + 1
       /\ next.failed = loc[p].failed \union (IF result = "committed" THEN {} ELSE {Repo(p)})
       /\ next.unsure = loc[p].unsure \union (IF result = "unsure" THEN {Repo(p)} ELSE {})
       /\ next.committed = loc[p].committed \union (IF result = "committed" THEN {Repo(p)} ELSE {})
       /\ next.wrote = <<>> /\ next.seen = {}
  OBVIOUS
<1> HIDE DEF next
<1> QED
  BY <1>6, <1>7, <1>8, <1>9, <1>10, Zenon

LEMMA KillLocals ==
  ASSUME Typed, NEW p \in Procs, Kill(p)
  PROVE  /\ Touches(p)
         /\ ipc' \in [Procs -> Places] /\ ipc'[p] = "killed"
         /\ loc'[p].turn = 1
         /\ loc'[p].failed = {} /\ loc'[p].unsure = {} /\ loc'[p].committed = {}
<1>1. DOMAIN loc = Procs
  BY Zenon DEF Typed
<1>2. loc'[p] = FreshLocals
  BY <1>1, Zenon DEF Kill
<1>3. \A q \in Procs \ {p} : loc'[q] = loc[q]
  BY <1>1, Zenon DEF Kill
<1>4. loc' = [q \in Procs |-> loc'[q]]
  BY <1>1, Zenon DEF Kill, Typed
<1>5. IsLocals(loc'[p])
  BY <1>2, Zenon DEF IsLocals, FreshLocals
<1>6. /\ ipc' \in [Procs -> Places] /\ ipc'[p] = "killed"
      /\ \A q \in Procs \ {p} : ipc'[q] = ipc[q]
  BY DEF Kill, Goto, Typed, Places
<1>7. /\ loc'[p].turn = 1
      /\ loc'[p].failed = {} /\ loc'[p].unsure = {} /\ loc'[p].committed = {}
  BY <1>2 DEF FreshLocals
<1> QED
  BY <1>3, <1>4, <1>5, <1>6, <1>7, Zenon DEF Touches

LEMMA RepoIsOne ==
  ASSUME NEW p \in Procs, loc[p].turn \in 1..Len(Command[p])
  PROVE  Repo(p) \in Repos
  BY DEF Repo, Repos, ToSet

(* What any step of one command keeps of the types.                        *)
LEMMA TouchedTyped ==
  ASSUME Typed, NEW p \in Procs, Touches(p)
  PROVE  loc' = [q \in Procs |-> loc'[q]] /\ \A q \in Procs : IsLocals(loc'[q])
  BY Zenon DEF Typed, Touches

LEMMA StoreTyped ==
  ASSUME Typed, NEW p \in Procs, Store(p), Repo(p) \in Repos,
         loc[p].readme \in Readmes
  PROVE  /\ stored' = [r \in Repos |-> stored'[r]]
         /\ known' \subseteq Repos
         /\ shown' \in [Repos -> Readmes \union {Nothing}]
         /\ stored'[Repo(p)] = Committed(p)
         /\ shown'[Repo(p)] = loc[p].readme
         /\ known' = known \union {Repo(p)}
         /\ \A r \in Repos \ {Repo(p)} : stored'[r] = stored[r] /\ shown'[r] = shown[r]
<1>1. stored' = [stored EXCEPT ![Repo(p)] = Committed(p)] /\ DOMAIN stored = Repos
  BY Zenon DEF Store, Typed
<1>2. shown' = [shown EXCEPT ![Repo(p)] = loc[p].readme]
      /\ shown \in [Repos -> Readmes \union {Nothing}]
  BY Zenon DEF Store, Typed
<1>3. known' = known \union {Repo(p)} /\ known \subseteq Repos
  BY Zenon DEF Store, Typed
<1>4. stored' = [r \in Repos |-> stored'[r]] /\ stored'[Repo(p)] = Committed(p)
  BY <1>1, Zenon
<1>5. shown' \in [Repos -> Readmes \union {Nothing}] /\ shown'[Repo(p)] = loc[p].readme
  BY <1>2
<1>6. \A r \in Repos \ {Repo(p)} : stored'[r] = stored[r] /\ shown'[r] = shown[r]
  BY <1>1, <1>2, Zenon
<1>7. known' \subseteq Repos
  BY <1>3
<1> QED
  BY <1>3, <1>4, <1>5, <1>6, <1>7

LEMMA UnlockedTyped ==
  ASSUME Typed, NEW p \in Procs
  PROVE  Unlocked(p) \in [Repos -> Procs \union {Nothing}]
  BY DEF Typed, Unlocked

(* Every action keeps the types.                                           *)
LEMMA TypedStep ==
  ASSUME AccountInv, NEW p \in Procs, Advance(p) \/ Fail(p) \/ Kill(p)
  PROVE  Typed' /\ Touches(p)
<1>0. Typed /\ Accounted(p)
  BY Zenon DEF AccountInv
<1>1. Repo(p) \in Repos
  BY <1>0, RepoIsOne DEF Accounted
<1>2. ASSUME Touches(p), ipc' \in [Procs -> Places], UNCHANGED <<stored, known, shown>>,
             holder' \in [Repos -> Procs \union {Nothing}]
      PROVE  Typed'
  <2>1. loc' = [q \in Procs |-> loc'[q]] /\ \A q \in Procs : IsLocals(loc'[q])
    BY <1>0, <1>2, TouchedTyped
  <2> QED
    BY <1>0, <1>2, <2>1, Zenon DEF Typed
<1>3. ASSUME Touches(p), ipc' \in [Procs -> Places], Store(p), ipc[p] = "commit",
             holder' \in [Repos -> Procs \union {Nothing}]
      PROVE  Typed'
  <2>1. loc' = [q \in Procs |-> loc'[q]] /\ \A q \in Procs : IsLocals(loc'[q])
    BY <1>0, <1>3, TouchedTyped
  <2>2. loc[p].readme \in Readmes
    BY <1>0, <1>3 DEF Accounted, Holding
  <2>3. /\ stored' = [r \in Repos |-> stored'[r]] /\ known' \subseteq Repos
        /\ shown' \in [Repos -> Readmes \union {Nothing}]
    BY <1>0, <1>1, <1>3, <2>2, StoreTyped
  <2> QED
    BY <1>3, <2>1, <2>3, Zenon DEF Typed
<1>4. ASSUME NEW result, NextRepo(p, result)
      PROVE  /\ Touches(p) /\ ipc' \in [Procs -> Places]
             /\ holder' \in [Repos -> Procs \union {Nothing}]
  BY <1>0, <1>4, NextRepoLocals, UnlockedTyped
<1>5. holder \in [Repos -> Procs \union {Nothing}] /\ ipc \in [Procs -> Places]
  BY <1>0 DEF Typed
<1>6. CASE Fetch(p)
  <2>1. Goto(p, "open") /\ UNCHANGED <<stored, known, holder, shown>>
    BY <1>6 DEF Fetch
  <2> QED
    BY <1>0, <1>2, <1>5, <1>6, <2>1, FetchLocals, GotoPlace DEF Places
<1>7. CASE Open(p)
  <2>1. Goto(p, "lock") /\ UNCHANGED <<stored, known, holder, shown>>
    BY <1>7, Zenon DEF Open
  <2> QED
    BY <1>0, <1>2, <1>5, <1>7, <2>1, OpenLocals, GotoPlace DEF Places
<1>8. CASE Lock(p)
  <2>1. Goto(p, "section") /\ UNCHANGED <<stored, known, loc, shown>>
        /\ holder' = [holder EXCEPT ![Repo(p)] = p]
    BY <1>8, Zenon DEF Lock
  <2>2. holder' \in [Repos -> Procs \union {Nothing}]
    BY <1>5, <2>1
  <2>3. ipc' \in [Procs -> Places] /\ \A q \in Procs \ {p} : ipc'[q] = ipc[q]
    BY <1>0, <2>1, GotoPlace DEF Places
  <2>4. Touches(p)
    BY <1>0, <2>1, <2>3, Zenon DEF Typed, Touches
  <2> QED
    BY <1>2, <2>1, <2>2, <2>3, <2>4
<1>9. CASE LockViolates(p)
  <2>1. NextRepo(p, "failed") /\ UNCHANGED <<stored, known, shown>>
    BY <1>9, Zenon DEF LockViolates
  <2> QED
    BY <1>2, <1>4, <2>1
<1>10. CASE SkipSection(p)
  <2>1. UNCHANGED <<stored, known, holder, ipc, shown>>
    BY <1>10, Zenon DEF SkipSection
  <2> QED
    BY <1>0, <1>2, <1>5, <1>10, <2>1, SkipSectionLocals
<1>11. CASE WriteSection(p)
  <2>1. Goto(p, "cut") /\ UNCHANGED <<stored, known, holder, shown>>
    BY <1>11, Zenon DEF WriteSection
  <2> QED
    BY <1>0, <1>2, <1>5, <1>11, <2>1, WriteSectionLocals, GotoPlace DEF Places
<1>12. CASE CutPiece(p)
  <2>1. (Goto(p, "embed") \/ UNCHANGED ipc) /\ UNCHANGED <<stored, known, holder, shown>>
    BY <1>12, Zenon DEF CutPiece
  <2>2. ipc' \in [Procs -> Places]
    BY <1>0, <1>5, <2>1, GotoPlace DEF Places
  <2> QED
    BY <1>0, <1>2, <1>5, <1>12, <2>1, <2>2, CutPieceLocals
<1>13. CASE Embed(p)
  <2>1. Goto(p, "section") /\ UNCHANGED <<stored, known, holder, shown>>
    BY <1>13, Zenon DEF Embed
  <2> QED
    BY <1>0, <1>2, <1>5, <1>13, <2>1, EmbedLocals, GotoPlace DEF Places
<1>14. CASE DeleteStale(p)
  <2>1. Goto(p, "commit") /\ UNCHANGED <<stored, known, holder, shown>>
    BY <1>14, Zenon DEF DeleteStale
  <2> QED
    BY <1>0, <1>2, <1>5, <1>14, <2>1, DeleteStaleLocals, GotoPlace DEF Places
<1>15. CASE Commit(p) \/ CommitUnheard(p)
  <2>1. ipc[p] = "commit" /\ Store(p) /\ (NextRepo(p, "committed") \/ NextRepo(p, "unsure"))
    BY <1>15, Zenon DEF Commit, CommitUnheard
  <2> QED
    BY <1>3, <1>4, <2>1, Zenon
<1>16. CASE Fail(p)
  <2>1. NextRepo(p, "failed") /\ UNCHANGED <<stored, known, shown>>
    BY <1>16, Zenon DEF Fail
  <2> QED
    BY <1>2, <1>4, <2>1
<1>17. CASE Kill(p)
  <2>1. holder' = Unlocked(p) /\ UNCHANGED <<stored, known, shown>>
    BY <1>17, Zenon DEF Kill
  <2> QED
    BY <1>0, <1>2, <1>17, <2>1, KillLocals, UnlockedTyped
<1> QED
  BY <1>6, <1>7, <1>8, <1>9, <1>10, <1>11, <1>12, <1>13, <1>14, <1>15, <1>16, <1>17
     DEF Advance

-----------------------------------------------------------------------------
(* A step within a turn, which commits nothing.                            *)
LEMMA AccountWithinTurn ==
  ASSUME AccountInv, NEW p \in Procs, Touches(p), SameTurn(p),
         ipc[p] \notin {"exit", "killed"}, ipc'[p] \notin {"exit", "killed", "fetch"},
         UNCHANGED <<known, shown>>, loc'[p].readme \in Readmes
  PROVE  \A q \in Procs : Accounted(q)' /\ Answerable(q)'
<1>1. TAKE q \in Procs
<1>2. Accounted(q) /\ Answerable(q)
  BY Zenon DEF AccountInv
<1>3. q # p => loc'[q] = loc[q] /\ ipc'[q] = ipc[q]
  BY Zenon DEF Touches
<1>4. Accounted(q)'
  <2>1. CASE q = p
    BY <1>2, <2>1 DEF Accounted, SameTurn
  <2>2. CASE q # p
    BY <1>2, <1>3, <2>2 DEF Accounted
  <2> QED
    BY <2>1, <2>2
<1>5. Answerable(q)'
  <2>1. CASE q = p
    <3>1. Alone(q)' => Alone(q)
      BY <2>1, Zenon DEF Alone, Touches
    <3> QED
      BY <1>2, <2>1, <3>1 DEF Answerable, SameTurn
  <2>2. CASE q # p
    <3>1. ~Alone(q)'
      BY <2>2 DEF Alone
    <3> QED
      BY <3>1, Zenon DEF Answerable
  <2> QED
    BY <2>1, <2>2
<1> QED
  BY <1>4, <1>5

(* A turn ends: what it came to is added to one side of the account.  No   *)
(* repository is given twice, so it is on no side yet.                     *)
LEMMA AccountEndOfTurn ==
  ASSUME AccountInv, NEW p \in Procs, NEW result \in {"failed", "unsure", "committed"},
         NextRepo(p, result), ipc[p] \notin {"exit", "killed"},
         known \subseteq known',
         \A r \in Repos : shown[r] # Nothing => shown'[r] # Nothing,
         result = "failed" => UNCHANGED shown,
         \A r \in Repos \ {Repo(p)} : shown'[r] = shown[r],
         result = "committed" => Repo(p) \in known' /\ shown'[Repo(p)] # Nothing
  PROVE  \A q \in Procs : Accounted(q)' /\ Answerable(q)'
<1> DEFINE last == loc[p].turn = Len(Command[p])
<1>1. Typed /\ Accounted(p) /\ Answerable(p)
  BY Zenon DEF AccountInv
<1>2. /\ Command[p] \in Seq(Repos) /\ Len(Command[p]) \in Nat \ {0}
      /\ DOMAIN Command[p] = 1..Len(Command[p])
      /\ loc[p].turn \in 1..Len(Command[p]) /\ loc[p].turn \in Nat \ {0}
  BY <1>1 DEF Accounted
<1>3. Repo(p) \in Repos
  BY <1>1, RepoIsOne DEF Accounted
<1>4. /\ Touches(p)
      /\ ipc'[p] = IF last THEN "exit" ELSE "fetch"
      /\ loc'[p].turn = IF last THEN 1 ELSE loc[p].turn + 1
      /\ loc'[p].failed = loc[p].failed
           \union (IF result = "committed" THEN {} ELSE {Repo(p)})
      /\ loc'[p].unsure = loc[p].unsure
           \union (IF result = "unsure" THEN {Repo(p)} ELSE {})
      /\ loc'[p].committed = loc[p].committed
           \union (IF result = "committed" THEN {Repo(p)} ELSE {})
  BY <1>1, NextRepoLocals
<1>5. loc[p].failed \union loc[p].committed = {Command[p][i] : i \in 1..(loc[p].turn - 1)}
  BY <1>1 DEF Accounted
<1>6. Repo(p) \notin loc[p].failed \union loc[p].committed
  <2>1. \A i \in 1..(loc[p].turn - 1) : Command[p][i] # Command[p][loc[p].turn]
    BY <1>2 DEF IsInjective
  <2> QED
    BY <1>5, <2>1 DEF Repo
<1>7. loc'[p].failed \union loc'[p].committed
        = {Command[p][i] : i \in 1..loc[p].turn}
  <2>1. loc'[p].failed \union loc'[p].committed
          = loc[p].failed \union loc[p].committed \union {Repo(p)}
    BY <1>4
  <2>2. {Command[p][i] : i \in 1..loc[p].turn}
          = {Command[p][i] : i \in 1..(loc[p].turn - 1)} \union {Command[p][loc[p].turn]}
    BY <1>2
  <2> QED
    BY <1>5, <2>1, <2>2 DEF Repo
<1>8. Accounted(p)'
  <2>1. loc'[p].turn \in 1..Len(Command[p])
    BY <1>2, <1>4
  <2>2. loc'[p].unsure \subseteq loc'[p].failed
    BY <1>1, <1>4 DEF Accounted
  <2>3. loc'[p].failed \intersect loc'[p].committed = {}
    BY <1>1, <1>4, <1>6 DEF Accounted
  <2>5. loc'[p].failed \union loc'[p].committed =
          IF ipc'[p] = "exit" THEN ToSet(Command[p])
          ELSE IF ipc'[p] = "killed" THEN {}
          ELSE {Command[p][i] : i \in 1..(loc'[p].turn - 1)}
    <3>1. CASE last
      <4>1. ToSet(Command[p]) = {Command[p][i] : i \in 1..loc[p].turn}
        BY <1>2, <3>1 DEF ToSet
      <4> QED
        BY <1>4, <1>7, <3>1, <4>1
    <3>2. CASE ~last
      <4>1. loc'[p].turn - 1 = loc[p].turn
        BY <1>2, <1>4, <3>2
      <4> QED
        BY <1>4, <1>7, <3>2, <4>1
    <3> QED
      BY <3>1, <3>2
  <2>6. ipc'[p] \notin {"open", "lock"} \union Holding
    BY <1>4 DEF Holding
  <2>7. \A r \in loc'[p].committed : r \in known' /\ shown'[r] # Nothing
    <3>1. TAKE r \in loc'[p].committed
    <3>2. CASE r \in loc[p].committed
      <4>1. r \in known /\ shown[r] # Nothing
        BY <1>1, <3>2 DEF Accounted
      <4>2. r \in Repos
        BY <1>1, <4>1 DEF Typed
      <4> QED
        BY <4>1, <4>2
    <3>3. CASE r \notin loc[p].committed
      <4>1. r = Repo(p) /\ result = "committed"
        BY <1>4, <3>1, <3>3
      <4> QED
        BY <4>1
    <3> QED
      BY <3>2, <3>3
  <2> QED
    BY <2>1, <2>2, <2>3, <2>5, <2>6, <2>7 DEF Accounted
<1>9. Answerable(p)'
  <2>1. SUFFICES ASSUME Alone(p)', NEW r \in Repos, shown'[r] # Nothing
                 PROVE  r \in loc'[p].committed \union loc'[p].unsure
    BY Zenon DEF Answerable
  <2>2. Alone(p)
    BY <1>4, <2>1, Zenon DEF Alone, Touches
  <2>3. CASE shown[r] # Nothing
    BY <1>1, <1>4, <2>2, <2>3 DEF Answerable
  <2>4. CASE shown[r] = Nothing
    <3>1. r = Repo(p) /\ result # "failed"
      BY <2>1, <2>4
    <3> QED
      BY <1>4, <3>1
  <2> QED
    BY <2>3, <2>4
<1>10. ASSUME NEW q \in Procs, q # p PROVE Accounted(q)' /\ Answerable(q)'
  <2>1. loc'[q] = loc[q] /\ ipc'[q] = ipc[q] /\ Accounted(q)
    BY <1>4, <1>10, Zenon DEF Touches, AccountInv
  <2>2. \A r \in loc[q].committed : r \in known' /\ shown'[r] # Nothing
    BY <1>1, <2>1 DEF Typed, Accounted
  <2>3. Accounted(q)'
    BY <2>1, <2>2 DEF Accounted
  <2>4. ~(loc'[p].turn = 1 /\ ipc'[p] = "fetch")
    BY <1>2, <1>4
  <2>5. ~Alone(q)'
    BY <1>10, <2>4 DEF Alone
  <2> QED
    BY <2>3, <2>5, Zenon DEF Answerable
<1> QED
  BY <1>8, <1>9, <1>10

LEMMA AccountKill ==
  ASSUME AccountInv, NEW p \in Procs, Kill(p)
  PROVE  \A q \in Procs : Accounted(q)' /\ Answerable(q)'
<1>1. /\ Touches(p) /\ ipc'[p] = "killed" /\ loc'[p].turn = 1
      /\ loc'[p].failed = {} /\ loc'[p].unsure = {} /\ loc'[p].committed = {}
  BY KillLocals, Zenon DEF AccountInv
<1>2. UNCHANGED <<known, shown>>
  BY Zenon DEF Kill
<1>3. Accounted(p)'
  <2>1. 1 \in 1..Len(Command[p])
    OBVIOUS
  <2> QED
    BY <1>1, <2>1 DEF Accounted, Holding
<1>4. Answerable(p)'
  BY <1>1, Zenon DEF Answerable
<1>5. ASSUME NEW q \in Procs, q # p PROVE Accounted(q)' /\ Answerable(q)'
  <2>1. loc'[q] = loc[q] /\ ipc'[q] = ipc[q] /\ Accounted(q)
    BY <1>1, <1>5, Zenon DEF Touches, AccountInv
  <2>2. Accounted(q)'
    BY <1>2, <2>1 DEF Accounted
  <2>3. ~Alone(q)'
    BY <1>1, <1>5 DEF Alone
  <2> QED
    BY <2>2, <2>3, Zenon DEF Answerable
<1> QED
  BY <1>3, <1>4, <1>5

LEMMA AccountStep ==
  ASSUME AccountInv, NEW p \in Procs, Advance(p) \/ Fail(p) \/ Kill(p)
  PROVE  AccountInv'
<1>1. Typed /\ Accounted(p) /\ Typed' /\ Touches(p)
  BY TypedStep, Zenon DEF AccountInv
<1>2. SUFFICES \A q \in Procs : Accounted(q)' /\ Answerable(q)'
  BY <1>1, Zenon DEF AccountInv
<1>3. ASSUME NEW where \in {"open", "lock", "section", "cut", "embed", "commit"}, ipc'[p] = where,
             ipc[p] \notin {"exit", "killed"}, SameTurn(p), UNCHANGED <<known, shown>>,
             loc'[p].readme \in Readmes
      PROVE  \A q \in Procs : Accounted(q)' /\ Answerable(q)'
  <2>1. ipc'[p] \notin {"exit", "killed", "fetch"}
    BY <1>3
  <2> QED
    BY <1>1, <1>3, <2>1, AccountWithinTurn
<1>4. ipc[p] \in {"open", "lock"} \union Holding => loc[p].readme \in Readmes
  BY <1>1 DEF Accounted
<1>5. CASE Fetch(p)
  <2>1. ipc[p] = "fetch" /\ Goto(p, "open") /\ UNCHANGED <<stored, known, holder, shown>>
    BY <1>5 DEF Fetch
  <2>2. ipc'[p] = "open"
    BY <1>1, <2>1, GotoPlace DEF Places
  <2> QED
    BY <1>1, <1>3, <1>5, <2>1, <2>2, FetchLocals
<1>6. CASE Open(p)
  <2>1. ipc[p] = "open" /\ Goto(p, "lock") /\ UNCHANGED <<stored, known, holder, shown>>
    BY <1>6, Zenon DEF Open
  <2>2. ipc'[p] = "lock"
    BY <1>1, <2>1, GotoPlace DEF Places
  <2> QED
    BY <1>1, <1>3, <1>4, <1>6, <2>1, <2>2, OpenLocals
<1>7. CASE Lock(p)
  <2>1. ipc[p] = "lock" /\ Goto(p, "section") /\ UNCHANGED <<stored, known, loc, shown>>
    BY <1>7, Zenon DEF Lock
  <2>2. ipc'[p] = "section"
    BY <1>1, <2>1, GotoPlace DEF Places
  <2>3. SameTurn(p) /\ loc'[p].readme \in Readmes
    BY <1>4, <2>1 DEF SameTurn
  <2> QED
    BY <1>3, <2>1, <2>2, <2>3
<1>8. CASE SkipSection(p)
  <2>1. ipc[p] = "section" /\ UNCHANGED <<stored, known, holder, ipc, shown>>
    BY <1>8, Zenon DEF SkipSection
  <2>2. loc[p].readme \in Readmes
    BY <1>4, <2>1 DEF Holding
  <2> QED
    BY <1>1, <1>3, <1>8, <2>1, <2>2, SkipSectionLocals
<1>9. CASE WriteSection(p)
  <2>1. ipc[p] = "section" /\ Goto(p, "cut") /\ UNCHANGED <<stored, known, holder, shown>>
    BY <1>9, Zenon DEF WriteSection
  <2>2. ipc'[p] = "cut"
    BY <1>1, <2>1, GotoPlace DEF Places
  <2>3. loc[p].readme \in Readmes
    BY <1>4, <2>1 DEF Holding
  <2> QED
    BY <1>1, <1>3, <1>9, <2>1, <2>2, <2>3, WriteSectionLocals
<1>10. CASE CutPiece(p)
  <2>1. /\ ipc[p] = "cut" /\ (Goto(p, "embed") \/ UNCHANGED ipc)
        /\ UNCHANGED <<stored, known, holder, shown>>
    BY <1>10, Zenon DEF CutPiece
  <2>2. ipc'[p] = "cut" \/ ipc'[p] = "embed"
    BY <1>1, <2>1, GotoPlace DEF Places
  <2>3. loc[p].readme \in Readmes
    BY <1>4, <2>1 DEF Holding
  <2> QED
    BY <1>1, <1>3, <1>10, <2>1, <2>2, <2>3, CutPieceLocals
<1>11. CASE Embed(p)
  <2>1. ipc[p] = "embed" /\ Goto(p, "section") /\ UNCHANGED <<stored, known, holder, shown>>
    BY <1>11, Zenon DEF Embed
  <2>2. ipc'[p] = "section"
    BY <1>1, <2>1, GotoPlace DEF Places
  <2>3. loc[p].readme \in Readmes
    BY <1>4, <2>1 DEF Holding
  <2> QED
    BY <1>1, <1>3, <1>11, <2>1, <2>2, <2>3, EmbedLocals
<1>12. CASE DeleteStale(p)
  <2>1. ipc[p] = "section" /\ Goto(p, "commit") /\ UNCHANGED <<stored, known, holder, shown>>
    BY <1>12, Zenon DEF DeleteStale
  <2>2. ipc'[p] = "commit"
    BY <1>1, <2>1, GotoPlace DEF Places
  <2>3. loc[p].readme \in Readmes
    BY <1>4, <2>1 DEF Holding
  <2> QED
    BY <1>1, <1>3, <1>12, <2>1, <2>2, <2>3, DeleteStaleLocals
<1>13. ASSUME NEW result \in {"unsure", "committed"}, ipc[p] = "commit", Store(p),
              NextRepo(p, result)
       PROVE  \A q \in Procs : Accounted(q)' /\ Answerable(q)'
  <2>1. loc[p].readme \in Readmes /\ Repo(p) \in Repos
    BY <1>1, <1>4, <1>13, RepoIsOne DEF Holding, Accounted
  <2>2. /\ shown'[Repo(p)] = loc[p].readme
        /\ known' = known \union {Repo(p)}
        /\ \A r \in Repos \ {Repo(p)} : shown'[r] = shown[r]
    BY <1>1, <1>13, <2>1, StoreTyped
  <2>3. loc[p].readme # Nothing
    BY <2>1
  <2>4. \A r \in Repos : shown[r] # Nothing => shown'[r] # Nothing
    BY <2>2, <2>3
  <2> QED
    BY <1>13, <2>2, <2>3, <2>4, AccountEndOfTurn
<1>14. CASE Commit(p)
  BY <1>13, <1>14, Zenon DEF Commit
<1>15. CASE CommitUnheard(p)
  BY <1>13, <1>15, Zenon DEF CommitUnheard
<1>16. CASE LockViolates(p) \/ Fail(p)
  <2>1. NextRepo(p, "failed") /\ UNCHANGED <<stored, known, shown>>
    BY <1>16, Zenon DEF LockViolates, Fail
  <2>2. ipc[p] \notin {"exit", "killed"}
    BY <1>16 DEF LockViolates, Fail, Raises
  <2> QED
    BY <2>1, <2>2, AccountEndOfTurn
<1>17. CASE Kill(p)
  BY <1>17, AccountKill
<1> QED
  BY <1>5, <1>6, <1>7, <1>8, <1>9, <1>10, <1>11, <1>12, <1>14, <1>15, <1>16, <1>17
     DEF Advance

LEMMA AccountInit ==
  ASSUME IndexInit
  PROVE  AccountInv
<1>1. \A p \in Procs : loc[p] = FreshLocals /\ ipc[p] = "fetch"
  BY DEF IndexInit
<1>2. \A p \in Procs : IsLocals(loc[p])
  <2>1. TAKE p \in Procs
  <2>2. loc[p] = FreshLocals
    BY <1>1
  <2> QED
    BY <2>2, Zenon DEF FreshLocals, IsLocals
<1>3. Typed
  <2>1. stored = [r \in Repos |-> stored[r]] /\ loc = [p \in Procs |-> loc[p]]
    BY Zenon DEF IndexInit
  <2>2. /\ known \subseteq Repos /\ holder \in [Repos -> Procs \union {Nothing}]
        /\ ipc \in [Procs -> Places] /\ shown \in [Repos -> Readmes \union {Nothing}]
    BY DEF IndexInit, Places
  <2> QED
    BY <1>2, <2>1, <2>2, Zenon DEF Typed
<1>4. \A p \in Procs : /\ loc[p].turn = 1 /\ loc[p].failed = {} /\ loc[p].unsure = {}
                       /\ loc[p].committed = {}
  BY <1>1 DEF FreshLocals
<1>5. \A p \in Procs : Accounted(p)
  <2>1. TAKE p \in Procs
  <2>2. 1 \in 1..Len(Command[p]) /\ 1..(1 - 1) = {}
    OBVIOUS
  <2>3. {Command[p][i] : i \in 1..(loc[p].turn - 1)} = {}
    BY <1>4, <2>2
  <2> QED
    BY <1>1, <1>4, <2>2, <2>3 DEF Accounted, Holding
<1>6. \A p \in Procs : Answerable(p)
  BY DEF Answerable, IndexInit
<1> QED
  BY <1>3, <1>5, <1>6, Zenon DEF AccountInv

THEOREM IndexAccounts == IndexSpec => []AccountInv
<1>1. IndexInit => AccountInv
  BY AccountInit
<1>2. AccountInv /\ [IndexNext]_indexVars => AccountInv'
  <2>1. SUFFICES ASSUME AccountInv, [IndexNext]_indexVars PROVE AccountInv'
    OBVIOUS
  <2>2. CASE IndexNext
    BY <2>1, <2>2, AccountStep, Zenon DEF IndexNext
  <2>3. CASE UNCHANGED indexVars
    BY <2>1, <2>3 DEF indexVars, AccountInv, Typed, Accounted, Answerable, Alone
  <2> QED
    BY <2>1, <2>2, <2>3
<1> QED
  BY <1>1, <1>2, PTL DEF IndexSpec

(* The exit code of an index command can be believed: what it is given is  *)
(* accounted for, repository by repository, and unless a COMMIT was lost   *)
(* or another command ran, what failed was left alone.                     *)
THEOREM IndexExitHonest == IndexSpec => []ExitHonest
<1>1. AccountInv => ExitHonest
  <2>1. SUFFICES ASSUME AccountInv, NEW p \in Procs, ipc[p] = "exit"
                 PROVE  /\ loc[p].failed \union loc[p].committed = ToSet(Command[p])
                        /\ loc[p].failed \intersect loc[p].committed = {}
                        /\ \A r \in loc[p].committed : r \in known /\ shown[r] # Nothing
                        /\ (\A q \in Procs \ {p} : loc[q] = FreshLocals /\ ipc[q] = "fetch") =>
                             \A r \in loc[p].failed \ loc[p].unsure : shown[r] = Nothing
    BY Zenon DEF ExitHonest
  <2>2. Accounted(p) /\ Answerable(p)
    BY <2>1, Zenon DEF AccountInv
  <2>3. /\ loc[p].failed \union loc[p].committed = ToSet(Command[p])
        /\ loc[p].failed \intersect loc[p].committed = {}
        /\ \A r \in loc[p].committed : r \in known /\ shown[r] # Nothing
    BY <2>1, <2>2 DEF Accounted
  <2>4. ASSUME \A q \in Procs \ {p} : loc[q] = FreshLocals /\ ipc[q] = "fetch",
               NEW r \in loc[p].failed \ loc[p].unsure
        PROVE  shown[r] = Nothing
    <3>1. Alone(p)
      BY <2>4 DEF Alone, FreshLocals
    <3>2. r \in Repos
      <4>1. PICK i \in DOMAIN Command[p] : r = Command[p][i]
        BY <2>3, <2>4 DEF ToSet
      <4> QED
        BY <4>1
    <3>3. shown[r] # Nothing => r \in loc[p].committed \union loc[p].unsure
      BY <2>1, <2>2, <3>1, <3>2 DEF Answerable
    <3> QED
      BY <2>3, <2>4, <3>3
  <2> QED
    BY <2>3, <2>4
<1> QED
  BY <1>1, IndexAccounts, PTL

-----------------------------------------------------------------------------
(* The first n sections and no document yet, one section more, or the same *)
(* contents under other chunks.                                            *)
LEMMA TellsNone ==
  ASSUME NEW sections
  PROVE  TellsFirst(sections, 0, <<>>)
<1>1. 1..0 = {} /\ DOMAIN <<>> = {}
  OBVIOUS
<1> QED
  BY <1>1, Zenon DEF TellsFirst

LEMMA TellsSkipped ==
  ASSUME NEW sections \in Seq(SectionSet), NEW n \in Nat, n < Len(sections), NEW docs,
         TellsFirst(sections, n, docs), IsTemplateOnly(sections[n + 1].body)
  PROVE  TellsFirst(sections, n + 1, docs)
<1>1. \A i \in 1..(n + 1) : i \in 1..n \/ i = n + 1
  OBVIOUS
<1>2. \A i \in 1..(n + 1) :
        ~IsTemplateOnly(sections[i].body) => sections[i].title \in DOMAIN docs
  BY <1>1 DEF TellsFirst
<1>3. \A t \in DOMAIN docs : \E i \in 1..(n + 1) :
        /\ sections[i].title = t /\ ~IsTemplateOnly(sections[i].body)
        /\ docs[t].content = sections[i].body
        /\ \A j \in (i + 1)..(n + 1) : sections[j].title = t => IsTemplateOnly(sections[j].body)
  <2>1. TAKE t \in DOMAIN docs
  <2>2. PICK i \in 1..n :
          /\ sections[i].title = t /\ ~IsTemplateOnly(sections[i].body)
          /\ docs[t].content = sections[i].body
          /\ \A j \in (i + 1)..n : sections[j].title = t => IsTemplateOnly(sections[j].body)
    BY Zenon DEF TellsFirst
  <2>3. \A j \in (i + 1)..(n + 1) : j \in (i + 1)..n \/ j = n + 1
    OBVIOUS
  <2>4. i \in 1..(n + 1)
    OBVIOUS
  <2> QED
    BY <2>2, <2>3, <2>4, Zenon
<1> QED
  BY <1>2, <1>3, Zenon DEF TellsFirst

LEMMA TellsWritten ==
  ASSUME NEW sections \in Seq(SectionSet), NEW n \in Nat, n < Len(sections), NEW docs,
         TellsFirst(sections, n, docs), ~IsTemplateOnly(sections[n + 1].body), NEW grown,
         DOMAIN grown = DOMAIN docs \union {sections[n + 1].title},
         grown[sections[n + 1].title].content = sections[n + 1].body,
         \A t \in DOMAIN docs \ {sections[n + 1].title} : grown[t] = docs[t]
  PROVE  TellsFirst(sections, n + 1, grown)
<1> DEFINE title == sections[n + 1].title
<1>1. /\ DOMAIN grown = DOMAIN docs \union {title}
      /\ grown[title].content = sections[n + 1].body
      /\ \A t \in DOMAIN docs \ {title} : grown[t] = docs[t]
  BY Zenon
<1>2. \A i \in 1..(n + 1) : i \in 1..n \/ i = n + 1
  OBVIOUS
<1>3. \A i \in 1..(n + 1) :
        ~IsTemplateOnly(sections[i].body) => sections[i].title \in DOMAIN grown
  BY <1>1, <1>2, Zenon DEF TellsFirst
<1>4. \A t \in DOMAIN grown : \E i \in 1..(n + 1) :
        /\ sections[i].title = t /\ ~IsTemplateOnly(sections[i].body)
        /\ grown[t].content = sections[i].body
        /\ \A j \in (i + 1)..(n + 1) : sections[j].title = t => IsTemplateOnly(sections[j].body)
  <2>1. TAKE t \in DOMAIN grown
  <2>2. CASE t = title
    <3>1. n + 1 \in 1..(n + 1) /\ ((n + 1) + 1)..(n + 1) = {}
      OBVIOUS
    <3> QED
      BY <1>1, <2>2, <3>1, Zenon
  <2>3. CASE t # title
    <3>1. t \in DOMAIN docs /\ grown[t] = docs[t]
      BY <1>1, <2>1, <2>3, Zenon
    <3>2. PICK i \in 1..n :
            /\ sections[i].title = t /\ ~IsTemplateOnly(sections[i].body)
            /\ docs[t].content = sections[i].body
            /\ \A j \in (i + 1)..n : sections[j].title = t => IsTemplateOnly(sections[j].body)
      BY <3>1, Zenon DEF TellsFirst
    <3>3. \A j \in (i + 1)..(n + 1) : j \in (i + 1)..n \/ j = n + 1
      OBVIOUS
    <3>4. i \in 1..(n + 1)
      OBVIOUS
    <3> QED
      BY <2>3, <3>1, <3>2, <3>3, <3>4, Zenon
  <2> QED
    BY <2>2, <2>3
<1> QED
  BY <1>3, <1>4, Zenon DEF TellsFirst

LEMMA TellsAlike ==
  ASSUME NEW sections, NEW n, NEW docs, TellsFirst(sections, n, docs), NEW others,
         DOMAIN others = DOMAIN docs, \A t \in DOMAIN docs : others[t].content = docs[t].content
  PROVE  TellsFirst(sections, n, others)
<1>1. \A i \in 1..n : ~IsTemplateOnly(sections[i].body) => sections[i].title \in DOMAIN others
  BY Zenon DEF TellsFirst
<1>2. \A t \in DOMAIN others : \E i \in 1..n :
        /\ sections[i].title = t /\ ~IsTemplateOnly(sections[i].body)
        /\ others[t].content = sections[i].body
        /\ \A j \in (i + 1)..n : sections[j].title = t => IsTemplateOnly(sections[j].body)
  <2>1. TAKE t \in DOMAIN others
  <2>2. t \in DOMAIN docs /\ others[t].content = docs[t].content
    BY Zenon
  <2>3. PICK i \in 1..n :
          /\ sections[i].title = t /\ ~IsTemplateOnly(sections[i].body)
          /\ docs[t].content = sections[i].body
          /\ \A j \in (i + 1)..n : sections[j].title = t => IsTemplateOnly(sections[j].body)
    BY <2>2, Zenon DEF TellsFirst
  <2> QED
    BY <2>2, <2>3, Zenon
<1> QED
  BY <1>1, <1>2, Zenon DEF TellsFirst

-----------------------------------------------------------------------------
USE TextAssumption

LEMMA SectionsTyped ==
  ASSUME NEW readme \in Readmes
  PROVE  Sections[readme] \in Seq(SectionSet) /\ Len(Sections[readme]) \in Nat
<1>1. Sections[readme] \in Seq(SectionSet)
  BY Zenon DEF SectionSet
<1> QED
  BY <1>1

(* The section a command is at is the first one it has not come to.        *)
LEMMA SectionIsNext ==
  ASSUME NEW p \in Procs, loc[p].readme \in Readmes, Reading(p), loc[p].left # <<>>
  PROVE  LET sections == Sections[loc[p].readme]
             n == Len(sections) - Len(loc[p].left)
         IN /\ n \in Nat /\ n < Len(sections)
            /\ Section(p) = sections[n + 1] /\ Section(p) \in SectionSet
            /\ Tail(loc[p].left) \in Seq(SectionSet)
            /\ Len(Tail(loc[p].left)) = Len(loc[p].left) - 1
            /\ Len(loc[p].left) \in Nat
            /\ \A i \in 1..Len(Tail(loc[p].left)) :
                 Tail(loc[p].left)[i] =
                   sections[Len(sections) - Len(Tail(loc[p].left)) + i]
<1> DEFINE sections == Sections[loc[p].readme]
           left == loc[p].left
<1>1. sections \in Seq(SectionSet) /\ Len(sections) \in Nat
  BY SectionsTyped
<1>2. /\ left \in Seq(SectionSet) /\ Len(left) <= Len(sections) /\ left # <<>>
      /\ \A i \in 1..Len(left) : left[i] = sections[Len(sections) - Len(left) + i]
  BY Zenon DEF Reading
<1> HIDE DEF sections, left
<1>3. /\ Len(left) \in Nat \ {0} /\ Head(left) = left[1] /\ left[1] \in SectionSet
      /\ Tail(left) \in Seq(SectionSet) /\ Len(Tail(left)) = Len(left) - 1
      /\ \A i \in 1..Len(Tail(left)) : Tail(left)[i] = left[i + 1]
  BY <1>2
<1>4. /\ Len(sections) - Len(left) \in Nat /\ Len(sections) - Len(left) < Len(sections)
      /\ left[1] = sections[Len(sections) - Len(left) + 1]
  BY <1>1, <1>2, <1>3
<1>5. \A i \in 1..Len(Tail(left)) :
        Tail(left)[i] = sections[Len(sections) - Len(Tail(left)) + i]
  <2>1. TAKE i \in 1..Len(Tail(left))
  <2>2. i + 1 \in 1..Len(left)
    BY <1>3
  <2>3. Tail(left)[i] = sections[Len(sections) - Len(left) + (i + 1)]
    BY <1>2, <1>3, <2>2
  <2>4. Len(sections) - Len(left) + (i + 1) = Len(sections) - Len(Tail(left)) + i
    BY <1>1, <1>3
  <2> QED
    BY <2>3, <2>4
<1> QED
  BY <1>3, <1>4, <1>5 DEF Section, sections, left

(* What one command writes, another one's transaction does not touch.      *)
LEMMA OthersWriting ==
  ASSUME NEW p \in Procs, NEW q \in Procs, q # p, Writing(q), Touches(p),
         ipc[q] \in Holding =>
           holder'[Repo(q)] = holder[Repo(q)] /\ stored'[Repo(q)] = stored[Repo(q)]
  PROVE  Writing(q)'
<1>1. loc'[q] = loc[q] /\ ipc'[q] = ipc[q]
  BY Zenon DEF Touches
<1>2. Repo(q)' = Repo(q) /\ Section(q)' = Section(q) /\ Read(q)' = Read(q)
  BY <1>1 DEF Repo, Section, Read
<1>3. ipc[q] \in Holding => Reading(q)' /\ Telling(q)'
  BY <1>1, <1>2, Zenon DEF Writing, Reading, Telling
<1>4. ipc[q] \in {"cut", "embed"} => Cutting(q)'
  BY <1>1, <1>2, Zenon DEF Writing, Cutting
<1>5. ipc[q] = "commit" => loc[q].left = <<>>
                          /\ loc[q].gone = DOMAIN stored'[Repo(q)] \ loc[q].seen
  BY DEF Writing, Holding
<1> QED
  BY <1>1, <1>2, <1>3, <1>4, <1>5, Zenon DEF Writing

(* A command with no transaction, or before its first statement.           *)
LEMMA NotWriting ==
  ASSUME NEW p \in Procs, ipc'[p] \in {"fetch", "open", "lock", "exit", "killed"},
         ipc'[p] = "lock" => loc'[p].left = Sections[loc'[p].readme],
         ipc'[p] \in {"fetch", "open", "lock"} => loc'[p].wrote = <<>> /\ loc'[p].seen = {}
  PROVE  Writing(p)'
<1>1. ipc'[p] \notin Holding
  BY DEF Holding
<1>2. ipc'[p] \notin {"section", "commit"} /\ ipc'[p] \notin {"cut", "embed"} /\ ipc'[p] # "commit"
  OBVIOUS
<1> QED
  BY <1>1, <1>2, Zenon DEF Writing

(* A step that stores nothing.                                             *)
LEMMA NothingStored ==
  ASSUME StoredIsTold, UNCHANGED <<stored, shown>>
  PROVE  StoredIsTold'
  BY Zenon DEF StoredIsTold

(* Two transactions never write the same repository.                       *)
LEMMA OneWriter ==
  ASSUME NEW p \in Procs, NEW q \in Procs, p # q, ipc[p] \in Holding, ipc[q] \in Holding,
         Writing(p), Writing(q)
  PROVE  Repo(p) # Repo(q)
  BY Zenon DEF Writing, Reading

LEMMA UnlockKeepsOthers ==
  ASSUME AccountInv, NEW p \in Procs, NEW q \in Procs, q # p, Writing(q), ipc[q] \in Holding,
         holder' = Unlocked(p)
  PROVE  holder'[Repo(q)] = holder[Repo(q)]
<1>1. Repo(q) \in Repos
  BY RepoIsOne, Zenon DEF AccountInv, Accounted
<1>2. holder[Repo(q)] = q
  BY Zenon DEF Writing, Reading
<1> QED
  BY <1>1, <1>2 DEF Unlocked

(* COMMIT: what is stored is what the transaction wrote; the rest was      *)
(* deleted, and nothing came in since, for the row was locked.             *)
LEMMA StoreTells ==
  ASSUME AccountInv, DocumentInv, NEW p \in Procs, ipc[p] = "commit", Store(p)
  PROVE  /\ StoredIsTold'
         /\ \A q \in Procs \ {p} : ipc[q] \in Holding => stored'[Repo(q)] = stored[Repo(q)]
<1> DEFINE sections == Sections[loc[p].readme]
           old == stored[Repo(p)]
           wrote == loc[p].wrote
<1>1. Typed /\ Accounted(p) /\ Writing(p) /\ StoredIsTold
  BY Zenon DEF AccountInv, DocumentInv
<1>2. ipc[p] \in Holding /\ ipc[p] \notin {"cut", "embed"}
  BY DEF Holding
<1>3. loc[p].readme \in Readmes /\ Repo(p) \in Repos /\ loc[p].readme # Nothing
  BY <1>1, <1>2, RepoIsOne DEF Accounted
<1>4. /\ stored'[Repo(p)] = Committed(p)
      /\ shown'[Repo(p)] = loc[p].readme
      /\ \A r \in Repos \ {Repo(p)} : stored'[r] = stored[r] /\ shown'[r] = shown[r]
  BY <1>1, <1>3, StoreTyped
<1>5. loc[p].left = <<>> /\ loc[p].gone = DOMAIN old \ loc[p].seen /\ loc[p].seen = DOMAIN wrote
  BY <1>1, <1>2, Zenon DEF Writing, Telling
<1>6. Committed(p) = [t \in (DOMAIN old \ loc[p].gone) \union DOMAIN wrote |->
                        IF t \in DOMAIN wrote THEN wrote[t] ELSE old[t]]
  BY Zenon DEF Committed
<1>7. (DOMAIN old \ loc[p].gone) \union DOMAIN wrote = DOMAIN wrote
  BY <1>5
<1>8. DOMAIN Committed(p) = DOMAIN wrote /\ \A t \in DOMAIN wrote : Committed(p)[t] = wrote[t]
  BY <1>6, <1>7, Zenon
<1>9. TellsFirst(sections, Len(sections), Committed(p))
  <2>1. Len(sections) \in Nat /\ Len(loc[p].left) = 0
    BY <1>3, <1>5, SectionsTyped
  <2>2. Read(p) = Len(sections)
    BY <1>2, <2>1 DEF Read
  <2>3. TellsFirst(sections, Len(sections), wrote)
    BY <1>1, <1>2, <2>2 DEF Writing, Telling
  <2> HIDE DEF sections, wrote
  <2> QED
    BY <1>8, <2>3, TellsAlike
<1>10. \A t \in DOMAIN Committed(p) : IsDoc(Committed(p)[t]) /\ IsCut(Committed(p)[t])
  <2>1. \A t \in DOMAIN wrote : IsDoc(wrote[t]) /\ IsCut(wrote[t])
    BY <1>1, <1>2 DEF Writing, Telling
  <2> QED
    BY <1>8, <2>1
<1>11. StoredIsTold'
  <2>1. SUFFICES ASSUME NEW r \in Repos
                 PROVE  IF shown'[r] = Nothing THEN stored'[r] = <<>>
                        ELSE /\ TellsFirst(Sections[shown'[r]], Len(Sections[shown'[r]]),
                                           stored'[r])
                             /\ \A t \in DOMAIN stored'[r] :
                                  IsDoc(stored'[r][t]) /\ IsCut(stored'[r][t])
    BY Zenon DEF StoredIsTold
  <2>2. CASE r = Repo(p)
    BY <1>3, <1>4, <1>9, <1>10, <2>2, Zenon
  <2>3. CASE r # Repo(p)
    BY <1>1, <1>4, <2>3, Zenon DEF StoredIsTold
  <2> QED
    BY <2>2, <2>3
<1>12. ASSUME NEW q \in Procs \ {p}, ipc[q] \in Holding
       PROVE  stored'[Repo(q)] = stored[Repo(q)]
  <2>1. Writing(q) /\ Repo(q) \in Repos
    BY RepoIsOne, Zenon DEF AccountInv, Accounted, DocumentInv
  <2>2. Repo(q) # Repo(p)
    BY <1>1, <1>2, <1>12, <2>1, OneWriter
  <2> QED
    BY <1>4, <2>1, <2>2
<1> QED
  BY <1>11, <1>12

(* The end of a turn, with a COMMIT or without.                            *)
LEMMA TurnEndsDocuments ==
  ASSUME AccountInv, DocumentInv, NEW p \in Procs, NEW result, NextRepo(p, result),
         StoredIsTold',
         \A q \in Procs \ {p} : ipc[q] \in Holding => stored'[Repo(q)] = stored[Repo(q)]
  PROVE  DocumentInv'
<1>1. /\ Touches(p) /\ holder' = Unlocked(p)
      /\ ipc'[p] \in {"fetch", "exit"}
      /\ loc'[p].wrote = <<>> /\ loc'[p].seen = {}
  BY NextRepoLocals, Zenon DEF AccountInv
<1>2. Writing(p)'
  BY <1>1, NotWriting
<1>3. ASSUME NEW q \in Procs, q # p PROVE Writing(q)'
  <2>1. Writing(q)
    BY Zenon DEF DocumentInv
  <2> QED
    BY <1>1, <1>3, <2>1, UnlockKeepsOthers, OthersWriting
<1> QED
  BY <1>2, <1>3, Zenon DEF DocumentInv

LEMMA KillDocuments ==
  ASSUME AccountInv, DocumentInv, NEW p \in Procs, Kill(p)
  PROVE  DocumentInv'
<1>1. Touches(p) /\ ipc'[p] = "killed" /\ holder' = Unlocked(p)
      /\ UNCHANGED <<stored, shown>>
  BY KillLocals, Zenon DEF AccountInv, Kill
<1>2. Writing(p)'
  BY <1>1, NotWriting
<1>3. ASSUME NEW q \in Procs, q # p PROVE Writing(q)'
  <2>1. Writing(q)
    BY Zenon DEF DocumentInv
  <2> QED
    BY <1>1, <1>3, <2>1, UnlockKeepsOthers, OthersWriting
<1> QED
  BY <1>1, <1>2, <1>3, NothingStored, Zenon DEF DocumentInv

(* A step within a transaction touches nobody else's.                      *)
LEMMA OthersGoOn ==
  ASSUME DocumentInv, NEW p \in Procs, Touches(p), UNCHANGED <<stored, shown, holder>>,
         Writing(p)'
  PROVE  DocumentInv'
<1>1. ASSUME NEW q \in Procs, q # p PROVE Writing(q)'
  <2>1. Writing(q)
    BY Zenon DEF DocumentInv
  <2> QED
    BY <1>1, <2>1, OthersWriting
<1>2. StoredIsTold'
  BY NothingStored DEF DocumentInv
<1> QED
  BY <1>1, <1>2, Zenon DEF DocumentInv

(* A command between two sections.                                         *)
LEMMA WritingSection ==
  ASSUME NEW p \in Procs, ipc'[p] = "section", Reading(p)', Telling(p)',
         \A t \in DOMAIN loc'[p].wrote : IsCut(loc'[p].wrote[t])
  PROVE  Writing(p)'
<1>1. /\ ipc'[p] \notin {"fetch", "open", "lock"} /\ ipc'[p] \notin {"cut", "embed"}
      /\ ipc'[p] # "commit" /\ ipc'[p] # "lock"
  OBVIOUS
<1> QED
  BY <1>1, Zenon DEF Writing

LEMMA LockDocuments ==
  ASSUME AccountInv, DocumentInv, NEW p \in Procs, Lock(p)
  PROVE  DocumentInv'
<1> DEFINE sections == Sections[loc[p].readme]
<1>1. Typed /\ Accounted(p) /\ Writing(p)
  BY Zenon DEF AccountInv, DocumentInv
<1>2. /\ ipc[p] = "lock" /\ holder[Repo(p)] = Nothing
      /\ holder' = [holder EXCEPT ![Repo(p)] = p]
      /\ Goto(p, "section") /\ UNCHANGED <<stored, known, loc, shown>>
  BY Zenon DEF Lock, IsFree
<1>3. ipc'[p] = "section" /\ \A q \in Procs \ {p} : ipc'[q] = ipc[q]
  BY <1>1, <1>2, GotoPlace DEF Places
<1>4. Touches(p)
  BY <1>1, <1>2, <1>3, Zenon DEF Typed, Touches
<1>5. loc[p].readme \in Readmes /\ Repo(p) \in Repos
  BY <1>1, <1>2, RepoIsOne DEF Accounted
<1>6. loc[p].left = sections /\ loc[p].wrote = <<>> /\ loc[p].seen = {}
  BY <1>1, <1>2 DEF Writing
<1>7. sections \in Seq(SectionSet) /\ Len(sections) \in Nat
  BY <1>5, SectionsTyped
<1>8. holder'[Repo(p)] = p
  BY <1>1, <1>2, <1>5 DEF Typed
<1>9. DOMAIN loc[p].wrote = {}
  BY <1>6
<1>10. Repo(p)' = Repo(p) /\ Read(p)' = 0
  <2>1. Repo(p)' = Repo(p)
    BY <1>2 DEF Repo
  <2>2. Read(p)' = Len(sections) - Len(sections) + 0
    BY <1>2, <1>3, <1>6 DEF Read
  <2> QED
    BY <1>7, <2>1, <2>2
<1>11. Reading(p)'
  <2>1. \A i \in 1..Len(sections) : sections[i] = sections[Len(sections) - Len(sections) + i]
    BY <1>7
  <2>2. Len(sections) <= Len(sections)
    BY <1>7
  <2> QED
    BY <1>2, <1>6, <1>7, <1>8, <1>10, <2>1, <2>2, Zenon DEF Reading
<1>12. Telling(p)'
  BY <1>2, <1>6, <1>9, <1>10, TellsNone DEF Telling
<1>13. Writing(p)'
  <2>1. \A t \in DOMAIN loc'[p].wrote : IsCut(loc'[p].wrote[t])
    BY <1>2, <1>9
  <2> QED
    BY <1>3, <1>11, <1>12, <2>1, WritingSection
<1>14. ASSUME NEW q \in Procs, q # p PROVE Writing(q)'
  <2>1. Writing(q)
    BY Zenon DEF DocumentInv
  <2>2. ipc[q] \in Holding => holder'[Repo(q)] = holder[Repo(q)]
    <3>1. ipc[q] \in Holding => holder[Repo(q)] = q
      BY <2>1, Zenon DEF Writing, Reading
    <3> QED
      BY <1>1, <1>2, <3>1 DEF Typed
  <2> QED
    BY <1>2, <1>4, <1>14, <2>1, <2>2, OthersWriting
<1>15. StoredIsTold'
  BY <1>2, NothingStored DEF DocumentInv
<1> QED
  BY <1>13, <1>14, <1>15, Zenon DEF DocumentInv

LEMMA SkipDocuments ==
  ASSUME AccountInv, DocumentInv, NEW p \in Procs, SkipSection(p)
  PROVE  DocumentInv'
<1> DEFINE sections == Sections[loc[p].readme]
           n == Len(sections) - Len(loc[p].left)
<1>1. Typed /\ Accounted(p) /\ Writing(p)
  BY Zenon DEF AccountInv, DocumentInv
<1>2. /\ ipc[p] = "section" /\ loc[p].left # <<>> /\ IsTemplateOnly(Section(p).body)
      /\ UNCHANGED <<stored, known, holder, ipc, shown>>
  BY Zenon DEF SkipSection, Section
<1>3. /\ Touches(p) /\ SameTurn(p) /\ loc'[p].left = Tail(loc[p].left)
      /\ loc'[p].readme = loc[p].readme /\ loc'[p].wrote = loc[p].wrote
      /\ loc'[p].seen = loc[p].seen
  BY <1>1, SkipSectionLocals
<1>4. /\ loc[p].readme \in Readmes /\ Reading(p) /\ Telling(p)
      /\ \A t \in DOMAIN loc[p].wrote : IsCut(loc[p].wrote[t])
  BY <1>1, <1>2 DEF Accounted, Writing, Holding
<1>5. /\ n \in Nat /\ n < Len(sections) /\ Section(p) = sections[n + 1]
      /\ Tail(loc[p].left) \in Seq(SectionSet)
      /\ Len(Tail(loc[p].left)) = Len(loc[p].left) - 1 /\ Len(loc[p].left) \in Nat
      /\ \A i \in 1..Len(Tail(loc[p].left)) :
           Tail(loc[p].left)[i] = sections[Len(sections) - Len(Tail(loc[p].left)) + i]
  BY <1>2, <1>4, SectionIsNext, Zenon
<1>6. sections \in Seq(SectionSet) /\ Len(sections) \in Nat
  BY <1>4, SectionsTyped
<1>7. Repo(p)' = Repo(p) /\ Read(p) = n /\ Read(p)' = n + 1
  <2>1. Repo(p)' = Repo(p)
    BY <1>3 DEF Repo, SameTurn
  <2>2. Read(p) = Len(sections) - Len(loc[p].left) + 0
        /\ Read(p)' = Len(sections) - Len(Tail(loc[p].left)) + 0
    BY <1>2, <1>3 DEF Read
  <2>3. Len(Tail(loc[p].left)) = Len(loc[p].left) - 1 /\ Len(loc[p].left) \in Nat
    BY <1>5, Zenon
  <2>4. Read(p)' = Len(sections) - (Len(loc[p].left) - 1) + 0
    BY <2>2, <2>3, Zenon
  <2>5. \A k, l \in Nat : k - l + 0 = k - l /\ k - (l - 1) + 0 = (k - l) + 1
    OBVIOUS
  <2> QED
    BY <1>6, <2>1, <2>2, <2>3, <2>4, <2>5, Zenon
<1>8. Reading(p)'
  <2>1. Len(Tail(loc[p].left)) <= Len(sections) /\ holder'[Repo(p)] = p
    <3>1. holder'[Repo(p)] = p /\ Len(loc[p].left) <= Len(sections)
      BY <1>2, <1>4, Zenon DEF Reading
    <3>2. \A k, l, m \in Nat : k <= l /\ m = k - 1 => m <= l
      OBVIOUS
    <3>3. Len(Tail(loc[p].left)) \in Nat
      BY <1>5
    <3> QED
      BY <1>5, <1>6, <3>1, <3>2, <3>3, Zenon
  <2> QED
    BY <1>3, <1>5, <1>7, <2>1, Zenon DEF Reading
<1>9. Telling(p)'
  <2>1. TellsFirst(sections, n, loc[p].wrote)
    BY <1>4, <1>7 DEF Telling
  <2>2. TellsFirst(sections, n + 1, loc[p].wrote)
    BY <1>2, <1>5, <1>6, <2>1, TellsSkipped
  <2> QED
    BY <1>3, <1>4, <1>7, <2>2, Zenon DEF Telling
<1>10. Writing(p)'
  BY <1>2, <1>3, <1>4, <1>8, <1>9, WritingSection
<1> QED
  BY <1>2, <1>3, <1>10, OthersGoOn

(* A command that cuts: its section is written, not yet embedded.          *)
LEMMA WritingCutting ==
  ASSUME NEW p \in Procs, ipc'[p] \in {"cut", "embed"}, Reading(p)', Telling(p)', Cutting(p)'
  PROVE  Writing(p)'
<1>1. /\ ipc'[p] \notin {"fetch", "open", "lock"} /\ ipc'[p] \notin {"section", "commit"}
      /\ ipc'[p] # "commit" /\ ipc'[p] # "lock"
  OBVIOUS
<1> QED
  BY <1>1, Zenon DEF Writing

LEMMA WriteDocuments ==
  ASSUME AccountInv, DocumentInv, NEW p \in Procs, WriteSection(p)
  PROVE  DocumentInv'
<1> DEFINE sections == Sections[loc[p].readme]
           n == Len(sections) - Len(loc[p].left)
           title == Section(p).title
           wrote == loc[p].wrote
<1>1. Typed /\ Accounted(p) /\ Writing(p)
  BY Zenon DEF AccountInv, DocumentInv
<1>2. /\ ipc[p] = "section" /\ loc[p].left # <<>> /\ ~IsTemplateOnly(Section(p).body)
      /\ Goto(p, "cut") /\ UNCHANGED <<stored, known, holder, shown>>
  BY Zenon DEF WriteSection, Section
<1>3. /\ Touches(p) /\ SameTurn(p) /\ loc'[p].left = loc[p].left
      /\ loc'[p].readme = loc[p].readme /\ loc'[p].wrote = Grown(p)
      /\ loc'[p].seen = loc[p].seen \union {title}
      /\ loc'[p].cut = StartCutting(Text[Section(p).body])
  BY <1>1, WriteSectionLocals
<1>4. ipc'[p] = "cut"
  BY <1>1, <1>2, GotoPlace DEF Places
<1>5. /\ loc[p].readme \in Readmes /\ Reading(p) /\ Telling(p)
      /\ \A t \in DOMAIN wrote : IsCut(wrote[t])
  BY <1>1, <1>2 DEF Accounted, Writing, Holding
<1>6. /\ n \in Nat /\ n < Len(sections) /\ Section(p) = sections[n + 1]
      /\ Section(p) \in SectionSet /\ Len(loc[p].left) \in Nat
  BY <1>2, <1>5, SectionIsNext, Zenon
<1>7. sections \in Seq(SectionSet) /\ Len(sections) \in Nat
  BY <1>5, SectionsTyped
<1>8. Repo(p)' = Repo(p) /\ Section(p)' = Section(p) /\ Read(p) = n /\ Read(p)' = n + 1
  <2>1. Repo(p)' = Repo(p) /\ Section(p)' = Section(p)
    BY <1>3 DEF Repo, SameTurn, Section
  <2>2. Read(p) = Len(sections) - Len(loc[p].left) + 0
        /\ Read(p)' = Len(sections) - Len(loc[p].left) + 1
    BY <1>2, <1>3, <1>4 DEF Read
  <2> QED
    BY <1>6, <1>7, <2>1, <2>2
<1>9. Cleared(p, Section(p)) = [content |-> Section(p).body, chunks |-> <<>>]
  BY Zenon DEF Cleared
<1>10. /\ DOMAIN Grown(p) = DOMAIN wrote \union {title}
       /\ Grown(p)[title] = Cleared(p, Section(p))
       /\ \A t \in DOMAIN wrote \ {title} : Grown(p)[t] = wrote[t]
  BY Zenon DEF Grown
<1>11. Section(p).body \in DOMAIN Text
  BY <1>6 DEF SectionSet
<1>12. Reading(p)'
  BY <1>2, <1>3, <1>5, <1>8, Zenon DEF Reading
<1>13. Telling(p)'
  <2>1. TellsFirst(sections, n, wrote) /\ loc[p].seen = DOMAIN wrote
        /\ \A t \in DOMAIN wrote : IsDoc(wrote[t])
    BY <1>5, <1>8, Zenon DEF Telling
  <2>2. TellsFirst(sections, n + 1, Grown(p))
    <3>1. Grown(p)[title].content = sections[n + 1].body
      <4>1. Grown(p)[title] = Cleared(p, Section(p))
        BY <1>10, Zenon
      <4>2. Cleared(p, Section(p)).content = Section(p).body
        BY <1>9
      <4> QED
        BY <1>6, <4>1, <4>2, Zenon
    <3>2. /\ title = sections[n + 1].title /\ ~IsTemplateOnly(sections[n + 1].body)
          /\ DOMAIN Grown(p) = DOMAIN wrote \union {title}
          /\ \A t \in DOMAIN wrote \ {title} : Grown(p)[t] = wrote[t]
      BY <1>2, <1>6, <1>10, Zenon
    <3> HIDE DEF sections, n, wrote, title
    <3> QED
      BY <1>6, <1>7, <2>1, <3>1, <3>2, TellsWritten, Zenon
  <2>3. IsDoc(Cleared(p, Section(p)))
    BY <1>9, <1>11 DEF IsDoc
  <2>4. \A t \in DOMAIN Grown(p) : IsDoc(Grown(p)[t])
    BY <1>10, <2>1, <2>3, Zenon
  <2>5. loc[p].seen \union {title} = DOMAIN Grown(p)
    BY <1>10, <2>1, Zenon
  <2> QED
    BY <1>3, <1>8, <2>2, <2>4, <2>5, Zenon DEF Telling
<1>14. Cutting(p)'
  <2>1. /\ title \in DOMAIN Grown(p)
        /\ Grown(p)[title].content = Section(p).body /\ Grown(p)[title].chunks = <<>>
    BY <1>9, <1>10
  <2>2. \A t \in DOMAIN Grown(p) \ {title} : IsCut(Grown(p)[t])
    BY <1>5, <1>10, Zenon
  <2>3. IsText(Text[Section(p).body])
    BY <1>11
  <2>4. /\ StartCutting(Text[Section(p).body]) \in CutRecords(Text[Section(p).body])
        /\ CutWell(StartCutting(Text[Section(p).body]))
    BY <2>3, CuttingBeginsWell
  <2>5. ~StartCutting(Text[Section(p).body]).done /\ ipc'[p] # "embed"
    BY <1>4 DEF StartCutting
  <2> QED
    BY <1>2, <1>3, <1>8, <2>1, <2>2, <2>4, <2>5, Zenon DEF Cutting
<1>15. Writing(p)'
  BY <1>4, <1>12, <1>13, <1>14, WritingCutting
<1> QED
  BY <1>2, <1>3, <1>15, OthersGoOn

LEMMA CutDocuments ==
  ASSUME AccountInv, DocumentInv, NEW p \in Procs, CutPiece(p)
  PROVE  DocumentInv'
<1> DEFINE text == Text[Section(p).body]
           c == loc[p].cut
<1>1. Typed /\ Accounted(p) /\ Writing(p)
  BY Zenon DEF AccountInv, DocumentInv
<1>2. /\ ipc[p] = "cut" /\ UNCHANGED <<stored, known, holder, shown>>
      /\ IF Cut(c).done THEN Goto(p, "embed") ELSE UNCHANGED ipc
  BY Zenon DEF CutPiece
<1>3. /\ Touches(p) /\ SameTurn(p) /\ loc'[p].cut = Cut(c)
      /\ loc'[p].readme = loc[p].readme /\ loc'[p].left = loc[p].left
      /\ loc'[p].wrote = loc[p].wrote /\ loc'[p].seen = loc[p].seen
  BY <1>1, CutPieceLocals
<1>4. ipc'[p] \in {"cut", "embed"} /\ (Cut(c).done <=> ipc'[p] = "embed")
  <2>1. CASE Cut(c).done
    <3>1. Goto(p, "embed")
      BY <1>2, <2>1, Zenon
    <3>2. ipc'[p] = "embed"
      BY <1>1, <3>1, GotoPlace DEF Places
    <3> QED
      BY <2>1, <3>2, Zenon
  <2>2. CASE ~Cut(c).done
    <3>1. ipc'[p] = "cut"
      BY <1>2, <2>2, Zenon
    <3>2. ipc'[p] # "embed"
      BY <3>1
    <3> QED
      BY <2>2, <3>1, <3>2, Zenon
  <2> QED
    BY <2>1, <2>2, Zenon
<1>5. loc[p].readme \in Readmes /\ Reading(p) /\ Telling(p) /\ Cutting(p)
  BY <1>1, <1>2 DEF Accounted, Writing, Holding
<1>6. Section(p) \in SectionSet
  BY <1>5, SectionIsNext, Zenon DEF Cutting
<1>7. /\ Repo(p)' = Repo(p) /\ Section(p)' = Section(p)
      /\ Read(p)' = Read(p)
  <2>1. Repo(p)' = Repo(p) /\ Section(p)' = Section(p)
    BY <1>3 DEF Repo, SameTurn, Section
  <2>2. Read(p) = Len(Sections[loc[p].readme]) - Len(loc[p].left) + 1
    BY <1>2 DEF Read
  <2>3. Read(p)' = Len(Sections[loc[p].readme]) - Len(loc[p].left) + 1
    BY <1>3, <1>4 DEF Read
  <2> QED
    BY <2>1, <2>2, <2>3
<1>8. Reading(p)'
  BY <1>2, <1>3, <1>5, <1>7, Zenon DEF Reading
<1>9. Telling(p)'
  BY <1>3, <1>5, <1>7, Zenon DEF Telling
<1>10. Cut(c) \in CutRecords(text) /\ CutWell(Cut(c))
  <2>1. IsText(text)
    BY <1>6 DEF SectionSet
  <2>2. c \in CutRecords(text) /\ CutWell(c)
    BY <1>5, Zenon DEF Cutting
  <2>3. ~c.done
    <3>1. ipc[p] # "embed"
      BY <1>2
    <3> QED
      BY <1>5, <3>1, Zenon DEF Cutting
  <2> HIDE DEF text, c
  <2> QED
    BY <2>1, <2>2, <2>3, CuttingGoesWell
<1>11. Cutting(p)'
  BY <1>3, <1>4, <1>5, <1>7, <1>10, Zenon DEF Cutting
<1>12. Writing(p)'
  BY <1>4, <1>8, <1>9, <1>11, WritingCutting
<1> QED
  BY <1>2, <1>3, <1>12, OthersGoOn

LEMMA EmbedDocuments ==
  ASSUME AccountInv, DocumentInv, NEW p \in Procs, Embed(p)
  PROVE  DocumentInv'
<1> DEFINE sections == Sections[loc[p].readme]
           n == Len(sections) - Len(loc[p].left)
           title == Section(p).title
           wrote == loc[p].wrote
           c == loc[p].cut
<1>1. Typed /\ Accounted(p) /\ Writing(p)
  BY Zenon DEF AccountInv, DocumentInv
<1>2. /\ ipc[p] = "embed" /\ Goto(p, "section")
      /\ UNCHANGED <<stored, known, holder, shown>>
  BY Zenon DEF Embed
<1>3. /\ Touches(p) /\ SameTurn(p) /\ loc'[p].wrote = Chunked(p)
      /\ loc'[p].left = Tail(loc[p].left)
      /\ loc'[p].readme = loc[p].readme /\ loc'[p].seen = loc[p].seen
  BY <1>1, EmbedLocals
<1>4. ipc'[p] = "section"
  BY <1>1, <1>2, GotoPlace DEF Places
<1>5. loc[p].readme \in Readmes /\ Reading(p) /\ Telling(p) /\ Cutting(p)
  BY <1>1, <1>2 DEF Accounted, Writing, Holding
<1>6. /\ n \in Nat /\ n < Len(sections)
      /\ Tail(loc[p].left) \in Seq(SectionSet)
      /\ Len(Tail(loc[p].left)) = Len(loc[p].left) - 1 /\ Len(loc[p].left) \in Nat
      /\ \A i \in 1..Len(Tail(loc[p].left)) :
           Tail(loc[p].left)[i] = sections[Len(sections) - Len(Tail(loc[p].left)) + i]
  BY <1>5, SectionIsNext, Zenon DEF Cutting
<1>7. sections \in Seq(SectionSet) /\ Len(sections) \in Nat
  BY <1>5, SectionsTyped
<1>8. Repo(p)' = Repo(p) /\ Read(p)' = Read(p)
  <2>1. Repo(p)' = Repo(p)
    BY <1>3 DEF Repo, SameTurn
  <2>2. Read(p) = Len(sections) - Len(loc[p].left) + 1
        /\ Read(p)' = Len(sections) - Len(Tail(loc[p].left)) + 0
    BY <1>2, <1>3, <1>4 DEF Read
  <2>3. Len(Tail(loc[p].left)) = Len(loc[p].left) - 1 /\ Len(loc[p].left) \in Nat
    BY <1>6, Zenon
  <2>4. Read(p)' = Len(sections) - (Len(loc[p].left) - 1) + 0
    BY <2>2, <2>3, Zenon
  <2>5. \A k, l \in Nat : k - (l - 1) + 0 = k - l + 1
    OBVIOUS
  <2> QED
    BY <1>7, <2>1, <2>2, <2>3, <2>4, <2>5, Zenon
<1>9. Reading(p)'
  <2>1. Len(Tail(loc[p].left)) <= Len(sections) /\ holder'[Repo(p)] = p
    BY <1>2, <1>5, <1>6, <1>7 DEF Reading
  <2> QED
    BY <1>3, <1>6, <1>8, <2>1, Zenon DEF Reading
<1>10. /\ title \in DOMAIN wrote /\ wrote[title].content = Section(p).body
       /\ wrote[title].chunks = <<>> /\ IsDoc(wrote[title])
       /\ \A t \in DOMAIN wrote \ {title} : IsCut(wrote[t])
       /\ \A t \in DOMAIN wrote : IsDoc(wrote[t])
  BY <1>5, Zenon DEF Cutting, Telling
<1>11. /\ DOMAIN Chunked(p) = DOMAIN wrote
       /\ \A t \in DOMAIN wrote \ {title} : Chunked(p)[t] = wrote[t]
       /\ Chunked(p)[title] = [wrote[title] EXCEPT !.chunks = <<>> \o PiecesOf(c)]
  BY <1>10, Zenon DEF Chunked
<1>12. /\ Chunked(p)[title].content = wrote[title].content
       /\ Chunked(p)[title].chunks = <<>> \o PiecesOf(c)
       /\ IsDoc(Chunked(p)[title])
  <2> DEFINE doc == wrote[title]
  <2>1. doc = [content |-> doc.content, chunks |-> doc.chunks] /\ doc.content \in DOMAIN Text
    BY <1>10, Zenon DEF IsDoc
  <2>2. Chunked(p)[title] = [doc EXCEPT !.chunks = <<>> \o PiecesOf(c)]
    BY <1>11, Zenon
  <2> HIDE DEF doc
  <2>3. Chunked(p)[title] = [content |-> doc.content, chunks |-> <<>> \o PiecesOf(c)]
    BY <2>1, <2>2, Zenon
  <2>4. Chunked(p)[title].content = doc.content /\ Chunked(p)[title].chunks = <<>> \o PiecesOf(c)
    BY <2>3
  <2> QED
    BY <2>1, <2>3, <2>4, Zenon DEF IsDoc, doc
<1>13. Telling(p)'
  <2>1. TellsFirst(sections, Read(p), wrote) /\ loc[p].seen = DOMAIN wrote
    BY <1>5, Zenon DEF Telling
  <2>2. \A t \in DOMAIN wrote : Chunked(p)[t].content = wrote[t].content
    BY <1>11, <1>12, Zenon
  <2>3. TellsFirst(sections, Read(p), Chunked(p))
    <3> HIDE DEF sections, wrote
    <3> QED
      BY <1>11, <2>1, <2>2, TellsAlike
  <2>4. \A t \in DOMAIN Chunked(p) : IsDoc(Chunked(p)[t])
    BY <1>10, <1>11, <1>12, Zenon
  <2> QED
    BY <1>3, <1>8, <1>11, <2>1, <2>3, <2>4, Zenon DEF Telling
<1>14. IsCut(Chunked(p)[title])
  <2>1. c \in CutRecords(Text[Section(p).body]) /\ CutWell(c) /\ c.done
    BY <1>2, <1>5, Zenon DEF Cutting
  <2>2. Chunked(p)[title].content = Section(p).body
    BY <1>10, <1>12, Zenon
  <2> QED
    BY <1>12, <2>1, <2>2, Zenon DEF IsCut
<1>15. \A t \in DOMAIN Chunked(p) : IsCut(Chunked(p)[t])
  BY <1>10, <1>11, <1>14, Zenon
<1>16. Writing(p)'
  <2>1. \A t \in DOMAIN loc'[p].wrote : IsCut(loc'[p].wrote[t])
    BY <1>3, <1>15, Zenon
  <2> QED
    BY <1>4, <1>9, <1>13, <2>1, WritingSection
<1> QED
  BY <1>2, <1>3, <1>16, OthersGoOn

LEMMA DeleteDocuments ==
  ASSUME AccountInv, DocumentInv, NEW p \in Procs, DeleteStale(p)
  PROVE  DocumentInv'
<1>1. Typed /\ Accounted(p) /\ Writing(p)
  BY Zenon DEF AccountInv, DocumentInv
<1>2. /\ ipc[p] = "section" /\ loc[p].left = <<>> /\ Goto(p, "commit")
      /\ UNCHANGED <<stored, known, holder, shown>>
  BY Zenon DEF DeleteStale
<1>3. /\ Touches(p) /\ SameTurn(p) /\ loc'[p].left = loc[p].left
      /\ loc'[p].gone = DOMAIN stored[Repo(p)] \ loc[p].seen
      /\ loc'[p].readme = loc[p].readme /\ loc'[p].wrote = loc[p].wrote
      /\ loc'[p].seen = loc[p].seen
  BY <1>1, DeleteStaleLocals
<1>4. ipc'[p] = "commit"
  BY <1>1, <1>2, GotoPlace DEF Places
<1>5. Reading(p) /\ Telling(p) /\ \A t \in DOMAIN loc[p].wrote : IsCut(loc[p].wrote[t])
  BY <1>1, <1>2 DEF Writing, Holding
<1>6. Repo(p)' = Repo(p) /\ Read(p)' = Read(p)
  BY <1>2, <1>3, <1>4 DEF Repo, SameTurn, Read
<1>7. Reading(p)'
  BY <1>2, <1>3, <1>5, <1>6, Zenon DEF Reading
<1>8. Telling(p)'
  BY <1>3, <1>5, <1>6, Zenon DEF Telling
<1>9. Writing(p)'
  <2>1. /\ loc'[p].left = <<>>
        /\ loc'[p].gone = DOMAIN stored'[Repo(p)'] \ loc'[p].seen
        /\ \A t \in DOMAIN loc'[p].wrote : IsCut(loc'[p].wrote[t])
    BY <1>2, <1>3, <1>5, <1>6, Zenon
  <2>2. ipc'[p] \notin {"fetch", "open", "lock"} /\ ipc'[p] \notin {"cut", "embed"}
        /\ ipc'[p] # "lock"
    BY <1>4
  <2> QED
    BY <1>7, <1>8, <2>1, <2>2, Zenon DEF Writing
<1> QED
  BY <1>2, <1>3, <1>9, OthersGoOn

LEMMA DocumentStep ==
  ASSUME AccountInv, DocumentInv, NEW p \in Procs, Advance(p) \/ Fail(p) \/ Kill(p)
  PROVE  DocumentInv'
<1>1. Typed /\ Accounted(p) /\ Writing(p)
  BY Zenon DEF AccountInv, DocumentInv
<1>2. CASE Fetch(p)
  <2>1. ipc[p] = "fetch" /\ Goto(p, "open") /\ UNCHANGED <<stored, known, holder, shown>>
    BY <1>2 DEF Fetch
  <2>2. ipc'[p] = "open" /\ loc[p].wrote = <<>> /\ loc[p].seen = {}
    BY <1>1, <2>1, GotoPlace DEF Places, Writing
  <2>3. Touches(p) /\ loc'[p].wrote = loc[p].wrote /\ loc'[p].seen = loc[p].seen
    BY <1>1, <1>2, FetchLocals
  <2>4. Writing(p)'
    BY <2>2, <2>3, NotWriting
  <2> QED
    BY <2>1, <2>3, <2>4, OthersGoOn
<1>3. CASE Open(p)
  <2>1. ipc[p] = "open" /\ Goto(p, "lock") /\ UNCHANGED <<stored, known, holder, shown>>
    BY <1>3, Zenon DEF Open
  <2>2. ipc'[p] = "lock" /\ loc[p].wrote = <<>> /\ loc[p].seen = {}
    BY <1>1, <2>1, GotoPlace DEF Places, Writing
  <2>3. /\ Touches(p) /\ loc'[p].wrote = loc[p].wrote /\ loc'[p].seen = loc[p].seen
        /\ loc'[p].left = Sections[loc'[p].readme]
    BY <1>1, <1>3, OpenLocals, Zenon
  <2>4. Writing(p)'
    BY <2>2, <2>3, NotWriting
  <2> QED
    BY <2>1, <2>3, <2>4, OthersGoOn
<1>4. CASE LockViolates(p) \/ Fail(p)
  <2>1. NextRepo(p, "failed") /\ UNCHANGED <<stored, known, shown>>
    BY <1>4, Zenon DEF LockViolates, Fail
  <2>2. StoredIsTold'
    BY <2>1, NothingStored DEF DocumentInv
  <2> QED
    BY <2>1, <2>2, TurnEndsDocuments
<1>5. CASE Commit(p) \/ CommitUnheard(p)
  <2>1. ipc[p] = "commit" /\ Store(p) /\ (NextRepo(p, "committed") \/ NextRepo(p, "unsure"))
    BY <1>5, Zenon DEF Commit, CommitUnheard
  <2>2. /\ StoredIsTold'
        /\ \A q \in Procs \ {p} : ipc[q] \in Holding => stored'[Repo(q)] = stored[Repo(q)]
    BY <2>1, StoreTells
  <2> QED
    BY <2>1, <2>2, TurnEndsDocuments
<1> QED
  BY <1>2, <1>3, <1>4, <1>5, LockDocuments, SkipDocuments, WriteDocuments, CutDocuments,
     EmbedDocuments, DeleteDocuments, KillDocuments DEF Advance

LEMMA DocumentInit ==
  ASSUME IndexInit
  PROVE  DocumentInv
<1>1. \A p \in Procs : loc[p] = FreshLocals /\ ipc[p] = "fetch"
  BY DEF IndexInit
<1>2. \A p \in Procs : loc[p].wrote = <<>> /\ loc[p].seen = {}
  BY <1>1 DEF FreshLocals
<1>3. \A p \in Procs : Writing(p)
  BY <1>1, <1>2 DEF Writing, Holding
<1>4. StoredIsTold
  BY DEF IndexInit, StoredIsTold
<1> QED
  BY <1>3, <1>4 DEF DocumentInv

(* The documents of a command, and what is stored.                          *)
LEMMA DocumentsAreTold == IndexSpec => []DocumentInv
<1>1. AccountInv /\ DocumentInv /\ [IndexNext]_indexVars => DocumentInv'
  <2>1. SUFFICES ASSUME AccountInv, DocumentInv, [IndexNext]_indexVars PROVE DocumentInv'
    OBVIOUS
  <2>2. CASE IndexNext
    BY <2>1, <2>2, DocumentStep, Zenon DEF IndexNext
  <2>3. CASE UNCHANGED indexVars
    <3>1. UNCHANGED <<stored, known, holder, ipc, loc, shown>>
      BY <2>3 DEF indexVars
    <3>2. \A p \in Procs : /\ Repo(p)' = Repo(p) /\ Section(p)' = Section(p)
                           /\ Read(p)' = Read(p)
      BY <3>1 DEF Repo, Section, Read
    <3>3. ASSUME NEW p \in Procs PROVE Writing(p)'
      <4>1. Writing(p)
        BY <2>1, Zenon DEF DocumentInv
      <4> QED
        BY <3>1, <3>2, <4>1, Zenon DEF Writing, Reading, Telling, Cutting
    <3>4. StoredIsTold'
      BY <2>1, <3>1, NothingStored DEF DocumentInv
    <3> QED
      BY <3>3, <3>4, Zenon DEF DocumentInv
  <2> QED
    BY <2>1, <2>2, <2>3
<1>2. IndexInit => DocumentInv
  BY DocumentInit
<1> QED
  BY <1>1, <1>2, IndexAccounts, PTL DEF IndexSpec

(* However index commands overlap, fail, are killed or lose the answer to  *)
(* a COMMIT, what is stored of a repository is what its last README says:  *)
(* every title of it, the last section of each, chunks cut to the end of   *)
(* that section, and nothing of an older README.                           *)
THEOREM IndexTellsReadme == IndexSpec => []StoredIsTold
<1>1. DocumentInv => StoredIsTold
  BY DEF DocumentInv
<1> QED
  BY <1>1, DocumentsAreTold, PTL

-----------------------------------------------------------------------------
(* If documents tell the sections of a README, they tell the README.       *)
Whole(readme, docs) ==
  /\ DOMAIN docs =
       {t \in {TitleOf(readme, i) : i \in HeadingsOf(readme)} : SaysUnder(readme, t) # {}}
  /\ \A t \in DOMAIN docs :
       LET said == SaysUnder(readme, t)
           last == CHOOSE i \in said : \A j \in said : j <= i
       IN docs[t].content = BodyOf(readme, last)

LEMMA SectionsTellWhole ==
  ASSUME NEW readme \in Seq(ReadmeLines), NEW docs,
         TellsFirst(SplitSections(readme), Len(SplitSections(readme)), docs)
  PROVE  Whole(readme, docs)
<1> DEFINE sections == SplitSections(readme)
           n == Len(sections)
<1>1. sections \in SectionsSoFar /\ n \in Nat
  <2>1. sections \in SectionsSoFar
    BY SplitSectionsTells
  <2> QED
    BY <2>1 DEF SectionsSoFar
<1>2. PICK at \in [1..n -> HeadingsOf(readme)] :
        /\ \A m \in 1..n : /\ at[m] <= Len(readme)
                           /\ sections[m].title = TitleOf(readme, at[m])
                           /\ sections[m].body = BodyOf(readme, at[m])
                           /\ sections[m].body # <<>>
        /\ \A l, m \in 1..n : l < m => at[l] < at[m]
        /\ \A i \in HeadingsOf(readme) : i <= Len(readme) /\ BodyOf(readme, i) # <<>> =>
             \E m \in 1..n : at[m] = i
  BY SplitSectionsTells, Zenon DEF SectionsSay
<1>3. /\ \A i \in 1..n : ~IsTemplateOnly(sections[i].body) => sections[i].title \in DOMAIN docs
      /\ \A t \in DOMAIN docs : \E i \in 1..n :
           /\ sections[i].title = t /\ ~IsTemplateOnly(sections[i].body)
           /\ docs[t].content = sections[i].body
           /\ \A j \in (i + 1)..n : sections[j].title = t => IsTemplateOnly(sections[j].body)
  BY Zenon DEF TellsFirst
<1>4. HeadingsOf(readme) \in SUBSET Nat /\ \A i \in HeadingsOf(readme) : i <= Len(readme)
  <2>1. HeadingsOf(readme) \in SUBSET (1..Len(readme)) /\ HeadingsOf(readme) \in SUBSET Nat
        /\ Len(readme) \in Nat
    BY HeadingsAreLines
  <2> QED
    BY <2>1
<1> HIDE DEF sections
<1>5. ASSUME NEW t, NEW i \in SaysUnder(readme, t)
      PROVE  \E m \in 1..n : /\ at[m] = i /\ sections[m].title = t
                             /\ ~IsTemplateOnly(sections[m].body)
  <2>1. /\ i \in HeadingsOf(readme) /\ TitleOf(readme, i) = t
        /\ BodyOf(readme, i) # <<>> /\ ~IsTemplateOnly(BodyOf(readme, i))
    BY Zenon DEF SaysUnder
  <2>2. PICK m \in 1..n : at[m] = i
    BY <1>2, <1>4, <2>1, Zenon
  <2> QED
    BY <1>2, <2>1, <2>2, Zenon
<1>6. ASSUME NEW t \in DOMAIN docs
      PROVE  \E i \in SaysUnder(readme, t) :
               /\ docs[t].content = BodyOf(readme, i)
               /\ \A j \in SaysUnder(readme, t) : j <= i
  <2>1. PICK m \in 1..n :
          /\ sections[m].title = t /\ ~IsTemplateOnly(sections[m].body)
          /\ docs[t].content = sections[m].body
          /\ \A l \in (m + 1)..n : sections[l].title = t => IsTemplateOnly(sections[l].body)
    BY <1>3, Zenon
  <2>2. at[m] \in SaysUnder(readme, t)
    <3>1. /\ at[m] \in HeadingsOf(readme) /\ TitleOf(readme, at[m]) = t
          /\ BodyOf(readme, at[m]) # <<>> /\ ~IsTemplateOnly(BodyOf(readme, at[m]))
      BY <1>2, <2>1, Zenon
    <3> QED
      BY <3>1, Zenon DEF SaysUnder
  <2>3. ASSUME NEW j \in SaysUnder(readme, t)
        PROVE  j <= at[m]
    <3>1. PICK l \in 1..n : /\ at[l] = j /\ sections[l].title = t
                            /\ ~IsTemplateOnly(sections[l].body)
      BY <1>5
    <3>2. l \notin (m + 1)..n
      BY <2>1, <3>1, Zenon
    <3>3. l = m \/ l < m
      BY <1>1, <3>2
    <3>4. at[l] \in Nat /\ at[m] \in Nat
      BY <1>2, <1>4
    <3>5. at[l] = at[m] \/ at[l] < at[m]
      BY <1>2, <3>3, Zenon
    <3>6. at[l] <= at[m]
      BY <3>4, <3>5
    <3> QED
      BY <3>1, <3>6, Zenon
  <2> QED
    BY <1>2, <2>1, <2>2, <2>3, Zenon
<1>7. ASSUME NEW t \in DOMAIN docs
      PROVE  /\ t \in {TitleOf(readme, i) : i \in HeadingsOf(readme)}
             /\ SaysUnder(readme, t) # {}
             /\ docs[t].content = BodyOf(readme, CHOOSE i \in SaysUnder(readme, t) :
                                                   \A j \in SaysUnder(readme, t) : j <= i)
  <2>1. PICK i \in SaysUnder(readme, t) :
          /\ docs[t].content = BodyOf(readme, i)
          /\ \A j \in SaysUnder(readme, t) : j <= i
    BY <1>6, Zenon
  <2>2. SaysUnder(readme, t) \in SUBSET Int
    BY <1>4 DEF SaysUnder
  <2>3. (CHOOSE l \in SaysUnder(readme, t) : \A j \in SaysUnder(readme, t) : j <= l) = i
    BY <2>1, <2>2, GreatestIsChosen
  <2>4. i \in HeadingsOf(readme) /\ TitleOf(readme, i) = t
    BY <2>1, Zenon DEF SaysUnder
  <2> QED
    BY <2>1, <2>3, <2>4, Zenon
<1>8. ASSUME NEW t, NEW i \in SaysUnder(readme, t)
      PROVE  t \in DOMAIN docs
  <2>1. PICK m \in 1..n : /\ at[m] = i /\ sections[m].title = t
                          /\ ~IsTemplateOnly(sections[m].body)
    BY <1>5, <1>8
  <2> QED
    BY <1>3, <2>1, Zenon
<1>9. DOMAIN docs =
        {t \in {TitleOf(readme, i) : i \in HeadingsOf(readme)} : SaysUnder(readme, t) # {}}
  BY <1>7, <1>8, Zenon
<1> QED
  BY <1>7, <1>9, Zenon DEF Whole

(* However index commands overlap, fail, are killed or lose the answer to  *)
(* a COMMIT, each repository is indexed from one README as a whole, line   *)
(* by line: every title that has text has the last text of that title, and *)
(* nothing of an older README is left.                                     *)
THEOREM IndexWhole == IndexSpec => []IndexIsWhole
<1>1. AccountInv /\ StoredIsTold => IndexIsWhole
  <2>1. SUFFICES ASSUME AccountInv, StoredIsTold, NEW r \in Repos, shown[r] # Nothing
                 PROVE  Whole(shown[r], stored[r])
    BY Zenon DEF IndexIsWhole, Whole, StoredIsTold
  <2>2. PICK readme : readme = shown[r]
    OBVIOUS
  <2>3. readme \in Readmes
    BY <2>1, <2>2, Zenon DEF AccountInv, Typed
  <2>4. Sections[readme] = SplitSections(readme)
    BY <2>3, Zenon DEF Sections
  <2>5. TellsFirst(SplitSections(readme), Len(SplitSections(readme)), stored[r])
    BY <2>1, <2>2, <2>4, Zenon DEF StoredIsTold
  <2>6. readme \in Seq(ReadmeLines)
    BY <2>3
  <2> QED
    BY <2>2, <2>5, <2>6, SectionsTellWhole, Zenon
<1> QED
  BY <1>1, IndexAccounts, IndexTellsReadme, PTL

(* ... and the chunks stored with a text are cut from it: together they    *)
(* hold every letter of it.                                                *)
THEOREM IndexChunks == IndexSpec => []ChunksAreOfContent
<1>1. StoredIsTold => ChunksAreOfContent
  <2>1. SUFFICES ASSUME StoredIsTold, NEW r \in Repos, NEW t \in DOMAIN stored[r],
                        NEW text, text = Text[stored[r][t].content],
                        NEW chunks, chunks = stored[r][t].chunks
                 PROVE  /\ (0..(text.size - 1)) \ text.spaces
                             = UNION {Letters(text, chunks[i]) : i \in DOMAIN chunks}
                        /\ \A i \in DOMAIN chunks : /\ chunks[i][2] - chunks[i][1] <= MaxChars
                                                    /\ chunks[i][2] <= text.size
                                                    /\ Letters(text, chunks[i]) # {}
                        /\ \A i \in 1..(Len(chunks) - 1) : chunks[i][1] < chunks[i + 1][1]
    BY Zenon DEF ChunksAreOfContent
  <2>2. IsDoc(stored[r][t]) /\ IsCut(stored[r][t])
    <3>1. shown[r] # Nothing
      <4>1. DOMAIN <<>> = {}
        OBVIOUS
      <4> QED
        BY <2>1, <4>1, Zenon DEF StoredIsTold
    <3> QED
      BY <2>1, <3>1, Zenon DEF StoredIsTold
  <2>3. IsText(text)
    BY <2>1, <2>2, TextAssumption, Zenon DEF IsDoc
  <2>4. PICK c \in CutRecords(text) : CutWell(c) /\ c.done /\ chunks = <<>> \o PiecesOf(c)
    BY <2>1, <2>2, Zenon DEF IsCut
  <2>5. PiecesOf(c) \in Seq(Nat \X Nat) /\ CutsUp(text, PiecesOf(c))
    BY <2>3, <2>4, ChunksCutUpText
  <2>6. chunks \in Seq(Nat \X Nat) /\ CutsUp(text, chunks)
    <3>1. PICK pieces : pieces = PiecesOf(c)
      OBVIOUS
    <3>2. <<>> \o pieces = pieces
      BY <2>5, <3>1
    <3> QED
      BY <2>4, <2>5, <3>1, <3>2, Zenon
  <2>7. /\ DOMAIN chunks = 1..Len(chunks) /\ text.size \in Nat
        /\ \A i \in DOMAIN chunks : chunks[i][1] \in Nat /\ chunks[i][2] \in Nat
    BY <2>3, <2>6 DEF IsText
  <2>8. ASSUME NEW i \in DOMAIN chunks, NEW k \in Letters(text, chunks[i])
        PROVE  k \in (0..(text.size - 1)) \ text.spaces
    <3>1. 0 <= chunks[i][1] /\ chunks[i][2] <= text.size
      BY <2>6, <2>7, Zenon DEF CutsUp
    <3>2. k \in chunks[i][1]..(chunks[i][2] - 1) /\ k \notin text.spaces
      BY DEF Letters
    <3> QED
      BY <2>7, <3>1, <3>2
  <2>9. (0..(text.size - 1)) \ text.spaces
          = UNION {Letters(text, chunks[i]) : i \in DOMAIN chunks}
    <3>1. \A k \in (0..(text.size - 1)) \ text.spaces :
            \E i \in DOMAIN chunks : k \in Letters(text, chunks[i])
      BY <2>6, <2>7, Zenon DEF CutsUp
    <3> QED
      BY <2>8, <3>1, Zenon
  <2> QED
    BY <2>6, <2>7, <2>9, Zenon DEF CutsUp
<1> QED
  BY <1>1, IndexTellsReadme, PTL

-----------------------------------------------------------------------------
(* A command that is over.                                                *)
Over == {"exit", "killed"}

(* The places of a turn in their order; a transaction writes one section   *)
(* after the other in the places of its middle.                            *)
Rank(place) == CASE place = "fetch" -> 4 [] place = "open" -> 3 [] place = "lock" -> 2
                 [] place \in {"section", "cut", "embed"} -> 1 [] OTHER -> 0

SectionRank(place) == CASE place = "section" -> 2 [] place = "cut" -> 1 [] OTHER -> 0

(* Fewer sections are left, or this one is further.                        *)
WritesOn(p) ==
  \/ Len(loc'[p].left) < Len(loc[p].left)
  \/ /\ loc'[p].left = loc[p].left
     /\ \/ SectionRank(ipc'[p]) < SectionRank(ipc[p])
        \/ /\ ipc[p] = "cut" /\ ipc'[p] = "cut"
           /\ loc'[p].cut.text = loc[p].cut.text
           /\ loc[p].cut.start < loc'[p].cut.start
           /\ loc'[p].cut.start < loc[p].cut.text.size

(* A command comes to its end, to its next repository, or further in the   *)
(* turn of this one.                                                       *)
MovesOn(p) ==
  \/ ipc'[p] \in Over
  \/ loc'[p].turn = loc[p].turn + 1 /\ loc'[p].turn <= Len(Command[p])
  \/ /\ loc'[p].turn = loc[p].turn
     /\ \/ Rank(ipc'[p]) < Rank(ipc[p])
        \/ Rank(ipc[p]) = 1 /\ Rank(ipc'[p]) = 1 /\ WritesOn(p)

OneMovesOn ==
  \E p \in Procs : /\ ipc[p] \notin Over /\ MovesOn(p)
                   /\ \A q \in Procs \ {p} : loc'[q] = loc[q] /\ ipc'[q] = ipc[q]

(* What a step does to the locks: nothing, and a command that writes goes  *)
(* on writing; its row is locked; or its transaction is over.              *)
KeepsLocks(p) ==
  /\ UNCHANGED holder /\ loc'[p].turn = loc[p].turn
  /\ ipc[p] \in Holding => ipc'[p] \in Holding

TakesLock(p) ==
  /\ holder' = [holder EXCEPT ![Repo(p)] = p] /\ loc'[p].turn = loc[p].turn
  /\ ipc'[p] = "section"

LEMMA NextRepoMovesOn ==
  ASSUME AccountInv, NEW p \in Procs, NEW result, NextRepo(p, result)
  PROVE  MovesOn(p) /\ holder' = Unlocked(p)
<1>1. Typed /\ loc[p].turn \in 1..Len(Command[p]) /\ Len(Command[p]) \in Nat
  <2>1. Typed /\ Accounted(p)
    BY Zenon DEF AccountInv
  <2>2. Len(Command[p]) \in Nat
    OBVIOUS
  <2> QED
    BY <2>1, <2>2 DEF Accounted
<1>2. /\ ipc'[p] = IF loc[p].turn = Len(Command[p]) THEN "exit" ELSE "fetch"
      /\ loc'[p].turn = IF loc[p].turn = Len(Command[p]) THEN 1 ELSE loc[p].turn + 1
      /\ holder' = Unlocked(p)
  BY <1>1, NextRepoLocals
<1> QED
  BY <1>1, <1>2 DEF MovesOn, Over

LEMMA SectionsGetFewer ==
  ASSUME NEW p \in Procs, loc[p].readme \in Readmes, Reading(p), loc[p].left # <<>>,
         loc'[p].left = Tail(loc[p].left)
  PROVE  Len(loc'[p].left) < Len(loc[p].left)
<1>1. PICK n, m : n = Len(Tail(loc[p].left)) /\ m = Len(loc[p].left)
  OBVIOUS
<1>2. m \in Nat /\ n = m - 1
  BY <1>1, SectionIsNext
<1> QED
  BY <1>1, <1>2

LEMMA CutMovesOn ==
  ASSUME AccountInv, DocumentInv, NEW p \in Procs, CutPiece(p)
  PROVE  MovesOn(p) /\ KeepsLocks(p)
<1> DEFINE text == Text[Section(p).body]
<1>1. Typed /\ Accounted(p) /\ Writing(p)
  BY Zenon DEF AccountInv, DocumentInv
<1>2. /\ ipc[p] = "cut" /\ UNCHANGED holder
      /\ IF Cut(loc[p].cut).done THEN Goto(p, "embed") ELSE UNCHANGED ipc
  BY Zenon DEF CutPiece
<1>3. /\ SameTurn(p) /\ loc'[p].cut = Cut(loc[p].cut) /\ loc'[p].left = loc[p].left
  BY <1>1, CutPieceLocals
<1>4. loc[p].readme \in Readmes /\ Reading(p) /\ Cutting(p)
  BY <1>1, <1>2 DEF Accounted, Writing, Holding
<1>5. PICK c : c = loc[p].cut
  OBVIOUS
<1>6. /\ IsText(text) /\ c \in CutRecords(text) /\ CutWell(c) /\ ~c.done
  <2>1. Section(p) \in SectionSet
    BY <1>4, SectionIsNext DEF Cutting
  <2>2. Section(p).body \in DOMAIN Text
    BY <2>1 DEF SectionSet
  <2>3. c \in CutRecords(text) /\ CutWell(c) /\ ~c.done
    BY <1>2, <1>4, <1>5 DEF Cutting
  <2> QED
    BY <2>2, <2>3, TextAssumption
<1>7. CASE Cut(c).done
  <2>1. ipc'[p] = "embed"
    BY <1>1, <1>2, <1>5, <1>7, GotoPlace DEF Places
  <2> QED
    BY <1>2, <1>3, <2>1
       DEF MovesOn, WritesOn, Rank, SectionRank, KeepsLocks, Holding, SameTurn
<1>8. CASE ~Cut(c).done
  <2>1. ipc'[p] = "cut"
    BY <1>2, <1>5, <1>8
  <2>2. c.start < Cut(c).start /\ Cut(c).start < text.size
    BY <1>6, <1>8, CuttingMovesOn
  <2>3. c.text = text /\ Cut(c).text = text
    BY <1>6 DEF CutRecords, Cut
  <2>4. WritesOn(p)
    BY <1>2, <1>3, <1>5, <2>1, <2>2, <2>3 DEF WritesOn
  <2> QED
    BY <1>2, <1>3, <2>1, <2>4 DEF MovesOn, Rank, KeepsLocks, SameTurn
<1> QED
  BY <1>7, <1>8

(* One step of a command.                                                  *)
LEMMA StepMovesOn ==
  ASSUME AccountInv, DocumentInv, NEW p \in Procs, Advance(p) \/ Fail(p) \/ Kill(p)
  PROVE  /\ ipc[p] \notin Over /\ MovesOn(p)
         /\ KeepsLocks(p) \/ TakesLock(p) \/ holder' = Unlocked(p)
<1>1. Typed /\ Accounted(p) /\ Writing(p)
  BY Zenon DEF AccountInv, DocumentInv
<1>2. CASE Fetch(p)
  <2>1. ipc[p] = "fetch" /\ Goto(p, "open") /\ UNCHANGED holder
    BY <1>2 DEF Fetch
  <2>2. ipc'[p] = "open" /\ SameTurn(p)
    BY <1>1, <1>2, <2>1, GotoPlace, FetchLocals DEF Places
  <2> QED
    BY <2>1, <2>2 DEF MovesOn, Rank, KeepsLocks, SameTurn, Over, Holding
<1>3. CASE Open(p)
  <2>1. ipc[p] = "open" /\ Goto(p, "lock") /\ UNCHANGED holder
    BY <1>3, Zenon DEF Open
  <2>2. ipc'[p] = "lock" /\ SameTurn(p)
    BY <1>1, <1>3, <2>1, GotoPlace, OpenLocals DEF Places
  <2> QED
    BY <2>1, <2>2 DEF MovesOn, Rank, KeepsLocks, SameTurn, Over, Holding
<1>4. CASE Lock(p)
  <2>1. ipc[p] = "lock" /\ Goto(p, "section") /\ UNCHANGED loc
        /\ holder' = [holder EXCEPT ![Repo(p)] = p]
    BY <1>4, Zenon DEF Lock
  <2>2. ipc'[p] = "section"
    BY <1>1, <2>1, GotoPlace DEF Places
  <2> QED
    BY <2>1, <2>2 DEF MovesOn, Rank, TakesLock, Over
<1>5. CASE SkipSection(p)
  <2>1. ipc[p] = "section" /\ loc[p].left # <<>> /\ UNCHANGED <<holder, ipc>>
    BY <1>5, Zenon DEF SkipSection
  <2>2. SameTurn(p) /\ loc'[p].left = Tail(loc[p].left)
    BY <1>1, <1>5, SkipSectionLocals
  <2>3. Len(loc'[p].left) < Len(loc[p].left)
    BY <1>1, <2>1, <2>2, SectionsGetFewer DEF Accounted, Writing, Holding
  <2> QED
    BY <2>1, <2>2, <2>3 DEF MovesOn, WritesOn, Rank, KeepsLocks, SameTurn, Over
<1>6. CASE WriteSection(p)
  <2>1. ipc[p] = "section" /\ Goto(p, "cut") /\ UNCHANGED holder
    BY <1>6, Zenon DEF WriteSection
  <2>2. ipc'[p] = "cut" /\ SameTurn(p) /\ loc'[p].left = loc[p].left
    BY <1>1, <1>6, <2>1, GotoPlace, WriteSectionLocals DEF Places
  <2> QED
    BY <2>1, <2>2 DEF MovesOn, WritesOn, Rank, SectionRank, KeepsLocks, SameTurn, Over, Holding
<1>7. CASE CutPiece(p)
  <2>1. ipc[p] = "cut"
    BY <1>7, Zenon DEF CutPiece
  <2> QED
    BY <1>7, <2>1, CutMovesOn DEF Over
<1>8. CASE Embed(p)
  <2>1. ipc[p] = "embed" /\ Goto(p, "section") /\ UNCHANGED holder
    BY <1>8, Zenon DEF Embed
  <2>2. SameTurn(p) /\ loc'[p].left = Tail(loc[p].left)
    BY <1>1, <1>8, EmbedLocals
  <2>3. Len(loc'[p].left) < Len(loc[p].left)
    BY <1>1, <2>1, <2>2, SectionsGetFewer DEF Accounted, Writing, Cutting, Holding
  <2>4. ipc'[p] = "section"
    BY <1>1, <2>1, GotoPlace DEF Places
  <2> QED
    BY <2>1, <2>2, <2>3, <2>4 DEF MovesOn, WritesOn, Rank, KeepsLocks, SameTurn, Over, Holding
<1>9. CASE DeleteStale(p)
  <2>1. ipc[p] = "section" /\ Goto(p, "commit") /\ UNCHANGED holder
    BY <1>9, Zenon DEF DeleteStale
  <2>2. ipc'[p] = "commit" /\ SameTurn(p)
    BY <1>1, <1>9, <2>1, GotoPlace, DeleteStaleLocals DEF Places
  <2> QED
    BY <2>1, <2>2 DEF MovesOn, Rank, KeepsLocks, SameTurn, Over, Holding
<1>10. CASE LockViolates(p) \/ Commit(p) \/ CommitUnheard(p) \/ Fail(p)
  <2>1. /\ ipc[p] \in Raises \union {"lock", "commit"}
        /\ \E result \in {"failed", "committed", "unsure"} : NextRepo(p, result)
    BY <1>10, Zenon DEF LockViolates, Commit, CommitUnheard, Fail
  <2>2. ipc[p] \notin Over
    BY <2>1 DEF Raises, Over
  <2> QED
    BY <2>1, <2>2, NextRepoMovesOn
<1>11. CASE Kill(p)
  <2>1. ipc[p] \notin Over /\ Goto(p, "killed") /\ holder' = Unlocked(p)
    BY <1>11, Zenon DEF Kill, Over
  <2>2. ipc'[p] = "killed"
    BY <1>1, <2>1, GotoPlace DEF Places
  <2> QED
    BY <2>1, <2>2 DEF MovesOn, Over
<1> QED
  BY <1>2, <1>3, <1>4, <1>5, <1>6, <1>7, <1>8, <1>9, <1>10, <1>11 DEF Advance

(* Every step of the batch brings one command nearer to its end and leaves *)
(* the others where they are: turns, places, sections and the text behind  *)
(* the cut are all finite, so no command goes on for ever (run_index,      *)
(* chunk_text).                                                            *)
THEOREM EveryStepMovesOn == IndexSpec => [][OneMovesOn]_indexVars
<1>1. AccountInv /\ DocumentInv /\ [IndexNext]_indexVars => [OneMovesOn]_indexVars
  <2>1. SUFFICES ASSUME AccountInv, DocumentInv, IndexNext PROVE OneMovesOn
    BY Zenon
  <2>2. PICK p \in Procs : Advance(p) \/ Fail(p) \/ Kill(p)
    BY <2>1, Zenon DEF IndexNext
  <2>3. Touches(p) /\ ipc[p] \notin Over /\ MovesOn(p)
    BY <2>1, <2>2, TypedStep, StepMovesOn
  <2> QED
    BY <2>3, Zenon DEF OneMovesOn, Touches
<1> QED
  BY <1>1, IndexAccounts, DocumentsAreTold, PTL DEF IndexSpec

(* A row that is locked is locked by a command that writes it and goes on: *)
(* no lock outlives its transaction, and no command waits for one that     *)
(* waits itself.                                                           *)
LocksAreHeld ==
  \A r \in Repos : \A p \in Procs : holder[r] = p => ipc[p] \in Holding /\ Repo(p) = r

LEMMA StepKeepsLocks ==
  ASSUME AccountInv, LocksAreHeld, NEW p \in Procs, Touches(p),
         KeepsLocks(p) \/ TakesLock(p) \/ holder' = Unlocked(p)
  PROVE  LocksAreHeld'
<1>1. SUFFICES ASSUME NEW r \in Repos, NEW q \in Procs, holder'[r] = q
               PROVE  ipc'[q] \in Holding /\ Command[q][loc'[q].turn] = r
  BY DEF LocksAreHeld, Repo
<1>2. holder \in [Repos -> Procs \union {Nothing}]
  BY Zenon DEF AccountInv, Typed
<1>3. ASSUME holder[r] = q, q # p PROVE ipc'[q] \in Holding /\ Command[q][loc'[q].turn] = r
  <2>1. ipc[q] \in Holding /\ Command[q][loc[q].turn] = r
    BY <1>3, Zenon DEF LocksAreHeld, Repo
  <2>2. ipc'[q] = ipc[q] /\ loc'[q] = loc[q]
    BY <1>3, Zenon DEF Touches
  <2> QED
    BY <2>1, <2>2, Zenon
<1>4. CASE KeepsLocks(p)
  <2>1. ipc[q] \in Holding /\ Command[q][loc[q].turn] = r
    BY <1>1, <1>4, Zenon DEF KeepsLocks, LocksAreHeld, Repo
  <2> QED
    BY <1>1, <1>3, <1>4, <2>1, Zenon DEF KeepsLocks
<1>5. CASE TakesLock(p)
  <2>1. r # Repo(p) => holder[r] = q
    BY <1>1, <1>2, <1>5 DEF TakesLock
  <2>2. CASE r = Repo(p)
    <3>1. q = p
      BY <1>1, <1>2, <1>5, <2>2 DEF TakesLock
    <3> QED
      BY <1>5, <2>2, <3>1 DEF TakesLock, Repo, Holding
  <2>3. CASE r # Repo(p)
    <3>1. q # p
      BY <2>1, <2>3, Zenon DEF LocksAreHeld
    <3> QED
      BY <1>3, <2>1, <2>3, <3>1
  <2> QED
    BY <2>2, <2>3
<1>6. CASE holder' = Unlocked(p)
  <2>1. holder[r] # p /\ holder[r] = q
    BY <1>1, <1>6 DEF Unlocked
  <2> QED
    BY <1>3, <2>1
<1> QED
  BY <1>4, <1>5, <1>6

(* However commands fail and are killed: a locked row of repositories is   *)
(* held by a transaction of index_readme that writes its sections or       *)
(* commits and needs no other lock: nobody waits for a command that waits. *)
THEOREM LocksEndWithWriters == IndexSpec => []LocksAreHeld
<1>1. IndexInit => LocksAreHeld
  BY DEF IndexInit, LocksAreHeld
<1>2. AccountInv /\ DocumentInv /\ LocksAreHeld /\ [IndexNext]_indexVars => LocksAreHeld'
  <2>1. SUFFICES ASSUME AccountInv, DocumentInv, LocksAreHeld, [IndexNext]_indexVars
                 PROVE  LocksAreHeld'
    OBVIOUS
  <2>2. CASE IndexNext
    <3>1. PICK p \in Procs : Advance(p) \/ Fail(p) \/ Kill(p)
      BY <2>2, Zenon DEF IndexNext
    <3> QED
      BY <2>1, <3>1, TypedStep, StepMovesOn, StepKeepsLocks
  <2>3. CASE UNCHANGED indexVars
    BY <2>1, <2>3 DEF indexVars, LocksAreHeld, Repo
  <2> QED
    BY <2>1, <2>2, <2>3
<1> QED
  BY <1>1, <1>2, IndexAccounts, DocumentsAreTold, PTL DEF IndexSpec

=============================================================================
