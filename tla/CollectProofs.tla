--------------------------- MODULE CollectProofs ----------------------------
(***************************************************************************)
(* Proofs about Collect for any page limits, any movement of the Hub and   *)
(* any failures.  The first part is about any number of overlapping runs   *)
(* and derive commands.  The second is about runs of one repository that   *)
(* take turns, as those of one collect process at a time do.               *)
(***************************************************************************)
EXTENDS Collect, FiniteSetTheorems, SequenceTheorems, TLAPS

Places == InTry \union Over \union {"idle", "failing", "finish", "raised"}

(* Places of a run before, and after, it has come to a good end.           *)
Scanning  == {"repo", "fetch", "read", "commit"}
Closing == {"derive1", "derive2", "derive3", "finish"}

(* The fields of a run's locals.                                           *)
IsLocals(l) ==
  l = [page |-> l.page, rows |-> l.rows, next |-> l.next, new |-> l.new,
       changed |-> l.changed, same |-> l.same, pages |-> l.pages, seen |-> l.seen,
       written |-> l.written, stop |-> l.stop]

Typed ==
  /\ order \in Seq(Tags)
  /\ repo \in Runs \union {None}
  /\ run \in [Runs -> RunRows \union {None}]
  /\ pc \in [Procs -> Places]
  /\ outcome = [r \in Runs |-> outcome[r]]
  /\ loc = [r \in Runs |-> loc[r]]
  /\ \A r \in Runs : IsLocals(loc[r])

-----------------------------------------------------------------------------
(* A run has a row from its start on, and the row stays open until the run *)
(* ends.                                                                   *)
Recorded(r) ==
  /\ pc[r] = "idle" => run[r] = None /\ loc[r] = FreshLocals
  /\ pc[r] \in InTry \union {"failing", "finish"} =>
       run[r] # None /\ run[r].stop = None /\ ~run[r].finished
  /\ pc[r] = "done" => run[r] # None

(* The counters of the row say what the run has written.                   *)
Counted(r) ==
  IF run[r] = None THEN WritesOf(r) = {}
  ELSE /\ IsFiniteSet(WritesOf(r))
       /\ run[r].written = Cardinality(WritesOf(r))
       /\ run[r].seen >= run[r].written
       /\ \A w \in WritesOf(r) : w[2] \in Nat /\ w[2] <= run[r].pages

(* The locals of a scan say what the row says, and keep to the limits.     *)
Scanned(r) ==
  LET l == loc[r]
  IN  /\ pc[r] \in Scanning \union Closing =>
           /\ l.pages = run[r].pages /\ l.seen = run[r].seen /\ l.written = run[r].written
           /\ l.page = l.pages + 1 /\ l.pages <= OffsetPages
      /\ pc[r] \in {"read", "commit"} => l.page <= OffsetPages
      /\ pc[r] \in Scanning => MaxPages[r] = None \/ l.pages < MaxPages[r]
      /\ pc[r] \in Closing \union {"fetch", "read", "commit"} => repo # None
      /\ pc[r] \in Closing =>
           /\ l.stop \in Finishing
           /\ l.stop = "max_pages" => l.pages = MaxPages[r]
           /\ l.stop = "offset_limit" => l.pages = OffsetPages

(* A page is a list of rows, no two of them different for one tag.         *)
Paged(r) ==
  /\ pc[r] \in {"read", "commit"} =>
       /\ Len(loc[r].rows) \in Nat /\ DOMAIN loc[r].rows = 1..Len(loc[r].rows)
       /\ \A row, other \in RowsOf(r) : row.tag = other.tag => row = other
  /\ pc[r] = "commit" => loc[r].new \union loc[r].changed \subseteq RowsOf(r)

(* The row is finished exactly if the run came to a good end.              *)
Completed(r) ==
  run[r] # None =>
    /\ run[r].finished <=> run[r].stop \in Finishing
    /\ run[r].finished => ~run[r].error /\ repo # None
    /\ run[r].finished /\ run[r].stop = "max_pages" => run[r].pages = MaxPages[r]
    /\ run[r].finished /\ run[r].stop = "offset_limit" => run[r].pages = OffsetPages

(* The outcome says what the row says.                                     *)
Told(r) ==
  outcome[r] # None =>
    /\ pc[r] \in {"done", "failed"}
    /\ pc[r] = "done" => /\ outcome[r].stop = run[r].stop
                         /\ outcome[r].pages = run[r].pages
                         /\ outcome[r].seen = run[r].seen
                         /\ outcome[r].written = run[r].written
    /\ outcome[r].stop \in Finishing => run[r] # None /\ run[r].finished

RunInv(r) == /\ Recorded(r) /\ Counted(r) /\ Scanned(r) /\ Paged(r)
             /\ Completed(r) /\ Told(r)

Inv == Typed /\ \A r \in Runs : RunInv(r)

-----------------------------------------------------------------------------
USE CollectAssumption, NoneAssumption

(* A step that leaves a run alone.                                         *)
LeavesAlone(r) ==
  /\ pc'[r] = pc[r] /\ loc'[r] = loc[r] /\ run'[r] = run[r] /\ outcome'[r] = outcome[r]
  /\ WritesOf(r)' = WritesOf(r)
  /\ repo # None => repo' # None

LEMMA StoodStill ==
  ASSUME NEW r \in Runs, RunInv(r), LeavesAlone(r)
  PROVE  RunInv(r)'
<1> USE DEF LeavesAlone, RunInv
<1>1. Recorded(r)'
  BY DEF Recorded
<1>2. Counted(r)'
  BY Zenon DEF Counted
<1>3. Scanned(r)'
  BY DEF Scanned
<1>4. Paged(r)'
  <2>1. RowsOf(r)' = RowsOf(r)
    BY DEF RowsOf
  <2> QED
    BY <2>1 DEF Paged
<1>5. Completed(r)'
  BY DEF Completed
<1>6. Told(r)'
  BY DEF Told
<1> QED
  BY <1>1, <1>2, <1>3, <1>4, <1>5, <1>6

(* A step of one run leaves the others alone.                              *)
StepOf(r) ==
  /\ Typed'
  /\ \A q \in Runs \ {r} : LeavesAlone(q)

LEMMA StepKeeps ==
  ASSUME Inv, NEW r \in Runs, StepOf(r), RunInv(r)'
  PROVE  Inv'
  BY StoodStill DEF StepOf, Inv

LEMMA GotoPlace ==
  ASSUME Typed, NEW p \in Procs, NEW where \in Places, Goto(p, where)
  PROVE  /\ pc' \in [Procs -> Places] /\ pc'[p] = where
         /\ \A q \in Procs \ {p} : pc'[q] = pc[q]
  BY DEF Typed, Goto

LEMMA SameWrites ==
  ASSUME writes' = writes
  PROVE  \A r \in Runs : WritesOf(r)' = WritesOf(r)
  BY DEF WritesOf

(* The locals are dropped.                                                 *)
LEMMA Dropped ==
  ASSUME Typed, NEW r \in Runs, loc' = [loc EXCEPT ![r] = FreshLocals]
  PROVE  /\ loc' = [q \in Runs |-> loc'[q]] /\ loc'[r] = FreshLocals
         /\ \A q \in Runs : IsLocals(loc'[q])
         /\ \A q \in Runs \ {r} : loc'[q] = loc[q]
<1>1. loc' = [q \in Runs |-> loc'[q]] /\ loc'[r] = FreshLocals
      /\ \A q \in Runs \ {r} : loc'[q] = loc[q]
  BY DEF Typed
<1>2. IsLocals(FreshLocals)
  BY DEF IsLocals, FreshLocals
<1> QED
  BY <1>1, <1>2, Zenon DEF Typed

(* A step that moves one run from place to place, beside which it changes  *)
(* only its locals and perhaps repositories.                               *)
LEMMA MovesOn ==
  ASSUME Typed, NEW r \in Runs, NEW where \in Places, Goto(r, where),
         order' = order, run' = run, outcome' = outcome, writes' = writes,
         repo' \in Runs \union {None}, repo # None => repo' # None,
         loc' = [q \in Runs |-> loc'[q]], IsLocals(loc'[r]),
         \A q \in Runs \ {r} : loc'[q] = loc[q]
  PROVE  /\ StepOf(r)
         /\ pc'[r] = where /\ run'[r] = run[r] /\ outcome'[r] = outcome[r]
         /\ WritesOf(r)' = WritesOf(r)
<1>1. r \in Procs /\ \A q \in Runs \ {r} : q \in Procs \ {r}
  BY DEF Procs
<1>2. /\ pc' \in [Procs -> Places] /\ pc'[r] = where
      /\ \A q \in Runs \ {r} : pc'[q] = pc[q]
  BY <1>1, GotoPlace
<1>3. \A q \in Runs : IsLocals(loc'[q])
  BY Zenon DEF Typed
<1>4. outcome' = [q \in Runs |-> outcome'[q]]
  BY DEF Typed
<1>5. Typed'
  BY <1>2, <1>3, <1>4, Zenon DEF Typed
<1>6. \A q \in Runs \ {r} : LeavesAlone(q)
  BY <1>2, SameWrites DEF LeavesAlone
<1> QED
  BY <1>2, <1>5, <1>6, SameWrites DEF StepOf

(* A step that moves one run from place to place and writes its row, its   *)
(* locals, its outcome and its history.                                    *)
LEMMA Moves ==
  ASSUME Typed, NEW r \in Runs, NEW where \in Places, Goto(r, where),
         order' = order, repo' \in Runs \union {None}, repo # None => repo' # None,
         run' = [q \in Runs |-> run'[q]], run'[r] \in RunRows \union {None},
         outcome' = [q \in Runs |-> outcome'[q]],
         loc' = [q \in Runs |-> loc'[q]], IsLocals(loc'[r]),
         \A q \in Runs \ {r} :
           /\ run'[q] = run[q] /\ outcome'[q] = outcome[q] /\ loc'[q] = loc[q]
           /\ WritesOf(q)' = WritesOf(q)
  PROVE  StepOf(r) /\ pc'[r] = where
<1>1. r \in Procs /\ \A q \in Runs \ {r} : q \in Procs \ {r}
  BY DEF Procs
<1>2. /\ pc' \in [Procs -> Places] /\ pc'[r] = where
      /\ \A q \in Runs \ {r} : pc'[q] = pc[q]
  BY <1>1, GotoPlace
<1>3. \A q \in Runs : IsLocals(loc'[q])
  BY Zenon DEF Typed
<1>4. run' \in [Runs -> RunRows \union {None}]
  <2>1. \A q \in Runs : run'[q] \in RunRows \union {None}
    BY Zenon DEF Typed
  <2> QED
    BY <2>1
<1>5. Typed'
  BY <1>2, <1>3, <1>4, Zenon DEF Typed
<1>6. \A q \in Runs \ {r} : LeavesAlone(q)
  BY <1>2 DEF LeavesAlone
<1> QED
  BY <1>2, <1>5, <1>6 DEF StepOf

NewRow == [pages |-> 0, seen |-> 0, written |-> 0, stop |-> None,
           finished |-> FALSE, error |-> FALSE]

LEMMA StartRunKeeps ==
  ASSUME Inv, NEW r \in Runs, StartRun(r)
  PROVE  Inv'
<1>1. Typed /\ RunInv(r) /\ pc[r] = "idle" /\ Goto(r, "repo")
  BY Zenon DEF Inv, StartRun
<1>2. /\ order' = order /\ repo' = repo /\ outcome' = outcome /\ writes' = writes
      /\ loc' = loc
  BY DEF StartRun, hubVars
<1>3. run' = [run EXCEPT ![r] = NewRow]
  BY Zenon DEF StartRun, NewRow
<1>4. NewRow \in RunRows /\ NewRow # None
  <2>1. NewRow \in RunRows
    BY DEF NewRow, RunRows
  <2> QED
    BY <2>1
<1>5. /\ run' = [q \in Runs |-> run'[q]] /\ run'[r] = NewRow
      /\ \A q \in Runs \ {r} : run'[q] = run[q]
  BY <1>1, <1>3 DEF Typed
<1>6. /\ outcome' = [q \in Runs |-> outcome'[q]] /\ loc' = [q \in Runs |-> loc'[q]]
      /\ IsLocals(loc'[r]) /\ repo' \in Runs \union {None}
  BY <1>1, <1>2, Zenon DEF Typed
<1>7. \A q \in Runs : WritesOf(q)' = WritesOf(q)
  BY <1>2, SameWrites
<1>8. StepOf(r) /\ pc'[r] = "repo"
  BY <1>1, <1>2, <1>4, <1>5, <1>6, <1>7, Moves DEF Places, InTry
<1>9. run[r] = None /\ loc[r] = FreshLocals
  BY <1>1 DEF RunInv, Recorded
<1>10. WritesOf(r)' = {} /\ outcome'[r] = None
  <2>1. outcome[r] = None
    BY <1>1 DEF RunInv, Told
  <2>2. WritesOf(r) = {}
    BY <1>1, <1>9 DEF RunInv, Counted
  <2> QED
    BY <1>2, <1>7, <2>1, <2>2
<1>11. RunInv(r)'
  <2>1. Recorded(r)'
    BY <1>4, <1>5, <1>8 DEF Recorded, NewRow, InTry
  <2>2. Counted(r)'
    BY <1>4, <1>5, <1>10, FS_EmptySet DEF Counted, NewRow
  <2>3. Scanned(r)'
    BY <1>2, <1>5, <1>8, <1>9 DEF Scanned, Scanning, Closing, NewRow, FreshLocals
  <2>4. Paged(r)'
    BY <1>8 DEF Paged
  <2>5. Completed(r)'
    BY <1>5 DEF Completed, NewRow, Finishing
  <2>6. Told(r)'
    BY <1>10 DEF Told
  <2> QED
    BY <2>1, <2>2, <2>3, <2>4, <2>5, <2>6 DEF RunInv
<1> QED
  BY <1>8, <1>11, StepKeeps

(* A step to a place where the run's row is all that counts.               *)
Ending == {"failing", "raised", "stopped"}

LEMMA EndsKeeps ==
  ASSUME Inv, NEW r \in Runs, StepOf(r), pc'[r] \in Ending,
         pc[r] \notin {"done", "failed"},
         pc'[r] = "failing" => run'[r] # None /\ run'[r].stop = None /\ ~run'[r].finished,
         Counted(r)', Completed(r)', outcome'[r] = outcome[r]
  PROVE  Inv'
<1>1. RunInv(r)
  BY DEF Inv
<1>2. Recorded(r)'
  BY DEF Recorded, Ending, InTry
<1>3. Scanned(r)'
  BY DEF Scanned, Scanning, Closing, Ending
<1>4. Paged(r)'
  BY DEF Paged, Ending
<1>5. Told(r)'
  BY <1>1 DEF Told, RunInv
<1> QED
  BY <1>2, <1>3, <1>4, <1>5, StepKeeps DEF RunInv

(* What a run's row says is kept by a step that writes neither the row nor *)
(* images.                                                                 *)
LEMMA RowKept ==
  ASSUME NEW r \in Runs, RunInv(r), run'[r] = run[r], WritesOf(r)' = WritesOf(r),
         repo # None => repo' # None
  PROVE  Counted(r)' /\ Completed(r)'
<1>1. Counted(r)'
  BY Zenon DEF Counted, RunInv
<1>2. Completed(r)'
  BY DEF Completed, RunInv
<1> QED
  BY <1>1, <1>2

(* A step that drops the locals, or leaves them, and ends the scan.        *)
LEMMA BreaksKeeps ==
  ASSUME Inv, NEW r \in Runs, NEW where \in Ending, Goto(r, where),
         order' = order, repo' = repo, run' = run, outcome' = outcome,
         writes' = writes,
         loc' = loc \/ loc' = [loc EXCEPT ![r] = FreshLocals],
         pc[r] \notin {"done", "failed"},
         where = "failing" => pc[r] \in InTry
  PROVE  Inv'
<1>1. Typed /\ RunInv(r) /\ where \in Places
  BY DEF Inv, Ending, Places, Over
<1>2. /\ loc' = [q \in Runs |-> loc'[q]] /\ IsLocals(loc'[r])
      /\ \A q \in Runs \ {r} : loc'[q] = loc[q]
  <2>1. CASE loc' = loc
    BY <1>1, <2>1, Zenon DEF Typed
  <2>2. CASE loc' = [loc EXCEPT ![r] = FreshLocals]
    BY <1>1, <2>2, Dropped
  <2> QED
    BY <2>1, <2>2
<1>3. repo' \in Runs \union {None}
  BY <1>1 DEF Typed
<1>4. /\ StepOf(r) /\ pc'[r] = where /\ run'[r] = run[r] /\ outcome'[r] = outcome[r]
      /\ WritesOf(r)' = WritesOf(r)
  BY <1>1, <1>2, <1>3, MovesOn
<1>5. Counted(r)' /\ Completed(r)'
  BY <1>1, <1>4, RowKept
<1>6. pc'[r] = "failing" => run'[r] # None /\ run'[r].stop = None /\ ~run'[r].finished
  BY <1>1, <1>4 DEF RunInv, Recorded
<1> QED
  BY <1>4, <1>5, <1>6, EndsKeeps

LEMMA StartFailsKeeps ==
  ASSUME Inv, NEW r \in Runs, StartFails(r)
  PROVE  Inv'
<1>1. /\ pc[r] = "idle" /\ Goto(r, "raised") /\ order' = order /\ repo' = repo
      /\ run' = run /\ outcome' = outcome /\ writes' = writes /\ loc' = loc
  BY DEF StartFails, hubVars
<1> QED
  BY <1>1, BreaksKeeps DEF Ending

LEMMA FailKeeps ==
  ASSUME Inv, NEW r \in Runs, Fail(r)
  PROVE  Inv'
<1>1. /\ pc[r] \in InTry /\ Goto(r, "failing") /\ order' = order /\ repo' = repo
      /\ run' = run /\ outcome' = outcome /\ writes' = writes
      /\ loc' = [loc EXCEPT ![r] = FreshLocals]
  BY DEF Fail, hubVars
<1> QED
  BY <1>1, BreaksKeeps DEF Ending, InTry

LEMMA CrashKeeps ==
  ASSUME Inv, NEW r \in Runs, Crash(r)
  PROVE  Inv'
<1>1. /\ pc[r] \notin Over /\ Goto(r, "stopped") /\ order' = order /\ repo' = repo
      /\ run' = run /\ outcome' = outcome /\ writes' = writes
      /\ loc' = [loc EXCEPT ![r] = FreshLocals]
  BY DEF Crash, hubVars, Active
<1> QED
  BY <1>1, BreaksKeeps DEF Ending, Over

LEMMA FinishFailsKeeps ==
  ASSUME Inv, NEW r \in Runs, FinishFails(r)
  PROVE  Inv'
<1>1. /\ pc[r] = "finish" /\ Goto(r, "raised") /\ order' = order /\ repo' = repo
      /\ run' = run /\ outcome' = outcome /\ writes' = writes /\ loc' = loc
  BY DEF FinishFails, hubVars
<1> QED
  BY <1>1, BreaksKeeps DEF Ending

StopRow(row, why) == [row EXCEPT !.stop = why, !.error = TRUE, !.finished = FALSE]

LEMMA StopRowSays ==
  ASSUME NEW row \in RunRows, NEW why \in {"error", "interrupted"}
  PROVE  /\ StopRow(row, why) \in RunRows /\ StopRow(row, why) # None
         /\ StopRow(row, why).stop = why /\ ~StopRow(row, why).finished
         /\ StopRow(row, why).pages = row.pages /\ StopRow(row, why).seen = row.seen
         /\ StopRow(row, why).written = row.written
<1>1. StopRow(row, why) \in RunRows
  BY DEF StopRow, RunRows
<1>2. StopRow(row, why) # None
  BY <1>1
<1> QED
  BY <1>1, <1>2 DEF StopRow, RunRows

(* RecordStop ends the run, whether or not it can say why.                 *)
LEMMA RecordStopKeeps ==
  ASSUME Inv, NEW r \in Runs, NEW why \in {"error", "interrupted"}, RecordStop(r, why),
         NEW where \in {"raised", "stopped"}, Goto(r, where),
         order' = order, repo' = repo, outcome' = outcome, writes' = writes,
         loc' = loc \/ loc' = [loc EXCEPT ![r] = FreshLocals],
         pc[r] \in InTry \union {"failing"}
  PROVE  Inv'
<1>1. Typed /\ RunInv(r) /\ where \in Places /\ where \in Ending
  BY DEF Inv, Ending, Places, Over
<1>2. pc[r] \notin {"done", "failed"}
  BY DEF InTry
<1>3. CASE run' = run
  BY <1>1, <1>2, <1>3, BreaksKeeps
<1>4. CASE run' = [run EXCEPT ![r].stop = why, ![r].error = TRUE, ![r].finished = FALSE]
  <2>1. run' = [run EXCEPT ![r] = StopRow(run[r], why)]
    BY <1>1, <1>4, Zenon DEF StopRow, Typed
  <2>2. run[r] \in RunRows /\ run[r] # None
    BY <1>1 DEF Typed, RunInv, Recorded
  <2>3. /\ run' = [q \in Runs |-> run'[q]] /\ run'[r] = StopRow(run[r], why)
        /\ \A q \in Runs \ {r} : run'[q] = run[q]
    BY <1>1, <2>1 DEF Typed
  <2>4. /\ loc' = [q \in Runs |-> loc'[q]] /\ IsLocals(loc'[r])
        /\ \A q \in Runs \ {r} : loc'[q] = loc[q]
    <3>1. CASE loc' = loc
      BY <1>1, <3>1, Zenon DEF Typed
    <3>2. CASE loc' = [loc EXCEPT ![r] = FreshLocals]
      BY <1>1, <3>2, Dropped
    <3> QED
      BY <3>1, <3>2
  <2>5. repo' \in Runs \union {None} /\ outcome' = [q \in Runs |-> outcome'[q]]
    BY <1>1, Zenon DEF Typed
  <2>6. \A q \in Runs : WritesOf(q)' = WritesOf(q)
    BY SameWrites
  <2>7. run'[r] \in RunRows \union {None}
    BY <2>2, <2>3, StopRowSays
  <2>8. StepOf(r) /\ pc'[r] = where
    BY <1>1, <2>3, <2>4, <2>5, <2>6, <2>7, Moves
  <2>9. Counted(r)'
    <3>1. /\ run'[r] # None /\ run'[r].seen = run[r].seen
          /\ run'[r].written = run[r].written /\ run'[r].pages = run[r].pages
      BY <2>2, <2>3, StopRowSays
    <3> QED
      BY <1>1, <2>2, <2>6, <3>1 DEF Counted, RunInv
  <2>10. Completed(r)' /\ run'[r] # None
    <3>1. run'[r] # None /\ run'[r].stop = why /\ ~run'[r].finished
      BY <2>2, <2>3, StopRowSays
    <3> QED
      BY <3>1 DEF Completed, Finishing
  <2> QED
    BY <1>1, <1>2, <2>8, <2>9, <2>10, EndsKeeps
<1> QED
  BY <1>3, <1>4, Zenon DEF RecordStop

LEMMA RecordErrorKeeps ==
  ASSUME Inv, NEW r \in Runs, RecordError(r)
  PROVE  Inv'
<1>1. /\ pc[r] = "failing" /\ RecordStop(r, "error") /\ Goto(r, "raised")
      /\ order' = order /\ repo' = repo /\ outcome' = outcome /\ writes' = writes
      /\ loc' = loc
  BY DEF RecordError, hubVars
<1> QED
  BY <1>1, RecordStopKeeps

LEMMA InterruptKeeps ==
  ASSUME Inv, NEW r \in Runs, Interrupt(r)
  PROVE  Inv'
<1>1. /\ pc[r] \in InTry /\ RecordStop(r, "interrupted") /\ Goto(r, "stopped")
      /\ order' = order /\ repo' = repo /\ outcome' = outcome /\ writes' = writes
      /\ loc' = [loc EXCEPT ![r] = FreshLocals]
  BY DEF Interrupt, hubVars
<1> QED
  BY <1>1, RecordStopKeeps

-----------------------------------------------------------------------------
(* A step of a run within the try block, or to its end.                    *)
LEMMA ScansKeeps ==
  ASSUME Inv, NEW r \in Runs, NEW where \in InTry \union {"finish"},
         Goto(r, where), pc[r] \in InTry, order' = order, run' = run, outcome' = outcome,
         writes' = writes, repo' \in Runs \union {None}, repo # None => repo' # None,
         loc' = [q \in Runs |-> loc'[q]], IsLocals(loc'[r]),
         \A q \in Runs \ {r} : loc'[q] = loc[q],
         Scanned(r)', Paged(r)'
  PROVE  Inv'
<1>1. Typed /\ RunInv(r) /\ where \in Places
  BY DEF Inv, Places
<1>2. /\ StepOf(r) /\ pc'[r] = where /\ run'[r] = run[r] /\ outcome'[r] = outcome[r]
      /\ WritesOf(r)' = WritesOf(r)
  BY <1>1, MovesOn
<1>3. Counted(r)' /\ Completed(r)'
  BY <1>1, <1>2, RowKept
<1>4. Recorded(r)'
  BY <1>1, <1>2 DEF RunInv, Recorded, InTry
<1>5. Told(r)'
  BY <1>1, <1>2 DEF RunInv, Told, InTry
<1> QED
  BY <1>2, <1>3, <1>4, <1>5, StepKeeps DEF RunInv

(* What Goto does to the place of a run.                                   *)
LEMMA WentTo ==
  ASSUME Typed, NEW r \in Runs, NEW where \in Places, Goto(r, where)
  PROVE  pc'[r] = where
  BY GotoPlace DEF Procs

LEMMA SaveRepositoryKeeps ==
  ASSUME Inv, NEW r \in Runs, SaveRepository(r)
  PROVE  Inv'
<1>1. /\ pc[r] = "repo" /\ Goto(r, "fetch") /\ order' = order /\ repo' = r
      /\ run' = run /\ outcome' = outcome /\ writes' = writes /\ loc' = loc
  BY DEF SaveRepository, hubVars
<1>2. Typed /\ RunInv(r) /\ pc'[r] = "fetch" /\ r # None
  BY <1>1, WentTo DEF Inv, Places, InTry
<1>3. /\ loc' = [q \in Runs |-> loc'[q]] /\ IsLocals(loc'[r])
  BY <1>1, <1>2, Zenon DEF Typed
<1>4. Scanned(r)'
  BY <1>1, <1>2 DEF RunInv, Scanned, Scanning, Closing
<1>5. Paged(r)'
  BY <1>2 DEF Paged
<1> QED
  BY <1>1, <1>2, <1>3, <1>4, <1>5, ScansKeeps DEF InTry

LEMMA ReachOffsetLimitKeeps ==
  ASSUME Inv, NEW r \in Runs, ReachOffsetLimit(r)
  PROVE  Inv'
<1>1. /\ pc[r] = "fetch" /\ Goto(r, "derive1") /\ order' = order /\ repo' = repo
      /\ run' = run /\ outcome' = outcome /\ writes' = writes
      /\ loc[r].page > OffsetPages /\ loc' = [loc EXCEPT ![r].stop = "offset_limit"]
  BY DEF ReachOffsetLimit, hubVars
<1>2. Typed /\ RunInv(r) /\ pc'[r] = "derive1"
  BY <1>1, WentTo DEF Inv, Places, InTry
<1>3. /\ loc' = [q \in Runs |-> loc'[q]] /\ \A q \in Runs \ {r} : loc'[q] = loc[q]
      /\ loc'[r] = [loc[r] EXCEPT !.stop = "offset_limit"]
  BY <1>1, <1>2, Zenon DEF Typed
<1>4. /\ IsLocals(loc'[r]) /\ loc'[r].stop = "offset_limit"
      /\ loc'[r].page = loc[r].page /\ loc'[r].pages = loc[r].pages
      /\ loc'[r].seen = loc[r].seen /\ loc'[r].written = loc[r].written
  BY <1>2, <1>3 DEF Typed, IsLocals
<1>5. Scanned(r)'
  <2>1. run[r] \in RunRows
    BY <1>1, <1>2 DEF Typed, RunInv, Recorded, InTry
  <2>2. loc[r].pages \in Nat
    BY <1>1, <1>2, <2>1 DEF RunInv, Scanned, Scanning, RunRows
  <2> QED
    BY <1>1, <1>2, <1>4, <2>2 DEF RunInv, Scanned, Scanning, Closing, Finishing
<1>6. Paged(r)' /\ repo' \in Runs \union {None}
  BY <1>1, <1>2 DEF Paged, Typed
<1> QED
  BY <1>1, <1>2, <1>3, <1>4, <1>5, <1>6, ScansKeeps DEF InTry

PageRows(page) ==
  [i \in DOMAIN page |-> [tag |-> page[i], img |-> hub[page[i]].img,
                          at |-> hub[page[i]].at]]

LEMMA FetchPageKeeps ==
  ASSUME Inv, NEW r \in Runs, FetchPage(r)
  PROVE  Inv'
<1> DEFINE first == (loc[r].page - 1) * PageSize + 1
           last  == loc[r].page * PageSize
           upto  == IF last < Len(order) THEN last ELSE Len(order)
           page  == SubSeq(order, first, upto)
           rows  == PageRows(page)
           next  == last < Len(order)
<1>1. /\ pc[r] = "fetch" /\ Goto(r, "read") /\ order' = order /\ repo' = repo
      /\ run' = run /\ outcome' = outcome /\ writes' = writes
      /\ loc[r].page <= OffsetPages
  BY DEF FetchPage, hubVars
<1>2. loc' = [loc EXCEPT ![r].rows = rows, ![r].next = next]
  BY Zenon DEF FetchPage, PageRows
<1>3. Typed /\ RunInv(r) /\ pc'[r] = "read"
  BY <1>1, WentTo DEF Inv, Places, InTry
<1>4. /\ Len(rows) \in Nat /\ DOMAIN rows = 1..Len(rows)
      /\ \A i \in DOMAIN rows : rows[i] = [tag |-> page[i], img |-> hub[page[i]].img,
                                           at |-> hub[page[i]].at]
  <2>1. run[r] \in RunRows
    BY <1>1, <1>3 DEF Typed, RunInv, Recorded, InTry
  <2>2. loc[r].page \in Nat /\ loc[r].page >= 1
    BY <1>1, <1>3, <2>1 DEF RunInv, Scanned, Scanning, RunRows
  <2>3. first \in Nat /\ first >= 1 /\ last \in Nat
    <3>1. \A a, b \in Nat : a * b \in Nat
      OBVIOUS
    <3>2. \A n \in Nat : n >= 1 => /\ (n - 1) * PageSize \in Nat
                                 /\ n * PageSize \in Nat
      <4>1. \A n \in Nat : n >= 1 => n - 1 \in Nat
        OBVIOUS
      <4> QED
        BY <3>1, <4>1, Zenon
    <3>3. (loc[r].page - 1) * PageSize \in Nat /\ last \in Nat
      BY <2>2, <3>2, Zenon
    <3>4. \A n \in Nat : n + 1 \in Nat /\ n + 1 >= 1
      OBVIOUS
    <3> QED
      BY <3>3, <3>4, Zenon
  <2>4. order \in Seq(Tags)
    BY <1>3 DEF Typed
  <2>5. upto \in Nat /\ upto <= Len(order)
    BY <2>3, <2>4
  <2>6. page \in Seq(Tags)
    <3> HIDE DEF first, upto
    <3>1. \A i \in first..upto : order[i] \in Tags
      BY <2>3, <2>4, <2>5
    <3> QED
      BY <2>3, <2>5, <3>1, SubSeqProperties
  <2> HIDE DEF page
  <2>7. rows = [i \in 1..Len(page) |-> [tag |-> page[i], img |-> hub[page[i]].img,
                                        at |-> hub[page[i]].at]]
    BY <2>6 DEF PageRows
  <2> QED
    BY <2>6, <2>7
<1> HIDE DEF first, last, upto, page, rows, next
<1>5. /\ loc' = [q \in Runs |-> loc'[q]] /\ \A q \in Runs \ {r} : loc'[q] = loc[q]
      /\ loc'[r] = [loc[r] EXCEPT !.rows = rows, !.next = next]
  BY <1>2, <1>3, Zenon DEF Typed
<1>6. /\ IsLocals(loc'[r]) /\ loc'[r].rows = rows
      /\ loc'[r].page = loc[r].page /\ loc'[r].pages = loc[r].pages
      /\ loc'[r].seen = loc[r].seen /\ loc'[r].written = loc[r].written
  BY <1>3, <1>5 DEF Typed, IsLocals
<1>7. Scanned(r)'
  BY <1>1, <1>3, <1>6 DEF RunInv, Scanned, Scanning, Closing
<1>8. Paged(r)'
  <2>1. RowsOf(r)' = {rows[i] : i \in DOMAIN rows}
    BY <1>6 DEF RowsOf
  <2>2. \A i, j \in DOMAIN rows : rows[i].tag = rows[j].tag => rows[i] = rows[j]
    <3> SUFFICES ASSUME NEW i \in DOMAIN rows, NEW j \in DOMAIN rows,
                        rows[i].tag = rows[j].tag
                 PROVE  rows[i] = rows[j]
      OBVIOUS
    <3>1. rows[i].tag = page[i] /\ rows[j].tag = page[j]
      BY <1>4
    <3> QED
      BY <1>4, <3>1, ZenonT(60)
  <2>3. \A row, other \in RowsOf(r)' : row.tag = other.tag => row = other
    BY <2>1, <2>2
  <2> QED
    BY <1>3, <1>4, <1>6, <2>3 DEF Paged
<1>9. repo' \in Runs \union {None}
  BY <1>1, <1>3 DEF Typed
<1> QED
  BY <1>1, <1>3, <1>5, <1>6, <1>7, <1>8, <1>9, ScansKeeps DEF InTry

LEMMA ReadExistingKeeps ==
  ASSUME Inv, NEW r \in Runs, ReadExisting(r)
  PROVE  Inv'
<1> DEFINE known == {row \in RowsOf(r) : db[row.tag] # None}
           diff  == {row \in known : Changed(row)}
<1>1. /\ pc[r] = "read" /\ Goto(r, "commit") /\ order' = order /\ repo' = repo
      /\ run' = run /\ outcome' = outcome /\ writes' = writes
  BY DEF ReadExisting, hubVars
<1>2. loc' = [loc EXCEPT ![r].new = RowsOf(r) \ known, ![r].changed = diff,
                         ![r].same = known \ diff]
  BY Zenon DEF ReadExisting
<1>3. Typed /\ RunInv(r) /\ pc'[r] = "commit"
  BY <1>1, WentTo DEF Inv, Places, InTry
<1>4. diff \subseteq RowsOf(r)
  OBVIOUS
<1> HIDE DEF known, diff
<1>5. /\ loc' = [q \in Runs |-> loc'[q]] /\ \A q \in Runs \ {r} : loc'[q] = loc[q]
      /\ loc'[r] = [loc[r] EXCEPT !.new = RowsOf(r) \ known, !.changed = diff,
                                  !.same = known \ diff]
  BY <1>2, <1>3, Zenon DEF Typed
<1>6. /\ IsLocals(loc'[r]) /\ loc'[r].rows = loc[r].rows
      /\ loc'[r].new \union loc'[r].changed \subseteq RowsOf(r)
      /\ loc'[r].page = loc[r].page /\ loc'[r].pages = loc[r].pages
      /\ loc'[r].seen = loc[r].seen /\ loc'[r].written = loc[r].written
  <2>1. /\ IsLocals(loc'[r]) /\ loc'[r].rows = loc[r].rows
        /\ loc'[r].new = RowsOf(r) \ known /\ loc'[r].changed = diff
        /\ loc'[r].page = loc[r].page /\ loc'[r].pages = loc[r].pages
        /\ loc'[r].seen = loc[r].seen /\ loc'[r].written = loc[r].written
    BY <1>3, <1>5, ZenonT(60) DEF Typed, IsLocals
  <2> QED
    BY <1>4, <2>1
<1>7. Scanned(r)'
  BY <1>1, <1>3, <1>6 DEF RunInv, Scanned, Scanning, Closing
<1>8. Paged(r)'
  <2>1. RowsOf(r)' = RowsOf(r)
    BY <1>6 DEF RowsOf
  <2> QED
    BY <1>1, <1>3, <1>6, <2>1 DEF RunInv, Paged
<1>9. repo' \in Runs \union {None}
  BY <1>1, <1>3 DEF Typed
<1> QED
  BY <1>1, <1>3, <1>5, <1>6, <1>7, <1>8, <1>9, ScansKeeps DEF InTry

-----------------------------------------------------------------------------
(* The rows of a page are no more than its length.                         *)
LEMMA PageIsFinite ==
  ASSUME NEW r \in Runs, Paged(r), pc[r] \in {"read", "commit"}
  PROVE  /\ IsFiniteSet(RowsOf(r)) /\ Len(loc[r].rows) \in Nat
         /\ Cardinality(RowsOf(r)) <= Len(loc[r].rows)
<1> DEFINE n == Len(loc[r].rows)
           rows == loc[r].rows
           f == [i \in 1..n |-> rows[i]]
<1>1. n \in Nat /\ DOMAIN rows = 1..n
  BY DEF Paged
<1>2. RowsOf(r) = {rows[i] : i \in 1..n}
  BY <1>1 DEF RowsOf
<1>3. f \in Surjection(1..n, RowsOf(r))
  BY <1>2 DEF Surjection
<1>4. IsFiniteSet(1..n) /\ Cardinality(1..n) = n
  <2> HIDE DEF n
  <2>1. 1 \in Int /\ n \in Int
    BY <1>1
  <2>2. IsFiniteSet(1..n) /\ Cardinality(1..n) = IF 1 > n THEN 0 ELSE n - 1 + 1
    BY <2>1, FS_Interval, Zenon
  <2> QED
    BY <1>1, <2>2
<1> HIDE DEF n, rows, f
<1>5. IsFiniteSet(RowsOf(r)) /\ Cardinality(RowsOf(r)) <= Cardinality(1..n)
  BY <1>3, <1>4, FS_Surjection
<1> QED
  BY <1>1, <1>4, <1>5 DEF n

PageWrites(r, rewrite) == {<<r, loc[r].page, row.tag>> : row \in rewrite}

(* A page's writes are as many as the rows it writes.                      *)
LEMMA OneWriteEach ==
  ASSUME NEW r \in Runs, Paged(r), pc[r] = "commit",
         NEW rewrite \in SUBSET RowsOf(r)
  PROVE  /\ IsFiniteSet(PageWrites(r, rewrite))
         /\ Cardinality(PageWrites(r, rewrite)) = Cardinality(rewrite)
         /\ Cardinality(rewrite) \in Nat /\ Len(loc[r].rows) \in Nat
         /\ Cardinality(rewrite) <= Len(loc[r].rows)
<1> DEFINE f == [row \in rewrite |-> <<r, loc[r].page, row.tag>>]
           N == PageWrites(r, rewrite)
<1>1. /\ IsFiniteSet(RowsOf(r)) /\ Len(loc[r].rows) \in Nat
      /\ Cardinality(RowsOf(r)) <= Len(loc[r].rows)
  BY PageIsFinite
<1>2. /\ IsFiniteSet(rewrite) /\ Cardinality(rewrite) <= Cardinality(RowsOf(r))
  BY <1>1, FS_Subset
<1>3. Cardinality(rewrite) \in Nat /\ Cardinality(RowsOf(r)) \in Nat
  BY <1>1, <1>2, FS_CardinalityType
<1>4. \A row, other \in rewrite : row.tag = other.tag => row = other
  BY DEF Paged
<1>5. f \in Bijection(rewrite, N)
  <2>1. f \in [rewrite -> N] /\ \A w \in N : \E row \in rewrite : f[row] = w
    BY Zenon DEF PageWrites
  <2>2. \A row, other \in rewrite : f[row] = f[other] => row = other
    BY <1>4
  <2> QED
    BY <2>1, <2>2 DEF Bijection, Injection, IsInjective, Surjection
<1> HIDE DEF f, N
<1>6. ExistsBijection(rewrite, N)
  BY <1>5 DEF ExistsBijection
<1>7. IsFiniteSet(N) /\ Cardinality(N) = Cardinality(rewrite)
  BY <1>2, <1>6, FS_Bijection
<1> QED
  BY <1>1, <1>2, <1>3, <1>7 DEF N

WithCounts(row, x, y, z) == [row EXCEPT !.pages = x, !.seen = y, !.written = z]

(* The page's writes are counted.                                          *)
LEMMA PageIsCounted ==
  ASSUME NEW r \in Runs, Paged(r), Counted(r), pc[r] = "commit",
         run[r] \in RunRows, run[r] # None, loc[r].page = run[r].pages + 1,
         NEW rewrite \in SUBSET RowsOf(r),
         NEW pages \in Nat, pages = run[r].pages + 1,
         NEW seen \in Nat, seen = run[r].seen + Len(loc[r].rows),
         NEW written \in Nat, written = run[r].written + Cardinality(rewrite),
         run'[r] = WithCounts(run[r], pages, seen, written), run'[r] # None,
         writes' = writes \union PageWrites(r, rewrite)
  PROVE  Counted(r)'
<1> DEFINE N == PageWrites(r, rewrite)
           W == WritesOf(r)
<1>1. /\ IsFiniteSet(N) /\ Cardinality(N) = Cardinality(rewrite)
      /\ Cardinality(rewrite) \in Nat /\ Len(loc[r].rows) \in Nat
      /\ Cardinality(rewrite) <= Len(loc[r].rows)
  BY OneWriteEach
<1>2. /\ run'[r].pages = pages /\ run'[r].seen = seen /\ run'[r].written = written
  BY DEF WithCounts, RunRows
<1>3. \A w \in N : w[1] = r /\ w[2] = loc[r].page
  BY DEF PageWrites
<1>4. WritesOf(r)' = W \union N
  BY <1>3 DEF WritesOf
<1>5. /\ IsFiniteSet(W) /\ run[r].written = Cardinality(W)
      /\ run[r].seen >= run[r].written
      /\ \A w \in W : w[2] \in Nat /\ w[2] <= run[r].pages
  BY DEF Counted
<1>6. run[r].pages \in Nat /\ run[r].seen \in Nat /\ run[r].written \in Nat
  BY DEF RunRows
<1>7. W \intersect N = {}
  BY <1>3, <1>5, <1>6
<1> HIDE DEF N, W
<1>8. /\ IsFiniteSet(W \union N)
      /\ Cardinality(W \union N) = Cardinality(W) + Cardinality(rewrite)
  <2>1. /\ IsFiniteSet(W \union N)
        /\ Cardinality(W \union N) = Cardinality(W) + Cardinality(N)
                                     - Cardinality(W \intersect N)
    BY <1>1, <1>5, FS_Union
  <2>2. Cardinality(W \intersect N) = 0
    BY <1>7, FS_EmptySet
  <2> QED
    BY <1>1, <1>5, <1>6, <2>1, <2>2
<1>9. \A w \in W \union N : w[2] \in Nat /\ w[2] <= run'[r].pages
  BY <1>2, <1>3, <1>5, <1>6
<1>10. /\ run'[r].written = Cardinality(W \union N)
       /\ run'[r].seen >= run'[r].written
  <2>1. Cardinality(W \union N) = written
    BY <1>1, <1>5, <1>8
  <2>2. seen >= written
    BY <1>1, <1>5, <1>6
  <2> QED
    BY <1>2, <2>1, <2>2
<1> QED
  BY <1>4, <1>8, <1>9, <1>10, Zenon DEF Counted

(* The locals after a page.                                                *)
NextLocals(l, pages, seen, written, stop) ==
  [FreshLocals EXCEPT !.page = l.page + 1, !.pages = pages, !.seen = seen,
                      !.written = written, !.stop = stop]

LEMMA CommitPageKeeps ==
  ASSUME Inv, NEW r \in Runs, CommitPage(r)
  PROVE  Inv'
<1> DEFINE rewrite == loc[r].new \union loc[r].changed
           limited == MaxPages[r] # None /\ loc[r].pages + 1 >= MaxPages[r] /\ loc[r].next
           len == Len(loc[r].rows)
           where == IF loc[r].next /\ ~limited THEN "fetch" ELSE "derive1"
           stop == IF limited THEN "max_pages" ELSE "end"
<1>1. /\ pc[r] = "commit" /\ order' = order /\ repo' = repo /\ outcome' = outcome
      /\ writes' = writes \union PageWrites(r, rewrite)
  BY DEF CommitPage, hubVars, PageWrites
<1>2. Typed /\ RunInv(r)
  BY DEF Inv
<1>3. /\ run[r] # None /\ run[r] \in RunRows
  BY <1>1, <1>2 DEF Typed, RunInv, Recorded, InTry
<1>4. /\ run[r].pages \in Nat /\ run[r].seen \in Nat /\ run[r].written \in Nat
      /\ loc[r].pages = run[r].pages /\ loc[r].seen = run[r].seen
      /\ loc[r].written = run[r].written
      /\ loc[r].page = run[r].pages + 1 /\ loc[r].page <= OffsetPages
      /\ MaxPages[r] = None \/ loc[r].pages < MaxPages[r]
      /\ repo # None
  BY <1>1, <1>2, <1>3 DEF RunInv, Scanned, Scanning, RunRows
<1>5. rewrite \in SUBSET RowsOf(r)
  BY <1>1, <1>2 DEF RunInv, Paged
<1> HIDE DEF rewrite
<1>6. /\ Cardinality(rewrite) \in Nat /\ len \in Nat
  BY <1>1, <1>2, <1>5, OneWriteEach DEF RunInv
<1> DEFINE pages == run[r].pages + 1
           seen == run[r].seen + len
           written == run[r].written + Cardinality(rewrite)
<1>7. pages \in Nat /\ seen \in Nat /\ written \in Nat
  <2>1. run[r].pages \in Nat /\ run[r].seen \in Nat /\ run[r].written \in Nat
    BY <1>4
  <2> HIDE DEF len
  <2> QED
    BY <1>6, <2>1, SMTT(60)
<1>8. run' = [run EXCEPT ![r] = WithCounts(run[r], pages, seen, written)]
  <2>1. run' = [run EXCEPT ![r].pages = @ + 1, ![r].seen = @ + len,
                           ![r].written = @ + Cardinality(rewrite)]
    BY Zenon DEF CommitPage, CountPage, rewrite
  <2> QED
    BY <1>2, <2>1, Zenon DEF Typed, WithCounts
<1> HIDE DEF len, pages, seen, written
<1>9. /\ run' = [q \in Runs |-> run'[q]]
      /\ run'[r] = WithCounts(run[r], pages, seen, written)
      /\ \A q \in Runs \ {r} : run'[q] = run[q]
  BY <1>2, <1>8 DEF Typed
<1>10. run'[r] \in RunRows /\ run'[r] # None
  <2>1. run'[r] \in RunRows
    BY <1>3, <1>7, <1>9 DEF WithCounts, RunRows
  <2> QED
    BY <2>1
<1>11. /\ run'[r].pages = pages /\ run'[r].seen = seen /\ run'[r].written = written
       /\ run'[r].stop = run[r].stop /\ run'[r].finished = run[r].finished
       /\ run'[r].error = run[r].error
  BY <1>3, <1>7, <1>9 DEF WithCounts, RunRows
<1>12. Counted(r)'
  BY <1>1, <1>2, <1>3, <1>4, <1>5, <1>7, <1>9, <1>10, PageIsCounted
     DEF RunInv, pages, seen, written, len
<1>13. Completed(r)'
  BY <1>1, <1>2, <1>3, <1>11 DEF RunInv, Recorded, Completed, InTry, Finishing
<1>14. \A q \in Runs \ {r} : WritesOf(q)' = WritesOf(q)
  <2>1. \A w \in PageWrites(r, rewrite) : w[1] = r
    BY DEF PageWrites
  <2> QED
    BY <1>1, <2>1 DEF WritesOf
<1>15. run[r].stop = None /\ ~run[r].finished
  BY <1>1, <1>2 DEF RunInv, Recorded, InTry
<1>16. CASE /\ Goto(r, where)
            /\ loc' = [loc EXCEPT ![r] = NextLocals(loc[r], pages, seen, written, stop)]
  <2>1. /\ loc' = [q \in Runs |-> loc'[q]] /\ \A q \in Runs \ {r} : loc'[q] = loc[q]
        /\ loc'[r] = NextLocals(loc[r], pages, seen, written, stop)
    BY <1>2, <1>16, Zenon DEF Typed
  <2>2. /\ IsLocals(loc'[r]) /\ loc'[r].page = loc[r].page + 1 /\ loc'[r].pages = pages
        /\ loc'[r].seen = seen /\ loc'[r].written = written /\ loc'[r].stop = stop
    <3> HIDE DEF stop
    <3> QED
      BY <2>1 DEF NextLocals, FreshLocals, IsLocals
  <2>3. repo' \in Runs \union {None} /\ outcome' = [q \in Runs |-> outcome'[q]]
    BY <1>1, <1>2, Zenon DEF Typed
  <2>4. where \in InTry /\ where \in Places /\ repo' # None
    BY <1>1, <1>4 DEF Places, InTry
  <2>5. StepOf(r) /\ pc'[r] = where
    <3> HIDE DEF where, stop
    <3> QED
      BY <1>1, <1>2, <1>9, <1>10, <1>14, <1>16, <2>1, <2>2, <2>3, <2>4, Moves, ZenonT(60)
  <2>6. Recorded(r)'
    BY <1>10, <1>11, <1>15, <2>4, <2>5 DEF Recorded, InTry
  <2>7. Scanned(r)'
    <3>1. /\ loc'[r].pages = run'[r].pages /\ loc'[r].seen = run'[r].seen
          /\ loc'[r].written = run'[r].written
          /\ loc'[r].page = loc'[r].pages + 1 /\ loc'[r].pages <= OffsetPages
      BY <1>4, <1>11, <2>2 DEF pages
    <3>2. CASE where = "fetch"
      <4>1. MaxPages[r] = None \/ loc'[r].pages < MaxPages[r]
        <5>1. loc[r].next /\ ~limited
          BY <3>2, Zenon
        <5>2. MaxPages[r] = None \/ ~(loc[r].pages + 1 >= MaxPages[r])
          BY <5>1, Zenon
        <5>3. MaxPages[r] = None \/ MaxPages[r] \in Nat
          OBVIOUS
        <5>4. loc'[r].pages = loc[r].pages + 1 /\ loc[r].pages \in Nat
          BY <1>4, <2>2 DEF pages
        <5> QED
          BY <5>2, <5>3, <5>4
      <4> QED
        BY <2>4, <2>5, <3>1, <3>2, <4>1 DEF Scanned, Scanning, Closing
    <3>3. CASE where = "derive1"
      <4>1. stop \in Finishing /\ (stop = "max_pages" => pages = MaxPages[r])
            /\ stop # "offset_limit"
        <5>1. /\ run[r].pages \in Nat /\ loc[r].pages = run[r].pages
              /\ MaxPages[r] = None \/ MaxPages[r] \in Nat
              /\ MaxPages[r] = None \/ loc[r].pages < MaxPages[r]
          BY <1>4, Zenon
        <5>2. limited => pages = MaxPages[r]
          BY <5>1 DEF pages
        <5> QED
          BY <5>2 DEF Finishing
      <4> HIDE DEF stop
      <4> QED
        BY <2>2, <2>4, <2>5, <3>1, <3>3, <4>1 DEF Scanned, Scanning, Closing
    <3> QED
      BY <3>2, <3>3
  <2>8. Paged(r)'
    BY <2>5 DEF Paged
  <2>9. Told(r)'
    BY <1>1, <1>2, <2>5 DEF RunInv, Told
  <2> QED
    BY <1>12, <1>13, <2>5, <2>6, <2>7, <2>8, <2>9, StepKeeps DEF RunInv
<1>17. CASE Goto(r, "failing") /\ loc' = [loc EXCEPT ![r] = FreshLocals]
  <2>1. /\ loc' = [q \in Runs |-> loc'[q]] /\ IsLocals(loc'[r])
        /\ \A q \in Runs \ {r} : loc'[q] = loc[q]
    BY <1>2, <1>17, Dropped
  <2>2. repo' \in Runs \union {None} /\ outcome' = [q \in Runs |-> outcome'[q]]
    BY <1>1, <1>2, Zenon DEF Typed
  <2>3. "failing" \in Places /\ repo' # None
    BY <1>1, <1>4 DEF Places
  <2>4. StepOf(r) /\ pc'[r] = "failing"
    BY <1>1, <1>2, <1>9, <1>10, <1>14, <1>17, <2>1, <2>2, <2>3, Moves, ZenonT(60)
  <2> QED
    BY <1>1, <1>10, <1>11, <1>12, <1>13, <1>15, <2>4, EndsKeeps DEF Ending
<1> QED
  <2>1. \/ /\ Goto(r, where)
           /\ loc' = [loc EXCEPT
                ![r] = [FreshLocals EXCEPT !.page = loc[r].page + 1,
                                           !.pages = loc[r].pages + 1,
                                           !.seen = loc[r].seen + len,
                                           !.written = loc[r].written + Cardinality(rewrite),
                                           !.stop = stop]]
        \/ Goto(r, "failing") /\ loc' = [loc EXCEPT ![r] = FreshLocals]
    BY Zenon DEF CommitPage, rewrite, len
  <2>2. /\ loc[r].pages + 1 = pages /\ loc[r].seen + len = seen
        /\ loc[r].written + Cardinality(rewrite) = written
    BY <1>4 DEF pages, seen, written
  <2> QED
    BY <1>16, <1>17, <2>1, <2>2, Zenon DEF NextLocals

-----------------------------------------------------------------------------
FinishedRow(row, stop) == [row EXCEPT !.stop = stop, !.finished = TRUE, !.error = FALSE]

LEMMA FinishKeeps ==
  ASSUME Inv, NEW r \in Runs, Finish(r)
  PROVE  Inv'
<1>1. Typed /\ RunInv(r) /\ pc[r] = "finish"
  BY Zenon DEF Inv, Finish
<1>2. /\ order' = order /\ repo' = repo /\ writes' = writes /\ loc' = loc
  BY DEF Finish, hubVars
<1>3. run' = [run EXCEPT ![r] = FinishedRow(run[r], loc[r].stop)]
  BY <1>1, Zenon DEF Finish, FinishedRow, Typed
<1>4. /\ run[r] \in RunRows /\ run[r] # None /\ loc[r].stop \in Finishing /\ repo # None
      /\ loc[r].pages = run[r].pages /\ loc[r].seen = run[r].seen
      /\ loc[r].written = run[r].written
      /\ loc[r].stop = "max_pages" => loc[r].pages = MaxPages[r]
      /\ loc[r].stop = "offset_limit" => loc[r].pages = OffsetPages
  BY <1>1 DEF Typed, RunInv, Recorded, Scanned, Closing
<1>5. /\ run' = [q \in Runs |-> run'[q]] /\ run'[r] = FinishedRow(run[r], loc[r].stop)
      /\ \A q \in Runs \ {r} : run'[q] = run[q]
  BY <1>1, <1>3 DEF Typed
<1>6. run'[r] \in RunRows /\ run'[r] # None
  <2>1. run'[r] \in RunRows
    BY <1>4, <1>5 DEF FinishedRow, RunRows
  <2> QED
    BY <2>1
<1>7. /\ run'[r].pages = run[r].pages /\ run'[r].seen = run[r].seen
      /\ run'[r].written = run[r].written /\ run'[r].stop = loc[r].stop
      /\ run'[r].finished /\ ~run'[r].error
  BY <1>4, <1>5 DEF FinishedRow, RunRows
<1>8. \A q \in Runs : WritesOf(q)' = WritesOf(q)
  BY <1>2, SameWrites
<1>9. Counted(r)'
  BY <1>1, <1>4, <1>6, <1>7, <1>8 DEF RunInv, Counted
<1>10. Completed(r)'
  BY <1>2, <1>4, <1>7 DEF Completed
<1>11. outcome[r] = None
  BY <1>1 DEF RunInv, Told
<1>12. /\ repo' \in Runs \union {None} /\ loc' = [q \in Runs |-> loc'[q]]
       /\ IsLocals(loc'[r]) /\ \A q \in Runs \ {r} : loc'[q] = loc[q]
  BY <1>1, <1>2, Zenon DEF Typed
<1> DEFINE told == [stop |-> loc[r].stop, pages |-> loc[r].pages,
                    seen |-> loc[r].seen, written |-> loc[r].written]
<1>13. CASE outcome' = [outcome EXCEPT ![r] = told] /\ Goto(r, "done")
  <2>1. /\ outcome' = [q \in Runs |-> outcome'[q]] /\ outcome'[r] = told
        /\ \A q \in Runs \ {r} : outcome'[q] = outcome[q]
    BY <1>1, <1>13, Zenon DEF Typed
  <2>2. "done" \in Places
    BY DEF Places, Over
  <2>3. StepOf(r) /\ pc'[r] = "done"
    <3> HIDE DEF told
    <3> QED
      BY <1>1, <1>2, <1>4, <1>5, <1>6, <1>8, <1>12, <1>13, <2>1, <2>2, Moves, ZenonT(60)
  <2>4. Recorded(r)'
    BY <1>6, <2>3 DEF Recorded, InTry
  <2>5. Scanned(r)' /\ Paged(r)'
    BY <2>3 DEF Scanned, Paged, Scanning, Closing
  <2>6. Told(r)'
    BY <1>4, <1>6, <1>7, <2>1, <2>3 DEF Told
  <2> QED
    BY <1>9, <1>10, <2>3, <2>4, <2>5, <2>6, StepKeeps DEF RunInv
<1>14. CASE outcome' = outcome /\ Goto(r, "raised")
  <2>1. outcome' = [q \in Runs |-> outcome'[q]]
    BY <1>1, <1>14, Zenon DEF Typed
  <2>2. "raised" \in Places
    BY DEF Places
  <2>3. StepOf(r) /\ pc'[r] = "raised"
    BY <1>1, <1>2, <1>4, <1>5, <1>6, <1>8, <1>12, <1>14, <2>1, <2>2, Moves
  <2> QED
    BY <1>1, <1>9, <1>10, <1>14, <2>3, EndsKeeps DEF Ending
<1> QED
  BY <1>13, <1>14, Zenon DEF Finish

LEMMA ReportFailureKeeps ==
  ASSUME Inv, NEW r \in Runs, ReportFailure(r)
  PROVE  Inv'
<1> DEFINE row == [stop |-> IF run[r].stop = None THEN "error" ELSE run[r].stop,
                   pages |-> run[r].pages, seen |-> run[r].seen,
                   written |-> run[r].written]
           exc == [stop |-> "error", pages |-> 0, seen |-> 0, written |-> 0]
<1>1. /\ Typed /\ RunInv(r) /\ pc[r] = "raised" /\ Goto(r, "failed")
      /\ order' = order /\ repo' = repo /\ writes' = writes /\ loc' = loc /\ run' = run
  BY DEF Inv, ReportFailure, hubVars
<1>2. PICK told : /\ outcome' = [outcome EXCEPT ![r] = told]
                  /\ (told = row /\ run[r] # None) \/ told = exc
  BY Zenon DEF ReportFailure
<1>3. told.stop \in Finishing => run[r] # None /\ run[r].finished
  BY <1>1, <1>2 DEF RunInv, Completed, Finishing
<1>4. /\ outcome' = [q \in Runs |-> outcome'[q]] /\ outcome'[r] = told
      /\ \A q \in Runs \ {r} : outcome'[q] = outcome[q]
  BY <1>1, <1>2, Zenon DEF Typed
<1>5. /\ repo' \in Runs \union {None} /\ loc' = [q \in Runs |-> loc'[q]]
      /\ IsLocals(loc'[r])
  BY <1>1, Zenon DEF Typed
<1>6. /\ run' = [q \in Runs |-> run'[q]] /\ run'[r] \in RunRows \union {None}
  BY <1>1 DEF Typed
<1>7. \A q \in Runs : WritesOf(q)' = WritesOf(q)
  BY <1>1, SameWrites
<1>8. "failed" \in Places
  BY DEF Places, Over
<1>9. StepOf(r) /\ pc'[r] = "failed"
  BY <1>1, <1>4, <1>5, <1>6, <1>7, <1>8, Moves
<1>10. Counted(r)' /\ Completed(r)'
  BY <1>1, <1>7, RowKept
<1>11. Recorded(r)' /\ Scanned(r)' /\ Paged(r)'
  BY <1>9 DEF Recorded, Scanned, Paged, Scanning, Closing, InTry
<1>12. Told(r)'
  BY <1>1, <1>3, <1>4, <1>9 DEF Told
<1> QED
  BY <1>9, <1>10, <1>11, <1>12, StepKeeps DEF RunInv

-----------------------------------------------------------------------------
(* Steps that no run takes.                                                *)
LEMMA OutsideKeeps ==
  ASSUME Inv, order' \in Seq(Tags), pc' \in [Procs -> Places],
         \A q \in Runs : pc'[q] = pc[q],
         repo' = repo, run' = run, loc' = loc, outcome' = outcome, writes' = writes
  PROVE  Inv'
<1>1. Typed'
  BY Zenon DEF Inv, Typed, IsLocals
<1>2. \A q \in Runs : LeavesAlone(q)
  BY SameWrites DEF LeavesAlone
<1> QED
  BY <1>1, <1>2, StoodStill DEF Inv

LEMMA OthersAreTags ==
  ASSUME Typed, NEW t \in Tags
  PROVE  Others(t) \in Seq(Tags)
<1> DEFINE places == {i \in DOMAIN order : order[i] = t}
<1>1. CASE places = {}
  BY <1>1 DEF Others, Typed
<1>2. CASE places # {}
  <2> DEFINE i == CHOOSE i \in places : TRUE
  <2>1. i \in places
    BY <1>2
  <2>2. i \in 1..Len(order) /\ order \in Seq(Tags)
    BY <2>1 DEF Typed
  <2> HIDE DEF i
  <2>3. RemoveAt(order, i) \in Seq(Tags)
    BY <2>2 DEF RemoveAt
  <2> QED
    BY <1>2, <2>3 DEF Others, i
<1> QED
  BY <1>1, <1>2

LEMMA HubKeeps ==
  ASSUME Inv, Hub
  PROVE  Inv'
<1>1. PICK t \in Tags : Delete(t) \/ \E img \in Images : Push(t, img)
  BY DEF Hub
<1>2. Others(t) \in Seq(Tags)
  BY OthersAreTags DEF Inv
<1>3. <<t>> \o Others(t) \in Seq(Tags)
  BY <1>2
<1>4. /\ order' \in Seq(Tags) /\ pc' = pc /\ repo' = repo /\ run' = run /\ loc' = loc
      /\ outcome' = outcome /\ writes' = writes
  <2>1. CASE Delete(t)
    BY <1>2, <2>1 DEF Delete
  <2>2. CASE \E img \in Images : Push(t, img)
    BY <1>3, <2>2 DEF Push
  <2> QED
    BY <1>1, <2>1, <2>2
<1> QED
  BY <1>4, OutsideKeeps DEF Inv, Typed

(* A step of a derive command.                                             *)
LEMMA CommandKeeps ==
  ASSUME Inv, NEW d \in Derivers, NEW where \in Places, Goto(d, where),
         order' = order, repo' = repo, run' = run, loc' = loc, outcome' = outcome,
         writes' = writes
  PROVE  Inv'
<1>1. d \in Procs /\ \A q \in Runs : q \in Procs \ {d}
  BY DEF Procs
<1>2. pc' \in [Procs -> Places] /\ \A q \in Runs : pc'[q] = pc[q]
  BY <1>1, GotoPlace DEF Inv
<1> QED
  BY <1>2, OutsideKeeps DEF Inv, Typed

(* A step of a run's derivation.                                           *)
LEMMA DerivationKeeps ==
  ASSUME Inv, NEW r \in Runs, pc[r] \in {"derive1", "derive2", "derive3"},
         NEW where \in {"derive2", "derive3", "finish", "failing"}, Goto(r, where),
         order' = order, repo' = repo, run' = run, loc' = loc, outcome' = outcome,
         writes' = writes
  PROVE  Inv'
<1>1. Typed /\ RunInv(r) /\ pc[r] \in InTry
  BY DEF Inv, InTry
<1>2. CASE where = "failing"
  BY <1>1, <1>2, BreaksKeeps DEF Ending, InTry
<1>3. CASE where # "failing"
  <2>1. pc'[r] = where
    BY <1>1, WentTo DEF Places, InTry
  <2>2. Scanned(r)'
    BY <1>1, <1>3, <2>1 DEF RunInv, Scanned, Scanning, Closing
  <2>3. Paged(r)'
    BY <1>3, <2>1 DEF Paged
  <2>4. /\ loc' = [q \in Runs |-> loc'[q]] /\ IsLocals(loc'[r])
        /\ repo' \in Runs \union {None}
    BY <1>1, Zenon DEF Typed
  <2>5. where \in InTry \union {"finish"}
    BY <1>3 DEF InTry
  <2> QED
    BY <1>1, <2>2, <2>3, <2>4, <2>5, ScansKeeps
<1> QED
  BY <1>2, <1>3

LEMMA DerivingKeeps ==
  ASSUME Inv, NEW p \in Procs, Deriving(p)
  PROVE  Inv'
<1>1. /\ order' = order /\ repo' = repo /\ run' = run /\ loc' = loc
      /\ outcome' = outcome /\ writes' = writes
  BY DEF Deriving, DeriveReadTags, DeriveReadPlatforms, DeriveWrite, hubVars
<1>2. /\ pc[p] \in {"derive1", "derive2", "derive3"}
      /\ \E where \in {"derive2", "derive3"} \union
                      (IF p \in Runs THEN {"finish", "failing"} ELSE {"done"}) :
           Goto(p, where)
  BY DEF Deriving, DeriveReadTags, DeriveReadPlatforms, DeriveWrite
<1>3. CASE p \in Runs
  BY <1>1, <1>2, <1>3, DerivationKeeps
<1>4. CASE p \notin Runs
  <2>1. p \in Derivers
    BY <1>4 DEF Procs
  <2>2. \E where \in Places : Goto(p, where)
    BY <1>2, <1>4 DEF Places, InTry, Over
  <2> QED
    BY <1>1, <2>1, <2>2, CommandKeeps
<1> QED
  BY <1>3, <1>4

-----------------------------------------------------------------------------
LEMMA InvInit ==
  ASSUME Init
  PROVE  Inv
<1>1. order \in Seq(Tags)
  <2>1. /\ Len(InitialHub) \in Nat
        /\ \A i \in 1..Len(InitialHub) : InitialHub[i].tag \in Tags
    <3>1. /\ InitialHub \in Seq([tag : Tags, img : Images])
          /\ Len(InitialHub) \in Nat
      OBVIOUS
    <3>2. \A i \in 1..Len(InitialHub) : InitialHub[i] \in [tag : Tags, img : Images]
      BY <3>1, ElementOfSeq
    <3> QED
      BY <3>1, <3>2
  <2> QED
    BY <2>1 DEF Init
<1>2. /\ run = [r \in Runs |-> None] /\ outcome = [r \in Runs |-> None]
      /\ loc = [r \in Runs |-> FreshLocals] /\ writes = {} /\ repo = None
      /\ pc = [p \in Procs |-> "idle"]
  BY DEF Init
<1>3. IsLocals(FreshLocals)
  BY DEF IsLocals, FreshLocals
<1>4. Typed
  <2>1. outcome = [r \in Runs |-> outcome[r]] /\ loc = [r \in Runs |-> loc[r]]
    BY <1>2
  <2>2. /\ run \in [Runs -> RunRows \union {None}] /\ pc \in [Procs -> Places]
        /\ repo \in Runs \union {None}
    BY <1>2 DEF Places
  <2>3. \A r \in Runs : IsLocals(loc[r])
    BY <1>2, <1>3
  <2> QED
    BY <1>1, <2>1, <2>2, <2>3 DEF Typed
<1>5. ASSUME NEW r \in Runs
      PROVE  RunInv(r)
  <2>1. run[r] = None /\ outcome[r] = None /\ loc[r] = FreshLocals /\ pc[r] = "idle"
    BY <1>2 DEF Procs
  <2>2. WritesOf(r) = {}
    BY <1>2 DEF WritesOf
  <2>3. Recorded(r) /\ Counted(r) /\ Completed(r) /\ Told(r)
    BY <2>1, <2>2 DEF Recorded, Counted, Completed, Told, InTry
  <2>4. Scanned(r) /\ Paged(r)
    BY <2>1 DEF Scanned, Paged, Scanning, Closing
  <2> QED
    BY <2>3, <2>4 DEF RunInv
<1> QED
  BY <1>4, <1>5 DEF Inv

LEMMA InvStep ==
  ASSUME Inv, [Next]_vars
  PROVE  Inv'
<1>1. CASE Hub
  BY <1>1, HubKeeps
<1>2. ASSUME NEW r \in Runs, Collecting(r)
      PROVE  Inv'
  BY <1>2, StartRunKeeps, SaveRepositoryKeeps, FetchPageKeeps, ReachOffsetLimitKeeps,
     ReadExistingKeeps, CommitPageKeeps, FinishKeeps, RecordErrorKeeps,
     ReportFailureKeeps DEF Collecting
<1>3. ASSUME NEW r \in Runs, Breaking(r)
      PROVE  Inv'
  BY <1>3, StartFailsKeeps, FailKeeps, InterruptKeeps, CrashKeeps, FinishFailsKeeps
     DEF Breaking
<1>4. ASSUME NEW d \in Derivers, DeriveBegins(d) \/ DeriveFails(d)
      PROVE  Inv'
  <2>1. /\ order' = order /\ repo' = repo /\ run' = run /\ loc' = loc
        /\ outcome' = outcome /\ writes' = writes
        /\ Goto(d, "derive1") \/ Goto(d, "failed")
    BY <1>4 DEF DeriveBegins, DeriveFails, hubVars
  <2>2. "derive1" \in Places /\ "failed" \in Places
    BY DEF Places, InTry, Over
  <2> QED
    BY <2>1, <2>2, CommandKeeps
<1>5. ASSUME NEW p \in Procs, Deriving(p)
      PROVE  Inv'
  BY <1>5, DerivingKeeps
<1>6. CASE UNCHANGED vars
  <2>1. /\ order' = order /\ pc' = pc /\ repo' = repo /\ run' = run /\ loc' = loc
        /\ outcome' = outcome /\ writes' = writes
    BY <1>6 DEF vars, hubVars
  <2> QED
    BY <2>1, OutsideKeeps DEF Inv, Typed
<1> QED
  BY <1>1, <1>2, <1>3, <1>4, <1>5, <1>6 DEF Next

LEMMA InvIsHonest ==
  ASSUME Inv
  PROVE  RecordsAreHonest
<1>1. CountersMatchStore
  BY Zenon DEF Inv, RunInv, Counted, CountersMatchStore
<1>2. FinishedMeansCompleted
  BY DEF Inv, RunInv, Completed, FinishedMeansCompleted
<1>3. OutcomeHonest
  BY DEF Inv, RunInv, Told, OutcomeHonest
<1> QED
  BY <1>1, <1>2, <1>3 DEF RecordsAreHonest

(* For any number of overlapping runs and derive commands, whatever the    *)
(* Hub does, and wherever a run fails, is interrupted or is killed: the    *)
(* counters of a run's row are what the run has stored, the row is         *)
(* finished only for a run that came to a good end, and what collect_all   *)
(* reports says no more than the row.                                      *)
THEOREM RowsTellTheTruth == Spec => []RecordsAreHonest
<1>1. Init => Inv
  BY InvInit
<1>2. Inv /\ [Next]_vars => Inv'
  BY InvStep
<1>3. Inv => RecordsAreHonest
  BY InvIsHonest
<1> QED
  BY <1>1, <1>2, <1>3, PTL DEF Spec
-----------------------------------------------------------------------------
(***************************************************************************)
(* Runs that take turns (MaxConcurrent = 1).  InTurns is the invariant:    *)
(* what the Hub lists, what a page may say of it, and what is stored.      *)
(***************************************************************************)

(* A name and an image of one tag.                                         *)
Truthful(t, img) == NameDistro[t] \in {None, TrueDistro[img]}

(* The list names the tags that the Hub has, each once.                    *)
Listed ==
  /\ pushes \in Nat
  /\ hub \in [Tags -> HubEntries \union {None}]
  /\ \A i, j \in 1..Len(order) : order[i] = order[j] => i = j
  /\ \A t \in Tags : hub[t] # None <=> \E i \in 1..Len(order) : order[i] = t
  /\ \A t \in Tags : hub[t] # None => hub[t].at <= pushes /\ Truthful(t, hub[t].img)

(* The runs take turns.                                                    *)
Turn == \A q, r \in Runs : q < r /\ pc[r] # "idle" => pc[q] \in Over

(* What is stored of a tag is no newer than what the Hub has.              *)
Kept ==
  /\ db \in [Tags -> TagRows \union {None}]
  /\ \A t \in Tags : db[t] # None =>
       /\ db[t].at <= pushes
       /\ hub[t] # None => db[t].at <= hub[t].at

(* A page received is what the Hub had, and no older than what is stored.  *)
Received(r) ==
  pc[r] \in {"read", "commit"} => \A row \in RowsOf(r) :
    /\ row \in [tag : Tags, img : Images, at : Nat] /\ row.at <= pushes
    /\ Truthful(row.tag, row.img)
    /\ hub[row.tag] # None => \/ row.at < hub[row.tag].at
                              \/ row.at = hub[row.tag].at /\ row.img = hub[row.tag].img
    /\ db[row.tag] # None => db[row.tag].at <= row.at

(* A page's tags are classified against what is still stored.              *)
Classified(r) ==
  pc[r] = "commit" =>
    /\ loc[r].new = {row \in RowsOf(r) : db[row.tag] = None}
    /\ loc[r].changed = {row \in RowsOf(r) : db[row.tag] # None /\ Changed(row)}
    /\ loc[r].same = {row \in RowsOf(r) : db[row.tag] # None /\ ~Changed(row)}

(* The tag is stored as the Hub has it, collected by the run.              *)
Current(r, t) ==
  db[t] # None /\ db[t].img = hub[t].img /\ db[t].at = hub[t].at /\ db[t].asOf = r

(* The tag stands behind the first n of the list.                          *)
Behind(t, n) == \E i \in 1..Len(order) : i > n /\ order[i] = t

(* The page received has the tag as the Hub has it.                        *)
OnPage(r, t) ==
  \E row \in RowsOf(r) : row.tag = t /\ row.img = hub[t].img /\ row.at = hub[t].at

Latest(r) == \A q \in Runs : q > r => pc[q] = "idle"

(* A tag that kept its place is stored, or on the page, or yet to come.    *)
Reached(r) ==
  /\ settled[r] \subseteq {t \in Tags : hub[t] # None}
  /\ pc[r] = "repo" => loc[r].page = 1
  /\ pc[r] = "fetch" => \A t \in settled[r] :
       Current(r, t) \/ Behind(t, (loc[r].page - 1) * PageSize)
  /\ pc[r] \in {"read", "commit"} => \A t \in settled[r] :
       \/ Current(r, t) \/ OnPage(r, t)
       \/ loc[r].next /\ Behind(t, loc[r].page * PageSize)
  /\ pc[r] \in Closing /\ loc[r].stop = "end" => \A t \in settled[r] : Current(r, t)
  /\ run[r] # None /\ run[r].stop = "end" /\ Latest(r) =>
       \A t \in settled[r] : Current(r, t)

TurnInv(r) == Received(r) /\ Classified(r) /\ Reached(r)

(* A derivation works on stored tags.                                      *)
Noted(p) == pc[p] \in {"derive2", "derive3"} => DOMAIN seenRows[p] \subseteq Stored

Histories == seenRows = [p \in Procs |-> seenRows[p]] /\ settled = [r \in Runs |-> settled[r]]

InTurns == /\ Inv /\ Listed /\ Turn /\ Kept /\ Histories
           /\ \A r \in Runs : TurnInv(r)
           /\ \A p \in Procs : Noted(p)

-----------------------------------------------------------------------------
(* The Hub's list.                                                         *)

(* What is left of a list without its entry k.                             *)
LEMMA RemoveAtSays ==
  ASSUME NEW S, NEW s \in Seq(S), NEW k \in 1..Len(s)
  PROVE  /\ RemoveAt(s, k) \in Seq(S) /\ Len(RemoveAt(s, k)) = Len(s) - 1
         /\ \A j \in 1..Len(s) - 1 :
              RemoveAt(s, k)[j] = IF j < k THEN s[j] ELSE s[j + 1]
<1> DEFINE a == SubSeq(s, 1, k - 1)
           b == SubSeq(s, k + 1, Len(s))
<1>1. /\ Len(s) \in Nat /\ \A i \in 1..Len(s) : s[i] \in S
  OBVIOUS
<1>2. /\ a \in Seq(S) /\ Len(a) = k - 1 /\ \A i \in 1..k - 1 : a[i] = s[i]
  BY <1>1
<1>3. /\ b \in Seq(S) /\ Len(b) = Len(s) - k
      /\ \A i \in 1..Len(s) - k : b[i] = s[k + i]
  BY <1>1
<1>4. RemoveAt(s, k) = a \o b
  BY DEF RemoveAt
<1> HIDE DEF a, b
<1>5. /\ a \o b \in Seq(S) /\ Len(a \o b) = Len(s) - 1
  <2>1. a \o b \in Seq(S) /\ Len(a \o b) = Len(a) + Len(b)
    <3>1. a \in Seq(S) /\ b \in Seq(S)
      BY <1>2, <1>3
    <3>2. \A x, y \in Seq(S) : x \o y \in Seq(S) /\ Len(x \o y) = Len(x) + Len(y)
      BY ConcatProperties
    <3> QED
      BY <3>1, <3>2, Zenon
  <2> QED
    BY <1>1, <1>2, <1>3, <2>1
<1>6. ASSUME NEW j \in 1..Len(s) - 1
      PROVE  (a \o b)[j] = IF j < k THEN s[j] ELSE s[j + 1]
  <2>1. CASE j < k
    BY <1>1, <1>2, <1>3, <2>1
  <2>2. CASE ~(j < k)
    <3>1. (a \o b)[j] = b[j - Len(a)]
      BY <1>1, <1>2, <1>3, <2>2
    <3>2. j - Len(a) \in 1..Len(s) - k /\ k + (j - Len(a)) = j + 1
      BY <1>1, <1>2, <2>2
    <3> QED
      BY <1>3, <2>2, <3>1, <3>2
  <2> QED
    BY <2>1, <2>2
<1> QED
  BY <1>4, <1>5, <1>6

(* The others keep their order; each moves forward by one place at most.   *)
LEMMA OthersKeepOrder ==
  ASSUME Typed, Listed, NEW t \in Tags
  PROVE  /\ Others(t) \in Seq(Tags)
         /\ \A i, j \in 1..Len(Others(t)) : Others(t)[i] = Others(t)[j] => i = j
         /\ \A i \in 1..Len(Others(t)) :
              /\ Others(t)[i] # t
              /\ \E j \in 1..Len(order) : order[j] = Others(t)[i]
         /\ \A j \in 1..Len(order) : order[j] # t =>
              \E i \in 1..Len(Others(t)) : Others(t)[i] = order[j] /\ i + 1 >= j
<1> DEFINE places == {i \in DOMAIN order : order[i] = t}
           o == Others(t)
<1>1. order \in Seq(Tags) /\ DOMAIN order = 1..Len(order) /\ Len(order) \in Nat
  BY DEF Typed
<1>2. \A i, j \in 1..Len(order) : order[i] = order[j] => i = j
  BY DEF Listed
<1>3. CASE places = {}
  <2>1. o = order
    BY <1>3 DEF Others
  <2>2. \A i \in 1..Len(order) : order[i] # t
    BY <1>1, <1>3
  <2> HIDE DEF o
  <2> QED
    BY <1>1, <1>2, <2>1, <2>2 DEF o
<1>4. CASE places # {}
  <2> DEFINE k == CHOOSE i \in places : TRUE
  <2>1. k \in 1..Len(order) /\ order[k] = t
    BY <1>1, <1>4
  <2>2. o = RemoveAt(order, k)
    BY <1>4 DEF Others
  <2> HIDE DEF k, o, places
  <2>3. /\ o \in Seq(Tags) /\ Len(o) = Len(order) - 1
        /\ \A j \in 1..Len(order) - 1 : o[j] = IF j < k THEN order[j] ELSE order[j + 1]
    BY <1>1, <2>1, <2>2, RemoveAtSays, ZenonT(30)
  <2>4. ASSUME NEW i \in 1..Len(o)
        PROVE  \E j \in 1..Len(order) \ {k} : /\ o[i] = order[j]
                                             /\ j = IF i < k THEN i ELSE i + 1
    <3>1. CASE i < k
      BY <1>1, <2>1, <2>3, <3>1
    <3>2. CASE ~(i < k)
      BY <1>1, <2>1, <2>3, <3>2
    <3> QED
      BY <3>1, <3>2
  <2>5. ASSUME NEW i \in 1..Len(o), NEW j \in 1..Len(o), o[i] = o[j]
        PROVE  i = j
    <3>1. PICK x \in 1..Len(order) \ {k} : /\ o[i] = order[x]
                                           /\ x = IF i < k THEN i ELSE i + 1
      BY <2>4
    <3>2. PICK y \in 1..Len(order) \ {k} : /\ o[j] = order[y]
                                           /\ y = IF j < k THEN j ELSE j + 1
      BY <2>4
    <3>3. x = y
      BY <1>2, <2>5, <3>1, <3>2
    <3> QED
      BY <1>1, <2>1, <2>3, <3>1, <3>2, <3>3
  <2>6. ASSUME NEW i \in 1..Len(o)
        PROVE  o[i] # t /\ \E j \in 1..Len(order) : order[j] = o[i]
    BY <1>2, <2>1, <2>4
  <2>7. ASSUME NEW j \in 1..Len(order), order[j] # t
        PROVE  \E i \in 1..Len(o) : o[i] = order[j] /\ i + 1 >= j
    <3>1. j # k
      BY <2>1, <2>7
    <3>2. CASE j < k
      <4>1. j \in 1..Len(o) /\ o[j] = order[j]
        BY <1>1, <2>1, <2>3, <3>2
      <4> QED
        BY <4>1
    <3>3. CASE j > k
      <4>1. j - 1 \in 1..Len(o) /\ o[j - 1] = order[j]
        BY <1>1, <2>1, <2>3, <3>3
      <4> QED
        BY <4>1
    <3> QED
      BY <1>1, <2>1, <3>1, <3>2, <3>3
  <2> QED
    BY <2>3, <2>5, <2>6, <2>7 DEF o
<1> QED
  BY <1>3, <1>4

LEMMA ListedInit ==
  ASSUME Init
  PROVE  Listed
<1> DEFINE n == Len(InitialHub)
<1>1. /\ n \in Nat
      /\ \A i \in 1..n : InitialHub[i].tag \in Tags /\ InitialHub[i].img \in Images
  <2>1. \A i \in 1..n : InitialHub[i] \in [tag : Tags, img : Images]
    BY ElementOfSeq
  <2> QED
    BY <2>1
<1>2. /\ Len(order) = n /\ \A i \in 1..n : order[i] = InitialHub[i].tag
  BY <1>1 DEF Init
<1>3. \A i, j \in 1..n : order[i] = order[j] => i = j
  BY <1>2, HubAssumption
<1>4. ASSUME NEW t \in Tags
      PROVE  \/ hub[t] = None /\ ~\E i \in 1..n : InitialHub[i].tag = t
             \/ \E i \in 1..n : /\ InitialHub[i].tag = t
                               /\ hub[t] = [img |-> InitialHub[i].img, at |-> 0]
  BY Zenon DEF Init
<1>5. ASSUME NEW t \in Tags, NEW i \in 1..n, InitialHub[i].tag = t,
             hub[t] = [img |-> InitialHub[i].img, at |-> 0]
      PROVE  hub[t] \in HubEntries /\ hub[t].at = 0 /\ Truthful(t, hub[t].img)
  BY <1>1, <1>5, HubAssumption DEF HubEntries, Truthful
<1>6. pushes = 0 /\ hub = [t \in Tags |-> hub[t]]
  BY DEF Init
<1> HIDE DEF n
<1>7. \A t \in Tags : hub[t] \in HubEntries \union {None}
  BY <1>4, <1>5
<1>8. \A t \in Tags : hub[t] # None <=> \E i \in 1..Len(order) : order[i] = t
  <2> SUFFICES ASSUME NEW t \in Tags
               PROVE  hub[t] # None <=> \E i \in 1..Len(order) : order[i] = t
    OBVIOUS
  <2>1. (\E i \in 1..Len(order) : order[i] = t) <=> \E i \in 1..n : InitialHub[i].tag = t
    BY <1>2
  <2>2. \A i \in 1..n : InitialHub[i].tag = t =>
          [img |-> InitialHub[i].img, at |-> 0] # None
    BY <1>1 DEF HubEntries
  <2> QED
    <3>1. CASE hub[t] = None /\ ~\E i \in 1..n : InitialHub[i].tag = t
      BY <2>1, <3>1
    <3>2. CASE \E i \in 1..n : /\ InitialHub[i].tag = t
                               /\ hub[t] = [img |-> InitialHub[i].img, at |-> 0]
      <4>1. hub[t] # None /\ \E i \in 1..n : InitialHub[i].tag = t
        BY <2>2, <3>2
      <4> QED
        BY <2>1, <4>1
    <3> QED
      BY <1>4, <3>1, <3>2
<1>9. \A t \in Tags : hub[t] # None => hub[t].at <= pushes /\ Truthful(t, hub[t].img)
  BY <1>4, <1>5, <1>6
<1>10. hub \in [Tags -> HubEntries \union {None}]
  BY <1>6, <1>7
<1> QED
  BY <1>2, <1>3, <1>6, <1>8, <1>9, <1>10 DEF Listed

LEMMA PushListed ==
  ASSUME Typed, Listed, NEW t \in Tags, NEW img \in Images, Push(t, img)
  PROVE  /\ Listed'
         /\ hub'[t] # None /\ hub'[t].at = pushes + 1
         /\ \A u \in Tags \ {t} : hub'[u] = hub[u]
         /\ \A u \in Tags \ {t}, n \in Nat : Behind(u, n) => Behind(u, n)'
<1> DEFINE o == Others(t)
           new == [img |-> img, at |-> pushes + 1]
<1>1. /\ pushes \in Nat /\ pushes' = pushes + 1 /\ order' = <<t>> \o o
      /\ hub' = [hub EXCEPT ![t] = new] /\ Truthful(t, img)
  BY DEF Push, Listed, Truthful
<1>2. /\ o \in Seq(Tags)
      /\ \A i, j \in 1..Len(o) : o[i] = o[j] => i = j
      /\ \A i \in 1..Len(o) : o[i] # t /\ \E j \in 1..Len(order) : order[j] = o[i]
      /\ \A j \in 1..Len(order) : order[j] # t =>
           \E i \in 1..Len(o) : o[i] = order[j] /\ i + 1 >= j
  BY OthersKeepOrder
<1> HIDE DEF o
<1>3. /\ Len(order') = Len(o) + 1 /\ order'[1] = t /\ Len(o) \in Nat
      /\ \A i \in 1..Len(o) : order'[i + 1] = o[i]
      /\ \A i \in 1..Len(order') : i = 1 \/ (i - 1 \in 1..Len(o) /\ order'[i] = o[i - 1])
  BY <1>1, <1>2
<1>4. new \in HubEntries /\ new # None
  BY <1>1 DEF HubEntries
<1> HIDE DEF new
<1>5. /\ hub' \in [Tags -> HubEntries \union {None}] /\ hub'[t] = new
      /\ \A u \in Tags \ {t} : hub'[u] = hub[u]
  BY <1>1, <1>4 DEF Listed
<1>6. \A i, j \in 1..Len(order') : order'[i] = order'[j] => i = j
  <2> SUFFICES ASSUME NEW i \in 1..Len(order'), NEW j \in 1..Len(order'),
                      order'[i] = order'[j]
               PROVE  i = j
    OBVIOUS
  <2>1. CASE i = 1
    BY <1>2, <1>3, <2>1
  <2>2. CASE i # 1
    <3>1. i - 1 \in 1..Len(o) /\ order'[i] = o[i - 1]
      BY <1>3, <2>2
    <3>2. j # 1
      BY <1>2, <1>3, <2>2, <3>1, ZenonT(60)
    <3>3. j - 1 \in 1..Len(o) /\ order'[j] = o[j - 1]
      BY <1>3, <3>2
    <3>4. i - 1 = j - 1
      BY <1>2, <3>1, <3>3, ZenonT(30)
    <3> QED
      BY <1>3, <3>4
  <2> QED
    BY <2>1, <2>2
<1>7. \A u \in Tags \ {t} : \A j \in 1..Len(order) : order[j] = u =>
        \E i \in 1..Len(order') : order'[i] = u /\ i >= j
  <2> SUFFICES ASSUME NEW u \in Tags \ {t}, NEW j \in 1..Len(order), order[j] = u
               PROVE  \E i \in 1..Len(order') : order'[i] = u /\ i >= j
    OBVIOUS
  <2>1. PICK i \in 1..Len(o) : o[i] = u /\ i + 1 >= j
    BY <1>2
  <2>2. i + 1 \in 1..Len(order') /\ order'[i + 1] = u
    BY <1>3, <2>1
  <2> QED
    BY <2>1, <2>2
<1>8. \A u \in Tags : hub'[u] # None <=> \E i \in 1..Len(order') : order'[i] = u
  <2> SUFFICES ASSUME NEW u \in Tags
               PROVE  hub'[u] # None <=> \E i \in 1..Len(order') : order'[i] = u
    OBVIOUS
  <2>1. CASE u = t
    <3>1. 1 \in 1..Len(order')
      BY <1>3
    <3> QED
      BY <1>3, <1>4, <1>5, <2>1, <3>1
  <2>2. CASE u # t
    <3>1. hub'[u] = hub[u]
      BY <1>5, <2>2
    <3>2. hub[u] # None <=> \E i \in 1..Len(order) : order[i] = u
      BY DEF Listed
    <3>3. ASSUME NEW i \in 1..Len(order'), order'[i] = u
          PROVE  \E j \in 1..Len(order) : order[j] = u
      <4>1. i - 1 \in 1..Len(o) /\ u = o[i - 1]
        BY <1>3, <2>2, <3>3, Zenon
      <4> QED
        BY <1>2, <4>1, Zenon
    <3> QED
      BY <1>7, <2>2, <3>1, <3>2, <3>3
  <2> QED
    BY <2>1, <2>2
<1>9. \A u \in Tags : hub'[u] # None => hub'[u].at <= pushes' /\ Truthful(u, hub'[u].img)
  <2> SUFFICES ASSUME NEW u \in Tags, hub'[u] # None
               PROVE  hub'[u].at <= pushes' /\ Truthful(u, hub'[u].img)
    OBVIOUS
  <2>1. CASE u = t
    BY <1>1, <1>5, <2>1 DEF new
  <2>2. CASE u # t
    <3>1. hub'[u] = hub[u]
      BY <1>5, <2>2
    <3>2. hub[u].at <= pushes /\ Truthful(u, hub[u].img) /\ hub[u].at \in Nat
      BY <3>1 DEF Listed, HubEntries
    <3> QED
      BY <1>1, <3>1, <3>2
  <2> QED
    BY <2>1, <2>2
<1>10. Listed'
  BY <1>1, <1>5, <1>6, <1>8, <1>9 DEF Listed, Truthful
<1>11. \A u \in Tags \ {t}, n \in Nat : Behind(u, n) => Behind(u, n)'
  <2> SUFFICES ASSUME NEW u \in Tags \ {t}, NEW n \in Nat, Behind(u, n)
               PROVE  Behind(u, n)'
    OBVIOUS
  <2>1. PICK j \in 1..Len(order) : j > n /\ order[j] = u
    BY DEF Behind
  <2>2. PICK i \in 1..Len(order') : order'[i] = u /\ i >= j
    BY <1>7, <2>1
  <2> QED
    BY <1>3, <2>1, <2>2 DEF Behind
<1> QED
  BY <1>4, <1>5, <1>10, <1>11 DEF new

LEMMA DeleteListed ==
  ASSUME Typed, Listed, NEW t \in Tags, Delete(t)
  PROVE  /\ Listed' /\ hub'[t] = None
         /\ \A u \in Tags \ {t} : hub'[u] = hub[u]
<1> DEFINE o == Others(t)
<1>1. /\ pushes' = pushes /\ order' = o /\ hub' = [hub EXCEPT ![t] = None]
  BY DEF Delete
<1>2. /\ \A i, j \in 1..Len(o) : o[i] = o[j] => i = j
      /\ \A i \in 1..Len(o) : o[i] # t /\ \E j \in 1..Len(order) : order[j] = o[i]
      /\ \A j \in 1..Len(order) : order[j] # t => 
           \E i \in 1..Len(o) : o[i] = order[j] /\ i + 1 >= j
  BY OthersKeepOrder
<1> HIDE DEF o
<1>3. /\ hub' \in [Tags -> HubEntries \union {None}] /\ hub'[t] = None
      /\ \A u \in Tags \ {t} : hub'[u] = hub[u]
  BY <1>1 DEF Listed
<1>4. \A u \in Tags : hub'[u] # None <=> \E i \in 1..Len(order') : order'[i] = u
  <2> SUFFICES ASSUME NEW u \in Tags
               PROVE  hub'[u] # None <=> \E i \in 1..Len(order') : order'[i] = u
    OBVIOUS
  <2>1. CASE u = t
    BY <1>1, <1>3, <1>2, <2>1
  <2>2. CASE u # t
    <3>1. hub'[u] # None <=> \E i \in 1..Len(order) : order[i] = u
      BY <1>3, <2>2 DEF Listed
    <3> QED
      <4>1. \A i \in 1..Len(order') : \E j \in 1..Len(order) : order[j] = order'[i]
        BY <1>1, <1>2
      <4>2. \A j \in 1..Len(order) : order[j] = u =>
              \E i \in 1..Len(order') : order'[i] = order[j]
        BY <1>1, <1>2, <2>2
      <4> QED
        BY <3>1, <4>1, <4>2, Zenon
  <2> QED
    BY <2>1, <2>2
<1>5. \A i, j \in 1..Len(order') : order'[i] = order'[j] => i = j
  BY <1>1, <1>2
<1>6. \A u \in Tags : hub'[u] # None => hub'[u].at <= pushes' /\ Truthful(u, hub'[u].img)
  BY <1>1, <1>3 DEF Listed
<1> QED
  BY <1>1, <1>3, <1>4, <1>5, <1>6 DEF Listed, Truthful
-----------------------------------------------------------------------------
(* Runs that take turns.                                                   *)
RunStep(r) == Collecting(r) \/ Breaking(r) \/ Deriving(r)

LEMMA RunMoves ==
  ASSUME NEW r \in Runs, RunStep(r)
  PROVE  /\ \E where \in Places \ {"idle"} : Goto(r, where)
         /\ pc[r] \notin Over
         /\ pc[r] = "idle" => /\ Cardinality({q \in Runs : Active(q)}) < MaxConcurrent
                              /\ \A q \in Runs : q < r => pc[q] # "idle"
<1>1. CASE StartRun(r) \/ StartFails(r)
  BY <1>1 DEF StartRun, StartFails, Places, InTry, Over
<1>2. CASE SaveRepository(r) \/ FetchPage(r) \/ ReachOffsetLimit(r) \/ ReadExisting(r)
  BY <1>2 DEF SaveRepository, FetchPage, ReachOffsetLimit, ReadExisting, Places, InTry,
              Over
<1>3. CASE CommitPage(r)
  BY <1>3, Zenon DEF CommitPage, Places, InTry, Over
<1>4. CASE Finish(r) \/ RecordError(r) \/ ReportFailure(r) \/ FinishFails(r)
  BY <1>4 DEF Finish, RecordError, ReportFailure, FinishFails, Places, Over
<1>5. CASE Fail(r) \/ Interrupt(r) \/ Crash(r)
  BY <1>5 DEF Fail, Interrupt, Crash, Active, Places, InTry, Over
<1>6. CASE Deriving(r)
  BY <1>6 DEF Deriving, DeriveReadTags, DeriveReadPlatforms, DeriveWrite, Places, InTry,
              Over
<1> QED
  BY <1>1, <1>2, <1>3, <1>4, <1>5, <1>6 DEF RunStep, Collecting, Breaking

(* While one run is at work, those before it are over and those after it   *)
(* have not begun.                                                         *)
Alone(r) == \A q \in Runs \ {r} : (q < r /\ pc[q] \in Over) \/ (q > r /\ pc[q] = "idle")

LEMMA RunsAreOrdered == \A q, s \in Runs : q = s \/ q < s \/ q > s
<1> SUFFICES ASSUME NEW q \in Runs, NEW s \in Runs
             PROVE  q = s \/ q < s \/ q > s
  OBVIOUS
<1>1. q \in Nat /\ s \in Nat
  OBVIOUS
<1> QED
  BY <1>1

LEMMA TakesTurn ==
  ASSUME MaxConcurrent = 1, Inv, Turn, NEW r \in Runs, RunStep(r)
  PROVE  /\ Alone(r) /\ Turn' /\ pc'[r] # "idle"
         /\ \A p \in Procs \ {r} : pc'[p] = pc[p]
         /\ \A q \in Runs : q # r => pc'[q] = pc[q]
<1>1. PICK where \in Places \ {"idle"} : Goto(r, where)
  BY RunMoves
<1>2. r \in Procs /\ Runs \subseteq Procs
  BY DEF Procs
<1>3. pc'[r] # "idle" /\ \A p \in Procs \ {r} : pc'[p] = pc[p]
  BY <1>1, <1>2, GotoPlace DEF Inv
<1>4. \A q \in Runs : q # r => pc'[q] = pc[q]
  BY <1>2, <1>3
<1>5. pc[r] \notin Over
  BY RunMoves
<1>6. ASSUME NEW q \in Runs, q > r
      PROVE  pc[q] = "idle"
  BY <1>5, <1>6 DEF Turn
<1>7. ASSUME NEW q \in Runs, q < r
      PROVE  pc[q] \in Over
  <2>1. CASE pc[r] # "idle"
    BY <1>7, <2>1 DEF Turn
  <2>2. CASE pc[r] = "idle"
    <3> DEFINE A == {s \in Runs : Active(s)}
    <3>1. Cardinality(A) < 1 /\ pc[q] # "idle"
      BY <1>7, <2>2, RunMoves
    <3>2. IsFiniteSet(A)
      BY FS_Subset
    <3>3. A = {}
      <4> HIDE DEF A
      <4> QED
        BY <3>1, <3>2, FS_CardinalityType, FS_EmptySet
    <3> QED
      BY <3>1, <3>3 DEF Active
  <2> QED
    BY <2>1, <2>2
<1>8. Alone(r)
  <2>1. \A q \in Runs \ {r} : q < r \/ q > r
    BY RunsAreOrdered
  <2> QED
    BY <1>6, <1>7, <2>1 DEF Alone
<1>9. Turn'
  <2> SUFFICES ASSUME NEW q \in Runs, NEW s \in Runs, q < s, pc'[s] # "idle"
               PROVE  pc'[q] \in Over
    BY DEF Turn, Over
  <2>1. s = r \/ s < r
    BY <1>4, <1>6, RunsAreOrdered
  <2>2. q < r /\ q # r
    <3>1. q \in Nat /\ s \in Nat /\ r \in Nat
      OBVIOUS
    <3> QED
      BY <2>1, <3>1
  <2> QED
    BY <1>4, <1>7, <2>2
<1> QED
  BY <1>3, <1>4, <1>8, <1>9

(* What a run's step leaves alone.                                         *)
OnlyTurnOf(r) ==
  /\ order' = order /\ hub' = hub /\ pushes' = pushes /\ Histories'
  /\ \A q \in Runs \ {r} :
       loc'[q] = loc[q] /\ run'[q] = run[q] /\ settled'[q] = settled[q]
  /\ \A p \in Procs \ {r} : seenRows'[p] = seenRows[p]

LEMMA StaysInTurn ==
  ASSUME Inv, Histories, NEW r \in Runs, RunStep(r)
  PROVE  OnlyTurnOf(r)
<1> USE DEF OnlyTurnOf, Histories, hubVars
<1>1. /\ run = [q \in Runs |-> run[q]] /\ loc = [q \in Runs |-> loc[q]]
      /\ \A q \in Runs \ {r} : q \in Procs \ {r}
  BY DEF Inv, Typed, Procs
<1>2. CASE StartRun(r) \/ StartFails(r)
  BY <1>1, <1>2 DEF StartRun, StartFails
<1>3. CASE SaveRepository(r)
  BY <1>1, <1>3 DEF SaveRepository
<1>4. CASE FetchPage(r)
  BY <1>1, <1>4, Zenon DEF FetchPage
<1>5. CASE ReachOffsetLimit(r)
  BY <1>1, <1>5 DEF ReachOffsetLimit
<1>6. CASE ReadExisting(r)
  BY <1>1, <1>6, Zenon DEF ReadExisting
<1>7. CASE CommitPage(r)
  BY <1>1, <1>7, Zenon DEF CommitPage, CountPage
<1>8. CASE Finish(r) \/ ReportFailure(r) \/ FinishFails(r)
  BY <1>1, <1>8, Zenon DEF Finish, ReportFailure, FinishFails
<1>9. CASE RecordError(r) \/ Interrupt(r)
  BY <1>1, <1>9, Zenon DEF RecordError, Interrupt, RecordStop
<1>10. CASE Fail(r) \/ Crash(r)
  BY <1>1, <1>10, Zenon DEF Fail, Crash
<1>11. CASE Deriving(r)
  <2>1. CASE DeriveReadTags(r)
    BY <1>1, <2>1, Zenon DEF DeriveReadTags
  <2>2. CASE DeriveReadPlatforms(r)
    BY <1>1, <2>2, Zenon DEF DeriveReadPlatforms
  <2>3. CASE DeriveWrite(r)
    BY <1>1, <2>3, Zenon DEF DeriveWrite
  <2> QED
    BY <1>11, <2>1, <2>2, <2>3 DEF Deriving
<1> QED
  BY <1>2, <1>3, <1>4, <1>5, <1>6, <1>7, <1>8, <1>9, <1>10, <1>11
     DEF RunStep, Collecting, Breaking

(* The images stored stay as they are.                                     *)
SameImages ==
  \A t \in Tags : /\ db'[t] = None <=> db[t] = None
                  /\ db[t] # None => /\ db'[t].img = db[t].img /\ db'[t].at = db[t].at
                                     /\ db'[t].asOf = db[t].asOf

(* What holds of a run in its turn still holds while it does nothing and   *)
(* neither the Hub's list nor an image stored changes.                     *)
LEMMA WaitsInTurn ==
  ASSUME NEW q \in Runs, TurnInv(q), order' = order, hub' = hub, pushes' = pushes,
         SameImages, pc'[q] = pc[q], loc'[q] = loc[q], run'[q] = run[q],
         settled'[q] = settled[q], Latest(q)' => Latest(q)
  PROVE  TurnInv(q)'
<1>1. RowsOf(q)' = RowsOf(q)
  BY DEF RowsOf
<1>2. Received(q)'
  BY <1>1 DEF TurnInv, Received, SameImages, Truthful
<1>3. Classified(q)'
  <2> SUFFICES ASSUME pc[q] = "commit"
               PROVE  Classified(q)'
    BY DEF Classified
  <2>1. \A row \in RowsOf(q) : row.tag \in Tags
    BY DEF TurnInv, Received
  <2>2. \A row \in RowsOf(q) : (db'[row.tag] = None) = (db[row.tag] = None)
    BY <2>1 DEF SameImages
  <2>3. ASSUME NEW row \in RowsOf(q), db[row.tag] # None
        PROVE  Changed(row)' = Changed(row)
    <3>1. db'[row.tag].img = db[row.tag].img /\ db'[row.tag].at = db[row.tag].at
      BY <2>1, <2>3 DEF SameImages
    <3> QED
      BY <3>1, Zenon DEF Changed, Digest
  <2>4. /\ {row \in RowsOf(q) : db'[row.tag] = None} = {row \in RowsOf(q) : db[row.tag] = None}
        /\ {row \in RowsOf(q) : db'[row.tag] # None /\ Changed(row)'}
             = {row \in RowsOf(q) : db[row.tag] # None /\ Changed(row)}
        /\ {row \in RowsOf(q) : db'[row.tag] # None /\ ~Changed(row)'}
             = {row \in RowsOf(q) : db[row.tag] # None /\ ~Changed(row)}
    BY <2>2, <2>3, Zenon
  <2> QED
    BY <1>1, <2>4 DEF TurnInv, Classified
<1>4. Reached(q)'
  <2>1. settled[q] \subseteq Tags
    BY DEF TurnInv, Reached
  <2>2. \A t \in Tags : Current(q, t)' <=> Current(q, t)
    BY DEF Current, SameImages
  <2>3. \A t \in Tags, n \in Int : Behind(t, n)' <=> Behind(t, n)
    BY DEF Behind
  <2>4. \A t \in Tags : OnPage(q, t)' <=> OnPage(q, t)
    BY <1>1 DEF OnPage
  <2> QED
    BY <2>1, <2>2, <2>3, <2>4, ZenonT(60) DEF TurnInv, Reached, Behind
<1> QED
  BY <1>2, <1>3, <1>4 DEF TurnInv

(* A run's step, and what remains to be shown of it.                       *)
LEMMA TurnOf ==
  ASSUME MaxConcurrent = 1, InTurns, NEW r \in Runs, RunStep(r), Inv', SameImages,
         Kept', TurnInv(r)', Noted(r)'
  PROVE  InTurns'
<1>1. OnlyTurnOf(r)
  BY StaysInTurn DEF InTurns
<1>2. /\ Turn' /\ pc'[r] # "idle" /\ \A p \in Procs \ {r} : pc'[p] = pc[p]
      /\ \A q \in Runs : q # r => pc'[q] = pc[q]
  BY TakesTurn DEF InTurns
<1>3. order' = order /\ hub' = hub /\ pushes' = pushes /\ Histories'
  BY <1>1 DEF OnlyTurnOf
<1>4. Listed'
  BY <1>3 DEF InTurns, Listed, Truthful
<1>5. ASSUME NEW q \in Runs \ {r}
      PROVE  TurnInv(q)'
  <2>1. Latest(q)' => Latest(q)
    BY <1>2 DEF Latest
  <2>2. /\ TurnInv(q) /\ pc'[q] = pc[q] /\ loc'[q] = loc[q] /\ run'[q] = run[q]
        /\ settled'[q] = settled[q]
    BY <1>1, <1>2 DEF InTurns, OnlyTurnOf
  <2> QED
    BY <1>3, <2>1, <2>2, WaitsInTurn
<1>6. ASSUME NEW p \in Procs \ {r}
      PROVE  Noted(p)'
  <2>1. seenRows'[p] = seenRows[p] /\ pc'[p] = pc[p] /\ Noted(p)
    BY <1>1, <1>2 DEF OnlyTurnOf, InTurns
  <2>2. Stored' = Stored
    BY DEF Stored, SameImages
  <2> QED
    BY <2>1, <2>2 DEF Noted
<1> QED
  BY <1>2, <1>3, <1>4, <1>5, <1>6 DEF InTurns

LEMMA NothingStored ==
  ASSUME InTurns, NEW r \in Runs, RunStep(r), db' = db
  PROVE  /\ SameImages /\ Kept' /\ Stored' = Stored
         /\ order' = order /\ hub' = hub /\ pushes' = pushes /\ Histories'
<1>1. OnlyTurnOf(r)
  BY StaysInTurn DEF InTurns
<1> QED
  BY <1>1 DEF OnlyTurnOf, SameImages, InTurns, Kept, Stored

(* A run's step out of its scan, or before it.                             *)
LEMMA LeavesScan ==
  ASSUME MaxConcurrent = 1, InTurns, NEW r \in Runs, RunStep(r), Inv', db' = db,
         settled' = settled,
         NEW where, where \notin {"fetch", "read", "commit", "derive2", "derive3", "finish"},
         pc'[r] = where, where = "derive1" => loc'[r].stop # "end",
         where = "repo" => loc'[r].page = 1,
         run'[r] # None /\ run'[r].stop = "end" =>
           \/ run[r] # None /\ run[r].stop = "end"
           \/ pc[r] \in Closing /\ loc[r].stop = "end"
  PROVE  InTurns'
<1>1. /\ SameImages /\ Kept' /\ order' = order /\ hub' = hub
  BY NothingStored
<1>2. Received(r)' /\ Classified(r)' /\ Noted(r)'
  BY DEF Received, Classified, Noted
<1>3. \A t \in Tags : Current(r, t) => Current(r, t)'
  BY <1>1 DEF Current
<1>4. Latest(r)' => Latest(r)
  <2>1. \A q \in Runs : q # r => pc'[q] = pc[q]
    BY TakesTurn DEF InTurns
  <2>2. \A q \in Runs : q > r => q # r
    <3>1. r \in Nat
      OBVIOUS
    <3> QED
      BY <3>1
  <2> QED
    BY <2>1, <2>2 DEF Latest
<1>5. Reached(r)
  BY DEF InTurns, TurnInv
<1>6. settled[r] \subseteq Tags
  BY <1>5 DEF Reached
<1>7. run'[r] # None /\ run'[r].stop = "end" /\ Latest(r)' =>
        \A t \in settled'[r] : Current(r, t)'
  BY <1>3, <1>4, <1>5, <1>6, Zenon DEF Reached
<1>8. ~(pc'[r] \in Closing /\ loc'[r].stop = "end")
  BY DEF Closing
<1>9. Reached(r)'
  BY <1>1, <1>5, <1>7, <1>8 DEF Reached
<1> QED
  BY <1>1, <1>2, <1>9, TurnOf DEF TurnInv

(* The place that a run's step goes to.                                    *)
LEMMA RunGoes ==
  ASSUME Inv, NEW r \in Runs, NEW where \in Places, Goto(r, where)
  PROVE  pc'[r] = where
  BY WentTo DEF Inv

LEMMA StartsInTurn ==
  ASSUME MaxConcurrent = 1, InTurns, NEW r \in Runs, Inv', StartRun(r) \/ StartFails(r)
  PROVE  InTurns'
<1>1. Inv /\ RunStep(r) /\ db' = db /\ settled' = settled
  BY DEF RunStep, Collecting, Breaking, StartRun, StartFails, InTurns
<1>2. CASE StartRun(r)
  <2>1. pc'[r] = "repo"
    BY <1>1, <1>2, RunGoes DEF StartRun, Places, InTry
  <2>2. run'[r].stop = None
    BY <2>1 DEF Inv, RunInv, Recorded, InTry
  <2>3. loc'[r].page = 1
    <3>1. pc[r] = "idle" /\ loc'[r] = loc[r]
      BY <1>2 DEF StartRun
    <3>2. loc[r] = FreshLocals
      BY <1>1, <3>1 DEF Inv, RunInv, Recorded
    <3> QED
      BY <3>1, <3>2 DEF FreshLocals
  <2> QED
    BY <1>1, <2>1, <2>2, <2>3, LeavesScan DEF Finishing
<1>3. CASE StartFails(r)
  <2>1. pc'[r] = "raised" /\ run' = run
    BY <1>1, <1>3, RunGoes DEF StartFails, Places
  <2> QED
    BY <1>1, <2>1, LeavesScan
<1> QED
  BY <1>2, <1>3

LEMMA LimitInTurn ==
  ASSUME MaxConcurrent = 1, InTurns, NEW r \in Runs, Inv', ReachOffsetLimit(r)
  PROVE  InTurns'
<1>1. /\ Inv /\ RunStep(r) /\ db' = db /\ settled' = settled /\ run' = run
      /\ pc'[r] = "derive1"
  BY RunGoes DEF RunStep, Collecting, ReachOffsetLimit, InTurns, Places, InTry
<1>2. loc' = [loc EXCEPT ![r].stop = "offset_limit"]
  BY DEF ReachOffsetLimit
<1>3. loc = [q \in Runs |-> loc[q]] /\ IsLocals(loc[r])
  BY <1>1 DEF Inv, Typed
<1>4. loc'[r] = [loc[r] EXCEPT !.stop = "offset_limit"]
  BY <1>2, <1>3, Zenon
<1>5. loc'[r].stop = "offset_limit"
  BY <1>3, <1>4 DEF IsLocals
<1> QED
  BY <1>1, <1>5, LeavesScan

LEMMA StopInTurn ==
  ASSUME MaxConcurrent = 1, InTurns, NEW r \in Runs, Inv',
         RecordError(r) \/ Interrupt(r) \/ Fail(r) \/ Crash(r)
  PROVE  InTurns'
<1>1. Inv /\ RunStep(r) /\ db' = db /\ settled' = settled
  BY DEF RunStep, Collecting, Breaking, RecordError, Interrupt, Fail, Crash, InTurns
<1>2. pc'[r] \in {"raised", "stopped", "failing"}
  BY <1>1, RunGoes DEF RecordError, Interrupt, Fail, Crash, Places, Over
<1>3. run'[r] # None /\ run'[r].stop = "end" => run[r] # None /\ run[r].stop = "end"
  <2>1. CASE run' = run
    BY <2>1
  <2>2. CASE \E why \in {"error", "interrupted"} :
               run' = [run EXCEPT ![r].stop = why, ![r].error = TRUE,
                                  ![r].finished = FALSE]
    <3>1. PICK why \in {"error", "interrupted"} :
            run' = [run EXCEPT ![r].stop = why, ![r].error = TRUE, ![r].finished = FALSE]
      BY <2>2
    <3>2. run'[r] = StopRow(run[r], why)
      BY <1>1, <3>1, Zenon DEF StopRow, Inv, Typed
    <3>3. run[r] = None \/ run[r] \in RunRows
      BY <1>1 DEF Inv, Typed
    <3>4. CASE run[r] \in RunRows
      BY <3>2, <3>4, StopRowSays
    <3>5. CASE run[r] = None
      <4>1. pc[r] \notin InTry \union {"failing"}
        BY <1>1, <3>5 DEF Inv, RunInv, Recorded
      <4>2. ~RecordError(r) /\ ~Interrupt(r)
        BY <4>1 DEF RecordError, Interrupt
      <4>3. run' = run
        BY <4>2 DEF Fail, Crash
      <4> QED
        BY <3>5, <4>3
    <3> QED
      BY <3>3, <3>4, <3>5
  <2> QED
    BY <2>1, <2>2 DEF RecordError, Interrupt, RecordStop, Fail, Crash
<1> QED
  BY <1>1, <1>2, <1>3, LeavesScan

LEMMA EndInTurn ==
  ASSUME MaxConcurrent = 1, InTurns, NEW r \in Runs, Inv',
         Finish(r) \/ FinishFails(r) \/ ReportFailure(r)
  PROVE  InTurns'
<1>1. Inv /\ RunStep(r) /\ db' = db /\ settled' = settled
  BY DEF RunStep, Collecting, Breaking, Finish, FinishFails, ReportFailure, InTurns
<1>2. pc'[r] \in {"raised", "done", "failed"}
  BY <1>1, RunGoes DEF Finish, FinishFails, ReportFailure, Places, Over
<1>3. CASE run' = run
  BY <1>1, <1>2, <1>3, LeavesScan
<1>4. CASE Finish(r)
  <2>1. pc[r] = "finish"
    BY <1>4 DEF Finish
  <2>2. run[r] \in RunRows
    BY <1>1, <2>1 DEF Inv, Typed, RunInv, Recorded
  <2>3. run'[r] = FinishedRow(run[r], loc[r].stop)
    BY <1>1, <1>4, Zenon DEF Finish, FinishedRow, Inv, Typed
  <2>4. run'[r].stop = loc[r].stop
    BY <2>2, <2>3 DEF FinishedRow, RunRows
  <2> QED
    BY <1>1, <1>2, <2>1, <2>4, LeavesScan DEF Closing
<1> QED
  BY <1>3, <1>4 DEF FinishFails, ReportFailure

-----------------------------------------------------------------------------
(* The scan.                                                               *)
LEMMA SaveInTurn ==
  ASSUME MaxConcurrent = 1, InTurns, NEW r \in Runs, Inv', SaveRepository(r)
  PROVE  InTurns'
<1>1. /\ Inv /\ RunStep(r) /\ db' = db /\ pc[r] = "repo" /\ pc'[r] = "fetch"
      /\ loc' = loc /\ run' = run
      /\ settled' = [settled EXCEPT ![r] = {t \in Tags : hub[t] # None}]
  BY RunGoes DEF RunStep, Collecting, SaveRepository, InTurns, Places, InTry
<1>2. /\ SameImages /\ Kept' /\ order' = order /\ hub' = hub
  BY <1>1, NothingStored
<1>3. Received(r)' /\ Classified(r)' /\ Noted(r)'
  BY <1>1 DEF Received, Classified, Noted
<1>4. settled'[r] = {t \in Tags : hub[t] # None}
  BY <1>1, Zenon DEF InTurns, Histories
<1>5. (loc'[r].page - 1) * PageSize = 0
  <2>1. loc[r].page = 1
    BY <1>1 DEF InTurns, TurnInv, Reached
  <2>2. (1 - 1) * PageSize = 0
    OBVIOUS
  <2> QED
    BY <1>1, <2>1, <2>2
<1>6. \A t \in settled'[r] : Behind(t, (loc[r].page - 1) * PageSize)'
  <2>1. \A t \in settled'[r] : Behind(t, 0)'
    BY <1>2, <1>4 DEF InTurns, Listed, Behind
  <2> QED
    BY <1>5, <2>1 DEF Behind
<1>7. run[r].stop = None
  BY <1>1 DEF Inv, RunInv, Recorded, InTry
<1>8. Reached(r)'
  <2>1. settled'[r] \subseteq {t \in Tags : hub'[t] # None}
    BY <1>2, <1>4
  <2>2. ~(pc'[r] \in Closing) /\ ~(pc'[r] \in {"read", "commit"}) /\ pc'[r] # "repo"
    BY <1>1 DEF Closing
  <2>3. run'[r].stop # "end"
    BY <1>1, <1>7 DEF Finishing
  <2> QED
    BY <1>6, <2>1, <2>2, <2>3, Zenon DEF Reached
<1> QED
  BY <1>1, <1>2, <1>3, <1>8, TurnOf DEF TurnInv

(* The page of a run: where it begins and ends in the list.                *)
LEMMA PageIsPart ==
  ASSUME Inv, Listed, NEW r \in Runs, FetchPage(r)
  PROVE  LET rows == loc'[r].rows
             past == (loc[r].page - 1) * PageSize
             last == loc[r].page * PageSize
         IN  /\ past \in Nat /\ last \in Nat
             /\ loc'[r].page = loc[r].page /\ loc'[r].next = (last < Len(order))
             /\ \A i \in DOMAIN rows : \E j \in 1..Len(order) :
                  rows[i] = [tag |-> order[j], img |-> hub[order[j]].img,
                             at |-> hub[order[j]].at]
             /\ \A j \in 1..Len(order) : j > past /\ j <= last =>
                  \E i \in DOMAIN rows :
                    rows[i] = [tag |-> order[j], img |-> hub[order[j]].img,
                               at |-> hub[order[j]].at]
<1> DEFINE past  == (loc[r].page - 1) * PageSize
           first == past + 1
           last  == loc[r].page * PageSize
           upto  == IF last < Len(order) THEN last ELSE Len(order)
           page  == SubSeq(order, first, upto)
           rows  == PageRows(page)
           next  == last < Len(order)
<1>1. Typed /\ RunInv(r) /\ pc[r] = "fetch"
  BY DEF FetchPage, Inv
<1>2. loc' = [loc EXCEPT ![r].rows = rows, ![r].next = next]
  BY Zenon DEF FetchPage, PageRows
<1>3. past \in Nat /\ last \in Nat
  <2>1. run[r] \in RunRows
    BY <1>1 DEF Typed, RunInv, Recorded, InTry
  <2>2. loc[r].page - 1 \in Nat /\ loc[r].page \in Nat
    <3>1. loc[r].pages = run[r].pages /\ loc[r].page = loc[r].pages + 1
      BY <1>1 DEF RunInv, Scanned, Scanning
    <3> QED
      BY <2>1, <3>1 DEF RunRows
  <2>3. \A a, b \in Nat : a * b \in Nat
    OBVIOUS
  <2> QED
    BY <2>2, <2>3, Zenon
<1>4. order \in Seq(Tags) /\ Len(order) \in Nat
  BY <1>1 DEF Typed
<1>5. /\ upto \in Nat /\ upto <= Len(order) /\ upto <= last
      /\ \A j \in 1..Len(order) : j <= last => j <= upto
  BY <1>3, <1>4
<1> HIDE DEF past, last, upto, next
<1>6. /\ DOMAIN page = 1..Len(page) /\ Len(page) \in Nat
      /\ \A i \in DOMAIN page : page[i] = order[past + i] /\ past + i \in 1..Len(order)
      /\ \A j \in 1..upto : j > past => j - past \in DOMAIN page
  <2>1. \A i \in first..upto : order[i] \in Tags
    BY <1>3, <1>4, <1>5
  <2>2. /\ page \in Seq(Tags)
        /\ Len(page) = IF first <= upto THEN upto - first + 1 ELSE 0
        /\ \A i \in 1..upto - first + 1 : page[i] = order[first + i - 1]
    BY <1>3, <1>5, <2>1, SubSeqProperties, SMTT(20)
  <2> HIDE DEF page
  <2>3. DOMAIN page = 1..Len(page) /\ Len(page) \in Nat
    BY <2>2
  <2>4. \A i \in DOMAIN page : page[i] = order[past + i] /\ past + i \in 1..Len(order)
    <3> SUFFICES ASSUME NEW i \in 1..Len(page)
                 PROVE  page[i] = order[past + i] /\ past + i \in 1..Len(order)
      BY <2>3
    <3>1. /\ i \in Nat /\ i >= 1 /\ first <= upto /\ i <= upto - first + 1
          /\ first + i - 1 = past + i
      BY <1>3, <1>5, <2>2
    <3> QED
      BY <1>3, <1>4, <1>5, <2>2, <3>1
  <2>5. \A j \in 1..upto : j > past => j - past \in DOMAIN page
    BY <1>3, <1>5, <2>2, <2>3
  <2> QED
    BY <2>3, <2>4, <2>5
<1> HIDE DEF page
<1>7. /\ DOMAIN rows = DOMAIN page
      /\ \A i \in DOMAIN page : rows[i] = [tag |-> page[i], img |-> hub[page[i]].img,
                                           at |-> hub[page[i]].at]
  BY <1>6 DEF PageRows
<1> HIDE DEF rows
<1>8. /\ loc'[r].rows = rows /\ loc'[r].page = loc[r].page /\ loc'[r].next = next
  <2>1. loc'[r] = [loc[r] EXCEPT !.rows = rows, !.next = next]
    BY <1>1, <1>2, Zenon DEF Typed
  <2> QED
    BY <1>1, <2>1 DEF Typed, IsLocals
<1>9. \A i \in DOMAIN rows : \E j \in 1..Len(order) :
        rows[i] = [tag |-> order[j], img |-> hub[order[j]].img, at |-> hub[order[j]].at]
  <2> SUFFICES ASSUME NEW i \in DOMAIN rows
               PROVE  \E j \in 1..Len(order) :
                        rows[i] = [tag |-> order[j], img |-> hub[order[j]].img,
                                   at |-> hub[order[j]].at]
    OBVIOUS
  <2>1. page[i] = order[past + i] /\ past + i \in 1..Len(order)
    BY <1>6, <1>7
  <2> QED
    BY <1>7, <2>1
<1>10. ASSUME NEW j \in 1..Len(order), j > past, j <= last
       PROVE  \E i \in DOMAIN rows : rows[i] = [tag |-> order[j], img |-> hub[order[j]].img,
                                              at |-> hub[order[j]].at]
  <2>1. j - past \in DOMAIN page
    BY <1>3, <1>4, <1>5, <1>6, <1>10
  <2>2. past + (j - past) = j
    BY <1>3
  <2> QED
    BY <1>6, <1>7, <2>1, <2>2
<1> QED
  BY <1>3, <1>8, <1>9, <1>10 DEF past, last, next

LEMMA FetchInTurn ==
  ASSUME MaxConcurrent = 1, InTurns, NEW r \in Runs, Inv', FetchPage(r)
  PROVE  InTurns'
<1> DEFINE rows == loc'[r].rows
           past == (loc[r].page - 1) * PageSize
           last == loc[r].page * PageSize
           Entry(j) == [tag |-> order[j], img |-> hub[order[j]].img,
                        at |-> hub[order[j]].at]
<1>1. /\ Inv /\ RunStep(r) /\ db' = db /\ pc[r] = "fetch" /\ pc'[r] = "read"
      /\ run' = run /\ settled' = settled
  BY RunGoes DEF RunStep, Collecting, FetchPage, InTurns, Places, InTry
<1>2. /\ SameImages /\ Kept' /\ order' = order /\ hub' = hub /\ pushes' = pushes
  BY <1>1, NothingStored
<1>3. Typed /\ Listed /\ Kept /\ Reached(r)
  BY DEF InTurns, Inv, TurnInv
<1>4. /\ past \in Nat /\ last \in Nat
      /\ loc'[r].page = loc[r].page /\ loc'[r].next = (last < Len(order))
      /\ \A i \in DOMAIN rows : \E j \in 1..Len(order) : rows[i] = Entry(j)
      /\ \A j \in 1..Len(order) : j > past /\ j <= last =>
           \E i \in DOMAIN rows : rows[i] = Entry(j)
  BY <1>1, <1>3, PageIsPart
<1> HIDE DEF rows, past, last
<1>5. RowsOf(r)' = {rows[i] : i \in DOMAIN rows}
  BY DEF RowsOf, rows
<1>6. \A j \in 1..Len(order) : order[j] \in Tags
  BY <1>3 DEF Typed
<1>7. \A j \in 1..Len(order) : hub[order[j]] # None /\ hub[order[j]] \in HubEntries
  BY <1>3, <1>6 DEF Listed
<1>8. ASSUME NEW j \in 1..Len(order), NEW row, row = Entry(j)
      PROVE  /\ row \in [tag : Tags, img : Images, at : Nat] /\ row.at <= pushes
             /\ Truthful(row.tag, row.img)
             /\ row.at = hub[row.tag].at /\ row.img = hub[row.tag].img
             /\ db[row.tag] # None => db[row.tag].at <= row.at
  <2>1. order[j] \in Tags /\ hub[order[j]] # None /\ hub[order[j]] \in HubEntries
    BY <1>6, <1>7
  <2>2. /\ hub[order[j]].at \in Nat /\ hub[order[j]].img \in Images
        /\ hub[order[j]].at <= pushes /\ Truthful(order[j], hub[order[j]].img)
        /\ db[order[j]] # None => db[order[j]].at <= hub[order[j]].at
    BY <1>3, <2>1 DEF HubEntries, Listed, Kept
  <2>3. row.tag = order[j] /\ row.img = hub[order[j]].img /\ row.at = hub[order[j]].at
    BY <1>8
  <2> QED
    BY <1>8, <2>1, <2>2, <2>3
<1>9. Received(r)'
  <2> SUFFICES ASSUME NEW row \in RowsOf(r)'
               PROVE  /\ row \in [tag : Tags, img : Images, at : Nat]
                      /\ row.at <= pushes' /\ Truthful(row.tag, row.img)
                      /\ row.at = hub'[row.tag].at /\ row.img = hub'[row.tag].img
                      /\ db'[row.tag] # None => db'[row.tag].at <= row.at
    BY Zenon DEF Received, Truthful
  <2>1. PICK j \in 1..Len(order) : row = Entry(j)
    BY <1>4, <1>5
  <2> QED
    BY <1>1, <1>2, <1>8, <2>1
<1>10. Classified(r)' /\ Noted(r)'
  BY <1>1 DEF Classified, Noted
<1>11. \A t \in settled[r] : \/ Current(r, t)' \/ OnPage(r, t)'
                             \/ loc'[r].next /\ Behind(t, loc[r].page * PageSize)'
  <2> SUFFICES ASSUME NEW t \in settled[r], ~Current(r, t)'
               PROVE  OnPage(r, t)' \/ (loc'[r].next /\ Behind(t, loc[r].page * PageSize)')
    OBVIOUS
  <2>1. ~Current(r, t)
    BY <1>1, <1>2 DEF Current
  <2>2. Behind(t, past)
    BY <1>1, <1>3, <2>1 DEF Reached, past
  <2>3. PICK j \in 1..Len(order) : j > past /\ order[j] = t
    BY <2>2 DEF Behind
  <2>4. CASE j <= last
    <3>1. PICK i \in DOMAIN rows : rows[i] = Entry(j)
      BY <1>4, <2>3, <2>4
    <3>2. Entry(j) \in RowsOf(r)'
      BY <1>5, <3>1
    <3> QED
      BY <1>2, <2>3, <3>2 DEF OnPage
  <2>5. CASE ~(j <= last)
    <3>1. j > last /\ last < Len(order)
      BY <1>4, <2>5
    <3>2. Behind(t, loc[r].page * PageSize)'
      BY <1>2, <1>4, <2>3, <3>1 DEF Behind, last
    <3> QED
      BY <1>4, <3>1, <3>2
  <2> QED
    BY <2>4, <2>5
<1>12. Reached(r)'
  <2>1. settled'[r] \subseteq {t \in Tags : hub'[t] # None}
    BY <1>1, <1>2, <1>3 DEF Reached
  <2>2. pc'[r] \notin Closing /\ run'[r].stop # "end"
    BY <1>1 DEF Closing, Inv, RunInv, Recorded, InTry, Finishing
  <2> QED
    BY <1>1, <1>11, <2>1, <2>2, <1>4 DEF Reached
<1> QED
  BY <1>1, <1>2, <1>9, <1>10, <1>12, TurnOf DEF TurnInv

LEMMA ReadInTurn ==
  ASSUME MaxConcurrent = 1, InTurns, NEW r \in Runs, Inv', ReadExisting(r)
  PROVE  InTurns'
<1> DEFINE known == {row \in RowsOf(r) : db[row.tag] # None}
           diff  == {row \in known : Changed(row)}
<1>1. /\ Inv /\ RunStep(r) /\ db' = db /\ pc[r] = "read" /\ pc'[r] = "commit"
      /\ run' = run /\ settled' = settled
  BY RunGoes DEF RunStep, Collecting, ReadExisting, InTurns, Places, InTry
<1>2. /\ SameImages /\ Kept' /\ order' = order /\ hub' = hub /\ pushes' = pushes
  BY <1>1, NothingStored
<1>3. Typed /\ Received(r) /\ Reached(r)
  BY DEF InTurns, Inv, TurnInv
<1>4. loc' = [loc EXCEPT ![r].new = RowsOf(r) \ known, ![r].changed = diff,
                         ![r].same = known \ diff]
  BY Zenon DEF ReadExisting
<1>5. /\ RowsOf(r) \ known = {row \in RowsOf(r) : db[row.tag] = None}
      /\ diff = {row \in RowsOf(r) : db[row.tag] # None /\ Changed(row)}
      /\ known \ diff = {row \in RowsOf(r) : db[row.tag] # None /\ ~Changed(row)}
  BY Zenon
<1> HIDE DEF known, diff
<1>6. /\ loc'[r].new = RowsOf(r) \ known /\ loc'[r].changed = diff
      /\ loc'[r].same = known \ diff
      /\ loc'[r].rows = loc[r].rows /\ loc'[r].page = loc[r].page
      /\ loc'[r].next = loc[r].next
  <2>1. loc'[r] = [loc[r] EXCEPT !.new = RowsOf(r) \ known, !.changed = diff,
                                 !.same = known \ diff]
    BY <1>3, <1>4, Zenon DEF Typed
  <2>2. IsLocals(loc[r])
    BY <1>3 DEF Typed
  <2> QED
    BY <2>1, <2>2, ZenonT(60) DEF IsLocals
<1>7. RowsOf(r)' = RowsOf(r) /\ \A row : Changed(row)' = Changed(row)
  BY <1>1, <1>6 DEF RowsOf, Changed
<1>8. Classified(r)'
  <2>1. /\ {row \in RowsOf(r)' : db'[row.tag] = None} = RowsOf(r) \ known
        /\ {row \in RowsOf(r)' : db'[row.tag] # None /\ Changed(row)'} = diff
        /\ {row \in RowsOf(r)' : db'[row.tag] # None /\ ~Changed(row)'} = known \ diff
    BY <1>1, <1>5, <1>7, ZenonT(60)
  <2> QED
    BY <1>6, <2>1 DEF Classified
<1>9. Received(r)' /\ Noted(r)'
  BY <1>1, <1>2, <1>3, <1>7 DEF Received, Noted, Truthful
<1>10. \A t : /\ Current(r, t)' <=> Current(r, t)
              /\ OnPage(r, t)' <=> OnPage(r, t)
  BY <1>1, <1>2, <1>7 DEF Current, OnPage
<1>11. \A t, n : Behind(t, n)' <=> Behind(t, n)
  BY <1>2 DEF Behind
<1>12. Reached(r)'
  <2>1. settled'[r] \subseteq {t \in Tags : hub'[t] # None}
    BY <1>1, <1>2, <1>3 DEF Reached
  <2>2. pc'[r] \notin Closing /\ run'[r].stop # "end"
    BY <1>1 DEF Closing, Inv, RunInv, Recorded, InTry, Finishing
  <2>3. \A t \in settled'[r] : \/ Current(r, t)' \/ OnPage(r, t)'
                               \/ loc'[r].next /\ Behind(t, loc[r].page * PageSize)'
    BY <1>1, <1>3, <1>6, <1>10, <1>11, Zenon DEF Reached
  <2> QED
    BY <1>1, <1>6, <2>1, <2>2, <2>3 DEF Reached, Behind
<1> QED
  BY <1>1, <1>2, <1>8, <1>9, <1>12, TurnOf DEF TurnInv

(* What a page's commit makes of image_tags.                               *)
LEMMA UpsertedSays ==
  ASSUME Kept, NEW r \in Runs, Paged(r), Received(r), Classified(r), pc[r] = "commit",
         NEW U, U = Upserted(r)
  PROVE  /\ U \in [Tags -> TagRows \union {None}]
         /\ \A t \in Tags : (\A row \in RowsOf(r) : row.tag # t) => U[t] = db[t]
         /\ \A row \in RowsOf(r) :
              /\ U[row.tag] \in TagRows /\ U[row.tag].img = row.img
              /\ U[row.tag].at = row.at /\ U[row.tag].asOf = r
              /\ \/ U[row.tag].distro = None
                 \/ /\ db[row.tag] # None /\ db[row.tag].img = row.img
                    /\ db[row.tag].distro = U[row.tag].distro
<1> DEFINE rewrite == loc[r].new \union loc[r].changed
           fresh(row) == [img |-> row.img, at |-> row.at, distro |-> None, asOf |-> r]
<1>1. U = [t \in Tags |->
             IF \E row \in rewrite : row.tag = t
             THEN fresh(CHOOSE row \in rewrite : row.tag = t)
             ELSE IF \E row \in loc[r].same : row.tag = t
             THEN [db[t] EXCEPT !.asOf = r] ELSE db[t]]
  BY Zenon DEF Upserted
<1>2. \A row, other \in RowsOf(r) : row.tag = other.tag => row = other
  BY DEF Paged
<1>3. /\ rewrite \subseteq RowsOf(r) /\ loc[r].same \subseteq RowsOf(r)
      /\ RowsOf(r) = rewrite \union loc[r].same
      /\ \A row \in loc[r].same : row \notin rewrite /\ db[row.tag] # None /\ ~Changed(row)
  <2>1. /\ loc[r].new = {row \in RowsOf(r) : db[row.tag] = None}
        /\ loc[r].changed = {row \in RowsOf(r) : db[row.tag] # None /\ Changed(row)}
        /\ loc[r].same = {row \in RowsOf(r) : db[row.tag] # None /\ ~Changed(row)}
    BY DEF Classified
  <2> QED
    BY <2>1
<1>4. \A row \in RowsOf(r) : row.tag \in Tags /\ row.img \in Images /\ row.at \in Nat
  BY DEF Received
<1> HIDE DEF rewrite
<1>5. ASSUME NEW row \in rewrite
      PROVE  U[row.tag] = fresh(row)
  <2>1. \E x \in rewrite : x.tag = row.tag
    OBVIOUS
  <2>2. (CHOOSE x \in rewrite : x.tag = row.tag) = row
    BY <1>2, <1>3, <2>1
  <2>3. row.tag \in Tags
    BY <1>3, <1>4
  <2> HIDE DEF fresh
  <2> QED
    BY <1>1, <2>1, <2>2, <2>3, Zenon
<1>6. ASSUME NEW row \in loc[r].same
      PROVE  U[row.tag] = [db[row.tag] EXCEPT !.asOf = r]
  <2>1. \A x \in rewrite : x.tag # row.tag
    BY <1>2, <1>3
  <2>2. row.tag \in Tags
    BY <1>3, <1>4
  <2> HIDE DEF fresh
  <2> QED
    BY <1>1, <2>1, <2>2, Zenon
<1>7. ASSUME NEW t \in Tags, \A row \in RowsOf(r) : row.tag # t
      PROVE  U[t] = db[t]
  <2>1. ~(\E row \in rewrite : row.tag = t) /\ ~(\E row \in loc[r].same : row.tag = t)
    BY <1>3, <1>7
  <2> HIDE DEF fresh
  <2> QED
    BY <1>1, <2>1, Zenon
<1>8. ASSUME NEW row \in RowsOf(r)
      PROVE  /\ U[row.tag] \in TagRows /\ U[row.tag].img = row.img
             /\ U[row.tag].at = row.at /\ U[row.tag].asOf = r
             /\ \/ U[row.tag].distro = None
                \/ /\ db[row.tag] # None /\ db[row.tag].img = row.img
                   /\ db[row.tag].distro = U[row.tag].distro
  <2>1. CASE row \in rewrite
    <3>1. U[row.tag] = fresh(row)
      BY <1>5, <2>1
    <3>2. fresh(row) \in TagRows
      BY <1>4 DEF TagRows
    <3>3. /\ fresh(row).img = row.img /\ fresh(row).at = row.at /\ fresh(row).asOf = r
          /\ fresh(row).distro = None
      OBVIOUS
    <3> HIDE DEF fresh
    <3> QED
      BY <3>1, <3>2, <3>3
  <2>2. CASE row \in loc[r].same
    <3>1. db[row.tag] # None /\ ~Changed(row) /\ db[row.tag] \in TagRows
      BY <1>3, <1>4, <2>2 DEF Kept
    <3>2. db[row.tag].img = row.img /\ db[row.tag].at = row.at
      BY <3>1 DEF Changed, Digest
    <3> QED
      <4>1. U[row.tag] = [db[row.tag] EXCEPT !.asOf = r]
        BY <1>6, <2>2
      <4>2. \A x \in TagRows : LET y == [x EXCEPT !.asOf = r]
                              IN  /\ y \in TagRows /\ y.img = x.img /\ y.at = x.at
                                  /\ y.distro = x.distro /\ y.asOf = r
        BY DEF TagRows
      <4> QED
        BY <3>1, <3>2, <4>1, <4>2
  <2> QED
    BY <1>3, <2>1, <2>2
<1>9. U \in [Tags -> TagRows \union {None}]
  <2>1. \A t \in Tags : U[t] \in TagRows \union {None}
    BY <1>7, <1>8 DEF Kept
  <2>2. DOMAIN U = Tags /\ U = [t \in Tags |-> U[t]]
    BY <1>1
  <2> QED
    BY <2>1, <2>2
<1> QED
  BY <1>7, <1>8, <1>9

(* The same of a run in its turn: what it received is what it stores.      *)
LEMMA CommitSays ==
  ASSUME InTurns, NEW r \in Runs, CommitPage(r)
  PROVE  /\ db' \in [Tags -> TagRows \union {None}]
         /\ \A t \in Tags : (\A row \in RowsOf(r) : row.tag # t) => db'[t] = db[t]
         /\ \A row \in RowsOf(r) :
              /\ db'[row.tag] \in TagRows /\ db'[row.tag].img = row.img
              /\ db'[row.tag].at = row.at /\ db'[row.tag].asOf = r
              /\ \/ db'[row.tag].distro = None
                 \/ /\ db[row.tag] # None /\ db[row.tag].img = row.img
                    /\ db[row.tag].distro = db'[row.tag].distro
<1>1. db' = Upserted(r) /\ pc[r] = "commit"
  BY DEF CommitPage
<1>2. Kept /\ Paged(r) /\ Received(r) /\ Classified(r)
  BY DEF InTurns, TurnInv, Inv, RunInv
<1> DEFINE U == Upserted(r)
<1>3. U = Upserted(r)
  OBVIOUS
<1> HIDE DEF U
<1>4. /\ U \in [Tags -> TagRows \union {None}]
      /\ \A t \in Tags : (\A row \in RowsOf(r) : row.tag # t) => U[t] = db[t]
      /\ \A row \in RowsOf(r) :
           /\ U[row.tag] \in TagRows /\ U[row.tag].img = row.img
           /\ U[row.tag].at = row.at /\ U[row.tag].asOf = r
           /\ \/ U[row.tag].distro = None
              \/ /\ db[row.tag] # None /\ db[row.tag].img = row.img
                 /\ db[row.tag].distro = U[row.tag].distro
  BY <1>1, <1>2, <1>3, UpsertedSays
<1> QED
  BY <1>1, <1>3, <1>4

(* Where a page's commit leads, and when a scan is at its end.             *)
LEMMA CommitGoes ==
  ASSUME Inv, NEW r \in Runs, CommitPage(r)
  PROVE  \/ pc'[r] = "failing"
         \/ pc'[r] = "fetch" /\ loc[r].next /\ loc'[r].page = loc[r].page + 1
         \/ pc'[r] = "derive1" /\ (loc'[r].stop = "end" => ~loc[r].next)
<1> DEFINE limited == MaxPages[r] # None /\ loc[r].pages + 1 >= MaxPages[r] /\ loc[r].next
           where == IF loc[r].next /\ ~limited THEN "fetch" ELSE "derive1"
           stop == IF limited THEN "max_pages" ELSE "end"
<1>1. loc = [q \in Runs |-> loc[q]]
  BY DEF Inv, Typed
<1>2. CASE Goto(r, "failing")
  BY <1>2, RunGoes DEF Places
<1>3. CASE /\ Goto(r, where)
           /\ \E pages, seen, written :
                loc' = [loc EXCEPT ![r] = NextLocals(loc[r], pages, seen, written, stop)]
  <2> HIDE DEF limited
  <2>1. PICK pages, seen, written :
          loc'[r] = NextLocals(loc[r], pages, seen, written, stop)
    <3> HIDE DEF stop
    <3> QED
      BY <1>1, <1>3
  <2>2. loc'[r].page = loc[r].page + 1 /\ loc'[r].stop = stop
    BY <2>1 DEF NextLocals, FreshLocals
  <2>3. where \in Places
    BY DEF Places, InTry
  <2>4. pc'[r] = where
    BY <1>3, <2>3, RunGoes
  <2>5. limited => loc[r].next
    BY Zenon DEF limited
  <2> QED
    BY <2>2, <2>4, <2>5
<1> QED
  <2>1. \/ /\ Goto(r, where)
           /\ loc' = [loc EXCEPT
                ![r] = [FreshLocals EXCEPT
                          !.page = loc[r].page + 1,
                          !.pages = loc[r].pages + 1,
                          !.seen = loc[r].seen + Len(loc[r].rows),
                          !.written = loc[r].written
                                      + Cardinality(loc[r].new \union loc[r].changed),
                          !.stop = stop]]
        \/ Goto(r, "failing")
    BY Zenon DEF CommitPage
  <2> QED
    BY <1>2, <1>3, <2>1, Zenon DEF NextLocals

(* What is stored only becomes newer.                                      *)
Newer == \A t \in Stored : db'[t] # None /\ db'[t].at >= db[t].at

LEMMA CommitStores ==
  ASSUME InTurns, NEW r \in Runs, CommitPage(r)
  PROVE  /\ Newer /\ Kept'
         /\ \A t \in Tags : hub[t] # None /\ (Current(r, t) \/ OnPage(r, t)) =>
              Current(r, t)'
<1>1. /\ order' = order /\ hub' = hub /\ pushes' = pushes /\ pc[r] = "commit"
  BY DEF CommitPage, hubVars
<1>2. Kept /\ Listed /\ Received(r)
  BY DEF InTurns, TurnInv
<1>3. /\ db' \in [Tags -> TagRows \union {None}]
      /\ \A t \in Tags : (\A row \in RowsOf(r) : row.tag # t) => db'[t] = db[t]
      /\ \A row \in RowsOf(r) :
           /\ db'[row.tag] \in TagRows /\ db'[row.tag].img = row.img
           /\ db'[row.tag].at = row.at /\ db'[row.tag].asOf = r
  BY CommitSays
<1>4. \A row \in RowsOf(r) :
        /\ row.tag \in Tags /\ row.at \in Nat /\ row.at <= pushes
        /\ hub[row.tag] # None => \/ row.at < hub[row.tag].at
                                  \/ row.at = hub[row.tag].at /\ row.img = hub[row.tag].img
        /\ db[row.tag] # None => db[row.tag].at <= row.at
  BY <1>1, <1>2 DEF Received
<1>5. \A t \in Tags : /\ hub[t] # None => hub[t].at \in Nat
                      /\ db[t] # None => db[t].at \in Nat /\ db[t].at <= pushes
                      /\ db[t] # None /\ hub[t] # None => db[t].at <= hub[t].at
  BY <1>2 DEF Listed, Kept, HubEntries, TagRows
<1>6. Newer
  <2> SUFFICES ASSUME NEW t \in Tags, db[t] # None
               PROVE  db'[t] # None /\ db'[t].at >= db[t].at
    BY DEF Newer, Stored
  <2>1. CASE \E row \in RowsOf(r) : row.tag = t
    <3>1. PICK row \in RowsOf(r) : row.tag = t
      BY <2>1
    <3>2. db'[t] \in TagRows /\ db'[t].at = row.at /\ db[t].at <= row.at
      BY <1>3, <1>4, <3>1
    <3> QED
      BY <1>4, <1>5, <3>2
  <2>2. CASE \A row \in RowsOf(r) : row.tag # t
    BY <1>3, <1>5, <2>2
  <2> QED
    BY <2>1, <2>2
<1>7. Kept'
  <2> SUFFICES ASSUME NEW t \in Tags, db'[t] # None
               PROVE  db'[t].at <= pushes /\ (hub[t] # None => db'[t].at <= hub[t].at)
    BY <1>1, <1>3 DEF Kept
  <2>1. CASE \E row \in RowsOf(r) : row.tag = t
    <3>1. PICK row \in RowsOf(r) : row.tag = t
      BY <2>1
    <3>2. db'[t].at = row.at
      BY <1>3, <3>1
    <3> QED
      BY <1>4, <1>5, <3>1, <3>2
  <2>2. CASE \A row \in RowsOf(r) : row.tag # t
    BY <1>3, <1>5, <2>2
  <2> QED
    BY <2>1, <2>2
<1>8. ASSUME NEW t \in Tags, OnPage(r, t)
      PROVE  Current(r, t)'
  <2>1. PICK row \in RowsOf(r) : row.tag = t /\ row.img = hub[t].img /\ row.at = hub[t].at
    BY <1>8 DEF OnPage
  <2> QED
    BY <1>1, <1>3, <2>1 DEF Current
<1>9. ASSUME NEW t \in Tags, hub[t] # None, Current(r, t)
      PROVE  Current(r, t)'
  <2>1. CASE \E row \in RowsOf(r) : row.tag = t
    <3>1. PICK row \in RowsOf(r) : row.tag = t
      BY <2>1
    <3>2. db[t].at = hub[t].at /\ db[t].at <= row.at
      BY <1>4, <1>9, <3>1 DEF Current
    <3>3. row.at = hub[t].at /\ row.img = hub[t].img
      BY <1>4, <1>5, <1>9, <3>1, <3>2
    <3>4. OnPage(r, t)
      BY <3>1, <3>3 DEF OnPage
    <3> QED
      BY <1>8, <3>4
  <2>2. CASE \A row \in RowsOf(r) : row.tag # t
    BY <1>1, <1>3, <1>9, <2>2 DEF Current
  <2> QED
    BY <2>1, <2>2
<1> QED
  BY <1>6, <1>7, <1>8, <1>9

LEMMA AwayInTurn ==
  ASSUME InTurns, Inv', NEW r \in Runs, Alone(r), OnlyTurnOf(r), pc'[r] # "idle",
         NEW q \in Runs \ {r}, pc'[q] = pc[q]
  PROVE  TurnInv(q)'
<1>1. /\ loc'[q] = loc[q] /\ run'[q] = run[q] /\ settled'[q] = settled[q]
      /\ hub' = hub
  BY DEF OnlyTurnOf
<1>2. pc'[q] \in Over \union {"idle"}
  BY DEF Alone
<1>3. Received(q)' /\ Classified(q)'
  BY <1>2 DEF Received, Classified, Over
<1>4. settled'[q] \subseteq {t \in Tags : hub'[t] # None}
  BY <1>1 DEF InTurns, TurnInv, Reached
<1>5. ~(run'[q] # None /\ run'[q].stop = "end" /\ Latest(q)')
  <2>1. CASE q < r
    BY <2>1 DEF Latest
  <2>2. CASE q > r /\ pc'[q] = "idle"
    BY <2>2 DEF Inv, RunInv, Recorded
  <2> QED
    BY <2>1, <2>2 DEF Alone
<1>6. pc'[q] \notin Closing \union {"repo", "fetch", "read", "commit"}
  BY <1>2 DEF Closing, Over
<1> QED
  BY <1>3, <1>4, <1>5, <1>6 DEF Reached, TurnInv

LEMMA CommitInTurn ==
  ASSUME MaxConcurrent = 1, InTurns, NEW r \in Runs, Inv', CommitPage(r)
  PROVE  InTurns'
<1>1. Inv /\ RunStep(r) /\ pc[r] = "commit" /\ settled' = settled
  BY DEF RunStep, Collecting, CommitPage, InTurns
<1>2. /\ Alone(r) /\ Turn' /\ pc'[r] # "idle"
      /\ \A p \in Procs \ {r} : pc'[p] = pc[p]
      /\ \A q \in Runs : q # r => pc'[q] = pc[q]
  BY <1>1, TakesTurn DEF InTurns
<1>3. OnlyTurnOf(r)
  BY <1>1, StaysInTurn DEF InTurns
<1>4. /\ order' = order /\ hub' = hub /\ pushes' = pushes /\ Histories'
  BY <1>3 DEF OnlyTurnOf
<1>5. /\ Newer /\ Kept'
      /\ \A t \in Tags : hub[t] # None /\ (Current(r, t) \/ OnPage(r, t)) =>
              Current(r, t)'
  BY CommitStores
<1>6. \/ pc'[r] = "failing"
      \/ pc'[r] = "fetch" /\ loc[r].next /\ loc'[r].page = loc[r].page + 1
      \/ pc'[r] = "derive1" /\ (loc'[r].stop = "end" => ~loc[r].next)
  BY <1>1, CommitGoes
<1>7. Reached(r)
  BY DEF InTurns, TurnInv
<1>8. \A t \in settled[r] : \/ Current(r, t)'
                            \/ loc[r].next /\ Behind(t, loc[r].page * PageSize)
  BY <1>1, <1>5, <1>7 DEF Reached
<1>9. Received(r)' /\ Classified(r)' /\ Noted(r)'
  BY <1>6 DEF Received, Classified, Noted
<1>10. Reached(r)'
  <2>1. settled'[r] \subseteq {t \in Tags : hub'[t] # None}
    BY <1>1, <1>4, <1>7 DEF Reached
  <2>2. run'[r].stop # "end"
    BY <1>6 DEF Inv, RunInv, Recorded, InTry, Finishing
  <2>3. pc'[r] \notin {"repo", "read", "commit"}
    BY <1>6
  <2>4. pc'[r] = "fetch" => \A t \in settled[r] :
          Current(r, t)' \/ Behind(t, (loc[r].page - 1) * PageSize)'
    <3> SUFFICES ASSUME pc'[r] = "fetch", NEW t \in settled[r], ~Current(r, t)'
                 PROVE  Behind(t, (loc[r].page - 1) * PageSize)'
      OBVIOUS
    <3>1. loc'[r].page = loc[r].page + 1 /\ Behind(t, loc[r].page * PageSize)
      BY <1>6, <1>8
    <3>2. loc'[r].page - 1 = loc[r].page
      <4>1. loc[r].page = run[r].pages + 1 /\ run[r].pages \in Nat
        <5>1. run[r] # None /\ loc[r].page = loc[r].pages + 1 /\ loc[r].pages = run[r].pages
          BY <1>1 DEF Inv, RunInv, Recorded, InTry, Scanned, Scanning
        <5>2. run[r] \in RunRows
          BY <1>1, <5>1 DEF Inv, Typed
        <5> QED
          BY <5>1, <5>2 DEF RunRows
      <4> QED
        BY <3>1, <4>1
    <3> QED
      BY <1>4, <3>1, <3>2 DEF Behind
  <2>5. pc'[r] \in Closing /\ loc'[r].stop = "end" => \A t \in settled[r] : Current(r, t)'
    BY <1>6, <1>8 DEF Closing
  <2> QED
    BY <1>1, <2>1, <2>2, <2>3, <2>4, <2>5, Zenon DEF Reached
<1>11. \A q \in Runs : TurnInv(q)'
  BY <1>2, <1>3, <1>9, <1>10, AwayInTurn DEF TurnInv
<1>12. \A p \in Procs : Noted(p)'
  <2> SUFFICES ASSUME NEW p \in Procs \ {r}
               PROVE  Noted(p)'
    BY <1>9
  <2>1. Noted(p) /\ pc'[p] = pc[p] /\ seenRows'[p] = seenRows[p]
    BY <1>2, <1>3 DEF InTurns, OnlyTurnOf
  <2>2. Stored \subseteq Stored'
    BY <1>5 DEF Newer, Stored
  <2> QED
    BY <2>1, <2>2 DEF Noted
<1>13. Listed'
  BY <1>4 DEF InTurns, Listed, Truthful
<1> QED
  BY <1>2, <1>4, <1>5, <1>11, <1>12, <1>13 DEF InTurns

-----------------------------------------------------------------------------
(* The derivation.                                                         *)

LEMMA OneIsNotEmpty ==
  ASSUME NEW S, Cardinality(S) = 1
  PROVE  S # {}
<1> SUFFICES ASSUME S = {}
             PROVE  FALSE
  OBVIOUS
<1>1. Cardinality(S) = 0
  BY FS_EmptySet
<1> QED
  BY <1>1

(* A value derived is what a name says that goes with the same platforms.  *)
LEMMA ResolveSays ==
  ASSUME NEW img, DOMAIN img \subseteq Tags
  PROVE  /\ DOMAIN Resolve(img) = DOMAIN img
         /\ Resolve(img) = [t \in DOMAIN img |-> Resolve(img)[t]]
         /\ \A t \in DOMAIN img :
              /\ Resolve(img)[t] \in Distros \union {None}
              /\ \/ Resolve(img)[t] = None
                 \/ \E u \in DOMAIN img : /\ img[u] = img[t]
                                          /\ Resolve(img)[t] = NameDistro[u]
<1> DEFINE same(t) == {v \in DOMAIN img : img[v] = img[t]}
           said(t) == {NameDistro[u] : u \in same(t)} \ {None}
           R == Resolve(img)
<1>1. R = [t \in DOMAIN img |->
             IF NameDistro[t] # None THEN NameDistro[t]
             ELSE IF Cardinality(said(t)) = 1 THEN CHOOSE d \in said(t) : TRUE
             ELSE None]
  BY DEF Resolve
<1>2. ASSUME NEW t \in DOMAIN img
      PROVE  R[t] = None \/ \E u \in DOMAIN img : img[u] = img[t] /\ R[t] = NameDistro[u]
  <2>1. CASE NameDistro[t] # None
    <3>1. R[t] = NameDistro[t]
      BY <1>1, <2>1
    <3> QED
      BY <3>1
  <2>2. CASE NameDistro[t] = None /\ Cardinality(said(t)) = 1
    <3>1. said(t) # {}
      BY <2>2, OneIsNotEmpty
    <3>2. R[t] = CHOOSE d \in said(t) : TRUE
      BY <1>1, <2>2, Zenon
    <3>3. R[t] \in said(t)
      <4> HIDE DEF said, R
      <4> QED
        BY <3>1, <3>2
    <3> QED
      BY <3>3
  <2>3. CASE NameDistro[t] = None /\ Cardinality(said(t)) # 1
    BY <1>1, <2>3, Zenon
  <2> QED
    BY <2>1, <2>2, <2>3
<1>3. DOMAIN R = DOMAIN img /\ R = [t \in DOMAIN img |-> R[t]]
  BY <1>1
<1> HIDE DEF R
<1>4. \A t \in DOMAIN img : R[t] \in Distros \union {None}
  <2>1. \A u \in DOMAIN img : NameDistro[u] \in Distros \union {None}
    OBVIOUS
  <2> QED
    BY <1>2, <2>1
<1> QED
  BY <1>2, <1>3, <1>4, Zenon DEF R

(* The update by id of rows read earlier.                                  *)
LEMMA DeriveStores ==
  ASSUME Kept, Listed, NEW p \in Procs, Noted(p), DeriveWrite(p)
  PROVE  /\ SameImages /\ Kept' /\ Newer
         /\ \A t \in DOMAIN seenRows[p] :
              Resolve([u \in DOMAIN seenRows[p] |-> seenRows[p][u].img])[t]
                # seenRows[p][t].distro =>
              db'[t].distro = Resolve([u \in DOMAIN seenRows[p] |-> seenRows[p][u].img])[t]
         /\ \A t \in DOMAIN seenRows[p] :
              Resolve([u \in DOMAIN seenRows[p] |-> seenRows[p][u].img])[t]
                = seenRows[p][t].distro => db'[t] = db[t]
         /\ \A t \in Tags \ DOMAIN seenRows[p] : db'[t] = db[t]
<1> DEFINE rows == seenRows[p]
           new == Resolve([t \in DOMAIN rows |-> rows[t].img])
<1>1. /\ pc[p] = "derive3" /\ hub' = hub /\ pushes' = pushes
      /\ db' = [t \in Tags |->
                 IF t \in DOMAIN rows /\ new[t] # rows[t].distro
                 THEN [db[t] EXCEPT !.distro = new[t]] ELSE db[t]]
  BY Zenon DEF DeriveWrite, hubVars
<1>2. DOMAIN rows \subseteq Stored /\ Stored \subseteq Tags
  BY <1>1 DEF Noted, Stored
<1>3. \A t \in DOMAIN rows : new[t] \in Distros \union {None}
  BY <1>2, ResolveSays
<1> HIDE DEF new, rows
<1>4. \A t \in Tags : db[t] # None => db[t] \in TagRows /\ db[t].at \in Nat
  BY DEF Kept, TagRows
<1>5. ASSUME NEW t \in Tags
      PROVE  \/ db'[t] = db[t]
             \/ /\ t \in DOMAIN rows /\ new[t] # rows[t].distro
                /\ db'[t] = [db[t] EXCEPT !.distro = new[t]]
  BY <1>1, Zenon
<1>6. ASSUME NEW t \in DOMAIN rows, new[t] # rows[t].distro
      PROVE  /\ t \in Tags /\ db[t] \in TagRows /\ db[t] # None /\ db'[t] \in TagRows
             /\ db'[t].img = db[t].img /\ db'[t].at = db[t].at
             /\ db'[t].asOf = db[t].asOf /\ db'[t].distro = new[t]
  <2>1. t \in Tags /\ db[t] \in TagRows /\ db[t] # None
    BY <1>2, <1>4 DEF Stored
  <2>2. db'[t] = [db[t] EXCEPT !.distro = new[t]]
    BY <1>1, <1>6, <2>1, Zenon
  <2> QED
    BY <1>3, <2>1, <2>2 DEF TagRows
<1>7. SameImages
  BY <1>5, <1>6 DEF SameImages
<1>8. Newer
  BY <1>4, <1>7 DEF SameImages, Newer, Stored
<1>9. Kept'
  <2>1. \A t \in Tags : db'[t] \in TagRows \union {None}
    BY <1>5, <1>6 DEF Kept
  <2>2. db' \in [Tags -> TagRows \union {None}]
    BY <1>1, <2>1
  <2> QED
    BY <1>1, <1>7, <2>2 DEF Kept, SameImages
<1>10. /\ \A t \in DOMAIN rows : new[t] # rows[t].distro => db'[t].distro = new[t]
       /\ \A t \in DOMAIN rows : new[t] = rows[t].distro => db'[t] = db[t]
       /\ \A t \in Tags \ DOMAIN rows : db'[t] = db[t]
  BY <1>2, <1>5, <1>6
<1> QED
  BY <1>7, <1>8, <1>9, <1>10, Zenon DEF new, rows

LEMMA DeriveInTurn ==
  ASSUME MaxConcurrent = 1, InTurns, NEW r \in Runs, Inv', Deriving(r)
  PROVE  InTurns'
<1>1. /\ Inv /\ RunStep(r) /\ loc' = loc /\ run' = run /\ settled' = settled
      /\ pc[r] \in Closing /\ order' = order /\ hub' = hub /\ r \in Procs
  BY DEF RunStep, Deriving, DeriveReadTags, DeriveReadPlatforms, DeriveWrite, InTurns,
         Closing, hubVars, Procs
<1>2. /\ pc'[r] \in {"derive2", "derive3", "finish", "failing"}
      /\ SameImages /\ Kept' /\ Noted(r)'
  <2>1. CASE DeriveReadTags(r)
    <3>1. db' = db /\ pc'[r] = "derive2"
      BY <1>1, <2>1, RunGoes DEF DeriveReadTags, Places, InTry
    <3>2. SameImages /\ Kept' /\ Stored' = Stored
      BY <1>1, <3>1, NothingStored
    <3>3. seenRows'[r] = [t \in Stored |-> [distro |-> db[t].distro]]
      BY <1>1, <2>1 DEF DeriveReadTags, InTurns, Histories
    <3> QED
      BY <3>1, <3>2, <3>3 DEF Noted
  <2>2. CASE DeriveReadPlatforms(r)
    <3>1. db' = db /\ pc'[r] = "derive3" /\ pc[r] = "derive2"
      BY <1>1, <2>2, RunGoes DEF DeriveReadPlatforms, Places, InTry
    <3>2. SameImages /\ Kept' /\ Stored' = Stored
      BY <1>1, <3>1, NothingStored
    <3>3. DOMAIN seenRows'[r] = DOMAIN seenRows[r]
      BY <1>1, <2>2 DEF DeriveReadPlatforms, InTurns, Histories
    <3>4. DOMAIN seenRows[r] \subseteq Stored
      BY <1>1, <3>1 DEF InTurns, Noted
    <3> QED
      BY <3>1, <3>2, <3>3, <3>4 DEF Noted
  <2>3. CASE DeriveWrite(r)
    <3>1. pc'[r] \in {"finish", "failing"}
      BY <1>1, <2>3, RunGoes DEF DeriveWrite, Places
    <3>2. SameImages /\ Kept'
      BY <1>1, <2>3, DeriveStores DEF InTurns
    <3> QED
      BY <3>1, <3>2 DEF Noted
  <2> QED
    BY <2>1, <2>2, <2>3 DEF Deriving
<1>3. Received(r)' /\ Classified(r)'
  BY <1>2 DEF Received, Classified
<1>4. Reached(r)
  BY DEF InTurns, TurnInv
<1>5. \A t \in settled[r] : Current(r, t) => Current(r, t)'
  BY <1>1, <1>2, <1>4 DEF Reached, Current, SameImages
<1>6. run'[r].stop # "end"
  BY <1>1 DEF Inv, RunInv, Recorded, InTry, Closing, Finishing
<1>7. Reached(r)'
  <2>1. settled'[r] \subseteq {t \in Tags : hub'[t] # None}
    BY <1>1, <1>4 DEF Reached
  <2>2. loc'[r].stop = "end" => \A t \in settled'[r] : Current(r, t)'
    BY <1>1, <1>4, <1>5 DEF Reached
  <2>3. pc'[r] \notin {"repo", "fetch", "read", "commit"}
    BY <1>2
  <2> QED
    BY <1>6, <2>1, <2>2, <2>3, Zenon DEF Reached
<1> QED
  BY <1>1, <1>2, <1>3, <1>7, TurnOf DEF TurnInv

(* A derive command changes no image and no run.                           *)
LEMMA CommandInTurn ==
  ASSUME InTurns, Inv', NEW d \in Derivers,
         DeriveBegins(d) \/ DeriveFails(d) \/ Deriving(d)
  PROVE  InTurns'
<1>1. /\ Inv /\ d \in Procs /\ d \notin Runs
  BY DEF InTurns, Procs
<1>2. /\ loc' = loc /\ run' = run /\ settled' = settled
      /\ order' = order /\ hub' = hub /\ pushes' = pushes
  BY DEF Deriving, DeriveReadTags, DeriveReadPlatforms, DeriveWrite, DeriveBegins,
         DeriveFails, hubVars
<1>3. \E where \in Places : Goto(d, where)
  BY <1>1 DEF Deriving, DeriveReadTags, DeriveReadPlatforms, DeriveWrite, DeriveBegins,
         DeriveFails, Places, InTry, Over
<1>4. \A p \in Procs \ {d} : pc'[p] = pc[p]
  BY <1>1, <1>3, GotoPlace DEF Inv
<1>5. \A q \in Runs : pc'[q] = pc[q]
  BY <1>1, <1>4 DEF Procs
<1>6. /\ seenRows' = [p \in Procs |-> seenRows'[p]]
      /\ \A p \in Procs \ {d} : seenRows'[p] = seenRows[p]
  <2>1. seenRows' = seenRows \/ \E x : seenRows' = [seenRows EXCEPT ![d] = x]
    BY Zenon DEF Deriving, DeriveReadTags, DeriveReadPlatforms, DeriveWrite, DeriveBegins,
         DeriveFails
  <2> QED
    BY <2>1 DEF InTurns, Histories
<1>7. SameImages /\ Kept' /\ Noted(d)'
  <2>1. CASE DeriveBegins(d) \/ DeriveFails(d)
    <3>1. db' = db
      BY <2>1 DEF DeriveBegins, DeriveFails
    <3>2. pc'[d] \in {"derive1", "failed"}
      BY <1>1, <2>1, GotoPlace DEF DeriveBegins, DeriveFails, Places, InTry, Over, Inv
    <3> QED
      BY <1>2, <3>1, <3>2 DEF InTurns, Kept, SameImages, Noted
  <2>2. CASE DeriveReadTags(d)
    <3>1. db' = db /\ seenRows'[d] = [t \in Stored |-> [distro |-> db[t].distro]]
      BY <1>1, <2>2 DEF DeriveReadTags, InTurns, Histories
    <3> QED
      BY <1>2, <3>1 DEF InTurns, Kept, SameImages, Noted, Stored
  <2>3. CASE DeriveReadPlatforms(d)
    <3>1. db' = db /\ pc[d] = "derive2" /\ DOMAIN seenRows'[d] = DOMAIN seenRows[d]
      BY <1>1, <2>3 DEF DeriveReadPlatforms, InTurns, Histories
    <3>2. DOMAIN seenRows[d] \subseteq Stored
      BY <1>1, <3>1 DEF InTurns, Noted
    <3> QED
      BY <1>2, <3>1, <3>2 DEF InTurns, Kept, SameImages, Noted, Stored
  <2>4. CASE DeriveWrite(d)
    <3>1. SameImages /\ Kept'
      BY <1>1, <2>4, DeriveStores DEF InTurns
    <3>2. pc'[d] = "done"
      BY <1>1, <2>4, GotoPlace DEF DeriveWrite, Places, Over, Inv
    <3> QED
      BY <3>1, <3>2 DEF Noted
  <2> QED
    BY <2>1, <2>2, <2>3, <2>4 DEF Deriving
<1>8. ASSUME NEW q \in Runs
      PROVE  TurnInv(q)'
  <2>1. Latest(q)' => Latest(q)
    BY <1>5 DEF Latest
  <2>2. TurnInv(q)
    BY DEF InTurns
  <2> QED
    BY <1>2, <1>5, <1>7, <2>1, <2>2, WaitsInTurn
<1>9. \A p \in Procs : Noted(p)'
  <2>1. Stored' = Stored
    BY <1>7 DEF Stored, SameImages
  <2>2. \A p \in Procs \ {d} : Noted(p)'
    BY <1>4, <1>6, <2>1 DEF Noted, InTurns
  <2> QED
    BY <1>7, <2>2
<1>10. Listed' /\ Turn' /\ Histories'
  <2>1. Listed'
    <3>1. /\ hub' = hub /\ order' = order /\ pushes' = pushes
      BY <1>2
    <3> QED
      BY <3>1, ZenonT(30) DEF InTurns, Listed, Truthful
  <2>2. Turn' /\ Histories'
    BY <1>2, <1>5, <1>6 DEF InTurns, Turn, Histories
  <2> QED
    BY <2>1, <2>2
<1> QED
  BY <1>7, <1>8, <1>9, <1>10 DEF InTurns

-----------------------------------------------------------------------------
(* The Hub moves while runs take turns.                                    *)
LEMMA PageIsNumbered ==
  ASSUME Inv, NEW r \in Runs, pc[r] \in {"fetch", "read", "commit"}
  PROVE  (loc[r].page - 1) * PageSize \in Nat /\ loc[r].page * PageSize \in Nat
<1>1. /\ run[r] # None /\ loc[r].page = loc[r].pages + 1 /\ loc[r].pages = run[r].pages
  BY DEF Inv, RunInv, Recorded, InTry, Scanned, Scanning
<1>2. run[r] \in RunRows
  BY <1>1 DEF Inv, Typed
<1>3. loc[r].page - 1 \in Nat /\ loc[r].page \in Nat
  BY <1>1, <1>2 DEF RunRows
<1>4. \A a, b \in Nat : a * b \in Nat
  OBVIOUS
<1> QED
  BY <1>3, <1>4, Zenon

LEMMA HubInTurn ==
  ASSUME InTurns, Inv', Hub
  PROVE  InTurns'
<1>1. /\ Inv /\ Typed /\ Listed /\ Kept
  BY DEF InTurns, Inv
<1>2. PICK t \in Tags : Delete(t) \/ \E img \in Images : Push(t, img)
  BY DEF Hub
<1>3. /\ db' = db /\ run' = run /\ pc' = pc /\ loc' = loc /\ seenRows' = seenRows
  BY <1>2 DEF Delete, Push
<1>4. /\ Turn' /\ \A p \in Procs : Noted(p)'
  BY <1>3 DEF InTurns, Turn, Noted, Stored
<1>5. /\ \A r \in Runs : RowsOf(r)' = RowsOf(r)
      /\ \A row : Changed(row)' = Changed(row)
  BY <1>3 DEF RowsOf, Changed
<1>6. \A r \in Runs : Classified(r)'
  <2> SUFFICES ASSUME NEW r \in Runs, pc[r] = "commit"
               PROVE  /\ loc[r].new = {row \in RowsOf(r)' : db[row.tag] = None}
                      /\ loc[r].changed = {row \in RowsOf(r)' : db[row.tag] # None /\ Changed(row)'}
                      /\ loc[r].same = {row \in RowsOf(r)' : db[row.tag] # None /\ ~Changed(row)'}
    BY <1>3 DEF Classified
  <2>1. /\ loc[r].new = {row \in RowsOf(r) : db[row.tag] = None}
        /\ loc[r].changed = {row \in RowsOf(r) : db[row.tag] # None /\ Changed(row)}
        /\ loc[r].same = {row \in RowsOf(r) : db[row.tag] # None /\ ~Changed(row)}
    BY DEF InTurns, TurnInv, Classified
  <2>2. RowsOf(r)' = RowsOf(r) /\ \A row : Changed(row)' = Changed(row)
    BY <1>5
  <2> QED
    BY <2>1, <2>2
<1>7. \A u \in Tags : /\ hub[u] # None => hub[u].at \in Nat /\ hub[u].at <= pushes
                      /\ db[u] # None => db[u].at \in Nat /\ db[u].at <= pushes
  BY <1>1 DEF Listed, Kept, HubEntries, TagRows
<1>8. pushes \in Nat
  BY <1>1 DEF Listed
<1>9. CASE Delete(t)
  <2>1. /\ Listed' /\ hub'[t] = None /\ \A u \in Tags \ {t} : hub'[u] = hub[u]
    BY <1>1, <1>9, DeleteListed
  <2>2. /\ pushes' = pushes /\ settled' = [r \in Runs |-> {}]
    BY <1>9 DEF Delete
  <2>3. Kept'
    BY <1>1, <1>3, <2>1, <2>2 DEF Kept
  <2>4. \A r \in Runs : Received(r)'
    <3> SUFFICES ASSUME NEW r \in Runs, pc[r] \in {"read", "commit"}, NEW row \in RowsOf(r)
                 PROVE  /\ row \in [tag : Tags, img : Images, at : Nat] /\ row.at <= pushes
                        /\ Truthful(row.tag, row.img)
                        /\ hub'[row.tag] # None =>
                             \/ row.at < hub'[row.tag].at
                             \/ row.at = hub'[row.tag].at /\ row.img = hub'[row.tag].img
                        /\ db[row.tag] # None => db[row.tag].at <= row.at
      BY <1>3, <1>5, <2>2 DEF Received, Truthful
    <3>1. Received(r)
      BY DEF InTurns, TurnInv
    <3> QED
      BY <2>1, <3>1 DEF Received
  <2>5. \A r \in Runs : Reached(r)'
    <3> SUFFICES ASSUME NEW r \in Runs
                 PROVE  Reached(r)'
      OBVIOUS
    <3>1. settled'[r] = {}
      BY <2>2
    <3>2. Reached(r)
      BY DEF InTurns, TurnInv
    <3> QED
      BY <1>3, <3>1, <3>2 DEF Reached
  <2> QED
    BY <1>4, <1>6, <2>1, <2>2, <2>3, <2>4, <2>5, <1>3 DEF InTurns, TurnInv, Histories
<1>10. CASE \E img \in Images : Push(t, img)
  <2>1. PICK img \in Images : Push(t, img)
    BY <1>10
  <2>2. /\ Listed' /\ hub'[t] # None /\ hub'[t].at = pushes + 1
        /\ \A u \in Tags \ {t} : hub'[u] = hub[u]
        /\ \A u \in Tags \ {t}, n \in Nat : Behind(u, n) => Behind(u, n)'
    BY <1>1, <2>1, PushListed
  <2>3. /\ pushes' = pushes + 1 /\ settled' = [r \in Runs |-> settled[r] \ {t}]
    BY <2>1 DEF Push
  <2>4. Kept'
    <3>1. db' \in [Tags -> TagRows \union {None}]
      BY <1>1, <1>3 DEF Kept
    <3>2. ASSUME NEW u \in Tags, db[u] # None
          PROVE  db[u].at <= pushes + 1 /\ (hub'[u] # None => db[u].at <= hub'[u].at)
      <4>1. db[u].at \in Nat /\ db[u].at <= pushes
        BY <1>7, <3>2
      <4>2. CASE u = t
        BY <1>8, <2>2, <4>1, <4>2
      <4>3. CASE u # t
        BY <1>1, <1>8, <2>2, <3>2, <4>1, <4>3 DEF Kept
      <4> QED
        BY <4>2, <4>3
    <3> QED
      BY <1>3, <2>3, <3>1, <3>2 DEF Kept
  <2>5. \A r \in Runs : Received(r)'
    <3> SUFFICES ASSUME NEW r \in Runs, pc[r] \in {"read", "commit"}, NEW row \in RowsOf(r)
                 PROVE  /\ row \in [tag : Tags, img : Images, at : Nat]
                        /\ row.at <= pushes + 1
                        /\ Truthful(row.tag, row.img)
                        /\ hub'[row.tag] # None =>
                             \/ row.at < hub'[row.tag].at
                             \/ row.at = hub'[row.tag].at /\ row.img = hub'[row.tag].img
                        /\ db[row.tag] # None => db[row.tag].at <= row.at
      BY <1>3, <1>5, <2>3 DEF Received, Truthful
    <3>1. /\ row \in [tag : Tags, img : Images, at : Nat] /\ row.at <= pushes
          /\ Truthful(row.tag, row.img)
          /\ hub[row.tag] # None => \/ row.at < hub[row.tag].at
                                    \/ row.at = hub[row.tag].at /\ row.img = hub[row.tag].img
          /\ db[row.tag] # None => db[row.tag].at <= row.at
      BY DEF InTurns, TurnInv, Received
    <3>2. row.at \in Nat /\ row.tag \in Tags
      BY <3>1
    <3>3. CASE row.tag = t
      BY <1>8, <2>2, <3>1, <3>2, <3>3
    <3>4. CASE row.tag # t
      BY <1>8, <2>2, <3>1, <3>2, <3>4
    <3> QED
      BY <3>3, <3>4
  <2>6. \A r \in Runs : Reached(r)'
    <3> SUFFICES ASSUME NEW r \in Runs
                 PROVE  Reached(r)'
      OBVIOUS
    <3>1. Reached(r) /\ settled'[r] = settled[r] \ {t}
      BY <2>3 DEF InTurns, TurnInv
    <3>2. settled[r] \subseteq Tags
      BY <3>1 DEF Reached
    <3>3. \A u \in settled'[r] : u \in settled[r] /\ u \in Tags \ {t} /\ hub'[u] = hub[u]
      BY <2>2, <3>1, <3>2
    <3>4. \A u \in settled'[r] : /\ Current(r, u) => Current(r, u)'
                                 /\ OnPage(r, u) => OnPage(r, u)'
      BY <1>3, <1>5, <3>3 DEF Current, OnPage
    <3>5. \A u \in settled'[r], n \in Nat : Behind(u, n) => Behind(u, n)'
      BY <2>2, <3>3
    <3>6. settled'[r] \subseteq {u \in Tags : hub'[u] # None}
      BY <3>1, <3>3 DEF Reached
    <3>7. pc'[r] = "fetch" => \A u \in settled'[r] :
            Current(r, u)' \/ Behind(u, (loc[r].page - 1) * PageSize)'
      <4> SUFFICES ASSUME pc[r] = "fetch", NEW u \in settled'[r]
                   PROVE  Current(r, u)' \/ Behind(u, (loc[r].page - 1) * PageSize)'
        BY <1>3
      <4> DEFINE n == (loc[r].page - 1) * PageSize
      <4>1. n \in Nat /\ n' = n
        BY <1>1, <1>3, PageIsNumbered
      <4>2. Current(r, u) \/ Behind(u, n)
        BY <3>1, <3>3 DEF Reached
      <4> HIDE DEF n
      <4>3. Current(r, u)' \/ Behind(u, n)'
        BY <3>4, <3>5, <4>1, <4>2 DEF Behind
      <4> QED
        BY <4>3 DEF n
    <3>8. pc'[r] \in {"read", "commit"} => \A u \in settled'[r] :
            \/ Current(r, u)' \/ OnPage(r, u)'
            \/ loc'[r].next /\ Behind(u, loc[r].page * PageSize)'
      <4> SUFFICES ASSUME pc[r] \in {"read", "commit"}, NEW u \in settled'[r]
                   PROVE  \/ Current(r, u)' \/ OnPage(r, u)'
                          \/ loc'[r].next /\ Behind(u, loc[r].page * PageSize)'
        BY <1>3
      <4> DEFINE n == loc[r].page * PageSize
      <4>1. n \in Nat /\ n' = n
        BY <1>1, <1>3, PageIsNumbered
      <4>2. Current(r, u) \/ OnPage(r, u) \/ (loc[r].next /\ Behind(u, n))
        BY <3>1, <3>3 DEF Reached
      <4> HIDE DEF n
      <4>3. Current(r, u)' \/ OnPage(r, u)' \/ (loc'[r].next /\ Behind(u, n)')
        BY <1>3, <3>4, <3>5, <4>1, <4>2 DEF Behind
      <4> QED
        BY <4>3 DEF n
    <3>9. /\ pc'[r] = "repo" => loc'[r].page = 1
          /\ pc'[r] \in Closing /\ loc'[r].stop = "end" =>
               \A u \in settled'[r] : Current(r, u)'
          /\ run'[r] # None /\ run'[r].stop = "end" /\ Latest(r)' =>
               \A u \in settled'[r] : Current(r, u)'
      BY <1>3, <3>1, <3>3, <3>4 DEF Reached, Latest
    <3> QED
      BY <3>6, <3>7, <3>8, <3>9, Zenon DEF Reached
  <2> QED
    BY <1>4, <1>6, <2>2, <2>3, <2>4, <2>5, <2>6, <1>3 DEF InTurns, TurnInv, Histories
<1> QED
  BY <1>2, <1>9, <1>10

-----------------------------------------------------------------------------
LEMMA InTurnsInit ==
  ASSUME Init
  PROVE  InTurns
<1>1. Inv /\ Listed
  BY InvInit, ListedInit
<1>2. /\ db = [t \in Tags |-> None] /\ run = [r \in Runs |-> None]
      /\ pc = [p \in Procs |-> "idle"] /\ settled = [r \in Runs |-> {}]
      /\ seenRows = [p \in Procs |-> <<>>] /\ Runs \subseteq Procs
  BY DEF Init, Procs
<1>3. Turn /\ Kept /\ Histories /\ \A p \in Procs : Noted(p)
  BY <1>2 DEF Turn, Kept, Histories, Noted
<1>4. \A r \in Runs : TurnInv(r)
  <2> SUFFICES ASSUME NEW r \in Runs
               PROVE  TurnInv(r)
    OBVIOUS
  <2>1. pc[r] = "idle" /\ settled[r] = {} /\ run[r] = None
    BY <1>2
  <2> QED
    BY <2>1 DEF TurnInv, Received, Classified, Reached, Closing
<1> QED
  BY <1>1, <1>3, <1>4 DEF InTurns

LEMMA InTurnsStep ==
  ASSUME MaxConcurrent = 1, InTurns, [Next]_vars
  PROVE  InTurns'
<1>1. Inv'
  BY InvStep DEF InTurns
<1>2. CASE Hub
  BY <1>1, <1>2, HubInTurn
<1>3. ASSUME NEW r \in Runs, Collecting(r)
      PROVE  InTurns'
  BY <1>1, <1>3, StartsInTurn, SaveInTurn, FetchInTurn, LimitInTurn, ReadInTurn,
     CommitInTurn, EndInTurn, StopInTurn DEF Collecting
<1>4. ASSUME NEW r \in Runs, Breaking(r)
      PROVE  InTurns'
  BY <1>1, <1>4, StartsInTurn, StopInTurn, EndInTurn DEF Breaking
<1>5. ASSUME NEW d \in Derivers, DeriveBegins(d) \/ DeriveFails(d)
      PROVE  InTurns'
  BY <1>1, <1>5, CommandInTurn
<1>6. ASSUME NEW p \in Procs, Deriving(p)
      PROVE  InTurns'
  BY <1>1, <1>6, DeriveInTurn, CommandInTurn DEF Procs
<1>7. CASE UNCHANGED vars
  <2>1. /\ order' = order /\ hub' = hub /\ pushes' = pushes /\ db' = db /\ pc' = pc
        /\ loc' = loc /\ run' = run /\ settled' = settled /\ seenRows' = seenRows
    BY <1>7 DEF vars, hubVars
  <2>2. \A q \in Runs : TurnInv(q)'
    <3>1. SameImages /\ \A q \in Runs : Latest(q)' => Latest(q)
      BY <2>1 DEF SameImages, Latest
    <3>2. \A q \in Runs : TurnInv(q)
      BY DEF InTurns
    <3> QED
      BY <2>1, <3>1, <3>2, WaitsInTurn
  <2>3. Listed' /\ Turn' /\ Kept' /\ Histories' /\ \A p \in Procs : Noted(p)'
    BY <2>1 DEF InTurns, Listed, Turn, Kept, Histories, Noted, Stored, Truthful
  <2> QED
    BY <1>1, <2>2, <2>3 DEF InTurns
<1> QED
  BY <1>2, <1>3, <1>4, <1>5, <1>6, <1>7 DEF Next

(* Runs of one repository that take turns, with derive commands beside     *)
(* them: a scan that read to the end has stored every tag that kept its    *)
(* place at the Hub, however pushes shifted the pages meanwhile.           *)
THEOREM ScansCoverWhatStays ==
  ASSUME MaxConcurrent = 1
  PROVE  Spec => []ScanCoversSettled
<1>1. Init => InTurns
  BY InTurnsInit
<1>2. InTurns /\ [Next]_vars => InTurns'
  BY InTurnsStep
<1>3. InTurns => ScanCoversSettled
  BY DEF InTurns, TurnInv, Reached, ScanCoversSettled, Current, Latest
<1> QED
  BY <1>1, <1>2, <1>3, PTL DEF Spec

LEMMA StepsAreNewer ==
  ASSUME InTurns, [Next]_vars
  PROVE  Newer
<1>1. CASE db' = db
  <2>1. \A t \in Stored : db[t] # None /\ db[t].at \in Nat
    BY DEF InTurns, Kept, Stored, TagRows
  <2> QED
    BY <1>1, <2>1 DEF Newer
<1>2. ASSUME NEW r \in Runs, CommitPage(r)
      PROVE  Newer
  BY <1>2, CommitStores
<1>3. ASSUME NEW p \in Procs, DeriveWrite(p)
      PROVE  Newer
  BY <1>3, DeriveStores DEF InTurns
<1>4. \/ db' = db \/ (\E r \in Runs : CommitPage(r)) \/ \E p \in Procs : DeriveWrite(p)
  <2>1. CASE Hub \/ UNCHANGED vars
    BY <2>1 DEF Hub, Push, Delete, vars
  <2>2. ASSUME NEW r \in Runs, Collecting(r) \/ Breaking(r)
        PROVE  db' = db \/ CommitPage(r)
    BY <2>2, Zenon DEF Collecting, Breaking, StartRun, SaveRepository, FetchPage,
       ReachOffsetLimit, ReadExisting, Finish, RecordError, ReportFailure, StartFails,
       Fail, Interrupt, Crash, FinishFails
  <2>3. ASSUME NEW d \in Derivers, DeriveBegins(d) \/ DeriveFails(d)
        PROVE  db' = db
    BY <2>3 DEF DeriveBegins, DeriveFails
  <2>4. ASSUME NEW p \in Procs, Deriving(p)
        PROVE  db' = db \/ DeriveWrite(p)
    BY <2>4 DEF Deriving, DeriveReadTags, DeriveReadPlatforms
  <2> QED
    BY <2>1, <2>2, <2>3, <2>4 DEF Next
<1> QED
  BY <1>1, <1>2, <1>3, <1>4

(* Such runs never lose a stored tag and never take one back to an older   *)
(* push, whatever fails and whatever the Hub does.                         *)
THEOREM TurnsNeverRegress ==
  ASSUME MaxConcurrent = 1
  PROVE  Spec => NeverRegresses
<1>1. Init => InTurns
  BY InTurnsInit
<1>2. InTurns /\ [Next]_vars => InTurns'
  BY InTurnsStep
<1>3. InTurns /\ [Next]_vars => [\A t \in Stored : db'[t] # None /\ db'[t].at >= db[t].at]_vars
  BY StepsAreNewer DEF Newer
<1> QED
  BY <1>1, <1>2, <1>3, PTL DEF Spec, NeverRegresses

-----------------------------------------------------------------------------
(* What a run's derivation has read is what is stored.                     *)
Derivable(r) ==
  /\ pc[r] = "derive2" => seenRows[r] = [t \in Stored |-> [distro |-> db[t].distro]]
  /\ pc[r] = "derive3" =>
       seenRows[r] = [t \in Stored |-> [distro |-> db[t].distro, img |-> db[t].img]]
  /\ pc[r] = "finish" =>
       [t \in Stored |-> db[t].distro] = Resolve([t \in Stored |-> db[t].img])

AllTrue == \A t \in Stored : /\ Truthful(t, db[t].img)
                             /\ db[t].distro \in {None, TrueDistro[db[t].img]}

Alike == InTurns /\ AllTrue /\ \A r \in Runs : Derivable(r)

LEMMA CommitIsTrue ==
  ASSUME InTurns, AllTrue, NEW r \in Runs, CommitPage(r)
  PROVE  AllTrue'
<1>1. /\ \A t \in Tags : (\A row \in RowsOf(r) : row.tag # t) => db'[t] = db[t]
      /\ \A row \in RowsOf(r) :
           /\ db'[row.tag].img = row.img
           /\ \/ db'[row.tag].distro = None
              \/ /\ db[row.tag] # None /\ db[row.tag].img = row.img
                 /\ db[row.tag].distro = db'[row.tag].distro
  BY CommitSays
<1>2. Received(r) /\ pc[r] = "commit"
  BY DEF InTurns, TurnInv, CommitPage
<1>3. SUFFICES ASSUME NEW t \in Tags, db'[t] # None
               PROVE  /\ Truthful(t, db'[t].img)
                      /\ db'[t].distro \in {None, TrueDistro[db'[t].img]}
  BY DEF AllTrue, Stored, Truthful
<1>4. CASE \A row \in RowsOf(r) : row.tag # t
  BY <1>1, <1>3, <1>4 DEF AllTrue, Stored
<1>5. CASE \E row \in RowsOf(r) : row.tag = t
  <2>1. PICK row \in RowsOf(r) : row.tag = t
    BY <1>5
  <2>2. Truthful(t, row.img) /\ db'[t].img = row.img
    BY <1>1, <1>2, <2>1 DEF Received
  <2>3. CASE db'[t].distro = None
    BY <2>2, <2>3
  <2>4. CASE db[t] # None /\ db[t].img = row.img /\ db[t].distro = db'[t].distro
    BY <2>2, <2>4 DEF AllTrue, Stored
  <2> QED
    BY <1>1, <2>1, <2>3, <2>4
<1> QED
  BY <1>4, <1>5

(* The derivation of a run that works alone: the values it writes are those *)
(* of the images stored.                                                   *)
LEMMA WriteIsWhole ==
  ASSUME InTurns, AllTrue, NEW r \in Runs, Derivable(r), DeriveWrite(r)
  PROVE  /\ AllTrue'
         /\ [t \in Stored |-> db[t].distro]' = Resolve([t \in Stored |-> db[t].img])'
<1> DEFINE rows == seenRows[r]
           img == [t \in Stored |-> db[t].img]
           new == Resolve(img)
<1>1. /\ Kept /\ Listed /\ Noted(r) /\ r \in Procs /\ pc[r] = "derive3"
  BY DEF InTurns, Procs, DeriveWrite
<1>2. rows = [t \in Stored |-> [distro |-> db[t].distro, img |-> db[t].img]]
  BY <1>1 DEF Derivable
<1>3. DOMAIN rows = Stored /\ [u \in DOMAIN rows |-> rows[u].img] = img
  BY <1>2
<1>4. \A t \in Stored : rows[t].distro = db[t].distro
  BY <1>2
<1>5. Stored \subseteq Tags /\ DOMAIN img = Stored
  BY DEF Stored
<1>6. /\ new = [t \in Stored |-> new[t]]
      /\ \A t \in Stored :
           new[t] = None \/ \E u \in Stored : img[u] = img[t] /\ new[t] = NameDistro[u]
  <2> HIDE DEF img
  <2> QED
    BY <1>5, ResolveSays
<1> HIDE DEF new
<1>7. /\ SameImages
      /\ \A t \in Stored : /\ new[t] # db[t].distro => db'[t].distro = new[t]
                           /\ new[t] = db[t].distro => db'[t] = db[t]
  <2> DEFINE R == Resolve([u \in DOMAIN rows |-> rows[u].img])
  <2>1. R = new
    BY <1>3 DEF new
  <2>2. /\ SameImages
        /\ \A t \in DOMAIN rows : R[t] # rows[t].distro => db'[t].distro = R[t]
        /\ \A t \in DOMAIN rows : R[t] = rows[t].distro => db'[t] = db[t]
    BY <1>1, DeriveStores
  <2> HIDE DEF R, rows
  <2> QED
    BY <1>3, <1>4, <2>1, <2>2
<1>8. \A t \in Stored : db'[t].distro = new[t] /\ db'[t].img = db[t].img
  <2> SUFFICES ASSUME NEW t \in Stored
               PROVE  db'[t].distro = new[t] /\ db'[t].img = db[t].img
    OBVIOUS
  <2>1. db'[t].img = db[t].img
    BY <1>5, <1>7 DEF SameImages, Stored
  <2>2. CASE new[t] = db[t].distro
    BY <1>7, <2>1, <2>2
  <2>3. CASE new[t] # db[t].distro
    BY <1>7, <2>1, <2>3
  <2> QED
    BY <2>2, <2>3
<1>9. Stored' = Stored
  BY <1>7 DEF SameImages, Stored
<1>10. [t \in Stored |-> db[t].distro]' = Resolve([t \in Stored |-> db[t].img])'
  <2>1. [t \in Stored' |-> db'[t].distro] = new
    BY <1>6, <1>8, <1>9
  <2>2. [t \in Stored' |-> db'[t].img] = img
    BY <1>8, <1>9
  <2> HIDE DEF img
  <2>3. Resolve([t \in Stored' |-> db'[t].img]) = new
    BY <2>2 DEF new
  <2> QED
    BY <2>1, <2>3 DEF Resolve
<1>11. AllTrue'
  <2> SUFFICES ASSUME NEW t \in Stored
               PROVE  /\ Truthful(t, db'[t].img)
                      /\ db'[t].distro \in {None, TrueDistro[db'[t].img]}
    BY <1>9 DEF AllTrue, Truthful
  <2>1. Truthful(t, db[t].img)
    BY DEF AllTrue
  <2>2. CASE new[t] = None
    BY <1>8, <2>1, <2>2
  <2>3. CASE new[t] # None
    <3>1. PICK u \in Stored : img[u] = img[t] /\ new[t] = NameDistro[u]
      BY <1>6, <2>3
    <3>2. db[u].img = db[t].img /\ Truthful(u, db[u].img)
      BY <3>1 DEF AllTrue
    <3> QED
      BY <1>8, <2>1, <2>3, <3>1, <3>2 DEF Truthful
  <2> QED
    BY <2>2, <2>3
<1> QED
  BY <1>10, <1>11

(* While no image and no derived value changes, what is true stays true.   *)
LEMMA SameRowsAreTrue ==
  ASSUME AllTrue, db' = db
  PROVE  AllTrue'
  BY DEF AllTrue, Stored, Truthful

(* The run at work is the only one of which anything need be shown.        *)
LEMMA AlikeOf ==
  ASSUME MaxConcurrent = 1, Alike, NEW r \in Runs, RunStep(r), InTurns', AllTrue',
         Derivable(r)'
  PROVE  Alike'
<1>1. ASSUME NEW q \in Runs, q # r
      PROVE  Derivable(q)'
  <2>1. pc'[q] \in Over \union {"idle"}
    BY <1>1, TakesTurn, ZenonT(30) DEF Alike, InTurns, Alone
  <2> QED
    BY <2>1 DEF Derivable, Over
<1> QED
  BY <1>1 DEF Alike

LEMMA AlikeDeriving ==
  ASSUME MaxConcurrent = 1, Alike, NEW r \in Runs, InTurns', Deriving(r)
  PROVE  Alike'
<1>1. /\ RunStep(r) /\ InTurns /\ AllTrue /\ Derivable(r) /\ Inv /\ Histories /\ r \in Procs
  BY DEF RunStep, Alike, InTurns, Procs
<1>2. CASE DeriveReadTags(r)
  <2>1. /\ pc'[r] = "derive2" /\ db' = db
        /\ seenRows'[r] = [t \in Stored |-> [distro |-> db[t].distro]]
    BY <1>1, <1>2, RunGoes DEF DeriveReadTags, Histories, Places, InTry
  <2>2. Derivable(r)'
    BY <2>1 DEF Derivable, Stored
  <2> QED
    BY <1>1, <2>1, <2>2, AlikeOf, SameRowsAreTrue
<1>3. CASE DeriveReadPlatforms(r)
  <2> DEFINE rows == seenRows[r]
  <2>1. /\ pc'[r] = "derive3" /\ db' = db /\ pc[r] = "derive2"
        /\ seenRows'[r] = [t \in DOMAIN rows |->
                            [distro |-> rows[t].distro, img |-> db[t].img]]
    BY <1>1, <1>3, RunGoes DEF DeriveReadPlatforms, Histories, Places, InTry
  <2>2. rows = [t \in Stored |-> [distro |-> db[t].distro]]
    BY <1>1, <2>1 DEF Derivable
  <2>3. DOMAIN rows = Stored /\ \A t \in Stored : rows[t].distro = db[t].distro
    BY <2>2
  <2> HIDE DEF rows
  <2>4. seenRows'[r] = [t \in Stored |-> [distro |-> db[t].distro, img |-> db[t].img]]
    BY <2>1, <2>3
  <2>5. Derivable(r)'
    BY <2>1, <2>4 DEF Derivable, Stored
  <2> QED
    BY <1>1, <2>1, <2>5, AlikeOf, SameRowsAreTrue
<1>4. CASE DeriveWrite(r)
  <2>1. pc'[r] \in {"finish", "failing"}
    BY <1>1, <1>4, RunGoes DEF DeriveWrite, Places
  <2>2. /\ AllTrue'
        /\ [t \in Stored |-> db[t].distro]' = Resolve([t \in Stored |-> db[t].img])'
    BY <1>1, <1>4, WriteIsWhole
  <2>3. Derivable(r)'
    BY <2>1, <2>2 DEF Derivable
  <2> QED
    BY <1>1, <2>2, <2>3, AlikeOf
<1> QED
  BY <1>2, <1>3, <1>4 DEF Deriving

LEMMA AlikeInit ==
  ASSUME Init
  PROVE  Alike
<1>1. \A t \in Tags : db[t] = None
  BY DEF Init
<1>2. \A r \in Runs : pc[r] = "idle"
  BY DEF Init, Procs
<1> QED
  BY <1>1, <1>2, InTurnsInit DEF Alike, AllTrue, Stored, Derivable

(* Where the other steps of a run lead, and that they leave image_tags.    *)
LEMMA OtherSteps ==
  ASSUME Inv, NEW r \in Runs, Collecting(r) \/ Breaking(r)
  PROVE  /\ pc'[r] \notin {"derive2", "derive3", "finish"}
         /\ db' = db \/ CommitPage(r)
<1> USE RunGoes DEF Places, InTry, Over
<1>1. CASE StartRun(r) \/ SaveRepository(r) \/ StartFails(r) \/ FinishFails(r)
  BY <1>1 DEF StartRun, SaveRepository, StartFails, FinishFails
<1>2. CASE FetchPage(r) \/ ReachOffsetLimit(r) \/ ReadExisting(r)
  BY <1>2 DEF FetchPage, ReachOffsetLimit, ReadExisting
<1>3. CASE CommitPage(r)
  BY <1>3, CommitGoes
<1>4. CASE Finish(r) \/ RecordError(r) \/ ReportFailure(r)
  BY <1>4 DEF Finish, RecordError, ReportFailure
<1>5. CASE Fail(r) \/ Interrupt(r) \/ Crash(r)
  BY <1>5 DEF Fail, Interrupt, Crash
<1> QED
  BY <1>1, <1>2, <1>3, <1>4, <1>5 DEF Collecting, Breaking

LEMMA AlikeStep ==
  ASSUME MaxConcurrent = 1, Derivers = {}, Alike, [Next]_vars
  PROVE  Alike'
<1>1. InTurns /\ InTurns' /\ Inv /\ AllTrue
  BY InTurnsStep DEF Alike, InTurns
<1>2. CASE Hub \/ UNCHANGED vars
  <2>1. db' = db /\ pc' = pc /\ seenRows' = seenRows
    BY <1>2 DEF Hub, Push, Delete, vars
  <2>2. \A r \in Runs : Derivable(r)'
    <3>1. Stored' = Stored
      BY <2>1 DEF Stored
    <3>2. Resolve([t \in Stored |-> db[t].img])' = Resolve([t \in Stored |-> db[t].img])
      <4>1. [t \in Stored |-> db[t].img]' = [t \in Stored |-> db[t].img]
        BY <2>1, <3>1, Zenon
      <4> QED
        BY <4>1, Zenon
    <3> QED
      BY <2>1, <3>1, <3>2, ZenonT(60) DEF Alike, Derivable
  <2> QED
    BY <1>1, <2>1, <2>2, SameRowsAreTrue DEF Alike
<1>3. ASSUME NEW r \in Runs, Collecting(r) \/ Breaking(r)
      PROVE  Alike'
  <2>1. /\ pc'[r] \notin {"derive2", "derive3", "finish"}
        /\ db' = db \/ CommitPage(r)
    BY <1>1, <1>3, OtherSteps
  <2>2. AllTrue'
    BY <1>1, <2>1, SameRowsAreTrue, CommitIsTrue
  <2>3. RunStep(r) /\ Derivable(r)'
    BY <1>3, <2>1 DEF RunStep, Derivable
  <2> QED
    BY <1>1, <2>2, <2>3, AlikeOf
<1>4. ASSUME NEW p \in Procs, Deriving(p)
      PROVE  Alike'
  BY <1>1, <1>4, AlikeDeriving DEF Procs
<1> QED
  BY <1>2, <1>3, <1>4 DEF Next

(* Such runs, without derive commands beside them, never leave a tag the   *)
(* derived value of an image that it no longer has.                        *)
THEOREM TurnsDeriveTheTruth ==
  ASSUME MaxConcurrent = 1, Derivers = {}
  PROVE  Spec => []DerivedIsTrue
<1>1. Init => Alike
  BY AlikeInit
<1>2. Alike /\ [Next]_vars => Alike'
  BY AlikeStep
<1>3. Alike => DerivedIsTrue
  BY DEF Alike, AllTrue, DerivedIsTrue
<1> QED
  BY <1>1, <1>2, <1>3, PTL DEF Spec

(* Only the last step of a run finishes its row.                           *)
LEMMA OnlyFinishFinishes ==
  ASSUME Inv, Inv', [Next]_vars, NEW r \in Runs,
         run[r] # None, ~run[r].finished, run'[r].finished
  PROVE  pc[r] = "finish"
<1>1. run = [q \in Runs |-> run[q]]
  BY DEF Inv, Typed
<1>2. run' # run
  OBVIOUS
<1>3. PICK q \in Runs : Collecting(q) \/ Breaking(q)
  <2>1. ~(Hub \/ UNCHANGED vars)
    BY <1>2 DEF Hub, Push, Delete, vars
  <2>2. \A d \in Derivers : ~(DeriveBegins(d) \/ DeriveFails(d))
    BY <1>2 DEF DeriveBegins, DeriveFails
  <2>3. \A p \in Procs : ~Deriving(p)
    BY <1>2 DEF Deriving, DeriveReadTags, DeriveReadPlatforms, DeriveWrite
  <2> QED
    BY <2>1, <2>2, <2>3 DEF Next
<1>4. \/ StartRun(q) \/ CommitPage(q) \/ Finish(q) \/ RecordError(q) \/ Interrupt(q)
  BY <1>2, <1>3 DEF Collecting, Breaking, SaveRepository, FetchPage, ReachOffsetLimit,
     ReadExisting, ReportFailure, StartFails, Fail, Crash, FinishFails
<1>5. q = r
  <2>1. \A s \in Runs : s # q => run'[s] = run[s]
    BY <1>1, <1>4, Zenon DEF StartRun, CommitPage, CountPage, Finish, RecordError,
       Interrupt, RecordStop
  <2> QED
    BY <2>1
<1>6. CASE StartRun(r)
  BY <1>6 DEF StartRun, Inv, RunInv, Recorded
<1>7. CASE CommitPage(r)
  <2>1. pc'[r] \in InTry \union {"failing"}
    BY <1>7, CommitGoes DEF InTry
  <2> QED
    BY <2>1 DEF Inv, RunInv, Recorded
<1>8. CASE RecordError(r) \/ Interrupt(r)
  <2>1. PICK why \in {"error", "interrupted"} :
          run' = [run EXCEPT ![r].stop = why, ![r].error = TRUE, ![r].finished = FALSE]
    BY <1>2, <1>8 DEF RecordError, Interrupt, RecordStop
  <2>2. run'[r] = StopRow(run[r], why)
    BY <1>1, <2>1, Zenon DEF StopRow
  <2>3. run[r] \in RunRows
    BY DEF Inv, Typed
  <2> QED
    BY <2>2, <2>3, StopRowSays
<1>9. CASE Finish(r)
  BY <1>9 DEF Finish
<1> QED
  BY <1>4, <1>5, <1>6, <1>7, <1>8, <1>9

(* Nor is such a run recorded as finished before the derived columns of    *)
(* the whole repository are what resolve_aliases gives for what is stored. *)
THEOREM FinishedTurnsAreDerived ==
  ASSUME MaxConcurrent = 1, Derivers = {}
  PROVE  Spec => FinishedIsDerived
<1>1. Init => Alike
  BY AlikeInit
<1>2. Alike /\ [Next]_vars => Alike'
  BY AlikeStep
<1>3. Alike /\ Alike' /\ [Next]_vars =>
        [\A r \in Runs : run[r] # None /\ ~run[r].finished /\ run'[r].finished =>
           [t \in Stored |-> db[t].distro] = Resolve([t \in Stored |-> db[t].img])]_vars
  BY OnlyFinishFinishes DEF Alike, InTurns, Derivable
<1> QED
  BY <1>1, <1>2, <1>3, PTL DEF Spec, FinishedIsDerived
=============================================================================
