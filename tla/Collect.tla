------------------------------ MODULE Collect -------------------------------
(***************************************************************************)
(* The collection batch: collect_repository and collect_all scan one       *)
(* repository of Docker Hub page by page into image_tags, keep a row in    *)
(* collection_runs, and fill the derived columns.  The Hub moves under the *)
(* scan: its list is ordered by last update, so a push shifts the pages.   *)
(* Every transaction is a step; the statements of one that another process *)
(* can come between (READ COMMITTED) are steps of their own.               *)
(***************************************************************************)
EXTENDS Integers, FiniteSets, Sequences, SequencesExt

CONSTANTS
  Tags,          \* tag names of the repository
  Images,        \* what a tag can point to: index digest, platforms
  Undigested,    \* images for which the Hub gives no index digest
  Distros,       \* values of the distribution column
  NameDistro,    \* distribution that parse_tag reads in a name, or None
  TrueDistro,    \* distribution an image really has
  InitialHub,    \* the Hub's list at the start: sequence of [tag, img]
  PageSize,      \* tags per page
  MaxPages,      \* the --max-pages option of each run, or None
  OffsetPages,   \* pages the Hub serves before it answers 403
  Runs,          \* collect processes' runs of the repository: 1..n
  MaxConcurrent, \* how many of them may overlap
  Derivers,      \* `derive` commands of the repository
  MaxPushes, MaxDeletes,  \* bounds on what happens at the Hub
  None

ASSUME CollectAssumption ==
  /\ None \notin Distros /\ None \notin Tags
  /\ InitialHub \in Seq([tag : Tags, img : Images])
  /\ NameDistro \in [Tags -> Distros \union {None}]
  /\ TrueDistro \in [Images -> Distros]
  /\ PageSize \in Nat \ {0} /\ OffsetPages \in Nat
  /\ Runs \subseteq Nat /\ IsFiniteSet(Runs)
  /\ \A r \in Runs : MaxPages[r] = None \/ MaxPages[r] \in Nat \ {0}
  /\ Runs \intersect Derivers = {}

(* The Hub lists a tag once, and a distribution in a tag's name is true.   *)
ASSUME HubAssumption ==
  /\ \A i, j \in 1..Len(InitialHub) : InitialHub[i].tag = InitialHub[j].tag => i = j
  /\ \A i \in 1..Len(InitialHub) :
       NameDistro[InitialHub[i].tag] \in {None, TrueDistro[InitialHub[i].img]}

VARIABLES
  order,    \* the Hub's tags, latest update first
  hub,      \* what the Hub has for each tag: image and push number, or None
  pushes, deletes,  \* how many pushes and deletions there were
  db,       \* image_tags with image_variants: the row of each tag, or None
  repo,     \* repositories.collected_at, or None
  run,      \* collection_runs: the row of each run, or None
  pc,       \* where each process stands
  loc,      \* the locals of each collecting process
  seenRows, \* what each derive transaction has read: tags, then platforms
  outcome,  \* the CollectOutcome of each run, or None
  writes,   \* history: <<run, page, tag>> of every image a run wrote
  settled   \* history: tags that kept their place in the scan of each run

hubVars == <<order, hub, pushes, deletes>>
vars == <<hubVars, db, repo, run, pc, loc, seenRows, outcome, writes, settled>>

Procs      == Runs \union Derivers
Stored     == {t \in Tags : db[t] # None}
Finishing  == {"end", "offset_limit", "max_pages"}
InTry      == {"repo", "fetch", "read", "commit", "derive1", "derive2", "derive3"}
Over       == {"done", "failed", "stopped"}
Active(r)  == pc[r] \notin Over \union {"idle"}

(* collection_runs.                                                        *)
RunRows == [pages : Nat, seen : Nat, written : Nat,
            stop : Finishing \union {"error", "interrupted", None},
            finished : BOOLEAN, error : BOOLEAN]

(* What the Hub has for a tag, and the row that image_tags has for it.     *)
HubEntries == [img : Images, at : Nat]
TagRows    == [img : Images, at : Nat, distro : Distros \union {None}, asOf : Runs]

ASSUME NoneAssumption ==
  /\ None \notin Runs /\ None \notin Finishing /\ None \notin RunRows
  /\ None \notin HubEntries /\ None \notin TagRows

FreshLocals == [page |-> 1, rows |-> <<>>, next |-> FALSE, new |-> {},
                changed |-> {}, same |-> {}, pages |-> 0, seen |-> 0,
                written |-> 0, stop |-> "end"]

Init ==
  /\ order = [i \in 1..Len(InitialHub) |-> InitialHub[i].tag]
  /\ hub = [t \in Tags |->
             IF \E i \in 1..Len(InitialHub) : InitialHub[i].tag = t
             THEN [img |-> InitialHub[CHOOSE i \in 1..Len(InitialHub) :
                                        InitialHub[i].tag = t].img, at |-> 0]
             ELSE None]
  /\ pushes = 0 /\ deletes = 0
  /\ db = [t \in Tags |-> None]
  /\ repo = None
  /\ run = [r \in Runs |-> None]
  /\ pc = [p \in Procs |-> "idle"]
  /\ loc = [r \in Runs |-> FreshLocals]
  /\ seenRows = [p \in Procs |-> <<>>]
  /\ outcome = [r \in Runs |-> None]
  /\ writes = {}
  /\ settled = [r \in Runs |-> {}]

-----------------------------------------------------------------------------
(* Docker Hub. *)

Others(t) ==
  LET places == {i \in DOMAIN order : order[i] = t}
  IN  IF places = {} THEN order ELSE RemoveAt(order, CHOOSE i \in places : TRUE)

(* A push moves the tag to the front of the list. Names tell the truth.    *)
Push(t, img) ==
  /\ pushes < MaxPushes
  /\ NameDistro[t] \in {None, TrueDistro[img]}
  /\ pushes' = pushes + 1
  /\ order' = <<t>> \o Others(t)
  /\ hub' = [hub EXCEPT ![t] = [img |-> img, at |-> pushes + 1]]
  /\ settled' = [r \in Runs |-> settled[r] \ {t}]
  /\ UNCHANGED <<deletes, db, repo, run, pc, loc, seenRows, outcome, writes>>

(* A deletion moves the tags behind it forward, past a scan's next page.   *)
Delete(t) ==
  /\ deletes < MaxDeletes
  /\ hub[t] # None
  /\ deletes' = deletes + 1
  /\ order' = Others(t)
  /\ hub' = [hub EXCEPT ![t] = None]
  /\ settled' = [r \in Runs |-> {}]
  /\ UNCHANGED <<pushes, db, repo, run, pc, loc, seenRows, outcome, writes>>

-----------------------------------------------------------------------------
(* One run of the collector. *)

Goto(p, where) == pc' = [pc EXCEPT ![p] = where]

(* _start_run commits the run's row before the first request.              *)
StartRun(r) ==
  /\ pc[r] = "idle"
  /\ Cardinality({q \in Runs : Active(q)}) < MaxConcurrent
  /\ \A q \in Runs : q < r => pc[q] # "idle"
  /\ run' = [run EXCEPT ![r] = [pages |-> 0, seen |-> 0, written |-> 0,
                                stop |-> None, finished |-> FALSE,
                                error |-> FALSE]]
  /\ Goto(r, "repo")
  /\ UNCHANGED <<hubVars, db, repo, loc, seenRows, outcome, writes, settled>>

(* The row of the run cannot be written: collect_all has no run to report. *)
StartFails(r) ==
  /\ pc[r] = "idle"
  /\ Cardinality({q \in Runs : Active(q)}) < MaxConcurrent
  /\ \A q \in Runs : q < r => pc[q] # "idle"
  /\ Goto(r, "raised")
  /\ UNCHANGED <<hubVars, db, repo, run, loc, seenRows, outcome, writes, settled>>

(* fetch_repository, then upsert_repository in a transaction of its own.   *)
SaveRepository(r) ==
  /\ pc[r] = "repo"
  /\ repo' = r
  /\ Goto(r, "fetch")
  /\ settled' = [settled EXCEPT ![r] = {t \in Tags : hub[t] # None}]
  /\ UNCHANGED <<hubVars, db, run, loc, seenRows, outcome, writes>>

(* The next page of iter_tag_pages, as the Hub's list stands now.          *)
FetchPage(r) ==
  LET first == (loc[r].page - 1) * PageSize + 1
      last  == loc[r].page * PageSize
      page  == SubSeq(order, first, IF last < Len(order) THEN last ELSE Len(order))
  IN  /\ pc[r] = "fetch"
      /\ loc[r].page <= OffsetPages
      /\ loc' = [loc EXCEPT
           ![r].rows = [i \in DOMAIN page |->
                         [tag |-> page[i], img |-> hub[page[i]].img,
                          at |-> hub[page[i]].at]],
           ![r].next = last < Len(order)]
      /\ Goto(r, "read")
      /\ UNCHANGED <<hubVars, db, repo, run, seenRows, outcome, writes, settled>>

(* OffsetLimitReached ends the scan, not the run.                          *)
ReachOffsetLimit(r) ==
  /\ pc[r] = "fetch"
  /\ loc[r].page > OffsetPages
  /\ loc' = [loc EXCEPT ![r].stop = "offset_limit"]
  /\ Goto(r, "derive1")
  /\ UNCHANGED <<hubVars, db, repo, run, seenRows, outcome, writes, settled>>

RowsOf(r) == {loc[r].rows[i] : i \in DOMAIN loc[r].rows}

(* manifest_digest tells images apart, except those that have none.        *)
Digest(img) == IF img \in Undigested THEN None ELSE img

(* Mutant: only the digest decides whether a tag has changed.              *)
ChangedByDigest(row) == Digest(db[row.tag].img) # Digest(row.img)

(* classify_tags against what the page's transaction reads.                *)
Changed(row) == \/ Digest(row.img) = None
                \/ Digest(db[row.tag].img) # Digest(row.img)
                \/ db[row.tag].at # row.at

ReadExisting(r) ==
  LET known == {row \in RowsOf(r) : db[row.tag] # None}
      diff  == {row \in known : Changed(row)}
  IN  /\ pc[r] = "read"
      /\ loc' = [loc EXCEPT ![r].new = RowsOf(r) \ known,
                            ![r].changed = diff,
                            ![r].same = known \ diff]
      /\ Goto(r, "commit")
      /\ UNCHANGED <<hubVars, db, repo, run, seenRows, outcome, writes, settled>>

(* Mutant: a changed tag keeps its derived column.                         *)
UpsertedKeepsDerived(r) ==
  [t \in Tags |->
    IF \E row \in loc[r].new \union loc[r].changed : row.tag = t
    THEN LET row == CHOOSE row \in RowsOf(r) : row.tag = t
         IN  [img |-> row.img, at |-> row.at, asOf |-> r,
              distro |-> IF db[t] = None THEN None ELSE db[t].distro]
    ELSE IF \E row \in loc[r].same : row.tag = t
    THEN [db[t] EXCEPT !.asOf = r]
    ELSE db[t]]

(* Mutant: the page replaces what is stored of the repository.             *)
UpsertedReplaces(r) ==
  [t \in Tags |->
    IF \E row \in RowsOf(r) : row.tag = t
    THEN LET row == CHOOSE row \in RowsOf(r) : row.tag = t
         IN  [img |-> row.img, at |-> row.at, distro |-> None, asOf |-> r]
    ELSE None]

(* What upsert_tags writes: images of new and changed tags, their derived  *)
(* columns empty; only collected_at of the others.                         *)
Upserted(r) ==
  LET rewrite == loc[r].new \union loc[r].changed
  IN  [t \in Tags |->
        IF \E row \in rewrite : row.tag = t
        THEN LET row == CHOOSE row \in rewrite : row.tag = t
             IN  [img |-> row.img, at |-> row.at, distro |-> None, asOf |-> r]
        ELSE IF \E row \in loc[r].same : row.tag = t
        THEN [db[t] EXCEPT !.asOf = r]
        ELSE db[t]]

(* Mutant: the counters get a transaction of their own, which may fail.    *)
CountPageApart(r, seen, written) ==
  \/ run' = [run EXCEPT ![r].pages = @ + 1, ![r].seen = @ + seen,
                        ![r].written = @ + written]
  \/ UNCHANGED run

(* The repository's newest run, which is not always the run at work.       *)
Newest == CHOOSE q \in Runs :
            run[q] # None /\ \A s \in Runs : run[s] # None => s <= q

(* Mutant: the row is looked up by repository, not by the run's id.        *)
CountPageOfNewest(r, seen, written) ==
  run' = [run EXCEPT ![Newest].pages = @ + 1, ![Newest].seen = @ + seen,
                     ![Newest].written = @ + written]

(* _add_page_counts.                                                       *)
CountPage(r, seen, written) ==
  run' = [run EXCEPT ![r].pages = @ + 1, ![r].seen = @ + seen,
                     ![r].written = @ + written]

(* The page's transaction: the tags and the run's counters in one commit.  *)
(* The process may lose the connection and not learn that it committed.    *)
CommitPage(r) ==
  LET rewrite == loc[r].new \union loc[r].changed
      seen    == Len(loc[r].rows)
      written == Cardinality(rewrite)
      limited == MaxPages[r] # None /\ loc[r].pages + 1 >= MaxPages[r] /\ loc[r].next
  IN  /\ pc[r] = "commit"
      /\ \A row \in loc[r].new : db[row.tag] = None
      /\ db' = Upserted(r)
      /\ CountPage(r, seen, written)
      /\ writes' = writes \union {<<r, loc[r].page, row.tag>> : row \in rewrite}
      /\ \/ /\ Goto(r, IF loc[r].next /\ ~limited THEN "fetch" ELSE "derive1")
            /\ loc' = [loc EXCEPT
                 ![r] = [FreshLocals EXCEPT !.page = loc[r].page + 1,
                                            !.pages = loc[r].pages + 1,
                                            !.seen = loc[r].seen + seen,
                                            !.written = loc[r].written + written,
                                            !.stop = IF limited THEN "max_pages"
                                                     ELSE "end"]]
         \/ /\ Goto(r, "failing")
            /\ loc' = [loc EXCEPT ![r] = FreshLocals]
      /\ UNCHANGED <<hubVars, repo, seenRows, outcome, settled>>

(* Anything in the try block may raise, an insert of a tag that another    *)
(* process has inserted meanwhile among them; the open transaction rolls   *)
(* back.                                                                   *)
Fail(r) ==
  /\ pc[r] \in InTry
  /\ Goto(r, "failing")
  /\ loc' = [loc EXCEPT ![r] = FreshLocals]
  /\ seenRows' = [seenRows EXCEPT ![r] = <<>>]
  /\ UNCHANGED <<hubVars, db, repo, run, outcome, writes, settled>>

(* Mutant: stop_reason and error change places in the call of _finish_run. *)
RecordStopSwapped(r, why) ==
  \/ run' = [run EXCEPT ![r].stop = "RuntimeError", ![r].error = TRUE,
                        ![r].finished = FALSE]
  \/ UNCHANGED run

(* Mutant: finished_at is written for every end of a run.                  *)
RecordStopFinished(r, why) ==
  \/ run' = [run EXCEPT ![r].stop = why, ![r].error = TRUE,
                        ![r].finished = TRUE]
  \/ UNCHANGED run

(* The except clauses record why the run stopped, if they can.             *)
RecordStop(r, why) ==
  \/ run' = [run EXCEPT ![r].stop = why, ![r].error = TRUE,
                        ![r].finished = FALSE]
  \/ UNCHANGED run

RecordError(r) ==
  /\ pc[r] = "failing"
  /\ RecordStop(r, "error")
  /\ Goto(r, "raised")
  /\ UNCHANGED <<hubVars, db, repo, loc, seenRows, outcome, writes, settled>>

(* KeyboardInterrupt in the try block; the batch ends with it.             *)
Interrupt(r) ==
  /\ pc[r] \in InTry
  /\ RecordStop(r, "interrupted")
  /\ Goto(r, "stopped")
  /\ loc' = [loc EXCEPT ![r] = FreshLocals]
  /\ seenRows' = [seenRows EXCEPT ![r] = <<>>]
  /\ UNCHANGED <<hubVars, db, repo, outcome, writes, settled>>

(* The process is killed.                                                  *)
Crash(r) ==
  /\ Active(r)
  /\ Goto(r, "stopped")
  /\ loc' = [loc EXCEPT ![r] = FreshLocals]
  /\ seenRows' = [seenRows EXCEPT ![r] = <<>>]
  /\ UNCHANGED <<hubVars, db, repo, run, outcome, writes, settled>>

(* Mutant: the repository's newest run is finished, not the one at work.   *)
FinishNewest(r) ==
  /\ pc[r] = "finish"
  /\ run' = [run EXCEPT ![Newest].stop = loc[r].stop, ![Newest].finished = TRUE,
                        ![Newest].error = FALSE]
  /\ Goto(r, "done")
  /\ UNCHANGED <<hubVars, db, repo, loc, seenRows, outcome, writes, settled>>

(* The final _finish_run and the outcome made from the locals.             *)
Finish(r) ==
  /\ pc[r] = "finish"
  /\ run' = [run EXCEPT ![r].stop = loc[r].stop, ![r].finished = TRUE,
                        ![r].error = FALSE]
  /\ \/ /\ outcome' = [outcome EXCEPT ![r] =
             [stop |-> loc[r].stop, pages |-> loc[r].pages,
              seen |-> loc[r].seen, written |-> loc[r].written]]
        /\ Goto(r, "done")
     \/ /\ UNCHANGED outcome   \* committed, but the answer got lost
        /\ Goto(r, "raised")
  /\ UNCHANGED <<hubVars, db, repo, loc, seenRows, writes, settled>>

(* It stands outside the try block: its failure is recorded nowhere.       *)
FinishFails(r) ==
  /\ pc[r] = "finish"
  /\ Goto(r, "raised")
  /\ UNCHANGED <<hubVars, db, repo, run, loc, seenRows, outcome, writes, settled>>

(* Mutant: the repository's newest run is read, not this run's row.        *)
ReportFailureOfNewest(r) ==
  /\ pc[r] = "raised"
  /\ \E q \in Runs : run[q] # None
  /\ outcome' = [outcome EXCEPT ![r] =
       [stop |-> IF run[Newest].stop = None THEN "error" ELSE run[Newest].stop,
        pages |-> run[Newest].pages, seen |-> run[Newest].seen,
        written |-> run[Newest].written]]
  /\ Goto(r, "failed")
  /\ UNCHANGED <<hubVars, db, repo, run, loc, seenRows, writes, settled>>

(* _failed_outcome of collect_all: from the run's own row, else from the   *)
(* exception alone.                                                        *)
ReportFailure(r) ==
  /\ pc[r] = "raised"
  /\ \/ /\ run[r] # None
        /\ outcome' = [outcome EXCEPT ![r] =
             [stop |-> IF run[r].stop = None THEN "error" ELSE run[r].stop,
              pages |-> run[r].pages, seen |-> run[r].seen,
              written |-> run[r].written]]
     \/ outcome' = [outcome EXCEPT ![r] =
             [stop |-> "error", pages |-> 0, seen |-> 0, written |-> 0]]
  /\ Goto(r, "failed")
  /\ UNCHANGED <<hubVars, db, repo, run, loc, seenRows, writes, settled>>

-----------------------------------------------------------------------------
(* derive_repository, at the end of a run or as a command of its own.      *)

(* resolve_aliases for the distribution column: what the name says, else   *)
(* the one value that the names of the tags with the same platforms agree  *)
(* on.                                                                     *)
Resolve(img) ==
  [t \in DOMAIN img |->
    LET said == {NameDistro[u] : u \in {v \in DOMAIN img : img[v] = img[t]}} \ {None}
    IN  IF NameDistro[t] # None THEN NameDistro[t]
        ELSE IF Cardinality(said) = 1 THEN CHOOSE d \in said : TRUE
        ELSE None]

DeriveBegins(d) ==
  /\ d \in Derivers
  /\ pc[d] = "idle"
  /\ Goto(d, "derive1")
  /\ UNCHANGED <<hubVars, db, repo, run, loc, seenRows, outcome, writes, settled>>

(* Mutant: only the tags that this run has received are derived.           *)
DeriveReadReceived(p) ==
  /\ pc[p] = "derive1"
  /\ seenRows' = [seenRows EXCEPT
       ![p] = [t \in {u \in Stored : db[u].asOf = p} |-> [distro |-> db[t].distro]]]
  /\ Goto(p, "derive2")
  /\ UNCHANGED <<hubVars, db, repo, run, loc, outcome, writes, settled>>

(* First statement: the tags with their derived values.                    *)
DeriveReadTags(p) ==
  /\ pc[p] = "derive1"
  /\ seenRows' = [seenRows EXCEPT ![p] = [t \in Stored |-> [distro |-> db[t].distro]]]
  /\ Goto(p, "derive2")
  /\ UNCHANGED <<hubVars, db, repo, run, loc, outcome, writes, settled>>

(* Second statement: the platforms of those tags.                          *)
DeriveReadPlatforms(p) ==
  /\ pc[p] = "derive2"
  /\ seenRows' = [seenRows EXCEPT ![p] =
       [t \in DOMAIN @ |-> [distro |-> @[t].distro, img |-> db[t].img]]]
  /\ Goto(p, "derive3")
  /\ UNCHANGED <<hubVars, db, repo, run, loc, outcome, writes, settled>>

(* The update by id of the rows whose values differ from those read.  A    *)
(* run may lose the connection and not learn that it committed.            *)
DeriveWrite(p) ==
  LET rows == seenRows[p]
      new  == Resolve([t \in DOMAIN rows |-> rows[t].img])
  IN  /\ pc[p] = "derive3"
      /\ db' = [t \in Tags |->
                 IF t \in DOMAIN rows /\ new[t] # rows[t].distro
                 THEN [db[t] EXCEPT !.distro = new[t]] ELSE db[t]]
      /\ seenRows' = [seenRows EXCEPT ![p] = <<>>]
      /\ IF p \in Runs THEN \E next \in {"finish", "failing"} : Goto(p, next)
                      ELSE Goto(p, "done")
      /\ UNCHANGED <<hubVars, repo, run, loc, outcome, writes, settled>>

DeriveFails(d) ==
  /\ d \in Derivers
  /\ pc[d] \in {"derive1", "derive2", "derive3"}
  /\ Goto(d, "failed")
  /\ seenRows' = [seenRows EXCEPT ![d] = <<>>]
  /\ UNCHANGED <<hubVars, db, repo, run, loc, outcome, writes, settled>>

-----------------------------------------------------------------------------
Hub == \E t \in Tags : Delete(t) \/ \E img \in Images : Push(t, img)

Collecting(r) ==
  \/ StartRun(r) \/ SaveRepository(r) \/ FetchPage(r) \/ ReachOffsetLimit(r)
  \/ ReadExisting(r) \/ CommitPage(r) \/ Finish(r) \/ RecordError(r)
  \/ ReportFailure(r)

Breaking(r) == StartFails(r) \/ Fail(r) \/ Interrupt(r) \/ Crash(r) \/ FinishFails(r)

Deriving(p) == DeriveReadTags(p) \/ DeriveReadPlatforms(p) \/ DeriveWrite(p)

Next ==
  \/ Hub
  \/ \E r \in Runs : Collecting(r) \/ Breaking(r)
  \/ \E d \in Derivers : DeriveBegins(d) \/ DeriveFails(d)
  \/ \E p \in Procs : Deriving(p)

Spec == Init /\ [][Next]_vars

-----------------------------------------------------------------------------
HubRow == [img : Images, at : 0..MaxPushes]
TagRow == [img : Images, at : 0..MaxPushes, distro : Distros \union {None},
           asOf : Runs]

(* Every variable keeps its type.                                          *)
TypeOK ==
  /\ order \in Seq(Tags)
  /\ hub \in [Tags -> HubRow \union {None}]
  /\ pushes \in 0..MaxPushes /\ deletes \in 0..MaxDeletes
  /\ db \in [Tags -> TagRow \union {None}]
  /\ repo \in Runs \union {None}
  /\ run \in [Runs -> RunRows \union {None}]
  /\ pc \in [Procs -> InTry \union Over \union {"idle", "failing", "finish", "raised"}]

WritesOf(r) == {w \in writes : w[1] = r}

(* At every commit point the run's counters say what the run has stored:   *)
(* tags_written is the number of images it wrote, page by page, whatever   *)
(* failed, was interrupted, or overlapped (collect_repository docstring).  *)
CountersMatchStore ==
  \A r \in Runs :
    IF run[r] = None THEN WritesOf(r) = {}
    ELSE /\ run[r].written = Cardinality(WritesOf(r))
         /\ run[r].seen >= run[r].written
         /\ \A w \in WritesOf(r) : w[2] <= run[r].pages

(* finished_at is set exactly for a run that scanned to one of its three   *)
(* good ends; error, interruption, a crash or a lost last write leave it   *)
(* NULL (CollectionRun docstring: NULL means not completed).               *)
FinishedMeansCompleted ==
  \A r \in Runs : run[r] # None =>
    /\ run[r].finished <=> run[r].stop \in Finishing
    /\ run[r].finished => ~run[r].error /\ repo # None
    /\ run[r].finished /\ run[r].stop = "max_pages" => run[r].pages = MaxPages[r]
    /\ run[r].finished /\ run[r].stop = "offset_limit" => run[r].pages = OffsetPages

(* What collect_all reports of a run agrees with the run's row, and only a *)
(* run that its row calls finished is reported with a good end.            *)
OutcomeHonest ==
  \A r \in Runs : outcome[r] # None =>
    /\ pc[r] = "done" => /\ outcome[r].stop = run[r].stop
                         /\ outcome[r].pages = run[r].pages
                         /\ outcome[r].seen = run[r].seen
                         /\ outcome[r].written = run[r].written
    /\ outcome[r].stop \in Finishing => run[r] # None /\ run[r].finished

(* Together: neither the run's row, nor its counters, nor what collect_all *)
(* reports ever say more than what is stored.                              *)
RecordsAreHonest == CountersMatchStore /\ FinishedMeansCompleted /\ OutcomeHonest

(* A tag that stayed as it was at the Hub during a scan that read to the   *)
(* end is stored with the Hub's image and this run's collection time,      *)
(* although pushes shifted the pages and earlier runs may have failed.     *)
ScanCoversSettled ==
  \A r \in Runs :
    run[r] # None /\ run[r].stop = "end" /\ (\A q \in Runs : q > r => pc[q] = "idle")
      => \A t \in settled[r] :
           /\ db[t] # None
           /\ db[t].img = hub[t].img /\ db[t].at = hub[t].at
           /\ db[t].asOf = r

(* A derived value is never that of an image the tag no longer has: a      *)
(* change empties it in the same transaction, so a run that then fails     *)
(* leaves NULL and not the old image's value (store.upsert_tags).          *)
DerivedIsTrue ==
  \A t \in Stored : db[t].distro # None => db[t].distro = TrueDistro[db[t].img]

(* When a run is recorded as finished, the derived columns of the whole    *)
(* repository are what resolve_aliases gives for the stored images: also   *)
(* those that earlier failed runs had emptied.                             *)
FinishedIsDerived ==
  [][\A r \in Runs : run[r] # None /\ ~run[r].finished /\ run'[r].finished =>
       [t \in Stored |-> db[t].distro] = Resolve([t \in Stored |-> db[t].img])]_vars

(* Stored tags never disappear and never go back to an older push.         *)
NeverRegresses ==
  [][\A t \in Stored : db'[t] # None /\ db'[t].at >= db[t].at]_vars

(* What the comment on `next` says of a run that ends without one: the     *)
(* range has been received in full.                                        *)
EndMeansAllReceived ==
  \A r \in Runs : run[r] # None /\ run[r].stop = "end" =>
    \A i \in 1..Len(InitialHub) :
      hub[InitialHub[i].tag] # None => db[InitialHub[i].tag] # None
=============================================================================
