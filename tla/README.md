# A verification model of whatfrom

whatfrom answers the question "which official Docker image should I start
from?".  A FastAPI server turns a question into a search over tags and READMEs
kept in Postgres, asks a language model for a choice with citations, and checks
the answer before it sends it.  Batches keep the database filled from Docker
Hub.  This directory models the parts whose correctness depends on the order in
which threads, coroutines, processes and remote services act.

## The system

| part | code (`src/src/whatfrom/`) | state | operations |
|---|---|---|---|
| admission control | `admission.py`, handler in `api.py` | seat counter and lock; a ticket per request | `try_acquire`, `start`, `finish`, `abandon`, `run_admitted` |
| metrics | `metrics.py` | counters and a gauge, process-wide | middleware, `on_start`, `record_outcome` |
| recommendation ladder | `api.recommend_for_question`, `recommend/` | one request's candidates, evidence, notes, `degraded` | embed, plan, search, advise, verify; each remote step may fail and lowers the answer |
| search | `search/` | none (reads the database) | vector search, filters, relaxation, tag selection |
| remote calls | `core/httpclient.py`, `core/embed.py`, `recommend/llm.py` | attempt number | `post_json`, `embed`, `plan`, `recommend` |
| collection batch | `collect/sync.py`, `collect/store.py` | `repositories`, `image_tags`, `image_variants`, `collection_runs`; a process's locals | `collect_repository`, `collect_all`, `upsert_tags` |
| Docker Hub client | `collect/hub.py` | page position | paging, retries, pacing |
| derived columns | `collect/derive.py`, `collect/tagparse.py` | five columns of `image_tags` | `derive_repository`, `resolve_aliases`, `parse_tag` |
| document index | `index/`, `run_index` in `cli.py` | `documents`, `document_chunks` | `split_sections`, `chunk_text`, `index_readme` |
| evaluation | `eval/`, evaluation commands of `cli.py` | result files, sheets and keys | running a golden set, scoring, metrics, citation samples and verdicts |
| experiments | `eval/experiments/` (beside the program) | snapshots and result files of a study | validate, summarize, choose |

How they interact.  The event loop and the worker threads of one server process
share the limiter, the tickets, the anyio thread tokens and the metrics.
Requests, collecting processes, `derive` commands, index commands and
evaluation runs share only the database; Postgres runs at READ COMMITTED, so
two statements of one transaction may see different data.  The collector talks
to Docker Hub between its transactions; the list it pages over changes
meanwhile.  A request makes three remote calls (embedding, plan,
recommendation) with no session open, and opens a short session before, between
and after them; an index command makes its embedding calls inside its open
transaction.  Evaluation and the studies leave files behind that a later
command, or a person, reads, edits and hands back.

What is hard in it:

* cancellation: `Task.cancel()` ends the waiting handler while its thread goes
  on; a scope's cancellation does not; both may come at any moment;
* a batch that fails, is interrupted or is killed between two commits, and
  whose last write may be lost;
* pages over a list that moves;
* values read in one statement and used after another process has committed;
* remote calls that hang, fail or are retried, and a response that must still
  be honest about what it contains;
* derivations from names whose result must not depend on an order;
* conditions that are dropped one after the other, and no earlier than needed;
* verdicts (of a sheet, a study, a metric) from partial, damaged or
  incomparable measurements.

`PROJECT.json` lists these hazards one by one at their lines, with the property
that would catch each of them, or why none does.

## The modules

### Admission control: `SeatPool`, `Admission`, `AdmissionProofs`

`SeatPool` is what `admission.py` promises in its docstring, without threads:
a set of seats, the work that runs in them, refusal only while all are taken.

`Admission` is the code.  `active` and `ticket` are `_active` and `_state`.
Every section under the limiter's lock is one operator (`TryAcquire`, `Start`,
`Finish`, `Abandon`); the asserts of the code are guards, and `AssertionsHold`
says that none of them is ever what blocks a step.  `task` is the coroutine of
the handler, `thread` the worker thread in `work()`, `future` what connects
them.  The actions of the code are `Arrive` (middleware and handler up to the
seat), `StartWork`, `OnStart`, `WorkEnds`, `FinishWork` (the parts of `work()`),
`Unwind` and `RaiseError` (the except clause of `run_admitted`) and
`ReturnValue`.  `Dispatch`, `Claim`, `Report`, `TaskCancel` and `ScopeCancel`
stand for anyio and asyncio and follow how the code uses them: a token from the
40-token limiter, an item on the worker's queue, a worker that drops items whose
future is cancelled, a shield around a started thread that `Task.cancel()`
pierces.  `ProbeArrive`, `ProbeDispatch`, `ProbeAnswer` are `GET /health`, a
plain function and so a customer of the same tokens.  What a recommendation does
is opaque: it returns or raises, or hangs for ever.

### Collection: `Collect`, `CollectProofs`

`order` and `hub` are Docker Hub's list; `Push` and `Delete` change it at any
moment.  `db` is `image_tags` joined with `image_variants`: of a row it keeps the
image, the push (standing for `last_pushed_at`), one derived column (the
distribution; `Derive` has the other columns) and the run that
last confirmed it (standing for `collected_at`).  `run` is `collection_runs`.
A run goes through `StartRun` (the row before the first request),
`SaveRepository`, `FetchPage` with `ReadExisting` and `CommitPage` for each page,
the three steps of `derive_repository` (`DeriveReadTags`, `DeriveReadPlatforms`,
`DeriveWrite`) and `Finish`.  `Fail` is an exception anywhere in the try block,
`RecordError` the except clause (its write may fail and is suppressed),
`Interrupt` the clause for KeyboardInterrupt, `Crash` a killed process,
`FinishFails` a failure of the last write, outside the try block, and
`ReportFailure` is `_failed_outcome`.  A commit whose answer is lost is the second
disjunct of `CommitPage`, `Finish` and `DeriveWrite`.  The `derive` command is a
process of its own with `DeriveBegins` and `DeriveFails`.  `writes` and `settled`
are history variables; no action of the code reads them.

In `Push` a tag whose name states a distribution only ever points to an image of
that distribution; otherwise no derivation from names could be right.

### The recommendation ladder: `AnswerService`, `Recommend`, `RecommendProofs`

`AnswerService` is what an answer promises, whatever the batches do meanwhile:
what it shows was true at some moment between question and answer, a
recommended image is shown with its digest, a quote that is called verified is
in a text shown, and no recommendation means `degraded`.

`Recommend` is `recommend_for_question`, one step per remote call and per
database statement.  `tag` is `image_tags` with its variants (the digest, and
which kinds of condition the row meets), `doc` is `documents`; `CollectPage`,
`Derive` and `IndexReadme` are the transactions of the batches, cut down to what
they commit.  `pc` and `loc` are the request and its locals, `conns` the
connections in use, `answer` the response; `window`, a history variable, is what
the database has said since the question.  The steps in order: `Embed`,
`ReadNames`, `Plan`, then the search session (`Rank` and `Load`, the two
statements of the chunk search, `RankOwn` and `LoadOwn` the same within the
plan's repository, `ReadTags`, `Filter` for each stage of the relaxation,
`ReadRows`, `ReadPlatforms`), `Advise`, and `Verify` or `Discard`.  Beside them
stand `EmbedFails`, `PlanFails`, `AdviseFails` (a `RemoteCallError`, which the
code catches), `DbFails` and `PoolTimeout` (which it does not) and `LoadRaises`
(a section deleted between the two statements of the chunk search).

Abstracted: whether a tag meets a condition, and which of the allowed tags
`select_tags` leaves out, are choices of the environment; a quote is the text of
a section at some indexing, or made up.  Statements of one kind for several
repositories are one step.

### The retry loops: `RemoteCall`, `ExperimentProofs`

`RemoteCall` is one client that makes one call after another: the embedder or a
model through `post_json`, or the collector through `HubClient._get`.  `Send` puts
a request on the wire; then exactly one of `Fails`, `OffsetLimit`,
`NullEmbedding`, `Posted` (an answer of the two request-path services) and `Got`
(an answer of the Hub with its pacing) happens.  `Retryable` holds the two tables
of statuses and transport errors, `Retry`, `GiveUp` and `Refuse` what the loops do
with a failure, `RetryWait` and `Pause` the waits, which `TooLong` cuts off for the
Hub.  `log` is what `SchemaLLMProvider` hands to `on_call`.  `sent`, `timeouts`,
`waits`, `slept` and `paid` are history variables: what the wire and the clock saw,
against which the results and the records are judged.

### Versions and derived columns: `Versions`, `Derive`, `SearchProofs`

`Versions` is `core/versions.py`: when one version continues another, and its
first two components.  `Derive` is what collection makes of names: `ReadWords`
and `OsFacts` are `parse_tag`, a fold over the words of a name whose kinds the
regular expressions tell apart; `DeriveRepository` is `resolve_aliases` over all
tags of a repository, with the groups of tags that have the same platforms, the
distribution and codename that the names of a group agree on, the most detailed
version and the variant; cleared and not yet derived columns are the states that
`upsert_tags` and a collection without a derivation leave.  The transactions of
`derive_repository` among other processes are in `Collect`.

### Tag selection and search: `TagSelect`, `Search`, `SearchProofs`

`TagSelect` has `select_tags` and `stale_pinned_lines` as operators on the set of
a repository's tags, with one operator for each helper of `search/tagselect.py`.
A name is reduced to what the code reads from it: version components, build, kind
(what the regular expressions tell apart), length and alphabetical place.  Lists
that the code sorts before use are sets here, and sorting is `InOrder`; names
are unique within a repository, so every order of the code is total.  A pass of
`_interleave` over the lines is sorted the same way: a turn is a line and a place in
it, and turns are taken by place and then by line.  `Select` is one query.

`Search` is `search_candidates_with_plan` over derived tags.  The conditions of a
plan are the filters of `search/filters.py` (`FitsVersion`, `FitsDistribution`,
architectures, size), each of which has a rule for columns that are empty;
`Begin` takes the plan's repository alone if it has evidence and tags, each
`StageFails` drops the next condition when no repository has a candidate, and the
selection is that of `TagSelect`.  `ConditionsSatisfied` is the evaluation's own judgement of the same
conditions (`eval/scoring.py`), written separately in the code and here.

The properties compare a choice with a statement of their own, or with another
query of the same repository: which tags are candidates must not depend on which
others meet the conditions (`IndependentChoice`), a chosen line is current or
named by the user and warned about (`EndedLinesAreNamed`), a pair of distribution
and codename is one that some name states (`PairsAreStated`), and a dropped
condition is one that no selectable tag of the searched repositories met
(`RelaxedOnlyIfNeeded`).

### The document index: `Chunk`, `Index`, `IndexProofs`

`Chunk` is `chunk_text`: `Cut` is one iteration of its loop, on a text that is its
length and the places of its spaces.  `Index` is the `index` command: `Fetch`,
`Open` (the transaction and the insert of a repository's row, which may meet
another command's), `Lock` (the row lock that a second command waits for, without
a timeout), then section by section `SkipSection` or `WriteSection`, `CutPiece`
and `Embed` with the transaction open, `DeleteStale` and `Commit`.
`CommitUnheard` is a commit that took effect although the answer was lost, `Fail`
an exception at any of these places (the next repository is tried, the exit code
remembers), `Kill` the end of the process.  `SplitSections` reads a README line by
line like `split_sections`: headings, code fences, bodies; `IsTemplateOnly` is the
test for sections that hold nothing but a template.  `shown`, a history variable,
is the README each repository was last indexed from.

### Evaluation: `Evaluation`, `EvaluationProofs`, `Review`, `ExperimentProofs`

`Evaluation` is the `eval` command in its six modes.  `BeginRun` takes the golden
set as the file says at that moment; `FixPlans` comes later, hashes the file as it is
then, and goes on only with plans that fit (of a full run whose result has this hash
and all cases; labels with one repository each), else `Abort`; `SearchChunks`, `Ask`,
`ImageExists` and `ScoreCase` go case by case, `Report` writes the result file,
whose hash is that of the file as it is then, and `Abort` is any failure.  What
the recommendation path answers is a choice among what the mode can return, and
silence.  `World` edits the golden set or commits tags and documents in between.
`IsAccepted`, `ScoreRetrieval`, `ScorePlan`, `ScoreFull` and the `Aggregate`
operators are the scores and the metrics, every one of `aggregate_recommendation` and
`aggregate_plan`; a score has a part for each of these three (`retrieval`,
`extraction`, `full`), where the code has one flat record.  `citations` of an answer
are those of all its claims, of each whether it was verified.
`unsatisfied_candidates` has its default in every score, because nothing in the code
fills it, so both judgement metrics (`JudgedShare`) are over no case.  `run.todo`
are the places of the cases in the file that are still to be measured, taken in order.

`Review` is `sample-citations` and `score-citations`: `Draw` and `Dump` draw a
sample from the result files of each arm and write a sheet and a key, `Fill` and
`Edit` are the reviewer (a row deleted, copied, changed, renumbered or pasted from
another sheet), and `Score` is `score_citations` with `ArmScore.judge`.  A reviewer may
write anything into the two cells, the verdict and the check of the candidate: `Cells`
has words of both vocabularies, a word of neither, and the empty cell.  An entry whose
arm the key does not list is a problem too (`Listed`), but cannot be reached, because
the key is taken as `sample-citations` wrote it; the counters of the words for
the candidate, which decide nothing, are left out.

`WithheldIsMissOrLeftOut` says what taking an answer away does to the metrics.  Those
over the cases (accuracy, candidate rate, conditions, sources, rejected candidates,
Hit@5 and the two of the plan) keep their denominator and gain nothing.  Those over
what answers contain (real tags, verified citations, judged candidates) leave the case
out: they are exactly what they were before it.  Their ratio may therefore rise when a
bad answer is withheld, as the docstring at `report.py:185` says of the judgements;
the property does not claim otherwise.

### The comparisons of models: `Trial`, `ExperimentProofs`

`Trial` is the two studies under `eval/experiments` that choose an LLM setting
(`plan_llm.py` and `experiment.py`; `recommend_llm.py` and
`recommend_experiment.py`).  An operator takes a snapshot of the database,
measures settings round by round (`validate` refuses a round out of order),
summarizes, and repeats what the summary asks for, while the database may change.
`Choose` is the choice: the floor, the second rounds near it, distrust of times
from rounds with retries, the price of calls that report no tokens, confirmations,
and the order of speed, cost and accuracy.

### Running side by side: `MCSearch`, `MCSideBySide`

Parts that share no state are checked in one run: the initial states of the run
choose one part, the others are off.  `MCSearch` does so for `TagSelect` and
`Search`, `MCSideBySide` for `Index`, `Review`, `Trial`, `RemoteCall` and
`Evaluation`.  No behaviour mixes two parts, so each property is checked on exactly
the behaviours of its part.

The modules hold, before an operator, small altered forms of it marked
"Mutant".  They are not part of the model: each is a plausible mistake, and
replacing the operator by it makes the property it belongs to fail.

## What the runs show

| run | instance | shows |
|---|---|---|
| `AdmissionSafety` | 3 requests, 2 seats, 2 tokens, 1 health client; requests symmetric | `SeatAccounting`, `NoWorkOutsideASeat`: seats are counted, never exceed the limit, come back once; `AssertionsHold`: no assert fails; `ReturnedWorkWasDone`: a normal return carries real work; `MetricsReconcile`; `ImplementsSeatPool`: the abstract pool is implemented |
| `AdmissionLiveness` | 2 requests, 1 seat, 2 tokens | `SeatsReturn`: every seat returns unless its work hangs; `HealthServed`: `/health` is served even if all work hangs |
| `CollectOneAtATime` | 3 tags on 2 pages, 2 images, 2 runs in turn (the first limited to one page), 2 pushes, 1 deletion; 1.9 million states | `RecordsAreHonest`: the row of a run, its counters and what `collect_all` reports say what is stored and no more; `ScanCoversSettled`: a tag that kept still during a scan is stored as the Hub has it; `DerivedIsTrue`: a derived value is never that of a replaced image; `FinishedIsDerived`: a finished run left everything derived; `NeverRegresses`: nothing stored is lost or goes back |
| `CollectOverlapping` | 2 tags on 2 pages of which the Hub serves one, 2 runs at once, a `derive` command, 1 push; 0.6 million states | `RecordsAreHonest` under concurrent runs, and with the offset limit as an end |
| `RecommendSafety` | 1 request whose every step may fail; 2 repositories, each with a tag and a section; 1 transaction on the tags, 1 index run; 1.2 million states | `RecommendationIsCandidate`: a recommendation and its alternatives are candidates of the same answer and stored; `CitationsAreCarried`: a verified quote stands in a text the answer carries; `UndegradedKeepsPlan`: an answer not called degraded kept to the plan; `ImplementsAnswerService` |
| `RecommendPool` | 2 requests, 1 connection, 1 tag, 1 section | `WaitersAreServed`: a request that waits for a connection is served even if the other one hangs in a remote call |
| `TagSelection` | tag selection: 4 sets of 4 names, an image that no or 2 names share, push times unknown, equal, at the gap and beyond it, every set of allowed tags, 3 wanted versions; derivation: 3 catalogues of 2 to 7 names in every sharing of images; search: 12 forms of 2 repositories, plans with every kind of condition | `IndependentChoice`, `FairToLines`, `EndedLinesAreNamed` of the selection; `PairsAreStated`, `AliasesAgree` of the derivation; `CandidatesFit`, `RelaxedOnlyIfNeeded` of the search |
| `SideBySide` | 2 index commands over 3 READMEs and 2 repositories, one of them killed anywhere; reviews of 2 archives with 8 ways to fill in a row; studies of 3 settings; each of three clients with 2 calls; 2 evaluation runs | index: `IndexIsWhole`, `ChunksAreOfContent`, `ExitHonest`, `IndexEnds`; review: `FairSample`, `VerdictNeedsReview`; studies: `AdviceCanBeFollowed`, `ChoiceIsUndominated`, `OneDatabase`; calls: `NoIdleBeforeFailure`, `RecordsMatchWire`; evaluation: `AccuracyIsBounded`, `WithheldIsMissOrLeftOut`, `FixedRunsRepeat`; 0.5 million states |
| `RecommendRaises` (violation) | 1 request, 1 index run, nothing fails | see Findings |
| `RemoteContract` (violation) | one embedding call | see Findings |
| `CollectDeriveRace` (violation) | a `derive` command beside a run | see Findings |
| `CollectShiftedPages` (violation) | a push during a scan | see Findings |

Why the bounds are enough.  Three requests for two seats is the smallest
instance with a refusal, a pair of seats that end differently and a third party
that could profit from a leaked seat; the proofs cover all other sizes.  Tokens
equal to seats make the health client and the recommendations compete; liveness
needs one token more than seats, as in the deployment (32 of 40).  Two pages are
the smallest scan that a push can shift; two images are what a derived value can
be wrong about; two runs are enough for one run to repair or to be mistaken for
the other; two pushes (`MaxPushes`) allow a change both before and during a scan,
one deletion (`MaxDeletes`) moves a tag past the next page.
Requests only share the pool, so one request is enough for what an answer says
(`RecommendSafety`) and two for who waits for whom (`RecommendPool`).  One page
and one index run (`MaxCommits`, `MaxReindexes`) may commit between any two
statements of it, and every property there relates two moments.  Two repositories
are what evidence can be mistaken between.  `RecommendSafety` has one kind of
condition, the version, which is dropped when no repository is forced; the order
among several kinds is checked in `Search`.

`TagSelection` measures pushes in units of the support gap, so that 0, 1 and 2 stand
for "at the same time", "60 days" and "more".  Its name sets give two lines with two
aliases each, lines at both depths, builds, and repositories in which the only
stable tags are tainted by a prerelease or a Windows image.  The limit is two, the
least that two lines share and three aliases overrun.  The catalogues of the
derivation have a name for every kind of word, in every partition of the images;
those of the search leave a tag derived, cleared or not derived yet, and their
images are small, large or Windows-only, so that each condition can be the one that
excludes the last candidate.

`SideBySide`.  The READMEs have a title that occurs twice, a heading inside a code
block, a section that is only a template, and titles that another README drops; the
chunk limit is 3 characters with an overlap of 2 (`MaxChars`, `Overlap`), so a text
of 8 has a cut at a space, one in a word, and a step that the overlap would turn
back.  The archives of `Review` give an arm two files and more statements of a case
than may be drawn; `MaxEdits` is two, enough for a row to be copied and then changed,
and `MaxRows` is the largest sheet on which every combination of `MCCells` is tried:
each word of the two vocabularies, one of neither in each cell, and each cell left
empty.  `Trial` has the
baseline, a cheap setting and one that does not report its reasoning tokens, four
rounds (`MaxRounds`, one more than can be asked for) and one change of the database
(`MaxChanges`).  The calls have the real numbers of attempts; the longest wait is
10 s instead of 300 s, still longer than every backoff (at most 9 s), and the Hub
asks for a moment in the past, a short wait, the longest and one second more; the
second call is there for what the first leaves behind.  `Evaluation` has two result
files (`ModesOfRun`), the second of which takes the plans of the first, two moves of
the world (`MaxMoves`: an edit of the golden set and one commit, or two edits that
cancel out), at most two candidates, answers without a citation, with a failed one or
with one of either kind (`MCCitings`; withholding a failed one raises the pass rate), and `Parts`, the unit in which the random
baseline is counted, so that half a case is a whole number.

`CHECK_DEADLOCK FALSE` outside the admission runs: the batches, the requests, the
bounded calls, the query, the review and the studies end, and the bounded Hub falls
silent.  The admission runs check deadlock, the health client never stops calling.

Fairness (`Admission!FairSpec`).  Weak fairness for what the event loop runs
(`Loop`) and for the worker threads (`Worker`), both of which keep running while
they have something to do.  Strong fairness for handing out thread tokens
(`Dispatch`, `ProbeDispatch`): a token may be taken by another waiter each time
it gets free, but anyio serves its waiters first come first served, so nobody is
passed over for ever.  None for `WorkEnds`, `Arrive` and the cancellations:
remote services may hang, clients need not come.

Fairness (`Recommend!FairSpec`).  Weak fairness for the statements of a request:
each ends or is ended by `statement_timeout`.  Strong fairness for taking a
connection: it comes free again and again, and the pool wakes its waiters in
order.  None for the remote calls, and none for the timeout of the pool, which
must not be what saves a waiting request.

Fairness (`Index!IndexFairness`).  Weak fairness for each command's next step: its
remote calls have timeouts and its other steps are local.  Only the row lock makes
a command wait, and the lock falls with the end of the other transaction, or of
its process.  None for failures and kills.  `IndexEnds` therefore says that no text
makes the cutting loop run on and no pair of commands waits for each other.

## Findings

* `CollectDeriveRace` violates `DerivedIsTrue`.  `upsert_tags` empties the
  derived columns of a changed tag because the old values may be wrong
  (`store.py:128-129`), and tags without derived values are judged by name.
  `derive_repository` reads tags, then platforms, then updates rows by id.  If a
  page commit of a run comes between its reads and its update, the value of the
  old image lands on the row of the new one.  The run's own derivation at the
  end repairs it, unless the run fails first.
* `CollectShiftedPages` violates `EndMeansAllReceived`.  The comment at
  `sync.py:109` says that a scan that meets no `next` received the whole range.
  The pages are numbered over a list ordered by last update, so a push during
  the scan moves an unread tag into a page that was read; the run ends with
  `end` without it.  What does hold is `ScanCoversSettled`: every tag that was
  not pushed during the scan (and if none was deleted) is stored.
* `RecommendRaises` violates `AlwaysAnswers200`.  The docstring of
  `recommend_for_question` (`api.py:70`) promises a 200 whatever the stage at
  which the ladder stops.  The chunk search reads chunks and then their documents
  (`retrieval.py:60-62`); if an index run drops a section in between,
  `chunk.document` is `None`, and `retrieval.py:205` raises an error that nothing
  catches.
* `RemoteContract` violates `BreachesAreRemoteCallErrors`.  `httpclient.py:30` calls
  `RemoteCallError` the sign of a failed call or a broken contract, on which the
  caller goes down the ladder.  `embed` computes `len(vector)` outside its `try`
  (`embed.py:108-109`), so that an embedding that is `null` raises a `TypeError`,
  which `api.py:107` does not catch.

## What is proved

Each proof module holds for every value of the constants that the named
assumptions allow; the runs check the same formulas on small instances.

`AdmissionProofs` proves, for every finite set of requests and health clients
and every positive limit and token number, all properties of the run
`AdmissionSafety`, among them that `Admission` implements `SeatPool`, and beside
them that only `Task.cancel()` leaves a thread behind (`ScopesWait`) and that a
ticket moves only forward (`LifecycleKept`).  The assumption is
`AdmissionAssumption`: finite sets, disjoint, positive numbers.  The constructor of
the limiter rejects a limit below one; a process serves finitely many requests at
any time.  The properties are not inductive: that a ticket is `running` whenever
its thread works says nothing about a thread that has been queued for a cancelled
handler.  The inductive invariant `IInv` has three parts.  `Typed` bounds the
variables.  `Linked` says, request by request, which combinations of ticket, task,
future, thread and result occur: it is where the argument lives that `finish` meets
a running ticket and that `abandon` is called once.  `Counted` says that each
counter is the cardinality of the set it counts.  From `IInv` follow the state
properties, then the step simulation of the refinement, action by action.

`CollectProofs` proves `RecordsAreHonest` for any number of overlapping runs and
`derive` commands, any Hub, page size and limits (`CollectAssumption`,
`NoneAssumption`).  The property is about the row of a run and the outcome alone; the
invariant adds what makes them right.  `Recorded`: a run has a row from its start on,
and it stays open until the run ends.  `Scanned`: the locals of a scanning run are
its row's counters, and keep to the limits.  `Paged`: the rows of a page are
different tags, so that the writes of a page are as many as the rows that are new or
changed (`OneWriteEach`), which is why `tags_written` counts the images written.
`Counted`, `Completed` and `Told` are the three parts of the property, run by run.
`StoodStill` says that a run is unharmed by a step that leaves it alone, so each
action is looked at for its own run only.

Its second part is about runs of one repository that take turns (`MaxConcurrent = 1`),
any number of them, with any page size and any movement of the Hub: it proves
`ScanCoversSettled` and `NeverRegresses`, with `derive` commands beside the runs, and
`DerivedIsTrue` and `FinishedIsDerived` without them (`Derivers = {}`).  Both
hypotheses are needed: `CollectDeriveRace` is the run where a `derive` command writes a
stale value, and of two overlapping runs the later commit may carry the older page.
`HubAssumption` is about the Hub at the start: it lists a tag once, and a distribution
in a tag's name is the one of its image; `Push` keeps both.  The invariant is `InTurns`.
`Listed`: the Hub names the tags that it has, each once.  `Kept`: what is stored of a
tag is no newer than what the Hub has.  `Received`: a page is no older than what is
stored of its tags and, of a tag still at the Hub, no newer; with equal times it is the
same image.  `Classified`: the three lists of a page still say what is stored, which
the turns are needed for.  `Reached` is the argument of `ScanCoversSettled`: a tag that
kept its place is stored as the Hub has it, or is on the page received, or stands in
the Hub's list behind the pages read; a push moves it back, never forward, and a
deletion ends the claim (`settled`).  `Noted`: the rows `derive` read still name stored
tags.  For the derived columns `Alike` adds `AllTrue`, that each stored name and derived
value is true of its image, and `Derivable`: between its statements a run's rows are
those of the table, so that what it writes is `Resolve` of the table.

`RecommendProofs` proves the four properties of `RecommendSafety` for any number of
requests, images, sections, repositories and commits, with any of the steps failing
(`RecommendAssumption`, `NoneAssumption`).  The invariant has two parts for every
place a request may stand at.  `Keeping` says what its locals keep of the plan: from
the repository forced to the rows selected.  `Knowing` says that all it holds (texts,
digests, rows) is among what the database has said since the question, the history
variable `window`.  From the two follow the three invariants of an answer, and that
the step which answers is one of `AnswerService`; all others are stutters of it.
A second invariant, `Pooled`, is about the connections: they are those of the requests
inside a session, as many as the pool allows (`SessionsAreShort`, `TypeOK`), because
each step that takes one finds one free, and each that leaves a session gives it back
(`Holds`).  With it each step goes down the `Ladder` of places or, at its one loop,
drops a condition (`RequestsGoDown`): only conditions of the list occur, so
`RelaxedIsLess`.

`ListProofs` holds what several of these proofs need of numbers, sequences and folds:
`HasAllNumbers` is induction over the numbers, said of a set so that the provers can use
it, `FoldTableExists` the table that a fold looks up, `OneMore` what an append changes.

`IndexProofs` begins with `chunk_text`, for every text, positive limit and overlap: an
iteration keeps the pieces non-empty, within the limit and without a gap
(`CuttingGoesWell`), ends or moves the start forward inside the text
(`CuttingMovesOn`), pieces that are done cover the text (`PiecesCoverText`), and the
chunks that are left when pieces of spaces are dropped hold every letter, in order
(`ChunksCutUpText`).  The last is about a fold: `KeptOf` is what the fold has kept
after the first `k` pieces.

From there it proves `IndexIsWhole`, `ChunksAreOfContent` and `ExitHonest` for any
number of commands and READMEs (`IndexAssumption`, `TextAssumption`, `ChunkAssumption`).
Next is `split_sections` for every README (`SplitSectionsTells`).  `HasRead`
says what the function holds after `k` lines: it is in a code block if the fences so far
are odd in number, it keeps the last h1, the title and the lines of the last heading,
and the sections of all headings before that; a section is complete when the next
heading, or the end, is read (`FlushSays`).  The last part is the batch.  `AccountInv`
says that each command has accounted for the repositories before its turn, and what a
command that ran alone has left.  `DocumentInv` has `StoredIsTold`: the documents of a
repository are what its last indexed README tells, the last section of each title, cut
to its end; and `Writing`: what a transaction has written so far is what the sections
read so far tell, beside documents it will delete.  The lock is why a second command
cannot write into the first one's transaction (`OneWriter`).  With both
`IndexIsWhole` says the same in terms of lines (`SectionsTellWhole`).

Two more theorems are the half of `IndexEnds` that needs no fairness.  `OneMovesOn`
orders what a command has ahead of it: repositories, the places of a turn (`Rank`), the
sections left, the stage of a section, the text behind the start of the cut; each step
makes this less, and `CuttingMovesOn` is why the last part does.  `LocksAreHeld`: a
locked row belongs to a command in the middle of its transaction, which waits for no
row, so a wait is never for another wait.

`ExperimentProofs` proves `VerdictNeedsReview` and `FairSample` of `Review` for all
result files, sample sizes, edits and contents of the cells (`ReviewAssumption`: finitely many statements in a file, at least
one file, as the command requires, and an empty cell is no verdict).  The invariant is
small: what was scored is what the sheet says.  The argument is in the lemmas about a
scored sheet: it has no problem exactly if it is `Whole`, every statement on one row and
every row reviewed with a word of the vocabulary in both cells; on such a sheet rows and statements correspond one to one, so the
counts of rows that `judge` compares are counts of statements (`CountsAreOfStatements`).
For the samples the invariant is `Drawing`: an arm has no more than it may have, nor any
case of it (`Within`), and it is full, or has of each case what the files drawn from so
far (`Held`) and `PerCase` allow (`Filled`).  `ChoiceSays` is what one choice adds to
that; `RoomFillsUp` says that what earlier files left of a case's limit is used as if
all had been drawn from at once.

Of `Trial` it proves `OneDatabase` for any settings, measurements and numbers of rounds
and changes (`TrialAssumption`).  `AllDated` orders what happened: a round comes after
the first snapshot of its scope and, measured inside, before the second.  `Concluded`:
a conclusion stands on snapshots that agree, and nothing happens after it.  Between two
snapshots of the same state lies no change.

It also proves what the choice promises, `AdviceCanBeFollowed` and
`ChoiceIsUndominated`, for any settings and prices and any measurements of the shape
`IsMeasured`: times and tokens are natural numbers, a round has at least one time (of
none `nearest_rank` raises), any call may leave out its tokens.  The argument has three
layers.  A measured setting has a p95, an accuracy and, if every call told its tokens,
a cost (`RankIsNat`, `SumIsNat`, `CostIsTold`); finitely many means, compared by
cross-multiplication, have a least and a greatest (`RatiosHaveEnds`), so the group of
the fastest, the cheapest of it and the most accurate of these are never empty and a
single winner beats all in the pool that are as fast (`WinnerIsBest`).  The loop of
`_choose` ends because the pool shrinks: `ChoiceUnfolds` builds the table of its
results by the size of the pool, and `ChoiceIsSound` carries over it that who left the
pool is excused.  Over the steps of a study, `StandsByResults` says that what the last
summary asked for is still possible and that a chosen setting ends the study; only
`study` and `results` decide both (`SameResults`).

Of `RemoteCall` it proves `NoIdleBeforeFailure` and `RecordsMatchWire`, and that a read
timeout ends a call of the request path, for every number of attempts and calls and
every wait that the Hub may ask for, from `RemoteCallAssumption`.  The invariant adds
`Running`: the attempts counted are the requests sent, each sleep of a running call is
followed by a request, and a running call has read no answer and, on the request
path, met no read timeout.  All actions that end a call go through the one lemma
`EndStep`.

`SearchProofs` is about the queries, for all catalogues, plans, limits and sets of
allowed tags.  `TagSelectAssumption` and `SearchAssumption` ask that a repository is a
finite set of tags with different names (`IsRepository`), that sizes are numbers, and
that a plan has conditions of the right shape (`AreConditions`); `AreWords` is the
reliance of `derive.py:93-96` on the parser that is described below.  `NoneIsOther`
is about the value that stands for Python's `None`.

Two lemmas carry the operators that come from the library or are defined by choice.
`ReadsWordByWord` says what `FoldLeftDomain` has read after each word.  `PlacedIsListed`
says that `InOrder` lists every element once, in its order, for every finite set with a
transitive, total and irreflexive order: each place is taken because the number of
elements before a given one is different for each and less than all of them
(`PlacesAreTaken`).  Each order of the code is shown to be such an order.

Of the derivation it proves `PairsAreStated` and `AliasesAgree`; the invariant
`Shelved` says that the columns of a tag are what `DeriveRepository` gives, or empty.
Of the selection it proves `EndedLinesAreNamed`, `FairToLines` and
`IndependentChoice`; the invariant `Chosen` says that a finished query has what
`SelectTags` returns, and the argument is in the lemmas about it.  `Pool` is the set of
tags among which the allowed ones are chosen, and is the same whatever is allowed
(`SelectsFromPool`).  `PoolIsSupported`: its lines are within the gap of each other, by
the pushes of the tags a line is named by (`SupportedAreCurrent`), or the version
names them.  `LinesTakeTurns`: wherever the limit stops the turns, a line with a tag left
is at most one behind another line, and not behind an older one.  For `IndependentChoice` a tag is compared with the
same tag whose digest is unknown: `SamePool` says that lines, pushes and support read
nothing of a digest (`LookTheSame`), `GoodIsStable` that a tag whose own name is neither
a prerelease nor Windows is never excluded for the names of other images.

Of the search it proves `RelaxedOnlyIfNeeded` and `CandidatesFit`, the second under a
condition on the names.  The invariant is `Laddered`: a search is at some stage of the
conditions it began with (`Tried`); the weaker stages were tried in order and found
nothing, and each condition skipped was not there.  `WeakestIsNext` is one step down.
`EligibleIsFound` connects two separate ways of saying what fits: a tag that meets the
conditions as the property states them, and could be selected alone, passes the filters
and makes its repository a candidate.  It rests on `MeansTheSame`: for architectures,
excluded distributions, version and size the filters of the search and
`conditions_satisfied` of the evaluation are equivalent, which in the code are written
twice.  From the same lemma follows `CandidatesMeet`, the first part of
`CandidatesFit`.  The second part, that a candidate is of a wanted distribution as
derivation would say even where its columns are empty, is not true of all names: a tag
without columns is judged by what its name contains, and a name may hold two
distributions, of which derivation takes the last.  What holds of all is
`CandidatesAreOfWanted`: true columns, or a name that contains a wanted one.  From it
follows `ClearCandidatesFit`, `NamesAreClear => CandidatesFit`: the name of a candidate
that contains a wanted distribution is clear about it if a word states it, no later word names another
system, and the repository is not itself another distribution.  `StatedIsRead` follows
the facts word by word from the one that states the value to the end of the name;
`LaterWordsKeep` is one such word, and turns on the two that look back, a release
behind the bare word `alpine` and a build of Windows.  `ClearIsParsed` adds what the
repository says, and the name's own statement goes before those of its aliases.
All names of `TagSelection` are clear about the distributions its plans ask for, so the
run checks the whole property without the condition; candidates with empty columns are
among its searches.

`EvaluationProofs` proves `AccuracyIsBounded`, `WithheldIsMissOrLeftOut` and
`FixedRunsRepeat` for every golden set that the loader accepts, every answer that the
recommendation path may give in a mode, any number of cases and result files, and any
edits and commits meanwhile (`EvaluationAssumption`: no image of a case is both
accepted and rejected, documents are of repositories of the table, as their foreign key
says).  The three properties are about scores and result files; the inductive invariant
`EvalInv` is about where these come from.  `Standing`: what a run still has to measure
are cases of its golden set.  `Answering`: the recommended image is one of the
candidates, the candidates are rows of the table, and the plan is one that
the mode and the case allow.  `Scoring`: each score so far bounds itself (`IsSound`):
right means that a candidate was accepted, and no more candidates are accepted than
there are.  From the scores of one case to those of all goes `MoreHits` for the counts
and, for the random baseline, a sum over the cases (`SumsCaseByCase`, with the table of
the fold) whose every part is at most a whole and nothing without a hit
(`RandomShareBounds`, a fact about `div`).  `NoCaseMetricRises` compares two such lists
of scores that differ in the last, where one counts for less (`CountsForLess`);
`LeftOut` compares the list with the one before it, for a score that says nothing of
an answer (`SaysNothing`).  For the result files, `Planning`
says where the plans of a run come from, `Keeping` that its scores kept them, and
`Filing` that the plans of a full run are normal: normalizing them again, as
`FixedPlanProvider` does, changes nothing (`IsNormal`, `AskedIsNormal`, `LabelIsNormal`).
Without `Filing` the property is not inductive: a plan that was normalized on its way
into the second run would differ from the one in the file.

Only model-checked: the liveness properties (`SeatsReturn`, `HealthServed`,
`WaitersAreServed`, `IndexEnds`: fairness and `ENABLED` are outside the prover).  What
they rest on is proved where it is safety: for `IndexEnds` that each step moves on and
that who holds a lock does not wait, for `WaitersAreServed` that who holds a connection
is between two statements and that each step goes down the ladder.  Also only checked:
`CandidatesFit` without its condition on the names, for the reason given above.

## What the models leave out, and what they assume

Left out: prompts, schemas and wording; the ranking inside Postgres and pgvector;
parsing of payloads and of arguments; printing and the rendering of reports;
durations and the constant baseline of the evaluation; the embedding comparison,
`readme_swap`, precheck, load scripts and dashboards, which are one-off measurements
around the program; the stand-in LLM server; container files; configuration and contracts, which have no behaviour of their own.

Assumed in the models:

* The comment at `derive.py:93-96` relies on the parser to give a codename only
  together with a distribution.  A word like `ltsc2022` gives one alone; in official
  names it stands behind a Windows word, and so it does in the catalogues of
  `TagSelection`; `AreWords` asks for it, and `PairsAreStated` would be false without.
* `Search!NameContains` looks for a value in the words of a name; the code looks for it
  anywhere in the tag (`filters.py:46-49`, `:59`), in the version too.  The two differ
  only for a value inside a longer word or inside the version, and only `alpine3.24` and
  the like have a distribution there.
* In `Trial`, the database never returns to an earlier state, so equal snapshots mean
  that nothing changed.  A snapshot of the first study is taken before and after all
  rounds and cannot be taken again, so rounds asked for by a summary are measured
  behind the second snapshot, where `OneDatabase` claims nothing; the second study
  has a snapshot around every round.  Inflated times of a setting outside the group
  that competes are never measured again; no property says they are.
* In `Evaluation`, the file is parsed and the indexed repositories are asked for in one
  step (neither depends on the other).  No image is both accepted and rejected by a
  case: a test of the golden set says so, the loader does not refuse it, and with such
  an image the accuracy could exceed the rate of accepted candidates.  The hash in a result file is taken at the end of the run
  (`cli.py:543`), so an edit of the golden set during a run makes it the hash of
  something that was not measured; a run on fixed plans hashes the file after it has
  read it (`cli.py:285`, `:440`), so an edit in between lets it take plans of a golden
  set that it does not measure.  `FixedRunsRepeat` excludes both in its precondition.  The
  constant baseline of the report counts by name only (`report.py:43-57`), so a
  constant answer that is accepted for its digest could exceed it; it is not modelled.
* Of two overlapping collecting runs the later commit may carry the older page, and
  take a tag back to an earlier push (`store.py:119`).  Nothing in the repository says
  otherwise and the next run repairs it; `NeverRegresses` is checked for runs that take
  turns.
