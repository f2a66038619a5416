------------------------------- MODULE Index --------------------------------
(***************************************************************************)
(* The index batch (run_index of cli.py, index_readme of                   *)
(* index/indexer.py): a command indexes one repository after the other,    *)
(* each in a transaction of its own in which the sections of the README    *)
(* replace the stored ones.  Commands may overlap, fail at any call and be *)
(* killed.                                                                 *)
(*                                                                         *)
(* A README is a sequence of lines, blank lines left out.  A document is   *)
(* known by its title; its content is the sequence of lines of a section.  *)
(***************************************************************************)
EXTENDS Chunk, FiniteSets, SequencesExt, Functions

CONSTANTS
  Procs,
  Command,   \* the repositories each command is given, in their order
  Readmes,   \* what a README may be when it is fetched
  Text,      \* the text of a content, as cut into chunks
  MayKill,   \* commands that may be killed
  Nothing    \* no title yet, no README yet

Repos == UNION {ToSet(Command[p]) : p \in Procs}

LineKinds == {"h1", "h2", "fence", "text", "template"}

ReadmeLines == [kind : LineKinds, text : STRING]

(* What a command is given (run_index): one repository, or the list of the *)
(* official ones, none of them twice.                                      *)
ASSUME IndexAssumption ==
  /\ \A p \in Procs : Command[p] \in Seq(Repos) /\ Command[p] # <<>> /\ IsInjective(Command[p])
  /\ Readmes \subseteq Seq(ReadmeLines)
  /\ MayKill \subseteq Procs
  /\ Nothing \notin Readmes /\ Nothing \notin Procs

VARIABLES
  stored,   \* committed: the documents of each repository, by title
  known,    \* committed: repositories that have a row
  holder,   \* the command that holds the lock on a repository's row
  ipc,      \* where each command stands
  loc,      \* its locals and what its transaction has written
  shown     \* history: the README each repository was last indexed from

indexVars == <<stored, known, holder, ipc, loc, shown>>

-----------------------------------------------------------------------------
(* split_sections.                                                         *)
IsHeading(line, fenced) == line.kind \in {"h1", "h2"} /\ ~fenced

Flush(s) == IF s.title = <<>> \/ s.body = <<>> THEN s.sections
            ELSE Append(s.sections, [title |-> s.title, body |-> s.body])

ReadLine(s, line) ==
  IF ~IsHeading(line, s.fenced)
  THEN [s EXCEPT !.body = Append(@, line), !.fenced = (line.kind = "fence") # @]
  ELSE [s EXCEPT !.sections = Flush(s), !.body = <<>>,
                 !.h1 = IF line.kind = "h1" THEN <<line.text>> ELSE @,
                 !.title = IF line.kind = "h1" THEN <<line.text>> ELSE Append(s.h1, line.text)]

SplitSections(readme) ==
  Flush(FoldLeft(ReadLine, [h1 |-> <<>>, title |-> <<>>, body |-> <<>>,
                            fenced |-> FALSE, sections |-> <<>>], readme))

Sections == [readme \in Readmes |-> SplitSections(readme)]

IsTemplateOnly(body) == Len(body) = 1 /\ body[1].kind = "template"

(* Text is given for all that a section of a README may say.               *)
ASSUME TextAssumption ==
  /\ \A readme \in Readmes : Sections[readme] \in Seq([title : Seq(STRING), body : DOMAIN Text])
  /\ \A content \in DOMAIN Text : IsText(Text[content])

-----------------------------------------------------------------------------
FreshLocals == [turn |-> 1, failed |-> {}, committed |-> {}, unsure |-> {},
                readme |-> Nothing, knew |-> FALSE, left |-> <<>>, seen |-> {},
                wrote |-> <<>>, gone |-> {}, cut |-> Nothing]

IndexInit ==
  /\ stored = [r \in Repos |-> <<>>]
  /\ known \in SUBSET Repos
  /\ holder = [r \in Repos |-> Nothing]
  /\ ipc = [p \in Procs |-> "fetch"]
  /\ loc = [p \in Procs |-> FreshLocals]
  /\ shown = [r \in Repos |-> Nothing]

Repo(p) == Command[p][loc[p].turn]

Goto(p, where) == ipc' = [ipc EXCEPT ![p] = where]

(* Mutant: a transaction that is not committed is not rolled back either.  *)
UnlockedByCommit(p) ==
  [r \in Repos |-> IF holder[r] = p /\ ipc[p] = "commit" THEN Nothing ELSE holder[r]]

Unlocked(p) == [r \in Repos |-> IF holder[r] = p THEN Nothing ELSE holder[r]]

(* The next repository of the command, the locals of the last one gone.    *)
NextRepo(p, result) ==
  LET last == loc[p].turn = Len(Command[p])
  IN /\ Goto(p, IF last THEN "exit" ELSE "fetch")
     /\ loc' = [loc EXCEPT ![p] =
                  [FreshLocals EXCEPT !.turn = IF last THEN @ ELSE loc[p].turn + 1,
                     !.failed = loc[p].failed
                                  \union (IF result = "committed" THEN {} ELSE {Repo(p)}),
                     !.unsure = loc[p].unsure
                                  \union (IF result = "unsure" THEN {Repo(p)} ELSE {}),
                     !.committed = loc[p].committed
                                  \union (IF result = "committed" THEN {Repo(p)} ELSE {})]]
     /\ holder' = Unlocked(p)

(* parse_repository and fetch_readme, before the session.                  *)
Fetch(p) ==
  /\ ipc[p] = "fetch"
  /\ \E readme \in Readmes : loc' = [loc EXCEPT ![p].readme = readme]
  /\ Goto(p, "open")
  /\ UNCHANGED <<stored, known, holder, shown>>

Raises == {"fetch", "open", "lock", "section", "embed", "commit"}

(* Mutant: a failure ends the command.                                     *)
FailStops(p) ==
  /\ ipc[p] \in Raises
  /\ Goto(p, "exit")
  /\ loc' = [loc EXCEPT ![p] = [FreshLocals EXCEPT !.failed = {Repo(p)}]]
  /\ holder' = Unlocked(p)
  /\ UNCHANGED <<stored, known, shown>>

(* Any call may raise; the session rolls back and the loop goes on.        *)
Fail(p) ==
  /\ ipc[p] \in Raises
  /\ NextRepo(p, "failed")
  /\ UNCHANGED <<stored, known, shown>>

(* upsert_repository reads the row ...                                     *)
Open(p) ==
  /\ ipc[p] = "open"
  /\ loc' = [loc EXCEPT ![p].knew = Repo(p) \in known,
                        ![p].left = Sections[loc[p].readme]]
  /\ Goto(p, "lock")
  /\ UNCHANGED <<stored, known, holder, shown>>

(* Mutant: the repository's row is not written in this transaction.        *)
IsFreeAlways(r) == TRUE

IsFree(r) == holder[r] = Nothing

(* ... and the first query flushes it, which waits for another transaction *)
(* that wrote it.                                                          *)
Lock(p) ==
  /\ ipc[p] = "lock"
  /\ IsFree(Repo(p))
  /\ loc[p].knew \/ Repo(p) \notin known
  /\ holder' = [holder EXCEPT ![Repo(p)] = p]
  /\ Goto(p, "section")
  /\ UNCHANGED <<stored, known, loc, shown>>

(* The row was inserted by another command in the meantime.                *)
LockViolates(p) ==
  /\ ipc[p] = "lock"
  /\ IsFree(Repo(p))
  /\ ~loc[p].knew /\ Repo(p) \in known
  /\ NextRepo(p, "failed")
  /\ UNCHANGED <<stored, known, shown>>

(* A section that is only a template leaves no document, nor does it keep  *)
(* an old one.                                                             *)
SkipSection(p) ==
  /\ ipc[p] = "section" /\ loc[p].left # <<>>
  /\ IsTemplateOnly(Head(loc[p].left).body)
  /\ loc' = [loc EXCEPT ![p].left = Tail(@)]
  /\ UNCHANGED <<stored, known, holder, ipc, shown>>

(* Mutant: the chunks of an earlier section of that title stay.            *)
ClearedNever(p, section) ==
  [content |-> section.body,
   chunks |-> IF section.title \in DOMAIN loc[p].wrote THEN loc[p].wrote[section.title].chunks
              ELSE <<>>]

Cleared(p, section) == [content |-> section.body, chunks |-> <<>>]

(* The document of that title, found or new, gets the content and loses    *)
(* its chunks.                                                             *)
WriteSection(p) ==
  /\ ipc[p] = "section" /\ loc[p].left # <<>>
  /\ LET section == Head(loc[p].left)
     IN /\ ~IsTemplateOnly(section.body)
        /\ loc' = [loc EXCEPT
             ![p].seen = @ \union {section.title},
             ![p].wrote = [t \in DOMAIN @ \union {section.title} |->
                             IF t = section.title THEN Cleared(p, section) ELSE @[t]],
             ![p].cut = StartCutting(Text[section.body])]
  /\ Goto(p, "cut")
  /\ UNCHANGED <<stored, known, holder, shown>>

CutPiece(p) ==
  /\ ipc[p] = "cut"
  /\ loc' = [loc EXCEPT ![p].cut = Cut(@)]
  /\ IF Cut(loc[p].cut).done THEN Goto(p, "embed") ELSE UNCHANGED ipc
  /\ UNCHANGED <<stored, known, holder, shown>>

(* The embedder returns one vector for each piece.                         *)
Embed(p) ==
  /\ ipc[p] = "embed"
  /\ LET title == Head(loc[p].left).title
     IN loc' = [loc EXCEPT ![p].wrote[title].chunks = @ \o PiecesOf(loc[p].cut),
                           ![p].left = Tail(@), ![p].cut = Nothing]
  /\ Goto(p, "section")
  /\ UNCHANGED <<stored, known, holder, shown>>

(* Documents of titles this run did not see are deleted with their chunks. *)
DeleteStale(p) ==
  /\ ipc[p] = "section" /\ loc[p].left = <<>>
  /\ loc' = [loc EXCEPT ![p].gone = DOMAIN stored[Repo(p)] \ loc[p].seen]
  /\ Goto(p, "commit")
  /\ UNCHANGED <<stored, known, holder, shown>>

(* What is stored once the transaction is committed.                       *)
Committed(p) ==
  LET old == stored[Repo(p)]
      wrote == loc[p].wrote
  IN [t \in (DOMAIN old \ loc[p].gone) \union DOMAIN wrote |->
        IF t \in DOMAIN wrote THEN wrote[t] ELSE old[t]]

Store(p) ==
  /\ stored' = [stored EXCEPT ![Repo(p)] = Committed(p)]
  /\ shown' = [shown EXCEPT ![Repo(p)] = loc[p].readme]
  /\ known' = known \union {Repo(p)}

Commit(p) ==
  /\ ipc[p] = "commit"
  /\ Store(p)
  /\ NextRepo(p, "committed")

(* The connection is lost during COMMIT, which has taken effect.           *)
CommitUnheard(p) ==
  /\ ipc[p] = "commit"
  /\ Store(p)
  /\ NextRepo(p, "unsure")

Kill(p) ==
  /\ p \in MayKill
  /\ ipc[p] \notin {"exit", "killed"}
  /\ Goto(p, "killed")
  /\ loc' = [loc EXCEPT ![p] = FreshLocals]
  /\ holder' = Unlocked(p)
  /\ UNCHANGED <<stored, known, shown>>

Advance(p) ==
  \/ Fetch(p) \/ Open(p) \/ Lock(p) \/ LockViolates(p)
  \/ SkipSection(p) \/ WriteSection(p) \/ CutPiece(p) \/ Embed(p)
  \/ DeleteStale(p) \/ Commit(p) \/ CommitUnheard(p)

IndexNext == \E p \in Procs : Advance(p) \/ Fail(p) \/ Kill(p)

(* Remote calls have timeouts and the local steps end, so a command goes   *)
(* on as soon as it can; only the lock makes it wait, and that without a   *)
(* timeout.                                                                *)
IndexFairness == \A p \in Procs : WF_indexVars(Advance(p))

IndexSpec == IndexInit /\ [][IndexNext]_indexVars /\ IndexFairness

-----------------------------------------------------------------------------
(* What a README says, heading by heading: the lines behind a heading      *)
(* outside of a code block, up to the next one, under the title of the     *)
(* heading.                                                                *)
FencesBefore(readme, i) == Cardinality({j \in 1..(i - 1) : readme[j].kind = "fence"})

HeadingsOf(readme) ==
  {i \in DOMAIN readme : IsHeading(readme[i], FencesBefore(readme, i) % 2 = 1)}

TitleOf(readme, i) ==
  LET above == {j \in HeadingsOf(readme) : j < i /\ readme[j].kind = "h1"}
  IN IF readme[i].kind = "h1" \/ above = {} THEN <<readme[i].text>>
     ELSE <<readme[CHOOSE j \in above : \A k \in above : k <= j].text, readme[i].text>>

BodyOf(readme, i) ==
  LET next == {j \in HeadingsOf(readme) : j > i}
      last == IF next = {} THEN Len(readme) ELSE (CHOOSE j \in next : \A k \in next : j <= k) - 1
  IN SubSeq(readme, i + 1, last)

SaysUnder(readme, title) ==
  {i \in HeadingsOf(readme) : /\ TitleOf(readme, i) = title
                              /\ BodyOf(readme, i) # <<>>
                              /\ ~IsTemplateOnly(BodyOf(readme, i))}

(* A repository is indexed from one README as a whole, the one that was    *)
(* committed last, whatever other commands did meanwhile, failed or were   *)
(* killed: no section of an older one stays, none is missing, and a title  *)
(* that occurs twice has the content of its last section                   *)
(* (index/indexer.py: what is left would go on turning up in searches).    *)
IndexIsWhole ==
  \A r \in Repos :
    LET readme == shown[r]
    IN IF readme = Nothing THEN stored[r] = <<>>
       ELSE /\ DOMAIN stored[r] =
                 {t \in {TitleOf(readme, i) : i \in HeadingsOf(readme)} : SaysUnder(readme, t) # {}}
            /\ \A t \in DOMAIN stored[r] :
                 LET said == SaysUnder(readme, t)
                     last == CHOOSE i \in said : \A j \in said : j <= i
                 IN stored[r][t].content = BodyOf(readme, last)

(* The chunks of a document are cut from the content that is stored with   *)
(* it: together they hold every letter of it, each at most MaxChars long   *)
(* and overlapping or touching the next one, so that evidence shown with a *)
(* chunk contains what was searched.                                       *)
ChunksAreOfContent ==
  \A r \in Repos : \A t \in DOMAIN stored[r] :
    LET text == Text[stored[r][t].content]
        chunks == stored[r][t].chunks
    IN /\ (0..(text.size - 1)) \ text.spaces
            = UNION {Letters(text, chunks[i]) : i \in DOMAIN chunks}
       /\ \A i \in DOMAIN chunks : /\ chunks[i][2] - chunks[i][1] <= MaxChars
                                   /\ chunks[i][2] <= text.size
                                   /\ Letters(text, chunks[i]) # {}
       /\ \A i \in 1..(Len(chunks) - 1) : chunks[i][1] < chunks[i + 1][1]

(* The exit code is 0 only if every repository of the command was          *)
(* committed; one failure neither stops the others nor is forgotten, and a *)
(* repository that failed was left as it was unless its COMMIT may have    *)
(* been lost (run_index: the earlier index stays).                         *)
ExitHonest ==
  \A p \in Procs : ipc[p] = "exit" =>
    /\ loc[p].failed \union loc[p].committed = ToSet(Command[p])
    /\ loc[p].failed \intersect loc[p].committed = {}
    /\ \A r \in loc[p].committed : r \in known /\ shown[r] # Nothing
    /\ (\A q \in Procs \ {p} : loc[q] = FreshLocals /\ ipc[q] = "fetch") =>
         \A r \in loc[p].failed \ loc[p].unsure : shown[r] = Nothing

(* Every index command comes to an end, however its texts are cut.         *)
IndexEnds == \A p \in Procs : <>(ipc[p] \in {"exit", "killed"})
=============================================================================
