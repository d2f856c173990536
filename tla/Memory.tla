------------------------------- MODULE Memory -------------------------------
(****************************************************************************)
(* Memory as a git repository (src/src/server/memory-repository.ts), and    *)
(* the curator's night in it (src/src/server/memory-curator.ts), with the   *)
(* paths a stage moved put right after it (src/src/server/memory-paths.ts). *)
(*                                                                          *)
(* What natsumi writes in a turn is checked file by file, put back where a  *)
(* check fails, and the rest committed.  A stage of the curator is kept     *)
(* whole or thrown away whole.  A command she left in the background may    *)
(* write at any time, the owner may commit at any time, and the process may *)
(* stop between any two steps.                                              *)
(****************************************************************************)
EXTENDS Parts, Naturals, FiniteSets, SequencesExt

CONSTANTS
  PathOrder,    \* the paths memory may hold, in path order
  Kind,         \* what each of them is
  Words,        \* what texts are made of: the paths they link to, "bad" for what a check refuses, and others
  NoFile,       \* what a path holds without a file
  FirstTree,    \* what memory holds at first
  Template,     \* what the server writes where a fixed file is missing
  HerEdits, CuratorEdits, OthersEdits,   \* what natsumi, the curator, and commands and the owner may write: [path, text]
  Moves,        \* the rows the curator may give: from and to
  RewriteAll,   \* the topics together are within rewriteAllMaxChars
  RotateFiles,  \* rotateFiles
  MaxTurns, MaxWrites,   \* bounds: turns, and writes in them and in stages
  MaxUpsets     \* bound: failures, stops, commands in the background and commits of the owner, together

VARIABLES
  tree, committed,   \* the working tree and the last commit: path -> text
  doing,        \* where the work on memory stands
  writer,       \* whose turn it is: "day" or "night"
  todo,         \* what the commit of a turn has still to check, in the order of status()
  stage,        \* the stage of the curator's night, from 1
  cutOff,       \* running_since in memory_curator
  rewritten,    \* every stage that rewrites topics went well so far
  late,         \* the morning deadline has passed
  before,       \* the commit the stage began on
  merged,       \* what map_old_path was told
  moves,        \* where what the stage took away went
  brief, handled,   \* the files the stage, and the night, were given to rewrite
  based,        \* there is a base_commit
  base,         \* what it holds; before there is one, the last commit made more than a day ago
  curatedAt,    \* memory_curation: the night a file was last in the curator's hands, 0 for none
  count,        \* how often each bounded thing happened
  by,           \* history: who committed what a path holds
  touched, owners,  \* history: what a background command, and the owner, wrote
  given, heard, \* history: the texts the curator was last given on a good night, and tonight
  unmended      \* history: the paths whose links were not put right after the stage

turnVars == <<writer, todo>>
stageVars == <<stage, rewritten, cutOff>>
briefVars == <<late, before, merged, moves, brief, handled>>
recordVars == <<based, base, curatedAt>>
commitVars == <<committed, by, given, heard>>
memoryVars == <<tree, doing, turnVars, stageVars, briefVars, recordVars, commitVars, count, touched, owners, unmended>>

Paths == ToSet(PathOrder)
Counted(what) == count' = [count EXCEPT ![what] = @ + 1]

Fixed == {"always", "personality", "handoff", "index"}
HerFiles == {"always", "personality", "handoff"}
NightOnly == {"always", "personality"}
Archived == {"append", "group", "into", "archive"}
CuratorKeepsOff == {"skill", "script", "letter", "goal"}

Rewritable(p) == Kind[p] \in {"topic", "readme"}
Held(t) == {p \in Paths : t[p] # NoFile}
Differ(s, t) == {p \in Paths : s[p] # t[p]}
Place(p) == CHOOSE i \in DOMAIN PathOrder : PathOrder[i] = p

\* What a file may hold, and what every check lets pass.
Text == {NoFile} \cup Seq(Words)
Passes(text) == text # <<>> /\ "bad" \notin ToSet(text)

\* What memory holds at first has the fixed files, and came through the checks.
ASSUME MemoryAssumption ==
  /\ RewriteAll \in BOOLEAN /\ {RotateFiles, MaxTurns, MaxWrites, MaxUpsets} \subseteq Nat
  /\ Paths \subseteq Words /\ NoFile \notin Paths \cup Seq(Words)
  /\ FirstTree \in [Paths -> Text] /\ \A p \in Held(FirstTree) : Passes(FirstTree[p])
  /\ {p \in Paths : Kind[p] \in Fixed} \subseteq Held(FirstTree)
  /\ Template \in Seq(Words) /\ Passes(Template)
  /\ HerEdits \cup CuratorEdits \cup OthersEdits \subseteq [path : Paths, text : Text]
  /\ Moves \subseteq [from : Paths, to : Paths]

-----------------------------------------------------------------------------
(* The checks.                                                              *)

\* inspectContent(): a script has its place only beside its skill's page.
ContentFails(p, t) ==
  /\ t[p] # NoFile
  /\ \/ ~Passes(t[p])
     \/ Kind[p] = "script" /\ \A q \in Held(t) : Kind[q] # "skill"

\* inspectRemoval() and inspect(), of a change read as a removal or not.
Refuses(p, removed, who, t) ==
  \/ who = "curator" /\ Kind[p] \in CuratorKeepsOff \cup {"diary"}
  \/ who # "curator" /\ Kind[p] \in Archived
  \/ removed /\ Kind[p] \in Fixed
  \/ ~removed /\ \/ who # "curator" /\ Kind[p] = "index"
                 \/ who = "day" /\ Kind[p] \in NightOnly
                 \/ who = "curator" /\ Kind[p] \in HerFiles
                 \/ ContentFails(p, t)

\* status(): what the last commit holds first, then what is new.
StatusOf(t) == {[path |-> p, known |-> committed[p] # NoFile, removed |-> t[p] = NoFile] : p \in Differ(t, committed)}
ComesFirst(e, f) == (e.known /\ ~f.known) \/ (e.known = f.known /\ Place(e.path) <= Place(f.path))

-----------------------------------------------------------------------------
(* A turn of natsumi's, and its commit.                                     *)

\* While there is no base, the last commit may by then be more than a day old.
BeginsTurn(who) ==
  /\ doing = "nothing" /\ count.turns < MaxTurns
  /\ doing' = "turn" /\ writer' = who /\ Counted("turns")
  /\ base' = base \/ (~based /\ base' = committed)
  /\ UNCHANGED <<tree, todo, stageVars, briefVars, based, curatedAt, commitVars, touched, owners, unmended>>

\* A rename is a removal and a new file.
SheWrites(p, text) ==
  /\ doing = "turn" /\ count.writes < MaxWrites /\ tree[p] # text
  /\ tree' = [tree EXCEPT ![p] = text] /\ Counted("writes")
  /\ UNCHANGED <<doing, turnVars, stageVars, briefVars, recordVars, commitVars, touched, owners, unmended>>

TurnsCommit ==
  /\ doing = "turn"
  /\ doing' = "checking" /\ todo' = StatusOf(tree)
  /\ UNCHANGED <<tree, writer, stageVars, briefVars, recordVars, commitVars, count, touched, owners, unmended>>

\* commit(): one file is looked at, and put back to the last commit when a check fails.
ChecksFile ==
  /\ doing = "checking"
  /\ \E entry \in todo :
       /\ \A other \in todo : ComesFirst(entry, other)
       /\ tree' = IF Refuses(entry.path, entry.removed, writer, tree)
                  THEN [tree EXCEPT ![entry.path] = committed[entry.path]] ELSE tree
       /\ todo' = todo \ {entry}
  /\ UNCHANGED <<doing, writer, stageVars, briefVars, recordVars, commitVars, count, touched, owners, unmended>>

\* The commit of a tree by someone; what the curator or the server made of a text the curator was given it knows too.
Commits(who, t) ==
  /\ committed' = t
  /\ by' = [p \in Paths |-> IF t[p] # committed[p] THEN who ELSE by[p]]
  /\ heard' = [p \in Paths |-> IF who \in {"curator", "server"} /\ heard[p] = committed[p] THEN t[p] ELSE heard[p]]
  /\ UNCHANGED given

\* What is left is committed; after the night's review the curator comes.
CommitsTurn ==
  /\ doing = "checking" /\ todo = {}
  /\ Commits(writer, tree)
  /\ IF writer = "night"
     THEN doing' = "curator" /\ stage' = 1 /\ rewritten' = TRUE /\ late' = FALSE /\ handled' = {} /\ unmended' = Paths
     ELSE doing' = "nothing" /\ UNCHANGED <<stage, rewritten, late, handled, unmended>>
  /\ UNCHANGED <<tree, turnVars, cutOff, before, merged, moves, brief, recordVars, count, touched, owners>>

-----------------------------------------------------------------------------
(* The curator's night.                                                     *)

CuratorStages == <<"knowledge", "archive", "structure", "index">>
StageName == CuratorStages[stage]
Rewrites(name) == name # "index"

\* changedSince(): the files there are that were not so at the base.
ChangedTopics == {p \in Held(committed) : Rewritable(p) /\ committed[p] # base[p]}

\* chooseRotation(): those not curated for longest, in path order among equals.
InTurn ==
  LET rest        == {p \in Held(committed) \ ChangedTopics : Rewritable(p)}
      Before(q, p) == curatedAt[q] < curatedAt[p] \/ (curatedAt[q] = curatedAt[p] /\ Place(q) < Place(p))
  IN {p \in rest : Cardinality({q \in rest : Before(q, p)}) < RotateFiles}

\* rewriteScope().
Scope == IF RewriteAll THEN {p \in Held(committed) : Rewritable(p)} ELSE ChangedTopics \cup InTurn

\* A stage's own refusals, over those every commit of the curator's has.
StageRefuses(p) ==
  CASE StageName = "knowledge" -> Kind[p] = "index" \/ Kind[p] \in Archived
    [] StageName = "index"     -> Kind[p] \notin {"index", "readme"}
    [] OTHER                   -> Kind[p] = "index"

\* archivePlan(): the files tonight's archiving may make one of.
Group == {p \in Held(before) : Kind[p] = "group"}

\* A whole group goes, and what it becomes is there.
Compacts(t) ==
  /\ Group # {} /\ \A p \in Group : committed[p] # NoFile /\ t[p] = NoFile
  /\ \A p \in Paths : Kind[p] = "into" => t[p] # NoFile

\* inspectArchive(): besides, this month's file is only added to.
ArchiveAllows(p, t) ==
  /\ StageName = "archive"
  /\ \/ Compacts(t) /\ (Kind[p] = "into" \/ (p \in Group /\ t[p] = NoFile))
     \/ Kind[p] = "append" /\ t[p] # NoFile /\ (committed[p] # NoFile => IsPrefix(committed[p], t[p]))

\* inspectCuration().
Rejected(t) ==
  {p \in Differ(t, committed) : \/ Kind[p] \in Archived /\ ~ArchiveAllows(p, t)
                           \/ Refuses(p, t[p] = NoFile, "curator", t)
                           \/ StageRefuses(p)}

\* The next stage's turn; the base moves only when every stage that rewrites went well.
StageEnds(ok) ==
  /\ doing' = "curator" /\ stage' = stage + 1
  /\ rewritten' = (rewritten /\ (Rewrites(StageName) => ok))

\* Past the deadline, on a tree that is not clean, or without a route: not begun.
StageNotBegun ==
  /\ doing = "curator" /\ stage <= Len(CuratorStages)
  /\ \/ (late \/ tree # committed) /\ UNCHANGED <<late, count>>
     \/ count.upsets < MaxUpsets /\ Counted("upsets") /\ late' \in BOOLEAN
  /\ StageEnds(FALSE)
  /\ UNCHANGED <<tree, turnVars, cutOff, before, merged, moves, brief, handled, recordVars, commitVars, touched, owners, unmended>>

BeginsStage ==
  /\ doing = "curator" /\ stage <= Len(CuratorStages) /\ ~late /\ tree = committed
  /\ doing' = "curating" /\ before' = committed /\ cutOff' = TRUE /\ merged' = [p \in Paths |-> NoFile] /\ moves' = merged'
  /\ brief' = (IF StageName \in {"archive", "structure"} THEN Scope ELSE {})
  /\ heard' = (IF StageName = "structure" THEN [p \in Paths |-> IF p \in Scope \/ p \notin Held(committed) THEN committed[p] ELSE given[p]] ELSE heard)
  /\ unmended' = {}
  /\ UNCHANGED <<tree, turnVars, stage, rewritten, late, handled, recordVars, committed, by, given, count, touched, owners>>

CuratorWrites(p, text) ==
  /\ doing \in {"curating", "correcting"} /\ count.writes < MaxWrites /\ tree[p] # text
  /\ tree' = [tree EXCEPT ![p] = text] /\ Counted("writes")
  /\ UNCHANGED <<doing, turnVars, stageVars, briefVars, recordVars, commitVars, touched, owners, unmended>>

\* acceptOldPath(): both are topics; whether one is gone and the other there is judged later.
MapOldPath(from, to) ==
  /\ doing \in {"curating", "correcting"} /\ Rewritable(from) /\ Rewritable(to) /\ from # to
  /\ merged' = [merged EXCEPT ![from] = to]
  /\ UNCHANGED <<tree, doing, turnVars, stageVars, late, before, moves, brief, handled, recordVars, commitVars, count,
                 touched, owners, unmended>>

\* The limits, a model that fails, a stop, or a throw: discardChanges(), and the next stage.
StageCutOff ==
  /\ doing \in {"curating", "correcting"} /\ count.upsets < MaxUpsets
  /\ tree' = committed /\ cutOff' = FALSE /\ StageEnds(FALSE) /\ Counted("upsets")
  /\ UNCHANGED <<turnVars, briefVars, recordVars, commitVars, touched, owners, unmended>>

\* What failed the check is told once, while calls are left.
PromptEnds(callsLeft) ==
  /\ doing \in {"curating", "correcting"}
  /\ doing' = (IF doing = "curating" /\ Rejected(tree) # {} /\ callsLeft THEN "correcting" ELSE "judging")
  /\ UNCHANGED <<tree, turnVars, stageVars, briefVars, recordVars, commitVars, count, touched, owners, unmended>>

\* commitCuration(): one change that fails throws the stage away.
JudgesStage ==
  /\ doing = "judging"
  /\ \/ /\ Rejected(tree) # {}
        /\ tree' = committed /\ cutOff' = FALSE /\ StageEnds(FALSE) /\ UNCHANGED handled
     \/ /\ tree = committed
        /\ cutOff' = FALSE /\ StageEnds(TRUE) /\ handled' = handled \cup brief /\ UNCHANGED tree
     \/ /\ tree # committed /\ Rejected(tree) = {}
        /\ doing' = "keeping" /\ UNCHANGED <<tree, stageVars, handled>>
  /\ UNCHANGED <<turnVars, late, before, merged, moves, brief, recordVars, commitVars, count, touched, owners, unmended>>

CommitsStage ==
  /\ doing = "keeping"
  /\ Commits("curator", tree)
  /\ handled' = handled \cup brief \cup (IF Rewrites(StageName) THEN Differ(tree, committed) ELSE {})
  /\ doing' = "mending"
  /\ UNCHANGED <<tree, turnVars, stageVars, late, before, merged, moves, brief, recordVars, count, touched, owners, unmended>>

-----------------------------------------------------------------------------
(* The paths the stage moved.                                               *)

Taken(p) == before[p] # NoFile /\ committed[p] = NoFile
Made(p) == before[p] = NoFile /\ committed[p] # NoFile

\* renamesSince(): a file that is gone, and one made with its text, the first with the first.
Renamed(p, q) ==
  LET Rank(r, S) == Cardinality({s \in S : Place(s) < Place(r)}) IN
  /\ Taken(p) /\ Made(q) /\ committed[q] = before[p]
  /\ Rank(p, {r \in Paths : Taken(r) /\ before[r] = before[p]}) = Rank(q, {r \in Paths : Made(r) /\ committed[r] = committed[q]})

\* A row of the curator's table counts when what it names is gone, and there is where it went.
TakesRow(p) == merged[p] # NoFile /\ Taken(p) /\ committed[merged[p]] # NoFile

WentTo(p) == CASE TakesRow(p) -> merged[p]
               [] ~TakesRow(p) /\ (\E q \in Paths : Renamed(p, q)) -> CHOOSE q \in Paths : Renamed(p, q)
               [] OTHER -> NoFile
Moved == {p \in Paths : moves[p] # NoFile}

\* rewriteMovedPaths() writes what links to them, in every page.
MendsPaths ==
  /\ doing = "mending"
  /\ moves' = [p \in Paths |-> WentTo(p)]
  /\ LET Mended(text) == [i \in DOMAIN text |-> IF text[i] \in Paths /\ moves'[text[i]] # NoFile THEN moves'[text[i]] ELSE text[i]]
         Linking(p)   == committed[p] # NoFile /\ tree[p] # NoFile /\ Kind[p] # "script"
     IN tree' = [p \in Paths |-> IF Linking(p) THEN Mended(tree[p]) ELSE tree[p]]
  /\ doing' = "mended"
  /\ UNCHANGED <<turnVars, stageVars, late, before, merged, brief, handled, recordVars, commitVars, count, touched, owners, unmended>>

\* commitRewrite(): no writer's rules; a removal, and a text that fails (grown too long, say), is put back.
CommitsMended(grown) ==
  /\ doing = "mended" /\ grown \subseteq Differ(tree, committed)
  /\ LET kept == [p \in Paths |-> IF tree[p] = NoFile \/ ContentFails(p, tree) \/ p \in grown THEN committed[p] ELSE tree[p]]
     IN IF Moved = {} THEN UNCHANGED <<tree, commitVars, unmended>>
        ELSE tree' = kept /\ Commits("server", kept) /\ unmended' = Differ(kept, tree)
  /\ cutOff' = FALSE /\ StageEnds(TRUE)
  /\ UNCHANGED <<turnVars, briefVars, recordVars, count, touched, owners>>

\* It throws: the stage's commit stands.
MendingFails ==
  /\ doing \in {"mending", "mended"} /\ count.upsets < MaxUpsets
  /\ tree' = committed /\ cutOff' = FALSE /\ StageEnds(TRUE) /\ Counted("upsets") /\ unmended' = Paths
  /\ UNCHANGED <<turnVars, briefVars, recordVars, commitVars, touched, owners>>

\* A stop before the next stage: the night is not finished.
NightStopped ==
  /\ doing = "curator" /\ stage <= Len(CuratorStages) /\ count.upsets < MaxUpsets
  /\ doing' = "nothing" /\ Counted("upsets")
  /\ UNCHANGED <<tree, turnVars, stageVars, briefVars, recordVars, commitVars, touched, owners, unmended>>

\* succeed(): the new base, and the files in hand dated.  What there was before the first base is not asked after.
Succeeds ==
  /\ based' = TRUE /\ base' = committed /\ given' = (IF based THEN heard ELSE committed)
  /\ curatedAt' = [p \in Paths |-> CASE tree[p] = NoFile -> 0
                                     [] p \in handled /\ Rewritable(p) -> count.turns
                                     [] OTHER -> curatedAt[p]]

\* Mutant: the base moves though a stage left the day's changes.
NightEndsAnyway ==
  /\ doing = "curator" /\ stage > Len(CuratorStages)
  /\ doing' = "nothing" /\ Succeeds
  /\ UNCHANGED <<tree, turnVars, stageVars, briefVars, committed, by, heard, count, touched, owners, unmended>>

NightEnds ==
  /\ doing = "curator" /\ stage > Len(CuratorStages)
  /\ doing' = "nothing"
  /\ IF rewritten THEN Succeeds ELSE UNCHANGED <<recordVars, given>>
  /\ UNCHANGED <<tree, turnVars, stageVars, briefVars, committed, by, heard, count, touched, owners, unmended>>

-----------------------------------------------------------------------------
(* Others, and stops.                                                       *)

\* A command in the background writes into memory.
BackgroundWrites(p, text) ==
  /\ doing # "down" /\ count.upsets < MaxUpsets /\ tree[p] # text
  /\ tree' = [tree EXCEPT ![p] = text] /\ touched' = touched \cup {p} /\ Counted("upsets")
  /\ UNCHANGED <<doing, turnVars, stageVars, briefVars, recordVars, commitVars, owners, unmended>>

\* The owner commits a file of their own, unchecked.
OwnerCommits(p, text) ==
  /\ count.upsets < MaxUpsets /\ tree[p] = committed[p] /\ tree[p] # text
  /\ tree' = [tree EXCEPT ![p] = text] /\ Commits("owner", [committed EXCEPT ![p] = text])
  /\ owners' = owners \cup {p} /\ Counted("upsets")
  /\ UNCHANGED <<doing, turnVars, stageVars, briefVars, recordVars, touched, unmended>>

MemoryStops ==
  /\ doing # "down" /\ count.upsets < MaxUpsets
  /\ doing' = "down" /\ Counted("upsets")
  /\ UNCHANGED <<tree, turnVars, stageVars, briefVars, recordVars, commitVars, touched, owners, unmended>>

\* recoverCuratorRun(): what a stage that was cut off left is thrown away.
Recovered == IF cutOff THEN committed ELSE tree

\* placeFixedFiles(): the fixed files that are missing from the tree.
Placed == {p \in Paths : Kind[p] \in Fixed /\ Recovered[p] = NoFile}

\* initialize() commits what it wrote, and nothing else of the tree.
MemoryStarts ==
  /\ doing = "down" /\ doing' = "nothing"
  /\ LET With(t) == [p \in Paths |-> IF p \in Placed THEN Template ELSE t[p]]
     IN tree' = With(Recovered) /\ Commits("start", With(committed))
  /\ cutOff' = FALSE /\ todo' = {}
  /\ UNCHANGED <<writer, stage, rewritten, briefVars, recordVars, count, touched, owners, unmended>>

-----------------------------------------------------------------------------
MemoryInit ==
  /\ tree = FirstTree /\ committed = FirstTree /\ before = FirstTree
  /\ doing = "nothing" /\ writer = "day" /\ todo = {} /\ stage = 1 /\ cutOff = FALSE /\ rewritten = FALSE /\ late = FALSE
  /\ merged = [p \in Paths |-> NoFile] /\ moves = merged /\ brief = {} /\ handled = {}
  /\ based = FALSE /\ base = [p \in Paths |-> NoFile]
  /\ curatedAt = [p \in Paths |-> 0]
  /\ count = [turns |-> 0, writes |-> 0, upsets |-> 0]
  /\ by = [p \in Paths |-> "start"] /\ touched = {} /\ owners = {}
  /\ given = FirstTree /\ heard = FirstTree /\ unmended = Paths

MemoryNext ==
  \/ \E who \in {"day", "night"} : BeginsTurn(who)
  \/ \E edit \in HerEdits : SheWrites(edit.path, edit.text)
  \/ \E edit \in CuratorEdits : CuratorWrites(edit.path, edit.text)
  \/ \E edit \in OthersEdits : BackgroundWrites(edit.path, edit.text) \/ OwnerCommits(edit.path, edit.text)
  \/ TurnsCommit \/ ChecksFile \/ CommitsTurn
  \/ StageNotBegun \/ BeginsStage \/ StageCutOff \/ JudgesStage \/ CommitsStage
  \/ \E row \in Moves : MapOldPath(row.from, row.to)
  \/ \E callsLeft \in BOOLEAN : PromptEnds(callsLeft)
  \/ MendsPaths \/ MendingFails
  \/ \E grown \in SUBSET Differ(tree, committed) : CommitsMended(grown)
  \/ NightStopped \/ NightEnds \/ MemoryStops \/ MemoryStarts

MemorySpec == MemoryInit /\ [][MemoryNext]_memoryVars

-----------------------------------------------------------------------------
(* Properties.                                                              *)

MemoryTypeOK ==
  /\ DOMAIN tree = Paths /\ DOMAIN committed = Paths
  /\ doing \in {"nothing", "turn", "checking", "curator", "curating", "correcting", "judging", "keeping", "mending", "mended", "down"}
  /\ writer \in {"day", "night"} /\ stage \in 1..(Len(CuratorStages) + 1)
  /\ {cutOff, rewritten, late, based} \subseteq BOOLEAN
  /\ brief \cup handled \cup touched \cup owners \cup unmended \subseteq Paths
  /\ {merged, moves} \subseteq [Paths -> Paths \cup {NoFile}] /\ curatedAt \in [Paths -> 0..MaxTurns]

Others == touched \cup {p \in Paths : by[p] = "owner"}

\* No text that fails a check is committed, but by the owner or out of a command in the background; and whoever wrote
\* what a file holds may write there.
CommittedIsChecked ==
  \A p \in Paths \ Others :
    /\ committed[p] # NoFile => Passes(committed[p])
    /\ by[p] = "day" => Kind[p] \notin NightOnly \cup {"index"} \cup Archived
    /\ by[p] = "night" => Kind[p] \notin {"index"} \cup Archived
    /\ by[p] = "curator" => Kind[p] \notin HerFiles \cup CuratorKeepsOff \cup {"diary"}
    /\ Kind[p] \in Fixed => committed[p] # NoFile

\* What is old is lost to no stage: a group goes only where what it becomes is there, and this month's file only grows.
ArchiveWhole ==
  touched \cup owners = {} =>
    /\ (\E p \in Paths : Kind[p] = "group" /\ FirstTree[p] # NoFile /\ committed[p] = NoFile) =>
         /\ \A p \in Paths : Kind[p] = "group" => committed[p] = NoFile
         /\ \A p \in Paths : Kind[p] = "into" => committed[p] # NoFile
    /\ \A p \in Paths : Kind[p] = "append" /\ FirstTree[p] # NoFile => Len(committed[p]) >= Len(FirstTree[p])

\* A stage is whole or not at all: between two stages nothing of one is left in the tree, nor the mark that it runs.
StageLeavesNothing ==
  /\ doing = "curator" => Differ(tree, committed) \subseteq touched
  /\ cutOff => doing \in {"curating", "correcting", "judging", "keeping", "mending", "mended", "down"}

\* After a stage no page links to where a file was before it, unless the page could not be put right.
LinksFollow ==
  doing = "curator" =>
    \A p \in Held(committed) \ (unmended \cup touched \cup owners) :
      Kind[p] = "script" \/ ToSet(committed[p]) \cap Moved = {}

\* What changed in a topic since the first good night, and was not given to the curator on one, counts as changed until
\* it is.
EveryChangeIsGiven ==
  based => \A p \in Held(committed) : Rewritable(p) /\ committed[p] # given[p] => p \in ChangedTopics \cup owners

MemorySafety ==
  CommittedIsChecked /\ ArchiveWhole /\ StageLeavesNothing /\ LinksFollow /\ EveryChangeIsGiven
=============================================================================
