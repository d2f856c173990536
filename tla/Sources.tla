------------------------------- MODULE Sources -------------------------------
(****************************************************************************)
(* The sources (src/src/server/sources.ts): directories of files that other *)
(* parts of the server write, kept in a git repository, and shown to        *)
(* natsumi by sources_updated events.  A directory has a ref at the commit  *)
(* it was last shown as of; a place that is for her is an attention, a row  *)
(* that waits until an event takes it.                                      *)
(*                                                                          *)
(* The operations (prepare, tick, takeIn, take) run one after another, but  *)
(* each awaits git between its steps: files are written, attentions are     *)
(* recorded, turns end and the process is killed between any two of them.   *)
(* The waits are abstracted to drawn and due; a file's content is a version *)
(* number, and a directory is one file.                                     *)
(****************************************************************************)
EXTENDS Parts, Integers, FiniteSets, FiniteSetsExt

CONSTANTS
  Dirs,          \* the directories, at their source's depth
  Attentions,    \* what a source may say is for her
  Pictured,      \* the attentions that have images
  MaxEvents,     \* bound: the events a run can number
  MaxWrites,     \* bound: the times a run writes files
  MaxCrashes,    \* bound: the times a run loses the process
  MaxCalls       \* bound: the times a run takes a directory in, or cuts back

ASSUME SourcesAssumption ==
  /\ IsFiniteSet(Dirs) /\ IsFiniteSet(Attentions) /\ Pictured \subseteq Attentions
  /\ MaxEvents \in Nat /\ MaxWrites \in Nat /\ MaxCrashes \in Nat /\ MaxCalls \in Nat

VARIABLES
  files,     \* Dirs -> version: the work tree (0: nothing there)
  made,      \* there is a commit
  gitHead,   \* Dirs -> version: the commit the branch is at
  past,      \* the commits of the history, head among them
  seen,      \* Dirs -> version at refs/seen, or NoRef
  before,    \* Dirs -> version at refs/before, or NoRef
  place,     \* Attentions -> the directory its row names, or NoDir before it is recorded
  taken,     \* Attentions -> the event that took the row, or 0
  line,      \* event -> what its source_events row shows, or NoLine
  prepared, dirty, pending, checked, wait,     \* memory
  op,        \* the operation that runs
  event,     \* the loop's side: event -> where the loop has it
  turn,      \* an events turn is running, so attentions can be steered
  again,     \* an attention came while one was being steered
  writes, crashes, calls,
  start      \* history: Dirs -> the version its ref was last put at silently

repo == <<made, gitHead, past, seen, before>>
db == <<place, taken, line>>
memory == <<prepared, dirty, pending, checked, wait>>
loop == <<event, turn, again>>
bounds == <<writes, crashes, calls>>
sourceVars == <<files, repo, db, memory, op, loop, bounds, start>>

Events == 1..MaxEvents
Version == 0..MaxWrites
NoRef == -1
NoDir == "nowhere"
NoLine == [ranges |-> {}, attentions |-> {}]
Waits == {"none", "drawn", "due"}
Idle == [kind |-> "none", at |-> "none", dir |-> NoDir, event |-> 0, steering |-> FALSE,
         todo |-> {}, here |-> {}, got |-> {}]

-----------------------------------------------------------------------------
(* What every operation is made of.                                         *)

\* mark(): a directory has something not shown; the first change after its last look draws its wait.
Marked(ds, known) ==
  /\ pending' = pending \cup ds
  /\ wait' = [d \in Dirs |-> IF d \in ds \cap known /\ wait[d] = "none" THEN "drawn" ELSE wait[d]]

\* A wait, the writes and the mark of these directories are dropped.
Dropped(ds) ==
  /\ pending' = pending \ ds
  /\ wait' = [d \in Dirs |-> IF d \in ds THEN "none" ELSE wait[d]]

\* The directories with a file that differs from the last commit, and those where that is news to scan().
Differs == {d \in Dirs : files[d] # gitHead[d]}
News == {d \in Differs : dirty[d] # files[d]}

\* scan(): the files that changed since last seen are learnt, and their directories marked.
Scan ==
  /\ dirty' = [d \in Dirs |-> IF d \in Differs THEN files[d] ELSE NoRef]
  /\ Marked(News, checked)

\* commit(): the work tree as it is now becomes the head, and what it changed is marked.
Commit(known) ==
  LET changed == IF made THEN Differs ELSE {} IN
  /\ IF made \/ Differs # {}
       THEN gitHead' = files /\ past' = past \cup {files} /\ made' = TRUE
       ELSE UNCHANGED <<gitHead, past, made>>
  /\ Marked(changed, known)

\* takeInNew(false), with a commit: a new directory's ref is put at the last commit, and it is marked.
NewRefs(fresh) ==
  /\ seen' = [d \in Dirs |-> IF d \in fresh THEN gitHead[d] ELSE seen[d]]
  /\ start' = [d \in Dirs |-> IF d \in fresh THEN gitHead[d] ELSE start[d]]
  /\ Marked(fresh, checked \cup fresh)
  /\ UNCHANGED <<made, gitHead, past>>

\* takeInNew(false), with no commit yet: there is nothing to stand before, so it is taken in silently.
FirstRefs(fresh) ==
  /\ made' = TRUE /\ gitHead' = files /\ past' = {files}
  /\ seen' = [d \in Dirs |-> IF d \in fresh THEN files[d] ELSE seen[d]]
  /\ start' = [d \in Dirs |-> IF d \in fresh THEN files[d] ELSE start[d]]
  /\ Dropped(fresh)

TakeInNew ==
  LET fresh == pending \ checked IN
  /\ checked' = checked \cup fresh
  /\ IF fresh = {} THEN UNCHANGED <<made, gitHead, past, seen, start, pending, wait>>
     ELSE IF made THEN NewRefs(fresh) ELSE FirstRefs(fresh)
  /\ UNCHANGED <<before, dirty, prepared>>

\* The attentions that wait, and those a running turn can be given: text only.
Waiting == {a \in Attentions : place[a] # NoDir /\ taken[a] = 0}
Steerable == Waiting \ Pictured

\* The directories whose time has come.  One with no wait drawn is due now.
Due == {d \in pending \cap checked : wait[d] # "drawn"}

-----------------------------------------------------------------------------
(* The loop's side.  It keeps one event queued at most, and one being       *)
(* steered; an event that showed nothing ends, and its number is used again *)

Unused == {e \in Events : event[e] = "none"}
Next1 == Min(Unused)
Next2 == Min(Unused \ {Next1})
InState(s) == {e \in Events : event[e] = s}

\* raiseSourcesUpdated(): of the attentions waiting, those that can be steered into the running turn are, as an event
\* of their own or in another round after the one under way; and an event is queued unless there is one.
Raised(steerable) ==
  LET can == turn /\ steerable # {}
      steers == can /\ InState("steering") = {} /\ Cardinality(Unused) > 1
      queues == InState("queued") = {} /\ Unused # {}
  IN /\ again' = (again \/ (can /\ InState("steering") # {}))
     /\ event' = [e \in Events |->
          IF steers /\ e = Next1 THEN "steering"
          ELSE IF queues /\ e = (IF steers THEN Next2 ELSE Next1) THEN "queued" ELSE event[e]]
     /\ UNCHANGED turn

\* Between turns the loop takes up its event, and waits for its line: no other turn begins.
TakenUp(e) ==
  /\ ~turn /\ InState("called") = {} /\ event[e] = "queued"
  /\ event' = [event EXCEPT ![e] = "called"]
  /\ UNCHANGED <<files, repo, db, memory, op, turn, again, bounds, start>>

TurnBegins ==
  /\ ~turn /\ InState("called") = {} /\ turn' = TRUE
  /\ UNCHANGED <<files, repo, db, memory, op, event, again, bounds, start>>

\* A turn ends.  What Pi was not given of its steering goes back to the queue.
TurnEnds ==
  /\ turn /\ turn' = FALSE
  /\ \E back \in SUBSET InState("given") :
       event' = [e \in Events |-> IF e \in back THEN "queued"
                                  ELSE IF event[e] = "given" THEN "shown" ELSE event[e]]
  /\ UNCHANGED <<files, repo, db, memory, op, again, bounds, start>>

\* The loop with the outcome of a take: an event with a line is given, or queued if its turn is over meanwhile; one
\* without ends, and another round steers what came while this one was made.
Outcome(e, steering, ok, left) ==
  LET late == steering /\ ok /\ ~turn
      free == Unused \cup (IF ok THEN {} ELSE {e})
      round == steering /\ ~late /\ again /\ turn /\ left # {} /\ free # {}
  IN /\ event' = [x \in Events |->
          IF round /\ x = Min(free) THEN "steering"
          ELSE IF x # e THEN event[x]
          ELSE IF late THEN "queued" ELSE IF ~ok THEN "none" ELSE IF steering THEN "given" ELSE "shown"]
     /\ turn' = IF steering THEN turn ELSE ok
     /\ again' = IF steering THEN FALSE ELSE again

-----------------------------------------------------------------------------
(* What happens between the steps of an operation.                          *)

\* A source writes a file.
WriteFile(d) ==
  /\ writes < MaxWrites
  /\ writes' = writes + 1
  /\ files' = [files EXCEPT ![d] = writes + 1]
  /\ UNCHANGED <<repo, db, memory, op, loop, crashes, calls, start>>

\* attention(): a row for a file that is there, and the event asked for.
Attention(a, d) ==
  /\ place[a] = NoDir /\ files[d] # 0
  /\ place' = [place EXCEPT ![a] = d]
  /\ Raised((Waiting \cup {a}) \ Pictured)
  /\ UNCHANGED <<files, repo, taken, line, memory, op, bounds, start>>

\* A drawn wait ends.
WaitEnds(d) ==
  /\ wait[d] = "drawn"
  /\ wait' = [wait EXCEPT ![d] = "due"]
  /\ UNCHANGED <<files, repo, db, prepared, dirty, pending, checked, op, loop, bounds, start>>

-----------------------------------------------------------------------------
(* The operations, one at a time: each begins when the one before is over.  *)

Begins(o) == op = Idle /\ op' = [Idle EXCEPT !.kind = o.kind, !.at = o.at, !.dir = o.dir,
                                             !.event = o.event, !.steering = o.steering]
Call(kind, dir, e, steering) == [kind |-> kind, at |-> "scan", dir |-> dir, event |-> e, steering |-> steering]
Goes(at) == op' = [op EXCEPT !.at = at]

\* prepare(): what the refs say is known, and what differs from them waits to be shown.
Prepare ==
  /\ ~prepared /\ Begins(Call("prepare", NoDir, 0, FALSE))
  /\ checked' = {d \in Dirs : seen[d] # NoRef}
  /\ pending' = {d \in checked' : made /\ seen[d] # gitHead[d]}
  /\ wait' = [d \in Dirs |-> IF d \in pending' THEN "drawn" ELSE "none"]
  /\ UNCHANGED <<files, repo, db, prepared, dirty, loop, bounds, start>>

Tick ==
  /\ prepared /\ Begins(Call("tick", NoDir, 0, FALSE))
  /\ UNCHANGED <<files, repo, db, memory, loop, bounds, start>>

TakeIn(d) ==
  /\ prepared /\ calls < MaxCalls /\ calls' = calls + 1
  /\ Begins(Call("takeIn", d, 0, FALSE))
  /\ UNCHANGED <<files, repo, db, memory, loop, writes, crashes, start>>

\* take(): an event that has its line keeps it; steering with nothing to steer makes none.
TakeBegins(e, steering) ==
  /\ op = Idle
  /\ IF line[e] # NoLine THEN op' = Idle /\ Outcome(e, steering, TRUE, Steerable)
     ELSE IF steering /\ Steerable = {} THEN op' = Idle /\ Outcome(e, steering, FALSE, Steerable)
     ELSE Begins(Call("take", NoDir, e, steering)) /\ UNCHANGED loop

TakeQueued(e) ==
  /\ prepared /\ event[e] = "called"
  /\ TakeBegins(e, FALSE)
  /\ UNCHANGED <<files, repo, db, memory, bounds, start>>

TakeSteering(e) ==
  /\ prepared /\ event[e] = "steering"
  /\ TakeBegins(e, TRUE)
  /\ UNCHANGED <<files, repo, db, memory, bounds, start>>

ScanStep ==
  /\ op.at = "scan"
  /\ Scan /\ Goes("refs")
  /\ UNCHANGED <<files, repo, db, prepared, checked, loop, bounds, start>>

\* takeInNew(true): as the server starts, what is there is committed, and a directory with no ref is taken in silently.
PrepareRefs ==
  /\ op.at = "refs" /\ op.kind = "prepare"
  /\ LET there == made \/ Differs # {}
         fresh == {d \in Dirs \ checked : there /\ files[d] # 0}
         changed == IF made THEN Differs ELSE {}
     IN /\ made' = there
        /\ gitHead' = IF there THEN files ELSE gitHead
        /\ past' = IF there THEN past \cup {files} ELSE past
        /\ seen' = [d \in Dirs |-> IF d \in fresh THEN files[d] ELSE seen[d]]
        /\ start' = [d \in Dirs |-> IF d \in fresh THEN files[d] ELSE start[d]]
        /\ checked' = checked \cup fresh
        /\ pending' = (pending \cup changed) \ fresh
        /\ wait' = [d \in Dirs |-> IF d \in fresh THEN "none"
                                   ELSE IF d \in changed \cap checked /\ wait[d] = "none" THEN "drawn" ELSE wait[d]]
  /\ prepared' = TRUE /\ op' = Idle
  /\ UNCHANGED <<files, before, db, dirty, loop, bounds>>

RefsStep ==
  /\ op.at = "refs" /\ op.kind # "prepare"
  /\ TakeInNew
  /\ Goes(IF op.kind = "tick" THEN "end" ELSE "commit")
  /\ UNCHANGED <<files, db, loop, bounds>>

\* cut(): the history begins at a later commit; a ref from before it moves there.
Cut(base) ==
  /\ past' = {c \in past : \A d \in Dirs : c[d] >= base[d]}
  /\ seen' = [d \in Dirs |-> IF seen[d] = NoRef THEN NoRef ELSE Max({seen[d], base[d]})]
  /\ before' = [d \in Dirs |-> IF before[d] = NoRef THEN NoRef ELSE Max({before[d], base[d]})]

\* Mutant: a look asks for changes only.
TickEndsForChanges(awake) ==
  /\ op.at = "end"
  /\ IF awake /\ Due # {} THEN Raised(Steerable) ELSE UNCHANGED loop
  /\ op' = Idle
  /\ UNCHANGED <<files, made, gitHead, past, seen, before, db, memory, writes, calls, crashes, start>>

\* The end of tick(): the history may be cut back at night, and the event is asked for when an attention waits or, in
\* the awake hours, a directory is due.
TickEnds(awake) ==
  /\ op.at = "end"
  /\ IF Waiting # {} \/ (awake /\ Due # {}) THEN Raised(Steerable) ELSE UNCHANGED loop
  /\ \/ UNCHANGED <<past, seen, before, calls>>
     \/ ~awake /\ calls < MaxCalls /\ calls' = calls + 1 /\ \E base \in past : Cut(base)
  /\ op' = Idle
  /\ UNCHANGED <<files, made, gitHead, db, memory, writes, crashes, start>>

CommitStep ==
  /\ op.at = "commit"
  /\ Commit(checked)
  /\ IF made' THEN Goes(IF op.kind = "take" THEN "choose" ELSE "place") /\ UNCHANGED loop
     ELSE /\ op' = Idle
          /\ IF op.kind = "take" THEN Outcome(op.event, op.steering, FALSE, Steerable) ELSE UNCHANGED loop
  /\ UNCHANGED <<files, seen, before, db, prepared, dirty, checked, bounds, start>>

\* The end of takeIn(): the directory's ref is put at the commit, and what waited of it is dropped.
PlaceStep ==
  /\ op.at = "place"
  /\ seen' = [seen EXCEPT ![op.dir] = gitHead[op.dir]]
  /\ start' = [start EXCEPT ![op.dir] = gitHead[op.dir]]
  /\ checked' = checked \cup {op.dir}
  /\ Dropped({op.dir})
  /\ op' = Idle
  /\ UNCHANGED <<files, made, gitHead, past, before, db, prepared, dirty, loop, bounds>>

\* The attentions an event takes: a running turn is given text only.
ChosenHere == IF op.steering THEN Steerable ELSE Waiting

\* The attentions and their directories; in the awake hours, when a directory is due, those due and those close to it.
Choose(awake) ==
  /\ op.at = "choose"
  /\ \E near \in SUBSET (pending \cap checked) :
       LET others == IF ~op.steering /\ awake /\ Due # {} THEN Due \cup near ELSE {} IN
       /\ others = {} => near = {}
       /\ op' = [op EXCEPT !.at = "show", !.here = ChosenHere,
                           !.todo = {place[a] : a \in ChosenHere} \cup others]
  /\ UNCHANGED <<files, repo, db, memory, loop, bounds, start>>

Changed(d) == d \in checked /\ seen[d] # gitHead[d]

\* A directory on the list with no ref: git cannot compare, and the take fails with what it had gathered.
Unreadable(d) == d \in checked /\ seen[d] = NoRef

\* Mutant: only the place to compare with is moved.
MoveBefore(d) == before' = [before EXCEPT ![d] = seen[d]] /\ UNCHANGED seen

\* The refs of a directory are moved, and with them what is shown of it.
MoveRefs(d) ==
  /\ before' = [before EXCEPT ![d] = seen[d]]
  /\ seen' = [seen EXCEPT ![d] = gitHead[d]]

\* One directory of take(): its wait is dropped, its change put in the line and its refs moved.
Show(d) ==
  /\ op.at = "show" /\ d \in op.todo /\ ~Unreadable(d)
  /\ Dropped({d})
  /\ IF Changed(d)
       THEN MoveRefs(d) /\ op' = [op EXCEPT !.todo = @ \ {d}, !.got = @ \cup {<<d, seen[d], gitHead[d]>>}]
       ELSE UNCHANGED <<seen, before>> /\ op' = [op EXCEPT !.todo = @ \ {d}]
  /\ checked' = IF Changed(d) \/ \E a \in op.here : place[a] = d THEN checked \cup {d} ELSE checked
  /\ UNCHANGED <<files, made, gitHead, past, db, prepared, dirty, loop, bounds, start>>

\* The operation throws: what it was for is not done, and a take's event ends.
Throws ==
  /\ op' = Idle
  /\ IF op.kind = "take" THEN Outcome(op.event, op.steering, FALSE, Steerable) ELSE UNCHANGED loop
  /\ UNCHANGED <<files, repo, db, memory, writes, calls, start>>

Unreads == op.at = "show" /\ (\E d \in op.todo : Unreadable(d)) /\ Throws /\ UNCHANGED crashes

\* git or the database fails.
Fails == op # Idle /\ op.kind # "prepare" /\ crashes < MaxCrashes /\ crashes' = crashes + 1 /\ Throws

\* The transaction that writes the line and marks its attentions.
WriteLine(e) ==
  /\ line' = [line EXCEPT ![e] = [ranges |-> op.got, attentions |-> op.here]]
  /\ taken' = [a \in Attentions |-> IF a \in op.here THEN e ELSE taken[a]]

\* The end of take().
TakeEnds ==
  /\ op.at = "show" /\ op.todo = {}
  /\ LET some == op.got # {} \/ op.here # {} IN
     /\ IF some THEN WriteLine(op.event) ELSE UNCHANGED <<line, taken>>
     /\ Outcome(op.event, op.steering, some, IF some THEN Steerable \ op.here ELSE Steerable)
  /\ op' = Idle
  /\ UNCHANGED <<files, repo, place, memory, bounds, start>>

\* The process is killed.  What is in git and the database stays; the events not begun come back to the queue.
Crash ==
  /\ crashes < MaxCrashes /\ crashes' = crashes + 1
  /\ prepared' = FALSE /\ checked' = {} /\ pending' = {}
  /\ dirty' = [d \in Dirs |-> NoRef] /\ wait' = [d \in Dirs |-> "none"]
  /\ op' = Idle /\ turn' = FALSE /\ again' = FALSE
  /\ event' = [e \in Events |-> IF event[e] \in {"steering", "called"} THEN "queued"
                                ELSE IF event[e] = "given" THEN "shown" ELSE event[e]]
  /\ UNCHANGED <<files, repo, db, writes, calls, start>>

-----------------------------------------------------------------------------
SourcesInit ==
  /\ files = [d \in Dirs |-> 0]
  /\ made = FALSE /\ gitHead = [d \in Dirs |-> 0] /\ past = {}
  /\ seen = [d \in Dirs |-> NoRef] /\ before = [d \in Dirs |-> NoRef]
  /\ place = [a \in Attentions |-> NoDir] /\ taken = [a \in Attentions |-> 0]
  /\ line = [e \in Events |-> NoLine]
  /\ prepared = FALSE /\ checked = {} /\ pending = {}
  /\ dirty = [d \in Dirs |-> NoRef] /\ wait = [d \in Dirs |-> "none"]
  /\ op = Idle
  /\ event = [e \in Events |-> "none"] /\ turn = FALSE /\ again = FALSE
  /\ writes = 0 /\ crashes = 0 /\ calls = 0
  /\ start = [d \in Dirs |-> 0]

Steps == ScanStep \/ PrepareRefs \/ RefsStep \/ CommitStep \/ PlaceStep \/ TakeEnds \/ Unreads \/ \E d \in Dirs : Show(d)

SourcesNext ==
  \/ Prepare \/ Tick \/ Steps \/ Fails \/ Crash \/ TurnBegins \/ TurnEnds
  \/ \E awake \in BOOLEAN : TickEnds(awake) \/ Choose(awake)
  \/ \E d \in Dirs : WriteFile(d) \/ WaitEnds(d) \/ TakeIn(d)
  \/ \E a \in Attentions, d \in Dirs : Attention(a, d)
  \/ \E e \in Events : TakenUp(e) \/ TakeQueued(e) \/ TakeSteering(e)

SourcesSpec == SourcesInit /\ [][SourcesNext]_sourceVars

\* An operation that began goes on to its end; the scheduler looks again and again; turns end; a wait ends; and since
\* the operations are served in the order they are called, an event's take is never passed over for ever.  The day has
\* its awake hours.
Advance == Steps \/ \E awake \in BOOLEAN : TickEnds(awake) \/ Choose(awake)
SourcesFairness ==
  /\ WF_sourceVars(part = "sources" /\ TurnEnds) /\ WF_sourceVars(part = "sources" /\ (Prepare \/ Advance)) /\ SF_sourceVars(part = "sources" /\ Tick)
  /\ SF_sourceVars(part = "sources" /\ TickEnds(TRUE)) /\ SF_sourceVars(part = "sources" /\ Choose(TRUE) /\ ~op.steering)
  /\ WF_sourceVars(part = "sources" /\ \E d \in Dirs : WaitEnds(d))
  /\ SF_sourceVars(part = "sources" /\ \E e \in Events : TakenUp(e))
  /\ SF_sourceVars(part = "sources" /\ \E e \in Events : TakeQueued(e)) /\ SF_sourceVars(part = "sources" /\ \E e \in Events : TakeSteering(e))

-----------------------------------------------------------------------------
(* Properties.                                                              *)

SourcesTypeOK ==
  /\ files \in [Dirs -> Version] /\ gitHead \in [Dirs -> Version] /\ made \in BOOLEAN
  /\ past \subseteq [Dirs -> Version]
  /\ seen \in [Dirs -> Version \cup {NoRef}] /\ before \in [Dirs -> Version \cup {NoRef}]
  /\ place \in [Attentions -> Dirs \cup {NoDir}] /\ taken \in [Attentions -> Events \cup {0}]
  /\ \A e \in Events : line[e].attentions \subseteq Attentions
  /\ prepared \in BOOLEAN /\ checked \subseteq Dirs /\ pending \subseteq Dirs
  /\ dirty \in [Dirs -> Version \cup {NoRef}] /\ wait \in [Dirs -> Waits]
  /\ event \in [Events -> {"none", "queued", "called", "steering", "given", "shown"}]
  /\ turn \in BOOLEAN /\ again \in BOOLEAN
  /\ writes \in Version /\ crashes \in 0..MaxCrashes /\ calls \in 0..MaxCalls

\* An attention is in the line of one event, the one its row names, whatever crashed, failed or was asked for again.
AttentionInOneLine ==
  \A a \in Attentions : {e \in Events : a \in line[e].attentions} = IF taken[a] = 0 THEN {} ELSE {taken[a]}

\* No change is shown twice: the changes the events show of a directory do not overlap.
ShownOnce ==
  \A e, f \in Events : \A r \in line[e].ranges, s \in line[f].ranges :
     (r[1] = s[1] /\ <<e, r>> # <<f, s>>) => (r[3] <= s[2] \/ s[3] <= r[2])

\* sources-diff shows what the event said: the place a change is shown from is where the one before it ended, behind
\* the place it is shown to, and both are in the history that is kept.
RefsFollow ==
  \A d \in Dirs : /\ before[d] # NoRef => before[d] < seen[d] \/ calls > 0
                  /\ seen[d] <= gitHead[d]
                  /\ \A v \in {before[d], seen[d]} \ {NoRef} : \E c \in past : c[d] = v

\* What is committed and not shown is known to wait, with a wait drawn: it is never committed away.
UnshownWaits ==
  prepared => \A d \in checked : (seen[d] # NoRef /\ seen[d] # gitHead[d]) => d \in pending /\ wait[d] # "none"

\* The comment at `checked`: the directories with a ref.
CheckedHasRef == prepared => \A d \in checked : seen[d] # NoRef

\* What was shown of a directory, up to where its ref stands.
Told(d) == UNION {(r[2] + 1)..r[3] : r \in UNION {{x \in line[e].ranges : x[1] = d} : e \in Events}}

\* With no crash, no failure and no directory that lost its ref, what a ref has passed since it was put somewhere
\* silently was in an event.
NothingPassedOver ==
  (crashes = 0 /\ calls = 0 /\ CheckedHasRef /\ op.kind # "take") =>
     \A d \in Dirs : seen[d] # NoRef => (start[d] + 1)..seen[d] \subseteq Told(d)

\* A running turn is given text only: an event with a picture has a turn of its own.
PicturesApart ==
  [][\A e \in Events : (line'[e] # line[e] /\ op.steering) => line'[e].attentions \cap Pictured = {}]_line

\* Once made, a line never changes: what the turn was shown is what the record says.
LineKept == [][\A e \in Events : line[e] # NoLine => line'[e] = line[e]]_line

Wedged == \E d \in Dirs : Unreadable(d)

\* What is said to be for her is shown, unless the sources can no longer read a directory.
AttentionComes == \A a \in Attentions : (place[a] # NoDir) ~> (taken[a] # 0 \/ Wedged)

\* A change that waits is shown or taken in, unless the sources can no longer read a directory.
ChangeComes == \A d \in Dirs : (d \in pending) ~> (d \notin pending \/ Wedged)

\* An attention is shown by one event and a change by one at most, whatever crashes: the refs and what waits agree with
\* what was shown.
SourcesSafety == AttentionInOneLine /\ ShownOnce /\ RefsFollow /\ UnshownWaits /\ NothingPassedOver

\* No step changes a line that was made, or gives a running turn a picture.
SourcesSteps == PicturesApart /\ LineKept

\* Attentions and changes come to her.
SourcesLiveness == AttentionComes /\ ChangeComes
=============================================================================
