---------------------------- MODULE Outside_proofs -----------------------------
(***************************************************************************)
(* What reaches natsumi from outside and what she sends out, proved: the   *)
(* sources, the inbox, the dove, and, with the requests, the owner's       *)
(* devices and the record of Slack, which have modules of their own, all   *)
(* of them together.                                                       *)
(***************************************************************************)
EXTENDS MCOutside, AgentRequests_proofs, DeviceSync_proofs, SlackRecord_proofs

-----------------------------------------------------------------------------
(***************************************************************************)
(* The sources proved for any directories and attentions, and any number   *)
(* of events, writes, failures and kills: an attention is in the line of   *)
(* one event, no change is shown twice, a ref and the one before it are in *)
(* the history that is kept, what is not shown waits, and what a ref has   *)
(* passed was shown.                                                       *)
(* The inductive invariant orders the history, ties what an operation has  *)
(* gathered to the refs it moved and the rows that wait, and says of each  *)
(* place an operation has come to what it has done by then.                *)
(***************************************************************************)

Ranges == Dirs \X Version \X Version
Operations ==
  [kind : {"none", "prepare", "tick", "takeIn", "take"},
   at : {"none", "scan", "refs", "end", "commit", "place", "choose", "show"},
   dir : Dirs \cup {NoDir}, event : 0..MaxEvents, steering : BOOLEAN,
   todo : SUBSET Dirs, here : SUBSET Attentions, got : SUBSET Ranges]

\* What the variables hold.
RepoTypes ==
  /\ files \in [Dirs -> Version] /\ gitHead \in [Dirs -> Version] /\ made \in BOOLEAN
  /\ past \subseteq [Dirs -> Version] /\ start \in [Dirs -> Version]
  /\ seen \in [Dirs -> Version \cup {NoRef}] /\ before \in [Dirs -> Version \cup {NoRef}]
  /\ writes \in Version /\ crashes \in 0..MaxCrashes /\ calls \in 0..MaxCalls
RowTypes ==
  /\ place \in [Attentions -> Dirs \cup {NoDir}] /\ taken \in [Attentions -> Events \cup {0}]
  /\ line \in [Events -> [ranges : SUBSET Ranges, attentions : SUBSET Attentions]]
MemoryTypes ==
  /\ prepared \in BOOLEAN /\ checked \subseteq Dirs /\ pending \subseteq Dirs
  /\ dirty \in [Dirs -> Version \cup {NoRef}] /\ wait \in [Dirs -> Waits]
LoopTypes ==
  /\ event \in [Events -> {"none", "queued", "called", "steering", "given", "shown"}]
  /\ turn \in BOOLEAN /\ again \in BOOLEAN

\* The commits follow one another, each with no file older than in the one before, and the work tree is ahead of them.
Below(b, c) == \A d \in Dirs : b[d] <= c[d]
HistoryGrows ==
  /\ Below(gitHead, files) /\ \A d \in Dirs : files[d] <= writes
  /\ \A c \in past : Below(c, gitHead)
  /\ \A b, c \in past : Below(b, c) \/ Below(c, b)
  /\ IF made THEN gitHead \in past
     ELSE past = {} /\ \A d \in Dirs : seen[d] = NoRef /\ before[d] = NoRef /\ gitHead[d] = 0

\* A ref comes before the one it is compared with.
RefsInv == RefsFollow /\ \A d \in Dirs : before[d] # NoRef => seen[d] # NoRef
RepoInv == RepoTypes /\ HistoryGrows /\ RefsInv

\* From the start of prepare() on, a directory with a ref is known, and waits while it is behind.
Knows == prepared \/ op.kind = "prepare"
KnownInv ==
  /\ MemoryTypes
  /\ Knows => \A d \in Dirs : seen[d] # NoRef => d \in checked
  /\ Knows => \A d \in checked : seen[d] # NoRef /\ seen[d] # gitHead[d] => d \in pending /\ wait[d] # "none"

\* What the place an operation has come to says of it.
OpShape ==
  /\ op.at = "none" => op = Idle
  /\ op.at \in {"scan", "refs"} => op.kind \in {"prepare", "tick", "takeIn", "take"}
  /\ op.at = "end" => op.kind = "tick"
  /\ op.at = "commit" => op.kind \in {"takeIn", "take"}
  /\ op.at = "place" => op.kind = "takeIn" /\ made
  /\ op.at \in {"choose", "show"} => op.kind = "take"
  /\ op.at # "show" => op.todo = {} /\ op.here = {} /\ op.got = {}
  /\ op.kind = "prepare" => ~prepared
  /\ op.kind \in {"tick", "takeIn", "take"} => prepared
  /\ op.kind = "takeIn" => op.dir \in Dirs /\ calls > 0
  /\ op.kind = "take" => op.event \in Events /\ line[op.event] = NoLine
OpInv == op \in Operations /\ OpShape

\* A range that was shown, or gathered to be shown, ends where the ref has come to, and the next begins there.
RangesInv ==
  /\ \A e \in Events : \A r \in line[e].ranges : r[2] < r[3] /\ r[3] <= seen[r[1]]
  /\ \A g \in op.got : g[2] < g[3] /\ g[3] <= seen[g[1]] /\ g[1] \notin op.todo
  /\ \A g, h \in op.got : g[1] = h[1] => g = h
  /\ \A e \in Events : \A r \in line[e].ranges, g \in op.got : r[1] = g[1] => r[3] <= g[2]
  /\ ShownOnce

\* What an operation has chosen still waits when it is taken.
ChosenInv ==
  /\ AttentionInOneLine
  /\ op.here \subseteq Waiting /\ (op.steering => op.here \cap Pictured = {})

\* What a ref has passed is told, or gathered by the operation that moved it.
ToldOf(d) == {r \in (UNION {line[e].ranges : e \in Events}) \cup op.got : r[1] = d}
PassedInv ==
  crashes = 0 /\ calls = 0 /\ CheckedHasRef =>
    \A d \in Dirs : seen[d] # NoRef => \A v \in (start[d] + 1)..seen[d] : \E r \in ToldOf(d) : v \in (r[2] + 1)..r[3]

SourcesInv == RepoInv /\ RowTypes /\ LoopTypes /\ KnownInv /\ OpInv /\ RangesInv /\ ChosenInv /\ PassedInv

-----------------------------------------------------------------------------
(* What the operators give, and what a step leaves alone.                   *)

LEMMA VersionNumbers == Version \subseteq Nat /\ MaxWrites \in Nat /\ MaxEvents \in Nat /\ Events \subseteq Nat \ {0} /\ NoRef = -1
BY SourcesAssumption DEF Version, Events, NoRef

LEMMA RangeFields ==
  ASSUME NEW r \in Ranges
  PROVE  r[1] \in Dirs /\ r[2] \in Version /\ r[3] \in Version /\ r[2] \in Int /\ r[3] \in Int
BY VersionNumbers DEF Ranges, Version

LEMMA RefNumbers ==
  ASSUME NEW ref \in [Dirs -> Version \cup {NoRef}], NEW d \in Dirs
  PROVE  ref[d] \in Int /\ (ref[d] # NoRef => ref[d] \in Version /\ ref[d] >= 0)
<1>1. ref[d] \in Version \cup {NoRef}
  OBVIOUS
<1> QED BY <1>1, VersionNumbers DEF Version, NoRef

\* The later of two versions.
LEMMA LaterOfTwo ==
  ASSUME NEW a \in Int, NEW b \in Int
  PROVE  Max({a, b}) = IF a >= b THEN a ELSE b
<1>1. \E x \in {a, b} : \A y \in {a, b} : x >= y
  OBVIOUS
<1>2. Max({a, b}) \in {a, b} /\ \A y \in {a, b} : Max({a, b}) >= y
  BY <1>1 DEF Max
<1> QED BY <1>2

LEMMA NoEvent == 0 \in 0..MaxEvents
BY SourcesAssumption

LEMMA IdleIsOp == Idle \in Operations
BY SourcesAssumption DEF Idle, Operations

\* Nothing of the repository changes.
LEMMA RepoKept ==
  ASSUME RepoInv, UNCHANGED <<files, repo, start, writes>>, calls' \in 0..MaxCalls, calls' >= calls, crashes' \in 0..MaxCrashes
  PROVE  RepoInv'
<1>1. RepoTypes'
  BY DEF RepoInv, RepoTypes, repo
<1>2. HistoryGrows' /\ RefsInv'
  <2>1. calls \in Nat /\ calls' \in Nat
    BY SourcesAssumption DEF RepoInv, RepoTypes
  <2> QED BY <2>1 DEF RepoInv, HistoryGrows, Below, RefsInv, RefsFollow, repo
<1> QED BY <1>1, <1>2 DEF RepoInv

\* The refs only move on, no line is made, and what was gathered is kept or dropped.
LEMMA RangesKept ==
  ASSUME RepoTypes, RowTypes, RangesInv, op \in Operations, seen' \in [Dirs -> Version \cup {NoRef}],
         \A d \in Dirs : seen[d] <= seen'[d], UNCHANGED line,
         op'.got = {} \/ (op'.got = op.got /\ op'.todo \subseteq op.todo)
  PROVE  RangesInv'
<1>1. ShownOnce'
  BY DEF RangesInv, ShownOnce
<1>2. \A e \in Events : \A r \in line[e].ranges : r[2] < r[3] /\ r[3] <= seen'[r[1]]
  <2> TAKE e \in Events
  <2> TAKE r \in line[e].ranges
  <2>1. r \in Ranges /\ r[2] < r[3] /\ r[3] <= seen[r[1]]
    BY DEF RowTypes, RangesInv
  <2>2. r[1] \in Dirs /\ r[3] \in Int /\ seen[r[1]] \in Int /\ seen'[r[1]] \in Int
    BY <2>1, RangeFields, RefNumbers DEF RepoTypes
  <2> QED BY <2>1, <2>2
<1>3. \A g \in op'.got : g[2] < g[3] /\ g[3] <= seen'[g[1]] /\ g[1] \notin op'.todo
  <2> SUFFICES ASSUME NEW g \in op.got, op'.got = op.got, op'.todo \subseteq op.todo
               PROVE  g[2] < g[3] /\ g[3] <= seen'[g[1]] /\ g[1] \notin op'.todo
    OBVIOUS
  <2>1. g \in Ranges /\ g[2] < g[3] /\ g[3] <= seen[g[1]] /\ g[1] \notin op.todo
    BY DEF Operations, RangesInv
  <2>2. g[1] \in Dirs /\ g[3] \in Int /\ seen[g[1]] \in Int /\ seen'[g[1]] \in Int
    BY <2>1, RangeFields, RefNumbers DEF RepoTypes
  <2> QED BY <2>1, <2>2
<1> QED BY <1>1, <1>2, <1>3 DEF RangesInv

\* No row is written or taken, and what was chosen is kept or dropped.
LEMMA ChosenKept ==
  ASSUME ChosenInv, UNCHANGED db, op'.here = {} \/ (op'.here = op.here /\ op'.steering = op.steering)
  PROVE  ChosenInv'
BY DEF ChosenInv, AttentionInOneLine, Waiting, db

\* A ref stays, or is put somewhere silently.
LEMMA PassedKept ==
  ASSUME PassedInv, RepoTypes, UNCHANGED line, op'.got = op.got, crashes' = 0 => crashes = 0, calls' = 0 => calls = 0,
         crashes' = 0 /\ calls' = 0 /\ CheckedHasRef' => CheckedHasRef,
         \A d \in Dirs : \/ seen'[d] = seen[d] /\ start'[d] = start[d]
                         \/ seen'[d] = start'[d] /\ start'[d] \in Version
  PROVE  PassedInv'
<1> SUFFICES ASSUME crashes' = 0, calls' = 0, CheckedHasRef', NEW d \in Dirs, seen'[d] # NoRef,
                    NEW v \in (start'[d] + 1)..seen'[d]
             PROVE  \E r \in ToldOf(d)' : v \in (r[2] + 1)..r[3]
  BY DEF PassedInv
<1>1. ToldOf(d)' = ToldOf(d)
  BY DEF ToldOf
<1>2. ~(seen'[d] = start'[d] /\ start'[d] \in Version)
  <2>1. start'[d] \in Version => start'[d] \in Int
    BY VersionNumbers DEF Version
  <2> QED BY <2>1
<1> QED BY <1>1, <1>2 DEF PassedInv

\* Nothing the operations know of the refs changes.
LEMMA KnownKept ==
  ASSUME KnownInv, UNCHANGED <<prepared, checked, pending, wait, dirty, seen, gitHead>>, op'.kind = "prepare" => op.kind = "prepare"
  PROVE  KnownInv'
BY DEF KnownInv, MemoryTypes, Knows

\* Only the loop goes on.
LEMMA LoopSteps ==
  ASSUME SourcesInv, TurnBegins \/ TurnEnds \/ \E e \in Events : TakenUp(e)
  PROVE  SourcesInv'
<1>1. LoopTypes' /\ UNCHANGED <<files, repo, db, memory, op, bounds, start>>
  <2>1. CASE TurnEnds
    <3>1. PICK back \in SUBSET InState("given") :
            event' = [e \in Events |-> IF e \in back THEN "queued" ELSE IF event[e] = "given" THEN "shown" ELSE event[e]]
      BY <2>1 DEF TurnEnds
    <3> QED BY <2>1, <3>1 DEF TurnEnds, SourcesInv, LoopTypes
  <2>2. CASE TurnBegins
    BY <2>2 DEF TurnBegins, SourcesInv, LoopTypes
  <2>3. CASE \E e \in Events : TakenUp(e)
    BY <2>3 DEF TakenUp, SourcesInv, LoopTypes
  <2> QED BY <2>1, <2>2, <2>3
<1>2. RepoInv' /\ RowTypes' /\ KnownInv' /\ ChosenInv'
  BY <1>1, RepoKept, KnownKept, ChosenKept DEF SourcesInv, RepoInv, RepoTypes, RowTypes, db, memory, bounds, repo
<1>3. OpInv' /\ RangesInv' /\ PassedInv'
  BY <1>1 DEF SourcesInv, OpInv, OpShape, RangesInv, ShownOnce, PassedInv, ToldOf, CheckedHasRef, db, memory, bounds, repo
<1> QED BY <1>1, <1>2, <1>3 DEF SourcesInv

\* Nothing changes.
LEMMA SourcesStutter == ASSUME SourcesInv, UNCHANGED sourceVars PROVE SourcesInv'
BY DEF SourcesInv, RepoInv, RepoTypes, HistoryGrows, Below, RefsInv, RefsFollow, RowTypes, LoopTypes, KnownInv, MemoryTypes, Knows,
   OpInv, OpShape, RangesInv, ShownOnce, ChosenInv, AttentionInOneLine, Waiting, PassedInv, ToldOf, CheckedHasRef,
   sourceVars, repo, db, memory, loop, bounds

\* What the loop makes of an outcome, and of what is raised.
LEMMA OutcomeTypes ==
  ASSUME LoopTypes, NEW e, NEW steering \in BOOLEAN, NEW ok \in BOOLEAN, NEW left, Outcome(e, steering, ok, left)
  PROVE  LoopTypes'
<1>1. event' \in [Events -> {"none", "queued", "called", "steering", "given", "shown"}]
  BY DEF LoopTypes, Outcome
<1>2. turn' \in BOOLEAN /\ again' \in BOOLEAN
  BY DEF LoopTypes, Outcome
<1> QED BY <1>1, <1>2 DEF LoopTypes

LEMMA RaisedTypes == ASSUME LoopTypes, NEW steerable, Raised(steerable) PROVE LoopTypes'
<1>1. event' \in [Events -> {"none", "queued", "called", "steering", "given", "shown"}]
  BY DEF LoopTypes, Raised
<1>2. turn' \in BOOLEAN /\ again' \in BOOLEAN
  BY DEF LoopTypes, Raised
<1> QED BY <1>1, <1>2 DEF LoopTypes

-----------------------------------------------------------------------------
(* What happens between the steps of an operation.                          *)

LEMMA WriteStep == ASSUME SourcesInv, NEW d \in Dirs, WriteFile(d) PROVE SourcesInv'
<1>1. /\ writes < MaxWrites /\ writes' = writes + 1 /\ files' = [files EXCEPT ![d] = writes + 1]
      /\ UNCHANGED <<repo, db, memory, op, loop, crashes, calls, start>>
  BY DEF WriteFile
<1>2. RepoInv'
  <2>1. RepoTypes'
    BY <1>1, SourcesAssumption DEF SourcesInv, RepoInv, RepoTypes, repo, Version
  <2>2. \A x \in Dirs : files[x] \in Nat /\ writes \in Nat /\ gitHead[x] \in Nat
    BY DEF SourcesInv, RepoInv, RepoTypes, Version
  <2>3. HistoryGrows'
    BY <1>1, <2>2 DEF SourcesInv, RepoInv, RepoTypes, HistoryGrows, Below, repo
  <2>4. RefsInv'
    BY <1>1 DEF SourcesInv, RepoInv, RefsInv, RefsFollow, repo
  <2> QED BY <2>1, <2>3, <2>4 DEF RepoInv
<1>3. RowTypes' /\ LoopTypes' /\ KnownInv' /\ ChosenInv'
  BY <1>1, KnownKept, ChosenKept DEF SourcesInv, RowTypes, LoopTypes, db, memory, loop, repo
<1>4. OpInv' /\ RangesInv' /\ PassedInv'
  BY <1>1 DEF SourcesInv, OpInv, OpShape, RangesInv, ShownOnce, PassedInv, ToldOf, CheckedHasRef, db, memory, repo
<1> QED BY <1>2, <1>3, <1>4 DEF SourcesInv

LEMMA AttentionStep == ASSUME SourcesInv, NEW a \in Attentions, NEW d \in Dirs, Attention(a, d) PROVE SourcesInv'
<1>1. /\ place[a] = NoDir /\ place' = [place EXCEPT ![a] = d]
      /\ UNCHANGED <<files, repo, taken, line, memory, op, bounds, start>>
  BY DEF Attention
<1>2. LoopTypes'
  BY RaisedTypes DEF Attention, SourcesInv
<1>3. RepoInv' /\ KnownInv' /\ RowTypes'
  BY <1>1, RepoKept, KnownKept DEF SourcesInv, RowTypes, RepoInv, RepoTypes, memory, bounds, repo
<1>4. OpInv' /\ RangesInv' /\ PassedInv'
  BY <1>1 DEF SourcesInv, OpInv, OpShape, RangesInv, ShownOnce, PassedInv, ToldOf, CheckedHasRef, memory, bounds, repo
<1>5. ChosenInv'
  <2>1. Waiting \subseteq Waiting'
    BY <1>1 DEF Waiting, SourcesInv, RowTypes
  <2> QED BY <1>1, <2>1 DEF SourcesInv, ChosenInv, AttentionInOneLine
<1> QED BY <1>2, <1>3, <1>4, <1>5 DEF SourcesInv

LEMMA WaitEndStep == ASSUME SourcesInv, NEW d \in Dirs, WaitEnds(d) PROVE SourcesInv'
<1>1. /\ wait' = [wait EXCEPT ![d] = "due"]
      /\ UNCHANGED <<files, repo, db, prepared, dirty, pending, checked, op, loop, bounds, start>>
  BY DEF WaitEnds
<1>2. RepoInv' /\ ChosenInv' /\ RowTypes' /\ LoopTypes'
  BY <1>1, RepoKept, ChosenKept DEF SourcesInv, RowTypes, LoopTypes, RepoInv, RepoTypes, db, loop, bounds, repo
<1>3. OpInv' /\ RangesInv' /\ PassedInv'
  BY <1>1 DEF SourcesInv, OpInv, OpShape, RangesInv, ShownOnce, PassedInv, ToldOf, CheckedHasRef, db, bounds, repo
<1>4. KnownInv'
  BY <1>1 DEF SourcesInv, KnownInv, MemoryTypes, Knows, Waits, repo
<1> QED BY <1>2, <1>3, <1>4 DEF SourcesInv

-----------------------------------------------------------------------------
(* The operations begin.                                                    *)

\* An operation that begins has gathered nothing.
LEMMA Begun ==
  ASSUME NEW kind \in {"prepare", "tick", "takeIn", "take"}, NEW dir \in Dirs \cup {NoDir}, NEW e \in 0..MaxEvents,
         NEW steering \in BOOLEAN, Begins(Call(kind, dir, e, steering))
  PROVE  /\ op = Idle /\ op' \in Operations
         /\ op'.kind = kind /\ op'.at = "scan" /\ op'.dir = dir /\ op'.event = e /\ op'.steering = steering
         /\ op'.todo = {} /\ op'.here = {} /\ op'.got = {}
<1>1. op = Idle /\ op' = [kind |-> kind, at |-> "scan", dir |-> dir, event |-> e, steering |-> steering,
                          todo |-> {}, here |-> {}, got |-> {}]
  BY DEF Begins, Call, Idle
<1> QED BY <1>1 DEF Operations

LEMMA PrepareStep == ASSUME SourcesInv, Prepare PROVE SourcesInv'
<1>1. ~prepared /\ UNCHANGED <<files, repo, db, prepared, dirty, loop, bounds, start>>
  BY DEF Prepare
<1>2. /\ op = Idle /\ op' \in Operations /\ op'.kind = "prepare" /\ op'.at = "scan"
      /\ op'.todo = {} /\ op'.here = {} /\ op'.got = {} /\ ~op'.steering
  <2>1. Begins(Call("prepare", NoDir, 0, FALSE))
    BY DEF Prepare
  <2> QED BY <2>1, Begun, NoEvent
<1>3. /\ checked' = {d \in Dirs : seen[d] # NoRef} /\ pending' = {d \in checked' : made /\ seen[d] # gitHead[d]}
      /\ wait' = [d \in Dirs |-> IF d \in pending' THEN "drawn" ELSE "none"]
  BY DEF Prepare
<1>4. RepoInv' /\ ChosenInv' /\ RowTypes' /\ LoopTypes'
  BY <1>1, <1>2, RepoKept, ChosenKept DEF SourcesInv, RowTypes, LoopTypes, RepoInv, RepoTypes, db, loop, bounds, repo
<1>5. KnownInv'
  <2>1. MemoryTypes'
    BY <1>1, <1>3 DEF SourcesInv, KnownInv, MemoryTypes, Waits
  <2>2. \A d \in Dirs : seen[d] # NoRef => made
    BY DEF SourcesInv, RepoInv, HistoryGrows
  <2> QED BY <1>1, <1>3, <2>1, <2>2 DEF KnownInv, repo
<1>6. OpInv'
  BY <1>1, <1>2 DEF OpInv, OpShape
<1>7. RangesInv' /\ PassedInv'
  <2>1. op.got = {}
    BY <1>2 DEF Idle
  <2>2. RangesInv'
    BY <1>1, <1>2, RangesKept, RefNumbers DEF SourcesInv, RepoInv, RepoTypes, OpInv, repo, db
  <2>3. CheckedHasRef
    BY <1>1 DEF CheckedHasRef
  <2>4. PassedInv'
    BY <1>1, <1>2, <2>1, <2>3, PassedKept DEF SourcesInv, RepoInv, repo, db, bounds
  <2> QED BY <2>2, <2>4
<1> QED BY <1>4, <1>5, <1>6, <1>7 DEF SourcesInv

\* The other operations begin once prepare() is over.
LEMMA BeginStep ==
  ASSUME SourcesInv, NEW kind \in {"tick", "takeIn", "take"}, NEW dir \in Dirs \cup {NoDir}, NEW e \in 0..MaxEvents,
         NEW steering \in BOOLEAN, prepared, Begins(Call(kind, dir, e, steering)),
         kind = "takeIn" => dir \in Dirs /\ calls' > 0, kind = "take" => e \in Events /\ line[e] = NoLine,
         calls' \in 0..MaxCalls, calls' >= calls,
         UNCHANGED <<files, repo, db, memory, loop, writes, crashes, start>>
  PROVE  SourcesInv'
<1>1. /\ op = Idle /\ op' \in Operations /\ op'.kind = kind /\ op'.at = "scan" /\ op'.dir = dir /\ op'.event = e
      /\ op'.todo = {} /\ op'.here = {} /\ op'.got = {}
  BY Begun
<1>2. RepoInv' /\ ChosenInv' /\ RowTypes' /\ LoopTypes' /\ KnownInv'
  BY <1>1, RepoKept, ChosenKept, KnownKept DEF SourcesInv, RowTypes, LoopTypes, RepoInv, RepoTypes, db, loop, repo, memory
<1>3. OpInv'
  BY <1>1 DEF OpInv, OpShape, memory, db
<1>4. RangesInv'
  BY <1>1, RangesKept, RefNumbers DEF SourcesInv, RepoInv, RepoTypes, OpInv, repo, db
<1>5. PassedInv'
  <2>1. op.got = {} /\ (CheckedHasRef' => CheckedHasRef)
    BY <1>1 DEF Idle, CheckedHasRef, memory, repo
  <2>2. calls' = 0 => calls = 0
    BY DEF SourcesInv, RepoInv, RepoTypes
  <2> QED BY <1>1, <2>1, <2>2, PassedKept DEF SourcesInv, RepoInv, repo, db
<1> QED BY <1>2, <1>3, <1>4, <1>5 DEF SourcesInv

\* An outcome without an operation.
LEMMA OnlyLoop ==
  ASSUME SourcesInv, LoopTypes', UNCHANGED <<files, repo, db, memory, op, bounds, start>>
  PROVE  SourcesInv'
<1>1. RepoInv' /\ RowTypes' /\ KnownInv' /\ ChosenInv'
  BY RepoKept, KnownKept, ChosenKept DEF SourcesInv, RepoInv, RepoTypes, RowTypes, db, memory, bounds, repo
<1>2. OpInv' /\ RangesInv' /\ PassedInv'
  BY DEF SourcesInv, OpInv, OpShape, RangesInv, ShownOnce, PassedInv, ToldOf, CheckedHasRef, db, memory, bounds, repo
<1> QED BY <1>1, <1>2 DEF SourcesInv

LEMMA TakeSteps ==
  ASSUME SourcesInv, NEW e \in Events, TakeQueued(e) \/ TakeSteering(e)
  PROVE  SourcesInv'
<1>1. PICK steering \in BOOLEAN : TakeBegins(e, steering)
  BY DEF TakeQueued, TakeSteering
<1>2. prepared /\ UNCHANGED <<files, repo, db, memory, bounds, start>>
  BY DEF TakeQueued, TakeSteering
<1>3. CASE \E ok \in BOOLEAN : op = Idle /\ op' = Idle /\ Outcome(e, steering, ok, Steerable)
  BY <1>2, <1>3, OutcomeTypes, OnlyLoop DEF SourcesInv
<1>4. CASE Begins(Call("take", NoDir, e, steering)) /\ line[e] = NoLine /\ UNCHANGED loop
  <2>1. e \in 0..MaxEvents /\ calls' \in 0..MaxCalls /\ calls' >= calls /\ UNCHANGED <<writes, crashes>>
    BY <1>2 DEF bounds, Events, SourcesInv, RepoInv, RepoTypes
  <2> QED BY <1>2, <1>4, <2>1, BeginStep
<1> QED BY <1>1, <1>3, <1>4 DEF TakeBegins

LEMMA BeginSteps == ASSUME SourcesInv, Tick \/ \E d \in Dirs : TakeIn(d) PROVE SourcesInv'
<1>1. CASE Tick
  <2>1. calls' \in 0..MaxCalls /\ calls' >= calls /\ UNCHANGED <<writes, crashes>>
    BY <1>1 DEF Tick, bounds, SourcesInv, RepoInv, RepoTypes
  <2>2. prepared /\ Begins(Call("tick", NoDir, 0, FALSE)) /\ UNCHANGED <<files, repo, db, memory, loop, start>>
    BY <1>1 DEF Tick
  <2> QED BY <2>1, <2>2, BeginStep, NoEvent
<1>2. ASSUME NEW d \in Dirs, TakeIn(d) PROVE SourcesInv'
  <2>1. calls' \in 0..MaxCalls /\ calls' >= calls /\ calls' > 0
    BY <1>2, SourcesAssumption DEF TakeIn, SourcesInv, RepoInv, RepoTypes
  <2>2. prepared /\ Begins(Call("takeIn", d, 0, FALSE)) /\ UNCHANGED <<files, repo, db, memory, loop, writes, crashes, start>>
    BY <1>2 DEF TakeIn
  <2> QED BY <2>1, <2>2, BeginStep, NoEvent
<1> QED BY <1>1, <1>2

-----------------------------------------------------------------------------
(* The operations go on.                                                    *)

Stages == {"none", "scan", "refs", "end", "commit", "place", "choose", "show"}

\* An operation that only goes on keeps what it is and what it has gathered.
LEMMA GoneOn ==
  ASSUME op \in Operations, NEW at \in Stages, Goes(at)
  PROVE  /\ op' \in Operations /\ op'.at = at /\ op'.kind = op.kind /\ op'.dir = op.dir /\ op'.event = op.event
         /\ op'.steering = op.steering /\ op'.todo = op.todo /\ op'.here = op.here /\ op'.got = op.got
BY DEF Operations, Stages, Goes

LEMMA IdleFields ==
  /\ Idle.kind = "none" /\ Idle.at = "none" /\ Idle.todo = {} /\ Idle.here = {} /\ Idle.got = {} /\ Idle.steering = FALSE
BY DEF Idle

\* Before it shows, an operation has gathered nothing.
LEMMA NothingGathered == ASSUME OpInv, op.at # "show" PROVE op.todo = {} /\ op.here = {} /\ op.got = {}
BY DEF OpInv, OpShape

\* The refs of some directories are put at the head, or the head at the work tree with them.
LEMMA RefsPut ==
  ASSUME RepoInv, made, NEW ds \in SUBSET Dirs,
         seen' = [d \in Dirs |-> IF d \in ds THEN gitHead[d] ELSE seen[d]],
         start' = [d \in Dirs |-> IF d \in ds THEN gitHead[d] ELSE start[d]],
         calls > 0 \/ \A d \in ds : seen[d] = NoRef, UNCHANGED <<files, made, gitHead, past, before, bounds>>
  PROVE  RepoInv' /\ \A d \in Dirs : seen[d] <= seen'[d]
<1>1. RepoTypes'
  BY DEF RepoInv, RepoTypes, bounds
<1>2. HistoryGrows'
  BY DEF RepoInv, HistoryGrows, Below, bounds
<1>3. \A d \in Dirs : seen[d] <= seen'[d]
  BY RefNumbers DEF RepoInv, RefsInv, RefsFollow, RepoTypes, Version, NoRef
<1>4. \A d \in Dirs : seen'[d] # seen[d] => before[d] = NoRef \/ calls > 0
  BY DEF RepoInv, RefsInv
<1>5. RefsInv'
  <2> SUFFICES ASSUME NEW d \in Dirs
               PROVE  /\ before[d] # NoRef => before[d] < seen'[d] \/ calls > 0
                      /\ seen'[d] <= gitHead[d]
                      /\ \A v \in {before[d], seen'[d]} \ {NoRef} : \E c \in past : c[d] = v
                      /\ before[d] # NoRef => seen'[d] # NoRef
    BY DEF RefsInv, RefsFollow, bounds
  <2>1. gitHead[d] \in Nat /\ gitHead[d] # NoRef
    BY DEF RepoInv, RepoTypes, Version, NoRef
  <2>2. gitHead \in past
    BY DEF RepoInv, HistoryGrows
  <2>3. CASE seen'[d] = seen[d]
    BY <2>3 DEF RepoInv, RefsInv, RefsFollow
  <2>4. CASE seen'[d] # seen[d]
    BY <1>4, <2>1, <2>2, <2>4 DEF RepoInv, RefsInv, RefsFollow
  <2> QED BY <2>3, <2>4
<1> QED BY <1>1, <1>2, <1>3, <1>5 DEF RepoInv

LEMMA HeadPut ==
  ASSUME RepoInv, NEW ds \in SUBSET Dirs, made', gitHead' = files, past' = past \cup {files},
         seen' = [d \in Dirs |-> IF d \in ds THEN files[d] ELSE seen[d]],
         start' = [d \in Dirs |-> IF d \in ds THEN files[d] ELSE start[d]],
         \A d \in ds : seen[d] = NoRef, UNCHANGED <<files, before, bounds>>
  PROVE  RepoInv' /\ \A d \in Dirs : seen[d] <= seen'[d]
<1>1. RepoTypes'
  BY DEF RepoInv, RepoTypes, bounds
<1>2. \A c \in past : Below(c, files)
  <2> SUFFICES ASSUME NEW c \in past, NEW d \in Dirs PROVE c[d] <= files[d]
    BY DEF Below
  <2>1. c[d] \in Int /\ gitHead[d] \in Int /\ files[d] \in Int
    BY DEF RepoInv, RepoTypes, Version
  <2> QED BY <2>1 DEF RepoInv, HistoryGrows, Below
<1>3. Below(files, files)
  BY DEF Below, RepoInv, RepoTypes, Version
<1>4. HistoryGrows'
  <2>1. \A c \in past' : Below(c, files)
    BY <1>2, <1>3
  <2>2. \A b, c \in past' : Below(b, c) \/ Below(c, b)
    BY <1>2, <1>3 DEF RepoInv, HistoryGrows
  <2> QED BY <1>3, <2>1, <2>2 DEF RepoInv, HistoryGrows, Below, bounds
<1>5. \A d \in Dirs : seen[d] <= seen'[d]
  BY RefNumbers DEF RepoInv, RepoTypes, Version, NoRef
<1>6. RefsInv'
  <2> SUFFICES ASSUME NEW d \in Dirs
               PROVE  /\ before[d] # NoRef => before[d] < seen'[d] \/ calls > 0
                      /\ seen'[d] <= files[d]
                      /\ \A v \in {before[d], seen'[d]} \ {NoRef} : \E c \in past' : c[d] = v
                      /\ before[d] # NoRef => seen'[d] # NoRef
    BY DEF RefsInv, RefsFollow, bounds
  <2>1. files[d] \in Nat /\ files[d] # NoRef /\ gitHead[d] \in Nat /\ gitHead[d] <= files[d] /\ seen[d] \in Int
    BY RefNumbers DEF RepoInv, RepoTypes, Version, NoRef, HistoryGrows, Below
  <2>2. CASE d \notin ds
    <3>1. seen'[d] = seen[d] /\ seen[d] <= gitHead[d] /\ (before[d] # NoRef => seen[d] # NoRef /\ (before[d] < seen[d] \/ calls > 0))
      BY <2>2 DEF RepoInv, RefsInv, RefsFollow
    <3>2. \A v \in {before[d], seen[d]} \ {NoRef} : \E c \in past' : c[d] = v
      BY DEF RepoInv, RefsInv, RefsFollow
    <3> QED BY <2>1, <3>1, <3>2
  <2>3. CASE d \in ds
    BY <2>1, <2>3 DEF RepoInv, RefsInv, RefsFollow
  <2> QED BY <2>2, <2>3
<1> QED BY <1>1, <1>4, <1>5, <1>6 DEF RepoInv

LEMMA ScanSteps == ASSUME SourcesInv, ScanStep PROVE SourcesInv'
<1>1. op.at = "scan" /\ UNCHANGED <<files, repo, db, prepared, checked, loop, bounds, start>>
  BY DEF ScanStep
<1>2. /\ op' \in Operations /\ op'.at = "refs" /\ op'.kind = op.kind /\ op'.dir = op.dir /\ op'.event = op.event
      /\ op'.steering = op.steering /\ op'.todo = op.todo /\ op'.here = op.here /\ op'.got = op.got
  BY GoneOn DEF ScanStep, Stages, SourcesInv, OpInv
<1>3. RepoInv' /\ ChosenInv' /\ RowTypes' /\ LoopTypes'
  BY <1>1, <1>2, RepoKept, ChosenKept DEF SourcesInv, RowTypes, LoopTypes, RepoInv, RepoTypes, db, loop, bounds, repo
<1>4. OpInv'
  BY <1>1, <1>2 DEF SourcesInv, OpInv, OpShape, bounds, db
<1>5. RangesInv' /\ PassedInv'
  BY <1>1, <1>2 DEF SourcesInv, RangesInv, ShownOnce, PassedInv, ToldOf, CheckedHasRef, db, bounds, repo
<1>6. KnownInv'
  <2>1. /\ dirty' = [d \in Dirs |-> IF d \in Differs THEN files[d] ELSE NoRef]
        /\ pending' = pending \cup News
        /\ wait' = [d \in Dirs |-> IF d \in News \cap checked /\ wait[d] = "none" THEN "drawn" ELSE wait[d]]
    BY DEF ScanStep, Scan, Marked
  <2>2. News \subseteq Dirs
    BY DEF News, Differs
  <2>3. MemoryTypes'
    BY <1>1, <2>1, <2>2 DEF SourcesInv, KnownInv, MemoryTypes, RepoInv, RepoTypes, Waits
  <2> QED BY <1>1, <1>2, <2>1, <2>3 DEF SourcesInv, KnownInv, MemoryTypes, Knows, repo
<1> QED BY <1>3, <1>4, <1>5, <1>6 DEF SourcesInv

LEMMA PrepareRefsStep == ASSUME SourcesInv, PrepareRefs PROVE SourcesInv'
<1> DEFINE there == made \/ Differs # {}
           fresh == {d \in Dirs \ checked : there /\ files[d] # 0}
           changed == IF made THEN Differs ELSE {}
<1>1. /\ op.at = "refs" /\ op.kind = "prepare" /\ prepared' = TRUE /\ op' = Idle
      /\ made' = there /\ gitHead' = (IF there THEN files ELSE gitHead)
      /\ past' = (IF there THEN past \cup {files} ELSE past)
      /\ seen' = [d \in Dirs |-> IF d \in fresh THEN files[d] ELSE seen[d]]
      /\ start' = [d \in Dirs |-> IF d \in fresh THEN files[d] ELSE start[d]]
      /\ checked' = checked \cup fresh /\ pending' = (pending \cup changed) \ fresh
      /\ wait' = [d \in Dirs |-> IF d \in fresh THEN "none"
                                 ELSE IF d \in changed \cap checked /\ wait[d] = "none" THEN "drawn" ELSE wait[d]]
      /\ UNCHANGED <<files, before, db, dirty, loop, bounds>>
  BY DEF PrepareRefs
<1>2. fresh \in SUBSET Dirs /\ changed \subseteq Dirs /\ there \in BOOLEAN
  BY DEF Differs, SourcesInv, RepoInv, RepoTypes
<1>3. \A d \in fresh : seen[d] = NoRef
  BY <1>1 DEF SourcesInv, KnownInv, Knows
<1>4. ~prepared /\ op.got = {} /\ op.here = {}
  BY <1>1 DEF SourcesInv, OpInv, OpShape
<1>5. RepoInv' /\ \A d \in Dirs : seen[d] <= seen'[d]
  <2>1. CASE there
    <3> HIDE DEF there, fresh, changed
    <3> QED BY <1>1, <1>2, <1>3, <2>1, HeadPut DEF SourcesInv
  <2>2. CASE ~there
    <3>1. fresh = {} /\ ~made
      BY <2>2
    <3>2. UNCHANGED <<files, repo, start, bounds>>
      BY <1>1, <2>2, <3>1 DEF repo, SourcesInv, RepoInv, RepoTypes
    <3> QED BY <3>2, RepoKept, RefNumbers DEF SourcesInv, RepoInv, RepoTypes, bounds, repo
  <2> QED BY <2>1, <2>2
<1>6. RowTypes' /\ LoopTypes' /\ ChosenInv'
  BY <1>1, IdleFields, ChosenKept DEF SourcesInv, RowTypes, LoopTypes, db, loop
<1>7. KnownInv'
  <2>1. MemoryTypes'
    BY <1>1, <1>2 DEF SourcesInv, KnownInv, MemoryTypes, Waits
  <2>2. \A d \in Dirs : seen'[d] # NoRef => d \in checked'
    BY <1>1 DEF SourcesInv, KnownInv, Knows
  <2>3. ASSUME NEW d \in checked', seen'[d] # NoRef, seen'[d] # gitHead'[d] PROVE d \in pending' /\ wait'[d] # "none"
    <3>1. d \in Dirs
      BY <2>1 DEF MemoryTypes
    <3>2. CASE d \in fresh
      BY <1>1, <2>3, <3>1, <3>2
    <3>3. CASE d \notin fresh
      <4>1. seen'[d] = seen[d] /\ d \in checked /\ seen[d] # NoRef
        BY <1>1, <2>3, <3>1, <3>3
      <4>2. made
        BY <3>1, <4>1 DEF SourcesInv, RepoInv, HistoryGrows
      <4>3. gitHead' = files /\ changed = Differs
        BY <1>1, <4>2
      <4>4. CASE d \in Differs
        BY <1>1, <3>1, <3>3, <4>1, <4>3, <4>4
      <4>5. CASE d \notin Differs
        <5>1. seen[d] # gitHead[d]
          BY <2>3, <3>1, <4>1, <4>3, <4>5 DEF Differs
        <5>2. d \in pending /\ wait[d] # "none"
          BY <1>1, <4>1, <5>1 DEF SourcesInv, KnownInv, Knows
        <5> QED BY <1>1, <3>1, <3>3, <4>3, <4>5, <5>2
      <4> QED BY <4>4, <4>5
    <3> QED BY <3>2, <3>3
  <2> QED BY <2>1, <2>2, <2>3 DEF KnownInv
<1>8. OpInv'
  BY <1>1, IdleIsOp, IdleFields DEF OpInv, OpShape
<1>9. RangesInv'
  BY <1>1, <1>5, IdleFields, RangesKept DEF SourcesInv, RepoInv, RepoTypes, OpInv, db
<1>10. PassedInv'
  <2>1. CheckedHasRef
    BY <1>4 DEF CheckedHasRef
  <2>2. \A d \in Dirs : \/ seen'[d] = seen[d] /\ start'[d] = start[d]
                        \/ seen'[d] = start'[d] /\ start'[d] \in Version
    BY <1>1 DEF SourcesInv, RepoInv, RepoTypes
  <2> HIDE DEF fresh, there, changed
  <2> QED BY <1>1, <1>4, <2>1, <2>2, IdleFields, PassedKept DEF SourcesInv, RepoInv, db, bounds
<1> QED BY <1>5, <1>6, <1>7, <1>8, <1>9, <1>10 DEF SourcesInv

LEMMA NewRefsStep == ASSUME SourcesInv, RefsStep PROVE SourcesInv'
<1> DEFINE fresh == pending \ checked
<1>1. /\ op.at = "refs" /\ op.kind # "prepare" /\ Goes(IF op.kind = "tick" THEN "end" ELSE "commit")
      /\ checked' = checked \cup fresh
      /\ UNCHANGED <<files, db, loop, bounds, before, dirty, prepared>>
  BY DEF RefsStep, TakeInNew
<1>2. /\ op' \in Operations /\ op'.at = (IF op.kind = "tick" THEN "end" ELSE "commit") /\ op'.kind = op.kind
      /\ op'.dir = op.dir /\ op'.event = op.event
      /\ op'.steering = op.steering /\ op'.todo = op.todo /\ op'.here = op.here /\ op'.got = op.got
  BY <1>1, GoneOn DEF Stages, SourcesInv, OpInv
<1>3. prepared /\ fresh \in SUBSET Dirs /\ checked \subseteq Dirs /\ pending \subseteq Dirs
  BY <1>1 DEF SourcesInv, OpInv, OpShape, KnownInv, MemoryTypes
<1>4. \A d \in fresh : seen[d] = NoRef
  BY <1>3 DEF SourcesInv, KnownInv, Knows
<1>5. \/ fresh = {} /\ UNCHANGED <<made, gitHead, past, seen, start, pending, wait>>
      \/ made /\ NewRefs(fresh)
      \/ ~made /\ FirstRefs(fresh)
  BY DEF RefsStep, TakeInNew
<1>6. /\ RepoInv' /\ \A d \in Dirs : seen[d] <= seen'[d]
      /\ \A d \in Dirs \ fresh : seen'[d] = seen[d] /\ start'[d] = start[d]
      /\ \A d \in fresh : seen'[d] = start'[d] /\ start'[d] \in Version /\ seen'[d] = gitHead'[d]
  <2>1. CASE fresh = {} /\ UNCHANGED <<made, gitHead, past, seen, start, pending, wait>>
    BY <1>1, <2>1, RepoKept, RefNumbers DEF SourcesInv, RepoInv, RepoTypes, repo, bounds
  <2>2. CASE made /\ NewRefs(fresh)
    <3> HIDE DEF fresh
    <3>1. /\ seen' = [d \in Dirs |-> IF d \in fresh THEN gitHead[d] ELSE seen[d]]
          /\ start' = [d \in Dirs |-> IF d \in fresh THEN gitHead[d] ELSE start[d]]
          /\ UNCHANGED <<made, gitHead, past>>
      BY <2>2 DEF NewRefs
    <3>2. RepoInv' /\ \A d \in Dirs : seen[d] <= seen'[d]
      BY <1>1, <1>3, <1>4, <2>2, <3>1, RefsPut DEF SourcesInv
    <3> QED BY <1>3, <3>1, <3>2 DEF SourcesInv, RepoInv, RepoTypes
  <2>3. CASE ~made /\ FirstRefs(fresh)
    <3> HIDE DEF fresh
    <3>1. /\ made' /\ gitHead' = files /\ past' = past \cup {files}
          /\ seen' = [d \in Dirs |-> IF d \in fresh THEN files[d] ELSE seen[d]]
          /\ start' = [d \in Dirs |-> IF d \in fresh THEN files[d] ELSE start[d]]
      BY <2>3 DEF FirstRefs, SourcesInv, RepoInv, HistoryGrows
    <3>2. RepoInv' /\ \A d \in Dirs : seen[d] <= seen'[d]
      BY <1>1, <1>3, <1>4, <3>1, HeadPut DEF SourcesInv
    <3> QED BY <1>3, <3>1, <3>2 DEF SourcesInv, RepoInv, RepoTypes
  <2> QED BY <1>5, <2>1, <2>2, <2>3
<1>7. RowTypes' /\ LoopTypes' /\ ChosenInv'
  BY <1>1, <1>2, ChosenKept DEF SourcesInv, RowTypes, LoopTypes, db, loop
<1>8. OpInv'
  BY <1>1, <1>2, <1>3 DEF SourcesInv, OpInv, OpShape, db, bounds
<1>9. RangesInv'
  BY <1>1, <1>2, <1>6, RangesKept DEF SourcesInv, RepoInv, RepoTypes, OpInv, db
<1>10. PassedInv'
  <2>1. CheckedHasRef' => CheckedHasRef
    BY <1>1, <1>3, <1>6 DEF CheckedHasRef
  <2> HIDE DEF fresh
  <2> QED BY <1>1, <1>2, <1>6, <2>1, PassedKept DEF SourcesInv, RepoInv, db, bounds
<1>11. KnownInv'
  <2>1. \A d \in Dirs : seen'[d] # NoRef => d \in checked'
    BY <1>1, <1>3, <1>6 DEF SourcesInv, KnownInv, Knows
  <2>2. MemoryTypes' /\ \A d \in checked : seen'[d] # NoRef /\ seen'[d] # gitHead'[d] => d \in pending' /\ wait'[d] # "none"
    <3>1. CASE fresh = {} /\ UNCHANGED <<made, gitHead, past, seen, start, pending, wait>>
      BY <1>1, <1>3, <3>1 DEF SourcesInv, KnownInv, MemoryTypes, Knows
    <3>2. CASE made /\ NewRefs(fresh)
      <4>1. /\ pending' = pending \cup fresh /\ gitHead' = gitHead
            /\ wait' = [d \in Dirs |-> IF d \in fresh \cap (checked \cup fresh) /\ wait[d] = "none" THEN "drawn" ELSE wait[d]]
        BY <3>2 DEF NewRefs, Marked
      <4>2. MemoryTypes'
        BY <1>1, <1>3, <4>1 DEF SourcesInv, KnownInv, MemoryTypes, Waits
      <4>3. ASSUME NEW d \in checked, seen'[d] # NoRef, seen'[d] # gitHead'[d] PROVE d \in pending' /\ wait'[d] # "none"
        BY <1>3, <1>6, <4>1, <4>3 DEF SourcesInv, KnownInv, MemoryTypes, Knows
      <4> QED BY <4>2, <4>3
    <3>3. CASE ~made /\ FirstRefs(fresh)
      <4>1. /\ pending' = pending \ fresh
            /\ wait' = [d \in Dirs |-> IF d \in fresh THEN "none" ELSE wait[d]]
        BY <3>3 DEF FirstRefs, Dropped
      <4>2. MemoryTypes'
        BY <1>1, <1>3, <4>1 DEF SourcesInv, KnownInv, MemoryTypes, Waits
      <4>3. \A d \in checked : seen'[d] = NoRef
        BY <1>3, <1>6, <3>3 DEF SourcesInv, RepoInv, HistoryGrows
      <4> QED BY <4>2, <4>3
    <3> QED BY <1>5, <3>1, <3>2, <3>3
  <2> QED BY <1>1, <1>3, <1>6, <2>1, <2>2 DEF KnownInv
<1> QED BY <1>6, <1>7, <1>8, <1>9, <1>10, <1>11 DEF SourcesInv

\* What is cut off is older than every ref that is left.
LEMMA CutKeeps ==
  ASSUME RepoInv, NEW base \in past, Cut(base), UNCHANGED <<files, made, gitHead, start, writes, crashes>>,
         calls' \in 0..MaxCalls, calls' > 0
  PROVE  /\ RepoInv' /\ \A d \in Dirs : seen[d] <= seen'[d]
         /\ \A d \in Dirs : seen'[d] = NoRef <=> seen[d] = NoRef
         /\ \A d \in Dirs : seen'[d] # gitHead[d] => seen[d] # gitHead[d]
<1>1. /\ past' = {c \in past : Below(base, c)}
      /\ seen' = [d \in Dirs |-> IF seen[d] = NoRef THEN NoRef ELSE Max({seen[d], base[d]})]
      /\ before' = [d \in Dirs |-> IF before[d] = NoRef THEN NoRef ELSE Max({before[d], base[d]})]
  <2>1. \A c \in past : (\A d \in Dirs : c[d] >= base[d]) <=> Below(base, c)
    BY DEF Below, RepoInv, RepoTypes, Version
  <2> QED BY <2>1 DEF Cut
<1>2. \A d \in Dirs : base[d] \in Version /\ base[d] \in Nat /\ base[d] <= gitHead[d] /\ gitHead[d] \in Nat
  BY DEF RepoInv, RepoTypes, HistoryGrows, Below, Version
<1>3. ASSUME NEW d \in Dirs, NEW ref \in [Dirs -> Version \cup {NoRef}], ref[d] # NoRef
      PROVE  Max({ref[d], base[d]}) = IF ref[d] >= base[d] THEN ref[d] ELSE base[d]
  <2>1. ref[d] \in Int /\ base[d] \in Int
    BY <1>2, RefNumbers
  <2> QED BY <2>1, LaterOfTwo
<1>4. \A d \in Dirs : /\ seen'[d] = IF seen[d] = NoRef THEN NoRef ELSE IF seen[d] >= base[d] THEN seen[d] ELSE base[d]
                      /\ before'[d] = IF before[d] = NoRef THEN NoRef ELSE IF before[d] >= base[d] THEN before[d] ELSE base[d]
  BY <1>1, <1>3 DEF RepoInv, RepoTypes
<1>5. \A d \in Dirs : /\ seen[d] \in Version \cup {NoRef} /\ before[d] \in Version \cup {NoRef}
                      /\ seen[d] \in Int /\ before[d] \in Int /\ seen[d] <= gitHead[d]
  BY RefNumbers DEF RepoInv, RepoTypes, RefsInv, RefsFollow
<1>6. \A d \in Dirs : /\ seen'[d] \in Version \cup {NoRef} /\ before'[d] \in Version \cup {NoRef}
                      /\ seen[d] <= seen'[d] /\ seen'[d] <= gitHead[d]
                      /\ (seen'[d] = NoRef <=> seen[d] = NoRef) /\ (before'[d] = NoRef <=> before[d] = NoRef)
                      /\ seen'[d] # gitHead[d] => seen[d] # gitHead[d]
  BY <1>2, <1>4, <1>5 DEF NoRef
<1>7. RepoTypes'
  BY <1>1, <1>6 DEF RepoInv, RepoTypes
<1>8. HistoryGrows'
  <2>1. made => gitHead \in past'
    BY <1>1 DEF RepoInv, HistoryGrows
  <2>2. past' \subseteq past /\ past # {}
    BY <1>1
  <2> QED BY <2>1, <2>2 DEF RepoInv, HistoryGrows, Below
\* A commit with a ref that is left is not behind the base, whatever the directory of the ref.
<1>9. ASSUME NEW d \in Dirs, NEW c \in past, c[d] > base[d] PROVE c \in past'
  <2>1. ~Below(c, base)
    <3>1. c[d] \in Int /\ base[d] \in Int
      BY <1>2 DEF RepoInv, RepoTypes, Version
    <3> QED BY <1>9, <3>1 DEF Below
  <2> QED BY <1>1, <2>1 DEF RepoInv, HistoryGrows
<1>10. base \in past'
  <2>1. Below(base, base)
    BY <1>2 DEF Below
  <2> QED BY <1>1, <2>1
<1>11. ASSUME NEW d \in Dirs, NEW v, NEW w \in Int, \E c \in past : c[d] = w, v = IF w >= base[d] THEN w ELSE base[d]
       PROVE  \E c \in past' : c[d] = v
  <2>1. CASE w > base[d]
    BY <1>2, <1>9, <1>11, <2>1
  <2>2. CASE ~(w > base[d])
    <3>1. v = base[d]
      BY <1>2, <1>11, <2>2
    <3> QED BY <1>10, <3>1
  <2> QED BY <2>1, <2>2
<1>12. RefsInv'
  <2> SUFFICES ASSUME NEW d \in Dirs
               PROVE  /\ \A v \in {before'[d], seen'[d]} \ {NoRef} : \E c \in past' : c[d] = v
                      /\ before'[d] # NoRef => seen'[d] # NoRef
    BY <1>6 DEF RefsInv, RefsFollow
  <2>1. before'[d] # NoRef => \E c \in past' : c[d] = before'[d]
    <3>1. before[d] # NoRef => \E c \in past : c[d] = before[d]
      BY DEF RepoInv, RefsInv, RefsFollow
    <3> QED BY <1>4, <1>5, <1>11, <3>1
  <2>2. seen'[d] # NoRef => \E c \in past' : c[d] = seen'[d]
    <3>1. seen[d] # NoRef => \E c \in past : c[d] = seen[d]
      BY DEF RepoInv, RefsInv, RefsFollow
    <3> QED BY <1>4, <1>5, <1>11, <3>1
  <2>3. before'[d] # NoRef => seen'[d] # NoRef
    BY <1>6 DEF RepoInv, RefsInv
  <2> QED BY <2>1, <2>2, <2>3
<1> QED BY <1>6, <1>7, <1>8, <1>12 DEF RepoInv

LEMMA TickEndStep == ASSUME SourcesInv, NEW night \in BOOLEAN, TickEnds(night) PROVE SourcesInv'
<1>1. op.at = "end" /\ op' = Idle /\ UNCHANGED <<files, made, gitHead, db, memory, writes, crashes, start>>
  BY DEF TickEnds
<1>2. op.kind = "tick" /\ op.got = {} /\ op.here = {} /\ prepared
  BY <1>1 DEF SourcesInv, OpInv, OpShape
<1>3. LoopTypes'
  <2>1. CASE Raised(Steerable)
    BY <2>1, RaisedTypes DEF SourcesInv
  <2>2. CASE UNCHANGED loop
    BY <2>2 DEF SourcesInv, LoopTypes, loop
  <2> QED BY <2>1, <2>2 DEF TickEnds
<1>4. \/ UNCHANGED <<past, seen, before, calls>>
      \/ calls' \in 0..MaxCalls /\ calls' > 0 /\ \E base \in past : Cut(base)
  BY SourcesAssumption DEF TickEnds, SourcesInv, RepoInv, RepoTypes
<1>5. /\ RepoInv' /\ \A d \in Dirs : seen[d] <= seen'[d]
      /\ \A d \in Dirs : seen'[d] = NoRef <=> seen[d] = NoRef
      /\ \A d \in Dirs : seen'[d] # gitHead[d] => seen[d] # gitHead[d]
  <2>1. CASE UNCHANGED <<past, seen, before, calls>>
    BY <1>1, <2>1, RepoKept, RefNumbers DEF SourcesInv, RepoInv, RepoTypes, repo
  <2>2. CASE calls' \in 0..MaxCalls /\ calls' > 0 /\ \E base \in past : Cut(base)
    BY <1>1, <2>2, CutKeeps DEF SourcesInv
  <2> QED BY <1>4, <2>1, <2>2
<1>6. RowTypes' /\ ChosenInv'
  BY <1>1, IdleFields, ChosenKept DEF SourcesInv, RowTypes, db
<1>7. OpInv'
  BY <1>1, IdleIsOp, IdleFields DEF OpInv, OpShape
<1>8. RangesInv'
  BY <1>1, <1>5, IdleFields, RangesKept DEF SourcesInv, RepoInv, RepoTypes, OpInv, db
<1>9. PassedInv'
  <2>1. CASE UNCHANGED <<past, seen, before, calls>>
    <3>1. CheckedHasRef' => CheckedHasRef
      BY <1>1, <2>1 DEF CheckedHasRef, memory
    <3> QED BY <1>1, <1>2, <2>1, <3>1, IdleFields, PassedKept DEF SourcesInv, RepoInv, db
  <2>2. CASE calls' \in 0..MaxCalls /\ calls' > 0
    BY <2>2 DEF PassedInv
  <2> QED BY <1>4, <2>1, <2>2
<1>10. KnownInv'
  <2>1. MemoryTypes'
    BY <1>1 DEF SourcesInv, KnownInv, MemoryTypes, memory
  <2>2. checked \subseteq Dirs
    BY DEF SourcesInv, KnownInv, MemoryTypes
  <2> QED BY <1>1, <1>2, <1>5, <2>1, <2>2 DEF SourcesInv, KnownInv, Knows, memory
<1> QED BY <1>3, <1>5, <1>6, <1>7, <1>8, <1>9, <1>10 DEF SourcesInv

LEMMA CommitSteps == ASSUME SourcesInv, CommitStep PROVE SourcesInv'
<1>1. /\ op.at = "commit" /\ UNCHANGED <<files, seen, before, db, prepared, dirty, checked, bounds, start>>
      /\ Commit(checked)
  BY DEF CommitStep
<1>2. op.kind \in {"takeIn", "take"} /\ op.got = {} /\ op.here = {} /\ op.todo = {} /\ prepared /\ op \in Operations
  BY <1>1 DEF SourcesInv, OpInv, OpShape
<1>3. \/ made' /\ gitHead' = files /\ past' = past \cup {files}
      \/ ~made /\ Differs = {} /\ UNCHANGED <<gitHead, past, made>>
  BY <1>1 DEF Commit
<1>4. RepoInv'
  <2>1. CASE made' /\ gitHead' = files /\ past' = past \cup {files}
    <3>1. /\ seen' = [d \in Dirs |-> IF d \in {} THEN files[d] ELSE seen[d]]
          /\ start' = [d \in Dirs |-> IF d \in {} THEN files[d] ELSE start[d]]
      BY <1>1 DEF SourcesInv, RepoInv, RepoTypes
    <3> DEFINE ds == {}
    <3>2. /\ seen' = [d \in Dirs |-> IF d \in ds THEN files[d] ELSE seen[d]]
          /\ start' = [d \in Dirs |-> IF d \in ds THEN files[d] ELSE start[d]]
          /\ ds \in SUBSET Dirs /\ \A d \in ds : seen[d] = NoRef
      BY <3>1
    <3> HIDE DEF ds
    <3> QED BY <1>1, <2>1, <3>2, HeadPut DEF SourcesInv
  <2>2. CASE UNCHANGED <<gitHead, past, made>>
    BY <1>1, <2>2, RepoKept DEF SourcesInv, RepoInv, RepoTypes, repo, bounds
  <2> QED BY <1>3, <2>1, <2>2
<1>5. /\ op' \in Operations /\ op'.got = {} /\ op'.here = {} /\ op'.todo = {} /\ LoopTypes' /\ OpInv'
  <2>1. CASE made'
    <3>1. Goes(IF op.kind = "take" THEN "choose" ELSE "place") /\ UNCHANGED loop
      BY <2>1 DEF CommitStep
    <3>2. /\ op' \in Operations /\ op'.at = (IF op.kind = "take" THEN "choose" ELSE "place") /\ op'.kind = op.kind
          /\ op'.dir = op.dir /\ op'.event = op.event
          /\ op'.steering = op.steering /\ op'.todo = op.todo /\ op'.here = op.here /\ op'.got = op.got
      BY <1>2, <3>1, GoneOn DEF Stages
    <3> QED BY <1>1, <1>2, <2>1, <3>1, <3>2 DEF SourcesInv, LoopTypes, OpInv, OpShape, loop, db, bounds
  <2>2. CASE ~made'
    <3>1. op' = Idle /\ IF op.kind = "take" THEN Outcome(op.event, op.steering, FALSE, Steerable) ELSE UNCHANGED loop
      BY <2>2 DEF CommitStep
    <3>2. LoopTypes'
      <4>1. CASE op.kind = "take"
        <5>1. op.steering \in BOOLEAN
          BY <1>2 DEF Operations
        <5> QED BY <3>1, <4>1, <5>1, OutcomeTypes DEF SourcesInv
      <4>2. CASE op.kind # "take"
        BY <3>1, <4>2 DEF SourcesInv, LoopTypes, loop
      <4> QED BY <4>1, <4>2
    <3> QED BY <3>1, <3>2, IdleIsOp, IdleFields DEF OpInv, OpShape
  <2> QED BY <2>1, <2>2
<1>6. RowTypes' /\ ChosenInv'
  BY <1>1, <1>5, ChosenKept DEF SourcesInv, RowTypes, db
<1>7. RangesInv'
  BY <1>1, <1>2, <1>5, RangesKept, RefNumbers DEF SourcesInv, RepoInv, RepoTypes, db
<1>8. PassedInv'
  <2>1. CheckedHasRef' => CheckedHasRef
    BY <1>1 DEF CheckedHasRef
  <2> QED BY <1>1, <1>2, <1>5, <2>1, PassedKept DEF SourcesInv, RepoInv, db, bounds
<1>9. KnownInv'
  <2> DEFINE changed == IF made THEN Differs ELSE {}
  <2>1. /\ pending' = pending \cup changed
        /\ wait' = [d \in Dirs |-> IF d \in changed \cap checked /\ wait[d] = "none" THEN "drawn" ELSE wait[d]]
    BY <1>1 DEF Commit, Marked
  <2>2. MemoryTypes'
    BY <1>1, <2>1 DEF SourcesInv, KnownInv, MemoryTypes, Waits, Differs
  <2>3. ASSUME NEW d \in checked, seen[d] # NoRef, seen[d] # gitHead'[d] PROVE d \in pending' /\ wait'[d] # "none"
    <3>1. d \in Dirs
      BY DEF SourcesInv, KnownInv, MemoryTypes
    <3>2. made
      BY <2>3, <3>1 DEF SourcesInv, RepoInv, HistoryGrows
    <3>3. gitHead' = files /\ changed = Differs
      BY <1>3, <3>2
    <3>4. CASE d \in Differs
      BY <2>1, <3>1, <3>3, <3>4
    <3>5. CASE d \notin Differs
      <4>1. seen[d] # gitHead[d]
        BY <2>3, <3>1, <3>3, <3>5 DEF Differs
      <4>2. d \in pending /\ wait[d] # "none"
        BY <1>2, <2>3, <4>1 DEF SourcesInv, KnownInv, Knows
      <4> QED BY <2>1, <3>1, <3>3, <3>5, <4>2
    <3> QED BY <3>4, <3>5
  <2>4. \A d \in Dirs : seen[d] # NoRef => d \in checked
    BY <1>2 DEF SourcesInv, KnownInv, Knows
  <2> QED BY <1>1, <2>2, <2>3, <2>4 DEF KnownInv
<1> QED BY <1>4, <1>5, <1>6, <1>7, <1>8, <1>9 DEF SourcesInv

LEMMA PlaceSteps == ASSUME SourcesInv, PlaceStep PROVE SourcesInv'
<1>1. /\ op.at = "place" /\ op' = Idle
      /\ seen' = [seen EXCEPT ![op.dir] = gitHead[op.dir]] /\ start' = [start EXCEPT ![op.dir] = gitHead[op.dir]]
      /\ checked' = checked \cup {op.dir} /\ pending' = pending \ {op.dir}
      /\ wait' = [d \in Dirs |-> IF d \in {op.dir} THEN "none" ELSE wait[d]]
      /\ UNCHANGED <<files, made, gitHead, past, before, db, prepared, dirty, loop, bounds>>
  BY DEF PlaceStep, Dropped
<1>2. op.kind = "takeIn" /\ made /\ op.dir \in Dirs /\ calls > 0 /\ prepared
  BY <1>1 DEF SourcesInv, OpInv, OpShape
<1>3. /\ seen' = [d \in Dirs |-> IF d \in {op.dir} THEN gitHead[d] ELSE seen[d]]
      /\ start' = [d \in Dirs |-> IF d \in {op.dir} THEN gitHead[d] ELSE start[d]]
  BY <1>1, <1>2 DEF SourcesInv, RepoInv, RepoTypes
<1>4. RepoInv' /\ \A d \in Dirs : seen[d] <= seen'[d]
  <2>1. {op.dir} \in SUBSET Dirs
    BY <1>2
  <2> QED BY <1>1, <1>2, <1>3, <2>1, RefsPut DEF SourcesInv
<1>5. RowTypes' /\ LoopTypes' /\ ChosenInv'
  BY <1>1, IdleFields, ChosenKept DEF SourcesInv, RowTypes, LoopTypes, db, loop
<1>6. OpInv'
  BY <1>1, IdleIsOp, IdleFields DEF OpInv, OpShape
<1>7. RangesInv'
  BY <1>1, <1>4, IdleFields, RangesKept DEF SourcesInv, RepoInv, RepoTypes, OpInv, db
<1>8. PassedInv'
  <2>1. ~(calls' = 0)
    BY <1>1, <1>2 DEF bounds, SourcesInv, RepoInv, RepoTypes
  <2> QED BY <2>1 DEF PassedInv
<1>9. KnownInv'
  <2>1. MemoryTypes'
    BY <1>1, <1>2 DEF SourcesInv, KnownInv, MemoryTypes, Waits
  <2> QED BY <1>1, <1>2, <1>3, <2>1 DEF SourcesInv, KnownInv, MemoryTypes, Knows
<1> QED BY <1>4, <1>5, <1>6, <1>7, <1>8, <1>9 DEF SourcesInv

LEMMA ChooseStep == ASSUME SourcesInv, NEW night \in BOOLEAN, Choose(night) PROVE SourcesInv'
<1>1. op.at = "choose" /\ UNCHANGED <<files, repo, db, memory, loop, bounds, start>>
  BY DEF Choose
<1>2. op.kind = "take" /\ op.got = {} /\ op \in Operations
  BY <1>1 DEF SourcesInv, OpInv, OpShape
<1>3. PICK near \in SUBSET (pending \cap checked) :
        op' = [op EXCEPT !.at = "show", !.here = ChosenHere,
                 !.todo = {place[a] : a \in ChosenHere} \cup (IF ~op.steering /\ night /\ Due # {} THEN Due \cup near ELSE {})]
  BY DEF Choose
<1>4. /\ ChosenHere \subseteq Waiting /\ (op.steering => ChosenHere \cap Pictured = {})
      /\ Waiting \subseteq Attentions /\ \A a \in Waiting : place[a] \in Dirs
  BY DEF ChosenHere, Steerable, Waiting, SourcesInv, RowTypes
<1>5. Due \subseteq Dirs /\ near \subseteq Dirs
  BY DEF Due, SourcesInv, KnownInv, MemoryTypes
<1> DEFINE where == {place[a] : a \in ChosenHere} \cup (IF ~op.steering /\ night /\ Due # {} THEN Due \cup near ELSE {})
<1>6. where \in SUBSET Dirs
  BY <1>4, <1>5
<1>7. op' = [op EXCEPT !.at = "show", !.here = ChosenHere, !.todo = where]
  BY <1>3
<1> HIDE DEF where
<1>8. /\ op' \in Operations /\ op'.at = "show" /\ op'.kind = op.kind /\ op'.event = op.event /\ op'.dir = op.dir
      /\ op'.steering = op.steering /\ op'.here = ChosenHere /\ op'.got = {}
  BY <1>2, <1>4, <1>6, <1>7 DEF Operations
<1>9. RepoInv' /\ RowTypes' /\ LoopTypes' /\ KnownInv'
  BY <1>1, <1>8, RepoKept, KnownKept DEF SourcesInv, RowTypes, LoopTypes, RepoInv, RepoTypes, db, loop, bounds, repo, memory
<1>10. OpInv'
  BY <1>1, <1>2, <1>8 DEF SourcesInv, OpInv, OpShape, db, memory
<1>11. RangesInv'
  BY <1>1, <1>2, <1>8, RangesKept, RefNumbers DEF SourcesInv, RepoInv, RepoTypes, db, repo
<1>12. ChosenInv'
  BY <1>1, <1>4, <1>8 DEF SourcesInv, ChosenInv, AttentionInOneLine, Waiting, db
<1>13. PassedInv'
  <2>1. CheckedHasRef' => CheckedHasRef
    BY <1>1 DEF CheckedHasRef, memory, repo
  <2> QED BY <1>1, <1>2, <1>8, <2>1, PassedKept DEF SourcesInv, RepoInv, db, bounds, repo
<1> QED BY <1>9, <1>10, <1>11, <1>12, <1>13 DEF SourcesInv

LEMMA ShowStep == ASSUME SourcesInv, NEW d \in Dirs, Show(d) PROVE SourcesInv'
<1> DEFINE r == <<d, seen[d], gitHead[d]>>
<1>1. /\ op.at = "show" /\ d \in op.todo /\ ~Unreadable(d) /\ pending' = pending \ {d}
      /\ wait' = [x \in Dirs |-> IF x \in {d} THEN "none" ELSE wait[x]]
      /\ checked' = IF Changed(d) \/ \E a \in op.here : place[a] = d THEN checked \cup {d} ELSE checked
      /\ UNCHANGED <<files, made, gitHead, past, db, prepared, dirty, loop, bounds, start>>
  BY DEF Show, Dropped
<1>2. op.kind = "take" /\ op \in Operations /\ prepared /\ op.todo \subseteq Dirs
  BY <1>1 DEF SourcesInv, OpInv, OpShape, Operations
<1>3. \/ /\ Changed(d) /\ op' = [op EXCEPT !.todo = @ \ {d}, !.got = @ \cup {r}]
         /\ before' = [before EXCEPT ![d] = seen[d]] /\ seen' = [seen EXCEPT ![d] = gitHead[d]]
      \/ ~Changed(d) /\ UNCHANGED <<seen, before>> /\ op' = [op EXCEPT !.todo = @ \ {d}]
  BY DEF Show, MoveRefs
<1>4. Changed(d) => /\ d \in checked /\ seen[d] # NoRef /\ seen[d] \in Version /\ gitHead[d] \in Version
                    /\ seen[d] \in Int /\ gitHead[d] \in Int /\ seen[d] < gitHead[d] /\ made /\ r \in Ranges
  <2> SUFFICES ASSUME Changed(d) PROVE /\ d \in checked /\ seen[d] # NoRef /\ seen[d] \in Version /\ gitHead[d] \in Version
                    /\ seen[d] \in Int /\ gitHead[d] \in Int /\ seen[d] < gitHead[d] /\ made /\ r \in Ranges
    OBVIOUS
  <2>1. d \in checked /\ seen[d] # NoRef /\ seen[d] # gitHead[d]
    BY <1>1 DEF Changed, Unreadable
  <2>2. seen[d] \in Version /\ gitHead[d] \in Version /\ seen[d] \in Int /\ gitHead[d] \in Int /\ seen[d] <= gitHead[d]
    BY <2>1, RefNumbers DEF SourcesInv, RepoInv, RepoTypes, RefsInv, RefsFollow, Version
  <2>3. made
    BY <2>1 DEF SourcesInv, RepoInv, HistoryGrows
  <2> QED BY <2>1, <2>2, <2>3 DEF Ranges
<1>5. /\ op' \in Operations /\ op'.at = "show" /\ op'.kind = op.kind /\ op'.event = op.event /\ op'.dir = op.dir
      /\ op'.steering = op.steering /\ op'.here = op.here /\ op'.todo = op.todo \ {d}
      /\ op'.got = IF Changed(d) THEN op.got \cup {r} ELSE op.got
  <2>1. CASE Changed(d)
    <3>1. r \in Ranges /\ op' = [op EXCEPT !.todo = @ \ {d}, !.got = @ \cup {r}]
      BY <1>3, <1>4, <2>1
    <3> HIDE DEF r
    <3> QED BY <1>1, <1>2, <2>1, <3>1 DEF Operations
  <2>2. CASE ~Changed(d)
    BY <1>1, <1>2, <1>3, <2>2 DEF Operations
  <2> QED BY <2>1, <2>2
<1> HIDE DEF r
<1>6. RepoInv' /\ (\A x \in Dirs : seen[x] <= seen'[x])
  <2>1. CASE Changed(d)
    <3>1. RepoTypes'
      BY <1>1, <1>3, <1>4, <2>1 DEF SourcesInv, RepoInv, RepoTypes, bounds
    <3>2. HistoryGrows'
      BY <1>1, <1>4, <2>1 DEF SourcesInv, RepoInv, HistoryGrows, Below, bounds
    <3>3. \A x \in Dirs : seen[x] <= seen'[x]
      BY <1>3, <1>4, <2>1, RefNumbers DEF SourcesInv, RepoInv, RepoTypes
    <3>4. RefsInv'
      <4> SUFFICES ASSUME NEW x \in Dirs
                   PROVE  /\ before'[x] # NoRef => before'[x] < seen'[x] \/ calls > 0
                          /\ seen'[x] <= gitHead[x]
                          /\ \A v \in {before'[x], seen'[x]} \ {NoRef} : \E c \in past : c[x] = v
                          /\ before'[x] # NoRef => seen'[x] # NoRef
        BY <1>1 DEF RefsInv, RefsFollow, bounds
      <4>1. CASE x # d
        <5>1. before'[x] = before[x] /\ seen'[x] = seen[x]
          BY <1>3, <2>1, <4>1 DEF SourcesInv, RepoInv, RepoTypes
        <5> QED BY <5>1 DEF SourcesInv, RepoInv, RefsInv, RefsFollow
      <4>2. CASE x = d
        <5>1. before'[d] = seen[d] /\ seen'[d] = gitHead[d] /\ gitHead[d] # NoRef
          BY <1>3, <1>4, <2>1 DEF SourcesInv, RepoInv, RepoTypes, Version, NoRef
        <5>2. gitHead \in past /\ \E c \in past : c[d] = seen[d]
          BY <1>4, <2>1 DEF SourcesInv, RepoInv, RefsInv, RefsFollow, HistoryGrows
        <5> QED BY <1>4, <2>1, <4>2, <5>1, <5>2
      <4> QED BY <4>1, <4>2
    <3> QED BY <3>1, <3>2, <3>3, <3>4 DEF RepoInv
  <2>2. CASE ~Changed(d)
    BY <1>1, <1>3, <2>2, RepoKept, RefNumbers DEF SourcesInv, RepoInv, RepoTypes, repo, bounds
  <2> QED BY <2>1, <2>2
<1>7. RowTypes' /\ LoopTypes' /\ ChosenInv'
  BY <1>1, <1>5, ChosenKept DEF SourcesInv, RowTypes, LoopTypes, db, loop
<1>8. OpInv'
  BY <1>1, <1>2, <1>5 DEF SourcesInv, OpInv, OpShape, db
<1>9. KnownInv'
  <2>1. MemoryTypes'
    BY <1>1 DEF SourcesInv, KnownInv, MemoryTypes, Waits
  <2>2. \A x \in Dirs : seen'[x] # NoRef => x \in checked'
    BY <1>1, <1>2, <1>3, <1>4 DEF SourcesInv, KnownInv, Knows, RepoInv, RepoTypes
  <2>3. ASSUME NEW x \in checked', seen'[x] # NoRef, seen'[x] # gitHead[x] PROVE x \in pending' /\ wait'[x] # "none"
    <3>1. x \in Dirs
      BY <2>1 DEF MemoryTypes
    <3>2. x # d
      <4>1. SUFFICES ASSUME x = d PROVE FALSE
        OBVIOUS
      <4>2. CASE Changed(d)
        BY <1>3, <2>3, <3>1, <4>1, <4>2 DEF SourcesInv, RepoInv, RepoTypes
      <4>3. CASE ~Changed(d)
        <5>1. seen[d] # NoRef /\ seen[d] # gitHead[d]
          BY <1>3, <2>3, <4>1, <4>3
        <5>2. d \in checked
          BY <1>2, <5>1 DEF SourcesInv, KnownInv, Knows
        <5> QED BY <4>3, <5>1, <5>2 DEF Changed
      <4> QED BY <4>2, <4>3
    <3>3. seen'[x] = seen[x] /\ x \in checked
      BY <1>1, <1>3, <3>1, <3>2 DEF SourcesInv, RepoInv, RepoTypes
    <3>4. x \in pending /\ wait[x] # "none"
      BY <1>2, <2>3, <3>3 DEF SourcesInv, KnownInv, Knows
    <3> QED BY <1>1, <3>1, <3>2, <3>4
  <2> QED BY <1>1, <2>1, <2>2, <2>3 DEF KnownInv
<1>10. RangesInv'
  <2>1. CASE ~Changed(d)
    BY <1>1, <1>2, <1>5, <1>6, <2>1, RangesKept DEF SourcesInv, RepoInv, RepoTypes, db
  <2>2. CASE Changed(d)
    <3>1. r[1] = d /\ r[2] = seen[d] /\ r[3] = gitHead[d] /\ seen'[d] = gitHead[d] /\ op'.got = op.got \cup {r}
      BY <1>3, <1>5, <2>2 DEF r, SourcesInv, RepoInv, RepoTypes
    <3>2. \A e \in Events : \A s \in line[e].ranges : s[2] < s[3] /\ s[3] <= seen'[s[1]] /\ (s[1] = d => s[3] <= seen[d])
      <4> TAKE e \in Events
      <4> TAKE s \in line[e].ranges
      <4>1. s \in Ranges /\ s[2] < s[3] /\ s[3] <= seen[s[1]]
        BY DEF SourcesInv, RowTypes, RangesInv
      <4>2. s[1] \in Dirs /\ s[3] \in Int /\ seen[s[1]] \in Int /\ seen'[s[1]] \in Int /\ seen[s[1]] <= seen'[s[1]]
        BY <1>6, <4>1, RangeFields, RefNumbers DEF SourcesInv, RepoInv, RepoTypes
      <4> QED BY <4>1, <4>2
    <3>3. \A g \in op.got : g[2] < g[3] /\ g[3] <= seen'[g[1]] /\ g[1] \notin op.todo /\ g[1] # d
      <4> TAKE g \in op.got
      <4>1. g \in Ranges /\ g[2] < g[3] /\ g[3] <= seen[g[1]] /\ g[1] \notin op.todo
        BY <1>2 DEF SourcesInv, Operations, RangesInv
      <4>2. g[1] \in Dirs /\ g[3] \in Int /\ seen[g[1]] \in Int /\ seen'[g[1]] \in Int /\ seen[g[1]] <= seen'[g[1]]
        BY <1>6, <4>1, RangeFields, RefNumbers DEF SourcesInv, RepoInv, RepoTypes
      <4> QED BY <1>1, <4>1, <4>2
    <3>4. \A g \in op'.got : g[2] < g[3] /\ g[3] <= seen'[g[1]] /\ g[1] \notin op'.todo
      <4> TAKE g \in op'.got
      <4>1. CASE g \in op.got
        BY <1>5, <3>3, <4>1
      <4>2. CASE g = r
        BY <1>4, <1>5, <2>2, <3>1, <4>2
      <4> QED BY <3>1, <4>1, <4>2
    <3>5. \A g, h \in op'.got : g[1] = h[1] => g = h
      BY <3>1, <3>3 DEF SourcesInv, RangesInv
    <3>6. \A e \in Events : \A s \in line[e].ranges, g \in op'.got : s[1] = g[1] => s[3] <= g[2]
      BY <3>1, <3>2 DEF SourcesInv, RangesInv
    <3>7. ShownOnce'
      BY <1>1 DEF SourcesInv, RangesInv, ShownOnce, db
    <3> QED BY <1>1, <3>2, <3>4, <3>5, <3>6, <3>7 DEF RangesInv, db
  <2> QED BY <2>1, <2>2
<1>11. PassedInv'
  <2>1. CheckedHasRef' => CheckedHasRef
    <3>1. \A x \in checked : x \in checked' /\ (seen'[x] # NoRef => seen[x] # NoRef)
      BY <1>1, <1>3, <1>4 DEF SourcesInv, RepoInv, RepoTypes, KnownInv, MemoryTypes
    <3> QED BY <1>1, <3>1 DEF CheckedHasRef
  <2>2. CASE ~Changed(d)
    BY <1>1, <1>3, <1>5, <2>1, <2>2, PassedKept DEF SourcesInv, RepoInv, db, bounds
  <2>3. CASE Changed(d)
    <3> SUFFICES ASSUME crashes = 0, calls = 0, CheckedHasRef, NEW x \in Dirs, seen'[x] # NoRef,
                        NEW v \in (start[x] + 1)..seen'[x]
                 PROVE  \E s \in ToldOf(x)' : v \in (s[2] + 1)..s[3]
      BY <1>1, <2>1 DEF PassedInv, bounds
    <3>1. ToldOf(x)' = {s \in (UNION {line[e].ranges : e \in Events}) \cup op.got \cup {r} : s[1] = x}
      BY <1>1, <1>5, <2>3 DEF ToldOf, db
    <3>2. ToldOf(x) \subseteq ToldOf(x)'
      BY <3>1 DEF ToldOf
    <3>3. CASE x = d /\ v > seen[d]
      <4>1. r[1] = d /\ r[2] = seen[d] /\ r[3] = gitHead[d]
        BY DEF r
      <4>3. r \in ToldOf(x)'
        <5>1. r \in (UNION {line[e].ranges : e \in Events}) \cup op.got \cup {r} /\ r[1] = x
          BY <3>3, <4>1
        <5> QED BY ONLY <3>1, <5>1, Zenon
      <4>4. seen'[d] = gitHead[d]
        BY <1>3, <2>3 DEF SourcesInv, RepoInv, RepoTypes
      <4>2. start[x] \in Int
        BY DEF SourcesInv, RepoInv, RepoTypes, Version
      <4> QED BY <1>4, <2>3, <3>3, <4>1, <4>2, <4>3, <4>4
    <3>4. CASE ~(x = d /\ v > seen[d])
      <4>1. seen[x] # NoRef /\ v \in (start[x] + 1)..seen[x]
        <5>1. start[x] \in Int /\ seen[x] \in Int
          BY RefNumbers DEF SourcesInv, RepoInv, RepoTypes, Version
        <5>2. CASE x = d
          BY <1>4, <2>3, <3>4, <5>1, <5>2
        <5>3. CASE x # d
          BY <1>3, <2>3, <5>3 DEF SourcesInv, RepoInv, RepoTypes
        <5> QED BY <5>2, <5>3
      <4> QED BY <3>2, <4>1 DEF SourcesInv, PassedInv
    <3> QED BY <3>3, <3>4
  <2> QED BY <2>2, <2>3
<1> QED BY <1>6, <1>7, <1>8, <1>9, <1>10, <1>11 DEF SourcesInv

-----------------------------------------------------------------------------
(* The operations stop: a throw, the end of a take, a kill.                 *)

\* An operation throws: its line is not written.  Either a failure is counted, or a directory has lost its ref.
LEMMA StopSteps ==
  ASSUME SourcesInv, Throws, op # Idle, op.kind # "prepare", crashes' \in 0..MaxCrashes, crashes' # 0 \/ ~CheckedHasRef
  PROVE  SourcesInv'
<1>1. op' = Idle /\ UNCHANGED <<files, repo, db, memory, writes, calls, start>>
  BY DEF Throws
<1>2. LoopTypes'
  <2>1. CASE op.kind = "take"
    <3>1. op.steering \in BOOLEAN
      BY DEF SourcesInv, OpInv, Operations
    <3> QED BY <2>1, <3>1, OutcomeTypes DEF Throws, SourcesInv
  <2>2. CASE op.kind # "take"
    BY <2>2 DEF Throws, SourcesInv, LoopTypes, loop
  <2> QED BY <2>1, <2>2
<1>3. RepoInv'
  BY <1>1, RepoKept, SourcesAssumption DEF SourcesInv, RepoInv, RepoTypes
<1>4. RowTypes' /\ ChosenInv'
  BY <1>1, IdleFields, ChosenKept DEF SourcesInv, RowTypes, db
<1>5. KnownInv'
  BY <1>1, IdleFields, KnownKept DEF SourcesInv, memory, repo
<1>6. OpInv'
  BY <1>1, IdleIsOp, IdleFields DEF OpInv, OpShape
<1>7. RangesInv'
  BY <1>1, <1>3, IdleFields, RangesKept, RefNumbers DEF SourcesInv, RepoInv, RepoTypes, OpInv, db, repo
<1>8. PassedInv'
  <2>1. ~CheckedHasRef => ~CheckedHasRef'
    BY <1>1 DEF CheckedHasRef, memory, repo
  <2> QED BY <2>1 DEF PassedInv
<1> QED BY <1>2, <1>3, <1>4, <1>5, <1>6, <1>7, <1>8 DEF SourcesInv

LEMMA ThrowSteps == ASSUME SourcesInv, Unreads \/ Fails PROVE SourcesInv'
<1>1. CASE Unreads
  <2>1. op.kind = "take" /\ prepared /\ op # Idle
    BY <1>1, IdleFields DEF Unreads, SourcesInv, OpInv, OpShape
  <2>2. ~CheckedHasRef
    BY <1>1, <2>1 DEF Unreads, Unreadable, CheckedHasRef
  <2>3. crashes' \in 0..MaxCrashes
    BY <1>1 DEF Unreads, SourcesInv, RepoInv, RepoTypes
  <2> QED BY <1>1, <2>1, <2>2, <2>3, StopSteps DEF Unreads
<1>2. CASE Fails
  <2>1. crashes' \in 0..MaxCrashes /\ crashes' # 0
    BY <1>2, SourcesAssumption DEF Fails, SourcesInv, RepoInv, RepoTypes
  <2> QED BY <1>2, <2>1, StopSteps DEF Fails
<1> QED BY <1>1, <1>2

LEMMA KillStep == ASSUME SourcesInv, Crash PROVE SourcesInv'
<1>1. /\ op' = Idle /\ UNCHANGED <<files, repo, db, writes, calls, start>>
      /\ prepared' = FALSE /\ checked' = {} /\ pending' = {}
      /\ dirty' = [d \in Dirs |-> NoRef] /\ wait' = [d \in Dirs |-> "none"]
  BY DEF Crash
<1>2. LoopTypes'
  BY DEF Crash, SourcesInv, LoopTypes
<1>3. crashes' \in 0..MaxCrashes /\ crashes' # 0
  BY SourcesAssumption DEF Crash, SourcesInv, RepoInv, RepoTypes
<1>4. RepoInv'
  BY <1>1, <1>3, RepoKept, SourcesAssumption DEF SourcesInv, RepoInv, RepoTypes
<1>5. RowTypes' /\ ChosenInv'
  BY <1>1, IdleFields, ChosenKept DEF SourcesInv, RowTypes, db
<1>6. KnownInv'
  BY <1>1, IdleFields DEF KnownInv, MemoryTypes, Knows, Waits
<1>7. OpInv'
  BY <1>1, IdleIsOp, IdleFields DEF OpInv, OpShape
<1>8. RangesInv'
  BY <1>1, IdleFields, RangesKept, RefNumbers DEF SourcesInv, RepoInv, RepoTypes, OpInv, db, repo
<1>9. PassedInv'
  BY <1>3 DEF PassedInv
<1> QED BY <1>2, <1>4, <1>5, <1>6, <1>7, <1>8, <1>9 DEF SourcesInv

\* What the end of a take writes: its own line, which was not made, with attentions that wait.
LEMMA TakeWrites ==
  ASSUME SourcesInv, TakeEnds
  PROVE  /\ op.kind = "take" /\ op.event \in Events /\ line[op.event] = NoLine /\ prepared /\ op \in Operations
         /\ op' = Idle /\ UNCHANGED <<files, repo, place, memory, bounds, start>>
         /\ \/ UNCHANGED <<line, taken>> /\ op.got = {} /\ op.here = {}
            \/ WriteLine(op.event)
BY DEF TakeEnds, SourcesInv, OpInv, OpShape

LEMMA TakeEndStep == ASSUME SourcesInv, TakeEnds PROVE SourcesInv'
<1> DEFINE ev == op.event
<1>1. /\ op.kind = "take" /\ ev \in Events /\ line[ev] = NoLine /\ prepared /\ op \in Operations
      /\ op' = Idle /\ UNCHANGED <<files, repo, place, memory, bounds, start>>
      /\ \/ UNCHANGED <<line, taken>> /\ op.got = {} /\ op.here = {}
         \/ WriteLine(ev)
  BY TakeWrites
<1>2. LoopTypes'
  BY <1>1, OutcomeTypes DEF TakeEnds, SourcesInv, Operations
<1>3. RepoInv'
  BY <1>1, RepoKept, SourcesAssumption DEF SourcesInv, RepoInv, RepoTypes, bounds
<1>4. KnownInv'
  BY <1>1, IdleFields, KnownKept DEF SourcesInv, memory, repo
<1>5. OpInv'
  BY <1>1, IdleIsOp, IdleFields DEF OpInv, OpShape
<1>6. line[ev].ranges = {} /\ line[ev].attentions = {}
  BY <1>1 DEF NoLine
<1>7. CASE UNCHANGED <<line, taken>> /\ op.got = {} /\ op.here = {}
  <2>1. RowTypes' /\ ChosenInv'
    BY <1>1, <1>7, IdleFields, ChosenKept DEF SourcesInv, RowTypes, db
  <2>2. RangesInv'
    BY <1>1, <1>7, IdleFields, RangesKept, RefNumbers DEF SourcesInv, RepoInv, RepoTypes, OpInv, db, repo
  <2>3. PassedInv'
    <3>1. CheckedHasRef' => CheckedHasRef
      BY <1>1 DEF CheckedHasRef, memory, repo
    <3> QED BY <1>1, <1>7, <3>1, IdleFields, PassedKept DEF SourcesInv, RepoInv, RepoTypes, db, bounds, repo
  <2> QED BY <1>2, <1>3, <1>4, <1>5, <2>1, <2>2, <2>3 DEF SourcesInv
<1>8. CASE WriteLine(ev)
  <2>1. /\ line' \in [Events -> [ranges : SUBSET Ranges, attentions : SUBSET Attentions]]
        /\ line'[ev].ranges = op.got /\ line'[ev].attentions = op.here
        /\ \A e \in Events \ {ev} : line'[e] = line[e]
    <3>1. op.got \in SUBSET Ranges /\ op.here \in SUBSET Attentions
      BY <1>1 DEF Operations
    <3>2. [ranges |-> op.got, attentions |-> op.here] \in [ranges : SUBSET Ranges, attentions : SUBSET Attentions]
      BY <3>1
    <3> QED BY <1>1, <1>8, <3>2 DEF WriteLine, SourcesInv, RowTypes
  <2>2. RowTypes'
    BY <1>1, <1>8, <2>1 DEF WriteLine, SourcesInv, RowTypes
  <2>3. ChosenInv'
    <3>1. ASSUME NEW a \in Attentions
          PROVE  {e \in Events : a \in line'[e].attentions} = IF taken'[a] = 0 THEN {} ELSE {taken'[a]}
      <4>1. {e \in Events : a \in line[e].attentions} = IF taken[a] = 0 THEN {} ELSE {taken[a]}
        BY DEF SourcesInv, ChosenInv, AttentionInOneLine
      <4>2. CASE a \in op.here
        <5>1. taken[a] = 0 /\ taken'[a] = ev /\ ev # 0
          BY <1>1, <1>8, <4>2, VersionNumbers DEF WriteLine, SourcesInv, ChosenInv, Waiting
        <5>2. {e \in Events : a \in line'[e].attentions} = {ev}
          BY <1>1, <2>1, <4>1, <4>2, <5>1
        <5> QED BY <5>1, <5>2
      <4>3. CASE a \notin op.here
        <5>1. taken'[a] = taken[a]
          BY <1>8, <4>3 DEF WriteLine, SourcesInv, RowTypes
        <5>2. {e \in Events : a \in line'[e].attentions} = {e \in Events : a \in line[e].attentions}
          BY <1>1, <1>6, <2>1, <4>3
        <5> QED BY <4>1, <5>1, <5>2
      <4> QED BY <4>2, <4>3
    <3> QED BY <1>1, <3>1, IdleFields DEF ChosenInv, AttentionInOneLine
  <2>4. RangesInv'
    <3>1. \A e \in Events : \A r \in line'[e].ranges : r[2] < r[3] /\ r[3] <= seen[r[1]]
      BY <1>1, <2>1 DEF SourcesInv, RangesInv
    <3>2. ASSUME NEW e \in Events, NEW f \in Events, NEW r \in line'[e].ranges, NEW s \in line'[f].ranges,
                 r[1] = s[1], <<e, r>> # <<f, s>>
          PROVE  r[3] <= s[2] \/ s[3] <= r[2]
      <4>1. CASE e = ev /\ f = ev
        BY <2>1, <3>2, <4>1 DEF SourcesInv, RangesInv
      <4>2. CASE e = ev /\ f # ev
        BY <2>1, <3>2, <4>2 DEF SourcesInv, RangesInv
      <4>3. CASE e # ev /\ f = ev
        BY <2>1, <3>2, <4>3 DEF SourcesInv, RangesInv
      <4>4. CASE e # ev /\ f # ev
        BY <2>1, <3>2, <4>4 DEF SourcesInv, RangesInv, ShownOnce
      <4> QED BY <4>1, <4>2, <4>3, <4>4
    <3>3. ShownOnce'
      BY <3>2 DEF ShownOnce
    <3> QED BY <1>1, <3>1, <3>3, IdleFields DEF RangesInv, repo
  <2>5. PassedInv'
    <3>1. CheckedHasRef' => CheckedHasRef
      BY <1>1 DEF CheckedHasRef, memory, repo
    <3>2. ASSUME NEW d \in Dirs PROVE ToldOf(d) \subseteq ToldOf(d)'
      <4>1. ASSUME NEW e \in Events PROVE line[e].ranges \subseteq line'[e].ranges
        BY <1>6, <2>1
      <4>2. ASSUME NEW r \in ToldOf(d) PROVE r \in ToldOf(d)'
        <5>1. PICK e \in Events : r \in line'[e].ranges
          <6>1. CASE r \in op.got
            BY <1>1, <2>1, <6>1
          <6>2. CASE \E e \in Events : r \in line[e].ranges
            BY <4>1, <6>2
          <6> QED BY <4>2, <6>1, <6>2 DEF ToldOf
        <5> QED BY <4>2, <5>1 DEF ToldOf
      <4> QED BY <4>2
    <3> QED BY <1>1, <3>1, <3>2 DEF SourcesInv, PassedInv, bounds, repo
  <2> QED BY <1>2, <1>3, <1>4, <1>5, <2>2, <2>3, <2>4, <2>5 DEF SourcesInv
<1> QED BY <1>1, <1>7, <1>8

-----------------------------------------------------------------------------
(* The theorems.                                                            *)

LEMMA SourcesInitHolds == ASSUME SourcesInit PROVE SourcesInv
<1>1. 0 \in Version /\ 0 \in 0..MaxCrashes /\ 0 \in 0..MaxCalls /\ ~(0 = NoRef)
  BY SourcesAssumption DEF Version, NoRef
<1>2. RepoInv
  <2>1. RepoTypes
    BY <1>1 DEF SourcesInit, RepoTypes
  <2>2. HistoryGrows
    BY DEF SourcesInit, HistoryGrows, Below
  <2>3. RefsInv
    BY DEF SourcesInit, RefsInv, RefsFollow, NoRef
  <2> QED BY <2>1, <2>2, <2>3 DEF RepoInv
<1>3. RowTypes /\ LoopTypes
  <2>1. NoLine \in [ranges : SUBSET Ranges, attentions : SUBSET Attentions]
    BY DEF NoLine
  <2> QED BY <2>1 DEF SourcesInit, RowTypes, LoopTypes
<1>4. KnownInv
  BY DEF SourcesInit, KnownInv, MemoryTypes, Knows, Waits
<1>5. OpInv
  BY IdleIsOp, IdleFields DEF SourcesInit, OpInv, OpShape
<1>6. \A e \in Events : line[e].ranges = {} /\ line[e].attentions = {}
  BY DEF SourcesInit, NoLine
<1>7. RangesInv
  BY <1>6, IdleFields DEF SourcesInit, RangesInv, ShownOnce
<1>8. ChosenInv
  BY <1>6, IdleFields DEF SourcesInit, ChosenInv, AttentionInOneLine
<1>9. PassedInv
  BY DEF SourcesInit, PassedInv
<1> QED BY <1>2, <1>3, <1>4, <1>5, <1>7, <1>8, <1>9 DEF SourcesInv

LEMMA SourcesStepKeeps == ASSUME SourcesInv, [SourcesNext]_sourceVars PROVE SourcesInv'
<1>1. CASE Prepare
  BY <1>1, PrepareStep
<1>2. CASE Tick \/ \E d \in Dirs : TakeIn(d)
  BY <1>2, BeginSteps
<1>3. CASE Steps
  <2>1. CASE ScanStep
    BY <2>1, ScanSteps
  <2>2. CASE PrepareRefs
    BY <2>2, PrepareRefsStep
  <2>3. CASE RefsStep
    BY <2>3, NewRefsStep
  <2>4. CASE CommitStep
    BY <2>4, CommitSteps
  <2>5. CASE PlaceStep
    BY <2>5, PlaceSteps
  <2>6. CASE TakeEnds
    BY <2>6, TakeEndStep
  <2>7. CASE Unreads
    BY <2>7, ThrowSteps
  <2>8. CASE \E d \in Dirs : Show(d)
    BY <2>8, ShowStep
  <2> QED BY <1>3, <2>1, <2>2, <2>3, <2>4, <2>5, <2>6, <2>7, <2>8 DEF Steps
<1>4. CASE Fails
  BY <1>4, ThrowSteps
<1>5. CASE Crash
  BY <1>5, KillStep
<1>6. CASE TurnBegins \/ TurnEnds \/ \E e \in Events : TakenUp(e)
  BY <1>6, LoopSteps
<1>7. CASE \E night \in BOOLEAN : TickEnds(night) \/ Choose(night)
  BY <1>7, TickEndStep, ChooseStep
<1>8. CASE \E d \in Dirs : WriteFile(d) \/ WaitEnds(d)
  BY <1>8, WriteStep, WaitEndStep
<1>9. CASE \E a \in Attentions, d \in Dirs : Attention(a, d)
  BY <1>9, AttentionStep
<1>10. CASE \E e \in Events : TakeQueued(e) \/ TakeSteering(e)
  BY <1>10, TakeSteps
<1>11. CASE UNCHANGED sourceVars
  BY <1>11, SourcesStutter
<1> QED BY <1>1, <1>2, <1>3, <1>4, <1>5, <1>6, <1>7, <1>8, <1>9, <1>10, <1>11 DEF SourcesNext

\* The sources keep the invariant: the history's order, what is known of the refs, what the operation has gathered, and
\* what the refs have passed.
THEOREM SourcesInvariant == SourcesSpec => []SourcesInv
<1>1. SourcesInit => SourcesInv
  BY SourcesInitHolds
<1>2. SourcesInv /\ [SourcesNext]_sourceVars => SourcesInv'
  BY SourcesStepKeeps
<1> QED BY <1>1, <1>2, PTL DEF SourcesSpec

\* Only the end of a take writes a line.
LEMMA OnlyTakeWrites ==
  ASSUME SourcesInv, [SourcesNext]_sourceVars, line' # line
  PROVE  TakeEnds
BY DEF SourcesNext, Steps, sourceVars, db, Prepare, Tick, ScanStep, PrepareRefs, RefsStep, CommitStep, PlaceStep, Unreads, Throws, Show,
   Fails, Crash, TurnBegins, TurnEnds, TickEnds, Choose, WriteFile, WaitEnds, TakeIn, Attention, TakenUp, TakeQueued, TakeSteering

\* SourcesSafety: an attention is in one line, no change in two, a ref and the one before it stay in the history, what is
\* not shown waits, and what a ref has passed was told, for any directories, attentions, events, writes, failures and kills.
THEOREM SourcesAreSafe == SourcesSpec => []SourcesSafety
<1>1. SourcesInv => SourcesSafety
  <2> SUFFICES ASSUME SourcesInv PROVE SourcesSafety
    OBVIOUS
  <2>1. AttentionInOneLine /\ ShownOnce /\ RefsFollow
    BY DEF SourcesInv, ChosenInv, RangesInv, RepoInv, RefsInv
  <2>2. UnshownWaits
    BY DEF SourcesInv, KnownInv, Knows, UnshownWaits
  <2>3. NothingPassedOver
    <3> SUFFICES ASSUME crashes = 0, calls = 0, CheckedHasRef, op.kind # "take", NEW d \in Dirs, seen[d] # NoRef,
                        NEW v \in (start[d] + 1)..seen[d]
                 PROVE  v \in Told(d)
      BY DEF NothingPassedOver
    <3>1. op.got = {}
      BY DEF SourcesInv, OpInv, OpShape
    <3>2. PICK r \in ToldOf(d) : v \in (r[2] + 1)..r[3]
      BY DEF SourcesInv, PassedInv
    <3>3. PICK e \in Events : r \in line[e].ranges /\ r[1] = d
      BY <3>1, <3>2 DEF ToldOf
    <3> QED BY <3>2, <3>3 DEF Told
  <2> QED BY <2>1, <2>2, <2>3 DEF SourcesSafety
<1> QED BY <1>1, SourcesInvariant, PTL

\* SourcesSteps: no step changes a line that was made, or gives a running turn a picture.
THEOREM SourcesStepsKept == SourcesSpec => SourcesSteps
<1> DEFINE Apart == \A e \in Events : (line'[e] # line[e] /\ op.steering) => line'[e].attentions \cap Pictured = {}
           Stays == \A e \in Events : line[e] # NoLine => line'[e] = line[e]
<1>1. SourcesInv /\ [SourcesNext]_sourceVars => [Apart]_line /\ [Stays]_line
  <2> SUFFICES ASSUME SourcesInv, [SourcesNext]_sourceVars, line' # line PROVE Apart /\ Stays
    OBVIOUS
  <2>1. TakeEnds
    BY OnlyTakeWrites
  <2>2. op.event \in Events /\ line[op.event] = NoLine /\ WriteLine(op.event) /\ op \in Operations
    BY <2>1, TakeWrites
  <2>3. \A e \in Events : line'[e] # line[e] => e = op.event /\ line'[e].attentions = op.here
    BY <2>2 DEF WriteLine, SourcesInv, RowTypes
  <2>4. op.steering => op.here \cap Pictured = {}
    BY DEF SourcesInv, ChosenInv
  <2> QED BY <2>2, <2>3, <2>4
<1>2. SourcesSpec => [][Apart]_line /\ [][Stays]_line
  BY <1>1, SourcesInvariant, PTL DEF SourcesSpec
<1> QED BY <1>2 DEF SourcesSteps, PicturesApart, LineKept

-----------------------------------------------------------------------------
(***************************************************************************)
(* The inbox proved for any requests, any limit and any number of messages *)
(* and failures: a sender's open requests stay within the limit, a message *)
(* that was taken has its file, what the files show is what the database   *)
(* keeps, and a closed request stays closed.                               *)
(* The inductive invariant says, for each place an operation has come to   *)
(* on the chain, what has been written of its request and what has not.    *)
(***************************************************************************)

Replying == chain.at \in {"wrote", "stated", "undo", "unwritten"}
Looking  == chain.at \in {"late", "remind"}

\* What the variables hold.
InboxTypes ==
  /\ request \in [Asked -> States] /\ shown \in [Asked -> States]
  /\ texts \in [Asked -> 0..MaxTexts] /\ written \in [Asked -> SUBSET (1..MaxTexts)]
  /\ late \in [Asked -> BOOLEAN] /\ due \in [Asked -> BOOLEAN]
  /\ chain \in [at : {"free", "made", "wrote", "stated", "undo", "unwritten", "late", "remind"},
                kind : {"none", "open", "look"} \cup Replies, of : SUBSET Asked, todo : SUBSET Asked]
  /\ torn \subseteq Asked /\ mishaps \in 0..MaxMishaps

\* An operation is about one request; the look is about one at a time, or none.
ChainOfOne ==
  /\ chain.at = "free" => chain = Free0
  /\ chain.at \notin {"free", "late", "remind"} => \E r \in Asked : chain.of = {r}
  /\ Looking => chain.of = {} \/ \E r \in Asked : chain.of = {r}
  /\ Looking => \A r \in chain.of : r \notin chain.todo /\ request[r] # "rejected"
  /\ Replying => chain.kind \in Replies

\* Its directory is made before a request has a row, as long as there is room.
MadeFirst ==
  chain.at = "made" => /\ \A r \in chain.of : request[r] = "none" /\ 1 \in written[r] /\ shown[r] = "working"
                       /\ Cardinality(Opened) < MaxOpen

\* A reply is to an open request; its file is there before it is recorded, and is of a number no recorded message has.
ReplyToOpen ==
  Replying => \A r \in chain.of :
    /\ Takes(r, chain.kind) /\ texts[r] < MaxTexts
    /\ chain.at \in {"wrote", "stated"} /\ HasText(chain.kind) => texts[r] + 1 \in written[r]
    /\ chain.at = "stated" => shown[r] = Makes(chain.kind)

\* What the look fails is open all the while, and what is reminded of has a row.
LookAtOpen ==
  /\ chain.at = "late" => chain.todo \subseteq Opened
  /\ chain.at = "remind" => \A r \in chain.todo : request[r] # "rejected"

\* Outside the operation under way and the writes that failed, the files show the row.
ShownOfRest == \A r \in Asked \ (torn \cup chain.of) : request[r] # "rejected" => shown[r] = request[r]

WithinLimit == IsFiniteSet(Opened) /\ Cardinality(Opened) <= MaxOpen

InboxIInv ==
  /\ InboxTypes /\ ChainOfOne /\ MadeFirst /\ ReplyToOpen /\ LookAtOpen /\ ShownOfRest
  /\ WithinLimit /\ MessagesHaveFiles

-----------------------------------------------------------------------------
(*                      the open requests and their number                  *)

\* Requests that close, or stay as they are, keep the limit.
LEMMA FewerOpen == ASSUME WithinLimit, Opened' \subseteq Opened PROVE WithinLimit'
<1>1. /\ IsFiniteSet(Opened') /\ Cardinality(Opened') <= Cardinality(Opened)
      /\ Cardinality(Opened') \in Nat /\ Cardinality(Opened) \in Nat
  BY FS_Subset, FS_CardinalityType DEF WithinLimit
<1> QED BY <1>1, InboxAssumption DEF WithinLimit

\* One more, where there was room.
LEMMA OneMoreOpen ==
  ASSUME WithinLimit, NEW r \in Asked, Opened' \subseteq Opened \cup {r}, Cardinality(Opened) < MaxOpen
  PROVE  WithinLimit'
<1>1. /\ IsFiniteSet(Opened \cup {r}) /\ Cardinality(Opened \cup {r}) \in Nat /\ Cardinality(Opened) \in Nat
      /\ Cardinality(Opened \cup {r}) <= Cardinality(Opened) + 1
  <2>1. IsFiniteSet(Opened)
    BY DEF WithinLimit
  <2>2. /\ IsFiniteSet(Opened \cup {r})
        /\ Cardinality(Opened \cup {r}) = IF r \in Opened THEN Cardinality(Opened) ELSE Cardinality(Opened) + 1
    BY <2>1, FS_AddElement
  <2>3. Cardinality(Opened) \in Nat
    BY <2>1, FS_CardinalityType
  <2> QED BY <2>2, <2>3
<1>2. IsFiniteSet(Opened') /\ Cardinality(Opened') \in Nat /\ Cardinality(Opened') <= Cardinality(Opened \cup {r})
  BY <1>1, FS_Subset, FS_CardinalityType
<1> QED BY <1>1, <1>2, InboxAssumption DEF WithinLimit

\* What a message makes of a request.
LEMMA MadeState == \A kind : Makes(kind) \in {"working", "input-required", "completed"}
  BY DEF Makes

\* A failure is counted, up to its bound.
LEMMA MishapCounted == ASSUME InboxIInv, Mishap \/ UNCHANGED mishaps PROVE mishaps' \in 0..MaxMishaps
  BY InboxAssumption DEF InboxIInv, InboxTypes, Mishap

-----------------------------------------------------------------------------
(*                          the steps of an operation                       *)

LEMMA InboxInitHolds == InboxInit => InboxIInv
<1> SUFFICES ASSUME InboxInit PROVE InboxIInv
  OBVIOUS
<1>1. Opened = {}
  BY DEF InboxInit, Opened, OpenStates
<1>2. WithinLimit
  BY <1>1, FS_EmptySet, InboxAssumption DEF WithinLimit
<1>3. InboxTypes
  BY InboxAssumption DEF InboxInit, InboxTypes, Free0, States
<1> QED
  BY <1>2, <1>3 DEF InboxInit, InboxIInv, ChainOfOne, MadeFirst, ReplyToOpen, LookAtOpen, ShownOfRest,
     MessagesHaveFiles, Free0, Replying, Looking

LEMMA RejectKeeps == ASSUME InboxIInv, NEW r \in Asked, InboxRejects(r) PROVE InboxIInv'
<1> USE DEF InboxRejects
<1>1. Opened' \subseteq Opened
  BY DEF InboxIInv, InboxTypes, Opened, OpenStates
<1>2. WithinLimit'
  BY <1>1, FewerOpen DEF InboxIInv
<1>3. InboxTypes'
  BY InboxAssumption DEF InboxIInv, InboxTypes, States
<1> QED
  BY <1>2, <1>3 DEF InboxIInv, InboxTypes, ChainOfOne, MadeFirst, ReplyToOpen, LookAtOpen, ShownOfRest,
     MessagesHaveFiles, Free0, Replying, Looking

LEMMA MakeKeeps == ASSUME InboxIInv, NEW r \in Asked, InboxMakes(r) PROVE InboxIInv'
<1> USE DEF InboxMakes
<1>1. Opened' = Opened
  BY DEF Opened
<1>2. WithinLimit'
  BY <1>1, FewerOpen DEF InboxIInv
<1>3. InboxTypes'
  BY InboxAssumption DEF InboxIInv, InboxTypes, States
<1>4. MadeFirst'
  BY <1>1 DEF InboxIInv, InboxTypes, MadeFirst, HasRoom
<1> QED
  BY <1>2, <1>3, <1>4 DEF InboxIInv, InboxTypes, ChainOfOne, ReplyToOpen, LookAtOpen, ShownOfRest,
     MessagesHaveFiles, Free0, Replying, Looking

LEMMA OpenKeeps == ASSUME InboxIInv, NEW r \in Asked, InboxOpens(r) PROVE InboxIInv'
<1> USE DEF InboxOpens
<1>1. Opened' \subseteq Opened \cup {r}
  BY DEF InboxIInv, InboxTypes, Opened
<1>2. WithinLimit'
  BY <1>1, OneMoreOpen DEF InboxIInv, MadeFirst
<1>3. InboxTypes'
  BY InboxAssumption DEF InboxIInv, InboxTypes, States, Free0
<1>4. ShownOfRest'
  BY DEF InboxIInv, InboxTypes, ShownOfRest, MadeFirst, ChainOfOne, Free0
<1>5. MessagesHaveFiles'
  BY DEF InboxIInv, InboxTypes, MessagesHaveFiles, MadeFirst
<1> QED
  BY <1>2, <1>3, <1>4, <1>5 DEF InboxIInv, ChainOfOne, MadeFirst, ReplyToOpen, LookAtOpen, Free0, Replying, Looking

LEMMA OpenFailKeeps == ASSUME InboxIInv, NEW r \in Asked, InboxOpenFails(r) PROVE InboxIInv'
<1> USE DEF InboxOpenFails
<1>1. Opened' = Opened
  BY DEF Opened
<1>2. WithinLimit'
  BY <1>1, FewerOpen DEF InboxIInv
<1>3. InboxTypes'
  BY InboxAssumption DEF InboxIInv, InboxTypes, States, Free0, Mishap
<1>4. ShownOfRest'
  BY DEF InboxIInv, InboxTypes, ShownOfRest, MadeFirst, ChainOfOne, Free0
<1>5. MessagesHaveFiles'
  BY DEF InboxIInv, InboxTypes, MessagesHaveFiles, MadeFirst
<1> QED
  BY <1>2, <1>3, <1>4, <1>5 DEF InboxIInv, ChainOfOne, MadeFirst, ReplyToOpen, LookAtOpen, Free0, Replying, Looking

\* A reply's request, while it is on the chain.
LEMMA ReplyFacts ==
  ASSUME InboxIInv, Replying, NEW r \in chain.of
  PROVE  /\ chain.of = {r} /\ r \in Asked /\ chain.kind \in Replies
         /\ request[r] \in OpenStates /\ texts[r] + 1 \in 1..MaxTexts
         /\ 1..texts[r] \subseteq written[r] /\ written[r] \in SUBSET (1..MaxTexts)
<1>1. chain.of = {r} /\ r \in Asked /\ chain.kind \in Replies
  BY DEF InboxIInv, InboxTypes, ChainOfOne, Replying
<1>2. request[r] \in OpenStates /\ texts[r] < MaxTexts
  BY <1>1 DEF InboxIInv, ReplyToOpen, Takes, OpenStates
<1> QED BY <1>1, <1>2, InboxAssumption DEF InboxIInv, InboxTypes, MessagesHaveFiles, OpenStates

LEMMA WriteKeeps == ASSUME InboxIInv, NEW r \in Asked, NEW kind \in Replies, InboxWrites(r, kind) PROVE InboxIInv'
<1> USE DEF InboxWrites
<1>1. Opened' = Opened
  BY DEF Opened
<1>2. WithinLimit'
  BY <1>1, FewerOpen DEF InboxIInv
<1>3. texts[r] + 1 \in 1..MaxTexts
  BY InboxAssumption DEF InboxIInv, InboxTypes
<1>4. InboxTypes'
  BY <1>3, MishapCounted DEF InboxIInv, InboxTypes
<1>5. ReplyToOpen'
  BY <1>3 DEF InboxIInv, InboxTypes, ReplyToOpen, Takes
<1>6. MessagesHaveFiles'
  BY DEF InboxIInv, InboxTypes, MessagesHaveFiles
<1> QED
  BY <1>2, <1>4, <1>5, <1>6 DEF InboxIInv, ChainOfOne, MadeFirst, LookAtOpen, ShownOfRest, Free0, Replying, Looking

LEMMA StateKeeps == ASSUME InboxIInv, NEW r \in Asked, InboxStates(r) PROVE InboxIInv'
<1> USE DEF InboxStates
<1>1. Replying /\ r \in chain.of
  BY DEF Replying
<1>2. Opened' = Opened
  BY DEF Opened
<1>3. WithinLimit'
  BY <1>2, FewerOpen DEF InboxIInv
<1>4. InboxTypes'
  BY MadeState, MishapCounted DEF InboxIInv, InboxTypes, States
<1>5. ReplyToOpen'
  BY <1>1, ReplyFacts DEF InboxIInv, InboxTypes, ReplyToOpen, Takes, Replying
<1>6. ShownOfRest'
  BY <1>1, ReplyFacts DEF InboxIInv, InboxTypes, ShownOfRest
<1> QED
  BY <1>1, <1>3, <1>4, <1>5, <1>6, ReplyFacts DEF InboxIInv, InboxTypes, ChainOfOne, MadeFirst, LookAtOpen, MessagesHaveFiles,
     Free0, Replying, Looking

LEMMA RecordKeeps == ASSUME InboxIInv, NEW r \in Asked, InboxRecords(r) PROVE InboxIInv'
<1> USE DEF InboxRecords
<1>1. Replying /\ r \in chain.of
  BY DEF Replying
<1>2. request[r] \in OpenStates /\ chain.of = {r} /\ texts[r] + 1 \in 1..MaxTexts
  BY <1>1, ReplyFacts
<1>3. Opened' \subseteq Opened
  BY <1>2 DEF InboxIInv, InboxTypes, Opened
<1>4. WithinLimit'
  BY <1>3, FewerOpen DEF InboxIInv
<1>5. InboxTypes'
  BY <1>2, MadeState DEF InboxIInv, InboxTypes, States, Free0
<1>6. ShownOfRest'
  BY <1>1, <1>2 DEF InboxIInv, InboxTypes, ReplyToOpen, ShownOfRest, Free0
<1>7. MessagesHaveFiles'
  <2> SUFFICES ASSUME NEW q \in Asked, request'[q] \notin {"none", "rejected"}, NEW n \in 1..texts'[q]
               PROVE  n \in written[q]
    BY DEF MessagesHaveFiles
  <2>1. CASE q # r
    BY <2>1 DEF InboxIInv, InboxTypes, MessagesHaveFiles
  <2>2. CASE q = r
    BY <1>1, <1>2, <2>2 DEF InboxIInv, InboxTypes, MessagesHaveFiles, ReplyToOpen, OpenStates
  <2> QED BY <2>1, <2>2
<1> QED
  BY <1>4, <1>5, <1>6, <1>7 DEF InboxIInv, ChainOfOne, MadeFirst, ReplyToOpen, LookAtOpen, Free0, Replying, Looking

LEMMA RecordFailKeeps == ASSUME InboxIInv, NEW r \in Asked, InboxRecordFails(r) PROVE InboxIInv'
<1> USE DEF InboxRecordFails
<1>1. Opened' = Opened
  BY DEF Opened
<1>2. WithinLimit'
  BY <1>1, FewerOpen DEF InboxIInv
<1>3. InboxTypes'
  BY MishapCounted DEF InboxIInv, InboxTypes
<1>4. ReplyToOpen'
  BY DEF InboxIInv, InboxTypes, ReplyToOpen, Takes, Replying
<1> QED
  BY <1>2, <1>3, <1>4 DEF InboxIInv, InboxTypes, ChainOfOne, MadeFirst, LookAtOpen, ShownOfRest, MessagesHaveFiles,
     Free0, Replying, Looking

LEMMA UndoKeeps == ASSUME InboxIInv, NEW r \in Asked, InboxUndoes(r) PROVE InboxIInv'
<1> USE DEF InboxUndoes
<1>1. Replying /\ r \in chain.of
  BY DEF Replying
<1>2. Opened' = Opened
  BY DEF Opened
<1>3. WithinLimit'
  BY <1>2, FewerOpen DEF InboxIInv
<1>4. InboxTypes'
  BY DEF InboxIInv, InboxTypes
<1>5. ReplyToOpen'
  BY <1>1, ReplyFacts DEF InboxIInv, InboxTypes, ReplyToOpen, Takes, Replying
<1>6. MessagesHaveFiles'
  <2> SUFFICES ASSUME NEW q \in Asked, request[q] \notin {"none", "rejected"}, NEW n \in 1..texts[q]
               PROVE  n \in written'[q]
    BY DEF MessagesHaveFiles
  <2>1. n \in written[q] /\ n # texts[q] + 1
    BY DEF InboxIInv, InboxTypes, MessagesHaveFiles
  <2> QED BY <2>1 DEF InboxIInv, InboxTypes
<1> QED
  BY <1>3, <1>4, <1>5, <1>6 DEF InboxIInv, InboxTypes, ChainOfOne, MadeFirst, LookAtOpen, ShownOfRest, Free0, Replying, Looking

LEMMA RestoreKeeps == ASSUME InboxIInv, NEW r \in Asked, InboxRestores(r) PROVE InboxIInv'
<1> USE DEF InboxRestores
<1>1. Replying /\ chain.of = {r}
  BY ReplyFacts DEF Replying
<1>2. Opened' = Opened
  BY DEF Opened
<1>3. WithinLimit'
  BY <1>2, FewerOpen DEF InboxIInv
<1>4. InboxTypes'
  BY MishapCounted DEF InboxIInv, InboxTypes, Free0
<1>5. ShownOfRest'
  BY <1>1 DEF InboxIInv, InboxTypes, ShownOfRest, Free0
<1> QED
  BY <1>3, <1>4, <1>5 DEF InboxIInv, ChainOfOne, MadeFirst, ReplyToOpen, LookAtOpen, MessagesHaveFiles, Free0, Replying, Looking

-----------------------------------------------------------------------------
(*                     the scheduler's look, time and crashes                *)

LEMMA LookKeeps == ASSUME InboxIInv, InboxLooks PROVE InboxIInv'
<1> USE DEF InboxLooks, Look
<1>1. Opened' = Opened
  BY DEF Opened
<1>2. WithinLimit'
  BY <1>1, FewerOpen DEF InboxIInv
<1>3. InboxTypes'
  BY DEF InboxIInv, InboxTypes, Opened
<1>4. LookAtOpen'
  BY <1>1 DEF LookAtOpen
<1> QED
  BY <1>2, <1>3, <1>4 DEF InboxIInv, ChainOfOne, MadeFirst, ReplyToOpen, ShownOfRest, MessagesHaveFiles, Free0, Replying, Looking

LEMMA FailKeeps == ASSUME InboxIInv, NEW r \in Asked, InboxFails(r) PROVE InboxIInv'
<1> USE DEF InboxFails
<1>1. Opened' \subseteq Opened /\ Opened \ {r} \subseteq Opened'
  BY DEF InboxIInv, InboxTypes, Opened, OpenStates
<1>2. WithinLimit'
  BY <1>1, FewerOpen DEF InboxIInv
<1>3. InboxTypes'
  BY DEF InboxIInv, InboxTypes, States
<1>4. LookAtOpen'
  BY <1>1 DEF InboxIInv, InboxTypes, LookAtOpen
<1>5. MessagesHaveFiles'
  BY DEF InboxIInv, InboxTypes, MessagesHaveFiles, LookAtOpen, Opened, OpenStates
<1>6. ChainOfOne'
  BY DEF InboxIInv, InboxTypes, ChainOfOne, Looking, Replying
<1> QED
  BY <1>2, <1>3, <1>4, <1>5, <1>6 DEF InboxIInv, InboxTypes, MadeFirst, ReplyToOpen, ShownOfRest, Replying

LEMMA TurnKeeps == ASSUME InboxIInv, InboxTurns PROVE InboxIInv'
<1> USE DEF InboxTurns
<1>1. Opened' = Opened
  BY DEF Opened
<1>2. WithinLimit'
  BY <1>1, FewerOpen DEF InboxIInv
<1>3. InboxTypes'
  BY DEF InboxIInv, InboxTypes, Free0
<1> QED
  BY <1>2, <1>3 DEF InboxIInv, InboxTypes, ChainOfOne, MadeFirst, ReplyToOpen, LookAtOpen, ShownOfRest, MessagesHaveFiles,
     Free0, Replying, Looking

LEMMA RemindKeeps == ASSUME InboxIInv, NEW r \in Asked, InboxReminds(r) PROVE InboxIInv'
<1> USE DEF InboxReminds
<1>1. Opened' = Opened
  BY DEF Opened
<1>2. WithinLimit'
  BY <1>1, FewerOpen DEF InboxIInv
<1>3. InboxTypes'
  BY DEF InboxIInv, InboxTypes
<1> QED
  BY <1>2, <1>3 DEF InboxIInv, InboxTypes, ChainOfOne, MadeFirst, ReplyToOpen, LookAtOpen, ShownOfRest, MessagesHaveFiles,
     Free0, Replying, Looking

LEMMA RewriteKeeps == ASSUME InboxIInv, NEW r \in Asked, InboxRewrites(r) PROVE InboxIInv'
<1> USE DEF InboxRewrites
<1>1. Opened' = Opened
  BY DEF Opened
<1>2. WithinLimit'
  BY <1>1, FewerOpen DEF InboxIInv
<1>3. InboxTypes'
  BY MishapCounted DEF InboxIInv, InboxTypes
<1>4. chain.of = {r}
  BY DEF InboxIInv, ChainOfOne, Looking
<1>5. ShownOfRest'
  BY <1>4 DEF InboxIInv, InboxTypes, ShownOfRest
<1>6. LookAtOpen'
  BY <1>1 DEF InboxIInv, InboxTypes, LookAtOpen
<1> QED
  BY <1>2, <1>3, <1>5, <1>6 DEF InboxIInv, InboxTypes, ChainOfOne, MadeFirst, ReplyToOpen, MessagesHaveFiles,
     Free0, Replying, Looking

LEMMA LookEndKeeps == ASSUME InboxIInv, InboxLookEnds PROVE InboxIInv'
<1> USE DEF InboxLookEnds
<1>1. Opened' = Opened
  BY DEF Opened
<1>2. WithinLimit'
  BY <1>1, FewerOpen DEF InboxIInv
<1>3. InboxTypes'
  BY DEF InboxIInv, InboxTypes, Free0
<1> QED
  BY <1>2, <1>3 DEF InboxIInv, InboxTypes, ChainOfOne, MadeFirst, ReplyToOpen, LookAtOpen, ShownOfRest, MessagesHaveFiles,
     Free0, Replying, Looking

\* The deadline, the interval and the hours change nothing the invariant speaks of but their types.
LEMMA TimeKeeps ==
  ASSUME InboxIInv, InboxHours \/ \E r \in Asked : InboxDeadline(r) \/ InboxInterval(r)
  PROVE  InboxIInv'
<1>1. /\ UNCHANGED <<request, texts, written, shown, chain, torn, mishaps>>
      /\ late' \in [Asked -> BOOLEAN] /\ due' \in [Asked -> BOOLEAN]
  BY DEF InboxIInv, InboxTypes, InboxHours, InboxDeadline, InboxInterval
<1>2. Opened' = Opened
  BY <1>1 DEF Opened
<1>3. WithinLimit'
  BY <1>2, FewerOpen DEF InboxIInv
<1> QED
  BY <1>1, <1>2, <1>3 DEF InboxIInv, InboxTypes, ChainOfOne, MadeFirst, ReplyToOpen, LookAtOpen, ShownOfRest, MessagesHaveFiles,
     Free0, Replying, Looking, Takes

LEMMA CrashKeeps == ASSUME InboxIInv, InboxCrash PROVE InboxIInv'
<1> USE DEF InboxCrash
<1>1. Opened' = Opened
  BY DEF Opened
<1>2. WithinLimit'
  BY <1>1, FewerOpen DEF InboxIInv
<1>3. InboxTypes'
  BY MishapCounted DEF InboxIInv, InboxTypes, Free0
<1> QED
  BY <1>2, <1>3 DEF InboxIInv, ChainOfOne, MadeFirst, ReplyToOpen, LookAtOpen, ShownOfRest, MessagesHaveFiles,
     Free0, Replying, Looking

LEMMA StutterKeeps == ASSUME InboxIInv, UNCHANGED inboxVars PROVE InboxIInv'
<1>1. Opened' = Opened
  BY DEF inboxVars, Opened
<1>2. WithinLimit'
  BY <1>1, FewerOpen DEF InboxIInv, inboxVars
<1> QED
  BY <1>1, <1>2 DEF inboxVars, InboxIInv, InboxTypes, ChainOfOne, MadeFirst, ReplyToOpen, LookAtOpen, ShownOfRest,
     MessagesHaveFiles, Free0, Replying, Looking, Takes

\* Every step keeps the invariant.
LEMMA InboxStepKeeps == ASSUME InboxIInv, [InboxNext]_inboxVars PROVE InboxIInv'
<1>1. CASE \E r \in Asked : \/ InboxRejects(r) \/ InboxMakes(r)
                            \/ \E kind \in Replies : InboxWrites(r, kind)
  BY <1>1, RejectKeeps, MakeKeeps, WriteKeeps
<1>2. CASE InboxHours \/ \E r \in Asked : InboxDeadline(r) \/ InboxInterval(r)
  BY <1>2, TimeKeeps
<1>3. CASE InboxGoesOn
  BY <1>3, OpenKeeps, OpenFailKeeps, StateKeeps, RecordKeeps, RecordFailKeeps, UndoKeeps, RestoreKeeps, FailKeeps,
     RemindKeeps, RewriteKeeps, TurnKeeps, LookEndKeeps DEF InboxGoesOn
<1>4. CASE InboxLooks \/ InboxCrash \/ UNCHANGED inboxVars
  BY <1>4, LookKeeps, CrashKeeps, StutterKeeps
<1> QED BY <1>1, <1>2, <1>3, <1>4 DEF InboxNext

-----------------------------------------------------------------------------
(* The inductive invariant holds in every state of the inbox.               *)
THEOREM InboxInvariant == InboxSpec => []InboxIInv
<1>1. InboxIInv /\ [InboxNext]_inboxVars => InboxIInv'
  BY InboxStepKeeps
<1> QED BY <1>1, InboxInitHolds, PTL DEF InboxSpec

(* Through failures and restarts a sender's open requests stay within the   *)
(* limit, every message that was taken has its file, and with nothing under *)
(* way the files show what the database keeps, unless their last write was  *)
(* cut off or failed.                                                       *)
THEOREM InboxIsSafe == InboxSpec => []InboxSafety
<1>1. InboxIInv => InboxSafety
  <2> SUFFICES ASSUME InboxIInv PROVE OpenWithin /\ MessagesHaveFiles /\ ShownAsKept
    BY DEF InboxSafety
  <2>1. OpenWithin /\ MessagesHaveFiles
    BY DEF InboxIInv, WithinLimit, OpenWithin
  <2>2. ShownAsKept
    BY DEF InboxIInv, ShownOfRest, ShownAsKept, Free0
  <2> QED BY <2>1, <2>2
<1> QED BY <1>1, InboxInvariant, PTL

(* What comes late, a message, an answer of hers or the look that fails     *)
(* what is past its deadline, changes no request that is closed.            *)
THEOREM ClosedRequestsStay == InboxSpec => ClosedStays
<1> DEFINE Over == {"completed", "failed", "rejected"}
           Stays == \A r \in Asked : request[r] \in Over => request'[r] = request[r]
<1>1. ASSUME InboxIInv, [InboxNext]_inboxVars PROVE [Stays]_request
  <2>1. CASE UNCHANGED request
    BY <2>1
  <2>2. ASSUME NEW r \in Asked, InboxRejects(r) \/ InboxOpens(r) \/ InboxRecords(r) \/ InboxFails(r)
        PROVE  request[r] \notin Over /\ \E s : request' = [request EXCEPT ![r] = s]
    <3>1. \E s : request' = [request EXCEPT ![r] = s]
      BY <2>2, Zenon DEF InboxRejects, InboxOpens, InboxRecords, InboxFails
    <3>2. CASE InboxRejects(r)
      BY <3>1, <3>2 DEF InboxRejects
    <3>3. CASE InboxOpens(r)
      <4>1. request[r] = "none"
        BY <1>1, <3>3 DEF InboxOpens, InboxIInv, MadeFirst
      <4> QED BY <3>1, <4>1
    <3>4. CASE InboxRecords(r)
      <4>1. request[r] \in OpenStates
        BY <1>1, <3>4, ReplyFacts DEF InboxRecords, Replying
      <4> QED BY <3>1, <4>1 DEF OpenStates
    <3>5. CASE InboxFails(r)
      <4>1. request[r] \in OpenStates
        BY <1>1, <3>5 DEF InboxFails, InboxIInv, LookAtOpen, Opened
      <4> QED BY <3>1, <4>1 DEF OpenStates
    <3> QED BY <2>2, <3>2, <3>3, <3>4, <3>5
  <2>3. \/ UNCHANGED request
        \/ \E r \in Asked : InboxRejects(r) \/ InboxOpens(r) \/ InboxRecords(r) \/ InboxFails(r)
    BY <1>1 DEF InboxNext, InboxGoesOn, InboxMakes, InboxWrites, InboxStates, InboxOpenFails, InboxRecordFails,
       InboxUndoes, InboxRestores, InboxReminds, InboxRewrites, InboxTurns, InboxLookEnds, InboxLooks, InboxHours,
       InboxDeadline, InboxInterval, InboxCrash, inboxVars
  <2>4. ASSUME NEW r \in Asked, request[r] \notin Over, NEW s, request' = [request EXCEPT ![r] = s] PROVE Stays
    BY <1>1, <2>4 DEF InboxIInv, InboxTypes
  <2> QED BY <2>1, <2>2, <2>3, <2>4
<1>2. InboxIInv /\ [InboxNext]_inboxVars => [Stays]_request
  BY <1>1
<1> QED BY <1>2, InboxInvariant, PTL DEF InboxSpec, ClosedStays

-----------------------------------------------------------------------------
(***************************************************************************)
(* The dove proved for any number of drafts, returns, stops and kills: a   *)
(* post reaches Slack at most once and only as it was allowed, not too many *)
(* drafts in a row are turned back, and what a post came to has a result,  *)
(* written before it is told.                                              *)
(* The inductive invariant ties what waits on the chain of the work to the *)
(* rows: whose post it is, how far it has come, and that no other work is  *)
(* about the same post.                                                    *)
(***************************************************************************)

Work     == [do : {"carry", "approved"}, of : Posts]
Results  == DoveOver \cup {"to_owner", "not_sent"}
OnItsWay == stage \in {"slack", "answer"}

\* A judge let it through, the owner approved it, or nobody judges it.
MayGo(p) == p \in plain \/ verdict[p] = "send" \/ approval[p] = "approved"

\* What the variables hold.
DoveTypes ==
  /\ post \in [Posts -> DovePostStates] /\ plain \subseteq Posts
  /\ verdict \in [Posts -> {"none", "send", "return", "owner", "rewrite-limit"}]
  /\ approval \in [Posts -> {"none", "pending", "approved", "rejected", "expired"}]
  /\ results \in [Posts -> Seq(Results)]
  /\ copies \in [Posts -> Nat]
  /\ works \in Seq(Work) /\ stage \in {"turn", "judge", "slack", "answer"}
  /\ ended \in BOOLEAN /\ skipped \subseteq Posts

\* The rows of one post agree.
RowsAgree ==
  \A p \in Posts :
    /\ approval[p] = "pending" <=> post[p] = "pending"
    /\ post[p] \in {"none", "judging"} => approval[p] = "none" /\ verdict[p] = "none"
    /\ post[p] = "none" => p \notin plain
    /\ post[p] = "returned" => verdict[p] = "return" /\ p \notin plain

\* What waits, and what is under way, is about a post whose row says so.
WorkIsDue ==
  \A i \in 1..Len(works) :
    /\ works[i].do = "carry" => post[works[i].of] = IF i = 1 /\ OnItsWay THEN "sending" ELSE "judging"
    /\ works[i].do = "approved" => post[works[i].of] = "sending" /\ approval[works[i].of] = "approved"

\* No two works are about one post, and drafts are carried out in the order they were taken.
WorkIsOnce ==
  \A i, j \in 1..Len(works) : i < j =>
    /\ works[i].of # works[j].of
    /\ works[i].do = "carry" /\ works[j].do = "carry" => works[i].of < works[j].of

\* Where the first of the works is, and that it may be there.
WorkUnderWay ==
  /\ works = <<>> => stage = "turn"
  /\ stage = "judge" => works[1].do = "carry" /\ works[1].of \notin plain
  /\ OnItsWay => MayGo(works[1].of)

\* Slack has a copy only of what is answered for or over.
CopiesOfSent ==
  \A p \in Posts : copies[p] # 0 =>
    /\ copies[p] = 1
    /\ post[p] \in {"sent", "failed"} \/ (works # <<>> /\ stage = "answer" /\ works[1].of = p)
    /\ MayGo(p)

\* Drafts are taken in order; while the server is up, every draft to be judged waits; what is turned back came after
\* the decisions about all before it.
DraftsInOrder ==
  /\ \A p, q \in Posts : q < p /\ post[p] # "none" => post[q] # "none"
  /\ ~ended => \A p \in Posts : post[p] = "judging" => \E i \in 1..Len(works) : works[i] = [do |-> "carry", of |-> p]
  /\ \A p, q \in Posts : q < p /\ post[p] = "returned" => post[q] # "judging"

\* The round of telling: what is written of a post was read of it, and is as much as was told before.
RoundOfTelling ==
  /\ tells \in [Posts -> Nat] /\ lines \in [Posts -> Nat]
  /\ telling \in [at : {"no", "next", "writing", "written"}, todo : SUBSET Posts, of : Posts \cup {0}, read : Nat]
  /\ \A p \in Posts : tells[p] <= lines[p] /\ tells[p] <= Len(results[p])
  /\ telling.at \in {"writing", "written"} =>
       telling.of \in Posts /\ tells[telling.of] <= telling.read /\ telling.read <= Len(results[telling.of])
  /\ telling.at = "written" => lines[telling.of] = telling.read

\* The rows and the works, and the telling, which share no step.
RowsInv ==
  /\ DoveTypes /\ RowsAgree /\ WorkIsDue /\ WorkIsOnce /\ WorkUnderWay /\ CopiesOfSent /\ DraftsInOrder
  /\ ReturnsAreFew /\ EndsHaveResults

DoveIInv == RowsInv /\ RoundOfTelling

postRows == <<post, plain, verdict, approval, results, works, stage, ended, copies, skipped>>
tellingRound == <<tells, lines, telling>>

-----------------------------------------------------------------------------
(*                         the works and the results                        *)

\* The posts are the numbers from one on.
LEMMA PostNumbers ==
  /\ Cardinality(Posts) \in Nat /\ Posts = 1..Cardinality(Posts) /\ MaxReturns \in Nat /\ Posts \subseteq Nat
  /\ \A p, r \in Posts : p..r \subseteq Posts
<1>1. Cardinality(Posts) \in Nat /\ Posts = 1..Cardinality(Posts) /\ MaxReturns \in Nat
  BY DoveAssumption, FS_CardinalityType
<1> QED BY <1>1

\* A function on the numbers from one to n is a sequence of n elements.
LEMMA FunctionIsSeq ==
  ASSUME NEW S, NEW n \in Nat, NEW f \in [1..n -> S]
  PROVE  f \in Seq(S) /\ Len(f) = n /\ DOMAIN f = 1..n
<1>1. f \in Seq(S) /\ DOMAIN f = 1..n
  OBVIOUS
<1>2. DOMAIN f = 1..Len(f) /\ Len(f) \in Nat
  BY <1>1, LenProperties
<1> QED BY <1>1, <1>2

\* The first of the works.
LEMMA FirstWork ==
  ASSUME DoveTypes, works # <<>>
  PROVE  /\ Len(works) \in Nat /\ 1 \in 1..Len(works) /\ Head(works) = works[1] /\ works[1] \in Work
         /\ DoveAt = works[1].of /\ DoveAt \in Posts
<1>1. works \in Seq(Work)
  BY DEF DoveTypes
<1>2. Len(works) \in Nat /\ 1 \in 1..Len(works) /\ Head(works) = works[1] /\ works[1] \in Work
  BY <1>1
<1> QED BY <1>2 DEF DoveAt, Work

\* The works without the first of them.
LEMMA WorkDone ==
  ASSUME DoveTypes, works # <<>>, DoveDone
  PROVE  /\ works' \in Seq(Work) /\ stage' = "turn" /\ Len(works') = Len(works) - 1 /\ Len(works) \in Nat
         /\ \A i \in 1..Len(works') : works'[i] = works[i + 1] /\ i + 1 \in 1..Len(works)
<1>1. works \in Seq(Work) /\ works' = Tail(works)
  BY DEF DoveTypes, DoveDone
<1>2. /\ works' \in Seq(Work) /\ Len(works) \in Nat \ {0} /\ Len(works') = Len(works) - 1
      /\ \A i \in 1..Len(works') : works'[i] = works[i + 1]
  BY <1>1, HeadTailProperties
<1> QED BY <1>2 DEF DoveDone

\* One more work at the end of them.
LEMMA WorkAdded ==
  ASSUME DoveTypes, NEW w \in Work, works' = Append(works, w)
  PROVE  /\ works' \in Seq(Work) /\ works' # <<>> /\ Len(works') = Len(works) + 1 /\ Len(works) \in Nat
         /\ \A i \in 1..Len(works) : works'[i] = works[i]
         /\ works'[Len(works) + 1] = w
<1>1. works \in Seq(Work)
  BY DEF DoveTypes
<1> QED BY <1>1, AppendProperties

\* A work is what it is about and what is to be done with it.
LEMMA WorkFields ==
  ASSUME DoveTypes, NEW i \in 1..Len(works)
  PROVE  /\ works[i] \in Work /\ works[i].of \in Posts /\ works[i].do \in {"carry", "approved"}
         /\ works[i] = [do |-> works[i].do, of |-> works[i].of]
<1>1. works[i] \in Work
  BY DEF DoveTypes
<1> QED BY <1>1 DEF Work

\* What tell() leaves behind: a row, or the knowledge that there is none.
LEMMA ToldOnce ==
  ASSUME RowsInv, NEW p \in Posts, NEW result \in Results, DoveTells(p, result)
  PROVE  /\ results' \in [Posts -> Seq(Results)] /\ skipped' \subseteq Posts /\ skipped \subseteq skipped'
         /\ p \notin skipped' => results'[p] # <<>>
         /\ \A q \in Posts : results[q] # <<>> => results'[q] # <<>>
         /\ \A q \in Posts : Len(results[q]) <= Len(results'[q])
<1>1. results \in [Posts -> Seq(Results)] /\ skipped \subseteq Posts
  BY DEF RowsInv, DoveTypes
<1>2. CASE ended
  BY <1>1, <1>2 DEF DoveTells
<1>3. CASE ~ended
  <2>1. results' = [results EXCEPT ![p] = Append(results[p], result)] /\ skipped' = skipped
    BY <1>3 DEF DoveTells
  <2>2. /\ Append(results[p], result) \in Seq(Results) /\ Append(results[p], result) # <<>>
        /\ Len(Append(results[p], result)) = Len(results[p]) + 1
    BY <1>1, AppendProperties
  <2> QED BY <1>1, <2>1, <2>2
<1> QED BY <1>2, <1>3

\* Where no draft is newly turned back, and none is taken out of those nobody judges, the run of returns is no longer.
LEMMA NoMoreReturns ==
  ASSUME ReturnsAreFew, plain \subseteq plain', \A p \in Posts : post'[p] = "returned" => post[p] = "returned"
  PROVE  ReturnsAreFew'
<1> SUFFICES ASSUME NEW p \in Posts, p + MaxReturns \in Posts, p..(p + MaxReturns) \cap plain' = {}
             PROVE  \E q \in p..(p + MaxReturns) : post'[q] # "returned"
  BY DEF ReturnsAreFew
<1>1. PICK q \in p..(p + MaxReturns) : post[q] # "returned"
  BY DEF ReturnsAreFew
<1>2. q \in Posts
  BY <1>1, PostNumbers
<1> QED BY <1>1, <1>2

\* What every step but a few leaves alone.
LEMMA RowsKept == ASSUME RowsInv, UNCHANGED postRows PROVE RowsInv'
<1> USE DEF postRows, RowsInv
<1>1. DoveTypes'
  BY DEF DoveTypes
<1>6. RowsAgree'
  BY DEF RowsAgree
<1>2. WorkIsDue' /\ WorkIsOnce'
  BY DEF WorkIsDue, WorkIsOnce, OnItsWay
<1>3. WorkUnderWay' /\ CopiesOfSent'
  BY DEF WorkUnderWay, CopiesOfSent, OnItsWay, MayGo
<1>4. DraftsInOrder'
  BY DEF DraftsInOrder
<1>5. ReturnsAreFew' /\ EndsHaveResults'
  BY NoMoreReturns DEF EndsHaveResults
<1> QED BY <1>1, <1>2, <1>3, <1>4, <1>5, <1>6

LEMMA TellingKept ==
  ASSUME RowsInv, RoundOfTelling, UNCHANGED tellingRound, results' \in [Posts -> Seq(Results)],
         \A p \in Posts : Len(results[p]) <= Len(results'[p])
  PROVE  RoundOfTelling'
<1>1. \A p \in Posts : Len(results[p]) \in Nat /\ Len(results'[p]) \in Nat
  BY DEF RowsInv, DoveTypes
<1>2. tells' = tells /\ lines' = lines /\ telling' = telling
  BY DEF tellingRound
<1>3. \A p \in Posts : tells[p] \in Nat
  BY DEF RoundOfTelling
<1>4. telling.read \in Nat
  BY DEF RoundOfTelling
<1>5. \A p \in Posts : tells'[p] <= lines'[p] /\ tells'[p] <= Len(results'[p])
  BY <1>1, <1>2, <1>3 DEF RoundOfTelling
<1>6. telling.of \in Posts /\ telling.read <= Len(results[telling.of]) => telling.read <= Len(results'[telling.of])
  BY <1>1, <1>4
<1> QED BY <1>2, <1>5, <1>6 DEF RoundOfTelling
-----------------------------------------------------------------------------
(*                              the telling                                 *)

LEMMA TellingSteps ==
  ASSUME DoveIInv, DoveRound \/ DoveRoundFails
  PROVE  DoveIInv'
<1>1. UNCHANGED postRows
  BY DEF DoveRound, DoveRoundBegins, DoveRoundReads, DoveRoundWrites, DoveRoundMarks, DoveRoundFails, DoveRoundEnds,
     postRows, dovePosts
<1>2. RowsInv'
  BY <1>1, RowsKept DEF DoveIInv
<1> USE DEF DoveIInv, RoundOfTelling, DoveNotTelling
<1>3. CASE DoveRoundBegins
  BY <1>1, <1>2, <1>3 DEF postRows, DoveRoundBegins
<1>4. ASSUME NEW p \in Posts, DoveRoundReads(p) PROVE DoveIInv'
  <2>1. Len(results[p]) \in Nat
    BY DEF RowsInv, DoveTypes
  <2> QED BY <1>1, <1>2, <1>4, <2>1 DEF DoveRoundReads, postRows
<1>5. CASE DoveRoundWrites
  BY <1>1, <1>2, <1>5 DEF postRows, DoveRoundWrites
<1>6. CASE DoveRoundMarks
  <2>1. /\ telling.of \in Posts /\ telling.read \in Nat /\ lines[telling.of] = telling.read
        /\ telling.read <= Len(results[telling.of])
    BY <1>6 DEF DoveRoundMarks
  <2>2. telling' \in [at : {"next"}, todo : SUBSET Posts, of : {0}, read : {0}]
    BY <1>6 DEF DoveRoundMarks
  <2>3. tells' = [tells EXCEPT ![telling.of] = telling.read] /\ lines' = lines /\ results' = results
    BY <1>1, <1>6 DEF DoveRoundMarks, postRows
  <2>4. /\ tells' \in [Posts -> Nat]
        /\ \A p \in Posts : tells'[p] <= lines'[p] /\ tells'[p] <= Len(results'[p])
    BY <2>1, <2>3
  <2> QED BY <1>2, <2>2, <2>3, <2>4
<1>7. CASE DoveRoundFails \/ DoveRoundEnds
  BY <1>1, <1>2, <1>7 DEF postRows, DoveRoundFails, DoveRoundEnds
<1> QED BY <1>3, <1>4, <1>5, <1>6, <1>7 DEF DoveRound
-----------------------------------------------------------------------------
(*                              the works                                   *)

\* What the row of the first work says, by where it is.
LEMMA FirstRow ==
  ASSUME RowsInv, works # <<>>
  PROVE  /\ works[1].do = "carry" => /\ post[DoveAt] = (IF OnItsWay THEN "sending" ELSE "judging")
                                     /\ ~OnItsWay => approval[DoveAt] = "none" /\ verdict[DoveAt] = "none"
         /\ works[1].do = "approved" => post[DoveAt] = "sending" /\ approval[DoveAt] = "approved"
         /\ works[1].do \in {"carry", "approved"}
         /\ copies[DoveAt] # 0 => stage = "answer"
<1>1. 1 \in 1..Len(works) /\ DoveAt = works[1].of /\ DoveAt \in Posts
  BY FirstWork DEF RowsInv
<1>2. works[1].do \in {"carry", "approved"}
  BY <1>1, WorkFields DEF RowsInv
<1>3. /\ works[1].do = "carry" => post[DoveAt] = IF OnItsWay THEN "sending" ELSE "judging"
      /\ works[1].do = "approved" => post[DoveAt] = "sending" /\ approval[DoveAt] = "approved"
  BY <1>1 DEF RowsInv, WorkIsDue
<1> QED BY <1>1, <1>2, <1>3 DEF RowsInv, RowsAgree, CopiesOfSent

\* A post whose row waits for nothing is in no work.
LEMMA NotInWork ==
  ASSUME RowsInv, NEW p \in Posts, post[p] \notin {"judging", "sending"}
  PROVE  \A i \in 1..Len(works) : works[i].of # p
<1> SUFFICES ASSUME NEW i \in 1..Len(works), works[i].of = p PROVE FALSE
  OBVIOUS
<1>1. works[i].do \in {"carry", "approved"}
  BY WorkFields DEF RowsInv
<1> QED BY <1>1 DEF RowsInv, WorkIsDue

\* Slack has no copy of a post whose row has not come that far.
LEMMA NoCopy == ASSUME RowsInv, NEW p \in Posts, post[p] \notin {"judging", "sending", "sent", "failed"} PROVE copies[p] = 0
<1>1. \A i \in 1..Len(works) : works[i].of # p
  BY NotInWork
<1>2. works # <<>> => 1 \in 1..Len(works)
  BY FirstWork DEF RowsInv
<1> QED BY <1>1, <1>2 DEF RowsInv, CopiesOfSent

\* The first work ends, and no row but its own changes: the others stay due, once and in order.
LEMMA AfterWork ==
  ASSUME RowsInv, works # <<>>, DoveDone, plain' = plain,
         \A q \in Posts \ {DoveAt} : post'[q] = post[q] /\ verdict'[q] = verdict[q] /\ approval'[q] = approval[q]
  PROVE  works' \in Seq(Work) /\ stage' = "turn" /\ WorkIsDue' /\ WorkIsOnce' /\ WorkUnderWay'
<1>1. /\ works' \in Seq(Work) /\ stage' = "turn" /\ Len(works') = Len(works) - 1 /\ Len(works) \in Nat
      /\ \A i \in 1..Len(works') : works'[i] = works[i + 1] /\ i + 1 \in 1..Len(works)
  BY WorkDone DEF RowsInv
<1>2. 1 \in 1..Len(works) /\ DoveAt = works[1].of
  BY FirstWork DEF RowsInv
<1>3. ~OnItsWay'
  BY <1>1 DEF OnItsWay
<1>4. \A i \in 1..Len(works') : works'[i].of \in Posts \ {DoveAt}
  <2> SUFFICES ASSUME NEW i \in 1..Len(works') PROVE works[i + 1].of \in Posts \ {DoveAt}
    BY <1>1
  <2>1. i + 1 \in 1..Len(works) /\ 1 < i + 1
    BY <1>1
  <2>2. works[1].of # works[i + 1].of
    BY <1>2, <2>1 DEF RowsInv, WorkIsOnce
  <2>3. works[i + 1].of \in Posts
    BY <2>1, WorkFields DEF RowsInv
  <2> QED BY <1>2, <2>2, <2>3
<1>5. WorkIsDue'
  <2> SUFFICES ASSUME NEW i \in 1..Len(works')
               PROVE  /\ works'[i].do = "carry" => post'[works'[i].of] = "judging"
                      /\ works'[i].do = "approved" => post'[works'[i].of] = "sending" /\ approval'[works'[i].of] = "approved"
    BY <1>3 DEF WorkIsDue
  <2>1. i + 1 \in 1..Len(works) /\ i + 1 # 1 /\ works'[i] = works[i + 1]
    BY <1>1
  <2> QED BY <1>4, <2>1 DEF RowsInv, WorkIsDue
<1>6. WorkIsOnce'
  <2> SUFFICES ASSUME NEW i \in 1..Len(works'), NEW j \in 1..Len(works'), i < j
               PROVE  /\ works'[i].of # works'[j].of
                      /\ works'[i].do = "carry" /\ works'[j].do = "carry" => works'[i].of < works'[j].of
    BY DEF WorkIsOnce
  <2>1. i + 1 \in 1..Len(works) /\ j + 1 \in 1..Len(works) /\ i + 1 < j + 1
    BY <1>1
  <2>2. works'[i] = works[i + 1] /\ works'[j] = works[j + 1]
    BY <1>1
  <2> QED BY <2>1, <2>2 DEF RowsInv, WorkIsOnce
<1> QED BY <1>1, <1>3, <1>5, <1>6 DEF WorkUnderWay

\* While the server is up, the drafts to be judged still wait when another work has ended.
LEMMA OthersWait ==
  ASSUME RowsInv, works # <<>>, DoveDone, ended' = ended, ~ended => post'[DoveAt] # "judging",
         \A q \in Posts \ {DoveAt} : post'[q] = post[q]
  PROVE  ~ended' => \A p \in Posts : post'[p] = "judging" =>
                       \E i \in 1..Len(works') : works'[i] = [do |-> "carry", of |-> p]
<1> SUFFICES ASSUME ~ended, NEW p \in Posts, post'[p] = "judging"
             PROVE  \E i \in 1..Len(works') : works'[i] = [do |-> "carry", of |-> p]
  OBVIOUS
<1>1. p # DoveAt /\ post[p] = "judging"
  OBVIOUS
<1>2. PICK i \in 1..Len(works) : works[i] = [do |-> "carry", of |-> p]
  BY <1>1 DEF RowsInv, DraftsInOrder
<1>3. i # 1
  BY <1>1, <1>2, FirstWork DEF RowsInv
<1>4. /\ Len(works') = Len(works) - 1 /\ Len(works) \in Nat
      /\ \A k \in 1..Len(works') : works'[k] = works[k + 1]
  BY WorkDone DEF RowsInv
<1>5. i - 1 \in 1..Len(works') /\ works'[i - 1] = works[i]
  BY <1>3, <1>4
<1> QED BY <1>2, <1>5

\* Copies stay with their posts as long as no row goes back.
LEMMA CopiesKept ==
  ASSUME RowsInv, copies' = copies, plain \subseteq plain',
         \A q \in Posts : copies[q] # 0 =>
            /\ post'[q] \in {"sent", "failed"} \/ (works' # <<>> /\ stage' = "answer" /\ works'[1].of = q)
            /\ MayGo(q) => MayGo(q)'
  PROVE  CopiesOfSent'
  BY DEF RowsInv, CopiesOfSent

LEMMA PassSteps ==
  ASSUME RowsInv, DovePasses \/ DoveJudgedLate
  PROVE  RowsInv'
<1>1. /\ works # <<>> /\ DoveDone /\ stage \in {"turn", "judge"} /\ UNCHANGED <<dovePosts, ended, copies, skipped>>
      /\ ended \/ (stage = "turn" /\ post[DoveAt] # (IF works[1].do = "carry" THEN "judging" ELSE "sending"))
  BY FirstWork DEF RowsInv, DovePasses, DoveJudgedLate, DoveNow
<1>2. ended
  BY <1>1, FirstRow DEF OnItsWay
<1> USE DEF dovePosts
<1>3. works' \in Seq(Work) /\ stage' = "turn" /\ WorkIsDue' /\ WorkIsOnce' /\ WorkUnderWay'
  BY <1>1, AfterWork
<1>4. DoveTypes' /\ RowsAgree'
  BY <1>1, <1>3 DEF RowsInv, DoveTypes, RowsAgree
<1>5. CopiesOfSent'
  BY <1>1, CopiesKept DEF RowsInv, CopiesOfSent, MayGo
<1>6. DraftsInOrder'
  BY <1>1, <1>2 DEF RowsInv, DraftsInOrder
<1>7. ReturnsAreFew' /\ EndsHaveResults'
  BY <1>1, NoMoreReturns DEF RowsInv, EndsHaveResults
<1> QED BY <1>3, <1>4, <1>5, <1>6, <1>7 DEF RowsInv

LEMMA JudgeStep == ASSUME RowsInv, DoveJudges PROVE RowsInv'
<1> USE DEF DoveJudges, DoveNow, dovePosts
<1>1. Head(works) = works[1] /\ DoveAt = works[1].of /\ ~OnItsWay /\ ~OnItsWay'
  BY FirstWork DEF RowsInv, OnItsWay
<1>2. DoveTypes' /\ RowsAgree'
  BY DEF RowsInv, DoveTypes, RowsAgree
<1>3. WorkIsDue' /\ WorkIsOnce' /\ WorkUnderWay'
  BY <1>1 DEF RowsInv, WorkIsDue, WorkIsOnce, WorkUnderWay
<1>4. CopiesOfSent'
  BY CopiesKept DEF RowsInv, CopiesOfSent, MayGo
<1>5. DraftsInOrder' /\ ReturnsAreFew' /\ EndsHaveResults'
  BY NoMoreReturns DEF RowsInv, DraftsInOrder, EndsHaveResults
<1> QED BY <1>2, <1>3, <1>4, <1>5 DEF RowsInv
LEMMA GoStep == ASSUME RowsInv, DoveGoes PROVE RowsInv'
<1> USE DEF DoveGoes, DoveNow
<1>1. /\ works # <<>> /\ Head(works) = works[1] /\ DoveAt = works[1].of /\ DoveAt \in Posts /\ ~OnItsWay /\ OnItsWay'
      /\ 1 \in 1..Len(works) /\ DoveAt' = DoveAt
  BY FirstWork DEF RowsInv, OnItsWay, DoveAt
<1>2. copies[DoveAt] = 0 /\ post[DoveAt] \in {"judging", "sending"} /\ approval[DoveAt] # "pending"
  BY <1>1, FirstRow DEF RowsInv, RowsAgree
<1>3. post' = [post EXCEPT ![DoveAt] = "sending"] /\ works' = works
  OBVIOUS
<1> HIDE DEF DoveAt
<1>4. DoveTypes'
  BY <1>1 DEF RowsInv, DoveTypes, DovePostStates
<1>5. RowsAgree'
  BY <1>1, <1>2 DEF RowsInv, DoveTypes, RowsAgree
<1>6. WorkIsDue'
  <2> SUFFICES ASSUME NEW i \in 1..Len(works)
               PROVE  /\ works[i].do = "carry" => post'[works[i].of] = IF i = 1 THEN "sending" ELSE "judging"
                      /\ works[i].do = "approved" => post'[works[i].of] = "sending" /\ approval[works[i].of] = "approved"
    BY <1>1 DEF WorkIsDue
  <2>1. CASE i = 1
    BY <1>1, <2>1 DEF RowsInv, DoveTypes, WorkIsDue
  <2>2. CASE i # 1
    <3>1. 1 < i /\ works[i].of \in Posts
      <4>1. Len(works) \in Nat
        BY <1>1, FirstWork DEF RowsInv
      <4>2. 1 < i
        BY <2>2, <4>1
      <4> QED BY <4>2, WorkFields DEF RowsInv
    <3>2. works[i].of # DoveAt
      BY <1>1, <3>1 DEF RowsInv, WorkIsOnce
    <3> QED BY <1>1, <2>2, <3>1, <3>2 DEF RowsInv, DoveTypes, WorkIsDue
  <2> QED BY <2>1, <2>2
<1>7. WorkIsOnce' /\ WorkUnderWay'
  BY <1>1 DEF RowsInv, WorkIsOnce, WorkUnderWay, MayGo
<1>8. CopiesOfSent'
  BY <1>1, <1>2, CopiesKept DEF RowsInv, DoveTypes, CopiesOfSent, MayGo
<1>9. DraftsInOrder'
  BY <1>1, <1>2 DEF RowsInv, DoveTypes, DraftsInOrder
<1>10. ReturnsAreFew'
  BY <1>1, NoMoreReturns DEF RowsInv, DoveTypes
<1>11. EndsHaveResults'
  BY <1>1 DEF RowsInv, DoveTypes, EndsHaveResults, DoveOver
<1> QED BY <1>4, <1>5, <1>6, <1>7, <1>8, <1>9, <1>10, <1>11 DEF RowsInv

LEMMA DeliverStep == ASSUME RowsInv, DoveDelivers PROVE RowsInv'
<1> USE DEF DoveDelivers, DoveNow, dovePosts
<1>1. works # <<>> /\ DoveAt = works[1].of /\ DoveAt \in Posts /\ OnItsWay /\ OnItsWay' /\ copies[DoveAt] = 0
  BY FirstWork, FirstRow DEF RowsInv, OnItsWay
<1>2. copies' = [copies EXCEPT ![DoveAt] = 1] /\ copies[DoveAt] = 0 /\ MayGo(DoveAt)
  BY <1>1 DEF RowsInv, WorkUnderWay
<1> HIDE DEF DoveAt
<1>3. DoveTypes' /\ RowsAgree'
  BY <1>1, <1>2 DEF RowsInv, DoveTypes, RowsAgree
<1>4. WorkIsDue' /\ WorkIsOnce'
  BY <1>1 DEF RowsInv, WorkIsDue, WorkIsOnce
<1>5. WorkUnderWay'
  BY <1>1 DEF RowsInv, WorkUnderWay, MayGo
<1>6. CopiesOfSent'
  BY <1>1, <1>2 DEF RowsInv, DoveTypes, CopiesOfSent, MayGo
<1>7. DraftsInOrder' /\ ReturnsAreFew' /\ EndsHaveResults'
  BY NoMoreReturns DEF RowsInv, DraftsInOrder, EndsHaveResults
<1> QED BY <1>3, <1>4, <1>5, <1>6, <1>7 DEF RowsInv

\* Slack answered, or did not, or refused.
LEMMA EndSteps ==
  ASSUME RowsInv, DoveSent \/ DoveFails
  PROVE  RowsInv' /\ results' \in [Posts -> Seq(Results)] /\ \A q \in Posts : Len(results[q]) <= Len(results'[q])
<1>1. /\ works # <<>> /\ OnItsWay /\ DoveDone /\ UNCHANGED <<plain, verdict, approval, ended, copies>>
      /\ \E end \in {"sent", "failed"}, result \in {"sent", "not_sent"} :
            post' = [post EXCEPT ![DoveAt] = end] /\ DoveTells(DoveAt, result)
  BY DEF DoveSent, DoveFails, DoveNow, OnItsWay
<1>2. PICK end \in {"sent", "failed"}, result \in {"sent", "not_sent"} :
        post' = [post EXCEPT ![DoveAt] = end] /\ DoveTells(DoveAt, result)
  BY <1>1
<1>3. DoveAt = works[1].of /\ DoveAt \in Posts /\ post[DoveAt] = "sending"
  BY <1>1, FirstWork, FirstRow DEF RowsInv
<1>4. result \in Results
  BY DEF Results, DoveOver
<1>5. /\ results' \in [Posts -> Seq(Results)] /\ skipped' \subseteq Posts /\ skipped \subseteq skipped'
      /\ DoveAt \notin skipped' => results'[DoveAt] # <<>>
      /\ \A q \in Posts : results[q] # <<>> => results'[q] # <<>>
      /\ \A q \in Posts : Len(results[q]) <= Len(results'[q])
  BY <1>2, <1>3, <1>4, ToldOnce
<1>6. post' \in [Posts -> DovePostStates] /\ post'[DoveAt] = end /\ \A q \in Posts \ {DoveAt} : post'[q] = post[q]
  BY <1>2, <1>3 DEF RowsInv, DoveTypes, DovePostStates, DoveOver
<1> HIDE DEF DoveAt
<1>7. works' \in Seq(Work) /\ stage' = "turn" /\ WorkIsDue' /\ WorkIsOnce' /\ WorkUnderWay'
  BY <1>1, <1>6, AfterWork
<1>8. DoveTypes'
  BY <1>1, <1>5, <1>6, <1>7 DEF RowsInv, DoveTypes
<1>9. RowsAgree'
  BY <1>1, <1>3, <1>6 DEF RowsInv, RowsAgree
<1>10. CopiesOfSent'
  BY <1>1, <1>3, <1>6, CopiesKept DEF RowsInv, CopiesOfSent, MayGo
<1>11. DraftsInOrder'
  <2>1. ~ended' => \A p \in Posts : post'[p] = "judging" => \E i \in 1..Len(works') : works'[i] = [do |-> "carry", of |-> p]
    BY <1>1, <1>6, OthersWait
  <2> QED BY <1>3, <1>6, <2>1 DEF RowsInv, DraftsInOrder
<1>12. ReturnsAreFew'
  BY <1>1, <1>6, NoMoreReturns DEF RowsInv
<1>13. EndsHaveResults'
  BY <1>5, <1>6 DEF RowsInv, EndsHaveResults
<1> QED BY <1>5, <1>7, <1>8, <1>9, <1>10, <1>11, <1>12, <1>13 DEF RowsInv
\* No draft taken before the one being judged is still to be judged.
LEMMA DecidedBefore ==
  ASSUME RowsInv, ~ended, works # <<>>, works[1].do = "carry"
  PROVE  \A q \in Posts : q < DoveAt => post[q] # "judging"
<1> SUFFICES ASSUME NEW q \in Posts, q < DoveAt, post[q] = "judging" PROVE FALSE
  OBVIOUS
<1>1. PICK i \in 1..Len(works) : works[i] = [do |-> "carry", of |-> q]
  BY DEF RowsInv, DraftsInOrder
<1>2. 1 \in 1..Len(works) /\ DoveAt = works[1].of /\ DoveAt \in Posts
  BY FirstWork DEF RowsInv
<1>3. CASE i = 1
  BY <1>1, <1>2, <1>3, PostNumbers
<1>4. CASE 1 < i
  <2>1. works[1].of < works[i].of
    BY <1>1, <1>2, <1>4 DEF RowsInv, WorkIsOnce
  <2> QED BY <1>1, <1>2, <2>1, PostNumbers
<1> QED BY <1>3, <1>4

\* A draft that is turned back ends no run of returns longer than the limit.
LEMMA ReturnLimited ==
  ASSUME RowsInv, NEW p \in Posts, post[p] = "judging", \A q \in Posts : q < p => post[q] # "judging",
         ~(ReturnedBefore(p) >= MaxReturns), post' = [post EXCEPT ![p] = "returned"], plain' = plain
  PROVE  ReturnsAreFew'
<1> SUFFICES ASSUME NEW s \in Posts, s + MaxReturns \in Posts, s..(s + MaxReturns) \cap plain = {},
                    \A q \in s..(s + MaxReturns) : post'[q] = "returned"
             PROVE  FALSE
  BY DEF ReturnsAreFew
<1>1. /\ s..(s + MaxReturns) \subseteq Posts /\ s \in Nat /\ p \in Nat /\ MaxReturns \in Nat
      /\ 1 <= s /\ s + MaxReturns \in s..(s + MaxReturns)
  BY PostNumbers
<1>2. \A q \in s..(s + MaxReturns) : q # p => post[q] = "returned"
  BY <1>1 DEF RowsInv, DoveTypes
<1>3. p \in s..(s + MaxReturns)
  BY <1>2 DEF RowsInv, ReturnsAreFew
<1>4. s + MaxReturns = p
  <2> SUFFICES ASSUME s + MaxReturns # p PROVE FALSE
    OBVIOUS
  <2>1. p < s + MaxReturns /\ post[s + MaxReturns] = "returned"
    BY <1>1, <1>2, <1>3
  <2> QED BY <2>1 DEF RowsInv, DraftsInOrder
<1> DEFINE others == {q \in 1..(p - 1) \ plain : post[q] \notin {"none", "judging"}}
           returned == {q \in others : \A r \in others : r >= q => verdict[r] = "return"}
<1>5. s..(p - 1) \subseteq returned
  <2> SUFFICES ASSUME NEW q \in s..(p - 1) PROVE q \in returned
    OBVIOUS
  <2>1. \A r \in s..(p - 1) : r \in Posts /\ r \in s..(s + MaxReturns) /\ r # p /\ post[r] = "returned" /\ verdict[r] = "return"
    BY <1>1, <1>2, <1>4 DEF RowsInv, RowsAgree
  <2>2. q \in others
    BY <1>1, <2>1
  <2>3. \A r \in others : r >= q => r \in s..(p - 1)
    BY <1>1
  <2> QED BY <2>1, <2>2, <2>3
<1>6. IsFiniteSet(returned)
  <2>1. IsFiniteSet(1..(p - 1))
    BY <1>1, FS_Interval
  <2>2. returned \subseteq 1..(p - 1)
    OBVIOUS
  <2> QED BY <2>1, <2>2, FS_Subset
<1>7. Cardinality(s..(p - 1)) = MaxReturns
  BY <1>1, <1>4, FS_Interval
<1>8. Cardinality(returned) \in Nat /\ MaxReturns <= Cardinality(returned)
  BY <1>5, <1>6, <1>7, FS_Subset, FS_CardinalityType
<1>9. ReturnedBefore(p) = Cardinality(returned)
  BY DEF ReturnedBefore
<1> QED BY <1>1, <1>8, <1>9

LEMMA DecideStep ==
  ASSUME RowsInv, NEW judged \in {"send", "return", "owner"}, DoveDecides(judged)
  PROVE  RowsInv' /\ results' \in [Posts -> Seq(Results)] /\ \A q \in Posts : Len(results[q]) <= Len(results'[q])
<1> DEFINE v == DoveVerdict(DoveAt, judged)
<1>1. /\ works # <<>> /\ stage = "judge" /\ ~ended /\ UNCHANGED <<plain, ended, copies>>
      /\ verdict' = [verdict EXCEPT ![DoveAt] = v]
  BY DEF DoveDecides, DoveNow
<1>2. /\ DoveAt = works[1].of /\ DoveAt \in Posts /\ 1 \in 1..Len(works) /\ works[1].do = "carry" /\ ~OnItsWay
      /\ DoveAt \notin plain /\ post[DoveAt] = "judging" /\ approval[DoveAt] = "none" /\ copies[DoveAt] = 0
  BY <1>1, FirstWork, FirstRow DEF RowsInv, WorkUnderWay, OnItsWay
<1>3. v \in {"send", "return", "owner", "rewrite-limit"} /\ (v = "return" => ~(ReturnedBefore(DoveAt) >= MaxReturns))
  BY DEF DoveVerdict
<1>4. \A q \in Posts : q < DoveAt => post[q] # "judging"
  BY <1>1, <1>2, DecidedBefore
<1>5. /\ verdict' \in [Posts -> {"none", "send", "return", "owner", "rewrite-limit"}]
      /\ verdict'[DoveAt] = v /\ \A q \in Posts \ {DoveAt} : verdict'[q] = verdict[q]
  BY <1>1, <1>2, <1>3 DEF RowsInv, DoveTypes
<1>6. CASE v = "send"
  <2>1. /\ post' = [post EXCEPT ![DoveAt] = "sending"] /\ stage' = "slack"
        /\ UNCHANGED <<approval, results, works, skipped>>
    BY <1>6 DEF DoveDecides
  <2>2. post' \in [Posts -> DovePostStates] /\ post'[DoveAt] = "sending" /\ \A q \in Posts \ {DoveAt} : post'[q] = post[q]
    BY <1>2, <2>1 DEF RowsInv, DoveTypes, DovePostStates
  <2> HIDE DEF v, DoveAt
  <2>3. DoveTypes'
    BY <1>1, <1>5, <2>1, <2>2 DEF RowsInv, DoveTypes
  <2>4. RowsAgree'
    BY <1>1, <1>2, <1>5, <2>1, <2>2 DEF RowsInv, RowsAgree
  <2>5. WorkIsDue'
    <3> SUFFICES ASSUME NEW i \in 1..Len(works)
                 PROVE  /\ works[i].do = "carry" => post'[works[i].of] = IF i = 1 THEN "sending" ELSE "judging"
                        /\ works[i].do = "approved" => post'[works[i].of] = "sending" /\ approval[works[i].of] = "approved"
      BY <2>1 DEF WorkIsDue, OnItsWay
    <3>1. CASE i = 1
      BY <1>2, <2>2, <3>1
    <3>2. CASE i # 1
      <4>1. 1 < i /\ works[i].of \in Posts
        <5>1. Len(works) \in Nat
          BY <1>1, FirstWork DEF RowsInv
        <5>2. 1 < i
          BY <3>2, <5>1
        <5> QED BY <5>2, WorkFields DEF RowsInv
      <4>2. works[i].of # DoveAt
        BY <1>2, <4>1 DEF RowsInv, WorkIsOnce
      <4> QED BY <1>2, <2>2, <3>2, <4>1, <4>2 DEF RowsInv, WorkIsDue
    <3> QED BY <3>1, <3>2
  <2>6. WorkIsOnce' /\ WorkUnderWay'
    BY <1>1, <1>2, <1>5, <1>6, <2>1 DEF RowsInv, WorkIsOnce, WorkUnderWay, MayGo
  <2>7. CopiesOfSent'
    BY <1>1, <1>2, <1>5, <2>1, <2>2 DEF RowsInv, CopiesOfSent, MayGo
  <2>8. DraftsInOrder'
    BY <1>1, <1>2, <2>1, <2>2 DEF RowsInv, DraftsInOrder
  <2>9. ReturnsAreFew' /\ EndsHaveResults'
    BY <1>1, <2>1, <2>2, NoMoreReturns DEF RowsInv, EndsHaveResults, DoveOver
  <2>10. results' \in [Posts -> Seq(Results)] /\ \A q \in Posts : Len(results[q]) <= Len(results'[q])
    BY <2>1 DEF RowsInv, DoveTypes
  <2> QED BY <2>3, <2>4, <2>5, <2>6, <2>7, <2>8, <2>9, <2>10 DEF RowsInv
<1>7. CASE v # "send"
  <2> DEFINE to == IF v = "return" THEN "returned" ELSE "pending"
             ask == IF v = "return" THEN approval ELSE [approval EXCEPT ![DoveAt] = "pending"]
             result == IF v = "return" THEN "returned" ELSE "to_owner"
  <2>1. /\ post' = [post EXCEPT ![DoveAt] = to] /\ approval' = ask /\ DoveTells(DoveAt, result) /\ DoveDone
    BY <1>7 DEF DoveDecides
  <2>2. result \in Results
    BY DEF Results, DoveOver
  <2>3. /\ results' \in [Posts -> Seq(Results)] /\ skipped' \subseteq Posts /\ skipped \subseteq skipped'
        /\ DoveAt \notin skipped' => results'[DoveAt] # <<>>
        /\ \A q \in Posts : results[q] # <<>> => results'[q] # <<>>
        /\ \A q \in Posts : Len(results[q]) <= Len(results'[q])
    BY <1>2, <2>1, <2>2, ToldOnce
  <2>4. /\ post' \in [Posts -> DovePostStates] /\ post'[DoveAt] = to /\ \A q \in Posts \ {DoveAt} : post'[q] = post[q]
        /\ approval' \in [Posts -> {"none", "pending", "approved", "rejected", "expired"}]
        /\ approval'[DoveAt] = (IF v = "return" THEN "none" ELSE "pending")
        /\ \A q \in Posts \ {DoveAt} : approval'[q] = approval[q]
    BY <1>2, <2>1 DEF RowsInv, DoveTypes, DovePostStates, DoveOver
  <2>5. ASSUME v = "return" PROVE ReturnsAreFew'
    <3>1. post' = [post EXCEPT ![DoveAt] = "returned"]
      BY <2>1, <2>5
    <3>2. ~(ReturnedBefore(DoveAt) >= MaxReturns) /\ plain' = plain
      BY <1>1, <1>3, <2>5
    <3> HIDE DEF v, DoveAt
    <3> QED BY <1>2, <1>4, <3>1, <3>2, ReturnLimited
  <2>6. ReturnsAreFew'
    <3>1. CASE v # "return"
      <4> HIDE DEF v
      <4> QED BY <1>1, <2>4, <3>1, NoMoreReturns DEF RowsInv
    <3> QED BY <2>5, <3>1
  <2> HIDE DEF v, DoveAt, ask
  <2>7. works' \in Seq(Work) /\ stage' = "turn" /\ WorkIsDue' /\ WorkIsOnce' /\ WorkUnderWay'
    BY <1>1, <1>5, <2>1, <2>4, AfterWork
  <2>8. DoveTypes'
    BY <1>1, <1>5, <2>3, <2>4, <2>7 DEF RowsInv, DoveTypes
  <2>9. RowsAgree'
    BY <1>1, <1>2, <1>5, <2>4 DEF RowsInv, RowsAgree
  <2>10. CopiesOfSent'
    BY <1>1, <1>2, <1>5, <2>4, CopiesKept DEF RowsInv, CopiesOfSent, MayGo
  <2>11. DraftsInOrder'
    <3>1. ~ended' => \A p \in Posts : post'[p] = "judging" => \E i \in 1..Len(works') : works'[i] = [do |-> "carry", of |-> p]
      <4>1. post'[DoveAt] # "judging"
        BY <2>4
      <4>2. ended' = ended /\ DoveDone /\ \A q \in Posts \ {DoveAt} : post'[q] = post[q]
        BY <1>1, <2>1, <2>4
      <4> QED BY <1>1, <4>1, <4>2, OthersWait
    <3>2. to \in {"returned", "pending"}
      OBVIOUS
    <3> HIDE DEF to
    <3>3. \A p, q \in Posts : q < p /\ post'[p] # "none" => post'[q] # "none"
      BY <1>2, <2>4, <3>2 DEF RowsInv, DraftsInOrder
    <3>4. \A p, q \in Posts : q < p /\ post'[p] = "returned" => post'[q] # "judging"
      BY <1>4, <2>4, <3>2 DEF RowsInv, DraftsInOrder
    <3> QED BY <3>1, <3>3, <3>4 DEF DraftsInOrder
  <2>12. EndsHaveResults'
    BY <2>3, <2>4 DEF RowsInv, EndsHaveResults
  <2> QED BY <2>3, <2>6, <2>7, <2>8, <2>9, <2>10, <2>11, <2>12 DEF RowsInv
<1> QED BY <1>6, <1>7
-----------------------------------------------------------------------------
(*                       requests and the owner                             *)

\* A work about a post that was in none is added behind those there are.
LEMMA MoreWork ==
  ASSUME RowsInv, NEW w \in Work, works' = Append(works, w), stage' = stage, verdict' = verdict,
         plain \subseteq plain', plain' \subseteq plain \cup {w.of}, post[w.of] \notin {"judging", "sending"},
         \A q \in Posts \ {w.of} : post'[q] = post[q] /\ approval'[q] = approval[q],
         w.do = "carry" => post'[w.of] = "judging" /\ \A q \in Posts : post[q] # "none" => q < w.of,
         w.do = "approved" => post'[w.of] = "sending" /\ approval'[w.of] = "approved"
  PROVE  /\ works' \in Seq(Work) /\ works' # <<>> /\ (works # <<>> => works'[1] = works[1])
         /\ WorkIsDue' /\ WorkIsOnce' /\ WorkUnderWay'
         /\ \A i \in 1..Len(works) : i \in 1..Len(works') /\ works'[i] = works[i]
         /\ \E i \in 1..Len(works') : works'[i] = w
<1>1. /\ works' \in Seq(Work) /\ works' # <<>> /\ Len(works') = Len(works) + 1 /\ Len(works) \in Nat
      /\ \A i \in 1..Len(works) : works'[i] = works[i]
      /\ works'[Len(works) + 1] = w
  BY WorkAdded DEF RowsInv
<1>2. \A i \in 1..Len(works) : works[i].of \in Posts \ {w.of} /\ works[i].do \in {"carry", "approved"} /\ post[works[i].of] # "none"
  <2> SUFFICES ASSUME NEW i \in 1..Len(works)
               PROVE  works[i].of \in Posts \ {w.of} /\ works[i].do \in {"carry", "approved"} /\ post[works[i].of] # "none"
    OBVIOUS
  <2>1. works[i].of \in Posts /\ works[i].do \in {"carry", "approved"}
    BY WorkFields DEF RowsInv
  <2>2. post[works[i].of] \in {"judging", "sending"}
    BY <2>1 DEF RowsInv, WorkIsDue
  <2> QED BY <2>1, <2>2
<1>3. w.of \in Posts /\ w.do \in {"carry", "approved"}
  BY DEF Work
<1>4. OnItsWay' <=> OnItsWay
  BY DEF OnItsWay
<1>5. OnItsWay => works # <<>> /\ 1 \in 1..Len(works) /\ works'[1] = works[1]
  BY <1>1, FirstWork DEF RowsInv, WorkUnderWay, OnItsWay
<1>6. WorkIsDue'
  <2> SUFFICES ASSUME NEW i \in 1..Len(works')
               PROVE  /\ works'[i].do = "carry" => post'[works'[i].of] = IF i = 1 /\ OnItsWay THEN "sending" ELSE "judging"
                      /\ works'[i].do = "approved" => post'[works'[i].of] = "sending" /\ approval'[works'[i].of] = "approved"
    BY <1>4 DEF WorkIsDue
  <2>1. CASE i \in 1..Len(works)
    BY <1>1, <1>2, <2>1 DEF RowsInv, WorkIsDue
  <2>2. CASE i \notin 1..Len(works)
    <3>1. i = Len(works) + 1 /\ works'[i] = w
      BY <1>1, <2>2
    <3>2. ~(i = 1 /\ OnItsWay)
      BY <1>5, <2>2
    <3> QED BY <3>1, <3>2
  <2> QED BY <2>1, <2>2
<1>7. WorkIsOnce'
  <2> SUFFICES ASSUME NEW i \in 1..Len(works'), NEW j \in 1..Len(works'), i < j
               PROVE  /\ works'[i].of # works'[j].of
                      /\ works'[i].do = "carry" /\ works'[j].do = "carry" => works'[i].of < works'[j].of
    BY DEF WorkIsOnce
  <2>1. i \in 1..Len(works) /\ works'[i] = works[i]
    BY <1>1
  <2>2. CASE j \in 1..Len(works)
    BY <1>1, <2>1, <2>2 DEF RowsInv, WorkIsOnce
  <2>3. CASE j \notin 1..Len(works)
    <3>1. works'[j] = w
      BY <1>1, <2>3
    <3> QED BY <1>2, <2>1, <3>1
  <2> QED BY <2>2, <2>3
<1>8. WorkUnderWay'
  <2>1. CASE works = <<>>
    BY <1>1, <2>1 DEF RowsInv, WorkUnderWay, OnItsWay
  <2>2. CASE works # <<>>
    <3>1. 1 \in 1..Len(works)
      BY <2>2, FirstWork DEF RowsInv
    <3>2. works'[1] = works[1] /\ works[1].of \in Posts \ {w.of}
      BY <1>1, <1>2, <3>1
    <3>3. /\ stage = "judge" => works[1].do = "carry" /\ works[1].of \notin plain
          /\ OnItsWay => MayGo(works[1].of)
      BY DEF RowsInv, WorkUnderWay
    <3>4. OnItsWay => MayGo(works[1].of)'
      BY <3>2, <3>3 DEF MayGo
    <3> QED BY <1>1, <1>4, <3>2, <3>3, <3>4 DEF WorkUnderWay
  <2> QED BY <2>1, <2>2
<1>9. works # <<>> => works'[1] = works[1]
  BY <1>1, FirstWork DEF RowsInv
<1> QED BY <1>1, <1>6, <1>7, <1>8, <1>9

LEMMA DoveAskStep == ASSUME RowsInv, NEW p \in Posts, NEW reaction \in BOOLEAN, DoveAsk(p, reaction) PROVE RowsInv'
<1> DEFINE w == [do |-> "carry", of |-> p]
<1>1. /\ post[p] = "none" /\ (\A q \in 1..(p - 1) : post[q] # "none") /\ ~ended /\ works' = Append(works, w)
      /\ post' = [post EXCEPT ![p] = "judging"] /\ plain \subseteq plain' /\ plain' \subseteq plain \cup {p}
      /\ UNCHANGED <<verdict, approval, results, stage, ended, copies, skipped>>
  BY DEF DoveAsk
<1>2. w \in Work /\ w.of = p /\ w.do = "carry"
  BY DEF Work
<1>3. post' \in [Posts -> DovePostStates] /\ post'[p] = "judging" /\ \A q \in Posts \ {p} : post'[q] = post[q]
  BY <1>1 DEF RowsInv, DoveTypes, DovePostStates
<1>4. \A q \in Posts : post[q] # "none" => q < p
  <2> SUFFICES ASSUME NEW q \in Posts, post[q] # "none", ~(q < p) PROVE FALSE
    OBVIOUS
  <2>1. p < q
    BY <1>1, PostNumbers
  <2> QED BY <1>1, <2>1 DEF RowsInv, DraftsInOrder
<1>5. approval[p] = "none" /\ copies[p] = 0
  BY <1>1, NoCopy DEF RowsInv, RowsAgree
<1> HIDE DEF w
<1>6. /\ works' \in Seq(Work) /\ works' # <<>> /\ (works # <<>> => works'[1] = works[1])
      /\ WorkIsDue' /\ WorkIsOnce' /\ WorkUnderWay'
      /\ \A i \in 1..Len(works) : i \in 1..Len(works') /\ works'[i] = works[i]
      /\ \E i \in 1..Len(works') : works'[i] = w
  BY <1>1, <1>2, <1>3, <1>4, MoreWork
<1>7. DoveTypes'
  BY <1>1, <1>3, <1>6 DEF RowsInv, DoveTypes
<1>8. RowsAgree'
  BY <1>1, <1>3, <1>5 DEF RowsInv, RowsAgree
<1>9. CopiesOfSent'
  BY <1>1, <1>3, <1>5, <1>6, CopiesKept DEF RowsInv, CopiesOfSent, MayGo
<1>10. DraftsInOrder'
  <2>1. \A q, r \in Posts : r < q /\ post'[q] # "none" => post'[r] # "none"
    BY <1>1, <1>3, PostNumbers DEF RowsInv, DraftsInOrder
  <2>2. \A q \in Posts : post'[q] = "judging" => \E i \in 1..Len(works') : works'[i] = [do |-> "carry", of |-> q]
    <3> SUFFICES ASSUME NEW q \in Posts, post'[q] = "judging"
                 PROVE  \E i \in 1..Len(works') : works'[i] = [do |-> "carry", of |-> q]
      OBVIOUS
    <3>1. CASE q = p
      BY <1>6, <3>1 DEF w
    <3>2. CASE q # p
      BY <1>1, <1>3, <1>6, <3>2 DEF RowsInv, DraftsInOrder
    <3> QED BY <3>1, <3>2
  <2>3. \A q, r \in Posts : r < q /\ post'[q] = "returned" => post'[r] # "judging"
    BY <1>3, <1>4, PostNumbers DEF RowsInv, DraftsInOrder
  <2> QED BY <2>1, <2>2, <2>3 DEF DraftsInOrder
<1>11. ReturnsAreFew'
  BY <1>1, <1>3, NoMoreReturns DEF RowsInv
<1>12. EndsHaveResults'
  BY <1>1, <1>3 DEF RowsInv, EndsHaveResults, DoveOver
<1> QED BY <1>6, <1>7, <1>8, <1>9, <1>10, <1>11, <1>12 DEF RowsInv
\* A post in no work comes to another state: the works stay as they are.
LEMMA WorkApart ==
  ASSUME RowsInv, UNCHANGED <<works, stage, plain, verdict>>, NEW p \in Posts, post[p] \notin {"judging", "sending"},
         \A q \in Posts \ {p} : post'[q] = post[q] /\ approval'[q] = approval[q]
  PROVE  WorkIsDue' /\ WorkIsOnce' /\ WorkUnderWay'
<1>1. \A i \in 1..Len(works) : works[i].of \in Posts \ {p}
  BY NotInWork, WorkFields DEF RowsInv
<1>2. OnItsWay' <=> OnItsWay
  BY DEF OnItsWay
<1>3. WorkIsDue' /\ WorkIsOnce'
  BY <1>1, <1>2 DEF RowsInv, WorkIsDue, WorkIsOnce
<1>4. WorkUnderWay'
  <2>1. OnItsWay => works # <<>> /\ 1 \in 1..Len(works)
    BY FirstWork DEF RowsInv, WorkUnderWay, OnItsWay
  <2> QED BY <1>1, <1>2, <2>1 DEF RowsInv, WorkUnderWay, MayGo
<1> QED BY <1>3, <1>4

\* An approval past its time, or refused by the owner.
LEMMA RefuseSteps ==
  ASSUME RowsInv, NEW p \in Posts, DoveExpires(p) \/ DoveOwnerDecides(p, "reject")
  PROVE  RowsInv' /\ results' \in [Posts -> Seq(Results)] /\ \A q \in Posts : Len(results[q]) <= Len(results'[q])
<1>1. /\ approval[p] = "pending" /\ UNCHANGED <<plain, verdict, works, stage, ended, copies>>
      /\ \E end \in {"expired", "rejected"} :
            /\ approval' = [approval EXCEPT ![p] = end] /\ post' = [post EXCEPT ![p] = end]
            /\ DoveTells(p, end)
  BY DEF DoveExpires, DoveExpired, DoveOwnerDecides, DoveOutcomes
<1>2. PICK end \in {"expired", "rejected"} :
        approval' = [approval EXCEPT ![p] = end] /\ post' = [post EXCEPT ![p] = end] /\ DoveTells(p, end)
  BY <1>1
<1>3. post[p] = "pending" /\ copies[p] = 0
  BY <1>1, NoCopy DEF RowsInv, RowsAgree
<1>4. end \in Results
  BY DEF Results, DoveOver
<1>5. /\ results' \in [Posts -> Seq(Results)] /\ skipped' \subseteq Posts /\ skipped \subseteq skipped'
      /\ p \notin skipped' => results'[p] # <<>>
      /\ \A q \in Posts : results[q] # <<>> => results'[q] # <<>>
      /\ \A q \in Posts : Len(results[q]) <= Len(results'[q])
  BY <1>2, <1>4, ToldOnce
<1>6. /\ post' \in [Posts -> DovePostStates] /\ post'[p] = end /\ \A q \in Posts \ {p} : post'[q] = post[q]
      /\ approval' \in [Posts -> {"none", "pending", "approved", "rejected", "expired"}]
      /\ approval'[p] = end /\ \A q \in Posts \ {p} : approval'[q] = approval[q]
  BY <1>2 DEF RowsInv, DoveTypes, DovePostStates, DoveOver
<1>7. WorkIsDue' /\ WorkIsOnce' /\ WorkUnderWay'
  BY <1>1, <1>3, <1>6, WorkApart
<1>8. DoveTypes'
  BY <1>1, <1>5, <1>6 DEF RowsInv, DoveTypes
<1>9. RowsAgree'
  BY <1>1, <1>6 DEF RowsInv, RowsAgree
<1>10. CopiesOfSent'
  BY <1>1, <1>3, <1>6, CopiesKept DEF RowsInv, CopiesOfSent, MayGo
<1>11. DraftsInOrder'
  BY <1>1, <1>3, <1>6 DEF RowsInv, DraftsInOrder
<1>12. ReturnsAreFew'
  BY <1>1, <1>6, NoMoreReturns DEF RowsInv
<1>13. EndsHaveResults'
  BY <1>5, <1>6 DEF RowsInv, EndsHaveResults
<1> QED BY <1>5, <1>7, <1>8, <1>9, <1>10, <1>11, <1>12, <1>13 DEF RowsInv

LEMMA ApproveStep == ASSUME RowsInv, NEW p \in Posts, DoveOwnerDecides(p, "approve") PROVE RowsInv'
<1> DEFINE w == [do |-> "approved", of |-> p]
<1>1. /\ approval[p] = "pending" /\ works' = Append(works, w)
      /\ approval' = [approval EXCEPT ![p] = "approved"] /\ post' = [post EXCEPT ![p] = "sending"]
      /\ UNCHANGED <<plain, verdict, results, stage, ended, copies, skipped>>
  BY DEF DoveOwnerDecides, DoveOutcomes
<1>2. w \in Work /\ w.of = p /\ w.do = "approved"
  BY DEF Work
<1>3. post[p] = "pending" /\ copies[p] = 0
  BY <1>1, NoCopy DEF RowsInv, RowsAgree
<1>4. /\ post' \in [Posts -> DovePostStates] /\ post'[p] = "sending" /\ \A q \in Posts \ {p} : post'[q] = post[q]
      /\ approval' \in [Posts -> {"none", "pending", "approved", "rejected", "expired"}]
      /\ approval'[p] = "approved" /\ \A q \in Posts \ {p} : approval'[q] = approval[q]
  BY <1>1 DEF RowsInv, DoveTypes, DovePostStates
<1> HIDE DEF w
<1>5. /\ works' \in Seq(Work) /\ works' # <<>> /\ (works # <<>> => works'[1] = works[1])
      /\ WorkIsDue' /\ WorkIsOnce' /\ WorkUnderWay'
      /\ \A i \in 1..Len(works) : i \in 1..Len(works') /\ works'[i] = works[i]
  BY <1>1, <1>2, <1>3, <1>4, MoreWork
<1>6. DoveTypes'
  BY <1>1, <1>4, <1>5 DEF RowsInv, DoveTypes
<1>7. RowsAgree'
  BY <1>1, <1>4 DEF RowsInv, RowsAgree
<1>8. CopiesOfSent'
  BY <1>1, <1>3, <1>4, <1>5, CopiesKept DEF RowsInv, CopiesOfSent, MayGo
<1>9. DraftsInOrder'
  <2>1. ~ended' => \A q \in Posts : post'[q] = "judging" => \E i \in 1..Len(works') : works'[i] = [do |-> "carry", of |-> q]
    <3> SUFFICES ASSUME ~ended, NEW q \in Posts, post'[q] = "judging"
                 PROVE  \E i \in 1..Len(works') : works'[i] = [do |-> "carry", of |-> q]
      BY <1>1
    <3>1. post[q] = "judging"
      BY <1>4
    <3>2. PICK i \in 1..Len(works) : works[i] = [do |-> "carry", of |-> q]
      BY <3>1 DEF RowsInv, DraftsInOrder
    <3> QED BY <1>5, <3>2
  <2> QED BY <1>3, <1>4, <2>1 DEF RowsInv, DraftsInOrder
<1>10. ReturnsAreFew'
  BY <1>1, <1>4, NoMoreReturns DEF RowsInv
<1>11. EndsHaveResults'
  BY <1>1, <1>4 DEF RowsInv, EndsHaveResults, DoveOver
<1> QED BY <1>5, <1>6, <1>7, <1>8, <1>9, <1>10, <1>11 DEF RowsInv

-----------------------------------------------------------------------------
(*                              the process                                 *)

LEMMA CloseStep == ASSUME RowsInv, DoveClose PROVE RowsInv'
<1> USE DEF DoveClose, dovePosts
<1>1. DoveTypes' /\ RowsAgree'
  BY DEF RowsInv, DoveTypes, RowsAgree
<1>2. WorkIsDue' /\ WorkIsOnce' /\ WorkUnderWay' /\ CopiesOfSent'
  BY DEF RowsInv, WorkIsDue, WorkIsOnce, WorkUnderWay, CopiesOfSent, OnItsWay, MayGo
<1>3. DraftsInOrder' /\ ReturnsAreFew' /\ EndsHaveResults'
  BY NoMoreReturns DEF RowsInv, DraftsInOrder, EndsHaveResults
<1> QED BY <1>1, <1>2, <1>3 DEF RowsInv

\* What a start finds to be carried out, and what it says of what was on its way.
LEMMA DoveRestartStep ==
  ASSUME RowsInv, DoveRestart
  PROVE  RowsInv' /\ results' \in [Posts -> Seq(Results)] /\ \A q \in Posts : Len(results[q]) <= Len(results'[q])
<1> DEFINE left == {p \in Posts : post'[p] = "judging"}
<1>1. /\ post' = [p \in Posts |-> IF post[p] = "sending" THEN "failed" ELSE post[p]]
      /\ results' = [p \in Posts |-> IF post[p] = "sending" THEN Append(results[p], "not_sent") ELSE results[p]]
      /\ works' \in DoveInOrder(left) /\ stage' = "turn" /\ ended' = FALSE
      /\ UNCHANGED <<plain, verdict, approval, copies, skipped>>
  <2>1. \A p \in Posts : post'[p] = "failed" /\ post[p] = "sending" <=> post[p] = "sending"
    BY DEF DoveRestart, DoveResumed
  <2> QED BY <2>1 DEF DoveRestart, DoveResumed, DoveLeft
<1>2. /\ post' \in [Posts -> DovePostStates]
      /\ \A p \in Posts : post'[p] = IF post[p] = "sending" THEN "failed" ELSE post[p]
  BY <1>1 DEF RowsInv, DoveTypes, DovePostStates, DoveOver
<1>3. /\ results' \in [Posts -> Seq(Results)]
      /\ \A p \in Posts : /\ Len(results[p]) <= Len(results'[p])
                          /\ results[p] # <<>> \/ post[p] = "sending" => results'[p] # <<>>
  <2>1. \A p \in Posts : /\ Append(results[p], "not_sent") \in Seq(Results) /\ Append(results[p], "not_sent") # <<>>
                        /\ Len(Append(results[p], "not_sent")) = Len(results[p]) + 1 /\ Len(results[p]) \in Nat
                        /\ results[p] \in Seq(Results)
    <3> SUFFICES ASSUME NEW p \in Posts
                 PROVE  /\ Append(results[p], "not_sent") \in Seq(Results) /\ Append(results[p], "not_sent") # <<>>
                        /\ Len(Append(results[p], "not_sent")) = Len(results[p]) + 1 /\ Len(results[p]) \in Nat
                        /\ results[p] \in Seq(Results)
      OBVIOUS
    <3>1. results[p] \in Seq(Results) /\ "not_sent" \in Results
      BY DEF RowsInv, DoveTypes, Results
    <3> QED BY <3>1, AppendProperties
  <2> QED BY <1>1, <2>1
<1>4. /\ works' \in Seq(Work) /\ Len(works') \in Nat
      /\ \A i \in 1..Len(works') : works'[i].do = "carry" /\ works'[i].of \in left
      /\ \A i, j \in 1..Len(works') : i < j => works'[i].of < works'[j].of
      /\ \A p \in left : \E i \in 1..Len(works') : works'[i] = [do |-> "carry", of |-> p]
  <2> DEFINE Carry == [do : {"carry"}, of : left]
  <2>1. IsFiniteSet(left) /\ Cardinality(left) \in Nat
    <3>1. left \subseteq Posts
      OBVIOUS
    <3> QED BY <3>1, DoveAssumption, FS_Subset, FS_CardinalityType
  <2>2. works' \in [1..Cardinality(left) -> Carry]
    BY <1>1 DEF DoveInOrder
  <2> HIDE DEF left, Carry
  <2>3. works' \in Seq(Carry) /\ Len(works') = Cardinality(left) /\ DOMAIN works' = 1..Len(works')
    BY <2>1, <2>2, FunctionIsSeq
  <2>4. /\ \A i, j \in DOMAIN works' : i < j => works'[i].of < works'[j].of
        /\ \A p \in left : \E i \in DOMAIN works' : works'[i].of = p
    BY <1>1 DEF DoveInOrder
  <2>5. \A i \in 1..Len(works') : works'[i] \in Carry
    BY <2>2, <2>3
  <2>6. \A c \in Carry : c \in Work /\ c.do = "carry" /\ c.of \in left /\ c = [do |-> "carry", of |-> c.of]
    BY DEF Work, Carry, left
  <2>7. works' \in [1..Cardinality(left) -> Work]
    BY <2>2, <2>6
  <2>8. works' \in Seq(Work)
    BY <2>1, <2>7, FunctionIsSeq
  <2> QED BY <2>1, <2>3, <2>4, <2>5, <2>6, <2>8
<1> HIDE DEF left
<1>5. left = {p \in Posts : post[p] = "judging"}
  BY <1>2 DEF left
<1>6. ~OnItsWay'
  BY <1>1 DEF OnItsWay
<1>7. DoveTypes'
  BY <1>1, <1>2, <1>3, <1>4 DEF RowsInv, DoveTypes
<1>8. RowsAgree'
  BY <1>1, <1>2 DEF RowsInv, RowsAgree
<1>9. WorkIsDue'
  <2>1. \A i \in 1..Len(works') : works'[i].do = "carry" /\ post'[works'[i].of] = "judging"
    BY <1>2, <1>4, <1>5
  <2> QED BY <1>6, <2>1 DEF WorkIsDue
<1>10. WorkIsOnce'
  <2> SUFFICES ASSUME NEW i \in 1..Len(works'), NEW j \in 1..Len(works'), i < j
               PROVE  works'[i].of # works'[j].of /\ works'[i].of < works'[j].of
    BY DEF WorkIsOnce
  <2>1. works'[i].of < works'[j].of /\ works'[i].of \in Nat /\ works'[j].of \in Nat
    BY <1>4, <1>5, PostNumbers
  <2> QED BY <2>1
<1>11. WorkUnderWay'
  BY <1>1, <1>6 DEF WorkUnderWay
<1>12. CopiesOfSent'
  <2> SUFFICES ASSUME NEW q \in Posts, copies[q] # 0 PROVE post'[q] \in {"sent", "failed"}
    BY <1>1, CopiesKept DEF MayGo
  <2>1. post[q] \in {"sent", "failed"} \/ (works # <<>> /\ stage = "answer" /\ works[1].of = q)
    BY DEF RowsInv, CopiesOfSent
  <2>2. works # <<>> /\ stage = "answer" /\ works[1].of = q => post[q] = "sending"
    BY FirstWork, FirstRow DEF RowsInv, OnItsWay
  <2> QED BY <1>2, <2>1, <2>2
<1>13. DraftsInOrder'
  <2>1. \A p \in Posts : post'[p] = "judging" => \E i \in 1..Len(works') : works'[i] = [do |-> "carry", of |-> p]
    BY <1>4 DEF left
  <2> QED BY <1>2, <2>1 DEF RowsInv, DraftsInOrder
<1>14. ReturnsAreFew'
  BY <1>1, <1>2, NoMoreReturns DEF RowsInv
<1>15. EndsHaveResults'
  BY <1>1, <1>2, <1>3 DEF RowsInv, EndsHaveResults, DoveOver
<1> QED BY <1>3, <1>7, <1>8, <1>9, <1>10, <1>11, <1>12, <1>13, <1>14, <1>15 DEF RowsInv

-----------------------------------------------------------------------------
(*                              the theorems                                *)

LEMMA DoveInitHolds == DoveInit => DoveIInv
<1> SUFFICES ASSUME DoveInit PROVE DoveIInv
  OBVIOUS
<1> USE DEF DoveInit
<1>1. Len(works) = 0
  OBVIOUS
<1>2. DoveTypes /\ RowsAgree
  <2>1. <<>> \in Seq(Work) /\ <<>> \in Seq(Results)
    OBVIOUS
  <2>2. results \in [Posts -> Seq(Results)] /\ works \in Seq(Work)
    BY <2>1
  <2>3. post \in [Posts -> DovePostStates] /\ copies \in [Posts -> Nat]
    BY DEF DovePostStates
  <2>4. /\ verdict \in [Posts -> {"none", "send", "return", "owner", "rewrite-limit"}]
        /\ approval \in [Posts -> {"none", "pending", "approved", "rejected", "expired"}]
    OBVIOUS
  <2>5. plain \subseteq Posts /\ skipped \subseteq Posts /\ ended \in BOOLEAN /\ stage = "turn"
    OBVIOUS
  <2> QED BY <2>2, <2>3, <2>4, <2>5 DEF DoveTypes, RowsAgree
<1>3. WorkIsDue /\ WorkIsOnce /\ WorkUnderWay /\ CopiesOfSent
  BY <1>1 DEF WorkIsDue, WorkIsOnce, WorkUnderWay, CopiesOfSent, OnItsWay
<1>4. DraftsInOrder /\ EndsHaveResults
  BY <1>1 DEF DraftsInOrder, EndsHaveResults, DoveOver
<1>5. ReturnsAreFew
  <2> SUFFICES ASSUME NEW p \in Posts, p + MaxReturns \in Posts
               PROVE  \E q \in p..(p + MaxReturns) : post[q] # "returned"
    BY DEF ReturnsAreFew
  <2>1. p \in p..(p + MaxReturns)
    BY PostNumbers
  <2> QED BY <2>1
<1>6. RoundOfTelling
  BY DEF RoundOfTelling, DoveNotTelling
<1> QED BY <1>2, <1>3, <1>4, <1>5, <1>6 DEF DoveIInv, RowsInv

\* A step that leaves the results and the round alone.
LEMMA ResultsKept == ASSUME DoveIInv, RowsInv', UNCHANGED <<results, tellingRound>> PROVE DoveIInv'
<1>1. results' \in [Posts -> Seq(Results)]
  BY DEF DoveIInv, RowsInv, DoveTypes
<1>2. \A p \in Posts : Len(results[p]) \in Nat /\ Len(results[p]) <= Len(results'[p])
  BY DEF DoveIInv, RowsInv, DoveTypes
<1> QED BY <1>1, <1>2, TellingKept DEF DoveIInv

\* A start begins with no round under way.
LEMMA RestartRound ==
  ASSUME DoveIInv, DoveRestart, results' \in [Posts -> Seq(Results)], \A p \in Posts : Len(results[p]) <= Len(results'[p])
  PROVE  RoundOfTelling'
<1>1. \A p \in Posts : Len(results[p]) \in Nat /\ Len(results'[p]) \in Nat
  BY DEF DoveIInv, RowsInv, DoveTypes
<1>2. tells' = tells /\ lines' = lines /\ telling' = DoveNotTelling
  BY DEF DoveRestart
<1>3. \A p \in Posts : tells[p] \in Nat /\ tells[p] <= lines[p] /\ tells[p] <= Len(results[p])
  BY DEF DoveIInv, RoundOfTelling
<1>4. \A p \in Posts : tells'[p] <= lines'[p] /\ tells'[p] <= Len(results'[p])
  BY <1>1, <1>2, <1>3
<1>5. telling' \in [at : {"no"}, todo : {{}}, of : {0}, read : {0}]
  BY <1>2 DEF DoveNotTelling
<1> QED BY <1>2, <1>4, <1>5 DEF DoveIInv, RoundOfTelling

LEMMA DoveStepKeeps == DoveIInv /\ [DoveNext]_doveVars => DoveIInv'
<1> SUFFICES ASSUME DoveIInv, [DoveNext]_doveVars PROVE DoveIInv'
  OBVIOUS
<1>a. RowsInv
  BY DEF DoveIInv
<1>1. ASSUME NEW p \in Posts, NEW reaction \in BOOLEAN, DoveAsk(p, reaction) PROVE DoveIInv'
  <2>1. RowsInv'
    BY <1>a, <1>1, DoveAskStep
  <2> QED BY <1>1, <2>1, ResultsKept DEF DoveAsk, tellingRound
<1>2. ASSUME NEW p \in Posts, DoveExpires(p) PROVE DoveIInv'
  <2>1. RowsInv' /\ results' \in [Posts -> Seq(Results)] /\ \A q \in Posts : Len(results[q]) <= Len(results'[q])
    BY <1>a, <1>2, RefuseSteps
  <2> QED BY <1>2, <2>1, TellingKept DEF DoveIInv, DoveExpires, tellingRound
<1>3. ASSUME NEW p \in Posts, DoveTimePasses(p) PROVE DoveIInv'
  <2>1. UNCHANGED <<postRows, tellingRound>>
    BY <1>3 DEF DoveTimePasses, dovePosts, postRows, tellingRound
  <2>2. RowsInv'
    BY <1>a, <2>1, RowsKept
  <2> QED BY <2>1, <2>2, ResultsKept DEF postRows
<1>4. ASSUME NEW p \in Posts, DoveOwnerDecides(p, "approve") PROVE DoveIInv'
  <2>1. RowsInv'
    BY <1>a, <1>4, ApproveStep
  <2> QED BY <1>4, <2>1, ResultsKept DEF DoveOwnerDecides, tellingRound
<1>5. ASSUME NEW p \in Posts, DoveOwnerDecides(p, "reject") PROVE DoveIInv'
  <2>1. RowsInv' /\ results' \in [Posts -> Seq(Results)] /\ \A q \in Posts : Len(results[q]) <= Len(results'[q])
    BY <1>a, <1>5, RefuseSteps
  <2> QED BY <1>5, <2>1, TellingKept DEF DoveIInv, DoveOwnerDecides, tellingRound
<1>6. CASE DoveRound \/ DoveRoundFails
  BY <1>6, TellingSteps
<1>7. CASE DovePasses \/ DoveJudgedLate
  <2>1. RowsInv'
    BY <1>a, <1>7, PassSteps
  <2> QED BY <1>7, <2>1, ResultsKept DEF DovePasses, DoveJudgedLate, dovePosts, tellingRound
<1>8. CASE DoveJudges
  <2>1. RowsInv'
    BY <1>a, <1>8, JudgeStep
  <2> QED BY <1>8, <2>1, ResultsKept DEF DoveJudges, dovePosts, tellingRound
<1>9. CASE DoveGoes
  <2>1. RowsInv'
    BY <1>a, <1>9, GoStep
  <2> QED BY <1>9, <2>1, ResultsKept DEF DoveGoes, tellingRound
<1>10. CASE DoveDelivers
  <2>1. RowsInv'
    BY <1>a, <1>10, DeliverStep
  <2> QED BY <1>10, <2>1, ResultsKept DEF DoveDelivers, dovePosts, tellingRound
<1>11. CASE DoveSent \/ DoveFails
  <2>1. RowsInv' /\ results' \in [Posts -> Seq(Results)] /\ \A q \in Posts : Len(results[q]) <= Len(results'[q])
    BY <1>a, <1>11, EndSteps
  <2> QED BY <1>11, <2>1, TellingKept DEF DoveIInv, DoveSent, DoveFails, tellingRound
<1>12. ASSUME NEW judged \in {"send", "return", "owner"}, DoveDecides(judged) PROVE DoveIInv'
  <2>1. RowsInv' /\ results' \in [Posts -> Seq(Results)] /\ \A q \in Posts : Len(results[q]) <= Len(results'[q])
    BY <1>a, <1>12, DecideStep
  <2> QED BY <1>12, <2>1, TellingKept DEF DoveIInv, DoveDecides, tellingRound
<1>13. CASE DoveClose
  <2>1. RowsInv'
    BY <1>a, <1>13, CloseStep
  <2> QED BY <1>13, <2>1, ResultsKept DEF DoveClose, dovePosts, tellingRound
<1>14. CASE DoveRestart
  <2>1. RowsInv' /\ results' \in [Posts -> Seq(Results)] /\ \A q \in Posts : Len(results[q]) <= Len(results'[q])
    BY <1>a, <1>14, DoveRestartStep
  <2> QED BY <1>14, <2>1, RestartRound DEF DoveIInv
<1>15. CASE UNCHANGED doveVars
  <2>1. UNCHANGED <<postRows, tellingRound>>
    BY <1>15 DEF doveVars, dovePosts, postRows, tellingRound
  <2>2. RowsInv'
    BY <1>a, <2>1, RowsKept
  <2> QED BY <2>1, <2>2, ResultsKept DEF postRows
<1>16. CASE DoveWork
  BY <1>7, <1>8, <1>9, <1>10, <1>11, <1>12, <1>16 DEF DoveWork
<1>17. CASE \E p \in Posts : DoveExpires(p) \/ DoveTimePasses(p) \/ \E d \in DOMAIN DoveOutcomes : DoveOwnerDecides(p, d)
  <2>1. DOMAIN DoveOutcomes = {"approve", "reject"}
    BY DEF DoveOutcomes
  <2> QED BY <1>2, <1>3, <1>4, <1>5, <1>17, <2>1
<1> QED BY <1>1, <1>6, <1>13, <1>14, <1>15, <1>16, <1>17 DEF DoveNext

\* The rows, the works and the telling agree, whatever was judged, decided, answered, stopped or killed.
THEOREM DoveInvariant == DoveSpec => []DoveIInv
<1>1. DoveInit => DoveIInv
  BY DoveInitHolds
<1>2. DoveIInv /\ [DoveNext]_doveVars => DoveIInv'
  BY DoveStepKeeps
<1> QED BY <1>1, <1>2, PTL DEF DoveSpec

\* A post reaches Slack at most once and only as a judge, the owner or its kind allowed; at most MAX_RETURNS drafts in a
\* row are turned back; what a post came to has a result, and it is in the file before it is told.
THEOREM DoveIsSafe == DoveSpec => []DoveSafety
<1>1. DoveIInv => DoveSafety
  <2> SUFFICES ASSUME DoveIInv PROVE DoveSafety
    OBVIOUS
  <2>1. PostedOnce /\ PostedAsAllowed
    <3> SUFFICES ASSUME NEW p \in Posts PROVE copies[p] <= 1 /\ (copies[p] > 0 => MayGo(p))
      BY DEF PostedOnce, PostedAsAllowed, MayGo
    <3>1. copies[p] \in Nat
      BY DEF DoveIInv, RowsInv, DoveTypes
    <3>2. copies[p] # 0 => copies[p] = 1 /\ MayGo(p)
      BY DEF DoveIInv, RowsInv, CopiesOfSent
    <3> QED BY <3>1, <3>2
  <2>2. ReturnsAreFew /\ EndsHaveResults
    BY DEF DoveIInv, RowsInv
  <2>3. ToldIsWritten
    BY DEF DoveIInv, RoundOfTelling, ToldIsWritten
  <2> QED BY <2>1, <2>2, <2>3 DEF DoveSafety
<1> QED BY <1>1, DoveInvariant, PTL

\* What became of an approval stays so: of the owner's devices, the clock and the starts, the first to decide decides.
THEOREM DecisionsStay == DoveSpec => DecisionIsFinal
<1> DEFINE Final == \A p \in Posts : approval[p] \notin {"none", "pending"} => approval'[p] = approval[p]
<1>1. DoveIInv /\ [DoveNext]_doveVars => [Final]_approval
  <2> SUFFICES ASSUME DoveIInv, DoveNext PROVE Final \/ UNCHANGED approval
    BY DEF doveVars, dovePosts
  <2>1. approval \in [Posts -> {"none", "pending", "approved", "rejected", "expired"}]
    BY DEF DoveIInv, RowsInv, DoveTypes
  <2>2. ASSUME NEW p \in Posts, DoveExpires(p) PROVE Final
    BY <2>1, <2>2 DEF DoveExpires, DoveExpired
  <2>3. ASSUME NEW p \in Posts, NEW d \in DOMAIN DoveOutcomes, DoveOwnerDecides(p, d) PROVE Final
    BY <2>1, <2>3 DEF DoveOwnerDecides
  <2>4. ASSUME NEW judged \in {"send", "return", "owner"}, DoveDecides(judged) PROVE Final
    <3>1. works # <<>> /\ stage = "judge"
      BY <2>4 DEF DoveDecides, DoveNow
    <3>2. DoveAt \in Posts /\ DoveAt = works[1].of
      BY <3>1, FirstWork DEF DoveIInv, RowsInv
    <3>3. approval[DoveAt] = "none"
      BY <3>1, <3>2, FirstRow DEF DoveIInv, RowsInv, WorkUnderWay, OnItsWay
    <3>4. approval' = approval \/ approval' = [approval EXCEPT ![DoveAt] = "pending"]
      BY <2>4 DEF DoveDecides
    <3> QED BY <2>1, <3>2, <3>3, <3>4
  <2>5. ASSUME NEW p \in Posts, NEW reaction \in BOOLEAN, DoveAsk(p, reaction) PROVE UNCHANGED approval
    BY <2>5 DEF DoveAsk
  <2>6. ASSUME NEW p \in Posts, DoveTimePasses(p) PROVE UNCHANGED approval
    BY <2>6 DEF DoveTimePasses, dovePosts
  <2>7. CASE DoveRound \/ DoveRoundFails \/ DoveClose \/ DoveRestart
    BY <2>7 DEF DoveRound, DoveRoundBegins, DoveRoundReads, DoveRoundWrites, DoveRoundMarks, DoveRoundFails,
       DoveRoundEnds, DoveClose, DoveRestart, dovePosts
  <2>8. CASE DovePasses \/ DoveJudges \/ DoveGoes \/ DoveJudgedLate \/ DoveDelivers \/ DoveSent \/ DoveFails
    BY <2>8 DEF DovePasses, DoveJudges, DoveGoes, DoveJudgedLate, DoveDelivers, DoveSent, DoveFails, dovePosts
  <2> HIDE DEF Final
  <2> QED BY <2>2, <2>3, <2>4, <2>5, <2>6, <2>7, <2>8 DEF DoveNext, DoveWork
<1> QED BY <1>1, DoveInvariant, PTL DEF DoveSpec, DecisionIsFinal

-----------------------------------------------------------------------------
(***************************************************************************)
(* The parts together: a step of the whole is a step of one part, and the  *)
(* other parts stay as they are, so each part keeps what its own theorem   *)
(* says of it.                                                             *)
(***************************************************************************)

\* A behaviour of the whole is one of every part.
LEMMA PartsTogether == Spec => SourcesSpec /\ RequestsSpec /\ InboxSpec /\ DoveSpec /\ DeviceSpec /\ SlackSpec
<1>1. Init => SourcesInit /\ RequestsInit /\ InboxInit /\ DoveInit /\ DeviceInit /\ SlackInit
  BY DEF Init
<1>2. SourcesPart => SourcesNext /\ UNCHANGED <<requestVars, inboxVars, doveVars, deviceVars, slackVars>>
  BY DEF SourcesPart
<1>3. RequestsPart => RequestsNext /\ UNCHANGED <<sourceVars, inboxVars, doveVars, deviceVars, slackVars>>
  BY DEF RequestsPart
<1>4. InboxPart => InboxNext /\ UNCHANGED <<sourceVars, requestVars, doveVars, deviceVars, slackVars>>
  BY DEF InboxPart
<1>5. DovePart => DoveNext /\ UNCHANGED <<sourceVars, requestVars, inboxVars, deviceVars, slackVars>>
  BY DEF DovePart
<1>6. DevicesPart => DeviceNext /\ UNCHANGED <<sourceVars, requestVars, inboxVars, doveVars, slackVars>>
  BY DEF DevicesPart
<1>7. SlackPart => SlackNext /\ UNCHANGED <<sourceVars, requestVars, inboxVars, doveVars, deviceVars>>
  BY DEF SlackPart
<1>8. UNCHANGED parts => UNCHANGED <<sourceVars, requestVars, inboxVars, doveVars, deviceVars, slackVars>>
  BY DEF parts
<1>9. [Next]_parts => /\ [SourcesNext]_sourceVars /\ [RequestsNext]_requestVars /\ [InboxNext]_inboxVars
                      /\ [DoveNext]_doveVars /\ [DeviceNext]_deviceVars /\ [SlackNext]_slackVars
  BY <1>2, <1>3, <1>4, <1>5, <1>6, <1>7, <1>8 DEF Next
<1> QED BY <1>1, <1>9, PTL DEF Spec, SourcesSpec, RequestsSpec, InboxSpec, DoveSpec, DeviceSpec, SlackSpec

\* What a step may never do, of any part: the sources' steps, the last reply of a letter, a closed request, a
\* decision on a post and the read cursor, none of them taken back by what comes late.
THEOREM OutsideStepsKept == Spec => StepsKept
  BY PartsTogether, SourcesStepsKept, ReceivedStays, ClosedRequestsStay, DecisionsStay, ReadingNeverGoesBack, PTL
     DEF StepsKept
=============================================================================
