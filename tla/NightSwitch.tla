----------------------------- MODULE NightSwitch -----------------------------
(***************************************************************************)
(* The nightly switch and the sleeping pill (runRotation, runPill,         *)
(* runResume and runResleep of src/server/thinking-loop.ts, the rows of    *)
(* session_rotations in conversation-store.ts, the judgement of            *)
(* sleeping-pill.ts and the asking of scheduler.ts).  A switch reviews the *)
(* session in a turn that leaves a handoff, records the commit that holds  *)
(* it, lets the curator rewrite memory and points the conversation at a    *)
(* new session.  A crash or a stop may fall between any two of these.      *)
(*                                                                         *)
(* Modelled with a switching time (loop.nightlyRotationAt is not false)    *)
(* and a curator that runs.  The phases of a unit of work are              *)
(*   following - the event is off the queue, the route is being followed   *)
(*   turn      - an ordinary event's turn (EventLoop has its inside)       *)
(*   judging   - a pill reads what the night left out                      *)
(*   marking   - the place in the session is being read, before the review *)
(*   reviewing - the review turn                                           *)
(*   heading   - its end, and the reading of the memory's commit           *)
(*   curating  - the curator                                               *)
(*   creating  - the new session is being made                             *)
(* and otherwise the loop is "idle" or "down", as in EventLoop.            *)
(***************************************************************************)
EXTENDS Integers, Sequences, FiniteSets, Functions

CONSTANTS
  Nights,     \* nightly-review events
  Pills,      \* sleeping-pill events
  Others,     \* the events of every other kind, which have ordinary turns
  NoEvent,    \* stands for "no event"
  MaxNights,  \* bound on the switching times that pass
  MaxOutages, \* bound on the number of crashes and stops together
  Torn        \* whether a crash may also fall between two writes of one step

Rotations == Nights \cup Pills
Events    == Rotations \cup Others

ASSUME NightEvents ==
  /\ Nights \cap Pills = {} /\ Rotations \cap Others = {}
  /\ NoEvent \notin Events
  /\ IsFiniteSet(Events)
  /\ MaxNights \in Nat /\ MaxOutages \in Nat /\ Torn \in BOOLEAN

VARIABLES
  \* --- SQLite ---
  evState,   \* loop_events.state of each event, "none" before its row
  createdAt, \* the order in which the rows were written, 0 before
  row,       \* session_rotations: the row of the switch an event began
  session,   \* the session the conversation points at, numbered
  sessionAt, \* the night it began in: the last switching time before it
  curatedAt, \* the night of the commit the curator's base names, 0 for none
  \* --- the memory's working tree and the session file ---
  noteOf,    \* the session handoff.md was written in, 0 for none
  empty,     \* the session has no messages
  unsaid,    \* it had a turn after handoff.md was written in it
  \* --- the process ---
  phase, cur, queue,
  kind,      \* what the unit of work does, once that is decided
  asOf,      \* the night a pill is judged for, read before the await
  written,   \* the review turn has written its handoff
  draining, closing,
  asking,    \* the event whose end the scheduler waits for, or NoEvent
  askedFor,  \* the night it last asked for, 0 for none
  \* --- the clock and the history ---
  night,     \* the switching times that have passed
  outages

events  == <<evState, createdAt>>
chain   == <<row, session, sessionAt>>
note    == <<noteOf, empty, unsaid>>
work    == <<phase, cur, queue, kind, asOf, written>>
stop    == <<draining, closing>>
asked   == <<asking, askedFor>>
vars    == <<events, chain, curatedAt, note, work, stop, asked, night, outages>>

-----------------------------------------------------------------------------
Kind  == {"night", "deep", "nap", "resume", "resleep"}
Phase == {"down", "idle", "following", "turn", "judging", "marking", "reviewing",
          "heading", "curating", "creating"}

\* from and to are sessions, at the night of created_at, commit whether there is
\* a handoff_commit; note and unsaid are history: where the handoff given to the
\* new session had been written, and whether turns had followed it.
Row == [kind : Kind, state : {"reviewing", "switching", "switched", "curating",
                              "curated", "failed"},
        reason : {"", "interrupted", "create", "other"},
        from : Nat, to : Nat, at : Nat, commit : BOOLEAN, note : Nat, unsaid : BOOLEAN]
NoRow == [state |-> "none", commit |-> FALSE, at |-> 0]

TypeOK ==
  /\ evState \in [Events -> {"none", "queued", "processing", "noreply", "failed"}]
  /\ createdAt \in [Events -> Nat]
  /\ row \in [Rotations -> Row \cup {NoRow}]
  /\ session \in Nat \ {0} /\ sessionAt \in Nat /\ curatedAt \in Nat
  /\ noteOf \in Nat /\ empty \in BOOLEAN /\ unsaid \in BOOLEAN
  /\ phase \in Phase /\ cur \in Events \cup {NoEvent} /\ queue \in Seq(Events)
  /\ kind \in Kind \cup {"none"} /\ asOf \in Nat /\ written \in BOOLEAN
  /\ draining \in BOOLEAN /\ closing \in BOOLEAN
  /\ asking \in Rotations \cup {NoEvent} /\ askedFor \in Nat
  /\ night \in Nat /\ outages \in Nat

Fresh(S)   == {e \in S : evState[e] = "none"}
Pending(e) == e \in Rotations /\ evState[e] \in {"queued", "processing"}
Open(r)    == row[r].state \in {"reviewing", "switching", "curating"}
Asleep     == phase \in {"reviewing", "heading", "curating", "creating"}

\* pump(), as in EventLoop: q is the queue after the handler.
Pump(q, busy) ==
  /\ \/ busy /\ queue' = q /\ UNCHANGED <<phase, cur>>
     \/ /\ ~busy /\ (draining \/ closing \/ q = <<>>)
        /\ phase' = "idle" /\ cur' = NoEvent /\ queue' = q
     \/ /\ ~busy /\ ~draining /\ ~closing /\ q # <<>>
        /\ phase' = "following" /\ cur' = Head(q) /\ queue' = Tail(q)
  /\ IF busy THEN UNCHANGED <<kind, asOf, written>>
     ELSE kind' = "none" /\ asOf' = 0 /\ written' = FALSE

Busy == phase # "idle"

\* ORDER BY created_at, of a queue and of the first row.
InOrder(S) ==
  {q \in [1..Cardinality(S) -> S] :
     /\ Range(q) = S
     /\ \A i, j \in DOMAIN q : i < j => createdAt[q[i]] < createdAt[q[j]]}
Oldest(S) == {e \in S : \A o \in S : createdAt[e] <= createdAt[o]}

\* insertEvent, and the queue.
Raise(e) ==
  /\ evState' = [evState EXCEPT ![e] = "queued"]
  /\ createdAt' = [createdAt EXCEPT ![e] = 1 + Cardinality(Events \ Fresh(Events))]
  /\ Pump(Append(queue, e), Busy)

To(p) == phase' = p /\ UNCHANGED <<cur, queue, kind, asOf, written>>

-----------------------------------------------------------------------------
(*                    the clock, and what raises events                     *)

Nightfall ==
  /\ night < MaxNights
  /\ night' = night + 1
  /\ UNCHANGED <<events, chain, curatedAt, note, work, stop, asked, outages>>

RaiseOther(o) ==
  /\ phase # "down" /\ ~closing /\ o \in Fresh(Others)
  /\ Raise(o)
  /\ UNCHANGED <<chain, curatedAt, note, stop, asked, night, outages>>

\* Mutant: nothing pending is joined.
TakeAnyPill(p) ==
  /\ phase # "down" /\ ~closing /\ p \in Fresh(Pills)
  /\ Raise(p)
  /\ UNCHANGED <<chain, curatedAt, note, stop, asked, night, outages>>

\* takeSleepingPill(): a night or a pill pending is joined, which adds nothing.
TakePill(p) ==
  /\ phase # "down" /\ ~closing /\ p \in Fresh(Pills)
  /\ \A e \in Events : ~Pending(e)
  /\ Raise(p)
  /\ UNCHANGED <<chain, curatedAt, note, stop, asked, night, outages>>

\* Mutant: a night that has ended is joined.
JoinableForEver == {e \in Rotations : (e \in Nights /\ evState[e] # "none") \/ Pending(e)}

\* The pending events rotate() joins: a night, or a pill still in the queue.
Joinable == {e \in Rotations : Pending(e) /\ (e \in Nights \/ e \in Range(queue))}

(* switchSession() of the scheduler, once a night and process, if the       *)
(* session began before the night; rotate() joins or raises.  The scheduler *)
(* is stopped before a stop reaches the loop.                               *)
Ask ==
  /\ phase # "down" /\ ~draining
  /\ asking = NoEvent /\ askedFor # night /\ sessionAt < night
  /\ askedFor' = night
  /\ \/ /\ asking' \in Oldest(Joinable)
        /\ Pump(queue, Busy)
        /\ UNCHANGED events
     \/ /\ Joinable = {}
        /\ \E n \in Fresh(Nights) : asking' = n /\ Raise(n)
  /\ UNCHANGED <<chain, curatedAt, note, stop, night, outages>>

-----------------------------------------------------------------------------
(*                        start, crash and stop                             *)

\* Mutants: a review's row is left as it is, or closed whatever its commit.
InterruptedCurator(r) == row[r].state = "curating"
InterruptedReview(r) ==
  Open(r) /\ (row[r].state # "switching" \/ ~row[r].commit \/ row[r].from # session)

\* closeInterruptedReviews().
Interrupted(r) ==
  /\ Open(r)
  /\ row[r].state = "curating" \/ ~row[r].commit \/ row[r].from # session
ClosedRows ==
  [r \in Rotations |-> IF Interrupted(r)
     THEN [row[r] EXCEPT !.state = "failed", !.reason = "interrupted"] ELSE row[r]]

\* unfinishedRotation(): what is left open with its commit recorded.
Unfinished ==
  {r \in Rotations : /\ row[r].state \in {"reviewing", "switching"}
                     /\ row[r].commit /\ row[r].from = session}

\* Mutant: the row is not marked in the pointer's transaction.
CommitPointer(rows, r) ==
  /\ row' = [rows EXCEPT ![r] = [@ EXCEPT !.note = noteOf, !.unsaid = unsaid]]
  /\ session' = session + 1 /\ sessionAt' = night
  /\ empty' = TRUE /\ unsaid' = FALSE /\ UNCHANGED noteOf

(* commitSwitch(): the pointer and the row in one transaction.  The new     *)
(* session's instructions hold handoff.md as the working tree has it.       *)
CommitSwitch(rows, r) ==
  /\ row' = [rows EXCEPT ![r] = [@ EXCEPT !.state = "switched", !.reason = "",
               !.to = session + 1, !.note = noteOf, !.unsaid = unsaid]]
  /\ session' = session + 1 /\ sessionAt' = night
  /\ empty' = TRUE /\ unsaid' = FALSE /\ UNCHANGED noteOf

StartSession ==
  \/ \E r \in Unfinished : CommitSwitch(ClosedRows, r)
  \/ Unfinished = {} /\ row' = ClosedRows /\ UNCHANGED <<session, sessionAt, note>>

\* Mutant: the reason is written for the state.
RecoveredReason(e) == IF evState[e] = "processing" THEN "interrupted" ELSE evState[e]

\* recover(): what was being handled is closed.
RecoveredState(e) == IF evState[e] = "processing" THEN "failed" ELSE evState[e]

Start ==
  /\ phase = "down"
  /\ StartSession
  /\ evState' = [e \in Events |-> RecoveredState(e)]
  /\ \E q \in InOrder({e \in Events : evState[e] = "queued"}) : Pump(q, FALSE)
  /\ UNCHANGED <<createdAt, curatedAt, stop, asked, night, outages>>

\* The session could not be made or opened: natsumi stays unavailable.
StartFails ==
  /\ phase = "down"
  /\ row' = ClosedRows
  /\ UNCHANGED <<events, session, sessionAt, curatedAt, note, work, stop, asked, night,
                 outages>>

Down ==
  /\ phase' = "down" /\ cur' = NoEvent /\ queue' = <<>>
  /\ kind' = "none" /\ asOf' = 0 /\ written' = FALSE
  /\ draining' = FALSE /\ closing' = FALSE
  /\ asking' = NoEvent /\ askedFor' = 0
  /\ UNCHANGED <<createdAt, curatedAt, night>>

Crash ==
  /\ phase # "down" /\ outages < MaxOutages
  /\ Down /\ outages' = outages + 1
  /\ UNCHANGED <<evState, chain, note>>

\* drain(): the night's work is not waited for, other work may be.
Drain ==
  /\ phase # "down" /\ ~draining /\ outages < MaxOutages
  /\ draining' = TRUE /\ outages' = outages + 1
  /\ UNCHANGED <<events, chain, curatedAt, note, work, closing, asked, night>>

\* close(): the review's prompt and the curator are aborted.
Close ==
  /\ draining /\ ~closing
  /\ closing' = TRUE
  /\ UNCHANGED <<events, chain, curatedAt, note, work, draining, asked, night, outages>>

Exit ==
  /\ closing /\ phase = "idle"
  /\ Down
  /\ UNCHANGED <<evState, chain, note, outages>>

-----------------------------------------------------------------------------
(*                         a unit of work                                   *)

\* Mutant: the end of a unit of work does not begin the next.
FinishAndRest(s) ==
  /\ evState' = [evState EXCEPT ![cur] = s]
  /\ asking' = IF asking = cur THEN NoEvent ELSE asking
  /\ phase' = "idle" /\ cur' = NoEvent /\ kind' = "none" /\ asOf' = 0 /\ written' = FALSE
  /\ UNCHANGED <<createdAt, queue, askedFor>>

\* finishRotation() and the end of the unit: the event has its state, whoever
\* waits for it is told, and the next event begins.
Finish(s) ==
  /\ evState' = [evState EXCEPT ![cur] = s]
  /\ asking' = IF asking = cur THEN NoEvent ELSE asking
  /\ Pump(queue, FALSE)
  /\ UNCHANGED <<createdAt, askedFor>>

\* A stop began while the route was followed: the event goes back.
PutBack ==
  /\ phase = "following" /\ draining
  /\ Pump(<<cur>> \o queue, FALSE)
  /\ UNCHANGED <<events, chain, curatedAt, note, stop, asked, night, outages>>

BeginOther ==
  /\ phase = "following" /\ ~draining /\ cur \in Others
  /\ To("turn")
  /\ evState' = [evState EXCEPT ![cur] = "processing"]
  /\ empty' = FALSE /\ unsaid' = TRUE
  /\ UNCHANGED <<createdAt, chain, curatedAt, noteOf, stop, asked, night, outages>>

OtherEnds(s) ==
  /\ phase = "turn" /\ s \in {"noreply", "failed"} /\ (closing => s = "failed")
  /\ Finish(s)
  /\ UNCHANGED <<chain, curatedAt, note, stop, night, outages>>

BeginNight ==
  /\ phase = "following" /\ ~draining /\ cur \in Nights
  /\ phase' = "marking" /\ kind' = "night"
  /\ UNCHANGED <<events, chain, curatedAt, note, cur, queue, asOf, written, stop, asked,
                 night, outages>>

\* runPill(): the night is taken before the await of sleepStatus().
BeginPill ==
  /\ phase = "following" /\ ~draining /\ cur \in Pills
  /\ phase' = "judging" /\ asOf' = night
  /\ UNCHANGED <<events, chain, curatedAt, note, cur, queue, kind, written, stop, asked,
                 night, outages>>

\* Mutant: a review that left no commit counts.
ReviewBegun(n) == \E r \in Rotations : row[r].state # "none" /\ row[r].at >= n

\* judgePill(): the night's three parts, and what is missing of them.
ReviewDone(n)  == \E r \in Rotations : row[r].state # "none" /\ row[r].at >= n /\ row[r].commit
SessionDone(n) == sessionAt >= n
CuratorDone(n) == curatedAt >= n

Missing(n) ==
  IF ~ReviewDone(n) THEN "deep"
  ELSE IF ~SessionDone(n) THEN "resume"
  ELSE IF ~CuratorDone(n) THEN "resleep" ELSE "nap"

\* An empty session has no turn to review or nap in.
PillKind(n) ==
  IF ~empty \/ Missing(n) \in {"resume", "resleep"} THEN Missing(n)
  ELSE IF CuratorDone(n) THEN "none" ELSE "resleep"

\* insertRotation().
Inserted(k, s) ==
  [row EXCEPT ![cur] = [kind |-> k, state |-> s, reason |-> "", from |-> session,
                        to |-> 0, at |-> night, commit |-> FALSE, note |-> 0,
                        unsaid |-> FALSE]]

JudgeNone ==
  /\ phase = "judging" /\ PillKind(asOf) = "none"
  /\ Finish("noreply")
  /\ UNCHANGED <<chain, curatedAt, note, stop, night, outages>>

\* A pill that begins is being handled, so a crash closes it.
Judged(k) ==
  /\ phase = "judging" /\ PillKind(asOf) = k
  /\ evState' = [evState EXCEPT ![cur] = "processing"]
  /\ kind' = k
  /\ UNCHANGED <<createdAt, cur, queue, asOf, written, session, sessionAt, note, asked,
                 stop, night, outages>>

JudgeReview ==
  /\ \E k \in {"deep", "nap"} : Judged(k)
  /\ phase' = "marking"
  /\ UNCHANGED <<row, curatedAt>>

JudgeResume ==
  /\ Judged("resume") /\ ~closing
  /\ row' = Inserted("resume", "switching")
  /\ phase' = IF CuratorDone(asOf) THEN "heading" ELSE "curating"
  /\ UNCHANGED curatedAt

JudgeResleep ==
  /\ Judged("resleep") /\ ~closing
  /\ row' = Inserted("resleep", "curating")
  /\ phase' = "curating"
  /\ UNCHANGED curatedAt

\* A stop found the pill being judged: a resume's row is left open, without a
\* commit, for the next start to close.
JudgeStopped ==
  /\ phase = "judging" /\ closing
  /\ \/ PillKind(asOf) = "resume" /\ row' = Inserted("resume", "switching")
     \/ /\ PillKind(asOf) = "resleep"
        /\ row' = [Inserted("resleep", "failed") EXCEPT ![cur].reason = "other"]
  /\ Finish("failed")
  /\ UNCHANGED <<session, sessionAt, curatedAt, note, stop, night, outages>>

\* runRotation(): a session with nothing in it is not switched.
SkipEmpty ==
  /\ phase = "marking" /\ empty
  /\ Finish("noreply")
  /\ UNCHANGED <<chain, curatedAt, note, stop, night, outages>>

BeginReview ==
  /\ phase = "marking" /\ ~empty /\ row[cur] = NoRow
  /\ To("reviewing")
  /\ row' = Inserted(kind, "reviewing")
  /\ evState' = [evState EXCEPT ![cur] = "processing"]
  /\ UNCHANGED <<createdAt, session, sessionAt, curatedAt, note, stop, asked, night, outages>>

\* The row of an event is unique: inserting it again throws, nothing catches it,
\* and the process ends.
RowRefused ==
  /\ phase = "marking" /\ ~empty /\ row[cur] # NoRow
  /\ Down
  /\ UNCHANGED <<evState, chain, note, outages>>

\* write_handoff_note.
WriteHandoff ==
  /\ phase = "reviewing"
  /\ written' = TRUE
  /\ noteOf' = session /\ unsaid' = FALSE
  /\ UNCHANGED <<events, chain, curatedAt, empty, phase, cur, queue, kind, asOf, stop,
                 asked, night, outages>>

ReviewEnds(s) ==
  /\ phase = "reviewing" /\ s \in {"noreply", "failed"} /\ (closing => s = "failed")
  /\ To("heading")
  /\ evState' = [evState EXCEPT ![cur] = s]
  /\ UNCHANGED <<createdAt, chain, curatedAt, note, stop, asked, night, outages>>

FailRow(why) == row' = [row EXCEPT ![cur].state = "failed", ![cur].reason = why]

\* No handoff was written, or the memory's commit could not be read.
NoHandoff ==
  /\ phase = "heading"
  /\ FailRow("other")
  /\ Finish("failed")
  /\ UNCHANGED <<session, sessionAt, curatedAt, note, stop, night, outages>>

HandoffKept == phase = "heading" /\ (written \/ kind = "resume")

\* Mutant: the commit is not recorded before the curator and the new session.
RowWithoutCommit == row' = [row EXCEPT ![cur].state = "switching"]

\* saveHandoffCommit() and the row to "switching".
RowCommitted == row' = [row EXCEPT ![cur].commit = TRUE, ![cur].state = "switching"]

\* The curator next, except for a nap and where it has been.
CommitHandoff ==
  /\ HandoffKept /\ ~closing
  /\ RowCommitted
  /\ To(IF kind \in {"night", "deep"} THEN "curating" ELSE "creating")
  /\ UNCHANGED <<events, session, sessionAt, curatedAt, note, stop, asked, night, outages>>

\* A stop: the row stays open for the next start to finish.
CommitAndStop ==
  /\ HandoffKept /\ closing
  /\ RowCommitted
  /\ Finish("failed")
  /\ UNCHANGED <<session, sessionAt, curatedAt, note, stop, night, outages>>

\* The curator's base moves to the commit memory has by then, which may be an
\* old one, when every stage that rewrites topics went well.
Curated(ok) ==
  IF ok THEN curatedAt' \in curatedAt..night ELSE UNCHANGED curatedAt

CurateEnds(ok) ==
  /\ phase = "curating" /\ kind # "resleep" /\ ~closing
  /\ Curated(ok)
  /\ To(IF kind = "resume" THEN "heading" ELSE "creating")
  /\ UNCHANGED <<events, chain, note, stop, asked, night, outages>>

CurateStopped(ok) ==
  /\ phase = "curating" /\ kind # "resleep" /\ closing
  /\ Curated(ok)
  /\ Finish("failed")
  /\ UNCHANGED <<chain, note, stop, night, outages>>

ResleepEnds(ok) ==
  /\ phase = "curating" /\ kind = "resleep"
  /\ Curated(ok)
  /\ \/ ok /\ ~closing /\ row' = [row EXCEPT ![cur].state = "curated"] /\ Finish("noreply")
     \/ (~ok \/ closing) /\ FailRow("other") /\ Finish("failed")
  /\ UNCHANGED <<session, sessionAt, note, stop, night, outages>>

\* switchSession(), with the new session made or not.
Switch ==
  /\ phase = "creating"
  /\ CommitSwitch(row, cur)
  /\ Finish("noreply")
  /\ UNCHANGED <<curatedAt, stop, night, outages>>

CreateFails ==
  /\ phase = "creating"
  /\ FailRow("create")
  /\ Finish("failed")
  /\ UNCHANGED <<session, sessionAt, curatedAt, note, stop, night, outages>>

-----------------------------------------------------------------------------
(*        a crash between two writes of one step (Torn only)                *)

\* The row of the switch is written, the event's is not yet.
TornRow ==
  /\ UNCHANGED evState
  /\ \/ phase = "creating" /\ CommitSwitch(row, cur)
     \/ /\ UNCHANGED <<session, sessionAt, note>>
        /\ \/ /\ phase = "marking" /\ ~empty /\ row[cur] = NoRow
              /\ row' = Inserted(kind, "reviewing")
           \/ phase = "heading" /\ FailRow("other")
           \/ /\ phase = "curating" /\ kind = "resleep"
              /\ FailRow("other") \/ row' = [row EXCEPT ![cur].state = "curated"]
           \/ phase = "creating" /\ FailRow("create")

\* The commit is recorded, the state is not; a pill is being handled without a
\* row; a start has finished a switch and recovered no event.
TornCommit ==
  /\ HandoffKept /\ row' = [row EXCEPT ![cur].commit = TRUE]
  /\ UNCHANGED <<evState, session, sessionAt, note>>
TornPill ==
  /\ phase = "judging" /\ PillKind(asOf) # "none"
  /\ evState' = [evState EXCEPT ![cur] = "processing"]
  /\ UNCHANGED <<chain, note>>
TornStart ==
  /\ phase = "down" /\ StartSession /\ UNCHANGED evState

TornCrash ==
  /\ Torn /\ outages < MaxOutages
  /\ TornRow \/ TornCommit \/ TornPill \/ TornStart
  /\ Down /\ outages' = outages + 1

-----------------------------------------------------------------------------
Init ==
  /\ evState = [e \in Events |-> "none"] /\ createdAt = [e \in Events |-> 0]
  /\ row = [r \in Rotations |-> NoRow]
  /\ session = 1 /\ sessionAt = 1 /\ curatedAt = 0
  /\ noteOf = 0 /\ empty = TRUE /\ unsaid = FALSE
  /\ phase = "down" /\ cur = NoEvent /\ queue = <<>>
  /\ kind = "none" /\ asOf = 0 /\ written = FALSE
  /\ draining = FALSE /\ closing = FALSE
  /\ asking = NoEvent /\ askedFor = 0
  /\ night = 1 /\ outages = 0

Process == Start \/ StartFails \/ Crash \/ TornCrash \/ Drain \/ Close \/ Exit

Incoming ==
  \/ \E o \in Others : RaiseOther(o)
  \/ \E p \in Pills : TakePill(p)
  \/ Ask

Work ==
  \/ PutBack \/ BeginOther \/ BeginNight \/ BeginPill
  \/ JudgeNone \/ JudgeReview \/ JudgeResume \/ JudgeResleep \/ JudgeStopped
  \/ SkipEmpty \/ BeginReview \/ RowRefused
  \/ NoHandoff \/ CommitHandoff \/ CommitAndStop
  \/ Switch \/ CreateFails
  \/ \E s \in {"noreply", "failed"} : OtherEnds(s) \/ ReviewEnds(s)
  \/ \E ok \in BOOLEAN : CurateEnds(ok) \/ CurateStopped(ok) \/ ResleepEnds(ok)

Next == Nightfall \/ Process \/ Incoming \/ Work \/ WriteHandoff

Spec == Init /\ [][Next]_vars

(* The process is started again until it starts; what the loop awaits comes *)
(* back (turns and the curator's stages have time limits, the rest is git   *)
(* and files); a stop goes from drain() on to close(); the scheduler ticks. *)
Fairness ==
  /\ WF_vars(Start) /\ WF_vars(Close) /\ WF_vars(Exit)
  /\ WF_vars(Work) /\ WF_vars(Ask)

FairSpec == Spec /\ Fairness

-----------------------------------------------------------------------------
(*                             correctness                                  *)

Switched == {r \in Rotations : row[r].state = "switched"}

(* The sessions form one chain: each session after the first was made by    *)
(* exactly one switch, from the one before it, whatever crashed between.    *)
SessionChain ==
  /\ \A r \in Switched : row[r].to = row[r].from + 1 /\ row[r].to <= session
  /\ \A s \in 2..session : \E r \in Switched : row[r].to = s
  /\ \A r, q \in Switched : row[r].to = row[q].to => r = q

(* A switch left open is the one under way, or the one a stop left for the  *)
(* next start; there are never two, of which a start would finish one.      *)
OneOpenSwitch ==
  /\ \A r, q \in Rotations : Open(r) /\ Open(q) => r = q
  /\ phase # "down" /\ ~closing => \A r \in Rotations : Open(r) => r = cur /\ Asleep

(* No session starts from nothing (ADR 0020), nor from an older session's   *)
(* note: the handoff a new session is given was written in the session it   *)
(* replaces, and its row names a commit.                                    *)
FromItsOwnHandoff == \A r \in Switched : row[r].commit /\ row[r].note = row[r].from

(* Once the commit of its handoff is recorded a switch is finished, now or  *)
(* by the next start (ADR 0009), unless the session could not be made.      *)
CommittedIsFinished ==
  \A r \in Rotations : row[r].commit /\ row[r].state = "failed" => row[r].reason = "create"

(* A new session knows of everything its predecessor did, as its handoff    *)
(* was written after the last turn; only a resume, by day, may start from   *)
(* the note of the night before (ADR 0077).                                 *)
NothingUnsaidLost == \A r \in Switched : row[r].unsaid => row[r].kind = "resume"

(* Of nights and pills at most two are pending, one under way and one that  *)
(* waits behind it (pendingRotations), so a join finds what it looks for.   *)
TwoPendingAtMost == Cardinality({e \in Rotations : Pending(e)}) <= 2

(* What was done in a night is not done again for it: a pill is judged to   *)
(* resume or to sleep deep only while that part is missing, also when its   *)
(* row is written later than it was judged.                                 *)
ResumeIsNeeded ==
  [][\A r \in Rotations :
       row[r] = NoRow /\ row'[r] # NoRow /\ row'[r].kind = "resume"
         => /\ sessionAt < asOf
            /\ \E q \in Rotations : row[q].commit /\ row[q].from = session]_vars

(* The scheduler, which waits for the switch it asked for before it asks    *)
(* again, always gets an answer: no waiter is lost in a join, a put-back, a *)
(* refusal or a stop.                                                       *)
AskIsAnswered == asking # NoEvent ~> asking = NoEvent

(* A pill that was taken is handled in the end.                             *)
PillEnds == \A p \in Pills : evState[p] = "queued" ~> evState[p] \in {"noreply", "failed"}

(* The switches keep what Handover promises of them, whatever crashes and   *)
(* stops fall between their writes.                                         *)
Status(r) == IF Open(r) THEN (IF row[r].commit THEN "committed" ELSE "open")
             ELSE row[r].state
Promise == INSTANCE Handover WITH
  Switches <- Rotations,
  status   <- [r \in Rotations |-> Status(r)],
  at       <- session
KeepsHandover == Promise!Safety

(* Every switch ends, over crashes, stops and restarts too: none is left    *)
(* open for ever.                                                           *)
SwitchEnds == Promise!Ends

(* The sessions are one chain, and each begins with the handoff its         *)
(* predecessor wrote and committed.                                         *)
ChainOfHandoffs == SessionChain /\ FromItsOwnHandoff

(* One switch is open at a time, one that is committed is finished, and     *)
(* what was done after the handoff is lost by a resume alone.               *)
SwitchesWhole == OneOpenSwitch /\ CommittedIsFinished /\ NothingUnsaidLost

-----------------------------------------------------------------------------
(*          what the documents say and the code does not keep               *)

(* ADR 0077: "a pill taken while a night or an earlier pill waits or runs   *)
(* joins it; she does not sleep twice".                                     *)
SleepsOnce ==
  [][Asleep => \A p \in Pills : evState[p] = "none" => evState'[p] = "none"]_vars

(* ADR 0077: when the night's time comes and a pill that has not begun      *)
(* waits, the night joins it.                                               *)
NightJoinsPill ==
  [][\A n \in Nights : evState[n] = "none" /\ evState'[n] = "queued"
       => \A p \in Pills : evState[p] = "queued" => p = cur /\ phase = "judging"]_vars

(* ADR 0077: "it does not happen that the review is missing and the new     *)
(* session alone is done".                                                  *)
NoSessionWithoutReview == session > 1 /\ SessionDone(night) => ReviewDone(night)

(* An event begins one switch at most: the schema keeps session_rotations'  *)
(* event_id UNIQUE.                                                         *)
RowIsFree == phase = "marking" /\ ~empty => row[cur] = NoRow

=============================================================================
