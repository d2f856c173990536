-------------------------- MODULE NightSwitch_proofs --------------------------
(***************************************************************************)
(* NightSwitch proved for every set of nights, pills and other events, and *)
(* any number of switching times, crashes and stops: whatever falls        *)
(* between two of its writes, there is one open switch, the sessions form  *)
(* a chain, each from its own committed handoff, and Handover is kept.     *)
(* The inductive invariant has a part about the events and the queue, and  *)
(* a part about the rows of the switches and the note they share.          *)
(***************************************************************************)
EXTENDS NightSwitch, QueueLemmas, FiniteSetTheorems

Working   == phase \notin {"down", "idle"}
Rotating  == phase = "marking" \/ Asleep

\* What waits is queued and in the queue once; what is worked on is not in it.
QueueRows ==
  /\ \A e \in Range(queue) : evState[e] = "queued"
  /\ IsInjective(queue)
  /\ Working => cur \in Events /\ evState[cur] # "none" /\ cur \notin Range(queue)
  /\ phase \in {"following", "judging"} => evState[cur] = "queued"
  /\ phase = "judging" => cur \in Pills
  /\ Rotating => cur \in Rotations

\* A pill has no row before it has begun, and has begun before it is reviewed.
PillRows ==
  /\ \A p \in Pills : evState[p] \in {"none", "queued"} => row[p] = NoRow
  /\ Rotating /\ cur \in Pills => evState[cur] # "queued"

\* Which kinds come to which part of the work.
KindOfWork ==
  /\ phase \in {"marking", "reviewing"} => kind \in {"night", "deep", "nap"}
  /\ phase \in {"heading", "creating"} => kind \in {"night", "deep", "nap", "resume"}
  /\ phase = "curating" => kind \in {"night", "deep", "resume", "resleep"}

\* The row of the switch under way, in each part of it.
RowOfWork ==
  Asleep =>
    /\ Open(cur) /\ row[cur].kind = kind
    /\ row[cur].commit <=> phase = "creating" \/ (phase = "curating" /\ kind \in {"night", "deep"})
    /\ row[cur].state = "curating" <=> kind = "resleep"

\* An open switch is of this session, and one left open has what a start reads.
OpenRows ==
  /\ Working => \A r \in Rotations : Open(r) => r = cur /\ Asleep
  /\ \A r \in Rotations : Open(r) =>
       /\ row[r].from = session
       /\ row[r].state = "curating" => ~row[r].commit
       /\ row[r].commit /\ unsaid => row[r].kind = "resume"

\* A commit of this session means its note is this session's, and a commit later
\* than its beginning is of this session.
CommitRows ==
  /\ sessionAt <= night /\ asOf <= night
  /\ \A r \in Rotations : row[r] # NoRow => row[r].from <= session /\ row[r].at <= night
  /\ \A r \in Rotations : row[r].commit =>
       /\ row[r].at > sessionAt => row[r].from = session
       /\ row[r].from = session => noteOf = session

\* A review's note is written in it; a resume uses the session's.
NoteOfWork ==
  /\ written => Asleep /\ noteOf = session /\ ~unsaid
  /\ Asleep /\ kind = "resume" => noteOf = session

IInv ==
  /\ TypeOK /\ QueueRows /\ PillRows /\ KindOfWork /\ RowOfWork /\ OpenRows
  /\ CommitRows /\ NoteOfWork
  /\ SessionChain /\ OneOpenSwitch /\ FromItsOwnHandoff /\ CommittedIsFinished
  /\ NothingUnsaidLost

-----------------------------------------------------------------------------
(*                     events, rows and the queue                           *)

USE DEF events, chain, note, work, stop, asked

LEMMA KindsOfEvents ==
  /\ Nights \subseteq Rotations /\ Pills \subseteq Rotations /\ Rotations \subseteq Events
  /\ Others \subseteq Events /\ NoEvent \notin Events
  /\ Nights \cap Pills = {} /\ Rotations \cap Others = {}
  BY NightEvents DEF Rotations, Events

\* What every value of row[r] has.
LEMMA RowFacts ==
  ASSUME TypeOK, NEW r \in Rotations
  PROVE  /\ row[r] \in Row \/ row[r] = NoRow
         /\ row[r].commit \in BOOLEAN /\ row[r].at \in Nat
         /\ row[r] = NoRow <=> row[r].state = "none"
         /\ row[r].commit \/ row[r] # NoRow => row[r] \in Row
<1>1. row[r] \in Row \/ row[r] = NoRow
  BY DEF TypeOK
<1>2. CASE row[r] = NoRow
  BY <1>2 DEF NoRow, Row
<1>3. CASE row[r] \in Row
  <2>1. row[r].state # "none" /\ row[r].commit \in BOOLEAN /\ row[r].at \in Nat
    BY <1>3 DEF Row
  <2>2. row[r] # NoRow
    BY <2>1 DEF NoRow
  <2> QED BY <1>3, <2>1, <2>2
<1> QED BY <1>1, <1>2, <1>3

\* The ways a row is written.
LEMMA RowWritten ==
  ASSUME NEW x \in Row, NEW w \in {"", "interrupted", "create", "other"},
         NEW s \in {"reviewing", "switching", "switched", "curating", "curated", "failed"}
  PROVE  /\ [x EXCEPT !.state = s] \in Row
         /\ [x EXCEPT !.state = s, !.reason = w] \in Row
         /\ [x EXCEPT !.commit = TRUE] \in Row
         /\ [x EXCEPT !.commit = TRUE, !.state = s] \in Row
  BY DEF Row

\* pump() with nothing running: q is rest of the queue.
LEMMA PumpAtRest ==
  ASSUME NEW q \in Seq(Events), IsInjective(q), Pump(q, FALSE)
  PROVE  /\ queue' \in Seq(Events) /\ IsInjective(queue') /\ Range(queue') \subseteq Range(q)
         /\ kind' = "none" /\ asOf' = 0 /\ written' = FALSE
         /\ \/ phase' = "idle" /\ cur' = NoEvent
            \/ /\ phase' = "following" /\ cur' \in Range(q) /\ cur' \in Events
               /\ cur' \notin Range(queue') /\ ~draining /\ ~closing
<1>1. kind' = "none" /\ asOf' = 0 /\ written' = FALSE
  BY DEF Pump
<1>2. CASE phase' = "idle" /\ cur' = NoEvent /\ queue' = q
  BY <1>1, <1>2
<1>3. CASE /\ q # <<>> /\ phase' = "following" /\ cur' = Head(q) /\ queue' = Tail(q)
           /\ ~draining /\ ~closing
  <2>1. /\ Head(q) \in Events /\ Head(q) \in Range(q) /\ Tail(q) \in Seq(Events)
        /\ Range(Tail(q)) = Range(q) \ {Head(q)} /\ IsInjective(Tail(q))
    BY <1>3, TailQueue
  <2> QED BY <1>1, <1>3, <2>1
<1> QED BY <1>2, <1>3 DEF Pump

-----------------------------------------------------------------------------
(*                  what a step does to the events                          *)

EventType ==
  /\ evState \in [Events -> {"none", "queued", "processing", "noreply", "failed"}]
  /\ createdAt \in [Events -> Nat]
  /\ phase \in Phase /\ cur \in Events \cup {NoEvent} /\ queue \in Seq(Events)
  /\ kind \in Kind \cup {"none"} /\ asOf \in Nat /\ written \in BOOLEAN
  /\ asking \in Rotations \cup {NoEvent} /\ askedFor \in Nat

\* What a unit of work that has ended leaves.
AtRest ==
  /\ phase \in {"idle", "following"} /\ kind = "none" /\ asOf = 0 /\ written = FALSE
  /\ phase = "following" => ~draining /\ ~closing

LEMMA FinishQueue ==
  ASSUME TypeOK, QueueRows, Working, UNCHANGED stop,
         NEW s \in {"noreply", "failed"}, Finish(s)
  PROVE  EventType' /\ QueueRows' /\ AtRest' /\ ~Asleep'
         /\ \A e \in Events : evState'[e] = IF e = cur THEN s ELSE evState[e]
<1>1. /\ queue \in Seq(Events) /\ IsInjective(queue) /\ Pump(queue, FALSE)
      /\ cur \in Events /\ cur \notin Range(queue)
      /\ \A e \in Range(queue) : e \in Events /\ evState[e] = "queued"
  BY RangeIn DEF Finish, TypeOK, QueueRows
<1>2. /\ queue' \in Seq(Events) /\ IsInjective(queue') /\ Range(queue') \subseteq Range(queue)
      /\ kind' = "none" /\ asOf' = 0 /\ written' = FALSE
      /\ \/ phase' = "idle" /\ cur' = NoEvent
         \/ /\ phase' = "following" /\ cur' \in Range(queue) /\ cur' \in Events
            /\ cur' \notin Range(queue') /\ ~draining /\ ~closing
  BY <1>1, PumpAtRest
<1>3. \A e \in Events : evState'[e] = IF e = cur THEN s ELSE evState[e]
  BY DEF Finish, TypeOK
<1>4. EventType'
  <2>1. evState' \in [Events -> {"none", "queued", "processing", "noreply", "failed"}]
    BY DEF Finish, TypeOK
  <2>2. asking' \in Rotations \cup {NoEvent} /\ UNCHANGED <<createdAt, askedFor>>
    BY DEF Finish, TypeOK
  <2> QED BY <1>2, <2>1, <2>2 DEF EventType, TypeOK, Phase
<1>5. ~Asleep' /\ AtRest'
  BY <1>2 DEF Asleep, AtRest
<1>6. \A e \in Range(queue) : evState'[e] = "queued"
  BY <1>1, <1>3
<1>7. QueueRows'
  BY <1>2, <1>5, <1>6 DEF QueueRows, Working, Rotating, Asleep
<1> QED BY <1>3, <1>4, <1>5, <1>7

\* An event is raised.
LEMMA RaiseQueue ==
  ASSUME TypeOK, QueueRows, UNCHANGED stop, NEW e \in Events, evState[e] = "none", Raise(e),
         phase # "down", asking' \in Rotations \cup {NoEvent}, askedFor' \in Nat
  PROVE  /\ EventType' /\ QueueRows'
         /\ \A x \in Events : evState'[x] = IF x = e THEN "queued" ELSE evState[x]
         /\ \/ UNCHANGED <<phase, cur, kind, asOf, written>> /\ Working
            \/ phase = "idle" /\ AtRest'
<1>1. /\ queue \in Seq(Events) /\ IsInjective(queue)
      /\ \A x \in Range(queue) : x \in Events /\ evState[x] = "queued"
  BY RangeIn DEF TypeOK, QueueRows
<1>2. e \notin Range(queue)
  BY <1>1
<1>3. /\ Append(queue, e) \in Seq(Events) /\ IsInjective(Append(queue, e))
      /\ Range(Append(queue, e)) = Range(queue) \cup {e}
  BY <1>1, <1>2, AppendQueue
<1>4. \A x \in Events : evState'[x] = IF x = e THEN "queued" ELSE evState[x]
  BY DEF Raise, TypeOK
<1>5. /\ evState' \in [Events -> {"none", "queued", "processing", "noreply", "failed"}]
      /\ createdAt' \in [Events -> Nat]
  <2>1. IsFiniteSet(Events \ Fresh(Events))
    BY NightEvents, FS_Subset DEF Fresh
  <2>2. 1 + Cardinality(Events \ Fresh(Events)) \in Nat
    BY <2>1, FS_CardinalityType
  <2> QED BY <2>2 DEF Raise, TypeOK
<1>6. \A x \in Range(queue) \cup {e} : x \in Events /\ evState'[x] = "queued"
  BY <1>1, <1>4
<1>7. CASE Busy
  <2>1. queue' = Append(queue, e) /\ UNCHANGED <<phase, cur, kind, asOf, written>>
    BY <1>7 DEF Raise, Pump
  <2>2. Working /\ cur \in Events /\ cur # e /\ evState'[cur] = evState[cur]
    BY <1>4, <1>7 DEF Busy, Working, QueueRows
  <2>3. QueueRows'
    BY <1>3, <1>6, <2>1, <2>2 DEF QueueRows, Working, Rotating, Asleep
  <2>4. EventType'
    BY <1>3, <1>5, <2>1 DEF EventType, TypeOK
  <2> QED BY <1>4, <2>1, <2>2, <2>3, <2>4
<1>8. CASE ~Busy
  <2>1. phase = "idle" /\ Pump(Append(queue, e), FALSE)
    BY <1>8 DEF Raise, Busy
  <2>2. /\ queue' \in Seq(Events) /\ IsInjective(queue')
        /\ Range(queue') \subseteq Range(queue) \cup {e}
        /\ kind' = "none" /\ asOf' = 0 /\ written' = FALSE
        /\ \/ phase' = "idle" /\ cur' = NoEvent
           \/ /\ phase' = "following" /\ cur' \in Range(queue) \cup {e} /\ cur' \in Events
              /\ cur' \notin Range(queue') /\ ~draining /\ ~closing
    BY <1>3, <2>1, PumpAtRest
  <2>3. QueueRows'
    BY <1>6, <2>2 DEF QueueRows, Working, Rotating, Asleep
  <2>4. EventType' /\ AtRest'
    BY <1>5, <2>2 DEF EventType, AtRest, Phase
  <2> QED BY <1>4, <2>1, <2>3, <2>4
<1> QED BY <1>7, <1>8

\* A unit of work goes on, with the same event.
LEMMA BusyQueue ==
  ASSUME TypeOK, QueueRows, Working, Working', UNCHANGED <<cur, queue>>,
         \A e \in Events : e # cur => evState'[e] = evState[e],
         evState'[cur] # "none",
         phase' \in {"following", "judging"} => evState'[cur] = "queued",
         phase' = "judging" => cur \in Pills,
         Rotating' => cur \in Rotations
  PROVE  QueueRows'
<1>1. \A e \in Range(queue) : e \in Events /\ e # cur /\ evState[e] = "queued"
  BY RangeIn DEF TypeOK, QueueRows
<1> QED BY <1>1 DEF QueueRows

\* The process has ended.
LEMMA DownQueue ==
  ASSUME TypeOK, Down,
         evState' \in [Events -> {"none", "queued", "processing", "noreply", "failed"}]
  PROVE  /\ EventType' /\ QueueRows' /\ ~Asleep' /\ ~Working' /\ ~Rotating'
         /\ phase' = "down" /\ draining' = FALSE /\ closing' = FALSE
         /\ kind' = "none" /\ asOf' = 0 /\ written' = FALSE
         /\ UNCHANGED <<curatedAt, night>>
<1>1. /\ phase' = "down" /\ queue' = <<>> /\ draining' = FALSE /\ closing' = FALSE
      /\ kind' = "none" /\ asOf' = 0 /\ written' = FALSE
      /\ cur' = NoEvent /\ asking' = NoEvent /\ askedFor' = 0
      /\ UNCHANGED <<createdAt, curatedAt, night>>
  BY DEF Down
<1>2. <<>> \in Seq(Events)
  BY EmptySeq
<1>3. ~Asleep' /\ ~Working' /\ ~Rotating'
  BY <1>1 DEF Asleep, Working, Rotating
<1>4. EventType'
  BY <1>1, <1>2 DEF EventType, TypeOK, Phase
<1>5. QueueRows'
  BY <1>1, <1>3, EmptyQueue DEF QueueRows
<1> QED BY <1>1, <1>3, <1>4, <1>5

\* The queue a start recovers holds each queued event once, in order of time.
LEMMA RecoveredQueue ==
  ASSUME TypeOK, NEW S \in SUBSET Events, NEW q \in InOrder(S)
  PROVE  q \in Seq(Events) /\ Range(q) = S /\ IsInjective(q)
<1>1. Cardinality(S) \in Nat
  BY NightEvents, FS_Subset, FS_CardinalityType
<1>2. q \in [1..Cardinality(S) -> S] /\ Range(q) = S
  BY DEF InOrder
<1>3. q \in Seq(Events)
  BY <1>1, <1>2
<1>4. \A i, j \in DOMAIN q : i < j => createdAt[q[i]] < createdAt[q[j]]
  BY DEF InOrder
<1>5. \A i \in DOMAIN q : createdAt[q[i]] \in Nat
  BY <1>2 DEF TypeOK
<1>6. IsInjective(q)
  <2> SUFFICES ASSUME NEW i \in DOMAIN q, NEW j \in DOMAIN q, q[i] = q[j] PROVE i = j
    BY DEF IsInjective
  <2>1. i \in Nat /\ j \in Nat
    BY <1>1, <1>2
  <2>2. ~(i < j) /\ ~(j < i)
    BY <1>4, <1>5
  <2> QED BY <2>1, <2>2
<1> QED BY <1>2, <1>3, <1>6

\* The queue a start reads.
LEMMA StartQueue ==
  ASSUME TypeOK, UNCHANGED <<createdAt, stop, asked>>,
         evState' = [e \in Events |-> RecoveredState(e)],
         NEW q \in InOrder({e \in Events : evState[e] = "queued"}), Pump(q, FALSE)
  PROVE  /\ EventType' /\ QueueRows' /\ AtRest' /\ ~Asleep'
         /\ \A e \in Events : evState'[e] = RecoveredState(e)
<1> DEFINE S == {e \in Events : evState[e] = "queued"}
<1>4. q \in Seq(Events) /\ Range(q) = S /\ IsInjective(q)
  BY RecoveredQueue
<1>5. /\ queue' \in Seq(Events) /\ IsInjective(queue') /\ Range(queue') \subseteq S
      /\ kind' = "none" /\ asOf' = 0 /\ written' = FALSE
      /\ \/ phase' = "idle" /\ cur' = NoEvent
         \/ /\ phase' = "following" /\ cur' \in S /\ cur' \in Events
            /\ cur' \notin Range(queue') /\ ~draining /\ ~closing
  BY <1>4, PumpAtRest
<1>6. \A e \in Events : evState'[e] = RecoveredState(e)
  OBVIOUS
<1>7. evState' \in [Events -> {"none", "queued", "processing", "noreply", "failed"}]
  BY DEF RecoveredState, TypeOK
<1>8. \A e \in S : evState'[e] = "queued"
  BY DEF RecoveredState
<1>9. EventType' /\ AtRest' /\ ~Asleep'
  BY <1>5, <1>7 DEF EventType, AtRest, Asleep, TypeOK, Phase
<1>10. QueueRows'
  BY <1>5, <1>8, <1>9 DEF QueueRows, Working, Rotating, Asleep
<1> QED BY <1>6, <1>9, <1>10

-----------------------------------------------------------------------------
(*                   what a step does to the rows                           *)

\* The invariants about switches that have ended.
Chain == SessionChain /\ FromItsOwnHandoff /\ CommittedIsFinished /\ NothingUnsaidLost

\* Nothing becomes or was switched where a row is written.
LEMMA ChainKept ==
  ASSUME Chain, session' = session,
         \A r \in Rotations :
           \/ row'[r] = row[r]
           \/ /\ row[r].state # "switched" /\ row'[r].state # "switched"
              /\ row'[r].commit /\ row'[r].state = "failed" => row'[r].reason = "create"
  PROVE  Chain'
<1>1. /\ Switched' = Switched
      /\ \A r \in Switched : row'[r] = row[r]
  BY DEF Switched
<1>2. SessionChain'
  BY <1>1 DEF Chain, SessionChain
<1>3. FromItsOwnHandoff' /\ NothingUnsaidLost'
  BY <1>1 DEF Chain, FromItsOwnHandoff, NothingUnsaidLost
<1>4. CommittedIsFinished'
  BY DEF Chain, CommittedIsFinished
<1> QED BY <1>2, <1>3, <1>4 DEF Chain

\* The conversation moves by a switch that is open and committed.
LEMMA ChainMoves ==
  ASSUME TypeOK, Chain, OneOpenSwitch, OpenRows, CommitRows,
         NEW r \in Rotations, Open(r), row[r].commit,
         row' = [row EXCEPT ![r] = [@ EXCEPT !.state = "switched", !.reason = "",
                   !.to = session + 1, !.note = noteOf, !.unsaid = unsaid]],
         session' = session + 1
  PROVE  /\ Chain'
         /\ \A q \in Rotations : row'[q].state \notin {"reviewing", "switching", "curating"}
         /\ row' \in [Rotations -> Row \cup {NoRow}]
         /\ row'[r].from = session /\ row'[r].at = row[r].at
         /\ \A q \in Rotations : q # r => row'[q] = row[q]
<1>1. row[r] \in Row /\ row \in [Rotations -> Row \cup {NoRow}] /\ session \in Nat \ {0}
      /\ noteOf \in Nat /\ unsaid \in BOOLEAN
  BY RowFacts DEF TypeOK
<1>2. /\ row'[r] \in Row /\ row'[r].state = "switched" /\ row'[r].to = session + 1
      /\ row'[r].note = noteOf /\ row'[r].unsaid = unsaid /\ row'[r].commit = row[r].commit
      /\ row'[r].from = row[r].from /\ row'[r].kind = row[r].kind /\ row'[r].at = row[r].at
  <2> DEFINE new == [row[r] EXCEPT !.state = "switched", !.reason = "", !.to = session + 1,
                                   !.note = noteOf, !.unsaid = unsaid]
  <2>1. row'[r] = new
    BY <1>1
  <2>2. new \in Row
    <3>1. session + 1 \in Nat
      BY <1>1
    <3>2. \A t \in Nat : [row[r] EXCEPT !.state = "switched", !.reason = "", !.to = t] \in Row
      BY <1>1 DEF Row
    <3>3. \A x \in Row, n \in Nat, u \in BOOLEAN : [x EXCEPT !.note = n, !.unsaid = u] \in Row
      BY DEF Row
    <3> QED BY <1>1, <3>1, <3>2, <3>3
  <2>3. /\ new.state = "switched" /\ new.to = session + 1 /\ new.note = noteOf
        /\ new.unsaid = unsaid /\ new.commit = row[r].commit /\ new.from = row[r].from
        /\ new.kind = row[r].kind /\ new.at = row[r].at
    BY <1>1 DEF Row
  <2> QED BY <2>1, <2>2, <2>3
<1>3. \A q \in Rotations : q # r => row'[q] = row[q]
  BY <1>1
<1>4. row' \in [Rotations -> Row \cup {NoRow}]
  BY <1>1, <1>2
<1>5. /\ row[r].from = session /\ (unsaid => row[r].kind = "resume") /\ noteOf = session
  BY DEF OpenRows, CommitRows
<1>6. \A q \in Rotations : q # r => ~Open(q)
  BY DEF OneOpenSwitch
<1>7. Switched' = Switched \cup {r} /\ r \notin Switched
  BY <1>2, <1>3 DEF Switched, Open
<1>8. SessionChain'
  <2>1. \A q \in Switched : row'[q] = row[q] /\ q \in Rotations /\ row[q] \in Row
    BY <1>3, <1>7, RowFacts DEF Switched, NoRow
  <2>2. \A q \in Switched : row[q].to \in Nat /\ row[q].to \leq session
    BY <2>1 DEF Row, Chain, SessionChain
  <2>3. ASSUME NEW q \in Switched' PROVE row'[q].to = row'[q].from + 1 /\ row'[q].to <= session'
    BY <1>1, <1>2, <1>5, <1>7, <2>1, <2>2 DEF Chain, SessionChain
  <2>4. ASSUME NEW s \in 2..session' PROVE \E q \in Switched' : row'[q].to = s
    <3>1. CASE s = session + 1
      BY <1>2, <1>7, <3>1
    <3>2. CASE s \in 2..session
      BY <1>7, <2>1, <3>2 DEF Chain, SessionChain
    <3> QED BY <1>1, <3>1, <3>2
  <2>5. ASSUME NEW p \in Switched', NEW q \in Switched', row'[p].to = row'[q].to PROVE p = q
    BY <1>1, <1>2, <1>7, <2>1, <2>2, <2>5 DEF Chain, SessionChain
  <2> QED BY <2>3, <2>4, <2>5 DEF SessionChain
<1>9. FromItsOwnHandoff' /\ NothingUnsaidLost'
  BY <1>2, <1>3, <1>5, <1>7 DEF Chain, FromItsOwnHandoff, NothingUnsaidLost, Switched
<1>10. CommittedIsFinished'
  BY <1>2, <1>3 DEF Chain, CommittedIsFinished
<1> QED BY <1>2, <1>3, <1>4, <1>5, <1>6, <1>8, <1>9, <1>10 DEF Chain, Open

\* What waits in the rows, as the steps below preserve it.
RowInv == PillRows /\ OpenRows /\ CommitRows /\ Chain /\ OneOpenSwitch

\* No row is written.
LEMMA SameRows ==
  ASSUME IInv, UNCHANGED <<row, session, sessionAt, noteOf>>,
         night' \in Nat, night <= night', asOf' <= night',
         \A p \in Pills : evState'[p] \in {"none", "queued"} => evState[p] \in {"none", "queued"},
         Rotating' /\ cur' \in Pills => evState'[cur'] # "queued",
         unsaid' => unsaid \/ \A r \in Rotations : ~Open(r),
         (Working' \/ (phase' # "down" /\ ~closing')) =>
           \A r \in Rotations : Open(r) => r = cur' /\ Asleep'
  PROVE  RowInv'
<1>1. PillRows'
  BY DEF IInv, PillRows
<1>2. OpenRows' /\ OneOpenSwitch'
  BY DEF IInv, OpenRows, OneOpenSwitch, Open
<1>3. CommitRows'
  <2>1. sessionAt \in Nat /\ night \in Nat /\ \A r \in Rotations : row[r].at \in Nat
    BY RowFacts DEF IInv, TypeOK
  <2> QED BY <2>1 DEF IInv, CommitRows
<1>4. Chain'
  BY ChainKept DEF IInv, Chain
<1> QED BY <1>1, <1>2, <1>3, <1>4 DEF RowInv

\* The row of the event worked on is written, and no other is open.
LEMMA OneRowWritten ==
  ASSUME IInv, UNCHANGED <<session, sessionAt, noteOf, unsaid, night>>, asOf' <= night,
         cur \in Rotations, NEW new \in Row, row' = [row EXCEPT ![cur] = new],
         \A q \in Rotations : q # cur => ~Open(q),
         row[cur].state # "switched", new.state # "switched",
         new.from = session, new.at <= night,
         new.commit => noteOf = session,
         new.commit /\ new.state = "failed" => new.reason = "create",
         new.state \in {"reviewing", "switching", "curating"} =>
           /\ new.state = "curating" => ~new.commit
           /\ new.commit /\ unsaid => new.kind = "resume"
           /\ Working' \/ (phase' # "down" /\ ~closing') => cur = cur' /\ Asleep',
         \A p \in Pills : evState'[p] \in {"none", "queued"} =>
                            evState[p] \in {"none", "queued"} /\ p # cur,
         Rotating' /\ cur' \in Pills => evState'[cur'] # "queued"
  PROVE  RowInv' /\ row' \in [Rotations -> Row \cup {NoRow}] /\ row'[cur] = new
<1>1. /\ row' \in [Rotations -> Row \cup {NoRow}] /\ row'[cur] = new
      /\ \A q \in Rotations : q # cur => row'[q] = row[q]
  BY DEF IInv, TypeOK
<1>2. PillRows'
  BY <1>1 DEF IInv, PillRows
<1>3. OneOpenSwitch'
  BY <1>1 DEF IInv, OneOpenSwitch, Open, Working, Asleep
<1>4. OpenRows'
  BY <1>1 DEF IInv, OpenRows, Open
<1>5. CommitRows'
  <2>1. sessionAt \in Nat /\ night \in Nat /\ session \in Nat
    BY DEF IInv, TypeOK
  <2> QED BY <1>1, <2>1 DEF IInv, CommitRows
<1>6. Chain'
  BY <1>1, ChainKept DEF IInv, Chain
<1> QED BY <1>1, <1>2, <1>3, <1>4, <1>5, <1>6 DEF RowInv

-----------------------------------------------------------------------------
(*                   steps that end a unit of work                          *)

\* The parts of IInv about the work in progress.
WorkInv == KindOfWork /\ RowOfWork /\ NoteOfWork

LEMMA Assemble ==
  ASSUME TypeOK', QueueRows', RowInv', WorkInv' PROVE IInv'
  BY DEF IInv, RowInv, WorkInv, Chain

LEMMA NoWork ==
  ASSUME phase' \in {"down", "idle", "following"}, written' = FALSE
  PROVE  WorkInv' /\ ~Asleep' /\ ~Rotating'
  BY DEF WorkInv, KindOfWork, RowOfWork, NoteOfWork, Asleep, Rotating

\* Nothing is open while she is awake and works.
LEMMA NoneOpen ==
  ASSUME IInv, Working, ~Asleep PROVE \A r \in Rotations : ~Open(r)
  BY DEF IInv, OpenRows

\* Asleep, the row of the event worked on is the only open one.
LEMMA TheOpenRow ==
  ASSUME IInv, Asleep
  PROVE  /\ Working /\ cur \in Rotations /\ cur \in Events /\ Open(cur) /\ row[cur] \in Row
         /\ \A q \in Rotations : q # cur => ~Open(q)
         /\ row[cur].from = session /\ row[cur].at <= night /\ row[cur].kind = kind
         /\ row[cur].state # "switched" /\ row[cur].state # "failed"
         /\ (cur \in Pills => evState[cur] \notin {"none", "queued"})
<1>1. Working /\ Rotating
  BY DEF Asleep, Working, Rotating
<1>2. cur \in Rotations /\ cur \in Events /\ Open(cur) /\ row[cur].kind = kind
  BY <1>1 DEF IInv, QueueRows, RowOfWork
<1>3. row[cur].state \in {"reviewing", "switching", "curating"}
  BY <1>2 DEF Open
<1>4. row[cur] \in Row /\ row[cur] # NoRow
  BY <1>2, <1>3, RowFacts DEF IInv
<1>5. cur \in Pills => evState[cur] \notin {"none", "queued"}
  BY <1>1 DEF IInv, PillRows, QueueRows
<1>6. \A q \in Rotations : q # cur => ~Open(q)
  BY <1>1 DEF IInv, OpenRows
<1>7. row[cur].from = session /\ row[cur].at <= night
  BY <1>2, <1>4 DEF IInv, OpenRows, CommitRows
<1> QED BY <1>1, <1>2, <1>3, <1>4, <1>5, <1>6, <1>7

\* A unit of work ends, and no row is written; an open row stays only in a stop.
LEMMA FinishSame ==
  ASSUME IInv, Working, NEW s \in {"noreply", "failed"}, Finish(s),
         Asleep => closing,
         UNCHANGED <<chain, note, stop, night, outages>>, curatedAt' \in Nat
  PROVE  IInv'
<1>1. /\ EventType' /\ QueueRows' /\ AtRest' /\ ~Asleep'
      /\ \A e \in Events : evState'[e] = IF e = cur THEN s ELSE evState[e]
  BY FinishQueue DEF IInv
<1>2. TypeOK'
  BY <1>1 DEF IInv, TypeOK, EventType
<1>3. WorkInv' /\ ~Asleep' /\ ~Rotating'
  BY <1>1, NoWork DEF AtRest
<1>4. night \in Nat /\ asOf' <= night
  BY <1>1 DEF IInv, TypeOK, AtRest
<1>5. Working' \/ (phase' # "down" /\ ~closing') => \A r \in Rotations : ~Open(r)
  <2>1. CASE Asleep
    BY <1>1, <2>1 DEF AtRest, Working
  <2>2. CASE ~Asleep
    BY <2>2, NoneOpen
  <2> QED BY <2>1, <2>2
<1>6. \A p \in Pills : evState'[p] \in {"none", "queued"} => evState[p] \in {"none", "queued"}
  BY <1>1, KindsOfEvents
<1>7. RowInv'
  BY <1>3, <1>4, <1>5, <1>6, SameRows
<1> QED BY <1>1, <1>2, <1>3, <1>7, Assemble

\* A unit of work ends and its row is written; left open only in a stop.
LEMMA FinishRow ==
  ASSUME IInv, Working, NEW s \in {"noreply", "failed"}, Finish(s), cur \in Rotations,
         UNCHANGED <<session, sessionAt, note, stop, night, outages>>, curatedAt' \in Nat,
         NEW new \in Row, row' = [row EXCEPT ![cur] = new],
         row[cur].state # "switched", new.state # "switched",
         new.from = session, new.at <= night,
         new.commit => noteOf = session,
         new.commit /\ new.state = "failed" => new.reason = "create",
         new.state \in {"reviewing", "switching", "curating"} =>
           /\ closing
           /\ new.state = "curating" => ~new.commit
           /\ new.commit /\ unsaid => new.kind = "resume"
  PROVE  IInv'
<1>1. /\ EventType' /\ QueueRows' /\ AtRest' /\ ~Asleep'
      /\ \A e \in Events : evState'[e] = IF e = cur THEN s ELSE evState[e]
  BY FinishQueue DEF IInv
<1>2. WorkInv' /\ ~Asleep' /\ ~Rotating'
  BY <1>1, NoWork DEF AtRest
<1>3. \A q \in Rotations : q # cur => ~Open(q)
  BY DEF IInv, OpenRows
<1>4. night \in Nat /\ asOf' <= night
  BY <1>1 DEF IInv, TypeOK, AtRest
<1>5. closing => ~(Working' \/ (phase' # "down" /\ ~closing'))
  BY <1>1 DEF AtRest, Working
<1>6. \A p \in Pills : evState'[p] \in {"none", "queued"} =>
                         evState[p] \in {"none", "queued"} /\ p # cur
  BY <1>1, KindsOfEvents
<1>7. RowInv' /\ row' \in [Rotations -> Row \cup {NoRow}]
  BY <1>2, <1>3, <1>4, <1>5, <1>6, OneRowWritten
<1>8. TypeOK'
  BY <1>1, <1>7 DEF IInv, TypeOK, EventType
<1> QED BY <1>1, <1>2, <1>7, <1>8, Assemble

\* Each end of a unit of work that writes no row.
LEMMA EndsWithoutRow ==
  ASSUME IInv,
         \/ JudgeNone \/ SkipEmpty
         \/ \E s \in {"noreply", "failed"} : OtherEnds(s)
         \/ \E ok \in BOOLEAN : CurateStopped(ok)
  PROVE  IInv'
<1>1. curatedAt \in Nat /\ \A ok \in BOOLEAN : Curated(ok) => curatedAt' \in Nat
  BY DEF IInv, TypeOK, Curated
<1>2. CASE JudgeNone
  BY <1>1, <1>2, FinishSame DEF JudgeNone, Working, Asleep
<1>3. CASE SkipEmpty
  BY <1>1, <1>3, FinishSame DEF SkipEmpty, Working, Asleep
<1>4. ASSUME NEW s \in {"noreply", "failed"}, OtherEnds(s) PROVE IInv'
  BY <1>1, <1>4, FinishSame DEF OtherEnds, Working, Asleep
<1>5. ASSUME NEW ok \in BOOLEAN, CurateStopped(ok) PROVE IInv'
  BY <1>1, <1>5, FinishSame DEF CurateStopped, Working, Asleep
<1> QED BY <1>2, <1>3, <1>4, <1>5

\* Of the open row, what the step below may make.
LEMMA EndsWithRow ==
  ASSUME IInv,
         NoHandoff \/ CommitAndStop \/ CreateFails \/ \E ok \in BOOLEAN : ResleepEnds(ok)
  PROVE  IInv'
<1> DEFINE x == row[cur]
           Failed(why) == [x EXCEPT !.state = "failed", !.reason = why]
<1>1. Asleep
  BY DEF NoHandoff, CommitAndStop, HandoffKept, CreateFails, ResleepEnds, Asleep
<1>2. /\ Working /\ cur \in Rotations /\ x \in Row
      /\ x.from = session /\ x.at <= night /\ x.kind = kind /\ x.state # "switched"
      /\ row \in [Rotations -> Row \cup {NoRow}]
  BY <1>1, TheOpenRow DEF IInv, TypeOK
<1>3. /\ x.commit <=> phase = "creating" \/ (phase = "curating" /\ kind \in {"night", "deep"})
      /\ x.commit => noteOf = session
      /\ x.commit /\ unsaid => x.kind = "resume"
  BY <1>1, <1>2, TheOpenRow DEF IInv, RowOfWork, CommitRows, OpenRows
<1>4. \A why \in {"other", "create"} :
        /\ Failed(why) \in Row /\ Failed(why).state = "failed" /\ Failed(why).reason = why
        /\ Failed(why).from = x.from /\ Failed(why).at = x.at /\ Failed(why).commit = x.commit
  BY <1>2 DEF Row
<1>5. \A why : FailRow(why) => row' = [row EXCEPT ![cur] = Failed(why)]
  BY <1>2 DEF FailRow
<1>6. CASE NoHandoff
  <2>1. Finish("failed") /\ row' = [row EXCEPT ![cur] = Failed("other")] /\ phase = "heading"
        /\ UNCHANGED <<session, sessionAt, curatedAt, note, stop, night, outages>>
    BY <1>5, <1>6 DEF NoHandoff
  <2>2. ~x.commit /\ curatedAt' \in Nat
    BY <1>3, <2>1 DEF IInv, TypeOK
  <2> HIDE DEF Failed
  <2> QED BY <1>2, <1>4, <2>1, <2>2, FinishRow
<1>7. CASE CommitAndStop
  <2> DEFINE new == [x EXCEPT !.commit = TRUE, !.state = "switching"]
  <2>1. Finish("failed") /\ row' = [row EXCEPT ![cur] = new] /\ closing /\ HandoffKept
        /\ UNCHANGED <<session, sessionAt, curatedAt, note, stop, night, outages>>
    BY <1>2, <1>7 DEF CommitAndStop, RowCommitted
  <2>2. /\ new \in Row /\ new.state = "switching" /\ new.commit = TRUE
        /\ new.from = x.from /\ new.at = x.at /\ new.kind = x.kind
    BY <1>2 DEF Row
  <2>3. noteOf = session /\ (unsaid => kind = "resume") /\ curatedAt' \in Nat
    BY <1>1, <2>1 DEF HandoffKept, IInv, NoteOfWork, TypeOK
  <2> HIDE DEF new
  <2> QED BY <1>2, <2>1, <2>2, <2>3, FinishRow
<1>8. CASE CreateFails
  <2>1. Finish("failed") /\ row' = [row EXCEPT ![cur] = Failed("create")]
        /\ UNCHANGED <<session, sessionAt, curatedAt, note, stop, night, outages>>
    BY <1>5, <1>8 DEF CreateFails
  <2>2. curatedAt' \in Nat
    BY <2>1 DEF IInv, TypeOK
  <2> HIDE DEF Failed
  <2> QED BY <1>2, <1>3, <1>4, <2>1, <2>2, FinishRow
<1>9. ASSUME NEW ok \in BOOLEAN, ResleepEnds(ok) PROVE IInv'
  <2>1. /\ phase = "curating" /\ kind = "resleep" /\ curatedAt' \in Nat
        /\ UNCHANGED <<session, sessionAt, note, stop, night, outages>>
    BY <1>9 DEF ResleepEnds, Curated, IInv, TypeOK
  <2>2. ~x.commit
    BY <1>3, <2>1
  <2>3. CASE row' = [row EXCEPT ![cur].state = "curated"] /\ Finish("noreply")
    <3> DEFINE new == [x EXCEPT !.state = "curated"]
    <3>1. row' = [row EXCEPT ![cur] = new]
      BY <1>2, <2>3
    <3>2. /\ new \in Row /\ new.state = "curated" /\ new.commit = x.commit
          /\ new.from = x.from /\ new.at = x.at
      BY <1>2 DEF Row
    <3> HIDE DEF new
    <3> QED BY <1>2, <2>1, <2>2, <2>3, <3>1, <3>2, FinishRow
  <2>4. CASE FailRow("other") /\ Finish("failed")
    <3>1. row' = [row EXCEPT ![cur] = Failed("other")]
      BY <1>5, <2>4
    <3> HIDE DEF Failed
    <3> QED BY <1>2, <1>4, <2>1, <2>2, <2>4, <3>1, FinishRow
  <2> QED BY <1>9, <2>3, <2>4 DEF ResleepEnds
<1> QED BY <1>6, <1>7, <1>8, <1>9

-----------------------------------------------------------------------------
(*                      steps within a unit of work                         *)

\* The work goes on and no row is written.
LEMMA WorkSame ==
  ASSUME IInv, EventType', QueueRows', WorkInv', Working, Working',
         UNCHANGED <<chain, stop, cur>>, asOf' <= night', night' \in Nat, night <= night',
         UNCHANGED outages,
         noteOf' = noteOf, empty' \in BOOLEAN, unsaid' \in BOOLEAN, curatedAt' \in Nat,
         \A e \in Events : \/ evState'[e] = evState[e]
                           \/ e = cur /\ evState'[e] \notin {"none", "queued"},
         phase' = "marking" /\ cur \in Pills => evState'[cur] # "queued",
         Asleep <=> Asleep',
         unsaid' => unsaid \/ ~Asleep
  PROVE  IInv'
<1>1. TypeOK'
  BY DEF IInv, TypeOK, EventType
<1>2. \A r \in Rotations : Open(r) => r = cur /\ Asleep
  BY DEF IInv, OpenRows
<1>3. Rotating' /\ cur \in Pills => evState'[cur] # "queued"
  <2>1. Asleep /\ cur \in Pills => evState[cur] \notin {"none", "queued"}
    BY TheOpenRow
  <2> QED BY <2>1, KindsOfEvents DEF Rotating
<1>4. \A p \in Pills : evState'[p] \in {"none", "queued"} => evState[p] \in {"none", "queued"}
  BY KindsOfEvents
<1>5. RowInv'
  BY <1>2, <1>3, <1>4, SameRows
<1> QED BY <1>1, <1>5, Assemble

\* The work goes on into, or in, the part she sleeps through, and its row is written.
LEMMA WorkRow ==
  ASSUME IInv, EventType', QueueRows', WorkInv', Working, Asleep',
         UNCHANGED <<session, sessionAt, note, stop, cur, night, outages, curatedAt>>,
         asOf' <= night, cur \in Rotations,
         cur \in Pills => evState'[cur] \notin {"none", "queued"},
         \A e \in Events : \/ evState'[e] = evState[e]
                           \/ e = cur /\ evState'[e] \notin {"none", "queued"},
         NEW new \in Row, row' = [row EXCEPT ![cur] = new],
         row[cur].state # "switched", new.state \in {"reviewing", "switching", "curating"},
         new.from = session, new.at <= night,
         new.commit => noteOf = session,
         new.state = "curating" => ~new.commit,
         new.commit /\ unsaid => new.kind = "resume"
  PROVE  IInv'
<1>1. \A q \in Rotations : q # cur => ~Open(q)
  BY DEF IInv, OpenRows
<1>2. \A p \in Pills : evState'[p] \in {"none", "queued"} =>
                         evState[p] \in {"none", "queued"} /\ p # cur
  BY KindsOfEvents
<1>3. RowInv' /\ row' \in [Rotations -> Row \cup {NoRow}]
  BY <1>1, <1>2, OneRowWritten
<1>4. TypeOK'
  BY <1>3 DEF IInv, TypeOK, EventType
<1> QED BY <1>3, <1>4, Assemble

\* The row a switch begins with.
New(k, s) == [kind |-> k, state |-> s, reason |-> "", from |-> session, to |-> 0, at |-> night,
              commit |-> FALSE, note |-> 0, unsaid |-> FALSE]

LEMMA NewRow ==
  ASSUME IInv, cur \in Rotations
  PROVE  \A k \in Kind, s \in {"reviewing", "switching", "curating", "failed"} :
         /\ Inserted(k, s) = [row EXCEPT ![cur] = New(k, s)]
         /\ New(k, s) \in Row /\ New(k, s).kind = k /\ New(k, s).state = s
         /\ New(k, s).from = session /\ New(k, s).at = night /\ ~New(k, s).commit
         /\ Inserted(k, s)[cur] = New(k, s)
<1>1. row \in [Rotations -> Row \cup {NoRow}] /\ session \in Nat /\ night \in Nat
  BY DEF IInv, TypeOK
<1>2. \A k \in Kind, s \in {"reviewing", "switching", "curating", "failed"} : New(k, s) \in Row
  BY <1>1 DEF New, Row
<1> QED BY <1>1, <1>2, ZenonT(30) DEF Inserted, New

\* An event put back to the front of the queue.
LEMMA PutBackStep == ASSUME IInv, PutBack PROVE IInv'
<1>1. /\ phase = "following" /\ Pump(<<cur>> \o queue, FALSE)
      /\ UNCHANGED <<events, chain, curatedAt, note, stop, asked, night, outages>>
  BY DEF PutBack
<1>2. /\ cur \in Events /\ evState[cur] = "queued" /\ cur \notin Range(queue)
      /\ queue \in Seq(Events) /\ IsInjective(queue)
      /\ \A e \in Range(queue) : evState[e] = "queued"
  BY <1>1 DEF IInv, QueueRows, TypeOK, Working
<1>3. <<cur>> \in Seq(Events) /\ Range(<<cur>>) = {cur} /\ IsInjective(<<cur>>)
  BY <1>2, SingleQueue
<1>4. /\ <<cur>> \o queue \in Seq(Events) /\ IsInjective(<<cur>> \o queue)
      /\ Range(<<cur>> \o queue) = {cur} \cup Range(queue)
  <2>1. \A p, q \in Seq(Events) :
          /\ p \o q \in Seq(Events) /\ Range(p \o q) = Range(p) \cup Range(q)
          /\ IsInjective(p) /\ IsInjective(q) /\ Range(p) \cap Range(q) = {} => IsInjective(p \o q)
    BY ConcatQueue
  <2> QED BY <1>2, <1>3, <2>1
<1>5. /\ queue' \in Seq(Events) /\ IsInjective(queue')
      /\ Range(queue') \subseteq {cur} \cup Range(queue)
      /\ kind' = "none" /\ asOf' = 0 /\ written' = FALSE
      /\ \/ phase' = "idle" /\ cur' = NoEvent
         \/ /\ phase' = "following" /\ cur' \in {cur} \cup Range(queue) /\ cur' \in Events
            /\ cur' \notin Range(queue') /\ ~draining /\ ~closing
  BY <1>1, <1>4, PumpAtRest
<1>6. WorkInv' /\ ~Asleep' /\ ~Rotating'
  BY <1>5, NoWork
<1>7. QueueRows'
  BY <1>1, <1>2, <1>5, <1>6 DEF QueueRows, Working
<1>8. TypeOK'
  BY <1>1, <1>5 DEF IInv, TypeOK, Phase
<1>9. \A r \in Rotations : ~Open(r)
  BY <1>1, NoneOpen DEF Working, Asleep
<1>10. night \in Nat /\ asOf' <= night
  BY <1>5 DEF IInv, TypeOK
<1>11. RowInv'
  BY <1>1, <1>6, <1>9, <1>10, SameRows
<1> QED BY <1>6, <1>7, <1>8, <1>11, Assemble

LEMMA BeginStep ==
  ASSUME IInv, BeginOther \/ BeginNight \/ BeginPill PROVE IInv'
<1>1. /\ phase = "following" /\ Working /\ ~Asleep /\ cur \in Events /\ written = FALSE
      /\ evState[cur] = "queued" /\ night \in Nat /\ asOf <= night /\ asOf \in Nat
  BY DEF BeginOther, BeginNight, BeginPill, Working, Asleep, IInv, QueueRows, TypeOK,
         NoteOfWork, CommitRows
<1>2. CASE BeginOther
  <2>1. /\ phase' = "turn" /\ UNCHANGED <<cur, queue, kind, asOf, written, createdAt, chain,
                                          curatedAt, noteOf, stop, asked, night, outages>>
        /\ evState' = [evState EXCEPT ![cur] = "processing"]
        /\ empty' = FALSE /\ unsaid' = TRUE
    BY <1>2 DEF BeginOther, To
  <2>2. /\ \A e \in Events : evState'[e] = IF e = cur THEN "processing" ELSE evState[e]
        /\ EventType'
    BY <2>1 DEF IInv, TypeOK, EventType, Phase
  <2>3. Working' /\ ~Asleep' /\ ~Rotating' /\ WorkInv'
    BY <1>1, <2>1 DEF Working, Asleep, Rotating, WorkInv, KindOfWork, RowOfWork, NoteOfWork
  <2>4. QueueRows'
    BY <1>1, <2>1, <2>2, <2>3, BusyQueue DEF IInv
  <2>5. /\ curatedAt' \in Nat /\ noteOf' = noteOf /\ empty' \in BOOLEAN /\ unsaid' \in BOOLEAN
        /\ phase' # "marking" /\ asOf' <= night' /\ night' \in Nat /\ night <= night'
    <3>1. empty' \in BOOLEAN /\ unsaid' \in BOOLEAN
      BY <2>1
    <3>2. curatedAt' \in Nat /\ noteOf' = noteOf
      BY <2>1 DEF IInv, TypeOK
    <3>3. phase' # "marking" /\ night' = night /\ asOf' = asOf
      BY <2>1
    <3> QED BY <1>1, <3>1, <3>2, <3>3
  <2>6. \A e \in Events : evState'[e] = evState[e]
                            \/ (e = cur /\ evState'[e] \notin {"none", "queued"})
    BY <2>2
  <2>7. UNCHANGED <<chain, stop, cur>> /\ UNCHANGED outages
    BY <2>1
  <2> QED BY <1>1, <2>2, <2>3, <2>4, <2>5, <2>6, <2>7, WorkSame
<1>3. CASE BeginNight
  <2>1. /\ phase' = "marking" /\ kind' = "night" /\ cur \in Nights
        /\ UNCHANGED <<events, chain, curatedAt, note, cur, queue, asOf, written, stop, asked,
                       night, outages>>
    BY <1>3 DEF BeginNight
  <2>2. /\ EventType' /\ curatedAt' \in Nat /\ noteOf' = noteOf
        /\ empty' \in BOOLEAN /\ unsaid' \in BOOLEAN
    BY <2>1 DEF IInv, TypeOK, EventType, Phase, Kind
  <2>3. Working' /\ ~Asleep' /\ WorkInv'
    BY <1>1, <2>1 DEF Working, Asleep, WorkInv, KindOfWork, RowOfWork, NoteOfWork
  <2>4. cur \in Rotations /\ cur \notin Pills
    BY <2>1, KindsOfEvents
  <2>5. QueueRows'
    BY <1>1, <2>1, <2>3, <2>4, BusyQueue DEF IInv
  <2> QED BY <1>1, <2>1, <2>2, <2>3, <2>4, <2>5, WorkSame
<1>4. CASE BeginPill
  <2>1. /\ phase' = "judging" /\ asOf' = night /\ cur \in Pills
        /\ UNCHANGED <<events, chain, curatedAt, note, cur, queue, kind, written, stop, asked,
                       night, outages>>
    BY <1>4 DEF BeginPill
  <2>2. /\ EventType' /\ curatedAt' \in Nat /\ noteOf' = noteOf
        /\ empty' \in BOOLEAN /\ unsaid' \in BOOLEAN
    BY <2>1 DEF IInv, TypeOK, EventType, Phase
  <2>3. Working' /\ ~Asleep' /\ ~Rotating' /\ WorkInv'
    BY <1>1, <2>1 DEF Working, Asleep, Rotating, WorkInv, KindOfWork, RowOfWork, NoteOfWork
  <2>4. QueueRows'
    BY <1>1, <2>1, <2>3, BusyQueue DEF IInv
  <2> QED BY <1>1, <2>1, <2>2, <2>3, <2>4, WorkSame
<1> QED BY <1>2, <1>3, <1>4

\* A resume is judged where this session has a committed review of its own.
LEMMA ResumeHasNote ==
  ASSUME IInv, PillKind(asOf) = "resume"
  PROVE  /\ noteOf = session /\ sessionAt < asOf
         /\ \E q \in Rotations : row[q].commit /\ row[q].from = session
<1>1. ReviewDone(asOf) /\ ~SessionDone(asOf)
  BY DEF PillKind, Missing
<1>2. PICK q \in Rotations : row[q].commit /\ row[q].at >= asOf
  BY <1>1 DEF ReviewDone
<1>3. sessionAt \in Nat /\ asOf \in Nat /\ row[q].at \in Nat /\ ~(sessionAt >= asOf)
  BY <1>1, RowFacts DEF SessionDone, IInv, TypeOK
<1>4. row[q].at > sessionAt /\ sessionAt < asOf
  BY <1>2, <1>3
<1> QED BY <1>2, <1>4 DEF IInv, CommitRows

\* A pill that is judged has no row yet.
LEMMA JudgedPill ==
  ASSUME IInv, phase = "judging"
  PROVE  /\ Working /\ ~Asleep /\ cur \in Pills /\ cur \in Rotations /\ cur \in Events
         /\ evState[cur] = "queued" /\ row[cur] = NoRow /\ row[cur].state # "switched"
         /\ written = FALSE /\ asOf \in Nat /\ asOf <= night /\ night \in Nat
<1>1. Working /\ ~Asleep /\ cur \in Pills /\ evState[cur] = "queued"
  BY DEF Working, Asleep, IInv, QueueRows
<1>2. cur \in Rotations /\ cur \in Events
  BY <1>1, KindsOfEvents
<1>3. row[cur] = NoRow /\ row[cur].state # "switched"
  BY <1>1 DEF IInv, PillRows, NoRow
<1>4. written = FALSE /\ asOf \in Nat /\ asOf <= night /\ night \in Nat
  BY <1>1 DEF IInv, NoteOfWork, CommitRows, TypeOK
<1> QED BY <1>1, <1>2, <1>3, <1>4

LEMMA JudgeStep ==
  ASSUME IInv, JudgeReview \/ JudgeResume \/ JudgeResleep \/ JudgeStopped PROVE IInv'
<1>1. phase = "judging"
  BY DEF JudgeReview, JudgeResume, JudgeResleep, JudgeStopped, Judged
<1>2. /\ Working /\ ~Asleep /\ cur \in Pills /\ cur \in Rotations /\ cur \in Events
      /\ evState[cur] = "queued" /\ row[cur] = NoRow /\ row[cur].state # "switched"
      /\ written = FALSE /\ asOf \in Nat /\ asOf <= night /\ night \in Nat
  BY <1>1, JudgedPill
<1>3. ASSUME NEW k \in Kind, Judged(k), phase' \in {"marking", "heading", "curating"},
             UNCHANGED curatedAt
      PROVE  /\ EventType' /\ QueueRows' /\ Working' /\ kind' = k /\ cur' = cur
             /\ UNCHANGED <<session, sessionAt, note, stop, asOf, written, night, outages>>
             /\ \A e \in Events : evState'[e] = IF e = cur THEN "processing" ELSE evState[e]
             /\ PillKind(asOf) = k
  <2>1. /\ evState' = [evState EXCEPT ![cur] = "processing"] /\ kind' = k /\ PillKind(asOf) = k
        /\ UNCHANGED <<createdAt, cur, queue, asOf, written, session, sessionAt, note, asked,
                       stop, night, outages>>
    BY <1>3 DEF Judged
  <2>2. /\ \A e \in Events : evState'[e] = IF e = cur THEN "processing" ELSE evState[e]
        /\ EventType'
    BY <1>3, <2>1 DEF IInv, TypeOK, EventType, Phase
  <2>3. Working' /\ phase' \notin {"following", "judging"}
    BY <1>3 DEF Working
  <2>4. QueueRows'
    BY <1>2, <2>1, <2>2, <2>3, BusyQueue DEF IInv
  <2> QED BY <2>1, <2>2, <2>3, <2>4
<1>4. CASE JudgeReview
  <2>1. PICK k \in {"deep", "nap"} : Judged(k)
    BY <1>4 DEF JudgeReview
  <2>2. phase' = "marking" /\ UNCHANGED <<row, curatedAt>>
    BY <1>4 DEF JudgeReview
  <2>3. /\ EventType' /\ QueueRows' /\ Working' /\ kind' = k /\ cur' = cur
        /\ UNCHANGED <<session, sessionAt, note, stop, asOf, written, night, outages>>
        /\ \A e \in Events : evState'[e] = IF e = cur THEN "processing" ELSE evState[e]
    BY <1>3, <2>1, <2>2 DEF Kind
  <2>4. WorkInv' /\ ~Asleep'
    BY <1>2, <2>2, <2>3 DEF WorkInv, KindOfWork, RowOfWork, NoteOfWork, Asleep
  <2>5. /\ curatedAt' \in Nat /\ noteOf' = noteOf /\ empty' \in BOOLEAN /\ unsaid' \in BOOLEAN
        /\ evState'[cur] # "queued"
    BY <1>2, <2>2, <2>3 DEF IInv, TypeOK
  <2>6. \A e \in Events : evState'[e] = evState[e]
                            \/ (e = cur /\ evState'[e] \notin {"none", "queued"})
    BY <2>3
  <2> QED BY <1>2, <2>2, <2>3, <2>4, <2>5, <2>6, WorkSame
<1>5. ASSUME NEW k \in {"resume", "resleep"}, NEW s \in {"switching", "curating"}, Judged(k),
             row' = Inserted(k, s), phase' \in {"heading", "curating"}, UNCHANGED curatedAt,
             s = "curating" <=> k = "resleep", k = "resleep" => phase' = "curating"
      PROVE  IInv'
  <2>1. k \in Kind /\ s \in {"reviewing", "switching", "curating"}
    BY DEF Kind
  <2>2. /\ EventType' /\ QueueRows' /\ Working' /\ kind' = k /\ cur' = cur
        /\ UNCHANGED <<session, sessionAt, note, stop, asOf, written, night, outages>>
        /\ \A e \in Events : evState'[e] = IF e = cur THEN "processing" ELSE evState[e]
        /\ PillKind(asOf) = k
    BY <1>3, <1>5, <2>1
  <2>3. /\ row' = [row EXCEPT ![cur] = New(k, s)] /\ row'[cur] = New(k, s)
        /\ New(k, s) \in Row /\ New(k, s).kind = k /\ New(k, s).state = s
        /\ New(k, s).from = session /\ New(k, s).at = night /\ ~New(k, s).commit
    <3>1. cur \in Rotations
      BY <1>2
    <3>2. /\ Inserted(k, s) = [row EXCEPT ![cur] = New(k, s)]
          /\ New(k, s) \in Row /\ New(k, s).kind = k /\ New(k, s).state = s
          /\ New(k, s).from = session /\ New(k, s).at = night /\ ~New(k, s).commit
          /\ Inserted(k, s)[cur] = New(k, s)
      BY <2>1, <3>1, NewRow
    <3>3. row' = Inserted(k, s)
      BY <1>5
    <3> QED BY <3>2, <3>3, Zenon
  <2>4. Asleep'
    BY <1>5 DEF Asleep
  <2>5. WorkInv'
    <3>1. k = "resume" => noteOf = session
      BY <2>2, ResumeHasNote
    <3>2. KindOfWork' /\ NoteOfWork'
      BY <1>2, <1>5, <2>2, <3>1 DEF KindOfWork, NoteOfWork
    <3>3. RowOfWork'
      BY <1>5, <2>2, <2>3 DEF RowOfWork, Open
    <3> QED BY <3>2, <3>3 DEF WorkInv
  <2>6. \A e \in Events : evState'[e] = evState[e]
                            \/ (e = cur /\ evState'[e] \notin {"none", "queued"})
    BY <2>2
  <2>7. evState'[cur] \notin {"none", "queued"}
    BY <1>2, <2>2
  <2>8. /\ New(k, s).at <= night /\ New(k, s).state \in {"reviewing", "switching", "curating"}
        /\ New(k, s).commit => noteOf = session
        /\ New(k, s).state = "curating" => ~New(k, s).commit
        /\ New(k, s).commit /\ unsaid => New(k, s).kind = "resume"
        /\ asOf' <= night /\ UNCHANGED curatedAt
    BY <1>2, <1>5, <2>1, <2>2, <2>3
  <2> QED BY <1>2, <2>2, <2>3, <2>4, <2>5, <2>6, <2>7, <2>8, WorkRow
<1>6. CASE JudgeResume
  BY <1>5, <1>6 DEF JudgeResume
<1>7. CASE JudgeResleep
  BY <1>5, <1>7 DEF JudgeResleep
<1>8. CASE JudgeStopped
  <2>1. /\ closing /\ Finish("failed") /\ curatedAt' \in Nat
        /\ UNCHANGED <<session, sessionAt, note, stop, night, outages>>
    BY <1>8 DEF JudgeStopped, IInv, TypeOK
  <2>2. CASE row' = Inserted("resume", "switching")
    <3>1. "resume" \in Kind
      BY DEF Kind
    <3>2. /\ row' = [row EXCEPT ![cur] = New("resume", "switching")]
          /\ New("resume", "switching") \in Row /\ New("resume", "switching").state = "switching"
          /\ New("resume", "switching").from = session /\ New("resume", "switching").at = night
          /\ ~New("resume", "switching").commit
      BY <1>2, <2>2, <3>1, NewRow
    <3> DEFINE new == New("resume", "switching")
    <3>3. /\ new.at <= night /\ new.state # "switched"
          /\ new.commit => noteOf = session
          /\ new.commit /\ new.state = "failed" => new.reason = "create"
          /\ new.state # "curating" /\ (new.commit /\ unsaid => new.kind = "resume")
      BY <1>2, <3>2
    <3> HIDE DEF new
    <3> QED BY <1>2, <2>1, <3>2, <3>3, FinishRow DEF new
  <2>3. CASE row' = [Inserted("resleep", "failed") EXCEPT ![cur].reason = "other"]
    <3> DEFINE begun == New("resleep", "failed")
               new == [begun EXCEPT !.reason = "other"]
    <3>1. "resleep" \in Kind
      BY DEF Kind
    <3>2. /\ Inserted("resleep", "failed") = [row EXCEPT ![cur] = begun]
          /\ begun \in Row /\ begun.state = "failed" /\ begun.from = session
          /\ begun.at = night /\ ~begun.commit
      BY <1>2, <3>1, NewRow
    <3>3. row \in [Rotations -> Row \cup {NoRow}]
      BY DEF IInv, TypeOK
    <3> HIDE DEF begun
    <3>4. row' = [row EXCEPT ![cur] = new]
      BY <1>2, <2>3, <3>2, <3>3
    <3>5. new \in Row /\ new.state = "failed" /\ new.from = session /\ new.at = night
          /\ ~new.commit
      BY <3>2 DEF Row
    <3> HIDE DEF new
    <3>6. /\ new.at <= night /\ new.state # "switched"
          /\ new.commit => noteOf = session
          /\ new.commit /\ new.state = "failed" => new.reason = "create"
          /\ new.state \notin {"reviewing", "switching", "curating"}
      BY <1>2, <3>5
    <3> QED BY <1>2, <2>1, <3>4, <3>5, <3>6, FinishRow
  <2> QED BY <1>8, <2>2, <2>3 DEF JudgeStopped
<1> QED BY <1>4, <1>6, <1>7, <1>8

LEMMA BeginReviewStep == ASSUME IInv, BeginReview PROVE IInv'
<1>1. /\ phase = "marking" /\ row[cur] = NoRow /\ row' = Inserted(kind, "reviewing")
      /\ phase' = "reviewing" /\ evState' = [evState EXCEPT ![cur] = "processing"]
      /\ UNCHANGED <<createdAt, cur, queue, kind, asOf, written, session, sessionAt, curatedAt,
                     note, stop, asked, night, outages>>
  BY DEF BeginReview, To
<1>2. /\ Working /\ ~Asleep /\ Rotating /\ cur \in Rotations /\ cur \in Events
      /\ kind \in {"night", "deep", "nap"} /\ kind \in Kind /\ written = FALSE
      /\ asOf <= night /\ night \in Nat /\ row[cur].state # "switched"
  BY <1>1 DEF Working, Asleep, Rotating, IInv, QueueRows, KindOfWork, NoteOfWork, CommitRows,
              TypeOK, NoRow, Kind
<1>3. /\ \A e \in Events : evState'[e] = IF e = cur THEN "processing" ELSE evState[e]
      /\ EventType'
  BY <1>1 DEF IInv, TypeOK, EventType, Phase
<1>4. Working' /\ Asleep' /\ phase' \notin {"following", "judging"}
  BY <1>1 DEF Working, Asleep
<1>5. QueueRows'
  BY <1>1, <1>2, <1>3, <1>4, BusyQueue DEF IInv
<1> DEFINE new == New(kind, "reviewing")
<1>6. /\ row' = [row EXCEPT ![cur] = new] /\ row'[cur] = new /\ new \in Row
      /\ new.kind = kind /\ new.state = "reviewing" /\ new.from = session
      /\ new.at = night /\ ~new.commit
  BY <1>1, <1>2, NewRow
<1> HIDE DEF new
<1>7. WorkInv'
  BY <1>1, <1>2, <1>6 DEF WorkInv, KindOfWork, NoteOfWork, RowOfWork, Open
<1>8. /\ new.at <= night /\ new.state \in {"reviewing", "switching", "curating"}
      /\ new.commit => noteOf = session
      /\ new.state = "curating" => ~new.commit
      /\ new.commit /\ unsaid => new.kind = "resume"
      /\ asOf' <= night
  BY <1>1, <1>2, <1>6
<1>9. /\ evState'[cur] \notin {"none", "queued"}
      /\ \A e \in Events : evState'[e] = evState[e]
                           \/ (e = cur /\ evState'[e] \notin {"none", "queued"})
  BY <1>2, <1>3
<1> QED BY <1>1, <1>2, <1>3, <1>4, <1>5, <1>6, <1>7, <1>8, <1>9, WorkRow

LEMMA WriteHandoffStep == ASSUME IInv, WriteHandoff PROVE IInv'
<1>1. /\ phase = "reviewing" /\ written' = TRUE /\ noteOf' = session /\ unsaid' = FALSE
      /\ UNCHANGED <<events, chain, curatedAt, empty, phase, cur, queue, kind, asOf, stop,
                     asked, night, outages>>
  BY DEF WriteHandoff
<1>2. TypeOK' /\ Asleep /\ Asleep'
  BY <1>1 DEF IInv, TypeOK, Asleep
<1>3. QueueRows'
  BY <1>1 DEF IInv, QueueRows, Working, Rotating, Asleep
<1>4. WorkInv'
  BY <1>1, <1>2 DEF IInv, WorkInv, KindOfWork, RowOfWork, NoteOfWork, Open, Asleep
<1>5. PillRows' /\ OneOpenSwitch' /\ OpenRows'
  BY <1>1, <1>2 DEF IInv, PillRows, OneOpenSwitch, OpenRows, Open, Working, Rotating, Asleep
<1>6. CommitRows'
  BY <1>1 DEF IInv, CommitRows
<1>7. Chain'
  BY <1>1, ChainKept DEF IInv, Chain
<1> QED BY <1>2, <1>3, <1>4, <1>5, <1>6, <1>7, Assemble DEF RowInv

\* Asleep and still asleep, for the same event: what the steps below share.
LEMMA StillAsleep ==
  ASSUME IInv, Asleep, Asleep', UNCHANGED <<cur, queue, kind, asOf, written, createdAt, asked>>,
         evState' \in [Events -> {"none", "queued", "processing", "noreply", "failed"}],
         \A e \in Events : evState'[e] = evState[e]
                                 \/ (e = cur /\ evState'[e] \notin {"none", "queued"})
  PROVE  EventType' /\ QueueRows' /\ Working /\ Working' /\ asOf <= night /\ night \in Nat
<1>1. EventType'
  BY DEF IInv, TypeOK, EventType, Asleep, Phase
<1>2. /\ Working /\ Working' /\ cur \in Rotations /\ cur \in Events /\ evState[cur] # "none"
      /\ phase' \notin {"following", "judging"} /\ asOf <= night /\ night \in Nat
  BY DEF Asleep, Working, Rotating, IInv, QueueRows, CommitRows, TypeOK
<1>3. evState'[cur] # "none"
  BY <1>2
<1>4. QueueRows'
  BY <1>2, <1>3, BusyQueue DEF IInv
<1> QED BY <1>1, <1>2, <1>4

LEMMA ReviewEndsStep ==
  ASSUME IInv, NEW s \in {"noreply", "failed"}, ReviewEnds(s) PROVE IInv'
<1>1. /\ phase = "reviewing" /\ phase' = "heading" /\ evState' = [evState EXCEPT ![cur] = s]
      /\ UNCHANGED <<createdAt, chain, curatedAt, note, cur, queue, kind, asOf, written, stop,
                     asked, night, outages>>
  BY DEF ReviewEnds, To
<1>2. Asleep /\ Asleep'
  BY <1>1 DEF Asleep
<1>3. /\ evState' \in [Events -> {"none", "queued", "processing", "noreply", "failed"}]
      /\ \A e \in Events : evState'[e] = evState[e]
                              \/ (e = cur /\ evState'[e] \notin {"none", "queued"})
  BY <1>1 DEF IInv, TypeOK
<1>4. EventType' /\ QueueRows' /\ Working /\ Working' /\ asOf <= night /\ night \in Nat
  BY <1>1, <1>2, <1>3, StillAsleep
<1>5. WorkInv'
  BY <1>1 DEF IInv, WorkInv, KindOfWork, RowOfWork, NoteOfWork, Open, Asleep
<1>6. noteOf' = noteOf /\ empty' \in BOOLEAN /\ unsaid' \in BOOLEAN /\ curatedAt' \in Nat
  BY <1>1 DEF IInv, TypeOK
<1> QED BY <1>1, <1>2, <1>3, <1>4, <1>5, <1>6, WorkSame

LEMMA CurateEndsStep ==
  ASSUME IInv, NEW ok \in BOOLEAN, CurateEnds(ok) PROVE IInv'
<1>1. /\ phase = "curating" /\ kind # "resleep" /\ Curated(ok)
      /\ phase' = (IF kind = "resume" THEN "heading" ELSE "creating")
      /\ UNCHANGED <<events, chain, note, cur, queue, kind, asOf, written, stop, asked, night,
                     outages>>
  BY DEF CurateEnds, To
<1>2. Asleep /\ Asleep'
  BY <1>1 DEF Asleep
<1>3. /\ evState' \in [Events -> {"none", "queued", "processing", "noreply", "failed"}]
      /\ \A e \in Events : evState'[e] = evState[e]
  BY <1>1 DEF IInv, TypeOK
<1>4. EventType' /\ QueueRows' /\ Working /\ Working' /\ asOf <= night /\ night \in Nat
  BY <1>1, <1>2, <1>3, StillAsleep
<1>5. WorkInv'
  BY <1>1 DEF IInv, WorkInv, KindOfWork, RowOfWork, NoteOfWork, Open, Asleep
<1>6. noteOf' = noteOf /\ empty' \in BOOLEAN /\ unsaid' \in BOOLEAN /\ curatedAt' \in Nat
  BY <1>1 DEF IInv, TypeOK, Curated
<1> QED BY <1>1, <1>2, <1>3, <1>4, <1>5, <1>6, WorkSame

LEMMA CommitHandoffStep == ASSUME IInv, CommitHandoff PROVE IInv'
<1> DEFINE x == row[cur]
           new == [x EXCEPT !.commit = TRUE, !.state = "switching"]
<1>1. /\ phase = "heading" /\ HandoffKept
      /\ phase' = (IF kind \in {"night", "deep"} THEN "curating" ELSE "creating")
      /\ UNCHANGED <<events, session, sessionAt, curatedAt, note, cur, queue, kind, asOf,
                     written, stop, asked, night, outages>>
  BY DEF CommitHandoff, HandoffKept, To
<1>2. Asleep /\ Asleep'
  BY <1>1 DEF Asleep
<1>3. /\ cur \in Rotations /\ x \in Row /\ x.from = session /\ x.at <= night /\ x.kind = kind
      /\ x.state # "switched" /\ row \in [Rotations -> Row \cup {NoRow}]
      /\ cur \in Pills => evState[cur] \notin {"none", "queued"}
  BY <1>2, TheOpenRow DEF IInv, TypeOK
<1>4. row' = [row EXCEPT ![cur] = new]
  BY <1>3 DEF CommitHandoff, RowCommitted
<1>5. /\ new \in Row /\ new.state = "switching" /\ new.commit = TRUE
      /\ new.from = x.from /\ new.at = x.at /\ new.kind = x.kind
  BY <1>3 DEF Row
<1>6. noteOf = session /\ (unsaid => kind = "resume") /\ kind \in {"night", "deep", "nap", "resume"}
  BY <1>1, <1>2 DEF HandoffKept, IInv, NoteOfWork, KindOfWork
<1>7. /\ evState' \in [Events -> {"none", "queued", "processing", "noreply", "failed"}]
      /\ \A e \in Events : evState'[e] = evState[e]
  BY <1>1 DEF IInv, TypeOK
<1>8. EventType' /\ QueueRows' /\ Working /\ Working' /\ asOf <= night /\ night \in Nat
  BY <1>1, <1>2, <1>7, StillAsleep
<1>9. row'[cur] = new
  BY <1>3, <1>4
<1> HIDE DEF new
<1>10. WorkInv'
  <2>1. KindOfWork' /\ NoteOfWork'
    BY <1>1, <1>2, <1>6 DEF KindOfWork, NoteOfWork, IInv
  <2>2. RowOfWork'
    BY <1>1, <1>3, <1>5, <1>6, <1>9 DEF RowOfWork, Open
  <2> QED BY <2>1, <2>2 DEF WorkInv
<1>11. cur \in Pills => evState'[cur] \notin {"none", "queued"}
  BY <1>1, <1>3
<1> QED BY <1>1, <1>2, <1>3, <1>4, <1>5, <1>6, <1>7, <1>8, <1>10, <1>11, WorkRow

-----------------------------------------------------------------------------
(*                     the move to a new session                            *)

\* The conversation moves by the switch of r, and nothing stays open.
LEMMA SessionMoves ==
  ASSUME IInv, NEW r \in Rotations, Open(r), row[r].commit, CommitSwitch(row, r),
         EventType', QueueRows',
         phase' \in {"down", "idle", "following"}, written' = FALSE, asOf' = 0,
         UNCHANGED night, curatedAt' \in Nat, outages' \in Nat,
         draining' \in BOOLEAN, closing' \in BOOLEAN,
         \A p \in Pills : evState'[p] \in {"none", "queued"} =>
                            evState[p] \in {"none", "queued"}
  PROVE  IInv'
<1>1. /\ row' = [row EXCEPT ![r] = [@ EXCEPT !.state = "switched", !.reason = "",
                   !.to = session + 1, !.note = noteOf, !.unsaid = unsaid]]
      /\ session' = session + 1 /\ sessionAt' = night /\ noteOf' = noteOf
      /\ empty' = TRUE /\ unsaid' = FALSE
  BY DEF CommitSwitch
<1>2. /\ Chain' /\ \A q \in Rotations : row'[q].state \notin {"reviewing", "switching", "curating"}
      /\ row' \in [Rotations -> Row \cup {NoRow}]
      /\ row'[r].from = session /\ row'[r].at = row[r].at
      /\ \A q \in Rotations : q # r => row'[q] = row[q]
  BY <1>1, ChainMoves DEF IInv, Chain
<1>3. WorkInv' /\ ~Asleep' /\ ~Rotating'
  BY NoWork
<1>4. session \in Nat \ {0} /\ night \in Nat /\ noteOf \in Nat
  BY DEF IInv, TypeOK
<1>5. TypeOK'
  <2>1. session' \in Nat \ {0} /\ sessionAt' \in Nat /\ noteOf' \in Nat /\ night' \in Nat
    BY <1>1, <1>4
  <2>2. empty' \in BOOLEAN /\ unsaid' \in BOOLEAN
    BY <1>1
  <2> QED BY <1>2, <2>1, <2>2 DEF TypeOK, EventType
<1>6. OpenRows' /\ OneOpenSwitch'
  BY <1>2 DEF OpenRows, OneOpenSwitch, Open
<1>7. CommitRows'
  <2>1. row[r] # NoRow /\ row[r].at <= night
    BY RowFacts DEF Open, IInv, CommitRows
  <2>2. \A q \in Rotations : row'[q] # NoRow => row'[q].from <= session /\ row'[q].at <= night
    BY <1>2, <1>4, <2>1 DEF IInv, CommitRows
  <2>3. \A q \in Rotations : row'[q].commit
                => row'[q] \in Row /\ row'[q].from <= session /\ row'[q].at <= night
    <3>1. NoRow.commit = FALSE
      BY DEF NoRow
    <3>2. \A q \in Rotations : row'[q].commit => row'[q] \in Row /\ row'[q] # NoRow
      BY <1>2, <3>1
    <3> QED BY <2>2, <3>2
  <2>4. \A q \in Rotations : row'[q] \in Row => row'[q].from \in Nat /\ row'[q].at \in Nat
    BY DEF Row
  <2>5. \A q \in Rotations : row'[q] # NoRow => row'[q].from <= session'
    <3>1. \A q \in Rotations : row'[q] # NoRow => row'[q] \in Row
      BY <1>2
    <3> QED BY <1>1, <1>4, <2>2, <2>4, <3>1
  <2>6. \A q \in Rotations : row'[q].commit =>
          ~(row'[q].at > sessionAt') /\ row'[q].from # session'
    BY <1>1, <1>4, <2>3, <2>4
  <2> QED BY <1>1, <1>4, <2>2, <2>5, <2>6 DEF CommitRows
<1>8. PillRows'
  <2>1. \A p \in Pills : p = r => evState[p] \notin {"none", "queued"}
    <3>1. row[r] # NoRow
      BY RowFacts DEF Open, IInv
    <3> QED BY <3>1 DEF IInv, PillRows
  <2> QED BY <1>2, <1>3, <2>1, KindsOfEvents DEF IInv, PillRows
<1>9. RowInv'
  BY <1>2, <1>6, <1>7, <1>8 DEF RowInv
<1> QED BY <1>3, <1>5, <1>9, Assemble

LEMMA SwitchStep == ASSUME IInv, Switch PROVE IInv'
<1>1. /\ phase = "creating" /\ CommitSwitch(row, cur) /\ Finish("noreply")
      /\ UNCHANGED <<curatedAt, stop, night, outages>>
  BY DEF Switch
<1>2. Asleep /\ Working
  BY <1>1 DEF Asleep, Working
<1>3. cur \in Rotations /\ Open(cur) /\ row[cur].commit
  BY <1>1, <1>2, TheOpenRow DEF IInv, RowOfWork
<1>4. /\ EventType' /\ QueueRows' /\ AtRest'
      /\ \A e \in Events : evState'[e] = IF e = cur THEN "noreply" ELSE evState[e]
  BY <1>1, <1>2, FinishQueue DEF IInv
<1>5. \A p \in Pills : evState'[p] \in {"none", "queued"} => evState[p] \in {"none", "queued"}
  BY <1>4, KindsOfEvents
<1>6. curatedAt' \in Nat /\ outages' \in Nat /\ draining' \in BOOLEAN /\ closing' \in BOOLEAN
  BY <1>1 DEF IInv, TypeOK
<1> QED BY <1>1, <1>3, <1>4, <1>5, <1>6, SessionMoves DEF AtRest

-----------------------------------------------------------------------------
(*                        start, crash and stop                             *)

\* What a start closes is without a commit.
LEMMA InterruptedRow ==
  ASSUME IInv, NEW r \in Rotations
  PROVE  /\ Interrupted(r) <=> Open(r) /\ ~row[r].commit
         /\ r \in Unfinished <=> Open(r) /\ row[r].commit
BY DEF Interrupted, Unfinished, Open, IInv, OpenRows

\* The rows after the interrupted ones are closed.
LEMMA Closed ==
  ASSUME IInv
  PROVE  /\ ClosedRows \in [Rotations -> Row \cup {NoRow}]
         /\ \A r \in Rotations :
              \/ ClosedRows[r] = row[r] /\ (row[r].commit \/ ~Open(r))
              \/ /\ Open(r) /\ ~row[r].commit /\ row[r] \in Row /\ ClosedRows[r] \in Row
                 /\ ClosedRows[r].state = "failed" /\ ClosedRows[r].commit = row[r].commit
                 /\ ClosedRows[r].from = row[r].from /\ ClosedRows[r].at = row[r].at
<1> DEFINE new(r) == [row[r] EXCEPT !.state = "failed", !.reason = "interrupted"]
<1>1. \A r \in Rotations : row[r] \in Row \cup {NoRow}
  BY DEF IInv, TypeOK
<1>2. \A r \in Rotations : Interrupted(r) => Open(r) /\ ~row[r].commit /\ row[r] \in Row
  <2>1. ASSUME NEW r \in Rotations, Interrupted(r) PROVE Open(r) /\ ~row[r].commit /\ row[r] \in Row
    <3>1. Open(r) /\ ~row[r].commit
      BY <2>1, InterruptedRow
    <3>2. row[r].state # "none"
      BY <3>1 DEF Open
    <3> QED BY <3>1, <3>2, RowFacts DEF IInv
  <2> QED BY <2>1
<1>3. \A r \in Rotations : ~Interrupted(r) => row[r].commit \/ ~Open(r)
  BY InterruptedRow
<1>4. \A x \in Row : LET y == [x EXCEPT !.state = "failed", !.reason = "interrupted"]
                     IN  /\ y \in Row /\ y.state = "failed" /\ y.commit = x.commit
                         /\ y.from = x.from /\ y.at = x.at
  BY DEF Row
<1>5. \A r \in Rotations : ClosedRows[r] = IF Interrupted(r) THEN new(r) ELSE row[r]
  BY DEF ClosedRows
<1>6. \A r \in Rotations : Interrupted(r) =>
        /\ ClosedRows[r] \in Row /\ ClosedRows[r].state = "failed"
        /\ ClosedRows[r].commit = row[r].commit
        /\ ClosedRows[r].from = row[r].from /\ ClosedRows[r].at = row[r].at
  BY <1>2, <1>4, <1>5, ZenonT(30)
<1>7. \A r \in Rotations : ClosedRows[r] \in Row \cup {NoRow}
  BY <1>1, <1>5, <1>6
<1>8. ClosedRows \in [Rotations -> Row \cup {NoRow}]
  BY <1>7 DEF ClosedRows
<1> QED BY <1>2, <1>3, <1>5, <1>6, <1>8

\* The interrupted rows are closed; a switch to be finished is left only when down.
LEMMA RowsClosed ==
  ASSUME IInv, row' = ClosedRows, EventType', QueueRows',
         UNCHANGED <<session, sessionAt, note, curatedAt, night>>, outages' \in Nat,
         phase' \in {"down", "idle", "following"}, written' = FALSE, asOf' <= night',
         phase' # "down" => Unfinished = {},
         draining' \in BOOLEAN, closing' \in BOOLEAN,
         \A p \in Pills : evState'[p] \in {"none", "queued"} =>
                            evState[p] \in {"none", "queued"}
  PROVE  IInv'
<1>1. /\ row' \in [Rotations -> Row \cup {NoRow}]
      /\ \A r \in Rotations :
           \/ row'[r] = row[r] /\ (row[r].commit \/ ~Open(r))
           \/ /\ Open(r) /\ ~row[r].commit /\ row[r] \in Row /\ row'[r] \in Row
              /\ row'[r].state = "failed" /\ row'[r].commit = row[r].commit
              /\ row'[r].from = row[r].from /\ row'[r].at = row[r].at
  BY Closed
<1>2. WorkInv' /\ ~Asleep' /\ ~Rotating'
  BY NoWork
<1>3. TypeOK'
  BY <1>1 DEF IInv, TypeOK, EventType
<1>4. \A r \in Rotations : Open(r)' => Open(r) /\ row'[r] = row[r] /\ row[r].commit
  BY <1>1 DEF Open
<1>5. OneOpenSwitch' /\ OpenRows'
  <2>1. phase' # "down" => \A r \in Rotations : ~Open(r)'
    BY <1>4, InterruptedRow
  <2> QED BY <1>2, <1>4, <2>1 DEF IInv, OneOpenSwitch, OpenRows, Working
<1>6. CommitRows'
  <2>1. \A r \in Rotations :
          /\ row'[r].commit = row[r].commit /\ row'[r].at = row[r].at
          /\ row'[r] # NoRow => row[r] # NoRow /\ row'[r].from = row[r].from
          /\ row'[r].commit => row'[r].from = row[r].from
    <3>1. \A r \in Rotations : Open(r) => row[r] # NoRow
      BY RowFacts DEF Open, IInv
    <3> QED BY <1>1, <3>1
  <2> QED BY <2>1 DEF IInv, CommitRows
<1>7. Chain'
  <2>1. \A r \in Rotations :
          \/ row'[r] = row[r]
          \/ /\ row[r].state # "switched" /\ row'[r].state # "switched"
             /\ row'[r].commit /\ row'[r].state = "failed" => row'[r].reason = "create"
    BY <1>1 DEF Open
  <2> QED BY <2>1, ChainKept DEF IInv, Chain
<1>8. PillRows'
  <2>1. \A r \in Rotations : row[r] = NoRow => row'[r] = NoRow
    <3>1. \A r \in Rotations : Open(r) => row[r] # NoRow
      BY RowFacts DEF Open, IInv
    <3> QED BY <1>1, <3>1
  <2> QED BY <1>2, <2>1, KindsOfEvents DEF IInv, PillRows
<1> QED BY <1>2, <1>3, <1>5, <1>6, <1>7, <1>8, Assemble DEF RowInv

\* The sessions' part of a start, with what it leaves of the events.
LEMMA SessionStarts ==
  ASSUME IInv, StartSession, EventType', QueueRows',
         UNCHANGED <<curatedAt, night>>, outages' \in Nat,
         phase' \in {"down", "idle", "following"}, written' = FALSE, asOf' = 0,
         draining' \in BOOLEAN, closing' \in BOOLEAN,
         \A p \in Pills : evState'[p] \in {"none", "queued"} =>
                            evState[p] \in {"none", "queued"}
  PROVE  IInv'
<1>1. CASE Unfinished = {} /\ row' = ClosedRows /\ UNCHANGED <<session, sessionAt, note>>
  <2>1. asOf' <= night'
    BY DEF IInv, TypeOK
  <2> QED BY <1>1, <2>1, RowsClosed
<1>2. ASSUME NEW r \in Unfinished, CommitSwitch(ClosedRows, r) PROVE IInv'
  <2>1. r \in Rotations
    BY DEF Unfinished
  <2>2. Open(r) /\ row[r].commit
    BY <2>1, InterruptedRow
  <2>3. \A q \in Rotations : ~(Open(q) /\ ~row[q].commit)
    BY <2>1, <2>2 DEF IInv, OneOpenSwitch
  <2>4. ClosedRows = row
    <3>1. \A q \in Rotations : ClosedRows[q] = row[q]
      BY <2>3, Closed
    <3> QED BY <3>1, Closed DEF IInv, TypeOK
  <2>5. CommitSwitch(row, r)
    BY <1>2, <2>4
  <2>6. curatedAt' \in Nat
    BY DEF IInv, TypeOK
  <2> QED BY <2>1, <2>2, <2>5, <2>6, SessionMoves
<1> QED BY <1>1, <1>2 DEF StartSession

LEMMA StartStep == ASSUME IInv, Start PROVE IInv'
<1>1. /\ StartSession /\ evState' = [e \in Events |-> RecoveredState(e)]
      /\ UNCHANGED <<createdAt, curatedAt, stop, asked, night, outages>>
  BY DEF Start
<1>2. PICK q \in InOrder({e \in Events : evState[e] = "queued"}) : Pump(q, FALSE)
  BY DEF Start
<1>3. /\ EventType' /\ QueueRows' /\ AtRest'
      /\ \A e \in Events : evState'[e] = RecoveredState(e)
  BY <1>1, <1>2, StartQueue DEF IInv
<1>4. \A p \in Pills : evState'[p] \in {"none", "queued"} => evState[p] \in {"none", "queued"}
  BY <1>3, KindsOfEvents DEF RecoveredState
<1>5. outages' \in Nat /\ draining' \in BOOLEAN /\ closing' \in BOOLEAN
  BY <1>1 DEF IInv, TypeOK
<1> QED BY <1>1, <1>3, <1>4, <1>5, SessionStarts DEF AtRest

LEMMA StartFailsStep == ASSUME IInv, StartFails PROVE IInv'
<1>1. /\ phase = "down" /\ row' = ClosedRows
      /\ UNCHANGED <<events, session, sessionAt, curatedAt, note, work, stop, asked, night,
                     outages>>
  BY DEF StartFails
<1>2. EventType' /\ QueueRows'
  BY <1>1 DEF IInv, TypeOK, EventType, QueueRows, Working, Rotating, Asleep
<1>3. /\ written' = FALSE /\ outages' \in Nat /\ draining' \in BOOLEAN /\ closing' \in BOOLEAN
      /\ asOf' <= night'
  BY <1>1 DEF IInv, NoteOfWork, CommitRows, Asleep, TypeOK
<1> QED BY <1>1, <1>2, <1>3, RowsClosed

\* The process ends between two steps.
LEMMA DownSame ==
  ASSUME IInv, Down, UNCHANGED <<chain, note>>, outages' \in Nat,
         evState' \in [Events -> {"none", "queued", "processing", "noreply", "failed"}],
         \A p \in Pills : evState'[p] \in {"none", "queued"} => evState[p] \in {"none", "queued"}
  PROVE  IInv'
<1>1. /\ EventType' /\ QueueRows' /\ ~Asleep' /\ ~Working' /\ ~Rotating'
      /\ phase' = "down" /\ draining' = FALSE /\ closing' = FALSE
      /\ kind' = "none" /\ asOf' = 0 /\ written' = FALSE
      /\ UNCHANGED <<curatedAt, night>>
  BY DownQueue DEF IInv
<1>2. WorkInv'
  BY <1>1, NoWork
<1>3. night \in Nat /\ night' \in Nat /\ night <= night' /\ asOf' <= night'
  BY <1>1 DEF IInv, TypeOK
<1>4. RowInv'
  BY <1>1, <1>3, SameRows
<1>5. draining' \in BOOLEAN /\ closing' \in BOOLEAN
  BY <1>1
<1>6. TypeOK'
  BY <1>1, <1>5 DEF IInv, TypeOK, EventType
<1> QED BY <1>1, <1>2, <1>4, <1>6, Assemble

\* The process ends after the row was written, and before its event's.
LEMMA DownRow ==
  ASSUME IInv, Down, Rotating, UNCHANGED <<evState, session, sessionAt, note>>, outages' \in Nat,
         NEW new \in Row, row' = [row EXCEPT ![cur] = new],
         row[cur].state # "switched", new.state # "switched",
         new.from = session, new.at <= night,
         new.commit => noteOf = session,
         new.commit /\ new.state = "failed" => new.reason = "create",
         new.state = "curating" => ~new.commit,
         new.commit /\ unsaid => new.kind = "resume"
  PROVE  IInv'
<1>1. /\ EventType' /\ QueueRows' /\ ~Asleep' /\ ~Working' /\ ~Rotating'
      /\ phase' = "down" /\ draining' = FALSE /\ closing' = FALSE
      /\ kind' = "none" /\ asOf' = 0 /\ written' = FALSE
      /\ UNCHANGED <<curatedAt, night>>
  BY DownQueue DEF IInv, TypeOK
<1>2. WorkInv'
  BY <1>1, NoWork
<1>3. /\ cur \in Rotations /\ asOf' <= night
      /\ \A q \in Rotations : q # cur => ~Open(q)
      /\ cur \in Pills => evState[cur] \notin {"none", "queued"}
  BY <1>1 DEF IInv, TypeOK, QueueRows, PillRows, OpenRows, Rotating, Working, Asleep
<1>4. \A p \in Pills : evState'[p] \in {"none", "queued"} =>
                         evState[p] \in {"none", "queued"} /\ p # cur
  BY <1>3
<1>5. RowInv' /\ row' \in [Rotations -> Row \cup {NoRow}]
  BY <1>1, <1>3, <1>4, OneRowWritten
<1>6. draining' \in BOOLEAN /\ closing' \in BOOLEAN
  BY <1>1
<1>7. TypeOK'
  BY <1>1, <1>5, <1>6 DEF IInv, TypeOK, EventType
<1> QED BY <1>1, <1>2, <1>5, <1>7, Assemble

LEMMA EndOfProcess == ASSUME IInv, Crash \/ Exit \/ RowRefused PROVE IInv'
<1>1. Down /\ UNCHANGED <<evState, chain, note>> /\ outages' \in {outages, outages + 1}
  BY DEF Crash, Exit, RowRefused
<1>2. outages' \in Nat
  BY <1>1 DEF IInv, TypeOK
<1>3. evState' \in [Events -> {"none", "queued", "processing", "noreply", "failed"}]
  BY <1>1 DEF IInv, TypeOK
<1> QED BY <1>1, <1>2, <1>3, DownSame

LEMMA TornStep == ASSUME IInv, TornCrash PROVE IInv'
<1> DEFINE x == row[cur]
           Failed(why) == [x EXCEPT !.state = "failed", !.reason = why]
<1>1. Down /\ outages' \in Nat /\ (TornRow \/ TornCommit \/ TornPill \/ TornStart)
  BY DEF TornCrash, IInv, TypeOK
<1>2. ASSUME Asleep
      PROVE  /\ Rotating /\ cur \in Rotations /\ x \in Row /\ x.from = session /\ x.at <= night
             /\ x.kind = kind /\ x.state # "switched" /\ row \in [Rotations -> Row \cup {NoRow}]
             /\ x.commit <=> phase = "creating"
                           \/ (phase = "curating" /\ kind \in {"night", "deep"})
             /\ x.commit => noteOf = session
             /\ x.commit /\ unsaid => x.kind = "resume"
             /\ x.state = "curating" => ~x.commit
  BY <1>2, TheOpenRow DEF IInv, TypeOK, RowOfWork, CommitRows, OpenRows, Rotating
<1>3. ASSUME Asleep
      PROVE  \A why \in {"other", "create"} :
        /\ Failed(why) \in Row /\ Failed(why).state = "failed" /\ Failed(why).reason = why
        /\ Failed(why).from = x.from /\ Failed(why).at = x.at /\ Failed(why).commit = x.commit
        /\ Failed(why).kind = x.kind
  BY <1>2, <1>3 DEF Row
<1>4. \A why : FailRow(why) /\ Asleep => row' = [row EXCEPT ![cur] = Failed(why)]
  BY <1>2 DEF FailRow
<1>5. CASE TornRow
  <2>1. UNCHANGED evState
    BY <1>5 DEF TornRow
  <2>2. CASE phase = "creating" /\ CommitSwitch(row, cur)
    <3>1. Asleep
      BY <2>2 DEF Asleep
    <3>2. cur \in Rotations /\ Open(cur) /\ row[cur].commit
      BY <1>2, <2>2, <3>1, TheOpenRow
    <3>3. EventType' /\ QueueRows' /\ phase' = "down" /\ written' = FALSE /\ asOf' = 0
          /\ draining' = FALSE /\ closing' = FALSE /\ UNCHANGED <<curatedAt, night>>
      BY <1>1, <2>1, DownQueue DEF IInv, TypeOK
    <3>4. curatedAt' \in Nat /\ draining' \in BOOLEAN /\ closing' \in BOOLEAN
      BY <3>3 DEF IInv, TypeOK
    <3> QED BY <1>1, <2>1, <2>2, <3>2, <3>3, <3>4, SessionMoves
  <2>3. CASE /\ UNCHANGED <<session, sessionAt, note>> /\ phase = "marking"
             /\ row[cur] = NoRow /\ row' = Inserted(kind, "reviewing")
    <3>1. Rotating /\ cur \in Rotations /\ kind \in Kind /\ night \in Nat
          /\ row[cur].state # "switched"
      BY <2>3 DEF Rotating, IInv, QueueRows, KindOfWork, Kind, TypeOK, NoRow
    <3> DEFINE new == New(kind, "reviewing")
    <3>2. /\ row' = [row EXCEPT ![cur] = new] /\ new \in Row
          /\ new.state = "reviewing" /\ new.from = session /\ new.at = night /\ ~new.commit
      BY <2>3, <3>1, NewRow
    <3> HIDE DEF new
    <3>3. /\ new.at <= night /\ new.state # "switched"
          /\ new.commit => noteOf = session
          /\ new.commit /\ new.state = "failed" => new.reason = "create"
          /\ new.state = "curating" => ~new.commit
          /\ new.commit /\ unsaid => new.kind = "resume"
      BY <3>1, <3>2
    <3> QED BY <1>1, <2>1, <2>3, <3>1, <3>2, <3>3, DownRow
  <2>4. ASSUME NEW why \in {"other", "create"}, FailRow(why), Asleep,
               why = "other" => ~x.commit, UNCHANGED <<session, sessionAt, note>>
        PROVE  IInv'
    <3> DEFINE new == Failed(why)
    <3>1. row' = [row EXCEPT ![cur] = new]
      BY <1>4, <2>4
    <3>2. /\ new \in Row /\ new.state = "failed" /\ new.reason = why
          /\ new.from = session /\ new.at <= night /\ new.commit = x.commit /\ new.kind = x.kind
          /\ x.state # "switched" /\ Rotating
      BY <1>2, <1>3, <2>4
    <3> HIDE DEF new
    <3>3. /\ new.state # "switched" /\ (new.commit => noteOf = session)
          /\ new.commit /\ new.state = "failed" => new.reason = "create"
          /\ new.state = "curating" => ~new.commit
          /\ new.commit /\ unsaid => new.kind = "resume"
      BY <1>2, <2>4, <3>2
    <3> QED BY <1>1, <2>1, <2>4, <3>1, <3>2, <3>3, DownRow
  <2>5. CASE /\ UNCHANGED <<session, sessionAt, note>> /\ phase = "curating" /\ kind = "resleep"
             /\ row' = [row EXCEPT ![cur].state = "curated"]
    <3> DEFINE new == [x EXCEPT !.state = "curated"]
    <3>1. Asleep
      BY <2>5 DEF Asleep
    <3>2. row' = [row EXCEPT ![cur] = new]
      BY <1>2, <2>5, <3>1
    <3>3. /\ new \in Row /\ new.state = "curated" /\ new.commit = x.commit
          /\ new.from = x.from /\ new.at = x.at
      BY <1>2, <3>1 DEF Row
    <3> HIDE DEF new
    <3>4. ~x.commit /\ x.from = session /\ x.at <= night /\ x.state # "switched" /\ Rotating
      BY <1>2, <2>5, <3>1
    <3>5. ~new.commit /\ new.from = session /\ new.at <= night /\ new.state # "switched"
          /\ new.state # "curating"
      BY <3>3, <3>4
    <3> QED BY <1>1, <2>1, <2>5, <3>2, <3>3, <3>4, <3>5, DownRow
  <2>6. CASE UNCHANGED <<session, sessionAt, note>> /\ phase = "heading" /\ FailRow("other")
    BY <1>2, <2>4, <2>6 DEF Asleep
  <2>7. CASE /\ UNCHANGED <<session, sessionAt, note>> /\ phase = "curating" /\ kind = "resleep"
             /\ FailRow("other")
    BY <1>2, <2>4, <2>7 DEF Asleep
  <2>8. CASE UNCHANGED <<session, sessionAt, note>> /\ phase = "creating" /\ FailRow("create")
    BY <2>4, <2>8 DEF Asleep
  <2> QED BY <1>5, <2>2, <2>3, <2>5, <2>6, <2>7, <2>8 DEF TornRow
<1>6. CASE TornCommit
  <2> DEFINE new == [x EXCEPT !.commit = TRUE]
  <2>1. /\ HandoffKept /\ UNCHANGED <<evState, session, sessionAt, note>> /\ phase = "heading"
    BY <1>6 DEF TornCommit, HandoffKept
  <2>2. Asleep
    BY <2>1 DEF Asleep
  <2>3. row' = [row EXCEPT ![cur] = new]
    BY <1>2, <1>6, <2>2 DEF TornCommit
  <2>4. /\ new \in Row /\ new.state = x.state /\ new.commit = TRUE
        /\ new.from = x.from /\ new.at = x.at /\ new.kind = x.kind
    BY <1>2, <2>2 DEF Row
  <2>5. noteOf = session /\ (unsaid => kind = "resume") /\ kind # "resleep"
    BY <2>1, <2>2 DEF HandoffKept, IInv, NoteOfWork, KindOfWork
  <2>6. x.state # "curating" /\ x.state # "failed"
    BY <2>2, <2>5, TheOpenRow DEF IInv, RowOfWork
  <2> HIDE DEF new
  <2>7. /\ new.state # "switched" /\ new.from = session /\ new.at <= night
        /\ new.state # "curating" /\ new.state # "failed"
        /\ new.commit /\ unsaid => new.kind = "resume"
    BY <1>2, <2>2, <2>4, <2>5, <2>6
  <2> QED BY <1>1, <1>2, <2>1, <2>2, <2>3, <2>4, <2>5, <2>7, DownRow
<1>7. CASE TornPill
  <2>1. /\ evState' = [evState EXCEPT ![cur] = "processing"] /\ UNCHANGED <<chain, note>>
    BY <1>7 DEF TornPill
  <2>2. /\ evState' \in [Events -> {"none", "queued", "processing", "noreply", "failed"}]
        /\ \A e \in Events : evState'[e] = evState[e] \/ evState'[e] = "processing"
    BY <2>1 DEF IInv, TypeOK
  <2>3. \A p \in Pills : evState'[p] \in {"none", "queued"} => evState[p] \in {"none", "queued"}
    BY <2>2, KindsOfEvents
  <2> QED BY <1>1, <2>1, <2>2, <2>3, DownSame
<1>8. CASE TornStart
  <2>1. StartSession /\ UNCHANGED evState
    BY <1>8 DEF TornStart
  <2>2. EventType' /\ QueueRows' /\ phase' = "down" /\ written' = FALSE /\ asOf' = 0
        /\ draining' = FALSE /\ closing' = FALSE /\ UNCHANGED <<curatedAt, night>>
    BY <1>1, <2>1, DownQueue DEF IInv, TypeOK
  <2>3. draining' \in BOOLEAN /\ closing' \in BOOLEAN
    BY <2>2
  <2> QED BY <1>1, <2>1, <2>2, <2>3, SessionStarts
<1> QED BY <1>1, <1>5, <1>6, <1>7, <1>8

-----------------------------------------------------------------------------
(*                     the clock, stops and what is raised                  *)

\* Nothing moves but the clock, the stop, or what the scheduler waits for.
LEMMA QuietStep ==
  ASSUME IInv, UNCHANGED <<events, chain, curatedAt, note, work>>,
         night' \in Nat, night <= night', outages' \in Nat,
         draining' \in BOOLEAN, closing' \in BOOLEAN, closing => closing',
         asking' \in Rotations \cup {NoEvent}, askedFor' \in Nat
  PROVE  IInv'
<1>1. TypeOK'
  BY DEF IInv, TypeOK
<1>2. QueueRows' /\ WorkInv'
  BY DEF IInv, QueueRows, WorkInv, KindOfWork, RowOfWork, NoteOfWork, Open, Working, Rotating,
         Asleep
<1>3. asOf' <= night'
  BY DEF IInv, TypeOK, CommitRows
<1>4. Working' \/ (phase' # "down" /\ ~closing') =>
        \A r \in Rotations : Open(r) => r = cur' /\ Asleep'
  BY DEF IInv, OpenRows, OneOpenSwitch, Working, Asleep
<1>5. Rotating' /\ cur' \in Pills => evState'[cur'] # "queued"
  BY DEF IInv, PillRows, Rotating, Asleep
<1>6. RowInv'
  BY <1>3, <1>4, <1>5, SameRows
<1> QED BY <1>1, <1>2, <1>6, Assemble

LEMMA QuietActions ==
  ASSUME IInv, Nightfall \/ Drain \/ Close \/ UNCHANGED vars PROVE IInv'
<1>1. /\ night \in Nat /\ outages \in Nat /\ draining \in BOOLEAN /\ closing \in BOOLEAN
      /\ asking \in Rotations \cup {NoEvent} /\ askedFor \in Nat
  BY DEF IInv, TypeOK
<1>2. CASE Nightfall
  BY <1>1, <1>2, QuietStep DEF Nightfall
<1>3. CASE Drain
  <2>1. /\ UNCHANGED <<events, chain, curatedAt, note, work, closing, asked, night>>
        /\ outages' = outages + 1 /\ draining' = TRUE
    BY <1>3 DEF Drain
  <2>2. draining' \in BOOLEAN
    BY <2>1
  <2> QED BY <1>1, <2>1, <2>2, QuietStep
<1>4. CASE Close
  <2>1. /\ UNCHANGED <<events, chain, curatedAt, note, work, draining, asked, night, outages>>
        /\ closing' = TRUE
    BY <1>4 DEF Close
  <2>2. closing' \in BOOLEAN /\ closing'
    BY <2>1
  <2> QED BY <1>1, <2>1, <2>2, QuietStep
<1>5. CASE UNCHANGED vars
  BY <1>1, <1>5, QuietStep DEF vars
<1> QED BY <1>2, <1>3, <1>4, <1>5

\* What is raised waits, or is begun where nothing runs.
LEMMA RaiseStep ==
  ASSUME IInv, NEW e \in Events, evState[e] = "none", Raise(e), phase # "down",
         asking' \in Rotations \cup {NoEvent}, askedFor' \in Nat,
         UNCHANGED <<chain, curatedAt, note, stop, night, outages>>
  PROVE  IInv'
<1>1. /\ EventType' /\ QueueRows'
      /\ \A x \in Events : evState'[x] = IF x = e THEN "queued" ELSE evState[x]
      /\ \/ UNCHANGED <<phase, cur, kind, asOf, written>> /\ Working
         \/ phase = "idle" /\ AtRest'
  BY RaiseQueue DEF IInv
<1>2. TypeOK'
  BY <1>1 DEF IInv, TypeOK, EventType
<1>3. night \in Nat /\ asOf <= night
  BY DEF IInv, TypeOK, CommitRows
<1>4. \A p \in Pills : evState'[p] \in {"none", "queued"} => evState[p] \in {"none", "queued"}
  BY <1>1, KindsOfEvents
<1>5. CASE UNCHANGED <<phase, cur, kind, asOf, written>> /\ Working
  <2>1. WorkInv'
    BY <1>5 DEF IInv, WorkInv, KindOfWork, RowOfWork, NoteOfWork, Open, Asleep
  <2>2. cur \in Events /\ evState[cur] # "none" /\ evState'[cur] = evState[cur]
    BY <1>1, <1>5 DEF IInv, QueueRows
  <2>3. Rotating' /\ cur' \in Pills => evState'[cur'] # "queued"
    BY <1>5, <2>2 DEF IInv, PillRows, Rotating, Asleep
  <2>4. \A r \in Rotations : Open(r) => r = cur' /\ Asleep'
    BY <1>5 DEF IInv, OpenRows, Asleep
  <2>5. RowInv'
    BY <1>3, <1>4, <1>5, <2>3, <2>4, SameRows
  <2> QED BY <1>1, <1>2, <2>1, <2>5, Assemble
<1>6. CASE phase = "idle" /\ AtRest'
  <2>1. WorkInv' /\ ~Asleep' /\ ~Rotating'
    BY <1>6, NoWork DEF AtRest
  <2>2. Working' \/ (phase' # "down" /\ ~closing') => \A r \in Rotations : ~Open(r)
    BY <1>6 DEF IInv, AtRest, OneOpenSwitch, Asleep, Working
  <2>3. asOf' <= night'
    BY <1>3, <1>6 DEF AtRest
  <2>4. RowInv'
    BY <1>3, <1>4, <2>1, <2>2, <2>3, SameRows
  <2> QED BY <1>1, <1>2, <2>1, <2>4, Assemble
<1> QED BY <1>1, <1>5, <1>6

\* A switch that is joined: pump() begins what waits, where nothing runs.
LEMMA JoinStep ==
  ASSUME IInv, phase # "down", ~draining, Pump(queue, Busy),
         asking' \in Rotations \cup {NoEvent}, askedFor' \in Nat,
         UNCHANGED <<events, chain, curatedAt, note, stop, night, outages>>
  PROVE  IInv'
<1>1. /\ night \in Nat /\ outages \in Nat /\ draining \in BOOLEAN /\ closing \in BOOLEAN
      /\ asOf <= night
  BY DEF IInv, TypeOK, CommitRows
<1>2. CASE Busy
  <2>1. UNCHANGED work
    BY <1>2 DEF Pump
  <2> QED BY <1>1, <2>1, QuietStep
<1>3. CASE ~Busy
  <2>1. phase = "idle" /\ Pump(queue, FALSE)
    BY <1>3 DEF Busy
  <2>2. /\ queue \in Seq(Events) /\ IsInjective(queue)
        /\ \A e \in Range(queue) : evState[e] = "queued"
    BY DEF IInv, TypeOK, QueueRows
  <2>3. /\ queue' \in Seq(Events) /\ IsInjective(queue') /\ Range(queue') \subseteq Range(queue)
        /\ kind' = "none" /\ asOf' = 0 /\ written' = FALSE
        /\ \/ phase' = "idle" /\ cur' = NoEvent
           \/ /\ phase' = "following" /\ cur' \in Range(queue) /\ cur' \in Events
              /\ cur' \notin Range(queue') /\ ~draining /\ ~closing
    BY <2>1, <2>2, PumpAtRest
  <2>4. WorkInv' /\ ~Asleep' /\ ~Rotating'
    BY <2>3, NoWork
  <2>5. QueueRows'
    BY <2>2, <2>3, <2>4 DEF QueueRows, Working
  <2>6. TypeOK'
    BY <2>3 DEF IInv, TypeOK, Phase
  <2>7. Working' \/ (phase' # "down" /\ ~closing') => \A r \in Rotations : ~Open(r)
    BY <2>1, <2>3 DEF IInv, OneOpenSwitch, Asleep, Working
  <2>8. asOf' <= night'
    BY <1>1, <2>3
  <2>9. RowInv'
    BY <1>1, <2>4, <2>7, <2>8, SameRows
  <2> QED BY <2>4, <2>5, <2>6, <2>9, Assemble
<1> QED BY <1>2, <1>3

LEMMA IncomingStep == ASSUME IInv, Incoming PROVE IInv'
<1>1. asking \in Rotations \cup {NoEvent} /\ askedFor \in Nat /\ night \in Nat
  BY DEF IInv, TypeOK
<1>2. ASSUME NEW o \in Others, RaiseOther(o) PROVE IInv'
  <2>1. o \in Events /\ evState[o] = "none"
    BY <1>2, KindsOfEvents DEF RaiseOther, Fresh
  <2> QED BY <1>1, <1>2, <2>1, RaiseStep DEF RaiseOther
<1>3. ASSUME NEW p \in Pills, TakePill(p) PROVE IInv'
  <2>1. p \in Events /\ evState[p] = "none"
    BY <1>3, KindsOfEvents DEF TakePill, Fresh
  <2> QED BY <1>1, <1>3, <2>1, RaiseStep DEF TakePill
<1>4. CASE Ask
  <2>1. /\ phase # "down" /\ ~draining /\ askedFor' = night
        /\ UNCHANGED <<chain, curatedAt, note, stop, night, outages>>
    BY <1>4 DEF Ask
  <2>2. CASE asking' \in Oldest(Joinable) /\ Pump(queue, Busy) /\ UNCHANGED events
    <3>1. asking' \in Rotations
      BY <2>2 DEF Oldest, Joinable
    <3> QED BY <1>1, <2>1, <2>2, <3>1, JoinStep
  <2>3. ASSUME NEW n \in Fresh(Nights), asking' = n, Raise(n) PROVE IInv'
    <3>1. n \in Events /\ n \in Rotations /\ evState[n] = "none"
      BY KindsOfEvents DEF Fresh
    <3> QED BY <1>1, <2>1, <2>3, <3>1, RaiseStep
  <2> QED BY <1>4, <2>2, <2>3 DEF Ask
<1> QED BY <1>2, <1>3, <1>4 DEF Incoming
-----------------------------------------------------------------------------
(*                          the invariant                                   *)

LEMMA InitStep == Init => IInv
<1> SUFFICES ASSUME Init PROVE IInv
  OBVIOUS
<1>1. \A r \in Rotations : row[r] = NoRow /\ row[r].state = "none" /\ ~row[r].commit
  BY DEF Init, NoRow
<1>2. phase = "down" /\ ~Asleep /\ ~Working /\ ~Rotating
  BY DEF Init, Asleep, Working, Rotating
<1>3. TypeOK
  <2>1. <<>> \in Seq(Events)
    BY EmptySeq
  <2>2. /\ empty \in BOOLEAN /\ unsaid \in BOOLEAN /\ written \in BOOLEAN
        /\ draining \in BOOLEAN /\ closing \in BOOLEAN
    BY DEF Init
  <2>3. /\ session \in Nat \ {0} /\ sessionAt \in Nat /\ curatedAt \in Nat /\ noteOf \in Nat
        /\ asOf \in Nat /\ askedFor \in Nat /\ night \in Nat /\ outages \in Nat
    BY DEF Init
  <2>4. evState \in [Events -> {"none", "queued", "processing", "noreply", "failed"}]
        /\ createdAt \in [Events -> Nat] /\ row \in [Rotations -> Row \cup {NoRow}]
    BY DEF Init
  <2> QED BY <2>1, <2>2, <2>3, <2>4 DEF Init, TypeOK, Phase
<1>4. QueueRows
  BY <1>2, EmptyQueue DEF Init, QueueRows
<1>5. KindOfWork /\ RowOfWork /\ NoteOfWork
  BY <1>2 DEF Init, KindOfWork, RowOfWork, NoteOfWork
<1>6. PillRows
  BY <1>1, <1>2, KindsOfEvents DEF PillRows
<1>7. OpenRows /\ OneOpenSwitch
  BY <1>1, <1>2 DEF OpenRows, OneOpenSwitch, Open
<1>8. CommitRows
  BY <1>1 DEF Init, CommitRows
<1>9. Switched = {}
  BY <1>1 DEF Switched
<1>10. SessionChain /\ FromItsOwnHandoff /\ CommittedIsFinished /\ NothingUnsaidLost
  <2>1. 2..session = {}
    BY DEF Init
  <2> QED BY <1>1, <1>9, <2>1
          DEF SessionChain, FromItsOwnHandoff, CommittedIsFinished, NothingUnsaidLost
<1> QED BY <1>3, <1>4, <1>5, <1>6, <1>7, <1>8, <1>10 DEF IInv

LEMMA WorkStep == ASSUME IInv, Work PROVE IInv'
<1>1. CASE PutBack \/ BeginOther \/ BeginNight \/ BeginPill
  BY <1>1, PutBackStep, BeginStep
<1>2. CASE JudgeNone \/ JudgeReview \/ JudgeResume \/ JudgeResleep \/ JudgeStopped
  BY <1>2, EndsWithoutRow, JudgeStep
<1>3. CASE SkipEmpty \/ BeginReview \/ RowRefused
  BY <1>3, EndsWithoutRow, BeginReviewStep, EndOfProcess
<1>4. CASE NoHandoff \/ CommitHandoff \/ CommitAndStop
  BY <1>4, EndsWithRow, CommitHandoffStep
<1>5. CASE Switch \/ CreateFails
  BY <1>5, EndsWithRow, SwitchStep
<1>6. ASSUME NEW s \in {"noreply", "failed"}, OtherEnds(s) \/ ReviewEnds(s) PROVE IInv'
  BY <1>6, EndsWithoutRow, ReviewEndsStep
<1>7. ASSUME NEW ok \in BOOLEAN, CurateEnds(ok) \/ CurateStopped(ok) \/ ResleepEnds(ok)
      PROVE  IInv'
  BY <1>7, EndsWithoutRow, EndsWithRow, CurateEndsStep
<1> QED BY <1>1, <1>2, <1>3, <1>4, <1>5, <1>6, <1>7 DEF Work

LEMMA NextStep == ASSUME IInv, [Next]_vars PROVE IInv'
<1>1. CASE Process
  BY <1>1, StartStep, StartFailsStep, EndOfProcess, TornStep, QuietActions DEF Process
<1>2. CASE Nightfall \/ UNCHANGED vars
  BY <1>2, QuietActions
<1> QED BY <1>1, <1>2, IncomingStep, WorkStep, WriteHandoffStep DEF Next

\* Every reachable state satisfies the invariant.
THEOREM Inductive == Spec => []IInv
  BY InitStep, NextStep, PTL DEF Spec

(* Every variable keeps its type, the rows of the switches among them.      *)
THEOREM TypeCorrect == Spec => []TypeOK
<1>1. IInv => TypeOK
  BY DEF IInv
<1> QED BY <1>1, Inductive, PTL

(* The sessions form one chain, each made by one switch from the one before *)
(* it, whatever crashes fell between the writes of the switches.            *)
THEOREM SessionsChain == Spec => []SessionChain
<1>1. IInv => SessionChain
  BY DEF IInv
<1> QED BY <1>1, Inductive, PTL

(* Two switches are never open at once, and what a stop left open is closed *)
(* or finished before she works again.                                      *)
THEOREM OneSwitchOpen == Spec => []OneOpenSwitch
<1>1. IInv => OneOpenSwitch
  BY DEF IInv
<1> QED BY <1>1, Inductive, PTL

(* A new session is given the handoff that was written in the session it    *)
(* replaces and committed, never an older one.                              *)
THEOREM OwnHandoff == Spec => []FromItsOwnHandoff
<1>1. IInv => FromItsOwnHandoff
  BY DEF IInv
<1> QED BY <1>1, Inductive, PTL

(* A switch whose handoff is committed is finished, by this process or the  *)
(* next start, unless the session could not be made.                        *)
THEOREM CommittedFinish == Spec => []CommittedIsFinished
<1>1. IInv => CommittedIsFinished
  BY DEF IInv
<1> QED BY <1>1, Inductive, PTL

(* Only a resume starts a session whose predecessor had a turn after its    *)
(* handoff was written.                                                     *)
THEOREM NothingUnsaid == Spec => []NothingUnsaidLost
<1>1. IInv => NothingUnsaidLost
  BY DEF IInv
<1> QED BY <1>1, Inductive, PTL
-----------------------------------------------------------------------------
(*                  what a step may do to the rows                          *)

OpenStates == {"reviewing", "switching", "curating"}

\* The row of r becomes new: it begins, is committed, moves the conversation, or ends.
Becomes(r, new) ==
  \/ /\ row[r] = NoRow /\ (\A q \in Rotations : ~Open(q)) /\ session' = session
     /\ new.state \in OpenStates \cup {"failed"} /\ ~new.commit
     /\ new.kind = "resume" => phase = "judging" /\ PillKind(asOf) = "resume"
  \/ /\ Open(r) /\ ~row[r].commit /\ session' = session
     /\ \/ new.state \in OpenStates /\ new.commit
        \/ new.state = "curated"
  \/ Open(r) /\ row[r].commit /\ new.state = "switched" /\ session' = session + 1
  \/ Open(r) /\ new.state = "failed" /\ session' = session

\* One row at most is written, and the conversation moves only with it.
RowMoves ==
  \/ UNCHANGED <<row, session>>
  \/ \E r \in Rotations :
       /\ \A q \in Rotations : q # r => row'[q] = row[q]
       /\ Becomes(r, row'[r])

\* The row of a switch that begins.
LEMMA RowBegins ==
  ASSUME IInv, cur \in Rotations, row[cur] = NoRow, \A q \in Rotations : ~Open(q),
         session' = session,
         NEW k \in Kind, NEW s \in {"reviewing", "switching", "curating", "failed"},
         row' = Inserted(k, s),
         k = "resume" => phase = "judging" /\ PillKind(asOf) = "resume"
  PROVE  RowMoves
<1>1. /\ row' = [row EXCEPT ![cur] = New(k, s)] /\ row'[cur] = New(k, s)
      /\ New(k, s).kind = k /\ New(k, s).state = s /\ ~New(k, s).commit
  BY NewRow
<1>2. \A q \in Rotations : q # cur => row'[q] = row[q]
  BY <1>1 DEF IInv, TypeOK
<1>3. Becomes(cur, row'[cur])
  BY <1>1 DEF Becomes, OpenStates
<1> QED BY <1>2, <1>3 DEF RowMoves

\* The open row of the work under way.
LEMMA RowGoesOn ==
  ASSUME IInv, Asleep, NEW new, row' = [row EXCEPT ![cur] = new],
         \/ session' = session /\ new.state = "failed"
         \/ /\ session' = session /\ ~row[cur].commit
            /\ new.state = "curated" \/ (new.state \in OpenStates /\ new.commit)
         \/ session' = session + 1 /\ row[cur].commit /\ new.state = "switched"
  PROVE  RowMoves
<1>1. cur \in Rotations /\ Open(cur)
  BY TheOpenRow
<1>2. row'[cur] = new /\ \A q \in Rotations : q # cur => row'[q] = row[q]
  BY <1>1 DEF IInv, TypeOK
<1>3. Becomes(cur, row'[cur])
  BY <1>1, <1>2 DEF Becomes
<1> QED BY <1>1, <1>2, <1>3 DEF RowMoves

\* How the work's row is written, in each of its forms.
LEMMA RowWrites ==
  ASSUME IInv, Asleep
  PROVE  /\ session' = session =>
              /\ \A why : FailRow(why) => RowMoves
              /\ ~row[cur].commit =>
                   /\ RowCommitted => RowMoves
                   /\ row' = [row EXCEPT ![cur].commit = TRUE] => RowMoves
                   /\ row' = [row EXCEPT ![cur].state = "curated"] => RowMoves
         /\ row[cur].commit /\ CommitSwitch(row, cur) => RowMoves
<1> DEFINE x == row[cur]
<1>1. cur \in Rotations /\ x \in Row /\ x.state \in OpenStates
  BY TheOpenRow DEF Open, OpenStates
<1>2. ASSUME session' = session, NEW why, FailRow(why) PROVE RowMoves
  <2> DEFINE new == [x EXCEPT !.state = "failed", !.reason = why]
  <2>1. row' = [row EXCEPT ![cur] = new]
    BY <1>1, <1>2 DEF FailRow, IInv, TypeOK
  <2>2. new.state = "failed"
    BY <1>1 DEF Row
  <2> HIDE DEF new
  <2> QED BY <1>2, <2>1, <2>2, RowGoesOn
<1>3. ASSUME session' = session, ~x.commit, RowCommitted PROVE RowMoves
  <2> DEFINE new == [x EXCEPT !.commit = TRUE, !.state = "switching"]
  <2>1. row' = [row EXCEPT ![cur] = new]
    BY <1>1, <1>3 DEF RowCommitted, IInv, TypeOK
  <2>2. new.state \in OpenStates /\ new.commit
    BY <1>1 DEF Row, OpenStates
  <2> HIDE DEF new
  <2> QED BY <1>3, <2>1, <2>2, RowGoesOn
<1>4. ASSUME session' = session, ~x.commit, row' = [row EXCEPT ![cur].commit = TRUE]
      PROVE  RowMoves
  <2> DEFINE new == [x EXCEPT !.commit = TRUE]
  <2>1. row' = [row EXCEPT ![cur] = new]
    BY <1>1, <1>4 DEF IInv, TypeOK
  <2>2. new.state \in OpenStates /\ new.commit
    BY <1>1 DEF Row
  <2> HIDE DEF new
  <2> QED BY <1>4, <2>1, <2>2, RowGoesOn
<1>5. ASSUME session' = session, ~x.commit, row' = [row EXCEPT ![cur].state = "curated"]
      PROVE  RowMoves
  <2> DEFINE new == [x EXCEPT !.state = "curated"]
  <2>1. row' = [row EXCEPT ![cur] = new]
    BY <1>1, <1>5 DEF IInv, TypeOK
  <2>2. new.state = "curated"
    BY <1>1 DEF Row
  <2> HIDE DEF new
  <2> QED BY <1>5, <2>1, <2>2, RowGoesOn
<1>6. ASSUME x.commit, CommitSwitch(row, cur) PROVE RowMoves
  <2> DEFINE new == [x EXCEPT !.state = "switched", !.reason = "", !.to = session + 1,
                              !.note = noteOf, !.unsaid = unsaid]
  <2>1. row' = [row EXCEPT ![cur] = new] /\ session' = session + 1
    BY <1>1, <1>6 DEF CommitSwitch, IInv, TypeOK
  <2>2. new.state = "switched"
    BY <1>1 DEF Row
  <2> HIDE DEF new
  <2> QED BY <1>6, <2>1, <2>2, RowGoesOn
<1> QED BY <1>2, <1>3, <1>4, <1>5, <1>6

\* A start closes the interrupted switch, or finishes the committed one.
LEMMA StartMoves ==
  ASSUME IInv, StartSession \/ (row' = ClosedRows /\ session' = session) PROVE RowMoves
<1>1. CASE row' = ClosedRows /\ session' = session
  <2>1. CASE \E r \in Rotations : Open(r) /\ ~row[r].commit
    <3>1. PICK r \in Rotations : Open(r) /\ ~row[r].commit
      BY <2>1
    <3>2. row'[r].state = "failed" /\ \A q \in Rotations : q # r => row'[q] = row[q]
      BY <1>1, <3>1, Closed DEF IInv, OneOpenSwitch
    <3>3. Becomes(r, row'[r])
      BY <1>1, <3>1, <3>2 DEF Becomes
    <3> QED BY <3>2, <3>3 DEF RowMoves
  <2>2. CASE \A r \in Rotations : ~(Open(r) /\ ~row[r].commit)
    <3>1. \A r \in Rotations : ClosedRows[r] = row[r]
      BY <2>2, Closed
    <3>2. ClosedRows = row
      BY <3>1, Closed DEF IInv, TypeOK
    <3> QED BY <1>1, <3>2 DEF RowMoves
  <2> QED BY <2>1, <2>2
<1>2. ASSUME NEW r \in Unfinished, CommitSwitch(ClosedRows, r) PROVE RowMoves
  <2>1. r \in Rotations
    BY DEF Unfinished
  <2>2. Open(r) /\ row[r].commit /\ row[r] \in Row
    BY <2>1, InterruptedRow, RowFacts DEF IInv
  <2>3. ClosedRows[r] = row[r] /\ \A q \in Rotations : q # r => ClosedRows[q] = row[q]
    BY <2>1, <2>2, Closed DEF IInv, OneOpenSwitch
  <2>4. ClosedRows \in [Rotations -> Row \cup {NoRow}]
    BY Closed
  <2>5. \A q \in Rotations : q # r => row'[q] = row[q]
    BY <1>2, <2>3, <2>4 DEF CommitSwitch
  <2>6. row'[r].state = "switched" /\ session' = session + 1
    <3> DEFINE new == [row[r] EXCEPT !.state = "switched", !.reason = "", !.to = session + 1,
                                     !.note = noteOf, !.unsaid = unsaid]
    <3>1. row'[r] = new /\ session' = session + 1
      BY <1>2, <2>1, <2>3, <2>4 DEF CommitSwitch
    <3>2. new.state = "switched"
      BY <2>2 DEF Row
    <3> QED BY <3>1, <3>2
  <2>7. Becomes(r, row'[r])
    BY <2>2, <2>6 DEF Becomes
  <2> QED BY <2>1, <2>5, <2>7 DEF RowMoves
<1> QED BY <1>1, <1>2 DEF StartSession

LEMMA JudgeMoves ==
  ASSUME IInv, JudgeReview \/ JudgeResume \/ JudgeResleep \/ JudgeStopped PROVE RowMoves
<1>1. phase = "judging"
  BY DEF JudgeReview, JudgeResume, JudgeResleep, JudgeStopped, Judged
<1>2. /\ cur \in Rotations /\ row[cur] = NoRow /\ \A q \in Rotations : ~Open(q)
  BY <1>1, JudgedPill, NoneOpen
<1>3. CASE JudgeReview
  BY <1>3 DEF JudgeReview, Judged, RowMoves
<1>4. CASE JudgeResume
  <2>1. /\ row' = Inserted("resume", "switching") /\ session' = session
        /\ PillKind(asOf) = "resume"
    BY <1>4 DEF JudgeResume, Judged
  <2> QED BY <1>1, <1>2, <2>1, RowBegins DEF Kind
<1>5. CASE JudgeResleep
  <2>1. row' = Inserted("resleep", "curating") /\ session' = session
    BY <1>5 DEF JudgeResleep, Judged
  <2> QED BY <1>2, <2>1, RowBegins DEF Kind
<1>6. CASE JudgeStopped
  <2>1. CASE PillKind(asOf) = "resume" /\ row' = Inserted("resume", "switching")
    <3>1. session' = session
      BY <1>6 DEF JudgeStopped
    <3> QED BY <1>1, <1>2, <2>1, <3>1, RowBegins DEF Kind
  <2>2. CASE row' = [Inserted("resleep", "failed") EXCEPT ![cur].reason = "other"]
    <3> DEFINE begun == New("resleep", "failed")
               new == [begun EXCEPT !.reason = "other"]
    <3>1. /\ Inserted("resleep", "failed") = [row EXCEPT ![cur] = begun]
          /\ begun \in Row /\ begun.state = "failed" /\ ~begun.commit /\ begun.kind = "resleep"
      BY <1>2, NewRow DEF Kind
    <3>2. new.state = "failed" /\ ~new.commit /\ new.kind = "resleep"
      BY <3>1 DEF Row
    <3> HIDE DEF begun
    <3>3. row' = [row EXCEPT ![cur] = new] /\ row \in [Rotations -> Row \cup {NoRow}]
      BY <1>2, <2>2, <3>1 DEF IInv, TypeOK
    <3> HIDE DEF new
    <3>4. row'[cur] = new /\ \A q \in Rotations : q # cur => row'[q] = row[q]
      BY <1>2, <3>3
    <3>5. Becomes(cur, row'[cur])
      BY <1>2, <1>6, <3>2, <3>4 DEF Becomes, JudgeStopped
    <3> QED BY <1>2, <3>4, <3>5 DEF RowMoves
  <2> QED BY <1>6, <2>1, <2>2 DEF JudgeStopped
<1> QED BY <1>3, <1>4, <1>5, <1>6

\* A review that begins, also where a crash follows.
LEMMA ReviewMoves ==
  ASSUME IInv, phase = "marking", row[cur] = NoRow, row' = Inserted(kind, "reviewing"),
         session' = session
  PROVE  RowMoves
<1>1. cur \in Rotations /\ kind \in Kind /\ kind # "resume"
  BY DEF Rotating, IInv, QueueRows, KindOfWork, Kind
<1>2. \A q \in Rotations : ~Open(q)
  BY NoneOpen DEF Working, Asleep
<1> QED BY <1>1, <1>2, RowBegins

\* The row is not written where the work goes on, or ends without one.
LEMMA WorkMoves == ASSUME IInv, Work PROVE RowMoves
<1>1. Asleep => (row[cur].commit <=> phase = "creating"
                                       \/ (phase = "curating" /\ kind \in {"night", "deep"}))
  BY DEF IInv, RowOfWork
<1>2. CASE PutBack \/ BeginOther \/ BeginNight \/ BeginPill \/ JudgeNone \/ SkipEmpty
           \/ RowRefused
  BY <1>2 DEF PutBack, BeginOther, BeginNight, BeginPill, JudgeNone, SkipEmpty, RowRefused,
              RowMoves
<1>3. CASE BeginReview
  BY <1>3, ReviewMoves DEF BeginReview
<1>4. CASE NoHandoff
  BY <1>4, RowWrites DEF NoHandoff, Asleep
<1>5. CASE CommitHandoff \/ CommitAndStop
  <2>1. /\ phase = "heading" /\ Asleep /\ session' = session /\ RowCommitted
    BY <1>5 DEF CommitHandoff, CommitAndStop, HandoffKept, Asleep
  <2> QED BY <1>1, <2>1, RowWrites
<1>6. CASE Switch
  <2>1. phase = "creating" /\ Asleep /\ CommitSwitch(row, cur)
    BY <1>6 DEF Switch, Asleep
  <2> QED BY <1>1, <2>1, RowWrites
<1>7. CASE CreateFails
  BY <1>7, RowWrites DEF CreateFails, Asleep
<1>8. ASSUME NEW s \in {"noreply", "failed"}, OtherEnds(s) \/ ReviewEnds(s) PROVE RowMoves
  BY <1>8 DEF OtherEnds, ReviewEnds, RowMoves
<1>9. ASSUME NEW ok \in BOOLEAN, CurateEnds(ok) \/ CurateStopped(ok) PROVE RowMoves
  BY <1>9 DEF CurateEnds, CurateStopped, RowMoves
<1>10. ASSUME NEW ok \in BOOLEAN, ResleepEnds(ok) PROVE RowMoves
  <2>1. /\ Asleep /\ ~row[cur].commit /\ session' = session
    BY <1>1, <1>10 DEF ResleepEnds, Asleep
  <2> QED BY <1>10, <2>1, RowWrites DEF ResleepEnds
<1> QED BY <1>2, <1>3, <1>4, <1>5, <1>6, <1>7, <1>8, <1>9, <1>10, JudgeMoves DEF Work

LEMMA TornMoves == ASSUME IInv, TornCrash PROVE RowMoves
<1>1. Asleep => (row[cur].commit <=> phase = "creating"
                                       \/ (phase = "curating" /\ kind \in {"night", "deep"}))
  BY DEF IInv, RowOfWork
<1>2. CASE TornRow
  <2>1. CASE phase = "creating" /\ CommitSwitch(row, cur)
    BY <1>1, <2>1, RowWrites DEF Asleep
  <2>2. CASE /\ session' = session /\ phase = "marking" /\ row[cur] = NoRow
             /\ row' = Inserted(kind, "reviewing")
    BY <2>2, ReviewMoves
  <2>3. CASE /\ session' = session /\ phase \in {"heading", "curating", "creating"}
             /\ FailRow("other") \/ FailRow("create")
    BY <2>3, RowWrites DEF Asleep
  <2>4. CASE /\ session' = session /\ phase = "curating" /\ kind = "resleep"
             /\ row' = [row EXCEPT ![cur].state = "curated"]
    BY <1>1, <2>4, RowWrites DEF Asleep
  <2> QED BY <1>2, <2>1, <2>2, <2>3, <2>4 DEF TornRow
<1>3. CASE TornCommit
  BY <1>1, <1>3, RowWrites DEF TornCommit, HandoffKept, Asleep
<1>4. CASE TornPill
  BY <1>4 DEF TornPill, RowMoves
<1>5. CASE TornStart
  BY <1>5, StartMoves DEF TornStart
<1> QED BY <1>2, <1>3, <1>4, <1>5 DEF TornCrash

LEMMA EveryStepMoves == ASSUME IInv, [Next]_vars PROVE RowMoves
<1>1. CASE Start \/ StartFails
  BY <1>1, StartMoves DEF Start, StartFails
<1>2. CASE Crash \/ Drain \/ Close \/ Exit \/ Nightfall \/ Incoming \/ WriteHandoff
           \/ UNCHANGED vars
  BY <1>2 DEF Crash, Drain, Close, Exit, Nightfall, Incoming, RaiseOther, TakePill, Ask,
              WriteHandoff, vars, RowMoves
<1> QED BY <1>1, <1>2, WorkMoves, TornMoves DEF Next, Process

(* A resume begins only where the session has a committed review of its own *)
(* and is older than the night the pill was judged for.                     *)
THEOREM ResumeNeeded == Spec => ResumeIsNeeded
<1>1. ASSUME IInv, [Next]_vars, NEW r \in Rotations,
             row[r] = NoRow, row'[r] # NoRow, row'[r].kind = "resume"
      PROVE  sessionAt < asOf /\ \E q \in Rotations : row[q].commit /\ row[q].from = session
  <2>1. RowMoves
    BY <1>1, EveryStepMoves
  <2>2. ~Open(r)
    BY <1>1 DEF Open, NoRow
  <2>3. Becomes(r, row'[r])
    BY <1>1, <2>1 DEF RowMoves
  <2>4. PillKind(asOf) = "resume"
    BY <1>1, <2>2, <2>3 DEF Becomes
  <2> QED BY <1>1, <2>4, ResumeHasNote
<1>2. IInv /\ [Next]_vars =>
        [\A r \in Rotations :
           row[r] = NoRow /\ row'[r] # NoRow /\ row'[r].kind = "resume"
             => /\ sessionAt < asOf
                /\ \E q \in Rotations : row[q].commit /\ row[q].from = session]_vars
  BY <1>1
<1> QED BY <1>2, Inductive, PTL DEF Spec, ResumeIsNeeded

-----------------------------------------------------------------------------
(*                       the refinement of Handover                         *)

Statuses == [r \in Rotations |-> Status(r)]

LEMMA HandoverInit == Init => Promise!Init
<1> SUFFICES ASSUME Init PROVE Promise!Init
  OBVIOUS
<1>1. \A r \in Rotations : Status(r) = "none"
  BY DEF Init, Status, Open, NoRow
<1> QED BY <1>1 DEF Init, Promise!Init

\* What the status of a switch says of its row.
LEMMA StatusOfRow ==
  ASSUME TypeOK, NEW r \in Rotations
  PROVE  /\ Open(r) /\ ~row[r].commit => Status(r) = "open"
         /\ Open(r) /\ row[r].commit => Status(r) = "committed"
         /\ ~Open(r) => Status(r) = row[r].state /\ Status(r) \notin {"open", "committed"}
         /\ row[r] = NoRow => Status(r) = "none"
<1>1. row[r] \in Row \/ row[r] = NoRow
  BY RowFacts
<1>2. row[r].state \in {"none", "reviewing", "switching", "switched", "curating", "curated",
                        "failed"}
  <2>1. CASE row[r] \in Row
    BY <2>1 DEF Row
  <2>2. CASE row[r] = NoRow
    BY <2>2 DEF NoRow
  <2> QED BY <1>1, <2>1, <2>2
<1>3. ~Open(r) => Status(r) = row[r].state /\ Status(r) \notin {"open", "committed"}
  BY <1>2 DEF Status, Open
<1> QED BY <1>3 DEF Status, Open, NoRow

LEMMA HandoverStep == ASSUME IInv, [Next]_vars PROVE [Promise!Next]_(Promise!vars)
<1>1. RowMoves
  BY EveryStepMoves
<1>2. CASE UNCHANGED <<row, session>>
  BY <1>2 DEF Promise!vars, Status, Open
<1>3. ASSUME NEW r \in Rotations, \A q \in Rotations : q # r => row'[q] = row[q],
             Becomes(r, row'[r])
      PROVE  [Promise!Next]_(Promise!vars)
  <2> DEFINE to == Status(r)'
  <2>1. Statuses' = [Statuses EXCEPT ![r] = to]
    BY <1>3 DEF Statuses, Status, Open
  <2>2. \A s : s = to => Promise!Becomes(r, s)
    BY <2>1 DEF Promise!Becomes, Statuses
  <2>3. Statuses[r] = Status(r)
    BY DEF Statuses
  <2>4. CASE /\ row[r] = NoRow /\ (\A q \in Rotations : ~Open(q)) /\ session' = session
             /\ row'[r].state \in OpenStates \cup {"failed"} /\ ~row'[r].commit
    <3>1. Status(r) = "none" /\ to \in {"open", "failed"}
      BY <2>4, StatusOfRow DEF IInv, Status, Open, OpenStates
    <3>2. Promise!UnderWay = {}
      BY <2>4, StatusOfRow DEF IInv, Promise!UnderWay
    <3> HIDE DEF to
    <3> QED BY <2>2, <2>4, <3>1, <3>2 DEF Promise!Begin, Promise!Next
  <2>5. CASE Open(r) /\ ~row[r].commit /\ session' = session
    <3>1. Status(r) = "open"
      BY <2>5, StatusOfRow DEF IInv
    <3>2. CASE row'[r].state \in OpenStates /\ row'[r].commit
      <4>1. to = "committed"
        BY <3>2 DEF Status, Open, OpenStates
      <4> QED BY <2>2, <2>5, <3>1, <4>1 DEF Promise!Commit, Promise!Next
    <3>3. CASE row'[r].state = "curated"
      <4>1. to = "curated"
        BY <3>3 DEF Status, Open
      <4> QED BY <2>2, <2>5, <3>1, <4>1 DEF Promise!Curate, Promise!Next
    <3>4. CASE row'[r].state = "failed"
      <4>1. to = "failed" /\ r \in Promise!UnderWay
        BY <3>1, <3>4 DEF Status, Open, Promise!UnderWay
      <4> QED BY <2>2, <2>5, <4>1 DEF Promise!Fail, Promise!Next
    <3> QED BY <1>3, <2>5, <3>2, <3>3, <3>4, RowFacts DEF Becomes, IInv, Open, NoRow
  <2>6. CASE Open(r) /\ row[r].commit /\ row'[r].state = "switched" /\ session' = session + 1
    <3>1. Status(r) = "committed" /\ to = "switched"
      BY <2>6, StatusOfRow DEF IInv, Status, Open
    <3> QED BY <2>2, <2>6, <3>1 DEF Promise!Move, Promise!Next
  <2>7. CASE Open(r) /\ row'[r].state = "failed" /\ session' = session
    <3>1. Status(r) \in {"open", "committed"} /\ to = "failed"
      BY <2>7 DEF Status, Open
    <3> QED BY <2>2, <2>7, <3>1 DEF Promise!UnderWay, Promise!Fail, Promise!Next
  <2> QED BY <1>3, <2>4, <2>5, <2>6, <2>7 DEF Becomes
<1> QED BY <1>1, <1>2, <1>3 DEF RowMoves

(* NightSwitch implements Handover: at most one switch is under way, the    *)
(* conversation moves only by a committed one, to the next session, and a   *)
(* switch that has ended stays as it ended, whatever crashes and stops.     *)
THEOREM HandoverKept == Spec => KeepsHandover
<1>1. IInv /\ [Next]_vars => [Promise!Next]_(Promise!vars)
  BY HandoverStep
<1> QED BY <1>1, HandoverInit, Inductive, PTL DEF Spec, KeepsHandover, Promise!Safety

(* The sessions are one chain, and each begins with the handoff its         *)
(* predecessor wrote and committed.                                         *)
THEOREM HandoffsChain == Spec => []ChainOfHandoffs
<1>1. SessionChain /\ FromItsOwnHandoff => ChainOfHandoffs
  BY DEF ChainOfHandoffs
<1> QED BY <1>1, SessionsChain, OwnHandoff, PTL

(* One switch is open, a committed one is finished, and what was done after *)
(* the handoff is lost by a resume alone.                                   *)
THEOREM SwitchesAreWhole == Spec => []SwitchesWhole
<1>1. OneOpenSwitch /\ CommittedIsFinished /\ NothingUnsaidLost => SwitchesWhole
  BY DEF SwitchesWhole
<1> QED BY <1>1, OneSwitchOpen, CommittedFinish, NothingUnsaid, PTL

-----------------------------------------------------------------------------
(*                     which switches are pending                           *)

\* One pill and one night at most are pending.
OnePending ==
  /\ \A p, q \in Pills  : Pending(p) /\ Pending(q) => p = q
  /\ \A n, m \in Nights : Pending(n) /\ Pending(m) => n = m

\* What is about to be reviewed was not finished.
MarkedPends == phase = "marking" => Pending(cur)

\* Where no event begins to pend, one of a kind does at most as before.
LEMMA NoneBegins ==
  ASSUME OnePending, \A e \in Rotations : Pending(e)' => Pending(e)
  PROVE  OnePending'
  BY KindsOfEvents DEF OnePending

\* Where events are as they were and no mark is being read, nothing begins to pend.
LEMMA SameEvents ==
  ASSUME OnePending, UNCHANGED evState, phase' # "marking"
  PROVE  OnePending' /\ MarkedPends'
<1>1. \A e \in Rotations : Pending(e)' => Pending(e)
  BY DEF Pending
<1> QED BY <1>1, NoneBegins DEF MarkedPends

\* The end of a unit of work ends its event.
LEMMA FinishPends ==
  ASSUME IInv, OnePending, NEW s \in {"noreply", "failed"}, Finish(s)
  PROVE  OnePending' /\ MarkedPends'
<1>1. \A e \in Rotations : Pending(e)' => Pending(e)
  BY KindsOfEvents DEF IInv, TypeOK, Finish, Pending
<1>2. phase' # "marking"
  BY DEF Finish, Pump
<1> QED BY <1>1, <1>2, NoneBegins DEF MarkedPends

\* An event that waited is being handled.
LEMMA HandledPends ==
  ASSUME IInv, OnePending, cur \in Rotations, Pending(cur), evState' = [evState EXCEPT ![cur] = "processing"]
  PROVE  OnePending' /\ (cur' = cur => Pending(cur)')
<1>1. \A e \in Rotations : Pending(e)' => Pending(e)
  BY KindsOfEvents DEF IInv, TypeOK, Pending
<1>2. OnePending'
  BY <1>1, NoneBegins
<1>3. evState'[cur] = "processing"
  BY KindsOfEvents DEF IInv, TypeOK
<1> QED BY <1>2, <1>3 DEF Pending

\* A pill pends where no event did, a night where no other does.
LEMMA RaisedPends ==
  ASSUME IInv, OnePending, MarkedPends, NEW e \in Rotations, Raise(e),
         \A q \in Rotations : Pending(q) => (q \in Nights <=> e \notin Nights)
  PROVE  OnePending' /\ MarkedPends'
<1>1. \A q \in Rotations : Pending(q)' <=> Pending(q) \/ q = e
  BY KindsOfEvents DEF IInv, TypeOK, Raise, Pending
<1>2. \A q \in Rotations : q \in Pills <=> q \notin Nights
  BY KindsOfEvents DEF Rotations
<1>3. OnePending'
  BY <1>1, <1>2, KindsOfEvents DEF OnePending
<1>4. phase' = "marking" => phase = "marking" /\ cur' = cur
  BY DEF Raise, Pump, Busy
<1>5. MarkedPends'
  BY <1>1, <1>4 DEF MarkedPends, Pending
<1> QED BY <1>3, <1>5

LEMMA IncomingPends ==
  ASSUME IInv, OnePending, MarkedPends, Incoming
  PROVE  OnePending' /\ MarkedPends'
<1>1. ASSUME NEW o \in Others, RaiseOther(o) PROVE OnePending' /\ MarkedPends'
  <2>1. phase # "marking" \/ Pending(cur)
    BY DEF MarkedPends
  <2>2. o \in Events /\ o \notin Rotations /\ Raise(o)
    BY <1>1, KindsOfEvents DEF RaiseOther
  <2>3. \A e \in Rotations : Pending(e)' <=> Pending(e)
    BY <2>2, KindsOfEvents DEF IInv, TypeOK, Raise, Pending
  <2>4. phase' = "marking" => phase = "marking" /\ cur' = cur
    BY <2>2 DEF Raise, Pump, Busy
  <2> QED BY <2>1, <2>3, <2>4, NoneBegins DEF MarkedPends, Pending
<1>2. ASSUME NEW p \in Pills, TakePill(p) PROVE OnePending' /\ MarkedPends'
  <2>1. p \in Rotations /\ Raise(p)
    BY <1>2, KindsOfEvents DEF TakePill, Fresh
  <2>2. \A q \in Rotations : ~Pending(q)
    BY <1>2, KindsOfEvents DEF TakePill
  <2> QED BY <2>1, <2>2, RaisedPends
<1>3. CASE Ask
  <2>1. CASE Pump(queue, Busy) /\ UNCHANGED events
    <3>1. phase' = "marking" => phase = "marking" /\ cur' = cur
      BY <2>1 DEF Pump, Busy
    <3> QED BY <2>1, <3>1, NoneBegins DEF MarkedPends, Pending
  <2>2. ASSUME NEW n \in Fresh(Nights), Raise(n), Joinable = {} PROVE OnePending' /\ MarkedPends'
    <3>1. n \in Rotations /\ n \in Nights
      BY KindsOfEvents DEF Fresh
    <3>2. \A q \in Rotations : Pending(q) => q \notin Nights
      BY <2>2 DEF Joinable
    <3> QED BY <2>2, <3>1, <3>2, RaisedPends
  <2> QED BY <1>3, <2>1, <2>2 DEF Ask
<1> QED BY <1>1, <1>2, <1>3 DEF Incoming

LEMMA WorkPends ==
  ASSUME IInv, OnePending, MarkedPends, Work
  PROVE  OnePending' /\ MarkedPends'
<1>1. CASE PutBack \/ BeginPill \/ CommitHandoff \/ RowRefused
  <2>1. UNCHANGED evState /\ phase' # "marking"
    BY <1>1 DEF PutBack, BeginPill, CommitHandoff, RowRefused, Pump, To, Down
  <2> QED BY <2>1, SameEvents
<1>2. ASSUME NEW ok \in BOOLEAN, CurateEnds(ok) PROVE OnePending' /\ MarkedPends'
  <2>1. UNCHANGED evState /\ phase' # "marking"
    BY <1>2 DEF CurateEnds, To
  <2> QED BY <2>1, SameEvents
<1>3. CASE BeginOther
  <2>1. \A e \in Rotations : Pending(e)' => Pending(e)
    BY <1>3, KindsOfEvents DEF IInv, TypeOK, BeginOther, Pending
  <2>2. phase' # "marking"
    BY <1>3 DEF BeginOther, To
  <2> QED BY <2>1, <2>2, NoneBegins DEF MarkedPends
<1>4. CASE BeginNight
  <2>1. Pending(cur) /\ cur' = cur /\ UNCHANGED evState
    BY <1>4, KindsOfEvents DEF IInv, QueueRows, BeginNight, Pending
  <2> QED BY <2>1, NoneBegins DEF MarkedPends, Pending
<1>5. CASE JudgeReview \/ JudgeResume \/ JudgeResleep
  <2>1. /\ phase = "judging" /\ cur' = cur
        /\ evState' = [evState EXCEPT ![cur] = "processing"]
    BY <1>5 DEF JudgeReview, JudgeResume, JudgeResleep, Judged
  <2>2. cur \in Rotations /\ Pending(cur)
    BY <2>1, KindsOfEvents DEF IInv, QueueRows, Pending
  <2> QED BY <2>1, <2>2, HandledPends DEF MarkedPends
<1>6. CASE BeginReview
  <2>1. phase = "marking" /\ cur' = cur /\ evState' = [evState EXCEPT ![cur] = "processing"]
    BY <1>6 DEF BeginReview, To
  <2>2. cur \in Rotations /\ Pending(cur)
    BY <2>1 DEF MarkedPends, Pending
  <2> QED BY <2>1, <2>2, HandledPends DEF MarkedPends
<1>7. CASE JudgeNone \/ JudgeStopped \/ SkipEmpty \/ NoHandoff \/ CommitAndStop \/ Switch
           \/ CreateFails
  <2>1. Finish("noreply") \/ Finish("failed")
    BY <1>7 DEF JudgeNone, JudgeStopped, SkipEmpty, NoHandoff, CommitAndStop, Switch, CreateFails
  <2> QED BY <2>1, FinishPends
<1>8. ASSUME NEW s \in {"noreply", "failed"}, OtherEnds(s) PROVE OnePending' /\ MarkedPends'
  BY <1>8, FinishPends DEF OtherEnds
<1>9. ASSUME NEW s \in {"noreply", "failed"}, ReviewEnds(s) PROVE OnePending' /\ MarkedPends'
  <2>1. \A e \in Rotations : Pending(e)' => Pending(e)
    BY <1>9, KindsOfEvents DEF IInv, TypeOK, ReviewEnds, Pending
  <2>2. phase' # "marking"
    BY <1>9 DEF ReviewEnds, To
  <2> QED BY <2>1, <2>2, NoneBegins DEF MarkedPends
<1>10. ASSUME NEW ok \in BOOLEAN, CurateStopped(ok) \/ ResleepEnds(ok)
       PROVE  OnePending' /\ MarkedPends'
  <2>1. Finish("noreply") \/ Finish("failed")
    BY <1>10 DEF CurateStopped, ResleepEnds
  <2> QED BY <2>1, FinishPends
<1> QED BY <1>1, <1>2, <1>3, <1>4, <1>5, <1>6, <1>7, <1>8, <1>9, <1>10 DEF Work

\* What starts or ends the process lets nothing begin to pend.
LEMMA ProcessPends ==
  ASSUME IInv, OnePending, MarkedPends, Process
  PROVE  OnePending' /\ MarkedPends'
<1>1. CASE Start
  <2>1. \A e \in Rotations : Pending(e)' => Pending(e)
    BY <1>1, KindsOfEvents DEF Start, RecoveredState, Pending
  <2>2. phase' # "marking"
    BY <1>1 DEF Start, Pump
  <2> QED BY <2>1, <2>2, NoneBegins DEF MarkedPends
<1>2. CASE StartFails \/ Drain \/ Close
  <2>1. UNCHANGED <<evState, phase, cur>>
    BY <1>2 DEF StartFails, Drain, Close
  <2> QED BY <2>1, NoneBegins DEF MarkedPends, Pending
<1>3. CASE Crash \/ Exit
  <2>1. UNCHANGED evState /\ phase' # "marking"
    BY <1>3 DEF Crash, Exit, Down
  <2> QED BY <2>1, SameEvents
<1>4. CASE TornCrash
  <2>1. phase' # "marking"
    BY <1>4 DEF TornCrash, Down
  <2>2. CASE UNCHANGED evState
    BY <2>1, <2>2, SameEvents
  <2>3. CASE TornPill
    <3>1. cur \in Rotations /\ Pending(cur) /\ evState' = [evState EXCEPT ![cur] = "processing"]
      BY <2>3, KindsOfEvents DEF IInv, QueueRows, TornPill, Pending
    <3> QED BY <2>1, <3>1, HandledPends DEF MarkedPends
  <2> QED BY <1>4, <2>2, <2>3 DEF TornCrash, TornRow, TornCommit, TornStart
<1> QED BY <1>1, <1>2, <1>3, <1>4 DEF Process

LEMMA NextPends ==
  ASSUME IInv, OnePending, MarkedPends, [Next]_vars
  PROVE  OnePending' /\ MarkedPends'
<1>1. CASE Nightfall \/ WriteHandoff \/ UNCHANGED vars
  <2>1. UNCHANGED <<evState, phase, cur>>
    BY <1>1 DEF Nightfall, WriteHandoff, vars
  <2> QED BY <2>1, NoneBegins DEF MarkedPends, Pending
<1> QED BY <1>1, IncomingPends, WorkPends, ProcessPends DEF Next

\* One pill and one night are two.
LEMMA TwoAtMost == ASSUME OnePending PROVE TwoPendingAtMost
<1> DEFINE ps == {p \in Pills : Pending(p)}
           ns == {n \in Nights : Pending(n)}
<1>1. ASSUME NEW S, \A x, y \in S : x = y
      PROVE  IsFiniteSet(S) /\ Cardinality(S) \in 0..1
  <2>1. CASE S = {}
    BY <2>1, FS_EmptySet
  <2>2. ASSUME NEW x \in S PROVE IsFiniteSet(S) /\ Cardinality(S) \in 0..1
    <3>1. S = {x}
      BY <1>1, <2>2
    <3>2. IsFiniteSet({x}) /\ Cardinality({x}) = 1
      BY FS_Singleton
    <3> QED BY <3>1, <3>2
  <2> QED BY <2>1, <2>2
<1>2. IsFiniteSet(ps) /\ Cardinality(ps) \in 0..1
  <2>1. \A x, y \in ps : x = y
    BY DEF OnePending
  <2> QED BY <1>1, <2>1
<1>3. IsFiniteSet(ns) /\ Cardinality(ns) \in 0..1
  <2>1. \A x, y \in ns : x = y
    BY DEF OnePending
  <2> QED BY <1>1, <2>1
<1>4. Cardinality(ns \cup ps) <= 2
  <2>1. IsFiniteSet(ns \cap ps) /\ Cardinality(ns \cap ps) \in Nat
    BY <1>2, FS_Subset, FS_CardinalityType
  <2> QED BY <1>2, <1>3, <2>1, FS_Union
<1>5. {e \in Rotations : Pending(e)} = ns \cup ps
  BY DEF Rotations
<1> QED BY <1>4, <1>5 DEF TwoPendingAtMost

(* A night and a pill are the most that pend at a time: a pill is not taken *)
(* while anything does, and a night that finds one to join is not raised.   *)
THEOREM PendingAreFew == Spec => []TwoPendingAtMost
<1>1. Init => OnePending /\ MarkedPends
  BY KindsOfEvents DEF Init, OnePending, MarkedPends, Pending
<1>2. OnePending => TwoPendingAtMost
  BY TwoAtMost
<1> QED BY <1>1, <1>2, NextPends, Inductive, PTL DEF Spec

=============================================================================
