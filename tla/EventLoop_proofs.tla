-------------------------- MODULE EventLoop_proofs --------------------------
(***************************************************************************)
(* EventLoop proved for every set of events: its type, that no event is    *)
(* lost, doubled or given to Pi twice, and that a message is recorded as   *)
(* replied exactly when a reply was sent to it.  The inductive invariant   *)
(* IInv adds to those what the turn's own fields hold in each phase.       *)
(***************************************************************************)
EXTENDS EventLoop, QueueLemmas, FiniteSetTheorems

\* Pi works on an events turn, or is about to, or has just stopped.
TurnOpen == phase \in {"preparing", "prompting", "settling"}

\* What the fields of the turn hold in each phase.
TurnShape ==
  /\ phase \notin {"down", "idle"} => cur \in Events
  /\ Asleep => cur \in Nights
  /\ phase = "taking" => cur \in Updates
  /\ phase = "down" => making = NoEvent /\ queue = <<>> /\ ~draining /\ ~closing
  /\ phase = "preparing" => handling = {cur} /\ shown = {cur} /\ answered = {}
  /\ ~TurnOpen => handling = {} /\ shown = {} /\ answered = {}
  /\ phase # "prompting" => steering = <<>> /\ ~waiting
  /\ shown \subseteq handling
  /\ answered \subseteq shown

\* The rows of the events the turn handles.
HandlingRows ==
  \A e \in handling : state[e] = IF e \in answered THEN "replied" ELSE "processing"

\* An event given to Pi does not wait; one not shown yet was not given, one
\* shown was, as the night in progress was.
GivenRows ==
  /\ \A e \in Events : given[e] > 0 => state[e] \notin {"none", "queued"}
  /\ \A e \in handling : e \notin shown \/ phase = "preparing" => given[e] = 0
  /\ \A e \in shown : phase # "preparing" => given[e] > 0
  /\ Asleep => given[cur] > 0

\* Only messages a reply was sent to are named by a reply row.
ReplyRows == replyTo \subseteq covered

IInv ==
  /\ TypeOK /\ TurnShape /\ HandlingRows /\ GivenRows /\ ReplyRows
  /\ Accounted /\ SteeringKept /\ GivenOnce /\ AnsweredExactly /\ NoLostWakeup

-----------------------------------------------------------------------------
(*                 lemmas about rows and about pump()                       *)

\* ConcatQueue, for the events put back to the front of the queue.
LEMMA FrontQueue ==
  \A p, q \in Seq(Events) :
    /\ p \o q \in Seq(Events)
    /\ Range(p \o q) = Range(p) \cup Range(q)
    /\ IsInjective(p) /\ IsInjective(q) /\ Range(p) \cap Range(q) = {} => IsInjective(p \o q)
  BY ConcatQueue

USE DEF rows, work, turn, steer, stop, history

\* Every event that waits for its turn, or is on its way to it.
InLine == Range(queue) \cup {e \in {cur} : BeforeTurn}

QueueOK ==
  /\ queue \in Seq(Events) /\ IsInjective(queue)
  /\ BeforeTurn => cur \in Events /\ cur \notin Range(queue)

LEMMA KindsOfEvents ==
  /\ Messages \subseteq Events /\ Pings \subseteq Events
  /\ Updates \subseteq Events /\ Nights \subseteq Events
  /\ NoEvent \notin Events
  /\ Messages \cap Updates = {} /\ Messages \cap Nights = {} /\ Messages \cap Pings = {}
  /\ Updates \cap Nights = {} /\ Pings \cap Updates = {} /\ Pings \cap Nights = {}
  BY EventKinds DEF Events

LEMMA StampIsNat == Stamp \in Nat
<1>1. IsFiniteSet({e \in Events : state[e] # "none"})
  BY EventKinds, FS_Subset
<1> QED BY <1>1, FS_CardinalityType DEF Stamp

\* Rows written for the events of s.
LEMMA InsertRows ==
  ASSUME TypeOK, NEW s \in Seq(Events), NEW st \in EventState, Insert(s, st)
  PROVE  /\ state' \in [Events -> EventState]
         /\ createdAt' \in [Events -> Nat]
         /\ \A e \in Events : state'[e] = IF e \in Range(s) THEN st ELSE state[e]
<1>1. ASSUME NEW e \in Events, e \in Range(s)
      PROVE  Stamp + (CHOOSE i \in DOMAIN s : s[i] = e) \in Nat
  <2>1. \E i \in DOMAIN s : s[i] = e
    BY <1>1 DEF Range
  <2>2. DOMAIN s \subseteq Nat
    OBVIOUS
  <2>3. (CHOOSE i \in DOMAIN s : s[i] = e) \in Nat
    BY <2>1, <2>2
  <2> QED BY <2>3, StampIsNat
<1>2. createdAt' \in [Events -> Nat]
  BY <1>1 DEF Insert, TypeOK
<1> QED BY <1>2 DEF Insert, TypeOK

\* pump() as a unit of work ends: q is all that waits afterwards.
LEMMA PumpAtRest ==
  ASSUME NEW q \in Seq(Events), IsInjective(q), Pump(q, FALSE)
  PROVE  /\ QueueOK' /\ InLine' = Range(q)
         /\ \/ phase' = "idle" /\ cur' = NoEvent
            \/ phase' = "following" /\ cur' \in Events
<1>1. CASE phase' = "idle" /\ cur' = NoEvent /\ queue' = q
  BY <1>1 DEF QueueOK, InLine, BeforeTurn
<1>2. CASE q # <<>> /\ phase' = "following" /\ cur' = Head(q) /\ queue' = Tail(q)
  <2>1. /\ Head(q) \in Events /\ Head(q) \in Range(q) /\ Tail(q) \in Seq(Events)
        /\ Range(Tail(q)) = Range(q) \ {Head(q)} /\ IsInjective(Tail(q))
    BY <1>2, TailQueue
  <2>2. BeforeTurn'
    BY <1>2 DEF BeforeTurn
  <2> QED BY <1>2, <2>1, <2>2 DEF QueueOK, InLine
<1> QED BY <1>1, <1>2 DEF Pump

\* An event put at the end of the queue, and pump().
LEMMA Enqueue ==
  ASSUME QueueOK, NEW e \in Events, e \notin InLine, Pump(Append(queue, e), Busy)
  PROVE  /\ QueueOK' /\ InLine' = InLine \cup {e}
         /\ \/ phase' = phase /\ cur' = cur
            \/ phase = "idle" /\ phase' = "idle" /\ cur' = NoEvent
            \/ phase = "idle" /\ phase' = "following" /\ cur' \in Events
<1>1. /\ Append(queue, e) \in Seq(Events) /\ IsInjective(Append(queue, e))
      /\ Range(Append(queue, e)) = Range(queue) \cup {e}
  BY AppendQueue DEF QueueOK, InLine
<1>2. CASE phase = "idle"
  <2>1. Pump(Append(queue, e), FALSE)
    BY <1>2 DEF Busy
  <2>2. InLine = Range(queue)
    BY <1>2 DEF InLine, BeforeTurn
  <2> QED BY <1>1, <1>2, <2>1, <2>2, PumpAtRest
<1>3. CASE phase # "idle"
  <2>1. queue' = Append(queue, e) /\ phase' = phase /\ cur' = cur
    BY <1>3 DEF Pump, Busy
  <2>2. BeforeTurn' = BeforeTurn
    BY <2>1 DEF BeforeTurn
  <2> QED BY <1>1, <2>1, <2>2 DEF QueueOK, InLine
<1> QED BY <1>2, <1>3

\* Held and Once in the words of InLine.
LEMMA HeldInLine ==
  /\ \A e : Held(e) <=> e \in InLine \/ e = making
  /\ QueueOK => (Once <=> making \notin InLine)
  BY DEF Held, InLine, Once, QueueOK, BeforeTurn
LEMMA HeldInLineNext ==
  /\ \A e : Held(e)' <=> e \in InLine' \/ e = making'
  /\ QueueOK' => (Once' <=> making' \notin InLine')
  BY DEF Held, InLine, Once, QueueOK, BeforeTurn

-----------------------------------------------------------------------------
(*                 the inductive invariant, action by action                *)

\* What the invariant says of the events that wait.
LEMMA Waiters ==
  ASSUME IInv, phase # "down"
  PROVE  /\ QueueOK /\ making \notin InLine
         /\ \A e \in Events : state[e] = "queued" <=> e \in InLine \/ e = making
         /\ \A e \in Events : state[e] = "processing" => InHand(e)
<1>1. QueueOK
  BY DEF IInv, TypeOK, Accounted, Once, TurnShape, QueueOK, BeforeTurn
<1> QED BY <1>1, HeldInLine DEF IInv, Accounted

LEMMA WaitersNext ==
  ASSUME QueueOK', making' \notin InLine',
         \A e \in Events : state'[e] = "queued" <=> e \in InLine' \/ e = making',
         \A e \in Events : state'[e] = "processing" => InHand(e)'
  PROVE  Accounted'
  BY HeldInLineNext DEF Accounted

LEMMA InitStep == Init => IInv
<1> SUFFICES ASSUME Init PROVE IInv
  OBVIOUS
<1>1. TypeOK
  BY EmptySeq DEF Init, TypeOK, EventState, Phase
<1>2. SteeringKept
  BY EmptyQueue DEF Init, SteeringKept
<1>3. TurnShape /\ HandlingRows /\ GivenRows /\ ReplyRows
  BY DEF Init, TurnShape, HandlingRows, GivenRows, ReplyRows, Asleep, TurnOpen
<1>4. Accounted /\ GivenOnce /\ AnsweredExactly /\ NoLostWakeup
  BY KindsOfEvents DEF Init, Accounted, GivenOnce, AnsweredExactly, NoLostWakeup
<1> QED BY <1>1, <1>2, <1>3, <1>4 DEF IInv

\* Steps that leave the rows, the queue and the turn's events alone.
LEMMA QuietStep ==
  ASSUME IInv, UNCHANGED <<rows, work, handling, shown, answered, steering, steer, given, covered>>,
         waiting' \in BOOLEAN, draining' \in BOOLEAN, closing' \in BOOLEAN,
         avatar' \in {"neutral", "thinking", "sleepy", "chosen"}, outages' \in Nat,
         waiting' => phase = "prompting" /\ ~draining' /\ handling \subseteq shown,
         draining' \/ closing' => phase # "down", UNCHANGED cut
  PROVE  IInv'
<1>1. TypeOK'
  BY DEF IInv, TypeOK
<1>2. TurnShape' /\ HandlingRows' /\ GivenRows' /\ ReplyRows'
  BY DEF IInv, TurnShape, HandlingRows, GivenRows, ReplyRows, Asleep, TurnOpen
<1>3. Accounted'
  BY DEF IInv, Accounted, Held, BeforeTurn, Once, InHand
<1>4. SteeringKept' /\ GivenOnce' /\ AnsweredExactly' /\ NoLostWakeup'
  BY DEF IInv, SteeringKept, GivenOnce, AnsweredExactly, NoLostWakeup, MayWait
<1> QED BY <1>1, <1>2, <1>3, <1>4 DEF IInv

LEMMA QuietActions ==
  ASSUME IInv,
         Drain \/ Close \/ SetExpression \/ WaitForEvents \/ WaitTimesOut \/ RelaxExpression
  PROVE  IInv'
<1> USE DEF MayWait, TypeOK, TurnShape, NoLostWakeup, Asleep
<1>1. CASE Drain
  <2>1. outages' \in Nat /\ waiting' = FALSE /\ draining' = TRUE /\ phase # "down"
    BY <1>1 DEF Drain, IInv
  <2>2. UNCHANGED <<rows, work, handling, shown, answered, steering, cut, steer,
                    closing, avatar, given, covered>>
    BY <1>1 DEF Drain
  <2> QED BY <2>1, <2>2, QuietStep DEF IInv
<1>2. CASE Close
  BY <1>2, QuietStep DEF Close, IInv
<1>3. CASE SetExpression
  BY <1>3, QuietStep DEF SetExpression, IInv
<1>4. CASE WaitForEvents
  BY <1>4, QuietStep DEF WaitForEvents, IInv
<1>5. CASE WaitTimesOut
  BY <1>5, QuietStep DEF WaitTimesOut, IInv
<1>6. CASE RelaxExpression
  BY <1>6, QuietStep DEF RelaxExpression, IInv
<1> QED BY <1>1, <1>2, <1>3, <1>4, <1>5, <1>6

\* A process goes down: what is left is what SQLite holds.
LEMMA DownStep == ASSUME IInv, Down, UNCHANGED <<given, covered>>, outages' \in Nat PROVE IInv'
<1> USE DEF Down, Forget, ForgetTurn
<1>1. TypeOK'
  BY EmptySeq DEF IInv, TypeOK, Phase
<1>2. TurnShape' /\ HandlingRows' /\ GivenRows' /\ ReplyRows'
  BY DEF IInv, TurnShape, HandlingRows, GivenRows, ReplyRows, Asleep, TurnOpen
<1>3. Accounted'
  BY DEF Accounted
<1>4. SteeringKept'
  BY EmptyQueue DEF SteeringKept
<1>5. GivenOnce' /\ AnsweredExactly' /\ NoLostWakeup'
  BY DEF IInv, GivenOnce, AnsweredExactly, NoLostWakeup, MayWait
<1> QED BY <1>1, <1>2, <1>3, <1>4, <1>5 DEF IInv

LEMMA OutageSteps == ASSUME IInv, Crash \/ Exit PROVE IInv'
  BY DownStep DEF Crash, Exit, IInv, TypeOK

-----------------------------------------------------------------------------
(*                    a start and what raises events                        *)

\* The queue a start recovers holds each queued event once.
LEMMA RecoveredQueue ==
  ASSUME TypeOK, NEW S \in SUBSET Events, NEW q \in InOrder(S)
  PROVE  q \in Seq(Events) /\ Range(q) = S /\ IsInjective(q)
<1>1. Cardinality(S) \in Nat
  BY EventKinds, FS_Subset, FS_CardinalityType
<1>2. q \in [1..Cardinality(S) -> S] /\ Range(q) = S
  BY DEF InOrder
<1>3. q \in Seq(Events)
  BY <1>1, <1>2
<1>4. \A i, j \in DOMAIN q : i < j => createdAt[q[i]] < createdAt[q[j]]
  BY DEF InOrder
<1>5. \A i \in DOMAIN q : createdAt[q[i]] \in Nat
  BY <1>2 DEF TypeOK
<1>6. IsInjective(q)
  <2> SUFFICES ASSUME NEW i \in DOMAIN q, NEW j \in DOMAIN q, q[i] = q[j] PROVE i = j
    BY DEF IsInjective
  <2>1. i \in Nat /\ j \in Nat
    BY <1>1, <1>2
  <2>2. ~(i < j) /\ ~(j < i)
    BY <1>4, <1>5
  <2> QED BY <2>1, <2>2
<1> QED BY <1>2, <1>3, <1>6

LEMMA StartStep == ASSUME IInv, Start PROVE IInv'
<1>1. \A e \in Events : state'[e] = IF state[e] = "processing" THEN "failed" ELSE state[e]
  BY DEF Start, RecoveredState, IInv, TypeOK, ReplyRows, AnsweredExactly
<1> DEFINE S == {e \in Events : state'[e] = "queued"}
<1>2. PICK q \in InOrder(S) : Pump(q, FALSE)
  BY DEF Start
<1>3. S = {e \in Events : state[e] = "queued"}
  BY <1>1
<1> HIDE DEF S
<1>4. q \in Seq(Events) /\ Range(q) = {e \in Events : state[e] = "queued"} /\ IsInjective(q)
  BY <1>2, <1>3, RecoveredQueue DEF IInv
<1>5. /\ QueueOK' /\ InLine' = {e \in Events : state[e] = "queued"}
      /\ \/ phase' = "idle" /\ cur' = NoEvent
         \/ phase' = "following" /\ cur' \in Events
  BY <1>2, <1>4, PumpAtRest
<1>6. state' \in [Events -> EventState]
  BY <1>1 DEF Start, IInv, TypeOK, EventState
<1>7. TypeOK'
  BY <1>5, <1>6 DEF Start, IInv, TypeOK, QueueOK, Phase
<1>8. /\ phase = "down" /\ making = NoEvent /\ handling = {} /\ shown = {}
      /\ steering = <<>> /\ ~waiting /\ answered = {} /\ ~draining /\ ~closing
  BY DEF Start, IInv, TurnShape, TurnOpen
<1>9. TurnShape'
  BY <1>5, <1>8 DEF Start, TurnShape, TurnOpen, Asleep
<1>10. HandlingRows' /\ GivenRows' /\ ReplyRows'
  BY <1>5, <1>1, <1>8, <1>6 DEF Start, IInv, TypeOK, HandlingRows, GivenRows, ReplyRows, Asleep
<1>11. Accounted'
  <2>1. \A e \in Events : state'[e] = "queued" <=> e \in InLine' \/ e = making'
    BY <1>5, <1>1, <1>8, KindsOfEvents DEF Start
  <2>2. making' \notin InLine'
    BY <1>5, <1>8, KindsOfEvents DEF Start
  <2>3. \A e \in Events : state'[e] # "processing"
    BY <1>1
  <2> QED BY <1>5, <2>1, <2>2, <2>3, WaitersNext
<1>12. SteeringKept'
  BY DEF Start, IInv, SteeringKept
<1>13. GivenOnce' /\ NoLostWakeup'
  BY <1>8 DEF Start, IInv, GivenOnce, NoLostWakeup
<1>14. AnsweredExactly'
  BY <1>1, KindsOfEvents DEF Start, IInv, AnsweredExactly
<1> QED BY <1>7, <1>9, <1>10, <1>11, <1>12, <1>13, <1>14 DEF IInv

\* A new row waits in the queue: a message, a ping or a night.
LEMMA NewRowQueued ==
  ASSUME IInv, NEW e \in Events, state[e] = "none", phase # "down",
         Insert(<<e>>, "queued"), Pump(Append(queue, e), Busy),
         UNCHANGED <<replyTo, turn, steer, stop, history>>,
         avatar' \in {"neutral", "thinking", "sleepy", "chosen"}
  PROVE  IInv'
<1>1. QueueOK /\ making \notin InLine
      /\ (\A x \in Events : state[x] = "queued" <=> x \in InLine \/ x = making)
      /\ (\A x \in Events : state[x] = "processing" => InHand(x))
  BY Waiters
<1>2. e \notin InLine /\ e # making
  BY <1>1
<1>3. /\ QueueOK' /\ InLine' = InLine \cup {e}
      /\ \/ phase' = phase /\ cur' = cur
         \/ phase = "idle" /\ phase' = "idle" /\ cur' = NoEvent
         \/ phase = "idle" /\ phase' = "following" /\ cur' \in Events
  BY <1>1, <1>2, Enqueue
<1>4. /\ state' \in [Events -> EventState] /\ createdAt' \in [Events -> Nat]
      /\ \A x \in Events : state'[x] = IF x = e THEN "queued" ELSE state[x]
  BY SingleQueue, InsertRows DEF IInv, EventState
<1>5. TypeOK'
  BY <1>3, <1>4 DEF IInv, TypeOK, QueueOK, Phase
<1>6. TurnShape'
  BY <1>3 DEF IInv, TurnShape, TurnOpen, Asleep
<1>7. HandlingRows'
  BY <1>4 DEF IInv, HandlingRows, TypeOK
<1>8. GivenRows'
  BY <1>3, <1>4 DEF IInv, GivenRows, TypeOK, TurnShape, TurnOpen, Asleep
<1>9. Accounted'
  <2>1. \A x \in Events : state'[x] = "queued" <=> x \in InLine' \/ x = making'
    BY <1>1, <1>3, <1>4
  <2>2. making' \notin InLine'
    BY <1>1, <1>2, <1>3
  <2>3. \A x \in Events : state'[x] = "processing" => InHand(x)'
    BY <1>1, <1>3, <1>4 DEF InHand
  <2> QED BY <1>3, <2>1, <2>2, <2>3, WaitersNext
<1>10. SteeringKept' /\ GivenOnce' /\ ReplyRows' /\ NoLostWakeup'
  BY DEF IInv, SteeringKept, GivenOnce, ReplyRows, NoLostWakeup, MayWait
<1>11. AnsweredExactly'
  BY <1>4, KindsOfEvents DEF IInv, AnsweredExactly
<1> QED BY <1>5, <1>6, <1>7, <1>8, <1>9, <1>10, <1>11 DEF IInv

LEMMA AvatarOfSendType ==
  ASSUME IInv PROVE AvatarOfSend \in {"neutral", "thinking", "sleepy", "chosen"}
  BY DEF IInv, TypeOK, AvatarOfSend

LEMMA QueueSteps ==
  ASSUME IInv,
         \/ \E m \in Messages : QueueMessage(m)
         \/ \E p \in Pings : RaisePing(p)
         \/ \E n \in Nights : RaiseNight(n)
  PROVE  IInv'
<1>1. ASSUME NEW m \in Messages, QueueMessage(m) PROVE IInv'
  BY <1>1, NewRowQueued, AvatarOfSendType, KindsOfEvents DEF QueueMessage, Fresh, Available
<1>2. ASSUME NEW p \in Pings, RaisePing(p) PROVE IInv'
  <2>1. Pump(Append(queue, p), Busy) /\ phase # "down"
    BY <1>2 DEF RaisePing, Quiet, Busy
  <2> QED BY <1>2, <2>1, NewRowQueued, KindsOfEvents DEF RaisePing, Fresh, IInv, TypeOK
<1>3. ASSUME NEW n \in Nights, RaiseNight(n) PROVE IInv'
  BY <1>3, NewRowQueued, KindsOfEvents DEF RaiseNight, Fresh, Available, IInv, TypeOK
<1> QED BY <1>1, <1>2, <1>3

-----------------------------------------------------------------------------
(*                        steering into the turn                            *)

\* An event is steered in: it was not waiting in the queue, and not given.
LEMMA SteeredIn ==
  ASSUME IInv, NEW e \in Events, CanSteer, Steered(e),
         state[e] \in {"none", "queued"}, e \notin InLine
  PROVE  /\ phase = "prompting" /\ e \notin handling /\ given[e] = 0
         /\ handling' \in SUBSET Events /\ steering' \in Seq(Events)
         /\ SteeringKept' /\ NoLostWakeup' /\ waiting' = FALSE
         /\ shown' \subseteq handling' /\ answered' \subseteq shown'
<1>1. phase = "prompting"
  BY DEF CanSteer
<1>2. e \notin handling /\ given[e] = 0
  <2>1. e \notin handling
    BY DEF IInv, HandlingRows
  <2>2. given[e] \in Nat /\ ~(given[e] > 0)
    BY DEF IInv, GivenRows, TypeOK
  <2> QED BY <2>1, <2>2
<1>3. e \notin shown /\ e \notin Range(steering)
  BY <1>2 DEF IInv, TurnShape, SteeringKept
<1>4. /\ steering' \in Seq(Events) /\ Range(steering') = Range(steering) \cup {e}
      /\ IsInjective(steering')
  BY <1>3, AppendQueue DEF Steered, IInv, TypeOK, SteeringKept
<1>5. SteeringKept'
  BY <1>3, <1>4 DEF Steered, IInv, SteeringKept
<1> QED BY <1>1, <1>2, <1>4, <1>5 DEF Steered, IInv, TypeOK, TurnShape, NoLostWakeup

LEMMA SteerMessageStep ==
  ASSUME IInv, NEW m \in Messages, SteerMessage(m) PROVE IInv'
<1>1. m \in Events /\ state[m] = "none" /\ CanSteer /\ Steered(m) /\ phase = "prompting"
  BY KindsOfEvents DEF SteerMessage, Fresh, CanSteer
<1>2. QueueOK /\ making \notin InLine
      /\ (\A x \in Events : state[x] = "queued" <=> x \in InLine \/ x = making)
      /\ (\A x \in Events : state[x] = "processing" => InHand(x))
  BY <1>1, Waiters
<1>3. m \notin InLine /\ m # making
  BY <1>1, <1>2
<1>4. /\ m \notin handling /\ given[m] = 0
      /\ handling' \in SUBSET Events /\ steering' \in Seq(Events)
      /\ SteeringKept' /\ NoLostWakeup' /\ waiting' = FALSE
      /\ shown' \subseteq handling' /\ answered' \subseteq shown'
  BY <1>1, <1>3, SteeredIn
<1>5. /\ state' \in [Events -> EventState] /\ createdAt' \in [Events -> Nat]
      /\ \A x \in Events : state'[x] = IF x = m THEN "processing" ELSE state[x]
  BY <1>1, SingleQueue, InsertRows, ZenonT(30) DEF SteerMessage, IInv, EventState
<1>6. TypeOK'
  BY <1>4, <1>5, AvatarOfSendType DEF SteerMessage, Steered, IInv, TypeOK
<1>7. TurnShape'
  BY <1>1, <1>4 DEF SteerMessage, Steered, IInv, TurnShape, TurnOpen, Asleep
<1>8. HandlingRows'
  BY <1>4, <1>5 DEF SteerMessage, Steered, IInv, HandlingRows, TypeOK, TurnShape
<1>9. GivenRows'
  BY <1>1, <1>4, <1>5 DEF SteerMessage, Steered, IInv, GivenRows, TypeOK, Asleep
<1>10. Accounted'
  <2>1. QueueOK' /\ InLine' = InLine /\ making' = making
    BY <1>2 DEF SteerMessage, QueueOK, InLine, BeforeTurn
  <2>2. \A x \in Events : state'[x] = "processing" => InHand(x)'
    BY <1>2, <1>5 DEF SteerMessage, Steered, InHand
  <2> QED BY <1>2, <1>3, <1>5, <2>1, <2>2, WaitersNext
<1>11. GivenOnce' /\ ReplyRows'
  BY DEF SteerMessage, IInv, GivenOnce, ReplyRows
<1>12. AnsweredExactly'
  BY <1>1, <1>5, KindsOfEvents DEF SteerMessage, IInv, AnsweredExactly
<1> QED BY <1>4, <1>6, <1>7, <1>8, <1>9, <1>10, <1>11, <1>12 DEF IInv

\* The rows raiseSourcesUpdated writes.
LEMMA UpdateRows ==
  ASSUME NEW made \in Events \cup {NoEvent}, NEW queued \in Events \cup {NoEvent}, NEW s,
         s = (IF made # NoEvent THEN <<made>> ELSE <<>>)
               \o (IF queued # NoEvent THEN <<queued>> ELSE <<>>)
  PROVE  s \in Seq(Events) /\ Range(s) = {made, queued} \ {NoEvent}
<1> DEFINE One(x) == IF x # NoEvent THEN <<x>> ELSE <<>>
<1>1. ASSUME NEW x \in Events \cup {NoEvent}
      PROVE  One(x) \in Seq(Events) /\ Range(One(x)) = {x} \ {NoEvent}
  <2>1. CASE x = NoEvent
    BY <2>1, EmptyQueue, EmptySeq
  <2>2. CASE x # NoEvent
    BY <2>2, SingleQueue
  <2> QED BY <2>1, <2>2
<1>2. s = One(made) \o One(queued)
  OBVIOUS
<1>3. /\ One(made) \in Seq(Events) /\ Range(One(made)) = {made} \ {NoEvent}
      /\ One(queued) \in Seq(Events) /\ Range(One(queued)) = {queued} \ {NoEvent}
  BY <1>1
<1> HIDE DEF One
<1>4. s \in Seq(Events) /\ Range(s) = Range(One(made)) \cup Range(One(queued))
  <2>1. One(made) \in Seq(Events) /\ One(queued) \in Seq(Events)
    BY <1>3
  <2>2. /\ One(made) \o One(queued) \in Seq(Events)
        /\ Range(One(made) \o One(queued)) = Range(One(made)) \cup Range(One(queued))
    BY <2>1, FrontQueue
  <2> QED BY <1>2, <2>2
<1> QED BY <1>3, <1>4

LEMMA RaiseUpdateStep == ASSUME IInv, RaiseUpdate PROVE IInv'
<1> DEFINE Rows(made, queued) ==
             (IF made # NoEvent THEN <<made>> ELSE <<>>)
               \o (IF queued # NoEvent THEN <<queued>> ELSE <<>>)
<1>1. PICK attention \in BOOLEAN, made \in Fresh(Updates) \cup {NoEvent},
           queued \in Fresh(Updates) \cup {NoEvent} :
        /\ made # NoEvent => making = NoEvent
        /\ made # queued \/ made = NoEvent
        /\ making' = IF made # NoEvent THEN made ELSE making
        /\ again' \in BOOLEAN
        /\ Insert(Rows(made, queued), "queued")
        /\ IF queued # NoEvent THEN Pump(Append(queue, queued), Busy) ELSE UNCHANGED work
  BY DEF RaiseUpdate, IInv, TypeOK
<1>2. phase # "down"
  BY DEF RaiseUpdate, Available
<1>3. QueueOK /\ making \notin InLine
      /\ (\A x \in Events : state[x] = "queued" <=> x \in InLine \/ x = making)
      /\ (\A x \in Events : state[x] = "processing" => InHand(x))
  BY <1>2, Waiters
<1>4. /\ made # NoEvent => made \in Updates /\ made \in Events /\ state[made] = "none"
      /\ queued # NoEvent => queued \in Events /\ state[queued] = "none"
  BY <1>1, KindsOfEvents DEF Fresh
<1>5. /\ made # NoEvent => made \notin InLine
      /\ queued # NoEvent => queued \notin InLine /\ queued # making
  BY <1>3, <1>4
<1>6. /\ QueueOK' /\ InLine' = InLine \cup ({queued} \ {NoEvent})
      /\ \/ phase' = phase /\ cur' = cur
         \/ phase = "idle" /\ phase' = "idle" /\ cur' = NoEvent
         \/ phase = "idle" /\ phase' = "following" /\ cur' \in Events
  <2>1. CASE queued = NoEvent
    BY <1>1, <1>3, <2>1 DEF QueueOK, InLine, BeforeTurn
  <2>2. CASE queued # NoEvent
    BY <1>1, <1>3, <1>4, <1>5, <2>2, Enqueue
  <2> QED BY <2>1, <2>2
<1>7. /\ state' \in [Events -> EventState] /\ createdAt' \in [Events -> Nat]
      /\ \A x \in Events : state'[x] = IF x \in {made, queued} \ {NoEvent} THEN "queued"
                                                                     ELSE state[x]
  <2>1. made \in Events \cup {NoEvent} /\ queued \in Events \cup {NoEvent}
    BY <1>4
  <2>2. Rows(made, queued) \in Seq(Events) /\ Range(Rows(made, queued)) = {made, queued} \ {NoEvent}
    BY <2>1, UpdateRows
  <2>3. Insert(Rows(made, queued), "queued")
    BY <1>1
  <2> HIDE DEF Rows
  <2> QED BY <2>2, <2>3, InsertRows DEF IInv, EventState
<1> HIDE DEF Rows
<1>8. TypeOK'
  BY <1>1, <1>4, <1>6, <1>7, SMTT(30) DEF RaiseUpdate, IInv, TypeOK, QueueOK, Phase
<1>9. TurnShape'
  BY <1>2, <1>6 DEF RaiseUpdate, IInv, TurnShape, TurnOpen, Asleep
<1>10. HandlingRows'
  BY <1>4, <1>7 DEF RaiseUpdate, IInv, HandlingRows, TypeOK
<1>11. GivenRows'
  BY <1>4, <1>6, <1>7 DEF RaiseUpdate, IInv, GivenRows, TypeOK, TurnShape, TurnOpen, Asleep
<1>12. Accounted'
  <2>1. \A x \in Events : state'[x] = "queued" <=> x \in InLine' \/ x = making'
    BY <1>1, <1>3, <1>4, <1>6, <1>7, KindsOfEvents
  <2>2. making' \notin InLine'
    BY <1>1, <1>3, <1>4, <1>5, <1>6
  <2>3. \A x \in Events : state'[x] = "processing" => InHand(x)'
    BY <1>3, <1>6, <1>7 DEF RaiseUpdate, InHand
  <2> QED BY <1>6, <2>1, <2>2, <2>3, WaitersNext
<1>13. SteeringKept' /\ GivenOnce' /\ ReplyRows' /\ NoLostWakeup'
  BY DEF RaiseUpdate, IInv, SteeringKept, GivenOnce, ReplyRows, NoLostWakeup, MayWait
<1>14. AnsweredExactly'
  BY <1>4, <1>7, KindsOfEvents DEF RaiseUpdate, IInv, AnsweredExactly
<1> QED BY <1>8, <1>9, <1>10, <1>11, <1>12, <1>13, <1>14 DEF IInv

\* The line in the making ends as v, and another may be begun.
LEMMA RoundEnds ==
  ASSUME IInv, making # NoEvent, NEW v \in EventState,
         AnotherRound([state EXCEPT ![making] = v])
  PROVE  /\ state' \in [Events -> EventState] /\ createdAt' \in [Events -> Nat]
         /\ making \in Events /\ state[making] = "queued" /\ making \notin InLine
         /\ making' \in Updates \cup {NoEvent} /\ making' # making /\ again' = FALSE
         /\ making' # NoEvent => making' \in Events /\ state[making'] = "none"
         /\ \A x \in Events : state'[x] = IF x = making THEN v
                                          ELSE IF x = making' THEN "queued" ELSE state[x]
<1>1. phase # "down" /\ making \in Updates /\ making \in Events
  BY KindsOfEvents DEF IInv, TurnShape, TypeOK
<1>2. state[making] = "queued" /\ making \notin InLine
  BY <1>1, Waiters
<1>3. CASE making' = NoEvent /\ state' = [state EXCEPT ![making] = v] /\ UNCHANGED createdAt
  BY <1>1, <1>2, <1>3, KindsOfEvents DEF AnotherRound, IInv, TypeOK
<1>4. ASSUME NEW e \in Fresh(Updates), making' = e,
             state' = [[state EXCEPT ![making] = v] EXCEPT ![e] = "queued"],
             createdAt' = [createdAt EXCEPT ![e] = Stamp + 1]
      PROVE  /\ state' \in [Events -> EventState] /\ createdAt' \in [Events -> Nat]
             /\ making' \in Updates /\ making' # making /\ making' \in Events
             /\ state[making'] = "none"
             /\ \A x \in Events : state'[x] = IF x = making THEN v
                                              ELSE IF x = making' THEN "queued" ELSE state[x]
  <2>1. e \in Updates /\ e \in Events /\ state[e] = "none" /\ e # making
    BY <1>2, KindsOfEvents DEF Fresh
  <2>2. state \in [Events -> EventState] /\ createdAt \in [Events -> Nat]
    BY DEF IInv, TypeOK
  <2>3. Stamp + 1 \in Nat
    BY StampIsNat
  <2>4. createdAt' \in [Events -> Nat]
    BY <1>4, <2>1, <2>2, <2>3
  <2>5. [state EXCEPT ![making] = v] \in [Events -> EventState] /\ "queued" \in EventState
    BY <2>2 DEF EventState
  <2>6. state' \in [Events -> EventState]
    BY <1>4, <2>5
  <2>7. ASSUME NEW x \in Events
        PROVE  state'[x] = IF x = making THEN v ELSE IF x = e THEN "queued" ELSE state[x]
    BY <1>1, <1>4, <2>1, <2>2, <2>5
  <2> QED BY <1>4, <2>1, <2>4, <2>6, <2>7
<1> QED BY <1>1, <1>2, <1>3, <1>4 DEF AnotherRound

\* What waits after such a round, when the queue is left alone.
LEMMA RoundWaiters ==
  ASSUME IInv, making # NoEvent, NEW v \in {"noreply", "processing"},
         AnotherRound([state EXCEPT ![making] = v]), UNCHANGED work
  PROVE  /\ QueueOK' /\ making' \notin InLine'
         /\ \A x \in Events : state'[x] = "queued" <=> x \in InLine' \/ x = making'
         /\ \A x \in Events : state[x] = "processing" => InHand(x)
<1>1. v \in EventState
  BY DEF EventState
<1>2. /\ making \in Events /\ state[making] = "queued" /\ making \notin InLine
      /\ making' \in Updates \cup {NoEvent} /\ making' # making
      /\ making' # NoEvent => making' \in Events /\ state[making'] = "none"
      /\ \A x \in Events : state'[x] = IF x = making THEN v
                                       ELSE IF x = making' THEN "queued" ELSE state[x]
  BY <1>1, RoundEnds
<1>3. phase # "down"
  BY DEF IInv, TurnShape
<1>4. QueueOK /\ making \notin InLine
      /\ (\A x \in Events : state[x] = "queued" <=> x \in InLine \/ x = making)
      /\ (\A x \in Events : state[x] = "processing" => InHand(x))
  BY <1>3, Waiters
<1>5. QueueOK' /\ InLine' = InLine
  BY <1>4 DEF QueueOK, InLine, BeforeTurn
<1>6. NoEvent \notin InLine
  BY <1>4, KindsOfEvents, RangeIn DEF QueueOK, InLine
<1>7. making' \notin InLine'
  BY <1>2, <1>4, <1>5, <1>6
<1>8. ASSUME NEW x \in Events PROVE state'[x] = "queued" <=> x \in InLine' \/ x = making'
  BY <1>2, <1>4, <1>5
<1> QED BY <1>4, <1>5, <1>7, <1>8

LEMMA LineEmptyStep == ASSUME IInv, LineEmpty PROVE IInv'
<1>1. making # NoEvent /\ AnotherRound([state EXCEPT ![making] = "noreply"])
      /\ "noreply" \in EventState
  BY DEF LineEmpty, EventState
<1>2. /\ state' \in [Events -> EventState] /\ createdAt' \in [Events -> Nat]
      /\ making \in Events /\ state[making] = "queued"
      /\ making' \in Updates \cup {NoEvent} /\ making' # making /\ again' = FALSE
      /\ making' # NoEvent => making' \in Events /\ state[making'] = "none"
      /\ \A x \in Events : state'[x] = IF x = making THEN "noreply"
                                       ELSE IF x = making' THEN "queued" ELSE state[x]
  BY <1>1, RoundEnds
<1>3. /\ QueueOK' /\ making' \notin InLine'
      /\ \A x \in Events : state'[x] = "queued" <=> x \in InLine' \/ x = making'
      /\ \A x \in Events : state[x] = "processing" => InHand(x)
  BY <1>1, RoundWaiters DEF LineEmpty
<1>4. making \in Updates
  BY <1>1 DEF IInv, TypeOK
<1>5. TypeOK'
  BY <1>2 DEF LineEmpty, IInv, TypeOK
<1>6. TurnShape'
  BY <1>1 DEF LineEmpty, IInv, TurnShape, TurnOpen, Asleep
<1>7. HandlingRows'
  BY <1>2, KindsOfEvents DEF LineEmpty, IInv, HandlingRows, TypeOK
<1>8. GivenRows'
  <2>1. ASSUME NEW e \in Events, given[e] > 0 PROVE state'[e] \notin {"none", "queued"}
    BY <1>2, <2>1, KindsOfEvents DEF IInv, GivenRows
  <2> QED BY <2>1 DEF LineEmpty, IInv, GivenRows, Asleep
<1>9. Accounted'
  <2>1. \A x \in Events : state'[x] = "processing" => InHand(x)'
    BY <1>2, <1>3 DEF LineEmpty, InHand
  <2> QED BY <1>3, <2>1, WaitersNext
<1>10. SteeringKept' /\ GivenOnce' /\ ReplyRows' /\ NoLostWakeup'
  BY DEF LineEmpty, IInv, SteeringKept, GivenOnce, ReplyRows, NoLostWakeup, MayWait
<1>11. AnsweredExactly'
  BY <1>2, <1>4, KindsOfEvents DEF LineEmpty, IInv, AnsweredExactly
<1> QED BY <1>5, <1>6, <1>7, <1>8, <1>9, <1>10, <1>11 DEF IInv

LEMMA LineSteeredStep == ASSUME IInv, LineSteered PROVE IInv'
<1>1. /\ making # NoEvent /\ AnotherRound([state EXCEPT ![making] = "processing"])
      /\ "processing" \in EventState /\ CanSteer /\ Steered(making)
  BY DEF LineSteered, EventState
<1>2. /\ state' \in [Events -> EventState] /\ createdAt' \in [Events -> Nat]
      /\ making \in Events /\ state[making] = "queued" /\ making \notin InLine
      /\ making' \in Updates \cup {NoEvent} /\ making' # making /\ again' = FALSE
      /\ making' # NoEvent => making' \in Events /\ state[making'] = "none"
      /\ \A x \in Events : state'[x] = IF x = making THEN "processing"
                                       ELSE IF x = making' THEN "queued" ELSE state[x]
  BY <1>1, RoundEnds
<1>3. /\ QueueOK' /\ making' \notin InLine'
      /\ \A x \in Events : state'[x] = "queued" <=> x \in InLine' \/ x = making'
      /\ \A x \in Events : state[x] = "processing" => InHand(x)
  BY <1>1, RoundWaiters DEF LineSteered
<1>4. /\ phase = "prompting" /\ making \notin handling /\ given[making] = 0
      /\ handling' \in SUBSET Events /\ steering' \in Seq(Events)
      /\ SteeringKept' /\ NoLostWakeup' /\ waiting' = FALSE
      /\ shown' \subseteq handling' /\ answered' \subseteq shown'
  BY <1>1, <1>2, SteeredIn
<1>5. making \in Updates
  BY <1>1 DEF IInv, TypeOK
<1>6. TypeOK'
  BY <1>2, <1>4 DEF LineSteered, Steered, IInv, TypeOK
<1>7. TurnShape'
  BY <1>1, <1>4 DEF LineSteered, Steered, IInv, TurnShape, TurnOpen, Asleep
<1>8. HandlingRows'
  <2>1. ASSUME NEW e \in handling'
        PROVE  state'[e] = IF e \in answered THEN "replied" ELSE "processing"
    <3>1. CASE e = making
      BY <1>2, <1>4, <3>1 DEF IInv, TurnShape
    <3>2. CASE e # making
      <4>1. e \in handling /\ e \in Events
        BY <1>1, <3>2 DEF Steered, IInv, TypeOK
      <4>2. state[e] = IF e \in answered THEN "replied" ELSE "processing"
        BY <4>1 DEF IInv, HandlingRows
      <4> QED BY <1>2, <3>2, <4>1, <4>2, KindsOfEvents
    <3> QED BY <3>1, <3>2
  <2> QED BY <1>1, <2>1 DEF Steered, HandlingRows
<1>9. GivenRows'
  <2>1. ASSUME NEW e \in Events, given[e] > 0 PROVE state'[e] \notin {"none", "queued"}
    BY <1>2, <2>1, KindsOfEvents DEF IInv, GivenRows
  <2>2. ASSUME NEW e \in handling', e \notin shown PROVE given[e] = 0
    BY <1>1, <1>4, <2>2 DEF Steered, IInv, GivenRows
  <2>3. \A x \in shown : given[x] > 0
    BY <1>4 DEF IInv, GivenRows
  <2> QED BY <1>1, <1>4, <2>1, <2>2, <2>3 DEF LineSteered, Steered, GivenRows, Asleep
<1>10. Accounted'
  <2>1. ASSUME NEW x \in Events, state'[x] = "processing" PROVE InHand(x)'
    BY <1>1, <1>2, <1>3, <2>1 DEF LineSteered, Steered, InHand
  <2> QED BY <1>3, <2>1, WaitersNext
<1>11. GivenOnce' /\ ReplyRows'
  BY DEF LineSteered, IInv, GivenOnce, ReplyRows
<1>12. AnsweredExactly'
  BY <1>2, <1>5, KindsOfEvents DEF LineSteered, IInv, AnsweredExactly
<1> QED BY <1>4, <1>6, <1>7, <1>8, <1>9, <1>10, <1>11, <1>12 DEF IInv

LEMMA LineTooLateStep == ASSUME IInv, LineTooLate PROVE IInv'
<1>1. /\ phase # "down" /\ making \in Events /\ making \in Updates /\ making # NoEvent
      /\ making' = NoEvent /\ again' = FALSE /\ Pump(Append(queue, making), Busy)
      /\ UNCHANGED <<rows, turn, stop, avatar, history>>
  BY KindsOfEvents DEF LineTooLate, IInv, TurnShape, TypeOK
<1>2. QueueOK /\ making \notin InLine
      /\ (\A x \in Events : state[x] = "queued" <=> x \in InLine \/ x = making)
      /\ (\A x \in Events : state[x] = "processing" => InHand(x))
  BY <1>1, Waiters
<1>3. /\ QueueOK' /\ InLine' = InLine \cup {making}
      /\ \/ phase' = phase /\ cur' = cur
         \/ phase = "idle" /\ phase' = "idle" /\ cur' = NoEvent
         \/ phase = "idle" /\ phase' = "following" /\ cur' \in Events
  BY <1>1, <1>2, Enqueue
<1>4. TypeOK'
  BY <1>1, <1>3, ZenonT(30) DEF IInv, TypeOK, QueueOK, Phase
<1>5. TurnShape'
  BY <1>1, <1>3 DEF IInv, TurnShape, TurnOpen, Asleep
<1>6. HandlingRows' /\ ReplyRows'
  BY <1>1 DEF IInv, HandlingRows, ReplyRows
<1>7. GivenRows'
  BY <1>1, <1>3 DEF IInv, GivenRows, TurnShape, TurnOpen, Asleep
<1>8. Accounted'
  <2>1. \A x \in Events : state'[x] = "queued" <=> x \in InLine' \/ x = making'
    BY <1>1, <1>2, <1>3, KindsOfEvents
  <2>2. making' \notin InLine'
    BY <1>1, <1>2, <1>3, KindsOfEvents, RangeIn DEF QueueOK, InLine
  <2>3. \A x \in Events : state'[x] = "processing" => InHand(x)'
    BY <1>1, <1>2, <1>3 DEF InHand
  <2> QED BY <1>3, <2>1, <2>2, <2>3, WaitersNext
<1>9. SteeringKept' /\ GivenOnce' /\ AnsweredExactly' /\ NoLostWakeup'
  BY <1>1 DEF IInv, SteeringKept, GivenOnce, AnsweredExactly, NoLostWakeup, MayWait
<1> QED BY <1>4, <1>5, <1>6, <1>7, <1>8, <1>9 DEF IInv

-----------------------------------------------------------------------------
(*                      a unit of work ends, or begins                      *)

\* A unit of work ends outside a turn, and q is all that waits for the next.
LEMMA RestStep ==
  ASSUME IInv, phase # "down", ~TurnOpen, NEW q \in Seq(Events), IsInjective(q),
         Pump(q, FALSE), making \notin Range(q),
         state' \in [Events -> EventState],
         \A x \in Events : state'[x] = "queued" <=> x \in Range(q) \/ x = making,
         \A x \in Events : state'[x] # "processing",
         \A x \in Events : given[x] > 0 => state'[x] \notin {"none", "queued"},
         \A m \in Messages : state'[m] = "replied" <=> state[m] = "replied",
         avatar' \in {"neutral", "thinking", "sleepy", "chosen"},
         UNCHANGED <<createdAt, replyTo, turn, steer, stop, history>>
  PROVE  IInv'
<1>1. /\ QueueOK' /\ InLine' = Range(q)
      /\ \/ phase' = "idle" /\ cur' = NoEvent
         \/ phase' = "following" /\ cur' \in Events
  BY PumpAtRest
<1>2. /\ handling = {} /\ shown = {} /\ answered = {} /\ steering = <<>> /\ ~waiting
  BY DEF IInv, TurnShape, TurnOpen
<1>3. TypeOK'
  BY <1>1 DEF IInv, TypeOK, QueueOK, Phase
<1>4. TurnShape'
  BY <1>1, <1>2 DEF IInv, TurnShape, TurnOpen, Asleep
<1>5. HandlingRows' /\ GivenRows' /\ ReplyRows'
  BY <1>1, <1>2 DEF IInv, HandlingRows, GivenRows, ReplyRows, Asleep
<1>6. Accounted'
  BY <1>1, WaitersNext
<1>7. SteeringKept' /\ GivenOnce' /\ AnsweredExactly' /\ NoLostWakeup'
  BY <1>2 DEF IInv, SteeringKept, GivenOnce, AnsweredExactly, NoLostWakeup
<1> QED BY <1>3, <1>4, <1>5, <1>6, <1>7 DEF IInv

\* Outside a turn and a night nothing is recorded as being handled.
LEMMA NothingHandled ==
  ASSUME IInv, phase \in {"following", "taking", "tidying", "idle"}
  PROVE  \A x \in Events : state[x] # "processing"
<1>1. \A x \in Events : state[x] = "processing" => InHand(x)
  BY Waiters
<1> QED BY <1>1 DEF InHand, IInv, TurnShape, TurnOpen

\* The event pump() has in hand.
LEMMA InHandOfPump ==
  ASSUME IInv, BeforeTurn
  PROVE  /\ cur \in Events /\ state[cur] = "queued" /\ given[cur] = 0
         /\ cur # making /\ cur \notin Range(queue)
<1>1. QueueOK /\ making \notin InLine
      /\ (\A x \in Events : state[x] = "queued" <=> x \in InLine \/ x = making)
  BY Waiters DEF BeforeTurn
<1>2. cur \in Events /\ cur \notin Range(queue) /\ cur \in InLine
  BY <1>1 DEF QueueOK, InLine
<1>3. state[cur] = "queued"
  BY <1>1, <1>2
<1>4. given[cur] \in Nat /\ ~(given[cur] > 0)
  BY <1>2, <1>3 DEF IInv, GivenRows, TypeOK
<1> QED BY <1>1, <1>2, <1>3, <1>4

LEMMA PutBackStep == ASSUME IInv, PutBack PROVE IInv'
<1>1. /\ phase = "following" /\ Pump(<<cur>> \o queue, FALSE) /\ BeforeTurn
      /\ UNCHANGED <<rows, turn, steer, stop, avatar, history>>
  BY DEF PutBack, BeforeTurn
<1>2. QueueOK /\ making \notin InLine
      /\ (\A x \in Events : state[x] = "queued" <=> x \in InLine \/ x = making)
  BY <1>1, Waiters
<1>3. cur \in Events /\ cur \notin Range(queue)
  BY <1>1, InHandOfPump
<1>4. <<cur>> \in Seq(Events) /\ Range(<<cur>>) = {cur} /\ IsInjective(<<cur>>)
  BY <1>3, SingleQueue
<1>5. queue \in Seq(Events) /\ IsInjective(queue) /\ InLine = Range(queue) \cup {cur}
  BY <1>1, <1>2 DEF QueueOK, InLine
<1>6. Range(<<cur>>) \cap Range(queue) = {}
  BY <1>3, <1>4
<1>7. /\ <<cur>> \o queue \in Seq(Events) /\ Range(<<cur>> \o queue) = InLine
      /\ IsInjective(<<cur>> \o queue)
  <2>1. /\ <<cur>> \o queue \in Seq(Events)
        /\ Range(<<cur>> \o queue) = Range(<<cur>>) \cup Range(queue)
        /\ IsInjective(<<cur>> \o queue)
    BY <1>4, <1>5, <1>6, FrontQueue
  <2> QED BY <1>4, <1>5, <2>1
<1>8. ~TurnOpen /\ phase # "down"
  BY <1>1 DEF TurnOpen
<1>9. \A x \in Events : state[x] # "processing"
  BY <1>1, NothingHandled
<1>10. /\ state' \in [Events -> EventState] /\ state' = state
       /\ avatar' \in {"neutral", "thinking", "sleepy", "chosen"}
  BY <1>1 DEF IInv, TypeOK
<1>11. \A x \in Events : given[x] > 0 => state'[x] \notin {"none", "queued"}
  BY <1>1 DEF IInv, GivenRows
<1>12. \A x \in Events : state'[x] = "queued" <=> x \in Range(<<cur>> \o queue) \/ x = making
  BY <1>2, <1>7, <1>10
<1>13. making \notin Range(<<cur>> \o queue)
  BY <1>2, <1>7
<1> QED BY <1>1, <1>7, <1>8, <1>9, <1>10, <1>11, <1>12, <1>13, RestStep

\* The event in hand ends without a turn.
LEMMA EndsUnseen ==
  ASSUME IInv, BeforeTurn, state' = [state EXCEPT ![cur] = "noreply"], Pump(queue, FALSE),
         UNCHANGED <<createdAt, replyTo, turn, steer, stop, avatar, history>>
  PROVE  IInv'
<1>1. QueueOK /\ making \notin InLine
      /\ (\A x \in Events : state[x] = "queued" <=> x \in InLine \/ x = making)
  BY Waiters DEF BeforeTurn
<1>2. cur \in Events /\ state[cur] = "queued" /\ cur # making /\ cur \notin Range(queue)
  BY InHandOfPump
<1>3. queue \in Seq(Events) /\ IsInjective(queue) /\ InLine = Range(queue) \cup {cur}
  BY <1>1 DEF QueueOK, InLine
<1>4. ~TurnOpen /\ phase # "down" /\ phase \in {"following", "taking"}
  BY DEF TurnOpen, BeforeTurn
<1>5. \A x \in Events : state[x] # "processing"
  BY <1>4, NothingHandled
<1>6. /\ state' \in [Events -> EventState]
      /\ \A x \in Events : state'[x] = IF x = cur THEN "noreply" ELSE state[x]
      /\ avatar' \in {"neutral", "thinking", "sleepy", "chosen"}
  BY <1>2 DEF IInv, TypeOK, EventState
<1>7. \A x \in Events : given[x] > 0 => state'[x] \notin {"none", "queued"}
  BY <1>6 DEF IInv, GivenRows
<1>8. \A x \in Events : state'[x] = "queued" <=> x \in Range(queue) \/ x = making
  BY <1>1, <1>2, <1>3, <1>6
<1>9. \A m \in Messages : state'[m] = "replied" <=> state[m] = "replied"
  BY <1>2, <1>6, KindsOfEvents
<1>10. \A x \in Events : state'[x] # "processing"
  BY <1>5, <1>6
<1>11. making \notin Range(queue)
  BY <1>1, <1>3
<1> QED BY <1>3, <1>4, <1>6, <1>7, <1>8, <1>9, <1>10, <1>11, RestStep

LEMMA UnseenSteps == ASSUME IInv, NothingToShow \/ SkipNight PROVE IInv'
  BY EndsUnseen DEF NothingToShow, SkipNight, BeforeTurn

LEMMA TidyEndsStep == ASSUME IInv, TidyEnds PROVE IInv'
<1>1. /\ phase = "tidying" /\ Pump(queue, FALSE)
      /\ UNCHANGED <<rows, turn, steer, stop, avatar, history>>
  BY DEF TidyEnds
<1>2. QueueOK /\ making \notin InLine
      /\ (\A x \in Events : state[x] = "queued" <=> x \in InLine \/ x = making)
  BY <1>1, Waiters
<1>3. queue \in Seq(Events) /\ IsInjective(queue) /\ InLine = Range(queue)
  BY <1>1, <1>2 DEF QueueOK, InLine, BeforeTurn
<1>4. ~TurnOpen /\ phase # "down"
  BY <1>1 DEF TurnOpen
<1>5. \A x \in Events : state[x] # "processing"
  BY <1>1, NothingHandled
<1>6. /\ state' \in [Events -> EventState] /\ state' = state
      /\ avatar' \in {"neutral", "thinking", "sleepy", "chosen"}
      /\ \A x \in Events : given[x] > 0 => state'[x] \notin {"none", "queued"}
  BY <1>1 DEF IInv, TypeOK, GivenRows
<1> QED BY <1>1, <1>2, <1>3, <1>4, <1>5, <1>6, RestStep

\* Steps that leave the rows and the queue alone.
LEMMA SameWaiters ==
  ASSUME IInv, phase # "down", UNCHANGED <<queue, cur, making>>, BeforeTurn' = BeforeTurn,
         \A x \in Events : state'[x] = "queued" <=> state[x] = "queued",
         \A x \in Events : state'[x] = "processing" => InHand(x)'
  PROVE  Accounted'
<1>1. QueueOK /\ making \notin InLine
      /\ (\A x \in Events : state[x] = "queued" <=> x \in InLine \/ x = making)
  BY Waiters
<1>2. QueueOK' /\ InLine' = InLine
  BY <1>1 DEF QueueOK, InLine
<1> QED BY <1>1, <1>2, WaitersNext

LEMMA TakeSourcesStep == ASSUME IInv, TakeSources PROVE IInv'
<1> USE DEF TakeSources
<1>1. TypeOK' /\ TurnShape'
  BY DEF IInv, TypeOK, Phase, TurnShape, TurnOpen, Asleep
<1>2. HandlingRows' /\ GivenRows' /\ ReplyRows'
  BY DEF IInv, HandlingRows, GivenRows, ReplyRows, Asleep
<1>3. Accounted'
  <2>1. \A x \in Events : state[x] # "processing"
    BY NothingHandled
  <2>2. BeforeTurn' = BeforeTurn
    BY DEF BeforeTurn
  <2> QED BY <2>1, <2>2, SameWaiters
<1>4. SteeringKept' /\ GivenOnce' /\ AnsweredExactly' /\ NoLostWakeup'
  BY DEF IInv, SteeringKept, GivenOnce, AnsweredExactly, NoLostWakeup, TurnShape
<1> QED BY <1>1, <1>2, <1>3, <1>4 DEF IInv

\* The event in hand is begun: its row says processing, and it waits no longer.
LEMMA Begun ==
  ASSUME IInv, BeforeTurn, state' = [state EXCEPT ![cur] = "processing"],
         UNCHANGED <<cur, queue, making>>,
         ~BeforeTurn', InHand(cur)'
  PROVE  /\ cur \in Events /\ state[cur] = "queued" /\ given[cur] = 0
         /\ \A x \in Events : state'[x] = IF x = cur THEN "processing" ELSE state[x]
         /\ state' \in [Events -> EventState] /\ Accounted'
<1>1. QueueOK /\ making \notin InLine
      /\ (\A x \in Events : state[x] = "queued" <=> x \in InLine \/ x = making)
  BY Waiters DEF BeforeTurn
<1>2. /\ cur \in Events /\ state[cur] = "queued" /\ given[cur] = 0
      /\ cur # making /\ cur \notin Range(queue)
  BY InHandOfPump
<1>3. \A x \in Events : state[x] # "processing"
  BY NothingHandled DEF BeforeTurn
<1>4. /\ state' \in [Events -> EventState]
      /\ \A x \in Events : state'[x] = IF x = cur THEN "processing" ELSE state[x]
  BY <1>2 DEF IInv, TypeOK, EventState
<1>5. QueueOK' /\ InLine' = InLine \ {cur}
  BY <1>1, <1>2 DEF QueueOK, InLine
<1>6. \A x \in Events : state'[x] = "processing" => InHand(x)'
  BY <1>3, <1>4
<1>7. \A x \in Events : state'[x] = "queued" <=> x \in InLine' \/ x = making'
  BY <1>1, <1>2, <1>4, <1>5
<1>8. making' \notin InLine'
  BY <1>1, <1>5
<1>9. Accounted'
  BY <1>5, <1>6, <1>7, <1>8, WaitersNext
<1> QED BY <1>2, <1>4, <1>9

LEMMA BeginTurnStep == ASSUME IInv, BeginTurn PROVE IInv'
<1>1. /\ BeforeTurn /\ phase' = "preparing" /\ state' = [state EXCEPT ![cur] = "processing"]
      /\ handling' = {cur} /\ shown' = {cur} /\ answered' = {cur} \cap replyTo /\ cut' = "ok"
      /\ UNCHANGED <<createdAt, replyTo, cur, queue, steering, waiting, steer, stop, avatar,
                     history>>
  BY DEF BeginTurn, OpenTurn, BeforeTurn
<1>2. ~BeforeTurn' /\ InHand(cur)'
  BY <1>1 DEF BeforeTurn, InHand
<1>3. /\ cur \in Events /\ state[cur] = "queued" /\ given[cur] = 0
      /\ \A x \in Events : state'[x] = IF x = cur THEN "processing" ELSE state[x]
      /\ state' \in [Events -> EventState] /\ Accounted'
  BY <1>1, <1>2, Begun
<1>4. steering = <<>> /\ ~waiting
  BY <1>1 DEF IInv, TurnShape, BeforeTurn
<1>5. cur \notin replyTo
  BY <1>3 DEF IInv, ReplyRows, AnsweredExactly, TypeOK
<1>6. answered' = {}
  BY <1>1, <1>5
<1>7. TypeOK'
  BY <1>1, <1>3, <1>6 DEF IInv, TypeOK, Phase
<1>8. TurnShape'
  BY <1>1, <1>3, <1>4, <1>6 DEF IInv, TurnShape, TurnOpen, Asleep
<1>9. HandlingRows' /\ ReplyRows'
  BY <1>1, <1>3, <1>6 DEF IInv, HandlingRows, ReplyRows
<1>10. GivenRows'
  BY <1>1, <1>3 DEF IInv, GivenRows, Asleep
<1>11. SteeringKept'
  BY <1>1, <1>4, EmptyQueue DEF SteeringKept
<1>12. GivenOnce' /\ NoLostWakeup'
  BY <1>1, <1>4 DEF IInv, GivenOnce, NoLostWakeup
<1>13. AnsweredExactly'
  BY <1>1, <1>3, KindsOfEvents DEF IInv, AnsweredExactly
<1> QED BY <1>3, <1>7, <1>8, <1>9, <1>10, <1>11, <1>12, <1>13 DEF IInv

LEMMA BeginPromptStep == ASSUME IInv, BeginPrompt PROVE IInv'
<1>1. /\ phase = "preparing" /\ phase' = "prompting" /\ given' = [given EXCEPT ![cur] = @ + 1]
      /\ UNCHANGED <<rows, cur, queue, turn, steer, stop, avatar, covered, outages>>
  BY DEF BeginPrompt
<1>2. /\ cur \in Events /\ handling = {cur} /\ shown = {cur} /\ answered \subseteq {cur}
      /\ given[cur] = 0 /\ state[cur] \in {"processing", "replied"}
  BY <1>1 DEF IInv, TurnShape, GivenRows, HandlingRows
<1>3. /\ given' \in [Events -> Nat]
      /\ \A x \in Events : given'[x] = IF x = cur THEN 1 ELSE given[x]
  BY <1>1, <1>2 DEF IInv, TypeOK
<1>4. TypeOK'
  BY <1>1, <1>3 DEF IInv, TypeOK, Phase
<1>5. TurnShape'
  BY <1>1 DEF IInv, TurnShape, TurnOpen, Asleep
<1>6. HandlingRows' /\ ReplyRows'
  BY <1>1 DEF IInv, HandlingRows, ReplyRows
<1>7. GivenRows'
  BY <1>1, <1>2, <1>3 DEF IInv, GivenRows, Asleep
<1>8. Accounted'
  <2>1. \A x \in Events : state[x] = "processing" => x \in handling
    BY <1>1, Waiters DEF InHand
  <2>2. BeforeTurn' = BeforeTurn
    BY <1>1 DEF BeforeTurn
  <2> QED BY <1>1, <2>1, <2>2, SameWaiters DEF InHand
<1>9. GivenOnce'
  BY <1>1, <1>3 DEF IInv, GivenOnce
<1>10. SteeringKept' /\ AnsweredExactly' /\ NoLostWakeup'
  BY <1>1 DEF IInv, SteeringKept, AnsweredExactly, NoLostWakeup, MayWait
<1> QED BY <1>4, <1>5, <1>6, <1>7, <1>8, <1>9, <1>10 DEF IInv

LEMMA DeliverStep == ASSUME IInv, Deliver PROVE IInv'
<1>1. /\ phase = "prompting" /\ ~waiting /\ shown' = shown \cup Range(steering)
      /\ given' = [e \in Events |-> IF e \in Range(steering) THEN given[e] + 1 ELSE given[e]]
      /\ steering' = <<>>
      /\ UNCHANGED <<rows, work, handling, answered, cut, waiting, steer, stop, avatar,
                     covered, outages>>
  BY DEF Deliver
<1>2. /\ Range(steering) = handling \ shown /\ shown \subseteq handling
      /\ handling \subseteq Events /\ given \in [Events -> Nat]
  BY DEF IInv, SteeringKept, TurnShape, TypeOK
<1>3. \A e \in Range(steering) : e \in Events /\ given[e] = 0
  BY <1>2 DEF IInv, GivenRows
<1>4. /\ given' \in [Events -> Nat] /\ shown' = handling
      /\ \A x \in Events : given'[x] = IF x \in Range(steering) THEN 1 ELSE given[x]
  BY <1>1, <1>2, <1>3
<1>5. TypeOK'
  BY <1>1, <1>2, <1>4, EmptySeq DEF IInv, TypeOK
<1>6. TurnShape'
  BY <1>1, <1>2, <1>4 DEF IInv, TurnShape, TurnOpen, Asleep
<1>7. HandlingRows' /\ ReplyRows'
  BY <1>1 DEF IInv, HandlingRows, ReplyRows
<1>8. GivenRows'
  <2>1. ASSUME NEW e \in Events, given'[e] > 0 PROVE state[e] \notin {"none", "queued"}
    <3>1. CASE e \in Range(steering)
      BY <1>2, <3>1 DEF IInv, HandlingRows
    <3>2. CASE e \notin Range(steering)
      BY <1>4, <2>1, <3>2 DEF IInv, GivenRows
    <3> QED BY <3>1, <3>2
  <2>2. \A x \in shown : given[x] > 0
    BY <1>1 DEF IInv, GivenRows
  <2>3. \A x \in handling : given'[x] > 0
    BY <1>2, <1>4, <2>2
  <2> QED BY <1>1, <1>4, <2>1, <2>3 DEF GivenRows, Asleep
<1>9. Accounted'
  <2>1. \A x \in Events : state[x] = "processing" => x \in handling
    BY <1>1, Waiters DEF InHand
  <2>2. BeforeTurn' = BeforeTurn
    BY <1>1 DEF BeforeTurn
  <2> QED BY <1>1, <2>1, <2>2, SameWaiters DEF InHand
<1>10. SteeringKept'
  BY <1>1, <1>4, EmptyQueue DEF SteeringKept
<1>11. GivenOnce'
  BY <1>4 DEF IInv, GivenOnce
<1>12. AnsweredExactly' /\ NoLostWakeup'
  BY <1>1 DEF IInv, AnsweredExactly, NoLostWakeup
<1> QED BY <1>5, <1>6, <1>7, <1>8, <1>9, <1>10, <1>11, <1>12 DEF IInv

LEMMA ReplyStep == ASSUME IInv, Reply PROVE IInv'
<1>1. PICK m \in Newest(OpenMessages) : replyTo' = replyTo \cup {m}
  BY DEF Reply
<1>2. /\ phase = "prompting" /\ state' = RepliedState(OpenMessages)
      /\ answered' = answered \cup OpenMessages /\ covered' = covered \cup OpenMessages
      /\ UNCHANGED <<createdAt, work, handling, shown, steering, cut, waiting, steer,
                     stop, avatar, given, outages>>
  BY DEF Reply
<1>3. /\ m \in OpenMessages /\ OpenMessages \subseteq Messages
      /\ OpenMessages \subseteq handling /\ OpenMessages \subseteq shown
      /\ OpenMessages \cap answered = {}
  BY <1>1 DEF Newest, OpenMessages
<1>4. \A x \in Events : state'[x] = IF x \in OpenMessages THEN "replied" ELSE state[x]
  BY <1>2 DEF RepliedState
<1>5. state' \in [Events -> EventState]
  BY <1>2 DEF RepliedState, IInv, TypeOK, EventState
<1>6. \A x \in OpenMessages : state[x] = "processing" /\ x \in Events
  BY <1>3, KindsOfEvents DEF IInv, HandlingRows
<1>7. TypeOK'
  BY <1>1, <1>2, <1>3, <1>5 DEF IInv, TypeOK
<1>8. TurnShape'
  BY <1>2, <1>3 DEF IInv, TurnShape, TurnOpen, Asleep
<1>9. HandlingRows'
  <2>1. handling \subseteq Events
    BY DEF IInv, TypeOK
  <2> QED BY <1>2, <1>4, <2>1 DEF IInv, HandlingRows
<1>10. GivenRows'
  BY <1>2, <1>4 DEF IInv, GivenRows, Asleep
<1>11. ReplyRows'
  BY <1>1, <1>2, <1>3 DEF IInv, ReplyRows
<1>12. Accounted'
  <2>1. \A x \in Events : state[x] = "processing" => x \in handling
    BY <1>2, Waiters DEF InHand
  <2>2. BeforeTurn' = BeforeTurn
    BY <1>2 DEF BeforeTurn
  <2>3. \A x \in Events : state'[x] = "queued" <=> state[x] = "queued"
    BY <1>4, <1>6
  <2>4. \A x \in Events : state'[x] = "processing" => InHand(x)'
    BY <1>2, <1>4, <2>1 DEF InHand
  <2> QED BY <1>2, <2>2, <2>3, <2>4, SameWaiters
<1>13. SteeringKept' /\ GivenOnce' /\ NoLostWakeup'
  BY <1>2 DEF IInv, SteeringKept, GivenOnce, NoLostWakeup, MayWait
<1>14. AnsweredExactly'
  BY <1>2, <1>4, KindsOfEvents DEF IInv, AnsweredExactly
<1> QED BY <1>7, <1>8, <1>9, <1>10, <1>11, <1>12, <1>13, <1>14 DEF IInv

LEMMA EndPromptStep == ASSUME IInv, NEW c \in {"ok", "limit", "error"}, EndPrompt(c) PROVE IInv'
<1>1. /\ phase = "prompting" /\ phase' = "settling" /\ cut' = c /\ waiting' = FALSE
      /\ handling' = handling \ Range(steering) /\ queue' = steering \o queue /\ steering' = <<>>
      /\ state' = [e \in Events |-> IF e \in Range(steering) THEN "queued" ELSE state[e]]
      /\ UNCHANGED <<createdAt, replyTo, cur, shown, answered, steer, stop, avatar, history>>
  BY DEF EndPrompt, ReturnSteering
<1>2. QueueOK /\ making \notin InLine
      /\ (\A x \in Events : state[x] = "queued" <=> x \in InLine \/ x = making)
      /\ (\A x \in Events : state[x] = "processing" => InHand(x))
  BY <1>1, Waiters
<1>3. /\ Range(steering) = handling \ shown /\ IsInjective(steering)
      /\ shown \subseteq handling /\ answered \subseteq shown
      /\ handling \in SUBSET Events /\ steering \in Seq(Events) /\ cur \in Events
  BY <1>1 DEF IInv, SteeringKept, TurnShape, TypeOK
<1>4. \A e \in Range(steering) : e \in Events /\ state[e] = "processing" /\ given[e] = 0
  BY <1>3 DEF IInv, HandlingRows, GivenRows
<1>5. queue \in Seq(Events) /\ IsInjective(queue) /\ InLine = Range(queue)
  BY <1>1, <1>2 DEF QueueOK, InLine, BeforeTurn
<1>6. Range(steering) \cap Range(queue) = {}
  BY <1>2, <1>4, <1>5
<1>7. /\ steering \o queue \in Seq(Events) /\ IsInjective(steering \o queue)
      /\ Range(steering \o queue) = Range(steering) \cup Range(queue)
  BY <1>3, <1>5, <1>6, FrontQueue
<1>8. QueueOK' /\ InLine' = Range(steering) \cup Range(queue)
  BY <1>1, <1>7 DEF QueueOK, InLine, BeforeTurn
<1>9. /\ \A x \in Events : state'[x] = IF x \in Range(steering) THEN "queued" ELSE state[x]
      /\ state' \in [Events -> EventState]
  BY <1>1 DEF IInv, TypeOK, EventState
<1>10. handling' = shown
  BY <1>1, <1>3
<1>11. TypeOK'
  BY <1>1, <1>3, <1>7, <1>9, EmptySeq DEF IInv, TypeOK, Phase
<1>12. TurnShape'
  BY <1>1, <1>3, <1>10 DEF IInv, TurnShape, TurnOpen, Asleep
<1>13. HandlingRows' /\ ReplyRows'
  BY <1>1, <1>3, <1>9, <1>10 DEF IInv, HandlingRows, ReplyRows
<1>14. GivenRows'
  <2>1. \A x \in Events : given[x] > 0 => state'[x] \notin {"none", "queued"}
    BY <1>4, <1>9 DEF IInv, GivenRows
  <2>2. \A x \in shown : given[x] > 0
    BY <1>1 DEF IInv, GivenRows
  <2> QED BY <1>1, <1>10, <2>1, <2>2 DEF GivenRows, Asleep
<1>15. Accounted'
  <2>1. \A x \in Events : state'[x] = "queued" <=> x \in InLine' \/ x = making'
    BY <1>1, <1>2, <1>5, <1>8, <1>9
  <2>2. making' \notin InLine'
    <3>1. making \notin Range(steering)
      BY <1>2, <1>4
    <3> QED BY <1>1, <1>2, <1>5, <1>8, <3>1
  <2>3. \A x \in Events : state'[x] = "processing" => InHand(x)'
    BY <1>1, <1>2, <1>9 DEF InHand
  <2> QED BY <1>8, <2>1, <2>2, <2>3, WaitersNext
<1>16. SteeringKept'
  BY <1>1, <1>10, EmptyQueue DEF SteeringKept
<1>17. GivenOnce' /\ NoLostWakeup'
  BY <1>1 DEF IInv, GivenOnce, NoLostWakeup
<1>18. AnsweredExactly'
  BY <1>1, <1>4, <1>9, KindsOfEvents DEF IInv, AnsweredExactly
<1> QED BY <1>11, <1>12, <1>13, <1>14, <1>15, <1>16, <1>17, <1>18 DEF IInv

LEMMA RestedType ==
  ASSUME IInv PROVE Rested \in {"neutral", "thinking", "sleepy", "chosen"}
                    /\ Woken \in {"neutral", "thinking", "sleepy", "chosen"}
  BY DEF IInv, TypeOK, Rested, Woken

LEMMA TurnEndsStep == ASSUME IInv, TurnEnds PROVE IInv'
<1>1. /\ phase = "settling" /\ phase' = "tidying" /\ avatar' = Rested
      /\ state' = [e \in Events |-> IF e \in handling THEN Verdict(e) ELSE state[e]]
      /\ handling' = {} /\ shown' = {} /\ answered' = {} /\ steering' = <<>>
      /\ cut' = "ok" /\ waiting' = FALSE
      /\ UNCHANGED <<createdAt, replyTo, cur, queue, steer, stop, history>>
  BY DEF TurnEnds, ForgetTurn
<1>2. \A x \in Events : state'[x] = IF x \in handling THEN Verdict(x) ELSE state[x]
  BY <1>1
<1>3. \A x : Verdict(x) \in Final /\ (Verdict(x) = "replied" <=> x \in answered)
  BY DEF Verdict, Final
<1>4. \A x \in handling : state[x] \in {"processing", "replied"}
                          /\ (state[x] = "replied" <=> x \in answered)
  BY DEF IInv, HandlingRows
<1>5. \A x \in Events : state[x] = "processing" => x \in handling
  BY <1>1, Waiters DEF InHand
<1>6. state' \in [Events -> EventState]
  BY <1>1, <1>3 DEF IInv, TypeOK, EventState, Final
<1>7. TypeOK'
  BY <1>1, <1>6, EmptySeq, RestedType DEF IInv, TypeOK, Phase
<1>8. TurnShape'
  BY <1>1 DEF IInv, TurnShape, TurnOpen, Asleep
<1>9. HandlingRows' /\ ReplyRows'
  BY <1>1 DEF IInv, HandlingRows, ReplyRows
<1>10. GivenRows'
  <2>1. \A x \in Events : given[x] > 0 => state'[x] \notin {"none", "queued"}
    BY <1>2, <1>3 DEF IInv, GivenRows, Final
  <2> QED BY <1>1, <2>1 DEF GivenRows, Asleep
<1>11. Accounted'
  <2>1. \A x \in Events : state'[x] = "queued" <=> state[x] = "queued"
    BY <1>2, <1>3, <1>4 DEF Final
  <2>2. \A x \in Events : state'[x] # "processing"
    BY <1>2, <1>3, <1>5 DEF Final
  <2>3. BeforeTurn' = BeforeTurn
    BY <1>1 DEF BeforeTurn
  <2> QED BY <1>1, <2>1, <2>2, <2>3, SameWaiters
<1>12. SteeringKept'
  BY <1>1, EmptyQueue DEF SteeringKept
<1>13. GivenOnce' /\ NoLostWakeup'
  BY <1>1 DEF IInv, GivenOnce, NoLostWakeup
<1>14. AnsweredExactly'
  <2>1. \A m \in Messages : state'[m] = "replied" <=> state[m] = "replied"
    BY <1>2, <1>3, <1>4, KindsOfEvents
  <2> QED BY <1>1, <2>1 DEF IInv, AnsweredExactly
<1> QED BY <1>7, <1>8, <1>9, <1>10, <1>11, <1>12, <1>13, <1>14 DEF IInv

-----------------------------------------------------------------------------
(*                              the night                                   *)

LEMMA BeginNightStep == ASSUME IInv, BeginNight PROVE IInv'
<1>1. /\ BeforeTurn /\ cur \in Nights /\ phase' = "reviewing" /\ avatar' = "sleepy"
      /\ state' = [state EXCEPT ![cur] = "processing"]
      /\ given' = [given EXCEPT ![cur] = @ + 1]
      /\ UNCHANGED <<createdAt, replyTo, cur, queue, turn, steer, stop, covered, outages>>
  BY DEF BeginNight, BeforeTurn
<1>2. ~BeforeTurn' /\ InHand(cur)'
  BY <1>1 DEF BeforeTurn, InHand
<1>3. /\ cur \in Events /\ state[cur] = "queued" /\ given[cur] = 0
      /\ \A x \in Events : state'[x] = IF x = cur THEN "processing" ELSE state[x]
      /\ state' \in [Events -> EventState] /\ Accounted'
  BY <1>1, <1>2, Begun
<1>4. /\ given' \in [Events -> Nat]
      /\ \A x \in Events : given'[x] = IF x = cur THEN 1 ELSE given[x]
  BY <1>1, <1>3 DEF IInv, TypeOK
<1>5. handling = {} /\ shown = {} /\ answered = {} /\ steering = <<>> /\ ~waiting
  BY <1>1 DEF IInv, TurnShape, TurnOpen, BeforeTurn
<1>6. TypeOK'
  BY <1>1, <1>3, <1>4 DEF IInv, TypeOK, Phase
<1>7. TurnShape'
  BY <1>1, <1>3, <1>5 DEF IInv, TurnShape, TurnOpen, Asleep
<1>8. HandlingRows' /\ ReplyRows'
  BY <1>1, <1>5 DEF IInv, HandlingRows, ReplyRows
<1>9. GivenRows'
  BY <1>1, <1>3, <1>4, <1>5 DEF IInv, GivenRows, Asleep
<1>10. SteeringKept' /\ NoLostWakeup'
  BY <1>1, <1>5, EmptyQueue DEF SteeringKept, NoLostWakeup
<1>11. GivenOnce'
  BY <1>4 DEF IInv, GivenOnce
<1>12. AnsweredExactly'
  BY <1>1, <1>3, KindsOfEvents DEF IInv, AnsweredExactly
<1> QED BY <1>3, <1>6, <1>7, <1>8, <1>9, <1>10, <1>11, <1>12 DEF IInv

\* The night in progress is recorded as ended.
LEMMA NightRecorded ==
  ASSUME IInv, Asleep, NEW s \in {"noreply", "failed"}, state' = [state EXCEPT ![cur] = s]
  PROVE  /\ cur \in Events /\ cur \in Nights /\ handling = {} /\ given[cur] > 0
         /\ QueueOK /\ making \notin InLine /\ InLine = Range(queue)
         /\ \A x \in Events : state[x] = "queued" <=> x \in InLine \/ x = making
         /\ state' \in [Events -> EventState]
         /\ \A x \in Events : state'[x] = IF x = cur THEN s ELSE state[x]
         /\ \A x \in Events : state'[x] = "queued" <=> state[x] = "queued"
         /\ \A x \in Events : state'[x] # "processing"
         /\ \A x \in Events : given[x] > 0 => state'[x] \notin {"none", "queued"}
         /\ \A m \in Messages : state'[m] = "replied" <=> state[m] = "replied"
<1>1. /\ cur \in Events /\ cur \in Nights /\ handling = {} /\ given[cur] > 0
  BY KindsOfEvents DEF IInv, TurnShape, TurnOpen, Asleep, GivenRows
<1>2. QueueOK /\ making \notin InLine
      /\ (\A x \in Events : state[x] = "queued" <=> x \in InLine \/ x = making)
      /\ (\A x \in Events : state[x] = "processing" => InHand(x))
  BY Waiters DEF Asleep
<1>3. InLine = Range(queue)
  BY DEF InLine, BeforeTurn, Asleep
<1>4. /\ state' \in [Events -> EventState]
      /\ \A x \in Events : state'[x] = IF x = cur THEN s ELSE state[x]
  BY <1>1 DEF IInv, TypeOK, EventState
<1>5. state[cur] \notin {"none", "queued"}
  BY <1>1 DEF IInv, GivenRows
<1>6. \A x \in Events : state[x] = "processing" => x = cur
  BY <1>1, <1>2 DEF InHand
<1>7. \A x \in Events : given[x] > 0 => state'[x] \notin {"none", "queued"}
  BY <1>4 DEF IInv, GivenRows
<1>8. \A m \in Messages : m \in Events /\ m # cur
  BY <1>1, KindsOfEvents
<1> QED BY <1>1, <1>2, <1>3, <1>4, <1>5, <1>6, <1>7, <1>8

LEMMA ReviewEndsStep == ASSUME IInv, NEW s \in {"noreply", "failed"}, ReviewEnds(s) PROVE IInv'
<1>1. /\ phase = "reviewing" /\ phase' = "switching" /\ Asleep
      /\ state' = [state EXCEPT ![cur] = s] /\ avatar' = Rested
      /\ UNCHANGED <<createdAt, replyTo, cur, queue, turn, steer, stop, history>>
  BY DEF ReviewEnds, Asleep
<1>2. /\ cur \in Events /\ cur \in Nights /\ handling = {} /\ given[cur] > 0
      /\ state' \in [Events -> EventState]
      /\ \A x \in Events : state'[x] = "queued" <=> state[x] = "queued"
      /\ \A x \in Events : state'[x] # "processing"
      /\ \A x \in Events : given[x] > 0 => state'[x] \notin {"none", "queued"}
      /\ \A m \in Messages : state'[m] = "replied" <=> state[m] = "replied"
  BY <1>1, NightRecorded
<1>3. TypeOK'
  BY <1>1, <1>2, RestedType DEF IInv, TypeOK, Phase
<1>4. TurnShape'
  BY <1>1, <1>2 DEF IInv, TurnShape, TurnOpen, Asleep
<1>5. HandlingRows' /\ GivenRows' /\ ReplyRows'
  BY <1>1, <1>2 DEF IInv, HandlingRows, GivenRows, ReplyRows, Asleep
<1>6. Accounted'
  <2>1. BeforeTurn' = BeforeTurn
    BY <1>1 DEF BeforeTurn
  <2> QED BY <1>1, <1>2, <2>1, SameWaiters
<1>7. SteeringKept' /\ GivenOnce' /\ AnsweredExactly' /\ NoLostWakeup'
  BY <1>1, <1>2 DEF IInv, SteeringKept, GivenOnce, AnsweredExactly, NoLostWakeup, TurnShape
<1> QED BY <1>3, <1>4, <1>5, <1>6, <1>7 DEF IInv

LEMMA NightEndsStep == ASSUME IInv, NEW s \in {"noreply", "failed"}, NightEnds(s) PROVE IInv'
<1>1. /\ Asleep /\ phase # "down" /\ ~TurnOpen
      /\ state' = [state EXCEPT ![cur] = s] /\ avatar' = Woken /\ Pump(queue, FALSE)
      /\ UNCHANGED <<createdAt, replyTo, turn, steer, stop, history>>
  BY DEF NightEnds, Asleep, TurnOpen
<1>2. /\ QueueOK /\ making \notin InLine /\ InLine = Range(queue)
      /\ \A x \in Events : state[x] = "queued" <=> x \in InLine \/ x = making
      /\ state' \in [Events -> EventState]
      /\ \A x \in Events : state'[x] = "queued" <=> state[x] = "queued"
      /\ \A x \in Events : state'[x] # "processing"
      /\ \A x \in Events : given[x] > 0 => state'[x] \notin {"none", "queued"}
      /\ \A m \in Messages : state'[m] = "replied" <=> state[m] = "replied"
  BY <1>1, NightRecorded
<1>3. queue \in Seq(Events) /\ IsInjective(queue) /\ making \notin Range(queue)
  BY <1>2 DEF QueueOK
<1>4. \A x \in Events : state'[x] = "queued" <=> x \in Range(queue) \/ x = making
  BY <1>2
<1>5. avatar' \in {"neutral", "thinking", "sleepy", "chosen"}
  BY <1>1, RestedType
<1> QED BY <1>1, <1>2, <1>3, <1>4, <1>5, RestStep

-----------------------------------------------------------------------------
(*                              theorems                                    *)

\* Nothing that the invariant speaks of changes in a stuttering step.
LEMMA Stutter == ASSUME IInv, UNCHANGED vars PROVE IInv'
<1> USE DEF vars
<1>1. TypeOK' /\ TurnShape' /\ HandlingRows' /\ GivenRows' /\ ReplyRows'
  BY SMTT(30) DEF IInv, TypeOK, TurnShape, HandlingRows, GivenRows, ReplyRows, Asleep, TurnOpen
<1>2. Accounted'
  BY DEF IInv, Accounted, Held, BeforeTurn, Once, InHand
<1>3. SteeringKept' /\ GivenOnce' /\ AnsweredExactly' /\ NoLostWakeup'
  BY DEF IInv, SteeringKept, GivenOnce, AnsweredExactly, NoLostWakeup, MayWait
<1> QED BY <1>1, <1>2, <1>3 DEF IInv

LEMMA NextStep == ASSUME IInv, [Next]_vars PROVE IInv'
<1>1. CASE Process
  BY <1>1, StartStep, OutageSteps, QuietActions DEF Process
<1>2. CASE Raise
  BY <1>2, SteerMessageStep, QueueSteps, RaiseUpdateStep DEF Raise
<1>3. CASE Line
  BY <1>3, LineEmptyStep, LineSteeredStep, LineTooLateStep DEF Line
<1>4. CASE Work
  BY <1>4, PutBackStep, TakeSourcesStep, UnseenSteps, BeginTurnStep, BeginPromptStep,
     TurnEndsStep, TidyEndsStep, EndPromptStep DEF Work
<1>5. CASE Tools
  BY <1>5, DeliverStep, ReplyStep, QuietActions DEF Tools
<1>6. CASE Night
  BY <1>6, UnseenSteps, BeginNightStep, ReviewEndsStep, NightEndsStep DEF Night
<1>7. CASE RelaxExpression
  BY <1>7, QuietActions
<1>8. CASE UNCHANGED vars
  BY <1>8, Stutter
<1> QED BY <1>1, <1>2, <1>3, <1>4, <1>5, <1>6, <1>7, <1>8 DEF Next

(* The inductive invariant: what every step of the loop, of its callers and *)
(* of a crash keeps.                                                        *)
THEOREM Inductive == Spec => []IInv
  BY InitStep, NextStep, PTL DEF Spec

(* Every variable of the loop has its type in every reachable state.        *)
THEOREM TypeCorrect == Spec => []TypeOK
<1>1. IInv => TypeOK
  BY DEF IInv
<1> QED BY <1>1, Inductive, PTL

(* No event is lost or doubled between SQLite and the loop's memory,        *)
(* whatever is steered in, put back, taken over by a night or cut off by a  *)
(* crash: thinking-loop.ts enqueue(), pump() and recover().                 *)
THEOREM NoEventLost == Spec => []Accounted
<1>1. IInv => Accounted
  BY DEF IInv
<1> QED BY <1>1, Inductive, PTL

(* No event's line is given to Pi twice, by a turn, by steering, or by the  *)
(* queue a restart recovers.                                                *)
THEOREM NoLineTwice == Spec => []GivenOnce
<1>1. IInv => GivenOnce
  BY DEF IInv
<1> QED BY <1>1, Inductive, PTL

(* Pi's steering queue is what the turn handles and has not shown.          *)
THEOREM SteeringIsKept == Spec => []SteeringKept
<1>1. IInv => SteeringKept
  BY DEF IInv
<1> QED BY <1>1, Inductive, PTL

(* A message is recorded replied exactly when a reply was sent after it was *)
(* shown.                                                                   *)
THEOREM RepliedMeansReplied == Spec => []AnsweredExactly
<1>1. IInv => AnsweredExactly
  BY DEF IInv
<1> QED BY <1>1, Inductive, PTL

(* The unique index on the answering reply never refuses a reply.           *)
THEOREM ReplyNeverRefused == Spec => []OneAnswerPerEvent
<1>1. IInv => OneAnswerPerEvent
  <2> SUFFICES ASSUME IInv, NEW m \in OpenMessages PROVE m \notin replyTo
    BY DEF OneAnswerPerEvent
  <2>1. m \in Messages /\ state[m] = "processing"
    BY DEF OpenMessages, IInv, HandlingRows
  <2> QED BY <2>1 DEF IInv, ReplyRows, AnsweredExactly
<1> QED BY <1>1, Inductive, PTL

(* A wait_for_events never outlasts the news it waits for, or a stop.       *)
THEOREM WaitsAreWoken == Spec => []NoLostWakeup
<1>1. IInv => NoLostWakeup
  BY DEF IInv
<1> QED BY <1>1, Inductive, PTL

(* Asleep, natsumi is handed nothing but the night's own review.            *)
THEOREM SleepIsUndisturbed == Spec => []SleepUndisturbed
<1>1. IInv => SleepUndisturbed
  <2> SUFFICES ASSUME IInv, Asleep
               PROVE  /\ handling = {} /\ steering = <<>>
                      /\ \A m \in Messages : state[m] # "processing"
    BY DEF SleepUndisturbed
  <2>1. handling = {} /\ steering = <<>> /\ cur \in Nights
    BY DEF IInv, TurnShape, TurnOpen, Asleep
  <2>2. \A x \in Events : state[x] = "processing" => InHand(x)
    BY Waiters DEF Asleep
  <2> QED BY <2>1, <2>2, KindsOfEvents DEF InHand
<1> QED BY <1>1, Inductive, PTL

-----------------------------------------------------------------------------
(*             what a step may do to one event, and the promise             *)

\* What a step of the loop makes of an event that is not a night.
Fate(e) ==
  /\ \/ state'[e] = state[e]
     \/ state[e] = "none" /\ state'[e] \in {"queued", "processing"}
     \/ state[e] = "queued" /\ state'[e] = "processing"
     \/ state[e] = "queued" /\ state'[e] = "noreply" /\ e \notin Messages
     \/ state[e] = "processing" /\ state'[e] = "queued" /\ given[e] = 0
     \/ state[e] = "processing" /\ state'[e] = "replied" /\ given[e] > 0
     \/ state[e] = "processing" /\ state'[e] \in {"noreply", "failed"} /\ e \notin covered
  /\ given[e] > 0 => given'[e] > 0
  /\ given'[e] > 0 => given[e] > 0 \/ (state[e] = "processing" /\ state'[e] = "processing")
  /\ e \in covered => e \in covered'
  /\ e \in covered' => e \in covered \/ (state[e] = "processing" /\ state'[e] = "replied")
  /\ state'[e] = "replied" /\ e \in Messages => e \in covered'

\* Rows only: the step gives nothing to Pi and sends no reply.
LEMMA FateOfRow ==
  ASSUME IInv, IInv', NEW e \in Events, UNCHANGED <<given, covered>>,
         \/ state'[e] = state[e]
         \/ state[e] = "none" /\ state'[e] \in {"queued", "processing"}
         \/ state[e] = "queued" /\ state'[e] = "processing"
         \/ state[e] = "queued" /\ state'[e] = "noreply" /\ e \notin Messages
         \/ state[e] = "processing" /\ state'[e] = "queued" /\ given[e] = 0
         \/ state[e] = "processing" /\ state'[e] \in {"noreply", "failed"} /\ e \notin covered
  PROVE  Fate(e)
  BY DEF Fate, IInv, AnsweredExactly

\* An event recorded as being handled was not answered.
LEMMA NotAnswered ==
  ASSUME IInv, NEW e \in Events, state[e] = "processing" PROVE e \notin covered /\ e \notin replyTo
  BY DEF IInv, AnsweredExactly, ReplyRows, TypeOK

LEMMA FateOfStart == ASSUME IInv, IInv', Start, NEW e \in Events PROVE Fate(e)
<1>1. state'[e] = IF state[e] = "processing" THEN "failed" ELSE state[e]
  BY NotAnswered DEF Start, RecoveredState
<1> QED BY <1>1, FateOfRow, NotAnswered DEF Start

LEMMA FateOfRaise == ASSUME IInv, IInv', Raise, NEW e \in Events PROVE Fate(e)
<1>1. ASSUME NEW x \in Events, NEW v \in {"queued", "processing"}, state[x] = "none",
             Insert(<<x>>, v), UNCHANGED history
      PROVE  Fate(e)
  <2>1. TypeOK /\ v \in EventState /\ <<x>> \in Seq(Events) /\ Range(<<x>>) = {x}
    BY SingleQueue DEF IInv, EventState
  <2>2. \A y \in Events : state'[y] = IF y \in Range(<<x>>) THEN v ELSE state[y]
    BY <1>1, <2>1, InsertRows
  <2> QED BY <1>1, <2>1, <2>2, FateOfRow
<1>2. ASSUME NEW m \in Messages, SteerMessage(m) \/ QueueMessage(m) PROVE Fate(e)
  BY <1>1, <1>2, KindsOfEvents DEF SteerMessage, QueueMessage, Fresh
<1>3. ASSUME NEW p \in Pings, RaisePing(p) PROVE Fate(e)
  BY <1>1, <1>3, KindsOfEvents DEF RaisePing, Fresh
<1>4. ASSUME NEW n \in Nights, RaiseNight(n) PROVE Fate(e)
  BY <1>1, <1>4, KindsOfEvents DEF RaiseNight, Fresh
<1>5. ASSUME RaiseUpdate PROVE Fate(e)
  <2>1. PICK made \in Fresh(Updates) \cup {NoEvent}, queued \in Fresh(Updates) \cup {NoEvent} :
          Insert((IF made # NoEvent THEN <<made>> ELSE <<>>)
                   \o (IF queued # NoEvent THEN <<queued>> ELSE <<>>), "queued")
    BY <1>5 DEF RaiseUpdate
  <2>2. /\ made # NoEvent => made \in Events /\ state[made] = "none"
        /\ queued # NoEvent => queued \in Events /\ state[queued] = "none"
    BY <2>1, KindsOfEvents DEF Fresh
  <2> DEFINE s == (IF made # NoEvent THEN <<made>> ELSE <<>>)
                    \o (IF queued # NoEvent THEN <<queued>> ELSE <<>>)
  <2>3. s \in Seq(Events) /\ Range(s) = {made, queued} \ {NoEvent} /\ Insert(s, "queued")
    <3>1. made \in Events \cup {NoEvent} /\ queued \in Events \cup {NoEvent}
      BY <2>2
    <3>2. s \in Seq(Events) /\ Range(s) = {made, queued} \ {NoEvent}
      BY <3>1, UpdateRows
    <3> QED BY <2>1, <3>2
  <2> HIDE DEF s
  <2>4. state'[e] = IF e \in {made, queued} \ {NoEvent} THEN "queued" ELSE state[e]
    BY <2>3, InsertRows DEF IInv, EventState
  <2> QED BY <1>5, <2>2, <2>4, FateOfRow DEF RaiseUpdate
<1> QED BY <1>2, <1>3, <1>4, <1>5 DEF Raise

LEMMA FateOfLine == ASSUME IInv, IInv', Line, NEW e \in Events PROVE Fate(e)
<1>1. ASSUME making # NoEvent, NEW v \in {"noreply", "processing"},
             AnotherRound([state EXCEPT ![making] = v]), UNCHANGED history
      PROVE  Fate(e)
  <2>1. v \in EventState
    BY DEF EventState
  <2>2. /\ state[making] = "queued"
        /\ making' # NoEvent => state[making'] = "none"
        /\ state'[e] = IF e = making THEN v ELSE IF e = making' THEN "queued" ELSE state[e]
    BY <1>1, <2>1, RoundEnds
  <2>3. making \notin Messages
    BY <1>1, KindsOfEvents DEF IInv, TypeOK
  <2> QED BY <1>1, <2>2, <2>3, KindsOfEvents, FateOfRow
<1>2. CASE LineEmpty
  BY <1>1, <1>2 DEF LineEmpty
<1>3. CASE LineSteered
  BY <1>1, <1>3 DEF LineSteered
<1>4. CASE LineTooLate
  BY <1>4, FateOfRow DEF LineTooLate
<1> QED BY <1>2, <1>3, <1>4 DEF Line

LEMMA FateOfBegin == ASSUME IInv, IInv', BeginTurn \/ NothingToShow, NEW e \in Events PROVE Fate(e)
<1>1. BeforeTurn /\ state[cur] = "queued" /\ UNCHANGED history
  BY InHandOfPump DEF BeginTurn, OpenTurn, NothingToShow, BeforeTurn
<1>2. CASE BeginTurn
  <2>1. state'[e] = IF e = cur THEN "processing" ELSE state[e]
    BY <1>2 DEF BeginTurn, OpenTurn, IInv, TypeOK
  <2> QED BY <1>1, <2>1, FateOfRow
<1>3. CASE NothingToShow
  <2>1. state'[e] = IF e = cur THEN "noreply" ELSE state[e]
    BY <1>3 DEF NothingToShow, IInv, TypeOK
  <2>2. cur \in Updates
    BY <1>3 DEF NothingToShow, IInv, TurnShape
  <2> QED BY <1>1, <2>1, <2>2, KindsOfEvents, FateOfRow
<1> QED BY <1>2, <1>3

LEMMA FateOfPrompt ==
  ASSUME IInv, IInv', BeginPrompt \/ Deliver, NEW e \in Events PROVE Fate(e)
<1>1. UNCHANGED <<rows, covered>>
  BY DEF BeginPrompt, Deliver
<1>2. given[e] \in Nat /\ given'[e] \in Nat
  BY DEF IInv, TypeOK
<1>3. CASE BeginPrompt
  <2>1. handling = {cur} /\ answered = {} /\ cur \in Events
    BY <1>3 DEF BeginPrompt, IInv, TurnShape
  <2>2. state[cur] = "processing"
    BY <2>1 DEF IInv, HandlingRows
  <2>3. given'[e] = IF e = cur THEN given[e] + 1 ELSE given[e]
    BY <1>3 DEF BeginPrompt, IInv, TypeOK
  <2> QED BY <1>1, <1>2, <2>2, <2>3 DEF Fate, IInv, AnsweredExactly
<1>4. CASE Deliver
  <2>1. Range(steering) = handling \ shown
    BY DEF IInv, SteeringKept
  <2>2. e \in Range(steering) => state[e] = "processing"
    BY <2>1 DEF IInv, HandlingRows, TurnShape
  <2>3. given'[e] = IF e \in Range(steering) THEN given[e] + 1 ELSE given[e]
    BY <1>4 DEF Deliver
  <2> QED BY <1>1, <1>2, <2>2, <2>3 DEF Fate, IInv, AnsweredExactly
<1> QED BY <1>3, <1>4

LEMMA FateOfReply == ASSUME IInv, IInv', Reply, NEW e \in Events PROVE Fate(e)
<1>1. /\ state'[e] = IF e \in OpenMessages THEN "replied" ELSE state[e]
      /\ covered' = covered \cup OpenMessages /\ given' = given /\ phase = "prompting"
  BY DEF Reply, RepliedState
<1>2. e \in OpenMessages => state[e] = "processing" /\ given[e] > 0
  BY <1>1 DEF OpenMessages, IInv, HandlingRows, GivenRows
<1> QED BY <1>1, <1>2 DEF Fate, IInv, AnsweredExactly

LEMMA FateOfEnd ==
  ASSUME IInv, IInv', TurnEnds \/ \E c \in {"ok", "limit", "error"} : EndPrompt(c), NEW e \in Events
  PROVE  Fate(e)
<1>1. CASE TurnEnds
  <2>1. /\ state'[e] = IF e \in handling THEN Verdict(e) ELSE state[e]
        /\ UNCHANGED history
    BY <1>1 DEF TurnEnds
  <2>2. e \in handling /\ e \notin answered =>
          /\ state[e] = "processing" /\ e \notin covered
          /\ Verdict(e) \in {"noreply", "failed"}
    BY NotAnswered DEF IInv, HandlingRows, Verdict
  <2>3. e \in handling /\ e \in answered => state[e] = "replied" /\ Verdict(e) = "replied"
    BY DEF IInv, HandlingRows, Verdict
  <2> QED BY <2>1, <2>2, <2>3, FateOfRow
<1>2. ASSUME NEW c \in {"ok", "limit", "error"}, EndPrompt(c) PROVE Fate(e)
  <2>1. /\ state'[e] = IF e \in Range(steering) THEN "queued" ELSE state[e]
        /\ UNCHANGED history
    BY <1>2 DEF EndPrompt, ReturnSteering
  <2>2. e \in Range(steering) => state[e] = "processing" /\ given[e] = 0
    BY DEF IInv, SteeringKept, HandlingRows, TurnShape, GivenRows
  <2> QED BY <2>1, <2>2, FateOfRow
<1> QED BY <1>1, <1>2

LEMMA FateOfNight == ASSUME IInv, IInv', Night, NEW e \in Events, e \notin Nights PROVE Fate(e)
<1>1. cur \in Nights /\ UNCHANGED covered
  BY DEF Night, SkipNight, BeginNight, ReviewEnds, NightEnds, IInv, TurnShape, Asleep
<1>2. state'[e] = state[e] /\ given'[e] = given[e]
  BY <1>1 DEF Night, SkipNight, BeginNight, ReviewEnds, NightEnds, IInv, TypeOK
<1> QED BY <1>1, <1>2 DEF Fate, IInv, AnsweredExactly

\* A step that leaves the rows, what was given and what was replied to.
LEMMA FateOfRest ==
  ASSUME IInv, UNCHANGED <<state, given, covered>>, NEW e \in Events PROVE Fate(e)
  BY DEF Fate, IInv, AnsweredExactly

LEMMA FateOfStep ==
  ASSUME IInv, [Next]_vars, NEW e \in Events, e \notin Nights PROVE Fate(e)
<1>1. IInv'
  BY NextStep
<1>2. CASE Process
  BY <1>1, <1>2, FateOfStart, FateOfRest DEF Process, Crash, Drain, Close, Exit, Down
<1>3. CASE Raise
  BY <1>1, <1>3, FateOfRaise
<1>4. CASE Line
  BY <1>1, <1>4, FateOfLine
<1>5. CASE Work
  BY <1>1, <1>5, FateOfRest, FateOfBegin, FateOfPrompt, FateOfEnd
     DEF Work, PutBack, TakeSources, TidyEnds
<1>6. CASE Tools
  BY <1>1, <1>6, FateOfRest, FateOfPrompt, FateOfReply
     DEF Tools, SetExpression, WaitForEvents, WaitTimesOut
<1>7. CASE Night
  BY <1>1, <1>7, FateOfNight
<1>8. CASE RelaxExpression \/ UNCHANGED vars
  BY <1>8, FateOfRest DEF RelaxExpression, vars
<1> QED BY <1>2, <1>3, <1>4, <1>5, <1>6, <1>7, <1>8 DEF Next

(* An event that has ended stays as it ended, through retries, restarts and *)
(* late replies; only a night is recorded twice.                            *)
THEOREM EndedStaysEnded == Spec => FinalIsFinal
<1>1. IInv /\ [Next]_vars =>
        [\A e \in Events \ Nights : state[e] \in Final => state'[e] = state[e]]_vars
  BY FateOfStep DEF Fate, Final
<1> QED BY <1>1, Inductive, PTL DEF Spec, FinalIsFinal

\* In the terms of MessagePromise.
LEMMA PromiseStep == ASSUME IInv, [Next]_vars PROVE [Promise!Next]_(Promise!vars)
<1> SUFFICES ASSUME NEW m \in Messages PROVE Promise!Kept(m)
  BY DEF Promise!Next
<1>1. m \in Events /\ m \notin Nights
  BY KindsOfEvents
<1>2. Fate(m)
  BY <1>1, FateOfStep
<1> QED BY <1>1, <1>2 DEF Promise!Kept, Promise!Goes, Fate

LEMMA PromiseInit == Init => Promise!Init
  BY KindsOfEvents DEF Init, Promise!Init

(* The loop implements MessagePromise: what the owner is promised of every  *)
(* message, for any number of messages, of events besides, and of crashes.  *)
THEOREM PromiseKept == Spec => KeepsPromise
<1>1. IInv /\ [Next]_vars => [Promise!Next]_(Promise!vars)
  BY PromiseStep
<1> QED BY <1>1, PromiseInit, Inductive, PTL DEF Spec, KeepsPromise, Promise!Safety

(* Steering as a whole, from the three theorems above.                      *)
THEOREM SteeringIsSafe == Spec => []SteeringSafety
<1>1. SteeringKept /\ GivenOnce /\ NoLostWakeup => SteeringSafety
  BY DEF SteeringSafety
<1> QED BY <1>1, SteeringIsKept, NoLineTwice, WaitsAreWoken, PTL

(* Replies as a whole.                                                      *)
THEOREM RepliesAreSafe == Spec => []RepliesSafety
<1>1. AnsweredExactly /\ OneAnswerPerEvent => RepliesSafety
  BY DEF RepliesSafety
<1> QED BY <1>1, RepliedMeansReplied, ReplyNeverRefused, PTL

=============================================================================
