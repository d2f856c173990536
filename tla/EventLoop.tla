------------------------------ MODULE EventLoop ------------------------------
(***************************************************************************)
(* The single thinking loop of natsumi (src/server/thinking-loop.ts over   *)
(* src/server/conversation-store.ts): one Pi session takes events one at a *)
(* time.  The rows of SQLite survive a crash, everything else is memory of *)
(* the process.  An await of the code is a boundary between two actions;   *)
(* what JavaScript runs without an await is one action.                    *)
(*                                                                         *)
(* A unit of work goes through the phases                                  *)
(*   following  - the event is off the queue, the route and the fold are   *)
(*                being read again                                         *)
(*   taking     - the sources make the line of a sources_updated event     *)
(*   preparing  - the turn is open, its plan and images are being read     *)
(*   prompting  - Pi works on the turn; messages can be steered into it    *)
(*   settling   - Pi has stopped, memory is being committed                *)
(*   tidying    - the memo after the turn and the compaction               *)
(*   reviewing, switching - the night's review turn, and what follows it   *)
(* and the loop is "idle" between two of them and "down" between two       *)
(* processes.  A start that leaves the loop unavailable takes no event and *)
(* is the same as "down" here.                                             *)
(***************************************************************************)
EXTENDS Integers, Sequences, FiniteSets, Functions

CONSTANTS
  Messages,   \* events of owner messages (mac-message)
  Pictures,   \* those of them that carry images, which are never steered
  Pings,      \* pings and self-checks: raised only when the loop is quiet
  Updates,    \* sources-updated events
  Nights,     \* nightly-review events
  NoEvent,    \* stands for "no event"
  MaxOutages  \* bound on the number of crashes and stops together

Events == Messages \cup Pings \cup Updates \cup Nights

ASSUME EventKinds ==
  /\ Pictures \subseteq Messages
  /\ Messages \cap (Pings \cup Updates \cup Nights) = {}
  /\ Pings \cap (Updates \cup Nights) = {}
  /\ Updates \cap Nights = {}
  /\ NoEvent \notin Events
  /\ IsFiniteSet(Events)

ASSUME OutageBound == MaxOutages \in Nat

VARIABLES
  \* --- loop_events and conversation_messages (SQLite) ---
  state,      \* the state of each event, "none" before its row is written
  createdAt,  \* the order in which the rows were written, 0 before
  replyTo,    \* events a reply row names
  \* --- the process ---
  phase,      \* what the loop is doing, see above
  cur,        \* the event of the unit of work, or NoEvent
  queue,      \* events waiting for a turn
  handling,   \* events handed to the turn in progress
  shown,      \* those natsumi has in front of her
  answered,   \* those a reply of this turn answered
  steering,   \* events in Pi's steering queue, not delivered yet
  making,     \* the event whose line is being made to be steered in, or NoEvent
  again,      \* attentions were raised while it was being made
  cut,        \* how the prompt ended: "ok", "limit" (calls, context, time), "error"
  waiting,    \* a wait_for_events is in progress
  draining,   \* a stop waits for the work in progress
  closing,    \* the loop is being closed
  avatar,     \* "neutral", "thinking", "sleepy", or "chosen" by the model
  \* --- history ---
  given,      \* how often each event's line was put in front of Pi
  covered,    \* messages that a reply was sent to after they were shown
  outages     \* crashes and stops so far

rows    == <<state, createdAt, replyTo>>
turn    == <<handling, shown, answered, steering, cut, waiting>>
steer   == <<making, again>>
stop    == <<draining, closing>>
history == <<given, covered, outages>>
work    == <<phase, cur, queue>>
vars    == <<rows, work, turn, steer, stop, avatar, history>>

-----------------------------------------------------------------------------
EventState == {"none", "queued", "processing", "replied", "noreply", "failed"}
Final      == {"replied", "noreply", "failed"}
Phase      == {"down", "idle", "following", "taking", "preparing", "prompting",
               "settling", "tidying", "reviewing", "switching"}

TypeOK ==
  /\ state \in [Events -> EventState]
  /\ createdAt \in [Events -> Nat]
  /\ replyTo \in SUBSET Messages
  /\ phase \in Phase
  /\ cur \in Events \cup {NoEvent}
  /\ queue \in Seq(Events)
  /\ handling \in SUBSET Events
  /\ shown \in SUBSET Events
  /\ answered \in SUBSET Messages
  /\ steering \in Seq(Events)
  /\ making \in Updates \cup {NoEvent}
  /\ again \in BOOLEAN
  /\ cut \in {"ok", "limit", "error"}
  /\ waiting \in BOOLEAN
  /\ draining \in BOOLEAN
  /\ closing \in BOOLEAN
  /\ avatar \in {"neutral", "thinking", "sleepy", "chosen"}
  /\ given \in [Events -> Nat]
  /\ covered \in SUBSET Messages
  /\ outages \in Nat

Fresh(S) == {e \in S : state[e] = "none"}

\* The events the recovered queue lists: ORDER BY created_at.
InOrder(S) ==
  {q \in [1..Cardinality(S) -> S] :
     /\ Range(q) = S
     /\ \A i, j \in DOMAIN q : i < j => createdAt[q[i]] < createdAt[q[j]]}

\* insertEvent / insertOwnerMessage for the events of s, oldest first.
Stamp == Cardinality({e \in Events : state[e] # "none"})
Insert(s, st) ==
  /\ state' = [e \in Events |-> IF e \in Range(s) THEN st ELSE state[e]]
  /\ createdAt' = [e \in Events |->
       IF e \in Range(s) THEN Stamp + CHOOSE i \in DOMAIN s : s[i] = e
                         ELSE createdAt[e]]

\* Mutant: the kind of the turn is not asked.
CanSteerAnyTurn == phase \in {"prompting", "reviewing"} /\ ~draining /\ ~closing

\* A turn natsumi's tools and Pi's steering reach: an events turn being run by Pi.
CanSteer == phase = "prompting" /\ ~draining /\ ~closing

Asleep == phase \in {"reviewing", "switching"}

Available == phase # "down" /\ ~closing
Quiet     == phase = "idle" /\ queue = <<>> /\ ~closing

\* Mutant: pump() does not look at a stop.
PumpThroughStop(q, busy) ==
  \/ busy /\ queue' = q /\ UNCHANGED <<phase, cur>>
  \/ ~busy /\ q = <<>> /\ phase' = "idle" /\ cur' = NoEvent /\ queue' = q
  \/ ~busy /\ q # <<>> /\ phase' = "following" /\ cur' = Head(q) /\ queue' = Tail(q)

(* pump(): q is the queue after the handler, busy whether a unit of work is *)
(* still running.  A unit of work that ends calls it too, so a next event   *)
(* is begun in the same step.                                               *)
Pump(q, busy) ==
  \/ busy /\ queue' = q /\ UNCHANGED <<phase, cur>>
  \/ /\ ~busy /\ (draining \/ closing \/ q = <<>>)
     /\ phase' = "idle" /\ cur' = NoEvent /\ queue' = q
  \/ /\ ~busy /\ ~draining /\ ~closing /\ q # <<>>
     /\ phase' = "following" /\ cur' = Head(q) /\ queue' = Tail(q)

Busy == phase # "idle"

-----------------------------------------------------------------------------
(*                        start, crash and stop                             *)

\* What recover() makes of a row a previous process left behind.
RecoveredState(e) ==
  IF state[e] # "processing" THEN state[e]
  ELSE IF e \in replyTo THEN "replied" ELSE "failed"

\* A process begins with empty memory.
ForgetTurn ==
  /\ handling' = {} /\ shown' = {} /\ answered' = {} /\ steering' = <<>>
  /\ cut' = "ok" /\ waiting' = FALSE
Forget ==
  /\ ForgetTurn
  /\ making' = NoEvent /\ again' = FALSE
  /\ draining' = FALSE /\ closing' = FALSE /\ avatar' = "neutral"

\* start(): what was being handled is closed, what was queued runs again.
Start ==
  /\ phase = "down"
  /\ state' = [e \in Events |-> RecoveredState(e)]
  /\ \E q \in InOrder({e \in Events : state'[e] = "queued"}) : Pump(q, FALSE)
  /\ UNCHANGED <<createdAt, replyTo, turn, steer, stop, avatar, history>>

Down ==
  /\ phase' = "down" /\ cur' = NoEvent /\ queue' = <<>>
  /\ Forget
  /\ UNCHANGED rows

Crash ==
  /\ phase # "down" /\ outages < MaxOutages
  /\ Down
  /\ outages' = outages + 1 /\ UNCHANGED <<given, covered>>

\* drain(): nothing more is begun, and a wait in the turn is ended.
Drain ==
  /\ phase # "down" /\ ~draining /\ outages < MaxOutages
  /\ draining' = TRUE /\ waiting' = FALSE
  /\ outages' = outages + 1
  /\ UNCHANGED <<rows, work, handling, shown, answered, steering, cut, steer,
                 closing, avatar, given, covered>>

(* close(), once drain() has answered (idle, the night's work, the limit or *)
(* the end of the work).  The abort ends a prompt under way; where none is, *)
(* there is nothing to abort.                                               *)
Close ==
  /\ draining /\ ~closing
  /\ closing' = TRUE
  /\ UNCHANGED <<rows, work, turn, steer, draining, avatar, history>>

\* The work has ended, the session is released and the process exits.
Exit ==
  /\ closing /\ phase = "idle"
  /\ Down
  /\ UNCHANGED history

-----------------------------------------------------------------------------
(*                         what raises events                               *)

\* send(): what it does to the avatar, on a microtask; asleep she stays asleep.
Reviewing == Asleep \/ (phase = "idle" /\ queue # <<>> /\ Head(queue) \in Nights)
AvatarOfSend == IF Reviewing THEN avatar ELSE "thinking"

\* Mutant: a wait is not woken.
SteeredSilently(e) ==
  /\ handling' = handling \cup {e}
  /\ steering' = Append(steering, e)
  /\ UNCHANGED <<shown, answered, cut, waiting>>

\* An event is steered in: it is being handled, and any wait in the turn ends.
Steered(e) ==
  /\ handling' = handling \cup {e}
  /\ steering' = Append(steering, e)
  /\ waiting' = FALSE
  /\ UNCHANGED <<shown, answered, cut>>

\* send() during an events turn.
SteerMessage(m) ==
  /\ Available /\ m \in Fresh(Messages \ Pictures) /\ CanSteer
  /\ Insert(<<m>>, "processing")
  /\ Steered(m)
  /\ avatar' = AvatarOfSend
  /\ UNCHANGED <<replyTo, work, steer, stop, history>>

\* send() at any other time, or of a message with images.
QueueMessage(m) ==
  /\ Available /\ m \in Fresh(Messages)
  /\ ~CanSteer \/ m \in Pictures
  /\ Insert(<<m>>, "queued")
  /\ Pump(Append(queue, m), Busy)
  /\ avatar' = AvatarOfSend
  /\ UNCHANGED <<replyTo, turn, steer, stop, history>>

\* ping() and deliverDueSelfChecks(): only when nothing runs and nothing waits.
RaisePing(p) ==
  /\ Quiet /\ p \in Fresh(Pings)
  /\ Insert(<<p>>, "queued")
  /\ Pump(Append(queue, p), FALSE)
  /\ UNCHANGED <<replyTo, turn, steer, stop, avatar, history>>

\* rotate(): a night still pending is joined, which adds nothing.
RaiseNight(n) ==
  /\ Available /\ n \in Fresh(Nights)
  /\ \A other \in Nights : state[other] \notin {"queued", "processing"}
  /\ Insert(<<n>>, "queued")
  /\ Pump(Append(queue, n), Busy)
  /\ UNCHANGED <<replyTo, turn, steer, stop, avatar, history>>

(* raiseSourcesUpdated(): an attention for her begins a line to steer in    *)
(* (or another round of one being made), and one event is queued unless one *)
(* waits already.  "attention" is whether an attention waits in the sources.*)
RaiseUpdate ==
  /\ Available
  /\ \E attention \in BOOLEAN, made, queued \in Fresh(Updates) \cup {NoEvent} :
       /\ made # NoEvent <=> (attention /\ CanSteer /\ making = NoEvent)
       /\ queued # NoEvent <=> Range(queue) \cap Updates = {}
       /\ made # queued \/ made = NoEvent
       /\ making' = IF made # NoEvent THEN made ELSE making
       /\ again' = (again \/ (attention /\ CanSteer /\ making # NoEvent))
       /\ Insert((IF made # NoEvent THEN <<made>> ELSE <<>>)
                   \o (IF queued # NoEvent THEN <<queued>> ELSE <<>>), "queued")
       /\ IF queued # NoEvent THEN Pump(Append(queue, queued), Busy)
                              ELSE UNCHANGED work
  /\ UNCHANGED <<replyTo, turn, stop, avatar, history>>

(* steerAttentions(), after the wait for the line: st is the state of the   *)
(* events so far; if attentions came meanwhile another line is begun.       *)
AnotherRound(st) ==
  /\ again' = FALSE
  /\ \/ making' = NoEvent /\ state' = st /\ UNCHANGED createdAt
     \/ \E e \in Fresh(Updates) :
          /\ again /\ CanSteer
          /\ making' = e
          /\ state' = [st EXCEPT ![e] = "queued"]
          /\ createdAt' = [createdAt EXCEPT ![e] = Stamp + 1]

LineEmpty ==
  /\ making # NoEvent
  /\ AnotherRound([state EXCEPT ![making] = "noreply"])
  /\ UNCHANGED <<replyTo, work, turn, stop, avatar, history>>

LineSteered ==
  /\ making # NoEvent /\ CanSteer
  /\ Steered(making)
  /\ AnotherRound([state EXCEPT ![making] = "processing"])
  /\ UNCHANGED <<replyTo, work, stop, avatar, history>>

LineTooLate ==
  /\ making # NoEvent /\ ~CanSteer
  /\ making' = NoEvent /\ again' = FALSE
  /\ Pump(Append(queue, making), Busy)
  /\ UNCHANGED <<rows, turn, stop, avatar, history>>

-----------------------------------------------------------------------------
(*                         a unit of work                                   *)

\* beginHandling of the event the turn is for.
OpenTurn ==
  /\ phase' = "preparing"
  /\ state' = [state EXCEPT ![cur] = "processing"]
  /\ handling' = {cur} /\ shown' = {cur} /\ answered' = {cur} \cap replyTo
  /\ cut' = "ok"
  /\ UNCHANGED <<createdAt, replyTo, cur, queue, steering, waiting>>

\* A stop began while the route was followed: the event goes back.
PutBack ==
  /\ phase = "following" /\ draining
  /\ Pump(<<cur>> \o queue, FALSE)
  /\ UNCHANGED <<rows, turn, steer, stop, avatar, history>>

TakeSources ==
  /\ phase = "following" /\ ~draining /\ cur \in Updates
  /\ phase' = "taking"
  /\ UNCHANGED <<rows, cur, queue, turn, steer, stop, avatar, history>>

\* Nothing changed after all: the event ends without a turn.
NothingToShow ==
  /\ phase = "taking"
  /\ state' = [state EXCEPT ![cur] = "noreply"]
  /\ Pump(queue, FALSE)
  /\ UNCHANGED <<createdAt, replyTo, turn, steer, stop, avatar, history>>

BeginTurn ==
  /\ \/ phase = "following" /\ ~draining /\ cur \in Messages \cup Pings
     \/ phase = "taking"
  /\ OpenTurn
  /\ UNCHANGED <<steer, stop, avatar, history>>

\* The prompt goes to Pi with the event's line.
BeginPrompt ==
  /\ phase = "preparing"
  /\ phase' = "prompting"
  /\ given' = [given EXCEPT ![cur] = @ + 1]
  /\ UNCHANGED <<rows, cur, queue, turn, steer, stop, avatar, covered, outages>>

\* A model-call boundary: every message waiting there goes in together.
Deliver ==
  /\ phase = "prompting" /\ ~waiting /\ steering # <<>>
  /\ shown' = shown \cup Range(steering)
  /\ given' = [e \in Events |-> IF e \in Range(steering) THEN given[e] + 1 ELSE given[e]]
  /\ steering' = <<>>
  /\ UNCHANGED <<rows, work, handling, answered, cut, waiting, steer, stop, avatar,
                 covered, outages>>

\* Mutant: the kind of the events is not asked.
OpenEvents == (handling \cap shown) \ answered

\* The owner messages a reply sent now would answer.
OpenMessages == (handling \cap Messages \cap shown) \ answered

\* A reply's row names the newest of them; all are marked in the same transaction.
Newest(S) == {m \in S : \A o \in S : createdAt[o] <= createdAt[m]}
\* Mutant: the older ones are left to the end of the turn.
RepliedNewest(open) == [e \in Events |-> IF e \in Newest(open) THEN "replied" ELSE state[e]]
RepliedState(open)  == [e \in Events |-> IF e \in open THEN "replied" ELSE state[e]]

(* The reply tool (the tool calls of one answer of the model may run side   *)
(* by side with a wait).  With nothing open a reply changes nothing here.   *)
Reply ==
  /\ phase = "prompting"
  /\ \E m \in Newest(OpenMessages) : replyTo' = replyTo \cup {m}
  /\ state' = RepliedState(OpenMessages)
  /\ answered' = answered \cup OpenMessages
  /\ covered' = covered \cup OpenMessages
  /\ UNCHANGED <<createdAt, work, handling, shown, steering, cut, waiting, steer,
                 stop, avatar, given, outages>>

\* set_mac_avatar_expression: any expression, thinking among them.
SetExpression ==
  /\ phase \in {"prompting", "reviewing"}
  /\ avatar' \in {"chosen", "thinking"}
  /\ UNCHANGED <<rows, work, turn, steer, stop, history>>

\* relaxExpression(): an expression shown long enough, thinking excepted.
RelaxExpression ==
  /\ phase # "down" /\ ~Asleep /\ avatar \in {"chosen", "sleepy"}
  /\ avatar' = "neutral"
  /\ UNCHANGED <<rows, work, turn, steer, stop, history>>

\* wait_for_events: it comes back at once when news is already on its way.
MayWait == ~draining /\ handling \subseteq shown

WaitForEvents ==
  /\ phase = "prompting" /\ ~waiting /\ MayWait
  /\ waiting' = TRUE
  /\ UNCHANGED <<rows, work, handling, shown, answered, steering, cut, steer, stop,
                 avatar, history>>

WaitTimesOut ==
  /\ waiting
  /\ waiting' = FALSE
  /\ UNCHANGED <<rows, work, handling, shown, answered, steering, cut, steer, stop,
                 avatar, history>>

\* Mutants: the row, or the queue, is not put back.
ReturnWithoutRow ==
  /\ handling' = handling \ Range(steering)
  /\ queue' = steering \o queue
  /\ steering' = <<>>
  /\ UNCHANGED state
ReturnToRowsAlone ==
  /\ handling' = handling \ Range(steering)
  /\ state' = [e \in Events |-> IF e \in Range(steering) THEN "queued" ELSE state[e]]
  /\ steering' = <<>>
  /\ UNCHANGED queue

\* Steering Pi did not deliver goes back to the front of the queue, in its order.
ReturnSteering ==
  /\ handling' = handling \ Range(steering)
  /\ state' = [e \in Events |-> IF e \in Range(steering) THEN "queued" ELSE state[e]]
  /\ queue' = steering \o queue
  /\ steering' = <<>>

(* session.prompt() is over: Pi stopped of itself, was stopped at a limit   *)
(* (calls, context, or the time, which also ends a wait), or failed.        *)
EndPrompt(c) ==
  /\ phase = "prompting" /\ (waiting => c = "limit")
  /\ ReturnSteering
  /\ cut' = c /\ waiting' = FALSE
  /\ phase' = "settling"
  /\ UNCHANGED <<createdAt, replyTo, cur, shown, answered, steer, stop, avatar, history>>

\* Mutant: a turn that failed fails what it had answered too.
VerdictOfTurn(e) ==
  IF cut # "ok" \/ closing THEN "failed"
  ELSE IF e \in answered THEN "replied" ELSE "noreply"

\* How an event of the turn ended.
Verdict(e) ==
  IF e \in answered THEN "replied"
  ELSE IF cut # "ok" \/ closing THEN "failed" ELSE "noreply"

\* Thinking ends with the handling, whoever set it, when nothing waits.
Rested == IF avatar = "thinking" /\ queue = <<>> THEN "neutral" ELSE avatar

\* Memory is committed: the events of the turn are recorded.
TurnEnds ==
  /\ phase = "settling"
  /\ state' = [e \in Events |-> IF e \in handling THEN Verdict(e) ELSE state[e]]
  /\ ForgetTurn
  /\ avatar' = Rested
  /\ phase' = "tidying"
  /\ UNCHANGED <<createdAt, replyTo, cur, queue, steer, stop, history>>

\* The memo and the compaction are done.
TidyEnds ==
  /\ phase = "tidying"
  /\ Pump(queue, FALSE)
  /\ UNCHANGED <<rows, turn, steer, stop, avatar, history>>

-----------------------------------------------------------------------------
(*        the night, as far as the other events see it: NightSwitch         *)

SkipNight ==
  /\ phase = "following" /\ ~draining /\ cur \in Nights
  /\ state' = [state EXCEPT ![cur] = "noreply"]
  /\ Pump(queue, FALSE)
  /\ UNCHANGED <<createdAt, replyTo, turn, steer, stop, avatar, history>>

BeginNight ==
  /\ phase = "following" /\ ~draining /\ cur \in Nights
  /\ phase' = "reviewing"
  /\ state' = [state EXCEPT ![cur] = "processing"]
  /\ given' = [given EXCEPT ![cur] = @ + 1]
  /\ avatar' = "sleepy"
  /\ UNCHANGED <<createdAt, replyTo, cur, queue, turn, steer, stop, covered, outages>>

\* wake(): to what waits for her, if anything does.
Woken == IF avatar # "sleepy" THEN Rested
         ELSE IF queue # <<>> THEN "thinking" ELSE "neutral"

\* The review turn ended with a handoff, in time or cut short.
ReviewEnds(s) ==
  /\ phase = "reviewing" /\ s \in {"noreply", "failed"} /\ (closing => s = "failed")
  /\ phase' = "switching"
  /\ state' = [state EXCEPT ![cur] = s]
  /\ avatar' = Rested
  /\ UNCHANGED <<createdAt, replyTo, cur, queue, turn, steer, stop, history>>

\* The review left no handoff, or the switch after it has ended.
NightEnds(s) ==
  /\ \/ phase = "reviewing" /\ s = "failed"
     \/ phase = "switching" /\ s \in {"noreply", "failed"} /\ (closing => s = "failed")
  /\ state' = [state EXCEPT ![cur] = s]
  /\ avatar' = Woken
  /\ Pump(queue, FALSE)
  /\ UNCHANGED <<createdAt, replyTo, turn, steer, stop, history>>

-----------------------------------------------------------------------------
Init ==
  /\ state = [e \in Events |-> "none"]
  /\ createdAt = [e \in Events |-> 0]
  /\ replyTo = {}
  /\ phase = "down" /\ cur = NoEvent /\ queue = <<>>
  /\ handling = {} /\ shown = {} /\ answered = {} /\ steering = <<>>
  /\ making = NoEvent /\ again = FALSE
  /\ cut = "ok" /\ waiting = FALSE
  /\ draining = FALSE /\ closing = FALSE
  /\ avatar = "neutral"
  /\ given = [e \in Events |-> 0]
  /\ covered = {}
  /\ outages = 0

Process == Start \/ Crash \/ Drain \/ Close \/ Exit

Raise ==
  \/ \E m \in Messages : SteerMessage(m) \/ QueueMessage(m)
  \/ \E p \in Pings : RaisePing(p)
  \/ \E n \in Nights : RaiseNight(n)
  \/ RaiseUpdate

Line == LineEmpty \/ LineSteered \/ LineTooLate

Work ==
  \/ PutBack \/ TakeSources \/ NothingToShow \/ BeginTurn \/ BeginPrompt
  \/ TurnEnds \/ TidyEnds
  \/ \E c \in {"ok", "limit", "error"} : EndPrompt(c)

Tools == Deliver \/ Reply \/ SetExpression \/ WaitForEvents \/ WaitTimesOut

Night ==
  \/ SkipNight \/ BeginNight
  \/ \E s \in {"noreply", "failed"} : ReviewEnds(s) \/ NightEnds(s)

Next == Process \/ Raise \/ Line \/ Work \/ Tools \/ Night \/ RelaxExpression

Spec == Init /\ [][Next]_vars

(* The process is started again after it stopped; what awaits the file      *)
(* system or git comes back, a prompt ends at its time limit at the latest, *)
(* and the stop that waits in drain() goes on to close().  Nothing is       *)
(* assumed of the model, of the owner or of the sources.                    *)
Fairness ==
  /\ WF_vars(Start)
  /\ WF_vars(Close) /\ WF_vars(Exit)
  /\ WF_vars(Work) /\ WF_vars(Line) /\ WF_vars(Night)

FairSpec == Spec /\ Fairness

-----------------------------------------------------------------------------
(*                             correctness                                  *)

BeforeTurn == phase \in {"following", "taking"}

\* Where the process keeps the events whose rows say queued: in the queue, in
\* the hands of pump() before their turn, or with a line being made.
Held(e) ==
  \/ e \in Range(queue)
  \/ BeforeTurn /\ e = cur
  \/ e = making

\* In no two of those places, and in none twice.
Once ==
  /\ IsInjective(queue)
  /\ making \notin Range(queue)
  /\ BeforeTurn => cur \notin Range(queue) /\ cur # making

\* Events whose rows say processing belong to the turn or the night in progress.
InHand(e) == e \in handling \/ (phase = "reviewing" /\ e = cur)

(* No event is lost or doubled between SQLite and memory: an event recorded *)
(* as queued is in exactly one place that will bring it to a turn, and one  *)
(* recorded as processing is being handled.                                 *)
Accounted ==
  phase # "down" =>
    /\ \A e \in Events : state[e] = "queued" <=> Held(e)
    /\ Once
    /\ \A e \in Events : state[e] = "processing" => InHand(e)

(* Steering (ADR 0024): what Pi holds and has not delivered is exactly what *)
(* the turn handles and natsumi has not been shown, each event once.        *)
SteeringKept ==
  /\ Range(steering) = handling \ shown
  /\ IsInjective(steering)

(* recover(): one that was being handled is never handed to Pi twice; with  *)
(* steering, put-backs and restarts, no event's line reaches Pi twice.      *)
GivenOnce == \A e \in Events : given[e] <= 1

(* A message is recorded replied exactly when a reply was sent after it was *)
(* shown, through every crash (the transaction of reply(), ADR 0024).       *)
AnsweredExactly == \A m \in Messages : state[m] = "replied" <=> m \in covered

(* The unique index "one answering reply per event" never refuses a reply:  *)
(* none of the messages a reply would answer has a reply row already.       *)
OneAnswerPerEvent == OpenMessages \cap replyTo = {}

(* wait_for_events (ADR 0094): no wait goes on while something steered in   *)
(* waits to be shown, nor while a stop waits for the turn.                  *)
NoLostWakeup == waiting => MayWait

(* Asleep she is handed nothing (ADR 0009): what comes in the night waits   *)
(* for the session that follows it.                                         *)
SleepUndisturbed ==
  Asleep => /\ handling = {} /\ steering = <<>>
            /\ \A m \in Messages : state[m] # "processing"

(* An event that has ended stays as it ended; only a night is recorded      *)
(* twice, by its review and by its switch.                                  *)
FinalIsFinal ==
  [][\A e \in Events \ Nights : state[e] \in Final => state'[e] = state[e]]_vars

(* The loop keeps what MessagePromise promises for every owner message.     *)
Promise == INSTANCE MessagePromise WITH
  status <- [m \in Messages |-> state[m]],
  seen   <- {m \in Messages : given[m] > 0},
  told   <- covered
KeepsPromise == Promise!Safety

(* Under Fairness every accepted message ends, whatever crashes and stops   *)
(* come between: none is left queued or processing for ever.                *)
EveryMessageEnds == Promise!Ends

(* A stop ends (ADR 0083): whatever it finds in progress, a wait, a line    *)
(* being made, a night, the process is gone in the end.                     *)
StopEnds == draining ~> phase = "down"

(* Steering as a whole: Pi holds what the turn handles and has not shown,   *)
(* nothing is shown twice, and no wait sleeps through what came.            *)
SteeringSafety == SteeringKept /\ GivenOnce /\ NoLostWakeup

(* Replies as a whole: recorded replied exactly when replied to, and never  *)
(* refused by the index.                                                    *)
RepliesSafety == AnsweredExactly /\ OneAnswerPerEvent

-----------------------------------------------------------------------------
(*          what the documents say and the code does not keep               *)

(* ADR 0014: "at the end of the handling, if the queue is empty, thinking   *)
(* goes back to neutral, whoever set it".                                   *)
ThinkingEnds == phase = "idle" /\ queue = <<>> => avatar # "thinking"

(* ADR 0083: while a stop waits "no new turn is begun"; an event whose turn *)
(* has not begun goes back to the queue.                                    *)
NoTurnBegunInDrain == [][draining => (phase' = "preparing" => phase = "preparing")]_vars

=============================================================================
