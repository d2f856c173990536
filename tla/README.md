# natsumi in TLA+

natsumi is a personal assistant that runs as one server process. The server
(`src/src/server`, TypeScript) holds one conversation of one model, driven by Pi, and
feeds it events: the owner's messages from the web and Mac clients, pings and
self-checks, news in watched files, replies of other agents, and the night. This
directory is a TLA+ development of that server: modules that follow its code, TLC runs
over small instances of them, and proofs that TLAPS checks for instances of any size.

Everything is translated from the code at this commit. `docs/adr` says what is meant and
the code says what happens; section 6 lists where the two part.

    tlc -workers 2 -config EventLoop_steering.cfg MCEventLoop    # model-check
    tlapm EventLoop_proofs.tla                                   # check the proofs of a module

## 1. The system

One Node process, one SQLite database, one git repository for memory, one append-only
session file of Pi. JavaScript runs one callback at a time; two things interleave only at
an `await`, a timer, or a message from outside. So in every module *an action is what
runs between two awaits*, and the order of actions is the order of callbacks.

| Component | State it keeps | Operations | What is hard about it |
| --- | --- | --- | --- |
| thinking loop (`thinking-loop.ts`) | the queue, the turn's `handling`/`shown`/`answered`, Pi's steering queue, the line being made, the wait, stop flags, the avatar | `start`, `send`, `ping`, `rotate`, `takeSleepingPill`, `raiseSourcesUpdated`, `reply`, `waitForEvents`, `drain`, `close`, `pump` and the turn | events arrive while a turn runs, ends or is prepared; a crash at any await; a stop that waits |
| conversation store (`conversation-store.ts`) | `loop_events`, `conversation_messages`, `session_rotations`, the session pointer | inserts, state changes, `reply`, `recover`, `commitSwitch` | what a transaction covers and what it does not |
| night and sleeping pill (`thinking-loop.ts`, `sleeping-pill.ts`, `nightly.ts`) | the row of each switch, the handoff in the working tree, the session's age | the review, the handoff's commit, the curator, the new session, resume and resleep | a crash between any two of five steps; a judgement read before an await and used after it |
| scheduler, self-checks (`scheduler.ts`) | `self_checks`, the night last asked for | tick, deliver, ask for the night | a missed run, a run delivered twice, a night passed while the server was down |
| sources (`sources.ts`) | a ref for each directory and reader, pending directories, attentions | `prepare`, `tick`, `takeIn`, `take` | a file written between the look and the commit; refs moved and the event's row not yet written |
| workspace shell (`workspace-shell.ts`, `shell-jobs.ts`, Go `runner`) | one command at a time, followed background commands, `job.json` | run, cancel, follow, recover | a job that ends as the server restarts; the limit of followed commands; the capped output |
| agent requests (`agent-requests.ts`, `agent-replies.ts`) | a row for each task at another agent | ask, poll round, push, settle, deliver | a push during a poll round; a task given up from a stale row; a reply delivered half |
| postbox (`postbox.ts`) | a ledger of letters, runs and failures | take a letter, run, retry, reply | retries, silence, a letter that comes during a run |
| inbox (`inbox.ts`, `a2a-server.ts`) | messages of other agents by their IDs | receive, reply, list | a message sent twice |
| dove, approvals, judges (`dove.ts`, `judge.ts`) | posts, approvals | judge, send, approve, edit, reject, expire | a decision on two devices as it expires; a restart while a post is on its way |
| Slack mirror (`slack*.ts`) | files of channels and threads | pages and events | order of pages and events |
| devices (`connections.ts`, `device-streams.ts`, `read-state.ts`) | open streams, a sequence number, what has been read | subscribe, publish, mark read | a gap between the snapshot and the stream |
| sessions, GitHub login | logins, device sessions | begin, callback, revoke | a callback that comes twice |
| push (`push.ts`, `web-push.ts`, `apns.ts`) | subscriptions, what is to be sent | notify, retry, drop | a subscription that is gone |
| uploads, images | files not attached yet | upload, attach, expire | an upload that expires as it is attached |
| memory (`memory-repository.ts`, `goals.ts`) | the git working tree | write, check, commit, revert | a commit that refuses part of what was written |
| curator (`memory-curator.ts`) | its base commit, its stages | gather, rewrite, commit, recover | a stage that fails after another was written |
| turn fold (`turn-fold.ts`) | none: an algorithm on a transcript | fold | boundaries, a pair of call and result cut apart |
| routes and settings (`thinking-loop.ts`, `settings/service.ts`, `model-routes.ts`) | the files of the choices, the route the loop is on, the queue of changes | choose, refresh, follow, set, reset | whole files written by devices and the command line at once; a choice made while work is prepared |
| statistics, webhooks, certificates, migrations, Codemode | rows and files | reading, one write each | little: see *Not modelled* |
| web, Mac and iPhone clients | a request's ID, the last sequence number | send, reconnect, resume | the same request sent again after a lost answer |

How they meet:

* `server.ts` starts the database, memory, the loop, then the timers and the listeners,
  and stops them in the other order: timers, `drain()` of the loop, its `close()`, the
  database.
* Everything that wants natsumi's attention becomes a row of `loop_events` and an
  element of the loop's queue, or a file below `/sources` and a `raiseSourcesUpdated()`.
* The scheduler asks the loop for the night and waits for the outcome of the event it was
  given; a pill waits for nothing.
* Memory is committed by the loop at the end of each turn and by the curator at night,
  in the working tree they share.

`PROJECT.json` lists these components with their files and what is modelled of each, and
under `hazards` the lines where an ordering, a crash or a boundary bites.

## 2. The modules

| Module | What it is | Proofs |
| --- | --- | --- |
| `MessagePromise` | abstract: what the owner is promised of every message the server accepts | |
| `EventLoop` | the loop: queue, turn, steering, reply, wait, stop, crash, recovery; implements `MessagePromise` | `EventLoop_proofs` |
| `Handover` | abstract: what a switch of the session promises | |
| `NightSwitch` | the night and the pill, step by step, with a crash between any two writes; implements `Handover` | `NightSwitch_proofs` |
| `Sources` | watched directories, their refs and attentions, and the lines the events show of them | `Outside_proofs` |
| `AgentRequests` | her requests to outside agents, the postbox's letters, and what comes back | `AgentRequests_proofs` |
| `Inbox` | other agents' requests to her, as files and as rows | `Outside_proofs` |
| `Dove` | her posts to Slack: judged, approved, sent, told | `Outside_proofs` |
| `DeviceSync` | one device and the server: stream, epochs, snapshots, sends and reads | `DeviceSync_proofs` |
| `SlackRecord` | one Slack channel and the record of it | `SlackRecord_proofs` |
| `Workspace` | her commands, at the server and at the runner | `Inside_proofs` |
| `CappedOutput` | the cap on a command's output, a pure algorithm, against what it should keep | `Inside_proofs` |
| `SelfChecks`, `WallClock` | the scheduler and her checks, on a wall clock that is moved; cron and local times, against their definitions | `Inside_proofs` |
| `Memory` | memory's commits, and the curator's stages | `Inside_proofs` |
| `RuntimeSettings` | the model routes, the fold and the settings, as the owner changes them while the loop runs | `Inside_proofs` |
| `QueueLemmas` | lemmas the first two proof modules cite: a queue without repetitions, appended to, shifted, put back to | |
| `Parts` | the variable that names the one part a behaviour of a joint run is of | |
| `MCEventLoop`, `MCNightSwitch`, `MCOutside`, `MCInside`, `MCRunning` | instances for TLC | `Outside_proofs` and `Inside_proofs` also speak of `MCOutside` and `MCInside` as wholes |

`EventLoop` keeps of a night only what other events see of it (`reviewing`,
`switching`), and `NightSwitch` keeps of an ordinary event only that it has a turn
(`turn`). What each leaves out, the other has. The other modules meet the loop where the
code does, at an attention, an event or a message, and share no variable with it or with
each other. That is why three runs can check several modules each: `MCOutside` and
`MCInside` are disjunctions in which a behaviour is of one part (`part` says which) and
the other parts stay as they began, so no states are multiplied.

### EventLoop

State. `state`, `createdAt`, `replyTo` are the rows in SQLite: they survive a crash. The
rest is memory of the process. `phase` says at which await the unit of work stands:

| phase | the code is |
| --- | --- |
| `idle` | not working (`this.working` is null) |
| `following` | in `pump()`, event shifted, at `followRoute`/`followFold` |
| `taking` | in `takeSources()` |
| `preparing` | in `runTurn()`, turn opened, plan and images being read |
| `prompting` | in `session.prompt()` |
| `settling` | committing memory after the prompt |
| `tidying` | in the memo after the turn and the compaction |
| `reviewing`, `switching` | in `runRotation()` |
| `down` | between two processes, or unavailable |

`handling`, `shown`, `answered` are the sets `runTurn()` keeps of the turn; `steering` is
what was handed to Pi's `steer()` and has not reached a model call; `making` and `again`
are the loop of `steerAttentions()`; `waiting` is the waiter of `waitForEvents()`.
`given` and `covered` are history: how often a line was put in front of the model, and
which messages a reply was sent to after they were shown.

Actions, and what they are of:

* `SteerMessage`, `QueueMessage`: the two ways of `send()`; `RaisePing`: `ping()` and
  self-checks, only in a quiet loop; `RaiseNight`: `rotate()`; `RaiseUpdate`:
  `raiseSourcesUpdated()`, which both begins a line to steer in and queues an event.
* `LineEmpty`, `LineSteered`, `LineTooLate`: the end of the wait for the line, by what
  it finds.
* `PutBack`, `TakeSources`, `NothingToShow`, `BeginTurn`, `BeginPrompt`, `EndPrompt`,
  `TurnEnds`, `TidyEnds`: the awaits of a unit of work. `EndPrompt` also gives back to
  the queue what Pi did not deliver; each that ends a unit calls `Pump`, as `pump()`'s
  `finally` does.
* `Deliver`, `Reply`, `SetExpression`, `WaitForEvents`, `WaitTimesOut`: what Pi and the
  tools do in a turn.
* `SkipNight`, `BeginNight`, `ReviewEnds`, `NightEnds`: the night seen from outside.
* `Start` (`start()` with `recover()`), `Crash`, `Drain`, `Close`, `Exit`.

Left out: texts, images and memory's contents; limits on how many notices are shown; the
key by which steering is taken back (two messages are told apart by identity here, by
text and time in the code; a hazard of its own in `PROJECT.json`); cancellation of a
model call and its retries, which are inside `prompting`.

### NightSwitch

With a switching time set and a curator that runs. Times are counted in nights: `night`
is the number of switching times that have passed, and each `created_at` the code
compares with a switching time is the night it falls in. Rows are those of
`session_rotations`; `note` and `unsaid` in a row are history, of where the handoff that
the new session was given had been written and whether turns had followed it.

| phase | the code is |
| --- | --- |
| `following` | in `pump()`, as above |
| `turn` | in an ordinary event's turn |
| `judging` | in `runPill()`, at `sleepStatus()` |
| `marking` | in `runRotation()`, reading its place in the session |
| `reviewing` | in the review turn |
| `heading` | at the end of it, reading memory's commit |
| `curating` | in the curator |
| `creating` | making the new session |

Actions: `Ask` is the scheduler's `switchSession()` with `rotate()`; `TakePill` is
`takeSleepingPill()`; `BeginNight`/`BeginPill` and `Judge*` are `runPill()` with
`judgePill()`; `SkipEmpty`, `BeginReview`, `ReviewEnds`, `NoHandoff`, `CommitHandoff`,
`CommitAndStop`, `CurateEnds`, `CurateStopped`, `Switch`, `CreateFails` are
`runRotation()`, `runResume()` and `switchSession()`; `ResleepEnds` is `runResleep()`;
`WriteHandoff` is the tool. `RowRefused` is the throw of `insertRotation` on a row that
exists: nothing catches it, so the process ends. `Start` is `closeInterruptedReviews`,
`unfinishedRotation`, the switch it finishes, and `recover()`; `StartFails` is a start
that leaves the server unavailable.

A crash between two awaits leaves every write of the step before it. A process can also
die between two writes of one step that no transaction joins: `TornCrash`, where the
constant `Torn` allows it, stands for those points.

Approximated: what ordinary turns do inside; the curator's stages, of which only
"every stage went well" is kept; the base the curator records, which may be any commit
from its old base up to now (`curatedAt' \in curatedAt..night`), since memory may not
have been committed to for a while.

### Sources

`prepare`, `tick`, `takeIn` and `take` run one after another (`op` is the one under way
and how far it is) but await git between their steps: `Scan...`, `Choose`, `Show` and the
commits are steps of their own, and files are written, attentions recorded, turns ended
and the process killed between any two. A file's content is a version number, a directory
is one file, and `seen` is the place of its ref. `pending`, `wait` and `checked` are the
process's own lists. `line` is the line an event shows; what the events have shown
together is derived from it.

### AgentRequests

A request is a task of the agent, with its row (`row`), the replies recorded for each
wait (`told`) and those put under `/sources/agents` (`replies`). A fetch (`fetch`), a
round (`round`) and a send (`send`, one of hers and one of the postbox) are each at one of
their awaits; `Settles` is the transaction of `deliver()`, `PutFiles` and `TakeBack` the
files before it and their undoing. `letter` is the postbox's ledger. `remote` is what the
agent holds, and is external: it answers, asks, or forgets at any time. `old` are the
waits past their limit; `known` says the agent is in the config, which a restart may
change. History: `owed` (a push was taken and its task not asked for since), `sends`,
`killed`. Left out: the agents' cards, the pages of a reply, artifacts' names.

### Inbox

`request`, `texts` are the rows; `written`, `shown` the files of a request's directory.
`chain` is the place the operation on the chain has come to: every write of a file or a
row is a step, each may fail, what failed is undone file by file, and the process may stop
between any two. `torn` is history: requests whose last write was cut off or failed.

### Dove

`post`, `verdict`, `approval`, `results` are rows, `lines` what is in the request's file,
`tells` how often she was told, `works` the chain of what is carried out and `stage` where
the first of it is, `telling` the other chain. Judges are external: they answer anything,
or fail. The owner decides on any device at any time (`DoveOwnerDecides`); `copies` counts what
reached Slack. Left out: a draft's mapping of mentions, the wording of results.

### DeviceSync

The server's side is `connections.ts`, `device-streams.ts` and `read-state.ts`: a stream
per device with a sequence, a buffer (`Capacity`) and an epoch per process; the other side
is the Swift `SessionMachine` or the browser's `mediator.ts`, which differ in what they
send again (`client.kind`). Links are queues in both directions that are cut with whatever
is in them. Only one device is modelled, with sends, reads and replies; acknowledgements,
approvals and settings go as reads do. Whether the loop takes
commands (`hub.loop`) is chosen when a process begins: a draining loop still takes them, and
the listener is closed before the loop (`closeAll` in `server.ts`).

### SlackRecord

What is said in one channel is a `talk` (chosen at the beginning: top-level messages and
replies, hers and others', with mentions), which goes on while the chain of
`SlackWorkspace` handles an event, a fill-in or a post of her own, a call or a write at a
time. A message is its place in the talk, its text the number of its edits.
`missed` and `hushed` are history, of what the code passes over by its design (see 6).
The lines of a day (`ORDER BY line`) and what the API answers (`sort` by `ts`) are sets put
in order by a rank (`InOrder`, `AsSaid`). `SlackAssumption` says what a talk is: a reply
comes after its parent, and a parent is no reply.

### Workspace and CappedOutput

A command has a tool call (`call`), a wait for its end (`watch`), a directory (`state`,
`readme`, `output`, `attentions`) at the server, and a handler, a process and two lines of
answer at the runner, over a connection (`wire`) that ends, is dropped or is cut. The four
writes of an end (output, record, README, attention) are four steps. `CappedOutput` is
`capped` of the runner and `shown` of the server over bytes that know their character;
the command writes in pieces that may cut one.

### SelfChecks and WallClock

An instant is a number of slots; the zone's clock is moved once, by any of `Shifts`, ahead or
back, within a day. Zones whose clock moves over midnight are not among `Zones`: the code's `nextOccurrence` may
then name a time that is not after now (see 6). A tick asks for the night, hands over what
is due in the awake hours, and books a repeating check again; ticks may be late or missed.

### Memory

A tree and a last commit; a text is the links in it and whether a check refuses it. `based` says whether there is
a `base_commit`, and `base` what it holds (before there is one, the last commit made more
than a day ago, as a turn finds it when it begins). `given` and `heard` are history: the texts the
curator was last given on a good night, and tonight. Her
turns, the curator's stages and their correction, the mending of moved paths, the owner's
commits, commands in the background that write, and a stop between any two steps.

### RuntimeSettings

`disk` is what is on file; `unit` is the loop's work between `followRoute` and the turn,
`looks` and `choices` the refreshes and `model.use`s under way, `asked` the settings'
queue. The command line writes the files at any time; a restart may lose a route.

## 3. The runs

`CHECK_DEADLOCK FALSE` everywhere: once the bounds are used up and everything is at rest,
each of these parts may rest for good.

| Run | Instance | What it shows |
| --- | --- | --- |
| `loop_steering` | 2 messages, 2 updates, 1 outage | no event lost or given twice, steering kept, replies recorded exactly, no lost wake-up, `MessagePromise` kept |
| `loop_live` | 1 message, 1 self-check, 1 update, 1 night, 2 outages, fairness | every message ends; every stop ends; the night is handed nothing |
| `night_pills` | 1 night, 2 pills, 1 ordinary event, 2 switching times, 2 outages, torn crashes | one chain of sessions, one open switch, each from its own committed handoff, nothing committed is forgotten, a resume only where it is missing, `Handover` kept |
| `night_live` | 1 night, 1 pill, 1 ordinary event, 2 switching times, 2 outages, fairness | the scheduler is answered, pills are handled, switches end |
| `outside_safe` | sources: 2 directories, 2 attentions (one a picture), 3 events, a crash; requests: 2 tasks of letters, one with a push, 2 runs, a fault; inbox: 2 requests, room for 1, 3 messages, 2 mishaps; dove: 2 posts, 1 return, 2 stops; devices: 2 connections, 2 epochs, both clients; Slack: 4 talks of up to 3 messages on 2 days, 2 or 3 failures | the safety of each of the six, `SyncedAgrees`, and what a step may never do |
| `outside_live` | the first five on one item each, a request of hers answered and asked again, fairness | attentions, changes, answers, deadlines, results and sends come |
| `inside_safe` | 2 commands of hers and a tool, room for 1 job, 1 cut; outputs of up to 6 characters of 1, 3 or 4 bytes; a check over two short days, in zones whose clock is moved ahead by one slot, back by two, or not; memory: 2 turns or nights, 2 writes of others, 1 stop | the safety of each of the four |
| `running` | 1 command of hers, 1 of the curator; a check; 2 routes, 2 keys, 2 changes, fairness | commands, checks and settings come to rest; no override lost |
| `sources_wedged`, `agents_twice`, `dove_silent`, `night_torn` | as small as shows it | violations, see 6 |

Why the bounds are enough to mean something. In the loop two messages are the least for
the order of steering, for a reply that covers two, and for one message in Pi's hands
while the other is queued; two updates the least for a line being made while an event is
queued; two outages are a stop, the restart, and a crash of the recovery. In the night two
pills with one night are the most that can be pending at once plus one that is judged by
what the others left. Outside, two items are the least for one to be overtaken by
another or to find the limit (`MaxOpen`, `Capacity`, `MaxReturns`, `Jobs` = 1), and three
events, two runs, two epochs or two waits the least for something older to come late
(the second wait is in `outside_live` and `agents_twice`, where a task is hers).
An output of six characters fills the head, the tail twice and is trimmed again. What
the numbers leave open for the larger part of the modules, the theorems below close.

Symmetry is used in runs without liveness, over names that nothing tells apart:
`Permutations` of the updates and messages, of nights, pills and others, of directories
and inbox requests (`Dirs`, `Asked`), of her commands. Tasks, posts and attentions are not
symmetric (one pushes, posts are ordered, one is a picture) and are not permuted.

### Fairness

`EventLoop` and `NightSwitch` assume weak fairness of `Start` (a supervisor restarts the
process), of `Close` and `Exit` (`server.ts` goes from `drain()`, which has a limit, to
`close()` and on), of `Work`, `Line` and `Night` (each await comes back: git and files
answer, prompts have `turnTimeLimit`, the curator's stages have limits), and of `Ask` in
`NightSwitch` (the scheduler's timer). Nothing is assumed of the model (it need never
call a tool, reply, or write a handoff), of the owner, or of the sources. Weak fairness
is enough: each such action stays enabled until it, or a crash, happens, and outages are
bounded.

The other parts assume as little: a call comes back or fails by its time limit, a chain
goes on, a timer comes round, a stopped server is started. Of what is outside nothing is
assumed: an agent may work for ever, a device may stay away, the owner may never decide.
Strong fairness is asked where the code retries something that others keep interrupting:
in `Sources` a tick, the draw of a wait and an event's taking; in `Inbox` the look for
deadlines, which other operations on the chain may keep from its turn.

`night_live` has `Torn = FALSE`: with it, the flaw `night_torn` shows makes every start
end again, and nothing that has to be handled is. `AttentionComes` and `ChangeComes`
except a directory that is wedged in the way `sources_wedged` shows.

## 4. What the properties say

TLC checks the properties of a module together, as one conjunction (`...Safety`), whose
parts are:

| Module | Part | Says |
| --- | --- | --- |
| EventLoop | `Accounted` | an event recorded as queued is in exactly one of the places that bring it to a turn; one recorded as processing is being handled |
| | `SteeringKept`, `GivenOnce`, `NoLostWakeup` (`SteeringSafety`) | Pi holds what the turn handles and she has not been shown; no line reaches Pi twice over put-backs and restarts; no wait sleeps through what came |
| | `AnsweredExactly`, `OneAnswerPerEvent` (`RepliesSafety`) | a message is recorded replied exactly when a reply was sent after it was shown; the unique index refuses none |
| | `SleepUndisturbed` | asleep she is handed nothing |
| | `KeepsPromise` | the refinement of `MessagePromise`: a message goes only forward, except back from steering that was not delivered |
| NightSwitch | `SessionChain`, `FromItsOwnHandoff` (`ChainOfHandoffs`) | each session was made by one switch from the one before it, with the handoff written in that one and committed |
| | `OneOpenSwitch`, `CommittedIsFinished`, `NothingUnsaidLost` (`SwitchesWhole`) | one switch is open; a committed one is finished, now or by the next start; what was done after the handoff is lost by a resume alone |
| | `TwoPendingAtMost` | at most one night and one pill pend, so a join finds what it looks for |
| | `ResumeIsNeeded`, `KeepsHandover` | a resume begins only where a committed review waits for its session; the refinement of `Handover` |
| Sources | `AttentionInOneLine`, `ShownOnce` | an attention is in the line of the one event its row names; no change is shown twice |
| | `RefsFollow`, `UnshownWaits`, `NothingPassedOver` | a ref is where the last line ended; what is committed and not shown is known to wait; nothing a ref passed was in no event |
| | `PicturesApart`, `LineKept` | a running turn is given no picture; a line never changes |
| AgentRequests | `AnswerToldOnce`, `SettledWasTold` | what an agent answered is told once for each wait, and what settled was told of |
| | `NoLostRing` | a push that was taken is asked after, however it falls into a round, a send or a fetch |
| | `RunSentOnce`, `ReceivedNeverBack`, `NothingLeftBehind` | a letter's run is sent once; its last reply never moves back; what failed left no file |
| Inbox | `OpenWithin`, `MessagesHaveFiles`, `ShownAsKept`, `ClosedStays` | the limit on open requests; a message that was taken has its file; files show what the rows say; closed stays closed |
| Dove | `PostedOnce`, `PostedAsAllowed`, `ReturnsAreFew`, `DecisionIsFinal` | Slack has a post once, and as it was allowed; few drafts in a row are turned back; a decision stays |
| | `EndsHaveResults`, `ToldIsWritten` | what a post came to has a result, and she is told of what is in the file |
| DeviceSync | `RecordedOnce`, `ShownInOrder` | a request sent again is recorded once; the device shows the conversation, each message once and in order |
| | `SyncedAgrees` (a property of its own) | what a synced device has, with what is on its way to it, is what the server has |
| | `NoGapArises`, `SendsAreOnTheWay`, `AppReadsAreOnTheWay`; `ReadNeverBack` (of `StepsKept`) | no event is skipped in a connection; what is shown as being sent is under way; reading never goes back |
| SlackRecord | `ToldTruly`, `FilesFollow` | a message is told of once, at a place that stays its own; a day's file says what the rows say |
| | `RecordFollows`, `NoneMissed`, `MentionsAreTold` | what is recorded reads as it does in Slack; a fill-in leaves no gap behind the cursor, whatever is still to be handled; a mention is told of |
| Workspace | `FollowingIsCounted`, `RunningIsWaitedFor` | no place is lost or taken twice; a record that says running is waited for |
| | `EndIsWhole`, `ToldWhenWritten`, `KeptForAReader`, `ToolOverWithAnswer` | a record of an end has its output; she is told once, of what is there; output is kept for a reader only; nothing of a tool runs on after its answer |
| CappedOutput | `KeptWithin`, `KeptIsEnough`, `KeptIsEnds`, `OmittedIsExact`, `NothingIsCut`, `ShownIsExact` | the cap keeps the two ends and no more, cut between characters, with an exact count of the rest |
| SelfChecks | `ClockIsRead`, `RunsAreNearest` | local times and cron's next and last runs are the nearest that the wall clock shows, as far as the days that are searched reach whole (`Slots * (SearchDays - 1)`) |
| | `HandedOnce`, `BookedAhead` | a check is handed over once for each run, in order, and booked ahead of what was handed over |
| Memory | `CommittedIsChecked`, `ArchiveWhole`, `StageLeavesNothing` | no text that fails a check, or that its writer may not write, is committed; old records are lost to no stage; a stage is whole or not at all |
| | `LinksFollow`, `EveryChangeIsGiven` | no page links to where a file was; what changed in a topic since the first good night is given to the curator on some good night |
| RuntimeSettings | `NoOverrideLost`, `TurnOnTheChoice`, `OneChangeAtATime` | two devices' changes of one file leave both; a turn is on a route chosen since its work began; one change at a time is under way in the loop |

Liveness: `EveryMessageEnds`, `StopEnds` (loop), `AskIsAnswered`, `PillEnds`, `SwitchEnds`
(night), `AttentionComes`, `ChangeComes` (sources), `AnswerComes` (requests)
and `DeadlineComes` (inbox), which the run checks together as `AgentsAreAnswered`, `ResultsAreTold`, `PostsEnd` (dove), `SendsEnd` (devices),
`JobsComeToEnd` (workspace), `DueComes` (checks), `SettingsComeToRest` (settings).

Some properties name what the code passes over by its design (`torn`, `skipped`,
`unsure`, `hushed`, `missed`, `spoiled`, `unwritten`, `broken`): history variables that
say exactly where. Section 6 lists what they stand for.

Every property of a passing run has a mutant in `PROJECT.json`: a change of one
definition, as a slip in the code would make it, under which TLC finds the property
violated. The mutated forms stand next to the definitions they change, under a comment
that begins with "Mutant".

## 5. The proofs

Eight modules hold theorems. Each theorem is about one component's own specification
(`InboxSpec`, `DoveSpec`, and so on) for every value of the constants that satisfies the
one assumption named below; the last section puts them together for the joint
specifications the runs check. No assumption bounds the number of messages, crashes or
failures: the constants that do in the runs (`MaxOutages`, `MaxFaults`, ...) are any
natural number. Each proof has one inductive invariant, checked by TLC first, and one
lemma for each action or group of actions that a part of the invariant must survive.

Every invariant that a run checks is proved but two, and every action property and both
refinements; section *Only model-checked* says what is left to TLC and why.

### EventLoop

`EventLoop_proofs` proves for every finite set of events of each kind and every number
of outages, from the assumptions `EventKinds` (kinds are disjoint, events finite in
number) and `OutageBound`:

| Theorem | Says |
| --- | --- |
| `Inductive` | `Spec => []IInv` |
| `TypeCorrect`, `NoEventLost`, `SteeringIsKept`, `NoLineTwice`, `RepliedMeansReplied`, `ReplyNeverRefused`, `WaitsAreWoken`, `SleepIsUndisturbed` | the invariants `TypeOK`, `Accounted`, `SteeringKept`, `GivenOnce`, `AnsweredExactly`, `OneAnswerPerEvent`, `NoLostWakeup`, `SleepUndisturbed` |
| `SteeringIsSafe`, `RepliesAreSafe` | `SteeringSafety`, `RepliesSafety`: the conjunctions the run checks |
| `EndedStaysEnded` | the action property `FinalIsFinal` |
| `PromiseKept` | `Spec => Promise!Safety`: the loop implements `MessagePromise` |

`IInv` is the conjunction of the invariants with what makes them inductive:

* `TurnShape`: what the fields of a turn hold in each phase. Without it a step could find
  a `handling` left from a turn before.
* `HandlingRows`: a handled event's row says replied if it was answered and processing
  otherwise. This is what lets `TurnEnds` write a verdict over the row.
* `GivenRows`: an event that was given does not wait. `GivenOnce` says only "at most
  once"; that the count is 0 when a line is put in front of Pi needs that no event in
  the queue, and no steered one not yet shown, had been given before.
* `ReplyRows`: a reply row names only messages a reply was sent to; `recover()` reads
  those rows.

The lemmas on queues (`AppendQueue`, `TailQueue`, `ConcatQueue`) are in `QueueLemmas`;
the module adds lemmas on rows (`InsertRows`), on `Pump`, and one lemma for each group of
actions: it preserves `IInv`. For the refinement, the lemma `Fate` says what may become of
one event in a step; both `EndedStaysEnded` and `PromiseKept` follow from it.

### NightSwitch

`NightSwitch_proofs` proves for every set of nights, pills and other events (disjoint,
finite in number) and every number of switching times, crashes and stops, with torn
steps or without, from the assumption `NightEvents`:

| Theorem | Says |
| --- | --- |
| `Inductive` | `Spec => []IInv` |
| `TypeCorrect`, `SessionsChain`, `OneSwitchOpen`, `OwnHandoff`, `CommittedFinish`, `NothingUnsaid` | the invariants `TypeOK`, `SessionChain`, `OneOpenSwitch`, `FromItsOwnHandoff`, `CommittedIsFinished`, `NothingUnsaidLost` |
| `HandoffsChain`, `SwitchesAreWhole` | `ChainOfHandoffs`, `SwitchesWhole`: the conjunctions the run checks |
| `PendingAreFew` | `TwoPendingAtMost` |
| `ResumeNeeded` | the action property `ResumeIsNeeded` |
| `HandoverKept` | `Spec => Promise!Safety`: the switches implement `Handover` |

None of the invariants is inductive: each says what ended switches look like, and
whether a switch ends well depends on the step it is at. `IInv` adds:

* `QueueRows`: what waits is queued, and in the queue once; an event that is worked on is
  not in it. So an event is not begun a second time by the same process.
* `PillRows`: a pill that has not begun has no row, so a row that is inserted for one
  writes over nothing. It does not hold of nights, which is the flaw `night_torn` shows,
  and `RowRefused` is where that ends.
* `KindOfWork`, `RowOfWork`: in each phase, which kinds of switch there are, whether the
  open row has its commit and which state it is in. From these a review that comes to
  `creating` has its commit, and one that fails in `heading` or in a resleep has none:
  `CommittedIsFinished` rests on it.
* `OpenRows`: an open switch is of the session the conversation points at. This is why a
  start that finishes a switch left open does not skip a session, and why what it closes
  is never committed (`InterruptedRow`).
* `CommitRows`, `NoteOfWork`: a commit of this session means `handoff.md` is this
  session's, and a commit later than the session's beginning is of this session. A resume
  looks only for a commit since the night; that it finds one of its own session
  (`ResumeHasNote`) is `FromItsOwnHandoff` for a resume.

There is one lemma for what each group of actions does to the events and the queue, one
for what it does to the rows, and one that puts the two together for each action. The
refinement and `ResumeNeeded` follow from `EveryStepMoves`: a step writes one row at
most, in one of the few ways `Becomes` lists, and moves the conversation only with it.

`PendingAreFew` needs two facts more, inductive with `IInv`: `OnePending`, one night and
one pill at most, which is what `takeSleepingPill()` and `rotate()` really keep, and
`MarkedPends`, that a review which is about to begin is of an event that pends; otherwise
its first write would make a second one pend.

### Inbox

From `InboxAssumption` (limits are natural numbers; one message and one open request are
allowed at least): `InboxInvariant`, `InboxIsSafe` (`InboxSafety`) and
`ClosedRequestsStay` (`ClosedStays`).

An operation on the chain writes a message's file, the README, the rows, or undoes what it
wrote, one write at a time, so the safety of a moment depends on how far the operation
is. `IInv` says for each place of the chain what has been written and what not:
`MadeFirst` (a request's directory, before its row; still room), `ReplyToOpen` (a reply's
file, before its row, under a number no recorded message has; so undoing it removes no
recorded message's file), `LookAtOpen` (what the look will fail is open all the while),
`ShownOfRest` (outside the operation under way and `torn`, files show rows), `WithinLimit`,
with `ChainOfOne` for the chain's shape.

### Dove

From `DoveAssumption` (posts are the numbers from one up, in the order they are taken; the
numbers of returns and stops are natural): `DoveInvariant`, `DoveIsSafe` (`DoveSafety`)
and `DecisionsStay` (`DecisionIsFinal`).

`PostedOnce` needs that no second work is about a post that is being sent, whoever began
it: the judge's verdict, an owner's approval on one device or another, or a restart. So
`IInv` ties the chain of works to the rows: `WorkIsDue` (a work's post is in the state
that work leaves), `WorkIsOnce` (no two works are about one post, and drafts are in
order), `WorkUnderWay`, `CopiesOfSent` (Slack has a copy only of what is over, or is
being answered for). `ReturnsAreFew` is about drafts in a row, and rests on `DraftsInOrder`.
`RowsAgree` relates post, approval and verdict; `RoundOfTelling` is the chain of the telling.

### RuntimeSettings

From `SettingsAssumption` (the default route exists and stays, keys are not the names of
the other changes): `SettingsInvariant` and `SettingsAreSafe` (`SettingsSafety`).

`SeenIsFresh`: a change that is about to be written was begun with what the shared file
holds now, as the queue lets no other between (this is why no override is lost, though
every write is of the whole file). `WorkOnChoice`: what the work in hand read was the
choice at some time since it began. `RestsUnlessUp`: nothing is under way in a server
that is starting or has failed. `FilesTypes`, `LoopTypes`, `WayTypes` are the types.

### Workspace

From `WorkspaceAssumption`: `WorkspaceInvariant` and `WorkspaceIsSafe` (`WorkspaceSafety`).

`PlacesInv` is the count against the set it counts. `JobStage` says, for each place the
wait for a command's end has come to (output, record, README, attention), what its
directory holds by then; `WaitedFor` what the process that is up, or starting, still has to
do about it; `LineOf` relates a connection, its handler and its process at the runner.

### CappedOutput

From `CappedAssumption` (characters are one to `UTFMax` bytes wide, the cap has room for two):
`CappedInvariant` and `CappedIsSafe` (`CappedSafety`).

`CappedIInv` says where the head and the tail are in what was written: the head is its
first bytes, the tail its last ones after the head, at least its room or all of them.
`SnapshotShape` is what `snapshot()` gives of it: all of it, the head of a declared tool, or
two stretches that end and begin at the end of a character (`HeadCut`, `TailCut`), each short
of its room by less than a character. The counts are then differences of places where
characters end.

Those places come from `Bytes`, which puts the bytes of the characters together one by
one. The library's induction takes an operator; a set does as well: `AllNumbers` says that a
set of numbers which has 0, and the next of each it has, has all of them, and follows from
the least number it lacks. `FlattensOnce`, `BytesGrow`, `SizeBetween` and `BytesLaidOut` are
proved with the set of the numbers their claim holds for.

### AgentRequests

From `AgentRequestsAssumption`: `RequestsInvariant`, `RequestsTyped` (`RequestsTypeOK`),
`RequestsAreSafe` (`RequestsSafety`), `SettledToldFor` (`SettledWasTold`) and
`ReceivedStays` (`ReceivedNeverBack`).

A fetch, a send and a round each read a row, await the agent, and go on, while the others
do too. `IInv` says what each may still count on when it goes on: `FetchKept` (its row is
in the wait it began in and no answer was told for that wait: a task has one fetch at a
time), `SendKept` and `SendsApart` (a send is of a task
nobody else sends; agent, server and row know of it in that order), `TurnKept` (a round's
row may be out of date; this is what `agents_twice` shows, and it is why `AnswerToldOnce`
is about answers and not about giving up. But it is not out of date where the agent is
gone from the config, as nothing is fetched from it then). `RingKept` follows a push to
the send or the fetch that sees to it, `LetterKept` the runs of a letter, and `PutKept`
names for every file put and not told of who is on its way to tell: a fetch, a round or a
send.

### Sources

From `SourcesAssumption`: `SourcesInvariant`, `SourcesAreSafe` (`SourcesSafety`) and
`SourcesStepsKept` (`SourcesSteps`).

A directory is known to git, to the refs, to the lists of the process, to the rows of
attentions and to the lines of events, and a crash may come between any two writes. The parts
of `SourcesInv`: `RepoInv` (commits follow one another, and refs and files lie in order),
`KnownInv` (in a prepared process a directory with a ref is known, and waits while it is
behind), `OpInv` (what the step the operation stands at says of it), `RangesInv` (what was
shown or is gathered to be shown ends where the ref is by now, and nothing overlaps),
`ChosenInv` (an attention that was chosen still waits when it is taken) and `PassedInv` (what
a ref has passed is in a line, or in the hands of the operation that moved it).
`NothingPassedOver`, and so `PassedInv`, is claimed of a behaviour with no crash and no
failed call, while every directory on the list has its ref.

### Memory

From `MemoryAssumption`: `MemoryInvariant`, `MemoryIsSafe` (`MemorySafety`) and
`MemoryKeepsTypes` (`MemoryTypeOK`).

The safety of what is committed depends on what the work in hand has already looked at:
`MemoryInv` says it of each value of `doing`. `CheckedInv`: what a turn's commit has changed is still
to be looked at or is its writer's to write (`Sound`), and what a stage is about to keep is
sound. `ArchiveInv`: the archives are whole in every commit, and in a tree that is to be
kept. `LeavesInv`: before a stage and after its commit the tree is the commit's.
`LinksInv`: once the paths are put right no page links to what has moved. `GivenInv`: the
base is what was given, and from the structure stage of a good night on so is the commit. What
background commands and the owner write meanwhile is kept apart (`touched`, `owners`), and
these parts claim nothing of it.

### DeviceSync

From `DeviceAssumption`: `DeviceInvariant`, `DevicesKeepUp` (`DeviceSafety`) and
`ReadingNeverGoesBack` (`ReadNeverBack`).

The parts of `DeviceIInv`: `LinksInTurn` (connections are opened one after another, and one
is bound), `OwedInOrder` (what a microtask owes), `Following` (what is on its way on the
device's connection is refusals, or what comes next after what the device has),
`ShowsFirst` (it shows a beginning of the conversation), `SendsAreOnTheWay` and
`AppReadsAreOnTheWay`. The one that carries the rest is `StreamLeads`: there is a stream as
it was published, of which the buffer keeps the end, and from the place where the device
has followed it, what comes after leads from the messages the device shows to all there
are. It is an existential over a sequence no variable holds: the code keeps only the
buffer, and whether a resume can be answered from it is not known before it is asked.

### SelfChecks and WallClock

From `ClockAssumption` of `WallClock` (days have slots, weeks and months have days) and
`ChecksAssumption` (expressions name slots of a day): `ChecksInvariant`, `ChecksAreSafe` (`ChecksSafety`) and
`ChecksTyped` (`ChecksTypeOK`).

Most of it is arithmetic of the clock on the wall, for any length of a day and any move
within one: `DaysGoOn` (the day never goes back), `InstantDay` (the instant of a local time
is on its day, skipped or not) and `EarlierIsEarlier` (of two local times that happen, the
later one is later), and from them `NextRunIsNext` and `LastRunIsLast`, by the least element
of a set of places. `Stands`, the one inductive part beyond the types, relates a booking to
what was handed over: a repeating check that is pending is due at a run of its expression,
later than every run it was handed over for.

### SlackRecord

From `SlackAssumption`: `SlackInvariant`, `SlackIsSafe` (`SlackSafety`) and `SlackTyped`
(`SlackTypeOK`).

A row, a file, a mark and what was told are written in that order with awaits between,
while events are repeated, come late or not at all. The parts of `SlackIInv`:

* `SlackShape`: the types, and what the chain has in hand at each of its steps.
* `GoodRecord`: `LinesApart` (no two rows of a day have one line), `ToldOfRows` (what was
  told of has a row, which keeps its place), `FilesSay` (a day's file says what the rows
  say but for what the message in hand is about to write), `MentionsGo` (a mention is on
  its way to being told of).
* `WantedAll`: what a fill-in has still to bring is later than all that is recorded
  (`WantedLater`), is on its way, by an event or in hand, unless the socket was away since
  (`WantedComes`), and comes before what is later (`WantedFirst`). This is what `NoneMissed`
  rests on: a gap is seen only when the cursor has passed it, steps after it was made.
* `AllCome`: of a text, a deletion or a reaction, the last event still to come that tells of
  it says what Slack holds; with no such event, what is in hand says it, or else the row.
  `RecordFollows` is what is left of this when nothing is to come.
* `FirstComes`: a message that has no row comes before what else is said of it.

### The parts together

A behaviour of `MCOutside` or `MCInside` is of one part at a time. `PartsTogether` and
`InsideTogether` show that it is a behaviour of every part's specification, so each
theorem above holds of it; `OutsideStepsKept` states that of `StepsKept` and `InsideTyped`
of `MCInside`'s `TypesOK`, the conjunctions the runs check.

### What the proofs found

Attempts that failed changed the models, and no property was made to say less than it meant:

* `RunsAreNearest` claimed a day more than `nextRun()` searches: with a clock moved back,
  the last day searched is not reached whole. The property says how far it is.
* No instance had a clock moved ahead until the proof of `ClockIsRead` asked for both
  directions; `Shifts` is a constant now, and the runs have both.
* `NoneMissed` excused what was still in hand. The proof did not need it: at the moment
  the cursor passes a message that message has a row, or is in `missed`.

### Only model-checked

* Liveness, which needs `ENABLED`: all that section 4 lists under it.
* `SyncedAgrees`: it applies what is on its way event by event (`FoldLeft`). An invariant
  for it has to say what the server's conversation was at each event of the stream, which
  no variable of the model keeps. What is proved of a device (`ShownInOrder`,
  `NoGapArises`, `Following`) says the same of the messages shown.
* `MCOutside`'s `TypesOK` as a whole: of its parts, `RequestsTypeOK` and `SlackTypeOK` are
  theorems (`RequestsTyped`, `SlackTyped`) and the others' types are in the inductive
  invariants; but the bounds in `DeviceTypeOK` (`client.unread \in 0..MaxReplies`) are again
  what a fold over the stream makes of it.

## 6. Where code and documents part

Four are runs in which TLC violates a sentence of the repository by what the code does;
`PROJECT.json` has the quotations.

1. `RowIsFree` (`night_torn`): the schema keeps one row for an event. A night's row is
   written before its event's state; a crash between the two makes every later start
   insert it again, and end there.
2. `CheckedHasRef` (`sources_wedged`): `checked` is said to hold the directories with a
   ref. A directory whose first file and attention come inside a `take` gets on it
   without one, and no event can read it until a restart.
3. `SettledOnce` (`agents_twice`): a task that stopped waiting meanwhile is said to be
   left as it is. A round gives up by the row it read before its awaits, over what a push
   has settled since.
4. `NoEndIsSilent` (`dove_silent`): the row is said to be the record of what is to be
   told. A post that ends while the server is stopping has its state and no row.

The others were met while modelling. In the loop and the night:

* ADR 0014 says `thinking` ends with the handling when the queue is empty. A
  `sources-updated` event that has nothing to show ends without that (`ThinkingEnds`).
* ADR 0083 says that a stop begins no new turn. It is looked at before the sources are
  taken and not after (`NoTurnBegunInDrain`). And `close()` is said to stop the turn in
  progress, and aborts what Pi is doing: a turn whose plan and images are still being read
  has no prompt to abort, and sends it afterwards. `StopEnds` holds all the same.
* ADR 0077 says a pill taken while a night runs joins it. The event of a night has ended
  once its review has; a pill taken while the curator runs joins nothing (`SleepsOnce`).
  It says the night joins a pill that has not begun: one that `pump()` has shifted is not
  joined (`NightJoinsPill`). And that a night's session is never done without its review:
  a review begun before the switching time, whose switch is after it, makes it so
  (`NoSessionWithoutReview`).

In the workspace and the sources:

* A crash between a job's record and its README leaves the README saying "running": the
  next start looks only at the record (`shell-jobs.ts`, `giveUpOnRunning`; `ReadmeIsTrue`).
* A directory that is new is committed with whatever else `git add -A` finds; one that
  appears between the scan and the commit of `takeInNew` is committed and shown by nobody.

In the clients and Slack:

* `docs/client-contract.md` says what the owner has read is kept by the server and the same
  on every device. A read made in the browser that was lost with its connection is not
  sent again (`ReadsAreOnTheWay`; `AppReadsAreOnTheWay` is what the app keeps). A browser whose
  cursor is of an older epoch asks for the snapshot again without a pause. A
  `session.sync` that comes late on an old connection takes the device from a newer one.
* Her own post recorded while the socket is away moves the channel's cursor past what was
  said before it (`missed`). Replies to threads whose parent is behind the cursor, and
  edits, deletions and reactions made while the socket is away, are never fetched.
  A repeated event, or her own post recorded after its deletion, puts the old text back
  (`unsure`). A crash or a failed write between a row and its file leaves the day's file
  behind until the next write (`spoiled`); one between a row and the mark leaves a
  mention untold, as does a message first recorded as a parent or by the first fill-in
  (`hushed`).

In memory:

* What a background command writes between the inspection and `git add -A` is committed
  unchecked; `SKILL.md` can be put back or removed without its script.
* An owner's commit after the structure stage's brief was made is behind the new base and
  is never given to the curator.
* A discard that fails leaves `running_since` set, and a later start discards what
  she has written since. A crash between a stage's commit and the mending leaves old
  links.

In the scheduler and the settings:

* In a zone whose clock moves over midnight, `nextOccurrence` may name a time that is not
  after now; such zones are not among `Zones`.
* `readChoice()` writes the default over a choice the config no longer lists, after an
  await: a choice made meanwhile is overwritten. A `settings.set` that was accepted may
  answer with the old route. Two `publishRoutes()` at once may leave `model-routes.json`
  behind what the devices heard, where its comment says it never is.

## 7. What is next

1. `SyncedAgrees` by a history of what the server's conversation was at each event of the
   stream, and the fold over it by `AllNumbers`, as `CappedOutput`'s proofs do it.
2. The modules of the reading side: the fold of turns against a reference definition;
   push notifications and uploads, whose rows expire.
3. Of the loop, what `PROJECT.json` lists under hazards without a property: a stop that
   begins between a look at it and the turn, and a pill taken in the last part of a night.

## 8. Not modelled

`PROJECT.json` gives a reason for each component. In short: Slack's and GitHub's APIs, the
ACME library, APNs and Pi are other people's programs and appear only as what they may
answer; migrations and the reading side (dashboard, statistics) are SQL and layout; push
notifications are copies of what the conversation holds; webhooks become a file and an
attention, which `Sources` has; Codemode and the tools' texts change nothing by
themselves; cryptography is taken as given. Of the clients, what they keep in step with
the server is `DeviceSync`; their screens are not modelled.
