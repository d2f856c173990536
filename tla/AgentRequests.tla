---------------------------- MODULE AgentRequests ----------------------------
(****************************************************************************)
(* What natsumi asks outside agents and what comes back of it               *)
(* (src/src/server/agent-requests.ts), and the postbox's letters, requests  *)
(* the server sends by the clock (src/src/server/postbox.ts).               *)
(*                                                                          *)
(* A request is a task of the agent.  Its row waits; the rounds fetch every *)
(* waiting task, a push from the agent asks for a fetch at once, and a task *)
(* that stopped working is settled: its reply is put as files, and then its *)
(* row and the attention that tells her are written in one transaction.     *)
(* Answering a question makes the same task wait again: a new wait.         *)
(* Whatever awaits is a step of its own, so sends, fetches and the round    *)
(* interleave, and the process stops between any two steps.                 *)
(****************************************************************************)
EXTENDS Parts, Naturals, Sequences, FiniteSets

CONSTANTS
  Tasks,        \* the tasks agents may make
  NoTask,       \* no task
  Pushing,      \* the tasks whose agent pushes
  Hers,         \* bound: the tasks that may begin with a request of hers, as any may with the letter's
  Answered,     \* bound: the tasks whose question she answers
  MaxWaits,     \* bound: the waits of one task, its first and after each answer of hers
  MaxRuns,      \* bound: the runs of the letter that come
  MaxFaults     \* bound: calls, writes and processes that fail

ASSUME AgentRequestsAssumption ==
  NoTask \notin Tasks /\ Pushing \subseteq Tasks /\ Hers \cup Answered \subseteq Tasks /\ MaxWaits \in Nat \ {0} /\ MaxRuns \in Nat /\ MaxFaults \in Nat

VARIABLES
  row,       \* Tasks -> agent_tasks: state, wait, push, run (of the letter, or 0), placed (it has a directory)
  last,      \* the task of her latest exchange with the agent, or NoTask
  told,      \* Tasks -> wait -> the replies recorded for it, in order
  replies,     \* Tasks -> wait -> the replies put under /sources/agents
  letter,    \* postbox_letters: due, runs that came, failures in a row, received (the last run that went well)
  remote,    \* Tasks -> what the agent holds (external)
  send,      \* the request being sent by her turn, and by the postbox
  fetch,     \* Tasks -> the GetTask under way
  round,     \* the round under way
  recent,    \* the tasks fetched or sent within the interval of tasks with a push
  old,       \* the waits that are past the limit: <<task, wait>>
  known,     \* the agent is in the config
  closed,    \* the server is stopping
  owed,      \* history: tasks a push was taken for, whose agent was not asked since
  sends,     \* history: letter run -> how often it was sent
  killed,    \* history: a process ended with files on their way
  faults

durable == <<row, last, told, replies, letter>>
unsaved == <<send, fetch, round, recent, closed, owed>>
requestVars == <<durable, remote, unsaved, old, known, sends, killed, faults>>

Senders == {"her", "postbox"}
Settled == {"completed", "asks", "failed"}
Ends == Settled \cup {"gave-up", "gone", "empty"}   \* gone: failed, for its agent is not in the config
WaitNumbers == 1..MaxWaits
NoSend == [at |-> "idle", task |-> NoTask, wait |-> 1, push |-> FALSE, rung |-> FALSE, run |-> 0]
NoFetch == [at |-> "no", wait |-> 1, got |-> "working", again |-> FALSE]
NoTurn == [task |-> NoTask, wait |-> 1, push |-> FALSE]
NoRound == [at |-> "no", todo |-> {}, cur |-> NoTurn, how |-> "none"]
Fault == faults < MaxFaults /\ faults' = faults + 1

-----------------------------------------------------------------------------
(* Settling: a reply is put, then recorded.                                 *)

\* A run of the letter she has not answered: its directory is made with its reply, and none is cleared.
OfLetter(t) == row[t].run # 0 /\ ~row[t].placed

\* writeAgentReply: what an earlier attempt left in the request's directory is cleared first.
PutFiles(t, w, how) ==
  replies' = [replies EXCEPT ![t][w] = (IF OfLetter(t) THEN @ ELSE {}) \cup {how}]

\* Mutant: what was put for a reply that was not recorded stays.
TakeBackNothing(t, w, how) == UNCHANGED replies

\* undoReply: the files are taken back.
TakeBack(t, w, how) == replies' = [replies EXCEPT ![t][w] = IF OfLetter(t) THEN @ \ {how} ELSE {}]

\* Mutant: the last reply moves to the run that was heard of last.
RecordedLatest(run, how) ==
  IF run = 0 THEN letter
  ELSE IF how \in {"completed", "empty"} THEN [letter EXCEPT !.failures = 0, !.received = run]
  ELSE IF how \in {"failed", "gave-up", "gone"} THEN [letter EXCEPT !.failures = @ + 1]
  ELSE letter

\* PostboxLedger.record: one that went well moves the last reply to when it was sent, never back.
Recorded(run, how) ==
  IF run = 0 THEN letter
  ELSE IF how \in {"completed", "empty"}
    THEN [letter EXCEPT !.failures = 0, !.received = IF @ < run THEN run ELSE @]
  ELSE IF how \in {"failed", "gave-up", "gone"} THEN [letter EXCEPT !.failures = @ + 1]
  ELSE letter

EndOf(how) == CASE how = "empty" -> "completed" [] how = "gone" -> "failed" [] OTHER -> how

\* Mutant: what comes of a question is told for the question.
SettlesFirst(t, w, how) ==
  /\ row' = [row EXCEPT ![t].state = EndOf(how), ![t].push = FALSE, ![t].placed = @ \/ how = "asks"]
  /\ last' = IF OfLetter(t) /\ how = "asks" THEN t ELSE last
  /\ told' = [told EXCEPT ![t][1] = Append(@, how)]
  /\ letter' = Recorded(row[t].run, how)

\* The transaction of deliver(): the task stops waiting and loses its push token, and she is told.  A question of a
\* letter's run becomes her latest exchange.
Settles(t, w, how) ==
  /\ row' = [row EXCEPT ![t].state = EndOf(how), ![t].push = FALSE,
                        ![t].placed = @ \/ how = "asks"]
  /\ last' = IF OfLetter(t) /\ how = "asks" THEN t ELSE last
  /\ told' = [told EXCEPT ![t][w] = Append(@, how)]
  /\ letter' = Recorded(row[t].run, how)

-----------------------------------------------------------------------------
(* The outside agent (external): a task is worked on, then done, or asks,   *)
(* or is forgotten; a changed task may be pushed for.                       *)

AgentMoves(t) ==
  /\ remote[t] = "working"
  /\ \E s \in {"done", "asks", "lost"} : remote' = [remote EXCEPT ![t] = s]
  /\ UNCHANGED <<durable, unsaved, old, known, sends, killed, faults>>

-----------------------------------------------------------------------------
(* Fetches.                                                                 *)

\* fetchTask(): never two at once; a push that comes while one runs is one more after it.
Fetches(t, rung) ==
  IF fetch[t].at # "no"
    THEN fetch' = [fetch EXCEPT ![t].again = @ \/ rung] /\ UNCHANGED recent
    ELSE IF row[t].state = "waiting" /\ ~closed
      THEN /\ fetch' = [fetch EXCEPT ![t] = [NoFetch EXCEPT !.at = "asking", !.wait = row[t].wait]]
           /\ recent' = recent \cup ({t} \cap Pushing)
      ELSE UNCHANGED <<fetch, recent>>

\* The end of one GetTask: once more when a push came meanwhile and the task, as its row is now, still waits.
FetchOver(t) ==
  LET more == fetch[t].again /\ ~closed /\ row'[t].state = "waiting" IN
  /\ fetch' = [fetch EXCEPT ![t] = IF more THEN [NoFetch EXCEPT !.at = "asking", !.wait = row'[t].wait] ELSE NoFetch]
  /\ recent' = IF more THEN recent \cup ({t} \cap Pushing) ELSE recent

\* The agent answers with what the task is now; one of a letter may come back with nothing in it.
FetchReads(t) ==
  /\ fetch[t].at = "asking" /\ known
  /\ \E got \in {remote[t]} \cup (IF remote[t] = "done" /\ OfLetter(t) THEN {"empty"} ELSE {}) :
       fetch' = [fetch EXCEPT ![t].at = "read", ![t].got = got]
  /\ owed' = owed \ {t}
  /\ UNCHANGED <<durable, remote, send, round, recent, closed, old, known, sends, killed, faults>>

\* The call fails, and is tried again by the rounds; one whose agent is not in the config is not made.
FetchFails(t) ==
  /\ fetch[t].at = "asking" /\ (Fault \/ (~known /\ UNCHANGED faults))
  /\ UNCHANGED row /\ FetchOver(t)
  /\ owed' = owed \ {t}
  /\ UNCHANGED <<last, told, replies, letter, remote, send, round, closed, old, known, sends, killed>>

HowOf(got) == CASE got = "done" -> "completed" [] got = "lost" -> "failed" [] OTHER -> got

\* fetchOnce(), after the answer: a task still working is left, and so is one that cannot be put.
FetchLeaves(t) ==
  /\ fetch[t].at = "read"
  /\ (fetch[t].got = "working" /\ UNCHANGED faults) \/ (closed /\ UNCHANGED faults) \/ Fault
  /\ UNCHANGED row /\ FetchOver(t)
  /\ UNCHANGED <<last, told, replies, letter, remote, send, round, closed, owed, old, known, sends, killed>>

FetchPuts(t) ==
  /\ fetch[t].at = "read" /\ fetch[t].got \notin {"working", "empty"} /\ ~closed
  /\ PutFiles(t, fetch[t].wait, HowOf(fetch[t].got))
  /\ fetch' = [fetch EXCEPT ![t].at = "put"]
  /\ UNCHANGED <<row, last, told, letter, remote, send, round, recent, closed, owed, old, known, sends, killed, faults>>

FetchCommits(t) ==
  /\ fetch[t].at = (IF fetch[t].got = "empty" THEN "read" ELSE "put") /\ ~closed
  /\ Settles(t, fetch[t].wait, HowOf(fetch[t].got))
  /\ FetchOver(t)
  /\ UNCHANGED <<replies, remote, send, round, closed, owed, old, known, sends, killed, faults>>

\* The server began to stop, or the transaction failed: the files are taken back, and the task still waits.
FetchUndoes(t) ==
  /\ fetch[t].at = "put"
  /\ (closed /\ UNCHANGED faults) \/ Fault
  /\ TakeBack(t, fetch[t].wait, HowOf(fetch[t].got))
  /\ UNCHANGED row /\ FetchOver(t)
  /\ UNCHANGED <<last, told, letter, remote, send, round, closed, owed, old, known, sends, killed>>

-----------------------------------------------------------------------------
(* Pushes.                                                                  *)

Sending(t) == {s \in Senders : send[s].task = t /\ send[s].push /\ send[s].at # "idle"}

\* push(): the token is of a request being sent, or of a task that waits; else nothing is done.
Push(t) ==
  /\ remote[t] \in {"done", "asks", "lost"} /\ ~closed
  /\ \/ /\ Sending(t) # {}
        /\ send' = [s \in Senders |-> IF s \in Sending(t) THEN [send[s] EXCEPT !.rung = TRUE] ELSE send[s]]
        /\ UNCHANGED <<fetch, recent>>
     \/ /\ Sending(t) = {} /\ row[t].push /\ row[t].state = "waiting"
        /\ Fetches(t, TRUE)
        /\ UNCHANGED send
  /\ owed' = owed \cup {t}
  /\ UNCHANGED <<durable, remote, round, closed, old, known, sends, killed, faults>>

-----------------------------------------------------------------------------
(* Sends.                                                                   *)

Free == {t \in Tasks : row[t].state = "none" /\ remote[t] = "none" /\ \A s \in Senders : send[s].task # t}

\* ask(): a new request, or the answer to the question of the latest exchange.  One still waiting is refused.
Ask(t) ==
  /\ send["her"].at = "idle" /\ ~closed /\ known
  /\ \/ t \in Free \cap Hers
     \/ t = last /\ t \in Answered /\ row[t].state = "asks" /\ row[t].wait < MaxWaits
  /\ send' = [send EXCEPT !["her"] = [NoSend EXCEPT !.at = "sending", !.task = t, !.push = t \in Pushing,
                                      !.wait = IF t \in Free THEN 1 ELSE row[t].wait + 1, !.run = row[t].run]]
  /\ owed' = owed \ {t}
  /\ UNCHANGED <<durable, remote, fetch, round, recent, closed, old, known, sends, killed, faults>>

\* A run of the letter comes.
LetterDue ==
  /\ letter.runs < MaxRuns
  /\ letter' = [letter EXCEPT !.due = TRUE, !.runs = @ + 1]
  /\ UNCHANGED <<row, last, told, replies, remote, unsaved, old, known, sends, killed, faults>>

\* Postbox.send(): the run is claimed first, so it is sent at most once, and passed over while the one before waits.
PostboxTick(t) ==
  /\ send["postbox"].at = "idle" /\ letter.due /\ ~closed /\ t \in Free
  /\ letter' = [letter EXCEPT !.due = FALSE]
  /\ send' = IF \E u \in Tasks : row[u].run # 0 /\ row[u].state = "waiting" THEN send
             ELSE [send EXCEPT !["postbox"] = [NoSend EXCEPT !.at = "sending", !.task = t, !.push = t \in Pushing, !.run = letter.runs]]
  /\ UNCHANGED <<row, last, told, replies, remote, fetch, round, recent, closed, owed, old, known, sends, killed, faults>>

\* The agent takes the request and begins.
AgentTakes(s) ==
  /\ send[s].at = "sending" /\ known
  /\ send' = [send EXCEPT ![s].at = "sent"]
  /\ remote' = [remote EXCEPT ![send[s].task] = "working"]
  /\ sends' = IF s = "postbox" THEN [sends EXCEPT ![send[s].run] = @ + 1] ELSE sends
  /\ UNCHANGED <<durable, fetch, round, recent, closed, owed, old, known, killed, faults>>

\* The agent answers at once, with a message and no task.
AgentSays(s) ==
  /\ send[s].at = "sending" /\ known /\ send[s].wait = 1
  /\ send' = [send EXCEPT ![s].at = "said"]
  /\ remote' = [remote EXCEPT ![send[s].task] = "message"]
  /\ sends' = IF s = "postbox" THEN [sends EXCEPT ![send[s].run] = @ + 1] ELSE sends
  /\ UNCHANGED <<durable, fetch, round, recent, closed, owed, old, known, killed, faults>>

\* The send fails, or the request could not be put before it: nothing is left of hers; the letter's run failed.
SendFails(s) ==
  /\ send[s].at = "sending" /\ (Fault \/ (~known /\ UNCHANGED faults))
  /\ letter' = IF s = "postbox" THEN Recorded(send[s].run, "failed") ELSE letter
  /\ send' = [send EXCEPT ![s] = NoSend]
  /\ owed' = owed \ {send[s].task}
  /\ UNCHANGED <<row, last, told, replies, remote, fetch, round, recent, closed, old, known, sends, killed>>

\* afterSend(): the rounds count from now, and a task a push came for meanwhile is fetched now.
AfterSend(s) ==
  LET t == send[s].task
      rings == send[s].rung /\ send[s].push
  IN /\ send' = [send EXCEPT ![s] = NoSend]
     /\ fetch' = IF ~rings THEN fetch
                 ELSE IF fetch[t].at # "no" THEN [fetch EXCEPT ![t].again = TRUE]
                 ELSE [fetch EXCEPT ![t] = [NoFetch EXCEPT !.at = "asking", !.wait = send[s].wait]]
     /\ recent' = recent \cup ({t} \cap Pushing)

\* record(), recordRun(): the task waits, and hers is her latest exchange.
Records(s) ==
  LET t == send[s].task IN
  /\ send[s].at = "sent" /\ ~closed
  /\ row' = [row EXCEPT ![t] = [state |-> "waiting", wait |-> send[s].wait, push |-> send[s].push,
                                run |-> send[s].run, placed |-> s = "her"]]
  /\ last' = IF s = "her" THEN t ELSE last
  /\ AfterSend(s)
  /\ UNCHANGED <<told, replies, letter, remote, round, closed, owed, old, known, sends, killed, faults>>

\* The server is stopping: what was sent is not recorded.
SendLost(s) ==
  /\ send[s].at \in {"sent", "said", "putting"} /\ closed
  /\ send' = [send EXCEPT ![s] = NoSend]
  /\ replies' = IF send[s].at = "putting" THEN [replies EXCEPT ![send[s].task][1] = {}] ELSE replies
  /\ owed' = owed \ {send[s].task}
  /\ UNCHANGED <<row, last, told, letter, remote, fetch, round, recent, closed, old, known, sends, killed, faults>>

\* A message is put, and recorded; if it cannot be, it is lost, and the exchange is remembered all the same.
SaidPuts(s) ==
  /\ send[s].at = "said" /\ ~closed
  /\ replies' = [replies EXCEPT ![send[s].task][1] = {"completed"}]
  /\ send' = [send EXCEPT ![s].at = "putting"]
  /\ UNCHANGED <<row, last, told, letter, remote, fetch, round, recent, closed, owed, old, known, sends, killed, faults>>

SaidCommits(s) ==
  /\ send[s].at = "putting" /\ ~closed
  /\ told' = [told EXCEPT ![send[s].task][1] = Append(@, "completed")]
  /\ last' = IF s = "her" THEN NoTask ELSE last
  /\ letter' = Recorded(send[s].run, "completed")
  /\ send' = [send EXCEPT ![s] = NoSend]
  /\ owed' = owed \ {send[s].task}
  /\ UNCHANGED <<row, replies, remote, fetch, round, recent, closed, old, known, sends, killed, faults>>

SaidUndoes(s) ==
  /\ send[s].at = "putting" /\ Fault
  /\ replies' = [replies EXCEPT ![send[s].task][1] = {}]
  /\ last' = IF s = "her" THEN NoTask ELSE last
  /\ send' = [send EXCEPT ![s] = NoSend]
  /\ owed' = owed \ {send[s].task}
  /\ UNCHANGED <<row, told, letter, remote, fetch, round, recent, closed, old, known, sends, killed>>

-----------------------------------------------------------------------------
(* Rounds.                                                                  *)

\* A round takes the waiting rows as they are at its beginning.
RoundBegins ==
  /\ round.at = "no" /\ ~closed
  /\ round' = [NoRound EXCEPT !.at = "next",
       !.todo = {[task |-> t, wait |-> row[t].wait, push |-> row[t].push] : t \in {u \in Tasks : row[u].state = "waiting"}}]
  /\ UNCHANGED <<durable, remote, send, fetch, recent, closed, owed, old, known, sends, killed, faults>>

GivesUp(r) == <<r.task, r.wait>> \in old \/ ~known

\* A task with a push that was fetched within the interval is left to its push.
RoundSkips(r) ==
  /\ round.at = "next" /\ r \in round.todo /\ ~closed /\ ~GivesUp(r)
  /\ r.push /\ r.task \in recent
  /\ round' = [round EXCEPT !.todo = @ \ {r}]
  /\ UNCHANGED <<durable, remote, send, fetch, recent, closed, owed, old, known, sends, killed, faults>>

\* Mutant: a task with a push is left to its push.
RoundFetchesUnpushed(r) ==
  /\ round.at = "next" /\ r \in round.todo /\ ~closed /\ ~GivesUp(r)
  /\ ~r.push
  /\ Fetches(r.task, FALSE)
  /\ round' = [round EXCEPT !.todo = @ \ {r}, !.at = "fetching", !.cur = r]
  /\ UNCHANGED <<durable, remote, send, closed, owed, old, known, sends, killed, faults>>

RoundFetches(r) ==
  /\ round.at = "next" /\ r \in round.todo /\ ~closed /\ ~GivesUp(r)
  /\ ~(r.push /\ r.task \in recent)
  /\ Fetches(r.task, FALSE)
  /\ round' = [round EXCEPT !.todo = @ \ {r}, !.at = "fetching", !.cur = r]
  /\ UNCHANGED <<durable, remote, send, closed, owed, old, known, sends, killed, faults>>

RoundGoesOn ==
  /\ round.at = "fetching" /\ fetch[round.cur.task].at = "no"
  /\ round' = [round EXCEPT !.at = "next", !.cur = NoTurn]
  /\ UNCHANGED <<durable, remote, send, fetch, recent, closed, owed, old, known, sends, killed, faults>>

HowGiven(r) == IF <<r.task, r.wait>> \in old THEN "gave-up" ELSE "gone"

\* One that waited past the limit, or whose agent is gone, is settled by the row read at the beginning.
RoundGives(r) ==
  /\ round.at = "next" /\ r \in round.todo /\ ~closed /\ GivesUp(r)
  /\ PutFiles(r.task, r.wait, HowGiven(r))
  /\ round' = [round EXCEPT !.todo = @ \ {r}, !.at = "giving", !.cur = r, !.how = HowGiven(r)]
  /\ UNCHANGED <<row, last, told, letter, remote, send, fetch, recent, closed, owed, old, known, sends, killed, faults>>

RoundCommits ==
  /\ round.at = "giving" /\ ~closed
  /\ Settles(round.cur.task, round.cur.wait, round.how)
  /\ round' = [round EXCEPT !.at = "next", !.cur = NoTurn, !.how = "none"]
  /\ UNCHANGED <<replies, remote, send, fetch, recent, closed, owed, old, known, sends, killed, faults>>

RoundUndoes ==
  /\ round.at = "giving" /\ ((closed /\ UNCHANGED faults) \/ Fault)
  /\ TakeBack(round.cur.task, round.cur.wait, round.how)
  /\ round' = [round EXCEPT !.at = "next", !.cur = NoTurn, !.how = "none"]
  /\ UNCHANGED <<row, last, told, letter, remote, send, fetch, recent, closed, owed, old, known, sends, killed>>

RoundEnds ==
  /\ round.at = "next" /\ (round.todo = {} \/ closed)
  /\ round' = NoRound
  /\ UNCHANGED <<durable, remote, send, fetch, recent, closed, owed, old, known, sends, killed, faults>>

-----------------------------------------------------------------------------
(* Time and the process.                                                    *)

IntervalPasses(t) ==
  /\ t \in recent /\ recent' = recent \ {t}
  /\ UNCHANGED <<durable, remote, send, fetch, round, closed, owed, old, known, sends, killed, faults>>

LimitPasses(t) ==
  /\ row[t].state = "waiting" /\ <<t, row[t].wait>> \notin old
  /\ old' = old \cup {<<t, row[t].wait>>}
  /\ UNCHANGED <<durable, remote, unsaved, known, sends, killed, faults>>

\* close(): the writes that are on their way find it.
Close ==
  /\ ~closed /\ Fault /\ closed' = TRUE
  /\ UNCHANGED <<durable, remote, send, fetch, round, recent, owed, old, known, sends, killed>>

OnTheWay == round.at = "giving" \/ (\E t \in Tasks : fetch[t].at = "put") \/ \E s \in Senders : send[s].at = "putting"

\* The process ends, stopped or killed, and another begins, perhaps with the agent put in or taken out of its config.
Restart ==
  /\ (closed /\ UNCHANGED faults) \/ Fault
  /\ send' = [s \in Senders |-> NoSend] /\ fetch' = [t \in Tasks |-> NoFetch] /\ round' = NoRound
  /\ recent' = {} /\ closed' = FALSE /\ owed' = {}
  /\ known' \in BOOLEAN
  /\ killed' = (killed \/ OnTheWay)
  /\ UNCHANGED <<durable, remote, old, sends>>

-----------------------------------------------------------------------------
RequestsInit ==
  /\ row = [t \in Tasks |-> [state |-> "none", wait |-> 1, push |-> FALSE, run |-> 0, placed |-> FALSE]]
  /\ last = NoTask
  /\ told = [t \in Tasks |-> [w \in WaitNumbers |-> <<>>]]
  /\ replies = [t \in Tasks |-> [w \in WaitNumbers |-> {}]]
  /\ letter = [due |-> FALSE, runs |-> 0, failures |-> 0, received |-> 0]
  /\ remote = [t \in Tasks |-> "none"]
  /\ send = [s \in Senders |-> NoSend] /\ fetch = [t \in Tasks |-> NoFetch] /\ round = NoRound
  /\ recent = {} /\ old = {} /\ known = TRUE /\ closed = FALSE /\ owed = {}
  /\ sends = [r \in 1..MaxRuns |-> 0] /\ killed = FALSE /\ faults = 0

FetchSteps(t) == (~known /\ FetchFails(t)) \/ FetchReads(t) \/ FetchLeaves(t) \/ FetchPuts(t) \/ FetchCommits(t) \/ FetchUndoes(t)
RoundSteps ==
  \/ RoundGoesOn \/ RoundCommits \/ RoundUndoes \/ RoundEnds
  \/ \E r \in round.todo : RoundSkips(r) \/ RoundFetches(r) \/ RoundGives(r)

RequestsNext ==
  \/ \E t \in Tasks : \/ AgentMoves(t) \/ FetchSteps(t) \/ FetchFails(t) \/ Push(t) \/ IntervalPasses(t) \/ LimitPasses(t)
                      \/ Ask(t) \/ PostboxTick(t)
  \/ \E s \in Senders : AgentTakes(s) \/ AgentSays(s) \/ SendFails(s) \/ Records(s) \/ SendLost(s)
                        \/ SaidPuts(s) \/ SaidCommits(s) \/ SaidUndoes(s)
  \/ RoundBegins \/ RoundSteps \/ LetterDue \/ Close \/ Restart

RequestsSpec == RequestsInit /\ [][RequestsNext]_requestVars

\* The rounds come by the clock, a call ends by its time limit, an interval passes, and a stopped server is started.
RequestsFairness ==
  /\ WF_requestVars(part = "requests" /\ RoundBegins) /\ WF_requestVars(part = "requests" /\ RoundSteps)
  /\ WF_requestVars(part = "requests" /\ closed /\ Restart)
  /\ \A t \in Tasks : WF_requestVars(part = "requests" /\ FetchSteps(t)) /\ WF_requestVars(part = "requests" /\ IntervalPasses(t))

-----------------------------------------------------------------------------
(* Properties.                                                              *)

RequestsTypeOK ==
  /\ \A t \in Tasks : /\ row[t].state \in {"none", "waiting", "gave-up"} \cup Settled /\ row[t].wait \in WaitNumbers
                      /\ row[t].run \in 0..MaxRuns
                      /\ \A w \in WaitNumbers : replies[t][w] \subseteq Ends \ {"empty"} /\ told[t][w] \in Seq(Ends)
                      /\ fetch[t].at \in {"no", "asking", "read", "put"}
  /\ last \in Tasks \cup {NoTask} /\ recent \subseteq Tasks /\ owed \subseteq Tasks
  /\ \A s \in Senders : send[s].at \in {"idle", "sending", "sent", "said", "putting"}
  /\ round.at \in {"no", "next", "fetching", "giving"}
  /\ letter.received <= letter.runs /\ faults \in 0..MaxFaults

\* The places, among what was told for a wait, of what the agent answered.
Answers(t, w) == {i \in DOMAIN told[t][w] : told[t][w][i] \in Settled \cup {"empty"}}

\* What an agent answered is told once for each wait, however rounds, pushes, failures and restarts fall.
AnswerToldOnce == \A t \in Tasks, w \in WaitNumbers : \A i, j \in Answers(t, w) : i = j

\* A task that settled with an answer was told of for the wait it is in: no answer of hers is lost to the one before.
SettledWasTold ==
  \A t \in Tasks : row[t].state \in {"completed", "asks", "failed"} => told[t][row[t].wait] # <<>>

\* A push that was taken is not lost: its task is asked for after it, or settled, or stops waiting.
NoLostRing ==
  \A t \in owed : \/ Sending(t) # {} \/ row[t].state # "waiting" \/ closed
                  \/ fetch[t].at = "asking" \/ (fetch[t].at # "no" /\ fetch[t].again)

\* A run of a letter is sent at most once, whatever restarts.
RunSentOnce == \A r \in 1..MaxRuns : sends[r] <= 1

\* The last reply of a letter never moves back to an earlier run.
ReceivedNeverBack == [][letter'.received >= letter.received]_letter

\* Whatever fails leaves nothing behind ("no files, no copies, no rows"): while nothing is on its way, what is under
\* /sources was told of, unless a process ended between the two.
NothingLeftBehind ==
  (~OnTheWay /\ ~killed) => \A t \in Tasks, w \in WaitNumbers : replies[t][w] # {} => told[t][w] # <<>>

\* A task that waits once settles once for that wait.
SettledOnce == \A t \in Tasks, w \in WaitNumbers : Len(told[t][w]) <= 1

\* What the agent has done comes to her.
AnswerComes ==
  \A t \in Tasks : (row[t].state = "waiting" /\ remote[t] \in {"done", "asks", "lost"}) ~> (row[t].state # "waiting")

\* An answer is told once and a letter's run sent once, no push is lost and nothing is left of what failed, however
\* rounds, pushes, sends, failures and restarts fall.
RequestsSafety == AnswerToldOnce /\ NoLostRing /\ RunSentOnce /\ NothingLeftBehind
=============================================================================
