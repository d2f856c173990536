------------------------- MODULE AgentRequests_proofs -------------------------
(****************************************************************************)
(* The requests to outside agents proved for any tasks, waits, letters and  *)
(* faults: what an agent answered is told once for each wait, a letter's    *)
(* run is sent once, a push is not lost and a failure leaves nothing        *)
(* behind.  The inductive invariant says what a fetch, a send and a round   *)
(* that began earlier may still count on when they go on: a fetch is for    *)
(* the wait its row is in and no answer was told for it, a send is of a     *)
(* task nobody else sends, and a round's row may be out of date, but not    *)
(* where the agent is gone from the config.                                 *)
(****************************************************************************)
EXTENDS AgentRequests, TLAPS, SequenceTheorems

RowStates  == {"none", "waiting", "gave-up"} \cup Settled
Worked  == {"working", "done", "asks", "lost"}   \* what an agent may say of a task it has
Row     == [state : RowStates, wait : WaitNumbers, push : BOOLEAN, run : 0..MaxRuns, placed : BOOLEAN]
Send    == [at : {"idle", "sending", "sent", "said", "putting"}, task : Tasks \cup {NoTask}, wait : WaitNumbers,
            push : BOOLEAN, rung : BOOLEAN, run : 0..MaxRuns]
Fetch   == [at : {"no", "asking", "read", "put"}, wait : WaitNumbers, got : Worked \cup {"none", "message", "empty"},
            again : BOOLEAN]
Turn    == [task : Tasks \cup {NoTask}, wait : WaitNumbers, push : BOOLEAN]
Given   == {"gave-up", "gone"}
Letter  == [due : BOOLEAN, runs : 0..MaxRuns, failures : Nat, received : 0..MaxRuns]

\* What the variables hold: of the requests, and of what works on them.
RequestRowTypes ==
  /\ row \in [Tasks -> Row] /\ last \in Tasks \cup {NoTask}
  /\ told \in [Tasks -> [WaitNumbers -> Seq(Ends)]]
  /\ replies \in [Tasks -> [WaitNumbers -> SUBSET (Ends \ {"empty"})]]
  /\ letter \in Letter /\ sends \in [1..MaxRuns -> Nat]
  /\ remote \in [Tasks -> Worked \cup {"none", "message"}]

WorkTypes ==
  /\ send \in [Senders -> Send] /\ fetch \in [Tasks -> Fetch]
  /\ round \in [at : {"no", "next", "fetching", "giving"}, todo : SUBSET Turn, cur : Turn, how : Given \cup {"none"}]
  /\ recent \subseteq Tasks /\ owed \subseteq Tasks
  /\ known \in BOOLEAN /\ closed \in BOOLEAN /\ killed \in BOOLEAN /\ faults \in 0..MaxFaults

Unanswered(t, w) == Answers(t, w) = {}

\* A row, what the agent holds of its task, and what was told of each of its waits.
RowKept(t) ==
  /\ row[t].state # "none" => remote[t] \in Worked
  /\ row[t].state = "none" => row[t].wait = 1
  /\ row[t].state = "waiting" => Unanswered(t, row[t].wait)
  /\ row[t].state \in Settled => told[t][row[t].wait] # <<>>
  /\ \A w \in WaitNumbers : row[t].wait < w => told[t][w] = <<>>
  /\ \A w \in WaitNumbers : \A i, j \in Answers(t, w) : i = j
  /\ remote[t] = "none" => told[t][1] = <<>>

\* A fetch is for the wait its row is in, which the agent's answer was not told for.
FetchKept(t) ==
  fetch[t].at # "no" =>
    /\ row[t].state \in {"waiting", "gave-up", "failed"} /\ fetch[t].wait = row[t].wait
    /\ Unanswered(t, row[t].wait)
    /\ fetch[t].at \in {"read", "put"} => fetch[t].got \in Worked \cup {"empty"}
    /\ fetch[t].at = "put" => fetch[t].got \notin {"working", "empty"}

\* A send is of a new task, or of one that asked; the server, the agent and the row know of it in that order.
SendKept(s) ==
  /\ send[s].at = "idle" => send[s].task = NoTask
  /\ send[s].at # "idle" =>
       LET t == send[s].task IN
       /\ t \in Tasks
       /\ s = "her" \/ send[s].at # "sending" => known
       /\ send[s].at = "sent" => remote[t] \in Worked
       /\ send[s].at \in {"said", "putting"} => send[s].wait = 1 /\ remote[t] = "message"
       /\ send[s].wait = 1 => /\ row[t].state = "none" /\ told[t][1] = <<>>
                              /\ send[s].at = "sending" => remote[t] = "none"
       /\ send[s].wait # 1 => /\ s = "her" /\ send[s].wait = row[t].wait + 1
                              /\ row[t].state \in {"asks", "gave-up", "failed"} /\ fetch[t].at = "no"

SendsApart == \A s, z \in Senders : send[s].at # "idle" /\ send[z].at # "idle" /\ send[s].task = send[z].task => s = z

\* What a round took of a row at its beginning: its wait may be over, but not while the agent is gone.
TurnKept(r) ==
  /\ r.task \in Tasks /\ row[r.task].state # "none" /\ r.wait <= row[r.task].wait
  /\ ~known => r.wait = row[r.task].wait

RoundKept ==
  /\ round.at = "no" => round.todo = {}
  /\ \A r \in round.todo : TurnKept(r)
  /\ round.at \in {"fetching", "giving"} => TurnKept(round.cur)
  /\ round.at = "giving" => round.how \in Given /\ (round.how = "gone" => ~known)

\* The runs of the letter.
LetterKept ==
  /\ letter.received <= letter.runs
  /\ \A t \in Tasks : row[t].run <= letter.runs
  /\ \A s \in Senders : send[s].run <= letter.runs
  /\ \A r \in 1..MaxRuns : sends[r] <= 1 /\ (letter.runs < r => sends[r] = 0)
  /\ letter.due => letter.runs \in 1..MaxRuns /\ sends[letter.runs] = 0
  /\ send["postbox"].at = "sending" =>
       /\ send["postbox"].run \in 1..MaxRuns /\ sends[send["postbox"].run] = 0
       /\ letter.due => send["postbox"].run < letter.runs

\* A push that was taken is with the send or the fetch that sees to it.
RingKept ==
  \A t \in owed :
    /\ remote[t] \in Worked
    /\ \A s \in Senders : send[s].at # "idle" /\ send[s].task = t => send[s].push /\ send[s].rung
    /\ \/ Sending(t) # {} \/ row[t].state # "waiting" \/ closed
       \/ fetch[t].at = "asking" \/ (fetch[t].at # "no" /\ fetch[t].again)

\* What is put and was not told of is on its way: by a fetch, by a round or by a send.
ByFetch(t, w) == IF fetch[t].at = "put" /\ fetch[t].wait = w THEN {HowOf(fetch[t].got)} ELSE {}
ByRound(t, w) == IF round.at = "giving" /\ round.cur.task = t /\ round.cur.wait = w THEN {round.how} ELSE {}
BySend(t, w)  == IF w = 1 /\ \E s \in Senders : send[s].at = "putting" /\ send[s].task = t THEN {"completed"} ELSE {}

PutKept ==
  ~killed => \A t \in Tasks, w \in WaitNumbers :
               told[t][w] = <<>> => replies[t][w] \subseteq ByFetch(t, w) \cup ByRound(t, w) \cup BySend(t, w)

IInv ==
  /\ RequestRowTypes /\ WorkTypes
  /\ \A t \in Tasks : RowKept(t) /\ FetchKept(t)
  /\ \A s \in Senders : SendKept(s)
  /\ SendsApart /\ RoundKept /\ LetterKept /\ RingKept /\ PutKept

-----------------------------------------------------------------------------
(*                       what a step leaves as it was                       *)

\* What the assumption on the constants gives.
LEMMA Bounds ==
  /\ MaxWaits \in Nat \ {0} /\ MaxRuns \in Nat /\ MaxFaults \in Nat
  /\ 1 \in WaitNumbers /\ WaitNumbers \subseteq Nat /\ NoTask \notin Tasks
  BY AgentRequestsAssumption DEF WaitNumbers

\* What a fault costs.
LEMMA FaultCounted ==
  ASSUME faults \in 0..MaxFaults, Fault \/ UNCHANGED faults
  PROVE  faults' \in 0..MaxFaults
  BY Bounds DEF Fault

\* What rests on variables a step leaves alone stays.
LEMMA RowTypesAsBefore ==
  ASSUME IInv, UNCHANGED <<row, last, told, replies, letter, sends, remote>>
  PROVE  RequestRowTypes'
  BY DEF IInv, RequestRowTypes

LEMMA RowsAsBefore ==
  ASSUME IInv, UNCHANGED <<row, told, remote>>
  PROVE  \A t \in Tasks : RowKept(t)'
  BY DEF IInv, RowKept, Unanswered, Answers

LEMMA FetchesAsBefore ==
  ASSUME IInv, UNCHANGED <<row, told, fetch>>
  PROVE  \A t \in Tasks : FetchKept(t)'
  BY DEF IInv, FetchKept, Unanswered, Answers

\* A fetch that begins is of a task that waits, which nobody sends.
LEMMA SendsAsBefore ==
  ASSUME IInv, UNCHANGED <<send, known, remote, row, told>>,
         \A t \in Tasks : fetch[t].at = "no" /\ row[t].state # "waiting" => fetch'[t].at = "no"
  PROVE  (\A s \in Senders : SendKept(s)') /\ SendsApart'
<1>1. SendsApart'
  BY DEF IInv, SendsApart
<1>2. ASSUME NEW s \in Senders PROVE SendKept(s)'
  <2>1. SendKept(s)
    BY DEF IInv
  <2> QED BY <2>1 DEF SendKept
<1> QED BY <1>1, <1>2

LEMMA RoundAsBefore ==
  ASSUME IInv, UNCHANGED <<round, row, known>>
  PROVE  RoundKept'
  BY DEF IInv, RoundKept, TurnKept

LEMMA LetterAsBefore ==
  ASSUME IInv, UNCHANGED <<letter, row, send, sends>>
  PROVE  LetterKept'
  BY DEF IInv, LetterKept

\* A push is still seen to while the fetches go on, or are made once more.
LEMMA RingsAsBefore ==
  ASSUME IInv, UNCHANGED <<remote, send, row, closed>>, owed' \subseteq owed,
         \A t \in owed' : row[t].state = "waiting" /\ ~closed /\ (fetch[t].at = "asking" \/ (fetch[t].at # "no" /\ fetch[t].again))
                            => fetch'[t].at = "asking" \/ (fetch'[t].at # "no" /\ fetch'[t].again)
  PROVE  RingKept'
<1> SUFFICES ASSUME NEW t \in owed'
             PROVE  /\ remote'[t] \in Worked
                    /\ \A s \in Senders : send'[s].at # "idle" /\ send'[s].task = t => send'[s].push /\ send'[s].rung
                    /\ \/ Sending(t)' # {} \/ row'[t].state # "waiting" \/ closed'
                       \/ fetch'[t].at = "asking" \/ (fetch'[t].at # "no" /\ fetch'[t].again)
  BY DEF RingKept
<1>1. Sending(t)' = Sending(t)
  BY DEF Sending
<1> QED BY <1>1 DEF IInv, RingKept

\* What is on its way still is, and nothing more is put.
LEMMA PutsAsBefore ==
  ASSUME IInv, UNCHANGED killed,
         \A t \in Tasks, w \in WaitNumbers : told'[t][w] = <<>> => told[t][w] = <<>> /\ replies'[t][w] \subseteq replies[t][w],
         \A t \in Tasks : fetch[t].at = "put" => fetch'[t].at = "put" /\ fetch'[t].wait = fetch[t].wait /\ fetch'[t].got = fetch[t].got,
         round.at = "giving" => UNCHANGED round,
         \A s \in Senders : send[s].at = "putting" => send'[s].at = "putting" /\ send'[s].task = send[s].task
  PROVE  PutKept'
<1> SUFFICES ASSUME ~killed', NEW t \in Tasks, NEW w \in WaitNumbers, told'[t][w] = <<>>
             PROVE  replies'[t][w] \subseteq ByFetch(t, w)' \cup ByRound(t, w)' \cup BySend(t, w)'
  BY DEF PutKept
<1>1. replies[t][w] \subseteq ByFetch(t, w) \cup ByRound(t, w) \cup BySend(t, w)
  BY DEF IInv, PutKept
<1>2. ByFetch(t, w) \subseteq ByFetch(t, w)'
  BY DEF ByFetch, HowOf
<1>3. ByRound(t, w) \subseteq ByRound(t, w)'
  BY DEF ByRound
<1>4. BySend(t, w) \subseteq BySend(t, w)'
  BY DEF BySend
<1> QED BY <1>1, <1>2, <1>3, <1>4

-----------------------------------------------------------------------------
(*                                the fetches                               *)

\* The end of a GetTask, or one more.
LEMMA OverOrAgain ==
  ASSUME NEW t \in Tasks, fetch \in [Tasks -> Fetch], row' \in [Tasks -> Row], recent \subseteq Tasks, FetchOver(t)
  PROVE  /\ fetch' \in [Tasks -> Fetch] /\ recent' \subseteq Tasks
         /\ \A u \in Tasks \ {t} : fetch'[u] = fetch[u]
         /\ fetch'[t].at \in {"no", "asking"}
         /\ fetch'[t].at = "asking" => row'[t].state = "waiting" /\ fetch'[t].wait = row'[t].wait
         /\ fetch[t].again /\ ~closed /\ row'[t].state = "waiting" => fetch'[t].at = "asking"
<1>1. NoFetch \in Fetch /\ NoFetch.at = "no"
  BY Bounds DEF NoFetch, Fetch, Worked
<1>2. row'[t].wait \in WaitNumbers
  BY DEF Row
<1>3. [NoFetch EXCEPT !.at = "asking", !.wait = row'[t].wait] \in Fetch
  BY <1>2 DEF NoFetch, Fetch, Worked
<1>4. /\ [NoFetch EXCEPT !.at = "asking", !.wait = row'[t].wait].at = "asking"
      /\ [NoFetch EXCEPT !.at = "asking", !.wait = row'[t].wait].wait = row'[t].wait
  BY DEF NoFetch
<1>5. CASE fetch[t].again /\ ~closed /\ row'[t].state = "waiting"
  <2>1. fetch' = [fetch EXCEPT ![t] = [NoFetch EXCEPT !.at = "asking", !.wait = row'[t].wait]] /\ recent' = recent \cup ({t} \cap Pushing)
    BY <1>5 DEF FetchOver
  <2> QED BY <2>1, <1>3, <1>4, <1>5
<1>6. CASE ~(fetch[t].again /\ ~closed /\ row'[t].state = "waiting")
  <2>1. fetch' = [fetch EXCEPT ![t] = NoFetch] /\ recent' = recent
    BY <1>6 DEF FetchOver
  <2> QED BY <2>1, <1>1, <1>6
<1> QED BY <1>5, <1>6

\* What a step of one fetch leaves true of the rows, the fetches and the sends.
LEMMA FetchRows ==
  ASSUME IInv, NEW t \in Tasks, FetchKept(t)', UNCHANGED <<row, told, remote, letter, send, sends, known>>,
         \A u \in Tasks \ {t} : fetch'[u] = fetch[u], fetch'[t] = fetch[t] \/ fetch[t].at # "no" \/ row[t].state = "waiting"
  PROVE  /\ \A u \in Tasks : RowKept(u)' /\ FetchKept(u)'
         /\ (\A s \in Senders : SendKept(s)') /\ SendsApart' /\ LetterKept'
<1>1. \A u \in Tasks : RowKept(u)'
  BY RowsAsBefore
<1>2. ASSUME NEW u \in Tasks PROVE FetchKept(u)'
  <2>1. CASE u # t
    <3>1. FetchKept(u) /\ fetch'[u] = fetch[u]
      BY <2>1 DEF IInv
    <3> QED BY <3>1 DEF FetchKept, Unanswered, Answers
  <2> QED BY <2>1
<1>3. (\A s \in Senders : SendKept(s)') /\ SendsApart'
  <2>1. fetch'[t] = fetch[t] \/ row[t].state \in {"waiting", "gave-up", "failed"}
    BY DEF IInv, FetchKept
  <2>2. \A s \in Senders : SendKept(s)'
    <3> SUFFICES ASSUME NEW s \in Senders PROVE SendKept(s)'
      OBVIOUS
    <3>1. SendKept(s)
      BY DEF IInv
    <3>2. CASE send[s].at # "idle" /\ send[s].task = t /\ fetch'[t] # fetch[t]
      <4>1. send[s].wait # 1 => fetch[t].at = "no" /\ row[t].state # "waiting"
        BY <3>1, <3>2 DEF SendKept
      <4>2. send[s].wait = 1
        BY <3>2, <4>1
      <4> QED BY <3>1, <3>2, <4>2 DEF SendKept
    <3>3. CASE ~(send[s].at # "idle" /\ send[s].task = t /\ fetch'[t] # fetch[t])
      <4>1. send[s].at # "idle" => fetch'[send[s].task] = fetch[send[s].task]
        BY <3>1, <3>3 DEF SendKept
      <4> QED BY <3>1, <4>1 DEF SendKept
    <3> QED BY <3>2, <3>3
  <2>3. SendsApart'
    BY DEF IInv, SendsApart
  <2> QED BY <2>2, <2>3
<1> QED BY <1>1, <1>2, <1>3, LetterAsBefore

\* A step of one fetch, which takes nothing from a row and tells nothing.
LEMMA OneFetch ==
  ASSUME IInv, NEW t \in Tasks, RequestRowTypes', WorkTypes', PutKept', FetchKept(t)',
         UNCHANGED <<row, told, remote, letter, send, sends, known, closed, round>>, owed' \subseteq owed,
         \A u \in Tasks \ {t} : fetch'[u] = fetch[u], fetch[t].at # "no" \/ row[t].state = "waiting",
         t \in owed' => \/ row[t].state # "waiting" \/ closed
                        \/ fetch[t].at # "asking" /\ (fetch[t].at = "no" \/ ~fetch[t].again)
                        \/ fetch'[t].at = "asking" \/ (fetch'[t].at # "no" /\ fetch'[t].again)
  PROVE  IInv'
<1>1. /\ \A u \in Tasks : RowKept(u)' /\ FetchKept(u)'
      /\ (\A s \in Senders : SendKept(s)') /\ SendsApart' /\ LetterKept'
  BY FetchRows
<1>2. RoundKept'
  BY RoundAsBefore
<1>3. RingKept'
  <2>1. ASSUME NEW u \in owed', row[u].state = "waiting", ~closed, fetch[u].at = "asking" \/ (fetch[u].at # "no" /\ fetch[u].again)
        PROVE  fetch'[u].at = "asking" \/ (fetch'[u].at # "no" /\ fetch'[u].again)
    BY <2>1 DEF WorkTypes
  <2> QED BY <2>1, RingsAsBefore
<1> QED BY <1>1, <1>2, <1>3 DEF IInv

\* The agent answers.
LEMMA ReadStep ==
  ASSUME IInv, NEW t \in Tasks, FetchReads(t) PROVE IInv'
<1>1. /\ fetch[t].at = "asking" /\ owed' = owed \ {t} /\ UNCHANGED <<durable, remote, send, round, recent, closed, known, sends, killed, faults>>
      /\ fetch \in [Tasks -> Fetch] /\ remote \in [Tasks -> Worked \cup {"none", "message"}]
  BY DEF FetchReads, IInv, WorkTypes, RequestRowTypes
<1>2. PICK got \in {remote[t]} \cup {"empty"} : fetch' = [fetch EXCEPT ![t].at = "read", ![t].got = got]
  BY DEF FetchReads
<1>3. /\ fetch' \in [Tasks -> Fetch] /\ fetch'[t].at = "read" /\ fetch'[t].got = got /\ fetch'[t].wait = fetch[t].wait
      /\ \A u \in Tasks \ {t} : fetch'[u] = fetch[u]
  BY <1>1, <1>2 DEF Fetch
<1>4. FetchKept(t)'
  <2>1. FetchKept(t) /\ RowKept(t)
    BY DEF IInv
  <2>2. remote[t] \in Worked
    BY <1>1, <2>1 DEF FetchKept, RowKept
  <2> QED BY <1>1, <1>3, <2>1, <2>2 DEF FetchKept, Unanswered, Answers, durable
<1>5. WorkTypes'
  BY <1>1, <1>3 DEF IInv, WorkTypes
<1>6. RequestRowTypes'
  BY <1>1, RowTypesAsBefore DEF durable
<1>7. PutKept'
  <2>1. UNCHANGED <<told, replies, round, send, killed>>
    BY <1>1 DEF durable
  <2>2. \A u \in Tasks : fetch[u].at = "put" => fetch'[u] = fetch[u]
    BY <1>1, <1>3
  <2> QED BY <2>1, <2>2, PutsAsBefore
<1> QED BY <1>1, <1>3, <1>4, <1>5, <1>6, <1>7, OneFetch DEF durable

\* A call that failed, and an answer that is left: the fetch is over, or made once more.
LEMMA LeaveStep ==
  ASSUME IInv, NEW t \in Tasks, FetchFails(t) \/ FetchLeaves(t) PROVE IInv'
<1>1. /\ fetch[t].at \in {"asking", "read"} /\ FetchOver(t)
      /\ UNCHANGED <<row, last, told, replies, letter, remote, send, round, closed, known, sends, killed>>
      /\ fetch \in [Tasks -> Fetch] /\ row \in [Tasks -> Row] /\ recent \subseteq Tasks /\ FetchKept(t) /\ RowKept(t)
  BY DEF FetchFails, FetchLeaves, IInv, WorkTypes, RequestRowTypes
<1>2. row' \in [Tasks -> Row]
  BY <1>1
<1>3. /\ fetch' \in [Tasks -> Fetch] /\ recent' \subseteq Tasks
      /\ \A u \in Tasks \ {t} : fetch'[u] = fetch[u]
      /\ fetch'[t].at \in {"no", "asking"}
      /\ fetch'[t].at = "asking" => row'[t].state = "waiting" /\ fetch'[t].wait = row'[t].wait
      /\ fetch[t].again /\ ~closed /\ row'[t].state = "waiting" => fetch'[t].at = "asking"
  BY <1>1, <1>2, OverOrAgain
<1>4. faults' \in 0..MaxFaults
  BY FaultCounted DEF FetchFails, FetchLeaves, IInv, WorkTypes
<1>5. owed' \subseteq owed /\ (t \in owed' => fetch[t].at = "read")
  BY <1>1 DEF FetchFails, FetchLeaves
<1>6. WorkTypes'
  BY <1>1, <1>3, <1>4, <1>5 DEF IInv, WorkTypes
<1>7. RequestRowTypes'
  BY <1>1, RowTypesAsBefore
<1>8. PutKept'
  <2>1. \A u \in Tasks : fetch[u].at = "put" => fetch'[u] = fetch[u]
    BY <1>1, <1>3
  <2> QED BY <1>1, <2>1, PutsAsBefore
<1>9. FetchKept(t)'
  BY <1>1, <1>3 DEF FetchKept, RowKept, Unanswered, Answers
<1>10. t \in owed' => \/ row[t].state # "waiting" \/ closed
                      \/ fetch[t].at # "asking" /\ (fetch[t].at = "no" \/ ~fetch[t].again)
                      \/ fetch'[t].at = "asking" \/ (fetch'[t].at # "no" /\ fetch'[t].again)
  BY <1>1, <1>3, <1>5
<1> QED BY <1>1, <1>3, <1>5, <1>6, <1>7, <1>8, <1>9, <1>10, OneFetch

\* What a fetch comes to is told or taken back as itself: never as what a round gives.
LEMMA FetchedHow ==
  ASSUME IInv, NEW t \in Tasks, fetch[t].at = "put" \/ (fetch[t].at = "read" /\ fetch[t].got # "working")
  PROVE  /\ HowOf(fetch[t].got) \in Settled \cup {"empty"} /\ HowOf(fetch[t].got) \in Ends
         /\ fetch[t].got # "empty" => HowOf(fetch[t].got) \in Settled
<1>1. fetch[t].got \in {"done", "asks", "lost", "empty"}
  BY DEF IInv, FetchKept, Worked
<1> QED BY <1>1 DEF HowOf, Settled, Ends

\* A reply is put, and its fetch is now what it is on its way by.
LEMMA PutStep ==
  ASSUME IInv, NEW t \in Tasks, FetchPuts(t) PROVE IInv'
<1> DEFINE w == fetch[t].wait
           how == HowOf(fetch[t].got)
<1>1. /\ fetch[t].at = "read" /\ fetch[t].got \notin {"working", "empty"} /\ PutFiles(t, w, how)
      /\ fetch' = [fetch EXCEPT ![t].at = "put"]
      /\ UNCHANGED <<row, last, told, letter, remote, send, round, recent, closed, owed, old, known, sends, killed, faults>>
      /\ fetch \in [Tasks -> Fetch] /\ FetchKept(t) /\ w \in WaitNumbers
      /\ replies \in [Tasks -> [WaitNumbers -> SUBSET (Ends \ {"empty"})]]
  BY DEF FetchPuts, IInv, WorkTypes, RequestRowTypes, Fetch
<1>2. how \in Settled /\ how \in Ends \ {"empty"}
  BY <1>1, FetchedHow DEF Settled
<1>3. /\ fetch' \in [Tasks -> Fetch] /\ fetch'[t].at = "put" /\ fetch'[t].got = fetch[t].got /\ fetch'[t].wait = fetch[t].wait
      /\ fetch'[t].again = fetch[t].again
      /\ \A u \in Tasks \ {t} : fetch'[u] = fetch[u]
  BY <1>1 DEF Fetch
<1>4. WorkTypes'
  BY <1>1, <1>3 DEF IInv, WorkTypes
<1> HIDE DEF w, how
<1>5. /\ replies' \in [Tasks -> [WaitNumbers -> SUBSET (Ends \ {"empty"})]]
      /\ replies'[t][w] \subseteq replies[t][w] \cup {how}
      /\ \A u \in Tasks, x \in WaitNumbers : u # t \/ x # w => replies'[u][x] = replies[u][x]
  BY <1>1, <1>2 DEF PutFiles
<1>6. RequestRowTypes'
  BY <1>1, <1>5 DEF IInv, RequestRowTypes
<1>7. PutKept'
  <2> SUFFICES ASSUME ~killed', NEW u \in Tasks, NEW x \in WaitNumbers, told'[u][x] = <<>>
               PROVE  replies'[u][x] \subseteq ByFetch(u, x)' \cup ByRound(u, x)' \cup BySend(u, x)'
    BY DEF PutKept
  <2>1. replies[u][x] \subseteq ByFetch(u, x) \cup ByRound(u, x) \cup BySend(u, x)
    BY <1>1 DEF IInv, PutKept
  <2>2. ByRound(u, x)' = ByRound(u, x) /\ BySend(u, x)' = BySend(u, x)
    BY <1>1 DEF ByRound, BySend
  <2>3. CASE u = t /\ x = w
    <3>1. ByFetch(u, x)' = {how} /\ ByFetch(u, x) = {}
      BY <1>1, <1>3, <2>3 DEF ByFetch, w, how
    <3>2. replies'[u][x] \subseteq replies[u][x] \cup {how}
      BY <1>5, <2>3
    <3> QED BY <2>1, <2>2, <3>1, <3>2
  <2>4. CASE u # t \/ x # w
    <3>1. ByFetch(u, x)' = ByFetch(u, x)
      BY <1>1, <1>3, <2>4 DEF ByFetch, w
    <3> QED BY <1>5, <2>1, <2>2, <2>4, <3>1
  <2> QED BY <2>3, <2>4
<1>8. FetchKept(t)'
  BY <1>1, <1>3 DEF FetchKept, Unanswered, Answers
<1> QED BY <1>1, <1>3, <1>4, <1>6, <1>7, <1>8, OneFetch

\* What a fetch put is taken back; what a round put beside it stays its own.
LEMMA UndoStep ==
  ASSUME IInv, NEW t \in Tasks, FetchUndoes(t) PROVE IInv'
<1> DEFINE w == fetch[t].wait
           how == HowOf(fetch[t].got)
<1>1. /\ fetch[t].at = "put" /\ FetchOver(t) /\ TakeBack(t, w, how)
      /\ UNCHANGED <<row, last, told, letter, remote, send, round, closed, owed, known, sends, killed>>
      /\ fetch \in [Tasks -> Fetch] /\ row \in [Tasks -> Row] /\ recent \subseteq Tasks /\ FetchKept(t) /\ RowKept(t)
      /\ w \in WaitNumbers /\ replies \in [Tasks -> [WaitNumbers -> SUBSET (Ends \ {"empty"})]]
  BY DEF FetchUndoes, IInv, WorkTypes, RequestRowTypes, Fetch
<1>2. row' \in [Tasks -> Row]
  BY <1>1
<1>3. /\ fetch' \in [Tasks -> Fetch] /\ recent' \subseteq Tasks
      /\ \A u \in Tasks \ {t} : fetch'[u] = fetch[u]
      /\ fetch'[t].at \in {"no", "asking"}
      /\ fetch'[t].at = "asking" => row'[t].state = "waiting" /\ fetch'[t].wait = row'[t].wait
      /\ fetch[t].again /\ ~closed /\ row'[t].state = "waiting" => fetch'[t].at = "asking"
  BY <1>1, <1>2, OverOrAgain
<1>4. faults' \in 0..MaxFaults
  BY FaultCounted DEF FetchUndoes, IInv, WorkTypes
<1>5. WorkTypes'
  BY <1>1, <1>3, <1>4 DEF IInv, WorkTypes
<1> HIDE DEF w, how
<1>6. /\ replies' \in [Tasks -> [WaitNumbers -> SUBSET (Ends \ {"empty"})]]
      /\ replies'[t][w] \subseteq replies[t][w] \ {how}
      /\ \A u \in Tasks, x \in WaitNumbers : u # t \/ x # w => replies'[u][x] = replies[u][x]
  BY <1>1 DEF TakeBack
<1>7. RequestRowTypes'
  BY <1>1, <1>6 DEF IInv, RequestRowTypes
<1>8. PutKept'
  <2> SUFFICES ASSUME ~killed', NEW u \in Tasks, NEW x \in WaitNumbers, told'[u][x] = <<>>
               PROVE  replies'[u][x] \subseteq ByFetch(u, x)' \cup ByRound(u, x)' \cup BySend(u, x)'
    BY DEF PutKept
  <2>1. replies[u][x] \subseteq ByFetch(u, x) \cup ByRound(u, x) \cup BySend(u, x)
    BY <1>1 DEF IInv, PutKept
  <2>2. ByRound(u, x)' = ByRound(u, x) /\ BySend(u, x)' = BySend(u, x)
    BY <1>1 DEF ByRound, BySend
  <2>3. CASE u = t /\ x = w
    <3>1. ByFetch(t, w) = {how}
      BY <1>1 DEF ByFetch, w, how
    <3> QED BY <1>6, <2>1, <2>2, <2>3, <3>1
  <2>4. CASE u # t \/ x # w
    <3>1. ByFetch(u, x) \subseteq ByFetch(u, x)'
      BY <1>1, <1>3, <2>4 DEF ByFetch, w
    <3> QED BY <1>6, <2>1, <2>2, <2>4, <3>1
  <2> QED BY <2>3, <2>4
<1>9. FetchKept(t)'
  BY <1>1, <1>3 DEF FetchKept, RowKept, Unanswered, Answers
<1>10. owed' \subseteq owed
  BY <1>1
<1>11. \/ row[t].state # "waiting" \/ closed
       \/ fetch[t].at # "asking" /\ (fetch[t].at = "no" \/ ~fetch[t].again)
       \/ fetch'[t].at = "asking" \/ (fetch'[t].at # "no" /\ fetch'[t].again)
  BY <1>1, <1>3
<1> QED BY <1>1, <1>3, <1>5, <1>7, <1>8, <1>9, <1>10, <1>11, OneFetch

-----------------------------------------------------------------------------
(*                            what is settled                               *)

\* One more thing is told for a wait.
LEMMA OneMoreTold ==
  ASSUME told \in [Tasks -> [WaitNumbers -> Seq(Ends)]], told' \in [Tasks -> [WaitNumbers -> Seq(Ends)]],
         NEW t \in Tasks, NEW w \in WaitNumbers, NEW how \in Ends, told'[t][w] = Append(told[t][w], how)
  PROVE  /\ told'[t][w] # <<>>
         /\ how \notin Settled \cup {"empty"} => Answers(t, w)' = Answers(t, w)
         /\ how \in Settled \cup {"empty"} /\ Unanswered(t, w) => Answers(t, w)' = {Len(told[t][w]) + 1}
<1> DEFINE q == told[t][w]
<1>1. q \in Seq(Ends) /\ Len(q) \in Nat
  OBVIOUS
<1>2. told'[t][w] \in Seq(Ends) /\ told'[t][w] = Append(q, how)
  OBVIOUS
<1> HIDE DEF q
<1>3. /\ Append(q, how) # <<>> /\ DOMAIN q = 1..Len(q) /\ DOMAIN Append(q, how) = 1..(Len(q) + 1)
      /\ \A i \in 1..Len(q) : Append(q, how)[i] = q[i]
      /\ Append(q, how)[Len(q) + 1] = how
  BY <1>1, AppendProperties
<1>4. Answers(t, w)' = {i \in 1..(Len(q) + 1) : Append(q, how)[i] \in Settled \cup {"empty"}}
  BY <1>2, <1>3 DEF Answers
<1>5. Answers(t, w) = {i \in 1..Len(q) : q[i] \in Settled \cup {"empty"}}
  BY <1>3 DEF Answers, q
<1>6. 1..(Len(q) + 1) = 1..Len(q) \cup {Len(q) + 1} /\ Len(q) + 1 \notin 1..Len(q)
  BY <1>1
<1>7. ASSUME how \notin Settled \cup {"empty"} PROVE Answers(t, w)' = Answers(t, w)
  BY <1>3, <1>4, <1>5, <1>6, <1>7
<1>8. ASSUME how \in Settled \cup {"empty"}, Unanswered(t, w) PROVE Answers(t, w)' = {Len(q) + 1}
  BY <1>3, <1>4, <1>5, <1>6, <1>8 DEF Unanswered
<1> QED BY <1>2, <1>3, <1>7, <1>8 DEF q

\* The ledger of the letter keeps its runs, and its last reply never moves back.
LEMMA RecordedRun ==
  ASSUME letter \in Letter, NEW run \in 0..MaxRuns, run <= letter.runs, letter.received <= letter.runs, NEW how
  PROVE  /\ Recorded(run, how) \in Letter
         /\ Recorded(run, how).runs = letter.runs /\ Recorded(run, how).due = letter.due
         /\ Recorded(run, how).received <= letter.runs /\ letter.received <= Recorded(run, how).received
<1>1. letter.runs \in 0..MaxRuns /\ letter.received \in 0..MaxRuns /\ letter.failures \in Nat /\ letter.due \in BOOLEAN /\ MaxRuns \in Nat
  BY Bounds DEF Letter
<1> DEFINE r == IF letter.received < run THEN run ELSE letter.received
<1>2. r \in 0..MaxRuns /\ r <= letter.runs /\ letter.received <= r
  BY <1>1
<1>3. letter.failures + 1 \in Nat
  BY <1>1
<1> HIDE DEF r
<1>4. CASE run # 0 /\ how \in {"completed", "empty"}
  <2>1. Recorded(run, how) = [letter EXCEPT !.failures = 0, !.received = r]
    BY <1>4 DEF Recorded, r
  <2>2. Recorded(run, how) \in Letter
    <3>1. Recorded(run, how) = [due |-> letter.due, runs |-> letter.runs, failures |-> 0, received |-> r]
      BY <2>1 DEF Letter
    <3> QED BY <1>1, <1>2, <3>1 DEF Letter
  <2>3. /\ Recorded(run, how).runs = letter.runs /\ Recorded(run, how).due = letter.due
        /\ Recorded(run, how).received = r
    BY <2>1 DEF Letter
  <2> QED BY <1>2, <2>2, <2>3
<1>5. CASE run # 0 /\ how \in {"failed", "gave-up", "gone"}
  <2>1. Recorded(run, how) = [letter EXCEPT !.failures = @ + 1]
    BY <1>5 DEF Recorded
  <2> QED BY <1>1, <1>3, <2>1 DEF Letter
<1>6. CASE run = 0 \/ how \notin {"completed", "empty", "failed", "gave-up", "gone"}
  <2>1. Recorded(run, how) = letter
    BY <1>6 DEF Recorded
  <2> QED BY <1>1, <2>1
<1> QED BY <1>4, <1>5, <1>6

\* A transaction of deliver(): what its rows, what was told and the ledger keep.
LEMMA SettlesKeeps ==
  ASSUME IInv, NEW t \in Tasks, NEW w \in WaitNumbers, NEW how \in Ends, Settles(t, w, how),
         UNCHANGED <<remote, send, sends, replies>>,
         row[t].state # "none", w <= row[t].wait,
         how \in Settled \cup {"empty"} => w = row[t].wait /\ Unanswered(t, w),
         how = "gone" => w = row[t].wait
  PROVE  /\ RequestRowTypes' /\ (\A u \in Tasks : RowKept(u)') /\ LetterKept'
         /\ row'[t].state \in {"completed", "asks", "failed", "gave-up"}
         /\ how \in Given => row'[t].state \in {"gave-up", "failed"}
         /\ row'[t].wait = row[t].wait /\ row'[t].run = row[t].run
         /\ \A u \in Tasks \ {t} : row'[u] = row[u] /\ told'[u] = told[u]
         /\ \A x \in WaitNumbers \ {w} : told'[t][x] = told[t][x]
         /\ told'[t][w] # <<>> /\ (how \notin Settled \cup {"empty"} => Answers(t, w)' = Answers(t, w))
<1>1. /\ row \in [Tasks -> Row] /\ told \in [Tasks -> [WaitNumbers -> Seq(Ends)]] /\ letter \in Letter /\ RowKept(t)
      /\ last \in Tasks \cup {NoTask}
      /\ row[t] \in Row /\ row[t].run <= letter.runs /\ letter.received <= letter.runs /\ row[t].run \in 0..MaxRuns
  BY DEF IInv, RequestRowTypes, LetterKept, Row
<1> DEFINE state == EndOf(how)
<1>2. /\ state \in {"completed", "asks", "failed", "gave-up"} /\ state \in RowStates
      /\ how \in Given => state \in {"gave-up", "failed"}
      /\ how \in {"completed", "asks", "failed", "empty", "gone", "gave-up"}
      /\ state \in Settled => how \in Settled \cup {"empty", "gone"}
  BY DEF EndOf, Ends, Settled, Given, RowStates
<1> HIDE DEF state
<1>3. row' = [row EXCEPT ![t].state = state, ![t].push = FALSE, ![t].placed = @ \/ how = "asks"]
  BY DEF Settles, state
<1>4. PICK placed \in BOOLEAN : placed = (row[t].placed \/ how = "asks")
  OBVIOUS
<1>5. row' = [row EXCEPT ![t] = [row[t] EXCEPT !.state = state, !.push = FALSE, !.placed = placed]]
  BY <1>1, <1>3, <1>4
<1>6. [row[t] EXCEPT !.state = state, !.push = FALSE, !.placed = placed] \in Row
  BY <1>1, <1>2 DEF Row
<1>7. /\ row' \in [Tasks -> Row] /\ row'[t].state = state /\ row'[t].wait = row[t].wait /\ row'[t].run = row[t].run
      /\ \A u \in Tasks \ {t} : row'[u] = row[u]
  BY <1>1, <1>5, <1>6 DEF Row
<1>8. /\ told' \in [Tasks -> [WaitNumbers -> Seq(Ends)]] /\ told'[t][w] = Append(told[t][w], how)
      /\ \A u \in Tasks \ {t} : told'[u] = told[u]
      /\ \A x \in WaitNumbers \ {w} : told'[t][x] = told[t][x]
  <2>1. told' = [told EXCEPT ![t][w] = Append(@, how)]
    BY DEF Settles
  <2>2. Append(told[t][w], how) \in Seq(Ends)
    BY <1>1
  <2> QED BY <1>1, <2>1, <2>2
<1>9. /\ told'[t][w] # <<>>
      /\ how \notin Settled \cup {"empty"} => Answers(t, w)' = Answers(t, w)
      /\ how \in Settled \cup {"empty"} /\ Unanswered(t, w) => Answers(t, w)' = {Len(told[t][w]) + 1}
  BY <1>1, <1>8, OneMoreTold
<1>10. /\ letter' \in Letter /\ letter'.runs = letter.runs /\ letter'.due = letter.due
       /\ letter'.received <= letter.runs
  BY <1>1, RecordedRun DEF Settles
<1>11. RequestRowTypes'
  <2>1. last' \in Tasks \cup {NoTask}
    BY <1>1 DEF Settles
  <2> QED BY <1>7, <1>8, <1>10, <2>1 DEF IInv, RequestRowTypes
<1>12. LetterKept'
  <2>1. \A u \in Tasks : row'[u].run = row[u].run
    BY <1>7
  <2> QED BY <1>10, <2>1 DEF IInv, LetterKept
<1>13. ASSUME NEW u \in Tasks PROVE RowKept(u)'
  <2>1. CASE u # t
    <3>1. RowKept(u) /\ row'[u] = row[u] /\ told'[u] = told[u]
      BY <1>7, <1>8, <2>1 DEF IInv
    <3> QED BY <3>1 DEF RowKept, Unanswered, Answers
  <2>2. CASE u = t
    <3>1. /\ row'[t].state # "none" /\ row'[t].state # "waiting" /\ remote'[t] \in Worked
      BY <1>1, <1>2, <1>7 DEF RowKept
    <3>2. state \in Settled => told'[t][row'[t].wait] # <<>>
      <4>1. ASSUME state \in Settled PROVE w = row[t].wait
        BY <1>2, <4>1
      <4> QED BY <1>7, <1>9, <4>1
    <3>3. \A x \in WaitNumbers : row'[t].wait < x => told'[t][x] = <<>>
      <4>1. ASSUME NEW x \in WaitNumbers, row[t].wait < x PROVE x # w
        <5>1. row[t].wait \in Nat /\ w \in Nat /\ x \in Nat
          BY <1>1, Bounds DEF Row
        <5> QED BY <4>1, <5>1
      <4> QED BY <1>1, <1>7, <1>8, <4>1 DEF RowKept
    <3>4. ASSUME NEW x \in WaitNumbers, NEW i \in Answers(t, x)', NEW j \in Answers(t, x)' PROVE i = j
      <4>1. CASE x # w
        <5>1. Answers(t, x)' = Answers(t, x)
          BY <1>8, <4>1 DEF Answers
        <5> QED BY <1>1, <3>4, <5>1 DEF RowKept
      <4>2. CASE x = w /\ how \in Settled \cup {"empty"}
        <5>1. Answers(t, x)' = {Len(told[t][w]) + 1}
          BY <1>9, <4>2 DEF Answers
        <5> QED BY <3>4, <5>1
      <4>3. CASE x = w /\ how \notin Settled \cup {"empty"}
        <5>1. Answers(t, x)' = Answers(t, x)
          BY <1>9, <4>3 DEF Answers
        <5> QED BY <1>1, <3>4, <5>1 DEF RowKept
      <4> QED BY <4>1, <4>2, <4>3
    <3>5. remote'[t] # "none"
      BY <3>1 DEF Worked
    <3> QED BY <1>7, <2>2, <3>1, <3>2, <3>3, <3>4, <3>5 DEF RowKept
  <2> QED BY <2>1, <2>2
<1> QED BY <1>2, <1>7, <1>8, <1>9, <1>11, <1>12, <1>13

\* What a round took of the rows is as true as it was while the waits stay.
LEMMA TurnsKept ==
  ASSUME UNCHANGED known, \A u \in Tasks : row'[u].wait = row[u].wait /\ (row[u].state # "none" => row'[u].state # "none")
  PROVE  \A r \in Turn : TurnKept(r) => TurnKept(r)'
  BY DEF TurnKept

\* A push is seen to, where a row that stops waiting needs nothing more of it.
LEMMA RingsOfSettled ==
  ASSUME IInv, NEW t \in Tasks, row'[t].state # "waiting", \A u \in Tasks \ {t} : row'[u] = row[u] /\ fetch'[u] = fetch[u],
         UNCHANGED <<remote, send, closed, owed>>
  PROVE  RingKept'
<1> SUFFICES ASSUME NEW u \in owed'
             PROVE  /\ remote'[u] \in Worked
                    /\ \A s \in Senders : send'[s].at # "idle" /\ send'[s].task = u => send'[s].push /\ send'[s].rung
                    /\ \/ Sending(u)' # {} \/ row'[u].state # "waiting" \/ closed'
                       \/ fetch'[u].at = "asking" \/ (fetch'[u].at # "no" /\ fetch'[u].again)
  BY DEF RingKept
<1>1. Sending(u)' = Sending(u) /\ u \in Tasks
  BY DEF Sending, IInv, WorkTypes
<1> QED BY <1>1 DEF IInv, RingKept

\* An answer is told: the fetch is over.
LEMMA RequestsCommit ==
  ASSUME IInv, NEW t \in Tasks, FetchCommits(t) PROVE IInv'
<1> DEFINE w == fetch[t].wait
           how == HowOf(fetch[t].got)
<1>1. /\ fetch[t].at = "put" \/ (fetch[t].at = "read" /\ fetch[t].got = "empty")
      /\ Settles(t, w, how) /\ FetchOver(t)
      /\ UNCHANGED <<replies, remote, send, round, closed, owed, known, sends, killed, faults>>
      /\ fetch \in [Tasks -> Fetch] /\ recent \subseteq Tasks /\ FetchKept(t) /\ w \in WaitNumbers
  BY DEF FetchCommits, IInv, WorkTypes, Fetch
<1>2. how \in Settled \cup {"empty"} /\ how \in Ends /\ how # "gone"
  BY <1>1, FetchedHow DEF Settled
<1>3. row[t].state # "none" /\ w = row[t].wait /\ w <= row[t].wait /\ Unanswered(t, w)
  <2>1. row[t].state # "none" /\ w = row[t].wait /\ Unanswered(t, w)
    BY <1>1 DEF FetchKept, Unanswered, Answers
  <2>2. w \in Nat
    BY <1>1, Bounds
  <2> QED BY <2>1, <2>2
<1>4. /\ RequestRowTypes' /\ (\A u \in Tasks : RowKept(u)') /\ LetterKept'
      /\ row'[t].state \in {"completed", "asks", "failed", "gave-up"}
      /\ row'[t].wait = row[t].wait
      /\ \A u \in Tasks \ {t} : row'[u] = row[u] /\ told'[u] = told[u]
      /\ \A x \in WaitNumbers \ {w} : told'[t][x] = told[t][x]
      /\ told'[t][w] # <<>>
  <2> HIDE DEF w, how
  <2> QED BY <1>1, <1>2, <1>3, SettlesKeeps
<1>5. /\ fetch' \in [Tasks -> Fetch] /\ recent' \subseteq Tasks /\ fetch'[t].at = "no"
      /\ \A u \in Tasks \ {t} : fetch'[u] = fetch[u]
  <2>1. row' \in [Tasks -> Row]
    BY <1>4 DEF RequestRowTypes
  <2>2. /\ fetch' \in [Tasks -> Fetch] /\ recent' \subseteq Tasks
        /\ \A u \in Tasks \ {t} : fetch'[u] = fetch[u]
        /\ fetch'[t].at \in {"no", "asking"}
        /\ fetch'[t].at = "asking" => row'[t].state = "waiting"
    BY <1>1, <2>1, OverOrAgain
  <2> QED BY <1>4, <2>2
<1>6. WorkTypes'
  BY <1>1, <1>5 DEF IInv, WorkTypes
<1>7. \A u \in Tasks : FetchKept(u)'
  <2>1. ASSUME NEW u \in Tasks, u # t PROVE FetchKept(u)'
    <3>1. FetchKept(u) /\ fetch'[u] = fetch[u] /\ row'[u] = row[u] /\ told'[u] = told[u]
      BY <1>4, <1>5, <2>1 DEF IInv
    <3> QED BY <3>1 DEF FetchKept, Unanswered, Answers
  <2>2. FetchKept(t)'
    BY <1>5 DEF FetchKept
  <2> QED BY <2>1, <2>2
<1>8. (\A s \in Senders : SendKept(s)') /\ SendsApart'
  <2>1. SendsApart'
    BY <1>1 DEF IInv, SendsApart
  <2>2. ASSUME NEW s \in Senders PROVE SendKept(s)'
    <3>1. SendKept(s) /\ send'[s] = send[s] /\ UNCHANGED <<remote, known>>
      BY <1>1 DEF IInv
    <3>2. CASE send[s].at = "idle"
      BY <3>1, <3>2 DEF SendKept
    <3>3. CASE send[s].at # "idle"
      <4>1. send[s].task \in Tasks /\ send[s].task # t
        BY <1>1, <1>3, <3>1, <3>3 DEF SendKept
      <4>2. /\ row'[send[s].task] = row[send[s].task] /\ told'[send[s].task] = told[send[s].task]
            /\ fetch'[send[s].task] = fetch[send[s].task]
        BY <1>4, <1>5, <4>1
      <4> QED BY <3>1, <3>3, <4>2 DEF SendKept
    <3> QED BY <3>2, <3>3
  <2> QED BY <2>1, <2>2
<1>9. RoundKept'
  <2>1. \A u \in Tasks : row'[u].wait = row[u].wait /\ (row[u].state # "none" => row'[u].state # "none")
    BY <1>4
  <2>2. \A r \in Turn : TurnKept(r) => TurnKept(r)'
    BY <1>1, <2>1, TurnsKept
  <2>3. round.todo \subseteq Turn /\ round.cur \in Turn
    BY DEF IInv, WorkTypes
  <2> QED BY <1>1, <2>2, <2>3 DEF IInv, RoundKept
<1>10. RingKept'
  <2>1. row'[t].state # "waiting"
    BY <1>4
  <2> QED BY <1>1, <1>4, <1>5, <2>1, RingsOfSettled
<1>11. PutKept'
  <2> SUFFICES ASSUME ~killed', NEW u \in Tasks, NEW x \in WaitNumbers, told'[u][x] = <<>>
               PROVE  replies'[u][x] \subseteq ByFetch(u, x)' \cup ByRound(u, x)' \cup BySend(u, x)'
    BY DEF PutKept
  <2>1. u # t \/ x # w
    BY <1>4
  <2>2. told[u][x] = <<>>
    BY <1>4, <2>1
  <2>3. replies[u][x] \subseteq ByFetch(u, x) \cup ByRound(u, x) \cup BySend(u, x)
    BY <1>1, <2>2 DEF IInv, PutKept
  <2>4. ByRound(u, x)' = ByRound(u, x) /\ BySend(u, x)' = BySend(u, x)
    BY <1>1 DEF ByRound, BySend
  <2>5. ByFetch(u, x) \subseteq ByFetch(u, x)'
    BY <1>5, <2>1 DEF ByFetch
  <2> QED BY <1>1, <2>3, <2>4, <2>5
<1> QED BY <1>4, <1>6, <1>7, <1>8, <1>9, <1>10, <1>11 DEF IInv

\* A task is given up, or its agent is gone: what was under way for it goes on.
LEMMA GivenStep ==
  ASSUME IInv, RoundCommits PROVE IInv'
<1>0. PICK t \in Tasks, w \in WaitNumbers, how \in Given : t = round.cur.task /\ w = round.cur.wait /\ how = round.how
  <2>1. round.at = "giving"
    BY DEF RoundCommits
  <2> QED BY <2>1 DEF IInv, WorkTypes, RoundKept, TurnKept, Turn
<1>1. /\ round.at = "giving" /\ Settles(t, w, how)
      /\ UNCHANGED <<replies, remote, send, fetch, recent, closed, owed, known, sends, killed, faults>>
      /\ round' = [round EXCEPT !.at = "next", !.cur = NoTurn, !.how = "none"]
      /\ round.cur \in Turn /\ round.todo \subseteq Turn /\ TurnKept(round.cur) /\ how \in Given /\ (how = "gone" => ~known)
      /\ \A r \in round.todo : TurnKept(r)
  BY <1>0 DEF RoundCommits, IInv, WorkTypes, RoundKept
<1>2. t \in Tasks /\ w \in WaitNumbers /\ how \in Ends /\ how \notin Settled \cup {"empty"}
  BY DEF Given, Ends, Settled
<1>3. row[t].state # "none" /\ w <= row[t].wait /\ (how = "gone" => w = row[t].wait)
  BY <1>0, <1>1 DEF TurnKept
<1>4. /\ RequestRowTypes' /\ (\A u \in Tasks : RowKept(u)') /\ LetterKept'
      /\ row'[t].state \in {"gave-up", "failed"}
      /\ row'[t].wait = row[t].wait
      /\ \A u \in Tasks \ {t} : row'[u] = row[u] /\ told'[u] = told[u]
      /\ \A x \in WaitNumbers \ {w} : told'[t][x] = told[t][x]
      /\ told'[t][w] # <<>> /\ Answers(t, w)' = Answers(t, w)
  BY <1>1, <1>2, <1>3, SettlesKeeps
<1>5. /\ round' \in [at : {"no", "next", "fetching", "giving"}, todo : SUBSET Turn, cur : Turn, how : Given \cup {"none"}]
      /\ round'.at = "next" /\ round'.todo = round.todo
  <2>1. NoTurn \in Turn
    BY Bounds DEF NoTurn, Turn
  <2> QED BY <1>1, <2>1 DEF IInv, WorkTypes
<1>6. WorkTypes'
  BY <1>1, <1>5 DEF IInv, WorkTypes
<1>7. \A u \in Tasks : FetchKept(u)'
  <2>1. ASSUME NEW u \in Tasks, u # t PROVE FetchKept(u)'
    <3>1. FetchKept(u) /\ fetch'[u] = fetch[u] /\ row'[u] = row[u] /\ told'[u] = told[u]
      BY <1>1, <1>4, <2>1 DEF IInv
    <3> QED BY <3>1 DEF FetchKept, Unanswered, Answers
  <2>2. FetchKept(t)'
    <3>1. FetchKept(t) /\ fetch'[t] = fetch[t]
      BY <1>1, <1>2 DEF IInv
    <3>2. \A x \in WaitNumbers : Answers(t, x)' = Answers(t, x)
      BY <1>4 DEF Answers
    <3>3. PICK x \in WaitNumbers : x = row[t].wait
      BY <1>2 DEF IInv, RequestRowTypes, Row
    <3>4. row'[t].wait = x /\ (Unanswered(t, x) => Unanswered(t, x)')
      BY <1>4, <3>2, <3>3 DEF Unanswered
    <3>5. Unanswered(t, row[t].wait) => Unanswered(t, row[t].wait)'
      BY <3>3, <3>4 DEF Unanswered, Answers
    <3> QED BY <1>4, <3>1, <3>5 DEF FetchKept
  <2> QED BY <2>1, <2>2
<1>8. (\A s \in Senders : SendKept(s)') /\ SendsApart'
  <2>1. SendsApart'
    BY <1>1 DEF IInv, SendsApart
  <2>2. ASSUME NEW s \in Senders PROVE SendKept(s)'
    <3>1. SendKept(s) /\ send'[s] = send[s] /\ UNCHANGED <<remote, known, fetch>>
      BY <1>1 DEF IInv
    <3>2. CASE send[s].at = "idle"
      BY <3>1, <3>2 DEF SendKept
    <3>3. CASE send[s].at # "idle" /\ send[s].task # t
      <4>1. row'[send[s].task] = row[send[s].task] /\ told'[send[s].task] = told[send[s].task]
        BY <1>4, <3>1, <3>3 DEF SendKept
      <4> QED BY <3>1, <3>3, <4>1 DEF SendKept
    <3>4. CASE send[s].at # "idle" /\ send[s].task = t
      <4>1. send[s].wait # 1
        BY <1>3, <3>1, <3>4 DEF SendKept
      <4> QED BY <1>4, <3>1, <3>4, <4>1 DEF SendKept
    <3> QED BY <3>2, <3>3, <3>4
  <2> QED BY <2>1, <2>2
<1>9. RoundKept'
  <2>1. \A u \in Tasks : row'[u].wait = row[u].wait /\ (row[u].state # "none" => row'[u].state # "none")
    BY <1>4
  <2>2. \A r \in Turn : TurnKept(r) => TurnKept(r)'
    BY <1>1, <2>1, TurnsKept
  <2> QED BY <1>1, <1>5, <2>2 DEF RoundKept
<1>10. RingKept'
  <2>1. row'[t].state # "waiting"
    BY <1>4
  <2> QED BY <1>1, <1>2, <1>4, <2>1, RingsOfSettled
<1>11. PutKept'
  <2> SUFFICES ASSUME ~killed', NEW u \in Tasks, NEW x \in WaitNumbers, told'[u][x] = <<>>
               PROVE  replies'[u][x] \subseteq ByFetch(u, x)' \cup ByRound(u, x)' \cup BySend(u, x)'
    BY DEF PutKept
  <2>1. u # t \/ x # w
    BY <1>4
  <2>2. told[u][x] = <<>>
    BY <1>4, <2>1
  <2>3. replies[u][x] \subseteq ByFetch(u, x) \cup ByRound(u, x) \cup BySend(u, x)
    BY <1>1, <2>2 DEF IInv, PutKept
  <2>4. ByFetch(u, x)' = ByFetch(u, x) /\ BySend(u, x)' = BySend(u, x)
    BY <1>1 DEF ByFetch, BySend
  <2>5. ByRound(u, x) = {}
    BY <1>0, <2>1 DEF ByRound
  <2> QED BY <1>1, <2>3, <2>4, <2>5
<1> QED BY <1>4, <1>6, <1>7, <1>8, <1>9, <1>10, <1>11 DEF IInv

-----------------------------------------------------------------------------
(*                           the pushes and the rounds                      *)

\* A fetch that is asked for: once more after the one under way, or now.
LEMMA AskedFor ==
  ASSUME NEW t \in Tasks, NEW rung \in BOOLEAN, fetch \in [Tasks -> Fetch], row \in [Tasks -> Row], recent \subseteq Tasks,
         Fetches(t, rung)
  PROVE  /\ fetch' \in [Tasks -> Fetch] /\ recent' \subseteq Tasks
         /\ \A u \in Tasks \ {t} : fetch'[u] = fetch[u]
         /\ fetch[t].at # "no" => /\ fetch'[t].at = fetch[t].at /\ fetch'[t].wait = fetch[t].wait /\ fetch'[t].got = fetch[t].got
                                  /\ fetch'[t].again = (fetch[t].again \/ rung)
         /\ fetch[t].at = "no" => \/ fetch'[t] = fetch[t] /\ ~(row[t].state = "waiting" /\ ~closed)
                                  \/ /\ row[t].state = "waiting"
                                     /\ fetch'[t].at = "asking" /\ fetch'[t].wait = row[t].wait
<1>1. CASE fetch[t].at # "no"
  <2>1. PICK again \in BOOLEAN : again = (fetch[t].again \/ rung)
    OBVIOUS
  <2>2. fetch' = [fetch EXCEPT ![t].again = @ \/ rung] /\ recent' = recent
    BY <1>1 DEF Fetches
  <2>3. fetch' = [fetch EXCEPT ![t] = [fetch[t] EXCEPT !.again = again]]
    BY <2>1, <2>2
  <2>4. [fetch[t] EXCEPT !.again = again] \in Fetch
    BY DEF Fetch
  <2> QED BY <1>1, <2>1, <2>2, <2>3, <2>4 DEF Fetch
<1>2. CASE fetch[t].at = "no" /\ row[t].state = "waiting" /\ ~closed
  <2> DEFINE new == [NoFetch EXCEPT !.at = "asking", !.wait = row[t].wait]
  <2>1. fetch' = [fetch EXCEPT ![t] = new] /\ recent' = recent \cup ({t} \cap Pushing)
    BY <1>2 DEF Fetches
  <2>2. row[t].wait \in WaitNumbers
    BY DEF Row
  <2>3. new \in Fetch /\ new.at = "asking" /\ new.wait = row[t].wait
    BY <2>2 DEF NoFetch, Fetch, Worked
  <2> HIDE DEF new
  <2> QED BY <1>2, <2>1, <2>3
<1>3. CASE fetch[t].at = "no" /\ ~(row[t].state = "waiting" /\ ~closed)
  <2>1. UNCHANGED <<fetch, recent>>
    BY <1>3 DEF Fetches
  <2> QED BY <1>3, <2>1
<1> QED BY <1>1, <1>2, <1>3

\* And is then for the wait of its row.
LEMMA AskedForKept ==
  ASSUME IInv, NEW t \in Tasks, NEW rung \in BOOLEAN, Fetches(t, rung), UNCHANGED <<row, told>>
  PROVE  FetchKept(t)'
<1>1. fetch \in [Tasks -> Fetch] /\ row \in [Tasks -> Row] /\ recent \subseteq Tasks /\ FetchKept(t) /\ RowKept(t)
  BY DEF IInv, WorkTypes, RequestRowTypes
<1>2. /\ fetch[t].at # "no" => /\ fetch'[t].at = fetch[t].at /\ fetch'[t].wait = fetch[t].wait /\ fetch'[t].got = fetch[t].got
      /\ fetch[t].at = "no" => \/ fetch'[t] = fetch[t]
                               \/ row[t].state = "waiting" /\ fetch'[t].at = "asking" /\ fetch'[t].wait = row[t].wait
  BY <1>1, AskedFor
<1> QED BY <1>1, <1>2 DEF FetchKept, RowKept, Unanswered, Answers

\* A push that rings a fetch of a waiting task.
LEMMA PushFetches ==
  ASSUME IInv, NEW t \in Tasks, Push(t), Sending(t) = {} PROVE IInv'
<1>1. /\ remote[t] \in Worked /\ ~closed /\ row[t].state = "waiting" /\ Fetches(t, TRUE) /\ owed' = owed \cup {t}
      /\ UNCHANGED <<row, last, told, replies, letter, remote, send, round, closed, known, sends, killed, faults>>
      /\ fetch \in [Tasks -> Fetch] /\ row \in [Tasks -> Row] /\ recent \subseteq Tasks
  BY DEF Push, durable, Worked, IInv, WorkTypes, RequestRowTypes
<1>2. /\ fetch' \in [Tasks -> Fetch] /\ recent' \subseteq Tasks
      /\ \A u \in Tasks \ {t} : fetch'[u] = fetch[u]
      /\ fetch[t].at # "no" => /\ fetch'[t].at = fetch[t].at /\ fetch'[t].wait = fetch[t].wait /\ fetch'[t].got = fetch[t].got
                               /\ fetch'[t].again = (fetch[t].again \/ TRUE)
      /\ fetch[t].at = "no" => \/ fetch'[t] = fetch[t] /\ ~(row[t].state = "waiting" /\ ~closed)
                               \/ /\ row[t].state = "waiting"
                                  /\ fetch'[t].at = "asking" /\ fetch'[t].wait = row[t].wait
  BY <1>1, AskedFor
<1>3. FetchKept(t)'
  BY <1>1, AskedForKept
<1>4. /\ \A u \in Tasks : RowKept(u)' /\ FetchKept(u)'
      /\ (\A s \in Senders : SendKept(s)') /\ SendsApart' /\ LetterKept'
  BY <1>1, <1>2, <1>3, FetchRows
<1>5. RequestRowTypes' /\ WorkTypes' /\ RoundKept'
  <2>1. WorkTypes'
    BY <1>1, <1>2 DEF IInv, WorkTypes
  <2> QED BY <1>1, <2>1, RowTypesAsBefore, RoundAsBefore
<1>6. PutKept'
  <2>1. \A u \in Tasks : fetch[u].at = "put" => fetch'[u].at = "put" /\ fetch'[u].wait = fetch[u].wait /\ fetch'[u].got = fetch[u].got
    BY <1>2
  <2> QED BY <1>1, <2>1, PutsAsBefore
<1>7. RingKept'
  <2> SUFFICES ASSUME NEW u \in owed'
               PROVE  /\ remote'[u] \in Worked
                      /\ \A s \in Senders : send'[s].at # "idle" /\ send'[s].task = u => send'[s].push /\ send'[s].rung
                      /\ \/ Sending(u)' # {} \/ row'[u].state # "waiting" \/ closed'
                         \/ fetch'[u].at = "asking" \/ (fetch'[u].at # "no" /\ fetch'[u].again)
    BY DEF RingKept
  <2>1. CASE u = t
    <3>1. \A s \in Senders : ~(send[s].at # "idle" /\ send[s].task = t)
      BY <1>1 DEF IInv, SendKept
    <3> QED BY <1>1, <1>2, <2>1, <3>1
  <2>2. CASE u # t
    <3>1. u \in owed /\ u \in Tasks /\ Sending(u)' = Sending(u) /\ fetch'[u] = fetch[u]
      BY <1>1, <1>2, <2>2 DEF Sending, IInv, WorkTypes
    <3> QED BY <1>1, <3>1 DEF IInv, RingKept
  <2> QED BY <2>1, <2>2
<1> QED BY <1>4, <1>5, <1>6, <1>7 DEF IInv

\* A push that comes before what it is about was recorded.
LEMMA PushRings ==
  ASSUME IInv, NEW t \in Tasks, Push(t), Sending(t) # {} PROVE IInv'
<1>1. /\ remote[t] \in Worked /\ owed' = owed \cup {t}
      /\ send' = [s \in Senders |-> IF s \in Sending(t) THEN [send[s] EXCEPT !.rung = TRUE] ELSE send[s]]
      /\ UNCHANGED <<row, last, told, replies, letter, remote, fetch, recent, round, closed, known, sends, killed, faults>>
      /\ send \in [Senders -> Send]
  BY DEF Push, durable, Worked, IInv, WorkTypes
<1>2. /\ send' \in [Senders -> Send]
      /\ \A s \in Senders : /\ send'[s].at = send[s].at /\ send'[s].task = send[s].task /\ send'[s].wait = send[s].wait
                            /\ send'[s].push = send[s].push /\ send'[s].run = send[s].run
                            /\ send'[s].rung = IF s \in Sending(t) THEN TRUE ELSE send[s].rung
  BY <1>1 DEF Send
<1>3. RequestRowTypes' /\ WorkTypes' /\ RoundKept'
  <2>1. WorkTypes'
    BY <1>1, <1>2 DEF IInv, WorkTypes
  <2> QED BY <1>1, <2>1, RowTypesAsBefore, RoundAsBefore
<1>4. \A u \in Tasks : RowKept(u)' /\ FetchKept(u)'
  BY <1>1, RowsAsBefore, FetchesAsBefore
<1>5. SendsApart'
  BY <1>2, ZenonT(90) DEF IInv, SendsApart
<1>6. ASSUME NEW s \in Senders PROVE SendKept(s)'
  <2>1. SendKept(s)
    BY DEF IInv
  <2> QED BY <1>1, <1>2, <2>1 DEF SendKept
<1>7. LetterKept'
  <2>1. "postbox" \in Senders
    BY DEF Senders
  <2> QED BY <1>1, <1>2, <2>1 DEF IInv, LetterKept
<1>8. PutKept'
  BY <1>1, <1>2, PutsAsBefore
<1>9. RingKept'
  <2> SUFFICES ASSUME NEW u \in owed'
               PROVE  /\ remote'[u] \in Worked
                      /\ \A s \in Senders : send'[s].at # "idle" /\ send'[s].task = u => send'[s].push /\ send'[s].rung
                      /\ \/ Sending(u)' # {} \/ row'[u].state # "waiting" \/ closed'
                         \/ fetch'[u].at = "asking" \/ (fetch'[u].at # "no" /\ fetch'[u].again)
    BY DEF RingKept
  <2>1. Sending(u)' = Sending(u)
    BY <1>2 DEF Sending
  <2>2. CASE u = t
    <3>1. PICK z \in Senders : z \in Sending(t) /\ send[z].at # "idle" /\ send[z].task = t /\ send[z].push
      BY DEF Sending
    <3>2. \A s \in Senders : send[s].at # "idle" /\ send[s].task = t => s = z
      BY <3>1 DEF IInv, SendsApart
    <3>3. \A s \in Senders : send'[s].at # "idle" /\ send'[s].task = t => send'[s].push /\ send'[s].rung
      BY <1>2, <3>1, <3>2
    <3> QED BY <1>1, <2>1, <2>2, <3>1, <3>3
  <2>3. CASE u # t
    <3>1. u \in owed
      BY <1>1, <2>3
    <3> QED BY <1>1, <1>2, <2>1, <3>1 DEF IInv, RingKept
  <2> QED BY <2>2, <2>3
<1> QED BY <1>3, <1>4, <1>5, <1>6, <1>7, <1>8, <1>9 DEF IInv

\* A step that touches only the round, the interval, the limits or the stop.
LEMMA AsideStep ==
  ASSUME IInv, WorkTypes', RoundKept', UNCHANGED <<row, last, told, replies, letter, remote, send, fetch, known, sends, killed, owed>>,
         closed => closed', round.at = "giving" => UNCHANGED round
  PROVE  IInv'
<1>1. RequestRowTypes'
  BY RowTypesAsBefore
<1>2. \A t \in Tasks : RowKept(t)' /\ FetchKept(t)'
  BY RowsAsBefore, FetchesAsBefore
<1>3. (\A s \in Senders : SendKept(s)') /\ SendsApart'
  BY SendsAsBefore
<1>4. LetterKept' /\ PutKept'
  BY LetterAsBefore, PutsAsBefore
<1>5. RingKept'
  <2>1. \A t \in Tasks : Sending(t)' = Sending(t)
    BY DEF Sending
  <2> QED BY <2>1 DEF IInv, RingKept, WorkTypes
<1> QED BY <1>1, <1>2, <1>3, <1>4, <1>5 DEF IInv

\* Time, and the stop that begins.
LEMMA TimeStep ==
  ASSUME IInv, (\E t \in Tasks : IntervalPasses(t) \/ LimitPasses(t)) \/ Close PROVE IInv'
<1>1. /\ UNCHANGED <<row, last, told, replies, letter, remote, send, fetch, round, known, sends, killed, owed>>
      /\ recent' \subseteq recent /\ (closed' = closed \/ closed' = TRUE) /\ (Fault \/ UNCHANGED faults)
  BY DEF IntervalPasses, LimitPasses, Close, durable, unsaved
<1>2. WorkTypes'
  <2>1. faults' \in 0..MaxFaults
    BY <1>1, FaultCounted DEF IInv, WorkTypes
  <2> QED BY <1>1, <2>1 DEF IInv, WorkTypes
<1>3. RoundKept'
  BY <1>1, RoundAsBefore
<1> QED BY <1>1, <1>2, <1>3, AsideStep

\* A round begins, passes a task over, and goes on.
LEMMA RoundStep ==
  ASSUME IInv, RoundBegins \/ RoundGoesOn \/ RoundEnds \/ \E r \in round.todo : RoundSkips(r) PROVE IInv'
<1>1. /\ UNCHANGED <<row, last, told, replies, letter, remote, send, fetch, recent, closed, known, sends, killed, owed, faults>>
      /\ round.at # "giving" /\ round.todo \subseteq Turn /\ round.cur \in Turn /\ row \in [Tasks -> Row]
      /\ \A r \in round.todo : TurnKept(r)
  BY DEF RoundBegins, RoundGoesOn, RoundEnds, RoundSkips, durable, IInv, WorkTypes, RequestRowTypes, RoundKept
<1>2. NoTurn \in Turn
  BY Bounds DEF NoTurn, Turn
<1>3. \A r \in Turn : TurnKept(r) => TurnKept(r)'
  BY <1>1, TurnsKept
<1> DEFINE Rounds == [at : {"no", "next", "fetching", "giving"}, todo : SUBSET Turn, cur : Turn, how : Given \cup {"none"}]
<1>4. round' \in Rounds /\ RoundKept'
  <2>1. CASE RoundBegins
    <3> DEFINE todo == {[task |-> t, wait |-> row[t].wait, push |-> row[t].push] : t \in {u \in Tasks : row[u].state = "waiting"}}
    <3>1. round' = [NoRound EXCEPT !.at = "next", !.todo = todo]
      BY <2>1 DEF RoundBegins
    <3>2. todo \subseteq Turn
      BY <1>1 DEF Turn, Row
    <3>3. \A r \in todo : TurnKept(r)'
      <4> SUFFICES ASSUME NEW t \in Tasks, row[t].state = "waiting"
                   PROVE  LET r == [task |-> t, wait |-> row[t].wait, push |-> row[t].push] IN
                          /\ r.task \in Tasks /\ row'[r.task].state # "none" /\ r.wait <= row'[r.task].wait
                          /\ ~known' => r.wait = row'[r.task].wait
        BY DEF TurnKept
      <4>1. row[t].wait \in Nat
        BY <1>1, Bounds DEF Row
      <4> QED BY <1>1, <4>1
    <3> HIDE DEF todo
    <3>4. round'.at = "next" /\ round'.todo = todo /\ round' \in Rounds
      BY <1>2, <3>1, <3>2 DEF NoRound
    <3> QED BY <3>3, <3>4 DEF RoundKept
  <2>2. CASE RoundGoesOn
    <3>1. round' = [round EXCEPT !.at = "next", !.cur = NoTurn]
      BY <2>2 DEF RoundGoesOn
    <3>2. round'.at = "next" /\ round'.todo = round.todo /\ round' \in Rounds
      BY <1>2, <3>1 DEF IInv, WorkTypes
    <3> QED BY <1>1, <1>3, <3>2 DEF RoundKept
  <2>3. CASE RoundEnds
    <3>1. round' = NoRound
      BY <2>3 DEF RoundEnds
    <3>2. round'.at = "no" /\ round'.todo = {} /\ round' \in Rounds
      BY <1>2, <3>1 DEF NoRound
    <3> QED BY <3>2 DEF RoundKept
  <2>4. ASSUME NEW r \in round.todo, RoundSkips(r) PROVE round' \in Rounds /\ RoundKept'
    <3>1. round' = [round EXCEPT !.todo = @ \ {r}] /\ round.at = "next"
      BY <2>4 DEF RoundSkips
    <3>2. round'.at = "next" /\ round'.todo \subseteq round.todo /\ round' \in Rounds
      BY <1>1, <3>1 DEF IInv, WorkTypes
    <3> QED BY <1>1, <1>3, <3>2 DEF RoundKept
  <2> QED BY <2>1, <2>2, <2>3, <2>4
<1>5. WorkTypes'
  BY <1>1, <1>4 DEF IInv, WorkTypes
<1> QED BY <1>1, <1>4, <1>5, AsideStep

\* A round fetches a task it took.
LEMMA RoundFetchStep ==
  ASSUME IInv, NEW r \in round.todo, RoundFetches(r) PROVE IInv'
<1>1. /\ Fetches(r.task, FALSE) /\ round.at = "next" /\ round' = [round EXCEPT !.todo = @ \ {r}, !.at = "fetching", !.cur = r]
      /\ UNCHANGED <<row, last, told, replies, letter, remote, send, closed, owed, known, sends, killed, faults>>
      /\ round.todo \subseteq Turn /\ \A x \in round.todo : TurnKept(x)
  BY DEF RoundFetches, durable, IInv, RoundKept, WorkTypes
<1>2. PICK t \in Tasks : t = r.task
  BY <1>1 DEF TurnKept
<1>3. /\ Fetches(t, FALSE) /\ fetch \in [Tasks -> Fetch] /\ row \in [Tasks -> Row] /\ recent \subseteq Tasks
  BY <1>1, <1>2 DEF IInv, WorkTypes, RequestRowTypes
<1>4. /\ fetch' \in [Tasks -> Fetch] /\ recent' \subseteq Tasks
      /\ \A u \in Tasks \ {t} : fetch'[u] = fetch[u]
      /\ fetch[t].at # "no" => /\ fetch'[t].at = fetch[t].at /\ fetch'[t].wait = fetch[t].wait /\ fetch'[t].got = fetch[t].got
                               /\ fetch'[t].again = (fetch[t].again \/ FALSE)
      /\ fetch[t].at = "no" => \/ fetch'[t] = fetch[t] /\ ~(row[t].state = "waiting" /\ ~closed)
                               \/ /\ row[t].state = "waiting"
                                  /\ fetch'[t].at = "asking" /\ fetch'[t].wait = row[t].wait
  BY <1>3, AskedFor
<1>5. FetchKept(t)'
  BY <1>1, <1>3, AskedForKept
<1>6. /\ \A u \in Tasks : RowKept(u)' /\ FetchKept(u)'
      /\ (\A s \in Senders : SendKept(s)') /\ SendsApart' /\ LetterKept'
  BY <1>1, <1>4, <1>5, FetchRows
<1>7. /\ round' \in [at : {"no", "next", "fetching", "giving"}, todo : SUBSET Turn, cur : Turn, how : Given \cup {"none"}]
      /\ round'.at = "fetching" /\ round'.todo \subseteq round.todo /\ round'.cur = r
  BY <1>1 DEF IInv, WorkTypes
<1>8. RequestRowTypes' /\ WorkTypes'
  <2>1. WorkTypes'
    BY <1>1, <1>4, <1>7 DEF IInv, WorkTypes
  <2> QED BY <1>1, <2>1, RowTypesAsBefore
<1>9. RoundKept'
  <2>1. \A x \in Turn : TurnKept(x) => TurnKept(x)'
    BY <1>1, TurnsKept
  <2>2. round'.at # "no" /\ round'.at # "giving"
    BY <1>7
  <2>3. TurnKept(round.cur)'
    BY <1>1, <1>7, <2>1 DEF TurnKept
  <2>4. \A x \in round'.todo : TurnKept(x)'
    BY <1>1, <1>7, <2>1
  <2> QED BY <2>2, <2>3, <2>4 DEF RoundKept
<1>10. PutKept'
  <2>1. \A u \in Tasks : fetch[u].at = "put" => fetch'[u].at = "put" /\ fetch'[u].wait = fetch[u].wait /\ fetch'[u].got = fetch[u].got
    BY <1>4
  <2> QED BY <1>1, <2>1, PutsAsBefore
<1>11. RingKept'
  <2>1. ASSUME NEW u \in owed', row[u].state = "waiting", ~closed, fetch[u].at = "asking" \/ (fetch[u].at # "no" /\ fetch[u].again)
        PROVE  fetch'[u].at = "asking" \/ (fetch'[u].at # "no" /\ fetch'[u].again)
    <3>1. u \in Tasks
      BY <1>1 DEF IInv, WorkTypes
    <3> QED BY <1>4, <2>1, <3>1
  <2> QED BY <1>1, <2>1, RingsAsBefore
<1> QED BY <1>6, <1>8, <1>9, <1>10, <1>11 DEF IInv

\* A round puts what it gives a task: that it was given up, or that its agent is gone.
LEMMA GiveStep ==
  ASSUME IInv, NEW r \in round.todo, RoundGives(r) PROVE IInv'
<1>1. /\ round.at = "next" /\ GivesUp(r) /\ PutFiles(r.task, r.wait, HowGiven(r))
      /\ round' = [round EXCEPT !.todo = @ \ {r}, !.at = "giving", !.cur = r, !.how = HowGiven(r)]
      /\ UNCHANGED <<row, last, told, letter, remote, send, fetch, recent, closed, owed, old, known, sends, killed, faults>>
      /\ round.todo \subseteq Turn /\ r \in Turn /\ \A x \in round.todo : TurnKept(x)
      /\ replies \in [Tasks -> [WaitNumbers -> SUBSET (Ends \ {"empty"})]]
  BY DEF RoundGives, IInv, RoundKept, WorkTypes, RequestRowTypes
<1>2. PICK t \in Tasks, w \in WaitNumbers, how \in Given : t = r.task /\ w = r.wait /\ how = HowGiven(r) /\ (how = "gone" => ~known)
  <2>1. r.task \in Tasks /\ r.wait \in WaitNumbers
    BY <1>1 DEF TurnKept, Turn
  <2>2. HowGiven(r) \in Given /\ (HowGiven(r) = "gone" => ~known)
    BY <1>1 DEF HowGiven, GivesUp, Given
  <2> QED BY <2>1, <2>2
<1>3. how \in Ends \ {"empty"}
  BY DEF Given, Ends
<1>4. /\ replies' \in [Tasks -> [WaitNumbers -> SUBSET (Ends \ {"empty"})]]
      /\ replies'[t][w] \subseteq replies[t][w] \cup {how}
      /\ \A u \in Tasks, x \in WaitNumbers : u # t \/ x # w => replies'[u][x] = replies[u][x]
  BY <1>1, <1>2, <1>3 DEF PutFiles
<1>5. /\ round' \in [at : {"no", "next", "fetching", "giving"}, todo : SUBSET Turn, cur : Turn, how : Given \cup {"none"}]
      /\ round'.at = "giving" /\ round'.todo \subseteq round.todo /\ round'.cur = r /\ round'.how = how
  BY <1>1, <1>2 DEF IInv, WorkTypes
<1>6. RequestRowTypes' /\ WorkTypes'
  BY <1>1, <1>4, <1>5 DEF IInv, RequestRowTypes, WorkTypes
<1>7. \A u \in Tasks : RowKept(u)' /\ FetchKept(u)'
  BY <1>1, RowsAsBefore, FetchesAsBefore
<1>8. (\A s \in Senders : SendKept(s)') /\ SendsApart' /\ LetterKept'
  BY <1>1, SendsAsBefore, LetterAsBefore
<1>9. RoundKept'
  <2>1. \A x \in Turn : TurnKept(x) => TurnKept(x)'
    BY <1>1, TurnsKept
  <2>2. TurnKept(round.cur)'
    BY <1>1, <1>5, <2>1 DEF TurnKept
  <2>3. \A x \in round'.todo : TurnKept(x)'
    BY <1>1, <1>5, <2>1
  <2> QED BY <1>1, <1>2, <1>5, <2>2, <2>3 DEF RoundKept
<1>10. RingKept'
  BY <1>1, RingsAsBefore
<1>11. PutKept'
  <2> SUFFICES ASSUME ~killed', NEW u \in Tasks, NEW x \in WaitNumbers, told'[u][x] = <<>>
               PROVE  replies'[u][x] \subseteq ByFetch(u, x)' \cup ByRound(u, x)' \cup BySend(u, x)'
    BY DEF PutKept
  <2>1. replies[u][x] \subseteq ByFetch(u, x) \cup ByRound(u, x) \cup BySend(u, x)
    BY <1>1 DEF IInv, PutKept
  <2>2. ByFetch(u, x)' = ByFetch(u, x) /\ BySend(u, x)' = BySend(u, x)
    BY <1>1 DEF ByFetch, BySend
  <2>3. ByRound(u, x) = {}
    BY <1>1 DEF ByRound
  <2>4. CASE u = t /\ x = w
    <3>1. ByRound(u, x)' = {how}
      BY <1>2, <1>5, <2>4 DEF ByRound
    <3>2. replies'[u][x] \subseteq replies[u][x] \cup {how}
      BY <1>4, <2>4
    <3> QED BY <2>1, <2>2, <2>3, <3>1, <3>2
  <2>5. CASE u # t \/ x # w
    <3>1. replies'[u][x] = replies[u][x]
      BY <1>4, <2>5
    <3> QED BY <2>1, <2>2, <2>3, <3>1
  <2> QED BY <2>4, <2>5
<1> QED BY <1>6, <1>7, <1>8, <1>9, <1>10, <1>11 DEF IInv

\* And takes it back.
LEMMA GiveUndoneStep ==
  ASSUME IInv, RoundUndoes PROVE IInv'
<1>1. /\ round.at = "giving" /\ TakeBack(round.cur.task, round.cur.wait, round.how)
      /\ round' = [round EXCEPT !.at = "next", !.cur = NoTurn, !.how = "none"]
      /\ UNCHANGED <<row, last, told, letter, remote, send, fetch, recent, closed, owed, old, known, sends, killed>>
      /\ (Fault \/ UNCHANGED faults) /\ faults \in 0..MaxFaults
      /\ round.todo \subseteq Turn /\ round.cur \in Turn /\ TurnKept(round.cur) /\ \A x \in round.todo : TurnKept(x)
      /\ replies \in [Tasks -> [WaitNumbers -> SUBSET (Ends \ {"empty"})]]
  BY DEF RoundUndoes, IInv, RoundKept, WorkTypes, RequestRowTypes
<1>2. PICK t \in Tasks, w \in WaitNumbers, how \in Given : t = round.cur.task /\ w = round.cur.wait /\ how = round.how
  BY <1>1 DEF TurnKept, Turn, IInv, RoundKept
<1>3. /\ replies' \in [Tasks -> [WaitNumbers -> SUBSET (Ends \ {"empty"})]]
      /\ replies'[t][w] \subseteq replies[t][w] \ {how}
      /\ \A u \in Tasks, x \in WaitNumbers : u # t \/ x # w => replies'[u][x] = replies[u][x]
  BY <1>1, <1>2 DEF TakeBack
<1>4. /\ round' \in [at : {"no", "next", "fetching", "giving"}, todo : SUBSET Turn, cur : Turn, how : Given \cup {"none"}]
      /\ round'.at = "next" /\ round'.todo = round.todo
  <2>1. NoTurn \in Turn
    BY Bounds DEF NoTurn, Turn
  <2> QED BY <1>1, <2>1 DEF IInv, WorkTypes
<1>5. RequestRowTypes' /\ WorkTypes'
  <2>1. faults' \in 0..MaxFaults
    BY <1>1, FaultCounted
  <2> QED BY <1>1, <1>3, <1>4, <2>1 DEF IInv, RequestRowTypes, WorkTypes
<1>6. \A u \in Tasks : RowKept(u)' /\ FetchKept(u)'
  BY <1>1, RowsAsBefore, FetchesAsBefore
<1>7. (\A s \in Senders : SendKept(s)') /\ SendsApart' /\ LetterKept'
  BY <1>1, SendsAsBefore, LetterAsBefore
<1>8. RoundKept'
  <2>1. \A x \in Turn : TurnKept(x) => TurnKept(x)'
    BY <1>1, TurnsKept
  <2> QED BY <1>1, <1>4, <2>1 DEF RoundKept
<1>9. RingKept'
  BY <1>1, RingsAsBefore
<1>10. PutKept'
  <2> SUFFICES ASSUME ~killed', NEW u \in Tasks, NEW x \in WaitNumbers, told'[u][x] = <<>>
               PROVE  replies'[u][x] \subseteq ByFetch(u, x)' \cup ByRound(u, x)' \cup BySend(u, x)'
    BY DEF PutKept
  <2>1. replies[u][x] \subseteq ByFetch(u, x) \cup ByRound(u, x) \cup BySend(u, x)
    BY <1>1 DEF IInv, PutKept
  <2>2. ByFetch(u, x)' = ByFetch(u, x) /\ BySend(u, x)' = BySend(u, x)
    BY <1>1 DEF ByFetch, BySend
  <2>3. CASE u = t /\ x = w
    <3>1. ByRound(u, x) = {how}
      BY <1>1, <1>2, <2>3 DEF ByRound
    <3>2. replies'[u][x] \subseteq replies[u][x] \ {how}
      BY <1>3, <2>3
    <3> QED BY <2>1, <2>2, <3>1, <3>2
  <2>4. CASE u # t \/ x # w
    <3>1. ByRound(u, x) = {}
      BY <1>1, <1>2, <2>4 DEF ByRound
    <3>2. replies'[u][x] = replies[u][x]
      BY <1>3, <2>4
    <3> QED BY <2>1, <2>2, <3>1, <3>2
  <2> QED BY <2>3, <2>4
<1> QED BY <1>5, <1>6, <1>7, <1>8, <1>9, <1>10 DEF IInv

-----------------------------------------------------------------------------
(*                       the agent, the letter and the sends                *)

\* The agent goes on with a task.
LEMMA MoveStep ==
  ASSUME IInv, NEW t \in Tasks, AgentMoves(t) PROVE IInv'
<1>1. /\ remote[t] = "working" /\ UNCHANGED <<row, last, told, replies, letter, send, fetch, round, recent, closed, owed, known, sends, killed, faults>>
      /\ remote' \in [Tasks -> Worked \cup {"none", "message"}] /\ remote'[t] \in Worked
      /\ \A u \in Tasks \ {t} : remote'[u] = remote[u]
  BY DEF AgentMoves, durable, unsaved, IInv, RequestRowTypes, Worked
<1>2. RequestRowTypes' /\ WorkTypes' /\ RoundKept' /\ LetterKept'
  <2>1. RequestRowTypes' /\ WorkTypes'
    BY <1>1 DEF IInv, RequestRowTypes, WorkTypes
  <2> QED BY <1>1, <2>1, RoundAsBefore, LetterAsBefore
<1>3. \A u \in Tasks : FetchKept(u)'
  BY <1>1, FetchesAsBefore
<1>4. \A u \in Tasks : RowKept(u)'
  <2>1. \A u \in Tasks : (remote[u] \in Worked => remote'[u] \in Worked) /\ (remote'[u] = "none" => remote[u] = "none")
    BY <1>1 DEF Worked
  <2> QED BY <1>1, <2>1 DEF IInv, RowKept, Unanswered, Answers
<1>5. (\A s \in Senders : SendKept(s)') /\ SendsApart'
  <2>1. SendsApart'
    BY <1>1 DEF IInv, SendsApart
  <2>2. ASSUME NEW s \in Senders PROVE SendKept(s)'
    <3>1. SendKept(s)
      BY DEF IInv
    <3>2. CASE send[s].at # "idle" /\ send[s].task = t
      <4>1. ~(send[s].wait = 1 /\ send[s].at = "sending")
        BY <1>1, <3>1, <3>2 DEF SendKept
      <4> QED BY <1>1, <3>1, <3>2, <4>1 DEF SendKept
    <3>3. CASE ~(send[s].at # "idle" /\ send[s].task = t)
      BY <1>1, <3>1, <3>3 DEF SendKept
    <3> QED BY <3>2, <3>3
  <2> QED BY <2>1, <2>2
<1>6. RingKept'
  <2>1. \A u \in Tasks : Sending(u)' = Sending(u) /\ (remote[u] \in Worked => remote'[u] \in Worked)
    BY <1>1 DEF Sending
  <2> QED BY <1>1, <2>1 DEF IInv, RingKept, WorkTypes
<1>7. PutKept'
  BY <1>1, PutsAsBefore
<1> QED BY <1>2, <1>3, <1>4, <1>5, <1>6, <1>7 DEF IInv

\* A run of the letter comes.
LEMMA DueStep ==
  ASSUME IInv, LetterDue PROVE IInv'
<1>1. /\ letter.runs < MaxRuns /\ letter' = [letter EXCEPT !.due = TRUE, !.runs = @ + 1] /\ letter \in Letter
      /\ UNCHANGED <<row, last, told, replies, remote, send, fetch, round, recent, closed, owed, old, known, sends, killed, faults>>
  BY DEF LetterDue, unsaved, IInv, RequestRowTypes
<1>2. letter.runs \in Nat /\ letter.received \in Nat /\ letter.runs + 1 \in 1..MaxRuns /\ MaxRuns \in Nat
  BY <1>1, Bounds DEF Letter
<1>3. letter'.due = TRUE /\ letter'.runs = letter.runs + 1 /\ letter'.received = letter.received
  BY <1>1 DEF Letter
<1>4. letter' \in Letter
  <2>1. letter' = [due |-> TRUE, runs |-> letter.runs + 1, failures |-> letter.failures, received |-> letter.received]
    BY <1>1 DEF Letter
  <2>2. letter.failures \in Nat /\ letter.received \in 0..MaxRuns /\ letter.runs + 1 \in 0..MaxRuns
    BY <1>1, <1>2 DEF Letter
  <2> QED BY <2>1, <2>2 DEF Letter
<1>5. RequestRowTypes' /\ WorkTypes'
  BY <1>1, <1>4 DEF IInv, RequestRowTypes, WorkTypes
<1>6. \A u \in Tasks : RowKept(u)' /\ FetchKept(u)'
  BY <1>1, RowsAsBefore, FetchesAsBefore
<1>7. (\A s \in Senders : SendKept(s)') /\ SendsApart' /\ RoundKept' /\ RingKept' /\ PutKept'
  BY <1>1, SendsAsBefore, RoundAsBefore, RingsAsBefore, PutsAsBefore
<1>8. LetterKept'
  <2>1. /\ \A t \in Tasks : row[t].run \in Nat /\ row[t].run <= letter.runs
        /\ \A s \in Senders : send[s].run \in Nat /\ send[s].run <= letter.runs
        /\ letter.received <= letter.runs
    BY <1>2 DEF IInv, LetterKept, RequestRowTypes, WorkTypes, Row, Send
  <2>2. \A r \in 1..MaxRuns : sends[r] <= 1 /\ (letter.runs < r => sends[r] = 0)
    BY DEF IInv, LetterKept
  <2>3. sends[letter.runs + 1] = 0
    BY <1>2, <2>2
  <2>4. send["postbox"].at = "sending" => send["postbox"].run \in 1..MaxRuns /\ sends[send["postbox"].run] = 0
    BY DEF IInv, LetterKept
  <2>5. "postbox" \in Senders
    BY DEF Senders
  <2>6. /\ letter'.received <= letter'.runs
        /\ \A t \in Tasks : row'[t].run <= letter'.runs
        /\ \A s \in Senders : send'[s].run <= letter'.runs
    BY <1>1, <1>2, <1>3, <2>1
  <2>7. \A r \in 1..MaxRuns : sends'[r] <= 1 /\ (letter'.runs < r => sends'[r] = 0)
    BY <1>1, <1>2, <1>3, <2>2
  <2>8. send'["postbox"].at = "sending" => send'["postbox"].run \in 1..MaxRuns /\ sends'[send'["postbox"].run] = 0
                                           /\ send'["postbox"].run < letter'.runs
    BY <1>1, <1>2, <1>3, <2>1, <2>4, <2>5
  <2> QED BY <1>1, <1>2, <1>3, <2>3, <2>6, <2>7, <2>8 DEF LetterKept
<1> QED BY <1>5, <1>6, <1>7, <1>8 DEF IInv

\* A send changes nothing that another counts on.
LEMMA OtherSends ==
  ASSUME IInv, NEW s \in Senders, SendKept(s)', \A z \in Senders \ {s} : send'[z] = send[z], UNCHANGED known,
         \A z \in Senders \ {s} : send[z].at # "idle" =>
           /\ row'[send[z].task] = row[send[z].task] /\ told'[send[z].task] = told[send[z].task]
           /\ remote'[send[z].task] = remote[send[z].task] /\ fetch'[send[z].task] = fetch[send[z].task]
           /\ send'[s].at # "idle" => send'[s].task # send[z].task
  PROVE  (\A z \in Senders : SendKept(z)') /\ SendsApart'
<1>1. ASSUME NEW z \in Senders, z # s PROVE SendKept(z)'
  <2>1. SendKept(z) /\ send'[z] = send[z]
    BY <1>1 DEF IInv
  <2>2. CASE send[z].at = "idle"
    BY <2>1, <2>2 DEF SendKept
  <2>3. CASE send[z].at # "idle"
    BY <1>1, <2>1, <2>3 DEF SendKept
  <2> QED BY <2>2, <2>3
<1>2. SendsApart'
  BY DEF IInv, SendsApart
<1> QED BY <1>1, <1>2

\* Of two sends, neither is of the other's task.
LEMMA NotTheOthers ==
  ASSUME IInv, NEW s \in Senders, send[s].at # "idle"
  PROVE  \A z \in Senders \ {s} : send[z].at # "idle" => send[z].task # send[s].task
  BY DEF IInv, SendsApart

\* The pushes that are seen to, while a send goes on, begins or is over.
LEMMA RingsOfSend ==
  ASSUME IInv, NEW s \in Senders, UNCHANGED <<row, closed, fetch>>, \A z \in Senders \ {s} : send'[z] = send[z], owed' \subseteq owed,
         \A u \in owed' :
           /\ remote'[u] \in Worked
           /\ (send'[s].at # "idle" /\ send'[s].task = u) <=> (send[s].at # "idle" /\ send[s].task = u)
           /\ send[s].at # "idle" /\ send[s].task = u => send'[s].push = send[s].push /\ send'[s].rung = send[s].rung
  PROVE  RingKept'
<1> SUFFICES ASSUME NEW u \in owed'
             PROVE  /\ remote'[u] \in Worked
                    /\ \A z \in Senders : send'[z].at # "idle" /\ send'[z].task = u => send'[z].push /\ send'[z].rung
                    /\ \/ Sending(u)' # {} \/ row'[u].state # "waiting" \/ closed'
                       \/ fetch'[u].at = "asking" \/ (fetch'[u].at # "no" /\ fetch'[u].again)
  BY DEF RingKept
<1>1. Sending(u)' = Sending(u)
  BY DEF Sending
<1>2. u \in owed
  OBVIOUS
<1> QED BY <1>1, <1>2 DEF IInv, RingKept

\* The letter's runs, while what is sent is not about to be.
LEMMA LetterOfSend ==
  ASSUME IInv, NEW s \in Senders, \A z \in Senders \ {s} : send'[z] = send[z], send'[s].at # "sending", send'[s].run <= letter.runs,
         letter'.runs = letter.runs, letter'.due = letter.due, letter'.received <= letter.runs, UNCHANGED sends,
         \A t \in Tasks : row'[t].run <= letter.runs
  PROVE  LetterKept'
<1>1. "postbox" \in Senders
  BY DEF Senders
<1>2. \A z \in Senders : send'[z].run <= letter'.runs
  BY DEF IInv, LetterKept
<1>3. send'["postbox"].at = "sending" => send'["postbox"] = send["postbox"]
  BY <1>1
<1> QED BY <1>2, <1>3 DEF IInv, LetterKept

\* What a send of this module begins with, and ends with.
LEMMA NothingSent == NoSend \in Send /\ NoSend.at = "idle" /\ NoSend.task = NoTask /\ NoSend.run = 0
  BY Bounds DEF NoSend, Send

\* She asks an agent, or answers its question.
LEMMA AskStep ==
  ASSUME IInv, NEW t \in Tasks, Ask(t) PROVE IInv'
<1> DEFINE wait == IF t \in Free THEN 1 ELSE row[t].wait + 1
           new == [NoSend EXCEPT !.at = "sending", !.task = t, !.push = t \in Pushing, !.wait = wait, !.run = row[t].run]
<1>1. /\ send["her"].at = "idle" /\ known /\ send' = [send EXCEPT !["her"] = new] /\ owed' = owed \ {t}
      /\ UNCHANGED <<row, last, told, replies, letter, remote, fetch, round, recent, closed, known, sends, killed, faults>>
      /\ t \in Free \/ (row[t].state = "asks" /\ row[t].wait < MaxWaits)
      /\ RowKept(t) /\ FetchKept(t) /\ row[t] \in Row /\ send \in [Senders -> Send] /\ "her" \in Senders
  BY DEF Ask, durable, IInv, RequestRowTypes, WorkTypes, Senders
<1>2. /\ t \in Free => wait = 1 /\ row[t].state = "none" /\ remote[t] = "none" /\ told[t][1] = <<>>
      /\ t \notin Free => wait = row[t].wait + 1 /\ wait # 1 /\ row[t].state = "asks" /\ fetch[t].at = "no"
      /\ wait \in WaitNumbers
  <2>1. CASE t \in Free
    BY <1>1, <2>1, Bounds DEF Free, RowKept
  <2>2. CASE t \notin Free
    <3>1. row[t].wait \in Nat \ {0} /\ row[t].wait + 1 \in WaitNumbers
      BY <1>1, <2>2, Bounds DEF Row, WaitNumbers
    <3>2. fetch[t].at = "no"
      BY <1>1, <2>2 DEF FetchKept
    <3> QED BY <1>1, <2>2, <3>1, <3>2
  <2> QED BY <2>1, <2>2
<1> HIDE DEF wait
<1>3. new \in Send /\ new.at = "sending" /\ new.task = t /\ new.wait = wait /\ new.run = row[t].run
  <2>1. row[t].run \in 0..MaxRuns /\ (t \in Pushing) \in BOOLEAN
    BY <1>1 DEF Row
  <2>2. PICK push \in BOOLEAN : push = (t \in Pushing)
    <3>1. CASE t \in Pushing
      <4>1. TRUE = (t \in Pushing)
        BY <3>1
      <4> QED BY <4>1, Zenon
    <3>2. CASE t \notin Pushing
      <4>1. FALSE = (t \in Pushing)
        BY <3>2
      <4> QED BY <4>1, Zenon
    <3> QED BY <3>1, <3>2
  <2>3. new = [NoSend EXCEPT !.at = "sending", !.task = t, !.push = push, !.wait = wait, !.run = row[t].run]
    BY <2>2, Zenon
  <2> HIDE DEF new
  <2>4. new = [at |-> "sending", task |-> t, wait |-> wait, push |-> push, rung |-> FALSE, run |-> row[t].run]
    BY <2>3 DEF NoSend
  <2> QED BY <1>2, <2>1, <2>4 DEF Send
<1> HIDE DEF new
<1>4. /\ send' \in [Senders -> Send] /\ send'["her"] = new /\ \A z \in Senders \ {"her"} : send'[z] = send[z]
  BY <1>1, <1>3
<1>5. RequestRowTypes' /\ WorkTypes' /\ RoundKept'
  <2>1. WorkTypes'
    BY <1>1, <1>4 DEF IInv, WorkTypes
  <2> QED BY <1>1, <2>1, RowTypesAsBefore, RoundAsBefore
<1>6. \A u \in Tasks : RowKept(u)' /\ FetchKept(u)'
  BY <1>1, RowsAsBefore, FetchesAsBefore
<1>7. (\A z \in Senders : SendKept(z)') /\ SendsApart'
  <2>1. SendKept("her")'
    BY <1>1, <1>2, <1>3, <1>4 DEF SendKept
  <2>2. ASSUME NEW z \in Senders, z # "her", send[z].at # "idle" PROVE send[z].task # t
    <3>1. SendKept(z) /\ send[z].wait = 1 => row[send[z].task].state = "none"
      BY <2>2 DEF SendKept
    <3>2. send[z].wait = 1 /\ row[send[z].task].state = "none"
      BY <2>2, <3>1 DEF IInv, SendKept
    <3> QED BY <1>1, <2>2, <3>2 DEF Free
  <2> QED BY <1>1, <1>3, <1>4, <2>1, <2>2, OtherSends
<1>8. LetterKept'
  <2>1. "postbox" \in Senders \ {"her"}
    BY DEF Senders
  <2>2. \A z \in Senders : send'[z].run <= letter'.runs
    BY <1>1, <1>3, <1>4 DEF IInv, LetterKept
  <2> QED BY <1>1, <1>4, <2>1, <2>2 DEF IInv, LetterKept
<1>9. RingKept'
  <2>1. \A u \in owed' : u # t /\ u \in owed /\ remote'[u] \in Worked
    BY <1>1 DEF IInv, RingKept
  <2> QED BY <1>1, <1>3, <1>4, <2>1, RingsOfSend
<1>10. PutKept'
  <2>1. \A z \in Senders : send[z].at = "putting" => send'[z] = send[z]
    BY <1>1, <1>4
  <2> QED BY <1>1, <2>1, PutsAsBefore
<1> QED BY <1>5, <1>6, <1>7, <1>8, <1>9, <1>10 DEF IInv

\* The postbox claims the run of its letter, and sends it or passes it over.
LEMMA TickStep ==
  ASSUME IInv, NEW t \in Tasks, PostboxTick(t) PROVE IInv'
<1> DEFINE new == [NoSend EXCEPT !.at = "sending", !.task = t, !.push = t \in Pushing, !.run = letter.runs]
<1>1. /\ send["postbox"].at = "idle" /\ letter.due /\ t \in Free /\ letter' = [letter EXCEPT !.due = FALSE]
      /\ send' = send \/ send' = [send EXCEPT !["postbox"] = new]
      /\ UNCHANGED <<row, last, told, replies, remote, fetch, round, recent, closed, owed, old, known, sends, killed, faults>>
      /\ RowKept(t) /\ send \in [Senders -> Send] /\ "postbox" \in Senders /\ letter \in Letter
      /\ letter.runs \in 1..MaxRuns /\ sends[letter.runs] = 0
  BY DEF PostboxTick, IInv, RequestRowTypes, WorkTypes, Senders, LetterKept
<1>2. row[t].state = "none" /\ remote[t] = "none" /\ told[t][1] = <<>> /\ \A z \in Senders : send[z].task # t
  BY <1>1 DEF Free, RowKept
<1>3. t \notin owed
  BY <1>2 DEF IInv, RingKept, Worked
<1>4. new \in Send /\ new.at = "sending" /\ new.task = t /\ new.wait = 1 /\ new.run = letter.runs
  <2>1. letter.runs \in 0..MaxRuns
    BY <1>1, Bounds
  <2>2. PICK push \in BOOLEAN : push = (t \in Pushing)
    <3>1. CASE t \in Pushing
      <4>1. TRUE = (t \in Pushing)
        BY <3>1
      <4> QED BY <4>1, Zenon
    <3>2. CASE t \notin Pushing
      <4>1. FALSE = (t \in Pushing)
        BY <3>2
      <4> QED BY <4>1, Zenon
    <3> QED BY <3>1, <3>2
  <2>3. new = [NoSend EXCEPT !.at = "sending", !.task = t, !.push = push, !.run = letter.runs]
    BY <2>2, Zenon
  <2> HIDE DEF new
  <2>4. new = [at |-> "sending", task |-> t, wait |-> 1, push |-> push, rung |-> FALSE, run |-> letter.runs]
    BY <2>3 DEF NoSend
  <2> QED BY <2>1, <2>4, Bounds DEF Send
<1> HIDE DEF new
<1>5. letter' \in Letter /\ letter'.runs = letter.runs /\ letter'.received = letter.received /\ ~letter'.due
  <2>1. letter' = [due |-> FALSE, runs |-> letter.runs, failures |-> letter.failures, received |-> letter.received]
    BY <1>1 DEF Letter
  <2> QED BY <1>1, <2>1 DEF Letter
<1>6. RequestRowTypes' /\ RoundKept'
  <2>1. RequestRowTypes'
    BY <1>1, <1>5 DEF IInv, RequestRowTypes
  <2> QED BY <1>1, <2>1, RoundAsBefore
<1>7. \A u \in Tasks : RowKept(u)' /\ FetchKept(u)'
  BY <1>1, RowsAsBefore, FetchesAsBefore
<1>8. /\ send' \in [Senders -> Send] /\ \A z \in Senders \ {"postbox"} : send'[z] = send[z]
      /\ send' = send \/ send'["postbox"] = new
  BY <1>1, <1>4
<1>9. WorkTypes'
  BY <1>1, <1>8 DEF IInv, WorkTypes
<1>10. (\A z \in Senders : SendKept(z)') /\ SendsApart'
  <2>1. CASE send' = send
    BY <1>1, <2>1, SendsAsBefore
  <2>2. CASE send'["postbox"] = new
    <3>1. SendKept("postbox")'
      BY <1>1, <1>2, <1>4, <2>2 DEF SendKept
    <3> QED BY <1>1, <1>2, <1>4, <1>8, <2>2, <3>1, OtherSends
  <2> QED BY <1>8, <2>1, <2>2
<1>11. LetterKept'
  <2>1. \A z \in Senders : send'[z].run <= letter'.runs
    <3>1. letter.runs <= letter.runs
      BY <1>1, Bounds
    <3> QED BY <1>1, <1>4, <1>5, <1>8, <3>1 DEF IInv, LetterKept
  <2>2. send'["postbox"].at = "sending" => send'["postbox"].run \in 1..MaxRuns /\ sends'[send'["postbox"].run] = 0
    BY <1>1, <1>4, <1>8
  <2> QED BY <1>1, <1>5, <2>1, <2>2 DEF IInv, LetterKept
<1>12. RingKept'
  <2>1. \A u \in owed' : u # t /\ u \in owed /\ remote'[u] \in Worked
    BY <1>1, <1>3 DEF IInv, RingKept
  <2>2. \A u \in owed' : (send'["postbox"].at # "idle" /\ send'["postbox"].task = u) <=> (send["postbox"].at # "idle" /\ send["postbox"].task = u)
    BY <1>1, <1>4, <1>8, <2>1
  <2> QED BY <1>1, <1>8, <2>1, <2>2, RingsOfSend
<1>13. PutKept'
  <2>1. \A z \in Senders : send[z].at = "putting" => send'[z] = send[z]
    BY <1>1, <1>8
  <2> QED BY <1>1, <2>1, PutsAsBefore
<1> QED BY <1>6, <1>7, <1>9, <1>10, <1>11, <1>12, <1>13 DEF IInv

\* The agent takes what is sent, as a task or with an answer at once.
LEMMA TakeStep ==
  ASSUME IInv, NEW s \in Senders, AgentTakes(s) \/ AgentSays(s) PROVE IInv'
<1>1. PICK t \in Tasks : t = send[s].task
  BY DEF AgentTakes, AgentSays, IInv, SendKept
<1>2. PICK at \in {"sent", "said"} :
        /\ send' = [send EXCEPT ![s].at = at]
        /\ remote' = [remote EXCEPT ![t] = IF at = "sent" THEN "working" ELSE "message"]
        /\ at = "said" => send[s].wait = 1
  BY <1>1 DEF AgentTakes, AgentSays
<1>3. /\ send[s].at = "sending" /\ known
      /\ sends' = IF s = "postbox" THEN [sends EXCEPT ![send[s].run] = @ + 1] ELSE sends
      /\ UNCHANGED <<row, last, told, replies, letter, fetch, round, recent, closed, owed, old, known, killed, faults>>
      /\ SendKept(s) /\ RowKept(t) /\ send \in [Senders -> Send] /\ sends \in [1..MaxRuns -> Nat] /\ "postbox" \in Senders
      /\ remote \in [Tasks -> Worked \cup {"none", "message"}]
  BY DEF AgentTakes, AgentSays, durable, IInv, RequestRowTypes, WorkTypes, Senders
<1>4. /\ send' \in [Senders -> Send] /\ \A z \in Senders \ {s} : send'[z] = send[z]
      /\ send'[s].at = at /\ send'[s].task = t /\ send'[s].wait = send[s].wait /\ send'[s].push = send[s].push
      /\ send'[s].rung = send[s].rung /\ send'[s].run = send[s].run
  BY <1>1, <1>2, <1>3 DEF Send
<1>5. /\ remote' \in [Tasks -> Worked \cup {"none", "message"}] /\ \A u \in Tasks \ {t} : remote'[u] = remote[u]
      /\ at = "sent" => remote'[t] \in Worked
      /\ remote'[t] # "none"
  BY <1>2, <1>3 DEF Worked
<1>6. send[s].wait = 1 => row[t].state = "none" /\ told[t][1] = <<>> /\ remote[t] = "none"
  BY <1>1, <1>3 DEF SendKept
<1>7. /\ sends' \in [1..MaxRuns -> Nat]
      /\ s # "postbox" => sends' = sends
      /\ s = "postbox" => /\ send[s].run \in 1..MaxRuns /\ sends[send[s].run] = 0 /\ sends'[send[s].run] = 1
                          /\ \A r \in 1..MaxRuns : r # send[s].run => sends'[r] = sends[r]
  BY <1>3 DEF IInv, LetterKept
<1>8. RequestRowTypes' /\ WorkTypes' /\ RoundKept'
  <2>1. RequestRowTypes'
    BY <1>3, <1>5, <1>7 DEF IInv, RequestRowTypes
  <2>2. WorkTypes'
    BY <1>3, <1>4 DEF IInv, WorkTypes
  <2> QED BY <1>3, <2>1, <2>2, RoundAsBefore
<1>9. \A u \in Tasks : RowKept(u)' /\ FetchKept(u)'
  <2>1. \A u \in Tasks : FetchKept(u)'
    BY <1>3, FetchesAsBefore
  <2>2. ASSUME NEW u \in Tasks PROVE RowKept(u)'
    <3>1. RowKept(u) /\ row'[u] = row[u] /\ told'[u] = told[u]
      BY <1>3 DEF IInv
    <3>2. (row[u].state # "none" => remote'[u] \in Worked) /\ (remote'[u] = "none" => remote[u] = "none")
      <4>1. CASE u = t
        BY <1>2, <1>5, <1>6, <3>1, <4>1 DEF RowKept
      <4>2. CASE u # t
        BY <1>5, <3>1, <4>2 DEF RowKept
      <4> QED BY <4>1, <4>2
    <3> QED BY <3>1, <3>2 DEF RowKept, Unanswered, Answers
  <2> QED BY <2>1, <2>2
<1>10. (\A z \in Senders : SendKept(z)') /\ SendsApart'
  <2>1. SendKept(s)'
    BY <1>1, <1>2, <1>3, <1>4, <1>5 DEF SendKept
  <2>2. \A z \in Senders \ {s} : send[z].at # "idle" => send[z].task \in Tasks /\ send[z].task # t
    BY <1>1, <1>3, NotTheOthers DEF IInv, SendKept
  <2> QED BY <1>3, <1>4, <1>5, <2>1, <2>2, OtherSends
<1>11. LetterKept'
  <2>1. \A z \in Senders : send'[z].run <= letter'.runs
    BY <1>3, <1>4 DEF IInv, LetterKept
  <2>2. letter.runs \in Nat /\ send[s].run \in Nat /\ send[s].run <= letter.runs
    BY <1>3 DEF IInv, LetterKept, RequestRowTypes, Letter, Send
  <2>3. \A r \in 1..MaxRuns : sends'[r] <= 1 /\ (letter'.runs < r => sends'[r] = 0)
    BY <1>3, <1>7, <2>2 DEF IInv, LetterKept
  <2>4. letter'.due => letter'.runs \in 1..MaxRuns /\ sends'[letter'.runs] = 0
    <3>1. letter.due => letter.runs \in 1..MaxRuns /\ sends[letter.runs] = 0 /\ (s = "postbox" => send[s].run < letter.runs)
      BY <1>3 DEF IInv, LetterKept
    <3> QED BY <1>3, <1>7, <2>2, <3>1
  <2>5. send'["postbox"].at = "sending" => s # "postbox" /\ send'["postbox"] = send["postbox"] /\ sends' = sends
    BY <1>2, <1>3, <1>4, <1>7
  <2> QED BY <1>3, <2>1, <2>3, <2>4, <2>5 DEF IInv, LetterKept
<1>12. RingKept'
  <2>1. \A u \in owed : remote'[u] \in Worked
    <3>1. \A u \in owed : u \in Tasks /\ remote[u] \in Worked
      BY DEF IInv, RingKept, WorkTypes
    <3>2. ASSUME t \in owed PROVE remote'[t] \in Worked
      BY <1>2, <1>5, <1>6, <3>1, <3>2 DEF Worked
    <3> QED BY <1>5, <3>1, <3>2
  <2>2. send'[s].at # "idle"
    BY <1>4
  <2> QED BY <1>1, <1>3, <1>4, <2>1, <2>2, RingsOfSend
<1>13. PutKept'
  <2>1. \A z \in Senders : send[z].at = "putting" => send'[z] = send[z]
    BY <1>3, <1>4
  <2> QED BY <1>3, <2>1, PutsAsBefore
<1> QED BY <1>8, <1>9, <1>10, <1>11, <1>12, <1>13 DEF IInv

\* What is on its way when a send is over: what the send put was told of, or is taken back.
LEMMA PutsOfSend ==
  ASSUME IInv, NEW s \in Senders, NEW t \in Tasks, t = send[s].task, UNCHANGED <<fetch, round, killed>>,
         \A z \in Senders \ {s} : send'[z] = send[z],
         \A u \in Tasks \ {t} : told'[u] = told[u] /\ replies'[u] = replies[u],
         \A x \in WaitNumbers : told'[t][x] = <<>> =>
           /\ told[t][x] = <<>> /\ replies'[t][x] \subseteq replies[t][x]
           /\ x = 1 /\ send[s].at = "putting" => replies'[t][x] = {}
  PROVE  PutKept'
<1> SUFFICES ASSUME ~killed', NEW u \in Tasks, NEW x \in WaitNumbers, told'[u][x] = <<>>
             PROVE  replies'[u][x] \subseteq ByFetch(u, x)' \cup ByRound(u, x)' \cup BySend(u, x)'
  BY DEF PutKept
<1>1. told[u][x] = <<>> /\ replies'[u][x] \subseteq replies[u][x]
  OBVIOUS
<1>2. replies[u][x] \subseteq ByFetch(u, x) \cup ByRound(u, x) \cup BySend(u, x)
  BY <1>1 DEF IInv, PutKept
<1>3. ByFetch(u, x)' = ByFetch(u, x) /\ ByRound(u, x)' = ByRound(u, x)
  BY DEF ByFetch, ByRound
<1>4. CASE u = t /\ x = 1 /\ send[s].at = "putting"
  BY <1>4
<1>5. CASE ~(u = t /\ x = 1 /\ send[s].at = "putting")
  <2>1. BySend(u, x) \subseteq BySend(u, x)'
    BY <1>5 DEF BySend
  <2> QED BY <1>1, <1>2, <1>3, <2>1
<1> QED BY <1>4, <1>5

\* A send that is over, with nothing of it in a row.
LEMMA SendOver ==
  ASSUME IInv, NEW s \in Senders, NEW t \in Tasks, t = send[s].task, send[s].at # "idle",
         send' = [send EXCEPT ![s] = NoSend], owed' = owed \ {t}, faults' \in 0..MaxFaults,
         UNCHANGED <<row, remote, fetch, round, recent, closed, known, sends, killed>>,
         RequestRowTypes', RowKept(t)', FetchKept(t)', PutKept',
         \A u \in Tasks \ {t} : told'[u] = told[u],
         letter'.runs = letter.runs, letter'.due = letter.due, letter'.received <= letter.runs
  PROVE  IInv'
<1>1. /\ send' \in [Senders -> Send] /\ send'[s] = NoSend /\ \A z \in Senders \ {s} : send'[z] = send[z]
  BY NothingSent DEF IInv, WorkTypes
<1>2. WorkTypes' /\ RoundKept'
  <2>1. WorkTypes'
    BY <1>1 DEF IInv, WorkTypes
  <2> QED BY <2>1, RoundAsBefore
<1>3. \A u \in Tasks : RowKept(u)' /\ FetchKept(u)'
  <2>1. ASSUME NEW u \in Tasks, u # t PROVE RowKept(u)' /\ FetchKept(u)'
    <3>1. RowKept(u) /\ FetchKept(u) /\ told'[u] = told[u]
      BY <2>1 DEF IInv
    <3>2. \A w : Answers(u, w)' = Answers(u, w)
      BY <3>1 DEF Answers
    <3>3. RowKept(u)'
      BY <3>1, <3>2, SMTT(60) DEF RowKept, Unanswered
    <3>4. FetchKept(u)'
      BY <3>1, <3>2, SMTT(60) DEF FetchKept, Unanswered
    <3> QED BY <3>3, <3>4
  <2> QED BY <2>1
<1>4. (\A z \in Senders : SendKept(z)') /\ SendsApart'
  <2>1. SendKept(s)'
    BY <1>1, NothingSent DEF SendKept
  <2>2. \A z \in Senders \ {s} : send[z].at # "idle" => send[z].task \in Tasks /\ send[z].task # t
    BY NotTheOthers DEF IInv, SendKept
  <2> QED BY <1>1, <2>1, <2>2, NothingSent, OtherSends
<1>5. LetterKept'
  <2>1. send'[s].at # "sending" /\ send'[s].run <= letter.runs
    <3>1. letter.runs \in Nat
      BY DEF IInv, RequestRowTypes, Letter
    <3> QED BY <1>1, <3>1, NothingSent
  <2>2. \A u \in Tasks : row'[u].run <= letter.runs
    BY DEF IInv, LetterKept
  <2> QED BY <1>1, <2>1, <2>2, LetterOfSend
<1>6. RingKept'
  <2>1. \A u \in owed' : u # t /\ u \in owed /\ remote'[u] \in Worked
    BY DEF IInv, RingKept
  <2>2. send'[s].at = "idle"
    BY <1>1, NothingSent
  <2> QED BY <1>1, <2>1, <2>2, RingsOfSend
<1> QED BY <1>2, <1>3, <1>4, <1>5, <1>6 DEF IInv

\* A send that fails, or is not recorded because the server stops.
LEMMA SendFailStep ==
  ASSUME IInv, NEW s \in Senders, SendFails(s) \/ SendLost(s) PROVE IInv'
<1>1. PICK t \in Tasks : t = send[s].task
  BY DEF SendFails, SendLost, IInv, SendKept
<1>2. /\ send[s].at # "idle" /\ send' = [send EXCEPT ![s] = NoSend] /\ owed' = owed \ {t}
      /\ UNCHANGED <<row, last, told, remote, fetch, round, recent, closed, known, sends, killed>>
      /\ (Fault \/ UNCHANGED faults) /\ faults \in 0..MaxFaults
      /\ letter' = letter \/ letter' = Recorded(send[s].run, "failed")
      /\ replies' = replies \/ replies' = [replies EXCEPT ![t][1] = {}]
      /\ send[s].at = "putting" => replies' = [replies EXCEPT ![t][1] = {}]
      /\ replies \in [Tasks -> [WaitNumbers -> SUBSET (Ends \ {"empty"})]]
  BY <1>1 DEF SendFails, SendLost, IInv, WorkTypes, RequestRowTypes
<1>3. /\ letter' \in Letter /\ letter'.runs = letter.runs /\ letter'.due = letter.due /\ letter'.received <= letter.runs
  <2>1. letter \in Letter /\ letter.received <= letter.runs /\ send[s].run \in 0..MaxRuns /\ send[s].run <= letter.runs
    BY DEF IInv, RequestRowTypes, WorkTypes, LetterKept, Send
  <2>2. CASE letter' = letter
    BY <2>1, <2>2
  <2>3. CASE letter' = Recorded(send[s].run, "failed")
    BY <2>1, <2>3, RecordedRun
  <2> QED BY <1>2, <2>2, <2>3
<1>4. /\ replies' \in [Tasks -> [WaitNumbers -> SUBSET (Ends \ {"empty"})]]
      /\ \A u \in Tasks \ {t} : replies'[u] = replies[u]
      /\ \A x \in WaitNumbers : replies'[t][x] \subseteq replies[t][x]
      /\ send[s].at = "putting" => replies'[t][1] = {}
  <2>1. CASE replies' = replies
    BY <1>2, <2>1, Bounds
  <2>2. CASE replies' = [replies EXCEPT ![t][1] = {}]
    BY <1>2, <2>2, Bounds
  <2> QED BY <1>2, <2>1, <2>2
<1>5. RequestRowTypes'
  BY <1>2, <1>3, <1>4 DEF IInv, RequestRowTypes
<1>6. PutKept'
  <2>1. \A z \in Senders \ {s} : send'[z] = send[z]
    BY <1>2 DEF IInv, WorkTypes
  <2> QED BY <1>1, <1>2, <1>4, <2>1, PutsOfSend
<1>7. RowKept(t)' /\ FetchKept(t)'
  BY <1>2, RowsAsBefore, FetchesAsBefore
<1>8. faults' \in 0..MaxFaults
  BY <1>2, FaultCounted
<1> QED BY <1>1, <1>2, <1>3, <1>5, <1>6, <1>7, <1>8, SendOver

\* An answer at once is put: nothing was told for it, and nobody else sends its task.
LEMMA SaidPutStep ==
  ASSUME IInv, NEW s \in Senders, SaidPuts(s) PROVE IInv'
<1>1. PICK t \in Tasks : t = send[s].task
  BY DEF SaidPuts, IInv, SendKept
<1>2. /\ send[s].at = "said" /\ send' = [send EXCEPT ![s].at = "putting"] /\ replies' = [replies EXCEPT ![t][1] = {"completed"}]
      /\ UNCHANGED <<row, last, told, letter, remote, fetch, round, recent, closed, owed, old, known, sends, killed, faults>>
      /\ SendKept(s) /\ send \in [Senders -> Send] /\ replies \in [Tasks -> [WaitNumbers -> SUBSET (Ends \ {"empty"})]]
  BY <1>1 DEF SaidPuts, IInv, WorkTypes, RequestRowTypes
<1>3. /\ send' \in [Senders -> Send] /\ \A z \in Senders \ {s} : send'[z] = send[z]
      /\ send'[s].at = "putting" /\ send'[s].task = t /\ send'[s].wait = send[s].wait /\ send'[s].push = send[s].push
      /\ send'[s].rung = send[s].rung /\ send'[s].run = send[s].run
  BY <1>1, <1>2 DEF Send
<1>4. /\ replies' \in [Tasks -> [WaitNumbers -> SUBSET (Ends \ {"empty"})]]
      /\ replies'[t][1] = {"completed"}
      /\ \A u \in Tasks, x \in WaitNumbers : u # t \/ x # 1 => replies'[u][x] = replies[u][x]
  <2>1. "completed" \in Ends \ {"empty"}
    BY DEF Ends, Settled
  <2> QED BY <1>2, <2>1, Bounds
<1>5. RequestRowTypes' /\ WorkTypes' /\ RoundKept'
  <2>1. RequestRowTypes'
    BY <1>2, <1>4 DEF IInv, RequestRowTypes
  <2>2. WorkTypes'
    BY <1>2, <1>3 DEF IInv, WorkTypes
  <2> QED BY <1>2, <2>1, <2>2, RoundAsBefore
<1>6. \A u \in Tasks : RowKept(u)' /\ FetchKept(u)'
  BY <1>2, RowsAsBefore, FetchesAsBefore
<1>7. (\A z \in Senders : SendKept(z)') /\ SendsApart'
  <2>1. SendKept(s)'
    BY <1>1, <1>2, <1>3 DEF SendKept
  <2>2. \A z \in Senders \ {s} : send[z].at # "idle" => send[z].task # t
    BY <1>1, <1>2, NotTheOthers
  <2> QED BY <1>2, <1>3, <2>1, <2>2, OtherSends
<1>8. LetterKept'
  <2>1. /\ letter'.received <= letter.runs /\ send'[s].run <= letter.runs
        /\ \A u \in Tasks : row'[u].run <= letter.runs
    BY <1>2, <1>3 DEF IInv, LetterKept
  <2>2. send'[s].at # "sending" /\ UNCHANGED <<letter, sends>>
    BY <1>2, <1>3
  <2> QED BY <1>3, <2>1, <2>2, LetterOfSend
<1>9. RingKept'
  <2>1. \A u \in owed' : remote'[u] \in Worked
    BY <1>2 DEF IInv, RingKept
  <2>2. send'[s].at # "idle" /\ send[s].at # "idle"
    BY <1>2, <1>3
  <2> QED BY <1>1, <1>2, <1>3, <2>1, <2>2, RingsOfSend
<1>10. PutKept'
  <2> SUFFICES ASSUME ~killed', NEW u \in Tasks, NEW x \in WaitNumbers, told'[u][x] = <<>>
               PROVE  replies'[u][x] \subseteq ByFetch(u, x)' \cup ByRound(u, x)' \cup BySend(u, x)'
    BY DEF PutKept
  <2>1. replies[u][x] \subseteq ByFetch(u, x) \cup ByRound(u, x) \cup BySend(u, x)
    BY <1>2 DEF IInv, PutKept
  <2>2. ByFetch(u, x)' = ByFetch(u, x) /\ ByRound(u, x)' = ByRound(u, x)
    BY <1>2 DEF ByFetch, ByRound
  <2>3. CASE u = t /\ x = 1
    <3>1. BySend(u, x)' = {"completed"}
      BY <1>3, <2>3 DEF BySend
    <3>2. replies'[u][x] = {"completed"}
      BY <1>4, <2>3
    <3> QED BY <3>1, <3>2
  <2>4. CASE ~(u = t /\ x = 1)
    <3>1. BySend(u, x) \subseteq BySend(u, x)'
      <4>1. \A z \in Senders : send[z].at = "putting" => send'[z] = send[z]
        BY <1>2, <1>3
      <4> QED BY <4>1 DEF BySend
    <3>2. replies'[u][x] = replies[u][x]
      BY <1>4, <2>4
    <3> QED BY <2>1, <2>2, <3>1, <3>2
  <2> QED BY <2>3, <2>4
<1> QED BY <1>5, <1>6, <1>7, <1>8, <1>9, <1>10 DEF IInv

\* It is told.
LEMMA SaidCommitStep ==
  ASSUME IInv, NEW s \in Senders, SaidCommits(s) PROVE IInv'
<1>1. PICK t \in Tasks : t = send[s].task
  BY DEF SaidCommits, IInv, SendKept
<1>2. /\ send[s].at = "putting" /\ send' = [send EXCEPT ![s] = NoSend] /\ owed' = owed \ {t}
      /\ told' = [told EXCEPT ![t][1] = Append(@, "completed")] /\ last' \in {last, NoTask} /\ letter' = Recorded(send[s].run, "completed")
      /\ UNCHANGED <<row, replies, remote, fetch, round, recent, closed, known, sends, killed, faults>>
      /\ SendKept(s) /\ RowKept(t) /\ FetchKept(t) /\ told \in [Tasks -> [WaitNumbers -> Seq(Ends)]] /\ row[t].wait = 1
      /\ row[t].state = "none" /\ told[t][1] = <<>> /\ remote[t] = "message"
  BY <1>1 DEF SaidCommits, IInv, RequestRowTypes, SendKept, RowKept
<1>3. /\ told' \in [Tasks -> [WaitNumbers -> Seq(Ends)]] /\ told'[t][1] = Append(told[t][1], "completed")
      /\ \A u \in Tasks \ {t} : told'[u] = told[u]
      /\ \A x \in WaitNumbers \ {1} : told'[t][x] = told[t][x]
      /\ "completed" \in Ends /\ "completed" \in Settled
  <2>1. "completed" \in Ends /\ "completed" \in Settled
    BY DEF Ends, Settled
  <2>2. Append(told[t][1], "completed") \in Seq(Ends)
    BY <1>2, <2>1, Bounds, AppendProperties
  <2> QED BY <1>2, <2>1, <2>2, Bounds
<1>4. Unanswered(t, 1)
  BY <1>2, Bounds DEF Unanswered, Answers
<1>5. told'[t][1] # <<>> /\ Answers(t, 1)' = {Len(told[t][1]) + 1}
  BY <1>2, <1>3, <1>4, Bounds, OneMoreTold
<1>6. /\ letter' \in Letter /\ letter'.runs = letter.runs /\ letter'.due = letter.due /\ letter'.received <= letter.runs
  <2>1. letter \in Letter /\ letter.received <= letter.runs /\ send[s].run \in 0..MaxRuns /\ send[s].run <= letter.runs
    BY DEF IInv, RequestRowTypes, WorkTypes, LetterKept, Send
  <2> QED BY <1>2, <2>1, RecordedRun
<1>7. RequestRowTypes'
  BY <1>2, <1>3, <1>6 DEF IInv, RequestRowTypes
<1>8. PutKept'
  <2>1. \A z \in Senders \ {s} : send'[z] = send[z]
    BY <1>2 DEF IInv, WorkTypes
  <2>2. ASSUME NEW x \in WaitNumbers, told'[t][x] = <<>>
        PROVE  x # 1 /\ told[t][x] = <<>> /\ replies'[t][x] \subseteq replies[t][x]
    BY <1>2, <1>3, <1>5, <2>2
  <2>3. \A x \in WaitNumbers : told'[t][x] = <<>> =>
          /\ told[t][x] = <<>> /\ replies'[t][x] \subseteq replies[t][x]
          /\ x = 1 /\ send[s].at = "putting" => replies'[t][x] = {}
    BY <2>2
  <2>4. \A u \in Tasks \ {t} : told'[u] = told[u] /\ replies'[u] = replies[u]
    BY <1>2, <1>3
  <2>5. UNCHANGED <<fetch, round, killed>>
    BY <1>2
  <2> QED BY <1>1, <2>1, <2>3, <2>4, <2>5, PutsOfSend
<1>9. FetchKept(t)'
  BY <1>2 DEF FetchKept
<1>10. RowKept(t)'
  <2>1. \A x \in WaitNumbers : row'[t].wait < x => told'[t][x] = <<>>
    <3>1. ASSUME NEW x \in WaitNumbers, 1 < x PROVE x # 1
      BY <3>1
    <3> QED BY <1>2, <1>3, <3>1 DEF RowKept
  <2>2. ASSUME NEW x \in WaitNumbers, NEW i \in Answers(t, x)', NEW j \in Answers(t, x)' PROVE i = j
    <3>1. CASE x = 1
      <4>1. Answers(t, x)' = {Len(told[t][1]) + 1}
        BY <1>5, <3>1 DEF Answers
      <4> QED BY <2>2, <4>1
    <3>2. CASE x # 1
      <4>1. Answers(t, x)' = Answers(t, x)
        BY <1>3, <3>2 DEF Answers
      <4> QED BY <1>2, <2>2, <4>1 DEF RowKept
    <3> QED BY <3>1, <3>2
  <2>3. row'[t].state = "none" /\ row'[t].wait = 1 /\ remote'[t] # "none" /\ row'[t].state \notin Settled
    BY <1>2 DEF Settled
  <2> QED BY <2>1, <2>2, <2>3 DEF RowKept
<1>11. faults' \in 0..MaxFaults /\ send[s].at # "idle"
  BY <1>2 DEF IInv, WorkTypes
<1> QED BY <1>1, <1>2, <1>3, <1>6, <1>7, <1>8, <1>9, <1>10, <1>11, SendOver

\* It is taken back.
LEMMA SaidUndoStep ==
  ASSUME IInv, NEW s \in Senders, SaidUndoes(s) PROVE IInv'
<1>1. PICK t \in Tasks : t = send[s].task
  BY DEF SaidUndoes, IInv, SendKept
<1>2. /\ send[s].at # "idle" /\ send' = [send EXCEPT ![s] = NoSend] /\ owed' = owed \ {t} /\ Fault /\ faults \in 0..MaxFaults
      /\ replies' = [replies EXCEPT ![t][1] = {}] /\ last' \in {last, NoTask}
      /\ UNCHANGED <<row, told, letter, remote, fetch, round, recent, closed, known, sends, killed>>
      /\ replies \in [Tasks -> [WaitNumbers -> SUBSET (Ends \ {"empty"})]]
  BY <1>1 DEF SaidUndoes, IInv, RequestRowTypes, WorkTypes
<1>3. /\ replies' \in [Tasks -> [WaitNumbers -> SUBSET (Ends \ {"empty"})]]
      /\ \A u \in Tasks \ {t} : replies'[u] = replies[u]
      /\ \A x \in WaitNumbers : replies'[t][x] \subseteq replies[t][x]
      /\ replies'[t][1] = {}
  BY <1>2, Bounds
<1>4. RequestRowTypes'
  BY <1>2, <1>3 DEF IInv, RequestRowTypes
<1>5. PutKept'
  <2>1. \A z \in Senders \ {s} : send'[z] = send[z]
    BY <1>2 DEF IInv, WorkTypes
  <2> QED BY <1>1, <1>2, <1>3, <2>1, PutsOfSend
<1>6. RowKept(t)' /\ FetchKept(t)'
  BY <1>2, RowsAsBefore, FetchesAsBefore
<1>7. faults' \in 0..MaxFaults /\ letter'.received <= letter.runs
  BY <1>2, FaultCounted DEF IInv, LetterKept
<1> QED BY <1>1, <1>2, <1>4, <1>5, <1>6, <1>7, SendOver

\* What was sent is recorded: the task waits, and a push that came meanwhile is seen to.
LEMMA RecordStep ==
  ASSUME IInv, NEW s \in Senders, Records(s) PROVE IInv'
<1>1. PICK t \in Tasks, wait \in WaitNumbers : t = send[s].task /\ wait = send[s].wait
  BY DEF Records, IInv, SendKept, WorkTypes, Send
<1> DEFINE new == [state |-> "waiting", wait |-> wait, push |-> send[s].push, run |-> send[s].run, placed |-> s = "her"]
           rings == send[s].rung /\ send[s].push
<1>2. /\ send[s].at = "sent" /\ row' = [row EXCEPT ![t] = new] /\ last' \in {last, t} /\ AfterSend(s)
      /\ UNCHANGED <<told, replies, letter, remote, round, closed, owed, old, known, sends, killed, faults>>
      /\ SendKept(s) /\ RowKept(t) /\ FetchKept(t) /\ send \in [Senders -> Send] /\ send[s] \in Send
      /\ row \in [Tasks -> Row] /\ row[t] \in Row /\ fetch \in [Tasks -> Fetch] /\ recent \subseteq Tasks
  BY <1>1 DEF Records, IInv, RequestRowTypes, WorkTypes
<1>3. /\ known /\ remote[t] \in Worked /\ fetch[t].at = "no" /\ row[t].state # "waiting"
      /\ told[t][wait] = <<>> /\ row[t].wait <= wait
  <2>1. row[t].wait \in Nat
    BY <1>2, Bounds DEF Row
  <2>2. CASE wait = 1
    <3>1. row[t].state = "none" /\ told[t][1] = <<>> /\ row[t].wait = 1
      BY <1>1, <1>2, <2>2 DEF SendKept, RowKept
    <3> QED BY <1>1, <1>2, <2>2, <3>1 DEF SendKept, FetchKept
  <2>3. CASE wait # 1
    <3>1. wait = row[t].wait + 1 /\ row[t].state \in {"asks", "gave-up", "failed"} /\ fetch[t].at = "no"
      BY <1>1, <1>2, <2>3 DEF SendKept
    <3>2. row[t].wait < wait
      BY <2>1, <3>1
    <3> QED BY <1>1, <1>2, <2>1, <3>1, <3>2 DEF SendKept, RowKept
  <2> QED BY <2>2, <2>3
<1>4. new \in Row /\ new.state = "waiting" /\ new.wait = wait /\ new.run = send[s].run
  <2>1. PICK placed \in BOOLEAN : placed = (s = "her")
    <3>1. CASE s = "her"
      <4>1. TRUE = (s = "her")
        BY <3>1
      <4> QED BY <4>1, Zenon
    <3>2. CASE s # "her"
      <4>1. FALSE = (s = "her")
        BY <3>2
      <4> QED BY <4>1, Zenon
    <3> QED BY <3>1, <3>2
  <2>2. new = [state |-> "waiting", wait |-> wait, push |-> send[s].push, run |-> send[s].run, placed |-> placed]
    BY <2>1, Zenon
  <2>3. send[s].push \in BOOLEAN /\ send[s].run \in 0..MaxRuns /\ "waiting" \in RowStates
    BY <1>2 DEF Send, RowStates
  <2> HIDE DEF new
  <2> QED BY <2>2, <2>3 DEF Row
<1> HIDE DEF new
<1>5. row' \in [Tasks -> Row] /\ row'[t] = new /\ \A u \in Tasks \ {t} : row'[u] = row[u]
  BY <1>2, <1>4
<1>6. send' = [send EXCEPT ![s] = NoSend] /\ send' \in [Senders -> Send] /\ send'[s] = NoSend /\ \A z \in Senders \ {s} : send'[z] = send[z]
  BY <1>2, NothingSent DEF AfterSend
<1>7. /\ fetch' \in [Tasks -> Fetch] /\ recent' \subseteq Tasks /\ \A u \in Tasks \ {t} : fetch'[u] = fetch[u]
      /\ rings => fetch'[t].at = "asking" /\ fetch'[t].wait = wait
      /\ ~rings => fetch'[t] = fetch[t]
  <2>1. recent' = recent \cup ({t} \cap Pushing)
    BY <1>1, <1>2 DEF AfterSend
  <2>2. CASE ~rings
    <3>1. fetch' = fetch
      BY <1>2, <2>2 DEF AfterSend
    <3> QED BY <1>2, <2>1, <2>2, <3>1
  <2>3. CASE rings
    <3> DEFINE asking == [NoFetch EXCEPT !.at = "asking", !.wait = wait]
    <3>1. fetch' = [fetch EXCEPT ![t] = asking]
      BY <1>1, <1>2, <1>3, <2>3 DEF AfterSend
    <3>2. asking \in Fetch /\ asking.at = "asking" /\ asking.wait = wait
      BY DEF NoFetch, Fetch, Worked
    <3> HIDE DEF asking
    <3> QED BY <1>2, <2>1, <2>3, <3>1, <3>2
  <2> QED BY <2>2, <2>3
<1> HIDE DEF rings
<1>8. RequestRowTypes' /\ WorkTypes'
  <2>1. last' \in Tasks \cup {NoTask}
    BY <1>2 DEF IInv, RequestRowTypes
  <2>2. RequestRowTypes'
    BY <1>2, <1>5, <2>1 DEF IInv, RequestRowTypes
  <2>3. WorkTypes'
    BY <1>2, <1>6, <1>7 DEF IInv, WorkTypes
  <2> QED BY <2>2, <2>3
<1>9. Unanswered(t, wait) /\ (\A x \in WaitNumbers : Answers(t, x)' = Answers(t, x))
  BY <1>2, <1>3 DEF Unanswered, Answers
<1>10. row'[t].wait = wait /\ row'[t].state = "waiting" /\ Answers(t, wait)' = {}
  BY <1>4, <1>5, <1>9 DEF Unanswered
<1>11. \A u \in Tasks : RowKept(u)' /\ FetchKept(u)'
  <2>1. ASSUME NEW u \in Tasks, u # t PROVE RowKept(u)' /\ FetchKept(u)'
    <3>1. RowKept(u) /\ FetchKept(u) /\ row'[u] = row[u] /\ fetch'[u] = fetch[u] /\ UNCHANGED <<told, remote>>
      BY <1>2, <1>5, <1>7, <2>1 DEF IInv
    <3> QED BY <3>1 DEF RowKept, FetchKept, Unanswered, Answers
  <2>2. RowKept(t)'
    <3>1. \A x \in WaitNumbers : wait < x => told[t][x] = <<>>
      <4>1. ASSUME NEW x \in WaitNumbers, wait < x PROVE row[t].wait < x
        <5>1. row[t].wait \in Nat /\ wait \in Nat /\ x \in Nat
          BY <1>2, Bounds DEF Row
        <5> QED BY <1>3, <4>1, <5>1
      <4> QED BY <1>2, <4>1 DEF RowKept
    <3>2. \A x \in WaitNumbers : \A i, j \in Answers(t, x)' : i = j
      BY <1>2, <1>9 DEF RowKept
    <3>3. "waiting" \notin Settled /\ remote'[t] # "none" /\ remote'[t] \in Worked
      BY <1>2, <1>3 DEF Settled, Worked
    <3>4. Unanswered(t, row[t].wait)'
      BY <1>10 DEF Unanswered, Answers
    <3>5. row'[t].state # "none" /\ row'[t].state \notin Settled
      BY <1>10, <3>3
    <3>6. \A x \in WaitNumbers : row'[t].wait < x => told'[t][x] = <<>>
      BY <1>2, <1>10, <3>1
    <3> QED BY <3>2, <3>3, <3>4, <3>5, <3>6 DEF RowKept
  <2>3. FetchKept(t)'
    <3>1. Unanswered(t, row[t].wait)'
      BY <1>10 DEF Unanswered, Answers
    <3>2. fetch'[t].at = "no" \/ (fetch'[t].at = "asking" /\ fetch'[t].wait = row'[t].wait)
      BY <1>3, <1>7, <1>10
    <3> QED BY <1>10, <3>1, <3>2 DEF FetchKept
  <2> QED BY <2>1, <2>2, <2>3
<1>12. \A z \in Senders \ {s} : send[z].at # "idle" => send[z].task \in Tasks /\ send[z].task # t
  BY <1>1, <1>2, NotTheOthers DEF IInv, SendKept
<1>13. (\A z \in Senders : SendKept(z)') /\ SendsApart'
  <2>1. SendKept(s)'
    BY <1>6, NothingSent DEF SendKept
  <2>2. \A z \in Senders \ {s} : send[z].at # "idle" =>
           /\ row'[send[z].task] = row[send[z].task] /\ told'[send[z].task] = told[send[z].task]
           /\ remote'[send[z].task] = remote[send[z].task] /\ fetch'[send[z].task] = fetch[send[z].task]
           /\ send'[s].at # "idle" => send'[s].task # send[z].task
    BY <1>2, <1>5, <1>6, <1>7, <1>12, NothingSent
  <2> QED BY <1>2, <1>6, <2>1, <2>2, OtherSends
<1>14. RoundKept'
  <2>1. ASSUME NEW r \in Turn, TurnKept(r) PROVE TurnKept(r)'
    <3>1. CASE r.task # t
      BY <1>2, <1>5, <2>1, <3>1 DEF TurnKept
    <3>2. CASE r.task = t
      <4>1. r.wait \in Nat /\ row[t].wait \in Nat /\ wait \in Nat
        BY <1>2, Bounds DEF Turn, Row
      <4>2. r.wait <= wait
        BY <1>3, <2>1, <3>2, <4>1 DEF TurnKept
      <4> QED BY <1>2, <1>3, <1>10, <3>2, <4>2 DEF TurnKept
    <3> QED BY <3>1, <3>2
  <2>2. round.todo \subseteq Turn /\ round.cur \in Turn
    BY DEF IInv, WorkTypes
  <2> QED BY <1>2, <2>1, <2>2 DEF IInv, RoundKept
<1>15. LetterKept'
  <2>1. send[s].run <= letter.runs /\ letter.received <= letter.runs /\ \A u \in Tasks : row[u].run <= letter.runs
    BY DEF IInv, LetterKept
  <2>2. \A u \in Tasks : row'[u].run <= letter.runs
    BY <1>4, <1>5, <2>1
  <2>3. send'[s].at # "sending" /\ send'[s].run <= letter.runs
    <3>1. letter.runs \in Nat
      BY DEF IInv, RequestRowTypes, Letter
    <3> QED BY <1>6, <3>1, NothingSent
  <2> QED BY <1>2, <1>6, <2>1, <2>2, <2>3, LetterOfSend
<1>16. RingKept'
  <2> SUFFICES ASSUME NEW u \in owed'
               PROVE  /\ remote'[u] \in Worked
                      /\ \A z \in Senders : send'[z].at # "idle" /\ send'[z].task = u => send'[z].push /\ send'[z].rung
                      /\ \/ Sending(u)' # {} \/ row'[u].state # "waiting" \/ closed'
                         \/ fetch'[u].at = "asking" \/ (fetch'[u].at # "no" /\ fetch'[u].again)
    BY DEF RingKept
  <2>1. u \in owed /\ u \in Tasks
    BY <1>2 DEF IInv, WorkTypes
  <2>2. \A z \in Senders : send'[z].at # "idle" /\ send'[z].task = u => send'[z].push /\ send'[z].rung
    BY <1>6, <2>1, NothingSent DEF IInv, RingKept
  <2>3. CASE u = t
    <3>1. rings
      BY <1>1, <1>2, <2>1, <2>3 DEF IInv, RingKept, rings
    <3> QED BY <1>2, <1>3, <1>7, <2>2, <2>3, <3>1
  <2>4. CASE u # t
    <3>1. Sending(u)' = Sending(u)
      BY <1>1, <1>2, <1>6, <2>4, NothingSent DEF Sending
    <3> QED BY <1>2, <1>5, <1>7, <2>1, <2>2, <2>4, <3>1 DEF IInv, RingKept
  <2> QED BY <2>3, <2>4
<1>17. PutKept'
  <2>1. \A z \in Senders : send[z].at = "putting" => send'[z] = send[z]
    BY <1>2, <1>6
  <2>2. \A u \in Tasks : fetch[u].at = "put" => fetch'[u] = fetch[u]
    BY <1>3, <1>7
  <2> QED BY <1>2, <2>1, <2>2, PutsAsBefore
<1> QED BY <1>8, <1>11, <1>13, <1>14, <1>15, <1>16, <1>17 DEF IInv

\* The process ends: nothing is under way, and the history says whether a file was on its way.
LEMMA NothingRuns ==
  ASSUME IInv, send' = [s \in Senders |-> NoSend], fetch' = [t \in Tasks |-> NoFetch], round' = NoRound,
         recent' = {}, closed' = FALSE, owed' = {}, known' \in BOOLEAN, killed' \in BOOLEAN, faults' \in 0..MaxFaults,
         RequestRowTypes', \A t \in Tasks : RowKept(t)',
         \A t \in Tasks : row'[t].run <= letter'.runs, letter'.received <= letter'.runs,
         \A r \in 1..MaxRuns : sends'[r] <= 1 /\ (letter'.runs < r => sends'[r] = 0),
         letter'.due => letter'.runs \in 1..MaxRuns /\ sends'[letter'.runs] = 0,
         ~killed' => \A t \in Tasks, w \in WaitNumbers : told'[t][w] = <<>> => replies'[t][w] = {}
  PROVE  IInv'
<1>1. NoFetch \in Fetch /\ NoFetch.at = "no"
  BY Bounds DEF NoFetch, Fetch, Worked
<1>2. NoTurn \in Turn
  BY Bounds DEF NoTurn, Turn
<1>3. NoRound \in [at : {"no", "next", "fetching", "giving"}, todo : SUBSET Turn, cur : Turn, how : Given \cup {"none"}]
  BY <1>2 DEF NoRound
<1>4. NoRound.at = "no" /\ NoRound.todo = {}
  BY DEF NoRound
<1>5. WorkTypes'
  BY <1>1, <1>3, NothingSent DEF WorkTypes
<1>6. \A t \in Tasks : FetchKept(t)'
  BY <1>1 DEF FetchKept
<1>7. (\A s \in Senders : SendKept(s)') /\ SendsApart'
  BY NothingSent DEF SendKept, SendsApart
<1>8. RoundKept'
  BY <1>4 DEF RoundKept
<1>9. LetterKept'
  <2>1. letter'.runs \in Nat
    BY DEF RequestRowTypes, Letter
  <2>2. \A s \in Senders : send'[s].run <= letter'.runs /\ send'[s].at # "sending"
    BY <2>1, NothingSent
  <2>3. "postbox" \in Senders
    BY DEF Senders
  <2> QED BY <2>2, <2>3 DEF LetterKept
<1>10. RingKept'
  BY DEF RingKept
<1>11. PutKept'
  BY DEF PutKept
<1> QED BY <1>5, <1>6, <1>7, <1>8, <1>9, <1>10, <1>11 DEF IInv

\* What was put and not told of is, from now on, a file of a process that ended.
LEMMA RestartStep ==
  ASSUME IInv, Restart PROVE IInv'
<1>1. /\ UNCHANGED <<row, last, told, replies, letter, remote, sends>> /\ (Fault \/ UNCHANGED faults) /\ faults \in 0..MaxFaults
      /\ killed' = (killed \/ OnTheWay)
  BY DEF Restart, durable, IInv, WorkTypes
<1>2. RequestRowTypes' /\ (\A t \in Tasks : RowKept(t)') /\ faults' \in 0..MaxFaults
  BY <1>1, RowTypesAsBefore, RowsAsBefore, FaultCounted
<1>3. killed' \in BOOLEAN
  BY <1>1
<1>4. ASSUME ~killed', NEW t \in Tasks, NEW w \in WaitNumbers, told'[t][w] = <<>> PROVE replies'[t][w] = {}
  <2>1. ~killed /\ ~OnTheWay
    BY <1>1, <1>4
  <2>2. ByFetch(t, w) = {} /\ ByRound(t, w) = {} /\ BySend(t, w) = {}
    BY <2>1 DEF OnTheWay, ByFetch, ByRound, BySend
  <2> QED BY <1>1, <1>4, <2>1, <2>2 DEF IInv, PutKept
<1>5. /\ \A t \in Tasks : row'[t].run <= letter'.runs
      /\ letter'.received <= letter'.runs
      /\ \A r \in 1..MaxRuns : sends'[r] <= 1 /\ (letter'.runs < r => sends'[r] = 0)
      /\ letter'.due => letter'.runs \in 1..MaxRuns /\ sends'[letter'.runs] = 0
  BY <1>1 DEF IInv, LetterKept
<1> QED BY <1>2, <1>3, <1>4, <1>5, NothingRuns DEF Restart

-----------------------------------------------------------------------------
(*                            the theorems                                  *)

\* Nothing is asked yet, and nothing is under way.
LEMMA InitStep ==
  ASSUME RequestsInit PROVE IInv
<1>1. /\ \A t \in Tasks : row[t] = [state |-> "none", wait |-> 1, push |-> FALSE, run |-> 0, placed |-> FALSE]
      /\ \A t \in Tasks, w \in WaitNumbers : told[t][w] = <<>> /\ replies[t][w] = {}
      /\ letter = [due |-> FALSE, runs |-> 0, failures |-> 0, received |-> 0]
      /\ \A t \in Tasks : remote[t] = "none" /\ fetch[t] = NoFetch
      /\ \A s \in Senders : send[s] = NoSend
      /\ round = NoRound /\ owed = {} /\ \A r \in 1..MaxRuns : sends[r] = 0
  BY DEF RequestsInit
<1>2. NoFetch \in Fetch /\ NoFetch.at = "no"
  BY Bounds DEF NoFetch, Fetch, Worked
<1>3. NoTurn \in Turn
  BY Bounds DEF NoTurn, Turn
<1>4. NoRound \in [at : {"no", "next", "fetching", "giving"}, todo : SUBSET Turn, cur : Turn, how : Given \cup {"none"}]
  BY <1>3 DEF NoRound
<1>5. NoRound.at = "no" /\ NoRound.todo = {}
  BY DEF NoRound
<1>6. RequestRowTypes
  <2>1. [state |-> "none", wait |-> 1, push |-> FALSE, run |-> 0, placed |-> FALSE] \in Row
    BY Bounds DEF Row, RowStates
  <2>2. row \in [Tasks -> Row] /\ last \in Tasks \cup {NoTask} /\ remote \in [Tasks -> Worked \cup {"none", "message"}]
    BY <2>1 DEF RequestsInit
  <2>3. <<>> \in Seq(Ends)
    OBVIOUS
  <2>4. told \in [Tasks -> [WaitNumbers -> Seq(Ends)]]
    BY <2>3 DEF RequestsInit
  <2>5. replies \in [Tasks -> [WaitNumbers -> SUBSET (Ends \ {"empty"})]]
    BY DEF RequestsInit
  <2>6. letter \in Letter /\ sends \in [1..MaxRuns -> Nat]
    BY <1>1, Bounds DEF Letter, RequestsInit
  <2> QED BY <2>2, <2>4, <2>5, <2>6 DEF RequestRowTypes
<1>7. WorkTypes
  <2>1. send \in [Senders -> Send] /\ fetch \in [Tasks -> Fetch]
    BY <1>2, NothingSent DEF RequestsInit
  <2>2. recent = {} /\ owed = {} /\ known = TRUE /\ closed = FALSE /\ killed = FALSE /\ faults = 0
    BY DEF RequestsInit
  <2>3. recent \subseteq Tasks /\ owed \subseteq Tasks /\ faults \in 0..MaxFaults
    BY <2>2, Bounds
  <2>4. known \in BOOLEAN /\ closed \in BOOLEAN /\ killed \in BOOLEAN
    BY <2>2
  <2> QED BY <1>1, <1>4, <2>1, <2>3, <2>4 DEF WorkTypes
<1>8. ASSUME NEW t \in Tasks PROVE RowKept(t) /\ FetchKept(t)
  <2>1. row[t].state = "none" /\ row[t].wait = 1 /\ "none" \notin Settled
    BY <1>1, <1>8 DEF Settled
  <2>2. \A w \in WaitNumbers : Answers(t, w) = {}
    BY <1>1, <1>8 DEF Answers
  <2>3. RowKept(t)
    BY <1>1, <1>8, <2>1, <2>2, Bounds DEF RowKept
  <2> QED BY <1>1, <1>2, <1>8, <2>3 DEF FetchKept
<1>9. (\A s \in Senders : SendKept(s)) /\ SendsApart
  BY <1>1, NothingSent DEF SendKept, SendsApart
<1>10. RoundKept /\ RingKept /\ PutKept
  BY <1>1, <1>5 DEF RoundKept, RingKept, PutKept
<1>11. LetterKept
  <2>1. letter.received = 0 /\ letter.runs = 0 /\ ~letter.due /\ "postbox" \in Senders
    BY <1>1 DEF Senders
  <2>2. \A t \in Tasks : row[t].run = 0
    BY <1>1
  <2>3. \A s \in Senders : send[s].run = 0 /\ send[s].at # "sending"
    BY <1>1, NothingSent
  <2> QED BY <1>1, <2>1, <2>2, <2>3 DEF LetterKept
<1> QED BY <1>6, <1>7, <1>8, <1>9, <1>10, <1>11 DEF IInv

\* A fetch goes on, or ends.
LEMMA FetchGoesOn ==
  ASSUME IInv, NEW t \in Tasks, FetchSteps(t) \/ FetchFails(t) PROVE IInv'
<1>1. CASE FetchFails(t) \/ FetchLeaves(t)
  BY <1>1, LeaveStep
<1>2. CASE FetchReads(t)
  BY <1>2, ReadStep
<1>3. CASE FetchPuts(t)
  BY <1>3, PutStep
<1>4. CASE FetchCommits(t)
  BY <1>4, RequestsCommit
<1>5. CASE FetchUndoes(t)
  BY <1>5, UndoStep
<1> QED BY <1>1, <1>2, <1>3, <1>4, <1>5 DEF FetchSteps

\* A round begins, goes on, or ends.
LEMMA RoundGoes ==
  ASSUME IInv, RoundBegins \/ RoundSteps PROVE IInv'
<1>1. CASE RoundBegins \/ RoundGoesOn \/ RoundEnds \/ \E r \in round.todo : RoundSkips(r)
  BY <1>1, RoundStep
<1>2. CASE RoundCommits
  BY <1>2, GivenStep
<1>3. CASE RoundUndoes
  BY <1>3, GiveUndoneStep
<1>4. CASE \E r \in round.todo : RoundFetches(r)
  BY <1>4, RoundFetchStep
<1>5. CASE \E r \in round.todo : RoundGives(r)
  BY <1>5, GiveStep
<1> QED BY <1>1, <1>2, <1>3, <1>4, <1>5 DEF RoundSteps

\* A send goes on, or ends.
LEMMA SendGoesOn ==
  ASSUME IInv, NEW s \in Senders,
         AgentTakes(s) \/ AgentSays(s) \/ SendFails(s) \/ Records(s) \/ SendLost(s) \/ SaidPuts(s) \/ SaidCommits(s) \/ SaidUndoes(s)
  PROVE  IInv'
<1>1. CASE AgentTakes(s) \/ AgentSays(s)
  BY <1>1, TakeStep
<1>2. CASE SendFails(s) \/ SendLost(s)
  BY <1>2, SendFailStep
<1>3. CASE Records(s)
  BY <1>3, RecordStep
<1>4. CASE SaidPuts(s)
  BY <1>4, SaidPutStep
<1>5. CASE SaidCommits(s)
  BY <1>5, SaidCommitStep
<1>6. CASE SaidUndoes(s)
  BY <1>6, SaidUndoStep
<1> QED BY <1>1, <1>2, <1>3, <1>4, <1>5, <1>6

\* Where nothing changes, the invariant stays.
LEMMA StutterStep ==
  ASSUME IInv, UNCHANGED requestVars PROVE IInv'
<1>1. UNCHANGED <<row, last, told, replies, letter, remote, send, fetch, round, recent, closed, owed, old, known, sends, killed, faults>>
  BY DEF requestVars, durable, unsaved
<1>2. WorkTypes' /\ RoundKept'
  BY <1>1, RoundAsBefore DEF IInv, WorkTypes
<1> QED BY <1>1, <1>2, AsideStep

\* Every step of the requests keeps the invariant.
LEMMA InductiveStep ==
  ASSUME IInv, [RequestsNext]_requestVars PROVE IInv'
<1>1. ASSUME NEW t \in Tasks,
             \/ AgentMoves(t) \/ FetchSteps(t) \/ FetchFails(t) \/ Push(t) \/ IntervalPasses(t) \/ LimitPasses(t)
             \/ Ask(t) \/ PostboxTick(t)
      PROVE  IInv'
  <2>1. CASE AgentMoves(t)
    BY <2>1, MoveStep
  <2>2. CASE FetchSteps(t) \/ FetchFails(t)
    BY <2>2, FetchGoesOn
  <2>3. CASE Push(t)
    BY <2>3, PushFetches, PushRings
  <2>4. CASE IntervalPasses(t) \/ LimitPasses(t)
    BY <2>4, TimeStep
  <2>5. CASE Ask(t)
    BY <2>5, AskStep
  <2>6. CASE PostboxTick(t)
    BY <2>6, TickStep
  <2> QED BY <1>1, <2>1, <2>2, <2>3, <2>4, <2>5, <2>6
<1>2. ASSUME NEW s \in Senders,
             AgentTakes(s) \/ AgentSays(s) \/ SendFails(s) \/ Records(s) \/ SendLost(s) \/ SaidPuts(s) \/ SaidCommits(s) \/ SaidUndoes(s)
      PROVE  IInv'
  BY <1>2, SendGoesOn
<1>3. CASE RoundBegins \/ RoundSteps
  BY <1>3, RoundGoes
<1>4. CASE LetterDue
  BY <1>4, DueStep
<1>5. CASE Close
  BY <1>5, TimeStep
<1>6. CASE Restart
  BY <1>6, RestartStep
<1>7. CASE UNCHANGED requestVars
  BY <1>7, StutterStep
<1> QED BY <1>1, <1>2, <1>3, <1>4, <1>5, <1>6, <1>7 DEF RequestsNext

\* The inductive invariant holds of the requests to outside agents, whatever is asked, pushed and failed.
THEOREM RequestsInvariant == RequestsSpec => []IInv
<1>1. RequestsInit => IInv
  BY InitStep
<1>2. IInv /\ [RequestsNext]_requestVars => IInv'
  BY InductiveStep
<1> QED BY <1>1, <1>2, PTL DEF RequestsSpec

\* Rows, replies, fetches, sends and rounds hold what they are declared to hold.
THEOREM RequestsTyped == RequestsSpec => []RequestsTypeOK
<1>1. ASSUME IInv PROVE RequestsTypeOK
  <2>1. ASSUME NEW t \in Tasks, NEW w \in WaitNumbers PROVE replies[t][w] \subseteq Ends \ {"empty"} /\ told[t][w] \in Seq(Ends)
    BY <1>1, <2>1 DEF IInv, RequestRowTypes
  <2>2. ASSUME NEW t \in Tasks
        PROVE  /\ row[t].state \in {"none", "waiting", "gave-up"} \cup Settled /\ row[t].wait \in WaitNumbers
               /\ row[t].run \in 0..MaxRuns /\ fetch[t].at \in {"no", "asking", "read", "put"}
    BY <1>1, <2>2 DEF IInv, RequestRowTypes, WorkTypes, Row, RowStates, Fetch
  <2>3. \A s \in Senders : send[s].at \in {"idle", "sending", "sent", "said", "putting"}
    BY <1>1 DEF IInv, WorkTypes, Send
  <2>4. /\ last \in Tasks \cup {NoTask} /\ recent \subseteq Tasks /\ owed \subseteq Tasks
        /\ round.at \in {"no", "next", "fetching", "giving"} /\ letter.received <= letter.runs /\ faults \in 0..MaxFaults
    BY <1>1 DEF IInv, RequestRowTypes, WorkTypes, LetterKept
  <2> QED BY <2>1, <2>2, <2>3, <2>4 DEF RequestsTypeOK
<1> QED BY <1>1, RequestsInvariant, PTL

\* An answer is told once for its wait and a letter's run sent once, no push is lost, and nothing is left under
\* /sources of what failed (deliver(), push(), Postbox.send() and undoReply of src/src/server/agent-requests.ts).
THEOREM RequestsAreSafe == RequestsSpec => []RequestsSafety
<1>1. ASSUME IInv PROVE RequestsSafety
  <2>1. AnswerToldOnce
    BY <1>1 DEF IInv, RowKept, AnswerToldOnce
  <2>2. NoLostRing
    BY <1>1 DEF IInv, RingKept, NoLostRing
  <2>3. RunSentOnce
    BY <1>1 DEF IInv, LetterKept, RunSentOnce
  <2>4. NothingLeftBehind
    <3> SUFFICES ASSUME ~OnTheWay, ~killed, NEW t \in Tasks, NEW w \in WaitNumbers, told[t][w] = <<>>
                 PROVE  replies[t][w] = {}
      BY DEF NothingLeftBehind
    <3>1. ByFetch(t, w) = {} /\ ByRound(t, w) = {} /\ BySend(t, w) = {}
      BY DEF OnTheWay, ByFetch, ByRound, BySend
    <3> QED BY <1>1, <3>1 DEF IInv, PutKept
  <2> QED BY <2>1, <2>2, <2>3, <2>4 DEF RequestsSafety
<1> QED BY <1>1, RequestsInvariant, PTL

\* A task that settled was told of for the wait it is in: the transaction of deliver() writes both or neither.
THEOREM SettledToldFor == RequestsSpec => []SettledWasTold
<1>1. ASSUME IInv PROVE SettledWasTold
  BY <1>1 DEF IInv, RowKept, SettledWasTold, Settled
<1> QED BY <1>1, RequestsInvariant, PTL

\* The last reply of a letter never moves back to an earlier run, whichever run is heard of last (PostboxLedger.record).
THEOREM ReceivedStays == RequestsSpec => ReceivedNeverBack
<1>1. ASSUME IInv, RequestsNext PROVE letter'.received >= letter.received
  <2> DEFINE Heard(run, how) == letter' = Recorded(run, how)
  <2>1. letter \in Letter /\ letter.received \in Int /\ letter.received <= letter.runs
    BY <1>1 DEF IInv, RequestRowTypes, LetterKept, Letter
  <2>2. \/ letter' = letter \/ LetterDue
        \/ \E t \in Tasks : PostboxTick(t)
        \/ \E t \in Tasks : FetchCommits(t)
        \/ RoundCommits
        \/ \E s \in Senders : SendFails(s) \/ SaidCommits(s)
    BY <1>1 DEF RequestsNext, FetchSteps, RoundSteps, AgentMoves, FetchReads, FetchFails, FetchLeaves, FetchPuts, FetchUndoes,
       Push, Ask, AgentTakes, AgentSays, Records, SendLost, SaidPuts, SaidUndoes, RoundBegins, RoundSkips, RoundFetches,
       RoundGoesOn, RoundGives, RoundUndoes, RoundEnds, IntervalPasses, LimitPasses, Close, Restart, durable
  <2>3. ASSUME NEW run, NEW how, run \in 0..MaxRuns, run <= letter.runs, Heard(run, how)
        PROVE  letter'.received >= letter.received
    <3>1. letter.received <= Recorded(run, how).received /\ Recorded(run, how) \in Letter
      BY <2>1, <2>3, RecordedRun
    <3>2. Recorded(run, how).received \in Int
      BY <3>1 DEF Letter
    <3> QED BY <2>1, <2>3, <3>1, <3>2
  <2>4. \A t \in Tasks : row[t].run \in 0..MaxRuns /\ row[t].run <= letter.runs
    BY <1>1 DEF IInv, RequestRowTypes, LetterKept, Row
  <2>5. \A s \in Senders : send[s].run \in 0..MaxRuns /\ send[s].run <= letter.runs
    BY <1>1 DEF IInv, WorkTypes, LetterKept, Send
  <2> HIDE DEF Heard
  <2>6. CASE letter' = letter \/ LetterDue \/ \E t \in Tasks : PostboxTick(t)
    <3>1. letter'.received = letter.received
      BY <2>1, <2>6 DEF LetterDue, PostboxTick, Letter
    <3> QED BY <2>1, <3>1
  <2>7. CASE \E t \in Tasks : FetchCommits(t)
    <3>1. PICK t \in Tasks : Heard(row[t].run, HowOf(fetch[t].got))
      BY <2>7 DEF FetchCommits, Settles, Heard
    <3> QED BY <2>3, <2>4, <3>1
  <2>8. CASE RoundCommits
    <3>1. round.cur.task \in Tasks
      BY <1>1, <2>8 DEF RoundCommits, IInv, RoundKept, TurnKept
    <3>2. Heard(row[round.cur.task].run, round.how)
      BY <2>8 DEF RoundCommits, Settles, Heard
    <3> QED BY <2>3, <2>4, <3>1, <3>2
  <2>9. CASE \E s \in Senders : SendFails(s) \/ SaidCommits(s)
    <3>1. letter' = letter \/ \E s \in Senders : Heard(send[s].run, "failed") \/ Heard(send[s].run, "completed")
      BY <2>9 DEF SendFails, SaidCommits, Heard
    <3> QED BY <2>1, <2>3, <2>5, <3>1
  <2> QED BY <2>2, <2>6, <2>7, <2>8, <2>9
<1>2. IInv /\ [RequestsNext]_requestVars => [letter'.received >= letter.received]_letter
  BY <1>1 DEF requestVars, durable
<1> QED BY <1>2, RequestsInvariant, PTL DEF RequestsSpec, ReceivedNeverBack
=============================================================================
