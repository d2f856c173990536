------------------------------- MODULE Inbox -------------------------------
(****************************************************************************)
(* What other agents ask natsumi (src/src/server/inbox.ts).                 *)
(*                                                                          *)
(* A request is a directory of numbered messages and a status, and a row    *)
(* with its messages in the database.  A message's file is written first,   *)
(* the status after it, and the rows last; what fails is undone file by     *)
(* file.  Everything runs on one chain, and the process may stop between    *)
(* any two of its writes.                                                   *)
(****************************************************************************)
EXTENDS Parts, Naturals, FiniteSets

CONSTANTS
  Asked,        \* the requests one sender may make
  MaxOpen,      \* maxOpenTasks
  MaxTexts,     \* bound: the messages of one request
  MaxMishaps    \* bound: writes and processes that fail

ASSUME InboxAssumption == MaxOpen \in Nat \ {0} /\ MaxTexts \in Nat \ {0} /\ MaxMishaps \in Nat

VARIABLES
  request,      \* Asked -> inbox_tasks.state, or "none"
  texts,        \* Asked -> the messages in inbox_messages, numbered from 1
  written,      \* Asked -> the numbers of the message files in its directory
  shown,        \* Asked -> the state its README and status.md show, or "none" without a directory
  late,         \* Asked -> the sender's last message is older than the deadline
  due,          \* Asked -> it waited for her for the reminder's interval
  awake,        \* the awake hours
  chain,        \* the operation under way
  torn,         \* history: the requests whose last write was cut off or failed
  mishaps

inboxVars == <<request, texts, written, shown, late, due, awake, chain, torn, mishaps>>

OpenStates == {"working", "input-required"}
Opened == {r \in Asked : request[r] \in OpenStates}
Free0 == [at |-> "free", kind |-> "none", of |-> {}, todo |-> {}]
Mishap == mishaps < MaxMishaps /\ mishaps' = mishaps + 1

\* What a message makes of a request, and whether it has words: her answer, her question, a closing without a text.
Replies == {"answer", "asks", "completes", "closes"}
Makes(kind) == CASE kind = "answer" -> "working" [] kind = "asks" -> "input-required" [] OTHER -> "completed"
HasText(kind) == kind # "closes"

-----------------------------------------------------------------------------
(* A new request.                                                           *)

HasRoom == Cardinality(Opened) < MaxOpen

\* Past the sender's open requests it is rejected, and kept without a directory.
InboxRejects(r) ==
  /\ chain = Free0 /\ request[r] = "none" /\ written[r] = {} /\ ~HasRoom
  /\ request' = [request EXCEPT ![r] = "rejected"] /\ texts' = [texts EXCEPT ![r] = 1]
  /\ UNCHANGED <<written, shown, late, due, awake, chain, torn, mishaps>>

\* Its directory is made whole, under a name no other has.
InboxMakes(r) ==
  /\ chain = Free0 /\ request[r] = "none" /\ written[r] = {} /\ HasRoom
  /\ written' = [written EXCEPT ![r] = {1}] /\ shown' = [shown EXCEPT ![r] = "working"]
  /\ chain' = [at |-> "made", kind |-> "open", of |-> {r}, todo |-> {}]
  /\ UNCHANGED <<request, texts, late, due, awake, torn, mishaps>>

InboxOpens(r) ==
  /\ chain.at = "made" /\ r \in chain.of
  /\ request' = [request EXCEPT ![r] = "working"] /\ texts' = [texts EXCEPT ![r] = 1]
  /\ chain' = Free0
  /\ UNCHANGED <<written, shown, late, due, awake, torn, mishaps>>

InboxOpenFails(r) ==
  /\ chain.at = "made" /\ r \in chain.of /\ Mishap
  /\ written' = [written EXCEPT ![r] = {}] /\ shown' = [shown EXCEPT ![r] = "none"]
  /\ chain' = Free0
  /\ UNCHANGED <<request, texts, late, due, awake, torn>>

-----------------------------------------------------------------------------
(* A message in an open request: the sender's answer, or her reply.         *)

\* The sender answers only her question; she replies to whatever is open.
Takes(r, kind) == IF kind = "answer" THEN request[r] = "input-required" ELSE request[r] \in OpenStates

\* The message's file; one of its number that is already there, left by a process that ended, refuses it.
InboxWrites(r, kind) ==
  /\ chain = Free0 /\ Takes(r, kind) /\ texts[r] < MaxTexts
  /\ LET n == texts[r] + 1 IN
     \/ /\ HasText(kind) => n \notin written[r]
        /\ written' = IF HasText(kind) THEN [written EXCEPT ![r] = @ \cup {n}] ELSE written
        /\ chain' = [at |-> "wrote", kind |-> kind, of |-> {r}, todo |-> {}]
        /\ UNCHANGED mishaps
     \/ /\ (n \in written[r] /\ HasText(kind) /\ UNCHANGED mishaps) \/ Mishap
        /\ chain' = [at |-> "undo", kind |-> kind, of |-> {r}, todo |-> {}]
        /\ UNCHANGED written
  /\ UNCHANGED <<request, texts, shown, late, due, awake, torn>>

\* Its README and status.md, as they will be.
InboxStates(r) ==
  /\ chain.at = "wrote" /\ r \in chain.of
  /\ \/ /\ shown' = [shown EXCEPT ![r] = Makes(chain.kind)] /\ chain' = [chain EXCEPT !.at = "stated"]
        /\ UNCHANGED mishaps
     \/ Mishap /\ chain' = [chain EXCEPT !.at = "undo"] /\ UNCHANGED shown
  /\ UNCHANGED <<request, texts, written, late, due, awake, torn>>

\* The transaction: the sender's answer begins the deadline and the reminders anew.
InboxRecords(r) ==
  /\ chain.at = "stated" /\ r \in chain.of
  /\ request' = [request EXCEPT ![r] = Makes(chain.kind)]
  /\ texts' = IF HasText(chain.kind) THEN [texts EXCEPT ![r] = @ + 1] ELSE texts
  /\ late' = IF chain.kind = "answer" THEN [late EXCEPT ![r] = FALSE] ELSE late
  /\ due' = IF chain.kind = "answer" THEN [due EXCEPT ![r] = FALSE] ELSE due
  /\ torn' = torn \ {r}
  /\ chain' = Free0
  /\ UNCHANGED <<written, shown, awake, mishaps>>

InboxRecordFails(r) ==
  /\ chain.at = "stated" /\ r \in chain.of /\ Mishap
  /\ chain' = [chain EXCEPT !.at = "undo"]
  /\ UNCHANGED <<request, texts, written, shown, late, due, awake, torn>>

\* Mutant: the last message of the request goes, and not the one refused.
InboxUndoesLast(r) ==
  /\ chain.at = "undo" /\ r \in chain.of
  /\ written' = IF HasText(chain.kind) THEN [written EXCEPT ![r] = @ \ {texts[r]}] ELSE written
  /\ chain' = [chain EXCEPT !.at = "unwritten"]
  /\ UNCHANGED <<request, texts, shown, late, due, awake, torn, mishaps>>

\* What failed is undone: the file first, whoever left it.
InboxUndoes(r) ==
  /\ chain.at = "undo" /\ r \in chain.of
  /\ written' = IF HasText(chain.kind) THEN [written EXCEPT ![r] = @ \ {texts[r] + 1}] ELSE written
  /\ chain' = [chain EXCEPT !.at = "unwritten"]
  /\ UNCHANGED <<request, texts, shown, late, due, awake, torn, mishaps>>

\* Then the README and status.md; a failure there is left.
InboxRestores(r) ==
  /\ chain.at = "unwritten" /\ r \in chain.of
  /\ \/ shown' = [shown EXCEPT ![r] = request[r]] /\ torn' = torn \ {r} /\ UNCHANGED mishaps
     \/ Mishap /\ torn' = torn \cup {r} /\ UNCHANGED shown
  /\ chain' = Free0
  /\ UNCHANGED <<request, texts, written, late, due, awake>>

-----------------------------------------------------------------------------
(* The scheduler's look.                                                    *)

Look(todo) == [at |-> "late", kind |-> "look", of |-> {}, todo |-> todo]

\* Mutant: nothing is looked at while she sleeps.
InboxLooksAwake ==
  /\ chain = Free0 /\ awake
  /\ chain' = Look({r \in Opened : late[r]})
  /\ UNCHANGED <<request, texts, written, shown, late, due, awake, torn, mishaps>>

\* tick(): those past the deadline, at any hour.
InboxLooks ==
  /\ chain = Free0
  /\ chain' = Look({r \in Opened : late[r]})
  /\ UNCHANGED <<request, texts, written, shown, late, due, awake, torn, mishaps>>

InboxFails(r) ==
  /\ chain.at = "late" /\ chain.of = {} /\ r \in chain.todo
  /\ request' = [request EXCEPT ![r] = "failed"]
  /\ chain' = [chain EXCEPT !.of = {r}, !.todo = @ \ {r}]
  /\ UNCHANGED <<texts, written, shown, late, due, awake, torn, mishaps>>

\* Then, while she is awake, those that waited for her.
InboxTurns ==
  /\ chain.at = "late" /\ chain.of = {} /\ chain.todo = {}
  /\ chain' = IF awake THEN [chain EXCEPT !.at = "remind", !.todo = {r \in Asked : request[r] = "working" /\ due[r]}] ELSE Free0
  /\ UNCHANGED <<request, texts, written, shown, late, due, awake, torn, mishaps>>

InboxReminds(r) ==
  /\ chain.at = "remind" /\ chain.of = {} /\ r \in chain.todo
  /\ due' = [due EXCEPT ![r] = FALSE]
  /\ chain' = [chain EXCEPT !.of = {r}, !.todo = @ \ {r}]
  /\ UNCHANGED <<request, texts, written, shown, late, awake, torn, mishaps>>

\* rewrite(): a failure is left, until the next write of the request.
InboxRewrites(r) ==
  /\ chain.at \in {"late", "remind"} /\ r \in chain.of
  /\ chain' = [chain EXCEPT !.of = {}]
  /\ \/ shown' = [shown EXCEPT ![r] = request[r]] /\ torn' = torn \ {r} /\ UNCHANGED mishaps
     \/ Mishap /\ torn' = torn \cup {r} /\ UNCHANGED shown
  /\ UNCHANGED <<request, texts, written, late, due, awake>>

InboxLookEnds ==
  /\ chain.at = "remind" /\ chain.of = {} /\ chain.todo = {}
  /\ chain' = Free0
  /\ UNCHANGED <<request, texts, written, shown, late, due, awake, torn, mishaps>>

-----------------------------------------------------------------------------
(* Time and the process.                                                    *)

InboxDeadline(r) ==
  /\ r \in Opened /\ ~late[r] /\ late' = [late EXCEPT ![r] = TRUE]
  /\ UNCHANGED <<request, texts, written, shown, due, awake, chain, torn, mishaps>>

InboxInterval(r) ==
  /\ request[r] = "working" /\ ~due[r] /\ due' = [due EXCEPT ![r] = TRUE]
  /\ UNCHANGED <<request, texts, written, shown, late, awake, chain, torn, mishaps>>

InboxHours ==
  /\ awake' = ~awake
  /\ UNCHANGED <<request, texts, written, shown, late, due, chain, torn, mishaps>>

\* A process ends and another begins: nothing of an operation under way is taken up again.
InboxCrash ==
  /\ Mishap /\ chain # Free0
  /\ torn' = torn \cup chain.of /\ chain' = Free0
  /\ UNCHANGED <<request, texts, written, shown, late, due, awake>>

-----------------------------------------------------------------------------
InboxInit ==
  /\ request = [r \in Asked |-> "none"] /\ texts = [r \in Asked |-> 0]
  /\ written = [r \in Asked |-> {}] /\ shown = [r \in Asked |-> "none"]
  /\ late = [r \in Asked |-> FALSE] /\ due = [r \in Asked |-> FALSE] /\ awake = TRUE
  /\ chain = Free0 /\ torn = {} /\ mishaps = 0

InboxGoesOn ==
  \/ \E r \in Asked : \/ InboxOpens(r) \/ InboxOpenFails(r) \/ InboxStates(r) \/ InboxRecords(r) \/ InboxRecordFails(r)
                      \/ InboxUndoes(r) \/ InboxRestores(r) \/ InboxFails(r) \/ InboxReminds(r) \/ InboxRewrites(r)
  \/ InboxTurns \/ InboxLookEnds

InboxNext ==
  \/ \E r \in Asked : \/ InboxRejects(r) \/ InboxMakes(r) \/ InboxDeadline(r) \/ InboxInterval(r)
                      \/ \E kind \in Replies : InboxWrites(r, kind)
  \/ InboxLooks \/ InboxGoesOn \/ InboxHours \/ InboxCrash

InboxSpec == InboxInit /\ [][InboxNext]_inboxVars

\* What is under way on the chain goes on, and the scheduler looks again and again, however busy the chain is.
InboxFairness == WF_inboxVars(part = "inbox" /\ InboxGoesOn) /\ SF_inboxVars(part = "inbox" /\ InboxLooks)

-----------------------------------------------------------------------------
(* Properties.                                                              *)

States == {"none", "working", "input-required", "completed", "failed", "rejected"}

InboxTypeOK ==
  /\ request \in [Asked -> States] /\ shown \in [Asked -> States]
  /\ \A r \in Asked : texts[r] \in 0..MaxTexts /\ written[r] \subseteq 1..MaxTexts
  /\ chain.of \subseteq Asked /\ chain.todo \subseteq Asked /\ torn \subseteq Asked
  /\ Cardinality(chain.of) <= 1 /\ mishaps \in 0..MaxMishaps

\* A sender never has more open requests than the config allows, its questions answered or not.
OpenWithin == Cardinality(Opened) <= MaxOpen

\* Every message the database keeps of a request that was taken has its file, through failures and restarts: she reads
\* what the sender was told is taken.
MessagesHaveFiles == \A r \in Asked : request[r] \notin {"none", "rejected"} => 1..texts[r] \subseteq written[r]

\* With nothing under way, the README and the status of a request say what the database says, unless its last write
\* was cut off or failed.
ShownAsKept == chain = Free0 => \A r \in Asked \ torn : request[r] # "rejected" => shown[r] = request[r]

\* A request that is closed stays closed, whatever comes late.
ClosedStays == [][\A r \in Asked : request[r] \in {"completed", "failed", "rejected"} => request'[r] = request[r]]_request

\* A request past its deadline is failed, unless it is closed or answered first.
DeadlineComes == \A r \in Asked : (r \in Opened /\ late[r]) ~> (r \notin Opened \/ ~late[r])

\* The limit, the files and what they show agree with the database through failures and restarts.
InboxSafety == OpenWithin /\ MessagesHaveFiles /\ ShownAsKept
=============================================================================
