------------------------------ MODULE Workspace ------------------------------
(****************************************************************************)
(* Commands in the workspace (src/src/server/workspace-shell.ts), the       *)
(* runner that runs them (src/runner/runner.go, argv.go), and those left    *)
(* running in the background (src/src/server/shell-jobs.ts).                *)
(*                                                                          *)
(* The server asks one command at a time, and the runner waits on one at a  *)
(* time.  A command of hers that is not over when its wait is goes on, and  *)
(* the runner writes its end as a second line on the connection, which the  *)
(* server puts into the command's directory in four steps: the output, the  *)
(* record, the README, the attention.  Commands end, connections and        *)
(* processes are cut, and writes fail between any two of these.             *)
(****************************************************************************)
EXTENDS Parts, Naturals, FiniteSets

CONSTANTS
  HerCommands,         \* natsumi's commands: followed past their answer
  Curators,     \* the curator's, and the server's own: left running and not followed
  Tools,        \* calls of a declared tool: stopped at their timeout
  NoCommand,
  Jobs,         \* backgroundJobs
  MaxCuts       \* bound: the processes, connections and writes that fail

ASSUME WorkspaceAssumption == Jobs \in Nat /\ MaxCuts \in Nat /\ NoCommand \notin HerCommands \cup Curators \cup Tools

Commands == HerCommands \cup Curators \cup Tools

VARIABLES
  call,         \* Commands -> its tool call: "new", "asking", "placing", "answered", or cut off with its process
  asking,       \* the command the line is at
  following,    \* the background commands counted as waited for
  watch,        \* Commands -> how far its end has come: "no", "waiting", the next write, or "over"
  end,          \* Commands -> how its wait ended, as the server read it
  state,        \* Commands -> the state in its directory's record, or "none"
  readme,       \* Commands -> the state its README tells
  output,       \* Commands -> its directory has the whole output: its head, its tail, and what was left out
  attentions,   \* Commands -> the attentions of its end
  up,           \* the server has started
  left,         \* starting: the directories whose wait it still has to give up
  handler,      \* Commands -> its connection at the runner: "no", "queued", "answering", "following", "over"
  lock,         \* the command the runner waits on
  process,      \* Commands -> its process group: "none", "running", "exited", "signaled"
  frozen,       \* Commands -> its output is not kept any more
  first,        \* Commands -> the answer line until it is read: "none", "done", "still"
  second,       \* Commands -> the second line until it is read, and whether the output in it is whole
  wire,         \* Commands -> the connection: "none", "open", "dropped" by the server, "ended" by the runner, "cut"
  unwritten,    \* history: the directories whose last write failed
  cuts

serverVars == <<call, asking, following, watch, end, state, readme, output, attentions, up, left, unwritten>>
runnerVars == <<handler, lock, process, frozen, first, second>>
workspaceVars == <<serverVars, runnerVars, wire, cuts>>

Unsaid == [says |-> "none", whole |-> FALSE]
ACut == cuts < MaxCuts /\ cuts' = cuts + 1

-----------------------------------------------------------------------------
(* The runner.                                                              *)

\* handle(): the request waits for the lock, then its command is started.
RunnerStarts(c) ==
  /\ handler[c] = "queued" /\ lock = NoCommand
  /\ lock' = c /\ handler' = [handler EXCEPT ![c] = "answering"] /\ process' = [process EXCEPT ![c] = "running"]
  /\ UNCHANGED <<serverVars, frozen, first, second, wire, cuts>>

\* What ends when the runner does not look any more makes no difference, and is left out.
CommandEnds(c, how) ==
  /\ process[c] = "running" /\ handler[c] \in {"answering", "following"}
  /\ process' = [process EXCEPT ![c] = how]
  /\ UNCHANGED <<serverVars, handler, lock, frozen, first, second, wire, cuts>>

\* What is written on a connection the server has let go of is lost.
Listened(c) == wire[c] = "open"

Hangs(c) == wire' = [wire EXCEPT ![c] = IF @ = "open" THEN "ended" ELSE @]

\* The command is over: its answer, and the connection's end.
RunnerAnswers(c) ==
  /\ handler[c] = "answering" /\ c \notin Tools /\ process[c] # "running"
  /\ first' = [first EXCEPT ![c] = IF Listened(c) THEN "done" ELSE @] /\ handler' = [handler EXCEPT ![c] = "over"]
  /\ frozen' = [frozen EXCEPT ![c] = TRUE] /\ lock' = NoCommand /\ Hangs(c)
  /\ UNCHANGED <<serverVars, process, second, cuts>>

\* The wait is over first: hers is followed, whoever still listens, and any other's output is let go.
RunnerAnswersStill(c) ==
  /\ handler[c] = "answering" /\ c \notin Tools
  /\ first' = [first EXCEPT ![c] = IF Listened(c) THEN "still" ELSE @] /\ lock' = NoCommand
  /\ IF c \in HerCommands
       THEN handler' = [handler EXCEPT ![c] = "following"] /\ UNCHANGED <<frozen, wire>>
       ELSE handler' = [handler EXCEPT ![c] = "over"] /\ frozen' = [frozen EXCEPT ![c] = TRUE] /\ Hangs(c)
  /\ UNCHANGED <<serverVars, process, second, cuts>>

\* Mutant: a tool is left running past its timeout.
ToolAnswersStill(c) ==
  /\ handler[c] = "answering" /\ c \in Tools
  /\ first' = [first EXCEPT ![c] = IF Listened(c) THEN "done" ELSE @] /\ handler' = [handler EXCEPT ![c] = "over"]
  /\ frozen' = [frozen EXCEPT ![c] = TRUE] /\ lock' = NoCommand /\ Hangs(c)
  /\ UNCHANGED <<serverVars, process, second, cuts>>

\* RunArgv(): at its end or its timeout, whatever is left of its process group is killed.
ToolAnswers(c) ==
  /\ handler[c] = "answering" /\ c \in Tools
  /\ process' = [process EXCEPT ![c] = IF @ = "running" THEN "signaled" ELSE @]
  /\ first' = [first EXCEPT ![c] = IF Listened(c) THEN "done" ELSE @] /\ handler' = [handler EXCEPT ![c] = "over"]
  /\ frozen' = [frozen EXCEPT ![c] = TRUE] /\ lock' = NoCommand /\ Hangs(c)
  /\ UNCHANGED <<serverVars, second, cuts>>

\* follow(): the command ends, the longest wait is over, or nobody listens any more.
RunnerTells(c, what) ==
  /\ handler[c] = "following" /\ (what = process[c] \/ what = "still")
  /\ second' = [second EXCEPT ![c] = IF Listened(c) THEN [says |-> what, whole |-> ~frozen[c]] ELSE @]
  /\ handler' = [handler EXCEPT ![c] = "over"] /\ frozen' = [frozen EXCEPT ![c] = TRUE] /\ Hangs(c)
  /\ UNCHANGED <<serverVars, lock, process, first, cuts>>

\* Mutant: what is let go of is still written to.
RunnerLetsGoGrowing(c) ==
  /\ handler[c] = "following" /\ wire[c] = "dropped"
  /\ handler' = [handler EXCEPT ![c] = "over"]
  /\ UNCHANGED <<serverVars, lock, process, frozen, first, second, wire, cuts>>

RunnerLetsGo(c) ==
  /\ handler[c] = "following" /\ wire[c] = "dropped"
  /\ handler' = [handler EXCEPT ![c] = "over"] /\ frozen' = [frozen EXCEPT ![c] = TRUE]
  /\ UNCHANGED <<serverVars, lock, process, first, second, wire, cuts>>

\* The workspace is made anew: its processes and connections are gone.
RunnerDies ==
  /\ ACut
  /\ process' = [c \in Commands |-> IF process[c] = "running" /\ handler[c] # "over" THEN "signaled" ELSE process[c]]
  /\ handler' = [c \in Commands |-> IF handler[c] = "no" THEN "no" ELSE "over"]
  /\ frozen' = [c \in Commands |-> frozen[c] \/ handler[c] # "no"]
  /\ wire' = [c \in Commands |-> IF wire[c] \in {"open", "ended"} THEN "cut" ELSE wire[c]]
  /\ lock' = NoCommand
  /\ UNCHANGED <<serverVars, first, second>>

-----------------------------------------------------------------------------
(* The server: the first answer.                                            *)

Exchange(c) ==
  /\ asking = NoCommand /\ call[c] = "new" /\ up
  /\ asking' = c /\ call' = [call EXCEPT ![c] = "asking"]
  /\ wire' = [wire EXCEPT ![c] = "open"] /\ handler' = [handler EXCEPT ![c] = "queued"]
  /\ UNCHANGED <<following, watch, end, state, readme, output, attentions, up, left, unwritten, lock, process, frozen, first, second, cuts>>

\* The call is answered, and the line goes on.
CallAnswered(c) == call' = [call EXCEPT ![c] = "answered"] /\ asking' = NoCommand
Drops(c) == wire' = [wire EXCEPT ![c] = IF @ = "open" THEN "dropped" ELSE @]

\* Over, or still running and not hers: nothing more is read.
ReadsAnswer(c) ==
  /\ call[c] = "asking" /\ (first[c] = "done" \/ (first[c] = "still" /\ c \notin HerCommands))
  /\ CallAnswered(c) /\ Drops(c)
  /\ first' = [first EXCEPT ![c] = "none"]
  /\ UNCHANGED <<following, watch, end, state, readme, output, attentions, up, left, unwritten, handler, lock, process, frozen, second, cuts>>

\* No answer read by the timeout, or the connection was cut: whether it ran is not known.
GivesUpAsking(c) ==
  /\ call[c] = "asking"
  /\ CallAnswered(c) /\ Drops(c)
  /\ first' = [first EXCEPT ![c] = "none"]
  /\ UNCHANGED <<following, watch, end, state, readme, output, attentions, up, left, unwritten, handler, lock, process, frozen, second, cuts>>

\* background(): as many are waited for as may be.
LetsGo(c) ==
  /\ call[c] = "asking" /\ c \in HerCommands /\ first[c] = "still" /\ following >= Jobs
  /\ CallAnswered(c) /\ Drops(c)
  /\ first' = [first EXCEPT ![c] = "none"]
  /\ UNCHANGED <<following, watch, end, state, readme, output, attentions, up, left, unwritten, handler, lock, process, frozen, second, cuts>>

\* Counted before the directory is made.
TakesPlace(c) ==
  /\ call[c] = "asking" /\ c \in HerCommands /\ first[c] = "still" /\ following < Jobs
  /\ following' = following + 1 /\ call' = [call EXCEPT ![c] = "placing"]
  /\ first' = [first EXCEPT ![c] = "none"]
  /\ UNCHANGED <<asking, watch, end, state, readme, output, attentions, up, left, unwritten, handler, lock, process, frozen, second, wire, cuts>>

\* ShellJobs.open(): the directory is made under another name and moved into place whole.
OpensJob(c) ==
  /\ call[c] = "placing"
  /\ state' = [state EXCEPT ![c] = "running"] /\ readme' = [readme EXCEPT ![c] = "running"]
  /\ watch' = [watch EXCEPT ![c] = "waiting"] /\ CallAnswered(c)
  /\ UNCHANGED <<following, end, output, attentions, up, left, unwritten, runnerVars, wire, cuts>>

OpenFails(c) ==
  /\ call[c] = "placing" /\ ACut
  /\ following' = following - 1 /\ CallAnswered(c) /\ Drops(c)
  /\ UNCHANGED <<watch, end, state, readme, output, attentions, up, left, unwritten, runnerVars>>

-----------------------------------------------------------------------------
(* The server: the second line.                                             *)

EndSaid(line) == IF line.says = "still" THEN "gave_up" ELSE line.says

\* Mutant: only a line ends the wait.
LostReadsLine(c) == FALSE

\* The connection ended without a line that reached the server.
Lost(c) == wire[c] = "cut" \/ (wire[c] = "ended" /\ second[c] = Unsaid)

\* watch(): the second line, or the connection's end.
WatchReads(c) ==
  /\ watch[c] = "waiting"
  /\ \/ second[c] # Unsaid /\ end' = [end EXCEPT ![c] = [says |-> EndSaid(second[c]), whole |-> second[c].whole]]
     \/ Lost(c) /\ end' = [end EXCEPT ![c] = [says |-> "lost", whole |-> FALSE]]
  /\ watch' = [watch EXCEPT ![c] = "output"]
  /\ second' = [second EXCEPT ![c] = Unsaid] /\ Drops(c)
  /\ UNCHANGED <<call, asking, following, state, readme, output, attentions, up, left, unwritten, handler, lock, process, frozen, first, cuts>>

\* The server's own limit passes first, on a runner that says nothing.
WatchGivesUp(c) ==
  /\ watch[c] = "waiting" /\ second[c] = Unsaid /\ ACut
  /\ end' = [end EXCEPT ![c] = [says |-> "gave_up", whole |-> FALSE]] /\ watch' = [watch EXCEPT ![c] = "output"]
  /\ Drops(c)
  /\ UNCHANGED <<call, asking, following, state, readme, output, attentions, up, left, unwritten, runnerVars>>

\* end(): the files of the output, when there is one.
EndsOutput(c) ==
  /\ watch[c] = "output"
  /\ output' = [output EXCEPT ![c] = end[c].whole] /\ watch' = [watch EXCEPT ![c] = "record"]
  /\ UNCHANGED <<call, asking, following, end, state, readme, attentions, up, left, unwritten, runnerVars, wire, cuts>>

\* write(): the record first.
EndsRecord(c) ==
  /\ watch[c] = "record"
  /\ state' = [state EXCEPT ![c] = end[c].says] /\ watch' = [watch EXCEPT ![c] = "readme"]
  /\ UNCHANGED <<call, asking, following, end, readme, output, attentions, up, left, unwritten, runnerVars, wire, cuts>>

\* Then the README.
EndsReadme(c) ==
  /\ watch[c] = "readme"
  /\ readme' = [readme EXCEPT ![c] = end[c].says] /\ watch' = [watch EXCEPT ![c] = "tell"]
  /\ UNCHANGED <<call, asking, following, end, state, output, attentions, up, left, unwritten, runnerVars, wire, cuts>>

\* An exit code is told by an attention.
EndsTold(c) ==
  /\ watch[c] = "tell"
  /\ attentions' = IF end[c].says = "exited" THEN [attentions EXCEPT ![c] = @ + 1] ELSE attentions
  /\ following' = following - 1 /\ watch' = [watch EXCEPT ![c] = "over"]
  /\ end' = [end EXCEPT ![c] = Unsaid]
  /\ UNCHANGED <<call, asking, state, readme, output, up, left, unwritten, runnerVars, wire, cuts>>

\* A write fails: logged, and no more.
EndFails(c) ==
  /\ watch[c] \in {"output", "record", "readme"} /\ ACut
  /\ watch' = [watch EXCEPT ![c] = "over"] /\ unwritten' = unwritten \cup {c} /\ following' = following - 1
  /\ end' = [end EXCEPT ![c] = Unsaid]
  /\ UNCHANGED <<call, asking, state, readme, output, attentions, up, left, runnerVars, wire>>

-----------------------------------------------------------------------------
(* The server ends and starts.                                              *)

ServerDies ==
  /\ ACut
  /\ call' = [c \in Commands |-> IF call[c] \in {"asking", "placing"} THEN "answered" ELSE call[c]]
  /\ watch' = [c \in Commands |-> "no"]
  /\ wire' = [c \in Commands |-> IF wire[c] \in {"open", "ended"} THEN "dropped" ELSE wire[c]]
  /\ asking' = NoCommand /\ following' = 0 /\ up' = FALSE /\ left' = {c \in Commands : state[c] = "running"}
  /\ end' = [c \in Commands |-> Unsaid] /\ first' = [c \in Commands |-> "none"] /\ second' = [c \in Commands |-> Unsaid]
  /\ UNCHANGED <<state, readme, output, attentions, unwritten, handler, lock, process, frozen>>

\* giveUpOnRunning(): the record of what was waited for, then its README; a failure is logged.
GivesUpRecord(c) ==
  /\ c \in left /\ (\A d \in Commands : watch[d] = "no")
  /\ left' = left \ {c}
  /\ \/ state' = [state EXCEPT ![c] = "restarted"] /\ watch' = [watch EXCEPT ![c] = "restart"] /\ UNCHANGED <<unwritten, cuts>>
     \/ ACut /\ unwritten' = unwritten \cup {c} /\ UNCHANGED <<state, watch>>
  /\ UNCHANGED <<call, asking, following, end, readme, output, attentions, up, runnerVars, wire>>

GivesUpReadme(c) ==
  /\ watch[c] = "restart"
  /\ watch' = [watch EXCEPT ![c] = "no"]
  /\ \/ readme' = [readme EXCEPT ![c] = "restarted"] /\ unwritten' = unwritten \ {c} /\ UNCHANGED cuts
     \/ ACut /\ unwritten' = unwritten \cup {c} /\ UNCHANGED readme
  /\ UNCHANGED <<call, asking, following, end, state, output, attentions, up, left, runnerVars, wire>>

ServerStarts ==
  /\ ~up /\ left = {} /\ (\A c \in Commands : watch[c] = "no")
  /\ up' = TRUE
  /\ UNCHANGED <<call, asking, following, watch, end, state, readme, output, attentions, left, unwritten, runnerVars, wire, cuts>>

-----------------------------------------------------------------------------
WorkspaceInit ==
  /\ call = [c \in Commands |-> "new"] /\ asking = NoCommand /\ following = 0
  /\ watch = [c \in Commands |-> "no"] /\ end = [c \in Commands |-> Unsaid]
  /\ state = [c \in Commands |-> "none"] /\ readme = [c \in Commands |-> "none"]
  /\ output = [c \in Commands |-> FALSE] /\ attentions = [c \in Commands |-> 0]
  /\ up = TRUE /\ left = {} /\ unwritten = {}
  /\ handler = [c \in Commands |-> "no"] /\ lock = NoCommand /\ process = [c \in Commands |-> "none"]
  /\ frozen = [c \in Commands |-> FALSE] /\ first = [c \in Commands |-> "none"] /\ second = [c \in Commands |-> Unsaid]
  /\ wire = [c \in Commands |-> "none"] /\ cuts = 0

RunnerGoesOn(c) ==
  \/ RunnerStarts(c) \/ RunnerAnswers(c) \/ RunnerAnswersStill(c) \/ ToolAnswers(c) \/ RunnerLetsGo(c)
  \/ \E what \in {"exited", "signaled", "still"} : RunnerTells(c, what)

ServerGoesOn(c) ==
  \/ ReadsAnswer(c) \/ GivesUpAsking(c) \/ LetsGo(c) \/ TakesPlace(c) \/ OpensJob(c) \/ WatchReads(c)
  \/ EndsOutput(c) \/ EndsRecord(c) \/ EndsReadme(c) \/ EndsTold(c) \/ GivesUpRecord(c) \/ GivesUpReadme(c)

WorkspaceNext ==
  \/ \E c \in Commands :
       \/ Exchange(c) \/ RunnerGoesOn(c) \/ ServerGoesOn(c) \/ OpenFails(c) \/ EndFails(c) \/ WatchGivesUp(c)
       \/ \E how \in {"exited", "signaled"} : CommandEnds(c, how)
  \/ RunnerDies \/ ServerDies \/ ServerStarts

WorkspaceSpec == WorkspaceInit /\ [][WorkspaceNext]_workspaceVars

\* Each connection's handler and each wait of the server goes on, every wait has a limit, and a start is finished.
WorkspaceFairness ==
  /\ \A c \in Commands : WF_workspaceVars(part = "workspace" /\ RunnerGoesOn(c)) /\ WF_workspaceVars(part = "workspace" /\ ServerGoesOn(c))
  /\ WF_workspaceVars(part = "workspace" /\ ServerStarts)

-----------------------------------------------------------------------------
(* Properties.                                                              *)

JobStates == {"none", "running", "exited", "signaled", "gave_up", "lost", "restarted"}
Ending == {"waiting", "output", "record", "readme", "tell"}

WorkspaceTypeOK ==
  /\ state \in [Commands -> JobStates] /\ readme \in [Commands -> JobStates]
  /\ watch \in [Commands -> Ending \cup {"no", "over", "restart"}]
  /\ wire \in [Commands -> {"none", "open", "dropped", "ended", "cut"}]
  /\ following \in 0..Jobs /\ left \subseteq Commands /\ cuts \in 0..MaxCuts
  /\ \A c \in Commands : frozen[c] <=> handler[c] = "over"

\* The background commands counted are those whose directory is being made or whose end is still waited for, through
\* every failure: a place is neither lost nor taken twice, and there are never more than the limit.
FollowingIsCounted ==
  following <= Jobs /\ following = Cardinality({c \in Commands : call[c] = "placing" \/ watch[c] \in Ending})

\* A directory whose record says its command is running is waited for by the process that is up, unless what came of
\* it could not be written.
RunningIsWaitedFor == up => \A c \in Commands \ unwritten : state[c] = "running" => watch[c] \in Ending

\* A directory whose README says its command is running is waited for, unless what came of it could not be written.
ReadmeIsTrue == up => \A c \in Commands \ unwritten : readme[c] = "running" => watch[c] \in Ending

\* The record of a command that is over comes with all that is kept of its output.
EndIsWhole == \A c \in Commands : state[c] \in {"exited", "signaled"} => output[c]

\* She is told once, and what the attention names is there by then.
ToldWhenWritten == \A c \in Commands : attentions[c] <= 1 /\ (attentions[c] > 0 => readme[c] = "exited" /\ output[c])

\* The runner keeps the output of a command on an open connection only while the server reads from it.
KeptForAReader ==
  \A c \in Commands : (handler[c] = "following" /\ wire[c] = "open") => call[c] \in {"asking", "placing"} \/ watch[c] = "waiting"

\* A tool's call is over when its answer is: nothing of it runs on once the runner has answered.
ToolOverWithAnswer == \A c \in Tools : handler[c] = "over" => process[c] # "running"

\* Every wait for a background command ends: its directory does not say running forever, unless a write failed.
JobsComeToEnd == \A c \in HerCommands : (state[c] = "running") ~> (state[c] # "running" \/ c \in unwritten)

\* What the limit counts, the records, the output kept and what she is told of agree with the commands that run, however
\* the connections, the server and the runner fail.
WorkspaceSafety ==
  /\ FollowingIsCounted /\ RunningIsWaitedFor /\ EndIsWhole
  /\ ToldWhenWritten /\ KeptForAReader /\ ToolOverWithAnswer
=============================================================================
