----------------------------- MODULE Inside_proofs -----------------------------
(***************************************************************************)
(* What runs inside the server, proved: the commands of the workspace, the *)
(* settings, memory, the self-checks and the output of a command, one      *)
(* after the other.                                                        *)
(***************************************************************************)
EXTENDS MCInside, RuntimeSettings, TLAPS, FiniteSetTheorems, SequenceTheorems,
  NaturalsInduction, WellFoundedInduction

-----------------------------------------------------------------------------
(***************************************************************************)
(* The commands of the workspace proved for any commands, any limit and    *)
(* any number of cuts: what the limit counts is what is waited for, a      *)
(* record that says running is waited for, the record of what is over      *)
(* comes with its output, she is told once and of what is there, nothing   *)
(* is kept for nobody, and a tool is over with its answer.                 *)
(* The inductive invariant says, for each place the wait for a command's   *)
(* end has come to, what its directory holds by then.                      *)
(***************************************************************************)

Says   == {"none", "exited", "signaled", "still", "gave_up", "lost"}
PlacesHeld == {c \in Commands : call[c] = "placing" \/ watch[c] \in Ending}

\* What the variables of the server hold.
ServerTypes ==
  /\ call \in [Commands -> {"new", "asking", "placing", "answered"}]
  /\ watch \in [Commands -> Ending \cup {"no", "over", "restart"}]
  /\ end \in [Commands -> [says : Says, whole : BOOLEAN]]
  /\ state \in [Commands -> JobStates] /\ readme \in [Commands -> JobStates]
  /\ output \in [Commands -> BOOLEAN] /\ attentions \in [Commands -> Nat]
  /\ up \in BOOLEAN /\ left \subseteq Commands /\ cuts \in 0..MaxCuts

\* And those of the runner.
RunnerTypes ==
  /\ handler \in [Commands -> {"no", "queued", "answering", "following", "over"}]
  /\ process \in [Commands -> {"none", "running", "exited", "signaled"}]
  /\ frozen \in [Commands -> BOOLEAN]
  /\ first \in [Commands -> {"none", "done", "still"}]
  /\ second \in [Commands -> [says : Says, whole : BOOLEAN]]
  /\ wire \in [Commands -> {"none", "open", "dropped", "ended", "cut"}]

\* The places taken are those of the commands counted.
PlacesInv == IsFiniteSet(PlacesHeld) /\ following = Cardinality(PlacesHeld) /\ following <= Jobs

\* A command's directory, by where the wait for its end is.
JobStage(c) ==
  /\ call[c] \in {"new", "asking", "placing"} => state[c] = "none" /\ watch[c] = "no" /\ attentions[c] = 0
  /\ watch[c] \in {"waiting", "output", "record"} => state[c] = "running"
  /\ watch[c] \in {"output", "record", "readme", "tell"} =>
       end[c].says \in {"exited", "signaled", "gave_up", "lost"} /\ (end[c].says \in {"exited", "signaled"} => end[c].whole)
  /\ watch[c] \in {"record", "readme", "tell"} => output[c] = end[c].whole
  /\ watch[c] \in {"readme", "tell"} => state[c] = end[c].says
  /\ watch[c] = "tell" => readme[c] = end[c].says
  /\ watch[c] \in Ending => attentions[c] = 0
  /\ watch[c] = "restart" => state[c] = "restarted"
  /\ state[c] \in {"exited", "signaled"} => output[c]
  /\ attentions[c] <= 1 /\ (attentions[c] > 0 => state[c] = "exited" /\ readme[c] = "exited")

\* What the process that is up, or is starting, still has to do about it.
WaitedFor(c) ==
  /\ up => watch[c] # "restart" /\ (c \notin unwritten /\ state[c] = "running" => watch[c] \in Ending)
  /\ ~up => /\ call[c] \notin {"asking", "placing"} /\ watch[c] \in {"no", "restart"}
            /\ c \notin unwritten /\ state[c] = "running" => c \in left
            /\ c \in left => state[c] = "running"

\* Its connection, its handler and its process.
LineOf(c) ==
  /\ wire[c] = "open" => call[c] \in {"asking", "placing"} \/ watch[c] = "waiting"
  /\ frozen[c] <=> handler[c] = "over"
  /\ call[c] = "new" => handler[c] = "no"
  /\ handler[c] \in {"no", "queued"} => process[c] = "none"
  /\ c \in Tools => handler[c] # "following" /\ (handler[c] = "over" => process[c] # "running")
  /\ second[c].says \in {"none", "exited", "signaled", "still"} /\ (second[c].says = "none" => second[c] = Unsaid)
  /\ second[c].says \in {"exited", "signaled"} => second[c].whole

Directories == \A c \in Commands : JobStage(c) /\ WaitedFor(c)
Connections == \A c \in Commands : LineOf(c)

WorkspaceIInv == ServerTypes /\ RunnerTypes /\ PlacesInv /\ (up => left = {}) /\ Directories /\ Connections
-----------------------------------------------------------------------------
(*                               the places                                 *)

\* The same commands are counted.
LEMMA SamePlaces == ASSUME PlacesInv, PlacesHeld' = PlacesHeld, following' = following PROVE PlacesInv'
  BY DEF PlacesInv

\* One more is.
LEMMA PlaceTaken ==
  ASSUME PlacesInv, NEW c \in Commands, c \notin PlacesHeld, following < Jobs, PlacesHeld' = PlacesHeld \cup {c}, following' = following + 1
  PROVE  PlacesInv'
<1>1. following \in Nat /\ Jobs \in Nat
  BY WorkspaceAssumption, FS_CardinalityType DEF PlacesInv
<1>2. IsFiniteSet(PlacesHeld \cup {c}) /\ Cardinality(PlacesHeld \cup {c}) = Cardinality(PlacesHeld) + 1
  BY FS_AddElement DEF PlacesInv
<1> QED BY <1>1, <1>2 DEF PlacesInv

\* One less is.
LEMMA PlaceGiven ==
  ASSUME PlacesInv, NEW c \in PlacesHeld, PlacesHeld' = PlacesHeld \ {c}, following' = following - 1
  PROVE  PlacesInv'
<1>1. following \in Nat /\ Jobs \in Nat
  BY WorkspaceAssumption, FS_CardinalityType DEF PlacesInv
<1>2. IsFiniteSet(PlacesHeld \ {c}) /\ Cardinality(PlacesHeld \ {c}) = Cardinality(PlacesHeld) - 1
  BY FS_RemoveElement DEF PlacesInv
<1> QED BY <1>1, <1>2 DEF PlacesInv

\* A step about one command that counts or does not count it as before.
LEMMA CountedAsBefore ==
  ASSUME NEW c \in Commands, \A d \in Commands \ {c} : call'[d] = call[d] /\ watch'[d] = watch[d],
         (call'[c] = "placing" \/ watch'[c] \in Ending) <=> (call[c] = "placing" \/ watch[c] \in Ending)
  PROVE  PlacesHeld' = PlacesHeld
  BY DEF PlacesHeld

-----------------------------------------------------------------------------
(*                        what a step leaves alone                          *)

\* A step about one command: what is so of the others stays so.
LEMMA OthersKept ==
  ASSUME Directories, Connections, NEW c \in Commands, UNCHANGED up,
         \A d \in Commands \ {c} :
            /\ call'[d] = call[d] /\ watch'[d] = watch[d] /\ end'[d] = end[d] /\ state'[d] = state[d]
            /\ readme'[d] = readme[d] /\ output'[d] = output[d] /\ attentions'[d] = attentions[d]
            /\ (d \in left' <=> d \in left) /\ (d \in unwritten' <=> d \in unwritten)
            /\ handler'[d] = handler[d] /\ process'[d] = process[d] /\ frozen'[d] = frozen[d]
            /\ second'[d] = second[d] /\ wire'[d] = wire[d],
         JobStage(c)', WaitedFor(c)', LineOf(c)'
  PROVE  Directories' /\ Connections'
<1> SUFFICES ASSUME NEW d \in Commands \ {c} PROVE JobStage(d)' /\ WaitedFor(d)' /\ LineOf(d)'
  BY DEF Directories, Connections
<1>1. JobStage(d) /\ WaitedFor(d) /\ LineOf(d)
  BY DEF Directories, Connections
<1> QED BY <1>1 DEF JobStage, WaitedFor, LineOf

\* A step of the runner about one command.
LEMMA RunnerKept ==
  ASSUME WorkspaceIInv, NEW c \in Commands, UNCHANGED <<serverVars, cuts>>, RunnerTypes',
         \A d \in Commands \ {c} :
            /\ handler'[d] = handler[d] /\ process'[d] = process[d] /\ frozen'[d] = frozen[d]
            /\ second'[d] = second[d] /\ wire'[d] = wire[d],
         LineOf(c)'
  PROVE  WorkspaceIInv'
<1>1. UNCHANGED <<call, watch, end, state, readme, output, attentions, following, up, left, unwritten, cuts>>
  BY DEF serverVars
<1>2. ServerTypes' /\ PlacesInv'
  BY <1>1, SamePlaces DEF WorkspaceIInv, ServerTypes, PlacesHeld
<1>3. JobStage(c)' /\ WaitedFor(c)'
  BY <1>1 DEF WorkspaceIInv, Directories, JobStage, WaitedFor
<1>4. Directories' /\ Connections'
  BY <1>1, <1>3, OthersKept DEF WorkspaceIInv
<1> QED BY <1>1, <1>2, <1>4 DEF WorkspaceIInv

-----------------------------------------------------------------------------
(*                               the runner                                 *)

LEMMA RunnerStartStep == ASSUME WorkspaceIInv, NEW c \in Commands, RunnerStarts(c) PROVE WorkspaceIInv'
<1>1. RunnerTypes' /\ UNCHANGED <<serverVars, cuts>>
  BY DEF WorkspaceIInv, RunnerStarts, RunnerTypes
<1>2. LineOf(c)'
  BY DEF WorkspaceIInv, RunnerStarts, RunnerTypes, Connections, LineOf, serverVars
<1> QED BY <1>1, <1>2, RunnerKept DEF WorkspaceIInv, RunnerTypes, RunnerStarts

LEMMA CommandEndStep == ASSUME WorkspaceIInv, NEW c \in Commands, NEW how \in {"exited", "signaled"}, CommandEnds(c, how) PROVE WorkspaceIInv'
<1>1. RunnerTypes' /\ UNCHANGED <<serverVars, cuts>>
  BY DEF WorkspaceIInv, CommandEnds, RunnerTypes
<1>2. LineOf(c)'
  BY DEF WorkspaceIInv, CommandEnds, RunnerTypes, Connections, LineOf, serverVars
<1> QED BY <1>1, <1>2, RunnerKept DEF WorkspaceIInv, RunnerTypes, CommandEnds

LEMMA AnswerSteps ==
  ASSUME WorkspaceIInv, NEW c \in Commands, RunnerAnswers(c) \/ RunnerAnswersStill(c) \/ ToolAnswers(c) PROVE WorkspaceIInv'
<1> USE DEF RunnerAnswers, RunnerAnswersStill, ToolAnswers, Hangs
<1>1. UNCHANGED <<serverVars, cuts, second>> /\ handler[c] = "answering"
  OBVIOUS
<1>2. RunnerTypes'
  BY DEF WorkspaceIInv, RunnerTypes
<1>3. LineOf(c)'
  BY <1>1 DEF WorkspaceIInv, RunnerTypes, Connections, LineOf, serverVars, Listened
<1>4. \A d \in Commands \ {c} : /\ handler'[d] = handler[d] /\ process'[d] = process[d] /\ frozen'[d] = frozen[d]
                               /\ second'[d] = second[d] /\ wire'[d] = wire[d]
  BY DEF WorkspaceIInv, RunnerTypes
<1> HIDE DEF RunnerAnswers, RunnerAnswersStill, ToolAnswers, Hangs
<1> QED BY <1>1, <1>2, <1>3, <1>4, RunnerKept

LEMMA TellStep == ASSUME WorkspaceIInv, NEW c \in Commands, NEW what \in {"exited", "signaled", "still"}, RunnerTells(c, what) PROVE WorkspaceIInv'
<1>1. /\ handler[c] = "following" /\ UNCHANGED <<serverVars, process, first, cuts>>
      /\ second' = [second EXCEPT ![c] = IF Listened(c) THEN [says |-> what, whole |-> ~frozen[c]] ELSE @]
      /\ handler' = [handler EXCEPT ![c] = "over"] /\ frozen' = [frozen EXCEPT ![c] = TRUE] /\ Hangs(c)
  BY DEF RunnerTells
<1>2. frozen[c] = FALSE
  BY <1>1 DEF WorkspaceIInv, RunnerTypes, Connections, LineOf
<1>3. second' = [second EXCEPT ![c] = IF Listened(c) THEN [says |-> what, whole |-> TRUE] ELSE @]
  BY <1>1, <1>2
<1>4. RunnerTypes'
  BY <1>1, <1>3 DEF WorkspaceIInv, RunnerTypes, Hangs, Says
<1>5. LineOf(c)'
  BY <1>1, <1>3 DEF WorkspaceIInv, RunnerTypes, Connections, LineOf, serverVars, Hangs
<1> QED BY <1>1, <1>3, <1>4, <1>5, RunnerKept DEF WorkspaceIInv, RunnerTypes, Hangs

LEMMA LetGoStep == ASSUME WorkspaceIInv, NEW c \in Commands, RunnerLetsGo(c) PROVE WorkspaceIInv'
<1>1. RunnerTypes' /\ UNCHANGED <<serverVars, cuts>>
  BY DEF WorkspaceIInv, RunnerLetsGo, RunnerTypes
<1>2. LineOf(c)'
  BY DEF WorkspaceIInv, RunnerLetsGo, RunnerTypes, Connections, LineOf, serverVars
<1> QED BY <1>1, <1>2, RunnerKept DEF WorkspaceIInv, RunnerTypes, RunnerLetsGo

\* A cut within the bound.
LEMMA CutCounted == ASSUME cuts \in 0..MaxCuts, ACut PROVE cuts' \in 0..MaxCuts
  BY WorkspaceAssumption DEF ACut

LEMMA RunnerDiesStep == ASSUME WorkspaceIInv, RunnerDies PROVE WorkspaceIInv'
<1> USE DEF RunnerDies
<1>1. UNCHANGED <<call, watch, end, state, readme, output, attentions, following, up, left, unwritten, second, first>>
  BY DEF serverVars
<1>2. ServerTypes' /\ PlacesInv'
  BY <1>1, CutCounted, SamePlaces DEF WorkspaceIInv, ServerTypes, PlacesHeld
<1>3. RunnerTypes'
  BY <1>1 DEF WorkspaceIInv, RunnerTypes
<1>4. Directories'
  BY <1>1 DEF WorkspaceIInv, Directories, JobStage, WaitedFor
<1>5. ASSUME NEW c \in Commands PROVE LineOf(c)'
  BY <1>1 DEF WorkspaceIInv, RunnerTypes, Connections, LineOf
<1> QED BY <1>1, <1>2, <1>3, <1>4, <1>5 DEF WorkspaceIInv, Connections
-----------------------------------------------------------------------------
(*                               the server                                 *)

\* A step of the server about one command, while what is to be given up by a start stays.
LEMMA ServerKept ==
  ASSUME WorkspaceIInv, NEW c \in Commands, UNCHANGED <<up, process, frozen>>, up => left' = {},
         ServerTypes', RunnerTypes', PlacesInv',
         \A d \in Commands \ {c} :
            /\ call'[d] = call[d] /\ watch'[d] = watch[d] /\ end'[d] = end[d] /\ state'[d] = state[d]
            /\ readme'[d] = readme[d] /\ output'[d] = output[d] /\ attentions'[d] = attentions[d]
            /\ (d \in left' <=> d \in left) /\ (d \in unwritten' <=> d \in unwritten)
            /\ handler'[d] = handler[d] /\ second'[d] = second[d] /\ wire'[d] = wire[d],
         JobStage(c)', WaitedFor(c)', LineOf(c)'
  PROVE  WorkspaceIInv'
<1>1. Directories' /\ Connections'
  BY OthersKept DEF WorkspaceIInv
<1> QED BY <1>1 DEF WorkspaceIInv

\* What the invariant says of one command.
LEMMA OfCommand ==
  ASSUME WorkspaceIInv, NEW c \in Commands
  PROVE  /\ JobStage(c) /\ WaitedFor(c) /\ LineOf(c)
         /\ call[c] \in {"new", "asking", "placing", "answered"} /\ watch[c] \in Ending \cup {"no", "over", "restart"}
         /\ up \in BOOLEAN /\ end[c] \in [says : Says, whole : BOOLEAN] /\ attentions[c] \in Nat
         /\ second[c] \in [says : Says, whole : BOOLEAN]
  BY DEF WorkspaceIInv, Directories, Connections, ServerTypes, RunnerTypes

LEMMA ExchangeStep == ASSUME WorkspaceIInv, NEW c \in Commands, Exchange(c) PROVE WorkspaceIInv'
<1> USE DEF Exchange
<1>1. JobStage(c) /\ WaitedFor(c) /\ LineOf(c) /\ up
  BY OfCommand
<1>2. ServerTypes' /\ RunnerTypes'
  BY DEF WorkspaceIInv, ServerTypes, RunnerTypes
<1>3. /\ call'[c] = "asking" /\ watch' = watch /\ handler'[c] = "queued" /\ wire'[c] = "open"
      /\ \A d \in Commands \ {c} : call'[d] = call[d] /\ handler'[d] = handler[d] /\ wire'[d] = wire[d]
  BY DEF WorkspaceIInv, ServerTypes, RunnerTypes
<1>4. PlacesInv'
  <2>1. PlacesHeld' = PlacesHeld
    BY <1>3, CountedAsBefore
  <2> QED BY <2>1, SamePlaces DEF WorkspaceIInv
<1>5. JobStage(c)' /\ WaitedFor(c)'
  BY <1>1, <1>3 DEF JobStage, WaitedFor
<1>6. LineOf(c)'
  BY <1>1, <1>3 DEF LineOf
<1> QED BY <1>2, <1>3, <1>4, <1>5, <1>6, ServerKept DEF WorkspaceIInv

\* The call is answered with nothing to wait for.
LEMMA AnsweredSteps ==
  ASSUME WorkspaceIInv, NEW c \in Commands, ReadsAnswer(c) \/ GivesUpAsking(c) \/ LetsGo(c) PROVE WorkspaceIInv'
<1>1. /\ call[c] = "asking" /\ CallAnswered(c) /\ Drops(c) /\ first' = [first EXCEPT ![c] = "none"]
      /\ UNCHANGED <<following, watch, end, state, readme, output, attentions, up, left, unwritten, handler, process, frozen, second, cuts>>
  BY DEF ReadsAnswer, GivesUpAsking, LetsGo
<1>2. JobStage(c) /\ WaitedFor(c) /\ LineOf(c) /\ watch[c] = "no"
  BY <1>1, OfCommand DEF JobStage
<1>3. ServerTypes' /\ RunnerTypes'
  BY <1>1 DEF WorkspaceIInv, ServerTypes, RunnerTypes, CallAnswered, Drops
<1>4. /\ call'[c] = "answered" /\ wire'[c] # "open"
      /\ \A d \in Commands \ {c} : call'[d] = call[d] /\ wire'[d] = wire[d]
  BY <1>1 DEF WorkspaceIInv, ServerTypes, RunnerTypes, CallAnswered, Drops
<1>5. PlacesInv'
  <2>1. PlacesHeld' = PlacesHeld
    BY <1>1, <1>4, CountedAsBefore
  <2> QED BY <1>1, <2>1, SamePlaces DEF WorkspaceIInv
<1>6. JobStage(c)' /\ WaitedFor(c)'
  BY <1>1, <1>2, <1>4 DEF JobStage, WaitedFor
<1>7. LineOf(c)'
  BY <1>1, <1>2, <1>4 DEF LineOf
<1> QED BY <1>1, <1>3, <1>4, <1>5, <1>6, <1>7, ServerKept DEF WorkspaceIInv

LEMMA PlaceStep == ASSUME WorkspaceIInv, NEW c \in Commands, TakesPlace(c) PROVE WorkspaceIInv'
<1> USE DEF TakesPlace
<1>1. JobStage(c) /\ WaitedFor(c) /\ LineOf(c) /\ watch[c] = "no"
  BY OfCommand DEF JobStage
<1>2. ServerTypes' /\ RunnerTypes'
  BY DEF WorkspaceIInv, ServerTypes, RunnerTypes
<1>3. call'[c] = "placing" /\ \A d \in Commands \ {c} : call'[d] = call[d]
  BY DEF WorkspaceIInv, ServerTypes
<1>4. PlacesInv'
  <2>1. c \notin PlacesHeld /\ PlacesHeld' = PlacesHeld \cup {c}
    BY <1>1, <1>3 DEF PlacesHeld, Ending
  <2> QED BY <2>1, PlaceTaken DEF WorkspaceIInv
<1>5. JobStage(c)' /\ WaitedFor(c)'
  BY <1>1, <1>3 DEF JobStage, WaitedFor
<1>6. LineOf(c)'
  BY <1>1, <1>3 DEF LineOf
<1> QED BY <1>2, <1>3, <1>4, <1>5, <1>6, ServerKept DEF WorkspaceIInv

LEMMA OpenSteps == ASSUME WorkspaceIInv, NEW c \in Commands, OpensJob(c) \/ OpenFails(c) PROVE WorkspaceIInv'
<1>1. JobStage(c) /\ WaitedFor(c) /\ LineOf(c) /\ call[c] = "placing" /\ watch[c] = "no" /\ up
  BY OfCommand DEF JobStage, WaitedFor, OpensJob, OpenFails
<1>2. call'[c] = "answered" /\ (\A d \in Commands \ {c} : call'[d] = call[d]) /\ UNCHANGED <<left, unwritten, up>>
  BY DEF WorkspaceIInv, ServerTypes, OpensJob, OpenFails, CallAnswered
<1>3. CASE OpensJob(c)
  <2> USE DEF OpensJob, runnerVars
  <2>1. ServerTypes' /\ RunnerTypes'
    BY <1>3 DEF WorkspaceIInv, ServerTypes, RunnerTypes, CallAnswered, JobStates, Ending
  <2>2. /\ watch'[c] = "waiting" /\ state'[c] = "running" /\ \A d \in Commands \ {c} :
              watch'[d] = watch[d] /\ state'[d] = state[d] /\ readme'[d] = readme[d]
    BY <1>3 DEF WorkspaceIInv, ServerTypes
  <2>3. PlacesInv'
    <3>1. PlacesHeld' = PlacesHeld
      BY <1>1, <1>2, <2>2, CountedAsBefore DEF Ending
    <3> QED BY <1>3, <3>1, SamePlaces DEF WorkspaceIInv
  <2>4. JobStage(c)' /\ WaitedFor(c)'
    BY <1>1, <1>2, <1>3, <2>2 DEF JobStage, WaitedFor, Ending
  <2>5. LineOf(c)'
    BY <1>1, <1>2, <1>3, <2>2 DEF LineOf
  <2> QED BY <1>2, <1>3, <2>1, <2>2, <2>3, <2>4, <2>5, ServerKept DEF WorkspaceIInv
<1>4. CASE OpenFails(c)
  <2> USE DEF OpenFails, runnerVars, Drops
  <2>1. ServerTypes' /\ RunnerTypes'
    BY <1>4, CutCounted DEF WorkspaceIInv, ServerTypes, RunnerTypes, CallAnswered
  <2>2. wire'[c] # "open" /\ \A d \in Commands \ {c} : wire'[d] = wire[d]
    BY <1>4 DEF WorkspaceIInv, RunnerTypes
  <2>3. PlacesInv'
    <3>1. c \in PlacesHeld /\ PlacesHeld' = PlacesHeld \ {c}
      BY <1>1, <1>2, <1>4 DEF PlacesHeld, Ending
    <3> QED BY <1>4, <3>1, PlaceGiven DEF WorkspaceIInv
  <2>4. JobStage(c)' /\ WaitedFor(c)'
    BY <1>1, <1>2, <1>4, <2>2 DEF JobStage, WaitedFor
  <2>5. LineOf(c)'
    BY <1>1, <1>2, <1>4, <2>2 DEF LineOf
  <2> QED BY <1>2, <1>4, <2>1, <2>2, <2>3, <2>4, <2>5, ServerKept DEF WorkspaceIInv
<1> QED BY <1>3, <1>4
\* The wait for its end is over.
LEMMA WatchSteps == ASSUME WorkspaceIInv, NEW c \in Commands, WatchReads(c) \/ WatchGivesUp(c) PROVE WorkspaceIInv'
<1>1. /\ watch[c] = "waiting" /\ watch' = [watch EXCEPT ![c] = "output"] /\ Drops(c)
      /\ UNCHANGED <<call, asking, following, state, readme, output, attentions, up, left, unwritten, handler, lock, process, frozen, first>>
      /\ second' = second \/ second' = [second EXCEPT ![c] = Unsaid]
      /\ cuts' = cuts \/ ACut
  BY DEF WatchReads, WatchGivesUp, runnerVars
<1>2. JobStage(c) /\ WaitedFor(c) /\ LineOf(c) /\ second[c] \in [says : Says, whole : BOOLEAN]
  BY OfCommand
<1> DEFINE Kept == {e \in [says : {"exited", "signaled", "gave_up", "lost"}, whole : BOOLEAN] :
                      e.says \in {"exited", "signaled"} => e.whole}
<1>3. PICK e \in Kept : end' = [end EXCEPT ![c] = e]
  <2>1. CASE WatchReads(c) /\ second[c] # Unsaid /\ end' = [end EXCEPT ![c] = [says |-> EndSaid(second[c]), whole |-> second[c].whole]]
    <3>1. second[c].says \in {"exited", "signaled", "still"}
      BY <1>2, <2>1 DEF LineOf
    <3>2. EndSaid(second[c]) \in {"exited", "signaled", "gave_up"} /\ (EndSaid(second[c]) # "gave_up" => second[c].whole)
      BY <1>2, <3>1 DEF EndSaid, LineOf
    <3>3. [says |-> EndSaid(second[c]), whole |-> second[c].whole] \in Kept
      BY <1>2, <3>2
    <3> HIDE DEF Kept
    <3> QED BY <2>1, <3>3
  <2>2. CASE end' = [end EXCEPT ![c] = [says |-> "lost", whole |-> FALSE]]
    <3>1. [says |-> "lost", whole |-> FALSE] \in Kept
      OBVIOUS
    <3> HIDE DEF Kept
    <3> QED BY <2>2, <3>1
  <2>3. CASE end' = [end EXCEPT ![c] = [says |-> "gave_up", whole |-> FALSE]]
    <3>1. [says |-> "gave_up", whole |-> FALSE] \in Kept
      OBVIOUS
    <3> HIDE DEF Kept
    <3> QED BY <2>3, <3>1
  <2> HIDE DEF Kept
  <2> QED BY <2>1, <2>2, <2>3 DEF WatchReads, WatchGivesUp
<1>4. ServerTypes' /\ RunnerTypes'
  <2>1. cuts' \in 0..MaxCuts
    BY <1>1, CutCounted DEF WorkspaceIInv, ServerTypes
  <2>2. Unsaid \in [says : Says, whole : BOOLEAN] /\ e \in [says : Says, whole : BOOLEAN]
    BY DEF Unsaid, Says
  <2> HIDE DEF Kept
  <2>3. watch' \in [Commands -> Ending \cup {"no", "over", "restart"}] /\ end' \in [Commands -> [says : Says, whole : BOOLEAN]]
    BY <1>1, <1>3, <2>2 DEF WorkspaceIInv, ServerTypes, Ending
  <2>4. ServerTypes'
    BY <1>1, <2>1, <2>3 DEF WorkspaceIInv, ServerTypes
  <2>5. RunnerTypes'
    BY <1>1, <2>2 DEF WorkspaceIInv, RunnerTypes, Drops
  <2> QED BY <2>4, <2>5
<1>5. /\ watch'[c] = "output" /\ end'[c] = e /\ wire'[c] # "open" /\ second'[c] \in {second[c], Unsaid}
      /\ \A d \in Commands \ {c} : watch'[d] = watch[d] /\ end'[d] = end[d] /\ second'[d] = second[d] /\ wire'[d] = wire[d]
  BY <1>1, <1>3 DEF WorkspaceIInv, ServerTypes, RunnerTypes, Drops
<1>6. PlacesInv'
  <2>1. PlacesHeld' = PlacesHeld
    BY <1>1, <1>5, CountedAsBefore DEF Ending
  <2> QED BY <1>1, <2>1, SamePlaces DEF WorkspaceIInv
<1>7. JobStage(c)' /\ WaitedFor(c)'
  BY <1>1, <1>2, <1>3, <1>5 DEF JobStage, WaitedFor, Ending
<1>8. LineOf(c)'
  <2>1. LineOf(c) /\ watch[c] = "waiting" /\ wire'[c] # "open" /\ UNCHANGED <<call, handler, process, frozen>>
    BY <1>1, <1>2, <1>5
  <2>2. CASE second'[c] = second[c]
    BY <2>1, <2>2 DEF LineOf
  <2>3. CASE second'[c] = Unsaid
    BY <2>1, <2>3 DEF LineOf, Unsaid
  <2> QED BY <1>5, <2>2, <2>3
<1> QED BY <1>1, <1>4, <1>5, <1>6, <1>7, <1>8, ServerKept DEF WorkspaceIInv

\* What ended is written: its output, its record, its README.
LEMMA WriteSteps ==
  ASSUME WorkspaceIInv, NEW c \in Commands, EndsOutput(c) \/ EndsRecord(c) \/ EndsReadme(c) PROVE WorkspaceIInv'
<1>1. /\ watch[c] \in {"output", "record", "readme"} /\ UNCHANGED <<call, following, end, attentions, up, left, unwritten, runnerVars, wire, cuts>>
      /\ JobStage(c) /\ WaitedFor(c) /\ LineOf(c) /\ end[c] \in [says : Says, whole : BOOLEAN]
  BY OfCommand DEF EndsOutput, EndsRecord, EndsReadme
<1>2. PICK next \in {"record", "readme", "tell"} : watch' = [watch EXCEPT ![c] = next]
  BY DEF EndsOutput, EndsRecord, EndsReadme
<1>3. end[c].says \in {"exited", "signaled", "gave_up", "lost"} /\ end[c].whole \in BOOLEAN
  BY <1>1 DEF JobStage
<1>4. ServerTypes' /\ RunnerTypes'
  <2>1. RunnerTypes'
    BY <1>1 DEF WorkspaceIInv, RunnerTypes, runnerVars
  <2>2. watch' \in [Commands -> Ending \cup {"no", "over", "restart"}]
    BY <1>2 DEF WorkspaceIInv, ServerTypes, Ending
  <2>3. /\ state \in [Commands -> JobStates] /\ readme \in [Commands -> JobStates] /\ output \in [Commands -> BOOLEAN]
        /\ end[c].says \in JobStates
    BY <1>3 DEF WorkspaceIInv, ServerTypes, JobStates
  <2>4. output' \in [Commands -> BOOLEAN]
    <3>1. CASE EndsOutput(c)
      BY <1>3, <2>3, <3>1 DEF EndsOutput
    <3> QED BY <2>3, <3>1 DEF EndsRecord, EndsReadme
  <2>5. state' \in [Commands -> JobStates] /\ readme' \in [Commands -> JobStates]
    <3>1. CASE EndsRecord(c)
      BY <2>3, <3>1 DEF EndsRecord
    <3>2. CASE EndsReadme(c)
      BY <2>3, <3>2 DEF EndsReadme
    <3> QED BY <2>3, <3>1, <3>2 DEF EndsOutput
  <2>6. /\ call' \in [Commands -> {"new", "asking", "placing", "answered"}]
        /\ end' \in [Commands -> [says : Says, whole : BOOLEAN]] /\ attentions' \in [Commands -> Nat]
        /\ up' \in BOOLEAN /\ left' \subseteq Commands /\ cuts' \in 0..MaxCuts
    BY <1>1 DEF WorkspaceIInv, ServerTypes
  <2> QED BY <2>1, <2>2, <2>4, <2>5, <2>6 DEF ServerTypes
<1>5. /\ watch'[c] = next /\ \A d \in Commands \ {c} :
             watch'[d] = watch[d] /\ output'[d] = output[d] /\ state'[d] = state[d] /\ readme'[d] = readme[d]
  BY <1>2 DEF WorkspaceIInv, ServerTypes, EndsOutput, EndsRecord, EndsReadme
<1>6. PlacesInv'
  <2>1. PlacesHeld' = PlacesHeld
    BY <1>1, <1>5, CountedAsBefore DEF Ending
  <2> QED BY <1>1, <2>1, SamePlaces DEF WorkspaceIInv
<1>7. JobStage(c)' /\ WaitedFor(c)'
  <2>1. CASE EndsOutput(c)
    <3>1. watch[c] = "output" /\ watch'[c] = "record" /\ output'[c] = end[c].whole /\ state' = state /\ readme' = readme
      BY <2>1 DEF WorkspaceIInv, ServerTypes, EndsOutput
    <3> QED BY <1>1, <3>1 DEF JobStage, WaitedFor, Ending
  <2>2. CASE EndsRecord(c)
    <3>1. watch[c] = "record" /\ watch'[c] = "readme" /\ state'[c] = end[c].says /\ output' = output /\ readme' = readme
      BY <2>2 DEF WorkspaceIInv, ServerTypes, EndsRecord
    <3> QED BY <1>1, <1>3, <3>1 DEF JobStage, WaitedFor, Ending
  <2>3. CASE EndsReadme(c)
    <3>1. watch[c] = "readme" /\ watch'[c] = "tell" /\ readme'[c] = end[c].says /\ output' = output /\ state' = state
      BY <2>3 DEF WorkspaceIInv, ServerTypes, EndsReadme
    <3> QED BY <1>1, <3>1 DEF JobStage, WaitedFor, Ending
  <2> QED BY <2>1, <2>2, <2>3
<1>8. LineOf(c)'
  BY <1>1, <1>2, <1>5 DEF LineOf, runnerVars
<1> QED BY <1>1, <1>4, <1>5, <1>6, <1>7, <1>8, ServerKept DEF WorkspaceIInv, runnerVars

\* The wait is given up to another: its place is free.
LEMMA OverSteps == ASSUME WorkspaceIInv, NEW c \in Commands, EndsTold(c) \/ EndFails(c) PROVE WorkspaceIInv'
<1>1. /\ watch[c] \in {"output", "record", "readme", "tell"} /\ watch' = [watch EXCEPT ![c] = "over"]
      /\ following' = following - 1 /\ end' = [end EXCEPT ![c] = Unsaid]
      /\ UNCHANGED <<call, state, readme, output, up, left, runnerVars, wire>>
      /\ JobStage(c) /\ WaitedFor(c) /\ LineOf(c) /\ attentions[c] \in Nat
      /\ cuts' = cuts \/ ACut
      /\ unwritten' = unwritten \/ unwritten' = unwritten \cup {c}
      /\ watch[c] # "tell" => c \in unwritten'
  BY OfCommand DEF EndsTold, EndFails
<1>2. attentions' = attentions \/ (watch[c] = "tell" /\ end[c].says = "exited" /\ attentions' = [attentions EXCEPT ![c] = @ + 1])
  BY DEF EndsTold, EndFails
<1>3. ServerTypes' /\ RunnerTypes'
  <2>1. cuts' \in 0..MaxCuts
    BY <1>1, CutCounted DEF WorkspaceIInv, ServerTypes
  <2>2. attentions' \in [Commands -> Nat]
    BY <1>2 DEF WorkspaceIInv, ServerTypes
  <2> QED BY <1>1, <2>1, <2>2 DEF WorkspaceIInv, ServerTypes, RunnerTypes, runnerVars, Unsaid, Says
<1>4. /\ watch'[c] = "over" /\ \A d \in Commands \ {c} :
             watch'[d] = watch[d] /\ end'[d] = end[d] /\ attentions'[d] = attentions[d]
  BY <1>1, <1>2 DEF WorkspaceIInv, ServerTypes
<1>5. PlacesInv'
  <2>1. c \in PlacesHeld /\ PlacesHeld' = PlacesHeld \ {c}
    BY <1>1, <1>4 DEF PlacesHeld, Ending, WorkspaceIInv, Directories, JobStage
  <2> QED BY <1>1, <2>1, PlaceGiven DEF WorkspaceIInv
<1>6. /\ attentions[c] = 0 /\ (attentions'[c] = 0 \/ (attentions'[c] = 1 /\ watch[c] = "tell" /\ end[c].says = "exited"))
      /\ call[c] \notin {"new", "asking", "placing"}
  BY <1>1, <1>2 DEF JobStage, Ending, WorkspaceIInv, ServerTypes
<1>7. JobStage(c)' /\ WaitedFor(c)'
  BY <1>1, <1>4, <1>6 DEF JobStage, WaitedFor, Ending
<1>8. LineOf(c)'
  BY <1>1, <1>4 DEF LineOf, runnerVars
<1> QED BY <1>1, <1>3, <1>4, <1>5, <1>7, <1>8, ServerKept DEF WorkspaceIInv, runnerVars

-----------------------------------------------------------------------------
(*                          the server's start                              *)

LEMMA GiveUpRecordStep == ASSUME WorkspaceIInv, NEW c \in Commands, GivesUpRecord(c) PROVE WorkspaceIInv'
<1>1. /\ c \in left /\ (\A d \in Commands : watch[d] = "no") /\ left' = left \ {c}
      /\ UNCHANGED <<call, following, end, readme, output, attentions, up, runnerVars, wire>>
      /\ \/ /\ state' = [state EXCEPT ![c] = "restarted"] /\ watch' = [watch EXCEPT ![c] = "restart"]
            /\ UNCHANGED <<unwritten, cuts>>
         \/ ACut /\ unwritten' = unwritten \cup {c} /\ UNCHANGED <<state, watch>>
  BY DEF GivesUpRecord
<1>2. JobStage(c) /\ WaitedFor(c) /\ LineOf(c) /\ ~up /\ state[c] = "running" /\ watch[c] = "no" /\ up \in BOOLEAN
  BY <1>1, OfCommand DEF WorkspaceIInv, WaitedFor
<1>3. ServerTypes' /\ RunnerTypes'
  BY <1>1, CutCounted DEF WorkspaceIInv, ServerTypes, RunnerTypes, runnerVars, JobStates
<1>4. /\ watch'[c] \in {"no", "restart"} /\ (watch'[c] = "restart" => state'[c] = "restarted")
      /\ (watch'[c] = "no" => state'[c] = "running" /\ c \in unwritten') /\ state'[c] \in {"running", "restarted"}
      /\ \A d \in Commands \ {c} : watch'[d] = watch[d] /\ state'[d] = state[d] /\ (d \in unwritten' <=> d \in unwritten)
  BY <1>1, <1>2 DEF WorkspaceIInv, ServerTypes
<1>5. PlacesInv'
  <2>1. PlacesHeld' = PlacesHeld
    BY <1>1, <1>2, <1>4, CountedAsBefore DEF Ending
  <2> QED BY <1>1, <2>1, SamePlaces DEF WorkspaceIInv
<1>6. call[c] \notin {"new", "asking", "placing"} /\ attentions[c] = 0
  BY <1>2, OfCommand DEF JobStage
<1>7. JobStage(c)' /\ WaitedFor(c)'
  BY <1>1, <1>2, <1>4, <1>6 DEF JobStage, WaitedFor, Ending
<1>8. LineOf(c)'
  BY <1>1, <1>2, <1>4 DEF LineOf, runnerVars
<1> QED BY <1>1, <1>2, <1>3, <1>4, <1>5, <1>7, <1>8, ServerKept DEF WorkspaceIInv, runnerVars

LEMMA GiveUpReadmeStep == ASSUME WorkspaceIInv, NEW c \in Commands, GivesUpReadme(c) PROVE WorkspaceIInv'
<1>1. /\ watch[c] = "restart" /\ watch' = [watch EXCEPT ![c] = "no"]
      /\ UNCHANGED <<call, following, end, state, output, attentions, up, left, runnerVars, wire>>
      /\ \/ readme' = [readme EXCEPT ![c] = "restarted"] /\ unwritten' = unwritten \ {c} /\ UNCHANGED cuts
         \/ ACut /\ unwritten' = unwritten \cup {c} /\ UNCHANGED readme
  BY DEF GivesUpReadme
<1>2. JobStage(c) /\ WaitedFor(c) /\ LineOf(c) /\ ~up /\ up \in BOOLEAN /\ state[c] = "restarted" /\ attentions[c] = 0
  BY <1>1, OfCommand DEF WorkspaceIInv, WaitedFor, JobStage
<1>3. ServerTypes' /\ RunnerTypes'
  BY <1>1, CutCounted DEF WorkspaceIInv, ServerTypes, RunnerTypes, runnerVars, JobStates
<1>4. /\ watch'[c] = "no"
      /\ \A d \in Commands \ {c} : watch'[d] = watch[d] /\ readme'[d] = readme[d] /\ (d \in unwritten' <=> d \in unwritten)
  BY <1>1 DEF WorkspaceIInv, ServerTypes
<1>5. PlacesInv'
  <2>1. PlacesHeld' = PlacesHeld
    BY <1>1, <1>4, CountedAsBefore DEF Ending
  <2> QED BY <1>1, <2>1, SamePlaces DEF WorkspaceIInv
<1>6. JobStage(c)' /\ WaitedFor(c)'
  BY <1>1, <1>2, <1>4 DEF JobStage, WaitedFor, Ending
<1>7. LineOf(c)'
  BY <1>1, <1>2, <1>4 DEF LineOf, runnerVars
<1> QED BY <1>1, <1>2, <1>3, <1>4, <1>5, <1>6, <1>7, ServerKept DEF WorkspaceIInv, runnerVars

LEMMA DieStep == ASSUME WorkspaceIInv, ServerDies PROVE WorkspaceIInv'
<1> USE DEF ServerDies
<1>1. ServerTypes' /\ RunnerTypes'
  BY CutCounted DEF WorkspaceIInv, ServerTypes, RunnerTypes, Unsaid, Says
<1>2. PlacesInv'
  <2>1. PlacesHeld' = {}
    BY DEF PlacesHeld, WorkspaceIInv, ServerTypes, Ending
  <2>2. Jobs \in Nat
    BY WorkspaceAssumption
  <2> QED BY <2>1, <2>2, FS_EmptySet DEF PlacesInv
<1>3. ASSUME NEW c \in Commands PROVE JobStage(c)' /\ WaitedFor(c)' /\ LineOf(c)'
  <2>1. JobStage(c) /\ WaitedFor(c) /\ LineOf(c)
    BY OfCommand
  <2>2. /\ call'[c] = (IF call[c] \in {"asking", "placing"} THEN "answered" ELSE call[c]) /\ watch'[c] = "no"
        /\ wire'[c] # "open" /\ second'[c] = Unsaid /\ (c \in left' <=> state[c] = "running")
        /\ UNCHANGED <<state, readme, output, attentions, unwritten, handler, process, frozen>> /\ up' = FALSE
    OBVIOUS
  <2>3. call'[c] \notin {"asking", "placing"}
    BY <2>2 DEF WorkspaceIInv, ServerTypes
  <2>4. JobStage(c)'
    BY <2>1, <2>2, <2>3 DEF JobStage, Ending
  <2>5. WaitedFor(c)'
    BY <2>2, <2>3 DEF WaitedFor
  <2>6. LineOf(c)'
    BY <2>1, <2>2 DEF LineOf, Unsaid
  <2> QED BY <2>4, <2>5, <2>6
<1> QED BY <1>1, <1>2, <1>3 DEF WorkspaceIInv, Directories, Connections

LEMMA WorkspaceStartStep == ASSUME WorkspaceIInv, ServerStarts PROVE WorkspaceIInv'
<1> USE DEF ServerStarts, runnerVars
<1>1. ServerTypes' /\ RunnerTypes'
  BY DEF WorkspaceIInv, ServerTypes, RunnerTypes
<1>2. PlacesInv'
  <2>1. PlacesHeld' = PlacesHeld
    BY DEF PlacesHeld
  <2> QED BY <2>1, SamePlaces DEF WorkspaceIInv
<1>3. Directories'
  BY DEF WorkspaceIInv, Directories, JobStage, WaitedFor
<1>4. Connections'
  BY DEF WorkspaceIInv, Connections, LineOf
<1> QED BY <1>1, <1>2, <1>3, <1>4 DEF WorkspaceIInv

-----------------------------------------------------------------------------
(*                              the theorems                                *)

LEMMA WorkspaceInitHolds == WorkspaceInit => WorkspaceIInv
<1> SUFFICES ASSUME WorkspaceInit PROVE WorkspaceIInv
  OBVIOUS
<1> USE DEF WorkspaceInit
<1>1. ServerTypes /\ RunnerTypes
  BY WorkspaceAssumption DEF ServerTypes, RunnerTypes, JobStates, Says, Unsaid
<1>2. PlacesInv
  <2>1. PlacesHeld = {}
    BY DEF PlacesHeld, Ending
  <2>2. Jobs \in Nat
    BY WorkspaceAssumption
  <2> QED BY <2>1, <2>2, FS_EmptySet DEF PlacesInv
<1>3. Directories
  BY DEF Directories, JobStage, WaitedFor, Ending
<1>4. Connections
  BY DEF Connections, LineOf, Unsaid
<1> QED BY <1>1, <1>2, <1>3, <1>4 DEF WorkspaceIInv

LEMMA WorkspaceStepKeeps == WorkspaceIInv /\ [WorkspaceNext]_workspaceVars => WorkspaceIInv'
<1> SUFFICES ASSUME WorkspaceIInv, [WorkspaceNext]_workspaceVars PROVE WorkspaceIInv'
  OBVIOUS
<1>1. ASSUME NEW c \in Commands, RunnerGoesOn(c) PROVE WorkspaceIInv'
  BY <1>1, RunnerStartStep, AnswerSteps, LetGoStep, TellStep DEF RunnerGoesOn
<1>2. ASSUME NEW c \in Commands, ServerGoesOn(c) PROVE WorkspaceIInv'
  BY <1>2, AnsweredSteps, PlaceStep, OpenSteps, WatchSteps, WriteSteps, OverSteps, GiveUpRecordStep, GiveUpReadmeStep DEF ServerGoesOn
<1>3. ASSUME NEW c \in Commands,
             Exchange(c) \/ OpenFails(c) \/ EndFails(c) \/ WatchGivesUp(c) \/ \E how \in {"exited", "signaled"} : CommandEnds(c, how)
      PROVE  WorkspaceIInv'
  BY <1>3, ExchangeStep, OpenSteps, OverSteps, WatchSteps, CommandEndStep
<1>4. CASE RunnerDies \/ ServerDies \/ ServerStarts
  BY <1>4, RunnerDiesStep, DieStep, WorkspaceStartStep
<1>5. CASE UNCHANGED workspaceVars
  <2>1. UNCHANGED <<call, watch, end, state, readme, output, attentions, following, up, left, unwritten, cuts>>
    BY <1>5 DEF workspaceVars, serverVars
  <2>2. UNCHANGED <<handler, process, frozen, first, second, wire>>
    BY <1>5 DEF workspaceVars, runnerVars
  <2>3. ServerTypes' /\ RunnerTypes' /\ PlacesInv' /\ (up' => left' = {})
    BY <2>1, <2>2, SamePlaces DEF WorkspaceIInv, ServerTypes, RunnerTypes, PlacesHeld
  <2>4. Directories' /\ Connections'
    BY <2>1, <2>2 DEF WorkspaceIInv, Directories, Connections, JobStage, WaitedFor, LineOf
  <2> QED BY <2>3, <2>4 DEF WorkspaceIInv
<1> QED BY <1>1, <1>2, <1>3, <1>4, <1>5 DEF WorkspaceNext

\* What a command's directory holds goes by where the wait for its end is, through every cut.
THEOREM WorkspaceInvariant == WorkspaceSpec => []WorkspaceIInv
<1>1. WorkspaceInit => WorkspaceIInv
  BY WorkspaceInitHolds
<1>2. WorkspaceIInv /\ [WorkspaceNext]_workspaceVars => WorkspaceIInv'
  BY WorkspaceStepKeeps
<1> QED BY <1>1, <1>2, PTL DEF WorkspaceSpec

\* The places taken are those of the commands waited for and within the limit, a record that says running is waited for,
\* the record of what is over comes with its output, she is told once and of what is there, nothing is kept for nobody,
\* and a tool is over with its answer: whatever connections, processes and writes are cut.
THEOREM WorkspaceIsSafe == WorkspaceSpec => []WorkspaceSafety
<1>1. WorkspaceIInv => WorkspaceSafety
  <2> SUFFICES ASSUME WorkspaceIInv PROVE WorkspaceSafety
    OBVIOUS
  <2>1. FollowingIsCounted
    BY DEF WorkspaceIInv, PlacesInv, PlacesHeld, FollowingIsCounted
  <2>2. RunningIsWaitedFor
    BY DEF WorkspaceIInv, Directories, WaitedFor, RunningIsWaitedFor
  <2>3. EndIsWhole /\ ToldWhenWritten
    BY DEF WorkspaceIInv, Directories, JobStage, EndIsWhole, ToldWhenWritten
  <2>4. KeptForAReader /\ ToolOverWithAnswer
    BY DEF WorkspaceIInv, Connections, LineOf, KeptForAReader, ToolOverWithAnswer, Commands
  <2> QED BY <2>1, <2>2, <2>3, <2>4 DEF WorkspaceSafety
<1> QED BY <1>1, WorkspaceInvariant, PTL

-----------------------------------------------------------------------------
(***************************************************************************)
(* The settings proved for any routes, keys and values, and any number of  *)
(* changes, events and restarts: no override of the shared file is lost, a *)
(* turn is on a route the owner chose since its work began unless that one *)
(* was not ready, and one change at a time goes through the loop.          *)
(* The inductive invariant ties the head of the settings' queue to what is *)
(* under way for it, and what the work in hand read to the choices there   *)
(* were since.                                                             *)
(***************************************************************************)

Overrides == [Keys -> Values \cup {Unset}]

\* The changes that are asked for.
Ops ==
  {op \in [key : {"all", "route", "fold"} \cup Keys, value : Routes \cup Values \cup {"on", "off", Unset},
           at : {"queued", "choosing", "looking", "write", "load"}, seen : Overrides] :
     /\ op.key = "route" => op.value \in Routes \cup {Unset}
     /\ op.key = "fold" => op.value \in {"on", "off", Unset}
     /\ op.key \in Keys => op.value \in Values \cup {Unset}}

\* What the variables hold.
FilesTypes ==
  /\ disk \in [route : Routes \cup {Unset}, fold : {"on", "off", Unset}, shared : Overrides]
  /\ listed \subseteq Routes /\ Default \in listed /\ ready \subseteq Routes /\ serving \in {"starting", "up", "failed"}
LoopTypes ==
  /\ chosen \in Routes /\ route \in Routes \cup {Unset} /\ folding \in {"on", "off"} /\ wanted \in BOOLEAN
  /\ unit \in [at : {"idle", "read", "mend", "use", "move", "fold", "turn"}, read : Routes, event : BOOLEAN, refused : BOOLEAN]
  /\ events \in Nat
WayTypes ==
  /\ looks \in [Lookers -> [at : {"idle", "read", "mend", "use", "wait", "over"}, route : Routes]]
  /\ choices \in [Choosers -> [at : {"idle", "ready", "write", "wrote", "done", "refused"}, route : Routes]]

\* A change that is to be written was begun with what the shared file holds, and what it holds is what was meant.
SeenIsFresh ==
  /\ NoOverrideLost
  /\ asked # <<>> /\ asked[1].at = "write" => asked[1].seen = disk.shared

\* Nothing is under way but in a server that is up.
RestsUnlessUp ==
  serving # "up" => /\ unit.at = "idle" /\ asked = <<>>
                    /\ \A w \in Lookers : looks[w].at = "idle"
                    /\ \A w \in Choosers : choices[w].at = "idle"

\* The work in hand goes by a choice there was since it began.
WorkOnChoice ==
  unit.at # "idle" =>
    /\ Choice \in since
    /\ unit.at \in {"mend", "use", "move", "fold", "turn"} => unit.read \in since
    /\ unit.at \in {"fold", "turn"} => route = unit.read \/ unit.refused

QueueInv == asked \in Seq(Ops) /\ OneChangeAtATime /\ SeenIsFresh
SettingsIInv == FilesTypes /\ LoopTypes /\ WayTypes /\ QueueInv /\ RestsUnlessUp /\ WorkOnChoice

-----------------------------------------------------------------------------
(*                              the queue                                   *)

\* A queue that is not empty has a first.
LEMMA FirstAsked ==
  ASSUME asked \in Seq(Ops), asked # <<>>
  PROVE  Len(asked) \in Nat \ {0} /\ 1 \in 1..Len(asked) /\ DOMAIN asked = 1..Len(asked) /\ asked[1] \in Ops
  BY EmptySeq, LenProperties

\* The queue as it was, or with one more change that waits.
LEMMA QueueGrows ==
  ASSUME QueueInv,
         asked' = asked \/ \E op \in Ops : op.at = "queued" /\ asked' = Append(asked, op),
         disk'.shared = disk.shared, UNCHANGED meant,
         choices'["set"].at # "idle" => choices["set"].at # "idle",
         looks'["reset"].at # "idle" => looks["reset"].at # "idle"
  PROVE  QueueInv'
<1>1. asked \in Seq(Ops) /\ DOMAIN asked = 1..Len(asked) /\ Len(asked) \in Nat
  BY LenProperties DEF QueueInv
<1>2. NoOverrideLost'
  BY DEF QueueInv, SeenIsFresh, NoOverrideLost
<1>3. CASE asked' = asked
  BY <1>2, <1>3 DEF QueueInv, OneChangeAtATime, SeenIsFresh
<1>4. ASSUME NEW op \in Ops, op.at = "queued", asked' = Append(asked, op) PROVE QueueInv'
  <2>1. /\ asked' \in Seq(Ops) /\ asked' # <<>> /\ DOMAIN asked' = 1..(Len(asked) + 1)
        /\ asked'[Len(asked) + 1] = op /\ \A i \in 1..Len(asked) : asked'[i] = asked[i]
    <3>1. /\ asked' \in Seq(Ops) /\ asked' # <<>> /\ Len(asked') = Len(asked) + 1
          /\ asked'[Len(asked) + 1] = op /\ \A i \in 1..Len(asked) : asked'[i] = asked[i]
      <4>1. /\ Append(asked, op) \in Seq(Ops) /\ Append(asked, op) # <<>> /\ Len(Append(asked, op)) = Len(asked) + 1
            /\ Append(asked, op)[Len(asked) + 1] = op /\ \A i \in 1..Len(asked) : Append(asked, op)[i] = asked[i]
        BY <1>1, AppendProperties
      <4> QED BY <1>4, <4>1
    <3>2. DOMAIN asked' = 1..Len(asked')
      BY <3>1, LenProperties
    <3> QED BY <3>1, <3>2
  <2>2. asked # <<>> => asked'[1] = asked[1]
    BY <1>1, <2>1, FirstAsked
  <2>3. asked = <<>> => asked'[1] = op
    BY <2>1
  <2>4. \A i \in DOMAIN asked' : asked'[i].at # "queued" => i = 1
    <3> SUFFICES ASSUME NEW i \in 1..(Len(asked) + 1), asked'[i].at # "queued" PROVE i = 1
      BY <2>1
    <3>1. i # Len(asked) + 1
      BY <1>4, <2>1
    <3>2. i \in 1..Len(asked)
      BY <1>1, <3>1
    <3> QED BY <1>1, <2>1, <3>2 DEF QueueInv, OneChangeAtATime
  <2>5. OneChangeAtATime'
    BY <2>1, <2>2, <2>4 DEF QueueInv, OneChangeAtATime
  <2>6. SeenIsFresh'
    BY <1>2, <1>4, <2>2, <2>3 DEF QueueInv, SeenIsFresh
  <2> QED BY <2>1, <2>5, <2>6 DEF QueueInv
<1> QED BY <1>3, <1>4

\* The first of the queue goes.
LEMMA FirstGoes ==
  ASSUME QueueInv, asked # <<>>, asked' = RemoveAt(asked, 1), disk'.shared = disk.shared, UNCHANGED meant,
         choices'["set"].at = "idle", looks'["reset"].at = "idle"
  PROVE  QueueInv'
<1>1. asked \in Seq(Ops) /\ Len(asked) \in Nat \ {0} /\ DOMAIN asked = 1..Len(asked)
  BY FirstAsked DEF QueueInv
<1>2. asked' = Tail(asked)
  <2>1. SubSeq(asked, 1, 1 - 1) = <<>>
    BY SubSeqEmpty
  <2>2. Tail(asked) = SubSeq(asked, 1 + 1, Len(asked)) /\ Tail(asked) \in Seq(Ops)
    BY <1>1, TailIsSubSeq, HeadTailProperties
  <2> QED BY <2>1, <2>2, ConcatEmptySeq DEF RemoveAt
<1>3. /\ asked' \in Seq(Ops) /\ DOMAIN asked' = 1..(Len(asked) - 1)
      /\ \A i \in 1..(Len(asked) - 1) : asked'[i] = asked[i + 1]
  BY <1>1, <1>2, HeadTailProperties, LenProperties
<1>4. \A i \in DOMAIN asked' : asked'[i].at = "queued"
  <2> SUFFICES ASSUME NEW i \in 1..(Len(asked) - 1) PROVE asked[i + 1].at = "queued"
    BY <1>3
  <2>1. i + 1 \in DOMAIN asked /\ i + 1 # 1
    BY <1>1
  <2> QED BY <2>1 DEF QueueInv, OneChangeAtATime
<1>5. asked' # <<>> => asked'[1].at = "queued"
  <2>1. asked' # <<>> => Len(asked') \in Nat \ {0} /\ DOMAIN asked' = 1..Len(asked')
    BY <1>3, EmptySeq, LenProperties
  <2> QED BY <1>4, <2>1
<1>6. OneChangeAtATime' /\ SeenIsFresh'
  BY <1>4, <1>5 DEF QueueInv, OneChangeAtATime, SeenIsFresh, NoOverrideLost
<1> QED BY <1>3, <1>6 DEF QueueInv

\* The first of the queue goes on.
LEMMA FirstGoesOn ==
  ASSUME QueueInv, asked # <<>>, NEW op \in Ops, asked' = [asked EXCEPT ![1] = op],
         NoOverrideLost', op.at = "write" => op.seen = disk'.shared,
         choices'["set"].at # "idle" => op.at = "choosing", looks'["reset"].at # "idle" => op.at = "looking"
  PROVE  QueueInv'
<1>1. asked \in Seq(Ops) /\ 1 \in 1..Len(asked) /\ DOMAIN asked = 1..Len(asked) /\ Len(asked) \in Nat \ {0}
  BY FirstAsked DEF QueueInv
<1>2. /\ asked' \in Seq(Ops) /\ asked'[1] = op /\ Len(asked') = Len(asked) /\ DOMAIN asked' = DOMAIN asked
      /\ \A i \in DOMAIN asked : i # 1 => asked'[i] = asked[i]
  BY <1>1, ExceptSeq, LenProperties
<1>3. asked' # <<>>
  BY <1>1, <1>2, EmptySeq
<1>4. OneChangeAtATime'
  BY <1>2, <1>3 DEF QueueInv, OneChangeAtATime
<1> QED BY <1>2, <1>4 DEF QueueInv, SeenIsFresh

\* publishRoutes() asks for nothing but a reading of the settings.
LEMMA Published ==
  ASSUME QueueInv, PublishRoutes
  PROVE  asked' = asked \/ \E op \in Ops : op.at = "queued" /\ asked' = Append(asked, op)
<1>1. Refresh \in Ops /\ Refresh.at = "queued"
  BY SettingsAssumption DEF Refresh, Ops, Overrides
<1> QED BY <1>1 DEF PublishRoutes

-----------------------------------------------------------------------------
(*                               the work                                   *)

\* What is under way is under way in a server that is up.
LEMMA ActiveIsUp ==
  ASSUME RestsUnlessUp,
         unit.at # "idle" \/ asked # <<>> \/ (\E w \in Lookers : looks[w].at # "idle") \/ (\E w \in Choosers : choices[w].at # "idle")
  PROVE  serving = "up"
  BY DEF RestsUnlessUp

\* The choice on file is of the routes there are.
LEMMA ChoiceIsRoute == ASSUME FilesTypes PROVE Choice \in Routes /\ Choice \in listed
  BY SettingsAssumption DEF FilesTypes, Choice, ChoiceIn

\* pump() begins with the choice on file, and leaves work in hand as it is.
LEMMA Pumped ==
  ASSUME FilesTypes, LoopTypes, WorkOnChoice, NEW want \in BOOLEAN, NEW waiting \in Nat, NEW free \in BOOLEAN,
         Pump(want, waiting, free), UNCHANGED <<disk, listed, route>>
  PROVE  /\ unit' \in [at : {"idle", "read", "mend", "use", "move", "fold", "turn"}, read : Routes, event : BOOLEAN, refused : BOOLEAN]
         /\ events' \in Nat /\ wanted' \in BOOLEAN /\ WorkOnChoice'
<1>1. Idle \in [at : {"idle"}, read : Routes, event : BOOLEAN, refused : BOOLEAN]
  BY SettingsAssumption DEF Idle
<1>2. Choice' = Choice
  BY DEF Choice, ChoiceIn
<1>3. CASE free /\ (want \/ waiting > 0)
  <2>1. /\ unit' = [Idle EXCEPT !.at = "read", !.event = waiting > 0] /\ wanted' = FALSE /\ since' = {Choice}
        /\ events' = waiting - (IF waiting > 0 THEN 1 ELSE 0)
    BY <1>3 DEF Pump
  <2>2. PICK event \in BOOLEAN : event = (waiting > 0)
    <3>1. CASE waiting > 0
      BY <3>1, Zenon
    <3>2. CASE ~(waiting > 0)
      <4>1. FALSE = (waiting > 0)
        BY <3>2
      <4> QED BY <4>1, Zenon
    <3> QED BY <3>1, <3>2
  <2>3. unit' = [Idle EXCEPT !.at = "read", !.event = event]
    BY <2>1, <2>2
  <2>4. unit' \in [at : {"read"}, read : Routes, event : BOOLEAN, refused : BOOLEAN]
    BY <1>1, <2>3
  <2>5. events' \in Nat
    BY <2>1
  <2>6. unit'.at = "read" /\ Choice' \in since'
    BY <1>2, <2>1, <2>4
  <2> QED BY <2>1, <2>4, <2>5, <2>6 DEF WorkOnChoice
<1>4. CASE ~(free /\ (want \/ waiting > 0))
  <2>1. unit' = (IF free THEN Idle ELSE unit) /\ events' = waiting /\ wanted' = want /\ since' = since
    BY <1>4 DEF Pump
  <2> QED BY <1>1, <1>2, <2>1 DEF LoopTypes, WorkOnChoice
<1> QED BY <1>3, <1>4

\* A file is written: the work in hand goes by a choice there was.
LEMMA WorkNoted ==
  ASSUME WorkOnChoice, NEW file, Noted(file), UNCHANGED <<listed, route, unit>>
  PROVE  WorkOnChoice'
<1>1. Choice' = ChoiceIn(file) /\ since' = since \cup {ChoiceIn(file)}
  BY DEF Noted, Choice, ChoiceIn
<1> QED BY <1>1 DEF WorkOnChoice

\* What leaves the files, the work and its route alone.
LEMMA WorkKept == ASSUME WorkOnChoice, UNCHANGED <<disk, listed, route, unit, since>> PROVE WorkOnChoice'
  BY DEF WorkOnChoice, Choice, ChoiceIn

\* The file of the routes is written; the shared file is not.
LEMMA RouteNoted ==
  ASSUME FilesTypes, NEW r \in Routes \cup {Unset}, Noted([disk EXCEPT !.route = r])
  PROVE  disk' \in [route : Routes \cup {Unset}, fold : {"on", "off", Unset}, shared : Overrides] /\ disk'.shared = disk.shared
  BY DEF FilesTypes, Noted

-----------------------------------------------------------------------------
(*                               the steps                                  *)

\* What a step leaves alone of the queue.
LEMMA QueueKept ==
  ASSUME QueueInv, UNCHANGED <<asked, meant>>, disk'.shared = disk.shared,
         choices'["set"].at # "idle" => choices["set"].at # "idle",
         looks'["reset"].at # "idle" => looks["reset"].at # "idle"
  PROVE  QueueInv'
  BY QueueGrows

\* A step in a server that stays up.
LEMMA StaysUp == ASSUME serving' = "up" PROVE RestsUnlessUp'
  BY DEF RestsUnlessUp

LEMMA EventStep == ASSUME SettingsIInv, EventComes PROVE SettingsIInv'
<1> USE DEF SettingsIInv
<1>1. /\ serving = "up" /\ Pump(wanted, events + 1, unit.at = "idle")
      /\ UNCHANGED <<disk, listed, ready, serving, chosen, route, folding, looks, choices, asked, meant>>
  BY DEF EventComes
<1>2. FilesTypes' /\ WayTypes' /\ RestsUnlessUp'
  BY <1>1, StaysUp DEF FilesTypes, WayTypes
<1>3. QueueInv'
  BY <1>1, QueueKept
<1>4. LoopTypes' /\ WorkOnChoice'
  <2>1. wanted \in BOOLEAN /\ events + 1 \in Nat /\ (unit.at = "idle") \in BOOLEAN
    BY DEF LoopTypes
  <2> QED BY <1>1, <2>1, Pumped DEF LoopTypes
<1> QED BY <1>2, <1>3, <1>4

LEMMA WorkReadSteps == ASSUME SettingsIInv, WorkReads \/ WorkMends PROVE SettingsIInv'
<1> USE DEF SettingsIInv
<1>1. /\ unit.at # "idle"
      /\ UNCHANGED <<serving, listed, ready, folding, chosen, route, wanted, events, looks, choices, asked, meant>>
  BY DEF WorkReads, WorkMends, loopVars
<1>2. WayTypes' /\ RestsUnlessUp'
  BY <1>1, ActiveIsUp, StaysUp DEF WayTypes
<1>3. CASE WorkReads
  <2>1. unit' = [unit EXCEPT !.at = IF Unlisted THEN "mend" ELSE "use", !.read = Choice] /\ disk' = disk /\ since' = since
    BY <1>3 DEF WorkReads
  <2>2. /\ unit' \in [at : {"mend", "use"}, read : Routes, event : BOOLEAN, refused : BOOLEAN] /\ unit'.read = Choice
    BY <2>1, ChoiceIsRoute DEF LoopTypes
  <2>3. FilesTypes' /\ LoopTypes'
    BY <1>1, <2>1, <2>2 DEF FilesTypes, LoopTypes
  <2>4. WorkOnChoice'
    BY <1>1, <2>1, <2>2 DEF WorkOnChoice, Choice, ChoiceIn
  <2> QED BY <1>1, <1>2, <2>1, <2>3, <2>4, QueueKept
<1>4. CASE WorkMends
  <2>1. unit.at = "mend" /\ unit' = [unit EXCEPT !.at = "use"] /\ Noted([disk EXCEPT !.route = Default])
    BY <1>4 DEF WorkMends
  <2>2. FilesTypes' /\ disk'.shared = disk.shared
    BY <1>1, <2>1, RouteNoted, SettingsAssumption DEF FilesTypes
  <2>3. LoopTypes' /\ unit'.at = "use" /\ unit'.read = unit.read
    BY <1>1, <2>1 DEF LoopTypes
  <2>4. Choice' \in since' /\ since \subseteq since'
    BY <1>1, <2>1 DEF Noted, Choice, ChoiceIn
  <2>5. WorkOnChoice'
    BY <2>1, <2>3, <2>4 DEF WorkOnChoice
  <2> QED BY <1>1, <1>2, <2>2, <2>3, <2>5, QueueKept
<1> QED BY <1>3, <1>4

LEMMA WorkUseSteps == ASSUME SettingsIInv, WorkUses \/ WorkMoves PROVE SettingsIInv'
<1> USE DEF SettingsIInv
<1>1. /\ unit.at \in {"use", "move"}
      /\ UNCHANGED <<serving, listed, ready, folding, disk, wanted, events, looks, choices, meant, since>>
      /\ chosen' \in {chosen, unit.read}
      /\ asked' = asked \/ PublishRoutes
  BY DEF WorkUses, WorkMoves, loopVars
<1>2. FilesTypes' /\ WayTypes' /\ RestsUnlessUp'
  BY <1>1, ActiveIsUp, StaysUp DEF FilesTypes, WayTypes
<1>3. QueueInv'
  BY <1>1, Published, QueueGrows
<1>4. unit.read \in since /\ Choice \in since /\ Choice' = Choice
  BY <1>1 DEF WorkOnChoice, Choice, ChoiceIn
<1>5. CASE WorkUses
  <2>1. PICK goes \in BOOLEAN : goes = (unit.read # route /\ unit.read \in ready)
    OBVIOUS
  <2>2. /\ unit' = [unit EXCEPT !.at = IF goes THEN "move" ELSE "fold", !.refused = unit.read # route /\ ~goes]
        /\ route' = route
    BY <1>5, <2>1 DEF WorkUses
  <2>3. PICK refused \in BOOLEAN : refused = (unit.read # route /\ ~goes)
    OBVIOUS
  <2>4. unit' = [unit EXCEPT !.at = IF goes THEN "move" ELSE "fold", !.refused = refused]
    BY <2>2, <2>3
  <2>5. /\ unit' \in [at : {"move", "fold"}, read : Routes, event : BOOLEAN, refused : BOOLEAN]
        /\ unit'.read = unit.read /\ unit'.refused = refused /\ (unit'.at = "fold" => ~goes)
    BY <2>4 DEF LoopTypes
  <2>6. LoopTypes'
    BY <1>1, <2>2, <2>5 DEF LoopTypes
  <2>7. unit'.at = "fold" => route' = unit'.read \/ unit'.refused
    BY <2>2, <2>3, <2>5
  <2>8. WorkOnChoice'
    BY <1>1, <1>4, <2>5, <2>7 DEF WorkOnChoice
  <2> QED BY <1>2, <1>3, <2>6, <2>8
<1>6. CASE WorkMoves
  <2>1. PICK moved \in BOOLEAN : unit' = [unit EXCEPT !.at = "fold", !.refused = ~moved]
                               /\ route' = IF moved THEN unit.read ELSE route
    BY <1>6 DEF WorkMoves
  <2>2. /\ unit' \in [at : {"fold"}, read : Routes, event : BOOLEAN, refused : BOOLEAN]
        /\ unit'.read = unit.read /\ (unit'.refused <=> ~moved)
    BY <2>1 DEF LoopTypes
  <2>3. LoopTypes'
    BY <1>1, <2>1, <2>2 DEF LoopTypes
  <2>4. WorkOnChoice'
    BY <1>1, <1>4, <2>1, <2>2 DEF WorkOnChoice
  <2> QED BY <1>2, <1>3, <2>3, <2>4
<1> QED BY <1>5, <1>6

\* The end of a unit of work, which lets go of who waited for it.
LEMMA WorkEndSteps == ASSUME SettingsIInv, WorkFolds \/ WorkEnds PROVE SettingsIInv'
<1> USE DEF SettingsIInv
<1> DEFINE Over == [w \in Lookers |-> IF looks[w].at = "wait" THEN [looks[w] EXCEPT !.at = "over"] ELSE looks[w]]
<1>1. /\ unit.at \in {"fold", "turn"} /\ folding' \in {folding, Fold}
      /\ UNCHANGED <<serving, listed, ready, disk, chosen, route, choices, asked, meant>>
      /\ \/ unit' = [unit EXCEPT !.at = "turn"] /\ UNCHANGED <<wanted, events, since, looks>>
         \/ Pump(wanted, events, TRUE) /\ looks' = Over
  BY DEF WorkFolds, WorkEnds, loopVars
<1>2. /\ Over \in [Lookers -> [at : {"idle", "read", "mend", "use", "wait", "over"}, route : Routes]]
      /\ \A w \in Lookers : Over[w].at # "idle" => looks[w].at # "idle"
  <2>1. \A w \in Lookers : looks[w] \in [at : {"idle", "read", "mend", "use", "wait", "over"}, route : Routes]
    BY DEF WayTypes
  <2> QED BY <2>1
<1> HIDE DEF Over
<1>3. looks' = looks \/ looks' = Over
  BY <1>1
<1>4. FilesTypes' /\ WayTypes' /\ RestsUnlessUp'
  BY <1>1, <1>2, <1>3, ActiveIsUp, StaysUp DEF FilesTypes, WayTypes
<1>5. QueueInv'
  BY <1>1, <1>2, <1>3, QueueKept DEF Lookers
<1>6. folding' \in {"on", "off"}
  BY <1>1 DEF LoopTypes, FilesTypes, Fold
<1>7. CASE unit' = [unit EXCEPT !.at = "turn"] /\ UNCHANGED <<wanted, events, since, looks>>
  <2>1. /\ unit' \in [at : {"turn"}, read : Routes, event : BOOLEAN, refused : BOOLEAN]
        /\ unit'.read = unit.read /\ unit'.refused = unit.refused
    BY <1>7 DEF LoopTypes
  <2>2. LoopTypes'
    BY <1>1, <1>6, <1>7, <2>1 DEF LoopTypes
  <2>3. WorkOnChoice'
    BY <1>1, <1>7, <2>1 DEF WorkOnChoice, Choice, ChoiceIn
  <2> QED BY <1>4, <1>5, <2>2, <2>3
<1>8. CASE Pump(wanted, events, TRUE)
  <2>1. wanted \in BOOLEAN /\ events \in Nat /\ TRUE \in BOOLEAN
    BY DEF LoopTypes
  <2>2. LoopTypes' /\ WorkOnChoice'
    BY <1>1, <1>6, <1>8, <2>1, Pumped DEF LoopTypes
  <2> QED BY <1>4, <1>5, <2>2
<1> QED BY <1>1, <1>7, <1>8

\* A client's or a setting's choice of a route.
LEMMA ChoiceSteps ==
  ASSUME SettingsIInv, NEW w \in Choosers, ChoiceGoesOn(w) PROVE SettingsIInv'
<1> USE DEF SettingsIInv
<1>1. /\ choices[w].at # "idle" /\ choices[w].route \in Routes
      /\ UNCHANGED <<serving, listed, ready, folding, route, looks, asked, meant>>
  BY DEF ChoiceGoesOn, ChoiceIsReady, ChoiceWrites, ChoiceTaken, loopVars, WayTypes
<1>2. /\ \E at \in {"idle", "write", "wrote", "done", "refused"} : choices' = [choices EXCEPT ![w].at = at]
      /\ disk' = disk \/ Noted([disk EXCEPT !.route = choices[w].route])
  BY DEF ChoiceGoesOn, ChoiceIsReady, ChoiceWrites, ChoiceTaken, Refused
<1>3. WayTypes' /\ (choices'["set"].at # "idle" => choices["set"].at # "idle")
  BY <1>1, <1>2 DEF WayTypes, Choosers
<1>4. RestsUnlessUp'
  BY <1>1, ActiveIsUp, StaysUp
<1>5. FilesTypes' /\ disk'.shared = disk.shared
  BY <1>1, <1>2, RouteNoted DEF FilesTypes
<1>6. QueueInv'
  BY <1>1, <1>3, <1>5, QueueKept
<1>7. CASE ChoiceIsReady(w)
  BY <1>1, <1>3, <1>4, <1>5, <1>6, <1>7, WorkKept DEF ChoiceIsReady, LoopTypes
<1>8. CASE ChoiceWrites(w)
  BY <1>1, <1>3, <1>4, <1>5, <1>6, <1>8, WorkNoted DEF ChoiceWrites, LoopTypes
<1>9. CASE ChoiceTaken(w)
  <2>1. Pump(TRUE, events, unit.at = "idle") /\ chosen' = choices[w].route /\ UNCHANGED disk
    BY <1>9 DEF ChoiceTaken, loopVars
  <2>2. TRUE \in BOOLEAN /\ events \in Nat /\ (unit.at = "idle") \in BOOLEAN
    BY DEF LoopTypes
  <2>3. LoopTypes' /\ WorkOnChoice'
    BY <1>1, <2>1, <2>2, Pumped DEF LoopTypes
  <2> QED BY <1>3, <1>4, <1>5, <1>6, <2>3
<1> QED BY <1>7, <1>8, <1>9 DEF ChoiceGoesOn

LEMMA UseStep == ASSUME SettingsIInv, NEW r \in Routes, UseRoute(r) PROVE SettingsIInv'
<1> USE DEF SettingsIInv
<1>1. /\ serving = "up" /\ choices' = [choices EXCEPT !["use"] = [at |-> "ready", route |-> r]]
      /\ UNCHANGED <<serving, listed, ready, folding, disk, chosen, route, wanted, unit, events, looks, asked, meant, since>>
  BY DEF UseRoute, loopVars
<1>2. WayTypes' /\ choices'["set"] = choices["set"]
  BY <1>1 DEF WayTypes, Choosers
<1> QED BY <1>1, <1>2, QueueKept, WorkKept, StaysUp DEF FilesTypes, LoopTypes

\* A look at the route on file: the heartbeat's, or that of a route taken away.
LEMMA LookSteps ==
  ASSUME SettingsIInv, NEW w \in Lookers, LookGoesOn(w) PROVE SettingsIInv'
<1> USE DEF SettingsIInv
<1>1. /\ looks[w].at # "idle" /\ looks[w].route \in Routes
      /\ UNCHANGED <<serving, listed, ready, folding, route, choices, meant>>
  BY DEF LookGoesOn, LookReads, LookMends, LookUses, loopVars, WayTypes
<1>2. RestsUnlessUp'
  BY <1>1, ActiveIsUp, StaysUp
<1>3. CASE LookReads(w)
  <2>1. /\ looks' = [looks EXCEPT ![w] = [at |-> IF Unlisted THEN "mend" ELSE "use", route |-> Choice]]
        /\ UNCHANGED <<disk, chosen, wanted, unit, events, asked, since>>
    BY <1>3 DEF LookReads
  <2>2. WayTypes' /\ (looks'["reset"].at # "idle" => looks["reset"].at # "idle")
    BY <1>1, <2>1, ChoiceIsRoute DEF WayTypes, Lookers
  <2> QED BY <1>1, <1>2, <2>1, <2>2, QueueKept, WorkKept DEF FilesTypes, LoopTypes
<1>4. CASE LookMends(w)
  <2>1. /\ looks' = [looks EXCEPT ![w].at = "use"] /\ Noted([disk EXCEPT !.route = Default])
        /\ UNCHANGED <<chosen, wanted, unit, events, asked>>
    BY <1>4 DEF LookMends
  <2>2. WayTypes' /\ (looks'["reset"].at # "idle" => looks["reset"].at # "idle")
    BY <1>1, <2>1 DEF WayTypes, Lookers
  <2>3. FilesTypes' /\ disk'.shared = disk.shared
    BY <1>1, <2>1, RouteNoted, SettingsAssumption DEF FilesTypes
  <2> QED BY <1>1, <1>2, <2>1, <2>2, <2>3, QueueKept, WorkNoted DEF LoopTypes
<1>5. CASE LookUses(w)
  <2>1. PICK news \in BOOLEAN :
          IF news /\ unit.at = "idle"
          THEN /\ Pump(TRUE, events, TRUE)
               /\ looks' = [looks EXCEPT ![w].at = "wait"] /\ UNCHANGED <<chosen, route, published, asked>>
          ELSE /\ wanted' = (wanted \/ news) /\ chosen' = looks[w].route /\ UNCHANGED route /\ PublishRoutes
               /\ looks' = [looks EXCEPT ![w].at = "over"] /\ UNCHANGED <<unit, events, since>>
    <3>1. (looks[w].route # chosen \/ looks[w].route # route) \in BOOLEAN
      OBVIOUS
    <3> QED BY <1>5, <3>1 DEF LookUses
  <2>2. UNCHANGED disk
    BY <1>5 DEF LookUses
  <2>3. \E at \in {"wait", "over"} : looks' = [looks EXCEPT ![w].at = at]
    BY <2>1
  <2>4. WayTypes' /\ (looks'["reset"].at # "idle" => looks["reset"].at # "idle")
    BY <1>1, <2>3 DEF WayTypes, Lookers
  <2>5. QueueInv'
    <3>1. asked' = asked \/ PublishRoutes
      BY <2>1
    <3> QED BY <1>1, <2>2, <2>4, <3>1, Published, QueueGrows
  <2>6. CASE news /\ unit.at = "idle"
    <3>1. Pump(TRUE, events, TRUE) /\ UNCHANGED chosen
      BY <2>1, <2>6
    <3>2. TRUE \in BOOLEAN /\ events \in Nat
      BY DEF LoopTypes
    <3>3. LoopTypes' /\ WorkOnChoice'
      BY <1>1, <2>2, <3>1, <3>2, Pumped DEF LoopTypes
    <3> QED BY <1>1, <1>2, <2>2, <2>4, <2>5, <3>3 DEF FilesTypes
  <2>7. CASE ~(news /\ unit.at = "idle")
    <3>1. wanted' = (wanted \/ news) /\ chosen' = looks[w].route /\ UNCHANGED <<unit, events, since>>
      BY <2>1, <2>7
    <3>2. wanted' \in BOOLEAN
      BY <3>1, Zenon DEF LoopTypes
    <3>3. LoopTypes' /\ WorkOnChoice'
      BY <1>1, <2>2, <3>1, <3>2, WorkKept DEF LoopTypes
    <3> QED BY <1>1, <1>2, <2>2, <2>4, <2>5, <3>3 DEF FilesTypes
  <2> QED BY <2>6, <2>7
<1> QED BY <1>3, <1>4, <1>5 DEF LookGoesOn

LEMMA BeatSteps == ASSUME SettingsIInv, Beats \/ BeatOver PROVE SettingsIInv'
<1> USE DEF SettingsIInv
<1>1. /\ UNCHANGED <<serving, listed, ready, folding, disk, chosen, route, wanted, unit, events, choices, meant, since>>
      /\ serving = "up" \/ looks["beat"].at # "idle"
      /\ \/ asked = <<>> /\ asked' = <<Refresh>> /\ looks' = [looks EXCEPT !["beat"].at = "read"]
         \/ asked' = asked /\ looks' = [looks EXCEPT !["beat"] = Resting]
  BY DEF Beats, BeatOver, loopVars
<1>2. WayTypes' /\ looks'["reset"] = looks["reset"]
  BY <1>1, SettingsAssumption DEF WayTypes, Lookers, Resting
<1>3. RestsUnlessUp'
  BY <1>1, ActiveIsUp, StaysUp DEF Lookers
<1>4. asked' = asked \/ \E op \in Ops : op.at = "queued" /\ asked' = Append(asked, op)
  <2>1. Refresh \in Ops /\ Refresh.at = "queued"
    BY SettingsAssumption DEF Refresh, Ops, Overrides
  <2>2. asked = <<>> => Append(asked, Refresh) = <<Refresh>>
    OBVIOUS
  <2> QED BY <1>1, <2>1, <2>2
<1>5. QueueInv'
  BY <1>1, <1>2, <1>4, QueueGrows
<1> QED BY <1>1, <1>2, <1>3, <1>5, WorkKept DEF FilesTypes, LoopTypes

\* A change the owner may ask for.
LEMMA AskedFor ==
  /\ \A v \in Routes \cup {Unset} : Change("route", v) \in Ops /\ Change("route", v).at = "queued"
  /\ \A v \in {"on", Unset} : Change("fold", v) \in Ops /\ Change("fold", v).at = "queued"
  /\ \A k \in Keys, v \in Values \cup {Unset} : Change(k, v) \in Ops /\ Change(k, v).at = "queued"
  BY SettingsAssumption DEF Change, Refresh, Ops, Overrides

LEMMA AskStep == ASSUME SettingsIInv, NEW op \in Ops, op.at = "queued", Ask(op) PROVE SettingsIInv'
<1> USE DEF SettingsIInv
<1>1. /\ serving = "up" /\ asked' = Append(asked, op)
      /\ UNCHANGED <<serving, listed, ready, folding, disk, chosen, route, wanted, unit, events, looks, choices, meant, since>>
  BY DEF Ask, loopVars
<1>2. QueueInv'
  BY <1>1, QueueGrows
<1> QED BY <1>1, <1>2, WorkKept, StaysUp DEF FilesTypes, LoopTypes, WayTypes

-----------------------------------------------------------------------------
(*                        the head of the queue                             *)

\* The change whose turn it is: it is the first, and another at it would be a change of its own.
LEMMA HeadFields ==
  ASSUME QueueInv, asked # <<>>
  PROVE  /\ asked[1] \in Ops
         /\ asked[1].at # "choosing" => choices["set"].at = "idle"
         /\ asked[1].at # "looking" => looks["reset"].at = "idle"
<1>1. asked[1] \in Ops
  BY FirstAsked DEF QueueInv
<1> QED BY <1>1 DEF QueueInv, OneChangeAtATime

LEMMA BeginStep == ASSUME SettingsIInv, NEW i \in DOMAIN asked, OpBegins(i) PROVE SettingsIInv'
<1> USE DEF SettingsIInv
<1> DEFINE op == asked[1]
           unwanted == op.key # "all" /\ (serving # "up" \/ (op.key = "route" /\ op.value \notin listed \cup {Unset}))
           chooses == op.key = "route" /\ op.value # Unset
<1>1. /\ i = 1 /\ asked # <<>> /\ op.at = "queued" /\ op \in Ops
      /\ choices["set"].at = "idle" /\ looks["reset"].at = "idle" /\ serving = "up"
      /\ UNCHANGED <<serving, listed, ready, folding, disk, chosen, route, wanted, unit, events, looks, meant, since>>
  BY HeadFields, ActiveIsUp DEF OpBegins, Turn, loopVars
<1>2. /\ RestsUnlessUp' /\ FilesTypes' /\ LoopTypes' /\ WorkOnChoice'
  BY <1>1, StaysUp, WorkKept DEF FilesTypes, LoopTypes
<1>3. CASE unwanted
  <2>1. asked' = RemoveAt(asked, 1) /\ choices' = choices
    BY <1>1, <1>3 DEF OpBegins
  <2> QED BY <1>1, <1>2, <2>1, FirstGoes DEF WayTypes
<1>4. CASE ~unwanted
  <2>1. PICK at \in {"load", "choosing", "write"} :
          /\ asked' = [asked EXCEPT ![1].at = at, ![1].seen = disk.shared] /\ (chooses <=> at = "choosing")
    <3>1. op.key = "all" => ~chooses
      OBVIOUS
    <3>2. asked' = [asked EXCEPT ![1].at = CASE op.key = "all" -> "load" [] chooses -> "choosing" [] OTHER -> "write",
                                 ![1].seen = disk.shared]
      BY <1>1, <1>4 DEF OpBegins
    <3>3. CASE op.key = "all"
      BY <3>1, <3>2, <3>3
    <3>4. CASE op.key # "all" /\ chooses
      BY <3>2, <3>4
    <3>5. CASE op.key # "all" /\ ~chooses
      BY <3>2, <3>5
    <3> QED BY <3>3, <3>4, <3>5
  <2> DEFINE new == [op EXCEPT !.at = at, !.seen = disk.shared]
  <2>2. disk.shared \in Overrides
    BY DEF FilesTypes
  <2>3. asked' = [asked EXCEPT ![1] = new]
    BY <1>1, <2>1, FirstAsked DEF QueueInv
  <2>4. choices' = IF chooses THEN [choices EXCEPT !["set"] = [at |-> "ready", route |-> op.value]] ELSE choices
    BY <1>1, <1>4 DEF OpBegins
  <2>5. chooses => op.value \in Routes
    BY <1>1, <1>4 DEF FilesTypes
  <2>6. WayTypes' /\ (choices'["set"].at # "idle" => at = "choosing")
    BY <1>1, <2>1, <2>4, <2>5 DEF WayTypes, Choosers
  <2>7. NoOverrideLost'
    BY <1>1 DEF QueueInv, SeenIsFresh, NoOverrideLost
  <2> HIDE DEF op, unwanted, chooses
  <2>8. new \in Ops /\ new.at = at /\ new.seen = disk.shared
    <3>1. op \in Ops
      BY <1>1
    <3> QED BY <2>1, <2>2, <3>1 DEF Ops
  <2> HIDE DEF new
  <2>9. QueueInv'
    BY <1>1, <2>8, <2>3, <2>6, <2>7, FirstGoesOn
  <2> QED BY <1>2, <2>6, <2>9
<1> QED BY <1>3, <1>4

LEMMA WriteStep == ASSUME SettingsIInv, NEW i \in DOMAIN asked, OpWrites(i) PROVE SettingsIInv'
<1> USE DEF SettingsIInv
<1> DEFINE op == asked[1]
           at == IF op.key = "route" THEN "looking" ELSE "load"
<1>1. /\ i = 1 /\ asked # <<>> /\ op.at = "write" /\ op \in Ops /\ serving = "up"
      /\ choices["set"].at = "idle" /\ looks["reset"].at = "idle" /\ op.seen = disk.shared /\ disk.shared = meant
      /\ asked' = [asked EXCEPT ![1].at = at]
      /\ looks' = IF op.key = "route" THEN [looks EXCEPT !["reset"].at = "read"] ELSE looks
      /\ meant' = IF op.key \in Keys THEN [meant EXCEPT ![op.key] = op.value] ELSE meant
      /\ UNCHANGED <<serving, listed, ready, folding, chosen, route, wanted, unit, events, choices>>
  BY HeadFields, ActiveIsUp DEF OpWrites, Turn, loopVars, QueueInv, SeenIsFresh, NoOverrideLost
<1>2. PICK file : Noted(file) /\ file = CASE op.key = "route" -> [disk EXCEPT !.route = Unset]
                                         [] op.key = "fold" -> [disk EXCEPT !.fold = op.value]
                                         [] OTHER -> [disk EXCEPT !.shared = [op.seen EXCEPT ![op.key] = op.value]]
  BY <1>1 DEF OpWrites
<1>3. disk' = file
  BY <1>2 DEF Noted
<1>4. /\ disk' \in [route : Routes \cup {Unset}, fold : {"on", "off", Unset}, shared : Overrides]
      /\ disk'.shared = meant'
  <2>1. disk \in [route : Routes \cup {Unset}, fold : {"on", "off", Unset}, shared : Overrides] /\ meant \in Overrides
    BY <1>1 DEF FilesTypes
  <2>2. /\ op.key \in {"all", "route", "fold"} \cup Keys
        /\ op.key = "fold" => op.value \in {"on", "off", Unset}
        /\ op.key \in Keys => op.value \in Values \cup {Unset}
    BY <1>1 DEF Ops
  <2>3. CASE op.key = "route"
    BY <1>1, <1>2, <1>3, <2>1, <2>3, SettingsAssumption
  <2>4. CASE op.key = "fold"
    BY <1>1, <1>2, <1>3, <2>1, <2>2, <2>4, SettingsAssumption
  <2>5. CASE op.key \in Keys
    <3>1. op.key # "route" /\ op.key # "fold"
      BY <2>5, SettingsAssumption
    <3>2. disk' = [disk EXCEPT !.shared = [meant EXCEPT ![op.key] = op.value]] /\ meant' = [meant EXCEPT ![op.key] = op.value]
      BY <1>1, <1>2, <1>3, <2>5, <3>1
    <3>3. meant' \in Overrides
      BY <2>1, <2>2, <2>5, <3>2 DEF Overrides
    <3> QED BY <2>1, <3>2, <3>3
  <2>6. CASE op.key = "all"
    <3>1. op.key \notin Keys /\ op.key # "route" /\ op.key # "fold"
      BY <2>6, SettingsAssumption
    <3>2. disk' = [disk EXCEPT !.shared = [meant EXCEPT !["all"] = op.value]] /\ meant' = meant
      BY <1>1, <1>2, <1>3, <2>6, <3>1
    <3>3. [meant EXCEPT !["all"] = op.value] = meant
      BY <2>1, <2>6, <3>1 DEF Overrides
    <3> QED BY <2>1, <3>2, <3>3
  <2> QED BY <2>2, <2>3, <2>4, <2>5, <2>6
<1>5. WayTypes' /\ (looks'["reset"].at # "idle" => at = "looking")
  BY <1>1 DEF WayTypes, Lookers
<1>6. RestsUnlessUp' /\ FilesTypes' /\ LoopTypes'
  BY <1>1, <1>4, StaysUp DEF FilesTypes, LoopTypes
<1>7. WorkOnChoice'
  BY <1>1, <1>2, WorkNoted
<1>8. QueueInv'
  <2> DEFINE new == [op EXCEPT !.at = at]
  <2>1. disk.shared \in Overrides
    BY DEF FilesTypes
  <2>2. asked' = [asked EXCEPT ![1] = new]
    BY <1>1, FirstAsked DEF QueueInv
  <2>3. at \in {"looking", "load"} /\ at # "write"
    OBVIOUS
  <2>4. NoOverrideLost'
    BY <1>4 DEF NoOverrideLost
  <2> HIDE DEF op, at
  <2>5. new \in Ops /\ new.at = at
    <3>1. op \in Ops
      BY <1>1
    <3> QED BY <2>3, <3>1 DEF Ops
  <2> HIDE DEF new
  <2> QED BY <1>1, <1>5, <2>5, <2>2, <2>3, <2>4, FirstGoesOn
<1> QED BY <1>5, <1>6, <1>7, <1>8

LEMMA GoOnStep == ASSUME SettingsIInv, NEW i \in DOMAIN asked, OpGoesOn(i) PROVE SettingsIInv'
<1> USE DEF SettingsIInv
<1>1. /\ i = 1 /\ asked # <<>> /\ asked[1] \in Ops /\ serving = "up" /\ asked[1].at \in {"choosing", "looking"}
      /\ UNCHANGED <<serving, listed, ready, folding, disk, chosen, route, wanted, unit, events, meant, since>>
      /\ asked' = [asked EXCEPT ![1].at = "load"] \/ asked' = RemoveAt(asked, 1)
  BY HeadFields, ActiveIsUp DEF OpGoesOn, Turn, loopVars
<1>2. /\ asked[1].at = "choosing" => choices' = [choices EXCEPT !["set"] = Resting] /\ looks' = looks /\ looks["reset"].at = "idle"
      /\ asked[1].at = "looking" => looks' = [looks EXCEPT !["reset"] = Resting] /\ choices' = choices /\ choices["set"].at = "idle"
  BY <1>1, HeadFields DEF OpGoesOn
<1>3. WayTypes' /\ choices'["set"].at = "idle" /\ looks'["reset"].at = "idle"
  BY <1>1, <1>2, SettingsAssumption DEF WayTypes, Resting, Choosers, Lookers
<1>4. RestsUnlessUp' /\ FilesTypes' /\ LoopTypes' /\ WorkOnChoice'
  BY <1>1, StaysUp, WorkKept DEF FilesTypes, LoopTypes
<1>5. CASE asked' = RemoveAt(asked, 1)
  BY <1>1, <1>3, <1>4, <1>5, FirstGoes
<1>6. CASE asked' = [asked EXCEPT ![1].at = "load"]
  <2> DEFINE new == [asked[1] EXCEPT !.at = "load"]
  <2>1. disk.shared \in Overrides
    BY DEF FilesTypes
  <2>2. new \in Ops /\ new.at = "load"
    <3>1. asked[1] \in Ops
      BY <1>1
    <3> QED BY <3>1 DEF Ops
  <2>3. asked' = [asked EXCEPT ![1] = new]
    BY <1>1, <1>6, FirstAsked DEF QueueInv
  <2>4. NoOverrideLost'
    BY <1>1 DEF QueueInv, SeenIsFresh, NoOverrideLost
  <2> HIDE DEF new
  <2> QED BY <1>1, <1>3, <1>4, <2>2, <2>3, <2>4, FirstGoesOn
<1> QED BY <1>1, <1>5, <1>6

LEMMA LoadStep == ASSUME SettingsIInv, NEW i \in DOMAIN asked, OpLoads(i) PROVE SettingsIInv'
<1> USE DEF SettingsIInv
<1>1. /\ asked # <<>> /\ asked[1].at = "load" /\ asked' = RemoveAt(asked, 1) /\ serving = "up"
      /\ choices["set"].at = "idle" /\ looks["reset"].at = "idle"
      /\ UNCHANGED <<serving, listed, ready, folding, disk, chosen, route, wanted, unit, events, looks, choices, meant, since>>
  BY HeadFields, ActiveIsUp DEF OpLoads, Turn, loopVars
<1>2. QueueInv'
  BY <1>1, FirstGoes
<1> QED BY <1>1, <1>2, StaysUp, WorkKept DEF FilesTypes, LoopTypes, WayTypes

-----------------------------------------------------------------------------
(*                        beside the server, and the server                 *)

LEMMA OutsideSteps == ASSUME SettingsIInv, CommandLine \/ \E r \in Routes : ReadyChanges(r) PROVE SettingsIInv'
<1> USE DEF SettingsIInv
<1>1. UNCHANGED <<listed, serving, folding, chosen, route, wanted, unit, events, looks, choices, asked, meant>>
  BY DEF CommandLine, ReadyChanges, loopVars
<1>2. WayTypes' /\ LoopTypes' /\ RestsUnlessUp'
  BY <1>1 DEF WayTypes, LoopTypes, RestsUnlessUp
<1>3. CASE CommandLine
  <2>1. PICK file : /\ Noted(file)
                    /\ \/ \E r \in Routes : file = [disk EXCEPT !.route = r]
                       \/ \E f \in {"on", "off"} : file = [disk EXCEPT !.fold = f]
    BY <1>3 DEF CommandLine
  <2>2. disk' = file /\ ready' = ready
    BY <1>3, <2>1 DEF Noted, CommandLine, loopVars
  <2>3. FilesTypes' /\ disk'.shared = disk.shared
    BY <1>1, <2>1, <2>2 DEF FilesTypes
  <2> QED BY <1>1, <1>2, <2>1, <2>3, QueueKept, WorkNoted
<1>4. CASE \E r \in Routes : ReadyChanges(r)
  <2>1. disk' = disk /\ since' = since /\ ready' \subseteq Routes
    BY <1>4 DEF ReadyChanges, FilesTypes
  <2> QED BY <1>1, <1>2, <2>1, QueueKept, WorkKept DEF FilesTypes
<1> QED BY <1>3, <1>4

LEMMA RestartStep == ASSUME SettingsIInv, LoopRestarts PROVE SettingsIInv'
<1> USE DEF SettingsIInv
<1>1. /\ serving' = "starting" /\ wanted' = FALSE /\ unit' = Idle /\ events' = 0 /\ asked' = <<>>
      /\ looks' = [w \in Lookers |-> Resting] /\ choices' = [w \in Choosers |-> Resting]
      /\ UNCHANGED <<disk, ready, chosen, route, folding, meant>>
  BY DEF LoopRestarts
<1>2. listed' \subseteq Routes /\ Default \in listed'
  BY SettingsAssumption DEF LoopRestarts
<1>3. Idle \in [at : {"idle"}, read : Routes, event : BOOLEAN, refused : BOOLEAN] /\ Resting \in [at : {"idle"}, route : Routes]
  BY SettingsAssumption DEF Idle, Resting
<1>4. FilesTypes' /\ LoopTypes' /\ WayTypes'
  BY <1>1, <1>2, <1>3 DEF FilesTypes, LoopTypes, WayTypes
<1>5. RestsUnlessUp' /\ WorkOnChoice'
  BY <1>1, <1>3 DEF RestsUnlessUp, WorkOnChoice
<1>6. QueueInv'
  BY <1>1, <1>3, EmptySeq DEF QueueInv, OneChangeAtATime, SeenIsFresh, NoOverrideLost, Choosers, Lookers
<1> QED BY <1>4, <1>5, <1>6

LEMMA SettingsStartStep == ASSUME SettingsIInv, LoopStarts PROVE SettingsIInv'
<1> USE DEF SettingsIInv
<1>1. /\ serving = "starting" /\ chosen' = Choice /\ folding' = Fold /\ serving' \in {"up", "failed"}
      /\ disk' = disk \/ disk' = [disk EXCEPT !.route = Default]
      /\ route' \in {Choice, Unset}
      /\ UNCHANGED <<listed, ready, wanted, unit, events, looks, choices, asked, meant>>
  BY DEF LoopStarts
<1>2. FilesTypes' /\ disk'.shared = disk.shared
  BY <1>1, SettingsAssumption DEF FilesTypes
<1>3. LoopTypes' /\ WayTypes'
  BY <1>1, ChoiceIsRoute DEF FilesTypes, LoopTypes, WayTypes, Fold
<1>4. RestsUnlessUp' /\ WorkOnChoice'
  BY <1>1 DEF RestsUnlessUp, WorkOnChoice
<1> QED BY <1>1, <1>2, <1>3, <1>4, QueueKept

-----------------------------------------------------------------------------
(*                              the theorems                                *)

LEMMA SettingsInitHolds == SettingsInit => SettingsIInv
<1> SUFFICES ASSUME SettingsInit PROVE SettingsIInv
  OBVIOUS
<1> USE DEF SettingsInit
<1>1. Idle \in [at : {"idle"}, read : Routes, event : BOOLEAN, refused : BOOLEAN] /\ Resting \in [at : {"idle"}, route : Routes]
  BY SettingsAssumption DEF Idle, Resting
<1>2. FilesTypes /\ LoopTypes /\ WayTypes
  BY <1>1, SettingsAssumption DEF FilesTypes, LoopTypes, WayTypes, Overrides
<1>3. QueueInv
  BY <1>1, EmptySeq DEF QueueInv, OneChangeAtATime, SeenIsFresh, NoOverrideLost, Choosers, Lookers
<1>4. RestsUnlessUp /\ WorkOnChoice
  BY <1>1 DEF RestsUnlessUp, WorkOnChoice
<1> QED BY <1>2, <1>3, <1>4 DEF SettingsIInv

LEMMA SettingsStepKeeps == SettingsIInv /\ [SettingsNext]_settingsVars => SettingsIInv'
<1> SUFFICES ASSUME SettingsIInv, [SettingsNext]_settingsVars PROVE SettingsIInv'
  OBVIOUS
<1>1. CASE EventComes \/ LoopGoesOn
  BY <1>1, EventStep, WorkReadSteps, WorkUseSteps, WorkEndSteps DEF LoopGoesOn
<1>2. CASE Beats \/ BeatOver \/ \E w \in Lookers : LookGoesOn(w)
  BY <1>2, BeatSteps, LookSteps
<1>3. CASE QueueGoesOn
  BY <1>3, BeginStep, WriteStep, GoOnStep, LoadStep DEF QueueGoesOn
<1>4. CASE \E r \in Routes : UseRoute(r) \/ ReadyChanges(r) \/ Ask(Change("route", r))
  BY <1>4, UseStep, OutsideSteps, AskStep, AskedFor
<1>5. CASE \E w \in Choosers : ChoiceGoesOn(w)
  BY <1>5, ChoiceSteps
<1>6. CASE \/ \E k \in Keys, v \in Values \cup {Unset} : Ask(Change(k, v))
           \/ \E v \in {"on", Unset} : Ask(Change("fold", v))
           \/ Ask(Change("route", Unset))
  BY <1>6, AskStep, AskedFor
<1>7. CASE CommandLine \/ LoopRestarts \/ LoopStarts
  BY <1>7, OutsideSteps, RestartStep, SettingsStartStep
<1>8. CASE UNCHANGED settingsVars
  <2>1. UNCHANGED <<disk, listed, ready, serving, chosen, route, folding, wanted, unit, events, looks, choices, asked, meant, since>>
    BY <1>8 DEF settingsVars
  <2> QED BY <2>1, QueueKept, WorkKept DEF SettingsIInv, FilesTypes, LoopTypes, WayTypes, RestsUnlessUp
<1> QED BY <1>1, <1>2, <1>3, <1>4, <1>5, <1>6, <1>7, <1>8 DEF SettingsNext

\* The head of the queue and what is under way for it agree, and the work in hand goes by a choice there was.
THEOREM SettingsInvariant == SettingsSpec => []SettingsIInv
<1>1. SettingsInit => SettingsIInv
  BY SettingsInitHolds
<1>2. SettingsIInv /\ [SettingsNext]_settingsVars => SettingsIInv'
  BY SettingsStepKeeps
<1> QED BY <1>1, <1>2, PTL DEF SettingsSpec

\* Two devices' changes of the shared file leave both, a turn is on a route the owner chose since its work began unless
\* that one was not ready, and what goes through the loop for a change is there for the first of the queue alone.
THEOREM SettingsAreSafe == SettingsSpec => []SettingsSafety
<1>1. SettingsIInv => SettingsSafety
  <2> SUFFICES ASSUME SettingsIInv PROVE SettingsSafety
    OBVIOUS
  <2>1. SettingsTypeOK
    BY DEF SettingsIInv, FilesTypes, LoopTypes, WayTypes, SettingsTypeOK, Overrides
  <2>2. NoOverrideLost /\ OneChangeAtATime
    BY DEF SettingsIInv, QueueInv, SeenIsFresh
  <2>3. TurnOnTheChoice
    BY DEF SettingsIInv, WorkOnChoice, TurnOnTheChoice
  <2> QED BY <2>1, <2>2, <2>3 DEF SettingsSafety
<1> QED BY <1>1, SettingsInvariant, PTL

-----------------------------------------------------------------------------
(***************************************************************************)
(* Memory and the curator's night proved for any paths, texts, edits,      *)
(* moves, and any number of turns, writes and upsets: what is committed    *)
(* came through the checks of who wrote it, the archives lose nothing, a   *)
(* stage is whole or nothing, the links follow what it moved, and a change *)
(* the curator was not given counts as changed.                            *)
(* The inductive invariant says of each place the work has come to what    *)
(* was made sure of by then, leaving out what a command in the background  *)
(* and the owner wrote meanwhile.                                          *)
(***************************************************************************)


Whos == {"start", "day", "night", "curator", "server", "owner"}
Staging == {"curating", "correcting", "judging", "keeping", "mending", "mended"}
Entries == [path : Paths, known : BOOLEAN, removed : BOOLEAN]

\* What the variables hold.
TreeTypes ==
  /\ tree \in [Paths -> Text] /\ committed \in [Paths -> Text] /\ by \in [Paths -> Whos]
  /\ given \in [Paths -> Text] /\ heard \in [Paths -> Text]
WorkTypes ==
  /\ doing \in Staging \cup {"nothing", "turn", "checking", "curator", "down"}
  /\ writer \in {"day", "night"} /\ todo \subseteq Entries
  /\ stage \in 1..5 /\ (doing \in Staging => stage < 5)
  /\ cutOff \in BOOLEAN /\ rewritten \in BOOLEAN /\ late \in BOOLEAN
  /\ brief \subseteq Paths /\ handled \subseteq Paths
  /\ merged \in [Paths -> Paths \cup {NoFile}] /\ moves \in [Paths -> Paths \cup {NoFile}]
RecordTypes ==
  /\ based \in BOOLEAN /\ curatedAt \in [Paths -> 0..MaxTurns]
  /\ count \in [turns : 0..MaxTurns, writes : 0..MaxWrites, upsets : 0..MaxUpsets]
  /\ touched \subseteq Paths /\ owners \subseteq Paths /\ unmended \subseteq Paths
MemoryTypes == TreeTypes /\ WorkTypes /\ RecordTypes

\* What a path may hold by the hand of someone.
Sound(p, content, who) ==
  /\ content # NoFile => Passes(content)
  /\ Kind[p] \in Fixed => content # NoFile
  /\ who = "day" => Kind[p] \notin NightOnly \cup {"index"} \cup Archived
  /\ who = "night" => Kind[p] \notin {"index"} \cup Archived
  /\ who = "curator" => Kind[p] \notin HerFiles \cup CuratorKeepsOff \cup {"diary"}

\* A change of a turn is still to be looked at, or sound; one of a stage that is kept is sound.
TurnInv ==
  doing = "checking" => \A p \in Paths \ touched : tree[p] # committed[p] =>
    (\E e \in todo : e.path = p /\ e.removed = (tree[p] = NoFile)) \/ Sound(p, tree[p], writer)
KeepInv == doing = "keeping" => \A p \in Paths \ touched : tree[p] # committed[p] => Sound(p, tree[p], "curator")
CheckedInv == CommittedIsChecked /\ TurnInv /\ KeepInv

\* The groups are whole, or gone with what they became there; this month's file has not lost anything.
Whole(t) ==
  /\ (\E p \in Paths : Kind[p] = "group" /\ FirstTree[p] # NoFile /\ t[p] = NoFile) =>
       /\ \A p \in Paths : Kind[p] = "group" => t[p] = NoFile
       /\ \A p \in Paths : Kind[p] = "into" => t[p] # NoFile
  /\ \A p \in Paths : Kind[p] = "append" /\ FirstTree[p] # NoFile => t[p] # NoFile /\ Len(t[p]) >= Len(FirstTree[p])
SameLengths(s, t) == \A p \in Paths : (s[p] = NoFile <=> t[p] = NoFile) /\ (s[p] # NoFile => Len(s[p]) = Len(t[p]))
Alone == touched \cup owners = {}
ArchiveInv ==
  /\ Alone => Whole(committed)
  /\ Alone /\ doing \in {"curating", "correcting", "judging", "keeping"} => before = committed
  /\ Alone /\ doing = "keeping" => Rejected(tree) = {}
  /\ Alone /\ doing = "mended" => SameLengths(tree, committed)

\* Nothing but what a background command wrote is in the tree, before a stage and once it is committed.
LeavesInv ==
  /\ doing \in {"curator", "mending"} => Differ(tree, committed) \subseteq touched
  /\ doing = "mended" /\ Moved = {} => Differ(tree, committed) \subseteq touched
  /\ cutOff => doing \in Staging \cup {"down"}

\* Until the paths are put right nothing has moved; then no page of the tree links to what has.
LinksInv ==
  /\ LinksFollow
  /\ doing \in Staging => unmended = {}
  /\ doing \in Staging \ {"mended"} => Moved = {}
  /\ doing = "mended" =>
       \A p \in Paths \ (touched \cup owners) : tree[p] # NoFile => Kind[p] = "script" \/ ToSet(tree[p]) \cap Moved = {}

\* The base is what was given; from the structure stage of a night that went well so far on, so is what is committed.
Structured == rewritten /\ ((doing \in Staging /\ stage >= 3) \/ (doing = "curator" /\ stage >= 4))
GivenInv ==
  based => \A p \in Paths \ owners : Rewritable(p) => given[p] = base[p] /\ (Structured => heard[p] = committed[p])

MemoryInv == MemoryTypes /\ CheckedInv /\ ArchiveInv /\ LeavesInv /\ LinksInv /\ GivenInv

-----------------------------------------------------------------------------
(* What the operators give.                                                 *)

LEMMA Numbers == MaxTurns \in Nat /\ MaxWrites \in Nat /\ MaxUpsets \in Nat
BY MemoryAssumption

LEMMA ATextIsWords ==
  /\ NoFile \in Text /\ NoFile \notin Seq(Words) /\ NoFile \notin Paths
  /\ \A content \in Text : content # NoFile => content \in Seq(Words)
BY MemoryAssumption DEF Text

LEMMA FourStages == Len(CuratorStages) = 4
BY DEF CuratorStages

\* What a check lets pass is sound.
LEMMA AllowedIsSound ==
  ASSUME NEW p \in Paths, NEW t, NEW who \in {"day", "night", "curator"}, ~Refuses(p, t[p] = NoFile, who, t)
  PROVE  Sound(p, t[p], who)
BY DEF Refuses, Sound, ContentFails, Fixed, HerFiles, NightOnly

\* What a commit does.
LEMMA CommitMakes ==
  ASSUME TreeTypes, NEW who \in Whos, NEW t \in [Paths -> Text], Commits(who, t)
  PROVE  /\ committed' = t /\ given' = given
         /\ committed' \in [Paths -> Text] /\ by' \in [Paths -> Whos] /\ given' \in [Paths -> Text] /\ heard' \in [Paths -> Text]
         /\ \A p \in Paths : by'[p] = IF t[p] # committed[p] THEN who ELSE by[p]
         /\ \A p \in Paths : heard'[p] = IF who \in {"curator", "server"} /\ heard[p] = committed[p] THEN t[p] ELSE heard[p]
BY DEF TreeTypes, Commits

LEMMA CountedOnce ==
  ASSUME RecordTypes, NEW what \in {"turns", "writes", "upsets"}, Counted(what),
         count[what] < (IF what = "turns" THEN MaxTurns ELSE IF what = "writes" THEN MaxWrites ELSE MaxUpsets)
  PROVE  count' \in [turns : 0..MaxTurns, writes : 0..MaxWrites, upsets : 0..MaxUpsets]
<1>1. CASE what = "turns"
  BY <1>1, Numbers DEF Counted, RecordTypes
<1>2. CASE what = "writes"
  BY <1>2, Numbers DEF Counted, RecordTypes
<1>3. CASE what = "upsets"
  BY <1>3, Numbers DEF Counted, RecordTypes
<1> QED BY <1>1, <1>2, <1>3

-----------------------------------------------------------------------------
(* A turn of natsumi's, and its commit.                                     *)

LEMMA BeginsTurnStep == ASSUME MemoryInv, NEW who \in {"day", "night"}, BeginsTurn(who) PROVE MemoryInv'
<1>1. /\ doing = "nothing" /\ doing' = "turn" /\ writer' = who /\ count.turns < MaxTurns /\ Counted("turns")
      /\ base' = base \/ ~based
      /\ UNCHANGED <<tree, todo, stage, rewritten, cutOff, late, before, merged, moves, brief, handled, based, curatedAt,
                     committed, by, given, heard, touched, owners, unmended>>
  BY DEF BeginsTurn, stageVars, briefVars, commitVars
<1>2. count' \in [turns : 0..MaxTurns, writes : 0..MaxWrites, upsets : 0..MaxUpsets]
  BY <1>1, CountedOnce DEF MemoryInv, MemoryTypes
<1>3. MemoryTypes'
  BY <1>1, <1>2 DEF MemoryInv, MemoryTypes, TreeTypes, WorkTypes, RecordTypes, Staging
<1>4. CheckedInv'
  BY <1>1 DEF MemoryInv, CheckedInv, CommittedIsChecked, Others, TurnInv, KeepInv
<1>5. ArchiveInv'
  BY <1>1 DEF MemoryInv, ArchiveInv, Alone, Whole
<1>6. LeavesInv' /\ LinksInv'
  BY <1>1 DEF MemoryInv, LeavesInv, LinksInv, LinksFollow, Staging
<1>7. GivenInv'
  BY <1>1 DEF MemoryInv, GivenInv, Structured, Staging
<1> QED BY <1>3, <1>4, <1>5, <1>6, <1>7 DEF MemoryInv

\* A writer of a turn or a stage, or a command in the background, writes one file.
LEMMA FileWritten ==
  ASSUME TreeTypes, NEW p \in Paths, NEW content \in Text, tree' = [tree EXCEPT ![p] = content]
  PROVE  tree' \in [Paths -> Text] /\ tree'[p] = content /\ \A q \in Paths \ {p} : tree'[q] = tree[q]
BY DEF TreeTypes

LEMMA SheWritesStep == ASSUME MemoryInv, NEW p \in Paths, NEW content \in Text, SheWrites(p, content) PROVE MemoryInv'
<1>1. /\ doing = "turn" /\ count.writes < MaxWrites /\ Counted("writes") /\ tree' = [tree EXCEPT ![p] = content]
      /\ UNCHANGED <<doing, writer, todo, stage, rewritten, cutOff, late, before, merged, moves, brief, handled, based, base, curatedAt,
                     committed, by, given, heard, touched, owners, unmended>>
  BY DEF SheWrites, turnVars, stageVars, briefVars, recordVars, commitVars
<1>2. count' \in [turns : 0..MaxTurns, writes : 0..MaxWrites, upsets : 0..MaxUpsets]
  BY <1>1, CountedOnce DEF MemoryInv, MemoryTypes
<1>3. tree' \in [Paths -> Text]
  BY <1>1, FileWritten DEF MemoryInv, MemoryTypes
<1>4. MemoryTypes'
  BY <1>1, <1>2, <1>3 DEF MemoryInv, MemoryTypes, TreeTypes, WorkTypes, RecordTypes, Staging
<1>5. CheckedInv'
  BY <1>1 DEF MemoryInv, CheckedInv, CommittedIsChecked, Others, TurnInv, KeepInv
<1>6. ArchiveInv'
  BY <1>1 DEF MemoryInv, ArchiveInv, Alone, Whole
<1>7. LeavesInv' /\ LinksInv'
  BY <1>1 DEF MemoryInv, LeavesInv, LinksInv, LinksFollow, Staging
<1>8. GivenInv'
  BY <1>1 DEF MemoryInv, GivenInv, Structured, Staging
<1> QED BY <1>4, <1>5, <1>6, <1>7, <1>8 DEF MemoryInv

LEMMA TurnsCommitStep == ASSUME MemoryInv, TurnsCommit PROVE MemoryInv'
<1>1. /\ doing = "turn" /\ doing' = "checking" /\ todo' = StatusOf(tree)
      /\ UNCHANGED <<tree, writer, stage, rewritten, cutOff, late, before, merged, moves, brief, handled, based, base, curatedAt,
                     committed, by, given, heard, count, touched, owners, unmended>>
  BY DEF TurnsCommit, stageVars, briefVars, recordVars, commitVars
<1>2. MemoryTypes'
  <2>1. StatusOf(tree) \subseteq Entries
    <3>1. ASSUME NEW p \in Paths, NEW known \in BOOLEAN, NEW removed \in BOOLEAN
          PROVE  [path |-> p, known |-> known, removed |-> removed] \in Entries
      BY DEF Entries
    <3>2. ASSUME NEW p \in Paths PROVE (committed[p] # NoFile) \in BOOLEAN /\ (tree[p] = NoFile) \in BOOLEAN
      OBVIOUS
    <3> QED BY <3>1, <3>2, Zenon DEF StatusOf, Differ
  <2> QED BY <1>1, <2>1 DEF MemoryInv, MemoryTypes, TreeTypes, WorkTypes, RecordTypes, Staging
<1>3. CheckedInv'
  <2>1. CommittedIsChecked' /\ KeepInv'
    BY <1>1 DEF MemoryInv, CheckedInv, CommittedIsChecked, Others, KeepInv
  <2>2. ASSUME NEW p \in Paths, tree[p] # committed[p]
        PROVE  \E e \in StatusOf(tree) : e.path = p /\ e.removed = (tree[p] = NoFile)
    <3>1. [path |-> p, known |-> committed[p] # NoFile, removed |-> tree[p] = NoFile] \in StatusOf(tree)
      BY <2>2 DEF StatusOf, Differ
    <3> QED BY <3>1
  <2> QED BY <1>1, <2>1, <2>2 DEF CheckedInv, TurnInv
<1>4. ArchiveInv'
  BY <1>1 DEF MemoryInv, ArchiveInv, Alone, Whole
<1>5. LeavesInv' /\ LinksInv'
  BY <1>1 DEF MemoryInv, LeavesInv, LinksInv, LinksFollow, Staging
<1>6. GivenInv'
  BY <1>1 DEF MemoryInv, GivenInv, Structured, Staging
<1> QED BY <1>2, <1>3, <1>4, <1>5, <1>6 DEF MemoryInv

LEMMA ChecksFileStep == ASSUME MemoryInv, ChecksFile PROVE MemoryInv'
<1>1. /\ doing = "checking"
      /\ UNCHANGED <<doing, writer, stage, rewritten, cutOff, late, before, merged, moves, brief, handled, based, base, curatedAt,
                     committed, by, given, heard, count, touched, owners, unmended>>
  BY DEF ChecksFile, stageVars, briefVars, recordVars, commitVars
<1>2. PICK entry \in todo : /\ tree' = IF Refuses(entry.path, entry.removed, writer, tree)
                                      THEN [tree EXCEPT ![entry.path] = committed[entry.path]] ELSE tree
                            /\ todo' = todo \ {entry}
  BY DEF ChecksFile
<1>3. entry.path \in Paths
  BY DEF MemoryInv, MemoryTypes, WorkTypes, Entries
<1>4. tree' \in [Paths -> Text]
  BY <1>2, <1>3 DEF MemoryInv, MemoryTypes, TreeTypes
<1>5. MemoryTypes'
  BY <1>1, <1>2, <1>4 DEF MemoryInv, MemoryTypes, TreeTypes, WorkTypes, RecordTypes, Staging
<1>6. CheckedInv'
  <2>1. CommittedIsChecked' /\ KeepInv'
    BY <1>1 DEF MemoryInv, CheckedInv, CommittedIsChecked, Others, KeepInv
  <2>2. ASSUME NEW p \in Paths \ touched, tree'[p] # committed[p]
        PROVE  (\E e \in todo' : e.path = p /\ e.removed = (tree'[p] = NoFile)) \/ Sound(p, tree'[p], writer)
    <3>1. tree'[p] = tree[p] /\ (p = entry.path => ~Refuses(entry.path, entry.removed, writer, tree))
      BY <1>2, <2>2 DEF MemoryInv, MemoryTypes, TreeTypes
    <3>2. (\E e \in todo : e.path = p /\ e.removed = (tree[p] = NoFile)) \/ Sound(p, tree[p], writer)
      BY <1>1, <2>2, <3>1 DEF MemoryInv, CheckedInv, TurnInv
    <3>3. CASE entry.path = p /\ entry.removed = (tree[p] = NoFile)
      <4>1. ~Refuses(p, tree[p] = NoFile, writer, tree) /\ writer \in {"day", "night", "curator"}
        BY <3>1, <3>3 DEF MemoryInv, MemoryTypes, WorkTypes
      <4> QED BY <3>1, <4>1, AllowedIsSound
    <3>4. CASE ~(entry.path = p /\ entry.removed = (tree[p] = NoFile))
      BY <1>2, <3>1, <3>2, <3>4
    <3> QED BY <3>3, <3>4
  <2> QED BY <1>1, <2>1, <2>2 DEF CheckedInv, TurnInv
<1>7. ArchiveInv'
  BY <1>1 DEF MemoryInv, ArchiveInv, Alone, Whole
<1>8. LeavesInv' /\ LinksInv'
  BY <1>1 DEF MemoryInv, LeavesInv, LinksInv, LinksFollow, Staging
<1>9. GivenInv'
  BY <1>1 DEF MemoryInv, GivenInv, Structured, Staging
<1> QED BY <1>5, <1>6, <1>7, <1>8, <1>9 DEF MemoryInv

\* A turn writes nothing in the archives.
LEMMA CommitsTurnStep == ASSUME MemoryInv, CommitsTurn PROVE MemoryInv'
<1>1. /\ doing = "checking" /\ todo = {} /\ Commits(writer, tree)
      /\ \/ /\ writer = "night" /\ doing' = "curator" /\ stage' = 1 /\ rewritten' = TRUE /\ late' = FALSE
            /\ handled' = {} /\ unmended' = Paths
         \/ doing' = "nothing" /\ UNCHANGED <<stage, rewritten, late, handled, unmended>>
      /\ UNCHANGED <<tree, writer, todo, cutOff, before, merged, moves, brief, based, base, curatedAt, count, touched, owners>>
  BY DEF CommitsTurn, turnVars, recordVars
<1>2. writer \in {"day", "night"} /\ writer \in Whos /\ tree \in [Paths -> Text]
  BY DEF MemoryInv, MemoryTypes, TreeTypes, WorkTypes, Whos
<1>3. /\ committed' = tree /\ given' = given
      /\ committed' \in [Paths -> Text] /\ by' \in [Paths -> Whos] /\ given' \in [Paths -> Text] /\ heard' \in [Paths -> Text]
      /\ \A p \in Paths : by'[p] = IF tree[p] # committed[p] THEN writer ELSE by[p]
  BY <1>1, <1>2, CommitMakes DEF MemoryInv, MemoryTypes
<1>4. MemoryTypes'
  <2>1. TreeTypes' /\ RecordTypes'
    BY <1>1, <1>3 DEF MemoryInv, MemoryTypes, TreeTypes, RecordTypes
  <2>2. WorkTypes'
    <3>1. CASE /\ doing' = "curator" /\ stage' = 1 /\ rewritten' = TRUE /\ late' = FALSE /\ handled' = {}
      <4>1. rewritten' \in BOOLEAN /\ late' \in BOOLEAN
        BY <3>1
      <4>2. stage' \in 1..5 /\ handled' \subseteq Paths /\ doing' \notin Staging
        BY <3>1 DEF Staging
      <4> QED BY <1>1, <3>1, <4>1, <4>2 DEF MemoryInv, MemoryTypes, WorkTypes
    <3>2. CASE doing' = "nothing" /\ UNCHANGED <<stage, rewritten, late, handled>>
      BY <1>1, <3>2 DEF MemoryInv, MemoryTypes, WorkTypes, Staging
    <3> QED BY <1>1, <3>1, <3>2
  <2> QED BY <2>1, <2>2 DEF MemoryTypes
<1>5. \A p \in Paths \ touched : tree[p] # committed[p] => Sound(p, tree[p], writer)
  BY <1>1 DEF MemoryInv, CheckedInv, TurnInv
<1>6. CheckedInv'
  <2>1. ASSUME NEW p \in Paths \ Others'
        PROVE  /\ committed'[p] # NoFile => Passes(committed'[p])
               /\ by'[p] = "day" => Kind[p] \notin NightOnly \cup {"index"} \cup Archived
               /\ by'[p] = "night" => Kind[p] \notin {"index"} \cup Archived
               /\ by'[p] = "curator" => Kind[p] \notin HerFiles \cup CuratorKeepsOff \cup {"diary"}
               /\ Kind[p] \in Fixed => committed'[p] # NoFile
    <3>1. p \notin touched /\ by'[p] # "owner"
      BY <1>1 DEF Others
    <3>2. CASE tree[p] # committed[p]
      BY <1>2, <1>3, <1>5, <3>1, <3>2 DEF Sound
    <3>3. CASE tree[p] = committed[p]
      BY <1>3, <3>1, <3>3 DEF MemoryInv, CheckedInv, CommittedIsChecked, Others
    <3> QED BY <3>2, <3>3
  <2>2. CommittedIsChecked'
    BY <2>1 DEF CommittedIsChecked
  <2> QED BY <1>1, <2>2 DEF CheckedInv, TurnInv, KeepInv
<1>7. ArchiveInv'
  <2>1. ASSUME Alone PROVE \A p \in Paths : Kind[p] \in Archived => committed'[p] = committed[p]
    BY <1>2, <1>3, <1>5, <2>1 DEF Alone, Sound
  <2> QED BY <1>1, <2>1 DEF MemoryInv, ArchiveInv, Alone, Whole, Archived
<1>8. LeavesInv' /\ LinksInv'
  BY <1>1, <1>3 DEF MemoryInv, LeavesInv, LinksInv, LinksFollow, Staging, Differ, Held
<1>9. GivenInv'
  BY <1>1, <1>3 DEF MemoryInv, GivenInv, Structured, Staging
<1> QED BY <1>4, <1>6, <1>7, <1>8, <1>9 DEF MemoryInv

-----------------------------------------------------------------------------
(* A stage that is not begun, begins, or ends with nothing kept.            *)

LEMMA OnlyIndexIsLast == ASSUME stage \in 1..4 PROVE Rewrites(StageName) <=> stage # 4
BY DEF Rewrites, StageName, CuratorStages

\* The next stage's turn.
LEMMA StageFollows ==
  ASSUME WorkTypes, stage < 5, NEW ok \in BOOLEAN, StageEnds(ok)
  PROVE  /\ doing' = "curator" /\ stage' = stage + 1 /\ stage' \in 1..5
         /\ rewritten' \in BOOLEAN /\ (rewritten' => rewritten /\ (ok \/ stage = 4))
<1>1. doing' = "curator" /\ stage' = stage + 1 /\ rewritten' = (rewritten /\ (Rewrites(StageName) => ok))
  BY DEF StageEnds
<1>2. stage \in 1..4
  BY DEF WorkTypes
<1>3. rewritten' \in BOOLEAN
  BY <1>1
<1>4. rewritten' => rewritten /\ (ok \/ stage = 4)
  BY <1>1, <1>2, OnlyIndexIsLast
<1> QED BY <1>1, <1>2, <1>3, <1>4

\* A good night goes on to be one.
LEMMA StructuredOn ==
  ASSUME WorkTypes, stage < 5, NEW ok \in BOOLEAN, StageEnds(ok), ok => doing \in Staging, doing \in Staging \cup {"curator"}, Structured'
  PROVE  Structured
<1>1. doing' = "curator" /\ stage' = stage + 1 /\ (rewritten' => rewritten /\ (ok \/ stage = 4))
  BY StageFollows
<1>2. rewritten /\ stage >= 3 /\ (ok \/ stage = 4)
  BY <1>1 DEF Structured, Staging, WorkTypes
<1> QED BY <1>2 DEF Structured

LEMMA StageNotBegunStep == ASSUME MemoryInv, StageNotBegun PROVE MemoryInv'
<1>1. /\ doing = "curator" /\ stage < 5 /\ StageEnds(FALSE)
      /\ UNCHANGED <<late, count>> \/ (count.upsets < MaxUpsets /\ Counted("upsets") /\ late' \in BOOLEAN)
      /\ UNCHANGED <<tree, writer, todo, cutOff, before, merged, moves, brief, handled, based, base, curatedAt,
                     committed, by, given, heard, touched, owners, unmended>>
  <2>1. stage < 5
    BY FourStages DEF StageNotBegun, MemoryInv, MemoryTypes, WorkTypes
  <2>2. UNCHANGED <<late, count>> \/ (count.upsets < MaxUpsets /\ Counted("upsets") /\ late' \in BOOLEAN)
    BY DEF StageNotBegun
  <2>3. doing = "curator" /\ StageEnds(FALSE)
    BY DEF StageNotBegun
  <2>4. UNCHANGED <<tree, writer, todo, cutOff, before, merged, moves, brief, handled, based, base, curatedAt,
                    committed, by, given, heard, touched, owners, unmended>>
    BY DEF StageNotBegun, turnVars, recordVars, commitVars
  <2> QED BY <2>1, <2>2, <2>3, <2>4, Zenon
<1>2. /\ doing' = "curator" /\ stage' \in 1..5 /\ rewritten' \in BOOLEAN
  BY <1>1, StageFollows DEF MemoryInv, MemoryTypes
<1>3. MemoryTypes'
  <2>1. count' \in [turns : 0..MaxTurns, writes : 0..MaxWrites, upsets : 0..MaxUpsets] /\ late' \in BOOLEAN
    BY <1>1, CountedOnce DEF MemoryInv, MemoryTypes, RecordTypes, WorkTypes
  <2> QED BY <1>1, <1>2, <2>1 DEF MemoryInv, MemoryTypes, TreeTypes, WorkTypes, RecordTypes, Staging
<1>4. CheckedInv'
  BY <1>1, <1>2 DEF MemoryInv, CheckedInv, CommittedIsChecked, Others, TurnInv, KeepInv
<1>5. ArchiveInv'
  BY <1>1, <1>2 DEF MemoryInv, ArchiveInv, Alone, Whole
<1>6. LeavesInv' /\ LinksInv'
  BY <1>1, <1>2 DEF MemoryInv, LeavesInv, LinksInv, LinksFollow, Staging, Differ, Held, Moved
<1>7. GivenInv'
  <2>1. Structured' => Structured
    BY <1>1, StructuredOn DEF MemoryInv, MemoryTypes
  <2> QED BY <1>1, <2>1 DEF MemoryInv, GivenInv
<1> QED BY <1>3, <1>4, <1>5, <1>6, <1>7 DEF MemoryInv

\* What a stage is given to rewrite are pages, and with the structure's stage none that changed is left out.
LEMMA ScopeHolds ==
  /\ Scope \subseteq Paths
  /\ \A p \in Held(committed) : Rewritable(p) /\ committed[p] # base[p] => p \in Scope
BY DEF Scope, ChangedTopics, InTurn, Held

LEMMA BeginsStageStep == ASSUME MemoryInv, BeginsStage PROVE MemoryInv'
<1>1. /\ doing = "curator" /\ doing' = "curating" /\ stage < 5 /\ tree = committed /\ before' = committed /\ cutOff' = TRUE
      /\ merged' = [p \in Paths |-> NoFile] /\ moves' = [p \in Paths |-> NoFile] /\ unmended' = {}
      /\ brief' = (IF StageName \in {"archive", "structure"} THEN Scope ELSE {})
      /\ UNCHANGED <<tree, writer, todo, stage, rewritten, late, handled, based, base, curatedAt, committed, by, given, count, touched, owners>>
  BY FourStages DEF BeginsStage, turnVars, recordVars, MemoryInv, MemoryTypes, WorkTypes
<1>2. heard' = (IF StageName = "structure"
                THEN [p \in Paths |-> IF p \in Scope \/ p \notin Held(committed) THEN committed[p] ELSE given[p]] ELSE heard)
  BY DEF BeginsStage
<1>3. MemoryTypes'
  <2>1. TreeTypes'
    BY <1>1, <1>2 DEF MemoryInv, MemoryTypes, TreeTypes
  <2>2. brief' \subseteq Paths
    BY <1>1, ScopeHolds
  <2>3. WorkTypes'
    BY <1>1, <2>2 DEF MemoryInv, MemoryTypes, WorkTypes, Staging
  <2>4. RecordTypes'
    BY <1>1 DEF MemoryInv, MemoryTypes, RecordTypes
  <2> QED BY <2>1, <2>3, <2>4 DEF MemoryTypes
<1>4. CheckedInv'
  BY <1>1 DEF MemoryInv, CheckedInv, CommittedIsChecked, Others, TurnInv, KeepInv
<1>5. ArchiveInv'
  BY <1>1 DEF MemoryInv, ArchiveInv, Alone, Whole
<1>6. LeavesInv' /\ LinksInv'
  BY <1>1 DEF MemoryInv, LeavesInv, LinksInv, LinksFollow, Staging, Moved
<1>7. GivenInv'
  <2> SUFFICES ASSUME based, NEW p \in Paths \ owners, Rewritable(p)
               PROVE  given[p] = base[p] /\ (Structured' => heard'[p] = committed[p])
    BY <1>1 DEF GivenInv
  <2>1. given[p] = base[p]
    BY DEF MemoryInv, GivenInv
  <2>2. ASSUME Structured' PROVE heard'[p] = committed[p]
    <3>1. rewritten /\ stage >= 3 /\ stage \in {3, 4}
      BY <1>1, <2>2 DEF Structured, MemoryInv, MemoryTypes, WorkTypes
    <3>2. CASE stage = 3
      <4>1. StageName = "structure"
        BY <3>2 DEF StageName, CuratorStages
      <4>2. heard'[p] = IF p \in Scope \/ p \notin Held(committed) THEN committed[p] ELSE given[p]
        BY <1>2, <4>1
      <4> QED BY <2>1, <4>2, ScopeHolds
    <3>3. CASE stage = 4
      <4>1. StageName # "structure"
        BY <3>3 DEF StageName, CuratorStages
      <4>2. Structured
        BY <1>1, <3>1, <3>3 DEF Structured
      <4> QED BY <1>2, <4>1, <4>2 DEF MemoryInv, GivenInv
    <3> QED BY <3>1, <3>2, <3>3
  <2> QED BY <2>1, <2>2
<1> QED BY <1>3, <1>4, <1>5, <1>6, <1>7 DEF MemoryInv

LEMMA CuratorWritesStep == ASSUME MemoryInv, NEW p \in Paths, NEW content \in Text, CuratorWrites(p, content) PROVE MemoryInv'
<1>1. /\ doing \in {"curating", "correcting"} /\ count.writes < MaxWrites /\ Counted("writes") /\ tree' = [tree EXCEPT ![p] = content]
      /\ UNCHANGED <<doing, writer, todo, stage, rewritten, cutOff, late, before, merged, moves, brief, handled, based, base, curatedAt,
                     committed, by, given, heard, touched, owners, unmended>>
  BY DEF CuratorWrites, turnVars, stageVars, briefVars, recordVars, commitVars
<1>2. count' \in [turns : 0..MaxTurns, writes : 0..MaxWrites, upsets : 0..MaxUpsets] /\ tree' \in [Paths -> Text]
  BY <1>1, CountedOnce, FileWritten DEF MemoryInv, MemoryTypes
<1>3. MemoryTypes'
  BY <1>1, <1>2 DEF MemoryInv, MemoryTypes, TreeTypes, WorkTypes, RecordTypes, Staging
<1>4. CheckedInv' /\ ArchiveInv'
  BY <1>1 DEF MemoryInv, CheckedInv, CommittedIsChecked, Others, TurnInv, KeepInv, ArchiveInv, Alone, Whole
<1>5. LeavesInv' /\ LinksInv'
  BY <1>1 DEF MemoryInv, LeavesInv, LinksInv, LinksFollow, Staging, Moved
<1>6. GivenInv'
  BY <1>1 DEF MemoryInv, GivenInv, Structured, Staging
<1> QED BY <1>3, <1>4, <1>5, <1>6 DEF MemoryInv

LEMMA MapOldPathStep == ASSUME MemoryInv, NEW from \in Paths, NEW to \in Paths, MapOldPath(from, to) PROVE MemoryInv'
<1>1. /\ doing \in {"curating", "correcting"} /\ merged' = [merged EXCEPT ![from] = to]
      /\ UNCHANGED <<tree, doing, writer, todo, stage, rewritten, cutOff, late, before, moves, brief, handled, based, base, curatedAt,
                     committed, by, given, heard, count, touched, owners, unmended>>
  BY DEF MapOldPath, turnVars, stageVars, recordVars, commitVars
<1>2. MemoryTypes'
  BY <1>1 DEF MemoryInv, MemoryTypes, TreeTypes, WorkTypes, RecordTypes, Staging
<1>3. CheckedInv' /\ ArchiveInv'
  BY <1>1 DEF MemoryInv, CheckedInv, CommittedIsChecked, Others, TurnInv, KeepInv, ArchiveInv, Alone, Whole
<1>4. LeavesInv' /\ LinksInv'
  BY <1>1 DEF MemoryInv, LeavesInv, LinksInv, LinksFollow, Staging, Moved
<1>5. GivenInv'
  BY <1>1 DEF MemoryInv, GivenInv, Structured, Staging
<1> QED BY <1>2, <1>3, <1>4, <1>5 DEF MemoryInv

LEMMA PromptEndsStep == ASSUME MemoryInv, NEW callsLeft \in BOOLEAN, PromptEnds(callsLeft) PROVE MemoryInv'
<1>1. /\ doing \in {"curating", "correcting"} /\ doing' \in {"correcting", "judging"}
      /\ UNCHANGED <<tree, writer, todo, stage, rewritten, cutOff, late, before, merged, moves, brief, handled, based, base, curatedAt,
                     committed, by, given, heard, count, touched, owners, unmended>>
  BY DEF PromptEnds, turnVars, stageVars, briefVars, recordVars, commitVars
<1>2. MemoryTypes'
  BY <1>1 DEF MemoryInv, MemoryTypes, TreeTypes, WorkTypes, RecordTypes, Staging
<1>3. CheckedInv' /\ ArchiveInv'
  BY <1>1 DEF MemoryInv, CheckedInv, CommittedIsChecked, Others, TurnInv, KeepInv, ArchiveInv, Alone, Whole
<1>4. LeavesInv' /\ LinksInv'
  BY <1>1 DEF MemoryInv, LeavesInv, LinksInv, LinksFollow, Staging, Moved
<1>5. GivenInv'
  BY <1>1 DEF MemoryInv, GivenInv, Structured, Staging
<1> QED BY <1>2, <1>3, <1>4, <1>5 DEF MemoryInv

\* A stage that ends with nothing kept: the tree is the last commit's.
LEMMA NothingKept ==
  ASSUME MemoryInv, doing \in {"curating", "correcting", "judging"}, NEW ok \in BOOLEAN, StageEnds(ok),
         tree' = committed, cutOff' = FALSE, handled' \subseteq Paths,
         count' \in [turns : 0..MaxTurns, writes : 0..MaxWrites, upsets : 0..MaxUpsets],
         UNCHANGED <<writer, todo, late, before, merged, moves, brief, based, base, curatedAt, committed, by, given, heard, touched, owners, unmended>>
  PROVE  MemoryInv'
<1>1. WorkTypes /\ stage < 5 /\ doing \in Staging
  BY DEF MemoryInv, MemoryTypes, WorkTypes, Staging
<1>2. doing' = "curator" /\ stage' \in 1..5 /\ rewritten' \in BOOLEAN
  BY <1>1, StageFollows
<1>3. MemoryTypes'
  BY <1>2 DEF MemoryInv, MemoryTypes, TreeTypes, WorkTypes, RecordTypes, Staging
<1>4. CheckedInv' /\ ArchiveInv'
  BY <1>2 DEF MemoryInv, CheckedInv, CommittedIsChecked, Others, TurnInv, KeepInv, ArchiveInv, Alone, Whole
<1>5. LeavesInv' /\ LinksInv'
  BY <1>1, <1>2 DEF MemoryInv, LeavesInv, LinksInv, LinksFollow, Staging, Moved, Differ
<1>6. GivenInv'
  <2>1. Structured' => Structured
    BY <1>1, StructuredOn
  <2> QED BY <2>1 DEF MemoryInv, GivenInv
<1> QED BY <1>3, <1>4, <1>5, <1>6 DEF MemoryInv

LEMMA StageCutOffStep == ASSUME MemoryInv, StageCutOff PROVE MemoryInv'
<1>1. /\ doing \in {"curating", "correcting"}
      /\ count.upsets < MaxUpsets /\ Counted("upsets") /\ StageEnds(FALSE) /\ tree' = committed /\ cutOff' = FALSE
      /\ UNCHANGED <<writer, todo, late, before, merged, moves, brief, handled, based, base, curatedAt,
                     committed, by, given, heard, touched, owners, unmended>>
  BY DEF StageCutOff, turnVars, briefVars, recordVars, commitVars
<1>2. count' \in [turns : 0..MaxTurns, writes : 0..MaxWrites, upsets : 0..MaxUpsets] /\ handled' \subseteq Paths
  BY <1>1, CountedOnce DEF MemoryInv, MemoryTypes, WorkTypes
<1> QED BY <1>1, <1>2, NothingKept

LEMMA JudgesStageStep == ASSUME MemoryInv, JudgesStage PROVE MemoryInv'
<1>1. /\ doing = "judging"
      /\ UNCHANGED <<writer, todo, late, before, merged, moves, brief, based, base, curatedAt,
                     committed, by, given, heard, count, touched, owners, unmended>>
  BY DEF JudgesStage, turnVars, recordVars, commitVars
<1>2. CASE tree' = committed /\ cutOff' = FALSE /\ StageEnds(FALSE) /\ UNCHANGED handled
  <2>1. count' \in [turns : 0..MaxTurns, writes : 0..MaxWrites, upsets : 0..MaxUpsets] /\ handled' \subseteq Paths
    BY <1>1, <1>2 DEF MemoryInv, MemoryTypes, WorkTypes, RecordTypes
  <2> QED BY <1>1, <1>2, <2>1, NothingKept
<1>3. CASE tree = committed /\ cutOff' = FALSE /\ StageEnds(TRUE) /\ handled' = handled \cup brief /\ UNCHANGED tree
  <2>1. count' \in [turns : 0..MaxTurns, writes : 0..MaxWrites, upsets : 0..MaxUpsets] /\ handled' \subseteq Paths /\ tree' = committed
    BY <1>1, <1>3 DEF MemoryInv, MemoryTypes, WorkTypes, RecordTypes
  <2> QED BY <1>1, <1>3, <2>1, NothingKept
<1>4. CASE Rejected(tree) = {} /\ doing' = "keeping" /\ UNCHANGED <<tree, stage, rewritten, cutOff, handled>>
  <2>1. MemoryTypes'
    BY <1>1, <1>4 DEF MemoryInv, MemoryTypes, TreeTypes, WorkTypes, RecordTypes, Staging
  <2>2. CheckedInv'
    <3>1. ASSUME NEW p \in Paths, tree[p] # committed[p] PROVE Sound(p, tree[p], "curator")
      <4>1. ~Refuses(p, tree[p] = NoFile, "curator", tree)
        BY <1>4, <3>1 DEF Rejected, Differ
      <4> QED BY <4>1, AllowedIsSound
    <3> QED BY <1>1, <1>4, <3>1 DEF MemoryInv, CheckedInv, CommittedIsChecked, Others, TurnInv, KeepInv
  <2>3. ArchiveInv'
    <3>1. Rejected(tree)' = Rejected(tree)
      BY <1>1, <1>4 DEF Rejected, Differ, ArchiveAllows, Compacts, Group, Held, StageRefuses, StageName, Refuses, ContentFails
    <3> QED BY <1>1, <1>4, <3>1 DEF MemoryInv, ArchiveInv, Alone, Whole
  <2>4. LeavesInv' /\ LinksInv'
    BY <1>1, <1>4 DEF MemoryInv, LeavesInv, LinksInv, LinksFollow, Staging, Moved, Differ
  <2>5. GivenInv'
    BY <1>1, <1>4 DEF MemoryInv, GivenInv, Structured, Staging
  <2> QED BY <2>1, <2>2, <2>3, <2>4, <2>5 DEF MemoryInv
<1> QED BY <1>2, <1>3, <1>4 DEF JudgesStage, stageVars

-----------------------------------------------------------------------------
(* A stage that is kept, and the paths it moved.                            *)

\* What a stage may do to the archives keeps them whole.
LEMMA StageKeepsWhole ==
  ASSUME TreeTypes, Whole(committed), before = committed, Rejected(tree) = {}
  PROVE  Whole(tree)
<1>1. \A p \in Paths : tree[p] # committed[p] /\ Kind[p] \in Archived => ArchiveAllows(p, tree)
  BY DEF Rejected, Differ
<1>2. ASSUME NEW p \in Paths, Kind[p] = "append", FirstTree[p] # NoFile
      PROVE  tree[p] # NoFile /\ Len(tree[p]) >= Len(FirstTree[p])
  <2>1. /\ committed[p] # NoFile /\ Len(committed[p]) >= Len(FirstTree[p])
        /\ committed[p] \in Seq(Words) /\ FirstTree[p] \in Seq(Words)
    BY <1>2, ATextIsWords, MemoryAssumption DEF Whole, TreeTypes
  <2>2. CASE tree[p] # committed[p]
    <3>1. tree[p] # NoFile /\ IsPrefix(committed[p], tree[p])
      BY <1>1, <1>2, <2>1, <2>2 DEF ArchiveAllows, Archived, Group
    <3>2. tree[p] \in Seq(Words)
      BY <3>1, ATextIsWords DEF TreeTypes
    <3>3. Len(committed[p]) <= Len(tree[p]) /\ Len(committed[p]) \in Nat /\ Len(tree[p]) \in Nat /\ Len(FirstTree[p]) \in Nat
      BY <2>1, <3>1, <3>2 DEF IsPrefix
    <3> QED BY <2>1, <3>1, <3>3
  <2> QED BY <2>1, <2>2
<1>3. ASSUME NEW q \in Paths, Kind[q] = "group", FirstTree[q] # NoFile, tree[q] = NoFile
      PROVE  /\ \A p \in Paths : Kind[p] = "group" => tree[p] = NoFile
             /\ \A p \in Paths : Kind[p] = "into" => tree[p] # NoFile
  <2>1. CASE Compacts(tree)
    <3>1. ASSUME NEW p \in Paths, Kind[p] = "group" PROVE tree[p] = NoFile
      <4>1. CASE p \in Group
        BY <2>1, <4>1 DEF Compacts
      <4>2. CASE p \notin Group
        <5>1. committed[p] = NoFile
          BY <3>1, <4>2 DEF Group, Held
        <5>2. ~ArchiveAllows(p, tree)
          BY <3>1, <4>2 DEF ArchiveAllows
        <5> QED BY <1>1, <3>1, <5>1, <5>2 DEF Archived
      <4> QED BY <4>1, <4>2
    <3> QED BY <2>1, <3>1 DEF Compacts
  <2>2. CASE ~Compacts(tree)
    <3>1. \A p \in Paths : Kind[p] \in {"group", "into"} => tree[p] = committed[p]
      BY <1>1, <2>2 DEF ArchiveAllows, Archived
    <3> QED BY <1>3, <3>1 DEF Whole
  <2> QED BY <2>1, <2>2
<1> QED BY <1>2, <1>3 DEF Whole

LEMMA CommitsStageStep == ASSUME MemoryInv, CommitsStage PROVE MemoryInv'
<1>1. /\ doing = "keeping" /\ doing' = "mending" /\ Commits("curator", tree)
      /\ handled' = handled \cup brief \cup (IF Rewrites(StageName) THEN Differ(tree, committed) ELSE {})
      /\ UNCHANGED <<tree, writer, todo, stage, rewritten, cutOff, late, before, merged, moves, brief, based, base, curatedAt,
                     count, touched, owners, unmended>>
  BY DEF CommitsStage, turnVars, stageVars, recordVars
<1>2. /\ committed' = tree /\ given' = given
      /\ committed' \in [Paths -> Text] /\ by' \in [Paths -> Whos] /\ given' \in [Paths -> Text] /\ heard' \in [Paths -> Text]
      /\ \A p \in Paths : by'[p] = IF tree[p] # committed[p] THEN "curator" ELSE by[p]
      /\ \A p \in Paths : heard'[p] = IF heard[p] = committed[p] THEN tree[p] ELSE heard[p]
  <2>1. tree \in [Paths -> Text] /\ "curator" \in Whos
    BY DEF MemoryInv, MemoryTypes, TreeTypes, Whos
  <2> QED BY <1>1, <2>1, CommitMakes DEF MemoryInv, MemoryTypes
<1>3. MemoryTypes'
  <2>1. handled' \subseteq Paths
    BY <1>1 DEF MemoryInv, MemoryTypes, WorkTypes, Differ
  <2> QED BY <1>1, <1>2, <2>1 DEF MemoryInv, MemoryTypes, TreeTypes, WorkTypes, RecordTypes, Staging
<1>4. CheckedInv'
  <2>1. ASSUME NEW p \in Paths \ Others'
        PROVE  /\ committed'[p] # NoFile => Passes(committed'[p])
               /\ by'[p] = "day" => Kind[p] \notin NightOnly \cup {"index"} \cup Archived
               /\ by'[p] = "night" => Kind[p] \notin {"index"} \cup Archived
               /\ by'[p] = "curator" => Kind[p] \notin HerFiles \cup CuratorKeepsOff \cup {"diary"}
               /\ Kind[p] \in Fixed => committed'[p] # NoFile
    <3>1. p \notin touched /\ by'[p] # "owner"
      BY <1>1 DEF Others
    <3>2. CASE tree[p] # committed[p]
      BY <1>1, <1>2, <3>1, <3>2 DEF MemoryInv, CheckedInv, KeepInv, Sound
    <3>3. CASE tree[p] = committed[p]
      BY <1>2, <3>1, <3>3 DEF MemoryInv, CheckedInv, CommittedIsChecked, Others
    <3> QED BY <3>2, <3>3
  <2>2. CommittedIsChecked'
    BY <2>1 DEF CommittedIsChecked
  <2> QED BY <1>1, <2>2 DEF CheckedInv, TurnInv, KeepInv
<1>5. ArchiveInv'
  <2>1. ASSUME Alone PROVE Whole(tree)
    BY <1>1, <2>1, StageKeepsWhole DEF MemoryInv, MemoryTypes, ArchiveInv
  <2> QED BY <1>1, <1>2, <2>1 DEF ArchiveInv, Alone, Whole
<1>6. LeavesInv' /\ LinksInv'
  BY <1>1, <1>2 DEF MemoryInv, LeavesInv, LinksInv, LinksFollow, Staging, Moved, Differ
<1>7. GivenInv'
  BY <1>1, <1>2 DEF MemoryInv, GivenInv, Structured, Staging
<1> QED BY <1>3, <1>4, <1>5, <1>6, <1>7 DEF MemoryInv

\* Where a page went there is a page, which went nowhere itself.
LEMMA WhereItWent ==
  ASSUME TreeTypes, WorkTypes, NEW p \in Paths
  PROVE  /\ WentTo(p) \in Paths \cup {NoFile}
         /\ WentTo(p) # NoFile => committed[WentTo(p)] # NoFile /\ committed[p] = NoFile
<1>1. CASE TakesRow(p)
  <2>1. WentTo(p) = merged[p]
    BY <1>1 DEF WentTo
  <2> QED BY <1>1, <2>1 DEF TakesRow, Taken, WorkTypes
<1>2. CASE ~TakesRow(p) /\ \E q \in Paths : Renamed(p, q)
  <2>1. WentTo(p) \in Paths /\ Renamed(p, WentTo(p))
    <3>1. WentTo(p) = CHOOSE q \in Paths : Renamed(p, q)
      BY <1>2 DEF WentTo
    <3> HIDE DEF WentTo
    <3> QED BY <1>2, <3>1
  <2> QED BY <2>1 DEF Renamed, Taken, Made
<1>3. CASE ~TakesRow(p) /\ ~\E q \in Paths : Renamed(p, q)
  <2>1. WentTo(p) = NoFile
    BY <1>3 DEF WentTo
  <2> QED BY <2>1
<1> QED BY <1>1, <1>2, <1>3

\* What links to a page that went somewhere links there.
MendedText(content) == [i \in DOMAIN content |-> IF content[i] \in Paths /\ moves'[content[i]] # NoFile THEN moves'[content[i]] ELSE content[i]]

LEMMA MendedLinks ==
  ASSUME TreeTypes, WorkTypes, moves' = [p \in Paths |-> WentTo(p)], NEW content \in Seq(Words)
  PROVE  /\ MendedText(content) \in Seq(Words) /\ Len(MendedText(content)) = Len(content)
         /\ ToSet(MendedText(content)) \cap Moved' = {}
         /\ Moved' = {} => MendedText(content) = content
<1>1. \A p \in Paths : moves'[p] \in Paths \cup {NoFile} /\ (moves'[p] # NoFile => committed[moves'[p]] # NoFile /\ committed[p] = NoFile)
  BY WhereItWent
<1>2. ASSUME NEW i \in DOMAIN content
      PROVE  /\ MendedText(content)[i] \in Words
             /\ MendedText(content)[i] \notin Moved'
             /\ Moved' = {} => MendedText(content)[i] = content[i]
  <2>1. content[i] \in Words
    OBVIOUS
  <2>2. MendedText(content)[i] = IF content[i] \in Paths /\ moves'[content[i]] # NoFile THEN moves'[content[i]] ELSE content[i]
    BY DEF MendedText
  <2>3. CASE content[i] \in Paths /\ moves'[content[i]] # NoFile
    <3>1. MendedText(content)[i] \in Paths /\ committed[MendedText(content)[i]] # NoFile
      BY <1>1, <2>2, <2>3
    <3>2. moves'[MendedText(content)[i]] = NoFile
      BY <1>1, <3>1
    <3>3. Moved' # {}
      BY <2>3 DEF Moved
    <3> QED BY <3>1, <3>2, <3>3, MemoryAssumption DEF Moved
  <2>4. CASE ~(content[i] \in Paths /\ moves'[content[i]] # NoFile)
    BY <2>1, <2>2, <2>4 DEF Moved
  <2> QED BY <2>3, <2>4
<1>3. DOMAIN content = 1..Len(content) /\ Len(content) \in Nat
  OBVIOUS
<1>4. MendedText(content) \in [1..Len(content) -> Words]
  BY <1>2, <1>3 DEF MendedText
<1>5. MendedText(content) \in Seq(Words) /\ Len(MendedText(content)) = Len(content)
  BY <1>3, <1>4
<1>6. ToSet(MendedText(content)) \cap Moved' = {}
  <2>1. DOMAIN MendedText(content) = DOMAIN content
    BY DEF MendedText
  <2> HIDE DEF MendedText
  <2> QED BY <1>2, <2>1 DEF ToSet
<1>7. Moved' = {} => MendedText(content) = content
  <2>1. MendedText(content) = [i \in DOMAIN content |-> MendedText(content)[i]] /\ content = [i \in DOMAIN content |-> content[i]]
    BY DEF MendedText
  <2> QED BY <1>2, <2>1
<1> QED BY <1>5, <1>6, <1>7

LEMMA MendsPathsStep == ASSUME MemoryInv, MendsPaths PROVE MemoryInv'
<1>1. /\ doing = "mending" /\ doing' = "mended" /\ moves' = [p \in Paths |-> WentTo(p)]
      /\ UNCHANGED <<writer, todo, stage, rewritten, cutOff, late, before, merged, brief, handled, based, base, curatedAt,
                     committed, by, given, heard, count, touched, owners, unmended>>
  BY DEF MendsPaths, turnVars, stageVars, recordVars, commitVars
<1>2. tree' = [p \in Paths |-> IF committed[p] # NoFile /\ tree[p] # NoFile /\ Kind[p] # "script" THEN MendedText(tree[p]) ELSE tree[p]]
  BY DEF MendsPaths, MendedText
<1>3. ASSUME NEW p \in Paths
      PROVE  /\ tree'[p] \in Text /\ (tree'[p] = NoFile <=> tree[p] = NoFile)
             /\ tree[p] # NoFile => Len(tree'[p]) = Len(tree[p])
             /\ Moved' = {} => tree'[p] = tree[p]
             /\ committed[p] # NoFile /\ tree[p] # NoFile => Kind[p] = "script" \/ ToSet(tree'[p]) \cap Moved' = {}
  <2>1. CASE committed[p] # NoFile /\ tree[p] # NoFile /\ Kind[p] # "script"
    <3>1. tree'[p] = MendedText(tree[p]) /\ tree[p] \in Seq(Words)
      BY <1>2, <2>1, ATextIsWords DEF MemoryInv, MemoryTypes, TreeTypes
    <3>2. /\ MendedText(tree[p]) \in Seq(Words) /\ Len(MendedText(tree[p])) = Len(tree[p])
          /\ ToSet(MendedText(tree[p])) \cap Moved' = {}
          /\ Moved' = {} => MendedText(tree[p]) = tree[p]
      BY <1>1, <3>1, MendedLinks DEF MemoryInv, MemoryTypes
    <3> QED BY <2>1, <3>1, <3>2, ATextIsWords DEF Text
  <2>2. CASE ~(committed[p] # NoFile /\ tree[p] # NoFile /\ Kind[p] # "script")
    <3>1. tree'[p] = tree[p] /\ tree[p] \in Text
      BY <1>2, <2>2 DEF MemoryInv, MemoryTypes, TreeTypes
    <3> QED BY <2>2, <3>1
  <2> QED BY <2>1, <2>2
<1>4. MemoryTypes'
  <2>1. tree' \in [Paths -> Text]
    BY <1>2, <1>3
  <2>2. moves' \in [Paths -> Paths \cup {NoFile}]
    BY <1>1, WhereItWent DEF MemoryInv, MemoryTypes
  <2>3. TreeTypes' /\ RecordTypes'
    BY <1>1, <2>1 DEF MemoryInv, MemoryTypes, TreeTypes, RecordTypes
  <2>4. WorkTypes'
    BY <1>1, <2>2 DEF MemoryInv, MemoryTypes, WorkTypes, Staging
  <2> QED BY <2>3, <2>4 DEF MemoryTypes
<1>5. CheckedInv'
  BY <1>1 DEF MemoryInv, CheckedInv, CommittedIsChecked, Others, TurnInv, KeepInv
<1>6. ArchiveInv'
  <2>1. ASSUME Alone PROVE SameLengths(tree', committed)
    <3>1. \A p \in Paths : tree[p] = committed[p]
      BY <1>1, <2>1 DEF MemoryInv, LeavesInv, Differ, Alone
    <3> QED BY <1>3, <3>1 DEF SameLengths
  <2> QED BY <1>1, <2>1 DEF MemoryInv, ArchiveInv, Alone, Whole, SameLengths
<1>7. LeavesInv'
  BY <1>1, <1>3 DEF MemoryInv, LeavesInv, Staging, Differ
<1>8. LinksInv'
  <2>1. ASSUME NEW p \in Paths \ (touched \cup owners), tree'[p] # NoFile
        PROVE  Kind[p] = "script" \/ ToSet(tree'[p]) \cap Moved' = {}
    <3>1. tree[p] # NoFile /\ committed[p] = tree[p]
      BY <1>1, <1>3, <2>1 DEF MemoryInv, LeavesInv, Differ
    <3> QED BY <1>3, <3>1
  <2> QED BY <1>1, <2>1 DEF MemoryInv, LinksInv, LinksFollow, Staging
<1>9. GivenInv'
  BY <1>1 DEF MemoryInv, GivenInv, Structured, Staging
<1> QED BY <1>4, <1>5, <1>6, <1>7, <1>8, <1>9 DEF MemoryInv

\* The end of a stage that was kept, whatever becomes of its links.
LEMMA CommitsMendedStep == ASSUME MemoryInv, NEW grown \in SUBSET Differ(tree, committed), CommitsMended(grown) PROVE MemoryInv'
<1> DEFINE kept == [p \in Paths |-> IF tree[p] = NoFile \/ ContentFails(p, tree) \/ p \in grown THEN committed[p] ELSE tree[p]]
<1>1. /\ doing = "mended" /\ cutOff' = FALSE /\ StageEnds(TRUE)
      /\ UNCHANGED <<writer, todo, late, before, merged, moves, brief, handled, based, base, curatedAt, count, touched, owners>>
  BY DEF CommitsMended, turnVars, briefVars, recordVars
<1>2. \/ Moved = {} /\ UNCHANGED <<tree, committed, by, given, heard, unmended>>
      \/ Moved # {} /\ tree' = kept /\ Commits("server", kept) /\ unmended' = Differ(kept, tree)
  BY DEF CommitsMended, commitVars
<1>3. WorkTypes /\ stage < 5 /\ doing \in Staging
  BY <1>1 DEF MemoryInv, MemoryTypes, WorkTypes, Staging
<1>4. doing' = "curator" /\ stage' \in 1..5 /\ rewritten' \in BOOLEAN /\ (Structured' => Structured)
  BY <1>1, <1>3, StageFollows, StructuredOn
<1>5. CASE Moved = {} /\ UNCHANGED <<tree, committed, by, given, heard, unmended>>
  <2>1. MemoryTypes'
    BY <1>1, <1>4, <1>5 DEF MemoryInv, MemoryTypes, TreeTypes, WorkTypes, RecordTypes, Staging
  <2>2. CheckedInv' /\ ArchiveInv'
    BY <1>1, <1>4, <1>5 DEF MemoryInv, CheckedInv, CommittedIsChecked, Others, TurnInv, KeepInv, ArchiveInv, Alone, Whole
  <2>3. LeavesInv' /\ LinksInv'
    BY <1>1, <1>4, <1>5 DEF MemoryInv, LeavesInv, LinksInv, LinksFollow, Staging, Moved, Differ
  <2>4. GivenInv'
    BY <1>1, <1>4, <1>5 DEF MemoryInv, GivenInv
  <2> QED BY <2>1, <2>2, <2>3, <2>4 DEF MemoryInv
<1>6. CASE Moved # {} /\ tree' = kept /\ Commits("server", kept) /\ unmended' = Differ(kept, tree)
  <2>1. kept \in [Paths -> Text] /\ "server" \in Whos
    BY DEF MemoryInv, MemoryTypes, TreeTypes, Whos
  <2>2. \A p \in Paths : kept[p] = IF tree[p] = NoFile \/ ContentFails(p, tree) \/ p \in grown THEN committed[p] ELSE tree[p]
    OBVIOUS
  <2> HIDE DEF kept
  <2>3. /\ committed' = kept /\ given' = given
        /\ committed' \in [Paths -> Text] /\ by' \in [Paths -> Whos] /\ given' \in [Paths -> Text] /\ heard' \in [Paths -> Text]
        /\ \A p \in Paths : by'[p] = IF kept[p] # committed[p] THEN "server" ELSE by[p]
        /\ \A p \in Paths : heard'[p] = IF heard[p] = committed[p] THEN kept[p] ELSE heard[p]
    BY <1>6, <2>1, CommitMakes DEF MemoryInv, MemoryTypes
  <2>4. MemoryTypes'
    <3>1. unmended' \subseteq Paths /\ tree' \in [Paths -> Text]
      BY <1>6, <2>1 DEF Differ
    <3> QED BY <1>1, <1>4, <2>3, <3>1 DEF MemoryInv, MemoryTypes, TreeTypes, WorkTypes, RecordTypes, Staging
  <2>5. CheckedInv'
    <3>1. ASSUME NEW p \in Paths \ Others'
          PROVE  /\ committed'[p] # NoFile => Passes(committed'[p])
                 /\ by'[p] = "day" => Kind[p] \notin NightOnly \cup {"index"} \cup Archived
                 /\ by'[p] = "night" => Kind[p] \notin {"index"} \cup Archived
                 /\ by'[p] = "curator" => Kind[p] \notin HerFiles \cup CuratorKeepsOff \cup {"diary"}
                 /\ Kind[p] \in Fixed => committed'[p] # NoFile
      <4>1. p \notin touched /\ by'[p] # "owner"
        BY <1>1, <3>1 DEF Others
      <4>2. CASE kept[p] # committed[p]
        <5>1. kept[p] = tree[p] /\ tree[p] # NoFile /\ ~ContentFails(p, tree)
          BY <2>2, <4>2
        <5> QED BY <2>3, <4>2, <5>1 DEF ContentFails
      <4>3. CASE kept[p] = committed[p]
        BY <2>3, <4>1, <4>3 DEF MemoryInv, CheckedInv, CommittedIsChecked, Others
      <4> QED BY <4>2, <4>3
    <3>2. CommittedIsChecked'
      BY <3>1 DEF CommittedIsChecked
    <3> QED BY <1>4, <3>2 DEF CheckedInv, TurnInv, KeepInv
  <2>6. ArchiveInv'
    <3>1. ASSUME Alone PROVE Whole(kept)
      <4>1. SameLengths(tree, committed) /\ Whole(committed)
        BY <1>1, <3>1 DEF MemoryInv, ArchiveInv
      <4>2. \A p \in Paths : /\ kept[p] = NoFile <=> committed[p] = NoFile
                             /\ kept[p] # NoFile => Len(kept[p]) = Len(committed[p])
        BY <2>2, <4>1 DEF SameLengths
      <4> QED BY <4>1, <4>2 DEF Whole
    <3> QED BY <1>1, <1>4, <2>3, <3>1 DEF ArchiveInv, Alone, Whole
  <2>7. LeavesInv' /\ LinksInv'
    <3>1. ASSUME NEW p \in Held(kept) \ (Differ(kept, tree) \cup touched \cup owners)
          PROVE  Kind[p] = "script" \/ ToSet(kept[p]) \cap Moved = {}
      <4>1. p \in Paths /\ kept[p] = tree[p] /\ tree[p] # NoFile
        BY <3>1 DEF Held, Differ
      <4> QED BY <1>1, <3>1, <4>1 DEF MemoryInv, LinksInv
    <3>2. LinksFollow'
      BY <1>1, <1>6, <2>3, <3>1 DEF LinksFollow, Held, Moved
    <3> QED BY <1>1, <1>4, <1>6, <2>3, <3>2 DEF LeavesInv, LinksInv, Staging, Differ
  <2>8. GivenInv'
    BY <1>1, <1>4, <2>3 DEF MemoryInv, GivenInv
  <2> QED BY <2>4, <2>5, <2>6, <2>7, <2>8 DEF MemoryInv
<1> QED BY <1>2, <1>5, <1>6

LEMMA MendingFailsStep == ASSUME MemoryInv, MendingFails PROVE MemoryInv'
<1>1. /\ doing \in {"mending", "mended"} /\ cutOff' = FALSE /\ StageEnds(TRUE) /\ tree' = committed /\ unmended' = Paths
      /\ count.upsets < MaxUpsets /\ Counted("upsets")
      /\ UNCHANGED <<writer, todo, late, before, merged, moves, brief, handled, based, base, curatedAt, committed, by, given, heard,
                     touched, owners>>
  BY DEF MendingFails, turnVars, briefVars, recordVars, commitVars
<1>2. WorkTypes /\ stage < 5 /\ doing \in Staging
  BY <1>1 DEF MemoryInv, MemoryTypes, WorkTypes, Staging
<1>3. doing' = "curator" /\ stage' \in 1..5 /\ rewritten' \in BOOLEAN /\ (Structured' => Structured)
  BY <1>1, <1>2, StageFollows, StructuredOn
<1>4. count' \in [turns : 0..MaxTurns, writes : 0..MaxWrites, upsets : 0..MaxUpsets]
  BY <1>1, CountedOnce DEF MemoryInv, MemoryTypes
<1>5. MemoryTypes'
  BY <1>1, <1>3, <1>4 DEF MemoryInv, MemoryTypes, TreeTypes, WorkTypes, RecordTypes, Staging
<1>6. CheckedInv' /\ ArchiveInv'
  BY <1>1, <1>3 DEF MemoryInv, CheckedInv, CommittedIsChecked, Others, TurnInv, KeepInv, ArchiveInv, Alone, Whole
<1>7. LeavesInv' /\ LinksInv'
  BY <1>1, <1>3 DEF MemoryInv, LeavesInv, LinksInv, LinksFollow, Staging, Differ, Held
<1>8. GivenInv'
  BY <1>1, <1>3 DEF MemoryInv, GivenInv
<1> QED BY <1>5, <1>6, <1>7, <1>8 DEF MemoryInv

-----------------------------------------------------------------------------
(* The end of a night, others, and stops.                                   *)

\* The work is given up where nothing is under way, or stops.
LEMMA WorkStops == ASSUME MemoryInv, NightStopped \/ MemoryStops PROVE MemoryInv'
<1>1. /\ \/ doing = "curator" /\ doing' = "nothing"
         \/ doing' = "down"
      /\ count.upsets < MaxUpsets /\ Counted("upsets")
      /\ UNCHANGED <<tree, writer, todo, stage, rewritten, cutOff, late, before, merged, moves, brief, handled, based, base, curatedAt,
                     committed, by, given, heard, touched, owners, unmended>>
  BY DEF NightStopped, MemoryStops, turnVars, stageVars, briefVars, recordVars, commitVars
<1>2. count' \in [turns : 0..MaxTurns, writes : 0..MaxWrites, upsets : 0..MaxUpsets]
  BY <1>1, CountedOnce DEF MemoryInv, MemoryTypes
<1>3. MemoryTypes'
  BY <1>1, <1>2 DEF MemoryInv, MemoryTypes, TreeTypes, WorkTypes, RecordTypes, Staging
<1>4. CheckedInv' /\ ArchiveInv'
  BY <1>1 DEF MemoryInv, CheckedInv, CommittedIsChecked, Others, TurnInv, KeepInv, ArchiveInv, Alone, Whole
<1>5. LeavesInv' /\ LinksInv'
  BY <1>1 DEF MemoryInv, LeavesInv, LinksInv, LinksFollow, Staging
<1>6. GivenInv'
  BY <1>1 DEF MemoryInv, GivenInv, Structured, Staging
<1> QED BY <1>3, <1>4, <1>5, <1>6 DEF MemoryInv

LEMMA NightEndsStep == ASSUME MemoryInv, NightEnds PROVE MemoryInv'
<1>1. /\ doing = "curator" /\ stage > 4 /\ doing' = "nothing"
      /\ UNCHANGED <<tree, writer, todo, stage, rewritten, cutOff, late, before, merged, moves, brief, handled,
                     committed, by, heard, count, touched, owners, unmended>>
      /\ \/ rewritten /\ Succeeds
         \/ UNCHANGED <<based, base, curatedAt, given>>
  BY FourStages DEF NightEnds, turnVars, stageVars, briefVars, recordVars
<1>2. given' \in [Paths -> Text] /\ based' \in BOOLEAN /\ curatedAt' \in [Paths -> 0..MaxTurns]
  <2>1. CASE Succeeds
    <3>1. \A p \in Paths : curatedAt'[p] \in {0, count.turns, curatedAt[p]}
      BY <2>1 DEF Succeeds
    <3>2. curatedAt' \in [Paths -> 0..MaxTurns]
      BY <2>1, <3>1, Numbers DEF Succeeds, MemoryInv, MemoryTypes, RecordTypes
    <3> QED BY <2>1, <3>2 DEF Succeeds, MemoryInv, MemoryTypes, TreeTypes
  <2>2. CASE UNCHANGED <<based, base, curatedAt, given>>
    BY <2>2 DEF MemoryInv, MemoryTypes, TreeTypes, RecordTypes
  <2> QED BY <1>1, <2>1, <2>2
<1>3. MemoryTypes'
  BY <1>1, <1>2 DEF MemoryInv, MemoryTypes, TreeTypes, WorkTypes, RecordTypes, Staging
<1>4. CheckedInv' /\ ArchiveInv'
  BY <1>1 DEF MemoryInv, CheckedInv, CommittedIsChecked, Others, TurnInv, KeepInv, ArchiveInv, Alone, Whole
<1>5. LeavesInv' /\ LinksInv'
  BY <1>1 DEF MemoryInv, LeavesInv, LinksInv, LinksFollow, Staging
<1>6. GivenInv'
  <2>1. ~Structured'
    BY <1>1 DEF Structured, Staging
  <2>2. CASE rewritten /\ Succeeds
    <3>1. based => \A p \in Paths \ owners : Rewritable(p) => heard[p] = committed[p]
      <4>1. Structured
        BY <1>1, <2>2 DEF Structured, MemoryInv, MemoryTypes, WorkTypes
      <4> QED BY <4>1 DEF MemoryInv, GivenInv
    <3> QED BY <1>1, <2>1, <2>2, <3>1 DEF Succeeds, GivenInv
  <2>3. CASE UNCHANGED <<based, base, curatedAt, given>>
    BY <1>1, <2>1, <2>3 DEF MemoryInv, GivenInv
  <2> QED BY <1>1, <2>2, <2>3
<1> QED BY <1>3, <1>4, <1>5, <1>6 DEF MemoryInv

LEMMA BackgroundStep == ASSUME MemoryInv, NEW p \in Paths, NEW content \in Text, BackgroundWrites(p, content) PROVE MemoryInv'
<1>1. /\ doing # "down" /\ count.upsets < MaxUpsets /\ Counted("upsets")
      /\ tree' = [tree EXCEPT ![p] = content] /\ touched' = touched \cup {p}
      /\ UNCHANGED <<doing, writer, todo, stage, rewritten, cutOff, late, before, merged, moves, brief, handled, based, base, curatedAt,
                     committed, by, given, heard, owners, unmended>>
  BY DEF BackgroundWrites, turnVars, stageVars, briefVars, recordVars, commitVars
<1>2. count' \in [turns : 0..MaxTurns, writes : 0..MaxWrites, upsets : 0..MaxUpsets]
  BY <1>1, CountedOnce DEF MemoryInv, MemoryTypes
<1>3. tree' \in [Paths -> Text] /\ \A q \in Paths \ {p} : tree'[q] = tree[q]
  BY <1>1, FileWritten DEF MemoryInv, MemoryTypes
<1>4. MemoryTypes'
  BY <1>1, <1>2, <1>3 DEF MemoryInv, MemoryTypes, TreeTypes, WorkTypes, RecordTypes, Staging
<1>5. CheckedInv'
  <2>1. Others \subseteq Others'
    BY <1>1 DEF Others
  <2>2. CommittedIsChecked'
    BY <1>1, <2>1 DEF MemoryInv, CheckedInv, CommittedIsChecked
  <2>3. TurnInv'
    BY <1>1, <1>3 DEF MemoryInv, CheckedInv, TurnInv
  <2>4. KeepInv'
    BY <1>1, <1>3 DEF MemoryInv, CheckedInv, KeepInv
  <2> QED BY <2>2, <2>3, <2>4 DEF CheckedInv
<1>6. ArchiveInv'
  <2>1. ~Alone'
    BY <1>1 DEF Alone
  <2> QED BY <2>1 DEF ArchiveInv
<1>7. LeavesInv'
  BY <1>1, <1>3 DEF MemoryInv, LeavesInv, Staging, Differ, Moved
<1>8. LinksInv'
  BY <1>1, <1>3 DEF MemoryInv, LinksInv, LinksFollow, Staging, Moved, Held
<1>9. GivenInv'
  BY <1>1 DEF MemoryInv, GivenInv, Structured, Staging
<1> QED BY <1>4, <1>5, <1>6, <1>7, <1>8, <1>9 DEF MemoryInv

LEMMA OwnerStep == ASSUME MemoryInv, NEW p \in Paths, NEW content \in Text, OwnerCommits(p, content) PROVE MemoryInv'
<1> DEFINE new == [committed EXCEPT ![p] = content]
<1>1. /\ count.upsets < MaxUpsets /\ Counted("upsets") /\ tree[p] = committed[p] /\ tree[p] # content
      /\ tree' = [tree EXCEPT ![p] = content] /\ Commits("owner", new) /\ owners' = owners \cup {p}
      /\ UNCHANGED <<doing, writer, todo, stage, rewritten, cutOff, late, before, merged, moves, brief, handled, based, base, curatedAt,
                     touched, unmended>>
  BY DEF OwnerCommits, turnVars, stageVars, briefVars, recordVars
<1>2. count' \in [turns : 0..MaxTurns, writes : 0..MaxWrites, upsets : 0..MaxUpsets]
  BY <1>1, CountedOnce DEF MemoryInv, MemoryTypes
<1>3. tree' \in [Paths -> Text] /\ tree'[p] = content /\ \A q \in Paths \ {p} : tree'[q] = tree[q]
  BY <1>1, FileWritten DEF MemoryInv, MemoryTypes
<1>4. new \in [Paths -> Text] /\ new[p] = content /\ (\A q \in Paths \ {p} : new[q] = committed[q]) /\ "owner" \in Whos
  BY DEF MemoryInv, MemoryTypes, TreeTypes, Whos
<1> HIDE DEF new
<1>5. /\ committed' = new /\ given' = given
      /\ committed' \in [Paths -> Text] /\ by' \in [Paths -> Whos] /\ given' \in [Paths -> Text] /\ heard' \in [Paths -> Text]
      /\ \A q \in Paths : by'[q] = IF new[q] # committed[q] THEN "owner" ELSE by[q]
      /\ \A q \in Paths : heard'[q] = heard[q]
  BY <1>1, <1>4, CommitMakes DEF MemoryInv, MemoryTypes
<1>6. by'[p] = "owner" /\ \A q \in Paths \ {p} : by'[q] = by[q] /\ committed'[q] = committed[q]
  BY <1>1, <1>4, <1>5
<1>7. MemoryTypes'
  BY <1>1, <1>2, <1>3, <1>5 DEF MemoryInv, MemoryTypes, TreeTypes, WorkTypes, RecordTypes, Staging
<1>8. CheckedInv'
  <2>1. p \in Others' /\ Others \subseteq Others'
    BY <1>1, <1>6 DEF Others
  <2>2. CommittedIsChecked'
    BY <1>6, <2>1 DEF MemoryInv, CheckedInv, CommittedIsChecked
  <2>3. TurnInv'
    BY <1>1, <1>3, <1>4, <1>5, <1>6 DEF MemoryInv, CheckedInv, TurnInv
  <2>4. KeepInv'
    BY <1>1, <1>3, <1>4, <1>5, <1>6 DEF MemoryInv, CheckedInv, KeepInv
  <2> QED BY <2>2, <2>3, <2>4 DEF CheckedInv
<1>9. ArchiveInv'
  <2>1. ~Alone'
    BY <1>1 DEF Alone
  <2> QED BY <2>1 DEF ArchiveInv
<1>10. LeavesInv'
  BY <1>1, <1>3, <1>4, <1>5, <1>6 DEF MemoryInv, LeavesInv, Staging, Differ, Moved
<1>11. LinksInv'
  BY <1>1, <1>3, <1>6 DEF MemoryInv, LinksInv, LinksFollow, Staging, Moved, Held
<1>12. GivenInv'
  BY <1>1, <1>5, <1>6 DEF MemoryInv, GivenInv, Structured, Staging
<1> QED BY <1>7, <1>8, <1>9, <1>10, <1>11, <1>12 DEF MemoryInv

\* A start writes the fixed files that are missing, and nothing else.
LEMMA MemoryStartsStep == ASSUME MemoryInv, MemoryStarts PROVE MemoryInv'
<1> DEFINE With(t) == [p \in Paths |-> IF p \in Placed THEN Template ELSE t[p]]
<1>1. /\ doing = "down" /\ doing' = "nothing" /\ tree' = With(Recovered) /\ Commits("start", With(committed))
      /\ cutOff' = FALSE /\ todo' = {}
      /\ UNCHANGED <<writer, stage, rewritten, late, before, merged, moves, brief, handled, based, base, curatedAt,
                     count, touched, owners, unmended>>
  BY DEF MemoryStarts, briefVars, recordVars
<1>2. With(Recovered) \in [Paths -> Text] /\ With(committed) \in [Paths -> Text] /\ "start" \in Whos
  <2>1. Template \in Text /\ Recovered \in [Paths -> Text] /\ committed \in [Paths -> Text]
    BY MemoryAssumption DEF Text, Recovered, MemoryInv, MemoryTypes, TreeTypes
  <2> QED BY <2>1 DEF Whos
<1>3. \A p \in Paths : With(committed)[p] = IF p \in Placed THEN Template ELSE committed[p]
  OBVIOUS
<1> HIDE DEF With
<1>4. /\ committed' = With(committed) /\ given' = given
      /\ committed' \in [Paths -> Text] /\ by' \in [Paths -> Whos] /\ given' \in [Paths -> Text] /\ heard' \in [Paths -> Text]
      /\ \A p \in Paths : by'[p] = IF With(committed)[p] # committed[p] THEN "start" ELSE by[p]
      /\ \A p \in Paths : heard'[p] = heard[p]
  BY <1>1, <1>2, CommitMakes DEF MemoryInv, MemoryTypes
<1>5. \A p \in Placed : Kind[p] \in Fixed
  BY DEF Placed
<1>6. MemoryTypes'
  <2>1. TreeTypes' /\ RecordTypes'
    BY <1>1, <1>2, <1>4 DEF MemoryInv, MemoryTypes, TreeTypes, RecordTypes
  <2>2. WorkTypes'
    BY <1>1 DEF MemoryInv, MemoryTypes, WorkTypes, Staging
  <2> QED BY <2>1, <2>2 DEF MemoryTypes
<1>7. CheckedInv'
  <2>1. ASSUME NEW p \in Paths \ Others'
        PROVE  /\ committed'[p] # NoFile => Passes(committed'[p])
               /\ by'[p] = "day" => Kind[p] \notin NightOnly \cup {"index"} \cup Archived
               /\ by'[p] = "night" => Kind[p] \notin {"index"} \cup Archived
               /\ by'[p] = "curator" => Kind[p] \notin HerFiles \cup CuratorKeepsOff \cup {"diary"}
               /\ Kind[p] \in Fixed => committed'[p] # NoFile
    <3>1. p \notin touched /\ by'[p] # "owner"
      BY <1>1, <2>1 DEF Others
    <3>2. CASE committed'[p] # committed[p]
      <4>1. committed'[p] = Template /\ by'[p] = "start"
        BY <1>3, <1>4, <3>2
      <4> QED BY <4>1, MemoryAssumption
    <3>3. CASE committed'[p] = committed[p]
      BY <1>4, <3>1, <3>3 DEF MemoryInv, CheckedInv, CommittedIsChecked, Others
    <3> QED BY <3>2, <3>3
  <2>2. CommittedIsChecked'
    BY <2>1 DEF CommittedIsChecked
  <2> QED BY <1>1, <2>2 DEF CheckedInv, TurnInv, KeepInv
<1>8. ArchiveInv'
  <2>1. \A p \in Paths : Kind[p] \in {"group", "into", "append"} => committed'[p] = committed[p]
    BY <1>3, <1>4, <1>5 DEF Fixed
  <2> QED BY <1>1, <2>1 DEF MemoryInv, ArchiveInv, Alone, Whole
<1>9. LeavesInv' /\ LinksInv'
  BY <1>1 DEF MemoryInv, LeavesInv, LinksInv, LinksFollow, Staging
<1>10. GivenInv'
  BY <1>1, <1>4 DEF MemoryInv, GivenInv, Structured, Staging
<1> QED BY <1>6, <1>7, <1>8, <1>9, <1>10 DEF MemoryInv

-----------------------------------------------------------------------------
(* The theorems.                                                            *)

LEMMA MemoryInitHolds == ASSUME MemoryInit PROVE MemoryInv
<1>1. MemoryTypes
  <2>1. TreeTypes
    BY MemoryAssumption DEF MemoryInit, TreeTypes, Whos
  <2>2. WorkTypes
    <3>1. merged \in [Paths -> Paths \cup {NoFile}] /\ moves \in [Paths -> Paths \cup {NoFile}]
      BY DEF MemoryInit
    <3>2. /\ doing \in {"nothing"} /\ doing \notin Staging /\ writer \in {"day", "night"} /\ todo \subseteq Entries
          /\ stage \in 1..5 /\ brief \subseteq Paths /\ handled \subseteq Paths
      BY DEF MemoryInit, Staging
    <3>3. cutOff \in BOOLEAN /\ rewritten \in BOOLEAN /\ late \in BOOLEAN
      BY DEF MemoryInit
    <3> QED BY <3>1, <3>2, <3>3 DEF WorkTypes
  <2>3. RecordTypes
    <3>1. count \in [turns : 0..MaxTurns, writes : 0..MaxWrites, upsets : 0..MaxUpsets]
      BY Numbers DEF MemoryInit
    <3>2. based \in BOOLEAN /\ touched \subseteq Paths /\ owners \subseteq Paths /\ unmended \subseteq Paths
      BY DEF MemoryInit
    <3>3. curatedAt \in [Paths -> 0..MaxTurns]
      BY Numbers DEF MemoryInit
    <3> QED BY <3>1, <3>2, <3>3 DEF RecordTypes
  <2> QED BY <2>1, <2>2, <2>3 DEF MemoryTypes
<1>2. CheckedInv
  <2>1. \A p \in Paths : /\ FirstTree[p] # NoFile => Passes(FirstTree[p])
                         /\ Kind[p] \in Fixed => FirstTree[p] # NoFile
    BY MemoryAssumption DEF Held
  <2> QED BY <2>1 DEF MemoryInit, CheckedInv, CommittedIsChecked, TurnInv, KeepInv
<1>3. ArchiveInv
  <2>1. ASSUME NEW p \in Paths, FirstTree[p] # NoFile PROVE Len(FirstTree[p]) \in Nat
    BY <2>1, ATextIsWords, MemoryAssumption
  <2>2. Whole(FirstTree)
    BY <2>1 DEF Whole
  <2> QED BY <2>2 DEF MemoryInit, ArchiveInv
<1>4. LeavesInv /\ LinksInv
  BY DEF MemoryInit, LeavesInv, LinksInv, LinksFollow, Staging
<1>5. GivenInv
  BY DEF MemoryInit, GivenInv
<1> QED BY <1>1, <1>2, <1>3, <1>4, <1>5 DEF MemoryInv

LEMMA MemoryStutter == ASSUME MemoryInv, UNCHANGED memoryVars PROVE MemoryInv'
<1>1. UNCHANGED <<tree, doing, writer, todo, stage, rewritten, cutOff, late, before, merged, moves, brief, handled, based, base, curatedAt,
                  committed, by, given, heard, count, touched, owners, unmended>>
  BY DEF memoryVars, turnVars, stageVars, briefVars, recordVars, commitVars
<1>2. MemoryTypes'
  BY <1>1 DEF MemoryInv, MemoryTypes, TreeTypes, WorkTypes, RecordTypes
<1>3. CheckedInv'
  BY <1>1 DEF MemoryInv, CheckedInv, CommittedIsChecked, Others, TurnInv, KeepInv
<1>4. ArchiveInv'
  <2>1. Rejected(tree)' = Rejected(tree)
    BY <1>1 DEF Rejected, Differ, ArchiveAllows, Compacts, Group, Held, StageRefuses, StageName, Refuses, ContentFails
  <2> QED BY <1>1, <2>1 DEF MemoryInv, ArchiveInv, Alone, Whole, SameLengths
<1>5. LeavesInv' /\ LinksInv'
  BY <1>1 DEF MemoryInv, LeavesInv, LinksInv, LinksFollow, Staging, Moved, Differ, Held
<1>6. GivenInv'
  BY <1>1 DEF MemoryInv, GivenInv, Structured, Staging
<1> QED BY <1>2, <1>3, <1>4, <1>5, <1>6 DEF MemoryInv

LEMMA MemoryStepKeeps == ASSUME MemoryInv, [MemoryNext]_memoryVars PROVE MemoryInv'
<1>1. \A edit \in HerEdits \cup CuratorEdits \cup OthersEdits : edit.path \in Paths /\ edit.text \in Text
  BY MemoryAssumption
<1>2. \A row \in Moves : row.from \in Paths /\ row.to \in Paths
  BY MemoryAssumption
<1>3. CASE \E who \in {"day", "night"} : BeginsTurn(who)
  BY <1>3, BeginsTurnStep
<1>4. CASE \E edit \in HerEdits : SheWrites(edit.path, edit.text)
  BY <1>1, <1>4, SheWritesStep
<1>5. CASE \E edit \in CuratorEdits : CuratorWrites(edit.path, edit.text)
  BY <1>1, <1>5, CuratorWritesStep
<1>6. CASE \E edit \in OthersEdits : BackgroundWrites(edit.path, edit.text) \/ OwnerCommits(edit.path, edit.text)
  BY <1>1, <1>6, BackgroundStep, OwnerStep
<1>7. CASE TurnsCommit \/ ChecksFile \/ CommitsTurn
  BY <1>7, TurnsCommitStep, ChecksFileStep, CommitsTurnStep
<1>8. CASE StageNotBegun \/ BeginsStage \/ StageCutOff \/ JudgesStage \/ CommitsStage
  BY <1>8, StageNotBegunStep, BeginsStageStep, StageCutOffStep, JudgesStageStep, CommitsStageStep
<1>9. CASE \E row \in Moves : MapOldPath(row.from, row.to)
  BY <1>2, <1>9, MapOldPathStep
<1>10. CASE \E callsLeft \in BOOLEAN : PromptEnds(callsLeft)
  BY <1>10, PromptEndsStep
<1>11. CASE MendsPaths \/ MendingFails \/ \E grown \in SUBSET Differ(tree, committed) : CommitsMended(grown)
  BY <1>11, MendsPathsStep, MendingFailsStep, CommitsMendedStep
<1>12. CASE NightStopped \/ MemoryStops
  BY <1>12, WorkStops
<1>13. CASE NightEnds \/ MemoryStarts
  BY <1>13, NightEndsStep, MemoryStartsStep
<1>14. CASE UNCHANGED memoryVars
  BY <1>14, MemoryStutter
<1> QED BY <1>3, <1>4, <1>5, <1>6, <1>7, <1>8, <1>9, <1>10, <1>11, <1>12, <1>13, <1>14 DEF MemoryNext

\* Memory keeps the invariant: what each place of the work has made sure of.
THEOREM MemoryInvariant == MemorySpec => []MemoryInv
<1>1. MemoryInit => MemoryInv
  BY MemoryInitHolds
<1>2. MemoryInv /\ [MemoryNext]_memoryVars => MemoryInv'
  BY MemoryStepKeeps
<1> QED BY <1>1, <1>2, PTL DEF MemorySpec

\* MemorySafety: what is committed was checked, the archives are whole, a stage leaves nothing behind, the links follow
\* what it moved and every change is given to the curator, for any memory, edits, moves, turns, failures and stops.
THEOREM MemoryIsSafe == MemorySpec => []MemorySafety
<1>1. MemoryInv => MemorySafety
  <2> SUFFICES ASSUME MemoryInv PROVE MemorySafety
    OBVIOUS
  <2>1. CommittedIsChecked /\ LinksFollow
    BY DEF MemoryInv, CheckedInv, LinksInv
  <2>2. ArchiveWhole
    BY DEF MemoryInv, ArchiveInv, Alone, Whole, ArchiveWhole
  <2>3. StageLeavesNothing
    BY DEF MemoryInv, LeavesInv, StageLeavesNothing, Staging
  <2>4. EveryChangeIsGiven
    BY DEF MemoryInv, GivenInv, EveryChangeIsGiven, ChangedTopics, Held
  <2> QED BY <2>1, <2>2, <2>3, <2>4 DEF MemorySafety
<1> QED BY <1>1, MemoryInvariant, PTL

\* MemoryTypeOK: memory, the work on it and its records have their types in every state.
THEOREM MemoryKeepsTypes == MemorySpec => []MemoryTypeOK
<1>1. MemoryInv => MemoryTypeOK
  <2> SUFFICES ASSUME MemoryInv PROVE MemoryTypeOK
    OBVIOUS
  <2>1. TreeTypes /\ WorkTypes /\ RecordTypes
    BY DEF MemoryInv, MemoryTypes
  <2>2. DOMAIN tree = Paths /\ DOMAIN committed = Paths
    BY <2>1 DEF TreeTypes
  <2>3. stage \in 1..(Len(CuratorStages) + 1)
    BY <2>1, FourStages DEF WorkTypes
  <2>4. {cutOff, rewritten, late, based} \subseteq BOOLEAN
    BY <2>1 DEF WorkTypes, RecordTypes
  <2>5. brief \cup handled \cup touched \cup owners \cup unmended \subseteq Paths
    BY <2>1 DEF WorkTypes, RecordTypes
  <2>6. {merged, moves} \subseteq [Paths -> Paths \cup {NoFile}]
    BY <2>1 DEF WorkTypes
  <2>7. doing \in {"nothing", "turn", "checking", "curator", "curating", "correcting", "judging", "keeping", "mending", "mended", "down"}
    BY <2>1 DEF WorkTypes, Staging
  <2> QED BY <2>1, <2>2, <2>3, <2>4, <2>5, <2>6, <2>7 DEF MemoryTypeOK, WorkTypes, RecordTypes
<1> QED BY <1>1, MemoryInvariant, PTL
-----------------------------------------------------------------------------
(***************************************************************************)
(* Self-checks proved for any clock, any days searched, any zones and any  *)
(* bookings: the run the scheduler takes to be the next is the next, and   *)
(* the run it takes to be the last is the last, the clock moved or not; a  *)
(* pending check is one run whose time has come, with the next after it.   *)
(* Days, slots and what the clock shows come first: a time of day in the   *)
(* hour the clock skips is no time, and one in the hour it shows twice is  *)
(* the first of the two.                                                   *)
(***************************************************************************)

(*                              days and slots                             *)

LEMMA ClockNumbers ==
  /\ Slots \in Nat /\ Slots >= 1 /\ SearchDays \in Nat
  /\ \A z \in Zones : z.ahead \in Int /\ z.at \in Nat /\ z.by \in Int
<1>1. ASSUME NEW z \in Zones PROVE z.ahead \in Int /\ z.at \in Nat /\ z.by \in Int
  <2>1. z \in [ahead : Aheads, at : ShiftTimes, by : Shifts]
    BY DEF Zones
  <2> QED BY <2>1, ClockAssumption
<1> QED BY <1>1, ClockAssumption

\* Of two days the later one is a day's slots further at least.
LEMMA DaysApart ==
  ASSUME NEW a \in Int, NEW b \in Int, a < b
  PROVE  a * Slots \in Int /\ b * Slots \in Int /\ a * Slots + Slots <= b * Slots
<1>1. Slots \in Nat /\ Slots >= 1
  BY ClockNumbers
<1>2. PICK n \in Nat : b = a + 1 + n
  <2>1. b - a - 1 \in Nat
    OBVIOUS
  <2> QED BY <2>1
<1>3. b * Slots = a * Slots + Slots + n * Slots /\ n * Slots >= 0
  BY <1>1, <1>2
<1> QED BY <1>1, <1>3

\* A time is its day and its slot.
LEMMA TimeIsDayAndSlot ==
  ASSUME NEW x \in Int
  PROVE  /\ x \div Slots \in Int /\ x % Slots \in 0..(Slots - 1)
         /\ x = ((x \div Slots) * Slots) + (x % Slots)
  BY ClockNumbers

LEMMA DayAndSlot ==
  ASSUME NEW d \in Int, NEW s \in 0..(Slots - 1)
  PROVE  (d * Slots + s) \div Slots = d /\ (d * Slots + s) % Slots = s
<1> DEFINE q == (d * Slots + s) \div Slots
           r == (d * Slots + s) % Slots
<1>0. Slots \in Nat /\ Slots >= 1 /\ d * Slots \in Int
  BY ClockNumbers
<1>1. q \in Int /\ r \in 0..(Slots - 1) /\ d * Slots + s = q * Slots + r /\ q * Slots \in Int
  BY <1>0, TimeIsDayAndSlot
<1> HIDE DEF q, r
<1>2. ~(q < d)
  BY <1>0, <1>1, DaysApart
<1>3. ~(d < q)
  BY <1>0, <1>1, DaysApart
<1>4. q = d
  BY <1>1, <1>2, <1>3
<1>5. r = s
  BY <1>0, <1>1, <1>4
<1> QED BY <1>4, <1>5 DEF q, r

LEMMA LaterIsNoEarlierDay ==
  ASSUME NEW x \in Int, NEW y \in Int, x <= y
  PROVE  x \div Slots <= y \div Slots
<1> DEFINE p == x \div Slots
           q == y \div Slots
<1>1. p \in Int /\ q \in Int /\ p * Slots \in Int /\ q * Slots \in Int
  BY TimeIsDayAndSlot, ClockNumbers
<1>2. x >= p * Slots /\ y < q * Slots + Slots
  BY TimeIsDayAndSlot, ClockNumbers
<1> HIDE DEF p, q
<1>3. ~(q < p)
  <2> SUFFICES ASSUME q < p PROVE FALSE
    OBVIOUS
  <2>1. q * Slots + Slots <= p * Slots
    BY <1>1, DaysApart
  <2> QED BY <1>1, <1>2, <2>1, ClockNumbers
<1> QED BY <1>1, <1>3 DEF p, q

\* Two times within a day's slots, plus some days, are at most so many days apart.
LEMMA DaysBetween ==
  ASSUME NEW x \in Int, NEW y \in Int, NEW n \in Int, y <= x + n * Slots
  PROVE  y \div Slots <= (x \div Slots) + n
<1> DEFINE p == x \div Slots
           r == x % Slots
<1>1. p \in Int /\ r \in 0..(Slots - 1) /\ x = p * Slots + r
  BY TimeIsDayAndSlot
<1> HIDE DEF p, r
<1>2. x + n * Slots = (p + n) * Slots + r
  BY <1>1, ClockNumbers
<1>3. (x + n * Slots) \div Slots = p + n /\ x + n * Slots \in Int
  BY <1>1, <1>2, DayAndSlot, ClockNumbers
<1>4. y \div Slots <= (x + n * Slots) \div Slots
  BY <1>3, LaterIsNoEarlierDay
<1> QED BY <1>3, <1>4 DEF p

-----------------------------------------------------------------------------
(*                               the clock                                 *)

\* The instant of a local time, both numbered through.
At(w) == w - Offset(w - Offset(w))

LEMMA OffsetCases ==
  ASSUME zone \in Zones, NEW t \in Int
  PROVE  /\ zone.ahead \in Int /\ zone.at \in Nat /\ zone.by \in Int
         /\ Offset(t) \in Int
         /\ t < zone.at => Offset(t) = zone.ahead
         /\ t >= zone.at => Offset(t) = zone.ahead + zone.by
  BY ClockNumbers DEF Offset

LEMMA InstantIsAt ==
  ASSUME NEW d \in Int, NEW s \in 0..(Slots - 1)
  PROVE  /\ d * Slots + s \in Int /\ Instant(d, s) = At(d * Slots + s)
         /\ Happens(d, s) <=> LocalOf(At(d * Slots + s)) = d * Slots + s
  BY ClockNumbers DEF At, Instant, Happens

LEMMA AtIsInt ==
  ASSUME zone \in Zones, NEW w \in Int
  PROVE  At(w) \in Int /\ LocalOf(At(w)) \in Int
<1>1. Offset(w) \in Int /\ w - Offset(w) \in Int
  BY OffsetCases
<1>2. Offset(w - Offset(w)) \in Int
  BY <1>1, OffsetCases
<1>3. At(w) \in Int
  BY <1>2 DEF At
<1>4. Offset(At(w)) \in Int
  BY <1>3, OffsetCases
<1> QED BY <1>3, <1>4 DEF LocalOf

\* Which offset the instant of a local time is read with.
LEMMA AtCases ==
  ASSUME zone \in Zones, NEW w \in Int
  PROVE  \/ At(w) = w - zone.ahead /\ (w < zone.at => w - zone.ahead < zone.at)
                                  /\ (w >= zone.at => w - zone.ahead - zone.by < zone.at)
         \/ At(w) = w - zone.ahead - zone.by /\ (w < zone.at => w - zone.ahead >= zone.at)
                                            /\ (w >= zone.at => w - zone.ahead - zone.by >= zone.at)
<1> DEFINE g == w - Offset(w)
<1>1. /\ zone.ahead \in Int /\ zone.at \in Nat /\ zone.by \in Int /\ Offset(w) \in Int
      /\ w < zone.at => Offset(w) = zone.ahead
      /\ w >= zone.at => Offset(w) = zone.ahead + zone.by
  BY OffsetCases
<1>2. g \in Int /\ At(w) = w - Offset(g)
  BY <1>1 DEF At
<1>3. /\ g < zone.at => Offset(g) = zone.ahead
      /\ g >= zone.at => Offset(g) = zone.ahead + zone.by
  BY <1>2, OffsetCases
<1>4. w < zone.at => g = w - zone.ahead
  BY <1>1
<1>5. w >= zone.at => g = w - zone.ahead - zone.by
  BY <1>1
<1> HIDE DEF g
<1> QED BY <1>1, <1>2, <1>3, <1>4, <1>5

\* A local time the clock shows at some instant happens, at that instant or at the other at which it is shown.
LEMMA ShownHappens ==
  ASSUME zone \in Zones, NEW t \in Int
  PROVE  LocalOf(t) \in Int /\ LocalOf(At(LocalOf(t))) = LocalOf(t)
<1> DEFINE w == LocalOf(t)
           i == At(w)
<1>1. /\ zone.ahead \in Int /\ zone.at \in Nat /\ zone.by \in Int /\ Offset(t) \in Int
      /\ t < zone.at => Offset(t) = zone.ahead
      /\ t >= zone.at => Offset(t) = zone.ahead + zone.by
  BY OffsetCases
<1>2. /\ w \in Int
      /\ t < zone.at => w = t + zone.ahead
      /\ t >= zone.at => w = t + zone.ahead + zone.by
  BY <1>1 DEF LocalOf
<1> HIDE DEF w
<1>3. \/ i = w - zone.ahead /\ (w < zone.at => w - zone.ahead < zone.at)
                           /\ (w >= zone.at => w - zone.ahead - zone.by < zone.at)
      \/ i = w - zone.ahead - zone.by /\ (w < zone.at => w - zone.ahead >= zone.at)
                                     /\ (w >= zone.at => w - zone.ahead - zone.by >= zone.at)
  BY <1>2, AtCases
<1>4. i \in Int
  BY <1>2, AtIsInt
<1>5. /\ Offset(i) \in Int
      /\ i < zone.at => Offset(i) = zone.ahead
      /\ i >= zone.at => Offset(i) = zone.ahead + zone.by
  BY <1>4, OffsetCases
<1> HIDE DEF i
<1>6. i + Offset(i) = w
  BY <1>1, <1>2, <1>3, <1>4, <1>5
<1>7. LocalOf(i) = w
  BY <1>6 DEF LocalOf
<1> QED BY <1>2, <1>7 DEF i, w

\* Of two local times that happen, the later one is later.
LEMMA LaterIsLater ==
  ASSUME zone \in Zones, NEW w \in Int, NEW v \in Int, w < v,
         LocalOf(At(w)) = w, LocalOf(At(v)) = v
  PROVE  At(w) < At(v)
<1> DEFINE i == At(w)
           j == At(v)
<1>1. zone.ahead \in Int /\ zone.at \in Nat /\ zone.by \in Int
  BY OffsetCases
<1>2. \/ i = w - zone.ahead /\ (w < zone.at => w - zone.ahead < zone.at)
                           /\ (w >= zone.at => w - zone.ahead - zone.by < zone.at)
      \/ i = w - zone.ahead - zone.by /\ (w < zone.at => w - zone.ahead >= zone.at)
                                     /\ (w >= zone.at => w - zone.ahead - zone.by >= zone.at)
  BY AtCases
<1>3. \/ j = v - zone.ahead /\ (v < zone.at => v - zone.ahead < zone.at)
                           /\ (v >= zone.at => v - zone.ahead - zone.by < zone.at)
      \/ j = v - zone.ahead - zone.by /\ (v < zone.at => v - zone.ahead >= zone.at)
                                     /\ (v >= zone.at => v - zone.ahead - zone.by >= zone.at)
  BY AtCases
<1>4. i \in Int /\ j \in Int
  BY AtIsInt
<1>5. /\ Offset(i) \in Int /\ i + Offset(i) = w
      /\ i < zone.at => Offset(i) = zone.ahead
      /\ i >= zone.at => Offset(i) = zone.ahead + zone.by
  BY <1>4, OffsetCases DEF LocalOf
<1>6. /\ Offset(j) \in Int /\ j + Offset(j) = v
      /\ j < zone.at => Offset(j) = zone.ahead
      /\ j >= zone.at => Offset(j) = zone.ahead + zone.by
  BY <1>4, OffsetCases DEF LocalOf
<1> HIDE DEF i, j
<1>7. /\ i < zone.at => i = w - zone.ahead
      /\ i >= zone.at => i = w - zone.ahead - zone.by
      /\ j < zone.at => j = v - zone.ahead
      /\ j >= zone.at => j = v - zone.ahead - zone.by
  BY <1>1, <1>4, <1>5, <1>6
<1>8. i < j
  BY <1>1, <1>2, <1>3, <1>4, <1>7
<1> QED BY <1>8 DEF i, j

\* A move of the clock stays within a day.
LEMMA MovesWithinADay ==
  ASSUME zone \in Zones
  PROVE  LET wall == zone.at + zone.ahead IN
         /\ zone.by > 0 => (wall - zone.by) \div Slots = (wall + 2 * zone.by - 1) \div Slots
         /\ zone.by < 0 => (wall + zone.by) \div Slots = (wall - 1) \div Slots
  BY ClockNumbers DEF Zones

\* The day never goes back.
LEMMA DaysGoOn ==
  ASSUME zone \in Zones, NEW t \in Int, NEW u \in Int, t <= u
  PROVE  DayOf(t) \in Int /\ DayOf(u) \in Int /\ DayOf(t) <= DayOf(u)
<1> DEFINE wall == zone.at + zone.ahead
           x == LocalOf(t)
           y == LocalOf(u)
<1>1. /\ zone.ahead \in Int /\ zone.at \in Nat /\ zone.by \in Int
      /\ t < zone.at => Offset(t) = zone.ahead
      /\ t >= zone.at => Offset(t) = zone.ahead + zone.by
      /\ u < zone.at => Offset(u) = zone.ahead
      /\ u >= zone.at => Offset(u) = zone.ahead + zone.by
  BY OffsetCases
<1>2. /\ x \in Int /\ y \in Int
      /\ t < zone.at => x = t + zone.ahead
      /\ t >= zone.at => x = t + zone.ahead + zone.by
      /\ u < zone.at => y = u + zone.ahead
      /\ u >= zone.at => y = u + zone.ahead + zone.by
  BY <1>1, OffsetCases DEF LocalOf
<1>3. wall \in Int
  BY <1>1
<1> HIDE DEF x, y
<1>4. x \div Slots \in Int /\ y \div Slots \in Int
  BY <1>2, TimeIsDayAndSlot
<1>5. ASSUME x <= y PROVE x \div Slots <= y \div Slots
  BY <1>2, <1>5, LaterIsNoEarlierDay
<1>6. ASSUME x > y PROVE x \div Slots <= y \div Slots
  <2>1. zone.by < 0 /\ x <= wall - 1 /\ y >= wall + zone.by
    BY <1>1, <1>2, <1>6
  <2>2. wall + zone.by \in Int /\ wall - 1 \in Int
    BY <1>1, <1>3
  <2>3. (wall + zone.by) \div Slots = (wall - 1) \div Slots
    BY <2>1, MovesWithinADay
  <2>4. x \div Slots <= (wall - 1) \div Slots
    BY <1>2, <2>1, <2>2, LaterIsNoEarlierDay
  <2>5. (wall + zone.by) \div Slots <= y \div Slots
    BY <1>2, <2>1, <2>2, LaterIsNoEarlierDay
  <2>6. (wall - 1) \div Slots \in Int
    BY <2>2, TimeIsDayAndSlot
  <2> HIDE DEF wall
  <2> QED BY <1>4, <2>3, <2>4, <2>5, <2>6
<1>7. x \div Slots <= y \div Slots
  BY <1>2, <1>5, <1>6
<1> QED BY <1>4, <1>7 DEF DayOf, x, y

\* The instant of a local time is on its day, be the time skipped or not.
LEMMA InstantDay ==
  ASSUME zone \in Zones, NEW d \in Int, NEW s \in 0..(Slots - 1)
  PROVE  Instant(d, s) \in Int /\ DayOf(Instant(d, s)) = d
<1> DEFINE w == d * Slots + s
           i == At(w)
           wall == zone.at + zone.ahead
<1>0. w \in Int /\ Instant(d, s) = i /\ w \div Slots = d
  BY InstantIsAt, DayAndSlot
<1> HIDE DEF w
<1>1. /\ zone.ahead \in Int /\ zone.at \in Nat /\ zone.by \in Int /\ i \in Int
  BY <1>0, OffsetCases, AtIsInt
<1>2. \/ i = w - zone.ahead /\ (w < zone.at => w - zone.ahead < zone.at)
                           /\ (w >= zone.at => w - zone.ahead - zone.by < zone.at)
      \/ i = w - zone.ahead - zone.by /\ (w < zone.at => w - zone.ahead >= zone.at)
                                     /\ (w >= zone.at => w - zone.ahead - zone.by >= zone.at)
  BY <1>0, AtCases
<1>3. /\ Offset(i) \in Int
      /\ i < zone.at => Offset(i) = zone.ahead
      /\ i >= zone.at => Offset(i) = zone.ahead + zone.by
  BY <1>1, OffsetCases
<1> HIDE DEF i
<1> DEFINE x == LocalOf(i)
<1>4. x = i + Offset(i) /\ x \in Int
  BY <1>1, <1>3 DEF LocalOf
<1> HIDE DEF x
<1>5. CASE x = w
  BY <1>0, <1>1, <1>5 DEF DayOf, x
<1>6. CASE x # w
  <2>1. /\ zone.by > 0 /\ w >= wall /\ w <= wall + zone.by - 1
        /\ x >= wall - zone.by /\ x <= wall + 2 * zone.by - 1
    BY <1>0, <1>1, <1>2, <1>3, <1>4, <1>6
  <2>2. wall - zone.by \in Int /\ wall + 2 * zone.by - 1 \in Int /\ wall \in Int
    BY <1>1
  <2> DEFINE from == wall - zone.by
             to   == wall + 2 * zone.by - 1
  <2>3. from \div Slots = to \div Slots
    BY <2>1, MovesWithinADay
  <2>4. from <= w /\ w <= to /\ from <= x /\ x <= to
    BY <1>0, <1>1, <1>4, <2>1, <2>2
  <2>5. from \in Int /\ to \in Int
    BY <2>2
  <2> HIDE DEF from, to
  <2>6. /\ from \div Slots <= w \div Slots /\ w \div Slots <= to \div Slots
        /\ from \div Slots <= x \div Slots /\ x \div Slots <= to \div Slots
    BY <1>0, <1>4, <2>4, <2>5, LaterIsNoEarlierDay
  <2>7. from \div Slots \in Int /\ w \div Slots \in Int /\ x \div Slots \in Int
    BY <1>0, <1>4, <2>5, TimeIsDayAndSlot
  <2>8. x \div Slots = w \div Slots
    BY <2>3, <2>6, <2>7
  <2> QED BY <1>0, <1>1, <2>8 DEF DayOf, x
<1> QED BY <1>5, <1>6

\* Two local times that happen, a day and a slot each: the later one is later.
LEMMA EarlierIsEarlier ==
  ASSUME zone \in Zones, NEW d \in Int, NEW s \in 0..(Slots - 1), NEW e \in Int, NEW r \in 0..(Slots - 1),
         Happens(d, s), Happens(e, r), d < e \/ (d = e /\ s < r)
  PROVE  Instant(d, s) < Instant(e, r)
<1> DEFINE w == d * Slots + s
           v == e * Slots + r
<1>1. /\ w \in Int /\ Instant(d, s) = At(w) /\ LocalOf(At(w)) = w
      /\ v \in Int /\ Instant(e, r) = At(v) /\ LocalOf(At(v)) = v
  BY InstantIsAt
<1>2. w < v
  <2>1. CASE d < e
    <3>1. d * Slots + Slots <= e * Slots /\ d * Slots \in Int /\ e * Slots \in Int
      BY <2>1, DaysApart
    <3> QED BY <3>1, ClockNumbers
  <2>2. CASE d = e /\ s < r
    BY <2>2, ClockNumbers
  <2> QED BY <2>1, <2>2
<1> HIDE DEF w, v
<1> QED BY <1>1, <1>2, LaterIsLater

\* What happens is shown at its instant, and an instant the clock finds again happens.
LEMMA HappensIsShown ==
  ASSUME zone \in Zones, NEW d \in Int, NEW s \in 0..(Slots - 1), Happens(d, s)
  PROVE  /\ Instant(d, s) \in Int /\ DayOf(Instant(d, s)) = d /\ SlotOf(Instant(d, s)) = s
         /\ Instant(DayOf(Instant(d, s)), SlotOf(Instant(d, s))) = Instant(d, s)
<1>1. LocalOf(Instant(d, s)) = d * Slots + s
  BY DEF Happens
<1>2. DayOf(Instant(d, s)) = d /\ SlotOf(Instant(d, s)) = s
  BY <1>1, DayAndSlot DEF DayOf, SlotOf
<1> QED BY <1>2, InstantDay

LEMMA ShownIsPlace ==
  ASSUME zone \in Zones, NEW t \in Int
  PROVE  /\ LocalOf(t) \in Int /\ DayOf(t) \in Int /\ SlotOf(t) \in 0..(Slots - 1)
         /\ Happens(DayOf(t), SlotOf(t))
<1>1. LocalOf(t) \in Int /\ LocalOf(At(LocalOf(t))) = LocalOf(t)
  BY ShownHappens
<1>2. DayOf(t) \in Int /\ SlotOf(t) \in 0..(Slots - 1) /\ LocalOf(t) = (DayOf(t) * Slots) + SlotOf(t)
  BY <1>1, TimeIsDayAndSlot DEF DayOf, SlotOf
<1> QED BY <1>1, <1>2, InstantIsAt

\* How many days a span of time may cover.
LEMMA DaysOfSpan ==
  ASSUME zone \in Zones, NEW t \in Int, NEW u \in Int, NEW n \in Nat, t <= u, u <= t + Slots * (n - 1)
  PROVE  DayOf(t) <= DayOf(u) /\ DayOf(u) <= DayOf(t) + n
<1> DEFINE wall == zone.at + zone.ahead
           x == LocalOf(t)
           y == LocalOf(u)
<1>1. /\ zone.ahead \in Int /\ zone.at \in Nat /\ zone.by \in Int /\ Offset(t) \in Int /\ Offset(u) \in Int
      /\ t < zone.at => Offset(t) = zone.ahead
      /\ t >= zone.at => Offset(t) = zone.ahead + zone.by
      /\ u < zone.at => Offset(u) = zone.ahead
      /\ u >= zone.at => Offset(u) = zone.ahead + zone.by
  BY OffsetCases
<1>2. x \in Int /\ y \in Int /\ x = t + Offset(t) /\ y = u + Offset(u)
  BY <1>1 DEF LocalOf
<1> HIDE DEF x, y
<1>3. zone.by <= Slots
  <2> SUFFICES ASSUME zone.by > Slots PROVE FALSE
    BY <1>1, ClockNumbers
  <2> DEFINE from == wall - zone.by
             to   == wall + 2 * zone.by - 1
  <2>1. from \in Int /\ to \in Int /\ from + Slots <= to /\ from + 1 * Slots \in Int
    BY <1>1, ClockNumbers
  <2>2. from \div Slots = to \div Slots
    BY <1>1, MovesWithinADay, ClockNumbers
  <2> HIDE DEF from, to
  <2>3. (from + Slots) \div Slots = (from \div Slots) + 1
    <3> DEFINE p == from \div Slots
               r == from % Slots
    <3>1. p \in Int /\ r \in 0..(Slots - 1) /\ from = (p * Slots) + r
      BY <2>1, TimeIsDayAndSlot
    <3> HIDE DEF p, r
    <3>2. from + Slots = ((p + 1) * Slots) + r
      BY <3>1, ClockNumbers
    <3>3. (from + Slots) \div Slots = p + 1
      BY <3>1, <3>2, DayAndSlot
    <3> QED BY <3>3 DEF p
  <2>4. (from + Slots) \div Slots <= to \div Slots
    BY <2>1, LaterIsNoEarlierDay, ClockNumbers
  <2>5. from \div Slots \in Int
    BY <2>1, TimeIsDayAndSlot
  <2> QED BY <2>2, <2>3, <2>4, <2>5
<1>4. Slots * (n - 1) \in Int /\ n * Slots \in Int /\ Slots * (n - 1) + Slots = n * Slots
  BY ClockNumbers
<1>5. u - t <= n * Slots - Slots
  BY <1>4, ClockNumbers
<1>6. y <= x + n * Slots
  BY <1>1, <1>2, <1>3, <1>4, <1>5, ClockNumbers
<1>7. y \div Slots <= (x \div Slots) + n
  BY <1>2, <1>6, DaysBetween
<1> QED BY <1>7, DaysGoOn DEF DayOf, x, y

-----------------------------------------------------------------------------
(*                             the nearest run                             *)

LEMMA Least ==
  ASSUME NEW S \in SUBSET Nat, S # {}
  PROVE  \E x \in S : \A y \in S : x <= y
<1> DEFINE R == OpToRel(<, Nat)
<1>1. IsWellFoundedOn(R, Nat)
  BY NatLessThanWellFounded
<1>2. \A x, y \in Nat : x < y => <<x, y>> \in R
  BY DEF OpToRel
<1> HIDE DEF R
<1>3. PICK x \in S : \A y \in S : ~ (<<y, x>> \in R)
  BY <1>1, WFMin
<1>4. ASSUME NEW y \in S PROVE x <= y
  <2>1. x \in Nat /\ y \in Nat /\ ~ (<<y, x>> \in R)
    BY <1>3
  <2>2. ~ (y < x)
    BY <1>2, <2>1
  <2> QED BY <2>1, <2>2
<1> QED BY <1>4

\* Places from some day on have a first, and places up to some day a last.
LEMMA FirstPlace ==
  ASSUME NEW P, P # {}, \A p \in P : p.ahead \in Nat /\ p.slot \in Nat,
         \A p, q \in P : p.ahead = q.ahead /\ p.slot = q.slot => p = q
  PROVE  \E p \in P : \A q \in P : q = p \/ Earlier(p, q)
<1>1. PICK a \in {p.ahead : p \in P} : \A b \in {p.ahead : p \in P} : a <= b
  <2>1. {p.ahead : p \in P} \in SUBSET Nat /\ {p.ahead : p \in P} # {}
    OBVIOUS
  <2> QED BY <2>1, Least
<1> DEFINE Slot(p) == p.slot
           D == {p \in P : p.ahead = a}
<1>2. PICK s \in {p.slot : p \in D} : \A r \in {p.slot : p \in D} : s <= r
  <2>1. {p.slot : p \in D} \in SUBSET Nat /\ {p.slot : p \in D} # {}
    BY <1>1
  <2> HIDE DEF D
  <2> QED BY <2>1, Least
<1>3. PICK p \in D : p.slot = s
  BY <1>2
<1>4. ASSUME NEW q \in P PROVE q = p \/ Earlier(p, q)
  <2>1. p.ahead = a /\ p.slot = s /\ p \in P /\ a <= q.ahead
    BY <1>1, <1>3
  <2>2. CASE q.ahead = a
    <3>1. s <= q.slot
      BY <1>2, <2>2
    <3> QED BY <2>1, <2>2, <3>1 DEF Earlier
  <2>3. CASE q.ahead # a
    BY <2>1, <2>3 DEF Earlier
  <2> QED BY <2>2, <2>3
<1> QED BY <1>3, <1>4

LEMMA LastPlace ==
  ASSUME NEW P, P # {}, NEW n \in Nat, \A p \in P : p.ahead \in Int /\ p.ahead <= 0 /\ p.slot \in 0..n,
         \A p, q \in P : p.ahead = q.ahead /\ p.slot = q.slot => p = q
  PROVE  \E p \in P : \A q \in P : q = p \/ Earlier(q, p)
<1>1. PICK a \in {-p.ahead : p \in P} : \A b \in {-p.ahead : p \in P} : a <= b
  <2>1. {-p.ahead : p \in P} \in SUBSET Nat /\ {-p.ahead : p \in P} # {}
    OBVIOUS
  <2> QED BY <2>1, Least
<1> DEFINE D == {p \in P : -p.ahead = a}
<1>2. PICK s \in {n - p.slot : p \in D} : \A r \in {n - p.slot : p \in D} : s <= r
  <2>1. {n - p.slot : p \in D} \in SUBSET Nat /\ {n - p.slot : p \in D} # {}
    BY <1>1
  <2> HIDE DEF D
  <2> QED BY <2>1, Least
<1>3. PICK p \in D : n - p.slot = s
  BY <1>2
<1>4. ASSUME NEW q \in P PROVE q = p \/ Earlier(q, p)
  <2>1. -p.ahead = a /\ n - p.slot = s /\ p \in P /\ a <= -q.ahead
    BY <1>1, <1>3
  <2>2. CASE -q.ahead = a
    <3>1. s <= n - q.slot
      BY <1>2, <2>2
    <3> QED BY <2>1, <2>2, <3>1 DEF Earlier
  <2>3. CASE -q.ahead # a
    BY <2>1, <2>3 DEF Earlier
  <2> QED BY <2>2, <2>3
<1> QED BY <1>3, <1>4

\* What nextRun() finds: a run that is later, as the clock shows it, and none between.
LEMMA NextRunIsNext ==
  ASSUME zone \in Zones, NEW t \in Int, NEW cron, NEW accepted \in SUBSET (0..(Slots - 1))
  PROVE  LET next == NextRun(cron, t, accepted)
             Found == {p \in [ahead : 0..SearchDays, slot : cron.slots \cap accepted] :
                         /\ RunsOn(cron, DateOf(DayOf(t) + p.ahead))
                         /\ Happens(DayOf(t) + p.ahead, p.slot)
                         /\ Instant(DayOf(t) + p.ahead, p.slot) > t} IN
         /\ Found = {} => next = NoRun
         /\ Found # {} =>
              /\ next \in Int /\ next > t /\ SlotOf(next) \in cron.slots \cap accepted
              /\ RunsOn(cron, DateOf(DayOf(next))) /\ next = Instant(DayOf(next), SlotOf(next))
              /\ \A p \in Found : next <= Instant(DayOf(t) + p.ahead, p.slot)
<1> DEFINE Found == {p \in [ahead : 0..SearchDays, slot : cron.slots \cap accepted] :
                       /\ RunsOn(cron, DateOf(DayOf(t) + p.ahead))
                       /\ Happens(DayOf(t) + p.ahead, p.slot)
                       /\ Instant(DayOf(t) + p.ahead, p.slot) > t}
           earliest == CHOOSE p \in Found : \A q \in Found : q = p \/ Earlier(p, q)
           next == NextRun(cron, t, accepted)
<1>1. next = IF Found = {} THEN NoRun ELSE Instant(DayOf(t) + earliest.ahead, earliest.slot)
  BY DEF NextRun
<1>2. ASSUME NEW p \in Found
      PROVE  /\ p.ahead \in Nat /\ p.slot \in Nat /\ p.slot \in 0..(Slots - 1) /\ p.slot \in cron.slots \cap accepted
             /\ DayOf(t) + p.ahead \in Int /\ DayOf(t) \in Int
             /\ RunsOn(cron, DateOf(DayOf(t) + p.ahead))
             /\ Happens(DayOf(t) + p.ahead, p.slot)
             /\ Instant(DayOf(t) + p.ahead, p.slot) > t
  <2>1. DayOf(t) \in Int
    BY ShownIsPlace
  <2>2. p \in [ahead : 0..SearchDays, slot : cron.slots \cap accepted]
    OBVIOUS
  <2>3. p.ahead \in Nat /\ p.slot \in cron.slots \cap accepted
    BY <2>2, ClockNumbers
  <2>4. p.slot \in 0..(Slots - 1)
    BY <2>3
  <2> QED BY <2>1, <2>3, <2>4, ClockNumbers
<1>3. ASSUME NEW p \in Found, NEW q \in Found, p.ahead = q.ahead, p.slot = q.slot PROVE p = q
  BY <1>3
<1> HIDE DEF Found, next
<1>4. ASSUME Found # {}
      PROVE  /\ earliest \in Found /\ \A q \in Found : q = earliest \/ Earlier(earliest, q)
  <2>1. \E p \in Found : \A q \in Found : q = p \/ Earlier(p, q)
    BY <1>2, <1>3, <1>4, FirstPlace
  <2> QED BY <2>1
<1> HIDE DEF earliest
<1>5. ASSUME Found # {}
      PROVE  /\ next \in Int /\ next > t /\ SlotOf(next) \in cron.slots \cap accepted
             /\ RunsOn(cron, DateOf(DayOf(next))) /\ next = Instant(DayOf(next), SlotOf(next))
  <2>1. earliest \in Found /\ next = Instant(DayOf(t) + earliest.ahead, earliest.slot)
    BY <1>1, <1>4, <1>5
  <2>2. /\ next \in Int /\ DayOf(next) = DayOf(t) + earliest.ahead /\ SlotOf(next) = earliest.slot
        /\ Instant(DayOf(next), SlotOf(next)) = next
    BY <1>2, <2>1, HappensIsShown
  <2> QED BY <1>2, <2>1, <2>2
<1>6. ASSUME NEW q \in Found PROVE next <= Instant(DayOf(t) + q.ahead, q.slot)
  <2>0. Found # {}
    OBVIOUS
  <2>1. earliest \in Found /\ next = Instant(DayOf(t) + earliest.ahead, earliest.slot)
    BY <1>1, <1>4, <2>0
  <2>2. next \in Int
    BY <1>5, <2>0
  <2>3. CASE q = earliest
    BY <2>1, <2>2, <2>3
  <2>4. CASE Earlier(earliest, q)
    <3>1. DayOf(t) + earliest.ahead < DayOf(t) + q.ahead
           \/ (DayOf(t) + earliest.ahead = DayOf(t) + q.ahead /\ earliest.slot < q.slot)
      BY <1>2, <2>1, <2>4 DEF Earlier
    <3>2. Instant(DayOf(t) + earliest.ahead, earliest.slot) < Instant(DayOf(t) + q.ahead, q.slot)
      BY <1>2, <2>1, <3>1, EarlierIsEarlier
    <3>3. Instant(DayOf(t) + q.ahead, q.slot) \in Int
      BY <1>2, InstantDay
    <3> QED BY <2>1, <2>2, <3>2, <3>3
  <2> QED BY <1>4, <2>0, <2>3, <2>4
<1>7. Found = {} => next = NoRun
  BY <1>1
<1> QED BY <1>5, <1>6, <1>7 DEF Found, next

\* What lastRun() finds: a run that is not later, as the clock shows it, and none after it.
LEMMA LastRunIsLast ==
  ASSUME zone \in Zones, NEW t \in Int, NEW cron, cron.slots \subseteq 0..(Slots - 1)
  PROVE  LET last == LastRun(cron, t)
             Found == {p \in [ahead : -SearchDays..0, slot : cron.slots] :
                         /\ RunsOn(cron, DateOf(DayOf(t) + p.ahead))
                         /\ Happens(DayOf(t) + p.ahead, p.slot)
                         /\ Instant(DayOf(t) + p.ahead, p.slot) <= t} IN
         /\ Found = {} => last = NoRun
         /\ Found # {} =>
              /\ last \in Int /\ last <= t /\ SlotOf(last) \in cron.slots /\ DayOf(last) >= DayOf(t) - SearchDays
              /\ RunsOn(cron, DateOf(DayOf(last))) /\ last = Instant(DayOf(last), SlotOf(last))
              /\ \A p \in Found : Instant(DayOf(t) + p.ahead, p.slot) <= last
<1> DEFINE Found == {p \in [ahead : -SearchDays..0, slot : cron.slots] :
                       /\ RunsOn(cron, DateOf(DayOf(t) + p.ahead))
                       /\ Happens(DayOf(t) + p.ahead, p.slot)
                       /\ Instant(DayOf(t) + p.ahead, p.slot) <= t}
           final == CHOOSE p \in Found : \A q \in Found : q = p \/ Earlier(q, p)
           last == LastRun(cron, t)
<1>1. last = IF Found = {} THEN NoRun ELSE Instant(DayOf(t) + final.ahead, final.slot)
  BY DEF LastRun
<1>2. ASSUME NEW p \in Found
      PROVE  /\ p.ahead \in Int /\ p.ahead <= 0 /\ p.ahead >= -SearchDays /\ p.slot \in 0..(Slots - 1) /\ p.slot \in cron.slots
             /\ DayOf(t) + p.ahead \in Int /\ DayOf(t) \in Int
             /\ RunsOn(cron, DateOf(DayOf(t) + p.ahead))
             /\ Happens(DayOf(t) + p.ahead, p.slot)
             /\ Instant(DayOf(t) + p.ahead, p.slot) <= t
  <2>1. DayOf(t) \in Int
    BY ShownIsPlace
  <2>2. p \in [ahead : -SearchDays..0, slot : cron.slots]
    OBVIOUS
  <2>3. p.ahead \in Int /\ p.ahead <= 0 /\ p.ahead >= -SearchDays /\ p.slot \in cron.slots
    BY <2>2, ClockNumbers
  <2>4. p.slot \in 0..(Slots - 1)
    BY <2>3
  <2> QED BY <2>1, <2>3, <2>4, ClockNumbers
<1>3. ASSUME NEW p \in Found, NEW q \in Found, p.ahead = q.ahead, p.slot = q.slot PROVE p = q
  BY <1>3
<1> HIDE DEF Found, last
<1>4. ASSUME Found # {}
      PROVE  /\ final \in Found /\ \A q \in Found : q = final \/ Earlier(q, final)
  <2>1. Slots - 1 \in Nat
    BY ClockNumbers
  <2>2. \E p \in Found : \A q \in Found : q = p \/ Earlier(q, p)
    BY <1>2, <1>3, <1>4, <2>1, LastPlace
  <2> QED BY <2>2
<1> HIDE DEF final
<1>5. ASSUME Found # {}
      PROVE  /\ last \in Int /\ last <= t /\ SlotOf(last) \in cron.slots /\ DayOf(last) >= DayOf(t) - SearchDays
             /\ RunsOn(cron, DateOf(DayOf(last))) /\ last = Instant(DayOf(last), SlotOf(last))
  <2>1. final \in Found /\ last = Instant(DayOf(t) + final.ahead, final.slot)
    BY <1>1, <1>4, <1>5
  <2>2. /\ last \in Int /\ DayOf(last) = DayOf(t) + final.ahead /\ SlotOf(last) = final.slot
        /\ Instant(DayOf(last), SlotOf(last)) = last
    BY <1>2, <2>1, HappensIsShown
  <2> QED BY <1>2, <2>1, <2>2, ClockNumbers
<1>6. ASSUME NEW q \in Found PROVE Instant(DayOf(t) + q.ahead, q.slot) <= last
  <2>0. Found # {}
    OBVIOUS
  <2>1. final \in Found /\ last = Instant(DayOf(t) + final.ahead, final.slot)
    BY <1>1, <1>4, <2>0
  <2>2. last \in Int
    BY <1>5, <2>0
  <2>3. CASE q = final
    BY <2>1, <2>2, <2>3
  <2>4. CASE Earlier(q, final)
    <3>1. DayOf(t) + q.ahead < DayOf(t) + final.ahead
           \/ (DayOf(t) + q.ahead = DayOf(t) + final.ahead /\ q.slot < final.slot)
      BY <1>2, <2>1, <2>4 DEF Earlier
    <3>2. Instant(DayOf(t) + q.ahead, q.slot) < Instant(DayOf(t) + final.ahead, final.slot)
      BY <1>2, <2>1, <3>1, EarlierIsEarlier
    <3>3. Instant(DayOf(t) + q.ahead, q.slot) \in Int
      BY <1>2, InstantDay
    <3> QED BY <2>1, <2>2, <3>2, <3>3
  <2> QED BY <1>4, <2>0, <2>3, <2>4
<1>7. Found = {} => last = NoRun
  BY <1>1
<1> QED BY <1>5, <1>6, <1>7 DEF Found, last

\* The nearest times of a slot.
LEMMA OccurrencesAreNearest ==
  ASSUME zone \in Zones, NEW t \in Int, NEW s \in 0..(Slots - 1)
  PROVE  /\ PreviousOccurrence(t, s) <= t /\ t < NextOccurrence(t, s)
         /\ \A u \in Int : SlotOf(u) = s /\ u = Instant(DayOf(u), SlotOf(u)) =>
              /\ u <= t => u <= PreviousOccurrence(t, s)
              /\ u > t  => NextOccurrence(t, s) <= u
<1> DEFINE D == DayOf(t)
           back == PreviousOccurrence(t, s)
           ahead == NextOccurrence(t, s)
<1>1. D \in Int
  BY ShownIsPlace
<1>2. /\ Instant(D, s) \in Int /\ DayOf(Instant(D, s)) = D
      /\ Instant(D - 1, s) \in Int /\ DayOf(Instant(D - 1, s)) = D - 1
      /\ Instant(D + 1, s) \in Int /\ DayOf(Instant(D + 1, s)) = D + 1
  BY <1>1, InstantDay
<1>3. ASSUME NEW u \in Int, NEW v \in Int, DayOf(u) < DayOf(v) PROVE u < v
  BY <1>3, DaysGoOn
<1>4. Instant(D - 1, s) < t /\ t < Instant(D + 1, s)
  BY <1>1, <1>2, <1>3
<1>5. /\ Instant(D, s) <= t => back = Instant(D, s)
      /\ ~(Instant(D, s) <= t) => back = Instant(D - 1, s)
      /\ Instant(D, s) > t => ahead = Instant(D, s)
      /\ ~(Instant(D, s) > t) => ahead = Instant(D + 1, s)
  BY DEF PreviousOccurrence, NextOccurrence
<1> HIDE DEF D, back, ahead
<1>6. back \in Int /\ back <= t /\ ahead \in Int /\ t < ahead
  BY <1>2, <1>4, <1>5
<1>7. ASSUME NEW u \in Int, SlotOf(u) = s, u = Instant(DayOf(u), SlotOf(u)), u <= t
      PROVE  u <= back
  <2>1. DayOf(u) \in Int /\ DayOf(u) <= D
    BY <1>7, DaysGoOn DEF D
  <2>2. CASE DayOf(u) = D
    BY <1>5, <1>6, <1>7, <2>2
  <2>3. CASE DayOf(u) = D - 1
    <3>1. u = Instant(D - 1, s) /\ Instant(D - 1, s) < Instant(D, s)
      BY <1>1, <1>2, <1>3, <1>7, <2>3
    <3> QED BY <1>2, <1>5, <3>1
  <2>4. CASE DayOf(u) < D - 1
    <3>1. u < Instant(D - 1, s) /\ u < Instant(D, s)
      BY <1>1, <1>2, <1>3, <2>1, <2>4
    <3> QED BY <1>2, <1>5, <3>1
  <2> QED BY <1>1, <2>1, <2>2, <2>3, <2>4
<1>8. ASSUME NEW u \in Int, SlotOf(u) = s, u = Instant(DayOf(u), SlotOf(u)), u > t
      PROVE  ahead <= u
  <2>1. DayOf(u) \in Int /\ D <= DayOf(u)
    BY <1>8, DaysGoOn DEF D
  <2>2. CASE DayOf(u) = D
    BY <1>5, <1>6, <1>8, <2>2
  <2>3. CASE DayOf(u) = D + 1
    <3>1. u = Instant(D + 1, s) /\ Instant(D, s) < Instant(D + 1, s)
      BY <1>1, <1>2, <1>3, <1>8, <2>3
    <3> QED BY <1>2, <1>5, <3>1
  <2>4. CASE D + 1 < DayOf(u)
    <3>1. Instant(D + 1, s) < u /\ Instant(D, s) < u
      BY <1>1, <1>2, <1>3, <2>1, <2>4
    <3> QED BY <1>2, <1>5, <3>1
  <2> QED BY <1>1, <2>1, <2>2, <2>3, <2>4
<1> QED BY <1>6, <1>7, <1>8 DEF back, ahead

LEMMA ClockReads ==
  ASSUME zone \in Zones, now \in Nat
  PROVE  ClockIsRead
<1> SUFFICES ASSUME NEW s \in 0..(Slots - 1)
             PROVE  LET shows == [slots |-> {s}, days |-> 1..MonthDays, months |-> 1..YearMonths, weekdays |-> 0..(WeekDays - 1),
                                  anyDay |-> TRUE, anyWeekday |-> TRUE] IN
                    /\ PreviousOccurrence(now, s) <= now /\ now < NextOccurrence(now, s)
                    /\ \A t \in Runs(shows, {s}, now - Slots - 1, now) : t <= PreviousOccurrence(now, s)
                    /\ \A t \in Runs(shows, {s}, now + 1, now + Slots + 1) : NextOccurrence(now, s) <= t
  <2>1. Happens(DayOf(now), SlotOf(now))
    BY ShownIsPlace
  <2> QED BY <2>1 DEF ClockIsRead
<1> DEFINE shows == [slots |-> {s}, days |-> 1..MonthDays, months |-> 1..YearMonths, weekdays |-> 0..(WeekDays - 1),
                     anyDay |-> TRUE, anyWeekday |-> TRUE]
<1>1. ASSUME NEW from \in Int, NEW to \in Int, NEW t \in Runs(shows, {s}, from, to)
      PROVE  t \in Int /\ from <= t /\ t <= to /\ SlotOf(t) = s /\ t = Instant(DayOf(t), SlotOf(t))
  BY DEF Runs
<1> HIDE DEF shows
<1>2. now \in Int /\ now - Slots - 1 \in Int /\ now + 1 \in Int /\ now + Slots + 1 \in Int
  BY ClockNumbers
<1>3. ASSUME NEW t \in Runs(shows, {s}, now - Slots - 1, now) PROVE t <= PreviousOccurrence(now, s)
  <2>1. t \in Int /\ t <= now /\ SlotOf(t) = s /\ t = Instant(DayOf(t), SlotOf(t))
    BY <1>1, <1>2
  <2> QED BY <1>2, <2>1, OccurrencesAreNearest
<1>4. ASSUME NEW t \in Runs(shows, {s}, now + 1, now + Slots + 1) PROVE NextOccurrence(now, s) <= t
  <2>1. t \in Int /\ now + 1 <= t /\ SlotOf(t) = s /\ t = Instant(DayOf(t), SlotOf(t))
    BY <1>1, <1>2
  <2>2. t > now
    BY <1>2, <2>1
  <2> QED BY <1>2, <2>1, <2>2, OccurrencesAreNearest
<1>5. PreviousOccurrence(now, s) <= now /\ now < NextOccurrence(now, s)
  BY <1>2, OccurrencesAreNearest
<1> QED BY <1>3, <1>4, <1>5 DEF shows

LEMMA LeastIsMin ==
  ASSUME NEW S \in SUBSET Int, NEW x \in S
  PROVE  /\ (\A y \in S : x <= y) => Min(S) = x
         /\ (\A y \in S : y <= x) => Max(S) = x
<1>1. ASSUME \A y \in S : x <= y PROVE Min(S) = x
  <2>1. \A z \in S : (\A y \in S : z <= y) => z = x
    BY <1>1
  <2> QED BY <1>1, <2>1 DEF Min
<1>2. ASSUME \A y \in S : y <= x PROVE Max(S) = x
  <2>1. \A z \in S : (\A y \in S : z >= y) => z = x
    BY <1>2
  <2>2. \A y \in S : x >= y
    BY <1>2
  <2> QED BY <2>1, <2>2 DEF Max
<1> QED BY <1>1, <1>2

LEMMA RunsNearest ==
  ASSUME zone \in Zones, now \in Nat
  PROVE  RunsAreNearest
<1> DEFINE span == Slots * (SearchDays - 1)
<1>1. span \in Int /\ now \in Int /\ DayOf(now) \in Int
  BY ShownIsPlace, ClockNumbers
<1> SUFFICES ASSUME NEW cron \in Crons
             PROVE  LET later == Runs(cron, AwakeSlots(hours), now + 1, now + span)
                        done  == Runs(cron, 0..(Slots - 1), now - span, now) IN
                    /\ later # {} => NextRun(cron, now, AwakeSlots(hours)) = Min(later)
                    /\ done # {} => LastRun(cron, now) = Max(done)
  BY DEF RunsAreNearest
<1> HIDE DEF span
<1> DEFINE awake == AwakeSlots(hours)
           later == Runs(cron, awake, now + 1, now + span)
           done  == Runs(cron, 0..(Slots - 1), now - span, now)
           next == NextRun(cron, now, awake)
           last == LastRun(cron, now)
<1>2. awake \in SUBSET (0..(Slots - 1)) /\ cron.slots \subseteq 0..(Slots - 1)
  BY ChecksAssumption DEF AwakeSlots
<1> HIDE DEF awake
<1>3. ASSUME NEW t \in later
      PROVE  /\ t \in Int /\ now < t /\ t <= now + span /\ SlotOf(t) \in cron.slots \cap awake
             /\ RunsOn(cron, DateOf(DayOf(t))) /\ t = Instant(DayOf(t), SlotOf(t))
  BY <1>1 DEF Runs
<1>4. ASSUME NEW t \in Int, now < t, t <= now + span, SlotOf(t) \in cron.slots \cap awake,
             RunsOn(cron, DateOf(DayOf(t))), t = Instant(DayOf(t), SlotOf(t))
      PROVE  t \in later
  BY <1>1, <1>4 DEF Runs
<1>5. ASSUME NEW t \in done
      PROVE  /\ t \in Int /\ now - span <= t /\ t <= now /\ SlotOf(t) \in cron.slots
             /\ RunsOn(cron, DateOf(DayOf(t))) /\ t = Instant(DayOf(t), SlotOf(t))
  BY <1>1 DEF Runs
<1>6. ASSUME NEW t \in Int, now - span <= t, t <= now, SlotOf(t) \in cron.slots,
             RunsOn(cron, DateOf(DayOf(t))), t = Instant(DayOf(t), SlotOf(t))
      PROVE  t \in done
  BY <1>1, <1>2, <1>6 DEF Runs
<1>7. later \in SUBSET Int /\ done \in SUBSET Int
  BY <1>3, <1>5
<1> HIDE DEF later, done
<1>8. ASSUME later # {} PROVE next = Min(later)
  <2> DEFINE Found == {p \in [ahead : 0..SearchDays, slot : cron.slots \cap awake] :
                         /\ RunsOn(cron, DateOf(DayOf(now) + p.ahead))
                         /\ Happens(DayOf(now) + p.ahead, p.slot)
                         /\ Instant(DayOf(now) + p.ahead, p.slot) > now}
             place(t) == [ahead |-> DayOf(t) - DayOf(now), slot |-> SlotOf(t)]
  <2>1. ASSUME NEW t \in later
        PROVE  place(t) \in Found /\ t = Instant(DayOf(now) + place(t).ahead, place(t).slot)
    <3>1. /\ t \in Int /\ now < t /\ t <= now + span /\ SlotOf(t) \in cron.slots \cap awake
          /\ RunsOn(cron, DateOf(DayOf(t))) /\ t = Instant(DayOf(t), SlotOf(t))
      BY <1>3
    <3>2. DayOf(t) \in Int /\ Happens(DayOf(t), SlotOf(t))
      BY <3>1, ShownIsPlace
    <3>3. now <= t
      BY <1>1, <3>1
    <3>4. DayOf(now) <= DayOf(t) /\ DayOf(t) <= DayOf(now) + SearchDays
      BY <1>1, <3>1, <3>3, DaysOfSpan, ClockNumbers DEF span
    <3>5. DayOf(t) - DayOf(now) \in 0..SearchDays /\ DayOf(now) + (DayOf(t) - DayOf(now)) = DayOf(t)
      BY <1>1, <3>2, <3>4, ClockNumbers
    <3>6. /\ place(t).ahead = DayOf(t) - DayOf(now) /\ place(t).slot = SlotOf(t)
          /\ place(t) \in [ahead : 0..SearchDays, slot : cron.slots \cap awake]
      BY <3>1, <3>5
    <3> HIDE DEF place
    <3> QED BY <3>1, <3>2, <3>5, <3>6
  <2>2. PICK u \in later : TRUE
    BY <1>8
  <2>3. Found # {}
    BY <2>1, <2>2
  <2>4. /\ next \in Int /\ next > now /\ SlotOf(next) \in cron.slots \cap awake
        /\ RunsOn(cron, DateOf(DayOf(next))) /\ next = Instant(DayOf(next), SlotOf(next))
        /\ \A p \in Found : next <= Instant(DayOf(now) + p.ahead, p.slot)
    BY <1>1, <1>2, <2>3, NextRunIsNext
  <2> HIDE DEF Found, place, next
  <2>5. \A t \in later : next <= t
    BY <2>1, <2>4
  <2>6. u \in Int /\ u <= now + span /\ next <= u
    BY <1>3, <2>5
  <2>7. next <= now + span
    BY <1>1, <2>4, <2>6
  <2>8. next \in later
    BY <1>1, <1>4, <2>4, <2>7
  <2> QED BY <1>7, <2>5, <2>8, LeastIsMin
<1>9. ASSUME done # {} PROVE last = Max(done)
  <2> DEFINE Found == {p \in [ahead : -SearchDays..0, slot : cron.slots] :
                         /\ RunsOn(cron, DateOf(DayOf(now) + p.ahead))
                         /\ Happens(DayOf(now) + p.ahead, p.slot)
                         /\ Instant(DayOf(now) + p.ahead, p.slot) <= now}
             place(t) == [ahead |-> DayOf(t) - DayOf(now), slot |-> SlotOf(t)]
  <2>1. ASSUME NEW t \in done
        PROVE  place(t) \in Found /\ t = Instant(DayOf(now) + place(t).ahead, place(t).slot)
    <3>1. /\ t \in Int /\ now - span <= t /\ t <= now /\ SlotOf(t) \in cron.slots
          /\ RunsOn(cron, DateOf(DayOf(t))) /\ t = Instant(DayOf(t), SlotOf(t))
      BY <1>5
    <3>2. DayOf(t) \in Int /\ Happens(DayOf(t), SlotOf(t))
      BY <3>1, ShownIsPlace
    <3>3. now <= t + span
      BY <1>1, <3>1
    <3>4. DayOf(t) <= DayOf(now) /\ DayOf(now) <= DayOf(t) + SearchDays
      BY <1>1, <3>1, <3>3, DaysOfSpan, ClockNumbers DEF span
    <3>5. DayOf(t) - DayOf(now) \in -SearchDays..0 /\ DayOf(now) + (DayOf(t) - DayOf(now)) = DayOf(t)
      BY <1>1, <3>2, <3>4, ClockNumbers
    <3>6. /\ place(t).ahead = DayOf(t) - DayOf(now) /\ place(t).slot = SlotOf(t)
          /\ place(t) \in [ahead : -SearchDays..0, slot : cron.slots]
      BY <3>1, <3>5
    <3> HIDE DEF place
    <3> QED BY <3>1, <3>2, <3>5, <3>6
  <2>2. PICK u \in done : TRUE
    BY <1>9
  <2>3. Found # {}
    BY <2>1, <2>2
  <2>4. /\ last \in Int /\ last <= now /\ SlotOf(last) \in cron.slots
        /\ RunsOn(cron, DateOf(DayOf(last))) /\ last = Instant(DayOf(last), SlotOf(last))
        /\ \A p \in Found : Instant(DayOf(now) + p.ahead, p.slot) <= last
    BY <1>1, <1>2, <2>3, LastRunIsLast
  <2> HIDE DEF Found, place, last
  <2>5. \A t \in done : t <= last
    BY <2>1, <2>4
  <2>6. u \in Int /\ now - span <= u /\ u <= last
    BY <1>5, <2>5
  <2>7. now - span <= last
    BY <1>1, <2>4, <2>6
  <2>8. last \in done
    BY <1>1, <1>6, <2>4, <2>7
  <2> QED BY <1>7, <2>5, <2>8, LeastIsMin
<1> QED BY <1>8, <1>9 DEF later, done, next, last, awake, span

-----------------------------------------------------------------------------
(*                               the checks                                *)

Booking == [state : {"none", "pending", "delivered", "cancelled"}, cron : Crons \cup {OneOff}, due : Int]

ChecksTypes ==
  /\ zone \in Zones /\ now \in Nat /\ hours \in Hours /\ running \in BOOLEAN /\ switching \in BOOLEAN
  /\ work \in {"none", "event", "night"} /\ idle \in 0..PingInterval
  /\ booking \in [Checks -> Booking] /\ handed \in [Checks -> Seq(Int)]

\* How one booking stands, of the runs it was handed over for: nothing before it was made, or a one-off's time came.
Stands(row, runs) ==
  /\ row.state = "none" => row.cron = OneOff
  /\ row.cron = OneOff => /\ row.state \in {"none", "pending"} => runs = <<>>
                          /\ Len(runs) <= 1
  /\ \A i, j \in DOMAIN runs : i < j => runs[i] < runs[j]
  /\ row.state = "pending" /\ row.cron # OneOff =>
       /\ row.due \in Runs(row.cron, 0..(Slots - 1), row.due, row.due)
       /\ \A i \in DOMAIN runs : runs[i] < row.due

ChecksIInv == ChecksTypes /\ \A c \in Checks : Stands(booking[c], handed[c])

LEMMA ChecksKept ==
  ASSUME ChecksIInv
  PROVE  ChecksTypeOK /\ ClockIsRead /\ RunsAreNearest /\ HandedOnce /\ BookedAhead
<1>1. ClockIsRead /\ RunsAreNearest
  BY ClockReads, RunsNearest DEF ChecksIInv, ChecksTypes
<1>2. ASSUME NEW c \in Checks PROVE booking[c] \in Booking /\ handed[c] \in Seq(Int) /\ Stands(booking[c], handed[c])
  BY DEF ChecksIInv, ChecksTypes
<1>3. ChecksTypeOK
  BY <1>2 DEF ChecksIInv, ChecksTypes, ChecksTypeOK, Booking
<1>4. HandedOnce
  BY <1>2 DEF HandedOnce, Stands, Repeats
<1>5. BookedAhead
  BY <1>2 DEF BookedAhead, Stands, Repeats
<1> QED BY <1>1, <1>3, <1>4, <1>5

LEMMA ChecksBegin == ASSUME ChecksInit PROVE ChecksIInv
<1>1. ChecksTypes
  <2>1. NoBooking \in Booking
    BY DEF NoBooking, Booking
  <2>2. booking \in [Checks -> Booking] /\ handed \in [Checks -> Seq(Int)]
    BY <2>1 DEF ChecksInit
  <2>3. now \in Nat /\ idle \in 0..PingInterval
    BY ClockNumbers, ChecksAssumption DEF ChecksInit
  <2> QED BY <2>2, <2>3 DEF ChecksInit, ChecksTypes
<1>2. ASSUME NEW c \in Checks PROVE Stands(booking[c], handed[c])
  <2>1. booking[c] = NoBooking /\ handed[c] = <<>>
    BY DEF ChecksInit
  <2> QED BY <2>1 DEF Stands, NoBooking
<1> QED BY <1>1, <1>2 DEF ChecksIInv

\* What a booking is moved to is a run, later than now.
LEMMA NextIsARun ==
  ASSUME zone \in Zones, now \in Nat, NEW cron \in Crons, NEW accepted \in SUBSET (0..(Slots - 1)),
         NextRun(cron, now, accepted) # NoRun
  PROVE  LET next == NextRun(cron, now, accepted) IN
         next \in Int /\ next > now /\ next \in Runs(cron, 0..(Slots - 1), next, next)
<1> DEFINE next == NextRun(cron, now, accepted)
<1>1. /\ next \in Int /\ next > now /\ SlotOf(next) \in cron.slots \cap accepted
      /\ RunsOn(cron, DateOf(DayOf(next))) /\ next = Instant(DayOf(next), SlotOf(next))
  BY NextRunIsNext
<1> HIDE DEF next
<1>2. next \in next..next
  BY <1>1
<1>3. next \in Runs(cron, 0..(Slots - 1), next, next)
  <2>1. SlotOf(next) \in cron.slots /\ SlotOf(next) \in accepted
    BY <1>1
  <2>2. SlotOf(next) \in 0..(Slots - 1)
    BY <2>1
  <2> QED BY <1>1, <1>2, <2>1, <2>2 DEF Runs
<1> QED BY <1>1, <1>3 DEF next

\* The last run is not before a run that was due, however long ago it was.
LEMMA LastIsNoEarlier ==
  ASSUME zone \in Zones, now \in Nat, NEW cron \in Crons, NEW due \in Int, due <= now,
         due \in Runs(cron, 0..(Slots - 1), due, due), LastRun(cron, now) # NoRun
  PROVE  LastRun(cron, now) \in Int /\ due <= LastRun(cron, now) /\ LastRun(cron, now) <= now
<1> DEFINE Found == {p \in [ahead : -SearchDays..0, slot : cron.slots] :
                       /\ RunsOn(cron, DateOf(DayOf(now) + p.ahead))
                       /\ Happens(DayOf(now) + p.ahead, p.slot)
                       /\ Instant(DayOf(now) + p.ahead, p.slot) <= now}
           last == LastRun(cron, now)
           place == [ahead |-> DayOf(due) - DayOf(now), slot |-> SlotOf(due)]
<1>1. cron.slots \subseteq 0..(Slots - 1) /\ now \in Int
  BY ChecksAssumption
<1>2. /\ Found = {} => last = NoRun
      /\ Found # {} =>
            /\ last \in Int /\ last <= now /\ SlotOf(last) \in cron.slots /\ DayOf(last) >= DayOf(now) - SearchDays
            /\ RunsOn(cron, DateOf(DayOf(last))) /\ last = Instant(DayOf(last), SlotOf(last))
            /\ \A p \in Found : Instant(DayOf(now) + p.ahead, p.slot) <= last
  BY <1>1, LastRunIsLast
<1>3. /\ SlotOf(due) \in cron.slots /\ RunsOn(cron, DateOf(DayOf(due))) /\ due = Instant(DayOf(due), SlotOf(due))
      /\ DayOf(due) \in Int /\ Happens(DayOf(due), SlotOf(due)) /\ DayOf(now) \in Int /\ DayOf(due) <= DayOf(now)
  BY <1>1, ShownIsPlace, DaysGoOn DEF Runs
<1>4. ASSUME DayOf(due) >= DayOf(now) - SearchDays PROVE place \in Found /\ due = Instant(DayOf(now) + place.ahead, place.slot)
  <2>1. DayOf(due) - DayOf(now) \in -SearchDays..0 /\ DayOf(now) + (DayOf(due) - DayOf(now)) = DayOf(due)
    BY <1>3, <1>4, ClockNumbers
  <2>2. /\ place.ahead = DayOf(due) - DayOf(now) /\ place.slot = SlotOf(due)
        /\ place \in [ahead : -SearchDays..0, slot : cron.slots]
    BY <1>3, <2>1
  <2> HIDE DEF place
  <2> QED BY <1>3, <2>1, <2>2
<1> HIDE DEF Found, place
<1>5. last # NoRun
  OBVIOUS
<1> HIDE DEF last
<1>6. Found # {} /\ last \in Int /\ last <= now /\ DayOf(last) >= DayOf(now) - SearchDays
  BY <1>2, <1>5
<1>7. due <= last
  <2>1. CASE DayOf(due) >= DayOf(now) - SearchDays
    BY <1>2, <1>4, <1>6, <2>1
  <2>2. CASE DayOf(due) < DayOf(now) - SearchDays
    <3>1. DayOf(last) \in Int /\ DayOf(due) < DayOf(last)
      <4>1. DayOf(last) \in Int
        BY <1>6, ShownIsPlace
      <4>2. DayOf(due) \in Int /\ DayOf(now) \in Int /\ SearchDays \in Int
        BY <1>3, ClockNumbers
      <4>3. DayOf(due) < DayOf(last)
        BY <4>1, <4>2, <1>6, <2>2
      <4> QED BY <4>1, <4>3
    <3>2. ~(last <= due)
      BY <1>3, <1>6, <3>1, DaysGoOn
    <3> QED BY <1>6, <3>2
  <2> QED BY <1>3, <2>1, <2>2, ClockNumbers
<1> QED BY <1>6, <1>7 DEF last

LEMMA AwakeAreSlots == ASSUME NEW h PROVE AwakeSlots(h) \in SUBSET (0..(Slots - 1))
  BY DEF AwakeSlots

\* What advance() makes of a booking that repeats: a later run of it, or it is cancelled.
LEMMA AdvancedLater ==
  ASSUME zone \in Zones, now \in Nat, NEW row \in Booking, row.cron \in Crons
  PROVE  /\ Advanced(row) \in Booking /\ Advanced(row).cron = row.cron
         /\ \/ Advanced(row).state = "cancelled"
            \/ /\ Advanced(row).state = row.state /\ Advanced(row).due > now
               /\ Advanced(row).due \in Runs(row.cron, 0..(Slots - 1), Advanced(row).due, Advanced(row).due)
<1> DEFINE inHours == NextRun(row.cron, now, AwakeSlots(hours))
           whole   == NextRun(row.cron, now, 0..(Slots - 1))
           next    == IF inHours # NoRun THEN inHours ELSE whole
<1>1. Advanced(row) = IF next = NoRun THEN [row EXCEPT !.state = "cancelled"] ELSE [row EXCEPT !.due = next]
  BY DEF Advanced
<1>2. ASSUME next # NoRun
      PROVE  next \in Int /\ next > now /\ next \in Runs(row.cron, 0..(Slots - 1), next, next)
  <2>1. CASE inHours # NoRun
    BY <2>1, NextIsARun, AwakeAreSlots
  <2>2. CASE inHours = NoRun
    <3>1. whole # NoRun /\ next = whole
      BY <1>2, <2>2
    <3>2. 0..(Slots - 1) \in SUBSET (0..(Slots - 1))
      OBVIOUS
    <3> HIDE DEF inHours
    <3> QED BY <3>1, <3>2, NextIsARun
  <2> QED BY <2>1, <2>2
<1> HIDE DEF next, inHours, whole
<1>3. CASE next = NoRun
  BY <1>1, <1>3 DEF Booking
<1>4. CASE next # NoRun
  BY <1>1, <1>2, <1>4 DEF Booking
<1> QED BY <1>3, <1>4

\* A look at the clock hands over, moves on or leaves a booking, and it stands as it should.
LEMMA LookKeeps ==
  ASSUME ChecksIInv, NEW c \in Checks
  PROVE  LET runs == IF c \in Given THEN Append(handed[c], RunOf(c)) ELSE handed[c] IN
         MovedOn(c) \in Booking /\ runs \in Seq(Int) /\ Stands(MovedOn(c), runs)
<1> DEFINE row == booking[c]
           old == handed[c]
           run == RunOf(c)
           runs == IF c \in Given THEN Append(old, run) ELSE old
<1> SUFFICES MovedOn(c) \in Booking /\ runs \in Seq(Int) /\ Stands(MovedOn(c), runs)
  OBVIOUS
<1>1. zone \in Zones /\ now \in Nat /\ row \in Booking /\ old \in Seq(Int) /\ Stands(row, old)
  BY DEF ChecksIInv, ChecksTypes
<1>2. /\ c \in DueNow <=> row.state = "pending" /\ row.due <= now
      /\ Repeats(c) <=> row.cron # OneOff
      /\ c \in Given => c \in DueNow
  BY DEF DueNow, Repeats, Given
<1>3. row.cron \in Crons \cup {OneOff} /\ row.due \in Int
  BY <1>1 DEF Booking
<1>4. CASE c \notin DueNow
  <2>1. MovedOn(c) = row /\ c \notin Given
    BY <1>2, <1>4 DEF MovedOn
  <2> QED BY <1>1, <2>1
<1>5. CASE c \in Given /\ ~Repeats(c)
  <2> DEFINE new == [row EXCEPT !.state = "delivered"]
  <2>1. MovedOn(c) = new /\ run = row.due /\ runs = Append(old, row.due)
    BY <1>5 DEF MovedOn, RunOf
  <2>2. new \in Booking /\ new.state = "delivered" /\ new.cron = row.cron
    BY <1>1 DEF Booking
  <2>3. old = <<>>
    BY <1>1, <1>2, <1>5 DEF Stands
  <2>4. Append(old, row.due) \in Seq(Int) /\ Len(Append(old, row.due)) = 1
    BY <1>1, <1>3, <2>3, AppendProperties
  <2> HIDE DEF new, row, old, run, runs
  <2>5. Stands(new, Append(old, row.due))
    <3>1. DOMAIN Append(old, row.due) = 1..1
      BY <2>4, LenProperties
    <3>2. \A i, j \in DOMAIN Append(old, row.due) : ~(i < j)
      BY <3>1
    <3> QED BY <2>2, <2>4, <3>2 DEF Stands
  <2> QED BY <1>5, <2>1, <2>2, <2>4, <2>5
<1>6. CASE c \in DueNow /\ Repeats(c)
  <2>1. row.cron \in Crons
    BY <1>2, <1>3, <1>6
  <2> DEFINE new == Advanced(row)
  <2>2. MovedOn(c) = new
    BY <1>6 DEF MovedOn
  <2>3. /\ new \in Booking /\ new.cron = row.cron
        /\ \/ new.state = "cancelled"
           \/ /\ new.state = row.state /\ new.due > now
              /\ new.due \in Runs(row.cron, 0..(Slots - 1), new.due, new.due)
    BY <1>1, <2>1, AdvancedLater
  <2>4. /\ row.due \in Runs(row.cron, 0..(Slots - 1), row.due, row.due) /\ row.due <= now /\ row.state = "pending"
        /\ row.cron # OneOff
        /\ \A i \in DOMAIN old : old[i] < row.due
        /\ \A i, j \in DOMAIN old : i < j => old[i] < old[j]
    BY <1>1, <1>2, <1>6 DEF Stands
  <2>5. new.due \in Int
    BY <2>3 DEF Booking
  <2>6. \A i \in DOMAIN old : old[i] \in Int
    BY <1>1
  <2>7. CASE c \notin Given
    <3>1. runs = old
      BY <2>7
    <3> HIDE DEF new, row, old, run
    <3>2. new.state = "pending" => \A i \in DOMAIN old : old[i] < new.due
      BY <1>1, <1>3, <2>3, <2>4, <2>5, <2>6
    <3>3. Stands(new, old)
      BY <2>3, <2>4, <3>2 DEF Stands
    <3> QED BY <1>1, <2>2, <2>3, <2>7, <3>1, <3>3
  <2>8. CASE c \in Given
    <3>1. run = LastRun(row.cron, now) /\ run # NoRun /\ runs = Append(old, run)
      BY <1>6, <2>8 DEF Given, RunOf
    <3>2. run \in Int /\ row.due <= run /\ run <= now
      BY <1>1, <1>3, <2>1, <2>4, <3>1, LastIsNoEarlier
    <3> HIDE DEF new, row, old, run
    <3>3. /\ Append(old, run) \in Seq(Int) /\ DOMAIN Append(old, run) = 1..(Len(old) + 1) /\ DOMAIN old = 1..Len(old)
          /\ Len(old) \in Nat /\ Append(old, run)[Len(old) + 1] = run
          /\ \A i \in 1..Len(old) : Append(old, run)[i] = old[i]
      BY <1>1, <3>2, AppendProperties, LenProperties
    <3>4. ASSUME NEW i \in DOMAIN Append(old, run) PROVE Append(old, run)[i] \in Int /\ Append(old, run)[i] <= run
      <4>1. CASE i = Len(old) + 1
        BY <3>2, <3>3, <4>1
      <4>2. CASE i \in 1..Len(old)
        BY <1>3, <2>4, <2>6, <3>2, <3>3, <4>2
      <4> QED BY <3>3, <4>1, <4>2
    <3>5. ASSUME NEW i \in DOMAIN Append(old, run), NEW j \in DOMAIN Append(old, run), i < j
          PROVE  Append(old, run)[i] < Append(old, run)[j]
      <4>1. i \in 1..Len(old) /\ j \in 1..(Len(old) + 1)
        BY <3>3, <3>5
      <4>2. CASE j = Len(old) + 1
        BY <1>3, <2>4, <2>6, <3>2, <3>3, <4>1, <4>2
      <4>3. CASE j \in 1..Len(old)
        BY <2>4, <3>3, <3>5, <4>1, <4>3
      <4> QED BY <3>3, <4>1, <4>2, <4>3
    <3>6. new.state = "pending" => \A i \in DOMAIN Append(old, run) : Append(old, run)[i] < new.due
      <4>1. new.state = "pending" => run < new.due
        BY <1>1, <2>3, <2>4, <2>5, <3>2
      <4> QED BY <2>5, <3>2, <3>4, <4>1
    <3>7. Stands(new, Append(old, run))
      BY <2>3, <2>4, <3>5, <3>6 DEF Stands
    <3> QED BY <2>2, <2>3, <2>8, <3>1, <3>3, <3>7
  <2> QED BY <2>7, <2>8
<1>7. CASE c \in DueNow /\ ~Repeats(c) /\ c \notin Given
  <2>1. MovedOn(c) = row /\ runs = old
    BY <1>7 DEF MovedOn
  <2> QED BY <1>1, <1>7, <2>1
<1> QED BY <1>2, <1>4, <1>5, <1>6, <1>7

\* One booking is written, the rest stand.
LEMMA BookingWritten ==
  ASSUME ChecksIInv, NEW c \in Checks, NEW row \in Booking, booking' = [booking EXCEPT ![c] = row], Stands(row, handed[c]),
         UNCHANGED <<zone, now, handed, hours, running, work, idle, switching>>
  PROVE  ChecksIInv'
<1>1. ChecksTypes'
  BY DEF ChecksIInv, ChecksTypes
<1>2. ASSUME NEW d \in Checks PROVE Stands(booking[d], handed[d])'
  <2>1. CASE d = c
    <3>1. booking'[d] = row /\ handed'[d] = handed[c]
      BY <2>1 DEF ChecksIInv, ChecksTypes
    <3>2. Stands(booking'[d], handed'[d])
      BY <3>1
    <3> QED BY <3>2 DEF Stands, Runs, SlotOf, DayOf, Instant, LocalOf, Offset
  <2>2. CASE d # c
    <3>1. booking'[d] = booking[d] /\ handed'[d] = handed[d] /\ Stands(booking[d], handed[d])
      BY <2>2 DEF ChecksIInv, ChecksTypes
    <3> QED BY <3>1, SMTT(30) DEF Stands, Runs, SlotOf, DayOf, Instant, LocalOf, Offset
  <2> QED BY <2>1, <2>2
<1> QED BY <1>1, <1>2 DEF ChecksIInv

\* Nothing of the bookings is written.
LEMMA BookingsStand ==
  ASSUME ChecksIInv, UNCHANGED <<zone, booking, handed>>, now' \in Nat, hours' \in Hours, running' \in BOOLEAN,
         switching' \in BOOLEAN, work' \in {"none", "event", "night"}, idle' \in 0..PingInterval
  PROVE  ChecksIInv'
<1>1. ChecksTypes'
  BY DEF ChecksIInv, ChecksTypes
<1>2. ASSUME NEW d \in Checks PROVE Stands(booking[d], handed[d])'
  <2>1. booking'[d] = booking[d] /\ handed'[d] = handed[d] /\ Stands(booking[d], handed[d])
    BY DEF ChecksIInv
  <2> QED BY <2>1 DEF Stands, Runs, SlotOf, DayOf, Instant, LocalOf, Offset
<1> QED BY <1>1, <1>2 DEF ChecksIInv

LEMMA ChecksStep ==
  ASSUME ChecksIInv, [ChecksNext]_checkVars
  PROVE  ChecksIInv'
<1>0. /\ zone \in Zones /\ now \in Nat /\ hours \in Hours /\ running \in BOOLEAN /\ switching \in BOOLEAN
      /\ work \in {"none", "event", "night"} /\ idle \in 0..PingInterval
      /\ booking \in [Checks -> Booking] /\ handed \in [Checks -> Seq(Int)]
      /\ \A c \in Checks : Stands(booking[c], handed[c]) /\ booking[c] \in Booking
  BY DEF ChecksIInv, ChecksTypes
<1>n. PingInterval \in Nat /\ 0 \in 0..PingInterval /\ MaxTime \in Nat
  BY ChecksAssumption
<1>1. ASSUME NEW c \in Checks, NEW delay \in Delays, BookOnce(c, now + delay) PROVE ChecksIInv'
  <2> DEFINE row == [state |-> "pending", cron |-> OneOff, due |-> now + delay]
  <2>1. row \in Booking /\ row.state = "pending" /\ row.cron = OneOff
    BY <1>0, ChecksAssumption DEF Booking
  <2>2. handed[c] = <<>>
    BY <1>0, <1>1 DEF BookOnce, Stands
  <2>3. booking' = [booking EXCEPT ![c] = row]
    BY <1>1 DEF BookOnce
  <2>4. UNCHANGED <<zone, now, handed, hours, running, work, idle, switching>>
    BY <1>1 DEF BookOnce
  <2> HIDE DEF row
  <2>5. Stands(row, handed[c])
    BY <2>1, <2>2 DEF Stands
  <2> QED BY <2>1, <2>3, <2>4, <2>5, BookingWritten
<1>2. ASSUME NEW c \in Checks, NEW cron \in Crons, BookCron(c, cron) PROVE ChecksIInv'
  <2> DEFINE next == NextRun(cron, now, AwakeSlots(hours))
             row == [state |-> "pending", cron |-> cron, due |-> next]
  <2>1. next # NoRun /\ booking' = [booking EXCEPT ![c] = row] /\ booking[c].state = "none"
    BY <1>2 DEF BookCron
  <2>2. next \in Int /\ next \in Runs(cron, 0..(Slots - 1), next, next)
    BY <1>0, <2>1, NextIsARun, AwakeAreSlots
  <2>3. UNCHANGED <<zone, now, handed, hours, running, work, idle, switching>>
    BY <1>2 DEF BookCron
  <2> HIDE DEF next
  <2>4. handed[c] = <<>>
    BY <1>0, <2>1 DEF Stands
  <2>5. row \in Booking /\ row.state = "pending" /\ row.cron = cron /\ row.due = next /\ cron # OneOff
    BY <2>2, ChecksAssumption DEF Booking
  <2> HIDE DEF row
  <2>6. Stands(row, handed[c])
    BY <2>2, <2>4, <2>5 DEF Stands
  <2> QED BY <2>1, <2>3, <2>5, <2>6, BookingWritten
<1>3. ASSUME NEW c \in Checks, CancelCheck(c) PROVE ChecksIInv'
  <2> DEFINE row == [booking[c] EXCEPT !.state = "cancelled"]
  <2>1. row \in Booking /\ row.state = "cancelled" /\ row.cron = booking[c].cron
    BY <1>0 DEF Booking
  <2>2. booking' = [booking EXCEPT ![c] = row]
    BY <1>0, <1>3 DEF CancelCheck
  <2>3. UNCHANGED <<zone, now, handed, hours, running, work, idle, switching>>
    BY <1>3 DEF CancelCheck
  <2> HIDE DEF row
  <2>4. Stands(row, handed[c])
    BY <1>0, <2>1 DEF Stands
  <2> QED BY <2>1, <2>2, <2>3, <2>4, BookingWritten
<1>4. CASE LooksAtClock
  <2>1. /\ zone' = zone /\ now' = now /\ hours' = hours /\ running' = running /\ idle' = idle
        /\ switching' \in BOOLEAN
    BY <1>0, <1>4 DEF LooksAtClock
  <2>2. work' \in {"none", "event", "night"}
    BY <1>0, <1>4 DEF LooksAtClock
  <2>3. \/ booking' = booking /\ handed' = handed
        \/ /\ booking' = [c \in Checks |-> MovedOn(c)]
           /\ handed' = [c \in Checks |-> IF c \in Given THEN Append(handed[c], RunOf(c)) ELSE handed[c]]
    BY <1>4 DEF LooksAtClock
  <2>4. CASE booking' = booking /\ handed' = handed
    BY <1>0, <2>1, <2>2, <2>4, BookingsStand
  <2>5. CASE /\ booking' = [c \in Checks |-> MovedOn(c)]
             /\ handed' = [c \in Checks |-> IF c \in Given THEN Append(handed[c], RunOf(c)) ELSE handed[c]]
    <3> DEFINE runs(c) == IF c \in Given THEN Append(handed[c], RunOf(c)) ELSE handed[c]
    <3>1. \A c \in Checks : booking'[c] = MovedOn(c) /\ handed'[c] = runs(c)
      BY <2>5
    <3>2. \A c \in Checks : MovedOn(c) \in Booking /\ runs(c) \in Seq(Int) /\ Stands(MovedOn(c), runs(c))
      BY LookKeeps
    <3>3. handed' = [c \in Checks |-> runs(c)]
      BY <2>5
    <3> HIDE DEF runs
    <3>4. booking' \in [Checks -> Booking] /\ handed' \in [Checks -> Seq(Int)]
      BY <2>5, <3>2, <3>3
    <3>5. ChecksTypes'
      BY <1>0, <2>1, <2>2, <3>4 DEF ChecksTypes, Zones
    <3>6. ASSUME NEW c \in Checks PROVE Stands(booking[c], handed[c])'
      <4>1. Stands(booking'[c], handed'[c])
        BY <3>1, <3>2
      <4> QED BY <2>1, <4>1 DEF Stands, Runs, SlotOf, DayOf, Instant, LocalOf, Offset
    <3> QED BY <3>5, <3>6 DEF ChecksIInv
  <2> QED BY <2>3, <2>4, <2>5
<1>5. CASE TimePasses
  <2>1. idle' \in 0..PingInterval
    <3>1. {idle + 1, PingInterval} \in SUBSET Int /\ idle + 1 \in 0..(PingInterval + 1)
      BY <1>0, <1>n
    <3>2. idle' = Min({idle + 1, PingInterval})
      BY <1>5 DEF TimePasses
    <3> DEFINE both == {idle + 1, PingInterval}
    <3>3. CASE idle + 1 <= PingInterval
      <4>1. idle + 1 \in both /\ \A y \in both : idle + 1 <= y
        BY <1>n, <3>1, <3>3
      <4>2. Min(both) = idle + 1
        BY <3>1, <4>1, LeastIsMin
      <4> QED BY <1>n, <3>1, <3>2, <3>3, <4>2
    <3>4. CASE ~(idle + 1 <= PingInterval)
      <4>1. PingInterval \in both /\ \A y \in both : PingInterval <= y
        BY <1>n, <3>1, <3>4
      <4>2. Min(both) = PingInterval
        BY <3>1, <4>1, LeastIsMin
      <4> QED BY <1>n, <3>2, <4>2
    <3> QED BY <3>3, <3>4
  <2>2. now' \in Nat /\ UNCHANGED <<zone, booking, handed, hours, running, work, switching>>
    BY <1>0, <1>5 DEF TimePasses
  <2> QED BY <1>0, <2>1, <2>2, BookingsStand
<1>6. CASE OwnerWrites
  BY <1>0, <1>n, <1>6, BookingsStand DEF OwnerWrites
<1>7. CASE EventEnds
  <2>1. work' \in {"none", "event", "night"}
    BY <1>7 DEF EventEnds
  <2> QED BY <1>0, <1>n, <1>7, <2>1, BookingsStand DEF EventEnds
<1>8. CASE SchedulerStops
  BY <1>0, <1>n, <1>8, BookingsStand DEF SchedulerStops
<1>9. CASE SchedulerStarts
  BY <1>0, <1>n, <1>9, BookingsStand DEF SchedulerStarts
<1>10. ASSUME NEW switched \in BOOLEAN, NightOver(switched) PROVE ChecksIInv'
  BY <1>0, <1>n, <1>10, BookingsStand DEF NightOver
<1>11. ASSUME NEW h \in Hours, ChangeHours(h) PROVE ChecksIInv'
  BY <1>0, <1>n, <1>11, BookingsStand DEF ChangeHours
<1>12. CASE UNCHANGED checkVars
  BY <1>0, <1>12, BookingsStand DEF checkVars
<1> QED BY <1>1, <1>2, <1>3, <1>4, <1>5, <1>6, <1>7, <1>8, <1>9, <1>10, <1>11, <1>12 DEF ChecksNext

\* The inductive invariant of the checks: their types, and how each booking stands with the runs it was handed over for.
THEOREM ChecksInvariant == ChecksSpec => []ChecksIInv
<1>1. ChecksInit => ChecksIInv
  BY ChecksBegin
<1>2. ChecksIInv /\ [ChecksNext]_checkVars => ChecksIInv'
  BY ChecksStep
<1> QED BY <1>1, <1>2, PTL DEF ChecksSpec

\* The clock is read rightly through its moves: a time it shows is found again, and the nearest runs are the ones that
\* nextRun() and lastRun() find; and each booking is handed over once for each of its runs and booked ahead of them.
THEOREM ChecksAreSafe == ChecksSpec => []ChecksSafety
<1>1. ChecksIInv => ChecksSafety
  BY ChecksKept DEF ChecksSafety
<1> QED BY <1>1, ChecksInvariant, PTL

\* The variables of the checks hold what they are declared to hold (the part of TypesOK that is about them).
THEOREM ChecksTyped == ChecksSpec => []ChecksTypeOK
<1>1. ChecksIInv => ChecksTypeOK
  BY ChecksKept
<1> QED BY <1>1, ChecksInvariant, PTL
-----------------------------------------------------------------------------
(***************************************************************************)
(* The output of a command, proved for any characters, any cap and writes  *)
(* of any sizes: what is kept is the two ends of what was written, within  *)
(* the cap and cut between characters, and the bytes said to be left out,  *)
(* by the runner and by the server together, are those not shown.          *)
(* The inductive invariant says where the head and the tail are in the     *)
(* output.  Bytes() puts sequences together one by one (FlattenSeq), so    *)
(* what it lays out is proved by induction: a set of the numbers the claim *)
(* holds for, which has 0 and the next of each it has (AllNumbers).        *)
(***************************************************************************)

\* A set of numbers that has 0, and the next of each it has, has all of them: induction, said of a set.
LEMMA AllNumbers ==
  ASSUME NEW S, 0 \in S, \A n \in Nat : n \in S => n + 1 \in S
  PROVE  \A n \in Nat : n \in S
<1> SUFFICES ASSUME Nat \ S # {} PROVE FALSE
  OBVIOUS
<1>1. PICK x \in Nat \ S : \A y \in Nat \ S : x <= y
  BY Least
<1>2. x # 0
  OBVIOUS
<1>3. x - 1 \in Nat /\ ~ (x <= x - 1)
  BY <1>2
<1>4. x - 1 \in S
  BY <1>1, <1>3
<1>5. (x - 1) + 1 \in S /\ (x - 1) + 1 = x
  BY <1>3, <1>4
<1> QED BY <1>5

-----------------------------------------------------------------------------
(*                          stretches of a sequence                        *)

\* What is in w after a places up to b, and a part of a sequence by its own places.
Stretch(w, a, b) == SubSeq(w, a + 1, b)
Part(s, c, d) == SubSeq(s, c, d)

LEMMA StretchIs ==
  ASSUME NEW S, NEW w \in Seq(S), NEW a \in Nat, NEW b \in Nat, a <= b, b <= Len(w)
  PROVE  /\ Stretch(w, a, b) \in Seq(S) /\ Len(Stretch(w, a, b)) = b - a
         /\ \A i \in 1..(b - a) : Stretch(w, a, b)[i] = w[a + i]
<1>1. \A k \in (a + 1)..b : w[k] \in S
  OBVIOUS
<1> DEFINE s == SubSeq(w, a + 1, b)
<1>2. /\ s \in Seq(S) /\ Len(s) = IF a + 1 <= b THEN b - (a + 1) + 1 ELSE 0
      /\ \A i \in 1..(b - (a + 1) + 1) : s[i] = w[(a + 1) + i - 1]
  BY <1>1, SubSeqProperties
<1> HIDE DEF s
<1>3. Len(s) = b - a
  BY <1>2
<1>4. \A i \in 1..(b - a) : s[i] = w[a + i]
  BY <1>2
<1> QED BY <1>2, <1>3, <1>4 DEF s, Stretch

\* A part of a stretch, by where it is in the whole.
LEMMA StretchOfStretch ==
  ASSUME NEW S, NEW w \in Seq(S), NEW a \in Nat, NEW b \in Nat, NEW x \in Nat, NEW y \in Nat,
         a <= x, x <= y, y <= b, b <= Len(w),
         NEW c \in Nat, NEW d \in Nat, a + c >= x + 1, a + c <= x + 1, a + d >= y, a + d <= y
  PROVE  Part(Stretch(w, a, b), c, d) = Stretch(w, x, y)
<1> DEFINE s == Stretch(w, a, b)
           t == Stretch(w, x, y)
           u == SubSeq(s, c, d)
<1>1. s \in Seq(S) /\ Len(s) = b - a /\ \A i \in 1..(b - a) : s[i] = w[a + i]
  <2>1. a <= b
    OBVIOUS
  <2> QED BY <2>1, StretchIs
<1>2. /\ t \in Seq(S) /\ Len(t) = y - x /\ \A i \in 1..(y - x) : t[i] = w[x + i]
  <2>1. y <= Len(w)
    OBVIOUS
  <2> QED BY <2>1, StretchIs, ZenonT(30)
<1> HIDE DEF s, t
<1>3. /\ u \in Seq(S) /\ Len(u) = IF c <= d THEN d - c + 1 ELSE 0
      /\ \A i \in 1..(d - c + 1) : u[i] = s[c + i - 1]
  <2>1. \A k \in c..d : s[k] \in S
    BY <1>1
  <2>2. c \in Int /\ d \in Int
    OBVIOUS
  <2> QED BY <2>1, <2>2, SubSeqProperties
<1> HIDE DEF u
<1>4. Len(u) = y - x /\ d - c + 1 = y - x
  BY <1>3
<1>5. ASSUME NEW i \in 1..(y - x) PROVE u[i] = t[i]
  <2>1. c + i - 1 \in 1..(b - a) /\ a + (c + i - 1) = x + i
    OBVIOUS
  <2>2. s[c + i - 1] = w[x + i]
    BY <1>1, <2>1
  <2> QED BY <1>2, <1>3, <1>4, <2>2
<1>6. u = t
  BY <1>2, <1>3, <1>4, <1>5, SeqEqual
<1> QED BY <1>6 DEF s, t, u, Part

\* The last n of a stretch.
LEMMA LatestOfStretch ==
  ASSUME NEW S, NEW w \in Seq(S), NEW a \in Nat, NEW b \in Nat, NEW n \in Nat, a <= b, b <= Len(w)
  PROVE  Latest(Stretch(w, a, b), n) = Stretch(w, b - Smaller(n, b - a), b)
<1> DEFINE k == Smaller(n, b - a)
           x == b - k
           l == b - a
           c == l - k + 1
<1>1. k \in Nat /\ k <= b - a
  BY DEF Smaller
<1> HIDE DEF k
<1>2. l \in Nat /\ x \in Nat /\ c \in Nat
  BY <1>1
<1>3. Len(Stretch(w, a, b)) = l
  BY StretchIs
<1>4. a <= x /\ x <= b /\ b <= b /\ a + c >= x + 1 /\ a + c <= x + 1 /\ a + l >= b /\ a + l <= b
  BY <1>1, <1>2
<1>5. Latest(Stretch(w, a, b), n) = SubSeq(Stretch(w, a, b), c, l)
  <2>1. Latest(Stretch(w, a, b), n) =
          SubSeq(Stretch(w, a, b), Len(Stretch(w, a, b)) - Smaller(n, Len(Stretch(w, a, b))) + 1, Len(Stretch(w, a, b)))
    BY DEF Latest
  <2> QED BY <1>3, <2>1 DEF k
<1> HIDE DEF l, x, c
<1>6. Part(Stretch(w, a, b), c, l) = Stretch(w, x, b)
  BY <1>2, <1>4, StretchOfStretch
<1> QED BY <1>5, <1>6 DEF x, k, Part

-----------------------------------------------------------------------------
(*                      the bytes of some characters                       *)

\* FlattenSeq() as it goes through the sequences: what it has put together by each of them.
Flattens(f, seqs, n) == f = [i \in 1..n |-> IF i = 1 THEN seqs[i] ELSE f[i - 1] \o seqs[i]]

\* There is one way to go, it goes on by a sequence, and FlattenSeq() is where it ends.
LEMMA FlattensOnce ==
  ASSUME NEW f, NEW g, NEW seqs, NEW n \in Nat, Flattens(f, seqs, n), Flattens(g, seqs, n)
  PROVE  f = g
<1> DEFINE S == {i \in Nat : i \in 1..n => f[i] = g[i]}
<1>1. 0 \in S
  OBVIOUS
<1>2. ASSUME NEW i \in Nat, i \in S, i + 1 \in 1..n PROVE f[i + 1] = g[i + 1]
  <2>1. /\ f[i + 1] = IF i + 1 = 1 THEN seqs[i + 1] ELSE f[(i + 1) - 1] \o seqs[i + 1]
        /\ g[i + 1] = IF i + 1 = 1 THEN seqs[i + 1] ELSE g[(i + 1) - 1] \o seqs[i + 1]
    BY <1>2 DEF Flattens
  <2>2. CASE i = 0
    BY <2>1, <2>2
  <2>3. CASE i # 0
    <3>1. i \in 1..n /\ (i + 1) - 1 = i
      BY <1>2, <2>3
    <3> QED BY <1>2, <2>1, <2>3, <3>1
  <2> QED BY <2>2, <2>3
<1>3. \A i \in Nat : i \in S => i + 1 \in S
  BY <1>2
<1> HIDE DEF S
<1>4. \A i \in Nat : i \in S
  BY <1>1, <1>3, AllNumbers
<1>5. \A i \in 1..n : f[i] = g[i]
  BY <1>4 DEF S
<1>6. f = [i \in 1..n |-> f[i]] /\ g = [i \in 1..n |-> g[i]]
  <2>1. f = [i \in 1..n |-> IF i = 1 THEN seqs[i] ELSE f[i - 1] \o seqs[i]]
    BY DEF Flattens
  <2>2. g = [i \in 1..n |-> IF i = 1 THEN seqs[i] ELSE g[i - 1] \o seqs[i]]
    BY DEF Flattens
  <2>3. ASSUME NEW e, NEW h, h = [i \in 1..n |-> e[i]] PROVE h = [i \in 1..n |-> h[i]]
    BY <2>3
  <2>4. DOMAIN f = 1..n /\ DOMAIN g = 1..n
    BY <2>1, <2>2
  <2> DEFINE ef == [i \in 1..n |-> IF i = 1 THEN seqs[i] ELSE f[i - 1] \o seqs[i]]
             eg == [i \in 1..n |-> IF i = 1 THEN seqs[i] ELSE g[i - 1] \o seqs[i]]
  <2>5. ef = [i \in 1..n |-> ef[i]] /\ eg = [i \in 1..n |-> eg[i]]
    OBVIOUS
  <2>6. f = ef /\ g = eg
    BY <2>1, <2>2
  <2> HIDE DEF ef, eg
  <2> QED BY <2>5, <2>6
<1> QED BY <1>5, <1>6

LEMMA FlattensOn ==
  ASSUME NEW f, NEW seqs, NEW n \in Nat, Flattens(f, seqs, n), NEW more, \A i \in 1..n : more[i] = seqs[i]
  PROVE  LET g == [i \in 1..(n + 1) |-> IF i = n + 1 THEN (IF n = 0 THEN more[n + 1] ELSE f[n] \o more[n + 1]) ELSE f[i]] IN
         Flattens(g, more, n + 1)
<1> DEFINE g == [i \in 1..(n + 1) |-> IF i = n + 1 THEN (IF n = 0 THEN more[n + 1] ELSE f[n] \o more[n + 1]) ELSE f[i]]
           next == [i \in 1..(n + 1) |-> IF i = 1 THEN more[i] ELSE g[i - 1] \o more[i]]
<1>1. ASSUME NEW i \in 1..(n + 1) PROVE g[i] = next[i]
  <2>1. CASE i = n + 1 /\ n = 0
    BY <2>1
  <2>2. CASE i = n + 1 /\ n # 0
    <3>1. i - 1 = n /\ n \in 1..(n + 1) /\ n # n + 1 /\ i # 1
      BY <2>2
    <3>2. g[i - 1] = f[n]
      BY <3>1
    <3> QED BY <2>2, <3>1, <3>2
  <2>3. CASE i # n + 1 /\ i = 1
    <3>1. i \in 1..n
      BY <2>3
    <3>2. f[i] = seqs[i]
      BY <2>3, <3>1 DEF Flattens
    <3> QED BY <2>3, <3>1, <3>2
  <2>4. CASE i # n + 1 /\ i # 1
    <3>1. i \in 1..n /\ i - 1 \in 1..(n + 1) /\ i - 1 # n + 1
      BY <2>4
    <3>2. f[i] = f[i - 1] \o seqs[i]
      BY <2>4, <3>1 DEF Flattens
    <3>3. g[i - 1] = f[i - 1]
      BY <3>1
    <3> QED BY <2>4, <3>1, <3>2, <3>3
  <2> QED BY <2>1, <2>2, <2>3, <2>4
<1>2. g = [i \in 1..(n + 1) |-> g[i]] /\ next = [i \in 1..(n + 1) |-> next[i]]
  OBVIOUS
<1> HIDE DEF g
<1>3. g = next
  <2> HIDE DEF next
  <2> QED BY <1>1, <1>2
<1>4. Flattens(g, more, n + 1)
  BY <1>3 DEF Flattens
<1> QED BY <1>4 DEF g

LEMMA FlattensAll ==
  ASSUME NEW seqs
  PROVE  \A n \in Nat : \E f : Flattens(f, seqs, n)
<1> DEFINE S == {n \in Nat : \E f : Flattens(f, seqs, n)}
<1>1. 0 \in S
  <2>1. Flattens([i \in 1..0 |-> 0], seqs, 0)
    BY DEF Flattens
  <2> QED BY <2>1
<1>2. ASSUME NEW n \in Nat, n \in S PROVE n + 1 \in S
  <2>1. PICK f : Flattens(f, seqs, n)
    BY <1>2
  <2>2. \E g : Flattens(g, seqs, n + 1)
    BY <2>1, FlattensOn
  <2> QED BY <2>2
<1>3. \A n \in Nat : n \in S => n + 1 \in S
  BY <1>2
<1> HIDE DEF S
<1>4. \A n \in Nat : n \in S
  BY <1>1, <1>3, AllNumbers
<1> QED BY <1>4 DEF S

LEMMA FlattenedBy ==
  ASSUME NEW seqs, Len(seqs) \in Nat, NEW f, Flattens(f, seqs, Len(seqs))
  PROVE  FlattenSeq(seqs) = IF Len(seqs) = 0 THEN seqs ELSE f[Len(seqs)]
<1> DEFINE g == CHOOSE h : h = [i \in 1..Len(seqs) |-> IF i = 1 THEN seqs[i] ELSE h[i - 1] \o seqs[i]]
<1>1. FlattenSeq(seqs) = IF Len(seqs) = 0 THEN seqs ELSE g[Len(seqs)]
  BY DEF FlattenSeq
<1>2. g = CHOOSE h : Flattens(h, seqs, Len(seqs))
  BY DEF Flattens
<1> HIDE DEF g
<1>3. Flattens(g, seqs, Len(seqs))
  BY <1>2
<1>4. g = f
  BY <1>3, FlattensOnce
<1> QED BY <1>1, <1>4

CharBytes(i, width) == [k \in 1..width |-> [char |-> i, place |-> k, of |-> width]]

\* One character more is its bytes more.
LEMMA BytesGrow ==
  ASSUME NEW w \in Seq(Nat), NEW x \in Nat
  PROVE  /\ Bytes(<<>>) = <<>>
         /\ Bytes(Append(w, x)) = IF w = <<>> THEN CharBytes(1, x) ELSE Bytes(w) \o CharBytes(Len(w) + 1, x)
<1> DEFINE n == Len(w)
           v == Append(w, x)
           seqs == [i \in DOMAIN w |-> CharBytes(i, w[i])]
           more == [i \in DOMAIN v |-> CharBytes(i, v[i])]
<1>1. Bytes(w) = FlattenSeq(seqs) /\ Bytes(v) = FlattenSeq(more)
  BY DEF Bytes, CharBytes
<1>2. /\ n \in Nat /\ DOMAIN w = 1..n /\ DOMAIN v = 1..(n + 1) /\ v[n + 1] = x /\ \A i \in 1..n : v[i] = w[i]
      /\ (n = 0 <=> w = <<>>)
  OBVIOUS
<1> HIDE DEF v
<1>3. /\ \A i \in 1..n : seqs[i] = CharBytes(i, w[i]) /\ more[i] = seqs[i]
      /\ more[n + 1] = CharBytes(n + 1, x)
  BY <1>2
<1>4. Len(seqs) = n /\ Len(more) = n + 1
  BY <1>2
<1> HIDE DEF seqs, more
<1>5. PICK f : Flattens(f, seqs, n)
  BY <1>2, FlattensAll
<1> DEFINE g == [i \in 1..(n + 1) |-> IF i = n + 1 THEN (IF n = 0 THEN more[n + 1] ELSE f[n] \o more[n + 1]) ELSE f[i]]
<1> HIDE DEF n
<1>6. Flattens(g, more, n + 1)
  <2>1. \A i \in 1..n : more[i] = seqs[i]
    BY <1>3
  <2>2. n \in Nat
    BY <1>2
  <2> QED BY <1>5, <2>1, <2>2, FlattensOn
<1>7. g[n + 1] = IF n = 0 THEN more[n + 1] ELSE f[n] \o more[n + 1]
  BY <1>2
<1> HIDE DEF g
<1>8. FlattenSeq(more) = IF n = 0 THEN more[n + 1] ELSE f[n] \o more[n + 1]
  <2>1. Len(more) \in Nat /\ Len(more) # 0
    BY <1>2, <1>4
  <2> QED BY <1>4, <1>6, <1>7, <2>1, FlattenedBy
<1>9. n # 0 => FlattenSeq(seqs) = f[n]
  BY <1>2, <1>4, <1>5, FlattenedBy
<1>10. Bytes(<<>>) = <<>>
  BY DEF Bytes, FlattenSeq
<1> QED BY <1>1, <1>2, <1>3, <1>8, <1>9, <1>10 DEF v, n

\* The bytes there may be, and characters of any width.
ByteOnes == [char : Nat, place : Nat, of : Nat]
Wide == Seq(Nat \ {0})

\* Where a character ends: the bytes of it and of those before it.
EndOf(w, c) == Size(SubSeq(w, 1, c))

\* The characters after the i-th up to the j-th, one more.
LEMMA OneCharacterMore ==
  ASSUME NEW w \in Wide, NEW i \in Nat, NEW j \in Nat, i <= j, j < Len(w)
  PROVE  /\ SubSeq(w, i + 1, j) \in Wide /\ Len(SubSeq(w, i + 1, j)) = j - i
         /\ SubSeq(w, i + 1, j + 1) = Append(SubSeq(w, i + 1, j), w[j + 1]) /\ w[j + 1] \in Nat \ {0}
<1>1. w \in Seq(Nat \ {0}) /\ Len(w) \in Nat /\ DOMAIN w = 1..Len(w)
  BY DEF Wide
<1>2. /\ SubSeq(w, i + 1, j) \in Seq(Nat \ {0}) /\ Len(SubSeq(w, i + 1, j)) = j - i
      /\ \A k \in 1..(j - i) : SubSeq(w, i + 1, j)[k] = w[i + k]
  <2>1. j <= Len(w)
    BY <1>1
  <2>2. /\ Stretch(w, i, j) \in Seq(Nat \ {0}) /\ Len(Stretch(w, i, j)) = j - i
        /\ \A k \in 1..(j - i) : Stretch(w, i, j)[k] = w[i + k]
    BY <1>1, <2>1, StretchIs, ZenonT(90)
  <2> QED BY <2>2 DEF Stretch
<1>3. /\ SubSeq(w, i + 1, j + 1) \in Seq(Nat \ {0}) /\ Len(SubSeq(w, i + 1, j + 1)) = j + 1 - i
      /\ \A k \in 1..(j + 1 - i) : SubSeq(w, i + 1, j + 1)[k] = w[i + k]
  <2> DEFINE n == j + 1
  <2>1. n \in Nat /\ i <= n /\ n <= Len(w)
    BY <1>1
  <2> HIDE DEF n
  <2>2. /\ Stretch(w, i, n) \in Seq(Nat \ {0}) /\ Len(Stretch(w, i, n)) = n - i
        /\ \A k \in 1..(n - i) : Stretch(w, i, n)[k] = w[i + k]
    BY <1>1, <2>1, StretchIs, ZenonT(90)
  <2> QED BY <2>2 DEF Stretch, n
<1>4. w[j + 1] \in Nat \ {0}
  BY <1>1
<1> DEFINE s == SubSeq(w, i + 1, j)
           t == SubSeq(w, i + 1, j + 1)
           u == Append(s, w[j + 1])
<1>5. u \in Seq(Nat \ {0}) /\ Len(u) = Len(s) + 1 /\ u[Len(s) + 1] = w[j + 1] /\ \A k \in 1..Len(s) : u[k] = s[k]
  BY <1>2, <1>4
<1>6. /\ \A k \in 1..(j - i) : s[k] = w[i + k]
      /\ \A k \in 1..(j + 1 - i) : t[k] = w[i + k]
  BY <1>2, <1>3
<1> HIDE DEF s, t, u
<1>7. t = u
  <2>1. Len(s) = j - i /\ Len(t) = j - i + 1 /\ Len(u) = j - i + 1
    BY <1>2, <1>3, <1>5 DEF s, t
  <2>2. ASSUME NEW k \in 1..Len(t) PROVE t[k] = u[k]
    <3>1. CASE k = j - i + 1
      BY <1>5, <1>6, <2>1, <3>1
    <3>2. CASE k # j - i + 1
      <4>1. k \in 1..(j - i) /\ k \in 1..(j + 1 - i)
        BY <2>1, <3>2
      <4> QED BY <1>5, <1>6, <2>1, <4>1
    <3> QED BY <3>1, <3>2
  <2>3. t \in Seq(Nat \ {0}) /\ u \in Seq(Nat \ {0})
    BY <1>3, <1>5 DEF t
  <2> QED BY <2>1, <2>2, <2>3, SeqEqual
<1> QED BY <1>2, <1>4, <1>7 DEF s, t, u, Wide

LEMMA NoCharacters ==
  ASSUME NEW w \in Wide, NEW i \in Nat
  PROVE  SubSeq(w, i + 1, i) = <<>> /\ SubSeq(w, 1, 0) = <<>>
<1>1. w \in Seq(Nat \ {0})
  BY DEF Wide
<1> QED BY <1>1, SubSeqEmpty

LEMMA NoBytes == Bytes(<<>>) = <<>> /\ Size(<<>>) = 0
<1>1. <<>> \in Seq(Nat) /\ 0 \in Nat /\ Len(<<>>) = 0
  OBVIOUS
<1>2. Bytes(<<>>) = <<>>
  BY <1>1, BytesGrow
<1>3. Size(<<>>) = Len(Bytes(<<>>))
  BY DEF Size
<1> QED BY <1>1, <1>2, <1>3

LEMMA CharBytesSeq ==
  ASSUME NEW i \in Nat, NEW x \in Nat
  PROVE  CharBytes(i, x) \in Seq(ByteOnes) /\ Len(CharBytes(i, x)) = x
BY DEF CharBytes, ByteOnes

LEMMA BytesAreSeq ==
  ASSUME NEW w \in Wide, NEW x \in Nat \ {0}, Bytes(w) \in Seq(ByteOnes)
  PROVE  /\ Bytes(Append(w, x)) \in Seq(ByteOnes) /\ Size(Append(w, x)) = Size(w) + x
         /\ Bytes(Append(w, x)) = Bytes(w) \o CharBytes(Len(w) + 1, x)
         /\ Size(w) \in Nat
<1>1. w \in Seq(Nat) /\ Len(w) \in Nat /\ x \in Nat /\ (w = <<>> => Len(w) = 0)
  BY DEF Wide
<1> DEFINE more == CharBytes(Len(w) + 1, x)
<1>2. more \in Seq(ByteOnes) /\ Len(more) = x
  BY <1>1, CharBytesSeq
<1>3. Bytes(Append(w, x)) = Bytes(w) \o more
  <2>1. CASE w = <<>>
    <3>1. Bytes(w) = <<>> /\ Bytes(Append(w, x)) = more
      <4>1. Bytes(w) = <<>>
      BY <2>1, NoBytes
    <4>2. Len(w) + 1 = 1
      BY <1>1, <2>1
    <4>3. Bytes(Append(w, x)) = CharBytes(1, x)
      BY <1>1, <2>1, BytesGrow
    <4> QED BY <4>1, <4>2, <4>3
    <3> HIDE DEF more
    <3>2. <<>> \o more = more
      BY <1>2
    <3> QED BY <3>1, <3>2
  <2>2. CASE w # <<>>
    BY <1>1, <2>2, BytesGrow
  <2> QED BY <2>1, <2>2
<1> HIDE DEF more
<1>4. Bytes(w) \o more \in Seq(ByteOnes) /\ Len(Bytes(w) \o more) = Len(Bytes(w)) + x /\ Len(Bytes(w)) \in Nat
  BY <1>2
<1> QED BY <1>3, <1>4 DEF Size, more

\* The size of the characters after the i-th up to the j-th is the difference of where the two end.
LEMMA SizeBetween ==
  ASSUME NEW w \in Wide, NEW i \in Nat
  PROVE  \A k \in Nat : i + k <= Len(w) =>
           /\ Bytes(SubSeq(w, i + 1, i + k)) \in Seq(ByteOnes)
           /\ Size(SubSeq(w, i + 1, i + k)) \in Nat
           /\ k > 0 => Size(SubSeq(w, i + 1, i + k)) = Size(SubSeq(w, i + 1, i + (k - 1))) + w[i + k]
<1> DEFINE S == {k \in Nat : i + k <= Len(w) =>
           /\ Bytes(SubSeq(w, i + 1, i + k)) \in Seq(ByteOnes)
           /\ Size(SubSeq(w, i + 1, i + k)) \in Nat
           /\ k > 0 => Size(SubSeq(w, i + 1, i + k)) = Size(SubSeq(w, i + 1, i + (k - 1))) + w[i + k]}
<1>0. Len(w) \in Nat
  BY DEF Wide
<1>1. 0 \in S
  <2>1. SubSeq(w, i + 1, i + 0) = <<>>
    BY NoCharacters
  <2>2. Bytes(<<>>) = <<>> /\ Size(<<>>) = 0
    BY NoBytes
  <2>3. <<>> \in Seq(ByteOnes)
    OBVIOUS
  <2>4. Bytes(SubSeq(w, i + 1, i + 0)) \in Seq(ByteOnes) /\ Size(SubSeq(w, i + 1, i + 0)) \in Nat
    <3> DEFINE s == SubSeq(w, i + 1, i + 0)
    <3>1. s = <<>>
      BY <2>1
    <3> HIDE DEF s
    <3>2. Bytes(s) = <<>> /\ Size(s) = 0
      BY <2>2, <3>1, Zenon
    <3>3. Bytes(s) \in Seq(ByteOnes) /\ Size(s) \in Nat
      BY <2>3, <3>2
    <3> QED BY <3>3 DEF s
  <2> QED BY <2>4
<1>2. ASSUME NEW k \in Nat, k \in S, i + (k + 1) <= Len(w)
      PROVE  /\ Bytes(SubSeq(w, i + 1, i + (k + 1))) \in Seq(ByteOnes)
             /\ Size(SubSeq(w, i + 1, i + (k + 1))) \in Nat
             /\ Size(SubSeq(w, i + 1, i + (k + 1))) = Size(SubSeq(w, i + 1, i + ((k + 1) - 1))) + w[i + (k + 1)]
  <2> DEFINE s == SubSeq(w, i + 1, i + k)
  <2>1. i + k <= Len(w) /\ i + k \in Nat /\ i <= i + k /\ i + k < Len(w) /\ (i + k) + 1 = i + (k + 1) /\ i + ((k + 1) - 1) = i + k
    BY <1>0, <1>2
  <2>2. Bytes(s) \in Seq(ByteOnes)
    BY <1>2, <2>1
  <2>3. /\ s \in Wide /\ w[i + (k + 1)] \in Nat \ {0}
        /\ SubSeq(w, i + 1, i + (k + 1)) = Append(s, w[i + (k + 1)])
    BY <2>1, OneCharacterMore
  <2> HIDE DEF s
  <2>4. /\ Bytes(Append(s, w[i + (k + 1)])) \in Seq(ByteOnes)
        /\ Size(Append(s, w[i + (k + 1)])) = Size(s) + w[i + (k + 1)] /\ Size(s) \in Nat
    BY <2>2, <2>3, BytesAreSeq
  <2>5. SubSeq(w, i + 1, i + ((k + 1) - 1)) = s
    BY <2>1 DEF s
  <2>6. Size(s) + w[i + (k + 1)] \in Nat
    BY <2>3, <2>4
  <2> HIDE DEF Size
  <2> QED BY <2>3, <2>4, <2>5, <2>6
<1>3. \A k \in Nat : k \in S => k + 1 \in S
  BY <1>2
<1> HIDE DEF S
<1>4. \A k \in Nat : k \in S
  BY <1>1, <1>3, AllNumbers
<1> QED BY <1>4 DEF S

\* Where the characters end: each by its width after the one before it.
LEMMA EndsGoOn ==
  ASSUME NEW w \in Wide
  PROVE  /\ EndOf(w, 0) = 0
         /\ \A c \in 0..Len(w) : EndOf(w, c) \in Nat
         /\ \A c \in 1..Len(w) : EndOf(w, c) = EndOf(w, c - 1) + w[c] /\ w[c] \in Nat \ {0}
         /\ EndOf(w, Len(w)) = Size(w)
<1>1. Len(w) \in Nat /\ w \in Seq(Nat \ {0})
  BY DEF Wide
<1>2. EndOf(w, 0) = 0
  <2>1. SubSeq(w, 1, 0) = <<>>
    BY NoCharacters, 0 \in Nat
  <2> QED BY <2>1, NoBytes DEF EndOf
<1>3. \A k \in Nat : 0 + k <= Len(w) =>
           /\ Bytes(SubSeq(w, 0 + 1, 0 + k)) \in Seq(ByteOnes)
           /\ Size(SubSeq(w, 0 + 1, 0 + k)) \in Nat
           /\ k > 0 => Size(SubSeq(w, 0 + 1, 0 + k)) = Size(SubSeq(w, 0 + 1, 0 + (k - 1))) + w[0 + k]
  BY SizeBetween, 0 \in Nat
<1>4. ASSUME NEW c \in 0..Len(w)
      PROVE  EndOf(w, c) \in Nat /\ (c > 0 => EndOf(w, c) = EndOf(w, c - 1) + w[c])
  <2>1. c \in Nat /\ 0 + c <= Len(w) /\ 0 + c = c /\ 0 + 1 = 1 /\ 0 + (c - 1) = c - 1
    BY <1>1
  <2> QED BY <1>3, <2>1 DEF EndOf
<1>5. ASSUME NEW c \in 1..Len(w) PROVE EndOf(w, c) = EndOf(w, c - 1) + w[c] /\ w[c] \in Nat \ {0}
  BY <1>1, <1>4
<1>6. SubSeq(w, 1, Len(w)) = w
  BY <1>1, SubSeqFull
<1> QED BY <1>2, <1>4, <1>5, <1>6 DEF EndOf

LEMMA SizeIs ==
  ASSUME NEW w \in Wide, NEW i \in Nat, NEW j \in Nat, i <= j, j <= Len(w)
  PROVE  Size(SubSeq(w, i + 1, j)) = EndOf(w, j) - EndOf(w, i)
<1> DEFINE S == {k \in Nat : i + k <= Len(w) => Size(SubSeq(w, i + 1, i + k)) = EndOf(w, i + k) - EndOf(w, i)}
<1>0. Len(w) \in Nat
  BY DEF Wide
<1>1. /\ \A c \in 0..Len(w) : EndOf(w, c) \in Nat
      /\ \A c \in 1..Len(w) : EndOf(w, c) = EndOf(w, c - 1) + w[c] /\ w[c] \in Nat \ {0}
  BY EndsGoOn
<1>2. 0 \in S
  <2>1. SubSeq(w, i + 1, i) = <<>> /\ i + 0 = i
    BY NoCharacters
  <2>2. Size(SubSeq(w, i + 1, i)) = 0
    BY <2>1, NoBytes, Zenon
  <2>3. i <= Len(w) => EndOf(w, i) - EndOf(w, i) = 0
    BY <1>0, <1>1
  <2> QED BY <2>1, <2>2, <2>3
<1>3. ASSUME NEW k \in Nat, k \in S, i + (k + 1) <= Len(w)
      PROVE  Size(SubSeq(w, i + 1, i + (k + 1))) = EndOf(w, i + (k + 1)) - EndOf(w, i)
  <2>1. /\ i + k <= Len(w) /\ i + k \in 0..Len(w) /\ i \in 0..Len(w) /\ i + (k + 1) \in 1..Len(w)
        /\ (k + 1) - 1 = k /\ i + (k + 1) - 1 = i + k /\ k + 1 > 0 /\ k + 1 \in Nat
    BY <1>0, <1>3
  <2>2. Size(SubSeq(w, i + 1, i + k)) = EndOf(w, i + k) - EndOf(w, i)
    BY <1>3, <2>1
  <2>3. Size(SubSeq(w, i + 1, i + (k + 1))) = Size(SubSeq(w, i + 1, i + ((k + 1) - 1))) + w[i + (k + 1)]
    BY <1>3, <2>1, SizeBetween
  <2>4. EndOf(w, i + (k + 1)) = EndOf(w, i + k) + w[i + (k + 1)] /\ w[i + (k + 1)] \in Nat
    BY <1>1, <2>1
  <2>5. EndOf(w, i + k) \in Nat /\ EndOf(w, i) \in Nat
    BY <1>1, <2>1
  <2>6. Size(SubSeq(w, i + 1, i + (k + 1))) = Size(SubSeq(w, i + 1, i + k)) + w[i + (k + 1)]
    BY <2>1, <2>3
  <2> HIDE DEF EndOf, Size
  <2> QED BY <2>2, <2>4, <2>5, <2>6
<1>4. \A k \in Nat : k \in S => k + 1 \in S
  BY <1>3
<1> HIDE DEF S
<1>5. \A k \in Nat : k \in S
  BY <1>2, <1>4, AllNumbers
<1>6. j - i \in Nat /\ i + (j - i) = j
  OBVIOUS
<1>7. j - i \in S
  BY <1>5, <1>6
<1> QED BY <1>6, <1>7 DEF S

LEMMA EndsApart ==
  ASSUME NEW w \in Wide, NEW c \in 0..Len(w), NEW d \in 0..Len(w)
  PROVE  /\ EndOf(w, c) \in Nat
         /\ c < d => EndOf(w, c) < EndOf(w, d)
         /\ c <= d => EndOf(w, c) <= EndOf(w, d)
         /\ EndOf(w, d) <= Size(w)
<1> DEFINE S(e) == {k \in Nat : e + k <= Len(w) => EndOf(w, e) + k <= EndOf(w, e + k)}
<1>0. Len(w) \in Nat
  BY DEF Wide
<1>1. /\ \A e \in 0..Len(w) : EndOf(w, e) \in Nat
      /\ \A e \in 1..Len(w) : EndOf(w, e) = EndOf(w, e - 1) + w[e] /\ w[e] \in Nat \ {0}
      /\ EndOf(w, Len(w)) = Size(w)
  BY EndsGoOn
<1>2. ASSUME NEW e \in 0..Len(w), NEW f \in 0..Len(w), e <= f PROVE EndOf(w, e) + (f - e) <= EndOf(w, f)
  <2>1. 0 \in S(e)
    BY <1>0, <1>1
  <2>2. ASSUME NEW k \in Nat, k \in S(e), e + (k + 1) <= Len(w) PROVE EndOf(w, e) + (k + 1) <= EndOf(w, e + (k + 1))
    <3>1. e + k <= Len(w) /\ e + k \in 0..Len(w) /\ e + (k + 1) \in 1..Len(w) /\ e + (k + 1) - 1 = e + k
      BY <1>0, <2>2
    <3>2. EndOf(w, e) + k <= EndOf(w, e + k)
      BY <2>2, <3>1
    <3>3. EndOf(w, e + (k + 1)) = EndOf(w, e + k) + w[e + (k + 1)] /\ w[e + (k + 1)] \in Nat \ {0}
      BY <1>1, <3>1
    <3>4. EndOf(w, e) \in Nat /\ EndOf(w, e + k) \in Nat
      BY <1>1, <3>1
    <3> QED BY <3>2, <3>3, <3>4
  <2>3. \A k \in Nat : k \in S(e) => k + 1 \in S(e)
    BY <2>2
  <2>4. \A k \in Nat : k \in S(e)
    <3> DEFINE T == S(e)
    <3>1. 0 \in T /\ \A k \in Nat : k \in T => k + 1 \in T
      BY <2>1, <2>3
    <3> HIDE DEF T
    <3>2. \A k \in Nat : k \in T
      BY <3>1, AllNumbers
    <3> QED BY <3>2 DEF T
  <2>5. f - e \in Nat /\ e + (f - e) = f /\ e + (f - e) <= Len(w)
    BY <1>0, <1>2
  <2>6. f - e \in S(e)
    BY <2>4, <2>5
  <2>7. EndOf(w, e) + (f - e) <= EndOf(w, e + (f - e))
    BY <2>5, <2>6
  <2> QED BY <2>5, <2>7
<1> HIDE DEF S
<1>3. EndOf(w, c) \in Nat /\ EndOf(w, d) \in Nat /\ c \in Nat /\ d \in Nat
  BY <1>1
<1>4. c <= d => EndOf(w, c) + (d - c) <= EndOf(w, d)
  BY <1>2
<1>5. EndOf(w, d) + (Len(w) - d) <= Size(w) /\ Len(w) - d \in Nat
  <2>1. Len(w) \in 0..Len(w) /\ d <= Len(w)
    BY <1>0
  <2>2. EndOf(w, d) + (Len(w) - d) <= EndOf(w, Len(w))
    BY <1>2, <2>1
  <2> QED BY <1>0, <1>1, <2>2
<1>6. Size(w) \in Nat
  <2>1. Len(w) \in 0..Len(w)
    BY <1>0
  <2> QED BY <1>1, <2>1
<1> HIDE DEF EndOf, Size
<1> QED BY <1>3, <1>4, <1>5, <1>6

\* The byte at a place is of the character in which the place is.
ByteAt(w, c, p) == [char |-> c, place |-> p - EndOf(w, c - 1), of |-> w[c]]

LEMMA BytesLaidOut ==
  ASSUME NEW w \in Wide
  PROVE  /\ Bytes(w) \in Seq(ByteOnes) /\ Len(Bytes(w)) = Size(w)
         /\ \A p \in 1..Size(w) :
              \E c \in 1..Len(w) : EndOf(w, c - 1) < p /\ p <= EndOf(w, c) /\ Bytes(w)[p] = ByteAt(w, c, p)
<1> DEFINE Upto(n) == SubSeq(w, 1, n)
           S == {n \in Nat : n <= Len(w) =>
                  \A p \in 1..EndOf(w, n) :
                     \E c \in 1..n : EndOf(w, c - 1) < p /\ p <= EndOf(w, c) /\ Bytes(Upto(n))[p] = ByteAt(w, c, p)}
<1>0. Len(w) \in Nat
  BY DEF Wide
<1>1. /\ EndOf(w, 0) = 0 /\ \A c \in 0..Len(w) : EndOf(w, c) \in Nat
      /\ \A c \in 1..Len(w) : EndOf(w, c) = EndOf(w, c - 1) + w[c] /\ w[c] \in Nat \ {0}
  BY EndsGoOn
<1>2. 0 \in S
  <2>1. 1..EndOf(w, 0) = {}
    BY <1>1
  <2> QED BY <2>1
<1>3. ASSUME NEW n \in Nat, n + 1 <= Len(w)
      PROVE  /\ Bytes(Upto(n)) \in Seq(ByteOnes) /\ Len(Bytes(Upto(n))) = EndOf(w, n)
             /\ Bytes(Upto(n + 1)) = Bytes(Upto(n)) \o CharBytes(n + 1, w[n + 1])
  <2>1. /\ SubSeq(w, 0 + 1, n) \in Wide /\ Len(SubSeq(w, 0 + 1, n)) = n - 0
        /\ SubSeq(w, 0 + 1, n + 1) = Append(SubSeq(w, 0 + 1, n), w[n + 1]) /\ w[n + 1] \in Nat \ {0}
    <3>1. 0 \in Nat /\ 0 <= n /\ n < Len(w)
      BY <1>0, <1>3
    <3> QED BY <3>1, OneCharacterMore
  <2>2. Upto(n) \in Wide /\ Len(Upto(n)) = n /\ Upto(n + 1) = Append(Upto(n), w[n + 1]) /\ w[n + 1] \in Nat \ {0}
    BY <2>1
  <2>3. Bytes(SubSeq(w, 0 + 1, 0 + n)) \in Seq(ByteOnes)
    <3>1. 0 \in Nat /\ 0 + n <= Len(w)
      BY <1>0, <1>3
    <3> QED BY <3>1, SizeBetween
  <2>4. Bytes(Upto(n)) \in Seq(ByteOnes)
    BY <2>3
  <2>5. Len(Bytes(Upto(n))) = EndOf(w, n)
    BY DEF EndOf, Size
  <2> HIDE DEF Upto
  <2>6. Bytes(Append(Upto(n), w[n + 1])) = Bytes(Upto(n)) \o CharBytes(Len(Upto(n)) + 1, w[n + 1])
    BY <2>2, <2>4, BytesAreSeq
  <2> QED BY <2>2, <2>4, <2>5, <2>6
<1>4. ASSUME NEW n \in Nat, n \in S, n + 1 <= Len(w), NEW p \in 1..EndOf(w, n + 1)
      PROVE  \E c \in 1..(n + 1) : EndOf(w, c - 1) < p /\ p <= EndOf(w, c) /\ Bytes(Upto(n + 1))[p] = ByteAt(w, c, p)
  <2> DEFINE s == Bytes(Upto(n))
             t == CharBytes(n + 1, w[n + 1])
  <2>1. s \in Seq(ByteOnes) /\ Len(s) = EndOf(w, n) /\ Bytes(Upto(n + 1)) = s \o t
    BY <1>3, <1>4
  <2>2. n \in 0..Len(w) /\ n + 1 \in 1..Len(w) /\ (n + 1) - 1 = n /\ n <= Len(w)
    BY <1>0, <1>4
  <2>3. EndOf(w, n) \in Nat /\ EndOf(w, n + 1) = EndOf(w, n) + w[n + 1] /\ w[n + 1] \in Nat \ {0}
    BY <1>1, <2>2
  <2>4. t \in Seq(ByteOnes) /\ Len(t) = w[n + 1]
    <3>1. n + 1 \in Nat /\ w[n + 1] \in Nat
      BY <2>3
    <3> QED BY <3>1, CharBytesSeq
  <2>5. CASE p <= EndOf(w, n)
    <3>1. p \in 1..EndOf(w, n)
      BY <2>3, <2>5
    <3>2. PICK c \in 1..n : EndOf(w, c - 1) < p /\ p <= EndOf(w, c) /\ s[p] = ByteAt(w, c, p)
      BY <1>4, <2>2, <3>1
    <3> HIDE DEF s, t
    <3>3. (s \o t)[p] = s[p]
      BY <2>1, <2>4, <3>1
    <3>4. c \in 1..(n + 1)
      OBVIOUS
    <3> QED BY <2>1, <3>2, <3>3, <3>4
  <2>6. CASE ~ (p <= EndOf(w, n))
    <3>1. p - EndOf(w, n) \in 1..w[n + 1]
      BY <2>3, <2>6
    <3>2. t[p - EndOf(w, n)] = [char |-> n + 1, place |-> p - EndOf(w, n), of |-> w[n + 1]]
      BY <3>1 DEF CharBytes
    <3> HIDE DEF s, t
    <3>3. (s \o t)[p] = t[p - EndOf(w, n)]
      <4>1. p \in 1..(Len(s) + Len(t)) /\ p > Len(s)
        BY <2>1, <2>3, <2>4, <2>6
      <4> QED BY <2>1, <2>4, <4>1
    <3>4. Bytes(Upto(n + 1))[p] = ByteAt(w, n + 1, p)
      BY <2>1, <2>2, <3>2, <3>3 DEF ByteAt
    <3>5. n + 1 \in 1..(n + 1) /\ EndOf(w, (n + 1) - 1) < p /\ p <= EndOf(w, n + 1)
      BY <2>2, <2>3, <2>6
    <3> HIDE DEF Upto
    <3> QED BY <3>4, <3>5
  <2> QED BY <2>5, <2>6
<1>5. \A n \in Nat : n \in S => n + 1 \in S
  BY <1>4
<1> HIDE DEF S
<1>6. \A n \in Nat : n \in S
  BY <1>2, <1>5, AllNumbers
<1>7. Upto(Len(w)) = w /\ EndOf(w, Len(w)) = Size(w)
  BY SubSeqFull, EndsGoOn DEF Wide
<1>8. Bytes(w) \in Seq(ByteOnes)
  <2>1. Bytes(SubSeq(w, 0 + 1, 0 + Len(w))) \in Seq(ByteOnes)
    <3>1. 0 \in Nat /\ 0 + Len(w) <= Len(w)
      BY <1>0
    <3> QED BY <1>0, <3>1, SizeBetween
  <2>2. SubSeq(w, 0 + 1, 0 + Len(w)) = Upto(Len(w))
    BY <1>0
  <2> QED BY <1>7, <2>1, <2>2
<1>9. Len(w) \in S
  BY <1>0, <1>6
<1>10. \A p \in 1..EndOf(w, Len(w)) :
         \E c \in 1..Len(w) : EndOf(w, c - 1) < p /\ p <= EndOf(w, c) /\ Bytes(Upto(Len(w)))[p] = ByteAt(w, c, p)
  BY <1>0, <1>9 DEF S
<1> QED BY <1>7, <1>8, <1>10 DEF Size

-----------------------------------------------------------------------------
(*                  the bytes and characters of the output                 *)

\* The bytes of the output after the a-th, up to the b-th; all there are; and where a character of it ends.
Between(a, b) == Stretch(Bytes(text), a, b)
AllBytes == Len(Bytes(text))
Ends(c) == EndOf(text, c)
Texted == text \in Seq(Widths)

LEMMA Sizes ==
  ASSUME Texted
  PROVE  /\ text \in Wide /\ Len(text) \in Nat /\ Bytes(text) \in Seq(ByteOnes) /\ AllBytes \in Nat /\ AllBytes = Size(text)
         /\ \A c \in 1..Len(text) : text[c] \in Nat \ {0} /\ text[c] <= UTFMax
         /\ \A c \in 0..Len(text) : Ends(c) \in Nat /\ Ends(c) <= AllBytes
         /\ Ends(0) = 0 /\ Ends(Len(text)) = AllBytes
         /\ \A c \in 1..Len(text) : Ends(c) = Ends(c - 1) + text[c]
<1>1. text \in Seq(Nat \ {0}) /\ Len(text) \in Nat /\ \A c \in 1..Len(text) : text[c] \in Nat \ {0} /\ text[c] <= UTFMax
  <2>1. text \in Seq(Widths) /\ Len(text) \in Nat /\ \A c \in 1..Len(text) : text[c] \in Widths
    BY DEF Texted
  <2>2. \A x \in Widths : x \in Nat \ {0} /\ x <= UTFMax
    BY CappedAssumption
  <2>3. SubSeq(text, 1, Len(text)) = text
    BY <2>1, SubSeqFull
  <2>4. SubSeq(text, 1, Len(text)) \in Seq(Nat \ {0})
    BY <2>1, <2>2, SubSeqProperties
  <2> QED BY <2>1, <2>2, <2>3, <2>4
<1>2. text \in Wide
  BY <1>1 DEF Wide
<1>3. Bytes(text) \in Seq(ByteOnes) /\ AllBytes = Size(text)
  BY <1>2, BytesLaidOut DEF AllBytes
<1>4. AllBytes \in Nat
  BY <1>3 DEF AllBytes
<1>5. \A c \in 0..Len(text) : Ends(c) \in Nat /\ Ends(c) <= AllBytes
  BY <1>1, <1>2, <1>3, EndsApart DEF Ends
<1>6. Ends(0) = 0 /\ Ends(Len(text)) = AllBytes /\ \A c \in 1..Len(text) : Ends(c) = Ends(c - 1) + text[c]
  BY <1>2, <1>3, EndsGoOn DEF Ends
<1> QED BY <1>1, <1>2, <1>3, <1>4, <1>5, <1>6

LEMMA EndsInOrder ==
  ASSUME Texted, NEW c \in 0..Len(text), NEW d \in 0..Len(text)
  PROVE  (c < d => Ends(c) < Ends(d)) /\ (c <= d => Ends(c) <= Ends(d))
BY Sizes, EndsApart DEF Ends

\* The character a byte is of, and what that says of the byte.
LEMMA CharacterAt ==
  ASSUME Texted, NEW p \in 1..AllBytes
  PROVE  /\ \E c \in 1..Len(text) : Ends(c - 1) < p /\ p <= Ends(c)
         /\ \A c \in 1..Len(text) : Ends(c - 1) < p /\ p <= Ends(c) =>
              /\ Bytes(text)[p].char = c /\ Bytes(text)[p].place = p - Ends(c - 1)
              /\ Bytes(text)[p].of = text[c] /\ Ends(c) = Ends(c - 1) + text[c]
<1>1. PICK c \in 1..Len(text) : Ends(c - 1) < p /\ p <= Ends(c) /\ Bytes(text)[p] = ByteAt(text, c, p)
  BY Sizes, BytesLaidOut DEF Ends
<1>2. ASSUME NEW d \in 1..Len(text), Ends(d - 1) < p, p <= Ends(d) PROVE d = c
  <2>1. /\ c \in 0..Len(text) /\ d \in 0..Len(text) /\ c - 1 \in 0..Len(text) /\ d - 1 \in 0..Len(text)
        /\ Len(text) \in Nat
    BY Sizes
  <2>2. ~ (d < c)
    <3>1. SUFFICES ASSUME d < c PROVE FALSE
      OBVIOUS
    <3>2. Ends(d) <= Ends(c - 1)
      BY <2>1, <3>1, EndsInOrder
    <3>3. Ends(d) \in Nat /\ Ends(c - 1) \in Nat
      BY <2>1, Sizes
    <3> QED BY <1>1, <1>2, <3>2, <3>3
  <2>3. ~ (c < d)
    <3>1. SUFFICES ASSUME c < d PROVE FALSE
      OBVIOUS
    <3>2. Ends(c) <= Ends(d - 1)
      BY <2>1, <3>1, EndsInOrder
    <3>3. Ends(c) \in Nat /\ Ends(d - 1) \in Nat
      BY <2>1, Sizes
    <3> QED BY <1>1, <1>2, <3>2, <3>3
  <2> QED BY <2>1, <2>2, <2>3
<1>3. Bytes(text)[p].char = c /\ Bytes(text)[p].place = p - Ends(c - 1) /\ Bytes(text)[p].of = text[c]
  BY <1>1 DEF ByteAt, Ends
<1>4. Ends(c) = Ends(c - 1) + text[c]
  BY Sizes
<1> QED BY <1>1, <1>2, <1>3, <1>4

LEMMA BytesBetween ==
  ASSUME Texted, NEW a \in Nat, NEW b \in Nat, a <= b, b <= AllBytes
  PROVE  /\ Between(a, b) \in Seq(ByteOnes) /\ Len(Between(a, b)) = b - a
         /\ \A i \in 1..(b - a) : Between(a, b)[i] = Bytes(text)[a + i]
<1> DEFINE w == Bytes(text)
<1>1. w \in Seq(ByteOnes) /\ b <= Len(w)
  BY Sizes DEF AllBytes
<1> HIDE DEF w
<1>2. Stretch(w, a, b) \in Seq(ByteOnes) /\ Len(Stretch(w, a, b)) = b - a /\ \A i \in 1..(b - a) : Stretch(w, a, b)[i] = w[a + i]
  BY <1>1, StretchIs
<1> QED BY <1>2 DEF w, Between

\* A part of a part, by where it is in the output.
LEMMA PartOfPart ==
  ASSUME Texted, NEW a \in Nat, NEW b \in Nat, NEW x \in Nat, NEW y \in Nat, a <= x, x <= y, y <= b, b <= AllBytes,
         NEW c \in Nat, NEW d \in Nat, a + c >= x + 1, a + c <= x + 1, a + d >= y, a + d <= y
  PROVE  Part(Between(a, b), c, d) = Between(x, y)
BY Sizes, StretchOfStretch DEF Between, AllBytes

\* What stands where in two sequences joined.
LEMMA JoinedAt ==
  ASSUME NEW S, NEW s \in Seq(S), NEW t \in Seq(S)
  PROVE  /\ \A i \in 1..Len(s) : (s \o t)[i] = s[i]
         /\ \A j \in 1..Len(t) : (s \o t)[Len(s) + j] = t[j]
<1>1. Len(s) \in Nat /\ Len(t) \in Nat /\ \A i \in 1..(Len(s) + Len(t)) : (s \o t)[i] = IF i <= Len(s) THEN s[i] ELSE t[i - Len(s)]
  BY ConcatProperties, LenProperties
<1> DEFINE st == s \o t
           n == Len(s)
           m == Len(t)
<1>2. n \in Nat /\ m \in Nat /\ \A i \in 1..(n + m) : st[i] = IF i <= n THEN s[i] ELSE t[i - n]
  BY <1>1
<1> HIDE DEF st, n, m
<1>3. ASSUME NEW i \in 1..n PROVE st[i] = s[i]
  BY <1>2
<1>4. ASSUME NEW j \in 1..m PROVE st[n + j] = t[j]
  <2>1. n + j \in 1..(n + m) /\ ~ (n + j <= n) /\ (n + j) - n = j
    BY <1>2
  <2> QED BY <1>2, <2>1
<1> QED BY <1>3, <1>4 DEF st, n, m

\* Two parts, one after the other, are the part from the start of one to the end of the other.
LEMMA PartsJoined ==
  ASSUME Texted, NEW a \in Nat, NEW b \in Nat, NEW c \in Nat, a <= b, b <= c, c <= AllBytes
  PROVE  Between(a, b) \o Between(b, c) = Between(a, c)
<1> DEFINE s == Between(a, b)
           t == Between(b, c)
           u == Between(a, c)
<1>1. /\ s \in Seq(ByteOnes) /\ Len(s) = b - a /\ \A i \in 1..(b - a) : s[i] = Bytes(text)[a + i]
      /\ t \in Seq(ByteOnes) /\ Len(t) = c - b /\ \A i \in 1..(c - b) : t[i] = Bytes(text)[b + i]
      /\ u \in Seq(ByteOnes) /\ Len(u) = c - a /\ \A i \in 1..(c - a) : u[i] = Bytes(text)[a + i]
  <2>1. b <= AllBytes /\ a <= c
    BY Sizes
  <2> QED BY <2>1, BytesBetween
<1> HIDE DEF s, t, u
<1>2. s \o t \in Seq(ByteOnes) /\ Len(s \o t) = c - a
  <2>1. s \o t \in Seq(ByteOnes) /\ Len(s \o t) = Len(s) + Len(t)
    BY <1>1, ConcatProperties
  <2>2. (b - a) + (c - b) = c - a
    OBVIOUS
  <2> QED BY <1>1, <2>1, <2>2
<1>3. ASSUME NEW i \in 1..(c - a) PROVE (s \o t)[i] = u[i]
  <2>0. u[i] = Bytes(text)[a + i]
    BY <1>1
  <2>1. CASE i <= b - a
    <3>1. i \in 1..(b - a) /\ i \in 1..Len(s)
      BY <1>1, <2>1
    <3>2. (s \o t)[i] = s[i]
      BY <1>1, <3>1, JoinedAt
    <3>3. s[i] = Bytes(text)[a + i]
      BY <1>1, <3>1
    <3> QED BY <2>0, <3>2, <3>3
  <2>2. CASE ~ (i <= b - a)
    <3> DEFINE j == i - (b - a)
    <3>1. j \in 1..(c - b) /\ b + j = a + i
      BY <2>2
    <3>2. Len(s) + j = i /\ j \in 1..Len(t)
      BY <1>1, <3>1
    <3> HIDE DEF j
    <3>3. (s \o t)[Len(s) + j] = t[j]
      BY <1>1, <3>2, JoinedAt
    <3>4. t[j] = Bytes(text)[b + j]
      BY <1>1, <3>1
    <3> QED BY <2>0, <3>1, <3>2, <3>3, <3>4
  <2> QED BY <2>1, <2>2
<1>4. s \o t = u
  BY <1>1, <1>2, <1>3, SeqEqual
<1> QED BY <1>4 DEF s, t, u

\* The characters of the bytes between two ends of characters.
LEMMA CharactersBetween ==
  ASSUME Texted, NEW c \in 0..Len(text), NEW d \in 0..Len(text), c <= d
  PROVE  Characters(Between(Ends(c), Ends(d))) = SubSeq(text, c + 1, d)
<1> DEFINE b == Between(Ends(c), Ends(d))
<1>1. /\ Len(text) \in Nat /\ Ends(c) \in Nat /\ Ends(d) \in Nat /\ Ends(c) <= Ends(d) /\ Ends(d) <= AllBytes
      /\ AllBytes \in Nat
  BY Sizes, EndsInOrder
<1>2. b \in Seq(ByteOnes) /\ Len(b) = Ends(d) - Ends(c) /\ \A i \in 1..(Ends(d) - Ends(c)) : b[i] = Bytes(text)[Ends(c) + i]
  BY <1>1, BytesBetween
<1> HIDE DEF b
<1>3. DOMAIN b = 1..(Ends(d) - Ends(c))
  BY <1>1, <1>2
<1>4. ASSUME NEW e \in Ended(b) PROVE e \in (c + 1)..d
  <2>1. PICK i \in 1..(Ends(d) - Ends(c)) : b[i].place = b[i].of /\ e = b[i].char
    BY <1>3 DEF Ended, Range
  <2> DEFINE p == Ends(c) + i
  <2>2. p \in 1..AllBytes /\ b[i] = Bytes(text)[p] /\ p \in Nat /\ Ends(c) < p /\ p <= Ends(d)
    BY <1>1, <1>2
  <2> HIDE DEF p
  <2>3. PICK f \in 1..Len(text) : Ends(f - 1) < p /\ p <= Ends(f)
    BY <2>2, CharacterAt
  <2>4. b[i].char = f /\ b[i].place = p - Ends(f - 1) /\ b[i].of = text[f] /\ Ends(f) = Ends(f - 1) + text[f]
    BY <2>2, <2>3, CharacterAt
  <2>5. f - 1 \in 0..Len(text) /\ f \in 0..Len(text) /\ f \in Nat /\ text[f] \in Nat
    BY <1>1, Sizes
  <2>6. Ends(f - 1) \in Nat /\ Ends(f) \in Nat
    BY <2>5, Sizes
  <2>7. p = Ends(f)
    BY <2>1, <2>2, <2>4, <2>5, <2>6
  <2>8. ~ (f <= c)
    <3>1. f <= c => Ends(f) <= Ends(c)
      BY <2>5, EndsInOrder
    <3> QED BY <1>1, <2>2, <2>6, <2>7, <3>1
  <2>9. ~ (d < f)
    <3>1. d < f => Ends(d) < Ends(f)
      BY <2>5, EndsInOrder
    <3> QED BY <1>1, <2>2, <2>6, <2>7, <3>1
  <2> QED BY <1>1, <2>1, <2>4, <2>5, <2>8, <2>9
<1>5. ASSUME NEW e \in (c + 1)..d PROVE e \in Ended(b)
  <2>1. e \in 0..Len(text) /\ e \in 1..Len(text) /\ e - 1 \in 0..Len(text) /\ c < e /\ e <= d /\ e - 1 < e
    BY <1>1
  <2>2. Ends(c) < Ends(e) /\ Ends(e) <= Ends(d) /\ Ends(e - 1) < Ends(e) /\ Ends(e) \in Nat /\ Ends(e - 1) \in Nat
    BY <2>1, EndsInOrder, Sizes
  <2> DEFINE i == Ends(e) - Ends(c)
  <2>3. i \in 1..(Ends(d) - Ends(c)) /\ Ends(c) + i = Ends(e) /\ Ends(e) \in 1..AllBytes
    BY <1>1, <2>2
  <2>4. b[i] = Bytes(text)[Ends(e)]
    BY <1>2, <2>3
  <2>5. /\ Bytes(text)[Ends(e)].char = e /\ Bytes(text)[Ends(e)].place = Ends(e) - Ends(e - 1)
        /\ Bytes(text)[Ends(e)].of = text[e] /\ Ends(e) = Ends(e - 1) + text[e]
    BY <2>1, <2>2, <2>3, CharacterAt
  <2>6. text[e] \in Nat
    BY <2>1, Sizes
  <2> HIDE DEF i
  <2>7. b[i].place = b[i].of /\ b[i].char = e /\ b[i] \in Range(b)
    BY <1>3, <2>2, <2>3, <2>4, <2>5, <2>6 DEF Range
  <2> QED BY <2>7 DEF Ended
<1>6. Ended(b) = (c + 1)..d
  BY <1>4, <1>5
<1>7. Cardinality((c + 1)..d) = d - c
  <2>1. c + 1 \in Int /\ d \in Int /\ (IF c + 1 > d THEN 0 ELSE d - (c + 1) + 1) = d - c
    BY <1>1
  <2> QED BY <2>1, FS_Interval
<1>8. \A i \in 1..(d - c) : Min((c + 1)..d) = c + 1
  <2>1. SUFFICES ASSUME d - c > 0 PROVE Min((c + 1)..d) = c + 1
    BY <1>1
  <2>2. c + 1 \in (c + 1)..d /\ \A y \in (c + 1)..d : c + 1 <= y
    BY <1>1, <2>1
  <2>3. \A z \in (c + 1)..d : (\A y \in (c + 1)..d : z <= y) => z = c + 1
    BY <1>1, <2>2
  <2> QED BY <2>2, <2>3 DEF Min
<1> DEFINE s == SubSeq(text, c + 1, d)
<1>9. s = [i \in 1..(d - c) |-> text[(c + 1) + i - 1]]
  <2>1. d - (c + 1) + 1 = d - c
    BY <1>1
  <2>2. s \in Seq(Nat) /\ Len(s) = d - c /\ \A i \in 1..(d - (c + 1) + 1) : s[i] = text[(c + 1) + i - 1]
    <3>1. \A k \in (c + 1)..d : text[k] \in Nat
      BY <1>1, Sizes
    <3>2. c + 1 \in Int /\ d \in Int /\ (IF c + 1 <= d THEN d - (c + 1) + 1 ELSE 0) = d - c
      BY <1>1
    <3> QED BY <3>1, <3>2, SubSeqProperties
  <2> HIDE DEF s
  <2> QED BY <2>1, <2>2
<1>10. Characters(b) = [i \in 1..(d - c) |-> text[(c + 1) + i - 1]]
  BY <1>6, <1>7, <1>8 DEF Characters
<1> QED BY <1>9, <1>10 DEF b

\* A byte is the first of its character exactly where the one before it ends a character.
LEMMA StartsAt ==
  ASSUME Texted, NEW d \in 0..Len(text), Ends(d) < AllBytes
  PROVE  /\ d + 1 \in 1..Len(text) /\ Ends(d) + 1 \in 1..AllBytes
         /\ Bytes(text)[Ends(d) + 1].place = 1 /\ Bytes(text)[Ends(d) + 1].of = text[d + 1]
         /\ Ends(d + 1) = Ends(d) + text[d + 1]
<1>1. Len(text) \in Nat /\ Ends(d) \in Nat /\ AllBytes \in Nat /\ Ends(Len(text)) = AllBytes
  BY Sizes
<1>2. d # Len(text)
  BY <1>1
<1>3. d + 1 \in 1..Len(text) /\ d + 1 \in 0..Len(text) /\ (d + 1) - 1 = d /\ d < d + 1
  BY <1>1, <1>2
<1>4. Ends(d) < Ends(d + 1) /\ Ends(d + 1) \in Nat
  BY <1>3, EndsInOrder, Sizes
<1>5. Ends(d) + 1 \in 1..AllBytes /\ Ends(d) < Ends(d) + 1 /\ Ends(d) + 1 <= Ends(d + 1)
  BY <1>1, <1>4
<1>6. /\ Bytes(text)[Ends(d) + 1].place = (Ends(d) + 1) - Ends((d + 1) - 1)
      /\ Bytes(text)[Ends(d) + 1].of = text[d + 1] /\ Ends(d + 1) = Ends((d + 1) - 1) + text[d + 1]
  BY <1>3, <1>5, CharacterAt
<1>7. (Ends(d) + 1) - Ends(d) = 1
  BY <1>1
<1> QED BY <1>3, <1>5, <1>6, <1>7

LEMMA PlaceOne ==
  ASSUME Texted, NEW p \in 1..AllBytes, Bytes(text)[p].place = 1
  PROVE  \E d \in 0..Len(text) : p = Ends(d) + 1
<1>1. PICK c \in 1..Len(text) : Ends(c - 1) < p /\ p <= Ends(c)
  BY CharacterAt
<1>2. Bytes(text)[p].place = p - Ends(c - 1)
  BY <1>1, CharacterAt
<1>3. c - 1 \in 0..Len(text) /\ Ends(c - 1) \in Nat /\ AllBytes \in Nat
  <2>1. c - 1 \in 0..Len(text)
    BY Sizes
  <2> QED BY <2>1, Sizes
<1>4. p = Ends(c - 1) + 1
  BY <1>2, <1>3
<1> QED BY <1>3, <1>4

\* wholeHead() keeps a beginning of the output up to the end of a character, all but less than a character of it.
LEMMA HeadCut ==
  ASSUME Texted, NEW h \in 0..AllBytes
  PROVE  \E c \in 0..Len(text) :
           WholeHead(Between(0, h)) = Between(0, Ends(c)) /\ Ends(c) <= h /\ h < Ends(c) + UTFMax
<1> DEFINE b == Between(0, h)
           I == {i \in 1..Len(b) : b[i].place = 1}
           last == IF I # {} THEN Max(I) ELSE 0
<1>1. /\ Len(text) \in Nat /\ AllBytes \in Nat /\ h \in Nat /\ h <= AllBytes /\ Ends(0) = 0 /\ UTFMax \in Nat \ {0}
      /\ 0 \in 0..Len(text)
  BY Sizes, CappedAssumption
<1>2. b \in Seq(ByteOnes) /\ Len(b) = h /\ \A i \in 1..h : b[i] = Bytes(text)[i]
  <2>1. /\ b \in Seq(ByteOnes) /\ Len(b) = h - 0 /\ \A i \in 1..(h - 0) : b[i] = Bytes(text)[0 + i]
    <3>1. 0 \in Nat /\ 0 <= h
      BY <1>1
    <3> QED BY <1>1, <3>1, BytesBetween
  <2>2. h - 0 = h /\ \A i \in 1..h : 0 + i = i
    BY <1>1
  <2> HIDE DEF b
  <2> QED BY <2>1, <2>2
<1>3. WholeHead(b) = IF last > 0 /\ Len(b) - last < UTFMax /\ Len(b) - last + 1 < b[last].of THEN SubSeq(b, 1, last - 1) ELSE b
  BY DEF WholeHead, SelectLastInSeq
<1> HIDE DEF b
<1>4. CASE h = 0
  <2>1. I = {}
    BY <1>2, <1>4
  <2>2. WholeHead(b) = b
    BY <1>3, <2>1
  <2>3. WholeHead(b) = Between(0, Ends(0)) /\ Ends(0) <= h /\ h < Ends(0) + UTFMax
    BY <1>1, <1>4, <2>2 DEF b
  <2> QED BY <1>1, <2>3 DEF b
<1>5. CASE h # 0
  <2>1. PICK c \in 1..Len(text) : Ends(c - 1) < h /\ h <= Ends(c)
    BY <1>1, <1>5, CharacterAt
  <2>2. /\ c - 1 \in 0..Len(text) /\ c \in 0..Len(text) /\ Ends(c - 1) \in Nat /\ Ends(c) \in Nat
        /\ Ends(c) = Ends(c - 1) + text[c] /\ text[c] \in Nat /\ text[c] <= UTFMax /\ c \in Nat
    <3>1. c - 1 \in 0..Len(text) /\ c \in 0..Len(text) /\ c \in Nat
      BY <1>1
    <3> QED BY <3>1, Sizes
  <2> DEFINE s == Ends(c - 1) + 1
  <2>3. s \in 1..h /\ s \in Nat /\ b[s].place = 1 /\ b[s].of = text[c]
    <3>1. Ends(c - 1) < AllBytes /\ (c - 1) + 1 = c
      BY <1>1, <2>1, <2>2
    <3>2. Bytes(text)[s].place = 1 /\ Bytes(text)[s].of = text[c]
      BY <2>2, <3>1, StartsAt
    <3>3. s \in 1..h
      BY <1>1, <2>1, <2>2
    <3> QED BY <1>1, <1>2, <3>2, <3>3
  <2>4. ASSUME NEW i \in I PROVE i <= s
    <3>1. i \in 1..h /\ Bytes(text)[i].place = 1 /\ i \in 1..AllBytes
      BY <1>1, <1>2
    <3>2. PICK d \in 0..Len(text) : i = Ends(d) + 1
      BY <3>1, PlaceOne
    <3>3. ~ (c <= d)
      <4>1. c <= d => Ends(c) <= Ends(d)
        BY <2>2, EndsInOrder
      <4>2. Ends(d) \in Nat
        BY Sizes
      <4> QED BY <1>1, <2>1, <2>2, <3>1, <3>2, <4>1, <4>2
    <3>4. d <= c - 1
      BY <1>1, <2>2, <3>3
    <3>5. Ends(d) <= Ends(c - 1) /\ Ends(d) \in Nat
      BY <2>2, <3>4, EndsInOrder, Sizes
    <3> QED BY <2>2, <3>2, <3>5
  <2>5. last = s
    <3>1. s \in I
      BY <1>2, <2>3
    <3>2. \A z \in I : (\A y \in I : z >= y) => z = s
      <4>1. \A z \in I : z \in Int /\ z <= s
        BY <1>1, <1>2, <2>4
      <4> HIDE DEF I, s
      <4> QED BY <2>3, <3>1, <4>1
    <3>3. \A y \in I : s >= y
      <4>1. \A z \in I : z \in Int /\ z <= s
        BY <1>1, <1>2, <2>4
      <4> QED BY <2>3, <4>1
    <3> HIDE DEF I, s
    <3>4. Max(I) = s
      BY <3>1, <3>2, <3>3 DEF Max
    <3> QED BY <3>1, <3>4
  <2> HIDE DEF last, I
  <2>6. CASE h = Ends(c)
    <3>1. ~ (h - s + 1 < text[c])
      BY <1>1, <2>2, <2>6
    <3>2. WholeHead(b) = b
      BY <1>2, <1>3, <2>3, <2>5, <3>1
    <3>3. Between(0, Ends(c)) = b
      BY <2>6 DEF b
    <3>4. Ends(c) <= h /\ h < Ends(c) + UTFMax
      BY <1>1, <2>2, <2>6
    <3> QED BY <2>2, <3>2, <3>3, <3>4 DEF b
  <2>7. CASE h # Ends(c)
    <3>1. h - s + 1 < text[c] /\ h - s < UTFMax /\ s > 0 /\ s - 1 = Ends(c - 1)
      BY <1>1, <2>1, <2>2, <2>7
    <3>2. WholeHead(b) = SubSeq(b, 1, Ends(c - 1))
      BY <1>2, <1>3, <2>3, <2>5, <3>1
    <3>3. SubSeq(b, 1, Ends(c - 1)) = Between(0, Ends(c - 1))
      <4> DEFINE y == Ends(c - 1)
      <4>1. /\ y \in Nat /\ 0 \in Nat /\ 1 \in Nat /\ 0 <= 0 /\ 0 <= y /\ y <= h /\ h <= AllBytes
            /\ 0 + 1 >= 0 + 1 /\ 0 + 1 <= 0 + 1 /\ 0 + y >= y /\ 0 + y <= y
        BY <1>1, <2>1, <2>2
      <4> HIDE DEF y
      <4>2. Part(Between(0, h), 1, y) = Between(0, y)
        BY <4>1, PartOfPart
      <4> QED BY <4>2 DEF b, y, Part
    <3>4. Ends(c - 1) <= h /\ h < Ends(c - 1) + UTFMax
      BY <1>1, <2>1, <2>2, <2>7
    <3> QED BY <2>2, <3>2, <3>3, <3>4 DEF b
  <2> QED BY <2>6, <2>7
<1> QED BY <1>4, <1>5

\* wholeTail() keeps an end of the output from the end of a character on, all but less than a character of it.
LEMMA TailCut ==
  ASSUME Texted, NEW a \in Nat, NEW t \in Nat, a + UTFMax <= t, t <= AllBytes
  PROVE  \E c \in 0..Len(text) :
           WholeTail(Between(a, t)) = Between(Ends(c), t) /\ a <= Ends(c) /\ Ends(c) < a + UTFMax
<1> DEFINE b == Between(a, t)
           f == SubSeq(b, 1, Smaller(UTFMax, Len(b)))
           I == {i \in 1..Len(f) : f[i].place = 1}
           begins == IF I # {} THEN Min(I) ELSE 0
<1>1. /\ Len(text) \in Nat /\ AllBytes \in Nat /\ UTFMax \in Nat \ {0}
      /\ a + UTFMax \in Nat /\ a <= t /\ UTFMax <= t - a /\ a < AllBytes
  BY Sizes, CappedAssumption
<1>2. b \in Seq(ByteOnes) /\ Len(b) = t - a /\ \A i \in 1..(t - a) : b[i] = Bytes(text)[a + i]
  BY <1>1, BytesBetween
<1>3. WholeTail(b) = IF begins > 0 THEN SubSeq(b, begins, Len(b)) ELSE b
  BY DEF WholeTail, SelectInSeq
<1> HIDE DEF b
<1>4. Smaller(UTFMax, Len(b)) = UTFMax
  BY <1>1, <1>2 DEF Smaller
<1>5. Len(f) = UTFMax /\ \A i \in 1..UTFMax : f[i] = Bytes(text)[a + i]
  <2>1. f = Between(a, a + UTFMax)
    <3> DEFINE y == a + UTFMax
    <3>1. /\ y \in Nat /\ UTFMax \in Nat /\ 1 \in Nat /\ a <= a /\ a <= y /\ y <= t
          /\ a + 1 >= a + 1 /\ a + 1 <= a + 1 /\ a + UTFMax >= y /\ a + UTFMax <= y
      BY <1>1
    <3> HIDE DEF y
    <3>2. Part(Between(a, t), 1, UTFMax) = Between(a, y)
      BY <3>1, PartOfPart
    <3> QED BY <1>4, <3>2 DEF b, y, Part
  <2>2. (a + UTFMax) - a = UTFMax /\ a <= a + UTFMax /\ a + UTFMax <= AllBytes
    BY <1>1
  <2> HIDE DEF f
  <2> QED BY <1>1, <2>1, <2>2, BytesBetween
<1> HIDE DEF f
\* The first end of a character from a on.
<1>6. PICK c \in 0..Len(text) :
        /\ a <= Ends(c) /\ Ends(c) < a + UTFMax /\ Ends(c) \in Nat
        /\ \A d \in 0..Len(text) : a <= Ends(d) => Ends(c) <= Ends(d)
  <2>1. a + 1 \in 1..AllBytes
    BY <1>1
  <2>2. PICK c \in 1..Len(text) : Ends(c - 1) < a + 1 /\ a + 1 <= Ends(c)
    BY <2>1, CharacterAt
  <2>3. /\ c - 1 \in 0..Len(text) /\ c \in 0..Len(text) /\ Ends(c - 1) \in Nat /\ Ends(c) \in Nat
        /\ Ends(c) = Ends(c - 1) + text[c] /\ text[c] \in Nat /\ text[c] <= UTFMax /\ c \in Nat
    <3>1. c - 1 \in 0..Len(text) /\ c \in 0..Len(text) /\ c \in Nat
      BY <1>1
    <3> QED BY <3>1, Sizes
  <2>4. CASE a = Ends(c - 1)
    <3>1. a <= Ends(c - 1) /\ Ends(c - 1) < a + UTFMax
      BY <1>1, <2>4
    <3>2. \A d \in 0..Len(text) : a <= Ends(d) => Ends(c - 1) <= Ends(d)
      BY <2>4
    <3> QED BY <2>3, <3>1, <3>2
  <2>5. CASE a # Ends(c - 1)
    <3>1. a <= Ends(c) /\ Ends(c) < a + UTFMax
      BY <1>1, <2>2, <2>3, <2>5
    <3>2. ASSUME NEW d \in 0..Len(text), a <= Ends(d) PROVE Ends(c) <= Ends(d)
      <4>1. ~ (d <= c - 1)
        <5>1. d <= c - 1 => Ends(d) <= Ends(c - 1)
          BY <2>3, EndsInOrder
        <5>2. Ends(d) \in Nat
          BY Sizes
        <5> QED BY <2>2, <2>3, <2>5, <3>2, <5>1, <5>2
      <4>2. c <= d
        BY <1>1, <2>3, <4>1
      <4> QED BY <2>3, <4>2, EndsInOrder
    <3> QED BY <2>3, <3>1, <3>2
  <2> QED BY <2>4, <2>5
<1> DEFINE i == (Ends(c) - a) + 1
<1>7. i \in 1..UTFMax /\ a + i = Ends(c) + 1 /\ i \in Nat
  BY <1>1, <1>6
<1>8. f[i].place = 1
  <2>1. Ends(c) < AllBytes
    BY <1>1, <1>6
  <2>2. Bytes(text)[Ends(c) + 1].place = 1
    BY <2>1, StartsAt
  <2> QED BY <1>5, <1>7, <2>2
<1>9. ASSUME NEW j \in I PROVE i <= j /\ j \in Nat
  <2>1. j \in 1..UTFMax /\ Bytes(text)[a + j].place = 1 /\ a + j \in 1..AllBytes
    BY <1>1, <1>5
  <2>2. PICK d \in 0..Len(text) : a + j = Ends(d) + 1
    BY <2>1, PlaceOne
  <2>3. Ends(d) \in Nat
    BY Sizes
  <2>4. a <= Ends(d)
    BY <1>1, <2>1, <2>2, <2>3
  <2>5. Ends(c) <= Ends(d)
    BY <1>6, <2>4
  <2> QED BY <1>1, <1>6, <2>1, <2>2, <2>3, <2>5
<1>10. begins = i
  <2>1. i \in I
    BY <1>5, <1>7, <1>8
  <2> HIDE DEF I, i
  <2>2. \A y \in I : i <= y
    BY <1>9
  <2>3. \A z \in I : (\A y \in I : z <= y) => z = i
    BY <1>7, <1>9, <2>1
  <2>4. Min(I) = i
    BY <2>1, <2>2, <2>3 DEF Min
  <2> QED BY <2>1, <2>4
<1> HIDE DEF begins, I
<1>11. WholeTail(b) = SubSeq(b, (Ends(c) - a) + 1, t - a)
  <2>1. begins = (Ends(c) - a) + 1 /\ begins > 0
    BY <1>7, <1>10
  <2> HIDE DEF i
  <2> QED BY <1>2, <1>3, <2>1
<1>12. SubSeq(b, (Ends(c) - a) + 1, t - a) = Between(Ends(c), t)
  <2>2. Ends(c) <= t
    BY <1>1, <1>6
  <2>3. (Ends(c) - a) + 1 \in Nat /\ t - a \in Nat /\ a + ((Ends(c) - a) + 1) = Ends(c) + 1 /\ a + (t - a) = t
    BY <1>1, <1>6
  <2> DEFINE x == (Ends(c) - a) + 1
             y == t - a
  <2>4. /\ a + x >= Ends(c) + 1 /\ a + x <= Ends(c) + 1 /\ a + y >= t /\ a + y <= t /\ x \in Nat /\ y \in Nat
    BY <1>6, <2>3
  <2> HIDE DEF x, y
  <2>5. SubSeq(Between(a, t), x, y) = Between(Ends(c), t)
      <3> DEFINE z == Ends(c)
      <3>1. z \in Nat /\ a <= z /\ z <= t /\ t <= t /\ a + x >= z + 1 /\ a + x <= z + 1
        BY <1>6, <2>2, <2>4
      <3> HIDE DEF z
      <3>2. Part(Between(a, t), x, y) = Between(z, t)
        BY <2>4, <3>1, PartOfPart
      <3> QED BY <3>2 DEF z, Part
  <2> QED BY <2>5 DEF b, x, y
<1> QED BY <1>6, <1>11, <1>12 DEF b

-----------------------------------------------------------------------------
(*                          the output as it is kept                       *)

\* The bytes of the head.
HeadOf == Smaller(HeadRoom, total)

\* The tail is the last bytes after the head: all of them, or at least its room, and at most twice that.
TailInv ==
  \E n \in Nat :
    /\ tail = Between(total - n, total) /\ n <= total - HeadOf /\ n <= 2 * TailRoom
    /\ TailRoom <= n \/ n = total - HeadOf

\* The head is the first bytes of what was written.
CappedIInv ==
  /\ Texted /\ headOnly \in BOOLEAN /\ total \in 0..AllBytes
  /\ head = Between(0, HeadOf) /\ TailInv

\* The rooms of the head and of the tail are the cap, and each holds a character.
LEMMA Rooms ==
  ASSUME headOnly \in BOOLEAN
  PROVE  /\ HeadRoom \in Nat /\ TailRoom \in Nat /\ HeadRoom + TailRoom = MaxOutput /\ UTFMax \in Nat \ {0}
         /\ headOnly => TailRoom = 0
         /\ ~headOnly => UTFMax <= HeadRoom /\ UTFMax <= TailRoom
<1>1. MaxOutput \in Nat /\ UTFMax \in Nat \ {0} /\ 2 * UTFMax <= MaxOutput
  BY CappedAssumption
<1>2. MaxOutput \div 2 \in Nat /\ UTFMax <= MaxOutput \div 2 /\ 2 * (MaxOutput \div 2) <= MaxOutput
  BY <1>1
<1> QED BY <1>1, <1>2 DEF HeadRoom, TailRoom

LEMMA Twice == ASSUME NEW x \in Nat PROVE 2 * x \in Nat /\ x <= 2 * x /\ (x = 0 => 2 * x = 0)
OBVIOUS

\* The last n bytes of a part.
LEMMA LatestOf ==
  ASSUME Texted, NEW a \in Nat, NEW b \in Nat, NEW n \in Nat, a <= b, b <= AllBytes
  PROVE  Latest(Between(a, b), n) = Between(b - Smaller(n, b - a), b)
BY Sizes, LatestOfStretch DEF Between, AllBytes

\* A part of nothing.
LEMMA NoPart == ASSUME Texted, NEW a \in 0..AllBytes, NEW b \in 0..AllBytes PROVE Between(a, a) = Between(b, b) /\ Between(a, a) = <<>>
<1>1. a \in Nat /\ b \in Nat /\ a + 1 > a /\ b + 1 > b /\ a + 1 \in Int /\ b + 1 \in Int /\ a \in Int /\ b \in Int
  BY Sizes
<1> QED BY <1>1, SubSeqEmpty DEF Between, Stretch

\* A write leaves the head and the tail what they are of what is written by then.
LEMMA CappedWriteStep ==
  ASSUME CappedIInv, NEW n \in 1..MaxPiece, CappedWrite(n)
  PROVE  CappedIInv'
<1>1. n \in Nat /\ n >= 1
  BY CappedAssumption
<1>2. /\ Texted /\ headOnly \in BOOLEAN /\ total \in Nat /\ total <= AllBytes /\ AllBytes \in Nat
      /\ text' = text /\ headOnly' = headOnly /\ total' = total + n /\ n <= AllBytes - total
  BY Sizes DEF CappedIInv, CappedWrite, AllBytes
<1>3. total' \in Nat /\ total <= total' /\ total' <= AllBytes /\ AllBytes' = AllBytes /\ Texted'
  BY <1>1, <1>2 DEF AllBytes, Texted
<1>4. HeadRoom' = HeadRoom /\ TailRoom' = TailRoom
  BY <1>2 DEF HeadRoom, TailRoom
<1>5. \A x, y : Between(x, y)' = Between(x, y)
  BY <1>2 DEF Between, Stretch
<1> DEFINE h == HeadOf
           taken == Smaller(HeadRoom - Len(head), n)
           m == total + taken
           piece == SubSeq(Bytes(text), total + 1, total + n)
           rest == SubSeq(piece, taken + 1, n)
           twice == 2 * TailRoom
<1>6. HeadRoom \in Nat /\ TailRoom \in Nat /\ h \in Nat /\ h <= total /\ h <= HeadRoom /\ (h = total \/ h = HeadRoom)
  BY <1>2, Rooms DEF HeadOf, Smaller
<1>7. Len(head) = h
  <2>1. head = Between(0, h) /\ 0 <= h /\ h <= AllBytes /\ h - 0 = h
    BY <1>2, <1>6 DEF CappedIInv
  <2> QED BY <1>2, <1>6, <2>1, BytesBetween
<1>8. taken \in Nat /\ taken <= n /\ m \in Nat /\ total <= m /\ m <= total' /\ taken <= HeadRoom - h /\ (taken = n \/ taken = HeadRoom - h)
  BY <1>1, <1>2, <1>6, <1>7 DEF Smaller
<1>9. piece = Between(total, total')
  BY <1>2 DEF Between, Stretch
<1>10. SubSeq(piece, 1, taken) = Between(total, m)
  <2>1. 1 \in Nat /\ total <= total /\ total + 1 >= total + 1 /\ total + 1 <= total + 1 /\ total + taken >= m /\ total + taken <= m
    BY <1>2, <1>8
  <2> HIDE DEF m, taken
  <2>2. Part(Between(total, total'), 1, taken) = Between(total, m)
    BY <1>2, <1>3, <1>8, <2>1, PartOfPart
  <2> QED BY <1>9, <2>2 DEF Part
<1>11. rest = Between(m, total')
  <2>1. /\ taken + 1 \in Nat /\ total' <= total' /\ total + (taken + 1) >= m + 1 /\ total + (taken + 1) <= m + 1
        /\ total + n >= total' /\ total + n <= total'
    BY <1>1, <1>2, <1>3, <1>8
  <2> DEFINE c == taken + 1
  <2> HIDE DEF m, taken, c
  <2>2. c \in Nat /\ total + c >= m + 1 /\ total + c <= m + 1
    BY <2>1 DEF c
  <2>3. Part(Between(total, total'), c, n) = Between(m, total')
    BY <1>1, <1>2, <1>3, <1>8, <2>1, <2>2, PartOfPart
  <2> QED BY <1>9, <2>3 DEF Part, c
<1>12. head' = head \o SubSeq(piece, 1, taken) /\ tail' = IF TailRoom > 0 /\ rest # <<>> THEN Trimmed(tail \o rest) ELSE tail
  BY DEF CappedWrite
<1> HIDE DEF piece, rest
<1>13. HeadOf' = Smaller(HeadRoom, total') /\ HeadOf' \in Nat /\ HeadOf' <= total'
  BY <1>3, <1>4, <1>6 DEF HeadOf, Smaller
<1>14. (taken > 0 => h = total) /\ HeadOf' = h + taken /\ (taken > 0 => HeadOf' = m)
  <2>1. HeadOf' = IF HeadRoom < total' THEN HeadRoom ELSE total'
    BY <1>13 DEF Smaller
  <2>2. h = IF HeadRoom < total THEN HeadRoom ELSE total
    BY DEF HeadOf, Smaller
  <2> HIDE DEF taken, h
  <2> QED BY <1>1, <1>2, <1>6, <1>8, <2>1, <2>2
<1>15. head' = Between(0, HeadOf')
  <2>1. CASE taken > 0
    <3>1. 0 <= total /\ m <= AllBytes /\ 0 \in Nat
      BY <1>2, <1>3, <1>8
    <3>2. head = Between(0, total) /\ HeadOf' = m
      BY <1>14, <2>1 DEF CappedIInv
    <3> HIDE DEF m, taken
    <3>3. Between(0, total) \o Between(total, m) = Between(0, m)
      BY <1>2, <1>8, <3>1, PartsJoined
    <3> QED BY <1>10, <1>12, <3>2, <3>3
  <2>2. CASE taken = 0
    <3>1. head = Between(0, h) /\ HeadOf' = h /\ m = total
      BY <1>2, <1>6, <1>14, <2>2 DEF CappedIInv
    <3>2. Between(total, m) = <<>>
      BY <1>2, <3>1, NoPart
    <3>3. head \in Seq(ByteOnes)
      <4>1. 0 \in Nat /\ 0 <= h /\ h <= AllBytes
        BY <1>2, <1>6
      <4> QED BY <1>2, <1>6, <3>1, <4>1, BytesBetween
    <3>4. head \o <<>> = head
      BY <3>3, ConcatEmptySeq
    <3> QED BY <1>10, <1>12, <3>1, <3>2, <3>4
  <2> QED BY <1>8, <2>1, <2>2
<1>16. TailInv'
  <2>1. PICK k \in Nat : /\ tail = Between(total - k, total) /\ k <= total - h /\ k <= twice
                         /\ TailRoom <= k \/ k = total - h
    BY DEF CappedIInv, TailInv
  <2>2. SUFFICES \E j \in Nat : /\ tail' = Between(total' - j, total') /\ j <= total' - HeadOf' /\ j <= twice
                                /\ TailRoom <= j \/ j = total' - HeadOf'
    BY <1>4, <1>5 DEF TailInv
  <2>0. twice \in Nat /\ TailRoom <= twice /\ (TailRoom = 0 => twice = 0)
    BY <1>6, Twice
  <2> HIDE DEF twice, taken, h
  <2>3. CASE taken = n
    <3>1. h = total /\ k = 0 /\ m = total' /\ HeadOf' = total' /\ total' \in 0..AllBytes
      BY <1>1, <1>2, <1>3, <1>6, <1>8, <1>14, <2>1, <2>3
    <3>2. rest = <<>>
      BY <1>2, <1>11, <3>1, NoPart
    <3>3. tail' = Between(total' - 0, total')
      <4>1. tail' = Between(total, total)
        BY <1>2, <1>12, <2>1, <3>1, <3>2
      <4> QED BY <1>2, <1>3, <4>1, NoPart
    <3>4. \A x \in Nat : x - x = 0 /\ x - 0 = x
      OBVIOUS
    <3>5. 0 <= total' - HeadOf' /\ 0 = total' - HeadOf'
      <4> DEFINE x == total'
      <4>1. x \in Nat /\ HeadOf' = x
        BY <1>3, <3>1
      <4> HIDE DEF x
      <4>2. 0 <= x - HeadOf' /\ 0 = x - HeadOf'
        BY <3>4, <4>1
      <4> QED BY <4>2 DEF x
    <3>6. 0 \in Nat /\ 0 <= twice
      BY <2>0
    <3> QED BY <3>3, <3>5, <3>6
  <2>4. CASE taken # n
    <3>1. HeadOf' = HeadRoom /\ taken = HeadRoom - h /\ m < total'
      BY <1>1, <1>2, <1>6, <1>8, <1>14, <2>4
    <3>2. k <= m - HeadRoom /\ m \in Nat /\ m - k \in Nat /\ (TailRoom <= k \/ k = m - HeadRoom) /\ HeadRoom <= m
      BY <1>2, <1>6, <1>8, <1>14, <2>1, <3>1
    <3>3. tail = Between(m - k, m)
      <4>1. CASE taken > 0
        <5>1. k = 0 /\ total \in 0..AllBytes /\ m \in 0..AllBytes /\ total - k = total /\ m - k = m
          BY <1>2, <1>3, <1>6, <1>8, <1>14, <2>1, <4>1
        <5> QED BY <1>2, <2>1, <5>1, NoPart
      <4>2. CASE taken = 0
        BY <1>2, <2>1, <4>2
      <4> QED BY <1>8, <4>1, <4>2
    <3>4. rest # <<>>
      <4>1. m <= total' /\ total' - m > 0
        BY <1>3, <1>8, <3>1
      <4>2. Len(rest) = total' - m
        BY <1>2, <1>3, <1>8, <1>11, <4>1, BytesBetween
      <4>3. Len(<<>>) = 0
        OBVIOUS
      <4> QED BY <4>1, <4>2, <4>3
    <3>5. CASE TailRoom = 0
      <4>1. k = 0 /\ tail' = tail
        BY <1>12, <2>0, <2>1, <3>5
      <4>2. tail' = Between(total' - 0, total')
        <5>1. m \in 0..AllBytes /\ total' \in 0..AllBytes /\ m - k = m /\ total' - 0 = total'
          BY <1>2, <1>3, <1>8, <4>1
        <5> QED BY <1>2, <3>3, <4>1, <5>1, NoPart
      <4>3. 0 <= total' - HeadOf' /\ 0 <= twice /\ TailRoom <= 0 /\ 0 \in Nat
        BY <1>3, <1>13, <2>0, <3>5
      <4> QED BY <4>2, <4>3
    <3>6. CASE TailRoom > 0
      <4> DEFINE j == k + (total' - m)
      <4>1. j \in Nat /\ total' - j = m - k /\ m - k <= m /\ m <= total' /\ j <= total' - HeadRoom /\ (TailRoom <= j \/ j = total' - HeadRoom)
            /\ m - k <= total' /\ total' - (m - k) = j
        BY <1>3, <1>6, <1>8, <2>1, <3>2
      <4>2. tail \o rest = Between(m - k, total')
        <5> DEFINE a == m - k
        <5>1. a \in Nat /\ a <= m
          BY <3>2, <4>1
        <5> HIDE DEF a, m
        <5>2. Between(a, m) \o Between(m, total') = Between(a, total')
          BY <1>2, <1>3, <1>8, <5>1, PartsJoined
        <5> QED BY <1>11, <3>3, <5>2 DEF a
      <4>3. Len(tail \o rest) = j
        <5> DEFINE a == m - k
        <5>1. a \in Nat /\ a <= total' /\ total' - a = j
          BY <3>2, <4>1
        <5> HIDE DEF a, m, j
        <5>2. Len(Between(a, total')) = total' - a
          BY <1>2, <1>3, <5>1, BytesBetween
        <5> QED BY <4>2, <5>1, <5>2 DEF a
      <4>4. tail' = IF j > twice THEN Latest(tail \o rest, TailRoom) ELSE tail \o rest
        BY <1>12, <3>4, <3>6, <4>3 DEF Trimmed, twice
      <4>5. CASE j > twice
        <5> DEFINE a == m - k
        <5>1. a \in Nat /\ a <= total' /\ total' - a = j /\ Smaller(TailRoom, j) = TailRoom
          BY <1>6, <2>0, <3>2, <4>1, <4>5 DEF Smaller
        <5> HIDE DEF a, m, j
        <5>2. Latest(Between(a, total'), TailRoom) = Between(total' - Smaller(TailRoom, total' - a), total')
          BY <1>2, <1>3, <1>6, <5>1, LatestOf
        <5>3. tail' = Between(total' - TailRoom, total')
          BY <4>2, <4>4, <4>5, <5>1, <5>2 DEF a
        <5>4. TailRoom <= total' - HeadOf' /\ TailRoom <= twice /\ TailRoom <= TailRoom
          <6>1. HeadRoom = HeadOf' /\ j <= total' - HeadRoom
            BY <3>1, <4>1
          <6> HIDE DEF j
          <6>2. TailRoom <= total' - HeadRoom
            <7> DEFINE x == total' - HeadRoom
            <7>1. x \in Int /\ j \in Nat /\ TailRoom \in Nat
              BY <1>3, <1>6, <4>1
            <7>2. j <= x
              BY <6>1
            <7> HIDE DEF x
            <7>3. TailRoom <= x
              BY <2>0, <4>5, <7>1, <7>2
            <7> QED BY <7>3 DEF x
          <6> QED BY <1>6, <2>0, <6>1, <6>2
        <5> QED BY <1>6, <5>3, <5>4
      <4>6. CASE ~ (j > twice)
        <5>1. j <= twice
          BY <2>0, <4>1, <4>6
        <5>2. tail' = Between(total' - j, total')
          BY <4>1, <4>2, <4>4, <4>6
        <5> HIDE DEF j
        <5> QED BY <3>1, <4>1, <5>1, <5>2
      <4> QED BY <4>5, <4>6
    <3> QED BY <1>6, <3>5, <3>6
  <2> QED BY <2>3, <2>4
<1> QED
  <2>1. total' \in 0..AllBytes' /\ headOnly' \in BOOLEAN
    BY <1>2, <1>3
  <2>2. head' = (Between(0, HeadOf))'
    BY <1>2, <1>15 DEF Between, Stretch
  <2> QED BY <1>3, <1>16, <2>1, <2>2 DEF CappedIInv

-----------------------------------------------------------------------------
(*                       what snapshot() gives of it                       *)

\* What snapshot() gives: all of it, the head of a declared tool, or two ends between characters.
LEMMA SnapshotShape ==
  ASSUME CappedIInv
  PROVE  \/ total <= MaxOutput /\ Snapshot = [text |-> Between(0, total), tail |-> <<>>, omitted |-> 0]
         \/ /\ headOnly /\ HeadRoom = MaxOutput /\ HeadRoom < total
            /\ Snapshot = [text |-> Between(0, HeadRoom), tail |-> <<>>, omitted |-> total - HeadRoom]
         \/ /\ ~headOnly /\ MaxOutput < total
            /\ \E c, d \in 0..Len(text) :
                 /\ Snapshot = [text |-> Between(0, Ends(c)), tail |-> Between(Ends(d), total), omitted |-> Ends(d) - Ends(c)]
                 /\ Ends(c) <= HeadRoom /\ HeadRoom < Ends(c) + UTFMax
                 /\ total - TailRoom <= Ends(d) /\ Ends(d) < (total - TailRoom) + UTFMax
<1>1. /\ Texted /\ headOnly \in BOOLEAN /\ total \in Nat /\ total <= AllBytes /\ AllBytes \in Nat /\ total \in 0..AllBytes
      /\ head = Between(0, HeadOf)
  BY Sizes DEF CappedIInv
<1>2. /\ HeadRoom \in Nat /\ TailRoom \in Nat /\ HeadRoom + TailRoom = MaxOutput /\ UTFMax \in Nat \ {0}
      /\ headOnly => TailRoom = 0
      /\ ~headOnly => UTFMax <= HeadRoom /\ UTFMax <= TailRoom
  BY <1>1, Rooms
<1> DEFINE h == HeadOf
<1>3. h \in Nat /\ h <= total /\ h <= HeadRoom /\ (h = total \/ h = HeadRoom)
  BY <1>1, <1>2 DEF HeadOf, Smaller
<1>4. PICK n \in Nat : tail = Between(total - n, total) /\ n <= total - h /\ (TailRoom <= n \/ n = total - h)
  BY DEF CappedIInv, TailInv
<1> HIDE DEF h
<1> DEFINE k == Smaller(TailRoom, n)
           last == Latest(tail, TailRoom)
<1>5. /\ k \in Nat /\ k <= TailRoom /\ k <= n /\ k <= total - h /\ (k = total - h \/ k = TailRoom)
      /\ (n <= TailRoom => k = n) /\ (TailRoom <= n => k = TailRoom)
  <2>1. k = IF TailRoom < n THEN TailRoom ELSE n
    BY DEF Smaller
  <2> HIDE DEF k
  <2> QED BY <1>1, <1>2, <1>3, <1>4, <2>1
<1>6. last = Between(total - k, total)
  <2> DEFINE a == total - n
  <2>1. a \in Nat /\ a <= total /\ total - a = n
    BY <1>1, <1>3, <1>4
  <2> HIDE DEF a
  <2>2. Latest(Between(a, total), TailRoom) = Between(total - Smaller(TailRoom, total - a), total)
    BY <1>1, <1>2, <2>1, LatestOf
  <2> QED BY <1>4, <2>1, <2>2 DEF a
<1> HIDE DEF k, last
<1>7. Len(head) = h /\ Len(last) = k
  <2> DEFINE a == total - k
  <2>1. 0 \in Nat /\ 0 <= h /\ h <= AllBytes /\ h - 0 = h /\ a \in Nat /\ a <= total /\ total - a = k
    BY <1>1, <1>3, <1>5
  <2> HIDE DEF a
  <2>2. Len(Between(0, h)) = h - 0 /\ Len(Between(a, total)) = total - a
    BY <1>1, <1>3, <2>1, BytesBetween
  <2> QED BY <1>1, <1>6, <2>1, <2>2 DEF a, h
<1> DEFINE omitted == total - Len(head) - Len(last)
<1>8. omitted \in Nat /\ omitted = (total - h) - k
  BY <1>1, <1>3, <1>5, <1>7
<1>9. Snapshot =
        CASE omitted = 0 -> [text |-> head \o last, tail |-> <<>>, omitted |-> 0]
          [] omitted > 0 /\ headOnly -> [text |-> head, tail |-> <<>>, omitted |-> omitted]
          [] OTHER -> [text |-> WholeHead(head), tail |-> WholeTail(last),
                       omitted |-> omitted + Len(head) - Len(WholeHead(head)) + Len(last) - Len(WholeTail(last))]
  BY DEF Snapshot, last
<1> HIDE DEF omitted
<1>10. CASE omitted = 0
  <2>1. k = total - h /\ total - k = h /\ total <= MaxOutput
    BY <1>1, <1>2, <1>3, <1>5, <1>8, <1>10
  <2>2. Between(0, h) \o Between(h, total) = Between(0, total)
    <3>1. 0 \in Nat /\ 0 <= h
      BY <1>3
    <3> QED BY <1>1, <1>3, <3>1, PartsJoined
  <2>3. head \o last = Between(0, total)
    BY <1>1, <1>6, <2>1, <2>2 DEF h
  <2> QED BY <1>9, <1>10, <2>1, <2>3
<1>11. CASE omitted # 0
  <2>1. omitted > 0 /\ h = HeadRoom /\ k = TailRoom /\ omitted = total - HeadRoom - TailRoom /\ MaxOutput < total
    BY <1>1, <1>2, <1>3, <1>5, <1>8, <1>11
  <2>2. CASE headOnly
    <3>1. HeadRoom = MaxOutput /\ omitted = total - HeadRoom /\ HeadRoom < total
      BY <1>1, <1>2, <2>1, <2>2
    <3>2. Snapshot = [text |-> head, tail |-> <<>>, omitted |-> omitted]
      BY <1>9, <1>11, <2>1, <2>2
    <3>3. head = Between(0, HeadRoom)
      BY <1>1, <2>1 DEF h
    <3> QED BY <2>2, <3>1, <3>2, <3>3
  <2>3. CASE ~headOnly
    <3>1. Snapshot = [text |-> WholeHead(head), tail |-> WholeTail(last),
                      omitted |-> omitted + Len(head) - Len(WholeHead(head)) + Len(last) - Len(WholeTail(last))]
      BY <1>9, <1>11, <2>3
    <3>2. PICK c \in 0..Len(text) : WholeHead(Between(0, h)) = Between(0, Ends(c)) /\ Ends(c) <= h /\ h < Ends(c) + UTFMax
      <4>1. h \in 0..AllBytes
        BY <1>1, <1>3
      <4> QED BY <1>1, <4>1, HeadCut
    <3> DEFINE a == total - k
    <3>3. a \in Nat /\ a + UTFMax <= total /\ total - a = k /\ a = total - TailRoom
      BY <1>1, <1>2, <1>3, <1>5, <2>1, <2>3
    <3>4. last = Between(a, total)
      BY <1>6
    <3> HIDE DEF a
    <3>5. PICK d \in 0..Len(text) : WholeTail(Between(a, total)) = Between(Ends(d), total) /\ a <= Ends(d) /\ Ends(d) < a + UTFMax
      BY <1>1, <3>3, TailCut
    <3>6. Ends(c) \in Nat /\ Ends(d) \in Nat /\ Ends(d) <= total
      BY <1>1, <1>2, <3>3, <3>5, Sizes
    <3>7. Len(WholeHead(head)) = Ends(c) /\ Len(WholeTail(last)) = total - Ends(d)
      <4>1. 0 \in Nat /\ 0 <= Ends(c) /\ Ends(c) <= AllBytes /\ Ends(c) - 0 = Ends(c)
        BY <1>1, <1>3, <3>2, <3>6
      <4>2. Len(Between(0, Ends(c))) = Ends(c) - 0 /\ Len(Between(Ends(d), total)) = total - Ends(d)
        BY <1>1, <3>6, <4>1, BytesBetween
      <4> QED BY <1>1, <3>2, <3>4, <3>5, <4>1, <4>2 DEF h
    <3>8. omitted + Len(head) - Len(WholeHead(head)) + Len(last) - Len(WholeTail(last)) = Ends(d) - Ends(c)
      <4> DEFINE x == Ends(c)
                 y == Ends(d)
      <4> HIDE DEF x, y
      <4>1. x \in Nat /\ y \in Nat /\ Len(WholeHead(head)) = x /\ Len(WholeTail(last)) = total - y
        BY <3>6, <3>7 DEF x, y
      <4>2. omitted + Len(head) - Len(WholeHead(head)) + Len(last) - Len(WholeTail(last)) = y - x
        BY <1>1, <1>2, <1>7, <2>1, <4>1
      <4> QED BY <4>2 DEF x, y
    <3>9. Snapshot = [text |-> Between(0, Ends(c)), tail |-> Between(Ends(d), total), omitted |-> Ends(d) - Ends(c)]
      BY <1>1, <3>1, <3>2, <3>4, <3>5, <3>8 DEF h
    <3> QED BY <2>1, <2>3, <3>2, <3>3, <3>5, <3>9
  <2> QED BY <1>1, <2>2, <2>3
<1> QED BY <1>10, <1>11

\* A beginning and an end of a part from the first byte.
LEMMA IsBeginning ==
  ASSUME Texted, NEW x \in Nat, NEW b \in Nat, x <= b, b <= AllBytes
  PROVE  IsPrefix(Between(0, x), Between(0, b))
<1>1. /\ 0 \in Nat /\ 1 \in Nat /\ 0 <= 0 /\ 0 <= x /\ x <= x /\ x <= AllBytes /\ 0 <= b /\ x - 0 = x /\ b - 0 = b
      /\ 0 + 1 >= 0 + 1 /\ 0 + 1 <= 0 + 1 /\ 0 + x >= x /\ 0 + x <= x
  BY Sizes
<1>2. Part(Between(0, x), 1, x) = Between(0, x)
  BY <1>1, PartOfPart
<1>3. Part(Between(0, b), 1, x) = Between(0, x)
  BY <1>1, PartOfPart
<1>4. Len(Between(0, x)) = x /\ Len(Between(0, b)) = b
  BY <1>1, BytesBetween
<1> QED BY <1>2, <1>3, <1>4 DEF IsPrefix, Part

LEMMA TurnedRound ==
  ASSUME NEW S, NEW s \in Seq(S)
  PROVE  Reverse(s) \in Seq(S) /\ Len(Reverse(s)) = Len(s) /\ \A i \in 1..Len(s) : Reverse(s)[i] = s[(Len(s) - i) + 1]
BY DEF Reverse

LEMMA IsEnding ==
  ASSUME Texted, NEW x \in Nat, NEW b \in Nat, x <= b, b <= AllBytes
  PROVE  IsSuffix(Between(x, b), Between(0, b))
<1> DEFINE s == Between(x, b)
           t == Between(0, b)
           l == b - x
           u == SubSeq(Reverse(s), 1, l)
           v == SubSeq(Reverse(t), 1, l)
<1>1. /\ s \in Seq(ByteOnes) /\ Len(s) = l /\ \A i \in 1..l : s[i] = Bytes(text)[x + i]
      /\ t \in Seq(ByteOnes) /\ Len(t) = b /\ \A i \in 1..b : t[i] = Bytes(text)[0 + i]
  <2>1. 0 \in Nat /\ 0 <= b /\ b - 0 = b
    OBVIOUS
  <2> QED BY <2>1, BytesBetween
<1>2. l \in Nat /\ l <= b /\ l - 1 + 1 = l /\ 1 \in Int /\ l \in Int
  OBVIOUS
<1> HIDE DEF s, t
<1>3. /\ Reverse(s) \in Seq(ByteOnes) /\ Len(Reverse(s)) = l /\ \A i \in 1..l : Reverse(s)[i] = s[(l - i) + 1]
      /\ Reverse(t) \in Seq(ByteOnes) /\ Len(Reverse(t)) = b /\ \A i \in 1..b : Reverse(t)[i] = t[(b - i) + 1]
  <2>1. /\ Reverse(s) \in Seq(ByteOnes) /\ Len(Reverse(s)) = Len(s)
        /\ \A i \in 1..Len(s) : Reverse(s)[i] = s[(Len(s) - i) + 1]
    BY <1>1, TurnedRound
  <2>2. /\ Reverse(t) \in Seq(ByteOnes) /\ Len(Reverse(t)) = Len(t)
        /\ \A i \in 1..Len(t) : Reverse(t)[i] = t[(Len(t) - i) + 1]
    BY <1>1, TurnedRound
  <2> HIDE DEF l
  <2> QED BY <1>1, <2>1, <2>2
<1>4. /\ u \in Seq(ByteOnes) /\ Len(u) = l /\ \A i \in 1..l : u[i] = Reverse(s)[i]
      /\ v \in Seq(ByteOnes) /\ Len(v) = l /\ \A i \in 1..l : v[i] = Reverse(t)[i]
  BY <1>2, <1>3
<1> HIDE DEF u, v
<1>5. ASSUME NEW i \in 1..l PROVE u[i] = v[i]
  <2>1. (l - i) + 1 \in 1..l /\ (b - i) + 1 \in 1..b /\ x + ((l - i) + 1) = 0 + ((b - i) + 1) /\ i \in 1..b
    BY <1>2
  <2>2. s[(l - i) + 1] = Bytes(text)[0 + ((b - i) + 1)] /\ t[(b - i) + 1] = Bytes(text)[0 + ((b - i) + 1)]
    BY <1>1, <2>1
  <2> QED BY <1>3, <1>4, <2>1, <2>2
<1>6. u = v
  BY <1>4, <1>5, SeqEqual
<1> QED BY <1>2, <1>3, <1>6 DEF IsSuffix, IsPrefix, s, t, u, v

\* What is kept between two trims.
LEMMA KeptInPlace ==
  ASSUME CappedIInv
  PROVE  Len(head) <= HeadRoom /\ Len(tail) <= 2 * TailRoom
<1>1. /\ Texted /\ headOnly \in BOOLEAN /\ total \in Nat /\ total <= AllBytes /\ AllBytes \in Nat
      /\ head = Between(0, HeadOf)
  BY Sizes DEF CappedIInv
<1>2. HeadRoom \in Nat /\ TailRoom \in Nat
  BY <1>1, Rooms
<1> DEFINE h == HeadOf
<1>3. h \in Nat /\ h <= total /\ h <= HeadRoom
  BY <1>1, <1>2 DEF HeadOf, Smaller
<1>4. PICK n \in Nat : tail = Between(total - n, total) /\ n <= total - h /\ n <= 2 * TailRoom
  BY DEF CappedIInv, TailInv
<1> HIDE DEF h
<1> DEFINE a == total - n
<1>5. 0 \in Nat /\ 0 <= h /\ h <= AllBytes /\ h - 0 = h /\ a \in Nat /\ a <= total /\ total - a = n
  BY <1>1, <1>3, <1>4
<1> HIDE DEF a
<1>6. Len(Between(0, h)) = h - 0 /\ Len(Between(a, total)) = total - a
  BY <1>1, <1>3, <1>5, BytesBetween
<1>7. Len(head) = h /\ Len(tail) = n
  BY <1>1, <1>4, <1>5, <1>6 DEF a, h
<1> QED BY <1>3, <1>4, <1>7

\* The last byte before the end of a character is its last, the first after it is the first of the next.
LEMMA CutBetween ==
  ASSUME Texted, NEW c \in 0..Len(text), NEW b \in Nat, Ends(c) <= b, b <= AllBytes
  PROVE  /\ Between(0, Ends(c)) # <<>> => Last(Between(0, Ends(c))).place = Last(Between(0, Ends(c))).of
         /\ Between(Ends(c), b) # <<>> => Head(Between(Ends(c), b)).place = 1
<1>1. /\ Len(text) \in Nat /\ AllBytes \in Nat /\ Ends(c) \in Nat /\ Ends(c) <= AllBytes /\ Ends(0) = 0
      /\ \A d \in 0..Len(text) : Ends(d) \in Nat
  BY Sizes
<1> DEFINE s == Between(0, Ends(c))
           t == Between(Ends(c), b)
<1>2. /\ s \in Seq(ByteOnes) /\ Len(s) = Ends(c) /\ \A i \in 1..Ends(c) : s[i] = Bytes(text)[0 + i]
      /\ t \in Seq(ByteOnes) /\ Len(t) = b - Ends(c) /\ \A i \in 1..(b - Ends(c)) : t[i] = Bytes(text)[Ends(c) + i]
  <2>1. 0 \in Nat /\ 0 <= Ends(c) /\ Ends(c) - 0 = Ends(c)
    BY <1>1
  <2> QED BY <1>1, <2>1, BytesBetween
<1> HIDE DEF s, t
<1>3. ASSUME s # <<>> PROVE Last(s).place = Last(s).of
  <2>1. Ends(c) # 0
    BY <1>2, <1>3
  <2>2. Ends(c) >= 1 /\ Ends(c) \in 1..AllBytes /\ c \in 1..Len(text) /\ c - 1 \in 0..Len(text) /\ c - 1 < c /\ 0 + Ends(c) = Ends(c)
    BY <1>1, <2>1
  <2>3. Ends(c - 1) < Ends(c) /\ Ends(c) <= Ends(c)
    BY <1>1, <2>2, EndsInOrder
  <2>4. /\ Bytes(text)[Ends(c)].place = Ends(c) - Ends(c - 1)
        /\ Bytes(text)[Ends(c)].of = text[c] /\ Ends(c) = Ends(c - 1) + text[c]
    BY <2>2, <2>3, CharacterAt
  <2>5. Ends(c) - Ends(c - 1) = text[c]
    <3>1. Ends(c - 1) \in Nat /\ text[c] \in Nat
      BY <1>1, <2>2, Sizes
    <3> DEFINE x == Ends(c - 1)
               y == Ends(c)
    <3>2. x \in Nat /\ y = x + text[c]
      BY <2>4, <3>1
    <3> HIDE DEF x, y
    <3>3. y - x = text[c]
      BY <3>1, <3>2
    <3> QED BY <3>3 DEF x, y
  <2>6. Last(s) = Bytes(text)[Ends(c)]
    <3>1. s[Ends(c)] = Bytes(text)[Ends(c)]
      <4>1. Ends(c) \in 1..Ends(c)
        BY <1>1, <2>2
      <4>2. s[Ends(c)] = Bytes(text)[0 + Ends(c)]
        BY <1>2, <4>1
      <4> QED BY <2>2, <4>2
    <3> QED BY <1>2, <3>1 DEF Last
  <2> QED BY <2>4, <2>5, <2>6
<1>4. ASSUME t # <<>> PROVE Head(t).place = 1
  <2>1. Ends(c) < b
    BY <1>1, <1>2, <1>4
  <2>2. Ends(c) < AllBytes /\ 1 \in 1..(b - Ends(c))
    BY <1>1, <2>1
  <2>3. Bytes(text)[Ends(c) + 1].place = 1
    BY <2>2, StartsAt
  <2>4. t[1] = Bytes(text)[Ends(c) + 1]
    BY <1>2, <2>2
  <2>5. Head(t) = t[1]
    BY <1>2, <1>4
  <2> QED BY <2>3, <2>4, <2>5
<1> QED BY <1>3, <1>4 DEF s, t

\* The properties of what is kept, for each of the three shapes.
LEMMA KeptHolds ==
  ASSUME CappedIInv
  PROVE  KeptWithin /\ KeptIsEnough /\ KeptIsEnds /\ OmittedIsExact /\ NothingIsCut
<1>1. /\ Texted /\ headOnly \in BOOLEAN /\ total \in Nat /\ total <= AllBytes /\ AllBytes \in Nat /\ total \in 0..AllBytes
      /\ total <= total /\ 0 \in Nat /\ 0 <= total /\ total - 0 = total
  BY Sizes DEF CappedIInv
<1>2. HeadRoom \in Nat /\ TailRoom \in Nat /\ HeadRoom + TailRoom = MaxOutput /\ UTFMax \in Nat \ {0}
  BY <1>1, Rooms
<1>3. Written = Between(0, total)
  BY DEF Written, Between, Stretch
<1>4. Len(<<>>) = 0 /\ IsSuffix(<<>>, Written)
  <2>1. IsSuffix(Between(total, total), Between(0, total))
    BY <1>1, IsEnding
  <2>2. Between(total, total) = <<>>
    BY <1>1, NoPart
  <2> QED BY <1>3, <2>1, <2>2
<1>5. CASE total <= MaxOutput /\ Snapshot = [text |-> Between(0, total), tail |-> <<>>, omitted |-> 0]
  <2>1. Snapshot.text = Between(0, total) /\ Snapshot.tail = <<>> /\ Snapshot.omitted = 0
    BY <1>5
  <2>2. Len(Snapshot.text) = total /\ Len(Snapshot.tail) = 0
    BY <1>1, <1>4, <2>1, BytesBetween
  <2>3. IsPrefix(Snapshot.text, Written)
    BY <1>1, <1>3, <2>1, IsBeginning
  <2>4. KeptWithin
    BY <1>1, <1>5, <2>2, KeptInPlace DEF KeptWithin
  <2> QED BY <1>1, <1>4, <2>1, <2>2, <2>3, <2>4 DEF KeptIsEnough, KeptIsEnds, OmittedIsExact, NothingIsCut
<1>6. CASE /\ headOnly /\ HeadRoom = MaxOutput /\ HeadRoom < total
           /\ Snapshot = [text |-> Between(0, HeadRoom), tail |-> <<>>, omitted |-> total - HeadRoom]
  <2>1. Snapshot.text = Between(0, HeadRoom) /\ Snapshot.tail = <<>> /\ Snapshot.omitted = total - HeadRoom
    BY <1>6
  <2>2. HeadRoom <= total /\ HeadRoom <= AllBytes /\ HeadRoom - 0 = HeadRoom /\ 0 <= HeadRoom
    BY <1>1, <1>2, <1>6
  <2>3. Len(Snapshot.text) = HeadRoom /\ Len(Snapshot.tail) = 0
    BY <1>1, <1>2, <1>4, <2>1, <2>2, BytesBetween
  <2>4. IsPrefix(Snapshot.text, Written)
    BY <1>1, <1>2, <1>3, <2>1, <2>2, IsBeginning
  <2>5. KeptWithin
    BY <1>2, <1>6, <2>3, KeptInPlace DEF KeptWithin
  <2>6. HeadRoom + 0 + (total - HeadRoom) = total
    BY <1>1, <1>2
  <2> QED BY <1>4, <1>6, <2>1, <2>3, <2>4, <2>5, <2>6 DEF KeptIsEnough, KeptIsEnds, OmittedIsExact, NothingIsCut
<1>7. ASSUME ~headOnly, MaxOutput < total, NEW c \in 0..Len(text), NEW d \in 0..Len(text),
             Snapshot = [text |-> Between(0, Ends(c)), tail |-> Between(Ends(d), total), omitted |-> Ends(d) - Ends(c)],
             Ends(c) <= HeadRoom, HeadRoom < Ends(c) + UTFMax,
             total - TailRoom <= Ends(d), Ends(d) < (total - TailRoom) + UTFMax
      PROVE  KeptWithin /\ KeptIsEnough /\ KeptIsEnds /\ OmittedIsExact /\ NothingIsCut
  <2> DEFINE x == Ends(c)
             y == Ends(d)
  <2>1. Snapshot.text = Between(0, x) /\ Snapshot.tail = Between(y, total) /\ Snapshot.omitted = y - x
    BY <1>7
  <2>2. UTFMax <= TailRoom
    BY <1>1, <1>7, Rooms
  <2>3. x \in Nat /\ y \in Nat
    BY <1>1, Sizes
  <2>4. x <= HeadRoom /\ HeadRoom < x + UTFMax /\ total - TailRoom <= y /\ y < (total - TailRoom) + UTFMax
    BY <1>7
  <2>0. /\ y <= total => (Between(y, total) # <<>> => Head(Between(y, total)).place = 1)
        /\ Between(0, x) # <<>> => Last(Between(0, x)).place = Last(Between(0, x)).of
    <3>1. x <= AllBytes
      BY <1>1, Sizes
    <3>2. Between(0, x) # <<>> => Last(Between(0, x)).place = Last(Between(0, x)).of
      BY <1>1, <2>3, <3>1, CutBetween
    <3>3. y <= total => (Between(y, total) # <<>> => Head(Between(y, total)).place = 1)
      BY <1>1, CutBetween
    <3> QED BY <3>2, <3>3
  <2> HIDE DEF x, y
  <2>5. x <= total /\ y <= total /\ x <= AllBytes /\ x - 0 = x /\ 0 <= x
    BY <1>1, <1>2, <1>7, <2>2, <2>3, <2>4
  <2>6. Len(Snapshot.text) = x /\ Len(Snapshot.tail) = total - y
    BY <1>1, <2>1, <2>3, <2>5, BytesBetween
  <2>7. KeptWithin
    <3>1. x + (total - y) <= MaxOutput
      BY <1>1, <1>2, <2>3, <2>4
    <3> QED BY <2>6, <3>1, KeptInPlace DEF KeptWithin
  <2>8. x + (total - y) >= MaxOutput - 2 * (UTFMax - 1) /\ x + (total - y) + (y - x) = total
    BY <1>1, <1>2, <2>3, <2>4
  <2>9. IsPrefix(Snapshot.text, Written) /\ IsSuffix(Snapshot.tail, Written)
    BY <1>1, <1>3, <2>1, <2>3, <2>5, IsBeginning, IsEnding
  <2>10. NothingIsCut
    BY <2>0, <2>1, <2>5 DEF NothingIsCut
  <2>11. KeptIsEnough /\ OmittedIsExact
    BY <2>1, <2>6, <2>8 DEF KeptIsEnough, OmittedIsExact
  <2> QED BY <2>7, <2>9, <2>10, <2>11 DEF KeptIsEnds
<1> QED BY <1>5, <1>6, <1>7, SnapshotShape

-----------------------------------------------------------------------------
(*                         what she is shown of it                         *)

\* Some of the characters one after the other.
Run(a, b) == Stretch(text, a, b)

LEMMA RunIs ==
  ASSUME Texted, NEW a \in Nat, NEW b \in Nat, a <= b, b <= Len(text)
  PROVE  /\ Run(a, b) \in Seq(Widths) /\ Len(Run(a, b)) = b - a /\ \A i \in 1..(b - a) : Run(a, b)[i] = text[a + i]
         /\ Size(Run(a, b)) = Ends(b) - Ends(a)
<1>1. text \in Seq(Widths) /\ text \in Wide
  BY Sizes DEF Texted
<1>2. /\ Run(a, b) \in Seq(Widths) /\ Len(Run(a, b)) = b - a /\ \A i \in 1..(b - a) : Run(a, b)[i] = text[a + i]
  BY <1>1, StretchIs DEF Run
<1>3. Size(Run(a, b)) = EndOf(text, b) - EndOf(text, a)
  BY <1>1, SizeIs DEF Run, Stretch
<1> QED BY <1>2, <1>3 DEF Ends

LEMMA RunOfRun ==
  ASSUME Texted, NEW a \in Nat, NEW b \in Nat, NEW x \in Nat, NEW y \in Nat, a <= x, x <= y, y <= b, b <= Len(text),
         NEW c \in Nat, NEW d \in Nat, a + c >= x + 1, a + c <= x + 1, a + d >= y, a + d <= y
  PROVE  Part(Run(a, b), c, d) = Run(x, y)
BY StretchOfStretch DEF Run, Texted

LEMMA LatestRun ==
  ASSUME Texted, NEW a \in Nat, NEW b \in Nat, NEW n \in Nat, a <= b, b <= Len(text)
  PROVE  Latest(Run(a, b), n) = Run(b - Smaller(n, b - a), b)
BY LatestOfStretch DEF Run, Texted

LEMMA Halves ==
  /\ MaxShown \in Nat /\ MaxShown \div 2 \in Nat /\ MaxShown - MaxShown \div 2 \in Nat
  /\ (MaxShown \div 2) + (MaxShown - MaxShown \div 2) = MaxShown
<1>1. \A x \in Nat : x \div 2 \in Nat /\ x \div 2 <= x
  OBVIOUS
<1>2. MaxShown \in Nat
  BY CappedAssumption
<1> DEFINE x == MaxShown \div 2
<1>3. x \in Nat /\ x <= MaxShown
  BY <1>1, <1>2
<1> HIDE DEF x
<1>4. MaxShown - x \in Nat /\ x + (MaxShown - x) = MaxShown
  BY <1>2, <1>3
<1> QED BY <1>2, <1>3, <1>4 DEF x

\* An output kept whole, as she is shown it.
LEMMA WholeShown ==
  ASSUME Texted, total = AllBytes, NEW kept, kept.text = Between(0, total), kept.tail = <<>>, kept.omitted = 0
  PROVE  LET s == Shown(kept) IN Size(s.first) + Size(s.last) + s.dropped = total /\ Len(s.first) + Len(s.last) <= MaxShown
<1> DEFINE L == Len(text)
           half == MaxShown \div 2
           rest == MaxShown - half
           front == Characters(kept.text)
           back == Characters(kept.tail)
<1>1. /\ L \in Nat /\ AllBytes \in Nat /\ Ends(0) = 0 /\ Ends(L) = total /\ 0 \in 0..L /\ L \in 0..L /\ 0 <= L /\ L <= L /\ 0 \in Nat
      /\ \A c \in 0..L : Ends(c) \in Nat
  BY Sizes
<1>2. half \in Nat /\ rest \in Nat /\ half + rest = MaxShown /\ MaxShown \in Nat
  BY Halves
<1> HIDE DEF L, half, rest
<1>3. front = Run(0, L)
  <2>1. Characters(Between(Ends(0), Ends(L))) = SubSeq(text, 0 + 1, L)
    BY <1>1, CharactersBetween DEF L
  <2> QED BY <1>1, <2>1 DEF Run, Stretch
<1>4. back = <<>>
  <2>1. Characters(Between(Ends(0), Ends(0))) = SubSeq(text, 0 + 1, 0)
    BY <1>1, CharactersBetween DEF L
  <2>2. Between(0, 0) = <<>>
    <3>1. 0 \in 0..AllBytes
      BY <1>1
    <3> QED BY <3>1, NoPart
  <2>3. SubSeq(text, 0 + 1, 0) = <<>>
    BY SubSeqEmpty
  <2> QED BY <1>1, <2>1, <2>2, <2>3
<1>5. Len(front) = L /\ Size(front) = total /\ front \in Seq(Widths)
  <2>1. Len(Run(0, L)) = L - 0 /\ Size(Run(0, L)) = Ends(L) - Ends(0) /\ Run(0, L) \in Seq(Widths)
    BY <1>1, RunIs DEF L
  <2>2. L - 0 = L /\ Ends(L) - Ends(0) = total
    <3>1. \A x \in Nat : x - 0 = x
      OBVIOUS
    <3> QED BY <1>1, <3>1
  <2> QED BY <1>3, <2>1, <2>2
<1>6. Shown(kept) =
        CASE kept.omitted = 0 /\ back = <<>> /\ Len(front) <= MaxShown -> [first |-> front, last |-> <<>>, dropped |-> 0]
          [] kept.omitted = 0 /\ back = <<>> /\ Len(front) > MaxShown ->
               [first |-> SubSeq(front, 1, half), last |-> Latest(front, rest),
                dropped |-> LeftOut(SubSeq(front, half + 1, Len(front) - rest))]
          [] OTHER ->
               [first |-> SubSeq(front, 1, Smaller(half, Len(front))), last |-> Latest(back, rest),
                dropped |-> kept.omitted + LeftOut(SubSeq(front, half + 1, Len(front)))
                              + LeftOut(SubSeq(back, 1, Len(back) - Smaller(rest, Len(back))))]
  BY DEF Shown, half, rest
<1> HIDE DEF front, back
<1>7. CASE L <= MaxShown
  <2>1. Shown(kept) = [first |-> front, last |-> <<>>, dropped |-> 0]
    <3>1. Len(front) <= MaxShown /\ ~ (Len(front) > MaxShown)
      BY <1>1, <1>2, <1>5, <1>7
    <3> QED BY <1>4, <1>6, <3>1
  <2>2. Size(front) + Size(<<>>) + 0 = total /\ Len(front) + Len(<<>>) <= MaxShown
    BY <1>1, <1>5, <1>7, NoBytes
  <2> QED BY <2>1, <2>2
<1>8. CASE L > MaxShown
  <2> DEFINE m == L - rest
  <2>1. m \in Nat /\ half <= m /\ m <= L /\ half <= L /\ Smaller(rest, L - 0) = rest /\ m - half \in Nat
    BY <1>1, <1>2, <1>8 DEF Smaller
  <2> DEFINE mid == SubSeq(front, half + 1, m)
             s == [first |-> SubSeq(front, 1, half), last |-> Latest(front, rest), dropped |-> LeftOut(mid)]
  <2>2. Shown(kept) = s
    <3>1. ~ (Len(front) <= MaxShown) /\ Len(front) > MaxShown
      BY <1>1, <1>2, <1>5, <1>8
    <3> QED BY <1>4, <1>5, <1>6, <3>1
  <2> HIDE DEF m
  <2>3. SubSeq(front, 1, half) = Run(0, half)
    <3>1. 1 \in Nat /\ 0 <= 0 /\ 0 + 1 >= 0 + 1 /\ 0 + 1 <= 0 + 1 /\ 0 <= half /\ 0 + half >= half /\ 0 + half <= half
      BY <1>2
    <3>2. Part(Run(0, L), 1, half) = Run(0, half)
      BY <1>1, <1>2, <2>1, <3>1, RunOfRun DEF L
    <3> QED BY <1>3, <3>2 DEF Part
  <2>4. Latest(front, rest) = Run(m, L)
    <3>1. Latest(Run(0, L), rest) = Run(L - Smaller(rest, L - 0), L)
      BY <1>1, <1>2, LatestRun DEF L
    <3> QED BY <1>3, <2>1, <3>1 DEF m
  <2>5. mid = Run(half, m)
    <3> DEFINE c == half + 1
    <3>2. half - 0 = half /\ m - 0 = m /\ c \in Nat /\ 0 + c >= half + 1 /\ 0 + c <= half + 1 /\ 0 + m >= m /\ 0 + m <= m /\ 0 <= half
      BY <1>2, <2>1
    <3> HIDE DEF c
    <3>3. Part(Run(0, L), c, m) = Run(half, m)
      BY <1>1, <1>2, <2>1, <3>2, RunOfRun, SMTT(30) DEF L
    <3> QED BY <1>3, <3>3 DEF c, Part
  <2>6. /\ Len(Run(0, half)) = half /\ Size(Run(0, half)) = Ends(half) - Ends(0)
        /\ Len(Run(m, L)) = L - m /\ Size(Run(m, L)) = Ends(L) - Ends(m)
        /\ Size(Run(half, m)) = Ends(m) - Ends(half)
    <3>1. half - 0 = half /\ 0 <= half
      BY <1>2
    <3> QED BY <1>1, <1>2, <2>1, <3>1, RunIs DEF L
  <2>7. L - m = rest /\ half \in 0..L /\ m \in 0..L
    BY <1>1, <1>2, <2>1 DEF m
  <2> DEFINE x == Ends(half)
             y == Ends(m)
             z == Ends(L)
  <2>8. x \in Nat /\ y \in Nat /\ z \in Nat /\ z = total
    BY <1>1, <2>7
  <2> HIDE DEF x, y, z, mid
  <2>9. Size(s.first) = x - 0 /\ Size(s.last) = z - y /\ s.dropped = y - x /\ Len(s.first) = half /\ Len(s.last) = rest
    BY <1>1, <2>3, <2>4, <2>5, <2>6, <2>7 DEF x, y, z, LeftOut
  <2> HIDE DEF s
  <2>10. (x - 0) + (z - y) + (y - x) = z /\ half + rest <= MaxShown
    BY <1>2, <2>8
  <2> QED BY <2>2, <2>8, <2>9, <2>10
<1>9. L <= MaxShown \/ L > MaxShown
  BY <1>1, <1>2
<1> QED BY <1>7, <1>8, <1>9

\* An output kept as its two ends, as she is shown it.
LEMMA EndsShown ==
  ASSUME Texted, total = AllBytes, NEW c \in 0..Len(text), NEW d \in 0..Len(text), Ends(c) < Ends(d), NEW kept,
         kept.text = Between(0, Ends(c)), kept.tail = Between(Ends(d), total), kept.omitted = Ends(d) - Ends(c)
  PROVE  LET s == Shown(kept) IN Size(s.first) + Size(s.last) + s.dropped = total /\ Len(s.first) + Len(s.last) <= MaxShown
<1> DEFINE L == Len(text)
           half == MaxShown \div 2
           rest == MaxShown - half
           front == Characters(kept.text)
           back == Characters(kept.tail)
<1>1. /\ L \in Nat /\ AllBytes \in Nat /\ Ends(0) = 0 /\ Ends(L) = total /\ 0 \in 0..L /\ L \in 0..L /\ L <= L /\ 0 \in Nat
      /\ c \in Nat /\ d \in Nat /\ c <= L /\ d <= L /\ 0 <= c
      /\ \A e \in 0..L : Ends(e) \in Nat
  BY Sizes
<1>2. half \in Nat /\ rest \in Nat /\ half + rest = MaxShown /\ MaxShown \in Nat
  BY Halves
<1> HIDE DEF L, half, rest
<1>3. front = Run(0, c)
  <2>1. Characters(Between(Ends(0), Ends(c))) = SubSeq(text, 0 + 1, c)
    BY <1>1, CharactersBetween DEF L
  <2> QED BY <1>1, <2>1 DEF Run, Stretch
<1>4. back = Run(d, L)
  <2>1. Characters(Between(Ends(d), Ends(L))) = SubSeq(text, d + 1, L)
    BY <1>1, CharactersBetween DEF L
  <2> QED BY <1>1, <2>1 DEF Run, Stretch
<1>5. Len(front) = c /\ Len(back) = L - d
  <2>1. Len(Run(0, c)) = c - 0 /\ Len(Run(d, L)) = L - d
    BY <1>1, RunIs DEF L
  <2>2. c - 0 = c
    BY <1>1
  <2> QED BY <1>3, <1>4, <2>1, <2>2
<1> DEFINE f == Smaller(half, c)
           g == Smaller(rest, L - d)
           m == L - g
<1>6. f \in Nat /\ f <= c /\ f <= half /\ f <= L /\ (f = half \/ f = c) /\ (half <= c => f = half) /\ (c <= half => f = c)
  <2>1. f = IF half < c THEN half ELSE c
    BY DEF Smaller
  <2> HIDE DEF f
  <2> QED BY <1>1, <1>2, <2>1
<1>7. g \in Nat /\ g <= rest /\ m \in Nat /\ d <= m /\ m <= L /\ (L - d) - g \in Nat /\ d + ((L - d) - g) = m /\ L - m = g
  <2>1. g = IF rest < L - d THEN rest ELSE L - d
    BY DEF Smaller
  <2> HIDE DEF g
  <2> QED BY <1>1, <1>2, <2>1
<1> HIDE DEF f
<1> DEFINE mid == SubSeq(front, half + 1, Len(front))
           mid2 == SubSeq(back, 1, (L - d) - g)
           s == [first |-> SubSeq(front, 1, f), last |-> Latest(back, rest), dropped |-> (Ends(d) - Ends(c)) + LeftOut(mid) + LeftOut(mid2)]
<1>8. Shown(kept) = s
  <2>1. Shown(kept) =
        CASE kept.omitted = 0 /\ back = <<>> /\ Len(front) <= MaxShown -> [first |-> front, last |-> <<>>, dropped |-> 0]
          [] kept.omitted = 0 /\ back = <<>> /\ Len(front) > MaxShown ->
               [first |-> SubSeq(front, 1, half), last |-> Latest(front, rest),
                dropped |-> LeftOut(SubSeq(front, half + 1, Len(front) - rest))]
          [] OTHER ->
               [first |-> SubSeq(front, 1, Smaller(half, Len(front))), last |-> Latest(back, rest),
                dropped |-> kept.omitted + LeftOut(SubSeq(front, half + 1, Len(front)))
                              + LeftOut(SubSeq(back, 1, Len(back) - Smaller(rest, Len(back))))]
    BY DEF Shown, half, rest
  <2> HIDE DEF front, back
  <2>2. kept.omitted # 0
    <3> DEFINE x == Ends(c)
               y == Ends(d)
    <3>1. x \in Nat /\ y \in Nat /\ x < y /\ kept.omitted = y - x
      BY <1>1 DEF L
    <3> HIDE DEF x, y
    <3> QED BY <3>1
  <2>3. Shown(kept) = [first |-> SubSeq(front, 1, Smaller(half, Len(front))), last |-> Latest(back, rest),
                dropped |-> kept.omitted + LeftOut(SubSeq(front, half + 1, Len(front)))
                              + LeftOut(SubSeq(back, 1, Len(back) - Smaller(rest, Len(back))))]
    BY <2>1, <2>2
  <2>4. Smaller(half, Len(front)) = f /\ Smaller(rest, Len(back)) = g /\ Len(back) = L - d
    BY <1>5 DEF f
  <2> HIDE DEF g, f
  <2> QED BY <2>3, <2>4
<1> HIDE DEF front, back, g, m
<1>9. SubSeq(front, 1, f) = Run(0, f)
  <2>1. 1 \in Nat /\ 0 <= 0 /\ 0 + 1 >= 0 + 1 /\ 0 + 1 <= 0 + 1 /\ 0 <= f /\ 0 + f >= f /\ 0 + f <= f
    BY <1>6
  <2>2. Part(Run(0, c), 1, f) = Run(0, f)
    BY <1>1, <1>6, <2>1, RunOfRun DEF L
  <2> QED BY <1>3, <2>2 DEF Part
<1>10. Latest(back, rest) = Run(m, L)
  <2>1. Latest(Run(d, L), rest) = Run(L - Smaller(rest, L - d), L)
    BY <1>1, <1>2, LatestRun DEF L
  <2> QED BY <1>4, <2>1 DEF m, g
<1>11. mid2 = Run(d, m)
  <2> DEFINE l == (L - d) - g
  <2>1. l \in Nat /\ 1 \in Nat /\ d <= d /\ d + 1 >= d + 1 /\ d + 1 <= d + 1 /\ d + l >= m /\ d + l <= m
    BY <1>1, <1>7
  <2> HIDE DEF l
  <2>2. Part(Run(d, L), 1, l) = Run(d, m)
    <3>1. L <= Len(text) /\ L \in Nat /\ m <= L /\ d <= m /\ m \in Nat /\ d \in Nat
      BY <1>1, <1>7 DEF L
    <3> QED BY <2>1, <3>1, RunOfRun
  <2> QED BY <1>4, <2>2 DEF Part, l
<1>12. Size(mid) = Ends(c) - Ends(f)
  <2>1. CASE half <= c
    <3> DEFINE a == half + 1
    <3>1. f = half /\ a \in Nat /\ 0 + a >= half + 1 /\ 0 + a <= half + 1 /\ c <= c /\ 0 + c >= c /\ 0 + c <= c /\ 0 <= half
      BY <1>1, <1>2, <1>6, <2>1
    <3> HIDE DEF a
    <3>2. Part(Run(0, c), a, c) = Run(half, c)
      BY <1>1, <1>2, <2>1, <3>1, RunOfRun DEF L
    <3>3. Size(Run(half, c)) = Ends(c) - Ends(half)
      BY <1>1, <1>2, <2>1, RunIs DEF L
    <3>4. mid = Run(half, c)
      BY <1>3, <1>5, <3>2 DEF a, Part
    <3> QED BY <3>1, <3>3, <3>4
  <2>2. CASE ~ (half <= c)
    <3>1. f = c /\ c < half + 1 /\ half + 1 \in Int /\ c \in Int
      BY <1>1, <1>2, <1>6, <2>2
    <3>2. mid = <<>>
      <4> DEFINE a == half + 1
      <4>1. a \in Int /\ c < a
        BY <3>1
      <4> HIDE DEF a
      <4>2. SubSeq(front, a, c) = <<>>
        BY <3>1, <4>1, SubSeqEmpty
      <4> QED BY <1>5, <4>2 DEF a
    <3>3. Ends(c) - Ends(c) = 0
      <4> DEFINE x == Ends(c)
      <4>1. x \in Nat
        BY <1>1 DEF L
      <4> HIDE DEF x
      <4>2. x - x = 0
        BY <4>1
      <4> QED BY <4>2 DEF x
    <3> QED BY <3>1, <3>2, <3>3, NoBytes
  <2> QED BY <2>1, <2>2
<1>13. /\ Len(Run(0, f)) = f /\ Size(Run(0, f)) = Ends(f) - Ends(0)
       /\ Len(Run(m, L)) = g /\ Size(Run(m, L)) = Ends(L) - Ends(m)
       /\ Size(Run(d, m)) = Ends(m) - Ends(d)
  <2>1. f - 0 = f /\ 0 <= f
    BY <1>6
  <2> QED BY <1>1, <1>6, <1>7, <2>1, RunIs DEF L
<1> DEFINE x == Ends(f)
           y == Ends(m)
           z == Ends(L)
           p == Ends(c)
           q == Ends(d)
<1>14. x \in Nat /\ y \in Nat /\ z \in Nat /\ z = total /\ p \in Nat /\ q \in Nat
  <2>1. f \in 0..L /\ m \in 0..L /\ c \in 0..L /\ d \in 0..L
    BY <1>1, <1>6, <1>7
  <2> QED BY <1>1, <2>1
<1> HIDE DEF x, y, z, mid, mid2
<1>15. /\ Size(s.first) = x - 0 /\ Size(s.last) = z - y /\ s.dropped = (q - p) + (p - x) + (y - q)
       /\ Len(s.first) = f /\ Len(s.last) = g
  BY <1>1, <1>9, <1>10, <1>11, <1>12, <1>13 DEF x, y, z, LeftOut
<1> HIDE DEF s, p, q
<1>16. (x - 0) + (z - y) + ((q - p) + (p - x) + (y - q)) = z /\ f + g <= MaxShown
  BY <1>2, <1>6, <1>7, <1>14
<1> QED BY <1>8, <1>14, <1>15, <1>16

\* What is shown of it, for each shape it may have when all is written.
LEMMA ShownHolds ==
  ASSUME CappedIInv
  PROVE  ShownIsExact
<1> SUFFICES ASSUME total = Len(Bytes(text)), ~headOnly
             PROVE  LET s == Shown(Snapshot) IN Size(s.first) + Size(s.last) + s.dropped = total /\ Len(s.first) + Len(s.last) <= MaxShown
  BY DEF ShownIsExact
<1>1. /\ Texted /\ headOnly \in BOOLEAN /\ total \in Nat /\ total = AllBytes
      /\ HeadRoom \in Nat /\ TailRoom \in Nat /\ HeadRoom + TailRoom = MaxOutput
  BY Rooms, Sizes DEF CappedIInv, AllBytes
<1>2. CASE Snapshot = [text |-> Between(0, total), tail |-> <<>>, omitted |-> 0]
  <2>1. Snapshot.text = Between(0, total) /\ Snapshot.tail = <<>> /\ Snapshot.omitted = 0
    BY <1>2
  <2> QED BY <1>1, <2>1, WholeShown
<1>3. ASSUME MaxOutput < total, NEW c \in 0..Len(text), NEW d \in 0..Len(text),
             Snapshot = [text |-> Between(0, Ends(c)), tail |-> Between(Ends(d), total), omitted |-> Ends(d) - Ends(c)],
             Ends(c) <= HeadRoom, total - TailRoom <= Ends(d)
      PROVE  LET s == Shown(Snapshot) IN Size(s.first) + Size(s.last) + s.dropped = total /\ Len(s.first) + Len(s.last) <= MaxShown
  <2>1. Snapshot.text = Between(0, Ends(c)) /\ Snapshot.tail = Between(Ends(d), total) /\ Snapshot.omitted = Ends(d) - Ends(c)
    BY <1>3
  <2>2. Ends(c) < Ends(d)
    <3>1. Ends(c) \in Nat /\ Ends(d) \in Nat
      BY <1>1, Sizes
    <3> QED BY <1>1, <1>3, <3>1
  <2> QED BY <1>1, <2>1, <2>2, EndsShown
<1> QED BY <1>2, <1>3, SnapshotShape

LEMMA CappedInitHolds == ASSUME CappedInit PROVE CappedIInv
<1>1. Texted /\ headOnly \in BOOLEAN /\ total = 0 /\ head = <<>> /\ tail = <<>>
  <2>1. text \in UNION {[1..n -> Widths] : n \in 0..MaxCharacters} /\ headOnly \in BOOLEAN /\ total = 0 /\ head = <<>> /\ tail = <<>>
    BY DEF CappedInit
  <2>2. PICK n \in 0..MaxCharacters : text \in [1..n -> Widths]
    BY <2>1
  <2>3. n \in Nat
    BY CappedAssumption
  <2> QED BY <2>1, <2>2, <2>3 DEF Texted
<1>2. AllBytes \in Nat /\ HeadRoom \in Nat /\ TailRoom \in Nat
  BY <1>1, Rooms, Sizes
<1>3. 0 \in 0..AllBytes /\ HeadOf = 0 /\ Between(0, 0) = <<>>
  <2>1. 0 \in 0..AllBytes
    BY <1>2
  <2>2. HeadOf = 0
    BY <1>1, <1>2 DEF HeadOf, Smaller
  <2> QED BY <1>1, <2>1, <2>2, NoPart
<1>4. TailInv
  <2>1. 0 - 0 = 0 /\ 0 \in Nat /\ 0 <= 2 * TailRoom
    BY <1>2, Twice
  <2> QED BY <1>1, <1>3, <2>1 DEF TailInv
<1> QED BY <1>1, <1>3, <1>4 DEF CappedIInv

LEMMA CappedStepKeeps == ASSUME CappedIInv, [CappedNext]_cappedVars PROVE CappedIInv'
<1>1. CASE CappedNext
  BY <1>1, CappedWriteStep DEF CappedNext
<1>2. CASE UNCHANGED cappedVars
  BY <1>2 DEF cappedVars, CappedIInv, Texted, AllBytes, Between, Stretch, HeadOf, TailInv, HeadRoom, TailRoom
<1> QED BY <1>1, <1>2

\* The inductive invariant of the output: its head and its tail are where they should be in what was written.
THEOREM CappedInvariant == CappedSpec => []CappedIInv
<1>1. CappedInit => CappedIInv
  BY CappedInitHolds
<1>2. CappedIInv /\ [CappedNext]_cappedVars => CappedIInv'
  BY CappedStepKeeps
<1> QED BY <1>1, <1>2, PTL DEF CappedSpec

\* What is kept of an output is its two ends within the cap and no less than the cap allows, no character is cut where
\* bytes were left out, and the counts of what is left out, the runner's and the server's, are exact.
THEOREM CappedIsSafe == CappedSpec => []CappedSafety
<1>1. CappedIInv => CappedSafety
  BY KeptHolds, ShownHolds DEF CappedSafety
<1> QED BY <1>1, CappedInvariant, PTL
-----------------------------------------------------------------------------
(***************************************************************************)
(* The parts together: what MCInside's runs check is a step of one part at *)
(* a time, and the others stay as they are, so each part keeps what its    *)
(* own theorem says of it.                                                 *)
(***************************************************************************)

\* A behaviour of the whole is one of the workspace, of the output of a command, of the checks and of memory.
LEMMA InsideTogether == Spec => WorkspaceSpec /\ CappedSpec /\ ChecksSpec /\ MemorySpec
<1>1. Init => WorkspaceInit /\ CappedInit /\ ChecksInit /\ MemoryInit
  BY DEF Init
<1>2. WorkspacePart => WorkspaceNext /\ UNCHANGED <<cappedVars, checkVars, memoryVars>>
  BY DEF WorkspacePart
<1>3. OutputPart => CappedNext /\ UNCHANGED <<workspaceVars, checkVars, memoryVars>>
  BY DEF OutputPart
<1>4. ChecksPart => ChecksNext /\ UNCHANGED <<workspaceVars, cappedVars, memoryVars>>
  BY DEF ChecksPart
<1>5. MemoryPart => MemoryNext /\ UNCHANGED <<workspaceVars, cappedVars, checkVars>>
  BY DEF MemoryPart
<1>6. UNCHANGED parts => UNCHANGED <<workspaceVars, cappedVars, checkVars, memoryVars>>
  BY DEF parts
<1>7. [Next]_parts => [WorkspaceNext]_workspaceVars /\ [CappedNext]_cappedVars /\ [ChecksNext]_checkVars /\ [MemoryNext]_memoryVars
  BY <1>2, <1>3, <1>4, <1>5, <1>6 DEF Next
<1> QED BY <1>1, <1>7, PTL DEF Spec, WorkspaceSpec, CappedSpec, ChecksSpec, MemorySpec

\* The places taken are no more than the limit, and a connection's handler is over just when its command is frozen.
LEMMA WorkspaceTyped == WorkspaceIInv => WorkspaceTypeOK
<1> SUFFICES ASSUME WorkspaceIInv PROVE WorkspaceTypeOK
  OBVIOUS
<1>1. Jobs \in Nat /\ following \in 0..Jobs
  <2>1. following \in Nat
    BY FS_CardinalityType DEF WorkspaceIInv, PlacesInv
  <2> QED BY <2>1, WorkspaceAssumption DEF WorkspaceIInv, PlacesInv
<1>2. /\ state \in [Commands -> JobStates] /\ readme \in [Commands -> JobStates]
      /\ watch \in [Commands -> Ending \cup {"no", "over", "restart"}]
      /\ left \subseteq Commands /\ cuts \in 0..MaxCuts
  BY DEF WorkspaceIInv, ServerTypes
<1>3. wire \in [Commands -> {"none", "open", "dropped", "ended", "cut"}]
  BY DEF WorkspaceIInv, RunnerTypes
<1>4. \A c \in Commands : frozen[c] <=> handler[c] = "over"
  BY DEF WorkspaceIInv, Connections, LineOf
<1> QED BY <1>1, <1>2, <1>3, <1>4 DEF WorkspaceTypeOK

\* The variables of the workspace, of the checks and of memory hold what they are declared to hold, in every behaviour
\* of the parts together, and in the workspace a command is frozen just when its handler is over.
THEOREM InsideTyped == Spec => []TypesOK
<1>1. Spec => []WorkspaceTypeOK
  BY InsideTogether, WorkspaceInvariant, WorkspaceTyped, PTL
<1> QED BY <1>1, InsideTogether, ChecksTyped, MemoryKeepsTypes, PTL DEF TypesOK
=============================================================================
