------------------------------ MODULE MCOutside ------------------------------
(* What reaches natsumi from outside and what she sends out, in small        *)
(* instances for TLC: the sources, her requests to other agents, theirs to   *)
(* her, her posts, the owner's devices, and Slack.  The parts share no state, *)
(* so a behaviour is one of one part, and the others stay as they began.      *)
EXTENDS Sources, AgentRequests, Inbox, Dove, DeviceSync, SlackRecord, TLC

CONSTANT Chosen

Person(thread, mention) == [by |-> "person", thread |-> thread, mention |-> mention]
Natsumi(thread) == [by |-> "natsumi", thread |-> thread, mention |-> FALSE]
Talk(says, trouble) == [direct |-> FALSE, says |-> says, trouble |-> trouble]
MCDaySaid == <<1, 2, 2>>
MCTalks == {Talk(<<Person(0, TRUE), Person(0, FALSE), Person(1, TRUE)>>, 2),
            Talk(<<Natsumi(0), Person(1, FALSE), Person(0, TRUE)>>, 2),
            Talk(<<Person(0, TRUE), Person(1, TRUE)>>, 3),
            [Talk(<<Person(0, FALSE), Natsumi(0)>>, 2) EXCEPT !.direct = TRUE]}

Symmetry == Permutations(Dirs) \cup Permutations(Asked)

parts == <<part, sourceVars, requestVars, inboxVars, doveVars, deviceVars, slackVars>>

Init ==
  /\ part \in Chosen
  /\ SourcesInit /\ RequestsInit /\ InboxInit /\ DoveInit /\ DeviceInit /\ SlackInit
  /\ part # "devices" => client.kind = CHOOSE kind \in Kinds : TRUE
  /\ part # "slack" => talk = CHOOSE t \in Talks : TRUE

SourcesPart == part = "sources" /\ SourcesNext /\ UNCHANGED <<part, requestVars, inboxVars, doveVars, deviceVars, slackVars>>
RequestsPart == part = "requests" /\ RequestsNext /\ UNCHANGED <<part, sourceVars, inboxVars, doveVars, deviceVars, slackVars>>
InboxPart == part = "inbox" /\ InboxNext /\ UNCHANGED <<part, sourceVars, requestVars, doveVars, deviceVars, slackVars>>
DovePart == part = "dove" /\ DoveNext /\ UNCHANGED <<part, sourceVars, requestVars, inboxVars, deviceVars, slackVars>>
DevicesPart == part = "devices" /\ DeviceNext /\ UNCHANGED <<part, sourceVars, requestVars, inboxVars, doveVars, slackVars>>
SlackPart == part = "slack" /\ SlackNext /\ UNCHANGED <<part, sourceVars, requestVars, inboxVars, doveVars, deviceVars>>

Next == SourcesPart \/ RequestsPart \/ InboxPart \/ DovePart \/ DevicesPart \/ SlackPart

Spec == Init /\ [][Next]_parts

FairSpec ==
  /\ Spec
  /\ SourcesFairness /\ RequestsFairness
  /\ InboxFairness /\ DoveFairness /\ DeviceFairness

TypesOK == SourcesTypeOK /\ RequestsTypeOK /\ InboxTypeOK /\ DoveTypeOK /\ DeviceTypeOK /\ SlackTypeOK

\* Every request between agents comes to its end: an agent's answer to hers, and the deadline of another's to her.
AgentsAreAnswered == AnswerComes /\ DeadlineComes

\* What a step may never do, of each part.
StepsKept == SourcesSteps /\ ReceivedNeverBack /\ ClosedStays /\ DecisionIsFinal /\ ReadNeverBack
=============================================================================
