------------------------------- MODULE MCInside -------------------------------
(* What natsumi works with, in small instances for TLC: the commands of the   *)
(* workspace, the output kept of them, the checks she books, and her memory.   *)
(* The parts share no state, so a behaviour is one of one part, and the others *)
(* stay as they began.                                                         *)
EXTENDS Workspace, CappedOutput, SelfChecks, Memory, TLC

CONSTANT Chosen

MCShifts == {-2, 1}
MCCron(slots, days, weekdays, anyDay, anyWeekday) ==
  [slots |-> slots, days |-> days, months |-> 1..YearMonths, weekdays |-> weekdays, anyDay |-> anyDay, anyWeekday |-> anyWeekday]
MCCrons == {MCCron({0, 2}, 1..MonthDays, 0..(WeekDays - 1), TRUE, TRUE), MCCron({1}, {2}, {1}, FALSE, FALSE)}
MCHours == {[start |-> 1, end |-> 0], [start |-> 2, end |-> 1]}

\* A page of each kind, with the archives of July and October and of the third quarter.
MCPathOrder == <<"INDEX", "a2607", "a2610", "aQ3", "always", "t1", "t2">>
MCWords == ToSet(MCPathOrder) \cup {"text", "bad"}
MCKind == [p \in ToSet(MCPathOrder) |-> CASE p = "INDEX" -> "index" [] p = "always" -> "always" [] p = "a2607" -> "group"
                                           [] p = "a2610" -> "append" [] p = "aQ3" -> "into" [] OTHER -> "topic"]
MCFirstTree == [p \in ToSet(MCPathOrder) |-> CASE p \in {"t2", "aQ3"} -> NoFile [] p = "t1" -> <<"text">> [] OTHER -> <<"t1">>]
MCTemplate == <<"text">>
Edit(p, content) == [path |-> p, text |-> content]
MCHerEdits == {Edit("always", <<"bad">>), Edit("t1", NoFile), Edit("t1", <<"text">>), Edit("t2", <<"text">>), Edit("a2607", NoFile)}
MCCuratorEdits == {Edit("t1", NoFile), Edit("a2607", NoFile), Edit("aQ3", <<"text">>),
                   Edit("a2610", <<"t1", "text">>), Edit("INDEX", NoFile)}
MCOthersEdits == {Edit("t2", <<"bad">>), Edit("t1", <<"text", "text">>)}
MCMoves == {[from |-> "t1", to |-> "t2"]}

parts == <<part, workspaceVars, cappedVars, checkVars, memoryVars>>

Init ==
  /\ part \in Chosen
  /\ WorkspaceInit /\ CappedInit /\ ChecksInit /\ MemoryInit
  /\ part # "output" => text = <<>> /\ ~headOnly
  /\ part # "checks" => zone = (CHOOSE z \in Zones : TRUE) /\ hours = (CHOOSE h \in Hours : TRUE)

WorkspacePart == part = "workspace" /\ WorkspaceNext /\ UNCHANGED <<part, cappedVars, checkVars, memoryVars>>
OutputPart == part = "output" /\ CappedNext /\ UNCHANGED <<part, workspaceVars, checkVars, memoryVars>>
ChecksPart == part = "checks" /\ ChecksNext /\ UNCHANGED <<part, workspaceVars, cappedVars, memoryVars>>
MemoryPart == part = "memory" /\ MemoryNext /\ UNCHANGED <<part, workspaceVars, cappedVars, checkVars>>

Next == WorkspacePart \/ OutputPart \/ ChecksPart \/ MemoryPart

Spec == Init /\ [][Next]_parts

Symmetry == Permutations(HerCommands)

TypesOK == WorkspaceTypeOK /\ ChecksTypeOK /\ MemoryTypeOK
=============================================================================
