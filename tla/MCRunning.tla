------------------------------ MODULE MCRunning ------------------------------
(* What must come to an end inside the server, in small instances for TLC     *)
(* under fairness: the commands of the workspace, the checks she books, and    *)
(* the owner's changes of the settings.  The parts share no state, so a        *)
(* behaviour is one of one part, and the others stay as they began.            *)
EXTENDS Workspace, SelfChecks, RuntimeSettings

CONSTANT Chosen

MCShifts == {-1, 0, 1}
MCCron(slots) == [slots |-> slots, days |-> 1..MonthDays, months |-> 1..YearMonths, weekdays |-> 0..(WeekDays - 1),
                  anyDay |-> TRUE, anyWeekday |-> TRUE]
MCCrons == {MCCron({0}), MCCron({1})}
MCHours == {[start |-> 1, end |-> 0], [start |-> 0, end |-> 1]}

parts == <<part, workspaceVars, checkVars, settingsVars>>

Init ==
  /\ part \in Chosen
  /\ WorkspaceInit /\ ChecksInit /\ SettingsInit
  /\ part # "checks" => zone = (CHOOSE z \in Zones : TRUE) /\ hours = (CHOOSE h \in Hours : TRUE)
  /\ part # "settings" => ready = Routes

WorkspacePart == part = "workspace" /\ WorkspaceNext /\ UNCHANGED <<part, checkVars, settingsVars>>
ChecksPart == part = "checks" /\ ChecksNext /\ UNCHANGED <<part, workspaceVars, settingsVars>>
SettingsPart == part = "settings" /\ SettingsNext /\ UNCHANGED <<part, workspaceVars, checkVars>>

Next == WorkspacePart \/ ChecksPart \/ SettingsPart

Spec == Init /\ [][Next]_parts /\ WorkspaceFairness /\ ChecksFairness /\ SettingsFairness
=============================================================================
