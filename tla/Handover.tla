------------------------------- MODULE Handover -------------------------------
(***************************************************************************)
(* What a switch of the session promises (docs/adr/0009, 0020 and 0077): at *)
(* most one is under way; the conversation moves only by a switch whose    *)
(* handoff has been committed, to the next session, in one step; and a     *)
(* switch that has ended stays as it ended.  NightSwitch implements this.  *)
(***************************************************************************)
EXTENDS Integers

CONSTANT Switches

VARIABLES
  status,  \* "none", "open", "committed", "switched", "curated", "failed"
  at       \* the session the conversation points at, numbered

vars == <<status, at>>

UnderWay == {s \in Switches : status[s] \in {"open", "committed"}}

Init ==
  /\ status = [s \in Switches |-> "none"]
  /\ at = 1

Becomes(s, new) == status' = [status EXCEPT ![s] = new]

\* A switch may also be given up in the step it begins.
Begin(s) ==
  /\ status[s] = "none" /\ UnderWay = {}
  /\ Becomes(s, "open") \/ Becomes(s, "failed")
  /\ UNCHANGED at

Commit(s) == status[s] = "open" /\ Becomes(s, "committed") /\ UNCHANGED at

Move(s) == status[s] = "committed" /\ Becomes(s, "switched") /\ at' = at + 1

\* The curator alone, a switch that keeps its session.
Curate(s) == status[s] = "open" /\ Becomes(s, "curated") /\ UNCHANGED at

Fail(s) == s \in UnderWay /\ Becomes(s, "failed") /\ UNCHANGED at

Next ==
  \E s \in Switches : Begin(s) \/ Commit(s) \/ Move(s) \/ Curate(s) \/ Fail(s)

Ends == \A s \in Switches : s \in UnderWay ~> s \notin UnderWay

Safety == Init /\ [][Next]_vars
Spec   == Safety /\ Ends

=============================================================================
