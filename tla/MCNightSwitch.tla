---------------------------- MODULE MCNightSwitch ----------------------------
(* Small instances of NightSwitch for TLC. *)
EXTENDS NightSwitch, TLC

\* Events of one kind differ in nothing but their names.
Symmetry == Permutations(Nights) \cup Permutations(Pills) \cup Permutations(Others)

=============================================================================
