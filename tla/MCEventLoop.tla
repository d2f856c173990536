----------------------------- MODULE MCEventLoop -----------------------------
(* Small instances of EventLoop for TLC. *)
EXTENDS EventLoop, TLC

\* Events of one kind differ in nothing but their names.
Symmetry == Permutations(Messages \ Pictures) \cup Permutations(Updates)

=============================================================================
