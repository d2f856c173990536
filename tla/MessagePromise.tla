---------------------------- MODULE MessagePromise ----------------------------
(***************************************************************************)
(* What the owner is promised of every message natsumi's server accepts,   *)
(* whatever happens to the process (docs/adr/0008 and 0024): it is put in  *)
(* front of the model at most once, it is called replied exactly when a    *)
(* reply was sent after the model saw it, it never comes back once it has  *)
(* ended, and it does end.  EventLoop implements this.                     *)
(***************************************************************************)
EXTENDS Integers

CONSTANT Messages

VARIABLES
  status,  \* "none", "queued", "processing", "replied", "noreply", "failed"
  seen,    \* messages the model was given
  told     \* messages a reply was sent to

vars == <<status, seen, told>>

Ended(m) == status[m] \in {"replied", "noreply", "failed"}

Init ==
  /\ status = [m \in Messages |-> "none"]
  /\ seen = {}
  /\ told = {}

\* What may become of one message in a step; old and new are its status.
Goes(m, old, new) ==
  \/ old = "none" /\ new \in {"queued", "processing"}      \* accepted
  \/ old = "queued" /\ new = "processing"                  \* taken up
  \/ old = "processing" /\ new = "queued" /\ m \notin seen \* not delivered
  \/ old = "processing" /\ new = "replied" /\ m \in seen   \* answered
  \/ old = "processing" /\ new \in {"noreply", "failed"} /\ m \notin told

Kept(m) ==
  /\ status'[m] = status[m] \/ Goes(m, status[m], status'[m])
  /\ m \in seen' => m \in seen \/ (status[m] = "processing" /\ status'[m] = "processing")
  /\ m \in seen => m \in seen'
  /\ m \in told => m \in told'
  /\ m \in told' /\ m \notin told => status[m] = "processing" /\ status'[m] = "replied"
  /\ status'[m] = "replied" /\ status[m] # "replied" => m \in told'

Next == \A m \in Messages : Kept(m)

Ends == \A m \in Messages : status[m] # "none" ~> Ended(m)

Safety == Init /\ [][Next]_vars
Spec   == Safety /\ Ends

=============================================================================
