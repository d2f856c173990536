-------------------------------- MODULE Parts --------------------------------
(* The parts of the server run side by side and share no state that the       *)
(* modules model, so each behaviour is one of a single part, chosen as it     *)
(* begins: the others stay as they began, and no fairness is asked of them.   *)
VARIABLE part
=============================================================================
