--------------------------- MODULE MCTransitionEvents ---------------------------
(* Two plug-ins, so that one charge's summary can meet the counters of the    *)
(* next; two fault codes, so that one can replace the other.  Paused stands   *)
(* for Charge Complete too: nothing here tells the two apart.                 *)
EXTENDS TransitionEvents, TLC

TwoCodes == {1, 2}
TwoRests == {"connected", "paused"}
===============================================================================
