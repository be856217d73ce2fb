---------------------------- MODULE MCControlDisplay ----------------------------
(* Two calls that ask for different values.  A tick is some ten seconds: an       *)
(* accepted value yields to another reading after one of them and to time after   *)
(* two, and readings are held for one.                                            *)
EXTENDS ControlDisplay, TLC

CONSTANTS c1, c2

TwoCalls == {c1, c2}
TwoValues == {"low", "high"}
OpposedWants == (c1 :> "low") @@ (c2 :> "high")
===============================================================================
