------------------------------- MODULE MCSocLimit -------------------------------
(* One unit of energy is enough for a session to reach its target and for the  *)
(* next one to fall below it; one tick of the clock tells sessions apart that  *)
(* took as much energy.                                                        *)
EXTENDS SocLimit, TLC

TwoThresholds == {0, 1}
===============================================================================
