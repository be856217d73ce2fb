--------------------------- MODULE MCCommandManager ---------------------------
(* Three calls: an ordinary command with a REVE route, an ordinary command   *)
(* without one that is not retried, and the guarded Stop of the SOC limit.   *)
EXTENDS CommandManager, TLC

CONSTANTS reve, plain, stop

ThreeCalls == {reve, plain, stop}
JustStop == {stop}
JustReve == {reve}
JustPlain == {plain}
===============================================================================
