--------------------------- MODULE MCPollCoordinator ---------------------------
(* One tick stands for 10 seconds.  The order of the source's delays is kept *)
(* (const.py): request timeout + retry < control grace = charging cadence =  *)
(* backoff < idle and offline cadence = availability grace < likely offline. *)
(* Being likely offline takes three failures instead of eleven.              *)
EXTENDS PollCoordinator, TLC

OneDelay == {1}
AllRefreshes == {"scheduled", "burst", "forced"}
===============================================================================
