-------------------------------- MODULE MCMemory -------------------------------
(* What the sensors remember and compute of a charge: the charge memory, how   *)
(* it ended, the session's meters, the finish time and the prognoses share     *)
(* nothing but their inputs, which each of them takes in every order: a        *)
(* behaviour of this module moves one of them.                                 *)
EXTENDS ChargeMemory, SessionEnd, CostMeter, FinishEstimate, Forecasts

VARIABLE part

\* The day, evening and night rates, far apart.
ForecastRates == <<1, 10, 100>>

Init ==
    /\ part \in {"memory", "end", "costs", "finish", "forecasts"}
    /\ MemoryInit /\ EndInit /\ CostInit /\ EstimateInit /\ ForecastInit
    /\ part # "finish" => enabled = Sensors
    /\ part # "end" => family = "classic" /\ ~ocpp

Next ==
    /\ UNCHANGED part
    /\ \/ part = "memory" /\ MemoryNext
          /\ UNCHANGED <<endVars, costVars, estimateVars, query>>
       \/ part = "end" /\ EndNext
          /\ UNCHANGED <<memoryVars, costVars, estimateVars, query>>
       \/ part = "costs" /\ CostNext
          /\ UNCHANGED <<memoryVars, endVars, estimateVars, query>>
       \/ part = "finish" /\ EstimateNext
          /\ UNCHANGED <<memoryVars, endVars, costVars, query>>
       \/ part = "forecasts" /\ ForecastNext
          /\ UNCHANGED <<memoryVars, endVars, costVars, estimateVars>>

Spec ==
    Init /\ [][Next]_<<part, memoryVars, endVars, costVars, estimateVars, query>>
===============================================================================
