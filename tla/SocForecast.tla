----------------------------- MODULE SocForecast ----------------------------
(* The SOC arithmetic that four sensors and the SOC limit share: what the     *)
(* battery holds, what it lacks of the target, and the energy to ask for.     *)
(* Battery energy is counted in hundredths of a kWh, as the code rounds it.   *)
EXTENDS Integers, FiniteSetsExt

CONSTANTS Initials, Capacities, Losses, Delivered, Targets

\* The limits of the inputs (const.py:304-312); the code has a loss of a fifth at most.
ASSUME SocForecastAssumption ==
    /\ Initials \subseteq 0 .. 100 /\ Targets \subseteq 0 .. 100 /\ Losses \subseteq 0 .. 50
    /\ Capacities \subseteq Nat \ {0} /\ Delivered \subseteq Nat

Clamped(x, top) == Max({0, Min({x, top})})

\* round(.., 2) of the energy stored, and round(.., 0) of the percentage.
Nearest(x, unit) == (2 * x + unit) \div (2 * unit)

\* _soc_kwh_from_inputs; the battery takes what is delivered less the loss.
SocEnergy(q, delivered) ==
    LET stored == Nearest(100 * q.initial * q.capacity + delivered * (100 - q.loss), 100)
    IN  Clamped(stored, 100 * q.capacity)

\* What the battery still lacks, EnergyToTargetSocSensor._remaining_grid_kwh.
Missing(q, delivered) == q.target * q.capacity - SocEnergy(q, delivered)

\* The grid energy for it, to the next hundredth.
GridEnergy(q) ==
    IF Missing(q, q.delivered) <= 0 THEN 0
    ELSE (100 * Missing(q, q.delivered) + 99 - q.loss) \div (100 - q.loss)

\* _remaining_seconds_or_state: get_soc_percent_exact against the target, with
\* both sides multiplied by the capacity.
TargetReached(q, delivered) == SocEnergy(q, delivered) >= q.target * q.capacity

SocQueries ==
    [kind : {"soc"}, initial : Initials, capacity : Capacities, loss : Losses,
     delivered : Delivered, target : Targets]

----------------------------------------------------------------------------
(* Properties                                                                 *)

\* The sensors agree on the target: none asks for energy, or waits, once another
\* says that it is reached, and the energy asked for reaches it, with no more
\* than a rounding to spare - also where the percentage on display is ahead of
\* the battery (utils.py:338-473, ev_sensors.py:104-135, 543-563).
ReachesTarget(q) ==
    /\ GridEnergy(q) = 0 <=> TargetReached(q, q.delivered)
    /\ TargetReached(q, q.delivered + GridEnergy(q))
    /\ GridEnergy(q) > 2 => ~TargetReached(q, q.delivered + GridEnergy(q) - 3)
=============================================================================
