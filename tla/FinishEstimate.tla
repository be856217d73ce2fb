--------------------------- MODULE FinishEstimate ---------------------------
(* When the charge will be done, told twice: Charging Finish Time is an       *)
(* instant, Time to Target what is left of it.  Both are views of one instant *)
(* held on the updater, which a new estimate moves only when it leaves a band *)
(* around it.  Either sensor may have been disabled by the user, and the      *)
(* registry decides which of them is told of a poll first.  Time is counted   *)
(* in minutes; an estimate of 0 stands for at most half a minute.             *)
EXTENDS Integers, FiniteSetsExt

CONSTANTS
    Estimates,      \* minutes that a reading may ask for
    MaxTime         \* bound on the clock

ASSUME EstimatesAssumption == Estimates \subseteq Nat

VARIABLES
    time,           \* utcnow
    enabled,        \* which of the two sensors are in the registry
    reading,        \* session_active and calculate_remaining_seconds of the last poll
    fresh, reached, \* last_update_success; available, the grace window included
    anchor,         \* _estimate_anchors["finish_at"]
    stamp, told     \* what the two sensors hold

estimateVars == <<time, enabled, reading, fresh, reached, anchor, stamp, told>>

Step == 5
Sensors == {"stamp", "told"}

\* No number: nothing to say, no charge, the target is reached.
Nothing == -1
NotCharging == -2
AtTarget == -3

Estimable ==
    [active : {TRUE}, left : Estimates \cup {Nothing, NotCharging, AtTarget}] \cup
    [active : {FALSE}, left : {Nothing, NotCharging, AtTarget}]

Distance(a, b) == IF a < b THEN b - a ELSE a - b

\* round, to the nearest point of the grid.
Snap(t) == ((2 * t + Step) \div (2 * Step)) * Step

NextPoint(t) == ((t \div Step) + 1) * Step

\* Twice the band: one and a half steps, or 3 % of the estimate.
IsOutside(eta, held, left) ==
    200 * Distance(eta, held) >= Max({300 * Step, 6 * left})

\* A plausible bug: an instant that came due stays.
Moves_NotWhenDue(held, left, now) == held = Nothing \/ IsOutside(now + left, held, left)

Moves(held, left, now) == held = Nothing \/ IsOutside(now + left, held, left) \/ held <= now

\* _damped_finish_timestamp and _forget_estimate
Damped(held, left, now) ==
    IF left \notin Nat THEN Nothing
    ELSE IF ~Moves(held, left, now) THEN held
    ELSE IF Snap(now + left) > now THEN Snap(now + left) ELSE NextPoint(now)

\* TimeToTargetSocSensor._get_sensor_value and calculate_remaining_time
Told(held, left, now) ==
    IF left \notin Nat \ {0} THEN left ELSE Snap(Max({Step, held - now}))

StampCounts(r) == "stamp" \in enabled /\ r.active

\* The finish time is unavailable, and computes nothing, unless a charge runs.
\* The second sensor finds what the first one left.
Recomputed(r) ==
    \E order \in {<<"stamp", "told">>, <<"told", "stamp">>} :
        LET runs(s) == IF s = "stamp" THEN StampCounts(r) ELSE s \in enabled
            first == IF runs(order[1]) THEN Damped(anchor, r.left, time) ELSE anchor
            second == IF runs(order[2]) THEN Damped(first, r.left, time) ELSE first
            seen(s) == IF order[1] = s THEN first ELSE second
        IN  /\ anchor' = second
            /\ stamp' = IF StampCounts(r) THEN seen("stamp") ELSE Nothing
            /\ told' = IF "told" \in enabled THEN Told(seen("told"), r.left, time) ELSE Nothing

----------------------------------------------------------------------------
EstimateInit ==
    /\ time = 0
    /\ enabled \in SUBSET Sensors \ {{}}
    /\ reading = [active |-> FALSE, left |-> NotCharging]
    /\ fresh = TRUE /\ reached = TRUE
    /\ anchor = Nothing /\ stamp = Nothing
    /\ told = IF "told" \in enabled THEN NotCharging ELSE Nothing

Passes ==
    /\ time < MaxTime
    /\ time' = time + 1
    /\ UNCHANGED <<enabled, reading, fresh, reached, anchor, stamp, told>>

\* _handle_coordinator_update after a good poll
Reads ==
    /\ reading' \in Estimable
    /\ fresh' = TRUE /\ reached' = TRUE
    /\ Recomputed(reading')
    /\ UNCHANGED <<time, enabled>>

\* _handle_coordinator_update after a failed one: the previous payload is still
\* there, and nothing is computed from it.
Fails ==
    /\ fresh' = FALSE
    /\ reached' \in {reached, FALSE}
    /\ UNCHANGED <<time, enabled, reading, anchor, stamp, told>>

\* _on_soc_input_changed: the target, the capacity, the loss or Initial SOC move
\* the estimate, or take it away.  After a failed poll it waits for a good one.
InputChanges ==
    /\ \E r \in Estimable :
          /\ r.active = reading.active
          /\ reading' = r
          /\ IF fresh /\ reached THEN Recomputed(r) ELSE UNCHANGED <<anchor, stamp, told>>
    /\ UNCHANGED <<time, enabled, fresh, reached>>

\* The entry is set up again: nothing is held, and its first poll is yet to come.
Reloads ==
    /\ reading' = [active |-> FALSE, left |-> Nothing]
    /\ fresh' = FALSE /\ reached' = FALSE
    /\ anchor' = Nothing /\ stamp' = Nothing /\ told' = Nothing
    /\ UNCHANGED <<time, enabled>>

EstimateNext == Passes \/ Reads \/ Fails \/ InputChanges \/ Reloads

EstimateSpec == EstimateInit /\ [][EstimateNext]_estimateVars

----------------------------------------------------------------------------
(* Properties                                                                 *)

\* After each reading of a running charge the finish time lies ahead, no further
\* from the estimate than the band and the rounding allow, whatever was held
\* before: the last session's instant, one from before an outage, one that came
\* due (ev_sensors.py:254-322).
StampIsTrue ==
    [][ time' = time /\ fresh' /\ reached' /\ StampCounts(reading') /\ reading'.left \in Nat
        => /\ stamp' > time
           /\ stamp' = NextPoint(time)
                \/ ~IsOutside(time + reading'.left, stamp', reading'.left) ]_estimateVars

\* An automation that waits for the finish time is not woken by noise: while a
\* charge runs the stamp moves only on a reading that contradicts it or when it
\* has come due, and never because polls fail (ev_sensors.py:191-208, 254-322).
StampHolds ==
    [][ stamp # Nothing /\ stamp' \notin {Nothing, stamp}
        => /\ fresh'
           /\ stamp <= time \/ IsOutside(time + reading'.left, stamp, reading'.left) ]_estimateVars

\* The two views state one instant: what is left of it as told is what the stamp
\* leaves, to half a step; inside the last step the count stays at its floor
\* (ev_sensors.py:32-38, 458-518).
ViewsAgree ==
    [][ /\ enabled = Sensors /\ fresh' /\ reached' /\ time' = time
        /\ reading'.active /\ reading'.left \in Nat \ {0}
        => 2 * Distance(told', Max({Step, stamp' - time})) < Step ]_estimateVars

\* The finish time is true, stands, and is the same in both views.
FinishIsTrue == StampIsTrue /\ StampHolds /\ ViewsAgree
=============================================================================
