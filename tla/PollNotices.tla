----------------------------- MODULE PollNotices ----------------------------
(* The four notices that follow the polls (issues.py): a low backup battery,  *)
(* a charger clock that is wrong, OCPP switched on, and fields a REVE         *)
(* firmware stopped reporting.  The first two count readings in both          *)
(* directions; the clock's also names the fix for the drift it saw, and is    *)
(* worded anew when that changes.                                             *)
EXTENDS Integers, FiniteSetsExt

CONSTANTS
    Trigger,    \* CLOCK_DRIFT_TRIGGER_POLLS, and BATTERY_LOW_DEBOUNCE_POLLS
    ClearAfter, \* CLOCK_DRIFT_CLEAR_POLLS
    FollowPolls,\* TIME_ZONE_FOLLOW_POLLS
    Hours       \* whole hours a clock may be off by

ASSUME NoticesAssumption ==
    /\ Trigger \in Nat \ {0} /\ ClearAfter \in Nat \ {0, 1} /\ FollowPolls \in Nat

VARIABLES
    clockDrift, \* ClockDriftTracker: streaks, active, published wording, re-key streak
    battery,    \* BatteryLowTracker
    shown,      \* of the other three, in Home Assistant's issue registry
    told,       \* the wording of the clock notice there, if it is there
    seen        \* the last Trigger polls' clock readings, newest first

noticeVars == <<clockDrift, battery, shown, told, seen>>

Unknown == "unknown"        \* None
NoWording == <<"none", 0>>

\* What a poll says of the clock: nothing, at most 120 s off, at most 600 s off,
\* or drifted with the kind of the drift and its hours.
Drifts == {<<"sync", 0>>, <<"fractional", 0>>} \cup {<<"timezone", h>> : h \in Hours}
ClockReadings == {<<Unknown, 0>>, <<"right", 0>>, <<"near", 0>>} \cup Drifts

NoticesInit ==
    /\ clockDrift = [bad |-> 0, good |-> 0, active |-> FALSE,
                published |-> NoWording, rekey |-> 0, candidate |-> NoWording]
    /\ battery = [bad |-> 0, good |-> 0, active |-> FALSE]
    /\ shown = {} /\ told = NoWording
    /\ seen = [i \in 1..Trigger |-> NoWording]

Least(a, b) == IF a < b THEN a ELSE b

\* _evaluate_hysteresis: TRUE, FALSE or Unknown for isBad and recovered.  The
\* streaks are not bounded in the code; nothing tells them apart above the
\* numbers they are compared with.
Hysteresis(t, isBad, recovered, trigger, recovery) ==
    LET most == Trigger + FollowPolls
        bad == IF isBad = "yes" THEN Least(t.bad + 1, most)
               ELSE IF isBad = "no" THEN 0
               ELSE t.bad
        good == IF isBad = "yes" THEN 0
                ELSE IF recovered = "yes" THEN Least(t.good + 1, recovery)
                ELSE IF recovered = "no" THEN 0
                ELSE t.good
        raise == isBad = "yes" /\ bad >= trigger /\ ~t.active
        clear == isBad # "yes" /\ recovered = "yes" /\ t.active /\ good >= recovery
    IN  [decision |-> IF raise THEN "raise" ELSE IF clear THEN "clear" ELSE "keep",
         bad |-> bad, good |-> good, active |-> raise \/ (t.active /\ ~clear)]

Says(condition) == IF condition THEN "yes" ELSE "no"

----------------------------------------------------------------------------
(* The clock                                                                  *)

\* At most 120 s off, or not worth protecting yet.
ClockRecovered(reading) == reading[1] = "right" \/ ~clockDrift.active

\* ClockDriftTracker.evaluate.  A wrong offset that is about to be written back
\* waits longer.
ClockVerdict(reading, following) ==
    IF reading[1] = Unknown
    THEN [decision |-> "keep", bad |-> clockDrift.bad, good |-> clockDrift.good,
          active |-> clockDrift.active]
    ELSE Hysteresis(clockDrift, Says(reading \in Drifts), Says(ClockRecovered(reading)),
                    Trigger + IF following /\ reading[1] = "timezone" THEN FollowPolls ELSE 0,
                    ClearAfter)

Wording(reading, following) ==
    IF following /\ reading[1] = "timezone" THEN <<"timezone_following", reading[2]>> ELSE reading

\* A plausible bug: another number of hours is the same classification.
Rekeys_KindOnly(reading, wording, verdict) ==
    /\ verdict.decision = "keep" /\ clockDrift.published # NoWording
    /\ reading \in Drifts
    /\ wording[1] # clockDrift.published[1]

\* The drift's classification differs from the one that is published.
Rekeys(reading, wording, verdict) ==
    /\ verdict.decision = "keep" /\ clockDrift.published # NoWording
    /\ reading \in Drifts
    /\ wording # clockDrift.published

\* update_clock_drift_issue
ClockPoll(reading, following) ==
    LET verdict == ClockVerdict(reading, following)
        wording == Wording(reading, following)
        rekeys == Rekeys(reading, wording, verdict)
        streak == IF ~rekeys THEN 0
                  ELSE IF wording = clockDrift.candidate THEN clockDrift.rekey + 1 ELSE 1
        publish == verdict.decision = "raise" \/ streak >= Trigger
    IN  /\ clockDrift' = [bad |-> verdict.bad, good |-> verdict.good, active |-> verdict.active,
                     published |-> IF publish THEN wording
                                   ELSE IF verdict.decision = "clear" THEN NoWording
                                   ELSE clockDrift.published,
                     rekey |-> IF publish THEN 0 ELSE streak,
                     candidate |-> IF rekeys THEN wording ELSE clockDrift.candidate]
        /\ told' = IF publish THEN wording
                   ELSE IF verdict.decision = "clear" THEN NoWording
                   ELSE told
        /\ seen' = [i \in 1..Trigger |-> IF i = 1 THEN wording ELSE seen[i - 1]]

----------------------------------------------------------------------------
(* The other three                                                            *)

\* BatteryLowTracker.evaluate: one good reading clears.
BatteryVerdict(reading) ==
    IF reading = Unknown THEN Hysteresis(battery, Unknown, Unknown, Trigger, 1)
    ELSE Hysteresis(battery, Says(reading = "low"), Says(reading = "good"), Trigger, 1)

Keeps(notice, verdict) ==
    CASE verdict = "raise" -> shown \cup {notice}
      [] verdict = "clear" -> shown \ {notice}
      [] OTHER -> shown

\* The firmware's own flag, with no debounce; an unknown one changes nothing.
OcppVerdict(flag) == CASE flag = 1 -> "raise" [] flag = 0 -> "clear" [] OTHER -> "keep"

\* reve.py counts the reads a field is missing from.
FieldsVerdict(missing) == IF missing THEN "raise" ELSE "clear"

\* The listeners of a good poll; they skip every other one.
UpdateClockDriftIssue ==
    /\ \E reading \in ClockReadings, following \in BOOLEAN: ClockPoll(reading, following)
    /\ UNCHANGED <<battery, shown>>

UpdateBatteryLowIssue ==
    /\ \E cell \in {Unknown, "low", "band", "good"}:
          LET low == BatteryVerdict(cell)
          IN  /\ battery' = [bad |-> low.bad, good |-> low.good, active |-> low.active]
              /\ shown' = Keeps("battery_low", low.decision)
    /\ UNCHANGED <<clockDrift, told, seen>>

UpdateOcppIssue ==
    /\ \E flag \in {0, 1, 2}: shown' = Keeps("ocpp_enabled", OcppVerdict(flag))
    /\ UNCHANGED <<clockDrift, battery, told, seen>>

UpdateReveFieldsIssue ==
    /\ \E missing \in BOOLEAN: shown' = Keeps("reve_fields_missing", FieldsVerdict(missing))
    /\ UNCHANGED <<clockDrift, battery, told, seen>>

\* The entry unloads and is set up again with new trackers.
Reload ==
    /\ clockDrift' = [clockDrift EXCEPT !.bad = 0, !.good = 0, !.active = FALSE,
                              !.published = NoWording, !.rekey = 0, !.candidate = NoWording]
    /\ battery' = [bad |-> 0, good |-> 0, active |-> FALSE]
    /\ shown' = {} /\ told' = NoWording
    /\ seen' = [i \in 1..Trigger |-> NoWording]

ClockNext == UpdateClockDriftIssue \/ Reload

OthersNext ==
    \/ UpdateBatteryLowIssue \/ UpdateOcppIssue \/ UpdateReveFieldsIssue
    \/ Reload

NoticesNext == ClockNext \/ OthersNext

NoticesSpec == NoticesInit /\ [][NoticesNext]_noticeVars

----------------------------------------------------------------------------
(* Properties                                                                 *)

\* The clock notice gives the advice for the drift there is: when the last
\* Trigger polls saw one and the same drift, a notice that is shown says so, in
\* whatever order drifts, repairs and polls without a clock came before
\* (issues.py:311-332).
AdviceIsCurrent ==
    (/\ told # NoWording
     /\ seen[1][1] \in {"sync", "fractional", "timezone", "timezone_following"}
     /\ \A i \in 1..Trigger: seen[i] = seen[1])
    => told = seen[1]

\* A notice is worded for the right fix once: it is reworded only after Trigger
\* polls in a row saw the new drift, and cleared only by two readings in sync
\* that no other reading of the clock separates (issues.py:262-270, 313-329).
AdviceIsEarned ==
    [][told # NoWording =>
        /\ told' \notin {told, NoWording} => \A i \in 1..Trigger: seen'[i] = told'
        /\ (told' = NoWording /\ seen'[1] # NoWording) =>
              /\ seen'[1][1] = "right"
              /\ \A i \in 2..Trigger:
                    (\A j \in 2..(i - 1): seen'[j][1] = Unknown) =>
                        seen'[i][1] \in {"right", Unknown}]_noticeVars

\* The clock notice's advice is the right one, and earned.
AdviceIsTrue == [][AdviceIsCurrent']_noticeVars /\ AdviceIsEarned
=============================================================================
