------------------------------ MODULE CostMeter ------------------------------
(* The Session Cost sensor and the long-term statistics made from it.  What   *)
(* the charger has counted is published once a minute and once it has grown   *)
(* by a band; the rest is held back and flushed when the meter restarts, goes *)
(* missing or the entry unloads.  A published value below the one before      *)
(* opens a new window (last_reset), which tells the recorder to add the new   *)
(* value whole.  Window and value survive restarts twice over, in the state   *)
(* and, since an unavailable state is saved without attributes, beside it.    *)
(*                                                                            *)
(* Money and the energy it is paid for are one number; a window is counted    *)
(* instead of dated.                                                          *)
EXTENDS Integers

CONSTANTS
    Band,           \* METER_PUBLISH_BAND_KWH
    MaxTicks,       \* bound on a session's clock
    MaxSessions     \* bound on the sessions of a behaviour

VARIABLES
    costSession, money, ticks, charging,    \* the charger: sessionMoney, sessionTime, state
    link,           \* "on", "grace" (polls fail, entities stay) or "off"
    loaded,         \* the entity is in Home Assistant
    sensor,         \* MonetaryCostSensor
    shown,          \* its state, with last_reset
    kept,           \* the restore store: that state, and extra_restore_state_data
    recorder,       \* the statistics: the sum, and the last state they contain
    seen, owed      \* for the properties: the last reading, and what all of them add up to

chargerVars == <<costSession, money, ticks, charging>>
costVars == <<chargerVars, link, loaded, sensor, shown, kept, recorder, seen, owed>>

NoCost == -1

Blank == [value |-> NoCost, window |-> 0]

NewSensor ==
    [native |-> NoCost, latest |-> NoCost, context |-> "none", clock |-> NoCost,
     sameMinute |-> FALSE, anchor |-> NoCost, window |-> 0, previous |-> NoCost]

CostInit ==
    /\ costSession = 1 /\ money = 0 /\ ticks = 0 /\ charging = FALSE
    /\ link = "off" /\ loaded = FALSE
    /\ sensor = NewSensor
    /\ shown = Blank
    /\ kept = [state |-> Blank, window |-> 0, previous |-> NoCost]
    /\ recorder = [sum |-> 0, last |-> NoCost, window |-> 0]
    /\ seen = NoCost /\ owed = 0

----------------------------------------------------------------------------
(* The charger                                                                *)

Runs ==
    /\ ticks < MaxTicks
    /\ ticks' = ticks + 1
    /\ money' = money + (IF charging THEN 1 ELSE 0)
    /\ UNCHANGED <<costSession, charging>>

Toggles == charging' = ~charging /\ UNCHANGED <<costSession, money, ticks>>

\* The car is unplugged and plugged in, or the charger restarts.
Restarts ==
    /\ costSession < MaxSessions
    /\ costSession' = costSession + 1 /\ money' = 0 /\ ticks' = 0 /\ charging' = FALSE

ChargerNext ==
    /\ Runs \/ Toggles \/ Restarts
    /\ UNCHANGED <<link, loaded, sensor, shown, kept, recorder, seen, owed>>

----------------------------------------------------------------------------
(* Publishing                                                                 *)

\* MonetaryCostSensor._update_native_value: a first or a lower value opens a window.
Opens(s, value) == s.window = 0 \/ (s.previous # NoCost /\ value < s.previous)

Bookkept(s, value) ==
    IF value = NoCost THEN [s EXCEPT !.native = NoCost]
    ELSE [s EXCEPT !.native = value, !.previous = value,
                   !.window = IF Opens(s, value) THEN @ + 1 ELSE @]

\* While polls fail the grace holds what was published, but brings nothing back.
Available(s, up, value) == IF up = "on" THEN value # NoCost ELSE up = "grace" /\ s.native # NoCost

\* _publish_meter_value, through EveusSensorBase._update_native_value
Published(s, up, value) ==
    IF ~Available(s, up, value) THEN [s EXCEPT !.native = NoCost]
    ELSE Bookkept(s, IF value = NoCost THEN s.native ELSE value)

\* What Home Assistant is told then.
Exposed(s) == IF s.native = NoCost THEN Blank ELSE [value |-> s.native, window |-> s.window]

\* The recorder skips a state that is not a number, adds the growth within a
\* window and the whole value of a new one.
Compiled(stats, state) ==
    IF state.value = NoCost THEN stats
    ELSE [sum |-> stats.sum + (IF stats.last = NoCost THEN 0
                               ELSE IF state.window = stats.window
                                    THEN state.value - stats.last ELSE state.value),
          last |-> state.value, window |-> state.window]

BandReached(s, value) == s.anchor = NoCost \/ value = NoCost \/ value - s.anchor >= Band

\* The tail goes out before a new window or a blank.
Flushed(s, up, value, isReset) ==
    IF (isReset \/ value = NoCost) /\ s.latest # NoCost THEN Published(s, up, s.latest) ELSE s

\* _handle_coordinator_update; `clock` is the last one read when the poll failed.
Handle(up, value, clock, context) ==
    LET isReset ==
            \/ value # NoCost /\ sensor.latest # NoCost /\ value < sensor.latest
            \/ clock # NoCost /\ sensor.clock # NoCost /\ clock < sensor.clock
        terminal == isReset \/ context # sensor.context \/ value = NoCost
        first == Flushed(sensor, up, value, isReset)
        publishes == \/ terminal
                     \/ first.native = NoCost
                     \/ ~first.sameMinute /\ BandReached(first, value)
        second == Published(first, up, IF publishes THEN value ELSE first.native)
    IN  /\ sensor' = [second EXCEPT !.latest = value, !.context = context, !.clock = clock,
                                    !.sameMinute = @ \/ publishes,
                                    !.anchor = IF publishes THEN value ELSE @]
        /\ shown' = Exposed(second)
        /\ recorder' = Compiled(Compiled(recorder, Exposed(first)), Exposed(second))

Context(up) == IF up # "on" THEN "unreachable" ELSE IF charging THEN "charging" ELSE "idle"

\* What the readings add up to: growth, and whatever a lower one starts with.
Counts(value) ==
    IF value = NoCost THEN UNCHANGED <<seen, owed>>
    ELSE /\ seen' = value
         /\ owed' = owed + (IF seen = NoCost THEN 0
                            ELSE IF value < seen THEN value ELSE value - seen)

----------------------------------------------------------------------------
\* A reply can lack the meter or the clock.
CostPoll ==
    /\ loaded
    /\ link' = "on"
    /\ \E value \in {money, NoCost}, clock \in {ticks, NoCost} :
          /\ Handle("on", value, clock, Context("on"))
          /\ Counts(value)
    /\ UNCHANGED <<chargerVars, loaded, kept>>

\* Listeners are told of the first failure, and when the grace is over.
PollsFail ==
    /\ loaded /\ link # "off"
    /\ link' = IF link = "on" THEN "grace" ELSE "off"
    /\ Handle(link', NoCost, sensor.clock, Context(link'))
    /\ UNCHANGED <<chargerVars, loaded, kept, seen, owed>>

MinutePasses ==
    /\ sensor.sameMinute
    /\ sensor' = [sensor EXCEPT !.sameMinute = FALSE]
    /\ UNCHANGED <<chargerVars, link, loaded, shown, kept, recorder, seen, owed>>

\* A plausible bug: without its own copy a window saved as unavailable is lost.
RestoredMeter_StateOnly ==
    [NewSensor EXCEPT !.window = kept.state.window, !.previous = kept.state.value]

\* _async_restore_state: the state first, then the sensor's own copy.
RestoredMeter ==
    [NewSensor EXCEPT
        !.window = IF kept.state.value # NoCost THEN kept.state.window ELSE kept.window,
        !.previous = IF kept.state.value # NoCost THEN kept.state.value ELSE kept.previous]

\* The entity is added with what setup's poll read, or with nothing.
AddSensor ==
    /\ ~loaded
    /\ loaded' = TRUE
    /\ \E up \in {"on", "off"}, value \in {money, NoCost} :
          /\ up = "off" => value = NoCost
          /\ link' = up
          /\ sensor' = Published(RestoredMeter, up, value)
          /\ Counts(value)
    /\ shown' = Exposed(sensor')
    /\ recorder' = Compiled(recorder, shown')
    /\ UNCHANGED <<chargerVars, kept>>

Leaves(s) ==
    /\ loaded' = FALSE /\ link' = "off"
    /\ kept' = [state |-> Exposed(s), window |-> s.window, previous |-> s.previous]
    /\ sensor' = NewSensor /\ shown' = Blank
    /\ recorder' = Compiled(recorder, Exposed(s))
    /\ UNCHANGED chargerVars

\* async_will_remove_from_hass
Unloads ==
    /\ loaded
    /\ Leaves(IF sensor.latest # NoCost THEN Published(sensor, link, sensor.latest) ELSE sensor)
    /\ UNCHANGED <<seen, owed>>

\* Home Assistant stops without removing its entities: what was held back counts
\* as not read.
Halts ==
    /\ loaded
    /\ Leaves(sensor)
    /\ seen' = recorder.last
    /\ owed' = recorder.sum

CostNext ==
    ChargerNext \/ CostPoll \/ PollsFail \/ MinutePasses \/ AddSensor \/ Unloads \/ Halts

CostSpec == CostInit /\ [][CostNext]_costVars

----------------------------------------------------------------------------
(* Properties                                                                 *)

\* Every hryvnia that was read reaches the statistics once: what they contain
\* and what is still held back is what all readings add up to, over sessions,
\* missed polls, missing meters, reloads, and restarts during an outage
\* (sensor_definitions.py:154-212, 411-472).
CostsAreCounted == recorder.last # NoCost => recorder.sum + seen - recorder.last = owed

\* "tracks meter resets so TOTAL statistics stay correct": a session that its
\* clock shows to be new is counted whole (sensor_definitions.py:393-402).
NewSessionCountsWhole ==
    [][ /\ loaded /\ loaded' /\ recorder.last # NoCost
        /\ sensor'.clock # NoCost /\ sensor'.clock < sensor.clock /\ sensor'.latest # NoCost
        => recorder'.sum = recorder.sum + seen - recorder.last + sensor'.latest ]_costVars
=============================================================================
