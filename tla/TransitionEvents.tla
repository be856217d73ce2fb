--------------------------- MODULE TransitionEvents ---------------------------
(***************************************************************************)
(* The bus events EveusUpdater fires for transitions of the charger, the   *)
(* translation of firmware-1.x state codes they rest on, and the summary   *)
(* of a finished charge.                                                   *)
(*                                                                         *)
(* The charger moves between polls as it likes; a poll samples it.  Polls  *)
(* are good, fail or are rejected, Home Assistant restarts, and a poll may *)
(* still be in flight when the entry unloads.  A definition called         *)
(* Name_Fault is a faulty variant of Name, kept to show that the           *)
(* properties notice it; nothing else uses it.                             *)
(***************************************************************************)
EXTENDS Integers

CONSTANTS
    GracePolls,     \* _LEGACY_PAUSE_GRACE_POLLS
    Codes,          \* error subStates
    AtRest,         \* states of a plugged car that is not charging
    MaxEnergy,      \* bound on a plug-in's energy counter
    MaxPlugIns      \* bound on the plug-ins of a behaviour

ASSUME TransitionAssumption ==
    /\ {GracePolls, MaxEnergy, MaxPlugIns} \subseteq Nat
    /\ MaxPlugIns > 0
    /\ "connected" \in AtRest /\ AtRest \subseteq {"connected", "complete", "paused"}

VARIABLES
    firmware,       \* "modern" or "legacy" (1.x)
    condition,      \* what the charger is doing
    code,           \* its subState in an error
    plugged,        \* a car is plugged in
    plugIn,         \* the latest plug-in
    energy,         \* sessionEnergy
    modernSeen,     \* _modern_firmware_seen
    latched,        \* _legacy_charging_latched
    zeroPolls,      \* _legacy_zero_power_polls
    published,      \* the state of the last good poll, translated
    prevState,      \* _event_prev_state
    prevCode,       \* _event_prev_error_code
    payload,        \* the energy in _event_charging_payload
    shuttingDown,   \* _shutting_down
    events,         \* the events fired by the last step
    summary,        \* session_energy_kwh of the last finished event
    stretch,        \* a nameable good poll came since the last gap
    lastCharge,     \* the last charge event of the stretch
    open,           \* a charge of the stretch was seen and not yet finished
    seen,           \* plug-in and energy of the last charging poll
    delivered,      \* what each plug-in took
    sincePower,     \* polls of code 3 since the last with power, in the stretch
    last            \* condition, code and plug at the last nameable poll

chargerVars == <<firmware, condition, code, plugged, plugIn, energy, delivered>>
legacyVars == <<modernSeen, latched, zeroPolls>>
eventVars == <<prevState, prevCode, payload>>
ghostVars == <<stretch, lastCharge, open, seen, sincePower, last>>
vars == <<chargerVars, legacyVars, published, eventVars, shuttingDown, events, summary, ghostVars>>

None == -1                \* a figure the payload lacks, or out of its bounds
NoPayload == -2
Unseen == [plugIn |-> 0, energy |-> None]
PluggedStates == AtRest \cup {"charging"}                  \* CONNECTED_STATES
States == PluggedStates \cup {"startup", "standby", "error"} \* CHARGING_STATES

\* Where the charger may be, with a car plugged in or without.
Possible(car) ==
    {"startup", "error"} \cup (IF car THEN PluggedStates ELSE {"standby"})

\* The state it reports.  Firmware 1.x tells only standby, a plugged car and an
\* error apart; its other codes are not known.
Reported ==
    IF firmware = "modern" THEN condition
    ELSE IF condition \in PluggedStates THEN "connected"
    ELSE IF condition = "standby" THEN "code 20"
    ELSE IF condition = "error" THEN "error" ELSE "code 99"

Init ==
    /\ firmware \in {"modern", "legacy"}
    /\ plugged \in BOOLEAN /\ condition \in Possible(plugged) /\ code \in Codes
    /\ plugIn = 1 /\ energy = 0 /\ delivered = [p \in 1 .. MaxPlugIns |-> 0]
    /\ modernSeen = FALSE /\ latched = FALSE /\ zeroPolls = 0
    /\ published = "none"
    /\ prevState = "none" /\ prevCode = None /\ payload = NoPayload
    /\ shuttingDown = FALSE
    /\ events = {} /\ summary = None
    /\ stretch = FALSE /\ lastCharge = "none" /\ open = FALSE
    /\ seen = Unseen /\ sincePower = None
    /\ last = [state |-> "none", code |-> None, plugged |-> FALSE]

-------------------------------------------------------------------------------
(* The charger.  Its session counters start at zero with each plug-in and  *)
(* keep accumulating until the plug is pulled.                             *)

Quiet ==
    /\ events' = {}
    /\ UNCHANGED <<legacyVars, published, eventVars, shuttingDown, summary, ghostVars>>

Moves ==
    /\ \/ condition' \in Possible(plugged) \ {condition} /\ UNCHANGED code
       \/ condition' = "error" /\ code' \in Codes \ {code}
    /\ Quiet
    /\ UNCHANGED <<firmware, plugged, plugIn, energy, delivered>>

Deliver ==
    /\ condition = "charging"
    /\ energy < MaxEnergy
    /\ energy' = energy + 1
    /\ delivered' = [delivered EXCEPT ![plugIn] = energy']
    /\ Quiet
    /\ UNCHANGED <<firmware, condition, code, plugged, plugIn>>

Unplug ==
    /\ plugged
    /\ plugged' = FALSE
    /\ condition' = IF condition \in PluggedStates THEN "standby" ELSE condition
    /\ energy' \in {energy, 0}
    /\ Quiet
    /\ UNCHANGED <<firmware, code, plugIn, delivered>>

Plug ==
    /\ ~plugged
    /\ plugIn < MaxPlugIns
    /\ plugged' = TRUE
    /\ plugIn' = plugIn + 1
    /\ condition' = IF condition = "standby" THEN "connected" ELSE condition
    /\ energy' = 0
    /\ Quiet
    /\ UNCHANGED <<firmware, code, delivered>>

-------------------------------------------------------------------------------
(* A good poll: _normalize_legacy_device_state, then _emit_transition_events. *)

ResetLatch == latched' = FALSE /\ zeroPolls' = 0

\* Firmware 1.x: code 3 is charging while power flows, and for a short pause after.
Translate(flowing) ==
    IF Reported = "connected" /\ (flowing \/ (latched /\ zeroPolls < GracePolls))
    THEN /\ latched' = TRUE
         /\ zeroPolls' = IF flowing THEN 0 ELSE zeroPolls + 1
         /\ published' = "charging"
    ELSE ResetLatch /\ published' = IF Reported = "code 20" THEN "standby" ELSE Reported

Normalize(marker, flowing) ==
    /\ modernSeen' = (modernSeen \/ marker)
    /\ IF modernSeen' THEN published' = Reported /\ UNCHANGED <<latched, zeroPolls>>
                      ELSE Translate(flowing)

Final_StopPoll(charging, stopped) == IF stopped # None THEN stopped ELSE charging

\* _final: the larger figure; one that is missing never wins.
Final(charging, stopped) == IF stopped > charging THEN stopped ELSE charging

ChargeEvents_FaultLosesIt(state, held) ==
    IF state = "charging" THEN {"started"}
    ELSE IF state # "error" /\ prevState = "charging" THEN {"finished"} ELSE {}

\* A charge is over in any state but a fault, which may have come between.
ChargeEvents(state, held) ==
    IF state = "charging" THEN {"started"}
    ELSE IF state # "error" /\ held # NoPayload THEN {"finished"} ELSE {}

PlugEvents(from, to) ==
    IF "error" \in {from, to} THEN {}
    ELSE IF from \in PluggedStates /\ to \notin PluggedStates THEN {"disconnected"}
    ELSE IF from \notin PluggedStates /\ to \in PluggedStates THEN {"connected"} ELSE {}

CodeNow(state) == IF state = "error" THEN code ELSE None

CodeAfter_Stale(state) == prevCode

CodeAfter(state) == IF state = "error" THEN code ELSE prevCode

\* Every charging poll is held, for the summary.
Held(state, reading) == IF state = "charging" THEN reading ELSE payload

HeldAfter(charge, held) == IF "finished" \in charge THEN NoPayload ELSE held

\* The first state after a start or a gap, and any during unload, is only remembered.
Remember(state, reading) ==
    /\ prevCode' = CodeNow(state)
    /\ payload' = Held(state, reading)
    /\ events' = {}
    /\ UNCHANGED summary

\* An error that persists with another code is told.
Persist(state, reading) ==
    /\ payload' = Held(state, reading)
    /\ prevCode' = CodeAfter(state)
    /\ events' = IF state = "error" /\ code # prevCode THEN {"error"} ELSE {}
    /\ UNCHANGED summary

Change(state, reading) ==
    LET held == Held(state, reading)
        charge == ChargeEvents(state, held)
    IN  /\ payload' = HeldAfter(charge, held)
        /\ summary' = IF "finished" \in charge THEN Final(held, reading) ELSE summary
        /\ prevCode' = CodeAfter(state)
        /\ events' = charge \cup PlugEvents(prevState, state)
                            \cup (IF state = "error" THEN {"error"} ELSE {})

First == prevState = "none" \/ shuttingDown

Emit(state, reading) ==
    IF state \notin States
    THEN events' = {} /\ UNCHANGED <<eventVars, summary>>
    ELSE /\ prevState' = state
         /\ IF First THEN Remember(state, reading)
            ELSE IF prevState = state THEN Persist(state, reading)
            ELSE Change(state, reading)

\* What the properties compare the events with.
Watch(flowing, reading) ==
    /\ sincePower' = IF Reported # "connected" THEN None
                     ELSE IF flowing THEN 0
                     ELSE IF sincePower \in 0 .. GracePolls THEN sincePower + 1 ELSE sincePower
    /\ stretch' = (stretch \/ published' \in States)
    /\ lastCharge' = IF "started" \in events' THEN "started"
                     ELSE IF "finished" \in events' THEN "finished" ELSE lastCharge
    /\ open' = IF "finished" \in events' THEN FALSE ELSE open \/ published' = "charging"
    /\ seen' = IF published' = "charging" THEN [plugIn |-> plugIn, energy |-> reading]
               ELSE IF "finished" \in events' THEN Unseen ELSE seen
    /\ last' = IF published' \in States
               THEN [state |-> condition, code |-> CodeNow(condition), plugged |-> plugged]
               ELSE last

\* Power is measured while charging but for short pauses; a modern charger may also
\* draw some while only connected.  A figure may be missing from any payload.
GoodPoll ==
    \E marker, flowing, readable \in BOOLEAN :
        /\ marker => firmware = "modern"
        /\ flowing => condition = "charging" \/ (firmware = "modern" /\ condition = "connected")
        /\ LET reading == IF readable THEN energy ELSE None
           IN  /\ Normalize(marker, flowing)
               /\ Emit(published', reading)
               /\ Watch(flowing, reading)
        /\ UNCHANGED <<chargerVars, shuttingDown>>

-------------------------------------------------------------------------------
(* Gaps.                                                                   *)

Forgotten ==
    /\ stretch' = FALSE /\ lastCharge' = "none" /\ open' = FALSE /\ sincePower' = None
    /\ seen' = Unseen
    /\ last' = [state |-> "none", code |-> None, plugged |-> FALSE]

\* _forget_poll_gap_state
ForgetPollGapState ==
    /\ ResetLatch
    /\ prevState' = "none" /\ prevCode' = None /\ payload' = NoPayload

\* A poll fails, or is answered with a 401.
BadPoll ==
    /\ ForgetPollGapState
    /\ events' = {}
    /\ Forgotten
    /\ UNCHANGED <<chargerVars, modernSeen, published, shuttingDown, summary>>

BeginUnload ==
    /\ ~shuttingDown
    /\ shuttingDown' = TRUE
    /\ events' = {}
    /\ UNCHANGED <<chargerVars, legacyVars, published, eventVars, summary, ghostVars>>

\* A new coordinator, after an unload or a crash.
Restart ==
    /\ ForgetPollGapState
    /\ modernSeen' = FALSE
    /\ published' = "none"
    /\ shuttingDown' = FALSE
    /\ events' = {} /\ summary' = None
    /\ Forgotten
    /\ UNCHANGED chargerVars

Next == Moves \/ Deliver \/ Unplug \/ Plug \/ GoodPoll \/ BadPoll \/ BeginUnload \/ Restart

Spec == Init /\ [][Next]_vars

-------------------------------------------------------------------------------
\* Events tell changes between consecutive good polls: nothing is made up across
\* a failed poll, a rejected one, or a restart.
GapIsSilent == [][events' # {} => stretch]_vars

\* A charge is finished once: the next finish needs a new start.
FinishedOnce == [][~("finished" \in events' /\ lastCharge = "finished")]_vars

\* A charge that was seen is finished by the first poll that finds neither a charge
\* nor a fault, also when a fault came between.
NoChargeLeftOpen == ~shuttingDown /\ open => prevState \in {"charging", "error"}

\* The summary is the charge's own: no less than its last charging poll read, no more
\* than the plug-ins since took, and one of the two polls' while the counter stands.
SummaryIsTheCharges ==
    [][ "finished" \in events' =>
        /\ summary' >= seen.energy
        /\ \E p \in seen.plugIn .. plugIn : summary' <= delivered[p]
        /\ plugged /\ plugIn = seen.plugIn => summary' \in {seen.energy, energy} ]_vars

\* Every fault, and every new code of a fault that persists, is told.
FaultsAreTold ==
    [][ /\ stretch /\ stretch' /\ ~shuttingDown
        /\ last'.state = "error" /\ last'.code # last.code
        => "error" \in events' ]_vars

\* A plug event means that the car was plugged or unplugged between the two polls,
\* a starting charger aside.
PlugEventsAreTrue ==
    [][ "startup" \notin {last.state, last'.state} =>
        /\ "connected" \in events' => plugged /\ ~last.plugged
        /\ "disconnected" \in events' => ~plugged /\ last.plugged ]_vars

\* Firmware 1.x has no code for a pause: one of GracePolls polls does not end the
\* charge, a longer one does, and no charge outlives a gap without power.
ShortPauseIsBridged ==
    firmware = "legacy" /\ stretch =>
        /\ published = "charging" => sincePower \in 0 .. GracePolls
        /\ published = "connected" => sincePower \notin 0 .. GracePolls

\* A modern charger that leaves its marker out of a reply is not taken for 1.x.
MarkerMayDrop == modernSeen /\ stretch => published = last.state

\* The translation of firmware-1.x codes follows the power, and spares modern chargers.
LatchFollowsPower == ShortPauseIsBridged /\ MarkerMayDrop

\* Every charge that was seen is finished, and once; that of firmware 1.x when its power
\* says so.
EveryChargeFinishesOnce == FinishedOnce /\ [][NoChargeLeftOpen' /\ LatchFollowsPower']_vars

\* A poll that ends after unload began fires nothing.
SilentAfterUnload == [][shuttingDown => events' = {}]_vars

\* The events tell what happened between two good polls, and all of it.
EventsAreSeen == GapIsSilent /\ FaultsAreTold /\ PlugEventsAreTrue /\ SilentAfterUnload

\* README: "eveus_car_disconnected: The car is disconnected."
DisconnectedMeansUnplugged == [][ "disconnected" \in events' => ~plugged ]_vars

===============================================================================
