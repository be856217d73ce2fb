------------------------------ MODULE SessionEnd ------------------------------
(* Why a charge ended, told three times: in the eveus_charging_finished event *)
(* of the poll that sees it, in Not Charging Reason from then on, and in what *)
(* the three Last Session sensors keep of the event over restarts.  Classic   *)
(* and REVE firmware report an end in different codes, firmware 1.x in none   *)
(* that can be read.                                                          *)
(*                                                                            *)
(* A session's energy, cost and duration are stood for by its number, and a   *)
(* reason is named after the cause it states.  That a new session is told     *)
(* from a completed one by its clock is ChargeMemory; which polls fire which  *)
(* events is TransitionEvents.                                                *)
EXTENDS Integers

CONSTANTS
    Fields,         \* the Last Session sensors
    Limits,         \* of a session
    MaxEnds         \* bound on the sessions of a behaviour

\* A limit goes by a name of its own.
ASSUME EndAssumption ==
    Limits \cap {"none", "car", "user", "schedule", "unplug", "fault", "schedule's energy",
                 "adaptive", "activation", "other", "waiting", "paused", "ocpp", "standby",
                 "charging", "error"} = {}

VARIABLES
    family,         \* "classic", "REVE" or "1.x"
    ocpp,           \* OCPP has been switched on
    cause,          \* what ended the charge; "none" while it runs
    code,           \* what the charger reports
    number,         \* of the session
    moved,          \* the codes have changed since the charge ended
    prior,          \* _event_prev_state
    charged,        \* the session of _event_charging_payload
    finished,       \* the session of charge_completed
    event,          \* what the last step fired
    reason,         \* Not Charging Reason
    summary,        \* the Last Session sensors: the session of the value, and of the
                    \* reason and the finish time
    savedSummary,   \* their saved states
    complete        \* for the properties: the session seen complete that has not gone on

chargeVars == <<family, ocpp, cause, code, number, moved>>
endVars ==
    <<chargeVars, prior, charged, finished, event, reason, summary, savedSummary, complete>>

Parked == {"connected", "complete", "paused"}

NoSession == 0
NoEvent == [session |-> NoSession, reason |-> "none"]
NotTold == [value |-> NoSession, session |-> NoSession]

Code(state, sub) ==
    [state |-> state, sub |-> sub, stopped |-> FALSE, limit |-> "none", schedule |-> FALSE]

EndInit ==
    /\ family \in {"classic", "REVE", "1.x"} /\ ocpp \in BOOLEAN
    /\ cause = "none" /\ code = Code("charging", "none") /\ number = 1 /\ moved = FALSE
    /\ prior = "none" /\ charged = NoSession /\ finished = NoSession
    /\ event = NoEvent /\ reason = "none"
    /\ summary = [f \in Fields |-> NotTold] /\ savedSummary = summary
    /\ complete = NoSession

----------------------------------------------------------------------------
(* The charger.  Classic firmware names the cause in subState; REVE holds a   *)
(* stopped charge in one subState, and its settings tell why.                 *)

Reports(c) ==
    IF c = "unplug" THEN {Code("standby", "none")}
    ELSE IF c = "fault" THEN {Code("error", "other")}
    ELSE IF c = "car" THEN {Code("complete", IF family = "1.x" THEN "other" ELSE "none")}
    ELSE IF family = "1.x" THEN {Code(s, "other") : s \in Parked}
    ELSE IF family = "classic" THEN {[Code(s, c) EXCEPT !.stopped = c = "user"] : s \in Parked}
    ELSE {[Code(s, "activation") EXCEPT
              !.stopped = c = "user", !.schedule = c = "schedule",
              !.limit = IF c \in Limits THEN c ELSE "none"] : s \in {"connected", "complete"}}

Causes ==
    Limits \cup {"car", "user", "schedule", "unplug", "fault"}
           \cup (IF family = "classic" THEN {"schedule's energy", "adaptive"} ELSE {})

Ends(c) ==
    /\ code.state = "charging"
    /\ cause' = c
    /\ code' \in Reports(c)
    /\ moved' = FALSE
    /\ UNCHANGED number

\* subState is a live signal: a schedule's window closes on a car that is full.
WindowMoves ==
    /\ family = "classic" /\ cause = "car" /\ code.state = "complete"
    /\ code' = [code EXCEPT !.sub = IF @ = "none" THEN "schedule" ELSE "none"]
    /\ moved' = TRUE
    /\ UNCHANGED <<cause, number>>

Unplugged ==
    /\ code.state \notin {"standby", "charging"}
    /\ code' = Code("standby", "none")
    /\ moved' = TRUE
    /\ UNCHANGED <<cause, number>>

\* A parked charge goes on, or another one starts.
Starts ==
    /\ code.state # "charging"
    /\ code' = Code("charging", "none") /\ cause' = "none" /\ moved' = FALSE
    /\ number' \in {number, number + 1} /\ number' <= MaxEnds
    /\ code.state = "standby" => number' # number

ChargeNext ==
    /\ \/ (\E c \in Causes : Ends(c)) /\ UNCHANGED complete
       \/ (WindowMoves \/ Unplugged) /\ UNCHANGED complete
       \/ Starts /\ complete' = NoSession
    /\ event' = NoEvent
    /\ UNCHANGED <<family, ocpp, prior, charged, finished, reason, summary, savedSummary>>

----------------------------------------------------------------------------
(* The reason                                                                 *)

\* What the state alone says of a car that is plugged in.
ByItself(r) ==
    CASE r.state = "complete" -> "car" [] r.state = "connected" -> "waiting" [] OTHER -> "paused"

\* Held for an outside start: REVE's way to stop a charge.
Activation(r, waits) ==
    IF r.stopped THEN "user"
    ELSE IF r.limit # "none" THEN r.limit
    ELSE IF waits THEN "schedule"
    ELSE "activation"

\* A plausible bug: subState is read before a finished charge is.
Reason_SubFirst(r, completed, waits) ==
    IF r.state \notin Parked THEN r.state
    ELSE IF ocpp THEN "ocpp"
    ELSE IF family = "1.x" THEN ByItself(r)
    ELSE IF r.sub = "activation" THEN Activation(r, waits)
    ELSE IF r.sub # "none" THEN r.sub
    ELSE IF r.state = "complete" /\ completed THEN "car"
    ELSE ByItself(r)

\* not_charging_reason
Reason(r, completed, waits) ==
    IF r.state \notin Parked THEN r.state
    ELSE IF ocpp THEN "ocpp"
    ELSE IF family = "1.x" THEN ByItself(r)
    ELSE IF r.sub = "activation" THEN Activation(r, waits)
    ELSE IF r.state = "complete" /\ completed THEN "car"
    ELSE IF r.sub # "none" THEN r.sub
    ELSE ByItself(r)

\* SUBSTATE_FINISH_REASONS and FINISHED_REASONS
InEvent(why) ==
    IF why = "schedule" THEN "schedule"
    ELSE IF why \in Limits \cup {"schedule's energy"} THEN "limit"
    ELSE IF why = "user" THEN "stopped"
    ELSE "none"

ByState(state) ==
    CASE state = "standby" -> "unplugged"
      [] state = "complete" -> "complete"
      [] state = "paused" -> "paused"
      [] OTHER -> "stopped"

\* finish_reason
FinishReason(r) ==
    LET named == InEvent(Reason(r, FALSE, FALSE))
    IN  IF named # "none" THEN named ELSE ByState(r.state)

----------------------------------------------------------------------------
(* Polls                                                                      *)

\* _handle_finished_event, of values that may not be usable.
Captured(told, unusable) ==
    [f \in Fields |-> [value   |-> IF f \in unusable THEN NoSession ELSE told.session,
                       session |-> told.session]]

\* The event of a charge that polls saw running and have not seen ended.
Fires ==
    prior \notin {"none", code.state} /\ code.state \notin {"charging", "error"}
    /\ charged # NoSession

\* _track_charge_completion
Completes ==
    IF code.state = "complete" /\ family # "1.x" /\ (code.sub = "none" \/ finished = number)
    THEN number ELSE NoSession

EndPoll ==
    /\ prior' = code.state
    /\ charged' = IF code.state = "charging" THEN number ELSE IF Fires THEN NoSession ELSE charged
    /\ finished' = Completes
    /\ reason' = Reason(code, finished' = number,
                        family = "REVE" /\ code.state = "connected" /\ code.schedule)
    /\ IF Fires
       THEN /\ event' = [session |-> charged, reason |-> FinishReason(code)]
            /\ \E unusable \in SUBSET Fields : summary' = Captured(event', unusable)
       ELSE event' = NoEvent /\ UNCHANGED summary
    /\ complete' = IF code.state # "complete" THEN NoSession
                   ELSE IF code.sub = "none" THEN number ELSE complete
    /\ UNCHANGED <<chargeVars, savedSummary>>

\* _forget_poll_gap_state
EndMiss ==
    /\ prior' = "none" /\ charged' = NoSession
    /\ event' = NoEvent
    /\ UNCHANGED <<chargeVars, finished, reason, summary, savedSummary, complete>>

----------------------------------------------------------------------------
(* Restarts                                                                   *)

\* _async_restore_state: only a value that can be read brings its attributes back.
RestoredSummary(saved, unreadable) ==
    [f \in Fields |->
        IF saved[f].value = NoSession \/ f \in unreadable THEN NotTold ELSE saved[f]]

\* A state is saved in the unit it is shown in, which may be one that cannot be
\* converted back.
ComesUp ==
    /\ \E unreadable \in SUBSET Fields : summary' = RestoredSummary(savedSummary', unreadable)
    /\ prior' = "none" /\ charged' = NoSession
    /\ event' = NoEvent /\ reason' = "none"
    /\ UNCHANGED chargeVars

\* Every quarter of an hour, and when Home Assistant stops.
SavesSummary ==
    /\ savedSummary' = summary
    /\ event' = NoEvent
    /\ UNCHANGED <<chargeVars, prior, charged, finished, reason, summary, complete>>

RestartsCleanly ==
    /\ savedSummary' = summary
    /\ ComesUp
    /\ UNCHANGED <<finished, complete>>

CrashesDown ==
    /\ UNCHANGED savedSummary
    /\ ComesUp
    /\ finished' \in {finished, NoSession}
    /\ complete' = NoSession

EndNext ==
    \/ ChargeNext \/ EndPoll \/ EndMiss
    \/ SavesSummary \/ RestartsCleanly \/ CrashesDown

EndSpec == EndInit /\ [][EndNext]_endVars

----------------------------------------------------------------------------
(* Properties                                                                 *)

Fired == event' \notin {event, NoEvent}

\* Where the charger says why it stopped, the event says so, in the codes of any
\* firmware: a limit is a limit, the user's Stop a stop.  REVE's schedules are
\* the exception, NamedAlike below.
EventIsTrue ==
    [][ Fired /\ ~moved =>
        event'.reason =
            IF cause = "car" THEN "complete"
            ELSE IF cause = "unplug" THEN "unplugged"
            ELSE IF family = "1.x" \/ ocpp THEN ByState(code.state)
            ELSE IF cause = "user" THEN "stopped"
            ELSE IF cause \in Limits \cup {"schedule's energy"} THEN "limit"
            ELSE IF cause = "schedule" /\ family = "classic" THEN "schedule"
            ELSE ByState(code.state) ]_endVars

\* A car that ended its charge stays the reason for as long as it is parked,
\* through closing windows, missed polls and restarts (charge_reason.py:120-124).
CompleteStays ==
    [][ /\ prior' = "complete" /\ reason' # "none" /\ ~ocpp
        /\ complete = number
        => reason' = "car" ]_endVars

\* The three sensors never mix two sessions, neither in one of them nor between
\* them, through unusable values, restarts and crashes (session_history.py:118-119).
SummaryStands ==
    \A f, g \in Fields :
        /\ summary[f].value \in {NoSession, summary[f].session}
        /\ summary[f].session # NoSession /\ summary[g].session # NoSession
           => summary[f].session = summary[g].session

\* The end of a charge is told as it was, and the telling stays of one piece.
EndIsTold == EventIsTrue /\ CompleteStays /\ []SummaryStands

\* "Kept in one place so the two can never name the same stop differently"
\* (charge_reason.py:4-5).
NamedAlike ==
    [][ Fired /\ InEvent(reason') # "none" => event'.reason = InEvent(reason') ]_endVars
=============================================================================
