------------------------------- MODULE SocLimit -------------------------------
(***************************************************************************)
(* SocLimitController and its switch: the one limit Home Assistant must    *)
(* enforce itself.  Polls are applied while a Stop is queued, on the wire  *)
(* or unanswered; the target moves, the switch and the charger's "Disable  *)
(* limits" are toggled, sessions begin unseen, the entry reloads.          *)
(*                                                                         *)
(* A Stop goes through CommandManager: here it is queued, transmitted if   *)
(* the preflight agrees, lands or is lost, and is answered, retried or     *)
(* given up.  _generation is left out: re-arming cancels the Stop under    *)
(* way, so a Stop that still runs always belongs to the current one.       *)
(* A definition called Name_Fault is a faulty variant of Name, kept to     *)
(* show that the properties notice it; nothing else uses it.               *)
(***************************************************************************)
EXTENDS Integers

CONSTANTS
    MaxEnergy,      \* bounds of a session's counters
    MaxClock,
    ResetEps,       \* _SESSION_RESET_EPS_KWH
    Thresholds      \* the session energy at which Target SOC is reached; with the
                    \* target, the initial SOC and the battery it moves

ASSUME SocAssumption ==
    /\ {MaxEnergy, MaxClock, ResetEps} \subseteq Nat
    /\ Thresholds \subseteq 0 .. MaxEnergy

None == -1

VARIABLES
    charger,        \* active, stopped (evseEnabled = 1), suspended, energy, clock
    asked,          \* a poll's answer under way: its "stopped", or None
    snapshot,       \* the last applied payload, or Blank
    pollOK,         \* available and last_update_success
    threshold,      \* from the SOC helpers; None when they are not set
    isOn,           \* the switch
    written,        \* its state as Home Assistant has it written, for the next setup
    wasSuspended,   \* _was_suspended
    up,             \* the entry is loaded
    enabled,        \* _enabled
    latch,          \* _fired, _pending, _stop_attempted, _pending_energy, ..._time
    task,           \* _stop_task: "none", "yield", "queued", "wire", "done"
    post,           \* the POST under way: "none", "out", "landed"
    event,          \* the reached event fired by the last step: its threshold
    told,           \* the event was fired since the limit was last armed
    sentIn,         \* our last POST: "never", in "this" session, in an "earlier" one
    sentFor,        \* and the threshold it was sent for
    blind,          \* the entry was set up without a reading, and has none yet
    rose,           \* "Disable limits" rose since the last reading
    setting         \* how the switch was left: by the user, by a poll where "Disable
                    \* limits" rose or that was the first after a blind setup, or by a
                    \* crash, which may lose the last changes

chargerVars == <<charger, rose>>
pollVars == <<asked, snapshot, pollOK>>
entryVars == <<isOn, written, setting, wasSuspended, up, enabled, blind>>
stopVars == <<latch, task, post>>
ghostVars == <<event, told, sentIn, sentFor>>
vars == <<chargerVars, pollVars, threshold, entryVars, stopVars, ghostVars>>

Readings == [active : BOOLEAN, stopped : 0 .. 1, suspended : BOOLEAN,
             energy : 0 .. MaxEnergy, clock : 0 .. MaxClock]
Blank == [active |-> FALSE, stopped |-> 0, suspended |-> FALSE,
          energy |-> None, clock |-> None]
Fresh == [fired |-> FALSE, pending |-> None, attempted |-> FALSE,
          energy |-> None, clock |-> None]

Init ==
    /\ charger \in {r \in Readings : r.energy = 0 /\ r.clock = 0}
    /\ asked = None /\ snapshot = charger /\ pollOK = TRUE
    /\ threshold \in Thresholds
    /\ isOn \in BOOLEAN /\ written = isOn /\ setting = isOn
    /\ enabled = isOn /\ wasSuspended = charger.suspended
    /\ up = TRUE /\ blind = FALSE /\ rose = FALSE
    /\ latch = Fresh /\ task = "none" /\ post = "none"
    /\ event = None /\ told = FALSE
    /\ sentIn = "never" /\ sentFor = None

-------------------------------------------------------------------------------
(* The charger and the user.  The charger's own changes are taken before a *)
(* poll asks or after it was applied: in between only a POST can interfere.*)

ChargerMoves ==
    /\ asked = None
    /\ \/ charger' = [charger EXCEPT !.active = ~@]
       \/ charger' = [charger EXCEPT !.stopped = 1 - @]
       \/ charger' = [charger EXCEPT !.suspended = ~@]
       \/ /\ charger.clock < MaxClock
          /\ \E more \in 0 .. 1 :
                /\ more = 1 => charger.active /\ charger.stopped = 0
                /\ charger.energy + more <= MaxEnergy
                /\ charger' = [charger EXCEPT !.clock = @ + 1, !.energy = @ + more]
    /\ rose' = (rose \/ (charger'.suspended /\ ~charger.suspended))
    /\ event' = None
    /\ UNCHANGED <<pollVars, threshold, entryVars, stopVars, told, sentIn, sentFor>>

\* Another session, which may begin and go on between two polls.
Replug ==
    /\ asked = None
    /\ charger' = [charger EXCEPT !.energy = 0, !.clock = 0]
    /\ UNCHANGED rose
    /\ event' = None
    /\ sentIn' = IF sentIn = "this" THEN "earlier" ELSE sentIn
    /\ told' = FALSE
    /\ UNCHANGED <<pollVars, threshold, entryVars, stopVars, sentFor>>

TargetMoves ==
    /\ threshold' \in (Thresholds \cup {None}) \ {threshold}
    /\ event' = None
    /\ UNCHANGED <<chargerVars, pollVars, entryVars, stopVars, told, sentIn, sentFor>>

-------------------------------------------------------------------------------
(* The controller.                                                         *)

Due(energy) == threshold # None /\ energy # None /\ energy >= threshold

\* _rearm: the latch is reset and the Stop under way cancelled; what it has on the
\* wire may still land.
Rearm == latch' = Fresh /\ task' = "none"

EnergyReset(reading) == latch.energy # None /\ reading.energy < latch.energy - ResetEps
ClockReset(reading) == latch.clock # None /\ reading.clock < latch.clock

\* The counters of the session the Stop was for only grow.
NewSession(reading) == EnergyReset(reading) \/ ClockReset(reading)

Confirms_AnyStop(held, reading) ==
    held.pending # None /\ ~held.fired /\ reading.stopped = 1

Confirms(held, reading) ==
    held.pending # None /\ held.attempted /\ ~held.fired /\ reading.stopped = 1

MayStart_Once(running) == running = "none"

\* No Stop is under way.
MayStart(running) == running \in {"none", "done"}

\* process, on a good poll with the limit enabled and not suspended.
Enforce(reading) ==
    LET fresh == reading.active /\ (latch.pending # None \/ latch.fired) /\ NewSession(reading)
        held == IF fresh THEN Fresh ELSE latch
        running == IF fresh THEN "none" ELSE task
        confirmed == Confirms(held, reading)
    IN  /\ event' = IF confirmed THEN held.pending ELSE None
        /\ IF ~reading.active THEN Rearm
           ELSE /\ latch' = IF confirmed THEN [held EXCEPT !.fired = TRUE, !.pending = None]
                            ELSE held
                /\ task' = IF ~latch'.fired /\ MayStart(running) /\ reading.stopped = 0
                              /\ Due(reading.energy)
                           THEN "yield" ELSE running
        /\ told' = ((told \/ confirmed) /\ reading.active)

\* EveusSocLimitSwitch._handle_coordinator_update: "Disable limits" going on
\* switches the limit off.
SwitchFollows(reading) ==
    /\ wasSuspended' = reading.suspended
    /\ isOn' = (isOn /\ ~(reading.suspended /\ ~wasSuspended))
    /\ enabled' = isOn'
    /\ written' = isOn'
    /\ setting' = IF rose \/ blind THEN setting /\ isOn' ELSE setting

-------------------------------------------------------------------------------
(* Polls.                                                                  *)

AskPoll ==
    /\ up
    /\ asked = None
    /\ asked' = charger.stopped
    /\ event' = None
    /\ UNCHANGED <<chargerVars, snapshot, pollOK, threshold, entryVars, stopVars, told, sentIn,
                   sentFor>>

\* The Stop's yield is one pass of the event loop: the next poll takes longer.
ApplyPoll ==
    /\ up
    /\ asked # None
    /\ task # "yield"
    /\ asked' = None
    /\ snapshot' = [charger EXCEPT !.stopped = asked]
    /\ pollOK' = TRUE
    /\ blind' = FALSE
    /\ SwitchFollows(snapshot')
    /\ IF isOn' # isOn THEN Rearm /\ event' = None /\ told' = FALSE
       ELSE IF enabled' /\ ~snapshot'.suspended THEN Enforce(snapshot')
       ELSE /\ event' = None
            /\ told' = (told /\ snapshot'.active)
            /\ UNCHANGED <<latch, task>>
    /\ rose' = FALSE
    /\ UNCHANGED <<charger, threshold, up, post, sentIn, sentFor>>

PollFails ==
    /\ up
    /\ asked # None
    /\ asked' = None
    /\ pollOK' = FALSE
    /\ event' = None
    /\ UNCHANGED <<chargerVars, snapshot, threshold, entryVars, stopVars, told, sentIn, sentFor>>

-------------------------------------------------------------------------------
(* The Stop: _stop, its preflight, and what becomes of the POST.           *)

\* The token of an attempt that came to nothing, unless a poll has confirmed it.
Withdrawn == IF latch.fired THEN latch
             ELSE [latch EXCEPT !.pending = None, !.energy = None, !.clock = None]

\* After its yield the Stop notes the attempt, unless "Disable limits" went on.
BeginStop ==
    /\ task = "yield"
    /\ LET noted == IF latch.pending # None THEN latch
                    ELSE [latch EXCEPT !.pending = threshold, !.attempted = FALSE,
                                       !.energy = snapshot.energy, !.clock = snapshot.clock]
       IN  IF snapshot.suspended
           THEN /\ task' = "done"
                /\ latch' = IF latch.fired THEN noted
                            ELSE [noted EXCEPT !.pending = None, !.energy = None, !.clock = None]
           ELSE task' = "queued" /\ latch' = noted
    /\ event' = None
    /\ UNCHANGED <<chargerVars, pollVars, threshold, entryVars, post, told, sentIn, sentFor>>

StopStillDue_Enabled == enabled /\ pollOK

\* _stop_still_due
StopStillDue ==
    /\ enabled /\ pollOK
    /\ ~snapshot.suspended /\ snapshot.active /\ snapshot.stopped = 0
    /\ ~NewSession(snapshot)
    /\ Due(snapshot.energy)

\* The event is to describe the decision taken at the wire.
Decided == [latch EXCEPT !.pending = threshold, !.attempted = TRUE]

Transmit ==
    /\ task = "queued"
    /\ StopStillDue
    /\ latch' = Decided
    /\ task' = "wire" /\ post' = "out"
    /\ sentIn' = "this" /\ sentFor' = threshold
    /\ event' = None
    /\ UNCHANGED <<chargerVars, pollVars, threshold, entryVars, told>>

Veto ==
    /\ task = "queued"
    /\ ~StopStillDue
    /\ latch' = Withdrawn
    /\ task' = "done"
    /\ event' = None
    /\ UNCHANGED <<chargerVars, pollVars, threshold, entryVars, post, told, sentIn, sentFor>>

Land ==
    /\ post = "out"
    /\ post' = "landed"
    /\ charger' = [charger EXCEPT !.stopped = 1]
    /\ event' = None
    /\ UNCHANGED <<rose, pollVars, threshold, entryVars, latch, task, told, sentIn, sentFor>>

\* A POST nobody waits for any more vanishes.
Vanish ==
    /\ post # "none"
    /\ task # "wire"
    /\ post' = "none"
    /\ event' = None
    /\ UNCHANGED <<chargerVars, pollVars, threshold, entryVars, latch, task, told, sentIn,
                   sentFor>>

Accepted ==
    /\ task = "wire"
    /\ post = "landed"
    /\ task' = "done" /\ post' = "none"
    /\ latch' = [latch EXCEPT !.attempted = TRUE]
    /\ event' = None
    /\ UNCHANGED <<chargerVars, pollVars, threshold, entryVars, told, sentIn, sentFor>>

\* The request or its answer is lost: the command manager retries or gives up.
NoAnswer ==
    /\ task = "wire"
    /\ post' = "none"
    /\ \/ task' = "queued" /\ UNCHANGED latch
       \/ task' = "done" /\ latch' = Withdrawn
    /\ event' = None
    /\ UNCHANGED <<chargerVars, pollVars, threshold, entryVars, told, sentIn, sentFor>>

-------------------------------------------------------------------------------
(* The switch and the entry.                                               *)

\* async_turn_on, async_turn_off; set_enabled re-arms on a change only.
Toggle ==
    /\ up
    /\ isOn' \in BOOLEAN
    /\ enabled' = isOn' /\ written' = isOn' /\ setting' = isOn'
    /\ IF isOn' # isOn THEN Rearm /\ told' = FALSE ELSE UNCHANGED <<latch, task, told>>
    /\ event' = None
    /\ UNCHANGED <<chargerVars, pollVars, threshold, wasSuspended, up, blind, post, sentIn,
                   sentFor>>

\* The switch and the controller are gone.
Gone ==
    /\ up' = FALSE
    /\ isOn' = FALSE /\ enabled' = FALSE
    /\ Rearm
    /\ asked' = None
    /\ event' = None /\ told' = FALSE
    /\ UNCHANGED <<chargerVars, snapshot, pollOK, threshold, wasSuspended, blind, post, sentIn,
                   sentFor>>

\* async_shutdown
Unload == up /\ Gone /\ UNCHANGED <<written, setting>>

\* Home Assistant keeps the states written up to some time before.
Crash == Gone /\ written' \in BOOLEAN /\ setting' = written'

SeedSwitch_Nothing == FALSE

\* async_added_to_hass: the edge memory starts from the reading setup made, if any.
SeedSwitch == IF blind' THEN FALSE ELSE charger.suspended

Restored_Off == FALSE

\* And the switch from its last state.
Restored == written

\* Setup: a charger that does not answer may still be set up, without a reading.
Load ==
    /\ ~up
    /\ up' = TRUE
    /\ blind' \in BOOLEAN
    /\ snapshot' = IF blind' THEN Blank ELSE charger
    /\ pollOK' = ~blind'
    /\ wasSuspended' = SeedSwitch
    /\ isOn' = Restored /\ enabled' = isOn'
    /\ latch' = Fresh
    /\ task' = IF isOn' /\ ~blind' /\ ~charger.suspended /\ charger.active
                  /\ charger.stopped = 0 /\ Due(charger.energy)
               THEN "yield" ELSE "none"
    /\ event' = None /\ told' = FALSE /\ sentIn' = "never" /\ sentFor' = None
    /\ rose' = (rose /\ blind')
    /\ UNCHANGED <<charger, asked, threshold, written, setting, post>>

StopNext == BeginStop \/ Transmit \/ Veto \/ Land \/ Vanish \/ Accepted \/ NoAnswer

Next ==
    \/ ChargerMoves \/ Replug \/ TargetMoves
    \/ AskPoll \/ ApplyPoll \/ PollFails
    \/ StopNext
    \/ Toggle \/ Unload \/ Crash \/ Load

Spec == Init /\ [][Next]_vars

(***************************************************************************)
(* Polls are made and end; a Stop runs, lands and is answered or times out.*)
(***************************************************************************)
FairSpec ==
    /\ Spec
    /\ WF_vars(AskPoll) /\ WF_vars(ApplyPoll \/ PollFails)
    /\ WF_vars(BeginStop) /\ WF_vars(Transmit \/ Veto)
    /\ WF_vars(Land) /\ WF_vars(Accepted \/ NoAnswer)

-------------------------------------------------------------------------------
\* A Stop is sent on what the last good poll and the helpers say at that moment, not
\* on what they said when it was queued.
StopIsDueAtTheWire ==
    [][ post' = "out" /\ post # "out" =>
        /\ isOn /\ up /\ pollOK
        /\ snapshot.active /\ snapshot.stopped = 0 /\ ~snapshot.suspended
        /\ Due(snapshot.energy) ]_vars

\* The event is fired once, and no Stop is begun for a charge the user resumes after
\* it, until the session is seen to end or the switch is toggled.
OncePerSession == [][ told => event' = None /\ ~(task # "yield" /\ task' = "yield") ]_vars

\* The event needs a Stop that was put on the wire; one from an earlier session only
\* serves while the new session's clock has run past it unseen.
EventNeedsAStop ==
    [][ event' # None =>
        \/ sentIn = "this"
        \/ sentIn = "earlier" /\ (snapshot'.active => snapshot'.clock >= latch.clock) ]_vars

\* The event names the target that was in force when the Stop went out.
EventNamesTheDecision == [][ event' # None => event' = sentFor ]_vars

\* The event tells, once, of a Stop the controller sent, and what it was decided on.
EventIsTheStops == EventNeedsAStop /\ EventNamesTheDecision /\ OncePerSession

SwitchedOffByPoll == up' /\ isOn /\ ~isOn' /\ asked # None /\ asked' = None

\* Polls turn the switch off when "Disable limits" rises, and only then: turned on again
\* while limits are disabled it stays on, reloads included.
PollsSpareTheSwitch == [][ SwitchedOffByPoll /\ ~blind => rose ]_vars

\* The switch keeps its setting: polls leave it alone, and a loaded entry's is as it was
\* left, and obeyed by the controller, over reloads and restarts, and after a crash as it
\* was last saved.
SwitchKeepsItsSetting ==
    PollsSpareTheSwitch /\ [](up => isOn = setting /\ enabled = setting)

\* The same for an entry that was set up while the charger did not answer.
SwitchKeepsItsSettingOffline == [][ SwitchedOffByPoll => rose ]_vars

\* A charge at its target is stopped in the end: refused, lost and vetoed Stops are
\* sent again with later polls.
LimitIsEnforced ==
    /\ <>[](isOn /\ up /\ charger.active /\ ~charger.suspended /\ Due(charger.energy))
    /\ <>[][~PollFails /\ ~NoAnswer /\ ~Replug]_vars
    => []<>(charger.stopped = 1 \/ latch.fired)

===============================================================================
