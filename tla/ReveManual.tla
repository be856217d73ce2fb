------------------------------ MODULE ReveManual ------------------------------
(***************************************************************************)
(* ManualMode: whether a REVE station ignores its schedules and limits.    *)
(* From "start now" or Stop until the car is unplugged it does.  New       *)
(* firmware reports the mode; of old firmware the mode is concluded from   *)
(* commands, written here or read in polls, from the plug and from the     *)
(* session clock, and handed on over restarts by the Manual Mode sensor.   *)
(*                                                                         *)
(* The station takes and answers a request, or the answer is lost, in one  *)
(* step.  A poll awaits more after GraphQL's answer, and a release makes a *)
(* second request: commands, which wait for each other, polls, which do    *)
(* too, the station and the app all go on in between.                      *)
(*                                                                         *)
(* A definition called Name_Fault is a faulty variant of Name, kept to     *)
(* show that the properties notice it; nothing else uses it.               *)
(***************************************************************************)
EXTENDS Integers

CONSTANTS
    Slack,          \* _RESTORE_SLACK_SECONDS; no poll awaits longer after its answer,
                    \* which the timeouts of two requests bound
    MaxNow,         \* bound on time
    MaxSessions     \* bound on the sessions of a behaviour

ASSUME ManualAssumption == {Slack, MaxNow, MaxSessions} \subseteq Nat

VARIABLES
    now,
    plug,           \* "standby" or "plugged", also in a fault, which does not tell
    session,        \* number of the session: a plug-in, or a restart under a car
    startedAt,      \* when it began
    command,        \* the station's chargingCommand
    reports,        \* whether its firmware says if it is in manual mode
    manual,         \* and whether it is; FALSE where nobody can know
    loaded,         \* "no", "yes", "told" (a poll said REVE) or "shown" (with the sensor)
    on, sessionTime, unplugged, reported, supported,    \* ManualMode
    known,          \* ReveExtras.charging_command, Unread without extras
    answer,         \* the answer of the poll under way, or Nothing
    leaving,        \* a release is about to tell the station to leave manual mode
    onSince,        \* since when the sensor is on; Unread while it is off or unavailable
    store,          \* and what the restore store holds of it
    why             \* for the properties: the session manual mode was last seen or
                    \* restored in, its clock then, and the session a clock was last read in

stationVars == <<now, plug, session, startedAt, command, manual, reports>>
manualVars == <<on, sessionTime, unplugged, reported, supported, known>>
underWay == <<answer, leaving>>
sensorVars == <<loaded, onSince, store>>
manualModeVars == <<stationVars, manualVars, underWay, sensorVars, why>>

Unread == -1
NoFlag == "none"
Flag(m) == IF m THEN "on" ELSE "off"
Start == 1          \* _COMMAND_START
Override == 2       \* _COMMAND_STOP, and _COMMAND_CHARGE_NOW, which does the same here
Commands == {Start, Override}
Manual(c) == c = Override

Clock == now - startedAt
Nothing == [live |-> FALSE]
Polling == answer # Nothing
Unseen == [session |-> Unread, clock |-> 0, polled |-> Unread]

ManualInit ==
    /\ now = 0 /\ plug = "standby" /\ session = 0 /\ startedAt = 0
    /\ command = Start /\ manual = FALSE /\ reports \in BOOLEAN
    /\ loaded = "no"
    /\ answer = Nothing /\ leaving = FALSE
    /\ on = FALSE /\ sessionTime = Unread /\ unplugged = FALSE
    /\ reported = NoFlag /\ supported = FALSE /\ known = Unread
    /\ onSince = Unread /\ store = Unread
    /\ why = Unseen

-------------------------------------------------------------------------------
(* The station, and the app.                                               *)

ManualTick ==
    /\ now < MaxNow
    /\ loaded # "told"
    /\ Polling => now < answer.at + Slack
    /\ now' = now + 1
    /\ UNCHANGED <<plug, session, startedAt, command, manual, reports, manualVars,
                   underWay, sensorVars, why>>

\* A car is plugged in, or the station restarts under one: the session counts anew.
NewSession ==
    /\ session < MaxSessions
    /\ session' = session + 1 /\ startedAt' = now
    /\ plug' = "plugged"
    /\ manual' = (reports /\ Manual(command))
    /\ UNCHANGED <<now, command, reports, manualVars, underWay, sensorVars, why>>

Unplug ==
    /\ plug # "standby"
    /\ plug' = "standby" /\ manual' = FALSE
    /\ command' \in {command, Start}
    /\ UNCHANGED <<now, session, startedAt, reports, manualVars, underWay, sensorVars, why>>

Takes(c) ==
    /\ command' = c
    /\ manual' = (manual \/ (reports /\ plug # "standby" /\ Manual(c)))

AppCommands ==
    /\ \E c \in Commands \ {command} : Takes(c)
    /\ UNCHANGED <<now, plug, session, startedAt, reports, manualVars, underWay, sensorVars, why>>

-------------------------------------------------------------------------------
(* Polls.                                                                  *)

Report(flag) ==
    /\ reported' = flag
    /\ supported' = (supported \/ flag # NoFlag)

\* What an answer says now.  For the properties it also holds when it was given, the
\* session it is of, a reported mode, and the last command since that was answered and
\* changed the mode.
Answers(isLive, clocks) ==
    [live : {isLive}, plug : {plug}, clock : clocks, at : {now},
     session : {session}, manual : {isLive /\ manual}, since : {"none"}]

\* GraphQL answers: the live clock and, on new firmware, the flag.  The command is noted
\* where extras are held, or read with them.
ReadGraphql ==
    /\ answer' \in Answers(TRUE, {Clock})
    /\ known' \in IF known = Unread THEN {Unread, command} ELSE {command}
    /\ Report(IF reports THEN Flag(manual) ELSE NoFlag)

\* /main answers: the held session's clock or, once that is old, none.
ReadMain ==
    /\ answer' \in Answers(FALSE, {sessionTime, Unread})
    /\ UNCHANGED known
    /\ Report(NoFlag)

PollReads ==
    /\ loaded \in {"yes", "shown"} /\ ~Polling
    /\ ReadGraphql \/ ReadMain
    /\ UNCHANGED <<stationVars, on, sessionTime, unplugged, leaving, sensorVars, why>>

\* ManualMode.observe: the plug first, then the clock, the command, the station's word.
Observe(r, told) ==
    LET restarted == r.clock # Unread /\ sessionTime # Unread /\ r.clock < sessionTime
    IN  /\ unplugged' = (r.plug = "standby")
        /\ sessionTime' = IF unplugged' THEN Unread
                          ELSE IF r.clock # Unread THEN r.clock ELSE sessionTime
        /\ on' = IF unplugged' THEN FALSE
                 ELSE IF reported # NoFlag THEN reported = "on"
                 ELSE Manual(told) \/ (on /\ ~restarted)

\* While manual mode is shown it was seen in the session of the answer, or earlier, or
\* later by a command written since.
See(r, told) ==
    LET trusted == on /\ r.live /\ why.polled = Unread
        seen == Manual(told) \/ reported = "on" \/ trusted
        seenIn == IF seen /\ why.session < r.session THEN r.session ELSE why.session
    IN  why' = [session |-> IF on' THEN seenIn ELSE Unread,
                clock |-> IF ~on' THEN 0
                          ELSE IF seenIn # r.session THEN why.clock
                          ELSE IF r.live THEN r.clock
                          ELSE IF why.session = r.session THEN why.clock
                          ELSE 0,
                polled |-> IF r.live /\ r.plug # "standby" THEN r.session ELSE why.polled]

Show(isOn) == onSince' = IF ~isOn THEN Unread ELSE IF onSince = Unread THEN now ELSE onSince

\* The settings, where they are due and answer, tell the command anew; while extras are
\* fresh the payload carries what they hold by now.  Then the sensor writes.
PollObserves ==
    /\ Polling
    /\ known' \in {known, command}
    /\ \E told \in {known', Unread} : Observe(answer, told) /\ See(answer, told)
    /\ answer' = Nothing
    /\ loaded' = IF loaded = "yes" THEN "told" ELSE loaded
    /\ IF loaded = "shown" THEN Show(on') ELSE UNCHANGED onSince
    /\ UNCHANGED <<stationVars, reported, supported, leaving, store>>

\* A poll fails: past its grace the sensor goes unavailable.
Miss ==
    /\ loaded = "shown" /\ ~Polling
    /\ onSince' \in {onSince, Unread}
    /\ UNCHANGED <<stationVars, manualVars, underWay, loaded, store, why>>

-------------------------------------------------------------------------------
(* Writes: Stop on and off, One Charge on and off.                         *)

Untouched == UNCHANGED <<now, plug, session, startedAt, reports, sessionTime, unplugged,
                         supported, sensorVars>>

\* A command goes out when no other is under way.
Free == loaded = "shown" /\ ~leaving

\* The answer of a written command is noted where extras are held.
NoteCommand(c) == known' = IF known = Unread THEN Unread ELSE c

SetMode_KeepsReport(isOn) ==
    /\ on' = isOn /\ UNCHANGED reported
    /\ answer' = IF Polling THEN [answer EXCEPT !.since = Flag(isOn)] ELSE answer
    /\ why' = [why EXCEPT !.session = IF isOn THEN session ELSE Unread, !.clock = 0]

\* ManualMode.command and left: the station's word is taken back, also one that a poll
\* under way has just read.
SetMode(isOn) ==
    /\ on' = isOn /\ reported' = NoFlag
    /\ answer' = IF Polling THEN [answer EXCEPT !.since = Flag(isOn)] ELSE answer
    /\ why' = [why EXCEPT !.session = IF isOn THEN session ELSE Unread, !.clock = 0]

\* set_stop(1) and set_one_charge(1): _write_charging_command.
Overrides ==
    /\ Free
    /\ Takes(Override)
    /\ \/ SetMode(TRUE) /\ NoteCommand(Override)
       \/ UNCHANGED <<on, reported, answer, known, why>>
    /\ UNCHANGED leaving /\ Untouched

\* Only a station that reports the mode can be told to leave it.
MayLeave == supported /\ on

\* set_stop(0), and set_one_charge(0) when the command is known to need it.
Releases ==
    /\ Free
    /\ command' = Start
    /\ \/ NoteCommand(Start) /\ leaving' = MayLeave
       \/ UNCHANGED <<known, leaving>>
    /\ UNCHANGED <<manual, on, reported, answer, why>> /\ Untouched

\* set_one_charge(0) with a command already released.
LeavesOnly ==
    /\ Free /\ known = Start
    /\ MayLeave
    /\ leaving' = TRUE
    /\ UNCHANGED <<command, manual, on, reported, answer, known, why>> /\ Untouched

\* _leave_manual_mode's request: taken and answered, taken only, or neither.
Leaves ==
    /\ leaving
    /\ leaving' = FALSE
    /\ \/ manual' = FALSE /\ SetMode(FALSE)
       \/ manual' \in {manual, FALSE} /\ UNCHANGED <<on, reported, answer, why>>
    /\ UNCHANGED <<command, known>> /\ Untouched

-------------------------------------------------------------------------------
(* Start and stop.                                                         *)

ManualLoad ==
    /\ loaded = "no"
    /\ loaded' = "yes"
    /\ UNCHANGED <<stationVars, manualVars, underWay, onSince, store, why>>

Restore_Blindly(onFor) == on' = (on \/ (~unplugged /\ reported = NoFlag))

\* ManualMode.restore
Restore(onFor) ==
    on' = (on \/ (/\ ~unplugged /\ reported = NoFlag
                  /\ sessionTime = Unread \/ sessionTime + Slack >= onFor))

\* The sensor is added once a poll has told REVE, and restores what it last showed, on
\* trust when no session clock has been read yet.
AddSensor ==
    /\ loaded = "told"
    /\ loaded' = "shown"
    /\ IF store # Unread THEN Restore(now - store) ELSE UNCHANGED on
    /\ Show(on')
    /\ why' = IF on' /\ ~on /\ why.polled # Unread
              THEN [why EXCEPT !.session = why.polled, !.clock = sessionTime] ELSE why
    /\ UNCHANGED <<stationVars, sessionTime, unplugged, reported, supported, known, underWay,
                   store>>

Saved == IF loaded = "shown" THEN onSince ELSE store

\* A stop saves first, a crash does not.  A second request may be on its way still.
ManualStop ==
    /\ loaded # "no"
    /\ loaded' = "no"
    /\ store' \in {Saved, store}
    /\ on' = FALSE /\ sessionTime' = Unread /\ unplugged' = FALSE
    /\ reported' = NoFlag /\ supported' = FALSE /\ known' = Unread
    /\ answer' = Nothing /\ leaving' = FALSE
    /\ why' = Unseen
    /\ onSince' = Unread
    /\ manual' \in {manual, manual /\ ~leaving}
    /\ UNCHANGED <<now, plug, session, startedAt, command, reports>>

ManualNext ==
    \/ ManualTick \/ NewSession \/ Unplug \/ AppCommands
    \/ PollReads \/ PollObserves \/ Miss
    \/ Overrides \/ Releases \/ LeavesOnly \/ Leaves
    \/ ManualLoad \/ AddSensor \/ ManualStop

ManualSpec == ManualInit /\ [][ManualNext]_manualModeVars

-------------------------------------------------------------------------------
\* Manual mode was seen in the session of the poll's answer, or in one that this cannot
\* be told from: its clock has caught up.  A later one takes a command written since.
ManualIsEarned ==
    on' => \/ why'.session = answer.session
           \/ why'.session # Unread /\ answer.clock >= why'.clock

\* A station that reports the mode has the last word, unless a command was answered since:
\* that one stands, whatever the older answer said, but for a clock that starts over.
LastWordCounts ==
    reports /\ answer.plug # "standby" =>
        /\ answer.since = "none" => (on' <=> answer.manual)
        /\ answer.since = "on" => on' \/ answer.clock < sessionTime
        /\ answer.since = "off" => ~on' \/ Manual(known')

\* Where a poll has read the session's clock, manual mode is restored only to a session
\* that had begun, within the slack, when the sensor last came on.
RestoreIsEarned ==
    on' /\ ~on /\ why.polled = session => startedAt <= store + Slack

\* A poll that reads the session clock leaves manual mode on only if it was seen in this
\* session, or restored to it, as far as the clock can tell; where the station reports the
\* mode, as it says, unless a command has changed it since.
ManualIsTrue ==
    [][ /\ PollObserves /\ answer.live => ManualIsEarned /\ LastWordCounts
        /\ AddSensor => RestoreIsEarned ]_manualModeVars

\* A poll does not end a manual mode once the clock of its session was read, whatever
\* the command says now.
PollKeeps == why.polled = answer.session /\ answer.plug # "standby" /\ on => on'

\* Nor does a restart, of one that the sensor showed first in this session.
RestartKeeps == store # Unread /\ startedAt <= store /\ ~unplugged => on'

\* Of old firmware manual mode is remembered until the session ends: over releases that
\* end nothing, missed polls, GraphQL's silences and restarts.
ManualIsKept ==
    [][ ~reports => /\ PollObserves => PollKeeps
                    /\ AddSensor => RestartKeeps ]_manualModeVars

\* Manual mode outlasts what says nothing of it, and nothing else.
ManualModeHolds == ManualIsTrue /\ ManualIsKept

===============================================================================
