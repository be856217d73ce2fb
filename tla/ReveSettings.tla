----------------------------- MODULE ReveSettings -----------------------------
(***************************************************************************)
(* ReveApi's writing half: a station keeps its schedules as one list, and  *)
(* a write replaces it whole.  A command reads the list, changes one slot  *)
(* and writes it back, while the app writes too, polls read the settings   *)
(* on their own, and any answer may be late or lost.                       *)
(***************************************************************************)
EXTENDS Integers

CONSTANTS
    Slots,          \* the schedules
    MaxVersions     \* bound on the changes of a behaviour

ASSUME SettingsAssumption == Slots # {} /\ MaxVersions \in Nat

VARIABLES
    list,           \* the station's schedules: each slot's version
    versions,       \* versions given out
    held,           \* ReveExtras.schedules, NoList before the first read
    reading,        \* the settings a poll was answered with, on their way; or NoList
    job,            \* the write under way, Idle without
    appWrote        \* for the properties: slots the app changed since the command read

settingsVars == <<list, versions, held, reading, job, appWrote>>

NoList == [s \in Slots |-> -1]
NoJob == [step |-> "idle", list |-> NoList]

SettingsInit ==
    /\ list = [s \in Slots |-> 0] /\ versions = 0
    /\ held = NoList /\ reading = NoList /\ job = NoJob /\ appWrote = {}

NewVersion == versions < MaxVersions /\ versions' = versions + 1

\* The app saves a schedule.
AppWrites ==
    /\ NewVersion
    /\ \E s \in Slots : list' = [list EXCEPT ![s] = versions'] /\ appWrote' = appWrote \cup {s}
    /\ UNCHANGED <<held, reading, job>>

-------------------------------------------------------------------------------
(* Polls, which hold no lock that commands hold.                           *)

\* A measurements-and-settings or settings read is answered ...
SettingsAnswer ==
    /\ reading = NoList
    /\ reading' = list
    /\ UNCHANGED <<list, versions, held, job, appWrote>>

\* ... and the answer arrives, _store, or does not.
SettingsArrive ==
    /\ reading # NoList
    /\ held' \in {reading, held}
    /\ reading' = NoList
    /\ UNCHANGED <<list, versions, job, appWrote>>

-------------------------------------------------------------------------------
(* write_schedule, one at a time under the command lock.                   *)

\* parse_schedules, apply_schedule_command: the list as read, with one slot changed.
Changed(read, s) == [step |-> "read", list |-> [read EXCEPT ![s] = versions']]

ReadSchedules_Held(s) ==
    job' = Changed(IF held = NoList THEN list ELSE held, s)

\* Read right before writing, _station(SCHEDULES_QUERY) or _read_extras.
ReadSchedules(s) == job' = Changed(list, s)

WriteSchedule ==
    /\ job.step = "idle" /\ NewVersion
    /\ \E s \in Slots : ReadSchedules(s)
    /\ held' = IF held = NoList THEN list ELSE held
    /\ appWrote' = {}
    /\ UNCHANGED <<list, reading>>

\* _mutate: the station replaces the whole list.
Mutate ==
    /\ job.step = "read"
    /\ list' = job.list
    /\ job' = [job EXCEPT !.step = "written"]
    /\ UNCHANGED <<versions, held, reading, appWrote>>

\* The mutation's answer: own only the schedules just written.
Own ==
    /\ job.step = "written"
    /\ held' = job.list
    /\ job' = NoJob
    /\ UNCHANGED <<list, versions, reading, appWrote>>

\* A request or an answer is lost; the command manager may begin again.
WriteLost ==
    /\ job.step # "idle"
    /\ job' = NoJob
    /\ UNCHANGED <<list, versions, held, reading, appWrote>>

SettingsNext ==
    \/ AppWrites \/ SettingsAnswer \/ SettingsArrive
    \/ WriteSchedule \/ Mutate \/ Own \/ WriteLost

SettingsSpec == SettingsInit /\ [][SettingsNext]_settingsVars

-------------------------------------------------------------------------------
\* A schedule command changes one slot: of the others it undoes nothing that the app saved
\* before the command read the list, however old what Home Assistant holds is.
OthersStay ==
    [][ Mutate => \E own \in Slots : \A s \in Slots \ {own} :
            list'[s] = list[s] \/ s \in appWrote ]_settingsVars

\* "A write from Home Assistant updates the cached read at once": what it cached is not
\* replaced by something older.  A settings read that was answered before the write and
\* arrives after it does just that, until the next settings read.
CacheKeepsTheWrite ==
    [][ job.step = "idle" => \A s \in Slots : held'[s] >= held[s] ]_settingsVars

===============================================================================
