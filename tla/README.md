# Eveus for Home Assistant: a TLA+ verification development

`custom_components/eveus` is a Home Assistant integration for Eveus and Energy
Star EV chargers. It polls one charger over its local HTTP interface, shows what
it reads as entities, writes the charger's settings, and enforces in Home
Assistant what the charger cannot: a state-of-charge limit, safety notices,
following Home Assistant's time zone. It is one asyncio program per config
entry, so nothing runs in parallel, but every `await` is a place where polls,
user calls, timers, an unload or a cancellation come in between. That is what
these modules are about.

All paths below are under `src/custom_components/eveus/` unless they say otherwise.

## 1. The system

| component | state | operations | interacts with |
|---|---|---|---|
| command lock (`common_command.py`) | `_held`, heap of waiters | acquire, hand-over, release, cancellation | held by every command |
| command manager (`common_command.py`, `common_network.py`) | last command time, failures, last failure reason | `send_command`, `_post_command`, retry, preflight | lock, coordinator's `_shutting_down`, every control |
| meter guard and its store (`meter_guard.py`, `common_network.py`) | accepted readings, drops, expected resets; stored baseline | apply, seed, expect a reset; load, save, flush, remove | each poll, the reset buttons, unload |
| poll coordinator (`common_network.py`) | availability, failures, cadence, backoff, probation, outage clock, refresh timers | refresh (schedule, burst, button), success, failure, rejection, shutdown | every entity listens to it |
| transition events (`common_network.py`) | previous state and fault code, last charging payload, legacy charging latch | one call per good poll | Home Assistant's bus; last-session sensors |
| SOC limit and its switch (`soc_limit.py`, `switch.py`) | enabled, fired, pending stop, energy and clock of the decision, Stop task | evaluate per poll, run Stop, re-arm, reload | command manager (guarded Stop) |
| control writes (`number.py`, `control_base.py`, `common_base.py`, `switch.py`) | command lock of the control, latest write's token | write, replace, follow, cancel | command manager |
| control display (same files) | pin, optimistic value, last reading and its age | write, poll, miss, expiry | control writes, coordinator |
| safety notices (`safety.py`) | streaks, recovery memory; its store; Repairs issues | process per notification, dismiss, load, save | coordinator, issue registry |
| time-zone follower, switch and select (`time_zone_follow.py`, `switch.py`, `select.py`) | differing polls, polls to wait, sending | evaluate per poll, write, user's choice | command manager |
| charge memory (`common_network.py`, `binary_sensor.py`, `sensor_definitions.py`) | completion flag and anchor, state since, seeds; restore store | per good poll, seeding after a restart | charge reason, duration sensors |
| last session, end reason (`session_history.py`, `charge_reason.py`) | restored values and attributes | finished event, restore; reason per reading | transition events, charge memory |
| selects (`select.py`) | optimistic option, last reading, command pending | choose, poll, expiry | command manager |
| initial SOC and SOC inputs (`number.py`, `ev_sensors.py`) | seeded flag, session clock, calculator cache; stored data, the entry's copy | seed from a car sensor, user's value | SOC limit, SOC sensors |
| issue trackers (`issues.py`) | hysteresis streaks, wording of the clock notice | per notification | issue registry |
| REVE interface (`reve.py`, `reve_fields.py`, `reve_sensors.py`) | sources and their ages, residue, held session, manual mode, schedules | GraphQL reads and writes, fallback to `/main` | coordinator, command manager |
| entry lifecycle (`__init__.py`, `config_flow.py`, `repairs.py`) | entry data and version, registry rows, devices, notices | setup, unload, remove, migrate, reload; dialogs | all of the above |
| estimates and costs (`ev_sensors.py`, `sensor_definitions.py`, `utils.py`) | anchor of the finish time, session cost with its reset time and publication band | per reading, restore; SOC, energy and price arithmetic | session readings, statistics |
| payload and descriptions (`snapshot.py`, `_payload.py`, `sensor_definitions.py`) | none, apart from caches | bounds, conversions | every reader of a payload |

What makes them hard: a command waits seconds for its turn and its retries while
the state that justified it moves on; replies are lost after the charger has
acted; polls answered before a write arrive after it; calls are cancelled at any
`await`; an unload meets polls, commands and timers under way; firmware that
starts up answers nonsense; and several memories (store, issue registry,
restored states) survive a restart separately. `PROJECT.json` lists each such
hazard at its line with the properties about it.

## 2. The modules

Each component has a module; `MC` modules give them small instances, and the
`.cfg` files the values. `Name_Fault` definitions are faulty variants that show
each property can fail; no specification uses them.

```
PriorityMutex  <--refines--  PriorityLock  <--extends--  CommandManager
SetpointWrites  <--extends--  ControlDisplay
PollCoordinator   TransitionEvents   SocLimit
MCListeners = SafetyNotices | TimeZoneFollow | MeterGuard | SelectDisplay
MCMemory    = ChargeMemory | SessionEnd | CostMeter | FinishEstimate | Forecasts
SocForecast, Tariffs  <--extends--  Forecasts
MCReve      = ReveManual | ReveSource | ReveSettings
MCEntry     = EntryFlows | ChargerEntries | EntrySetup | InitialSoc | PollNotices
```

The proofs stand in eight modules, with a part for each module they prove about:

| proofs | about |
|---|---|
| `CommandManagerProofs` | PriorityLock, CommandManager |
| `ControlDisplayProofs` | SetpointWrites, ControlDisplay |
| `SocLimitProofs` | SocLimit |
| `PollProofs` | PollCoordinator, ReveSource, ReveManual, ReveSettings |
| `TransitionEventsProofs` | TransitionEvents |
| `ListenersProofs` | SafetyNotices, MeterGuard, SelectDisplay, TimeZoneFollow |
| `MemoryProofs` | CostMeter, SessionEnd, FinishEstimate, ChargeMemory, SocForecast, Tariffs |
| `EntryProofs` | EntrySetup, EntryFlows, ChargerEntries, InitialSoc, PollNotices |

The four unions hold components that the coordinator drives from the same polls
but that share no state. A behaviour of such a module moves one of them, and the
others stand in one of their initial states: the run checks them side by side,
and says nothing of their interplay, because the code has none.

**PriorityMutex** is what the lock promises: an owner, a line ordered by rank
and arrival, direct hand-over. **PriorityLock** is `_PriorityLock`: a heap of
entries `[rank, seq, call]`, futures, and tasks. The interesting states are the
ones between `release()` completing a waiter's future and the event loop
resuming the waiter: the waiter already owns the lock (`granted`) and may be
cancelled there. Dead entries stay in the heap until a release pops them.

**CommandManager** puts `send_command` inside that lock: pacing by a second
since the last command, the preflight before each attempt, the shutdown check in
`_post_command`, an attempt that is `posted`, then `answering` once the charger
has acted, then lost, refused, accepted or unauthorised; backoff; budget;
`finally`. `EveusUpdater.send_command`'s own shutdown check is `Refuse`. The
charger applies a command once per attempt that reaches it, whatever becomes of
the reply. The count of failed commands, which only diagnostics and the log
read, is left out.

**MeterGuard** has the charger's meters (with the *life* each reading belongs
to, known to the properties only), the poll under way, `MeterGuard.apply`, the
reset command and its expectation, and the stored baseline with its
fifteen-minute spacing, the flush on unload, a crash that skips it, and removal.

**PollCoordinator** models time in ticks of ten seconds. A refresh comes from
the schedule, a burst timer or the refresh button, is skipped (backoff), joins a
poll under way, waits for the poll lock or asks. Success, failure and rejection
of the credentials each do all the code does: grace timers, probation, quick
retry, cadence, bursts. Home Assistant's `DataUpdateCoordinator` is external and
modelled as `src/` leans on it.

**TransitionEvents** has a charger that moves freely and polls that sample it;
each good poll translates firmware-1.x codes with the charging latch and fires
events. **SocLimit** has the charger's session, the target as a threshold on the
session's energy, the controller, its Stop task (yield, queued, wire, done) and
the switch, which an unload, or a crash that loses the last states, leaves to Home
Assistant's restore store and a setup brings back. **SetpointWrites** has one control's calls with their tokens, with
replacement (numbers) or without (switches); **ControlDisplay** adds what is
shown. **SelectDisplay** is what a select shows: one field for the choice under
way and the accepted option, and a cancellation that leaves it alone.
**SafetyNotices** has one policy of each kind that `POLICIES` contains.
**TimeZoneFollow** has both writers of the time zone.

**ChargeMemory** is `_track_charge_completion` and `_track_state_since` with
their seeds: what the coordinator remembers of a charge between polls, what the
entities store of it, and how a restart settles the stored claim against a poll
that may have come before it. **SessionEnd** tells why a charge ended, from the
codes of three firmware families, to the finished event, to Not Charging Reason,
and to the Last Session sensors with their restored states.

**InitialSoc** is the Initial SOC number: restored, seeded by the car's sensor
once per plug-in, corrected by the user, mirrored into the entry; the car's
sensor answers late, goes to sleep, and the session clock tells plug-ins apart
that no poll saw. **PollNotices** has the four notices that follow polls, the
clock's with its advice that is re-keyed when the drift changes.

**ReveManual** is `ManualMode`: commands, station reports, polls from either
source, the sensor's restored duration. A poll holds its answer while it awaits more,
and a release makes a second request to leave manual mode: commands, the station and
the app go on in between. **ReveSource** decides what a poll of a
REVE charger shows: GraphQL's measurements and settings with their retries, the
residue of `/main`, the held session and their ages. **ReveSettings** is the
list of schedules that a command reads, changes in one place and writes whole,
while the app and settings reads come in between.

**EntrySetup** is `async_setup_entry` with each of its awaits, unload, reload,
the reload on REVE, removal, the registry rows, the device and the notices.
**EntryFlows** has the dialogs: reconfigure and reauthentication, which wait for
the charger, the options, which wait for the user, the repair, and the keys that
the switch and the polls write. **ChargerEntries** has the entries of a house with
several chargers: the dialog that adds one and looks for duplicates before its SOC
form, the migration of entries of older versions when they are first set up, and
the moves that reconfigure and repair make meanwhile. Home Assistant's part is
external: `async_set_unique_id` ends a dialog while another is open for that
address, and of entries with equal ids the new one is kept.

**FinishEstimate** has Time to Target and Charging Finish as two views of one
damped anchor. **CostMeter** is the session cost: the publication band, the
minute schedule, the reset bookkeeping, the flush at unload, the restored
`last_reset`, and the statistics that add it up. **SocForecast** has the SOC and
energy arithmetic as functions, **Tariffs** the windows of a day: which is open, which
overlap, where the next edge is. **Forecasts** walks over these windows for the
price, which is compared with a bill that pays every minute by itself.

Data is reduced to what properties tell apart: a payload is the fields a
component reads, a temperature is a level (`high`, `between`, `low`, `unknown`,
`absent`), an offset is a name.

## 3. What the runs show

Each run checks its safety and its liveness together. The lock is checked inside
the command manager and the writes inside the control display: the composed
module is the program, the inner one the place for proofs.

| run | property | says |
|---|---|---|
| `command_manager` | `MutexRefinement` | the lock, used through every exit of `send_command`, implements PriorityMutex |
| | `AnswersAreHonest` | accepted means carried out, refused before any attempt means not; never carried out more often than sent; "REVE not answering" is told only of a REVE write that failed |
| | `PostsAreDue` | no request starts for an unloading entry, against its preflight on any attempt, or within a second of another call's |
| | `EveryCallReturns` | also when the charger never answers |
| `control_display` | `SuccessIsReal` | a call succeeds only for what the charger took |
| | `NewestWins` | an older value never lands after a newer one |
| | `DisplayFollowsWrites` | the pin is the write under way, a failed write leaves no trace, and a poll asked before a write was accepted does not cover the accepted value |
| | `Settles` | every write returns, and the display comes to the charger's setting |
| `soc_limit` | `StopIsDueAtTheWire` | on every attempt |
| | `EventIsTheStops` | the event is of a Stop that went out, once, with the target it went out for |
| | `SwitchKeepsItsSetting` | a loaded switch and its controller are as the switch was left, over reloads and restarts, after a crash as last saved; polls switch it off on a rise of "Disable limits" only |
| | `LimitIsEnforced` | a charge that stays at its target is stopped |
| `poll_coordinator` | `AvailabilityIsTrue` | entities show what their grace window says though nobody polls them; a single miss hides nothing |
| | `TimersAreEarned` | the quick retry never becomes a cadence, the fast one takes two good polls after an outage, and nothing polls an unloaded entry |
| | `Reappears` | a charger that answers again is shown for good, whatever backoff and probation the past left |
| `transition_events` | `EventsAreSeen` | events tell what two consecutive good polls saw: silent over gaps and after unload, no fault code missed, no unplug inferred from Error |
| | `EveryChargeFinishesOnce` | through pauses, faults, firmware-1.x latches and unplugging within one poll |
| | `SummaryIsTheCharges` | a summary has its own charge's counters |
| `listeners` | `NewIncidentIsSeen` | no dismissal of an earlier incident hides a new one, over crashes and broken stores |
| | `MovedOnEvidence` | a notice comes and goes on as many separate readings as its policy asks for, where refreshes wait for each other |
| | `NoticesSettle` | lasting dangers are raised, lasting recoveries cleared |
| | `FollowsHome` | while following stays on and nobody else moves it, the charger comes to Home Assistant's offset and stays there, whatever writes were lost or refused; once there, no write of before takes it away |
| | `FallsAreNewLives` | a meter is seen to fall only into a new life of its counter, and Home Assistant's own reset shows at once when no poll was in flight |
| | `StoreIsCurrent` | a flushed restart brings no old life back, a removed entry's file stays away, and readings that come to rest are stored |
| | `OptionIsTrue` | a select shows the choice under way, then the accepted option, which an older answer does not cover, and in the end the charger's setting, cancelled choices included |
| `memory` | `MemoryIsTrue` | Charge Complete is claimed of a charge that polls saw completed, and kept while it is parked; a since-time was contradicted by no poll, and survives gaps and restarts |
| | `EndIsTold` | the finished event names the cause in the codes of any firmware; a car that was full stays the reason while schedule windows open and close, over restarts; the Last Session sensors never mix two sessions |
| | `CostsAreCounted` | every amount that was read reaches the statistics once, over sessions, outages, reloads and restarts |
| | `FinishIsTrue` | the finish time is within its band of the estimate, moves only for a reason, and is the same in both views |
| | `ForecastsAreTrue` | the predicted price is the minute-by-minute bill where rates and schedules leave no doubt; energy, target and time agree on when the target is reached |
| `reve` | `ManualModeHolds` | manual mode is of this session as far as the clock can tell, as the station reports where it does and no command was answered since, and is not lost to silences and restarts |
| | `SessionIsNotOver` | no poll that finds a car shows the session of a charge that a poll had seen end |
| | `OthersStay` | rewriting one schedule undoes nothing the app had saved before the list was read |
| | `GraphqlRecovers` | once GraphQL answers for good the REVE API sensor is on for good, and polls show its readings and settings again |
| `entry` | `EveryChoiceStands` | for every key the entry holds what was last chosen or found, and credentials that a charger took at its address |
| | `RunsWhatIsStored` | a loaded entry runs, and has entities for, what it stores, whatever was stored during setup |
| | `OneEntryPerCharger` | no two entries go by one id, two for a charger only where one is a legacy entry, and no dialog replaces an entry that its duplicate check could have seen |
| | `NothingIsLost` | what the user set on entities is deleted only by a finished setup that does not build them; a latched tracker's notice is in Repairs, failed unloads included |
| | `AdviceIsTrue` | the clock notice's advice is that of the last drift that held, and changes on evidence only |
| | `NumberIsTrue` | the Initial SOC is the car's charge at the start of the session, once, and then the user's |

Three runs end in a violation. Each checks one sentence of a comment or the
documentation and shows the code do something else; `PROJECT.json` quotes the
lines.

| run | what happens |
|---|---|
| `soc_offline_setup` | set up while the charger is off and limits are disabled, the first poll turns the restored SOC limit off |
| `safety_restart` | a stale stored flag raises a dismissed danger again after a reload |
| `initial_soc_hand` | a value entered before the session's clock was first read is replaced by the car's: the remembered clock is the last session's |

Smaller disagreements have a property in their module, to be put in place of the
properties of the component's `.cfg` by whoever wants the trace:

| property | what happens instead |
|---|---|
| `ReasonIsTheCallsOwn` (CommandManager) | a command refused by an unloading entry is explained with the previous command's failure |
| `OwnResetShownAtOnce` (MeterGuard) | `meter_guard.py:77` takes "its next drop at once"; a poll answered before a counter reset and applied after it uses up the expectation (`:96`) |
| `MissKeepsWhatWasRead` (ControlDisplay) | the first missed poll replaces the value setup read by the last run's (`common_base.py:380`) |
| `NewSessionCountsWhole` (CostMeter) | a new session whose cost already exceeds the last one is counted from there (`sensor_definitions.py:393-394`) |
| `NamedAlike` (SessionEnd) | `charge_reason.py:4-5` wants event and sensor to name a stop alike; a REVE schedule's end is "stopped" in the event and "Waiting for Schedule" in the sensor |
| `CacheKeepsTheWrite` (ReveSettings) | a settings read answered before a write and arriving after it shows the old schedule again (`reve.py:183-184`) |
| `NoOrphanedDevice` (EntrySetup) | an address changed while a setup is under way: that setup still registers the old address's device, and none removes it (`config_flow.py:806-809`) |
| `NoEntryIsReplaced` (ChargerEntries) | a legacy entry is migrated, or a repair moves one, to the address whose SOC form is open: submitting the form replaces that entry (`config_flow.py:736-757`) |
| `NoGraceTimerAfterUnload` (PollCoordinator) | a poll that fails after `async_shutdown` arms two grace timers |
| `BackoffNeverDefersTheTick` (PollCoordinator) | a burst skipped by the backoff moves the next tick a whole interval away |
| `SuccessMeansAnswered` (PollCoordinator) | a refresh that joins a poll counts as a success while the charger does not answer |
| `DisconnectedMeansUnplugged` (TransitionEvents) | a charger starting with a car plugged in fires the disconnected event |
| `AbsentStaysBlank` (ControlDisplay) | a blank control shows its old reading again after a missed poll |

Some of these are also limits of neighbouring properties: the reset clause of
`FallsAreNewLives`, `MovedOnEvidence`, `SwitchKeepsItsSetting` and
`NumberIsTrue` are what remains true without a poll in flight, with serialised
refreshes, with a first reading at setup, and with the session's clock read
before the user's value.

### Bounds, and why they are enough

- **CommandManager**: an ordinary command with a REVE route, a one-shot command
  and a guarded Stop; one retry. A Stop can overtake a queued, granted or
  cancelled ordinary call, and a dead entry can lie in front of a live one; one
  retry has every kind of attempt: first, repeated, last. The proofs cover every
  number of calls and retries.
- **MeterGuard**: one meter, because the guard treats each alone; a reading of
  zero and one above it, two lives;
  `ConfirmPolls = 3` is the code's own value, and the power-up answers zeros for
  fewer polls than that, which the guard presumes.
- **PollCoordinator**: delays keep the order of `const.py`'s; being likely
  offline takes three failures instead of eleven. Clocks stop where no guard
  can tell the difference.
- **TransitionEvents**: two plug-ins, so that a summary can meet the next
  plug-in's counters, and two fault codes.
- **SocLimit**: one unit of energy and of clock: a session below or at its
  target, younger or as old as the last.
- **ControlDisplay**: two calls that want different values; an accepted value
  yields to another reading after one tick and to time after two, readings are
  held for one, in the code's order. A write that was replaced by one that was
  itself replaced takes a third call, which the proofs cover.
- **SafetyNotices**: a policy of each kind with its own numbers of polls;
  looking back is counted up to what the policy needs. Whether refreshes wait
  for each other is chosen in the initial state.
- **TimeZoneFollow**: two whole-hour offsets and one the charger cannot hold;
  two polls to decide, two to pause after a write.
- **SelectDisplay**: two options; ticks as in ControlDisplay.
- **ChargeMemory**: two plug-ins, and clocks up to two: a session younger than, as
  old as and older than what was remembered. The slack of the comparison is 0; the
  proof is for any.
- **ReveManual**: two sessions, clocks up to two and a slack of one: a command, a
  replug and a restart each fit between a poll's answer and what it makes of it. A
  sighting that outlives the session after its own, and meets a clock that has
  caught up with it, takes a third session: the proof is for any number.
- **SessionEnd**: two sessions, one kind of limit, two of the three sensors,
  which know nothing of each other.
- **CostMeter**: two sessions of up to three steps, a band of two: a reading
  below, at and beyond it.
- **FinishEstimate**: estimates on both sides of the rounding step and of the
  band, near and far.
- **Forecasts**: a day of four minutes in two quarters, so that windows wrap,
  meet and overlap; rates a factor of ten apart, so that no two bills coincide;
  percentages at and next to the clamps and roundings.
- **InitialSoc**: one reading of the car and one of the user; a clock of two
  values tells a younger session from an older.
- **PollNotices**: the code's own numbers of polls for the clock, and two wrong
  hours.
- **ReveSource**: ages keep the order of the code's limits (retry, refresh,
  hold, maximal age). **ReveSettings**: two slots, three versions, so that one
  slot can be overtaken while the other is written.
- **ChargerEntries**: two addresses, two dialogs, and three entries, so that one can be
  added or replaced beside two that compete for an address.
- **EntryFlows**, **EntrySetup**: two of each value a dialog can change, one
  where only its presence matters; each dialog at most once open.

`CHECK_DEADLOCK FALSE` stands where all calls may have returned, or the entry
may be unloaded for good, and nothing is left to do.

### Fairness

Weak fairness is given to what the event loop or a time limit brings about: a
task whose await is over resumes (asyncio), a request or its timeout ends
(`client.py` and the command timeouts), a due timer fires, the schedule refreshes
again (`DataUpdateCoordinator`), a minute passes. It is never given to a user, to
a cancellation, to an unload, or to the charger answering well. Strong fairness
appears twice. `MeterGuard` assumes that polls asked again and again are at times
answered and applied: a reload between them may discard each. `TimeZoneFollow`
assumes that of the writes that reach the charger again and again some are taken.
Where a liveness property needs a charger that answers, it says so in its
antecedent. In `MCListeners` and `MCReve` each part keeps the fairness of its own
specification.

## 4. What is proved

TLAPS checks these for every value of the constants. Each part of a proofs module
states one inductive invariant, shows it for the initial states and for each
action, and draws the theorems from it.

### CommandManagerProofs

**PriorityLock.** `LockInv` is the inductive invariant: types;
`HeapMatchesTasks`, which says that the entries not yet cancelled are exactly
those of the queued calls; `EntriesDistinct`, which gives each entry its own
sequence number, below the next; and the two safety properties. Mutual exclusion
alone is not inductive: a release must know that the future it completes belongs
to a call that is still queued, and to one only. From it follow `LockExcludes`,
`LockNeverStranded` and `LockImplementsMutex`. The refinement maps the heap
without its dead entries to the line, and a granted or holding call to the owner;
a release pops the least live entry, which is the abstract line's head.

**CommandManager.** First, every step of `Spec` is a step of the lock or
leaves it alone (`StepUsesLock`), so `Spec => LockSpec` and all that is proved
of the lock holds of its user: `ManagerImplementsMutex`. Then `CommandInv` adds
to `LockInv` what ties the lock to the rest: `PhaseIsOwnership` (a call is in the
critical section exactly while it owns the lock, so that all others are outside),
`CountersFollow` (what a call has sent and the charger has done, by its place),
`MarkersAreOwn` (past its pacing the failure reason and the REVE mark are the
call's own: without it the shared fields could be anybody's), `NoOutcomeYet` and
`ClockIsRunning` (until a second has passed since a request, the pacing clock
says recent or the call that made it is still in the section). All ways out go
through one lemma, `FinishKeepsInv`, which says what an outcome must agree with.
From it follow `CommandTypeOK`, `CommandsAreAlone`, `CommandsAreHonest` and
`CommandsAreDue`, for any calls and retries: of the run's properties
`MutexRefinement`, `AnswersAreHonest` and `PostsAreDue`, which leaves TLC the
liveness.

### ControlDisplayProofs

**SetpointWrites.** `WritesInv` holds types; `Numbered` (tickets are
distinct and count the calls that have arrived, and the latest call has the
greatest); `InOrder` (at most one write is past the control's lock, it is no
newer than those that wait, and newer than whatever has landed); `Tokens` (a
token is open exactly while its call may still settle it, and `applied` only
after its value was taken); and the properties. It follows that success is real
(`WritesSuccessIsReal`), that a replaced call follows newer calls only, so that
chains of waiting cannot close (`WritesFollowNewer`), and that an older write
never lands after a newer one (`WritesNewestWins`). `WritesAssumption` asks for a
finite set of calls, since tickets count them.

**ControlDisplay.** A step of the display is a step of its writes or leaves
them alone (`StepIsAWrite`), so `DisplayImplementsWrites` carries over what is
proved of the writes: `DisplaySuccessIsReal` and `DisplayNewestWins`. `DisplayInv`
adds to `WritesInv` that the pin is the write under way (`PinIsTheWrite`) and that
a value accepted during a poll is no older than that poll (`EarlyIsFresh`), which
is why the code's mismatch time, longer than any request, keeps an older answer
from covering it: `DisplayShowsWrites`. That leaves `Settles` to TLC.

### SocLimitProofs

**SocLimit.** `LimitInv` says whom the controller obeys (`SwitchIsObeyed`),
that a Stop on the wire is the one the latch would confirm (`DecisionIsSent`),
what "once" rests on (`ToldOnce`: what was told is over only with the session),
that what Home Assistant has written is the switch as it was left (`StateIsWritten`),
and what the memory of "Disable limits" has seen (`EdgeIsKnown`). The event
property looks back at what was decided when the Stop went out, while `process`
runs again and again over later readings: without `DecisionIsSent` it is not
inductive. From it follow `LimitStopIsDue`, `LimitEventIsTheStops` and
`LimitSwitchKeepsItsSetting`, the run's three safety properties, for any energies,
clocks and targets. The last has two halves: an entry that is up has the switch, and
the controller, as they were left; and a poll that switches it off does so on a rise of
"Disable limits" (`PollsSpareTheSwitch`). Polls after a setup without a reading are
exempt: `soc_offline_setup` shows what the code does there.

### PollProofs

**PollCoordinator.** `PollInv` says what an earned cadence rests on (`FastIsEarned`:
after a likely outage the fast interval, in use or to be restored, needs two good
polls; `RetryIsForOneMiss`), that every open window has its timer
(`WindowsAreWatched`), that one refresh at a time asks (`OneAsks`), and how far the
outage clock has come while one miss is being retried (`RetryIsSoon`). Only the last
is about numbers: a single miss is hidden because the retry and its request fit into
the shorter grace window, and that is why `PollAssumption` orders the intervals and
windows as `const.py` does. From it follow `PollTimersAreEarned` and
`PollAvailabilityIsTrue`.

**ReveSource.** `SourceInv`: the session held is later than any whose end was seen, or
its unplug is remembered with it. Whatever order the two interfaces answer in, no poll
that finds a car shows a finished charge's session (`SourceSessionIsNotOver`).

**ReveManual.** `ManualInv` relates what is shown to the sighting it rests on: no
sighting or reading is of a session to come (`WhyIsPast`), and while manual mode is
shown the session clock has not fallen below the one it was seen at (`ModeStands`). The
answer that a poll holds is of this session or an earlier one, and no later clock has
been read (`AnswerIsPast`); the station's word is that answer's, until a command takes
it back (`StationSpeaks`). Before the sensor is added, one poll at most has
read anything, just now (`FirstPollIsFresh`): without it a restored state could be
settled against a clock of an earlier session. `ManualModeIsTrue` follows.

**ReveSettings.** Up to the schedule it changes, a command holds what the
station holds or what the app has overwritten since it was read
(`OnlyOwnDiffers`): `SettingsOthersStay`, for any number of schedules and changes.

### TransitionEventsProofs

`EventInv` says what the coordinator's memory has seen of the charger: the state events
are compared with is the last nameable poll of the stretch (`PrevIsLast`), the held
payload is the last charging poll's and of its plug-in (`PayloadIsSeen`), one is held
from the start of a charge to its finish (`HeldWhileOpen`), and the latch of firmware
1.x counts the polls since the last with power (`LatchCounts`). From it follow
`EventsTellWhatWasSeen`, `ChargesFinishOnce` and `SummaryIsTrue`, the run's three
properties.

### ListenersProofs

**SafetyNotices.** `NoticesInv` compares the manager's two streaks with the
readings themselves. `StreaksAreReadings` bounds them from below everywhere, and
from above where refreshes wait for each other; the two streaks exclude each
other, or a notice that clears could take readings with it that count for the
next. `RecoveryIsRemembered` says where the memory of a recovery is: with the
manager while it is up, in the store while it is down, and in both when no save is
due. From it follow `NoticesMoveOnEvidence` and `DismissalHidesNothingNew`, for
any policies, through any restarts, crashes and broken stores.

**MeterGuard.** `MeterInv` holds for each meter by itself and relates the three places
a reading is kept in (the guard, the file, Home Assistant's record) to the charger's
present life of that meter. All of them are of its past (`AllIsPast`); a drop that is
being confirmed is a new life or the zeros of a starting charger, too few to be
believed (`DropsAreZeros`); an expected reset that no poll overtook began a life that
is not accepted yet (`ResetsAreNew`, and `CommandIsNew` for the command under way); and
the guard, or the file while the entry is down, covers what was recorded
(`RecordIsCovered`). From it follow
`MeterFallsAreNewLives` and `MeterStoreIsOfThisLife`, the safety of `StoreIsCurrent`.
`MeterAssumption` asks that a starting charger's zeros are fewer than the polls that
confirm a drop, as the guard presumes.

**SelectDisplay.** `SelectInv`: the value that a select keeps while a command is under
way is that command's choice, and is shown while it is young (`ChoiceIsKept`); an
accepted one is no older than the poll that was under way then (`AcceptedIsYoung`).
`OptionsStand` states the safety of `OptionIsTrue` from it, for any options and times.

**TimeZoneFollow.** `ZoneInv`: one write at a time has the wire (`OneHasTheWire`), what
is sent is an offset that the charger can hold (`SendsAnOffset`), and the follower's was
counted to its end, or the count was begun anew while it waited (`DecidedLate`).
`ArrivalIsKept` is the safety of `FollowsHome`: a charger at Home Assistant's offset is
moved away by no write that was queued or is tried again, the user's choice from before
following was switched on included. That one is vetoed each time it comes to the wire;
if it is on the wire already, the charger has not arrived.

### MemoryProofs

**CostMeter.** `CostInv` is a balance: what the readings add up to is what the
statistics hold and the part of the last reading that is still held back, and the
sensor, or the one the next setup will restore, goes on where the recorder is.
`CostsReachTheStatistics` follows for any amounts and any number of restarts.

**SessionEnd.** `EndInv`: the code that is reported is of what ended the charge until it
moves on (`CodeIsTheCause`); a charge seen complete that has not gone on is the one
remembered as finished, and is the reason (`CompleteIsFinished`,
`CompleteIsTheReason`); and the fields told or saved are of one session. `EndsAreTold`
follows. `EndAssumption` says that a limit is not named like another cause or state.

**FinishEstimate.** The stamp that is shown is the instant that is held or nothing; the
rest is arithmetic, in lemmas about the rounding grid (`SnapIsNear`,
`NextPointIsAhead`) and the band (`BandOutcome`, `DampedOutcome`). One fact carries
`FinishesAreTrue`: damping twice is damping once, so it does not matter which of the
two sensors is told of a poll first.

**ChargeMemory.** `MemoryInv` has a part for each half of `MemoryIsTrue` and one for
setup, which polls before its entities can bring back what was saved
(`SetupIsBlank`). A completion that is held, waits to be confirmed or is saved is of a
charge that a poll saw complete, and no lower than that charge's clock
(`CompletionsWereSeen`); while the car stays parked its completion is at hand and no
higher than this plug-in's clock (`ParkedIsRemembered`). The two together make the
comparison of clocks say yes to a parked charge, and to another one only once its clock
has caught up. A stamp that was contradicted is gone from where it was held or saved
(`RefutedIsForgotten`), and one that stands is at hand and of this plug-in
(`SteadyIsRemembered`). `MemoriesAreTrue` follows for any slack and number of plug-ins.

**SocForecast.** No induction, but arithmetic in products and quotients: the energy that
is asked for reaches the target, would not with three hundredths less, and is nothing
exactly when the target is reached (`EnergyFits`, the SOC half of `ForecastsAreTrue`).
Its lemmas say what clamping, rounding to the nearest and rounding up give
(`ClampedOutcome`, `StoredGrows`, `RoundedUp`). `SocForecastAssumption` has the limits of
`const.py`'s inputs; a loss may go to a half there, where the code stops at a fifth.

**Tariffs.** For a day of any length and any windows, over midnight or not. The code
looks only at where windows start and end: two overlap when one starts in the other, and
a price holds until the next edge. `TrustedIsClear` says that this finds empty windows
and shared minutes as counting the minutes would, and `RateStands` that no rate changes
before the edge that the walk goes to, which lies ahead and within a day. They are the
two facts that the walk of `Forecasts` rests on. `DayAssumption` is that a day has
minutes.

### EntryProofs

**EntrySetup.** `SetupInv` follows one setup: what it has read agrees with
the entry, or a reload is wanted (`BuiltIsStored`); REVE is remembered or watched
for (`ReveIsKept`); and an unload is for one of its purposes (`PurposeIsKnown`).
`SetupRunsWhatIsStored` and `SetupLosesNothing` follow for any
addresses, with settings changed at every await.

**EntryFlows.** To the property `FlowsInv` adds that the entry always has its fixed keys
(`EntryIsWhole`), that an emptied picker leaves no car in it (`CarIsChosen`), and that
an open options form shows the entry's car (`OptionsAreCurrent`):
`FlowsKeepEveryChoice`. `FlowsAssumption` keeps the keys that stand for any other
setting apart from the named ones.

**ChargerEntries.** `HouseInv`: each entry goes by an id of its own address
(`EntriesAreTheirOwn`) and no two by the same (`IdsDiffer`); at most one dialog has the
SOC form of an address open (`SocFormsDiffer`); and an entry at such an address is known
to have overtaken the form (`OvertakersAreKnown`). `ChargersHaveOneEntry` follows for any
chargers, slots and dialogs.

**InitialSoc.** `SocInv` lets the number and its credit, running or stored, fit the
sessions (`Fits`): what the car seeded is its charge when the session began; a flag that
still stands has seen no unplug; the clock remembered of this session is not above the
present one; and a value by hand stands while its session does, unless the clock was
unknown when it was entered. A running charge that was read with the car awake has its
value (`ReadIsSeeded`). `NumbersAreTrue` follows, for any levels, clocks and number of
sessions, over late answers, failed ones, reloads and crashes. `SocAssumption`: levels
and clocks are natural numbers.

**PollNotices.** `NoticeInv` compares the two streaks of the clock notice with the
readings themselves, newest first: the streak of a new drift counts polls that all saw it
(`StreakIsSeen`) and leaves none of them out (`StreakCounts`), and a clearing streak has
no reading in it but right ones and polls without a clock (`GoodIsRight`). Counting too
many would change the advice early, too few would keep the old one.
`AdviceHolds` follows for any number of polls.
`NoticesAssumption`: it takes a poll to show a notice, two to clear one.

### What the proofs changed in the models

- TLA+ leaves open which arm of a CASE is taken where two hold. Where the code tests in
  order, SessionEnd, SelectDisplay and PollNotices now test in order too.
- `ManualModeHolds` held in the small run by the smallness of it: a sighting could be
  kept past the session after its own. It now looks at the clock the sighting was made
  at, and the sensor's restored state is checked on its own.
- `CompletionIsEarned` looked at what the same poll had just shown, which made part of
  it empty. It now compares with what was known before the poll.
- What of `Forecasts` is not recursive stands in modules of its own, `SocForecast` and
  `Tariffs`, so that it can be proved about.
- `FollowsHome` was liveness alone. Its safety, what "stays there" rests on, is now a
  part of it (`ArrivalStands`), checked in the same run and proved.

### What stays with TLC

Liveness, for which the prover has no rule (fairness, `ENABLED`): `EveryCallReturns`,
`Settles`, `LimitIsEnforced`, `Reappears`, `NoticesSettle`, `GraphqlRecovers`, and the
liveness halves of `StoreIsCurrent`, `FollowsHome` and `OptionIsTrue`, whose safety is
proved. Of `ForecastsAreTrue`, that the price is the bill: walk and bill are RECURSIVE,
the only ones of the project, and their agreement is an induction over data. The steps of
the walk are proved, by `RateStands` and `TrustedIsClear`; their sum is checked.

The assumptions are those named in the modules; each is evaluated by TLC in every run
of its module. Of the four unions of parts the theorems are about the part's own
specification: the union adds no step to it.

## 5. What the models leave out

- `MeterGuard`: after a crash within fifteen minutes of a counter reset the
  stored baseline is stale, and the old high reading returns for two polls.
  `StoreIsCurrent` exempts crashes for that reason. Whether the save at unload
  reaches the disk is Home Assistant's.
- `ControlDisplay`: the firmware's own lag, a contactor that takes seconds to
  follow, is not modelled: what an accepted value is not covered by are polls
  asked before the charger took it. A control begins with the successful poll of
  setup.
- `SafetyNotices`: the issue registry is durable. A delayed save of delay zero is
  written before a reload loads; only a crash loses it.
- `TimeZoneFollow` leaves out unload; `CommandManager` has it.
- `PollCoordinator` leaves out the `/init` probe, where a payload comes from, and
  what follows a refusal of the credentials beyond its own state.
- `SocLimit` takes the SOC arithmetic as a threshold on energy that may move.
- `ChargeMemory`: which fields of a payload are in range is data.
- `SessionEnd`: so it is there; events fired on the bus by anybody else are left
  out, and `finish_reason` reads no schedule's waiting, as in the code.
- `EntrySetup` leaves out the card's registration; `ChargerEntries` the keys that a
  migration fills in (address scheme, phases, SOC values of the old helpers).
- `ReveManual`: the station takes a request and answers it, or the answer is lost, in
  one step: what lies open is the time from an answer to what is made of it. Of a
  release under way at an unload the second request is taken then or never.
- `ReveSource` takes a poll as one step; that the held session is not shown beyond its
  age is a test of the code (`HeldSession`), no property. It leaves out the limits and
  the station's current, which are read with the settings, and the parsing of fields.
- `InitialSoc`: of the SOC inputs it has the one that is seeded; the others are
  restored numbers without a memory of their own.

What the code does that no property forbids:

- a car replugged between two polls into the same state keeps its since-time,
  and one replugged unseen whose session clock has caught up is taken for the
  same charge: the code has only the clock to tell them by;
- a completion first seen in a poll without a session time is not stored, and
  lost at a restart;
- manual mode restored before any session clock was read is taken on trust, and
  a state stored as unavailable at shutdown loses it on old firmware;
- a Stop after an unseen replug can be taken for the end of manual mode by the
  first poll that reads the younger clock;
- a setup that fails leaves its transient notices, and the next one does not delete
  them: they go with an unload, or when a tracker has seen the trouble again and then
  its end;
- the repair looks at no dialog in progress (`NoEntryIsReplaced`), and of two options dialogs open at
  once the later to finish can bring back the earlier's choice of the car's
  sensor;
- a crash before the entry is saved loses the mark of a correction by hand;
- after a correction by hand the SOC sensor's attribute still names the car's
  sensor as its anchor (`ev_sensors.py:441`);
- with Time to Target disabled, the unavailability of Charging Finish does not
  drop the anchor they share.

### Not modelled

Diagnostics, device triggers, HTTP requests as such, the frontend card,
translations and blueprints keep no state that the components above depend on.
Device naming is layout. The bounds of payload fields (`_payload.py`,
`snapshot.py`, most of `sensor_definitions.py`) are tables: a model of them
would be the same table. The time entities and buttons send commands and keep
nothing else.

## 6. Plan

Modelled and checked: everything section 2 lists. What is left, in order:

1. REVE's limits, a second list that is read with the settings and written on
   its own.
2. The SOC inputs that are not seeded, beside `InitialSoc`.

## 7. Running it

```
tlc -workers 2 -config CommandManager.cfg MCCommandManager
tlapm CommandManagerProofs.tla
```
