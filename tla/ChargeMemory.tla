----------------------------- MODULE ChargeMemory -----------------------------
(***************************************************************************)
(* What EveusUpdater remembers of the charge behind the charger's state:   *)
(* whether this stretch of state 5 is a charge the car ended, and since    *)
(* when the charger has been in its state.  Both outlive missed polls,     *)
(* reloads and restarts through the restore data of two sensors.           *)
(*                                                                         *)
(* Home Assistant sees the charger through polls only.  It keeps what the  *)
(* sensors saved in its restore store, written when the entry unloads or   *)
(* Home Assistant stops, and from time to time; a crash brings back the    *)
(* last of these.                                                          *)
(***************************************************************************)
EXTENDS Integers

CONSTANTS
    Slack,          \* SESSION_TIME_IDLE_STEP_SECONDS
    MaxNow,         \* bound on time
    MaxPlugIns      \* bound on the plug-ins of a behaviour

ASSUME ChargeMemoryAssumption == {Slack, MaxNow, MaxPlugIns} \subseteq Nat /\ MaxPlugIns > 0

VARIABLES
    now,
    state,          \* what the charger is doing
    pluggedAt,      \* when the latest plug-in began
    plugIn,         \* its number
    phase,          \* "off", "starting", "polled" (no entities yet) or "running"
    modernSeen,     \* _modern_firmware_seen
    polled,         \* the reading setup has, NoPoll without
    completed,      \* _charge_completed
    completedAt,    \* _charge_completed_at
    completionSeed, \* _charge_completion_seed
    sinceState,     \* _state_since_state
    since,          \* _state_since
    sinceSeed,      \* _state_since_seed
    store,          \* what the restore store holds of both
    evidence        \* for the properties: what polls have shown

charger == <<now, state, pluggedAt, plugIn>>
completion == <<completed, completedAt, completionSeed>>
sinceStamp == <<sinceState, since, sinceSeed>>
memoryVars == <<charger, phase, modernSeen, polled, completion, sinceStamp, store, evidence>>

NoTime == -1
States == {"standby", "charging", "complete"}   \* charging stands for every other state
NoSeed == [state |-> "none", at |-> NoTime]
NoPoll == [state |-> "none", sub |-> "limit", clock |-> NoTime, modern |-> FALSE]

\* sessionTime counts from the plug-in.
Clock == now - pluggedAt

\* What polls have shown, as far as it is saved: the plug-in of the last charge seen
\* complete and not seen to go on, the clock read last of it, whether the charger is
\* parked in it since, whether the stamp still stands, and whether it must be found again.
NothingShown ==
    [plugIn |-> 0, clock |-> NoTime, parked |-> FALSE, refuted |-> FALSE, steady |-> FALSE]

\* charge_completion_anchor
CompletionAnchor == IF completed /\ completedAt # NoTime THEN completedAt ELSE completionSeed

\* state_since_anchor
SinceAnchor ==
    IF sinceState # "none" /\ since # NoTime THEN [state |-> sinceState, at |-> since]
    ELSE sinceSeed

MemoryInit ==
    /\ now = 0 /\ state = "standby" /\ pluggedAt = 0 /\ plugIn = 0
    /\ phase = "off" /\ modernSeen = FALSE /\ polled = NoPoll
    /\ completed = FALSE /\ completedAt = NoTime /\ completionSeed = NoTime
    /\ sinceState = "none" /\ since = NoTime /\ sinceSeed = NoSeed
    /\ store = [anchor |-> NoTime, since |-> NoSeed, evidence |-> NothingShown]
    /\ evidence = NothingShown

-------------------------------------------------------------------------------
(* The charger.                                                            *)

\* A tick is longer than it takes setup to add the entities.
Tick ==
    /\ now < MaxNow
    /\ phase # "polled"
    /\ now' = now + 1
    /\ UNCHANGED <<state, pluggedAt, plugIn, phase, modernSeen, polled, completion, sinceStamp,
                   store, evidence>>

\* Whatever the charger does next, it is no longer parked, nor in the state it was in.
Left(s) == [s EXCEPT !.parked = FALSE, !.steady = FALSE]

PlugMoves ==
    /\ state' \in States \ {state}
    /\ IF state = "standby"
       THEN plugIn < MaxPlugIns /\ plugIn' = plugIn + 1 /\ pluggedAt' = now
       ELSE UNCHANGED <<plugIn, pluggedAt>>
    /\ evidence' = Left(evidence)
    /\ store' = [store EXCEPT !.evidence = Left(@)]
    /\ UNCHANGED <<now, phase, modernSeen, polled, completion, sinceStamp>>

-------------------------------------------------------------------------------
(* A good poll reports a state the map can name, or a code it cannot;      *)
(* subState is 0 or not; the clock and the firmware's marker may be missing. *)

Replies ==
    [state : {state, "code 99"}, sub : {"none", "limit"},
     clock : {IF state = "standby" THEN 0 ELSE Clock, NoTime}, modern : BOOLEAN]

Named(r) == r.state # "code 99"

\* The stamp, if the plug-in the charger reports can be as old.
Plausible(at, clock) == IF clock # NoTime /\ at >= now - clock - Slack THEN at ELSE NoTime

TrackCompletion_SeedSpentUnread(r, modern, seed) ==
    IF ~Named(r) THEN UNCHANGED completed /\ UNCHANGED completedAt /\ completionSeed' = seed
    ELSE IF r.state # "complete"
    THEN completed' = FALSE /\ completedAt' = NoTime /\ completionSeed' = NoTime
    ELSE IF ~modern
    THEN UNCHANGED completed /\ UNCHANGED completedAt /\ completionSeed' = seed
    ELSE LET anchor == IF completed THEN completedAt ELSE seed
             again == IF anchor = NoTime \/ r.clock = NoTime THEN completed ELSE r.clock >= anchor
         IN  /\ completed' = (r.sub = "none" \/ again)
             /\ completionSeed' = NoTime
             /\ completedAt' = IF ~completed' THEN NoTime
                               ELSE IF r.clock # NoTime THEN r.clock ELSE completedAt

\* _track_charge_completion: of state 5 only a modern charger's reply says something;
\* the clock tells the plug-in, and subState 0 a charge that the car ended.
TrackCompletion(r, modern, seed) ==
    IF ~Named(r) THEN UNCHANGED completed /\ UNCHANGED completedAt /\ completionSeed' = seed
    ELSE IF r.state # "complete"
    THEN completed' = FALSE /\ completedAt' = NoTime /\ completionSeed' = NoTime
    ELSE IF ~modern
    THEN UNCHANGED completed /\ UNCHANGED completedAt /\ completionSeed' = seed
    ELSE LET anchor == IF completed THEN completedAt ELSE seed
             again == IF anchor = NoTime \/ r.clock = NoTime THEN completed ELSE r.clock >= anchor
         IN  /\ completed' = (r.sub = "none" \/ again)
             /\ completionSeed' = IF r.clock = NoTime THEN seed ELSE NoTime
             /\ completedAt' = IF ~completed' THEN NoTime
                               ELSE IF r.clock # NoTime THEN r.clock ELSE completedAt

ForgetSince ==
    /\ sinceSeed' = SinceAnchor
    /\ sinceState' = "none" /\ since' = NoTime

\* _track_state_since: a change between two good polls is seen; after a gap the old
\* stamp stands if the charger is in that state again and the plug-in is old enough.
TrackSince(r) ==
    IF ~Named(r) THEN ForgetSince
    ELSE IF r.state = sinceState THEN UNCHANGED sinceStamp
    ELSE /\ sinceState' = r.state
         /\ sinceSeed' = NoSeed
         /\ since' = IF sinceState # "none" THEN now
                     ELSE IF sinceSeed.state = r.state THEN Plausible(sinceSeed.at, r.clock)
                     ELSE NoTime

\* What this reply adds to what has been shown.
Witness(r, modern) ==
    LET ended == r.state = "complete" /\ modern /\ r.sub = "none"
        stamped == Named(r) /\ sinceState \notin {"none", r.state}
        wentOn == Named(r) /\ r.state # "complete"
        found == [evidence EXCEPT
            !.plugIn = IF ended THEN plugIn ELSE IF wentOn THEN 0 ELSE @,
            !.clock = IF r.state = "complete" /\ modern /\ (ended \/ r.clock # NoTime)
                      THEN r.clock ELSE @,
            !.parked = @ \/ (ended /\ r.clock # NoTime),
            !.refuted = ~stamped /\ (@ \/ (Named(r) /\ SinceAnchor.state \notin {"none", r.state})),
            !.steady = \/ stamped /\ r.state # "standby"
                       \/ @ /\ (sinceState # "none" \/ (Named(r) => r.clock # NoTime))]
    IN  evidence' = found

\* Setup polls once before the entities are there.
PolledPhase == phase' = IF phase = "starting" THEN "polled" ELSE phase

MemoryPoll(r) ==
    /\ phase \in {"starting", "running"}
    /\ PolledPhase
    /\ modernSeen' = (modernSeen \/ r.modern)
    /\ TrackCompletion(r, modernSeen', completionSeed)
    /\ TrackSince(r)
    /\ Witness(r, modernSeen')
    /\ polled' = IF phase = "starting" THEN r ELSE NoPoll
    /\ UNCHANGED <<charger, store>>

\* A failed poll, _forget_poll_gap_state: the stamp waits to be confirmed.
BadPoll ==
    /\ phase \in {"starting", "running"}
    /\ PolledPhase
    /\ ForgetSince
    /\ UNCHANGED <<charger, modernSeen, polled, completion, store, evidence>>

-------------------------------------------------------------------------------
(* Start and stop.                                                         *)

\* The coordinator goes, and its memory with it.
Gone ==
    /\ phase' = "off"
    /\ modernSeen' = FALSE /\ polled' = NoPoll
    /\ completed' = FALSE /\ completedAt' = NoTime /\ completionSeed' = NoTime
    /\ sinceState' = "none" /\ since' = NoTime /\ sinceSeed' = NoSeed
    /\ evidence' = NothingShown

Load ==
    /\ phase = "off"
    /\ phase' = "starting"
    /\ evidence' = store.evidence
    /\ UNCHANGED <<charger, modernSeen, polled, completion, sinceStamp, store>>

SeedSince ==
    IF sinceState = "none" THEN sinceSeed' = store.since /\ UNCHANGED <<sinceState, since>>
    ELSE /\ since' = IF since = NoTime /\ store.since.state = sinceState
                     THEN Plausible(store.since.at, polled.clock) ELSE since
         /\ UNCHANGED <<sinceState, sinceSeed>>

\* The sensors are added: seed_charge_completion settles the seed against the last
\* reading, seed_state_since against the last state.
AddEntities ==
    /\ phase = "polled"
    /\ phase' = "running"
    /\ IF store.anchor = NoTime THEN UNCHANGED completion
       ELSE IF polled = NoPoll
       THEN completionSeed' = store.anchor /\ UNCHANGED <<completed, completedAt>>
       ELSE TrackCompletion(polled, modernSeen, store.anchor)
    /\ IF store.since = NoSeed THEN UNCHANGED sinceStamp ELSE SeedSince
    /\ evidence' = [evidence EXCEPT
                   !.steady = @ /\ (sinceState = "none" \/ polled.clock # NoTime)]
    /\ polled' = NoPoll
    /\ UNCHANGED <<charger, modernSeen, store>>

Saved == [anchor |-> CompletionAnchor, since |-> SinceAnchor, evidence |-> evidence]

\* Home Assistant saves the states of all entities every quarter of an hour.
Dump ==
    /\ phase = "running"
    /\ store' = Saved
    /\ UNCHANGED <<charger, phase, modernSeen, polled, completion, sinceStamp, evidence>>

\* An unload or a shutdown saves them too; setup may have failed before there are any.
Stop ==
    /\ phase # "off"
    /\ store' = IF phase = "running" THEN Saved ELSE store
    /\ Gone
    /\ UNCHANGED charger

Crash ==
    /\ phase # "off"
    /\ Gone
    /\ UNCHANGED <<charger, store>>

MemoryNext ==
    \/ Tick \/ PlugMoves
    \/ \E r \in Replies : MemoryPoll(r)
    \/ BadPoll
    \/ Load \/ AddEntities \/ Dump \/ Stop \/ Crash

MemorySpec == MemoryInit /\ [][MemoryNext]_memoryVars

-------------------------------------------------------------------------------
\* "Charge Complete" is claimed only of a charge that a poll saw the car end and none saw
\* go on: in this plug-in, or in one before it, if the clock has caught up with it.
CompletionIsEarned ==
    completed' => \/ evidence'.plugIn = plugIn
                  \/ evidence.plugIn > 0 /\ Clock >= evidence.clock

\* A car seen to end its charge stays complete while it is parked, through limits that
\* show up later, missed polls, reloads and restarts, offline ones too.
CompletionIsKept ==
    phase' = "running" /\ evidence'.parked /\ modernSeen' => completed'

\* Charge Complete, where a good poll of a state 5 shows it, is what ended the charge as
\* far as polls could tell.  Without its clock a reply does not tell plug-ins apart.
CompletionIsTrue ==
    [][ \/ CompletionIsEarned /\ CompletionIsKept
        \/ ~ \E r \in Replies :
                 r.state = "complete" /\ r.clock # NoTime /\ MemoryPoll(r) ]_memoryVars

\* A stamp that waited out a gap or a restart is one that no poll has contradicted since,
\* and of this plug-in.  Within one run a car replugged between two polls goes unnoticed.
SinceIsUnrefuted ==
    /\ since' # NoTime => ~evidence'.refuted
    /\ since' # NoTime /\ sinceState = "none" /\ state # "standby" => since' >= pluggedAt - Slack

\* A stamp survives gaps and restarts while the charger stays in its state.
SinceIsKept == phase' = "running" /\ evidence'.steady /\ sinceState' # "none" => since' # NoTime

\* Where a good poll shows since when the charger has been in its state, it is right.
SinceIsTrue ==
    [][ (SinceIsUnrefuted /\ SinceIsKept) \/ ~ \E r \in Replies : MemoryPoll(r) ]_memoryVars

\* What the charge memory says of before a gap or a restart is true.
MemoryIsTrue == CompletionIsTrue /\ SinceIsTrue

===============================================================================
