------------------------------ MODULE InitialSoc ------------------------------
(* The Initial SOC number: the car's charge at the plug-in, from which every  *)
(* SOC figure counts.  It is taken from the car's own sensor once a charge is *)
(* seen running, or set by hand; the charger's session clock tells plug-ins   *)
(* apart that nobody saw.  Value, flag and clock outlive reloads and restarts *)
(* in the restore store, the value in the config entry as well.               *)
(*                                                                            *)
(* Charge is counted in the units the meter delivers, without loss.  Whatever *)
(* makes a reading unusable - the car is asleep or out of range, a helper is  *)
(* missing - is Asleep; a car sensor that is awake tells the truth.           *)
EXTENDS Integers

CONSTANTS
    Levels,         \* the car's charge when it is plugged in
    ByHand,         \* what a user sets
    MaxClock,       \* bound on a session's clock
    MaxPlugged      \* bound on the sessions of a behaviour

ASSUME SocAssumption == Levels \subseteq Nat /\ {MaxClock, MaxPlugged} \subseteq Nat

VARIABLES
    plug,           \* "out", "idle", "charging" or "error"
    session,        \* number of the session: a plug-in, or a restart of the meter
    clock,          \* sessionTime
    delivered,      \* sessionEnergy
    arrived,        \* the car's charge when the session began
    numberUp,       \* "off", "polled" (no entities yet) or "running"
    reply,          \* the last good poll
    number,         \* EveusInitialSocNumber, and the calculator's last_seed
    entrySoc,       \* CONF_INITIAL_SOC in the config entry
    disk,           \* the restore store
    given           \* for the properties: who set the value, in which session,
                    \* what was read before and since

carVars == <<plug, session, clock, delivered, arrived>>
socVars == <<carVars, numberUp, reply, number, entrySoc, disk, given>>

Unread == -1
Asleep == -1

NoReply == [plug |-> "code 99", clock |-> Unread, energy |-> Unread]

NotSet(value) == [value |-> value, seeded |-> FALSE, cycle |-> Unread, told |-> "none"]
Nobody == [by |-> "none", session |-> 0, early |-> FALSE, noted |-> Unread, over |-> FALSE]

SocInit ==
    /\ plug = "out" /\ session = 0 /\ clock = 0 /\ delivered = 0 /\ arrived \in Levels
    /\ numberUp = "off" /\ reply = NoReply
    /\ entrySoc \in ByHand
    /\ number = NotSet(entrySoc)
    /\ given = Nobody
    /\ disk = [kept |-> FALSE, number |-> number, given |-> given]

----------------------------------------------------------------------------
(* The charger and the car                                                    *)

NewCount ==
    /\ session < MaxPlugged
    /\ session' = session + 1 /\ clock' = 0 /\ delivered' = 0

PlugIn == plug = "out" /\ plug' = "idle" /\ NewCount /\ arrived' \in Levels

\* The charger restarts under the car.
MeterRestart == plug # "out" /\ NewCount /\ arrived' = arrived + delivered /\ UNCHANGED plug

Switches ==
    /\ plug # "out"
    /\ plug' \in {"out", "idle", "charging", "error"} \ {plug}
    /\ UNCHANGED <<session, clock, delivered, arrived>>

Charges ==
    /\ plug # "out" /\ clock < MaxClock
    /\ clock' = clock + 1
    /\ delivered' = delivered + (IF plug = "charging" THEN 1 ELSE 0)
    /\ UNCHANGED <<plug, session, arrived>>

\* Setup adds the entities right after its poll.
CarNext ==
    /\ numberUp # "polled"
    /\ PlugIn \/ MeterRestart \/ Switches \/ Charges
    /\ UNCHANGED <<numberUp, reply, number, entrySoc, disk, given>>

----------------------------------------------------------------------------
(* Seeding                                                                    *)

\* A code the map cannot name leaves the rest unread.
SocReplies ==
    {NoReply} \cup [plug : {plug}, clock : {clock}, energy : {delivered, Unread}]
             \cup [plug : {plug}, clock : {Unread}, energy : {delivered}]

Restarted(n, r) == r.clock # Unread /\ n.cycle # Unread /\ r.clock < n.cycle

\* _note_session_clock
Note(n, r) ==
    IF r.clock = Unread THEN n
    ELSE [n EXCEPT !.cycle = r.clock, !.seeded = @ /\ ~Restarted(n, r),
                   !.told = IF Restarted(n, r) THEN "none" ELSE @]

\* Up to the point where the car is asked: a seen unplug re-arms, and so does a
\* clock that started over; Error says nothing of the plug.
Armed(n, r) ==
    CASE r.plug = "code 99" -> n
      [] r.plug = "out" -> [n EXCEPT !.seeded = FALSE, !.told = "none"]
      [] r.plug = "error" -> n
      [] OTHER -> Note(n, r)

\* A plausible bug: a failed poll's stale meter is set against a live car.
Asks_Always(n, r, ok) == ~Armed(n, r).seeded /\ r.plug = "charging"

Asks(n, r, ok) == ok /\ ~Armed(n, r).seeded /\ r.plug = "charging"

\* _external_soc_anchor: the car's charge less what the session delivered.
Usable(r, car) == car # Asleep /\ r.energy # Unread

Readable(r) == r.plug = "charging" /\ r.energy # Unread /\ r.clock # Unread

Seeds(n, r, ok, car) == Asks(n, r, ok) /\ Usable(r, car)

\* What the car's sensor may say, where it is read.
Sensor(n, r, ok) == IF Asks(n, r, ok) THEN {arrived + delivered, Asleep} ELSE {Asleep}

\* _maybe_seed_from_external_soc
MaybeSeed(n, r, ok, car) ==
    LET armed == IF ok THEN Armed(n, r) ELSE n
    IN  IF Seeds(n, r, ok, car)
        THEN [armed EXCEPT !.value = car - r.energy, !.seeded = TRUE, !.told = "car"]
        ELSE IF Asks(n, r, ok) THEN [armed EXCEPT !.told = "failed"] ELSE armed

\* _push and _mirror_into_config_entry, whenever a value is applied.
Push == entrySoc' = number'.value

\* Whose the value is, whether its cycle was seen to end, and the session whose
\* clock was read last.
Credit(n, g, r, ok, car) ==
    LET seeds == Seeds(n, r, ok, car)
    IN  given' = [by      |-> IF seeds THEN "car" ELSE g.by,
                  session |-> IF seeds THEN session ELSE g.session,
                  early   |-> g.early /\ ~seeds,
                  over    |-> ~seeds /\ (g.over \/ (ok /\ r.plug = "out")),
                  noted   |-> IF ok /\ r.plug \in {"idle", "charging"} /\ r.clock # Unread
                              THEN session ELSE g.noted]

Listens(r, ok) ==
    \E car \in Sensor(number, r, ok) :
        /\ number' = MaybeSeed(number, r, ok, car)
        /\ Credit(number, given, r, ok, car)
        /\ Push

SocPoll(r) ==
    /\ numberUp = "running"
    /\ reply' = r
    /\ Listens(r, TRUE)
    /\ UNCHANGED <<carVars, numberUp, disk>>

\* The held reply stays in place.
SocMiss ==
    /\ numberUp = "running"
    /\ Listens(reply, FALSE)
    /\ UNCHANGED <<carVars, numberUp, reply, disk>>

\* async_set_native_value
SetByHand(value) ==
    /\ numberUp = "running"
    /\ number' = [number EXCEPT !.value = value, !.seeded = TRUE]
    /\ Push
    /\ given' = [given EXCEPT !.by = "user", !.session = session, !.over = FALSE,
                              !.early = number.cycle # Unread /\ given.noted # session]
    /\ UNCHANGED <<carVars, numberUp, reply, disk>>

----------------------------------------------------------------------------
(* Start and stop                                                             *)

\* async_setup_entry: the calculator starts from the config entry, and a first
\* poll that failed leaves nothing to read.
SetupPolls ==
    /\ numberUp = "off"
    /\ numberUp' = "polled"
    /\ reply' \in SocReplies
    /\ number' = NotSet(entrySoc)
    /\ UNCHANGED <<carVars, entrySoc, disk, given>>

\* A plausible bug: the flag is left behind by a reload.
Restored_Unseeded == IF disk.kept
    THEN [disk.number EXCEPT !.told = "none", !.seeded = FALSE] ELSE number

Restored == IF disk.kept THEN [disk.number EXCEPT !.told = "none"] ELSE number

\* async_added_to_hass: what setup's poll read settles what is restored.
AddNumber ==
    /\ numberUp = "polled"
    /\ numberUp' = "running"
    /\ \E car \in Sensor(Restored, reply, TRUE) :
          /\ number' = MaybeSeed(Restored, reply, TRUE, car)
          /\ Credit(Restored, disk.given, reply, TRUE, car)
    /\ Push
    /\ UNCHANGED <<carVars, reply, disk>>

GoesDown ==
    /\ numberUp' = "off" /\ reply' = NoReply
    /\ number' = NotSet(entrySoc) /\ given' = Nobody
    /\ UNCHANGED <<carVars, entrySoc>>

\* extra_restore_state_data, saved when the entry unloads and Home Assistant stops;
\* a crash leaves what was saved before.
StopNumber ==
    /\ numberUp = "running"
    /\ GoesDown
    /\ disk' = [kept |-> TRUE, number |-> number, given |-> given]

Crashes ==
    /\ numberUp # "off"
    /\ GoesDown
    /\ UNCHANGED disk

SocNext ==
    \/ CarNext
    \/ \E r \in SocReplies : SocPoll(r)
    \/ SocMiss
    \/ \E value \in ByHand : SetByHand(value)
    \/ SetupPolls \/ AddNumber \/ StopNumber \/ Crashes

SocSpec == SocInit /\ [][SocNext]_socVars

----------------------------------------------------------------------------
(* Properties                                                                 *)

\* What a step starts from: setup hands over what was restored, and what a crash
\* cost the store is not held against the number.
Before == IF numberUp = "polled" THEN Restored ELSE number
GivenBefore == IF numberUp = "polled" THEN disk.given ELSE given

\* What the car seeds is its charge when the session began, however late and
\* after whatever outage it is read.  And once a running charge was read with
\* the car awake, the value is of this session, unless its plug-in was neither
\* seen nor can be told from the clock (number.py:729-849).
SeedIsTrue ==
    [][ /\ given'.by = "car" /\ given'.session = session => number'.value = arrived
        /\ /\ numberUp' = "running" /\ Readable(reply') /\ given'.noted = session
           /\ number'.told # "failed"
           => \/ given'.session = session
              \/ ~GivenBefore.over /\ Before.cycle <= clock ]_socVars

\* A value entered by hand is not taken back by the car in its session: not when
\* the car wakes up, after a fault, a pause, a reload or a restart.  It may be
\* when no poll had read the session's clock yet (number.py:692-710, 722-727).
CorrectionStands ==
    [][ /\ given'.by = "car" /\ given'.session = session
        /\ GivenBefore.by = "user" /\ GivenBefore.session = session
        => GivenBefore.early ]_socVars

\* The number is the car's once in a session, and then the user's.
NumberIsTrue == SeedIsTrue /\ CorrectionStands

\* "A value you enter by hand wins until the next plug-in, including after a
\* reload" (README.md:279).
HandValueWins ==
    [][ given'.by = "car" /\ given'.session = session
        => ~(GivenBefore.by = "user" /\ GivenBefore.session = session) ]_socVars
=============================================================================
