------------------------------ MODULE MeterGuard ------------------------------
(***************************************************************************)
(* The guard of the lifetime meters: meter_guard.MeterGuard between the    *)
(* polls of EveusUpdater, the counter resets that Home Assistant sends,    *)
(* and the store that carries the last accepted readings over a restart.   *)
(*                                                                         *)
(* A charger that starts reports its meters as 0 for a poll or two.  Home  *)
(* Assistant's statistics take a fall of a meter for a new life of it, so  *)
(* the guard holds a fall back until it repeats, or until Home Assistant   *)
(* itself reset the counter.                                               *)
(*                                                                         *)
(* A reading is [life, value]: which reset of the meter it belongs to is   *)
(* known to the charger alone, and only the properties look at it.         *)
(* A definition called Action_Fault is a faulty variant of Action, kept to *)
(* show that the properties notice it; nothing else uses it.               *)
(***************************************************************************)
EXTENDS Integers

CONSTANTS Meters,         \* _METER_KEYS
          ResetMeters,    \* the meters a counter reset command zeroes
          ConfirmPolls,   \* METER_DROP_CONFIRM_POLLS
          Top, Lives,     \* bounds of the charger's meters
          BootPolls       \* polls a starting charger may answer with zeros

ASSUME MeterAssumption ==
    /\ "none" \notin Meters
    /\ ResetMeters \subseteq Meters
    /\ ConfirmPolls \in Nat \ {0}
    /\ Top \in Nat /\ Lives \in Nat
    /\ BootPolls \in 0 .. ConfirmPolls - 1

VARIABLES
    real,       \* each meter in the charger
    zeros,      \* how many polls will still be answered with zeros
    settled,    \* the meters read truly since the last power-up
    run,        \* the config entry: "down", "up", "closing", "removed"
    poll,       \* "idle", "asked", "read", or "zeroed": zeros were read
    reading,    \* what the poll has read
    accepted,   \* _accepted
    drops,      \* _drops
    resets,     \* _resets
    command,    \* the reset awaiting its reply: "none", or the meter it has zeroed
    storeUp,    \* _meter_store is not None
    saved,      \* _meter_saved
    savedAge,   \* _meter_saved_at against METER_SAVE_INTERVAL_SECONDS
    pending,    \* the delayed save Home Assistant's Store still owes
    file,       \* the stored baseline
    recorded,   \* what Home Assistant last recorded of each meter, over restarts
    behind,     \* meters not polled since a run that ended without its flush
    owed,       \* the life of a meter Home Assistant reset and has not read yet
    raced       \* such resets whose reply was overtaken by a poll

chargerVars == <<real, zeros, settled>>
pollVars == <<poll, reading>>
guardVars == <<accepted, drops, resets>>
storeVars == <<storeUp, saved, savedAge, pending, file>>
ghostVars == <<recorded, behind, owed, raced>>
meterVars == <<chargerVars, run, pollVars, guardVars, command, storeVars, ghostVars>>

Unknown == -1
NoReading == [life |-> 0, value |-> Unknown]
Empty == [k \in Meters |-> NoReading]
Nothing == {}          \* no delayed save
Known(r) == r.value # Unknown
Values(f) == [k \in Meters |-> f[k].value]

MeterInit ==
    /\ real = [k \in Meters |-> [life |-> 0, value |-> 0]]
    /\ zeros = 0
    /\ settled = Meters
    /\ run = "down"
    /\ poll = "idle" /\ reading = Empty
    /\ accepted = Empty /\ drops = [k \in Meters |-> 0] /\ resets = {}
    /\ command = "none"
    /\ storeUp = FALSE /\ saved = Empty /\ savedAge = "never"
    /\ pending = Nothing /\ file = Empty
    /\ recorded = Empty
    /\ behind = {}
    /\ owed = [k \in Meters |-> 0]
    /\ raced = {}

-------------------------------------------------------------------------------
(* The charger.                                                            *)

Consume(k) ==
    /\ real[k].value < Top
    /\ real' = [real EXCEPT ![k].value = @ + 1]
    /\ UNCHANGED <<zeros, settled, run, pollVars, guardVars, command, storeVars, ghostVars>>

NewLife(k) == [real EXCEPT ![k] = [life |-> @.life + 1, value |-> 0]]

\* Somebody resets the counter in the charger's own app.
AppReset(k) ==
    /\ k \in ResetMeters
    /\ real[k].life < Lives
    /\ real' = NewLife(k)
    /\ UNCHANGED <<zeros, settled, run, pollVars, guardVars, command, storeVars, ghostVars>>

\* The charger is switched on; whoever was talking to it is cut off.
PowerUp ==
    /\ settled = Meters
    /\ zeros' \in 1 .. BootPolls
    /\ settled' = {}
    /\ poll' = "idle" /\ reading' = Empty
    /\ command' = "none"
    /\ UNCHANGED <<real, run, guardVars, storeVars, ghostVars>>

-------------------------------------------------------------------------------
(* A poll: one at a time, under _poll_lock.                                *)

AskPoll ==
    /\ run = "up"
    /\ poll = "idle"
    /\ poll' = "asked"
    /\ UNCHANGED <<chargerVars, run, reading, guardVars, command, storeVars, ghostVars>>

\* The charger answers: true meters or zeros, and perhaps not every field.
Answer ==
    /\ poll = "asked"
    /\ poll' = IF zeros > 0 THEN "zeroed" ELSE "read"
    /\ \E known \in SUBSET Meters :
          reading' = [k \in Meters |->
              IF k \notin known THEN NoReading
              ELSE IF zeros > 0 THEN [real[k] EXCEPT !.value = 0]
              ELSE real[k]]
    /\ zeros' = IF zeros > 0 THEN zeros - 1 ELSE 0
    /\ UNCHANGED <<real, settled, run, guardVars, command, storeVars, ghostVars>>

PollFails ==
    /\ poll # "idle"
    /\ poll' = "idle" /\ reading' = Empty
    /\ UNCHANGED <<chargerVars, run, guardVars, command, storeVars, ghostVars>>

Held_ForEver(k) ==
    /\ Known(reading[k])
    /\ Known(accepted[k])
    /\ reading[k].value < accepted[k].value
    /\ k \notin resets

Held_OnePollShort(k) == Held_ForEver(k) /\ drops[k] + 2 < ConfirmPolls

\* MeterGuard.apply: a drop nobody asked for is held until it has repeated.
Held(k) ==
    /\ Known(reading[k])
    /\ Known(accepted[k])
    /\ reading[k].value < accepted[k].value
    /\ k \notin resets
    /\ drops[k] + 1 < ConfirmPolls

Accepts(k) == Known(reading[k]) /\ ~Held(k)

SaveBaseline_Once ==
    IF storeUp /\ run = "up" /\ savedAge = "never"
    THEN /\ saved' = accepted'
         /\ savedAge' = "recent"
         /\ pending' = {accepted'}
         /\ UNCHANGED <<storeUp, file>>
    ELSE UNCHANGED storeVars

\* _save_meter_baseline, after the guard took the poll's readings.
SaveBaseline ==
    IF storeUp /\ run = "up" /\ Values(accepted') # Values(saved) /\ savedAge # "recent"
    THEN /\ saved' = accepted'
         /\ savedAge' = "recent"
         /\ pending' = {accepted'}
         /\ UNCHANGED <<storeUp, file>>
    ELSE UNCHANGED storeVars

\* The rest of _poll_charger.  The sensors show what the guard let through,
\* until the entry's platforms are gone.
FinishPoll ==
    /\ poll \in {"read", "zeroed"}
    /\ poll' = "idle" /\ reading' = Empty
    /\ accepted' = [k \in Meters |-> IF Accepts(k) THEN reading[k] ELSE accepted[k]]
    /\ drops' = [k \in Meters |-> IF Held(k) THEN drops[k] + 1
                                  ELSE IF Accepts(k) THEN 0 ELSE drops[k]]
    /\ resets' = {k \in resets : ~Accepts(k)}
    /\ SaveBaseline
    /\ recorded' = [k \in Meters |->
          IF run = "up" /\ Known(reading[k]) THEN accepted'[k] ELSE recorded[k]]
    /\ behind' = {k \in behind : run = "up" => ~Known(reading[k])}
    /\ owed' = [k \in Meters |->
          IF Accepts(k) /\ reading[k].life >= owed[k] THEN 0 ELSE owed[k]]
    /\ UNCHANGED raced
    /\ settled' = settled \cup
          {k \in Meters : poll = "read" /\ zeros = 0 /\ Known(reading[k])}
    /\ UNCHANGED <<real, zeros, run, command, storeUp>>

-------------------------------------------------------------------------------
(* A counter reset sent by Home Assistant (retry=False).                   *)

\* The charger carries the command out.
PostReset(k) ==
    /\ run = "up"
    /\ command = "none"
    /\ k \in ResetMeters
    /\ real[k].life < Lives
    /\ real' = NewLife(k)
    /\ command' = k
    /\ UNCHANGED <<zeros, settled, run, pollVars, guardVars, storeVars, ghostVars>>

\* The life Home Assistant now waits for, and whether a poll is out, or has even
\* shown that life, before the reply to the reset.
Owe(k) ==
    /\ owed' = [owed EXCEPT ![k] = IF run = "up" THEN real[k].life ELSE @]
    /\ raced' = IF poll = "idle" /\ accepted[k].life < real[k].life
                THEN raced \ {k} ELSE raced \cup {k}

\* EveusUpdater.send_command: expect_reset once the reply is in.
AnswerReset ==
    /\ command # "none"
    /\ command' = "none"
    /\ resets' = IF run = "up" THEN resets \cup {command} ELSE resets
    /\ Owe(command)
    /\ UNCHANGED <<chargerVars, run, pollVars, accepted, drops, storeVars, recorded, behind>>

LoseReply ==
    /\ command # "none"
    /\ command' = "none"
    /\ UNCHANGED <<chargerVars, run, pollVars, guardVars, storeVars, ghostVars>>

-------------------------------------------------------------------------------
(* The store and the config entry.                                         *)

\* Fifteen minutes pass.
SaveIntervalPasses ==
    /\ savedAge = "recent"
    /\ savedAge' = "old"
    /\ UNCHANGED <<chargerVars, run, pollVars, guardVars, command,
                   storeUp, saved, pending, file, ghostVars>>

\* Home Assistant's Store writes the delayed save.
WriteDelayed ==
    /\ pending # Nothing
    /\ file' \in pending
    /\ pending' = Nothing
    /\ UNCHANGED <<chargerVars, run, pollVars, guardVars, command,
                   storeUp, saved, savedAge, ghostVars>>

\* async_load_meter_baseline on a new coordinator; storage may be in trouble.
Setup ==
    /\ run = "down"
    /\ run' = "up"
    /\ \/ storeUp' = TRUE /\ accepted' = file /\ UNCHANGED behind
       \/ storeUp' = FALSE /\ accepted' = Empty /\ behind' = Meters
    /\ saved' = accepted'
    /\ savedAge' = "never"
    /\ drops' = [k \in Meters |-> 0]
    /\ resets' = {}
    /\ owed' = [k \in Meters |-> 0]
    /\ poll' = "idle" /\ reading' = Empty         \* the coordinator is a new one
    /\ command' = "none"
    /\ UNCHANGED <<chargerVars, pending, file, recorded, raced>>

\* async_shutdown begins: the platforms are unloaded, a poll may still be out.
BeginUnload ==
    /\ run = "up"
    /\ run' = "closing"
    /\ UNCHANGED <<chargerVars, pollVars, guardVars, command, storeVars, ghostVars>>

Flush_Skipped ==
    /\ run = "closing"
    /\ run' = "down"
    /\ UNCHANGED <<chargerVars, pollVars, guardVars, command, storeVars, ghostVars>>

\* _flush_meter_baseline: the write replaces a save still pending; it may fail.
Flush ==
    /\ run = "closing"
    /\ run' = "down"
    /\ \/ storeUp /\ file' = accepted /\ saved' = accepted /\ UNCHANGED behind
       \/ behind' = Meters /\ UNCHANGED <<file, saved>>
    /\ pending' = Nothing
    /\ UNCHANGED <<chargerVars, pollVars, guardVars, command, storeUp, savedAge,
                   recorded, owed, raced>>

\* async_remove_entry, after the unload.
Remove ==
    /\ run = "down"
    /\ run' = "removed"
    /\ file' = Empty
    /\ UNCHANGED <<chargerVars, pollVars, guardVars, command, storeUp, saved, savedAge,
                   pending, ghostVars>>

\* Home Assistant dies.
Crash ==
    /\ run \in {"up", "closing", "down"}
    /\ run' = "down"
    /\ poll' = "idle" /\ reading' = Empty /\ command' = "none" /\ pending' = Nothing
    /\ behind' = IF run = "down" THEN behind ELSE Meters
    /\ UNCHANGED <<chargerVars, guardVars, storeUp, saved, savedAge, file,
                   recorded, owed, raced>>
ChargerNext == PowerUp \/ \E k \in Meters : Consume(k) \/ AppReset(k)
PollNext == AskPoll \/ Answer \/ PollFails \/ FinishPoll
CommandNext == AnswerReset \/ LoseReply \/ \E k \in Meters : PostReset(k)
EntryNext == Setup \/ BeginUnload \/ Flush \/ Remove \/ Crash
StoreNext == SaveIntervalPasses \/ WriteDelayed

MeterNext == ChargerNext \/ PollNext \/ CommandNext \/ EntryNext \/ StoreNext

MeterSpec == MeterInit /\ [][MeterNext]_meterVars

(***************************************************************************)
(* The coordinator keeps polling, the charger answers again and again, and *)
(* time and Home Assistant's Store move on.                                *)
(***************************************************************************)
MeterFairSpec ==
    /\ MeterSpec
    /\ WF_meterVars(AskPoll) /\ SF_meterVars(Answer) /\ SF_meterVars(FinishPoll)
    /\ WF_meterVars(SaveIntervalPasses) /\ WF_meterVars(WriteDelayed)

-------------------------------------------------------------------------------
\* What Home Assistant records of a meter falls only when the meter began a new
\* life: never for the zeros of a starting charger, however they fall between
\* polls, failed polls, resets and reloads.  After a run that ended without its
\* flush it may fall to what the disk still held.  (A reset whose reply a poll
\* overtook leaves the guard open for one poll more.)
OnlyANewLifeFalls == [][\A k \in Meters \ raced :
    recorded'[k].value < recorded[k].value =>
        \/ recorded'[k].life > recorded[k].life
        \/ k \in behind /\ recorded'[k].value >= accepted[k].value]_meterVars

\* A meter that has begun a new life is not shown with an old one's reading
\* again: a restart that flushed remembers the reset.
NoOldLifeReturns == [][\A k \in Meters :
    recorded'[k].value > recorded[k].value /\ k \notin behind =>
        recorded'[k].life >= recorded[k].life]_meterVars

\* A poll shows the life that Home Assistant's own reset began, below the
\* accepted reading.
ReadsOwnReset(k) ==
    /\ FinishPoll
    /\ owed[k] > 0
    /\ Known(reading[k])
    /\ reading[k].life >= owed[k]
    /\ reading[k].value < accepted[k].value

\* A counter Home Assistant reset is shown reset by the first poll that reads
\* it, provided no poll was out when the reply arrived.
QuietResetShownAtOnce == [][\A k \in Meters \ raced :
    ReadsOwnReset(k) => accepted'[k] = reading[k]]_meterVars

\* The statistics see a meter fall when it begins a new life, at once if Home Assistant
\* began it, and never otherwise.
FallsAreNewLives == OnlyANewLifeFalls /\ QuietResetShownAtOnce

\* expect_reset: "Home Assistant just reset a counter: take its next drop at
\* once", polls in flight or not.
OwnResetShownAtOnce == [][\A k \in Meters :
    ReadsOwnReset(k) => accepted'[k] = reading[k]]_meterVars

\* The file of a removed entry does not come back: no save is pending or can be
\* scheduled once the unload has flushed.
RemovedStaysRemoved == run = "removed" => file = Empty /\ pending = Nothing

\* While the charger keeps answering, readings that no longer change reach the
\* disk, those of the last polls before the meter came to rest included.
BaselineReachesDisk ==
    (/\ <>[](run = "up" /\ storeUp)
     /\ <>[][accepted' = accepted]_meterVars) => <>[](Values(file) = Values(accepted))

\* What is left behind of a meter is of its present life, or nothing once the entry is
\* removed: neither a restart nor a new entry starts from an old baseline.  In the end
\* it is the reading itself.
StoreIsCurrent ==
    NoOldLifeReturns /\ [][RemovedStaysRemoved']_meterVars /\ BaselineReachesDisk
===============================================================================
