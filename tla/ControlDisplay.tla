---------------------------- MODULE ControlDisplay ----------------------------
(***************************************************************************)
(* What a control shows while its writes, the coordinator's polls and time *)
(* interleave: CommandBackedEntity and OptimisticControlMixin around the   *)
(* writes of SetpointWrites.  While a write is under way the control shows *)
(* what was asked for; an accepted value is shown until the charger        *)
(* reports it, or for a while; else the charger's reading, or its last one *)
(* for as long as that may be held.                                        *)
(*                                                                         *)
(* Times are in ticks of some ten seconds.  Reading and writing agree on   *)
(* the value: scaling and rounding are left out.  A control that Home      *)
(* Assistant shows as unavailable accepts no call.                         *)
(* A definition called Name_Fault is a faulty variant of Name, kept to     *)
(* show that the properties notice it; nothing else uses it.               *)
(***************************************************************************)
EXTENDS SetpointWrites

CONSTANTS
    Values,
    Want,           \* the value each call asks for
    MismatchTTL,    \* mismatch_ttl: an older accepted value yields to another reading
    OptimisticTTL,  \* OPTIMISTIC_CONTROL_TTL
    ControlGrace,   \* CONTROL_GRACE_PERIOD
    PollTicks       \* how long a poll may take

ASSUME DisplayAssumption ==
    /\ Want \in [Calls -> Values]
    /\ {MismatchTTL, OptimisticTTL, ControlGrace, PollTicks} \subseteq Nat
    /\ PollTicks <= MismatchTTL /\ MismatchTTL < OptimisticTTL /\ ControlGrace > 0

None == "none"
ASSUME NoneAssumption == None \notin Values

VARIABLES
    device,         \* the charger's setting
    asked,          \* the reading of the poll under way, or "idle"
    pollAge,        \* ticks since it was asked
    available,      \* the last poll succeeded
    reading,        \* _read_device_value: None when it failed or lacks the key
    missed,         \* ticks since the first failed poll of the outage
    optimistic,     \* _optimistic_value
    optimisticAge,
    lastRead,       \* _last_device_value
    lastAge,        \* ticks since _last_successful_read
    pending,        \* the pin: _pending_value, _pending_command
    shown,          \* the value the entity publishes
    early           \* the poll under way was asked before the last accepted write was

pollVars == <<asked, pollAge, available, reading, missed>>
memoryVars == <<optimistic, optimisticAge, lastRead, lastAge, pending>>
displayVars == <<device, pollVars, memoryVars, shown, early>>
vars == <<writeVars, displayVars>>

VisibleAt(down, age) == ~down \/ age < ControlGrace
Visible == VisibleAt(~available, missed)

\* _may_hold_last_device_value
MayHold(down, age, sinceRead) ==
    \/ down /\ age < ControlGrace
    \/ sinceRead < ControlGrace

\* _resolve_held_value, over the next state.
Resolved ==
    IF optimistic' # None /\ optimisticAge' < OptimisticTTL THEN optimistic'
    ELSE IF reading' # None THEN reading'
    ELSE IF lastRead' # None /\ MayHold(~available', missed', lastAge') THEN lastRead'
    ELSE None

\* Setup has polled before the entity is added, which shows that reading, and has the
\* state of the last run as its last reading, if there was one.
Init ==
    /\ WritesInit
    /\ device \in Values
    /\ asked = "idle" /\ pollAge = 0
    /\ available = TRUE /\ missed = 0 /\ reading = device
    /\ optimistic = None /\ optimisticAge = 0
    /\ lastRead \in Values \cup {None} /\ lastAge = 0
    /\ pending = None
    /\ shown = reading
    /\ early = FALSE

-------------------------------------------------------------------------------
(* Writes.                                                                 *)

Unpinned == UNCHANGED <<memoryVars, shown>>

\* _send_pinned_command: the write is shown before it is sent.
Pin(c) ==
    /\ pending' = Want[c]
    /\ shown' = Want[c]
    /\ UNCHANGED <<optimistic, optimisticAge, lastRead, lastAge>>

Release_OnlyOnReply(c) ==
    IF pc'[c] = "cancelled" THEN UNCHANGED <<memoryVars, shown>>
    ELSE /\ pending' = None
         /\ optimistic' = IF pc'[c] = "ok" THEN Want[c] ELSE optimistic
         /\ optimisticAge' = IF pc'[c] = "ok" THEN 0 ELSE optimisticAge
         /\ UNCHANGED <<lastRead, lastAge>>
         /\ shown' = IF pc'[c] = "following" THEN shown ELSE Resolved

\* However the write ends, the pin is released and the display resolved; a write that
\* was replaced leaves that to its successor, or to the next poll.
Release(c) ==
    /\ pending' = None
    /\ optimistic' = IF pc'[c] = "ok" THEN Want[c] ELSE optimistic
    /\ optimisticAge' = IF pc'[c] = "ok" THEN 0 ELSE optimisticAge
    /\ UNCHANGED <<lastRead, lastAge>>
    /\ shown' = IF pc'[c] = "following" THEN shown ELSE Resolved

Ask(c) ==
    /\ Visible
    /\ Arrive(c)
    /\ UNCHANGED displayVars

Begin(c) ==
    /\ Proceed(c)
    /\ IF pc'[c] = "queued" THEN Pin(c) ELSE Unpinned
    /\ UNCHANGED <<device, pollVars, early>>

Sending(c) ==
    /\ Post(c) \/ Retry(c) \/ Report(c)
    /\ UNCHANGED displayVars

Taken(c) ==
    /\ Land(c)
    /\ device' = Want[c]
    /\ UNCHANGED <<pollVars, memoryVars, shown, early>>

Ended(c) ==
    /\ Skip(c) \/ Accepted(c) \/ Rejected(c) \/ Unauthorized(c)
    /\ early' = (IF pc'[c] = "ok" THEN asked # "idle" ELSE early)
    /\ UNCHANGED <<device, pollVars>>
    /\ Release(c)

Withdrawn(c) ==
    /\ Cancel(c)
    /\ UNCHANGED <<device, pollVars, early>>
    /\ IF pc[c] \in Holding THEN Release(c) ELSE Unpinned

WriteNext ==
    \E c \in Calls : Ask(c) \/ Begin(c) \/ Sending(c) \/ Taken(c) \/ Ended(c) \/ Withdrawn(c)

-------------------------------------------------------------------------------
(* Polls and time.                                                         *)

\* Going unavailable drops the optimistic value.
Kept == IF Visible /\ ~VisibleAt(~available', missed') THEN None ELSE optimistic

Reconciled_ByAnyReading(value) == IF reading' # None THEN None ELSE value

\* _reconcile_with_device, then _expire_optimistic_value
Reconciled(value) ==
    IF \/ reading' # None /\ (value = reading' \/ optimisticAge' > MismatchTTL)
       \/ optimisticAge' >= OptimisticTTL
    THEN None ELSE value

\* _handle_coordinator_update: a pinned control only notices its availability.
HandleUpdate(aged) ==
    /\ UNCHANGED pending
    /\ IF pending # None
       THEN /\ optimistic' = Kept
            /\ lastAge' = aged
            /\ UNCHANGED <<lastRead, shown>>
       ELSE /\ optimistic' = Reconciled(Kept)
            /\ lastRead' = IF reading' # None THEN reading' ELSE lastRead
            /\ lastAge' = IF reading' # None THEN 0 ELSE aged
            /\ shown' = Resolved

AskPoll ==
    /\ asked = "idle"
    /\ asked' \in {device, None}          \* the payload may lack the key
    /\ pollAge' = 0
    /\ early' = FALSE
    /\ UNCHANGED <<writeVars, device, available, reading, missed, memoryVars, shown>>

GoodPoll ==
    /\ asked # "idle"
    /\ reading' = asked
    /\ available' = TRUE
    /\ missed' = 0
    /\ UNCHANGED <<optimisticAge, writeVars, device, early>>
    /\ HandleUpdate(lastAge)
    /\ asked' = "idle" /\ pollAge' = 0

\* Home Assistant tells its listeners of the first failure only.
BadPoll ==
    /\ asked # "idle"
    /\ asked' = "idle" /\ pollAge' = 0
    /\ reading' = None
    /\ available' = FALSE
    /\ UNCHANGED <<missed, optimisticAge, writeVars, device, early>>
    /\ IF available THEN HandleUpdate(lastAge)
       ELSE UNCHANGED <<optimistic, lastRead, lastAge, pending, shown>>

Older(age, bound) == IF age < bound THEN age + 1 ELSE age

\* The coordinator wakes its listeners when the grace period closes.
Tick ==
    /\ asked # "idle" => pollAge < PollTicks
    /\ pollAge' = IF asked # "idle" THEN pollAge + 1 ELSE 0
    /\ missed' = IF available THEN 0 ELSE Older(missed, ControlGrace)
    /\ optimisticAge' = IF optimistic = None THEN 0 ELSE Older(optimisticAge, OptimisticTTL)
    /\ UNCHANGED <<writeVars, device, asked, available, reading, early>>
    /\ IF Visible /\ ~VisibleAt(~available, missed')
       THEN HandleUpdate(Older(lastAge, ControlGrace))
       ELSE /\ lastAge' = Older(lastAge, ControlGrace)
            /\ UNCHANGED <<optimistic, lastRead, pending, shown>>

\* Somebody changes the setting on the charger or in its app.
DeviceMoves ==
    /\ device' \in Values \ {device}
    /\ UNCHANGED <<writeVars, pollVars, memoryVars, shown, early>>

Next == WriteNext \/ AskPoll \/ GoodPoll \/ BadPoll \/ Tick \/ DeviceMoves

Spec == Init /\ [][Next]_vars

(***************************************************************************)
(* Time passes, polls are made and end, and every write goes on.           *)
(***************************************************************************)
FairSpec ==
    /\ Spec
    /\ WF_vars(AskPoll) /\ WF_vars(GoodPoll \/ BadPoll) /\ WF_vars(Tick)
    /\ \A c \in Calls :
          /\ WF_vars(Begin(c))
          /\ WF_vars(Sending(c) \/ Ended(c))

-------------------------------------------------------------------------------
\* The control shows the write that is under way, polls or not, and is pinned exactly
\* while there is one: however it ends, the pin goes.
PinIsTheWrite ==
    IF LockFree THEN pending = None
    ELSE \E c \in Calls : pc[c] \in Holding /\ pending = Want[c] /\ shown = Want[c]

\* An accepted value is never covered by an answer the charger gave before it accepted:
\* the display does not snap back when the poll under way ends.
NoSnapBack ==
    [][ early /\ asked # "idle" /\ asked' = "idle" /\ Visible /\ pending = None /\ reading' # None
        /\ optimistic # None
        => shown' = optimistic ]_vars

\* A rejected, raising or cancelled write leaves nothing of itself on the display.
FailureLeavesNoTrace ==
    [][ \A c \in Calls : pc[c] \in Holding /\ pc'[c] \in {"failed", "cancelled"} =>
            shown' \in {optimistic, reading, lastRead, None} ]_vars

\* A write shows while it lasts, and only an accepted one longer.
WriteShowsWhileItLasts == [][PinIsTheWrite']_vars /\ FailureLeavesNoTrace

\* What is shown are the writes: under way, accepted, or gone.
DisplayFollowsWrites == NoSnapBack /\ WriteShowsWhileItLasts

FirstMiss == available /\ ~available' /\ pending = None /\ LockFree /\ optimistic = None

\* "inside the grace window it keeps publishing what it last read"
MissKeepsWhatWasRead == [][ FirstMiss /\ reading # None => shown' = reading ]_vars

\* A key the charger stopped sending "still times out": blank, it stays so until it is
\* read or written again.
AbsentStaysBlank ==
    [][ FirstMiss /\ shown = None => shown' = None ]_vars

\* When writes and changes stop and the charger answers, the control ends up showing
\* the charger's setting for good.
Converges ==
    /\ <>[][~WriteNext /\ ~DeviceMoves /\ ~BadPoll]_vars
    /\ <>[][GoodPoll => asked # None]_vars
    => <>[](shown = device)
\* Writes return and the display comes to rest on the truth.
Settles == EveryWriteReturns /\ Converges
===============================================================================
