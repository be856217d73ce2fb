---------------------------- MODULE SelectDisplay ----------------------------
(* What a select shows while its commands, polls and time interleave          *)
(* (select.py).  Numbers, switches and times pin the write under way apart    *)
(* from the accepted value, as ControlDisplay has it; a select has one field  *)
(* for both, stamped when the command begins and again when it is accepted,   *)
(* and a cancelled command leaves it where it is.                             *)
(*                                                                            *)
(* Times are in ticks of some ten seconds.  The select's lock admits one      *)
(* command at a time; those that wait for it have touched nothing.            *)
EXTENDS Naturals

CONSTANTS
    Options,
    MismatchTTL,    \* mismatch_ttl
    OptimisticTTL,  \* OPTIMISTIC_CONTROL_TTL
    ControlGrace,   \* CONTROL_GRACE_PERIOD
    PollTicks       \* bound on the ticks a poll takes

ASSUME SelectAssumption ==
    /\ {MismatchTTL, OptimisticTTL, ControlGrace, PollTicks} \subseteq Nat
    /\ PollTicks <= MismatchTTL /\ MismatchTTL < OptimisticTTL /\ ControlGrace > 0

VARIABLES
    setting,        \* the charger's
    reply, pollAge, \* the answer of the poll under way, "idle" without one; its ticks
    early,          \* that poll was asked before the last command was accepted
    online,         \* the last poll succeeded
    deviceValue,    \* _device_value: unset when it failed, or had no known option
    down,           \* ticks since the first failed poll of the outage
    optimistic, optimisticAge,
    held, heldAge,  \* _last_device_value, _last_successful_read
    choice,         \* _command_pending: the option it sends, Unset without one
    taken,          \* the charger has carried it out
    option          \* the published state

commandVars == <<choice, taken>>
linkVars == <<reply, pollAge, early, online, deviceValue, down>>
heldVars == <<held, heldAge>>
selectVars == <<setting, linkVars, optimistic, optimisticAge, heldVars, commandVars, option>>

Unset == "none"

InGrace == ~online /\ down < ControlGrace

\* _resolve_held_value, over the next state
CurrentOption ==
    IF optimistic' # Unset /\ optimisticAge' < OptimisticTTL THEN optimistic'
    ELSE IF deviceValue' # Unset THEN deviceValue'
    ELSE IF InGrace' \/ heldAge' < ControlGrace THEN held'
    ELSE Unset

\* Setup has polled, and the last run's option is restored.
SelectInit ==
    /\ setting \in Options
    /\ reply = "idle" /\ pollAge = 0 /\ early = FALSE
    /\ online = TRUE /\ deviceValue = setting /\ down = 0
    /\ optimistic = Unset /\ optimisticAge = 0
    /\ held \in Options \cup {Unset} /\ heldAge = 0
    /\ choice = Unset /\ taken = FALSE
    /\ option = setting

----------------------------------------------------------------------------
(* Commands: _async_send_option                                               *)

Select(o) ==
    /\ choice = Unset
    /\ choice' = o /\ taken' = FALSE
    /\ optimistic' = o /\ optimisticAge' = 0
    /\ option' = o
    /\ UNCHANGED <<setting, linkVars, heldVars>>

\* An attempt arrives, its answer perhaps not.
Arrives ==
    /\ choice # Unset
    /\ setting' = choice /\ taken' = TRUE
    /\ UNCHANGED <<linkVars, optimistic, optimisticAge, heldVars, choice, option>>

Succeeds_KeepsStamp ==
    /\ choice # Unset /\ taken
    /\ choice' = Unset /\ taken' = FALSE
    /\ early' = (reply # "idle")
    /\ UNCHANGED <<setting, reply, pollAge, online, deviceValue, down, heldVars, option,
                   optimistic, optimisticAge>>

\* Nothing is published: the option is, or comes with the next poll.
Succeeds ==
    /\ choice # Unset /\ taken
    /\ choice' = Unset /\ taken' = FALSE
    /\ optimistic' = choice /\ optimisticAge' = 0
    /\ early' = (reply # "idle")
    /\ UNCHANGED <<setting, reply, pollAge, online, deviceValue, down, heldVars, option>>

\* Refused, vetoed, given up or raising.
Declined ==
    /\ choice # Unset
    /\ choice' = Unset /\ taken' = FALSE
    /\ optimistic' = Unset /\ optimisticAge' = 0
    /\ UNCHANGED <<setting, linkVars, heldVars>>
    /\ option' = CurrentOption

\* A cancellation is no Exception: `finally` is all it runs.
IsCancelled ==
    /\ choice # Unset
    /\ choice' = Unset /\ taken' = FALSE
    /\ UNCHANGED <<setting, linkVars, optimistic, optimisticAge, heldVars, option>>

Commands ==
    (\E o \in Options : Select(o)) \/ Arrives \/ Succeeds \/ Declined \/ IsCancelled

----------------------------------------------------------------------------
(* Polls and time: _handle_coordinator_update                                 *)

Seen(connected, age) == connected \/ age < ControlGrace

\* _reconcile_with_device, _expire_optimistic_value, and what going unavailable drops.
Reconciles ==
    \/ Seen(online, down) /\ ~Seen(online', down')
    \/ /\ choice = Unset
       /\ \/ deviceValue' # Unset /\ (deviceValue' = optimistic \/ optimisticAge' > MismatchTTL)
          \/ optimisticAge' >= OptimisticTTL

Updates(age) ==
    /\ optimistic' = IF Reconciles THEN Unset ELSE optimistic
    /\ IF choice = Unset /\ deviceValue' # Unset
       THEN held' = deviceValue' /\ heldAge' = 0
       ELSE held' = held /\ heldAge' = age
    /\ option' = CurrentOption

Polls ==
    /\ reply = "idle"
    /\ reply' \in {setting, Unset}        \* the payload may lack the key
    /\ pollAge' = 0 /\ early' = FALSE
    /\ UNCHANGED <<setting, online, deviceValue, down, optimistic, optimisticAge, heldVars,
                   commandVars, option>>

Answered ==
    /\ reply # "idle"
    /\ online' = TRUE /\ deviceValue' = reply /\ down' = 0
    /\ reply' = "idle" /\ pollAge' = 0
    /\ UNCHANGED <<setting, early, optimisticAge, commandVars>>
    /\ Updates(heldAge)

\* Home Assistant tells its listeners of the first failure only.
Unanswered ==
    /\ reply # "idle"
    /\ online' = FALSE /\ deviceValue' = Unset
    /\ reply' = "idle" /\ pollAge' = 0
    /\ UNCHANGED <<setting, early, down, optimisticAge, commandVars>>
    /\ IF online THEN Updates(heldAge) ELSE UNCHANGED <<optimistic, heldVars, option>>

Ages(age, bound) == IF age < bound THEN age + 1 ELSE age

\* The coordinator wakes its listeners when the grace period closes.
TimePasses ==
    /\ reply # "idle" => pollAge < PollTicks
    /\ pollAge' = IF reply = "idle" THEN 0 ELSE pollAge + 1
    /\ down' = IF online THEN 0 ELSE Ages(down, ControlGrace)
    /\ optimisticAge' = IF optimistic = Unset THEN 0 ELSE Ages(optimisticAge, OptimisticTTL)
    /\ UNCHANGED <<setting, reply, early, online, deviceValue, commandVars>>
    /\ IF Seen(online, down) /\ ~Seen(online', down')
       THEN Updates(Ages(heldAge, ControlGrace))
       ELSE heldAge' = Ages(heldAge, ControlGrace) /\ UNCHANGED <<optimistic, held, option>>

\* Somebody changes the setting on the charger or in its app.
SettingMoves ==
    /\ setting' \in Options \ {setting}
    /\ UNCHANGED <<linkVars, optimistic, optimisticAge, heldVars, commandVars, option>>

SelectNext ==
    Commands \/ Polls \/ Answered \/ Unanswered \/ TimePasses \/ SettingMoves

\* Time passes, polls are made and end, and commands return.
SelectFairSpec ==
    /\ SelectInit /\ [][SelectNext]_selectVars
    /\ WF_selectVars(Polls) /\ WF_selectVars(Answered \/ Unanswered)
    /\ WF_selectVars(TimePasses) /\ WF_selectVars(Succeeds \/ Declined)

----------------------------------------------------------------------------
(* Properties                                                                 *)

\* The chosen option shows while its command lasts, unless the select went
\* unavailable in between or two minutes have passed (select.py:104-122).
ChoiceShows ==
    [][ choice' # Unset /\ optimistic' # Unset /\ optimisticAge' < OptimisticTTL
        => option' = choice' ]_selectVars

\* An answer the charger gave before it accepted the option does not cover it
\* (common_base.py:432-438).
OptionDoesNotSnapBack ==
    [][ early /\ Answered /\ Seen(online, down) /\ choice = Unset /\ optimistic # Unset
        => option' = optimistic ]_selectVars

\* Whatever became of the commands, cancelled ones that were never sent included,
\* the select comes to show the charger's setting for good, once it answers and
\* nobody changes it any more (select.py:111-115, common_base.py:442-451).
OptionConverges ==
    (/\ <>[][~Commands /\ ~SettingMoves /\ ~Unanswered]_selectVars
     /\ <>[][Answered => reply # Unset]_selectVars) => <>[](option = setting)

\* The select shows the choice, the accepted option, and in the end the truth.
OptionIsTrue == ChoiceShows /\ OptionDoesNotSnapBack /\ OptionConverges
=============================================================================
