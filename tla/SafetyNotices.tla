----------------------------- MODULE SafetyNotices -----------------------------
(***************************************************************************)
(* safety.EveusSafetyManager for one policy of POLICIES: when a dangerous  *)
(* reading of the charger becomes a Repairs notice, when the notice goes,  *)
(* and what becomes of the user's dismissal when the danger returns,       *)
(* across restarts of Home Assistant.                                      *)
(*                                                                         *)
(* A reading is what evaluate_policy_signals sees of one payload: whether  *)
(* it carries one of the policy's fault codes, and where the policy's own  *)
(* telemetry lies, "between" being the band of its hysteresis and "absent" *)
(* a field this firmware does not provide.                                 *)
(*                                                                         *)
(* Home Assistant's issue registry outlives the entry and is not lost.     *)
(* A definition called Name_Fault is a faulty variant of Name, kept to     *)
(* show that the properties notice it; nothing else uses it.               *)
(***************************************************************************)
EXTENDS Naturals

CONSTANTS
    Policies     \* [codes, levels, latched, trigger, recover]: SafetyPolicy

Levels == {"high", "between", "low", "unknown", "absent"}

ASSUME SafetyAssumption ==
    \A p \in Policies :
        /\ p.codes \in BOOLEAN /\ p.latched \in BOOLEAN
        /\ p.levels \subseteq Levels
        /\ p.trigger \in Nat \ {0} /\ p.recover \in Nat \ {0}

VARIABLES
    policy,         \* the policy at hand
    serialised,     \* Home Assistant makes refreshes wait for each other (2025.11)
    signals,        \* what the last good poll read, [fault, level]
    up,             \* the entry is set up
    issue,          \* the notice in Repairs: "none", "shown", "dismissed"
    triggerStreak, recoveryStreak,
    memory,         \* recovered_since_raised
    memoryStoreUp,  \* _store is usable
    memoryFile,     \* recovered_since_raised in the store
    saving,         \* a delayed save is due
    \* What the properties look back on, counted from the readings alone:
    highs,          \* triggering readings in a row
    goods,          \* recovered readings in a row
    closed,         \* the notice's danger has recovered since it was raised
    lost            \* a crash or a broken store may have lost what memory was since

givenVars == <<policy, serialised>>
managerVars == <<triggerStreak, recoveryStreak, memory, memoryStoreUp, saving>>
safetyGhosts == <<highs, goods, closed, lost>>
safetyVars == <<givenVars, signals, up, issue, managerVars, memoryFile, safetyGhosts>>

UpTo(n, bound) == IF n < bound THEN n + 1 ELSE bound

-------------------------------------------------------------------------------
(* The signals of one reading: "yes", "no", or "unknown".                  *)

Matches(r) == policy.codes /\ r.fault = "match"

\* A fault code says enough; else the telemetry decides, if the policy has any.
Trigger(r) ==
    IF Matches(r) \/ r.level = "high" THEN "yes"
    ELSE IF r.level = "unknown" \/ (policy.levels = {} /\ r.fault = "unknown") THEN "unknown"
    ELSE "no"

Recovered(r) ==
    IF Matches(r) \/ r.level \in {"high", "between"} THEN "no"
    ELSE IF r.level = "unknown" \/ (policy.codes /\ r.fault = "unknown") THEN "unknown"
    ELSE "yes"

\* A policy without telemetry reads none, one without codes has no fault to match.
Readings ==
    [fault : IF policy.codes THEN {"match", "other", "unknown"} ELSE {"other"},
     level : IF policy.levels = {} THEN {"none"} ELSE policy.levels]

-------------------------------------------------------------------------------
\* _persist
Save == saving' = (saving \/ memoryStoreUp)

\* A dismissed notice whose danger has recovered since belongs to a closed incident.
Stale == issue = "dismissed" /\ memory

Raise ==
    IF issue = "none" \/ Stale
    THEN /\ issue' = "shown"
         /\ memory' = FALSE
         /\ IF memory THEN Save ELSE UNCHANGED saving
    ELSE UNCHANGED <<issue, memory, saving>>

\* The condition is present: debounced, unless a fault code says it.
Danger(r) ==
    /\ triggerStreak' = IF Matches(r) THEN policy.trigger ELSE UpTo(triggerStreak, policy.trigger)
    /\ recoveryStreak' = 0
    /\ IF triggerStreak' >= policy.trigger THEN Raise ELSE UNCHANGED <<issue, memory, saving>>

Lapsed_Keeps(r) == triggerStreak

\* An unknown reading leaves the streak as it is.
Lapsed(r) == IF Trigger(r) = "no" THEN 0 ELSE triggerStreak

RecoveredFor(r) ==
    CASE Recovered(r) = "yes" -> UpTo(recoveryStreak, policy.recover)
      [] Recovered(r) = "no" -> 0
      [] OTHER -> recoveryStreak

Clears_AtRecovery == (~policy.latched \/ issue = "dismissed") /\ ~memory

\* A latched notice also waits for the user's dismissal.
Clears == ~policy.latched \/ issue = "dismissed"

\* The condition is absent or unknown.
Calm(r) ==
    LET streak == RecoveredFor(r)
        confirmed == issue # "none" /\ streak >= policy.recover
    IN  IF confirmed /\ Clears
        THEN /\ issue' = "none"
             /\ triggerStreak' = 0 /\ recoveryStreak' = 0
             /\ memory' = FALSE
             /\ IF memory THEN UNCHANGED saving ELSE Save
        ELSE /\ UNCHANGED issue
             /\ triggerStreak' = Lapsed(r)
             /\ recoveryStreak' = IF issue = "none" THEN 0 ELSE streak
             /\ memory' = (memory \/ confirmed)
             /\ IF confirmed /\ ~memory THEN Save ELSE UNCHANGED saving

\* _process_policy
Process(r) == IF Trigger(r) = "yes" THEN Danger(r) ELSE Calm(r)

-------------------------------------------------------------------------------
\* No notice was raised or cleared in this step.
SameNotice == issue' \notin {"none", "shown"} \ {issue}

\* What the readings themselves say, whatever the manager makes of them.
Observe(r) ==
    LET recovery == CASE Recovered(r) = "yes" -> UpTo(goods, policy.recover)
                      [] Recovered(r) = "no" -> 0
                      [] OTHER -> goods
    IN  /\ highs' = CASE Trigger(r) = "yes" -> UpTo(highs, policy.trigger)
                      [] Trigger(r) = "no" -> 0
                      [] OTHER -> highs
        /\ goods' = recovery
        /\ closed' = (SameNotice /\ (closed \/ recovery = policy.recover))
        /\ lost' = (lost /\ SameNotice)

SafetyInit ==
    /\ policy \in Policies /\ serialised \in BOOLEAN
    /\ signals \in {r \in Readings : Trigger(r) = "no" /\ Recovered(r) = "yes"}
    /\ up = TRUE /\ issue = "none"
    /\ triggerStreak = 0 /\ recoveryStreak = 0
    /\ memory = FALSE /\ memoryFile = FALSE /\ memoryStoreUp = TRUE /\ saving = FALSE
    /\ highs = 0 /\ goods = 0
    /\ closed = FALSE /\ lost = FALSE

\* process, after a good poll; after any other it does nothing.
Poll(r) ==
    /\ up
    /\ signals' = r
    /\ Process(r)
    /\ Observe(r)
    /\ UNCHANGED <<givenVars, up, memoryStoreUp, memoryFile>>

\* A refresh that finds a poll under way hands back the held payload, and the
\* listeners run again over it.
Replay ==
    /\ up /\ ~serialised
    /\ Process(signals)
    /\ closed' = (closed /\ SameNotice)
    /\ lost' = (lost /\ SameNotice)
    /\ UNCHANGED <<givenVars, signals, up, memoryStoreUp, memoryFile, highs, goods>>

\* Ignore, in Repairs.
Dismiss ==
    /\ issue = "shown"
    /\ issue' = "dismissed"
    /\ UNCHANGED <<givenVars, signals, up, managerVars, memoryFile, highs, goods, closed, lost>>

\* Taking Ignore back.
Restore ==
    /\ issue = "dismissed"
    /\ issue' = "shown"
    /\ UNCHANGED <<givenVars, signals, up, managerVars, memoryFile, highs, goods, closed, lost>>

\* The delayed save writes what is remembered when it runs.
Write ==
    /\ up /\ saving
    /\ memoryFile' = memory
    /\ saving' = FALSE
    /\ UNCHANGED <<givenVars, signals, up, issue, triggerStreak, recoveryStreak, memory,
                   memoryStoreUp, safetyGhosts>>

Down ==
    /\ up
    /\ up' = FALSE
    /\ saving' = FALSE
    /\ highs' = 0 /\ goods' = 0
    /\ UNCHANGED <<givenVars, signals, issue, triggerStreak, recoveryStreak, memory, memoryStoreUp,
                   closed>>

\* A reload, or Home Assistant stops: saves that are due are made.
Stop ==
    /\ Down
    /\ memoryFile' = IF saving THEN memory ELSE memoryFile
    /\ lost' = (lost \/ ~memoryStoreUp)

HaDies ==
    /\ Down
    /\ UNCHANGED memoryFile
    /\ lost' = (lost \/ saving \/ ~memoryStoreUp)

NewManager_Forgets ==
    /\ ~up
    /\ up' = TRUE
    /\ memoryStoreUp' = TRUE /\ memory' = FALSE
    /\ triggerStreak' = 0 /\ recoveryStreak' = 0
    /\ UNCHANGED <<givenVars, signals, issue, memoryFile, saving, safetyGhosts>>

\* A new manager: async_load restores the memory, the streaks begin anew.
NewManager ==
    /\ ~up
    /\ up' = TRUE
    /\ memoryStoreUp' \in BOOLEAN
    /\ memory' = (memoryStoreUp' /\ memoryFile)
    /\ triggerStreak' = 0 /\ recoveryStreak' = 0
    /\ lost' = (lost \/ ~memoryStoreUp')
    /\ UNCHANGED <<givenVars, signals, issue, memoryFile, saving, highs, goods, closed>>

SafetyNext ==
    \/ \E r \in Readings : Poll(r)
    \/ Replay \/ Dismiss \/ Restore \/ Write \/ Stop \/ HaDies \/ NewManager

SafetySpec == SafetyInit /\ [][SafetyNext]_safetyVars

\* The charger is polled on and the entry is set up again.
SafetyFairSpec == SafetySpec /\ WF_safetyVars(Poll(signals)) /\ WF_safetyVars(NewManager)

-------------------------------------------------------------------------------
\* A notice is raised on a fault code, or on enough readings in a row, each counted
\* once where refreshes wait for each other.
RaisedOnEvidence ==
    [][ serialised /\ issue = "none" /\ issue' # "none"
        => Matches(signals') \/ highs' = policy.trigger ]_safetyVars

\* A notice goes only on enough recovered readings in a row, bands and faults between
\* them starting the count again, and a latched one only once dismissed.  (Again where
\* refreshes wait for each other.)
ClearedOnEvidence ==
    [][ serialised /\ issue # "none" /\ issue' = "none"
        => goods' = policy.recover /\ (policy.latched => issue = "dismissed") ]_safetyVars

\* No notice is raised or cleared on less evidence than its policy asks for.
MovedOnEvidence == RaisedOnEvidence /\ ClearedOnEvidence

\* A danger that returns after it has recovered is seen, although the notice of the
\* earlier one was dismissed, in this run or before: no dismissal hides a new incident.
NewIncidentIsSeen ==
    [][ /\ \E r \in Readings : Poll(r)
        /\ issue = "dismissed" /\ closed /\ ~lost
        /\ Trigger(signals') = "yes" /\ (Matches(signals') \/ highs' = policy.trigger)
        => issue' = "shown" ]_safetyVars

\* "an ongoing fault dismissed while active (never recovered) keeps its dismissal": it
\* holds until the notice's danger has recovered, through restarts.
DismissalOutlivesRestart ==
    [][ (\E r \in Readings : Poll(r)) /\ issue = "dismissed" /\ ~closed /\ ~lost
        => issue' # "shown" ]_safetyVars

\* A danger that stays is raised for good, whatever the notice went through before.
DangerIsRaised == <>[](up /\ Trigger(signals) = "yes") => <>[](issue # "none")

\* A danger that stays recovered leaves no dismissed notice behind, nor any that clears
\* by itself, once the user leaves it as it is.
RecoveryClears ==
    <>[](up /\ Recovered(signals) = "yes") /\ <>[][~Dismiss /\ ~Restore]_safetyVars =>
        <>[](issue # "dismissed" /\ (~policy.latched => issue = "none"))

\* Left alone, notices come to what the readings say.
NoticesSettle == DangerIsRaised /\ RecoveryClears
===============================================================================
