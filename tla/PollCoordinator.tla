--------------------------- MODULE PollCoordinator ---------------------------
(***************************************************************************)
(* EveusUpdater as a poller: which refresh may ask the charger, what a     *)
(* good, a failed and a rejected poll leave behind, the cadence, the       *)
(* offline backoff, the outage clock with its two grace windows, and the   *)
(* refresh bursts after commands and transitions.                          *)
(*                                                                         *)
(* Home Assistant's DataUpdateCoordinator is modelled as far as src/ leans *)
(* on it: any refresh withdraws the scheduled one when it starts and       *)
(* schedules the next when it ends, refreshes of different origin overlap, *)
(* and listeners are notified of every success and of the first failure.   *)
(*                                                                         *)
(* Time passes in Ticks; whatever is due happens before the next.  A       *)
(* definition called Action_Fault is a faulty variant of Action, kept to   *)
(* show that the properties notice it; nothing else uses it.               *)
(***************************************************************************)
EXTENDS Integers

CONSTANTS
    Refreshes,        \* where refreshes come from: the schedule, a refresh
                      \* timer, and the refresh button
    ChargingInterval, IdleInterval, OfflineInterval, RetryInterval,
    ControlGrace, AvailabilityGrace,
    Backoff,          \* _MAX_OFFLINE_BACKOFF
    RefreshDelays,    \* POST_COMMAND_REFRESH_DELAYS
    PollTime,         \* a poll's request timeout
    OfflineFailures,  \* likely offline: more failures in a row than this,
    OfflineAfter      \* and a longer time since the last good poll

ASSUME PollAssumption ==
    /\ {"scheduled", "burst"} \subseteq Refreshes
    /\ Refreshes \subseteq {"scheduled", "burst", "forced"}
    /\ {ChargingInterval, IdleInterval, OfflineInterval, RetryInterval,
        ControlGrace, AvailabilityGrace, Backoff, PollTime,
        OfflineFailures, OfflineAfter} \subseteq Nat \ {0}
    /\ RefreshDelays \subseteq Nat \ {0}
    /\ RetryInterval < ChargingInterval
    /\ ChargingInterval < IdleInterval /\ ChargingInterval < OfflineInterval
    /\ RetryInterval + PollTime < ControlGrace
    /\ ControlGrace < AvailabilityGrace
    /\ Backoff < OfflineInterval

VARIABLES
    stage,          \* each refresh: "idle", "waiting" for the lock, "asked"
    waited,         \* how long the poll under way has taken
    due,            \* time to the scheduled refresh
    lastUpdateOK,   \* the coordinator's last_update_success
    hasData,        \* data is not None
    available,      \* _device_available
    succeeded,      \* _ever_succeeded
    failures,       \* _consecutive_failures
    sinceGood,      \* time since the last good poll, up to OfflineAfter + 1
    outage,         \* the outage clock, up to AvailabilityGrace
    armed,          \* the grace timers not yet fired
    backoff,        \* time to _next_poll_attempt
    probation,      \* _offline_probation
    interval,       \* update_interval
    before,         \* _interval_before_retry
    observed,       \* _last_observed_state
    burstAllowed,   \* TRANSITION_BURST_MIN_GAP has passed since the last burst
    timers,         \* the pending refresh timers
    unload,         \* "no", "begun" (_shutting_down), "done"
    shown,          \* the windows whose entities show as available
    earned,         \* good polls in a row since the charger was likely offline,
                    \* up to the two it takes
    rejected        \* a 401 stopped the schedule

haVars == <<stage, waited, due, lastUpdateOK, hasData>>
clockVars == <<sinceGood, outage, armed, backoff>>
paceVars == <<available, succeeded, failures, probation, interval, before, earned, rejected>>
burstVars == <<observed, burstAllowed, timers>>
vars == <<haVars, clockVars, paceVars, burstVars, unload, shown>>

Windows == {ControlGrace, AvailabilityGrace}
None == -1
Up == unload = "no"

Asking == {r \in Refreshes : stage[r] = "asked"}

\* visible_within
VisibleAt(clock, ever) == {g \in Windows : ever /\ (clock = None \/ clock < g)}
Visible == VisibleAt(outage, succeeded)

LikelyOffline == failures > OfflineFailures /\ sinceGood > OfflineAfter

Init ==
    /\ stage = [r \in Refreshes |-> "idle"] /\ waited = 0
    /\ due = 0
    /\ lastUpdateOK = TRUE
    /\ hasData = FALSE
    /\ available = TRUE
    /\ succeeded = FALSE
    /\ failures = 0
    /\ sinceGood = OfflineAfter + 1
    /\ outage = None /\ armed = {}
    /\ backoff = 0
    /\ probation = 0
    /\ interval = ChargingInterval /\ before = None
    /\ observed = "none" /\ burstAllowed = TRUE
    /\ timers = {}
    /\ unload = "no"
    /\ shown = {}
    /\ earned = 2
    /\ rejected = FALSE

-------------------------------------------------------------------------------
(* Time.                                                                   *)

Elapse(t) == IF t > 0 THEN t - 1 ELSE t
UpTo(bound, t) == IF t < bound THEN t + 1 ELSE t

\* Windows that have just closed and whose timer is still to fire.
Closing == {g \in armed : outage >= g}

Urgent ==
    \/ due = 0 /\ Up /\ stage["scheduled"] = "idle"
    \/ 0 \in timers
    \/ Closing # {}
    \/ Asking # {} /\ waited = PollTime
    \/ \E r \in Refreshes : stage[r] = "waiting" /\ Asking = {}
    \/ unload = "begun"

Tick ==
    /\ ~Urgent
    /\ due' = Elapse(due)
    /\ waited' = IF Asking # {} THEN waited + 1 ELSE 0
    /\ sinceGood' = UpTo(OfflineAfter + 1, sinceGood)
    /\ outage' = IF outage = None THEN None ELSE UpTo(AvailabilityGrace, outage)
    /\ backoff' = Elapse(backoff)
    /\ timers' = {t - 1 : t \in timers}
    /\ UNCHANGED <<stage, lastUpdateOK, hasData, armed, paceVars, observed,
                   burstAllowed, unload, shown>>

BurstGapPasses ==
    /\ ~burstAllowed
    /\ burstAllowed' = TRUE
    /\ UNCHANGED <<haVars, clockVars, paceVars, observed, timers, unload, shown>>

\* _grace_closed: the listeners look at their windows.
GraceClosed ==
    /\ Closing # {}
    /\ \E g \in Closing : armed' = armed \ {g}
    /\ shown' = IF Up THEN Visible ELSE shown
    /\ UNCHANGED <<haVars, sinceGood, outage, backoff, paceVars,
                   burstVars, unload>>

-------------------------------------------------------------------------------
(* Refreshes.                                                              *)

\* The coordinator ends a refresh: the listeners hear of a success, and of a
\* failure that follows a success; the next refresh is scheduled.
EndRefresh(r, ok, clock, ever) ==
    /\ stage' = [stage EXCEPT ![r] = "idle"]
    /\ lastUpdateOK' = ok
    /\ shown' = IF Up /\ (ok \/ lastUpdateOK) THEN VisibleAt(clock, ever) ELSE shown
    /\ due' = IF Up THEN interval' ELSE None

\* Where a refresh comes from.
Called(r) ==
    /\ stage[r] = "idle"
    /\ \/ r = "scheduled" /\ due = 0 /\ Up /\ UNCHANGED timers
       \/ r = "burst" /\ 0 \in timers /\ Up /\ timers' = timers \ {0}
       \/ r = "forced" /\ Up /\ UNCHANGED timers

Bypass(r) == r = "forced" \/ \E s \in Refreshes : s = "forced" /\ stage[s] # "idle"

\* _async_update_data: the offline backoff skips the poll.
Skip(r) ==
    /\ Called(r)
    /\ backoff > 0
    /\ ~Bypass(r)
    /\ UNCHANGED interval
    /\ EndRefresh(r, FALSE, outage, succeeded)
    /\ UNCHANGED <<waited, hasData, clockVars, available, succeeded, failures,
                   probation, before, earned, rejected, observed, burstAllowed, unload>>

\* A poll is under way: the refresh hands back what is held, or waits for the
\* lock when nothing is.
Join(r) ==
    /\ Called(r)
    /\ backoff = 0 \/ Bypass(r)
    /\ Asking # {}
    /\ IF hasData
       THEN UNCHANGED interval /\ EndRefresh(r, TRUE, outage, succeeded)
       ELSE /\ stage' = [stage EXCEPT ![r] = "waiting"]
            /\ due' = None
            /\ UNCHANGED <<interval, lastUpdateOK, shown>>
    /\ UNCHANGED <<waited, hasData, clockVars, available, succeeded, failures,
                   probation, before, earned, rejected, observed, burstAllowed, unload>>

\* The poll asks the charger.
Ask(r) ==
    /\ \/ Called(r) /\ (backoff = 0 \/ Bypass(r))
       \/ stage[r] = "waiting" /\ UNCHANGED timers
    /\ Asking = {}
    /\ stage' = [stage EXCEPT ![r] = "asked"]
    /\ waited' = 0
    /\ due' = None
    /\ UNCHANGED <<lastUpdateOK, hasData, clockVars, paceVars, observed,
                   burstAllowed, unload, shown>>

\* A refresh timer that fires while the entry unloads starts nothing.
TimerIgnored ==
    /\ 0 \in timers
    /\ ~Up
    /\ timers' = timers \ {0}
    /\ UNCHANGED <<haVars, clockVars, paceVars, observed, burstAllowed,
                   unload, shown>>

\* One that fires during the poll an earlier one started is handed back the data.
TimerJoins ==
    /\ 0 \in timers
    /\ Up /\ hasData
    /\ stage["burst"] # "idle"
    /\ timers' = timers \ {0}
    /\ lastUpdateOK' = TRUE
    /\ shown' = Visible
    /\ due' = interval
    /\ UNCHANGED <<stage, waited, hasData, clockVars, paceVars, observed,
                   burstAllowed, unload>>

-------------------------------------------------------------------------------
(* Outcomes of a poll.                                                     *)

\* What a charger reports: at rest, in a session, or a state outside CHARGING_STATES,
\* without or with power or current measured.
Activities == {"idle", "charging", "odd", "powered"}

\* _tune_update_interval
Tuned(activity, offline) ==
    IF offline \/ activity = "odd" THEN OfflineInterval
    ELSE IF activity \in {"charging", "powered"} THEN ChargingInterval
    ELSE IdleInterval

\* _schedule_post_command_refresh: all pending refreshes make way.
Burst == timers' = RefreshDelays

\* _maybe_burst_on_transition
ObserveState(activity) ==
    /\ observed' = IF activity \in {"odd", "powered"} THEN observed ELSE activity
    /\ IF observed \notin {"none", observed'} /\ Up /\ burstAllowed
       THEN Burst /\ burstAllowed' = FALSE
       ELSE UNCHANGED <<timers, burstAllowed>>

Probation(wasOffline) ==
    IF wasOffline THEN 2 ELSE IF probation > 0 THEN probation - 1 ELSE 0

StopOutageClock_TimersOnly == UNCHANGED outage /\ armed' = {}

\* _stop_outage_clock
StopOutageClock == outage' = None /\ armed' = {}

\* _record_success, and the coordinator's end of the refresh.
SucceedWith(r, activity) ==
    /\ stage[r] = "asked"
    /\ hasData' = TRUE
    /\ available' = TRUE /\ succeeded' = TRUE
    /\ failures' = 0
    /\ sinceGood' = 0
    /\ StopOutageClock
    /\ backoff' = 0
    /\ probation' = Probation(LikelyOffline)
    /\ interval' = Tuned(activity, LikelyOffline \/ probation' > 0)
    /\ before' = None
    /\ ObserveState(activity)
    /\ earned' = IF earned < 2 THEN earned + 1 ELSE 2
    /\ rejected' = FALSE
    /\ EndRefresh(r, TRUE, outage', TRUE)
    /\ UNCHANGED <<waited, unload>>

Succeed(r) == \E activity \in Activities : SucceedWith(r, activity)

StartOutageClock_NoTimers ==
    /\ outage' = IF outage = None THEN 0 ELSE outage
    /\ armed' = IF outage = None THEN {AvailabilityGrace} ELSE armed

\* _start_outage_clock: the first failure starts it.
StartOutageClock ==
    /\ outage' = IF outage = None THEN 0 ELSE outage
    /\ armed' = IF outage = None THEN Windows ELSE armed

RetrySoon_NeverRestored(likely) ==
    /\ before' = IF failures' = 1 THEN interval ELSE before
    /\ interval' = IF likely THEN OfflineInterval
                   ELSE IF failures' = 1 THEN RetryInterval
                   ELSE interval

\* A first miss is retried soon; a second restores the cadence it replaced.
RetrySoon(likely) ==
    /\ before' = IF failures' = 1 THEN interval ELSE None
    /\ interval' = IF likely THEN OfflineInterval
                   ELSE IF failures' = 1 THEN RetryInterval
                   ELSE IF before # None THEN before
                   ELSE interval

\* _record_failure
Fail(r) ==
    /\ stage[r] = "asked"
    /\ failures' = IF failures <= OfflineFailures THEN failures + 1 ELSE failures
    /\ available' = FALSE
    /\ StartOutageClock
    /\ probation' = IF probation > 0 THEN 2 ELSE 0
    /\ LET likely == failures' > OfflineFailures /\ sinceGood > OfflineAfter
       IN  /\ RetrySoon(likely)
           /\ backoff' = IF likely THEN Backoff ELSE backoff
           /\ earned' = IF likely \/ earned < 2 THEN 0 ELSE earned
    /\ EndRefresh(r, FALSE, outage', succeeded)
    /\ UNCHANGED <<waited, hasData, sinceGood, succeeded, rejected, burstVars, unload>>

\* _reject_credentials: reauthentication starts, the schedule stops.
Reject(r) ==
    /\ stage[r] = "asked"
    /\ available' = FALSE
    /\ StartOutageClock
    /\ rejected' = TRUE
    /\ stage' = [stage EXCEPT ![r] = "idle"]
    /\ lastUpdateOK' = FALSE
    /\ shown' = IF Up /\ lastUpdateOK THEN VisibleAt(outage', succeeded) ELSE shown
    /\ UNCHANGED <<waited, due, hasData, sinceGood, backoff, succeeded, failures,
                   probation, interval, before, earned, burstVars, unload>>

-------------------------------------------------------------------------------
(* Commands and unload.                                                    *)

\* EveusUpdater.send_command succeeded.
CommandAccepted ==
    /\ IF Up THEN Burst ELSE UNCHANGED timers
    /\ UNCHANGED <<haVars, clockVars, paceVars, observed, burstAllowed,
                   unload, shown>>

\* async_shutdown up to its await of the meter flush, and from there on.
BeginUnload ==
    /\ unload = "no"
    /\ unload' = "begun"
    /\ due' = None
    /\ UNCHANGED <<stage, waited, lastUpdateOK, hasData, clockVars, paceVars,
                   burstVars, shown>>

FinishUnload ==
    /\ unload = "begun"
    /\ unload' = "done"
    /\ timers' = {}
    /\ StopOutageClock
    /\ UNCHANGED <<haVars, sinceGood, backoff, paceVars, observed,
                   burstAllowed, shown>>

RefreshNext == \E r \in Refreshes :
    Skip(r) \/ Join(r) \/ Ask(r) \/ Succeed(r) \/ Fail(r) \/ Reject(r)

Next ==
    \/ Tick \/ BurstGapPasses
    \/ GraceClosed \/ RefreshNext \/ TimerIgnored \/ TimerJoins
    \/ CommandAccepted \/ BeginUnload \/ FinishUnload

Spec == Init /\ [][Next]_vars

(***************************************************************************)
(* Time passes, the event loop runs what is due, and a poll ends: every    *)
(* request has a timeout.                                                  *)
(***************************************************************************)
FairSpec ==
    /\ Spec
    /\ WF_vars(Tick) /\ WF_vars(GraceClosed) /\ WF_vars(TimerIgnored) /\ WF_vars(TimerJoins)
    /\ WF_vars(FinishUnload)
    /\ \A r \in {"scheduled", "burst"} : WF_vars(Skip(r) \/ Join(r) \/ Ask(r))
    /\ \A r \in Refreshes :
          /\ WF_vars(stage[r] = "waiting" /\ Ask(r))
          /\ WF_vars(Succeed(r) \/ Fail(r) \/ Reject(r))

-------------------------------------------------------------------------------
\* What the entities show is what their grace window says, although nobody polls
\* them: each window that closes, and each recovery, reaches the listeners.
ShownIsTrue == Up /\ ~Urgent => shown = Visible

\* A single missed poll hides no entity, not even a control: the retry is over
\* before the shorter window closes, whatever else asks in between.
SingleMissIsInvisible ==
    Up /\ succeeded /\ failures = 1 /\ ~rejected => Visible = Windows

\* Entities appear and vanish when their grace window says, and only then.
AvailabilityIsTrue == ShownIsTrue /\ SingleMissIsInvisible

\* The quick retry is for one miss; it never becomes the cadence of an outage.
RetryIsTemporary == interval = RetryInterval => failures = 1 /\ before # None

\* After the charger was likely offline the fast cadence takes two good polls in
\* a row, quick retries and failed polls in between included.
FastCadenceIsEarned == interval = ChargingInterval => earned >= 2

\* The charger is polled fast for a reason: one miss to be retried, or two answers.
CadenceIsEarned == RetryIsTemporary /\ FastCadenceIsEarned

\* Nothing polls an entry that was unloaded: a command or a poll that ends late
\* leaves no refresh timer behind.
NoRefreshTimerAfterUnload == unload = "done" => timers = {}

\* What polls the charger next is there for a reason.
TimersAreEarned == CadenceIsEarned /\ NoRefreshTimerAfterUnload

\* test_recovery_and_shutdown_cancel_pending_grace_timers: after async_shutdown
\* every grace timer is cancelled.
NoGraceTimerAfterUnload == unload = "done" => armed = {}

\* "The deadline only dedupes extra attempts inside a cycle; it never defers past
\* the next scheduled tick": a refresh the backoff skips leaves that tick its time.
BackoffNeverDefersTheTick == [][\A r \in Refreshes : Skip(r) => due' <= due]_vars

\* The button's error and EveusUpdater.available rely on it: where the coordinator
\* says its last update succeeded, the charger answered its last poll.
SuccessMeansAnswered == lastUpdateOK => available

\* A charger that answers every poll from some time on is shown by every entity
\* for good, whatever backoff, probation or missed polls came before.
Reappears ==
    /\ <>[][\A r \in Refreshes : ~Fail(r)]_vars
    /\ []Up /\ []~rejected
    => <>[](shown = Windows)

===============================================================================
