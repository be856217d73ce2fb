------------------------------ MODULE PollProofs ------------------------------
(***************************************************************************)
(* What is fetched from the charger over its two interfaces. It is polled  *)
(* fast for a reason only, an unloaded entry is not polled, entities       *)
(* appear and vanish when their window says, and a single missed poll      *)
(* hides none of them. Of a REVE station, no poll shows a session that was *)
(* seen to end, the manual mode that is shown was seen, as far as clocks   *)
(* tell, and stands while its session does, and a schedule command, which  *)
(* writes the whole list, undoes nothing that the app saved before the     *)
(* command read it.                                                        *)
(***************************************************************************)
EXTENDS PollCoordinator, ReveManual, ReveSource, ReveSettings, TLAPS

-------------------------------------------------------------------------------
(***************************************************************************)
(* The poll coordinator. For any intervals, windows, backoff and timeouts  *)
(* in the order the source gives them. The inductive invariant has a part  *)
(* for each promise: what an earned cadence rests on; which windows still  *)
(* have a timer; and how far the outage clock has come while one miss is   *)
(* being retried.                                                          *)
(***************************************************************************)

Intervals == {ChargingInterval, IdleInterval, OfflineInterval, RetryInterval}

Types ==
    /\ stage \in [Refreshes -> {"idle", "waiting", "asked"}]
    /\ waited \in 0 .. PollTime
    /\ due \in Nat \cup {None}
    /\ failures \in 0 .. OfflineFailures + 1
    /\ sinceGood \in 0 .. OfflineAfter + 1
    /\ outage \in 0 .. AvailabilityGrace \cup {None}
    /\ armed \subseteq Windows /\ shown \subseteq Windows
    /\ backoff \in Nat
    /\ probation \in 0 .. 2 /\ earned \in 0 .. 2
    /\ interval \in Intervals /\ before \in Intervals \cup {None}
    /\ timers \subseteq Nat
    /\ unload \in {"no", "begun", "done"}

Flags == {lastUpdateOK, hasData, available, succeeded, burstAllowed, rejected} \subseteq BOOLEAN

\* Less than two good polls since a likely outage: it is not over, or on probation.
FastIsEarned ==
    /\ earned = 0 => LikelyOffline \/ probation = 2
    /\ earned = 1 => probation > 0
    /\ ChargingInterval \in {interval, before} => earned = 2

\* The cadence a retry replaced is not the retry's own.
RetryIsForOneMiss == RetryIsTemporary /\ before # RetryInterval

\* A window that has not closed has its timer; what is shown differs from what the
\* windows say only where a timer is still to fire.
WindowsAreWatched ==
    /\ outage # None => \A g \in Windows : outage < g => g \in armed
    /\ Visible \subseteq shown
    /\ shown \ Visible \subseteq Closing

\* One poll at a time asks the charger.
OneAsks == \A r, s \in Asking : r = s

\* While one miss is being retried, the outage is as old as the retry's delay and
\* the poll under way at most.
RetryIsSoon ==
    /\ failures = 0 => outage = None /\ backoff = 0
    /\ failures = 1 =>
        /\ outage # None /\ backoff = 0 /\ interval = RetryInterval
        /\ Asking # {} => outage <= RetryInterval + waited
        /\ Asking = {} => outage <= RetryInterval
        /\ (\A r \in Refreshes : stage[r] = "idle") =>
              due # None /\ outage + due <= RetryInterval

PollInv ==
    /\ Types
    /\ Flags
    /\ FastIsEarned
    /\ RetryIsForOneMiss
    /\ NoRefreshTimerAfterUnload
    /\ Up => WindowsAreWatched
    /\ OneAsks
    /\ Up /\ ~rejected => RetryIsSoon

USE DEF None, Windows, Intervals, VisibleAt, Visible, Asking, Up, LikelyOffline, Closing,
        Elapse, UpTo, Called, Bypass, EndRefresh, StartOutageClock, StopOutageClock, Burst,
        haVars, clockVars, paceVars, burstVars

\* The invariant holds at first.
LEMMA PollInvInit == Init => PollInv
<1> SUFFICES ASSUME Init PROVE PollInv
  OBVIOUS
<1> USE PollAssumption DEF Init
<1>1. Types
  BY DEF Types
<1>2. FastIsEarned /\ RetryIsForOneMiss /\ NoRefreshTimerAfterUnload
  BY DEF FastIsEarned, RetryIsForOneMiss, RetryIsTemporary, NoRefreshTimerAfterUnload
<1>3. WindowsAreWatched /\ OneAsks /\ RetryIsSoon
  BY DEF WindowsAreWatched, OneAsks, RetryIsSoon
<1>4. Flags
  BY DEF Flags
<1>. QED
  BY <1>1, <1>2, <1>3, <1>4 DEF PollInv

-------------------------------------------------------------------------------
(* Types.                                                                  *)

\* What a refresh leaves behind is of its type.
LEMMA RefreshKeepsTypes ==
    ASSUME Types, NEW r \in Refreshes,
           Skip(r) \/ Join(r) \/ Ask(r) \/ Succeed(r) \/ Fail(r) \/ Reject(r)
    PROVE  Types'
<1> USE PollAssumption DEF Types
<1>1. CASE Skip(r)
  BY <1>1 DEF Skip
<1>2. CASE Join(r)
  BY <1>2 DEF Join
<1>3. CASE Ask(r)
  <2>1. timers' \subseteq Nat
    BY <1>3 DEF Ask
  <2>2. stage' \in [Refreshes -> {"idle", "waiting", "asked"}] /\ waited' = 0 /\ due' = None
    BY <1>3 DEF Ask
  <2>. QED
    BY <1>3, <2>1, <2>2 DEF Ask
<1>4. CASE Succeed(r)
  <2>1. PICK activity \in Activities : SucceedWith(r, activity)
    BY <1>4 DEF Succeed
  <2>2. timers' \subseteq Nat
    BY <2>1 DEF SucceedWith, ObserveState
  <2>3. shown' \subseteq Windows
    BY <2>1 DEF SucceedWith
  <2>4. probation' \in 0 .. 2 /\ interval' \in Intervals
    BY <2>1 DEF SucceedWith, Probation, Tuned
  <2>. QED
    BY <2>1, <2>2, <2>3, <2>4 DEF SucceedWith
<1>5. CASE Fail(r)
  BY <1>5 DEF Fail, RetrySoon
<1>6. CASE Reject(r)
  BY <1>6 DEF Reject
<1>. QED
  BY <1>1, <1>2, <1>3, <1>4, <1>5, <1>6

\* The variables stay typed.
LEMMA TypesNext == Types /\ [Next]_vars => Types'
<1> SUFFICES ASSUME Types, [Next]_vars PROVE Types'
  OBVIOUS
<1>1. CASE RefreshNext
  BY <1>1, RefreshKeepsTypes DEF RefreshNext
<1> USE PollAssumption DEF Types
<1>2. CASE Tick
  BY <1>2 DEF Tick, Urgent
<1>3. CASE BurstGapPasses \/ GraceClosed \/ TimerIgnored \/ TimerJoins
  BY <1>3 DEF BurstGapPasses, GraceClosed, TimerIgnored, TimerJoins
<1>4. CASE CommandAccepted \/ BeginUnload \/ FinishUnload
  BY <1>4 DEF CommandAccepted, BeginUnload, FinishUnload
<1>5. CASE UNCHANGED vars
  BY <1>5 DEF vars
<1>. QED
  BY <1>1, <1>2, <1>3, <1>4, <1>5 DEF Next

\* The flags stay Booleans.
LEMMA FlagsNext == Flags /\ [Next]_vars => Flags'
<1> SUFFICES ASSUME Flags, [Next]_vars PROVE Flags'
  OBVIOUS
<1> USE DEF Flags
<1>1. ASSUME NEW r \in Refreshes, Skip(r) \/ Join(r) \/ Ask(r)
      PROVE  Flags'
  BY <1>1 DEF Skip, Join, Ask
<1>2. ASSUME NEW r \in Refreshes, Succeed(r) \/ Fail(r) \/ Reject(r)
      PROVE  Flags'
  BY <1>2 DEF Succeed, SucceedWith, ObserveState, Fail, Reject
<1>3. CASE Tick \/ BurstGapPasses \/ GraceClosed \/ TimerIgnored \/ TimerJoins
  BY <1>3 DEF Tick, BurstGapPasses, GraceClosed, TimerIgnored, TimerJoins
<1>4. CASE CommandAccepted \/ BeginUnload \/ FinishUnload \/ UNCHANGED vars
  BY <1>4 DEF CommandAccepted, BeginUnload, FinishUnload, vars
<1>. QED
  BY <1>1, <1>2, <1>3, <1>4 DEF Next, RefreshNext

-------------------------------------------------------------------------------
(* The cadence.                                                            *)

\* A good poll counts, and ends the probation it was on or begins one.
LEMMA SucceedKeepsCadence ==
    ASSUME Types, FastIsEarned, NEW r \in Refreshes, Succeed(r)
    PROVE  (FastIsEarned /\ RetryIsForOneMiss)'
<1> USE PollAssumption DEF Types
<1>1. PICK activity \in Activities : SucceedWith(r, activity)
  BY DEF Succeed
<1>2. interval' = Tuned(activity, LikelyOffline \/ probation' > 0) /\ before' = None
  BY <1>1 DEF SucceedWith
<1>3. probation' = Probation(LikelyOffline) /\ earned' = IF earned < 2 THEN earned + 1 ELSE 2
  BY <1>1 DEF SucceedWith
<1>4. interval' # RetryInterval /\ (interval' = ChargingInterval => probation' = 0)
  BY <1>2, <1>3 DEF Tuned, Probation
<1>5. earned' = 1 => probation' > 0
  BY <1>3 DEF FastIsEarned, Probation
<1>6. earned' \in 1 .. 2
  BY <1>3
<1>. QED
  BY <1>2, <1>4, <1>5, <1>6 DEF FastIsEarned, RetryIsForOneMiss, RetryIsTemporary

\* A failed one puts the quick retry in the place of the cadence, or gives it back.
LEMMA FailKeepsCadence ==
    ASSUME Types, FastIsEarned, RetryIsForOneMiss, NEW r \in Refreshes, Fail(r)
    PROVE  (FastIsEarned /\ RetryIsForOneMiss)'
<1> USE PollAssumption DEF Types
<1> DEFINE likely == failures' > OfflineFailures /\ sinceGood > OfflineAfter
<1>1. RetrySoon(likely) /\ earned' = IF likely \/ earned < 2 THEN 0 ELSE earned
  BY DEF Fail
<1>2. /\ failures' = IF failures <= OfflineFailures THEN failures + 1 ELSE failures
      /\ probation' = IF probation > 0 THEN 2 ELSE 0
      /\ sinceGood' = sinceGood
  BY DEF Fail
<1>3. RetryIsForOneMiss'
  BY <1>1, <1>2 DEF RetrySoon, RetryIsForOneMiss, RetryIsTemporary
<1>4. LikelyOffline' = likely /\ (LikelyOffline => likely) /\ (failures' = 1 => ~likely)
  BY <1>2
<1> HIDE DEF likely
<1>5. earned' = 0 => likely \/ probation' = 2
  BY <1>1, <1>2, <1>4 DEF FastIsEarned
<1>6. earned' # 1
  BY <1>1
<1>7. ChargingInterval \in {interval', before'} =>
          ~likely /\ ChargingInterval \in {interval, before}
  BY <1>1, <1>4 DEF RetrySoon
<1>8. ChargingInterval \in {interval', before'} => earned' = 2
  BY <1>1, <1>7 DEF FastIsEarned
<1>. QED
  BY <1>3, <1>4, <1>5, <1>6, <1>8 DEF FastIsEarned

\* Nothing else touches the cadence; time alone makes an outage more likely.
LEMMA CadenceNext ==
    Types /\ FastIsEarned /\ RetryIsForOneMiss /\ [Next]_vars
    => (FastIsEarned /\ RetryIsForOneMiss)'
<1> SUFFICES ASSUME Types, FastIsEarned, RetryIsForOneMiss, [Next]_vars
             PROVE  (FastIsEarned /\ RetryIsForOneMiss)'
  OBVIOUS
<1>1. ASSUME NEW r \in Refreshes, Succeed(r) \/ Fail(r)
      PROVE  (FastIsEarned /\ RetryIsForOneMiss)'
  BY <1>1, SucceedKeepsCadence, FailKeepsCadence
<1>2. ASSUME UNCHANGED <<failures, probation, interval, before, earned>>,
             LikelyOffline => LikelyOffline'
      PROVE  (FastIsEarned /\ RetryIsForOneMiss)'
  BY <1>2 DEF FastIsEarned, RetryIsForOneMiss, RetryIsTemporary
<1>3. ASSUME NEW r \in Refreshes, Skip(r) \/ Join(r) \/ Ask(r) \/ Reject(r)
      PROVE  (FastIsEarned /\ RetryIsForOneMiss)'
  BY <1>2, <1>3 DEF Skip, Join, Ask, Reject
<1>4. CASE Tick
  BY <1>2, <1>4, PollAssumption DEF Tick, Types
<1>5. CASE BurstGapPasses \/ GraceClosed \/ TimerIgnored \/ TimerJoins
  BY <1>2, <1>5 DEF BurstGapPasses, GraceClosed, TimerIgnored, TimerJoins
<1>6. CASE CommandAccepted \/ BeginUnload \/ FinishUnload \/ UNCHANGED vars
  BY <1>2, <1>6 DEF CommandAccepted, BeginUnload, FinishUnload, vars
<1>. QED
  BY <1>1, <1>3, <1>4, <1>5, <1>6 DEF Next, RefreshNext

\* A refresh timer is set while the entry is up, and all are gone when it is unloaded.
LEMMA TimersNext == NoRefreshTimerAfterUnload /\ [Next]_vars => NoRefreshTimerAfterUnload'
<1> SUFFICES ASSUME NoRefreshTimerAfterUnload, [Next]_vars, unload' = "done"
             PROVE  timers' = {}
  BY DEF NoRefreshTimerAfterUnload
<1>1. CASE FinishUnload
  BY <1>1 DEF FinishUnload
<1>2. CASE unload = "done" /\ timers = {}
  <2>1. ASSUME NEW r \in Refreshes, Succeed(r)
        PROVE  timers' = {}
    BY <1>2, <2>1 DEF Succeed, SucceedWith, ObserveState
  <2>2. ASSUME NEW r \in Refreshes, Skip(r) \/ Join(r) \/ Ask(r) \/ Fail(r) \/ Reject(r)
        PROVE  timers' = {}
    BY <1>2, <2>2 DEF Skip, Join, Ask, Fail, Reject
  <2>3. CASE Tick \/ BurstGapPasses \/ GraceClosed \/ TimerIgnored \/ TimerJoins
    BY <1>2, <2>3 DEF Tick, BurstGapPasses, GraceClosed, TimerIgnored, TimerJoins
  <2>4. CASE CommandAccepted \/ BeginUnload \/ UNCHANGED vars
    BY <1>2, <2>4 DEF CommandAccepted, BeginUnload, vars
  <2>. QED
    BY <1>1, <2>1, <2>2, <2>3, <2>4 DEF Next, RefreshNext
<1>3. CASE unload # "done" /\ ~FinishUnload
  <2>1. ASSUME NEW r \in Refreshes,
               Skip(r) \/ Join(r) \/ Ask(r) \/ Succeed(r) \/ Fail(r) \/ Reject(r)
        PROVE  unload' = unload
    BY <2>1 DEF Skip, Join, Ask, Succeed, SucceedWith, Fail, Reject
  <2>2. CASE Tick \/ BurstGapPasses \/ GraceClosed \/ TimerIgnored \/ TimerJoins
    BY <1>3, <2>2 DEF Tick, BurstGapPasses, GraceClosed, TimerIgnored, TimerJoins
  <2>3. CASE CommandAccepted \/ BeginUnload \/ UNCHANGED vars
    BY <1>3, <2>3 DEF CommandAccepted, BeginUnload, vars
  <2>. QED
    BY <1>3, <2>1, <2>2, <2>3 DEF Next, RefreshNext
<1>. QED
  BY <1>1, <1>2, <1>3 DEF NoRefreshTimerAfterUnload

-------------------------------------------------------------------------------
(* The windows.                                                            *)

\* The first failure closes no window and starts a timer for each; where the clock
\* runs already, it stays.
LEMMA OutageKeepsWindows ==
    ASSUME Types, WindowsAreWatched, StartOutageClock, succeeded' = succeeded,
           shown' = shown \/ shown' = VisibleAt(outage', succeeded)
    PROVE  WindowsAreWatched'
<1> USE PollAssumption DEF Types
<1>1. Visible' = Visible
  BY DEF StartOutageClock
<1>2. CASE outage = None
  <2>1. outage' = 0 /\ armed' = Windows /\ Closing = {}
    BY <1>2
  <2>. QED
    BY <1>1, <2>1 DEF WindowsAreWatched
<1>3. CASE outage # None
  <2>1. outage' = outage /\ armed' = armed /\ Closing' = Closing
    BY <1>3
  <2>. QED
    BY <1>1, <2>1 DEF WindowsAreWatched
<1>. QED
  BY <1>2, <1>3

\* When the clock ticks, a window that closes has its timer.
LEMMA TickKeepsWindows ==
    ASSUME Types, WindowsAreWatched, Tick
    PROVE  WindowsAreWatched'
<1> USE PollAssumption DEF Types
<1>1. /\ outage' = IF outage = None THEN None ELSE UpTo(AvailabilityGrace, outage)
      /\ armed' = armed /\ shown' = shown /\ succeeded' = succeeded
  BY DEF Tick
<1>2. CASE outage = None
  BY <1>1, <1>2 DEF WindowsAreWatched
<1>3. CASE outage # None
  <2>1. \A g \in Windows : outage < g /\ ~(outage' < g) => g \in Closing'
    BY <1>1, <1>3 DEF WindowsAreWatched
  <2>2. Visible' \subseteq Visible /\ Closing \subseteq Closing'
    BY <1>1, <1>3
  <2>3. Visible \ Visible' \subseteq Closing'
    BY <1>1, <1>3, <2>1
  <2>4. (outage # None => \A g \in Windows : outage < g => g \in armed)'
    BY <1>1, <1>3 DEF WindowsAreWatched
  <2>. QED
    BY <1>1, <2>2, <2>3, <2>4 DEF WindowsAreWatched
<1>. QED
  BY <1>2, <1>3

\* A timer fires, and the listeners look at their windows.
LEMMA FiredKeepsWindows ==
    ASSUME Types, WindowsAreWatched, Up, GraceClosed
    PROVE  WindowsAreWatched'
<1> USE PollAssumption DEF Types
<1>1. PICK g \in Closing : armed' = armed \ {g}
  BY DEF GraceClosed
<1>2. outage' = outage /\ succeeded' = succeeded /\ shown' = Visible
  BY DEF GraceClosed
<1>3. (outage # None => \A h \in Windows : outage < h => h \in armed)'
  BY <1>1, <1>2 DEF WindowsAreWatched
<1>. QED
  BY <1>2, <1>3 DEF WindowsAreWatched

\* While the entry is up every open window has its timer.
LEMMA WindowsNext ==
    Types /\ (Up => WindowsAreWatched) /\ [Next]_vars => (Up => WindowsAreWatched)'
<1> SUFFICES ASSUME Types, Up => WindowsAreWatched, [Next]_vars, Up'
             PROVE  WindowsAreWatched'
  OBVIOUS
<1>1. ASSUME NEW r \in Refreshes,
             Skip(r) \/ Join(r) \/ Ask(r) \/ Succeed(r) \/ Fail(r) \/ Reject(r)
      PROVE  Up
  BY <1>1 DEF Skip, Join, Ask, Succeed, SucceedWith, Fail, Reject
<1>2. Up /\ ~BeginUnload /\ ~FinishUnload
  <2>1. CASE Tick \/ BurstGapPasses \/ GraceClosed \/ TimerIgnored \/ TimerJoins
    BY <2>1 DEF Tick, BurstGapPasses, GraceClosed, TimerIgnored, TimerJoins,
           BeginUnload, FinishUnload
  <2>2. CASE CommandAccepted \/ UNCHANGED vars
    BY <2>2 DEF CommandAccepted, vars, BeginUnload, FinishUnload
  <2>3. ~BeginUnload /\ ~FinishUnload
    BY DEF BeginUnload, FinishUnload
  <2>. QED
    BY <1>1, <2>1, <2>2, <2>3 DEF Next, RefreshNext
<1>3. ASSUME UNCHANGED <<outage, armed, succeeded>>, shown' = shown \/ shown' = Visible
      PROVE  WindowsAreWatched'
  BY <1>2, <1>3 DEF WindowsAreWatched
<1>4. ASSUME NEW r \in Refreshes, Skip(r) \/ Join(r) \/ Ask(r)
      PROVE  WindowsAreWatched'
  BY <1>3, <1>4 DEF Skip, Join, Ask
<1>5. ASSUME NEW r \in Refreshes, Succeed(r)
      PROVE  WindowsAreWatched'
  <2>1. outage' = None /\ succeeded' = TRUE /\ shown' = Windows
    BY <1>2, <1>5 DEF Succeed, SucceedWith
  <2>. QED
    BY <2>1 DEF WindowsAreWatched
<1>6. ASSUME NEW r \in Refreshes, Fail(r) \/ Reject(r)
      PROVE  WindowsAreWatched'
  BY <1>2, <1>6, OutageKeepsWindows DEF Fail, Reject
<1>7. CASE BurstGapPasses \/ TimerIgnored \/ TimerJoins \/ CommandAccepted \/ UNCHANGED vars
  BY <1>3, <1>7 DEF BurstGapPasses, TimerIgnored, TimerJoins, CommandAccepted, vars
<1>. QED
  BY <1>2, <1>4, <1>5, <1>6, <1>7, TickKeepsWindows, FiredKeepsWindows DEF Next, RefreshNext

-------------------------------------------------------------------------------
(* The polls and the retry of a first miss.                                *)

\* One poll at a time: a refresh asks where nobody does.
LEMMA OneAsksNext == Types /\ OneAsks /\ [Next]_vars => OneAsks'
<1> SUFFICES ASSUME Types, OneAsks, [Next]_vars PROVE OneAsks'
  OBVIOUS
<1> USE DEF Types, OneAsks
<1>1. ASSUME NEW r \in Refreshes, Ask(r)
      PROVE  OneAsks'
  <2>1. \A s \in Refreshes \ {r} : stage'[s] = stage[s] /\ stage[s] # "asked"
    BY <1>1 DEF Ask
  <2>. QED
    BY <2>1
<1>2. ASSUME NEW r \in Refreshes, NEW t \in {"idle", "waiting"},
             stage' = [stage EXCEPT ![r] = t]
      PROVE  OneAsks'
  BY <1>2
<1>3. ASSUME NEW r \in Refreshes, Skip(r) \/ Join(r)
      PROVE  OneAsks'
  BY <1>2, <1>3 DEF Skip, Join
<1>4. ASSUME NEW r \in Refreshes, Succeed(r) \/ Fail(r) \/ Reject(r)
      PROVE  OneAsks'
  BY <1>2, <1>4 DEF Succeed, SucceedWith, Fail, Reject
<1>5. CASE Tick \/ BurstGapPasses \/ GraceClosed \/ TimerIgnored \/ TimerJoins
  BY <1>5 DEF Tick, BurstGapPasses, GraceClosed, TimerIgnored, TimerJoins
<1>6. CASE CommandAccepted \/ BeginUnload \/ FinishUnload \/ UNCHANGED vars
  BY <1>6 DEF CommandAccepted, BeginUnload, FinishUnload, vars
<1>. QED
  BY <1>1, <1>3, <1>4, <1>5, <1>6 DEF Next, RefreshNext

\* When time passes, either a poll is under way, and it has not timed out, or the
\* scheduled refresh is still to come.
LEMMA TickKeepsRetry ==
    ASSUME Types, RetryIsSoon, Up, Tick
    PROVE  RetryIsSoon'
<1> USE PollAssumption DEF Types
<1>1. UNCHANGED <<stage, failures, backoff, interval>> \/ failures # 1
  BY DEF Tick, RetryIsSoon
<1>2. stage' = stage /\ failures' = failures /\ interval' = interval /\ due' = Elapse(due)
  BY DEF Tick
<1>3. failures = 0 => outage' = None /\ backoff' = 0
  BY DEF Tick, RetryIsSoon
<1>4. CASE failures = 1 /\ Asking # {}
  <2>1. /\ {waited, outage, outage', RetryInterval} \subseteq Nat
        /\ waited' = waited + 1 /\ outage' <= outage + 1
    BY <1>4 DEF Tick, RetryIsSoon
  <2>2. outage <= RetryInterval + waited
    BY <1>4 DEF RetryIsSoon
  <2>3. outage' <= RetryInterval + waited' /\ outage' # None
    BY <2>1, <2>2
  <2>. QED
    BY <1>1, <1>2, <1>4, <2>3 DEF RetryIsSoon
<1>5. CASE failures = 1 /\ Asking = {}
  <2>1. \A r \in Refreshes : stage[r] = "idle"
    BY <1>5 DEF Tick, Urgent
  <2>2. due # 0 /\ due # None
    BY <1>5, <2>1 DEF Tick, Urgent, RetryIsSoon
  <2>3. /\ {due, outage, outage', due', RetryInterval} \subseteq Nat
        /\ due' = due - 1 /\ outage' <= outage + 1
    BY <1>2, <1>5, <2>2 DEF Tick, RetryIsSoon
  <2>4. outage + due <= RetryInterval
    BY <1>5, <2>1 DEF RetryIsSoon
  <2>5. outage' + due' <= RetryInterval /\ outage' <= RetryInterval
    BY <2>3, <2>4
  <2>6. outage' # None /\ due' # None
    BY <2>3
  <2>7. Asking' = {}
    BY <1>2, <1>5
  <2>. QED
    BY <1>1, <1>2, <1>5, <2>5, <2>6, <2>7 DEF RetryIsSoon
<1>. QED
  BY <1>2, <1>3, <1>4, <1>5 DEF RetryIsSoon

\* A poll that fails is retried soon, or is not the first to fail.
LEMMA FailKeepsRetry ==
    ASSUME Types, RetryIsSoon, Up, NEW r \in Refreshes, Fail(r)
    PROVE  RetryIsSoon'
<1> USE PollAssumption DEF Types
<1>1. CASE failures = 0
  <2>1. failures' = 1 /\ outage' = 0
    BY <1>1 DEF Fail, RetryIsSoon
  <2>2. interval' = RetryInterval /\ due' = RetryInterval
    BY <1>1, <2>1 DEF Fail, RetrySoon
  <2>3. backoff' = 0
    BY <1>1, <2>1 DEF Fail, RetryIsSoon
  <2>4. waited' \in Nat
    BY DEF Fail
  <2>. QED
    BY <2>1, <2>2, <2>3, <2>4 DEF RetryIsSoon
<1>2. CASE failures # 0
  BY <1>2 DEF Fail, RetryIsSoon
<1>. QED
  BY <1>1, <1>2

\* A refresh that is skipped, joins the poll under way or begins one leaves the outage
\* alone, and none is skipped while a first miss is retried.
LEMMA CallKeepsRetry ==
    ASSUME Types, RetryIsSoon, Up, NEW r \in Refreshes, Skip(r) \/ Join(r) \/ Ask(r)
    PROVE  RetryIsSoon'
<1> USE PollAssumption DEF Types
<1>1. UNCHANGED <<failures, outage, backoff, interval>>
  BY DEF Skip, Join, Ask
<1>2. CASE Skip(r)
  BY <1>1, <1>2 DEF Skip, RetryIsSoon
<1>3. CASE Join(r)
  <2>1. waited' = waited /\ Asking # {} /\ Asking' = Asking
    BY <1>3 DEF Join
  <2>. QED
    BY <1>1, <2>1 DEF RetryIsSoon
<1>4. CASE Ask(r)
  <2>1. waited' = 0 /\ stage'[r] = "asked" /\ Asking = {}
    BY <1>4 DEF Ask
  <2>. QED
    BY <1>1, <2>1 DEF RetryIsSoon
<1>. QED
  BY <1>2, <1>3, <1>4

\* While it is up and was not rejected, one missed poll is asked again soon.
LEMMA RetryNext ==
    Types /\ (Up /\ ~rejected => RetryIsSoon) /\ [Next]_vars => (Up /\ ~rejected => RetryIsSoon)'
<1> SUFFICES ASSUME Types, Up /\ ~rejected => RetryIsSoon, [Next]_vars, Up', ~rejected'
             PROVE  RetryIsSoon'
  OBVIOUS
<1>1. ASSUME NEW r \in Refreshes, Succeed(r)
      PROVE  RetryIsSoon'
  BY <1>1 DEF Succeed, SucceedWith, RetryIsSoon
<1>2. CASE \A r \in Refreshes : ~Succeed(r)
  <2>1. ~rejected /\ Up
    <3>1. ASSUME NEW r \in Refreshes, Skip(r) \/ Join(r) \/ Ask(r) \/ Fail(r) \/ Reject(r)
          PROVE  rejected' \in {rejected, TRUE} /\ unload' = unload
      BY <3>1 DEF Skip, Join, Ask, Fail, Reject
    <3>2. CASE Tick \/ BurstGapPasses \/ GraceClosed \/ TimerIgnored \/ TimerJoins
      BY <3>2 DEF Tick, BurstGapPasses, GraceClosed, TimerIgnored, TimerJoins
    <3>3. CASE CommandAccepted \/ BeginUnload \/ FinishUnload \/ UNCHANGED vars
      BY <3>3 DEF CommandAccepted, BeginUnload, FinishUnload, vars
    <3>. QED
      BY <1>2, <3>1, <3>2, <3>3 DEF Next, RefreshNext
  <2>2. ASSUME UNCHANGED <<stage, waited, due, failures, outage, backoff, interval>>
        PROVE  RetryIsSoon'
    BY <2>1, <2>2 DEF RetryIsSoon
  <2>3. CASE TimerJoins
    <3>1. /\ UNCHANGED <<stage, waited, failures, outage, backoff, interval>>
          /\ stage["burst"] # "idle"
      BY <2>3 DEF TimerJoins
    <3>. QED
      BY <2>1, <3>1, PollAssumption DEF RetryIsSoon
  <2>4. CASE BurstGapPasses \/ GraceClosed \/ TimerIgnored \/ CommandAccepted \/ UNCHANGED vars
    BY <2>2, <2>4 DEF BurstGapPasses, GraceClosed, TimerIgnored, CommandAccepted, vars
  <2>5. ~BeginUnload /\ ~FinishUnload /\ \A r \in Refreshes : ~Reject(r)
    BY DEF BeginUnload, FinishUnload, Reject
  <2>. QED
    BY <1>2, <2>1, <2>3, <2>4, <2>5, TickKeepsRetry, FailKeepsRetry, CallKeepsRetry
    DEF Next, RefreshNext
<1>. QED
  BY <1>1, <1>2

-------------------------------------------------------------------------------
(* The theorems.                                                           *)

\* The coordinator's invariant: types, what the cadence rests on, the timers of the
\* windows, and how old the outage of a single miss can be.
THEOREM PollInvHolds == Spec => []PollInv
<1>1. PollInv /\ [Next]_vars => PollInv'
  BY TypesNext, FlagsNext, CadenceNext, TimersNext, WindowsNext, OneAsksNext, RetryNext DEF PollInv
<1>. QED
  BY <1>1, PollInvInit, PTL DEF Spec

\* What polls the charger next is there for a reason: the quick retry for one miss, the
\* fast cadence for two good polls since a likely outage, no timer for an unloaded entry.
THEOREM PollTimersAreEarned == Spec => []TimersAreEarned
<1>1. PollInv => TimersAreEarned
  BY DEF PollInv, Types, FastIsEarned, RetryIsForOneMiss, TimersAreEarned, CadenceIsEarned,
         FastCadenceIsEarned
<1>. QED
  BY <1>1, PollInvHolds, PTL

\* Entities are shown when the outage is younger than their window, whoever polls or
\* does not; and no single miss is as old as the shorter window.
THEOREM PollAvailabilityIsTrue == Spec => []AvailabilityIsTrue
<1>1. ASSUME PollInv PROVE ShownIsTrue
  BY <1>1 DEF PollInv, WindowsAreWatched, ShownIsTrue, Urgent
<1>2. ASSUME PollInv, Up, succeeded, failures = 1, ~rejected
      PROVE  Visible = Windows
  <2>1. /\ {outage, waited, RetryInterval, PollTime, ControlGrace, AvailabilityGrace} \subseteq Nat
        /\ waited <= PollTime
    BY <1>2, PollAssumption DEF PollInv, Types, RetryIsSoon
  <2>2. outage <= RetryInterval \/ outage <= RetryInterval + waited
    BY <1>2 DEF PollInv, RetryIsSoon
  <2>3. outage < ControlGrace /\ outage < AvailabilityGrace
    BY <2>1, <2>2, PollAssumption
  <2>. QED
    BY <1>2, <2>3
<1>3. PollInv => AvailabilityIsTrue
  BY <1>1, <1>2 DEF AvailabilityIsTrue, SingleMissIsInvisible
<1>. QED
  BY <1>3, PollInvHolds, PTL

-------------------------------------------------------------------------------
(***************************************************************************)
(* The sources of a REVE poll, for any intervals. The session that is held *)
(* is later than any whose unplug a poll has seen, or the unplug is        *)
(* remembered with it.                                                     *)
(***************************************************************************)

\* ReveApi's memory, as far as the session is concerned.
IsApi(a) ==
    /\ {"session", "sessionUnplugged"} \subseteq DOMAIN a
    /\ a.session \in Nat \cup {Never} /\ a.sessionUnplugged \in BOOLEAN

\* A poll has seen the last unplug of no session but an earlier one.
OverIsPast ==
    /\ car \in {"out", "in", "error"} /\ charge \in Nat
    /\ over \in Nat \cup {Never} /\ over <= charge
    /\ car # "out" => over < charge

\* The session that is held is not over, or its unplug is remembered.
IsNotOver(a) == a.session = Never \/ a.session > over \/ a.sessionUnplugged

SourceInv == IsApi(api) /\ OverIsPast /\ IsNotOver(api)

\* What else changes in it leaves the session alone.
SameSession(a, b) == a.session = b.session /\ a.sessionUnplugged = b.sessionUnplugged

\* Reading the settings, successfully or not, leaves the session alone.
LEMMA SettingsKeepSession ==
    ASSUME NEW a, IsApi(a)
    PROVE  /\ IsApi(RefreshIfDue(a)) /\ SameSession(RefreshIfDue(a), a)
           /\ IsApi(MeasurementsFailed(a)) /\ SameSession(MeasurementsFailed(a), a)
           /\ IsApi(AskedGraphql(a)) /\ SameSession(AskedGraphql(a), a)
<1>1. IsApi(Store(a)) /\ SameSession(Store(a), a)
  BY DEF Store, IsApi, SameSession
<1>2. \A n \in Int : Longer(n) \in Int
  BY DEF Longer
<1>3. IsApi(SettingsFailed(a)) /\ SameSession(SettingsFailed(a), a)
  BY <1>2, SourceAssumption DEF SettingsFailed, IsApi, SameSession
<1>4. IsApi(RefreshIfDue(a)) /\ SameSession(RefreshIfDue(a), a)
  BY <1>1, <1>3 DEF RefreshIfDue, SameSession
<1>5. IsApi(MeasurementsFailed(a)) /\ SameSession(MeasurementsFailed(a), a)
  <2> DEFINE miss == [a EXCEPT !.failureStreak = Longer(@)]
             failed == IF WithSettings(a) THEN SettingsFailed(a) ELSE miss
  <2>1. IsApi(miss) /\ SameSession(miss, a)
    BY <1>2 DEF IsApi, SameSession
  <2>2. IsApi(failed) /\ SameSession(failed, a)
    BY <1>3, <2>1
  <2>3. MeasurementsFailed(a) = [failed EXCEPT !.measurementsRetryIn = MeasurementsRetry]
    BY DEF MeasurementsFailed
  <2> HIDE DEF failed
  <2>. QED
    BY <2>2, <2>3, SourceAssumption DEF IsApi, SameSession
<1>. QED
  BY <1>4, <1>5 DEF AskedGraphql, SameSession

\* So does filling in a measured poll from /main.
LEMMA FillInKeepsSession ==
    ASSUME NEW a, IsApi(a), NEW adaptive
    PROVE  IsApi(FillIn(a, adaptive)) /\ SameSession(FillIn(a, adaptive), a)
BY DEF FillIn, KeepResidue, ResidueTried, IsApi, SameSession

\* A measurement brings the charger's own session.
LEMMA MeasuredOutcome ==
    ASSUME NEW a, IsApi(a), charge \in Nat, car \in {"out", "in", "error"}
    PROVE  /\ IsApi(Measured(a)) /\ Measured(a).session = charge
           /\ Measured(a).sessionUnplugged = (car = "out")
<1> DEFINE stored == IF WithSettings(a) THEN Store(a) ELSE a
<1>1. IsApi(stored)
  BY DEF Store, IsApi
<1>2. Measured(a) = [stored EXCEPT !.failureStreak = 0, !.answered = TRUE, !.session = charge,
                                   !.sessionAge = 0, !.sessionUnplugged = (car = "out")]
  BY DEF Measured
<1> HIDE DEF stored
<1>. QED
  BY <1>1, <1>2 DEF IsApi

\* /main drops a session whose unplug was seen, and remembers an unplug it sees.
LEMMA FromMainOutcome ==
    ASSUME NEW a, IsApi(a)
    PROVE  /\ IsApi(FromMain(a))
           /\ FromMain(a).session =
                  IF car = "in" /\ a.sessionUnplugged THEN Never ELSE a.session
           /\ FromMain(a).sessionUnplugged <=> a.sessionUnplugged \/ car = "out"
<1>1. IsApi(KeepResidue(a)) /\ SameSession(KeepResidue(a), a)
  BY DEF KeepResidue, IsApi, SameSession
<1>. QED
  BY <1>1 DEF FromMain, IsApi, SameSession

\* The invariant holds at first.
LEMMA SourceInvInit == SourceInit => SourceInv
<1> SUFFICES ASSUME SourceInit PROVE SourceInv
  OBVIOUS
<1>1. IsApi(api)
  BY DEF SourceInit, IsApi, Never
<1>. QED
  BY <1>1 DEF SourceInit, SourceInv, OverIsPast, IsNotOver, Never

\* A poll that was answered keeps the invariant and, with a car, shows no session that is over.
LEMMA PollOutcome ==
    ASSUME SourceInv, PollGraphql \/ PollMain \/ PollFirst
    PROVE  /\ SourceInv'
           /\ car = "in" /\ payload'.session # Never => payload'.session > over
<1>1. /\ IsApi(api) /\ charge \in Nat /\ car \in {"out", "in", "error"}
      /\ over \in Nat \cup {Never} /\ over <= charge /\ (car # "out" => over < charge)
      /\ IsNotOver(api)
  BY DEF SourceInv, OverIsPast
<1>2. UNCHANGED <<car, charge>> /\ over' = IF car = "out" THEN charge ELSE over
  BY DEF PollGraphql, PollMain, PollFirst, Observes
<1>3. OverIsPast'
  BY <1>1, <1>2 DEF OverIsPast, Never
<1>4. ASSUME PollGraphql
      PROVE  /\ IsApi(api') /\ IsNotOver(api)'
             /\ car = "in" /\ payload'.session # Never => payload'.session > over
  <2>0. PICK adaptive \in {car = "in", FALSE} :
            LET filled == FillIn(Measured(api), adaptive)
            IN  api' = RefreshIfDue(filled) /\ Shows("graphql", charge, api')
    BY <1>4, Zenon DEF PollGraphql
  <2>1. api' = RefreshIfDue(FillIn(Measured(api), adaptive)) /\ payload'.session = charge
    BY <2>0 DEF Shows
  <2> DEFINE filled == FillIn(Measured(api), adaptive)
  <2>2. IsApi(filled) /\ SameSession(filled, Measured(api))
    BY <1>1, MeasuredOutcome, FillInKeepsSession
  <2>3. IsApi(api') /\ api'.session = charge /\ api'.sessionUnplugged = (car = "out")
    BY <1>1, <2>1, <2>2, MeasuredOutcome, SettingsKeepSession DEF SameSession
  <2>. QED
    BY <1>1, <1>2, <2>1, <2>3 DEF IsNotOver
<1>5. ASSUME NEW a, IsApi(a), SameSession(a, api)
      PROVE  LET m == FromMain(a)
             IN  /\ IsApi(m)
                 /\ m.session = Never \/ m.session > over' \/ m.sessionUnplugged
                 /\ car = "in" => m.session = Never \/ m.session > over
  BY <1>1, <1>2, <1>5, FromMainOutcome DEF SameSession, IsNotOver
<1>6. ASSUME PollMain
      PROVE  /\ IsApi(api') /\ IsNotOver(api)'
             /\ car = "in" /\ payload'.session # Never => payload'.session > over
  <2> DEFINE asked == AskedGraphql(api)
  <2>1. IsApi(asked) /\ SameSession(asked, api)
    BY <1>1, SettingsKeepSession
  <2>2. api' = RefreshIfDue(FromMain(asked)) /\ payload'.session = HeldSession(FromMain(asked))
    BY <1>6 DEF PollMain, Shows
  <2>3. IsApi(api') /\ SameSession(api', FromMain(asked))
    BY <1>5, <2>1, <2>2, SettingsKeepSession
  <2>. QED
    BY <1>5, <2>1, <2>2, <2>3 DEF SameSession, IsNotOver, HeldSession
<1>7. ASSUME PollFirst
      PROVE  /\ IsApi(api') /\ IsNotOver(api)'
             /\ car = "in" /\ payload'.session # Never => payload'.session > over
  <2> DEFINE m == FromMain(api)
  <2>1. /\ IsApi(m)
        /\ m.session = Never \/ m.session > over' \/ m.sessionUnplugged
        /\ car = "in" => m.session = Never \/ m.session > over
    BY <1>1, <1>5 DEF SameSession
  <2>2. /\ api' = RefreshIfDue(Measurements(m))
        /\ payload'.session = IF MeasurementsAnswer(m) THEN charge ELSE HeldSession(m)
    BY <1>7 DEF PollFirst, Shows
  <2> HIDE DEF m
  <2>3. CASE MeasurementsAnswer(m)
    <3>1. /\ IsApi(Measurements(m)) /\ Measurements(m).session = charge
          /\ Measurements(m).sessionUnplugged = (car = "out")
      BY <1>1, <2>1, <2>3, MeasuredOutcome DEF Measurements
    <3>2. IsApi(api') /\ SameSession(api', Measurements(m))
      BY <2>2, <3>1, SettingsKeepSession
    <3>. QED
      BY <1>1, <1>2, <2>2, <2>3, <3>1, <3>2 DEF SameSession, IsNotOver
  <2>4. CASE ~MeasurementsAnswer(m)
    <3>1. IsApi(Measurements(m)) /\ SameSession(Measurements(m), m)
      BY <2>1, <2>4, SettingsKeepSession DEF Measurements
    <3>2. IsApi(api') /\ SameSession(api', Measurements(m))
      BY <2>2, <3>1, SettingsKeepSession
    <3>. QED
      BY <2>1, <2>2, <2>4, <3>1, <3>2 DEF SameSession, IsNotOver, HeldSession
  <2>. QED
    BY <2>3, <2>4
<1>. QED
  BY <1>3, <1>4, <1>6, <1>7 DEF SourceInv

\* Nor does any other step bring an over session back.
LEMMA OthersKeepSession ==
    ASSUME SourceInv, CarMoves \/ Servers \/ Minute \/ PollWithoutMain \/ PollUnanswered
    PROVE  SourceInv'
<1>1. /\ IsApi(api) /\ charge \in Nat /\ car \in {"out", "in", "error"}
      /\ over \in Nat \cup {Never} /\ over <= charge /\ (car # "out" => over < charge)
      /\ IsNotOver(api)
  BY DEF SourceInv, OverIsPast
<1>2. CASE CarMoves
  BY <1>1, <1>2 DEF CarMoves, SourceInv, OverIsPast, IsNotOver, Never
<1>3. CASE Servers
  BY <1>1, <1>3 DEF Servers, SourceInv, OverIsPast, IsNotOver
<1>4. CASE Minute
  <2>1. \A n \in Int : Older(n) \in Int /\ Sooner(n) \in Int
    BY SourceAssumption DEF Older, Sooner, Capped, Never
  <2>2. IsApi(api') /\ SameSession(api', api)
    BY <1>1, <1>4, <2>1 DEF Minute, IsApi, SameSession
  <2>. QED
    BY <1>1, <1>4, <2>2 DEF Minute, SourceInv, OverIsPast, IsNotOver, SameSession
<1>5. CASE PollWithoutMain
  <2> DEFINE a == ResidueTried(api)
  <2>1. IsApi(a) /\ SameSession(a, api)
    BY <1>1 DEF ResidueTried, IsApi, SameSession
  <2> HIDE DEF a
  <2>2. CASE MeasurementsAnswer(a)
    <3>1. /\ api' = RefreshIfDue(Measured(a)) /\ UNCHANGED <<car, charge>>
          /\ over' = IF car = "out" THEN charge ELSE over
      BY <1>5, <2>2 DEF PollWithoutMain, Observes, a
    <3>2. IsApi(api') /\ api'.session = charge /\ api'.sessionUnplugged = (car = "out")
      BY <1>1, <2>1, <3>1, MeasuredOutcome, SettingsKeepSession DEF SameSession
    <3>3. OverIsPast'
      BY <1>1, <3>1 DEF OverIsPast, Never
    <3>4. IsNotOver(api)'
      BY <1>1, <3>1, <3>2 DEF IsNotOver
    <3>. QED
      BY <3>2, <3>3, <3>4, <1>1 DEF SourceInv, IsApi
  <2>3. CASE ~MeasurementsAnswer(a)
    <3>1. api' = MeasurementsFailed(a) /\ UNCHANGED <<car, charge, over>>
      BY <1>5, <2>3 DEF PollWithoutMain, a
    <3>2. IsApi(api') /\ SameSession(api', api)
      BY <2>1, <3>1, SettingsKeepSession DEF SameSession
    <3>. QED
      BY <1>1, <3>1, <3>2 DEF SourceInv, OverIsPast, IsNotOver, SameSession
  <2>. QED
    BY <2>2, <2>3
<1>6. CASE PollUnanswered
  <2>1. IsApi(api') /\ SameSession(api', api) /\ UNCHANGED <<car, charge, over>>
    BY <1>1, <1>6, SettingsKeepSession DEF PollUnanswered
  <2>. QED
    BY <1>1, <2>1 DEF SourceInv, OverIsPast, IsNotOver, SameSession
<1>. QED
  BY <1>2, <1>3, <1>4, <1>5, <1>6

\* Every step keeps the invariant.
LEMMA SourceInvNext == SourceInv /\ [SourceNext]_sourceVars => SourceInv'
<1> SUFFICES ASSUME SourceInv, [SourceNext]_sourceVars PROVE SourceInv'
  OBVIOUS
<1>1. CASE UNCHANGED sourceVars
  BY <1>1 DEF sourceVars, SourceInv, OverIsPast, IsNotOver
<1>. QED
  BY <1>1, PollOutcome, OthersKeepSession DEF SourceNext, PollSources

\* No poll that finds a car shows the session of a charge that a poll had seen end.
THEOREM SourceSessionIsNotOver == SourceSpec => SessionIsNotOver
<1>1. SourceInv /\ [SourceNext]_sourceVars =>
          [ (PollGraphql \/ PollMain \/ PollFirst) /\ car = "in" /\ payload'.session # Never
            => payload'.session > over ]_sourceVars
  BY PollOutcome
<1>. QED
  BY <1>1, SourceInvInit, SourceInvNext, PTL DEF SourceSpec, SessionIsNotOver

-------------------------------------------------------------------------------
(***************************************************************************)
(* REVE's manual mode, for any slack, firmware and number of sessions. The *)
(* invariant relates what is shown to the sightings it rests on: none is   *)
(* of a session to come, and the clock of the session shown has not fallen *)
(* below the one at which manual mode was last seen. The answer that a     *)
(* poll still holds is of this session or of one before, and no poll has   *)
(* read a later clock.                                                     *)
(***************************************************************************)

Reading == Nat \cup {Unread}

AnswerType ==
    [live : BOOLEAN, plug : {"standby", "plugged"}, clock : Reading, at : Nat,
     session : Nat, manual : BOOLEAN, since : {"none", "on", "off"}]

ManualTypes ==
    /\ {now, session, startedAt} \subseteq Nat /\ startedAt <= now
    /\ plug \in {"standby", "plugged"} /\ loaded \in {"no", "yes", "told", "shown"}
    /\ {on, manual} \subseteq BOOLEAN /\ reported \in {"none", "on", "off"}
    /\ {sessionTime, onSince, store} \subseteq Reading
    /\ DOMAIN why = {"session", "clock", "polled"}
    /\ {why.session, why.polled} \subseteq Reading /\ why.clock \in Nat
    /\ answer \in AnswerType \cup {Nothing}

\* No sighting or reading is of a session to come.
WhyIsPast ==
    /\ why.session <= session /\ why.polled <= session
    /\ ~on => why.session = Unread
    /\ ~on \/ why.polled = Unread => why.clock = 0
    /\ why.polled = session => sessionTime <= Clock

\* The clock has not fallen below the one at which manual mode was last seen.
ModeStands ==
    on => /\ why.polled # Unread => why.session # Unread
          /\ why.clock = 0 \/ why.clock <= sessionTime

\* The answer that a poll holds was given just now, in this session or an earlier one, and
\* no other poll has read a clock since.
AnswerIsPast ==
    Polling =>
        /\ answer.session <= session /\ answer.at <= now /\ now <= answer.at + Slack
        /\ answer.live =>
              /\ answer.clock # Unread
              /\ IF answer.session = session THEN answer.clock = answer.at - startedAt
                 ELSE answer.at <= startedAt
              /\ why.polled = answer.session => sessionTime <= answer.clock
        /\ ~answer.live => answer.clock \in {sessionTime, Unread}
        /\ why.polled <= answer.session
        /\ why.session > answer.session => why.clock = 0

\* The station's word is that of the answer, until a command is answered; an old one has
\* none.
StationSpeaks ==
    /\ ~reports => reported = NoFlag
    /\ Polling /\ ~answer.live => reported = NoFlag
    /\ Polling /\ answer.live /\ reports =>
          reported = IF answer.since = "none" THEN Flag(answer.manual) ELSE NoFlag
    /\ Polling /\ answer.since # "none" => on = (answer.since = "on")

\* Before the sensor is there no command goes out, and one poll at most has read anything,
\* just now.
FirstPollIsFresh ==
    /\ leaving => loaded = "shown"
    /\ loaded \in {"no", "yes"} => ~on /\ why = Unseen /\ sessionTime = Unread
    /\ loaded \in {"no", "told"} => ~Polling
    /\ loaded = "told" =>
          /\ sessionTime = Unread \/ sessionTime + Slack >= Clock
          /\ why.polled # Unread => sessionTime # Unread

ManualInv ==
    /\ ManualTypes
    /\ WhyIsPast /\ ModeStands /\ AnswerIsPast /\ StationSpeaks /\ FirstPollIsFresh

USE DEF stationVars, manualVars, underWay, sensorVars, manualModeVars, Unread, NoFlag, Reading

\* Nothing seen is typed.
LEMMA UnseenIsTyped ==
    /\ DOMAIN Unseen = {"session", "clock", "polled"}
    /\ Unseen.session = Unread /\ Unseen.polled = Unread /\ Unseen.clock = 0
BY DEF Unseen

\* An answer is something, and has typed fields.
LEMMA AnswerIsTyped ==
    /\ Nothing \notin AnswerType
    /\ \A a \in AnswerType :
          /\ {a.live, a.manual} \subseteq BOOLEAN /\ a.plug \in {"standby", "plugged"}
          /\ {a.at, a.session} \subseteq Nat /\ a.clock \in Reading
          /\ a.since \in {"none", "on", "off"}
<1>1. Nothing \notin AnswerType
  <2>1. DOMAIN Nothing = {"live"}
    BY DEF Nothing
  <2>2. \A a \in AnswerType : "plug" \in DOMAIN a
    BY DEF AnswerType
  <2>. QED
    BY <2>1, <2>2
<1>. QED
  BY <1>1 DEF AnswerType

\* The invariant holds at first.
LEMMA ManualInvInit == ManualInit => ManualInv
<1> SUFFICES ASSUME ManualInit PROVE ManualInv
  OBVIOUS
<1>1. /\ DOMAIN why = {"session", "clock", "polled"} /\ why = Unseen
      /\ why.session = Unread /\ why.polled = Unread /\ why.clock = 0
  BY UnseenIsTyped DEF ManualInit
<1>2. ManualTypes
  <2>1. {on, manual} \subseteq BOOLEAN /\ reported \in {"none", "on", "off"}
    BY DEF ManualInit
  <2>. QED
    BY <1>1, <2>1 DEF ManualInit, ManualTypes
<1>3. ~Polling
  BY DEF ManualInit, Polling
<1>4. AnswerIsPast /\ StationSpeaks /\ FirstPollIsFresh
  BY <1>1, <1>3 DEF ManualInit, AnswerIsPast, StationSpeaks, FirstPollIsFresh
<1>5. WhyIsPast /\ ModeStands
  BY <1>1 DEF ManualInit, WhyIsPast, ModeStands
<1>. QED
  BY <1>2, <1>4, <1>5 DEF ManualInv

\* The station's own steps: time passes, sessions begin and end.
LEMMA StationKeepsInv ==
    ManualInv /\ (ManualTick \/ NewSession \/ Unplug \/ AppCommands) => ManualInv'
<1> SUFFICES ASSUME ManualInv, ManualTick \/ NewSession \/ Unplug \/ AppCommands
             PROVE  ManualInv'
  OBVIOUS
<1> USE DEF ManualInv
<1>1. /\ UNCHANGED <<on, sessionTime, reported, answer, leaving, loaded, onSince, store, why>>
      /\ reports' = reports
      /\ Polling' = Polling
  BY DEF ManualTick, NewSession, Unplug, AppCommands, Polling
<1>2. manual' \in BOOLEAN /\ plug' \in {"standby", "plugged"}
  <2>1. ASSUME NEW c \in Commands, Takes(c) PROVE manual' \in BOOLEAN
    BY <2>1 DEF Takes
  <2>2. CASE AppCommands
    BY <2>1, <2>2 DEF AppCommands, ManualTypes
  <2>. QED
    BY <2>2 DEF ManualTick, NewSession, Unplug, Manual, ManualTypes
<1>3. StationSpeaks'
  BY <1>1 DEF StationSpeaks
<1>4. Polling => answer \in AnswerType
  BY DEF Polling, ManualTypes
<1>5. CASE ManualTick
  <2>1. now' = now + 1 /\ UNCHANGED <<session, startedAt>> /\ loaded # "told"
    BY <1>5 DEF ManualTick
  <2>2. ManualTypes' /\ WhyIsPast' /\ ModeStands' /\ FirstPollIsFresh'
    BY <1>1, <1>2, <2>1 DEF ManualTypes, WhyIsPast, ModeStands, FirstPollIsFresh, Clock
  <2>3. Polling => now < answer.at + Slack
    BY <1>5 DEF ManualTick
  <2>4. AnswerIsPast'
    BY <1>1, <1>4, <2>1, <2>3, AnswerIsTyped, ManualAssumption DEF ManualTypes, AnswerIsPast
  <2>. QED
    BY <1>3, <2>2, <2>4
<1>6. CASE NewSession
  <2>1. session' = session + 1 /\ startedAt' = now /\ now' = now
    BY <1>6 DEF NewSession
  <2>2. ManualTypes'
    BY <1>1, <1>2, <2>1 DEF ManualTypes
  <2>3. WhyIsPast' /\ ModeStands'
    BY <1>1, <2>1 DEF ManualTypes, WhyIsPast, ModeStands
  <2>4. FirstPollIsFresh'
    BY <1>1, <2>1, ManualAssumption DEF ManualTypes, FirstPollIsFresh, Clock
  <2>5. AnswerIsPast'
    BY <1>1, <1>4, <2>1, AnswerIsTyped DEF ManualTypes, AnswerIsPast
  <2>. QED
    BY <1>3, <2>2, <2>3, <2>4, <2>5
<1>7. CASE Unplug \/ AppCommands
  <2>1. UNCHANGED <<now, session, startedAt>>
    BY <1>7 DEF Unplug, AppCommands
  <2>. QED
    BY <1>1, <1>2, <1>3, <2>1
    DEF ManualTypes, WhyIsPast, ModeStands, FirstPollIsFresh, AnswerIsPast, Clock
<1>. QED
  BY <1>5, <1>6, <1>7

\* An answer is of now, and the station's word in it.
LEMMA ReadKeepsInv == ManualInv /\ PollReads => ManualInv'
<1> SUFFICES ASSUME ManualInv, PollReads PROVE ManualInv'
  OBVIOUS
<1> USE DEF ManualInv
<1>1. /\ UNCHANGED <<stationVars, on, sessionTime, leaving, sensorVars, why>>
      /\ loaded \in {"yes", "shown"}
  BY DEF PollReads
<1>2. PICK isLive \in BOOLEAN, clock \in Reading :
         /\ answer' \in Answers(isLive, {clock})
         /\ isLive => clock = Clock /\ reported' = IF reports THEN Flag(manual) ELSE NoFlag
         /\ ~isLive => clock \in {sessionTime, Unread} /\ reported' = NoFlag
  <2>1. CASE ReadGraphql
    <3>1. Clock \in Reading
      BY DEF Clock, ManualTypes
    <3>. QED
      BY <2>1, <3>1 DEF ReadGraphql, Report
  <2>2. CASE ReadMain
    <3>1. \E clock \in {sessionTime, Unread} : answer' \in Answers(FALSE, {clock})
      BY <2>2 DEF ReadMain, Answers
    <3>2. {sessionTime, Unread} \subseteq Reading
      BY DEF ManualTypes
    <3>. QED
      BY <2>2, <3>1, <3>2 DEF ReadMain, Report
  <2>. QED
    BY <2>1, <2>2 DEF PollReads
<1>3. /\ answer' \in AnswerType /\ answer'.live = isLive /\ answer'.clock = clock
      /\ answer'.at = now /\ answer'.session = session /\ answer'.since = "none"
      /\ answer'.manual = (isLive /\ manual)
  BY <1>2 DEF Answers, AnswerType, ManualTypes
<1>4. reported' \in {"none", "on", "off"}
  BY <1>2 DEF Flag
<1>5. ManualTypes'
  BY <1>1, <1>3, <1>4 DEF ManualTypes
<1>6. WhyIsPast' /\ ModeStands' /\ FirstPollIsFresh'
  BY <1>1 DEF WhyIsPast, ModeStands, FirstPollIsFresh, Clock
<1>7. AnswerIsPast'
  BY <1>1, <1>2, <1>3, ManualAssumption DEF ManualTypes, WhyIsPast, AnswerIsPast, Clock
<1>8. StationSpeaks'
  BY <1>1, <1>2, <1>3 DEF ManualTypes, StationSpeaks
<1>. QED
  BY <1>5, <1>6, <1>7, <1>8

\* What a poll makes of a live answer.
LEMMA LiveOutcome ==
    ASSUME ManualInv, Polling, answer.live, answer.plug # "standby",
           NEW told, Observe(answer, told), See(answer, told)
    PROVE  /\ sessionTime' = answer.clock /\ why'.polled = answer.session
           /\ on' => /\ why'.session # Unread /\ why'.session <= session
                     /\ why'.clock = 0 \/ why'.clock <= answer.clock
                     /\ why'.session > answer.session => why'.clock = 0
           /\ ~on' => why'.session = Unread /\ why'.clock = 0
<1> USE DEF ManualInv
<1>1. answer \in AnswerType /\ answer.clock \in Nat /\ answer.session \in Nat
  BY AnswerIsTyped DEF Polling, ManualTypes, AnswerIsPast
<1> DEFINE seen == Manual(told) \/ reported = "on" \/ (on /\ why.polled = Unread)
           seenIn == IF seen /\ why.session < answer.session THEN answer.session ELSE why.session
<1>2. why' = [session |-> IF on' THEN seenIn ELSE Unread,
              clock |-> IF ~on' THEN 0
                        ELSE IF seenIn # answer.session THEN why.clock ELSE answer.clock,
              polled |-> answer.session]
  BY DEF See
<1>3. ~unplugged' /\ sessionTime' = answer.clock
  <2>1. unplugged' = FALSE
    BY DEF Observe
  <2>. QED
    BY <1>1, <2>1 DEF Observe
<1>4. ASSUME on', ~seen
      PROVE  /\ on /\ why.polled # Unread
             /\ sessionTime = Unread \/ sessionTime <= answer.clock
  <2>1. reported # "on" /\ ~Manual(told)
    BY <1>4
  <2>2. on /\ ~(answer.clock # Unread /\ sessionTime # Unread /\ answer.clock < sessionTime)
    BY <1>3, <1>4, <2>1 DEF Observe
  <2>. QED
    BY <1>1, <1>4, <2>2 DEF ManualTypes
<1>5. why'.polled = answer.session /\ (~on' => why'.session = Unread /\ why'.clock = 0)
  BY <1>2
<1>6. ASSUME on'
      PROVE  /\ why'.session # Unread /\ why'.session <= session
             /\ why'.clock = 0 \/ why'.clock <= answer.clock
             /\ why'.session > answer.session => why'.clock = 0
  <2>1. /\ why'.session = seenIn
        /\ why'.clock = IF seenIn # answer.session THEN why.clock ELSE answer.clock
    BY <1>2, <1>6
  <2>2. answer.session <= session /\ (why.session > answer.session => why.clock = 0)
    BY DEF AnswerIsPast
  <2>3. CASE seen
    BY <1>1, <2>1, <2>2, <2>3 DEF ManualTypes, WhyIsPast
  <2>4. CASE ~seen
    <3>1. why.session # Unread /\ (why.clock = 0 \/ why.clock <= answer.clock)
      BY <1>1, <1>4, <1>6, <2>4 DEF ManualTypes, ModeStands
    <3>. QED
      BY <1>1, <2>1, <2>2, <2>4, <3>1 DEF ManualTypes, WhyIsPast
  <2>. QED
    BY <2>3, <2>4
<1>. QED
  BY <1>3, <1>5, <1>6

\* What it makes of one from /main, whose clock is the one that was held or none.
LEMMA HeldOutcome ==
    ASSUME ManualInv, Polling, ~answer.live, answer.plug # "standby",
           NEW told, Observe(answer, told), See(answer, told)
    PROVE  /\ sessionTime' = sessionTime /\ why'.polled = why.polled
           /\ on' => /\ why.polled # Unread => why'.session # Unread
                     /\ why'.session <= session
                     /\ why'.clock = 0 \/ why'.clock <= sessionTime
                     /\ why.polled = Unread => why'.clock = 0
                     /\ why'.session > answer.session => why'.clock = 0
           /\ ~on' => why'.session = Unread /\ why'.clock = 0
<1> USE DEF ManualInv
<1>1. /\ answer \in AnswerType /\ answer.session \in Nat
      /\ answer.clock = sessionTime \/ answer.clock = Unread
  BY AnswerIsTyped DEF Polling, ManualTypes, AnswerIsPast
<1> DEFINE seen == Manual(told)
           seenIn == IF seen /\ why.session < answer.session THEN answer.session ELSE why.session
<1>2. reported = NoFlag
  BY DEF StationSpeaks
<1>3. why' = [session |-> IF on' THEN seenIn ELSE Unread,
              clock |-> IF ~on' THEN 0
                        ELSE IF seenIn # answer.session THEN why.clock
                        ELSE IF why.session = answer.session THEN why.clock ELSE 0,
              polled |-> why.polled]
  BY <1>2 DEF See
<1>4. ~unplugged' /\ sessionTime' = sessionTime
  BY <1>1 DEF Observe
<1>5. on' /\ ~seen => on
  BY <1>2, <1>4 DEF Observe
<1>6. why'.polled = why.polled /\ (~on' => why'.session = Unread /\ why'.clock = 0)
  BY <1>3
<1>7. ASSUME on'
      PROVE  /\ why.polled # Unread => why'.session # Unread
             /\ why'.session <= session
             /\ why'.clock = 0 \/ why'.clock <= sessionTime
             /\ why.polled = Unread => why'.clock = 0
             /\ why'.session > answer.session => why'.clock = 0
  <2>1. why'.session = seenIn /\ (why'.clock = 0 \/ why'.clock = why.clock)
    BY <1>3, <1>7
  <2>2. answer.session <= session /\ (why.session > answer.session => why.clock = 0)
    BY DEF AnswerIsPast
  <2>3. why.clock = 0 \/ (on /\ why.clock <= sessionTime)
    BY DEF WhyIsPast, ModeStands
  <2>4. CASE seen
    BY <1>1, <2>1, <2>2, <2>3, <2>4 DEF ManualTypes, WhyIsPast
  <2>5. CASE ~seen
    BY <1>1, <1>5, <1>7, <2>1, <2>2, <2>3, <2>5 DEF ManualTypes, WhyIsPast, ModeStands
  <2>. QED
    BY <2>4, <2>5
<1>. QED
  BY <1>4, <1>6, <1>7

\* And of one that tells of no car.
LEMMA UnpluggedOutcome ==
    ASSUME ManualInv, answer.plug = "standby", NEW told, Observe(answer, told), See(answer, told)
    PROVE  /\ ~on' /\ unplugged' /\ sessionTime' = Unread
           /\ why'.session = Unread /\ why'.clock = 0 /\ why'.polled = why.polled
<1>1. unplugged' = TRUE
  BY DEF Observe
<1>2. ~on' /\ sessionTime' = Unread
  BY <1>1 DEF Observe
<1>3. why' = [session |-> Unread, clock |-> 0, polled |-> why.polled]
  BY <1>2 DEF See
<1>. QED
  BY <1>1, <1>2, <1>3

\* Whatever it is of, it keeps the invariant.
LEMMA ObserveKeepsInv ==
    ASSUME ManualInv, PollObserves
    PROVE  ManualInv'
<1> USE DEF ManualInv
<1>1. /\ UNCHANGED <<stationVars, reported, leaving, store>> /\ Polling /\ ~Polling'
      /\ loaded \in {"yes", "shown"} /\ loaded' = IF loaded = "yes" THEN "told" ELSE loaded
  BY DEF PollObserves, Polling, ManualTypes, FirstPollIsFresh
<1>2. PICK told \in {known', Unread} : Observe(answer, told) /\ See(answer, told)
  BY DEF PollObserves
<1>3. answer \in AnswerType /\ {answer.at, answer.session} \subseteq Nat /\ Clock \in Nat
  BY <1>1, AnswerIsTyped DEF Polling, ManualTypes, Clock
<1>4. on' \in BOOLEAN
  BY <1>2 DEF Observe, ManualTypes
<1>5. DOMAIN why' = {"session", "clock", "polled"}
  BY <1>2 DEF See
<1>6. onSince' \in Reading /\ answer' = Nothing
  <2>1. CASE Show(on')
    BY <2>1 DEF Show, PollObserves, ManualTypes
  <2>. QED
    BY <2>1 DEF PollObserves, ManualTypes
<1>7. AnswerIsPast' /\ StationSpeaks'
  BY <1>1 DEF AnswerIsPast, StationSpeaks
<1>8. Clock' = Clock
  BY <1>1 DEF Clock
<1>9. CASE answer.plug = "standby"
  <2>1. /\ ~on' /\ sessionTime' = Unread
        /\ why'.session = Unread /\ why'.clock = 0 /\ why'.polled = why.polled
    BY <1>2, <1>9, UnpluggedOutcome
  <2>2. ManualTypes'
    BY <1>1, <1>4, <1>5, <1>6, <2>1 DEF ManualTypes
  <2>3. WhyIsPast' /\ ModeStands'
    BY <1>1, <1>3, <1>8, <2>1 DEF ManualTypes, WhyIsPast, ModeStands
  <2>4. loaded' = "told" => why.polled = Unread
    BY <1>1, UnseenIsTyped DEF FirstPollIsFresh
  <2>5. FirstPollIsFresh'
    BY <1>1, <2>1, <2>4 DEF FirstPollIsFresh
  <2>. QED
    BY <1>7, <2>2, <2>3, <2>5
<1>10. CASE answer.plug # "standby" /\ answer.live
  <2>1. /\ sessionTime' = answer.clock /\ why'.polled = answer.session
        /\ on' => /\ why'.session # Unread /\ why'.session <= session
                  /\ why'.clock = 0 \/ why'.clock <= answer.clock
        /\ ~on' => why'.session = Unread /\ why'.clock = 0
    BY <1>1, <1>2, <1>10, LiveOutcome
  <2>2. answer.clock \in Nat /\ answer.session <= session
    BY <1>1, <1>3, <1>10, AnswerIsTyped DEF AnswerIsPast
  <2>3. {why'.session, why'.polled} \subseteq Reading /\ why'.clock \in Nat
    BY <1>2, <1>3, <2>1, <2>2 DEF See, ManualTypes
  <2>4. ManualTypes'
    BY <1>1, <1>4, <1>5, <1>6, <2>1, <2>2, <2>3 DEF ManualTypes
  <2>5. answer.session = session => answer.clock <= Clock
    BY <1>1, <1>3, <1>10 DEF ManualTypes, AnswerIsPast, Clock
  <2>6. answer.clock + Slack >= Clock
    BY <1>1, <1>3, <1>10, <2>2, ManualAssumption DEF ManualTypes, AnswerIsPast, Clock
  <2>7. WhyIsPast' /\ ModeStands'
    BY <1>1, <1>3, <1>8, <2>1, <2>2, <2>3, <2>5 DEF ManualTypes, WhyIsPast, ModeStands
  <2>8. FirstPollIsFresh'
    BY <1>1, <1>8, <2>1, <2>2, <2>6 DEF FirstPollIsFresh
  <2>. QED
    BY <1>7, <2>4, <2>7, <2>8
<1>11. CASE answer.plug # "standby" /\ ~answer.live
  <2>1. /\ sessionTime' = sessionTime /\ why'.polled = why.polled
        /\ on' => /\ why.polled # Unread => why'.session # Unread
                  /\ why'.session <= session
                  /\ why'.clock = 0 \/ why'.clock <= sessionTime
                  /\ why.polled = Unread => why'.clock = 0
        /\ ~on' => why'.session = Unread /\ why'.clock = 0
    BY <1>1, <1>2, <1>11, HeldOutcome
  <2>2. {why'.session, why'.polled} \subseteq Reading /\ why'.clock \in Nat
    BY <1>2, <1>3, <1>11, <2>1 DEF See, ManualTypes
  <2>3. ManualTypes'
    BY <1>1, <1>4, <1>5, <1>6, <2>1, <2>2 DEF ManualTypes
  <2>4. WhyIsPast' /\ ModeStands'
    BY <1>1, <1>3, <1>8, <2>1, <2>2 DEF ManualTypes, WhyIsPast, ModeStands
  <2>5. loaded' = "told" => why.polled = Unread /\ sessionTime = Unread
    BY <1>1, UnseenIsTyped DEF FirstPollIsFresh
  <2>6. FirstPollIsFresh'
    BY <1>1, <2>1, <2>5 DEF FirstPollIsFresh
  <2>. QED
    BY <1>7, <2>3, <2>4, <2>6
<1>. QED
  BY <1>9, <1>10, <1>11

\* An answered write sets the mode, and clears what the station was heard to say.
LEMMA SetModeKeepsInv ==
    ASSUME ManualInv, NEW isOn \in BOOLEAN, SetMode(isOn), loaded = "shown",
           UNCHANGED <<now, plug, session, startedAt, reports, sessionTime, sensorVars>>,
           manual' \in BOOLEAN
    PROVE  ManualInv'
<1> USE DEF ManualInv
<1>1. on' = isOn /\ reported' = NoFlag /\ why' = [why EXCEPT !.session = IF isOn THEN session
                                                                      ELSE Unread, !.clock = 0]
  BY DEF SetMode
<1>2. /\ why'.session = (IF isOn THEN session ELSE Unread) /\ why'.clock = 0
      /\ why'.polled = why.polled /\ DOMAIN why' = {"session", "clock", "polled"}
  BY <1>1 DEF ManualTypes
<1>3. CASE ~Polling
  <2>1. answer' = answer /\ Polling' = Polling
    BY <1>3 DEF SetMode, Polling
  <2>2. ManualTypes'
    BY <1>1, <1>2, <2>1 DEF ManualTypes
  <2>3. WhyIsPast' /\ ModeStands' /\ AnswerIsPast' /\ StationSpeaks' /\ FirstPollIsFresh'
    BY <1>1, <1>2, <1>3, <2>1
    DEF ManualTypes, WhyIsPast, ModeStands, AnswerIsPast, StationSpeaks, FirstPollIsFresh, Clock
  <2>. QED
    BY <2>2, <2>3
<1>4. CASE Polling
  <2>1. answer \in AnswerType
    BY <1>4 DEF Polling, ManualTypes
  <2>2. answer' = [answer EXCEPT !.since = Flag(isOn)]
    BY <1>4 DEF SetMode
  <2>3. /\ answer' \in AnswerType /\ answer'.since = Flag(isOn)
        /\ answer'.live = answer.live /\ answer'.clock = answer.clock /\ answer'.at = answer.at
        /\ answer'.session = answer.session /\ answer'.manual = answer.manual
    BY <2>1, <2>2 DEF AnswerType, Flag
  <2>4. Polling'
    BY <2>3, AnswerIsTyped DEF Polling
  <2>5. ManualTypes'
    BY <1>1, <1>2, <2>3 DEF ManualTypes
  <2>6. WhyIsPast' /\ ModeStands' /\ FirstPollIsFresh'
    BY <1>1, <1>2, <1>4 DEF ManualTypes, WhyIsPast, ModeStands, FirstPollIsFresh, Clock
  <2>7. AnswerIsPast'
    BY <1>2, <1>4, <2>3, <2>4 DEF AnswerIsPast
  <2>8. StationSpeaks'
    BY <1>1, <2>3, <2>4 DEF StationSpeaks, Flag
  <2>. QED
    BY <2>5, <2>6, <2>7, <2>8
<1>. QED
  BY <1>3, <1>4

\* So does a write that goes unanswered, and a poll that fails.
LEMMA WriteKeepsInv ==
    ManualInv /\ (Miss \/ Overrides \/ Releases \/ LeavesOnly \/ Leaves) => ManualInv'
<1> SUFFICES ASSUME ManualInv, Miss \/ Overrides \/ Releases \/ LeavesOnly \/ Leaves
             PROVE  ManualInv'
  OBVIOUS
<1>1. ASSUME UNCHANGED <<now, plug, session, startedAt, reports, loaded, store>>,
             UNCHANGED <<on, sessionTime, reported, answer, why>>,
             manual' \in BOOLEAN, onSince' \in Reading, leaving' => loaded = "shown"
      PROVE  ManualInv'
  BY <1>1 DEF ManualInv, ManualTypes, WhyIsPast, ModeStands, AnswerIsPast, StationSpeaks,
              FirstPollIsFresh, Clock, Polling
<1>2. manual \in BOOLEAN /\ onSince \in Reading /\ (leaving => loaded = "shown")
  BY DEF ManualInv, ManualTypes, FirstPollIsFresh
<1>3. CASE Miss
  BY <1>1, <1>2, <1>3 DEF Miss
<1>4. CASE Overrides
  <2>1. /\ UNCHANGED <<now, plug, session, startedAt, reports, sessionTime, sensorVars>>
        /\ loaded = "shown" /\ manual' \in BOOLEAN /\ leaving' = FALSE
    BY <1>2, <1>4 DEF Overrides, Untouched, Takes, Manual, Free
  <2>2. CASE SetMode(TRUE)
    BY <2>1, <2>2, SetModeKeepsInv
  <2>3. CASE UNCHANGED <<on, reported, answer, why>>
    BY <1>1, <1>2, <2>1, <2>3
  <2>. QED
    BY <1>4, <2>2, <2>3 DEF Overrides
<1>5. CASE Releases \/ LeavesOnly
  BY <1>1, <1>2, <1>5 DEF Releases, LeavesOnly, Untouched, Free
<1>6. CASE Leaves
  <2>1. /\ UNCHANGED <<now, plug, session, startedAt, reports, sessionTime, sensorVars>>
        /\ loaded = "shown" /\ manual' \in BOOLEAN /\ leaving' = FALSE
    BY <1>2, <1>6 DEF Leaves, Untouched
  <2>2. CASE SetMode(FALSE)
    BY <2>1, <2>2, SetModeKeepsInv
  <2>3. CASE UNCHANGED <<on, reported, answer, why>>
    BY <1>1, <1>2, <2>1, <2>3
  <2>. QED
    BY <1>6, <2>2, <2>3 DEF Leaves
<1>. QED
  BY <1>3, <1>4, <1>5, <1>6

\* And the entry's setup and unload.
LEMMA LoadKeepsInv == ManualInv /\ (ManualLoad \/ AddSensor \/ ManualStop) => ManualInv'
<1> SUFFICES ASSUME ManualInv, ManualLoad \/ AddSensor \/ ManualStop PROVE ManualInv'
  OBVIOUS
<1> USE DEF ManualInv
<1>1. CASE ManualLoad
  <2>1. /\ UNCHANGED <<stationVars, manualVars, underWay, onSince, store, why>>
        /\ loaded = "no" /\ loaded' = "yes" /\ Polling' = Polling
    BY <1>1 DEF ManualLoad, Polling
  <2>. QED
    BY <2>1 DEF ManualTypes, WhyIsPast, ModeStands, AnswerIsPast, StationSpeaks,
                FirstPollIsFresh, Clock
<1>2. CASE AddSensor
  <2>1. /\ UNCHANGED <<stationVars, sessionTime, reported, answer, leaving, store>>
        /\ loaded = "told" /\ loaded' = "shown"
    BY <1>2 DEF AddSensor
  <2>2. on' \in BOOLEAN /\ (on => on')
    BY <1>2 DEF AddSensor, Restore, ManualTypes
  <2>3. onSince' \in Reading
    BY <1>2 DEF AddSensor, Show, ManualTypes
  <2>4. ~Polling /\ ~Polling'
    BY <2>1 DEF Polling, FirstPollIsFresh
  <2>5. AnswerIsPast' /\ StationSpeaks' /\ FirstPollIsFresh'
    BY <2>1, <2>4 DEF AnswerIsPast, StationSpeaks, FirstPollIsFresh
  <2>6. CASE on' /\ ~on /\ why.polled # Unread
    <3>1. why' = [why EXCEPT !.session = why.polled, !.clock = sessionTime]
      BY <1>2, <2>6 DEF AddSensor
    <3>2. sessionTime \in Nat
      BY <2>1, <2>6 DEF ManualTypes, FirstPollIsFresh
    <3>3. /\ DOMAIN why' = {"session", "clock", "polled"} /\ why'.session = why.polled
          /\ why'.polled = why.polled /\ why'.clock = sessionTime
      BY <3>1 DEF ManualTypes
    <3>4. ManualTypes'
      BY <2>1, <2>2, <2>3, <3>2, <3>3 DEF ManualTypes
    <3>5. WhyIsPast' /\ ModeStands'
      BY <2>1, <2>6, <3>2, <3>3 DEF ManualTypes, WhyIsPast, ModeStands, Clock
    <3>. QED
      BY <2>5, <3>4, <3>5
  <2>7. CASE ~(on' /\ ~on /\ why.polled # Unread)
    <3>1. why' = why
      BY <1>2, <2>7 DEF AddSensor
    <3>2. ManualTypes'
      BY <2>1, <2>2, <2>3, <3>1 DEF ManualTypes
    <3>3. WhyIsPast' /\ ModeStands'
      BY <2>1, <2>2, <2>7, <3>1 DEF ManualTypes, WhyIsPast, ModeStands, Clock
    <3>. QED
      BY <2>5, <3>2, <3>3
  <2>. QED
    BY <2>6, <2>7
<1>3. CASE ManualStop
  <2>1. /\ UNCHANGED <<now, plug, session, startedAt, command, reports>>
        /\ manual' \in BOOLEAN
        /\ on' = FALSE /\ sessionTime' = Unread /\ reported' = NoFlag /\ loaded' = "no"
        /\ onSince' = Unread /\ store' \in Reading /\ answer' = Nothing /\ ~leaving' /\ ~Polling'
        /\ DOMAIN why' = {"session", "clock", "polled"} /\ why' = Unseen
        /\ why'.session = Unread /\ why'.polled = Unread /\ why'.clock = 0
    BY <1>3, UnseenIsTyped DEF ManualStop, Saved, Polling, ManualTypes
  <2>2. reported' \in {"none", "on", "off"} /\ {on, manual}' \subseteq BOOLEAN
    BY <2>1 DEF ManualTypes
  <2>3. ManualTypes'
    BY <2>1, <2>2 DEF ManualTypes
  <2>4. WhyIsPast' /\ ModeStands' /\ AnswerIsPast' /\ StationSpeaks' /\ FirstPollIsFresh'
    BY <2>1 DEF ManualTypes, WhyIsPast, ModeStands, AnswerIsPast, StationSpeaks,
                FirstPollIsFresh, Clock
  <2>. QED
    BY <2>3, <2>4
<1>. QED
  BY <1>1, <1>2, <1>3

\* Every step keeps the invariant.
LEMMA ManualInvNext == ManualInv /\ [ManualNext]_manualModeVars => ManualInv'
<1> SUFFICES ASSUME ManualInv, [ManualNext]_manualModeVars PROVE ManualInv'
  OBVIOUS
<1>1. CASE UNCHANGED manualModeVars
  BY <1>1 DEF ManualInv, ManualTypes, WhyIsPast, ModeStands, AnswerIsPast, StationSpeaks,
              FirstPollIsFresh, Clock, Polling
<1>. QED
  BY <1>1, StationKeepsInv, ReadKeepsInv, ObserveKeepsInv, WriteKeepsInv, LoadKeepsInv
  DEF ManualNext

\* What is known of manual mode agrees with when the session began, and a poll under way
\* holds an answer of this session or an earlier one.
THEOREM ManualInvHolds == ManualSpec => []ManualInv
  BY ManualInvInit, ManualInvNext, PTL DEF ManualSpec

\* A poll that reads the session clock shows a manual mode that was earned, and the
\* station's or the last command's word.
LEMMA LivePollIsTrue ==
    ASSUME ManualInv, PollObserves, answer.live
    PROVE  ManualIsEarned /\ LastWordCounts
<1> USE DEF ManualInv
<1>1. Polling /\ reported' = reported
  BY DEF PollObserves
<1>2. PICK told \in {known', Unread} : Observe(answer, told) /\ See(answer, told)
  BY DEF PollObserves
<1>3. answer \in AnswerType /\ answer.session \in Nat /\ answer.clock \in Nat
      /\ answer.manual \in BOOLEAN /\ answer.since \in {"none", "on", "off"}
  BY <1>1, AnswerIsTyped DEF Polling, ManualTypes, AnswerIsPast
<1>4. CASE answer.plug = "standby"
  BY <1>2, <1>4, UnpluggedOutcome DEF ManualIsEarned, LastWordCounts
<1>5. CASE answer.plug # "standby"
  <2>1. ManualIsEarned
    <3>1. on' => why'.session # Unread /\ (why'.clock = 0 \/ why'.clock <= answer.clock)
      BY <1>1, <1>2, <1>5, LiveOutcome
    <3>. QED
      BY <1>3, <3>1 DEF ManualIsEarned
  <2>2. ASSUME reports PROVE LastWordCounts
    <3>1. reported = IF answer.since = "none" THEN Flag(answer.manual) ELSE NoFlag
      BY <1>1, <2>2 DEF StationSpeaks
    <3>2. unplugged' = FALSE
      BY <1>2, <1>5 DEF Observe
    <3>3. CASE answer.since = "none"
      <4>1. on' <=> reported = "on"
        BY <1>2, <3>1, <3>2, <3>3 DEF Observe, Flag
      <4>2. on' <=> answer.manual
        BY <1>3, <3>1, <3>3, <4>1 DEF Flag
      <4>. QED
        BY <3>3, <4>2 DEF LastWordCounts
    <3>4. CASE answer.since # "none"
      <4>1. reported = NoFlag
        BY <3>1, <3>4
      <4>2. on' <=> \/ Manual(told)
                    \/ on /\ ~(/\ answer.clock # Unread /\ sessionTime # Unread
                               /\ answer.clock < sessionTime)
        BY <1>2, <3>2, <4>1 DEF Observe
      <4>3. on = (answer.since = "on")
        BY <1>1, <3>4 DEF StationSpeaks
      <4>4. answer.since = "on" => on' \/ answer.clock < sessionTime
        BY <4>2, <4>3
      <4>5. Manual(told) => Manual(known')
        BY <1>2 DEF Manual, Override
      <4>6. answer.since = "off" => ~on' \/ Manual(known')
        BY <4>2, <4>3, <4>5
      <4>. QED
        BY <3>4, <4>4, <4>6 DEF LastWordCounts
    <3>. QED
      BY <3>3, <3>4
  <2>. QED
    BY <2>1, <2>2 DEF LastWordCounts
<1>. QED
  BY <1>4, <1>5

\* A restored sensor is one of the session whose clock was just read.
LEMMA RestoreIsTrue ==
    ASSUME ManualInv, AddSensor
    PROVE  RestoreIsEarned /\ (~reports => RestartKeeps)
<1> USE DEF ManualInv
<1>1. /\ loaded = "told" /\ UNCHANGED <<now, startedAt>>
      /\ IF store # Unread THEN Restore(now - store) ELSE on' = on
  BY DEF AddSensor
<1>2. ASSUME on', ~on, why.polled = session PROVE startedAt <= store + Slack
  <2>1. sessionTime # Unread /\ sessionTime <= Clock
    BY <1>1, <1>2 DEF ManualTypes, WhyIsPast, FirstPollIsFresh
  <2>2. store # Unread /\ sessionTime + Slack >= now - store
    BY <1>1, <1>2, <2>1 DEF Restore
  <2>. QED
    BY <2>1, <2>2, ManualAssumption DEF ManualTypes, Clock
<1>3. ASSUME ~reports, store # Unread, startedAt <= store, ~unplugged PROVE on'
  <2>1. reported = NoFlag
    BY <1>3 DEF StationSpeaks
  <2>2. sessionTime = Unread \/ sessionTime + Slack >= now - store
    BY <1>1, <1>3, ManualAssumption DEF ManualTypes, FirstPollIsFresh, Clock
  <2>. QED
    BY <1>1, <1>3, <2>1, <2>2 DEF Restore
<1>. QED
  BY <1>2, <1>3 DEF RestoreIsEarned, RestartKeeps

\* Of old firmware a poll keeps a manual mode of a session whose clock was read.
LEMMA PollIsKeeping ==
    ASSUME ManualInv, ~reports, PollObserves
    PROVE  PollKeeps
<1> USE DEF ManualInv
<1> SUFFICES ASSUME why.polled = answer.session, answer.plug # "standby", on PROVE on'
  BY DEF PollKeeps
<1>1. Polling /\ reported = NoFlag
  BY DEF PollObserves, StationSpeaks
<1>2. PICK told \in {known', Unread} : Observe(answer, told)
  BY DEF PollObserves
<1>3. sessionTime \in Reading /\ answer.clock \in Reading
  BY <1>1, AnswerIsTyped DEF Polling, ManualTypes
<1>4. ~(answer.clock # Unread /\ sessionTime # Unread /\ answer.clock < sessionTime)
  BY <1>1, <1>3 DEF AnswerIsPast
<1>5. unplugged' = FALSE
  BY <1>2 DEF Observe
<1>. QED
  BY <1>1, <1>2, <1>4, <1>5 DEF Observe

\* The manual mode that is shown is the station's: of old firmware it was seen in this
\* session, as far as clocks tell, and stands until the session ends, over GraphQL's
\* silences, releases and restarts; of new firmware it is as reported, or as commanded
\* since.
THEOREM ManualModeIsTrue == ManualSpec => ManualModeHolds
<1>1. ManualInv /\ [ManualNext]_manualModeVars =>
          [ /\ PollObserves /\ answer.live => ManualIsEarned /\ LastWordCounts
            /\ AddSensor => RestoreIsEarned ]_manualModeVars
  BY LivePollIsTrue, RestoreIsTrue
<1>2. ManualInv /\ [ManualNext]_manualModeVars =>
          [~reports => /\ PollObserves => PollKeeps
                       /\ AddSensor => RestartKeeps]_manualModeVars
  BY PollIsKeeping, RestoreIsTrue
<1>. QED
  BY <1>1, <1>2, ManualInvHolds, PTL DEF ManualSpec, ManualModeHolds, ManualIsTrue, ManualIsKept

-------------------------------------------------------------------------------
(***************************************************************************)
(* The REVE settings, for any schedules and any number of changes. The     *)
(* invariant compares the list a command is about to write with the        *)
(* station's.                                                              *)
(***************************************************************************)

\* Up to its own schedule a command holds what the station holds, or held when it was read.
OnlyOwnDiffers ==
    job.step = "read" =>
        \E own \in Slots : \A s \in Slots \ {own} : job.list[s] = list[s] \/ s \in appWrote

SettingsInv ==
    /\ DOMAIN list = Slots
    /\ job.step \in {"idle", "read", "written"}
    /\ DOMAIN job.list = Slots
    /\ OnlyOwnDiffers

\* The invariant holds at first.
LEMMA SettingsInvInit == SettingsInit => SettingsInv
BY DEF SettingsInit, SettingsInv, OnlyOwnDiffers, NoJob, NoList

\* It is inductive: what the app changes is noted, and what is read is the station's.
LEMMA SettingsInvNext == SettingsInv /\ [SettingsNext]_settingsVars => SettingsInv'
<1> SUFFICES ASSUME SettingsInv, [SettingsNext]_settingsVars PROVE SettingsInv'
  OBVIOUS
<1>1. CASE AppWrites
  <2>1. PICK s \in Slots : /\ list' = [list EXCEPT ![s] = versions']
                           /\ appWrote' = appWrote \cup {s}
    BY <1>1 DEF AppWrites
  <2>2. job' = job
    BY <1>1 DEF AppWrites
  <2>3. \A t \in Slots : list'[t] = list[t] \/ t \in appWrote'
    BY <2>1 DEF SettingsInv
  <2>4. OnlyOwnDiffers'
    <3>1. CASE job.step = "read"
      <4>1. PICK own \in Slots :
               \A t \in Slots \ {own} : job.list[t] = list[t] \/ t \in appWrote
        BY <3>1 DEF SettingsInv, OnlyOwnDiffers
      <4>2. \A t \in Slots \ {own} : job'.list[t] = list'[t] \/ t \in appWrote'
        BY <2>1, <2>2, <2>3, <4>1
      <4>. QED
        BY <4>2 DEF OnlyOwnDiffers
    <3>2. CASE job.step # "read"
      BY <2>2, <3>2 DEF OnlyOwnDiffers
    <3>. QED
      BY <3>1, <3>2
  <2>. QED
    BY <2>1, <2>2, <2>4 DEF SettingsInv
<1>2. CASE SettingsAnswer \/ SettingsArrive \/ UNCHANGED settingsVars
  BY <1>2 DEF SettingsAnswer, SettingsArrive, settingsVars, SettingsInv, OnlyOwnDiffers
<1>3. CASE WriteSchedule
  <2>1. PICK s \in Slots : job' = [step |-> "read", list |-> [list EXCEPT ![s] = versions']]
    BY <1>3 DEF WriteSchedule, ReadSchedules, Changed
  <2>2. list' = list
    BY <1>3 DEF WriteSchedule
  <2>3. \A t \in Slots \ {s} : job'.list[t] = list'[t]
    BY <2>1, <2>2 DEF SettingsInv
  <2>. QED
    BY <2>1, <2>2, <2>3 DEF SettingsInv, OnlyOwnDiffers
<1>4. CASE Mutate
  <2>1. list' = job.list /\ job' = [job EXCEPT !.step = "written"]
    BY <1>4 DEF Mutate
  <2>2. job'.step = "written" /\ job'.list = job.list
    <3>1. job.step = "read"
      BY <1>4 DEF Mutate
    <3>. QED
      BY <2>1, <3>1 DEF SettingsInv
  <2>. QED
    BY <2>1, <2>2 DEF SettingsInv, OnlyOwnDiffers
<1>5. CASE Own \/ WriteLost
  BY <1>5 DEF Own, WriteLost, NoJob, NoList, SettingsInv, OnlyOwnDiffers
<1>. QED
  BY <1>1, <1>2, <1>3, <1>4, <1>5 DEF SettingsNext

\* Of the schedules it does not change a command undoes nothing the app saved before the
\* list was read (write_schedule, _read_extras).
THEOREM SettingsOthersStay == SettingsSpec => OthersStay
<1>1. SettingsInv /\ [SettingsNext]_settingsVars =>
        [Mutate => \E own \in Slots : \A s \in Slots \ {own} :
            list'[s] = list[s] \/ s \in appWrote]_settingsVars
  BY DEF SettingsInv, OnlyOwnDiffers, Mutate
<1>. QED
  BY SettingsInvInit, SettingsInvNext, <1>1, PTL DEF SettingsSpec, OthersStay

===============================================================================
