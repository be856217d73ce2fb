---------------------------- MODULE ListenersProofs ---------------------------
(***************************************************************************)
(* Listeners of the polls. For any policies, notices move on the readings  *)
(* they ask for, and no dismissal hides a new incident, over restarts,     *)
(* crashes and broken stores. For any set of meters, number of confirming  *)
(* polls and bound of the charger, a meter falls only when the charger     *)
(* started it again, and what is stored is of its present life. A select   *)
(* shows the choice of a command under way and keeps the option it         *)
(* accepted. A charger that follows Home Assistant's time zone is not      *)
(* moved away by an older write.                                           *)
(***************************************************************************)
EXTENDS SafetyNotices, MeterGuard, SelectDisplay, TimeZoneFollow, TLAPS

-------------------------------------------------------------------------------
(***************************************************************************)
(* The safety notices. The inductive invariant compares the manager's two  *)
(* streaks with the readings themselves and says where the memory of a     *)
(* recovery is while the manager is down.                                  *)
(***************************************************************************)

Types ==
    /\ policy \in Policies /\ signals \in Readings
    /\ {serialised, up, memory, memoryFile, memoryStoreUp, saving, closed, lost} \subseteq BOOLEAN
    /\ issue \in {"none", "shown", "dismissed"}
    /\ triggerStreak \in 0 .. policy.trigger /\ highs \in 0 .. policy.trigger
    /\ recoveryStreak \in 0 .. policy.recover /\ goods \in 0 .. policy.recover

\* The manager has counted what the last poll read.
SignalsAreCounted ==
    /\ Trigger(signals) = "no" => highs = 0
    /\ Recovered(signals) = "no" => goods = 0
    /\ ~up => highs = 0 /\ goods = 0

\* It counts no less than was read, and no more where refreshes wait for each other.
StreaksAreReadings ==
    /\ up => highs <= triggerStreak
    /\ up /\ issue # "none" => goods <= recoveryStreak
    /\ recoveryStreak > 0 => highs = 0
    /\ serialised /\ up => recoveryStreak <= goods
    /\ serialised /\ up /\ issue = "none" => triggerStreak <= highs

\* A recovery is remembered, in the store while the manager is down.
RecoveryIsRemembered ==
    /\ up /\ issue # "none" /\ closed /\ ~lost => memory
    /\ ~up /\ issue # "none" /\ closed /\ ~lost => memoryFile
    /\ up /\ memoryStoreUp /\ ~saving /\ memory => memoryFile

NoticesInv == Types /\ SignalsAreCounted /\ StreaksAreReadings /\ RecoveryIsRemembered

USE DEF givenVars, managerVars, safetyGhosts

\* A policy asks for something.
LEMMA PolicyCounts ==
  ASSUME policy \in Policies
  PROVE  policy.trigger \in Nat \ {0} /\ policy.recover \in Nat \ {0}
BY SafetyAssumption

\* What a reading says about danger and recovery goes together.
LEMMA SignalsAgree ==
  ASSUME NEW r \in Readings
  PROVE  /\ Trigger(r) \in {"yes", "no", "unknown"} /\ Recovered(r) \in {"yes", "no", "unknown"}
         /\ Matches(r) => Trigger(r) = "yes"
         /\ Trigger(r) = "yes" => Recovered(r) = "no"
         /\ Recovered(r) = "yes" => Trigger(r) = "no"
BY DEF Trigger, Recovered, Matches, Readings

\* The policy does not change.
LEMMA SamePolicy ==
  ASSUME [SafetyNext]_safetyVars
  PROVE  /\ policy' = policy /\ serialised' = serialised /\ Readings' = Readings
         /\ \A r : Trigger(r)' = Trigger(r) /\ Recovered(r)' = Recovered(r)
<1>1. policy' = policy /\ serialised' = serialised
  BY DEF SafetyNext, Poll, Replay, Dismiss, Restore, Write, Stop, HaDies, Down, NewManager,
     safetyVars
<1>. QED
  BY <1>1 DEF Readings, Trigger, Recovered, Matches

\* The invariant holds at first.
LEMMA NoticesInvInit == SafetyInit => NoticesInv
<1> SUFFICES ASSUME SafetyInit PROVE NoticesInv
  OBVIOUS
<1>1. Types
  <2>1. policy \in Policies /\ signals \in Readings
    BY DEF SafetyInit
  <2>2. 0 \in 0 .. policy.trigger /\ 0 \in 0 .. policy.recover
    BY <2>1, PolicyCounts
  <2>. QED
    BY <2>1, <2>2 DEF SafetyInit, Types
<1>. QED
  BY <1>1 DEF SafetyInit, NoticesInv, SignalsAreCounted, StreaksAreReadings, RecoveryIsRemembered

-------------------------------------------------------------------------------
\* What a reading makes of the notice and the streaks, in the readings' terms.
LEMMA DangerOutcome ==
  ASSUME NoticesInv, NEW r \in Readings, Danger(r)
  PROVE  /\ triggerStreak' \in 0 .. policy.trigger /\ triggerStreak' >= triggerStreak
         /\ triggerStreak' = IF Matches(r) THEN policy.trigger
                             ELSE UpTo(triggerStreak, policy.trigger)
         /\ recoveryStreak' = 0
         /\ issue' \in {issue, "shown"} /\ memory' \in BOOLEAN /\ saving' \in BOOLEAN
         /\ issue' = issue => memory' = memory /\ saving' = saving
         /\ issue' # issue => memory' = FALSE /\ triggerStreak' >= policy.trigger
         /\ (issue = "none" \/ Stale) /\ triggerStreak' >= policy.trigger => issue' = "shown"
<1>1. /\ policy.trigger \in Nat \ {0} /\ triggerStreak \in 0 .. policy.trigger
      /\ issue \in {"none", "shown", "dismissed"} /\ memory \in BOOLEAN
      /\ saving \in BOOLEAN /\ memoryStoreUp \in BOOLEAN
  BY PolicyCounts DEF NoticesInv, Types
<1>2. triggerStreak' = IF Matches(r) THEN policy.trigger ELSE UpTo(triggerStreak, policy.trigger)
  BY DEF Danger
<1>3. triggerStreak' \in 0 .. policy.trigger /\ triggerStreak' >= triggerStreak
  BY <1>1, <1>2 DEF UpTo
<1>4. CASE triggerStreak' >= policy.trigger
  <2>1. recoveryStreak' = 0 /\ Raise
    BY <1>4 DEF Danger
  <2>. QED
    BY <1>1, <1>2, <1>3, <1>4, <2>1 DEF Raise, Stale, Save
<1>5. CASE ~(triggerStreak' >= policy.trigger)
  BY <1>1, <1>2, <1>3, <1>5 DEF Danger
<1>. QED
  BY <1>4, <1>5

\* What a reading without danger leaves behind.
LEMMA CalmOutcome ==
  ASSUME NoticesInv, NEW r \in Readings, Calm(r)
  PROVE  /\ issue' \in {issue, "none"} /\ memory' \in BOOLEAN /\ saving' \in BOOLEAN
         /\ issue' # issue => /\ triggerStreak' = 0 /\ recoveryStreak' = 0 /\ memory' = FALSE
                              /\ RecoveredFor(r) >= policy.recover
                              /\ policy.latched => issue = "dismissed"
         /\ issue' = issue => /\ triggerStreak' = Lapsed(r)
                              /\ recoveryStreak' = IF issue = "none" THEN 0 ELSE RecoveredFor(r)
                              /\ memory => memory'
                              /\ saving => saving'
                              /\ memory' /\ ~memory /\ memoryStoreUp => saving'
                              /\ issue # "none" /\ RecoveredFor(r) >= policy.recover => memory'
<1>1. /\ issue \in {"none", "shown", "dismissed"} /\ memory \in BOOLEAN
      /\ saving \in BOOLEAN /\ memoryStoreUp \in BOOLEAN
  BY DEF NoticesInv, Types
<1> DEFINE confirmed == issue # "none" /\ RecoveredFor(r) >= policy.recover
<1>2. CASE confirmed /\ Clears
  <2>1. issue' = "none" /\ triggerStreak' = 0 /\ recoveryStreak' = 0 /\ memory' = FALSE
    BY <1>2 DEF Calm
  <2>2. IF memory THEN UNCHANGED saving ELSE Save
    BY <1>2 DEF Calm
  <2>. QED
    BY <1>1, <1>2, <2>1, <2>2 DEF Save, Clears
<1>3. CASE ~(confirmed /\ Clears)
  <2>1. /\ issue' = issue /\ triggerStreak' = Lapsed(r)
        /\ recoveryStreak' = IF issue = "none" THEN 0 ELSE RecoveredFor(r)
        /\ memory' = (memory \/ confirmed)
    BY <1>3 DEF Calm
  <2>2. IF confirmed /\ ~memory THEN Save ELSE UNCHANGED saving
    BY <1>3 DEF Calm
  <2>. QED
    BY <1>1, <2>1, <2>2 DEF Save
<1>. QED
  BY <1>2, <1>3

\* What the readings alone say.
LEMMA ObserveOutcome ==
  ASSUME NoticesInv, NEW r \in Readings, Observe(r)
  PROVE  /\ highs' = IF Trigger(r) = "yes" THEN UpTo(highs, policy.trigger)
                     ELSE IF Trigger(r) = "no" THEN 0 ELSE highs
         /\ goods' = IF Recovered(r) = "yes" THEN UpTo(goods, policy.recover)
                     ELSE IF Recovered(r) = "no" THEN 0 ELSE goods
         /\ highs' \in 0 .. policy.trigger /\ goods' \in 0 .. policy.recover
         /\ closed' = (SameNotice /\ (closed \/ goods' = policy.recover))
         /\ lost' = (lost /\ SameNotice)
         /\ closed' \in BOOLEAN /\ lost' \in BOOLEAN
<1>1. /\ policy.trigger \in Nat \ {0} /\ policy.recover \in Nat \ {0}
      /\ highs \in 0 .. policy.trigger /\ goods \in 0 .. policy.recover
  BY PolicyCounts DEF NoticesInv, Types
<1>2. highs' = IF Trigger(r) = "yes" THEN UpTo(highs, policy.trigger)
               ELSE IF Trigger(r) = "no" THEN 0 ELSE highs
  BY SignalsAgree DEF Observe
<1>3. goods' = IF Recovered(r) = "yes" THEN UpTo(goods, policy.recover)
               ELSE IF Recovered(r) = "no" THEN 0 ELSE goods
  BY SignalsAgree DEF Observe
<1>4. highs' \in 0 .. policy.trigger /\ goods' \in 0 .. policy.recover
  BY <1>1, <1>2, <1>3 DEF UpTo
<1>5. closed' = (SameNotice /\ (closed \/ goods' = policy.recover)) /\ lost' = (lost /\ SameNotice)
  BY DEF Observe
<1>6. closed' \in BOOLEAN /\ lost' \in BOOLEAN
  BY <1>5 DEF SameNotice
<1>. QED
  BY <1>2, <1>3, <1>4, <1>5, <1>6

\* A poll's reading counts in the streaks as in the readings.
LEMMA ObservedPollKeepsInv ==
  ASSUME NoticesInv, [SafetyNext]_safetyVars, NEW r \in Readings, Poll(r)
  PROVE  NoticesInv'
<1>1. /\ up /\ up' = up /\ policy' = policy /\ serialised' = serialised /\ signals' = r
      /\ memoryStoreUp' = memoryStoreUp /\ memoryFile' = memoryFile
      /\ Process(r) /\ Observe(r)
  BY DEF Poll
<1>2. /\ policy.trigger \in Nat \ {0} /\ policy.recover \in Nat \ {0}
      /\ triggerStreak \in 0 .. policy.trigger /\ highs \in 0 .. policy.trigger
      /\ recoveryStreak \in 0 .. policy.recover /\ goods \in 0 .. policy.recover
      /\ issue \in {"none", "shown", "dismissed"}
  BY PolicyCounts DEF NoticesInv, Types
<1>3. /\ highs' = IF Trigger(r) = "yes" THEN UpTo(highs, policy.trigger)
                  ELSE IF Trigger(r) = "no" THEN 0 ELSE highs
      /\ goods' = IF Recovered(r) = "yes" THEN UpTo(goods, policy.recover)
                  ELSE IF Recovered(r) = "no" THEN 0 ELSE goods
      /\ highs' \in 0 .. policy.trigger /\ goods' \in 0 .. policy.recover
      /\ closed' \in BOOLEAN /\ lost' \in BOOLEAN
  BY <1>1, ObserveOutcome
<1>4. /\ closed' => SameNotice /\ (closed \/ goods' = policy.recover)
      /\ ~lost' => ~lost \/ ~SameNotice
  BY <1>1, ObserveOutcome
<1>5. SignalsAreCounted'
  <2>1. Trigger(signals)' = Trigger(r) /\ Recovered(signals)' = Recovered(r)
    BY <1>1 DEF Trigger, Recovered, Matches
  <2>. QED
    BY <1>1, <1>3, <2>1 DEF SignalsAreCounted
<1>6. CASE Trigger(r) = "yes"
  <2>1. Danger(r) /\ Recovered(r) = "no" /\ goods' = 0
    BY <1>1, <1>3, <1>6, SignalsAgree DEF Process
  <2>2. /\ triggerStreak' \in 0 .. policy.trigger /\ triggerStreak' >= triggerStreak
        /\ triggerStreak' = IF Matches(r) THEN policy.trigger
                            ELSE UpTo(triggerStreak, policy.trigger)
        /\ recoveryStreak' = 0
        /\ issue' \in {issue, "shown"} /\ memory' \in BOOLEAN /\ saving' \in BOOLEAN
        /\ issue' = issue => memory' = memory /\ saving' = saving
        /\ issue' # issue => memory' = FALSE /\ triggerStreak' >= policy.trigger
    BY <2>1, DangerOutcome
  <2>3. Types'
    BY <1>1, <1>2, <1>3, <2>2, SamePolicy DEF NoticesInv, Types
  <2>4. StreaksAreReadings'
    <3>1. highs' <= triggerStreak'
      BY <1>1, <1>2, <1>3, <1>6, <2>2 DEF NoticesInv, StreaksAreReadings, UpTo
    <3>2. ASSUME serialised, issue' = "none" PROVE triggerStreak' <= highs'
      <4>1. issue = "none" /\ triggerStreak <= highs
        BY <1>1, <1>2, <2>2, <3>2 DEF NoticesInv, StreaksAreReadings
      <4>2. ~(triggerStreak' >= policy.trigger)
        BY <2>1, <3>2, <4>1, DangerOutcome
      <4>. QED
        BY <1>2, <1>3, <1>6, <2>2, <4>1, <4>2 DEF UpTo
    <3>. QED
      BY <1>1, <2>1, <2>2, <3>1, <3>2 DEF StreaksAreReadings
  <2>5. RecoveryIsRemembered'
    <3>1. ASSUME issue' # "none", closed', ~lost' PROVE memory'
      <4>1. issue' = issue /\ closed /\ ~lost
        BY <1>2, <1>4, <2>1, <2>2, <3>1 DEF SameNotice
      <4>. QED
        BY <1>1, <2>2, <3>1, <4>1 DEF NoticesInv, RecoveryIsRemembered
    <3>2. ASSUME memoryStoreUp, ~saving', memory' PROVE memoryFile
      <4>1. memory' = memory /\ saving' = saving
        BY <2>2, <3>2
      <4>. QED
        BY <1>1, <3>2, <4>1 DEF NoticesInv, RecoveryIsRemembered
    <3>. QED
      BY <1>1, <3>1, <3>2 DEF RecoveryIsRemembered
  <2>. QED
    BY <1>5, <2>3, <2>4, <2>5 DEF NoticesInv
<1>7. CASE Trigger(r) # "yes"
  <2>1. Calm(r) /\ ~Matches(r)
    BY <1>1, <1>7, SignalsAgree DEF Process
  <2>2. /\ issue' \in {issue, "none"} /\ memory' \in BOOLEAN /\ saving' \in BOOLEAN
        /\ issue' # issue => /\ triggerStreak' = 0 /\ recoveryStreak' = 0 /\ memory' = FALSE
                             /\ RecoveredFor(r) >= policy.recover
        /\ issue' = issue => /\ triggerStreak' = Lapsed(r)
                             /\ recoveryStreak' = IF issue = "none" THEN 0 ELSE RecoveredFor(r)
                             /\ memory => memory'
                             /\ saving => saving'
                             /\ memory' /\ ~memory /\ memoryStoreUp => saving'
                             /\ issue # "none" /\ RecoveredFor(r) >= policy.recover => memory'
    BY <2>1, CalmOutcome
  <2>3. /\ RecoveredFor(r) = IF Recovered(r) = "yes" THEN UpTo(recoveryStreak, policy.recover)
                             ELSE IF Recovered(r) = "no" THEN 0 ELSE recoveryStreak
        /\ RecoveredFor(r) \in 0 .. policy.recover
    <3>1. RecoveredFor(r) = IF Recovered(r) = "yes" THEN UpTo(recoveryStreak, policy.recover)
                            ELSE IF Recovered(r) = "no" THEN 0 ELSE recoveryStreak
      BY SignalsAgree DEF RecoveredFor
    <3>. QED
      BY <1>2, <3>1 DEF UpTo
  <2>4. Lapsed(r) = (IF Trigger(r) = "no" THEN 0 ELSE triggerStreak)
        /\ Lapsed(r) \in 0 .. policy.trigger
    BY <1>2 DEF Lapsed
  <2>5. Types'
    BY <1>1, <1>2, <1>3, <2>2, <2>3, <2>4, SamePolicy DEF NoticesInv, Types
  <2>6. RecoveredFor(r) > 0 => highs' = 0
    BY <1>1, <1>2, <1>3, <1>7, <2>3, SignalsAgree DEF NoticesInv, StreaksAreReadings
  <2>7. StreaksAreReadings'
    <3>1. CASE issue' # issue
      <4>1. issue' = "none" /\ triggerStreak' = 0 /\ recoveryStreak' = 0 /\ highs' = 0
        BY <1>2, <2>2, <2>3, <2>6, <3>1
      <4>. QED
        BY <1>3, <4>1 DEF StreaksAreReadings
    <3>2. CASE issue' = issue
      <4>1. highs' <= triggerStreak'
        BY <1>1, <1>2, <1>3, <1>7, <2>2, <2>4, <3>2 DEF NoticesInv, StreaksAreReadings
      <4>2. issue' # "none" => goods' <= recoveryStreak'
        BY <1>1, <1>2, <1>3, <2>2, <2>3, <3>2 DEF NoticesInv, StreaksAreReadings, UpTo
      <4>3. serialised => recoveryStreak' <= goods'
        BY <1>1, <1>2, <1>3, <2>2, <2>3, <3>2 DEF NoticesInv, StreaksAreReadings, UpTo
      <4>4. serialised /\ issue' = "none" => triggerStreak' <= highs'
        BY <1>1, <1>2, <1>3, <1>7, <2>2, <2>4, <3>2 DEF NoticesInv, StreaksAreReadings
      <4>5. recoveryStreak' > 0 => highs' = 0
        BY <2>2, <2>6, <3>2
      <4>. QED
        BY <1>1, <4>1, <4>2, <4>3, <4>4, <4>5 DEF StreaksAreReadings
    <3>. QED
      BY <3>1, <3>2
  <2>8. RecoveryIsRemembered'
    <3>1. ASSUME issue' # "none", closed', ~lost' PROVE memory'
      <4>1. issue' = issue /\ SameNotice /\ (closed \/ goods' = policy.recover) /\ ~lost
        BY <1>4, <2>2, <3>1 DEF SameNotice
      <4>2. CASE closed
        BY <1>1, <2>2, <3>1, <4>1, <4>2 DEF NoticesInv, RecoveryIsRemembered
      <4>3. CASE goods' = policy.recover
        <5>1. RecoveredFor(r) >= policy.recover
          BY <1>1, <1>2, <1>3, <2>3, <3>1, <4>1, <4>3 DEF NoticesInv, StreaksAreReadings, UpTo
        <5>. QED
          BY <2>2, <3>1, <4>1, <5>1
      <4>. QED
        BY <4>1, <4>2, <4>3
    <3>2. ASSUME memoryStoreUp, ~saving', memory' PROVE memoryFile
      BY <1>1, <2>2, <3>2, CalmOutcome, <2>1 DEF NoticesInv, RecoveryIsRemembered, Types
    <3>. QED
      BY <1>1, <3>1, <3>2 DEF RecoveryIsRemembered
  <2>. QED
    BY <1>5, <2>5, <2>7, <2>8 DEF NoticesInv
<1>. QED
  BY <1>6, <1>7

\* A poll counted again moves the manager's streaks, and nothing the readings say.
LEMMA ReplayKeepsInv ==
  ASSUME NoticesInv, [SafetyNext]_safetyVars, Replay
  PROVE  NoticesInv'
<1> DEFINE r == signals
<1>1. /\ up /\ ~serialised /\ up' = up /\ policy' = policy /\ serialised' = serialised
      /\ signals' = signals /\ highs' = highs /\ goods' = goods
      /\ memoryStoreUp' = memoryStoreUp /\ memoryFile' = memoryFile
      /\ Process(r)
      /\ closed' = (closed /\ SameNotice) /\ lost' = (lost /\ SameNotice)
  BY DEF Replay
<1>2. /\ policy.trigger \in Nat \ {0} /\ policy.recover \in Nat \ {0}
      /\ triggerStreak \in 0 .. policy.trigger /\ highs \in 0 .. policy.trigger
      /\ recoveryStreak \in 0 .. policy.recover /\ goods \in 0 .. policy.recover
      /\ issue \in {"none", "shown", "dismissed"} /\ r \in Readings
  BY PolicyCounts DEF NoticesInv, Types
<1>3. closed' \in BOOLEAN /\ lost' \in BOOLEAN
  BY <1>1 DEF SameNotice
<1>4. (closed' => closed /\ SameNotice) /\ (~lost' => ~lost \/ ~SameNotice)
  BY <1>1
<1>5. SignalsAreCounted'
  <2>1. Trigger(signals)' = Trigger(signals) /\ Recovered(signals)' = Recovered(signals)
    BY <1>1 DEF Trigger, Recovered, Matches
  <2>. QED
    BY <1>1, <2>1 DEF NoticesInv, SignalsAreCounted
<1>6. (Trigger(r) = "no" => highs = 0) /\ (Recovered(r) = "no" => goods = 0)
  BY DEF NoticesInv, SignalsAreCounted
<1> HIDE DEF r
<1>7. CASE Trigger(r) = "yes"
  <2>1. Danger(r) /\ goods = 0
    BY <1>1, <1>2, <1>6, <1>7, SignalsAgree DEF Process
  <2>2. /\ triggerStreak' \in 0 .. policy.trigger /\ triggerStreak' >= triggerStreak
        /\ recoveryStreak' = 0
        /\ issue' \in {issue, "shown"} /\ memory' \in BOOLEAN /\ saving' \in BOOLEAN
        /\ issue' = issue => memory' = memory /\ saving' = saving
        /\ issue' # issue => memory' = FALSE
    BY <1>2, <2>1, DangerOutcome
  <2>3. Types'
    BY <1>1, <1>2, <1>3, <2>2, SamePolicy DEF NoticesInv, Types
  <2>4. StreaksAreReadings'
    BY <1>1, <1>2, <2>1, <2>2 DEF NoticesInv, StreaksAreReadings
  <2>5. RecoveryIsRemembered'
    <3>1. ASSUME issue' # "none", closed', ~lost' PROVE memory'
      <4>1. issue' = issue /\ closed /\ ~lost
        BY <1>2, <1>4, <2>2, <3>1 DEF SameNotice
      <4>. QED
        BY <1>1, <2>2, <3>1, <4>1 DEF NoticesInv, RecoveryIsRemembered
    <3>2. ASSUME memoryStoreUp, ~saving', memory' PROVE memoryFile
      <4>1. memory' = memory /\ saving' = saving
        BY <2>2, <3>2
      <4>. QED
        BY <1>1, <3>2, <4>1 DEF NoticesInv, RecoveryIsRemembered
    <3>. QED
      BY <1>1, <3>1, <3>2 DEF RecoveryIsRemembered
  <2>. QED
    BY <1>5, <2>3, <2>4, <2>5 DEF NoticesInv
<1>8. CASE Trigger(r) # "yes"
  <2>1. Calm(r)
    BY <1>1, <1>8 DEF Process
  <2>2. /\ issue' \in {issue, "none"} /\ memory' \in BOOLEAN /\ saving' \in BOOLEAN
        /\ issue' # issue => /\ triggerStreak' = 0 /\ recoveryStreak' = 0 /\ memory' = FALSE
                             /\ RecoveredFor(r) >= policy.recover
        /\ issue' = issue => /\ triggerStreak' = Lapsed(r)
                             /\ recoveryStreak' = IF issue = "none" THEN 0 ELSE RecoveredFor(r)
                             /\ memory => memory'
                             /\ saving => saving'
                             /\ memory' /\ ~memory /\ memoryStoreUp => saving'
    BY <1>2, <2>1, CalmOutcome
  <2>3. /\ RecoveredFor(r) = IF Recovered(r) = "yes" THEN UpTo(recoveryStreak, policy.recover)
                             ELSE IF Recovered(r) = "no" THEN 0 ELSE recoveryStreak
        /\ RecoveredFor(r) \in 0 .. policy.recover
    <3>1. RecoveredFor(r) = IF Recovered(r) = "yes" THEN UpTo(recoveryStreak, policy.recover)
                            ELSE IF Recovered(r) = "no" THEN 0 ELSE recoveryStreak
      BY <1>2, SignalsAgree DEF RecoveredFor
    <3>. QED
      BY <1>2, <3>1 DEF UpTo
  <2>4. Lapsed(r) = (IF Trigger(r) = "no" THEN 0 ELSE triggerStreak)
        /\ Lapsed(r) \in 0 .. policy.trigger
    BY <1>2 DEF Lapsed
  <2>5. Types'
    BY <1>1, <1>2, <1>3, <2>2, <2>3, <2>4, SamePolicy DEF NoticesInv, Types
  <2>6. RecoveredFor(r) > 0 => highs = 0
    BY <1>1, <1>2, <1>6, <2>3, SignalsAgree DEF NoticesInv, StreaksAreReadings
  <2>7. StreaksAreReadings'
    <3>1. CASE issue' # issue
      <4>1. issue' = "none" /\ triggerStreak' = 0 /\ recoveryStreak' = 0 /\ highs' = 0
        BY <1>1, <1>2, <2>2, <2>3, <2>6, <3>1
      <4>. QED
        BY <1>1, <4>1 DEF StreaksAreReadings
    <3>2. CASE issue' = issue
      <4>1. highs' <= triggerStreak'
        BY <1>1, <1>2, <1>6, <2>2, <2>4, <3>2 DEF NoticesInv, StreaksAreReadings
      <4>2. issue' # "none" => goods' <= recoveryStreak'
        BY <1>1, <1>2, <1>6, <2>2, <2>3, <3>2 DEF NoticesInv, StreaksAreReadings, UpTo
      <4>3. recoveryStreak' > 0 => highs' = 0
        BY <1>1, <2>2, <2>6, <3>2
      <4>. QED
        BY <1>1, <4>1, <4>2, <4>3 DEF StreaksAreReadings
    <3>. QED
      BY <3>1, <3>2
  <2>8. RecoveryIsRemembered'
    <3>1. ASSUME issue' # "none", closed', ~lost' PROVE memory'
      <4>1. issue' = issue /\ closed /\ ~lost
        BY <1>4, <2>2, <3>1 DEF SameNotice
      <4>. QED
        BY <1>1, <2>2, <3>1, <4>1 DEF NoticesInv, RecoveryIsRemembered
    <3>2. ASSUME memoryStoreUp, ~saving', memory' PROVE memoryFile
      BY <1>1, <2>2, <3>2, CalmOutcome, <2>1 DEF NoticesInv, RecoveryIsRemembered, Types
    <3>. QED
      BY <1>1, <3>1, <3>2 DEF RecoveryIsRemembered
  <2>. QED
    BY <1>5, <2>5, <2>7, <2>8 DEF NoticesInv
<1>. QED
  BY <1>7, <1>8

\* The user's hand, a save and a restart keep the memory with the notice.
LEMMA OthersKeepInv ==
  ASSUME NoticesInv, [SafetyNext]_safetyVars,
         \/ Dismiss \/ Restore \/ Write \/ Stop \/ HaDies \/ NewManager
         \/ UNCHANGED safetyVars
  PROVE  NoticesInv'
<1>1. /\ policy' = policy /\ serialised' = serialised /\ signals' = signals
      /\ Readings' = Readings
  BY SamePolicy DEF Dismiss, Restore, Write, Stop, HaDies, Down, NewManager, safetyVars
<1>2. Trigger(signals)' = Trigger(signals) /\ Recovered(signals)' = Recovered(signals)
  BY <1>1 DEF Trigger, Recovered, Matches
<1>3. /\ policy.trigger \in Nat \ {0} /\ policy.recover \in Nat \ {0}
      /\ 0 \in 0 .. policy.trigger /\ 0 \in 0 .. policy.recover
      /\ triggerStreak \in 0 .. policy.trigger /\ highs \in 0 .. policy.trigger
      /\ recoveryStreak \in 0 .. policy.recover /\ goods \in 0 .. policy.recover
  BY PolicyCounts DEF NoticesInv, Types
<1>4. ASSUME Dismiss \/ Restore PROVE NoticesInv'
  <2>1. /\ issue \in {"shown", "dismissed"} /\ issue' \in {"shown", "dismissed"}
        /\ UNCHANGED <<up, managerVars, memoryFile, highs, goods, closed, lost>>
    BY <1>4 DEF Dismiss, Restore
  <2>2. Types'
    BY <1>1, <2>1 DEF NoticesInv, Types
  <2>3. SignalsAreCounted' /\ StreaksAreReadings'
    BY <1>1, <1>2, <2>1 DEF NoticesInv, SignalsAreCounted, StreaksAreReadings
  <2>4. RecoveryIsRemembered'
    BY <2>1 DEF NoticesInv, RecoveryIsRemembered
  <2>. QED
    BY <2>2, <2>3, <2>4 DEF NoticesInv
<1>5. ASSUME Write PROVE NoticesInv'
  <2>1. /\ up /\ up' = up /\ memoryFile' = memory /\ saving' = FALSE
        /\ UNCHANGED <<issue, triggerStreak, recoveryStreak, memory, memoryStoreUp,
                       highs, goods, closed, lost>>
    BY <1>5 DEF Write
  <2>2. Types'
    BY <1>1, <2>1 DEF NoticesInv, Types
  <2>3. SignalsAreCounted' /\ StreaksAreReadings'
    BY <1>1, <1>2, <2>1 DEF NoticesInv, SignalsAreCounted, StreaksAreReadings
  <2>4. RecoveryIsRemembered'
    BY <2>1 DEF NoticesInv, RecoveryIsRemembered
  <2>. QED
    BY <2>2, <2>3, <2>4 DEF NoticesInv
<1>6. ASSUME Stop \/ HaDies PROVE NoticesInv'
  <2>1. /\ up /\ up' = FALSE /\ saving' = FALSE /\ highs' = 0 /\ goods' = 0
        /\ UNCHANGED <<issue, triggerStreak, recoveryStreak, memory, memoryStoreUp, closed>>
        /\ memoryFile' \in {memory, memoryFile} /\ lost' \in BOOLEAN
    <3>1. saving \in BOOLEAN /\ lost \in BOOLEAN /\ memoryStoreUp \in BOOLEAN
      BY DEF NoticesInv, Types
    <3>. QED
      BY <1>6, <3>1 DEF Stop, HaDies, Down
  <2>2. Types'
    <3>1. memoryFile' \in BOOLEAN
      BY <2>1 DEF NoticesInv, Types
    <3>. QED
      BY <1>1, <1>3, <2>1, <3>1 DEF NoticesInv, Types
  <2>3. SignalsAreCounted' /\ StreaksAreReadings'
    BY <1>1, <1>2, <1>3, <2>1 DEF NoticesInv, SignalsAreCounted, StreaksAreReadings
  <2>4. ASSUME issue' # "none", closed', ~lost' PROVE memoryFile'
    <3>1. memory /\ memoryStoreUp
      BY <1>6, <2>1, <2>4 DEF NoticesInv, RecoveryIsRemembered, Stop, HaDies
    <3>2. CASE Stop
      <4>1. memoryFile' = IF saving THEN memory ELSE memoryFile
        BY <3>2 DEF Stop
      <4>. QED
        BY <2>1, <3>1, <4>1 DEF NoticesInv, RecoveryIsRemembered
    <3>3. CASE HaDies
      <4>1. memoryFile' = memoryFile /\ ~saving
        BY <2>4, <3>3 DEF HaDies
      <4>. QED
        BY <2>1, <3>1, <4>1 DEF NoticesInv, RecoveryIsRemembered
    <3>. QED
      BY <1>6, <3>2, <3>3
  <2>5. RecoveryIsRemembered'
    BY <2>1, <2>4 DEF RecoveryIsRemembered
  <2>. QED
    BY <2>2, <2>3, <2>5 DEF NoticesInv
<1>7. ASSUME NewManager PROVE NoticesInv'
  <2>1. /\ ~up /\ up' = TRUE /\ memoryStoreUp' \in BOOLEAN
        /\ memory' = (memoryStoreUp' /\ memoryFile)
        /\ triggerStreak' = 0 /\ recoveryStreak' = 0
        /\ lost' = (lost \/ ~memoryStoreUp')
        /\ UNCHANGED <<issue, memoryFile, saving, highs, goods, closed>>
    BY <1>7 DEF NewManager
  <2>2. highs = 0 /\ goods = 0
    BY <2>1 DEF NoticesInv, SignalsAreCounted
  <2>3. Types'
    <3>1. memory' \in BOOLEAN /\ lost' \in BOOLEAN
      BY <2>1
    <3>. QED
      BY <1>1, <1>3, <2>1, <3>1 DEF NoticesInv, Types
  <2>4. SignalsAreCounted' /\ StreaksAreReadings'
    BY <1>3, <2>1, <2>2 DEF SignalsAreCounted, StreaksAreReadings
  <2>5. RecoveryIsRemembered'
    BY <2>1 DEF NoticesInv, RecoveryIsRemembered
  <2>. QED
    BY <2>3, <2>4, <2>5 DEF NoticesInv
<1>8. ASSUME UNCHANGED safetyVars PROVE NoticesInv'
  <2>1. Types'
    BY <1>1, <1>8 DEF NoticesInv, Types, safetyVars
  <2>2. SignalsAreCounted' /\ StreaksAreReadings' /\ RecoveryIsRemembered'
    BY <1>2, <1>8
       DEF NoticesInv, SignalsAreCounted, StreaksAreReadings, RecoveryIsRemembered, safetyVars
  <2>. QED
    BY <2>1, <2>2 DEF NoticesInv
<1>. QED
  BY <1>4, <1>5, <1>6, <1>7, <1>8

LEMMA NoticesInvNext == NoticesInv /\ [SafetyNext]_safetyVars => NoticesInv'
BY ObservedPollKeepsInv, ReplayKeepsInv, OthersKeepInv DEF SafetyNext

-------------------------------------------------------------------------------
\* For any policies, over restarts, crashes and broken stores, the manager has counted
\* what was read and remembers a recovery where the next one will find it.
THEOREM NoticesInvHolds == SafetySpec => []NoticesInv
<1>. QED
  BY NoticesInvInit, NoticesInvNext, PTL DEF SafetySpec

\* For any policies, safety.py raises and clears no notice on less evidence than its
\* policy asks for.
THEOREM NoticesMoveOnEvidence == SafetySpec => MovedOnEvidence
<1>1. NoticesInv /\ [SafetyNext]_safetyVars =>
        [ serialised /\ issue = "none" /\ issue' # "none"
          => Matches(signals') \/ highs' = policy.trigger ]_safetyVars
  <2> SUFFICES ASSUME NoticesInv, SafetyNext, serialised, issue = "none", issue' # "none"
               PROVE  Matches(signals') \/ highs' = policy.trigger
    BY DEF safetyVars
  <2>1. PICK r \in Readings : Poll(r)
    BY DEF SafetyNext, Replay, Dismiss, Restore, Write, Stop, HaDies, Down, NewManager
  <2>2. up /\ signals' = r /\ Process(r) /\ Observe(r)
    BY <2>1 DEF Poll
  <2>3. CASE Trigger(r) = "yes"
    <3>1. Danger(r)
      BY <2>2, <2>3 DEF Process
    <3>2. /\ triggerStreak' >= policy.trigger
          /\ triggerStreak' = IF Matches(r) THEN policy.trigger
                              ELSE UpTo(triggerStreak, policy.trigger)
      BY <3>1, DangerOutcome
    <3>3. highs' = UpTo(highs, policy.trigger)
      BY <2>2, <2>3, ObserveOutcome
    <3>4. /\ policy.trigger \in Nat \ {0} /\ triggerStreak \in 0 .. policy.trigger
          /\ highs \in 0 .. policy.trigger
      BY PolicyCounts DEF NoticesInv, Types
    <3>5. triggerStreak <= highs
      BY <2>2 DEF NoticesInv, StreaksAreReadings
    <3>6. ASSUME ~Matches(r) PROVE highs' = policy.trigger
      BY <3>2, <3>3, <3>4, <3>5, <3>6 DEF UpTo
    <3>. QED
      BY <2>2, <3>6
  <2>4. CASE Trigger(r) # "yes"
    <3>1. Calm(r)
      BY <2>2, <2>4 DEF Process
    <3>. QED
      BY <3>1, CalmOutcome
  <2>. QED
    BY <2>3, <2>4
<1>2. NoticesInv /\ [SafetyNext]_safetyVars =>
        [ serialised /\ issue # "none" /\ issue' = "none"
          => goods' = policy.recover /\ (policy.latched => issue = "dismissed") ]_safetyVars
  <2> SUFFICES ASSUME NoticesInv, SafetyNext, serialised, issue # "none", issue' = "none"
               PROVE  goods' = policy.recover /\ (policy.latched => issue = "dismissed")
    BY DEF safetyVars
  <2>1. PICK r \in Readings : Poll(r)
    BY DEF SafetyNext, Replay, Dismiss, Restore, Write, Stop, HaDies, Down, NewManager
  <2>2. up /\ signals' = r /\ Process(r) /\ Observe(r)
    BY <2>1 DEF Poll
  <2>3. CASE Trigger(r) = "yes"
    <3>1. Danger(r)
      BY <2>2, <2>3 DEF Process
    <3>. QED
      BY <3>1, DangerOutcome
  <2>4. CASE Trigger(r) # "yes"
    <3>1. Calm(r)
      BY <2>2, <2>4 DEF Process
    <3>2. RecoveredFor(r) >= policy.recover /\ (policy.latched => issue = "dismissed")
      BY <3>1, CalmOutcome
    <3>3. goods' = IF Recovered(r) = "yes" THEN UpTo(goods, policy.recover)
                   ELSE IF Recovered(r) = "no" THEN 0 ELSE goods
      BY <2>2, ObserveOutcome
    <3>4. /\ policy.recover \in Nat \ {0} /\ recoveryStreak \in 0 .. policy.recover
          /\ goods \in 0 .. policy.recover /\ recoveryStreak <= goods
      BY <2>2, PolicyCounts DEF NoticesInv, Types, StreaksAreReadings
    <3>5. RecoveredFor(r) = IF Recovered(r) = "yes" THEN UpTo(recoveryStreak, policy.recover)
                            ELSE IF Recovered(r) = "no" THEN 0 ELSE recoveryStreak
      BY SignalsAgree DEF RecoveredFor
    <3>6. goods' = policy.recover
      BY <3>2, <3>3, <3>4, <3>5 DEF UpTo
    <3>. QED
      BY <3>2, <3>6
  <2>. QED
    BY <2>3, <2>4
<1>. QED
  BY <1>1, <1>2, NoticesInvHolds, PTL
     DEF SafetySpec, MovedOnEvidence, RaisedOnEvidence, ClearedOnEvidence

\* For any policies, no dismissal, made in this run of Home Assistant or before, hides the
\* notice of a danger that has recovered and returns.
THEOREM DismissalHidesNothingNew == SafetySpec => NewIncidentIsSeen
<1>1. NoticesInv =>
        [ /\ \E r \in Readings : Poll(r)
          /\ issue = "dismissed" /\ closed /\ ~lost
          /\ Trigger(signals') = "yes" /\ (Matches(signals') \/ highs' = policy.trigger)
          => issue' = "shown" ]_safetyVars
  <2> SUFFICES ASSUME NoticesInv, NEW r \in Readings, Poll(r),
                      issue = "dismissed", closed, ~lost, Trigger(signals') = "yes",
                      Matches(signals') \/ highs' = policy.trigger
               PROVE  issue' = "shown"
    OBVIOUS
  <2>1. up /\ signals' = r /\ Process(r) /\ Observe(r)
    BY DEF Poll
  <2>2. Danger(r) /\ Trigger(r) = "yes"
    BY <2>1 DEF Process
  <2>3. Stale
    BY <2>1 DEF NoticesInv, RecoveryIsRemembered, Stale
  <2>4. /\ policy.trigger \in Nat \ {0} /\ triggerStreak \in 0 .. policy.trigger
        /\ highs \in 0 .. policy.trigger /\ highs <= triggerStreak
    BY <2>1, PolicyCounts DEF NoticesInv, Types, StreaksAreReadings
  <2>5. triggerStreak' = IF Matches(r) THEN policy.trigger ELSE UpTo(triggerStreak, policy.trigger)
    BY <2>2, DangerOutcome
  <2>6. highs' = UpTo(highs, policy.trigger)
    BY <2>1, <2>2, ObserveOutcome
  <2>7. Matches(r) \/ highs' = policy.trigger
    BY <2>1
  <2>8. triggerStreak' >= policy.trigger
    BY <2>4, <2>5, <2>6, <2>7 DEF UpTo
  <2>. QED
    BY <2>2, <2>3, <2>8, DangerOutcome
<1>. QED
  BY <1>1, NoticesInvHolds, PTL DEF NewIncidentIsSeen

-------------------------------------------------------------------------------
(***************************************************************************)
(* The guard of the lifetime meters. The inductive invariant MeterInv      *)
(* relates the three places a reading is kept in (the guard, the file,     *)
(* Home Assistant's own record) to the charger's present life of the       *)
(* meter. Two facts carry it: a life that has passed is never read again,  *)
(* and a starting charger's zeros are too few for the guard to believe     *)
(* them.                                                                   *)
(***************************************************************************)

Sight == [life : Nat, value : Nat \cup {Unknown}]

MeterTypes ==
    /\ real \in [Meters -> [life : Nat, value : Nat]]
    /\ zeros \in 0 .. BootPolls
    /\ run \in {"down", "up", "closing", "removed"}
    /\ poll \in {"idle", "asked", "read", "zeroed"}
    /\ {reading, accepted, file, recorded} \subseteq [Meters -> Sight]
    /\ pending \subseteq [Meters -> Sight]
    /\ drops \in [Meters -> Nat] /\ owed \in [Meters -> Nat]
    /\ command \in Meters \cup {"none"}
    /\ settled \subseteq Meters

\* What was read of a meter is of an earlier life of it, or no more than it shows now.
Past(r, k) ==
    /\ r.life <= real[k].life
    /\ r.life = real[k].life => r.value <= real[k].value

\* Whatever is remembered was read.
AllIsPast(k) ==
    /\ Past(accepted[k], k) /\ Past(recorded[k], k) /\ Past(file[k], k)
    /\ \A written \in pending : Past(written[k], k)
    /\ owed[k] <= real[k].life

\* What the poll has read is newer than what is remembered, or a starting charger's zero.
ReadingIsNew(k) ==
    /\ poll \in {"idle", "asked"} => ~Known(reading[k])
    /\ Known(reading[k]) =>
          /\ Past(reading[k], k)
          /\ accepted[k].life <= reading[k].life /\ recorded[k].life <= reading[k].life
          /\ poll = "zeroed" => reading[k].value = 0
          /\ poll = "read" =>
                /\ reading[k].life = accepted[k].life => reading[k].value >= accepted[k].value
                /\ reading[k].life = recorded[k].life => reading[k].value >= recorded[k].value

ZerosToCome == IF poll = "zeroed" THEN zeros + 1 ELSE zeros

\* The charger or the poll is still in the life that was accepted.
SameLife(k) ==
    \/ accepted[k].life = real[k].life
    \/ Known(reading[k]) /\ accepted[k].life = reading[k].life

\* In one life only a starting charger's zeros are held, and they are too few.
DropsAreZeros(k) ==
    /\ SameLife(k) => drops[k] + ZerosToCome <= BootPolls
    /\ k \in settled /\ accepted[k].life = real[k].life => drops[k] = 0

\* Whose life is known to be over, in the charger and in the poll under way.
Renewed(r, k) ==
    /\ r.life < real[k].life
    /\ Known(reading[k]) => r.life < reading[k].life

\* A reset the guard was told of, and no poll overtook, began a life not yet accepted.
ResetsAreNew(k) ==
    run \in {"up", "closing"} /\ k \in resets \ raced =>
        Renewed(accepted[k], k) /\ Renewed(recorded[k], k)

CommandIsNew(k) ==
    run \in {"up", "closing"} /\ command = k /\ k \in behind => recorded[k].life < real[k].life

\* What the guard holds, or the file while the entry is down, is no older than what Home
\* Assistant recorded, and no lower unless a poll overtook a reset.
Covers(r, k) ==
    /\ recorded[k].life <= r.life
    /\ recorded[k].life = r.life =>
          \/ recorded[k].value <= r.value
          \/ r.value = 0 /\ (k \in raced \/ Renewed(recorded[k], k))

RecordIsCovered(k) ==
    k \notin behind =>
        /\ run \in {"up", "closing"} => Covers(accepted[k], k)
        /\ run = "down" => Covers(file[k], k) /\ file[k].life <= accepted[k].life

\* While a meter is behind, its first reading is still to come.
BehindIsUnread(k) == run = "up" /\ k \in behind => drops[k] = 0

\* A reset that is owed is one the guard was told of, before the poll that is out.
OwedIsTold(k) ==
    k \notin raced /\ owed[k] > 0 =>
        /\ run = "up" \/ poll # "idle" => k \in resets
        /\ Known(reading[k]) => reading[k].life >= owed[k]

NothingIsScheduled ==
    /\ run \in {"down", "removed"} => pending = Nothing
    /\ run = "removed" => file = Empty
    /\ settled # {} => zeros = 0 /\ poll # "zeroed"
    /\ ZerosToCome <= BootPolls

MeterInvAt(k) ==
    /\ AllIsPast(k) /\ ReadingIsNew(k) /\ DropsAreZeros(k) /\ ResetsAreNew(k)
    /\ CommandIsNew(k) /\ RecordIsCovered(k) /\ BehindIsUnread(k) /\ OwedIsTold(k)

MeterInv == MeterTypes /\ NothingIsScheduled /\ \A k \in Meters : MeterInvAt(k)

USE DEF chargerVars, pollVars, guardVars, storeVars, ghostVars, Unknown, Known, Nothing, Sight

\* Every record of a meter is typed.
LEMMA ReadingsAreTyped ==
    ASSUME MeterTypes, NEW k \in Meters
    PROVE  /\ real[k].life \in Nat /\ real[k].value \in Nat
           /\ \A f \in {reading, accepted, file, recorded} \cup pending :
                 f[k].life \in Nat /\ f[k].value \in Nat \cup {Unknown}
           /\ drops[k] \in Nat /\ owed[k] \in Nat
BY DEF MeterTypes

\* An empty record reads nothing of any meter.
LEMMA EmptyIsTyped ==
    /\ Empty \in [Meters -> Sight]
    /\ \A k \in Meters : Empty[k] = NoReading
BY DEF Empty, NoReading

\* The invariant holds at first.
LEMMA MeterInvInit == MeterInit => MeterInv
<1> SUFFICES ASSUME MeterInit PROVE MeterInv
  OBVIOUS
<1> USE MeterAssumption DEF MeterInit
<1>1. MeterTypes
  BY EmptyIsTyped DEF MeterTypes
<1>2. NothingIsScheduled
  BY DEF NothingIsScheduled, ZerosToCome
<1>3. ASSUME NEW k \in Meters PROVE MeterInvAt(k)
  BY EmptyIsTyped DEF MeterInvAt, AllIsPast, ReadingIsNew, DropsAreZeros, ResetsAreNew,
     CommandIsNew, RecordIsCovered, BehindIsUnread, OwedIsTold, Past, Covers, NoReading,
     ZerosToCome, SameLife
<1>. QED
  BY <1>1, <1>2, <1>3 DEF MeterInv

-------------------------------------------------------------------------------
(* The charger.                                                            *)

\* A meter runs on, or begins a new life.
Grows(k) ==
    \/ real'[k] = real[k]
    \/ real'[k].life = real[k].life /\ real'[k].value = real[k].value + 1
    \/ real'[k].life = real[k].life + 1 /\ real'[k].value = 0

\* Nothing but the charger's own meters moves.
LEMMA RealGrows ==
    ASSUME MeterTypes, NEW c \in Meters, NEW k \in Meters,
           real' = [real EXCEPT ![c].value = @ + 1] \/ real' = NewLife(c)
    PROVE  Grows(k) /\ real' \in [Meters -> [life : Nat, value : Nat]]
<1>1. real[c] \in [life : Nat, value : Nat] /\ DOMAIN real = Meters
  BY DEF MeterTypes
<1>2. PICK r \in [life : Nat, value : Nat] :
          /\ real' = [real EXCEPT ![c] = r]
          /\ \/ r.life = real[c].life /\ r.value = real[c].value + 1
             \/ r.life = real[c].life + 1 /\ r.value = 0
  <2>1. CASE real' = [real EXCEPT ![c].value = @ + 1]
    <3> DEFINE r == [real[c] EXCEPT !.value = @ + 1]
    <3>1. r \in [life : Nat, value : Nat] /\ r.life = real[c].life /\ r.value = real[c].value + 1
      BY <1>1
    <3>2. real' = [real EXCEPT ![c] = r]
      BY <2>1
    <3>. QED
      BY <3>1, <3>2
  <2>2. CASE real' = NewLife(c)
    <3> DEFINE r == [life |-> real[c].life + 1, value |-> 0]
    <3>1. r \in [life : Nat, value : Nat] /\ r.life = real[c].life + 1 /\ r.value = 0
      BY <1>1
    <3>2. real' = [real EXCEPT ![c] = r]
      BY <2>2 DEF NewLife
    <3>. QED
      BY <3>1, <3>2
  <2>. QED
    BY <2>1, <2>2
<1>. QED
  BY <1>1, <1>2 DEF MeterTypes, Grows

\* Whatever the charger does to its meters, what was read of them is past.
LEMMA GrowthKeepsInv ==
    ASSUME MeterInv, real' \in [Meters -> [life : Nat, value : Nat]],
           \A k \in Meters : Grows(k),
           UNCHANGED <<zeros, settled, run, pollVars, guardVars, storeVars, ghostVars>>,
           command' = command \/ \E c \in Meters :
               command' = c /\ real'[c].life = real[c].life + 1
    PROVE  MeterInv'
<1> USE MeterAssumption
<1>1. MeterTypes'
  BY DEF MeterInv, MeterTypes
<1>2. NothingIsScheduled'
  BY DEF MeterInv, NothingIsScheduled, ZerosToCome
<1>3. ASSUME NEW k \in Meters PROVE MeterInvAt(k)'
  <2> USE ReadingsAreTyped, <1>1, <1>3
  <2>0. MeterTypes /\ MeterInvAt(k) /\ Grows(k)
    BY DEF MeterInv
  <2>1. AllIsPast(k)'
    BY <2>0 DEF MeterInvAt, AllIsPast, Past, Grows
  <2>2. ReadingIsNew(k)'
    BY <2>0 DEF MeterInvAt, ReadingIsNew, Past, Grows
  <2>3. DropsAreZeros(k)'
    BY <2>0 DEF MeterInvAt, DropsAreZeros, SameLife, ZerosToCome, Grows, AllIsPast, Past
  <2>4. ResetsAreNew(k)' /\ RecordIsCovered(k)'
    BY <2>0 DEF MeterInvAt, ResetsAreNew, RecordIsCovered, Covers, Renewed, Grows
  <2>5. CommandIsNew(k)'
    BY <2>0 DEF MeterInvAt, CommandIsNew, Grows, AllIsPast, Past
  <2>6. BehindIsUnread(k)' /\ OwedIsTold(k)'
    BY <2>0 DEF MeterInvAt, BehindIsUnread, OwedIsTold
  <2>. QED
    BY <2>1, <2>2, <2>3, <2>4, <2>5, <2>6 DEF MeterInvAt
<1>. QED
  BY <1>1, <1>2, <1>3 DEF MeterInv

\* The charger's steps are such growth.
LEMMA ChargerKeepsInv == MeterInv /\ ChargerNext => MeterInv'
<1> SUFFICES ASSUME MeterInv, ChargerNext PROVE MeterInv'
  OBVIOUS
<1>1. ASSUME NEW c \in Meters, Consume(c) \/ AppReset(c)
      PROVE  MeterInv'
  BY <1>1, RealGrows, GrowthKeepsInv DEF MeterInv, Consume, AppReset
<1>2. CASE PowerUp
  <2> USE MeterAssumption, <1>2 DEF PowerUp
  <2>1. MeterTypes'
    BY EmptyIsTyped DEF MeterInv, MeterTypes
  <2>2. NothingIsScheduled'
    <3>1. zeros' \in Nat /\ zeros' <= BootPolls /\ poll' # "zeroed"
      OBVIOUS
    <3>2. ZerosToCome' = zeros'
      BY <3>1 DEF ZerosToCome
    <3>. QED
      BY <3>1, <3>2 DEF MeterInv, NothingIsScheduled
  <2>3. ASSUME NEW k \in Meters PROVE MeterInvAt(k)'
    <3> USE ReadingsAreTyped, <2>1, <2>3
    <3>0. MeterTypes /\ MeterInvAt(k) /\ ~Known(reading'[k]) /\ k \in settled
      BY EmptyIsTyped DEF MeterInv, NoReading
    <3>1. AllIsPast(k)' /\ ReadingIsNew(k)'
      BY <3>0 DEF MeterInvAt, AllIsPast, Past, ReadingIsNew
    <3>2. DropsAreZeros(k)'
      BY <3>0 DEF MeterInvAt, DropsAreZeros, SameLife, ZerosToCome
    <3>3. ResetsAreNew(k)' /\ RecordIsCovered(k)'
      BY <3>0 DEF MeterInvAt, ResetsAreNew, RecordIsCovered, Covers, Renewed
    <3>4. CommandIsNew(k)'
      BY <3>0 DEF MeterInvAt, CommandIsNew
    <3>5. BehindIsUnread(k)' /\ OwedIsTold(k)'
      BY <3>0 DEF MeterInvAt, BehindIsUnread, OwedIsTold
    <3>. QED
      BY <3>1, <3>2, <3>3, <3>4, <3>5 DEF MeterInvAt
  <2>. QED
    BY <2>1, <2>2, <2>3 DEF MeterInv
<1>. QED
  BY <1>1, <1>2 DEF ChargerNext

-------------------------------------------------------------------------------
(* Polls.                                                                  *)

\* What the charger answers is its present life: its reading, or a zero.
LEMMA AnswerKeepsInv == MeterInv /\ Answer => MeterInv'
<1> SUFFICES ASSUME MeterInv, Answer PROVE MeterInv'
  OBVIOUS
<1> USE MeterAssumption
<1>1. PICK known \in SUBSET Meters :
          reading' = [k \in Meters |->
              IF k \notin known THEN NoReading
              ELSE IF zeros > 0 THEN [real[k] EXCEPT !.value = 0]
              ELSE real[k]]
  BY DEF Answer
<1>2. ASSUME NEW k \in Meters
      PROVE  /\ reading'[k] \in Sight
             /\ Known(reading'[k]) =>
                   /\ reading'[k].life = real[k].life
                   /\ reading'[k].value = IF zeros > 0 THEN 0 ELSE real[k].value
  <2>1. real[k] \in [life : Nat, value : Nat] /\ MeterTypes
    BY DEF MeterInv, MeterTypes
  <2>2. [real[k] EXCEPT !.value = 0] \in Sight /\ [real[k] EXCEPT !.value = 0].life = real[k].life
    BY <2>1
  <2>3. [real[k] EXCEPT !.value = 0].value = 0
    BY <2>1
  <2>4. NoReading \in Sight /\ ~Known(NoReading)
    BY DEF NoReading
  <2>5. CASE k \notin known
    BY <1>1, <2>4, <2>5
  <2>6. CASE k \in known /\ zeros > 0
    <3>1. reading'[k] = [real[k] EXCEPT !.value = 0]
      BY <1>1, <2>6
    <3>. QED
      BY <2>2, <2>3, <2>6, <3>1
  <2>7. CASE k \in known /\ ~(zeros > 0)
    BY <1>1, <2>1, <2>7
  <2>. QED
    BY <2>5, <2>6, <2>7
<1>3. reading' \in [Meters -> Sight]
  BY <1>1, <1>2
<1>4. /\ poll = "asked" /\ poll' = IF zeros > 0 THEN "zeroed" ELSE "read"
      /\ zeros' = IF zeros > 0 THEN zeros - 1 ELSE 0
      /\ UNCHANGED <<real, settled, run, guardVars, command, storeVars, ghostVars>>
  BY DEF Answer
<1>5. MeterTypes'
  BY <1>3, <1>4 DEF MeterInv, MeterTypes
<1>6. ZerosToCome' = ZerosToCome
  BY <1>4 DEF MeterInv, MeterTypes, ZerosToCome
<1>7. NothingIsScheduled'
  BY <1>4, <1>6 DEF MeterInv, NothingIsScheduled, MeterTypes
<1>8. ASSUME NEW k \in Meters PROVE MeterInvAt(k)'
  <2> USE ReadingsAreTyped, <1>5, <1>8, <1>4
  <2>0. MeterTypes /\ MeterInvAt(k) /\ ~Known(reading[k])
    BY DEF MeterInv, MeterInvAt, ReadingIsNew
  <2>1. AllIsPast(k)'
    BY <2>0 DEF MeterInvAt, AllIsPast, Past
  <2>2. ReadingIsNew(k)'
    BY <2>0, <1>2 DEF MeterInvAt, ReadingIsNew, AllIsPast, Past
  <2>3. DropsAreZeros(k)'
    BY <2>0, <1>2, <1>6 DEF MeterInvAt, DropsAreZeros, SameLife
  <2>4. ResetsAreNew(k)' /\ RecordIsCovered(k)'
    BY <2>0, <1>2 DEF MeterInvAt, ResetsAreNew, RecordIsCovered, Covers, Renewed
  <2>5. CommandIsNew(k)' /\ BehindIsUnread(k)'
    BY <2>0 DEF MeterInvAt, CommandIsNew, BehindIsUnread
  <2>6. OwedIsTold(k)'
    BY <2>0, <1>2 DEF MeterInvAt, OwedIsTold, AllIsPast
  <2>. QED
    BY <2>1, <2>2, <2>3, <2>4, <2>5, <2>6 DEF MeterInvAt
<1>. QED
  BY <1>5, <1>7, <1>8 DEF MeterInv

\* What a poll that ends does to one meter.
LEMMA FinishOutcome ==
    ASSUME MeterTypes, FinishPoll, NEW k \in Meters
    PROVE  /\ poll \in {"read", "zeroed"} /\ poll' = "idle" /\ ~Known(reading'[k])
           /\ accepted'[k] = IF Accepts(k) THEN reading[k] ELSE accepted[k]
           /\ drops'[k] = IF Held(k) THEN drops[k] + 1 ELSE IF Accepts(k) THEN 0 ELSE drops[k]
           /\ k \in resets' <=> k \in resets /\ ~Accepts(k)
           /\ recorded'[k] = IF run = "up" /\ Known(reading[k]) THEN accepted'[k] ELSE recorded[k]
           /\ k \in behind' <=> k \in behind /\ (run = "up" => ~Known(reading[k]))
           /\ owed'[k] = IF Accepts(k) /\ reading[k].life >= owed[k] THEN 0 ELSE owed[k]
           /\ k \in settled' <=>
                 k \in settled \/ (poll = "read" /\ zeros = 0 /\ Known(reading[k]))
           /\ UNCHANGED <<real, zeros, run, command, raced>> /\ file' = file
           /\ pending' = pending \/ (run = "up" /\ pending' = {accepted'})
<1>1. ~Known(reading'[k])
  BY EmptyIsTyped DEF FinishPoll, NoReading
<1>2. file' = file /\ (pending' = pending \/ (run = "up" /\ pending' = {accepted'}))
  BY DEF FinishPoll, SaveBaseline
<1>3. /\ UNCHANGED <<real, zeros, run, command, raced>>
      /\ poll \in {"read", "zeroed"} /\ poll' = "idle"
  BY DEF FinishPoll
<1>4. accepted'[k] = IF Accepts(k) THEN reading[k] ELSE accepted[k]
  BY DEF FinishPoll
<1>5. drops'[k] = IF Held(k) THEN drops[k] + 1 ELSE IF Accepts(k) THEN 0 ELSE drops[k]
  BY DEF FinishPoll
<1>6. recorded'[k] = IF run = "up" /\ Known(reading[k]) THEN accepted'[k] ELSE recorded[k]
  BY DEF FinishPoll
<1>7. owed'[k] = IF Accepts(k) /\ reading[k].life >= owed[k] THEN 0 ELSE owed[k]
  BY DEF FinishPoll
<1>8. k \in resets' <=> k \in resets /\ ~Accepts(k)
  BY DEF FinishPoll
<1>9. k \in behind' <=> k \in behind /\ (run = "up" => ~Known(reading[k]))
  BY DEF FinishPoll
<1>10. k \in settled' <=> k \in settled \/ (poll = "read" /\ zeros = 0 /\ Known(reading[k]))
  BY DEF FinishPoll
<1>. QED
  BY <1>1, <1>2, <1>3, <1>4, <1>5, <1>6, <1>7, <1>8, <1>9, <1>10

\* A reading below the accepted one, in a life that goes on, is a zero that is held.
LEMMA ZerosAreHeld ==
    ASSUME MeterInv, FinishPoll, NEW k \in Meters, Known(reading[k]), Known(accepted[k]),
           reading[k].value < accepted[k].value, reading[k].life = accepted[k].life,
           k \notin resets
    PROVE  Held(k) /\ poll = "zeroed"
<1> USE MeterAssumption
<1>1. poll = "zeroed"
  BY FinishOutcome, ReadingsAreTyped DEF MeterInv, MeterInvAt, ReadingIsNew
<1>2. drops[k] + (zeros + 1) <= BootPolls
  BY <1>1 DEF MeterInv, MeterInvAt, DropsAreZeros, SameLife, ZerosToCome
<1>3. drops[k] \in Nat /\ zeros \in Nat
  BY DEF MeterInv, MeterTypes
<1>4. drops[k] + 1 < ConfirmPolls
  BY <1>2, <1>3
<1>. QED
  BY <1>1, <1>4 DEF Held

\* What is shown after a poll that read the meter is what is accepted then; and neither
\* the guard's reading nor the recorded one goes back to an earlier life.
LEMMA LivesOnlyGrow ==
    ASSUME MeterInv, FinishPoll, NEW k \in Meters
    PROVE  /\ accepted[k].life <= accepted'[k].life
           /\ Past(accepted'[k], k)
           /\ Known(reading[k]) => recorded[k].life <= reading[k].life
BY FinishOutcome, ReadingsAreTyped
   DEF MeterInv, MeterInvAt, ReadingIsNew, AllIsPast, Accepts, Past

\* The end of a poll keeps the types.
LEMMA FinishIsTyped == MeterInv /\ FinishPoll => MeterTypes' /\ NothingIsScheduled'
<1> SUFFICES ASSUME MeterInv, FinishPoll PROVE MeterTypes' /\ NothingIsScheduled'
  OBVIOUS
<1> USE DEF MeterInv
<1>1. accepted' \in [Meters -> Sight] /\ drops' \in [Meters -> Nat]
  BY DEF FinishPoll, MeterTypes
<1>2. recorded' \in [Meters -> Sight] /\ owed' \in [Meters -> Nat]
  BY <1>1 DEF FinishPoll, MeterTypes
<1>3. reading' \in [Meters -> Sight]
  BY EmptyIsTyped DEF FinishPoll
<1>4. file' = file /\ (pending' = pending \/ (run = "up" /\ pending' = {accepted'}))
  BY DEF FinishPoll, SaveBaseline
<1>5. UNCHANGED <<real, zeros, run, command>> /\ poll' = "idle" /\ settled' \subseteq Meters
  BY DEF FinishPoll, MeterTypes
<1>6. MeterTypes'
  BY <1>1, <1>2, <1>3, <1>4, <1>5 DEF MeterTypes
<1>7. settled' # {} => zeros' = 0
  BY <1>5 DEF FinishPoll, NothingIsScheduled
<1>8. ZerosToCome' <= BootPolls
  BY <1>5, MeterAssumption DEF MeterTypes, ZerosToCome
<1>. QED
  BY <1>4, <1>5, <1>6, <1>7, <1>8 DEF NothingIsScheduled

\* What Home Assistant recorded stays covered by what the guard takes.
LEMMA FinishKeepsCover ==
    ASSUME MeterInv, FinishPoll, NEW k \in Meters
    PROVE  RecordIsCovered(k)'
<1>0. MeterTypes /\ MeterInvAt(k) /\ MeterTypes'
  BY FinishIsTyped DEF MeterInv
<1>1. file'[k] = file[k] /\ run' = run /\ raced' = raced /\ real' = real /\ ~Known(reading'[k])
  BY <1>0, FinishOutcome
<1>2. {accepted'[k].life, reading[k].life, recorded[k].life, accepted[k].life} \subseteq Nat
  BY <1>0, ReadingsAreTyped DEF MeterTypes
<1>3. {accepted'[k].value, reading[k].value, recorded[k].value, accepted[k].value} \subseteq Int
  BY <1>0, ReadingsAreTyped DEF MeterTypes
<1>4. CASE run = "up" /\ Known(reading[k])
  <2>1. recorded'[k] = accepted'[k]
    BY <1>0, <1>4, FinishOutcome
  <2>. QED
    BY <1>1, <1>2, <1>3, <1>4, <2>1 DEF RecordIsCovered, Covers
<1>5. CASE ~(run = "up" /\ Known(reading[k])) /\ k \notin behind
  <2>1. recorded'[k] = recorded[k] /\ k \notin behind'
    BY <1>0, <1>5, FinishOutcome
  <2>2. RecordIsCovered(k)
    BY <1>0 DEF MeterInvAt
  <2>3. Renewed(recorded[k], k) => Renewed(recorded[k], k)'
    BY <1>1, <2>1 DEF Renewed
  <2>4. CASE run \in {"up", "closing"} /\ ~Accepts(k)
    <3>1. accepted'[k] = accepted[k]
      BY <1>0, <2>4, FinishOutcome
    <3>2. Covers(accepted[k], k)
      BY <1>5, <2>2, <2>4 DEF RecordIsCovered
    <3>3. Covers(accepted[k], k)'
      BY <1>1, <2>1, <2>3, <3>1, <3>2 DEF Covers
    <3>. QED
      BY <1>1, <2>4, <3>3 DEF RecordIsCovered
  <2>5. CASE run = "closing" /\ Accepts(k)
    <3>1. accepted'[k] = reading[k] /\ Known(reading[k]) /\ ~Held(k)
      BY <1>0, <2>5, FinishOutcome DEF Accepts
    <3>2. recorded[k].life <= reading[k].life
      BY <3>1, LivesOnlyGrow
    <3>3. ASSUME recorded[k].life = reading[k].life, recorded[k].value > reading[k].value
          PROVE  reading[k].value = 0 /\ k \in raced
      <4>1. poll = "zeroed" /\ reading[k].value = 0
        BY <1>0, <1>3, <3>1, <3>3, FinishOutcome DEF MeterInvAt, ReadingIsNew
      <4>2. Covers(accepted[k], k) /\ accepted[k].life = recorded[k].life
        BY <1>0, <1>2, <1>5, <2>2, <2>5, <3>1, <3>3
        DEF RecordIsCovered, Covers, MeterInvAt, ReadingIsNew
      <4>3. ~Renewed(recorded[k], k)
        BY <1>2, <3>1, <3>3 DEF Renewed
      <4>4. CASE k \notin resets
        <5>1. ~(Known(accepted[k]) /\ reading[k].value < accepted[k].value)
          BY <3>1, <3>3, <4>2, <4>4, ZerosAreHeld
        <5>. QED
          BY <1>3, <3>3, <4>1, <4>2, <4>3, <5>1 DEF Covers
      <4>5. CASE k \in resets
        BY <1>0, <2>5, <4>1, <4>3, <4>5 DEF MeterInvAt, ResetsAreNew
      <4>. QED
        BY <4>1, <4>4, <4>5
    <3>4. Covers(accepted[k], k)'
      BY <1>1, <1>2, <1>3, <2>1, <3>1, <3>2, <3>3 DEF Covers
    <3>. QED
      BY <1>1, <2>5, <3>1, <3>4 DEF RecordIsCovered
  <2>6. CASE run = "down"
    <3>1. file[k].life <= accepted[k].life /\ Covers(file[k], k)
      BY <1>5, <2>2, <2>6 DEF RecordIsCovered
    <3>2. file[k].life \in Nat
      BY <1>0, ReadingsAreTyped
    <3>3. file[k].life <= accepted'[k].life
      BY <1>2, <3>1, <3>2, LivesOnlyGrow
    <3>4. Covers(file[k], k)'
      BY <1>1, <2>1, <2>3, <3>1 DEF Covers
    <3>. QED
      BY <1>1, <2>6, <3>3, <3>4 DEF RecordIsCovered
  <2>7. CASE run = "removed"
    BY <1>1, <2>7 DEF RecordIsCovered
  <2>. QED
    BY <1>0, <1>5, <2>4, <2>5, <2>6, <2>7 DEF MeterTypes, Accepts
<1>6. CASE ~(run = "up" /\ Known(reading[k])) /\ k \in behind
  BY <1>0, <1>6, FinishOutcome DEF RecordIsCovered
<1>. QED
  BY <1>4, <1>5, <1>6

\* The end of a poll keeps the whole invariant.
LEMMA FinishKeepsInv == MeterInv /\ FinishPoll => MeterInv'
<1> SUFFICES ASSUME MeterInv, FinishPoll PROVE MeterInv'
  OBVIOUS
<1>1. MeterTypes' /\ NothingIsScheduled'
  BY FinishIsTyped
<1>2. ASSUME NEW k \in Meters PROVE MeterInvAt(k)'
  <2> USE <1>2, MeterAssumption
  <2>0. MeterTypes /\ MeterInvAt(k)
    BY DEF MeterInv
  <2>1. /\ UNCHANGED <<real, zeros, run, command, raced>> /\ file' = file
        /\ ~Known(reading'[k]) /\ poll' = "idle"
    BY <2>0, FinishOutcome
  <2>2. /\ {accepted'[k].life, reading[k].life, recorded[k].life, accepted[k].life} \subseteq Nat
        /\ {accepted'[k].value, reading[k].value} \subseteq Int
        /\ {recorded[k].value, accepted[k].value} \subseteq Int
        /\ {real[k].life, real[k].value, zeros, drops[k], BootPolls} \subseteq Nat
    BY <1>1, <2>0, ReadingsAreTyped DEF MeterTypes
  <2>3. AllIsPast(k)'
    <3>1. /\ Past(accepted'[k], k) /\ Past(recorded[k], k) /\ Past(file[k], k)
          /\ owed[k] <= real[k].life
      BY <2>0, LivesOnlyGrow DEF MeterInvAt, AllIsPast
    <3>2. recorded'[k] \in {recorded[k], accepted'[k]} /\ owed'[k] \in {owed[k], 0}
      BY <2>0, FinishOutcome
    <3>3. \A written \in pending' : written \in pending \/ written[k] = accepted'[k]
      BY <2>0, FinishOutcome
    <3>4. \A written \in pending : Past(written[k], k)
      BY <2>0 DEF MeterInvAt, AllIsPast
    <3>. QED
      BY <2>1, <2>2, <3>1, <3>2, <3>3, <3>4 DEF AllIsPast, Past
  <2>4. ReadingIsNew(k)'
    BY <2>1 DEF ReadingIsNew
  <2>5. DropsAreZeros(k)'
    <3>1. /\ zeros <= BootPolls /\ drops'[k] \in Nat
          /\ ZerosToCome' = zeros
          /\ ZerosToCome = IF poll = "zeroed" THEN zeros + 1 ELSE zeros
      BY <1>1, <2>0, <2>1, <2>2 DEF MeterInv, MeterTypes, ZerosToCome
    <3>2. CASE Accepts(k)
      <4>1. drops'[k] = 0
        BY <2>0, <3>2, FinishOutcome DEF Accepts
      <4>. QED
        BY <2>2, <3>1, <4>1 DEF DropsAreZeros
    <3>3. CASE ~Known(reading[k])
      <4>1. /\ accepted'[k] = accepted[k] /\ drops'[k] = drops[k]
            /\ k \in settled' <=> k \in settled
        BY <2>0, <3>3, FinishOutcome DEF Accepts, Held
      <4>. QED
        BY <2>0, <2>1, <2>2, <3>1, <3>3, <4>1 DEF MeterInvAt, DropsAreZeros, SameLife
    <3>4. CASE Held(k) /\ accepted[k].life = real[k].life
      <4>1. reading[k].life = accepted[k].life
        BY <2>0, <2>2, <3>4 DEF Held, MeterInvAt, ReadingIsNew, Past
      <4>2. poll = "zeroed"
        BY <3>4, <4>1, ZerosAreHeld DEF Held
      <4>3. drops'[k] = drops[k] + 1 /\ k \notin settled'
        BY <2>0, <3>4, <4>2, FinishOutcome DEF MeterInv, NothingIsScheduled
      <4>4. drops[k] + (zeros + 1) <= BootPolls
        BY <2>0, <3>1, <3>4, <4>2 DEF MeterInvAt, DropsAreZeros, SameLife
      <4>5. drops'[k] + zeros <= BootPolls
        BY <2>2, <4>3, <4>4
      <4>. QED
        BY <3>1, <4>3, <4>5 DEF DropsAreZeros
    <3>5. CASE Held(k) /\ accepted[k].life # real[k].life
      <4>1. accepted'[k] = accepted[k]
        BY <2>0, <3>5, FinishOutcome DEF Accepts
      <4>. QED
        BY <2>1, <3>5, <4>1 DEF DropsAreZeros, SameLife
    <3>. QED
      BY <3>2, <3>3, <3>4, <3>5 DEF Accepts
  <2>6. ResetsAreNew(k)'
    <3> SUFFICES ASSUME run' \in {"up", "closing"}, k \in resets', k \notin raced'
                 PROVE  (Renewed(accepted[k], k) /\ Renewed(recorded[k], k))'
      BY DEF ResetsAreNew
    <3>1. k \in resets /\ ~Known(reading[k])
      BY <2>0, FinishOutcome DEF Accepts, Held
    <3>2. accepted'[k] = accepted[k] /\ recorded'[k] = recorded[k]
      BY <2>0, <3>1, FinishOutcome DEF Accepts
    <3>. QED
      BY <2>0, <2>1, <3>1, <3>2 DEF MeterInvAt, ResetsAreNew, Renewed
  <2>7. CommandIsNew(k)' /\ BehindIsUnread(k)'
    BY <2>0, <2>1, FinishOutcome DEF MeterInvAt, CommandIsNew, BehindIsUnread, Accepts, Held
  <2>8. OwedIsTold(k)'
    BY <2>0, <2>1, FinishOutcome DEF MeterInvAt, OwedIsTold, Accepts
  <2>. QED
    BY <2>3, <2>4, <2>5, <2>6, <2>7, <2>8, FinishKeepsCover DEF MeterInvAt
<1>. QED
  BY <1>1, <1>2 DEF MeterInv

\* So do the poll's other steps.
LEMMA GuardPollKeepsInv == MeterInv /\ PollNext => MeterInv'
<1> SUFFICES ASSUME MeterInv, AskPoll \/ PollFails PROVE MeterInv'
  BY AnswerKeepsInv, FinishKeepsInv DEF PollNext
<1>1. /\ UNCHANGED <<chargerVars, run, guardVars, command, storeVars, ghostVars>>
      /\ poll' \in {"idle", "asked"}
      /\ reading' = reading \/ reading' = Empty
      /\ poll' # "idle" => run = "up"
  BY DEF AskPoll, PollFails
<1>2. \A k \in Meters : ~Known(reading'[k])
  BY EmptyIsTyped DEF AskPoll, PollFails, MeterInv, MeterInvAt, ReadingIsNew, NoReading
<1>3. MeterTypes'
  BY <1>1, EmptyIsTyped DEF MeterInv, MeterTypes
<1>4. ZerosToCome' \in Nat /\ ZerosToCome' <= ZerosToCome /\ ZerosToCome \in Nat
  BY <1>1 DEF MeterInv, MeterTypes, ZerosToCome
<1>5. NothingIsScheduled'
  BY <1>1, <1>4, MeterAssumption DEF MeterInv, NothingIsScheduled
<1>6. ASSUME NEW k \in Meters PROVE MeterInvAt(k)'
  <2>0. MeterInvAt(k) /\ ~Known(reading'[k]) /\ drops[k] \in Nat
    BY <1>2, <1>6 DEF MeterInv, MeterTypes
  <2>1. AllIsPast(k)' /\ ReadingIsNew(k)'
    BY <1>1, <2>0 DEF MeterInvAt, AllIsPast, Past, ReadingIsNew
  <2>2. DropsAreZeros(k)'
    BY <1>1, <1>4, <2>0, MeterAssumption DEF MeterInvAt, DropsAreZeros, SameLife
  <2>3. ResetsAreNew(k)' /\ RecordIsCovered(k)'
    BY <1>1, <2>0 DEF MeterInvAt, ResetsAreNew, RecordIsCovered, Covers, Renewed
  <2>4. CommandIsNew(k)' /\ BehindIsUnread(k)'
    BY <1>1, <2>0 DEF MeterInvAt, CommandIsNew, BehindIsUnread
  <2>5. OwedIsTold(k)'
    BY <1>1, <2>0 DEF MeterInvAt, OwedIsTold
  <2>. QED
    BY <2>0, <2>1, <2>2, <2>3, <2>4, <2>5 DEF MeterInvAt
<1>. QED
  BY <1>3, <1>5, <1>6 DEF MeterInv

-------------------------------------------------------------------------------
(* Resets, the store and the entry.                                        *)

\* The reply to a reset: where no poll overtook it, the life it began is new to all.
LEMMA AnswerResetKeepsInv == MeterInv /\ AnswerReset => MeterInv'
<1> SUFFICES ASSUME MeterInv, AnswerReset PROVE MeterInv'
  OBVIOUS
<1>1. /\ UNCHANGED <<chargerVars, run, pollVars, accepted, drops, storeVars, recorded, behind>>
      /\ command \in Meters /\ command' = "none"
      /\ resets' = IF run = "up" THEN resets \cup {command} ELSE resets
      /\ owed' = [owed EXCEPT ![command] = IF run = "up" THEN real[command].life ELSE @]
      /\ raced' = IF poll = "idle" /\ accepted[command].life < real[command].life
                  THEN raced \ {command} ELSE raced \cup {command}
  BY DEF AnswerReset, Owe, MeterInv, MeterTypes
<1>2. MeterTypes'
  BY <1>1, ReadingsAreTyped DEF MeterInv, MeterTypes
<1>3. NothingIsScheduled'
  BY <1>1 DEF MeterInv, NothingIsScheduled, ZerosToCome
<1>4. ASSUME NEW k \in Meters PROVE MeterInvAt(k)'
  <2>0. MeterTypes /\ MeterInvAt(k)
    BY <1>4 DEF MeterInv
  <2>1. owed'[k] = owed[k] \/ owed'[k] = real[k].life
    BY <1>1, <1>4, <2>0 DEF MeterTypes
  <2>2. AllIsPast(k)'
    BY <1>1, <1>4, <2>0, <2>1, ReadingsAreTyped DEF MeterInvAt, AllIsPast, Past
  <2>3. ReadingIsNew(k)' /\ DropsAreZeros(k)'
    BY <1>1, <2>0 DEF MeterInvAt, ReadingIsNew, DropsAreZeros, SameLife, ZerosToCome, Past
  <2>4. CommandIsNew(k)' /\ BehindIsUnread(k)'
    BY <1>1, <1>4, <2>0, MeterAssumption DEF MeterInvAt, CommandIsNew, BehindIsUnread
  <2>5. CASE k # command
    <3>1. (k \in resets' <=> k \in resets) /\ (k \in raced' <=> k \in raced) /\ owed'[k] = owed[k]
      BY <1>1, <2>0, <2>5 DEF MeterTypes
    <3>2. ResetsAreNew(k)' /\ RecordIsCovered(k)'
      BY <1>1, <2>0, <3>1 DEF MeterInvAt, ResetsAreNew, RecordIsCovered, Covers, Renewed
    <3>3. OwedIsTold(k)'
      BY <1>1, <2>0, <3>1 DEF MeterInvAt, OwedIsTold
    <3>. QED
      BY <2>2, <2>3, <2>4, <3>2, <3>3 DEF MeterInvAt
  <2>6. CASE k = command /\ k \notin raced'
    <3>1. poll = "idle" /\ accepted[k].life < real[k].life /\ ~Known(reading[k])
      BY <1>1, <2>0, <2>6 DEF MeterInvAt, ReadingIsNew
    <3>2. {accepted[k].life, real[k].life, recorded[k].life, file[k].life} \subseteq Nat
      BY <2>0, ReadingsAreTyped
    <3>3. ResetsAreNew(k)'
      BY <1>1, <2>0, <2>6, <3>1, <3>2
      DEF MeterInvAt, ResetsAreNew, Renewed, CommandIsNew, RecordIsCovered, Covers
    <3>4. RecordIsCovered(k)'
      BY <1>1, <2>0, <3>1, <3>2 DEF MeterInvAt, RecordIsCovered, Covers, Renewed
    <3>5. OwedIsTold(k)'
      BY <1>1, <2>0, <2>6, <3>1 DEF OwedIsTold
    <3>. QED
      BY <2>2, <2>3, <2>4, <3>3, <3>4, <3>5 DEF MeterInvAt
  <2>7. CASE k = command /\ k \in raced'
    <3>1. ResetsAreNew(k)' /\ OwedIsTold(k)'
      BY <2>7 DEF ResetsAreNew, OwedIsTold
    <3>2. RecordIsCovered(k)'
      BY <1>1, <2>0, <2>7 DEF MeterInvAt, RecordIsCovered, Covers, Renewed
    <3>. QED
      BY <2>2, <2>3, <2>4, <3>1, <3>2 DEF MeterInvAt
  <2>. QED
    BY <2>5, <2>6, <2>7
<1>. QED
  BY <1>2, <1>3, <1>4 DEF MeterInv

\* The reset command, its answer and its loss.
LEMMA CommandKeepsInv == MeterInv /\ CommandNext => MeterInv'
<1> SUFFICES ASSUME MeterInv, CommandNext PROVE MeterInv'
  OBVIOUS
<1>1. ASSUME NEW c \in Meters, PostReset(c)
      PROVE  MeterInv'
  <2>1. real' = NewLife(c) /\ MeterTypes /\ real[c] \in [life : Nat, value : Nat]
    BY <1>1 DEF PostReset, MeterInv, MeterTypes
  <2>2. real'[c].life = real[c].life + 1
    BY <2>1 DEF NewLife, MeterTypes
  <2>. QED
    BY <1>1, <2>1, <2>2, RealGrows, GrowthKeepsInv DEF PostReset
<1>2. CASE LoseReply
  <2>1. /\ UNCHANGED <<chargerVars, run, pollVars, guardVars, storeVars, ghostVars>>
        /\ command' = "none"
    BY <1>2 DEF LoseReply
  <2>2. MeterTypes' /\ NothingIsScheduled'
    BY <2>1 DEF MeterInv, MeterTypes, NothingIsScheduled, ZerosToCome
  <2>3. ASSUME NEW k \in Meters PROVE MeterInvAt(k)'
    <3>0. MeterInvAt(k) /\ CommandIsNew(k)'
      BY <2>1, <2>3, MeterAssumption DEF MeterInv, CommandIsNew
    <3>1. AllIsPast(k)' /\ ReadingIsNew(k)' /\ DropsAreZeros(k)'
      BY <2>1, <3>0
      DEF MeterInvAt, AllIsPast, Past, ReadingIsNew, DropsAreZeros, SameLife, ZerosToCome
    <3>2. ResetsAreNew(k)' /\ RecordIsCovered(k)' /\ BehindIsUnread(k)' /\ OwedIsTold(k)'
      BY <2>1, <3>0
      DEF MeterInvAt, ResetsAreNew, RecordIsCovered, Covers, Renewed, BehindIsUnread, OwedIsTold
    <3>. QED
      BY <3>0, <3>1, <3>2 DEF MeterInvAt
  <2>. QED
    BY <2>2, <2>3 DEF MeterInv
<1>. QED
  BY <1>1, <1>2, AnswerResetKeepsInv DEF CommandNext

\* Saving and its failures.
LEMMA StoreKeepsInv == MeterInv /\ StoreNext => MeterInv'
<1> SUFFICES ASSUME MeterInv, StoreNext PROVE MeterInv'
  OBVIOUS
<1>1. /\ UNCHANGED <<chargerVars, run, pollVars, guardVars, command, ghostVars>>
      /\ \/ UNCHANGED <<pending, file>>
         \/ pending # {} /\ file' \in pending /\ pending' = {}
  BY DEF StoreNext, SaveIntervalPasses, WriteDelayed
<1>2. MeterTypes' /\ NothingIsScheduled'
  BY <1>1 DEF MeterInv, MeterTypes, NothingIsScheduled, ZerosToCome
<1>3. ASSUME NEW k \in Meters PROVE MeterInvAt(k)'
  <2>0. MeterInvAt(k) /\ (run = "down" => file' = file)
    BY <1>1, <1>3 DEF MeterInv, NothingIsScheduled
  <2>1. AllIsPast(k)' /\ ReadingIsNew(k)' /\ DropsAreZeros(k)'
    BY <1>1, <2>0
    DEF MeterInvAt, AllIsPast, Past, ReadingIsNew, DropsAreZeros, SameLife, ZerosToCome
  <2>2. ResetsAreNew(k)' /\ RecordIsCovered(k)'
    BY <1>1, <2>0 DEF MeterInvAt, ResetsAreNew, RecordIsCovered, Covers, Renewed
  <2>3. CommandIsNew(k)' /\ BehindIsUnread(k)' /\ OwedIsTold(k)'
    BY <1>1, <2>0 DEF MeterInvAt, CommandIsNew, BehindIsUnread, OwedIsTold
  <2>. QED
    BY <2>1, <2>2, <2>3 DEF MeterInvAt
<1>. QED
  BY <1>2, <1>3 DEF MeterInv

\* A setup starts from the file, or behind all that was recorded.
LEMMA SetupKeepsInv == MeterInv /\ Setup => MeterInv'
<1> SUFFICES ASSUME MeterInv, Setup PROVE MeterInv'
  OBVIOUS
<1>1. /\ UNCHANGED <<chargerVars, pending, file, recorded, raced>>
      /\ run = "down" /\ run' = "up" /\ command' = "none"
      /\ drops' = [k \in Meters |-> 0] /\ owed' = [k \in Meters |-> 0] /\ resets' = {}
      /\ poll' = "idle" /\ reading' = Empty
      /\ \/ accepted' = file /\ behind' = behind
         \/ accepted' = Empty /\ behind' = Meters
  BY DEF Setup
<1>2. MeterTypes'
  BY <1>1, EmptyIsTyped DEF MeterInv, MeterTypes
<1>3. zeros \in Nat /\ zeros <= BootPolls /\ ZerosToCome' = zeros
  BY <1>1, MeterAssumption DEF MeterInv, MeterTypes, ZerosToCome
<1>4. NothingIsScheduled'
  BY <1>1, <1>3 DEF MeterInv, NothingIsScheduled
<1>5. ASSUME NEW k \in Meters PROVE MeterInvAt(k)'
  <2>0. /\ MeterInvAt(k) /\ ~Known(reading'[k]) /\ drops'[k] = 0 /\ owed'[k] = 0
        /\ {real[k].life, real[k].value} \subseteq Nat
    BY <1>1, <1>5, EmptyIsTyped, ReadingsAreTyped DEF MeterInv, NoReading
  <2>1. accepted'[k] = file[k] \/ (accepted'[k] = NoReading /\ k \in behind')
    BY <1>1, <1>5, EmptyIsTyped
  <2>2. AllIsPast(k)'
    BY <1>1, <2>0, <2>1 DEF MeterInvAt, AllIsPast, Past, NoReading
  <2>3. ReadingIsNew(k)' /\ ResetsAreNew(k)' /\ BehindIsUnread(k)' /\ OwedIsTold(k)'
    BY <1>1, <2>0 DEF ReadingIsNew, ResetsAreNew, BehindIsUnread, OwedIsTold
  <2>4. DropsAreZeros(k)'
    BY <1>3, <2>0 DEF DropsAreZeros
  <2>5. CommandIsNew(k)'
    BY <1>1, <1>5, MeterAssumption DEF CommandIsNew
  <2>6. RecordIsCovered(k)'
    BY <1>1, <2>0, <2>1 DEF MeterInvAt, RecordIsCovered, Covers, Renewed
  <2>. QED
    BY <2>2, <2>3, <2>4, <2>5, <2>6 DEF MeterInvAt
<1>. QED
  BY <1>2, <1>4, <1>5 DEF MeterInv

\* An unload flushes what was accepted, or leaves every meter behind.
LEMMA UnloadKeepsInv == MeterInv /\ (BeginUnload \/ Flush) => MeterInv'
<1> SUFFICES ASSUME MeterInv, BeginUnload \/ Flush PROVE MeterInv'
  OBVIOUS
<1>1. /\ UNCHANGED <<chargerVars, pollVars, guardVars, command, recorded, owed, raced>>
      /\ \/ run = "up" /\ run' = "closing" /\ UNCHANGED <<behind, file, pending>>
         \/ /\ run = "closing" /\ run' = "down" /\ pending' = {}
            /\ \/ file' = accepted /\ behind' = behind
               \/ file' = file /\ behind' = Meters
  BY DEF BeginUnload, Flush
<1>2. MeterTypes' /\ NothingIsScheduled'
  BY <1>1 DEF MeterInv, MeterTypes, NothingIsScheduled, ZerosToCome
<1>3. ASSUME NEW k \in Meters PROVE MeterInvAt(k)'
  <2>0. MeterInvAt(k) /\ {accepted[k].life} \subseteq Nat
    BY <1>3, ReadingsAreTyped DEF MeterInv
  <2>1. AllIsPast(k)' /\ ReadingIsNew(k)' /\ DropsAreZeros(k)'
    BY <1>1, <2>0
    DEF MeterInvAt, AllIsPast, Past, ReadingIsNew, DropsAreZeros, SameLife, ZerosToCome
  <2>2. ResetsAreNew(k)' /\ RecordIsCovered(k)'
    BY <1>1, <1>3, <2>0 DEF MeterInvAt, ResetsAreNew, RecordIsCovered, Covers, Renewed
  <2>3. CommandIsNew(k)' /\ BehindIsUnread(k)' /\ OwedIsTold(k)'
    BY <1>1, <2>0 DEF MeterInvAt, CommandIsNew, BehindIsUnread, OwedIsTold
  <2>. QED
    BY <2>1, <2>2, <2>3 DEF MeterInvAt
<1>. QED
  BY <1>2, <1>3 DEF MeterInv

\* A removed entry's file is gone; a crash leaves every meter of a running entry behind.
LEMMA EndKeepsInv == MeterInv /\ (Remove \/ Crash) => MeterInv'
<1> SUFFICES ASSUME MeterInv, Remove \/ Crash PROVE MeterInv'
  OBVIOUS
<1>1. /\ UNCHANGED <<chargerVars, guardVars, recorded, owed, raced>>
      /\ \/ /\ run = "down" /\ run' = "removed" /\ file' = Empty
            /\ UNCHANGED <<pollVars, command, pending, behind>>
         \/ /\ run' = "down" /\ file' = file /\ poll' = "idle" /\ reading' = Empty
            /\ command' = "none" /\ pending' = {}
            /\ behind' = IF run = "down" THEN behind ELSE Meters
  BY DEF Remove, Crash
<1>2. MeterTypes'
  BY <1>1, EmptyIsTyped DEF MeterInv, MeterTypes
<1>3. ZerosToCome' \in Nat /\ ZerosToCome' <= ZerosToCome /\ ZerosToCome \in Nat
  BY <1>1 DEF MeterInv, MeterTypes, ZerosToCome
<1>4. NothingIsScheduled'
  BY <1>1, <1>3, MeterAssumption DEF MeterInv, NothingIsScheduled
<1>5. ASSUME NEW k \in Meters PROVE MeterInvAt(k)'
  <2>0. /\ MeterInvAt(k) /\ Empty[k] = NoReading
        /\ reading'[k] = reading[k] \/ ~Known(reading'[k])
        /\ {real[k].life, real[k].value} \subseteq Nat /\ drops[k] \in Nat
    BY <1>1, <1>5, EmptyIsTyped, ReadingsAreTyped DEF MeterInv, NoReading
  <2>1. AllIsPast(k)'
    BY <1>1, <2>0 DEF MeterInvAt, AllIsPast, Past, NoReading
  <2>2. ReadingIsNew(k)'
    BY <1>1, <2>0 DEF MeterInvAt, ReadingIsNew, Past, NoReading
  <2>3. DropsAreZeros(k)'
    BY <1>1, <1>3, <2>0, MeterAssumption DEF MeterInvAt, DropsAreZeros, SameLife
  <2>4. RecordIsCovered(k)'
    BY <1>1, <1>5, <2>0 DEF MeterInvAt, RecordIsCovered, Covers, Renewed
  <2>5. ResetsAreNew(k)' /\ CommandIsNew(k)' /\ BehindIsUnread(k)' /\ OwedIsTold(k)'
    BY <1>1, <2>0 DEF MeterInvAt, ResetsAreNew, CommandIsNew, BehindIsUnread, OwedIsTold
  <2>. QED
    BY <2>1, <2>2, <2>3, <2>4, <2>5 DEF MeterInvAt
<1>. QED
  BY <1>2, <1>4, <1>5 DEF MeterInv

\* Every step keeps the invariant.
LEMMA MeterInvNext == MeterInv /\ [MeterNext]_meterVars => MeterInv'
<1>1. MeterInv /\ UNCHANGED meterVars => MeterInv'
  BY DEF meterVars, MeterInv, MeterTypes, NothingIsScheduled, ZerosToCome, MeterInvAt,
         AllIsPast, Past, ReadingIsNew, DropsAreZeros, SameLife, ResetsAreNew, Renewed,
         CommandIsNew, RecordIsCovered, Covers, BehindIsUnread, OwedIsTold
<1>. QED
  BY <1>1, ChargerKeepsInv, GuardPollKeepsInv, CommandKeepsInv, StoreKeepsInv, SetupKeepsInv,
     UnloadKeepsInv, EndKeepsInv DEF MeterNext, EntryNext

\* What is remembered of the meters is of their past, in every reachable state.
THEOREM MeterInvHolds == MeterSpec => []MeterInv
BY MeterInvInit, MeterInvNext, PTL DEF MeterSpec

-------------------------------------------------------------------------------
(* What Home Assistant records.                                            *)

\* Only the end of a poll changes what is recorded.
LEMMA OnlyPollsRecord == MeterNext /\ ~FinishPoll => recorded' = recorded
BY DEF MeterNext, ChargerNext, PollNext, CommandNext, EntryNext, StoreNext, PowerUp, Consume,
       AppReset, AskPoll, Answer, PollFails, AnswerReset, LoseReply, PostReset, Setup,
       BeginUnload, Flush, Remove, Crash, SaveIntervalPasses, WriteDelayed

\* It changes to what the guard let through of a field the charger sent.
LEMMA RecordOutcome ==
    ASSUME MeterInv, [MeterNext]_meterVars, NEW k \in Meters, recorded'[k] # recorded[k]
    PROVE  /\ FinishPoll /\ run = "up" /\ Known(reading[k]) /\ recorded'[k] = accepted'[k]
           /\ \/ Accepts(k) /\ recorded'[k] = reading[k]
              \/ Held(k) /\ recorded'[k] = accepted[k]
           /\ {accepted[k].life, recorded[k].life, reading[k].life, reading[k].value} \subseteq Nat
           /\ {accepted[k].value, recorded[k].value} \subseteq Nat \cup {Unknown}
<1>1. FinishPoll
  BY OnlyPollsRecord DEF meterVars
<1>2. run = "up" /\ Known(reading[k]) /\ recorded'[k] = accepted'[k]
  BY <1>1, FinishOutcome DEF MeterInv
<1>3. \/ Accepts(k) /\ recorded'[k] = reading[k]
      \/ Held(k) /\ recorded'[k] = accepted[k]
  BY <1>1, <1>2, FinishOutcome DEF MeterInv, Accepts
<1>4. /\ {accepted[k].life, recorded[k].life, reading[k].life, reading[k].value} \subseteq Nat
      /\ {accepted[k].value, recorded[k].value} \subseteq Nat \cup {Unknown}
  BY <1>2, ReadingsAreTyped DEF MeterInv
<1>. QED
  BY <1>1, <1>2, <1>3, <1>4

\* A record falls with a new life, or to what the guard restored after an unflushed run.
LEMMA FallIsANewLife ==
    ASSUME MeterInv, [MeterNext]_meterVars, NEW k \in Meters \ raced,
           recorded'[k].value < recorded[k].value
    PROVE  \/ recorded'[k].life > recorded[k].life
           \/ k \in behind /\ recorded'[k].value >= accepted[k].value
<1>0. /\ FinishPoll /\ run = "up" /\ Known(reading[k]) /\ poll \in {"read", "zeroed"}
      /\ {accepted[k].life, recorded[k].life, reading[k].life, reading[k].value} \subseteq Nat
      /\ {accepted[k].value, recorded[k].value} \subseteq Nat \cup {Unknown}
      /\ MeterInvAt(k) /\ recorded'[k] # recorded[k]
  <2>1. recorded'[k] # recorded[k]
    BY ReadingsAreTyped DEF MeterInv
  <2>. QED
    BY <2>1, RecordOutcome DEF MeterInv, FinishPoll
<1>1. CASE Held(k) /\ recorded'[k] = accepted[k]
  <2>1. ~(accepted[k].value = 0)
    BY <1>0, <1>1 DEF Held
  <2>. QED
    BY <1>0, <1>1, <2>1 DEF MeterInvAt, RecordIsCovered, Covers
<1>2. CASE Accepts(k) /\ recorded'[k] = reading[k]
  <2>1. recorded[k].life <= reading[k].life /\ accepted[k].life <= reading[k].life
    BY <1>0 DEF MeterInvAt, ReadingIsNew
  <2>2. SUFFICES ASSUME reading[k].life = recorded[k].life
                 PROVE  k \in behind /\ reading[k].value >= accepted[k].value
    BY <1>0, <1>2, <2>1
  <2>3. poll = "zeroed"
    BY <1>0, <1>2, <2>2 DEF MeterInvAt, ReadingIsNew
  <2>4. k \notin resets
    BY <1>0, <2>2 DEF MeterInvAt, ResetsAreNew, Renewed
  <2>5. k \in behind
    <3>1. SUFFICES ASSUME k \notin behind PROVE FALSE
      OBVIOUS
    <3>2. Covers(accepted[k], k)
      BY <1>0, <3>1 DEF MeterInvAt, RecordIsCovered
    <3>3. accepted[k].life = reading[k].life /\ recorded[k].value <= accepted[k].value
      BY <1>0, <2>1, <2>2, <3>2 DEF Covers, Renewed
    <3>4. Known(accepted[k]) /\ reading[k].value < accepted[k].value
      BY <1>0, <1>2, <3>3
    <3>5. Held(k)
      BY <1>0, <2>4, <3>3, <3>4, ZerosAreHeld
    <3>. QED
      BY <1>2, <3>5 DEF Accepts
  <2>6. ~(reading[k].value < accepted[k].value)
    <3>1. SUFFICES ASSUME reading[k].value < accepted[k].value PROVE FALSE
      OBVIOUS
    <3>2. drops[k] = 0
      BY <1>0, <2>5 DEF MeterInvAt, BehindIsUnread
    <3>3. ConfirmPolls > 1
      BY <2>3, MeterAssumption DEF MeterInv, MeterTypes, NothingIsScheduled, ZerosToCome
    <3>4. Known(accepted[k])
      BY <1>0, <3>1
    <3>5. Held(k)
      BY <1>0, <2>4, <3>1, <3>2, <3>3, <3>4, MeterAssumption DEF Held
    <3>. QED
      BY <1>2, <3>5 DEF Accepts
  <2>. QED
    BY <1>0, <2>5, <2>6
<1>. QED
  BY <1>0, <1>1, <1>2, RecordOutcome

\* Home Assistant's own reset is not held.
LEMMA OwnResetIsNotHeld ==
    ASSUME MeterInv, NEW k \in Meters \ raced, ReadsOwnReset(k)
    PROVE  accepted'[k] = reading[k]
<1>1. FinishPoll /\ poll # "idle" /\ MeterInvAt(k) /\ MeterTypes
  BY DEF ReadsOwnReset, FinishPoll, MeterInv
<1>2. k \in resets
  BY <1>1 DEF ReadsOwnReset, MeterInvAt, OwedIsTold
<1>. QED
  BY <1>1, <1>2, FinishOutcome DEF ReadsOwnReset, Accepts, Held

\* What Home Assistant records of a meter falls only when the meter began a new life, or, after
\* a run that ended without its flush, to no less than the disk still held; and the counter that
\* Home Assistant reset is shown reset by the first poll that reads it: MeterGuard.apply and
\* expect_reset, for every number of meters, every ConfirmPolls and every bound of the charger.
THEOREM MeterFallsAreNewLives == MeterSpec => FallsAreNewLives
<1>1. MeterInv /\ [MeterNext]_meterVars =>
          [\A k \in Meters \ raced : recorded'[k].value < recorded[k].value =>
              \/ recorded'[k].life > recorded[k].life
              \/ k \in behind /\ recorded'[k].value >= accepted[k].value]_meterVars
  BY FallIsANewLife
<1>2. MeterInv /\ [MeterNext]_meterVars =>
          [\A k \in Meters \ raced : ReadsOwnReset(k) => accepted'[k] = reading[k]]_meterVars
  BY OwnResetIsNotHeld
<1>. QED
  BY <1>1, <1>2, MeterInvHolds, PTL
  DEF MeterSpec, FallsAreNewLives, OnlyANewLifeFalls, QuietResetShownAtOnce

\* A restart that flushed never shows a meter with the reading of a life it has left, and the
\* file of a removed entry does not come back: the safety of StoreIsCurrent.
THEOREM MeterStoreIsOfThisLife ==
    MeterSpec => NoOldLifeReturns /\ [][RemovedStaysRemoved']_meterVars
<1>1. MeterInv /\ [MeterNext]_meterVars =>
          [\A k \in Meters : recorded'[k].value > recorded[k].value /\ k \notin behind =>
              recorded'[k].life >= recorded[k].life]_meterVars
  <2> SUFFICES ASSUME MeterInv, [MeterNext]_meterVars, NEW k \in Meters,
                      recorded'[k].value > recorded[k].value, k \notin behind
               PROVE  recorded'[k].life >= recorded[k].life
    OBVIOUS
  <2>1. recorded'[k] # recorded[k] /\ MeterInvAt(k)
    BY ReadingsAreTyped DEF MeterInv
  <2>. QED
    BY <2>1, RecordOutcome DEF MeterInvAt, ReadingIsNew, RecordIsCovered, Covers
<1>2. MeterInv' => RemovedStaysRemoved'
  BY DEF MeterInv, NothingIsScheduled, RemovedStaysRemoved
<1>. QED
  BY <1>1, <1>2, MeterInvHolds, PTL DEF MeterSpec, NoOldLifeReturns

-------------------------------------------------------------------------------
(***************************************************************************)
(* The selects, for any options and times. The value a select keeps for a  *)
(* command is that command's choice, and one that was accepted is no older *)
(* than the poll under way when it was accepted.                           *)
(***************************************************************************)

\* The value kept for a command under way is its choice, and is published while it is young.
ChoiceIsKept ==
    choice # Unset /\ optimistic # Unset =>
        optimistic = choice /\ (optimisticAge < OptimisticTTL => option = choice)

\* An accepted option is no older than the poll asked before it was accepted.
AcceptedIsYoung ==
    early /\ reply # "idle" /\ optimistic # Unset => optimisticAge <= pollAge

SelectInv ==
    /\ {pollAge, optimisticAge} \subseteq Nat /\ pollAge <= PollTicks
    /\ choice \in Options \cup {Unset} /\ optimistic \in Options \cup {Unset}
    /\ ChoiceIsKept /\ AcceptedIsYoung

\* A step of the polls or of time: what is kept for the command stays or goes, and is what
\* is published while it is young.
LEMMA UpdatesKeep ==
    ASSUME NEW age, Updates(age)
    PROVE  /\ optimistic' \in {optimistic, Unset}
           /\ optimistic' # Unset /\ optimisticAge' < OptimisticTTL => option' = optimistic'
  BY DEF Updates, CurrentOption

\* Every step keeps the invariant.
LEMMA SelectInvNext == ASSUME SelectInv, [SelectNext]_selectVars PROVE SelectInv'
<1>1. /\ pollAge \in Nat /\ optimisticAge \in Nat /\ pollAge <= PollTicks
      /\ choice \in Options \cup {Unset} /\ optimistic \in Options \cup {Unset}
      /\ {MismatchTTL, OptimisticTTL, ControlGrace, PollTicks} \subseteq Nat
  BY SelectAssumption DEF SelectInv
<1>2. /\ choice # Unset /\ optimistic # Unset =>
             optimistic = choice /\ (optimisticAge < OptimisticTTL => option = choice)
      /\ early /\ reply # "idle" /\ optimistic # Unset => optimisticAge <= pollAge
  BY DEF SelectInv, ChoiceIsKept, AcceptedIsYoung
<1>3. ASSUME NEW o \in Options, Select(o)
      PROVE  SelectInv'
  BY <1>1, <1>2, <1>3 DEF Select, linkVars, heldVars, SelectInv, ChoiceIsKept, AcceptedIsYoung
<1>4. CASE Arrives
  BY <1>1, <1>2, <1>4 DEF Arrives, linkVars, heldVars, SelectInv, ChoiceIsKept, AcceptedIsYoung
<1>5. CASE Succeeds
  <2>1. /\ pollAge' = pollAge /\ choice' = Unset /\ optimistic' = choice /\ optimisticAge' = 0
    BY <1>5 DEF Succeeds
  <2>. QED
    BY <1>1, <2>1 DEF SelectInv, ChoiceIsKept, AcceptedIsYoung
<1>6. CASE Declined
  <2>1. /\ pollAge' = pollAge /\ choice' = Unset /\ optimistic' = Unset /\ optimisticAge' = 0
    BY <1>6 DEF Declined, linkVars
  <2>. QED
    BY <1>1, <2>1 DEF SelectInv, ChoiceIsKept, AcceptedIsYoung
<1>7. CASE IsCancelled
  BY <1>1, <1>2, <1>7 DEF IsCancelled, linkVars, heldVars, SelectInv, ChoiceIsKept, AcceptedIsYoung
<1>8. CASE Polls
  BY <1>1, <1>2, <1>8 DEF Polls, commandVars, heldVars, SelectInv, ChoiceIsKept, AcceptedIsYoung
<1>9. CASE Answered
  <2>1. /\ pollAge' = 0 /\ reply' = "idle" /\ optimisticAge' = optimisticAge /\ choice' = choice
        /\ Updates(heldAge)
    BY <1>9 DEF Answered, commandVars
  <2>2. /\ optimistic' \in {optimistic, Unset}
        /\ optimistic' # Unset /\ optimisticAge' < OptimisticTTL => option' = optimistic'
    BY <2>1, UpdatesKeep
  <2>. QED
    BY <1>1, <1>2, <2>1, <2>2 DEF SelectInv, ChoiceIsKept, AcceptedIsYoung
<1>10. CASE Unanswered
  <2>1. /\ pollAge' = 0 /\ reply' = "idle" /\ optimisticAge' = optimisticAge /\ choice' = choice
        /\ Updates(heldAge) \/ (optimistic' = optimistic /\ option' = option)
    BY <1>10 DEF Unanswered, commandVars
  <2>2. \/ /\ optimistic' \in {optimistic, Unset}
           /\ optimistic' # Unset /\ optimisticAge' < OptimisticTTL => option' = optimistic'
        \/ optimistic' = optimistic /\ option' = option
    BY <2>1, UpdatesKeep
  <2>. QED
    BY <1>1, <1>2, <2>1, <2>2 DEF SelectInv, ChoiceIsKept, AcceptedIsYoung
<1>11. CASE TimePasses
  <2>1. /\ reply # "idle" => pollAge < PollTicks
        /\ pollAge' = IF reply = "idle" THEN 0 ELSE pollAge + 1
        /\ optimisticAge' = IF optimistic = Unset THEN 0 ELSE Ages(optimisticAge, OptimisticTTL)
        /\ choice' = choice /\ reply' = reply /\ early' = early
        /\ \/ Updates(Ages(heldAge, ControlGrace))
           \/ optimistic' = optimistic /\ option' = option
    BY <1>11 DEF TimePasses, commandVars
  <2>2. \/ /\ optimistic' \in {optimistic, Unset}
           /\ optimistic' # Unset /\ optimisticAge' < OptimisticTTL => option' = optimistic'
        \/ optimistic' = optimistic /\ option' = option
    BY <2>1, UpdatesKeep
  <2>3. /\ pollAge' \in Nat /\ pollAge' <= PollTicks
        /\ optimisticAge' \in Nat
        /\ optimistic # Unset =>
              optimisticAge <= optimisticAge' /\ optimisticAge' <= optimisticAge + 1
    BY <1>1, <2>1 DEF Ages
  <2>4. optimistic # Unset /\ optimisticAge' < OptimisticTTL => optimisticAge < OptimisticTTL
    BY <1>1, <2>3
  <2>5. early /\ reply # "idle" /\ optimistic # Unset => optimisticAge' <= pollAge'
    BY <1>1, <1>2, <2>1, <2>3
  <2>6. ChoiceIsKept'
    BY <1>2, <2>1, <2>2, <2>4 DEF ChoiceIsKept
  <2>. QED
    BY <1>1, <2>1, <2>2, <2>3, <2>5, <2>6 DEF SelectInv, AcceptedIsYoung
<1>12. CASE SettingMoves
  BY <1>1, <1>2, <1>12
     DEF SettingMoves, linkVars, heldVars, commandVars, SelectInv, ChoiceIsKept, AcceptedIsYoung
<1>13. CASE UNCHANGED selectVars
  BY <1>1, <1>2, <1>13
     DEF selectVars, linkVars, heldVars, commandVars, SelectInv, ChoiceIsKept, AcceptedIsYoung
<1>. QED
  BY <1>3, <1>4, <1>5, <1>6, <1>7, <1>8, <1>9, <1>10, <1>11, <1>12, <1>13
     DEF SelectNext, Commands

\* In every state of every behaviour.
THEOREM SelectInvHolds == SelectFairSpec => []SelectInv
<1>1. SelectInit => SelectInv
  BY SelectAssumption DEF SelectInit, SelectInv, ChoiceIsKept, AcceptedIsYoung
<1>2. SelectInv /\ [SelectNext]_selectVars => SelectInv'
  BY SelectInvNext
<1>. QED
  BY <1>1, <1>2, PTL DEF SelectFairSpec

\* The safety half of OptionIsTrue: the choice shows while its command lasts, and no answer
\* asked for before the option was accepted takes it back (select.py:104-122,
\* common_base.py:432-438).
THEOREM OptionsStand == SelectFairSpec => ChoiceShows /\ OptionDoesNotSnapBack
<1>1. SelectInv' =>
        [ choice' # Unset /\ optimistic' # Unset /\ optimisticAge' < OptimisticTTL
          => option' = choice' ]_selectVars
  BY DEF SelectInv, ChoiceIsKept
<1>2. SelectInv /\ [SelectNext]_selectVars =>
        [ early /\ Answered /\ Seen(online, down) /\ choice = Unset /\ optimistic # Unset
          => option' = optimistic ]_selectVars
  <2>1. SUFFICES ASSUME SelectInv, early, Answered, Seen(online, down), choice = Unset,
                        optimistic # Unset
                 PROVE  option' = optimistic
    OBVIOUS
  <2>2. /\ reply # "idle" /\ online' = TRUE /\ deviceValue' = reply /\ choice' = choice
        /\ optimisticAge' = optimisticAge /\ Updates(heldAge)
    BY <2>1 DEF Answered, commandVars
  <2>3. optimisticAge <= MismatchTTL /\ optimisticAge < OptimisticTTL
    BY <2>1, <2>2, SelectAssumption DEF SelectInv, AcceptedIsYoung
  <2>4. ~(optimisticAge' > MismatchTTL) /\ ~(optimisticAge' >= OptimisticTTL)
    BY <2>1, <2>2, <2>3, SelectAssumption DEF SelectInv
  <2>5. Reconciles => deviceValue' # Unset /\ deviceValue' = optimistic
    BY <2>1, <2>2, <2>4 DEF Reconciles, Seen
  <2>. QED
    BY <2>1, <2>2, <2>3, <2>5 DEF Updates, CurrentOption
<1>3. SelectFairSpec => ChoiceShows
  BY <1>1, SelectInvHolds, PTL DEF SelectFairSpec, ChoiceShows
<1>4. SelectFairSpec => OptionDoesNotSnapBack
  BY <1>2, SelectInvHolds, PTL DEF SelectFairSpec, OptionDoesNotSnapBack
<1>. QED
  BY <1>3, <1>4

-------------------------------------------------------------------------------
(***************************************************************************)
(* The time zone, for any offsets, numbers of polls and retries. One write *)
(* at a time has the wire, what is sent is an offset that the charger can  *)
(* hold, and a charger where it belongs is not moved by a write of before. *)
(***************************************************************************)

Stages == {"idle", "queued", "wire", "landed"}

ZoneTypes ==
    /\ following \in BOOLEAN /\ answering \in BOOLEAN
    /\ home \in Hours \cup {Half} /\ charger \in Hours
    /\ asked \in Hours \cup {None, "idle"}
    /\ differing \in 0 .. FollowPolls /\ toWait \in 0 .. RetryPolls
    /\ stage \in [Writers -> Stages] /\ hours \in [Writers -> Hours \cup {None}]
    /\ tries \in [Writers -> 0 .. Retries]

\* What a writer sends is an offset that the charger can hold.
SendsAnOffset == \A w \in Writers : stage[w] # "idle" => hours[w] \in Hours

\* One write at a time has the wire, which its answer gives back.
OneHasTheWire ==
    \A v, w \in Writers :
        stage[v] \in {"wire", "landed"} /\ stage[w] \in {"wire", "landed"} => v = w

\* An offset is looked at for long enough before it is written, and a write that is under
\* way keeps the count.
DecidedLate == stage["follow"] # "idle" => differing \in {0, FollowPolls}

ZoneInv == ZoneTypes /\ SendsAnOffset /\ OneHasTheWire /\ DecidedLate

\* It holds when following is set up.
LEMMA ZoneInitHolds == ZoneInit => ZoneInv
<1> SUFFICES ASSUME ZoneInit PROVE ZoneInv
  OBVIOUS
<1>1. ZoneTypes
  BY FollowAssumption DEF ZoneInit, ZoneTypes, Stages
<1>2. SendsAnOffset /\ OneHasTheWire /\ DecidedLate
  BY DEF ZoneInit, SendsAnOffset, OneHasTheWire, DecidedLate, Writers
<1>. QED
  BY <1>1, <1>2 DEF ZoneInv

\* Polls, the two writers and the world keep it.
LEMMA ZoneNextHolds == ZoneInv /\ [ZoneNext]_zoneVars => ZoneInv'
<1> SUFFICES ASSUME ZoneInv, [ZoneNext]_zoneVars PROVE ZoneInv'
  OBVIOUS
<1> USE DEF ZoneInv
<1>a. ZoneTypes /\ SendsAnOffset /\ OneHasTheWire /\ DecidedLate
  OBVIOUS
<1>w. "follow" \in Writers /\ "manual" \in Writers
  BY DEF Writers
<1>1. CASE AskZone
  BY <1>a, <1>1 DEF AskZone, ZoneTypes, SendsAnOffset, OneHasTheWire, DecidedLate,
     followVars, writeVars
<1>2. CASE GoodPoll
  <2>1. CASE ~following
    BY <1>a, <1>2, <2>1, FollowAssumption DEF GoodPoll, Follow, ZoneTypes, SendsAnOffset,
       OneHasTheWire, DecidedLate, writeVars
  <2>2. CASE following /\ (Sending \/ asked = None)
    BY <1>a, <1>2, <2>2 DEF GoodPoll, Follow, ZoneTypes, SendsAnOffset, OneHasTheWire,
       DecidedLate, followVars, writeVars
  <2>3. CASE following /\ ~(Sending \/ asked = None)
    <3>1. /\ Count(asked) /\ stage["follow"] = "idle"
          /\ IF Decide(asked) THEN Send("follow", home) ELSE UNCHANGED writeVars
          /\ asked' = "idle" /\ answering' = TRUE
          /\ UNCHANGED <<following, home, charger>>
      BY <1>2, <2>3 DEF GoodPoll, Follow, Sending
    <3>2. differing' \in 0 .. FollowPolls /\ toWait' \in 0 .. RetryPolls
      BY <1>a, <3>1, FollowAssumption DEF ZoneTypes, Count, CountUp
    <3>3. CASE ~Decide(asked)
      BY <1>a, <3>1, <3>2, <3>3 DEF ZoneTypes, SendsAnOffset, OneHasTheWire, DecidedLate,
         writeVars
    <3>4. CASE Decide(asked)
      <4>1. /\ stage' = [stage EXCEPT !["follow"] = "queued"]
            /\ hours' = [hours EXCEPT !["follow"] = home]
            /\ tries' = tries /\ home \in Hours
        BY <3>1, <3>4 DEF Send, Decide, Differs
      <4>2. differing' = FollowPolls
        BY <3>1, <3>4 DEF Decide, Count
      <4>. QED
        BY <1>a, <1>w, <3>1, <3>2, <4>1, <4>2 DEF ZoneTypes, Stages, SendsAnOffset,
           OneHasTheWire, DecidedLate
    <3>. QED
      BY <3>3, <3>4
  <2>. QED
    BY <1>a, <2>1, <2>2, <2>3 DEF ZoneTypes
<1>3. CASE BadPoll
  BY <1>a, <1>3 DEF BadPoll, ZoneTypes, SendsAnOffset, OneHasTheWire, DecidedLate,
     followVars, writeVars
<1>4. ASSUME NEW h \in Hours, Choose(h) PROVE ZoneInv'
  BY <1>a, <1>w, <1>4 DEF Choose, Send, ZoneTypes, Stages, SendsAnOffset, OneHasTheWire,
     DecidedLate, zonePollVars, followVars
<1>5. ASSUME NEW w \in Writers, Post(w) PROVE ZoneInv'
  BY <1>a, <1>5 DEF Post, WireFree, ZoneTypes, Stages, SendsAnOffset, OneHasTheWire,
     DecidedLate, zonePollVars, followVars
<1>6. ASSUME NEW w \in Writers, Land(w) PROVE ZoneInv'
  BY <1>a, <1>6 DEF Land, ZoneTypes, Stages, SendsAnOffset, OneHasTheWire, DecidedLate,
     zonePollVars, followVars
<1>7. ASSUME NEW w \in Writers, NEW ok \in BOOLEAN, Done(w, ok) PROVE ZoneInv'
  BY <1>a, <1>7, FollowAssumption DEF Done, Over, ZoneTypes, Stages, SendsAnOffset,
     OneHasTheWire, DecidedLate, zonePollVars, followVars
<1>8. ASSUME NEW w \in Writers, NoAnswer(w) PROVE ZoneInv'
  <2>1. CASE tries[w] < Retries
    <3>1. /\ stage[w] \in {"wire", "landed"}
          /\ stage' = [stage EXCEPT ![w] = "queued"]
          /\ tries' = [tries EXCEPT ![w] = tries[w] + 1]
          /\ UNCHANGED <<following, home, charger, asked, answering, differing, toWait, hours>>
      BY <1>8, <2>1 DEF NoAnswer, zonePollVars, followVars
    <3>2. tries' \in [Writers -> 0 .. Retries]
      BY <1>a, <2>1, <3>1, FollowAssumption DEF ZoneTypes
    <3>3. ZoneTypes'
      BY <1>a, <3>1, <3>2 DEF ZoneTypes, Stages
    <3>4. (SendsAnOffset /\ OneHasTheWire /\ DecidedLate)'
      BY <1>a, <3>1 DEF ZoneTypes, SendsAnOffset, OneHasTheWire, DecidedLate
    <3>. QED
      BY <3>3, <3>4
  <2>2. CASE ~(tries[w] < Retries)
    BY <1>7, <1>8, <2>2 DEF NoAnswer
  <2>. QED
    BY <2>1, <2>2
<1>9. CASE WriteNext
  BY <1>4, <1>5, <1>6, <1>7, <1>8, <1>9 DEF WriteNext, Accepted, Vetoed, Refused
<1>10. CASE SwitchFlips
  BY <1>a, <1>10 DEF SwitchFlips, ZoneTypes, SendsAnOffset, OneHasTheWire, DecidedLate,
     zonePollVars, followVars, writeVars
<1>11. CASE HomeMoves
  BY <1>a, <1>11 DEF HomeMoves, ZoneTypes, SendsAnOffset, OneHasTheWire, DecidedLate,
     zonePollVars, followVars, writeVars
<1>12. CASE ChargerMoves
  BY <1>a, <1>12 DEF ChargerMoves, ZoneTypes, SendsAnOffset, OneHasTheWire, DecidedLate,
     zonePollVars, followVars, writeVars
<1>13. CASE UNCHANGED zoneVars
  BY <1>a, <1>13 DEF zoneVars, ZoneTypes, SendsAnOffset, OneHasTheWire, DecidedLate,
     zonePollVars, followVars, writeVars
<1>. QED
  BY <1>1, <1>2, <1>3, <1>9, <1>10, <1>11, <1>12, <1>13 DEF ZoneNext

\* One write at a time is under way, of an offset that the charger can hold, and the
\* follower's is one it looked at for long enough (time_zone_follow.py:50-71).
THEOREM ZoneInvHolds == ZoneSpec => []ZoneInv
  BY ZoneInitHolds, ZoneNextHolds, PTL DEF ZoneSpec

\* Where the charger has arrived, a write that is queued or tried again is vetoed or one of
\* the same offset.
LEMMA ArrivedStays ==
    ZoneInv /\ [ZoneNext]_zoneVars
    => [Arrived => Arrived' \/ SwitchFlips \/ HomeMoves \/ ChargerMoves]_zoneVars
<1> SUFFICES ASSUME ZoneInv, ZoneNext, Arrived, ~SwitchFlips, ~HomeMoves, ~ChargerMoves
             PROVE  Arrived'
  BY DEF Arrived, zoneVars, zonePollVars, followVars, writeVars
<1>a. ZoneTypes
  BY DEF ZoneInv
<1>1. CASE AskZone
  BY <1>1 DEF AskZone, Arrived, writeVars
<1>2. CASE GoodPoll
  BY <1>a, <1>2 DEF GoodPoll, Follow, Sending, Send, Arrived, ZoneTypes, writeVars
<1>3. CASE BadPoll
  BY <1>3 DEF BadPoll, Arrived, writeVars
<1>4. ASSUME NEW h \in Hours, Choose(h) PROVE Arrived'
  BY <1>4 DEF Choose, Arrived
<1>5. ASSUME NEW w \in Writers, Post(w) PROVE Arrived'
  BY <1>a, <1>5 DEF Post, Due, Arrived, ZoneTypes
<1>6. ASSUME NEW w \in Writers, Land(w) PROVE Arrived'
  BY <1>a, <1>6 DEF Land, Arrived, ZoneTypes
<1>7. ASSUME NEW w \in Writers, NEW ok \in BOOLEAN, Done(w, ok) PROVE Arrived'
  BY <1>a, <1>7 DEF Done, Over, Arrived, ZoneTypes
<1>8. ASSUME NEW w \in Writers, NoAnswer(w) PROVE Arrived'
  BY <1>a, <1>7, <1>8 DEF NoAnswer, Arrived, ZoneTypes
<1>. QED
  BY <1>1, <1>2, <1>3, <1>4, <1>5, <1>6, <1>7, <1>8
     DEF ZoneNext, WriteNext, Accepted, Vetoed, Refused

\* A charger at Home Assistant's offset stays there while following is on, for any offsets,
\* polls and retries, whatever was queued before (time_zone_follow.py:91-103).
THEOREM ArrivalIsKept == ZoneSpec => ArrivalStands
  BY ZoneInvHolds, ArrivedStays, PTL DEF ZoneSpec, ArrivalStands

===============================================================================
