---------------------------- MODULE SocLimitProofs ----------------------------
(***************************************************************************)
(* For any counters, thresholds and tolerance of resets: the safety        *)
(* properties of the SOC limit.  The inductive invariant says whom the     *)
(* controller obeys, whose decision a sent Stop is, what "once" rests on,  *)
(* and what the edge memory of "Disable limits" knows.                     *)
(***************************************************************************)
EXTENDS SocLimit, TLAPS

Latches == [fired : BOOLEAN, pending : Thresholds \cup {None}, attempted : BOOLEAN,
            energy : {None} \cup 0 .. MaxEnergy, clock : {None} \cup 0 .. MaxClock]

Types ==
    /\ charger \in Readings /\ snapshot \in Readings \cup {Blank}
    /\ asked \in {None} \cup 0 .. 1
    /\ threshold \in Thresholds \cup {None}
    /\ latch \in Latches
    /\ {isOn, written, setting, enabled, up, told, blind, wasSuspended, rose} \subseteq BOOLEAN
    /\ sentIn \in {"never", "this", "earlier"}

\* The controller enforces what the switch of a loaded entry shows.
SwitchIsObeyed == enabled <=> isOn /\ up

\* What Home Assistant has written of the switch is how it was left, and what it shows.
StateIsWritten == written = setting /\ (up => isOn = setting)

\* A Stop that was put on the wire is the one a poll would confirm.
DecisionIsSent ==
    /\ latch.pending # None /\ (latch.attempted \/ task = "wire") =>
          latch.pending = sentFor /\ sentIn # "never"
    /\ task = "wire" => sentIn # "never"

\* What was told is over only with the session.
ToldOnce == told => up /\ latch.fired /\ task # "yield" /\ ~NewSession(charger)

\* The edge memory missed a rise only if there was one since the last reading.
EdgeIsKnown == up /\ ~blind /\ charger.suspended /\ ~wasSuspended => rose

LimitInv ==
    /\ Types /\ SwitchIsObeyed /\ StateIsWritten
    /\ DecisionIsSent /\ ToldOnce /\ EdgeIsKnown

USE SocAssumption DEF None, chargerVars, pollVars, entryVars, stopVars, ghostVars

\* Nothing in a session's counters is None.
LEMMA ReadingsAreTyped ==
  /\ Blank.energy = None /\ Fresh \in Latches
  /\ \A r \in Readings : /\ r.energy \in Nat /\ r.clock \in Nat
                          /\ {r.active, r.suspended} \subseteq BOOLEAN
  /\ \A t \in Thresholds : t \in Nat
BY DEF Readings, Blank, Fresh, Latches

\* The invariant holds when the entry has been set up.
LEMMA LimitInvInit == Init => LimitInv
<1> SUFFICES ASSUME Init PROVE LimitInv
  OBVIOUS
<1>1. Types
  BY DEF Init, Types, Readings, Fresh, Latches
<1>2. SwitchIsObeyed /\ StateIsWritten /\ EdgeIsKnown
  BY DEF Init, SwitchIsObeyed, StateIsWritten, EdgeIsKnown
<1>3. DecisionIsSent /\ ToldOnce
  BY DEF Init, DecisionIsSent, ToldOnce, Fresh
<1>. QED
  BY <1>1, <1>2, <1>3 DEF LimitInv

-------------------------------------------------------------------------------
\* What a poll makes of the latch: confirmed, begun anew, or left alone.
LEMMA EnforceOutcome ==
  ASSUME LimitInv, NEW reading \in Readings, Enforce(reading)
  PROVE  /\ latch' \in Latches
         /\ latch'.pending # None /\ (latch'.attempted \/ task' = "wire") =>
               latch'.pending = latch.pending /\ (latch.attempted \/ task = "wire")
         /\ task' = "wire" => task = "wire"
         /\ event' # None => /\ latch.pending = event' /\ latch.attempted /\ ~latch.fired
         /\ reading.active /\ ~NewSession(reading) =>
               /\ latch.fired => latch'.fired /\ task' = task /\ event' = None
               /\ latch'.energy = latch.energy /\ latch'.clock = latch.clock
         /\ event' # None /\ reading.active =>
               latch'.fired /\ task' = task /\ ~NewSession(reading)
         /\ told' = ((told \/ event' # None) /\ reading.active)
<1> DEFINE fresh == reading.active /\ (latch.pending # None \/ latch.fired) /\ NewSession(reading)
           held == IF fresh THEN Fresh ELSE latch
           confirmed == Confirms(held, reading)
<1>1. latch \in Latches /\ held \in Latches /\ Fresh \in Latches
  BY ReadingsAreTyped DEF LimitInv, Types
<1>2. /\ event' = (IF confirmed THEN held.pending ELSE None)
      /\ told' = ((told \/ confirmed) /\ reading.active)
  BY DEF Enforce
<1>3. confirmed => /\ ~fresh /\ held = latch
                   /\ latch.pending # None /\ latch.attempted /\ ~latch.fired
  BY DEF Confirms, Fresh
<1>6. event' # None <=> confirmed
  BY <1>2, <1>3
<1>7. told' = ((told \/ event' # None) /\ reading.active)
  BY <1>2, <1>6
<1>4. CASE ~reading.active
  <2>1. latch' = Fresh /\ task' = "none"
    BY <1>4 DEF Enforce, Rearm
  <2>. QED
    BY <1>1, <1>2, <1>3, <1>4, <1>7, <2>1 DEF Fresh
<1>5. CASE reading.active
  <2>1. latch' = IF confirmed THEN [held EXCEPT !.fired = TRUE, !.pending = None] ELSE held
    BY <1>5 DEF Enforce
  <2>2. task' = IF /\ ~latch'.fired /\ MayStart(IF fresh THEN "none" ELSE task)
                   /\ reading.stopped = 0 /\ Due(reading.energy)
                THEN "yield" ELSE IF fresh THEN "none" ELSE task
    BY <1>5 DEF Enforce
  <2>4. CASE confirmed
    <3>1. latch' = [latch EXCEPT !.fired = TRUE, !.pending = None] /\ task' = task
      BY <1>1, <1>3, <2>1, <2>2, <2>4 DEF Latches
    <3>2. latch' \in Latches /\ latch'.fired /\ latch'.pending = None
          /\ latch'.energy = latch.energy /\ latch'.clock = latch.clock
      BY <1>1, <3>1 DEF Latches
    <3>3. ~NewSession(reading)
      BY <1>3, <1>5, <2>4
    <3>. QED
      BY <1>2, <1>3, <1>5, <1>7, <2>4, <3>1, <3>2, <3>3
  <2>5. CASE ~confirmed
    <3>1. latch' = held /\ event' = None
      BY <1>2, <2>1, <2>5
    <3>. QED
      BY <1>1, <1>5, <1>7, <2>2, <2>5, <3>1 DEF Fresh
  <2>. QED
    BY <2>4, <2>5
<1>. QED
  BY <1>4, <1>5

\* A charger that moves within its session stays typed, and its counters do not fall.
LEMMA MovesGrow ==
  ASSUME NEW before \in Readings, NEW after,
         \/ after = [before EXCEPT !.active = ~@]
         \/ after = [before EXCEPT !.stopped = 1 - @]
         \/ after = [before EXCEPT !.suspended = ~@]
         \/ \E more \in 0 .. 1 :
               /\ before.clock < MaxClock /\ before.energy + more <= MaxEnergy
               /\ after = [before EXCEPT !.clock = @ + 1, !.energy = @ + more]
  PROVE  /\ after \in Readings
         /\ after.energy >= before.energy /\ after.clock >= before.clock
<1>1. before.energy \in Nat /\ before.clock \in Nat
  BY SocAssumption DEF Readings
<1>2. CASE \/ after = [before EXCEPT !.active = ~@]
           \/ after = [before EXCEPT !.stopped = 1 - @]
           \/ after = [before EXCEPT !.suspended = ~@]
  <2>1. after.energy = before.energy /\ after.clock = before.clock
    BY <1>2 DEF Readings
  <2>2. ASSUME after = [before EXCEPT !.active = ~@] PROVE after \in Readings
    BY <2>2 DEF Readings
  <2>3. ASSUME after = [before EXCEPT !.stopped = 1 - @] PROVE after \in Readings
    BY <2>3 DEF Readings
  <2>4. ASSUME after = [before EXCEPT !.suspended = ~@] PROVE after \in Readings
    BY <2>4 DEF Readings
  <2>. QED
    BY <1>1, <1>2, <2>1, <2>2, <2>3, <2>4
<1>3. ASSUME NEW more \in 0 .. 1, before.clock < MaxClock, before.energy + more <= MaxEnergy,
             after = [before EXCEPT !.clock = @ + 1, !.energy = @ + more]
      PROVE  after \in Readings /\ after.energy >= before.energy /\ after.clock >= before.clock
  <2>1. before.energy + more \in 0 .. MaxEnergy /\ before.clock + 1 \in 0 .. MaxClock
    BY <1>1, <1>3, SocAssumption
  <2>2. after \in Readings
    BY <1>3, <2>1 DEF Readings
  <2>3. after.energy = before.energy + more /\ after.clock = before.clock + 1
    BY <1>3 DEF Readings
  <2>. QED
    BY <1>1, <2>2, <2>3
<1>. QED
  BY <1>2, <1>3

\* A good poll.
LEMMA ApplyPollKeepsInv ==
  ASSUME LimitInv, ApplyPoll
  PROVE  LimitInv'
<1>0. PICK reading \in Readings : reading = snapshot'
  BY DEF ApplyPoll, LimitInv, Types, Readings
<1>1. /\ reading \in Readings /\ reading.suspended = charger.suspended
      /\ reading.energy = charger.energy /\ reading.clock = charger.clock
      /\ charger' = charger
  BY <1>0 DEF ApplyPoll, LimitInv, Types, Readings
<1>2. /\ isOn' \in BOOLEAN /\ enabled' = isOn' /\ up /\ up' = up /\ rose' = FALSE /\ blind' = FALSE
      /\ wasSuspended' = charger.suspended
      /\ threshold' = threshold /\ asked' = None /\ sentIn' = sentIn /\ sentFor' = sentFor
  BY <1>0, <1>1 DEF ApplyPoll, SwitchFollows, LimitInv, Types
<1>3. NewSession(reading) <=> NewSession(charger)
  BY <1>1 DEF NewSession, EnergyReset, ClockReset
<1>7. written' \in BOOLEAN /\ setting' \in BOOLEAN /\ StateIsWritten'
  <2>1. written' = isOn' /\ isOn = setting
        /\ isOn' = (isOn /\ ~(charger.suspended /\ ~wasSuspended))
        /\ setting' = IF rose \/ blind THEN setting /\ isOn' ELSE setting
    BY <1>0, <1>1, <1>2 DEF ApplyPoll, SwitchFollows, LimitInv, StateIsWritten
  <2>2. /\ {isOn, setting, wasSuspended, rose, blind} \subseteq BOOLEAN
        /\ charger.suspended \in BOOLEAN
    BY ReadingsAreTyped DEF LimitInv, Types
  <2>3. charger.suspended /\ ~wasSuspended => rose \/ blind
    BY <1>2 DEF LimitInv, EdgeIsKnown
  <2>4. setting' = isOn'
    BY <2>1, <2>2, <2>3, Zenon
  <2>. QED
    BY <1>2, <2>1, <2>4 DEF StateIsWritten
<1>4. CASE isOn' # isOn
  <2>1. latch' = Fresh /\ task' = "none" /\ told' = FALSE
    BY <1>4 DEF ApplyPoll, Rearm
  <2>2. Types'
    BY <1>0, <1>1, <1>2, <1>7, <2>1, ReadingsAreTyped DEF LimitInv, Types, Readings
  <2>. QED
    BY <1>1, <1>2, <1>7, <2>1, <2>2 DEF LimitInv, SwitchIsObeyed, DecisionIsSent, ToldOnce,
       EdgeIsKnown,
       Fresh
<1>5. CASE isOn' = isOn /\ enabled' /\ ~reading.suspended
  <2>1. Enforce(reading)
    BY <1>0, <1>5 DEF ApplyPoll
  <2>2. Types'
    BY <1>0, <1>1, <1>2, <1>7, <2>1, EnforceOutcome, ReadingsAreTyped DEF LimitInv, Types
  <2>3. DecisionIsSent'
    BY <1>1, <1>2, <2>1, EnforceOutcome DEF LimitInv, DecisionIsSent
  <2>4. ToldOnce'
    <3>1. SUFFICES ASSUME told'
                   PROVE  up' /\ latch'.fired /\ task' # "yield" /\ ~NewSession(charger)'
      BY DEF ToldOnce
    <3>2. reading.active /\ (told \/ event' # None)
      BY <1>1, <2>1, <3>1, EnforceOutcome
    <3>3. ~NewSession(reading) /\ latch'.fired /\ task' = task
      <4>1. CASE told
        <5>1. ~NewSession(reading) /\ latch.fired
          BY <1>3, <4>1 DEF LimitInv, ToldOnce
        <5>. QED
          BY <2>1, <3>2, <5>1, EnforceOutcome
      <4>2. CASE event' # None
        BY <2>1, <3>2, <4>2, EnforceOutcome
      <4>. QED
        BY <3>2, <4>1, <4>2
    <3>4. latch'.energy = latch.energy /\ latch'.clock = latch.clock
      BY <1>1, <2>1, <3>2, <3>3, EnforceOutcome
    <3>5. task # "yield"
      BY DEF ApplyPoll
    <3>. QED
      BY <1>1, <1>2, <1>3, <3>3, <3>4, <3>5 DEF NewSession, EnergyReset, ClockReset
  <2>. QED
    BY <1>1, <1>2, <1>7, <2>2, <2>3, <2>4 DEF LimitInv, SwitchIsObeyed, EdgeIsKnown
<1>6. CASE isOn' = isOn /\ ~(enabled' /\ ~reading.suspended)
  <2>1. latch' = latch /\ task' = task /\ told' = (told /\ reading.active)
    BY <1>0, <1>6 DEF ApplyPoll
  <2>2. Types'
    BY <1>0, <1>1, <1>2, <1>7, <2>1 DEF LimitInv, Types, Readings
  <2>. QED
    BY <1>1, <1>2, <1>7, <2>1, <2>2 DEF LimitInv, SwitchIsObeyed, DecisionIsSent, ToldOnce,
       EdgeIsKnown,
       NewSession, EnergyReset, ClockReset
<1>. QED
  BY <1>4, <1>5, <1>6

\* The invariant is inductive.
LEMMA LimitInvNext == LimitInv /\ [Next]_vars => LimitInv'
<1> SUFFICES ASSUME LimitInv, [Next]_vars PROVE LimitInv'
  OBVIOUS
<1>1. CASE ChargerMoves
  <2>1. /\ charger' \in Readings /\ charger'.energy >= charger.energy
        /\ charger'.clock >= charger.clock
    BY <1>1, MovesGrow DEF ChargerMoves, LimitInv, Types
  <2>8. rose' \in BOOLEAN
    BY <1>1 DEF ChargerMoves, LimitInv, Types, Readings
  <2>2. Types'
    BY <1>1, <2>1, <2>8 DEF ChargerMoves, LimitInv, Types
  <2>3. ~NewSession(charger) => ~NewSession(charger)'
    BY <1>1, <2>1 DEF ChargerMoves, NewSession, EnergyReset, ClockReset, LimitInv, Types, Latches,
                      Readings
  <2>. QED
    BY <1>1, <2>2, <2>3 DEF ChargerMoves, LimitInv, SwitchIsObeyed, StateIsWritten,
       DecisionIsSent, ToldOnce,
       EdgeIsKnown
<1>2. CASE Replug
  <2>3. charger' \in Readings
    <3>1. charger \in Readings /\ 0 \in 0 .. MaxEnergy /\ 0 \in 0 .. MaxClock
      BY DEF LimitInv, Types
    <3>. QED
      BY <1>2, <3>1 DEF Replug, Readings
  <2>1. Types'
    BY <1>2, <2>3 DEF Replug, LimitInv, Types
  <2>2. charger'.suspended = charger.suspended
    BY <1>2 DEF Replug, LimitInv, Types, Readings
  <2>. QED
    BY <1>2, <2>1, <2>2 DEF Replug, LimitInv, SwitchIsObeyed, StateIsWritten, DecisionIsSent,
       ToldOnce, EdgeIsKnown
<1>3. CASE TargetMoves \/ AskPoll \/ PollFails
  BY <1>3 DEF TargetMoves, AskPoll, PollFails, LimitInv, Types, Readings, SwitchIsObeyed,
     StateIsWritten,
     DecisionIsSent, ToldOnce, EdgeIsKnown, NewSession, EnergyReset, ClockReset
<1>4. CASE ApplyPoll
  BY <1>4, ApplyPollKeepsInv
<1>5. CASE BeginStop
  <2> DEFINE noted == IF latch.pending # None THEN latch
                      ELSE [latch EXCEPT !.pending = threshold, !.attempted = FALSE,
                                         !.energy = snapshot.energy, !.clock = snapshot.clock]
  <2>4. /\ snapshot.energy \in {None} \cup 0 .. MaxEnergy
        /\ snapshot.clock \in {None} \cup 0 .. MaxClock
    BY DEF LimitInv, Types, Readings, Blank
  <2>5. noted \in Latches
    BY <2>4 DEF LimitInv, Types, Latches
  <2>6. latch' \in {noted, [noted EXCEPT !.pending = None, !.energy = None, !.clock = None]}
    BY <1>5 DEF BeginStop
  <2>1. latch' \in Latches
    BY <2>5, <2>6 DEF Latches
  <2>2. Types'
    BY <1>5, <2>1 DEF BeginStop, LimitInv, Types
  <2>3. DecisionIsSent'
    BY <1>5 DEF BeginStop, LimitInv, Types, Latches, DecisionIsSent
  <2>. QED
    BY <1>5, <2>2, <2>3 DEF BeginStop, LimitInv, SwitchIsObeyed, StateIsWritten, ToldOnce,
       EdgeIsKnown
<1>6. CASE Transmit
  <2>1. Types'
    BY <1>6 DEF Transmit, Decided, LimitInv, Types, Latches
  <2>2. latch'.energy = latch.energy /\ latch'.clock = latch.clock /\ latch'.fired = latch.fired
    BY <1>6 DEF Transmit, Decided, LimitInv, Types, Latches
  <2>3. DecisionIsSent'
    BY <1>6 DEF Transmit, Decided, LimitInv, Types, Latches, DecisionIsSent
  <2>. QED
    BY <1>6, <2>1, <2>2, <2>3 DEF Transmit, LimitInv, SwitchIsObeyed, StateIsWritten, ToldOnce,
       EdgeIsKnown,
       NewSession, EnergyReset, ClockReset
<1>7. CASE Veto \/ NoAnswer
  <2>1. latch' \in {latch, Withdrawn}
    BY <1>7 DEF Veto, NoAnswer
  <2>2. latch' \in Latches
    BY <2>1 DEF Withdrawn, LimitInv, Types, Latches
  <2>3. latch.fired => latch' = latch
    BY <2>1 DEF Withdrawn
  <2>4. latch' = latch \/ latch'.pending = None
    BY <2>1 DEF Withdrawn, LimitInv, Types, Latches
  <2>5. Types'
    BY <1>7, <2>2 DEF Veto, NoAnswer, LimitInv, Types
  <2>. QED
    BY <1>7, <2>3, <2>4, <2>5 DEF Veto, NoAnswer, LimitInv, SwitchIsObeyed, StateIsWritten,
       DecisionIsSent,
       ToldOnce, EdgeIsKnown, NewSession, EnergyReset, ClockReset
<1>8. CASE Land \/ Vanish
  <2>1. /\ charger' \in Readings /\ charger'.energy = charger.energy
        /\ charger'.clock = charger.clock /\ charger'.suspended = charger.suspended
    BY <1>8 DEF Land, Vanish, LimitInv, Types, Readings
  <2>2. Types'
    BY <1>8, <2>1 DEF Land, Vanish, LimitInv, Types
  <2>. QED
    BY <1>8, <2>1, <2>2 DEF Land, Vanish, LimitInv, SwitchIsObeyed, StateIsWritten,
       DecisionIsSent, ToldOnce,
       EdgeIsKnown, NewSession, EnergyReset, ClockReset
<1>9. CASE Accepted
  <2>1. latch' \in Latches /\ latch' = [latch EXCEPT !.attempted = TRUE]
    BY <1>9 DEF Accepted, LimitInv, Types, Latches
  <2>2. latch'.pending = latch.pending /\ latch'.fired = latch.fired
        /\ latch'.energy = latch.energy /\ latch'.clock = latch.clock
    BY <2>1 DEF LimitInv, Types, Latches
  <2>3. Types'
    BY <1>9, <2>1 DEF Accepted, LimitInv, Types
  <2>. QED
    BY <1>9, <2>2, <2>3 DEF Accepted, LimitInv, SwitchIsObeyed, StateIsWritten, DecisionIsSent,
       ToldOnce,
       EdgeIsKnown, NewSession, EnergyReset, ClockReset
<1>10. CASE Toggle
  <2>1. CASE isOn' # isOn
    <3>1. latch' = Fresh /\ task' = "none" /\ told' = FALSE
      BY <1>10, <2>1 DEF Toggle, Rearm
    <3>2. Types'
      BY <1>10, <3>1, ReadingsAreTyped DEF Toggle, LimitInv, Types
    <3>. QED
      BY <1>10, <3>1, <3>2 DEF Toggle, LimitInv, SwitchIsObeyed, StateIsWritten, DecisionIsSent,
         ToldOnce,
         EdgeIsKnown, Fresh
  <2>2. CASE isOn' = isOn
    BY <1>10, <2>2 DEF Toggle, LimitInv, Types, SwitchIsObeyed, StateIsWritten, DecisionIsSent,
       ToldOnce,
       EdgeIsKnown, NewSession, EnergyReset, ClockReset
  <2>. QED
    BY <2>1, <2>2
<1>11. CASE Unload \/ Crash
  <2>1. /\ UNCHANGED <<chargerVars, snapshot, threshold, wasSuspended, blind, post,
                       sentIn, sentFor>>
        /\ up' = FALSE /\ isOn' = FALSE /\ enabled' = FALSE
        /\ latch' = Fresh /\ task' = "none" /\ asked' = None /\ told' = FALSE
    BY <1>11 DEF Unload, Crash, Gone, Rearm
  <2>2. written' \in BOOLEAN /\ written' = setting'
    BY <1>11 DEF Unload, Crash, LimitInv, Types, StateIsWritten
  <2>3. Types'
    BY <2>1, <2>2, ReadingsAreTyped DEF LimitInv, Types
  <2>. QED
    BY <2>1, <2>2, <2>3 DEF LimitInv, SwitchIsObeyed, StateIsWritten, DecisionIsSent, ToldOnce,
       EdgeIsKnown, Fresh
<1>12. CASE Load
  <2>1. wasSuspended' \in BOOLEAN /\ snapshot' \in Readings \cup {Blank}
    BY <1>12, ReadingsAreTyped DEF Load, SeedSwitch, LimitInv, Types
  <2>4. isOn' = written /\ enabled' = isOn' /\ up' = TRUE /\ UNCHANGED <<written, setting>>
    BY <1>12 DEF Load, Restored
  <2>2. Types'
    BY <1>12, <2>1, <2>4, ReadingsAreTyped DEF Load, LimitInv, Types
  <2>3. EdgeIsKnown'
    BY <1>12 DEF Load, SeedSwitch, EdgeIsKnown
  <2>. QED
    BY <1>12, <2>2, <2>3, <2>4 DEF Load, LimitInv, SwitchIsObeyed, StateIsWritten, DecisionIsSent,
       ToldOnce, Fresh
<1>13. CASE UNCHANGED vars
  BY <1>13 DEF vars, LimitInv, Types, SwitchIsObeyed, StateIsWritten, DecisionIsSent, ToldOnce,
     EdgeIsKnown,
     NewSession, EnergyReset, ClockReset
<1>. QED
  BY <1>1, <1>2, <1>3, <1>4, <1>5, <1>6, <1>7, <1>8, <1>9, <1>10, <1>11, <1>12, <1>13
     DEF Next, StopNext

-------------------------------------------------------------------------------
\* Hence the controller's state stays as the invariant says.
THEOREM LimitInvHolds == Spec => []LimitInv
BY LimitInvInit, LimitInvNext, PTL DEF Spec

\* A Stop goes out only while it is due: enabled, read, active, not yet stopped, at the target.
LEMMA TransmitIsDue ==
  ASSUME LimitInv, [Next]_vars, post' = "out", post # "out"
  PROVE  /\ isOn /\ up /\ pollOK
         /\ snapshot.active /\ snapshot.stopped = 0 /\ ~snapshot.suspended
         /\ Due(snapshot.energy)
<1>1. Transmit
  BY DEF Next, StopNext, ChargerMoves, Replug, TargetMoves, AskPoll, ApplyPoll, PollFails,
     BeginStop, Veto, Land, Vanish, Accepted, NoAnswer, Toggle, Unload, Crash, Gone, Load, vars
<1>. QED
  BY <1>1 DEF Transmit, StopStillDue, LimitInv, SwitchIsObeyed

\* What was decided when a Stop was queued is decided again when it is sent, on every
\* attempt (_stop_still_due).
THEOREM LimitStopIsDue == Spec => StopIsDueAtTheWire
BY LimitInvHolds, TransmitIsDue, PTL DEF Spec, StopIsDueAtTheWire

\* Only a poll with the limit in force fires the event.
LEMMA EventIsAPolls ==
  ASSUME LimitInv, [Next]_vars, event' # None
  PROVE  UNCHANGED vars \/ (ApplyPoll /\ snapshot' \in Readings /\ Enforce(snapshot'))
<1>1. UNCHANGED vars \/ ApplyPoll
  BY DEF Next, StopNext, ChargerMoves, Replug, TargetMoves, AskPoll, PollFails, BeginStop,
     Transmit, Veto, Land, Vanish, Accepted, NoAnswer, Toggle, Unload, Crash, Gone, Load
<1>2. ASSUME ApplyPoll PROVE snapshot' \in Readings /\ Enforce(snapshot')
  BY <1>2 DEF ApplyPoll, LimitInv, Types, Readings
<1>. QED
  BY <1>1, <1>2

\* It fires for the Stop that was sent, with what that Stop was sent for.
LEMMA EventHasItsStop ==
  ASSUME LimitInv, ApplyPoll, event' # None,
         NEW reading \in Readings, reading = snapshot', Enforce(reading)
  PROVE  /\ event' = sentFor
         /\ \/ sentIn = "this"
            \/ sentIn = "earlier" /\ (snapshot'.active => snapshot'.clock >= latch.clock)
<1>1. latch.pending = event' /\ latch.attempted
  BY EnforceOutcome
<1>2. latch.pending = sentFor /\ sentIn \in {"this", "earlier"}
  BY <1>1 DEF LimitInv, Types, DecisionIsSent
<1>3. ASSUME reading.active PROVE reading.clock >= latch.clock
  <2>1. ~NewSession(reading)
    BY <1>3, EnforceOutcome
  <2>2. latch.clock \in {None} \cup Nat /\ reading.clock \in Nat
    BY ReadingsAreTyped DEF LimitInv, Types, Latches
  <2>. QED
    BY <2>1, <2>2 DEF NewSession, ClockReset
<1>. QED
  BY <1>1, <1>2, <1>3

\* After it was told nothing is told and no Stop begun until the session ends.
LEMMA ToldIsOver ==
  ASSUME LimitInv, [Next]_vars, told
  PROVE  UNCHANGED vars \/ (event' = None /\ ~(task # "yield" /\ task' = "yield"))
<1>1. CASE ApplyPoll
  <2>0. PICK reading \in Readings : reading = snapshot'
    BY <1>1 DEF ApplyPoll, LimitInv, Types, Readings
  <2>1. reading.energy = charger.energy /\ reading.clock = charger.clock
    BY <1>1, <2>0 DEF ApplyPoll, LimitInv, Types, Readings
  <2>2. latch.fired /\ ~NewSession(reading)
    BY <2>1 DEF LimitInv, ToldOnce, NewSession, EnergyReset, ClockReset
  <2>3. CASE Enforce(reading)
    <3>1. CASE reading.active
      BY <2>2, <2>3, <3>1, EnforceOutcome
    <3>2. CASE ~reading.active
      <4>1. task' = "none"
        BY <2>3, <3>2 DEF Enforce, Rearm
      <4>2. event' = None
        BY <2>2, <2>3, EnforceOutcome
      <4>. QED
        BY <4>1, <4>2
    <3>. QED
      BY <3>1, <3>2
  <2>4. CASE ~Enforce(reading)
    BY <1>1, <2>0, <2>4 DEF ApplyPoll, Rearm
  <2>. QED
    BY <2>3, <2>4
<1>2. CASE Load
  BY <1>2 DEF Load, LimitInv, ToldOnce
<1>3. CASE ~ApplyPoll /\ ~Load
  BY <1>3 DEF Next, StopNext, ChargerMoves, Replug, TargetMoves, AskPoll, PollFails, BeginStop,
     Transmit, Veto, Land, Vanish, Accepted, NoAnswer, Toggle, Unload, Crash, Gone, Rearm
<1>. QED
  BY <1>1, <1>2, <1>3

\* The reached event tells, once in a session, of a Stop that was sent, and of the target it
\* was sent for (process, _confirm in soc_limit.py).
THEOREM LimitEventIsTheStops == Spec => EventIsTheStops
<1>1. ASSUME LimitInv, [Next]_vars, event' # None
      PROVE  UNCHANGED vars \/
             /\ event' = sentFor
             /\ \/ sentIn = "this"
                \/ sentIn = "earlier" /\ (snapshot'.active => snapshot'.clock >= latch.clock)
  BY <1>1, EventIsAPolls, EventHasItsStop
<1>2. LimitInv /\ [Next]_vars => [event' # None =>
        \/ sentIn = "this"
        \/ sentIn = "earlier" /\ (snapshot'.active => snapshot'.clock >= latch.clock)]_vars
  BY <1>1
<1>3. LimitInv /\ [Next]_vars => [event' # None => event' = sentFor]_vars
  BY <1>1
<1>4. LimitInv /\ [Next]_vars =>
        [told => event' = None /\ ~(task # "yield" /\ task' = "yield")]_vars
  BY ToldIsOver
<1>. QED
  BY LimitInvHolds, <1>2, <1>3, <1>4, PTL
     DEF Spec, EventIsTheStops, EventNeedsAStop, EventNamesTheDecision, OncePerSession

\* A poll switches the limit off where "Disable limits" rose and only there, and a loaded
\* entry's switch is how it was last left: over reloads and restarts, and after a crash as
\* Home Assistant had last saved it (_handle_coordinator_update, async_added_to_hass).
THEOREM LimitSwitchKeepsItsSetting == Spec => SwitchKeepsItsSetting
<1>1. ASSUME LimitInv, [Next]_vars, SwitchedOffByPoll, ~blind PROVE rose
  <2>1. ApplyPoll
    BY <1>1 DEF SwitchedOffByPoll, Next, StopNext, ChargerMoves, Replug, TargetMoves, AskPoll,
       PollFails, BeginStop, Transmit, Veto, Land, Vanish, Accepted, NoAnswer, Toggle, Unload,
       Crash, Gone, Load, vars
  <2>2. snapshot'.suspended = charger.suspended
    BY <2>1 DEF ApplyPoll, LimitInv, Types, Readings
  <2>3. charger.suspended /\ ~wasSuspended /\ up
    BY <1>1, <2>1, <2>2 DEF SwitchedOffByPoll, ApplyPoll, SwitchFollows
  <2>. QED
    BY <1>1, <2>3 DEF LimitInv, EdgeIsKnown
<1>2. LimitInv => (up => isOn = setting /\ enabled = setting)
  BY DEF LimitInv, Types, SwitchIsObeyed, StateIsWritten
<1>. QED
  BY LimitInvHolds, <1>1, <1>2, PTL DEF Spec, SwitchKeepsItsSetting, PollsSpareTheSwitch
===============================================================================
