----------------------------- MODULE MemoryProofs -----------------------------
(***************************************************************************)
(* What the sensors remember of a charge: its costs, how it ended, when it *)
(* will finish, and, over missed polls, reloads and restarts, whether it   *)
(* is complete and since when the charger has been in its state; and what  *)
(* they reckon of one to come: the energy that it takes, and the windows   *)
(* it is priced over.                                                      *)
(***************************************************************************)
EXTENDS CostMeter, SessionEnd, FinishEstimate, ChargeMemory, SocForecast, Tariffs,
        TLAPS, WellFoundedInduction

-------------------------------------------------------------------------------
(***************************************************************************)
(* The Session Cost sensor, for every meter and every number of restarts:  *)
(* every hryvnia that was read reaches the statistics once.                *)
(*                                                                         *)
(* The inductive invariant balances what the readings add up to against    *)
(* the statistics and the part of the last reading that is still held      *)
(* back, and says that the sensor, or the one the next setup will restore, *)
(* goes on where the recorder is.                                          *)
(***************************************************************************)

Number == Nat \cup {NoCost}

\* A sensor's record, of whose fields the statistics depend on these.
IsMeter(s) ==
    /\ DOMAIN s = {"native", "latest", "context", "clock", "sameMinute", "anchor", "window",
                   "previous"}
    /\ {s.native, s.latest, s.previous} \subseteq Number
    /\ s.window \in Nat

CostTypes ==
    /\ money \in Nat /\ IsMeter(sensor)
    /\ {kept.state.value, kept.previous} \subseteq Number
    /\ {kept.state.window, kept.window} \subseteq Nat
    /\ recorder \in [sum : Nat, last : Number, window : Nat]
    /\ seen \in Number /\ owed \in Nat

\* A restored sensor goes on where the recorder is.
IsRecorded(s, stats) ==
    /\ s.previous = stats.last /\ s.window = stats.window
    /\ stats.window = 0 <=> stats.last = NoCost

\* The sensor as it is, or as the next setup will restore it.
Retained == IF loaded THEN sensor ELSE RestoredMeter

\* What the readings add up to beyond the statistics is the part of the last one held back.
Balanced ==
    /\ recorder.last = NoCost => seen = NoCost /\ recorder.sum = 0 /\ owed = 0
    /\ recorder.last # NoCost =>
          /\ seen >= recorder.last
          /\ recorder.sum + seen - recorder.last = owed

\* What is shown was booked.
ShownIsBooked == sensor.native # NoCost => sensor.native = sensor.previous

\* Something is held back only while the charger answers; once it is lost, the next
\* reading is published whatever it is.
HeldIsRead ==
    /\ sensor.latest # NoCost =>
          link = "on" /\ loaded /\ sensor.native # NoCost /\ seen = sensor.latest
    /\ sensor.latest = NoCost =>
          /\ seen = recorder.last
          /\ sensor.native # NoCost => sensor.context \notin {"charging", "idle"}

CostInv ==
    CostTypes /\ IsRecorded(Retained, recorder) /\ Balanced /\ ShownIsBooked /\ HeldIsRead

-------------------------------------------------------------------------------
(* Publishing.                                                             *)

USE DEF NoCost, Number

\* By how much the statistics grow when a meter that showed one value shows another.
Growth(from, to) == IF from = NoCost THEN 0 ELSE IF to < from THEN to ELSE to - from

\* The statistics only ever grow by a number.
LEMMA GrowthIsTyped ==
    ASSUME NEW from \in Number, NEW to \in Number, from # NoCost => to # NoCost
    PROVE  Growth(from, to) \in Nat
BY DEF Growth

\* The bookkeeping of a published value: a drop opens a window.
LEMMA BookkeptOutcome ==
    ASSUME NEW s, IsMeter(s), NEW value \in Number
    PROVE  LET b == Bookkept(s, value)
           IN  /\ IsMeter(b) /\ b.native = value /\ b.latest = s.latest /\ b.context = s.context
               /\ b.previous = IF value = NoCost THEN s.previous ELSE value
               /\ b.window = IF value # NoCost /\ Opens(s, value) THEN s.window + 1 ELSE s.window
<1> DEFINE b == Bookkept(s, value)
<1>1. CASE value = NoCost
  <2>1. b = [s EXCEPT !.native = NoCost]
    BY <1>1 DEF Bookkept
  <2>. QED
    BY <1>1, <2>1 DEF IsMeter
<1>2. CASE value # NoCost
  <2> DEFINE w == IF Opens(s, value) THEN s.window + 1 ELSE s.window
  <2>1. b = [s EXCEPT !.native = value, !.previous = value, !.window = w]
    BY <1>2 DEF Bookkept
  <2>2. w \in Nat
    BY DEF IsMeter
  <2> HIDE DEF w
  <2>3. /\ IsMeter(b) /\ b.native = value /\ b.latest = s.latest /\ b.context = s.context
        /\ b.previous = value /\ b.window = w
    BY <1>2, <2>1, <2>2 DEF IsMeter
  <2>. QED
    BY <1>2, <2>3 DEF w
<1>. QED
  BY <1>1, <1>2

\* What is available is booked; the rest is blank.
LEMMA PublishedOutcome ==
    ASSUME NEW s, IsMeter(s), NEW up, NEW value \in Number
    PROVE  LET p == Published(s, up, value)
               v == IF ~Available(s, up, value) THEN NoCost
                    ELSE IF value = NoCost THEN s.native ELSE value
           IN  /\ IsMeter(p) /\ p.native = v /\ p.latest = s.latest /\ p.context = s.context
               /\ p.previous = IF v = NoCost THEN s.previous ELSE v
               /\ p.window = IF v # NoCost /\ Opens(s, v) THEN s.window + 1 ELSE s.window
<1>1. {value, s.native, NoCost} \subseteq Number
  BY DEF IsMeter
<1>2. [s EXCEPT !.native = NoCost] = Bookkept(s, NoCost)
  BY DEF Bookkept
<1>. QED
  BY <1>1, <1>2, BookkeptOutcome DEF Published

\* The statistics follow what is published.
LEMMA CompiledFollows ==
    ASSUME NEW s, IsMeter(s), NEW stats \in [sum : Nat, last : Number, window : Nat],
           IsRecorded(s, stats), NEW up, NEW value \in Number
    PROVE  LET p == Published(s, up, value)
               r == Compiled(stats, Exposed(p))
           IN  /\ IsMeter(p) /\ r \in [sum : Nat, last : Number, window : Nat]
               /\ IsRecorded(p, r)
               /\ r.sum = stats.sum + Growth(stats.last, r.last)
               /\ stats.last # NoCost => r.last # NoCost
<1> DEFINE p == Published(s, up, value)
           r == Compiled(stats, Exposed(p))
<1>1. /\ IsMeter(p)
      /\ p.native = NoCost => p.previous = s.previous /\ p.window = s.window
      /\ p.native # NoCost =>
            /\ p.previous = p.native
            /\ p.window = IF Opens(s, p.native) THEN s.window + 1 ELSE s.window
  BY PublishedOutcome
<1>2. stats.sum \in Nat /\ stats.last \in Number /\ stats.window \in Nat
  OBVIOUS
<1> HIDE DEF p
<1>3. CASE p.native = NoCost
  <2>1. r = stats
    BY <1>3 DEF Exposed, Blank, Compiled
  <2>2. Growth(stats.last, stats.last) = 0
    BY <1>2 DEF Growth
  <2>. QED
    BY <1>1, <1>2, <1>3, <2>1, <2>2 DEF IsRecorded, p
<1>4. CASE p.native # NoCost
  <2>1. p.native \in Nat
    BY <1>1, <1>4 DEF IsMeter
  <2>2. /\ r.last = p.native /\ r.window = p.window
        /\ r = [sum |-> r.sum, last |-> r.last, window |-> r.window]
        /\ r.sum = stats.sum + (IF stats.last = NoCost THEN 0
                                ELSE IF p.window = stats.window
                                     THEN p.native - stats.last ELSE p.native)
    BY <1>4 DEF Exposed, Compiled
  <2>3. p.window = stats.window \/ p.window = stats.window + 1
    BY <1>1, <1>4 DEF IsRecorded
  <2>4. p.window = stats.window <=> stats.last # NoCost /\ p.native >= stats.last
    BY <1>1, <1>2, <1>4, <2>1 DEF IsRecorded, Opens
  <2>5. r.sum = stats.sum + Growth(stats.last, p.native)
    BY <1>2, <2>1, <2>2, <2>4 DEF Growth
  <2>6. r.sum \in Nat
    <3>1. Growth(stats.last, p.native) \in Nat
      BY <1>2, <2>1, GrowthIsTyped
    <3>. QED
      BY <1>2, <2>5, <3>1
  <2>7. p.window # 0
    BY <1>2, <2>3, <2>4, <2>1 DEF IsRecorded
  <2>. QED
    BY <1>1, <1>2, <1>4, <2>1, <2>2, <2>3, <2>5, <2>6, <2>7 DEF IsRecorded, p
<1>. QED
  BY <1>3, <1>4

\* The sensor is recorded and booked, and the sums agree, once something is published over it.
LEMMA PublishedIsBooked ==
    ASSUME NEW s, IsMeter(s), NEW up, NEW value \in Number,
           s.native # NoCost => s.native = s.previous
    PROVE  LET p == Published(s, up, value)
           IN  p.native # NoCost => p.native = p.previous
BY PublishedOutcome

-------------------------------------------------------------------------------
(* The coordinator's updates.                                              *)

\* What is held back goes out before a lower reading, a restart of the clock and a blank.
LEMMA FlushOutcome ==
    ASSUME CostInv, loaded, NEW up \in {"on", "grace", "off"}, NEW value \in Number, NEW isReset,
           up # "on" => value = NoCost,
           up = "off" => link # "on"
    PROVE  LET first == Flushed(sensor, up, value, isReset)
               r == Compiled(recorder, Exposed(first))
           IN  /\ IsMeter(first) /\ r \in [sum : Nat, last : Number, window : Nat]
               /\ IsRecorded(first, r)
               /\ first.native # NoCost => first.native = first.previous
               /\ first.native = NoCost <=> sensor.native = NoCost
               /\ first.context = sensor.context
               /\ \/ /\ r = recorder /\ first = sensor
                     /\ ~((isReset \/ value = NoCost) /\ sensor.latest # NoCost)
                  \/ /\ sensor.latest # NoCost /\ r.last = sensor.latest
                     /\ r.sum = recorder.sum + Growth(recorder.last, r.last)
<1> DEFINE first == Flushed(sensor, up, value, isReset)
           r == Compiled(recorder, Exposed(first))
<1>1. /\ IsMeter(sensor) /\ recorder \in [sum : Nat, last : Number, window : Nat]
      /\ IsRecorded(sensor, recorder) /\ ShownIsBooked /\ HeldIsRead
  BY DEF CostInv, CostTypes, Retained
<1>2. CASE (isReset \/ value = NoCost) /\ sensor.latest # NoCost
  <2>1. first = Published(sensor, up, sensor.latest) /\ sensor.latest \in Number
    BY <1>1, <1>2 DEF Flushed, IsMeter
  <2>2. up \in {"on", "grace"} /\ sensor.native # NoCost
    BY <1>1, <1>2 DEF HeldIsRead
  <2>3. /\ first.native = sensor.latest /\ first.previous = sensor.latest
        /\ first.context = sensor.context
    BY <1>1, <1>2, <2>1, <2>2, PublishedOutcome DEF Available
  <2>. QED
    BY <1>1, <1>2, <2>1, <2>2, <2>3, CompiledFollows DEF IsRecorded
<1>3. CASE ~((isReset \/ value = NoCost) /\ sensor.latest # NoCost)
  <2>1. first = sensor
    BY <1>3 DEF Flushed
  <2>2. r = recorder
    BY <1>1, <2>1 DEF Exposed, Blank, Compiled, ShownIsBooked, IsRecorded
  <2>. QED
    BY <1>1, <1>3, <2>1, <2>2 DEF ShownIsBooked
<1>. QED
  BY <1>2, <1>3

\* What a reading adds to what is owed.
LEMMA CountsOutcome ==
    ASSUME NEW value \in Number, seen \in Number, Counts(value)
    PROVE  /\ seen' = IF value = NoCost THEN seen ELSE value
           /\ owed' = IF value = NoCost THEN owed ELSE owed + Growth(seen, value)
BY DEF Counts, Growth

\* An update publishes the tail, then the reading or what was shown before, and the sums agree.
LEMMA HandleKeepsInv ==
    ASSUME CostInv, loaded, loaded', NEW up \in {"on", "grace", "off"}, NEW value \in Number,
           NEW clock, NEW context, Handle(up, value, clock, context), link' = up,
           money' \in Nat, kept' = kept,
           seen' = IF value = NoCost THEN seen ELSE value,
           owed' = IF value = NoCost THEN owed ELSE owed + Growth(seen, value),
           up = "on" => context \in {"charging", "idle"},
           up # "on" => value = NoCost /\ context = "unreachable",
           up = "off" => link # "on"
    PROVE  CostInv'
<1> DEFINE isReset ==
               \/ value # NoCost /\ sensor.latest # NoCost /\ value < sensor.latest
               \/ clock # NoCost /\ sensor.clock # NoCost /\ clock < sensor.clock
           terminal == isReset \/ context # sensor.context \/ value = NoCost
           first == Flushed(sensor, up, value, isReset)
           publishes == \/ terminal
                        \/ first.native = NoCost
                        \/ ~first.sameMinute /\ BandReached(first, value)
           given == IF publishes THEN value ELSE first.native
           second == Published(first, up, given)
           r == Compiled(recorder, Exposed(first))
<1>1. /\ sensor' = [second EXCEPT !.latest = value, !.context = context, !.clock = clock,
                                  !.sameMinute = @ \/ publishes,
                                  !.anchor = IF publishes THEN value ELSE @]
      /\ recorder' = Compiled(r, Exposed(second))
  BY DEF Handle
<1>2. isReset <=> \/ value # NoCost /\ sensor.latest # NoCost /\ value < sensor.latest
                  \/ clock # NoCost /\ sensor.clock # NoCost /\ clock < sensor.clock
  OBVIOUS
<1> HIDE DEF isReset
<1>3. /\ IsMeter(first) /\ r \in [sum : Nat, last : Number, window : Nat]
      /\ IsRecorded(first, r)
      /\ first.native # NoCost => first.native = first.previous
      /\ first.native = NoCost <=> sensor.native = NoCost
      /\ first.context = sensor.context
      /\ \/ /\ r = recorder /\ first = sensor
            /\ ~((isReset \/ value = NoCost) /\ sensor.latest # NoCost)
         \/ /\ sensor.latest # NoCost /\ r.last = sensor.latest
            /\ r.sum = recorder.sum + Growth(recorder.last, r.last)
  BY FlushOutcome
<1>4. (publishes <=> \/ isReset \/ context # sensor.context \/ value = NoCost
                     \/ first.native = NoCost
                     \/ ~first.sameMinute /\ BandReached(first, value))
  OBVIOUS
<1> HIDE DEF publishes, terminal, first
<1>5. given \in Number
  BY <1>3 DEF IsMeter
<1>6. /\ IsMeter(second) /\ recorder' \in [sum : Nat, last : Number, window : Nat]
      /\ IsRecorded(second, recorder')
      /\ recorder'.sum = r.sum + Growth(r.last, recorder'.last)
      /\ r.last # NoCost => recorder'.last # NoCost
  BY <1>1, <1>3, <1>5, CompiledFollows
<1>7. second.native # NoCost => second.native = second.previous
  BY <1>3, <1>5, PublishedIsBooked
<1>8. /\ second.native = IF ~Available(first, up, given) THEN NoCost
                         ELSE IF given = NoCost THEN first.native ELSE given
      /\ second.native = NoCost => second.previous = first.previous
      /\ second.context = first.context
  BY <1>3, <1>5, PublishedOutcome
<1> HIDE DEF given, second, r
<1>9. /\ IsMeter(sensor') /\ sensor'.native = second.native /\ sensor'.previous = second.previous
      /\ sensor'.window = second.window /\ sensor'.latest = value /\ sensor'.context = context
  BY <1>1, <1>6 DEF IsMeter
<1>10. CostTypes /\ IsRecorded(sensor, recorder) /\ Balanced /\ ShownIsBooked /\ HeldIsRead
  BY DEF CostInv, Retained
<1>11. /\ {recorder.last, r.last, recorder'.last, seen, value, sensor.latest} \subseteq Number
       /\ {recorder.sum, r.sum, recorder'.sum, owed} \subseteq Nat
  BY <1>3, <1>6, <1>10 DEF CostTypes, IsMeter
<1>12. CostTypes'
  <2>1. seen' \in Number
    BY <1>11
  <2>2. value # NoCost => Growth(seen, value) \in Nat
    BY <1>11, GrowthIsTyped
  <2>3. owed' \in Nat
    BY <1>11, <2>2
  <2>. QED
    BY <1>6, <1>9, <1>10, <2>1, <2>3 DEF CostTypes
<1>13. IsRecorded(Retained, recorder)'
  BY <1>6, <1>9 DEF Retained, IsRecorded
<1>14. ShownIsBooked'
  BY <1>7, <1>9 DEF ShownIsBooked
<1>15. recorder'.last = second.previous /\ r.last = first.previous
  BY <1>3, <1>6 DEF IsRecorded
<1>16. /\ recorder.last = NoCost => seen = NoCost /\ recorder.sum = 0 /\ owed = 0
       /\ recorder.last # NoCost =>
             seen # NoCost /\ seen >= recorder.last
             /\ recorder.sum + seen - recorder.last = owed
  BY <1>10, <1>11 DEF Balanced
<1>17. CASE value = NoCost
  <2>1. given = NoCost
    BY <1>4, <1>17 DEF given
  <2>2. recorder'.last = r.last
    BY <1>3, <1>7, <1>8, <1>15, <2>1 DEF Available
  <2>3. recorder'.sum = r.sum
    BY <1>6, <1>11, <2>2 DEF Growth
  <2>4. seen' = seen /\ owed' = owed
    BY <1>17
  <2>5. /\ r.last = seen
        /\ r.last = NoCost => r.sum = 0 /\ owed = 0
        /\ r.last # NoCost => r.sum = owed
    <3>1. CASE sensor.latest = NoCost
      BY <1>3, <1>10, <1>11, <1>16, <3>1 DEF HeldIsRead
    <3>2. CASE sensor.latest # NoCost
      <4>1. seen = sensor.latest /\ recorder.last # NoCost
        BY <1>10, <1>16, <3>2 DEF HeldIsRead
      <4>2. r.last = seen /\ r.sum = recorder.sum + Growth(recorder.last, seen)
        BY <1>3, <1>17, <3>2, <4>1
      <4>3. Growth(recorder.last, seen) = seen - recorder.last
        BY <1>11, <1>16, <4>1 DEF Growth
      <4>. QED
        BY <1>11, <1>16, <3>2, <4>1, <4>2, <4>3
    <3>. QED
      BY <3>1, <3>2
  <2>6. Balanced'
    BY <1>11, <2>2, <2>3, <2>4, <2>5 DEF Balanced
  <2>7. HeldIsRead'
    BY <1>8, <1>9, <1>17, <2>1, <2>2, <2>4, <2>5 DEF HeldIsRead, Available
  <2>. QED
    BY <1>12, <1>13, <1>14, <2>6, <2>7 DEF CostInv
<1>18. CASE value # NoCost
  <2>1. up = "on" /\ context \in {"charging", "idle"} /\ value \in Nat
    BY <1>11, <1>18
  <2>2. /\ seen' = value /\ owed' = owed + Growth(seen, value)
        /\ recorder'.sum = r.sum + Growth(r.last, recorder'.last)
    BY <1>6, <1>18
  <2>3. second.native # NoCost
    BY <1>4, <1>8, <1>18, <2>1 DEF Available, given
  <2>4. recorder'.last = IF publishes THEN value ELSE r.last
    BY <1>3, <1>4, <1>7, <1>8, <1>15, <1>18, <2>1 DEF Available, given
  <2>5. sensor.latest = NoCost => publishes /\ r = recorder /\ seen = recorder.last
    BY <1>3, <1>4, <1>10, <2>1 DEF HeldIsRead
  <2>6. sensor.latest # NoCost =>
            /\ seen = sensor.latest /\ recorder.last # NoCost
            /\ ~isReset => value >= seen
            /\ \/ r = recorder /\ ~isReset
               \/ r.last = seen /\ r.sum = recorder.sum + Growth(recorder.last, seen)
    BY <1>2, <1>3, <1>10, <1>11, <1>16, <2>1 DEF HeldIsRead
  <2>7. ~publishes => ~isReset
    BY <1>4
  <2>8. Balanced'
    <3>1. CASE sensor.latest = NoCost
      <4>1. recorder'.last = value /\ recorder'.sum = recorder.sum + Growth(seen, value)
        BY <2>2, <2>4, <2>5, <3>1
      <4>. QED
        BY <1>11, <1>16, <2>1, <2>2, <2>5, <3>1, <4>1 DEF Balanced, Growth
    <3>2. CASE sensor.latest # NoCost /\ publishes
      <4>1. recorder'.last = value /\ recorder'.sum = r.sum + Growth(r.last, value)
        BY <2>2, <2>4, <3>2
      <4>2. /\ {recorder.last, seen, value, recorder.sum, owed} \subseteq Nat
            /\ recorder.last <= seen /\ recorder.sum + (seen - recorder.last) = owed
        BY <1>11, <1>16, <2>1, <2>6, <3>2
      <4>3. CASE r = recorder /\ value >= seen
        <5>1. /\ Growth(recorder.last, value) = value - recorder.last
              /\ Growth(seen, value) = value - seen
          BY <4>2, <4>3 DEF Growth
        <5>2. recorder'.sum = owed'
          BY <2>2, <4>1, <4>2, <4>3, <5>1
        <5>. QED
          BY <2>1, <2>2, <4>1, <4>2, <5>2, <1>11 DEF Balanced
      <4>4. CASE r.last = seen /\ r.sum = recorder.sum + Growth(recorder.last, seen)
        <5>1. Growth(recorder.last, seen) = seen - recorder.last
          BY <4>2 DEF Growth
        <5>2. r.sum = owed
          BY <4>2, <4>4, <5>1
        <5>3. recorder'.sum = owed'
          BY <2>2, <4>1, <4>4, <5>2
        <5>. QED
          BY <2>1, <2>2, <4>1, <4>2, <5>3, <1>11 DEF Balanced
      <4>. QED
        BY <2>6, <3>2, <4>3, <4>4
    <3>3. CASE sensor.latest # NoCost /\ ~publishes
      <4>1. recorder'.last = r.last /\ recorder'.sum = r.sum + Growth(r.last, r.last)
        BY <2>2, <2>4, <3>3
      <4>. QED
        BY <1>11, <1>16, <2>1, <2>2, <2>6, <2>7, <3>3, <4>1 DEF Balanced, Growth
    <3>. QED
      BY <3>1, <3>2, <3>3
  <2>9. HeldIsRead'
    BY <1>9, <1>18, <2>1, <2>2, <2>3 DEF HeldIsRead
  <2>. QED
    BY <1>12, <1>13, <1>14, <2>8, <2>9 DEF CostInv
<1>. QED
  BY <1>17, <1>18

\* A new sensor shows nothing and holds nothing back.
LEMMA NewSensorIsMeter ==
    /\ IsMeter(NewSensor)
    /\ NewSensor.native = NoCost /\ NewSensor.latest = NoCost /\ NewSensor.context = "none"
BY DEF NewSensor, IsMeter

\* A restored sensor neither, and goes on with the windows that were kept.
LEMMA RestoredOutcome ==
    ASSUME {kept.state.value, kept.previous} \subseteq Number,
           {kept.state.window, kept.window} \subseteq Nat
    PROVE  /\ IsMeter(RestoredMeter)
           /\ RestoredMeter.native = NoCost /\ RestoredMeter.latest = NoCost
           /\ RestoredMeter.context = "none"
           /\ RestoredMeter.window =
                 IF kept.state.value # NoCost THEN kept.state.window ELSE kept.window
           /\ RestoredMeter.previous =
                 IF kept.state.value # NoCost THEN kept.state.value ELSE kept.previous
<1> DEFINE w == IF kept.state.value # NoCost THEN kept.state.window ELSE kept.window
           v == IF kept.state.value # NoCost THEN kept.state.value ELSE kept.previous
<1>1. w \in Nat /\ v \in Number
  OBVIOUS
<1>2. RestoredMeter = [NewSensor EXCEPT !.window = w, !.previous = v]
  BY DEF RestoredMeter
<1> HIDE DEF w, v
<1>3. /\ IsMeter(RestoredMeter)
      /\ RestoredMeter.native = NoCost /\ RestoredMeter.latest = NoCost
      /\ RestoredMeter.context = "none"
      /\ RestoredMeter.window = w /\ RestoredMeter.previous = v
  BY <1>1, <1>2 DEF NewSensor, IsMeter
<1>. QED
  BY <1>3 DEF w, v

\* What an entity leaves behind is where the recorder is, whatever it shows.
LEMMA LeavesOutcome ==
    ASSUME NEW s, IsMeter(s), Leaves(s), IsRecorded(s, recorder'), money \in Nat,
           s.native # NoCost => s.native = s.previous,
           recorder' \in [sum : Nat, last : Number, window : Nat],
           seen' = recorder'.last, owed' \in Nat,
           recorder'.last = NoCost => recorder'.sum = 0 /\ owed' = 0,
           recorder'.last # NoCost => recorder'.sum = owed'
    PROVE  CostInv'
<1>1. /\ ~loaded' /\ sensor' = NewSensor /\ money' = money
      /\ kept' = [state |-> Exposed(s), window |-> s.window, previous |-> s.previous]
  BY DEF Leaves, chargerVars
<1>2. /\ kept'.state = Exposed(s) /\ kept'.window = s.window /\ kept'.previous = s.previous
  BY <1>1
<1>3. /\ kept'.state.value = s.native
      /\ kept'.state.window = IF s.native = NoCost THEN 0 ELSE s.window
  BY <1>2 DEF Exposed, Blank
<1>4. /\ {kept'.state.value, kept'.previous} \subseteq Number
      /\ {kept'.state.window, kept'.window} \subseteq Nat
  BY <1>2, <1>3 DEF IsMeter
<1>5. CostTypes'
  BY <1>1, <1>4, NewSensorIsMeter DEF CostTypes, IsMeter
<1>6. /\ RestoredMeter'.window =
            IF kept'.state.value # NoCost THEN kept'.state.window ELSE kept'.window
      /\ RestoredMeter'.previous =
            IF kept'.state.value # NoCost THEN kept'.state.value ELSE kept'.previous
  BY <1>4 DEF RestoredMeter, NewSensor
<1>7. IsRecorded(Retained, recorder)'
  BY <1>1, <1>2, <1>3, <1>6 DEF Retained, IsRecorded
<1>8. Balanced' /\ ShownIsBooked' /\ HeldIsRead'
  BY <1>1, NewSensorIsMeter DEF Balanced, ShownIsBooked, HeldIsRead, CostTypes
<1>. QED
  BY <1>5, <1>7, <1>8 DEF CostInv

\* An unload publishes what was held back; the sensor that was is retained.
LEMMA UnloadsKeepsInv == CostInv /\ (Unloads \/ Halts) => CostInv'
<1> SUFFICES ASSUME CostInv, Unloads \/ Halts PROVE CostInv'
  OBVIOUS
<1>1. /\ CostTypes /\ IsRecorded(sensor, recorder) /\ Balanced /\ ShownIsBooked /\ HeldIsRead
      /\ loaded
  BY DEF CostInv, Retained, Unloads, Halts
<1>2. /\ IsMeter(sensor) /\ recorder \in [sum : Nat, last : Number, window : Nat]
      /\ {recorder.last, seen, sensor.latest} \subseteq Number
      /\ {recorder.sum, owed, money} \subseteq Nat
  BY <1>1 DEF CostTypes, IsMeter
<1>3. recorder = Compiled(recorder, Exposed(sensor))
  BY <1>1, <1>2 DEF Exposed, Blank, Compiled, ShownIsBooked, IsRecorded
<1>4. CASE Halts
  <2>1. Leaves(sensor) /\ seen' = recorder.last /\ owed' = recorder.sum
    BY <1>4 DEF Halts
  <2>2. recorder' = recorder
    BY <1>3, <2>1 DEF Leaves
  <2>. QED
    BY <1>1, <1>2, <2>1, <2>2, LeavesOutcome DEF ShownIsBooked, Balanced
<1>5. CASE Unloads /\ sensor.latest = NoCost
  <2>1. Leaves(sensor) /\ seen' = seen /\ owed' = owed
    BY <1>5 DEF Unloads
  <2>2. recorder' = recorder
    BY <1>3, <2>1 DEF Leaves
  <2>3. seen = recorder.last /\ (recorder.last # NoCost => recorder.sum = owed)
    BY <1>1, <1>2, <1>5 DEF HeldIsRead, Balanced
  <2>. QED
    BY <1>1, <1>2, <2>1, <2>2, <2>3, LeavesOutcome DEF ShownIsBooked, Balanced
<1>6. CASE Unloads /\ sensor.latest # NoCost
  <2> DEFINE s == Published(sensor, link, sensor.latest)
  <2>1. Leaves(s) /\ seen' = seen /\ owed' = owed
    BY <1>6 DEF Unloads
  <2>2. recorder' = Compiled(recorder, Exposed(s))
    BY <2>1 DEF Leaves
  <2>3. /\ link = "on" /\ seen = sensor.latest /\ recorder.last # NoCost
        /\ seen >= recorder.last /\ recorder.sum + (seen - recorder.last) = owed
    BY <1>1, <1>2, <1>6 DEF HeldIsRead, Balanced
  <2>4. s.native = seen /\ s.previous = seen
    BY <1>2, <1>6, <2>3, PublishedOutcome DEF Available
  <2>5. /\ IsMeter(s) /\ recorder' \in [sum : Nat, last : Number, window : Nat]
        /\ IsRecorded(s, recorder')
        /\ recorder'.sum = recorder.sum + Growth(recorder.last, recorder'.last)
    BY <1>1, <1>2, <2>2, CompiledFollows
  <2> HIDE DEF s
  <2>6. recorder'.last = seen /\ recorder'.sum = owed
    BY <1>2, <2>3, <2>4, <2>5 DEF IsRecorded, Growth
  <2>. QED
    BY <1>2, <1>6, <2>1, <2>3, <2>4, <2>5, <2>6, LeavesOutcome
<1>. QED
  BY <1>4, <1>5, <1>6

\* A sensor that is added starts from what it left, and shows the first reading at once.
LEMMA AddSensorKeepsInv == CostInv /\ AddSensor => CostInv'
<1> SUFFICES ASSUME CostInv, AddSensor PROVE CostInv'
  OBVIOUS
<1>1. PICK up \in {"on", "off"}, value \in {money, NoCost} :
          /\ up = "off" => value = NoCost
          /\ sensor' = Published(RestoredMeter, up, value)
          /\ Counts(value)
  BY DEF AddSensor
<1>2. /\ loaded' /\ ~loaded /\ recorder' = Compiled(recorder, Exposed(sensor'))
      /\ UNCHANGED <<money, kept>>
  BY DEF AddSensor, chargerVars
<1>3. CostTypes /\ IsRecorded(RestoredMeter, recorder) /\ Balanced /\ HeldIsRead
  BY <1>2 DEF CostInv, Retained
<1>4. /\ IsMeter(RestoredMeter) /\ RestoredMeter.native = NoCost
      /\ RestoredMeter.latest = NoCost /\ RestoredMeter.context = "none"
  BY <1>3, RestoredOutcome DEF CostTypes
<1>5. value \in Number /\ recorder \in [sum : Nat, last : Number, window : Nat]
  BY <1>3 DEF CostTypes
<1>6. /\ IsMeter(sensor') /\ recorder' \in [sum : Nat, last : Number, window : Nat]
      /\ IsRecorded(sensor', recorder')
      /\ recorder'.sum = recorder.sum + Growth(recorder.last, recorder'.last)
  BY <1>1, <1>2, <1>3, <1>4, <1>5, CompiledFollows
<1>7. /\ sensor'.native = value /\ sensor'.latest = NoCost /\ sensor'.context = "none"
      /\ sensor'.previous = IF value = NoCost THEN RestoredMeter.previous ELSE value
  BY <1>1, <1>4, <1>5, PublishedOutcome DEF Available
<1>8. /\ seen' = IF value = NoCost THEN seen ELSE value
      /\ owed' = IF value = NoCost THEN owed ELSE owed + Growth(seen, value)
  BY <1>1, <1>3, <1>5, CountsOutcome DEF CostTypes
<1>9. recorder'.last = IF value = NoCost THEN recorder.last ELSE value
  BY <1>3, <1>6, <1>7 DEF IsRecorded
<1>10. /\ seen = recorder.last /\ {seen, value} \subseteq Number
       /\ {recorder.sum, recorder'.sum, owed} \subseteq Nat
       /\ recorder.last = NoCost => recorder.sum = 0 /\ owed = 0
       /\ recorder.last # NoCost => recorder.sum = owed
  BY <1>2, <1>3, <1>5, <1>6 DEF HeldIsRead, CostTypes, Balanced
<1>11. Balanced'
  <2>1. CASE value = NoCost
    <3>1. recorder'.sum = recorder.sum
      BY <1>6, <1>9, <1>10, <2>1 DEF Growth
    <3>. QED
      BY <1>8, <1>9, <1>10, <2>1, <3>1 DEF Balanced
  <2>2. CASE value # NoCost
    <3>1. recorder'.sum = owed'
      BY <1>6, <1>8, <1>9, <1>10, <2>2 DEF Growth
    <3>. QED
      BY <1>8, <1>9, <1>10, <2>2, <3>1 DEF Balanced
  <2>. QED
    BY <2>1, <2>2
<1>12. CostTypes'
  <2>1. value # NoCost => Growth(seen, value) \in Nat
    BY <1>10, GrowthIsTyped
  <2>2. seen' \in Number /\ owed' \in Nat
    BY <1>8, <1>10, <2>1
  <2>. QED
    BY <1>2, <1>3, <1>6, <2>2 DEF CostTypes
<1>13. IsRecorded(Retained, recorder)' /\ ShownIsBooked' /\ HeldIsRead'
  BY <1>2, <1>6, <1>7, <1>8, <1>9, <1>10 DEF Retained, IsRecorded, ShownIsBooked, HeldIsRead
<1>. QED
  BY <1>11, <1>12, <1>13 DEF CostInv

\* The invariant holds at first.
LEMMA CostInvInit == CostInit => CostInv
<1> SUFFICES ASSUME CostInit PROVE CostInv
  OBVIOUS
<1>1. /\ money = 0 /\ ~loaded /\ sensor = NewSensor /\ seen = NoCost /\ owed = 0
      /\ kept = [state |-> Blank, window |-> 0, previous |-> NoCost]
      /\ recorder = [sum |-> 0, last |-> NoCost, window |-> 0]
  BY DEF CostInit
<1>2. /\ kept.state.value = NoCost /\ kept.state.window = 0 /\ kept.window = 0
      /\ kept.previous = NoCost
  BY <1>1 DEF Blank
<1>3. CostTypes
  BY <1>1, <1>2, NewSensorIsMeter DEF CostTypes
<1>. QED
  BY <1>1, <1>2, <1>3, NewSensorIsMeter, RestoredOutcome
  DEF CostInv, IsRecorded, Retained, Balanced, ShownIsBooked, HeldIsRead

\* Every step keeps the invariant.
LEMMA CostInvNext == CostInv /\ [CostNext]_costVars => CostInv'
<1> SUFFICES ASSUME CostInv, [CostNext]_costVars PROVE CostInv'
  OBVIOUS
<1>1. ASSUME UNCHANGED <<link, loaded, kept, recorder, seen, owed>>, money' \in Nat,
             IsMeter(sensor'), sensor'.native = sensor.native, sensor'.latest = sensor.latest,
             sensor'.context = sensor.context, sensor'.previous = sensor.previous,
             sensor'.window = sensor.window
      PROVE  CostInv'
  BY <1>1 DEF CostInv, CostTypes, IsRecorded, Retained, RestoredMeter, Balanced, ShownIsBooked,
              HeldIsRead
<1>2. CASE ChargerNext \/ UNCHANGED costVars
  <2>1. money' \in Nat /\ UNCHANGED <<link, loaded, sensor, kept, recorder, seen, owed>>
    BY <1>2 DEF ChargerNext, Runs, Toggles, Restarts, costVars, chargerVars, CostInv, CostTypes
  <2>. QED
    BY <1>1, <2>1 DEF CostInv, CostTypes
<1>3. CASE MinutePasses
  <2>1. /\ sensor' = [sensor EXCEPT !.sameMinute = FALSE] /\ money' \in Nat
        /\ UNCHANGED <<link, loaded, kept, recorder, seen, owed>> /\ IsMeter(sensor)
    BY <1>3 DEF MinutePasses, chargerVars, CostInv, CostTypes
  <2>2. IsMeter(sensor')
    BY <2>1 DEF IsMeter
  <2>. QED
    BY <1>1, <2>1, <2>2 DEF IsMeter
<1>4. CASE CostPoll
  <2>1. PICK value \in {money, NoCost}, clock \in {ticks, NoCost} :
            Handle("on", value, clock, Context("on")) /\ Counts(value)
    BY <1>4 DEF CostPoll
  <2>2. /\ loaded /\ loaded' /\ link' = "on" /\ kept' = kept /\ money' \in Nat
        /\ value \in Number /\ seen \in Number
    BY <1>4 DEF CostPoll, chargerVars, CostInv, CostTypes
  <2>3. /\ seen' = IF value = NoCost THEN seen ELSE value
        /\ owed' = IF value = NoCost THEN owed ELSE owed + Growth(seen, value)
    BY <2>1, <2>2, CountsOutcome
  <2>4. Context("on") \in {"charging", "idle"}
    BY DEF Context
  <2>. QED
    BY <2>1, <2>2, <2>3, <2>4, HandleKeepsInv
<1>5. CASE PollsFail
  <2>1. /\ loaded /\ loaded' /\ kept' = kept /\ money' \in Nat /\ UNCHANGED <<seen, owed>>
        /\ link' \in {"grace", "off"} /\ (link' = "off" => link # "on")
        /\ Handle(link', NoCost, sensor.clock, Context(link'))
    BY <1>5 DEF PollsFail, chargerVars, CostInv, CostTypes
  <2>2. PICK up \in {"on", "grace", "off"} : link' = up
    BY <2>1
  <2>3. Context(up) = "unreachable"
    BY <2>1, <2>2 DEF Context
  <2>. QED
    BY <2>1, <2>2, <2>3, HandleKeepsInv
<1>. QED
  BY <1>2, <1>3, <1>4, <1>5, AddSensorKeepsInv, UnloadsKeepsInv DEF CostNext

\* What the statistics contain and what is still held back is what all readings add up to:
\* MonetaryCostSensor over sessions, missed polls, missing meters, reloads and restarts, for
\* every band and every length and number of sessions.
THEOREM CostsReachTheStatistics == CostSpec => []CostsAreCounted
<1>1. CostInv => CostsAreCounted
  BY DEF CostInv, Balanced, CostsAreCounted
<1>. QED
  BY <1>1, CostInvInit, CostInvNext, PTL DEF CostSpec

-------------------------------------------------------------------------------
(***************************************************************************)
(* How a session ended, for any firmware, limit names and number of        *)
(* sessions. The code the charger reports is of what ended the charge      *)
(* until it moves on; the number of the finished session that is           *)
(* remembered is the one that was seen complete; and the fields told are   *)
(* of one session.                                                         *)
(***************************************************************************)

CodeStates == Parked \cup {"standby", "charging", "error"}

\* What the charger reports is what ended the charge, until it moves on.
CodeIsTheCause ==
    /\ number \in Nat /\ number # NoSession
    /\ code.state \in CodeStates
    /\ code.state = "charging" => cause = "none"
    /\ code.state # "charging" /\ ~moved => cause \in Causes /\ code \in Reports(cause)
    /\ code.state = "complete" /\ code.sub = "none" => family # "1.x"

\* A charge that was seen complete and has not gone on is remembered as finished.
CompleteIsFinished ==
    /\ complete \in {NoSession, number}
    /\ complete = number =>
          /\ finished = number /\ family # "1.x"
          /\ code.state \in {"complete", "standby"}
          /\ code.state = "complete" => code.sub \in {"none", "schedule"}

\* And is the reason.
CompleteIsTheReason ==
    prior = "complete" /\ reason # "none" /\ ~ocpp /\ complete = number => reason = "car"

OfOneSession(summaries) ==
    \A f, g \in Fields :
        /\ summaries[f].value \in {NoSession, summaries[f].session}
        /\ summaries[f].session # NoSession /\ summaries[g].session # NoSession
           => summaries[f].session = summaries[g].session

EndInv ==
    /\ CodeIsTheCause /\ CompleteIsFinished /\ CompleteIsTheReason
    /\ OfOneSession(summary) /\ OfOneSession(savedSummary)

USE DEF NoSession, chargeVars, endVars

\* The fields of a code.
LEMMA CodeFields ==
    ASSUME NEW parked, NEW sub
    PROVE  /\ Code(parked, sub).state = parked /\ Code(parked, sub).sub = sub
           /\ Code(parked, sub).stopped = FALSE /\ Code(parked, sub).limit = "none"
           /\ DOMAIN Code(parked, sub) = {"state", "sub", "stopped", "limit", "schedule"}
BY DEF Code

Own(c) == c \in {"unplug", "fault", "car"}

\* What is reported of each cause, by family.
LEMMA ReportOutcome ==
    ASSUME NEW c \in Causes, NEW r \in Reports(c)
    PROVE  /\ c = "unplug" => r.state = "standby"
           /\ c = "fault" => r.state = "error"
           /\ c = "car" => r.state = "complete"
           /\ c = "car" => r.sub = IF family = "1.x" THEN "other" ELSE "none"
           /\ ~Own(c) => r.state \in Parked
           /\ ~Own(c) /\ family = "1.x" => r.sub = "other"
           /\ ~Own(c) /\ family = "classic" => r.sub = c
           /\ ~Own(c) /\ family \notin {"1.x", "classic"} =>
                  /\ r.sub = "activation" /\ (r.stopped <=> c = "user")
                  /\ r.limit = IF c \in Limits THEN c ELSE "none"
<1>1. CASE c = "unplug"
  <2>1. Reports(c) = {Code("standby", "none")}
    BY <1>1 DEF Reports
  <2>. QED
    BY <1>1, <2>1 DEF Code, Own
<1>2. CASE c = "fault"
  <2>1. Reports(c) = {Code("error", "other")}
    BY <1>2 DEF Reports
  <2>. QED
    BY <1>2, <2>1 DEF Code, Own
<1>3. CASE c = "car"
  <2>1. Reports(c) = {Code("complete", IF family = "1.x" THEN "other" ELSE "none")}
    BY <1>3 DEF Reports
  <2>. QED
    BY <1>3, <2>1 DEF Code, Own
<1>4. CASE ~Own(c) /\ family = "1.x"
  <2>1. Reports(c) = {Code(s, "other") : s \in Parked}
    BY <1>4 DEF Reports, Own
  <2>. QED
    BY <1>4, <2>1 DEF Code, Own
<1>5. CASE ~Own(c) /\ family = "classic"
  <2>1. Reports(c) = {[Code(s, c) EXCEPT !.stopped = c = "user"] : s \in Parked}
    BY <1>5 DEF Reports, Own
  <2>2. PICK s \in Parked : r = [Code(s, c) EXCEPT !.stopped = c = "user"]
    BY <2>1
  <2>3. r.state = s /\ r.sub = c
    BY <2>2 DEF Code
  <2>. QED
    BY <1>5, <2>3 DEF Own
<1>6. CASE ~Own(c) /\ family \notin {"1.x", "classic"}
  <2>1. Reports(c) =
            {[Code(s, "activation") EXCEPT
                 !.stopped = c = "user", !.schedule = c = "schedule",
                 !.limit = IF c \in Limits THEN c ELSE "none"] : s \in {"connected", "complete"}}
    BY <1>6 DEF Reports, Own
  <2>2. PICK s \in {"connected", "complete"} :
            r = [Code(s, "activation") EXCEPT
                    !.stopped = c = "user", !.schedule = c = "schedule",
                    !.limit = IF c \in Limits THEN c ELSE "none"]
    BY <2>1
  <2>3. r.state = s /\ r.sub = "activation"
    BY <2>2 DEF Code
  <2>4. r.stopped <=> c = "user"
    BY <2>2 DEF Code
  <2>5. r.limit = IF c \in Limits THEN c ELSE "none"
    BY <2>2 DEF Code
  <2>. QED
    BY <1>6, <2>3, <2>4, <2>5 DEF Own, Parked
<1>. QED
  BY <1>1, <1>2, <1>3, <1>4, <1>5, <1>6 DEF Own

\* The invariant holds at first.
LEMMA EndInvInit == EndInit => EndInv
<1> SUFFICES ASSUME EndInit PROVE EndInv
  OBVIOUS
<1>1. code.state = "charging" /\ number = 1 /\ complete = 0
  BY CodeFields DEF EndInit
<1>2. \A f \in Fields : summary[f].value = 0 /\ summary[f].session = 0
  BY DEF EndInit, NotTold
<1>. QED
  BY <1>1, <1>2 DEF EndInit, EndInv, CodeIsTheCause, CompleteIsFinished, CompleteIsTheReason,
                    OfOneSession, CodeStates

\* The charger's own steps.
LEMMA ChargeKeepsInv == EndInv /\ ChargeNext => EndInv'
<1> SUFFICES ASSUME EndInv, ChargeNext PROVE EndInv'
  OBVIOUS
<1>1. UNCHANGED <<family, ocpp, prior, finished, reason, summary, savedSummary>>
  BY DEF ChargeNext
<1>2. OfOneSession(summary)' /\ OfOneSession(savedSummary)'
  BY <1>1 DEF EndInv, OfOneSession
<1>3. Causes' = Causes /\ \A c : Reports(c)' = Reports(c)
  BY <1>1 DEF Causes, Reports
<1>4. ASSUME NEW c \in Causes, Ends(c), UNCHANGED complete PROVE EndInv'
  <2>1. code' \in Reports(c) /\ cause' = c /\ UNCHANGED number /\ code.state = "charging"
    BY <1>4 DEF Ends
  <2>2. CodeIsTheCause'
    <3>1. code'.state \in CodeStates /\ code'.state # "charging"
      BY <2>1, ReportOutcome DEF Own, CodeStates, Parked
    <3>2. code'.state = "complete" /\ code'.sub = "none" => family # "1.x"
      BY <2>1, ReportOutcome DEF Own
    <3>3. cause' \in Causes' /\ code' \in Reports(cause)'
      <4>1. cause' \in Causes' /\ code' \in Reports(c)'
        BY <1>1, <2>1 DEF Causes, Reports
      <4>2. Reports(cause)' = Reports(c)'
        BY <2>1 DEF Reports
      <4>. QED
        BY <4>1, <4>2
    <3>. QED
      BY <1>1, <2>1, <3>1, <3>2, <3>3 DEF EndInv, CodeIsTheCause, CodeStates
  <2>3. complete' # number'
    BY <1>4, <2>1 DEF EndInv, CompleteIsFinished
  <2>. QED
    BY <1>2, <1>4, <2>1, <2>2, <2>3 DEF EndInv, CompleteIsFinished,
        CompleteIsTheReason, CodeIsTheCause
<1>5. ASSUME WindowMoves, UNCHANGED complete PROVE EndInv'
  <2>1. /\ family = "classic" /\ code.state = "complete" /\ moved' = TRUE
        /\ UNCHANGED <<cause, number>>
        /\ code' = [code EXCEPT !.sub = IF @ = "none" THEN "schedule" ELSE "none"]
    BY <1>5 DEF WindowMoves
  <2>2. "sub" \in DOMAIN code => code'.sub \in {"none", "schedule"}
    BY <2>1
  <2>. QED
    BY <1>1, <1>2, <1>5, <2>1, <2>2
    DEF EndInv, CodeIsTheCause, CompleteIsFinished, CompleteIsTheReason, CodeStates
<1>6. ASSUME Unplugged, UNCHANGED complete PROVE EndInv'
  <2>1. code'.state = "standby" /\ moved' = TRUE /\ UNCHANGED <<cause, number>>
    BY <1>6, CodeFields DEF Unplugged
  <2>. QED
    BY <1>1, <1>2, <1>6, <2>1
    DEF EndInv, CodeIsTheCause, CompleteIsFinished, CompleteIsTheReason, CodeStates
<1>7. ASSUME Starts, complete' = NoSession PROVE EndInv'
  <2>1. code'.state = "charging" /\ cause' = "none" /\ number' \in {number, number + 1}
    BY <1>7, CodeFields DEF Starts
  <2>2. number' \in Nat /\ number' # 0
    BY <2>1 DEF EndInv, CodeIsTheCause
  <2>. QED
    BY <1>1, <1>2, <1>7, <2>1, <2>2
    DEF EndInv, CodeIsTheCause, CompleteIsFinished, CompleteIsTheReason, CodeStates
<1>. QED
  BY <1>4, <1>5, <1>6, <1>7 DEF ChargeNext

\* Where the charger stands still, so does what it reports of the cause.
LEMMA CodeStands == CodeIsTheCause /\ UNCHANGED chargeVars => CodeIsTheCause'
<1> SUFFICES ASSUME CodeIsTheCause, UNCHANGED chargeVars PROVE CodeIsTheCause'
  OBVIOUS
<1>1. Causes' = Causes /\ Reports(cause)' = Reports(cause)
  BY DEF Causes, Reports
<1>. QED
  BY <1>1 DEF CodeIsTheCause

\* A poll that still sees a car complete finds its charge finished, by the car.
LEMMA PollSeesComplete ==
    ASSUME EndInv, EndPoll, code.state = "complete", complete = number \/ complete' = number
    PROVE  /\ complete' = number /\ finished' = number /\ family # "1.x"
           /\ code.sub \in {"none", "schedule"}
           /\ ~ocpp => reason' = "car"
<1>1. number # 0 /\ (code.sub = "none" => family # "1.x")
  BY DEF EndInv, CodeIsTheCause
<1>2. complete' = IF code.sub = "none" THEN number ELSE complete
  BY DEF EndPoll
<1>3. /\ complete' = number /\ family # "1.x" /\ code.sub \in {"none", "schedule"}
      /\ code.sub = "none" \/ finished = number
  BY <1>1, <1>2 DEF EndInv, CompleteIsFinished
<1>4. finished' = number
  BY <1>3 DEF EndPoll, Completes
<1>5. ~ocpp => reason' = "car"
  BY <1>3, <1>4 DEF EndPoll, Reason, Parked
<1>. QED
  BY <1>3, <1>4, <1>5

\* A poll keeps the invariant.
LEMMA EndPollKeepsInv == EndInv /\ EndPoll => EndInv'
<1> SUFFICES ASSUME EndInv, EndPoll PROVE EndInv'
  OBVIOUS
<1>1. UNCHANGED <<chargeVars, savedSummary>> /\ prior' = code.state
  BY DEF EndPoll
<1>2. CodeIsTheCause'
  BY <1>1, CodeStands DEF EndInv
<1>3. complete' = IF code.state # "complete" THEN 0
                   ELSE IF code.sub = "none" THEN number ELSE complete
  BY DEF EndPoll
<1>4. complete' \in {0, number} /\ number # 0
  BY <1>3 DEF EndInv, CodeIsTheCause, CompleteIsFinished
<1>5. complete' = number => code.state = "complete"
  BY <1>3, <1>4
<1>6. CompleteIsFinished' /\ CompleteIsTheReason'
  BY <1>1, <1>4, <1>5, PollSeesComplete DEF CompleteIsFinished, CompleteIsTheReason
<1>7. OfOneSession(summary')
  <2>1. CASE Fires
    <3>1. PICK unusable \in SUBSET Fields : summary' = Captured(event', unusable)
      BY <2>1 DEF EndPoll
    <3>2. \A f \in Fields :
              /\ summary'[f].session = event'.session
              /\ summary'[f].value \in {0, event'.session}
      BY <3>1 DEF Captured
    <3>. QED
      BY <3>2 DEF OfOneSession
  <2>2. CASE ~Fires
    BY <2>2 DEF EndPoll, EndInv
  <2>. QED
    BY <2>1, <2>2
<1>8. OfOneSession(savedSummary')
  BY <1>1 DEF EndInv
<1>. QED
  BY <1>2, <1>6, <1>7, <1>8 DEF EndInv, OfOneSession

\* So do missed polls, saves and restarts.
LEMMA RestartKeepsInv ==
    EndInv /\ (EndMiss \/ SavesSummary \/ RestartsCleanly \/ CrashesDown) => EndInv'
<1> SUFFICES ASSUME EndInv, EndMiss \/ SavesSummary \/ RestartsCleanly \/ CrashesDown
             PROVE  EndInv'
  OBVIOUS
<1>1. UNCHANGED chargeVars
  BY DEF EndMiss, SavesSummary, RestartsCleanly, CrashesDown, ComesUp
<1>2. CodeIsTheCause' /\ number # 0
  BY <1>1, CodeStands DEF EndInv, CodeIsTheCause
<1>3. complete' = 0 \/ UNCHANGED <<complete, finished>>
  BY DEF EndMiss, SavesSummary, RestartsCleanly, CrashesDown
<1>4. prior' = "none" \/ UNCHANGED <<prior, reason, complete>>
  BY DEF EndMiss, SavesSummary, RestartsCleanly, CrashesDown, ComesUp
<1>5. CompleteIsFinished' /\ CompleteIsTheReason'
  BY <1>1, <1>2, <1>3, <1>4 DEF EndInv, CompleteIsFinished, CompleteIsTheReason
<1>6. OfOneSession(savedSummary')
  BY DEF EndMiss, SavesSummary, RestartsCleanly, CrashesDown, EndInv
<1>7. OfOneSession(summary')
  <2>1. CASE ComesUp
    <3>1. PICK unreadable \in SUBSET Fields : summary' = RestoredSummary(savedSummary', unreadable)
      BY <2>1 DEF ComesUp
    <3>2. \A f \in Fields :
              \/ summary'[f].session = 0 /\ summary'[f].value = 0
              \/ summary'[f] = savedSummary'[f]
      BY <3>1 DEF RestoredSummary, NotTold
    <3>. QED
      BY <1>6, <3>2 DEF OfOneSession
  <2>2. CASE EndMiss \/ SavesSummary
    BY <2>2 DEF EndMiss, SavesSummary, EndInv
  <2>. QED
    BY <2>1, <2>2 DEF RestartsCleanly, CrashesDown
<1>. QED
  BY <1>2, <1>5, <1>6, <1>7 DEF EndInv, OfOneSession

\* Every step keeps the invariant.
LEMMA EndInvNext == EndInv /\ [EndNext]_endVars => EndInv'
<1> SUFFICES ASSUME EndInv, [EndNext]_endVars PROVE EndInv'
  OBVIOUS
<1>1. CASE UNCHANGED endVars
  <2>1. CodeIsTheCause'
    BY <1>1, CodeStands DEF EndInv
  <2>. QED
    BY <1>1, <2>1 DEF EndInv, CompleteIsFinished, CompleteIsTheReason, OfOneSession
<1>. QED
  BY <1>1, ChargeKeepsInv, EndPollKeepsInv, RestartKeepsInv DEF EndNext

\* What ends of charges are remembered by agrees with the charger and with itself.
THEOREM EndInvHolds == EndSpec => []EndInv
BY EndInvInit, EndInvNext, PTL DEF EndSpec

\* Reasons that name no limit, schedule or Stop.
LEMMA NotNamed ==
    \A why \in {"ocpp", "car", "waiting", "paused", "activation", "standby", "adaptive"} :
        InEvent(why) = "none"
BY EndAssumption DEF InEvent

\* The event of a poll says why the charge ended.
LEMMA EventOutcome ==
    ASSUME EndInv, EndPoll, Fires, ~moved
    PROVE  FinishReason(code) =
               IF cause = "car" THEN "complete"
               ELSE IF cause = "unplug" THEN "unplugged"
               ELSE IF family = "1.x" \/ ocpp THEN ByState(code.state)
               ELSE IF cause = "user" THEN "stopped"
               ELSE IF cause \in Limits \cup {"schedule's energy"} THEN "limit"
               ELSE IF cause = "schedule" /\ family = "classic" THEN "schedule"
               ELSE ByState(code.state)
<1> DEFINE named == Reason(code, FALSE, FALSE)
<1>1. FinishReason(code) = IF InEvent(named) # "none" THEN InEvent(named) ELSE ByState(code.state)
  BY DEF FinishReason
<1>2. cause \in Causes /\ code \in Reports(cause) /\ code.state # "error"
  BY DEF EndInv, CodeIsTheCause, Fires
<1>3. cause # "fault"
  BY <1>2, ReportOutcome
<1>4. CASE cause = "unplug"
  <2>1. code.state = "standby" /\ named = "standby"
    BY <1>2, <1>4, ReportOutcome DEF Reason, Parked
  <2>. QED
    BY <1>1, <1>4, <2>1, NotNamed DEF ByState
<1>5. CASE cause = "car"
  <2>1. code.state = "complete" /\ code.sub = IF family = "1.x" THEN "other" ELSE "none"
    BY <1>2, <1>5, ReportOutcome
  <2>2. named \in {"ocpp", "car"}
    BY <2>1 DEF Reason, Parked, ByItself
  <2>. QED
    BY <1>1, <1>5, <2>1, <2>2, NotNamed DEF ByState
<1>6. CASE ~Own(cause) /\ (family = "1.x" \/ ocpp)
  <2>1. named \in {"ocpp", "car", "waiting", "paused"}
    BY <1>2, <1>6, ReportOutcome DEF Reason, Parked, ByItself
  <2>. QED
    BY <1>1, <1>6, <2>1, NotNamed DEF Own
<1>7. CASE ~Own(cause) /\ family = "classic" /\ ~ocpp
  <2>1. code.state \in Parked /\ code.sub = cause
    BY <1>2, <1>7, ReportOutcome
  <2>2. cause \notin {"activation", "none"}
    BY <1>2, EndAssumption DEF Causes
  <2>3. named = cause
    BY <1>7, <2>1, <2>2 DEF Reason
  <2>4. cause \in Limits \cup {"user", "schedule", "schedule's energy", "adaptive"}
    BY <1>2, <1>7 DEF Causes, Own
  <2>. QED
    BY <1>1, <1>7, <2>3, <2>4, NotNamed, EndAssumption DEF Own, InEvent
<1>8. CASE ~Own(cause) /\ family \notin {"1.x", "classic"} /\ ~ocpp
  <2>1. /\ code.state \in Parked /\ code.sub = "activation"
        /\ code.stopped <=> cause = "user"
        /\ code.limit = IF cause \in Limits THEN cause ELSE "none"
    BY <1>2, <1>8, ReportOutcome
  <2>2. named = Activation(code, FALSE)
    BY <1>8, <2>1 DEF Reason
  <2>3. cause \in Limits \cup {"user", "schedule"}
    BY <1>2, <1>8 DEF Causes, Own
  <2>4. CASE cause = "user"
    BY <1>1, <1>8, <2>1, <2>2, <2>4, EndAssumption DEF Activation, InEvent, Own
  <2>5. CASE cause \in Limits
    <3>1. cause \notin {"none", "user", "schedule", "car", "unplug"}
      BY <2>5, EndAssumption
    <3>2. named = cause
      BY <2>1, <2>2, <2>5, <3>1 DEF Activation
    <3>. QED
      BY <1>1, <1>8, <2>5, <3>1, <3>2 DEF InEvent
  <2>6. CASE cause = "schedule"
    <3>1. cause \notin Limits
      BY <2>6, EndAssumption
    <3>2. named = "activation"
      BY <2>1, <2>2, <2>6, <3>1 DEF Activation
    <3>. QED
      BY <1>1, <1>8, <2>6, <3>1, <3>2, NotNamed
  <2>. QED
    BY <2>3, <2>4, <2>5, <2>6
<1>. QED
  BY <1>3, <1>4, <1>5, <1>6, <1>7, <1>8 DEF Own

\* The end of a charge is told as it was, for any limits and sensors, and the telling
\* stays of one piece, through closing windows, missed polls, restarts and crashes.
THEOREM EndsAreTold == EndSpec => EndIsTold
<1>1. EndInv /\ [EndNext]_endVars =>
          [ Fired /\ ~moved =>
            event'.reason =
                IF cause = "car" THEN "complete"
                ELSE IF cause = "unplug" THEN "unplugged"
                ELSE IF family = "1.x" \/ ocpp THEN ByState(code.state)
                ELSE IF cause = "user" THEN "stopped"
                ELSE IF cause \in Limits \cup {"schedule's energy"} THEN "limit"
                ELSE IF cause = "schedule" /\ family = "classic" THEN "schedule"
                ELSE ByState(code.state) ]_endVars
  <2> SUFFICES ASSUME EndInv, [EndNext]_endVars, Fired, ~moved
               PROVE  /\ EndPoll /\ Fires
                      /\ event'.reason = FinishReason(code)
    BY EventOutcome
  <2>1. EndPoll /\ Fires
    BY DEF Fired, EndNext, ChargeNext, EndPoll, EndMiss, SavesSummary, RestartsCleanly,
           CrashesDown, ComesUp
  <2>2. event' = [session |-> charged, reason |-> FinishReason(code)]
    BY <2>1 DEF EndPoll
  <2>. QED
    BY <2>1, <2>2
<1>2. EndInv /\ [EndNext]_endVars =>
          [ /\ prior' = "complete" /\ reason' # "none" /\ ~ocpp
            /\ complete = number
            => reason' = "car" ]_endVars
  <2> SUFFICES ASSUME EndInv, [EndNext]_endVars,
                      prior' = "complete", reason' # "none", ~ocpp, complete = number
               PROVE  reason' = "car"
    OBVIOUS
  <2>1. CASE EndPoll
    <3>1. code.state = "complete"
      BY <2>1 DEF EndPoll
    <3>. QED
      BY <2>1, <3>1, PollSeesComplete
  <2>2. CASE UNCHANGED <<prior, reason>>
    BY <2>2 DEF EndInv, CompleteIsTheReason
  <2>3. CASE prior' = "none"
    BY <2>3
  <2>. QED
    BY <2>1, <2>2, <2>3 DEF EndNext, ChargeNext, EndMiss, SavesSummary, RestartsCleanly,
                            CrashesDown, ComesUp
<1>3. EndInv => SummaryStands
  BY DEF EndInv, OfOneSession, SummaryStands
<1>. QED
  BY <1>1, <1>2, <1>3, EndInvHolds, PTL
  DEF EndSpec, EndIsTold, EventIsTrue, CompleteStays

-------------------------------------------------------------------------------
(***************************************************************************)
(* The finish time, for every estimate: the sensor stamps the instant that *)
(* is held or nothing, so what is shown lies ahead, follows the estimate   *)
(* and is moved when it is due only.                                       *)
(***************************************************************************)

\* Where the stamp is shown it is the instant that is held.
FinishInv ==
    /\ time \in Nat
    /\ anchor \in Nat \cup {Nothing}
    /\ stamp \in {Nothing, anchor}

USE DEF estimateVars, Step, Nothing, NotCharging, AtTarget

\* The larger of two.
LEMMA MaxOfTwo ==
    ASSUME NEW a \in Int, NEW b \in Int
    PROVE  Max({a, b}) = IF a >= b THEN a ELSE b
<1> DEFINE m == IF a >= b THEN a ELSE b
<1>1. m \in {a, b} /\ \A y \in {a, b} : m >= y
  OBVIOUS
<1>2. \A x \in {a, b} : (\A y \in {a, b} : x >= y) => x = m
  OBVIOUS
<1>. QED
  BY <1>1, <1>2 DEF Max

\* Rounding moves an instant by less than half a step.
LEMMA SnapIsNear ==
    ASSUME NEW t \in Nat
    PROVE  Snap(t) \in Nat /\ Snap(t) <= t + 2 /\ t <= Snap(t) + 2
BY DEF Snap

\* The next point of the grid lies ahead.
LEMMA NextPointIsAhead ==
    ASSUME NEW t \in Nat
    PROVE  NextPoint(t) \in Nat /\ NextPoint(t) > t
BY DEF NextPoint

\* The band is wider than what rounding takes.
LEMMA BandOutcome ==
    ASSUME NEW eta \in Nat, NEW held \in Nat, NEW left \in Nat
    PROVE  /\ IsOutside(eta, held, left) \in BOOLEAN
           /\ held <= eta + 2 /\ eta <= held + 2 => ~IsOutside(eta, held, left)
<1>1. Max({1500, 6 * left}) = IF 1500 >= 6 * left THEN 1500 ELSE 6 * left
  BY MaxOfTwo
<1>2. Max({300 * 5, 6 * left}) = Max({1500, 6 * left})
  OBVIOUS
<1>. QED
  BY <1>1, <1>2 DEF IsOutside, Distance

\* What is held after a reading lies ahead and near the estimate, and a second look at
\* the same reading leaves it.
LEMMA DampedOutcome ==
    ASSUME NEW held \in Nat \cup {Nothing}, NEW left \in Nat, NEW instant \in Nat
    PROVE  LET damped == Damped(held, left, instant)
           IN  /\ damped \in Nat /\ damped > instant
               /\ damped = NextPoint(instant) \/ ~IsOutside(instant + left, damped, left)
               /\ damped # held /\ held # Nothing =>
                      held <= instant \/ IsOutside(instant + left, held, left)
               /\ Damped(damped, left, instant) = damped
<1> DEFINE damped == Damped(held, left, instant)
           snapped == Snap(instant + left)
<1>1. /\ snapped \in Nat /\ ~IsOutside(instant + left, snapped, left)
      /\ NextPoint(instant) \in Nat /\ NextPoint(instant) > instant
  BY SnapIsNear, NextPointIsAhead, BandOutcome
<1>2. damped = IF ~Moves(held, left, instant) THEN held
               ELSE IF snapped > instant THEN snapped ELSE NextPoint(instant)
  BY DEF Damped
<1>3. ~Moves(held, left, instant) =>
          held \in Nat /\ held > instant /\ ~IsOutside(instant + left, held, left)
  BY DEF Moves
<1>4. damped \in Nat /\ damped > instant
  BY <1>1, <1>2, <1>3
<1>5. damped = NextPoint(instant) \/ ~IsOutside(instant + left, damped, left)
  BY <1>1, <1>2, <1>3
<1>6. damped # held /\ held # Nothing => held <= instant \/ IsOutside(instant + left, held, left)
  BY <1>2 DEF Moves
<1>7. Damped(damped, left, instant) =
          IF ~Moves(damped, left, instant) THEN damped
          ELSE IF snapped > instant THEN snapped ELSE NextPoint(instant)
  BY DEF Damped
<1>8. Moves(damped, left, instant) => IsOutside(instant + left, damped, left)
  BY <1>4 DEF Moves
<1>9. Damped(damped, left, instant) = damped
  BY <1>1, <1>2, <1>3, <1>7, <1>8
<1>. QED
  BY <1>4, <1>5, <1>6, <1>9

\* A reading that says nothing holds nothing.
LEMMA DampedOfNothing ==
    ASSUME NEW held, NEW left, left \notin Nat, NEW instant
    PROVE  Damped(held, left, instant) = Nothing
BY DEF Damped

\* In whatever order they run, both sensors show what the reading makes of the instant held.
LEMMA RecomputedOutcome ==
    ASSUME FinishInv, NEW r \in Estimable, Recomputed(r)
    PROVE  LET damped == Damped(anchor, r.left, time)
           IN  /\ anchor' \in {anchor, damped}
               /\ StampCounts(r) => anchor' = damped /\ stamp' = damped
               /\ ~StampCounts(r) => stamp' = Nothing
               /\ "told" \in enabled => told' = Told(damped, r.left, time)
<1> DEFINE damped == Damped(anchor, r.left, time)
<1>1. Damped(damped, r.left, time) = damped
  <2>1. CASE r.left \in Nat
    BY <2>1, DampedOutcome DEF FinishInv
  <2>2. CASE r.left \notin Nat
    BY <2>2, DampedOfNothing
  <2>. QED
    BY <2>1, <2>2
<1> DEFINE runs(s) == IF s = "stamp" THEN StampCounts(r) ELSE s \in enabled
           first(order) == IF runs(order[1]) THEN Damped(anchor, r.left, time) ELSE anchor
           second(order) == IF runs(order[2]) THEN Damped(first(order), r.left, time)
                            ELSE first(order)
           views(order, s) == IF order[1] = s THEN first(order) ELSE second(order)
<1>2. PICK order \in {<<"stamp", "told">>, <<"told", "stamp">>} :
          /\ anchor' = second(order)
          /\ stamp' = IF StampCounts(r) THEN views(order, "stamp") ELSE Nothing
          /\ told' = IF "told" \in enabled THEN Told(views(order, "told"), r.left, time)
                     ELSE Nothing
  BY DEF Recomputed
<1> HIDE DEF damped
<1>3. Damped(anchor, r.left, time) = damped
  BY DEF damped
<1>4. second(order) \in {anchor, damped}
  BY <1>1, <1>3
<1>5. StampCounts(r) => second(order) = damped /\ views(order, "stamp") = damped
  BY <1>1, <1>2, <1>3
<1>6. "told" \in enabled => views(order, "told") = damped
  BY <1>1, <1>2, <1>3
<1>. QED
  BY <1>2, <1>3, <1>4, <1>5, <1>6

\* The invariant holds at first.
LEMMA FinishInvInit == EstimateInit => FinishInv
BY DEF EstimateInit, FinishInv

\* What is held after a reading is an instant, or nothing.
LEMMA DampedIsTyped ==
    ASSUME FinishInv, NEW r \in Estimable
    PROVE  Damped(anchor, r.left, time) \in Nat \cup {Nothing}
<1>1. CASE r.left \in Nat
  BY <1>1, DampedOutcome DEF FinishInv
<1>2. CASE r.left \notin Nat
  BY <1>2, DampedOfNothing
<1>. QED
  BY <1>1, <1>2

\* Every step keeps the invariant.
LEMMA FinishInvNext == FinishInv /\ [EstimateNext]_estimateVars => FinishInv'
<1> SUFFICES ASSUME FinishInv, [EstimateNext]_estimateVars PROVE FinishInv'
  OBVIOUS
<1>1. ASSUME NEW r \in Estimable, Recomputed(r), UNCHANGED time PROVE FinishInv'
  BY <1>1, RecomputedOutcome, DampedIsTyped DEF FinishInv
<1>2. CASE Reads
  BY <1>1, <1>2 DEF Reads
<1>3. CASE InputChanges
  BY <1>1, <1>3 DEF InputChanges, FinishInv
<1>4. CASE Passes
  BY <1>4 DEF Passes, FinishInv
<1>5. CASE Fails
  BY <1>5 DEF Fails, FinishInv
<1>6. CASE Reloads
  BY <1>6 DEF Reloads, FinishInv
<1>7. CASE UNCHANGED estimateVars
  BY <1>7 DEF FinishInv
<1>. QED
  BY <1>2, <1>3, <1>4, <1>5, <1>6, <1>7 DEF EstimateNext

\* Whatever changes a sensor, but a reload, is a reading or a new input.
LEMMA ReadingOutcome ==
    ASSUME FinishInv, EstimateNext, UNCHANGED time, fresh', reached'
    PROVE  reading' \in Estimable /\ Recomputed(reading') /\ UNCHANGED enabled
<1>1. ~Passes
  <2> SUFFICES ASSUME Passes PROVE FALSE
    OBVIOUS
  <2>1. time' = time + 1 /\ time' = time
    BY DEF Passes
  <2>2. time \in Nat
    BY DEF FinishInv
  <2>. QED
    BY <2>1, <2>2
<1>4. ~Fails /\ ~Reloads
  BY Zenon DEF Fails, Reloads
<1>2. CASE Reads
  BY <1>2 DEF Reads
<1>3. CASE InputChanges
  BY <1>3 DEF InputChanges
<1>. QED
  BY <1>1, <1>2, <1>3, <1>4 DEF EstimateNext

\* For any estimates the finish time lies ahead and near its estimate, moves only on a
\* reading that contradicts it or when it is due, and is the same instant in both views.
THEOREM FinishesAreTrue == EstimateSpec => FinishIsTrue
<1>1. FinishInv /\ [EstimateNext]_estimateVars =>
          [ time' = time /\ fresh' /\ reached' /\ StampCounts(reading') /\ reading'.left \in Nat
            => /\ stamp' > time
               /\ stamp' = NextPoint(time)
                    \/ ~IsOutside(time + reading'.left, stamp', reading'.left) ]_estimateVars
  <2> SUFFICES ASSUME FinishInv, EstimateNext, time' = time, fresh', reached',
                      StampCounts(reading'), reading'.left \in Nat
               PROVE  /\ stamp' > time
                      /\ stamp' = NextPoint(time)
                           \/ ~IsOutside(time + reading'.left, stamp', reading'.left)
    OBVIOUS
  <2>1. reading' \in Estimable /\ stamp' = Damped(anchor, reading'.left, time)
    BY ReadingOutcome, RecomputedOutcome
  <2>. QED
    BY <2>1, DampedOutcome DEF FinishInv
<1>2. FinishInv /\ [EstimateNext]_estimateVars =>
          [ stamp # Nothing /\ stamp' \notin {Nothing, stamp}
            => /\ fresh'
               /\ \/ stamp <= time
                  \/ IsOutside(time + reading'.left, stamp, reading'.left) ]_estimateVars
  <2> SUFFICES ASSUME FinishInv, EstimateNext, stamp # Nothing, stamp' \notin {Nothing, stamp}
               PROVE  /\ fresh'
                      /\ \/ stamp <= time
                         \/ IsOutside(time + reading'.left, stamp, reading'.left)
    OBVIOUS
  <2>1. Reads \/ InputChanges
    BY DEF EstimateNext, Passes, Fails, Reloads
  <2>2. fresh' /\ reading' \in Estimable /\ Recomputed(reading')
    BY <2>1 DEF Reads, InputChanges
  <2>3. stamp' = Damped(anchor, reading'.left, time) /\ stamp = anchor
    BY <2>2, RecomputedOutcome DEF FinishInv
  <2>4. reading'.left \in Nat
    BY <2>3, DampedOfNothing
  <2>. QED
    BY <2>2, <2>3, <2>4, DampedOutcome DEF FinishInv
<1>3. FinishInv /\ [EstimateNext]_estimateVars =>
          [ /\ enabled = Sensors /\ fresh' /\ reached' /\ time' = time
            /\ reading'.active /\ reading'.left \in Nat \ {0}
            => 2 * Distance(told', Max({Step, stamp' - time})) < Step ]_estimateVars
  <2> SUFFICES ASSUME FinishInv, EstimateNext, enabled = Sensors, fresh', reached',
                      time' = time, reading'.active, reading'.left \in Nat \ {0}
               PROVE  2 * Distance(told', Max({Step, stamp' - time})) < Step
    OBVIOUS
  <2> DEFINE damped == Damped(anchor, reading'.left, time)
  <2>1. reading' \in Estimable /\ stamp' = damped /\ told' = Told(damped, reading'.left, time)
    BY ReadingOutcome, RecomputedOutcome DEF Sensors, StampCounts
  <2>2. damped \in Nat /\ damped > time
    BY DampedOutcome DEF FinishInv
  <2>3. Max({5, damped - time}) \in Nat
    BY <2>2, MaxOfTwo DEF FinishInv
  <2>4. told' = Snap(Max({5, damped - time}))
    BY <2>1 DEF Told
  <2>5. Max({Step, stamp' - time}) = Max({5, damped - time})
    BY <2>1
  <2> HIDE DEF damped
  <2> DEFINE left == Max({5, damped - time})
  <2> HIDE DEF left
  <2>6. left \in Nat /\ told' = Snap(left) /\ Max({Step, stamp' - time}) = left
    BY <2>3, <2>4, <2>5 DEF left
  <2>. QED
    BY <2>6, SnapIsNear DEF Distance
<1>. QED
  BY <1>1, <1>2, <1>3, FinishInvInit, FinishInvNext, PTL
  DEF EstimateSpec, FinishIsTrue, StampIsTrue, StampHolds, ViewsAgree

-------------------------------------------------------------------------------
(***************************************************************************)
(* The memory of the charge, for any slack and number of plug-ins. A       *)
(* completion that is held, waits to be confirmed or is saved is of a      *)
(* charge that a poll saw complete, and its clock no less than that        *)
(* charge's; while that charge is parked its completion is at hand, and    *)
(* its clock within this plug-in's. A stamp that a poll contradicted is    *)
(* gone from where it was held; one that stands is at hand, and of this    *)
(* plug-in.                                                                *)
(***************************************************************************)

Times == Nat \cup {NoTime}

IsEvidence(e) ==
    /\ DOMAIN e = {"plugIn", "clock", "parked", "refuted", "steady"}
    /\ e.plugIn \in Nat /\ e.clock \in Times
    /\ {e.parked, e.refuted, e.steady} \subseteq BOOLEAN

IsStamp(s) == s.state \in States \cup {"none"} /\ s.at \in Times

MemoryTypes ==
    /\ {now, pluggedAt, plugIn} \subseteq Nat /\ pluggedAt <= now
    /\ state \in States /\ (state # "standby" => plugIn > 0)
    /\ phase \in {"off", "starting", "polled", "running"}
    /\ {modernSeen, completed} \subseteq BOOLEAN
    /\ {completedAt, completionSeed, since} \subseteq Times
    /\ sinceState \in States \cup {"none"} /\ IsStamp(sinceSeed)
    /\ DOMAIN store = {"anchor", "since", "evidence"}
    /\ store.anchor \in Times /\ IsStamp(store.since)
    /\ IsEvidence(evidence) /\ IsEvidence(store.evidence)

\* Before the entities are there the coordinator knows what its one poll said.
SetupIsBlank ==
    /\ phase # "running" => since = NoTime /\ sinceSeed = NoSeed /\ completionSeed = NoTime
    /\ phase \in {"off", "starting"} =>
          polled = NoPoll /\ ~modernSeen /\ ~completed /\ sinceState = "none"
    /\ phase = "starting" => evidence = store.evidence
    /\ phase = "polled" =>
          /\ polled = NoPoll \/ polled.state \in States \cup {"code 99"}
          /\ polled.clock \in Times
          /\ completed => polled.state = "complete" /\ completedAt \in {NoTime, polled.clock}
          /\ polled.state = "complete" /\ modernSeen =>
                /\ polled.sub = "none" => evidence.plugIn > 0
                /\ polled.clock # NoTime \/ polled.sub = "none" => evidence.clock = polled.clock
          /\ polled.state = "none" => sinceState = "none"

Covers(held, e) == held # NoTime => e.plugIn > 0 /\ held >= e.clock

\* A completion, held, to be confirmed or saved, is of a charge that was seen complete, and
\* its clock no less than that charge's.
CompletionsWereSeen ==
    /\ ~completed => completedAt = NoTime
    /\ completed =>
          /\ modernSeen /\ evidence.plugIn > 0
          /\ completedAt = NoTime => evidence.clock = NoTime
    /\ Covers(completedAt, evidence) /\ Covers(completionSeed, evidence)
    /\ Covers(store.anchor, store.evidence)
    /\ phase = "polled" =>
          \/ Covers(store.anchor, evidence)
          \/ polled.state \in {"standby", "charging"}
          \/ /\ polled.state = "complete" /\ modernSeen /\ polled.clock # NoTime
             /\ evidence.plugIn > 0

Reaches(held) == held # NoTime /\ held <= Clock

\* A parked charge's completion is at hand, and this plug-in as old as its clock.
ParkedIsRemembered ==
    /\ evidence.parked => state = "complete"
    /\ store.evidence.parked => state = "complete" /\ Reaches(store.anchor)
    /\ phase = "running" /\ evidence.parked => Reaches(CompletionAnchor)
    /\ phase = "polled" /\ evidence.parked =>
          /\ polled.state \in {"none", "complete", "code 99"}
          /\ polled.clock \in {NoTime, Clock}
          /\ store.evidence.parked \/ Reaches(completedAt)

\* A contradicted stamp is gone.
RefutedIsForgotten ==
    /\ sinceState # "none" => sinceSeed = NoSeed
    /\ evidence.refuted => since = NoTime /\ sinceSeed.state = "none"
    /\ store.evidence.refuted => store.since.state = "none"
    /\ phase = "polled" => evidence.refuted = store.evidence.refuted

Stands(s) == state # "standby" /\ s.state = state /\ s.at >= pluggedAt

\* A stamp that stands is at hand, and of this plug-in.
SteadyIsRemembered ==
    /\ store.evidence.steady => Stands(store.since)
    /\ evidence.steady => state # "standby" /\ sinceState \in {"none", state}
    /\ phase = "running" /\ evidence.steady => Stands(SinceAnchor)
    /\ phase = "polled" /\ evidence.steady =>
          store.evidence.steady /\ (sinceState # "none" => polled.clock \in {NoTime, Clock})

MemoryInv ==
    /\ MemoryTypes /\ SetupIsBlank /\ CompletionsWereSeen /\ ParkedIsRemembered
    /\ RefutedIsForgotten /\ SteadyIsRemembered

USE DEF charger, completion, sinceStamp, memoryVars, NoTime, States, Times

\* What a reply can say.
LEMMA ReplyOutcome ==
    ASSUME MemoryInv, NEW r \in Replies
    PROVE  /\ r.state \in {state, "code 99"} /\ r.sub \in {"none", "limit"}
           /\ r.modern \in BOOLEAN /\ r.clock \in Times
           /\ state # "standby" => r.clock \in {NoTime, Clock}
           /\ r # NoPoll
<1>1. r.state # "none"
  BY DEF Replies, MemoryInv, MemoryTypes
<1>2. NoPoll.state = "none"
  BY DEF NoPoll
<1>3. Clock \in Nat
  BY DEF MemoryInv, MemoryTypes, Clock
<1>4. r.modern \in BOOLEAN
  BY DEF Replies
<1>5. /\ r.state \in {state, "code 99"} /\ r.sub \in {"none", "limit"}
      /\ r.clock = NoTime \/ r.clock = IF state = "standby" THEN 0 ELSE Clock
  BY DEF Replies
<1>6. r # NoPoll
  BY <1>1, <1>2
<1>7. r.clock \in Times
  <2>1. r.clock = NoTime \/ r.clock = 0 \/ r.clock = Clock
    BY <1>5
  <2>. QED
    BY <1>3, <2>1
<1>. QED
  BY <1>4, <1>5, <1>6, <1>7

\* What a reply makes of the completion.
LEMMA CompletionOutcome ==
    ASSUME NEW r, NEW modern \in BOOLEAN, NEW seed \in Times, r.clock \in Times,
           completed \in BOOLEAN, completedAt \in Times, TrackCompletion(r, modern, seed)
    PROVE  /\ completed' \in BOOLEAN /\ completedAt' \in Times /\ completionSeed' \in Times
           /\ ~Named(r) \/ (r.state = "complete" /\ ~modern) =>
                  UNCHANGED <<completed, completedAt>> /\ completionSeed' = seed
           /\ Named(r) /\ r.state # "complete" =>
                  ~completed' /\ completedAt' = NoTime /\ completionSeed' = NoTime
           /\ Named(r) /\ r.state = "complete" /\ modern =>
                  LET held == IF completed THEN completedAt ELSE seed
                  IN  /\ completed' <=>
                             \/ r.sub = "none"
                             \/ IF held = NoTime \/ r.clock = NoTime THEN completed
                                ELSE r.clock >= held
                      /\ completionSeed' = IF r.clock = NoTime THEN seed ELSE NoTime
                      /\ completedAt' = IF ~completed' THEN NoTime
                                        ELSE IF r.clock # NoTime THEN r.clock ELSE completedAt
<1>1. CASE ~Named(r)
  BY <1>1 DEF TrackCompletion
<1>2. CASE Named(r) /\ r.state # "complete"
  BY <1>2 DEF TrackCompletion
<1>3. CASE Named(r) /\ r.state = "complete" /\ ~modern
  BY <1>3 DEF TrackCompletion
<1>4. CASE Named(r) /\ r.state = "complete" /\ modern
  <2> DEFINE held == IF completed THEN completedAt ELSE seed
             again == IF held = NoTime \/ r.clock = NoTime THEN completed ELSE r.clock >= held
  <2>2. /\ completed' = (r.sub = "none" \/ again)
        /\ completionSeed' = IF r.clock = NoTime THEN seed ELSE NoTime
        /\ completedAt' = IF ~completed' THEN NoTime
                          ELSE IF r.clock # NoTime THEN r.clock ELSE completedAt
    BY <1>4 DEF TrackCompletion
  <2> HIDE DEF again
  <2>3. completed' \in BOOLEAN /\ (completed' <=> r.sub = "none" \/ again)
    BY <2>2
  <2>4. completedAt' \in Times /\ completionSeed' \in Times
    BY <2>2
  <2> USE DEF again
  <2>. QED
    BY <1>4, <2>2, <2>3, <2>4
<1>. QED
  BY <1>1, <1>2, <1>3, <1>4

\* What a reply makes of the stamp.
LEMMA SinceOutcome ==
    ASSUME MemoryInv, NEW r \in Replies, TrackSince(r)
    PROVE  /\ sinceState' \in States \cup {"none"} /\ since' \in Times /\ IsStamp(sinceSeed')
           /\ sinceState' = IF Named(r) THEN r.state ELSE "none"
           /\ ~Named(r) => since' = NoTime /\ sinceSeed' = SinceAnchor
           /\ Named(r) /\ r.state = sinceState => UNCHANGED sinceStamp
           /\ Named(r) /\ r.state # sinceState =>
                  /\ sinceSeed' = NoSeed
                  /\ sinceState # "none" => since' = now
                  /\ sinceState = "none" =>
                         since' = IF sinceSeed.state = r.state
                                  THEN Plausible(sinceSeed.at, r.clock) ELSE NoTime
<1>1. /\ r.state \in {state, "code 99"} /\ r.clock \in Times /\ now \in Nat
      /\ state \in States /\ sinceState \in States \cup {"none"} /\ since \in Times
      /\ IsStamp(sinceSeed)
  BY ReplyOutcome DEF MemoryInv, MemoryTypes
<1>2. IsStamp(SinceAnchor) /\ IsStamp(NoSeed)
  BY <1>1 DEF IsStamp, SinceAnchor, NoSeed
<1>3. Plausible(sinceSeed.at, r.clock) \in Times
  BY <1>1 DEF Plausible, IsStamp
<1>4. CASE ~Named(r)
  BY <1>1, <1>2, <1>4 DEF TrackSince, ForgetSince
<1>5. CASE Named(r) /\ r.state = sinceState
  BY <1>1, <1>2, <1>5 DEF TrackSince
<1>6. CASE Named(r) /\ r.state # sinceState
  BY <1>1, <1>2, <1>3, <1>6 DEF TrackSince, Named
<1>. QED
  BY <1>4, <1>5, <1>6

\* What a reply adds to what has been shown.
LEMMA WitnessOutcome ==
    ASSUME MemoryInv, NEW r \in Replies, NEW modern \in BOOLEAN, Witness(r, modern)
    PROVE  LET ended == r.state = "complete" /\ modern /\ r.sub = "none"
               stamped == Named(r) /\ sinceState \notin {"none", r.state}
           IN  /\ IsEvidence(evidence')
               /\ evidence'.plugIn = IF ended THEN plugIn
                                     ELSE IF Named(r) /\ r.state # "complete" THEN 0
                                     ELSE evidence.plugIn
               /\ evidence'.clock =
                      IF r.state = "complete" /\ modern /\ (ended \/ r.clock # NoTime)
                      THEN r.clock ELSE evidence.clock
               /\ evidence'.parked <=> evidence.parked \/ (ended /\ r.clock # NoTime)
               /\ evidence'.refuted <=>
                      /\ ~stamped
                      /\ \/ evidence.refuted
                         \/ Named(r) /\ SinceAnchor.state \notin {"none", r.state}
               /\ evidence'.steady <=>
                      \/ stamped /\ r.state # "standby"
                      \/ /\ evidence.steady
                         /\ sinceState # "none" \/ (Named(r) => r.clock # NoTime)
<1>1. IsEvidence(evidence) /\ plugIn \in Nat /\ r.clock \in Times
  BY ReplyOutcome DEF MemoryInv, MemoryTypes
<1> DEFINE ended == r.state = "complete" /\ modern /\ r.sub = "none"
           stamped == Named(r) /\ sinceState \notin {"none", r.state}
           wentOn == Named(r) /\ r.state # "complete"
<1>2. evidence' = [evidence EXCEPT
          !.plugIn = IF ended THEN plugIn ELSE IF wentOn THEN 0 ELSE @,
          !.clock = IF r.state = "complete" /\ modern /\ (ended \/ r.clock # NoTime)
                    THEN r.clock ELSE @,
          !.parked = @ \/ (ended /\ r.clock # NoTime),
          !.refuted = ~stamped /\ (@ \/ (Named(r) /\ SinceAnchor.state \notin {"none", r.state})),
          !.steady = \/ stamped /\ r.state # "standby"
                     \/ @ /\ (sinceState # "none" \/ (Named(r) => r.clock # NoTime))]
  BY DEF Witness
<1> HIDE DEF ended, stamped, wentOn
<1>3. DOMAIN evidence' = {"plugIn", "clock", "parked", "refuted", "steady"}
  BY <1>1, <1>2 DEF IsEvidence
<1>4. /\ evidence'.plugIn = IF ended THEN plugIn ELSE IF wentOn THEN 0 ELSE evidence.plugIn
      /\ evidence'.clock = IF r.state = "complete" /\ modern /\ (ended \/ r.clock # NoTime)
                           THEN r.clock ELSE evidence.clock
  BY <1>1, <1>2 DEF IsEvidence
<1>5. /\ evidence'.parked = (evidence.parked \/ (ended /\ r.clock # NoTime))
      /\ evidence'.refuted = (~stamped /\ (evidence.refuted
                                 \/ (Named(r) /\ SinceAnchor.state \notin {"none", r.state})))
      /\ evidence'.steady = (\/ stamped /\ r.state # "standby"
                             \/ evidence.steady
                                  /\ (sinceState # "none" \/ (Named(r) => r.clock # NoTime)))
  BY <1>1, <1>2 DEF IsEvidence
<1>6. evidence'.plugIn \in Nat /\ evidence'.clock \in Times
  BY <1>1, <1>4 DEF IsEvidence
<1>7. {evidence'.parked, evidence'.refuted, evidence'.steady} \subseteq BOOLEAN
  BY <1>5
<1>. QED
  BY <1>3, <1>4, <1>5, <1>6, <1>7 DEF IsEvidence, ended, stamped, wentOn

\* The invariant holds at first.
LEMMA MemoryInvInit == MemoryInit => MemoryInv
<1> SUFFICES ASSUME MemoryInit PROVE MemoryInv
  OBVIOUS
<1>1. /\ NoSeed.state = "none" /\ NoSeed.at = NoTime
      /\ IsEvidence(NothingShown) /\ NothingShown.plugIn = 0 /\ NothingShown.clock = NoTime
      /\ NothingShown.parked = FALSE /\ NothingShown.refuted = FALSE
      /\ NothingShown.steady = FALSE
  BY DEF NoSeed, NothingShown, IsEvidence
<1>2. /\ DOMAIN store = {"anchor", "since", "evidence"}
      /\ store.anchor = NoTime /\ store.since = NoSeed /\ store.evidence = NothingShown
      /\ evidence = NothingShown
  BY DEF MemoryInit
<1>3. MemoryTypes
  <2>1. {modernSeen, completed} \subseteq BOOLEAN
    BY DEF MemoryInit
  <2>2. IsStamp(sinceSeed) /\ IsStamp(store.since) /\ IsEvidence(evidence)
        /\ IsEvidence(store.evidence)
    BY <1>1, <1>2 DEF MemoryInit, IsStamp
  <2>. QED
    BY <1>2, <2>1, <2>2 DEF MemoryInit, MemoryTypes
<1>4. SetupIsBlank
  BY DEF MemoryInit, SetupIsBlank
<1>5. CompletionsWereSeen /\ ParkedIsRemembered
  BY <1>1, <1>2 DEF MemoryInit, CompletionsWereSeen, ParkedIsRemembered, Covers
<1>6. RefutedIsForgotten /\ SteadyIsRemembered
  BY <1>1, <1>2 DEF MemoryInit, RefutedIsForgotten, SteadyIsRemembered
<1>. QED
  BY <1>3, <1>4, <1>5, <1>6 DEF MemoryInv

\* Time keeps the invariant.
LEMMA MemoryTickKeepsInv == MemoryInv /\ Tick => MemoryInv'
<1> SUFFICES ASSUME MemoryInv, Tick PROVE MemoryInv'
  OBVIOUS
<1>1. /\ now' = now + 1 /\ now \in Nat /\ pluggedAt \in Nat /\ phase # "polled"
      /\ UNCHANGED <<state, pluggedAt, plugIn, phase, modernSeen, polled, completion, sinceStamp,
                     store, evidence>>
  BY DEF Tick, MemoryInv, MemoryTypes
<1>2. CompletionAnchor' = CompletionAnchor /\ CompletionAnchor \in Times
      /\ store.anchor \in Times /\ Clock \in Nat /\ Clock' = Clock + 1
  BY <1>1 DEF MemoryInv, MemoryTypes, CompletionAnchor, Clock
<1>3. MemoryTypes'
  BY <1>1 DEF MemoryInv, MemoryTypes, IsStamp, IsEvidence
<1>4. SetupIsBlank' /\ CompletionsWereSeen'
  BY <1>1 DEF MemoryInv, SetupIsBlank, CompletionsWereSeen, Covers
<1>5. ParkedIsRemembered'
  <2>1. /\ Reaches(CompletionAnchor) => Reaches(CompletionAnchor)'
        /\ Reaches(store.anchor) => Reaches(store.anchor)'
    BY <1>1, <1>2 DEF Reaches
  <2>. QED
    BY <1>1, <2>1 DEF MemoryInv, ParkedIsRemembered
<1>6. RefutedIsForgotten' /\ SteadyIsRemembered'
  BY <1>1 DEF MemoryInv, RefutedIsForgotten, SteadyIsRemembered, Stands, SinceAnchor
<1>. QED
  BY <1>3, <1>4, <1>5, <1>6 DEF MemoryInv

\* What leaving a state does to what has been shown.
LEMMA LeftOutcome ==
    ASSUME NEW e, IsEvidence(e)
    PROVE  /\ IsEvidence(Left(e)) /\ Left(e).plugIn = e.plugIn /\ Left(e).clock = e.clock
           /\ Left(e).parked = FALSE /\ Left(e).steady = FALSE /\ Left(e).refuted = e.refuted
<1>1. /\ DOMAIN Left(e) = {"plugIn", "clock", "parked", "refuted", "steady"}
      /\ Left(e).plugIn = e.plugIn /\ Left(e).clock = e.clock /\ Left(e).refuted = e.refuted
      /\ Left(e).parked = FALSE /\ Left(e).steady = FALSE
  BY DEF Left, IsEvidence
<1>. QED
  BY <1>1 DEF IsEvidence

\* The plug's moves keep the invariant: nothing is parked and no stamp stands after them.
LEMMA PlugMovesKeepsInv == MemoryInv /\ PlugMoves => MemoryInv'
<1> SUFFICES ASSUME MemoryInv, PlugMoves PROVE MemoryInv'
  OBVIOUS
<1>1. /\ UNCHANGED <<now, phase, modernSeen, polled, completion, sinceStamp>>
      /\ state' \in States /\ evidence' = Left(evidence)
      /\ IF state = "standby" THEN plugIn' = plugIn + 1 /\ pluggedAt' = now
         ELSE UNCHANGED <<plugIn, pluggedAt>>
  BY DEF PlugMoves
<1>2. /\ DOMAIN store' = {"anchor", "since", "evidence"}
      /\ store'.anchor = store.anchor /\ store'.since = store.since
      /\ store'.evidence = Left(store.evidence)
  BY DEF PlugMoves, MemoryInv, MemoryTypes
<1>3. /\ IsEvidence(evidence') /\ IsEvidence(store'.evidence)
      /\ evidence'.plugIn = evidence.plugIn /\ evidence'.clock = evidence.clock
      /\ store'.evidence.plugIn = store.evidence.plugIn
      /\ store'.evidence.clock = store.evidence.clock
      /\ evidence'.refuted = evidence.refuted /\ store'.evidence.refuted = store.evidence.refuted
      /\ ~evidence'.parked /\ ~store'.evidence.parked
      /\ ~evidence'.steady /\ ~store'.evidence.steady
  BY <1>1, <1>2, LeftOutcome DEF MemoryInv, MemoryTypes
<1>4. MemoryTypes'
  <2>1. /\ {now, pluggedAt, plugIn}' \subseteq Nat /\ pluggedAt' <= now'
        /\ (state' # "standby" => plugIn' > 0)
    BY <1>1 DEF MemoryInv, MemoryTypes
  <2>2. {modernSeen, completed}' \subseteq BOOLEAN
    BY <1>1 DEF MemoryInv, MemoryTypes
  <2>. QED
    BY <1>1, <1>2, <1>3, <2>1, <2>2 DEF MemoryInv, MemoryTypes, IsStamp
<1>5. SetupIsBlank'
  BY <1>1, <1>2, <1>3 DEF MemoryInv, SetupIsBlank
<1>6. CompletionsWereSeen'
  BY <1>1, <1>2, <1>3 DEF MemoryInv, CompletionsWereSeen, Covers
<1>7. ParkedIsRemembered' /\ SteadyIsRemembered'
  BY <1>3 DEF ParkedIsRemembered, SteadyIsRemembered
<1>8. RefutedIsForgotten'
  BY <1>1, <1>2, <1>3 DEF MemoryInv, RefutedIsForgotten
<1>. QED
  BY <1>4, <1>5, <1>6, <1>7, <1>8 DEF MemoryInv

\* A good poll: what it may change, and how.
LEMMA PollOutcome ==
    ASSUME MemoryInv, NEW r \in Replies, MemoryPoll(r)
    PROVE  /\ phase \in {"starting", "running"}
           /\ phase' = IF phase = "starting" THEN "polled" ELSE "running"
           /\ polled' = IF phase = "starting" THEN r ELSE NoPoll
           /\ modernSeen' \in BOOLEAN /\ (modernSeen => modernSeen')
           /\ UNCHANGED <<now, state, pluggedAt, plugIn, store>>
           /\ TrackCompletion(r, modernSeen', completionSeed)
           /\ TrackSince(r) /\ Witness(r, modernSeen')
<1>1. modernSeen' = (modernSeen \/ r.modern)
  BY DEF MemoryPoll
<1>2. modernSeen' \in BOOLEAN /\ (modernSeen => modernSeen')
  BY <1>1
<1>. QED
  BY <1>2 DEF MemoryPoll, PolledPhase

\* It keeps the types, and setup blank.
LEMMA PollKeepsTypes ==
    ASSUME MemoryInv, NEW r \in Replies, MemoryPoll(r)
    PROVE  MemoryTypes' /\ SetupIsBlank'
<1>1. /\ completed \in BOOLEAN /\ completedAt \in Times /\ completionSeed \in Times
      /\ modernSeen' \in BOOLEAN /\ r.clock \in Times
  BY PollOutcome, ReplyOutcome DEF MemoryInv, MemoryTypes
<1>2. completed' \in BOOLEAN /\ completedAt' \in Times /\ completionSeed' \in Times
  BY <1>1, PollOutcome, CompletionOutcome
<1>3. /\ sinceState' \in States \cup {"none"} /\ since' \in Times /\ IsStamp(sinceSeed')
      /\ IsEvidence(evidence')
  BY <1>1, PollOutcome, SinceOutcome, WitnessOutcome
<1>4. MemoryTypes'
  <2>1. {modernSeen, completed}' \subseteq BOOLEAN
    BY <1>1, <1>2
  <2>. QED
    BY <1>2, <1>3, <2>1, PollOutcome DEF MemoryInv, MemoryTypes
<1>5. ASSUME phase = "running" PROVE SetupIsBlank'
  BY <1>5, PollOutcome DEF SetupIsBlank
<1>6. ASSUME phase = "starting" PROVE SetupIsBlank'
  <2>1. /\ ~completed /\ completionSeed = NoTime /\ sinceState = "none" /\ since = NoTime
        /\ sinceSeed = NoSeed /\ completedAt = NoTime /\ phase' = "polled" /\ polled' = r
    BY <1>6, PollOutcome DEF MemoryInv, SetupIsBlank, CompletionsWereSeen
  <2>2. r.state \in States \cup {"code 99"} /\ r.state # "none"
    BY ReplyOutcome DEF MemoryInv, MemoryTypes
  <2>3. since' = NoTime /\ sinceSeed' = NoSeed
    <3>1. NoSeed.state = "none" /\ SinceAnchor = NoSeed
      BY <2>1 DEF NoSeed, SinceAnchor
    <3>2. sinceSeed.state # r.state
      BY <2>1, <2>2, <3>1
    <3>. QED
      BY <2>1, <2>2, <3>1, <3>2, PollOutcome, SinceOutcome
  <2>4. /\ completionSeed' = NoTime
        /\ completed' => r.state = "complete" /\ completedAt' \in {NoTime, r.clock}
    BY <1>1, <2>1, PollOutcome, CompletionOutcome DEF Named
  <2>5. r.state = "complete" /\ modernSeen' =>
            /\ r.sub = "none" => evidence'.plugIn > 0
            /\ r.clock # NoTime \/ r.sub = "none" => evidence'.clock = r.clock
    <3>1. r.state = "complete" => plugIn > 0
      BY ReplyOutcome DEF MemoryInv, MemoryTypes
    <3>. QED
      BY <1>1, <3>1, PollOutcome, WitnessOutcome
  <2>. QED
    BY <1>1, <2>1, <2>2, <2>3, <2>4, <2>5 DEF SetupIsBlank
<1>. QED
  BY <1>4, <1>5, <1>6, PollOutcome

\* It keeps the completion to what was seen.
LEMMA PollKeepsCompletions ==
    ASSUME MemoryInv, NEW r \in Replies, MemoryPoll(r)
    PROVE  CompletionsWereSeen'
<1>1. /\ completed \in BOOLEAN /\ completedAt \in Times /\ completionSeed \in Times
      /\ modernSeen' \in BOOLEAN /\ r.clock \in Times
      /\ evidence.plugIn \in Nat /\ evidence.clock \in Times /\ plugIn \in Nat
  BY PollOutcome, ReplyOutcome DEF MemoryInv, MemoryTypes, IsEvidence
<1>2. /\ ~completed => completedAt = NoTime
      /\ completed => /\ modernSeen /\ evidence.plugIn > 0
                      /\ completedAt = NoTime => evidence.clock = NoTime
      /\ Covers(completedAt, evidence) /\ Covers(completionSeed, evidence)
      /\ Covers(store.anchor, store.evidence)
  BY DEF MemoryInv, CompletionsWereSeen
<1> DEFINE Holds == /\ ~completed => completedAt = NoTime
                    /\ completed =>
                          /\ modernSeen /\ evidence.plugIn > 0
                          /\ completedAt = NoTime => evidence.clock = NoTime
                    /\ Covers(completedAt, evidence) /\ Covers(completionSeed, evidence)
<1>3. ASSUME ~Named(r) \/ (r.state = "complete" /\ ~modernSeen') PROVE Holds'
  <2>1. UNCHANGED <<completed, completedAt, completionSeed>>
    BY <1>1, <1>3, PollOutcome, CompletionOutcome
  <2>2. evidence'.plugIn = evidence.plugIn /\ evidence'.clock = evidence.clock
    BY <1>1, <1>3, PollOutcome, WitnessOutcome DEF Named
  <2>. QED
    BY <1>2, <2>1, <2>2, PollOutcome DEF Covers
<1>4. ASSUME Named(r), r.state # "complete" PROVE Holds'
  <2>1. ~completed' /\ completedAt' = NoTime /\ completionSeed' = NoTime
    BY <1>1, <1>4, PollOutcome, CompletionOutcome
  <2>. QED
    BY <2>1 DEF Covers
<1>5. ASSUME Named(r), r.state = "complete", modernSeen' PROVE Holds'
  <2> DEFINE held == IF completed THEN completedAt ELSE completionSeed
  <2>1. /\ completed' <=>
               \/ r.sub = "none"
               \/ IF held = NoTime \/ r.clock = NoTime THEN completed ELSE r.clock >= held
        /\ completionSeed' = IF r.clock = NoTime THEN completionSeed ELSE NoTime
        /\ completedAt' = IF ~completed' THEN NoTime
                          ELSE IF r.clock # NoTime THEN r.clock ELSE completedAt
    BY <1>1, <1>5, PollOutcome, CompletionOutcome
  <2>2. /\ evidence'.plugIn = IF r.sub = "none" THEN plugIn ELSE evidence.plugIn
        /\ evidence'.clock = IF r.sub = "none" \/ r.clock # NoTime THEN r.clock
                             ELSE evidence.clock
    BY <1>1, <1>5, PollOutcome, WitnessOutcome
  <2>3. plugIn > 0
    BY <1>5, ReplyOutcome DEF MemoryInv, MemoryTypes, Named
  <2>4. completed' => evidence'.plugIn > 0
    BY <1>1, <1>2, <2>1, <2>2, <2>3 DEF Covers
  <2>5. completed' /\ completedAt' = NoTime => evidence'.clock = NoTime
    BY <1>1, <1>2, <2>1, <2>2 DEF Covers
  <2>6. Covers(completedAt, evidence)'
    BY <1>1, <1>2, <2>1, <2>2, <2>4 DEF Covers
  <2>7. Covers(completionSeed, evidence)'
    BY <1>1, <1>2, <2>1, <2>2, <2>3 DEF Covers
  <2>. QED
    BY <1>5, <2>1, <2>4, <2>5, <2>6, <2>7
<1>6. Holds'
  BY <1>3, <1>4, <1>5
<1>7. ASSUME phase' = "polled"
      PROVE  \/ Covers(store.anchor, evidence)'
             \/ polled'.state \in {"standby", "charging"}
             \/ /\ polled'.state = "complete" /\ modernSeen' /\ polled'.clock # NoTime
                /\ evidence'.plugIn > 0
  <2>1. polled' = r /\ evidence = store.evidence /\ UNCHANGED store
    BY <1>7, PollOutcome DEF MemoryInv, SetupIsBlank
  <2>2. CASE store.anchor = NoTime
    BY <2>1, <2>2 DEF Covers
  <2>3. CASE store.anchor # NoTime /\ r.state = "complete" /\ modernSeen' /\ r.clock # NoTime
    <3>1. evidence'.plugIn \in {plugIn, evidence.plugIn} /\ plugIn > 0 /\ evidence.plugIn > 0
      BY <1>1, <1>2, <2>1, <2>3, PollOutcome, WitnessOutcome, ReplyOutcome
      DEF MemoryInv, MemoryTypes, Covers, Named
    <3>. QED
      BY <2>1, <2>3, <3>1
  <2>4. CASE store.anchor # NoTime /\ r.state = "complete" /\ modernSeen' /\ r.clock = NoTime
    <3>1. /\ evidence'.plugIn \in {plugIn, evidence.plugIn} /\ plugIn > 0 /\ evidence.plugIn > 0
          /\ evidence'.clock \in {NoTime, evidence.clock}
      BY <1>1, <1>2, <2>1, <2>4, PollOutcome, WitnessOutcome, ReplyOutcome
      DEF MemoryInv, MemoryTypes, Covers, Named
    <3>2. store.anchor \in Nat
      BY <2>4 DEF MemoryInv, MemoryTypes
    <3>. QED
      BY <1>2, <2>1, <3>1, <3>2 DEF Covers
  <2>5. CASE r.state = "code 99" \/ (r.state = "complete" /\ ~modernSeen')
    <3>1. evidence'.plugIn = evidence.plugIn /\ evidence'.clock = evidence.clock
      BY <1>1, <2>5, PollOutcome, WitnessOutcome DEF Named
    <3>. QED
      BY <1>2, <2>1, <3>1 DEF Covers
  <2>6. CASE r.state \in {"standby", "charging"}
    BY <2>1, <2>6
  <2>. QED
    BY <2>2, <2>3, <2>4, <2>5, <2>6, ReplyOutcome DEF MemoryInv, MemoryTypes
<1>8. Covers(store.anchor, store.evidence)'
  BY <1>2, PollOutcome DEF Covers
<1>. QED
  BY <1>6, <1>7, <1>8 DEF CompletionsWereSeen

\* It keeps a parked charge's completion at hand.
LEMMA PollKeepsParked ==
    ASSUME MemoryInv, NEW r \in Replies, MemoryPoll(r)
    PROVE  ParkedIsRemembered'
<1>1. /\ completed \in BOOLEAN /\ completedAt \in Times /\ completionSeed \in Times
      /\ modernSeen' \in BOOLEAN /\ r.clock \in Times
  BY PollOutcome, ReplyOutcome DEF MemoryInv, MemoryTypes
<1>0. Clock \in Nat
  BY DEF MemoryInv, MemoryTypes, Clock
<1>2. /\ r.state \in {state, "code 99"} /\ state # "code 99"
      /\ state # "standby" => r.clock \in {NoTime, Clock}
      /\ Clock' = Clock /\ state' = state
  BY PollOutcome, ReplyOutcome DEF MemoryInv, MemoryTypes, Clock
<1>20. Clock' = Clock
  BY <1>2
<1> DEFINE ended == r.state = "complete" /\ modernSeen' /\ r.sub = "none"
<1>3. evidence'.parked <=> evidence.parked \/ (ended /\ r.clock # NoTime)
  BY <1>1, PollOutcome, WitnessOutcome
<1>4. evidence'.parked => state = "complete"
  BY <1>2, <1>3 DEF MemoryInv, ParkedIsRemembered
<1>5. ~completed => completedAt = NoTime
  BY DEF MemoryInv, CompletionsWereSeen
<1>6. ended /\ r.clock # NoTime => completed' /\ completedAt' = Clock
  <2> SUFFICES ASSUME ended, r.clock # NoTime PROVE completed' /\ completedAt' = Clock
    OBVIOUS
  <2>1. Named(r) /\ r.clock = Clock
    BY <1>2 DEF Named
  <2>. QED
    BY <1>1, <2>1, PollOutcome, CompletionOutcome
<1>7. ASSUME phase = "running", evidence'.parked PROVE Reaches(CompletionAnchor)'
  <2>1. CASE ended /\ r.clock # NoTime
    <3>1. CompletionAnchor' = Clock
      BY <1>0, <1>6, <2>1 DEF CompletionAnchor
    <3>2. CompletionAnchor' # NoTime /\ CompletionAnchor' <= Clock'
      BY <1>0, <1>20, <3>1
    <3>. QED
      BY <3>2 DEF Reaches
  <2>2. CASE evidence.parked
    <3>1. Reaches(CompletionAnchor) /\ state = "complete"
      BY <1>7, <2>2 DEF MemoryInv, ParkedIsRemembered
    <3>2. CASE ~Named(r) \/ (r.state = "complete" /\ ~modernSeen')
      <4>1. UNCHANGED <<completed, completedAt, completionSeed>>
        BY <1>1, <3>2, PollOutcome, CompletionOutcome
      <4>. QED
        BY <1>2, <3>1, <4>1 DEF CompletionAnchor, Reaches
    <3>3. CASE Named(r) /\ r.state = "complete" /\ modernSeen'
      <4> DEFINE held == IF completed THEN completedAt ELSE completionSeed
      <4>1. /\ completed' <=>
                   \/ r.sub = "none"
                   \/ IF held = NoTime \/ r.clock = NoTime THEN completed
                      ELSE r.clock >= held
            /\ completionSeed' = IF r.clock = NoTime THEN completionSeed ELSE NoTime
            /\ completedAt' = IF ~completed' THEN NoTime
                              ELSE IF r.clock # NoTime THEN r.clock ELSE completedAt
        BY <1>1, <3>3, PollOutcome, CompletionOutcome
      <4>2. CASE r.clock # NoTime
        <5>1. r.clock = Clock
          BY <1>2, <3>1, <4>2
        <5>2. completed'
          BY <1>1, <3>1, <4>1, <4>2, <5>1 DEF CompletionAnchor, Reaches
        <5>3. CompletionAnchor' = Clock
          BY <1>0, <4>1, <4>2, <5>1, <5>2 DEF CompletionAnchor
        <5>4. CompletionAnchor' # NoTime /\ CompletionAnchor' <= Clock'
          BY <1>0, <1>20, <5>3
        <5>. QED
          BY <5>4 DEF Reaches
      <4>3. CASE r.clock = NoTime
        <5>1. completionSeed' = completionSeed /\ (completed => completed')
              /\ completedAt' = completedAt
          BY <1>5, <4>1, <4>3
        <5>2. CompletionAnchor' = CompletionAnchor
          BY <1>5, <5>1 DEF CompletionAnchor
        <5>. QED
          BY <1>2, <3>1, <5>2 DEF Reaches
      <4>. QED
        BY <4>2, <4>3
    <3>. QED
      BY <1>1, <1>2, <3>1, <3>2, <3>3 DEF Named
  <2>. QED
    BY <1>3, <1>7, <2>1, <2>2
<1>8. ASSUME phase = "starting", evidence'.parked
      PROVE  /\ r.state \in {"complete", "code 99"} /\ r.clock \in {NoTime, Clock}
             /\ store.evidence.parked \/ Reaches(completedAt)'
  <2>1. evidence = store.evidence
    BY <1>8 DEF MemoryInv, SetupIsBlank
  <2>2. ended /\ r.clock # NoTime => Reaches(completedAt)'
    <3>1. ended /\ r.clock # NoTime => completedAt' # NoTime /\ completedAt' <= Clock'
      BY <1>0, <1>20, <1>6
    <3>. QED
      BY <3>1 DEF Reaches
  <2>3. r.clock \in {NoTime, Clock}
    BY <1>2, <1>4, <1>8
  <2>4. r.state \in {"complete", "code 99"}
    BY <1>2, <1>4, <1>8
  <2>5. store.evidence.parked \/ Reaches(completedAt)'
    BY <1>3, <1>8, <2>1, <2>2
  <2>. QED
    BY <2>3, <2>4, <2>5
<1>9. store' = store /\ (store.evidence.parked => Reaches(store.anchor) /\ state = "complete")
  BY PollOutcome DEF MemoryInv, ParkedIsRemembered
<1>10. Reaches(store.anchor)' <=> Reaches(store.anchor)
  BY <1>2, <1>9 DEF Reaches
<1>11. /\ phase' = "running" => phase = "running"
       /\ phase' = "polled" => phase = "starting" /\ polled' = r
  BY PollOutcome
<1>. QED
  BY <1>2, <1>4, <1>7, <1>8, <1>9, <1>10, <1>11 DEF ParkedIsRemembered

\* It forgets a stamp it contradicts, and keeps one that stands.
LEMMA PollKeepsStamps ==
    ASSUME MemoryInv, NEW r \in Replies, MemoryPoll(r)
    PROVE  RefutedIsForgotten' /\ SteadyIsRemembered'
<1>0. modernSeen' \in BOOLEAN
  BY PollOutcome
<1>1. /\ now \in Nat /\ pluggedAt \in Nat /\ pluggedAt <= now
      /\ since \in Times /\ sinceState \in States \cup {"none"} /\ IsStamp(sinceSeed)
  BY DEF MemoryInv, MemoryTypes
<1>2. /\ r.state \in {state, "code 99"} /\ state \in States
      /\ state # "standby" => r.clock \in {NoTime, Clock}
      /\ UNCHANGED <<now, state, pluggedAt, store>> /\ Clock = now - pluggedAt
  BY PollOutcome, ReplyOutcome DEF MemoryInv, MemoryTypes, Clock
<1>21. /\ UNCHANGED <<now, state, pluggedAt, store>> /\ Clock = now - pluggedAt
       /\ state # "none"
  BY <1>2
<1>3. NoSeed.state = "none" /\ NoSeed.at = NoTime
  BY DEF NoSeed
<1> DEFINE stamped == Named(r) /\ sinceState \notin {"none", r.state}
<1>4. /\ evidence'.refuted <=>
             /\ ~stamped
             /\ \/ evidence.refuted
                \/ Named(r) /\ SinceAnchor.state \notin {"none", r.state}
      /\ evidence'.steady <=>
             \/ stamped /\ r.state # "standby"
             \/ /\ evidence.steady
                /\ sinceState # "none" \/ (Named(r) => r.clock # NoTime)
      /\ evidence'.refuted \in BOOLEAN
  BY <1>0, PollOutcome, WitnessOutcome DEF IsEvidence
<1>5. /\ sinceState' = IF Named(r) THEN r.state ELSE "none"
      /\ ~Named(r) => since' = NoTime /\ sinceSeed' = SinceAnchor
      /\ Named(r) /\ r.state = sinceState =>
             sinceState' = sinceState /\ since' = since /\ sinceSeed' = sinceSeed
      /\ Named(r) /\ r.state # sinceState =>
             /\ sinceSeed' = NoSeed
             /\ sinceState # "none" => since' = now
             /\ sinceState = "none" =>
                    since' = IF sinceSeed.state = r.state
                             THEN Plausible(sinceSeed.at, r.clock) ELSE NoTime
  BY PollOutcome, SinceOutcome
<1>6. /\ sinceState # "none" => sinceSeed = NoSeed
      /\ evidence.refuted => since = NoTime /\ sinceSeed.state = "none"
  BY DEF MemoryInv, RefutedIsForgotten
<1>7. SinceAnchor = IF sinceState # "none" /\ since # NoTime
                    THEN [state |-> sinceState, at |-> since] ELSE sinceSeed
  BY DEF SinceAnchor
<1>8. sinceState' # "none" => sinceSeed' = NoSeed
  BY <1>5, <1>6
<1>9. ASSUME evidence'.refuted PROVE since' = NoTime /\ sinceSeed'.state = "none"
  <2>1. CASE ~Named(r)
    BY <1>4, <1>5, <1>6, <1>7, <1>9, <2>1
  <2>2. CASE Named(r) /\ r.state = sinceState
    <3>1. sinceState # "none" /\ sinceSeed.state = "none" /\ UNCHANGED <<since, sinceSeed>>
      BY <1>2, <1>3, <1>5, <1>6, <2>2
    <3>2. since # NoTime => SinceAnchor.state = r.state
      BY <1>7, <2>2, <3>1
    <3>3. since = NoTime
      BY <1>3, <1>4, <1>6, <1>9, <2>2, <3>1, <3>2
    <3>. QED
      BY <3>1, <3>3
  <2>3. CASE Named(r) /\ r.state # sinceState
    <3>1. sinceState = "none" /\ SinceAnchor = sinceSeed
      BY <1>4, <1>7, <1>9, <2>3
    <3>2. sinceSeed.state # r.state
      BY <1>2, <1>4, <1>6, <1>9, <3>1
    <3>. QED
      BY <1>3, <1>5, <2>3, <3>1, <3>2
  <2>. QED
    BY <2>1, <2>2, <2>3
<1>10. /\ phase' = "polled" => phase = "starting" /\ polled' = r
       /\ phase' = "running" => phase = "running"
  BY PollOutcome
<1>11. phase = "starting" =>
           /\ sinceState = "none" /\ SinceAnchor.state = "none" /\ evidence = store.evidence
           /\ store.evidence.refuted \in BOOLEAN
  BY <1>3, <1>7 DEF MemoryInv, SetupIsBlank, MemoryTypes, IsEvidence
<1>12. RefutedIsForgotten'
  <2>1. phase = "starting" => evidence'.refuted = store.evidence.refuted
    BY <1>4, <1>11
  <2>. QED
    BY <1>2, <1>8, <1>9, <1>10, <2>1 DEF MemoryInv, RefutedIsForgotten
<1>13. evidence.steady => state # "standby" /\ sinceState \in {"none", state}
  BY DEF MemoryInv, SteadyIsRemembered
<1>14. evidence'.steady => state # "standby" /\ sinceState' \in {"none", state}
  BY <1>2, <1>4, <1>5, <1>13 DEF Named
<1>15. ASSUME phase = "running", evidence'.steady PROVE Stands(SinceAnchor)'
  <2>1. SinceAnchor' = IF sinceState' # "none" /\ since' # NoTime
                       THEN [state |-> sinceState', at |-> since'] ELSE sinceSeed'
    BY DEF SinceAnchor
  <2>2. CASE stamped
    <3>1. sinceState' = state /\ since' = now /\ state # "standby"
      BY <1>2, <1>4, <1>5, <1>14, <1>15, <2>2 DEF Named
    <3>2. sinceState' # "none" /\ since' # NoTime
      BY <1>1, <1>21, <3>1
    <3>3. SinceAnchor' = [state |-> state, at |-> now]
      BY <2>1, <3>1, <3>2
    <3>. QED
      BY <1>1, <1>21, <3>1, <3>3 DEF Stands
  <2>3. CASE ~stamped
    <3>1. Stands(SinceAnchor) /\ sinceState \in {"none", state}
      BY <1>4, <1>13, <1>15, <2>3 DEF MemoryInv, SteadyIsRemembered
    <3>2. CASE ~Named(r)
      BY <1>2, <1>5, <2>1, <3>1, <3>2 DEF Stands
    <3>3. CASE Named(r) /\ r.state = sinceState
      BY <1>2, <1>5, <1>7, <2>1, <3>1, <3>3 DEF Stands
    <3>4. CASE Named(r) /\ r.state # sinceState
      <4>1. sinceState = "none" /\ r.state = state /\ r.clock = Clock /\ state # "standby"
        BY <1>2, <1>4, <1>13, <1>15, <2>3, <3>4 DEF Named
      <4>2. sinceSeed.state = state /\ sinceSeed.at >= pluggedAt
        BY <1>7, <3>1, <4>1 DEF Stands
      <4>3. sinceSeed.at \in Nat /\ Slack \in Nat
        BY <1>1, <4>2, ChargeMemoryAssumption DEF IsStamp
      <4>4. Plausible(sinceSeed.at, r.clock) = sinceSeed.at
        <5>1. r.clock = now - pluggedAt /\ r.clock # NoTime
          BY <1>1, <1>2, <4>1
        <5>2. sinceSeed.at >= now - r.clock - Slack
          BY <1>1, <4>2, <4>3, <5>1
        <5>. QED
          BY <5>1, <5>2 DEF Plausible
      <4>5. since' = sinceSeed.at /\ sinceState' = state
        BY <1>5, <3>4, <4>1, <4>2, <4>4
      <4>. QED
        BY <1>1, <1>2, <2>1, <4>1, <4>2, <4>3, <4>5 DEF Stands
    <3>. QED
      BY <3>2, <3>3, <3>4
  <2>. QED
    BY <2>2, <2>3
<1>16. ASSUME phase = "starting", evidence'.steady
       PROVE  store.evidence.steady /\ (sinceState' # "none" => r.clock \in {NoTime, Clock})
  BY <1>2, <1>4, <1>11, <1>14, <1>16
<1>17. store.evidence.steady => Stands(store.since)
  BY DEF MemoryInv, SteadyIsRemembered
<1>18. Stands(store.since)' <=> Stands(store.since)
  BY <1>2 DEF Stands
<1>19. Clock' = Clock
  BY <1>2 DEF Clock
<1>20. SteadyIsRemembered'
  BY <1>2, <1>10, <1>14, <1>15, <1>16, <1>17, <1>18, <1>19 DEF SteadyIsRemembered
<1>. QED
  BY <1>12, <1>20

\* So does a failed poll, which keeps all but the stamp, and the stamp as a seed.
LEMMA BadPollKeepsInv == MemoryInv /\ BadPoll => MemoryInv'
<1> SUFFICES ASSUME MemoryInv, BadPoll PROVE MemoryInv'
  OBVIOUS
<1>1. /\ UNCHANGED <<charger, modernSeen, polled, completion, store, evidence>>
      /\ phase \in {"starting", "running"}
      /\ phase' = IF phase = "starting" THEN "polled" ELSE phase
      /\ sinceSeed' = SinceAnchor /\ sinceState' = "none" /\ since' = NoTime
  BY DEF BadPoll, PolledPhase, ForgetSince
<1>2. NoSeed.state = "none" /\ NoSeed.at = NoTime /\ NoPoll.state = "none"
      /\ NoPoll.clock = NoTime
  BY DEF NoSeed, NoPoll
<1>3. IsStamp(SinceAnchor)
  BY DEF MemoryInv, MemoryTypes, IsStamp, SinceAnchor
<1>4. phase = "starting" =>
          /\ SinceAnchor = NoSeed /\ polled = NoPoll /\ ~modernSeen /\ ~completed
          /\ completionSeed = NoTime /\ evidence = store.evidence
  BY DEF MemoryInv, SetupIsBlank, SinceAnchor
<1>5. MemoryTypes'
  <2>1. {modernSeen, completed}' \subseteq BOOLEAN
    BY <1>1 DEF MemoryInv, MemoryTypes
  <2>2. IsEvidence(evidence') /\ IsEvidence(store'.evidence)
    BY <1>1 DEF MemoryInv, MemoryTypes
  <2>. QED
    BY <1>1, <1>3, <2>1, <2>2 DEF MemoryInv, MemoryTypes, IsStamp
<1>6. SetupIsBlank'
  BY <1>1, <1>2, <1>4 DEF SetupIsBlank
<1>7. CompletionsWereSeen'
  BY <1>1, <1>4 DEF MemoryInv, CompletionsWereSeen, Covers
<1>8. ParkedIsRemembered'
  <2>1. /\ CompletionAnchor' = CompletionAnchor /\ Clock' = Clock
        /\ Reaches(CompletionAnchor)' <=> Reaches(CompletionAnchor)
        /\ Reaches(store.anchor)' <=> Reaches(store.anchor)
    BY <1>1 DEF CompletionAnchor, Clock, Reaches
  <2>. QED
    BY <1>1, <1>2, <1>4, <2>1 DEF MemoryInv, ParkedIsRemembered
<1>9. SinceAnchor' = SinceAnchor
  BY <1>1 DEF SinceAnchor
<1>10. RefutedIsForgotten'
  <2>1. evidence.refuted => SinceAnchor.state = "none"
    BY DEF MemoryInv, RefutedIsForgotten, SinceAnchor
  <2>. QED
    BY <1>1, <1>4, <2>1 DEF MemoryInv, RefutedIsForgotten
<1>11. SteadyIsRemembered'
  BY <1>1, <1>4, <1>9 DEF MemoryInv, SteadyIsRemembered, Stands
<1>. QED
  BY <1>5, <1>6, <1>7, <1>8, <1>10, <1>11 DEF MemoryInv

\* The steps by which the coordinator comes and goes.
LEMMA PhasesKeepInv == MemoryInv /\ (Load \/ Dump \/ Stop \/ Crash) => MemoryInv'
<1> SUFFICES ASSUME MemoryInv, Load \/ Dump \/ Stop \/ Crash PROVE MemoryInv'
  OBVIOUS
<1>1. UNCHANGED <<now, state, pluggedAt, plugIn>>
  BY DEF Load, Dump, Stop, Crash
<1>2. Clock' = Clock
  BY <1>1 DEF Clock
<1>3. CASE Load
  <2>1. /\ UNCHANGED <<charger, modernSeen, polled, completion, sinceStamp, store>>
        /\ phase = "off" /\ phase' = "starting" /\ evidence' = store.evidence
    BY <1>3 DEF Load
  <2>2. /\ ~completed /\ completionSeed = NoTime /\ sinceState = "none" /\ since = NoTime
        /\ sinceSeed = NoSeed /\ completedAt = NoTime /\ polled = NoPoll /\ ~modernSeen
    BY <2>1 DEF MemoryInv, SetupIsBlank, CompletionsWereSeen
  <2>3. MemoryTypes'
    <3>1. {modernSeen, completed}' \subseteq BOOLEAN
      BY <2>1 DEF MemoryInv, MemoryTypes
    <3>2. IsEvidence(evidence') /\ IsEvidence(store'.evidence)
      BY <2>1 DEF MemoryInv, MemoryTypes
    <3>. QED
      BY <2>1, <3>1, <3>2 DEF MemoryInv, MemoryTypes, IsStamp
  <2>4. SetupIsBlank'
    BY <2>1, <2>2 DEF SetupIsBlank
  <2>5. CompletionsWereSeen'
    BY <2>1, <2>2 DEF MemoryInv, CompletionsWereSeen, Covers
  <2>6. ParkedIsRemembered'
    BY <1>2, <2>1 DEF MemoryInv, ParkedIsRemembered, Reaches
  <2>7. NoSeed.state = "none"
    BY DEF NoSeed
  <2>8. RefutedIsForgotten'
    BY <2>1, <2>2, <2>7 DEF MemoryInv, RefutedIsForgotten
  <2>9. SteadyIsRemembered'
    BY <2>1, <2>2 DEF MemoryInv, SteadyIsRemembered, Stands
  <2>. QED
    BY <2>3, <2>4, <2>5, <2>6, <2>8, <2>9 DEF MemoryInv
<1>4. ASSUME phase = "running", store' = Saved
      PROVE  /\ DOMAIN store' = {"anchor", "since", "evidence"}
             /\ store'.anchor = CompletionAnchor /\ store'.since = SinceAnchor
             /\ store'.evidence = evidence
             /\ store'.anchor \in Times /\ IsStamp(store'.since) /\ IsEvidence(store'.evidence)
             /\ Covers(store'.anchor, store'.evidence)
             /\ store'.evidence.parked => state = "complete" /\ Reaches(store'.anchor)
             /\ store'.evidence.refuted => store'.since.state = "none"
             /\ store'.evidence.steady => Stands(store'.since)
  <2>1. /\ DOMAIN store' = {"anchor", "since", "evidence"}
        /\ store'.anchor = CompletionAnchor /\ store'.since = SinceAnchor
        /\ store'.evidence = evidence
    BY <1>4 DEF Saved
  <2>2. CompletionAnchor \in Times /\ IsStamp(SinceAnchor) /\ IsEvidence(evidence)
    BY DEF MemoryInv, MemoryTypes, CompletionAnchor, SinceAnchor, IsStamp
  <2>3. Covers(CompletionAnchor, evidence)
    BY DEF MemoryInv, CompletionsWereSeen, CompletionAnchor, Covers
  <2>4. evidence.parked => state = "complete" /\ Reaches(CompletionAnchor)
    BY <1>4 DEF MemoryInv, ParkedIsRemembered
  <2>5. evidence.refuted => SinceAnchor.state = "none"
    BY DEF MemoryInv, RefutedIsForgotten, SinceAnchor
  <2>6. evidence.steady => Stands(SinceAnchor)
    BY <1>4 DEF MemoryInv, SteadyIsRemembered
  <2>. QED
    BY <2>1, <2>2, <2>3, <2>4, <2>5, <2>6
<1>5. CASE Dump
  <2>1. /\ UNCHANGED <<charger, phase, modernSeen, polled, completion, sinceStamp, evidence>>
        /\ phase = "running" /\ store' = Saved
    BY <1>5 DEF Dump
  <2>2. MemoryTypes'
    <3>1. {modernSeen, completed}' \subseteq BOOLEAN
      BY <2>1 DEF MemoryInv, MemoryTypes
    <3>2. IsEvidence(evidence') /\ IsStamp(sinceSeed')
      BY <2>1 DEF MemoryInv, MemoryTypes
    <3>. QED
      BY <1>4, <2>1, <3>1, <3>2 DEF MemoryInv, MemoryTypes
  <2>3. SetupIsBlank'
    BY <2>1 DEF SetupIsBlank
  <2>4. CompletionsWereSeen'
    <3>1. Covers(store.anchor, store.evidence)'
      BY <1>4, <2>1
    <3>. QED
      BY <2>1, <3>1 DEF MemoryInv, CompletionsWereSeen, Covers
  <2>5. ParkedIsRemembered'
    <3>1. CompletionAnchor' = CompletionAnchor
      BY <2>1 DEF CompletionAnchor
    <3>2. /\ Reaches(CompletionAnchor)' <=> Reaches(CompletionAnchor)
          /\ Reaches(store.anchor)' <=> Reaches(store'.anchor)
      BY <1>2, <3>1 DEF Reaches
    <3>. QED
      BY <1>4, <2>1, <3>2 DEF MemoryInv, ParkedIsRemembered
  <2>6. RefutedIsForgotten'
    BY <1>4, <2>1 DEF MemoryInv, RefutedIsForgotten
  <2>7. SteadyIsRemembered'
    <3>1. SinceAnchor' = SinceAnchor
      BY <2>1 DEF SinceAnchor
    <3>2. /\ Stands(SinceAnchor)' <=> Stands(SinceAnchor)
          /\ Stands(store.since)' <=> Stands(store'.since)
      BY <1>1, <3>1 DEF Stands
    <3>. QED
      BY <1>4, <2>1, <3>2 DEF MemoryInv, SteadyIsRemembered
  <2>. QED
    BY <2>2, <2>3, <2>4, <2>5, <2>6, <2>7 DEF MemoryInv
<1>6. CASE Stop \/ Crash
  <2>1. Gone /\ (store' = store \/ (phase = "running" /\ store' = Saved))
    BY <1>6 DEF Stop, Crash
  <2>2. /\ DOMAIN store' = {"anchor", "since", "evidence"}
        /\ store'.anchor \in Times /\ IsStamp(store'.since) /\ IsEvidence(store'.evidence)
        /\ Covers(store'.anchor, store'.evidence)
        /\ store'.evidence.parked => state = "complete" /\ Reaches(store'.anchor)
        /\ store'.evidence.refuted => store'.since.state = "none"
        /\ store'.evidence.steady => Stands(store'.since)
    <3>1. CASE phase = "running" /\ store' = Saved
      BY <1>4, <3>1
    <3>2. CASE store' = store
      BY <3>2 DEF MemoryInv, MemoryTypes, CompletionsWereSeen, ParkedIsRemembered,
                  RefutedIsForgotten, SteadyIsRemembered
    <3>. QED
      BY <2>1, <3>1, <3>2
  <2>3. /\ IsEvidence(NothingShown) /\ NothingShown.parked = FALSE
        /\ NothingShown.refuted = FALSE /\ NothingShown.steady = FALSE
        /\ NoSeed.state = "none" /\ NoSeed.at = NoTime
    BY DEF NothingShown, NoSeed, IsEvidence
  <2>4. /\ phase' = "off" /\ modernSeen' = FALSE /\ polled' = NoPoll
        /\ completed' = FALSE /\ completedAt' = NoTime /\ completionSeed' = NoTime
        /\ sinceState' = "none" /\ since' = NoTime /\ sinceSeed' = NoSeed
        /\ evidence' = NothingShown
    BY <2>1 DEF Gone
  <2>5. MemoryTypes'
    <3>1. {modernSeen, completed}' \subseteq BOOLEAN
      BY <2>4
    <3>2. IsEvidence(evidence') /\ IsStamp(sinceSeed')
      BY <2>3, <2>4 DEF IsStamp
    <3>. QED
      BY <1>1, <2>2, <2>4, <3>1, <3>2 DEF MemoryInv, MemoryTypes
  <2>6. SetupIsBlank'
    BY <2>4 DEF SetupIsBlank
  <2>7. CompletionsWereSeen'
    <3>1. Covers(store.anchor, store.evidence)'
      BY <2>2
    <3>. QED
      BY <2>4, <3>1 DEF CompletionsWereSeen, Covers
  <2>8. ParkedIsRemembered'
    <3>1. Reaches(store.anchor)' <=> Reaches(store'.anchor)
      BY <1>2 DEF Reaches
    <3>. QED
      BY <1>1, <2>2, <2>3, <2>4, <3>1 DEF ParkedIsRemembered
  <2>9. RefutedIsForgotten'
    BY <2>2, <2>3, <2>4 DEF RefutedIsForgotten
  <2>10. SteadyIsRemembered'
    <3>1. Stands(store.since)' <=> Stands(store'.since)
      BY <1>1 DEF Stands
    <3>. QED
      BY <1>1, <2>2, <2>3, <2>4, <3>1 DEF SteadyIsRemembered
  <2>. QED
    BY <2>5, <2>6, <2>7, <2>8, <2>9, <2>10 DEF MemoryInv
<1>. QED
  BY <1>3, <1>5, <1>6

\* The entities bring back what was saved, and settle it against setup's own poll.
LEMMA AddEntitiesOutcome ==
    ASSUME MemoryInv, AddEntities
    PROVE  /\ phase = "polled" /\ phase' = "running" /\ modernSeen' = modernSeen
           /\ UNCHANGED <<now, state, pluggedAt, plugIn, store>>
           /\ IsEvidence(evidence')
           /\ evidence'.plugIn = evidence.plugIn /\ evidence'.clock = evidence.clock
           /\ evidence'.parked = evidence.parked /\ evidence'.refuted = evidence.refuted
           /\ evidence'.steady <=>
                  evidence.steady /\ (sinceState = "none" \/ polled.clock # NoTime)
<1>1. IsEvidence(evidence)
  BY DEF MemoryInv, MemoryTypes
<1>2. evidence' = [evidence EXCEPT
                       !.steady = @ /\ (sinceState = "none" \/ polled.clock # NoTime)]
  BY DEF AddEntities
<1>3. /\ DOMAIN evidence' = {"plugIn", "clock", "parked", "refuted", "steady"}
      /\ evidence'.plugIn = evidence.plugIn /\ evidence'.clock = evidence.clock
      /\ evidence'.parked = evidence.parked /\ evidence'.refuted = evidence.refuted
  BY <1>1, <1>2 DEF IsEvidence
<1>4. evidence'.steady = (evidence.steady /\ (sinceState = "none" \/ polled.clock # NoTime))
  BY <1>1, <1>2 DEF IsEvidence
<1>5. evidence'.steady \in BOOLEAN
      /\ (evidence'.steady <=> evidence.steady /\ (sinceState = "none" \/ polled.clock # NoTime))
  BY <1>4
<1>6. IsEvidence(evidence')
  BY <1>1, <1>3, <1>5 DEF IsEvidence
<1>. QED
  BY <1>3, <1>5, <1>6 DEF AddEntities

\* The completion, when the entities are added.
LEMMA AddedCompletion ==
    ASSUME MemoryInv, AddEntities
    PROVE  /\ completed' \in BOOLEAN /\ completedAt' \in Times /\ completionSeed' \in Times
           /\ CompletionsWereSeen'
           /\ ParkedIsRemembered'
<1>1. /\ completed \in BOOLEAN /\ completedAt \in Times /\ completionSeed \in Times
      /\ modernSeen \in BOOLEAN /\ store.anchor \in Times
      /\ evidence.plugIn \in Nat /\ evidence.clock \in Times
  BY DEF MemoryInv, MemoryTypes, IsEvidence
<1>2. Clock \in Nat
  BY DEF MemoryInv, MemoryTypes, Clock
<1>3. /\ polled = NoPoll \/ polled.state \in States \cup {"code 99"}
      /\ polled.clock \in Times /\ completionSeed = NoTime
      /\ completed => polled.state = "complete" /\ completedAt \in {NoTime, polled.clock}
      /\ polled.state = "complete" /\ modernSeen =>
            /\ polled.sub = "none" => evidence.plugIn > 0
            /\ polled.clock # NoTime \/ polled.sub = "none" => evidence.clock = polled.clock
  BY AddEntitiesOutcome DEF MemoryInv, SetupIsBlank
<1>4. /\ ~completed => completedAt = NoTime
      /\ completed => /\ modernSeen /\ evidence.plugIn > 0
                      /\ completedAt = NoTime => evidence.clock = NoTime
      /\ Covers(completedAt, evidence) /\ Covers(store.anchor, store.evidence)
      /\ \/ Covers(store.anchor, evidence)
         \/ polled.state \in {"standby", "charging"}
         \/ /\ polled.state = "complete" /\ modernSeen /\ polled.clock # NoTime
            /\ evidence.plugIn > 0
  BY AddEntitiesOutcome DEF MemoryInv, CompletionsWereSeen
<1>5. /\ evidence.parked => state = "complete"
      /\ store.evidence.parked => state = "complete" /\ Reaches(store.anchor)
      /\ evidence.parked =>
            /\ polled.state \in {"none", "complete", "code 99"}
            /\ polled.clock \in {NoTime, Clock}
            /\ store.evidence.parked \/ Reaches(completedAt)
  BY AddEntitiesOutcome DEF MemoryInv, ParkedIsRemembered
<1>6. NoPoll.state = "none"
  BY DEF NoPoll
<1>7. Clock' = Clock
  BY AddEntitiesOutcome DEF Clock
<1> DEFINE Typed == completed' \in BOOLEAN /\ completedAt' \in Times /\ completionSeed' \in Times
           Seen == /\ ~completed' => completedAt' = NoTime
                   /\ completed' =>
                         /\ modernSeen /\ evidence.plugIn > 0
                         /\ completedAt' = NoTime => evidence.clock = NoTime
                   /\ Covers(completedAt', evidence) /\ Covers(completionSeed', evidence)
           Remembered == evidence.parked =>
                         \/ completed' /\ Reaches(completedAt')
                         \/ (completed' => completedAt' = NoTime) /\ Reaches(completionSeed')
<1> HIDE DEF Typed, Seen, Remembered
<1>8. ASSUME store.anchor = NoTime PROVE Typed /\ Seen /\ Remembered
  <2>1. UNCHANGED completion
    BY <1>8 DEF AddEntities
  <2>2. evidence.parked => Reaches(completedAt)
    BY <1>5, <1>8 DEF Reaches
  <2>3. Typed /\ Seen
    BY <1>1, <1>3, <1>4, <2>1 DEF Covers, Typed, Seen
  <2>4. Remembered
    BY <1>4, <2>1, <2>2 DEF Reaches, Remembered
  <2>. QED
    BY <2>3, <2>4
<1>9. ASSUME store.anchor # NoTime,
             polled = NoPoll \/ polled.state = "code 99"
                \/ (polled.state = "complete" /\ ~modernSeen)
      PROVE  Typed /\ Seen /\ Remembered
  <2>1. completionSeed' = store.anchor /\ UNCHANGED <<completed, completedAt>>
    <3>1. CASE polled = NoPoll
      BY <1>9, <3>1 DEF AddEntities
    <3>2. CASE polled # NoPoll
      <4>1. TrackCompletion(polled, modernSeen, store.anchor)
        BY <1>9, <3>2 DEF AddEntities
      <4>2. ~Named(polled) \/ (polled.state = "complete" /\ ~modernSeen)
        BY <1>9, <3>2 DEF Named
      <4>. QED
        BY <1>1, <1>3, <4>1, <4>2, CompletionOutcome
    <3>. QED
      BY <3>1, <3>2
  <2>2. ~completed /\ completedAt = NoTime
    BY <1>3, <1>4, <1>6, <1>9
  <2>3. Covers(store.anchor, evidence)
    BY <1>4, <1>6, <1>9
  <2>4. evidence.parked => Reaches(store.anchor)
    BY <1>5, <2>2 DEF Reaches
  <2>5. Typed
    BY <1>1, <2>1 DEF Typed
  <2>6. Seen
    BY <1>4, <2>1, <2>2, <2>3 DEF Seen
  <2>7. Remembered
    BY <2>1, <2>2, <2>4 DEF Remembered
  <2>. QED
    BY <2>5, <2>6, <2>7
<1>10. ASSUME store.anchor # NoTime, polled # NoPoll,
              polled.state \in {"standby", "charging"}
       PROVE  Typed /\ Seen /\ Remembered
  <2>1. TrackCompletion(polled, modernSeen, store.anchor)
    BY <1>10 DEF AddEntities
  <2>2. Named(polled) /\ polled.state # "complete"
    BY <1>10 DEF Named
  <2>3. completed' \in BOOLEAN /\ ~completed' /\ completedAt' = NoTime /\ completionSeed' = NoTime
    BY <1>1, <1>3, <2>1, <2>2, CompletionOutcome
  <2>4. ~evidence.parked
    BY <1>5, <1>10
  <2>. QED
    BY <2>3, <2>4 DEF Typed, Seen, Remembered, Covers
<1>11. ASSUME store.anchor # NoTime, polled # NoPoll, polled.state = "complete", modernSeen
       PROVE  Typed /\ Seen /\ Remembered
  <2>1. TrackCompletion(polled, modernSeen, store.anchor) /\ Named(polled)
    BY <1>11 DEF AddEntities, Named
  <2> DEFINE held == IF completed THEN completedAt ELSE store.anchor
  <2>2. /\ completed' \in BOOLEAN /\ completedAt' \in Times /\ completionSeed' \in Times
        /\ completed' <=>
               \/ polled.sub = "none"
               \/ IF held = NoTime \/ polled.clock = NoTime THEN completed
                  ELSE polled.clock >= held
        /\ completionSeed' = IF polled.clock = NoTime THEN store.anchor ELSE NoTime
        /\ completedAt' = IF ~completed' THEN NoTime
                          ELSE IF polled.clock # NoTime THEN polled.clock ELSE completedAt
    BY <1>1, <1>3, <1>11, <2>1, CompletionOutcome
  <2>3. Typed
    BY <2>2 DEF Typed
  <2>4. CASE polled.clock # NoTime
    <3>1. evidence.clock = polled.clock /\ completionSeed' = NoTime
          /\ (completed' => completedAt' = polled.clock) /\ (~completed' => completedAt' = NoTime)
      BY <1>3, <1>11, <2>2, <2>4
    <3>2. completed' => evidence.plugIn > 0
      BY <1>1, <1>3, <1>4, <1>11, <2>2, <2>4 DEF Covers
    <3>3. Seen
      BY <1>1, <1>11, <2>4, <3>1, <3>2 DEF Seen, Covers
    <3>4. ASSUME evidence.parked PROVE completed' /\ Reaches(completedAt')
      <4>1. polled.clock = Clock
        BY <1>5, <2>4, <3>4
      <4>2. completed'
        <5>1. CASE completed
          <6>1. held = completedAt /\ completedAt \in {NoTime, polled.clock}
            BY <1>3, <1>11, <5>1
          <6>2. CASE completedAt = NoTime
            BY <2>2, <5>1, <6>1, <6>2
          <6>3. CASE completedAt = polled.clock
            <7>1. polled.clock \in Nat
              BY <1>2, <4>1
            <7>2. polled.clock >= held
              BY <6>1, <6>3, <7>1
            <7>. QED
              BY <2>2, <5>1, <7>2
          <6>. QED
            BY <6>1, <6>2, <6>3
        <5>2. CASE ~completed
          <6>1. Reaches(store.anchor)
            BY <1>4, <1>5, <3>4, <5>2 DEF Reaches
          <6>. QED
            BY <1>1, <1>2, <2>2, <4>1, <5>2, <6>1 DEF Reaches
        <5>. QED
          BY <5>1, <5>2
      <4>. QED
        BY <1>2, <3>1, <4>1, <4>2 DEF Reaches
    <3>. QED
      BY <2>3, <3>3, <3>4 DEF Remembered
  <2>5. CASE polled.clock = NoTime
    <3>1. completedAt = NoTime /\ completedAt' = NoTime /\ completionSeed' = store.anchor
      BY <1>3, <1>4, <2>2, <2>5
    <3>2. completed' => completed \/ polled.sub = "none"
      BY <2>2, <2>5
    <3>3. completed' => evidence.plugIn > 0 /\ evidence.clock = NoTime
      BY <1>3, <1>4, <1>11, <2>5, <3>1, <3>2
    <3>4. Covers(store.anchor, evidence)
      BY <1>4, <1>11, <2>5
    <3>5. Seen
      BY <1>11, <3>1, <3>3, <3>4 DEF Seen, Covers
    <3>6. evidence.parked => Reaches(store.anchor)
      BY <1>5, <3>1 DEF Reaches
    <3>. QED
      BY <2>3, <3>1, <3>5, <3>6 DEF Remembered
  <2>. QED
    BY <2>4, <2>5
<1>12. Typed /\ Seen /\ Remembered
  BY <1>3, <1>8, <1>9, <1>10, <1>11
<1>13. CompletionsWereSeen'
  <2>1. Covers(completedAt, evidence)' /\ Covers(completionSeed, evidence)'
    BY <1>12, AddEntitiesOutcome DEF Seen, Covers
  <2>2. Covers(store.anchor, store.evidence)'
    BY <1>4, AddEntitiesOutcome DEF Covers
  <2>. QED
    BY <1>12, <2>1, <2>2, AddEntitiesOutcome DEF Seen, CompletionsWereSeen
<1>14. ParkedIsRemembered'
  <2>1. evidence.parked => CompletionAnchor' # NoTime /\ CompletionAnchor' <= Clock'
    BY <1>7, <1>12 DEF Remembered, Reaches, CompletionAnchor
  <2>2. evidence.parked => Reaches(CompletionAnchor)'
    BY <2>1 DEF Reaches
  <2>3. Reaches(store.anchor)' <=> Reaches(store.anchor)
    BY <1>7, AddEntitiesOutcome DEF Reaches
  <2>. QED
    BY <1>5, <2>2, <2>3, AddEntitiesOutcome DEF ParkedIsRemembered
<1>. QED
  BY <1>12, <1>13, <1>14 DEF Typed

\* The stamp, when the entities are added.
LEMMA AddedStamp ==
    ASSUME MemoryInv, AddEntities
    PROVE  /\ sinceState' = sinceState /\ since' \in Times /\ IsStamp(sinceSeed')
           /\ RefutedIsForgotten' /\ SteadyIsRemembered'
<1>1. /\ now \in Nat /\ pluggedAt \in Nat /\ pluggedAt <= now /\ Slack \in Nat
      /\ state \in States /\ sinceState \in States \cup {"none"}
      /\ since = NoTime /\ sinceSeed = NoSeed /\ IsStamp(store.since)
  BY AddEntitiesOutcome, ChargeMemoryAssumption DEF MemoryInv, MemoryTypes, SetupIsBlank
<1>2. NoSeed.state = "none" /\ NoSeed.at = NoTime
  BY DEF NoSeed
<1>3. CASE store.since = NoSeed
  <2>1. UNCHANGED sinceStamp /\ store.since.state = "none"
    BY <1>2, <1>3 DEF AddEntities
  <2>2. ~store.evidence.steady /\ ~evidence.steady
    BY <1>1, <2>1, AddEntitiesOutcome DEF MemoryInv, SteadyIsRemembered, Stands
  <2>3. RefutedIsForgotten'
    BY <1>1, <1>2, <2>1, AddEntitiesOutcome DEF MemoryInv, RefutedIsForgotten
  <2>4. SteadyIsRemembered'
    BY <2>2, AddEntitiesOutcome DEF SteadyIsRemembered
  <2>. QED
    BY <1>1, <1>2, <2>1, <2>3, <2>4 DEF IsStamp
<1>4. CASE store.since # NoSeed
  <2>1. SeedSince
    BY <1>4 DEF AddEntities
  <2>2. polled.clock \in Times
    BY AddEntitiesOutcome DEF MemoryInv, SetupIsBlank
  <2> DEFINE confirmed == IF store.since.state = sinceState
                         THEN Plausible(store.since.at, polled.clock) ELSE NoTime
  <2>3. confirmed \in Times
    BY <1>1, <2>2 DEF Plausible, IsStamp
  <2>4. /\ sinceState' = sinceState
        /\ sinceState = "none" => sinceSeed' = store.since /\ since' = NoTime
        /\ sinceState # "none" => sinceSeed' = NoSeed /\ since' = confirmed
    BY <1>1, <2>1 DEF SeedSince
  <2>5. since' \in Times /\ IsStamp(sinceSeed')
    BY <1>1, <1>2, <2>3, <2>4 DEF IsStamp
  <2>6. evidence.refuted = store.evidence.refuted
        /\ (store.evidence.refuted => store.since.state = "none")
    BY AddEntitiesOutcome DEF MemoryInv, RefutedIsForgotten
  <2>7. RefutedIsForgotten'
    BY <1>2, <2>4, <2>6, AddEntitiesOutcome DEF RefutedIsForgotten
  <2>8. evidence.steady =>
            /\ Stands(store.since) /\ sinceState \in {"none", state}
            /\ sinceState # "none" => polled.clock \in {NoTime, Clock}
    BY AddEntitiesOutcome DEF MemoryInv, SteadyIsRemembered
  <2>9. ASSUME evidence'.steady PROVE Stands(SinceAnchor)'
    <3>1. evidence.steady /\ (sinceState = "none" \/ polled.clock # NoTime)
      BY <2>9, AddEntitiesOutcome
    <3>2. /\ state # "standby" /\ store.since.state = state /\ store.since.at >= pluggedAt
          /\ sinceState \in {"none", state}
      BY <2>8, <3>1 DEF Stands
    <3>3. CASE sinceState = "none"
      <4>1. SinceAnchor' = store.since
        BY <2>4, <3>3 DEF SinceAnchor
      <4>. QED
        BY <3>2, <4>1, AddEntitiesOutcome DEF Stands
    <3>4. CASE sinceState # "none"
      <4>1. polled.clock = now - pluggedAt /\ polled.clock # NoTime /\ store.since.at \in Nat
        BY <1>1, <2>8, <3>1, <3>2, <3>4 DEF Clock, IsStamp
      <4>2. store.since.at >= now - polled.clock - Slack
        BY <1>1, <3>2, <4>1
      <4>3. since' = store.since.at /\ sinceState' = state
        BY <2>4, <3>2, <3>4, <4>1, <4>2 DEF Plausible
      <4>4. SinceAnchor' = [state |-> state, at |-> store.since.at]
        BY <1>1, <4>1, <4>3 DEF SinceAnchor
      <4>. QED
        BY <3>2, <4>4, AddEntitiesOutcome DEF Stands
    <3>. QED
      BY <3>3, <3>4
  <2>10. SteadyIsRemembered'
    <3>1. store.evidence.steady => Stands(store.since)
      BY DEF MemoryInv, SteadyIsRemembered
    <3>2. Stands(store.since)' <=> Stands(store.since)
      BY AddEntitiesOutcome DEF Stands
    <3>3. evidence'.steady => state # "standby" /\ sinceState' \in {"none", state}
      BY <2>4, <2>8, AddEntitiesOutcome DEF Stands
    <3>. QED
      BY <2>9, <3>1, <3>2, <3>3, AddEntitiesOutcome DEF SteadyIsRemembered
  <2>. QED
    BY <2>4, <2>5, <2>7, <2>10
<1>. QED
  BY <1>3, <1>4

\* So the entities keep the invariant.
LEMMA AddEntitiesKeepsInv == MemoryInv /\ AddEntities => MemoryInv'
<1> SUFFICES ASSUME MemoryInv, AddEntities PROVE MemoryInv'
  OBVIOUS
<1>1. {modernSeen, completed}' \subseteq BOOLEAN
  BY AddedCompletion, AddEntitiesOutcome DEF MemoryInv, MemoryTypes
<1>2. MemoryTypes'
  BY <1>1, AddedCompletion, AddedStamp, AddEntitiesOutcome DEF MemoryInv, MemoryTypes
<1>3. SetupIsBlank'
  BY AddEntitiesOutcome DEF SetupIsBlank
<1>. QED
  BY <1>2, <1>3, AddedCompletion, AddedStamp DEF MemoryInv

\* MemoryInv holds at every step, of the charger's, the polls' and the entry's.
LEMMA MemoryInvNext == MemoryInv /\ [MemoryNext]_memoryVars => MemoryInv'
<1> SUFFICES ASSUME MemoryInv, [MemoryNext]_memoryVars PROVE MemoryInv'
  OBVIOUS
<1>1. CASE Tick
  BY <1>1, MemoryTickKeepsInv
<1>2. CASE PlugMoves
  BY <1>2, PlugMovesKeepsInv
<1>3. ASSUME NEW r \in Replies, MemoryPoll(r) PROVE MemoryInv'
  BY <1>3, PollKeepsTypes, PollKeepsCompletions, PollKeepsParked, PollKeepsStamps DEF MemoryInv
<1>4. CASE BadPoll
  BY <1>4, BadPollKeepsInv
<1>5. CASE Load \/ Dump \/ Stop \/ Crash
  BY <1>5, PhasesKeepInv
<1>6. CASE AddEntities
  BY <1>6, AddEntitiesKeepsInv
<1>7. CASE UNCHANGED memoryVars
  <2>1. MemoryTypes' /\ SetupIsBlank'
    BY <1>7 DEF MemoryInv, MemoryTypes, SetupIsBlank
  <2>2. CompletionsWereSeen'
    BY <1>7 DEF MemoryInv, CompletionsWereSeen, Covers
  <2>3. ParkedIsRemembered'
    BY <1>7 DEF MemoryInv, ParkedIsRemembered, Reaches, Clock, CompletionAnchor
  <2>4. RefutedIsForgotten'
    BY <1>7 DEF MemoryInv, RefutedIsForgotten
  <2>5. SteadyIsRemembered'
    <3>1. /\ Stands(store.since)' <=> Stands(store.since)
          /\ Stands(SinceAnchor)' <=> Stands(SinceAnchor)
      BY <1>7 DEF Stands, SinceAnchor
    <3>2. Clock' = Clock
      BY <1>7 DEF Clock
    <3>. QED
      BY <1>7, <3>1, <3>2 DEF MemoryInv, SteadyIsRemembered
  <2>. QED
    BY <2>1, <2>2, <2>3, <2>4, <2>5 DEF MemoryInv
<1>. QED
  BY <1>1, <1>2, <1>3, <1>4, <1>5, <1>6, <1>7 DEF MemoryNext

\* In every reachable state a completion that is held, to be confirmed or saved is of a
\* charge that a poll saw complete, a parked charge's completion is at hand, a contradicted
\* stamp is gone and a stamp that stands is at hand (_track_charge_completion,
\* _track_state_since, seed_charge_completion, seed_state_since).
THEOREM MemoryInvHolds == MemorySpec => []MemoryInv
  BY MemoryInvInit, MemoryInvNext, PTL DEF MemorySpec

\* A good poll of a state 5 with its clock: Charge Complete is shown of a charge that was
\* seen to end, and of every one that is parked in it.
LEMMA PolledCompletionIsTrue ==
    ASSUME MemoryInv, NEW r \in Replies, MemoryPoll(r), r.state = "complete", r.clock # NoTime
    PROVE  CompletionIsEarned /\ CompletionIsKept
<1>1. /\ completed \in BOOLEAN /\ completedAt \in Times /\ completionSeed \in Times
      /\ modernSeen' \in BOOLEAN /\ evidence.clock \in Times /\ r.clock \in Times
  BY PollOutcome, ReplyOutcome DEF MemoryInv, MemoryTypes, IsEvidence
<1>2. Named(r) /\ r.clock = Clock /\ Clock \in Nat
  <2>1. state = "complete" /\ Named(r)
    BY ReplyOutcome DEF Named, MemoryInv, MemoryTypes
  <2>. QED
    BY <2>1, ReplyOutcome DEF MemoryInv, MemoryTypes, Clock
<1> DEFINE held == IF completed THEN completedAt ELSE completionSeed
<1>3. /\ ~modernSeen' => completed' = completed
      /\ modernSeen' => completed' <=>
             \/ r.sub = "none"
             \/ IF held = NoTime \/ r.clock = NoTime THEN completed ELSE r.clock >= held
  BY <1>1, <1>2, PollOutcome, CompletionOutcome
<1>4. /\ Covers(completedAt, evidence) /\ Covers(completionSeed, evidence)
      /\ completed => /\ modernSeen /\ evidence.plugIn > 0
                      /\ completedAt = NoTime => evidence.clock = NoTime
  BY DEF MemoryInv, CompletionsWereSeen
<1>5. modernSeen' /\ r.sub = "none" => evidence'.plugIn = plugIn /\ completed'
  BY <1>1, <1>3, PollOutcome, WitnessOutcome
<1>6. CompletionIsEarned
  <2> SUFFICES ASSUME completed', ~(modernSeen' /\ r.sub = "none")
               PROVE  evidence.plugIn > 0 /\ Clock >= evidence.clock
    BY <1>5 DEF CompletionIsEarned
  <2>1. modernSeen'
    BY <1>3, <1>4, PollOutcome
  <2>2. CASE held = NoTime
    BY <1>1, <1>2, <1>3, <1>4, <2>1, <2>2
  <2>3. CASE held # NoTime
    <3>1. Clock >= held
      BY <1>2, <1>3, <2>1, <2>3
    <3>2. Covers(held, evidence)
      BY <1>4
    <3>. QED
      BY <1>1, <1>2, <2>3, <3>1, <3>2 DEF Covers
  <2>. QED
    BY <2>2, <2>3
<1>7. CompletionIsKept
  <2> SUFFICES ASSUME phase' = "running", evidence'.parked, modernSeen', r.sub # "none"
               PROVE  completed'
    BY <1>5 DEF CompletionIsKept
  <2>1. phase = "running" /\ evidence.parked
    BY <1>1, PollOutcome, WitnessOutcome
  <2>2. CompletionAnchor # NoTime /\ CompletionAnchor <= Clock
    BY <2>1 DEF MemoryInv, ParkedIsRemembered, Reaches
  <2>3. CASE completed /\ completedAt = NoTime
    BY <1>3, <2>3
  <2>4. CASE ~completed \/ completedAt # NoTime
    <3>1. held = CompletionAnchor
      BY <2>4 DEF CompletionAnchor
    <3>2. r.clock >= held /\ held # NoTime
      BY <1>1, <1>2, <2>2, <3>1
    <3>. QED
      BY <1>3, <3>2
  <2>. QED
    BY <2>3, <2>4
<1>. QED
  BY <1>6, <1>7

\* A good poll: the stamp it shows was not contradicted, and one that stands is shown.
LEMMA PolledStampIsTrue ==
    ASSUME MemoryInv, NEW r \in Replies, MemoryPoll(r)
    PROVE  SinceIsUnrefuted /\ SinceIsKept
<1>1. RefutedIsForgotten' /\ SteadyIsRemembered' /\ MemoryTypes'
  BY PollKeepsStamps, PollKeepsTypes
<1>2. since' # NoTime => ~evidence'.refuted
  BY <1>1 DEF RefutedIsForgotten
<1>3. /\ now \in Nat /\ pluggedAt \in Nat /\ Slack \in Nat /\ r.clock \in Times
      /\ IsStamp(sinceSeed) /\ pluggedAt' = pluggedAt /\ state \in States
  BY PollOutcome, ReplyOutcome, ChargeMemoryAssumption DEF MemoryInv, MemoryTypes
<1>4. ASSUME since' # NoTime, sinceState = "none", state # "standby"
      PROVE  since' >= pluggedAt - Slack
  <2>1. Named(r) /\ r.state # sinceState
    BY <1>3, <1>4, PollOutcome, SinceOutcome, ReplyOutcome DEF Named
  <2>2. since' = IF sinceSeed.state = r.state THEN Plausible(sinceSeed.at, r.clock) ELSE NoTime
    BY <1>4, <2>1, PollOutcome, SinceOutcome
  <2>3. since' = Plausible(sinceSeed.at, r.clock)
    BY <1>4, <2>2
  <2>4. r.clock # NoTime /\ since' = sinceSeed.at /\ since' >= now - r.clock - Slack
    BY <1>4, <2>3 DEF Plausible
  <2>5. r.clock = now - pluggedAt
    BY <1>4, <2>4, ReplyOutcome DEF Clock
  <2>. QED
    BY <1>3, <2>4, <2>5 DEF IsStamp
<1>5. SinceIsKept
  <2> SUFFICES ASSUME phase' = "running", evidence'.steady, sinceState' # "none"
               PROVE  since' # NoTime
    BY DEF SinceIsKept
  <2>1. Stands(SinceAnchor)'
    BY <1>1 DEF SteadyIsRemembered
  <2>2. sinceSeed' = NoSeed
    BY <1>1 DEF RefutedIsForgotten
  <2>3. since' = NoTime => SinceAnchor' = NoSeed
    BY <2>2 DEF SinceAnchor
  <2>4. SinceAnchor'.state \in States
    BY <1>1, <2>1 DEF Stands, MemoryTypes
  <2>. QED
    BY <2>3, <2>4 DEF NoSeed
<1>. QED
  BY <1>2, <1>3, <1>4, <1>5 DEF SinceIsUnrefuted

\* After any gap or restart, Charge Complete is shown of a charge that a poll saw the car
\* end and none saw go on, and kept while that car is parked; and the time the charger has
\* been in its state is one that no poll contradicted, of this plug-in, and kept while it
\* stays in it.
THEOREM MemoriesAreTrue == MemorySpec => MemoryIsTrue
<1> DEFINE CompletionPolls == \E r \in Replies :
                 r.state = "complete" /\ r.clock # NoTime /\ MemoryPoll(r)
           Polls == \E r \in Replies : MemoryPoll(r)
<1>1. MemoryInv => (CompletionIsEarned /\ CompletionIsKept) \/ ~CompletionPolls
  BY PolledCompletionIsTrue
<1>2. MemoryInv => (SinceIsUnrefuted /\ SinceIsKept) \/ ~Polls
  BY PolledStampIsTrue
<1>3. MemorySpec => CompletionIsTrue
  BY <1>1, MemoryInvHolds, PTL DEF CompletionIsTrue
<1>4. MemorySpec => SinceIsTrue
  BY <1>2, MemoryInvHolds, PTL DEF SinceIsTrue
<1>. QED
  BY <1>3, <1>4 DEF MemoryIsTrue

-------------------------------------------------------------------------------
(***************************************************************************)
(* The SOC arithmetic, for every question in the limits of the inputs: the *)
(* energy that is asked for is the least that reaches the target, up to a  *)
(* rounding, and none is asked for exactly when the target is reached.     *)
(***************************************************************************)

\* A number held between nothing and a top.
LEMMA ClampedOutcome ==
    ASSUME NEW x \in Int, NEW top \in Nat
    PROVE  Clamped(x, top) = IF x < 0 THEN 0 ELSE IF x > top THEN top ELSE x
<1> DEFINE least == Min({x, top})
<1>1. least \in {x, top} /\ least <= x /\ least <= top
  <2>1. \E y \in {x, top} : \A z \in {x, top} : y <= z
    BY DEF Min
  <2>. QED
    BY <2>1 DEF Min
<1>2. least = IF x > top THEN top ELSE x
  BY <1>1
<1> HIDE DEF least
<1> DEFINE most == Max({0, least})
<1>3. most \in {0, least} /\ most >= 0 /\ most >= least
  <2>1. least \in Int
    BY <1>2
  <2>2. \E y \in {0, least} : \A z \in {0, least} : y >= z
    BY <2>1
  <2>. QED
    BY <2>2 DEF Max
<1>4. most = IF least < 0 THEN 0 ELSE least
  BY <1>2, <1>3
<1>. QED
  BY <1>2, <1>4 DEF Clamped, least

\* Division rounded up: enough, and by less than one.
LEMMA RoundedUp ==
    ASSUME NEW a \in Nat, NEW k \in Nat \ {0}
    PROVE  LET n == (a + k - 1) \div k
           IN  n \in Nat /\ n * k >= a /\ n * k <= a + k - 1
  OBVIOUS

\* A question's numbers.
LEMMA QueryTypes ==
    ASSUME NEW q \in SocQueries
    PROVE  /\ q.initial \in 0 .. 100 /\ q.capacity \in Nat \ {0} /\ q.loss \in 0 .. 50
           /\ q.delivered \in Nat
           /\ 100 * q.initial * q.capacity \in Nat /\ q.target * q.capacity \in Nat
           /\ q.target * q.capacity <= 100 * q.capacity
<1>1. /\ q.initial \in 0 .. 100 /\ q.capacity \in Nat \ {0} /\ q.loss \in 0 .. 50
      /\ q.delivered \in Nat /\ q.target \in 0 .. 100
  BY SocForecastAssumption DEF SocQueries
<1>. QED
  BY <1>1

\* A rounded number is one.
LEMMA NearestIsNat == ASSUME NEW x \in Nat PROVE Nearest(x, 100) \in Nat
  BY DEF Nearest

\* More energy fills the battery by its share without the loss, to the nearest hundredth.
LEMMA StoredGrows ==
    ASSUME NEW x \in Nat, NEW more \in Nat, NEW e \in Nat
    PROVE  /\ e >= 100 * more => Nearest(x + e, 100) >= Nearest(x, 100) + more
           /\ e <= 100 * more - 101 => Nearest(x + e, 100) < Nearest(x, 100) + more
  BY DEF Nearest

\* The energy that is asked for reaches the target, with no more than a rounding to spare,
\* and none is asked for exactly when the target is reached, for any question.
THEOREM EnergyFits == \A q \in SocQueries : ReachesTarget(q)
<1> SUFFICES ASSUME NEW q \in SocQueries PROVE ReachesTarget(q)
  OBVIOUS
<1> DEFINE k == 100 - q.loss
           x == 100 * q.initial * q.capacity + q.delivered * k
           goal == q.target * q.capacity
           top == 100 * q.capacity
           lacks == Missing(q, q.delivered)
           grid == GridEnergy(q)
<1>1. /\ q.initial \in 0 .. 100 /\ q.capacity \in Nat \ {0} /\ q.loss \in 0 .. 50
      /\ q.delivered \in Nat /\ k \in 50 .. 100
      /\ 100 * q.initial * q.capacity \in Nat /\ goal \in Nat /\ top \in Nat /\ goal <= top
  BY QueryTypes
<1>2. x \in Nat
  <2>1. q.delivered * k \in Nat
    BY <1>1
  <2>. QED
    BY <1>1, <2>1
<1>3. ASSUME NEW d \in Int, q.delivered + d \in Nat
      PROVE  SocEnergy(q, q.delivered + d) = Clamped(Nearest(x + d * k, 100), top)
  <2>1. (q.delivered + d) * k = q.delivered * k + d * k
    BY <1>1
  <2>2. 100 * q.initial * q.capacity + (q.delivered + d) * k = x + d * k
    BY <1>1, <2>1
  <2>. QED
    BY <2>2 DEF SocEnergy
<1>4. SocEnergy(q, q.delivered) = Clamped(Nearest(x, 100), top)
  BY DEF SocEnergy
<1>5. lacks = goal - Clamped(Nearest(x, 100), top)
  BY <1>4 DEF Missing
<1>6. Nearest(x, 100) \in Nat
  BY <1>2, NearestIsNat
<1>7. Clamped(Nearest(x, 100), top) = IF Nearest(x, 100) > top THEN top ELSE Nearest(x, 100)
  BY <1>1, <1>6, ClampedOutcome
<1>8. TargetReached(q, q.delivered) <=> lacks <= 0
  BY <1>1, <1>4, <1>5, <1>6, <1>7 DEF TargetReached
<1>9. CASE lacks <= 0
  <2>1. grid = 0
    BY <1>9 DEF GridEnergy
  <2>. QED
    BY <1>1, <1>8, <1>9, <2>1 DEF ReachesTarget
<1>10. CASE ~(lacks <= 0)
  <2>1. lacks \in Nat \ {0} /\ Nearest(x, 100) = goal - lacks /\ Nearest(x, 100) < goal
    BY <1>1, <1>5, <1>6, <1>7, <1>10
  <2>2. grid = (100 * lacks + k - 1) \div k
    <3>1. grid = (100 * lacks + 99 - q.loss) \div (100 - q.loss)
      BY <1>10 DEF GridEnergy
    <3>2. 100 * lacks + 99 - q.loss = 100 * lacks + k - 1
      BY <1>1, <2>1
    <3>. QED
      BY <3>1, <3>2
  <2> HIDE DEF grid, lacks, goal, top, x, k
  <2>3. grid \in Nat /\ grid * k >= 100 * lacks /\ grid * k <= 100 * lacks + k - 1
    <3>1. 100 * lacks \in Nat /\ k \in Nat \ {0}
      BY <1>1, <2>1
    <3> DEFINE a == 100 * lacks
    <3> HIDE DEF a
    <3>2. a \in Nat /\ grid = (a + k - 1) \div k
      BY <2>2, <3>1 DEF a
    <3>3. grid \in Nat /\ grid * k >= a /\ grid * k <= a + k - 1
      BY <3>1, <3>2, RoundedUp
    <3>. QED
      BY <3>3 DEF a
  <2>4. grid # 0
    BY <2>1, <2>3, <1>1
  <2>5. TargetReached(q, q.delivered + grid)
    <3> DEFINE e == grid * k
    <3>1. SocEnergy(q, q.delivered + grid) = Clamped(Nearest(x + e, 100), top)
      BY <1>1, <1>3, <2>3
    <3>2. e \in Nat /\ e >= 100 * lacks
      BY <1>1, <2>3
    <3> HIDE DEF e
    <3>3. Nearest(x + e, 100) >= Nearest(x, 100) + lacks /\ x + e \in Nat
      BY <1>2, <2>1, <3>2, StoredGrows
    <3>4. Nearest(x + e, 100) \in Nat
      BY <3>3, NearestIsNat
    <3>5. Clamped(Nearest(x + e, 100), top) >= goal
      <4> DEFINE y == Nearest(x + e, 100)
      <4>1. y \in Nat /\ y >= goal
        BY <1>1, <1>6, <2>1, <3>3, <3>4
      <4> HIDE DEF y
      <4>2. Clamped(y, top) = IF y > top THEN top ELSE y
        BY <1>1, <4>1, ClampedOutcome
      <4>3. Clamped(y, top) >= goal
        BY <1>1, <4>1, <4>2
      <4>. QED
        BY <4>3 DEF y
    <3>. QED
      BY <3>1, <3>5 DEF TargetReached, goal
  <2>6. ASSUME grid > 2
        PROVE  ~TargetReached(q, q.delivered + grid - 3)
    <3> DEFINE d == grid - 3
               e == d * k
    <3>1. d \in Nat /\ q.delivered + d \in Nat /\ q.delivered + d = q.delivered + grid - 3
      BY <1>1, <2>3, <2>6
    <3>2. SocEnergy(q, q.delivered + d) = Clamped(Nearest(x + e, 100), top)
      BY <1>3, <3>1
    <3>3. e \in Nat /\ e = grid * k - 3 * k
      BY <1>1, <2>3, <3>1
    <3>4. e <= 100 * lacks - 101
      BY <1>1, <2>1, <2>3, <3>3
    <3> HIDE DEF d, e
    <3>5. Nearest(x + e, 100) < Nearest(x, 100) + lacks /\ x + e \in Nat
      <4>1. x \in Nat /\ e \in Nat /\ lacks \in Nat
        BY <1>2, <2>1, <3>3
      <4>2. e <= 100 * lacks - 101 => Nearest(x + e, 100) < Nearest(x, 100) + lacks
        BY <4>1, StoredGrows
      <4>. QED
        BY <3>4, <4>1, <4>2
    <3>6. Nearest(x + e, 100) \in Nat
      BY <3>5, NearestIsNat
    <3>7. ~(Clamped(Nearest(x + e, 100), top) >= goal)
      <4> DEFINE y == Nearest(x + e, 100)
      <4>1. y \in Nat /\ y < goal
        BY <1>1, <1>6, <2>1, <3>5, <3>6
      <4> HIDE DEF y
      <4>2. Clamped(y, top) = IF y > top THEN top ELSE y
        BY <1>1, <4>1, ClampedOutcome
      <4>3. ~(Clamped(y, top) >= goal)
        BY <1>1, <4>1, <4>2
      <4>. QED
        BY <4>3 DEF y
    <3>8. q.delivered + grid - 3 = q.delivered + d
      BY <3>1
    <3>. QED
      BY <3>2, <3>7, <3>8 DEF TargetReached, goal
  <2>. QED
    BY <1>8, <1>10, <2>4, <2>5, <2>6 DEF ReachesTarget, grid
<1>. QED
  BY <1>9, <1>10

-------------------------------------------------------------------------------
(***************************************************************************)
(* The windows of a day, for a day of any length and any number of         *)
(* windows: what the code finds by looking at where windows start and end  *)
(* is what is so minute by minute.                                         *)
(***************************************************************************)

\* Days and minute of an instant.
LEMMA Division ==
    ASSUME NEW x \in Nat, NEW d \in Nat, d > 0
    PROVE  x % d \in 0 .. d - 1 /\ x \div d \in Nat /\ d * (x \div d) + (x % d) = x
<1>1. d * (x \div d) + (x % d) = x
  OBVIOUS
<1>2. x % d \in 0 .. d - 1 /\ x \div d \in Nat
  OBVIOUS
<1>. QED
  BY <1>1, <1>2

\* Whole days leave the minute as it is.
LEMMA RemainderOf ==
    ASSUME NEW q \in Nat, NEW d \in Nat, d > 0, NEW r \in 0 .. d - 1
    PROVE  (d * q + r) % d = r
<1>1. d * q + r \in Nat
  OBVIOUS
<1>. QED
  BY <1>1

\* The remainder of what is less than two days from midnight.
LEMMA Remainders ==
    /\ \A x \in 0 .. 2 * Day - 1 : x % Day = IF x < Day THEN x ELSE x - Day
    /\ \A x \in (1 - Day) .. -1 : x % Day = x + Day
<1>1. Day \in Nat /\ Day > 0
  BY DayAssumption
<1>2. ASSUME NEW x \in 0 .. 2 * Day - 1
      PROVE  x % Day = IF x < Day THEN x ELSE x - Day
  <2>1. CASE x < Day
    BY <1>1, <2>1
  <2>2. CASE ~(x < Day)
    <3>1. x - Day \in 0 .. Day - 1 /\ x = Day * 1 + (x - Day)
      BY <1>1, <2>2
    <3>2. x % Day = x - Day
      BY <1>1, <3>1
    <3>. QED
      BY <2>2, <3>2
  <2>. QED
    BY <2>1, <2>2
<1>3. ASSUME NEW x \in (1 - Day) .. -1 PROVE x % Day = x + Day
  BY <1>1, <1>3
<1>. QED
  BY <1>2, <1>3

\* A window is the minutes that the code finds in it.
LEMMA WindowMinutes ==
    ASSUME NEW span \in Spans, span.start # span.stop, NEW m \in 0 .. Day - 1
    PROVE  m \in MinutesOf(span) <=> InWindow(m, span)
<1>1. Day \in Nat /\ span.start \in 0 .. Day - 1 /\ span.stop \in 0 .. Day - 1
  BY DayAssumption DEF Spans
<1>2. CASE span.start < span.stop
  <2>1. (span.stop - span.start) % Day = span.stop - span.start
    BY <1>1, <1>2, Remainders
  <2>2. \A k \in 0 .. (span.stop - span.start) - 1 : (span.start + k) % Day = span.start + k
    BY <1>1, <1>2, Remainders
  <2>3. m \in MinutesOf(span) => InWindow(m, span)
    BY <1>1, <1>2, <2>1, <2>2 DEF MinutesOf, InWindow
  <2>4. ASSUME InWindow(m, span) PROVE m \in MinutesOf(span)
    <3>1. m - span.start \in 0 .. (span.stop - span.start) - 1
      BY <1>1, <1>2, <2>4 DEF InWindow
    <3>2. (span.start + (m - span.start)) % Day = m
      BY <1>1, <2>2, <3>1
    <3>. QED
      BY <2>1, <3>1, <3>2 DEF MinutesOf
  <2>. QED
    BY <2>3, <2>4
<1>3. CASE span.start > span.stop
  <2> DEFINE length == span.stop - span.start + Day
  <2>1. (span.stop - span.start) % Day = length /\ length \in 1 .. Day
    BY <1>1, <1>3, Remainders
  <2>2. ASSUME NEW k \in 0 .. length - 1
        PROVE  (span.start + k) % Day = IF span.start + k < Day THEN span.start + k
                                        ELSE span.start + k - Day
    <3>1. span.start + k \in 0 .. 2 * Day - 1
      BY <1>1, <2>1
    <3>2. PICK s \in 0 .. 2 * Day - 1 : s = span.start + k
      BY <3>1
    <3>3. s % Day = IF s < Day THEN s ELSE s - Day
      BY Remainders
    <3>. QED
      BY <1>1, <2>1, <3>2, <3>3
  <2>3. m \in MinutesOf(span) => InWindow(m, span)
    <3>1. SUFFICES ASSUME NEW k \in 0 .. length - 1, m = (span.start + k) % Day
                   PROVE  InWindow(m, span)
      BY <2>1 DEF MinutesOf
    <3>2. m >= span.start \/ m < span.stop
      BY <1>1, <1>3, <2>2, <3>1
    <3>. QED
      BY <1>1, <1>3, <3>2 DEF InWindow
  <2>4. ASSUME InWindow(m, span) PROVE m \in MinutesOf(span)
    <3>1. m >= span.start \/ m < span.stop
      BY <1>1, <1>3, <2>4 DEF InWindow
    <3> DEFINE k == IF m >= span.start THEN m - span.start ELSE m - span.start + Day
    <3>2. k \in 0 .. length - 1
      BY <1>1, <1>3, <3>1
    <3>3. (span.start + k) % Day = m
      BY <1>1, <1>3, <2>2, <3>1, <3>2
    <3>. QED
      BY <2>1, <3>2, <3>3 DEF MinutesOf
  <2>. QED
    BY <2>3, <2>4
<1>. QED
  BY <1>1, <1>2, <1>3

\* Two windows overlap, as the code tells by where they start, when they share a minute.
LEMMA OverlapIsShared ==
    ASSUME NEW a \in Spans, NEW b \in Spans, a.start # a.stop, b.start # b.stop
    PROVE  Overlap(a, b) <=> \E m \in 0 .. Day - 1 : InWindow(m, a) /\ InWindow(m, b)
<1>1. /\ Day \in Nat /\ a.start \in 0 .. Day - 1 /\ a.stop \in 0 .. Day - 1
      /\ b.start \in 0 .. Day - 1 /\ b.stop \in 0 .. Day - 1
  BY DayAssumption DEF Spans
<1>2. InWindow(a.start, a) /\ InWindow(b.start, b)
  BY <1>1 DEF InWindow
<1>3. Overlap(a, b) => \E m \in 0 .. Day - 1 : InWindow(m, a) /\ InWindow(m, b)
  BY <1>1, <1>2 DEF Overlap
<1>4. ASSUME NEW m \in 0 .. Day - 1, InWindow(m, a), InWindow(m, b)
      PROVE  Overlap(a, b)
  BY <1>1, <1>4 DEF Overlap, InWindow
<1>. QED
  BY <1>3, <1>4

\* The edges of a day have a first one.
LEMMA FirstEdge ==
    ASSUME NEW edges \in SUBSET (0 .. Day - 1), edges # {}
    PROVE  Min(edges) \in edges /\ \A e \in edges : Min(edges) <= e
<1>1. edges \subseteq Nat
  BY DayAssumption
<1>2. PICK first \in edges : \A e \in edges : first <= e
  <2>1. \E first \in edges : \A e \in edges : <<e, first>> \notin OpToRel(<, Nat)
    BY <1>1, WFMin, NatLessThanWellFounded
  <2>2. PICK first \in edges : \A e \in edges : <<e, first>> \notin OpToRel(<, Nat)
    BY <2>1
  <2>3. \A e \in edges : ~(e < first)
    BY <1>1, <2>2 DEF OpToRel
  <2>. QED
    BY <1>1, <2>3
<1>. QED
  BY <1>2 DEF Min

\* The next edge lies ahead, within a day, and no edge before it.
LEMMA NextEdgeOutcome ==
    ASSUME NEW edges \in SUBSET (0 .. Day - 1), edges # {}, NEW from \in Nat
    PROVE  LET edge == NextEdge(from, edges)
           IN  /\ edge \in Nat /\ from < edge /\ edge <= from + Day
               /\ \A instant \in from .. edge - 1 :
                     \/ /\ from % Day <= instant % Day
                        /\ \A e \in edges : ~(from % Day < e /\ e <= instant % Day)
                     \/ \A e \in edges : e <= from % Day /\ instant % Day < e
<1> DEFINE edge == NextEdge(from, edges)
           m == from % Day
           base == Day * (from \div Day)
           later == {e \in edges : e > m}
<1>1. Day \in Nat /\ Day > 0
  BY DayAssumption
<1>2. m \in 0 .. Day - 1 /\ base \in Nat /\ from = base + m /\ from \div Day \in Nat
  <2>1. m \in 0 .. Day - 1 /\ from \div Day \in Nat /\ base + m = from
    BY <1>1, Division
  <2>2. base \in Nat
    BY <1>1, <2>1
  <2>. QED
    BY <2>1, <2>2
<1>3. edge = base + (IF later # {} THEN Min(later) ELSE Min(edges) + Day)
  <2>1. (from \div Day) * Day = base
    BY <1>1, <1>2
  <2>. QED
    BY <2>1 DEF NextEdge
<1>4. ASSUME NEW d \in 0 .. Day - 1
      PROVE  (base + d) % Day = d /\ (base + Day + d) % Day = d
  <2>1. (base + d) % Day = d
    BY <1>1, <1>2, RemainderOf
  <2>2. from \div Day + 1 \in Nat /\ base + Day + d = Day * (from \div Day + 1) + d
    BY <1>1, <1>2
  <2>3. (Day * (from \div Day + 1) + d) % Day = d
    BY <1>1, <2>2, RemainderOf
  <2>. QED
    BY <2>1, <2>2, <2>3
<1>5. \A e \in edges : e \in 0 .. Day - 1
  OBVIOUS
<1> HIDE DEF m, base
<1>6. CASE later # {}
  <2> DEFINE first == Min(later)
  <2>1. first \in later /\ \A e \in later : first <= e
    <3>1. later \in SUBSET (0 .. Day - 1)
      OBVIOUS
    <3>. QED
      BY <1>6, <3>1, FirstEdge
  <2>2. edge = base + first
    BY <1>3, <1>6
  <2> HIDE DEF first
  <2>3. first \in m + 1 .. Day - 1 /\ \A e \in edges : e > m => first <= e
    BY <1>1, <1>2, <1>5, <2>1
  <2>4. ASSUME NEW instant \in from .. edge - 1
        PROVE  m <= instant % Day /\ \A e \in edges : ~(m < e /\ e <= instant % Day)
    <3> DEFINE d == instant - base
    <3>1. d \in m .. first - 1 /\ d \in 0 .. Day - 1 /\ instant = base + d
      BY <1>1, <1>2, <2>2, <2>3
    <3>2. instant % Day = d
      BY <1>4, <3>1
    <3>. QED
      BY <1>1, <1>2, <1>5, <2>3, <3>1, <3>2
  <2>5. edge \in Nat /\ from < edge /\ edge <= from + Day
    BY <1>1, <1>2, <2>2, <2>3
  <2>. QED
    BY <2>4, <2>5 DEF m
<1>7. CASE later = {}
  <2> DEFINE first == Min(edges)
  <2>1. first \in edges /\ \A e \in edges : first <= e
    BY FirstEdge
  <2>2. edge = base + (first + Day)
    BY <1>3, <1>7
  <2> HIDE DEF first
  <2>3. \A e \in edges : e <= m
    BY <1>2, <1>5, <1>7
  <2>4. first \in 0 .. m
    BY <1>5, <2>1, <2>3
  <2>5. ASSUME NEW instant \in from .. edge - 1
        PROVE  \/ m <= instant % Day /\ \A e \in edges : ~(m < e /\ e <= instant % Day)
               \/ \A e \in edges : e <= m /\ instant % Day < e
    <3>1. CASE instant < base + Day
      <4> DEFINE d == instant - base
      <4>1. d \in m .. Day - 1 /\ d \in 0 .. Day - 1 /\ instant = base + d
        BY <1>1, <1>2, <2>2, <2>4, <3>1
      <4>2. instant % Day = d
        BY <1>4, <4>1
      <4>. QED
        BY <1>1, <1>2, <1>5, <2>3, <4>1, <4>2
    <3>2. CASE ~(instant < base + Day)
      <4> DEFINE d == instant - base - Day
      <4>1. d \in 0 .. first - 1 /\ d \in 0 .. Day - 1 /\ instant = base + Day + d
        BY <1>1, <1>2, <2>2, <2>4, <3>2
      <4>2. instant % Day = d
        BY <1>4, <4>1
      <4>. QED
        BY <1>1, <1>2, <1>5, <2>1, <2>3, <2>4, <4>1, <4>2
    <3>. QED
      BY <3>1, <3>2
  <2>6. edge \in Nat /\ from < edge /\ edge <= from + Day
    BY <1>1, <1>2, <2>2, <2>4
  <2>. QED
    BY <2>5, <2>6 DEF m
<1>. QED
  BY <1>6, <1>7

\* A window without an edge between two minutes is open in both or in neither.
LEMMA WindowStands ==
    ASSUME NEW span \in Spans, NEW m \in 0 .. Day - 1, NEW n \in 0 .. Day - 1,
           \/ m <= n /\ \A e \in {span.start, span.stop} : ~(m < e /\ e <= n)
           \/ \A e \in {span.start, span.stop} : e <= m /\ n < e
    PROVE  InWindow(m, span) <=> InWindow(n, span)
<1>1. /\ span.start \in 0 .. Day - 1 /\ span.stop \in 0 .. Day - 1 /\ Day \in Nat
      /\ \/ /\ m <= n /\ ~(m < span.start /\ span.start <= n)
            /\ ~(m < span.stop /\ span.stop <= n)
         \/ span.start <= m /\ n < span.start /\ span.stop <= m /\ n < span.stop
  BY DayAssumption DEF Spans
<1>. QED
  BY <1>1 DEF InWindow

\* A price is the same from one edge to the next, over midnight too: the walk misses no
\* change of a window, goes on, and within a day; for any windows, looked at with any other
\* edges, as the schedules' are (utils.py:560-706).
THEOREM RateStands ==
    ASSUME NEW indexes, NEW windows \in [indexes -> Spans],
           NEW edges \in SUBSET (0 .. Day - 1), edges # {}, EdgesOf(windows) \subseteq edges,
           NEW from \in Nat
    PROVE  LET edge == NextEdge(from, edges)
           IN  /\ edge \in Nat /\ from < edge /\ edge <= from + Day
               /\ \A instant \in from .. edge - 1 :
                     IndexAt(instant, windows) = IndexAt(from, windows)
<1> DEFINE edge == NextEdge(from, edges)
<1>1. /\ edge \in Nat /\ from < edge /\ edge <= from + Day
      /\ \A instant \in from .. edge - 1 :
            \/ /\ from % Day <= instant % Day
               /\ \A e \in edges : ~(from % Day < e /\ e <= instant % Day)
            \/ \A e \in edges : e <= from % Day /\ instant % Day < e
  BY NextEdgeOutcome
<1> HIDE DEF edge
<1>2. ASSUME NEW instant \in from .. edge - 1
      PROVE  IndexAt(instant, windows) = IndexAt(from, windows)
  <2>1. instant \in Nat /\ Day \in Nat /\ Day > 0
    BY <1>1, DayAssumption
  <2>2. PICK m \in 0 .. Day - 1 : m = from % Day
    BY <2>1, Division
  <2>3. PICK n \in 0 .. Day - 1 : n = instant % Day
    BY <2>1, Division
  <2>4. \/ m <= n /\ \A e \in edges : ~(m < e /\ e <= n)
        \/ \A e \in edges : e <= m /\ n < e
    BY <1>1, <2>2, <2>3
  <2>5. ASSUME NEW i \in DOMAIN windows
        PROVE  InWindow(m, windows[i]) <=> InWindow(n, windows[i])
    <3>1. windows[i] \in Spans /\ {windows[i].start, windows[i].stop} \subseteq edges
      BY DEF EdgesOf
    <3>2. \/ m <= n /\ \A e \in {windows[i].start, windows[i].stop} : ~(m < e /\ e <= n)
          \/ \A e \in {windows[i].start, windows[i].stop} : e <= m /\ n < e
      BY <2>4, <3>1, Zenon
    <3>. QED
      BY <3>1, <3>2, WindowStands
  <2>6. {i \in DOMAIN windows : InWindow(instant % Day, windows[i])} =
        {i \in DOMAIN windows : InWindow(from % Day, windows[i])}
    BY <2>2, <2>3, <2>5
  <2>. QED
    BY <2>6 DEF IndexAt
<1>. QED
  BY <1>1, <1>2 DEF edge

\* The windows that the code trusts are those of which none is empty and none shares a minute
\* with another, minute by minute (utils.py:560-603).
THEOREM TrustedIsClear ==
    ASSUME NEW indexes, NEW windows \in [indexes -> Spans], NEW minute, NEW active
    PROVE  Trusts(minute, active, windows) <=>
               Clear(windows) /\ IndexAt(minute, windows) = active
<1>1. Day \in Nat /\ Day > 0 /\ \A i \in DOMAIN windows : windows[i] \in Spans
  BY DayAssumption
<1>2. ASSUME NEW span \in Spans
      PROVE  /\ MinutesOf(span) \subseteq 0 .. Day - 1
             /\ MinutesOf(span) # {} <=> span.start # span.stop
  <2>1. span.start \in 0 .. Day - 1 /\ span.stop \in 0 .. Day - 1
    BY DEF Spans
  <2>2. \A k \in Nat : (span.start + k) % Day \in 0 .. Day - 1
    <3>1. ASSUME NEW k \in Nat
          PROVE  (span.start + k) % Day \in 0 .. Day - 1
      <4>1. span.start + k \in Nat
        BY <2>1
      <4>. QED
        BY <1>1, <4>1, Division
    <3>. QED
      BY <3>1
  <2>3. MinutesOf(span) \subseteq 0 .. Day - 1
    <3>1. \A k \in 0 .. ((span.stop - span.start) % Day) - 1 : k \in Nat
      OBVIOUS
    <3>. QED
      BY <2>2, <3>1 DEF MinutesOf
  <2>4. ASSUME span.start # span.stop
        PROVE  MinutesOf(span) # {}
    <3>1. InWindow(span.start, span)
      BY <2>1, <2>4 DEF InWindow
    <3>. QED
      BY <2>1, <2>4, <3>1, WindowMinutes
  <2>5. ASSUME span.start = span.stop
        PROVE  MinutesOf(span) = {}
    <3>1. span.stop - span.start = 0
      BY <2>1, <2>5
    <3>2. (span.stop - span.start) % Day = 0
      BY <1>1, <3>1
    <3>3. 0 .. ((span.stop - span.start) % Day) - 1 = {}
      BY <3>2
    <3>. QED
      BY <3>3 DEF MinutesOf
  <2>. QED
    BY <2>3, <2>4, <2>5
<1>3. ASSUME NEW a \in Spans, NEW b \in Spans, a.start # a.stop, b.start # b.stop
      PROVE  Overlap(a, b) <=> MinutesOf(a) \cap MinutesOf(b) # {}
  <2>1. MinutesOf(a) \subseteq 0 .. Day - 1
    BY <1>2
  <2>2. \A m \in 0 .. Day - 1 :
            m \in MinutesOf(a) \cap MinutesOf(b) <=> InWindow(m, a) /\ InWindow(m, b)
    BY <1>3, WindowMinutes
  <2>3. Overlap(a, b) <=> \E m \in 0 .. Day - 1 : InWindow(m, a) /\ InWindow(m, b)
    BY <1>3, OverlapIsShared
  <2>. QED
    BY <2>1, <2>2, <2>3, Zenon
<1>4. (\A i \in DOMAIN windows : windows[i].start # windows[i].stop) <=>
      (\A i \in DOMAIN windows : MinutesOf(windows[i]) # {})
  BY <1>1, <1>2, Zenon
<1>5. ASSUME \A i \in DOMAIN windows : windows[i].start # windows[i].stop
      PROVE  (\A i, j \in DOMAIN windows : i # j => ~Overlap(windows[i], windows[j])) <=>
             (\A i, j \in DOMAIN windows :
                  i # j => MinutesOf(windows[i]) \cap MinutesOf(windows[j]) = {})
  BY <1>1, <1>3, <1>5, Zenon
<1>. QED
  BY <1>4, <1>5, Zenon DEF Trusts, Clear

===============================================================================
