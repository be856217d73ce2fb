------------------------- MODULE TransitionEventsProofs -------------------------
(***************************************************************************)
(* Proofs about the transition events, for every grace, every set of error *)
(* codes and every number of plug-ins: what the bus is told is what the    *)
(* charger did between two good polls, every charge that was seen is       *)
(* finished once, and its summary is its own.                              *)
(*                                                                         *)
(* The inductive invariant EventInv says what _event_prev_state, the held  *)
(* payload and the firmware-1.x latch know of the charger.                 *)
(***************************************************************************)
EXTENDS TransitionEvents, TLAPS

\* A plugged car's counter is what its plug-in took; a later plug-in took nothing yet.
ChargerIsCounted ==
    /\ firmware \in {"modern", "legacy"}
    /\ condition \in Possible(plugged)
    /\ plugIn \in 1 .. MaxPlugIns
    /\ energy \in Nat /\ delivered \in [1 .. MaxPlugIns -> Nat]
    /\ energy <= delivered[plugIn]
    /\ plugged => energy = delivered[plugIn]
    /\ \A p \in plugIn + 1 .. MaxPlugIns : delivered[p] = 0

\* The translation of a state never takes one of these for another.
SameKind(translated, real) ==
    /\ translated \in PluggedStates <=> real \in PluggedStates
    /\ translated = "error" <=> real = "error"
    /\ translated = "standby" <=> real = "standby"
    /\ translated = "startup" <=> real = "startup"

\* What the events compare with is the last nameable poll of the stretch.
PrevIsLast ==
    /\ prevState \in States \cup {"none"}
    /\ stretch <=> prevState # "none"
    /\ SameKind(prevState, last.state)
    /\ last.state \in PluggedStates => last.plugged
    /\ last.state = "standby" => ~last.plugged
    /\ prevState = "error" => prevCode = last.code

\* The held payload is the last charging poll's.
PayloadIsSeen ==
    payload # NoPayload =>
        /\ payload = seen.energy /\ payload \in Nat \cup {None}
        /\ seen.plugIn \in 1 .. plugIn
        /\ payload <= delivered[seen.plugIn]

\* A payload is held from the start of a charge to its finish.
HeldWhileOpen ==
    ~shuttingDown =>
        /\ lastCharge = "finished" => payload = NoPayload /\ prevState \notin {"none", "charging"}
        /\ open => payload # NoPayload /\ prevState \in {"charging", "error"}

\* The latch of firmware 1.x counts the polls since the last with power.
LatchCounts ==
    /\ modernSeen => firmware = "modern"
    /\ zeroPolls \in Nat /\ sincePower \in Nat \cup {None}
    /\ firmware = "legacy" =>
          /\ latched => sincePower = zeroPolls /\ zeroPolls <= GracePolls
          /\ ~latched => sincePower \notin 0 .. GracePolls
          /\ stretch /\ published = "charging" => latched
          /\ stretch /\ published = "connected" => ~latched

EventInv ==
    /\ ChargerIsCounted /\ PrevIsLast /\ PayloadIsSeen /\ HeldWhileOpen /\ LatchCounts
    /\ MarkerMayDrop

USE DEF None, NoPayload

\* The states are told apart.
LEMMA KindsAreApart ==
    /\ PluggedStates \subseteq {"connected", "complete", "paused", "charging"}
    /\ "connected" \in PluggedStates /\ "charging" \in PluggedStates
    /\ States = PluggedStates \cup {"startup", "standby", "error"}
BY TransitionAssumption DEF PluggedStates, States

-------------------------------------------------------------------------------
(* The charger and the gaps.                                               *)

\* The invariant holds at first.
LEMMA EventInvInit == Init => EventInv
<1> SUFFICES ASSUME Init PROVE EventInv
  OBVIOUS
<1>1. ChargerIsCounted
  BY TransitionAssumption DEF Init, ChargerIsCounted
<1>2. PrevIsLast
  BY KindsAreApart DEF Init, PrevIsLast, SameKind
<1>3. PayloadIsSeen /\ HeldWhileOpen /\ LatchCounts /\ MarkerMayDrop
  BY TransitionAssumption DEF Init, PayloadIsSeen, HeldWhileOpen, LatchCounts, MarkerMayDrop
<1>. QED
  BY <1>1, <1>2, <1>3 DEF EventInv

\* A plug-in only ever takes more.
DeliveryGrows ==
    /\ plugIn <= plugIn'
    /\ \A p \in 1 .. MaxPlugIns : delivered[p] <= delivered'[p]

\* The charger's plug-ins are counted, and deliveries only grow.
LEMMA ChargerCounts ==
    ASSUME ChargerIsCounted, Moves \/ Deliver \/ Unplug \/ Plug
    PROVE  ChargerIsCounted' /\ DeliveryGrows
<1> USE TransitionAssumption, KindsAreApart
<1>1. CASE Moves
  BY <1>1 DEF Moves, ChargerIsCounted, DeliveryGrows, Possible
<1>2. CASE Deliver
  <2>1. /\ plugged /\ energy' = energy + 1 /\ delivered' = [delivered EXCEPT ![plugIn] = energy']
        /\ UNCHANGED <<firmware, condition, plugged, plugIn>>
    BY <1>2 DEF Deliver, ChargerIsCounted, Possible
  <2>2. /\ delivered' \in [1 .. MaxPlugIns -> Nat] /\ delivered'[plugIn] = energy'
        /\ \A p \in 1 .. MaxPlugIns \ {plugIn} : delivered'[p] = delivered[p]
    BY <2>1 DEF ChargerIsCounted
  <2>3. energy = delivered[plugIn] /\ plugIn \in 1 .. MaxPlugIns /\ energy \in Nat
    BY <2>1 DEF ChargerIsCounted
  <2>4. ChargerIsCounted'
    <3>1. firmware' \in {"modern", "legacy"} /\ (condition \in Possible(plugged))'
      BY <2>1 DEF ChargerIsCounted, Possible
    <3>2. /\ plugIn' \in 1 .. MaxPlugIns /\ energy' \in Nat /\ energy' <= delivered'[plugIn']
          /\ energy' = delivered'[plugIn']
      BY <2>1, <2>2, <2>3
    <3>3. \A p \in plugIn' + 1 .. MaxPlugIns : delivered'[p] = 0
      BY <2>1, <2>2, <2>3 DEF ChargerIsCounted
    <3>. QED
      BY <2>2, <3>1, <3>2, <3>3 DEF ChargerIsCounted
  <2>5. DeliveryGrows
    BY <2>1, <2>2, <2>3 DEF ChargerIsCounted, DeliveryGrows
  <2>. QED
    BY <2>4, <2>5
<1>3. CASE Unplug
  BY <1>3 DEF Unplug, ChargerIsCounted, DeliveryGrows, Possible
<1>4. CASE Plug
  BY <1>4 DEF Plug, ChargerIsCounted, DeliveryGrows, Possible
<1>. QED
  BY <1>1, <1>2, <1>3, <1>4

\* The charger's own steps.
LEMMA ChargerKeepsInv == EventInv /\ (Moves \/ Deliver \/ Unplug \/ Plug) => EventInv'
<1> SUFFICES ASSUME EventInv, Moves \/ Deliver \/ Unplug \/ Plug PROVE EventInv'
  OBVIOUS
<1>1. /\ UNCHANGED <<firmware, legacyVars, published, eventVars, shuttingDown, ghostVars>>
      /\ ChargerIsCounted' /\ DeliveryGrows
  BY ChargerCounts DEF EventInv, Moves, Deliver, Unplug, Plug, Quiet
<1>2. PrevIsLast' /\ HeldWhileOpen' /\ LatchCounts' /\ MarkerMayDrop'
  BY <1>1 DEF EventInv, legacyVars, eventVars, ghostVars, PrevIsLast, SameKind, HeldWhileOpen,
              LatchCounts, MarkerMayDrop
<1>3. PayloadIsSeen'
  <2>1. ASSUME payload # NoPayload
        PROVE  /\ seen.plugIn \in 1 .. plugIn'
               /\ delivered[seen.plugIn] <= delivered'[seen.plugIn]
               /\ {delivered[seen.plugIn], delivered'[seen.plugIn]} \subseteq Nat
               /\ payload <= delivered[seen.plugIn] /\ payload \in Nat \cup {None}
    <3>1. seen.plugIn \in 1 .. plugIn /\ plugIn \in 1 .. MaxPlugIns /\ plugIn' \in 1 .. MaxPlugIns
      BY <1>1, <2>1 DEF EventInv, PayloadIsSeen, ChargerIsCounted
    <3>2. seen.plugIn \in 1 .. MaxPlugIns /\ plugIn <= plugIn'
      BY <1>1, <3>1, TransitionAssumption DEF DeliveryGrows
    <3>. QED
      BY <1>1, <2>1, <3>1, <3>2
      DEF EventInv, PayloadIsSeen, ChargerIsCounted, DeliveryGrows
  <2>2. payload' # NoPayload => payload' <= delivered'[seen'.plugIn]
    BY <1>1, <2>1 DEF eventVars, ghostVars
  <2>. QED
    BY <1>1, <2>1, <2>2 DEF EventInv, PayloadIsSeen, eventVars, ghostVars
<1>. QED
  BY <1>1, <1>2, <1>3 DEF EventInv

\* A poll that fails, a restart and an unload.
LEMMA GapKeepsInv == EventInv /\ (BadPoll \/ Restart \/ BeginUnload) => EventInv'
<1> SUFFICES ASSUME EventInv, BadPoll \/ Restart \/ BeginUnload PROVE EventInv'
  OBVIOUS
<1> USE TransitionAssumption, KindsAreApart
<1>1. CASE BadPoll \/ Restart
  <2>1. /\ UNCHANGED chargerVars /\ ForgetPollGapState /\ Forgotten
        /\ modernSeen' => modernSeen
    BY <1>1 DEF BadPoll, Restart
  <2>2. ChargerIsCounted'
    BY <2>1 DEF EventInv, chargerVars, ChargerIsCounted
  <2>3. PrevIsLast' /\ PayloadIsSeen' /\ HeldWhileOpen' /\ MarkerMayDrop'
    BY <2>1 DEF ForgetPollGapState, Forgotten, PrevIsLast, SameKind, PayloadIsSeen,
                HeldWhileOpen, MarkerMayDrop
  <2>4. LatchCounts'
    BY <2>1 DEF EventInv, chargerVars, ForgetPollGapState, ResetLatch, Forgotten, LatchCounts
  <2>. QED
    BY <2>2, <2>3, <2>4 DEF EventInv
<1>2. CASE BeginUnload
  <2>1. /\ UNCHANGED <<chargerVars, legacyVars, published, eventVars, ghostVars>>
        /\ shuttingDown'
    BY <1>2 DEF BeginUnload
  <2>. QED
    BY <2>1 DEF EventInv, chargerVars, legacyVars, eventVars, ghostVars, ChargerIsCounted,
                PrevIsLast, SameKind, PayloadIsSeen, HeldWhileOpen, LatchCounts, MarkerMayDrop
<1>. QED
  BY <1>1, <1>2

-------------------------------------------------------------------------------
(* Good polls.                                                             *)

\* What was published is of the kind of what the charger does, if it has a name at all.
LEMMA NormalizeOutcome ==
    ASSUME EventInv, NEW marker, NEW flowing, Normalize(marker, flowing), UNCHANGED chargerVars,
           marker => firmware = "modern"
    PROVE  /\ modernSeen' => firmware = "modern" /\ published' = condition
           /\ published' \in States => SameKind(published', condition)
           /\ condition \in States
           /\ condition = "error" => published' = "error"
<1> USE KindsAreApart
<1>1. condition \in States
  BY DEF EventInv, ChargerIsCounted, Possible
<1>2. modernSeen' => firmware = "modern" /\ published' = condition
  BY DEF Normalize, EventInv, LatchCounts, Reported
<1>3. CASE modernSeen'
  BY <1>1, <1>2, <1>3 DEF SameKind
<1>4. CASE ~modernSeen' /\ Reported = "connected"
  <2>1. condition \in PluggedStates
    BY <1>4 DEF Reported
  <2>2. published' \in {"charging", "connected"}
    BY <1>4 DEF Normalize, Translate
  <2>. QED
    BY <1>1, <1>4, <2>1, <2>2 DEF SameKind
<1>5. CASE ~modernSeen' /\ Reported # "connected"
  <2>1. published' = IF Reported = "code 20" THEN "standby" ELSE Reported
    BY <1>5 DEF Normalize, Translate
  <2>. QED
    BY <1>1, <1>5, <2>1 DEF SameKind, Reported, EventInv, ChargerIsCounted
<1>. QED
  BY <1>3, <1>4, <1>5

\* What a good poll remembers and fires, by what it found.
LEMMA EmitOutcome ==
    ASSUME NEW state, NEW reading, Emit(state, reading)
    PROVE  /\ state \notin States => events' = {} /\ UNCHANGED <<eventVars, summary>>
           /\ state \in States =>
                 /\ prevState' = state
                 /\ First => Remember(state, reading)
                 /\ ~First /\ prevState = state => Persist(state, reading)
                 /\ ~First /\ prevState # state => Change(state, reading)
BY DEF Emit

\* What a change of state fires, keeps and remembers.
LEMMA ChangeOutcome ==
    ASSUME NEW state, NEW reading, Change(state, reading)
    PROVE  /\ "started" \in events' <=> state = "charging"
           /\ "finished" \in events' <=> state \notin {"charging", "error"} /\ payload # NoPayload
           /\ "error" \in events' <=> state = "error"
           /\ payload' = IF "finished" \in events' THEN NoPayload ELSE Held(state, reading)
           /\ "finished" \in events' => summary' = Final(payload, reading)
           /\ prevCode' = CodeAfter(state)
           /\ "connected" \in events' =>
                 prevState \notin PluggedStates \cup {"error"} /\ state \in PluggedStates
           /\ "disconnected" \in events' =>
                 prevState \in PluggedStates /\ state \notin PluggedStates \cup {"error"}
<1> DEFINE held == Held(state, reading)
           charge == ChargeEvents(state, held)
<1>1. /\ payload' = HeldAfter(charge, held)
      /\ summary' = IF "finished" \in charge THEN Final(held, reading) ELSE summary
      /\ prevCode' = CodeAfter(state)
      /\ events' = charge \cup PlugEvents(prevState, state)
                          \cup (IF state = "error" THEN {"error"} ELSE {})
  BY DEF Change
<1>2. /\ "started" \in charge <=> state = "charging"
      /\ "finished" \in charge <=> state \notin {"charging", "error"} /\ payload # NoPayload
      /\ charge \subseteq {"started", "finished"}
  BY DEF ChargeEvents, Held
<1>3. /\ PlugEvents(prevState, state) \subseteq {"connected", "disconnected"}
      /\ "connected" \in PlugEvents(prevState, state) =>
            prevState \notin PluggedStates \cup {"error"} /\ state \in PluggedStates
      /\ "disconnected" \in PlugEvents(prevState, state) =>
            prevState \in PluggedStates /\ state \notin PluggedStates \cup {"error"}
  BY DEF PlugEvents
<1>4. state # "charging" => held = payload
  BY DEF Held
<1> HIDE DEF charge, held
<1>5. "finished" \in events' <=> "finished" \in charge
  BY <1>1, <1>2, <1>3
<1>6. /\ "started" \in events' <=> state = "charging"
      /\ "error" \in events' <=> state = "error"
      /\ "connected" \in events' <=> "connected" \in PlugEvents(prevState, state)
      /\ "disconnected" \in events' <=> "disconnected" \in PlugEvents(prevState, state)
  BY <1>1, <1>2, <1>3
<1>7. payload' = IF "finished" \in charge THEN NoPayload ELSE held
  BY <1>1 DEF HeldAfter
<1>8. "finished" \in events' => summary' = Final(payload, reading)
  BY <1>1, <1>2, <1>4, <1>5
<1>. QED
  BY <1>1, <1>2, <1>3, <1>5, <1>6, <1>7, <1>8 DEF held

\* What a good poll does, at its parameters.
Polled(marker, flowing, reading) ==
    /\ marker => firmware = "modern"
    /\ flowing => condition = "charging" \/ (firmware = "modern" /\ condition = "connected")
    /\ reading \in {energy, None}
    /\ Normalize(marker, flowing)
    /\ Emit(published', reading)
    /\ Watch(flowing, reading)
    /\ UNCHANGED <<chargerVars, shuttingDown>>

\* A good poll is a poll of some reading.
LEMMA GoodPollOutcome == GoodPoll => \E marker, flowing, reading : Polled(marker, flowing, reading)
<1> SUFFICES ASSUME GoodPoll
             PROVE  \E marker, flowing, reading : Polled(marker, flowing, reading)
  OBVIOUS
<1>1. PICK marker \in BOOLEAN, flowing \in BOOLEAN, readable \in BOOLEAN :
          /\ marker => firmware = "modern"
          /\ flowing => condition = "charging" \/ (firmware = "modern" /\ condition = "connected")
          /\ LET reading == IF readable THEN energy ELSE None
             IN  /\ Normalize(marker, flowing)
                 /\ Emit(published', reading)
                 /\ Watch(flowing, reading)
          /\ UNCHANGED <<chargerVars, shuttingDown>>
  BY DEF GoodPoll
<1> DEFINE reading == IF readable THEN energy ELSE None
<1>2. reading \in {energy, None}
  OBVIOUS
<1>3. Polled(marker, flowing, reading)
  BY <1>1, <1>2 DEF Polled
<1>. QED
  BY <1>3

\* A good poll leaves the events knowing what it found.
LEMMA PollKeepsPrev ==
    ASSUME EventInv, NEW marker, NEW flowing, NEW reading, Polled(marker, flowing, reading)
    PROVE  PrevIsLast' /\ MarkerMayDrop'
<1> USE KindsAreApart
<1>1. /\ UNCHANGED <<firmware, condition, code, plugged>>
      /\ published' \in States =>
            /\ last'.state = condition /\ last'.code = CodeNow(condition)
            /\ last'.plugged = plugged
      /\ published' \notin States => last' = last
      /\ stretch' <=> stretch \/ published' \in States
  BY DEF Polled, chargerVars, Watch
<1>2. /\ condition \in States /\ (condition \in PluggedStates => plugged)
      /\ (condition = "standby" => ~plugged)
      /\ published' \in States => SameKind(published', condition)
      /\ modernSeen' => published' = condition
  BY NormalizeOutcome DEF Polled, EventInv, ChargerIsCounted, Possible
<1>3. CASE published' \notin States
  <2>1. UNCHANGED <<prevState, prevCode>> /\ ~modernSeen' /\ last' = last /\ (stretch' <=> stretch)
    BY <1>1, <1>2, <1>3, EmitOutcome DEF Polled, eventVars, EventInv, PrevIsLast
  <2>. QED
    BY <2>1 DEF EventInv, PrevIsLast, SameKind, MarkerMayDrop
<1>4. CASE published' \in States
  <2>1. prevState' = published' /\ stretch'
    BY <1>1, <1>4, EmitOutcome DEF Polled
  <2>2. published' = "error" => prevCode' = code
    BY <1>4, EmitOutcome, ChangeOutcome
    DEF Polled, Remember, Persist, CodeNow, CodeAfter
  <2>3. last'.state = condition /\ last'.code = CodeNow(condition) /\ last'.plugged = plugged
    BY <1>1, <1>4
  <2>4. prevState' = "error" => prevCode' = last'.code
    BY <1>2, <1>4, <2>1, <2>2, <2>3 DEF SameKind, CodeNow
  <2>5. SameKind(prevState', last'.state)
    BY <1>2, <1>4, <2>1, <2>3
  <2>. QED
    BY <1>2, <1>4, <2>1, <2>3, <2>4, <2>5 DEF PrevIsLast, SameKind, MarkerMayDrop
<1>. QED
  BY <1>3, <1>4

\* A held payload stays the reading of an open charge.
LEMMA PollKeepsPayload ==
    ASSUME EventInv, NEW marker, NEW flowing, NEW reading, Polled(marker, flowing, reading)
    PROVE  PayloadIsSeen' /\ HeldWhileOpen'
<1> USE KindsAreApart
<1>1. /\ UNCHANGED <<plugIn, energy, delivered, shuttingDown>>
      /\ lastCharge' = IF "started" \in events' THEN "started"
                       ELSE IF "finished" \in events' THEN "finished" ELSE lastCharge
      /\ open' <=> "finished" \notin events' /\ (open \/ published' = "charging")
      /\ published' = "charging" => seen'.plugIn = plugIn /\ seen'.energy = reading
      /\ published' # "charging" /\ "finished" \notin events' => seen' = seen
  BY DEF Polled, chargerVars, Watch
<1>2. /\ reading \in Nat \cup {None} /\ reading <= delivered[plugIn]
      /\ plugIn \in 1 .. plugIn /\ delivered[plugIn] \in Nat
  BY TransitionAssumption DEF Polled, EventInv, ChargerIsCounted
<1>3. CASE published' \notin States
  <2>1. /\ UNCHANGED <<prevState, payload, seen, lastCharge, shuttingDown, plugIn, delivered>>
        /\ open' <=> open
    BY <1>1, <1>3, EmitOutcome DEF Polled, eventVars
  <2>. QED
    BY <2>1 DEF EventInv, PayloadIsSeen, HeldWhileOpen
<1>4. CASE published' \in States /\ "finished" \in events'
  <2>1. ~First /\ prevState # published' /\ Change(published', reading)
    BY <1>4, EmitOutcome DEF Polled, Remember, Persist
  <2>2. payload' = NoPayload /\ ~open' /\ prevState' = published' /\ published' # "charging"
    BY <1>1, <1>4, <2>1, EmitOutcome, ChangeOutcome DEF Polled
  <2>. QED
    BY <1>4, <2>2 DEF PayloadIsSeen, HeldWhileOpen
<1>5. CASE published' \in States /\ "finished" \notin events'
  <2>1. payload' = Held(published', reading) /\ prevState' = published'
    BY <1>5, EmitOutcome, ChangeOutcome DEF Polled, Remember, Persist
  <2>2. PayloadIsSeen'
    BY <1>1, <1>2, <1>5, <2>1 DEF EventInv, PayloadIsSeen, Held
  <2>3. HeldWhileOpen'
    <3>1. SUFFICES ASSUME ~shuttingDown PROVE HeldWhileOpen'
      BY <1>1 DEF HeldWhileOpen
    <3>2. CASE published' = "charging"
      <4>1. payload' # NoPayload
        BY <1>2, <2>1, <3>2 DEF Held
      <4>2. lastCharge' # "finished"
        BY <1>1, <1>5, <3>1, <3>2, EmitOutcome, ChangeOutcome
        DEF Polled, First, EventInv, HeldWhileOpen, PrevIsLast
      <4>. QED
        BY <2>1, <3>2, <4>1, <4>2 DEF HeldWhileOpen
    <3>3. CASE published' # "charging"
      <4>1. payload' = payload /\ (open' <=> open)
        BY <1>1, <1>5, <2>1, <3>3 DEF Held
      <4>2. lastCharge' = "finished" => lastCharge = "finished"
        BY <1>1, <1>5
      <4>3. open => published' = "error"
        BY <1>5, <2>1, <3>1, <3>3, EmitOutcome, ChangeOutcome
        DEF Polled, First, EventInv, HeldWhileOpen
      <4>. QED
        BY <1>1, <1>5, <2>1, <3>1, <3>3, <4>1, <4>2, <4>3 DEF EventInv, HeldWhileOpen
    <3>. QED
      BY <3>2, <3>3
  <2>. QED
    BY <2>2, <2>3
<1>. QED
  BY <1>3, <1>4, <1>5

\* The latch counts the polls since power was last seen.
LEMMA PollKeepsLatch ==
    ASSUME EventInv, NEW marker, NEW flowing, NEW reading, Polled(marker, flowing, reading)
    PROVE  LatchCounts'
<1> USE KindsAreApart, TransitionAssumption
<1>1. /\ UNCHANGED firmware /\ Normalize(marker, flowing) /\ (marker => firmware = "modern")
      /\ sincePower' = IF Reported # "connected" THEN None
                       ELSE IF flowing THEN 0
                       ELSE IF sincePower \in 0 .. GracePolls THEN sincePower + 1 ELSE sincePower
  BY DEF Polled, chargerVars, Watch
<1>2. modernSeen' => firmware' = "modern"
  BY <1>1 DEF Normalize, EventInv, LatchCounts
<1>3. zeroPolls \in Nat /\ sincePower \in Nat \cup {None}
  BY DEF EventInv, LatchCounts
<1>4. sincePower' \in Nat \cup {None}
  BY <1>1, <1>3
<1>5. zeroPolls' \in Nat
  <2>1. UNCHANGED zeroPolls \/ zeroPolls' = 0 \/ zeroPolls' = zeroPolls + 1
    BY <1>1 DEF Normalize, Translate, ResetLatch
  <2>. QED
    BY <1>3, <2>1
<1>6. ASSUME firmware = "legacy"
      PROVE  /\ latched' => sincePower' = zeroPolls' /\ zeroPolls' <= GracePolls
             /\ ~latched' => sincePower' \notin 0 .. GracePolls
             /\ published' = "charging" => latched'
             /\ published' = "connected" => ~latched'
  <2>1. Translate(flowing)
    BY <1>1, <1>2, <1>6 DEF Normalize, Polled
  <2>2. /\ latched => sincePower = zeroPolls /\ zeroPolls <= GracePolls
        /\ ~latched => sincePower \notin 0 .. GracePolls
    BY <1>6 DEF EventInv, LatchCounts
  <2>3. CASE Reported = "connected" /\ flowing
    BY <1>1, <2>1, <2>3 DEF Translate
  <2>4. CASE Reported = "connected" /\ ~flowing /\ latched /\ zeroPolls < GracePolls
    BY <1>1, <1>3, <2>1, <2>2, <2>4 DEF Translate
  <2>5. CASE Reported = "connected" /\ ~flowing /\ ~(latched /\ zeroPolls < GracePolls)
    <3>1. ~latched' /\ published' = "connected"
      BY <2>1, <2>5 DEF Translate, ResetLatch
    <3>2. sincePower' \notin 0 .. GracePolls
      BY <1>1, <1>3, <2>2, <2>5
    <3>. QED
      BY <3>1, <3>2
  <2>6. CASE Reported # "connected"
    <3>1. ~latched' /\ published' # "charging" /\ sincePower' = None
      BY <1>1, <1>6, <2>1, <2>6 DEF Translate, ResetLatch, Reported
    <3>. QED
      BY <3>1
  <2>. QED
    BY <2>3, <2>4, <2>5, <2>6
<1>. QED
  BY <1>1, <1>2, <1>4, <1>5, <1>6 DEF LatchCounts

\* A good poll keeps the whole invariant.
LEMMA GoodPollKeepsInv == EventInv /\ GoodPoll => EventInv'
<1> SUFFICES ASSUME EventInv, GoodPoll PROVE EventInv'
  OBVIOUS
<1>1. PICK marker, flowing, reading : Polled(marker, flowing, reading)
  BY GoodPollOutcome
<1>2. ChargerIsCounted'
  BY <1>1 DEF Polled, chargerVars, EventInv, ChargerIsCounted
<1>. QED
  BY <1>1, <1>2, PollKeepsPrev, PollKeepsPayload, PollKeepsLatch DEF EventInv

\* Every step keeps the invariant.
LEMMA EventInvNext == EventInv /\ [Next]_vars => EventInv'
<1>1. EventInv /\ UNCHANGED vars => EventInv'
  BY DEF vars, EventInv, chargerVars, legacyVars, eventVars, ghostVars, ChargerIsCounted,
         PrevIsLast, SameKind, PayloadIsSeen, HeldWhileOpen, LatchCounts, MarkerMayDrop
<1>. QED
  BY <1>1, ChargerKeepsInv, GapKeepsInv, GoodPollKeepsInv DEF Next

\* What the coordinator remembers between polls agrees with what it polled, in every reachable
\* state.
THEOREM EventInvHolds == Spec => []EventInv
BY EventInvInit, EventInvNext, PTL DEF Spec

-------------------------------------------------------------------------------
(* The events.                                                             *)

\* Only a good poll fires events or finds anything out.
LEMMA OnlyPollsFire == Next /\ ~GoodPoll => events' = {} /\ (stretch' => last' = last)
BY DEF Next, ghostVars, Moves, Deliver, Unplug, Plug, Quiet, BadPoll, BeginUnload, Restart,
       Forgotten

\* Events are fired by a good poll that changed the state, or its fault's code.
LEMMA FiredOutcome ==
    ASSUME EventInv, Next, events' # {}
    PROVE  \E marker, flowing, reading :
              /\ Polled(marker, flowing, reading)
              /\ ~First /\ published' \in States
              /\ \/ Change(published', reading)
                 \/ events' = {"error"} /\ published' = "error"
<1>1. PICK marker, flowing, reading : Polled(marker, flowing, reading)
  BY OnlyPollsFire, GoodPollOutcome
<1>2. /\ ~First /\ published' \in States
      /\ \/ Change(published', reading)
         \/ events' = {"error"} /\ published' = "error"
  BY <1>1, EmitOutcome DEF Polled, Remember, Persist
<1>. QED
  BY <1>1, <1>2

\* Nothing is fired by the first good poll after a gap.
LEMMA NoEventAcrossAGap == EventInv /\ Next /\ events' # {} => stretch /\ ~shuttingDown
BY FiredOutcome DEF First, EventInv, PrevIsLast

\* A fault whose code is new since the last nameable poll is told by the poll that finds it.
LEMMA NewFaultIsTold ==
    ASSUME EventInv, Next, stretch, stretch', ~shuttingDown,
           last'.state = "error", last'.code # last.code
    PROVE  "error" \in events'
<1> USE KindsAreApart
<1>1. PICK marker, flowing, reading : Polled(marker, flowing, reading)
  BY OnlyPollsFire, GoodPollOutcome
<1>2. published' \in States /\ condition = "error" /\ published' = "error" /\ last'.code = code
  BY <1>1, NormalizeOutcome DEF Polled, Watch, CodeNow
<1>3. ~First
  BY DEF First, EventInv, PrevIsLast
<1>4. CASE prevState = "error"
  <2>1. Persist("error", reading) /\ prevCode = last.code
    BY <1>1, <1>2, <1>3, <1>4, EmitOutcome DEF Polled, EventInv, PrevIsLast
  <2>. QED
    BY <1>2, <2>1 DEF Persist
<1>5. CASE prevState # "error"
  BY <1>1, <1>2, <1>3, <1>5, EmitOutcome, ChangeOutcome DEF Polled
<1>. QED
  BY <1>4, <1>5

\* A plug event is a plug that changed between the two polls, unless the charger was starting.
LEMMA PlugEventIsTrue ==
    ASSUME EventInv, Next, "startup" \notin {last.state, last'.state}
    PROVE  /\ "connected" \in events' => plugged /\ ~last.plugged
           /\ "disconnected" \in events' => ~plugged /\ last.plugged
<1> USE KindsAreApart
<1>1. SUFFICES ASSUME events' \cap {"connected", "disconnected"} # {}
               PROVE  /\ "connected" \in events' => plugged /\ ~last.plugged
                      /\ "disconnected" \in events' => ~plugged /\ last.plugged
  OBVIOUS
<1>2. PICK marker, flowing, reading :
          /\ Polled(marker, flowing, reading)
          /\ ~First /\ published' \in States /\ Change(published', reading)
  BY <1>1, FiredOutcome
<1>3. /\ SameKind(published', condition) /\ SameKind(prevState, last.state)
      /\ (condition \in PluggedStates => plugged) /\ (condition = "standby" => ~plugged)
      /\ (last.state \in PluggedStates => last.plugged) /\ (last.state = "standby" => ~last.plugged)
      /\ condition \in States /\ prevState \in States /\ last'.state = condition
  BY <1>2, NormalizeOutcome
  DEF Polled, Watch, First, EventInv, ChargerIsCounted, Possible, PrevIsLast
<1>. QED
  BY <1>2, <1>3, ChangeOutcome DEF SameKind

\* Events tell what happened between two good polls of one stretch, and all faults of it; none
\* is made up across a gap, and none is fired once unload began (_emit_transition_events).
THEOREM EventsTellWhatWasSeen == Spec => EventsAreSeen
<1>1. EventInv /\ [Next]_vars => [events' # {} => stretch]_vars
  BY NoEventAcrossAGap
<1>2. EventInv /\ [Next]_vars =>
          [ /\ stretch /\ stretch' /\ ~shuttingDown
            /\ last'.state = "error" /\ last'.code # last.code
            => "error" \in events' ]_vars
  BY NewFaultIsTold
<1>3. EventInv /\ [Next]_vars =>
          [ "startup" \notin {last.state, last'.state} =>
            /\ "connected" \in events' => plugged /\ ~last.plugged
            /\ "disconnected" \in events' => ~plugged /\ last.plugged ]_vars
  BY PlugEventIsTrue
<1>4. EventInv /\ [Next]_vars => [shuttingDown => events' = {}]_vars
  BY NoEventAcrossAGap
<1>. QED
  BY <1>1, <1>2, <1>3, <1>4, EventInvHolds, PTL
  DEF Spec, EventsAreSeen, GapIsSilent, FaultsAreTold, PlugEventsAreTrue, SilentAfterUnload

\* A charge finishes only while its payload is held.
LEMMA FinishNeedsAPayload ==
    ASSUME EventInv, Next, "finished" \in events'
    PROVE  \E marker, flowing, reading :
              /\ Polled(marker, flowing, reading)
              /\ payload # NoPayload /\ ~shuttingDown /\ summary' = Final(payload, reading)
<1>1. PICK marker, flowing, reading :
          /\ Polled(marker, flowing, reading)
          /\ ~First /\ published' \in States /\ Change(published', reading)
  BY FiredOutcome
<1>2. payload # NoPayload /\ summary' = Final(payload, reading) /\ ~shuttingDown
  BY <1>1, ChangeOutcome DEF First
<1>. QED
  BY <1>1, <1>2

\* Every charge that was seen is finished, by the first poll that finds neither a charge nor a
\* fault, and once; and on firmware 1.x a charge is seen while power flows and GracePolls polls
\* longer, no more and no less.
THEOREM ChargesFinishOnce == Spec => EveryChargeFinishesOnce
<1>1. EventInv /\ [Next]_vars =>
          [~("finished" \in events' /\ lastCharge = "finished")]_vars
  BY FinishNeedsAPayload DEF EventInv, HeldWhileOpen
<1>2. EventInv' => NoChargeLeftOpen' /\ LatchFollowsPower'
  BY DEF EventInv, HeldWhileOpen, NoChargeLeftOpen, LatchFollowsPower, ShortPauseIsBridged,
         LatchCounts, MarkerMayDrop
<1>. QED
  BY <1>1, <1>2, EventInvHolds, PTL DEF Spec, EveryChargeFinishesOnce, FinishedOnce

\* The summary is no less than the charge's last charging poll read, no more than the plug-ins
\* since took, and one of the two polls' figures while the counter stands (_final).
THEOREM SummaryIsTrue == Spec => SummaryIsTheCharges
<1>1. EventInv /\ [Next]_vars =>
          [ "finished" \in events' =>
            /\ summary' >= seen.energy
            /\ \E p \in seen.plugIn .. plugIn : summary' <= delivered[p]
            /\ plugged /\ plugIn = seen.plugIn => summary' \in {seen.energy, energy} ]_vars
  <2> SUFFICES ASSUME EventInv, Next, "finished" \in events'
               PROVE  /\ summary' >= seen.energy
                      /\ \E p \in seen.plugIn .. plugIn : summary' <= delivered[p]
                      /\ summary' \in {seen.energy, energy}
    OBVIOUS
  <2>1. PICK reading \in {energy, None} :
            payload # NoPayload /\ summary' = Final(payload, reading)
    BY FinishNeedsAPayload DEF Polled
  <2>2. /\ seen.energy = payload /\ payload \in Nat \cup {None} /\ seen.plugIn \in 1 .. plugIn
        /\ plugIn \in Nat /\ payload <= delivered[seen.plugIn]
        /\ energy \in Nat /\ energy <= delivered[plugIn]
    BY <2>1, TransitionAssumption DEF EventInv, PayloadIsSeen, ChargerIsCounted
  <2>3. CASE summary' = payload
    BY <2>2, <2>3
  <2>4. CASE summary' = reading /\ reading > payload
    BY <2>1, <2>2, <2>4
  <2>. QED
    BY <2>1, <2>3, <2>4 DEF Final
<1>. QED
  BY <1>1, EventInvHolds, PTL DEF Spec, SummaryIsTheCharges
===============================================================================
