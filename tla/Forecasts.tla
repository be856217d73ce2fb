------------------------------ MODULE Forecasts ------------------------------
(* What reaching the target takes and costs: the SOC arithmetic that four     *)
(* sensors and the SOC limit share, and the tariff and schedule windows that  *)
(* the remaining energy is priced over.  These are pure functions: a step     *)
(* asks one question, and the answers are compared with a bill made up minute *)
(* by minute.                                                                 *)
(*                                                                            *)
(* A day has Day minutes, power is energy per minute; battery energy is       *)
(* counted in hundredths of a kWh, as the code rounds it.                     *)
EXTENDS SocForecast, Tariffs, Sequences, Functions

CONSTANTS
    Quarter,        \* the grid that a schedule estimate starts on
    Rates,          \* <<primary rate, rate 2, rate 3>>
    Powers,         \* what the charger draws
    Amounts,        \* energy to price
    ScheduleAmounts

VARIABLE query

NoQuery == [kind |-> "none"]
NoPrice == -1

RateOf(index) == Rates[index + 1]

----------------------------------------------------------------------------
(* Tariffs                                                                    *)

RECURSIVE WalkTariffs(_, _, _, _)
WalkTariffs(left, power, now, windows) ==
    IF left <= 0 THEN 0
    ELSE LET edge == NextEdge(now, EdgesOf(windows))
             drawn == Min({left, (edge - now) * power})
         IN  drawn * RateOf(IndexAt(now, windows)) + WalkTariffs(left - drawn, power, edge, windows)

\* What whole days cost; a window adds what its rate differs by.
DayRate(windows) ==
    Day * RateOf(0) +
    FoldFunction(+, 0,
        [i \in DOMAIN windows |->
            ((windows[i].stop - windows[i].start) % Day) * (RateOf(i) - RateOf(0))])

\* price_energy_over_tariffs
PriceOverTariffs(energy, power, minute, active, windows) ==
    IF power = 0 \/ ~Trusts(minute, active, windows) THEN NoPrice
    ELSE IF DOMAIN windows = {} THEN energy * RateOf(0)
    ELSE LET left == energy % (power * Day)
         IN  ((energy - left) * DayRate(windows)) \div Day
                 + WalkTariffs(left, power, minute, windows)

----------------------------------------------------------------------------
(* Schedules                                                                  *)

PowerAt(minute, schedules) ==
    LET open == {i \in DOMAIN schedules : InWindow(minute % Day, schedules[i])}
    IN  IF open = {} THEN 0 ELSE schedules[Min(open)].power

AllEdges(schedules, windows) == EdgesOf(schedules) \cup EdgesOf(windows)

\* `segments`, what they deliver and cost, up to the energy left.
RECURSIVE WalkSchedules(_, _, _, _, _)
WalkSchedules(left, now, until, schedules, windows) ==
    IF left <= 0 \/ now >= until THEN [energy |-> 0, cost |-> 0]
    ELSE LET end == Min({until, NextEdge(now, AllEdges(schedules, windows))})
             drawn == Min({left, (end - now) * PowerAt(now, schedules)})
             rest == WalkSchedules(left - drawn, end, until, schedules, windows)
         IN  [energy |-> drawn + rest.energy,
              cost |-> drawn * RateOf(IndexAt(now, windows)) + rest.cost]

\* price_energy_in_schedules: whole days together, the rest edge by edge.
PriceInSchedules(energy, minute, active, windows, schedules) ==
    IF \/ schedules = <<>>
       \/ \E i \in DOMAIN schedules :
             schedules[i].start = schedules[i].stop \/ schedules[i].power = 0
       \/ \E i, j \in DOMAIN schedules : i < j /\ Overlap(schedules[i], schedules[j])
       \/ PriceOverTariffs(1, 1, minute, active, windows) = NoPrice
    THEN NoPrice
    ELSE LET most == Day * Max(Powers)
             oneDay == WalkSchedules(most, 0, Day, schedules, windows)
             days == energy \div oneDay.energy
         IN  days * oneDay.cost
                 + WalkSchedules(energy - days * oneDay.energy, minute, minute + 2 * Day,
                                 schedules, windows).cost

----------------------------------------------------------------------------
\* CostToTargetSocSensor: a running charge over the tariffs, a waiting one in its
\* schedules, and anything else - One Charge, manual mode, a Stop, a schedule
\* REVE alone knows - at the active rate.
WindowedCost(q) ==
    IF q.mode = "charging" THEN PriceOverTariffs(q.energy, q.power, q.minute, q.active, q.windows)
    ELSE NoPrice

ScheduledCost(q) ==
    IF q.mode = "waiting"
    THEN PriceInSchedules(q.energy, (q.minute \div Quarter) * Quarter, q.active, q.windows,
                          q.schedules)
    ELSE NoPrice

CostToTarget(q) ==
    IF q.energy = 0 THEN 0
    ELSE IF WindowedCost(q) # NoPrice THEN WindowedCost(q)
    ELSE IF ScheduledCost(q) # NoPrice THEN ScheduledCost(q)
    ELSE q.energy * RateOf(q.active)

WindowsOver(indexes) == UNION {[s -> Spans] : s \in SUBSET indexes}

ScheduleSpans(powers) == [start : 0 .. Day - 1, stop : 0 .. Day - 1, power : powers]

PriceQueries ==
    [kind : {"price"}, mode : {"charging", "held"}, energy : Amounts, power : Powers,
     minute : 0 .. Day - 1, active : 0 .. 2, windows : WindowsOver({1, 2}), schedules : {<<>>}]

ScheduleQueries ==
    [kind : {"price"}, mode : {"waiting"}, energy : ScheduleAmounts, power : {0},
     minute : 0 .. Day - 1, active : 0 .. 1, windows : WindowsOver({1}),
     schedules : {<<>>} \cup {<<s>> : s \in ScheduleSpans(Powers)} \cup
                 (ScheduleSpans(Powers \ {0}) \X ScheduleSpans({Max(Powers)}))]

ForecastInit == query = NoQuery

AsksSoc == query = NoQuery /\ query' \in SocQueries
AsksPrice == query = NoQuery /\ query' \in PriceQueries
AsksSchedule == query = NoQuery /\ query' \in ScheduleQueries

ForecastNext == AsksSoc \/ AsksPrice \/ AsksSchedule

ForecastSpec == ForecastInit /\ [][ForecastNext]_query

----------------------------------------------------------------------------
(* Properties                                                                 *)

\* What is billed when each minute of the charge is paid at the rate then in force.
RECURSIVE Bill(_, _, _, _)
Bill(energy, minute, power, rate) ==
    IF energy = 0 THEN 0
    ELSE LET drawn == Min({energy, power[minute % Day]})
         IN  drawn * rate[minute % Day] + Bill(energy - drawn, minute + 1, power, rate)

Owner(minute, spans) == {i \in DOMAIN spans : minute \in MinutesOf(spans[i])}

\* A forecast is the bill: where the charger's own active rate and clear windows
\* leave no doubt, the price is what a charge pays that draws minute by minute,
\* past midnight and over whole days, within its schedules while it waits for
\* them; in doubt it is the active rate's (ev_sensors.py:609-707, utils.py:560-706).
PricedAsBilled ==
    query.kind = "price" =>
        LET start == IF query.mode = "waiting" THEN (query.minute \div Quarter) * Quarter
                     ELSE query.minute
            index == [m \in 0 .. Day - 1 |->
                        IF Owner(m, query.windows) = {} THEN 0 ELSE Min(Owner(m, query.windows))]
            rate == [m \in 0 .. Day - 1 |-> RateOf(index[m])]
            power == [m \in 0 .. Day - 1 |->
                        IF query.mode = "charging" THEN query.power
                        ELSE IF Owner(m, query.schedules) = {} THEN 0
                        ELSE query.schedules[Min(Owner(m, query.schedules))].power]
            certain == /\ query.mode # "held"
                       /\ Clear(query.windows) /\ index[start] = query.active
                       /\ IF query.mode = "charging" THEN query.power > 0
                          ELSE /\ query.schedules # <<>> /\ Clear(query.schedules)
                               /\ \A i \in DOMAIN query.schedules : query.schedules[i].power > 0
        IN  CostToTarget(query) = IF certain THEN Bill(query.energy, start, power, rate)
                                  ELSE query.energy * RateOf(query.active)

\* What is asked of the battery reaches the target, and no sensor says otherwise.
EnergyReachesTarget == query.kind = "soc" => ReachesTarget(query)

\* Price, energy and target fit each other.
ForecastsAreTrue == PricedAsBilled /\ EnergyReachesTarget
=============================================================================
