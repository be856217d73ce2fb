------------------------------- MODULE Tariffs ------------------------------
(* The windows of a day, of a tariff or a schedule: which one is open, whether *)
(* two share a minute, and where the next edge is.                             *)
EXTENDS Integers, FiniteSetsExt

CONSTANT Day        \* minutes of a day

ASSUME DayAssumption == Day \in Nat \ {0}

Spans == [start : 0 .. Day - 1, stop : 0 .. Day - 1]

\* _in_window
InWindow(minute, span) ==
    IF span.start < span.stop THEN span.start <= minute /\ minute < span.stop
    ELSE minute >= span.start \/ minute < span.stop

Overlap(a, b) == InWindow(a.start, b) \/ InWindow(b.start, a)

\* Rate 2 is looked at first.
IndexAt(minute, windows) ==
    LET open == {i \in DOMAIN windows : InWindow(minute % Day, windows[i])}
    IN  IF open = {} THEN 0 ELSE Min(open)

\* The next edge today, or the first one tomorrow.
NextEdge(now, edges) ==
    LET later == {e \in edges : e > now % Day}
    IN  (now \div Day) * Day + (IF later # {} THEN Min(later) ELSE Min(edges) + Day)

EdgesOf(windows) == UNION {{windows[i].start, windows[i].stop} : i \in DOMAIN windows}

\* A plausible bug: windows that overlap are priced all the same.
Trusts_Overlapping(minute, active, windows) ==
    /\ \A i \in DOMAIN windows : windows[i].start # windows[i].stop
    /\ IndexAt(minute, windows) = active

Trusts(minute, active, windows) ==
    /\ \A i \in DOMAIN windows : windows[i].start # windows[i].stop
    /\ \A i, j \in DOMAIN windows : i # j => ~Overlap(windows[i], windows[j])
    /\ IndexAt(minute, windows) = active

----------------------------------------------------------------------------
(* Of the properties                                                          *)

\* The minutes of a window, counted one by one.
MinutesOf(span) == {(span.start + k) % Day : k \in 0 .. ((span.stop - span.start) % Day) - 1}

\* No window is empty and none shares a minute with another.
Clear(spans) ==
    /\ \A i \in DOMAIN spans : MinutesOf(spans[i]) # {}
    /\ \A i, j \in DOMAIN spans : i # j => MinutesOf(spans[i]) \cap MinutesOf(spans[j]) = {}
=============================================================================
