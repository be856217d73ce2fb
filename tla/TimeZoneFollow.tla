---------------------------- MODULE TimeZoneFollow ----------------------------
(***************************************************************************)
(* The charger's time zone and its two writers: TimeZoneFollower, which    *)
(* moves it to Home Assistant's offset while the Follow HA Time Zone       *)
(* switch is on, and the Time Zone select, for the user, while it is off.  *)
(*                                                                         *)
(* A write waits its turn, is vetoed by its preflight before any attempt,  *)
(* is lost, retried and given up: what CommandManager.send_command does.   *)
(* Home Assistant's offset moves with daylight saving; "half" stands for   *)
(* one the charger cannot hold.                                            *)
(* A definition called Name_Fault is a faulty variant of Name, kept to     *)
(* show that the properties notice it; nothing else uses it.               *)
(***************************************************************************)
EXTENDS Naturals

CONSTANTS
    Hours,         \* the whole-hour offsets
    FollowPolls,   \* TIME_ZONE_FOLLOW_POLLS
    RetryPolls,    \* TIME_ZONE_FOLLOW_RETRY_POLLS
    Retries        \* _COMMAND_RETRY_ATTEMPTS

ASSUME FollowAssumption ==
    /\ FollowPolls \in Nat \ {0}
    /\ RetryPolls \in Nat
    /\ Retries \in Nat

None == "none"
Half == "half"
ASSUME OffsetAssumption == {None, Half, "idle"} \cap Hours = {}

Writers == {"follow", "manual"}

VARIABLES
    following,     \* CONF_FOLLOW_HA_TIME_ZONE
    home,          \* Home Assistant's offset
    charger,       \* the charger's
    asked,         \* what the poll under way will read: None when the reply lacks it
    answering,     \* available and last_update_success
    differing,     \* _differing_polls; over FollowPolls it makes no difference
    toWait,        \* _polls_to_wait
    stage,         \* where each writer's command is
    hours,         \* what it writes
    tries          \* its failed attempts

zonePollVars == <<asked, answering>>
followVars == <<differing, toWait>>
writeVars == <<stage, hours, tries>>
zoneVars == <<following, home, charger, zonePollVars, followVars, writeVars>>

CountUp(n, bound) == IF n < bound THEN n + 1 ELSE bound

Sending == stage["follow"] # "idle"
WireFree == \A w \in Writers : stage[w] \in {"idle", "queued"}

ZoneInit ==
    /\ following \in BOOLEAN
    /\ home \in Hours \cup {Half} /\ charger \in Hours
    /\ asked = "idle" /\ answering = TRUE
    /\ differing = 0 /\ toWait = 0
    /\ stage = [w \in Writers |-> "idle"]
    /\ hours = [w \in Writers |-> None]
    /\ tries = [w \in Writers |-> 0]

-------------------------------------------------------------------------------
(* The follower, after a poll.                                             *)

\* The reading says the charger is off Home Assistant's offset, which it could hold.
Differs(r) == home \in Hours /\ r # home

\* A write is due: wrong for long enough, and not tried a moment ago.
Decide(r) ==
    /\ Differs(r)
    /\ CountUp(differing, FollowPolls) = FollowPolls
    /\ toWait = 0

\* TimeZoneFollower.evaluate, for a reading that has the offset
Count(r) ==
    IF ~Differs(r)
    THEN differing' = 0 /\ toWait' = 0
    ELSE /\ differing' = CountUp(differing, FollowPolls)
         /\ toWait' = IF differing' < FollowPolls THEN toWait
                      ELSE IF toWait > 0 THEN toWait - 1 ELSE RetryPolls

Send(w, h) ==
    /\ stage' = [stage EXCEPT ![w] = "queued"]
    /\ hours' = [hours EXCEPT ![w] = h]
    /\ UNCHANGED tries

\* update_time_zone_follow
Follow(r) ==
    IF ~following
    THEN differing' = 0 /\ toWait' = 0 /\ UNCHANGED writeVars
    ELSE IF Sending \/ r = None
    THEN UNCHANGED <<followVars, writeVars>>
    ELSE /\ Count(r)
         /\ IF Decide(r) THEN Send("follow", home) ELSE UNCHANGED writeVars

AskZone ==
    /\ asked = "idle"
    /\ asked' \in {charger, None}
    /\ UNCHANGED <<following, home, charger, answering, followVars, writeVars>>

GoodPoll ==
    /\ asked # "idle"
    /\ asked' = "idle"
    /\ answering' = TRUE
    /\ Follow(asked)
    /\ UNCHANGED <<following, home, charger>>

BadPoll ==
    /\ asked # "idle"
    /\ asked' = "idle"
    /\ answering' = FALSE
    /\ UNCHANGED <<following, home, charger, followVars, writeVars>>

-------------------------------------------------------------------------------
(* The two writers.                                                        *)

\* EveusTimeZoneSelect.async_select_option
Choose(h) ==
    /\ ~following
    /\ stage["manual"] = "idle"
    /\ Send("manual", h)
    /\ UNCHANGED <<following, home, charger, zonePollVars, followVars>>

\* The preflights: still_due, and the select's.
Due(w) ==
    IF w = "manual" THEN ~following ELSE following /\ answering /\ home = hours[w]

Post(w) ==
    /\ stage[w] = "queued" /\ WireFree
    /\ Due(w)
    /\ stage' = [stage EXCEPT ![w] = "wire"]
    /\ UNCHANGED <<following, home, charger, zonePollVars, followVars, hours, tries>>

Land(w) ==
    /\ stage[w] = "wire"
    /\ stage' = [stage EXCEPT ![w] = "landed"]
    /\ charger' = hours[w]
    /\ UNCHANGED <<following, home, zonePollVars, followVars, hours, tries>>

Over(w) ==
    /\ hours' = [hours EXCEPT ![w] = None]
    /\ tries' = [tries EXCEPT ![w] = 0]
    /\ UNCHANGED <<following, home, charger, zonePollVars, followVars>>

Done_LeavesSending(w, ok) ==
    /\ stage' = [stage EXCEPT ![w] = IF w = "follow" /\ ~ok THEN "stuck" ELSE "idle"]
    /\ Over(w)

\* Answered or failed, the writer is free to send again: _write clears sending.
Done(w, ok) ==
    /\ stage' = [stage EXCEPT ![w] = "idle"]
    /\ Over(w)

Accepted(w) == stage[w] = "landed" /\ Done(w, TRUE)

Vetoed(w) == stage[w] = "queued" /\ WireFree /\ ~Due(w) /\ Done(w, FALSE)

Refused(w) == stage[w] = "wire" /\ Done(w, FALSE)

\* No answer: another attempt, after all others are made given up.
NoAnswer(w) ==
    /\ stage[w] \in {"wire", "landed"}
    /\ IF tries[w] < Retries
       THEN /\ stage' = [stage EXCEPT ![w] = "queued"]
            /\ tries' = [tries EXCEPT ![w] = @ + 1]
            /\ UNCHANGED <<following, home, charger, zonePollVars, followVars, hours>>
       ELSE Done(w, FALSE)

-------------------------------------------------------------------------------
(* The world.                                                              *)

SwitchFlips ==
    /\ following' = ~following
    /\ UNCHANGED <<home, charger, zonePollVars, followVars, writeVars>>

HomeMoves ==
    /\ home' \in (Hours \cup {Half}) \ {home}
    /\ UNCHANGED <<following, charger, zonePollVars, followVars, writeVars>>

ChargerMoves ==
    /\ charger' \in Hours \ {charger}
    /\ UNCHANGED <<following, home, zonePollVars, followVars, writeVars>>

WriteNext ==
    \/ \E h \in Hours : Choose(h)
    \/ \E w \in Writers :
          Post(w) \/ Land(w) \/ Accepted(w) \/ Vetoed(w) \/ Refused(w) \/ NoAnswer(w)

ZoneNext ==
    \/ AskZone \/ GoodPoll \/ BadPoll
    \/ WriteNext
    \/ SwitchFlips \/ HomeMoves \/ ChargerMoves

ZoneSpec == ZoneInit /\ [][ZoneNext]_zoneVars

(***************************************************************************)
(* Polls are made and end, a command gets its turn and an end, and of the  *)
(* writes that reach the charger again and again it takes some.            *)
(***************************************************************************)
ZoneFairSpec ==
    /\ ZoneSpec
    /\ WF_zoneVars(AskZone) /\ WF_zoneVars(GoodPoll \/ BadPoll)
    /\ \A w \in Writers :
          /\ WF_zoneVars(Post(w) \/ Vetoed(w))
          /\ WF_zoneVars(Land(w) \/ Accepted(w) \/ Refused(w) \/ NoAnswer(w))
    /\ SF_zoneVars(Land("follow"))

-------------------------------------------------------------------------------
\* While following stays on and nobody else moves it, the charger comes to Home
\* Assistant's offset and stays there, whatever writes were lost or refused before.
Settled ==
    /\ <>[](following /\ home \in Hours)
    /\ <>[][~HomeMoves /\ ~ChargerMoves /\ ~BadPoll]_zoneVars
    /\ <>[][GoodPoll => asked # None]_zoneVars

\* The charger is where it belongs, and no write is on its way that moves it.
Arrived ==
    /\ following /\ home \in Hours /\ charger = home
    /\ \A w \in Writers : stage[w] = "wire" => hours[w] = home

\* From then on no late poll, retried write or choice that the user made before
\* following was switched on takes it away (time_zone_follow.py:91-103, select.py:169-183).
ArrivalStands ==
    [][Arrived => Arrived' \/ SwitchFlips \/ HomeMoves \/ ChargerMoves]_zoneVars

FollowsHome == (Settled => <>[](charger = home)) /\ ArrivalStands
===============================================================================
