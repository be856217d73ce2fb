------------------------------ MODULE MCListeners ------------------------------
(* What EveusUpdater drives on every poll besides its own state, one at a time:  *)
(* the safety manager, the time zone follower, the meter guard and a select      *)
(* share nothing but the polls, which each of them takes in every order.         *)
EXTENDS MCSafetyNotices, TimeZoneFollow, MeterGuard, SelectDisplay

CONSTANTS counter

VARIABLE part

\* Two offsets besides the one the charger cannot hold.
TwoHours == {"one", "two"}

\* The guard treats every meter by itself.
JustCounter == {counter}

Init ==
    /\ part \in {"safety", "time zone", "meters", "select"}
    /\ SafetyInit /\ ZoneInit /\ MeterInit /\ SelectInit
    /\ part # "safety" => policy = RelayFault /\ serialised /\ signals.fault = "other"
    /\ part # "select" => setting = "Off" /\ held = Unset
    /\ part # "time zone" => ~following /\ home = Half /\ charger = "one"

Next ==
    /\ UNCHANGED part
    /\ \/ part = "safety" /\ SafetyNext /\ UNCHANGED <<zoneVars, meterVars, selectVars>>
       \/ part = "time zone" /\ ZoneNext /\ UNCHANGED <<safetyVars, meterVars, selectVars>>
       \/ part = "meters" /\ MeterNext /\ UNCHANGED <<safetyVars, zoneVars, selectVars>>
       \/ part = "select" /\ SelectNext /\ UNCHANGED <<safetyVars, zoneVars, meterVars>>

SafetyRest == part = "safety" /\ UNCHANGED <<part, zoneVars, meterVars, selectVars>>
ZoneRest == part = "time zone" /\ UNCHANGED <<part, safetyVars, meterVars, selectVars>>
MeterRest == part = "meters" /\ UNCHANGED <<part, safetyVars, zoneVars, selectVars>>
SelectRest == part = "select" /\ UNCHANGED <<part, safetyVars, zoneVars, meterVars>>

\* The fairness of SafetyFairSpec, ZoneFairSpec, MeterFairSpec and SelectFairSpec.
FairSpec ==
    /\ Init /\ [][Next]_<<part, safetyVars, zoneVars, meterVars, selectVars>>
    /\ WF_safetyVars(SafetyRest /\ Poll(signals))
    /\ WF_safetyVars(SafetyRest /\ NewManager)
    /\ WF_zoneVars(ZoneRest /\ AskZone)
    /\ WF_zoneVars(ZoneRest /\ (GoodPoll \/ BadPoll))
    /\ \A w \in Writers :
          /\ WF_zoneVars(ZoneRest /\ (Post(w) \/ Vetoed(w)))
          /\ WF_zoneVars(ZoneRest /\ (Land(w) \/ Accepted(w) \/ Refused(w) \/ NoAnswer(w)))
    /\ SF_zoneVars(ZoneRest /\ Land("follow"))
    /\ WF_meterVars(MeterRest /\ AskPoll)
    /\ SF_meterVars(MeterRest /\ Answer)
    /\ SF_meterVars(MeterRest /\ FinishPoll)
    /\ WF_meterVars(MeterRest /\ SaveIntervalPasses)
    /\ WF_meterVars(MeterRest /\ WriteDelayed)
    /\ WF_selectVars(SelectRest /\ Polls)
    /\ WF_selectVars(SelectRest /\ (Answered \/ Unanswered))
    /\ WF_selectVars(SelectRest /\ TimePasses)
    /\ WF_selectVars(SelectRest /\ (Succeeds \/ Declined))
===============================================================================
