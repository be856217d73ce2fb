------------------------------ MODULE ReveSource ------------------------------
(***************************************************************************)
(* ReveApi's reading half and the polls that use it.  A REVE charger has   *)
(* two servers: GraphQL carries the live readings and the settings, but    *)
(* falls silent for minutes or refuses the settings alone; /main carries a *)
(* few fields of its own and a frozen session.  A poll asks GraphQL unless *)
(* it is backing off, and /main instead or for its own fields; settings    *)
(* and session stand for a while after GraphQL last gave them.             *)
(*                                                                         *)
(* Time passes in minutes between polls; a poll takes none.                *)
(***************************************************************************)
EXTENDS Integers

CONSTANTS
    MeasurementsRetry,  \* MEASUREMENTS_RETRY_SECONDS, and ADAPTIVE_MAIN_REFRESH_SECONDS
    Refresh,            \* EXTRAS_REFRESH, EXTRAS_RETRY and MAIN_RESIDUE_REFRESH_SECONDS
    Hold,               \* SESSION_HOLD_SECONDS
    MaxAge,             \* EXTRAS_MAX_AGE and MAIN_RESIDUE_MAX_AGE_SECONDS
    MaxSession          \* bound on the sessions of a behaviour

ASSUME SourceAssumption ==
    /\ {MeasurementsRetry, Refresh, Hold, MaxAge, MaxSession} \subseteq Nat
    /\ MeasurementsRetry <= Refresh /\ Refresh < MaxAge /\ Hold < MaxAge

VARIABLES
    car,        \* "out", "in" or "error", as the charger's state says
    charge,     \* number of the session
    graphql,    \* what GraphQL does: "answers", "refuses settings" or "silent"
    main,       \* what /main does: "answers", "fails" (an HTTP error) or "silent"
    api,        \* ReveApi's memory
    reveSeen,   \* _reve_seen
    payload,    \* what the last good poll showed
    over        \* for the properties: the last session that a poll saw ended

sourceVars == <<car, charge, graphql, main, api, reveSeen, payload, over>>

Never == -1
Capped(age) == IF age > MaxAge THEN MaxAge + 1 ELSE age

SourceInit ==
    /\ car = "out" /\ charge = 0
    /\ graphql = "answers" /\ main = "answers"
    /\ api = [fetchedAge |-> Never, retryIn |-> 0, measurementsRetryIn |-> 0,
              failureStreak |-> 0, settingsStreak |-> 0, answered |-> FALSE,
              triedAge |-> Never, residueAnswered |-> FALSE,
              session |-> Never, sessionAge |-> 0, sessionUnplugged |-> FALSE]
    /\ reveSeen = FALSE
    /\ payload = [source |-> "none", session |-> Never, settings |-> FALSE]
    /\ over = Never

-------------------------------------------------------------------------------
(* The charger and time.                                                   *)

CarMoves ==
    /\ \/ car = "out" /\ charge < MaxSession /\ car' = "in" /\ charge' = charge + 1
       \/ car = "in" /\ car' \in {"out", "error"} /\ UNCHANGED charge
       \/ car = "error" /\ car' \in {"out", "in"} /\ UNCHANGED charge
    /\ UNCHANGED <<graphql, main, api, reveSeen, payload, over>>

Servers ==
    /\ \/ graphql' \in {"answers", "refuses settings", "silent"} \ {graphql} /\ UNCHANGED main
       \/ main' \in {"answers", "fails", "silent"} \ {main} /\ UNCHANGED graphql
    /\ UNCHANGED <<car, charge, api, reveSeen, payload, over>>

Older(age) == IF age = Never THEN Never ELSE Capped(age + 1)
Sooner(wait) == IF wait = 0 THEN 0 ELSE wait - 1

Minute ==
    /\ api' = [api EXCEPT !.fetchedAge = Older(@), !.triedAge = Older(@), !.retryIn = Sooner(@),
                          !.sessionAge = IF @ > Hold THEN @ ELSE @ + 1,
                          !.measurementsRetryIn = Sooner(@)]
    /\ UNCHANGED <<car, charge, graphql, main, reveSeen, payload, over>>

-------------------------------------------------------------------------------
(* GraphQL reads.                                                          *)

\* _settings_due
SettingsDue(a) ==
    a.retryIn = 0 /\ (a.fetchedAge = Never \/ a.fetchedAge >= Refresh)

\* Nothing asks for more than API_DOWN_AFTER_FAILURES in a row.
Longer(streak) == IF streak = 2 THEN 2 ELSE streak + 1

\* _settings_failed
SettingsFailed(a) ==
    [a EXCEPT !.failureStreak = Longer(@), !.settingsStreak = Longer(@), !.retryIn = Refresh]

Store_KeepsStreak(a) ==
    [a EXCEPT !.fetchedAge = 0, !.retryIn = 0, !.failureStreak = 0, !.answered = TRUE]

\* _store
Store(a) ==
    [a EXCEPT !.fetchedAge = 0, !.retryIn = 0, !.failureStreak = 0, !.settingsStreak = 0,
              !.answered = TRUE]

\* refresh_if_due: the settings alone.
RefreshIfDue(a) ==
    IF ~SettingsDue(a) THEN a
    ELSE IF graphql = "answers" THEN Store(a) ELSE SettingsFailed(a)

\* What read_measurements asks for: the settings too, while they are not refused.
WithSettings(a) == a.settingsStreak = 0 /\ SettingsDue(a)

MeasurementsAnswer(a) ==
    graphql = "answers" \/ (graphql = "refuses settings" /\ ~WithSettings(a))

\* read_measurements that fails: one more miss, of the settings if they were asked for.
MeasurementsFailed(a) ==
    [(IF WithSettings(a) THEN SettingsFailed(a) ELSE [a EXCEPT !.failureStreak = Longer(@)])
        EXCEPT !.measurementsRetryIn = MeasurementsRetry]

\* read_measurements that succeeds.
Measured(a) ==
    [(IF WithSettings(a) THEN Store(a) ELSE a)
        EXCEPT !.failureStreak = 0, !.answered = TRUE,
               !.session = charge, !.sessionAge = 0, !.sessionUnplugged = (car = "out")]

Measurements(a) == IF MeasurementsAnswer(a) THEN Measured(a) ELSE MeasurementsFailed(a)

-------------------------------------------------------------------------------
(* /main reads.                                                            *)

\* keep_main_residue
KeepResidue(a) == [a EXCEPT !.triedAge = 0, !.residueAnswered = TRUE]

\* main_residue_due: sooner in an adaptive session, while /main answers.
ResidueDue(a, adaptive) ==
    \/ a.triedAge = Never \/ a.triedAge >= Refresh
    \/ adaptive /\ a.residueAnswered /\ a.triedAge >= MeasurementsRetry

\* main_residue_tried
ResidueTried(a) == [a EXCEPT !.triedAge = 0, !.residueAnswered = FALSE]

\* A poll that GraphQL measured, and /main's own fields when they are due.
FillIn(a, adaptive) ==
    IF ~ResidueDue(a, adaptive) THEN a
    ELSE IF main = "answers" THEN KeepResidue(a) ELSE ResidueTried(a)

FromMain_KeepsSession(a) == [KeepResidue(a) EXCEPT !.sessionUnplugged = (car = "out")]

\* from_main: a session held over an unplug that was seen is dropped.
FromMain(a) ==
    [KeepResidue(a) EXCEPT
        !.session = IF car = "in" /\ a.sessionUnplugged THEN Never ELSE @,
        !.sessionUnplugged = @ \/ car = "out"]

HeldSession(a) == IF a.sessionAge <= Hold THEN a.session ELSE Never

ExtrasStand(a) == a.fetchedAge \in 0 .. MaxAge     \* extras

-------------------------------------------------------------------------------
(* Polls.                                                                  *)

Shows(source, session, a) ==
    payload' = [source |-> source, session |-> session, settings |-> ExtrasStand(a)]

Observes == over' = IF car = "out" THEN charge ELSE over

\* _read_reve_measurements answers.
PollGraphql ==
    /\ reveSeen /\ api.measurementsRetryIn = 0 /\ MeasurementsAnswer(api)
    /\ \E adaptive \in {car = "in", FALSE} :
          LET filled == FillIn(Measured(api), adaptive)
          IN  api' = RefreshIfDue(filled) /\ Shows("graphql", charge, api')
    /\ Observes
    /\ UNCHANGED <<car, charge, graphql, main, reveSeen>>

\* What a poll that turns to /main has asked GraphQL first.
AskedGraphql(a) ==
    IF reveSeen /\ a.measurementsRetryIn = 0 THEN MeasurementsFailed(a) ELSE a

TurnsToMain == ~(reveSeen /\ api.measurementsRetryIn = 0 /\ MeasurementsAnswer(api))

\* /main of a charger known to be REVE.
PollMain ==
    /\ reveSeen /\ TurnsToMain /\ main = "answers"
    /\ LET a == FromMain(AskedGraphql(api))
       IN  api' = RefreshIfDue(a) /\ Shows("main", HeldSession(a), api')
    /\ Observes
    /\ UNCHANGED <<car, charge, graphql, main, reveSeen>>

\* The poll that recognises REVE from /main asks GraphQL next, _first_reve_measurements.
PollFirst ==
    /\ ~reveSeen /\ main = "answers"
    /\ reveSeen' = TRUE
    /\ LET a == FromMain(api)
       IN  /\ api' = RefreshIfDue(Measurements(a))
           /\ IF MeasurementsAnswer(a)
              THEN Shows("graphql", charge, api') ELSE Shows("main", HeldSession(a), api')
    /\ Observes
    /\ UNCHANGED <<car, charge, graphql, main>>

\* A charger never seen whose /main is an error may be a REVE, _reve_without_main.
PollWithoutMain ==
    /\ ~reveSeen /\ main = "fails"
    /\ LET a == ResidueTried(api)
       IN  IF MeasurementsAnswer(a)
           THEN /\ api' = RefreshIfDue(Measured(a)) /\ Shows("graphql", charge, api')
                /\ reveSeen' = TRUE /\ Observes
           ELSE api' = MeasurementsFailed(a) /\ UNCHANGED <<reveSeen, payload, over>>
    /\ UNCHANGED <<car, charge, graphql, main>>

\* Neither answers: the poll fails.
PollUnanswered ==
    /\ TurnsToMain /\ main # "answers" /\ (reveSeen \/ main = "silent")
    /\ api' = AskedGraphql(api)
    /\ UNCHANGED <<car, charge, graphql, main, reveSeen, payload, over>>

PollSources == PollGraphql \/ PollMain \/ PollFirst \/ PollWithoutMain \/ PollUnanswered

SourceNext == CarMoves \/ Servers \/ Minute \/ PollSources

\* Polls and time go on, whatever the servers do.
SourceSpec ==
    SourceInit /\ [][SourceNext]_sourceVars /\ WF_sourceVars(Minute) /\ WF_sourceVars(PollSources)

-------------------------------------------------------------------------------
\* answering, what the REVE API sensor shows.
Answering == api.failureStreak < 2 /\ api.settingsStreak < 2 /\ api.answered

\* No poll that finds a car shows the session of a charge that a poll had seen end, though
\* /main's session is frozen, GraphQL's is held over its silences, and cars come and go.
SessionIsNotOver ==
    [][ (PollGraphql \/ PollMain \/ PollFirst) /\ car = "in" /\ payload'.session # Never
        => payload'.session > over ]_sourceVars

\* Whatever silences and refusals came before: once GraphQL answers for good, the REVE API
\* sensor is on for good, and polls show its readings and settings that stand again and
\* again, whether or not /main answers.
GraphqlRecovers ==
    <>[](graphql = "answers" /\ reveSeen)
    => <>[]Answering /\ []<>(ExtrasStand(api) /\ payload.source = "graphql" /\ payload.settings)

===============================================================================
