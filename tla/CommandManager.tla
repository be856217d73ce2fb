---------------------------- MODULE CommandManager ----------------------------
(***************************************************************************)
(* common_command.CommandManager.send_command with the part of             *)
(* EveusUpdater.send_command around it: what one write to the charger goes *)
(* through between the caller and the wire.  The lock is PriorityLock; the *)
(* critical section paces commands, runs the caller's preflight before     *)
(* every attempt, re-checks shutdown, posts, and retries transient         *)
(* failures after a backoff.                                               *)
(*                                                                         *)
(* Every call is one send_command invocation.  The charger applies a       *)
(* request some time before its reply is read, or applies it and the reply *)
(* is lost.  The count of failed commands, which only diagnostics and the  *)
(* log read, is left out.                                                  *)
(*                                                                         *)
(* A definition called Name_Fault is a faulty variant of Name, kept to     *)
(* show that the properties notice it; nothing else uses it.               *)
(***************************************************************************)
EXTENDS PriorityLock

CONSTANTS GuardedCalls,  \* calls that pass a preflight
          ReveCalls,     \* calls whose command has a REVE GraphQL route
          OneShotCalls,  \* calls with retry=False (a counter reset)
          Retries        \* _COMMAND_RETRY_ATTEMPTS

ASSUME CommandAssumption ==
    /\ GuardedCalls \subseteq Calls
    /\ ReveCalls \subseteq Calls
    /\ OneShotCalls \subseteq Calls
    /\ Retries \in Nat

VARIABLES
    phase,          \* where each call is in the critical section
    attempt,        \* failed attempts so far, per call
    applied,        \* how often the charger carried out each call
    result,         \* how each call ended
    told,           \* last_failure as the ended call's caller reads it
    due,            \* what each call's preflight answers now
    lastCommand,    \* age of _last_command_time against the 1 s spacing
    lastFailure,    \* _last_failure
    graphqlWrite,   \* _graphql_write
    reveSeen,       \* the coordinator's sticky _reve_seen
    shuttingDown,   \* the coordinator's _shutting_down
    quiet           \* a second has passed since a request was last on the wire

sendVars == <<phase, attempt, applied, result, told>>
managerVars == <<lastCommand, lastFailure, graphqlWrite>>
worldVars == <<due, reveSeen, shuttingDown>>
vars == <<lockVars, sendVars, managerVars, worldVars, quiet>>

Phase == {"out", "pacing", "posted", "answering", "backoff"}
Result == {"none", "accepted", "failed", "unauthorized", "vetoed", "refused", "cancelled"}
Failure == {"none", "reve_not_answering"}

\* The calls whose request the charger is dealing with.
OnWire == {c \in Calls : phase[c] \in {"posted", "answering"}}

Init ==
    /\ LockInit
    /\ phase = [c \in Calls |-> "out"]
    /\ attempt = [c \in Calls |-> 0]
    /\ applied = [c \in Calls |-> 0]
    /\ result = [c \in Calls |-> "none"]
    /\ told = [c \in Calls |-> "none"]
    /\ due = [c \in Calls |-> TRUE]
    /\ lastCommand = "never"
    /\ lastFailure = "none"
    /\ graphqlWrite = FALSE
    /\ reveSeen \in BOOLEAN
    /\ shuttingDown = FALSE
    /\ quiet = TRUE

-------------------------------------------------------------------------------
(* Getting to the critical section.                                        *)

\* EveusUpdater.send_command: a call is taken on unless unload has begun.
Submit(c) ==
    /\ result[c] = "none"
    /\ ~shuttingDown
    /\ \/ AcquireFree(c) /\ phase' = [phase EXCEPT ![c] = "pacing"]
       \/ AcquireWait(c) /\ UNCHANGED phase
    /\ UNCHANGED <<attempt, applied, result, told, managerVars, worldVars, quiet>>

\* Its early return once unload has begun, before any of the manager's code.
Refuse(c) ==
    /\ task[c] = "new"
    /\ result[c] = "none"
    /\ shuttingDown
    /\ result' = [result EXCEPT ![c] = "refused"]
    /\ told' = [told EXCEPT ![c] = lastFailure]
    /\ UNCHANGED <<lockVars, phase, attempt, applied, managerVars, worldVars, quiet>>

GetLock(c) ==
    /\ Resume(c)
    /\ phase' = [phase EXCEPT ![c] = "pacing"]
    /\ UNCHANGED <<attempt, applied, result, told, managerVars, worldVars, quiet>>

\* A second passes without a request.
Pace ==
    /\ OnWire = {}
    /\ lastCommand = "recent" \/ ~quiet
    /\ lastCommand' = IF lastCommand = "recent" THEN "old" ELSE lastCommand
    /\ quiet' = TRUE
    /\ UNCHANGED <<lockVars, sendVars, lastFailure, graphqlWrite, worldVars>>

-------------------------------------------------------------------------------
(* One attempt.                                                            *)

\* Outcomes send_command reports as False; their caller reads last_failure
\* before it yields again.
Reported == {"failed", "vetoed", "refused"}

Finish_KeepsLock(c, outcome) ==
    /\ task[c] = "owner"
    /\ task' = [task EXCEPT ![c] = "done"]
    /\ phase' = [phase EXCEPT ![c] = "out"]
    /\ result' = [result EXCEPT ![c] = outcome]
    /\ told' = [told EXCEPT ![c] = IF outcome \in Reported THEN lastFailure' ELSE @]
    /\ quiet' = (quiet /\ c \notin OnWire)
    /\ UNCHANGED <<held, sequence, waiters, attempt, applied>>

\* The call leaves: the lock goes on, and the caller is told the outcome.
Finish(c, outcome) ==
    /\ Release(c)
    /\ phase' = [phase EXCEPT ![c] = "out"]
    /\ result' = [result EXCEPT ![c] = outcome]
    /\ told' = [told EXCEPT ![c] = IF outcome \in Reported THEN lastFailure' ELSE @]
    /\ quiet' = (quiet /\ c \notin OnWire)
    /\ UNCHANGED <<attempt, applied>>

\* The caller may start an attempt: the spacing is over, or the backoff.
Ready(c) ==
    \/ phase[c] = "pacing" /\ lastCommand # "recent"
    \/ phase[c] = "backoff"

\* Both markers are reset after the pacing sleep, once per call.
Fresh(c) == phase[c] = "pacing"
ResetMarkers(c) ==
    /\ lastFailure' = IF Fresh(c) THEN "none" ELSE lastFailure
    /\ graphqlWrite' = IF Fresh(c) THEN FALSE ELSE graphqlWrite

Vetoed_FirstAttemptOnly(c) == c \in GuardedCalls /\ Fresh(c) /\ ~due[c]

Vetoed(c) == c \in GuardedCalls /\ ~due[c]

\* finally: only a real attempt paces the next command.
Stamp(c) == lastCommand' = IF Fresh(c) THEN lastCommand ELSE "recent"

\* The preflight refuses: nothing is sent.
Veto(c) ==
    /\ Ready(c)
    /\ Vetoed(c)
    /\ ResetMarkers(c)
    /\ Stamp(c)
    /\ Finish(c, "vetoed")
    /\ UNCHANGED worldVars

\* _post_command finds the entry unloading and sends nothing.
StopAtWire(c) ==
    /\ Ready(c)
    /\ ~Vetoed(c)
    /\ shuttingDown
    /\ ResetMarkers(c)
    /\ lastCommand' = "recent"
    /\ Finish(c, "refused")
    /\ UNCHANGED worldVars

\* _post_command sends the request.
Post(c) ==
    /\ Ready(c)
    /\ ~Vetoed(c)
    /\ ~shuttingDown
    /\ phase' = [phase EXCEPT ![c] = "posted"]
    /\ lastFailure' = IF Fresh(c) THEN "none" ELSE lastFailure
    /\ graphqlWrite' = ((~Fresh(c) /\ graphqlWrite) \/ (reveSeen /\ c \in ReveCalls))
    /\ UNCHANGED <<lockVars, attempt, applied, result, told, lastCommand, worldVars, quiet>>

\* The charger carries the request out; its reply is on the way.
Apply(c) ==
    /\ phase[c] = "posted"
    /\ phase' = [phase EXCEPT ![c] = "answering"]
    /\ applied' = [applied EXCEPT ![c] = @ + 1]
    /\ UNCHANGED <<lockVars, attempt, result, told, managerVars, worldVars, quiet>>

\* The charger's acceptance arrives.
Accepted(c) ==
    /\ phase[c] = "answering"
    /\ lastCommand' = "recent"
    /\ UNCHANGED <<lastFailure, graphqlWrite, worldVars>>
    /\ Finish(c, "accepted")

\* 401: the credentials are rejected, the caller gets ConfigEntryAuthFailed.
Unauthorized(c) ==
    /\ phase[c] = "posted"
    /\ lastCommand' = "recent"
    /\ UNCHANGED <<lastFailure, graphqlWrite, worldVars>>
    /\ Finish(c, "unauthorized")

\* retry_attempts
Budget(c) == IF c \in OneShotCalls THEN 0 ELSE Retries

Retry_OneTooMany(c) ==
    /\ c \in OnWire
    /\ attempt[c] <= Retries
    /\ attempt' = [attempt EXCEPT ![c] = @ + 1]
    /\ phase' = [phase EXCEPT ![c] = "backoff"]
    /\ quiet' = FALSE
    /\ UNCHANGED <<lockVars, applied, result, told, managerVars, worldVars>>

\* A timeout, a lost connection or a 5xx with attempts left.
Retry(c) ==
    /\ c \in OnWire
    /\ attempt[c] < Budget(c)
    /\ attempt' = [attempt EXCEPT ![c] = @ + 1]
    /\ phase' = [phase EXCEPT ![c] = "backoff"]
    /\ quiet' = FALSE
    /\ UNCHANGED <<lockVars, applied, result, told, managerVars, worldVars>>

\* The same with no attempt left, or a status no retry can fix.
GiveUp(c) ==
    /\ \/ c \in OnWire /\ attempt[c] = Budget(c)
       \/ phase[c] = "posted"
    /\ lastFailure' = IF graphqlWrite THEN "reve_not_answering" ELSE lastFailure
    /\ lastCommand' = "recent"
    /\ UNCHANGED <<graphqlWrite, worldVars>>
    /\ Finish(c, "failed")

\* An error the retry loop does not know, such as GraphQL refusing the write.
Unexpected(c) ==
    /\ c \in OnWire
    /\ lastCommand' = "recent"
    /\ UNCHANGED <<lastFailure, graphqlWrite, worldVars>>
    /\ Finish(c, "failed")

-------------------------------------------------------------------------------
(* Cancellation, at every await.                                           *)

CancelWaiting(c) ==
    /\ \/ CancelQueued(c) /\ result' = [result EXCEPT ![c] = "cancelled"]
       \/ CancelGranted(c) /\ UNCHANGED result
    /\ UNCHANGED <<phase, attempt, applied, told, managerVars, worldVars, quiet>>

\* A call cancelled between the hand-over and its resumption unwinds.
Withdraw(c) ==
    /\ PassOn(c)
    /\ result' = [result EXCEPT ![c] = "cancelled"]
    /\ UNCHANGED <<phase, attempt, applied, told, managerVars, worldVars, quiet>>

\* In the critical section; the request may still have reached the charger.
CancelOwner(c) ==
    /\ phase[c] # "out"
    /\ Stamp(c)
    /\ UNCHANGED <<lastFailure, graphqlWrite, worldVars>>
    /\ Finish(c, "cancelled")

-------------------------------------------------------------------------------
(* What changes around the command.                                        *)

\* A poll or a newer setpoint changes what the preflight answers.
ChangeDue(c) ==
    /\ c \in GuardedCalls
    /\ task[c] # "done"
    /\ due' = [due EXCEPT ![c] = ~@]
    /\ UNCHANGED <<lockVars, sendVars, managerVars, reveSeen, shuttingDown, quiet>>

\* A poll recognises REVE.
RecogniseReve ==
    /\ ~reveSeen
    /\ reveSeen' = TRUE
    /\ UNCHANGED <<lockVars, sendVars, managerVars, due, shuttingDown, quiet>>

\* The entry begins to unload.
BeginShutdown ==
    /\ ~shuttingDown
    /\ shuttingDown' = TRUE
    /\ UNCHANGED <<lockVars, sendVars, managerVars, due, reveSeen, quiet>>

\* What the owner of the lock does without outside help.
Progress(c) ==
    \/ GetLock(c) \/ Veto(c) \/ StopAtWire(c) \/ Post(c) \/ Accepted(c)
    \/ Unauthorized(c) \/ Retry(c) \/ GiveUp(c) \/ Unexpected(c)

Next ==
    \/ \E c \in Calls :
          \/ Submit(c) \/ Refuse(c) \/ Progress(c) \/ Apply(c)
          \/ CancelWaiting(c) \/ Withdraw(c) \/ CancelOwner(c) \/ ChangeDue(c)
    \/ Pace \/ RecogniseReve \/ BeginShutdown

Spec == Init /\ [][Next]_vars

(***************************************************************************)
(* Requests and backoffs have timeouts, the pacing sleep ends, and the     *)
(* event loop resumes ready tasks.  Nothing is assumed of the charger, of  *)
(* cancellation or of unload.                                              *)
(***************************************************************************)
FairSpec ==
    /\ Spec
    /\ WF_vars(Pace)
    /\ \A c \in Calls : WF_vars(Progress(c)) /\ WF_vars(Withdraw(c))

-------------------------------------------------------------------------------
TypeOK ==
    /\ LockTypeOK
    /\ phase \in [Calls -> Phase]
    /\ attempt \in [Calls -> Nat]
    /\ applied \in [Calls -> Nat]
    /\ result \in [Calls -> Result]
    /\ told \in [Calls -> Failure]
    /\ due \in [Calls -> BOOLEAN]
    /\ lastCommand \in {"never", "recent", "old"}
    /\ lastFailure \in Failure
    /\ graphqlWrite \in BOOLEAN
    /\ reveSeen \in BOOLEAN
    /\ shuttingDown \in BOOLEAN
    /\ quiet \in BOOLEAN

\* The charger deals with one command at a time, and only with the command
\* whose task owns the lock.
OneOnTheWire ==
    /\ \A c, d \in OnWire : c = d
    /\ \A c \in Calls : phase[c] # "out" <=> task[c] = "owner"

\* The entry that is unloading writes nothing more: a request that was queued,
\* pacing or backing off when unload began never starts.
NothingPostedAfterShutdown == [][shuttingDown => OnWire' \subseteq OnWire]_vars

\* A request starts only while its caller still wants it, on every retry too.
NothingPostedUnlessDue ==
    [][\A c \in GuardedCalls : (c \notin OnWire /\ c \in OnWire') => due[c]]_vars

\* No call's first request starts within a second of another call's request,
\* however that one ended: answered, timed out, vetoed on a retry or cancelled.
FirstPostsAreSpaced ==
    [][\A c \in Calls : (phase[c] = "pacing" /\ c \in OnWire') => quiet]_vars

\* What a caller may conclude from the outcome: an accepted command was carried
\* out, a command vetoed or refused before any attempt was not, and none is
\* carried out more often than it can be sent.
OutcomeIsHonest == \A c \in Calls :
    /\ result[c] = "accepted" => applied[c] > 0
    /\ result[c] \in {"vetoed", "refused"} /\ attempt[c] = 0 => applied[c] = 0
    /\ applied[c] <= Budget(c) + 1

\* "REVE is not answering" is told only to the caller of a REVE GraphQL write
\* that failed, never to a caller whose own command went another way after
\* somebody else's failure.  A call refused before the manager is reached reads
\* whatever the command before it left (see ReasonIsTheCallsOwn).
BlameIsOwn == \A c \in Calls :
    (told[c] = "reve_not_answering" /\ task[c] # "new") =>
        result[c] = "failed" /\ c \in ReveCalls

\* control_base.command_failure: "REVE's interface not answering when that is
\* why" the command it reports on failed.
ReasonIsTheCallsOwn == \A c \in Calls :
    told[c] = "reve_not_answering" => result[c] = "failed" /\ c \in ReveCalls

\* A caller reads of its own call: what became of it, and why it failed.
AnswersAreHonest == OutcomeIsHonest /\ BlameIsOwn

\* A request starts only while it is wanted: not for an unloading entry, not against
\* its preflight, not on the heels of another call's.
PostsAreDue == NothingPostedAfterShutdown /\ NothingPostedUnlessDue /\ FirstPostsAreSpaced

\* Every call returns: nobody waits for ever behind another command.  A call is made
\* once, so that is to say that in the end none that was made is still under way.
EveryCallReturns ==
    <>[](\A c \in Calls : task[c] # "new" => result[c] # "none")

\* The critical section uses the lock only through its operations.
UsesLock == LockSpec
===============================================================================
