---------------------------- MODULE SetpointWrites ----------------------------
(***************************************************************************)
(* The writes of one control: EveusSetpointNumber.async_set_native_value   *)
(* and CommandBackedEntity._send_pinned_command.  A control sends one      *)
(* write at a time (_command_lock).  A number's newer write replaces the   *)
(* unsent older ones, and a replaced call reports what becomes of the      *)
(* write that replaced it; every write of a switch is sent.                *)
(*                                                                         *)
(* Each call is one write; its token is the future _latest_write points    *)
(* to.  Between "queued" and the reply lies CommandManager.send_command,   *)
(* of which only this remains: it asks the preflight before each attempt,  *)
(* posts, retries, answers False or raises.                                *)
(* A definition called Name_Fault is a faulty variant of Name, kept to     *)
(* show that the properties notice it; nothing else uses it.               *)
(***************************************************************************)
EXTENDS Naturals, FiniteSets

CONSTANTS Calls,
          Coalescing,   \* newer writes replace unsent ones: a number, not a switch
          Retries       \* _COMMAND_RETRY_ATTEMPTS

ASSUME WritesAssumption ==
    /\ IsFiniteSet(Calls)
    /\ Coalescing \in BOOLEAN
    /\ Retries \in Nat

VARIABLES
    pc,         \* where each call is; "landed": the charger took it, no reply yet
    latest,     \* the call of _latest_write, as a set of at most one
    settled,    \* each call's token: "open", "applied", "failed", "replaced"
    awaits,     \* the call whose token a replaced call waits for, as such a set
    tries,      \* failed attempts
    ticket,     \* the order of arrival, from 1
    newest      \* the ticket of the newest write the charger has taken

writeVars == <<pc, latest, settled, awaits, tries, ticket, newest>>

Holding == {"queued", "wire", "landed"}
Returned == {"ok", "failed", "cancelled"}

WritesInit ==
    /\ pc = [c \in Calls |-> "idle"]
    /\ latest = {}
    /\ settled = [c \in Calls |-> "open"]
    /\ awaits = [c \in Calls |-> {}]
    /\ tries = [c \in Calls |-> 0]
    /\ ticket = [c \in Calls |-> 0]
    /\ newest = 0

\* The preflight: no newer write has taken this one's place.
Current(c) == Coalescing => latest = {c}

\* _command_lock serves the calls that wait in the order they came.
First(c) == pc[c] = "waiting" /\ \A d \in Calls : pc[d] = "waiting" => ticket[c] <= ticket[d]

LockFree_Always == TRUE

LockFree == \A c \in Calls : pc[c] \notin Holding

-------------------------------------------------------------------------------
Arrive(c) ==
    /\ pc[c] = "idle"
    /\ pc' = [pc EXCEPT ![c] = "waiting"]
    /\ latest' = {c}
    /\ ticket' = [ticket EXCEPT ![c] = 1 + Cardinality({d \in Calls : pc[d] # "idle"})]
    /\ UNCHANGED <<settled, awaits, tries, newest>>

\* How the call of a token that is settled as replaced goes on.
Follow(c) ==
    /\ pc' = [pc EXCEPT ![c] = "following"]
    /\ awaits' = [awaits EXCEPT ![c] = latest]

SettleReplaced(c) ==
    /\ settled' = [settled EXCEPT ![c] = "replaced"]
    /\ Follow(c)

\* The lock's next holder sends its write, if no newer one has come.
Proceed(c) ==
    /\ LockFree
    /\ First(c)
    /\ IF Current(c)
       THEN pc' = [pc EXCEPT ![c] = "queued"] /\ UNCHANGED <<settled, awaits>>
       ELSE SettleReplaced(c)
    /\ UNCHANGED <<latest, tries, ticket, newest>>

Post(c) ==
    /\ pc[c] = "queued"
    /\ Current(c)
    /\ pc' = [pc EXCEPT ![c] = "wire"]
    /\ UNCHANGED <<latest, settled, awaits, tries, ticket, newest>>

Land(c) ==
    /\ pc[c] = "wire"
    /\ pc' = [pc EXCEPT ![c] = "landed"]
    /\ newest' = ticket[c]
    /\ UNCHANGED <<latest, settled, awaits, tries, ticket>>

\* A request or its reply is lost and the command manager tries again.
Retry(c) ==
    /\ pc[c] \in {"wire", "landed"}
    /\ tries[c] < Retries
    /\ pc' = [pc EXCEPT ![c] = "queued"]
    /\ tries' = [tries EXCEPT ![c] = @ + 1]
    /\ UNCHANGED <<latest, settled, awaits, ticket, newest>>

\* The preflight vetoes a write that was replaced while it waited.
Skip(c) ==
    /\ pc[c] = "queued"
    /\ ~Current(c)
    /\ SettleReplaced(c)
    /\ UNCHANGED <<latest, tries, ticket, newest>>

\* send_command has answered: a call that was replaced meanwhile reports its successor.
Finish(c, outcome, ending) ==
    IF Current(c)
    THEN /\ settled' = [settled EXCEPT ![c] = outcome]
         /\ pc' = [pc EXCEPT ![c] = ending]
         /\ UNCHANGED awaits
    ELSE SettleReplaced(c)

Accepted(c) ==
    /\ pc[c] = "landed"
    /\ Finish(c, "applied", "ok")
    /\ UNCHANGED <<latest, tries, ticket, newest>>

\* Refused by the charger, given up, or not sent because the entry unloads.
Rejected(c) ==
    /\ pc[c] \in Holding
    /\ Finish(c, "failed", "failed")
    /\ UNCHANGED <<latest, tries, ticket, newest>>

\* What a token is settled to when its call ends with an exception.
Failure(c) == IF Current(c) THEN "failed" ELSE "replaced"

\* A 401 raises through a call, replaced or not.
Unauthorized(c) ==
    /\ pc[c] = "wire"
    /\ settled' = [settled EXCEPT ![c] = Failure(c)]
    /\ pc' = [pc EXCEPT ![c] = "failed"]
    /\ UNCHANGED <<latest, awaits, tries, ticket, newest>>

Cancel(c) ==
    /\ pc[c] \in {"waiting", "following"} \cup Holding
    /\ pc' = [pc EXCEPT ![c] = "cancelled"]
    /\ settled' = [settled EXCEPT ![c] = IF pc[c] = "following" THEN @ ELSE Failure(c)]
    /\ UNCHANGED <<latest, awaits, tries, ticket, newest>>

Report_IgnoresOutcome(c) ==
    /\ pc[c] = "following"
    /\ \E d \in awaits[c] : settled[d] # "open"
    /\ pc' = [pc EXCEPT ![c] = "ok"]
    /\ UNCHANGED <<latest, settled, awaits, tries, ticket, newest>>

\* A replaced call takes over the result of the write that replaced it, and goes on to
\* wait for the latest one if that was replaced as well.
Report(c) ==
    /\ pc[c] = "following"
    /\ \E d \in awaits[c] :
          \/ settled[d] = "applied" /\ pc' = [pc EXCEPT ![c] = "ok"] /\ UNCHANGED awaits
          \/ settled[d] = "failed" /\ pc' = [pc EXCEPT ![c] = "failed"] /\ UNCHANGED awaits
          \/ settled[d] = "replaced" /\ Follow(c)
    /\ UNCHANGED <<latest, settled, tries, ticket, newest>>

WritesNext ==
    \E c \in Calls :
        \/ Arrive(c) \/ Proceed(c)
        \/ Post(c) \/ Land(c) \/ Retry(c) \/ Skip(c)
        \/ Accepted(c) \/ Rejected(c) \/ Unauthorized(c)
        \/ Cancel(c) \/ Report(c)

WritesSpec == WritesInit /\ [][WritesNext]_writeVars

-------------------------------------------------------------------------------
WritesTypeOK ==
    /\ pc \in [Calls -> {"idle", "waiting", "following"} \cup Holding \cup Returned]
    /\ latest = {} \/ \E c \in Calls : latest = {c}
    /\ settled \in [Calls -> {"open", "applied", "failed", "replaced"}]
    /\ awaits \in [Calls -> SUBSET Calls]
    /\ tries \in [Calls -> 0 .. Retries]
    /\ ticket \in [Calls -> 0 .. Cardinality(Calls)] /\ newest \in 0 .. Cardinality(Calls)

\* "no call reports success for a value that was never sent": the value was taken by
\* the charger, or that of a newer write that replaced it.
SuccessIsReal ==
    \A c \in Calls : pc[c] = "ok" =>
        \E d \in Calls : settled[d] = "applied" /\ ticket[c] <= ticket[d] /\ ticket[d] <= newest

\* An older write never lands on top of a newer one, whatever was retried or lost.
NewestWins == [][newest <= newest']_writeVars

\* A call only waits for newer writes, so no two calls ever wait for each other.
FollowsNewer ==
    \A c \in Calls : pc[c] = "following" =>
        \E d \in Calls : awaits[c] = {d} /\ ticket[c] < ticket[d] /\ settled[c] = "replaced"

\* Every write returns, also one whose successors were themselves replaced, refused,
\* or cancelled before they were sent: in the end no write is under way.
EveryWriteReturns == <>[](\A c \in Calls : pc[c] # "idle" => pc[c] \in Returned)
===============================================================================
