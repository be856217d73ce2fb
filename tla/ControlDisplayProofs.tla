------------------------- MODULE ControlDisplayProofs -------------------------
(***************************************************************************)
(* For any set of calls of one control, replacing each other or not, and   *)
(* any values and times: what the writes of a control promise, and that    *)
(* the control's display uses them as SetpointWrites says, so that what is *)
(* proved of the writes holds of it.                                       *)
(***************************************************************************)
EXTENDS ControlDisplay, TLAPS, FiniteSetTheorems

-------------------------------------------------------------------------------
(***************************************************************************)
(* The writes. Older writes never land on top of newer ones, replaced      *)
(* calls only wait for newer ones, and success is never reported for       *)
(* nothing. The inductive invariant numbers the calls by arrival and says  *)
(* that the latest one has the highest number, that the write on its way   *)
(* is older than all that wait, and that nothing newer than it has landed. *)
(***************************************************************************)

Arrived == {c \in Calls : pc[c] # "idle"}

Types ==
    /\ pc \in [Calls -> {"idle", "waiting", "following"} \cup Holding \cup Returned]
    /\ latest = {} \/ \E c \in Calls : latest = {c}
    /\ settled \in [Calls -> {"open", "applied", "failed", "replaced"}]
    /\ awaits \in [Calls -> SUBSET Calls]
    /\ tries \in [Calls -> 0 .. Retries]
    /\ ticket \in [Calls -> 0 .. Cardinality(Calls)]
    /\ newest \in 0 .. Cardinality(Calls)

\* Calls are numbered by arrival, and the latest is the last.
Numbered ==
    /\ newest <= Cardinality(Arrived)
    /\ \A c \in Calls : ticket[c] <= Cardinality(Arrived)
    /\ \A c, d \in Arrived : ticket[c] = ticket[d] => c = d
    /\ \A c \in Arrived : \E d \in Arrived : latest = {d} /\ ticket[c] <= ticket[d]

\* One write is on its way, older than those that wait; nothing newer has landed.
InOrder ==
    /\ \A c, d \in Calls : pc[c] \in Holding /\ pc[d] \in Holding => c = d
    /\ \A c, d \in Calls : pc[c] \in Holding /\ pc[d] = "waiting" => ticket[c] < ticket[d]
    /\ \A c \in Calls : pc[c] \in Holding \cup {"waiting"} => newest <= ticket[c]
    /\ \A c \in Calls : pc[c] = "landed" => newest = ticket[c]

\* What a settled token tells.
Tokens ==
    /\ \A c \in Calls : settled[c] = "applied" => ticket[c] <= newest
    /\ \A c \in Calls : pc[c] \in {"idle", "waiting"} \cup Holding => settled[c] = "open"

WritesInv ==
    /\ Types
    /\ Numbered
    /\ InOrder
    /\ Tokens
    /\ SuccessIsReal
    /\ FollowsNewer

USE DEF Holding, Returned

\* The invariant holds before the first write.
LEMMA WritesInvInit == WritesInit => WritesInv
<1> SUFFICES ASSUME WritesInit PROVE WritesInv
  OBVIOUS
<1>1. Cardinality(Calls) \in Nat
  BY WritesAssumption, FS_CardinalityType
<1>2. Arrived = {}
  BY DEF WritesInit, Arrived
<1>3. Types /\ Numbered
  BY <1>1, <1>2, FS_EmptySet, WritesAssumption DEF WritesInit, Types, Numbered
<1>. QED
  BY <1>3 DEF WritesInit, WritesInv, InOrder, Tokens, SuccessIsReal, FollowsNewer

\* A call that is not current has a newer one, which is the latest.
LEMMA ReplacedByNewer ==
  ASSUME WritesInv, NEW c \in Arrived, ~Current(c)
  PROVE  \E d \in Arrived : latest = {d} /\ ticket[c] < ticket[d]
<1>1. PICK d \in Arrived : latest = {d} /\ ticket[c] <= ticket[d]
  BY DEF WritesInv, Numbered
<1>2. c # d
  BY <1>1 DEF Current
<1>3. ticket[c] \in Nat /\ ticket[d] \in Nat
  BY WritesAssumption, FS_CardinalityType DEF WritesInv, Types, Arrived
<1>. QED
  BY <1>1, <1>2, <1>3 DEF WritesInv, Numbered, Arrived

\* An arriving call gets the highest number and becomes the latest.
LEMMA ArriveKeepsInv ==
  ASSUME WritesInv, NEW c \in Calls, Arrive(c)
  PROVE  WritesInv'
<1> DEFINE n == Cardinality(Arrived)
<1> USE DEF Arrive, WritesInv
<1>1. IsFiniteSet(Arrived) /\ n \in Nat /\ c \notin Arrived
  BY WritesAssumption, FS_Subset, FS_CardinalityType DEF Arrived
<1>2. Arrived' = Arrived \cup {c}
  BY DEF Arrived, Types
<1>3. Cardinality(Arrived') = n + 1 /\ IsFiniteSet(Arrived')
  BY <1>1, <1>2, FS_AddElement
<1>4. Cardinality(Arrived') <= Cardinality(Calls) /\ Cardinality(Calls) \in Nat
  BY <1>3, WritesAssumption, FS_Subset, FS_CardinalityType, Arrived' \subseteq Calls DEF Arrived
<1>5. /\ ticket' = [ticket EXCEPT ![c] = 1 + n]
      /\ \A d \in Calls : ticket[d] \in Nat /\ ticket[d] <= n
  BY <1>4 DEF Arrived, Types, Numbered
<1>6. Types'
  BY <1>1, <1>3, <1>4, <1>5 DEF Types
<1>7. Numbered'
  <2>1. /\ ticket'[c] = 1 + n
        /\ \A d \in Calls \ {c} : ticket'[d] = ticket[d]
    BY <1>5 DEF Types
  <2>2. newest' <= n + 1
    <3>1. newest' = newest /\ newest \in Nat /\ newest <= n
      BY <1>4 DEF Numbered, Types
    <3>. QED
      BY <1>1, <3>1
  <2>6. ASSUME NEW d \in Calls PROVE ticket'[d] <= n + 1
    <3>1. CASE d = c
      BY <1>1, <2>1, <3>1
    <3>2. CASE d # c
      BY <1>1, <1>5, <2>1, <3>2
    <3>. QED
      BY <3>1, <3>2
  <2>3. \A d \in Arrived : d \in Calls \ {c}
    BY <1>1 DEF Arrived
  <2>4. \A d, e \in Arrived' : ticket'[d] = ticket'[e] => d = e
    BY <1>1, <1>2, <1>5, <2>1, <2>3 DEF Numbered
  <2>5. \A d \in Arrived' : latest' = {c} /\ ticket'[d] <= ticket'[c]
    BY <1>1, <1>2, <1>5, <2>1, <2>3
  <2>. QED
    BY <1>2, <1>3, <2>2, <2>6, <2>4, <2>5 DEF Numbered
<1>8. InOrder'
  <2>1. \A d \in Calls : pc'[d] \in Holding => pc[d] \in Holding /\ d # c
    BY DEF Types
  <2>2. newest <= n /\ newest \in Nat
    BY <1>4 DEF Types, Numbered
  <2>3. pc' = [pc EXCEPT ![c] = "waiting"] /\ newest' = newest
    OBVIOUS
  <2>4. \A d \in Calls : pc'[d] \in Holding \cup {"waiting"} => newest' <= ticket'[d]
    BY <1>1, <1>5, <2>2, <2>3 DEF InOrder, Types
  <2>5. \A d, e \in Calls : pc'[d] \in Holding /\ pc'[e] = "waiting" => ticket'[d] < ticket'[e]
    BY <1>1, <1>5, <2>1, <2>3 DEF InOrder, Types
  <2>. QED
    BY <1>5, <2>1, <2>3, <2>4, <2>5 DEF InOrder, Types
<1>9. Tokens' /\ SuccessIsReal' /\ FollowsNewer'
  <2>1. /\ ticket'[c] = 1 + n
        /\ \A d \in Calls \ {c} : ticket'[d] = ticket[d] /\ pc'[d] = pc[d]
        /\ pc'[c] = "waiting" /\ settled[c] = "open"
    BY <1>5 DEF Types, Tokens
  <2>2. UNCHANGED <<settled, awaits, newest>>
    OBVIOUS
  <2>3. Tokens'
    BY <2>1, <2>2 DEF Tokens
  <2>4. SuccessIsReal'
    BY <2>1, <2>2 DEF SuccessIsReal
  <2>5. FollowsNewer'
    <3> SUFFICES ASSUME NEW e \in Calls, pc'[e] = "following"
                 PROVE  \E d \in Calls :
                           awaits'[e] = {d} /\ ticket'[e] < ticket'[d] /\ settled'[e] = "replaced"
      BY DEF FollowsNewer
    <3>1. e # c /\ pc[e] = "following"
      BY <2>1
    <3>2. PICK d \in Calls : awaits[e] = {d} /\ ticket[e] < ticket[d] /\ settled[e] = "replaced"
      BY <3>1 DEF FollowsNewer
    <3>3. ticket'[e] < ticket'[d]
      BY <1>1, <1>5, <2>1, <3>1, <3>2
    <3>. QED
      BY <2>2, <3>2, <3>3
  <2>. QED
    BY <2>3, <2>4, <2>5
<1>. QED
  BY <1>6, <1>7, <1>8, <1>9

\* Every other step leaves the numbers alone.
LEMMA NumbersStay ==
  ASSUME WritesInv, NEW c \in Arrived, UNCHANGED <<latest, ticket>>,
         NEW p, p # "idle", pc' = [pc EXCEPT ![c] = p],
         newest' \in {newest, ticket[c]}
  PROVE  Numbered'
<1>1. Arrived' = Arrived
  BY DEF Arrived, WritesInv, Types
<1>2. newest' <= Cardinality(Arrived)
  BY DEF Arrived, WritesInv, Numbered
<1>. QED
  BY <1>1, <1>2 DEF WritesInv, Numbered

\* Following keeps the invariant: the call that is followed is newer.
LEMMA FollowKeepsInv ==
  ASSUME WritesInv, NEW c \in Arrived, UNCHANGED <<latest, ticket, newest, tries>>,
         Follow(c), NEW d \in Calls, latest = {d}, ticket[c] < ticket[d],
         pc[c] # "ok",
         \/ settled' = [settled EXCEPT ![c] = "replaced"] /\ settled[c] = "open"
         \/ UNCHANGED settled /\ settled[c] = "replaced"
  PROVE  WritesInv'
<1> USE DEF WritesInv, Follow
<1>1. c \in Calls
  BY DEF Arrived
<1>2. Types'
  BY <1>1 DEF Types
<1>3. Numbered'
  BY NumbersStay
<1>4. InOrder'
  BY <1>1 DEF Types, InOrder
<1>5. Tokens'
  BY <1>1 DEF Types, Tokens
<1>6. SuccessIsReal'
  BY <1>1 DEF Types, SuccessIsReal
<1>7. FollowsNewer'
  BY <1>1 DEF Types, FollowsNewer
<1>. QED
  BY <1>2, <1>3, <1>4, <1>5, <1>6, <1>7

\* A replaced write, met before it is sent or when its answer is there.
LEMMA SettleReplacedKeepsInv ==
  ASSUME WritesInv, NEW c \in Calls, pc[c] \in Holding \cup {"waiting"}, ~Current(c),
         SettleReplaced(c), UNCHANGED <<latest, ticket, newest, tries>>
  PROVE  WritesInv'
<1>1. c \in Arrived /\ settled[c] = "open"
  BY DEF Arrived, WritesInv, Tokens
<1>2. PICK d \in Arrived : latest = {d} /\ ticket[c] < ticket[d]
  BY <1>1, ReplacedByNewer
<1>. QED
  BY <1>1, <1>2, FollowKeepsInv DEF SettleReplaced, Arrived

\* A call that ends otherwise: its token is settled, and "applied" only once it landed.
LEMMA EndKeepsInv ==
  ASSUME WritesInv, NEW c \in Calls, pc[c] \in {"waiting", "following"} \cup Holding,
         UNCHANGED <<latest, awaits, ticket, newest, tries>>,
         NEW p \in Returned, pc' = [pc EXCEPT ![c] = p],
         NEW t \in {"applied", "failed", "replaced"}, settled' = [settled EXCEPT ![c] = t],
         t = "applied" => ticket[c] <= newest,
         settled[c] = "applied" => t = "applied",
         p = "ok" => \E d \in Calls : /\ settled'[d] = "applied"
                                      /\ ticket[c] <= ticket[d] /\ ticket[d] <= newest
  PROVE  WritesInv'
<1> USE DEF WritesInv
<1>1. c \in Arrived
  BY DEF Arrived
<1>2. Types'
  BY DEF Types
<1>3. Numbered'
  BY <1>1, NumbersStay
<1>4. InOrder'
  BY DEF Types, InOrder
<1>5. Tokens'
  BY DEF Types, Tokens
<1>6. SuccessIsReal'
  BY DEF Types, SuccessIsReal
<1>7. FollowsNewer'
  BY DEF Types, FollowsNewer
<1>. QED
  BY <1>2, <1>3, <1>4, <1>5, <1>6, <1>7

\* The lock's next holder is older than all that wait, and alone.
LEMMA ProceedKeepsInv ==
  ASSUME WritesInv, NEW c \in Calls, Proceed(c)
  PROVE  WritesInv'
<1> USE DEF WritesInv
<1>1. c \in Arrived /\ pc[c] = "waiting" /\ settled[c] = "open"
  BY DEF Proceed, First, Arrived, Tokens
<1>2. CASE ~Current(c)
  BY <1>1, <1>2, SettleReplacedKeepsInv DEF Proceed
<1>3. CASE Current(c)
  <2>1. /\ pc' = [pc EXCEPT ![c] = "queued"]
        /\ UNCHANGED <<settled, awaits, latest, tries, ticket, newest>>
    BY <1>3 DEF Proceed
  <2>2. Types'
    BY <2>1 DEF Types
  <2>3. Numbered'
    BY <1>1, <2>1, NumbersStay
  <2>4. InOrder'
    <3>1. \A d \in Calls : pc'[d] \in Holding => d = c
      BY <2>1 DEF Proceed, LockFree, Types
    <3>2. \A d \in Calls : pc'[d] = "waiting" => ticket'[c] < ticket'[d]
      <4> SUFFICES ASSUME NEW d \in Calls, pc'[d] = "waiting" PROVE ticket[c] < ticket[d]
        BY <2>1
      <4>1. d # c /\ pc[d] = "waiting"
        BY <2>1 DEF Types
      <4>2. ticket[c] <= ticket[d] /\ ticket[c] # ticket[d]
        BY <1>1, <4>1 DEF Proceed, First, Numbered, Arrived
      <4>3. ticket[c] \in Nat /\ ticket[d] \in Nat
        BY WritesAssumption, FS_CardinalityType DEF Types
      <4>. QED
        BY <4>2, <4>3
    <3>3. newest' <= ticket'[c] /\ \A d \in Calls : pc'[d] = "waiting" => newest' <= ticket'[d]
      BY <1>1, <2>1 DEF InOrder, Types
    <3>4. \A d \in Calls : pc'[d] # "landed"
      BY <2>1, <3>1 DEF Types
    <3>. QED
      BY <3>1, <3>2, <3>3, <3>4 DEF InOrder
  <2>5. Tokens' /\ SuccessIsReal' /\ FollowsNewer'
    BY <1>1, <2>1 DEF Types, Tokens, SuccessIsReal, FollowsNewer
  <2>. QED
    BY <2>2, <2>3, <2>4, <2>5
<1>. QED
  BY <1>2, <1>3

\* On its way, a write stays the oldest, and the charger takes it after all older ones.
LEMMA WireKeepsInv ==
  ASSUME WritesInv, NEW c \in Calls, Post(c) \/ Land(c) \/ Retry(c)
  PROVE  WritesInv'
<1> USE DEF WritesInv
<1>1. c \in Arrived /\ pc[c] \in Holding /\ UNCHANGED <<latest, settled, awaits, ticket>>
  BY DEF Arrived, Post, Land, Retry
<1>2. PICK p \in Holding : pc' = [pc EXCEPT ![c] = p] /\ (p = "landed" => newest' = ticket[c])
  BY DEF Post, Land, Retry
<1>3. newest' \in {newest, ticket[c]} /\ newest <= newest'
  <2>1. newest <= ticket[c] /\ newest \in Nat /\ newest <= newest
    BY <1>1, WritesAssumption, FS_CardinalityType DEF InOrder, Types
  <2>. QED
    BY <2>1 DEF Post, Land, Retry
<1>4. newest \in Nat /\ newest' \in Nat /\ \A d \in Calls : ticket[d] \in Nat
  BY <1>3, WritesAssumption, FS_CardinalityType DEF Types
<1>5. Types'
  BY <1>1, <1>2, <1>3, WritesAssumption DEF Types, Retry, Post, Land
<1>6. Numbered'
  BY <1>1, <1>2, <1>3, NumbersStay
<1>7. InOrder'
  BY <1>1, <1>2, <1>3, <1>4 DEF Types, InOrder
<1>8. Tokens'
  BY <1>1, <1>2, <1>3, <1>4 DEF Types, Tokens
<1>9. SuccessIsReal'
  BY <1>1, <1>2, <1>3, <1>4 DEF Types, SuccessIsReal
<1>10. FollowsNewer'
  BY <1>1, <1>2 DEF Types, FollowsNewer
<1>. QED
  BY <1>5, <1>6, <1>7, <1>8, <1>9, <1>10

\* The answer of send_command.
LEMMA AnswerKeepsInv ==
  ASSUME WritesInv, NEW c \in Calls, Skip(c) \/ Accepted(c) \/ Rejected(c) \/ Unauthorized(c)
  PROVE  WritesInv'
<1>1. c \in Arrived /\ pc[c] \in Holding /\ settled[c] = "open"
  BY DEF Arrived, Skip, Accepted, Rejected, Unauthorized, WritesInv, Tokens
<1>2. UNCHANGED <<latest, tries, ticket, newest>>
  BY DEF Skip, Accepted, Rejected, Unauthorized
<1>3. CASE SettleReplaced(c) /\ ~Current(c)
  BY <1>1, <1>2, <1>3, SettleReplacedKeepsInv
<1>4. CASE Accepted(c) /\ Current(c)
  <2>1. ticket[c] <= newest /\ newest = ticket[c]
    BY <1>4, WritesAssumption, FS_CardinalityType DEF Accepted, WritesInv, InOrder, Types
  <2>2. settled' = [settled EXCEPT ![c] = "applied"] /\ settled'[c] = "applied"
    BY <1>4 DEF Accepted, Finish, WritesInv, Types
  <2>3. pc' = [pc EXCEPT ![c] = "ok"] /\ UNCHANGED awaits
    BY <1>4 DEF Accepted, Finish
  <2>. QED
    BY <1>1, <1>2, <2>1, <2>2, <2>3, EndKeepsInv
<1>5. CASE \/ Rejected(c) /\ Current(c)
           \/ Unauthorized(c)
  <2>1. PICK t \in {"failed", "replaced"} : settled' = [settled EXCEPT ![c] = t]
    BY <1>5 DEF Rejected, Unauthorized, Finish, Failure
  <2>2. pc' = [pc EXCEPT ![c] = "failed"] /\ UNCHANGED awaits
    BY <1>5 DEF Rejected, Unauthorized, Finish
  <2>. QED
    BY <1>1, <1>2, <2>1, <2>2, EndKeepsInv
<1>. QED
  BY <1>3, <1>4, <1>5 DEF Skip, Accepted, Rejected, Finish

\* A cancelled call leaves a settled token behind, wherever it was.
LEMMA CancelKeepsInv ==
  ASSUME WritesInv, NEW c \in Calls, Cancel(c)
  PROVE  WritesInv'
<1>1. PICK t \in {"failed", "replaced"} : settled' = [settled EXCEPT ![c] = t]
  BY DEF Cancel, Failure, WritesInv, FollowsNewer
<1>2. settled[c] # "applied"
  BY DEF Cancel, WritesInv, FollowsNewer, Tokens
<1>. QED
  BY <1>1, <1>2, EndKeepsInv DEF Cancel

\* A replaced call reports what it followed, or goes on to the latest.
LEMMA ReportKeepsInv ==
  ASSUME WritesInv, NEW c \in Calls, Report(c)
  PROVE  WritesInv'
<1> USE DEF WritesInv
<1>1. PICK d \in awaits[c] :
        \/ settled[d] = "applied" /\ pc' = [pc EXCEPT ![c] = "ok"] /\ UNCHANGED awaits
        \/ settled[d] = "failed" /\ pc' = [pc EXCEPT ![c] = "failed"] /\ UNCHANGED awaits
        \/ settled[d] = "replaced" /\ Follow(c)
  BY DEF Report
<1>2. /\ pc[c] = "following" /\ c \in Arrived
      /\ UNCHANGED <<latest, settled, tries, ticket, newest>>
      /\ d \in Calls /\ ticket[c] < ticket[d] /\ settled[c] = "replaced"
  BY DEF Report, Arrived, FollowsNewer
<1>3. newest \in Nat /\ \A e \in Calls : ticket[e] \in Nat
  BY WritesAssumption, FS_CardinalityType DEF Types
<1>4. settled' = [settled EXCEPT ![c] = "replaced"]
  BY <1>2 DEF Types
<1>5. CASE settled[d] = "applied" /\ pc' = [pc EXCEPT ![c] = "ok"] /\ UNCHANGED awaits
  <2>1. settled'[d] = "applied" /\ ticket[c] <= ticket[d] /\ ticket[d] <= newest
    BY <1>2, <1>3, <1>5 DEF Tokens
  <2>. QED
    BY <1>2, <1>4, <1>5, <2>1, EndKeepsInv
<1>6. CASE settled[d] = "failed" /\ pc' = [pc EXCEPT ![c] = "failed"] /\ UNCHANGED awaits
  BY <1>2, <1>4, <1>6, EndKeepsInv
<1>7. CASE settled[d] = "replaced" /\ Follow(c)
  <2>1. d \in Arrived
    BY <1>2, <1>7 DEF Arrived, Tokens
  <2>2. PICK e \in Arrived : latest = {e} /\ ticket[d] <= ticket[e]
    BY <2>1 DEF Numbered
  <2>3. ticket[c] < ticket[e] /\ e \in Calls
    BY <1>2, <1>3, <2>2 DEF Arrived
  <2>. QED
    BY <1>2, <1>7, <2>2, <2>3, FollowKeepsInv
<1>. QED
  BY <1>1, <1>5, <1>6, <1>7

\* Every step of every call keeps the invariant.
LEMMA StepKeepsInv == WritesInv /\ [WritesNext]_writeVars => WritesInv'
<1> SUFFICES ASSUME WritesInv, [WritesNext]_writeVars PROVE WritesInv'
  OBVIOUS
<1>1. ASSUME NEW c \in Calls,
             \/ Arrive(c) \/ Proceed(c)
             \/ Post(c) \/ Land(c) \/ Retry(c) \/ Skip(c)
             \/ Accepted(c) \/ Rejected(c) \/ Unauthorized(c)
             \/ Cancel(c) \/ Report(c)
      PROVE  WritesInv'
  BY <1>1, ArriveKeepsInv, ProceedKeepsInv, WireKeepsInv, AnswerKeepsInv, CancelKeepsInv,
     ReportKeepsInv
<1>2. CASE UNCHANGED writeVars
  BY <1>2 DEF writeVars, WritesInv, Types, Numbered, Arrived, InOrder, Tokens, SuccessIsReal,
     FollowsNewer
<1>. QED
  BY <1>1, <1>2 DEF WritesNext

\* For any number of calls: tokens, tickets and the lock's queue agree.
THEOREM WritesInvariant == WritesSpec => []WritesInv
  BY WritesInvInit, StepKeepsInv, PTL DEF WritesSpec

\* No call of a control reports success for a value that the charger never took, unless
\* a newer value was taken in its place.
THEOREM WritesSuccessIsReal == WritesSpec => []SuccessIsReal
<1>1. WritesInv => SuccessIsReal
  BY DEF WritesInv
<1>. QED
  BY <1>1, WritesInvariant, PTL

\* Replaced calls wait for newer calls only: they cannot wait for each other.
THEOREM WritesFollowNewer == WritesSpec => []FollowsNewer
<1>1. WritesInv => FollowsNewer
  BY DEF WritesInv
<1>. QED
  BY <1>1, WritesInvariant, PTL

\* However writes are retried, lost, replaced or cancelled, the charger never takes an
\* older one after a newer one.
THEOREM WritesNewestWins == WritesSpec => NewestWins
<1>1. ASSUME WritesInv, [WritesNext]_writeVars PROVE [newest <= newest']_writeVars
  <2>1. newest \in Nat
    BY <1>1, WritesAssumption, FS_CardinalityType DEF WritesInv, Types
  <2>2. ASSUME NEW c \in Calls, Land(c) PROVE newest <= newest'
    BY <1>1, <2>2 DEF Land, WritesInv, InOrder
  <2>3. CASE UNCHANGED newest
    BY <2>1, <2>3
  <2>. QED
    BY <1>1, <2>2, <2>3 DEF WritesNext, writeVars, Arrive, Proceed, Post, Retry, Skip, Accepted,
       Rejected, Unauthorized, Cancel, Report
<1>. QED
  BY <1>1, WritesInvariant, PTL DEF WritesSpec, NewestWins

-------------------------------------------------------------------------------
(***************************************************************************)
(* The display. The pin is the write under way, and a poll that was asked  *)
(* before a write was accepted cannot be older than the mismatch time.     *)
(***************************************************************************)

\* The accepted value is no older than the poll it was accepted during.
EarlyIsFresh ==
    /\ pollAge \in 0 .. PollTicks /\ optimisticAge \in Nat
    /\ early /\ asked # "idle" => optimisticAge <= pollAge

DisplayInv == WritesInv /\ PinIsTheWrite /\ EarlyIsFresh

USE DEF Holding, Returned, pollVars, memoryVars, displayVars

\* A display's step is a step of its writes, or leaves them alone.
LEMMA StepIsAWrite == [Next]_vars => [WritesNext]_writeVars
<1> SUFFICES ASSUME [Next]_vars PROVE [WritesNext]_writeVars
  OBVIOUS
<1>1. CASE WriteNext
  BY <1>1 DEF WriteNext, WritesNext, Ask, Begin, Sending, Taken, Ended, Withdrawn
<1>2. CASE AskPoll \/ GoodPoll \/ BadPoll \/ Tick \/ DeviceMoves \/ UNCHANGED vars
  BY <1>2 DEF AskPoll, GoodPoll, BadPoll, Tick, DeviceMoves, vars
<1>. QED
  BY <1>1, <1>2 DEF Next

\* The display's writes are those of SetpointWrites.
THEOREM DisplayImplementsWrites == Spec => WritesSpec
<1>1. Init => WritesInit
  BY DEF Init
<1>. QED
  BY <1>1, StepIsAWrite, PTL DEF Spec, WritesSpec

\* No call of a shown control reports success for a value that the charger never took.
THEOREM DisplaySuccessIsReal == Spec => []SuccessIsReal
BY DisplayImplementsWrites, WritesSuccessIsReal, PTL

\* Nor does an older value land after a newer one.
THEOREM DisplayNewestWins == Spec => NewestWins
BY DisplayImplementsWrites, WritesNewestWins, PTL

-------------------------------------------------------------------------------
\* Writes that hold the lock are pinned, and only they.
LEMMA WriteKeepsPin ==
  ASSUME DisplayInv, NEW c \in Calls,
         Ask(c) \/ Begin(c) \/ Sending(c) \/ Taken(c) \/ Ended(c) \/ Withdrawn(c)
  PROVE  PinIsTheWrite'
<1>1. /\ pc \in [Calls -> {"idle", "waiting", "following"} \cup Holding \cup Returned]
      /\ \A d, e \in Calls : pc[d] \in Holding /\ pc[e] \in Holding => d = e
  BY DEF DisplayInv, WritesInv, Types, InOrder
<1>2. /\ LockFree => pending = None
      /\ ~LockFree => \E d \in Calls : pc[d] \in Holding /\ pending = Want[d] /\ shown = Want[d]
  BY DEF DisplayInv, PinIsTheWrite
<1>3. ASSUME pc'[c] \notin Holding, pc[c] \notin Holding, UNCHANGED <<pending, shown>>,
             \A d \in Calls \ {c} : pc'[d] = pc[d]
      PROVE  PinIsTheWrite'
  BY <1>2, <1>3 DEF PinIsTheWrite, LockFree
<1>4. ASSUME pc'[c] \in Holding, pc[c] \in Holding, UNCHANGED <<pending, shown>>,
             \A d \in Calls \ {c} : pc'[d] = pc[d]
      PROVE  PinIsTheWrite'
  BY <1>1, <1>2, <1>4 DEF PinIsTheWrite, LockFree
<1>5. ASSUME pc'[c] \notin Holding, pc[c] \in Holding, pending' = None,
             \A d \in Calls \ {c} : pc'[d] = pc[d]
      PROVE  PinIsTheWrite'
  BY <1>1, <1>5 DEF PinIsTheWrite, LockFree
<1>6. CASE Ask(c)
  BY <1>1, <1>3, <1>6 DEF Ask, Arrive
<1>7. CASE Begin(c)
  <2>1. CASE Current(c)
    <3>1. pc' = [pc EXCEPT ![c] = "queued"]
      BY <1>7, <2>1 DEF Begin, Proceed
    <3>2. pc'[c] = "queued" /\ pending' = Want[c] /\ shown' = Want[c]
      BY <1>1, <1>7, <3>1 DEF Begin, Pin
    <3>. QED
      BY <3>2 DEF PinIsTheWrite, LockFree
  <2>2. CASE ~Current(c)
    <3>1. pc' = [pc EXCEPT ![c] = "following"] /\ pc[c] = "waiting"
      BY <1>7, <2>2 DEF Begin, Proceed, First, SettleReplaced, Follow
    <3>. QED
      BY <1>1, <1>3, <1>7, <3>1 DEF Begin, Unpinned
  <2>. QED
    BY <2>1, <2>2
<1>8. CASE Sending(c)
  <2>1. CASE Post(c) \/ Retry(c)
    BY <1>1, <1>4, <1>8, <2>1 DEF Sending, Post, Retry
  <2>2. CASE Report(c)
    <3>1. pc[c] = "following" /\ \E place \in {"ok", "failed", "following"} :
             pc' = [pc EXCEPT ![c] = place]
      BY <2>2 DEF Report, Follow
    <3>. QED
      BY <1>1, <1>3, <1>8, <3>1 DEF Sending
  <2>. QED
    BY <1>8, <2>1, <2>2 DEF Sending
<1>9. CASE Taken(c)
  BY <1>1, <1>4, <1>9 DEF Taken, Land
<1>10. CASE Ended(c)
  <2>1. pc[c] \in Holding /\ \E place \in {"ok", "failed", "following"} :
           pc' = [pc EXCEPT ![c] = place]
    BY <1>10 DEF Ended, Skip, Accepted, Rejected, Unauthorized, Finish, SettleReplaced, Follow
  <2>. QED
    BY <1>1, <1>5, <1>10, <2>1 DEF Ended, Release
<1>11. CASE Withdrawn(c)
  <2>1. pc' = [pc EXCEPT ![c] = "cancelled"]
    BY <1>11 DEF Withdrawn, Cancel
  <2>2. CASE pc[c] \in Holding
    BY <1>1, <1>5, <1>11, <2>1, <2>2 DEF Withdrawn, Release
  <2>3. CASE pc[c] \notin Holding
    BY <1>1, <1>3, <1>11, <2>1, <2>3 DEF Withdrawn, Unpinned
  <2>. QED
    BY <2>2, <2>3
<1>. QED
  BY <1>6, <1>7, <1>8, <1>9, <1>10, <1>11

\* Polls and time leave a pinned control alone.
LEMMA PollKeepsPin ==
  ASSUME DisplayInv, AskPoll \/ GoodPoll \/ BadPoll \/ Tick \/ DeviceMoves \/ UNCHANGED vars
  PROVE  PinIsTheWrite'
<1>1. pc' = pc /\ pending' = pending
  BY DEF AskPoll, GoodPoll, BadPoll, Tick, DeviceMoves, HandleUpdate, vars, writeVars
<1>2. pending # None => shown' = shown
  BY DEF AskPoll, GoodPoll, BadPoll, Tick, DeviceMoves, HandleUpdate, vars
<1>3. \A c \in Calls : Want[c] # None
  BY DisplayAssumption, NoneAssumption
<1>. QED
  BY <1>1, <1>2, <1>3 DEF DisplayInv, PinIsTheWrite, LockFree

\* An accepted value is as young as the poll it was accepted during, while that lasts.
LEMMA StepKeepsEarly ==
  ASSUME DisplayInv, [Next]_vars
  PROVE  EarlyIsFresh'
<1>1. /\ PollTicks \in Nat /\ OptimisticTTL \in Nat /\ pollAge \in 0 .. PollTicks
      /\ optimisticAge \in Nat
      /\ early /\ asked # "idle" => optimisticAge <= pollAge
  BY DisplayAssumption DEF DisplayInv, EarlyIsFresh
<1>2. ASSUME NEW c \in Calls, Ask(c) \/ Begin(c) \/ Sending(c) \/ Taken(c) \/ Withdrawn(c)
      PROVE  EarlyIsFresh'
  <2>1. UNCHANGED <<early, asked, pollAge>> /\ (optimisticAge' = optimisticAge \/ Withdrawn(c))
    BY <1>2 DEF Ask, Begin, Sending, Taken, Withdrawn, Pin, Unpinned
  <2>2. CASE Withdrawn(c)
    <3>1. pc'[c] = "cancelled"
      BY <2>2 DEF Withdrawn, Cancel, DisplayInv, WritesInv, Types
    <3>2. optimisticAge' = optimisticAge
      BY <2>2, <3>1 DEF Withdrawn, Release, Unpinned
    <3>. QED
      BY <1>1, <2>1, <3>2 DEF EarlyIsFresh
  <2>. QED
    BY <1>1, <2>1, <2>2 DEF EarlyIsFresh
<1>3. ASSUME NEW c \in Calls, Ended(c) PROVE EarlyIsFresh'
  <2>1. UNCHANGED <<asked, pollAge>>
    BY <1>3 DEF Ended
  <2>2. CASE pc'[c] = "ok"
    BY <1>1, <1>3, <2>1, <2>2 DEF Ended, Release, EarlyIsFresh
  <2>3. CASE pc'[c] # "ok"
    BY <1>1, <1>3, <2>1, <2>3 DEF Ended, Release, EarlyIsFresh
  <2>. QED
    BY <2>2, <2>3
<1>4. CASE AskPoll
  BY <1>1, <1>4 DEF AskPoll, EarlyIsFresh
<1>5. CASE GoodPoll \/ BadPoll
  BY <1>1, <1>5 DEF GoodPoll, BadPoll, EarlyIsFresh
<1>6. CASE Tick
  <2>1. UNCHANGED <<asked, early>> /\ pollAge' = IF asked # "idle" THEN pollAge + 1 ELSE 0
    BY <1>6 DEF Tick
  <2>2. asked # "idle" => pollAge < PollTicks
    BY <1>6 DEF Tick
  <2>3. optimisticAge' \in Nat /\ optimisticAge' <= optimisticAge + 1
    BY <1>1, <1>6 DEF Tick, Older
  <2>. QED
    BY <1>1, <2>1, <2>2, <2>3 DEF EarlyIsFresh
<1>7. CASE DeviceMoves \/ UNCHANGED vars
  BY <1>1, <1>7 DEF DeviceMoves, vars, EarlyIsFresh
<1>. QED
  BY <1>2, <1>3, <1>4, <1>5, <1>6, <1>7 DEF Next, WriteNext

\* The invariant holds when the control is added, and is inductive.
THEOREM DisplayInvHolds == Spec => []DisplayInv
<1>1. Init => DisplayInv
  BY WritesInvInit, DisplayAssumption
     DEF Init, DisplayInv, WritesInit, PinIsTheWrite, LockFree, EarlyIsFresh
<1>2. DisplayInv /\ [Next]_vars => DisplayInv'
  <2> SUFFICES ASSUME DisplayInv, [Next]_vars PROVE DisplayInv'
    OBVIOUS
  <2>2. WritesInv'
    BY StepIsAWrite, StepKeepsInv DEF DisplayInv
  <2>3. PinIsTheWrite'
    BY WriteKeepsPin, PollKeepsPin DEF Next, WriteNext
  <2>. QED
    BY <2>2, <2>3, StepKeepsEarly DEF DisplayInv
<1>. QED
  BY <1>1, <1>2, PTL DEF Spec

-------------------------------------------------------------------------------
\* An answer from before the write was accepted does not cover the accepted value.
LEMMA EarlyAnswerIsPassed ==
  ASSUME DisplayInv, [Next]_vars, early, asked # "idle", asked' = "idle", Visible,
         pending = None, reading' # None, optimistic # None
  PROVE  shown' = optimistic
<1>1. GoodPoll
  BY DEF Next, WriteNext, Ask, Begin, Sending, Taken, Ended, Withdrawn, AskPoll, BadPoll, Tick,
     DeviceMoves, vars
<1>2. optimisticAge' <= MismatchTTL /\ optimisticAge' < OptimisticTTL
  <2>1. /\ optimisticAge' = optimisticAge /\ optimisticAge <= pollAge
        /\ optimisticAge \in Nat /\ pollAge \in 0 .. PollTicks
    BY <1>1 DEF GoodPoll, DisplayInv, EarlyIsFresh
  <2>2. {MismatchTTL, OptimisticTTL, PollTicks} \subseteq Nat /\ PollTicks <= MismatchTTL
        /\ MismatchTTL < OptimisticTTL
    BY DisplayAssumption
  <2>. QED
    BY <2>1, <2>2
<1>3. Kept = optimistic
  BY <1>1 DEF GoodPoll, Kept, VisibleAt
<1>4. optimistic' = Reconciled(optimistic) /\ shown' = Resolved
  BY <1>1, <1>3 DEF GoodPoll, HandleUpdate
<1>5. CASE optimistic = reading'
  BY <1>2, <1>4, <1>5 DEF Reconciled, Resolved
<1>6. CASE optimistic # reading'
  <2>1. ~(optimisticAge' > MismatchTTL) /\ ~(optimisticAge' >= OptimisticTTL)
    <3>1. optimisticAge' \in Nat /\ MismatchTTL \in Nat /\ OptimisticTTL \in Nat
      BY <1>1, DisplayAssumption DEF GoodPoll, DisplayInv, EarlyIsFresh
    <3>. QED
      BY <1>2, <3>1
  <2>. QED
    BY <1>2, <1>4, <1>6, <2>1 DEF Reconciled, Resolved
<1>. QED
  BY <1>5, <1>6

\* A write that ends badly leaves what was there without it.
LEMMA FailedWriteIsGone ==
  ASSUME DisplayInv, [Next]_vars, NEW c \in Calls, pc[c] \in Holding,
         pc'[c] \in {"failed", "cancelled"}
  PROVE  shown' \in {optimistic, reading, lastRead, None}
<1>1. pc \in [Calls -> {"idle", "waiting", "following"} \cup Holding \cup Returned]
  BY DEF DisplayInv, WritesInv, Types
<1>2. PICK d \in Calls : Ask(d) \/ Begin(d) \/ Sending(d) \/ Taken(d) \/ Ended(d) \/ Withdrawn(d)
  BY DEF Next, WriteNext, AskPoll, GoodPoll, BadPoll, Tick, DeviceMoves, vars, writeVars
<1>3. \E place \in {"waiting", "queued", "wire", "landed", "following", "ok", "failed",
                   "cancelled"} : pc' = [pc EXCEPT ![d] = place]
  BY <1>2 DEF Ask, Begin, Sending, Taken, Ended, Withdrawn, Arrive, Proceed, Post, Retry, Report,
     Land, Skip, Accepted, Rejected, Unauthorized, Finish, SettleReplaced, Follow, Cancel
<1>4. c = d
  BY <1>1, <1>3
<1>5. Ended(c) \/ Withdrawn(c)
  BY <1>1, <1>2, <1>4 DEF Ask, Begin, Sending, Taken, Arrive, Proceed, First, Post, Retry, Report,
     Land
<1>6. Release(c) /\ UNCHANGED <<reading, lastRead>>
  BY <1>5 DEF Ended, Withdrawn, Release
<1>. QED
  BY <1>6 DEF Release, Resolved

\* The display shows the write that is under way, then the accepted value, which no older
\* answer covers; other ways to end leave no trace (_send_pinned_command,
\* _handle_coordinator_update).
THEOREM DisplayShowsWrites == Spec => DisplayFollowsWrites
<1>1. DisplayInv /\ [Next]_vars =>
        [early /\ asked # "idle" /\ asked' = "idle" /\ Visible /\ pending = None
         /\ reading' # None /\ optimistic # None => shown' = optimistic]_vars
  BY EarlyAnswerIsPassed
<1>2. DisplayInv' => [PinIsTheWrite']_vars
  BY DEF DisplayInv
<1>3. DisplayInv /\ [Next]_vars =>
        [\A c \in Calls : pc[c] \in Holding /\ pc'[c] \in {"failed", "cancelled"} =>
            shown' \in {optimistic, reading, lastRead, None}]_vars
  BY FailedWriteIsGone
<1>. QED
  BY DisplayInvHolds, <1>1, <1>2, <1>3, PTL
     DEF Spec, DisplayFollowsWrites, NoSnapBack, WriteShowsWhileItLasts, FailureLeavesNoTrace

===============================================================================
