------------------------- MODULE CommandManagerProofs -------------------------
(***************************************************************************)
(* For any set of calls, guards, routes and number of retries: the lock of *)
(* the command manager excludes, strands nobody and implements             *)
(* PriorityMutex; the manager uses the lock as PriorityLock does, so that  *)
(* what is proved of the lock holds of it; and with the lock it keeps its  *)
(* own promises about the wire, the answers and the spacing of requests.   *)
(***************************************************************************)
EXTENDS CommandManager, TLAPS

-------------------------------------------------------------------------------
(***************************************************************************)
(* The lock. It excludes, never strands, and implements PriorityMutex. One *)
(* inductive invariant carries all three: besides the two properties it    *)
(* says that every queued call has an entry in the heap, that an entry     *)
(* names a call that is queued or finished, and that entries are told      *)
(* apart by their call and by their arrival.                               *)
(***************************************************************************)

\* Every queued call is in the heap, and nobody else who could still be served.
HeapMatchesTasks ==
    /\ \A c \in Calls : task[c] = "queued" => \E w \in waiters : w.call = c
    /\ \A w \in waiters : task[w.call] \in {"queued", "done"}

\* Entries are numbered and named apart.
EntriesDistinct ==
    /\ \A w \in waiters : w.seq <= sequence /\ w.priority = Rank(w.call)
    /\ \A v, w \in waiters : v.call = w.call \/ v.seq = w.seq => v = w

LockInv ==
    /\ LockTypeOK
    /\ MutualExclusion
    /\ NoLostWakeup
    /\ HeapMatchesTasks
    /\ EntriesDistinct

\* The invariant holds before the first command.
LEMMA LockInvInit == LockInit => LockInv
<1> SUFFICES ASSUME LockInit
             PROVE  LockInv
  OBVIOUS
<1>1. Holders = {}
  BY DEF LockInit, Holders
<1>2. LockTypeOK
  BY DEF LockInit, LockTypeOK, TaskState
<1>3. NoLostWakeup
  BY <1>1 DEF LockInit, NoLostWakeup
<1>. QED
  BY <1>1, <1>2, <1>3 DEF LockInit, LockInv, MutualExclusion, HeapMatchesTasks,
     EntriesDistinct

\* release(), run by the one call that holds the lock, keeps the invariant: it
\* frees the lock only when no queued call is left, and otherwise makes exactly
\* one of them the next holder.
LEMMA HandOnKeepsInv ==
  ASSUME LockInv, NEW c \in Calls, c \in Holders, HandOn(c)
  PROVE  LockInv'
<1> USE DEF LockInv, LockTypeOK
<1>1. CASE Live = {} /\ held' = FALSE /\ waiters' = {}
           /\ task' = [task EXCEPT ![c] = "done"]
  <2>1. \A d \in Calls : task[d] # "queued"
    BY <1>1 DEF Live, HeapMatchesTasks
  <2>2. Holders' = {}
    BY <1>1 DEF Holders, MutualExclusion
  <2>. QED
    BY <1>1, <2>1, <2>2 DEF HandOn, MutualExclusion, NoLostWakeup, HeapMatchesTasks,
       EntriesDistinct, TaskState
<1>2. ASSUME NEW w \in Live,
             waiters' = {v \in waiters : Before(w, v)},
             task' = [task EXCEPT ![c] = "done", ![w.call] = "granted"],
             \A v \in Live \ {w} : Before(w, v),
             UNCHANGED held
      PROVE  LockInv'
  <2>1. w \in waiters /\ w.call \in Calls /\ task[w.call] = "queued" /\ w.call # c
    BY <1>2 DEF Live, Entry, Holders
  <2>2. Holders' = {w.call}
    BY <1>2, <2>1 DEF Holders, MutualExclusion
  <2>3. LockTypeOK'
    BY <1>2, <2>1 DEF HandOn, TaskState
  <2>4. MutualExclusion' /\ NoLostWakeup'
    BY <1>2, <2>1, <2>2 DEF MutualExclusion, NoLostWakeup
  <2>5. ASSUME NEW d \in Calls, task'[d] = "queued"
        PROVE  \E v \in waiters' : v.call = d
    <3>1. d # c /\ d # w.call /\ task[d] = "queued"
      BY <1>2, <2>1, <2>5
    <3>2. PICK v \in waiters : v.call = d
      BY <3>1 DEF HeapMatchesTasks
    <3>3. v \in Live \ {w}
      BY <3>1, <3>2 DEF Live
    <3>. QED
      BY <1>2, <3>2, <3>3
  <2>6. ASSUME NEW v \in waiters'
        PROVE  task'[v.call] \in {"queued", "done"}
    <3>1. v \in waiters /\ Before(w, v)
      BY <1>2
    <3>2. v # w
      BY <2>1, <3>1 DEF Before, Entry
    <3>3. v.call # w.call
      BY <2>1, <3>1, <3>2 DEF EntriesDistinct
    <3>. QED
      BY <1>2, <2>1, <3>1, <3>3 DEF HeapMatchesTasks, Entry
  <2>7. EntriesDistinct'
    BY <1>2 DEF EntriesDistinct, HandOn, Rank
  <2>. QED
    BY <2>3, <2>4, <2>5, <2>6, <2>7 DEF HeapMatchesTasks
<1>. QED
  BY <1>1, <1>2 DEF HandOn

\* Every operation of the lock, and every cancellation, keeps the invariant.
LEMMA LockInvStep == LockInv /\ [LockNext]_lockVars => LockInv'
<1> SUFFICES ASSUME LockInv, [LockNext]_lockVars
             PROVE  LockInv'
  OBVIOUS
<1> USE DEF LockInv, LockTypeOK, TaskState
<1>1. ASSUME NEW c \in Calls, AcquireFree(c)
      PROVE  LockInv'
  BY <1>1 DEF AcquireFree, MutualExclusion, NoLostWakeup, Holders,
     HeapMatchesTasks, EntriesDistinct
<1>2. ASSUME NEW c \in Calls, AcquireWait(c)
      PROVE  LockInv'
  <2> DEFINE e == [priority |-> Rank(c), seq |-> sequence + 1, call |-> c]
  <2>1. e \in Entry /\ e.call = c /\ e.seq = sequence + 1 /\ e.priority = Rank(c)
    BY DEF Entry, Rank
  <2>2. waiters' = waiters \cup {e} /\ sequence' = sequence + 1
    BY <1>2 DEF AcquireWait
  <2>3. LockTypeOK'
    BY <1>2, <2>1, <2>2 DEF AcquireWait
  <2>4. Holders' = Holders
    BY <1>2 DEF AcquireWait, Holders
  <2>5. MutualExclusion' /\ NoLostWakeup'
    BY <1>2, <2>4 DEF AcquireWait, MutualExclusion, NoLostWakeup
  <2>6. HeapMatchesTasks'
    BY <1>2, <2>1, <2>2 DEF AcquireWait, HeapMatchesTasks, Entry
  <2>7. \A w \in waiters : w.call # c /\ w.seq # sequence + 1 /\ w.seq \in Nat
    BY <1>2 DEF AcquireWait, HeapMatchesTasks, EntriesDistinct, Entry
  <2>8. EntriesDistinct'
    BY <2>1, <2>2, <2>7 DEF EntriesDistinct, Rank
  <2>. QED
    BY <2>3, <2>5, <2>6, <2>8
<1>3. ASSUME NEW c \in Calls, Resume(c)
      PROVE  LockInv'
  BY <1>3 DEF Resume, MutualExclusion, NoLostWakeup, Holders,
     HeapMatchesTasks, EntriesDistinct
<1>4. ASSUME NEW c \in Calls, Release(c)
      PROVE  LockInv'
  BY <1>4, HandOnKeepsInv DEF Release, Holders
<1>5. ASSUME NEW c \in Calls, CancelQueued(c)
      PROVE  LockInv'
  BY <1>5 DEF CancelQueued, MutualExclusion, NoLostWakeup, Holders,
     HeapMatchesTasks, EntriesDistinct
<1>6. ASSUME NEW c \in Calls, CancelGranted(c)
      PROVE  LockInv'
  BY <1>6 DEF CancelGranted, MutualExclusion, NoLostWakeup, Holders,
     HeapMatchesTasks, EntriesDistinct
<1>7. ASSUME NEW c \in Calls, PassOn(c)
      PROVE  LockInv'
  BY <1>7, HandOnKeepsInv DEF PassOn, Holders
<1>8. CASE UNCHANGED lockVars
  BY <1>8 DEF lockVars, MutualExclusion, NoLostWakeup, Holders,
     HeapMatchesTasks, EntriesDistinct
<1>. QED
  BY <1>1, <1>2, <1>3, <1>4, <1>5, <1>6, <1>7, <1>8 DEF LockNext

\* The lock keeps its heap, its tasks and its flag consistent for any set of calls.
THEOREM LockInvariant == LockSpec => []LockInv
  BY LockInvInit, LockInvStep, PTL DEF LockSpec

\* The charger's interface has one writer at a time, whatever the number of
\* commands, their order and the moments they are cancelled.
THEOREM LockExcludes == LockSpec => []MutualExclusion
<1>1. LockInv => MutualExclusion
  BY DEF LockInv
<1>. QED
  BY <1>1, LockInvariant, PTL

\* The lock is never left held with nobody to release it, nor free with
\* somebody waiting for it.
THEOREM LockNeverStranded == LockSpec => []NoLostWakeup
<1>1. LockInv => NoLostWakeup
  BY DEF LockInv
<1>. QED
  BY <1>1, LockInvariant, PTL

-------------------------------------------------------------------------------
(* The refinement.  A completed future is already ownership, a cancelled    *)
(* future is already gone from the line, and the loop resuming a task is a  *)
(* stuttering step of PriorityMutex.                                        *)

\* release() is the abstract owner leaving.
LEMMA HandOnIsLeave ==
  ASSUME LockInv, LockInv', NEW c \in Calls, c \in Holders, HandOn(c)
  PROVE  Mutex!Leave
<1> USE DEF LockInv, LockTypeOK
<1>1. Holders = {c}
  BY DEF MutualExclusion, Holders
<1>2. CASE Live = {} /\ held' = FALSE /\ waiters' = {}
           /\ task' = [task EXCEPT ![c] = "done"]
  <2>1. Holders' = {} /\ Live' = {}
    BY <1>1, <1>2 DEF Holders, Live
  <2>. QED
    BY <1>1, <1>2, <2>1 DEF HandOn, Mutex!Leave
<1>3. ASSUME NEW w \in Live,
             waiters' = {v \in waiters : Before(w, v)},
             task' = [task EXCEPT ![c] = "done", ![w.call] = "granted"],
             \A v \in Live \ {w} : Before(w, v)
      PROVE  Mutex!Leave
  <2>1. w \in waiters /\ w.call \in Calls /\ task[w.call] = "queued" /\ w.call # c
    BY <1>3 DEF Live, Entry, Holders
  <2>2. Holders' = {w.call}
    BY <1>1, <1>3, <2>1 DEF Holders
  <2>3. ASSUME NEW v \in waiters
        PROVE  v \in Live' <=> v \in Live /\ v # w
    <3>1. v.call \in Calls /\ (v.call = w.call => v = w)
      BY <2>1 DEF Entry, EntriesDistinct
    <3>2. CASE v = w
      BY <3>2, <1>3, <2>1 DEF Live, Before, Entry
    <3>3. CASE v # w
      <4>1. v.call # w.call
        BY <3>1, <3>3
      <4>2. task'[v.call] = "queued" <=> task[v.call] = "queued"
        BY <4>1, <3>1, <1>3, <2>1 DEF Holders
      <4>. QED
        BY <3>3, <4>2, <1>3 DEF Live
    <3>. QED
      BY <3>2, <3>3
  <2>4. Live' = Live \ {w}
    BY <2>3, <1>3 DEF Live
  <2>5. \A v \in Live \ {w} : Mutex!Before(w, v)
    BY <1>3 DEF Before, Mutex!Before
  <2>. QED
    BY <1>1, <1>3, <2>2, <2>4, <2>5 DEF HandOn, Mutex!Leave
<1>. QED
  BY <1>2, <1>3 DEF HandOn

\* Every operation of the lock is a step of PriorityMutex or none.
LEMMA LockStepRefines ==
  ASSUME LockInv, LockInv', [LockNext]_lockVars
  PROVE  [Mutex!MutexNext]_(Mutex!mutexVars)
<1> USE DEF LockInv, LockTypeOK
<1> DEFINE Stutter == UNCHANGED <<Holders, Live, sequence>>
<1>1. ASSUME NEW c \in Calls, AcquireFree(c)
      PROVE  Mutex!Enter(c)
  <2>1. Holders = {} /\ Holders' = {c}
    BY <1>1 DEF AcquireFree, Holders, NoLostWakeup
  <2>2. Live' = Live
    BY <1>1 DEF AcquireFree, Live, HeapMatchesTasks, Entry
  <2>. QED
    BY <1>1, <2>1, <2>2 DEF AcquireFree, Mutex!Enter
<1>2. ASSUME NEW c \in Calls, AcquireWait(c)
      PROVE  Mutex!Join(c)
  <2> DEFINE e == [priority |-> Rank(c), seq |-> sequence + 1, call |-> c]
  <2>1. Holders # {} /\ Holders' = Holders
    BY <1>2 DEF AcquireWait, Holders, NoLostWakeup
  <2>2. \A w \in waiters : w.call # c /\ w.call \in Calls
    BY <1>2 DEF AcquireWait, HeapMatchesTasks, Entry
  <2>3. e.call = c
    OBVIOUS
  <2>4. task' = [task EXCEPT ![c] = "queued"] /\ waiters' = waiters \cup {e}
    BY <1>2 DEF AcquireWait
  <2>5. Live' = Live \cup {e}
    BY <2>2, <2>3, <2>4 DEF Live
  <2>. QED
    BY <1>2, <2>1, <2>5 DEF AcquireWait, Mutex!Join, Mutex!Rank, Rank
<1>3. ASSUME NEW c \in Calls, Resume(c) \/ CancelGranted(c)
      PROVE  Stutter
  <2>1. Holders' = Holders
    BY <1>3 DEF Resume, CancelGranted, Holders
  <2>2. Live' = Live
    BY <1>3 DEF Resume, CancelGranted, Live, HeapMatchesTasks, Entry
  <2>. QED
    BY <1>3, <2>1, <2>2 DEF Resume, CancelGranted
<1>4. ASSUME NEW c \in Calls, Release(c) \/ PassOn(c)
      PROVE  Mutex!Leave
  BY <1>4, HandOnIsLeave DEF Release, PassOn, Holders
<1>5. ASSUME NEW c \in Calls, CancelQueued(c)
      PROVE  \E w \in Live : Mutex!GiveUp(w)
  <2>1. PICK w \in waiters : w.call = c
    BY <1>5 DEF CancelQueued, HeapMatchesTasks
  <2>2. w \in Live
    BY <1>5, <2>1 DEF CancelQueued, Live
  <2>3. Holders' = Holders
    BY <1>5 DEF CancelQueued, Holders
  <2>4. Live' = Live \ {w}
    BY <1>5, <2>1 DEF CancelQueued, Live, EntriesDistinct, Entry
  <2>. QED
    BY <1>5, <2>2, <2>3, <2>4 DEF CancelQueued, Mutex!GiveUp
<1>6. ASSUME UNCHANGED lockVars
      PROVE  Stutter
  BY <1>6 DEF lockVars, Holders, Live
<1>7. ASSUME Stutter
      PROVE  UNCHANGED Mutex!mutexVars
  BY <1>7 DEF Mutex!mutexVars
<1>8. ASSUME NEW c \in Calls,
             \/ AcquireFree(c) \/ AcquireWait(c) \/ Resume(c) \/ Release(c)
             \/ CancelQueued(c) \/ CancelGranted(c) \/ PassOn(c)
      PROVE  Mutex!MutexNext \/ Stutter
  <2>1. CASE AcquireFree(c)
    BY <1>1, <2>1 DEF Mutex!MutexNext
  <2>2. CASE AcquireWait(c)
    BY <1>2, <2>2 DEF Mutex!MutexNext
  <2>3. CASE Resume(c) \/ CancelGranted(c)
    BY <1>3, <2>3
  <2>4. CASE Release(c) \/ PassOn(c)
    BY <1>4, <2>4 DEF Mutex!MutexNext
  <2>5. CASE CancelQueued(c)
    BY <1>5, <2>5 DEF Mutex!MutexNext
  <2>. QED
    BY <1>8, <2>1, <2>2, <2>3, <2>4, <2>5
<1>. QED
  BY <1>6, <1>7, <1>8 DEF LockNext

\* The heap of futures implements the abstract lock: Stop before ordinary
\* commands, arrival order within a rank, no gap between two owners.
THEOREM LockImplementsMutex == LockSpec => MutexRefinement
<1>1. LockInit => Mutex!MutexInit
  <2> SUFFICES ASSUME LockInit
               PROVE  Mutex!MutexInit
    OBVIOUS
  <2>1. Holders = {} /\ Live = {}
    BY DEF LockInit, Holders, Live
  <2>. QED
    BY <2>1 DEF LockInit, Mutex!MutexInit
<1>2. LockInv /\ LockInv' /\ [LockNext]_lockVars => [Mutex!MutexNext]_(Mutex!mutexVars)
  BY LockStepRefines
<1>. QED
  BY <1>1, <1>2, LockInvariant, PTL DEF LockSpec, MutexRefinement, Mutex!MutexSpec

-------------------------------------------------------------------------------
(***************************************************************************)
(* The manager. Its invariant adds to the lock's what one call's place in  *)
(* the critical section says of its counters, of the manager's two markers *)
(* and of the pacing clock.                                                *)
(***************************************************************************)

-------------------------------------------------------------------------------
(* The lock.                                                               *)

\* What the critical section does to the lock's variables is one of the lock's steps.
LEMMA StepUsesLock == [Next]_vars => [LockNext]_lockVars
<1> SUFFICES ASSUME [Next]_vars
             PROVE  [LockNext]_lockVars
  OBVIOUS
<1>1. ASSUME NEW c \in Calls, NEW o, Finish(c, o)
      PROVE  LockNext
  BY <1>1 DEF Finish, LockNext
<1>2. ASSUME NEW c \in Calls, Submit(c)
      PROVE  LockNext
  BY <1>2 DEF Submit, LockNext
<1>3. ASSUME NEW c \in Calls, GetLock(c)
      PROVE  LockNext
  BY <1>3 DEF GetLock, LockNext
<1>4. ASSUME NEW c \in Calls,
             \/ Veto(c) \/ StopAtWire(c) \/ Accepted(c) \/ Unauthorized(c)
             \/ GiveUp(c) \/ Unexpected(c) \/ CancelOwner(c)
      PROVE  LockNext
  BY <1>1, <1>4 DEF Veto, StopAtWire, Accepted, Unauthorized, GiveUp, Unexpected, CancelOwner
<1>5. ASSUME NEW c \in Calls, CancelWaiting(c) \/ Withdraw(c)
      PROVE  LockNext
  BY <1>5 DEF CancelWaiting, Withdraw, LockNext
<1>6. ASSUME NEW c \in Calls,
             Refuse(c) \/ Post(c) \/ Apply(c) \/ Retry(c) \/ ChangeDue(c)
      PROVE  UNCHANGED lockVars
  BY <1>6 DEF Refuse, Post, Apply, Retry, ChangeDue
<1>7. ASSUME Pace \/ RecogniseReve \/ BeginShutdown \/ UNCHANGED vars
      PROVE  UNCHANGED lockVars
  BY <1>7 DEF Pace, RecogniseReve, BeginShutdown, vars
<1>. QED
  BY <1>2, <1>3, <1>4, <1>5, <1>6, <1>7 DEF Next, Progress

\* The command manager is a user of the lock like any other: whatever it does between
\* acquire() and release(), it touches the lock only through them.
THEOREM ManagerUsesLock == Spec => UsesLock
<1>1. Init => LockInit
  BY DEF Init
<1>. QED
  BY <1>1, StepUsesLock, PTL DEF Spec, UsesLock, LockSpec

\* The commands of a charger are served as PriorityMutex says: one at a time, Stop
\* before ordinary commands, the others in the order they came, cancellations included.
THEOREM ManagerImplementsMutex == Spec => MutexRefinement
  BY ManagerUsesLock, LockImplementsMutex, PTL DEF UsesLock

-------------------------------------------------------------------------------
(* The invariant.                                                          *)

\* A call in the critical section is the lock's owner, and the other way round.
PhaseIsOwnership == \A c \in Calls : phase[c] # "out" <=> task[c] = "owner"

\* A call has no outcome while it is under way.
NoOutcomeYet(c) ==
    /\ task[c] \notin {"new", "done"} => result[c] = "none"
    /\ result[c] = "none" => told[c] = "none"

\* Where a call is says what it has sent and what the charger made of it.
CountersFollow(c) ==
    /\ task[c] # "owner" /\ result[c] = "none" => attempt[c] = 0 /\ applied[c] = 0
    /\ phase[c] = "pacing" => attempt[c] = 0 /\ applied[c] = 0
    /\ phase[c] \in {"posted", "backoff"} => applied[c] <= attempt[c]
    /\ phase[c] = "answering" => applied[c] > 0 /\ applied[c] <= attempt[c] + 1
    /\ attempt[c] <= Budget(c)

\* While a call is past its pacing the markers are its own.
MarkersAreOwn(c) ==
    phase[c] \in {"posted", "answering", "backoff"} =>
        lastFailure = "none" /\ (graphqlWrite => c \in ReveCalls)

\* The pacing clock runs from the last request, or the call that made it is under way.
ClockIsRunning ==
    ~quiet => \/ lastCommand = "recent"
              \/ \E c \in Calls : phase[c] \in {"posted", "answering", "backoff"}

CommandInv ==
    /\ TypeOK
    /\ LockInv
    /\ PhaseIsOwnership
    /\ \A c \in Calls : NoOutcomeYet(c) /\ CountersFollow(c) /\ MarkersAreOwn(c)
    /\ ClockIsRunning
    /\ AnswersAreHonest

\* The invariant holds before the first call.
LEMMA CommandInvInit == Init => CommandInv
<1> SUFFICES ASSUME Init
             PROVE  CommandInv
  OBVIOUS
<1>1. LockInv
  BY LockInvInit DEF Init
<1>2. TypeOK
  BY <1>1 DEF Init, TypeOK, LockInv, Phase, Result, Failure
<1>3. PhaseIsOwnership
  BY DEF Init, LockInit, PhaseIsOwnership
<1>4. \A c \in Calls : Budget(c) \in Nat
  BY CommandAssumption DEF Budget
<1>5. \A c \in Calls : NoOutcomeYet(c) /\ CountersFollow(c) /\ MarkersAreOwn(c)
  <2> SUFFICES ASSUME NEW c \in Calls
               PROVE  NoOutcomeYet(c) /\ CountersFollow(c) /\ MarkersAreOwn(c)
    OBVIOUS
  <2>1. phase[c] = "out" /\ attempt[c] = 0 /\ applied[c] = 0 /\ told[c] = "none"
    BY DEF Init
  <2>2. result[c] = "none"
    BY DEF Init
  <2>. QED
    BY <1>4, <2>1, <2>2 DEF NoOutcomeYet, CountersFollow, MarkersAreOwn
<1>6. ClockIsRunning /\ AnswersAreHonest
  BY <1>4 DEF Init, ClockIsRunning, AnswersAreHonest, OutcomeIsHonest, BlameIsOwn
<1>. QED
  BY <1>1, <1>2, <1>3, <1>5, <1>6 DEF CommandInv

\* While one call is in the critical section all others are outside it.
LEMMA OthersAreOut ==
  ASSUME CommandInv, NEW c \in Calls, task[c] = "owner"
  PROVE  \A d \in Calls \ {c} : task[d] # "owner" /\ phase[d] = "out"
BY DEF CommandInv, LockInv, MutualExclusion, Holders, PhaseIsOwnership

\* release() ends the call that runs it and can only wake one that was queued.
LEMMA HandOnWakesQueued ==
  ASSUME LockInv, NEW c \in Calls, task[c] # "queued", HandOn(c)
  PROVE  /\ task'[c] = "done"
         /\ \A d \in Calls \ {c} :
               \/ task'[d] = task[d]
               \/ task[d] = "queued" /\ task'[d] = "granted"
<1>1. ASSUME NEW w \in Live
      PROVE  w.call \in Calls /\ task[w.call] = "queued"
  BY <1>1 DEF Live, Entry, LockInv, LockTypeOK
<1>. QED
  BY <1>1 DEF HandOn, LockInv, LockTypeOK

\* A call that ends keeps the invariant if its outcome agrees with its counters, the
\* reason it is told is its own, and the pacing clock is set after its requests.
LEMMA FinishKeepsInv ==
  ASSUME CommandInv, LockInv',
         NEW c \in Calls, NEW outcome \in Result \ {"none"}, Finish(c, outcome),
         lastCommand' \in {"never", "recent", "old"},
         lastFailure' \in Failure, graphqlWrite' \in BOOLEAN, UNCHANGED worldVars,
         ~quiet' => lastCommand' = "recent",
         outcome = "accepted" => applied[c] > 0,
         outcome \in {"vetoed", "refused"} /\ attempt[c] = 0 => applied[c] = 0,
         lastFailure' = "reve_not_answering" /\ outcome \in Reported =>
             outcome = "failed" /\ c \in ReveCalls
  PROVE  CommandInv'
<1> USE DEF CommandInv
<1>1. task[c] = "owner" /\ HandOn(c)
  BY DEF Finish, Release
<1>2. \A d \in Calls \ {c} : task[d] # "owner" /\ phase[d] = "out"
  BY <1>1, OthersAreOut
<1>3. /\ task'[c] = "done"
      /\ \A d \in Calls \ {c} :
            \/ task'[d] = task[d]
            \/ task[d] = "queued" /\ task'[d] = "granted"
  BY <1>1, HandOnWakesQueued
<1>4. /\ phase' = [phase EXCEPT ![c] = "out"] /\ result' = [result EXCEPT ![c] = outcome]
      /\ told' = [told EXCEPT ![c] = IF outcome \in Reported THEN lastFailure' ELSE @]
      /\ UNCHANGED <<attempt, applied, due, reveSeen, shuttingDown>>
  BY DEF Finish, worldVars
<1>5. quiet' \in BOOLEAN
  BY DEF Finish
<1>6. TypeOK'
  BY <1>4, <1>5 DEF TypeOK, LockInv, Phase
<1>7. \A d \in Calls : phase'[d] = "out"
  BY <1>2, <1>4 DEF TypeOK
<1>8. PhaseIsOwnership'
  BY <1>2, <1>3, <1>7 DEF PhaseIsOwnership
<1>9. result[c] = "none" /\ told[c] = "none"
  BY <1>1 DEF NoOutcomeYet
<1>10. ASSUME NEW d \in Calls
       PROVE  NoOutcomeYet(d)' /\ CountersFollow(d)' /\ MarkersAreOwn(d)'
  <2>1. MarkersAreOwn(d)'
    BY <1>7 DEF MarkersAreOwn
  <2>2. CASE d = c
    BY <2>1, <2>2, <1>3, <1>4, <1>7 DEF NoOutcomeYet, CountersFollow, Budget, TypeOK, Result
  <2>3. CASE d # c
    <3>1. result'[d] = result[d] /\ told'[d] = told[d]
      BY <2>3, <1>4 DEF TypeOK
    <3>. QED
      BY <2>1, <2>3, <3>1, <1>2, <1>3, <1>4, <1>7 DEF NoOutcomeYet, CountersFollow, Budget
  <2>. QED
    BY <2>2, <2>3
<1>11. ClockIsRunning'
  BY DEF ClockIsRunning
<1>12. AnswersAreHonest'
  <2>1. OutcomeIsHonest'
    <3>1. applied[c] <= Budget(c) + 1
      BY <1>1, CommandAssumption DEF CountersFollow, TypeOK, Budget, PhaseIsOwnership, Phase
    <3>. QED
      BY <3>1, <1>4 DEF AnswersAreHonest, OutcomeIsHonest, TypeOK, Budget
  <2>2. BlameIsOwn'
    BY <1>3, <1>4, <1>9 DEF AnswersAreHonest, BlameIsOwn, TypeOK
  <2>. QED
    BY <2>1, <2>2 DEF AnswersAreHonest
<1>. QED
  BY <1>6, <1>8, <1>10, <1>11, <1>12

\* Getting in, refused at the door, or cancelled before the critical section.
LEMMA EnterKeepsInv ==
  ASSUME CommandInv, LockInv', NEW c \in Calls,
         Submit(c) \/ Refuse(c) \/ GetLock(c) \/ CancelWaiting(c) \/ Withdraw(c)
  PROVE  CommandInv'
<1> USE DEF CommandInv
<1>1. UNCHANGED <<attempt, applied, lastCommand, lastFailure, graphqlWrite, due, reveSeen,
                  shuttingDown, quiet>>
  BY DEF Submit, Refuse, GetLock, CancelWaiting, Withdraw, managerVars, worldVars
<1>2. CASE Submit(c) \/ GetLock(c)
  <2>1. UNCHANGED <<result, told>> /\ result[c] = "none" /\ task[c] # "owner"
    BY <1>2 DEF Submit, GetLock, Resume, NoOutcomeYet, AcquireFree, AcquireWait
  <2>2. \/ /\ task' = [task EXCEPT ![c] = "owner"]
           /\ phase' = [phase EXCEPT ![c] = "pacing"]
        \/ /\ task' = [task EXCEPT ![c] = "queued"]
           /\ UNCHANGED phase
    BY <1>2 DEF Submit, GetLock, Resume, AcquireFree, AcquireWait
  <2>3. TypeOK'
    BY <1>1, <2>1, <2>2 DEF TypeOK, LockInv, Phase
  <2>4. PhaseIsOwnership'
    BY <2>1, <2>2 DEF PhaseIsOwnership, TypeOK, LockInv, LockTypeOK
  <2>5. ASSUME NEW d \in Calls
        PROVE  NoOutcomeYet(d)' /\ CountersFollow(d)' /\ MarkersAreOwn(d)'
    BY <1>1, <2>1, <2>2 DEF NoOutcomeYet, CountersFollow, MarkersAreOwn, Budget, TypeOK,
       LockInv, LockTypeOK, PhaseIsOwnership
  <2>6. ClockIsRunning'
    BY <1>1, <2>1, <2>2 DEF ClockIsRunning, PhaseIsOwnership, TypeOK
  <2>7. AnswersAreHonest'
    BY <1>1, <2>1, <2>2 DEF AnswersAreHonest, OutcomeIsHonest, BlameIsOwn, Budget, NoOutcomeYet,
       TypeOK, LockInv, LockTypeOK
  <2>. QED
    BY <2>3, <2>4, <2>5, <2>6, <2>7
<1>3. CASE Refuse(c)
  <2>1. /\ result' = [result EXCEPT ![c] = "refused"] /\ told' = [told EXCEPT ![c] = lastFailure]
        /\ UNCHANGED <<phase, lockVars>> /\ task[c] = "new" /\ result[c] = "none"
    BY <1>3 DEF Refuse
  <2>2. TypeOK'
    BY <1>1, <2>1 DEF TypeOK, LockInv, Result
  <2>3. ASSUME NEW d \in Calls
        PROVE  NoOutcomeYet(d)' /\ CountersFollow(d)' /\ MarkersAreOwn(d)'
    BY <1>1, <2>1 DEF NoOutcomeYet, CountersFollow, MarkersAreOwn, Budget, TypeOK, lockVars,
       PhaseIsOwnership
  <2>4. PhaseIsOwnership' /\ ClockIsRunning'
    BY <1>1, <2>1 DEF PhaseIsOwnership, ClockIsRunning, lockVars
  <2>5. AnswersAreHonest'
    BY <1>1, <2>1 DEF AnswersAreHonest, OutcomeIsHonest, BlameIsOwn, Budget, CountersFollow,
       TypeOK, lockVars
  <2>. QED
    BY <2>2, <2>3, <2>4, <2>5
<1>4. CASE CancelWaiting(c) \/ Withdraw(c)
  <2>1. task[c] \in {"queued", "granted", "withdrawn"} /\ result[c] = "none"
    BY <1>4 DEF CancelWaiting, Withdraw, CancelQueued, CancelGranted, PassOn, NoOutcomeYet
  <2>2. UNCHANGED <<phase, told>>
    BY <1>4 DEF CancelWaiting, Withdraw
  <2>3. \/ task'[c] = "withdrawn" /\ UNCHANGED result
        \/ task'[c] = "done" /\ result' = [result EXCEPT ![c] = "cancelled"]
    BY <1>4 DEF CancelWaiting, Withdraw, CancelQueued, CancelGranted, PassOn, HandOn, Live, Entry,
       LockInv, LockTypeOK
  <2>4. ASSUME NEW d \in Calls, d # c
        PROVE  \/ task'[d] = task[d]
               \/ task[d] = "queued" /\ task'[d] = "granted"
    BY <1>4, <2>4, HandOnWakesQueued DEF CancelWaiting, Withdraw, CancelQueued, CancelGranted,
       PassOn, LockInv, LockTypeOK
  <2>5. TypeOK'
    BY <1>1, <2>2, <2>3 DEF TypeOK, LockInv, Result
  <2>6. PhaseIsOwnership' /\ ClockIsRunning'
    BY <1>1, <2>1, <2>2, <2>3, <2>4 DEF PhaseIsOwnership, ClockIsRunning
  <2>7. ASSUME NEW d \in Calls
        PROVE  NoOutcomeYet(d)' /\ CountersFollow(d)' /\ MarkersAreOwn(d)'
    BY <1>1, <2>1, <2>2, <2>3, <2>4 DEF NoOutcomeYet, CountersFollow, MarkersAreOwn, Budget,
       TypeOK
  <2>8. AnswersAreHonest'
    BY <1>1, <2>1, <2>2, <2>3, <2>4 DEF AnswersAreHonest, OutcomeIsHonest, BlameIsOwn, Budget,
       NoOutcomeYet, CountersFollow, TypeOK
  <2>. QED
    BY <2>5, <2>6, <2>7, <2>8
<1>. QED
  BY <1>2, <1>3, <1>4

\* A request goes out, is carried out, or is to be sent again.
LEMMA AttemptKeepsInv ==
  ASSUME CommandInv, LockInv', NEW c \in Calls, Post(c) \/ Apply(c) \/ Retry(c)
  PROVE  CommandInv'
<1> USE DEF CommandInv
<1>1. /\ UNCHANGED <<result, told, lastCommand, due, reveSeen, shuttingDown>>
      /\ UNCHANGED task /\ UNCHANGED lockVars
  BY DEF Post, Apply, Retry, managerVars, worldVars, lockVars
<1>2. phase[c] # "out" /\ task[c] = "owner" /\ result[c] = "none"
  BY DEF Post, Apply, Retry, Ready, OnWire, PhaseIsOwnership, NoOutcomeYet
<1>3. \A d \in Calls \ {c} : task[d] # "owner" /\ phase[d] = "out"
  BY <1>2, OthersAreOut
<1>4. PICK p \in {"posted", "answering", "backoff"} : phase' = [phase EXCEPT ![c] = p]
  BY DEF Post, Apply, Retry
<1>5. Budget(c) \in Nat
  BY CommandAssumption DEF Budget
<1>6. /\ attempt' \in [Calls -> Nat] /\ applied' \in [Calls -> Nat]
      /\ lastFailure' \in Failure /\ graphqlWrite' \in BOOLEAN /\ quiet' \in BOOLEAN
  <2>1. attempt' \in [Calls -> Nat] /\ applied' \in [Calls -> Nat]
    BY DEF Post, Apply, Retry, TypeOK
  <2>2. lastFailure' \in Failure
    BY DEF Post, Apply, Retry, TypeOK, managerVars, Failure
  <2>3. graphqlWrite' \in BOOLEAN /\ quiet' \in BOOLEAN
    BY Zenon DEF Post, Apply, Retry, TypeOK, managerVars
  <2>. QED
    BY <2>1, <2>2, <2>3
<1>7. TypeOK'
  BY <1>1, <1>4, <1>6 DEF TypeOK, LockInv, Phase
<1>8. PhaseIsOwnership'
  BY <1>1, <1>2, <1>4 DEF PhaseIsOwnership, TypeOK
<1>9. CountersFollow(c)' /\ MarkersAreOwn(c)'
  <2>1. CASE Post(c)
    <3>1. CountersFollow(c)'
      BY <1>1, <1>2, <1>5, <2>1 DEF Post, Ready, CountersFollow, TypeOK, Budget
    <3>2. lastFailure' = "none"
      BY <2>1 DEF Post, Ready, Fresh, MarkersAreOwn
    <3>3. graphqlWrite' => c \in ReveCalls
      BY <2>1 DEF Post, Ready, Fresh, MarkersAreOwn
    <3>. QED
      BY <3>1, <3>2, <3>3 DEF MarkersAreOwn
  <2>2. CASE Apply(c) \/ Retry(c)
    BY <1>1, <1>2, <1>5, <2>2 DEF Apply, Retry, OnWire, CountersFollow, MarkersAreOwn, TypeOK,
       Budget, managerVars
  <2>. QED
    BY <2>1, <2>2
<1>10. \A d \in Calls \ {c} : attempt'[d] = attempt[d] /\ applied'[d] = applied[d]
  BY DEF Post, Apply, Retry, TypeOK
<1>11. ASSUME NEW d \in Calls
       PROVE  NoOutcomeYet(d)' /\ CountersFollow(d)' /\ MarkersAreOwn(d)'
  BY <1>1, <1>3, <1>4, <1>9, <1>10 DEF NoOutcomeYet, CountersFollow, MarkersAreOwn, Budget, TypeOK
<1>12. ClockIsRunning'
  BY <1>4 DEF ClockIsRunning, TypeOK
<1>13. AnswersAreHonest'
  <2>1. \A d \in Calls \ {c} : applied'[d] <= Budget(d) + 1
    BY <1>10 DEF AnswersAreHonest, OutcomeIsHonest
  <2>2. phase'[c] \in {"posted", "answering", "backoff"}
    BY <1>4 DEF TypeOK
  <2>3. applied'[c] <= Budget(c) + 1
    BY <1>5, <1>6, <1>9, <2>2 DEF CountersFollow, Budget
  <2>. QED
    BY <1>1, <1>2, <1>10, <2>1, <2>3 DEF AnswersAreHonest, OutcomeIsHonest, BlameIsOwn, Budget
<1>. QED
  BY <1>7, <1>8, <1>11, <1>12, <1>13

\* Every way out of the critical section.
LEMMA LeaveKeepsInv ==
  ASSUME CommandInv, LockInv', NEW c \in Calls,
         \/ Veto(c) \/ StopAtWire(c) \/ Accepted(c) \/ Unauthorized(c)
         \/ GiveUp(c) \/ Unexpected(c) \/ CancelOwner(c)
  PROVE  CommandInv'
<1> USE DEF CommandInv
<1>1. CountersFollow(c) /\ MarkersAreOwn(c) /\ task[c] = "owner"
  BY DEF Veto, StopAtWire, Accepted, Unauthorized, GiveUp, Unexpected, CancelOwner, Finish, Release
<1>2. phase[c] = "pacing" => quiet \/ lastCommand = "recent"
  BY <1>1, OthersAreOut DEF ClockIsRunning
<1>3. lastFailure \in Failure /\ graphqlWrite \in BOOLEAN
      /\ lastCommand \in {"never", "recent", "old"}
  BY DEF TypeOK
<1>4. CASE Veto(c)
  <2>1. lastFailure' = "none" /\ graphqlWrite' \in BOOLEAN
    BY <1>1, <1>3, <1>4 DEF Veto, ResetMarkers, Ready, Fresh, MarkersAreOwn
  <2>2. Fresh(c) \/ lastCommand' = "recent"
    BY <1>4 DEF Veto, Stamp
  <2>3. lastCommand' \in {"never", "recent", "old"} /\ (quiet' <=> quiet)
    BY <1>3, <1>4 DEF Veto, Ready, Finish, Stamp, OnWire
  <2>4. ~quiet' => lastCommand' = "recent"
    BY <1>2, <1>4, <2>2, <2>3 DEF Veto, Stamp, Fresh
  <2>5. attempt[c] = 0 => applied[c] = 0
    BY <1>1, <1>4 DEF Veto, Ready, CountersFollow, TypeOK
  <2>. QED
    BY <1>4, <2>1, <2>3, <2>4, <2>5, FinishKeepsInv DEF Veto, Failure, Result
<1>5. CASE StopAtWire(c)
  <2>1. lastFailure' = "none" /\ graphqlWrite' \in BOOLEAN
    BY <1>1, <1>3, <1>5 DEF StopAtWire, ResetMarkers, Ready, Fresh, MarkersAreOwn
  <2>2. attempt[c] = 0 => applied[c] = 0
    BY <1>1, <1>5 DEF StopAtWire, Ready, CountersFollow, TypeOK
  <2>. QED
    BY <1>5, <2>1, <2>2, FinishKeepsInv DEF StopAtWire, Failure, Result
<1>6. CASE Accepted(c)
  <2>1. applied[c] > 0
    BY <1>1, <1>6 DEF Accepted, CountersFollow
  <2>. QED
    BY <1>3, <1>6, <2>1, FinishKeepsInv DEF Accepted, Result, Reported
<1>7. CASE Unauthorized(c)
  BY <1>3, <1>7, FinishKeepsInv DEF Unauthorized, Result, Reported
<1>8. CASE GiveUp(c) \/ Unexpected(c)
  <2>1. phase[c] \in {"posted", "answering"}
    BY <1>8 DEF GiveUp, Unexpected, OnWire
  <2>2. /\ lastFailure' \in Failure
        /\ lastFailure' = "reve_not_answering" => c \in ReveCalls
    BY <1>1, <1>8, <2>1 DEF GiveUp, Unexpected, MarkersAreOwn, Failure
  <2>3. Finish(c, "failed") /\ lastCommand' = "recent" /\ UNCHANGED <<graphqlWrite, worldVars>>
    BY <1>8 DEF GiveUp, Unexpected
  <2>. QED
    BY <1>3, <2>2, <2>3, FinishKeepsInv DEF Result
<1>9. CASE CancelOwner(c)
  <2>1. Fresh(c) \/ lastCommand' = "recent"
    BY <1>9 DEF CancelOwner, Stamp
  <2>2. lastCommand' \in {"never", "recent", "old"}
    BY <1>3, <1>9 DEF CancelOwner, Stamp
  <2>3. ~quiet' => lastCommand' = "recent"
    BY <1>2, <1>9, <2>1 DEF CancelOwner, Stamp, Fresh, Finish, OnWire
  <2>. QED
    BY <1>3, <1>9, <2>2, <2>3, FinishKeepsInv DEF CancelOwner, Result, Reported
<1>. QED
  BY <1>4, <1>5, <1>6, <1>7, <1>8, <1>9

\* The second that passes, the preflight's answer, REVE's recognition and unload.
LEMMA WorldKeepsInv ==
  ASSUME CommandInv, LockInv',
         \/ Pace \/ RecogniseReve \/ BeginShutdown
         \/ (\E c \in Calls : ChangeDue(c)) \/ UNCHANGED vars
  PROVE  CommandInv'
<1> USE DEF CommandInv
<1>1. /\ UNCHANGED <<phase, attempt, applied, result, told, lastFailure, graphqlWrite>>
      /\ UNCHANGED task
  BY DEF Pace, RecogniseReve, BeginShutdown, ChangeDue, vars, sendVars, managerVars, lockVars
<1>2. /\ due' \in [Calls -> BOOLEAN] /\ reveSeen' \in BOOLEAN /\ shuttingDown' \in BOOLEAN
      /\ lastCommand' \in {"never", "recent", "old"} /\ quiet' \in BOOLEAN
  BY DEF TypeOK, Pace, RecogniseReve, BeginShutdown, ChangeDue, vars, sendVars, managerVars,
     worldVars
<1>3. TypeOK'
  BY <1>1, <1>2 DEF TypeOK, LockInv
<1>4. ASSUME NEW c \in Calls
      PROVE  NoOutcomeYet(c)' /\ CountersFollow(c)' /\ MarkersAreOwn(c)'
  BY <1>1 DEF NoOutcomeYet, CountersFollow, MarkersAreOwn, Budget
<1>5. PhaseIsOwnership' /\ AnswersAreHonest'
  BY <1>1 DEF PhaseIsOwnership, AnswersAreHonest, OutcomeIsHonest, BlameIsOwn, Budget
<1>6. ClockIsRunning'
  BY <1>1 DEF ClockIsRunning, Pace, RecogniseReve, BeginShutdown, ChangeDue, vars, managerVars
<1>. QED
  BY <1>3, <1>4, <1>5, <1>6

\* Every step of the command manager keeps the invariant.
LEMMA CommandInvStep == CommandInv /\ LockInv' /\ [Next]_vars => CommandInv'
<1> SUFFICES ASSUME CommandInv, LockInv', [Next]_vars
             PROVE  CommandInv'
  OBVIOUS
<1>1. ASSUME NEW c \in Calls, Submit(c) \/ Refuse(c) \/ CancelWaiting(c) \/ Withdraw(c)
      PROVE  CommandInv'
  BY <1>1, EnterKeepsInv
<1>2. ASSUME NEW c \in Calls, Progress(c)
      PROVE  CommandInv'
  BY <1>2, EnterKeepsInv, AttemptKeepsInv, LeaveKeepsInv DEF Progress
<1>3. ASSUME NEW c \in Calls, Apply(c) \/ CancelOwner(c)
      PROVE  CommandInv'
  BY <1>3, AttemptKeepsInv, LeaveKeepsInv
<1>. QED
  BY <1>1, <1>2, <1>3, WorldKeepsInv DEF Next

\* For any commands, in any order, cancelled at any moment: each call's place, what it
\* sent and what it is told agree.
THEOREM CommandInvariant == Spec => []CommandInv
<1>1. Spec => []LockInv
  BY ManagerUsesLock, LockInvariant, PTL DEF UsesLock
<1>. QED
  BY <1>1, CommandInvInit, CommandInvStep, PTL DEF Spec

-------------------------------------------------------------------------------
(* What follows.                                                           *)

\* The variables keep their types.
THEOREM CommandTypeOK == Spec => []TypeOK
<1>1. CommandInv => TypeOK
  BY DEF CommandInv
<1>. QED
  BY <1>1, CommandInvariant, PTL

\* The charger never deals with two commands, and only with the lock owner's.
THEOREM CommandsAreAlone == Spec => []OneOnTheWire
<1>1. CommandInv => OneOnTheWire
  BY DEF CommandInv, LockInv, OneOnTheWire, OnWire, PhaseIsOwnership, MutualExclusion, Holders
<1>. QED
  BY <1>1, CommandInvariant, PTL

\* What a caller is told is true of its own command.
THEOREM CommandsAreHonest == Spec => []AnswersAreHonest
<1>1. CommandInv => AnswersAreHonest
  BY DEF CommandInv
<1>. QED
  BY <1>1, CommandInvariant, PTL

\* Requests start only when they may: not for an unloading entry, not against their
\* preflight, not within a second of another call's.
THEOREM CommandsAreDue == Spec => PostsAreDue
<1> DEFINE Due ==
      /\ shuttingDown => OnWire' \subseteq OnWire
      /\ \A c \in GuardedCalls : (c \notin OnWire /\ c \in OnWire') => due[c]
      /\ \A c \in Calls : (phase[c] = "pacing" /\ c \in OnWire') => quiet
<1>1. CommandInv /\ [Next]_vars => [Due]_vars
  <2> SUFFICES ASSUME CommandInv, Next
               PROVE  Due
    OBVIOUS
  <2> USE DEF CommandInv
  <2>1. ASSUME NEW c \in Calls, Post(c)
        PROVE  Due
    <3>1. OnWire' = OnWire \cup {c}
      BY <2>1 DEF Post, OnWire, TypeOK
    <3>2. phase[c] # "out" /\ task[c] = "owner"
      BY <2>1 DEF Post, Ready, PhaseIsOwnership
    <3>3. \A d \in Calls \ {c} : phase[d] = "out"
      BY <3>2, OthersAreOut
    <3>4. phase[c] = "pacing" => quiet
      BY <2>1, <3>3 DEF Post, Ready, ClockIsRunning
    <3>5. c \in GuardedCalls => due[c]
      BY <2>1 DEF Post, Vetoed
    <3>. QED
      BY <2>1, <3>1, <3>3, <3>4, <3>5 DEF Post, OnWire
  <2>2. ASSUME OnWire' \subseteq OnWire
        PROVE  Due
    BY <2>2, CommandAssumption DEF OnWire
  <2>3. ASSUME NEW c \in Calls, NEW o, Finish(c, o)
        PROVE  OnWire' \subseteq OnWire
    BY <2>3 DEF Finish, OnWire, TypeOK
  <2>4. ASSUME NEW c \in Calls,
               \/ Submit(c) \/ Refuse(c) \/ GetLock(c) \/ Apply(c) \/ Retry(c)
               \/ CancelWaiting(c) \/ Withdraw(c) \/ ChangeDue(c)
        PROVE  OnWire' \subseteq OnWire
    BY <2>4 DEF Submit, Refuse, GetLock, Apply, Retry, CancelWaiting, Withdraw, ChangeDue, OnWire,
       TypeOK, sendVars
  <2>5. ASSUME NEW c \in Calls,
               \/ Veto(c) \/ StopAtWire(c) \/ Accepted(c) \/ Unauthorized(c)
               \/ GiveUp(c) \/ Unexpected(c) \/ CancelOwner(c)
        PROVE  OnWire' \subseteq OnWire
    BY <2>3, <2>5 DEF Veto, StopAtWire, Accepted, Unauthorized, GiveUp, Unexpected, CancelOwner
  <2>6. ASSUME Pace \/ RecogniseReve \/ BeginShutdown
        PROVE  OnWire' \subseteq OnWire
    BY <2>6 DEF Pace, RecogniseReve, BeginShutdown, OnWire, sendVars
  <2>. QED
    BY <2>1, <2>2, <2>4, <2>5, <2>6 DEF Next, Progress
<1>. QED
  BY <1>1, CommandInvariant, PTL DEF Spec, PostsAreDue, NothingPostedAfterShutdown,
     NothingPostedUnlessDue, FirstPostsAreSpaced

===============================================================================
