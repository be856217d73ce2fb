----------------------------- MODULE PriorityLock -----------------------------
(***************************************************************************)
(* common_command._PriorityLock: the asyncio lock that gives the charger's *)
(* HTTP interface one writer at a time.  A caller that finds the lock held *)
(* pushes (priority, sequence, future) on a heap and awaits the future;    *)
(* release() pops entries until it meets a future that is not done and     *)
(* completes it, handing the lock over without ever freeing it.            *)
(*                                                                         *)
(* A completed future only SCHEDULES its task, so a call is first          *)
(* "granted" and becomes the "owner" when the event loop resumes it.  A    *)
(* cancellation can fall on either side of that: before the hand-over it   *)
(* cancels the future and leaves a dead entry in the heap; after it, the   *)
(* call ("withdrawn") is resumed with CancelledError and must pass the     *)
(* lock on itself.                                                         *)
(*                                                                         *)
(* A definition called Name_Fault is a faulty variant of Name, kept to     *)
(* show that the properties notice it; nothing else uses it.               *)
(***************************************************************************)
EXTENDS Naturals

CONSTANTS Calls,     \* the send_command calls that may ask for the lock
          StopCalls  \* those that send Stop (evseEnabled = 1)

ASSUME CallsAssumption == StopCalls \subseteq Calls

VARIABLES held,      \* _held
          sequence,  \* _sequence
          waiters,   \* _waiters, entries whose future is done included
          task       \* where each call's task is

lockVars == <<held, sequence, waiters, task>>

TaskState == {"new", "queued", "granted", "withdrawn", "owner", "done"}

\* A call that keeps the lock from everybody else.
Holders == {c \in Calls : task[c] \in {"granted", "withdrawn", "owner"}}

\* send_command's priority: Stop goes before ordinary commands.
Rank(c) == IF c \in StopCalls THEN 0 ELSE 1

Entry == [priority : {0, 1}, seq : Nat, call : Calls]

Before_Arrival(v, w) == v.seq < w.seq

\* The heap's order: priority, then arrival.
Before(v, w) ==
    \/ v.priority < w.priority
    \/ v.priority = w.priority /\ v.seq < w.seq

\* The entries whose future is not done.
Live == {w \in waiters : task[w.call] = "queued"}

LockInit ==
    /\ held = FALSE
    /\ sequence = 0
    /\ waiters = {}
    /\ task = [c \in Calls |-> "new"]

\* acquire() on a free lock returns without yielding.
AcquireFree(c) ==
    /\ task[c] = "new"
    /\ ~held
    /\ held' = TRUE
    /\ task' = [task EXCEPT ![c] = "owner"]
    /\ UNCHANGED <<sequence, waiters>>

\* acquire() on a held lock queues a future and awaits it.
AcquireWait(c) ==
    /\ task[c] = "new"
    /\ held
    /\ sequence' = sequence + 1
    /\ waiters' = waiters \cup
          {[priority |-> Rank(c), seq |-> sequence + 1, call |-> c]}
    /\ task' = [task EXCEPT ![c] = "queued"]
    /\ UNCHANGED held

\* The event loop resumes a call whose future was completed.
Resume(c) ==
    /\ task[c] = "granted"
    /\ task' = [task EXCEPT ![c] = "owner"]
    /\ UNCHANGED <<held, sequence, waiters>>

\* release(), run by call c as it ends: the dead entries met on the way are
\* dropped with the one that is completed.
HandOn(c) ==
    /\ UNCHANGED sequence
    /\ \/ /\ Live = {}
          /\ held' = FALSE
          /\ waiters' = {}
          /\ task' = [task EXCEPT ![c] = "done"]
       \/ \E w \in Live :
          /\ \A v \in Live \ {w} : Before(w, v)
          /\ waiters' = {v \in waiters : Before(w, v)}
          /\ task' = [task EXCEPT ![c] = "done", ![w.call] = "granted"]
          /\ UNCHANGED held

\* hold()'s finally: the owner leaves the critical section, however it ended.
Release(c) ==
    /\ task[c] = "owner"
    /\ HandOn(c)

\* A call is cancelled while its future is pending: the future is cancelled
\* with it, and its entry stays in the heap.
CancelQueued(c) ==
    /\ task[c] = "queued"
    /\ task' = [task EXCEPT ![c] = "done"]
    /\ UNCHANGED <<held, sequence, waiters>>

\* A call is cancelled after its future was completed and before it resumed.
CancelGranted(c) ==
    /\ task[c] = "granted"
    /\ task' = [task EXCEPT ![c] = "withdrawn"]
    /\ UNCHANGED <<held, sequence, waiters>>

\* That call resumes with CancelledError; its future is not cancelled, so it
\* releases the lock it never used.
PassOn(c) ==
    /\ task[c] = "withdrawn"
    /\ HandOn(c)

LockNext == \E c \in Calls :
    \/ AcquireFree(c)
    \/ AcquireWait(c)
    \/ Resume(c)
    \/ Release(c)
    \/ CancelQueued(c)
    \/ CancelGranted(c)
    \/ PassOn(c)

LockSpec == LockInit /\ [][LockNext]_lockVars

-------------------------------------------------------------------------------
LockTypeOK ==
    /\ held \in BOOLEAN
    /\ sequence \in Nat
    /\ waiters \subseteq Entry
    /\ task \in [Calls -> TaskState]

\* No two calls are past acquire() and before the end of release(): the
\* charger never sees two commands at once.
MutualExclusion == \A c, d \in Holders : c = d

\* The lock is never stranded: while it is held somebody has it and will pass
\* it on, and while it is free nobody is left waiting for it.  A cancellation
\* that loses the race with the hand-over is the case that could break it.
NoLostWakeup ==
    /\ held <=> Holders # {}
    /\ ~held => \A c \in Calls : task[c] # "queued"

\* The lock implements PriorityMutex: Stop before ordinary calls, arrival order
\* within a rank, and no gap between two owners while a call waits.  Dead heap
\* entries are forgotten, and a call owns the wire from the hand-over on.
Mutex == INSTANCE PriorityMutex WITH
    owner <- Holders, line <- Live, arrivals <- sequence
MutexRefinement == Mutex!MutexSpec

===============================================================================
