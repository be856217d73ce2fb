---------------------------- MODULE PriorityMutex ----------------------------
(***************************************************************************)
(* What common_command._PriorityLock promises, without futures, a heap or  *)
(* cancelled entries: one owner of the wire at a time; a caller that finds *)
(* it taken joins a line; when the owner leaves, the best-ranked caller in *)
(* the line owns the wire at once.  A Stop command ranks before every      *)
(* ordinary command, and callers of one rank are served in arrival order.  *)
(***************************************************************************)
EXTENDS Naturals

CONSTANTS Calls,     \* the send_command calls that may ask for the wire
          StopCalls  \* those that send Stop (evseEnabled = 1)

VARIABLES owner,     \* the call that owns the wire, as a set of at most one
          line,      \* the calls waiting for it, with their rank and arrival
          arrivals   \* how many calls have ever joined the line

mutexVars == <<owner, line, arrivals>>

Rank(c) == IF c \in StopCalls THEN 0 ELSE 1

\* Entry v is served before entry w.
Before(v, w) ==
    \/ v.priority < w.priority
    \/ v.priority = w.priority /\ v.seq < w.seq

MutexInit == owner = {} /\ line = {} /\ arrivals = 0

\* A caller finds the wire free.
Enter(c) ==
    /\ owner = {}
    /\ owner' = {c}
    /\ UNCHANGED <<line, arrivals>>

\* A caller finds the wire taken.
Join(c) ==
    /\ owner # {}
    /\ arrivals' = arrivals + 1
    /\ line' = line \cup {[priority |-> Rank(c), seq |-> arrivals + 1, call |-> c]}
    /\ UNCHANGED owner

\* A waiting caller is cancelled.
GiveUp(w) ==
    /\ line' = line \ {w}
    /\ UNCHANGED <<owner, arrivals>>

\* The owner leaves: nobody waits, or the best-ranked waiter takes over.
Leave ==
    /\ owner # {}
    /\ \/ line = {} /\ owner' = {} /\ UNCHANGED line
       \/ \E w \in line :
            /\ \A v \in line \ {w} : Before(w, v)
            /\ owner' = {w.call}
            /\ line' = line \ {w}
    /\ UNCHANGED arrivals

MutexNext ==
    \/ \E c \in Calls : Enter(c) \/ Join(c)
    \/ \E w \in line : GiveUp(w)
    \/ Leave

MutexSpec == MutexInit /\ [][MutexNext]_mutexVars

==============================================================================
