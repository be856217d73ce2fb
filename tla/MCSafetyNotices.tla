---------------------------- MODULE MCSafetyNotices ----------------------------
(* One policy of each kind in POLICIES, with its own numbers of polls.           *)
EXTENDS SafetyNotices

Overheat == [codes |-> TRUE, levels |-> Levels, latched |-> TRUE, trigger |-> 2, recover |-> 3]
RelayFault == [codes |-> TRUE, levels |-> {}, latched |-> TRUE, trigger |-> 1, recover |-> 2]
GroundMissing ==
    [codes |-> TRUE, levels |-> {"high", "low", "unknown"}, latched |-> FALSE,
     trigger |-> 3, recover |-> 2]
GroundControl == [GroundMissing EXCEPT !.codes = FALSE]
UnknownError == [GroundControl EXCEPT !.latched = TRUE]

AllPolicies == {Overheat, RelayFault, GroundMissing, GroundControl, UnknownError}
===============================================================================
