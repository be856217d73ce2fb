-------------------------------- MODULE MCEntry -------------------------------
(* What lives with the config entry: the dialogs, the entries of a house, the   *)
(* setups, the Initial SOC, the clock notice and the other notices of polls     *)
(* take the others' doings as inputs, in every order: a behaviour of this       *)
(* module moves one of them.                                                    *)
EXTENDS EntryFlows, ChargerEntries, EntrySetup, InitialSoc, PollNotices

VARIABLE part

Init ==
    /\ part \in {"dialogs", "house", "setups", "initial SOC", "clock", "notices"}
    /\ FlowsInit /\ HouseInit /\ SetupInit /\ SocInit /\ NoticesInit
    /\ part # "dialogs" =>
          /\ entry = [host |-> "host 1", credentials |-> "old", connection |-> "16 A",
                      mode |-> "basic"]
          /\ uniqueId = "host 1" /\ others = {}
    /\ part # "house" => entries = <<>>
    /\ part # "setups" =>
          /\ data = [usable |-> TRUE, host |-> "host 1", phases |-> "one", mode |-> "basic",
                     reve |-> FALSE]
          /\ rows = {} /\ devices = {}

Next ==
    /\ UNCHANGED part
    /\ \/ part = "dialogs" /\ FlowsNext /\ UNCHANGED <<houseVars, setupVars, socVars, noticeVars>>
       \/ part = "house" /\ HouseNext /\ UNCHANGED <<flowVars, setupVars, socVars, noticeVars>>
       \/ part = "setups" /\ SetupNext /\ UNCHANGED <<flowVars, houseVars, socVars, noticeVars>>
       \/ part = "initial SOC" /\ SocNext
          /\ UNCHANGED <<flowVars, houseVars, setupVars, noticeVars>>
       \/ part = "clock" /\ ClockNext /\ UNCHANGED <<flowVars, houseVars, setupVars, socVars>>
       \/ part = "notices" /\ OthersNext /\ UNCHANGED <<flowVars, houseVars, setupVars, socVars>>

Spec == Init /\ [][Next]_<<part, flowVars, houseVars, setupVars, socVars, noticeVars>>
===============================================================================
