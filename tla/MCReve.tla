-------------------------------- MODULE MCReve --------------------------------
(* The three parts of ReveApi share nothing but their inputs, which each of    *)
(* them takes in every order: a behaviour of this module moves one of them.    *)
EXTENDS ReveManual, ReveSource, ReveSettings

VARIABLE part

Init ==
    /\ part \in {"manual mode", "sources", "settings"}
    /\ ManualInit /\ SourceInit /\ SettingsInit
    /\ part # "manual mode" => ~reports

Next ==
    /\ UNCHANGED part
    /\ \/ part = "manual mode" /\ ManualNext /\ UNCHANGED <<sourceVars, settingsVars>>
       \/ part = "sources" /\ SourceNext /\ UNCHANGED <<manualModeVars, settingsVars>>
       \/ part = "settings" /\ SettingsNext /\ UNCHANGED <<manualModeVars, sourceVars>>

Rest == UNCHANGED <<part, manualModeVars, settingsVars>>

\* SourceSpec's fairness.
Spec ==
    /\ Init /\ [][Next]_<<part, manualModeVars, sourceVars, settingsVars>>
    /\ WF_sourceVars(part = "sources" /\ Minute /\ Rest)
    /\ WF_sourceVars(part = "sources" /\ PollSources /\ Rest)
===============================================================================
