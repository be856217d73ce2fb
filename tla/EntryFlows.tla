----------------------------- MODULE EntryFlows -----------------------------
(* The dialogs that change one config entry: reconfigure and reauthenticate   *)
(* (config_flow.py), the repair of invalid stored data (repairs.py) and the   *)
(* options (config_flow.py), while the time zone switch and the polls write   *)
(* keys of their own into it.  Two of the dialogs wait for the charger before *)
(* they store anything, and the options stay open as long as the user likes:  *)
(* each of them must leave alone what the others stored meanwhile.            *)
(*                                                                            *)
(* An entry is a function from the keys it has to their values.  "connection" *)
(* stands for model and phases, "battery" for the set-once SOC values, and    *)
(* every scheme, title and form default is left out.                          *)
EXTENDS Functions

CONSTANTS
    Hosts,          \* addresses, in the form _split_host_and_scheme gives them
    Credentials,    \* user names with their passwords
    Connections,    \* charger models and phase counts
    Cars,           \* sensors that report the car's state of charge
    Batteries,      \* set-once SOC values
    Keys            \* keys that the switch and the polls set and take out

None == "none"      \* an emptied entity picker

\* Nobody else's key is one the dialogs store, and a set-once value is a number.
ASSUME FlowsAssumption ==
    /\ Keys \cap {"host", "credentials", "connection", "mode", "battery", "car"} = {}
    /\ None \notin Batteries

VARIABLES
    entry,      \* entry.data
    uniqueId,   \* entry.unique_id, an old spelling of the host where one is left
    others,     \* the unique ids of the other entries
    connecting, \* the submitted reconfigure or repair form that waits for the charger
    reauth,     \* the submitted reauth form that waits, with the entry it started from
    options,    \* the open options flow and the car sensor it remembers
    latest,     \* what was last chosen or found for each key
    proven      \* the address and credentials a charger last accepted together

flowVars == <<entry, uniqueId, others, connecting, reauth, options, latest, proven>>

Idle == [step |-> "idle"]

\* {**data, **new}: data with the keys of new put over its own.
Put(new, data) == [key \in DOMAIN new \cup DOMAIN data |->
                      IF key \in DOMAIN new THEN new[key] ELSE data[key]]

\* _PRESERVED_ENTRY_KEYS, the keys no connection form holds.
Preserved == {"battery", "car"} \cup Keys

FlowsInit ==
    /\ \E h \in Hosts, c \in Credentials, n \in Connections:
          entry = [host |-> h, credentials |-> c, connection |-> n, mode |-> "basic"]
    /\ uniqueId \in {entry.host, "old spelling"}
    /\ others \in SUBSET (Hosts \ {uniqueId})
    /\ connecting = Idle /\ reauth = Idle /\ options = Idle
    /\ latest = entry
    /\ proven = <<entry.host, entry.credentials>>

----------------------------------------------------------------------------
(* Reconfigure and repair                                                     *)

\* async_step_reconfigure and async_step_confirm up to the first await.
SubmitConnection(kind, host, credentials, connection) ==
    /\ connecting = Idle
    /\ connecting' = [step |-> kind, host |-> host, credentials |-> credentials,
                      connection |-> connection]
    /\ UNCHANGED <<entry, uniqueId, others, reauth, options, latest, proven>>

\* _merge_entry_data, and the stored SOC mode again: the forms do not hold it.
Merge(existing, form) ==
    Put([host |-> form.host, credentials |-> form.credentials,
         connection |-> form.connection, mode |-> existing.mode],
        Restrict(existing, Preserved \cap DOMAIN existing))

\* The charger answered as an Eveus one.  _abort_if_unique_id_configured, and
\* the repair flow's own search, refuse the address of another entry.
ConnectionAccepted ==
    LET form == connecting
        collides == uniqueId # form.host /\ form.host \in others
        new == Merge(entry, form)
    IN  /\ form # Idle
        /\ connecting' = Idle
        /\ IF collides
           THEN UNCHANGED <<entry, uniqueId, latest, proven>>
           ELSE /\ entry' = new
                /\ uniqueId' = form.host
                /\ latest' = [latest EXCEPT !.host = form.host, !.connection = form.connection,
                                            !.credentials = form.credentials]
                /\ proven' = <<form.host, form.credentials>>
        /\ UNCHANGED <<others, reauth, options>>

\* validate_input raised: the form is shown again.
ConnectionRefused ==
    /\ connecting # Idle
    /\ connecting' = Idle
    /\ UNCHANGED <<entry, uniqueId, others, reauth, options, latest, proven>>

----------------------------------------------------------------------------
(* Reauthenticate                                                             *)

SubmitReauth(credentials) ==
    /\ reauth = Idle
    /\ reauth' = [step |-> "reauth", merged |-> [entry EXCEPT !.credentials = credentials]]
    /\ UNCHANGED <<entry, uniqueId, others, connecting, options, latest, proven>>

\* The address moved while the charger was asked: CannotConnect.
Moved == entry.host # reauth.merged.host

\* A plausible bug: the whole payload that was validated is stored.
Reauthenticated_Validated == reauth.merged

\* The entry as it is now, with the credentials of the form.
Reauthenticated == [entry EXCEPT !.credentials = reauth.merged.credentials]

\* The charger at merged.host accepted the credentials; an entry whose unique
\* id is not its address is refused as another device.
ReauthAccepted ==
    /\ reauth # Idle
    /\ reauth' = Idle
    /\ IF Moved \/ uniqueId # Reauthenticated.host
       THEN UNCHANGED <<entry, latest, proven>>
       ELSE /\ entry' = Reauthenticated
            /\ latest' = [latest EXCEPT !.credentials = reauth.merged.credentials]
            /\ proven' = <<reauth.merged.host, reauth.merged.credentials>>
    /\ UNCHANGED <<uniqueId, others, connecting, options>>

ReauthRefused ==
    /\ reauth # Idle
    /\ reauth' = Idle
    /\ UNCHANGED <<entry, uniqueId, others, connecting, options, latest, proven>>

----------------------------------------------------------------------------
(* Options                                                                    *)

CarOf(data) == IF "car" \in DOMAIN data THEN data.car ELSE None

\* EveusOptionsFlow.__init__ and the first form.
OpenOptions ==
    /\ options = Idle
    /\ options' = [step |-> "init", car |-> CarOf(entry)]
    /\ UNCHANGED <<entry, uniqueId, others, connecting, reauth, latest, proven>>

\* _store_external_soc
StoreCar(data, car) ==
    IF car # None THEN Put([car |-> car], data) ELSE Restrict(data, DOMAIN data \ {"car"})

\* _apply; chosen holds what the user chose on the two forms.
Apply(new, chosen) ==
    /\ entry' = new
    /\ latest' = LET kept == Restrict(latest, DOMAIN latest \ DOMAIN chosen)
                     given == {key \in DOMAIN chosen : chosen[key] # None}
                 IN  Put(Restrict(chosen, given), kept)
    /\ options' = Idle

\* async_step_init with the form submitted.  The picker is on the form, and is
\* heard, only when the entry is and stays in Advanced mode.
SubmitInit(mode, pick) ==
    LET both == entry.mode = "advanced" /\ mode = "advanced"
        car == IF both THEN pick ELSE options.car
        new == StoreCar([entry EXCEPT !.mode = mode], car)
    IN  /\ options.step = "init"
        /\ IF mode = "advanced" /\ "battery" \notin DOMAIN entry
           THEN /\ options' = [step |-> "soc", car |-> car]
                /\ UNCHANGED <<entry, latest>>
           ELSE Apply(new, IF both THEN [mode |-> mode, car |-> pick] ELSE [mode |-> mode])
        /\ UNCHANGED <<uniqueId, others, connecting, reauth, proven>>

\* async_step_soc with the form submitted.
SubmitSoc(battery, pick) ==
    /\ options.step = "soc"
    /\ Apply(Put([battery |-> battery], StoreCar([entry EXCEPT !.mode = "advanced"], pick)),
             [mode |-> "advanced", battery |-> battery, car |-> pick])
    /\ UNCHANGED <<uniqueId, others, connecting, reauth, proven>>

CloseOptions ==
    /\ options # Idle
    /\ options' = Idle
    /\ UNCHANGED <<entry, uniqueId, others, connecting, reauth, latest, proven>>

----------------------------------------------------------------------------
(* Everybody else who writes the entry                                        *)

\* The time zone switch, and _remember_firmware_family: a key of their own is
\* set, or taken out again, in the entry as it is.
SetKey(key) ==
    /\ \/ /\ entry' = Put([k \in {key} |-> TRUE], entry)
          /\ latest' = Put([k \in {key} |-> TRUE], latest)
       \/ /\ entry' = Restrict(entry, DOMAIN entry \ {key})
          /\ latest' = Restrict(latest, DOMAIN latest \ {key})
    /\ UNCHANGED <<uniqueId, others, connecting, reauth, options, proven>>

\* Another charger is added, removed or moved, to an id that is not ours: ChargerEntries
\* has the dialogs that see to it.
OtherEntries ==
    /\ others' \in SUBSET (Hosts \ {uniqueId})
    /\ UNCHANGED <<entry, uniqueId, connecting, reauth, options, latest, proven>>

FlowsNext ==
    \/ \E kind \in {"reconfigure", "repair"}, h \in Hosts, c \in Credentials, n \in Connections:
          SubmitConnection(kind, h, c, n)
    \/ ConnectionAccepted \/ ConnectionRefused
    \/ \E c \in Credentials: SubmitReauth(c)
    \/ ReauthAccepted \/ ReauthRefused
    \/ OpenOptions \/ CloseOptions
    \/ \E mode \in {"basic", "advanced"}, pick \in Cars \cup {None}: SubmitInit(mode, pick)
    \/ \E battery \in Batteries, pick \in Cars \cup {None}: SubmitSoc(battery, pick)
    \/ \E key \in Keys: SetKey(key)
    \/ OtherEntries

FlowsSpec == FlowsInit /\ [][FlowsNext]_flowVars

----------------------------------------------------------------------------
(* Properties                                                                 *)

\* The entry holds, for every key, what was last chosen or found for it, in
\* whatever order the dialogs were opened, submitted and answered; and its
\* credentials are ones a charger took at its address (config_flow.py:859-901).
EveryChoiceStands ==
    /\ entry = latest
    /\ proven = <<entry.host, entry.credentials>>
=============================================================================
