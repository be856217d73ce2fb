----------------------------- MODULE EntrySetup -----------------------------
(* The life of one config entry (__init__.py): set up, also while the charger *)
(* is switched off, unloaded, reloaded and removed, with every wait of a      *)
(* setup a place where it may fail and where a dialog may store new settings; *)
(* the entities, the device and the notices it leaves in Home Assistant's     *)
(* registries.  EntryFlows has the dialogs themselves.                        *)
(*                                                                            *)
(* Rows stands for the registered entities of one kind each: those of a three *)
(* phase charger, of the Advanced mode, of Eveus firmware.  The four notices  *)
(* that follow the polls are one, "transient".                                *)
EXTENDS Naturals

CONSTANT Addresses

VARIABLES
    data,       \* entry.data
    state,      \* of the entry; inside async_setup_entry, the await it is at
    built,      \* what the setup read: the host, phases, mode and firmware it builds for
    up, heard,  \* updater.last_update_success, and whether it heard REVE firmware
    latched,    \* a notice's tracker is active; its listeners are attached
    watching,   \* the closure _reload_on_reve is attached and has not fired
    wanted,     \* a reload waits for the entry's setup lock
    purpose,    \* what an unload is for
    rows, devices, notices,     \* in the entity, device and issue registries
    everReve    \* the charger has been heard as REVE

setupVars == <<data, state, built, up, heard, latched, watching, wanted, purpose,
               rows, devices, notices, everReve>>

Rows == {"three phases", "advanced", "classic"}
Attached == {"safety", "platforms", "loaded", "unloading", "failed unload"}

Nothing == [host |-> "none", phases |-> "one", mode |-> "basic", reve |-> FALSE]

SetupInit ==
    /\ data \in [usable : BOOLEAN, host : Addresses, phases : {"one", "three", "corrupt"},
                 mode : {"basic", "advanced"}, reve : {FALSE}]
    /\ state = "not loaded" /\ built = Nothing
    /\ up = FALSE /\ heard = FALSE /\ latched = FALSE /\ watching = FALSE
    /\ wanted = FALSE /\ purpose = "none"
    /\ rows \in {{}, Rows}
    /\ devices \in {{}, {data.host}}
    /\ notices = {} /\ everReve = FALSE

----------------------------------------------------------------------------
(* async_setup_entry                                                          *)

\* Up to the first await: stored data that cannot work become a notice, and
\* usable data clear it.  Also the setup half of a reload.
Begin ==
    /\ latched' = FALSE /\ watching' = FALSE /\ up' = FALSE /\ heard' = FALSE
    /\ IF data.usable
       THEN /\ state' = "refresh"
            /\ built' = [host |-> data.host, phases |-> data.phases,
                         mode |-> data.mode, reve |-> FALSE]
       ELSE state' = "error" /\ built' = Nothing
    /\ UNCHANGED <<data, rows, devices, everReve>>

Told(before) ==
    IF data.usable THEN before \ {"invalid_config"} ELSE before \cup {"invalid_config"}

\* Home Assistant sets an entry up at start, when it is enabled, and again
\* after a setup that was not ready; a reload of an entry that is not loaded.
Setup ==
    /\ state \in {"not loaded", "retry"} \/ (wanted /\ state = "error")
    /\ wanted' = FALSE
    /\ Begin /\ notices' = Told(notices)
    /\ UNCHANGED purpose

\* A setup that raises: runtime_data is cleared, the listeners go, the notices
\* they raised stay until the next setup.
Fail(to) ==
    /\ state' = to
    /\ latched' = FALSE /\ watching' = FALSE
    /\ UNCHANGED <<data, built, up, heard, wanted, purpose, rows, devices, notices, everReve>>

\* The first poll answers, is refused, or finds the charger switched off: then
\* the setup goes on.
FirstRefresh ==
    /\ state = "refresh"
    /\ \/ \E reve \in BOOLEAN:
             /\ up' = TRUE /\ heard' = reve /\ everReve' = (everReve \/ reve)
             /\ state' = "probe"
             /\ UNCHANGED <<data, built, latched, watching, wanted, purpose, rows, devices,
                            notices>>
       \/ /\ state' = "probe"
          /\ UNCHANGED <<data, built, up, heard, latched, watching, wanted, purpose,
                         rows, devices, notices, everReve>>
       \/ Fail("error") \/ Fail("retry")

\* _remember_firmware_family: a charger that did not answer leaves the entry as
\* it was last heard.
Remembered == IF up THEN [data EXCEPT !.reve = heard] ELSE data

\* async_maybe_fetch_init_firmware returns, or is put off; runtime_data is set,
\* the notices' listeners and _reload_on_reve are attached and run once.
Probed ==
    /\ state = "probe"
    /\ data' = Remembered
    /\ watching' = ~Remembered.reve
    /\ state' = "safety"
    /\ \E bad \in BOOLEAN:
          /\ latched' = (bad /\ up)
          /\ notices' = IF bad /\ up THEN notices \cup {"transient"} ELSE notices
    /\ UNCHANGED <<built, up, heard, wanted, purpose, rows, devices, everReve>>

\* safety_manager.async_load returns; the platforms read the entry.
SafetyLoaded ==
    /\ state = "safety"
    /\ state' = "platforms"
    /\ built' = [built EXCEPT !.mode = data.mode, !.reve = data.reve]
    /\ devices' = devices \cup {built.host}
    /\ UNCHANGED <<data, up, heard, latched, watching, wanted, purpose, rows, notices, everReve>>

RowsOf(phases, mode, reve) ==
    {row \in Rows : /\ row = "three phases" => phases = "three"
                    /\ row = "advanced" => mode = "advanced"
                    /\ row = "classic" => ~reve}

\* A plausible bug: the phase count the session falls back to decides.
Prune_Fallback == Rows \ RowsOf(built.phases, data.mode, data.reve)

\* _prune_unused_entities; a phase count that was invalid prunes no phase.
Prune ==
    LET phases == IF built.phases = "corrupt" THEN "three" ELSE built.phases
    IN  Rows \ RowsOf(phases, data.mode, data.reve)

\* The platforms are up: the rows no setting builds any more are removed.
PlatformsUp ==
    /\ state = "platforms"
    /\ state' = "loaded"
    /\ rows' = (rows \cup RowsOf(built.phases, built.mode, built.reve)) \ Prune
    /\ UNCHANGED <<data, built, up, heard, latched, watching, wanted, purpose, devices, notices,
                   everReve>>

\* An exception or a cancellation at one of the awaits.
SetupFails == state \in {"probe", "safety", "platforms"} /\ Fail("retry")

----------------------------------------------------------------------------
(* The loaded entry                                                           *)

\* A poll and its listeners: the four update_*_issue functions skip a failed
\* one; _reload_on_reve stores REVE and asks for one reload.
Poll ==
    /\ state \in Attached
    /\ \/ up' = FALSE /\ UNCHANGED <<heard, everReve, latched, notices, data, watching, wanted>>
       \/ \E reve, bad \in BOOLEAN:
             /\ up' = TRUE /\ heard' = reve /\ everReve' = (everReve \/ reve)
             /\ latched' = bad
             /\ notices' = CASE bad /\ ~latched -> notices \cup {"transient"}
                             [] ~bad /\ latched -> notices \ {"transient"}
                             [] OTHER -> notices
             /\ IF watching /\ reve
                THEN watching' = FALSE /\ data' = [data EXCEPT !.reve = TRUE] /\ wanted' = TRUE
                ELSE UNCHANGED <<watching, data, wanted>>
    /\ UNCHANGED <<state, built, purpose, rows, devices>>

\* A plausible bug: only a loaded entry is reloaded.
Reloads_Loaded == state = "loaded"

\* async_reload raises for an entry whose unload failed.
Reloads == state # "failed unload"

\* A dialog stores connection settings and asks for a reload: the device's
\* identifiers follow the address (migrate_device_identifiers).
Reconnect(host, phases) ==
    /\ state # "removed"
    /\ data' = [data EXCEPT !.usable = TRUE, !.host = host, !.phases = phases]
    /\ devices' = IF data.host \in devices THEN (devices \ {data.host}) \cup {host} ELSE devices
    /\ wanted' = (wanted \/ Reloads)
    /\ UNCHANGED <<state, built, up, heard, latched, watching, purpose, rows, notices, everReve>>

\* The options flow.
ChooseMode(mode) ==
    /\ state # "removed" /\ mode # data.mode
    /\ data' = [data EXCEPT !.mode = mode]
    /\ wanted' = (wanted \/ Reloads)
    /\ UNCHANGED <<state, built, up, heard, latched, watching, purpose, rows, devices, notices,
                   everReve>>

----------------------------------------------------------------------------
(* Unloading                                                                  *)

\* For a reload that has the lock, because the user disables the entry, or to
\* remove it.
Unload(why) ==
    /\ state = "loaded"
    /\ why = "reload" => wanted
    /\ state' = "unloading" /\ purpose' = why /\ wanted' = FALSE
    /\ UNCHANGED <<data, built, up, heard, latched, watching, rows, devices, notices, everReve>>

\* async_unload_platforms failed: the entry keeps its listeners and trackers.
UnloadFails ==
    /\ state = "unloading" /\ purpose # "remove"
    /\ state' = "failed unload" /\ wanted' = FALSE
    /\ UNCHANGED <<data, built, up, heard, latched, watching, purpose, rows, devices, notices,
                   everReve>>

\* async_unload_entry with its platforms unloaded, and the setup that follows
\* in a reload, or async_remove_entry.
Unloaded ==
    /\ state = "unloading"
    /\ CASE purpose = "reload" ->
              Begin /\ notices' = Told(notices \ {"transient"}) /\ UNCHANGED wanted
         [] purpose = "disable" ->
              /\ state' = "not loaded" /\ notices' = notices \ {"transient"}
              /\ latched' = FALSE /\ watching' = FALSE
              /\ UNCHANGED <<data, built, up, heard, wanted, rows, devices, everReve>>
         [] purpose = "remove" ->
              /\ state' = "removed" /\ notices' = {}
              /\ latched' = FALSE /\ watching' = FALSE /\ rows' = {} /\ devices' = {}
              /\ UNCHANGED <<data, built, up, heard, wanted, everReve>>
    /\ UNCHANGED purpose

SetupNext ==
    \/ Setup \/ FirstRefresh \/ Probed \/ SafetyLoaded \/ PlatformsUp \/ SetupFails
    \/ Poll
    \/ \E host \in Addresses, phases \in {"one", "three"}: Reconnect(host, phases)
    \/ \E mode \in {"basic", "advanced"}: ChooseMode(mode)
    \/ \E why \in {"reload", "disable", "remove"}: Unload(why)
    \/ UnloadFails \/ Unloaded

SetupSpec == SetupInit /\ [][SetupNext]_setupVars

----------------------------------------------------------------------------
(* Properties                                                                 *)

\* An entry that is loaded and waits for no reload runs, and has entities for,
\* what it stores, whatever was stored while it was being set up: no setting
\* is left unapplied, no row left over; and it is built for REVE once a good
\* poll found REVE (__init__.py:865-885, 944-961).
RunsWhatIsStored ==
    state = "loaded" /\ ~wanted =>
        /\ built.host = data.host /\ built.phases = data.phases
        /\ built.mode = data.mode /\ built.reve = data.reve
        /\ data.phases # "corrupt" => rows = RowsOf(data.phases, data.mode, data.reve)
        /\ up /\ heard => built.reve

\* The user's names and areas are lost only for entities that a finished setup
\* does not build: never for a setup that failed, a corrupt phase count or a
\* charger that was never heard as REVE (__init__.py:944-961).
RowsAreKept ==
    [][\A row \in rows \ rows' : state' # "removed" =>
          /\ state = "platforms" /\ state' = "loaded"
          /\ row = "three phases" => built.phases = "one"
          /\ row = "advanced" => data.mode = "basic"
          /\ row = "classic" => everReve]_setupVars

\* A notice whose tracker is latched is in Repairs: nobody would raise it again
\* (__init__.py:1007-1010).
NoticeIsNotLost == latched => "transient" \in notices

\* Setups that fail, go on without the charger or fall back on defaults take nothing from
\* the user or from Repairs (__init__.py:944-961, 1007-1010).
NothingIsLost == RowsAreKept /\ []NoticeIsNotLost

\* A change of address leaves no orphaned device behind (config_flow.py:806-809).
NoOrphanedDevice == state = "loaded" /\ ~wanted => devices = {data.host}
=============================================================================
