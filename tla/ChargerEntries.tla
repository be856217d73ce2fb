--------------------------- MODULE ChargerEntries ---------------------------
(* The entries of a house with several chargers: the dialog that adds one     *)
(* (config_flow.py), entries of older versions that are migrated when they    *)
(* are first set up (__init__.py), which for a disabled one may be years      *)
(* later, and entries that reconfigure and repair give another address.  One  *)
(* charger is to have one entry, and Home Assistant tells chargers apart by   *)
(* the entries' unique ids.                                                   *)
(*                                                                            *)
(* A unique id is an address with its spelling: older versions stored what    *)
(* the user typed.  What a form holds besides the address is EntryFlows', and *)
(* the keys that the migration fills in are data.                             *)
EXTENDS Functions

CONSTANTS
    Chargers,   \* addresses
    Slots,      \* entry ids
    Dialogs     \* dialogs that add a charger

VARIABLES
    entries,    \* the entries there are: [charger, id, current], current of this version
    adding,     \* the submitted form of each dialog and what it waits for
    moving,     \* a submitted reconfigure or repair form that waits for the charger
    overtaken   \* <<dialog, entry>>: the entry was given, by migration or repair, the
                \* address that the dialog had found free and shows its SOC form for

houseVars == <<entries, adding, moving, overtaken>>

NotAsked == [step |-> "form"]
NotMoving == [kind |-> "none"]
Nowhere == "no dialog"

ASSUME HouseAssumption == Nowhere \notin Slots \cup Dialogs

Old(charger) == <<charger, "old">>
Canonical(charger) == <<charger, "canonical">>

HouseInit ==
    /\ \E present \in SUBSET Slots:
          entries \in [present -> {[charger |-> c, id |-> <<c, spelling>>, current |-> current] :
                                      c \in Chargers, spelling \in {"old", "canonical"},
                                      current \in BOOLEAN}]
    /\ \A s \in DOMAIN entries: entries[s].current => entries[s].id = Canonical(entries[s].charger)
    /\ \A s, t \in DOMAIN entries: entries[s].id = entries[t].id => s = t
    /\ adding = [d \in Dialogs |-> NotAsked]
    /\ moving = NotMoving
    /\ overtaken = {}

\* Another entry goes by this id.
Configured(id, slot) == \E t \in DOMAIN entries \ {slot}: entries[t].id = id

\* A plausible bug: only entries are looked at.
InProgress_Never(charger, dialog) == FALSE

\* async_set_unique_id ends a dialog while another one is open for its address.
InProgress(charger, dialog) ==
    \E d \in Dialogs \ {dialog}: adding[d] = [step |-> "soc", charger |-> charger]

\* Given its address by others than a dialog, an entry goes unseen by open SOC forms.
Overtaking(slot, charger) ==
    overtaken \cup {<<d, slot>> : d \in {e \in Dialogs : adding[e] = [step |-> "soc",
                                                                      charger |-> charger]}}

----------------------------------------------------------------------------
(* Adding a charger: async_step_user, async_step_soc                          *)

SubmitUser(d, charger) ==
    /\ adding[d] = NotAsked
    /\ adding' = [adding EXCEPT ![d] = [step |-> "asking", charger |-> charger]]
    /\ UNCHANGED <<entries, moving, overtaken>>

\* validate_input raised, the dialog was aborted, or the user closed it.
Leave(d) ==
    /\ adding' = [adding EXCEPT ![d] = NotAsked]
    /\ overtaken' = {pair \in overtaken : pair[1] # d}

Refused(d) == adding[d] # NotAsked /\ Leave(d) /\ UNCHANGED <<entries, moving>>

\* _finish_entry; of entries with equal ids Home Assistant keeps the new one.
Create(d, slot) ==
    LET id == Canonical(adding[d].charger)
        kept == {s \in DOMAIN entries : entries[s].id # id}
    IN  /\ slot \notin DOMAIN entries
        /\ entries' = [s \in kept \cup {slot} |->
              IF s = slot THEN [charger |-> adding[d].charger, id |-> id, current |-> TRUE]
              ELSE entries[s]]
        /\ Leave(d)
        /\ moving' = IF moving # NotMoving /\ moving.slot \in DOMAIN entries \ kept
                     THEN NotMoving ELSE moving

\* The charger answered as an Eveus one.
UserAccepted(d) ==
    LET charger == adding[d].charger
    IN  /\ adding[d].step = "asking"
        /\ \/ /\ InProgress(charger, d) \/ Configured(Canonical(charger), Nowhere)
              /\ Leave(d) /\ UNCHANGED <<entries, moving>>
           \/ /\ ~InProgress(charger, d) /\ ~Configured(Canonical(charger), Nowhere)
              /\ \/ \E slot \in Slots: Create(d, slot)
                 \/ /\ adding' = [adding EXCEPT ![d].step = "soc"]
                    /\ UNCHANGED <<entries, moving, overtaken>>

\* The SOC form, for the Advanced mode, looks at nothing again.
SubmitSocValues(d) ==
    /\ adding[d].step = "soc"
    /\ \E slot \in Slots: Create(d, slot)

----------------------------------------------------------------------------
(* Older versions: async_migrate_entry                                        *)

\* An id that repeats the stored address takes its canonical spelling, unless another
\* entry has that.
CanonicalId(slot) ==
    LET id == Canonical(entries[slot].charger)
    IN  IF Configured(id, slot) THEN entries[slot].id ELSE id

Migrate(slot) ==
    /\ slot \in DOMAIN entries /\ ~entries[slot].current
    /\ entries' = [entries EXCEPT ![slot].id = CanonicalId(slot), ![slot].current = TRUE]
    /\ overtaken' = IF entries'[slot].id # entries[slot].id
                    THEN Overtaking(slot, entries[slot].charger) ELSE overtaken
    /\ UNCHANGED <<adding, moving>>

----------------------------------------------------------------------------
(* Another address: async_step_reconfigure, async_step_confirm                *)

SubmitMove(kind, slot, charger) ==
    /\ moving = NotMoving
    /\ slot \in DOMAIN entries /\ entries[slot].current
    /\ moving' = [kind |-> kind, slot |-> slot, charger |-> charger]
    /\ UNCHANGED <<entries, adding, overtaken>>

\* The charger answered at its new address.  The repair asks Home Assistant for the
\* other entries, but not for open dialogs.
MoveAccepted ==
    LET slot == moving.slot
        id == Canonical(moving.charger)
        refused == \/ moving.kind = "reconfigure" /\ InProgress(moving.charger, Nowhere)
                   \/ entries[slot].id # id /\ Configured(id, slot)
    IN  /\ moving # NotMoving
        /\ moving' = NotMoving
        /\ IF refused
           THEN UNCHANGED <<entries, overtaken>>
           ELSE /\ entries' = [entries EXCEPT ![slot].charger = moving.charger, ![slot].id = id]
                /\ overtaken' = IF moving.kind = "repair"
                                THEN Overtaking(slot, moving.charger) ELSE overtaken
        /\ UNCHANGED adding

MoveRefused ==
    /\ moving # NotMoving
    /\ moving' = NotMoving
    /\ UNCHANGED <<entries, adding, overtaken>>

\* The user deletes an entry, and with it its dialogs.
RemoveEntry(slot) ==
    /\ slot \in DOMAIN entries
    /\ entries' = Restrict(entries, DOMAIN entries \ {slot})
    /\ overtaken' = {pair \in overtaken : pair[2] # slot}
    /\ moving' = IF moving # NotMoving /\ moving.slot = slot THEN NotMoving ELSE moving
    /\ UNCHANGED adding

HouseNext ==
    \/ \E d \in Dialogs:
          \/ \E charger \in Chargers: SubmitUser(d, charger)
          \/ Refused(d) \/ UserAccepted(d) \/ SubmitSocValues(d)
    \/ \E slot \in Slots: Migrate(slot) \/ RemoveEntry(slot)
    \/ \E kind \in {"reconfigure", "repair"}, slot \in Slots, charger \in Chargers:
          SubmitMove(kind, slot, charger)
    \/ MoveAccepted \/ MoveRefused

HouseSpec == HouseInit /\ [][HouseNext]_houseVars

----------------------------------------------------------------------------
(* Properties                                                                 *)

\* No two entries go by one id, and of two entries for one charger, one is a legacy
\* entry that still goes by its old spelling (__init__.py:563-577).
ChargersAreDistinct ==
    \A s, t \in DOMAIN entries: s # t =>
        /\ entries[s].id # entries[t].id
        /\ entries[s].charger = entries[t].charger =>
              \E e \in {s, t}: entries[e].id = Old(entries[e].charger)

\* An entry goes only by the user's hand: no dialog for a new charger replaces it, except
\* where migration or repair gave it an address that an open SOC form was about to use.
EntriesStand ==
    [][\A s \in DOMAIN entries \ DOMAIN entries':
          RemoveEntry(s) \/ \E d \in Dialogs: <<d, s>> \in overtaken]_houseVars

\* One charger has one entry, through dialogs that wait for the charger and the user
\* side by side, and the entry stays.
OneEntryPerCharger == []ChargersAreDistinct /\ EntriesStand

\* The same without the exception: a repaired or migrated entry, with what the user chose
\* for it, is replaced by the one that the SOC form adds (config_flow.py:736-757).
NoEntryIsReplaced ==
    [][\A s \in DOMAIN entries \ DOMAIN entries': RemoveEntry(s)]_houseVars
=============================================================================
