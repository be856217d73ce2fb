------------------------------ MODULE EntryProofs -----------------------------
(***************************************************************************)
(* The config entries. A loaded entry runs what it stores, loses no rows   *)
(* to a setup that did not finish, and no notice to an unload that failed; *)
(* it holds what was last chosen or found for each key; and a charger has  *)
(* one entry, whatever dialogs are open for it. Its Initial SOC is the     *)
(* car's once in a session and then the user's, and its clock notice gives *)
(* the advice that the last polls earned.                                  *)
(***************************************************************************)
EXTENDS EntrySetup, EntryFlows, ChargerEntries, InitialSoc, PollNotices, TLAPS

-------------------------------------------------------------------------------
(***************************************************************************)
(* One entry's setup, for any addresses. The inductive invariant follows   *)
(* it: what it has read agrees with the entry, or a reload is wanted.      *)
(***************************************************************************)

Phases == {"one", "three", "corrupt"}
Modes == {"basic", "advanced"}

Types ==
    /\ data \in [usable : BOOLEAN, host : Addresses, phases : Phases, mode : Modes,
                 reve : BOOLEAN]
    /\ built \in [host : Addresses \cup {"none"}, phases : Phases, mode : Modes,
                  reve : BOOLEAN]
    /\ state \in {"not loaded", "retry", "error", "removed", "refresh", "probe"} \cup Attached
    /\ {up, heard, latched, watching, wanted, everReve} \subseteq BOOLEAN
    /\ rows \subseteq Rows

Building == {"refresh", "probe", "safety", "platforms", "loaded"}
Built == {"platforms", "loaded"}

\* What the setup has read is what the entry stores, or a reload will read it again.
BuiltIsStored ==
    /\ state \in Building /\ ~wanted =>
          built.host = data.host /\ built.phases = data.phases
    /\ state \in Built /\ ~wanted => built.mode = data.mode /\ built.reve = data.reve
    /\ state = "loaded" /\ ~wanted /\ data.phases # "corrupt" =>
          rows = RowsOf(data.phases, data.mode, data.reve)

\* REVE firmware is remembered, or watched for.
ReveIsKept ==
    /\ state \in Attached /\ up /\ heard => data.reve
    /\ state \in Attached /\ ~watching => data.reve
    /\ heard \/ data.reve => everReve

\* What an unload under way is for.
PurposeIsKnown == state = "unloading" => purpose \in {"reload", "disable", "remove"}

SetupInv == Types /\ BuiltIsStored /\ ReveIsKept /\ NoticeIsNotLost /\ PurposeIsKnown

\* The invariant holds before the first setup.
LEMMA SetupInvInit == SetupInit => SetupInv
<1> SUFFICES ASSUME SetupInit PROVE SetupInv
  OBVIOUS
<1>1. Types
  BY DEF SetupInit, Types, Phases, Modes, Nothing
<1>. QED
  BY <1>1 DEF SetupInit, SetupInv, BuiltIsStored, ReveIsKept, PurposeIsKnown, NoticeIsNotLost,
     Building, Built,
     Attached

\* Begin reads the entry, and hears nothing yet.
LEMMA BeginKeepsInv ==
  ASSUME SetupInv, Begin, wanted' \in BOOLEAN
  PROVE  SetupInv'
<1>1. CASE data.usable
  <2>1. state' = "refresh" /\ built' = [host |-> data.host, phases |-> data.phases,
                                        mode |-> data.mode, reve |-> FALSE]
    BY <1>1 DEF Begin
  <2>3. built' \in [host : Addresses \cup {"none"}, phases : Phases, mode : Modes, reve : BOOLEAN]
    BY <2>1 DEF SetupInv, Types
  <2>2. Types'
    BY <2>1, <2>3 DEF Begin, SetupInv, Types
  <2>. QED
    BY <2>1, <2>2 DEF Begin, SetupInv, BuiltIsStored, ReveIsKept, PurposeIsKnown,
       NoticeIsNotLost, Building,
       Built, Attached
<1>2. CASE ~data.usable
  <2>2. built' \in [host : Addresses \cup {"none"}, phases : Phases, mode : Modes, reve : BOOLEAN]
    <3>1. Nothing \in [host : Addresses \cup {"none"}, phases : Phases, mode : Modes,
                       reve : BOOLEAN]
      BY DEF Nothing, Phases, Modes
    <3>. QED
      BY <1>2, <3>1 DEF Begin
  <2>1. Types'
    BY <1>2, <2>2 DEF Begin, SetupInv, Types
  <2>. QED
    BY <1>2, <2>1 DEF Begin, SetupInv, BuiltIsStored, ReveIsKept, PurposeIsKnown,
       NoticeIsNotLost, Building,
       Built, Attached
<1>. QED
  BY <1>1, <1>2

\* A setup that fails is detached.
LEMMA FailKeepsInv ==
  ASSUME SetupInv, NEW to \in {"error", "retry"}, Fail(to)
  PROVE  SetupInv'
<1>1. Types'
  BY DEF Fail, SetupInv, Types
<1>. QED
  BY <1>1 DEF Fail, SetupInv, BuiltIsStored, ReveIsKept, PurposeIsKnown, NoticeIsNotLost,
     Building, Built, Attached

\* The rows of a finished setup are those that its settings build.
LEMMA PrunedRows ==
  ASSUME SetupInv, PlatformsUp
  PROVE  SetupInv'
<1>1. rows' = (rows \cup RowsOf(built.phases, built.mode, built.reve)) \ Prune
  BY DEF PlatformsUp
<1>2. Types'
  BY <1>1 DEF PlatformsUp, SetupInv, Types, RowsOf, Attached
<1>3. ~wanted /\ data.phases # "corrupt" => rows' = RowsOf(data.phases, data.mode, data.reve)
  <2>1. SUFFICES ASSUME ~wanted, data.phases # "corrupt"
                 PROVE  rows' = RowsOf(data.phases, data.mode, data.reve)
    OBVIOUS
  <2>2. /\ built.phases = data.phases /\ built.mode = data.mode /\ built.reve = data.reve
    BY <2>1 DEF PlatformsUp, SetupInv, BuiltIsStored, Building, Built, Attached
  <2>3. Prune = Rows \ RowsOf(data.phases, data.mode, data.reve)
    BY <2>1, <2>2 DEF Prune
  <2>4. rows \subseteq Rows /\ RowsOf(data.phases, data.mode, data.reve) \subseteq Rows
    BY DEF SetupInv, Types, RowsOf
  <2>. QED
    BY <1>1, <2>2, <2>3, <2>4
<1>4. BuiltIsStored'
  <2>1. /\ built' = built /\ data' = data /\ wanted' = wanted
        /\ state = "platforms" /\ state' = "loaded"
    BY DEF PlatformsUp
  <2>2. RowsOf(data'.phases, data'.mode, data'.reve) = RowsOf(data.phases, data.mode, data.reve)
    BY <2>1
  <2>. QED
    BY <1>3, <2>1, <2>2 DEF SetupInv, BuiltIsStored, Building, Built, Attached
<1>. QED
  BY <1>2, <1>4 DEF PlatformsUp, SetupInv, ReveIsKept, PurposeIsKnown, NoticeIsNotLost, Attached

\* A poll that finds REVE is remembered, and a reload asked for.
LEMMA PollKeepsInv ==
  ASSUME SetupInv, Poll
  PROVE  SetupInv'
<1>1. UNCHANGED <<state, built, purpose, rows>> /\ state \in Attached
  BY DEF Poll
<1>2. CASE up' = FALSE /\ UNCHANGED <<heard, everReve, latched, notices, data, watching, wanted>>
  <2>1. Types'
    BY <1>1, <1>2 DEF SetupInv, Types
  <2>2. BuiltIsStored'
    BY <1>1, <1>2 DEF SetupInv, BuiltIsStored, RowsOf
  <2>. QED
    BY <1>1, <1>2, <2>1, <2>2 DEF SetupInv, ReveIsKept, PurposeIsKnown, NoticeIsNotLost
<1>3. ASSUME NEW reve \in BOOLEAN, NEW bad \in BOOLEAN,
             up' = TRUE, heard' = reve, everReve' = (everReve \/ reve), latched' = bad,
             notices' = CASE bad /\ ~latched -> notices \cup {"transient"}
                          [] ~bad /\ latched -> notices \ {"transient"}
                          [] OTHER -> notices,
             IF watching /\ reve
             THEN watching' = FALSE /\ data' = [data EXCEPT !.reve = TRUE] /\ wanted' = TRUE
             ELSE UNCHANGED <<watching, data, wanted>>
      PROVE  SetupInv'
  <2>1. NoticeIsNotLost'
    BY <1>3 DEF SetupInv, NoticeIsNotLost
  <2>2. CASE watching /\ reve
    <3>1. watching' = FALSE /\ data' = [data EXCEPT !.reve = TRUE] /\ wanted' = TRUE
      BY <1>3, <2>2
    <3>2. data' \in [usable : BOOLEAN, host : Addresses, phases : Phases, mode : Modes,
                     reve : BOOLEAN] /\ data'.reve
      BY <3>1 DEF SetupInv, Types
    <3>3. Types'
      BY <1>1, <1>3, <3>1, <3>2 DEF SetupInv, Types
    <3>. QED
      BY <1>1, <1>3, <2>1, <2>2, <3>1, <3>2, <3>3 DEF SetupInv, BuiltIsStored, ReveIsKept,
         PurposeIsKnown
  <2>3. CASE ~(watching /\ reve)
    <3>1. UNCHANGED <<watching, data, wanted>>
      BY <1>3, <2>3
    <3>2. Types'
      BY <1>1, <1>3, <3>1 DEF SetupInv, Types
    <3>3. BuiltIsStored'
      BY <1>1, <3>1 DEF SetupInv, BuiltIsStored, RowsOf
    <3>4. ReveIsKept'
      BY <1>1, <1>3, <2>3, <3>1 DEF SetupInv, ReveIsKept
    <3>. QED
      BY <1>1, <2>1, <3>2, <3>3, <3>4 DEF SetupInv, PurposeIsKnown
  <2>. QED
    BY <2>2, <2>3
<1>. QED
  BY <1>2, <1>3 DEF Poll

\* New settings make a reload wanted, wherever the setup is.
LEMMA SettingsKeepInv ==
  ASSUME SetupInv,
         \/ \E host \in Addresses, phases \in {"one", "three"} : Reconnect(host, phases)
         \/ \E mode \in {"basic", "advanced"} : ChooseMode(mode)
  PROVE  SetupInv'
<1>1. /\ UNCHANGED <<state, built, up, heard, latched, watching, purpose, rows, notices, everReve>>
      /\ wanted' = (wanted \/ Reloads)
  BY DEF Reconnect, ChooseMode
<1>2. data' \in [usable : BOOLEAN, host : Addresses, phases : Phases, mode : Modes,
                 reve : BOOLEAN] /\ data'.reve = data.reve
  BY DEF Reconnect, ChooseMode, SetupInv, Types, Phases, Modes
<1>3. Types'
  BY <1>1, <1>2 DEF SetupInv, Types
<1>. QED
  BY <1>1, <1>2, <1>3 DEF SetupInv, BuiltIsStored, ReveIsKept, PurposeIsKnown, NoticeIsNotLost,
     Reloads, Building, Built

\* The invariant is inductive.
LEMMA SetupInvNext == SetupInv /\ [SetupNext]_setupVars => SetupInv'
<1> SUFFICES ASSUME SetupInv, [SetupNext]_setupVars PROVE SetupInv'
  OBVIOUS
<1>1. CASE Setup
  BY <1>1, BeginKeepsInv DEF Setup
<1>2. CASE FirstRefresh
  <2>1. CASE Fail("error") \/ Fail("retry")
    BY <2>1, FailKeepsInv
  <2>2. CASE ~Fail("error") /\ ~Fail("retry")
    <3>1. /\ state = "refresh" /\ state' = "probe"
          /\ UNCHANGED <<data, built, latched, wanted, rows, notices, watching>>
      BY <1>2, <2>2 DEF FirstRefresh
    <3>2. Types'
      BY <1>2, <2>2, <3>1 DEF FirstRefresh, SetupInv, Types
    <3>3. heard' \/ data'.reve => everReve'
      BY <1>2, <2>2, <3>1 DEF FirstRefresh, SetupInv, ReveIsKept
    <3>. QED
      BY <3>1, <3>2, <3>3 DEF SetupInv, BuiltIsStored, ReveIsKept, PurposeIsKnown,
         NoticeIsNotLost, Building,
         Built, Attached
  <2>. QED
    BY <2>1, <2>2
<1>3. CASE Probed
  <2>1. /\ data' = Remembered /\ watching' = ~data'.reve
        /\ state = "probe" /\ state' = "safety"
        /\ UNCHANGED <<built, up, heard, wanted, rows, everReve>>
    BY <1>3 DEF Probed
  <2>2. /\ data' \in [usable : BOOLEAN, host : Addresses, phases : Phases, mode : Modes,
                      reve : BOOLEAN]
        /\ data'.host = data.host /\ data'.phases = data.phases
        /\ up /\ heard => data'.reve
        /\ data'.reve => data.reve \/ heard
    BY <2>1 DEF Remembered, SetupInv, Types
  <2>3. Types'
    BY <1>3, <2>1, <2>2 DEF Probed, SetupInv, Types, Attached
  <2>4. NoticeIsNotLost'
    BY <1>3 DEF Probed, NoticeIsNotLost
  <2>. QED
    BY <2>1, <2>2, <2>3, <2>4 DEF SetupInv, BuiltIsStored, ReveIsKept, PurposeIsKnown, Building,
       Built,
       Attached
<1>4. CASE SafetyLoaded
  <2>1. /\ built' = [built EXCEPT !.mode = data.mode, !.reve = data.reve]
        /\ state = "safety" /\ state' = "platforms"
        /\ UNCHANGED <<data, up, heard, latched, watching, wanted, rows, notices, everReve>>
    BY <1>4 DEF SafetyLoaded
  <2>2. /\ built' \in [host : Addresses \cup {"none"}, phases : Phases, mode : Modes,
                       reve : BOOLEAN]
        /\ built'.host = built.host /\ built'.phases = built.phases
        /\ built'.mode = data.mode /\ built'.reve = data.reve
    BY <2>1 DEF SetupInv, Types
  <2>3. Types'
    BY <2>1, <2>2 DEF SetupInv, Types, Attached
  <2>. QED
    BY <2>1, <2>2, <2>3 DEF SetupInv, BuiltIsStored, ReveIsKept, PurposeIsKnown, NoticeIsNotLost,
       Building, Built,
       Attached
<1>5. CASE PlatformsUp
  BY <1>5, PrunedRows
<1>6. CASE SetupFails
  BY <1>6, FailKeepsInv DEF SetupFails
<1>7. CASE Poll
  BY <1>7, PollKeepsInv
<1>8. CASE \/ \E host \in Addresses, phases \in {"one", "three"} : Reconnect(host, phases)
           \/ \E mode \in {"basic", "advanced"} : ChooseMode(mode)
  BY <1>8, SettingsKeepInv
<1>9. ASSUME NEW why \in {"reload", "disable", "remove"}, Unload(why) PROVE SetupInv'
  <2>1. Types'
    BY <1>9 DEF Unload, SetupInv, Types, Attached
  <2>. QED
    BY <1>9, <2>1 DEF Unload, SetupInv, BuiltIsStored, ReveIsKept, PurposeIsKnown,
       NoticeIsNotLost, Building,
       Built, Attached
<1>10. CASE UnloadFails
  <2>1. Types'
    BY <1>10 DEF UnloadFails, SetupInv, Types, Attached
  <2>. QED
    BY <1>10, <2>1 DEF UnloadFails, SetupInv, BuiltIsStored, ReveIsKept, PurposeIsKnown,
       NoticeIsNotLost,
       Building, Built, Attached
<1>11. CASE Unloaded
  <2>1. CASE purpose = "reload"
    BY <1>11, <2>1, BeginKeepsInv DEF Unloaded, SetupInv, Types
  <2>2. CASE purpose \in {"disable", "remove"}
    <3>1. /\ state' \in {"not loaded", "removed"} /\ latched' = FALSE /\ watching' = FALSE
          /\ UNCHANGED <<data, built, up, heard, wanted, everReve>>
          /\ rows' \subseteq rows
      BY <1>11, <2>2 DEF Unloaded
    <3>2. Types'
      BY <3>1 DEF SetupInv, Types
    <3>. QED
      BY <3>1, <3>2 DEF SetupInv, BuiltIsStored, ReveIsKept, PurposeIsKnown, NoticeIsNotLost,
         Building, Built,
         Attached
  <2>. QED
    BY <1>11, <2>1, <2>2 DEF Unloaded, SetupInv, PurposeIsKnown
<1>12. CASE UNCHANGED setupVars
  <2>1. Types'
    BY <1>12 DEF setupVars, SetupInv, Types
  <2>2. BuiltIsStored'
    BY <1>12 DEF setupVars, SetupInv, BuiltIsStored, RowsOf
  <2>. QED
    BY <1>12, <2>1, <2>2 DEF setupVars, SetupInv, ReveIsKept, PurposeIsKnown, NoticeIsNotLost
<1>. QED
  BY <1>1, <1>2, <1>3, <1>4, <1>5, <1>6, <1>7, <1>8, <1>9, <1>10, <1>11, <1>12 DEF SetupNext

-------------------------------------------------------------------------------
\* Hence the entry and its setup stay in step.
THEOREM SetupInvHolds == SetupSpec => []SetupInv
BY SetupInvInit, SetupInvNext, PTL DEF SetupSpec

\* A notice that a tracker still holds is in Repairs, failed unloads included.
THEOREM SetupKeepsNotices == SetupSpec => []NoticeIsNotLost
BY SetupInvHolds, PTL DEF SetupInv

\* Whatever is stored during a setup is run, or a reload is wanted (async_setup_entry,
\* _reload_on_reve).
THEOREM SetupRunsWhatIsStored == SetupSpec => []RunsWhatIsStored
<1>1. ASSUME SetupInv PROVE RunsWhatIsStored
  <2>1. SUFFICES ASSUME state = "loaded", ~wanted
                 PROVE  /\ built.host = data.host /\ built.phases = data.phases
                        /\ built.mode = data.mode /\ built.reve = data.reve
                        /\ data.phases # "corrupt" =>
                              rows = RowsOf(data.phases, data.mode, data.reve)
                        /\ up /\ heard => built.reve
    BY DEF RunsWhatIsStored
  <2>. QED
    BY <1>1, <2>1 DEF SetupInv, BuiltIsStored, ReveIsKept, Building, Built, Attached
<1>. QED
  BY SetupInvHolds, <1>1, PTL

\* Only a finished setup deletes rows, and only those no setting builds
\* (_prune_unused_entities).
THEOREM SetupKeepsRows == SetupSpec => RowsAreKept
<1>1. ASSUME SetupInv, [SetupNext]_setupVars, NEW row \in rows \ rows', state' # "removed"
      PROVE  /\ state = "platforms" /\ state' = "loaded"
             /\ row = "three phases" => built.phases = "one"
             /\ row = "advanced" => data.mode = "basic"
             /\ row = "classic" => everReve
  <2>1. PlatformsUp
    <3>1. rows' # rows
      BY <1>1
    <3>2. ~Unloaded
      BY <1>1, <3>1 DEF Unloaded, Begin, SetupInv, PurposeIsKnown
    <3>. QED
      BY <1>1, <3>1, <3>2 DEF SetupNext, Setup, Begin, FirstRefresh, Fail, Probed, SafetyLoaded,
         SetupFails, Poll, Reconnect, ChooseMode, Unload, UnloadFails, setupVars
  <2>2. row \in Prune
    BY <1>1, <2>1 DEF PlatformsUp
  <2>3. /\ row \in Rows
        /\ row \notin RowsOf(IF built.phases = "corrupt" THEN "three" ELSE built.phases,
                             data.mode, data.reve)
    BY <2>2 DEF Prune
  <2>4. row = "three phases" => built.phases = "one"
    BY <1>1, <2>3 DEF RowsOf, SetupInv, Types, Phases
  <2>5. row = "advanced" => data.mode = "basic"
    BY <1>1, <2>3 DEF RowsOf, SetupInv, Types, Modes
  <2>6. row = "classic" => everReve
    BY <1>1, <2>3 DEF RowsOf, SetupInv, ReveIsKept
  <2>. QED
    BY <2>1, <2>4, <2>5, <2>6 DEF PlatformsUp
<1>2. SetupInv /\ [SetupNext]_setupVars =>
        [\A row \in rows \ rows' : state' # "removed" =>
            /\ state = "platforms" /\ state' = "loaded"
            /\ row = "three phases" => built.phases = "one"
            /\ row = "advanced" => data.mode = "basic"
            /\ row = "classic" => everReve]_setupVars
  BY <1>1
<1>. QED
  BY SetupInvHolds, <1>2, PTL DEF SetupSpec, RowsAreKept

\* Neither setups that fail nor unloads that fail lose rows or notices.
THEOREM SetupLosesNothing == SetupSpec => NothingIsLost
BY SetupKeepsRows, SetupKeepsNotices, PTL DEF NothingIsLost

-------------------------------------------------------------------------------
(***************************************************************************)
(* The dialogs of one entry, for every set of addresses, credentials, cars *)
(* and keys. The invariant adds to the property that the entry always has  *)
(* its fixed keys, that an emptied picker leaves no car in it, and that an *)
(* open options form shows the entry's car.                                *)
(***************************************************************************)

\* The keys every entry has, from the step that created it.
Fixed == {"host", "credentials", "connection", "mode"}

\* What an entry is: a function on the fixed keys and some of the preserved ones.
EntryIsWhole ==
    /\ entry = [key \in DOMAIN entry |-> entry[key]]
    /\ Fixed \subseteq DOMAIN entry
    /\ DOMAIN entry \subseteq Fixed \cup Preserved

\* An emptied picker leaves no car in the entry.
CarIsChosen == "car" \in DOMAIN entry => entry.car # None

\* The car an open options flow remembers is the one the entry has.
OptionsAreCurrent == options.step = "init" => options.car = CarOf(entry)

FlowsInv == EntryIsWhole /\ CarIsChosen /\ OptionsAreCurrent /\ EveryChoiceStands

\* Functions agree when they agree on the same keys.
LEMMA SameFunction ==
    ASSUME NEW f, NEW g, f = [x \in DOMAIN f |-> f[x]], g = [x \in DOMAIN g |-> g[x]],
           DOMAIN f = DOMAIN g, \A x \in DOMAIN f : f[x] = g[x]
    PROVE  f = g
OBVIOUS

\* Merging a connection form into an entry changes the three keys that the form has.
LEMMA MergeSetsTheForm ==
    ASSUME EntryIsWhole, FlowsAssumption, NEW form
    PROVE  Merge(entry, form) = [entry EXCEPT !.host = form.host, !.connection = form.connection,
                                              !.credentials = form.credentials]
<1> DEFINE stored == [host |-> form.host, credentials |-> form.credentials,
                      connection |-> form.connection, mode |-> entry.mode]
           kept == Restrict(entry, Preserved \cap DOMAIN entry)
           new == [entry EXCEPT !.host = form.host, !.connection = form.connection,
                                !.credentials = form.credentials]
<1>1. Merge(entry, form) = Put(stored, kept)
  BY DEF Merge
<1>2. DOMAIN stored = Fixed /\ DOMAIN kept = Preserved \cap DOMAIN entry
  BY DEF Fixed, Restrict
<1>3. Fixed \cap Preserved = {}
  BY FlowsAssumption DEF Fixed, Preserved
<1>4. ASSUME NEW key \in DOMAIN entry PROVE Put(stored, kept)[key] = new[key]
  <2>1. CASE key \in Fixed
    <3>1. Put(stored, kept)[key] = stored[key]
      BY <1>2, <2>1 DEF Put
    <3>2. /\ stored["host"] = form.host /\ stored["credentials"] = form.credentials
          /\ stored["connection"] = form.connection /\ stored["mode"] = entry.mode
      OBVIOUS
    <3>3. /\ new["host"] = form.host /\ new["credentials"] = form.credentials
          /\ new["connection"] = form.connection /\ new["mode"] = entry.mode
      BY DEF EntryIsWhole, Fixed
    <3>4. stored[key] = new[key]
      BY <2>1, <3>2, <3>3 DEF Fixed
    <3>. QED
      BY <3>1, <3>4
  <2>2. CASE key \notin Fixed
    <3>1. key \in Preserved \cap DOMAIN entry
      BY <2>2 DEF EntryIsWhole
    <3>2. Put(stored, kept)[key] = entry[key]
      BY <1>2, <2>2, <3>1 DEF Put, Restrict
    <3>3. new[key] = entry[key]
      BY <2>2 DEF Fixed
    <3>. QED
      BY <3>2, <3>3
  <2>. QED
    BY <2>1, <2>2
<1>5. DOMAIN Put(stored, kept) = DOMAIN new
  BY <1>2 DEF EntryIsWhole, Put
<1>. QED
  BY <1>1, <1>4, <1>5 DEF Put

\* What the options store of the choices: each key that was not emptied, over the others.
Chosen(base, chosen) ==
    LET kept == Restrict(base, DOMAIN base \ DOMAIN chosen)
        filled == {key \in DOMAIN chosen : chosen[key] # None}
    IN  Put(Restrict(chosen, filled), kept)

\* Chosen is a function with these keys and values.
LEMMA ChosenOutcome ==
    ASSUME NEW base, NEW chosen
    PROVE  LET new == Chosen(base, chosen)
           IN  /\ new = [key \in DOMAIN new |-> new[key]]
               /\ \A key : key \in DOMAIN new <=>
                     IF key \in DOMAIN chosen THEN chosen[key] # None ELSE key \in DOMAIN base
               /\ \A key \in DOMAIN new :
                     new[key] = IF key \in DOMAIN chosen THEN chosen[key] ELSE base[key]
BY DEF Chosen, Put, Restrict

\* So is what storing a car's number makes of the data.
LEMMA StoreCarOutcome ==
    ASSUME NEW edited, edited = [key \in DOMAIN edited |-> edited[key]], NEW car
    PROVE  LET new == StoreCar(edited, car)
           IN  /\ new = [key \in DOMAIN new |-> new[key]]
               /\ \A key : key \in DOMAIN new <=>
                     IF key = "car" THEN car # None ELSE key \in DOMAIN edited
               /\ \A key \in DOMAIN new :
                     new[key] = IF key = "car" THEN car ELSE edited[key]
BY DEF StoreCar, Put, Restrict

\* The options' choices in the entry: the mode and the car are stored, what else was chosen is.
LEMMA OptionsKeepInv ==
    ASSUME FlowsInv, NEW mode \in {"basic", "advanced"}, NEW pick, NEW new, NEW chosen,
           new = [key \in DOMAIN new |-> new[key]], Apply(new, chosen),
           DOMAIN chosen \subseteq {"mode", "car", "battery"},
           \A key : key \in DOMAIN new <=>
               IF key \in DOMAIN chosen THEN chosen[key] # None ELSE key \in DOMAIN entry,
           \A key \in DOMAIN new :
               new[key] = IF key \in DOMAIN chosen THEN chosen[key] ELSE entry[key],
           chosen["mode"] # None, UNCHANGED proven
    PROVE  FlowsInv'
<1>1. entry' = new /\ latest' = Chosen(latest, chosen) /\ options' = Idle
  BY DEF Apply, Chosen
<1>2. latest' = new
  BY <1>1, ChosenOutcome, SameFunction DEF FlowsInv, EveryChoiceStands
<1>3. EntryIsWhole'
  BY <1>1 DEF FlowsInv, EntryIsWhole, Fixed, Preserved
<1>4. CarIsChosen'
  BY <1>1 DEF FlowsInv, CarIsChosen
<1>5. OptionsAreCurrent'
  BY <1>1 DEF OptionsAreCurrent, Idle
<1>6. EveryChoiceStands'
  BY <1>1, <1>2 DEF FlowsInv, EveryChoiceStands, EntryIsWhole, Fixed
<1>. QED
  BY <1>3, <1>4, <1>5, <1>6 DEF FlowsInv

\* The first form stores the car it remembers where the picker is not heard, which is the
\* entry's own: nobody else chooses one while the options are open.
LEMMA SubmitInitKeepsInv ==
    ASSUME FlowsInv, FlowsAssumption, NEW mode \in {"basic", "advanced"}, NEW pick,
           SubmitInit(mode, pick)
    PROVE  FlowsInv'
<1> DEFINE both == entry.mode = "advanced" /\ mode = "advanced"
           car == IF both THEN pick ELSE options.car
           edited == [entry EXCEPT !.mode = mode]
           chosen == IF both THEN [mode |-> mode, car |-> pick] ELSE [mode |-> mode]
<1>1. CASE mode = "advanced" /\ "battery" \notin DOMAIN entry
  <2>1. /\ options' = [step |-> "soc", car |-> car]
        /\ UNCHANGED <<entry, latest, proven>>
    BY <1>1 DEF SubmitInit
  <2>. QED
    BY <2>1 DEF FlowsInv, EntryIsWhole, CarIsChosen, OptionsAreCurrent, EveryChoiceStands
<1>2. CASE ~(mode = "advanced" /\ "battery" \notin DOMAIN entry)
  <2>1. Apply(StoreCar(edited, car), chosen) /\ UNCHANGED proven /\ options.step = "init"
    BY <1>2 DEF SubmitInit
  <2>2. /\ edited = [key \in DOMAIN edited |-> edited[key]] /\ DOMAIN edited = DOMAIN entry
        /\ edited["mode"] = mode /\ \A key \in DOMAIN entry \ {"mode"} : edited[key] = entry[key]
    BY DEF FlowsInv, EntryIsWhole, Fixed
  <2>3. CASE both
    <3>1. /\ chosen["mode"] = mode /\ chosen["car"] = pick /\ car = pick
          /\ DOMAIN chosen = {"mode", "car"}
      BY <2>3
    <3>. QED
      BY <2>1, <2>2, <3>1, StoreCarOutcome, OptionsKeepInv DEF None, FlowsInv, EntryIsWhole, Fixed
  <2>4. CASE ~both
    <3>1. chosen["mode"] = mode /\ DOMAIN chosen = {"mode"} /\ car = CarOf(entry)
      BY <2>1, <2>4 DEF FlowsInv, OptionsAreCurrent
    <3>2. (car # None <=> "car" \in DOMAIN entry) /\ ("car" \in DOMAIN entry => car = entry["car"])
      BY <3>1 DEF CarOf, FlowsInv, CarIsChosen
    <3>. QED
      BY <2>1, <2>2, <3>1, <3>2, StoreCarOutcome, OptionsKeepInv
      DEF None, FlowsInv, EntryIsWhole, Fixed
  <2>. QED
    BY <2>3, <2>4
<1>. QED
  BY <1>1, <1>2

\* The SOC form of a new entry.
LEMMA SocFormKeepsInv ==
    ASSUME FlowsInv, FlowsAssumption, NEW pack, pack # None, NEW pick,
           SubmitSoc(pack, pick)
    PROVE  FlowsInv'
<1> DEFINE edited == [entry EXCEPT !.mode = "advanced"]
           stored == StoreCar(edited, pick)
           new == Put([battery |-> pack], stored)
           chosen == [mode |-> "advanced", battery |-> pack, car |-> pick]
<1>1. Apply(new, chosen) /\ UNCHANGED proven
  BY DEF SubmitSoc
<1>2. /\ edited = [key \in DOMAIN edited |-> edited[key]] /\ DOMAIN edited = DOMAIN entry
      /\ edited["mode"] = "advanced"
      /\ \A key \in DOMAIN entry \ {"mode"} : edited[key] = entry[key]
  BY DEF FlowsInv, EntryIsWhole, Fixed
<1>3. /\ chosen["mode"] = "advanced" /\ chosen["car"] = pick /\ chosen["battery"] = pack
      /\ DOMAIN chosen = {"mode", "battery", "car"}
  OBVIOUS
<1>4. /\ new = [key \in DOMAIN new |-> new[key]]
      /\ DOMAIN new = {"battery"} \cup DOMAIN stored
      /\ new["battery"] = pack /\ \A key \in DOMAIN stored \ {"battery"} : new[key] = stored[key]
  BY DEF Put
<1>5. /\ \A key : key \in DOMAIN new <=>
            IF key \in DOMAIN chosen THEN chosen[key] # None ELSE key \in DOMAIN entry
      /\ \A key \in DOMAIN new :
            new[key] = IF key \in DOMAIN chosen THEN chosen[key] ELSE entry[key]
  BY <1>2, <1>3, <1>4, StoreCarOutcome DEF None, FlowsInv, EntryIsWhole, Fixed
<1>. QED
  BY <1>1, <1>3, <1>4, <1>5, OptionsKeepInv DEF None

\* The dialogs that waited for the charger change their own keys of the entry as it is.
LEMMA AnswersKeepInv ==
    ASSUME FlowsInv, FlowsAssumption, ConnectionAccepted \/ ReauthAccepted
    PROVE  FlowsInv'
<1>1. CASE ConnectionAccepted
  <2> DEFINE form == connecting
             new == [entry EXCEPT !.host = form.host, !.connection = form.connection,
                                  !.credentials = form.credentials]
  <2>1. CASE UNCHANGED <<entry, latest, proven, options>>
    BY <2>1 DEF FlowsInv, EntryIsWhole, CarIsChosen, OptionsAreCurrent, EveryChoiceStands
  <2>2. CASE /\ entry' = Merge(entry, form) /\ latest' = new /\ options' = options
             /\ proven' = <<form.host, form.credentials>>
    <3>1. entry' = new /\ latest' = new
      BY <2>2, MergeSetsTheForm DEF FlowsInv, EveryChoiceStands
    <3>2. /\ new = [key \in DOMAIN new |-> new[key]] /\ DOMAIN new = DOMAIN entry
          /\ new["host"] = form.host /\ new["credentials"] = form.credentials
          /\ "car" \in DOMAIN entry => new["car"] = entry["car"]
      BY DEF FlowsInv, EntryIsWhole, Fixed
    <3>. QED
      BY <2>2, <3>1, <3>2
      DEF FlowsInv, EntryIsWhole, CarIsChosen, OptionsAreCurrent, EveryChoiceStands, CarOf
  <2>. QED
    BY <1>1, <2>1, <2>2 DEF ConnectionAccepted, FlowsInv, EveryChoiceStands
<1>2. CASE ReauthAccepted
  <2> DEFINE new == [entry EXCEPT !.credentials = reauth.merged.credentials]
  <2>1. CASE UNCHANGED <<entry, latest, proven, options>>
    BY <2>1 DEF FlowsInv, EntryIsWhole, CarIsChosen, OptionsAreCurrent, EveryChoiceStands
  <2>2. CASE /\ entry' = new /\ latest' = new /\ options' = options
             /\ proven' = <<entry.host, reauth.merged.credentials>>
    <3>1. /\ new = [key \in DOMAIN new |-> new[key]] /\ DOMAIN new = DOMAIN entry
          /\ new["host"] = entry["host"] /\ new["credentials"] = reauth.merged.credentials
          /\ "car" \in DOMAIN entry => new["car"] = entry["car"]
      BY DEF FlowsInv, EntryIsWhole, Fixed
    <3>. QED
      BY <2>2, <3>1
      DEF FlowsInv, EntryIsWhole, CarIsChosen, OptionsAreCurrent, EveryChoiceStands, CarOf
  <2>. QED
    BY <1>2, <2>1, <2>2
    DEF ReauthAccepted, Moved, Reauthenticated, FlowsInv, EveryChoiceStands
<1>. QED
  BY <1>1, <1>2

\* The switch and the polls set and take out keys that no dialog stores.
LEMMA SetKeyKeepsInv ==
    ASSUME FlowsInv, FlowsAssumption, NEW own \in Keys, SetKey(own)
    PROVE  FlowsInv'
<1>1. entry' = latest' /\ UNCHANGED <<options, proven>>
  BY DEF SetKey, FlowsInv, EveryChoiceStands
<1>2. /\ entry' = [key \in DOMAIN entry' |-> entry'[key]]
      /\ DOMAIN entry \ {own} \subseteq DOMAIN entry'
      /\ DOMAIN entry' \subseteq DOMAIN entry \cup {own}
      /\ \A key \in DOMAIN entry \ {own} : entry'[key] = entry[key]
  BY DEF SetKey, Put, Restrict
<1>3. own \notin Fixed \cup {"car"} /\ own \in Preserved
  BY FlowsAssumption DEF Fixed, Preserved
<1>. QED
  BY <1>1, <1>2, <1>3
  DEF FlowsInv, EntryIsWhole, CarIsChosen, OptionsAreCurrent, EveryChoiceStands, CarOf, Fixed

\* The invariant holds at first.
LEMMA FlowsInvInit == FlowsInit => FlowsInv
<1> SUFFICES ASSUME FlowsInit PROVE FlowsInv
  OBVIOUS
<1>1. PICK h \in Hosts, c \in Credentials, n \in Connections :
          entry = [host |-> h, credentials |-> c, connection |-> n, mode |-> "basic"]
  BY DEF FlowsInit
<1>2. entry = [key \in DOMAIN entry |-> entry[key]] /\ DOMAIN entry = Fixed
  BY <1>1 DEF Fixed
<1>3. EntryIsWhole /\ CarIsChosen
  BY <1>2 DEF EntryIsWhole, CarIsChosen, Fixed
<1>. QED
  BY <1>3 DEF FlowsInit, FlowsInv, OptionsAreCurrent, EveryChoiceStands, Idle

\* Every step keeps the invariant.
LEMMA FlowsInvNext == FlowsInv /\ [FlowsNext]_flowVars => FlowsInv'
<1> SUFFICES ASSUME FlowsInv, [FlowsNext]_flowVars PROVE FlowsInv'
  OBVIOUS
<1> USE FlowsAssumption
<1>1. CASE UNCHANGED <<entry, latest, proven, options>>
  BY <1>1 DEF FlowsInv, EntryIsWhole, CarIsChosen, OptionsAreCurrent, EveryChoiceStands
<1>2. CASE CloseOptions
  BY <1>2 DEF CloseOptions, FlowsInv, EntryIsWhole, CarIsChosen, OptionsAreCurrent,
              EveryChoiceStands, Idle
<1>3. CASE OpenOptions
  BY <1>3 DEF OpenOptions, FlowsInv, EntryIsWhole, CarIsChosen, OptionsAreCurrent,
              EveryChoiceStands, CarOf
<1>4. ASSUME NEW mode \in {"basic", "advanced"}, NEW pick, SubmitInit(mode, pick)
      PROVE  FlowsInv'
  BY <1>4, SubmitInitKeepsInv
<1>5. ASSUME NEW pack \in Batteries, NEW pick, SubmitSoc(pack, pick)
      PROVE  FlowsInv'
  BY <1>5, SocFormKeepsInv
<1>6. ASSUME NEW key \in Keys, SetKey(key)
      PROVE  FlowsInv'
  BY <1>6, SetKeyKeepsInv
<1>. QED
  BY <1>1, <1>2, <1>3, <1>4, <1>5, <1>6, AnswersKeepInv
  DEF FlowsNext, flowVars, SubmitConnection, ConnectionRefused, SubmitReauth, ReauthRefused,
      OtherEntries

\* The entry holds what was last chosen or found for every key, and credentials that a charger
\* took at its address, in whatever order the dialogs of config_flow.py and repairs.py are
\* opened, submitted and answered.
THEOREM FlowsKeepEveryChoice == FlowsSpec => []EveryChoiceStands
<1>1. FlowsInv => EveryChoiceStands
  BY DEF FlowsInv
<1>. QED
  BY <1>1, FlowsInvInit, FlowsInvNext, PTL DEF FlowsSpec

-------------------------------------------------------------------------------
(***************************************************************************)
(* The entries of a house, for every set of chargers, slots and dialogs.   *)
(* Each entry goes by an id of its own address and no two by the same one; *)
(* at most one dialog has the SOC form of an address open, and it is known *)
(* which entries overtook it.                                              *)
(***************************************************************************)

EntryFields == {"charger", "id", "current"}

\* An entry goes by its own address, in the old spelling or in the new.
EntriesAreTheirOwn ==
    /\ DOMAIN entries \subseteq Slots
    /\ \A s \in DOMAIN entries :
          /\ DOMAIN entries[s] = EntryFields
          /\ entries[s].id \in {Old(entries[s].charger), Canonical(entries[s].charger)}

IdsDiffer == \A s, t \in DOMAIN entries : entries[s].id = entries[t].id => s = t

DialogTypes ==
    adding \in [Dialogs -> {NotAsked} \cup [step : {"asking", "soc"}, charger : Chargers]]

Chooses(d, charger) == adding[d] = [step |-> "soc", charger |-> charger]

\* Home Assistant ends a dialog while another one has a SOC form open for its address.
SocFormsDiffer ==
    \A d, e \in Dialogs, charger \in Chargers : Chooses(d, charger) /\ Chooses(e, charger) => d = e

\* An entry at the address of an open SOC form overtook the form.
OvertakersAreKnown ==
    \A d \in Dialogs, charger \in Chargers, s \in DOMAIN entries :
        Chooses(d, charger) /\ entries[s].id = Canonical(charger) => <<d, s>> \in overtaken

\* A form that moves an entry is one of two.
MoveHasAKind == moving # NotMoving => moving.kind \in {"reconfigure", "repair"}

HouseInv ==
    EntriesAreTheirOwn /\ IdsDiffer /\ DialogTypes /\ SocFormsDiffer /\ OvertakersAreKnown

USE DEF Old, Canonical

\* The invariant holds at first.
LEMMA HouseInvInit == HouseInit => HouseInv
<1> SUFFICES ASSUME HouseInit PROVE HouseInv
  OBVIOUS
<1>1. PICK present \in SUBSET Slots :
          entries \in [present -> {[charger |-> c, id |-> <<c, spelling>>, current |-> current] :
                                      c \in Chargers, spelling \in {"old", "canonical"},
                                      current \in BOOLEAN}]
  BY DEF HouseInit
<1>2. ASSUME NEW s \in DOMAIN entries
      PROVE  /\ DOMAIN entries[s] = EntryFields
             /\ entries[s].id \in {Old(entries[s].charger), Canonical(entries[s].charger)}
  <2>1. PICK c \in Chargers, spelling \in {"old", "canonical"}, current \in BOOLEAN :
            entries[s] = [charger |-> c, id |-> <<c, spelling>>, current |-> current]
    BY <1>1, <1>2
  <2>. QED
    BY <2>1 DEF EntryFields
<1>3. EntriesAreTheirOwn
  BY <1>1, <1>2 DEF EntriesAreTheirOwn
<1>4. DialogTypes /\ \A d \in Dialogs, charger \in Chargers : ~Chooses(d, charger)
  BY DEF HouseInit, DialogTypes, Chooses, NotAsked
<1>. QED
  BY <1>3, <1>4 DEF HouseInit, HouseInv, IdsDiffer, SocFormsDiffer, OvertakersAreKnown

\* While the entries stay, dialogs may come and go, but one that shows its SOC form found its
\* address free.
LEMMA DialogStepKeepsInv ==
    ASSUME HouseInv, UNCHANGED entries, DialogTypes', NEW d \in Dialogs,
           \A e \in Dialogs \ {d} : adding'[e] = adding[e],
           {pair \in overtaken : pair[1] # d} \subseteq overtaken',
           \A charger \in Chargers : Chooses(d, charger)' =>
               /\ ~InProgress(charger, d) /\ ~Configured(Canonical(charger), Nowhere)
    PROVE  HouseInv'
<1>1. EntriesAreTheirOwn' /\ IdsDiffer'
  BY DEF HouseInv, EntriesAreTheirOwn, IdsDiffer
<1>2. SocFormsDiffer'
  <2>1. ASSUME NEW e \in Dialogs \ {d}, NEW charger \in Chargers
        PROVE  Chooses(e, charger)' <=> Chooses(e, charger)
    BY <2>1 DEF Chooses
  <2>2. ASSUME NEW e \in Dialogs \ {d}, NEW charger \in Chargers, Chooses(e, charger)
        PROVE  ~Chooses(d, charger)'
    BY <2>2 DEF Chooses, InProgress
  <2>. QED
    BY <2>1, <2>2 DEF HouseInv, SocFormsDiffer
<1>3. OvertakersAreKnown'
  <2> SUFFICES ASSUME NEW e \in Dialogs, NEW charger \in Chargers, NEW s \in DOMAIN entries,
                      Chooses(e, charger)', entries[s].id = Canonical(charger)
               PROVE  <<e, s>> \in overtaken'
    BY DEF OvertakersAreKnown
  <2>1. CASE e = d
    <3>1. s # Nowhere
      BY HouseAssumption DEF HouseInv, EntriesAreTheirOwn
    <3>. QED
      BY <2>1, <3>1 DEF Configured
  <2>2. CASE e # d
    <3>1. <<e, s>> \in overtaken
      BY <2>2 DEF HouseInv, OvertakersAreKnown, Chooses
    <3>2. <<e, s>>[1] # d
      BY <2>2
    <3>. QED
      BY <3>1, <3>2
  <2>. QED
    BY <2>1, <2>2
<1>. QED
  BY <1>1, <1>2, <1>3 DEF HouseInv

\* An entry that is given a free address, or keeps its id, leaves the ids apart; the dialogs that
\* chose the address are overtaken.
LEMMA EntryStepKeepsInv ==
    ASSUME HouseInv, NEW slot, UNCHANGED adding,
           DOMAIN entries' = DOMAIN entries,
           \A s \in DOMAIN entries \ {slot} : entries'[s] = entries[s],
           slot \in DOMAIN entries =>
               /\ DOMAIN entries'[slot] = EntryFields
               /\ \/ entries'[slot].id = entries[slot].id
                     /\ entries'[slot].charger = entries[slot].charger
                  \/ /\ entries'[slot].id = Canonical(entries'[slot].charger)
                     /\ \/ entries'[slot].id = entries[slot].id
                        \/ ~Configured(entries'[slot].id, slot)
                     /\ \A d \in Dialogs, charger \in Chargers :
                           Chooses(d, charger) /\ entries'[slot].id = Canonical(charger) =>
                               <<d, slot>> \in overtaken',
           overtaken \subseteq overtaken'
    PROVE  HouseInv'
<1>1. EntriesAreTheirOwn'
  BY DEF HouseInv, EntriesAreTheirOwn
<1>2. IdsDiffer'
  BY DEF HouseInv, IdsDiffer, Configured
<1>3. DialogTypes' /\ SocFormsDiffer'
  BY DEF HouseInv, DialogTypes, SocFormsDiffer, Chooses
<1>4. OvertakersAreKnown'
  BY DEF HouseInv, OvertakersAreKnown, Chooses
<1>. QED
  BY <1>1, <1>2, <1>3, <1>4 DEF HouseInv

\* A dialog that is over: nothing is chosen, and no entry overtakes it.
LEMMA LeaveOutcome ==
    ASSUME HouseInv, NEW d \in Dialogs, Leave(d)
    PROVE  /\ DialogTypes' /\ adding'[d] = NotAsked
           /\ \A e \in Dialogs \ {d} : adding'[e] = adding[e]
           /\ \A charger \in Chargers : ~Chooses(d, charger)'
           /\ {pair \in overtaken : pair[1] # d} \subseteq overtaken'
<1>1. adding' = [adding EXCEPT ![d] = NotAsked] /\ DialogTypes
  BY DEF Leave, HouseInv
<1>2. DialogTypes' /\ adding'[d] = NotAsked /\ \A e \in Dialogs \ {d} : adding'[e] = adding[e]
  BY <1>1 DEF DialogTypes
<1>3. \A charger \in Chargers : NotAsked # [step |-> "soc", charger |-> charger]
  BY DEF NotAsked
<1>. QED
  BY <1>2, <1>3 DEF Leave, Chooses

\* A new entry takes the place of those that go by its id, which overtook the dialog.
LEMMA CreateKeepsInv ==
    ASSUME HouseInv, NEW d \in Dialogs, NEW slot \in Slots, NEW charger \in Chargers,
           Create(d, slot), adding[d].charger = charger,
           \A e \in Dialogs \ {d} : ~Chooses(e, charger)
    PROVE  HouseInv'
<1> DEFINE id == Canonical(charger)
           kept == {s \in DOMAIN entries : entries[s].id # id}
<1>1. /\ slot \notin DOMAIN entries /\ Leave(d)
      /\ DOMAIN entries' = kept \cup {slot}
      /\ entries'[slot] = [charger |-> charger, id |-> id, current |-> TRUE]
      /\ \A s \in kept : entries'[s] = entries[s]
  BY DEF Create
<1>2. /\ DOMAIN entries'[slot] = EntryFields /\ entries'[slot].id = id
      /\ entries'[slot].charger = charger
  BY <1>1 DEF EntryFields
<1>3. EntriesAreTheirOwn' /\ IdsDiffer'
  BY <1>1, <1>2 DEF HouseInv, EntriesAreTheirOwn, IdsDiffer
<1>4. /\ DialogTypes' /\ \A c \in Chargers : ~Chooses(d, c)'
      /\ \A e \in Dialogs \ {d}, c \in Chargers : Chooses(e, c)' <=> Chooses(e, c)
      /\ {pair \in overtaken : pair[1] # d} \subseteq overtaken'
  BY <1>1, LeaveOutcome DEF Chooses
<1>5. SocFormsDiffer'
  BY <1>4 DEF HouseInv, SocFormsDiffer
<1>6. OvertakersAreKnown'
  <2> SUFFICES ASSUME NEW e \in Dialogs, NEW c \in Chargers, NEW s \in DOMAIN entries',
                      Chooses(e, c)', entries'[s].id = Canonical(c)
               PROVE  <<e, s>> \in overtaken'
    BY DEF OvertakersAreKnown
  <2>1. e # d /\ Chooses(e, c) /\ c # charger
    BY <1>4
  <2>2. s \in kept /\ entries[s].id = Canonical(c)
    BY <1>1, <1>2, <2>1
  <2>3. <<e, s>> \in overtaken /\ <<e, s>>[1] # d
    BY <2>1, <2>2 DEF HouseInv, OvertakersAreKnown
  <2>. QED
    BY <1>4, <2>3
<1>. QED
  BY <1>3, <1>4, <1>5, <1>6 DEF HouseInv

\* A dialog that asks, or chooses, holds an address.
LEMMA DialogOutcome ==
    ASSUME HouseInv, NEW d \in Dialogs, adding[d].step \in {"asking", "soc"}
    PROVE  /\ adding[d].charger \in Chargers
           /\ adding[d] = [step |-> adding[d].step, charger |-> adding[d].charger]
<1>1. adding[d] \in {NotAsked} \cup [step : {"asking", "soc"}, charger : Chargers]
  BY DEF HouseInv, DialogTypes
<1>. QED
  BY <1>1 DEF NotAsked

\* A SOC form makes the entry it was opened for, over any other at its address.
LEMMA SubmitSocKeepsInv ==
    ASSUME HouseInv, NEW d \in Dialogs, NEW slot \in Slots, adding[d].step = "soc", Create(d, slot)
    PROVE  HouseInv'
<1>1. PICK charger \in Chargers : adding[d] = [step |-> "soc", charger |-> charger]
  BY DialogOutcome
<1>2. \A e \in Dialogs \ {d} : ~Chooses(e, charger)
  BY <1>1 DEF HouseInv, SocFormsDiffer, Chooses
<1>. QED
  BY <1>1, <1>2, CreateKeepsInv

\* An address form opens a SOC form, creates at once or is refused.
LEMMA UserKeepsInv ==
    ASSUME HouseInv, NEW d \in Dialogs,
           (\E charger \in Chargers : SubmitUser(d, charger)) \/ Refused(d) \/ UserAccepted(d)
    PROVE  HouseInv'
<1>1. ASSUME NEW charger \in Chargers, SubmitUser(d, charger) PROVE HouseInv'
  <2> DEFINE asking == [step |-> "asking", charger |-> charger]
  <2>1. /\ adding' = [adding EXCEPT ![d] = asking] /\ UNCHANGED <<entries, overtaken>>
        /\ DialogTypes
    BY <1>1 DEF SubmitUser, HouseInv
  <2>2. DialogTypes' /\ adding'[d] = asking /\ \A e \in Dialogs \ {d} : adding'[e] = adding[e]
    BY <2>1 DEF DialogTypes
  <2>3. \A c \in Chargers : ~Chooses(d, c)'
    BY <2>2 DEF Chooses
  <2>. QED
    BY <2>1, <2>2, <2>3, DialogStepKeepsInv
<1>2. CASE UNCHANGED entries /\ Leave(d)
  BY <1>2, LeaveOutcome, DialogStepKeepsInv
<1>3. ASSUME UserAccepted(d), ~(UNCHANGED entries /\ Leave(d)) PROVE HouseInv'
  <2>1. PICK charger \in Chargers : adding[d] = [step |-> "asking", charger |-> charger]
    BY <1>3, DialogOutcome DEF UserAccepted
  <2>2. /\ ~InProgress(charger, d) /\ ~Configured(Canonical(charger), Nowhere)
        /\ \/ \E slot \in Slots : Create(d, slot)
           \/ adding' = [adding EXCEPT ![d].step = "soc"] /\ UNCHANGED <<entries, overtaken>>
    BY <1>3, <2>1 DEF UserAccepted
  <2>3. CASE \E slot \in Slots : Create(d, slot)
    BY <2>1, <2>2, <2>3, CreateKeepsInv DEF InProgress, Chooses
  <2>4. CASE adding' = [adding EXCEPT ![d].step = "soc"] /\ UNCHANGED <<entries, overtaken>>
    <3> DEFINE soc == [step |-> "soc", charger |-> charger]
    <3>1. [adding[d] EXCEPT !.step = "soc"] = soc
      BY <2>1
    <3>2. adding' = [adding EXCEPT ![d] = soc] /\ DialogTypes
      BY <2>4, <3>1 DEF HouseInv
    <3>3. DialogTypes' /\ adding'[d] = soc /\ \A e \in Dialogs \ {d} : adding'[e] = adding[e]
      BY <3>2 DEF DialogTypes
    <3>4. \A c \in Chargers : Chooses(d, c)' => c = charger
      BY <3>3 DEF Chooses
    <3>. QED
      BY <2>2, <2>4, <3>3, <3>4, DialogStepKeepsInv
  <2>. QED
    BY <2>2, <2>3, <2>4
<1>. QED
  BY <1>1, <1>2, <1>3 DEF Refused

\* Whoever chose the address is in the overtaking.
LEMMA OvertakingOutcome ==
    ASSUME NEW slot, NEW charger
    PROVE  /\ overtaken \subseteq Overtaking(slot, charger)
           /\ \A d \in Dialogs : Chooses(d, charger) => <<d, slot>> \in Overtaking(slot, charger)
BY DEF Overtaking, Chooses

\* A migration gives an entry the canonical id of its own address.
LEMMA MigrateKeepsInv ==
    ASSUME HouseInv, NEW slot, Migrate(slot)
    PROVE  HouseInv'
<1> DEFINE id == CanonicalId(slot)
           charger == entries[slot].charger
<1>1. /\ slot \in DOMAIN entries /\ UNCHANGED adding
      /\ entries' = [entries EXCEPT ![slot] = [@ EXCEPT !.id = id, !.current = TRUE]]
      /\ overtaken' = IF entries'[slot].id # entries[slot].id
                      THEN Overtaking(slot, charger) ELSE overtaken
  BY DEF Migrate
<1>2. DOMAIN entries[slot] = EntryFields
  BY <1>1 DEF HouseInv, EntriesAreTheirOwn
<1>3. /\ DOMAIN entries'[slot] = EntryFields /\ entries'[slot].id = id
      /\ entries'[slot].charger = charger /\ DOMAIN entries' = DOMAIN entries
      /\ \A s \in DOMAIN entries \ {slot} : entries'[s] = entries[s]
  BY <1>1, <1>2 DEF EntryFields
<1>4. \/ id = entries[slot].id
      \/ id = Canonical(charger) /\ ~Configured(id, slot)
  BY DEF CanonicalId
<1>5. overtaken \subseteq overtaken'
  BY <1>1, OvertakingOutcome
<1>6. id # entries[slot].id =>
          \A d \in Dialogs, c \in Chargers :
              Chooses(d, c) /\ id = Canonical(c) => <<d, slot>> \in overtaken'
  BY <1>1, <1>3, <1>4, OvertakingOutcome
<1> HIDE DEF id
<1>. QED
  BY <1>1, <1>3, <1>4, <1>5, <1>6, EntryStepKeepsInv

\* An entry is given another address only where no entry has it; a SOC form that is open for
\* it stops the reconfiguration, and is overtaken by the repair.
LEMMA MoveKeepsInv ==
    ASSUME HouseInv, MoveHasAKind, MoveAccepted
    PROVE  HouseInv'
<1> DEFINE slot == moving.slot
           charger == moving.charger
           id == Canonical(charger)
           refused == \/ moving.kind = "reconfigure" /\ InProgress(charger, Nowhere)
                      \/ entries[slot].id # id /\ Configured(id, slot)
<1>1. /\ UNCHANGED adding
      /\ IF refused
         THEN UNCHANGED <<entries, overtaken>>
         ELSE /\ entries' = [entries EXCEPT ![slot] = [@ EXCEPT !.charger = charger, !.id = id]]
              /\ overtaken' = IF moving.kind = "repair"
                              THEN Overtaking(slot, charger) ELSE overtaken
  BY DEF MoveAccepted
<1>2. CASE refused
  BY <1>1, <1>2
  DEF HouseInv, EntriesAreTheirOwn, IdsDiffer, DialogTypes, SocFormsDiffer, OvertakersAreKnown,
      Chooses
<1>3. CASE ~refused
  <2> HIDE DEF slot, charger
  <2>1. overtaken \subseteq overtaken'
    BY <1>1, <1>3, OvertakingOutcome
  <2>2. ASSUME NEW d \in Dialogs, NEW c \in Chargers, Chooses(d, c), id = Canonical(c)
        PROVE  <<d, slot>> \in overtaken'
    <3>1. d # Nowhere /\ c = charger
      BY <2>2, HouseAssumption
    <3>2. InProgress(charger, Nowhere)
      BY <2>2, <3>1 DEF InProgress, Chooses
    <3>3. moving.kind = "repair"
      BY <1>3, <3>2 DEF MoveHasAKind, MoveAccepted, charger
    <3>. QED
      BY <1>1, <1>3, <2>2, <3>1, <3>3, OvertakingOutcome
  <2>3. /\ DOMAIN entries' = DOMAIN entries
        /\ \A s \in DOMAIN entries \ {slot} : entries'[s] = entries[s]
    BY <1>1, <1>3
  <2>4. ASSUME slot \in DOMAIN entries
        PROVE  /\ DOMAIN entries'[slot] = EntryFields
               /\ entries'[slot].id = id /\ entries'[slot].charger = charger
    BY <1>1, <1>3, <2>4 DEF HouseInv, EntriesAreTheirOwn, EntryFields
  <2>5. entries[slot].id = id \/ ~Configured(id, slot)
    BY <1>3
  <2>. QED
    BY <1>1, <2>1, <2>2, <2>3, <2>4, <2>5, EntryStepKeepsInv
<1>. QED
  BY <1>2, <1>3

\* A removed entry leaves the others as they are, and overtakes no form.
LEMMA RemoveKeepsInv ==
    ASSUME HouseInv, NEW slot, RemoveEntry(slot)
    PROVE  HouseInv'
<1>1. /\ UNCHANGED adding /\ DOMAIN entries' = DOMAIN entries \ {slot}
      /\ \A s \in DOMAIN entries' : entries'[s] = entries[s]
      /\ overtaken' = {pair \in overtaken : pair[2] # slot}
  BY DEF RemoveEntry, Restrict
<1>2. EntriesAreTheirOwn' /\ IdsDiffer' /\ DialogTypes' /\ SocFormsDiffer'
  BY <1>1
  DEF HouseInv, EntriesAreTheirOwn, IdsDiffer, DialogTypes, SocFormsDiffer, Chooses
<1>3. OvertakersAreKnown'
  <2> SUFFICES ASSUME NEW d \in Dialogs, NEW charger \in Chargers, NEW s \in DOMAIN entries',
                      Chooses(d, charger)', entries'[s].id = Canonical(charger)
               PROVE  <<d, s>> \in overtaken'
    BY DEF OvertakersAreKnown
  <2>1. <<d, s>> \in overtaken /\ <<d, s>>[2] # slot
    BY <1>1 DEF HouseInv, OvertakersAreKnown, Chooses
  <2>. QED
    BY <1>1, <2>1
<1>. QED
  BY <1>2, <1>3 DEF HouseInv

\* No form moves an entry at first.
LEMMA MoveKindInit == HouseInit => MoveHasAKind
BY DEF HouseInit, MoveHasAKind

\* A form that is opened to move an entry is one of the two kinds.
LEMMA MoveKindNext == MoveHasAKind /\ [HouseNext]_houseVars => MoveHasAKind'
<1> SUFFICES ASSUME MoveHasAKind, [HouseNext]_houseVars PROVE MoveHasAKind'
  OBVIOUS
<1>1. ASSUME NEW kind \in {"reconfigure", "repair"}, NEW slot, NEW charger,
             SubmitMove(kind, slot, charger)
      PROVE  MoveHasAKind'
  BY <1>1 DEF SubmitMove, MoveHasAKind
<1>2. ASSUME moving' \in {moving, NotMoving} PROVE MoveHasAKind'
  BY <1>2 DEF MoveHasAKind
<1>3. ASSUME NEW d \in Dialogs,
             (\E charger \in Chargers : SubmitUser(d, charger)) \/ Refused(d) \/ UserAccepted(d)
             \/ SubmitSocValues(d)
      PROVE  moving' \in {moving, NotMoving}
  BY <1>3 DEF SubmitUser, Refused, UserAccepted, SubmitSocValues, Create
<1>4. ASSUME NEW slot, Migrate(slot) \/ RemoveEntry(slot) PROVE moving' \in {moving, NotMoving}
  BY <1>4 DEF Migrate, RemoveEntry
<1>. QED
  BY <1>1, <1>2, <1>3, <1>4 DEF HouseNext, houseVars, MoveAccepted, MoveRefused

\* Every step keeps the invariant.
LEMMA HouseInvNext == HouseInv /\ MoveHasAKind /\ [HouseNext]_houseVars => HouseInv'
<1> SUFFICES ASSUME HouseInv, MoveHasAKind, [HouseNext]_houseVars PROVE HouseInv'
  OBVIOUS
<1>1. CASE UNCHANGED <<entries, adding, overtaken>>
  BY <1>1
  DEF HouseInv, EntriesAreTheirOwn, IdsDiffer, DialogTypes, SocFormsDiffer, OvertakersAreKnown,
      Chooses
<1>2. ASSUME NEW d \in Dialogs,
             (\E charger \in Chargers : SubmitUser(d, charger)) \/ Refused(d) \/ UserAccepted(d)
      PROVE  HouseInv'
  BY <1>2, UserKeepsInv
<1>3. ASSUME NEW d \in Dialogs, SubmitSocValues(d) PROVE HouseInv'
  BY <1>3, SubmitSocKeepsInv DEF SubmitSocValues
<1>. QED
  BY <1>1, <1>2, <1>3, MigrateKeepsInv, RemoveKeepsInv, MoveKeepsInv
  DEF HouseNext, houseVars, SubmitMove, MoveRefused

\* Ids and addresses stay apart, and an open SOC form knows who overtook it.
THEOREM HouseInvHolds == HouseSpec => [](HouseInv /\ MoveHasAKind)
BY HouseInvInit, MoveKindInit, HouseInvNext, MoveKindNext, PTL DEF HouseSpec

\* What replaces an entry is a SOC form that it overtook.
LEMMA CreateReplaces ==
    ASSUME HouseInv, NEW d \in Dialogs, NEW slot \in Slots, Create(d, slot),
           NEW s \in DOMAIN entries \ DOMAIN entries', adding[d].step \in {"asking", "soc"}
    PROVE  /\ Configured(Canonical(adding[d].charger), Nowhere)
           /\ adding[d].step = "soc" => <<d, s>> \in overtaken
<1>1. entries[s].id = Canonical(adding[d].charger) /\ s # Nowhere
  BY HouseAssumption DEF Create, HouseInv, EntriesAreTheirOwn
<1>2. PICK charger \in Chargers : adding[d] = [step |-> adding[d].step, charger |-> charger]
  BY DialogOutcome
<1>. QED
  BY <1>1, <1>2 DEF Configured, HouseInv, OvertakersAreKnown, Chooses

\* One charger has one entry, but for a legacy entry in its old spelling, and an entry goes only
\* by the user's hand, or for the SOC form that it overtook: the dialogs of config_flow.py, the
\* migrations of __init__.py and the repairs, for every number of chargers, entries and dialogs.
THEOREM ChargersHaveOneEntry == HouseSpec => OneEntryPerCharger
<1>1. HouseInv => ChargersAreDistinct
  BY DEF HouseInv, EntriesAreTheirOwn, IdsDiffer, ChargersAreDistinct
<1>2. HouseInv /\ [HouseNext]_houseVars =>
          [\A s \in DOMAIN entries \ DOMAIN entries' :
              RemoveEntry(s) \/ \E d \in Dialogs : <<d, s>> \in overtaken]_houseVars
  <2> SUFFICES ASSUME HouseInv, HouseNext, NEW s \in DOMAIN entries \ DOMAIN entries'
               PROVE  RemoveEntry(s) \/ \E d \in Dialogs : <<d, s>> \in overtaken
    OBVIOUS
  <2>1. ASSUME NEW slot \in Slots, RemoveEntry(slot) PROVE RemoveEntry(s)
    BY <2>1 DEF RemoveEntry, Restrict
  <2>2. ASSUME NEW d \in Dialogs, UserAccepted(d) PROVE FALSE
    <3>1. PICK slot \in Slots :
              Create(d, slot) /\ ~Configured(Canonical(adding[d].charger), Nowhere)
      BY <2>2 DEF UserAccepted
    <3>. QED
      BY <2>2, <3>1, CreateReplaces DEF UserAccepted
  <2>3. ASSUME NEW d \in Dialogs, SubmitSocValues(d) PROVE <<d, s>> \in overtaken
    BY <2>3, CreateReplaces DEF SubmitSocValues
  <2>4. (\E slot \in Slots : Migrate(slot)) \/ MoveAccepted => DOMAIN entries' = DOMAIN entries
    BY DEF Migrate, MoveAccepted
  <2>. QED
    BY <2>1, <2>2, <2>3, <2>4 DEF HouseNext, SubmitUser, Refused, SubmitMove, MoveRefused
<1>. QED
  BY <1>1, <1>2, HouseInvHolds, PTL DEF HouseSpec, OneEntryPerCharger, EntriesStand

-------------------------------------------------------------------------------
(***************************************************************************)
(* The Initial SOC, for any levels, values by hand, clocks and number of   *)
(* sessions. The invariant lets number, credit and store fit the sessions: *)
(* the car's value is its charge when the session began, a flag that       *)
(* stands has seen no unplug, and the clock that was read of a session has *)
(* not fallen below the one it was read at.                                *)
(***************************************************************************)

CarTypes ==
    /\ plug \in {"out", "idle", "charging", "error"}
    /\ {session, clock, delivered, arrived} \subseteq Nat

IsNumber(n) ==
    /\ DOMAIN n = {"value", "seeded", "cycle", "told"}
    /\ n.seeded \in BOOLEAN /\ n.cycle \in Nat \cup {Unread}

IsGiven(g) ==
    /\ DOMAIN g = {"by", "session", "early", "over", "noted"}
    /\ {g.early, g.over} \subseteq BOOLEAN
    /\ g.session \in Nat /\ g.session <= session
    /\ g.noted \in Nat \cup {Unread} /\ g.noted <= session

\* The car's value is its charge when the session began; a flag that stands has seen no
\* unplug; the clock that was read of this session has not fallen; and a value by hand
\* stands while its session does, unless its clock was unknown.
Fits(n, g) ==
    /\ g.by = "car" /\ g.session = session => n.value = arrived
    /\ n.seeded => ~g.over
    /\ g.noted = session => n.cycle <= clock
    /\ g.by = "user" /\ g.session = session /\ ~g.early =>
          (n.seeded \/ plug = "out") /\ n.cycle <= clock

\* A running charge that was read with the car awake has its value, unless nothing told
\* its session from the last.
ReadIsSeeded ==
    numberUp = "running" /\ Readable(reply) /\ given.noted = session /\ number.told # "failed" =>
        given.session = session \/ (~given.over /\ number.cycle <= clock)

SocInv ==
    /\ CarTypes
    /\ numberUp \in {"off", "polled", "running"}
    /\ numberUp = "polled" => reply \in SocReplies
    /\ numberUp # "running" => number = NotSet(entrySoc) /\ given = Nobody
    /\ disk.kept \in BOOLEAN /\ (~disk.kept => disk.given = Nobody)
    /\ IsNumber(number) /\ IsNumber(disk.number)
    /\ IsGiven(given) /\ IsGiven(disk.given)
    /\ Fits(number, given) /\ Fits(disk.number, disk.given)
    /\ ReadIsSeeded

USE DEF carVars, Unread, Asleep

\* What a good poll can say.
LEMMA SocReplyOutcome ==
    ASSUME CarTypes, NEW r \in SocReplies
    PROVE  /\ r.plug \in {plug, "code 99"}
           /\ r.clock \in {clock, Unread} /\ r.energy \in {delivered, Unread}
<1>1. CASE r = NoReply
  BY <1>1 DEF NoReply
<1>2. CASE r \in [plug : {plug}, clock : {clock}, energy : {delivered, Unread}]
  BY <1>2
<1>3. CASE r \in [plug : {plug}, clock : {Unread}, energy : {delivered}]
  BY <1>3
<1>. QED
  BY <1>1, <1>2, <1>3 DEF SocReplies

\* Nothing set and nobody's fit each other.
LEMMA NotSetFits ==
    ASSUME CarTypes, NEW v
    PROVE  IsNumber(NotSet(v)) /\ IsGiven(Nobody) /\ Fits(NotSet(v), Nobody)
<1>1. /\ DOMAIN NotSet(v) = {"value", "seeded", "cycle", "told"}
      /\ NotSet(v).seeded = FALSE /\ NotSet(v).cycle = Unread
  BY DEF NotSet
<1>2. /\ DOMAIN Nobody = {"by", "session", "early", "over", "noted"}
      /\ Nobody.by = "none" /\ Nobody.session = 0 /\ Nobody.early = FALSE
      /\ Nobody.over = FALSE /\ Nobody.noted = Unread
  BY DEF Nobody
<1>3. session \in Nat /\ clock \in Nat
  BY DEF CarTypes
<1>4. IsNumber(NotSet(v))
  BY <1>1 DEF IsNumber
<1>5. IsGiven(Nobody)
  <2>1. {Nobody.early, Nobody.over} \subseteq BOOLEAN
    BY <1>2
  <2>2. /\ Nobody.session \in Nat /\ Nobody.session <= session
        /\ Nobody.noted \in Nat \cup {Unread} /\ Nobody.noted <= session
    BY <1>2, <1>3
  <2>. QED
    BY <1>2, <2>1, <2>2 DEF IsGiven
<1>. QED
  BY <1>1, <1>2, <1>3, <1>4, <1>5 DEF Fits

\* What a good poll makes of the number before the car is asked.
LEMMA ArmedOutcome ==
    ASSUME CarTypes, NEW n, IsNumber(n), NEW r \in SocReplies
    PROVE  LET a == Armed(n, r)
           IN  /\ IsNumber(a) /\ a.value = n.value
               /\ r.plug = "out" => a.seeded = FALSE
               /\ r.plug \notin {"code 99", "out", "error"} /\ r.clock # Unread =>
                      /\ a.cycle = clock
                      /\ a.seeded <=> n.seeded /\ (n.cycle = Unread \/ n.cycle <= clock)
               /\ r.plug \in {"code 99", "out", "error"} \/ r.clock = Unread => a.cycle = n.cycle
               /\ r.plug # "out" /\ (r.plug \in {"code 99", "error"} \/ r.clock = Unread) =>
                      a.seeded = n.seeded
<1>1. r.clock \in {clock, Unread} /\ clock \in Nat /\ n.cycle \in Nat \cup {Unread}
  BY SocReplyOutcome DEF CarTypes, IsNumber
<1>2. CASE r.plug \in {"code 99", "error"}
  BY <1>2 DEF Armed
<1>3. CASE r.plug = "out"
  BY <1>3 DEF Armed, IsNumber
<1>4. CASE r.plug \notin {"code 99", "out", "error"}
  <2>1. Armed(n, r) = Note(n, r)
    BY <1>4 DEF Armed
  <2>2. CASE r.clock = Unread
    BY <1>4, <2>1, <2>2 DEF Note
  <2>3. CASE r.clock # Unread
    <3>1. Restarted(n, r) <=> n.cycle # Unread /\ clock < n.cycle
      BY <1>1, <2>3 DEF Restarted
    <3>2. Armed(n, r) = [n EXCEPT !.cycle = clock, !.seeded = n.seeded /\ ~Restarted(n, r),
                              !.told = IF Restarted(n, r) THEN "none" ELSE @]
      BY <1>1, <2>1, <2>3 DEF Note
    <3>3. /\ DOMAIN Armed(n, r) = DOMAIN n /\ Armed(n, r).cycle = clock
          /\ Armed(n, r).value = n.value
          /\ Armed(n, r).seeded = (n.seeded /\ ~Restarted(n, r))
      BY <3>2 DEF IsNumber
    <3>4. Armed(n, r).seeded \in BOOLEAN
      BY <3>3
    <3>5. Restarted(n, r) <=> ~(n.cycle = Unread \/ n.cycle <= clock)
      BY <1>1, <3>1
    <3>6. n.seeded \in BOOLEAN
      BY DEF IsNumber
    <3>7. Armed(n, r).seeded <=> n.seeded /\ (n.cycle = Unread \/ n.cycle <= clock)
      BY <3>3, <3>5, <3>6, Zenon
    <3>. QED
      BY <1>1, <1>4, <2>3, <3>3, <3>4, <3>7 DEF IsNumber
  <2>. QED
    BY <2>2, <2>3
<1>. QED
  BY <1>2, <1>3, <1>4

\* What a good poll makes of the number and of its credit.
LEMMA SeedOutcome ==
    ASSUME CarTypes, NEW n, NEW g, IsNumber(n), IsGiven(g), NEW r \in SocReplies,
           NEW car \in Sensor(n, r, TRUE), Credit(n, g, r, TRUE, car)
    PROVE  LET a == Armed(n, r)
               m == MaybeSeed(n, r, TRUE, car)
           IN  /\ IsNumber(m) /\ IsGiven(given') /\ m.cycle = a.cycle
               /\ given'.noted = IF r.plug \in {"idle", "charging"} /\ r.clock # Unread
                                 THEN session ELSE g.noted
               /\ \/ /\ r.plug = "charging" /\ ~a.seeded
                     /\ m.seeded = TRUE /\ m.value = arrived
                     /\ given'.by = "car" /\ given'.session = session /\ given'.over = FALSE
                  \/ /\ m.seeded = a.seeded /\ m.value = n.value
                     /\ given'.by = g.by /\ given'.session = g.session
                     /\ given'.early = g.early
                     /\ given'.over <=> g.over \/ r.plug = "out"
                     /\ Readable(r) => a.seeded \/ m.told = "failed"
<1> DEFINE a == Armed(n, r)
           m == MaybeSeed(n, r, TRUE, car)
           seeds == Seeds(n, r, TRUE, car)
           asks == Asks(n, r, TRUE)
<1>1. IsNumber(a) /\ a.value = n.value /\ DOMAIN a = {"value", "seeded", "cycle", "told"}
  BY ArmedOutcome DEF IsNumber
<1>2. asks <=> ~a.seeded /\ r.plug = "charging"
  BY DEF Asks
<1>3. m = IF seeds THEN [a EXCEPT !.value = car - r.energy, !.seeded = TRUE, !.told = "car"]
          ELSE IF asks THEN [a EXCEPT !.told = "failed"] ELSE a
  BY DEF MaybeSeed
<1>4. /\ given'.by = IF seeds THEN "car" ELSE g.by
      /\ given'.session = IF seeds THEN session ELSE g.session
      /\ given'.early = (g.early /\ ~seeds)
      /\ given'.over = (~seeds /\ (g.over \/ (TRUE /\ r.plug = "out")))
      /\ given'.noted = IF r.plug \in {"idle", "charging"} /\ r.clock # Unread
                        THEN session ELSE g.noted
      /\ DOMAIN given' = {"by", "session", "early", "over", "noted"}
  BY DEF Credit
<1> HIDE DEF a, m, seeds, asks
<1>5. {given'.early, given'.over} \subseteq BOOLEAN
  BY <1>4
<1>6. IsGiven(given')
  <2>1. session \in Nat /\ g.session \in Nat /\ g.session <= session
        /\ g.noted \in Nat \cup {Unread} /\ g.noted <= session
    BY DEF IsGiven, CarTypes
  <2>2. given'.session \in Nat /\ given'.session <= session
    BY <1>4, <2>1
  <2>3. given'.noted \in Nat \cup {Unread} /\ given'.noted <= session
    BY <1>4, <2>1
  <2>. QED
    BY <1>4, <1>5, <2>2, <2>3 DEF IsGiven
<1>7. CASE seeds
  <2>1. asks /\ car # Asleep /\ r.energy # Unread
    BY <1>7 DEF seeds, Seeds, Usable, asks
  <2>2. car = arrived + delivered /\ r.energy = delivered
    BY <2>1, SocReplyOutcome DEF asks, Sensor
  <2>3. car - r.energy = arrived
    BY <2>2 DEF CarTypes
  <2>4. /\ m.value = arrived /\ m.seeded = TRUE /\ m.cycle = a.cycle
        /\ DOMAIN m = {"value", "seeded", "cycle", "told"}
    BY <1>1, <1>3, <1>7, <2>3
  <2>5. IsNumber(m)
    BY <1>1, <2>4 DEF IsNumber
  <2>. QED
    BY <1>2, <1>4, <1>6, <1>7, <2>1, <2>4, <2>5 DEF a, m
<1>8. CASE ~seeds
  <2>1. /\ m.value = n.value /\ m.seeded = a.seeded /\ m.cycle = a.cycle
        /\ DOMAIN m = {"value", "seeded", "cycle", "told"}
        /\ asks => m.told = "failed"
    BY <1>1, <1>3, <1>8
  <2>2. IsNumber(m)
    BY <1>1, <2>1 DEF IsNumber
  <2>3. given'.early = g.early /\ (given'.over <=> g.over \/ r.plug = "out")
    BY <1>4, <1>8 DEF IsGiven
  <2>4. Readable(r) => a.seeded \/ m.told = "failed"
    BY <1>2, <2>1 DEF Readable
  <2>. QED
    BY <1>4, <1>6, <1>8, <2>1, <2>2, <2>3, <2>4 DEF a, m
<1>. QED
  BY <1>7, <1>8

\* A good poll: number and credit still fit, and are what the properties say.
LEMMA PolledFits ==
    ASSUME CarTypes, NEW n, NEW g, IsNumber(n), IsGiven(g), Fits(n, g),
           NEW r \in SocReplies, NEW car \in Sensor(n, r, TRUE),
           number' = MaybeSeed(n, r, TRUE, car), Credit(n, g, r, TRUE, car),
           UNCHANGED carVars
    PROVE  /\ IsNumber(number') /\ IsGiven(given)' /\ Fits(number, given)'
           /\ Readable(r) /\ number'.told # "failed" =>
                  given'.session = session \/ (~g.over /\ n.cycle <= clock)
           /\ Readable(r) /\ number'.told # "failed" =>
                  given'.session = session \/ (~given'.over /\ number'.cycle <= clock)
           /\ given'.by = "car" /\ given'.session = session
              /\ g.by = "user" /\ g.session = session => g.early
<1> DEFINE a == Armed(n, r)
<1>1. /\ clock \in Nat /\ session \in Nat /\ n.cycle \in Nat \cup {Unread}
      /\ r.plug \in {plug, "code 99"} /\ r.clock \in {clock, Unread}
      /\ plug \in {"out", "idle", "charging", "error"}
  BY SocReplyOutcome DEF CarTypes, IsNumber
<1>0. clock <= clock /\ Unread <= clock
  <2>1. clock \in Nat
    BY DEF CarTypes
  <2>. QED
    BY <2>1
<1>2. /\ IsNumber(a) /\ a.value = n.value
      /\ r.plug = "out" => a.seeded = FALSE
      /\ r.plug \notin {"code 99", "out", "error"} /\ r.clock # Unread =>
             /\ a.cycle = clock
             /\ a.seeded <=> n.seeded /\ (n.cycle = Unread \/ n.cycle <= clock)
      /\ r.plug \in {"code 99", "out", "error"} \/ r.clock = Unread => a.cycle = n.cycle
      /\ r.plug # "out" /\ (r.plug \in {"code 99", "error"} \/ r.clock = Unread) =>
             a.seeded = n.seeded
  BY ArmedOutcome
<1>3. /\ IsNumber(number') /\ IsGiven(given') /\ number'.cycle = a.cycle
      /\ given'.noted = IF r.plug \in {"idle", "charging"} /\ r.clock # Unread
                        THEN session ELSE g.noted
      /\ \/ /\ r.plug = "charging" /\ ~a.seeded
            /\ number'.seeded = TRUE /\ number'.value = arrived
            /\ given'.by = "car" /\ given'.session = session /\ given'.over = FALSE
         \/ /\ number'.seeded = a.seeded /\ number'.value = n.value
            /\ given'.by = g.by /\ given'.session = g.session
            /\ given'.early = g.early
            /\ given'.over <=> g.over \/ r.plug = "out"
            /\ Readable(r) => a.seeded \/ number'.told = "failed"
  <2> DEFINE m == MaybeSeed(n, r, TRUE, car)
  <2>1. /\ IsNumber(m) /\ IsGiven(given') /\ m.cycle = a.cycle
        /\ given'.noted = IF r.plug \in {"idle", "charging"} /\ r.clock # Unread
                          THEN session ELSE g.noted
        /\ \/ /\ r.plug = "charging" /\ ~a.seeded
              /\ m.seeded = TRUE /\ m.value = arrived
              /\ given'.by = "car" /\ given'.session = session /\ given'.over = FALSE
           \/ /\ m.seeded = a.seeded /\ m.value = n.value
              /\ given'.by = g.by /\ given'.session = g.session
              /\ given'.early = g.early
              /\ given'.over <=> g.over \/ r.plug = "out"
              /\ Readable(r) => a.seeded \/ m.told = "failed"
    BY SeedOutcome, Zenon
  <2>2. number' = m
    OBVIOUS
  <2> HIDE DEF m, a
  <2>. QED
    BY <2>1, <2>2
<1> HIDE DEF a
<1>4. IsGiven(given)'
  <2>1. session' = session
    BY DEF carVars
  <2>2. /\ DOMAIN given' = {"by", "session", "early", "over", "noted"}
        /\ {given'.early, given'.over} \subseteq BOOLEAN
        /\ given'.session \in Nat /\ given'.session <= session'
        /\ given'.noted \in Nat \cup {Unread} /\ given'.noted <= session'
    BY <1>3, <2>1 DEF IsGiven
  <2>. QED
    BY <2>2 DEF IsGiven
<1>5. number'.seeded \in BOOLEAN /\ number'.cycle \in Nat \cup {Unread}
      /\ a.cycle \in Nat \cup {Unread}
  BY <1>2, <1>3 DEF IsNumber
<1>6. /\ g.by = "car" /\ g.session = session => n.value = arrived
      /\ n.seeded => ~g.over
      /\ g.noted = session => n.cycle <= clock
      /\ g.by = "user" /\ g.session = session /\ ~g.early =>
            (n.seeded \/ plug = "out") /\ n.cycle <= clock
  BY DEF Fits
<1>7. r.plug \notin {"code 99", "out", "error"} <=> r.plug \in {"idle", "charging"}
  BY <1>1
<1>8. a.seeded => n.seeded /\ r.plug # "out"
  BY <1>2, <1>7, Zenon
<1>9. a.cycle = clock \/ a.cycle = n.cycle
  BY <1>2, Zenon
<1>10. given'.noted = session => number'.cycle <= clock
  <2>1. CASE r.plug \in {"idle", "charging"} /\ r.clock # Unread
    <3>1. number'.cycle = clock
      BY <1>2, <1>3, <1>7, <2>1, Zenon
    <3>. QED
      BY <1>0, <3>1, Zenon
  <2>2. CASE ~(r.plug \in {"idle", "charging"} /\ r.clock # Unread)
    <3>1. given'.noted = g.noted
      BY <1>3, <2>2, Zenon
    <3>2. a.cycle = n.cycle
      BY <1>2, <1>7, <2>2, Zenon
    <3>3. number'.cycle = n.cycle
      BY <1>3, <3>2, Zenon
    <3>. QED
      BY <1>6, <3>1, <3>3, Zenon
  <2>. QED
    BY <2>1, <2>2
<1>11. n.cycle <= clock => number'.cycle <= clock
  <2>1. number'.cycle = clock \/ number'.cycle = n.cycle
    BY <1>3, <1>9, Zenon
  <2>. QED
    BY <1>0, <2>1, Zenon
<1>12. ASSUME g.by = "user", g.session = session, ~g.early
       PROVE  a.seeded \/ plug = "out"
  <2>1. n.cycle <= clock /\ (n.seeded \/ plug = "out")
    BY <1>6, <1>12, Zenon
  <2>2. CASE r.plug = "out"
    BY <1>1, <2>2
  <2>3. CASE r.plug # "out"
    <3>1. CASE r.plug \in {"idle", "charging"} /\ r.clock # Unread
      BY <1>2, <1>7, <2>1, <3>1, Zenon
    <3>2. CASE ~(r.plug \in {"idle", "charging"} /\ r.clock # Unread)
      <4>1. a.seeded = n.seeded
        BY <1>2, <1>7, <2>3, <3>2, Zenon
      <4>. QED
        BY <2>1, <4>1, Zenon
    <3>. QED
      BY <3>1, <3>2
  <2>. QED
    BY <2>2, <2>3
<1>13. ASSUME given'.by = "car", given'.session = session, g.by = "user", g.session = session
       PROVE  g.early
  <2>1. r.plug = "charging" /\ ~a.seeded
    BY <1>3, <1>13
  <2>2. plug # "out"
    BY <1>1, <2>1
  <2>. QED
    BY <1>12, <1>13, <2>1, <2>2
<1>14. Fits(number, given)'
  <2>1. given'.by = "car" /\ given'.session = session => number'.value = arrived
    BY <1>3, <1>6, Zenon
  <2>2. number'.seeded => ~given'.over
    BY <1>3, <1>6, <1>8, Zenon
  <2>3. ASSUME given'.by = "user", given'.session = session, ~given'.early
        PROVE  (number'.seeded \/ plug = "out") /\ number'.cycle <= clock
    <3>1. /\ g.by = "user" /\ g.session = session /\ ~g.early
          /\ number'.seeded = a.seeded
      BY <1>3, <2>3
    <3>. QED
      BY <1>6, <1>11, <1>12, <3>1, Zenon
  <2>4. session' = session /\ clock' = clock /\ arrived' = arrived /\ plug' = plug
    BY DEF carVars
  <2>5. /\ given'.by = "car" /\ given'.session = session' => number'.value = arrived'
        /\ number'.seeded => ~given'.over
        /\ given'.noted = session' => number'.cycle <= clock'
        /\ given'.by = "user" /\ given'.session = session' /\ ~given'.early =>
              (number'.seeded \/ plug' = "out") /\ number'.cycle <= clock'
    BY <1>10, <2>1, <2>2, <2>3, <2>4, Zenon
  <2>. QED
    BY <2>5 DEF Fits
<1>15. ASSUME Readable(r), number'.told # "failed", given'.session # session
       PROVE  ~g.over /\ n.cycle <= clock /\ ~given'.over /\ number'.cycle <= clock
  <2>1. r.plug = "charging" /\ r.clock # Unread
    BY <1>15 DEF Readable
  <2>2. a.seeded /\ (given'.over <=> g.over \/ r.plug = "out")
    BY <1>3, <1>15, Zenon
  <2>3. n.seeded /\ (n.cycle = Unread \/ n.cycle <= clock)
    BY <1>2, <1>7, <2>1, <2>2, Zenon
  <2>4. n.cycle <= clock
    BY <1>0, <2>3, Zenon
  <2>5. ~g.over /\ ~given'.over
    BY <1>6, <2>1, <2>2, <2>3
  <2>. QED
    BY <1>11, <2>4, <2>5
<1>. QED
  BY <1>3, <1>4, <1>13, <1>14, <1>15, Zenon

\* At the start nothing is set.
LEMMA SocInvInit == ASSUME SocInit PROVE SocInv
<1>1. CarTypes
  BY SocAssumption DEF SocInit, CarTypes
<1>2. /\ number = NotSet(entrySoc) /\ given = Nobody
      /\ disk = [kept |-> FALSE, number |-> number, given |-> given]
      /\ numberUp = "off"
  BY DEF SocInit
<1>3. disk.kept = FALSE /\ disk.number = number /\ disk.given = given
  BY <1>2
<1>4. IsNumber(number) /\ IsGiven(given) /\ Fits(number, given)
  BY <1>1, <1>2, NotSetFits
<1>5. /\ numberUp \in {"off", "polled", "running"} /\ numberUp # "polled"
      /\ ReadIsSeeded
  BY <1>2 DEF ReadIsSeeded
<1>. QED
  BY <1>1, <1>2, <1>3, <1>4, <1>5 DEF SocInv

\* What the car and the charger do: the session's count and, in a session, its clock do
\* not fall, and only a new session has another charge to begin with or ends an unplug.
LEMMA CarOutcome ==
    ASSUME CarTypes, PlugIn \/ MeterRestart \/ Switches \/ Charges
    PROVE  /\ CarTypes'
           /\ \/ session' = session + 1
              \/ /\ session' = session /\ arrived' = arrived /\ clock <= clock'
                 /\ plug = "out" => plug' = "out"
<1>1. /\ plug \in {"out", "idle", "charging", "error"}
      /\ session \in Nat /\ clock \in Nat /\ delivered \in Nat /\ arrived \in Nat
  BY DEF CarTypes
<1>2. CASE PlugIn
  BY <1>1, <1>2, SocAssumption DEF PlugIn, NewCount, CarTypes
<1>3. CASE MeterRestart
  BY <1>1, <1>3 DEF MeterRestart, NewCount, CarTypes
<1>4. CASE Switches
  BY <1>1, <1>4 DEF Switches, CarTypes
<1>5. CASE Charges
  BY <1>1, <1>5 DEF Charges, CarTypes
<1>. QED
  BY <1>2, <1>3, <1>4, <1>5

\* A number and its credit go on fitting each other whatever the car does.
LEMMA FitsStays ==
    ASSUME CarTypes, PlugIn \/ MeterRestart \/ Switches \/ Charges,
           NEW n, NEW g, IsNumber(n), IsGiven(g), Fits(n, g)
    PROVE  /\ DOMAIN g = {"by", "session", "early", "over", "noted"}
           /\ {g.early, g.over} \subseteq BOOLEAN
           /\ g.session \in Nat /\ g.session <= session'
           /\ g.noted \in Nat \cup {Unread} /\ g.noted <= session'
           /\ g.by = "car" /\ g.session = session' => n.value = arrived'
           /\ n.seeded => ~g.over
           /\ g.noted = session' => n.cycle <= clock'
           /\ g.by = "user" /\ g.session = session' /\ ~g.early =>
                 (n.seeded \/ plug' = "out") /\ n.cycle <= clock'
<1>1. /\ session \in Nat /\ clock \in Nat /\ clock' \in Nat /\ n.cycle \in Nat \cup {Unread}
  BY CarOutcome DEF CarTypes, IsNumber
<1>2. /\ g.session \in Nat /\ g.session <= session
      /\ g.noted \in Nat \cup {Unread} /\ g.noted <= session
  BY DEF IsGiven
<1>3. DOMAIN g = {"by", "session", "early", "over", "noted"} /\ {g.early, g.over} \subseteq BOOLEAN
  BY DEF IsGiven
<1>4. /\ g.by = "car" /\ g.session = session => n.value = arrived
      /\ n.seeded => ~g.over
      /\ g.noted = session => n.cycle <= clock
      /\ g.by = "user" /\ g.session = session /\ ~g.early =>
            (n.seeded \/ plug = "out") /\ n.cycle <= clock
  BY DEF Fits
<1>5. CASE session' = session + 1
  <2>1. /\ g.session <= session' /\ g.noted <= session'
        /\ g.session # session' /\ g.noted # session'
    BY <1>1, <1>2, <1>5
  <2>. QED
    BY <1>2, <1>3, <1>4, <2>1, Zenon
<1>6. CASE /\ session' = session /\ arrived' = arrived /\ clock <= clock'
           /\ plug = "out" => plug' = "out"
  <2>1. n.cycle <= clock => n.cycle <= clock'
    BY <1>1, <1>6
  <2>. QED
    BY <1>2, <1>3, <1>4, <1>6, <2>1, Zenon
<1>. QED
  BY <1>5, <1>6, CarOutcome

\* The car drives, charges and is unplugged: no entity is being added.
LEMMA CarKeepsSocInv == ASSUME SocInv, CarNext PROVE SocInv'
<1>1. /\ CarTypes /\ numberUp \in {"off", "polled", "running"} /\ numberUp # "polled"
      /\ numberUp # "running" => number = NotSet(entrySoc) /\ given = Nobody
      /\ disk.kept \in BOOLEAN /\ (~disk.kept => disk.given = Nobody)
      /\ IsNumber(number) /\ IsNumber(disk.number) /\ ReadIsSeeded
  BY DEF SocInv, CarNext
<1>2. IsGiven(given) /\ IsGiven(disk.given) /\ Fits(number, given) /\ Fits(disk.number, disk.given)
  BY DEF SocInv
<1>3. /\ PlugIn \/ MeterRestart \/ Switches \/ Charges
      /\ numberUp' = numberUp /\ reply' = reply /\ number' = number /\ entrySoc' = entrySoc
      /\ disk' = disk /\ given' = given
  BY DEF CarNext
<1>4. /\ CarTypes'
      /\ \/ session' = session + 1
         \/ session' = session /\ clock <= clock'
  BY <1>1, <1>3, CarOutcome
<1>5. IsNumber(number)' /\ IsNumber(disk.number)'
  BY <1>1, <1>3 DEF IsNumber
<1>6. IsGiven(given)' /\ Fits(number, given)'
  <2>1. /\ DOMAIN given = {"by", "session", "early", "over", "noted"}
        /\ {given.early, given.over} \subseteq BOOLEAN
        /\ given.session \in Nat /\ given.session <= session'
        /\ given.noted \in Nat \cup {Unread} /\ given.noted <= session'
        /\ given.by = "car" /\ given.session = session' => number.value = arrived'
        /\ number.seeded => ~given.over
        /\ given.noted = session' => number.cycle <= clock'
        /\ given.by = "user" /\ given.session = session' /\ ~given.early =>
              (number.seeded \/ plug' = "out") /\ number.cycle <= clock'
    BY <1>1, <1>2, <1>3, FitsStays
  <2>. QED
    BY <1>3, <2>1 DEF IsGiven, Fits
<1>7. IsGiven(disk.given)' /\ Fits(disk.number, disk.given)'
  <2> DEFINE g == disk.given
             n == disk.number
  <2>1. /\ DOMAIN g = {"by", "session", "early", "over", "noted"}
        /\ {g.early, g.over} \subseteq BOOLEAN
        /\ g.session \in Nat /\ g.session <= session'
        /\ g.noted \in Nat \cup {Unread} /\ g.noted <= session'
        /\ g.by = "car" /\ g.session = session' => n.value = arrived'
        /\ n.seeded => ~g.over
        /\ g.noted = session' => n.cycle <= clock'
        /\ g.by = "user" /\ g.session = session' /\ ~g.early =>
              (n.seeded \/ plug' = "out") /\ n.cycle <= clock'
    BY <1>1, <1>2, <1>3, FitsStays
  <2>2. disk'.given = g /\ disk'.number = n
    BY <1>3
  <2>. QED
    BY <2>1, <2>2 DEF IsGiven, Fits
<1>8. ReadIsSeeded'
  <2>1. SUFFICES ASSUME numberUp = "running", Readable(reply), given.noted = session',
                        number.told # "failed", given.session # session'
                 PROVE  ~given.over /\ number.cycle <= clock'
    BY <1>3 DEF ReadIsSeeded, Readable
  <2>2. session \in Nat /\ clock \in Nat /\ clock' \in Nat /\ number.cycle \in Nat \cup {Unread}
        /\ given.noted <= session
    BY <1>1, <1>2, <1>4 DEF CarTypes, IsNumber, IsGiven
  <2>3. session' = session /\ clock <= clock'
    BY <1>4, <2>1, <2>2
  <2>4. ~given.over /\ number.cycle <= clock
    BY <1>1, <2>1, <2>3 DEF ReadIsSeeded
  <2>. QED
    BY <2>2, <2>3, <2>4
<1>9. /\ numberUp' \in {"off", "polled", "running"} /\ numberUp' # "polled"
      /\ numberUp' # "running" => number' = NotSet(entrySoc') /\ given' = Nobody
      /\ disk'.kept \in BOOLEAN /\ (~disk'.kept => disk'.given = Nobody)
  BY <1>1, <1>3
<1>10. NotSet(entrySoc)' = NotSet(entrySoc')
  BY DEF NotSet
<1>. QED
  BY <1>4, <1>5, <1>6, <1>7, <1>8, <1>9 DEF SocInv

\* What a step that leaves the car and the store alone has to show.
LEMMA StoreStays ==
    ASSUME SocInv, UNCHANGED carVars, UNCHANGED disk
    PROVE  /\ CarTypes' /\ IsNumber(disk.number)' /\ IsGiven(disk.given)'
           /\ Fits(disk.number, disk.given)'
           /\ disk'.kept \in BOOLEAN /\ (~disk'.kept => disk'.given = Nobody)
<1>1. /\ session' = session /\ clock' = clock /\ arrived' = arrived /\ plug' = plug
      /\ delivered' = delivered /\ disk' = disk
  BY DEF carVars
<1>2. /\ CarTypes /\ IsNumber(disk.number) /\ IsGiven(disk.given)
      /\ Fits(disk.number, disk.given)
      /\ disk.kept \in BOOLEAN /\ (~disk.kept => disk.given = Nobody)
  BY DEF SocInv
<1>. QED
  BY <1>1, <1>2 DEF CarTypes, IsNumber, IsGiven, Fits

\* A good poll.
LEMMA PollKeepsSocInv ==
    ASSUME SocInv, NEW r \in SocReplies, SocPoll(r)
    PROVE  SocInv'
<1>1. /\ CarTypes /\ IsNumber(number) /\ IsGiven(given) /\ Fits(number, given)
  BY DEF SocInv
<1>2. /\ numberUp = "running" /\ numberUp' = "running" /\ reply' = r
      /\ UNCHANGED carVars /\ UNCHANGED disk
  BY DEF SocPoll
<1>3. PICK car \in Sensor(number, r, TRUE) :
          number' = MaybeSeed(number, r, TRUE, car) /\ Credit(number, given, r, TRUE, car)
  BY DEF SocPoll, Listens
<1>4. /\ IsNumber(number)' /\ IsGiven(given)' /\ Fits(number, given)'
      /\ Readable(r) /\ number'.told # "failed" =>
             given'.session = session \/ (~given'.over /\ number'.cycle <= clock)
  <2>1. /\ IsNumber(number') /\ IsGiven(given)' /\ Fits(number, given)'
        /\ Readable(r) /\ number'.told # "failed" =>
               given'.session = session \/ (~given'.over /\ number'.cycle <= clock)
    BY <1>1, <1>2, <1>3, PolledFits
  <2>. QED
    BY <2>1 DEF IsNumber
<1>5. ReadIsSeeded'
  BY <1>2, <1>4 DEF ReadIsSeeded, carVars
<1>. QED
  BY <1>2, <1>4, <1>5, StoreStays DEF SocInv

\* A poll that failed leaves the number and its credit as they are.
LEMMA MissOutcome ==
    ASSUME SocInv, SocMiss
    PROVE  /\ number' = number /\ UNCHANGED <<carVars, numberUp, reply, disk>>
           /\ DOMAIN given' = DOMAIN given
           /\ given'.by = given.by /\ given'.session = given.session
           /\ given'.early = given.early /\ given'.over = given.over
           /\ given'.noted = given.noted
<1>1. PICK car \in Sensor(number, reply, FALSE) :
          /\ number' = MaybeSeed(number, reply, FALSE, car)
          /\ Credit(number, given, reply, FALSE, car)
  BY DEF SocMiss, Listens
<1>2. ~Asks(number, reply, FALSE) /\ ~Seeds(number, reply, FALSE, car)
  BY DEF Asks, Seeds
<1>3. number' = number
  BY <1>1, <1>2 DEF MaybeSeed
<1>4. /\ DOMAIN given' = {"by", "session", "early", "over", "noted"}
      /\ given'.by = given.by /\ given'.session = given.session
      /\ given'.early = (given.early /\ TRUE) /\ given'.over = (TRUE /\ (given.over \/ FALSE))
      /\ given'.noted = given.noted
  BY <1>1, <1>2 DEF Credit
<1>5. given.early \in BOOLEAN /\ given.over \in BOOLEAN
      /\ DOMAIN given = {"by", "session", "early", "over", "noted"}
  BY DEF SocInv, IsGiven
<1>6. given'.early = given.early /\ given'.over = given.over
  BY <1>4, <1>5
<1>. QED
  BY <1>3, <1>4, <1>5, <1>6 DEF SocMiss

\* A poll that failed.
LEMMA MissKeepsSocInv == ASSUME SocInv, SocMiss PROVE SocInv'
<1>1. /\ number' = number /\ UNCHANGED carVars /\ numberUp' = numberUp /\ reply' = reply
      /\ disk' = disk
      /\ DOMAIN given' = DOMAIN given
      /\ given'.by = given.by /\ given'.session = given.session
      /\ given'.early = given.early /\ given'.over = given.over
      /\ given'.noted = given.noted
  BY MissOutcome
<1>2. session' = session /\ clock' = clock /\ arrived' = arrived /\ plug' = plug
  BY <1>1 DEF carVars
<1>3. IsNumber(number) /\ IsGiven(given) /\ Fits(number, given) /\ ReadIsSeeded
  BY DEF SocInv
<1>4. IsNumber(number)' /\ IsGiven(given)' /\ Fits(number, given)' /\ ReadIsSeeded'
  BY <1>1, <1>2, <1>3 DEF IsNumber, IsGiven, Fits, ReadIsSeeded, Readable
<1>5. numberUp = "running" /\ numberUp' = "running"
  BY <1>1 DEF SocMiss
<1>. QED
  BY <1>1, <1>4, <1>5, StoreStays DEF SocInv

\* A value by hand.
LEMMA HandKeepsSocInv ==
    ASSUME SocInv, NEW value \in ByHand, SetByHand(value)
    PROVE  SocInv'
<1>1. /\ number' = [number EXCEPT !.value = value, !.seeded = TRUE]
      /\ given' = [given EXCEPT !.by = "user", !.session = session, !.over = FALSE,
                                !.early = number.cycle # Unread /\ given.noted # session]
      /\ UNCHANGED carVars /\ numberUp = "running" /\ numberUp' = "running"
      /\ disk' = disk
  BY DEF SetByHand
<1>2. IsNumber(number) /\ IsGiven(given) /\ Fits(number, given) /\ CarTypes
  BY DEF SocInv
<1>3. /\ DOMAIN number' = {"value", "seeded", "cycle", "told"}
      /\ number'.seeded = TRUE /\ number'.cycle = number.cycle
  BY <1>1, <1>2 DEF IsNumber
<1>4. /\ DOMAIN given' = {"by", "session", "early", "over", "noted"}
      /\ given'.by = "user" /\ given'.session = session /\ given'.over = FALSE
      /\ given'.early = (number.cycle # Unread /\ given.noted # session)
      /\ given'.noted = given.noted
  BY <1>1, <1>2 DEF IsGiven
<1>5. session' = session /\ clock' = clock /\ arrived' = arrived /\ plug' = plug
  BY <1>1 DEF carVars
<1>6. session \in Nat /\ clock \in Nat /\ given.noted \in Nat \cup {Unread}
      /\ given.noted <= session /\ number.cycle \in Nat \cup {Unread}
      /\ (given.noted = session => number.cycle <= clock)
  BY <1>2 DEF CarTypes, IsGiven, Fits, IsNumber
<1>7. IsNumber(number)'
  BY <1>3, <1>6 DEF IsNumber
<1>8. IsGiven(given)'
  <2>1. {given'.early, given'.over} \subseteq BOOLEAN
    BY <1>4
  <2>2. /\ given'.session \in Nat /\ given'.session <= session'
        /\ given'.noted \in Nat \cup {Unread} /\ given'.noted <= session'
    BY <1>4, <1>5, <1>6
  <2>. QED
    BY <1>4, <2>1, <2>2 DEF IsGiven
<1>9. ~given'.early => number'.cycle <= clock
  <2>1. ~given'.early => number.cycle = Unread \/ given.noted = session
    BY <1>4
  <2>2. number.cycle = Unread \/ given.noted = session => number.cycle <= clock
    BY <1>6
  <2>. QED
    BY <1>3, <2>1, <2>2
<1>10. Fits(number, given)'
  <2>1. /\ given'.by # "car" /\ ~given'.over /\ number'.seeded
        /\ given'.noted = session' => number'.cycle <= clock'
    BY <1>3, <1>4, <1>5, <1>6, Zenon
  <2>. QED
    BY <1>5, <1>9, <2>1 DEF Fits
<1>11. ReadIsSeeded'
  BY <1>4, <1>5 DEF ReadIsSeeded
<1>. QED
  BY <1>1, <1>7, <1>8, <1>10, <1>11, StoreStays DEF SocInv

\* Setup's poll.
LEMMA SetupKeepsSocInv == ASSUME SocInv, SetupPolls PROVE SocInv'
<1>1. /\ numberUp = "off" /\ numberUp' = "polled" /\ reply' \in SocReplies
      /\ number' = NotSet(entrySoc) /\ entrySoc' = entrySoc /\ given' = given
      /\ disk' = disk /\ UNCHANGED carVars
  BY DEF SetupPolls
<1>2. CarTypes /\ given = Nobody
  BY <1>1 DEF SocInv
<1>3. IsNumber(number') /\ IsGiven(given) /\ Fits(number', given)
  BY <1>1, <1>2, NotSetFits
<1>4. session' = session /\ clock' = clock /\ arrived' = arrived /\ plug' = plug
      /\ delivered' = delivered
  BY <1>1 DEF carVars
<1>5. IsNumber(number)' /\ IsGiven(given)' /\ Fits(number, given)'
  BY <1>1, <1>3, <1>4 DEF IsNumber, IsGiven, Fits
<1>6. ReadIsSeeded'
  BY <1>1 DEF ReadIsSeeded
<1>7. reply' \in SocReplies'
  BY <1>1, <1>4 DEF SocReplies
<1>8. NotSet(entrySoc)' = NotSet(entrySoc)
  BY <1>1 DEF NotSet
<1>9. Nobody' = Nobody
  BY DEF Nobody
<1>. QED
  BY <1>1, <1>2, <1>5, <1>6, <1>7, <1>8, <1>9, StoreStays DEF SocInv

\* Entities gone and the calculator at the entry's value again.
LEMMA DownFits ==
    ASSUME SocInv, GoesDown
    PROVE  /\ numberUp' = "off" /\ number' = NotSet(entrySoc)' /\ given' = Nobody
           /\ CarTypes' /\ IsNumber(number)' /\ IsGiven(given)' /\ Fits(number, given)'
           /\ ReadIsSeeded'
<1>1. /\ numberUp' = "off" /\ number' = NotSet(entrySoc) /\ given' = Nobody
      /\ entrySoc' = entrySoc /\ UNCHANGED carVars
  BY DEF GoesDown
<1>2. CarTypes
  BY DEF SocInv
<1>3. IsNumber(number') /\ IsGiven(given') /\ Fits(number', given')
  BY <1>1, <1>2, NotSetFits
<1>4. session' = session /\ clock' = clock /\ arrived' = arrived /\ plug' = plug
      /\ delivered' = delivered
  BY <1>1 DEF carVars
<1>5. CarTypes' /\ IsNumber(number)' /\ IsGiven(given)' /\ Fits(number, given)'
  BY <1>2, <1>3, <1>4 DEF CarTypes, IsNumber, IsGiven, Fits
<1>6. NotSet(entrySoc)' = NotSet(entrySoc)
  BY <1>1 DEF NotSet
<1>7. ReadIsSeeded'
  BY <1>1 DEF ReadIsSeeded
<1>. QED
  BY <1>1, <1>5, <1>6, <1>7

\* The entry unloads or Home Assistant stops: the store keeps number and credit.
LEMMA StopKeepsSocInv == ASSUME SocInv, StopNumber PROVE SocInv'
<1>1. GoesDown /\ disk' = [kept |-> TRUE, number |-> number, given |-> given]
  BY DEF StopNumber
<1>2. disk'.kept = TRUE /\ disk'.number = number /\ disk'.given = given
  BY <1>1
<1>3. session' = session /\ clock' = clock /\ arrived' = arrived /\ plug' = plug
  BY <1>1 DEF GoesDown, carVars
<1>4. IsNumber(number) /\ IsGiven(given) /\ Fits(number, given)
  BY DEF SocInv
<1>5. IsNumber(disk.number)' /\ IsGiven(disk.given)' /\ Fits(disk.number, disk.given)'
  BY <1>2, <1>3, <1>4 DEF IsNumber, IsGiven, Fits
<1>. QED
  BY <1>1, <1>2, <1>5, DownFits DEF SocInv, Nobody

\* A crash: the store is as it was.
LEMMA CrashKeepsSocInv == ASSUME SocInv, Crashes PROVE SocInv'
<1>1. GoesDown /\ UNCHANGED disk /\ UNCHANGED carVars
  BY DEF Crashes, GoesDown
<1>. QED
  BY <1>1, DownFits, StoreStays DEF SocInv, Nobody

\* What the store gives back fits, with the credit kept beside it.
LEMMA RestoredFits ==
    ASSUME SocInv, numberUp = "polled"
    PROVE  IsNumber(Restored) /\ IsGiven(disk.given) /\ Fits(Restored, disk.given)
<1>1. /\ IsNumber(disk.number) /\ IsGiven(disk.given) /\ Fits(disk.number, disk.given)
      /\ IsNumber(number) /\ Fits(number, given) /\ given = Nobody
      /\ disk.kept \in BOOLEAN /\ (~disk.kept => disk.given = Nobody)
  BY DEF SocInv
<1>2. CASE disk.kept
  <2>1. Restored = [disk.number EXCEPT !.told = "none"]
    BY <1>2 DEF Restored
  <2>2. /\ DOMAIN Restored = {"value", "seeded", "cycle", "told"}
        /\ Restored.value = disk.number.value /\ Restored.seeded = disk.number.seeded
        /\ Restored.cycle = disk.number.cycle
    BY <1>1, <2>1 DEF IsNumber
  <2>. QED
    BY <1>1, <2>2 DEF IsNumber, Fits
<1>3. CASE ~disk.kept
  BY <1>1, <1>3 DEF Restored
<1>. QED
  BY <1>2, <1>3

\* The entities come up: setup's poll settles what the store gave back.
LEMMA AddKeepsSocInv == ASSUME SocInv, AddNumber PROVE SocInv'
<1>1. /\ numberUp = "polled" /\ numberUp' = "running" /\ reply' = reply
      /\ UNCHANGED carVars /\ UNCHANGED disk
  BY DEF AddNumber
<1>2. PICK car \in Sensor(Restored, reply, TRUE) :
          /\ number' = MaybeSeed(Restored, reply, TRUE, car)
          /\ Credit(Restored, disk.given, reply, TRUE, car)
  BY DEF AddNumber
<1>3. CarTypes /\ reply \in SocReplies
  BY <1>1 DEF SocInv
<1>4. /\ IsNumber(number') /\ IsGiven(given)' /\ Fits(number, given)'
      /\ Readable(reply) /\ number'.told # "failed" =>
             given'.session = session \/ (~given'.over /\ number'.cycle <= clock)
  BY <1>1, <1>2, <1>3, RestoredFits, PolledFits
<1>5. IsNumber(number)'
  BY <1>4 DEF IsNumber
<1>6. ReadIsSeeded'
  BY <1>1, <1>4 DEF ReadIsSeeded, Readable, carVars
<1>. QED
  BY <1>1, <1>4, <1>5, <1>6, StoreStays DEF SocInv

\* Every step keeps the invariant.
LEMMA SocInvNext == ASSUME SocInv, [SocNext]_socVars PROVE SocInv'
<1>1. CASE CarNext
  BY <1>1, CarKeepsSocInv
<1>2. CASE \E r \in SocReplies : SocPoll(r)
  BY <1>2, PollKeepsSocInv
<1>3. CASE SocMiss
  BY <1>3, MissKeepsSocInv
<1>4. CASE \E value \in ByHand : SetByHand(value)
  BY <1>4, HandKeepsSocInv
<1>5. CASE SetupPolls
  BY <1>5, SetupKeepsSocInv
<1>6. CASE AddNumber
  BY <1>6, AddKeepsSocInv
<1>7. CASE StopNumber
  BY <1>7, StopKeepsSocInv
<1>8. CASE Crashes
  BY <1>8, CrashKeepsSocInv
<1>9. CASE UNCHANGED socVars
  <2>1. UNCHANGED carVars /\ UNCHANGED disk /\ numberUp' = numberUp /\ reply' = reply
        /\ number' = number /\ entrySoc' = entrySoc /\ given' = given
    BY <1>9 DEF socVars
  <2>2. session' = session /\ clock' = clock /\ arrived' = arrived /\ plug' = plug
        /\ delivered' = delivered
    BY <2>1 DEF carVars
  <2>3. IsNumber(number)' /\ IsGiven(given)' /\ Fits(number, given)' /\ ReadIsSeeded'
    BY <2>1, <2>2 DEF SocInv, IsNumber, IsGiven, Fits, ReadIsSeeded, Readable
  <2>4. /\ numberUp' \in {"off", "polled", "running"}
        /\ numberUp' = "polled" => reply' \in SocReplies'
        /\ numberUp' # "running" => number' = NotSet(entrySoc)' /\ given' = Nobody'
    BY <2>1, <2>2 DEF SocInv, SocReplies, NotSet, Nobody
  <2>. QED
    BY <2>1, <2>3, <2>4, StoreStays DEF SocInv, Nobody
<1>. QED
  BY <1>1, <1>2, <1>3, <1>4, <1>5, <1>6, <1>7, <1>8, <1>9 DEF SocNext

\* What every step shows, as the property says it.
LEMMA StepIsTrue ==
    ASSUME SocInv, SocNext
    PROVE  /\ given'.by = "car" /\ given'.session = session => number'.value = arrived
           /\ /\ numberUp' = "running" /\ Readable(reply') /\ given'.noted = session
              /\ number'.told # "failed"
              => \/ given'.session = session
                 \/ ~GivenBefore.over /\ Before.cycle <= clock
           /\ /\ given'.by = "car" /\ given'.session = session
              /\ GivenBefore.by = "user" /\ GivenBefore.session = session
              => GivenBefore.early
<1>1. /\ CarTypes /\ IsNumber(number) /\ IsGiven(given) /\ Fits(number, given)
      /\ ReadIsSeeded
      /\ numberUp \in {"off", "polled", "running"}
      /\ numberUp = "polled" => reply \in SocReplies
      /\ numberUp # "running" => number = NotSet(entrySoc) /\ given = Nobody
  BY DEF SocInv
<1>2. given.by = "car" /\ given.session = session => number.value = arrived
  BY <1>1 DEF Fits
<1>3. numberUp # "polled" => Before = number /\ GivenBefore = given
  BY DEF Before, GivenBefore
<1>4. Nobody.by = "none"
  BY DEF Nobody
<1>5. CASE CarNext
  <2>1. /\ numberUp' = numberUp /\ reply' = reply /\ number' = number /\ given' = given
        /\ numberUp # "polled"
    BY <1>5 DEF CarNext
  <2>. QED
    BY <1>1, <1>2, <1>3, <2>1 DEF ReadIsSeeded
<1>6. CASE \E r \in SocReplies : SocPoll(r)
  <2>1. PICK r \in SocReplies : SocPoll(r)
    BY <1>6
  <2>2. numberUp = "running" /\ reply' = r /\ UNCHANGED carVars
    BY <2>1 DEF SocPoll
  <2>3. PICK car \in Sensor(number, r, TRUE) :
            number' = MaybeSeed(number, r, TRUE, car) /\ Credit(number, given, r, TRUE, car)
    BY <2>1 DEF SocPoll, Listens
  <2>4. /\ Fits(number, given)'
        /\ Readable(r) /\ number'.told # "failed" =>
               given'.session = session \/ (~given.over /\ number.cycle <= clock)
        /\ given'.by = "car" /\ given'.session = session
           /\ given.by = "user" /\ given.session = session => given.early
    BY <1>1, <2>2, <2>3, PolledFits
  <2>5. given'.by = "car" /\ given'.session = session => number'.value = arrived
    BY <2>2, <2>4 DEF Fits, carVars
  <2>. QED
    BY <1>3, <2>2, <2>4, <2>5
<1>7. CASE SocMiss
  <2>1. /\ number' = number /\ numberUp' = numberUp /\ reply' = reply
        /\ given'.by = given.by /\ given'.session = given.session
        /\ given'.noted = given.noted /\ numberUp = "running"
    BY <1>7, MissOutcome DEF SocMiss
  <2>. QED
    BY <1>1, <1>2, <1>3, <2>1 DEF ReadIsSeeded
<1>8. CASE \E value \in ByHand : SetByHand(value)
  <2>1. given'.by = "user" /\ given'.session = session
    BY <1>1, <1>8 DEF SetByHand, IsGiven
  <2>. QED
    BY <2>1
<1>9. CASE SetupPolls
  BY <1>1, <1>4, <1>9 DEF SetupPolls
<1>10. CASE AddNumber
  <2>1. numberUp = "polled" /\ reply' = reply /\ UNCHANGED carVars
    BY <1>10 DEF AddNumber
  <2>2. PICK car \in Sensor(Restored, reply, TRUE) :
            /\ number' = MaybeSeed(Restored, reply, TRUE, car)
            /\ Credit(Restored, disk.given, reply, TRUE, car)
    BY <1>10 DEF AddNumber
  <2>3. /\ Fits(number, given)'
        /\ Readable(reply) /\ number'.told # "failed" =>
               given'.session = session \/ (~disk.given.over /\ Restored.cycle <= clock)
        /\ given'.by = "car" /\ given'.session = session
           /\ disk.given.by = "user" /\ disk.given.session = session => disk.given.early
    BY <1>1, <2>1, <2>2, RestoredFits, PolledFits
  <2>4. given'.by = "car" /\ given'.session = session => number'.value = arrived
    BY <2>1, <2>3 DEF Fits, carVars
  <2>5. Before = Restored /\ GivenBefore = disk.given
    BY <2>1 DEF Before, GivenBefore
  <2>. QED
    BY <2>1, <2>3, <2>4, <2>5
<1>11. CASE StopNumber \/ Crashes
  BY <1>4, <1>11 DEF StopNumber, Crashes, GoesDown
<1>. QED
  BY <1>5, <1>6, <1>7, <1>8, <1>9, <1>10, <1>11 DEF SocNext

\* Number, credit and store fit the sessions in every state of every behaviour.
THEOREM SocInvHolds == SocSpec => []SocInv
<1>1. SocInit => SocInv
  BY SocInvInit
<1>2. SocInv /\ [SocNext]_socVars => SocInv'
  BY SocInvNext
<1>. QED
  BY <1>1, <1>2, PTL DEF SocSpec

\* The number is the car's once in a session, its charge at the plug-in however late it is
\* read, and then the user's (number.py:692-849).
THEOREM NumbersAreTrue == SocSpec => NumberIsTrue
<1>1. SocInv /\ [SocNext]_socVars =>
        [ /\ given'.by = "car" /\ given'.session = session => number'.value = arrived
          /\ /\ numberUp' = "running" /\ Readable(reply') /\ given'.noted = session
             /\ number'.told # "failed"
             => \/ given'.session = session
                \/ ~GivenBefore.over /\ Before.cycle <= clock ]_socVars
  BY StepIsTrue
<1>2. SocInv /\ [SocNext]_socVars =>
        [ /\ given'.by = "car" /\ given'.session = session
          /\ GivenBefore.by = "user" /\ GivenBefore.session = session
          => GivenBefore.early ]_socVars
  BY StepIsTrue
<1>3. SocSpec => SeedIsTrue
  BY <1>1, SocInvHolds, PTL DEF SocSpec, SeedIsTrue
<1>4. SocSpec => CorrectionStands
  BY <1>2, SocInvHolds, PTL DEF SocSpec, CorrectionStands
<1>. QED
  BY <1>3, <1>4 DEF NumberIsTrue

-------------------------------------------------------------------------------
(***************************************************************************)
(* The clock notice, for any number of polls it counts to. Its two streaks *)
(* are those of the readings themselves, newest first: no poll that saw    *)
(* the new drift is left out of the one, and no reading but a right one is *)
(* in the other.                                                           *)
(***************************************************************************)

\* The wordings of a drift.
Drifted(w) == w[1] \in {"sync", "fractional", "timezone", "timezone_following"}

\* The tracker's wording is the registry's, and stands while the tracker is active.
WordingIsShown ==
    /\ told = clockDrift.published
    /\ clockDrift.active <=> told # NoWording

\* The streak of a new wording counts polls that all saw it ...
StreakIsSeen == \A i \in 1..clockDrift.rekey : seen[i] = clockDrift.candidate

\* ... and counts every one, when the latest polls saw a drift another wording is shown for.
StreakCounts ==
    told # NoWording /\ Drifted(seen[1]) /\ told # seen[1] =>
        \A k \in 1..Trigger : (\A i \in 1..k : seen[i] = seen[1]) =>
            k <= clockDrift.rekey /\ clockDrift.candidate = seen[1]

\* A good streak under a notice began with a clock that was right, and no other reading since.
GoodIsRight ==
    clockDrift.active /\ clockDrift.good >= 1 =>
        \A i \in 1..Trigger : (\A j \in 1..(i - 1) : seen[j][1] = Unknown) =>
            seen[i][1] \in {"right", Unknown}

NoticeInv ==
    /\ DOMAIN clockDrift = {"bad", "good", "active", "published", "rekey", "candidate"}
    /\ clockDrift.rekey \in 0..(Trigger - 1) /\ clockDrift.good \in Nat
    /\ clockDrift.active \in BOOLEAN
    /\ WordingIsShown /\ StreakIsSeen /\ StreakCounts /\ GoodIsRight

\* A wording tells what the poll said of the clock.
LEMMA WordingKinds ==
    ASSUME NEW reading \in ClockReadings, NEW following \in BOOLEAN
    PROVE  LET w == Wording(reading, following)
           IN  /\ reading \in Drifts <=> Drifted(w)
               /\ w[1] = "right" <=> reading[1] = "right"
               /\ w[1] = Unknown <=> reading[1] = Unknown
               /\ w # NoWording
<1>1. CASE reading \in {<<Unknown, 0>>, <<"right", 0>>, <<"near", 0>>}
  BY <1>1 DEF Wording, Drifts, Drifted, Unknown, NoWording
<1>2. CASE reading \in {<<"sync", 0>>, <<"fractional", 0>>}
  BY <1>2 DEF Wording, Drifts, Drifted, Unknown, NoWording
<1>3. CASE \E h \in Hours : reading = <<"timezone", h>>
  <2>1. PICK h \in Hours : reading = <<"timezone", h>>
    BY <1>3
  <2>2. Wording(reading, following) \in {<<"timezone", h>>, <<"timezone_following", h>>}
    BY <2>1 DEF Wording
  <2>. QED
    BY <2>1, <2>2 DEF Drifts, Drifted, Unknown, NoWording
<1>. QED
  BY <1>1, <1>2, <1>3 DEF ClockReadings, Drifts

\* What the tracker decides on a reading.
LEMMA VerdictOutcome ==
    ASSUME clockDrift.active \in BOOLEAN, clockDrift.good \in Nat,
           NEW reading \in ClockReadings, NEW following \in BOOLEAN
    PROVE  LET v == ClockVerdict(reading, following)
           IN  /\ v.decision \in {"raise", "clear", "keep"}
               /\ v.decision = "raise" =>
                     reading \in Drifts /\ ~clockDrift.active /\ v.active = TRUE
               /\ v.decision = "clear" =>
                     /\ reading[1] = "right" /\ clockDrift.active /\ v.active = FALSE
                     /\ clockDrift.good >= 1
               /\ v.decision = "keep" => v.active = clockDrift.active
               /\ v.good \in Nat
               /\ v.active /\ v.good >= 1 =>
                     \/ reading[1] = "right"
                     \/ reading[1] = Unknown /\ clockDrift.active /\ clockDrift.good >= 1
<1> DEFINE v == ClockVerdict(reading, following)
<1>1. CASE reading[1] = Unknown
  BY <1>1 DEF ClockVerdict
<1>2. CASE reading[1] # Unknown
  <2> DEFINE isBad == Says(reading \in Drifts)
             recovered == Says(ClockRecovered(reading))
             trigger == Trigger + IF following /\ reading[1] = "timezone" THEN FollowPolls ELSE 0
             bad == IF isBad = "yes" THEN Least(clockDrift.bad + 1, Trigger + FollowPolls)
                    ELSE IF isBad = "no" THEN 0
                    ELSE clockDrift.bad
             good == IF isBad = "yes" THEN 0
                     ELSE IF recovered = "yes" THEN Least(clockDrift.good + 1, ClearAfter)
                     ELSE IF recovered = "no" THEN 0
                     ELSE clockDrift.good
             raise == isBad = "yes" /\ bad >= trigger /\ ~clockDrift.active
             clear == /\ isBad # "yes" /\ recovered = "yes" /\ clockDrift.active
                      /\ good >= ClearAfter
  <2>1. v = [decision |-> IF raise THEN "raise" ELSE IF clear THEN "clear" ELSE "keep",
             bad |-> bad, good |-> good, active |-> raise \/ (clockDrift.active /\ ~clear)]
    BY <1>2 DEF ClockVerdict, Hysteresis
  <2>2. /\ isBad = "yes" <=> reading \in Drifts
        /\ recovered = "yes" <=> reading[1] = "right" \/ ~clockDrift.active
        /\ isBad \in {"yes", "no"} /\ recovered \in {"yes", "no"}
    BY DEF Says, ClockRecovered
  <2> HIDE DEF isBad, recovered, trigger, bad
  <2>3. good \in Nat /\ (good >= ClearAfter => good >= 2) /\ (good >= 2 => clockDrift.good >= 1)
        /\ (good >= 1 => isBad = "no" /\ recovered = "yes")
    BY <2>2, NoticesAssumption DEF Least
  <2> HIDE DEF good
  <2>4. /\ v.decision = IF raise THEN "raise" ELSE IF clear THEN "clear" ELSE "keep"
        /\ v.good = good /\ v.active = (raise \/ (clockDrift.active /\ ~clear))
    BY <2>1
  <2>5. raise => reading \in Drifts /\ ~clockDrift.active
    BY <2>2, Zenon
  <2>6. clear => /\ reading[1] = "right" /\ clockDrift.active /\ clockDrift.good >= 1
                 /\ isBad # "yes"
    BY <2>2, <2>3, Zenon
  <2>7. ~(raise /\ clear)
    BY Zenon
  <2> HIDE DEF v, raise, clear
  <2>8. v.decision \in {"raise", "clear", "keep"}
    BY <2>4
  <2>9. /\ v.decision = "raise" <=> raise
        /\ v.decision = "clear" <=> clear
        /\ v.decision = "keep" <=> ~raise /\ ~clear
    BY <2>4, <2>7
  <2>10. /\ raise => v.active = TRUE
         /\ clear => v.active = FALSE
         /\ ~raise /\ ~clear => v.active = clockDrift.active
    BY <2>4, <2>7
  <2>11. v.active /\ v.good >= 1 => reading[1] = "right"
    <3>1. SUFFICES ASSUME v.active, v.good >= 1
                   PROVE  reading[1] = "right"
      OBVIOUS
    <3>2. isBad = "no" /\ recovered = "yes"
      BY <2>3, <2>4, <3>1
    <3>3. ~raise
      BY <3>2 DEF raise
    <3>4. clockDrift.active
      BY <2>4, <3>1, <3>3
    <3>. QED
      BY <2>2, <3>2, <3>4
  <2>. QED
    BY <2>3, <2>4, <2>5, <2>6, <2>8, <2>9, <2>10, <2>11 DEF v
<1>. QED
  BY <1>1, <1>2

\* What a poll of the clock does to tracker and notice: a raise, a clear, a rewording or
\* nothing; and how the streak of a new wording goes on.
LEMMA ClockOutcome ==
    ASSUME NoticeInv, NEW reading \in ClockReadings, NEW following \in BOOLEAN,
           ClockPoll(reading, following)
    PROVE  LET w == Wording(reading, following)
               v == ClockVerdict(reading, following)
               d == v.decision
               other == d = "keep" /\ told # NoWording /\ Drifted(w) /\ w # told
               streak == IF ~other THEN 0
                         ELSE IF w = clockDrift.candidate THEN clockDrift.rekey + 1 ELSE 1
               publish == d = "raise" \/ streak >= Trigger
           IN  /\ DOMAIN clockDrift' =
                     {"bad", "good", "active", "published", "rekey", "candidate"}
               /\ clockDrift'.good = v.good /\ clockDrift'.active = v.active
               /\ clockDrift'.rekey = IF publish THEN 0 ELSE streak
               /\ clockDrift'.candidate = IF other THEN w ELSE clockDrift.candidate
               /\ told' = IF publish THEN w ELSE IF d = "clear" THEN NoWording ELSE told
               /\ clockDrift'.published = told'
               /\ seen' = [i \in 1..Trigger |-> IF i = 1 THEN w ELSE seen[i - 1]]
<1> DEFINE w == Wording(reading, following)
           v == ClockVerdict(reading, following)
           d == v.decision
           other == d = "keep" /\ told # NoWording /\ Drifted(w) /\ w # told
           streak == IF ~other THEN 0
                     ELSE IF w = clockDrift.candidate THEN clockDrift.rekey + 1 ELSE 1
           publish == d = "raise" \/ streak >= Trigger
           rekeys == Rekeys(reading, w, v)
           count == IF ~rekeys THEN 0
                    ELSE IF w = clockDrift.candidate THEN clockDrift.rekey + 1 ELSE 1
           puts == d = "raise" \/ count >= Trigger
<1>1. /\ clockDrift' = [bad |-> v.bad, good |-> v.good, active |-> v.active,
                        published |-> IF puts THEN w
                                      ELSE IF d = "clear" THEN NoWording
                                      ELSE clockDrift.published,
                        rekey |-> IF puts THEN 0 ELSE count,
                        candidate |-> IF rekeys THEN w ELSE clockDrift.candidate]
      /\ told' = IF puts THEN w ELSE IF d = "clear" THEN NoWording ELSE told
      /\ seen' = [i \in 1..Trigger |-> IF i = 1 THEN w ELSE seen[i - 1]]
  BY Zenon DEF ClockPoll
<1>2. told = clockDrift.published
  BY DEF NoticeInv, WordingIsShown
<1>3. rekeys <=> other
  BY <1>2, WordingKinds DEF Rekeys
<1> HIDE DEF w, v, rekeys, other
<1>4. count = streak
  BY <1>3
<1> HIDE DEF count, streak
<1>5. puts <=> publish
  BY <1>4
<1> HIDE DEF puts, publish
<1>6. /\ DOMAIN clockDrift' = {"bad", "good", "active", "published", "rekey", "candidate"}
      /\ clockDrift'.good = v.good /\ clockDrift'.active = v.active
      /\ clockDrift'.published = IF puts THEN w
                                 ELSE IF d = "clear" THEN NoWording
                                 ELSE clockDrift.published
      /\ clockDrift'.rekey = IF puts THEN 0 ELSE count
      /\ clockDrift'.candidate = IF rekeys THEN w ELSE clockDrift.candidate
  BY <1>1
<1>7. /\ clockDrift'.rekey = IF publish THEN 0 ELSE streak
      /\ clockDrift'.candidate = IF other THEN w ELSE clockDrift.candidate
      /\ told' = IF publish THEN w ELSE IF d = "clear" THEN NoWording ELSE told
      /\ clockDrift'.published = told'
  BY <1>1, <1>2, <1>3, <1>4, <1>5, <1>6
<1>. QED
  BY <1>1, <1>6, <1>7 DEF w, v, other, streak, publish

\* A poll of the clock keeps the invariant, and rewords or clears a notice only when the
\* latest polls say so.
LEMMA ClockKeepsNoticeInv ==
    ASSUME NoticeInv, NEW reading \in ClockReadings, NEW following \in BOOLEAN,
           ClockPoll(reading, following)
    PROVE  /\ NoticeInv'
           /\ told # NoWording /\ told' \notin {told, NoWording} =>
                 \A i \in 1..Trigger : seen'[i] = told'
           /\ told # NoWording /\ told' = NoWording =>
                 /\ seen'[1][1] = "right"
                 /\ \A i \in 2..Trigger :
                       (\A j \in 2..(i - 1) : seen'[j][1] = Unknown) =>
                           seen'[i][1] \in {"right", Unknown}
<1> DEFINE w == Wording(reading, following)
           v == ClockVerdict(reading, following)
           d == v.decision
           other == d = "keep" /\ told # NoWording /\ Drifted(w) /\ w # told
           streak == IF ~other THEN 0
                     ELSE IF w = clockDrift.candidate THEN clockDrift.rekey + 1 ELSE 1
           publish == d = "raise" \/ streak >= Trigger
<1>1. /\ DOMAIN clockDrift' = {"bad", "good", "active", "published", "rekey", "candidate"}
      /\ clockDrift'.good = v.good /\ clockDrift'.active = v.active
      /\ clockDrift'.rekey = IF publish THEN 0 ELSE streak
      /\ clockDrift'.candidate = IF other THEN w ELSE clockDrift.candidate
      /\ told' = IF publish THEN w ELSE IF d = "clear" THEN NoWording ELSE told
      /\ clockDrift'.published = told'
      /\ seen' = [i \in 1..Trigger |-> IF i = 1 THEN w ELSE seen[i - 1]]
  BY ClockOutcome, Zenon
<1>2. /\ clockDrift.rekey \in 0..(Trigger - 1) /\ clockDrift.good \in Nat
      /\ clockDrift.active \in BOOLEAN /\ (clockDrift.active <=> told # NoWording)
  BY DEF NoticeInv, WordingIsShown
<1>3. /\ d \in {"raise", "clear", "keep"}
      /\ d = "raise" => reading \in Drifts /\ ~clockDrift.active /\ v.active = TRUE
      /\ d = "clear" => /\ reading[1] = "right" /\ clockDrift.active /\ v.active = FALSE
                        /\ clockDrift.good >= 1
      /\ d = "keep" => v.active = clockDrift.active
      /\ v.good \in Nat
      /\ v.active /\ v.good >= 1 =>
            \/ reading[1] = "right"
            \/ reading[1] = Unknown /\ clockDrift.active /\ clockDrift.good >= 1
  BY <1>2, VerdictOutcome
<1>4. /\ reading \in Drifts <=> Drifted(w)
      /\ w[1] = "right" <=> reading[1] = "right"
      /\ w[1] = Unknown <=> reading[1] = Unknown
      /\ w # NoWording
  BY WordingKinds
<1> HIDE DEF w, v
<1>5. /\ Trigger \in Nat /\ Trigger >= 1
      /\ seen'[1] = w /\ \A i \in 2..Trigger : seen'[i] = seen[i - 1]
  BY <1>1, NoticesAssumption
<1>6. streak \in 0..Trigger /\ (streak >= 1 => other) /\ (other => streak >= 1)
  BY <1>2, <1>5
<1>7. clockDrift'.rekey \in 0..(Trigger - 1) /\ clockDrift'.good \in Nat
  BY <1>1, <1>3, <1>5, <1>6
<1>8. WordingIsShown' /\ clockDrift'.active \in BOOLEAN
  <2>1. streak >= Trigger => other
    BY <1>5, <1>6
  <2> HIDE DEF streak
  <2>2. CASE d = "raise"
    BY <1>1, <1>3, <1>4, <2>2 DEF WordingIsShown
  <2>3. CASE d = "clear"
    BY <1>1, <1>3, <2>1, <2>3 DEF WordingIsShown
  <2>4. CASE d = "keep"
    BY <1>1, <1>2, <1>3, <1>4, <2>1, <2>4 DEF WordingIsShown
  <2>. QED
    BY <1>3, <2>2, <2>3, <2>4
\* The streak's polls are the last ones, this one included.
<1>9. other => \A i \in 1..streak : seen'[i] = w
  <2>1. SUFFICES ASSUME other, NEW i \in 1..streak
                 PROVE  seen'[i] = w
    OBVIOUS
  <2>2. CASE i = 1
    BY <1>5, <2>2
  <2>3. CASE i # 1
    <3>1. w = clockDrift.candidate /\ streak = clockDrift.rekey + 1
      BY <1>2, <2>1, <2>3
    <3>2. i - 1 \in 1..clockDrift.rekey /\ i \in 2..Trigger
      BY <1>2, <1>5, <1>6, <2>3, <3>1
    <3>3. seen[i - 1] = clockDrift.candidate
      BY <3>2 DEF NoticeInv, StreakIsSeen
    <3>. QED
      BY <1>5, <3>1, <3>2, <3>3
  <2>. QED
    BY <2>2, <2>3
<1>10. StreakIsSeen'
  <2>1. CASE publish \/ ~other
    BY <1>1, <2>1 DEF StreakIsSeen
  <2>2. CASE ~publish /\ other
    BY <1>1, <1>9, <2>2 DEF StreakIsSeen
  <2>. QED
    BY <2>1, <2>2
<1>11. StreakCounts'
  <2>1. SUFFICES ASSUME told' # NoWording, Drifted(w), told' # w,
                        NEW k \in 1..Trigger, \A i \in 1..k : seen'[i] = w
                 PROVE  k <= clockDrift'.rekey /\ clockDrift'.candidate = w
    BY <1>5 DEF StreakCounts, Drifted
  <2>2. ~publish /\ d # "clear" /\ told' = told
    BY <1>1, <2>1
  <2>3. d = "keep" /\ other
    BY <1>3, <2>1, <2>2
  <2>4. clockDrift'.rekey = streak /\ clockDrift'.candidate = w
    BY <1>1, <2>2, <2>3
  <2>5. CASE k = 1
    BY <1>6, <2>3, <2>4, <2>5
  <2>6. CASE k # 1
    <3>1. k - 1 \in 1..Trigger /\ 1 \in 1..(k - 1)
      BY <1>5, <2>6
    <3>2. ASSUME NEW i \in 1..(k - 1)
          PROVE  seen[i] = w
      <4>1. i + 1 \in 1..k /\ i + 1 \in 2..Trigger /\ (i + 1) - 1 = i
        BY <1>5, <3>1
      <4>. QED
        BY <1>5, <2>1, <4>1
    <3>3. seen[1] = w
      BY <3>1, <3>2
    <3>4. k - 1 <= clockDrift.rekey /\ clockDrift.candidate = w
      BY <2>1, <2>2, <3>1, <3>2, <3>3 DEF NoticeInv, StreakCounts
    <3>5. streak = clockDrift.rekey + 1
      BY <2>3, <3>4
    <3>. QED
      BY <1>2, <2>4, <3>1, <3>4, <3>5
  <2>. QED
    BY <2>5, <2>6
\* A good streak, this poll included or before it.
<1>12. ASSUME clockDrift.active, clockDrift.good >= 1, NEW i \in 2..Trigger,
              \A j \in 2..(i - 1) : seen'[j][1] = Unknown
       PROVE  seen'[i][1] \in {"right", Unknown}
  <2>1. i - 1 \in 1..Trigger
    BY <1>5
  <2>2. ASSUME NEW j \in 1..((i - 1) - 1)
        PROVE  seen[j][1] = Unknown
    <3>1. j + 1 \in 2..(i - 1) /\ j + 1 \in 2..Trigger /\ (j + 1) - 1 = j
      BY <1>5
    <3>. QED
      BY <1>5, <1>12, <3>1
  <2>3. seen[i - 1][1] \in {"right", Unknown}
    BY <1>12, <2>1, <2>2 DEF NoticeInv, GoodIsRight
  <2>. QED
    BY <1>5, <2>3
<1>13. GoodIsRight'
  <2>1. SUFFICES ASSUME clockDrift'.active, clockDrift'.good >= 1, NEW i \in 1..Trigger,
                        \A j \in 1..(i - 1) : seen'[j][1] = Unknown
                 PROVE  seen'[i][1] \in {"right", Unknown}
    BY DEF GoodIsRight
  <2>2. CASE i = 1
    BY <1>1, <1>3, <1>4, <1>5, <2>1, <2>2
  <2>3. CASE i # 1
    <3>1. 1 \in 1..(i - 1) /\ i \in 2..Trigger
      BY <1>5, <2>3
    <3>2. w[1] = Unknown
      BY <1>5, <2>1, <3>1
    <3>3. clockDrift.active /\ clockDrift.good >= 1
      BY <1>1, <1>3, <1>4, <2>1, <3>2 DEF Unknown
    <3>. QED
      BY <1>12, <2>1, <3>1, <3>3
  <2>. QED
    BY <2>2, <2>3
<1>14. NoticeInv'
  BY <1>1, <1>7, <1>8, <1>10, <1>11, <1>13 DEF NoticeInv
<1>15. ASSUME told # NoWording, told' \notin {told, NoWording}
       PROVE  \A i \in 1..Trigger : seen'[i] = told'
  <2>1. d # "raise" /\ publish /\ told' = w
    BY <1>1, <1>2, <1>3, <1>15
  <2>2. streak = Trigger /\ other
    BY <1>5, <1>6, <2>1
  <2>. QED
    BY <1>9, <2>1, <2>2
<1>16. ASSUME told # NoWording, told' = NoWording
       PROVE  /\ seen'[1][1] = "right"
              /\ \A i \in 2..Trigger :
                    (\A j \in 2..(i - 1) : seen'[j][1] = Unknown) =>
                        seen'[i][1] \in {"right", Unknown}
  <2>1. d = "clear"
    BY <1>1, <1>4, <1>16
  <2>. QED
    BY <1>3, <1>4, <1>5, <1>12, <2>1
<1>. QED
  BY <1>14, <1>15, <1>16

\* New trackers, in a new entry or after a reload.
LEMMA NewTrackersFit ==
    ASSUME DOMAIN clockDrift = {"bad", "good", "active", "published", "rekey", "candidate"},
           clockDrift.rekey = 0, clockDrift.good = 0, clockDrift.active = FALSE,
           clockDrift.published = NoWording, told = NoWording
    PROVE  NoticeInv
<1>1. clockDrift.rekey \in 0..(Trigger - 1) /\ clockDrift.good \in Nat
  BY NoticesAssumption
<1>2. StreakIsSeen
  BY DEF StreakIsSeen
<1>3. WordingIsShown /\ StreakCounts /\ GoodIsRight /\ clockDrift.active \in BOOLEAN
  BY DEF WordingIsShown, StreakCounts, GoodIsRight
<1>. QED
  BY <1>1, <1>2, <1>3 DEF NoticeInv

\* Every step keeps the invariant and earns what it does to the notice.
LEMMA NoticeInvNext ==
    ASSUME NoticeInv, [NoticesNext]_noticeVars
    PROVE  /\ NoticeInv'
           /\ told # NoWording /\ told' \notin {told, NoWording} =>
                 \A i \in 1..Trigger : seen'[i] = told'
           /\ told # NoWording /\ told' = NoWording /\ seen'[1] # NoWording =>
                 /\ seen'[1][1] = "right"
                 /\ \A i \in 2..Trigger :
                       (\A j \in 2..(i - 1) : seen'[j][1] = Unknown) =>
                           seen'[i][1] \in {"right", Unknown}
<1>1. CASE UpdateClockDriftIssue
  <2>1. PICK reading \in ClockReadings, following \in BOOLEAN : ClockPoll(reading, following)
    BY <1>1 DEF UpdateClockDriftIssue
  <2>. QED
    BY <2>1, ClockKeepsNoticeInv
<1>2. CASE Reload
  <2>1. /\ clockDrift' = [clockDrift EXCEPT !.bad = 0, !.good = 0, !.active = FALSE,
                              !.published = NoWording, !.rekey = 0, !.candidate = NoWording]
        /\ told' = NoWording /\ seen' = [i \in 1..Trigger |-> NoWording]
    BY <1>2 DEF Reload
  <2>2. DOMAIN clockDrift = {"bad", "good", "active", "published", "rekey", "candidate"}
    BY DEF NoticeInv
  <2>3. /\ DOMAIN clockDrift' = {"bad", "good", "active", "published", "rekey", "candidate"}
        /\ clockDrift'.rekey = 0 /\ clockDrift'.good = 0 /\ clockDrift'.active = FALSE
        /\ clockDrift'.published = NoWording
    BY <2>1, <2>2
  <2>4. NoticeInv'
    <3>1. clockDrift'.rekey \in 0..(Trigger - 1) /\ clockDrift'.good \in Nat
      BY <2>3, NoticesAssumption
    <3>2. StreakIsSeen'
      BY <2>3 DEF StreakIsSeen
    <3>3. WordingIsShown' /\ StreakCounts' /\ GoodIsRight' /\ clockDrift'.active \in BOOLEAN
      BY <2>1, <2>3 DEF WordingIsShown, StreakCounts, GoodIsRight, NoWording
    <3>. QED
      BY <2>3, <3>1, <3>2, <3>3 DEF NoticeInv
  <2>5. seen'[1] = NoWording
    <3>1. 1 \in 1..Trigger
      BY NoticesAssumption
    <3>. QED
      BY <2>1, <3>1
  <2>. QED
    BY <2>1, <2>4, <2>5
<1>3. CASE UNCHANGED <<clockDrift, told, seen>>
  BY <1>3 DEF NoticeInv, WordingIsShown, StreakIsSeen, StreakCounts, GoodIsRight
<1>4. [NoticesNext]_noticeVars =>
          UpdateClockDriftIssue \/ Reload \/ UNCHANGED <<clockDrift, told, seen>>
  BY DEF NoticesNext, ClockNext, OthersNext, UpdateBatteryLowIssue, UpdateOcppIssue,
         UpdateReveFieldsIssue, noticeVars
<1>. QED
  BY <1>1, <1>2, <1>3, <1>4

\* A notice that is shown says what the latest polls all saw.
LEMMA NoticeInvAdvises == NoticeInv => AdviceIsCurrent
<1>1. SUFFICES ASSUME NoticeInv, told # NoWording, Drifted(seen[1]), told # seen[1],
                      \A i \in 1..Trigger : seen[i] = seen[1]
               PROVE  FALSE
  BY DEF AdviceIsCurrent, Drifted
<1>2. Trigger \in 1..Trigger
  BY NoticesAssumption
<1>3. Trigger <= clockDrift.rekey
  BY <1>1, <1>2 DEF NoticeInv, StreakCounts
<1>4. clockDrift.rekey \in 0..(Trigger - 1)
  BY <1>1 DEF NoticeInv
<1>5. Trigger \in Nat
  BY NoticesAssumption
<1>. QED
  BY <1>3, <1>4, <1>5

\* The tracker's streaks match what the polls saw in every state of every behaviour.
THEOREM NoticeInvHolds == NoticesSpec => []NoticeInv
<1>1. NoticesInit => NoticeInv
  BY NewTrackersFit DEF NoticesInit
<1>2. NoticeInv /\ [NoticesNext]_noticeVars => NoticeInv'
  BY NoticeInvNext
<1>. QED
  BY <1>1, <1>2, PTL DEF NoticesSpec

\* The clock notice's advice is the one for the drift there is, and a notice is reworded or
\* cleared only when readings in a row say so, for any number of them (issues.py:262-332).
THEOREM AdviceHolds == NoticesSpec => AdviceIsTrue
<1>1. NoticeInv => AdviceIsCurrent
  BY NoticeInvAdvises
<1>2. NoticeInv /\ [NoticesNext]_noticeVars =>
        [told # NoWording =>
            /\ told' \notin {told, NoWording} => \A i \in 1..Trigger: seen'[i] = told'
            /\ (told' = NoWording /\ seen'[1] # NoWording) =>
                  /\ seen'[1][1] = "right"
                  /\ \A i \in 2..Trigger:
                        (\A j \in 2..(i - 1): seen'[j][1] = Unknown) =>
                            seen'[i][1] \in {"right", Unknown}]_noticeVars
  BY NoticeInvNext
<1>3. NoticesSpec => [][AdviceIsCurrent']_noticeVars
  BY <1>1, NoticeInvHolds, PTL DEF NoticesSpec
<1>4. NoticesSpec => AdviceIsEarned
  BY <1>2, NoticeInvHolds, PTL DEF NoticesSpec, AdviceIsEarned
<1>. QED
  BY <1>3, <1>4 DEF AdviceIsTrue

===============================================================================
