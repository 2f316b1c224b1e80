--------------------------- MODULE DashboardProofs ---------------------------
(***************************************************************************)
(* Dashboard.tla: whatever loads overlap, servers restart and users        *)
(* select, the page shows one selection, and selects a source of the meta  *)
(* it has; for any sources of any number of starts, any loads and changes. *)
(***************************************************************************)
EXTENDS Dashboard, TLAPS

\* A server that runs was started, and shows the sources of this start or of
\* an earlier one.
StartsInv ==
    /\ up => starts > 0
    /\ summary.version <= starts /\ events.version <= starts
    /\ available # {} => \E i \in 1..starts : available = Configs[i]
    /\ \A l \in Slots : Under(l) =>
         /\ loads[l].meta <= starts
         /\ loads[l].summary <= starts /\ loads[l].events <= starts

\* The page selects a source that the meta it shows has.  (the effect of App
\* on meta, the buttons of the sources)
SelectedSourceIsThere == available # {} => selection.source \in available

DashboardInv == TypeOK /\ StartsInv /\ OneSelectionShown /\ SelectedSourceIsThere

\* What each start is configured with.
LEMMA ConfigFields ==
    /\ MaxStarts \in Nat
    /\ \A i \in 1..MaxStarts : Configs[i] \subseteq Sources /\ Configs[i] # {}
  <1> DEFINE Kinds == {{"bloom"}, {"surf"}, {"bloom", "surf"}, {"default"}}
  <1>1. Configs \in Seq(Kinds)
    BY DashboardAssumption
  <1>2. \A K \in Kinds : K \subseteq Sources /\ K # {}
    BY DEF Sources
  <1> HIDE DEF Kinds
  <1>3. Len(Configs) \in Nat /\ \A i \in 1..Len(Configs) : Configs[i] \in Kinds
    BY <1>1
  <1> QED
    BY <1>2, <1>3 DEF MaxStarts

\* A load under way is a record of Loads.
LEMMA LoadFields ==
    ASSUME TypeOK, NEW l \in Slots, Under(l)
    PROVE  /\ loads[l] \in Loads /\ loads[l].place \in {"health", "data"}
           /\ loads[l].selection \in Selections
           /\ loads[l].meta \in Versions /\ loads[l].summary \in Versions
           /\ loads[l].events \in Versions
  BY DEF TypeOK, Under, Loads

\* A load that is somewhere is under way.
LEMMA UnderWhenPlaced ==
    ASSUME NEW l \in Slots, loads[l].place \in {"health", "data"}
    PROVE  Under(l)
  BY DEF Under, NoLoad

\* What changes in a load leaves the others alone.
LEMMA OneLoadChanges ==
    ASSUME TypeOK, StartsInv, NEW l \in Slots, NEW load \in Loads \cup {NoLoad},
           load # NoLoad => /\ load.meta <= starts
                            /\ load.summary <= starts /\ load.events <= starts,
           loads' = [loads EXCEPT ![l] = load], starts' = starts
    PROVE  /\ loads' \in [Slots -> Loads \cup {NoLoad}]
           /\ \A m \in Slots : Under(m)' =>
                /\ loads'[m].meta <= starts'
                /\ loads'[m].summary <= starts' /\ loads'[m].events <= starts'
  <1>1. loads \in [Slots -> Loads \cup {NoLoad}]
    BY DEF TypeOK
  <1>2. \A m \in Slots : loads'[m] = IF m = l THEN load ELSE loads[m]
    BY <1>1
  <1>3. loads' \in [Slots -> Loads \cup {NoLoad}]
    BY <1>1
  <1> QED
    BY <1>2, <1>3 DEF Under, StartsInv

\* The versions there are numbers, the greatest of which is that of the start.
LEMMA VersionsAreNumbers ==
    ASSUME TypeOK
    PROVE  /\ Versions \subseteq Int /\ NoData \in Versions /\ Waiting \in Versions
           /\ NoData # Waiting /\ NoData <= starts /\ Waiting <= starts
           /\ starts \in Nat /\ starts \in Int
           /\ starts > 0 => starts \in Versions /\ starts # Waiting
  <1>1. starts \in 0..MaxStarts /\ MaxStarts \in Nat
    BY ConfigFields DEF TypeOK
  <1> QED
    BY <1>1 DEF Versions, NoData, Waiting

\* A new load.
LEMMA NewLoadFields ==
    ASSUME TypeOK, NEW s \in Selections
    PROVE  /\ NewLoad(s) \in Loads
           /\ NewLoad(s).meta <= starts /\ NewLoad(s).summary <= starts
           /\ NewLoad(s).events <= starts
  BY VersionsAreNumbers DEF NewLoad, Loads

\* Steps that leave alone what the page shows and selects keep the invariant
\* if they keep what loads know.
LEMMA ShownStays ==
    ASSUME DashboardInv, UNCHANGED <<serverVars, selection, shownVars, changes>>,
           polled' \in Selections, health' \in BOOLEAN, loading' \in BOOLEAN, error' \in BOOLEAN,
           loads' \in [Slots -> Loads \cup {NoLoad}],
           \A m \in Slots : Under(m)' =>
             /\ loads'[m].meta <= starts'
             /\ loads'[m].summary <= starts' /\ loads'[m].events <= starts'
    PROVE  DashboardInv'
  <1> USE DEF serverVars, shownVars
  <1>1. TypeOK'
    BY DEF DashboardInv, TypeOK
  <1>2. StartsInv'
    BY DEF DashboardInv, StartsInv
  <1> QED
    BY <1>1, <1>2 DEF DashboardInv, OneSelectionShown, SelectedSourceIsThere

LEMMA InitInv == Init => DashboardInv
  <1> SUFFICES ASSUME Init
               PROVE  DashboardInv
    OBVIOUS
  <1>1. FirstSelection \in Selections
    BY DEF FirstSelection, Selections, Sources
  <1>2. MaxStarts \in Nat /\ NoData \in Versions \ {Waiting} /\ Waiting \in Versions
        /\ MaxChanges \in Nat
    BY ConfigFields, DashboardAssumption DEF Versions, NoData, Waiting
  <1>3. NewLoad(FirstSelection) \in Loads
    BY <1>1, <1>2 DEF NewLoad, Loads
  <1>4. loads \in [Slots -> Loads \cup {NoLoad}]
        /\ \A l \in Slots : loads[l] \in {NewLoad(FirstSelection), NoLoad}
    BY <1>3 DEF Init
  <1>5. TypeOK
    <2>1. summary \in Shown /\ events \in Shown
      BY <1>2 DEF Init, Shown
    <2>2. starts \in 0..MaxStarts /\ changes \in 0..MaxChanges
      BY <1>2 DEF Init
    <2> QED
      BY <1>1, <1>4, <2>1, <2>2 DEF Init, TypeOK
  <1>6. StartsInv
    <2>1. NoData <= 0 /\ Waiting <= 0
      BY DEF NoData, Waiting
    <2>2. \A l \in Slots : Under(l) =>
            loads[l].meta = Waiting /\ loads[l].summary = Waiting /\ loads[l].events = Waiting
      BY <1>4 DEF Under, NewLoad
    <2> QED
      BY <2>1, <2>2 DEF Init, StartsInv
  <1> QED
    BY <1>5, <1>6 DEF DashboardInv, Init, OneSelectionShown, SelectedSourceIsThere

\* The server comes and goes.
LEMMA ServerStep ==
    ASSUME DashboardInv, StartServer \/ StopServer
    PROVE  DashboardInv'
  <1> USE DEF serverVars, shownVars
  <1>1. TypeOK /\ StartsInv
    BY DEF DashboardInv
  <1>2. /\ UNCHANGED <<changes, selection, polled, health, loading, error, loads>>
        /\ UNCHANGED <<available, summary, events>>
        /\ up' \in BOOLEAN
        /\ \/ starts' = starts /\ ~up'
           \/ starts < MaxStarts /\ starts' = starts + 1
    BY DEF StartServer, StopServer
  <1>3. starts \in 0..MaxStarts /\ MaxStarts \in Nat
    BY <1>1, ConfigFields DEF TypeOK
  <1>4. starts' \in 0..MaxStarts /\ starts <= starts' /\ (up' => starts' > 0)
        /\ starts \in Int /\ starts' \in Int
    BY <1>2, <1>3
  <1>5. TypeOK'
    BY <1>1, <1>2, <1>4 DEF TypeOK
  <1>6. StartsInv'
    <2>1. summary.version \in Int /\ events.version \in Int
      BY <1>1, VersionsAreNumbers DEF TypeOK, Shown
    <2>2. summary'.version <= starts' /\ events'.version <= starts'
      <3>1. summary.version <= starts /\ events.version <= starts
        BY <1>1 DEF StartsInv
      <3> QED
        BY <1>2, <1>4, <2>1, <3>1
    <2>3. available' # {} => \E i \in 1..starts' : available' = Configs[i]
      <3>1. available # {} => \E i \in 1..starts : available = Configs[i]
        BY <1>1 DEF StartsInv
      <3>2. \A i \in 1..starts : i \in 1..starts'
        BY <1>4
      <3> QED
        BY <1>2, <3>1, <3>2
    <2>4. \A l \in Slots : Under(l)' =>
             /\ loads'[l].meta <= starts'
             /\ loads'[l].summary <= starts' /\ loads'[l].events <= starts'
      <3> SUFFICES ASSUME NEW l \in Slots, Under(l)'
                   PROVE  /\ loads'[l].meta <= starts'
                          /\ loads'[l].summary <= starts' /\ loads'[l].events <= starts'
        OBVIOUS
      <3>1. Under(l) /\ loads'[l] = loads[l]
        BY <1>2 DEF Under
      <3>2. /\ loads[l].meta \in Int /\ loads[l].summary \in Int /\ loads[l].events \in Int
        BY <1>1, <3>1, LoadFields, VersionsAreNumbers
      <3>3. /\ loads[l].meta <= starts /\ loads[l].summary <= starts
            /\ loads[l].events <= starts
        BY <1>1, <3>1 DEF StartsInv
      <3> QED
        BY <1>4, <3>1, <3>2, <3>3
    <2> QED
      BY <1>4, <2>2, <2>3, <2>4 DEF StartsInv
  <1> QED
    BY <1>2, <1>5, <1>6 DEF DashboardInv, OneSelectionShown, SelectedSourceIsThere

\* A load begins.
LEMMA BeginStep ==
    ASSUME DashboardInv, NEW l \in Slots, Poll(l) \/ Restart(l)
    PROVE  DashboardInv'
  <1> USE DEF serverVars, shownVars
  <1>1. TypeOK /\ StartsInv
    BY DEF DashboardInv
  <1>2. PICK s \in {polled, selection} :
           /\ loads' = [loads EXCEPT ![l] = NewLoad(s)] /\ error' = FALSE
           /\ polled' \in {polled, selection}
           /\ UNCHANGED <<serverVars, selection, shownVars, changes>>
           /\ UNCHANGED <<health, loading>>
    BY DEF Poll, Restart, Begin
  <1>3. s \in Selections /\ polled' \in Selections
        /\ health' \in BOOLEAN /\ loading' \in BOOLEAN /\ error' \in BOOLEAN
    BY <1>1, <1>2 DEF TypeOK
  <1>4. /\ NewLoad(s) \in Loads
        /\ NewLoad(s).meta <= starts /\ NewLoad(s).summary <= starts
        /\ NewLoad(s).events <= starts
    BY <1>1, <1>3, NewLoadFields
  <1>5. PICK load \in Loads \cup {NoLoad} : load = NewLoad(s)
    BY <1>4
  <1>6. /\ loads' \in [Slots -> Loads \cup {NoLoad}]
        /\ \A m \in Slots : Under(m)' =>
             /\ loads'[m].meta <= starts'
             /\ loads'[m].summary <= starts' /\ loads'[m].events <= starts'
    BY <1>1, <1>2, <1>4, <1>5, OneLoadChanges
  <1> QED
    BY <1>2, <1>3, <1>6, ShownStays

\* A load goes on, or is given up; the page does not change.
LEMMA LoadProgress ==
    ASSUME DashboardInv, NEW l \in Slots,
           \/ HealthOk(l) \/ HealthFails(l) \/ BodyFails(l)
           \/ MetaSettles(l) \/ SummarySettles(l) \/ EventsSettle(l)
    PROVE  DashboardInv'
  <1> USE DEF serverVars, shownVars
  <1>1. TypeOK /\ StartsInv
    BY DEF DashboardInv
  <1>2. loads[l].place \in {"health", "data"}
    BY DEF HealthOk, HealthFails, BodyFails, MetaSettles, SummarySettles, EventsSettle
  <1>3. Under(l) /\ loads[l] \in Loads
    BY <1>1, <1>2, UnderWhenPlaced, LoadFields
  <1>4. /\ loads[l].meta <= starts /\ loads[l].summary <= starts /\ loads[l].events <= starts
    BY <1>1, <1>3 DEF StartsInv
  <1> DEFINE answer == IF up THEN starts ELSE NoData
  <1>5. answer \in Versions /\ answer <= starts
    BY <1>1, VersionsAreNumbers DEF StartsInv
  <1>6. /\ UNCHANGED <<serverVars, selection, shownVars, changes>> /\ polled' = polled
        /\ health' \in {health, TRUE} /\ loading' \in {loading, FALSE} /\ error' \in {error, TRUE}
        /\ \/ loads' = [loads EXCEPT ![l] = NoLoad]
           \/ loads' = [loads EXCEPT ![l].place = "data"]
           \/ loads' = [loads EXCEPT ![l].meta = answer]
           \/ loads' = [loads EXCEPT ![l].summary = answer]
           \/ loads' = [loads EXCEPT ![l].events = answer]
    BY DEF HealthOk, HealthFails, BodyFails, MetaSettles, SummarySettles, EventsSettle, GiveUp,
           End
  <1> HIDE DEF answer
  <1>7. PICK load \in Loads \cup {NoLoad} :
           /\ loads' = [loads EXCEPT ![l] = load]
           /\ load # NoLoad => /\ load.meta <= starts
                               /\ load.summary <= starts /\ load.events <= starts
    <2> DEFINE Good(load) ==
                 /\ load \in Loads
                 /\ load.meta <= starts /\ load.summary <= starts /\ load.events <= starts
    <2>1. CASE loads' = [loads EXCEPT ![l] = NoLoad]
      BY <2>1
    <2>2. Good([loads[l] EXCEPT !.place = "data"])
      BY <1>3, <1>4 DEF Loads
    <2>3. Good([loads[l] EXCEPT !.meta = answer])
      BY <1>3, <1>4, <1>5 DEF Loads
    <2>4. Good([loads[l] EXCEPT !.summary = answer])
      BY <1>3, <1>4, <1>5 DEF Loads
    <2>5. Good([loads[l] EXCEPT !.events = answer])
      BY <1>3, <1>4, <1>5 DEF Loads
    <2>6. ASSUME NEW load, Good(load), loads' = [loads EXCEPT ![l] = load]
          PROVE  \E other \in Loads \cup {NoLoad} :
                   /\ loads' = [loads EXCEPT ![l] = other]
                   /\ other # NoLoad =>
                        /\ other.meta <= starts
                        /\ other.summary <= starts /\ other.events <= starts
      BY <2>6
    <2>7. \/ loads' = [loads EXCEPT ![l] = NoLoad]
          \/ loads' = [loads EXCEPT ![l] = [loads[l] EXCEPT !.place = "data"]]
          \/ loads' = [loads EXCEPT ![l] = [loads[l] EXCEPT !.meta = answer]]
          \/ loads' = [loads EXCEPT ![l] = [loads[l] EXCEPT !.summary = answer]]
          \/ loads' = [loads EXCEPT ![l] = [loads[l] EXCEPT !.events = answer]]
      BY <1>6
    <2> HIDE DEF Good
    <2> QED
      BY <2>1, <2>2, <2>3, <2>4, <2>5, <2>6, <2>7
  <1>8. /\ loads' \in [Slots -> Loads \cup {NoLoad}]
        /\ \A m \in Slots : Under(m)' =>
             /\ loads'[m].meta <= starts'
             /\ loads'[m].summary <= starts' /\ loads'[m].events <= starts'
    BY <1>1, <1>6, <1>7, OneLoadChanges
  <1>9. polled' \in Selections /\ health' \in BOOLEAN /\ loading' \in BOOLEAN /\ error' \in BOOLEAN
    BY <1>1, <1>6 DEF TypeOK
  <1> QED
    BY <1>6, <1>8, <1>9, ShownStays

\* The page shows a load, and selects a source of its meta.
LEMMA ShowStep ==
    ASSUME DashboardInv, NEW l \in Slots, Show(l)
    PROVE  DashboardInv'
  <1> USE DEF serverVars, shownVars
  <1>1. TypeOK /\ StartsInv
    BY DEF DashboardInv
  <1> DEFINE load == loads[l]
             sources == IF load.meta = NoData THEN {} ELSE Configs[load.meta]
             source == SourceOf(load.selection)
  <1>2. /\ load.place = "data" /\ load.meta # Waiting
        /\ load.summary # Waiting /\ load.events # Waiting
        /\ available' = sources /\ AdjustSource(sources)
        /\ summary' = [source |-> source, version |-> load.summary]
        /\ events' = [source |-> source, version |-> load.events]
        /\ loading' = FALSE /\ loads' = [loads EXCEPT ![l] = NoLoad]
        /\ UNCHANGED <<serverVars, changes, polled, health, error>>
    BY DEF Show, End
  <1>3. Under(l)
    BY <1>2, UnderWhenPlaced
  <1>4. /\ load.selection \in Selections /\ load.meta \in Versions
        /\ load.summary \in Versions /\ load.events \in Versions
        /\ load.meta <= starts /\ load.summary <= starts /\ load.events <= starts
    BY <1>1, <1>3, LoadFields DEF StartsInv
  <1>5. starts \in 0..MaxStarts /\ MaxStarts \in Nat
    BY <1>1, ConfigFields DEF TypeOK
  <1>6. load.meta # NoData => load.meta \in 1..MaxStarts /\ load.meta \in 1..starts
    BY <1>2, <1>4, <1>5 DEF Versions
  <1>7. /\ sources \subseteq Sources
        /\ sources # {} => \E i \in 1..starts : sources = Configs[i]
        /\ sources \in {{}} \cup {Configs[i] : i \in 1..MaxStarts}
    BY <1>6, ConfigFields
  <1>8. source \in Sources \cup {"all"}
    BY <1>4 DEF SourceOf, Selections
  <1>9. selection' \in Selections /\ (sources # {} => selection'.source \in sources)
    <2> HIDE DEF sources
    <2>1. selection \in Selections
      BY <1>1 DEF TypeOK
    <2>2. ASSUME NEW s \in sources
          PROVE  /\ [selection EXCEPT !.source = s] \in Selections
                 /\ [selection EXCEPT !.source = s].source = s
      BY <1>7, <2>1 DEF Selections
    <2>3. sources # {} => (CHOOSE s \in sources : TRUE) \in sources
      OBVIOUS
    <2> DEFINE first == IF "bloom" \in sources THEN "bloom" ELSE CHOOSE s \in sources : TRUE
    <2>4. sources # {} => first \in sources
      BY <2>3
    <2>5. selection' = IF sources # {} /\ selection.source \notin sources
                       THEN [selection EXCEPT !.source = first] ELSE selection
      BY <1>2 DEF AdjustSource
    <2> HIDE DEF first
    <2> QED
      BY <2>1, <2>2, <2>4, <2>5
  <1> HIDE DEF sources, source, load
  <1>10. summary' \in Shown /\ events' \in Shown
    BY <1>2, <1>4, <1>8 DEF Shown
  <1>11. /\ loads' \in [Slots -> Loads \cup {NoLoad}]
         /\ \A m \in Slots : Under(m)' =>
              /\ loads'[m].meta <= starts'
              /\ loads'[m].summary <= starts' /\ loads'[m].events <= starts'
    <2>1. PICK none \in Loads \cup {NoLoad} : none = NoLoad
      OBVIOUS
    <2> QED
      BY <1>1, <1>2, <2>1, OneLoadChanges
  <1>12. TypeOK'
    BY <1>1, <1>2, <1>7, <1>9, <1>10, <1>11 DEF TypeOK
  <1>13. StartsInv'
    <2>1. summary'.version <= starts' /\ events'.version <= starts'
      BY <1>2, <1>4
    <2>2. available' # {} => \E i \in 1..starts' : available' = Configs[i]
      BY <1>2, <1>7
    <2>3. up' => starts' > 0
      BY <1>1, <1>2 DEF StartsInv
    <2> QED
      BY <1>11, <2>1, <2>2, <2>3 DEF StartsInv
  <1>14. OneSelectionShown' /\ SelectedSourceIsThere'
    BY <1>2, <1>9 DEF OneSelectionShown, SelectedSourceIsThere
  <1> QED
    BY <1>12, <1>13, <1>14 DEF DashboardInv

\* The user selects.
LEMMA SelectStep ==
    ASSUME DashboardInv, NEW s \in Selections, Select(s)
    PROVE  DashboardInv'
  <1> USE DEF serverVars, shownVars
  <1>1. TypeOK /\ StartsInv /\ OneSelectionShown /\ SelectedSourceIsThere
    BY DEF DashboardInv
  <1>2. /\ selection' = s /\ changes < MaxChanges /\ changes' = changes + 1
        /\ UNCHANGED <<serverVars, polled, shownVars, health, loading, error, loads>>
        /\ \/ s = [selection EXCEPT !.mode = s.mode]
           \/ s.source \in available
    BY DEF Select
  <1>3. s.source = selection.source \/ s.source \in available
    <2>1. selection \in Selections
      BY <1>1 DEF TypeOK
    <2>2. [selection EXCEPT !.mode = s.mode].source = selection.source
      BY <2>1 DEF Selections
    <2> QED
      BY <1>2, <2>2
  <1>4. changes' \in 0..MaxChanges
    <2>1. changes \in 0..MaxChanges /\ MaxChanges \in Nat
      BY <1>1, DashboardAssumption DEF TypeOK
    <2> QED
      BY <1>2, <2>1
  <1>5. TypeOK'
    BY <1>1, <1>2, <1>4 DEF TypeOK
  <1>6. StartsInv'
    BY <1>1, <1>2 DEF StartsInv, Under
  <1> QED
    BY <1>1, <1>2, <1>3, <1>5, <1>6 DEF DashboardInv, OneSelectionShown, SelectedSourceIsThere

LEMMA StepInv ==
    ASSUME DashboardInv, [Next]_vars
    PROVE  DashboardInv'
  <1>1. CASE UNCHANGED vars
    BY <1>1 DEF vars, serverVars, shownVars, DashboardInv, TypeOK, StartsInv, Under,
            OneSelectionShown, SelectedSourceIsThere
  <1>2. CASE Next
    BY <1>2, ServerStep, BeginStep, LoadProgress, ShowStep, SelectStep DEF Next, LoadStep
  <1> QED
    BY <1>1, <1>2

\* However loads overlap and fail: the invariant of the dashboard.
THEOREM DashboardInvariant == Spec => []DashboardInv
  BY InitInv, StepInv, PTL DEF Spec

\* The types of everything server and page keep.
THEOREM DashboardTypeCorrect == Spec => []TypeOK
  <1>1. DashboardInv => TypeOK
    BY DEF DashboardInv
  <1> QED
    BY <1>1, DashboardInvariant, PTL

\* The summary and the events on the page are of one source, through any
\* loads that overlap, and any starts of the server.  (loadData)
THEOREM OneSelection == Spec => []OneSelectionShown
  <1>1. DashboardInv => OneSelectionShown
    BY DEF DashboardInv
  <1> QED
    BY <1>1, DashboardInvariant, PTL

\* The page never selects a source that the meta it shows does not have,
\* although an answer that is late may replace the meta by an older one.
\* (the effect of App on meta)
THEOREM SelectedIsThere == Spec => []SelectedSourceIsThere
  <1>1. DashboardInv => SelectedSourceIsThere
    BY DEF DashboardInv
  <1> QED
    BY <1>1, DashboardInvariant, PTL
=============================================================================
