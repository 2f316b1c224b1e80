------------------------------ MODULE Dashboard ------------------------------
(***************************************************************************)
(* The dashboard: a server that reads the files of metrics when it starts  *)
(* and answers from memory, and a page that asks it every two seconds and  *)
(* whenever the selection changes.  Nothing ends a request that is under   *)
(* way, so several loads of the page overlap, and their fetches are        *)
(* answered or fail each on its own; the server may stop and start at any  *)
(* time, for other files or files that grew.                               *)
(*                                                                         *)
(* What the server has is named by the start that read it, and of an       *)
(* answer only that and what was asked for is kept.  The source stands for *)
(* the filters of the page too, which are part of a selection in the same  *)
(* way.                                                                    *)
(***************************************************************************)
EXTENDS Integers, Sequences

CONSTANTS
    Configs,        \* the sources each start of the server is configured with
    Slots,          \* bound: loads under way
    MaxChanges      \* bound: changes of the selection by the user

Sources == {"bloom", "surf", "default"}

ASSUME DashboardAssumption ==
    /\ Configs \in Seq({{"bloom"}, {"surf"}, {"bloom", "surf"}, {"default"}})
    /\ Slots # {} /\ MaxChanges \in Nat

MaxStarts == Len(Configs)   \* bound: starts of the server

VARIABLES
    up,             \* the server runs
    starts,         \* how often it was started; it has what this start read
    changes,
    selection,      \* mode and selectedSource
    polled,         \* the selection the interval loads
    available,      \* meta.available_sources
    summary, events,    \* what is shown
    health, loading, error,
    loads           \* the calls of loadData under way

serverVars == <<up, starts>>
shownVars == <<available, summary, events>>
vars == <<serverVars, changes, selection, polled, shownVars, health, loading, error,
          loads>>

NoData == -1        \* the default of a fetch that failed
Waiting == -2       \* a fetch that is not settled
Versions == {NoData, Waiting} \cup 1..MaxStarts

Selections == [mode : {"single", "compare"}, source : Sources]
Shown == [source : Sources \cup {"all"}, version : Versions \ {Waiting}]

\* What loadData asks for with this selection.
SourceOf(s) == IF s.mode = "single" THEN s.source ELSE "all"

\* A call of loadData: the selection it was made for and its fetches.
Loads == [place : {"health", "data"}, selection : Selections,
          meta : Versions, summary : Versions, events : Versions]
NoLoad == [place |-> "none"]

TypeOK ==
    /\ up \in BOOLEAN /\ starts \in 0..MaxStarts
    /\ changes \in 0..MaxChanges
    /\ selection \in Selections /\ polled \in Selections
    /\ available \in {{}} \cup {Configs[i] : i \in 1..MaxStarts}
    /\ summary \in Shown /\ events \in Shown
    /\ health \in BOOLEAN /\ loading \in BOOLEAN /\ error \in BOOLEAN
    /\ loads \in [Slots -> Loads \cup {NoLoad}]

NewLoad(s) == [place |-> "health", selection |-> s, meta |-> Waiting,
               summary |-> Waiting, events |-> Waiting]

FirstSelection == [mode |-> "compare", source |-> "bloom"]

\* The page was opened; the server may not have been started yet.
Init ==
    /\ up = FALSE /\ starts = 0
    /\ changes = 0
    /\ selection = FirstSelection /\ polled = FirstSelection
    /\ available = {}
    /\ summary = [source |-> "all", version |-> NoData]
    /\ events = [source |-> "all", version |-> NoData]
    /\ health = FALSE /\ loading = TRUE /\ error = FALSE
    /\ loads = [l \in Slots |-> IF l = CHOOSE m \in Slots : TRUE
                                THEN NewLoad(FirstSelection) ELSE NoLoad]

-----------------------------------------------------------------------------
(* The server.                                                             *)

\* start and loadMetrics: the files are read, and not read again.
StartServer ==
    /\ ~up /\ starts < MaxStarts
    /\ up' = TRUE /\ starts' = starts + 1
    /\ UNCHANGED <<changes, selection, polled, shownVars, health, loading,
                   error, loads>>

\* It is not stopped for good, that shows nothing but defaults.
StopServer ==
    /\ up /\ starts < MaxStarts
    /\ up' = FALSE
    /\ UNCHANGED <<starts, changes, selection, polled, shownVars, health,
                   loading, error, loads>>

-----------------------------------------------------------------------------
(* Calls of loadData.                                                      *)

Under(l) == loads[l] # NoLoad
End(l) == loads' = [loads EXCEPT ![l] = NoLoad]

\* Any free place will do: the first loads of the two are as good.
Free(l) == l = CHOOSE m \in Slots : ~Under(m)

\* A variant: an error stays until data comes.
BeginQuietly(l, s) ==
    /\ ~Under(l) /\ Free(l)
    /\ loads' = [loads EXCEPT ![l] = NewLoad(s)]
    /\ UNCHANGED error

\* The beginning of loadData.
Begin(l, s) ==
    /\ ~Under(l) /\ Free(l)
    /\ loads' = [loads EXCEPT ![l] = NewLoad(s)]
    /\ error' = FALSE

\* A variant: the first interval goes on.
PollAsAtFirst(l) ==
    /\ polled = selection
    /\ Begin(l, FirstSelection)
    /\ UNCHANGED <<serverVars, changes, selection, polled, shownVars, health, loading>>

\* The interval of the last effect fires.  It might between a change and its
\* effect, which is no different from just before the change.
Poll(l) ==
    /\ polled = selection
    /\ Begin(l, polled)
    /\ UNCHANGED <<serverVars, changes, selection, polled, shownVars, health, loading>>

\* The effect of a new selection: a load at once, and a new interval.
Restart(l) ==
    /\ polled # selection
    /\ Begin(l, selection)
    /\ polled' = selection
    /\ UNCHANGED <<serverVars, changes, selection, shownVars, health, loading>>

HealthOk(l) ==
    /\ loads[l].place = "health"
    /\ up
    /\ health' = TRUE
    /\ loads' = [loads EXCEPT ![l].place = "data"]
    /\ UNCHANGED <<serverVars, changes, selection, polled, shownVars, loading, error>>

\* A fetch fails when the server is down, and loadData gives up.
GiveUp(l) ==
    /\ ~up
    /\ error' = TRUE /\ loading' = FALSE
    /\ End(l)
    /\ UNCHANGED <<serverVars, changes, selection, polled, shownVars, health>>

HealthFails(l) == loads[l].place = "health" /\ GiveUp(l)

\* fetchMeta and fetchSummary return the promise of the body: when it is cut
\* short, Promise.all fails.
BodyFails(l) ==
    /\ loads[l].place = "data"
    /\ loads[l].meta = Waiting \/ loads[l].summary = Waiting
    /\ GiveUp(l)

\* Each fetch has its answer, or else its default.
MetaSettles(l) ==
    /\ loads[l].place = "data" /\ loads[l].meta = Waiting
    /\ loads' = [loads EXCEPT ![l].meta = IF up THEN starts ELSE NoData]
    /\ UNCHANGED <<serverVars, changes, selection, polled, shownVars, health, loading, error>>

\* A variant: the summary is shown when it arrives.
SummarySettlesAtOnce(l) ==
    /\ loads[l].place = "data" /\ loads[l].summary = Waiting
    /\ up /\ loads' = [loads EXCEPT ![l].summary = starts]
    /\ summary' = [source |-> SourceOf(loads[l].selection), version |-> starts]
    /\ UNCHANGED <<serverVars, changes, selection, polled, available, events, health,
                   loading, error>>

SummarySettles(l) ==
    /\ loads[l].place = "data" /\ loads[l].summary = Waiting
    /\ loads' = [loads EXCEPT ![l].summary = IF up THEN starts ELSE NoData]
    /\ UNCHANGED <<serverVars, changes, selection, polled, shownVars, health, loading, error>>

EventsSettle(l) ==
    /\ loads[l].place = "data" /\ loads[l].events = Waiting
    /\ loads' = [loads EXCEPT ![l].events = IF up THEN starts ELSE NoData]
    /\ UNCHANGED <<serverVars, changes, selection, polled, shownVars, health, loading, error>>

\* A variant: only the first meta is looked at.
AdjustAtFirst(sources) ==
    selection' = IF available = {} /\ loading /\ sources # {} /\ selection.source \notin sources
                 THEN [selection EXCEPT !.source = CHOOSE s \in sources : TRUE]
                 ELSE selection

\* The effect of a new meta: the selected source has to be one of it.  The
\* first of "bloom" and "surf" is "bloom".
AdjustSource(sources) ==
    selection' = IF sources # {} /\ selection.source \notin sources
                 THEN [selection EXCEPT !.source =
                         IF "bloom" \in sources THEN "bloom" ELSE CHOOSE s \in sources : TRUE]
                 ELSE selection

\* A variant: the events are not waited for.
ShowBeforeEvents(l) ==
    LET load == loads[l]
        shown(version) == [source |-> SourceOf(load.selection), version |-> version]
        sources == IF load.meta = NoData THEN {} ELSE Configs[load.meta]
    IN  /\ load.place = "data" /\ load.meta # Waiting
        /\ load.summary # Waiting
        /\ available' = sources
        /\ AdjustSource(sources)
        /\ summary' = shown(load.summary)
        /\ events' = shown(load.events)
        /\ loading' = FALSE
        /\ End(l)
        /\ UNCHANGED <<serverVars, changes, polled, health, error>>

\* All three are there: the page shows them, for whatever selection.
Show(l) ==
    LET load == loads[l]
        shown(version) == [source |-> SourceOf(load.selection), version |-> version]
        sources == IF load.meta = NoData THEN {} ELSE Configs[load.meta]
    IN  /\ load.place = "data" /\ load.meta # Waiting
        /\ load.summary # Waiting /\ load.events # Waiting
        /\ available' = sources
        /\ AdjustSource(sources)
        /\ summary' = shown(load.summary)
        /\ events' = shown(load.events)
        /\ loading' = FALSE
        /\ End(l)
        /\ UNCHANGED <<serverVars, changes, polled, health, error>>

-----------------------------------------------------------------------------
(* The user, and the next-state relation.                                  *)

\* Another mode or, in single mode, another of the sources that are there; the
\* page has no controls before the server was healthy.
Select(s) ==
    /\ health
    /\ changes < MaxChanges /\ changes' = changes + 1
    /\ \/ s = [selection EXCEPT !.mode = s.mode]
       \/ s = [selection EXCEPT !.source = s.source]
          /\ selection.mode = "single" /\ s.source \in available
    /\ s # selection
    /\ selection' = s
    /\ UNCHANGED <<serverVars, polled, shownVars, health, loading, error, loads>>

LoadStep(l) ==
    \/ HealthOk(l) \/ HealthFails(l) \/ BodyFails(l)
    \/ MetaSettles(l) \/ SummarySettles(l) \/ EventsSettle(l)
    \/ Show(l)

Next ==
    \/ StartServer \/ StopServer
    \/ \E l \in Slots : Poll(l) \/ Restart(l) \/ LoadStep(l)
    \/ \E s \in Selections : Select(s)

Spec == Init /\ [][Next]_vars

\* Requests are answered or fail, effects run and the interval fires.  The
\* user need not do anything, nor the server be started.
FairSpec ==
    /\ Spec
    /\ \A l \in Slots : WF_vars(LoadStep(l))
    /\ WF_vars(\E l \in Slots : Restart(l))
    /\ WF_vars(\E l \in Slots : Poll(l))

-----------------------------------------------------------------------------
(* Properties.                                                             *)

\* The summary and the events on the page are of one source, although loads
\* for other selections are answered in between.  (loadData)
OneSelectionShown == summary.source = events.source

\* If the server stays up, the page comes to show what the server has for
\* the selection of the user, and no load of an older selection or of an
\* older run of the server changes that any more.  (the effects of App,
\* loadData)
SelectionIsShown ==
    <>[]up => <>[](/\ events.source = SourceOf(selection)
                   /\ events.version = starts /\ summary.version = starts)

\* If the server stays up, the page comes to select a source that exists,
\* whatever the answers it had before.  (the effect on meta)
SourceBecomesAvailable ==
    <>[]up => <>[](starts > 0 /\ selection.source \in Configs[starts])

\* If the server stays up, errors go away and stay away.  (loadData)
ErrorsGoAway == <>[]up => <>[](health /\ ~loading /\ ~error)
=============================================================================
