--------------------------- MODULE BoardSettings ----------------------------
(***************************************************************************)
(* The slices of the dashboard that keep a copy of something the board     *)
(* owns: how the copy is fetched, saved and shown.  A behaviour is about   *)
(* one slice, chosen in Init; Slices says how each one's thunks, reducers  *)
(* and page differ.                                                        *)
(*                                                                         *)
(* A request and its answer are separate steps: the board reads or writes  *)
(* when it answers, and the reducer runs when the answer lands.  Answers   *)
(* of overlapping requests land in any order.  Some pages show the copy    *)
(* itself, others a form they fill from it.  Values are opaque, except     *)
(* that two of the slices keep whole minutes of a number of seconds.       *)
(***************************************************************************)
EXTENDS Naturals, FiniteSets

CONSTANTS
    Vals,        \* values the board can hold; where "rounds", seconds
    Default,     \* initialState of the copy
    Gets,        \* fetches that may overlap
    MaxChanges,  \* bound on saves and on changes made elsewhere
    MaxFails     \* bound on failed requests

\* Math.round(interval_seconds / 60), in seconds.
Rounded(s) == ((s + 30) \div 60) * 60

ASSUME SettingsAssumption ==
    /\ Vals \subseteq Nat /\ Default \in Vals /\ \A v \in Vals : Rounded(v) \in Vals
    /\ IsFiniteSet(Gets)
    /\ MaxChanges \in Nat /\ MaxFails \in Nat

\* guarded   the fetch thunk returns while its flag is set
\* gated     the page offers no save while the flag of the fetch is set
\* polled    the page or the layout fetches again and again
\* saves     there is a save thunk
\* writes    its success puts the saved value into the copy
\* refetches its success dispatches the fetch
\* shared    fetch and save use one loading flag
\* resets    a failed fetch resets the copy
\* session   the copy is the login: only who is signed out can sign in, and a failed
\*           login resets the copy
\* drafted   the page holds a draft of the value, and is not polled meanwhile
\* local     the save's own flag is state of its dialog or page
\* cached    a fetch within thirty seconds is answered from the copy, and a page that
\*           is left drops the copy
\* kept      redux-persist stores the slice
\* rounds    a fetch stores whole minutes, a save what was entered
\* form      the page shows and saves a form, filled from the copy when the page opens
\* reseeds   the form is filled again whenever the copy changes
Traits == {"guarded", "gated", "polled", "saves", "writes", "refetches",
           "shared", "resets", "session", "drafted", "local", "cached", "kept",
           "rounds", "form", "reseeds"}

-----------------------------------------------------------------------------
(* What the thunks and reducers of each slice do                           *)

\* displayImagesIntervalMins: fetchDisplayImagesLoopInterval and
\* updateDisplayImagesLoopInterval.
IntervalSlice == {"guarded", "saves", "writes", "rounds", "kept"}

\* The night mode: fetchNightMode and updateNightMode.
NightSlice == {"guarded", "saves", "writes", "rounds", "kept"}

\* showSender: not persisted.
CustomizationSlice == {"saves", "writes"}

\* The playback mode: not persisted.
OrderSlice == {"saves", "writes", "refetches"}

\* savedNetworks: addNetwork and forgetNetwork.
NetworkSlice == {"saves", "refetches", "shared", "kept"}

\* The connection mode: connectToSavedNetworks and changeApPassword change it.
ConnectionModeSlice == {"saves", "kept"}

\* slideshowStatus: what a failure resets, the running state and the counts; the photo
\* on show and the time of the last check, which it keeps, are left out.
StatusSlice == {"resets", "kept"}

\* isAuthenticated: login and logout are the saves, Default is signed out.
AuthSlice == {"saves", "writes", "shared", "resets", "session", "kept"}

\* The services, with the restart of one of them.
ServicesSlice == {"saves", "kept"}

FrameInfoSlice == {"kept"}
DisplayStatsSlice == {"kept"}
UpdateStatusSlice == {"kept"}
ReleaseSlice == {"kept"}
HistorySlice == {"kept"}

\* The logs of one choice of filters.
LogsSlice == {"cached", "kept"}

-----------------------------------------------------------------------------
(* What the components that fetch and save add                             *)

\* useState takes the copy of the first render; later copies do not reach the field.
IntervalCard == {"gated", "form"}

\* "Night mode form state, re-seeded whenever the stored values arrive".
NightCard == {"gated", "form", "reseeds"}

\* The switch shows the copy itself.
CustomizationPage == {"gated"}
PhotosPage == {"polled", "drafted"}
NetworkPage == {"gated"}
NetworkDialogs == {"local"}

\* Every ten seconds, on every page.
RouterContext == {"polled"}

Layout == {"polled"}

\* Every five minutes and when the tab gets the focus.
AppShell == {"polled"}

SignIn == {"local"}
ServicesPage == {"polled"}
GeneralPage == {"polled"}
DisplayHealthPage == {"polled"}
UpdatesPage == {"polled"}

\* The latest release, the history and the logs are fetched on a click or on mount.
\* A slice without a flag of its own has one that no page reads.
Slices ==
    {IntervalSlice \cup IntervalCard, NightSlice \cup NightCard,
     CustomizationSlice \cup CustomizationPage, OrderSlice \cup PhotosPage,
     NetworkSlice \cup NetworkPage \cup NetworkDialogs,
     ConnectionModeSlice \cup RouterContext \cup NetworkDialogs,
     StatusSlice \cup Layout, AuthSlice \cup AppShell \cup SignIn,
     ServicesSlice \cup ServicesPage, FrameInfoSlice \cup GeneralPage,
     DisplayStatsSlice \cup DisplayHealthPage, UpdateStatusSlice \cup UpdatesPage,
     ReleaseSlice, HistorySlice, LogsSlice}

ASSUME SlicesAssumption == \A s \in Slices : s \subseteq Traits

VARIABLES
    slice,     \* the traits of the slice of this behaviour
    truth,     \* external: the board's value
    shown,     \* the copy in the store
    fetching,  \* isFetching..., isLoading, loading
    saving,    \* isUpdating...: a save thunk has set it
    get,       \* fetches in flight
    put,       \* the save in flight
    form,      \* the form of the page; edited: typed in since it was filled or saved
    editing,   \* the page of the photos holds a draft of the order
    excused,   \* history: the copy may lag behind, see SettledCopy
    stuck,     \* history: a reload left a flag set that nobody will reset
    changes, fails

flags == <<fetching, saving>>
bounds == <<changes, fails>>
vars == <<slice, truth, shown, flags, get, put, form, editing, excused, stuck, bounds>>

\* draft: the save carries the draft of the order, and closes it when it succeeds.
None == [at |-> "none", val |-> Default, draft |-> FALSE]
Requests == [at : {"none", "sent", "ok", "bad"}, val : Vals, draft : BOOLEAN]
Forms == [val : Vals, edited : BOOLEAN]

TypeOK ==
    /\ slice \in Slices
    /\ truth \in Vals /\ shown \in Vals
    /\ fetching \in BOOLEAN /\ saving \in BOOLEAN
    /\ get \in [Gets -> Requests] /\ put \in Requests
    /\ form \in Forms
    /\ editing \in BOOLEAN /\ excused \in BOOLEAN /\ stuck \in BOOLEAN
    /\ changes \in 0..MaxChanges /\ fails \in 0..MaxFails

Is(t) == t \in slice

\* Only the slices that round tell seconds from minutes.
Values == {v \in Vals : Is("rounds") \/ Rounded(v) = v}

\* What a fetch makes of the board's value.
Fetched(v) == IF Is("rounds") THEN Rounded(v) ELSE v

Quiet == put = None /\ \A g \in Gets : get[g] = None

Init ==
    /\ slice \in Slices
    /\ truth \in Values /\ shown = Default
    /\ fetching = FALSE /\ saving = FALSE
    /\ get = [g \in Gets |-> None] /\ put = None
    /\ form = [val |-> Default, edited |-> FALSE]
    /\ editing = FALSE
    /\ excused = TRUE /\ stuck = FALSE
    /\ changes = 0 /\ fails = 0

-----------------------------------------------------------------------------
(* The form                                                                *)

\* The form of a page that opens.
Opened(v) == IF Is("form") THEN [val |-> v, edited |-> FALSE] ELSE form

\* Mutant of Reseeded: the form is filled once, as the one of the interval is.
SeededOnce == form

\* The form after the copy has changed, and what was typed in it is lost; a copy that
\* stays the same leaves it alone.
Reseeded == IF Is("reseeds") /\ shown' # shown THEN Opened(shown') ELSE form

\* The fields are disabled during a save.
Edit(v) ==
    /\ Is("form") /\ ~saving
    /\ v # form.val
    /\ form' = [val |-> v, edited |-> TRUE]
    /\ UNCHANGED <<slice, truth, shown, flags, get, put, editing, excused, stuck, bounds>>

\* The page is left and opened again; what it fetches comes with the layout only.
Reopen ==
    /\ Is("form")
    /\ form' = Opened(shown)
    /\ UNCHANGED <<slice, truth, shown, flags, get, put, editing, excused, stuck, bounds>>

-----------------------------------------------------------------------------
(* Fetches                                                                 *)

\* Fetches the save p dispatches when it succeeds: the refetch, and the one that
\* starts the polling again when the draft is closed.
Due(p) == IF p = None THEN 0
          ELSE (IF Is("refetches") THEN 1 ELSE 0) + (IF p.draft THEN 1 ELSE 0)

\* The bound on fetches in flight delays other fetches, never the end of a save.
Room(n) == Cardinality({g \in Gets : get[g] = None}) >= n + Due(put')

\* n fetches are dispatched.
Dispatch(n) ==
    /\ \E G \in SUBSET {g \in Gets : get[g] = None} :
         /\ Cardinality(G) = n
         /\ get' = [g \in Gets |-> IF g \in G THEN [None EXCEPT !.at = "sent"] ELSE get[g]]
    /\ Room(n)

\* Mutant of Fetch: nothing is fetched once something has been loaded.
FetchOnce(g) ==
    /\ get[g] = None /\ ~editing
    /\ IF Is("polled") THEN shown = Default ELSE Is("guarded") => ~fetching
    /\ fetching' = TRUE
    /\ get' = [get EXCEPT ![g].at = "sent"]
    /\ excused' = (excused \/ ~Quiet)
    /\ UNCHANGED <<slice, truth, shown, saving, put, form, editing, stuck, bounds>>
    /\ Room(1)

\* The page mounts, its interval fires, or a refresh button is clicked.  Photos are
\* not polled while their order is edited.
Fetch(g) ==
    /\ get[g] = None /\ ~editing
    /\ Is("guarded") => ~fetching
    /\ fetching' = TRUE
    /\ get' = [get EXCEPT ![g].at = "sent"]
    /\ excused' = (excused \/ ~Quiet)
    /\ UNCHANGED <<slice, truth, shown, saving, put, form, editing, stuck, bounds>>
    /\ Room(1)

GetAnswer(g) ==
    /\ get[g].at = "sent"
    /\ get' = [get EXCEPT ![g].at = "ok", ![g].val = truth]
    /\ UNCHANGED <<slice, truth, shown, flags, put, form, editing, excused, stuck, bounds>>

GetFails(g) ==
    /\ get[g].at = "sent" /\ fails < MaxFails
    /\ get' = [get EXCEPT ![g].at = "bad"]
    /\ fails' = fails + 1
    /\ UNCHANGED <<slice, truth, shown, flags, put, form, editing, excused, stuck, changes>>

\* fetchFrameLogs finds its parameters cached: pending and fulfilled follow each other
\* within one turn, and the flag of an earlier fetch goes with them.
CacheHit ==
    /\ Is("cached") /\ shown # Default
    /\ fetching' = FALSE
    /\ UNCHANGED <<slice, truth, shown, saving, get, put, form, editing, excused, stuck, bounds>>

\* The page of a service is left, or its filter changes: clearLogs.  An answer on its
\* way still lands.
ClearLogs ==
    /\ Is("cached")
    /\ shown' = Default
    /\ UNCHANGED <<slice, truth, flags, get, put, form, editing, excused, stuck, bounds>>

\* The fulfilled reducer.  A current answer that nothing overlaps ends every excuse.
GetLands(g) ==
    /\ get[g].at = "ok"
    /\ shown' = Fetched(get[g].val)
    /\ form' = Reseeded
    /\ fetching' = FALSE
    /\ get' = [get EXCEPT ![g] = None]
    /\ excused' = (excused /\ ~(/\ get[g].val = truth /\ put = None
                                /\ \A h \in Gets : get'[h] = None))
    /\ UNCHANGED <<slice, truth, saving, put, editing, stuck, bounds>>

\* Mutant of GetRejected: the flag is not reset.
GetRejectedBusy(g) ==
    /\ get[g].at = "bad"
    /\ shown' = IF Is("resets") THEN Default ELSE shown
    /\ get' = [get EXCEPT ![g] = None]
    /\ UNCHANGED <<slice, truth, flags, put, form, editing, excused, stuck, bounds>>

\* Mutant of GetRejected: a reset is off by one from the initial state.
GetRejectedStored(g) ==
    /\ get[g].at = "bad"
    /\ shown' = IF Is("resets") THEN Default + 1 ELSE shown
    /\ fetching' = FALSE
    /\ get' = [get EXCEPT ![g] = None]
    /\ UNCHANGED <<slice, truth, saving, put, form, editing, excused, stuck, bounds>>

\* The rejected reducer.
GetRejected(g) ==
    /\ get[g].at = "bad"
    /\ shown' = IF Is("resets") THEN Default ELSE shown
    /\ fetching' = FALSE
    /\ get' = [get EXCEPT ![g] = None]
    /\ UNCHANGED <<slice, truth, saving, put, form, editing, excused, stuck, bounds>>

-----------------------------------------------------------------------------
(* Saves                                                                   *)

\* Mutant of SaveOffered: a page does not wait for its fetch.
SaveOfferedAlways == Is("saves") /\ ~saving

\* The buttons: nothing is saved twice at once, and most pages wait for their fetch.
SaveOffered == Is("saves") /\ ~saving /\ (Is("gated") => ~fetching)

Save(v) ==
    /\ SaveOffered /\ put = None /\ changes < MaxChanges
    /\ Is("session") => v = Default \/ shown = Default
    /\ Is("form") => v = form.val
    /\ put' = [at |-> "sent", val |-> v, draft |-> editing]
    /\ saving' = TRUE
    /\ fetching' = (fetching \/ Is("shared"))
    /\ changes' = changes + 1
    /\ UNCHANGED <<slice, truth, shown, get, form, editing, excused, stuck, fails>>

PutAnswer ==
    /\ put.at = "sent"
    /\ truth' = put.val
    /\ put' = [put EXCEPT !.at = "ok"]
    /\ UNCHANGED <<slice, shown, flags, get, form, editing, excused, stuck, bounds>>

\* Refused, or the answer is lost after the board has saved.  A refused logout counts
\* as done: logoutThunk does not look at the answer.
PutFails ==
    /\ put.at = "sent" /\ fails < MaxFails
    /\ truth' \in {truth, put.val}
    /\ \E a \in {"bad"} \cup (IF Is("session") /\ put.val = Default THEN {"ok"} ELSE {}) :
         put' = [put EXCEPT !.at = a]
    /\ fails' = fails + 1
    /\ excused' = (excused \/ truth' # truth)
    /\ UNCHANGED <<slice, shown, flags, get, form, editing, stuck, changes>>

\* The fulfilled reducer; a refetch is dispatched just before it.  The end of the
\* draft starts the polling again with a fetch.
PutLands ==
    /\ put.at = "ok"
    /\ shown' = IF Is("writes") THEN put.val ELSE shown
    /\ form' = [Reseeded EXCEPT !.edited = FALSE]
    /\ put' = None
    /\ Dispatch(Due(put))
    /\ fetching' = IF Is("shared") THEN FALSE ELSE fetching \/ Is("refetches")
    /\ saving' = FALSE
    /\ editing' = (editing /\ ~put.draft)
    /\ UNCHANGED <<slice, truth, excused, stuck, bounds>>

PutRejected ==
    /\ put.at = "bad"
    /\ shown' = IF Is("session") /\ put.val # Default THEN Default ELSE shown
    /\ saving' = FALSE
    /\ fetching' = (fetching /\ ~Is("shared"))
    /\ put' = None
    /\ UNCHANGED <<slice, truth, get, form, editing, excused, stuck, bounds>>

-----------------------------------------------------------------------------
(* The rest of the world                                                   *)

\* "Eigene Reihenfolge" or "Reihenfolge bearbeiten".
OpenDraft ==
    /\ Is("drafted") /\ ~editing
    /\ editing' = TRUE
    /\ UNCHANGED <<slice, truth, shown, flags, get, put, form, excused, stuck, bounds>>

\* The draft is discarded, or the page left and opened again: it fetches at once,
\* and a save of the draft has nothing to close any more.
DropDraft ==
    /\ editing
    /\ editing' = FALSE
    /\ fetching' = TRUE
    /\ put' = [put EXCEPT !.draft = FALSE]
    /\ Dispatch(1)
    /\ UNCHANGED <<slice, truth, shown, saving, form, excused, stuck, bounds>>

\* Another mode is chosen over the draft: the draft goes and the mode is saved.
SaveOverDraft(v) ==
    /\ editing /\ SaveOffered /\ put = None /\ changes < MaxChanges
    /\ editing' = FALSE
    /\ put' = [at |-> "sent", val |-> v, draft |-> FALSE]
    /\ Dispatch(1)
    /\ fetching' = TRUE /\ saving' = TRUE
    /\ changes' = changes + 1
    /\ UNCHANGED <<slice, truth, shown, form, excused, stuck, fails>>

\* The board's value changes without this dashboard.
ChangesElsewhere ==
    /\ changes < MaxChanges
    /\ truth' \in Values \ {truth}
    /\ changes' = changes + 1
    /\ excused' = TRUE
    /\ UNCHANGED <<slice, shown, flags, get, put, form, editing, stuck, fails>>

\* The page is loaded anew and mounts: thunks end, a persisted slice keeps its value
\* and flags, and the fetch is dispatched again.  A save under way may still get
\* through.
Reload ==
    LET runs == ~(Is("guarded") /\ fetching) IN
    /\ changes < MaxChanges
    /\ changes' = changes + 1
    /\ truth' \in IF put.at = "sent" THEN {truth, put.val} ELSE {truth}
    /\ shown' = IF Is("kept") THEN shown ELSE Default
    /\ form' = Opened(shown')
    /\ \E g \in Gets : get' = [h \in Gets |-> IF h = g /\ runs
                                              THEN [None EXCEPT !.at = "sent"] ELSE None]
    /\ put' = None
    /\ fetching' = TRUE
    /\ saving' = (saving /\ Is("kept") /\ ~Is("local"))
    /\ editing' = FALSE
    /\ excused' = (excused \/ put # None \/ ~Is("kept"))
    /\ stuck' = (stuck \/ ~runs \/ saving')
    /\ UNCHANGED <<slice, fails>>

GetStep(g) == GetAnswer(g) \/ GetFails(g) \/ GetLands(g) \/ GetRejected(g)
PutStep == PutAnswer \/ PutFails \/ PutLands \/ PutRejected

Next ==
    \/ \E g \in Gets : Fetch(g) \/ GetStep(g)
    \/ CacheHit \/ ClearLogs
    \/ \E v \in Values : Save(v) \/ SaveOverDraft(v) \/ Edit(v)
    \/ PutStep \/ Reopen \/ OpenDraft \/ DropDraft \/ ChangesElsewhere \/ Reload

Spec == Init /\ [][Next]_vars

\* Requests are answered or aborted and callbacks run; a polled slice is fetched
\* again while its page is open.
FairSpec ==
    /\ Spec
    /\ \A g \in Gets : WF_vars(GetStep(g)) /\ WF_vars(Is("polled") /\ Fetch(g))
    /\ WF_vars(PutStep)

-----------------------------------------------------------------------------
(* Properties                                                              *)

\* Once nothing is in flight the copy is the board's value, to the minute where fetches
\* round: no stale answer has overwritten a saved value, and no failed save is taken
\* for saved.  The copy may lag (excused) before the first fetch, after a change made
\* elsewhere, a lost answer or a reload, and when a fetch was sent while another request
\* was under way, as a page opened again during a save does.  Claimed for the slices
\* whose page waits for the fetch and whose save writes.
SettledCopy ==
    {"gated", "writes"} \subseteq slice /\ Quiet /\ ~excused
        => Fetched(shown) = Fetched(truth)

\* What the user sees.
Page == IF Is("form") THEN form.val ELSE shown

\* The page shows that value too: the form of the night mode, unless the user has typed
\* in it since, follows fetches, failed saves and saves that end after the page was
\* opened again.  Not claimed for the interval, whose field follows no fetch.
SettledPage ==
    /\ {"gated", "writes"} \subseteq slice /\ (Is("form") => Is("reseeds"))
    /\ Quiet /\ ~excused /\ ~form.edited
    => Fetched(Page) = Fetched(truth)

\* Polling repairs every lag, although answers land out of order and one request
\* may fail: the copy ends up at the board's value and stays there.
PollingConverges ==
    <>[](Is("polled") => editing \/ shown = truth)

\* A flag that disables the page's buttons is reset, also after a reload that kept
\* it, unless its thunk refuses to run while the flag is set.
FlagsEnd ==
    /\ fetching ~> ~fetching \/ stuck
    /\ saving ~> ~saving \/ stuck

=============================================================================
