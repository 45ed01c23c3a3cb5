------------------------ MODULE BoardSettings_proofs ------------------------
(***************************************************************************)
(* Theorems about BoardSettings for every set of values, any number of     *)
(* fetches that overlap, of changes and of failures.                       *)
(***************************************************************************)
EXTENDS BoardSettings, FiniteSetTheorems, TLAPS

(* The inductive invariant, in named parts.                                *)

\* Only the page of the photos holds a draft.
DraftsOnPage == "drafted" \notin slice => ~editing /\ ~put.draft

\* The slices SettledCopy is about.
Claimed == {"gated", "writes"} \subseteq slice

\* Nothing overlaps a fetch that is not excused, and its flag is set: the page offers no
\* save while it runs, so the answer it carries is current when it lands.
FetchAlone ==
    \A g \in Gets : get[g] # None =>
        /\ fetching /\ put = None
        /\ \A h \in Gets \ {g} : get[h] = None
        /\ get[g].at = "ok" => get[g].val = truth

\* The copy is the board's value, to the minute where fetches round, except between a
\* save and its reducer.
CopyOrSave == IF put.at = "ok" THEN put.val = truth ELSE Fetched(shown) = Fetched(truth)

\* A form that follows the copy shows it unless the user has typed in it, and what is
\* being saved stays in its fields, which are disabled, or has been replaced by the copy.
FormTracks ==
    Is("reseeds") =>
        /\ ~form.edited => form.val = shown
        /\ put # None => saving /\ form.val \in {put.val, shown}

\* The copy, and the form that is filled from it.
CopyInv ==
    /\ TypeOK /\ DraftsOnPage
    /\ Claimed /\ ~excused => FetchAlone /\ CopyOrSave

IInv == CopyInv /\ FormTracks

-----------------------------------------------------------------------------
(* Lemmas about slices and requests.                                        *)

\* What the slices of the claim have not.
LEMMA ClaimedSlices ==
    ASSUME slice \in Slices, Claimed
    PROVE  {"session", "resets", "shared", "refetches", "drafted", "cached"} \cap slice = {}
BY DEF Claimed, Slices, IntervalSlice, NightSlice, CustomizationSlice, OrderSlice,
       NetworkSlice, ConnectionModeSlice, StatusSlice, AuthSlice, ServicesSlice,
       FrameInfoSlice, DisplayStatsSlice, UpdateStatusSlice, ReleaseSlice, HistorySlice,
       LogsSlice, IntervalCard, NightCard, CustomizationPage, PhotosPage, NetworkPage,
       NetworkDialogs, RouterContext, Layout, AppShell, SignIn, ServicesPage, GeneralPage,
       DisplayHealthPage, UpdatesPage

\* What the slice with a form that follows the copy has, and has not.
LEMMA ReseedingSlices ==
    ASSUME slice \in Slices, Is("reseeds")
    PROVE  /\ {"form", "writes", "kept"} \subseteq slice
           /\ {"session", "resets", "shared", "refetches", "drafted", "cached"} \cap slice = {}
BY DEF Is, Slices, IntervalSlice, NightSlice, CustomizationSlice, OrderSlice,
       NetworkSlice, ConnectionModeSlice, StatusSlice, AuthSlice, ServicesSlice,
       FrameInfoSlice, DisplayStatsSlice, UpdateStatusSlice, ReleaseSlice, HistorySlice,
       LogsSlice, IntervalCard, NightCard, CustomizationPage, PhotosPage, NetworkPage,
       NetworkDialogs, RouterContext, Layout, AppShell, SignIn, ServicesPage, GeneralPage,
       DisplayHealthPage, UpdatesPage

\* Rounding to whole minutes twice is rounding once.
LEMMA RoundedTwice ==
    ASSUME NEW s \in Nat
    PROVE  Rounded(s) \in Nat /\ Rounded(Rounded(s)) = Rounded(s)
<1> DEFINE q == (s + 30) \div 60
<1>1. q \in Nat
  OBVIOUS
<1>2. Rounded(s) = q * 60
  BY DEF Rounded
<1> HIDE DEF q
<1>3. (q * 60 + 30) \div 60 = q
  BY <1>1
<1> QED
  BY <1>1, <1>2, <1>3 DEF Rounded

\* What a fetch stores is a value of the slice, and fetching it again changes nothing.
LEMMA FetchedShape ==
    ASSUME NEW v \in Vals
    PROVE  Fetched(v) \in Vals /\ Fetched(Fetched(v)) = Fetched(v)
<1>1. v \in Nat /\ Rounded(v) \in Vals
  BY SettingsAssumption
<1> QED
  BY <1>1, RoundedTwice DEF Fetched

\* The forms of a page that opens, and of one whose copy changes.
LEMMA FormShape ==
    ASSUME form \in Forms, NEW v \in Vals, shown' \in Vals
    PROVE  /\ Opened(v) \in Forms /\ Reseeded \in Forms
           /\ [Reseeded EXCEPT !.edited = FALSE] \in Forms
           /\ [val |-> v, edited |-> TRUE] \in Forms
BY DEF Forms, Opened, Reseeded

\* No request, and one that has just been sent.
LEMMA NoneShape ==
    /\ None \in Requests /\ None.at = "none" /\ None.draft = FALSE /\ None.val = Default
    /\ [None EXCEPT !.at = "sent"] \in Requests
    /\ [None EXCEPT !.at = "sent"].at = "sent"
BY SettingsAssumption DEF None, Requests

\* The fields of a request.
LEMMA RequestShape ==
    ASSUME NEW q \in Requests
    PROVE  q.at \in {"none", "sent", "ok", "bad"} /\ q.val \in Vals /\ q.draft \in BOOLEAN
BY DEF Requests

\* An answer changes where a request is, and nothing else.
LEMMA RequestAt ==
    ASSUME NEW q \in Requests, NEW a \in {"none", "sent", "ok", "bad"}
    PROVE  LET z == [q EXCEPT !.at = a]
           IN z \in Requests /\ z.at = a /\ z.val = q.val /\ z.draft = q.draft
BY DEF Requests

\* A fetch is answered with the board's value.
LEMMA RequestAnswered ==
    ASSUME NEW q \in Requests, NEW v \in Vals
    PROVE  LET z == [q EXCEPT !.at = "ok", !.val = v]
           IN z \in Requests /\ z.at = "ok" /\ z.val = v
BY DEF Requests

\* The draft of a save is closed.
LEMMA RequestClosed ==
    ASSUME NEW q \in Requests
    PROVE  LET z == [q EXCEPT !.draft = FALSE]
           IN z \in Requests /\ z.at = q.at /\ z.val = q.val /\ z.draft = FALSE
BY DEF Requests

\* Dispatching fetches fills free places only.
LEMMA DispatchShape ==
    ASSUME get \in [Gets -> Requests], NEW n, Dispatch(n)
    PROVE  /\ get' \in [Gets -> Requests]
           /\ \A g \in Gets : get[g] # None => get'[g] = get[g]
           /\ n = 0 => get' = get
<1>1. PICK G \in SUBSET {g \in Gets : get[g] = None} :
         /\ Cardinality(G) = n
         /\ get' = [g \in Gets |-> IF g \in G THEN [None EXCEPT !.at = "sent"] ELSE get[g]]
  BY DEF Dispatch
<1>2. n = 0 => G = {}
  <2>1. IsFiniteSet(G)
    BY FS_Subset, SettingsAssumption
  <2> QED
    BY <1>1, <2>1, FS_EmptySet
<1>3. get' \in [Gets -> Requests]
  BY <1>1, NoneShape
<1>4. \A g \in Gets : get[g] # None => get'[g] = get[g]
  BY <1>1
<1>5. n = 0 => get' = get
  BY <1>1, <1>2
<1> QED
  BY <1>3, <1>4, <1>5

-----------------------------------------------------------------------------
(* Steps.                                                                   *)

\* The steps of a fetch.
LEMMA GetKeeps ==
    ASSUME CopyInv, NEW g \in Gets, Fetch(g) \/ GetStep(g)
    PROVE  CopyInv'
<1> USE DEF flags, bounds
<1>1. /\ get \in [Gets -> Requests] /\ get[g] \in Requests /\ put \in Requests
      /\ truth \in Vals /\ shown \in Vals /\ slice \in Slices
      /\ changes \in 0..MaxChanges /\ fails \in 0..MaxFails
      /\ fetching \in BOOLEAN /\ excused \in BOOLEAN /\ form \in Forms
  BY DEF CopyInv, TypeOK
<1>2. /\ UNCHANGED <<slice, truth, saving, put, editing, stuck, changes>>
      /\ DraftsOnPage'
  BY DEF CopyInv, Fetch, GetStep, GetAnswer, GetFails, GetLands, GetRejected, DraftsOnPage
<1>3. ASSUME NEW z \in Requests, get' = [get EXCEPT ![g] = z], shown' \in Vals,
             form' \in Forms,
             fetching' \in BOOLEAN, excused' \in BOOLEAN, fails' \in 0..MaxFails,
             Claimed /\ ~excused' => FetchAlone' /\ CopyOrSave'
      PROVE  CopyInv'
  <2>1. get' \in [Gets -> Requests]
    BY <1>1, <1>3
  <2>2. TypeOK'
    BY <1>2, <1>3, <2>1 DEF CopyInv, TypeOK
  <2> QED
    BY <1>2, <1>3, <2>2 DEF CopyInv, Claimed
<1>4. CASE Fetch(g)
  <2> DEFINE z == [get[g] EXCEPT !.at = "sent"]
  <2>1. z \in Requests /\ z.at = "sent"
    BY <1>1, RequestAt
  <2>2. /\ get' = [get EXCEPT ![g] = z] /\ shown' = shown /\ fails' = fails
        /\ form' = form
        /\ fetching' = TRUE /\ excused' = (excused \/ ~Quiet)
    BY <1>4 DEF Fetch
  <2> HIDE DEF z
  <2>3. get'[g] = z /\ \A h \in Gets \ {g} : get'[h] = get[h]
    BY <1>1, <2>2
  <2>4. ASSUME Claimed, ~excused' PROVE FetchAlone' /\ CopyOrSave'
    <3>1. ~excused /\ Quiet
      BY <2>2, <2>4
    <3>2. CopyOrSave
      BY <2>4, <3>1 DEF CopyInv
    <3> QED
      BY <1>2, <2>1, <2>2, <2>3, <3>1, <3>2 DEF Quiet, FetchAlone, CopyOrSave, Fetched, Is
  <2>5. excused' \in BOOLEAN
    BY <2>2
  <2> QED
    BY <1>1, <1>3, <2>1, <2>2, <2>4, <2>5
<1>5. CASE GetAnswer(g)
  <2> DEFINE z == [get[g] EXCEPT !.at = "ok", !.val = truth]
  <2>1. z \in Requests /\ z.at = "ok" /\ z.val = truth
    BY <1>1, RequestAnswered
  <2>2. get' = [get EXCEPT ![g] = z] /\ UNCHANGED <<shown, form, fetching, excused, fails>>
    BY <1>5 DEF GetAnswer
  <2>3. get[g] # None
    BY <1>5, NoneShape DEF GetAnswer
  <2> HIDE DEF z
  <2>4. get'[g] = z /\ \A h \in Gets \ {g} : get'[h] = get[h]
    BY <1>1, <2>2
  <2>5. ASSUME Claimed, ~excused' PROVE FetchAlone' /\ CopyOrSave'
    BY <1>2, <2>1, <2>2, <2>3, <2>4, <2>5 DEF CopyInv, FetchAlone, CopyOrSave, Fetched, Is
  <2> QED
    BY <1>1, <1>3, <2>1, <2>2, <2>5
<1>6. CASE GetFails(g)
  <2> DEFINE z == [get[g] EXCEPT !.at = "bad"]
  <2>1. z \in Requests /\ z.at = "bad"
    BY <1>1, RequestAt
  <2>2. get' = [get EXCEPT ![g] = z] /\ UNCHANGED <<shown, form, fetching, excused>>
    BY <1>6 DEF GetFails
  <2>3. get[g] # None
    BY <1>6, NoneShape DEF GetFails
  <2>4. fails' \in 0..MaxFails
    BY <1>1, <1>6, SettingsAssumption DEF GetFails
  <2> HIDE DEF z
  <2>5. get'[g] = z /\ \A h \in Gets \ {g} : get'[h] = get[h]
    BY <1>1, <2>2
  <2>6. ASSUME Claimed, ~excused' PROVE FetchAlone' /\ CopyOrSave'
    BY <1>2, <2>1, <2>2, <2>3, <2>5, <2>6 DEF CopyInv, FetchAlone, CopyOrSave, Fetched, Is
  <2> QED
    BY <1>1, <1>3, <2>1, <2>2, <2>4, <2>6
<1>7. CASE GetLands(g)
  <2>1. /\ get' = [get EXCEPT ![g] = None] /\ shown' = Fetched(get[g].val)
        /\ form' = Reseeded /\ fetching' = FALSE /\ fails' = fails
        /\ excused' = (excused /\ ~(/\ get[g].val = truth /\ put = None
                                    /\ \A h \in Gets : get'[h] = None))
    BY <1>7 DEF GetLands, bounds
  <2>2. get[g].at = "ok" /\ get[g] # None
    BY <1>7, NoneShape DEF GetLands
  <2>3. get'[g] = None /\ \A h \in Gets \ {g} : get'[h] = get[h]
    BY <1>1, <2>1
  <2>4. ASSUME Claimed, ~excused' PROVE FetchAlone' /\ CopyOrSave'
    <3>1. /\ get[g].val = truth /\ put = None /\ \A h \in Gets : get'[h] = None
      BY <2>1, <2>2, <2>3, <2>4 DEF CopyInv, FetchAlone
    <3>2. Fetched(shown') = Fetched(truth)
      BY <1>1, <2>1, <3>1, FetchedShape
    <3>3. Fetched(shown)' = Fetched(truth)'
      BY <1>2, <3>2 DEF Fetched, Is
    <3> QED
      BY <1>2, <2>1, <3>1, <3>3, NoneShape DEF FetchAlone, CopyOrSave
  <2>5. get[g].val \in Vals /\ excused' \in BOOLEAN
    BY <1>1, <2>1, RequestShape
  <2>6. shown' \in Vals
    BY <2>1, <2>5, FetchedShape
  <2>7. form' \in Forms
    BY <1>1, <2>1, <2>6, FormShape
  <2> QED
    BY <1>1, <1>3, <2>1, <2>4, <2>5, <2>6, <2>7, NoneShape
<1>8. CASE GetRejected(g)
  <2>1. /\ get' = [get EXCEPT ![g] = None] /\ fetching' = FALSE
        /\ shown' = IF Is("resets") THEN Default ELSE shown
        /\ UNCHANGED <<form, excused, fails>>
    BY <1>8 DEF GetRejected
  <2>2. get[g] # None
    BY <1>8, NoneShape DEF GetRejected
  <2>3. get'[g] = None /\ \A h \in Gets \ {g} : get'[h] = get[h]
    BY <1>1, <2>1
  <2>4. ASSUME Claimed, ~excused' PROVE FetchAlone' /\ CopyOrSave'
    <3>1. shown' = shown
      BY <1>1, <2>1, <2>4, ClaimedSlices DEF Is
    <3> QED
      BY <1>2, <2>1, <2>2, <2>3, <2>4, <3>1 DEF CopyInv, FetchAlone, CopyOrSave, Fetched, Is
  <2>5. shown' \in Vals
    BY <1>1, <2>1, SettingsAssumption
  <2> QED
    BY <1>1, <1>3, <2>1, <2>4, <2>5, NoneShape
<1> QED
  BY <1>4, <1>5, <1>6, <1>7, <1>8 DEF GetStep

\* A save starts only while no fetch is under way.
LEMMA SaveKeeps ==
    ASSUME CopyInv, NEW v \in Vals, Save(v)
    PROVE  CopyInv'
<1> DEFINE z == [at |-> "sent", val |-> v, draft |-> editing]
<1>1. /\ put' = z /\ put = None /\ saving' = TRUE /\ fetching' = (fetching \/ Is("shared"))
      /\ changes' = changes + 1 /\ changes < MaxChanges
      /\ UNCHANGED <<slice, truth, shown, get, form, editing, excused, stuck, fails>>
      /\ Is("gated") => ~fetching
  BY DEF Save, SaveOffered
<1>2. z \in Requests /\ z.at = "sent" /\ z.draft = editing
  BY DEF CopyInv, TypeOK, Requests
<1> HIDE DEF z
<1>3. TypeOK'
  <2>1. changes' \in 0..MaxChanges
    BY <1>1, SettingsAssumption DEF CopyInv, TypeOK
  <2>2. fetching' \in BOOLEAN
    BY <1>1 DEF CopyInv, TypeOK
  <2> QED
    BY <1>1, <1>2, <2>1, <2>2 DEF CopyInv, TypeOK
<1>4. DraftsOnPage'
  BY <1>1, <1>2 DEF CopyInv, DraftsOnPage
<1>5. ASSUME Claimed', ~excused' PROVE FetchAlone' /\ CopyOrSave'
  <2>1. ~fetching /\ FetchAlone /\ CopyOrSave
    BY <1>1, <1>5 DEF CopyInv, Claimed, Is
  <2>2. \A g \in Gets : get[g] = None
    BY <2>1 DEF FetchAlone
  <2> QED
    BY <1>1, <1>2, <2>1, <2>2, NoneShape DEF FetchAlone, CopyOrSave, Fetched, Is
<1> QED
  BY <1>3, <1>4, <1>5 DEF CopyInv

\* The steps of a save: no fetch is under way beside it unless the copy is excused.
LEMMA PutKeeps ==
    ASSUME CopyInv, PutStep
    PROVE  CopyInv'
<1> USE DEF flags, bounds
<1>1. /\ put \in Requests /\ get \in [Gets -> Requests] /\ slice \in Slices
      /\ truth \in Vals /\ shown \in Vals /\ put.val \in Vals
      /\ changes \in 0..MaxChanges /\ fails \in 0..MaxFails
      /\ fetching \in BOOLEAN /\ saving \in BOOLEAN /\ editing \in BOOLEAN
      /\ excused \in BOOLEAN /\ stuck \in BOOLEAN /\ form \in Forms
  BY RequestShape DEF CopyInv, TypeOK
<1>2. put.at # "none" /\ put # None /\ UNCHANGED <<slice, stuck, changes>>
  BY NoneShape DEF PutStep, PutAnswer, PutFails, PutLands, PutRejected
<1>3. Claimed /\ ~excused =>
         /\ CopyOrSave /\ \A g \in Gets : get[g] = None
         /\ {"session", "resets", "shared", "refetches", "drafted"} \cap slice = {}
         /\ "writes" \in slice /\ ~editing /\ ~put.draft
  BY <1>1, <1>2, ClaimedSlices DEF CopyInv, FetchAlone, Claimed, DraftsOnPage
<1>4. CASE PutAnswer
  <2> DEFINE z == [put EXCEPT !.at = "ok"]
  <2>1. z \in Requests /\ z.at = "ok" /\ z.val = put.val /\ z.draft = put.draft
    BY <1>1, RequestAt
  <2>2. /\ truth' = put.val /\ put' = z
        /\ UNCHANGED <<shown, fetching, saving, get, form, editing, excused, fails>>
    BY <1>4 DEF PutAnswer
  <2> HIDE DEF z
  <2>3. TypeOK'
    BY <1>1, <1>2, <2>1, <2>2 DEF TypeOK
  <2>4. DraftsOnPage'
    BY <1>2, <2>1, <2>2 DEF CopyInv, DraftsOnPage
  <2>5. Claimed' /\ ~excused' => FetchAlone' /\ CopyOrSave'
    BY <1>2, <1>3, <2>1, <2>2 DEF Claimed, FetchAlone, CopyOrSave, Fetched, Is
  <2> QED
    BY <2>3, <2>4, <2>5 DEF CopyInv
<1>5. CASE PutFails
  <2>1. PICK a \in {"bad"} \cup (IF Is("session") /\ put.val = Default THEN {"ok"} ELSE {}) :
           put' = [put EXCEPT !.at = a]
    BY <1>5 DEF PutFails
  <2> DEFINE z == [put EXCEPT !.at = a]
  <2>2. z \in Requests /\ z.at = a /\ z.val = put.val /\ z.draft = put.draft
    <3>1. a \in {"none", "sent", "ok", "bad"}
      OBVIOUS
    <3> QED
      BY <1>1, <3>1, RequestAt
  <2>3. /\ put' = z /\ truth' \in {truth, put.val} /\ excused' = (excused \/ truth' # truth)
        /\ put.at = "sent"
        /\ UNCHANGED <<shown, fetching, saving, get, form, editing>>
    BY <1>5, <2>1 DEF PutFails
  <2>4. fails' \in 0..MaxFails
    BY <1>1, <1>5, SettingsAssumption DEF PutFails
  <2> HIDE DEF z
  <2>5. TypeOK'
    BY <1>1, <1>2, <2>2, <2>3, <2>4 DEF TypeOK
  <2>6. DraftsOnPage'
    BY <1>2, <2>2, <2>3 DEF CopyInv, DraftsOnPage
  <2>7. ASSUME Claimed', ~excused' PROVE FetchAlone' /\ CopyOrSave'
    <3>1. Claimed /\ ~excused /\ truth' = truth
      BY <1>2, <2>3, <2>7 DEF Claimed
    <3>2. a = "bad"
      BY <1>3, <3>1 DEF Is
    <3> QED
      BY <1>2, <1>3, <2>2, <2>3, <3>1, <3>2 DEF FetchAlone, CopyOrSave, Fetched, Is
  <2> QED
    BY <2>5, <2>6, <2>7 DEF CopyInv
<1>6. CASE PutLands
  <2>1. /\ put.at = "ok" /\ put' = None /\ Dispatch(Due(put))
        /\ shown' = IF Is("writes") THEN put.val ELSE shown
        /\ fetching' = IF Is("shared") THEN FALSE ELSE fetching \/ Is("refetches")
        /\ saving' = FALSE /\ editing' = (editing /\ ~put.draft)
        /\ form' = [Reseeded EXCEPT !.edited = FALSE]
        /\ UNCHANGED <<truth, excused, fails>>
    BY <1>6 DEF PutLands
  <2>2. /\ get' \in [Gets -> Requests]
        /\ Due(put) = 0 => get' = get
    BY <1>1, <2>1, DispatchShape
  <2>3. shown' \in Vals /\ fetching' \in BOOLEAN /\ editing' \in BOOLEAN
    BY <1>1, <2>1
  <2>7. form' \in Forms
    BY <1>1, <2>1, <2>3, FormShape
  <2>4. TypeOK'
    BY <1>1, <1>2, <2>1, <2>2, <2>3, <2>7, NoneShape DEF TypeOK
  <2>5. DraftsOnPage'
    BY <1>2, <2>1, NoneShape DEF CopyInv, DraftsOnPage
  <2>6. ASSUME Claimed', ~excused' PROVE FetchAlone' /\ CopyOrSave'
    <3>1. Claimed /\ ~excused
      BY <1>2, <2>1, <2>6 DEF Claimed
    <3>2. Due(put) = 0
      BY <1>3, <3>1 DEF Due, Is
    <3>3. shown' = put.val /\ put.val = truth
      BY <1>3, <2>1, <3>1 DEF Is, CopyOrSave
    <3> QED
      BY <1>2, <1>3, <2>1, <2>2, <3>1, <3>2, <3>3, NoneShape
         DEF FetchAlone, CopyOrSave, Fetched, Is
  <2> QED
    BY <2>4, <2>5, <2>6 DEF CopyInv
<1>7. CASE PutRejected
  <2>1. /\ put.at = "bad" /\ put' = None
        /\ shown' = IF Is("session") /\ put.val # Default THEN Default ELSE shown
        /\ saving' = FALSE /\ fetching' = (fetching /\ ~Is("shared"))
        /\ UNCHANGED <<truth, get, form, editing, excused, fails>>
    BY <1>7 DEF PutRejected
  <2>2. shown' \in Vals /\ fetching' \in BOOLEAN
    BY <1>1, <2>1, SettingsAssumption
  <2>3. TypeOK'
    BY <1>1, <1>2, <2>1, <2>2, NoneShape DEF TypeOK
  <2>4. DraftsOnPage'
    BY <1>2, <2>1, NoneShape DEF CopyInv, DraftsOnPage
  <2>5. ASSUME Claimed', ~excused' PROVE FetchAlone' /\ CopyOrSave'
    <3>1. Claimed /\ ~excused
      BY <1>2, <2>1, <2>5 DEF Claimed
    <3>2. shown' = shown
      BY <1>3, <2>1, <3>1 DEF Is
    <3> QED
      BY <1>2, <1>3, <2>1, <3>1, <3>2, NoneShape DEF FetchAlone, CopyOrSave, Fetched, Is
  <2> QED
    BY <2>3, <2>4, <2>5 DEF CopyInv
<1> QED
  BY <1>4, <1>5, <1>6, <1>7 DEF PutStep

\* The draft of the order and the cache of the logs: slices outside the claim.
LEMMA DraftKeeps ==
    ASSUME CopyInv,
           \/ CacheHit \/ ClearLogs \/ OpenDraft \/ DropDraft
           \/ \E v \in Vals : SaveOverDraft(v)
    PROVE  CopyInv'
<1> USE DEF flags, bounds
<1>1. TypeOK /\ DraftsOnPage
  BY DEF CopyInv
<1>2. slice \in Slices /\ get \in [Gets -> Requests] /\ put \in Requests
  BY <1>1 DEF TypeOK
<1>3. ~Claimed
  BY <1>1, <1>2, ClaimedSlices
     DEF CacheHit, ClearLogs, OpenDraft, DropDraft, SaveOverDraft, Is, DraftsOnPage
<1>4. slice' = slice
  BY DEF CacheHit, ClearLogs, OpenDraft, DropDraft, SaveOverDraft
<1>5. TypeOK' /\ DraftsOnPage'
  <2>1. CASE CacheHit \/ ClearLogs \/ OpenDraft
    <3>1. CASE CacheHit
      BY <1>1, <3>1 DEF CacheHit, TypeOK, DraftsOnPage
    <3>2. CASE ClearLogs
      BY <1>1, <3>2, SettingsAssumption DEF ClearLogs, TypeOK, DraftsOnPage
    <3>3. CASE OpenDraft
      BY <1>1, <3>3 DEF OpenDraft, Is, TypeOK, DraftsOnPage
    <3> QED
      BY <2>1, <3>1, <3>2, <3>3
  <2>2. CASE DropDraft
    <3>1. put' \in Requests /\ put'.draft = FALSE
      BY <1>2, <2>2, RequestClosed DEF DropDraft
    <3>2. get' \in [Gets -> Requests]
      BY <1>2, <2>2, DispatchShape DEF DropDraft
    <3> QED
      BY <1>1, <2>2, <3>1, <3>2 DEF DropDraft, TypeOK, DraftsOnPage
  <2>3. ASSUME NEW v \in Vals, SaveOverDraft(v) PROVE TypeOK' /\ DraftsOnPage'
    <3>1. put' \in Requests /\ put'.draft = FALSE
      BY <2>3 DEF SaveOverDraft, Requests
    <3>2. get' \in [Gets -> Requests]
      BY <1>2, <2>3, DispatchShape DEF SaveOverDraft
    <3>3. changes' \in 0..MaxChanges
      BY <1>1, <2>3, SettingsAssumption DEF SaveOverDraft, TypeOK
    <3> QED
      BY <1>1, <2>3, <3>1, <3>2, <3>3 DEF SaveOverDraft, TypeOK, DraftsOnPage
  <2> QED
    BY <2>1, <2>2, <2>3
<1> QED
  BY <1>3, <1>4, <1>5 DEF CopyInv, Claimed

\* The form has no part in the copy.
LEMMA FormKeeps ==
    ASSUME CopyInv, Reopen \/ \E v \in Vals : Edit(v)
    PROVE  CopyInv'
<1>1. form' \in Forms
  <2>1. form \in Forms /\ shown \in Vals
    BY DEF CopyInv, TypeOK
  <2>2. CASE Reopen
    BY <2>1, <2>2 DEF Reopen, Opened, Forms
  <2>3. ASSUME NEW v \in Vals, Edit(v) PROVE form' \in Forms
    BY <2>3 DEF Edit, Forms
  <2> QED
    BY <2>2, <2>3
<1>2. UNCHANGED <<slice, truth, shown, fetching, saving, get, put, editing, excused, stuck,
                  changes, fails>>
  BY DEF Reopen, Edit, flags, bounds
<1> QED
  BY <1>1, <1>2 DEF CopyInv, TypeOK, DraftsOnPage, Claimed, FetchAlone, CopyOrSave, Fetched, Is

\* A change made elsewhere excuses the copy.
LEMMA ElsewhereKeeps ==
    ASSUME CopyInv, ChangesElsewhere
    PROVE  CopyInv'
<1>1. changes' \in 0..MaxChanges
  BY SettingsAssumption DEF CopyInv, TypeOK, ChangesElsewhere
<1> QED
  BY <1>1 DEF CopyInv, TypeOK, DraftsOnPage, ChangesElsewhere, Values, flags

\* A reload excuses the copy unless it was persisted and no save was under way.
LEMMA ReloadKeeps ==
    ASSUME CopyInv, Reload
    PROVE  CopyInv'
<1> DEFINE runs == ~(Is("guarded") /\ fetching)
<1>1. PICK g \in Gets : get' = [h \in Gets |-> IF h = g /\ runs
                                               THEN [None EXCEPT !.at = "sent"] ELSE None]
  BY DEF Reload
<1>2. /\ put' = None /\ fetching' = TRUE /\ editing' = FALSE
      /\ truth' \in IF put.at = "sent" THEN {truth, put.val} ELSE {truth}
      /\ shown' = IF Is("kept") THEN shown ELSE Default
      /\ excused' = (excused \/ put # None \/ ~Is("kept"))
      /\ slice' = slice /\ fails' = fails
  BY DEF Reload
<1>3. get' \in [Gets -> Requests]
  BY <1>1, NoneShape
<1>4. /\ \A h \in Gets \ {g} : get'[h] = None
      /\ get'[g].at \in {"none", "sent"}
  BY <1>1, NoneShape
<1>5. TypeOK'
  <2>1. put \in Requests /\ put.val \in Vals
    BY RequestShape DEF CopyInv, TypeOK
  <2>2. changes' \in 0..MaxChanges
    BY SettingsAssumption DEF CopyInv, TypeOK, Reload
  <2>3. truth' \in Vals /\ shown' \in Vals
    BY <1>2, <2>1, SettingsAssumption DEF CopyInv, TypeOK
  <2>4. excused' \in BOOLEAN /\ saving' \in BOOLEAN /\ stuck' \in BOOLEAN
    BY DEF CopyInv, TypeOK, Reload
  <2>5. form' \in Forms
    BY <2>3, FormShape DEF CopyInv, TypeOK, Reload, Opened, Forms
  <2> QED
    BY <1>2, <1>3, <2>2, <2>3, <2>4, <2>5, NoneShape DEF CopyInv, TypeOK
<1>6. DraftsOnPage'
  BY <1>2, NoneShape DEF DraftsOnPage
<1>7. ASSUME Claimed', ~excused' PROVE FetchAlone' /\ CopyOrSave'
  <2>1. Claimed /\ ~excused /\ put = None /\ Is("kept")
    BY <1>2, <1>7 DEF Claimed
  <2>2. truth' = truth /\ shown' = shown /\ Fetched(shown) = Fetched(truth)
    BY <1>2, <2>1, NoneShape DEF CopyInv, CopyOrSave
  <2> QED
    BY <1>2, <1>4, <2>2, NoneShape DEF FetchAlone, CopyOrSave, Fetched, Is
<1> QED
  BY <1>5, <1>6, <1>7 DEF CopyInv

-----------------------------------------------------------------------------
(* The theorems.                                                            *)

\* Before the first fetch the copy is excused, and the form shows it.
LEMMA InitInv == Init => IInv
<1> SUFFICES ASSUME Init PROVE IInv
  OBVIOUS
<1>1. 0 \in 0..MaxChanges /\ 0 \in 0..MaxFails
  BY SettingsAssumption
<1>2. TypeOK
  <2>1. truth \in Vals /\ form \in Forms
    BY SettingsAssumption DEF Init, Values, Forms
  <2> QED
    BY <1>1, <2>1, SettingsAssumption, NoneShape DEF Init, TypeOK
<1> QED
  BY <1>2, NoneShape DEF Init, IInv, CopyInv, DraftsOnPage, FormTracks

\* Every step of the page, its requests and the board.
LEMMA NextKeeps == CopyInv /\ [Next]_vars => CopyInv'
<1> SUFFICES ASSUME CopyInv, [Next]_vars PROVE CopyInv'
  OBVIOUS
<1>1. CASE UNCHANGED vars
  BY <1>1 DEF vars, flags, bounds, CopyInv, TypeOK, DraftsOnPage, Claimed, FetchAlone,
              CopyOrSave, Fetched, Is
<1>2. Values \subseteq Vals
  BY DEF Values
<1> QED
  BY <1>1, <1>2, GetKeeps, SaveKeeps, PutKeeps, DraftKeeps, FormKeeps, ElsewhereKeeps,
     ReloadKeeps DEF Next

\* A form that follows the copy keeps showing it, in every step.
LEMMA FormFollows == IInv /\ [Next]_vars => FormTracks'
<1> SUFFICES ASSUME IInv, [Next]_vars, Is("reseeds")' PROVE FormTracks'
  BY DEF FormTracks
<1> USE DEF flags, bounds
<1>1. /\ slice' = slice /\ Is("reseeds")
      /\ slice \in Slices /\ form \in Forms /\ put \in Requests /\ shown \in Vals
  <2>1. slice' = slice
    BY DEF Next, vars, Fetch, GetStep, GetAnswer, GetFails, GetLands, GetRejected, CacheHit,
           ClearLogs, Save, SaveOverDraft, Edit, PutStep, PutAnswer, PutFails, PutLands,
           PutRejected, Reopen, OpenDraft, DropDraft, ChangesElsewhere, Reload
  <2> QED
    BY <2>1 DEF IInv, CopyInv, TypeOK, Is
<1>2. /\ Is("form") /\ Is("writes")
      /\ ~Is("resets") /\ ~Is("session") /\ ~Is("drafted") /\ ~Is("cached")
      /\ ~editing
  BY <1>1, ReseedingSlices DEF Is, IInv, CopyInv, DraftsOnPage
<1>3. /\ ~form.edited => form.val = shown
      /\ put # None => saving /\ form.val \in {put.val, shown}
  BY <1>1 DEF IInv, FormTracks
<1>4. ASSUME shown' \in Vals, shown' # shown
      PROVE  Reseeded.val = shown' /\ Reseeded.edited = FALSE
  BY <1>1, <1>2, <1>4 DEF Reseeded, Opened
<1>5. ASSUME shown' = shown PROVE Reseeded = form
  BY <1>5 DEF Reseeded
<1>6. CASE UNCHANGED <<shown, form, put, saving>>
  BY <1>3, <1>6 DEF FormTracks
<1>7. ASSUME NEW g \in Gets, GetLands(g) PROVE FormTracks'
  <2>1. form' = Reseeded /\ UNCHANGED <<put, saving>> /\ shown' \in Vals
    BY <1>7, RequestShape, FetchedShape DEF GetLands, IInv, CopyInv, TypeOK
  <2> QED
    BY <1>3, <1>4, <1>5, <2>1 DEF FormTracks
<1>8. ASSUME NEW v \in Vals, Save(v) PROVE FormTracks'
  <2>1. put'.val = v /\ v = form.val /\ saving' = TRUE /\ UNCHANGED <<form, shown>>
    BY <1>2, <1>8 DEF Save
  <2> QED
    BY <1>3, <2>1 DEF FormTracks
<1>9. ASSUME NEW v \in Vals, Edit(v) PROVE FormTracks'
  BY <1>3, <1>9 DEF Edit, FormTracks
<1>10. CASE PutAnswer
  <2>1. put' = [put EXCEPT !.at = "ok"] /\ put # None /\ UNCHANGED <<form, shown, saving>>
    BY <1>10, NoneShape DEF PutAnswer
  <2> QED
    BY <1>1, <1>3, <2>1, RequestAt DEF FormTracks
<1>11. CASE PutFails
  <2>1. put' = [put EXCEPT !.at = "bad"] /\ put # None /\ UNCHANGED <<form, shown, saving>>
    BY <1>2, <1>11, NoneShape DEF PutFails
  <2> QED
    BY <1>1, <1>3, <2>1, RequestAt DEF FormTracks
<1>12. CASE PutLands
  <2>1. /\ put # None /\ put' = None /\ shown' = put.val /\ put.val \in Vals
        /\ form' = [Reseeded EXCEPT !.edited = FALSE]
    BY <1>1, <1>2, <1>12, NoneShape, RequestShape DEF PutLands
  <2>2. Reseeded \in Forms
    BY <1>1, <2>1, FormShape
  <2>3. form'.val = Reseeded.val
    BY <2>1, <2>2 DEF Forms
  <2>4. Reseeded.val = shown'
    BY <1>3, <1>4, <1>5, <2>1
  <2> QED
    BY <2>1, <2>3, <2>4 DEF FormTracks
<1>13. CASE PutRejected
  <2>1. put' = None /\ UNCHANGED <<form, shown>>
    BY <1>2, <1>13 DEF PutRejected
  <2> QED
    BY <1>3, <2>1 DEF FormTracks
<1>14. CASE Reopen
  BY <1>2, <1>3, <1>14 DEF Reopen, Opened, FormTracks
<1>15. CASE Reload
  <2>1. put' = None /\ form'.val = shown'
    BY <1>2, <1>15 DEF Reload, Opened
  <2> QED
    BY <2>1 DEF FormTracks
<1>16. CASE \E g \in Gets : Fetch(g) \/ GetAnswer(g) \/ GetFails(g) \/ GetRejected(g)
  BY <1>2, <1>6, <1>16 DEF Fetch, GetAnswer, GetFails, GetRejected
<1>17. CASE \/ CacheHit \/ ClearLogs \/ OpenDraft \/ DropDraft \/ ChangesElsewhere
            \/ \E v \in Vals : SaveOverDraft(v)
  BY <1>2, <1>6, <1>17
     DEF CacheHit, ClearLogs, OpenDraft, DropDraft, ChangesElsewhere, SaveOverDraft
<1>18. CASE UNCHANGED vars
  BY <1>6, <1>18 DEF vars
<1>19. Values \subseteq Vals
  BY DEF Values
<1> QED
  BY <1>7, <1>8, <1>9, <1>10, <1>11, <1>12, <1>13, <1>14, <1>15, <1>16, <1>17, <1>18, <1>19
     DEF Next, GetStep, PutStep

\* The inductive invariant holds throughout.
LEMMA Inductive == Spec => []IInv
<1>1. IInv /\ [Next]_vars => IInv'
  BY NextKeeps, FormFollows DEF IInv
<1> QED
  BY <1>1, InitInv, PTL DEF Spec

\* Copies, flags, forms and requests stay well typed in every slice.
THEOREM TypeCorrect == Spec => []TypeOK
<1>1. IInv => TypeOK
  BY DEF IInv, CopyInv
<1> QED
  BY <1>1, Inductive, PTL

\* Once nothing is in flight the store of a page that waits for its fetch and whose save
\* writes holds the board's value, in whatever order requests were answered, saved and
\* failed, unless the copy is excused.
THEOREM CopyHoldsBoard == Spec => []SettledCopy
<1>1. IInv => SettledCopy
  BY NoneShape DEF IInv, CopyInv, SettledCopy, Claimed, Quiet, CopyOrSave
<1> QED
  BY <1>1, Inductive, PTL

\* The page shows it too, in the switch of the customization and in the form of the night
\* mode, however edits, saves, fetches and new openings of the page are interleaved.
THEOREM PageShowsBoard == Spec => []SettledPage
<1>1. IInv => SettledPage
  <2> SUFFICES ASSUME IInv, {"gated", "writes"} \subseteq slice, Is("form") => Is("reseeds"),
                      Quiet, ~excused, ~form.edited
               PROVE  Fetched(Page) = Fetched(truth)
    BY DEF SettledPage
  <2>1. Fetched(shown) = Fetched(truth)
    BY NoneShape DEF IInv, CopyInv, Claimed, Quiet, CopyOrSave
  <2>2. Page = shown
    BY DEF IInv, FormTracks, Page
  <2> QED
    BY <2>1, <2>2
<1> QED
  BY <1>1, Inductive, PTL
=============================================================================
