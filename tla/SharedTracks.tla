---------------------------- MODULE SharedTracks ----------------------------
(***************************************************************************)
(* The tracks of a session: the files in Storage, guestPlayerList in the   *)
(* session document, the copy of it every app caches, and the rows of the  *)
(* Merge tab (MergeSessionVC).                                             *)
(*                                                                         *)
(* An upload adds its entry to the list with an array union; a deletion    *)
(* writes the whole list, as its device had it cached when the row was     *)
(* swiped, after Storage deleted the file.  A row is removed by the index  *)
(* it had at the swipe.                                                    *)
(*                                                                         *)
(* An entry is a track, which stands for the path of its file, and the     *)
(* number of the upload, which stands for the URL: every upload gives the  *)
(* file a new one.  Rows that confirmTracks puts into the tab have a local *)
(* file for a URL, number 0.                                               *)
(*                                                                         *)
(* Abstracted: selectedTracks, the players, a write still queued on the    *)
(* device (it is written, and its callback runs, in one step), writes the  *)
(* server refuses.  An app that died is not started again.                 *)
(*                                                                         *)
(* A definition named Wrong_... is a mistake one could make in the code of *)
(* the definition after it; the specification does not use it.             *)
(***************************************************************************)
EXTENDS Naturals, Sequences, FiniteSets, SequencesExt

CONSTANTS
    Users, Tracks,
    Owner,      \* Owner[t]: who recorded t
    Habits,     \* assumptions on the users, a subset of AllHabits
    MaxUploads  \* bound: uploads of each track

(***************************************************************************)
(* "patient": a user waits for the end of his own requests;                *)
(* "fresh":   a user swipes listed rows only, with the newest list cached; *)
(* "turns":   nobody writes the list while somebody deletes;               *)
(* "once":    a user does not confirm a track that is listed.              *)
(***************************************************************************)
AllHabits == {"patient", "fresh", "turns", "once"}

ASSUME OwnerAssumption == Owner \in [Tracks -> Users]
ASSUME HabitsAssumption == Habits \subseteq AllHabits
ASSUME BoundAssumption == MaxUploads \in Nat
ASSUME TracksAssumption == IsFiniteSet(Tracks)

VARIABLES
    list,       \* guestPlayerList of the document
    files,      \* files[t]: the upload whose file is in Storage, 0 if none
    uploaded,   \* uploaded[t]: how often t was put into Storage
    uploads,    \* uploads[t]: the request the upload of t waits for
    url,        \* url[t]: what the upload of t got for a URL
    deletions,  \* the deletions under way
    cache,      \* cache[u]: guestPlayerList of the current Session of u
    audioTracks,\* audioTracks[u]: the data source of the table
    table,      \* table[u]: how many rows the table has
    fetching,   \* fetching[u]: refreshes waiting for the document
    spinner,    \* spinner[u]: the one that refresh starts
    tab,
    alive

netVars == <<files, uploaded, uploads, url>>
rowVars == <<audioTracks, table, fetching, spinner, tab>>
vars == <<list, netVars, deletions, cache, rowVars, alive>>

Numbers == 0 .. MaxUploads
Entries == [track : Tracks, upload : Numbers]
Entry(t, n) == [track |-> t, upload |-> n]

Deletions ==
    [user : Users, row : Nat \ {0}, entry : Entries, list : Seq(Entries),
     phase : {"file", "list"}]

Listed(t) == \E e \in ToSet(list) : e.track = t
Own(u) == {t \in Tracks : Owner[t] = u}
DeletionsOf(u) == {d \in deletions : d.user = u}

Waiting(u) ==
    \/ fetching[u] > 0
    \/ DeletionsOf(u) # {}
    \/ \E t \in Own(u) : uploads[t] # "idle"

\* The user may touch the app.
MayTouch(u) ==
    /\ alive[u]
    /\ "patient" \in Habits => ~Waiting(u)

Init ==
    /\ list = <<>>
    /\ files = [t \in Tracks |-> 0]
    /\ uploaded = [t \in Tracks |-> 0]
    /\ uploads = [t \in Tracks |-> "idle"]
    /\ url = [t \in Tracks |-> 0]
    /\ deletions = {}
    /\ cache = [u \in Users |-> <<>>]
    /\ audioTracks = [u \in Users |-> <<>>]
    /\ table = [u \in Users |-> 0]
    /\ fetching = [u \in Users |-> 0]
    /\ spinner = [u \in Users |-> FALSE]
    /\ tab = [u \in Users |-> "merge"]
    /\ alive = [u \in Users |-> TRUE]

-----------------------------------------------------------------------------
(* Uploading.                                                              *)

\* The user goes to the Library and confirms the tracks S.
confirmTracks(u, S) ==
    /\ MayTouch(u)
    /\ S # {} /\ S \subseteq Own(u)
    /\ \A t \in S : uploads[t] = "idle" /\ uploaded[t] < MaxUploads
    /\ "once" \in Habits => \A t \in S : ~Listed(t)
    /\ "turns" \in Habits => deletions = {}
    /\ audioTracks' = [audioTracks EXCEPT ![u] = SetToSeq({Entry(t, 0) : t \in S})]
    /\ uploads' = [t \in Tracks |-> IF t \in S THEN "put" ELSE uploads[t]]
    /\ tab' = [tab EXCEPT ![u] = "library"]
    /\ UNCHANGED <<list, files, uploaded, url, deletions, cache, table, fetching, spinner, alive>>

\* The Merge tab appears again, by a tap or at the end of the uploads.
viewWillAppear(u) ==
    /\ alive[u] /\ tab[u] = "library"
    /\ tab' = [tab EXCEPT ![u] = "merge"]
    /\ table' = [table EXCEPT ![u] = Len(audioTracks[u])]
    /\ UNCHANGED <<list, netVars, deletions, cache, audioTracks, fetching, spinner, alive>>

Wrong_PutDone(t) ==
    /\ uploads[t] # "idle"
    /\ uploaded' = [uploaded EXCEPT ![t] = @ + 1]
    /\ files' = [files EXCEPT ![t] = uploaded'[t]]
    /\ uploads' = [uploads EXCEPT ![t] = "url"]
    /\ UNCHANGED <<list, url, deletions, cache, rowVars, alive>>

PutDone(t) ==
    /\ uploads[t] = "put"
    /\ uploaded' = [uploaded EXCEPT ![t] = @ + 1]
    /\ files' = [files EXCEPT ![t] = uploaded'[t]]
    /\ uploads' = [uploads EXCEPT ![t] = "url"]
    /\ UNCHANGED <<list, url, deletions, cache, rowVars, alive>>

UrlDone(t) ==
    /\ uploads[t] = "url" /\ files[t] # 0
    /\ url' = [url EXCEPT ![t] = files[t]]
    /\ uploads' = [uploads EXCEPT ![t] = "write"]
    /\ UNCHANGED <<list, files, uploaded, deletions, cache, rowVars, alive>>

\* A request fails; there is no URL of a file that was deleted.
UploadFails(t) ==
    /\ uploads[t] \in {"put", "url"}
    /\ uploads' = [uploads EXCEPT ![t] = "idle"]
    /\ UNCHANGED <<list, files, uploaded, url, deletions, cache, rowVars, alive>>

ArrayUnion(s, e) == IF Contains(s, e) THEN s ELSE Append(s, e)

EntryWritten(t) ==
    /\ uploads[t] = "write"
    /\ list' = ArrayUnion(list, Entry(t, url[t]))
    /\ uploads' = [uploads EXCEPT ![t] = "idle"]
    /\ UNCHANGED <<files, uploaded, url, deletions, cache, rowVars, alive>>
-----------------------------------------------------------------------------
(* Refreshing.                                                             *)

\* The data source is emptied at once, the table is not reloaded.
refresh(u) ==
    /\ MayTouch(u) /\ tab[u] = "merge"
    /\ fetching[u] < 2
    /\ audioTracks' = [audioTracks EXCEPT ![u] = <<>>]
    /\ fetching' = [fetching EXCEPT ![u] = @ + 1]
    /\ spinner' = [spinner EXCEPT ![u] = TRUE]
    /\ UNCHANGED <<list, netVars, deletions, cache, table, tab, alive>>

Wrong_Complete(rows) == Len(rows) + 1 = Len(list)

\* Whether the data source has as many rows as the list after one of the
\* additions to it, or there is nothing to add.
Complete(rows) == Len(rows) < Len(list) \/ list = <<>>

\* A new Session object replaces the cached one.
Cached(u) == list

\* The document arrives; its tracks are added to whatever rows there are.
Fetched(u) ==
    /\ alive[u] /\ fetching[u] > 0
    /\ fetching' = [fetching EXCEPT ![u] = @ - 1]
    /\ cache' = [cache EXCEPT ![u] = Cached(u)]
    /\ audioTracks' = [audioTracks EXCEPT ![u] = @ \o list]
    /\ \/ /\ Complete(audioTracks[u])
          /\ table' = [table EXCEPT ![u] = Len(audioTracks'[u])]
          /\ spinner' = [spinner EXCEPT ![u] = FALSE]
       \/ ~Complete(audioTracks[u]) /\ UNCHANGED <<table, spinner>>
    /\ UNCHANGED <<list, netVars, deletions, tab, alive>>

FetchFails(u) ==
    /\ alive[u] /\ fetching[u] > 0
    /\ fetching' = [fetching EXCEPT ![u] = @ - 1]
    /\ spinner' = [spinner EXCEPT ![u] = FALSE]
    /\ UNCHANGED <<list, netVars, deletions, cache, audioTracks, table, tab, alive>>

\* A snapshot with a new click track: the Studio's listener, or that of the
\* click track's tab, caches the list that comes with it.
ClickTrackChanges(u) ==
    /\ alive[u] /\ cache[u] # list
    /\ cache' = [cache EXCEPT ![u] = list]
    /\ UNCHANGED <<list, netVars, deletions, rowVars, alive>>

-----------------------------------------------------------------------------
(* Deleting.                                                               *)

\* The app dies, and its requests with it.
Dies(u) ==
    /\ alive' = [alive EXCEPT ![u] = FALSE]
    /\ deletions' = deletions \ DeletionsOf(u)
    /\ uploads' = [t \in Tracks |-> IF t \in Own(u) THEN "idle" ELSE uploads[t]]

\* A sequence without the elements equal to e.
Without(s, e) ==
    LET kept == {i \in DOMAIN s : s[i] # e} IN
    [k \in 1 .. Cardinality(kept) |->
       s[CHOOSE i \in kept : Cardinality({j \in kept : j <= i}) = k]]

Wrong_LeftAll(u, e) == cache[u]

Wrong_LeftNone(u, e) == <<>>

\* removeObject on a copy of the cached list; the entry made from a row with
\* a local file equals none.
Left(u, e) == Without(cache[u], e)

\* A swipe on row i: objectAtIndex raises for a row the data source lacks.
deleteRow(u, i) ==
    /\ MayTouch(u) /\ tab[u] = "merge"
    /\ i <= table[u]
    /\ Cardinality(deletions) < 2
    /\ "fresh" \in Habits =>
         cache[u] = list /\ i \in DOMAIN audioTracks[u] /\ audioTracks[u][i] \in ToSet(list)
    /\ "turns" \in Habits =>
         deletions = {} /\ \A t \in Tracks : uploads[t] = "idle"
    /\ IF i \notin DOMAIN audioTracks[u]
       THEN Dies(u) /\ UNCHANGED cache
       ELSE LET e == audioTracks[u][i] IN
            /\ cache' = [cache EXCEPT ![u] = Left(u, e)]
            /\ deletions' = deletions \union
                 {[user |-> u, row |-> i, entry |-> e, list |-> Left(u, e), phase |-> "file"]}
            /\ UNCHANGED <<uploads, alive>>
    /\ UNCHANGED <<list, files, uploaded, url, rowVars>>

\* Storage deletes the file, or knows none (or the request fails): then the
\* list keeps its entry, and the row stays.
FileDeleted(d) ==
    /\ d \in deletions /\ d.phase = "file"
    /\ \/ /\ files[d.entry.track] # 0
          /\ files' = [files EXCEPT ![d.entry.track] = 0]
          /\ deletions' = (deletions \ {d}) \union {[d EXCEPT !.phase = "list"]}
       \/ deletions' = deletions \ {d} /\ UNCHANGED files
    /\ UNCHANGED <<list, uploaded, uploads, url, cache, rowVars, alive>>

Wrong_RowRemoved(d) ==
    /\ deletions' = deletions \ {d}
    /\ table' = [table EXCEPT ![d.user] = Len(audioTracks[d.user])]
    /\ UNCHANGED <<audioTracks, alive, uploads>>

\* removeObjectAtIndex raises if the row is gone, and the table if it has not
\* as many rows as the data source had.
RowRemoved(d) ==
    LET rows == audioTracks[d.user] IN
    \/ /\ d.row \in DOMAIN rows /\ table[d.user] = Len(rows)
       /\ deletions' = deletions \ {d}
       /\ audioTracks' = [audioTracks EXCEPT ![d.user] = RemoveAt(rows, d.row)]
       /\ table' = [table EXCEPT ![d.user] = Len(rows) - 1]
       /\ UNCHANGED <<alive, uploads>>
    \/ /\ ~(d.row \in DOMAIN rows /\ table[d.user] = Len(rows))
       /\ Dies(d.user)
       /\ UNCHANGED <<audioTracks, table>>

\* The list is overwritten, and the completion block called.
ListWritten(d) ==
    /\ d \in deletions /\ d.phase = "list"
    /\ list' = d.list
    /\ RowRemoved(d)
    /\ UNCHANGED <<files, uploaded, url, cache, fetching, spinner, tab>>

Next ==
    \/ \E u \in Users :
         \/ \E S \in SUBSET Tracks : confirmTracks(u, S)
         \/ viewWillAppear(u) \/ refresh(u) \/ Fetched(u) \/ FetchFails(u)
         \/ ClickTrackChanges(u)
         \/ \E i \in 1 .. table[u] : deleteRow(u, i)
    \/ \E t \in Tracks : PutDone(t) \/ UrlDone(t) \/ UploadFails(t) \/ EntryWritten(t)
    \/ \E d \in deletions : FileDeleted(d) \/ ListWritten(d)

Spec == Init /\ [][Next]_vars

\* Requests are answered or fail; users owe nothing.
FairSpec ==
    /\ Spec
    /\ \A u \in Users : WF_vars(Fetched(u) \/ FetchFails(u))

-----------------------------------------------------------------------------

\* Type correctness.
TypeOK ==
    /\ list \in Seq(Entries)
    /\ files \in [Tracks -> Numbers]
    /\ uploaded \in [Tracks -> Numbers]
    /\ uploads \in [Tracks -> {"idle", "put", "url", "write"}]
    /\ url \in [Tracks -> Numbers]
    /\ deletions \subseteq Deletions
    /\ cache \in [Users -> Seq(Entries)]
    /\ audioTracks \in [Users -> Seq(Entries)]
    /\ table \in [Users -> Nat]
    /\ fetching \in [Users -> 0 .. 2]
    /\ spinner \in [Users -> BOOLEAN]
    /\ tab \in [Users -> {"library", "merge"}]
    /\ alive \in [Users -> BOOLEAN]

\* "remove the track" (MergeSessionVC.m 504): the only entry a deletion takes
\* off the list is that of its track; uploads, once listed, stay until they
\* are deleted.
OthersStayListed ==
    [][\A e \in ToSet(list) \ ToSet(list') :
         \E d \in deletions \ deletions' : d.entry = e]_vars

\* A listed track can be played: its file is in Storage, except while it is
\* being deleted.  And no list, in the document, cached or about to be written,
\* has an entry twice, however stale the copies that overwrite it: a list loses
\* entries by value, every occurrence, but the rows go by index, one at a time.
ListedHaveFiles ==
    /\ \A e \in ToSet(list) :
         files[e.track] # 0 \/ \E d \in deletions : d.entry = e
    /\ IsInjective(list)
    /\ \A u \in Users : IsInjective(cache[u])
    /\ \A d \in deletions : IsInjective(d.list)

\* "remove the deleted object from your data source" (MergeSessionVC.m 498):
\* the row that goes is the one that was swiped, though it goes by its index
\* and off the list by its value; no other row shows the track any more, and
\* the app survives it.
SwipedRowGoes ==
    [][\A d \in deletions \ deletions' :
         d.phase = "list" =>
           /\ alive'[d.user]
           /\ audioTracks[d.user][d.row] = d.entry
           /\ d.entry \notin ToSet(list') \union ToSet(audioTracks'[d.user])]_vars

\* A refresh ends with its spinner stopped, if the app survives.
RefreshEnds == \A u \in Users : spinner[u] ~> (~spinner[u] \/ ~alive[u])
=============================================================================
