------------------------------- MODULE Upload -------------------------------
(***************************************************************************)
(* The Library tab (AudioLibraryViewController) of one device: the rows a  *)
(* user selects, the confirm button that uploads them, and uploadCount, by *)
(* which the completion block of the last upload is to stop the spinner    *)
(* and move on to the Merge tab.                                           *)
(*                                                                         *)
(* A row comes with the Save button of the Studio's alert, which names a   *)
(* take and has it cropped (Audio cropAudioWithStartTime) to a file of     *)
(* that name; audioURL is the take's own file until the crop has ended.    *)
(* Nothing keeps the user from using a name twice: two recordings of one   *)
(* name share the cropped file, and the file in Storage.                   *)
(*                                                                         *)
(* An upload (Audio uploadAudioSound) is a chain of three requests: put    *)
(* the file, get its URL, add it to the session's guestPlayerList.  Its    *)
(* completion block is called after the third, whatever became of that,    *)
(* and never after a failure of the first two.  The block has no identity: *)
(* it counts.                                                              *)
(*                                                                         *)
(* Abstracted: what is cut off, the players of the cells, the rows the     *)
(* confirm button puts into the Merge tab; the order in which              *)
(* selectedRecordings, an array that may hold a track twice, was filled; a *)
(* put reads its file when it is answered.                                 *)
(*                                                                         *)
(* A definition named Wrong_... is a mistake one could make in the code of *)
(* the definition after it; the specification does not use it.             *)
(***************************************************************************)
EXTENDS Naturals, FiniteSets

CONSTANTS
    Tracks,     \* the takes of the device, recordings once they are saved
    Names,      \* what users call them
    Faults,     \* what may go wrong, a subset of AllFaults
    Patient,    \* assume that a user leaves the Library alone while uploads
                \* are under way
    MaxTaps,    \* bound: taps of the confirm button
    MaxSelected \* bound: the size of selectedRecordings

AllFaults == {"request", "refusal", "crop"}

None == "none"

ASSUME FaultsAssumption == Faults \subseteq AllFaults
ASSUME PatientAssumption == Patient \in BOOLEAN
ASSUME BoundsAssumption == MaxTaps \in Nat /\ MaxSelected \in Nat
ASSUME NoneAssumption == None \notin Tracks \union Names

VARIABLES
    audioRecordings,    \* the rows of the table
    selectedRecordings, \* what confirmTracks uploads: <<t, i>> if t is there
                        \* for the i-th time
    shown,              \* the rows that are highlighted
    uploadCount,
    uploads,            \* those under way, each at the request it waits for
    storage,            \* storage[n]: the take in the Storage file of name n
    uploaded,           \* tracks whose entry the session document got
    spinner,            \* whether the activity indicator is on the screen
    tab,                \* the tab on the screen, "library" or another
    taps,
    audioName,          \* audioName[t] of a take that was saved
    files,              \* files[n]: the take in the cropped file of name n
    crop                \* crop[t]: "no", "running", "done" (audioURL is the
                        \* cropped file) or "failed"

rowVars == <<audioRecordings, selectedRecordings, shown>>
netVars == <<uploads, storage, uploaded>>
fileVars == <<audioName, files, crop>>
vars == <<rowVars, uploadCount, netVars, spinner, tab, taps, fileVars>>

\* The file that is put is the take's or the cropped one.
Puts == {"take", "cropped"}
Requests == Puts \union {"url", "write"}

Rows == Tracks \X (1 .. MaxSelected)

\* An upload of a row, begun by a tap.
Uploads == [tap : 1 .. MaxTaps, row : Rows, request : Requests]

UnderWay == uploads # {}

Init ==
    /\ audioRecordings = {}
    /\ selectedRecordings = {}
    /\ shown = {}
    /\ uploadCount = 0
    /\ uploads = {}
    /\ storage = [n \in Names |-> None]
    /\ uploaded = {}
    /\ spinner = FALSE
    /\ tab = "studio"
    /\ taps = 0
    /\ audioName = [t \in Tracks |-> None]
    /\ files = [n \in Names |-> None]
    /\ crop = [t \in Tracks |-> "no"]

\* The user may touch the Library.
MayTouch ==
    /\ tab = "library"
    /\ Patient => ~UnderWay

-----------------------------------------------------------------------------
(* The recordings.                                                         *)

\* Save: updateLocalRecordingsWith.  The crop first removes the file that it
\* will write, unless there is no export session for the take.
Save(t, n) ==
    /\ tab # "library"
    /\ audioName[t] = None
    /\ audioName' = [audioName EXCEPT ![t] = n]
    /\ audioRecordings' = audioRecordings \union {t}
    /\ \/ /\ crop' = [crop EXCEPT ![t] = "running"]
          /\ files' = [files EXCEPT ![n] = None]
       \/ /\ "crop" \in Faults
          /\ crop' = [crop EXCEPT ![t] = "failed"]
          /\ UNCHANGED files
    /\ UNCHANGED <<selectedRecordings, shown, uploadCount, netVars, spinner, tab, taps>>

\* The name of the file a crop of t writes.
Wrong_outputName(t) == CHOOSE n \in Names : TRUE

outputName(t) == audioName[t]

CropEnds(t) ==
    /\ crop[t] = "running"
    /\ files' = [files EXCEPT ![outputName(t)] = t]
    /\ crop' = [crop EXCEPT ![t] = "done"]
    /\ UNCHANGED <<rowVars, uploadCount, netVars, spinner, tab, taps, audioName>>

\* Also because there is a file of that name again.
CropFails(t) ==
    /\ crop[t] = "running"
    /\ "crop" \in Faults \/ files[outputName(t)] # None
    /\ crop' = [crop EXCEPT ![t] = "failed"]
    /\ UNCHANGED <<rowVars, uploadCount, netVars, spinner, tab, taps, audioName, files>>

-----------------------------------------------------------------------------
(* The table.                                                              *)

\* The rows of t that are selected: none but those that were selected before
\* the highlights were cleared.
Copies(t) == {s \in selectedRecordings : s[1] = t}

\* A row that is selected twice is uploaded twice.
didSelectRow(t) ==
    /\ MayTouch
    /\ t \in audioRecordings \ shown
    /\ Cardinality(selectedRecordings) < MaxSelected
    /\ selectedRecordings' = selectedRecordings \union {<<t, Cardinality(Copies(t)) + 1>>}
    /\ shown' = shown \union {t}
    /\ UNCHANGED <<audioRecordings, uploadCount, netVars, spinner, tab, taps, fileVars>>

\* removeObject takes out every occurrence.
didDeselectRow(t) ==
    /\ MayTouch
    /\ t \in shown
    /\ selectedRecordings' = selectedRecordings \ Copies(t)
    /\ shown' = shown \ {t}
    /\ UNCHANGED <<audioRecordings, uploadCount, netVars, spinner, tab, taps, fileVars>>

\* A swipe; reloadData clears the highlights, not selectedRecordings.
deleteRow(t) ==
    /\ MayTouch
    /\ t \in audioRecordings
    /\ audioRecordings' = audioRecordings \ {t}
    /\ selectedRecordings' = selectedRecordings \ Copies(t)
    /\ shown' = {}
    /\ UNCHANGED <<uploadCount, netVars, spinner, tab, taps, fileVars>>

\* The refresh button: reloadData.
refresh ==
    /\ MayTouch
    /\ shown' = {}
    /\ UNCHANGED <<audioRecordings, selectedRecordings, uploadCount, netVars, spinner, tab,
                   taps, fileVars>>

\* The user goes to another tab.
leaveLibrary ==
    /\ MayTouch
    /\ tab' = "studio"
    /\ UNCHANGED <<rowVars, uploadCount, netVars, spinner, taps, fileVars>>

\* The Library tab appears again: reloadData.
viewWillAppear ==
    /\ tab # "library"
    /\ tab' = "library"
    /\ shown' = {}
    /\ UNCHANGED <<audioRecordings, selectedRecordings, uploadCount, netVars, spinner, taps,
                   fileVars>>

-----------------------------------------------------------------------------
(* Uploading.                                                              *)

\* The file a put of t sends, as audioURL is now.
Source(t) == IF crop[t] = "done" THEN "cropped" ELSE "take"

\* The uploads that a tap begins, of all selected rows at once.
Begun(k) == {[tap |-> k, row |-> s, request |-> Source(s[1])] : s \in selectedRecordings}

Wrong_confirmTracks ==
    /\ MayTouch
    /\ taps < MaxTaps
    /\ taps' = taps + 1
    /\ spinner' = TRUE
    /\ uploads' = uploads \union Begun(taps + 1)
    /\ UNCHANGED <<rowVars, uploadCount, storage, uploaded, tab, fileVars>>

confirmTracks ==
    /\ MayTouch
    /\ taps < MaxTaps
    /\ taps' = taps + 1
    /\ spinner' = TRUE
    /\ uploadCount' = 0
    /\ uploads' = uploads \union Begun(taps + 1)
    /\ UNCHANGED <<rowVars, storage, uploaded, tab, fileVars>>

Track(u) == u.row[1]
Name(u) == audioName[Track(u)]

\* What the file that u puts holds.
Stored(u) == IF u.request = "take" THEN Track(u) ELSE files[Name(u)]

\* Upload u goes on to request q.
Step(u, q) == uploads' = (uploads \ {u}) \union {[u EXCEPT !.request = q]}

\* The file is put at the path of its name, if it is there.
FileIsPut(u) ==
    /\ u.request \in Puts
    /\ Stored(u) # None
    /\ storage' = [storage EXCEPT ![Name(u)] = Stored(u)]
    /\ Step(u, "url")
    /\ UNCHANGED <<rowVars, uploadCount, uploaded, spinner, tab, taps, fileVars>>

UrlIsKnown(u) ==
    /\ u.request = "url"
    /\ Step(u, "write")
    /\ UNCHANGED <<rowVars, uploadCount, storage, uploaded, spinner, tab, taps, fileVars>>

\* A request fails: the block is never called.
RequestFails(u) ==
    /\ u.request # "write"
    /\ \/ "request" \in Faults
       \/ u.request \in Puts /\ Stored(u) = None
    /\ uploads' = uploads \ {u}
    /\ UNCHANGED <<rowVars, uploadCount, storage, uploaded, spinner, tab, taps, fileVars>>

Wrong_completionBlock ==
    IF uploadCount > Cardinality(selectedRecordings)
    THEN uploadCount' = 0 /\ spinner' = FALSE /\ tab' = "merge"
    ELSE uploadCount' = uploadCount + 1 /\ UNCHANGED <<spinner, tab>>

\* Counts the uploads that are left, without a start from their number.
Wrong_Countdown ==
    IF uploadCount = 1
    THEN uploadCount' = 0 /\ spinner' = FALSE /\ tab' = "merge"
    ELSE uploadCount' = uploadCount - 1 /\ UNCHANGED <<spinner, tab>>

\* The block confirmTracks passes, called with YES.
completionBlock ==
    IF uploadCount + 1 >= Cardinality(selectedRecordings)
    THEN uploadCount' = 0 /\ spinner' = FALSE /\ tab' = "merge"
    ELSE uploadCount' = uploadCount + 1 /\ UNCHANGED <<spinner, tab>>

\* The write of the entry ended; if the server refused it, the error is
\* ignored.
WriteEnded(u) ==
    /\ u.request = "write"
    /\ uploads' = uploads \ {u}
    /\ \/ uploaded' = uploaded \union {Track(u)}
       \/ "refusal" \in Faults /\ UNCHANGED uploaded
    /\ completionBlock
    /\ UNCHANGED <<rowVars, storage, taps, fileVars>>

Next ==
    \/ \E t \in Tracks :
         \/ didSelectRow(t) \/ didDeselectRow(t) \/ deleteRow(t)
         \/ \E n \in Names : Save(t, n)
         \/ CropEnds(t) \/ CropFails(t)
    \/ \E u \in uploads :
         FileIsPut(u) \/ UrlIsKnown(u) \/ RequestFails(u) \/ WriteEnded(u)
    \/ refresh \/ leaveLibrary \/ viewWillAppear
    \/ confirmTracks

Spec == Init /\ [][Next]_vars

\* Requests are answered or fail; users owe nothing.
FairSpec ==
    /\ Spec
    /\ \A k \in 1 .. MaxTaps, s \in Rows :
         WF_vars(\E u \in uploads :
                   /\ u.tap = k /\ u.row = s
                   /\ FileIsPut(u) \/ UrlIsKnown(u) \/ RequestFails(u) \/ WriteEnded(u))

-----------------------------------------------------------------------------

\* Type correctness.
TypeOK ==
    /\ audioRecordings \subseteq Tracks
    /\ selectedRecordings \subseteq Rows
    /\ shown \subseteq Tracks
    /\ uploadCount \in Nat
    /\ uploads \subseteq Uploads
    /\ storage \in [Names -> Tracks \union {None}]
    /\ uploaded \subseteq Tracks
    /\ spinner \in BOOLEAN
    /\ tab \in {"studio", "library", "merge"}
    /\ taps \in 0 .. MaxTaps
    /\ audioName \in [Tracks -> Names \union {None}]
    /\ files \in [Names -> Tracks \union {None}]
    /\ crop \in [Tracks -> {"no", "running", "done", "failed"}]

\* What an entry of the session document plays, by the name of its Storage
\* file, is a recording that its user gave that name: the one that the entry is
\* of, if he used the name once; though the name is used for two files, one of
\* which is removed, written in the background and becomes the recording's URL
\* while that may be uploaded already.
EntriesPlayTheirName ==
    \A t \in uploaded :
      LET played == storage[audioName[t]] IN
      played # None /\ audioName[played] = audioName[t]

Pending == Cardinality(uploads)

\* If users wait, the count and the uploads still to end never exceed what
\* confirmTracks chose: no block is counted for another confirmation, and the
\* spinner stays while one is to come.
EveryUploadIsAwaited ==
    Patient /\ UnderWay =>
      /\ spinner
      /\ uploadCount + Pending <= Cardinality(selectedRecordings)

\* "Check to see if all selected recordings have been uploaded successfully"
\* (AudioLibraryViewController.m 173): the spinner stops and the app moves on
\* only when the document has every selected track.
MovesOnWhenUploaded ==
    [][spinner /\ ~spinner' => {s[1] : s \in selectedRecordings} \subseteq uploaded']_vars

\* An upload under way ends with the spinner stopped, unless one fails: then
\* the block is not called for it and the count stays below the selection.
SpinnerStops ==
    (spinner /\ UnderWay) ~>
      (~spinner \/ uploadCount + Pending < Cardinality(selectedRecordings))
=============================================================================
