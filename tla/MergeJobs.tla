------------------------------ MODULE MergeJobs ------------------------------
(***************************************************************************)
(* The tracks a session makes of its recordings: the final mix and the     *)
(* click track, merged by the two buttons of the Merge tab                 *)
(* (MergeSessionVC, Merge) or picked in the Click Track tab                *)
(* (ClickTrackSessionVC), uploaded by the host's app (Audio                *)
(* uploadTypedAudioSound), and downloaded by every app whose snapshot      *)
(* listener sees a new clickTrackRef.                                      *)
(*                                                                         *)
(* A tap starts a job.  Its block runs on a background queue and works     *)
(* with self.merge, which the next job replaces; the export writes a       *)
(* temporary file named after the button; and both buttons give their      *)
(* result the same name, that of its file in Storage.                      *)
(*                                                                         *)
(* Contents are the sets of tracks they were made of, {} if there is no    *)
(* file.  A URL stands for a path and the number of the upload to it.      *)
(*                                                                         *)
(* Abstracted: the loop over the selected tracks is one step, rows that    *)
(* are deleted or cleared by a refresh are deselected one by one; the      *)
(* exports of songs picked in a row are one; alerts and the share sheet.   *)
(* An app that died is not started again.                                  *)
(*                                                                         *)
(* A definition named Wrong_... is a mistake one could make in the code of *)
(* the definition after it; the specification does not use it.             *)
(***************************************************************************)
EXTENDS Naturals

CONSTANTS
    Tracks,     \* the rows of the Merge tab
    Song,       \* the content of the song picked for a click track
    Listeners,  \* apps with a snapshot listener that loads the click track
    Host,       \* the app of this module, one of them
    Faults,     \* what may go wrong, a subset of AllFaults
    Habits,     \* assumptions on the user, a subset of AllHabits
    MaxJobs     \* bound: taps of the three buttons

(***************************************************************************)
(* "export", "put", "url": that step fails; "track": the file of a         *)
(* selected track is gone.                                                 *)
(***************************************************************************)
AllFaults == {"export", "put", "url", "track"}

(***************************************************************************)
(* "patient": the user leaves the app alone while a job is under way;      *)
(* "apart":   of the two merge buttons, one only is used in a session.     *)
(***************************************************************************)
AllHabits == {"patient", "apart"}

ASSUME HostAssumption == Host \in Listeners
ASSUME SongAssumption == Song \notin Tracks
ASSUME FaultsAssumption == Faults \subseteq AllFaults
ASSUME HabitsAssumption == Habits \subseteq AllHabits
ASSUME JobsAssumption == MaxJobs \in Nat

VARIABLES
    selectedTracks,
    clickTrack, \* of the Click Track tab: "none", "picked" or "remote"
    exporting,  \* whether the export of a picked song is under way
    taps,       \* how many jobs were started
    kind,       \* kind[j]: the button of job j
    chosen,     \* history: what was selected when j was started
    phase,      \* phase[j]: the next step of j; "lost" if it ended unnoticed
    merge,      \* self.merge: the job that made it, 0 for none
    audioTracks,\* audioTracks[j]: the tracks of the Merge object of j
    mergedTrack,\* mergedTrack[j]: the temporary file of that object's result
    export,     \* export[j]: the Merge object that j exports
    source,     \* source[j]: the temporary file that j uploads
    temporary,  \* temporary[k]: the content of the temporary file of kind k
    storage,    \* storage[p]: the file at a path
    url,        \* url[j]: the URL that j got
    refs,       \* clickTrackRef and finalMergedResultRef of the document
    heard,      \* heard[d]: the click track that app d has loaded
    spinner,
    alive

clickVars == <<clickTrack, exporting>>
mergeVars == <<merge, audioTracks, mergedTrack, export>>
docVars == <<storage, url, refs, heard>>
jobVars == <<taps, kind, chosen>>
vars == <<selectedTracks, clickVars, jobVars, phase, mergeVars, source, temporary, docVars,
          spinner, alive>>

Jobs == 1 .. MaxJobs
Merged == {"final", "click"}
Kinds == Merged \union {"picked"}
Phases == {"send", "create", "add", "perform", "export", "put", "url", "write", "over", "lost"}
Paths == {"mergedtrack", "click-trac-test"}
Contents == SUBSET (Tracks \union {Song})
Files == [upload : 0 .. MaxJobs, content : Contents]
Fields == {"clickTrackRef", "finalMergedResultRef"}

NoFile == [upload |-> 0, content |-> {}]
NoURL == [path |-> "none", upload |-> 0, content |-> {}]
URLs == {NoURL} \union [path : Paths, upload : 0 .. MaxJobs, content : Contents]

Wrong_Path(k) == "mergedtrack"

\* The names that the results get.
Path(k) == IF k = "picked" THEN "click-trac-test" ELSE "mergedtrack"

Field(k) == IF k = "final" THEN "finalMergedResultRef" ELSE "clickTrackRef"

UnderWay(j) == phase[j] \notin {"over", "lost"}

MayTouch ==
    /\ alive
    /\ "patient" \in Habits => \A j \in Jobs : ~UnderWay(j)

Init ==
    /\ selectedTracks = {}
    /\ clickTrack = "none"
    /\ exporting = FALSE
    /\ taps = 0
    /\ kind = [j \in Jobs |-> "final"]
    /\ chosen = [j \in Jobs |-> {}]
    /\ phase = [j \in Jobs |-> "over"]
    /\ merge = 0
    /\ audioTracks = [j \in Jobs |-> {}]
    /\ mergedTrack = [j \in Jobs |-> "none"]
    /\ export = [j \in Jobs |-> 0]
    /\ source = [j \in Jobs |-> "none"]
    /\ temporary = [k \in Kinds |-> {}]
    /\ storage = [p \in Paths |-> NoFile]
    /\ url = [j \in Jobs |-> NoURL]
    /\ refs = [f \in Fields |-> NoURL]
    /\ heard = [d \in Listeners |-> NoURL]
    /\ spinner = FALSE
    /\ alive = TRUE

-----------------------------------------------------------------------------
(* The taps.                                                               *)

\* A row of the table is selected or deselected.
Toggle(t) ==
    /\ MayTouch
    /\ selectedTracks' = IF t \in selectedTracks THEN selectedTracks \ {t}
                                                 ELSE selectedTracks \union {t}
    /\ UNCHANGED <<clickVars, jobVars, phase, mergeVars, source, temporary, docVars,
                   spinner, alive>>

\* mediaPicker:didPickMediaItems:.  An earlier file is removed, the export
\* starts, and the track is set whether or not it ends well.
pickSong ==
    /\ MayTouch
    /\ clickTrack' = "picked"
    /\ exporting' = TRUE
    /\ temporary' = [temporary EXCEPT !["picked"] = {}]
    /\ UNCHANGED <<selectedTracks, jobVars, phase, mergeVars, source, docVars,
                   spinner, alive>>

\* The export ends, of which nothing but the log hears.
SongExported ==
    /\ alive /\ exporting
    /\ exporting' = FALSE
    /\ \/ temporary' = [temporary EXCEPT !["picked"] = {Song}]
       \/ "export" \in Faults /\ UNCHANGED temporary
    /\ UNCHANGED <<selectedTracks, clickTrack, jobVars, phase, mergeVars, source, docVars,
                   spinner, alive>>

Start(k, what, first) ==
    /\ MayTouch
    /\ taps < MaxJobs
    /\ taps' = taps + 1
    /\ kind' = [kind EXCEPT ![taps'] = k]
    /\ chosen' = [chosen EXCEPT ![taps'] = what]
    /\ phase' = [phase EXCEPT ![taps'] = first]
    /\ spinner' = TRUE
    /\ UNCHANGED <<selectedTracks, clickVars, mergeVars, source, temporary, docVars,
                   alive>>

\* mergeTracks and mergeForClicktrack.  With nothing selected an alert is
\* shown, and the merge started all the same.
MergeTapped(k) ==
    /\ "apart" \in Habits => \A j \in 1 .. taps : kind[j] \in {k, "picked"}
    /\ Start(k, selectedTracks, "create")

Wrong_confirmTrack == Start("picked", {Song}, "create")

\* confirmTrack on the host's device, which may come before the song's export ends.
confirmTrack == Start("picked", {Song}, "send")

-----------------------------------------------------------------------------
(* The blocks on the background queue, which read self.clickTrack,         *)
(* self.merge and selectedTracks anew in each of their steps, and the      *)
(* export.                                                                 *)

At(j, p) == alive /\ phase[j] = p
Go(j, p) == phase' = [phase EXCEPT ![j] = p]

\* Sent to nil, uploadTypedAudioSound does nothing; the track that the listener
\* brought has no local file to upload.
SendClickTrack(j) ==
    /\ At(j, "send") /\ Go(j, IF clickTrack = "none" THEN "lost" ELSE "put")
    /\ source' = [source EXCEPT ![j] = IF clickTrack = "picked" THEN "picked" ELSE "none"]
    /\ UNCHANGED <<selectedTracks, clickVars, jobVars, mergeVars, temporary, docVars,
                   spinner, alive>>

CreateMerge(j) ==
    /\ At(j, "create") /\ Go(j, "add")
    /\ merge' = j
    /\ UNCHANGED <<selectedTracks, clickVars, jobVars, audioTracks, mergedTrack, export, source,
                   temporary, docVars, spinner, alive>>

addAudio(j) ==
    /\ At(j, "add") /\ Go(j, "perform")
    /\ audioTracks' = [audioTracks EXCEPT ![merge] = @ \union selectedTracks]
    /\ UNCHANGED <<selectedTracks, clickVars, jobVars, merge, mergedTrack, export, source,
                   temporary, docVars, spinner, alive>>

Wrong_performMerge(j) ==
    /\ At(j, "perform") /\ Go(j, "export")
    /\ export' = [export EXCEPT ![j] = merge]
    /\ UNCHANGED <<selectedTracks, clickVars, jobVars, merge, audioTracks, mergedTrack, source,
                   temporary, docVars, spinner, alive>>

\* An earlier temporary file is removed before the export starts.
performMerge(j) ==
    /\ At(j, "perform") /\ Go(j, "export")
    /\ export' = [export EXCEPT ![j] = merge]
    /\ temporary' = [temporary EXCEPT ![kind[j]] = {}]
    /\ UNCHANGED <<selectedTracks, clickVars, jobVars, merge, audioTracks, mergedTrack, source,
                   docVars, spinner, alive>>

\* A track without audio: objectAtIndex:0 raises an exception.
MergeRaises(j) ==
    /\ At(j, "perform") /\ Go(j, "lost")
    /\ "track" \in Faults /\ audioTracks[merge] # {}
    /\ alive' = FALSE
    /\ spinner' = FALSE
    /\ UNCHANGED <<selectedTracks, clickVars, jobVars, mergeVars, source, temporary, docVars>>

\* The handler does not look at the status of the export: its object has a
\* mergedTrack, if only the name of a file that is not there.  The completion
\* block then uploads that of self.merge; sent to nil, the call does nothing.
ExportEnded(j) ==
    /\ At(j, "export")
    /\ LET tracks == audioTracks[export[j]] IN
       \/ /\ tracks # {} /\ temporary[kind[j]] = {}
          /\ temporary' = [temporary EXCEPT ![kind[j]] = tracks]
       \/ /\ "export" \in Faults \/ tracks = {} \/ temporary[kind[j]] # {}
          /\ UNCHANGED temporary
    /\ mergedTrack' = [mergedTrack EXCEPT ![export[j]] = kind[j]]
    /\ source' = [source EXCEPT ![j] = mergedTrack'[merge]]
    /\ Go(j, IF mergedTrack'[merge] = "none" THEN "lost" ELSE "put")
    /\ UNCHANGED <<selectedTracks, clickVars, jobVars, merge, audioTracks, export, docVars,
                   spinner, alive>>

-----------------------------------------------------------------------------
(* uploadTypedAudioSound.                                                  *)

\* What the file to upload holds.
Upload(j) == IF source[j] = "none" THEN {} ELSE temporary[source[j]]

PutDone(j) ==
    /\ At(j, "put") /\ Go(j, "url")
    /\ Upload(j) # {}
    /\ storage' = [storage EXCEPT ![Path(kind[j])] = [upload |-> j, content |-> Upload(j)]]
    /\ UNCHANGED <<selectedTracks, clickVars, jobVars, mergeVars, source, temporary, url, refs,
                   heard, spinner, alive>>

PutFails(j) ==
    /\ At(j, "put") /\ Go(j, "over")
    /\ Upload(j) = {} \/ "put" \in Faults
    /\ spinner' = FALSE
    /\ UNCHANGED <<selectedTracks, clickVars, jobVars, mergeVars, source, temporary, docVars,
                   alive>>

UrlDone(j) ==
    /\ At(j, "url") /\ Go(j, "write")
    /\ LET p == Path(kind[j]) IN
       url' = [url EXCEPT ![j] =
                 [path |-> p, upload |-> storage[p].upload, content |-> storage[p].content]]
    /\ UNCHANGED <<selectedTracks, clickVars, jobVars, mergeVars, source, temporary, storage, refs,
                   heard, spinner, alive>>

\* Logged only.
UrlFails(j) ==
    /\ At(j, "url") /\ Go(j, "lost")
    /\ "url" \in Faults
    /\ UNCHANGED <<selectedTracks, clickVars, jobVars, mergeVars, source, temporary, docVars,
                   spinner, alive>>

Wrong_Completion(j) ==
    /\ spinner' = (kind[j] = "click")
    /\ alive' = (kind[j] = "final" => mergedTrack[merge] # "none")

\* The completion block of a final mix puts the file of self.merge into an
\* array for the share sheet, which nil may not be in.
Completion(j) ==
    /\ spinner' = FALSE
    /\ alive' = (kind[j] = "final" => mergedTrack[merge] # "none")

RefWritten(j) ==
    /\ At(j, "write") /\ Go(j, "over")
    /\ refs' = [refs EXCEPT ![Field(kind[j])] = url[j]]
    /\ Completion(j)
    /\ UNCHANGED <<selectedTracks, clickVars, jobVars, mergeVars, source, temporary, storage,
                   url, heard>>

Wrong_Listen(d) ==
    /\ d = Host => alive
    /\ heard[d] = NoURL /\ refs["clickTrackRef"] # NoURL
    /\ heard' = [heard EXCEPT ![d] = refs["clickTrackRef"]]
    /\ UNCHANGED <<selectedTracks, clickVars, jobVars, phase, mergeVars, source, temporary,
                   storage, url, refs, spinner, alive>>

\* A snapshot with a URL other than the one cached: the app downloads it.  The
\* URL of a file that was overwritten brings the new one, or nothing.  Of the
\* listeners of the Studio and the Click Track tab the first one to see the
\* change does this: only the latter replaces the tab's track.
Listen(d) ==
    LET r == refs["clickTrackRef"] IN
    /\ d = Host => alive
    /\ r # NoURL
    /\ <<heard[d].path, heard[d].upload>> # <<r.path, r.upload>>
    /\ \E c \in {storage[r.path].content, {}} :
         /\ storage[r.path].upload = r.upload => c = storage[r.path].content
         /\ heard' = [heard EXCEPT ![d] = [r EXCEPT !.content = c]]
    /\ UNCHANGED exporting
    /\ clickTrack' \in IF d = Host THEN {clickTrack, "remote"} ELSE {clickTrack}
    /\ UNCHANGED <<selectedTracks, jobVars, phase, mergeVars, source, temporary, storage,
                   url, refs, spinner, alive>>

Next ==
    \/ \E t \in Tracks : Toggle(t)
    \/ \E k \in Merged : MergeTapped(k)
    \/ pickSong \/ SongExported
    \/ confirmTrack
    \/ \E j \in Jobs :
         \/ SendClickTrack(j)
         \/ CreateMerge(j) \/ addAudio(j) \/ performMerge(j) \/ MergeRaises(j)
         \/ ExportEnded(j)
         \/ PutDone(j) \/ PutFails(j) \/ UrlDone(j) \/ UrlFails(j) \/ RefWritten(j)
    \/ \E d \in Listeners : Listen(d)

Spec == Init /\ [][Next]_vars

\* Blocks are run, exports end, requests are answered or fail, and listeners
\* get the last version of the document; users owe nothing.
FairSpec ==
    /\ Spec
    /\ \A j \in Jobs :
         /\ WF_vars(SendClickTrack(j) \/ CreateMerge(j) \/ addAudio(j) \/ performMerge(j)
                      \/ MergeRaises(j) \/ ExportEnded(j))
         /\ WF_vars(PutDone(j) \/ PutFails(j) \/ UrlDone(j) \/ UrlFails(j) \/ RefWritten(j))
    /\ WF_vars(SongExported)
    /\ \A d \in Listeners : WF_vars(Listen(d))

-----------------------------------------------------------------------------

UserOK ==
    /\ selectedTracks \subseteq Tracks
    /\ clickTrack \in {"none", "picked", "remote"}
    /\ exporting \in BOOLEAN
    /\ spinner \in BOOLEAN
    /\ alive \in BOOLEAN

JobOK ==
    /\ taps \in 0 .. MaxJobs
    /\ kind \in [Jobs -> Kinds]
    /\ chosen \in [Jobs -> Contents]
    /\ phase \in [Jobs -> Phases]
    /\ source \in [Jobs -> Kinds \union {"none"}]

MergeOK ==
    /\ merge \in 0 .. MaxJobs
    /\ audioTracks \in [Jobs -> SUBSET Tracks]
    /\ mergedTrack \in [Jobs -> Merged \union {"none"}]
    /\ export \in [Jobs -> 0 .. MaxJobs]
    /\ temporary \in [Kinds -> Contents]

DocOK ==
    /\ storage \in [Paths -> Files]
    /\ url \in [Jobs -> URLs]
    /\ refs \in [Fields -> URLs]
    /\ heard \in [Listeners -> URLs]

\* Type correctness.
TypeOK == UserOK /\ JobOK /\ MergeOK /\ DocOK

\* If the user waits, what a job uploads is what was selected when its button
\* was tapped: never the result of an earlier job, though an export may fail
\* unnoticed and both the file's name and self.merge are shared.
UploadIsOfChosen ==
    "patient" \in Habits =>
      \A j \in Jobs :
        phase[j] \in {"url", "write"} => storage[Path(kind[j])].content = chosen[j]

\* "Your clicktrack has been updated!" (MergeSessionVC.m 413): the file that
\* clickTrackRef names is the click track that was uploaded, unless the user
\* has gone on to make another; and what an app has loaded for a click track is
\* what was uploaded as that.
ClickTrackIsKept ==
    /\ LET r == refs["clickTrackRef"] IN
       r # NoURL =>
         \/ storage[r.path].upload = r.upload
         \/ \E j \in r.upload + 1 .. taps : kind[j] # "final"
    /\ \A d \in Listeners :
         heard[d] # NoURL =>
           \E j \in Jobs : kind[j] # "final" /\ heard[d].content \in {chosen[j], {}}

\* The spinner of a job stops, unless the code loses sight of the job.
SpinnerStops == spinner ~> (~spinner \/ phase[taps] = "lost")

\* In the end every app that lives has loaded the last click track.
AllLoadTheClickTrack ==
    <>[](\A d \in Listeners :
           (d = Host => alive) =>
           heard[d].path = refs["clickTrackRef"].path /\
           heard[d].upload = refs["clickTrackRef"].upload)
=============================================================================
