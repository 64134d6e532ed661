# Tootti in TLA+

Tootti is an iOS app with which a band records from different places. Everything the devices share
is in Firestore, above all one **session document** per session; recordings are files in Firebase
Storage. There is no server code (`src/server` is empty): the clients cooperate by reading and
writing the session document and by listening to its snapshots. So what can go wrong is what goes
wrong in a distributed program: a stale copy written back, a handler that takes any news for the
news it waits for, an object used after it was replaced, a request that fails half way.

Paths are relative to `src/app/Tootti/Tootti`; `VC/` stands for `View Controllers/`, `U/` for
`Utilities/`.

## 1. Inventory

| Component | Code | State | Operations | Talks to |
|---|---|---|---|---|
| Recorder (Studio tab) | `VC/RecordingSessionVC.m` | `audioRecorder`, `recordTimer`, `waveformTimer`, the idle-timer flag, the locked Home tab, the naming alert | record button, start/endRecording, Save, Cancel, listener step 1 | `hostStartRecording` (`U/Session.m` 68-80), Library tab |
| Presence | `U/Session.m` 82-141, `VC/JoinSessionDetailVC.m`, `VC/ViewPastSessionsVC.m`, `VC/HomeSessionVC.m`, `U/ApplicationState.m` | `currentPlayerList` of the document and of every cached `Session`; `joinedSessions` | join, leave, ready/standby switch, background, foreground, log out | session and user documents |
| Library | `VC/AudioLibraryViewController.m`, `U/Audio.m` 72-119, 340-384 | `audioRecordings`, `selectedRecordings`, `uploadCount`, spinner; names and cropped files | save (crop), select, confirm (upload), refresh, delete | Recorder, Storage, `guestPlayerList`, Merge tab |
| Shared tracks | `VC/MergeSessionVC.m`, `U/Audio.m` 166-194 | `audioTracks`, `selectedTracks`, cached session | refresh, select, delete | Storage, `guestPlayerList` |
| Merging | `VC/MergeSessionVC.m` 320-430, `U/Merge.m` | `self.merge`, temporary file, spinner | merge, merge for click track | Storage, `finalMergedResultRef`, `clickTrackRef` |
| Playback | `VC/MergeSessionVC.m` 206-257, 433-455, `Cells/MergeAudioCell.m` | players, `playbackTimer`, `isMergePlaying` | play, pause, rewind, forward | |
| Click track | `VC/ClickTrackSessionVC.m` | cached click track, its player, the title of the button | pick, confirm (host uploads), two listeners, play | `clickTrackRef`, Recorder |
| Accounts, sessions | `VC/SignupViewController.m`, `VC/HomeViewController.m`, `VC/CreateSessionDetailVC.m` | user document, `NSUserDefaults` | sign up, log in, create session | user and session documents |
| Waveforms | `U/Audio.m` 197-338, `U/MOAudioSliderView.m` | none | averaging, points: dead code, see section 6 | |
| Views, cells, decorators, settings | the rest | none that matters | | |

Hard behaviours and what makes each component correct:

- *Recorder.* Every device acts on its own events and on snapshots that say nothing about *what*
  changed. Correct: flag, recorder, timers and locks agree; a finished take is never touched; a
  guest that follows the host stops when the host does; what is saved is what was recorded.
- *Presence.* The list is copied, edited and written whole; copies are stale; old view controllers
  go on reacting. Correct: who is present is on the list, once, and who is in the session with the app in
  the background is not; nobody is on it but those who joined and the creator, whom
  `VC/CreateSessionDetailVC.m` 51-62 lists before he joins; a join ends.
- *Library, shared tracks.* Several uploads share one counter; deletion overwrites a list that
  others append to; rows are remembered by index across requests. Correct: the spinner ends, the
  app moves on only when all is uploaded, a track on the list has a file, and the right one though files
  are named by users and written in the background.
- *Merging.* One property for two jobs. Correct: what is uploaded is what was merged.
- *Playback.* Timers that are not invalidated; a selection that changes under the music. Correct:
  flag, button and timer agree, nothing that a button started sounds while it offers to play, the button
  comes back.
- *Accounts.* Check, then write; a list written whole from a copy; an account without a document. Correct:
  one document, names stay unique, `joinedSessions` only grows.

The hazards, each with its line and the properties that watch it, are in `PROJECT.json`.

## 2. Modules

| Module | Models | State |
|---|---|---|
| `Recording` | the recorder on a host's and on guests' devices, `hostStartRecording` | document versions and the host's queue of writes; per device: snapshots seen, takes, recorder, timers, locks, alert, library |
| `Presence` | `currentPlayerList` and `joinedSessions` | documents, queues of writes, cached `Session` objects, joins under way |
| `Upload` | the Library tab: recordings and their files, selection, confirm button, `uploadCount`, spinner | names, cropped files, crops; rows, selection, count, uploads by request, what document and Storage got |
| `SharedTracks` | `guestPlayerList`: uploads, refresh, deletion | the list, files in Storage, deletions under way; per user the cached list, data source, table, spinner |
| `MergeJobs` | final mix and click track, from the tap to the apps that load the result | jobs with their phase, `self.merge`, temporary files, Storage, references, click tracks loaded |
| `Playback` | the players of the Merge tab and its polling timer; the button of the Click Track tab | selection, rows that play, flag, button, timers; title, player |
| `Accounts` | one user on several devices: signing up, logging in, creating and joining sessions | account, document, sessions and `joinedSessions` on the server; per device the copy in `NSUserDefaults`, the chain under way, the queue of writes |
| `Follower` | abstract: follows a flag that somebody else writes | the flag's history; per follower a position in it, active or not |
| `Player` | abstract: a play button and the music it answers for | on or off, what sounds |
| `Catalogue` | abstract: the sessions of a user | titles of those he hosts, past sessions |
| `MC...` | instances of these for TLC | |
| `RecordingProofs`, `FollowerProofs`, `PresenceProofs`, `UploadProofs`, `SharedProofs`, `MergeProofs`, `PlaybackProofs`, `AccountsProofs` | theorems | |

A definition named `Wrong_...` is a plausible mistake in the definition after it: exchanging the two
makes the property named in `PROJECT.json` ("mutants") fail. The specifications do not use them.

Each module is one view of the system and is checked on its own. They meet in shared state that
each abstracts differently: `Upload` and `SharedTracks` both model `uploadAudioSound`, the first
for the counter and the spinner of one device, the second for the list all devices share;
`SharedTracks` and `MergeJobs` share the rows of the Merge tab, which is why the latter lets the
file of a selected track be gone (the fault `track`); `MergeJobs` and `Playback` share
the selection, which in both may change at any time. `Recording` says which take is saved, `Upload`
what becomes of its file; the Studio's click track is `studioPlays` of `Playback`.

Three abstract specifications say what a part promises to somebody who does not know how it works, and
each is a PROPERTY of the runs of the module that implements it, under the mapping stated there:

| Abstract | Implemented by | Mapping |
|---|---|---|
| `Follower` | guests in `Recording` (`GuestsAreFollowers`) | history = `log`, position = snapshot seen, active = recording for the host |
| `Player` | Merge tab in `Playback` (`MergeTabIsAPlayer`) | on = `isMergePlaying`, sounding = rows it started, as long as they are selected |
| `Player` | Click Track tab in `Playback` (`ClickTabIsAPlayer`) | on = the title is "Stop playback", sounding = the player that the tab has now plays, and not for the Studio |
| `Catalogue` | `Accounts` with good habits (`KeepsACatalogue`) | hosted = names of the sessions in Firestore, past = `joinedSessions` |

One action is one callback on a device's main queue, which runs callbacks one at a time, or one
block of a background queue.

### Recording

`recordAudio`, `startRecording`, `endRecording`, `startTimer`, `resetTimer`, `startWaveform`,
`resetWaveform`, `prepareForNewRecording` and `sessionRecordingStatusUpdate` carry the names of the
methods and contain the calls in their order, with the two early returns of `startRecording`
(`ActivationFails`, `RecordFails`) and the one of `endRecording`. `SaveRecording` and
`CancelRecording` are the buttons of the alert. `ReceiveSnapshot` is the listener on a guest's
device; the host's ignores the flag. The list of takes of a device stands for its audio files:
every `prepareForNewRecording` makes a new one.

Firestore is modelled by what the code relies on: `log` is the flag in each version of the
document, `queue` the host's writes in order. A listener gets ever later versions, may skip some, and
gets one at once when its own device writes another field (`ReceiveOwnWrite`).

Faults are a constant: failed activation, `record` returning NO, an interruption of the recorder (no
handler in the code), the end of the app. Guests are followers that may fail to act when failures are
among the faults, and may not when they are none.

### Presence

A list is abstracted to how many standby and ready entries each user has. A client has the current
`Session` object (`cur`) and the Studio of an earlier session (`old`), whose observers the code
never removes. `TapJoin`, `JoinFails`, `JoinFetched`, `JoinWritten`, `JoinDone` are the chain of
requests of a join (`joinSession` and `joinPastSession` are the same code); the session the user is
in is left in the first of them. `Write` is the whole-list write of `U/Session.m`. `View` is
Firestore's latency compensation: a document is seen under the client's own pending writes.

`Isolated` is an assumption of an instance, not a behaviour of the code: clients edit the list only
with the last version in hand and no write pending, and the scene does not deactivate in the middle
of a join. With `FALSE` the code runs as it is. The two together separate what comes from
concurrency from what the handlers do right or wrong on their own.

Sessions are not created in this module (the requests of that are in `Accounts`). They start as a creation
leaves them when all its requests were answered: `Created`, a list with the creator (`Host`) on standby, and
`joinedSessions` of his with the session. He is listed though he never tapped Join and is not in the Studio;
`OnlyJoinedAreListed` therefore excepts him, and no property says that the list has present users only. Not
modelled: a creation that ends between its two writes, so that the creator is listed and the session not remembered,
and the Studio that opens at the end of it, which is one of the session the user was in before, if any.

Bounds: one join at a time per user and no log out during it (the spinner suggests waiting but
does not enforce it); one earlier Studio; `MaxOps` taps and scene changes per user. Not modelled: a
write the server refuses, which would leave the spinner of a join on the screen, and the refresh of
the Merge tab, which puts a new `Session` object in place of the cached one.

### Upload

An upload is a chain of three requests, put, URL, write; its block is called after the third
(`completionBlock`, called by `WriteEnded`) and never after a failure of the first two
(`RequestFails`). The block has no identity: an upload is known by the tap that started it, its row of the
selection and its next request. `confirmTracks` resets `uploadCount` and starts an upload for each occurrence
in the selection, which may have a track twice: `reloadData` (`viewWillAppear`, `deleteRow`) takes the
highlights off the rows, not the tracks out of `selectedRecordings`. The selection is therefore a set of pairs of a track
and the number of its occurrence; its order, which the uploads do not depend on, is left out.

`Save` adds a row and starts `cropAudioWithStartTime`: the file named after the recording is removed and
written anew in the background (`CropEnds`, `CropFails`), and only then becomes the recording's
`audioURL` (`Source`). `FileIsPut` sends whatever file the URL named when the button was tapped, as it is by now, to
the path of the recording's name, or fails if there is none. Two takes may get one name.

`Patient` assumes that the user leaves the Library alone while uploads are under way, which the
spinner suggests and nothing enforces.

### SharedTracks

An entry is a track and the number of its upload. `PutDone`, `UrlDone`, `EntryWritten` are the
requests of an upload, `ArrayUnion` is the operation of Firestore, `Without` that of `removeObject`: all equal
entries go. `deleteRow` computes, at the
swipe, the row's index and the list without the entry; `FileDeleted` and `ListWritten` are the two
requests that follow, and `RowRemoved` the block that takes the row out by that index. `refresh`
empties the data source, not the table; `Fetched` fills it and stops the spinner when the number of
rows passes the number in the list. `Dies` is an `NSException`: an index out of range, or a table
whose rows do not match the data source.

`Habits` are assumptions about users: they wait for their own requests (`patient`), swipe rows of the
newest list only (`fresh`), nobody writes while somebody deletes (`turns`), and no listed track is
confirmed again (`once`). Each one keeps out a way in which the code goes wrong (section 5).

### MergeJobs

A tap starts a job; `phase[j]` is its next step. `CreateMerge`, `addAudio`, `performMerge` and
`ExportEnded` are the statements of the background block that read `self.merge` anew each time;
`Upload`, `PutDone`, `UrlDone`, `RefWritten` are `uploadTypedAudioSound`, with its completion block
(`Completion`), which is called before the reference is known to be written. `MergeRaises` is the
exception of `performMerge` on a track without audio. A phase `lost` is a job of which the code
hears no more, so that its spinner stays. `Path` is the file name in Storage, the same for both merge
buttons. `pickSong` removes the file of an earlier song, starts the export of the new one and sets the track;
`SongExported` is the end of that export, which a confirmation does not wait for (there is no file to put until
then). Songs picked in a row share one export. With these, `confirmTrack` and `SendClickTrack` are the Click Track tab, `Listen` the two
snapshot listeners that download a click track whose URL differs from the cached one.

Habits: `patient`, the user waits for each job; `apart`, of the merge buttons one only is used.

### Playback

`play`, `playAllTracks`, `pauseAllTracks`, `checkPlayback` are the methods, `seek` is rewind and
forward (the same but for the sign), `playAudio` the button of a cell. `timer` says whether
`playbackTimer` is scheduled, `orphans` how many timers are that it no longer names; both call
`checkPlayback`. A start is nondeterministic in which players start: one that could not be made from
its URL is `nil`. `stray` and `sought` are history: rows that play without the play button's doing,
and whether a rewind or forward was tapped.

`playTrack` is the button of the Click Track tab, which asks its player what to do and remembers in its
title only what it did. `audioPlayer` says whether that player is the one of the session's click track.
`pickSong` puts a new one in its place and does not stop the old one, which the session keeps: from then on
`sessionPlays` says whether that plays. `tabLoads` and `studioLoads` are the two listeners that bring a new click
track. The first one to see it makes the session's player, so that the tab gets it in `tabLoads` and keeps the
old one, alone, in `studioLoads`. A player that no one has any more is silent. `studioPlays` and
`studioStops` are the Studio, which plays the session's click track whoever else has it; `ClickEnds` is the end
of a track, which nobody tells the tab. `cued` is history: the Studio started what the tab's player plays.

`ClickTabIsAPlayer` is about the player that the tab has. Of the player before it the tab makes, and keeps, no
promise: Play track, pick a song, tap twice, and the title is "Play track" while the first track still sounds
(`sessionPlays`), out of reach of the button.

### Accounts

`createAccount`, `AccountMade`, `AccountHeard` and `addUser` are the chain of signing up; nothing hears of
its last request. An error may also mean that the account was made and the answer lost (`AccountLost`); the app
takes it for a refusal (`AccountRefused`). `LogIn` needs a document: without one `documents[0]` raises and the app is as before.
`createNewSession`, `saveSession` and the branches of `Hear` are the chain that creates a session: query, new
document, `joinedSessions` as `Remembered` computes it from `NSUserDefaults`. `joinSession` is what a join
does to the list (its other requests are in `Presence`); its block goes through a proxy whose key was
just removed, so what it leaves in `NSUserDefaults` is nondeterministic. A write is queued on the device and
survives a `Crash`, its block does not (`heard`); `Hosted` and `Seen` are what a query of the device finds,
its own writes included. A start with a saved uid refreshes no list, so it is part of `Crash`. `mishaps`
counts crashes and lost answers.

Habits: `patient`, no log out while something is under way; `turns`, one device at a time; `fresh`, a session
is created on a device that has the newest list. Without any one of them `KeepsACatalogue` fails.

## 3. Runs

`CHECK_DEADLOCK FALSE` everywhere: users owe the system nothing and may stop.

| Run | Instance | Shows |
|---|---|---|
| `RecordingFaults` | host, one guest, all faults, 2 takes, 2 unrelated versions | types; the host's library has finished takes, each once; no step touches a finished take; guests implement `Follower` |
| `RecordingLive` | host, one guest, no faults, 3 versions, fairness | flag and locks on exactly while recording; no leaked timer, and the time shown is the take's; guests stop; they implement a `Follower` that never fails |
| `RecordingRestart` | violation | any write restarts a guest's take |
| `PresenceShared` | two users, two sessions, crashes, not isolated, 3 operations each | no copy of a list mentions a user who neither created the session nor tapped Join |
| `PresenceAlone` | two users, one session, isolated, 5 operations each, fairness | the list settles so that it has every user present, none twice, and none who is in the session with the app in the background (a creator who never joined is on it); the session is remembered; joins end; lists shown converge |
| `PresenceLost` | violation, not isolated | concurrent writes drop a user who is present |
| `UploadPatient` | two tracks, two names, 2 confirmations, 2 occurrences in the selection, failing requests and crops, patient, fairness | what an entry plays is a recording of its name; no upload is counted for another confirmation; the app moves on only when the document has every selected track, and the spinner stops unless one failed |
| `SharedTurns` | two users, a track each, 2 uploads of each, all habits, fairness | only the swiped track leaves list, table and Storage; a listed track has its file; refreshes end |
| `MergePatient` | two rows, 3 jobs, all faults and habits, fairness | what is uploaded and loaded is what was selected; the click track survives; spinners stop unless the job is lost; the last click track is loaded |
| `MergeSharedName` | violation, patient but not apart | a final mix overwrites the click track's file |
| `PlaybackFree` | two rows, 4 taps, any order, fairness | flag, button and timer agree; no timer leaks before the first rewind; the button comes back; both tabs implement `Player`, the Click Track tab for the player it has |
| `AccountsTurns` | two devices, two names, a session of another host, 3 of one's own, 2 crashes or lost answers, all habits | one document for the user; no two sessions of one host have a name in common; the chains implement `Catalogue`: past sessions are never lost |

*Why the bounds are enough.* Two takes are one to finish and one to replace it, which is what saving
and naming are about; three versions let a guest skip one; one orphaned timer is one too many. Two
users are what a lost update takes, two sessions one to leave and one to join. Two tracks and
two names are enough for a name used twice and for a name of one's own, a second confirmation is what a
count can be mixed up with, and two occurrences are a track twice or both tracks (three were also run,
680 646 states, with the same result). A second upload of a track overwrites its file.
Three jobs are a click track, one that may spoil it and one more that may hide that. Four taps start,
seek, pause and start again. Three sessions of one's own for two names force a duplicate to be tried, and
a second mishap may hit what is done after the first. For the invariants proved in section 4 there is no bound.

*Symmetry.* None: in `PresenceShared` each of the two users is the creator of one session, and runs with a temporal
property must not have any.

*Guests.* `HostSavesFinishedTakes` and `HostTimersAreOfTake` speak of the host only: on a guest both
fail, because a snapshot may restart the recorder at any time (section 5).

*Fairness.* Only the environment is fair: Firestore sends what it has queued and brings snapshots to
every listener, requests are answered or fail, exports end, blocks that were dispatched run, tracks
end and timers fire. Firestore's client library retries until it is connected, the system frameworks
call every completion handler, and a run loop fires its timers: that is what justifies weak fairness.
In `Presence` it holds while the app is in front. No user action is fair and no fault is.

## 4. Proofs

*Recording* (`RecordingProofs`), for any set of guests and any subset of the faults:

- `TypeCorrect`: `TypeOK`. It is inductive; the hard part is that every index (recorder, version)
  stays in range when a handler closes one take and appends another (`CloseLemma`, `PrepareType`).
- `RecordingIsHeld`: `RecordingHoldsDevice`, inductive together with `TypeOK`. The run has no faults;
  what holds with them is proved here only, as it is for the next.
- `FlagIsFaithful`: `FlagFollowsHost`. The flag is tracked through the queue by `Intended`, what
  the document will say; `CommitIntends` shows that commits do not change it.
- `FollowersObey`: `FollowersObeyFlag`, a guest that records for the host knows no newer version that says
  stop; versions of the document are never rewritten.
- `HostSaves`: `HostSavesFinishedTakes`. Not inductive: a save could add any take. The
  strengthening is `HostAlertsOnce`: the alert on the host's device is about a finished take the
  library does not have.
- `FinishedTakesAreKept`: the action property `TakesAreKept`.
- `HostTimersAreRight`: `HostTimersAreOfTake`. `TimersInv` says besides what the timers are while the host does NOT
  record: none is scheduled, so that the next `startTimer` and `startWaveform` find none.
- `GuestsFollow` (`FollowerProofs`): the refinement `GuestsAreFollowers`. The initial states map to initial
  states, and with `TypeOK` each action maps to a read, a stop, a change of the flag or a stutter: a
  snapshot to `Read`, whichever of its outcomes; a tap, an interruption or a crash to `Stop`; a commit to
  `Change`.

*MergeJobs* (`MergeProofs`), for any rows, apps, faults, habits and number of jobs:

- `TypeCorrect`: `TypeOK`, by `TypeInv`, which adds `MergeLinks`: a block that is running has a Merge
  object to work with, and an export is of one.
- `UploadsTheChoice`: `UploadIsOfChosen`. Far from inductive: that the file in Storage is of this job
  follows from what the job did at every stage before. `PatientInv` says that of the jobs only the
  last is under way (`OneAtATime`) and what that one has done so far (`Stage`): a new Merge object
  is empty, filled with the choice, exported to a temporary file that was deleted before, so that a
  failed export leaves no file rather than that of an earlier job.
- `ClickTrackLasts`: `ClickTrackIsKept` if users have both habits, by `KeptInv`: one merge button is used
  (`OneButton`), a file in Storage is the result of the job that put it there (`FilesAreOfJobs`), a job about to
  reference its file still owns it (`OwnFile`), and the reference names a click track (`RefIsClickTrack`), as does what
  the apps load (`HeardIsClickTrack`).

*Playback* (`PlaybackProofs`), for any rows and number of taps:

- `TypeCorrect`: `TypeOK`, with `OrphansAreOfTaps`: each orphaned timer costs a tap.
- `PlayingStaysWatched`, `StartedStayPausable`: `PlayingIsWatched`, and `StartedCanBePaused`, which is the state
  invariant behind the refinement. They turn out to be inductive as they stand and are proved in one pass
  over the actions (`PlaybackInvariant`). The start
  from the play button is the step to look at: it must find no timer and no track that it would
  take for its own, and the poll must find none to forget.
- `MergeTabImplementsPlayer`: the refinement `MergeTabIsAPlayer`, from that invariant: a pause and a poll
  leave nothing that the button started, which is what `Stop` of `Player` demands.
- `ClickTabImplementsPlayer`: the refinement `ClickTabIsAPlayer`, by `ClickInv`: if the player that the tab has plays, and
  the Studio did not start it, the title is "Stop playback". It says nothing of a player the tab had before.

The two tabs share no state: a step of one leaves the other's variables alone (`MergeTypes`, `ClickTypes`), so
that each of these proofs looks at one tab only.

*Presence* (`PresenceProofs`), for any users, sessions and names of them:

- `TypeCorrect`: `TypeOK`, with `Links`: an open Studio is of a session, and so is a join.
- `StrangersStayOut`: `OnlyJoinedAreListed`, with crashes and without isolation. Every edit starts from a list that is in a
  document, queued or cached, so that the invariant speaks of all of them at once (`ListsWithin`); `WithinStep` shows that
  no step mentions a user in a list but of a session that he tapped or created (`TappedInv`).
- `StudioRemembered`: `StudioIsRemembered`. The same `WithinStep` with other sets: without crashes a user is mentioned only
  in lists of sessions he remembers or is about to (`RememberedInv`; the creator remembers his from the start), so a join that skips `joinedSessions` because it
  finds him listed does no harm.
- `PresentStayListed`, `NobodyElseListed`: `PresentAreListed` (where all sessions have one name, so that no failed join makes
  a user leave) and `OnlyPresentAreListed`, for isolated clients. Both speak of quiet states and are far from inductive: what has
  to be followed is `F`, the lists that the documents will have when the queue of the one writer
  (`OneWriter`) is committed (`Settles`). `ListedIn` says of `F` what is wanted of the documents; a commit leaves
  `F` alone (`CommitLemma`), and a handler replaces what it writes, with the entries of its own user changed only
  (`WriteStep`).

*Upload* (`UploadProofs`), for any tracks, names, faults, taps and size of the selection:

- `TypeCorrect`: `TypeOK`, with the selection and the uploads finite.
- `EntriesAreNamed`: `EntriesPlayTheirName`, patient or not, by `NamesInv`: at any time the cropped file of a name, and the file
  in Storage, are of takes that got that name, and an upload past its put finds a file there.
- `UploadsAreAwaited`: `EveryUploadIsAwaited`, by `AwaitInv`: blocks counted plus blocks to come never exceed the selection.
- `LastBlockMovesOn`: the action property `MovesOnWhenUploaded`, if users wait and the server refuses no entry. A count
  says nothing about which tracks it counted; `CountInv` says that there is a set of as many selected rows, all
  in the document and none with an upload left. When the count reaches the size of the selection, that set is the selection.

*SharedTracks* (`SharedProofs`), for any users, any finite set of tracks and number of uploads:

- `TypeCorrect`: `TypeOK`. `WithoutFacts`, `UnionFacts` and `RemoveAtFacts` say what the operators on lists return.
  `Without` is defined without recursion, by the rank of each entry that is kept, so that these are provable.
- `OthersAreKept`: the action property `OthersStayListed`, with the habits `turns` and `fresh`: there is one deletion at a time,
  nobody uploads meanwhile, and the list it will write lacks its entry alone (`OneDeletion`).
- `ListedArePlayable`: `ListedHaveFiles`, with `once` besides, by `NoneTwice` and `FilesInv`: a track is listed once, so that
  deleting its file leaves no other entry behind.
- `SwipesHitTheirRow`: the action property `SwipedRowGoes`, with `patient`, `fresh` and `turns`, by `RowsInv`: the table shows its
  data source, no entry of which comes twice, and the row that is being deleted is where it was.

*Accounts* (`AccountsProofs`), for any devices, titles, sessions, crashes and lost answers:

- `TypeCorrect`: `TypeOK`, with what the queue of a device may hold in each phase of its chain (`QueueInv`).
- `NamesUnique`: `NamesAreUnique`, with the habit `turns`. By `SessionInv` no two queued documents are of one session, by `TurnsInv`
  one device at a time is busy, so that the query of a device finds all sessions the user hosts (`NamesInv`).
- `OneDocument`: `UserHasOneDocument`, without any habit, by `UserInv`: one device at a time has the new account and no
  document yet.
- `SessionsAreACatalogue`: the refinement `KeepsACatalogue`, with all habits. `CatalogueInv` says of every device that its copy of
  the list and what it has queued agree with the document's: a list that is written whole contains what was there.

The assumptions are those of the constants, next to their declarations: the host is no guest, the
host's app is one of the listeners, the picked song is no row, faults and habits are among those
named, tracks are finitely many, bounds are numbers. The bounds only cut behaviours off, so the theorems hold for
each value of them. Where a theorem has a hypothesis (habits, isolation), it is the assumption of the run that
checks the same property or a weaker one, and section 5 says what happens without it.

Model-checked only: liveness (`GuestsStop`, `JoinEnds`, `ShownListsConverge`, `SpinnerStops` and the like of the other
modules), which these provers cannot do. Every invariant and every action property that a run checks is proved.

## 5. Where the code and its text disagree

With a run (each "violation" above, listed under "findings"): a guest's take restarts on any write
(`VC/RecordingSessionVC.m` 67); concurrent edits drop a user (`U/Session.m` 130); a final mix overwrites the click track (`U/Audio.m` 132).

Found while modelling and kept out by an assumption or a bound of the passing runs:

- `VC/RecordingSessionVC.m` 437: on a guest, Save names the take of the recorder that is current at
  the tap, which a snapshot may have started after the alert came up.
- `VC/JoinSessionDetailVC.m` 60: sessions are compared by name, so joining another session of the
  same name does not leave the first. With a second session `PresentAreListed` fails even when
  isolated: a tap on Join leaves the current session, and a join that then fails undoes nothing.
- `VC/RecordingSessionVC.m` 102: the Studio of an earlier session lists the user again whenever the
  app comes to the front. `OnlyPresentAreListed` says nothing of sessions a user was in before, and cannot: one
  who logs out, logs in, lets the app go to the background and come back, and logs out again stays listed though he
  is in no session, because `logOut` leaves the current session only and the handler of the background, without
  a uid, finds nobody to remove.
- `VC/AudioLibraryViewController.m` 173-174: without `Patient`, a track deselected or a second
  confirmation during uploads makes count and selection equal too early, and the app moves on
  before all is uploaded.
- `U/Audio.m` 184: a deletion writes the whole list as it was cached at the swipe, which drops a track that
  another user uploaded meanwhile (without the habit `turns`).
- `VC/CreateSessionDetailVC.m` 90: the list a creation writes is that of `NSUserDefaults`, which drops sessions
  joined on another device, or joined just before a crash (without `fresh`); 65: two devices at a time
  create two sessions of one name (without `turns`). A session that was created is not made the current one,
  so the Studio that opens is not its own; and a crash before 92 leaves it out of the list for good.
- `VC/SignupViewController.m` 124-145: an app that dies between the new account and its document, or that gets an
  error because the answer was lost (127), leaves an account without one: the query of each later log in finds nothing and `documents[0]` raises
  (`VC/HomeViewController.m` 167).
- `U/Audio.m` 360 and 82: two recordings of one name share the cropped file and the file in Storage, so the
  first then plays the second, here and for the other users; the crop of the second may also fail because the file is
  there again. 84: a recording that is uploaded before its crop has ended is uploaded uncropped.
- `VC/CreateSessionDetailVC.m` 51-62: the creator of a session is in `currentPlayerList` from its creation, whether or
  not he ever opens its Studio, and shown to the others as a player on standby.
- `VC/ClickTrackSessionVC.m` 182: picking a song while the session's click track plays leaves the tab without a
  way to stop it (`ClickTabIsAPlayer` is about the player that the tab has); 211-239: the track is set before the song is
  exported, and confirmed before that ends the upload fails; 56: when the Studio's listener has loaded a new click
  track first, the tab goes on playing the old one; 289: at the end of a track the title stays "Stop playback" and the next tap, as the
  title does not say, plays it again (`GoesOff` of `Player` is not promised).
- `U/Audio.m` 108: an entry the server refuses counts as uploaded (the fault `refusal`); 89 and 94: an
  upload that fails never calls its block, and the spinner stays.
- `VC/MergeSessionVC.m` 522: a row swiped while an earlier deletion or a refresh is under way is
  removed by a stale index, which removes another row or ends the app (without `patient`, `fresh`);
  290: a refresh that starts while the Library adds rows may leave the spinner (without `patient`).
- `VC/MergeSessionVC.m` 394: two jobs at a time share `self.merge`; one result is uploaded twice or
  none (without the habit `patient` of `MergeJobs`); 357: sharing a result without a URL puts `nil` into an array.
- `VC/MergeSessionVC.m` 222, 225: rewind and forward start the tracks from the beginning whatever
  the new position, schedule one more timer that nothing invalidates, and, while paused, start music
  while the button still offers to play (the last conjunct of `PlayingIsWatched` stops at the first
  one, and `MergeTabIsAPlayer` leaves such rows out).

## 6. Not modelled, and the plan

All components with a state of their own are modelled, and every safety property of the runs is proved. What is left:

1. Weaker hypotheses: which of `Isolated`'s conjuncts `OnlyPresentAreListed` needs, and `ListedArePlayable` without `once`.
2. An abstract specification of the list of a session, which `Presence` with isolated clients implements.

Not modelled:

- *Waveforms.* `convertAVToArr` and its helpers (`U/Audio.m` 197-338) and the slider (`U/MOAudioSliderView.m`) are
  reached only from `drawWaveForm` of the Merge tab (`VC/MergeSessionVC.m` 192), whose two callers (180, 188) are
  commented out: nothing the program does depends on them.
- *Refusals.* Writes that the server refuses, except the fault `refusal` of `Upload`. The spinner of a join
  would stay on the screen.
- *In* `Presence`, the refresh of the Merge tab, which puts a new `Session` object in place of the cached one,
  and a second tap on Join while the first is under way.
- *Views, cells, settings, the pictures on the buttons of the cells*: layout and drawing, no state the properties are about.
- *Decorators* (`U/HostUserDecorator.m`, `U/GuestUserDecorator.m`): stubs nothing calls.
- *Vendored code* (`Pods`) and AVFoundation beyond what the recorder, players and exports tell the app. Firebase
  is modelled by what the code relies on.
