------------------------------ MODULE Recording ------------------------------
(***************************************************************************)
(* The recorder of the Studio tab (RecordingSessionVC) on the device of a  *)
(* session's host and on the devices of its guests, and the field          *)
(* hostStartRecording of the session document, by which a guest's device   *)
(* follows the host's.                                                     *)
(*                                                                         *)
(* The host's record button starts a take on the host's device and writes  *)
(* hostStartRecording; a guest's snapshot listener starts or ends a take   *)
(* on EVERY snapshot of the document, whichever field of it changed.       *)
(*                                                                         *)
(* Callbacks run one at a time on a device's main queue, so an action is   *)
(* one callback of one device, one commit of the server, or one fault.     *)
(* Firestore (external) is modelled by what the code relies on: a client's *)
(* writes reach the server in order and survive a restart of the app; a    *)
(* listener gets snapshots of ever later versions of the document, may     *)
(* miss versions in between, and gets one at once for a write of its own   *)
(* device.                                                                 *)
(*                                                                         *)
(* Abstracted: what a take contains, the playback of the click track, the  *)
(* labels and the record button's picture.                                 *)
(*                                                                         *)
(* A definition named Wrong_... is a mistake one could make in the code of *)
(* the definition after it; the specification does not use it, the README  *)
(* says which property it would break.                                     *)
(***************************************************************************)
EXTENDS Naturals, Sequences

CONSTANTS
    Host,       \* the device of the session's host
    Guests,     \* the devices of its guests
    Faults,     \* what may go wrong in this instance, a subset of AllFaults
    MaxTakes,   \* bound: takes a device may have when its user, a write of its
                \* own or a crash may add to them
    MaxDoc,     \* bound: document versions up to which unrelated fields change
    MaxOrphans  \* bound: leaked waveform timers are counted up to this number

Devices == Guests \union {Host}

AllFaults == {"activation", "record", "interrupt", "crash"}

ASSUME HostAssumption == Host \notin Guests
ASSUME FaultsAssumption == Faults \subseteq AllFaults
ASSUME BoundsAssumption ==
    MaxTakes \in Nat /\ MaxDoc \in Nat /\ MaxOrphans \in Nat \ {0}

\* "open": recorded right now.  "done": ended by endRecording.  "cut": the
\* recorder was interrupted, replaced or lost before that.  "empty": the
\* recorder was prepared but record returned NO.
TakeStates == {"open", "done", "cut", "empty"}

VARIABLES
    log,        \* hostStartRecording in each version of the session document
    queue,      \* the host's writes of it that the server has not committed
    phase,      \* "out" of the Studio, listener "attached", snapshots "live"
    seen,       \* the last version of the document a device has
    takes,      \* the takes of a device, one file each, oldest first
    recorder,   \* the take self.audioRecorder writes, 0 for nil
    followed,   \* whether that take was started by a snapshot
    recordTimer,    \* the take startTimer scheduled it for, 0 for nil
    waveformTimer,  \* whether self.waveformTimer holds a scheduled timer
    orphans,        \* scheduled waveform timers nothing holds any more
    idleTimerDisabled, homeLocked,  \* UIApplication's flag; the Home tab
    alert,      \* whether the alert that names a take is on the screen
    library     \* audioRecordings of the Library tab: the take of each entry

docVars   == <<log, queue>>
linkVars  == <<phase, seen>>
takeVars  == <<takes, recorder, followed>>
waveVars  == <<waveformTimer, orphans>>
uiVars    == <<idleTimerDisabled, homeLocked>>
saveVars  == <<alert, library>>
vars == <<docVars, linkVars, takeVars, recordTimer, waveVars, uiVars, saveVars>>

-----------------------------------------------------------------------------

\* self.audioRecorder.recording
Recording(d) == recorder[d] # 0 /\ takes[d][recorder[d]] = "open"

\* The device records because a snapshot said so.
Following(d) == Recording(d) /\ followed[d]

\* What the document will say once the host's pending writes are committed.
Intended == IF queue = <<>> THEN log[Len(log)] ELSE queue[Len(queue)]

Init ==
    /\ log = <<FALSE>>
    /\ queue = <<>>
    /\ phase = [d \in Devices |-> "out"]
    /\ seen = [d \in Devices |-> 1]
    /\ takes = [d \in Devices |-> <<>>]
    /\ recorder = [d \in Devices |-> 0]
    /\ followed = [d \in Devices |-> FALSE]
    /\ recordTimer = [d \in Devices |-> 0]
    /\ waveformTimer = [d \in Devices |-> FALSE]
    /\ orphans = [d \in Devices |-> 0]
    /\ idleTimerDisabled = [d \in Devices |-> FALSE]
    /\ homeLocked = [d \in Devices |-> FALSE]
    /\ alert = [d \in Devices |-> FALSE]
    /\ library = [d \in Devices |-> <<>>]

-----------------------------------------------------------------------------
(* The steps the handlers are made of.                                     *)

\* The take a device is writing, if any, gets the state s.
Close(d, s) ==
    IF Recording(d) THEN [takes[d] EXCEPT ![recorder[d]] = s] ELSE takes[d]

\* Overwrites the timer it holds without invalidating it.
startWaveform(d) ==
    /\ waveformTimer' = [waveformTimer EXCEPT ![d] = TRUE]
    /\ orphans' = [orphans EXCEPT ![d] =
                     IF waveformTimer[d] /\ @ < MaxOrphans THEN @ + 1 ELSE @]

resetWaveform(d) ==
    /\ waveformTimer' = [waveformTimer EXCEPT ![d] = FALSE]
    /\ UNCHANGED orphans

Wrong_prepareSameFile(d, byHost, s) ==
    /\ takes' = [takes EXCEPT ![d] =
                   IF @ = <<>> THEN <<s>> ELSE [@ EXCEPT ![Len(@)] = s]]
    /\ recorder' = [recorder EXCEPT ![d] = IF takes[d] = <<>> THEN 1 ELSE Len(takes[d])]
    /\ followed' = [followed EXCEPT ![d] = byHost]

Wrong_prepareNoFile(d, byHost, s) ==
    /\ recorder' = [recorder EXCEPT ![d] = Len(takes[d]) + 1]
    /\ followed' = [followed EXCEPT ![d] = byHost]
    /\ UNCHANGED takes

\* A new recorder with a file of its own replaces the one the device has; s
\* is what becomes of the new take.
prepareForNewRecording(d, byHost, s) ==
    /\ takes' = [takes EXCEPT ![d] = Append(Close(d, "cut"), s)]
    /\ recorder' = [recorder EXCEPT ![d] = Len(takes[d]) + 1]
    /\ followed' = [followed EXCEPT ![d] = byHost]

\* Does nothing while a timer is scheduled.
startTimer(d) ==
    recordTimer' = [recordTimer EXCEPT ![d] =
                      IF @ = 0 THEN Len(takes[d]) + 1 ELSE @]

Wrong_resetTimer(d) == UNCHANGED recordTimer

resetTimer(d) == recordTimer' = [recordTimer EXCEPT ![d] = 0]

Wrong_statusOnlyRises(d, status) ==
    /\ queue' = IF d = Host /\ status THEN Append(queue, status) ELSE queue
    /\ UNCHANGED log

\* Only the host's device writes the field.
sessionRecordingStatusUpdate(d, status) ==
    /\ queue' = IF d = Host THEN Append(queue, status) ELSE queue
    /\ UNCHANGED log

\* setActive: failed: the waveform already runs, nothing else has changed.
ActivationFails ==
    /\ "activation" \in Faults
    /\ UNCHANGED <<takeVars, recordTimer, uiVars, docVars>>

\* record returned NO: the old recorder is gone, the new one does not run.
RecordFails(d, byHost) ==
    /\ "record" \in Faults
    /\ prepareForNewRecording(d, byHost, "empty")
    /\ UNCHANGED <<recordTimer, uiVars, docVars>>

RecordSucceeds(d, byHost) ==
    /\ prepareForNewRecording(d, byHost, "open")
    /\ idleTimerDisabled' = [idleTimerDisabled EXCEPT ![d] = TRUE]
    /\ startTimer(d)
    /\ sessionRecordingStatusUpdate(d, TRUE)
    /\ homeLocked' = [homeLocked EXCEPT ![d] = TRUE]

startRecording(d, byHost) ==
    /\ startWaveform(d)
    /\ \/ ActivationFails
       \/ RecordFails(d, byHost)
       \/ RecordSucceeds(d, byHost)
    /\ UNCHANGED saveVars

Wrong_StopStaysAwake(d) ==
    /\ takes' = [takes EXCEPT ![d] = Close(d, "done")]
    /\ sessionRecordingStatusUpdate(d, FALSE)
    /\ homeLocked' = [homeLocked EXCEPT ![d] = FALSE]
    /\ resetWaveform(d)
    /\ alert' = [alert EXCEPT ![d] = TRUE]
    /\ UNCHANGED <<recorder, followed, library, idleTimerDisabled>>

\* The alert is presented by the view controller that may show one already;
\* UIKit then drops the second.
StopTake(d) ==
    /\ takes' = [takes EXCEPT ![d] = Close(d, "done")]
    /\ idleTimerDisabled' = [idleTimerDisabled EXCEPT ![d] = FALSE]
    /\ sessionRecordingStatusUpdate(d, FALSE)
    /\ homeLocked' = [homeLocked EXCEPT ![d] = FALSE]
    /\ resetWaveform(d)
    /\ alert' = [alert EXCEPT ![d] = TRUE]
    /\ UNCHANGED <<recorder, followed, library>>

endRecording(d) ==
    /\ resetTimer(d)
    /\ \/ /\ ~Recording(d)
          /\ UNCHANGED <<takeVars, waveVars, uiVars, saveVars, docVars>>
       \/ Recording(d) /\ StopTake(d)

Wrong_HandleUnlessAlert(g, hostStartRecording) ==
    IF hostStartRecording THEN startRecording(g, TRUE)
    ELSE IF alert[g]
         THEN UNCHANGED <<docVars, takeVars, recordTimer, waveVars, uiVars, saveVars>>
         ELSE endRecording(g)

Wrong_HandleUnlessRecording(g, hostStartRecording) ==
    IF hostStartRecording
    THEN IF Recording(g)
         THEN UNCHANGED <<docVars, takeVars, recordTimer, waveVars, uiVars, saveVars>>
         ELSE startRecording(g, TRUE)
    ELSE endRecording(g)

\* The listener's block on a guest's device, for any snapshot.
HandleSnapshot(g, hostStartRecording) ==
    IF hostStartRecording THEN startRecording(g, TRUE) ELSE endRecording(g)

-----------------------------------------------------------------------------
(* Actions of a device.                                                    *)

\* Joining a session opens the Studio, whose viewDidLoad attaches the
\* listener.  The host's own listener ignores hostStartRecording.
EnterStudio(d) ==
    /\ phase[d] = "out"
    /\ phase' = [phase EXCEPT ![d] = IF d = Host THEN "live" ELSE "attached"]
    /\ UNCHANGED <<docVars, seen, takeVars, recordTimer, waveVars, uiVars, saveVars>>

\* The record button.  The alert is modal: the button is out of reach while
\* it is shown.
recordAudio(d) ==
    /\ phase[d] # "out"
    /\ ~alert[d]
    /\ \/ ~Recording(d) /\ Len(takes[d]) < MaxTakes /\ startRecording(d, FALSE)
       \/ Recording(d) /\ endRecording(d)
    /\ UNCHANGED linkVars

Wrong_SaveKeepsAlert(d) ==
    /\ alert[d]
    /\ Len(library[d]) < MaxTakes
    /\ library' = [library EXCEPT ![d] = Append(@, recorder[d])]
    /\ UNCHANGED <<docVars, linkVars, takeVars, recordTimer, waveVars, uiVars, alert>>

\* The Save button of the alert: the URL is read from self.audioRecorder now,
\* not when the alert was made.
SaveRecording(d) ==
    /\ alert[d]
    /\ alert' = [alert EXCEPT ![d] = FALSE]
    /\ library' = [library EXCEPT ![d] = Append(@, recorder[d])]
    /\ UNCHANGED <<docVars, linkVars, takeVars, recordTimer, waveVars, uiVars>>

\* The Cancel button: clearRecording is empty.
CancelRecording(d) ==
    /\ alert[d]
    /\ alert' = [alert EXCEPT ![d] = FALSE]
    /\ UNCHANGED <<docVars, linkVars, takeVars, recordTimer, waveVars, uiVars, library>>

Wrong_ReceiveOnce(g) ==
    /\ phase[g] = "attached"
    /\ \E n \in seen[g] .. Len(log) :
         /\ seen' = [seen EXCEPT ![g] = n]
         /\ HandleSnapshot(g, log[n])
    /\ phase' = [phase EXCEPT ![g] = "live"]

\* A later version of the document reaches a guest's listener, perhaps
\* skipping some; the first snapshot may be the version the device has.
ReceiveSnapshot(g) ==
    /\ phase[g] # "out"
    /\ \E n \in seen[g] .. Len(log) :
         /\ phase[g] = "live" => n > seen[g]
         /\ seen' = [seen EXCEPT ![g] = n]
         /\ HandleSnapshot(g, log[n])
    /\ phase' = [phase EXCEPT ![g] = "live"]

\* The guest's device writes another field of the document (the status
\* switch, leaving or entering the foreground, an upload): its listener gets
\* the local result at once, with the flag as the device knows it.
ReceiveOwnWrite(g) ==
    /\ phase[g] = "live"
    /\ Len(takes[g]) < MaxTakes
    /\ HandleSnapshot(g, log[seen[g]])
    /\ UNCHANGED linkVars

-----------------------------------------------------------------------------
(* The server, and faults.                                                 *)

CommitHostWrite ==
    /\ queue # <<>>
    /\ log' = Append(log, Head(queue))
    /\ queue' = Tail(queue)
    /\ UNCHANGED <<linkVars, takeVars, recordTimer, waveVars, uiVars, saveVars>>

\* Somebody's write of another field: a new version with the same flag.
CommitOtherField ==
    /\ Len(log) < MaxDoc
    /\ log' = Append(log, log[Len(log)])
    /\ UNCHANGED <<queue, linkVars, takeVars, recordTimer, waveVars, uiVars, saveVars>>

\* A phone call, or the app suspended: the system stops the recorder and no
\* handler of the code runs.
Interrupt(d) ==
    /\ "interrupt" \in Faults
    /\ Recording(d)
    /\ takes' = [takes EXCEPT ![d] = Close(d, "cut")]
    /\ UNCHANGED <<docVars, linkVars, recorder, followed, recordTimer, waveVars,
                   uiVars, saveVars>>

\* The app ends.  The files stay; everything the view controllers hold is
\* gone; Firestore keeps its queue on disk.
Crash(d) ==
    /\ "crash" \in Faults
    /\ phase[d] # "out"
    /\ Len(takes[d]) <= MaxTakes
    /\ phase' = [phase EXCEPT ![d] = "out"]
    /\ takes' = [takes EXCEPT ![d] = Close(d, "cut")]
    /\ recorder' = [recorder EXCEPT ![d] = 0]
    /\ followed' = [followed EXCEPT ![d] = FALSE]
    /\ recordTimer' = [recordTimer EXCEPT ![d] = 0]
    /\ waveformTimer' = [waveformTimer EXCEPT ![d] = FALSE]
    /\ orphans' = [orphans EXCEPT ![d] = 0]
    /\ idleTimerDisabled' = [idleTimerDisabled EXCEPT ![d] = FALSE]
    /\ homeLocked' = [homeLocked EXCEPT ![d] = FALSE]
    /\ alert' = [alert EXCEPT ![d] = FALSE]
    /\ library' = [library EXCEPT ![d] = <<>>]
    /\ UNCHANGED <<docVars, seen>>

Next ==
    \/ \E d \in Devices :
         \/ EnterStudio(d) \/ recordAudio(d) \/ SaveRecording(d)
         \/ CancelRecording(d) \/ Interrupt(d) \/ Crash(d)
    \/ \E g \in Guests : ReceiveSnapshot(g) \/ ReceiveOwnWrite(g)
    \/ CommitHostWrite
    \/ CommitOtherField

Spec == Init /\ [][Next]_vars

\* Firestore keeps sending: the host's writes while its app runs, snapshots
\* to every attached listener.  Users and faults owe nothing.
FairSpec ==
    /\ Spec
    /\ WF_vars(phase[Host] # "out" /\ CommitHostWrite)
    /\ \A g \in Guests : WF_vars(ReceiveSnapshot(g))

-----------------------------------------------------------------------------

DocOK ==
    /\ log \in Seq(BOOLEAN) /\ Len(log) # 0
    /\ queue \in Seq(BOOLEAN)

LinkOK ==
    /\ phase \in [Devices -> {"out", "attached", "live"}]
    /\ seen \in [Devices -> Nat]
    /\ \A d \in Devices : seen[d] \in 1 .. Len(log)

TakeOK ==
    /\ takes \in [Devices -> Seq(TakeStates)]
    /\ recorder \in [Devices -> Nat]
    /\ \A d \in Devices : recorder[d] \in 0 .. Len(takes[d])
    /\ followed \in [Devices -> BOOLEAN]

DeviceOK ==
    /\ recordTimer \in [Devices -> Nat]
    /\ waveformTimer \in [Devices -> BOOLEAN]
    /\ orphans \in [Devices -> 0 .. MaxOrphans]
    /\ idleTimerDisabled \in [Devices -> BOOLEAN]
    /\ homeLocked \in [Devices -> BOOLEAN]
    /\ alert \in [Devices -> BOOLEAN]
    /\ library \in [Devices -> Seq(Nat)]

\* Type correctness; every index a device holds is one of a version or of a
\* take that exists.
TypeOK == DocOK /\ LinkOK /\ TakeOK /\ DeviceOK

\* The flag follows the host's recorder (RecordingSessionVC.m 352-354 and
\* 388-390): while the host records, the last value written is TRUE; and
\* unless an interruption or a crash may end a take behind the code's back,
\* or a failed start may replace a running recorder, it is TRUE only then.
FlagFollowsHost ==
    /\ Recording(Host) => Intended
    /\ Faults \intersect {"interrupt", "crash"} = {} => (Intended => Recording(Host))

\* A device that records keeps its screen on, its elapsed-time timer running
\* and its Home tab (log out, other sessions) locked, through restarts by
\* snapshots and stray calls of endRecording (which resets the timer before
\* it looks at the recorder); without faults it does so only then.
HoldsDevice(d) ==
    /\ Recording(d) =>
         idleTimerDisabled[d] /\ homeLocked[d] /\ recordTimer[d] # 0
    /\ Faults \intersect {"record", "interrupt"} = {} /\ ~Recording(d) =>
         ~idleTimerDisabled[d] /\ ~homeLocked[d]

RecordingHoldsDevice == \A d \in Devices : HoldsDevice(d)

\* What the host saves: entries of its library are takes that were ended by
\* endRecording, each saved once, though the Save handler reads the URL of
\* whatever recorder the controller has when it is tapped.
HostSavesFinishedTakes ==
    LET saved == library[Host] IN
    /\ \A i \in 1 .. Len(saved) : takes[Host][saved[i]] = "done"
    /\ \A i, j \in 1 .. Len(saved) : saved[i] = saved[j] => i = j

\* Inductive strengthening of HostSavesFinishedTakes: the alert on the host's
\* device is about a take that ended and that the library does not have.
HostAlertsOnce ==
    LET saved == library[Host] IN
    /\ \A i \in 1 .. Len(saved) : saved[i] \in 1 .. Len(takes[Host])
    /\ alert[Host] =>
         /\ recorder[Host] # 0
         /\ takes[Host][recorder[Host]] = "done"
         /\ \A i \in 1 .. Len(saved) : saved[i] # recorder[Host]

\* A guest that records for the host has seen no newer version that says the
\* host stopped.
FollowersObeyFlag ==
    \A g \in Guests : Following(g) => log[seen[g]]

\* The guests as followers of the host: the flag's history is that of the
\* document, and a guest is active while it records for the host.
Followers ==
    INSTANCE Follower WITH
        Followers <- Guests,
        MayFail <- Faults \intersect {"activation", "record"} # {},
        history <- log,
        position <- [g \in Guests |-> seen[g]],
        active <- [g \in Guests |-> Following(g)]

\* Whatever the users of the guests' devices tap, whatever writes of their own,
\* crashes and interruptions come between: a guest begins to record for the
\* host only at a version of the document that says the host records, and
\* with the version that says it does not it has stopped.  Where starting
\* cannot fail, it does begin, over a take of its own too.
GuestsAreFollowers == Followers!Spec

\* The timers of the host's Studio are those of the take it records.  Without
\* interruptions the time that is shown is that take's, though startTimer does
\* nothing while an older timer is scheduled; and if no start fails either, no
\* waveform timer is leaked: each one that a start schedules is reset.
HostTimersAreOfTake ==
    /\ "interrupt" \notin Faults /\ Recording(Host) =>
         recordTimer[Host] = recorder[Host]
    /\ Faults \subseteq {"crash"} => orphans[Host] = 0

\* A take that is over stays as it is: no later call reopens or rewrites the
\* file of an earlier take (each recorder has a new URL), and a take is only
\* ever added at the end.
TakesAreKept ==
    [][\A d \in Devices :
         /\ Len(takes[d]) <= Len(takes'[d])
         /\ \A n \in 1 .. Len(takes[d]) :
              takes[d][n] # "open" => takes'[d][n] = takes[d][n]]_vars

\* Once the host's stop is on its way, a guest that records for the host
\* stops, unless the host starts again or its app is gone.
GuestsStop ==
    \A g \in Guests :
      (Following(g) /\ ~Intended) ~>
        (~Following(g) \/ Intended \/ phase[Host] = "out")

\* "Step 1: Check if the recording started" (RecordingSessionVC.m 65): a
\* snapshot starts a take on a guest's device only when the flag it brings
\* has risen since the last one, or is the first one.
GuestStartsWhenFlagRises ==
    [][\A g \in Guests :
         Len(takes'[g]) > Len(takes[g]) /\ followed'[g] =>
           phase[g] = "attached" \/ ~log[seen[g]]]_vars
=============================================================================
