--------------------------- MODULE RecordingProofs ---------------------------
(* Proofs about Recording, for every host, set of guests, set of faults and  *)
(* bound.                                                                    *)
EXTENDS Recording, TLAPS

USE HostAssumption, FaultsAssumption, BoundsAssumption

-----------------------------------------------------------------------------
(* What the steps of the handlers do to the takes.                           *)

\* Closing the take a device writes keeps the number of its takes and every
\* other take.
LEMMA CloseLemma ==
    ASSUME TakeOK, NEW d \in Devices, NEW s \in TakeStates
    PROVE  /\ Close(d, s) \in Seq(TakeStates)
           /\ Len(Close(d, s)) = Len(takes[d])
           /\ \A n \in 1 .. Len(takes[d]) :
                takes[d][n] # "open" => Close(d, s)[n] = takes[d][n]
           /\ Recording(d) => Close(d, s)[recorder[d]] = s
           /\ ~Recording(d) => Close(d, s) = takes[d]
<1>1. takes[d] \in Seq(TakeStates) /\ recorder[d] \in 0 .. Len(takes[d])
  BY DEF TakeOK
<1>2. CASE ~Recording(d)
  BY <1>1, <1>2 DEF Close
<1>3. CASE Recording(d)
  <2>1. recorder[d] \in 1 .. Len(takes[d]) /\ takes[d][recorder[d]] = "open"
    BY <1>1, <1>3 DEF Recording
  <2>2. Close(d, s) = [takes[d] EXCEPT ![recorder[d]] = s]
    BY <1>3 DEF Close
  <2> QED  BY <1>1, <1>3, <2>1, <2>2
<1> QED  BY <1>2, <1>3

\* A handler's step on the takes, whatever handler it belongs to.
LEMMA PrepareType ==
    ASSUME TakeOK, NEW d \in Devices, NEW b \in BOOLEAN, NEW s \in TakeStates,
           prepareForNewRecording(d, b, s)
    PROVE  /\ TakeOK'
           /\ takes'[d] = Append(Close(d, "cut"), s)
           /\ Len(takes'[d]) = Len(takes[d]) + 1
           /\ recorder'[d] = Len(takes[d]) + 1
           /\ takes'[d][recorder'[d]] = s
<1>1. Close(d, "cut") \in Seq(TakeStates) /\ Len(Close(d, "cut")) = Len(takes[d])
  BY CloseLemma DEF TakeStates
<1>2. /\ Append(Close(d, "cut"), s) \in Seq(TakeStates)
      /\ Len(Append(Close(d, "cut"), s)) = Len(takes[d]) + 1
      /\ Append(Close(d, "cut"), s)[Len(takes[d]) + 1] = s
  BY <1>1
<1>3. Len(takes[d]) \in Nat
  BY DEF TakeOK
<1>4. /\ takes' = [takes EXCEPT ![d] = Append(Close(d, "cut"), s)]
      /\ recorder' = [recorder EXCEPT ![d] = Len(takes[d]) + 1]
      /\ followed' = [followed EXCEPT ![d] = b]
  BY DEF prepareForNewRecording
<1>5. takes'[d] = Append(Close(d, "cut"), s) /\ recorder'[d] = Len(takes[d]) + 1
  BY <1>4 DEF TakeOK
<1>6. takes' \in [Devices -> Seq(TakeStates)]
  BY <1>2, <1>4 DEF TakeOK
<1>7. recorder' \in [Devices -> Nat] /\ followed' \in [Devices -> BOOLEAN]
  BY <1>3, <1>4 DEF TakeOK
<1>8. ASSUME NEW e \in Devices PROVE recorder'[e] \in 0 .. Len(takes'[e])
  BY <1>2, <1>3, <1>4, <1>5 DEF TakeOK
<1> QED  BY <1>2, <1>5, <1>6, <1>7, <1>8 DEF TakeOK

\* A sequence over S stays one when an element of S is appended.
LEMMA AppendType ==
    ASSUME NEW S, NEW q \in Seq(S), NEW x \in S
    PROVE  Append(q, x) \in Seq(S)
OBVIOUS

\* The queue of flags a write leaves is one of flags, and not empty.
LEMMA WriteType ==
    ASSUME DocOK, NEW d \in Devices, NEW b \in BOOLEAN,
           sessionRecordingStatusUpdate(d, b)
    PROVE  DocOK' /\ log' = log
<1>1. log' = log /\ queue' = IF d = Host THEN Append(queue, b) ELSE queue
  BY DEF sessionRecordingStatusUpdate
<1>2. Append(queue, b) \in Seq(BOOLEAN)
  BY AppendType DEF DocOK
<1>3. queue' \in Seq(BOOLEAN)
  <2>1. CASE d = Host
    BY <1>1, <1>2, <2>1, Zenon
  <2>2. CASE d # Host
    BY <1>1, <2>2, Zenon DEF DocOK
  <2> QED  BY <2>1, <2>2
<1> QED  BY <1>1, <1>3, Zenon DEF DocOK

\* A commit adds one version and keeps those before it.
LEMMA CommitType ==
    ASSUME DocOK, NEW b \in BOOLEAN, log' = Append(log, b)
    PROVE  /\ log' \in Seq(BOOLEAN)
           /\ Len(log') = Len(log) + 1
           /\ log'[Len(log) + 1] = b
           /\ \A n \in 1 .. Len(log) : log'[n] = log[n]
<1> DEFINE S == BOOLEAN
<1>1. log \in Seq(S) /\ b \in S
  BY DEF DocOK
<1> HIDE DEF S
<1>2. /\ log' \in Seq(S)
      /\ Len(log') = Len(log) + 1
      /\ log'[Len(log) + 1] = b
      /\ \A n \in 1 .. Len(log) : log'[n] = log[n]
  BY <1>1
<1> QED  BY <1>2 DEF S

\* The versions listeners have stay versions of the document.
LEMMA CommitLink ==
    ASSUME DocOK, LinkOK, UNCHANGED linkVars, Len(log') = Len(log) + 1
    PROVE  LinkOK'
<1>1. Len(log) \in Nat
  BY DEF DocOK
<1> QED  BY <1>1 DEF LinkOK, linkVars

\* startRecording, in each of its three outcomes, keeps the types.
LEMMA StartType ==
    ASSUME TypeOK, NEW d \in Devices, NEW b \in BOOLEAN, startRecording(d, b)
    PROVE  DocOK' /\ TakeOK' /\ DeviceOK' /\ log' = log
<1>1. DocOK /\ TakeOK /\ DeviceOK /\ Len(takes[d]) \in Nat
  BY DEF TypeOK, TakeOK
<1>2. /\ waveformTimer' \in [Devices -> BOOLEAN]
      /\ orphans' \in [Devices -> 0 .. MaxOrphans]
      /\ UNCHANGED saveVars
  <2>1. waveformTimer' \in [Devices -> BOOLEAN] /\ UNCHANGED saveVars
    BY <1>1 DEF startRecording, startWaveform, DeviceOK
  <2>2. orphans[d] < MaxOrphans => orphans[d] + 1 \in 0 .. MaxOrphans
    BY <1>1 DEF DeviceOK
  <2>3. orphans' \in [Devices -> 0 .. MaxOrphans]
    BY <1>1, <2>2 DEF startRecording, startWaveform, DeviceOK
  <2> QED  BY <2>1, <2>3
<1>3. CASE ActivationFails
  BY <1>1, <1>2, <1>3
     DEF ActivationFails, takeVars, uiVars, docVars, saveVars, DocOK, TakeOK, DeviceOK
<1>4. CASE RecordFails(d, b)
  <2>1. TakeOK'
    BY <1>1, <1>4, PrepareType DEF RecordFails, TakeStates
  <2> QED
    BY <1>1, <1>2, <1>4, <2>1
       DEF RecordFails, uiVars, docVars, saveVars, DocOK, DeviceOK
<1>5. CASE RecordSucceeds(d, b)
  <2>1. TakeOK'
    BY <1>1, <1>5, PrepareType DEF RecordSucceeds, TakeStates
  <2>2. /\ recordTimer' \in [Devices -> Nat]
        /\ idleTimerDisabled' \in [Devices -> BOOLEAN]
        /\ homeLocked' \in [Devices -> BOOLEAN]
    BY <1>1, <1>5 DEF RecordSucceeds, startTimer, DeviceOK
  <2>3. DocOK' /\ log' = log
    BY <1>1, <1>5, WriteType DEF RecordSucceeds
  <2> QED
    BY <1>1, <1>2, <2>1, <2>2, <2>3 DEF saveVars, DeviceOK
<1> QED  BY <1>3, <1>4, <1>5 DEF startRecording

\* endRecording keeps the types, whether or not the device records.
LEMMA EndType ==
    ASSUME TypeOK, NEW d \in Devices, endRecording(d)
    PROVE  DocOK' /\ TakeOK' /\ DeviceOK' /\ log' = log
<1>1. DocOK /\ TakeOK /\ DeviceOK
  BY DEF TypeOK
<1>2. recordTimer' \in [Devices -> Nat]
  BY <1>1 DEF endRecording, resetTimer, DeviceOK
<1>3. CASE ~Recording(d)
  <2>1. UNCHANGED <<takeVars, waveVars, uiVars, saveVars, docVars>>
    BY <1>3 DEF endRecording
  <2> QED
    BY <1>1, <1>2, <2>1
       DEF takeVars, waveVars, uiVars, saveVars, docVars, DocOK, TakeOK, DeviceOK
<1>4. CASE Recording(d)
  <2>1. StopTake(d)
    BY <1>4 DEF endRecording
  <2>2. Close(d, "done") \in Seq(TakeStates) /\ Len(Close(d, "done")) = Len(takes[d])
    BY <1>1, CloseLemma DEF TakeStates
  <2>3. TakeOK'
    BY <1>1, <2>1, <2>2 DEF StopTake, TakeOK
  <2>4. DocOK' /\ log' = log
    BY <1>1, <2>1, WriteType DEF StopTake
  <2>5. DeviceOK'
    BY <1>1, <1>2, <2>1 DEF StopTake, resetWaveform, DeviceOK
  <2> QED  BY <2>3, <2>4, <2>5
<1> QED  BY <1>3, <1>4

\* So does a snapshot's handler, whatever flag the snapshot carries.
LEMMA HandleSnapshotType ==
    ASSUME TypeOK, NEW g \in Guests, NEW flag \in BOOLEAN, HandleSnapshot(g, flag)
    PROVE  DocOK' /\ TakeOK' /\ DeviceOK' /\ log' = log
<1>1. g \in Devices
  BY DEF Devices
<1> QED  BY <1>1, StartType, EndType DEF HandleSnapshot

-----------------------------------------------------------------------------

\* The types hold when the app has just started everywhere.
LEMMA TypeInit == Init => TypeOK
BY DEF Init, TypeOK, DocOK, LinkOK, TakeOK, DeviceOK, Devices

\* Every callback, commit and fault keeps the types.
LEMMA TypeStep == TypeOK /\ [Next]_vars => TypeOK'
<1> SUFFICES ASSUME TypeOK, [Next]_vars PROVE TypeOK'
  OBVIOUS
<1>1. DocOK /\ LinkOK /\ TakeOK /\ DeviceOK
  BY DEF TypeOK
<1>2. ASSUME NEW d \in Devices, EnterStudio(d) PROVE TypeOK'
  BY <1>1, <1>2 DEF EnterStudio, docVars, takeVars, waveVars, uiVars, saveVars,
     TypeOK, DocOK, LinkOK, TakeOK, DeviceOK
<1>3. ASSUME NEW d \in Devices, recordAudio(d) PROVE TypeOK'
  <2>1. DocOK' /\ TakeOK' /\ DeviceOK' /\ log' = log
    BY <1>3, StartType, EndType DEF recordAudio
  <2>2. LinkOK'
    BY <1>1, <1>3, <2>1 DEF recordAudio, linkVars, LinkOK
  <2> QED  BY <2>1, <2>2 DEF TypeOK
<1>4. ASSUME NEW d \in Devices, SaveRecording(d) PROVE TypeOK'
  <2>1. library' \in [Devices -> Seq(Nat)] /\ alert' \in [Devices -> BOOLEAN]
    BY <1>1, <1>4 DEF SaveRecording, TakeOK, DeviceOK
  <2> QED
    BY <1>1, <1>4, <2>1 DEF SaveRecording, docVars, linkVars, takeVars, waveVars,
       uiVars, TypeOK, DocOK, LinkOK, TakeOK, DeviceOK
<1>5. ASSUME NEW d \in Devices, CancelRecording(d) PROVE TypeOK'
  BY <1>1, <1>5 DEF CancelRecording, docVars, linkVars, takeVars, waveVars, uiVars,
     TypeOK, DocOK, LinkOK, TakeOK, DeviceOK
<1>6. ASSUME NEW d \in Devices, Interrupt(d) PROVE TypeOK'
  <2>1. TakeOK'
    BY <1>1, <1>6, CloseLemma DEF Interrupt, TakeOK, TakeStates
  <2> QED
    BY <1>1, <1>6, <2>1 DEF Interrupt, docVars, linkVars, waveVars, uiVars, saveVars,
       TypeOK, DocOK, LinkOK, DeviceOK
<1>7. ASSUME NEW d \in Devices, Crash(d) PROVE TypeOK'
  <2>1. TakeOK'
    BY <1>1, <1>7, CloseLemma DEF Crash, TakeOK, TakeStates
  <2>2. DeviceOK'
    BY <1>1, <1>7 DEF Crash, DeviceOK
  <2> QED
    BY <1>1, <1>7, <2>1, <2>2 DEF Crash, docVars, TypeOK, DocOK, LinkOK
<1>8. ASSUME NEW g \in Guests, ReceiveSnapshot(g) PROVE TypeOK'
  <2>1. PICK n \in seen[g] .. Len(log) :
           /\ seen' = [seen EXCEPT ![g] = n]
           /\ HandleSnapshot(g, log[n])
    BY <1>8 DEF ReceiveSnapshot
  <2>2. n \in Nat /\ n \in 1 .. Len(log) /\ log[n] \in BOOLEAN
    BY <1>1 DEF DocOK, LinkOK, Devices
  <2>3. DocOK' /\ TakeOK' /\ DeviceOK' /\ log' = log
    BY <2>1, <2>2, HandleSnapshotType
  <2>4. LinkOK'
    <3>1. seen' \in [Devices -> Nat] /\ phase' \in [Devices -> {"out", "attached", "live"}]
      BY <1>1, <1>8, <2>1, <2>2 DEF ReceiveSnapshot, LinkOK
    <3>2. \A d \in Devices : seen'[d] \in 1 .. Len(log')
      BY <1>1, <2>1, <2>2, <2>3 DEF LinkOK
    <3> QED  BY <3>1, <3>2 DEF LinkOK
  <2> QED  BY <2>3, <2>4 DEF TypeOK
<1>9. ASSUME NEW g \in Guests, ReceiveOwnWrite(g) PROVE TypeOK'
  <2>1. log[seen[g]] \in BOOLEAN
    BY <1>1 DEF DocOK, LinkOK, Devices
  <2>2. DocOK' /\ TakeOK' /\ DeviceOK' /\ log' = log
    BY <1>9, <2>1, HandleSnapshotType DEF ReceiveOwnWrite
  <2>3. LinkOK'
    BY <1>1, <1>9, <2>2 DEF ReceiveOwnWrite, linkVars, LinkOK
  <2> QED  BY <2>2, <2>3 DEF TypeOK
<1>10. CASE CommitHostWrite
  <2>1. Head(queue) \in BOOLEAN /\ Tail(queue) \in Seq(BOOLEAN)
    BY <1>1, <1>10 DEF CommitHostWrite, DocOK
  <2>2. log' \in Seq(BOOLEAN) /\ Len(log') = Len(log) + 1
    BY <1>1, <1>10, <2>1, CommitType DEF CommitHostWrite
  <2>3. DocOK' /\ LinkOK'
    BY <1>1, <1>10, <2>1, <2>2, CommitLink DEF CommitHostWrite, DocOK
  <2> QED
    BY <1>1, <1>10, <2>3 DEF CommitHostWrite, takeVars, waveVars, uiVars, saveVars,
       TypeOK, TakeOK, DeviceOK
<1>11. CASE CommitOtherField
  <2>1. log[Len(log)] \in BOOLEAN
    BY <1>1 DEF DocOK
  <2>2. log' \in Seq(BOOLEAN) /\ Len(log') = Len(log) + 1
    BY <1>1, <1>11, <2>1, CommitType DEF CommitOtherField
  <2>3. DocOK' /\ LinkOK'
    BY <1>1, <1>11, <2>2, CommitLink DEF CommitOtherField, DocOK
  <2> QED
    BY <1>1, <1>11, <2>3 DEF CommitOtherField, takeVars, waveVars, uiVars, saveVars,
       TypeOK, TakeOK, DeviceOK
<1>12. CASE UNCHANGED vars
  BY <1>1, <1>12 DEF vars, docVars, linkVars, takeVars, waveVars, uiVars, saveVars,
     TypeOK, DocOK, LinkOK, TakeOK, DeviceOK
<1> QED
  BY <1>2, <1>3, <1>4, <1>5, <1>6, <1>7, <1>8, <1>9, <1>10, <1>11, <1>12 DEF Next

\* Type correctness of Recording (RecordingSessionVC.m, Session.m): every
\* recorder, timer and library entry of a device is one of its takes, and
\* every listener has a version of the document that exists.
THEOREM TypeCorrect == Spec => []TypeOK
<1>1. QED  BY TypeInit, TypeStep, PTL DEF Spec

-----------------------------------------------------------------------------
(* What the handlers do to the device that runs them, and to no other.       *)

\* Everything a device keeps, except its library and alert.
Same(e) ==
    /\ takes'[e] = takes[e] /\ recorder'[e] = recorder[e]
    /\ followed'[e] = followed[e] /\ recordTimer'[e] = recordTimer[e]
    /\ idleTimerDisabled'[e] = idleTimerDisabled[e]
    /\ homeLocked'[e] = homeLocked[e]

\* A device that keeps its recorder and takes goes on recording, or not.
LEMMA SameRecording ==
    ASSUME NEW e, Same(e) PROVE (Recording(e)' <=> Recording(e))
BY DEF Same, Recording

\* startRecording touches no other device.
LEMMA StartFrame ==
    ASSUME TypeOK, NEW d \in Devices, NEW b \in BOOLEAN, startRecording(d, b),
           NEW e \in Devices, e # d
    PROVE  Same(e)
<1>1. CASE ActivationFails
  BY <1>1 DEF ActivationFails, takeVars, uiVars, Same
<1>2. CASE RecordFails(d, b)
  BY <1>2 DEF RecordFails, prepareForNewRecording, uiVars, Same, TypeOK, TakeOK
<1>3. CASE RecordSucceeds(d, b)
  BY <1>3 DEF RecordSucceeds, prepareForNewRecording, startTimer, Same, TypeOK,
     TakeOK, DeviceOK
<1> QED  BY <1>1, <1>2, <1>3 DEF startRecording

\* endRecording touches no other device.
LEMMA EndFrame ==
    ASSUME TypeOK, NEW d \in Devices, endRecording(d), NEW e \in Devices, e # d
    PROVE  Same(e)
<1>1. CASE ~Recording(d)
  BY <1>1 DEF endRecording, resetTimer, takeVars, uiVars, Same, TypeOK, DeviceOK
<1>2. CASE Recording(d)
  BY <1>2 DEF endRecording, resetTimer, StopTake, Same, TypeOK, TakeOK, DeviceOK
<1> QED  BY <1>1, <1>2

\* The new take of a start that succeeds is open, and everything that goes
\* with a running recorder is switched on.
LEMMA SuccessEffect ==
    ASSUME TypeOK, NEW d \in Devices, NEW b \in BOOLEAN, RecordSucceeds(d, b)
    PROVE  /\ Recording(d)'
           /\ idleTimerDisabled'[d] /\ homeLocked'[d] /\ recordTimer'[d] # 0
           /\ followed'[d] = b
           /\ sessionRecordingStatusUpdate(d, TRUE)
<1>1. TakeOK /\ DeviceOK /\ Len(takes[d]) \in Nat
  BY DEF TypeOK, TakeOK
<1>2. prepareForNewRecording(d, b, "open")
  BY DEF RecordSucceeds
<1>3. recorder'[d] = Len(takes[d]) + 1 /\ takes'[d][recorder'[d]] = "open"
  BY <1>1, <1>2, PrepareType DEF TakeStates
<1>4. Recording(d)'
  BY <1>1, <1>3 DEF Recording
<1>5. followed'[d] = b
  BY <1>1, <1>2 DEF prepareForNewRecording, TakeOK
<1>6. recordTimer'[d] # 0
  BY <1>1 DEF RecordSucceeds, startTimer, DeviceOK
<1>7. idleTimerDisabled'[d] /\ homeLocked'[d]
  BY <1>1 DEF RecordSucceeds, DeviceOK
<1> QED  BY <1>4, <1>5, <1>6, <1>7 DEF RecordSucceeds

\* After a start that fails at record the device does not record.
LEMMA FailureEffect ==
    ASSUME TypeOK, NEW d \in Devices, NEW b \in BOOLEAN, RecordFails(d, b)
    PROVE  ~Recording(d)' /\ "record" \in Faults /\ UNCHANGED <<log, queue>>
<1>1. takes'[d][recorder'[d]] = "empty"
  BY PrepareType DEF RecordFails, TypeOK, TakeStates
<1> QED  BY <1>1 DEF RecordFails, Recording, docVars

\* Closing the take a device writes ends its recording.
LEMMA CloseEffect ==
    ASSUME TypeOK, NEW d \in Devices, NEW s \in TakeStates, s # "open",
           takes' = [takes EXCEPT ![d] = Close(d, s)],
           recorder' = recorder
    PROVE  ~Recording(d)'
<1>1. takes'[d] = Close(d, s)
  BY DEF TypeOK, TakeOK
<1>2. CASE Recording(d)
  BY <1>1, <1>2, CloseLemma DEF TypeOK, Recording
<1>3. CASE ~Recording(d)
  BY <1>1, <1>3, CloseLemma DEF TypeOK, Recording
<1> QED  BY <1>2, <1>3

\* endRecording leaves a device that does not record; one that did has its
\* screen and its Home tab back, and the host has written FALSE.
LEMMA EndEffect ==
    ASSUME TypeOK, NEW d \in Devices, endRecording(d)
    PROVE  /\ ~Recording(d)'
           /\ Recording(d) =>
                /\ ~idleTimerDisabled'[d] /\ ~homeLocked'[d]
                /\ sessionRecordingStatusUpdate(d, FALSE)
           /\ ~Recording(d) =>
                /\ UNCHANGED <<log, queue, alert, library>>
                /\ takes' = takes /\ recorder' = recorder
                /\ idleTimerDisabled'[d] = idleTimerDisabled[d]
                /\ homeLocked'[d] = homeLocked[d]
<1>1. CASE ~Recording(d)
  BY <1>1 DEF endRecording, takeVars, uiVars, docVars, saveVars, Recording
<1>2. CASE Recording(d)
  <2>1. StopTake(d)
    BY <1>2 DEF endRecording
  <2>2. ~Recording(d)'
    BY <2>1, CloseEffect DEF StopTake, TakeStates
  <2>3. ~idleTimerDisabled'[d] /\ ~homeLocked'[d]
    BY <2>1 DEF StopTake, TypeOK, DeviceOK
  <2> QED  BY <1>2, <2>1, <2>2, <2>3 DEF StopTake
<1> QED  BY <1>1, <1>2

-----------------------------------------------------------------------------
(* A running recorder keeps the screen on, its timer running and the Home    *)
(* tab locked.                                                               *)

\* startRecording keeps recorder, screen, timer and Home tab in step.
LEMMA StartHolds ==
    ASSUME TypeOK, RecordingHoldsDevice, NEW d \in Devices, NEW b \in BOOLEAN,
           startRecording(d, b)
    PROVE  RecordingHoldsDevice'
<1>1. ASSUME NEW e \in Devices, e # d PROVE HoldsDevice(e)'
  BY <1>1, StartFrame, SameRecording DEF RecordingHoldsDevice, HoldsDevice, Same
<1>2. HoldsDevice(d)'
  <2>1. CASE ActivationFails
    BY <2>1 DEF ActivationFails, takeVars, uiVars, RecordingHoldsDevice, HoldsDevice,
       Recording
  <2>2. CASE RecordFails(d, b)
    BY <2>2, FailureEffect DEF HoldsDevice
  <2>3. CASE RecordSucceeds(d, b)
    BY <2>3, SuccessEffect DEF HoldsDevice
  <2> QED  BY <2>1, <2>2, <2>3 DEF startRecording
<1> QED  BY <1>1, <1>2 DEF RecordingHoldsDevice

\* So does endRecording, which resets the timer before it looks at the
\* recorder.
LEMMA EndHolds ==
    ASSUME TypeOK, RecordingHoldsDevice, NEW d \in Devices, endRecording(d)
    PROVE  RecordingHoldsDevice'
<1>1. ASSUME NEW e \in Devices, e # d PROVE HoldsDevice(e)'
  BY <1>1, EndFrame, SameRecording DEF RecordingHoldsDevice, HoldsDevice, Same
<1>2. HoldsDevice(d)'
  BY EndEffect DEF RecordingHoldsDevice, HoldsDevice
<1> QED  BY <1>1, <1>2 DEF RecordingHoldsDevice

\* So does every step of the system.
LEMMA HoldsStep == TypeOK /\ RecordingHoldsDevice /\ [Next]_vars => RecordingHoldsDevice'
<1> SUFFICES ASSUME TypeOK, RecordingHoldsDevice, [Next]_vars
             PROVE  RecordingHoldsDevice'
  OBVIOUS
<1> USE DEF RecordingHoldsDevice, HoldsDevice
<1>1. ASSUME NEW d \in Devices, EnterStudio(d) PROVE RecordingHoldsDevice'
  BY <1>1 DEF EnterStudio, takeVars, uiVars, Recording
<1>2. ASSUME NEW d \in Devices, recordAudio(d) PROVE RecordingHoldsDevice'
  BY <1>2, StartHolds, EndHolds DEF recordAudio
<1>3. ASSUME NEW d \in Devices, SaveRecording(d) PROVE RecordingHoldsDevice'
  BY <1>3 DEF SaveRecording, takeVars, uiVars, Recording
<1>4. ASSUME NEW d \in Devices, CancelRecording(d) PROVE RecordingHoldsDevice'
  BY <1>4 DEF CancelRecording, takeVars, uiVars, Recording
<1>5. ASSUME NEW d \in Devices, Interrupt(d) PROVE RecordingHoldsDevice'
  <2>1. ~Recording(d)' /\ "interrupt" \in Faults
    BY <1>5, CloseEffect DEF Interrupt, TakeStates
  <2>2. ASSUME NEW e \in Devices, e # d PROVE Same(e)
    BY <1>5, <2>2 DEF Interrupt, uiVars, Same, TypeOK, TakeOK
  <2> QED  BY <2>1, <2>2, SameRecording DEF Same
<1>6. ASSUME NEW d \in Devices, Crash(d) PROVE RecordingHoldsDevice'
  <2>1. ~Recording(d)' /\ ~idleTimerDisabled'[d] /\ ~homeLocked'[d]
    BY <1>6 DEF Crash, Recording, TypeOK, TakeOK, DeviceOK
  <2>2. ASSUME NEW e \in Devices, e # d PROVE Same(e)
    BY <1>6, <2>2 DEF Crash, Same, TypeOK, TakeOK, DeviceOK
  <2> QED  BY <2>1, <2>2, SameRecording DEF Same
<1>7. ASSUME NEW g \in Guests, NEW flag \in BOOLEAN, HandleSnapshot(g, flag)
      PROVE  RecordingHoldsDevice'
  BY <1>7, StartHolds, EndHolds DEF HandleSnapshot, Devices
<1>8. ASSUME NEW g \in Guests, ReceiveSnapshot(g) PROVE RecordingHoldsDevice'
  <2>1. PICK n \in seen[g] .. Len(log) : HandleSnapshot(g, log[n])
    BY <1>8 DEF ReceiveSnapshot
  <2>2. log[n] \in BOOLEAN
    BY DEF TypeOK, DocOK, LinkOK, Devices
  <2> QED  BY <1>7, <2>1, <2>2
<1>9. ASSUME NEW g \in Guests, ReceiveOwnWrite(g) PROVE RecordingHoldsDevice'
  <2>1. log[seen[g]] \in BOOLEAN
    BY DEF TypeOK, DocOK, LinkOK, Devices
  <2> QED  BY <1>7, <1>9, <2>1 DEF ReceiveOwnWrite
<1>10. CASE CommitHostWrite
  BY <1>10 DEF CommitHostWrite, takeVars, uiVars, Recording
<1>11. CASE CommitOtherField
  BY <1>11 DEF CommitOtherField, takeVars, uiVars, Recording
<1>12. CASE UNCHANGED vars
  BY <1>12 DEF vars, takeVars, uiVars, Recording
<1> QED
  BY <1>1, <1>2, <1>3, <1>4, <1>5, <1>6, <1>8, <1>9, <1>10, <1>11, <1>12 DEF Next

\* "Disable idle timer so screen doesn't dim or lock when recording"
\* (RecordingSessionVC.m 348), and the tabs and the timer with it: whatever
\* snapshots and failures do to the recorder, startRecording and endRecording
\* never leave it running without them; and only interruptions and failed
\* starts leave them on without a running recorder.
THEOREM RecordingIsHeld == Spec => []RecordingHoldsDevice
<1>1. Init => RecordingHoldsDevice
  BY DEF Init, RecordingHoldsDevice, HoldsDevice, Recording
<1>2. QED  BY <1>1, HoldsStep, TypeCorrect, PTL DEF Spec

-----------------------------------------------------------------------------
(* The flag in the document and the host's recorder.                         *)

\* The last element of a sequence after an append.
LEMMA LastOfAppend ==
    ASSUME NEW S, NEW q \in Seq(S), NEW x \in S
    PROVE  Append(q, x) # <<>> /\ Append(q, x)[Len(Append(q, x))] = x
OBVIOUS

\* A commit from the front of a queue leaves its last write alone.
LEMMA LastOfTail ==
    ASSUME NEW S, NEW q \in Seq(S), Tail(q) # <<>>, q # <<>>
    PROVE  Tail(q)[Len(Tail(q))] = q[Len(q)]
OBVIOUS

\* Unless that was its only one.
LEMMA LastOfOne ==
    ASSUME NEW S, NEW q \in Seq(S), Tail(q) = <<>>, q # <<>>
    PROVE  Head(q) = q[Len(q)]
<1>1. Len(q) \in Nat /\ Len(q) # 0
  OBVIOUS
<1>2. Len(Tail(q)) = Len(q) - 1
  BY <1>1
<1>3. Len(Tail(q)) = 0
  <2>1. Len(<<>>) = 0
    OBVIOUS
  <2> QED  BY <2>1, Zenon
<1>4. Len(q) = 1
  BY <1>1, <1>2, <1>3
<1> QED  BY <1>4

\* The host's write is what the document will say.
LEMMA WriteIntends ==
    ASSUME DocOK, NEW b \in BOOLEAN, sessionRecordingStatusUpdate(Host, b)
    PROVE  Intended' = b
<1>1. queue' = Append(queue, b)
  BY DEF sessionRecordingStatusUpdate
<1>2. queue' # <<>> /\ queue'[Len(queue')] = b
  BY <1>1, LastOfAppend DEF DocOK
<1> QED  BY <1>2, Zenon DEF Intended

\* Commits do not change it.
LEMMA CommitIntends ==
    ASSUME DocOK, CommitHostWrite \/ CommitOtherField
    PROVE  Intended' = Intended
<1>1. CASE CommitHostWrite
  <2>1. /\ queue # <<>> /\ queue \in Seq(BOOLEAN) /\ Head(queue) \in BOOLEAN
        /\ log' = Append(log, Head(queue)) /\ queue' = Tail(queue)
    BY <1>1 DEF CommitHostWrite, DocOK
  <2>2. Intended = queue[Len(queue)]
    BY <2>1, Zenon DEF Intended
  <2>3. CASE Tail(queue) = <<>>
    <3>1. log'[Len(log')] = Head(queue)
      BY <2>1, LastOfAppend DEF DocOK
    <3>2. Head(queue) = queue[Len(queue)]
      BY <2>1, <2>3, LastOfOne
    <3>3. Intended' = log'[Len(log')]
      BY <2>1, <2>3, Zenon DEF Intended
    <3> QED  BY <2>2, <3>1, <3>2, <3>3, Zenon
  <2>4. CASE Tail(queue) # <<>>
    <3>1. Intended' = Tail(queue)[Len(Tail(queue))]
      BY <2>1, <2>4, Zenon DEF Intended
    <3>2. Tail(queue)[Len(Tail(queue))] = queue[Len(queue)]
      BY <2>1, <2>4, LastOfTail
    <3> QED  BY <2>2, <3>1, <3>2, Zenon
  <2> QED  BY <2>3, <2>4
<1>2. CASE CommitOtherField
  <2>1. log[Len(log)] \in BOOLEAN /\ log \in Seq(BOOLEAN)
    BY DEF DocOK
  <2>2. log' = Append(log, log[Len(log)]) /\ queue' = queue
    BY <1>2 DEF CommitOtherField
  <2>3. log'[Len(log')] = log[Len(log)]
    BY <2>1, <2>2, LastOfAppend
  <2> QED  BY <2>2, <2>3, Zenon DEF Intended
<1> QED  BY <1>1, <1>2

\* A handler that runs on the host's device.
LEMMA HostStartFlag ==
    ASSUME TypeOK, FlagFollowsHost, ~Recording(Host), startRecording(Host, FALSE)
    PROVE  FlagFollowsHost'
<1>1. Host \in Devices /\ DocOK
  BY DEF Devices, TypeOK
<1>2. CASE ActivationFails
  BY <1>2 DEF ActivationFails, takeVars, docVars, FlagFollowsHost, Recording, Intended
<1>3. CASE RecordFails(Host, FALSE)
  <2>1. ~Recording(Host)' /\ UNCHANGED <<log, queue>>
    BY <1>1, <1>3, FailureEffect
  <2> QED  BY <2>1 DEF FlagFollowsHost, Intended
<1>4. CASE RecordSucceeds(Host, FALSE)
  <2>1. Recording(Host)' /\ sessionRecordingStatusUpdate(Host, TRUE)
    BY <1>1, <1>4, SuccessEffect
  <2>2. Intended'
    BY <1>1, <2>1, WriteIntends
  <2> QED  BY <2>1, <2>2 DEF FlagFollowsHost
<1> QED  BY <1>2, <1>3, <1>4 DEF startRecording

\* The host ends a take: the flag it writes is FALSE.
LEMMA HostEndFlag ==
    ASSUME TypeOK, FlagFollowsHost, Recording(Host), endRecording(Host)
    PROVE  FlagFollowsHost'
<1>1. Host \in Devices /\ DocOK
  BY DEF Devices, TypeOK
<1>2. ~Recording(Host)' /\ sessionRecordingStatusUpdate(Host, FALSE)
  BY <1>1, EndEffect
<1>3. ~Intended'
  BY <1>1, <1>2, WriteIntends
<1> QED  BY <1>2, <1>3 DEF FlagFollowsHost

\* The same handlers on a guest's device write nothing.
LEMMA GuestWritesNothing ==
    ASSUME TypeOK, NEW g \in Guests, NEW b \in BOOLEAN,
           startRecording(g, b) \/ endRecording(g)
    PROVE  UNCHANGED <<log, queue>> /\ Same(Host)
<1>1. g \in Devices /\ Host \in Devices /\ g # Host
  BY DEF Devices
<1>2. Same(Host)
  BY <1>1, StartFrame, EndFrame
<1>3. ASSUME startRecording(g, b) PROVE UNCHANGED <<log, queue>>
  BY <1>1, <1>3 DEF startRecording, ActivationFails, RecordFails, RecordSucceeds,
     sessionRecordingStatusUpdate, docVars
<1>4. ASSUME endRecording(g) PROVE UNCHANGED <<log, queue>>
  BY <1>1, <1>4 DEF endRecording, StopTake, sessionRecordingStatusUpdate, docVars
<1> QED  BY <1>2, <1>3, <1>4

\* Every step keeps flag and recorder in step: those of a guest write nothing.
LEMMA FlagStep == TypeOK /\ FlagFollowsHost /\ [Next]_vars => FlagFollowsHost'
<1> SUFFICES ASSUME TypeOK, FlagFollowsHost, [Next]_vars PROVE FlagFollowsHost'
  OBVIOUS
<1>1. DocOK /\ LinkOK /\ Host \in Devices
  BY DEF TypeOK, Devices
<1>2. ASSUME UNCHANGED <<log, queue>>, Same(Host) PROVE FlagFollowsHost'
  BY <1>2, SameRecording DEF FlagFollowsHost, Intended
<1>3. ASSUME NEW d \in Devices, EnterStudio(d) PROVE FlagFollowsHost'
  BY <1>2, <1>3 DEF EnterStudio, docVars, takeVars, uiVars, Same
<1>4. ASSUME NEW d \in Devices, recordAudio(d) PROVE FlagFollowsHost'
  <2>1. CASE d = Host
    BY <1>4, <2>1, HostStartFlag, HostEndFlag DEF recordAudio
  <2>2. CASE d # Host
    <3>1. d \in Guests
      BY <2>2 DEF Devices
    <3> QED  BY <1>2, <1>4, <3>1, GuestWritesNothing DEF recordAudio
  <2> QED  BY <2>1, <2>2
<1>5. ASSUME NEW d \in Devices, SaveRecording(d) PROVE FlagFollowsHost'
  BY <1>2, <1>5 DEF SaveRecording, docVars, takeVars, uiVars, Same
<1>6. ASSUME NEW d \in Devices, CancelRecording(d) PROVE FlagFollowsHost'
  BY <1>2, <1>6 DEF CancelRecording, docVars, takeVars, uiVars, Same
<1>7. ASSUME NEW d \in Devices, Interrupt(d) PROVE FlagFollowsHost'
  <2>1. CASE d = Host
    BY <1>1, <1>7, <2>1, CloseEffect DEF Interrupt, TakeStates, FlagFollowsHost
  <2>2. CASE d # Host
    BY <1>1, <1>2, <1>7, <2>2 DEF Interrupt, docVars, uiVars, Same, TypeOK, TakeOK
  <2> QED  BY <2>1, <2>2
<1>8. ASSUME NEW d \in Devices, Crash(d) PROVE FlagFollowsHost'
  <2>1. CASE d = Host
    <3>1. ~Recording(Host)'
      BY <1>1, <1>8, <2>1 DEF Crash, Recording, TypeOK, TakeOK
    <3> QED  BY <1>8, <3>1 DEF Crash, FlagFollowsHost
  <2>2. CASE d # Host
    BY <1>1, <1>2, <1>8, <2>2 DEF Crash, docVars, Same, TypeOK, TakeOK, DeviceOK
  <2> QED  BY <2>1, <2>2
<1>9. ASSUME NEW g \in Guests, NEW flag, HandleSnapshot(g, flag)
      PROVE  FlagFollowsHost'
  BY <1>2, <1>9, GuestWritesNothing DEF HandleSnapshot
<1>10. ASSUME NEW g \in Guests, ReceiveSnapshot(g) PROVE FlagFollowsHost'
  BY <1>9, <1>10 DEF ReceiveSnapshot
<1>11. ASSUME NEW g \in Guests, ReceiveOwnWrite(g) PROVE FlagFollowsHost'
  BY <1>9, <1>11 DEF ReceiveOwnWrite
<1>12. CASE CommitHostWrite \/ CommitOtherField
  <2>1. Intended' = Intended
    BY <1>1, <1>12, CommitIntends
  <2>2. Recording(Host)' <=> Recording(Host)
    BY <1>12 DEF CommitHostWrite, CommitOtherField, takeVars, Recording
  <2> QED  BY <2>1, <2>2 DEF FlagFollowsHost
<1>13. CASE UNCHANGED vars
  BY <1>2, <1>13 DEF vars, docVars, takeVars, uiVars, Same
<1> QED
  BY <1>3, <1>4, <1>5, <1>6, <1>7, <1>8, <1>10, <1>11, <1>12, <1>13 DEF Next

\* hostStartRecording follows the host's recorder (startRecording and
\* endRecording, RecordingSessionVC.m 352-354 and 388-390) through the queue
\* of writes, for any number of guests: TRUE is on its way whenever the host
\* records, and without interruptions and crashes only then.
THEOREM FlagIsFaithful == Spec => []FlagFollowsHost
<1>1. Init => FlagFollowsHost
  <2> SUFFICES ASSUME Init PROVE FlagFollowsHost
    OBVIOUS
  <2>1. recorder[Host] = 0
    BY DEF Init, Devices
  <2>2. queue = <<>> /\ ~log[Len(log)]
    BY DEF Init
  <2>3. ~Intended
    BY <2>2, Zenon DEF Intended
  <2> QED  BY <2>1, <2>3 DEF FlagFollowsHost, Recording
<1>2. QED  BY <1>1, FlagStep, TypeCorrect, PTL DEF Spec

-----------------------------------------------------------------------------
(* Guests and the flag they have seen.                                       *)

Obeys(g) == Following(g) => log[seen[g]]

\* Steps that leave a guest's recorder and its version alone keep it obedient.
LEMMA ObeysFrame ==
    ASSUME TypeOK, FollowersObeyFlag, NEW g \in Guests, Same(g),
           UNCHANGED <<log, seen>>
    PROVE  Obeys(g)'
BY SameRecording DEF Same, FollowersObeyFlag, Following, Obeys

\* Every step keeps the guests obedient to the flag they know.
LEMMA ObeysStep == TypeOK /\ FollowersObeyFlag /\ [Next]_vars => FollowersObeyFlag'
<1> SUFFICES ASSUME TypeOK, FollowersObeyFlag, [Next]_vars, NEW g \in Guests
             PROVE  Obeys(g)'
  BY DEF FollowersObeyFlag, Obeys
<1>1. g \in Devices /\ DocOK /\ LinkOK /\ seen[g] \in 1 .. Len(log)
  BY DEF TypeOK, LinkOK, Devices
<1>2. ASSUME NEW d \in Devices, EnterStudio(d) PROVE Obeys(g)'
  BY <1>2, ObeysFrame DEF EnterStudio, docVars, takeVars, uiVars, Same
<1>3. ASSUME NEW d \in Devices, recordAudio(d) PROVE Obeys(g)'
  <2>1. UNCHANGED <<log, seen>>
    BY <1>3, StartType, EndType DEF recordAudio, linkVars
  <2>2. CASE d # g
    BY <1>1, <1>3, <2>1, <2>2, StartFrame, EndFrame, ObeysFrame DEF recordAudio
  <2>3. CASE d = g /\ endRecording(g)
    BY <1>1, <2>3, EndEffect DEF Obeys, Following
  <2>4. CASE d = g /\ startRecording(g, FALSE)
    <3>1. CASE ActivationFails
      BY <2>1, <3>1, ObeysFrame DEF ActivationFails, takeVars, uiVars, Same
    <3>2. CASE RecordFails(g, FALSE)
      BY <1>1, <3>2, FailureEffect DEF Obeys, Following
    <3>3. CASE RecordSucceeds(g, FALSE)
      BY <1>1, <3>3, SuccessEffect DEF Obeys, Following
    <3> QED  BY <2>4, <3>1, <3>2, <3>3 DEF startRecording
  <2> QED  BY <1>3, <2>2, <2>3, <2>4 DEF recordAudio
<1>4. ASSUME NEW d \in Devices, SaveRecording(d) \/ CancelRecording(d) PROVE Obeys(g)'
  BY <1>4, ObeysFrame
     DEF SaveRecording, CancelRecording, docVars, linkVars, takeVars, uiVars, Same
<1>5. ASSUME NEW d \in Devices, Interrupt(d) PROVE Obeys(g)'
  <2>1. CASE d = g
    BY <1>1, <1>5, <2>1, CloseEffect DEF Interrupt, TakeStates, Obeys, Following
  <2>2. CASE d # g
    BY <1>1, <1>5, <2>2, ObeysFrame DEF Interrupt, docVars, linkVars, uiVars, Same,
       TypeOK, TakeOK
  <2> QED  BY <2>1, <2>2
<1>6. ASSUME NEW d \in Devices, Crash(d) PROVE Obeys(g)'
  <2>1. CASE d = g
    BY <1>1, <1>6, <2>1 DEF Crash, Obeys, Following, Recording, TypeOK, TakeOK
  <2>2. CASE d # g
    BY <1>1, <1>6, <2>2, ObeysFrame DEF Crash, docVars, Same, TypeOK, TakeOK, DeviceOK
  <2> QED  BY <2>1, <2>2
<1>7. ASSUME NEW k \in Guests, ReceiveSnapshot(k) PROVE Obeys(g)'
  <2>1. PICK n \in seen[k] .. Len(log) :
           seen' = [seen EXCEPT ![k] = n] /\ HandleSnapshot(k, log[n])
    BY <1>7 DEF ReceiveSnapshot
  <2>2. k \in Devices /\ log[n] \in BOOLEAN
    BY <1>1 DEF DocOK, LinkOK, Devices
  <2>3. log' = log
    BY <2>1, <2>2, HandleSnapshotType
  <2>4. CASE k = g
    <3>1. seen'[g] = n
      BY <1>1, <2>1, <2>4 DEF LinkOK
    <3>2. CASE log[n]
      BY <2>3, <3>1, <3>2 DEF Obeys
    <3>3. CASE ~log[n]
      BY <1>1, <2>1, <2>4, <3>3, EndEffect DEF HandleSnapshot, Obeys, Following
    <3> QED  BY <3>2, <3>3
  <2>5. CASE k # g
    <3>1. Same(g)
      BY <1>1, <2>1, <2>2, <2>5, StartFrame, EndFrame DEF HandleSnapshot
    <3>2. seen'[g] = seen[g]
      BY <1>1, <2>1, <2>5 DEF LinkOK
    <3>3. Following(g)' <=> Following(g)
      BY <3>1, SameRecording DEF Same, Following
    <3> QED  BY <2>3, <3>2, <3>3 DEF FollowersObeyFlag, Obeys
  <2> QED  BY <2>4, <2>5
<1>8. ASSUME NEW k \in Guests, ReceiveOwnWrite(k) PROVE Obeys(g)'
  <2>1. k \in Devices /\ log[seen[k]] \in BOOLEAN /\ HandleSnapshot(k, log[seen[k]])
    BY <1>1, <1>8 DEF DocOK, LinkOK, Devices, ReceiveOwnWrite
  <2>2. log' = log /\ seen' = seen
    BY <1>8, <2>1, HandleSnapshotType DEF ReceiveOwnWrite, linkVars
  <2>3. CASE k = g
    <3>1. CASE log[seen[g]]
      BY <2>2, <3>1 DEF Obeys
    <3>2. CASE ~log[seen[g]]
      BY <1>1, <2>1, <2>3, <3>2, EndEffect DEF HandleSnapshot, Obeys, Following
    <3> QED  BY <3>1, <3>2
  <2>4. CASE k # g
    BY <1>1, <2>1, <2>2, <2>4, StartFrame, EndFrame, ObeysFrame DEF HandleSnapshot
  <2> QED  BY <2>3, <2>4
<1>9. CASE CommitHostWrite \/ CommitOtherField
  <2>1. PICK b \in BOOLEAN : log' = Append(log, b)
    <3>1. CASE CommitHostWrite
      <4>1. Head(queue) \in BOOLEAN
        BY <1>1, <3>1 DEF CommitHostWrite, DocOK
      <4> QED  BY <3>1, <4>1 DEF CommitHostWrite
    <3>2. CASE CommitOtherField
      <4>1. log[Len(log)] \in BOOLEAN
        BY <1>1 DEF DocOK
      <4> QED  BY <3>2, <4>1 DEF CommitOtherField
    <3> QED  BY <1>9, <3>1, <3>2
  <2>2. log'[seen[g]] = log[seen[g]]
    BY <1>1, <2>1, CommitType
  <2>3. seen' = seen /\ (Following(g)' <=> Following(g))
    BY <1>9 DEF CommitHostWrite, CommitOtherField, linkVars, takeVars, Following, Recording
  <2> QED  BY <2>2, <2>3 DEF FollowersObeyFlag, Obeys
<1>10. CASE UNCHANGED vars
  BY <1>10, ObeysFrame DEF vars, docVars, linkVars, takeVars, uiVars, Same
<1> QED
  BY <1>2, <1>3, <1>4, <1>5, <1>6, <1>7, <1>8, <1>9, <1>10 DEF Next

\* A guest never goes on recording for the host after its listener got a
\* version of the document that says the host stopped (the block at
\* RecordingSessionVC.m 66-73), however snapshots are coalesced, and for any
\* number of guests.
THEOREM FollowersObey == Spec => []FollowersObeyFlag
<1>1. Init => FollowersObeyFlag
  BY DEF Init, FollowersObeyFlag, Following, Recording, Devices
<1>2. QED  BY <1>1, ObeysStep, TypeCorrect, PTL DEF Spec

-----------------------------------------------------------------------------
(* What the host saves.                                                      *)

SavesInv == HostSavesFinishedTakes /\ HostAlertsOnce

\* Takes that are over are kept, new ones come after them.
KeepsTakes ==
    /\ Len(takes'[Host]) \in Nat /\ Len(takes[Host]) <= Len(takes'[Host])
    /\ \A n \in 1 .. Len(takes[Host]) :
         takes[Host][n] # "open" => takes'[Host][n] = takes[Host][n]

\* The library keeps the property when only takes change.
LEMMA SavesFrame ==
    ASSUME TypeOK, SavesInv, KeepsTakes, library'[Host] = library[Host]
    PROVE  /\ HostSavesFinishedTakes'
           /\ \A i \in 1 .. Len(library'[Host]) :
                library'[Host][i] \in 1 .. Len(takes'[Host])
<1>1. /\ Len(takes[Host]) \in Nat /\ Len(takes'[Host]) \in Nat
      /\ Len(takes[Host]) <= Len(takes'[Host])
  BY DEF TypeOK, TakeOK, Devices, KeepsTakes
<1>2. ASSUME NEW i \in 1 .. Len(library[Host])
      PROVE  /\ library[Host][i] \in 1 .. Len(takes[Host])
             /\ takes'[Host][library[Host][i]] = "done"
  <2>1. /\ library[Host][i] \in 1 .. Len(takes[Host])
        /\ takes[Host][library[Host][i]] = "done"
    BY DEF SavesInv, HostSavesFinishedTakes, HostAlertsOnce
  <2> QED  BY <2>1 DEF KeepsTakes
<1>3. \A i, j \in 1 .. Len(library[Host]) :
         library[Host][i] = library[Host][j] => i = j
  BY DEF SavesInv, HostSavesFinishedTakes
<1>4. ASSUME NEW i \in 1 .. Len(library[Host])
      PROVE  library[Host][i] \in 1 .. Len(takes'[Host])
  BY <1>1, <1>2
<1> QED  BY <1>2, <1>3, <1>4 DEF HostSavesFinishedTakes

\* The alert is about the same take when nothing of the host's changes.
LEMMA AlertFrame ==
    ASSUME TypeOK, SavesInv, Same(Host),
           alert'[Host] = alert[Host], library'[Host] = library[Host]
    PROVE  SavesInv'
BY DEF Same, SavesInv, HostSavesFinishedTakes, HostAlertsOnce

\* A start on the host keeps what its library has apart from what it records.
LEMMA StartSaves ==
    ASSUME TypeOK, SavesInv, ~alert[Host], startRecording(Host, FALSE)
    PROVE  SavesInv'
<1>1. Host \in Devices /\ TakeOK /\ Len(takes[Host]) \in Nat
  BY DEF Devices, TypeOK, TakeOK
<1>2. library' = library /\ alert' = alert
  BY DEF startRecording, saveVars
<1>3. KeepsTakes
  <2>1. CASE ActivationFails
    BY <1>1, <2>1 DEF ActivationFails, takeVars, KeepsTakes
  <2>2. ASSUME NEW s \in TakeStates, prepareForNewRecording(Host, FALSE, s)
        PROVE  KeepsTakes
    <3>1. /\ takes'[Host] = Append(Close(Host, "cut"), s)
          /\ Len(takes'[Host]) = Len(takes[Host]) + 1
      BY <1>1, <2>2, PrepareType
    <3>2. /\ Close(Host, "cut") \in Seq(TakeStates)
          /\ Len(Close(Host, "cut")) = Len(takes[Host])
          /\ \A n \in 1 .. Len(takes[Host]) :
               takes[Host][n] # "open" => Close(Host, "cut")[n] = takes[Host][n]
      BY <1>1, CloseLemma DEF TakeStates
    <3>3. \A n \in 1 .. Len(takes[Host]) : takes'[Host][n] = Close(Host, "cut")[n]
      BY <3>1, <3>2
    <3> QED  BY <1>1, <3>1, <3>2, <3>3 DEF KeepsTakes
  <2> QED
    BY <2>1, <2>2 DEF startRecording, RecordFails, RecordSucceeds, TakeStates
<1> QED
  BY <1>2, <1>3, SavesFrame DEF SavesInv, HostAlertsOnce

\* endRecording makes the take it ends the one the alert is about.
LEMMA EndSaves ==
    ASSUME TypeOK, SavesInv, Recording(Host), endRecording(Host)
    PROVE  SavesInv'
<1>1. Host \in Devices /\ TakeOK /\ StopTake(Host)
  BY DEF Devices, TypeOK, endRecording
<1>2. /\ takes'[Host] = Close(Host, "done") /\ recorder'[Host] = recorder[Host]
      /\ alert'[Host] /\ library' = library
  BY <1>1 DEF StopTake, TakeOK, TypeOK, DeviceOK
<1>3. /\ Len(takes'[Host]) = Len(takes[Host])
      /\ takes'[Host][recorder'[Host]] = "done"
      /\ \A n \in 1 .. Len(takes[Host]) :
           takes[Host][n] # "open" => takes'[Host][n] = takes[Host][n]
  BY <1>1, <1>2, CloseLemma DEF TakeStates
<1>4. Len(takes[Host]) \in Nat
  BY <1>1 DEF TakeOK
<1>5. HostSavesFinishedTakes' /\ (\A i \in 1 .. Len(library'[Host]) :
         library'[Host][i] \in 1 .. Len(takes'[Host]))
  BY <1>2, <1>3, <1>4, SavesFrame DEF KeepsTakes
<1>6. ASSUME NEW i \in 1 .. Len(library'[Host])
      PROVE  library'[Host][i] # recorder'[Host]
  BY <1>2 DEF SavesInv, HostSavesFinishedTakes, Recording
<1>7. recorder'[Host] # 0
  BY <1>2 DEF Recording
<1> QED  BY <1>3, <1>5, <1>6, <1>7 DEF SavesInv, HostAlertsOnce

\* The Save button saves the take the alert is about, and closes the alert.
LEMMA SaveSaves ==
    ASSUME TypeOK, SavesInv, SaveRecording(Host)
    PROVE  SavesInv'
<1> DEFINE saved == library[Host]
<1>1. Host \in Devices /\ TakeOK /\ DeviceOK /\ alert[Host]
  BY DEF Devices, TypeOK, SaveRecording
<1>2. /\ library'[Host] = Append(saved, recorder[Host])
      /\ ~alert'[Host] /\ takes' = takes /\ recorder' = recorder
  BY <1>1 DEF SaveRecording, DeviceOK, takeVars
<1>3. /\ recorder[Host] \in 1 .. Len(takes[Host])
      /\ takes[Host][recorder[Host]] = "done"
      /\ \A i \in 1 .. Len(saved) : saved[i] # recorder[Host]
  BY <1>1 DEF SavesInv, HostAlertsOnce, TakeOK
<1>4. /\ \A i \in 1 .. Len(saved) :
           saved[i] \in 1 .. Len(takes[Host]) /\ takes[Host][saved[i]] = "done"
      /\ \A i, j \in 1 .. Len(saved) : saved[i] = saved[j] => i = j
  BY DEF SavesInv, HostSavesFinishedTakes, HostAlertsOnce
<1>5. /\ Len(library'[Host]) = Len(saved) + 1 /\ Len(saved) \in Nat
      /\ library'[Host][Len(saved) + 1] = recorder[Host]
      /\ \A i \in 1 .. Len(saved) : library'[Host][i] = saved[i]
  BY <1>1, <1>2 DEF DeviceOK, TakeOK
<1>6. \A i \in 1 .. Len(library'[Host]) : i \in 1 .. Len(saved) \/ i = Len(saved) + 1
  BY <1>5
<1>7. HostSavesFinishedTakes'
  <2>1. \A i \in 1 .. Len(library'[Host]) : takes'[Host][library'[Host][i]] = "done"
    BY <1>2, <1>3, <1>4, <1>5, <1>6
  <2>2. \A i, j \in 1 .. Len(library'[Host]) :
           library'[Host][i] = library'[Host][j] => i = j
    BY <1>3, <1>4, <1>5, <1>6
  <2> QED  BY <2>1, <2>2 DEF HostSavesFinishedTakes
<1>8. HostAlertsOnce'
  <2>1. \A i \in 1 .. Len(library'[Host]) :
           library'[Host][i] \in 1 .. Len(takes'[Host])
    BY <1>2, <1>3, <1>4, <1>5, <1>6
  <2> QED  BY <1>2, <2>1 DEF HostAlertsOnce
<1> QED  BY <1>7, <1>8 DEF SavesInv

\* Every step keeps the host's library one of finished takes, each once.
LEMMA SavesStep == TypeOK /\ SavesInv /\ [Next]_vars => SavesInv'
<1> SUFFICES ASSUME TypeOK, SavesInv, [Next]_vars PROVE SavesInv'
  OBVIOUS
<1>1. Host \in Devices /\ TakeOK /\ DeviceOK
  BY DEF TypeOK, Devices
<1>2. ASSUME NEW d \in Devices, EnterStudio(d) PROVE SavesInv'
  BY <1>2, AlertFrame DEF EnterStudio, takeVars, uiVars, saveVars, Same
<1>3. ASSUME NEW g \in Guests, NEW b \in BOOLEAN, startRecording(g, b) \/ endRecording(g)
      PROVE  SavesInv'
  <2>1. Same(Host)
    BY <1>3, GuestWritesNothing
  <2>2. alert'[Host] = alert[Host] /\ library'[Host] = library[Host]
    BY <1>1, <1>3 DEF startRecording, endRecording, StopTake, saveVars, DeviceOK
  <2> QED  BY <2>1, <2>2, AlertFrame
<1>4. ASSUME NEW d \in Devices, recordAudio(d) PROVE SavesInv'
  <2>1. CASE d = Host
    BY <1>4, <2>1, StartSaves, EndSaves DEF recordAudio
  <2>2. CASE d # Host
    <3>1. d \in Guests
      BY <2>2 DEF Devices
    <3> QED  BY <1>3, <1>4, <3>1 DEF recordAudio
  <2> QED  BY <2>1, <2>2
<1>5. ASSUME NEW d \in Devices, SaveRecording(d) PROVE SavesInv'
  <2>1. CASE d = Host
    BY <1>5, <2>1, SaveSaves
  <2>2. CASE d # Host
    BY <1>1, <1>5, <2>2, AlertFrame DEF SaveRecording, takeVars, uiVars, Same, DeviceOK
  <2> QED  BY <2>1, <2>2
<1>6. ASSUME NEW d \in Devices, CancelRecording(d) PROVE SavesInv'
  BY <1>1, <1>6 DEF CancelRecording, takeVars, DeviceOK, SavesInv,
     HostSavesFinishedTakes, HostAlertsOnce
<1>7. ASSUME NEW d \in Devices, Interrupt(d) PROVE SavesInv'
  <2>1. CASE d = Host
    <3>1. /\ takes'[Host] = Close(Host, "cut") /\ recorder' = recorder
          /\ UNCHANGED saveVars /\ Recording(Host)
      BY <1>1, <1>7, <2>1 DEF Interrupt, TakeOK
    <3>2. KeepsTakes
      <4>1. Len(takes[Host]) \in Nat
        BY <1>1 DEF TakeOK
      <4> QED  BY <1>1, <3>1, <4>1, CloseLemma DEF KeepsTakes, TakeStates
    <3>3. ~alert[Host]
      BY <3>1 DEF Recording, SavesInv, HostAlertsOnce
    <3> QED
      BY <3>1, <3>2, <3>3, SavesFrame DEF saveVars, SavesInv, HostAlertsOnce
  <2>2. CASE d # Host
    BY <1>1, <1>7, <2>2, AlertFrame DEF Interrupt, uiVars, saveVars, Same, TakeOK
  <2> QED  BY <2>1, <2>2
<1>8. ASSUME NEW d \in Devices, Crash(d) PROVE SavesInv'
  <2>1. CASE d = Host
    <3>1. library'[Host] = <<>> /\ ~alert'[Host]
      BY <1>1, <1>8, <2>1 DEF Crash, DeviceOK
    <3>2. 1 .. Len(library'[Host]) = {}
      BY <3>1
    <3> QED  BY <3>1, <3>2 DEF SavesInv, HostSavesFinishedTakes, HostAlertsOnce
  <2>2. CASE d # Host
    BY <1>1, <1>8, <2>2, AlertFrame DEF Crash, Same, TakeOK, DeviceOK
  <2> QED  BY <2>1, <2>2
<1>9. ASSUME NEW g \in Guests, ReceiveSnapshot(g) \/ ReceiveOwnWrite(g) PROVE SavesInv'
  BY <1>3, <1>9 DEF ReceiveSnapshot, ReceiveOwnWrite, HandleSnapshot
<1>10. CASE CommitHostWrite \/ CommitOtherField
  BY <1>10, AlertFrame DEF CommitHostWrite, CommitOtherField, takeVars, uiVars, saveVars, Same
<1>11. CASE UNCHANGED vars
  BY <1>11, AlertFrame DEF vars, takeVars, uiVars, saveVars, Same
<1> QED
  BY <1>2, <1>4, <1>5, <1>6, <1>7, <1>8, <1>9, <1>10, <1>11 DEF Next

\* Whatever fails, the host's library holds only takes that endRecording
\* ended, and none twice, although the Save handler (RecordingSessionVC.m
\* 431-439) reads the URL of the recorder the controller has when the button
\* is tapped: the alert keeps the host from replacing it.
THEOREM HostSaves == Spec => []HostSavesFinishedTakes
<1>1. Init => SavesInv
  <2> SUFFICES ASSUME Init PROVE SavesInv
    OBVIOUS
  <2>1. library[Host] = <<>> /\ ~alert[Host]
    BY DEF Init, Devices
  <2>2. 1 .. Len(library[Host]) = {}
    BY <2>1
  <2> QED  BY <2>1, <2>2 DEF SavesInv, HostSavesFinishedTakes, HostAlertsOnce
<1>2. SavesInv => HostSavesFinishedTakes
  BY DEF SavesInv
<1>3. QED  BY <1>1, <1>2, SavesStep, TypeCorrect, PTL DEF Spec

-----------------------------------------------------------------------------
(* Takes that are over.                                                      *)

\* What a step may do to the takes of a device.
KeptBy(d) ==
    /\ Len(takes[d]) <= Len(takes'[d])
    /\ \A n \in 1 .. Len(takes[d]) :
         takes[d][n] # "open" => takes'[d][n] = takes[d][n]

\* A device whose takes stay as they are keeps them.
LEMMA KeptFrame ==
    ASSUME TypeOK, NEW d \in Devices, takes'[d] = takes[d] PROVE KeptBy(d)
<1>1. Len(takes[d]) \in Nat
  BY DEF TypeOK, TakeOK
<1> QED  BY <1>1 DEF KeptBy

\* Closing the take a device writes changes no other.
LEMMA CloseKeeps ==
    ASSUME TypeOK, NEW d \in Devices, NEW s \in TakeStates, takes'[d] = Close(d, s)
    PROVE  KeptBy(d)
<1>1. TakeOK /\ Len(takes[d]) \in Nat
  BY DEF TypeOK, TakeOK
<1> QED  BY <1>1, CloseLemma DEF KeptBy

\* A new recorder writes a new take.
LEMMA PrepareKeeps ==
    ASSUME TypeOK, NEW d \in Devices, NEW b \in BOOLEAN, NEW s \in TakeStates,
           prepareForNewRecording(d, b, s)
    PROVE  KeptBy(d)
<1>1. TakeOK /\ Len(takes[d]) \in Nat
  BY DEF TypeOK, TakeOK
<1>2. /\ takes'[d] = Append(Close(d, "cut"), s)
      /\ Len(takes'[d]) = Len(takes[d]) + 1
  BY <1>1, PrepareType
<1>3. /\ Close(d, "cut") \in Seq(TakeStates)
      /\ Len(Close(d, "cut")) = Len(takes[d])
      /\ \A n \in 1 .. Len(takes[d]) :
           takes[d][n] # "open" => Close(d, "cut")[n] = takes[d][n]
  BY <1>1, CloseLemma DEF TakeStates
<1>4. \A n \in 1 .. Len(takes[d]) : takes'[d][n] = Close(d, "cut")[n]
  BY <1>2, <1>3
<1> QED  BY <1>1, <1>2, <1>3, <1>4 DEF KeptBy

\* So startRecording and endRecording keep the takes of every device.
LEMMA HandlersKeep ==
    ASSUME TypeOK, NEW d \in Devices, NEW b \in BOOLEAN,
           startRecording(d, b) \/ endRecording(d), NEW e \in Devices
    PROVE  KeptBy(e)
<1>1. CASE e # d
  <2>1. Same(e)
    BY <1>1, StartFrame, EndFrame
  <2> QED  BY <2>1, KeptFrame DEF Same
<1>2. ASSUME startRecording(d, b) PROVE KeptBy(d)
  <2>1. CASE ActivationFails
    BY <2>1, KeptFrame DEF ActivationFails, takeVars
  <2> QED
    BY <1>2, <2>1, PrepareKeeps DEF startRecording, RecordFails, RecordSucceeds, TakeStates
<1>3. ASSUME endRecording(d) PROVE KeptBy(d)
  <2>1. CASE ~Recording(d)
    BY <1>3, <2>1, KeptFrame DEF endRecording, takeVars
  <2>2. CASE Recording(d)
    <3>1. takes'[d] = Close(d, "done")
      BY <1>3, <2>2 DEF endRecording, StopTake, TypeOK, TakeOK
    <3> QED  BY <3>1, CloseKeeps DEF TakeStates
  <2> QED  BY <2>1, <2>2
<1> QED  BY <1>1, <1>2, <1>3

\* Every step keeps the takes that are over.
LEMMA KeptStep ==
    ASSUME TypeOK, [Next]_vars, NEW e \in Devices PROVE KeptBy(e)
<1>1. DocOK /\ LinkOK /\ TakeOK
  BY DEF TypeOK
<1>2. ASSUME takes' = takes PROVE KeptBy(e)
  BY <1>2, KeptFrame
<1>3. ASSUME NEW d \in Devices, EnterStudio(d) \/ SaveRecording(d) \/ CancelRecording(d)
      PROVE  KeptBy(e)
  BY <1>2, <1>3 DEF EnterStudio, SaveRecording, CancelRecording, takeVars
<1>4. ASSUME NEW d \in Devices, recordAudio(d) PROVE KeptBy(e)
  BY <1>4, HandlersKeep DEF recordAudio
<1>5. ASSUME NEW d \in Devices, Interrupt(d) \/ Crash(d) PROVE KeptBy(e)
  <2>1. CASE e = d
    BY <1>1, <1>5, <2>1, CloseKeeps DEF Interrupt, Crash, TakeOK, TakeStates
  <2>2. CASE e # d
    BY <1>1, <1>5, <2>2, KeptFrame DEF Interrupt, Crash, TakeOK
  <2> QED  BY <2>1, <2>2
<1>6. ASSUME NEW g \in Guests, ReceiveSnapshot(g) \/ ReceiveOwnWrite(g) PROVE KeptBy(e)
  <2>1. g \in Devices
    BY DEF Devices
  <2>2. ASSUME NEW n \in 1 .. Len(log), HandleSnapshot(g, log[n]) PROVE KeptBy(e)
    BY <2>1, <2>2, HandlersKeep DEF HandleSnapshot
  <2>3. seen[g] \in 1 .. Len(log) /\ \A n \in seen[g] .. Len(log) : n \in 1 .. Len(log)
    BY <1>1, <2>1 DEF LinkOK, DocOK
  <2> QED  BY <1>6, <2>2, <2>3 DEF ReceiveSnapshot, ReceiveOwnWrite
<1>7. CASE CommitHostWrite \/ CommitOtherField
  BY <1>2, <1>7 DEF CommitHostWrite, CommitOtherField, takeVars
<1>8. CASE UNCHANGED vars
  BY <1>2, <1>8 DEF vars, takeVars
<1> QED  BY <1>3, <1>4, <1>5, <1>6, <1>7, <1>8 DEF Next

\* No step of the system, fault or late snapshot, touches a take that is over:
\* prepareForNewRecording (RecordingSessionVC.m 247-260) makes a new file for
\* every recorder, for any number of devices.
THEOREM FinishedTakesAreKept == Spec => TakesAreKept
<1>1. TypeOK /\ [Next]_vars =>
        [\A d \in Devices :
           /\ Len(takes[d]) <= Len(takes'[d])
           /\ \A n \in 1 .. Len(takes[d]) :
                takes[d][n] # "open" => takes'[d][n] = takes[d][n]]_vars
  BY KeptStep DEF KeptBy
<1>2. QED  BY <1>1, TypeCorrect, PTL DEF Spec, TakesAreKept

-----------------------------------------------------------------------------
(* The timers of the host.                                                   *)

\* The timers of the host run for the take it records and for nothing else, so
\* that no start finds one that is scheduled.
TimersInv ==
    /\ "interrupt" \notin Faults =>
         recordTimer[Host] = (IF Recording(Host) THEN recorder[Host] ELSE 0)
    /\ Faults \subseteq {"crash"} =>
         orphans[Host] = 0 /\ (waveformTimer[Host] => Recording(Host))

\* What a step leaves alone when it has nothing to do with the host's timers.
SameTimers ==
    /\ Recording(Host)' <=> Recording(Host)
    /\ recorder'[Host] = recorder[Host]
    /\ recordTimer'[Host] = recordTimer[Host]
    /\ orphans'[Host] = orphans[Host]
    /\ waveformTimer'[Host] => waveformTimer[Host]

\* A guest has timers of its own.
LEMMA GuestTimers ==
    ASSUME TypeOK, NEW g \in Guests, NEW b \in BOOLEAN,
           startRecording(g, b) \/ endRecording(g)
    PROVE  SameTimers
<1>1. g \in Devices /\ Host \in Devices /\ g # Host /\ DeviceOK
  BY DEF Devices, TypeOK
<1>2. Same(Host) /\ (Recording(Host)' <=> Recording(Host))
  BY <1>1, StartFrame, EndFrame, SameRecording
<1>3. orphans'[Host] = orphans[Host] /\ waveformTimer'[Host] = waveformTimer[Host]
  BY <1>1 DEF startRecording, startWaveform, endRecording, StopTake, resetWaveform, waveVars,
              DeviceOK
<1> QED  BY <1>2, <1>3 DEF Same, SameTimers

\* The record button starts a take only where none is recorded: both timers are
\* free, unless a start has failed.
LEMMA HostStartTimers ==
    ASSUME TypeOK, TimersInv, ~Recording(Host), startRecording(Host, FALSE)
    PROVE  TimersInv'
<1>1. Host \in Devices /\ TakeOK /\ DeviceOK /\ Len(takes[Host]) \in Nat
  BY DEF Devices, TypeOK, TakeOK
<1>2. waveformTimer'[Host]
      /\ (~waveformTimer[Host] => orphans'[Host] = orphans[Host])
  BY <1>1 DEF startRecording, startWaveform, DeviceOK
<1>3. CASE ActivationFails
  <2>1. /\ ~(Faults \subseteq {"crash"})
        /\ Recording(Host)' <=> Recording(Host)
        /\ recorder' = recorder /\ recordTimer' = recordTimer
    BY <1>3 DEF ActivationFails, takeVars, Recording
  <2> QED  BY <2>1 DEF TimersInv
<1>4. CASE RecordFails(Host, FALSE)
  <2>1. ~Recording(Host)' /\ ~(Faults \subseteq {"crash"}) /\ recordTimer' = recordTimer
    BY <1>1, <1>4, FailureEffect DEF RecordFails
  <2> QED  BY <2>1 DEF TimersInv
<1>5. CASE RecordSucceeds(Host, FALSE)
  <2>1. Recording(Host)' /\ recorder'[Host] = Len(takes[Host]) + 1
    BY <1>1, <1>5, SuccessEffect DEF RecordSucceeds, prepareForNewRecording, TakeOK
  <2>2. recordTimer[Host] = 0 => recordTimer'[Host] = Len(takes[Host]) + 1
    BY <1>1, <1>5 DEF RecordSucceeds, startTimer, DeviceOK
  <2> QED  BY <1>2, <2>1, <2>2 DEF TimersInv
<1> QED  BY <1>3, <1>4, <1>5 DEF startRecording

\* endRecording of a take resets both.
LEMMA HostEndTimers ==
    ASSUME TypeOK, TimersInv, Recording(Host), endRecording(Host)
    PROVE  TimersInv'
<1>1. Host \in Devices /\ DeviceOK /\ StopTake(Host)
  BY DEF Devices, TypeOK, endRecording
<1>2. ~Recording(Host)'
  BY <1>1, EndEffect
<1>3. /\ recordTimer'[Host] = 0
      /\ ~waveformTimer'[Host]
      /\ orphans'[Host] = orphans[Host]
  BY <1>1 DEF endRecording, resetTimer, StopTake, resetWaveform, DeviceOK
<1> QED  BY <1>2, <1>3 DEF TimersInv

\* Every step keeps the timers those of the take.
LEMMA TimersStep == TypeOK /\ TimersInv /\ [Next]_vars => TimersInv'
<1> SUFFICES ASSUME TypeOK, TimersInv, [Next]_vars PROVE TimersInv'
  OBVIOUS
<1>1. Host \in Devices /\ TakeOK /\ DeviceOK
  BY DEF TypeOK, Devices
<1>2. ASSUME SameTimers PROVE TimersInv'
  BY <1>2 DEF SameTimers, TimersInv
<1>3. ASSUME NEW d \in Devices, EnterStudio(d) \/ SaveRecording(d) \/ CancelRecording(d)
      PROVE  TimersInv'
  BY <1>2, <1>3 DEF EnterStudio, SaveRecording, CancelRecording, takeVars, waveVars,
     Recording, SameTimers
<1>4. ASSUME NEW g \in Guests, NEW b \in BOOLEAN, startRecording(g, b) \/ endRecording(g)
      PROVE  TimersInv'
  BY <1>2, <1>4, GuestTimers
<1>5. ASSUME NEW d \in Devices, recordAudio(d) PROVE TimersInv'
  <2>1. CASE d = Host
    BY <1>5, <2>1, HostStartTimers, HostEndTimers DEF recordAudio
  <2>2. CASE d # Host
    <3>1. d \in Guests
      BY <2>2 DEF Devices
    <3> QED  BY <1>4, <1>5, <3>1 DEF recordAudio
  <2> QED  BY <2>1, <2>2
<1>6. ASSUME NEW d \in Devices, Interrupt(d) PROVE TimersInv'
  BY <1>6 DEF Interrupt, TimersInv
<1>7. ASSUME NEW d \in Devices, Crash(d) PROVE TimersInv'
  <2>1. CASE d = Host
    <3>1. /\ recorder'[Host] = 0 /\ recordTimer'[Host] = 0
          /\ ~waveformTimer'[Host] /\ orphans'[Host] = 0
      BY <1>1, <1>7, <2>1 DEF Crash, TakeOK, DeviceOK
    <3> QED  BY <3>1 DEF TimersInv, Recording
  <2>2. CASE d # Host
    BY <1>1, <1>2, <1>7, <2>2 DEF Crash, SameTimers, Recording, TakeOK, DeviceOK
  <2> QED  BY <2>1, <2>2
<1>8. ASSUME NEW g \in Guests, ReceiveSnapshot(g) \/ ReceiveOwnWrite(g) PROVE TimersInv'
  BY <1>4, <1>8 DEF ReceiveSnapshot, ReceiveOwnWrite, HandleSnapshot
<1>9. CASE CommitHostWrite \/ CommitOtherField
  BY <1>2, <1>9 DEF CommitHostWrite, CommitOtherField, takeVars, waveVars, Recording, SameTimers
<1>10. CASE UNCHANGED vars
  BY <1>2, <1>10 DEF vars, takeVars, waveVars, Recording, SameTimers
<1> QED
  BY <1>3, <1>5, <1>6, <1>7, <1>8, <1>9, <1>10 DEF Next

\* Without interruptions the time the host sees is that of the take it records,
\* and without failed starts none of its waveform timers is leaked, however many
\* takes it makes: startTimer does nothing while an older timer is scheduled, and
\* startWaveform overwrites the one it holds, but neither ever finds one.
THEOREM HostTimersAreRight == Spec => []HostTimersAreOfTake
<1>1. Init => TimersInv
  BY DEF Init, TimersInv, Recording, Devices
<1>2. TimersInv => HostTimersAreOfTake
  BY DEF TimersInv, HostTimersAreOfTake
<1>3. QED  BY <1>1, <1>2, TimersStep, TypeCorrect, PTL DEF Spec
=============================================================================
