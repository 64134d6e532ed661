--------------------------- MODULE FollowerProofs ---------------------------
(* The guests' recorders implement Follower, for every host, set of guests,  *)
(* set of faults and bound.                                                  *)
EXTENDS RecordingProofs

\* A guest goes on recording for the host, or not, as before.
Keeps(k) == Following(k)' <=> Following(k)

\* What the abstract follower sees of a step.
LEMMA SameActive ==
    ASSUME \A k \in Guests : Keeps(k)
    PROVE  [k \in Guests |-> Following(k)]' = [k \in Guests |-> Following(k)]
<1>1. \A k \in Guests : Following(k)' = Following(k)
  BY Zenon DEF Keeps, Following
<1> QED  BY <1>1, Zenon

LEMMA NewActive ==
    ASSUME NEW g \in Guests, NEW a \in BOOLEAN, Following(g)' <=> a,
           \A k \in Guests : k # g => Keeps(k)
    PROVE  [k \in Guests |-> Following(k)]' =
             [[k \in Guests |-> Following(k)] EXCEPT ![g] = a]
<1>1. \A k \in Guests : k # g => Following(k)' = Following(k)
  BY Zenon DEF Keeps, Following
<1>2. Following(g)' = a
  BY Zenon DEF Following
<1> QED  BY <1>1, <1>2, Zenon

-----------------------------------------------------------------------------
(* The kinds of step, as steps of Follower.                                  *)

LEMMA StutterStep ==
    ASSUME TypeOK, log' = log, seen' = seen, \A k \in Guests : Keeps(k)
    PROVE  UNCHANGED <<log, [g \in Guests |-> seen[g]], [g \in Guests |-> Following(g)]>>
BY SameActive

LEMMA StopStep ==
    ASSUME TypeOK, NEW g \in Guests, log' = log, seen' = seen, ~Following(g)',
           \A k \in Guests : k # g => Keeps(k)
    PROVE  Followers!Next
<1>1. [k \in Guests |-> Following(k)]' =
        [[k \in Guests |-> Following(k)] EXCEPT ![g] = FALSE]
  BY NewActive
<1>2. Followers!Stop(g)
  BY <1>1 DEF Followers!Stop
<1> QED  BY <1>2 DEF Followers!Next

LEMMA ReadStep ==
    ASSUME TypeOK, NEW g \in Guests, NEW n \in seen[g] .. Len(log), log' = log,
           seen' = [seen EXCEPT ![g] = n],
           NEW a \in BOOLEAN, Following(g)' <=> a, a \in Followers!Obeys(log[n]),
           \A k \in Guests : k # g => Keeps(k)
    PROVE  Followers!Next
<1>1. [k \in Guests |-> Following(k)]' =
        [[k \in Guests |-> Following(k)] EXCEPT ![g] = a]
  BY NewActive
<1>2. [k \in Guests |-> seen[k]]' = [[k \in Guests |-> seen[k]] EXCEPT ![g] = n]
  BY DEF TypeOK, LinkOK, Devices
<1>3. Followers!Read(g)
  BY <1>1, <1>2 DEF Followers!Read
<1> QED  BY <1>3 DEF Followers!Next

\* Another device's step on its recorder.
LEMMA OthersKeep ==
    ASSUME NEW k, Same(k) PROVE Keeps(k)
BY SameRecording DEF Same, Keeps, Following

\* A guest whose listener handles version n of the flag: the version is read.
LEMMA HandleStep ==
    ASSUME TypeOK, NEW g \in Guests, NEW n \in seen[g] .. Len(log),
           seen' = [seen EXCEPT ![g] = n], HandleSnapshot(g, log[n])
    PROVE  Followers!Next
<1>1. g \in Devices /\ n \in 1 .. Len(log) /\ log[n] \in BOOLEAN
  BY DEF TypeOK, DocOK, LinkOK, Devices
<1>2. log' = log
  BY <1>1, HandleSnapshotType
<1>3. ASSUME NEW k \in Guests, k # g PROVE Keeps(k)
  BY <1>1, <1>3, StartFrame, EndFrame, OthersKeep DEF HandleSnapshot, Devices
<1>4. CASE ~log[n]
  <2>1. ~Following(g)'
    BY <1>1, <1>4, EndEffect DEF HandleSnapshot, Following
  <2>2. FALSE \in Followers!Obeys(log[n])
    BY <1>1, <1>4 DEF Followers!Obeys
  <2> QED  BY <1>2, <1>3, <2>1, <2>2, ReadStep
<1>5. CASE log[n]
  <2>1. log[n] = TRUE /\ startRecording(g, TRUE)
    BY <1>1, <1>5 DEF HandleSnapshot
  <2>2. CASE RecordSucceeds(g, TRUE)
    <3>1. Following(g)'
      BY <1>1, <2>2, SuccessEffect DEF Following
    <3>2. TRUE \in Followers!Obeys(log[n])
      BY <2>1 DEF Followers!Obeys
    <3> QED  BY <1>2, <1>3, <3>1, <3>2, ReadStep
  <2>3. CASE RecordFails(g, TRUE)
    <3>1. ~Following(g)' /\ "record" \in Faults
      BY <1>1, <2>3, FailureEffect DEF Following
    <3>2. FALSE \in Followers!Obeys(log[n])
      BY <3>1 DEF Followers!Obeys
    <3> QED  BY <1>2, <1>3, <3>1, <3>2, ReadStep
  <2>4. CASE ActivationFails
    <3>1. Keeps(g) /\ "activation" \in Faults
      BY <2>4 DEF ActivationFails, takeVars, Keeps, Following, Recording
    <3>2. {FALSE, TRUE} \subseteq Followers!Obeys(log[n])
      BY <2>1, <3>1 DEF Followers!Obeys
    <3>3. CASE Following(g)
      BY <1>2, <1>3, <3>1, <3>2, <3>3, ReadStep DEF Keeps
    <3>4. CASE ~Following(g)
      BY <1>2, <1>3, <3>1, <3>2, <3>4, ReadStep DEF Keeps
    <3> QED  BY <3>3, <3>4
  <2> QED  BY <2>1, <2>2, <2>3, <2>4 DEF startRecording
<1> QED  BY <1>4, <1>5

-----------------------------------------------------------------------------
(* The steps of the devices and of the server.                               *)

AbstractVars == <<log, [g \in Guests |-> seen[g]], [g \in Guests |-> Following(g)]>>

\* The record button, on any device.
LEMMA RecordAudioStep ==
    ASSUME TypeOK, NEW d \in Devices, recordAudio(d)
    PROVE  Followers!Next \/ UNCHANGED AbstractVars
<1>1. log' = log /\ seen' = seen
  BY StartType, EndType DEF recordAudio, linkVars
<1>2. ASSUME NEW k \in Guests, k # d PROVE Keeps(k)
  BY <1>2, StartFrame, EndFrame, OthersKeep DEF recordAudio, Devices
<1>3. CASE d \notin Guests
  BY <1>1, <1>2, <1>3, StutterStep DEF AbstractVars
<1>4. CASE d \in Guests /\ (endRecording(d) \/ RecordFails(d, FALSE)
                             \/ RecordSucceeds(d, FALSE))
  <2>1. ~Following(d)'
    BY <1>4, EndEffect, FailureEffect, SuccessEffect DEF Following
  <2> QED  BY <1>1, <1>2, <1>4, <2>1, StopStep
<1>5. CASE ActivationFails
  <2>1. ASSUME NEW k \in Guests PROVE Keeps(k)
    BY <1>5 DEF ActivationFails, takeVars, Keeps, Following, Recording
  <2> QED  BY <1>1, <2>1, StutterStep DEF AbstractVars
<1> QED  BY <1>3, <1>4, <1>5 DEF recordAudio, startRecording

\* An interruption, or the end of the app.
LEMMA CutStep ==
    ASSUME TypeOK, NEW d \in Devices, Interrupt(d) \/ Crash(d)
    PROVE  Followers!Next \/ UNCHANGED AbstractVars
<1>1. log' = log /\ seen' = seen
  BY DEF Interrupt, Crash, docVars, linkVars
<1>2. ASSUME NEW k \in Guests, k # d PROVE Keeps(k)
  <2>1. takes'[k] = takes[k] /\ recorder'[k] = recorder[k] /\ followed'[k] = followed[k]
    BY <1>2 DEF Interrupt, Crash, TypeOK, TakeOK, Devices
  <2> QED  BY <2>1 DEF Keeps, Following, Recording
<1>3. ~Following(d)'
  <2>1. CASE Interrupt(d)
    BY <2>1, CloseEffect DEF Interrupt, TakeStates, Following
  <2>2. CASE Crash(d)
    BY <2>2 DEF Crash, Following, Recording, TypeOK, TakeOK
  <2> QED  BY <2>1, <2>2
<1>4. CASE d \in Guests
  BY <1>1, <1>2, <1>3, <1>4, StopStep
<1>5. CASE d \notin Guests
  BY <1>1, <1>2, <1>5, StutterStep DEF AbstractVars
<1> QED  BY <1>4, <1>5

\* A new version of the document.
LEMMA ChangeStep ==
    ASSUME TypeOK, CommitHostWrite \/ CommitOtherField
    PROVE  Followers!Next
<1>1. PICK b \in BOOLEAN : log' = Append(log, b)
  <2>1. CASE CommitHostWrite
    <3>1. Head(queue) \in BOOLEAN
      BY <2>1 DEF CommitHostWrite, TypeOK, DocOK
    <3> QED  BY <2>1, <3>1 DEF CommitHostWrite
  <2>2. CASE CommitOtherField
    <3>1. log[Len(log)] \in BOOLEAN
      BY DEF TypeOK, DocOK
    <3> QED  BY <2>2, <3>1 DEF CommitOtherField
  <2> QED  BY <2>1, <2>2
<1>2. seen' = seen /\ \A k \in Guests : Keeps(k)
  BY DEF CommitHostWrite, CommitOtherField, linkVars, takeVars, Keeps, Following, Recording
<1>3. Followers!Change
  BY <1>1, <1>2, SameActive DEF Followers!Change
<1> QED  BY <1>3 DEF Followers!Next

\* The initial states are those of Follower.
LEMMA FollowersInit == Init => Followers!Init
<1> SUFFICES ASSUME Init PROVE Followers!Init
  OBVIOUS
<1>1. \A g \in Guests : seen[g] = 1 /\ recorder[g] = 0
  BY DEF Init, Devices
<1>2. \A g \in Guests : Following(g) = FALSE
  BY <1>1 DEF Following, Recording
<1>3. log = <<FALSE>>
  BY DEF Init
<1> QED  BY <1>1, <1>2, <1>3 DEF Followers!Init

\* The guests' recorders implement Follower: whatever is tapped, written,
\* interrupted or restarted, a guest begins to record for the host only at
\* reading that the host records, has stopped once it reads that the host does
\* not, and never reads backwards.
THEOREM GuestsFollow == Spec => GuestsAreFollowers
<1>1. TypeOK /\ [Next]_vars => [Followers!Next]_AbstractVars
  <2> SUFFICES ASSUME TypeOK, [Next]_vars
               PROVE  Followers!Next \/ UNCHANGED AbstractVars
    OBVIOUS
  <2>1. ASSUME UNCHANGED <<docVars, seen, takeVars>>
        PROVE  UNCHANGED AbstractVars
    <3>1. \A k \in Guests : Keeps(k)
      BY <2>1 DEF takeVars, Keeps, Following, Recording
    <3> QED  BY <2>1, <3>1, StutterStep DEF AbstractVars, docVars
  <2>2. ASSUME NEW d \in Devices,
               EnterStudio(d) \/ SaveRecording(d) \/ CancelRecording(d)
        PROVE  UNCHANGED AbstractVars
    BY <2>1, <2>2 DEF EnterStudio, SaveRecording, CancelRecording, linkVars
  <2>3. ASSUME NEW g \in Guests, ReceiveSnapshot(g) PROVE Followers!Next
    BY <2>3, HandleStep DEF ReceiveSnapshot
  <2>4. ASSUME NEW g \in Guests, ReceiveOwnWrite(g) PROVE Followers!Next
    <3>1. seen[g] \in seen[g] .. Len(log) /\ seen = [seen EXCEPT ![g] = seen[g]]
      BY DEF TypeOK, LinkOK, Devices
    <3> QED  BY <2>4, <3>1, HandleStep DEF ReceiveOwnWrite, linkVars
  <2>5. CASE UNCHANGED vars
    BY <2>1, <2>5 DEF vars, linkVars
  <2> QED
    BY <2>2, <2>3, <2>4, <2>5, RecordAudioStep, CutStep, ChangeStep DEF Next
<1> QED
  BY <1>1, FollowersInit, TypeCorrect, PTL
     DEF Spec, GuestsAreFollowers, Followers!Spec, AbstractVars
=============================================================================
