----------------------------- MODULE MergeProofs -----------------------------
(* Proofs about MergeJobs, for every set of tracks, apps, faults and habits  *)
(* and every number of jobs.                                                 *)
EXTENDS MergeJobs, TLAPS

USE JobsAssumption, HostAssumption DEF clickVars

-----------------------------------------------------------------------------
(* The inductive invariants.                                                 *)

\* The blocks of the merge buttons use a Merge object, and each export is of
\* one.
MergeLinks ==
    \A j \in Jobs :
      /\ phase[j] \in {"create", "add", "perform", "export"} => kind[j] \in Merged
      /\ phase[j] \in {"add", "perform", "export"} => merge \in Jobs
      /\ phase[j] = "export" => export[j] \in Jobs

TypeInv == TypeOK /\ MergeLinks

\* If the user waits, only the last job is under way, and the Merge objects to
\* come are empty.
OneAtATime ==
    /\ \A j \in Jobs : UnderWay(j) => j = taps
    /\ \A j \in Jobs : j > taps => audioTracks[j] = {}
    /\ temporary["picked"] \in {{}, {Song}}

\* What a job that is under way has done with the tracks it is about.
Stage(j) ==
    /\ phase[j] = "send" => kind[j] = "picked"
    /\ phase[j] \in {"send", "put"} /\ kind[j] = "picked" => chosen[j] = {Song}
    /\ phase[j] \in {"create", "add"} => audioTracks[j] = {} /\ chosen[j] = selectedTracks
    /\ phase[j] \in {"add", "perform", "export"} => merge = j
    /\ phase[j] \in {"perform", "export"} => audioTracks[j] = chosen[j]
    /\ phase[j] = "export" => export[j] = j /\ temporary[kind[j]] = {}
    /\ phase[j] = "put" /\ source[j] # "none" =>
         source[j] = kind[j] /\ temporary[kind[j]] \in {{}, chosen[j]}
    /\ phase[j] \in {"url", "write"} => storage[Path(kind[j])].content = chosen[j]

PatientInv == "patient" \in Habits => OneAtATime /\ \A j \in Jobs : Stage(j)

-----------------------------------------------------------------------------
(* Type correctness.                                                         *)

\* The taps keep the types, and so does the start of a job.
LEMMA StartType ==
    ASSUME TypeInv, NEW k \in Kinds, NEW what \in Contents, NEW first \in {"send", "create"},
           Start(k, what, first), first = "create" => k \in Merged
    PROVE  TypeInv'
<1>1. taps' = taps + 1 /\ taps' \in Jobs
  BY DEF Start, TypeInv, TypeOK, JobOK, Jobs
<1>2. /\ kind' = [kind EXCEPT ![taps'] = k]
      /\ chosen' = [chosen EXCEPT ![taps'] = what]
      /\ phase' = [phase EXCEPT ![taps'] = first]
      /\ spinner' = TRUE
      /\ UNCHANGED <<selectedTracks, clickVars, mergeVars, source, temporary, docVars, alive>>
  BY DEF Start
<1>3. UserOK'
  BY <1>2 DEF TypeInv, TypeOK, UserOK
<1>4. JobOK'
  BY <1>1, <1>2 DEF TypeInv, TypeOK, JobOK, Jobs, Phases
<1>5. MergeOK' /\ DocOK'
  BY <1>2 DEF TypeInv, TypeOK, MergeOK, DocOK, mergeVars, docVars
<1>6. MergeLinks'
  BY <1>1, <1>2 DEF TypeInv, TypeOK, JobOK, MergeLinks, mergeVars
<1> QED  BY <1>3, <1>4, <1>5, <1>6 DEF TypeInv, TypeOK

\* Every step keeps the types and the links of the jobs to Merge objects.
LEMMA TypeStep ==
    TypeInv /\ [Next]_vars => TypeInv'
<1> SUFFICES ASSUME TypeInv, [Next]_vars PROVE TypeInv'
  OBVIOUS
<1> USE DEF TypeInv, TypeOK
<1>1. ASSUME NEW t \in Tracks, Toggle(t) PROVE TypeInv'
  BY <1>1 DEF Toggle, UserOK, JobOK, MergeOK, DocOK, MergeLinks, jobVars, mergeVars, docVars
<1>2. ASSUME NEW k \in Merged, MergeTapped(k) PROVE TypeInv'
  <2>1. k \in Kinds /\ selectedTracks \in Contents
    BY DEF Kinds, Contents, UserOK
  <2> QED  BY <1>2, <2>1, StartType DEF MergeTapped
<1>3. CASE pickSong
  <2>1. temporary' \in [Kinds -> Contents]
    BY <1>3 DEF pickSong, MergeOK, Contents
  <2> QED
    BY <1>3, <2>1 DEF pickSong, UserOK, JobOK, MergeOK, DocOK, MergeLinks, jobVars,
                      mergeVars, docVars
<1>song. CASE SongExported
  <2>1. temporary' \in [Kinds -> Contents]
    BY <1>song DEF SongExported, MergeOK, Contents
  <2> QED
    BY <1>song, <2>1 DEF SongExported, UserOK, JobOK, MergeOK, DocOK, MergeLinks, jobVars,
                         mergeVars, docVars
<1>4. CASE confirmTrack
  <2>1. "picked" \in Kinds /\ {Song} \in Contents
    BY DEF Kinds, Contents
  <2> QED  BY <1>4, <2>1, StartType DEF confirmTrack
<1>5. ASSUME NEW j \in Jobs, SendClickTrack(j) PROVE TypeInv'
  <2>1. UserOK' /\ MergeOK' /\ DocOK'
    BY <1>5 DEF SendClickTrack, UserOK, MergeOK, DocOK, mergeVars, docVars
  <2>2. JobOK'
    BY <1>5 DEF SendClickTrack, JobOK, At, Go, jobVars, Phases, Kinds
  <2>3. MergeLinks'
    BY <1>5 DEF SendClickTrack, JobOK, MergeLinks, At, Go, jobVars, mergeVars
  <2> QED  BY <2>1, <2>2, <2>3
<1>6. ASSUME NEW j \in Jobs, CreateMerge(j) PROVE TypeInv'
  <2>1. UserOK' /\ DocOK'
    BY <1>6 DEF CreateMerge, UserOK, DocOK, docVars
  <2>2. JobOK' /\ MergeOK'
    BY <1>6 DEF CreateMerge, JobOK, MergeOK, At, Go, jobVars, Phases, Jobs
  <2>3. MergeLinks'
    BY <1>6 DEF CreateMerge, JobOK, MergeLinks, At, Go, jobVars
  <2> QED  BY <2>1, <2>2, <2>3
<1>7. ASSUME NEW j \in Jobs, addAudio(j) PROVE TypeInv'
  <2>1. UserOK' /\ DocOK'
    BY <1>7 DEF addAudio, UserOK, DocOK, docVars
  <2>2. JobOK'
    BY <1>7 DEF addAudio, JobOK, At, Go, jobVars, Phases
  <2>3. MergeOK'
    BY <1>7 DEF addAudio, MergeOK, UserOK
  <2>4. MergeLinks'
    BY <1>7 DEF addAudio, JobOK, MergeLinks, At, Go, jobVars
  <2> QED  BY <2>1, <2>2, <2>3, <2>4
<1>8. ASSUME NEW j \in Jobs, performMerge(j) PROVE TypeInv'
  <2>1. UserOK' /\ DocOK'
    BY <1>8 DEF performMerge, UserOK, DocOK, docVars
  <2>2. JobOK'
    BY <1>8 DEF performMerge, JobOK, At, Go, jobVars, Phases
  <2>3. MergeOK'
    BY <1>8 DEF performMerge, MergeOK, Contents
  <2>4. MergeLinks'
    BY <1>8 DEF performMerge, JobOK, MergeOK, MergeLinks, At, Go, jobVars
  <2> QED  BY <2>1, <2>2, <2>3, <2>4
<1>9. ASSUME NEW j \in Jobs, MergeRaises(j) PROVE TypeInv'
  <2>1. UserOK' /\ MergeOK' /\ DocOK'
    BY <1>9 DEF MergeRaises, UserOK, MergeOK, DocOK, mergeVars, docVars
  <2>2. JobOK' /\ MergeLinks'
    BY <1>9 DEF MergeRaises, JobOK, MergeLinks, At, Go, jobVars, mergeVars, Phases
  <2> QED  BY <2>1, <2>2
<1>10. ASSUME NEW j \in Jobs, ExportEnded(j) PROVE TypeInv'
  <2>1. kind[j] \in Merged /\ export[j] \in Jobs /\ merge \in Jobs
    BY <1>10 DEF ExportEnded, At, MergeLinks
  <2>2. UserOK' /\ DocOK'
    BY <1>10 DEF ExportEnded, UserOK, DocOK, docVars
  <2>3. mergedTrack' \in [Jobs -> Merged \union {"none"}]
    BY <1>10, <2>1 DEF ExportEnded, MergeOK
  <2>4. temporary' \in [Kinds -> Contents]
    <3>1. audioTracks[export[j]] \in Contents
      BY <2>1 DEF MergeOK, Contents
    <3> QED  BY <1>10, <3>1 DEF ExportEnded, MergeOK
  <2>5. MergeOK'
    BY <1>10, <2>3, <2>4 DEF ExportEnded, MergeOK
  <2>6. JobOK'
    BY <1>10, <2>1, <2>3 DEF ExportEnded, JobOK, Go, jobVars, Phases, Kinds
  <2>7. MergeLinks'
    BY <1>10 DEF ExportEnded, JobOK, MergeLinks, Go, jobVars
  <2> QED  BY <2>2, <2>5, <2>6, <2>7
<1>11. ASSUME NEW j \in Jobs, PutDone(j) PROVE TypeInv'
  <2>1. UserOK' /\ MergeOK'
    BY <1>11 DEF PutDone, UserOK, MergeOK, mergeVars
  <2>2. JobOK' /\ MergeLinks'
    BY <1>11 DEF PutDone, JobOK, MergeLinks, At, Go, jobVars, mergeVars, Phases
  <2>3. Upload(j) \in Contents /\ j \in 0 .. MaxJobs
    BY DEF Upload, Contents, JobOK, MergeOK, Jobs
  <2>4. DocOK'
    BY <1>11, <2>3 DEF PutDone, DocOK, Files
  <2> QED  BY <2>1, <2>2, <2>4
<1>12. ASSUME NEW j \in Jobs, PutFails(j) \/ UrlFails(j) PROVE TypeInv'
  <2>1. UserOK' /\ MergeOK' /\ DocOK'
    BY <1>12 DEF PutFails, UrlFails, UserOK, MergeOK, DocOK, mergeVars, docVars
  <2>2. JobOK' /\ MergeLinks'
    BY <1>12 DEF PutFails, UrlFails, JobOK, MergeLinks, At, Go, jobVars, mergeVars, Phases
  <2> QED  BY <2>1, <2>2
<1>13. ASSUME NEW j \in Jobs, UrlDone(j) PROVE TypeInv'
  <2>1. UserOK' /\ MergeOK'
    BY <1>13 DEF UrlDone, UserOK, MergeOK, mergeVars
  <2>2. JobOK' /\ MergeLinks'
    BY <1>13 DEF UrlDone, JobOK, MergeLinks, At, Go, jobVars, mergeVars, Phases
  <2>3. Path(kind[j]) \in Paths
    BY DEF Path, Paths
  <2>4. storage[Path(kind[j])] \in Files
    BY <2>3 DEF DocOK
  <2>5. DocOK'
    BY <1>13, <2>3, <2>4 DEF UrlDone, DocOK, Files, URLs
  <2> QED  BY <2>1, <2>2, <2>5
<1>14. ASSUME NEW j \in Jobs, RefWritten(j) PROVE TypeInv'
  <2>1. JobOK' /\ MergeLinks' /\ MergeOK'
    BY <1>14 DEF RefWritten, JobOK, MergeOK, MergeLinks, At, Go, jobVars, mergeVars, Phases
  <2>2. alive' \in BOOLEAN /\ spinner' = FALSE
    BY <1>14, Zenon DEF RefWritten, Completion
  <2>3. UserOK'
    BY <1>14, <2>2, Zenon DEF RefWritten, UserOK
  <2>4. DocOK'
    BY <1>14 DEF RefWritten, DocOK
  <2> QED  BY <2>1, <2>3, <2>4
<1>15. ASSUME NEW d \in Listeners, Listen(d) PROVE TypeInv'
  <2>1. clickTrack' \in {clickTrack, "remote"}
    BY <1>15 DEF Listen
  <2>2. UserOK' /\ JobOK' /\ MergeOK' /\ MergeLinks'
    BY <1>15, <2>1 DEF Listen, UserOK, JobOK, MergeOK, MergeLinks, jobVars, mergeVars
  <2> DEFINE r == refs["clickTrackRef"]
  <2>3. r \in [path : Paths, upload : 0 .. MaxJobs, content : Contents]
    BY <1>15 DEF Listen, DocOK, URLs, Fields
  <2>4. PICK c \in {storage[r.path].content, {}} :
          heard' = [heard EXCEPT ![d] = [r EXCEPT !.content = c]]
    BY <1>15 DEF Listen
  <2>5. c \in Contents
    BY <2>3 DEF DocOK, Files, Contents
  <2>6. [r EXCEPT !.content = c] \in URLs
    BY <2>3, <2>5 DEF URLs
  <2> HIDE DEF r
  <2>7. heard' \in [Listeners -> URLs]
    BY <2>4, <2>6 DEF DocOK
  <2>8. DocOK'
    BY <1>15, <2>7 DEF Listen, DocOK
  <2> QED  BY <2>2, <2>8
<1>16. CASE UNCHANGED vars
  BY <1>16 DEF vars, UserOK, JobOK, MergeOK, DocOK, MergeLinks, jobVars, mergeVars, docVars
<1> QED
  BY <1>1, <1>2, <1>3, <1>song, <1>4, <1>5, <1>6, <1>7, <1>8, <1>9, <1>10, <1>11, <1>12,
     <1>13, <1>14, <1>15, <1>16 DEF Next

\* The types hold at the start.
LEMMA TypeInit == Init => TypeInv
<1> SUFFICES ASSUME Init PROVE TypeInv
  OBVIOUS
<1>1. UserOK /\ MergeLinks
  BY DEF Init, UserOK, MergeLinks
<1>2. JobOK /\ MergeOK
  BY DEF Init, JobOK, MergeOK, Jobs, Kinds, Merged, Contents, Phases
<1>3. DocOK
  BY DEF Init, DocOK, Files, URLs, NoFile, NoURL, Contents
<1> QED  BY <1>1, <1>2, <1>3 DEF TypeInv, TypeOK

\* Every job, Merge object, file and reference of a behaviour exists: the
\* completion blocks never index with a job that did not make a Merge object.
THEOREM TypeCorrect == Spec => []TypeOK
<1>1. TypeInv => TypeOK
  BY DEF TypeInv
<1> QED  BY <1>1, TypeInit, TypeStep, PTL DEF Spec

-----------------------------------------------------------------------------
(* What is uploaded, for users who wait.                                     *)

\* A step of the last job, which leaves the selection, the taps and every
\* other job alone, keeps the invariant if it keeps the stage of that job.
LEMMA OneJobStep ==
    ASSUME TypeInv, OneAtATime, \A i \in Jobs : Stage(i),
           NEW j \in Jobs, UnderWay(j), NEW p \in Phases,
           phase' = [phase EXCEPT ![j] = p],
           UNCHANGED <<jobVars, selectedTracks>>,
           temporary'["picked"] \in {{}, {Song}},
           \A i \in Jobs \ {j} : audioTracks'[i] = audioTracks[i],
           Stage(j)'
    PROVE  OneAtATime' /\ (\A i \in Jobs : Stage(i))'
<1>1. j = taps /\ UNCHANGED <<taps, kind, chosen>>
  BY DEF OneAtATime, jobVars
<1>2. ASSUME NEW i \in Jobs, i # j PROVE phase'[i] = phase[i] /\ phase[i] \in {"over", "lost"}
  BY <1>1, <1>2 DEF OneAtATime, UnderWay, TypeInv, TypeOK, JobOK
<1>3. OneAtATime'
  BY <1>1, <1>2 DEF OneAtATime, UnderWay, Jobs
<1>4. ASSUME NEW i \in Jobs, i # j PROVE Stage(i)'
  BY <1>2, <1>4 DEF Stage
<1> QED  BY <1>3, <1>4

\* A job starts with an empty Merge object and what is selected then.
LEMMA StartStage ==
    ASSUME TypeInv, OneAtATime, \A j \in Jobs : Stage(j), "patient" \in Habits,
           NEW k, NEW what, NEW first \in {"send", "create"},
           Start(k, what, first),
           first = "create" => what = selectedTracks,
           first = "send" => k = "picked" /\ what = {Song}
    PROVE  OneAtATime' /\ (\A j \in Jobs : Stage(j))'
<1>1. taps' = taps + 1 /\ taps' \in Jobs /\ taps \in Nat
  BY DEF Start, TypeInv, TypeOK, JobOK, Jobs
<1>2. /\ kind' = [kind EXCEPT ![taps'] = k]
      /\ chosen' = [chosen EXCEPT ![taps'] = what]
      /\ phase' = [phase EXCEPT ![taps'] = first]
      /\ UNCHANGED <<selectedTracks, audioTracks, temporary>>
      /\ \A j \in Jobs : phase[j] \in {"over", "lost"}
  BY DEF Start, MayTouch, UnderWay, mergeVars
<1>3. audioTracks[taps'] = {} /\ temporary["picked"] \in {{}, {Song}}
  BY <1>1 DEF OneAtATime
<1>4. /\ phase'[taps'] = first /\ chosen'[taps'] = what /\ kind'[taps'] = k
      /\ \A j \in Jobs : j # taps' => phase'[j] \in {"over", "lost"}
  BY <1>1, <1>2 DEF TypeInv, TypeOK, JobOK
<1>5. OneAtATime'
  BY <1>1, <1>2, <1>3, <1>4 DEF OneAtATime, UnderWay, Jobs
<1>6. Stage(taps)'
  BY <1>2, <1>3, <1>4 DEF Stage
<1>7. ASSUME NEW j \in Jobs, j # taps' PROVE Stage(j)'
  BY <1>4, <1>7 DEF Stage
<1> QED  BY <1>1, <1>5, <1>6, <1>7

\* Every step keeps what is known of the job under way.
LEMMA PatientStep ==
    TypeInv /\ PatientInv /\ [Next]_vars => PatientInv'
<1> SUFFICES ASSUME TypeInv, OneAtATime, \A j \in Jobs : Stage(j), [Next]_vars,
                    "patient" \in Habits
             PROVE  OneAtATime' /\ (\A j \in Jobs : Stage(j))'
  BY DEF PatientInv
<1> DEFINE Goal == OneAtATime' /\ (\A j \in Jobs : Stage(j))'
<1>types. UserOK /\ JobOK /\ MergeOK /\ DocOK /\ MergeLinks
  BY DEF TypeInv, TypeOK
<1>phases. phase \in [Jobs -> Phases]
  BY <1>types DEF JobOK
<1>1. ASSUME NEW t \in Tracks, Toggle(t) PROVE Goal
  <2>1. \A j \in Jobs : phase'[j] \in {"over", "lost"}
    BY <1>1 DEF Toggle, MayTouch, UnderWay
  <2> QED  BY <1>1, <2>1 DEF Toggle, OneAtATime, UnderWay, Stage, jobVars, mergeVars
<1>2. ASSUME NEW k \in Merged, MergeTapped(k) PROVE Goal
  BY <1>2, StartStage DEF MergeTapped
<1>3. CASE pickSong
  <2>1. \A j \in Jobs : phase'[j] \in {"over", "lost"}
    BY <1>3 DEF pickSong, MayTouch, UnderWay
  <2>2. temporary'["picked"] \in {{}, {Song}}
    BY <1>3, <1>types DEF pickSong, MergeOK, Kinds
  <2> QED  BY <1>3, <2>1, <2>2 DEF pickSong, OneAtATime, UnderWay, Stage, jobVars, mergeVars
<1>song. CASE SongExported
  <2>1. /\ UNCHANGED <<selectedTracks, jobVars, phase, mergeVars, source, docVars>>
        /\ \A k \in Merged : temporary'[k] = temporary[k]
        /\ temporary'["picked"] \in {temporary["picked"], {Song}}
    BY <1>song, <1>types DEF SongExported, MergeOK, Kinds, Merged
  <2>2. OneAtATime'
    BY <2>1 DEF OneAtATime, UnderWay, jobVars, mergeVars
  <2>3. ASSUME NEW j \in Jobs PROVE Stage(j)'
    <3>1. Stage(j) /\ (phase[j] = "export" => kind[j] \in Merged) /\ kind[j] \in Merged \union {"picked"}
      BY <1>types DEF MergeLinks, JobOK, Kinds
    <3>2. UNCHANGED <<selectedTracks, kind, chosen, phase, audioTracks, merge, export, source, storage>>
      BY <2>1 DEF jobVars, mergeVars, docVars
    <3>3. CASE phase[j] \in {"send", "export"}
      BY <2>1, <3>1, <3>2, <3>3 DEF Stage
    <3>4. CASE phase[j] = "put"
      <4>1. source[j] # "none" =>
              source[j] = kind[j] /\ temporary'[kind[j]] \in {{}, chosen[j]}
        <5>1. CASE kind[j] \in Merged
          BY <2>1, <3>1, <3>4, <5>1 DEF Stage
        <5>2. CASE kind[j] = "picked"
          BY <2>1, <3>1, <3>4, <5>2 DEF Stage
        <5> QED  BY <3>1, <5>1, <5>2
      <4> QED  BY <3>1, <3>2, <3>4, <4>1 DEF Stage
    <3>5. CASE phase[j] \notin {"send", "export", "put"}
      BY <3>1, <3>2, <3>5 DEF Stage
    <3> QED  BY <3>3, <3>4, <3>5
  <2> QED  BY <2>2, <2>3
<1>4. CASE confirmTrack
  BY <1>4, StartStage DEF confirmTrack
<1>5. ASSUME NEW j \in Jobs, SendClickTrack(j) PROVE Goal
  <2>1. phase[j] = "send" /\ UnderWay(j) /\ UNCHANGED <<audioTracks, temporary>>
    BY <1>5 DEF SendClickTrack, At, UnderWay, mergeVars
  <2>2. PICK p \in {"lost", "put"} : phase' = [phase EXCEPT ![j] = p]
    BY <1>5 DEF SendClickTrack, Go
  <2>3. UNCHANGED <<kind, chosen>> /\ kind[j] = "picked" /\ chosen[j] = {Song}
    BY <1>5, <2>1 DEF SendClickTrack, jobVars, Stage
  <2>4. source'[j] \in {"picked", "none"}
    BY <1>5, <1>types DEF SendClickTrack, JobOK
  <2>5. Stage(j)'
    BY <2>1, <2>2, <2>3, <2>4, <1>phases DEF Stage, OneAtATime
  <2> QED
    BY <1>5, <2>1, <2>2, <2>5, OneJobStep DEF SendClickTrack, OneAtATime, Phases
<1>6. ASSUME NEW j \in Jobs, CreateMerge(j) PROVE Goal
  <2>1. UnderWay(j) /\ phase' = [phase EXCEPT ![j] = "add"]
    BY <1>6 DEF CreateMerge, At, Go, UnderWay
  <2>2. Stage(j)'
    BY <1>6, <1>phases, <2>1 DEF CreateMerge, At, Stage, jobVars
  <2> QED
    BY <1>6, <2>1, <2>2, OneJobStep DEF CreateMerge, OneAtATime, Phases
<1>7. ASSUME NEW j \in Jobs, addAudio(j) PROVE Goal
  <2>1. UnderWay(j) /\ phase' = [phase EXCEPT ![j] = "perform"] /\ merge = j
    BY <1>7 DEF addAudio, At, Go, UnderWay, Stage
  <2>2. audioTracks' = [audioTracks EXCEPT ![j] = @ \union selectedTracks]
    BY <1>7, <2>1 DEF addAudio
  <2>3. audioTracks'[j] = chosen[j]
    <3>1. phase[j] = "add" /\ audioTracks[j] = {} /\ chosen[j] = selectedTracks
      BY <1>7 DEF addAudio, At, Stage
    <3> QED  BY <1>types, <2>2, <3>1 DEF MergeOK
  <2>4. Stage(j)'
    BY <1>7, <1>phases, <2>1, <2>3 DEF addAudio, Stage, jobVars
  <2>5. \A i \in Jobs \ {j} : audioTracks'[i] = audioTracks[i]
    BY <1>types, <2>2 DEF MergeOK
  <2> QED
    BY <1>7, <2>1, <2>4, <2>5, OneJobStep DEF addAudio, OneAtATime, Phases
<1>8. ASSUME NEW j \in Jobs, performMerge(j) PROVE Goal
  <2>1. /\ UnderWay(j) /\ phase' = [phase EXCEPT ![j] = "export"] /\ merge = j
        /\ audioTracks[j] = chosen[j] /\ kind[j] \in Merged
    BY <1>8, <1>types DEF performMerge, At, Go, UnderWay, Stage, MergeLinks
  <2>2. /\ export'[j] = j /\ temporary'[kind[j]] = {}
        /\ temporary'["picked"] = temporary["picked"]
    BY <1>8, <1>types, <2>1 DEF performMerge, MergeOK, Kinds, Merged
  <2>3. Stage(j)'
    BY <1>8, <1>phases, <2>1, <2>2 DEF performMerge, Stage, jobVars
  <2> QED
    BY <1>8, <2>1, <2>2, <2>3, OneJobStep DEF performMerge, OneAtATime, Phases
<1>9. ASSUME NEW j \in Jobs, MergeRaises(j) PROVE Goal
  <2>1. UnderWay(j) /\ phase' = [phase EXCEPT ![j] = "lost"]
    BY <1>9 DEF MergeRaises, At, Go, UnderWay
  <2>2. Stage(j)'
    BY <1>phases, <2>1 DEF Stage
  <2> QED
    BY <1>9, <2>1, <2>2, OneJobStep DEF MergeRaises, OneAtATime, Phases, mergeVars
<1>10. ASSUME NEW j \in Jobs, ExportEnded(j) PROVE Goal
  <2>1. /\ UnderWay(j) /\ merge = j /\ export[j] = j /\ kind[j] \in Merged
        /\ audioTracks[j] = chosen[j] /\ temporary[kind[j]] = {}
    BY <1>10, <1>types DEF ExportEnded, At, UnderWay, Stage, MergeLinks
  <2>2. mergedTrack'[merge] = kind[j] /\ kind[j] # "none"
    BY <1>10, <1>types, <2>1 DEF ExportEnded, MergeOK, Merged
  <2>3. source'[j] = kind[j] /\ phase' = [phase EXCEPT ![j] = "put"]
    BY <1>10, <1>types, <2>2 DEF ExportEnded, JobOK, Go
  <2>4. /\ temporary'[kind[j]] \in {{}, chosen[j]}
        /\ temporary'["picked"] = temporary["picked"]
    BY <1>10, <1>types, <2>1 DEF ExportEnded, MergeOK, Merged, Kinds
  <2>5. Stage(j)'
    <3>1. phase'[j] = "put" /\ kind' = kind /\ chosen' = chosen /\ kind[j] # "picked"
      BY <1>10, <1>phases, <2>1, <2>3 DEF ExportEnded, jobVars, Merged
    <3> QED  BY <2>3, <2>4, <3>1 DEF Stage
  <2> QED
    BY <1>10, <2>1, <2>3, <2>4, <2>5, OneJobStep DEF ExportEnded, OneAtATime, Phases
<1>11. ASSUME NEW j \in Jobs, PutDone(j) PROVE Goal
  <2>1. UnderWay(j) /\ phase' = [phase EXCEPT ![j] = "url"]
    BY <1>11 DEF PutDone, At, Go, UnderWay
  <2>2. Upload(j) = chosen[j]
    BY <1>11 DEF PutDone, At, Stage, Upload
  <2>3. storage'[Path(kind[j])].content = chosen[j]
    <3>1. Path(kind[j]) \in Paths
      BY DEF Path, Paths
    <3> QED  BY <1>11, <1>types, <2>2, <3>1 DEF PutDone, DocOK
  <2>4. Stage(j)'
    BY <1>11, <1>phases, <2>1, <2>3 DEF PutDone, Stage, jobVars
  <2> QED
    BY <1>11, <2>1, <2>4, OneJobStep DEF PutDone, OneAtATime, Phases, mergeVars
<1>12. ASSUME NEW j \in Jobs, PutFails(j) \/ UrlFails(j) PROVE Goal
  <2>1. PICK p \in {"over", "lost"} : UnderWay(j) /\ phase' = [phase EXCEPT ![j] = p]
    BY <1>12 DEF PutFails, UrlFails, At, Go, UnderWay
  <2>2. Stage(j)'
    BY <1>phases, <2>1 DEF Stage
  <2> QED
    BY <1>12, <2>1, <2>2, OneJobStep DEF PutFails, UrlFails, OneAtATime, Phases, mergeVars
<1>13. ASSUME NEW j \in Jobs, UrlDone(j) PROVE Goal
  <2>1. UnderWay(j) /\ phase' = [phase EXCEPT ![j] = "write"]
    BY <1>13 DEF UrlDone, At, Go, UnderWay
  <2>2. Stage(j)'
    BY <1>13, <1>phases, <2>1 DEF UrlDone, At, Stage, jobVars
  <2> QED
    BY <1>13, <2>1, <2>2, OneJobStep DEF UrlDone, OneAtATime, Phases, mergeVars
<1>14. ASSUME NEW j \in Jobs, RefWritten(j) PROVE Goal
  <2>1. UnderWay(j) /\ phase' = [phase EXCEPT ![j] = "over"]
    BY <1>14 DEF RefWritten, At, Go, UnderWay
  <2>2. Stage(j)'
    BY <1>phases, <2>1 DEF Stage
  <2> QED
    BY <1>14, <2>1, <2>2, OneJobStep DEF RefWritten, OneAtATime, Phases, mergeVars
<1>15. ASSUME NEW d \in Listeners, Listen(d) PROVE Goal
  BY <1>15 DEF Listen, OneAtATime, UnderWay, Stage, jobVars, mergeVars
<1>16. CASE UNCHANGED vars
  BY <1>16 DEF vars, OneAtATime, UnderWay, Stage, jobVars, mergeVars, docVars
<1> QED
  BY <1>1, <1>2, <1>3, <1>song, <1>4, <1>5, <1>6, <1>7, <1>8, <1>9, <1>10, <1>11, <1>12,
     <1>13, <1>14, <1>15, <1>16 DEF Next

\* If the user waits for each job, what it puts into Storage, and goes on to
\* reference in the session document, is what was selected when its button was
\* tapped, whatever fails: the temporary file of an earlier job is never
\* mistaken for the result of a failed export.
THEOREM UploadsTheChoice == Spec => []UploadIsOfChosen
<1>1. Init => PatientInv
  BY DEF Init, PatientInv, OneAtATime, UnderWay, Stage, Kinds
<1>2. PatientInv => UploadIsOfChosen
  BY DEF PatientInv, Stage, UploadIsOfChosen
<1> QED  BY <1>1, <1>2, TypeInit, TypeStep, PatientStep, PTL DEF Spec

-----------------------------------------------------------------------------
(* What becomes of the click track, for users who wait and keep to one of    *)
(* the merge buttons.                                                        *)

Taken == 1 .. taps

\* The merge button is one for all jobs.
OneButton ==
    \A i, j \in Taken : {kind[i], kind[j]} \subseteq Merged => kind[i] = kind[j]

\* A file in Storage is what its job was to upload.
FilesAreOfJobs ==
    \A p \in Paths :
      LET u == storage[p].upload IN
      IF u = 0 THEN storage[p].content = {}
      ELSE u \in Taken /\ Path(kind[u]) = p /\ storage[p].content = chosen[u]

\* No other job has overwritten the file of a job that is about to reference it.
OwnFile(j) ==
    /\ phase[j] \in {"url", "write"} => storage[Path(kind[j])].upload = j
    /\ phase[j] = "write" => url[j].path = Path(kind[j]) /\ url[j].upload = j

\* A URL is that of the file of a job that made a click track.
IsClickTrack(r) ==
    r.upload \in Taken /\ kind[r.upload] # "final" /\ Path(kind[r.upload]) = r.path

Replaced(r) == \E j \in r.upload + 1 .. taps : kind[j] # "final"

RefIsClickTrack ==
    LET r == refs["clickTrackRef"] IN
    r # NoURL => IsClickTrack(r) /\ (storage[r.path].upload = r.upload \/ Replaced(r))

HeardIsClickTrack ==
    \A d \in Listeners :
      heard[d] # NoURL =>
        \E j \in Taken : kind[j] # "final" /\ heard[d].content \in {chosen[j], {}}

KeptInv ==
    AllHabits \subseteq Habits =>
      /\ OneButton
      /\ FilesAreOfJobs
      /\ \A j \in Jobs : OwnFile(j)
      /\ RefIsClickTrack
      /\ HeardIsClickTrack

\* A step that neither starts a job nor writes a file or a reference, and that
\* brings no job to its url or write, changes nothing of this.
LEMMA KeptFrame ==
    ASSUME KeptInv, UNCHANGED <<jobVars, docVars>>,
           \A j \in Jobs : phase'[j] \in {"url", "write"} => phase'[j] = phase[j]
    PROVE  KeptInv'
BY DEF KeptInv, OneButton, FilesAreOfJobs, OwnFile, IsClickTrack, Replaced, RefIsClickTrack,
       HeardIsClickTrack, Taken, jobVars, docVars, Path

\* A tap adds a job, and with it perhaps a newer click track.
LEMMA KeptStart ==
    ASSUME TypeInv, KeptInv,
           NEW k \in Kinds, NEW what, NEW first \in {"send", "create"},
           Start(k, what, first),
           "apart" \in Habits /\ k \in Merged => \A j \in Taken : kind[j] \in {k, "picked"}
    PROVE  KeptInv'
<1> SUFFICES ASSUME AllHabits \subseteq Habits
             PROVE  /\ OneButton' /\ FilesAreOfJobs' /\ (\A j \in Jobs : OwnFile(j))'
                    /\ RefIsClickTrack' /\ HeardIsClickTrack'
  BY DEF KeptInv
<1>inv. OneButton /\ FilesAreOfJobs /\ (\A j \in Jobs : OwnFile(j)) /\ RefIsClickTrack /\ HeardIsClickTrack
  BY DEF KeptInv
<1>1. taps' = taps + 1 /\ taps' \in Jobs /\ taps \in Nat
  BY DEF Start, TypeInv, TypeOK, JobOK, Jobs
<1>2. /\ kind' = [kind EXCEPT ![taps'] = k]
      /\ chosen' = [chosen EXCEPT ![taps'] = what]
      /\ phase' = [phase EXCEPT ![taps'] = first]
      /\ UNCHANGED <<storage, url, refs, heard>>
  BY DEF Start, docVars
<1>3. ASSUME NEW j \in Taken
      PROVE  j \in Jobs /\ j \in Taken' /\ j # taps' /\ kind'[j] = kind[j] /\ chosen'[j] = chosen[j]
  BY <1>1, <1>2 DEF Taken, Jobs, TypeInv, TypeOK, JobOK
<1>4. ASSUME NEW j \in Taken' PROVE j \in Taken \/ (j = taps' /\ kind'[j] = k)
  BY <1>1, <1>2 DEF Taken, TypeInv, TypeOK, JobOK
<1>5. OneButton'
  <2>1. k \in Merged => \A j \in Taken : kind[j] \in {k, "picked"}
    BY DEF AllHabits
  <2> QED  BY <1>inv, <1>3, <1>4, <2>1 DEF OneButton, Merged
<1>6. FilesAreOfJobs'
  BY <1>inv, <1>2, <1>3 DEF FilesAreOfJobs, Path
<1>7. ASSUME NEW j \in Jobs PROVE OwnFile(j)'
  <2>1. CASE j = taps'
    BY <1>1, <1>2, <2>1 DEF OwnFile, TypeInv, TypeOK, JobOK
  <2>2. CASE j # taps'
    BY <1>inv, <1>1, <1>2, <2>2 DEF OwnFile, TypeInv, TypeOK, JobOK, Path
  <2> QED  BY <2>1, <2>2
<1>8. RefIsClickTrack'
  <2> DEFINE r == refs["clickTrackRef"]
  <2> SUFFICES ASSUME r # NoURL
               PROVE  IsClickTrack(r)' /\ (storage[r.path].upload = r.upload \/ Replaced(r)')
    BY <1>2 DEF RefIsClickTrack
  <2>1. IsClickTrack(r) /\ (storage[r.path].upload = r.upload \/ Replaced(r))
    BY <1>inv DEF RefIsClickTrack
  <2>2. IsClickTrack(r)'
    BY <1>2, <1>3, <2>1 DEF IsClickTrack, Path
  <2>3. ASSUME Replaced(r) PROVE Replaced(r)'
    <3>1. PICK j \in r.upload + 1 .. taps : kind[j] # "final"
      BY <2>3 DEF Replaced
    <3>2. r.upload \in Nat /\ r.upload >= 1 /\ j \in Taken
      BY <1>1, <2>1, <3>1 DEF IsClickTrack, Taken
    <3>3. j \in r.upload + 1 .. taps' /\ kind'[j] # "final"
      BY <1>1, <1>3, <3>1, <3>2
    <3> QED  BY <1>2, <3>3 DEF Replaced
  <2> QED  BY <2>1, <2>2, <2>3
<1>9. HeardIsClickTrack'
  BY <1>inv, <1>2, <1>3 DEF HeardIsClickTrack
<1> QED  BY <1>5, <1>6, <1>7, <1>8, <1>9

\* Every step keeps the click track what it was uploaded as.
LEMMA KeptStep ==
    TypeInv /\ PatientInv /\ KeptInv /\ [Next]_vars => KeptInv'
<1> SUFFICES ASSUME TypeInv, PatientInv, KeptInv, [Next]_vars PROVE KeptInv'
  OBVIOUS
<1>types. UserOK /\ JobOK /\ MergeOK /\ DocOK /\ MergeLinks
  BY DEF TypeInv, TypeOK
<1>1. ASSUME NEW t \in Tracks, Toggle(t) PROVE KeptInv'
  BY <1>1, KeptFrame DEF Toggle
<1>2. ASSUME NEW k \in Merged, MergeTapped(k) PROVE KeptInv'
  BY <1>2, KeptStart DEF MergeTapped, Kinds, Taken
<1>3. CASE pickSong \/ SongExported
  BY <1>3, KeptFrame DEF pickSong, SongExported
<1>4. CASE confirmTrack
  BY <1>4, KeptStart DEF confirmTrack, Kinds, Merged
<1>5. ASSUME NEW j \in Jobs, NEW p \in {"lost", "put", "add", "perform", "export", "over"},
             UNCHANGED <<jobVars, docVars>>, Go(j, p)
      PROVE  KeptInv'
  BY <1>5, <1>types, KeptFrame DEF Go, JobOK
<1>6. ASSUME NEW j \in Jobs,
             SendClickTrack(j) \/ CreateMerge(j) \/ addAudio(j) \/ performMerge(j)
      PROVE  KeptInv'
  BY <1>6, <1>5 DEF SendClickTrack, CreateMerge, addAudio, performMerge
<1>7. ASSUME NEW j \in Jobs, MergeRaises(j) \/ ExportEnded(j) \/ PutFails(j) \/ UrlFails(j)
      PROVE  KeptInv'
  BY <1>7, <1>5 DEF MergeRaises, ExportEnded, PutFails, UrlFails
<1>8. ASSUME NEW j \in Jobs, PutDone(j), AllHabits \subseteq Habits PROVE KeptInv'
  <2> DEFINE f == [upload |-> j, content |-> chosen[j]]
             q == Path(kind[j])
  <2>inv. /\ OneButton /\ FilesAreOfJobs /\ (\A i \in Jobs : OwnFile(i))
          /\ RefIsClickTrack /\ HeardIsClickTrack
    BY <1>8 DEF KeptInv
  <2>1. /\ phase[j] = "put" /\ phase' = [phase EXCEPT ![j] = "url"] /\ q \in Paths
        /\ UNCHANGED <<taps, kind, chosen, url, refs, heard>>
    BY <1>8 DEF PutDone, At, Go, jobVars, Path, Paths
  <2>2. /\ Upload(j) = chosen[j] /\ j = taps /\ j \in Taken /\ j # 0
        /\ \A i \in Jobs : i # j => phase[i] \in {"over", "lost"}
    <3>1. OneAtATime /\ \A i \in Jobs : Stage(i)
      BY <1>8 DEF PatientInv, AllHabits
    <3>2. Upload(j) = chosen[j]
      BY <1>8, <2>1, <3>1 DEF PutDone, Stage, Upload
    <3> QED  BY <2>1, <3>1, <3>2 DEF OneAtATime, UnderWay, Taken, Jobs
  <2>3. storage' = [storage EXCEPT ![q] = f]
    BY <1>8, <2>2 DEF PutDone
  <2>4. storage'[q] = f /\ \A p \in Paths : p # q => storage'[p] = storage[p]
    BY <1>types, <2>1, <2>3 DEF DocOK
  <2> HIDE DEF f
  <2>5. f.upload = j /\ f.content = chosen[j]
    BY DEF f
  <2>6. OneButton'
    BY <2>inv, <2>1 DEF OneButton, Taken
  <2>7. FilesAreOfJobs'
    BY <2>inv, <2>1, <2>2, <2>4, <2>5 DEF FilesAreOfJobs, Taken, Path
  <2>8. ASSUME NEW i \in Jobs PROVE OwnFile(i)'
    <3>1. CASE i = j
      BY <1>types, <2>1, <2>4, <2>5, <3>1 DEF OwnFile, JobOK, Path
    <3>2. CASE i # j
      BY <1>types, <2>1, <2>2, <3>2 DEF OwnFile, JobOK
    <3> QED  BY <3>1, <3>2
  <2>9. RefIsClickTrack'
    <3> DEFINE r == refs["clickTrackRef"]
    <3> SUFFICES ASSUME r # NoURL
                 PROVE  IsClickTrack(r)' /\ (storage'[r.path].upload = r.upload \/ Replaced(r)')
      BY <2>1 DEF RefIsClickTrack
    <3>1. IsClickTrack(r) /\ (storage[r.path].upload = r.upload \/ Replaced(r))
      BY <2>inv DEF RefIsClickTrack
    <3>2. IsClickTrack(r)' /\ Replaced(r)' = Replaced(r)
      BY <2>1, <3>1 DEF IsClickTrack, Replaced, Taken, Path
    <3>3. r.upload \in Taken /\ kind[r.upload] # "final" /\ Path(kind[r.upload]) = r.path
      BY <3>1 DEF IsClickTrack
    <3> HIDE DEF r
    <3>4. CASE r.path # q
      <4>1. r.path \in Paths
        BY <3>3 DEF Path, Paths
      <4> QED  BY <3>1, <3>2, <3>4, <4>1, <2>4
    <3>5. CASE r.path = q /\ r.upload = j
      BY <3>2, <3>5, <2>4, <2>5
    <3>6. CASE r.path = q /\ r.upload # j
      <4>1. kind[j] # "final"
        BY <2>inv, <2>2, <3>3, <3>6, <1>types DEF OneButton, Path, Merged, Kinds, JobOK, Taken, Jobs
      <4>2. j \in r.upload + 1 .. taps
        BY <2>2, <3>3, <3>6, <1>types DEF Taken, JobOK
      <4> QED  BY <3>2, <4>1, <4>2 DEF Replaced
    <3> QED  BY <3>4, <3>5, <3>6
  <2>10. HeardIsClickTrack'
    BY <2>inv, <2>1 DEF HeardIsClickTrack, Taken
  <2> QED  BY <2>6, <2>7, <2>8, <2>9, <2>10 DEF KeptInv
<1>9. ASSUME NEW j \in Jobs, UrlDone(j), AllHabits \subseteq Habits PROVE KeptInv'
  <2>inv. /\ OneButton /\ FilesAreOfJobs /\ (\A i \in Jobs : OwnFile(i))
          /\ RefIsClickTrack /\ HeardIsClickTrack
    BY <1>9 DEF KeptInv
  <2>1. /\ phase[j] = "url" /\ phase' = [phase EXCEPT ![j] = "write"]
        /\ UNCHANGED <<taps, kind, chosen, storage, refs, heard>>
    BY <1>9 DEF UrlDone, At, Go, jobVars
  <2>2. url'[j].path = Path(kind[j]) /\ url'[j].upload = storage[Path(kind[j])].upload
    BY <1>9, <1>types DEF UrlDone, DocOK
  <2>3. \A i \in Jobs : i # j => url'[i] = url[i] /\ phase'[i] = phase[i]
    BY <1>9, <1>types, <2>1 DEF UrlDone, DocOK, JobOK
  <2>4. ASSUME NEW i \in Jobs PROVE OwnFile(i)'
    <3>1. CASE i = j
      BY <2>inv, <2>1, <2>2, <3>1 DEF OwnFile, Path
    <3>2. CASE i # j
      BY <2>inv, <2>1, <2>3, <3>2 DEF OwnFile, Path
    <3> QED  BY <3>1, <3>2
  <2>5. OneButton' /\ FilesAreOfJobs' /\ RefIsClickTrack' /\ HeardIsClickTrack'
    BY <2>inv, <2>1 DEF OneButton, FilesAreOfJobs, RefIsClickTrack, HeardIsClickTrack,
                        IsClickTrack, Replaced, Taken, Path
  <2> QED  BY <2>4, <2>5 DEF KeptInv
<1>10. ASSUME NEW j \in Jobs, RefWritten(j), AllHabits \subseteq Habits PROVE KeptInv'
  <2>inv. /\ OneButton /\ FilesAreOfJobs /\ (\A i \in Jobs : OwnFile(i))
          /\ RefIsClickTrack /\ HeardIsClickTrack
    BY <1>10 DEF KeptInv
  <2>1. /\ phase[j] = "write" /\ phase' = [phase EXCEPT ![j] = "over"]
        /\ UNCHANGED <<taps, kind, chosen, storage, url, heard>>
        /\ refs' = [refs EXCEPT ![Field(kind[j])] = url[j]]
    BY <1>10 DEF RefWritten, At, Go, jobVars
  <2>2. j \in Taken
    <3>1. j = taps
      BY <1>10, <2>1 DEF PatientInv, AllHabits, OneAtATime, UnderWay
    <3> QED  BY <3>1 DEF Taken, Jobs
  <2>3. ASSUME NEW i \in Jobs PROVE OwnFile(i)'
    BY <2>inv, <2>1, <1>types DEF OwnFile, JobOK, Path
  <2>4. OneButton' /\ FilesAreOfJobs' /\ HeardIsClickTrack'
    BY <2>inv, <2>1 DEF OneButton, FilesAreOfJobs, HeardIsClickTrack, Taken, Path
  <2>5. RefIsClickTrack'
    <3>1. CASE kind[j] = "final"
      <4>1. refs'["clickTrackRef"] = refs["clickTrackRef"]
        BY <1>types, <2>1, <3>1 DEF Field, DocOK, Fields
      <4> QED
        BY <2>inv, <2>1, <4>1 DEF RefIsClickTrack, IsClickTrack, Replaced, Taken, Path
    <3>2. CASE kind[j] # "final"
      <4> DEFINE r == refs'["clickTrackRef"]
      <4>1. r = url[j]
        BY <1>types, <2>1, <3>2 DEF Field, DocOK, Fields
      <4>2. r.path = Path(kind[j]) /\ r.upload = j /\ storage[r.path].upload = j
        BY <2>inv, <2>1, <4>1 DEF OwnFile
      <4> HIDE DEF r
      <4>3. r.upload \in Taken' /\ kind'[r.upload] # "final" /\ Path(kind'[r.upload]) = r.path
        BY <2>1, <2>2, <3>2, <4>2 DEF Taken
      <4> QED  BY <2>1, <4>2, <4>3 DEF r, RefIsClickTrack, IsClickTrack, Path
    <3> QED  BY <3>1, <3>2
  <2> QED  BY <2>3, <2>4, <2>5 DEF KeptInv
<1>11. ASSUME NEW d \in Listeners, Listen(d), AllHabits \subseteq Habits PROVE KeptInv'
  <2>inv. /\ OneButton /\ FilesAreOfJobs /\ (\A i \in Jobs : OwnFile(i))
          /\ RefIsClickTrack /\ HeardIsClickTrack
    BY <1>11 DEF KeptInv
  <2> DEFINE r == refs["clickTrackRef"]
  <2>1. UNCHANGED <<taps, kind, chosen, storage, url, refs, phase>>
    BY <1>11 DEF Listen, jobVars
  <2>2. r # NoURL /\ r \in [path : Paths, upload : 0 .. MaxJobs, content : Contents]
    BY <1>11, <1>types DEF Listen, DocOK, URLs, Fields
  <2>3. PICK c \in {storage[r.path].content, {}} :
          heard' = [heard EXCEPT ![d] = [r EXCEPT !.content = c]]
    BY <1>11 DEF Listen
  <2>4. heard'[d].content = c /\ \A e \in Listeners : e # d => heard'[e] = heard[e]
    BY <1>types, <2>2, <2>3 DEF DocOK
  <2>5. r.upload \in Taken /\ kind[r.upload] # "final" /\ Path(kind[r.upload]) = r.path
    BY <2>inv, <2>2 DEF RefIsClickTrack, IsClickTrack
  <2> DEFINE u == storage[r.path].upload
  <2>6. IF u = 0 THEN storage[r.path].content = {}
        ELSE u \in Taken /\ Path(kind[u]) = r.path /\ storage[r.path].content = chosen[u]
    BY <2>inv, <2>2 DEF FilesAreOfJobs
  <2> HIDE DEF r, u
  <2>7. u # 0 => kind[u] # "final"
    BY <2>inv, <2>5, <2>6, <1>types DEF OneButton, Path, Merged, Kinds, JobOK, Taken, Jobs
  <2>8. \E i \in Taken : kind[i] # "final" /\ c \in {chosen[i], {}}
    BY <2>3, <2>5, <2>6, <2>7
  <2>9. HeardIsClickTrack'
    BY <2>inv, <2>1, <2>4, <2>8 DEF HeardIsClickTrack, Taken
  <2>10. /\ OneButton' /\ FilesAreOfJobs' /\ (\A i \in Jobs : OwnFile(i))' /\ RefIsClickTrack'
    BY <2>inv, <2>1 DEF OneButton, FilesAreOfJobs, OwnFile, RefIsClickTrack, IsClickTrack,
                        Replaced, Taken, Path
  <2> QED  BY <2>9, <2>10 DEF KeptInv
<1>12. CASE UNCHANGED vars
  BY <1>12, KeptFrame DEF vars
<1>13. ~(AllHabits \subseteq Habits) => KeptInv'
  BY DEF KeptInv
<1> QED
  BY <1>1, <1>2, <1>3, <1>4, <1>6, <1>7, <1>8, <1>9, <1>10, <1>11, <1>12, <1>13 DEF Next

\* If the user waits and keeps to one of the merge buttons, the file that
\* clickTrackRef names is the click track that was uploaded, or one that was
\* made since, and every app that loaded a click track loaded what a job
\* uploaded as one, or nothing, whatever fails: the file that the buttons share
\* is never that of a final mix.
THEOREM ClickTrackLasts == AllHabits \subseteq Habits => (Spec => []ClickTrackIsKept)
<1> SUFFICES ASSUME AllHabits \subseteq Habits PROVE Spec => []ClickTrackIsKept
  OBVIOUS
<1>1. Init => PatientInv
  BY DEF Init, PatientInv, OneAtATime, UnderWay, Stage, Kinds
<1>2. Init => KeptInv
  BY DEF Init, KeptInv, OneButton, FilesAreOfJobs, OwnFile, RefIsClickTrack, HeardIsClickTrack,
         Taken, Paths, Fields, NoFile
<1>3. ASSUME TypeInv, KeptInv PROVE ClickTrackIsKept
  <2>1. RefIsClickTrack /\ HeardIsClickTrack
    BY <1>3 DEF KeptInv
  <2>2. Taken \subseteq Jobs
    BY <1>3 DEF TypeInv, TypeOK, JobOK, Taken, Jobs
  <2> QED
    BY <2>1, <2>2 DEF ClickTrackIsKept, RefIsClickTrack, HeardIsClickTrack, Replaced
<1> QED  BY <1>1, <1>2, <1>3, TypeInit, TypeStep, PatientStep, KeptStep, PTL DEF Spec
=============================================================================
