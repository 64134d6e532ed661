----------------------------- MODULE UploadProofs -----------------------------
(* Proofs about Upload, for every set of takes and names, all faults and     *)
(* every number of taps and selected rows.                                   *)
EXTENDS Upload, FiniteSetTheorems, TLAPS

USE BoundsAssumption, NoneAssumption

-----------------------------------------------------------------------------
(* The inductive invariants.                                                 *)

\* The sets that are counted are finite.
TypeInv == TypeOK /\ IsFiniteSet(selectedRecordings) /\ IsFiniteSet(uploads)

\* What is in the table, selected, cropped or under way has got a name, and
\* the files of a name hold takes that were given it.
RowsAreNamed ==
    /\ \A t \in audioRecordings : audioName[t] \in Names
    /\ \A s \in selectedRecordings : audioName[s[1]] \in Names
    /\ \A t \in Tracks : crop[t] # "no" => audioName[t] \in Names

FilesAreNamed ==
    \A n \in Names :
      /\ files[n] # None => audioName[files[n]] = n
      /\ storage[n] # None => audioName[storage[n]] = n

\* The file of an upload that was put, or of an entry, is in Storage.
PutsAreStored ==
    /\ \A u \in uploads :
         /\ Name(u) \in Names
         /\ u.request \notin Puts => storage[Name(u)] # None
    /\ \A t \in uploaded : audioName[t] \in Names /\ storage[audioName[t]] # None

NamesInv == RowsAreNamed /\ FilesAreNamed /\ PutsAreStored

\* If users wait, no more blocks are to come than the count leaves.
Awaited == spinner /\ uploadCount + Cardinality(uploads) <= Cardinality(selectedRecordings)

AwaitInv == Patient => (UnderWay => Awaited)

\* If users wait and no entry is refused, the uploads that were counted are of
\* as many selected rows, none of which has another upload under way.
RowsUnderWay == {u.row : u \in uploads}

Counted(W) ==
    /\ W \subseteq selectedRecordings \ RowsUnderWay
    /\ Cardinality(W) = uploadCount
    /\ \A s \in W : s[1] \in uploaded

OneEach ==
    /\ RowsUnderWay \subseteq selectedRecordings
    /\ \A u, v \in uploads : u.row = v.row => u = v

CountInv ==
    Patient /\ "refusal" \notin Faults =>
      (UnderWay => OneEach /\ \E W \in SUBSET selectedRecordings : Counted(W))

-----------------------------------------------------------------------------
(* Type correctness.                                                         *)

\* An upload that goes on to its next request stays one of the uploads, which
\* become no more.
LEMMA StepType ==
    ASSUME TypeInv, NEW u \in uploads, NEW q \in Requests, Step(u, q)
    PROVE  /\ uploads' \subseteq Uploads
           /\ IsFiniteSet(uploads')
           /\ Cardinality(uploads') <= Cardinality(uploads)
<1> DEFINE v == [u EXCEPT !.request = q]
           rest == uploads \ {u}
<1>1. u \in Uploads /\ v \in Uploads
  BY DEF TypeInv, TypeOK, Uploads
<1>2. IsFiniteSet(uploads) /\ Cardinality(uploads) \in Nat
  BY FS_CardinalityType DEF TypeInv
<1>3. IsFiniteSet(rest) /\ Cardinality(rest) = Cardinality(uploads) - 1
  BY <1>2, FS_RemoveElement
<1>4. uploads' = rest \union {v}
  BY DEF Step
<1>5. uploads' \subseteq Uploads
  BY <1>1, <1>4 DEF TypeInv, TypeOK
<1> HIDE DEF v, rest
<1>6. IsFiniteSet(rest \union {v}) /\ Cardinality(rest \union {v}) <= Cardinality(rest) + 1
  <2>1. Cardinality(rest) \in Nat
    BY <1>3, FS_CardinalityType
  <2>2. CASE v \in rest
    <3>1. rest \union {v} = rest
      BY <2>2
    <3>2. IsFiniteSet(rest \union {v}) /\ Cardinality(rest \union {v}) = Cardinality(rest)
      BY ONLY <1>3, <3>1, Zenon
    <3> QED  BY ONLY <2>1, <3>2
  <2>3. CASE v \notin rest
    <3>1. /\ IsFiniteSet(rest \union {v})
          /\ Cardinality(rest \union {v}) = Cardinality(rest) + 1
      BY <1>3, <2>3, FS_AddElement
    <3> QED  BY ONLY <2>1, <3>1
  <2> QED  BY <2>2, <2>3
<1> QED  BY <1>2, <1>3, <1>4, <1>5, <1>6

\* An upload that ends is one less.
LEMMA EndType ==
    ASSUME TypeInv, NEW u \in uploads, uploads' = uploads \ {u}
    PROVE  /\ uploads' \subseteq Uploads
           /\ IsFiniteSet(uploads')
           /\ Cardinality(uploads) \in Nat
           /\ Cardinality(uploads') = Cardinality(uploads) - 1
BY FS_CardinalityType, FS_RemoveElement DEF TypeInv, TypeOK

\* A tap begins no more uploads than rows are selected.
LEMMA BegunType ==
    ASSUME TypeInv, taps < MaxTaps
    PROVE  /\ Begun(taps + 1) \subseteq Uploads
           /\ IsFiniteSet(Begun(taps + 1))
           /\ Cardinality(Begun(taps + 1)) <= Cardinality(selectedRecordings)
<1> DEFINE k == taps + 1
           U(s) == [tap |-> k, row |-> s, request |-> Source(s[1])]
           f == [s \in selectedRecordings |-> U(s)]
<1>1. k \in 1 .. MaxTaps
  BY DEF TypeInv, TypeOK
<1>2. ASSUME NEW s \in selectedRecordings PROVE U(s) \in Uploads
  <2>1. s \in Rows /\ Source(s[1]) \in Requests
    BY DEF TypeInv, TypeOK, Source, Requests, Puts
  <2> QED  BY <1>1, <2>1 DEF Uploads
<1>3. Begun(k) = {U(s) : s \in selectedRecordings}
  BY DEF Begun
<1>4. f \in Surjection(selectedRecordings, Begun(k))
  <2> HIDE DEF k
  <2>1. f \in [selectedRecordings -> Begun(k)]
    BY <1>3
  <2>2. \A b \in Begun(k) : \E s \in selectedRecordings : f[s] = b
    BY <1>3
  <2> QED  BY <2>1, <2>2 DEF Surjection
<1>5. IsFiniteSet(selectedRecordings)
  BY DEF TypeInv
<1> HIDE DEF f, U, k
<1>6. IsFiniteSet(Begun(k)) /\ Cardinality(Begun(k)) <= Cardinality(selectedRecordings)
  BY <1>4, <1>5, FS_Surjection
<1>7. Begun(k) \subseteq Uploads
  BY <1>2, <1>3
<1> QED  BY <1>6, <1>7 DEF k

\* The selection stays one of rows when a row is selected.
LEMMA SelectType ==
    ASSUME TypeInv, NEW t \in Tracks, Cardinality(selectedRecordings) < MaxSelected
    PROVE  LET s == <<t, Cardinality(Copies(t)) + 1>>
           IN  s \in Rows /\ IsFiniteSet(selectedRecordings \union {s})
<1>1. IsFiniteSet(selectedRecordings) /\ Copies(t) \in SUBSET selectedRecordings
  BY DEF TypeInv, Copies
<1>2. Cardinality(Copies(t)) \in Nat /\ Cardinality(selectedRecordings) \in Nat
      /\ Cardinality(Copies(t)) <= Cardinality(selectedRecordings)
  BY <1>1, FS_Subset, FS_CardinalityType
<1>3. <<t, Cardinality(Copies(t)) + 1>> \in Rows
  BY <1>2 DEF Rows
<1> QED  BY <1>1, <1>3, FS_AddElement

\* Every step keeps the types.
LEMMA TypeStep == TypeInv /\ [Next]_vars => TypeInv'
<1> SUFFICES ASSUME TypeInv, [Next]_vars PROVE TypeInv'
  OBVIOUS
<1>types. TypeOK /\ IsFiniteSet(selectedRecordings) /\ IsFiniteSet(uploads)
  BY DEF TypeInv
<1>1. ASSUME NEW t \in Tracks, didSelectRow(t) PROVE TypeInv'
  <2> DEFINE s == <<t, Cardinality(Copies(t)) + 1>>
  <2>1. s \in Rows /\ IsFiniteSet(selectedRecordings \union {s})
    BY <1>1, SelectType DEF didSelectRow
  <2>2. selectedRecordings' = selectedRecordings \union {s} /\ shown' = shown \union {t}
        /\ UNCHANGED <<audioRecordings, uploadCount, netVars, spinner, tab, taps, fileVars>>
    BY <1>1 DEF didSelectRow
  <2> HIDE DEF s
  <2> QED  BY <1>types, <2>1, <2>2 DEF TypeInv, TypeOK, netVars, fileVars
<1>2. ASSUME NEW t \in Tracks, didDeselectRow(t) \/ deleteRow(t) PROVE TypeInv'
  <2>1. /\ selectedRecordings' = selectedRecordings \ Copies(t)
        /\ audioRecordings' \subseteq audioRecordings /\ shown' \subseteq shown
        /\ UNCHANGED <<uploadCount, netVars, spinner, tab, taps, fileVars>>
    BY <1>2 DEF didDeselectRow, deleteRow
  <2>2. selectedRecordings' \subseteq Rows /\ IsFiniteSet(selectedRecordings')
    BY <1>types, <2>1, FS_Subset DEF TypeOK
  <2> QED  BY <1>types, <2>1, <2>2 DEF TypeInv, TypeOK, netVars, fileVars
<1>3. ASSUME NEW t \in Tracks, NEW n \in Names, Save(t, n) PROVE TypeInv'
  BY <1>3, <1>types DEF Save, TypeInv, TypeOK, netVars
<1>4. ASSUME NEW t \in Tracks, CropEnds(t) \/ CropFails(t) PROVE TypeInv'
  BY <1>4, <1>types DEF CropEnds, CropFails, TypeInv, TypeOK, rowVars, netVars
<1>5. CASE refresh \/ leaveLibrary \/ viewWillAppear
  BY <1>5, <1>types DEF refresh, leaveLibrary, viewWillAppear, TypeInv, TypeOK, rowVars, netVars, fileVars
<1>6. CASE confirmTracks
  <2>1. /\ Begun(taps + 1) \subseteq Uploads /\ IsFiniteSet(Begun(taps + 1))
        /\ uploads' = uploads \union Begun(taps + 1)
    BY <1>6, BegunType DEF confirmTracks
  <2>2. uploads' \subseteq Uploads /\ IsFiniteSet(uploads')
    BY <1>types, <2>1, FS_Union DEF TypeOK
  <2> QED  BY <1>6, <1>types, <2>2 DEF confirmTracks, TypeInv, TypeOK, rowVars, fileVars
<1>7. ASSUME NEW u \in uploads, FileIsPut(u) PROVE TypeInv'
  <2>1. uploads' \subseteq Uploads /\ IsFiniteSet(uploads')
    BY <1>7, StepType DEF FileIsPut, Requests
  <2>2. u \in Uploads /\ Track(u) \in Tracks
    BY <1>types DEF TypeOK, Uploads, Rows, Track
  <2>3. ASSUME Name(u) \in Names PROVE Stored(u) \in Tracks \union {None}
    BY <1>types, <2>2, <2>3 DEF Stored, TypeOK
  <2>4. storage' \in [Names -> Tracks \union {None}]
    BY <1>7, <1>types, <2>3 DEF FileIsPut, TypeOK
  <2> QED  BY <1>7, <1>types, <2>1, <2>4 DEF FileIsPut, TypeInv, TypeOK, rowVars, fileVars
<1>8. ASSUME NEW u \in uploads, UrlIsKnown(u) PROVE TypeInv'
  <2>1. uploads' \subseteq Uploads /\ IsFiniteSet(uploads')
    BY <1>8, StepType DEF UrlIsKnown, Requests
  <2> QED  BY <1>8, <1>types, <2>1 DEF UrlIsKnown, TypeInv, TypeOK, rowVars, fileVars
<1>9. ASSUME NEW u \in uploads, RequestFails(u) PROVE TypeInv'
  <2>1. uploads' \subseteq Uploads /\ IsFiniteSet(uploads')
    BY <1>9, EndType DEF RequestFails
  <2> QED  BY <1>9, <1>types, <2>1 DEF RequestFails, TypeInv, TypeOK, rowVars, fileVars
<1>10. ASSUME NEW u \in uploads, WriteEnded(u) PROVE TypeInv'
  <2>1. uploads' \subseteq Uploads /\ IsFiniteSet(uploads')
    BY <1>10, EndType DEF WriteEnded
  <2>2. Track(u) \in Tracks
    BY <1>types DEF TypeOK, Uploads, Rows, Track
  <2>3. uploaded' \subseteq Tracks
    BY <1>10, <1>types, <2>2 DEF WriteEnded, TypeOK
  <2>4. uploadCount' \in Nat /\ spinner' \in BOOLEAN /\ tab' \in {"studio", "library", "merge"}
    <3>1. completionBlock /\ uploadCount \in Nat /\ tab \in {"studio", "library", "merge"}
      BY <1>10, <1>types DEF WriteEnded, TypeOK
    <3>2. CASE uploadCount + 1 >= Cardinality(selectedRecordings)
      <4>1. uploadCount' = 0 /\ spinner' = FALSE /\ tab' = "merge"
        BY <3>1, <3>2, Zenon DEF completionBlock
      <4> QED  BY <4>1
    <3>3. CASE ~(uploadCount + 1 >= Cardinality(selectedRecordings))
      <4>1. uploadCount' = uploadCount + 1 /\ tab' = tab
        BY <3>1, <3>3, Zenon DEF completionBlock
      <4>2. spinner' \in BOOLEAN
        BY <1>types, <3>1, <3>3, Zenon DEF completionBlock, TypeOK
      <4> QED  BY <3>1, <4>1, <4>2
    <3> QED  BY <3>2, <3>3
  <2> QED  BY <1>10, <1>types, <2>1, <2>3, <2>4 DEF WriteEnded, TypeInv, TypeOK, rowVars, fileVars
<1>11. CASE UNCHANGED vars
  BY <1>11, <1>types DEF vars, TypeInv, TypeOK, rowVars, netVars, fileVars
<1> QED
  BY <1>1, <1>2, <1>3, <1>4, <1>5, <1>6, <1>7, <1>8, <1>9, <1>10, <1>11 DEF Next

\* The types hold at the start.
LEMMA TypeInit == Init => TypeInv
<1> SUFFICES ASSUME Init PROVE TypeInv
  OBVIOUS
<1>1. IsFiniteSet(selectedRecordings) /\ IsFiniteSet(uploads)
  BY FS_EmptySet DEF Init
<1>2. audioRecordings \subseteq Tracks /\ selectedRecordings \subseteq Rows /\ shown \subseteq Tracks
      /\ uploads \subseteq Uploads /\ uploaded \subseteq Tracks
  BY DEF Init
<1>3. uploadCount \in Nat /\ taps \in 0 .. MaxTaps
  BY DEF Init
<1>4. storage \in [Names -> Tracks \union {None}] /\ files \in [Names -> Tracks \union {None}]
  BY DEF Init
<1>5. audioName \in [Tracks -> Names \union {None}]
      /\ crop \in [Tracks -> {"no", "running", "done", "failed"}]
  BY DEF Init
<1>6. spinner \in BOOLEAN /\ tab \in {"studio", "library", "merge"}
  BY DEF Init
<1> QED  BY <1>1, <1>2, <1>3, <1>4, <1>5, <1>6 DEF TypeInv, TypeOK

\* Every upload, file, row and name of a behaviour exists, and the count of
\* uploads is never negative.
THEOREM TypeCorrect == Spec => []TypeOK
<1>1. TypeInv => TypeOK
  BY DEF TypeInv
<1> QED  BY <1>1, TypeInit, TypeStep, PTL DEF Spec

-----------------------------------------------------------------------------
(* What entries play.                                                        *)

\* Steps that leave names, files, entries and uploads alone, and add no row.
LEMMA NamesFrame ==
    ASSUME NamesInv, audioRecordings' \subseteq audioRecordings,
           \A s \in selectedRecordings' : s \in selectedRecordings \/ s[1] \in audioRecordings,
           UNCHANGED <<netVars, fileVars>>
    PROVE  NamesInv'
BY DEF NamesInv, RowsAreNamed, FilesAreNamed, PutsAreStored, Name, Track, netVars, fileVars

\* Every step keeps names and files together.
LEMMA NamesStep == TypeInv /\ NamesInv /\ [Next]_vars => NamesInv'
<1> SUFFICES ASSUME TypeInv, NamesInv, [Next]_vars PROVE NamesInv'
  OBVIOUS
<1>types. TypeOK
  BY DEF TypeInv
<1>inv. RowsAreNamed /\ FilesAreNamed /\ PutsAreStored
  BY DEF NamesInv
<1>names. audioName \in [Tracks -> Names \union {None}] /\ crop \in [Tracks -> {"no", "running", "done", "failed"}]
  BY <1>types DEF TypeOK
<1>tracks. \A u \in Uploads : Track(u) \in Tracks
  BY DEF Uploads, Rows, Track
<1>1. ASSUME NEW t \in Tracks, didSelectRow(t) PROVE NamesInv'
  BY <1>1, NamesFrame DEF didSelectRow
<1>2. ASSUME NEW t \in Tracks, didDeselectRow(t) \/ deleteRow(t) PROVE NamesInv'
  BY <1>2, NamesFrame DEF didDeselectRow, deleteRow
<1>3. ASSUME NEW t \in Tracks, NEW n \in Names, Save(t, n) PROVE NamesInv'
  <2>1. /\ audioName[t] = None /\ audioName' = [audioName EXCEPT ![t] = n]
        /\ audioRecordings' = audioRecordings \union {t}
        /\ UNCHANGED <<selectedRecordings, uploads, storage, uploaded>>
    BY <1>3 DEF Save, netVars
  <2>2. /\ audioName'[t] = n /\ n # None
        /\ \A x \in Tracks : audioName[x] \in Names => audioName'[x] = audioName[x]
    BY <1>names, <2>1
  <2>3. PICK c \in {"running", "failed"} : crop' = [crop EXCEPT ![t] = c]
    BY <1>3 DEF Save
  <2>4. \A m \in Names : files'[m] # None => files'[m] = files[m]
    BY <1>3, <1>types DEF Save, TypeOK
  <2>5. RowsAreNamed'
    <3>1. \A s \in selectedRecordings : s[1] \in Tracks
      BY <1>types DEF TypeOK, Rows
    <3> QED  BY <1>inv, <1>types, <1>names, <2>1, <2>2, <2>3, <3>1 DEF RowsAreNamed, TypeOK
  <2>6. FilesAreNamed'
    BY <1>inv, <1>types, <2>1, <2>2, <2>4 DEF FilesAreNamed, TypeOK
  <2>7. PutsAreStored'
    BY <1>inv, <1>types, <1>tracks, <2>1, <2>2 DEF PutsAreStored, Name, TypeOK
  <2> QED  BY <2>5, <2>6, <2>7 DEF NamesInv
<1>4. ASSUME NEW t \in Tracks, CropEnds(t) PROVE NamesInv'
  <2>1. /\ crop[t] = "running" /\ audioName[t] \in Names
        /\ files' = [files EXCEPT ![audioName[t]] = t]
        /\ crop' = [crop EXCEPT ![t] = "done"]
        /\ UNCHANGED <<audioRecordings, selectedRecordings, uploads, storage, uploaded, audioName>>
    BY <1>4, <1>inv DEF CropEnds, outputName, RowsAreNamed, rowVars, netVars
  <2>2. RowsAreNamed' /\ PutsAreStored'
    BY <1>inv, <1>names, <2>1 DEF RowsAreNamed, PutsAreStored, Name, Track
  <2>3. FilesAreNamed'
    BY <1>inv, <1>types, <2>1 DEF FilesAreNamed, TypeOK
  <2> QED  BY <2>2, <2>3 DEF NamesInv
<1>5. ASSUME NEW t \in Tracks, CropFails(t) PROVE NamesInv'
  <2>1. /\ crop[t] = "running" /\ crop' = [crop EXCEPT ![t] = "failed"]
        /\ UNCHANGED <<audioRecordings, selectedRecordings, uploads, storage, uploaded, audioName, files>>
    BY <1>5 DEF CropFails, rowVars, netVars
  <2> QED
    BY <1>inv, <1>names, <2>1 DEF NamesInv, RowsAreNamed, FilesAreNamed, PutsAreStored, Name, Track
<1>6. CASE refresh \/ leaveLibrary \/ viewWillAppear
  BY <1>6, NamesFrame DEF refresh, leaveLibrary, viewWillAppear, rowVars
<1>7. CASE confirmTracks
  <2>1. /\ uploads' = uploads \union Begun(taps + 1)
        /\ UNCHANGED <<audioRecordings, selectedRecordings, storage, uploaded, audioName, files, crop>>
    BY <1>7 DEF confirmTracks, rowVars, fileVars
  <2>2. ASSUME NEW u \in Begun(taps + 1) PROVE Name(u) \in Names /\ u.request \in Puts
    BY <1>inv DEF Begun, RowsAreNamed, Name, Track, Source, Puts
  <2>3. PutsAreStored'
    BY <1>inv, <2>1, <2>2 DEF PutsAreStored, Name, Track
  <2>4. RowsAreNamed' /\ FilesAreNamed'
    BY <1>inv, <2>1 DEF RowsAreNamed, FilesAreNamed
  <2> QED  BY <2>3, <2>4 DEF NamesInv
<1>8. ASSUME NEW u \in uploads, FileIsPut(u) PROVE NamesInv'
  <2>1. /\ Stored(u) # None /\ storage' = [storage EXCEPT ![Name(u)] = Stored(u)]
        /\ uploads' = (uploads \ {u}) \union {[u EXCEPT !.request = "url"]}
        /\ UNCHANGED <<audioRecordings, selectedRecordings, uploaded, audioName, files, crop>>
    BY <1>8 DEF FileIsPut, Step, rowVars, fileVars
  <2>2. Name(u) \in Names /\ u \in Uploads
    BY <1>inv, <1>types DEF PutsAreStored, TypeOK
  <2>3. audioName[Stored(u)] = Name(u)
    <3>1. CASE u.request = "take"
      BY <3>1 DEF Stored, Name
    <3>2. CASE u.request # "take"
      BY <1>inv, <2>1, <2>2, <3>2 DEF Stored, FilesAreNamed
    <3> QED  BY <3>1, <3>2
  <2>4. /\ storage'[Name(u)] = Stored(u)
        /\ \A n \in Names : n # Name(u) => storage'[n] = storage[n]
    BY <1>types, <2>1, <2>2 DEF TypeOK
  <2>5. FilesAreNamed'
    BY <1>inv, <2>1, <2>3, <2>4 DEF FilesAreNamed
  <2>6. \A n \in Names : storage[n] # None => storage'[n] # None
    BY <2>1, <2>4
  <2>7. ASSUME NEW v \in uploads'
        PROVE  audioName'[Track(v)] \in Names /\ (v.request \notin Puts => storage'[audioName'[Track(v)]] # None)
    <3>1. CASE v \in uploads
      BY <1>inv, <2>1, <2>6, <3>1 DEF PutsAreStored, Name
    <3>2. CASE v \notin uploads
      <4>1. v = [u EXCEPT !.request = "url"] /\ Track(v) = Track(u)
        BY <2>1, <2>2, <3>2 DEF Track, Uploads
      <4> QED  BY <2>1, <2>2, <2>4, <4>1 DEF Name
    <3> QED  BY <3>1, <3>2
  <2>8. PutsAreStored'
    BY <1>inv, <2>1, <2>6, <2>7 DEF PutsAreStored, Name, Track
  <2>9. RowsAreNamed'
    BY <1>inv, <2>1 DEF RowsAreNamed
  <2> QED  BY <2>5, <2>8, <2>9 DEF NamesInv
<1>9. ASSUME NEW u \in uploads, UrlIsKnown(u) PROVE NamesInv'
  <2>1. /\ u.request = "url" /\ uploads' = (uploads \ {u}) \union {[u EXCEPT !.request = "write"]}
        /\ UNCHANGED <<audioRecordings, selectedRecordings, storage, uploaded, audioName, files, crop>>
    BY <1>9 DEF UrlIsKnown, Step, rowVars, fileVars
  <2>2. u \in Uploads
    BY <1>types DEF TypeOK
  <2>3. ASSUME NEW v \in uploads'
        PROVE  audioName[Track(v)] \in Names /\ (v.request \notin Puts => storage[audioName[Track(v)]] # None)
    <3>1. CASE v \in uploads
      BY <1>inv, <3>1 DEF PutsAreStored, Name
    <3>2. CASE v \notin uploads
      <4>1. v = [u EXCEPT !.request = "write"] /\ Track(v) = Track(u)
        BY <2>1, <2>2, <3>2 DEF Track, Uploads
      <4>2. u.request \notin Puts
        BY <2>1 DEF Puts
      <4> QED  BY <1>inv, <4>1, <4>2 DEF PutsAreStored, Name
    <3> QED  BY <3>1, <3>2
  <2>4. PutsAreStored'
    BY <1>inv, <2>1, <2>3 DEF PutsAreStored, Name, Track
  <2> QED  BY <1>inv, <2>1, <2>4 DEF NamesInv, RowsAreNamed, FilesAreNamed
<1>10. ASSUME NEW u \in uploads, RequestFails(u) PROVE NamesInv'
  <2>1. /\ uploads' \subseteq uploads
        /\ UNCHANGED <<audioRecordings, selectedRecordings, storage, uploaded, audioName, files, crop>>
    BY <1>10 DEF RequestFails, rowVars, fileVars
  <2> QED
    BY <1>inv, <2>1 DEF NamesInv, RowsAreNamed, FilesAreNamed, PutsAreStored, Name, Track
<1>11. ASSUME NEW u \in uploads, WriteEnded(u) PROVE NamesInv'
  <2>1. /\ u.request = "write" /\ uploads' \subseteq uploads /\ uploaded' \subseteq uploaded \union {Track(u)}
        /\ UNCHANGED <<audioRecordings, selectedRecordings, storage, audioName, files, crop>>
    BY <1>11 DEF WriteEnded, rowVars, fileVars
  <2>2. audioName[Track(u)] \in Names /\ storage[audioName[Track(u)]] # None
    BY <1>inv, <2>1 DEF PutsAreStored, Name, Puts
  <2>3. PutsAreStored'
    BY <1>inv, <2>1, <2>2 DEF PutsAreStored, Name, Track
  <2> QED  BY <1>inv, <2>1, <2>3 DEF NamesInv, RowsAreNamed, FilesAreNamed
<1>12. CASE UNCHANGED vars
  BY <1>12, NamesFrame DEF vars, rowVars
<1> QED
  BY <1>1, <1>2, <1>3, <1>4, <1>5, <1>6, <1>7, <1>8, <1>9, <1>10, <1>11, <1>12 DEF Next

\* The Storage file of every entry of the session document holds a recording
\* that its user gave the name of the entry, though one name may have been
\* given to several, and crops write, and puts read, the file of that name at
\* any time, and may fail.
THEOREM EntriesAreNamed == Spec => []EntriesPlayTheirName
<1>1. Init => NamesInv
  BY DEF Init, NamesInv, RowsAreNamed, FilesAreNamed, PutsAreStored
<1>2. NamesInv => EntriesPlayTheirName
  BY DEF NamesInv, FilesAreNamed, PutsAreStored, EntriesPlayTheirName
<1> QED  BY <1>1, <1>2, TypeInit, TypeStep, NamesStep, PTL DEF Spec

-----------------------------------------------------------------------------
(* What the blocks count, for users who wait.                                *)

\* A step that leaves the uploads alone, and the selection while there are
\* any, keeps what is counted.
LEMMA CountFrame ==
    ASSUME AwaitInv, CountInv, UNCHANGED netVars,
           Patient /\ UnderWay => UNCHANGED <<selectedRecordings, uploadCount, spinner>>
    PROVE  AwaitInv' /\ CountInv'
<1>1. AwaitInv'
  BY DEF AwaitInv, Awaited, UnderWay, netVars
<1>2. CountInv'
  <2>1. ASSUME Patient, UnderWay, NEW W, Counted(W) PROVE Counted(W)'
    BY <2>1 DEF Counted, RowsUnderWay, netVars
  <2>2. ASSUME Patient, UnderWay, OneEach PROVE OneEach'
    BY <2>2 DEF OneEach, RowsUnderWay, netVars
  <2>3. UnderWay' = UnderWay
    BY DEF UnderWay, netVars
  <2> QED  BY <2>1, <2>2, <2>3 DEF CountInv
<1> QED  BY <1>1, <1>2

\* An upload that ends without its block, or goes on, counts no more; the
\* others keep their rows.
LEMMA FewerUnderWay ==
    ASSUME TypeInv, AwaitInv, CountInv, NEW u \in uploads,
           \/ uploads' = uploads \ {u}
           \/ \E q \in Requests : Step(u, q),
           UNCHANGED <<selectedRecordings, uploadCount, spinner, uploaded>>
    PROVE  AwaitInv' /\ CountInv'
<1>1. Cardinality(uploads') <= Cardinality(uploads) /\ Cardinality(uploads') \in Nat
  BY EndType, StepType, FS_CardinalityType
<1>2. Cardinality(uploads) \in Nat /\ Cardinality(selectedRecordings) \in Nat /\ uploadCount \in Nat
  BY FS_CardinalityType DEF TypeInv, TypeOK
<1>3. UnderWay
  BY DEF UnderWay
<1>4. AwaitInv'
  BY <1>1, <1>2, <1>3 DEF AwaitInv, Awaited
<1>5. ASSUME NEW v \in uploads' PROVE \E x \in uploads : x.row = v.row
  <2>1. u \in Uploads
    BY DEF TypeInv, TypeOK
  <2> QED  BY <1>5, <2>1 DEF Step, Uploads
<1>6. ASSUME Patient, "refusal" \notin Faults
      PROVE  OneEach' /\ \E W \in SUBSET selectedRecordings : Counted(W)'
  <2>1. OneEach /\ \E W \in SUBSET selectedRecordings : Counted(W)
    BY <1>3, <1>6 DEF CountInv
  <2>2. RowsUnderWay' \subseteq RowsUnderWay
    BY <1>5 DEF RowsUnderWay
  <2>3. ASSUME NEW v \in uploads', NEW w \in uploads', v.row = w.row PROVE v = w
    <3>1. CASE uploads' = uploads \ {u}
      BY <2>1, <2>3, <3>1 DEF OneEach
    <3>2. CASE \E q \in Requests : Step(u, q)
      <4>1. PICK q \in Requests : uploads' = (uploads \ {u}) \union {[u EXCEPT !.request = q]}
        BY <3>2 DEF Step
      <4>2. [u EXCEPT !.request = q].row = u.row
        BY DEF TypeInv, TypeOK, Uploads
      <4>3. \A x \in uploads \ {u} : x.row # u.row
        BY <2>1 DEF OneEach
      <4> QED  BY <2>1, <2>3, <4>1, <4>2, <4>3 DEF OneEach
    <3> QED  BY <3>1, <3>2
  <2>4. OneEach'
    BY <2>1, <2>2, <2>3 DEF OneEach
  <2>5. ASSUME NEW W, Counted(W) PROVE Counted(W)'
    BY <2>2, <2>5 DEF Counted
  <2> QED  BY <2>1, <2>4, <2>5
<1>7. CountInv'
  BY <1>6 DEF CountInv
<1> QED  BY <1>4, <1>7

\* A block is called: either it is the last one that was awaited, of a
\* selection whose rows were all uploaded, or it is counted with its row.
LEMMA BlockCounts ==
    ASSUME TypeInv, AwaitInv, CountInv, NEW u \in uploads, WriteEnded(u), Patient
    PROVE  /\ AwaitInv' /\ CountInv'
           /\ "refusal" \notin Faults /\ spinner' = FALSE =>
                \A s \in selectedRecordings : s[1] \in uploaded'
<1>1. /\ uploads' = uploads \ {u} /\ completionBlock
      /\ UNCHANGED selectedRecordings
      /\ \/ uploaded' = uploaded \union {Track(u)}
         \/ "refusal" \in Faults /\ UNCHANGED uploaded
  BY DEF WriteEnded, rowVars
<1>2. /\ uploads' \subseteq Uploads /\ IsFiniteSet(uploads')
      /\ Cardinality(uploads) \in Nat
      /\ Cardinality(uploads') = Cardinality(uploads) - 1
  BY <1>1, EndType
<1>3. Cardinality(selectedRecordings) \in Nat /\ uploadCount \in Nat /\ Cardinality(uploads') \in Nat
  BY <1>2, FS_CardinalityType DEF TypeInv, TypeOK
<1>4. UnderWay /\ Awaited
  BY DEF UnderWay, AwaitInv
<1> DEFINE last == uploadCount + 1 >= Cardinality(selectedRecordings)
<1>5. CASE last
  <2>1. uploadCount' = 0 /\ spinner' = FALSE
    BY <1>1, <1>5, Zenon DEF completionBlock
  <2>2. uploads' = {}
    <3>1. Cardinality(uploads') = 0
      BY <1>2, <1>3, <1>4, <1>5 DEF Awaited
    <3> QED  BY <1>2, <3>1, FS_EmptySet
  <2>3. AwaitInv' /\ CountInv'
    BY <2>2 DEF AwaitInv, CountInv, UnderWay
  <2>4. ASSUME "refusal" \notin Faults PROVE \A s \in selectedRecordings : s[1] \in uploaded'
    <3>1. OneEach /\ \E W \in SUBSET selectedRecordings : Counted(W)
      BY <1>4, <2>4 DEF CountInv
    <3>2. PICK W \in SUBSET selectedRecordings : Counted(W)
      BY <3>1
    <3>3. u.row \in selectedRecordings /\ u.row \notin W
      BY <3>1, <3>2 DEF OneEach, Counted, RowsUnderWay
    <3>4. IsFiniteSet(W) /\ Cardinality(W) = uploadCount
      BY <3>2, FS_Subset DEF Counted, TypeInv
    <3>5. Cardinality(W \union {u.row}) = uploadCount + 1
      BY <3>3, <3>4, FS_AddElement
    <3>6. W \union {u.row} \in SUBSET selectedRecordings
      BY <3>3
    <3>7. Cardinality(W \union {u.row}) <= Cardinality(selectedRecordings)
          /\ (Cardinality(selectedRecordings) = Cardinality(W \union {u.row}) => selectedRecordings = W \union {u.row})
      BY <3>6, FS_Subset DEF TypeInv
    <3>8. selectedRecordings = W \union {u.row}
      BY <1>3, <1>5, <3>5, <3>7
    <3>9. uploaded' = uploaded \union {u.row[1]}
      BY <1>1, <2>4 DEF Track
    <3> QED  BY <3>2, <3>8, <3>9 DEF Counted
  <2> QED  BY <2>3, <2>4
<1>6. CASE ~last
  <2>1. uploadCount' = uploadCount + 1 /\ spinner' = spinner
    BY <1>1, <1>6, Zenon DEF completionBlock
  <2>2. spinner = TRUE
    BY <1>4 DEF Awaited, TypeInv, TypeOK
  <2>3. AwaitInv'
    BY <1>1, <1>2, <1>3, <1>4, <2>1 DEF AwaitInv, Awaited
  <2>4. ASSUME "refusal" \notin Faults
        PROVE  OneEach' /\ \E W \in SUBSET selectedRecordings : Counted(W)'
    <3>1. OneEach /\ \E W \in SUBSET selectedRecordings : Counted(W)
      BY <1>4, <2>4 DEF CountInv
    <3>2. PICK W \in SUBSET selectedRecordings : Counted(W)
      BY <3>1
    <3>3. u.row \in selectedRecordings /\ u.row \notin W
      BY <3>1, <3>2 DEF OneEach, Counted, RowsUnderWay
    <3>4. IsFiniteSet(W) /\ Cardinality(W) = uploadCount
      BY <3>2, FS_Subset DEF Counted, TypeInv
    <3> DEFINE X == W \union {u.row}
    <3>5. Cardinality(X) = uploadCount + 1
      BY <3>3, <3>4, FS_AddElement
    <3>6. u.row \notin RowsUnderWay' /\ RowsUnderWay' \subseteq RowsUnderWay
      BY <1>1, <3>1 DEF OneEach, RowsUnderWay
    <3>7. X \in SUBSET selectedRecordings /\ X \subseteq selectedRecordings' \ RowsUnderWay'
      BY <1>1, <3>2, <3>3, <3>6 DEF Counted
    <3>8. \A s \in X : s[1] \in uploaded'
      BY <1>1, <2>4, <3>2 DEF Counted, Track
    <3> HIDE DEF X
    <3>9. \E Y \in SUBSET selectedRecordings : Counted(Y)'
      BY <2>1, <3>5, <3>7, <3>8 DEF Counted
    <3>10. OneEach'
      BY <1>1, <3>1, <3>6 DEF OneEach
    <3> QED  BY <3>9, <3>10
  <2>5. CountInv'
    BY <1>1, <2>4 DEF CountInv
  <2> QED  BY <2>1, <2>2, <2>3, <2>5
<1> QED  BY <1>5, <1>6

\* A tap of the confirm button, by a user who waited, begins one upload of each
\* row selected and counts from 0.
LEMMA ConfirmCounts ==
    ASSUME TypeInv, confirmTracks
    PROVE  AwaitInv' /\ CountInv'
<1> SUFFICES ASSUME Patient PROVE AwaitInv' /\ CountInv'
  BY DEF AwaitInv, CountInv
<1>1. /\ uploads' = Begun(taps + 1) /\ uploadCount' = 0 /\ spinner' = TRUE
      /\ UNCHANGED selectedRecordings
  BY DEF confirmTracks, MayTouch, UnderWay, rowVars
<1>2. Cardinality(uploads') <= Cardinality(selectedRecordings) /\ Cardinality(uploads') \in Nat
  BY <1>1, BegunType, FS_CardinalityType DEF confirmTracks
<1>3. AwaitInv'
  <2>1. uploadCount' + Cardinality(uploads') <= Cardinality(selectedRecordings')
    BY <1>1, <1>2
  <2> QED  BY <1>1, <2>1 DEF AwaitInv, Awaited
<1>4. OneEach'
  BY <1>1 DEF OneEach, RowsUnderWay, Begun
<1>5. Counted({})'
  BY <1>1, FS_EmptySet DEF Counted
<1>6. CountInv'
  <2>1. \E W \in SUBSET selectedRecordings' : Counted(W)'
    <3> WITNESS {} \in SUBSET selectedRecordings'
    <3> QED  BY <1>5
  <2> QED  BY <1>4, <2>1 DEF CountInv
<1> QED  BY <1>3, <1>6

\* Every step keeps what is counted.
LEMMA CountStep ==
    TypeInv /\ AwaitInv /\ CountInv /\ [Next]_vars => AwaitInv' /\ CountInv'
<1> SUFFICES ASSUME TypeInv, AwaitInv, CountInv, [Next]_vars PROVE AwaitInv' /\ CountInv'
  OBVIOUS
<1>1. ASSUME NEW t \in Tracks, didSelectRow(t) \/ didDeselectRow(t) \/ deleteRow(t)
      PROVE  AwaitInv' /\ CountInv'
  BY <1>1, CountFrame DEF didSelectRow, didDeselectRow, deleteRow, MayTouch
<1>2. ASSUME NEW t \in Tracks, NEW n \in Names, Save(t, n) PROVE AwaitInv' /\ CountInv'
  BY <1>2, CountFrame DEF Save
<1>3. ASSUME NEW t \in Tracks, CropEnds(t) \/ CropFails(t) PROVE AwaitInv' /\ CountInv'
  BY <1>3, CountFrame DEF CropEnds, CropFails, rowVars
<1>4. CASE refresh \/ leaveLibrary \/ viewWillAppear
  BY <1>4, CountFrame DEF refresh, leaveLibrary, viewWillAppear, rowVars
<1>5. CASE confirmTracks
  BY <1>5, ConfirmCounts
<1>6. ASSUME NEW u \in uploads, FileIsPut(u) \/ UrlIsKnown(u) \/ RequestFails(u)
      PROVE  AwaitInv' /\ CountInv'
  BY <1>6, FewerUnderWay DEF FileIsPut, UrlIsKnown, RequestFails, Requests, rowVars
<1>7. ASSUME NEW u \in uploads, WriteEnded(u) PROVE AwaitInv' /\ CountInv'
  <2>1. CASE Patient
    BY <1>7, <2>1, BlockCounts
  <2>2. CASE ~Patient
    BY <2>2 DEF AwaitInv, CountInv
  <2> QED  BY <2>1, <2>2
<1>8. CASE UNCHANGED vars
  BY <1>8, CountFrame DEF vars, rowVars
<1> QED  BY <1>1, <1>2, <1>3, <1>4, <1>5, <1>6, <1>7, <1>8 DEF Next

\* Nothing is counted at the start.
LEMMA CountInit == Init => AwaitInv /\ CountInv
BY DEF Init, AwaitInv, CountInv, UnderWay

\* If users wait, the spinner is on the screen as long as an upload is under
\* way, and the blocks counted and those still to come are no more than the
\* rows selected, whatever fails.
THEOREM UploadsAreAwaited == Spec => []EveryUploadIsAwaited
<1>1. AwaitInv => EveryUploadIsAwaited
  BY DEF AwaitInv, Awaited, EveryUploadIsAwaited, Pending
<1> QED  BY <1>1, TypeInit, TypeStep, CountInit, CountStep, PTL DEF Spec

\* If users wait and the server refuses no entry, the block that stops the
\* spinner and moves on to the Merge tab is that of the last selected track
\* that the session document lacked, whichever requests and crops fail.
THEOREM LastBlockMovesOn ==
    Patient /\ "refusal" \notin Faults => (Spec => MovesOnWhenUploaded)
<1> SUFFICES ASSUME Patient, "refusal" \notin Faults PROVE Spec => MovesOnWhenUploaded
  OBVIOUS
<1> DEFINE Uploaded == {s[1] : s \in selectedRecordings} \subseteq uploaded'
<1>1. ASSUME TypeInv, AwaitInv, CountInv, [Next]_vars
      PROVE  [spinner /\ ~spinner' => Uploaded]_vars
  <2> SUFFICES ASSUME Next, spinner, ~spinner' PROVE Uploaded
    BY <1>1
  <2>1. PICK u \in uploads : WriteEnded(u)
    BY DEF Next, didSelectRow, didDeselectRow, deleteRow, Save, CropEnds, CropFails, refresh,
           leaveLibrary, viewWillAppear, confirmTracks, FileIsPut, UrlIsKnown, RequestFails
  <2>2. spinner' = FALSE
    BY <1>1, TypeStep DEF TypeInv, TypeOK
  <2>3. \A s \in selectedRecordings : s[1] \in uploaded'
    BY <1>1, <2>1, <2>2, BlockCounts
  <2> QED  BY <2>3
<1> QED
  BY <1>1, TypeInit, TypeStep, CountInit, CountStep, PTL DEF Spec, MovesOnWhenUploaded
=============================================================================
