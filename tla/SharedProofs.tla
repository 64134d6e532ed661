----------------------------- MODULE SharedProofs -----------------------------
(* Proofs about SharedTracks, for every set of users and tracks, all habits  *)
(* and any number of uploads.                                                *)
EXTENDS SharedTracks, SequenceTheorems, FiniteSetTheorems, TLAPS

USE OwnerAssumption, BoundAssumption, TracksAssumption

-----------------------------------------------------------------------------
(* The inductive invariants.                                                 *)

\* An upload to come has a number left.
TypeInv ==
    /\ TypeOK
    /\ \A t \in Tracks : uploads[t] = "put" => uploaded[t] < MaxUploads

\* No list has an entry twice.
NoneTwice ==
    /\ IsInjective(list)
    /\ \A u \in Users : IsInjective(cache[u])
    /\ \A d \in deletions : IsInjective(d.list)

\* If users take turns and swipe what they know to be listed, there is one
\* deletion at a time, and its list lacks its entry alone.
OneDeletion ==
    /\ \A c, d \in deletions : c = d
    /\ deletions # {} => \A t \in Tracks : uploads[t] = "idle"
    /\ \A d \in deletions :
         d.entry \in ToSet(list) /\ ToSet(d.list) = ToSet(list) \ {d.entry}

TurnsInv == {"turns", "fresh"} \subseteq Habits => OneDeletion

\* If, besides, nobody uploads a track that is listed, each track is listed
\* once at most, and has a file unless that is being deleted.
FilesAreThere ==
    /\ \A e, f \in ToSet(list) : e.track = f.track => e = f
    /\ \A t \in Tracks : uploads[t] # "idle" => ~Listed(t)
    /\ \A t \in Tracks : uploads[t] \in {"url", "write"} => files[t] # 0
    /\ \A e \in ToSet(list) : files[e.track] # 0 \/ \E d \in deletions : d.entry = e
    /\ \A d \in deletions : d.phase = "file" => files[d.entry.track] # 0

FilesInv == {"turns", "fresh", "once"} \subseteq Habits => FilesAreThere

\* If users wait, take turns and swipe what they know to be listed, the table
\* shows its data source, which has no entry twice and keeps the row that is
\* being deleted where it was.
RowsOf(u) ==
    /\ fetching[u] > 0 => fetching[u] = 1 /\ audioTracks[u] = <<>> /\ DeletionsOf(u) = {}
    /\ tab[u] = "merge" => audioTracks[u] = <<>> \/ table[u] = Len(audioTracks[u])
    /\ IsInjective(audioTracks[u])

SwipedRow(d) ==
    /\ alive[d.user]
    /\ d.row \in DOMAIN audioTracks[d.user]
    /\ audioTracks[d.user][d.row] = d.entry
    /\ table[d.user] = Len(audioTracks[d.user])

RowsInv ==
    {"patient", "fresh", "turns"} \subseteq Habits =>
      (\A u \in Users : RowsOf(u)) /\ (\A d \in deletions : SwipedRow(d))

-----------------------------------------------------------------------------
(* The operators on sequences.                                               *)

\* The elements of a set of positions, each at its rank: removing an element
\* by value keeps the others, in their order and as often as they were there.
LEMMA WithoutFacts ==
    ASSUME NEW S, NEW s \in Seq(S), NEW e
    PROVE  /\ Without(s, e) \in Seq(S)
           /\ ToSet(Without(s, e)) = ToSet(s) \ {e}
           /\ IsInjective(s) => IsInjective(Without(s, e))
<1> DEFINE K == {i \in DOMAIN s : s[i] # e}
           m == Cardinality(K)
           B(i) == {j \in K : j <= i}
           r == [i \in K |-> Cardinality(B(i))]
           P(k) == CHOOSE i \in K : Cardinality(B(i)) = k
           w == Without(s, e)
<1>1. s \in [1 .. Len(s) -> S] /\ Len(s) \in Nat /\ DOMAIN s = 1 .. Len(s)
  BY LenProperties
<1>2. K \subseteq Nat /\ IsFiniteSet(K) /\ m \in Nat
  <2>1. K \in SUBSET (1 .. Len(s)) /\ IsFiniteSet(1 .. Len(s))
    BY <1>1, FS_Interval
  <2> QED  BY <1>1, <2>1, FS_Subset, FS_CardinalityType
<1>3. w = [k \in 1 .. m |-> s[P(k)]]
  BY DEF Without
<1>4. \A i \in K : s[i] \in S /\ s[i] # e /\ i \in 1 .. Len(s)
  BY <1>1
<1>5. \A i \in 1 .. Len(s) : i \in K \/ s[i] = e
  BY <1>1
<1> HIDE DEF K
<1>6. ASSUME NEW i \in K PROVE Cardinality(B(i)) \in 1 .. m /\ B(i) \in SUBSET K /\ IsFiniteSet(B(i))
  <2>1. B(i) \in SUBSET K /\ i \in B(i)
    BY <1>2
  <2>2. IsFiniteSet(B(i)) /\ Cardinality(B(i)) <= m /\ Cardinality(B(i)) \in Nat
    BY <1>2, <2>1, FS_Subset, FS_CardinalityType
  <2>3. Cardinality(B(i)) # 0
    BY <2>1, <2>2, FS_EmptySet
  <2> QED  BY <1>2, <2>1, <2>2, <2>3
<1>7. ASSUME NEW i \in K, NEW j \in K, i < j PROVE Cardinality(B(i)) # Cardinality(B(j))
  <2>1. B(i) \in SUBSET B(j) /\ j \in B(j) /\ j \notin B(i)
    <3>1. i \in Nat /\ j \in Nat /\ \A x \in K : x \in Nat
      BY <1>2
    <3>2. \A x \in K : x <= i => x <= j
      BY <1>7, <3>1
    <3>3. j \in B(j)
      BY <3>1
    <3>4. ~(j <= i)
      BY <1>7, <3>1
    <3> QED  BY <3>2, <3>3, <3>4
  <2>2. Cardinality(B(j)) = Cardinality(B(i)) => B(j) = B(i)
    BY <1>6, <2>1, FS_Subset
  <2> QED  BY <2>1, <2>2
<1>8. \A i, j \in K : Cardinality(B(i)) = Cardinality(B(j)) => i = j
  BY <1>2, <1>7
<1> HIDE DEF B
<1>9. r \in Injection(K, 1 .. m)
  <2>1. r \in [K -> 1 .. m]
    BY <1>6
  <2>2. \A i, j \in DOMAIN r : r[i] = r[j] => i = j
    BY <1>8
  <2> QED  BY <2>1, <2>2 DEF Injection, IsInjective
<1>10. r \in Surjection(K, 1 .. m)
  <2>1. IsFiniteSet(1 .. m) /\ Cardinality(1 .. m) = m
    BY <1>2, FS_Interval
  <2> HIDE DEF r
  <2>2. m = Cardinality(1 .. m) => r \in Surjection(K, 1 .. m)
    BY <1>9, <2>1, FS_Injection
  <2> QED  BY <2>1, <2>2
<1>11. \A k \in 1 .. m : \E i \in K : Cardinality(B(i)) = k
  BY <1>10 DEF Surjection
<1>12. ASSUME NEW k \in 1 .. m PROVE P(k) \in K /\ Cardinality(B(P(k))) = k
  BY <1>11
<1>13. \A i \in K : Cardinality(B(i)) \in 1 .. m /\ P(Cardinality(B(i))) = i
  BY <1>6, <1>8, <1>12
<1> HIDE DEF m, P, r, w
<1>14. DOMAIN w = 1 .. m /\ (\A k \in 1 .. m : w[k] = s[P(k)])
  BY <1>3
<1>15. w \in Seq(S)
  <2>1. w \in [1 .. m -> S]
    BY <1>3, <1>4, <1>12
  <2> QED  BY <1>2, <2>1, SeqDef
<1>16. ToSet(w) = ToSet(s) \ {e}
  <2>1. ASSUME NEW x \in ToSet(w) PROVE x \in ToSet(s) \ {e}
    BY <1>1, <1>4, <1>12, <1>14 DEF ToSet
  <2>2. ASSUME NEW x \in ToSet(s) \ {e} PROVE x \in ToSet(w)
    <3>1. PICK i \in 1 .. Len(s) : x = s[i]
      BY <1>1 DEF ToSet
    <3>2. i \in K
      BY <1>5, <3>1
    <3>3. Cardinality(B(i)) \in 1 .. m /\ w[Cardinality(B(i))] = x
      BY <1>13, <1>14, <3>1, <3>2
    <3> QED  BY <1>14, <3>3 DEF ToSet
  <2> QED  BY <2>1, <2>2
<1>17. ASSUME IsInjective(s) PROVE IsInjective(w)
  <2> SUFFICES ASSUME NEW a \in 1 .. m, NEW b \in 1 .. m, w[a] = w[b] PROVE a = b
    BY <1>14 DEF IsInjective
  <2>1. P(a) \in K /\ P(b) \in K /\ s[P(a)] = s[P(b)]
    BY <1>12, <1>14
  <2>2. P(a) = P(b)
    BY <1>1, <1>4, <1>17, <2>1 DEF IsInjective
  <2> QED  BY <1>12, <2>2
<1> QED  BY <1>15, <1>16, <1>17 DEF w

\* An array union adds what is not there.
LEMMA UnionFacts ==
    ASSUME NEW S, NEW s \in Seq(S), NEW e \in S
    PROVE  /\ ArrayUnion(s, e) \in Seq(S)
           /\ ToSet(ArrayUnion(s, e)) = ToSet(s) \union {e}
           /\ IsInjective(s) => IsInjective(ArrayUnion(s, e))
<1>1. Len(s) \in Nat /\ DOMAIN s = 1 .. Len(s)
  BY LenProperties
<1>2. CASE Contains(s, e)
  BY <1>1, <1>2 DEF ArrayUnion, Contains, ToSet
<1>3. CASE ~Contains(s, e)
  <2> DEFINE t == Append(s, e)
  <2>1. /\ t \in Seq(S) /\ Len(t) = Len(s) + 1 /\ t[Len(s) + 1] = e
        /\ \A i \in 1 .. Len(s) : t[i] = s[i]
    BY AppendProperties
  <2>2. DOMAIN t = 1 .. Len(s) + 1
    BY <2>1, LenProperties
  <2>3. ArrayUnion(s, e) = t
    BY <1>3 DEF ArrayUnion
  <2> HIDE DEF t
  <2>4. ToSet(t) = ToSet(s) \union {e}
    BY <1>1, <2>1, <2>2 DEF ToSet
  <2>5. ASSUME IsInjective(s) PROVE IsInjective(t)
    BY <1>1, <1>3, <2>1, <2>2, <2>5 DEF IsInjective, Contains
  <2> QED  BY <2>1, <2>3, <2>4, <2>5
<1> QED  BY <1>2, <1>3

\* Removing an element by its index moves those after it one place forward.
LEMMA RemoveAtFacts ==
    ASSUME NEW S, NEW s \in Seq(S), NEW i \in DOMAIN s
    PROVE  /\ RemoveAt(s, i) \in Seq(S)
           /\ Len(RemoveAt(s, i)) = Len(s) - 1
           /\ IsInjective(s) => IsInjective(RemoveAt(s, i)) /\ s[i] \notin ToSet(RemoveAt(s, i))
<1> DEFINE a == SubSeq(s, 1, i - 1)
           b == SubSeq(s, i + 1, Len(s))
           t == RemoveAt(s, i)
<1>1. Len(s) \in Nat /\ DOMAIN s = 1 .. Len(s) /\ i \in 1 .. Len(s)
  BY LenProperties
<1>2. \A k \in 1 .. Len(s) : s[k] \in S
  BY ElementOfSeq
<1>3. a \in Seq(S) /\ Len(a) = i - 1 /\ \A k \in 1 .. i - 1 : a[k] = s[k]
  <2>1. 1 \in Int /\ i - 1 \in Int /\ \A k \in 1 .. i - 1 : s[k] \in S
    BY <1>1, <1>2
  <2> QED  BY <1>1, <2>1, SubSeqProperties
<1>4. b \in Seq(S) /\ Len(b) = Len(s) - i /\ \A k \in 1 .. Len(s) - i : b[k] = s[i + k]
  <2>1. i + 1 \in Int /\ Len(s) \in Int /\ \A k \in i + 1 .. Len(s) : s[k] \in S
    BY <1>1, <1>2
  <2>2. /\ b \in Seq(S) /\ Len(b) = IF i + 1 <= Len(s) THEN Len(s) - (i + 1) + 1 ELSE 0
        /\ \A k \in 1 .. Len(s) - (i + 1) + 1 : b[k] = s[i + 1 + k - 1]
    BY <2>1, SubSeqProperties
  <2> QED  BY <1>1, <2>2
<1>5. t = a \o b
  BY DEF RemoveAt
<1> HIDE DEF a, b, t
<1>6. /\ t \in Seq(S) /\ Len(t) = Len(s) - 1
      /\ \A k \in 1 .. Len(s) - 1 : t[k] = IF k < i THEN s[k] ELSE s[k + 1]
  <2>1. /\ a \o b \in Seq(S) /\ Len(a \o b) = Len(a) + Len(b)
        /\ \A k \in 1 .. Len(a) + Len(b) : (a \o b)[k] = IF k <= Len(a) THEN a[k] ELSE b[k - Len(a)]
    BY <1>3, <1>4, ConcatProperties
  <2>2. ASSUME NEW k \in 1 .. Len(s) - 1 PROVE t[k] = IF k < i THEN s[k] ELSE s[k + 1]
    <3>1. CASE k < i
      BY <1>1, <1>3, <1>4, <1>5, <2>1, <3>1
    <3>2. CASE ~(k < i)
      <4>1. t[k] = b[k - (i - 1)] /\ k - (i - 1) \in 1 .. Len(s) - i
        <5>1. Len(a) = i - 1 /\ Len(b) = Len(s) - i /\ Len(s) \in Nat /\ i \in 1 .. Len(s)
          BY <1>1, <1>3, <1>4
        <5>2. k \in 1 .. Len(a) + Len(b) /\ ~(k <= Len(a))
          BY <3>2, <5>1
        <5>3. t[k] = b[k - Len(a)]
          BY <1>5, <2>1, <5>2
        <5>4. k - (i - 1) \in 1 .. Len(s) - i
          BY <3>2, <5>1
        <5> QED  BY <5>1, <5>3, <5>4
      <4>2. b[k - (i - 1)] = s[i + (k - (i - 1))] /\ i + (k - (i - 1)) = k + 1
        BY <1>1, <1>4, <4>1
      <4> QED  BY <3>2, <4>1, <4>2
    <3> QED  BY <3>1, <3>2
  <2> QED  BY <1>1, <1>3, <1>4, <1>5, <2>1, <2>2
<1>7. DOMAIN t = 1 .. Len(s) - 1
  BY <1>6, LenProperties
<1>8. ASSUME IsInjective(s) PROVE IsInjective(t) /\ s[i] \notin ToSet(t)
  <2>1. \A k, l \in 1 .. Len(s) : s[k] = s[l] => k = l
    BY <1>1, <1>8 DEF IsInjective
  <2>2. ASSUME NEW k \in 1 .. Len(s) - 1, NEW l \in 1 .. Len(s) - 1, t[k] = t[l] PROVE k = l
    BY <1>1, <1>6, <2>1, <2>2
  <2>3. ASSUME NEW k \in 1 .. Len(s) - 1 PROVE t[k] # s[i]
    BY <1>1, <1>6, <2>1
  <2> QED  BY <1>7, <2>2, <2>3 DEF IsInjective, ToSet
<1> QED  BY <1>6, <1>8 DEF t

\* A finite set has a sequence of its elements, each there once.
LEMMA SetToSeqFacts ==
    ASSUME NEW S, IsFiniteSet(S)
    PROVE  SetToSeq(S) \in Seq(S) /\ IsInjective(SetToSeq(S))
<1> DEFINE n == Cardinality(S)
<1>1. n \in Nat /\ ExistsBijection(1 .. n, S)
  BY FS_CardinalityType
<1>2. \E f \in [1 .. n -> S] : IsInjective(f)
  BY <1>1 DEF ExistsBijection, Bijection, Injection
<1>3. SetToSeq(S) \in [1 .. n -> S] /\ IsInjective(SetToSeq(S))
  BY <1>2 DEF SetToSeq
<1> QED  BY <1>1, <1>3, SeqDef

\* The rows that confirmTracks shows are each of one track.
LEMMA LocalRows ==
    ASSUME NEW R \in SUBSET Tracks
    PROVE  LET s == SetToSeq({Entry(t, 0) : t \in R}) IN s \in Seq(Entries) /\ IsInjective(s)
<1> DEFINE E == {Entry(t, 0) : t \in R}
           f == [t \in R |-> Entry(t, 0)]
<1>1. E \subseteq Entries
  BY DEF Entries, Entry, Numbers
<1>2. f \in Surjection(R, E)
  <2>1. f \in [R -> E] /\ \A e \in E : \E t \in R : f[t] = e
    OBVIOUS
  <2> HIDE DEF f, E
  <2> QED  BY <2>1 DEF Surjection
<1>3. IsFiniteSet(R)
  BY FS_Subset
<1> HIDE DEF f, E
<1>4. IsFiniteSet(E)
  BY <1>2, <1>3, FS_Surjection
<1>5. SetToSeq(E) \in Seq(E) /\ IsInjective(SetToSeq(E))
  BY <1>4, SetToSeqFacts
<1>6. SetToSeq(E) \in Seq(Entries)
  BY <1>1, <1>5, SeqMonotonic
<1> QED  BY <1>5, <1>6 DEF E

-----------------------------------------------------------------------------
(* Type correctness.                                                         *)

\* What an app that dies leaves behind.
LEMMA DiesType ==
    ASSUME TypeInv, NEW u \in Users, Dies(u)
    PROVE  /\ alive' \in [Users -> BOOLEAN]
           /\ deletions' \subseteq Deletions
           /\ uploads' \in [Tracks -> {"idle", "put", "url", "write"}]
           /\ \A t \in Tracks : uploads'[t] \in {"idle", uploads[t]}
BY DEF Dies, TypeInv, TypeOK

\* Every step keeps the types.
LEMMA TypeStep == TypeInv /\ [Next]_vars => TypeInv'
<1> SUFFICES ASSUME TypeInv, [Next]_vars PROVE TypeInv'
  OBVIOUS
<1>types. TypeOK /\ \A t \in Tracks : uploads[t] = "put" => uploaded[t] < MaxUploads
  BY DEF TypeInv
<1>1. ASSUME NEW u \in Users, NEW S \in SUBSET Tracks, confirmTracks(u, S) PROVE TypeInv'
  <2>1. SetToSeq({Entry(t, 0) : t \in S}) \in Seq(Entries)
    BY LocalRows
  <2>2. audioTracks' \in [Users -> Seq(Entries)]
    BY <1>1, <1>types, <2>1 DEF confirmTracks, TypeOK
  <2>3. uploads' \in [Tracks -> {"idle", "put", "url", "write"}]
        /\ \A t \in Tracks : uploads'[t] = "put" => uploaded'[t] < MaxUploads
    BY <1>1, <1>types DEF confirmTracks, TypeOK
  <2>4. tab' \in [Users -> {"library", "merge"}]
    BY <1>1, <1>types DEF confirmTracks, TypeOK
  <2> QED  BY <1>1, <1>types, <2>2, <2>3, <2>4 DEF confirmTracks, TypeInv, TypeOK
<1>2. ASSUME NEW u \in Users, viewWillAppear(u) PROVE TypeInv'
  <2>1. Len(audioTracks[u]) \in Nat
    BY <1>types, LenProperties DEF TypeOK
  <2> QED  BY <1>2, <1>types, <2>1 DEF viewWillAppear, TypeInv, TypeOK, netVars
<1>3. ASSUME NEW u \in Users, refresh(u) PROVE TypeInv'
  <2>1. audioTracks' \in [Users -> Seq(Entries)]
    BY <1>3, <1>types, EmptySeq DEF refresh, TypeOK
  <2>2. fetching' \in [Users -> 0 .. 2]
    <3>1. fetching \in [Users -> 0 .. 2] /\ fetching[u] < 2
          /\ fetching' = [fetching EXCEPT ![u] = fetching[u] + 1]
      BY <1>3, <1>types DEF refresh, TypeOK
    <3> QED  BY <3>1
  <2> QED  BY <1>3, <1>types, <2>1, <2>2 DEF refresh, TypeInv, TypeOK, netVars
<1>4. ASSUME NEW u \in Users, Fetched(u) PROVE TypeInv'
  <2>1. audioTracks[u] \o list \in Seq(Entries)
    BY <1>types, ConcatProperties DEF TypeOK
  <2>2. audioTracks' \in [Users -> Seq(Entries)] /\ audioTracks'[u] \in Seq(Entries)
    BY <1>4, <1>types, <2>1 DEF Fetched, TypeOK
  <2>3. fetching' \in [Users -> 0 .. 2]
    BY <1>4, <1>types DEF Fetched, TypeOK
  <2>4. cache' \in [Users -> Seq(Entries)]
    BY <1>4, <1>types DEF Fetched, TypeOK, Cached
  <2>5. Len(audioTracks'[u]) \in Nat
    BY <2>2, LenProperties
  <2>6. table' \in [Users -> Nat] /\ spinner' \in [Users -> BOOLEAN]
    <3>1. table \in [Users -> Nat] /\ spinner \in [Users -> BOOLEAN]
      BY <1>types DEF TypeOK
    <3>2. CASE Complete(audioTracks[u])
      <4>1. table' = [table EXCEPT ![u] = Len(audioTracks'[u])]
            /\ spinner' = [spinner EXCEPT ![u] = FALSE]
        BY <1>4, <3>2, Zenon DEF Fetched
      <4> QED  BY <2>5, <3>1, <4>1
    <3>3. CASE ~Complete(audioTracks[u])
      BY <1>4, <3>1, <3>3, Zenon DEF Fetched
    <3> QED  BY <3>2, <3>3
  <2> QED  BY <1>4, <1>types, <2>2, <2>3, <2>4, <2>6 DEF Fetched, TypeInv, TypeOK, netVars
<1>5. ASSUME NEW u \in Users, FetchFails(u) PROVE TypeInv'
  <2>1. fetching' \in [Users -> 0 .. 2]
    BY <1>5, <1>types DEF FetchFails, TypeOK
  <2> QED  BY <1>5, <1>types, <2>1 DEF FetchFails, TypeInv, TypeOK, netVars
<1>6. ASSUME NEW u \in Users, ClickTrackChanges(u) PROVE TypeInv'
  BY <1>6, <1>types DEF ClickTrackChanges, TypeInv, TypeOK, netVars, rowVars
<1>7. ASSUME NEW u \in Users, NEW i \in 1 .. table[u], deleteRow(u, i) PROVE TypeInv'
  <2>1. UNCHANGED <<list, files, uploaded, url, rowVars>>
    BY <1>7 DEF deleteRow
  <2>2. CASE i \notin DOMAIN audioTracks[u]
    <3>1. Dies(u) /\ UNCHANGED cache
      BY <1>7, <2>2 DEF deleteRow
    <3> QED  BY <1>types, <2>1, <3>1, DiesType DEF TypeInv, TypeOK, rowVars
  <2>3. CASE i \in DOMAIN audioTracks[u]
    <3> DEFINE e == audioTracks[u][i]
               d == [user |-> u, row |-> i, entry |-> e, list |-> Left(u, e), phase |-> "file"]
    <3>1. /\ cache' = [cache EXCEPT ![u] = Left(u, e)]
          /\ deletions' = deletions \union {d} /\ UNCHANGED <<uploads, alive>>
      BY <1>7, <2>3 DEF deleteRow
    <3>2. e \in Entries
      BY <1>types, <2>3, LenProperties, ElementOfSeq DEF TypeOK
    <3>3. Left(u, e) \in Seq(Entries)
      BY <1>types, WithoutFacts DEF TypeOK, Left
    <3>4. d \in Deletions
      <4>1. i \in Nat \ {0}
        BY <1>types DEF TypeOK
      <4> QED  BY <3>2, <3>3, <4>1 DEF Deletions
    <3> HIDE DEF d, e
    <3> QED  BY <1>types, <2>1, <3>1, <3>3, <3>4 DEF TypeInv, TypeOK, rowVars
  <2> QED  BY <2>2, <2>3
<1>8. ASSUME NEW t \in Tracks, PutDone(t) PROVE TypeInv'
  <2>1. uploaded[t] + 1 \in Numbers /\ uploaded' = [uploaded EXCEPT ![t] = uploaded[t] + 1]
    BY <1>8, <1>types DEF PutDone, TypeOK, Numbers
  <2>2. uploaded' \in [Tracks -> Numbers] /\ uploaded'[t] \in Numbers
        /\ \A s \in Tracks \ {t} : uploaded'[s] = uploaded[s]
    BY <1>types, <2>1 DEF TypeOK
  <2>3. uploads' \in [Tracks -> {"idle", "put", "url", "write"}] /\ files' \in [Tracks -> Numbers]
    BY <1>8, <1>types, <2>2 DEF PutDone, TypeOK
  <2>4. \A s \in Tracks : uploads'[s] = "put" => uploaded'[s] < MaxUploads
    BY <1>8, <1>types, <2>2 DEF PutDone, TypeOK
  <2> QED  BY <1>8, <1>types, <2>2, <2>3, <2>4 DEF PutDone, TypeInv, TypeOK, rowVars
<1>9. ASSUME NEW t \in Tracks, UrlDone(t) \/ UploadFails(t) PROVE TypeInv'
  <2>1. PICK p \in {"idle", "write"} : uploads' = [uploads EXCEPT ![t] = p]
    BY <1>9 DEF UrlDone, UploadFails
  <2>2. url' \in [Tracks -> Numbers]
    BY <1>9, <1>types DEF UrlDone, UploadFails, TypeOK
  <2> QED
    BY <1>9, <1>types, <2>1, <2>2 DEF UrlDone, UploadFails, TypeInv, TypeOK, rowVars
<1>10. ASSUME NEW t \in Tracks, EntryWritten(t) PROVE TypeInv'
  <2>1. Entry(t, url[t]) \in Entries
    BY <1>types DEF TypeOK, Entry, Entries
  <2>2. list' \in Seq(Entries)
    BY <1>10, <1>types, <2>1, UnionFacts DEF EntryWritten, TypeOK
  <2> QED  BY <1>10, <1>types, <2>2 DEF EntryWritten, TypeInv, TypeOK, rowVars
<1>11. ASSUME NEW d \in deletions, FileDeleted(d) PROVE TypeInv'
  <2>1. d \in Deletions /\ [d EXCEPT !.phase = "list"] \in Deletions
    BY <1>types DEF TypeOK, Deletions
  <2>2. deletions' \subseteq Deletions
    BY <1>11, <1>types, <2>1 DEF FileDeleted, TypeOK
  <2>3. files' \in [Tracks -> Numbers]
    <3>1. 0 \in Numbers /\ files \in [Tracks -> Numbers]
      BY <1>types DEF TypeOK, Numbers
    <3>2. \/ files' = [files EXCEPT ![d.entry.track] = 0]
          \/ files' = files
      BY <1>11 DEF FileDeleted
    <3> QED  BY <3>1, <3>2
  <2> QED  BY <1>11, <1>types, <2>2, <2>3 DEF FileDeleted, TypeInv, TypeOK, rowVars
<1>12. ASSUME NEW d \in deletions, ListWritten(d) PROVE TypeInv'
  <2>1. d.user \in Users /\ d.list \in Seq(Entries)
    BY <1>types DEF TypeOK, Deletions
  <2>2. list' = d.list /\ RowRemoved(d) /\ UNCHANGED <<files, uploaded, url, cache, fetching, spinner, tab>>
    BY <1>12 DEF ListWritten
  <2> DEFINE rows == audioTracks[d.user]
  <2>3. CASE d.row \in DOMAIN rows /\ table[d.user] = Len(rows)
    <3>1. /\ deletions' = deletions \ {d} /\ UNCHANGED <<alive, uploads>>
          /\ audioTracks' = [audioTracks EXCEPT ![d.user] = RemoveAt(rows, d.row)]
          /\ table' = [table EXCEPT ![d.user] = Len(rows) - 1]
      BY <2>2, <2>3 DEF RowRemoved
    <3>2. rows \in Seq(Entries) /\ RemoveAt(rows, d.row) \in Seq(Entries)
      BY <1>types, <2>1, <2>3, RemoveAtFacts DEF TypeOK
    <3>3. Len(rows) - 1 \in Nat
      BY <2>3, <3>2, LenProperties
    <3> QED  BY <1>types, <2>1, <2>2, <3>1, <3>2, <3>3 DEF TypeInv, TypeOK
  <2>4. CASE ~(d.row \in DOMAIN rows /\ table[d.user] = Len(rows))
    <3>1. Dies(d.user) /\ UNCHANGED <<audioTracks, table>>
      BY <2>2, <2>4 DEF RowRemoved
    <3> QED  BY <1>types, <2>1, <2>2, <3>1, DiesType DEF TypeInv, TypeOK
  <2> QED  BY <2>3, <2>4
<1>13. CASE UNCHANGED vars
  BY <1>13, <1>types DEF vars, TypeInv, TypeOK, netVars, rowVars
<1> QED
  BY <1>1, <1>2, <1>3, <1>4, <1>5, <1>6, <1>7, <1>8, <1>9, <1>10, <1>11, <1>12, <1>13 DEF Next

\* The types hold at the start.
LEMMA TypeInit == Init => TypeInv
<1> SUFFICES ASSUME Init PROVE TypeInv
  OBVIOUS
<1>1. <<>> \in Seq(Entries)
  BY EmptySeq
<1> QED  BY <1>1 DEF Init, TypeInv, TypeOK, Numbers

\* Every list, row, upload and deletion of a behaviour is of tracks and users
\* that exist, and no track is uploaded more often than it was confirmed.
THEOREM TypeCorrect == Spec => []TypeOK
<1>1. TypeInv => TypeOK
  BY DEF TypeInv
<1> QED  BY <1>1, TypeInit, TypeStep, PTL DEF Spec

-----------------------------------------------------------------------------
(* The two actions of a deletion that the invariants are about.              *)

\* A user who swipes in his turn, with the newest list, begins the only
\* deletion, of an entry that is listed.
LEMMA SwipeFacts ==
    ASSUME TypeInv, NEW u \in Users, NEW i \in 1 .. table[u], deleteRow(u, i),
           {"turns", "fresh"} \subseteq Habits
    PROVE  /\ deletions = {} /\ \A t \in Tracks : uploads[t] = "idle"
           /\ cache[u] = list /\ i \in DOMAIN audioTracks[u] /\ alive[u] /\ tab[u] = "merge"
           /\ UNCHANGED <<list, files, uploads, rowVars, alive>>
           /\ \E d \in Deletions :
                /\ deletions' = {d} /\ d.user = u /\ d.row = i /\ d.phase = "file"
                /\ d.entry = audioTracks[u][i] /\ d.entry \in ToSet(list)
                /\ ToSet(d.list) = ToSet(list) \ {d.entry}
<1> DEFINE e == audioTracks[u][i]
           d == [user |-> u, row |-> i, entry |-> e, list |-> Left(u, e), phase |-> "file"]
<1>1. /\ deletions = {} /\ \A t \in Tracks : uploads[t] = "idle"
      /\ cache[u] = list /\ i \in DOMAIN audioTracks[u] /\ e \in ToSet(list)
      /\ alive[u] /\ tab[u] = "merge"
  BY DEF deleteRow, MayTouch
<1>2. deletions' = {d} /\ UNCHANGED <<list, files, uploads, rowVars, alive>>
  BY <1>1 DEF deleteRow
<1>3. Left(u, e) \in Seq(Entries) /\ ToSet(Left(u, e)) = ToSet(list) \ {e}
  BY <1>1, WithoutFacts DEF TypeInv, TypeOK, Left
<1>4. e \in Entries
  BY <1>1, LenProperties, ElementOfSeq DEF TypeInv, TypeOK
<1>5. i \in Nat \ {0}
  BY DEF TypeInv, TypeOK
<1>6. d \in Deletions
  BY <1>3, <1>4, <1>5 DEF Deletions
<1>7. /\ d.user = u /\ d.row = i /\ d.phase = "file" /\ d.entry = e
      /\ ToSet(d.list) = ToSet(list) \ {d.entry}
  BY <1>3
<1> HIDE DEF d
<1> QED  BY <1>1, <1>2, <1>6, <1>7

\* The deletion whose list is written is over, even if its app dies of it.
LEMMA WrittenFacts ==
    ASSUME TypeInv, NEW d \in deletions, ListWritten(d)
    PROVE  /\ d \in Deletions /\ d.phase = "list"
           /\ list' = d.list /\ deletions' \subseteq deletions \ {d}
           /\ \A t \in Tracks : uploads'[t] \in {"idle", uploads[t]}
           /\ UNCHANGED <<files, cache, fetching, tab>>
<1>1. d \in Deletions /\ d.phase = "list" /\ list' = d.list /\ RowRemoved(d)
      /\ UNCHANGED <<files, cache, fetching, tab>>
  BY DEF ListWritten, TypeInv, TypeOK
<1>2. d.user \in Users
  BY <1>1 DEF Deletions
<1>3. d \in DeletionsOf(d.user)
  BY DEF DeletionsOf
<1>4. CASE Dies(d.user)
  BY <1>1, <1>2, <1>3, <1>4, DiesType DEF Dies
<1>5. CASE ~Dies(d.user)
  BY <1>1, <1>5 DEF RowRemoved
<1> QED  BY <1>4, <1>5

-----------------------------------------------------------------------------
(* Lists.                                                                    *)

\* Every step keeps the entries of each list different.
LEMMA NoneTwiceStep == TypeInv /\ NoneTwice /\ [Next]_vars => NoneTwice'
<1> SUFFICES ASSUME TypeInv, NoneTwice, [Next]_vars PROVE NoneTwice'
  OBVIOUS
<1>types. /\ list \in Seq(Entries) /\ cache \in [Users -> Seq(Entries)]
          /\ url \in [Tracks -> Numbers] /\ deletions \subseteq Deletions
  BY DEF TypeInv, TypeOK
<1>1. CASE UNCHANGED <<list, cache>> /\ deletions' \subseteq deletions
  BY <1>1 DEF NoneTwice
<1>2. ASSUME NEW u \in Users, NEW S \in SUBSET Tracks,
             confirmTracks(u, S) \/ viewWillAppear(u) \/ refresh(u) \/ FetchFails(u)
      PROVE  NoneTwice'
  BY <1>1, <1>2 DEF confirmTracks, viewWillAppear, refresh, FetchFails
<1>3. ASSUME NEW u \in Users, Fetched(u) \/ ClickTrackChanges(u) PROVE NoneTwice'
  BY <1>3, <1>types DEF Fetched, Cached, ClickTrackChanges, NoneTwice
<1>4. ASSUME NEW u \in Users, NEW i \in 1 .. table[u], deleteRow(u, i) PROVE NoneTwice'
  <2>1. CASE i \notin DOMAIN audioTracks[u]
    BY <1>1, <1>4, <2>1 DEF deleteRow, Dies
  <2>2. CASE i \in DOMAIN audioTracks[u]
    <3>1. PICK e : /\ cache' = [cache EXCEPT ![u] = Left(u, e)] /\ UNCHANGED list
                   /\ deletions' = deletions \union
                        {[user |-> u, row |-> i, entry |-> e, list |-> Left(u, e), phase |-> "file"]}
      BY <1>4, <2>2 DEF deleteRow
    <3>2. IsInjective(Left(u, e))
      BY <1>types, WithoutFacts DEF Left, NoneTwice
    <3> QED  BY <1>types, <3>1, <3>2 DEF NoneTwice
  <2> QED  BY <2>1, <2>2
<1>5. ASSUME NEW t \in Tracks, PutDone(t) \/ UrlDone(t) \/ UploadFails(t) PROVE NoneTwice'
  BY <1>1, <1>5 DEF PutDone, UrlDone, UploadFails
<1>6. ASSUME NEW t \in Tracks, EntryWritten(t) PROVE NoneTwice'
  <2>1. Entry(t, url[t]) \in Entries
    BY <1>types DEF Entry, Entries
  <2>2. IsInjective(ArrayUnion(list, Entry(t, url[t])))
    BY <1>types, <2>1, UnionFacts DEF NoneTwice
  <2> QED  BY <1>6, <2>2 DEF EntryWritten, NoneTwice
<1>7. ASSUME NEW d \in deletions, FileDeleted(d) PROVE NoneTwice'
  <2>1. d \in Deletions /\ IsInjective([d EXCEPT !.phase = "list"].list)
    BY <1>types DEF Deletions, NoneTwice
  <2> QED  BY <1>7, <2>1 DEF FileDeleted, NoneTwice
<1>8. ASSUME NEW d \in deletions, ListWritten(d) PROVE NoneTwice'
  BY <1>8, WrittenFacts DEF NoneTwice
<1>9. CASE UNCHANGED vars
  BY <1>1, <1>9 DEF vars
<1> QED  BY <1>2, <1>3, <1>4, <1>5, <1>6, <1>7, <1>8, <1>9 DEF Next

\* Every step keeps deletions to one at a time.
LEMMA TurnsStep == TypeInv /\ TurnsInv /\ [Next]_vars => TurnsInv'
<1> SUFFICES ASSUME TypeInv, OneDeletion, [Next]_vars, {"turns", "fresh"} \subseteq Habits
             PROVE  OneDeletion'
  BY DEF TurnsInv
<1>types. TypeOK
  BY DEF TypeInv
<1>1. ASSUME UNCHANGED <<list, deletions>>, \A t \in Tracks : uploads[t] = "idle" => uploads'[t] = "idle"
      PROVE  OneDeletion'
  BY <1>1 DEF OneDeletion
<1>2. ASSUME NEW u \in Users, NEW S \in SUBSET Tracks, confirmTracks(u, S) PROVE OneDeletion'
  BY <1>2 DEF confirmTracks, OneDeletion
<1>3. ASSUME NEW u \in Users,
             viewWillAppear(u) \/ refresh(u) \/ Fetched(u) \/ FetchFails(u) \/ ClickTrackChanges(u)
      PROVE  OneDeletion'
  BY <1>1, <1>3 DEF viewWillAppear, refresh, Fetched, FetchFails, ClickTrackChanges, netVars
<1>4. ASSUME NEW u \in Users, NEW i \in 1 .. table[u], deleteRow(u, i) PROVE OneDeletion'
  BY <1>4, SwipeFacts DEF OneDeletion
<1>5. ASSUME NEW t \in Tracks, PutDone(t) \/ UrlDone(t) \/ UploadFails(t) PROVE OneDeletion'
  BY <1>1, <1>5, <1>types DEF PutDone, UrlDone, UploadFails, TypeOK
<1>6. ASSUME NEW t \in Tracks, EntryWritten(t) PROVE OneDeletion'
  BY <1>6 DEF EntryWritten, OneDeletion
<1>7. ASSUME NEW d \in deletions, FileDeleted(d) PROVE OneDeletion'
  <2>1. d \in Deletions /\ \A c \in deletions : c = d
    BY <1>7, <1>types DEF OneDeletion, TypeOK
  <2>2. /\ [d EXCEPT !.phase = "list"].entry = d.entry
        /\ [d EXCEPT !.phase = "list"].list = d.list
    BY <2>1 DEF Deletions
  <2>3. deletions' \subseteq {[d EXCEPT !.phase = "list"]} /\ UNCHANGED <<list, uploads>>
    BY <1>7, <2>1 DEF FileDeleted
  <2>4. \A c \in deletions' : c.entry = d.entry /\ c.list = d.list
    BY <2>2, <2>3
  <2> QED  BY <2>3, <2>4 DEF OneDeletion
<1>8. ASSUME NEW d \in deletions, ListWritten(d) PROVE OneDeletion'
  <2>1. deletions' = {}
    BY <1>8, WrittenFacts DEF OneDeletion
  <2> QED  BY <2>1 DEF OneDeletion
<1>9. CASE UNCHANGED vars
  BY <1>1, <1>9 DEF vars, netVars
<1> QED  BY <1>2, <1>3, <1>4, <1>5, <1>6, <1>7, <1>8, <1>9 DEF Next

\* If users take turns and swipe what they know to be listed, the only entry
\* that a deletion takes off the list of the session is that of its own track,
\* though it overwrites the list with a copy: nobody's upload is lost.
THEOREM OthersAreKept ==
    {"turns", "fresh"} \subseteq Habits => (Spec => OthersStayListed)
<1> SUFFICES ASSUME {"turns", "fresh"} \subseteq Habits PROVE Spec => OthersStayListed
  OBVIOUS
<1> DEFINE Kept == \A e \in ToSet(list) \ ToSet(list') : \E d \in deletions \ deletions' : d.entry = e
<1>1. ASSUME TypeInv, TurnsInv, [Next]_vars PROVE [Kept]_vars
  <2>types. list \in Seq(Entries) /\ url \in [Tracks -> Numbers]
    BY <1>1 DEF TypeInv, TypeOK
  <2>1. CASE UNCHANGED list
    BY <2>1
  <2>2. ASSUME NEW t \in Tracks, EntryWritten(t) PROVE Kept
    <3>1. Entry(t, url[t]) \in Entries
      BY <2>types DEF Entry, Entries
    <3>2. ToSet(list') = ToSet(list) \union {Entry(t, url[t])}
      BY <2>2, <2>types, <3>1, UnionFacts DEF EntryWritten
    <3> QED  BY <3>2
  <2>3. ASSUME NEW d \in deletions, ListWritten(d) PROVE Kept
    <3>1. list' = d.list /\ d \notin deletions'
      BY <1>1, <2>3, WrittenFacts
    <3>2. ToSet(d.list) = ToSet(list) \ {d.entry}
      BY <1>1 DEF TurnsInv, OneDeletion
    <3> QED  BY <3>1, <3>2
  <2>4. ASSUME Next, list' # list
        PROVE  \/ \E t \in Tracks : EntryWritten(t)
               \/ \E d \in deletions : ListWritten(d)
    BY <2>4 DEF Next, confirmTracks, viewWillAppear, refresh, Fetched, FetchFails, ClickTrackChanges,
                deleteRow, PutDone, UrlDone, UploadFails, FileDeleted
  <2> QED  BY <1>1, <2>1, <2>2, <2>3, <2>4
<1>2. Init => TurnsInv
  BY DEF Init, TurnsInv, OneDeletion
<1> QED  BY <1>1, <1>2, TypeInit, TypeStep, TurnsStep, PTL DEF Spec, OthersStayListed

-----------------------------------------------------------------------------
(* Files.                                                                    *)

\* Every step keeps the listed tracks playable.
LEMMA FilesStep == TypeInv /\ TurnsInv /\ FilesInv /\ [Next]_vars => FilesInv'
<1> SUFFICES ASSUME TypeInv, OneDeletion, FilesAreThere, [Next]_vars,
                    {"turns", "fresh", "once"} \subseteq Habits
             PROVE  FilesAreThere'
  BY DEF TurnsInv, FilesInv
<1>types. /\ TypeOK /\ list \in Seq(Entries)
          /\ \A e \in ToSet(list) : e.track \in Tracks
  <2>1. TypeOK /\ list \in Seq(Entries)
    BY DEF TypeInv, TypeOK
  <2>2. ToSet(list) \subseteq Entries
    BY <2>1, LenProperties, ElementOfSeq DEF ToSet
  <2> QED  BY <2>1, <2>2 DEF Entries
<1>1. ASSUME UNCHANGED <<list, files, deletions>>,
             \A t \in Tracks : /\ uploads'[t] # "idle" => uploads[t] # "idle"
                               /\ uploads'[t] \in {"url", "write"} => uploads[t] \in {"url", "write"}
      PROVE  FilesAreThere'
  BY <1>1 DEF FilesAreThere, Listed
<1>2. ASSUME NEW u \in Users, NEW S \in SUBSET Tracks, confirmTracks(u, S) PROVE FilesAreThere'
  <2>1. /\ \A t \in S : ~Listed(t) /\ uploads[t] = "idle"
        /\ uploads' = [t \in Tracks |-> IF t \in S THEN "put" ELSE uploads[t]]
        /\ UNCHANGED <<list, files, deletions>>
    BY <1>2 DEF confirmTracks
  <2> QED  BY <2>1 DEF FilesAreThere, Listed
<1>3. ASSUME NEW u \in Users,
             viewWillAppear(u) \/ refresh(u) \/ Fetched(u) \/ FetchFails(u) \/ ClickTrackChanges(u)
      PROVE  FilesAreThere'
  BY <1>1, <1>3 DEF viewWillAppear, refresh, Fetched, FetchFails, ClickTrackChanges, netVars
<1>4. ASSUME NEW u \in Users, NEW i \in 1 .. table[u], deleteRow(u, i) PROVE FilesAreThere'
  <2>1. deletions = {} /\ UNCHANGED <<list, files, uploads>>
    BY <1>4, SwipeFacts
  <2>2. PICK d : deletions' = {d} /\ d.entry \in ToSet(list)
    BY <1>4, SwipeFacts
  <2>3. files[d.entry.track] # 0
    BY <2>1, <2>2 DEF FilesAreThere
  <2> QED  BY <2>1, <2>2, <2>3 DEF FilesAreThere, Listed
<1>5. ASSUME NEW t \in Tracks, PutDone(t) PROVE FilesAreThere'
  <2>1. /\ uploads[t] = "put" /\ uploads' = [uploads EXCEPT ![t] = "url"]
        /\ files' = [files EXCEPT ![t] = uploaded'[t]]
        /\ uploaded' = [uploaded EXCEPT ![t] = @ + 1]
        /\ UNCHANGED <<list, deletions>>
    BY <1>5 DEF PutDone
  <2>2. uploaded'[t] # 0
    BY <1>types, <2>1 DEF TypeOK, Numbers
  <2>3. \A s \in Tracks : files[s] # 0 => files'[s] # 0
    BY <1>types, <2>1, <2>2 DEF TypeOK
  <2>4. files'[t] # 0
    BY <1>types, <2>1, <2>2 DEF TypeOK
  <2>5. deletions = {}
    BY <2>1 DEF OneDeletion
  <2> QED  BY <1>types, <2>1, <2>3, <2>4, <2>5 DEF FilesAreThere, Listed, TypeOK
<1>6. ASSUME NEW t \in Tracks, UrlDone(t) \/ UploadFails(t) PROVE FilesAreThere'
  BY <1>1, <1>6, <1>types DEF UrlDone, UploadFails, TypeOK
<1>7. ASSUME NEW t \in Tracks, EntryWritten(t) PROVE FilesAreThere'
  <2> DEFINE e == Entry(t, url[t])
  <2>1. /\ uploads[t] = "write" /\ uploads' = [uploads EXCEPT ![t] = "idle"]
        /\ list' = ArrayUnion(list, e) /\ UNCHANGED <<files, deletions>>
    BY <1>7 DEF EntryWritten
  <2>2. e \in Entries /\ e.track = t
    BY <1>types DEF Entry, Entries, TypeOK
  <2>3. ToSet(list') = ToSet(list) \union {e}
    BY <1>types, <2>1, <2>2, UnionFacts
  <2>4. files[t] # 0 /\ ~Listed(t)
    BY <2>1 DEF FilesAreThere
  <2> HIDE DEF e
  <2>5. \A f, g \in ToSet(list') : f.track = g.track => f = g
    BY <2>2, <2>3, <2>4 DEF FilesAreThere, Listed
  <2>6. \A s \in Tracks : uploads'[s] # "idle" => s # t /\ uploads'[s] = uploads[s]
    BY <1>types, <2>1 DEF TypeOK
  <2>7. \A s \in Tracks : uploads'[s] # "idle" => \A f \in ToSet(list') : f.track # s
    BY <2>2, <2>3, <2>6 DEF FilesAreThere, Listed
  <2>8. \A s \in Tracks : uploads'[s] \in {"url", "write"} => files[s] # 0
    BY <2>6 DEF FilesAreThere
  <2>9. \A f \in ToSet(list') : files[f.track] # 0 \/ \E d \in deletions : d.entry = f
    BY <2>2, <2>3, <2>4 DEF FilesAreThere
  <2> QED  BY <2>1, <2>5, <2>7, <2>8, <2>9 DEF FilesAreThere, Listed
<1>8. ASSUME NEW d \in deletions, FileDeleted(d) PROVE FilesAreThere'
  <2>1. /\ d \in Deletions /\ deletions = {d} /\ d.phase = "file" /\ files[d.entry.track] # 0
        /\ d.entry \in ToSet(list) /\ d.entry.track \in Tracks
        /\ UNCHANGED <<list, uploads>> /\ \A t \in Tracks : uploads[t] = "idle"
    BY <1>8, <1>types DEF FileDeleted, OneDeletion, FilesAreThere, TypeOK
  <2>2. CASE deletions' = {} /\ UNCHANGED files
    BY <2>1, <2>2 DEF FilesAreThere, Listed
  <2>3. CASE ~(deletions' = {} /\ UNCHANGED files)
    <3> DEFINE c == [d EXCEPT !.phase = "list"]
    <3>1. deletions' = {c} /\ files' = [files EXCEPT ![d.entry.track] = 0]
      BY <1>8, <2>1, <2>3 DEF FileDeleted
    <3>2. c.entry = d.entry /\ c.phase = "list"
      BY <2>1 DEF Deletions
    <3> HIDE DEF c
    <3>3. \A t \in Tracks : t # d.entry.track => files'[t] = files[t]
      BY <1>types, <3>1 DEF TypeOK
    <3>4. \A e \in ToSet(list) : e = d.entry \/ files'[e.track] # 0
      BY <1>types, <2>1, <3>3 DEF FilesAreThere
    <3> QED  BY <2>1, <3>1, <3>2, <3>4 DEF FilesAreThere, Listed
  <2> QED  BY <2>2, <2>3
<1>9. ASSUME NEW d \in deletions, ListWritten(d) PROVE FilesAreThere'
  <2>1. /\ list' = d.list /\ deletions' = {} /\ UNCHANGED files
        /\ \A t \in Tracks : uploads'[t] = "idle"
    <3>1. \A t \in Tracks : uploads[t] = "idle" /\ uploads'[t] \in {"idle", uploads[t]}
      BY <1>9, WrittenFacts DEF OneDeletion
    <3> QED  BY <1>9, <3>1, WrittenFacts DEF OneDeletion
  <2>2. ToSet(list') = ToSet(list) \ {d.entry}
    BY <2>1 DEF OneDeletion
  <2>3. \A e \in ToSet(list') : files[e.track] # 0
    BY <2>2 DEF OneDeletion, FilesAreThere
  <2> QED  BY <2>1, <2>2, <2>3 DEF FilesAreThere, Listed
<1>10. CASE UNCHANGED vars
  BY <1>1, <1>10 DEF vars, netVars
<1> QED
  BY <1>2, <1>3, <1>4, <1>5, <1>6, <1>7, <1>8, <1>9, <1>10 DEF Next

\* Nothing is listed at the start.
LEMMA ListInit == Init => NoneTwice /\ TurnsInv /\ FilesInv
<1> SUFFICES ASSUME Init PROVE NoneTwice /\ TurnsInv /\ FilesInv
  OBVIOUS
<1>1. ToSet(list) = {} /\ IsInjective(<<>>)
  BY DEF Init, ToSet, IsInjective
<1> QED
  BY <1>1 DEF Init, NoneTwice, TurnsInv, OneDeletion, FilesInv, FilesAreThere, Listed

\* If users take turns, swipe what they know to be listed and upload no track
\* that is, every listed track has its file in Storage, unless that is being
\* deleted, and no copy of the list has an entry twice.
THEOREM ListedArePlayable ==
    {"turns", "fresh", "once"} \subseteq Habits => (Spec => []ListedHaveFiles)
<1> SUFFICES ASSUME {"turns", "fresh", "once"} \subseteq Habits PROVE Spec => []ListedHaveFiles
  OBVIOUS
<1>1. NoneTwice /\ FilesInv => ListedHaveFiles
  BY DEF NoneTwice, FilesInv, FilesAreThere, ListedHaveFiles
<1> QED
  BY <1>1, TypeInit, ListInit, TypeStep, NoneTwiceStep, TurnsStep, FilesStep, PTL DEF Spec

-----------------------------------------------------------------------------
(* Rows.                                                                     *)

Patiently == {"patient", "fresh", "turns"} \subseteq Habits

RowsAreRight == (\A u \in Users : RowsOf(u)) /\ (\A d \in deletions : SwipedRow(d))

\* Steps that leave the rows alone and begin no deletion.
LEMMA RowsFrame ==
    ASSUME RowsAreRight, UNCHANGED <<rowVars, alive>>,
           \A c \in deletions' :
             \E d \in deletions : c.user = d.user /\ c.row = d.row /\ c.entry = d.entry
    PROVE  RowsAreRight'
<1>1. UNCHANGED <<audioTracks, table, fetching, tab, alive>>
  BY DEF rowVars
<1>2. ASSUME NEW u \in Users PROVE RowsOf(u)'
  <2>1. RowsOf(u) /\ (DeletionsOf(u) = {} => DeletionsOf(u)' = {})
    BY DEF RowsAreRight, DeletionsOf
  <2> QED  BY <1>1, <2>1 DEF RowsOf
<1>3. ASSUME NEW c \in deletions' PROVE SwipedRow(c)'
  BY <1>1 DEF RowsAreRight, SwipedRow
<1> QED  BY <1>2, <1>3 DEF RowsAreRight

\* Steps of the app of one user that touch his rows while he deletes none.
LEMMA RowsOfOne ==
    ASSUME RowsAreRight, UNCHANGED <<deletions, alive>>, NEW u \in Users,
           \A v \in Users \ {u} : /\ audioTracks'[v] = audioTracks[v] /\ table'[v] = table[v]
                                  /\ fetching'[v] = fetching[v] /\ tab'[v] = tab[v],
           RowsOf(u)', DeletionsOf(u) = {}, deletions \subseteq Deletions
    PROVE  RowsAreRight'
<1>1. ASSUME NEW v \in Users PROVE RowsOf(v)'
  <2>1. CASE v = u
    BY <2>1
  <2>2. CASE v # u
    BY <2>2 DEF RowsAreRight, RowsOf, DeletionsOf
  <2> QED  BY <2>1, <2>2
<1>2. ASSUME NEW d \in deletions PROVE SwipedRow(d)'
  <2>1. d.user \in Users \ {u}
    BY DEF DeletionsOf, Deletions
  <2> QED  BY <2>1 DEF RowsAreRight, SwipedRow
<1> QED  BY <1>1, <1>2 DEF RowsAreRight

\* Every step keeps rows, tables and swipes together.
LEMMA RowsStep == TypeInv /\ NoneTwice /\ TurnsInv /\ RowsInv /\ [Next]_vars => RowsInv'
<1> SUFFICES ASSUME TypeInv, NoneTwice, OneDeletion, RowsAreRight, [Next]_vars, Patiently
             PROVE  RowsAreRight'
  BY DEF TurnsInv, RowsInv, Patiently, RowsAreRight
<1>types. /\ list \in Seq(Entries) /\ audioTracks \in [Users -> Seq(Entries)]
          /\ table \in [Users -> Nat] /\ fetching \in [Users -> 0 .. 2]
          /\ tab \in [Users -> {"library", "merge"}] /\ deletions \subseteq Deletions
  BY DEF TypeInv, TypeOK
<1>rows. \A u \in Users : RowsOf(u)
  BY DEF RowsAreRight
<1>touch. ASSUME NEW u \in Users, MayTouch(u) PROVE fetching[u] = 0 /\ DeletionsOf(u) = {}
  <2>1. fetching[u] \in 0 .. 2
    BY <1>types
  <2>2. ~Waiting(u)
    BY <1>touch DEF MayTouch, Patiently
  <2> QED  BY <2>1, <2>2 DEF Waiting
<1>1. ASSUME NEW u \in Users, NEW S \in SUBSET Tracks, confirmTracks(u, S) PROVE RowsAreRight'
  <2>1. /\ audioTracks' = [audioTracks EXCEPT ![u] = SetToSeq({Entry(t, 0) : t \in S})]
        /\ tab' = [tab EXCEPT ![u] = "library"] /\ UNCHANGED <<deletions, table, fetching, alive>>
        /\ fetching[u] = 0 /\ DeletionsOf(u) = {}
    BY <1>1, <1>touch DEF confirmTracks
  <2>2. IsInjective(audioTracks'[u])
    BY <1>types, <2>1, LocalRows
  <2>3. RowsOf(u)'
    BY <1>types, <2>1, <2>2 DEF RowsOf
  <2>4. \A v \in Users \ {u} : /\ audioTracks'[v] = audioTracks[v] /\ table'[v] = table[v]
                               /\ fetching'[v] = fetching[v] /\ tab'[v] = tab[v]
    BY <1>types, <2>1
  <2> QED  BY <1>types, <2>1, <2>3, <2>4, RowsOfOne
<1>2. ASSUME NEW u \in Users, viewWillAppear(u) PROVE RowsAreRight'
  <2>1. /\ table' = [table EXCEPT ![u] = Len(audioTracks[u])] /\ tab' = [tab EXCEPT ![u] = "merge"]
        /\ UNCHANGED <<deletions, audioTracks, fetching, alive>>
    BY <1>2 DEF viewWillAppear
  <2>2. ASSUME NEW v \in Users PROVE RowsOf(v)'
    <3>1. RowsOf(v) /\ DeletionsOf(v)' = DeletionsOf(v)
      BY <1>rows, <2>1 DEF DeletionsOf
    <3> QED  BY <1>types, <2>1, <3>1 DEF RowsOf
  <2>3. ASSUME NEW d \in deletions PROVE SwipedRow(d)'
    <3>1. d.user \in Users /\ SwipedRow(d)
      BY <1>types DEF RowsAreRight, Deletions
    <3> QED  BY <1>types, <2>1, <3>1 DEF SwipedRow
  <2> QED  BY <2>1, <2>2, <2>3 DEF RowsAreRight
<1>3. ASSUME NEW u \in Users, refresh(u) PROVE RowsAreRight'
  <2>1. /\ audioTracks' = [audioTracks EXCEPT ![u] = <<>>]
        /\ fetching' = [fetching EXCEPT ![u] = @ + 1] /\ UNCHANGED <<deletions, table, tab, alive>>
        /\ fetching[u] = 0 /\ DeletionsOf(u) = {}
    BY <1>3, <1>touch DEF refresh
  <2>2. audioTracks'[u] = <<>> /\ fetching'[u] = 1 /\ DeletionsOf(u)' = {}
    BY <1>types, <2>1 DEF DeletionsOf
  <2>3. RowsOf(u)'
    BY <2>2 DEF RowsOf, IsInjective
  <2>4. \A v \in Users \ {u} : /\ audioTracks'[v] = audioTracks[v] /\ table'[v] = table[v]
                               /\ fetching'[v] = fetching[v] /\ tab'[v] = tab[v]
    BY <1>types, <2>1
  <2> QED  BY <1>types, <2>1, <2>3, <2>4, RowsOfOne
<1>4. ASSUME NEW u \in Users, Fetched(u) PROVE RowsAreRight'
  <2>1. fetching[u] = 1 /\ audioTracks[u] = <<>> /\ DeletionsOf(u) = {}
    BY <1>4, <1>rows DEF Fetched, RowsOf
  <2>2. Len(list) \in Nat /\ (Len(list) = 0 => list = <<>>)
    BY <1>types, EmptySeq, LenProperties
  <2>3. Complete(audioTracks[u])
    <3>1. Len(<<>>) = 0
      BY EmptySeq
    <3> QED  BY <2>1, <2>2, <3>1 DEF Complete
  <2>4. audioTracks' = [audioTracks EXCEPT ![u] = list]
    <3>1. <<>> \o list = list
      BY <1>types, ConcatEmptySeq
    <3> QED  BY <1>4, <2>1, <3>1 DEF Fetched
  <2>5. /\ fetching' = [fetching EXCEPT ![u] = @ - 1] /\ UNCHANGED <<deletions, tab, alive>>
        /\ table' = [table EXCEPT ![u] = Len(audioTracks'[u])]
    BY <1>4, <2>3 DEF Fetched
  <2>6. /\ fetching'[u] = 0 /\ audioTracks'[u] = list /\ table'[u] = Len(list)
        /\ IsInjective(list)
    BY <1>types, <2>1, <2>4, <2>5 DEF NoneTwice
  <2>7. RowsOf(u)'
    BY <2>6 DEF RowsOf
  <2>8. \A v \in Users \ {u} : /\ audioTracks'[v] = audioTracks[v] /\ table'[v] = table[v]
                               /\ fetching'[v] = fetching[v] /\ tab'[v] = tab[v]
    BY <1>types, <2>4, <2>5
  <2> QED  BY <1>types, <2>1, <2>5, <2>7, <2>8, RowsOfOne
<1>5. ASSUME NEW u \in Users, FetchFails(u) PROVE RowsAreRight'
  <2>1. fetching[u] = 1 /\ DeletionsOf(u) = {} /\ RowsOf(u)
    BY <1>5, <1>rows DEF FetchFails, RowsOf
  <2>2. /\ fetching' = [fetching EXCEPT ![u] = @ - 1]
        /\ UNCHANGED <<deletions, audioTracks, table, tab, alive>>
    BY <1>5 DEF FetchFails
  <2>3. RowsOf(u)'
    BY <1>types, <2>1, <2>2 DEF RowsOf
  <2>4. \A v \in Users \ {u} : /\ audioTracks'[v] = audioTracks[v] /\ table'[v] = table[v]
                               /\ fetching'[v] = fetching[v] /\ tab'[v] = tab[v]
    BY <1>types, <2>2
  <2> QED  BY <1>types, <2>1, <2>2, <2>3, <2>4, RowsOfOne
<1>6. ASSUME UNCHANGED <<rowVars, alive, deletions>> PROVE RowsAreRight'
  BY <1>6, RowsFrame
<1>7. ASSUME NEW u \in Users, ClickTrackChanges(u) PROVE RowsAreRight'
  BY <1>6, <1>7 DEF ClickTrackChanges
<1>8. ASSUME NEW u \in Users, NEW i \in 1 .. table[u], deleteRow(u, i) PROVE RowsAreRight'
  <2>1. /\ i \in DOMAIN audioTracks[u] /\ alive[u] /\ tab[u] = "merge"
        /\ UNCHANGED <<audioTracks, table, fetching, tab, alive>>
    BY <1>8, SwipeFacts DEF rowVars, Patiently
  <2>2. PICK d \in Deletions : /\ deletions' = {d} /\ d.user = u /\ d.row = i
                               /\ d.entry = audioTracks[u][i]
    BY <1>8, SwipeFacts DEF Patiently
  <2>3. fetching[u] = 0
    BY <1>8, <1>touch DEF deleteRow
  <2>4. audioTracks[u] # <<>>
    BY <2>1
  <2>5. table[u] = Len(audioTracks[u])
    BY <1>rows, <2>1, <2>4 DEF RowsOf
  <2>6. ASSUME NEW v \in Users PROVE RowsOf(v)'
    <3>1. CASE v = u
      BY <1>rows, <2>1, <2>3, <3>1 DEF RowsOf
    <3>2. CASE v # u
      <4>1. DeletionsOf(v)' = {}
        BY <2>2, <3>2 DEF DeletionsOf
      <4> QED  BY <1>rows, <2>1, <4>1 DEF RowsOf
    <3> QED  BY <3>1, <3>2
  <2>7. SwipedRow(d)'
    BY <2>1, <2>2, <2>5 DEF SwipedRow
  <2> QED  BY <2>2, <2>6, <2>7 DEF RowsAreRight
<1>9. ASSUME NEW t \in Tracks, PutDone(t) \/ UrlDone(t) \/ UploadFails(t) \/ EntryWritten(t)
      PROVE  RowsAreRight'
  BY <1>6, <1>9 DEF PutDone, UrlDone, UploadFails, EntryWritten
<1>10. ASSUME NEW d \in deletions, FileDeleted(d) PROVE RowsAreRight'
  <2> DEFINE c == [d EXCEPT !.phase = "list"]
  <2>1. c.user = d.user /\ c.row = d.row /\ c.entry = d.entry
    BY <1>types DEF Deletions
  <2>2. deletions' \subseteq deletions \union {c} /\ UNCHANGED <<rowVars, alive>>
    BY <1>10 DEF FileDeleted
  <2> HIDE DEF c
  <2> QED  BY <2>1, <2>2, RowsFrame
<1>11. ASSUME NEW d \in deletions, ListWritten(d) PROVE RowsAreRight'
  <2> DEFINE rows == audioTracks[d.user]
  <2>1. d.user \in Users /\ SwipedRow(d) /\ rows \in Seq(Entries) /\ IsInjective(rows)
    BY <1>types, <1>rows DEF RowsAreRight, RowsOf, Deletions
  <2>2. /\ audioTracks' = [audioTracks EXCEPT ![d.user] = RemoveAt(rows, d.row)]
        /\ table' = [table EXCEPT ![d.user] = Len(rows) - 1]
        /\ UNCHANGED <<fetching, tab, alive>>
    BY <1>11, <2>1 DEF ListWritten, RowRemoved, SwipedRow
  <2>3. deletions' = {}
    BY <1>11, WrittenFacts DEF OneDeletion
  <2>4. /\ Len(RemoveAt(rows, d.row)) = Len(rows) - 1 /\ IsInjective(RemoveAt(rows, d.row))
    BY <2>1, RemoveAtFacts DEF SwipedRow
  <2>5. fetching[d.user] = 0
    <3>1. DeletionsOf(d.user) # {}
      BY DEF DeletionsOf
    <3>2. fetching[d.user] \in 0 .. 2 /\ RowsOf(d.user)
      BY <1>types, <1>rows, <2>1
    <3>3. ~(fetching[d.user] > 0)
      BY <3>1, <3>2 DEF RowsOf
    <3> QED  BY <3>2, <3>3
  <2>6. ASSUME NEW v \in Users PROVE RowsOf(v)'
    <3>1. CASE v = d.user
      BY <1>types, <2>2, <2>4, <2>5, <3>1 DEF RowsOf
    <3>2. CASE v # d.user
      <4>1. RowsOf(v) /\ DeletionsOf(v)' = {}
        BY <1>rows, <2>3 DEF DeletionsOf
      <4> QED  BY <1>types, <2>2, <3>2, <4>1 DEF RowsOf
    <3> QED  BY <3>1, <3>2
  <2> QED  BY <2>3, <2>6 DEF RowsAreRight
<1>12. CASE UNCHANGED vars
  BY <1>6, <1>12 DEF vars
<1> QED
  BY <1>1, <1>2, <1>3, <1>4, <1>5, <1>7, <1>8, <1>9, <1>10, <1>11, <1>12 DEF Next

\* If users wait, take turns and swipe what they know to be listed, a deletion
\* that has got its file away removes the row that was swiped from the table
\* and its entry from the list, and the app survives it.
THEOREM SwipesHitTheirRow ==
    {"patient", "fresh", "turns"} \subseteq Habits => (Spec => SwipedRowGoes)
<1> SUFFICES ASSUME Patiently PROVE Spec => SwipedRowGoes
  BY DEF Patiently
<1> DEFINE Hits ==
      \A d \in deletions \ deletions' :
        d.phase = "list" =>
          /\ alive'[d.user]
          /\ audioTracks[d.user][d.row] = d.entry
          /\ d.entry \notin ToSet(list') \union ToSet(audioTracks'[d.user])
<1>1. ASSUME TypeInv, TurnsInv, RowsInv, [Next]_vars PROVE [Hits]_vars
  <2> SUFFICES ASSUME Next, NEW d \in deletions \ deletions', d.phase = "list"
               PROVE  /\ alive'[d.user]
                      /\ audioTracks[d.user][d.row] = d.entry
                      /\ d.entry \notin ToSet(list') \union ToSet(audioTracks'[d.user])
    BY <1>1
  <2>inv. OneDeletion /\ RowsAreRight
    BY <1>1 DEF TurnsInv, RowsInv, RowsAreRight, Patiently
  <2>1. \A c \in deletions : c = d
    BY <2>inv DEF OneDeletion
  <2>2. ListWritten(d)
    <3>1. ASSUME NEW u \in Users, NEW i \in 1 .. table[u], deleteRow(u, i) PROVE FALSE
      BY <1>1, <3>1, SwipeFacts DEF Patiently
    <3>2. ASSUME NEW c \in deletions, FileDeleted(c) PROVE FALSE
      BY <2>1, <3>2 DEF FileDeleted
    <3> QED
      BY <2>1, <3>1, <3>2 DEF Next, confirmTracks, viewWillAppear, refresh, Fetched, FetchFails,
         ClickTrackChanges, PutDone, UrlDone, UploadFails, EntryWritten
  <2> DEFINE rows == audioTracks[d.user]
  <2>3. d.user \in Users /\ SwipedRow(d) /\ rows \in Seq(Entries) /\ IsInjective(rows)
    BY <1>1, <2>inv DEF RowsAreRight, RowsOf, Deletions, TypeInv, TypeOK
  <2>4. /\ audioTracks' = [audioTracks EXCEPT ![d.user] = RemoveAt(rows, d.row)]
        /\ UNCHANGED alive
    BY <2>2, <2>3 DEF ListWritten, RowRemoved, SwipedRow
  <2>5. rows[d.row] \notin ToSet(RemoveAt(rows, d.row)) /\ rows[d.row] = d.entry /\ alive[d.user]
    BY <2>3, RemoveAtFacts DEF SwipedRow
  <2>6. audioTracks'[d.user] = RemoveAt(rows, d.row)
    BY <1>1, <2>3, <2>4 DEF TypeInv, TypeOK
  <2>7. d.entry \notin ToSet(list')
    BY <2>2, <2>inv DEF ListWritten, OneDeletion
  <2> QED  BY <2>4, <2>5, <2>6, <2>7
<1>2. Init => RowsInv
  <2>1. ASSUME Init PROVE RowsInv
    <3>1. IsInjective(<<>>)
      BY DEF IsInjective
    <3> QED  BY <2>1, <3>1 DEF Init, RowsInv, RowsOf
  <2> QED  BY <2>1
<1> QED
  BY <1>1, <1>2, TypeInit, ListInit, TypeStep, NoneTwiceStep, TurnsStep, RowsStep, PTL
     DEF Spec, SwipedRowGoes
=============================================================================
