---------------------------- MODULE AccountsProofs ----------------------------
(* Proofs about Accounts, for every set of devices and names, every number   *)
(* of sessions and of mishaps, all faults, all habits.                          *)
EXTENDS Accounts, SequenceTheorems, FiniteSetTheorems, TLAPS

USE HabitsAssumption, BoundsAssumption

-----------------------------------------------------------------------------
(* The inductive invariants.                                                 *)

Chain == {"check", "save", "remember"}

\* A block waits for the last write of a device only, and the chain of the
\* device for that block; a list is the first write.
QueueOf(d) ==
    \A i \in 1 .. Len(queue[d]) :
      /\ queue[d][i].kind \in {"user", "add"} => queue[d][i].list = {}
      /\ queue[d][i].kind = "list" => i = 1
      /\ queue[d][i].heard =>
           /\ i = Len(queue[d])
           /\ \/ queue[d][i].kind = "add" /\ step[d] = "save"
              \/ queue[d][i].kind \in {"list", "union"} /\ step[d] = "remember"

QueueInv == \A d \in Devices : QueueOf(d)

\* A patient user is logged in on a device where something is under way.
PatientInv ==
    "patient" \in Habits => \A d \in Devices : step[d] \in Chain => login[d]

TypeInv == TypeOK /\ QueueInv /\ PatientInv

-----------------------------------------------------------------------------
(* The queues.                                                               *)

\* What the steps do to the queue of a device: w is added to it, the first write
\* is sent, it is sent and w is written, or nobody listens any more.
Added(d, w) ==
    /\ Len(queue'[d]) = Len(queue[d]) + 1
    /\ \A i \in 1 .. Len(queue[d]) : queue'[d][i] = queue[d][i]
    /\ queue'[d][Len(queue[d]) + 1] = w

Sent(d) ==
    /\ Len(queue'[d]) = Len(queue[d]) - 1
    /\ \A i \in 1 .. Len(queue'[d]) : queue'[d][i] = queue[d][i + 1]

Followed(d, w) ==
    /\ Len(queue[d]) = 1
    /\ Len(queue'[d]) = 1
    /\ queue'[d][1] = w

Unheard(d) ==
    /\ Len(queue'[d]) = Len(queue[d])
    /\ \A i \in 1 .. Len(queue[d]) : queue'[d][i] = [queue[d][i] EXCEPT !.heard = FALSE]

Others(d) == \A e \in Devices \ {d} : queue'[e] = queue[e]

\* Add a write.
LEMMA AddLemma ==
    ASSUME TypeOK, NEW d \in Devices, NEW w \in Writes,
           queue' = [queue EXCEPT ![d] = Append(@, w)]
    PROVE  queue' \in [Devices -> Seq(Writes)] /\ Added(d, w) /\ Others(d)
<1>1. queue \in [Devices -> Seq(Writes)] /\ queue[d] \in Seq(Writes)
  BY DEF TypeOK
<1>2. queue'[d] = Append(queue[d], w) /\ Others(d)
  BY <1>1 DEF Others
<1>3. /\ Append(queue[d], w) \in Seq(Writes)
      /\ Len(Append(queue[d], w)) = Len(queue[d]) + 1
      /\ \A i \in 1 .. Len(queue[d]) : Append(queue[d], w)[i] = queue[d][i]
      /\ Append(queue[d], w)[Len(queue[d]) + 1] = w
  BY <1>1, AppendProperties
<1> QED  BY <1>1, <1>2, <1>3 DEF Added

\* Send the first write.
LEMMA SentLemma ==
    ASSUME TypeOK, NEW d \in Devices, queue[d] # <<>>,
           queue' = [queue EXCEPT ![d] = Tail(@)]
    PROVE  queue' \in [Devices -> Seq(Writes)] /\ Sent(d) /\ Others(d)
<1>1. queue \in [Devices -> Seq(Writes)] /\ queue[d] \in Seq(Writes)
  BY DEF TypeOK
<1>2. queue'[d] = Tail(queue[d]) /\ Others(d)
  BY <1>1 DEF Others
<1> QED  BY <1>1, <1>2, HeadTailProperties DEF Sent

\* The block of a heard write runs when nothing is queued behind it.
LEMMA FollowedLemma ==
    ASSUME TypeOK, NEW d \in Devices, Len(queue[d]) = 1, NEW w \in Writes,
           queue' = [queue EXCEPT ![d] = Append(Tail(@), w)]
    PROVE  queue' \in [Devices -> Seq(Writes)] /\ Followed(d, w) /\ Others(d)
<1>1. queue \in [Devices -> Seq(Writes)] /\ queue[d] \in Seq(Writes) /\ queue[d] # <<>>
  BY DEF TypeOK
<1>2. queue'[d] = Append(Tail(queue[d]), w) /\ Others(d)
  BY <1>1 DEF Others
<1>3. Tail(queue[d]) \in Seq(Writes) /\ Len(Tail(queue[d])) = 0
  BY <1>1, HeadTailProperties
<1>4. /\ Append(Tail(queue[d]), w) \in Seq(Writes)
      /\ Len(Append(Tail(queue[d]), w)) = 1
      /\ Append(Tail(queue[d]), w)[1] = w
  BY <1>3, AppendProperties
<1> QED  BY <1>1, <1>2, <1>4 DEF Followed

\* Lose the blocks of the writes.
LEMMA UnheardLemma ==
    ASSUME TypeOK, NEW d \in Devices,
           queue' = [queue EXCEPT ![d] = [i \in DOMAIN @ |-> [@[i] EXCEPT !.heard = FALSE]]]
    PROVE  queue' \in [Devices -> Seq(Writes)] /\ Unheard(d) /\ Others(d)
<1> DEFINE n == Len(queue[d])
           q == [i \in 1 .. n |-> [queue[d][i] EXCEPT !.heard = FALSE]]
<1>1. queue \in [Devices -> Seq(Writes)] /\ queue[d] \in Seq(Writes)
  BY DEF TypeOK
<1>2. n \in Nat /\ DOMAIN queue[d] = 1 .. n /\ \A i \in 1 .. n : queue[d][i] \in Writes
  BY <1>1, LenProperties, ElementOfSeq
<1>3. \A i \in 1 .. n : [queue[d][i] EXCEPT !.heard = FALSE] \in Writes
  BY <1>2 DEF Writes
<1>4. q \in Seq(Writes) /\ Len(q) = n
  <2>1. q \in [1 .. n -> Writes]
    BY <1>3
  <2>2. q \in Seq(Writes)
    BY <1>2, <2>1, SeqDef
  <2> QED  BY <1>2, <2>1, <2>2, LenProperties
<1>5. queue' = [queue EXCEPT ![d] = q]
  BY <1>2
<1>6. queue'[d] = q /\ Others(d)
  BY <1>1, <1>5 DEF Others
<1>7. queue' \in [Devices -> Seq(Writes)]
  BY <1>1, <1>4, <1>5
<1>8. Unheard(d)
  BY <1>4, <1>6 DEF Unheard
<1> QED  BY <1>6, <1>7, <1>8

\* A write that no block waits for, or the one that the chain of d waits for now.
Asked(d, w) ==
    /\ w \in Writes
    /\ w.kind # "list"
    /\ w.kind \in {"user", "add"} => w.list = {}
    /\ w.heard =>
         \/ w.kind = "add" /\ step'[d] = "save"
         \/ w.kind = "union" /\ step'[d] = "remember"

\* A step of d that leaves the queue alone, or adds a write to it, while d waits
\* for no write.
LEMMA QuietLemma ==
    ASSUME TypeInv, NEW d \in Devices, step[d] \notin {"save", "remember"},
           NEW w,
           \/ queue' = queue
           \/ Asked(d, w) /\ queue' = [queue EXCEPT ![d] = Append(@, w)],
           \A e \in Devices \ {d} : step'[e] = step[e]
    PROVE  queue' \in [Devices -> Seq(Writes)] /\ QueueInv'
<1> USE DEF TypeInv
<1>1. \A e \in Devices : queue[e] \in Seq(Writes) /\ Len(queue[e]) \in Nat
  BY LenProperties DEF TypeOK
<1>2. \A i \in 1 .. Len(queue[d]) : ~queue[d][i].heard
  <2>1. QueueOf(d)
    BY DEF QueueInv
  <2> QED  BY <2>1 DEF QueueOf
<1>3. \A e \in Devices \ {d} : queue'[e] = queue[e] => QueueOf(e)'
  <2> SUFFICES ASSUME NEW e \in Devices \ {d}, queue'[e] = queue[e]
               PROVE  QueueOf(e)'
    OBVIOUS
  <2>1. QueueOf(e)
    BY DEF QueueInv
  <2> QED  BY <2>1 DEF QueueOf
<1>4. QueueOf(d)
  BY DEF QueueInv
<1>5. CASE queue' = queue
  <2>1. QueueOf(d)'
    BY <1>2, <1>4, <1>5 DEF QueueOf
  <2> QED  BY <1>3, <1>5, <2>1 DEF QueueInv, TypeOK
<1>6. CASE Asked(d, w) /\ queue' = [queue EXCEPT ![d] = Append(@, w)]
  <2>1. queue' \in [Devices -> Seq(Writes)] /\ Added(d, w) /\ Others(d)
    BY <1>6, AddLemma DEF Asked
  <2>2. QueueOf(d)'
    <3> SUFFICES ASSUME NEW i \in 1 .. Len(queue'[d])
                 PROVE  /\ queue'[d][i].kind \in {"user", "add"} => queue'[d][i].list = {}
                        /\ queue'[d][i].kind = "list" => i = 1
                        /\ queue'[d][i].heard =>
                             /\ i = Len(queue'[d])
                             /\ \/ queue'[d][i].kind = "add" /\ step'[d] = "save"
                                \/ /\ queue'[d][i].kind \in {"list", "union"}
                                   /\ step'[d] = "remember"
      BY DEF QueueOf
    <3>1. CASE i = Len(queue[d]) + 1
      BY <1>6, <2>1, <3>1 DEF Added, Asked
    <3>2. CASE i # Len(queue[d]) + 1
      <4>1. i \in 1 .. Len(queue[d])
        BY <1>1, <2>1, <3>2 DEF Added
      <4>2. queue'[d][i] = queue[d][i]
        BY <2>1, <4>1 DEF Added
      <4> QED  BY <1>2, <1>4, <4>1, <4>2 DEF QueueOf
    <3> QED  BY <3>1, <3>2
  <2> QED  BY <1>3, <2>1, <2>2 DEF QueueInv, Others
<1> QED  BY <1>5, <1>6

\* The four things that hearing of the first write of d does.
Unnoticed(d) ==
    /\ ~queue[d][1].heard
    /\ Sent(d)
    /\ defaults' = defaults
    /\ step' = step

AddHeard(d) ==
    /\ queue[d][1].heard
    /\ queue[d][1].kind = "add"
    /\ step[d] = "save"
    /\ Followed(d, Written("list", queue[d][1].session, Remembered(d, queue[d][1].session)))
    /\ defaults' = defaults
    /\ step' = [step EXCEPT ![d] = "remember"]

ListHeard(d) ==
    /\ queue[d][1].heard
    /\ queue[d][1].kind = "list"
    /\ step[d] = "remember"
    /\ Sent(d)
    /\ Len(queue[d]) = 1
    /\ defaults' = [defaults EXCEPT ![d] = queue[d][1].list]
    /\ step' = [step EXCEPT ![d] = "no"]

UnionHeard(d) ==
    /\ queue[d][1].heard
    /\ queue[d][1].kind = "union"
    /\ step[d] = "remember"
    /\ Sent(d)
    /\ Len(queue[d]) = 1
    /\ \/ defaults' = [defaults EXCEPT ![d] = defaults[d] \union queue[d][1].list]
       \/ defaults' = [defaults EXCEPT ![d] = {}]
    /\ step' = [step EXCEPT ![d] = "no"]

\* What the acknowledgement of the first write of a device does.
LEMMA CommitLemma ==
    ASSUME TypeInv, NEW d \in Devices, Commit(d)
    PROVE  /\ queue[d] \in Seq(Writes) /\ Len(queue[d]) \in Nat /\ Len(queue[d]) >= 1
           /\ queue[d][1] \in Writes
           /\ queue[d][1].kind \in {"user", "add", "list", "union"}
           /\ queue' \in [Devices -> Seq(Writes)]
           /\ Others(d)
           /\ userDocuments' =
                userDocuments + (IF queue[d][1].kind = "user" THEN 1 ELSE 0)
           /\ documents' =
                IF queue[d][1].kind = "add" THEN documents \union {queue[d][1].session}
                                            ELSE documents
           /\ queue[d][1].kind \in {"user", "add"} => joinedSessions' = joinedSessions
           /\ queue[d][1].kind = "list" => joinedSessions' = queue[d][1].list
           /\ queue[d][1].kind = "union" =>
                joinedSessions' = joinedSessions \union queue[d][1].list
           /\ Unnoticed(d) \/ AddHeard(d) \/ ListHeard(d) \/ UnionHeard(d)
           /\ UNCHANGED <<account, count, name, login, draft, mishaps>>
<1> DEFINE w == queue[d][1]
<1>1. queue \in [Devices -> Seq(Writes)] /\ queue[d] \in Seq(Writes) /\ queue[d] # <<>>
  BY DEF TypeInv, TypeOK, Commit
<1>2. Len(queue[d]) \in Nat /\ Len(queue[d]) >= 1
  BY <1>1, EmptySeq, LenProperties
<1>3. w \in Writes /\ Head(queue[d]) = w
  BY <1>1, <1>2, ElementOfSeq
<1>4. w.kind \in {"user", "add", "list", "union"} /\ w.session \in Sessions
  BY <1>3 DEF Writes
<1>5. w.heard =>
        /\ Len(queue[d]) = 1
        /\ \/ w.kind = "add" /\ step[d] = "save"
           \/ w.kind \in {"list", "union"} /\ step[d] = "remember"
  <2>1. QueueOf(d) /\ 1 \in 1 .. Len(queue[d])
    BY <1>2 DEF TypeInv, QueueInv
  <2> QED  BY <2>1 DEF QueueOf
<1>6. /\ userDocuments' = userDocuments + (IF w.kind = "user" THEN 1 ELSE 0)
      /\ documents' = IF w.kind = "add" THEN documents \union {w.session} ELSE documents
      /\ joinedSessions' =
           CASE w.kind \in {"user", "add"} -> joinedSessions
             [] w.kind = "list" -> w.list
             [] w.kind = "union" -> joinedSessions \union w.list
      /\ Hear(d, w)
      /\ UNCHANGED <<account, count, name, login, draft, mishaps>>
  BY <1>3 DEF Commit
<1>7. /\ w.kind \in {"user", "add"} => joinedSessions' = joinedSessions
      /\ w.kind = "list" => joinedSessions' = w.list
      /\ w.kind = "union" => joinedSessions' = joinedSessions \union w.list
  BY <1>6
<1>8. /\ queue' \in [Devices -> Seq(Writes)]
      /\ Others(d)
      /\ Unnoticed(d) \/ AddHeard(d) \/ ListHeard(d) \/ UnionHeard(d)
  <2>0. TypeOK
    BY DEF TypeInv
  <2>1. CASE ~w.heard
    <3>1. queue' = [queue EXCEPT ![d] = Tail(@)] /\ defaults' = defaults /\ step' = step
      BY <1>6, <2>1 DEF Hear
    <3> QED  BY <1>1, <2>0, <2>1, <3>1, SentLemma DEF Unnoticed
  <2>2. CASE w.heard /\ w.kind = "add"
    <3> DEFINE v == Written("list", w.session, Remembered(d, w.session))
    <3>1. /\ queue' = [queue EXCEPT ![d] = Append(Tail(@), v)]
          /\ step' = [step EXCEPT ![d] = "remember"]
          /\ defaults' = defaults
      BY <1>6, <2>2 DEF Hear
    <3>2. v \in Writes
      BY <1>4, <2>0 DEF Writes, Written, Remembered, TypeOK
    <3>3. queue' \in [Devices -> Seq(Writes)] /\ Followed(d, v) /\ Others(d)
      <4> HIDE DEF v
      <4> QED  BY <1>5, <2>0, <2>2, <3>1, <3>2, FollowedLemma
    <3> QED  BY <1>5, <2>2, <3>1, <3>3 DEF AddHeard
  <2>3. CASE w.heard /\ w.kind = "list"
    <3>1. /\ queue' = [queue EXCEPT ![d] = Tail(@)]
          /\ defaults' = [defaults EXCEPT ![d] = w.list]
          /\ step' = [step EXCEPT ![d] = "no"]
      BY <1>6, <2>3 DEF Hear
    <3>2. queue' \in [Devices -> Seq(Writes)] /\ Sent(d) /\ Others(d)
      BY <1>1, <2>0, <3>1, SentLemma
    <3> QED  BY <1>5, <2>3, <3>1, <3>2 DEF ListHeard
  <2>4. CASE w.heard /\ w.kind = "union"
    <3>1. /\ queue' = [queue EXCEPT ![d] = Tail(@)]
          /\ \/ defaults' = [defaults EXCEPT ![d] = defaults[d] \union w.list]
             \/ defaults' = [defaults EXCEPT ![d] = {}]
          /\ step' = [step EXCEPT ![d] = "no"]
      BY <1>6, <2>4 DEF Hear
    <3>2. queue' \in [Devices -> Seq(Writes)] /\ Sent(d) /\ Others(d)
      BY <1>1, <2>0, <3>1, SentLemma
    <3> QED  BY <1>5, <2>4, <3>1, <3>2 DEF UnionHeard
  <2> QED  BY <1>5, <2>1, <2>2, <2>3, <2>4
<1> QED  BY <1>1, <1>2, <1>3, <1>4, <1>6, <1>7, <1>8

\* Commit and Crash keep the queues as they should be.
LEMMA SendingLemma ==
    ASSUME TypeInv, NEW d \in Devices, Commit(d) \/ Crash(d)
    PROVE  queue' \in [Devices -> Seq(Writes)] /\ QueueInv'
<1> USE DEF TypeInv
<1>1. QueueOf(d) /\ queue[d] \in Seq(Writes) /\ Len(queue[d]) \in Nat
  BY LenProperties DEF QueueInv, TypeOK
<1>2. step \in [Devices -> {"no", "account", "made", "check", "save", "remember"}]
  BY DEF TypeOK
<1>3. \A e \in Devices \ {d} : Others(d) /\ step'[e] = step[e] => QueueOf(e)'
  <2> SUFFICES ASSUME NEW e \in Devices \ {d}, Others(d), step'[e] = step[e]
               PROVE  QueueOf(e)'
    OBVIOUS
  <2>1. QueueOf(e) /\ queue'[e] = queue[e]
    BY DEF QueueInv, Others
  <2> QED  BY <2>1 DEF QueueOf
<1>4. CASE Commit(d)
  <2>1. /\ queue' \in [Devices -> Seq(Writes)]
        /\ Others(d)
        /\ Unnoticed(d) \/ AddHeard(d) \/ ListHeard(d) \/ UnionHeard(d)
    BY <1>4, CommitLemma
  <2>2. \A e \in Devices \ {d} : step'[e] = step[e]
    BY <1>2, <2>1 DEF Unnoticed, AddHeard, ListHeard, UnionHeard
  <2>3. QueueOf(d)'
    <3>1. CASE Unnoticed(d)
      <4>1. \A i \in 1 .. Len(queue'[d]) :
               /\ i + 1 \in 1 .. Len(queue[d]) /\ i + 1 # 1
               /\ i + 1 = Len(queue[d]) <=> i = Len(queue'[d])
               /\ queue'[d][i] = queue[d][i + 1]
        BY <1>1, <3>1 DEF Unnoticed, Sent
      <4> QED  BY <1>1, <3>1, <4>1 DEF QueueOf, Unnoticed
    <3>2. CASE AddHeard(d)
      <4>1. step'[d] = "remember"
        BY <1>2, <3>2 DEF AddHeard
      <4> QED  BY <3>2, <4>1 DEF QueueOf, AddHeard, Followed, Written
    <3>3. CASE ListHeard(d) \/ UnionHeard(d)
      <4>1. Len(queue'[d]) = 0
        BY <3>3 DEF ListHeard, UnionHeard, Sent
      <4> QED  BY <4>1 DEF QueueOf
    <3> QED  BY <2>1, <3>1, <3>2, <3>3
  <2> QED  BY <1>3, <2>1, <2>2, <2>3 DEF QueueInv
<1>5. CASE Crash(d)
  <2>1. queue' \in [Devices -> Seq(Writes)] /\ Unheard(d) /\ Others(d)
    BY <1>5, UnheardLemma DEF Crash
  <2>2. \A e \in Devices \ {d} : step'[e] = step[e]
    BY <1>2, <1>5 DEF Crash
  <2>3. \A i \in 1 .. Len(queue[d]) : queue[d][i] \in Writes
    BY <1>1, ElementOfSeq
  <2>4. QueueOf(d)'
    <3>1. \A i \in 1 .. Len(queue'[d]) :
             /\ i \in 1 .. Len(queue[d])
             /\ queue'[d][i].kind = queue[d][i].kind
             /\ queue'[d][i].list = queue[d][i].list
             /\ ~queue'[d][i].heard
      <4> SUFFICES ASSUME NEW i \in 1 .. Len(queue'[d])
                   PROVE  /\ i \in 1 .. Len(queue[d])
                          /\ queue'[d][i].kind = queue[d][i].kind
                          /\ queue'[d][i].list = queue[d][i].list
                          /\ ~queue'[d][i].heard
        OBVIOUS
      <4>1. i \in 1 .. Len(queue[d])
        BY <2>1 DEF Unheard
      <4>2. queue[d][i] \in Writes /\ queue'[d][i] = [queue[d][i] EXCEPT !.heard = FALSE]
        BY <2>1, <2>3, <4>1 DEF Unheard
      <4> QED  BY <4>1, <4>2 DEF Writes
    <3> QED  BY <1>1, <3>1 DEF QueueOf
  <2> QED  BY <1>3, <2>1, <2>2, <2>4 DEF QueueInv
<1> QED  BY <1>4, <1>5

-----------------------------------------------------------------------------
(* Type correctness.                                                         *)

\* Nothing is queued at first.
LEMMA InitType ==
    ASSUME Init
    PROVE  TypeInv
<1>1. \A d \in Devices : Len(queue[d]) = 0
  BY EmptySeq DEF Init
<1>2. TypeOK
  <2>1. <<>> \in Seq(Writes)
    BY EmptySeq
  <2>2. queue \in [Devices -> Seq(Writes)]
    BY <2>1 DEF Init
  <2>3. count \in NumOthers .. MaxSessions /\ mishaps \in 0 .. MaxMishaps
    BY DEF Init
  <2>4. name \in [Sessions -> Names] /\ draft \in [Devices -> Names]
    BY DEF Init
  <2> QED  BY <2>2, <2>3, <2>4 DEF Init, TypeOK
<1>3. QueueInv
  BY <1>1 DEF QueueInv, QueueOf
<1>4. PatientInv
  BY DEF Init, PatientInv, Chain
<1> QED  BY <1>2, <1>3, <1>4 DEF TypeInv

\* Every action of a device keeps the types, and the queues in order.
LEMMA TypeStep ==
    ASSUME TypeInv, [Next]_vars
    PROVE  TypeInv'
<1> USE DEF TypeInv
<1>1. CASE UNCHANGED vars
  <2>1. TypeOK'
    BY <1>1 DEF TypeOK, vars, userVars, docVars
  <2>2. QueueInv' /\ PatientInv'
    BY <1>1 DEF QueueInv, QueueOf, PatientInv, vars
  <2> QED  BY <2>1, <2>2
<1>2. ASSUME NEW d \in Devices,
             createAccount(d) \/ AccountRefused(d) \/ CreateFails(d)
      PROVE  TypeInv'
  <2>1. queue' = queue /\ step[d] \notin {"save", "remember"}
        /\ \A e \in Devices \ {d} : step'[e] = step[e]
    BY <1>2 DEF TypeOK, createAccount, AccountRefused, CreateFails
  <2>2. queue' \in [Devices -> Seq(Writes)] /\ QueueInv'
    BY <2>1, QuietLemma
  <2>3. TypeOK'
    BY <1>2, <2>2 DEF TypeOK, createAccount, AccountRefused, CreateFails, userVars, docVars
  <2>4. PatientInv'
    BY <1>2 DEF TypeOK, PatientInv, Chain, createAccount, AccountRefused, CreateFails
  <2> QED  BY <2>2, <2>3, <2>4
<1>3. ASSUME NEW d \in Devices, AccountMade(d) \/ AccountLost(d)
      PROVE  TypeInv'
  <2>1. queue' = queue /\ step[d] \notin {"save", "remember"}
        /\ \A e \in Devices \ {d} : step'[e] = step[e]
    BY <1>3 DEF TypeOK, AccountMade, AccountLost
  <2>2. queue' \in [Devices -> Seq(Writes)] /\ QueueInv'
    BY <2>1, QuietLemma
  <2>3. TypeOK'
    <3>1. CASE AccountMade(d)
      BY <2>2, <3>1 DEF TypeOK, AccountMade, docVars
    <3>2. CASE AccountLost(d)
      <4>1. mishaps' \in 0 .. MaxMishaps
        BY <3>2 DEF TypeOK, AccountLost
      <4> QED  BY <2>2, <3>2, <4>1 DEF TypeOK, AccountLost, userVars, docVars
    <3> QED  BY <1>3, <3>1, <3>2
  <2>4. PatientInv'
    BY <1>3 DEF TypeOK, PatientInv, Chain, AccountMade, AccountLost
  <2> QED  BY <2>2, <2>3, <2>4
<1>4. ASSUME NEW d \in Devices, AccountHeard(d)
      PROVE  TypeInv'
  <2> DEFINE w == [kind |-> "user", session |-> 1, list |-> {}, heard |-> FALSE]
  <2>1. /\ queue' = [queue EXCEPT ![d] = Append(@, w)]
        /\ step[d] \notin {"save", "remember"}
        /\ \A e \in Devices \ {d} : step'[e] = step[e]
    BY <1>4 DEF TypeOK, AccountHeard, addUser
  <2>2. Asked(d, w)
    <3>1. 1 \in Sessions
      BY DEF Sessions
    <3> QED  BY <3>1 DEF Asked, Writes
  <2>3. queue' \in [Devices -> Seq(Writes)] /\ QueueInv'
    <3> HIDE DEF w
    <3> QED  BY <2>1, <2>2, QuietLemma
  <2>4. TypeOK'
    BY <1>4, <2>3 DEF TypeOK, AccountHeard, userVars, docVars
  <2>5. PatientInv'
    BY <1>4 DEF TypeOK, PatientInv, Chain, AccountHeard
  <2> QED  BY <2>3, <2>4, <2>5
<1>5. ASSUME NEW d \in Devices, NEW n \in Names, createNewSession(d, n)
      PROVE  TypeInv'
  <2>1. queue' = queue /\ step[d] \notin {"save", "remember"}
        /\ \A e \in Devices \ {d} : step'[e] = step[e]
    BY <1>5 DEF TypeOK, createNewSession, MayStart
  <2>2. queue' \in [Devices -> Seq(Writes)] /\ QueueInv'
    BY <2>1, QuietLemma
  <2>3. TypeOK'
    BY <1>5, <2>2 DEF TypeOK, createNewSession, userVars, docVars
  <2>4. PatientInv'
    BY <1>5 DEF TypeOK, PatientInv, Chain, createNewSession, MayStart
  <2> QED  BY <2>2, <2>3, <2>4
<1>6. ASSUME NEW d \in Devices, saveSession(d)
      PROVE  TypeInv'
  <2> DEFINE w == Written("add", count + 1, {})
  <2>1. /\ queue' = [queue EXCEPT ![d] = Append(@, w)]
        /\ step[d] \notin {"save", "remember"}
        /\ step'[d] = "save"
        /\ \A e \in Devices \ {d} : step'[e] = step[e]
    BY <1>6 DEF TypeOK, saveSession
  <2>2. count + 1 \in Sessions /\ count' = count + 1 /\ count' \in NumOthers .. MaxSessions
    BY <1>6 DEF saveSession, TypeOK, Sessions
  <2>3. Asked(d, w)
    BY <2>1, <2>2 DEF Asked, Written, Writes
  <2>4. queue' \in [Devices -> Seq(Writes)] /\ QueueInv'
    <3> HIDE DEF w
    <3> QED  BY <2>1, <2>3, QuietLemma
  <2>5. TypeOK'
    BY <1>6, <2>2, <2>4 DEF TypeOK, saveSession, userVars, docVars
  <2>6. PatientInv'
    BY <1>6 DEF TypeOK, PatientInv, Chain, saveSession
  <2> QED  BY <2>4, <2>5, <2>6
<1>7. ASSUME NEW d \in Devices, NEW s \in Sessions, joinSession(d, s)
      PROVE  TypeInv'
  <2> DEFINE w == Written("union", s, {s})
  <2>1. /\ queue' = [queue EXCEPT ![d] = Append(@, w)]
        /\ step[d] \notin {"save", "remember"}
        /\ step'[d] = "remember"
        /\ \A e \in Devices \ {d} : step'[e] = step[e]
    BY <1>7 DEF TypeOK, joinSession, MayStart
  <2>2. Asked(d, w)
    BY <2>1 DEF Asked, Written, Writes
  <2>3. queue' \in [Devices -> Seq(Writes)] /\ QueueInv'
    <3> HIDE DEF w
    <3> QED  BY <2>1, <2>2, QuietLemma
  <2>4. TypeOK'
    BY <1>7, <2>3 DEF TypeOK, joinSession, userVars, docVars
  <2>5. PatientInv'
    BY <1>7 DEF TypeOK, PatientInv, Chain, joinSession, MayStart
  <2> QED  BY <2>3, <2>4, <2>5
<1>8. ASSUME NEW d \in Devices, LogIn(d) \/ logOut(d)
      PROVE  TypeInv'
  <2>1. queue' = queue /\ step' = step /\ QueueInv'
    BY <1>8 DEF QueueInv, QueueOf, LogIn, logOut
  <2>2. Seen(d) \subseteq Sessions
    BY DEF Seen
  <2>3. TypeOK'
    <3>1. CASE LogIn(d)
      BY <2>1, <2>2, <3>1 DEF TypeOK, LogIn, userVars, docVars
    <3>2. CASE logOut(d)
      BY <2>1, <3>2 DEF TypeOK, logOut, userVars, docVars
    <3> QED  BY <1>8, <3>1, <3>2
  <2>4. PatientInv'
    BY <1>8, <2>1 DEF TypeOK, PatientInv, Chain, LogIn, logOut
  <2> QED  BY <2>1, <2>3, <2>4
<1>9. ASSUME NEW d \in Devices, Commit(d)
      PROVE  TypeInv'
  <2> DEFINE w == queue[d][1]
  <2>1. w.session \in Sessions /\ w.list \subseteq Sessions
    BY <1>9, CommitLemma DEF Writes
  <2>2. queue' \in [Devices -> Seq(Writes)] /\ QueueInv'
    BY <1>9, SendingLemma
  <2>3. /\ userDocuments' \in Nat
        /\ documents' \subseteq Sessions
        /\ joinedSessions' \subseteq Sessions
    <3>1. /\ w.kind \in {"user", "add", "list", "union"}
          /\ userDocuments' = userDocuments + (IF w.kind = "user" THEN 1 ELSE 0)
          /\ documents' = IF w.kind = "add" THEN documents \union {w.session} ELSE documents
          /\ w.kind \in {"user", "add"} => joinedSessions' = joinedSessions
          /\ w.kind = "list" => joinedSessions' = w.list
          /\ w.kind = "union" => joinedSessions' = joinedSessions \union w.list
      BY <1>9, CommitLemma
    <3> HIDE DEF w
    <3>2. userDocuments' \in Nat
      BY <3>1 DEF TypeOK
    <3>3. documents' \subseteq Sessions
      BY <2>1, <3>1 DEF TypeOK
    <3>4. joinedSessions' \subseteq Sessions
      BY <2>1, <3>1 DEF TypeOK
    <3> QED  BY <3>2, <3>3, <3>4
  <2>4. /\ UNCHANGED <<account, count, name, login, draft, mishaps>>
        /\ Unnoticed(d) \/ AddHeard(d) \/ ListHeard(d) \/ UnionHeard(d)
    BY <1>9, CommitLemma
  <2>5. /\ step' \in [Devices -> {"no", "account", "made", "check", "save", "remember"}]
        /\ defaults' \in [Devices -> SUBSET Sessions]
        /\ \A e \in Devices \ {d} : step'[e] = step[e] /\ defaults'[e] = defaults[e]
        /\ \/ step'[d] = step[d] /\ defaults'[d] = defaults[d]
           \/ step[d] = "save" /\ defaults'[d] = defaults[d]
           \/ step[d] = "remember" /\ step'[d] = "no"
    <3>0. /\ step \in [Devices -> {"no", "account", "made", "check", "save", "remember"}]
          /\ defaults \in [Devices -> SUBSET Sessions]
      BY DEF TypeOK
    <3>1. CASE Unnoticed(d)
      BY <3>0, <3>1 DEF Unnoticed
    <3>2. CASE AddHeard(d)
      BY <3>0, <3>2 DEF AddHeard
    <3>3. CASE ListHeard(d)
      BY <2>1, <3>0, <3>3 DEF ListHeard
    <3>4. CASE UnionHeard(d)
      BY <2>1, <3>0, <3>4 DEF UnionHeard
    <3> QED  BY <2>4, <3>1, <3>2, <3>3, <3>4
  <2>6. TypeOK'
    <3>1. \A e \in Devices : "patient" \in Habits /\ ~login'[e] => defaults'[e] = {}
      BY <2>4, <2>5 DEF TypeOK, PatientInv, Chain
    <3> QED  BY <2>2, <2>3, <2>4, <2>5, <3>1 DEF TypeOK
  <2>7. PatientInv'
    BY <2>4, <2>5 DEF PatientInv, Chain
  <2> QED  BY <2>2, <2>6, <2>7
<1>10. ASSUME NEW d \in Devices, Crash(d)
       PROVE  TypeInv'
  <2>1. queue' \in [Devices -> Seq(Writes)] /\ QueueInv'
    BY <1>10, SendingLemma
  <2>2. TypeOK'
    BY <1>10, <2>1 DEF TypeOK, Crash, userVars, docVars
  <2>3. PatientInv'
    BY <1>10 DEF TypeOK, PatientInv, Chain, Crash
  <2> QED  BY <2>1, <2>2, <2>3
<1> QED
  BY <1>1, <1>2, <1>3, <1>4, <1>5, <1>6, <1>7, <1>8, <1>9, <1>10 DEF Next

\* The invariant that every other one stands on.
LEMMA TypeInvariant == Spec => []TypeInv
<1> QED  BY InitType, TypeStep, PTL DEF Spec

\* Type correctness; a device that is logged out remembers no sessions.
THEOREM TypeCorrect == Spec => []TypeOK
<1>1. TypeInv => TypeOK
  BY DEF TypeInv
<1> QED  BY <1>1, TypeInvariant, PTL

-----------------------------------------------------------------------------
(* The sessions that are created, and their names.                           *)

UserWrite == [kind |-> "user", session |-> 1, list |-> {}, heard |-> FALSE]

\* What the steps other than Commit do to the queues.
LEMMA QueueLemma ==
    ASSUME TypeInv, NEW d \in Devices
    PROVE  /\ AccountHeard(d) => Added(d, UserWrite) /\ Others(d)
           /\ saveSession(d) =>
                /\ Added(d, Written("add", count + 1, {})) /\ Others(d)
                /\ count + 1 \in Sessions
           /\ \A s \in Sessions :
                joinSession(d, s) => Added(d, Written("union", s, {s})) /\ Others(d)
           /\ Crash(d) => Unheard(d) /\ Others(d)
<1>0. TypeOK /\ 1 \in Sessions
  BY DEF TypeInv, Sessions
<1>1. ASSUME AccountHeard(d)
      PROVE  Added(d, UserWrite) /\ Others(d)
  <2>1. UserWrite \in Writes
    BY <1>0 DEF UserWrite, Writes
  <2>2. queue' = [queue EXCEPT ![d] = Append(@, UserWrite)]
    BY <1>1 DEF AccountHeard, addUser, UserWrite
  <2> QED  BY <1>0, <2>1, <2>2, AddLemma
<1>2. ASSUME saveSession(d)
      PROVE  /\ Added(d, Written("add", count + 1, {})) /\ Others(d)
             /\ count + 1 \in Sessions
  <2> DEFINE w == Written("add", count + 1, {})
  <2>1. count + 1 \in Sessions
    BY <1>0, <1>2 DEF saveSession, TypeOK, Sessions
  <2>2. w \in Writes
    BY <2>1 DEF Writes, Written
  <2>3. queue' = [queue EXCEPT ![d] = Append(@, w)]
    BY <1>2 DEF saveSession
  <2> HIDE DEF w
  <2>4. Added(d, w) /\ Others(d)
    BY <1>0, <2>2, <2>3, AddLemma
  <2> QED  BY <2>1, <2>4 DEF w
<1>3. ASSUME NEW s \in Sessions, joinSession(d, s)
      PROVE  Added(d, Written("union", s, {s})) /\ Others(d)
  <2> DEFINE w == Written("union", s, {s})
  <2>1. w \in Writes
    BY DEF Writes, Written
  <2>2. queue' = [queue EXCEPT ![d] = Append(@, w)]
    BY <1>3 DEF joinSession
  <2> HIDE DEF w
  <2>3. Added(d, w) /\ Others(d)
    BY <1>0, <2>1, <2>2, AddLemma
  <2> QED  BY <2>3 DEF w
<1>4. ASSUME Crash(d)
      PROVE  Unheard(d) /\ Others(d)
  BY <1>0, <1>4, UnheardLemma DEF Crash
<1> QED  BY <1>1, <1>2, <1>3, <1>4

\* The i-th write of d adds a session.
IsAdd(d, i) == i \in 1 .. Len(queue[d]) /\ queue[d][i].kind = "add"

\* A session that is being added has no document, and is added once.
SessionInv ==
    /\ documents \subseteq (NumOthers + 1) .. count
    /\ \A d \in Devices, i \in Nat :
         IsAdd(d, i) => queue[d][i].session \in ((NumOthers + 1) .. count) \ documents
    /\ \A d, e \in Devices, i, j \in Nat :
         /\ IsAdd(d, i) /\ IsAdd(e, j)
         /\ queue[d][i].session = queue[e][j].session
         => d = e /\ i = j

\* A step of d that sends nothing and creates no session leaves those that are
\* being added where they are.
LEMMA KeptAdds ==
    ASSUME TypeInv, NEW d \in Devices,
           \/ queue' = queue
           \/ Crash(d)
           \/ AccountHeard(d)
           \/ \E s \in Sessions : joinSession(d, s)
    PROVE  /\ Others(d)
           /\ \A i \in Nat : IsAdd(d, i)' =>
                IsAdd(d, i) /\ queue'[d][i].session = queue[d][i].session
<1>1. queue[d] \in Seq(Writes) /\ Len(queue[d]) \in Nat
  BY LenProperties DEF TypeInv, TypeOK
<1>2. CASE queue' = queue
  BY <1>2 DEF IsAdd, Others
<1>3. CASE Crash(d)
  <2>1. Unheard(d) /\ Others(d)
    BY <1>3, QueueLemma
  <2>2. \A i \in 1 .. Len(queue[d]) : queue[d][i] \in Writes
    BY <1>1, ElementOfSeq
  <2>3. \A i \in 1 .. Len(queue[d]) :
           /\ queue'[d][i].kind = queue[d][i].kind
           /\ queue'[d][i].session = queue[d][i].session
    <3> SUFFICES ASSUME NEW i \in 1 .. Len(queue[d])
                 PROVE  /\ queue'[d][i].kind = queue[d][i].kind
                        /\ queue'[d][i].session = queue[d][i].session
      OBVIOUS
    <3>1. queue[d][i] \in Writes /\ queue'[d][i] = [queue[d][i] EXCEPT !.heard = FALSE]
      BY <2>1, <2>2 DEF Unheard
    <3> QED  BY <3>1 DEF Writes
  <2> QED  BY <2>1, <2>3 DEF IsAdd, Unheard
<1>4. ASSUME NEW w, w.kind # "add", Added(d, w), Others(d)
      PROVE  \A i \in Nat : IsAdd(d, i)' =>
                IsAdd(d, i) /\ queue'[d][i].session = queue[d][i].session
  <2> SUFFICES ASSUME NEW i \in Nat, IsAdd(d, i)'
               PROVE  IsAdd(d, i) /\ queue'[d][i].session = queue[d][i].session
    OBVIOUS
  <2>1. i # Len(queue[d]) + 1
    BY <1>4 DEF Added, IsAdd
  <2>2. i \in 1 .. Len(queue[d])
    BY <1>1, <1>4, <2>1 DEF Added, IsAdd
  <2> QED  BY <1>4, <2>2 DEF Added, IsAdd
<1>5. CASE AccountHeard(d)
  <2>1. Added(d, UserWrite) /\ Others(d) /\ UserWrite.kind # "add"
    BY <1>5, QueueLemma DEF UserWrite
  <2> QED  BY <1>4, <2>1
<1>6. CASE \E s \in Sessions : joinSession(d, s)
  <2>1. PICK s \in Sessions : joinSession(d, s)
    BY <1>6
  <2> DEFINE w == Written("union", s, {s})
  <2>2. w.kind # "add"
    BY DEF Written
  <2>3. Added(d, w) /\ Others(d)
    BY <2>1, QueueLemma
  <2> HIDE DEF w
  <2> QED  BY <1>4, <2>2, <2>3
<1> QED  BY <1>2, <1>3, <1>5, <1>6

\* A commit moves them up.
LEMMA SentAdds ==
    ASSUME TypeInv, NEW d \in Devices, Commit(d)
    PROVE  /\ Others(d)
           /\ \A i \in Nat : IsAdd(d, i)' =>
                /\ i # 0
                /\ IsAdd(d, i + 1)
                /\ queue'[d][i].session = queue[d][i + 1].session
<1>1. queue[d] \in Seq(Writes) /\ Len(queue[d]) \in Nat
  BY LenProperties DEF TypeInv, TypeOK
<1>2. Others(d) /\ (Unnoticed(d) \/ AddHeard(d) \/ ListHeard(d) \/ UnionHeard(d))
  BY CommitLemma
<1>3. CASE AddHeard(d)
  BY <1>2, <1>3 DEF AddHeard, Followed, Written, IsAdd
<1>4. CASE Sent(d)
  BY <1>1, <1>2, <1>4 DEF Sent, IsAdd
<1> QED  BY <1>2, <1>3, <1>4 DEF Unnoticed, ListHeard, UnionHeard

\* A new session has a number that none had; a session moves to the documents
\* when the write that adds it leaves the queue.
LEMMA SessionStep ==
    ASSUME TypeInv, SessionInv, [Next]_vars
    PROVE  SessionInv'
<1>0. /\ documents \subseteq (NumOthers + 1) .. count
      /\ count \in Nat /\ NumOthers \in Nat
      /\ \A d \in Devices, i \in Nat :
           IsAdd(d, i) => queue[d][i].session \in ((NumOthers + 1) .. count) \ documents
      /\ \A d, e \in Devices, i, j \in Nat :
           /\ IsAdd(d, i) /\ IsAdd(e, j)
           /\ queue[d][i].session = queue[e][j].session
           => d = e /\ i = j
  BY DEF SessionInv, TypeInv, TypeOK
<1>1. CASE UNCHANGED vars
  BY <1>1 DEF SessionInv, IsAdd, vars, docVars
<1>2. ASSUME NEW d \in Devices,
             \/ createAccount(d) \/ AccountMade(d) \/ AccountRefused(d)
             \/ AccountHeard(d) \/ AccountLost(d)
             \/ \E n \in Names : createNewSession(d, n)
             \/ CreateFails(d) \/ LogIn(d) \/ logOut(d) \/ Crash(d)
             \/ \E s \in Sessions : joinSession(d, s)
      PROVE  SessionInv'
  <2>1. /\ documents' = documents /\ count' = count
        /\ \/ queue' = queue
           \/ Crash(d)
           \/ AccountHeard(d)
           \/ \E s \in Sessions : joinSession(d, s)
    BY <1>2 DEF createAccount, AccountMade, AccountRefused, AccountHeard, AccountLost,
                createNewSession, CreateFails, LogIn, logOut, Crash, joinSession, docVars
  <2>2. \A e \in Devices, i \in Nat : IsAdd(e, i)' =>
           IsAdd(e, i) /\ queue'[e][i].session = queue[e][i].session
    BY <2>1, KeptAdds DEF Others, IsAdd
  <2> QED  BY <1>0, <2>1, <2>2 DEF SessionInv
<1>3. ASSUME NEW d \in Devices, saveSession(d)
      PROVE  SessionInv'
  <2> DEFINE w == Written("add", count + 1, {})
  <2>1. /\ documents' = documents /\ count' = count + 1
        /\ Added(d, w) /\ Others(d)
    BY <1>3, QueueLemma DEF saveSession, docVars
  <2>2. w.session = count + 1
    BY DEF Written
  <2>3. Len(queue[d]) \in Nat
    BY LenProperties DEF TypeInv, TypeOK
  <2> HIDE DEF w
  <2>4. \A e \in Devices, i \in Nat : IsAdd(e, i)' =>
           \/ IsAdd(e, i) /\ queue'[e][i].session = queue[e][i].session
           \/ /\ e = d /\ i = Len(queue[d]) + 1
              /\ queue'[e][i].session = count + 1
    <3> SUFFICES ASSUME NEW e \in Devices, NEW i \in Nat, IsAdd(e, i)'
                 PROVE  \/ IsAdd(e, i) /\ queue'[e][i].session = queue[e][i].session
                        \/ /\ e = d /\ i = Len(queue[d]) + 1
                           /\ queue'[e][i].session = count + 1
      OBVIOUS
    <3>1. i \in 1 .. Len(queue'[e]) /\ queue'[e][i].kind = "add"
      BY DEF IsAdd
    <3>2. CASE e # d
      <4>1. queue'[e] = queue[e]
        BY <2>1, <3>2 DEF Others
      <4> QED  BY <3>1, <4>1 DEF IsAdd
    <3>3. CASE e = d
      <4>1. /\ Len(queue'[d]) = Len(queue[d]) + 1
            /\ \A k \in 1 .. Len(queue[d]) : queue'[d][k] = queue[d][k]
            /\ queue'[d][Len(queue[d]) + 1] = w
        BY <2>1 DEF Added
      <4>2. i \in 1 .. Len(queue[d]) \/ i = Len(queue[d]) + 1
        BY <2>3, <3>1, <3>3, <4>1
      <4> QED  BY <2>2, <3>1, <3>3, <4>1, <4>2 DEF IsAdd
    <3> QED  BY <3>2, <3>3
  <2>5. \A e \in Devices, i \in Nat : IsAdd(e, i) => queue[e][i].session # count + 1
    BY <1>0
  <2>6. count + 1 \notin documents
    BY <1>0
  <2>7. (NumOthers + 1) .. count' = ((NumOthers + 1) .. count) \union {count + 1}
    BY <2>1, <1>0 DEF TypeInv, TypeOK
  <2> QED  BY <1>0, <2>1, <2>4, <2>5, <2>6, <2>7 DEF SessionInv
<1>4. ASSUME NEW d \in Devices, Commit(d)
      PROVE  SessionInv'
  <2>1. \A i \in Nat : IsAdd(d, i)' =>
           i # 0 /\ IsAdd(d, i + 1) /\ queue'[d][i].session = queue[d][i + 1].session
    BY <1>4, SentAdds
  <2>2. \A e \in Devices \ {d} : \A i \in Nat :
           /\ IsAdd(e, i)' <=> IsAdd(e, i)
           /\ queue'[e][i].session = queue[e][i].session
    BY <1>4, SentAdds DEF Others, IsAdd
  <2>3. count' = count
    BY <1>4, CommitLemma
  <2>4. \/ documents' = documents
        \/ IsAdd(d, 1) /\ documents' = documents \union {queue[d][1].session}
    BY <1>4, CommitLemma DEF IsAdd
  <2>5. \A e \in Devices, i \in Nat : IsAdd(e, i)' =>
           queue'[e][i].session \in ((NumOthers + 1) .. count) \ documents'
    <3> SUFFICES ASSUME NEW e \in Devices, NEW i \in Nat, IsAdd(e, i)'
                 PROVE  queue'[e][i].session \in ((NumOthers + 1) .. count) \ documents'
      OBVIOUS
    <3>1. CASE e = d
      BY <1>0, <2>1, <2>4, <3>1
    <3>2. CASE e # d
      BY <1>0, <2>2, <2>4, <3>2
    <3> QED  BY <3>1, <3>2
  <2>6. \A e, f \in Devices, i, j \in Nat :
           /\ IsAdd(e, i)' /\ IsAdd(f, j)'
           /\ queue'[e][i].session = queue'[f][j].session
           => e = f /\ i = j
    <3> SUFFICES ASSUME NEW e \in Devices, NEW f \in Devices, NEW i \in Nat, NEW j \in Nat,
                        IsAdd(e, i)', IsAdd(f, j)',
                        queue'[e][i].session = queue'[f][j].session
                 PROVE  e = f /\ i = j
      OBVIOUS
    <3>1. CASE e = d /\ f = d
      BY <1>0, <2>1, <3>1
    <3>2. CASE e = d /\ f # d
      BY <1>0, <2>1, <2>2, <3>2
    <3>3. CASE e # d /\ f = d
      BY <1>0, <2>1, <2>2, <3>3
    <3>4. CASE e # d /\ f # d
      BY <1>0, <2>2, <3>4
    <3> QED  BY <3>1, <3>2, <3>3, <3>4
  <2>7. documents' \subseteq (NumOthers + 1) .. count
    <3>1. 1 \in Nat /\ (IsAdd(d, 1) => queue[d][1].session \in (NumOthers + 1) .. count)
      BY <1>0
    <3> QED  BY <1>0, <2>4, <3>1
  <2> QED  BY <2>3, <2>5, <2>6, <2>7 DEF SessionInv
<1> QED  BY <1>1, <1>2, <1>3, <1>4 DEF Next

\* A step of d.
Step(d) ==
    \/ createAccount(d) \/ AccountMade(d) \/ AccountRefused(d)
    \/ AccountHeard(d) \/ AccountLost(d)
    \/ \E n \in Names : createNewSession(d, n)
    \/ CreateFails(d) \/ saveSession(d)
    \/ \E s \in Sessions : joinSession(d, s)
    \/ LogIn(d) \/ logOut(d)
    \/ Commit(d) \/ Crash(d)

\* A device does nothing to what another one keeps.
LEMMA LocalLemma ==
    ASSUME TypeInv, NEW d \in Devices, Step(d)
    PROVE  /\ Others(d)
           /\ \A e \in Devices \ {d} : step'[e] = step[e] /\ defaults'[e] = defaults[e]
<1>0. /\ step \in [Devices -> {"no", "account", "made", "check", "save", "remember"}]
      /\ defaults \in [Devices -> SUBSET Sessions]
  BY DEF TypeInv, TypeOK
<1>1. CASE Commit(d)
  BY <1>0, <1>1, CommitLemma DEF Others, Unnoticed, AddHeard, ListHeard, UnionHeard
<1>2. CASE saveSession(d)
  BY <1>0, <1>2, QueueLemma DEF Others, saveSession
<1>3. CASE ~Commit(d) /\ ~saveSession(d)
  <2>1. Others(d)
    BY <1>3, KeptAdds DEF Step, createAccount, AccountMade, AccountRefused, AccountLost,
                          createNewSession, CreateFails, LogIn, logOut
  <2>2. step' = step \/ \E x : step' = [step EXCEPT ![d] = x]
    BY <1>3 DEF Step, createAccount, AccountMade, AccountRefused, AccountHeard, AccountLost,
                createNewSession, CreateFails, joinSession, LogIn, logOut, Crash
  <2>3. defaults' = defaults \/ \E x : defaults' = [defaults EXCEPT ![d] = x]
    BY <1>3 DEF Step, createAccount, AccountMade, AccountRefused, AccountHeard, AccountLost,
                createNewSession, CreateFails, joinSession, LogIn, logOut, Crash
  <2> QED  BY <1>0, <2>1, <2>2, <2>3
<1> QED  BY <1>1, <1>2, <1>3

\* A device where something is under way that is about sessions.
Busy(d) ==
    \/ step[d] \in Chain
    \/ \E i \in 1 .. Len(queue[d]) : queue[d][i].kind # "user"

TurnsInv ==
    "turns" \in Habits => \A d, e \in Devices : Busy(d) /\ Busy(e) => d = e

\* The user starts something only where nothing else is under way.
LEMMA TurnsStep ==
    ASSUME TypeInv, TurnsInv, [Next]_vars
    PROVE  TurnsInv'
<1>1. CASE UNCHANGED vars
  BY <1>1 DEF TurnsInv, Busy, vars
<1> SUFFICES ASSUME "turns" \in Habits, NEW d \in Devices, Step(d)
             PROVE  TurnsInv'
  BY <1>1 DEF Next, TurnsInv, Step
<1>0. /\ \A e \in Devices : queue[e] \in Seq(Writes) /\ Len(queue[e]) \in Nat
      /\ step \in [Devices -> {"no", "account", "made", "check", "save", "remember"}]
  BY LenProperties DEF TypeInv, TypeOK
<1>2. \A e \in Devices \ {d} : queue'[e] = queue[e] /\ step'[e] = step[e]
  BY LocalLemma DEF Others, Step
<1>3. \A e \in Devices \ {d} : Busy(e)' => Busy(e)
  BY <1>2 DEF Busy
<1>4. CASE MayStart(d)
  <2>1. \A e \in Devices \ {d} : step[e] = "no" /\ queue[e] = <<>>
    BY <1>4 DEF MayStart
  <2>2. \A e \in Devices \ {d} : ~Busy(e)
    BY <2>1, EmptySeq DEF Busy, Chain
  <2> QED  BY <1>3, <2>2 DEF TurnsInv
<1>5. CASE ~MayStart(d)
  <2>1. Busy(d)' => Busy(d)
    <3>1. CASE \/ createAccount(d) \/ AccountMade(d) \/ AccountRefused(d) \/ AccountLost(d)
               \/ CreateFails(d) \/ LogIn(d) \/ logOut(d)
      <4>1. queue' = queue /\ (step'[d] \in Chain => step[d] \in Chain)
        BY <1>0, <3>1 DEF Chain, createAccount, AccountMade, AccountRefused, AccountLost,
                          CreateFails, LogIn, logOut
      <4> QED  BY <4>1 DEF Busy
    <3>2. CASE AccountHeard(d)
      <4>1. step'[d] = "no" /\ Added(d, UserWrite) /\ UserWrite.kind = "user"
        BY <1>0, <3>2, QueueLemma DEF AccountHeard, UserWrite
      <4>2. ASSUME NEW i \in 1 .. Len(queue'[d]), queue'[d][i].kind # "user"
            PROVE  i \in 1 .. Len(queue[d]) /\ queue[d][i].kind # "user"
        <5>1. i # Len(queue[d]) + 1
          BY <4>1, <4>2 DEF Added
        <5>2. i \in 1 .. Len(queue[d])
          BY <1>0, <4>1, <5>1 DEF Added
        <5> QED  BY <4>1, <4>2, <5>2 DEF Added
      <4> QED  BY <4>1, <4>2 DEF Busy, Chain
    <3>3. CASE saveSession(d)
      BY <3>3 DEF saveSession, Busy, Chain
    <3>4. CASE Crash(d)
      <4>1. step'[d] = "no" /\ Unheard(d)
        BY <1>0, <3>4, QueueLemma DEF Crash
      <4>2. \A i \in 1 .. Len(queue'[d]) :
               i \in 1 .. Len(queue[d]) /\ queue'[d][i].kind = queue[d][i].kind
        <5> SUFFICES ASSUME NEW i \in 1 .. Len(queue'[d])
                     PROVE  i \in 1 .. Len(queue[d]) /\ queue'[d][i].kind = queue[d][i].kind
          OBVIOUS
        <5>1. i \in 1 .. Len(queue[d])
          BY <4>1 DEF Unheard
        <5>2. queue[d][i] \in Writes /\ queue'[d][i] = [queue[d][i] EXCEPT !.heard = FALSE]
          BY <1>0, <4>1, <5>1, ElementOfSeq DEF Unheard
        <5> QED  BY <5>1, <5>2 DEF Writes
      <4> QED  BY <4>1, <4>2 DEF Busy, Chain
    <3>5. CASE Commit(d)
      <4>1. Len(queue[d]) >= 1
            /\ (Unnoticed(d) \/ AddHeard(d) \/ ListHeard(d) \/ UnionHeard(d))
        BY <3>5, CommitLemma
      <4>2. CASE Unnoticed(d)
        <5>1. \A i \in 1 .. Len(queue'[d]) :
                 i + 1 \in 1 .. Len(queue[d]) /\ queue'[d][i] = queue[d][i + 1]
          BY <1>0, <4>1, <4>2 DEF Unnoticed, Sent
        <5> QED  BY <4>2, <5>1 DEF Unnoticed, Busy
      <4>3. CASE AddHeard(d)
        BY <4>3 DEF AddHeard, Busy, Chain
      <4>4. CASE ListHeard(d) \/ UnionHeard(d)
        BY <4>4 DEF ListHeard, UnionHeard, Busy, Chain
      <4> QED  BY <4>1, <4>2, <4>3, <4>4
    <3>6. CASE (\E n \in Names : createNewSession(d, n)) \/ (\E s \in Sessions : joinSession(d, s))
      BY <1>5, <3>6 DEF createNewSession, joinSession
    <3> QED  BY <3>1, <3>2, <3>3, <3>4, <3>5, <3>6 DEF Step
  <2> QED  BY <1>3, <2>1 DEF TurnsInv
<1> QED  BY <1>4, <1>5

\* The sessions that the user hosts or is about to.
Named(s) ==
    s \in documents \/ \E d \in Devices, i \in Nat : IsAdd(d, i) /\ queue[d][i].session = s

NamesInv ==
    "turns" \in Habits =>
      \A s, t \in Sessions : Named(s) /\ Named(t) /\ name[s] = name[t] => s = t

\* The query of a device finds every session that the user hosts: no other device
\* is adding one.
LEMMA NamesStep ==
    ASSUME TypeInv, SessionInv, TurnsInv, NamesInv, [Next]_vars
    PROVE  NamesInv'
<1> SUFFICES ASSUME "turns" \in Habits
             PROVE  \A s, t \in Sessions : Named(s)' /\ Named(t)' /\ name'[s] = name'[t] => s = t
  BY DEF NamesInv
<1>0. \A s, t \in Sessions : Named(s) /\ Named(t) /\ name[s] = name[t] => s = t
  BY DEF NamesInv
<1>1. ASSUME name' = name, \A s \in Sessions : Named(s)' => Named(s)
      PROVE  \A s, t \in Sessions : Named(s)' /\ Named(t)' /\ name'[s] = name'[t] => s = t
  BY <1>0, <1>1
<1>2. CASE UNCHANGED vars
  BY <1>0, <1>2 DEF Named, IsAdd, vars, docVars
<1>3. ASSUME NEW d \in Devices,
             \/ createAccount(d) \/ AccountMade(d) \/ AccountRefused(d)
             \/ AccountHeard(d) \/ AccountLost(d)
             \/ \E n \in Names : createNewSession(d, n)
             \/ CreateFails(d) \/ LogIn(d) \/ logOut(d) \/ Crash(d)
             \/ \E s \in Sessions : joinSession(d, s)
      PROVE  \A s, t \in Sessions : Named(s)' /\ Named(t)' /\ name'[s] = name'[t] => s = t
  <2>1. /\ documents' = documents /\ name' = name
        /\ \/ queue' = queue
           \/ Crash(d)
           \/ AccountHeard(d)
           \/ \E s \in Sessions : joinSession(d, s)
    BY <1>3 DEF createAccount, AccountMade, AccountRefused, AccountHeard, AccountLost,
                createNewSession, CreateFails, LogIn, logOut, Crash, joinSession, docVars
  <2>2. \A e \in Devices, i \in Nat : IsAdd(e, i)' =>
           IsAdd(e, i) /\ queue'[e][i].session = queue[e][i].session
    BY <2>1, KeptAdds DEF Others, IsAdd
  <2>3. \A s \in Sessions : Named(s)' => Named(s)
    BY <2>1, <2>2 DEF Named
  <2> QED  BY <1>1, <2>1, <2>3
<1>4. ASSUME NEW d \in Devices, Commit(d)
      PROVE  \A s, t \in Sessions : Named(s)' /\ Named(t)' /\ name'[s] = name'[t] => s = t
  <2>1. \A i \in Nat : IsAdd(d, i)' =>
           IsAdd(d, i + 1) /\ queue'[d][i].session = queue[d][i + 1].session
    BY <1>4, SentAdds
  <2>2. \A e \in Devices \ {d} : \A i \in Nat :
           IsAdd(e, i)' => IsAdd(e, i) /\ queue'[e][i].session = queue[e][i].session
    BY <1>4, SentAdds DEF Others, IsAdd
  <2>3. /\ name' = name
        /\ \/ documents' = documents
           \/ IsAdd(d, 1) /\ documents' = documents \union {queue[d][1].session}
    BY <1>4, CommitLemma DEF IsAdd
  <2>4. \A s \in Sessions : Named(s)' => Named(s)
    <3> SUFFICES ASSUME NEW s \in Sessions, Named(s)'
                 PROVE  Named(s)
      OBVIOUS
    <3>1. CASE s \in documents'
      BY <2>3, <3>1 DEF Named
    <3>2. CASE \E i \in Nat : IsAdd(d, i)' /\ queue'[d][i].session = s
      <4>1. PICK i \in Nat : IsAdd(d, i)' /\ queue'[d][i].session = s
        BY <3>2
      <4>2. i + 1 \in Nat /\ IsAdd(d, i + 1) /\ queue[d][i + 1].session = s
        BY <2>1, <4>1
      <4> QED  BY <4>2 DEF Named
    <3>3. CASE \E e \in Devices \ {d}, i \in Nat : IsAdd(e, i)' /\ queue'[e][i].session = s
      BY <2>2, <3>3 DEF Named
    <3> QED  BY <3>1, <3>2, <3>3 DEF Named
  <2> QED  BY <1>1, <2>3, <2>4
<1>5. ASSUME NEW d \in Devices, saveSession(d)
      PROVE  \A s, t \in Sessions : Named(s)' /\ Named(t)' /\ name'[s] = name'[t] => s = t
  <2> DEFINE w == Written("add", count + 1, {})
             new == count + 1
  <2>1. /\ documents' = documents /\ name' = [name EXCEPT ![new] = draft[d]]
        /\ Added(d, w) /\ Others(d) /\ new \in Sessions
        /\ \A s \in Hosted(d) : name[s] # draft[d]
        /\ step[d] = "check"
    BY <1>5, QueueLemma DEF saveSession, docVars
  <2>2. w.session = new
    BY DEF Written
  <2>3. queue[d] \in Seq(Writes) /\ Len(queue[d]) \in Nat
    BY LenProperties DEF TypeInv, TypeOK
  <2>4. \A s \in Sessions : Named(s) => s # new
    BY DEF Named, SessionInv, TypeInv, TypeOK
  <2>5. \A s \in Sessions : Named(s) => s \in Hosted(d)
    <3> SUFFICES ASSUME NEW e \in Devices, NEW i \in Nat, IsAdd(e, i)
                 PROVE  queue[e][i].session \in Hosted(d)
      BY DEF Named, Hosted
    <3>1. Busy(e) /\ Busy(d)
      BY <2>1 DEF Busy, IsAdd, Chain
    <3>2. e = d
      BY <3>1 DEF TurnsInv
    <3>3. i \in 1 .. Len(queue[d]) /\ queue[d][i].kind = "add"
      BY <3>2 DEF IsAdd
    <3>4. queue[d][i] \in ToSet(queue[d])
      BY <2>3, <3>3, LenProperties DEF ToSet
    <3> QED  BY <3>2, <3>3, <3>4 DEF Hosted
  <2> HIDE DEF w, new
  <2>6. \A s \in Sessions : Named(s)' => Named(s) \/ s = new
    <3> SUFFICES ASSUME NEW e \in Devices, NEW i \in Nat, IsAdd(e, i)',
                        queue'[e][i].session # new
                 PROVE  IsAdd(e, i) /\ queue'[e][i].session = queue[e][i].session
      BY <2>1 DEF Named
    <3>1. CASE e = d
      <4>1. i \in 1 .. Len(queue[d])
        BY <2>1, <2>2, <2>3, <3>1 DEF IsAdd, Added
      <4> QED  BY <2>1, <3>1, <4>1 DEF IsAdd, Added
    <3>2. CASE e # d
      BY <2>1, <3>2 DEF IsAdd, Others
    <3> QED  BY <3>1, <3>2
  <2>7. /\ name'[new] = draft[d]
        /\ \A s \in Sessions : s # new => name'[s] = name[s]
    BY <2>1 DEF TypeInv, TypeOK
  <2> QED  BY <1>0, <2>1, <2>4, <2>5, <2>6, <2>7
<1> QED  BY <1>2, <1>3, <1>4, <1>5 DEF Next

AddsInv == SessionInv /\ TurnsInv /\ NamesInv

\* What is true of the sessions of the user in every reachable state.
LEMMA AddsInvariant == Spec => [](TypeInv /\ AddsInv)
<1>1. ASSUME Init
      PROVE  AddsInv
  <2>1. \A d \in Devices : Len(queue[d]) = 0 /\ step[d] = "no"
    BY <1>1, EmptySeq DEF Init
  <2>2. documents = {} /\ \A d \in Devices, i \in Nat : ~IsAdd(d, i)
    BY <1>1, <2>1 DEF Init, IsAdd
  <2> QED  BY <2>1, <2>2 DEF AddsInv, SessionInv, TurnsInv, NamesInv, Busy, Named, Chain
<1>2. TypeInv /\ AddsInv /\ [Next]_vars => (TypeInv /\ AddsInv)'
  BY TypeStep, SessionStep, TurnsStep, NamesStep DEF AddsInv
<1> QED  BY <1>1, <1>2, InitType, PTL DEF Spec

\* A user who takes turns at his devices never hosts two sessions of one name,
\* whatever crashes and however long the writes wait.
THEOREM NamesUnique == Spec => []NamesAreUnique
<1>1. TypeInv /\ AddsInv => NamesAreUnique
  <2> SUFFICES ASSUME TypeInv, AddsInv, "turns" \in Habits,
                      NEW s \in documents, NEW t \in documents, name[s] = name[t]
               PROVE  s = t
    BY DEF NamesAreUnique
  <2>1. s \in Sessions /\ t \in Sessions
    BY DEF TypeInv, TypeOK
  <2> QED  BY <2>1 DEF AddsInv, NamesInv, Named
<1> QED  BY <1>1, AddsInvariant, PTL

-----------------------------------------------------------------------------
(* The document of the user.                                                 *)

\* The i-th write of d adds the user's document.
IsUser(d, i) == i \in 1 .. Len(queue[d]) /\ queue[d][i].kind = "user"

\* Who has the right to add the user's document, or has added it, is unique.
UserInv ==
    /\ userDocuments \in {0, 1}
    /\ ~account => userDocuments = 0 /\ \A d \in Devices : step[d] # "made"
    /\ \A d \in Devices : step[d] = "made" => userDocuments = 0
    /\ \A d, e \in Devices : step[d] = "made" /\ step[e] = "made" => d = e
    /\ \A d \in Devices, i \in Nat : IsUser(d, i) =>
         /\ account
         /\ userDocuments = 0
         /\ \A e \in Devices : step[e] # "made"
    /\ \A d, e \in Devices, i, j \in Nat : IsUser(d, i) /\ IsUser(e, j) => d = e /\ i = j
    /\ \A d \in Devices :
         login[d] => userDocuments = 1 \/ \E e \in Devices, i \in Nat : IsUser(e, i)
    /\ account /\ mishaps = 0 =>
         \/ userDocuments = 1
         \/ \E d \in Devices : step[d] = "made"
         \/ \E d \in Devices, i \in Nat : IsUser(d, i)

\* Only AccountHeard adds such a write, and only Commit sends it.
LEMMA KeptUsers ==
    ASSUME TypeInv, NEW d \in Devices,
           \/ queue' = queue
           \/ Crash(d) \/ saveSession(d)
           \/ \E s \in Sessions : joinSession(d, s)
    PROVE  \A e \in Devices, i \in Nat : IsUser(e, i)' <=> IsUser(e, i)
<1>1. queue[d] \in Seq(Writes) /\ Len(queue[d]) \in Nat
  BY LenProperties DEF TypeInv, TypeOK
<1>2. CASE queue' = queue
  BY <1>2 DEF IsUser
<1>3. CASE Crash(d)
  <2>1. Unheard(d) /\ Others(d)
    BY <1>3, QueueLemma
  <2>2. ASSUME NEW i \in 1 .. Len(queue[d])
        PROVE  queue'[d][i].kind = queue[d][i].kind
    <3>1. queue[d][i] \in Writes /\ queue'[d][i] = [queue[d][i] EXCEPT !.heard = FALSE]
      BY <1>1, <2>1, ElementOfSeq DEF Unheard
    <3> QED  BY <3>1 DEF Writes
  <2> QED  BY <2>1, <2>2 DEF IsUser, Unheard, Others
<1>4. ASSUME NEW w, w.kind # "user", Added(d, w), Others(d)
      PROVE  \A e \in Devices, i \in Nat : IsUser(e, i)' <=> IsUser(e, i)
  <2> SUFFICES ASSUME NEW e \in Devices, NEW i \in Nat
               PROVE  IsUser(e, i)' <=> IsUser(e, i)
    OBVIOUS
  <2>1. CASE e # d
    BY <1>4, <2>1 DEF IsUser, Others
  <2>2. CASE e = d /\ i = Len(queue[d]) + 1
    BY <1>1, <1>4, <2>2 DEF IsUser, Added
  <2>3. CASE e = d /\ i # Len(queue[d]) + 1
    <3>1. i \in 1 .. Len(queue'[d]) <=> i \in 1 .. Len(queue[d])
      BY <1>1, <1>4, <2>3 DEF Added
    <3> QED  BY <1>4, <2>3, <3>1 DEF IsUser, Added
  <2> QED  BY <2>1, <2>2, <2>3
<1>5. CASE saveSession(d)
  <2> DEFINE w == Written("add", count + 1, {})
  <2>1. w.kind # "user" /\ Added(d, w) /\ Others(d)
    BY <1>5, QueueLemma DEF Written
  <2> HIDE DEF w
  <2> QED  BY <1>4, <2>1
<1>6. CASE \E s \in Sessions : joinSession(d, s)
  <2>1. PICK s \in Sessions : joinSession(d, s)
    BY <1>6
  <2> DEFINE w == Written("union", s, {s})
  <2>2. w.kind # "user" /\ Added(d, w) /\ Others(d)
    BY <2>1, QueueLemma DEF Written
  <2> HIDE DEF w
  <2> QED  BY <1>4, <2>2
<1> QED  BY <1>2, <1>3, <1>5, <1>6

\* The account is made once, its block adds the document, and a commit turns the
\* write into it; a crash or a lost answer may lose the block, never the write.
LEMMA UserStep ==
    ASSUME TypeInv, UserInv, [Next]_vars
    PROVE  UserInv'
<1>0. /\ step \in [Devices -> {"no", "account", "made", "check", "save", "remember"}]
      /\ login \in [Devices -> BOOLEAN]
      /\ mishaps \in Nat
      /\ account \in BOOLEAN
      /\ \A e \in Devices : queue[e] \in Seq(Writes) /\ Len(queue[e]) \in Nat
  BY LenProperties DEF TypeInv, TypeOK
<1>1. CASE UNCHANGED vars
  BY <1>1 DEF UserInv, IsUser, vars, userVars
<1>2. ASSUME NEW d \in Devices,
             \/ createAccount(d) \/ AccountRefused(d)
             \/ \E n \in Names : createNewSession(d, n)
             \/ CreateFails(d) \/ saveSession(d) \/ logOut(d)
             \/ \E s \in Sessions : joinSession(d, s)
      PROVE  UserInv'
  <2>1. \A e \in Devices, i \in Nat : IsUser(e, i)' <=> IsUser(e, i)
    BY <1>2, KeptUsers DEF createAccount, AccountRefused, createNewSession, CreateFails, logOut
  <2>2. /\ account' = account /\ userDocuments' = userDocuments /\ mishaps' = mishaps
        /\ \A e \in Devices : login'[e] => login[e]
    BY <1>0, <1>2 DEF createAccount, AccountRefused, createNewSession, CreateFails,
                      saveSession, logOut, joinSession, userVars
  <2>3. \A e \in Devices : step'[e] = "made" <=> step[e] = "made"
    BY <1>0, <1>2 DEF createAccount, AccountRefused, createNewSession, CreateFails,
                      saveSession, logOut, joinSession, MayStart
  <2> QED  BY <2>1, <2>2, <2>3 DEF UserInv
<1>3. ASSUME NEW d \in Devices, LogIn(d)
      PROVE  UserInv'
  <2>1. \A e \in Devices, i \in Nat : IsUser(e, i)' <=> IsUser(e, i)
    BY <1>3, KeptUsers DEF LogIn
  <2>2. account' = account /\ userDocuments' = userDocuments /\ mishaps' = mishaps /\ step' = step
    BY <1>3 DEF LogIn, userVars
  <2>3. userDocuments = 1 \/ \E e \in Devices, i \in Nat : IsUser(e, i)
    <3>1. CASE userDocuments > 0
      BY <3>1 DEF UserInv
    <3>2. CASE AddsUser(d)
      <4>1. PICK w \in ToSet(queue[d]) : w.kind = "user"
        BY <3>2 DEF AddsUser
      <4>2. PICK i \in 1 .. Len(queue[d]) : queue[d][i] = w
        BY <1>0, <4>1, LenProperties DEF ToSet
      <4> QED  BY <1>0, <4>1, <4>2 DEF IsUser
    <3> QED  BY <1>3, <3>1, <3>2 DEF LogIn
  <2> QED  BY <2>1, <2>2, <2>3 DEF UserInv
<1>4. ASSUME NEW d \in Devices, AccountMade(d)
      PROVE  UserInv'
  <2>1. \A e \in Devices, i \in Nat : IsUser(e, i)' <=> IsUser(e, i)
    BY <1>4, KeptUsers DEF AccountMade
  <2>2. /\ ~account /\ account'
        /\ userDocuments' = userDocuments /\ mishaps' = mishaps /\ login' = login
        /\ \A e \in Devices : step'[e] = "made" <=> e = d \/ step[e] = "made"
    BY <1>0, <1>4 DEF AccountMade
  <2> QED  BY <2>1, <2>2 DEF UserInv
<1>5. ASSUME NEW d \in Devices, AccountHeard(d)
      PROVE  UserInv'
  <2>1. Added(d, UserWrite) /\ Others(d) /\ UserWrite.kind = "user"
    BY <1>5, QueueLemma DEF UserWrite
  <2>2. /\ step[d] = "made"
        /\ account' = account /\ userDocuments' = userDocuments
        /\ mishaps' = mishaps /\ login' = login
        /\ \A e \in Devices : step'[e] = "made" <=> step[e] = "made" /\ e # d
    BY <1>0, <1>5 DEF AccountHeard, userVars
  <2>3. account /\ userDocuments = 0 /\ \A e \in Devices, i \in Nat : ~IsUser(e, i)
    BY <2>2 DEF UserInv
  <2>n. PICK n \in Nat : n = Len(queue[d]) + 1
    BY <1>0
  <2>4. n \in 1 .. Len(queue'[d]) /\ IsUser(d, n)'
    BY <1>0, <2>n, <2>1 DEF IsUser, Added
  <2>5. \A e \in Devices, i \in Nat : IsUser(e, i)' => e = d /\ i = n
    <3> SUFFICES ASSUME NEW e \in Devices, NEW i \in Nat, IsUser(e, i)'
                 PROVE  e = d /\ i = n
      OBVIOUS
    <3>1. e = d
      BY <2>1, <2>3 DEF IsUser, Others
    <3>2. CASE i # n
      <4>1. i \in 1 .. Len(queue[d])
        BY <1>0, <2>n, <2>1, <3>1, <3>2 DEF IsUser, Added
      <4> QED  BY <2>1, <2>3, <3>1, <4>1 DEF IsUser, Added
    <3> QED  BY <3>1, <3>2
  <2>6. \A e \in Devices : step'[e] # "made"
    BY <2>2 DEF UserInv
  <2> QED  BY <2>2, <2>3, <2>4, <2>5, <2>6 DEF UserInv
<1>6. ASSUME NEW d \in Devices, Crash(d) \/ AccountLost(d)
      PROVE  UserInv'
  <2>1. \A e \in Devices, i \in Nat : IsUser(e, i)' <=> IsUser(e, i)
    BY <1>6, KeptUsers DEF AccountLost
  <2>2. /\ account' = account /\ userDocuments' = userDocuments /\ login' = login
        /\ mishaps' # 0
        /\ \A e \in Devices : step'[e] = "made" => step[e] = "made"
    BY <1>0, <1>6 DEF Crash, AccountLost, userVars
  <2> QED  BY <2>1, <2>2 DEF UserInv
<1>7. ASSUME NEW d \in Devices, Commit(d)
      PROVE  UserInv'
  <2>1. /\ Others(d) /\ Len(queue[d]) >= 1
        /\ account' = account /\ mishaps' = mishaps /\ login' = login
        /\ userDocuments' = userDocuments + (IF queue[d][1].kind = "user" THEN 1 ELSE 0)
        /\ Unnoticed(d) \/ AddHeard(d) \/ ListHeard(d) \/ UnionHeard(d)
    BY <1>7, CommitLemma
  <2>2. \A e \in Devices : step'[e] = "made" <=> step[e] = "made"
    BY <1>0, <2>1 DEF Unnoticed, AddHeard, ListHeard, UnionHeard
  <2>3. \A e \in Devices \ {d} : \A i \in Nat : IsUser(e, i)' <=> IsUser(e, i)
    BY <2>1 DEF Others, IsUser
  <2>4. \A i \in Nat : IsUser(d, i)' <=> IsUser(d, i + 1) /\ i # 0
    <3>1. CASE AddHeard(d)
      <4>1. Len(queue[d]) = 1 /\ Len(queue'[d]) = 1 /\ queue'[d][1].kind = "list"
        BY <3>1 DEF AddHeard, Followed, Written
      <4> QED  BY <4>1 DEF IsUser
    <3>2. CASE Sent(d)
      <4> SUFFICES ASSUME NEW i \in Nat
                   PROVE  IsUser(d, i)' <=> IsUser(d, i + 1) /\ i # 0
        OBVIOUS
      <4>1. i \in 1 .. Len(queue'[d]) <=> i + 1 \in 1 .. Len(queue[d]) /\ i # 0
        BY <1>0, <2>1, <3>2 DEF Sent
      <4> QED  BY <3>2, <4>1 DEF Sent, IsUser
    <3> QED  BY <2>1, <3>1, <3>2 DEF Unnoticed, ListHeard, UnionHeard
  <2>5. 1 \in Nat /\ (IsUser(d, 1) <=> queue[d][1].kind = "user")
    BY <1>0, <2>1 DEF IsUser
  <2>6. CASE IsUser(d, 1)
    <3>1. account /\ userDocuments = 0 /\ \A e \in Devices : step[e] # "made"
      BY <2>5, <2>6 DEF UserInv
    <3>2. \A e \in Devices, i \in Nat : IsUser(e, i) => e = d /\ i = 1
      BY <2>5, <2>6 DEF UserInv
    <3>3. \A e \in Devices, i \in Nat : ~IsUser(e, i)'
      <4> SUFFICES ASSUME NEW e \in Devices, NEW i \in Nat, IsUser(e, i)'
                   PROVE  FALSE
        OBVIOUS
      <4>1. CASE e = d
        <5>1. i + 1 \in Nat /\ IsUser(d, i + 1) /\ i + 1 # 1
          BY <2>4, <4>1
        <5> QED  BY <3>2, <5>1
      <4>2. CASE e # d
        BY <2>3, <3>2, <4>2
      <4> QED  BY <4>1, <4>2
    <3>4. userDocuments' = 1
      BY <2>1, <2>5, <2>6, <3>1
    <3> QED  BY <2>1, <2>2, <3>1, <3>3, <3>4 DEF UserInv
  <2>7. CASE ~IsUser(d, 1)
    <3>1. userDocuments' = userDocuments
      BY <2>1, <2>5, <2>7 DEF UserInv
    <3>2. ASSUME NEW e \in Devices, NEW i \in Nat, IsUser(e, i)'
          PROVE  IsUser(e, IF e = d THEN i + 1 ELSE i)
      BY <2>3, <2>4, <3>2
    <3>3. ASSUME NEW e \in Devices, NEW i \in Nat, IsUser(e, i)
          PROVE  \E j \in Nat : IsUser(e, j)'
      <4>1. CASE e = d
        <5>1. i - 1 \in Nat /\ i - 1 # 0 /\ i = (i - 1) + 1
          BY <2>7, <3>3, <4>1 DEF IsUser
        <5> QED  BY <2>4, <3>3, <4>1, <5>1
      <4>2. CASE e # d
        BY <2>3, <3>3, <4>2
      <4> QED  BY <4>1, <4>2
    <3>4. \A e \in Devices, i \in Nat : IsUser(e, i)' =>
             account /\ userDocuments = 0 /\ \A f \in Devices : step[f] # "made"
      <4> SUFFICES ASSUME NEW e \in Devices, NEW i \in Nat, IsUser(e, i)'
                   PROVE  \E j \in Nat : IsUser(e, j)
        BY DEF UserInv
      <4> QED  BY <3>2
    <3>5. \A e, f \in Devices, i, j \in Nat : IsUser(e, i)' /\ IsUser(f, j)' => e = f /\ i = j
      <4> SUFFICES ASSUME NEW e \in Devices, NEW f \in Devices, NEW i \in Nat, NEW j \in Nat,
                          IsUser(e, i)', IsUser(f, j)'
                   PROVE  e = f /\ i = j
        OBVIOUS
      <4> DEFINE m == IF e = d THEN i + 1 ELSE i
                 n == IF f = d THEN j + 1 ELSE j
      <4>1. m \in Nat /\ n \in Nat /\ IsUser(e, m) /\ IsUser(f, n)
        BY <3>2
      <4>2. e = f /\ m = n
        <5> HIDE DEF m, n
        <5> QED  BY <4>1 DEF UserInv
      <4> QED  BY <4>2
    <3>6. (\E e \in Devices, i \in Nat : IsUser(e, i)) =>
             \E e \in Devices, i \in Nat : IsUser(e, i)'
      BY <3>3
    <3> QED  BY <2>1, <2>2, <3>1, <3>4, <3>5, <3>6 DEF UserInv
  <2> QED  BY <2>6, <2>7
<1> QED  BY <1>1, <1>2, <1>3, <1>4, <1>5, <1>6, <1>7 DEF Next

\* The user has one document at most, and one where the app needs it, though he
\* signs up on several devices at a time and their apps crash.
THEOREM OneDocument == Spec => []UserHasOneDocument
<1>1. ASSUME Init
      PROVE  UserInv
  <2>1. \A d \in Devices : Len(queue[d]) = 0 /\ step[d] = "no" /\ login[d] = FALSE
    BY <1>1, EmptySeq DEF Init
  <2>2. \A d \in Devices, i \in Nat : ~IsUser(d, i)
    BY <2>1 DEF IsUser
  <2> QED  BY <1>1, <2>1, <2>2 DEF UserInv, Init
<1>2. TypeInv /\ UserInv /\ [Next]_vars => (TypeInv /\ UserInv)'
  BY TypeStep, UserStep
<1>3. ASSUME TypeInv, UserInv
      PROVE  UserHasOneDocument
  <2> DEFINE A == {d \in Devices : AddsUser(d)}
  <2>1. \A d \in Devices : AddsUser(d) <=> \E i \in Nat : IsUser(d, i)
    <3> SUFFICES ASSUME NEW d \in Devices
                 PROVE  AddsUser(d) <=> \E i \in Nat : IsUser(d, i)
      OBVIOUS
    <3>1. Len(queue[d]) \in Nat /\ DOMAIN queue[d] = 1 .. Len(queue[d])
      BY <1>3, LenProperties DEF TypeInv, TypeOK
    <3>2. ToSet(queue[d]) = {queue[d][i] : i \in 1 .. Len(queue[d])}
      BY <3>1 DEF ToSet
    <3> QED  BY <3>1, <3>2 DEF AddsUser, IsUser
  <2>2. CASE A = {}
    <3>1. Cardinality(A) = 0
      BY <2>2, FS_EmptySet
    <3>2. \A d \in Devices, i \in Nat : ~IsUser(d, i)
      BY <2>1, <2>2
    <3>3. userDocuments \in {0, 1} /\ ((\E d \in Devices : login[d]) => userDocuments = 1)
      BY <1>3, <3>2 DEF UserInv
    <3>4. account /\ mishaps = 0 /\ (\A d \in Devices : step[d] # "made") => userDocuments = 1
      BY <1>3, <3>2 DEF UserInv
    <3> HIDE DEF A
    <3>5. userDocuments + Cardinality(A) = userDocuments
      BY <3>1, <3>3
    <3> QED  BY <3>3, <3>4, <3>5 DEF UserHasOneDocument, A
  <2>3. CASE A # {}
    <3>1. PICK d \in Devices : d \in A
      BY <2>3
    <3>2. PICK i \in Nat : IsUser(d, i)
      BY <2>1, <3>1
    <3>3. userDocuments = 0
      BY <1>3, <3>2 DEF UserInv
    <3>4. A = {d}
      BY <1>3, <2>1, <3>1, <3>2 DEF UserInv
    <3>5. Cardinality(A) = 1
      BY <3>4, FS_Singleton
    <3> HIDE DEF A
    <3>6. userDocuments + Cardinality(A) = 1
      BY <3>3, <3>5
    <3> QED  BY <3>6 DEF UserHasOneDocument, A
  <2> QED  BY <2>2, <2>3
<1> QED  BY <1>1, <1>2, <1>3, InitType, PTL DEF Spec

-----------------------------------------------------------------------------
(* A user with good habits has a Catalogue.                                  *)

Exists(s) == s \in 1 .. NumOthers \/ s \in documents

\* d adds s with one of its first n writes.
AddedBy(d, n, s) ==
    \E j \in Nat : j <= n /\ IsAdd(d, j) /\ queue[d][j].session = s

\* Whatever remembers a session comes after the session: the document's list after
\* the documents, and the writes of a device, and what it keeps, after its own
\* writes.  A list that takes the place of the document's has all that is in it,
\* since no other device writes to the document and a device creates a session
\* where its list is new.
KeptBy(d) ==
    \A s \in Sessions : s \in defaults[d] => Exists(s) \/ AddedBy(d, Len(queue[d]), s)

QueuedBy(d) ==
    \A i \in Nat, s \in Sessions :
      i \in 1 .. Len(queue[d]) /\ s \in queue[d][i].list => Exists(s) \/ AddedBy(d, i - 1, s)

ListOf(d) ==
    \A i \in 1 .. Len(queue[d]) :
      queue[d][i].kind = "list" => joinedSessions \subseteq queue[d][i].list

FreshAt(d) == step[d] \in {"check", "save"} => defaults[d] = Seen(d)

CatalogueInv ==
    /\ \A s \in joinedSessions : Exists(s)
    /\ \A d \in Devices : KeptBy(d) /\ QueuedBy(d) /\ ListOf(d) /\ FreshAt(d)

\* What a device sees of the list J under its writes q.
SeenUnder(q, J) ==
    {s \in Sessions :
       \/ s \in J /\ ~\E j \in DOMAIN q : j > 0 /\ q[j].kind = "list"
       \/ \E i \in DOMAIN q :
            /\ q[i].kind \in {"list", "union"}
            /\ s \in q[i].list
            /\ ~\E j \in DOMAIN q : j > i /\ q[j].kind = "list"}

\* It is all of J and of the writes, since a list is the first write and has all
\* of J.
LEMMA SeenLemma ==
    ASSUME NEW q \in Seq(Writes), NEW J, J \subseteq Sessions,
           \A i \in 1 .. Len(q) :
             /\ q[i].kind \in {"user", "add"} => q[i].list = {}
             /\ q[i].kind = "list" => i = 1 /\ J \subseteq q[i].list
    PROVE  SeenUnder(q, J)
             = J \union {s \in Sessions : \E i \in 1 .. Len(q) : s \in q[i].list}
<1>1. /\ Len(q) \in Nat /\ DOMAIN q = 1 .. Len(q)
      /\ \A i \in 1 .. Len(q) : q[i] \in Writes
  BY LenProperties, ElementOfSeq
<1>2. \A i \in 1 .. Len(q) : q[i].kind \in {"user", "add", "list", "union"}
  BY <1>1 DEF Writes
<1>3. \A i \in 1 .. Len(q) : ~\E j \in DOMAIN q : j > i /\ q[j].kind = "list"
  BY <1>1
<1> SUFFICES ASSUME NEW s \in Sessions
             PROVE  s \in SeenUnder(q, J) <=> (s \in J \/ \E i \in 1 .. Len(q) : s \in q[i].list)
  BY DEF SeenUnder
<1>5. ASSUME s \in SeenUnder(q, J)
      PROVE  s \in J \/ \E i \in 1 .. Len(q) : s \in q[i].list
  BY <1>1, <1>5 DEF SeenUnder
<1>6. ASSUME s \in J
      PROVE  s \in SeenUnder(q, J)
  <2>1. CASE \E j \in DOMAIN q : j > 0 /\ q[j].kind = "list"
    <3>1. PICK j \in DOMAIN q : j > 0 /\ q[j].kind = "list"
      BY <2>1
    <3>2. j \in 1 .. Len(q) /\ s \in q[j].list
      BY <1>1, <1>6, <3>1
    <3> QED  BY <1>1, <1>3, <3>1, <3>2 DEF SeenUnder
  <2>2. CASE ~\E j \in DOMAIN q : j > 0 /\ q[j].kind = "list"
    BY <1>6, <2>2 DEF SeenUnder
  <2> QED  BY <2>1, <2>2
<1>7. ASSUME NEW i \in 1 .. Len(q), s \in q[i].list
      PROVE  s \in SeenUnder(q, J)
  <2>1. q[i].kind \in {"list", "union"}
    BY <1>2, <1>7
  <2> QED  BY <1>1, <1>3, <1>7, <2>1 DEF SeenUnder
<1> QED  BY <1>5, <1>6, <1>7

\* What d sees, and sees after a step.
LEMMA SeenBy ==
    ASSUME TypeInv, CatalogueInv, NEW d \in Devices
    PROVE  /\ Seen(d) = SeenUnder(queue[d], joinedSessions)
           /\ Seen(d)' = SeenUnder(queue'[d], joinedSessions')
           /\ Seen(d) = joinedSessions \union
                {s \in Sessions : \E i \in 1 .. Len(queue[d]) : s \in queue[d][i].list}
<1>1. queue[d] \in Seq(Writes) /\ joinedSessions \subseteq Sessions
  BY DEF TypeInv, TypeOK
<1>2. QueueOf(d) /\ ListOf(d)
  BY DEF TypeInv, QueueInv, CatalogueInv
<1>3. Seen(d) = SeenUnder(queue[d], joinedSessions)
  BY DEF Seen, SeenUnder
<1>4. Seen(d)' = SeenUnder(queue'[d], joinedSessions')
  BY DEF Seen, SeenUnder
<1>5. \A i \in 1 .. Len(queue[d]) :
         /\ queue[d][i].kind \in {"user", "add"} => queue[d][i].list = {}
         /\ queue[d][i].kind = "list" => i = 1 /\ joinedSessions \subseteq queue[d][i].list
  BY <1>2 DEF QueueOf, ListOf
<1>6. SeenUnder(queue[d], joinedSessions) = joinedSessions \union
        {s \in Sessions : \E i \in 1 .. Len(queue[d]) : s \in queue[d][i].list}
  BY <1>1, <1>5, SeenLemma
<1> QED  BY <1>3, <1>4, <1>6

\* The steps of d that do not reach the server leave the other devices alone.
LEMMA CatalogueElsewhere ==
    ASSUME TypeInv, CatalogueInv, NEW d \in Devices, Step(d), ~Commit(d)
    PROVE  /\ documents' = documents /\ joinedSessions' = joinedSessions
           /\ \A s : Exists(s)' <=> Exists(s)
           /\ \A e \in Devices \ {d} : KeptBy(e)' /\ QueuedBy(e)' /\ ListOf(e)' /\ FreshAt(e)'
<1>1. /\ documents' = documents /\ joinedSessions' = joinedSessions
      /\ \A s : Exists(s)' <=> Exists(s)
  BY DEF Step, createAccount, AccountMade, AccountRefused, AccountHeard, AccountLost,
         createNewSession, CreateFails, saveSession, LogIn, logOut, Crash, joinSession, docVars, Exists
<1>2. \A e \in Devices \ {d} :
         queue'[e] = queue[e] /\ step'[e] = step[e] /\ defaults'[e] = defaults[e]
  BY LocalLemma DEF Others
<1>3. ASSUME NEW e \in Devices \ {d}
      PROVE  KeptBy(e)' /\ QueuedBy(e)' /\ ListOf(e)' /\ FreshAt(e)'
  <2>1. KeptBy(e) /\ QueuedBy(e) /\ ListOf(e) /\ FreshAt(e)
    BY DEF CatalogueInv
  <2>2. \A n, s : AddedBy(e, n, s)' <=> AddedBy(e, n, s)
    BY <1>2 DEF AddedBy, IsAdd
  <2>3. Seen(e)' = Seen(e)
    BY <1>1, <1>2 DEF Seen
  <2> QED  BY <1>1, <1>2, <2>1, <2>2, <2>3 DEF KeptBy, QueuedBy, ListOf, FreshAt
<1> QED  BY <1>1, <1>3

\* d has its writes still, perhaps with another one behind them.
Longer(d) ==
    /\ Len(queue'[d]) >= Len(queue[d])
    /\ \A i \in 1 .. Len(queue[d]) :
         /\ queue'[d][i].kind = queue[d][i].kind
         /\ queue'[d][i].session = queue[d][i].session
         /\ queue'[d][i].list = queue[d][i].list

Keepable(d, s) == Exists(s) \/ AddedBy(d, Len(queue[d]), s)

\* What the writes of d add, a longer queue adds.
LEMMA LongerLemma ==
    ASSUME TypeInv, CatalogueInv, NEW d \in Devices, Longer(d), Len(queue'[d]) \in Nat,
           documents' = documents, joinedSessions' = joinedSessions
    PROVE  /\ \A s \in Sessions : Keepable(d, s) => Keepable(d, s)'
           /\ \A n \in Int, s \in Sessions :
                Exists(s) \/ AddedBy(d, n, s) => Exists(s)' \/ AddedBy(d, n, s)'
           /\ \A i \in 1 .. Len(queue[d]) :
                /\ \A s \in Sessions :
                     s \in queue'[d][i].list => Exists(s)' \/ AddedBy(d, i - 1, s)'
                /\ queue'[d][i].kind = "list" => joinedSessions' \subseteq queue'[d][i].list
<1>1. queue[d] \in Seq(Writes) /\ Len(queue[d]) \in Nat
  BY LenProperties DEF TypeInv, TypeOK
<1>2. \A s : Exists(s)' <=> Exists(s)
  BY DEF Exists
<1>3. QueuedBy(d) /\ ListOf(d)
  BY DEF CatalogueInv
<1>4. ASSUME NEW j \in Nat, IsAdd(d, j)
      PROVE  IsAdd(d, j)' /\ queue'[d][j].session = queue[d][j].session
  BY <1>1, <1>4 DEF IsAdd, Longer
<1>6. \A s \in Sessions : Keepable(d, s) => Keepable(d, s)'
  <2> SUFFICES ASSUME NEW s \in Sessions, AddedBy(d, Len(queue[d]), s)
               PROVE  AddedBy(d, Len(queue[d]), s)'
    BY <1>2 DEF Keepable
  <2>1. PICK j \in Nat : j <= Len(queue[d]) /\ IsAdd(d, j) /\ queue[d][j].session = s
    BY DEF AddedBy
  <2>2. j <= Len(queue'[d])
    BY <1>1, <2>1 DEF Longer
  <2> QED  BY <1>4, <2>1, <2>2 DEF AddedBy
<1>7. \A n \in Int, s \in Sessions :
         Exists(s) \/ AddedBy(d, n, s) => Exists(s)' \/ AddedBy(d, n, s)'
  <2> SUFFICES ASSUME NEW n \in Int, NEW s \in Sessions, AddedBy(d, n, s)
               PROVE  AddedBy(d, n, s)'
    BY <1>2
  <2>1. PICK j \in Nat : j <= n /\ IsAdd(d, j) /\ queue[d][j].session = s
    BY DEF AddedBy
  <2> QED  BY <1>4, <2>1 DEF AddedBy
<1>8. ASSUME NEW i \in 1 .. Len(queue[d])
      PROVE  /\ \A s \in Sessions :
                  s \in queue'[d][i].list => Exists(s)' \/ AddedBy(d, i - 1, s)'
             /\ queue'[d][i].kind = "list" => joinedSessions' \subseteq queue'[d][i].list
  <2>1. /\ i \in Nat /\ i - 1 \in Int
        /\ queue'[d][i].list = queue[d][i].list
        /\ queue'[d][i].kind = queue[d][i].kind
    BY <1>1 DEF Longer
  <2> QED  BY <1>3, <1>7, <2>1 DEF QueuedBy, ListOf
<1> QED  BY <1>6, <1>7, <1>8

\* Steps of d that write nothing, or lose the blocks of what is written.
LEMMA CatalogueQuiet ==
    ASSUME TypeInv, CatalogueInv, NEW d \in Devices,
           Longer(d), Len(queue'[d]) = Len(queue[d]),
           documents' = documents, joinedSessions' = joinedSessions,
           defaults'[d] \in {{}, defaults[d], Seen(d)},
           step'[d] \in {"check", "save"} => queue' = queue /\ defaults'[d] = Seen(d)
    PROVE  KeptBy(d)' /\ QueuedBy(d)' /\ ListOf(d)' /\ FreshAt(d)'
<1>1. queue[d] \in Seq(Writes) /\ Len(queue[d]) \in Nat /\ Len(queue'[d]) \in Nat
  BY LenProperties DEF TypeInv, TypeOK
<1>2. /\ \A s \in Sessions : Keepable(d, s) => Keepable(d, s)'
      /\ \A i \in 1 .. Len(queue[d]) :
           /\ \A s \in Sessions :
                s \in queue'[d][i].list => Exists(s)' \/ AddedBy(d, i - 1, s)'
           /\ queue'[d][i].kind = "list" => joinedSessions' \subseteq queue'[d][i].list
  BY <1>1, LongerLemma
<1>3. \A s \in Sessions : s \in defaults[d] => Keepable(d, s)
  BY DEF CatalogueInv, KeptBy, Keepable
<1>4. \A s \in Sessions : s \in Seen(d) => Keepable(d, s)
  <2> SUFFICES ASSUME NEW s \in Sessions, s \in Seen(d)
               PROVE  Keepable(d, s)
    OBVIOUS
  <2>1. CASE s \in joinedSessions
    BY <2>1 DEF CatalogueInv, Keepable
  <2>2. CASE s \notin joinedSessions
    <3>1. PICK i \in 1 .. Len(queue[d]) : s \in queue[d][i].list
      BY <2>2, SeenBy
    <3>2. i \in Nat /\ i - 1 \in Int /\ i - 1 <= Len(queue[d])
      BY <1>1
    <3>3. Exists(s) \/ AddedBy(d, i - 1, s)
      BY <3>1, <3>2 DEF CatalogueInv, QueuedBy
    <3> QED  BY <1>1, <3>2, <3>3 DEF Keepable, AddedBy
  <2> QED  BY <2>1, <2>2
<1>5. KeptBy(d)'
  BY <1>2, <1>3, <1>4 DEF KeptBy, Keepable
<1>6. QueuedBy(d)' /\ ListOf(d)'
  BY <1>2 DEF QueuedBy, ListOf
<1>7. FreshAt(d)'
  BY DEF FreshAt, Seen
<1> QED  BY <1>5, <1>6, <1>7

\* Steps of d that add a write.
LEMMA CatalogueAdded ==
    ASSUME TypeInv, TypeInv', CatalogueInv, NEW d \in Devices, NEW w, Added(d, w),
           documents' = documents, joinedSessions' = joinedSessions,
           defaults'[d] = defaults[d],
           w.kind # "list", \A s \in Sessions : s \in w.list => Keepable(d, s),
           step'[d] \in {"check", "save"} => w.list = {} /\ w.kind = "add" /\ defaults[d] = Seen(d)
    PROVE  KeptBy(d)' /\ QueuedBy(d)' /\ ListOf(d)' /\ FreshAt(d)'
<1>1. queue[d] \in Seq(Writes) /\ Len(queue[d]) \in Nat /\ Len(queue'[d]) = Len(queue[d]) + 1
  BY LenProperties DEF TypeInv, TypeOK, Added
<1>2. Longer(d)
  BY <1>1 DEF Longer, Added
<1>3. /\ \A s \in Sessions : Keepable(d, s) => Keepable(d, s)'
      /\ \A n \in Int, s \in Sessions :
           Exists(s) \/ AddedBy(d, n, s) => Exists(s)' \/ AddedBy(d, n, s)'
      /\ \A i \in 1 .. Len(queue[d]) :
           /\ \A s \in Sessions :
                s \in queue'[d][i].list => Exists(s)' \/ AddedBy(d, i - 1, s)'
           /\ queue'[d][i].kind = "list" => joinedSessions' \subseteq queue'[d][i].list
  <2>1. Len(queue'[d]) \in Nat
    BY <1>1
  <2> QED  BY <1>2, <2>1, LongerLemma
<1>4. KeptBy(d)'
  BY <1>3 DEF CatalogueInv, KeptBy, Keepable
<1>5. \A i \in 1 .. Len(queue'[d]) :
         i \in 1 .. Len(queue[d]) \/ (i = Len(queue[d]) + 1 /\ queue'[d][i] = w)
  BY <1>1 DEF Added
<1>6. QueuedBy(d)'
  <2> SUFFICES ASSUME NEW i \in Nat, NEW s \in Sessions,
                      i \in 1 .. Len(queue'[d]), s \in queue'[d][i].list
               PROVE  Exists(s)' \/ AddedBy(d, i - 1, s)'
    BY DEF QueuedBy
  <2>1. CASE i \in 1 .. Len(queue[d])
    BY <1>3, <2>1
  <2>2. CASE i = Len(queue[d]) + 1 /\ queue'[d][i] = w
    <3>1. i - 1 \in Int /\ i - 1 = Len(queue[d])
      BY <1>1, <2>2
    <3>2. Exists(s) \/ AddedBy(d, i - 1, s)
      BY <2>2, <3>1 DEF Keepable
    <3> QED  BY <1>3, <3>1, <3>2
  <2> QED  BY <1>5, <2>1, <2>2
<1>7. ListOf(d)'
  BY <1>3, <1>5 DEF ListOf
<1>8. FreshAt(d)'
  <2> SUFFICES ASSUME step'[d] \in {"check", "save"}
               PROVE  Seen(d)' = Seen(d)
    BY DEF FreshAt
  <2>1. queue'[d] \in Seq(Writes) /\ joinedSessions' \subseteq Sessions
    BY DEF TypeInv, TypeOK
  <2>2. QueueOf(d)'
    BY DEF TypeInv, QueueInv
  <2>3. \A i \in 1 .. Len(queue'[d]) :
           /\ queue'[d][i].kind \in {"user", "add"} => queue'[d][i].list = {}
           /\ queue'[d][i].kind = "list" => i = 1 /\ joinedSessions' \subseteq queue'[d][i].list
    BY <1>7, <2>2 DEF QueueOf, ListOf
  <2>4. Seen(d)' = joinedSessions' \union
          {s \in Sessions : \E i \in 1 .. Len(queue'[d]) : s \in queue'[d][i].list}
    BY <2>1, <2>3, SeenBy, SeenLemma
  <2>5. w.list = {}
    OBVIOUS
  <2>6. \A s \in Sessions :
           (\E i \in 1 .. Len(queue'[d]) : s \in queue'[d][i].list)
           <=> (\E i \in 1 .. Len(queue[d]) : s \in queue[d][i].list)
    BY <1>1, <1>5, <2>5 DEF Added
  <2> QED  BY <2>4, <2>6, SeenBy
<1> QED  BY <1>4, <1>6, <1>7, <1>8

\* A commit leaves the other devices alone: at most one has anything to do with
\* sessions.
LEMMA CommitElsewhere ==
    ASSUME TypeInv, CatalogueInv, TurnsInv, "turns" \in Habits,
           NEW d \in Devices, Commit(d), NEW e \in Devices, e # d
    PROVE  KeptBy(e)' /\ QueuedBy(e)' /\ ListOf(e)' /\ FreshAt(e)'
<1>1. /\ queue'[e] = queue[e] /\ step'[e] = step[e] /\ defaults'[e] = defaults[e]
  BY LocalLemma DEF Others, Step
<1>2. KeptBy(e) /\ QueuedBy(e) /\ ListOf(e) /\ FreshAt(e)
  BY DEF CatalogueInv
<1>3. \A s : Exists(s) => Exists(s)'
  BY CommitLemma DEF Exists
<1>4. \A n, s : AddedBy(e, n, s)' <=> AddedBy(e, n, s)
  BY <1>1 DEF AddedBy, IsAdd
<1>5. Busy(e) => joinedSessions' = joinedSessions
  <2> SUFFICES ASSUME Busy(e)
               PROVE  joinedSessions' = joinedSessions
    OBVIOUS
  <2>1. Len(queue[d]) \in Nat /\ Len(queue[d]) >= 1
        /\ (queue[d][1].kind \in {"user", "add"} => joinedSessions' = joinedSessions)
    BY CommitLemma
  <2>2. ~Busy(d)
    BY DEF TurnsInv
  <2>3. queue[d][1].kind = "user"
    BY <2>1, <2>2 DEF Busy
  <2> QED  BY <2>1, <2>3
<1>6. ListOf(e)'
  BY <1>1, <1>2, <1>5 DEF ListOf, Busy
<1>7. FreshAt(e)'
  <2> SUFFICES ASSUME step[e] \in {"check", "save"}
               PROVE  defaults[e] = Seen(e)'
    BY <1>1 DEF FreshAt
  <2>1. joinedSessions' = joinedSessions
    BY <1>5 DEF Busy, Chain
  <2> QED  BY <1>1, <1>2, <2>1 DEF FreshAt, Seen
<1> QED  BY <1>1, <1>2, <1>3, <1>4, <1>6, <1>7 DEF KeptBy, QueuedBy

\* What is committed exists, or is added by what stays queued.
LEMMA CommitKeeps ==
    ASSUME TypeInv, NEW d \in Devices, Commit(d), Sent(d),
           NEW n \in Int, NEW s, Exists(s) \/ AddedBy(d, n, s)
    PROVE  Exists(s)' \/ \E j \in Nat : j < n /\ IsAdd(d, j)' /\ queue'[d][j].session = s
<1>1. queue[d] \in Seq(Writes) /\ Len(queue[d]) \in Nat
  BY LenProperties DEF TypeInv, TypeOK
<1>2. documents' = IF queue[d][1].kind = "add" THEN documents \union {queue[d][1].session}
                                               ELSE documents
  BY CommitLemma
<1>3. CASE Exists(s)
  BY <1>2, <1>3 DEF Exists
<1>4. ASSUME AddedBy(d, n, s)
      PROVE  Exists(s)' \/ \E j \in Nat : j < n /\ IsAdd(d, j)' /\ queue'[d][j].session = s
  <2>1. PICK j \in Nat : j <= n /\ IsAdd(d, j) /\ queue[d][j].session = s
    BY <1>4 DEF AddedBy
  <2>2. CASE j = 1
    BY <1>2, <2>1, <2>2 DEF Exists, IsAdd
  <2>3. CASE j # 1
    <3>1. /\ j - 1 \in Nat /\ j - 1 <= n - 1
          /\ j - 1 \in 1 .. Len(queue'[d])
          /\ queue'[d][j - 1] = queue[d][j]
      BY <1>1, <2>1, <2>3 DEF IsAdd, Sent
    <3> QED  BY <2>1, <3>1 DEF IsAdd
  <2> QED  BY <2>2, <2>3
<1> QED  BY <1>3, <1>4

\* The device whose write is committed sees what it saw, and keeps what exists.
LEMMA CommitHere ==
    ASSUME TypeInv, TypeInv', CatalogueInv, NEW d \in Devices, Commit(d)
    PROVE  /\ \A s \in joinedSessions' : Exists(s)'
           /\ KeptBy(d)' /\ QueuedBy(d)' /\ ListOf(d)' /\ FreshAt(d)'
<1> DEFINE w == queue[d][1]
<1>1. /\ queue[d] \in Seq(Writes) /\ Len(queue[d]) \in Nat /\ Len(queue[d]) >= 1
      /\ w.kind \in {"user", "add", "list", "union"}
      /\ w.list \subseteq Sessions
      /\ documents' = IF w.kind = "add" THEN documents \union {w.session} ELSE documents
      /\ w.kind \in {"user", "add"} => joinedSessions' = joinedSessions
      /\ w.kind = "list" => joinedSessions' = w.list
      /\ w.kind = "union" => joinedSessions' = joinedSessions \union w.list
      /\ Unnoticed(d) \/ AddHeard(d) \/ ListHeard(d) \/ UnionHeard(d)
  BY CommitLemma DEF Writes
<1>2. QueueOf(d) /\ KeptBy(d) /\ QueuedBy(d) /\ ListOf(d) /\ FreshAt(d)
  BY DEF TypeInv, QueueInv, CatalogueInv
<1>3. \A s : Exists(s) => Exists(s)'
  BY <1>1 DEF Exists
<1>4. joinedSessions' = joinedSessions \union w.list
  BY <1>1, <1>2 DEF QueueOf, ListOf
<1>5. \A s \in Sessions : s \in w.list => Exists(s)'
  <2> SUFFICES ASSUME NEW s \in Sessions, s \in w.list
               PROVE  Exists(s)'
    OBVIOUS
  <2>1. 1 \in Nat /\ 1 \in 1 .. Len(queue[d])
    BY <1>1
  <2>2. Exists(s) \/ AddedBy(d, 1 - 1, s)
    BY <1>2, <2>1 DEF QueuedBy
  <2>3. ~AddedBy(d, 1 - 1, s)
    BY DEF AddedBy, IsAdd
  <2> QED  BY <1>3, <2>2, <2>3
<1>6. \A s \in joinedSessions' : Exists(s)'
  BY <1>1, <1>3, <1>4, <1>5 DEF CatalogueInv
<1>7. CASE AddHeard(d)
  <2>1. /\ Len(queue[d]) = 1 /\ Len(queue'[d]) = 1
        /\ w.kind = "add"
        /\ queue'[d][1].kind = "list"
        /\ queue'[d][1].list = defaults[d] \union {w.session}
        /\ defaults' = defaults
        /\ step[d] = "save" /\ step'[d] = "remember"
    BY <1>7 DEF AddHeard, Followed, Written, Remembered, TypeInv, TypeOK
  <2>2. \A s \in Sessions : s \in defaults[d] => Exists(s)'
    <3> SUFFICES ASSUME NEW s \in Sessions, AddedBy(d, Len(queue[d]), s)
                 PROVE  Exists(s)'
      BY <1>2, <1>3 DEF KeptBy
    <3>1. s = w.session
      BY <2>1 DEF AddedBy, IsAdd
    <3> QED  BY <1>1, <2>1, <3>1 DEF Exists
  <2>3. KeptBy(d)'
    BY <2>1, <2>2 DEF KeptBy
  <2>4. QueuedBy(d)'
    <3>1. PICK v : v = w.session
      OBVIOUS
    <3>2. Exists(v)'
      BY <1>1, <2>1, <3>1 DEF Exists
    <3>3. queue'[d][1].list = defaults[d] \union {v}
      BY <2>1, <3>1
    <3> QED  BY <2>1, <2>2, <3>2, <3>3 DEF QueuedBy
  <2>5. ListOf(d)'
    <3>1. joinedSessions' = joinedSessions /\ joinedSessions \subseteq defaults[d]
      BY <1>1, <1>2, <2>1, SeenBy DEF FreshAt
    <3> QED  BY <2>1, <3>1 DEF ListOf
  <2>6. FreshAt(d)'
    BY <2>1 DEF FreshAt
  <2> QED  BY <1>6, <2>3, <2>4, <2>5, <2>6
<1>8. CASE Sent(d)
  <2>0. Len(queue'[d]) = Len(queue[d]) - 1
        /\ \A i \in 1 .. Len(queue'[d]) : queue'[d][i] = queue[d][i + 1]
    BY <1>8 DEF Sent
  <2>1. \A s \in Sessions : s \in defaults'[d] => s \in defaults[d] \/ s \in w.list
    BY <1>1 DEF Unnoticed, AddHeard, ListHeard, UnionHeard, TypeInv, TypeOK
  <2>2. KeptBy(d)'
    <3> SUFFICES ASSUME NEW s \in Sessions, s \in defaults[d]
                 PROVE  Exists(s)' \/ AddedBy(d, Len(queue[d]), s)'
      BY <1>5, <2>1 DEF KeptBy
    <3>1. Exists(s) \/ AddedBy(d, Len(queue[d]), s)
      BY <1>2 DEF KeptBy
    <3>2. Exists(s)' \/ \E j \in Nat : /\ j < Len(queue[d])
                                       /\ IsAdd(d, j)' /\ queue'[d][j].session = s
      BY <1>1, <1>8, <3>1, CommitKeeps
    <3> QED  BY <1>1, <2>0, <3>2 DEF AddedBy
  <2>3. QueuedBy(d)'
    <3> SUFFICES ASSUME NEW i \in Nat, NEW s \in Sessions,
                        i \in 1 .. Len(queue'[d]), s \in queue'[d][i].list
                 PROVE  Exists(s)' \/ AddedBy(d, i - 1, s)'
      BY DEF QueuedBy
    <3>1. /\ i + 1 \in Nat /\ i + 1 \in 1 .. Len(queue[d]) /\ s \in queue[d][i + 1].list
          /\ (i + 1) - 1 = i
      BY <1>1, <2>0
    <3>2. Exists(s) \/ AddedBy(d, i, s)
      BY <1>2, <3>1 DEF QueuedBy
    <3>3. Exists(s)' \/ \E j \in Nat : /\ j < i
                                       /\ IsAdd(d, j)' /\ queue'[d][j].session = s
      <4>1. i \in Int
        OBVIOUS
      <4> HIDE DEF w
      <4>2. ASSUME NEW n \in Int, Exists(s) \/ AddedBy(d, n, s)
            PROVE  Exists(s)' \/ \E j \in Nat : /\ j < n
                                       /\ IsAdd(d, j)' /\ queue'[d][j].session = s
        BY <1>8, <4>2, CommitKeeps
      <4> QED  BY <3>2, <4>1, <4>2
    <3> QED  BY <3>3 DEF AddedBy
  <2>4. ListOf(d)'
    BY <1>1, <1>2, <2>0 DEF ListOf, QueueOf
  <2>5. FreshAt(d)'
    <3> SUFFICES ASSUME step'[d] \in {"check", "save"}
                 PROVE  defaults'[d] = Seen(d)'
      BY DEF FreshAt
    <3>1. step' = step /\ defaults' = defaults
      BY <1>1 DEF Unnoticed, AddHeard, ListHeard, UnionHeard, TypeInv, TypeOK
    <3>2. queue'[d] \in Seq(Writes) /\ joinedSessions' \subseteq Sessions
      BY DEF TypeInv, TypeOK
    <3>3. QueueOf(d)'
      BY DEF TypeInv, QueueInv
    <3>4. \A i \in 1 .. Len(queue'[d]) :
             /\ queue'[d][i].kind \in {"user", "add"} => queue'[d][i].list = {}
             /\ queue'[d][i].kind = "list" => i = 1 /\ joinedSessions' \subseteq queue'[d][i].list
      BY <2>4, <3>3 DEF QueueOf, ListOf
    <3>5. Seen(d)' = joinedSessions' \union
            {s \in Sessions : \E i \in 1 .. Len(queue'[d]) : s \in queue'[d][i].list}
      BY <3>2, <3>4, SeenBy, SeenLemma
    <3>6. \A s \in Sessions :
             (s \in w.list \/ \E i \in 1 .. Len(queue'[d]) : s \in queue'[d][i].list)
             <=> (\E i \in 1 .. Len(queue[d]) : s \in queue[d][i].list)
      <4> SUFFICES ASSUME NEW s \in Sessions
                   PROVE  (s \in w.list \/ \E i \in 1 .. Len(queue'[d]) : s \in queue'[d][i].list)
                          <=> (\E i \in 1 .. Len(queue[d]) : s \in queue[d][i].list)
        OBVIOUS
      <4>1. ASSUME NEW i \in 1 .. Len(queue[d]), s \in queue[d][i].list, i # 1
            PROVE  \E k \in 1 .. Len(queue'[d]) : s \in queue'[d][k].list
        <5>1. i - 1 \in 1 .. Len(queue'[d]) /\ queue'[d][i - 1] = queue[d][i]
          BY <1>1, <2>0, <4>1
        <5> QED  BY <4>1, <5>1
      <4>2. ASSUME NEW i \in 1 .. Len(queue'[d]), s \in queue'[d][i].list
            PROVE  \E k \in 1 .. Len(queue[d]) : s \in queue[d][k].list
        <5>1. i + 1 \in 1 .. Len(queue[d]) /\ queue'[d][i] = queue[d][i + 1]
          BY <1>1, <2>0
        <5> QED  BY <4>2, <5>1
      <4>3. 1 \in 1 .. Len(queue[d])
        BY <1>1
      <4> QED  BY <4>1, <4>2, <4>3
    <3>7. defaults[d] = Seen(d)
      BY <1>2, <3>1 DEF FreshAt
    <3> HIDE DEF w
    <3> QED  BY <1>1, <1>4, <3>1, <3>5, <3>6, <3>7, SeenBy
  <2> QED  BY <1>6, <2>2, <2>3, <2>4, <2>5
<1> QED  BY <1>1, <1>7, <1>8 DEF Unnoticed, ListHeard, UnionHeard

\* Every step keeps it, for a user with good habits.
LEMMA CatalogueStep ==
    ASSUME AllHabits \subseteq Habits,
           TypeInv, TypeInv', TurnsInv, CatalogueInv, [Next]_vars
    PROVE  CatalogueInv'
<1>0. "patient" \in Habits /\ "turns" \in Habits /\ "fresh" \in Habits
  BY DEF AllHabits
<1>1. CASE UNCHANGED vars
  <2>1. /\ queue' = queue /\ step' = step /\ defaults' = defaults
        /\ joinedSessions' = joinedSessions /\ documents' = documents
    BY <1>1 DEF vars, docVars
  <2>2. \A d \in Devices : Seen(d)' = Seen(d)
    BY <2>1 DEF Seen
  <2> QED
    BY <2>1, <2>2 DEF CatalogueInv, KeptBy, QueuedBy, ListOf, FreshAt, Exists, AddedBy, IsAdd
<1>2. ASSUME NEW d \in Devices, Step(d)
      PROVE  CatalogueInv'
  <2>1. CASE Commit(d)
    BY <1>0, <2>1, CommitElsewhere, CommitHere DEF CatalogueInv
  <2>2. CASE ~Commit(d)
    <3>0. /\ queue[d] \in Seq(Writes) /\ Len(queue[d]) \in Nat
          /\ step \in [Devices -> {"no", "account", "made", "check", "save", "remember"}]
          /\ defaults \in [Devices -> SUBSET Sessions]
      BY LenProperties DEF TypeInv, TypeOK
    <3>1. /\ documents' = documents /\ joinedSessions' = joinedSessions
          /\ \A s : Exists(s)' <=> Exists(s)
          /\ \A e \in Devices \ {d} : KeptBy(e)' /\ QueuedBy(e)' /\ ListOf(e)' /\ FreshAt(e)'
      BY <1>2, <2>2, CatalogueElsewhere
    <3>2. \A s \in joinedSessions' : Exists(s)'
      BY <3>1 DEF CatalogueInv
    <3>3. CASE \/ createAccount(d) \/ AccountMade(d) \/ AccountRefused(d) \/ AccountLost(d)
               \/ CreateFails(d)
               \/ \E n \in Names : createNewSession(d, n)
               \/ LogIn(d) \/ logOut(d)
      <4>1. queue' = queue /\ Longer(d) /\ Len(queue'[d]) = Len(queue[d])
        BY <3>0, <3>3 DEF Longer, createAccount, AccountMade, AccountRefused, AccountLost,
                          CreateFails, createNewSession, LogIn, logOut
      <4>2. /\ defaults'[d] \in {{}, defaults[d], Seen(d)}
            /\ step'[d] \in {"check", "save"} => defaults'[d] = Seen(d)
        <5>1. CASE \/ createAccount(d) \/ AccountMade(d) \/ AccountRefused(d)
                   \/ AccountLost(d) \/ CreateFails(d)
          BY <3>0, <5>1 DEF createAccount, AccountMade, AccountRefused, AccountLost, CreateFails
        <5>2. CASE \E n \in Names : createNewSession(d, n)
          BY <1>0, <5>2 DEF createNewSession
        <5>3. CASE LogIn(d)
          BY <3>0, <5>3 DEF LogIn
        <5>4. CASE logOut(d)
          BY <1>0, <3>0, <5>4 DEF logOut
        <5> QED  BY <3>3, <5>1, <5>2, <5>3, <5>4
      <4>3. KeptBy(d)' /\ QueuedBy(d)' /\ ListOf(d)' /\ FreshAt(d)'
        BY <3>1, <4>1, <4>2, CatalogueQuiet
      <4> QED  BY <3>1, <3>2, <4>3 DEF CatalogueInv
    <3>4. CASE Crash(d)
      <4>1. Unheard(d) /\ defaults' = defaults /\ step'[d] = "no"
        BY <3>0, <3>4, QueueLemma DEF Crash
      <4>2. ASSUME NEW i \in 1 .. Len(queue[d])
            PROVE  /\ queue'[d][i].kind = queue[d][i].kind
                   /\ queue'[d][i].session = queue[d][i].session
                   /\ queue'[d][i].list = queue[d][i].list
        <5>1. queue[d][i] \in Writes /\ queue'[d][i] = [queue[d][i] EXCEPT !.heard = FALSE]
          BY <3>0, <4>1, ElementOfSeq DEF Unheard
        <5> QED  BY <5>1 DEF Writes
      <4>3. Longer(d) /\ Len(queue'[d]) = Len(queue[d])
        BY <3>0, <4>1, <4>2 DEF Longer, Unheard
      <4>4. KeptBy(d)' /\ QueuedBy(d)' /\ ListOf(d)' /\ FreshAt(d)'
        BY <3>1, <4>1, <4>3, CatalogueQuiet
      <4> QED  BY <3>1, <3>2, <4>4 DEF CatalogueInv
    <3>5. CASE AccountHeard(d)
      <4>1. /\ Added(d, UserWrite) /\ UserWrite.kind = "user" /\ UserWrite.list = {}
            /\ defaults' = defaults /\ step'[d] = "no"
        BY <3>0, <3>5, QueueLemma DEF AccountHeard, UserWrite
      <4>2. KeptBy(d)' /\ QueuedBy(d)' /\ ListOf(d)' /\ FreshAt(d)'
        BY <3>1, <4>1, CatalogueAdded
      <4> QED  BY <3>1, <3>2, <4>2 DEF CatalogueInv
    <3>6. CASE saveSession(d)
      <4> DEFINE w == Written("add", count + 1, {})
      <4>1. /\ Added(d, w) /\ w.kind = "add" /\ w.list = {}
            /\ defaults' = defaults /\ step[d] = "check"
        BY <3>6, QueueLemma DEF saveSession, Written
      <4>2. defaults[d] = Seen(d)
        BY <4>1 DEF CatalogueInv, FreshAt
      <4> HIDE DEF w
      <4>3. KeptBy(d)' /\ QueuedBy(d)' /\ ListOf(d)' /\ FreshAt(d)'
        BY <3>1, <4>1, <4>2, CatalogueAdded
      <4> QED  BY <3>1, <3>2, <4>3 DEF CatalogueInv
    <3>7. ASSUME NEW s \in Sessions, joinSession(d, s)
          PROVE  CatalogueInv'
      <4> DEFINE w == Written("union", s, {s})
      <4>1. /\ Added(d, w) /\ w.kind = "union" /\ w.list = {s}
            /\ defaults' = defaults /\ step'[d] = "remember"
        BY <3>0, <3>7, QueueLemma DEF joinSession, Written
      <4>2. Keepable(d, s)
        <5>1. CASE s \in 1 .. NumOthers \/ s \in documents
          BY <5>1 DEF Keepable, Exists
        <5>2. CASE s \in Hosted(d) /\ s \notin documents
          <6>1. PICK v \in ToSet(queue[d]) : v.kind = "add" /\ v.session = s
            BY <5>2 DEF Hosted
          <6>2. PICK i \in 1 .. Len(queue[d]) : queue[d][i] = v
            BY <3>0, LenProperties DEF ToSet
          <6>3. i \in Nat /\ i <= Len(queue[d]) /\ IsAdd(d, i)
            BY <3>0, <6>1, <6>2 DEF IsAdd
          <6> QED  BY <6>1, <6>2, <6>3 DEF Keepable, AddedBy
        <5> QED  BY <3>7, <5>1, <5>2 DEF joinSession
      <4> HIDE DEF w
      <4>3. KeptBy(d)' /\ QueuedBy(d)' /\ ListOf(d)' /\ FreshAt(d)'
        BY <3>1, <4>1, <4>2, CatalogueAdded
      <4> QED  BY <3>1, <3>2, <4>3 DEF CatalogueInv
    <3> QED  BY <1>2, <2>2, <3>3, <3>4, <3>5, <3>6, <3>7 DEF Step
  <2> QED  BY <2>1, <2>2
<1> QED  BY <1>1, <1>2 DEF Next, Step

CatalogueVars == <<[s \in documents |-> name[s]], joinedSessions>>

\* A new document is a new session under a name that is free.
LEMMA CatalogueCreates ==
    ASSUME TypeInv, AddsInv, "turns" \in Habits, NEW s \in Sessions, NEW d \in Devices,
           NEW title, title = name[s], IsAdd(d, 1), queue[d][1].session = s,
           documents' = documents \union {s}, name' = name, joinedSessions' = joinedSessions
    PROVE  UserCatalogue!Create(s, title)
<1> DEFINE hosted == [t \in documents |-> name[t]]
<1>1. 1 \in Nat /\ s \notin documents
  BY DEF AddsInv, SessionInv
<1>2. Named(s) /\ \A t \in documents : t \in Sessions /\ Named(t)
  BY <1>1 DEF Named, TypeInv, TypeOK
<1>3. \A t \in documents : name[t] # title
  BY <1>1, <1>2 DEF AddsInv, NamesInv
<1>4. DOMAIN hosted = documents /\ \A t \in documents : hosted[t] = name[t]
  OBVIOUS
<1>5. title \notin {hosted[t] : t \in DOMAIN hosted}
  BY <1>3
<1>6. [t \in documents' |-> name'[t]]
        = [t \in DOMAIN hosted \union {s} |-> IF t = s THEN title ELSE hosted[t]]
  BY <1>4
<1> QED
  BY <1>1, <1>4, <1>5, <1>6 DEF UserCatalogue!Create, UserCatalogue!Range

\* The list of the document grows, by sessions that exist.
LEMMA CatalogueRemembers ==
    ASSUME TypeInv, CatalogueInv, NEW d \in Devices, Commit(d),
           queue[d][1].kind \in {"list", "union"}
    PROVE  UserCatalogue!Remember
<1> DEFINE w == queue[d][1]
<1>1. /\ Len(queue[d]) \in Nat /\ Len(queue[d]) >= 1
      /\ w.list \subseteq Sessions
      /\ documents' = documents /\ name' = name
      /\ w.kind = "list" => joinedSessions' = w.list
      /\ w.kind = "union" => joinedSessions' = joinedSessions \union w.list
  BY CommitLemma DEF Writes
<1>2. ListOf(d) /\ QueuedBy(d) /\ 1 \in 1 .. Len(queue[d])
  BY <1>1 DEF CatalogueInv
<1>3. joinedSessions' = joinedSessions \union w.list
  BY <1>1, <1>2 DEF ListOf
<1>4. w.list \subseteq (1 .. NumOthers) \union documents
  <2> SUFFICES ASSUME NEW s \in Sessions, s \in w.list
               PROVE  Exists(s)
    BY <1>1 DEF Exists
  <2>1. Exists(s) \/ AddedBy(d, 1 - 1, s)
    BY <1>2 DEF QueuedBy
  <2>2. ~AddedBy(d, 1 - 1, s)
    BY DEF AddedBy, IsAdd
  <2> QED  BY <2>1, <2>2
<1>5. DOMAIN [s \in documents |-> name[s]] = documents
  OBVIOUS
<1>6. UNCHANGED [s \in documents |-> name[s]]
  BY <1>1
<1> HIDE DEF w
<1> QED  BY <1>3, <1>4, <1>5, <1>6 DEF UserCatalogue!Remember

\* Nothing else is seen of the documents and their names.
LEMMA CatalogueNext ==
    ASSUME AllHabits \subseteq Habits, TypeInv, AddsInv, CatalogueInv, [Next]_vars
    PROVE  UserCatalogue!Next \/ UNCHANGED CatalogueVars
<1>0. "turns" \in Habits
  BY DEF AllHabits
<1>1. ASSUME documents' = documents, joinedSessions' = joinedSessions,
             \A s \in documents : name'[s] = name[s]
      PROVE  UNCHANGED CatalogueVars
  BY <1>1 DEF CatalogueVars
<1>2. CASE UNCHANGED vars
  BY <1>1, <1>2 DEF vars, docVars
<1>3. ASSUME NEW d \in Devices, Step(d), ~Commit(d), ~saveSession(d)
      PROVE  UNCHANGED CatalogueVars
  <2>1. documents' = documents /\ joinedSessions' = joinedSessions /\ name' = name
    BY <1>3 DEF Step, createAccount, AccountMade, AccountRefused, AccountHeard, AccountLost,
                createNewSession, CreateFails, LogIn, logOut, Crash, joinSession, docVars
  <2> QED  BY <1>1, <2>1
<1>4. ASSUME NEW d \in Devices, saveSession(d)
      PROVE  UNCHANGED CatalogueVars
  <2>1. /\ documents' = documents /\ joinedSessions' = joinedSessions
        /\ name' = [name EXCEPT ![count + 1] = draft[d]]
    BY <1>4 DEF saveSession, docVars
  <2>2. \A s \in documents : s \in Sessions /\ s # count + 1
    BY DEF AddsInv, SessionInv, TypeInv, TypeOK
  <2>3. \A s \in documents : name'[s] = name[s]
    BY <2>1, <2>2 DEF TypeInv, TypeOK
  <2> QED  BY <1>1, <2>1, <2>3
<1>5. ASSUME NEW d \in Devices, Commit(d)
      PROVE  UserCatalogue!Next \/ UNCHANGED CatalogueVars
  <2>1. /\ Len(queue[d]) \in Nat /\ Len(queue[d]) >= 1
        /\ queue[d][1] \in Writes
        /\ queue[d][1].kind \in {"user", "add", "list", "union"}
        /\ documents' = IF queue[d][1].kind = "add" THEN documents \union {queue[d][1].session}
                                                    ELSE documents
        /\ queue[d][1].kind \in {"user", "add"} => joinedSessions' = joinedSessions
        /\ name' = name
    BY <1>5, CommitLemma
  <2>2. CASE queue[d][1].kind = "user"
    BY <1>1, <2>1, <2>2
  <2>3. CASE queue[d][1].kind = "add"
    <3>1. PICK s \in Sessions : s = queue[d][1].session
      BY <2>1 DEF Writes
    <3>2. IsAdd(d, 1) /\ documents' = documents \union {s} /\ joinedSessions' = joinedSessions
      BY <2>1, <2>3, <3>1 DEF IsAdd
    <3>3. PICK title \in Names : title = name[s]
      BY DEF TypeInv, TypeOK
    <3>4. UserCatalogue!Create(s, title)
      BY <1>0, <2>1, <3>1, <3>2, <3>3, CatalogueCreates
    <3> QED  BY <3>4 DEF UserCatalogue!Next
  <2>4. CASE queue[d][1].kind \in {"list", "union"}
    <3>1. UserCatalogue!Remember
      BY <1>5, <2>4, CatalogueRemembers
    <3> QED  BY <3>1 DEF UserCatalogue!Next
  <2> QED  BY <2>1, <2>2, <2>3, <2>4
<1> QED  BY <1>2, <1>3, <1>4, <1>5 DEF Next, Step

\* A user who takes turns at his devices and creates sessions where the list is
\* new has a Catalogue of his sessions: no past session is ever lost or made up,
\* whatever crashes between the writes, and titles are unique.
THEOREM SessionsAreACatalogue ==
    AllHabits \subseteq Habits => (Spec => KeepsACatalogue)
<1> SUFFICES ASSUME AllHabits \subseteq Habits
             PROVE  Spec => KeepsACatalogue
  OBVIOUS
<1>1. ASSUME Init
      PROVE  CatalogueInv /\ UserCatalogue!Init
  <2>1. /\ documents = {} /\ joinedSessions = {}
        /\ \A d \in Devices : Len(queue[d]) = 0 /\ step[d] = "no" /\ defaults[d] = {}
    BY <1>1, EmptySeq DEF Init
  <2>2. CatalogueInv
    BY <2>1 DEF CatalogueInv, KeptBy, QueuedBy, ListOf, FreshAt
  <2>3. [s \in documents |-> name[s]] = [s \in {} |-> {}]
    BY <2>1
  <2> QED  BY <2>1, <2>2, <2>3 DEF UserCatalogue!Init
<1>2. TypeInv /\ AddsInv /\ CatalogueInv /\ [Next]_vars => CatalogueInv'
  BY TypeStep, CatalogueStep DEF AddsInv
<1>3. TypeInv /\ AddsInv /\ CatalogueInv /\ [Next]_vars => [UserCatalogue!Next]_CatalogueVars
  BY CatalogueNext
<1> QED
  BY <1>1, <1>2, <1>3, AddsInvariant, PTL
     DEF Spec, KeepsACatalogue, UserCatalogue!Spec, CatalogueVars
=============================================================================
