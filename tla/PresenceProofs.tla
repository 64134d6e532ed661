---------------------------- MODULE PresenceProofs ----------------------------
(* Proofs about Presence, for every set of users and sessions, every naming  *)
(* of the sessions, with and without crashes and isolation.                  *)
EXTENDS Presence, SequenceTheorems, NaturalsInduction, WellFoundedInduction, TLAPS

USE NoneAssumption, NameAssumption, FaultsAssumption, IsolatedAssumption, OpsAssumption

-----------------------------------------------------------------------------
(* The inductive invariants.                                                 *)

Lines == [session : Sessions, list : Lists]

\* An open Studio is of a session; a join is of one too, and once its query is
\* answered the client's Session object is the one of that session.
Links ==
    \A u \in Users :
      /\ cur[u].open => cur[u].session \in Sessions
      /\ old[u].open => old[u].session \in Sessions
      /\ joining[u] # "no" => target[u] \in Sessions /\ login[u]
      /\ joining[u] \in {"write", "remember"} => cur[u].session = target[u]

TypeInv == TypeOK /\ Links

\* The sessions a user tapped Join for are those of his joins and Studios.
TappedInv ==
    \A u \in Users :
      /\ joining[u] # "no" => target[u] \in tapped[u]
      /\ cur[u].open => cur[u].session \in tapped[u]
      /\ old[u].open => old[u].session \in tapped[u]

\* The sessions that u remembers or is on the way to.
Remembered(u) ==
    joined[u] \union (IF joining[u] \in {"write", "remember"} THEN {target[u]} ELSE {})

\* Entries of a user are only in lists of sessions that A gives him.
MentionsIn(A, list, s) == \A v \in Users : Entries(list, v) > 0 => s \in A[v]

QueueWithin(A, q) == \A i \in 1 .. Len(q) : MentionsIn(A, q[i].list, q[i].session)

ObjectWithin(A, o) == o.session # None => MentionsIn(A, o.list, o.session)

\* ... in whatever copy of a list: documents, queues, and the objects of the
\* Studios, now or after a step.
ListsWithin(A, docs, queues, curs, olds) ==
    /\ \A s \in Sessions : MentionsIn(A, docs[s], s)
    /\ \A u \in Users :
         /\ QueueWithin(A, queues[u])
         /\ ObjectWithin(A, curs[u])
         /\ ObjectWithin(A, olds[u])

RememberedInv ==
    /\ \A u \in Users :
         /\ cur[u].open => cur[u].session \in joined[u]
         /\ old[u].open => old[u].session \in joined[u]
    /\ ListsWithin([u \in Users |-> Remembered(u)], doc, queue, cur, old)

-----------------------------------------------------------------------------
(* The operators of the model.                                               *)

\* A non-empty set of positions has a greatest one.
LEMMA GreatestLemma ==
    ASSUME NEW n \in Nat, NEW T \in SUBSET (1 .. n), T # {}
    PROVE  \E i \in T : \A j \in T : j <= i
<1> DEFINE R == {ss \in Nat \X Nat : ss[1] < ss[2]}
           B == {k \in Nat : \A j \in T : j <= k}
<1>1. IsWellFoundedOn(R, Nat)
  BY NatLessThanWellFounded DEF OpToRel
<1>2. PICK k \in B : \A m \in B : <<m, k>> \notin R
  <2>1. B \subseteq Nat /\ n \in B
    OBVIOUS
  <2> HIDE DEF B
  <2> QED  BY <1>1, <2>1, WFMin
<1>3. \A m \in B : ~(m < k)
  BY <1>2
<1>4. k # 0
  <2> PICK t \in T : TRUE
    OBVIOUS
  <2> QED OBVIOUS
<1>5. k - 1 \notin B /\ k - 1 \in Nat
  BY <1>3, <1>4
<1>6. PICK j \in T : ~(j <= k - 1)
  BY <1>5
<1> QED  BY <1>6

\* What a client sees of a list is the document's list or one it has queued
\* for that session.
LEMMA ViewLemma ==
    ASSUME TypeOK, NEW u \in Users, NEW s \in Sessions
    PROVE  /\ View(u, s) \in Lists
           /\ \/ View(u, s) = doc[s]
              \/ \E i \in 1 .. Len(queue[u]) :
                   queue[u][i].session = s /\ View(u, s) = queue[u][i].list
<1> DEFINE mine == {i \in 1 .. Len(queue[u]) : queue[u][i].session = s}
           last == CHOOSE i \in mine : \A j \in mine : j <= i
<1>1. queue[u] \in Seq(Lines) /\ doc[s] \in Lists
  BY DEF TypeOK, Lines
<1>2. CASE mine = {}
  BY <1>1, <1>2 DEF View
<1>3. CASE mine # {}
  <2>1. Len(queue[u]) \in Nat /\ mine \in SUBSET (1 .. Len(queue[u]))
    BY <1>1
  <2>2. last \in mine
    <3> HIDE DEF mine
    <3> QED  BY <1>3, <2>1, GreatestLemma
  <2>3. View(u, s) = queue[u][last].list
    BY <1>3 DEF View
  <2> HIDE DEF last
  <2>4. queue[u][last] \in Lines
    BY <1>1, <2>1, <2>2
  <2> QED  BY <2>2, <2>3, <2>4 DEF Lines
<1> QED  BY <1>2, <1>3

\* The edits of a list give lists, and change the entries of one user only.
LEMMA EditLemma ==
    ASSUME NEW l \in Lists, NEW u \in Users, NEW b \in BOOLEAN
    PROVE  /\ Entries(l, u) \in Nat
           /\ Without(l, u) \in Lists /\ Entries(Without(l, u), u) = 0
           /\ With(l, u) \in Lists /\ Entries(With(l, u), u) = Entries(l, u) + 1
           /\ WithStatus(l, u, b) \in Lists /\ Entries(WithStatus(l, u, b), u) = Entries(l, u)
           /\ \A v \in Users \ {u} :
                /\ Entries(Without(l, u), v) = Entries(l, v)
                /\ Entries(With(l, u), v) = Entries(l, v)
                /\ Entries(WithStatus(l, u, b), v) = Entries(l, v)
<1>1. l[u].standby \in Nat /\ l[u].ready \in Nat
  BY DEF Lists
<1>2. Entries(l, u) \in Nat
  BY <1>1 DEF Entries
<1>3. Without(l, u) \in Lists /\ Without(l, u)[u] = Absent
  BY DEF Without, Lists, Absent
<1>4. With(l, u) \in Lists /\ With(l, u)[u] = [standby |-> l[u].standby + 1, ready |-> l[u].ready]
  BY <1>1 DEF With, Lists
<1>5. /\ WithStatus(l, u, b) \in Lists
      /\ WithStatus(l, u, b)[u] = IF b THEN [standby |-> 0, ready |-> Entries(l, u)]
                                       ELSE [standby |-> Entries(l, u), ready |-> 0]
  BY <1>2 DEF WithStatus, Lists
<1>6. ASSUME NEW v \in Users \ {u}
      PROVE  /\ Without(l, u)[v] = l[v]
             /\ With(l, u)[v] = l[v]
             /\ WithStatus(l, u, b)[v] = l[v]
  BY <1>6 DEF Without, With, WithStatus, Lists
<1> QED  BY <1>1, <1>2, <1>3, <1>4, <1>5, <1>6 DEF Entries, Absent

\* What Session.m does to a Session object: the session stays, the list is
\* edited, and the writes are of that session.
LEMMA ObjectLemma ==
    ASSUME TypeOK, NEW u \in Users, NEW o \in Objects
    PROVE  /\ RemoveFrom(u, o) \in Objects
           /\ Entered(u, o) \in Objects
           /\ Readied(u, o) \in Objects
           /\ RemoveFrom(u, o).session = o.session /\ RemoveFrom(u, o).open = o.open
           /\ Entered(u, o).session = o.session /\ Entered(u, o).open = o.open
           /\ Readied(u, o).session = o.session /\ Readied(u, o).open = o.open
           /\ RemoveFrom(u, o).list \in {o.list, Without(o.list, u)}
           /\ Entered(u, o).list = With(o.list, u)
           /\ Readied(u, o).list = WithStatus(o.list, u, o.switch)
<1>1. o.list \in Lists /\ o.switch \in BOOLEAN
  BY DEF Objects
<1>2. /\ Without(o.list, u) \in Lists
      /\ With(o.list, u) \in Lists
      /\ WithStatus(o.list, u, o.switch) \in Lists
  BY <1>1, EditLemma
<1>3. RemoveFrom(u, o) \in Objects
  BY <1>2 DEF RemoveFrom, Objects
<1>4. Entered(u, o) \in Objects /\ Entered(u, o).list = With(o.list, u)
  BY <1>2 DEF Entered, Objects
<1>5. Readied(u, o) \in Objects /\ Readied(u, o).list = WithStatus(o.list, u, o.switch)
  BY <1>2 DEF Readied, Objects
<1>6. RemoveFrom(u, o).list \in {o.list, Without(o.list, u)}
  BY <1>2 DEF RemoveFrom, Objects
<1>7. /\ RemoveFrom(u, o).session = o.session /\ RemoveFrom(u, o).open = o.open
      /\ Entered(u, o).session = o.session /\ Entered(u, o).open = o.open
      /\ Readied(u, o).session = o.session /\ Readied(u, o).open = o.open
  BY DEF RemoveFrom, Entered, Readied, Objects
<1> QED  BY <1>3, <1>4, <1>5, <1>6, <1>7

\* The writes with which a client leaves or enters a session.
LEMMA WritesLemma ==
    ASSUME TypeOK, NEW u \in Users, NEW o \in Objects
    PROVE  /\ Leave(u, o) \in Seq(Lines)
           /\ (o.open => o.session \in Sessions) => Enter(u, o) \in Seq(Lines)
<1>1. ASSUME NEW p \in Objects, p.session \in Sessions PROVE Write(p) \in Lines
  BY <1>1 DEF Write, Lines, Objects
<1>2. Leave(u, o) \in Seq(Lines)
  <2>1. CASE o.session = None
    BY <2>1 DEF Leave
  <2>2. CASE o.session # None
    <3>1. o.session \in Sessions
      BY <2>2 DEF Objects
    <3>2. Write(RemoveFrom(u, o)) \in Lines
      BY <1>1, <3>1, ObjectLemma
    <3> QED  BY <2>2, <3>2 DEF Leave
  <2> QED  BY <2>1, <2>2
<1>3. ASSUME o.open => o.session \in Sessions PROVE Enter(u, o) \in Seq(Lines)
  <2>1. CASE ~o.open
    BY <2>1 DEF Enter
  <2>2. CASE o.open
    <3> DEFINE p == Entered(u, o)
               q == Readied(u, p)
    <3>1. p \in Objects /\ p.session = o.session
      BY ObjectLemma
    <3>2. q \in Objects /\ q.session = o.session
      <4> HIDE DEF p
      <4> QED  BY <3>1, ObjectLemma
    <3>3. Write(p) \in Lines /\ Write(q) \in Lines
      <4> HIDE DEF p, q
      <4> QED  BY <1>1, <1>3, <2>2, <3>1, <3>2
    <3>4. Enter(u, o) = <<Write(p), Write(q)>>
      BY <2>2 DEF Enter
    <3> HIDE DEF p, q
    <3> QED  BY <3>3, <3>4
  <2> QED  BY <2>1, <2>2
<1> QED  BY <1>2, <1>3

-----------------------------------------------------------------------------
(* Type correctness.                                                         *)

\* Writes of a client are added to its queue.
LEMMA QueueType ==
    ASSUME NEW q \in Seq(Lines), NEW w \in Seq(Lines)
    PROVE  q \o w \in Seq(Lines)
BY ConcatProperties

\* A step that changes the objects and the queue of one client only.
LEMMA ClientType ==
    ASSUME TypeOK, NEW u \in Users, NEW c \in Objects, NEW o \in Objects,
           NEW q \in Seq(Lines),
           cur' = [cur EXCEPT ![u] = c],
           old' = [old EXCEPT ![u] = o],
           queue' = [queue EXCEPT ![u] = q]
    PROVE  /\ cur' \in [Users -> Objects] /\ old' \in [Users -> Objects]
           /\ queue' \in [Users -> Seq(Lines)]
           /\ cur'[u] = c /\ old'[u] = o /\ queue'[u] = q
           /\ \A v \in Users \ {u} :
                cur'[v] = cur[v] /\ old'[v] = old[v] /\ queue'[v] = queue[v]
BY DEF TypeOK, Lines

\* Opening the Studio.
LEMMA OpenType ==
    ASSUME TypeOK, NEW u \in Users, OpenStudio(u)
    PROVE  /\ cur' \in [Users -> Objects]
           /\ cur'[u] = [cur[u] EXCEPT !.open = TRUE]
           /\ cur'[u].session = cur[u].session /\ cur'[u].list = cur[u].list
           /\ cur'[u].open
           /\ \A v \in Users \ {u} : cur'[v] = cur[v]
<1> DEFINE c == [cur[u] EXCEPT !.open = TRUE]
<1>1. cur[u] \in Objects /\ cur \in [Users -> Objects]
  BY DEF TypeOK
<1>2. c \in Objects /\ c.session = cur[u].session /\ c.list = cur[u].list /\ c.open
  BY <1>1 DEF Objects
<1>3. cur' = [cur EXCEPT ![u] = c]
  BY DEF OpenStudio
<1> HIDE DEF c
<1>4. cur' \in [Users -> Objects] /\ cur'[u] = c /\ \A v \in Users \ {u} : cur'[v] = cur[v]
  BY <1>1, <1>2, <1>3
<1> QED  BY <1>2, <1>4 DEF c

\* The same if it leaves the joins alone.
LEMMA ClientLinks ==
    ASSUME TypeInv, NEW u \in Users, NEW c \in Objects, NEW o \in Objects,
           NEW q \in Seq(Lines),
           cur' = [cur EXCEPT ![u] = c],
           old' = [old EXCEPT ![u] = o],
           queue' = [queue EXCEPT ![u] = q],
           c.open => c.session \in Sessions,
           o.open => o.session \in Sessions,
           c.session = cur[u].session,
           UNCHANGED <<login, joining, target>>
    PROVE  Links'
<1>1. /\ cur'[u] = c /\ old'[u] = o
      /\ \A v \in Users \ {u} : cur'[v] = cur[v] /\ old'[v] = old[v]
  BY ClientType DEF TypeInv
<1>2. ASSUME NEW v \in Users
      PROVE  /\ cur'[v].open => cur'[v].session \in Sessions
             /\ old'[v].open => old'[v].session \in Sessions
             /\ joining'[v] # "no" => target'[v] \in Sessions /\ login'[v]
             /\ joining'[v] \in {"write", "remember"} => cur'[v].session = target'[v]
  BY <1>1 DEF TypeInv, Links
<1> QED  BY <1>2 DEF Links

\* Every step of a client or the server keeps the types and the links.
LEMMA TypeStep ==
    TypeInv /\ [Next]_vars => TypeInv'
<1> SUFFICES ASSUME TypeInv, [Next]_vars PROVE TypeInv'
  OBVIOUS
<1>0. TypeOK /\ Links
  BY DEF TypeInv
<1>o. ASSUME NEW u \in Users
      PROVE  /\ cur[u] \in Objects /\ old[u] \in Objects /\ queue[u] \in Seq(Lines)
             /\ cur = [cur EXCEPT ![u] = cur[u]]
             /\ old = [old EXCEPT ![u] = old[u]]
             /\ queue = [queue EXCEPT ![u] = queue[u]]
             /\ cur[u].open => cur[u].session \in Sessions
             /\ old[u].open => old[u].session \in Sessions
             /\ cur[u].session # None => cur[u].session \in Sessions
  BY <1>0 DEF TypeOK, Links, Lines, Objects
<1>a. ASSUME NEW u \in Users, Act(u) PROVE ops' \in [Users -> 0 .. MaxOps]
  BY <1>0, <1>a DEF Act, TypeOK
<1>n. NoObject \in Objects /\ ~NoObject.open
  BY DEF NoObject, NoList, Objects, Lists, Absent
<1>1. ASSUME NEW u \in Users, NEW s \in Sessions, TapJoin(u, s) PROVE TypeInv'
  <2>1. PICK c \in Objects, q \in Seq(Lines) :
          /\ cur' = [cur EXCEPT ![u] = c]
          /\ queue' = [queue EXCEPT ![u] = q]
          /\ c.open = cur[u].open /\ c.session = cur[u].session
    <3>1. CASE OtherSession(u, s)
      <4>1. /\ cur' = [cur EXCEPT ![u] = RemoveFrom(u, cur[u])]
            /\ queue' = [queue EXCEPT ![u] = queue[u] \o Leave(u, cur[u])]
        BY <1>1, <3>1 DEF TapJoin
      <4>2. /\ RemoveFrom(u, cur[u]) \in Objects
            /\ RemoveFrom(u, cur[u]).open = cur[u].open
            /\ RemoveFrom(u, cur[u]).session = cur[u].session
        BY <1>0, <1>o, ObjectLemma
      <4>3. queue[u] \o Leave(u, cur[u]) \in Seq(Lines)
        BY <1>0, <1>o, WritesLemma, QueueType
      <4> QED  BY <4>1, <4>2, <4>3
    <3>2. CASE ~OtherSession(u, s)
      BY <1>1, <1>o, <3>2 DEF TapJoin
    <3> QED  BY <3>1, <3>2
  <2>2. old' = [old EXCEPT ![u] = old[u]]
    BY <1>1, <1>o DEF TapJoin
  <2>3. /\ cur' \in [Users -> Objects] /\ queue' \in [Users -> Seq(Lines)]
        /\ cur'[u] = c /\ \A v \in Users \ {u} : cur'[v] = cur[v]
    BY <1>0, <1>o, <2>1, <2>2, ClientType
  <2>4. TypeOK'
    BY <1>0, <1>1, <1>a, <2>3 DEF TapJoin, TypeOK, Lines
  <2>5. Links'
    BY <1>0, <1>1, <1>o, <2>1, <2>3 DEF TapJoin, TypeOK, Links
  <2> QED  BY <2>4, <2>5 DEF TypeInv
<1>2. ASSUME NEW u \in Users, JoinFails(u) PROVE TypeInv'
  BY <1>0, <1>2 DEF TypeInv, JoinFails, TypeOK, Links
<1>3. ASSUME NEW u \in Users, JoinFetched(u) PROVE TypeInv'
  <2> DEFINE s == target[u]
  <2>1. s \in Sessions /\ View(u, s) \in Lists /\ joining[u] = "fetch"
    BY <1>0, <1>3, ViewLemma DEF Links, JoinFetched
  <2>2. With(Fetched(u, s), u) \in Lists
    BY <2>1, EditLemma DEF Fetched
  <2>3. PICK c \in Objects, o \in Objects, q \in Seq(Lines) :
          /\ cur' = [cur EXCEPT ![u] = c]
          /\ old' = [old EXCEPT ![u] = o]
          /\ queue' = [queue EXCEPT ![u] = q]
          /\ c.session = s /\ (o.open => o.session \in Sessions)
    <3> DEFINE b == [session |-> s, open |-> FALSE, switch |-> FALSE,
                     list |-> IF Listed(u, s) THEN Fetched(u, s)
                              ELSE With(Fetched(u, s), u)]
    <3>1. b \in Objects /\ b.session = s
      BY <2>1, <2>2 DEF Objects, Fetched
    <3>2. [b EXCEPT !.open = TRUE] \in Objects /\ [b EXCEPT !.open = TRUE].session = s
      BY <3>1 DEF Objects
    <3>3. queue[u] \o <<Write(b)>> \in Seq(Lines) /\ Append(queue[u], Write(b)) \in Seq(Lines)
      <4>1. Write(b) \in Lines
        BY <2>1, <3>1 DEF Write, Lines, Objects
      <4> HIDE DEF b
      <4> QED  BY <1>o, <4>1
    <3>4. \E o \in Objects : old' = [old EXCEPT ![u] = o] /\ (o.open => o.session \in Sessions)
      BY <1>3, <1>o DEF JoinFetched
    <3>5. \/ cur' = [cur EXCEPT ![u] = [b EXCEPT !.open = TRUE]] /\ queue' = queue
          \/ cur' = [cur EXCEPT ![u] = b] /\ queue' = [queue EXCEPT ![u] = Append(@, Write(b))]
      BY <1>3 DEF JoinFetched
    <3> HIDE DEF b
    <3> QED  BY <1>o, <3>1, <3>2, <3>3, <3>4, <3>5
  <2>4. /\ cur' \in [Users -> Objects] /\ old' \in [Users -> Objects]
        /\ queue' \in [Users -> Seq(Lines)]
        /\ cur'[u] = c /\ old'[u] = o
        /\ \A v \in Users \ {u} : cur'[v] = cur[v] /\ old'[v] = old[v]
    BY <1>0, <2>3, ClientType
  <2>5. pending' \in [Users -> Nat]
    <3>1. Len(queue[u]) + 1 \in Nat
      BY <1>o
    <3>2. pending' = [pending EXCEPT ![u] = Len(queue[u]) + 1] \/ pending' = pending
      BY <1>3 DEF JoinFetched
    <3>3. pending \in [Users -> Nat]
      BY <1>0 DEF TypeOK
    <3> QED  BY <3>1, <3>2, <3>3
  <2>6. TypeOK'
    BY <1>0, <1>3, <2>4, <2>5 DEF JoinFetched, TypeOK, Lines
  <2>7. Links'
    BY <1>0, <1>3, <2>1, <2>3, <2>4 DEF JoinFetched, TypeOK, Links
  <2> QED  BY <2>6, <2>7 DEF TypeInv
<1>4. ASSUME NEW u \in Users, JoinWritten(u) PROVE TypeInv'
  <2>1. CASE OpenStudio(u)
    <3>1. /\ cur' \in [Users -> Objects]
          /\ cur'[u].session = cur[u].session
          /\ \A v \in Users \ {u} : cur'[v] = cur[v]
      BY <1>0, <2>1, OpenType
    <3>2. cur[u].session = target[u] /\ target[u] \in Sessions
      BY <1>0, <1>4 DEF JoinWritten, Links
    <3>3. joining' = [joining EXCEPT ![u] = "no"]
      BY <2>1 DEF OpenStudio
    <3>4. TypeOK'
      BY <1>0, <1>4, <3>1, <3>3 DEF JoinWritten, TypeOK
    <3>5. Links'
      BY <1>0, <1>4, <3>1, <3>2, <3>3 DEF JoinWritten, TypeOK, Links
    <3> QED  BY <3>4, <3>5 DEF TypeInv
  <2>2. CASE ~OpenStudio(u)
    <3>1. TypeOK'
      BY <1>0, <1>4, <2>2 DEF JoinWritten, TypeOK
    <3>2. Links'
      BY <1>0, <1>4, <2>2 DEF JoinWritten, TypeOK, Links
    <3> QED  BY <3>1, <3>2 DEF TypeInv
  <2> QED  BY <2>1, <2>2
<1>5. ASSUME NEW u \in Users, JoinDone(u) PROVE TypeInv'
  <2>1. /\ cur' \in [Users -> Objects]
        /\ cur'[u].session = cur[u].session
        /\ \A v \in Users \ {u} : cur'[v] = cur[v]
    BY <1>0, <1>5, OpenType DEF JoinDone
  <2>2. cur[u].session = target[u] /\ target[u] \in Sessions
    BY <1>0, <1>5 DEF JoinDone, Links
  <2>3. joining' = [joining EXCEPT ![u] = "no"]
    BY <1>5 DEF JoinDone, OpenStudio
  <2>4. joined' \in [Users -> SUBSET Sessions]
    <3>1. joined \in [Users -> SUBSET Sessions]
      BY <1>0 DEF TypeOK
    <3> QED  BY <1>5, <2>2, <3>1 DEF JoinDone
  <2>5. TypeOK'
    BY <1>0, <1>5, <2>1, <2>3, <2>4 DEF JoinDone, TypeOK
  <2>6. Links'
    BY <1>0, <1>5, <2>1, <2>2, <2>3 DEF JoinDone, TypeOK, Links
  <2> QED  BY <2>5, <2>6 DEF TypeInv
<1>6. ASSUME NEW u \in Users, updateUsersStatus(u) PROVE TypeInv'
  <2> DEFINE o == [cur[u] EXCEPT !.switch = ~@]
             c == Readied(u, o)
  <2>1. o \in Objects /\ o.session = cur[u].session /\ o.open = cur[u].open
    BY <1>o DEF Objects
  <2>2. cur[u].open /\ cur' = [cur EXCEPT ![u] = c]
        /\ queue' = [queue EXCEPT ![u] = Append(@, Write(c))]
        /\ UNCHANGED <<doc, old, login, active, joining, target, pending, joined, tapped>>
    BY <1>6 DEF updateUsersStatus
  <2> HIDE DEF o
  <2>3. c \in Objects /\ c.session = cur[u].session /\ c.open = cur[u].open
    BY <1>0, <2>1, ObjectLemma
  <2> HIDE DEF c
  <2>4. Write(c) \in Lines
    BY <1>o, <2>2, <2>3 DEF Write, Lines, Objects
  <2>5. Append(queue[u], Write(c)) \in Seq(Lines)
    BY <1>o, <2>4
  <2>6. ops' \in [Users -> 0 .. MaxOps]
    BY <1>6, <1>a DEF updateUsersStatus
  <2>7. /\ cur' \in [Users -> Objects] /\ old' \in [Users -> Objects]
        /\ queue' \in [Users -> Seq(Lines)]
    BY <1>0, <1>o, <2>2, <2>3, <2>5, ClientType
  <2>8. Links'
    BY <1>o, <2>2, <2>3, <2>5, ClientLinks
  <2>9. TypeOK'
    BY <1>0, <2>2, <2>6, <2>7 DEF TypeOK, Lines
  <2> QED  BY <2>8, <2>9 DEF TypeInv
<1>7. ASSUME NEW u \in Users, handleBackgroundStatus(u) PROVE TypeInv'
  <2> DEFINE c == IF cur[u].open THEN RemoveFrom(u, cur[u]) ELSE cur[u]
             o == IF old[u].open THEN RemoveFrom(u, old[u]) ELSE old[u]
             w == IF old[u].open THEN Leave(u, old[u]) ELSE <<>>
             x == IF cur[u].open THEN Leave(u, cur[u]) ELSE <<>>
  <2>1. /\ cur' = [cur EXCEPT ![u] = c] /\ old' = [old EXCEPT ![u] = o]
        /\ queue' = [queue EXCEPT ![u] = (queue[u] \o w) \o x]
        /\ active' = [active EXCEPT ![u] = FALSE]
        /\ UNCHANGED <<doc, login, joining, target, pending, joined, tapped>>
    BY <1>7 DEF handleBackgroundStatus
  <2>a. ASSUME NEW p \in Objects
        PROVE  /\ RemoveFrom(u, p) \in Objects
               /\ RemoveFrom(u, p).open = p.open
               /\ RemoveFrom(u, p).session = p.session
    BY <1>0, ObjectLemma
  <2>2. c \in Objects /\ c.open = cur[u].open /\ c.session = cur[u].session
    BY <1>o, <2>a
  <2>3. o \in Objects /\ o.open = old[u].open /\ o.session = old[u].session
    BY <1>o, <2>a
  <2>4. w \in Seq(Lines) /\ x \in Seq(Lines)
    BY <1>0, <1>o, WritesLemma
  <2> HIDE DEF c, o, w, x
  <2>5. (queue[u] \o w) \o x \in Seq(Lines)
    BY <1>o, <2>4, QueueType
  <2>6. ops' \in [Users -> 0 .. MaxOps]
    BY <1>7, <1>a DEF handleBackgroundStatus
  <2>7. /\ cur' \in [Users -> Objects] /\ old' \in [Users -> Objects]
        /\ queue' \in [Users -> Seq(Lines)]
    BY <1>0, <2>1, <2>2, <2>3, <2>5, ClientType
  <2>8. Links'
    BY <1>o, <2>1, <2>2, <2>3, <2>5, ClientLinks
  <2>9. TypeOK'
    BY <1>0, <2>1, <2>6, <2>7 DEF TypeOK, Lines
  <2> QED  BY <2>8, <2>9 DEF TypeInv
<1>r. ASSUME NEW u \in Users, Act(u), Restart(u) PROVE TypeInv'
  <2>1. cur' \in [Users -> Objects] /\ old' \in [Users -> Objects]
    BY <1>0, <1>n, <1>r DEF Restart, TypeOK
  <2>2. TypeOK'
    BY <1>0, <1>r, <1>a, <2>1 DEF Restart, TypeOK
  <2>3. Links'
    BY <1>0, <1>n, <1>r DEF Restart, TypeOK, Links
  <2> QED  BY <2>2, <2>3 DEF TypeInv
<1>8. ASSUME NEW u \in Users, handleForegroundStatus(u) PROVE TypeInv'
  <2>1. CASE ~login[u] /\ (old[u].open \/ cur[u].open)
    BY <1>8, <1>r, <2>1 DEF handleForegroundStatus
  <2>2. CASE ~(~login[u] /\ (old[u].open \/ cur[u].open))
    <3> DEFINE c == IF cur[u].open THEN Readied(u, Entered(u, cur[u])) ELSE cur[u]
               o == IF old[u].open THEN Readied(u, Entered(u, old[u])) ELSE old[u]
               w == Enter(u, old[u])
               x == Enter(u, cur[u])
    <3>1. /\ cur' = [cur EXCEPT ![u] = c] /\ old' = [old EXCEPT ![u] = o]
          /\ queue' = [queue EXCEPT ![u] = (queue[u] \o w) \o x]
          /\ active' = [active EXCEPT ![u] = TRUE]
          /\ UNCHANGED <<doc, login, joining, target, pending, joined, tapped>>
      BY <1>8, <2>2 DEF handleForegroundStatus
    <3>2. ASSUME NEW p \in Objects
          PROVE  /\ Readied(u, Entered(u, p)) \in Objects
                 /\ Readied(u, Entered(u, p)).open = p.open
                 /\ Readied(u, Entered(u, p)).session = p.session
      <4>1. Entered(u, p) \in Objects /\ Entered(u, p).open = p.open
            /\ Entered(u, p).session = p.session
        BY <1>0, ObjectLemma
      <4> QED  BY <1>0, <4>1, ObjectLemma
    <3>3. /\ c \in Objects /\ c.open = cur[u].open /\ c.session = cur[u].session
          /\ o \in Objects /\ o.open = old[u].open /\ o.session = old[u].session
      BY <1>o, <3>2
    <3>4. w \in Seq(Lines) /\ x \in Seq(Lines)
      BY <1>0, <1>o, WritesLemma
    <3> HIDE DEF c, o, w, x
    <3>5. (queue[u] \o w) \o x \in Seq(Lines)
      BY <1>o, <3>4, QueueType
    <3>6. ops' \in [Users -> 0 .. MaxOps]
      BY <1>8, <1>a DEF handleForegroundStatus
    <3>7. /\ cur' \in [Users -> Objects] /\ old' \in [Users -> Objects]
          /\ queue' \in [Users -> Seq(Lines)]
      BY <1>0, <3>1, <3>3, <3>5, ClientType
    <3>8. Links'
      BY <1>o, <3>1, <3>3, <3>5, ClientLinks
    <3>9. TypeOK'
      BY <1>0, <3>1, <3>6, <3>7 DEF TypeOK, Lines
    <3> QED  BY <3>8, <3>9 DEF TypeInv
  <2> QED  BY <2>1, <2>2
<1>9. ASSUME NEW u \in Users, logOutTapped(u) PROVE TypeInv'
  <2> DEFINE o == IF cur[u].open THEN RemoveFrom(u, cur[u]) ELSE old[u]
             w == Leave(u, cur[u])
  <2>1. /\ cur' = [cur EXCEPT ![u] = NoObject] /\ old' = [old EXCEPT ![u] = o]
        /\ queue' = [queue EXCEPT ![u] = (queue[u] \o w) \o w]
        /\ login' = [login EXCEPT ![u] = FALSE]
        /\ joining[u] = "no"
        /\ UNCHANGED <<doc, active, joining, target, pending, joined, tapped>>
    BY <1>9 DEF logOutTapped
  <2>2. o \in Objects /\ (o.open => o.session \in Sessions)
    BY <1>0, <1>o, ObjectLemma
  <2>3. w \in Seq(Lines)
    BY <1>0, <1>o, WritesLemma
  <2> HIDE DEF o, w
  <2>4. (queue[u] \o w) \o w \in Seq(Lines)
    BY <1>o, <2>3, QueueType
  <2>5. ops' \in [Users -> 0 .. MaxOps]
    BY <1>9, <1>a DEF logOutTapped
  <2>6. /\ cur' \in [Users -> Objects] /\ old' \in [Users -> Objects]
        /\ queue' \in [Users -> Seq(Lines)]
        /\ cur'[u] = NoObject /\ old'[u] = o
        /\ \A v \in Users \ {u} : cur'[v] = cur[v] /\ old'[v] = old[v]
    BY <1>0, <1>n, <2>1, <2>2, <2>4, ClientType
  <2>7. TypeOK'
    BY <1>0, <2>1, <2>5, <2>6 DEF TypeOK, Lines
  <2>8. Links'
    BY <1>0, <1>n, <2>1, <2>2, <2>6 DEF TypeOK, Links
  <2> QED  BY <2>7, <2>8 DEF TypeInv
<1>10. ASSUME NEW u \in Users, LogIn(u) PROVE TypeInv'
  BY <1>0, <1>10, <1>a DEF TypeInv, LogIn, TypeOK, Links
<1>11. ASSUME NEW u \in Users, AssignPlayers(u) PROVE TypeInv'
  <2>1. PICK c \in Objects, o \in Objects :
          /\ cur' = [cur EXCEPT ![u] = c] /\ c.open = cur[u].open
          /\ c.session = cur[u].session
          /\ old' = [old EXCEPT ![u] = o] /\ o.open = old[u].open
          /\ o.session = old[u].session
    <3>1. ASSUME NEW p \in Objects, NEW l \in Lists
          PROVE  /\ [p EXCEPT !.list = l] \in Objects
                 /\ [p EXCEPT !.list = l].open = p.open
                 /\ [p EXCEPT !.list = l].session = p.session
      BY DEF Objects
    <3>2. ASSUME NEW p \in {cur[u], old[u]}, p.open PROVE View(u, p.session) \in Lists
      BY <1>0, <1>o, <3>2, ViewLemma
    <3>3. CASE /\ cur[u].open /\ UNCHANGED old
               /\ cur' = [cur EXCEPT ![u].list = View(u, cur[u].session)]
      <4>1. cur' = [cur EXCEPT ![u] = [cur[u] EXCEPT !.list = View(u, cur[u].session)]]
        BY <3>3
      <4>2. View(u, cur[u].session) \in Lists
        BY <3>2, <3>3
      <4>3. /\ [cur[u] EXCEPT !.list = View(u, cur[u].session)] \in Objects
            /\ [cur[u] EXCEPT !.list = View(u, cur[u].session)].open = cur[u].open
            /\ [cur[u] EXCEPT !.list = View(u, cur[u].session)].session = cur[u].session
        BY <1>o, <3>1, <4>2
      <4> QED  BY <1>o, <3>3, <4>1, <4>3
    <3>4. CASE /\ old[u].open /\ UNCHANGED cur
               /\ old' = [old EXCEPT ![u].list = View(u, old[u].session)]
      <4>1. old' = [old EXCEPT ![u] = [old[u] EXCEPT !.list = View(u, old[u].session)]]
        BY <3>4
      <4>2. View(u, old[u].session) \in Lists
        BY <3>2, <3>4
      <4>3. /\ [old[u] EXCEPT !.list = View(u, old[u].session)] \in Objects
            /\ [old[u] EXCEPT !.list = View(u, old[u].session)].open = old[u].open
            /\ [old[u] EXCEPT !.list = View(u, old[u].session)].session = old[u].session
        BY <1>o, <3>1, <4>2
      <4> QED  BY <1>o, <3>4, <4>1, <4>3
    <3> QED  BY <1>11, <3>3, <3>4 DEF AssignPlayers
  <2>2. UNCHANGED <<doc, queue, login, active, joining, target, pending, joined, tapped, ops>>
    BY <1>11 DEF AssignPlayers
  <2>3. /\ cur' \in [Users -> Objects] /\ old' \in [Users -> Objects]
        /\ queue' \in [Users -> Seq(Lines)]
    BY <1>0, <1>o, <2>1, <2>2, ClientType
  <2>4. Links'
    BY <1>o, <2>1, <2>2, ClientLinks
  <2>5. TypeOK'
    BY <1>0, <2>2, <2>3 DEF TypeOK, Lines
  <2> QED  BY <2>4, <2>5 DEF TypeInv
<1>12. ASSUME NEW u \in Users, Commit(u) PROVE TypeInv'
  <2>1. Head(queue[u]) \in Lines /\ Tail(queue[u]) \in Seq(Lines)
    BY <1>o, <1>12, HeadTailProperties DEF Commit
  <2>2. doc' \in [Sessions -> Lists] /\ queue' \in [Users -> Seq(Lines)]
    BY <1>0, <1>12, <2>1 DEF Commit, TypeOK, Lines
  <2>3. pending' \in [Users -> Nat]
    BY <1>0, <1>12 DEF Commit, TypeOK
  <2>4. TypeOK'
    BY <1>0, <1>12, <2>2, <2>3 DEF Commit, TypeOK, Lines
  <2>5. Links'
    BY <1>0, <1>12 DEF Commit, Links
  <2> QED  BY <2>4, <2>5 DEF TypeInv
<1>13. ASSUME NEW u \in Users, Crash(u) PROVE TypeInv'
  BY <1>13, <1>r DEF Crash
<1>14. CASE UNCHANGED vars
  BY <1>0, <1>14 DEF TypeInv, vars, TypeOK, Links
<1> QED
  BY <1>1, <1>2, <1>3, <1>4, <1>5, <1>6, <1>7, <1>8, <1>9, <1>10, <1>11, <1>12, <1>13,
     <1>14 DEF Next

-----------------------------------------------------------------------------
(* Whose entries a list has.                                                 *)

\* An edit of a list for u adds entries of u only, and only With adds one to a
\* list that has none.
LEMMA MentionsLemma ==
    ASSUME NEW A, NEW l \in Lists, NEW u \in Users, NEW b \in BOOLEAN, NEW s,
           MentionsIn(A, l, s)
    PROVE  /\ MentionsIn(A, Without(l, u), s)
           /\ MentionsIn(A, WithStatus(l, u, b), s)
           /\ s \in A[u] => MentionsIn(A, With(l, u), s)
<1>1. Entries(Without(l, u), u) = 0 /\ Entries(WithStatus(l, u, b), u) = Entries(l, u)
  BY EditLemma
<1>2. ASSUME NEW v \in Users \ {u}
      PROVE  /\ Entries(Without(l, u), v) = Entries(l, v)
             /\ Entries(With(l, u), v) = Entries(l, v)
             /\ Entries(WithStatus(l, u, b), v) = Entries(l, v)
  BY <1>2, EditLemma
<1> QED  BY <1>1, <1>2 DEF MentionsIn

\* The same of the objects that Session.m edits.
LEMMA ObjectWithinLemma ==
    ASSUME TypeOK, NEW A, NEW u \in Users, NEW o \in Objects, ObjectWithin(A, o)
    PROVE  /\ ObjectWithin(A, RemoveFrom(u, o))
           /\ ObjectWithin(A, Readied(u, o))
           /\ o.session \in A[u] => ObjectWithin(A, Entered(u, o))
<1>1. o.list \in Lists /\ o.switch \in BOOLEAN
  BY DEF Objects
<1>2. /\ RemoveFrom(u, o).session = o.session
      /\ RemoveFrom(u, o).list \in {o.list, Without(o.list, u)}
      /\ Readied(u, o).session = o.session
      /\ Readied(u, o).list = WithStatus(o.list, u, o.switch)
      /\ Entered(u, o).session = o.session
      /\ Entered(u, o).list = With(o.list, u)
  BY ObjectLemma
<1>3. CASE o.session = None
  BY <1>2, <1>3 DEF ObjectWithin
<1>4. CASE o.session # None
  <2>1. MentionsIn(A, o.list, o.session)
    BY <1>4 DEF ObjectWithin
  <2>2. /\ MentionsIn(A, Without(o.list, u), o.session)
        /\ MentionsIn(A, WithStatus(o.list, u, o.switch), o.session)
        /\ o.session \in A[u] => MentionsIn(A, With(o.list, u), o.session)
    BY <1>1, <2>1, MentionsLemma
  <2>3. ObjectWithin(A, RemoveFrom(u, o))
    BY <1>2, <2>1, <2>2 DEF ObjectWithin
  <2>4. ObjectWithin(A, Readied(u, o))
    BY <1>2, <2>2 DEF ObjectWithin
  <2>5. o.session \in A[u] => ObjectWithin(A, Entered(u, o))
    BY <1>2, <2>2 DEF ObjectWithin
  <2> QED  BY <2>3, <2>4, <2>5
<1> QED  BY <1>3, <1>4

\* A queue to which good writes are added, or whose first one is sent, is good.
LEMMA QueueWithinLemma ==
    ASSUME NEW A, NEW q \in Seq(Lines), QueueWithin(A, q)
    PROVE  /\ \A w \in Seq(Lines) : QueueWithin(A, w) => QueueWithin(A, q \o w)
           /\ q # <<>> => /\ QueueWithin(A, Tail(q))
                          /\ MentionsIn(A, Head(q).list, Head(q).session)
<1>1. ASSUME NEW w \in Seq(Lines), QueueWithin(A, w) PROVE QueueWithin(A, q \o w)
  <2>1. /\ Len(q \o w) = Len(q) + Len(w) /\ Len(q) \in Nat /\ Len(w) \in Nat
        /\ \A i \in 1 .. Len(q) + Len(w) :
             (q \o w)[i] = IF i <= Len(q) THEN q[i] ELSE w[i - Len(q)]
    BY ConcatProperties, LenProperties
  <2>2. ASSUME NEW i \in 1 .. Len(q \o w)
        PROVE  MentionsIn(A, (q \o w)[i].list, (q \o w)[i].session)
    <3>1. CASE i <= Len(q)
      BY <2>1, <3>1 DEF QueueWithin
    <3>2. CASE ~(i <= Len(q))
      <4>1. i - Len(q) \in 1 .. Len(w) /\ (q \o w)[i] = w[i - Len(q)]
        BY <2>1, <3>2
      <4> QED  BY <1>1, <4>1 DEF QueueWithin
    <3> QED  BY <3>1, <3>2
  <2> QED  BY <2>2 DEF QueueWithin
<1>2. ASSUME q # <<>>
      PROVE  QueueWithin(A, Tail(q)) /\ MentionsIn(A, Head(q).list, Head(q).session)
  <2>1. /\ Len(q) \in Nat /\ Len(q) # 0 /\ Head(q) = q[1]
        /\ Len(Tail(q)) = Len(q) - 1
        /\ \A i \in 1 .. Len(Tail(q)) : Tail(q)[i] = q[i + 1]
    BY <1>2, HeadTailProperties, LenProperties, EmptySeq
  <2>2. 1 \in 1 .. Len(q) /\ \A i \in 1 .. Len(Tail(q)) : i + 1 \in 1 .. Len(q)
    BY <2>1
  <2> QED  BY <2>1, <2>2 DEF QueueWithin
<1> QED  BY <1>1, <1>2

\* What a client writes on leaving or entering a session.
LEMMA WritesWithinLemma ==
    ASSUME TypeOK, NEW A, NEW u \in Users, NEW o \in Objects, ObjectWithin(A, o)
    PROVE  /\ QueueWithin(A, Leave(u, o))
           /\ (o.open => o.session \in A[u] /\ o.session # None) =>
                QueueWithin(A, Enter(u, o))
<1>1. QueueWithin(A, <<>>)
  BY DEF QueueWithin
<1>2. ASSUME NEW p, ObjectWithin(A, p), p.session # None
      PROVE  MentionsIn(A, Write(p).list, Write(p).session)
  BY <1>2 DEF Write, ObjectWithin
<1>3. QueueWithin(A, Leave(u, o))
  <2>1. CASE o.session = None
    BY <1>1, <2>1 DEF Leave
  <2>2. CASE o.session # None
    <3> DEFINE p == RemoveFrom(u, o)
    <3>1. ObjectWithin(A, p) /\ p.session # None
      BY <2>2, ObjectLemma, ObjectWithinLemma
    <3>2. Leave(u, o) = <<Write(p)>>
      BY <2>2 DEF Leave
    <3> HIDE DEF p
    <3>3. MentionsIn(A, Write(p).list, Write(p).session)
      BY <1>2, <3>1
    <3> QED  BY <3>2, <3>3 DEF QueueWithin
  <2> QED  BY <2>1, <2>2
<1>4. ASSUME o.open => o.session \in A[u] /\ o.session # None
      PROVE  QueueWithin(A, Enter(u, o))
  <2>1. CASE ~o.open
    BY <1>1, <2>1 DEF Enter
  <2>2. CASE o.open
    <3> DEFINE p == Entered(u, o)
               q == Readied(u, p)
    <3>1. p \in Objects /\ ObjectWithin(A, p) /\ p.session # None
      BY <1>4, <2>2, ObjectLemma, ObjectWithinLemma
    <3>2. ObjectWithin(A, q) /\ q.session # None
      <4> HIDE DEF p
      <4> QED  BY <3>1, ObjectLemma, ObjectWithinLemma
    <3>3. Enter(u, o) = <<Write(p), Write(q)>>
      BY <2>2 DEF Enter
    <3> HIDE DEF p, q
    <3>4. /\ MentionsIn(A, Write(p).list, Write(p).session)
          /\ MentionsIn(A, Write(q).list, Write(q).session)
      BY <1>2, <3>1, <3>2
    <3>5. \A i \in 1 .. 2 : LET e == <<Write(p), Write(q)>>[i] IN
                              MentionsIn(A, e.list, e.session)
      BY <3>4
    <3> QED  BY <3>3, <3>5 DEF QueueWithin
  <2> QED  BY <2>1, <2>2
<1> QED  BY <1>3, <1>4

\* A step that changes the objects and the queue of one client only keeps
\* entries within A if what it puts there is.
LEMMA ClientWithin ==
    ASSUME TypeOK, NEW A, ListsWithin(A, doc, queue, cur, old),
           NEW u \in Users, NEW c \in Objects, NEW o \in Objects, NEW q \in Seq(Lines),
           cur' = [cur EXCEPT ![u] = c],
           old' = [old EXCEPT ![u] = o],
           queue' = [queue EXCEPT ![u] = q],
           UNCHANGED doc,
           ObjectWithin(A, c), ObjectWithin(A, o), QueueWithin(A, q)
    PROVE  ListsWithin(A, doc', queue', cur', old')
<1>1. /\ cur'[u] = c /\ old'[u] = o /\ queue'[u] = q
      /\ \A v \in Users \ {u} :
           cur'[v] = cur[v] /\ old'[v] = old[v] /\ queue'[v] = queue[v]
  BY ClientType
<1>2. ASSUME NEW v \in Users
      PROVE  QueueWithin(A, queue'[v]) /\ ObjectWithin(A, cur'[v]) /\ ObjectWithin(A, old'[v])
  BY <1>1 DEF ListsWithin
<1> QED  BY <1>2 DEF ListsWithin

\* No step adds an entry of u to a list of a session that A does not give u,
\* if his Studios and the session that his join found him missing in are of A.
LEMMA WithinStep ==
    ASSUME TypeInv, [Next]_vars, NEW A, ListsWithin(A, doc, queue, cur, old),
           \A u \in Users :
             /\ cur[u].open => cur[u].session \in A[u]
             /\ old[u].open => old[u].session \in A[u]
             /\ JoinFetched(u) /\ ~Listed(u, target[u]) => target[u] \in A[u]
    PROVE  ListsWithin(A, doc', queue', cur', old')
<1> DEFINE Goal == ListsWithin(A, doc', queue', cur', old')
<1>0. TypeOK /\ Links /\ TypeInv'
  BY TypeStep DEF TypeInv
<1>o. ASSUME NEW u \in Users
      PROVE  /\ cur[u] \in Objects /\ old[u] \in Objects /\ queue[u] \in Seq(Lines)
             /\ cur = [cur EXCEPT ![u] = cur[u]]
             /\ old = [old EXCEPT ![u] = old[u]]
             /\ queue = [queue EXCEPT ![u] = queue[u]]
             /\ cur[u].open => cur[u].session \in A[u] /\ cur[u].session \in Sessions
             /\ old[u].open => old[u].session \in A[u] /\ old[u].session \in Sessions
             /\ ObjectWithin(A, cur[u]) /\ ObjectWithin(A, old[u])
             /\ QueueWithin(A, queue[u])
  BY <1>0 DEF TypeOK, Links, Lines, ListsWithin
<1>v. ASSUME NEW u \in Users, NEW s \in Sessions PROVE MentionsIn(A, View(u, s), s)
  <2>1. \/ View(u, s) = doc[s]
        \/ \E i \in 1 .. Len(queue[u]) :
             queue[u][i].session = s /\ View(u, s) = queue[u][i].list
    BY <1>0, ViewLemma
  <2> QED  BY <2>1 DEF ListsWithin, QueueWithin
<1>l. ASSUME NEW u \in Users, NEW o \in Objects, ObjectWithin(A, o),
             o.open => o.session \in A[u] /\ o.session \in Sessions
      PROVE  /\ RemoveFrom(u, o) \in Objects /\ ObjectWithin(A, RemoveFrom(u, o))
             /\ Readied(u, o) \in Objects /\ ObjectWithin(A, Readied(u, o))
             /\ o.open =>
                  /\ Readied(u, Entered(u, o)) \in Objects
                  /\ ObjectWithin(A, Readied(u, Entered(u, o)))
             /\ Leave(u, o) \in Seq(Lines) /\ QueueWithin(A, Leave(u, o))
             /\ Enter(u, o) \in Seq(Lines) /\ QueueWithin(A, Enter(u, o))
  <2>1. /\ RemoveFrom(u, o) \in Objects /\ ObjectWithin(A, RemoveFrom(u, o))
        /\ Readied(u, o) \in Objects /\ ObjectWithin(A, Readied(u, o))
    BY <1>0, <1>l, ObjectLemma, ObjectWithinLemma
  <2>2. ASSUME o.open
        PROVE  /\ Readied(u, Entered(u, o)) \in Objects
               /\ ObjectWithin(A, Readied(u, Entered(u, o)))
    <3>1. Entered(u, o) \in Objects /\ ObjectWithin(A, Entered(u, o))
      BY <1>0, <1>l, <2>2, ObjectLemma, ObjectWithinLemma
    <3> QED  BY <1>0, <3>1, ObjectLemma, ObjectWithinLemma
  <2>3. /\ Leave(u, o) \in Seq(Lines) /\ QueueWithin(A, Leave(u, o))
        /\ Enter(u, o) \in Seq(Lines) /\ QueueWithin(A, Enter(u, o))
    BY <1>0, <1>l, WritesLemma, WritesWithinLemma
  <2> QED  BY <2>1, <2>2, <2>3
<1>q. ASSUME NEW q \in Seq(Lines), NEW w \in Seq(Lines), QueueWithin(A, q), QueueWithin(A, w)
      PROVE  q \o w \in Seq(Lines) /\ QueueWithin(A, q \o w)
  BY <1>q, QueueType, QueueWithinLemma
<1>e. <<>> \in Seq(Lines) /\ QueueWithin(A, <<>>)
  BY DEF QueueWithin
<1>n. NoObject \in Objects /\ ObjectWithin(A, NoObject)
  BY DEF NoObject, NoList, Objects, Lists, Absent, ObjectWithin
<1>s. ASSUME UNCHANGED <<doc, queue, cur, old>> PROVE Goal
  BY <1>s
<1>1. ASSUME NEW u \in Users, NEW s \in Sessions, TapJoin(u, s) PROVE Goal
  <2>1. CASE OtherSession(u, s)
    <3>1. /\ cur' = [cur EXCEPT ![u] = RemoveFrom(u, cur[u])]
          /\ queue' = [queue EXCEPT ![u] = queue[u] \o Leave(u, cur[u])]
          /\ UNCHANGED <<doc, old>>
      BY <1>1, <2>1 DEF TapJoin
    <3>2. /\ RemoveFrom(u, cur[u]) \in Objects /\ ObjectWithin(A, RemoveFrom(u, cur[u]))
          /\ Leave(u, cur[u]) \in Seq(Lines) /\ QueueWithin(A, Leave(u, cur[u]))
      BY <1>o, <1>l
    <3>3. /\ queue[u] \o Leave(u, cur[u]) \in Seq(Lines)
          /\ QueueWithin(A, queue[u] \o Leave(u, cur[u]))
      BY <1>o, <1>q, <3>2
    <3>4. old' = [old EXCEPT ![u] = old[u]] /\ old[u] \in Objects /\ ObjectWithin(A, old[u])
      BY <1>o, <3>1
    <3> QED  BY <1>0, <3>1, <3>2, <3>3, <3>4, ClientWithin
  <2>2. CASE ~OtherSession(u, s)
    BY <1>1, <1>s, <2>2 DEF TapJoin
  <2> QED  BY <2>1, <2>2
<1>2. ASSUME NEW u \in Users, JoinFails(u) PROVE Goal
  BY <1>2, <1>s DEF JoinFails
<1>3. ASSUME NEW u \in Users, JoinFetched(u) PROVE Goal
  <2> DEFINE s == target[u]
             b == [session |-> s, open |-> FALSE, switch |-> FALSE,
                   list |-> IF Listed(u, s) THEN Fetched(u, s)
                            ELSE With(Fetched(u, s), u)]
             e == [b EXCEPT !.open = TRUE]
  <2>1. s \in Sessions /\ View(u, s) \in Lists /\ MentionsIn(A, Fetched(u, s), s)
    BY <1>0, <1>3, <1>v, ViewLemma DEF Links, JoinFetched, Fetched
  <2>2. /\ With(Fetched(u, s), u) \in Lists
        /\ ~Listed(u, s) => MentionsIn(A, With(Fetched(u, s), u), s)
    BY <1>3, <2>1, EditLemma, MentionsLemma DEF Fetched
  <2>3. b \in Objects /\ b.session = s /\ e \in Objects /\ e.session = s /\ e.list = b.list
    BY <2>1, <2>2 DEF Objects, Fetched
  <2>4. MentionsIn(A, b.list, s)
    BY <2>1, <2>2
  <2>5. /\ UNCHANGED doc
        /\ \/ cur' = [cur EXCEPT ![u] = e] /\ queue' = queue
           \/ cur' = [cur EXCEPT ![u] = b] /\ queue' = [queue EXCEPT ![u] = Append(@, Write(b))]
    BY <1>3 DEF JoinFetched
  <2>6. old' = [old EXCEPT ![u] = IF cur[u].open THEN cur[u] ELSE old[u]]
    BY <1>3 DEF JoinFetched
  <2> HIDE DEF b, e, s
  <2>7. ObjectWithin(A, b) /\ ObjectWithin(A, e)
    BY <2>3, <2>4 DEF ObjectWithin
  <2>8. /\ Append(queue[u], Write(b)) \in Seq(Lines)
        /\ QueueWithin(A, Append(queue[u], Write(b)))
    <3>1. Write(b) \in Lines /\ MentionsIn(A, Write(b).list, Write(b).session)
      BY <2>1, <2>3, <2>4 DEF Write, Lines, Objects
    <3> DEFINE w == <<Write(b)>>
    <3>2. w \in Seq(Lines) /\ QueueWithin(A, w)
      BY <3>1 DEF QueueWithin
    <3>3. Append(queue[u], Write(b)) = queue[u] \o w
      BY <1>o, <3>1
    <3> HIDE DEF w
    <3>4. queue[u] \o w \in Seq(Lines) /\ QueueWithin(A, queue[u] \o w)
      BY <1>o, <1>q, <3>2
    <3> QED  BY <3>3, <3>4
  <2>9. PICK o \in Objects : ObjectWithin(A, o) /\ old' = [old EXCEPT ![u] = o]
    BY <1>o, <2>6
  <2>10. PICK c \in Objects : ObjectWithin(A, c) /\ cur' = [cur EXCEPT ![u] = c]
    BY <2>3, <2>5, <2>7
  <2>11. PICK q \in Seq(Lines) : QueueWithin(A, q) /\ queue' = [queue EXCEPT ![u] = q]
    <3>1. CASE queue' = queue
      BY <1>o, <3>1
    <3>2. CASE queue' = [queue EXCEPT ![u] = Append(@, Write(b))]
      BY <2>8, <3>2
    <3> QED  BY <2>5, <3>1, <3>2
  <2> QED  BY <1>0, <2>5, <2>9, <2>10, <2>11, ClientWithin
<1>p. ASSUME NEW u \in Users, OpenStudio(u), UNCHANGED <<doc, queue, old>> PROVE Goal
  <2>1. /\ cur'[u].session = cur[u].session /\ cur'[u].list = cur[u].list
        /\ \A v \in Users \ {u} : cur'[v] = cur[v]
    BY <1>0, <1>p, OpenType
  <2>2. \A v \in Users : ObjectWithin(A, cur'[v])
    BY <1>o, <2>1 DEF ObjectWithin
  <2> QED  BY <1>p, <2>2 DEF ListsWithin
<1>4. ASSUME NEW u \in Users, JoinWritten(u) PROVE Goal
  BY <1>4, <1>p, <1>s DEF JoinWritten
<1>5. ASSUME NEW u \in Users, JoinDone(u) PROVE Goal
  BY <1>5, <1>p DEF JoinDone
<1>6. ASSUME NEW u \in Users, updateUsersStatus(u) PROVE Goal
  <2> DEFINE o == [cur[u] EXCEPT !.switch = ~@]
             c == Readied(u, o)
  <2>1. /\ o \in Objects /\ o.session = cur[u].session /\ o.list = cur[u].list
        /\ o.open = cur[u].open
    BY <1>o DEF Objects
  <2>2. /\ cur[u].open /\ cur' = [cur EXCEPT ![u] = c]
        /\ queue' = [queue EXCEPT ![u] = Append(@, Write(c))]
        /\ UNCHANGED <<doc, old>>
    BY <1>6 DEF updateUsersStatus
  <2> HIDE DEF o
  <2>3. ObjectWithin(A, o)
    BY <1>o, <2>1 DEF ObjectWithin
  <2>4. c \in Objects /\ ObjectWithin(A, c) /\ c.session \in Sessions
    BY <1>0, <1>o, <2>1, <2>2, <2>3, ObjectLemma, ObjectWithinLemma
  <2> HIDE DEF c
  <2> DEFINE w == <<Write(c)>>
  <2>5. w \in Seq(Lines) /\ QueueWithin(A, w)
    <3>1. Write(c) \in Lines /\ MentionsIn(A, Write(c).list, Write(c).session)
      BY <2>4 DEF Write, Lines, Objects, ObjectWithin
    <3> QED  BY <3>1 DEF QueueWithin
  <2>6. Append(queue[u], Write(c)) = queue[u] \o w
    BY <1>o, <2>5
  <2> HIDE DEF w
  <2>7. /\ Append(queue[u], Write(c)) \in Seq(Lines)
        /\ QueueWithin(A, Append(queue[u], Write(c)))
    <3>1. queue[u] \o w \in Seq(Lines) /\ QueueWithin(A, queue[u] \o w)
      BY <1>o, <1>q, <2>5
    <3> QED  BY <2>6, <3>1
  <2>8. old' = [old EXCEPT ![u] = old[u]] /\ old[u] \in Objects /\ ObjectWithin(A, old[u])
    BY <1>o, <2>2
  <2> QED  BY <1>0, <2>2, <2>4, <2>7, <2>8, ClientWithin
<1>7. ASSUME NEW u \in Users, handleBackgroundStatus(u) PROVE Goal
  <2> DEFINE c == IF cur[u].open THEN RemoveFrom(u, cur[u]) ELSE cur[u]
             o == IF old[u].open THEN RemoveFrom(u, old[u]) ELSE old[u]
             w == IF old[u].open THEN Leave(u, old[u]) ELSE <<>>
             x == IF cur[u].open THEN Leave(u, cur[u]) ELSE <<>>
  <2>1. /\ cur' = [cur EXCEPT ![u] = c] /\ old' = [old EXCEPT ![u] = o]
        /\ queue' = [queue EXCEPT ![u] = (queue[u] \o w) \o x]
        /\ UNCHANGED doc
    BY <1>7 DEF handleBackgroundStatus
  <2>2. /\ c \in Objects /\ ObjectWithin(A, c) /\ x \in Seq(Lines) /\ QueueWithin(A, x)
        /\ o \in Objects /\ ObjectWithin(A, o) /\ w \in Seq(Lines) /\ QueueWithin(A, w)
    BY <1>o, <1>l, <1>e
  <2> HIDE DEF c, o, w, x
  <2>3. (queue[u] \o w) \o x \in Seq(Lines) /\ QueueWithin(A, (queue[u] \o w) \o x)
    <3>1. queue[u] \o w \in Seq(Lines) /\ QueueWithin(A, queue[u] \o w)
      BY <1>o, <1>q, <2>2
    <3> QED  BY <1>q, <2>2, <3>1
  <2> QED  BY <1>0, <2>1, <2>2, <2>3, ClientWithin
<1>r. ASSUME NEW u \in Users, Restart(u) PROVE Goal
  <2>1. /\ cur' = [cur EXCEPT ![u] = NoObject] /\ old' = [old EXCEPT ![u] = NoObject]
        /\ UNCHANGED doc /\ queue' = [queue EXCEPT ![u] = queue[u]]
    BY <1>r, <1>o DEF Restart
  <2> QED  BY <1>0, <1>o, <1>n, <2>1, ClientWithin
<1>8. ASSUME NEW u \in Users, handleForegroundStatus(u) PROVE Goal
  <2>1. CASE ~login[u] /\ (old[u].open \/ cur[u].open)
    BY <1>8, <1>r, <2>1 DEF handleForegroundStatus
  <2>2. CASE ~(~login[u] /\ (old[u].open \/ cur[u].open))
    <3> DEFINE c == IF cur[u].open THEN Readied(u, Entered(u, cur[u])) ELSE cur[u]
               o == IF old[u].open THEN Readied(u, Entered(u, old[u])) ELSE old[u]
               w == Enter(u, old[u])
               x == Enter(u, cur[u])
    <3>1. /\ cur' = [cur EXCEPT ![u] = c] /\ old' = [old EXCEPT ![u] = o]
          /\ queue' = [queue EXCEPT ![u] = (queue[u] \o w) \o x]
          /\ UNCHANGED doc
      BY <1>8, <2>2 DEF handleForegroundStatus
    <3>2. /\ c \in Objects /\ ObjectWithin(A, c) /\ x \in Seq(Lines) /\ QueueWithin(A, x)
          /\ o \in Objects /\ ObjectWithin(A, o) /\ w \in Seq(Lines) /\ QueueWithin(A, w)
      BY <1>o, <1>l
    <3> HIDE DEF c, o, w, x
    <3>3. (queue[u] \o w) \o x \in Seq(Lines) /\ QueueWithin(A, (queue[u] \o w) \o x)
      <4>1. queue[u] \o w \in Seq(Lines) /\ QueueWithin(A, queue[u] \o w)
        BY <1>o, <1>q, <3>2
      <4> QED  BY <1>q, <3>2, <4>1
    <3> QED  BY <1>0, <3>1, <3>2, <3>3, ClientWithin
  <2> QED  BY <2>1, <2>2
<1>9. ASSUME NEW u \in Users, logOutTapped(u) PROVE Goal
  <2> DEFINE o == IF cur[u].open THEN RemoveFrom(u, cur[u]) ELSE old[u]
             w == Leave(u, cur[u])
  <2>1. /\ cur' = [cur EXCEPT ![u] = NoObject] /\ old' = [old EXCEPT ![u] = o]
        /\ queue' = [queue EXCEPT ![u] = (queue[u] \o w) \o w]
        /\ UNCHANGED doc
    BY <1>9 DEF logOutTapped
  <2>2. /\ o \in Objects /\ ObjectWithin(A, o) /\ w \in Seq(Lines) /\ QueueWithin(A, w)
    BY <1>o, <1>l
  <2> HIDE DEF o, w
  <2>3. (queue[u] \o w) \o w \in Seq(Lines) /\ QueueWithin(A, (queue[u] \o w) \o w)
    <3>1. queue[u] \o w \in Seq(Lines) /\ QueueWithin(A, queue[u] \o w)
      BY <1>o, <1>q, <2>2
    <3> QED  BY <1>q, <2>2, <3>1
  <2> QED  BY <1>0, <1>n, <2>1, <2>2, <2>3, ClientWithin
<1>10. ASSUME NEW u \in Users, LogIn(u) PROVE Goal
  BY <1>10, <1>s DEF LogIn
<1>11. ASSUME NEW u \in Users, AssignPlayers(u) PROVE Goal
  <2>1. ASSUME NEW o \in Objects, o.session \in Sessions
        PROVE  /\ [o EXCEPT !.list = View(u, o.session)] \in Objects
               /\ ObjectWithin(A, [o EXCEPT !.list = View(u, o.session)])
    <3>1. View(u, o.session) \in Lists /\ MentionsIn(A, View(u, o.session), o.session)
      BY <1>0, <1>v, <2>1, ViewLemma
    <3> QED  BY <3>1 DEF Objects, ObjectWithin
  <2>2. queue' = [queue EXCEPT ![u] = queue[u]] /\ UNCHANGED doc
    BY <1>11, <1>o DEF AssignPlayers
  <2>3. CASE /\ cur[u].open /\ UNCHANGED old
             /\ cur' = [cur EXCEPT ![u].list = View(u, cur[u].session)]
    <3> DEFINE c == [cur[u] EXCEPT !.list = View(u, cur[u].session)]
    <3>1. c \in Objects /\ ObjectWithin(A, c)
      BY <1>o, <2>1, <2>3
    <3>2. cur' = [cur EXCEPT ![u] = c]
      BY <2>3
    <3>3. old' = [old EXCEPT ![u] = old[u]] /\ old[u] \in Objects /\ ObjectWithin(A, old[u])
      BY <1>o, <2>3
    <3> HIDE DEF c
    <3> QED  BY <1>0, <1>o, <2>2, <3>1, <3>2, <3>3, ClientWithin
  <2>4. CASE /\ old[u].open /\ UNCHANGED cur
             /\ old' = [old EXCEPT ![u].list = View(u, old[u].session)]
    <3> DEFINE c == [old[u] EXCEPT !.list = View(u, old[u].session)]
    <3>1. c \in Objects /\ ObjectWithin(A, c)
      BY <1>o, <2>1, <2>4
    <3>2. old' = [old EXCEPT ![u] = c]
      BY <2>4
    <3>3. cur' = [cur EXCEPT ![u] = cur[u]] /\ cur[u] \in Objects /\ ObjectWithin(A, cur[u])
      BY <1>o, <2>4
    <3> HIDE DEF c
    <3> QED  BY <1>0, <1>o, <2>2, <3>1, <3>2, <3>3, ClientWithin
  <2> QED  BY <1>11, <2>3, <2>4 DEF AssignPlayers
<1>12. ASSUME NEW u \in Users, Commit(u) PROVE Goal
  <2> DEFINE w == Head(queue[u])
  <2>1. queue[u] # <<>> /\ doc' = [doc EXCEPT ![w.session] = w.list]
        /\ queue' = [queue EXCEPT ![u] = Tail(@)] /\ UNCHANGED <<cur, old>>
    BY <1>12 DEF Commit
  <2>2. /\ QueueWithin(A, Tail(queue[u])) /\ MentionsIn(A, w.list, w.session)
        /\ w \in Lines
    BY <1>o, <2>1, QueueWithinLemma, HeadTailProperties
  <2> HIDE DEF w
  <2>3. \A s \in Sessions : MentionsIn(A, doc'[s], s)
    BY <1>0, <2>1, <2>2 DEF TypeOK, ListsWithin, Lines
  <2>4. \A v \in Users : QueueWithin(A, queue'[v])
    BY <1>0, <2>1, <2>2 DEF TypeOK, ListsWithin
  <2> QED  BY <1>o, <2>1, <2>3, <2>4 DEF ListsWithin
<1>13. ASSUME NEW u \in Users, Crash(u) PROVE Goal
  BY <1>13, <1>r DEF Crash
<1>14. CASE UNCHANGED vars
  BY <1>14, <1>s DEF vars
<1> QED
  BY <1>1, <1>2, <1>3, <1>4, <1>5, <1>6, <1>7, <1>8, <1>9, <1>10, <1>11, <1>12, <1>13,
     <1>14 DEF Next

\* What is within A is within any B that gives every user as much.
LEMMA WithinMore ==
    ASSUME NEW A, NEW B, \A v \in Users : A[v] \subseteq B[v],
           ListsWithin(A, doc, queue, cur, old)
    PROVE  ListsWithin(B, doc, queue, cur, old)
<1>1. ASSUME NEW l, NEW s, MentionsIn(A, l, s) PROVE MentionsIn(B, l, s)
  BY <1>1 DEF MentionsIn
<1> QED  BY <1>1 DEF ListsWithin, QueueWithin, ObjectWithin

-----------------------------------------------------------------------------
(* The theorems.                                                             *)

\* A new session has one entry, of its creator.
LEMMA CreatedLemma ==
    ASSUME NEW s \in Sessions
    PROVE  /\ Created(s) \in Lists
           /\ \A u \in Users : Entries(Created(s), u) = IF u = Host[s] THEN 1 ELSE 0
<1>1. Host[s] \in Users /\ Absent \in [standby : Nat, ready : Nat]
  BY HostAssumption DEF Absent
<1>2. Created(s) = [u \in Users |-> IF u = Host[s] THEN [standby |-> 1, ready |-> 0] ELSE Absent]
  BY <1>1 DEF Created, NoList, Absent
<1>3. Created(s) \in Lists
  BY <1>1, <1>2 DEF Lists
<1> QED  BY <1>2, <1>3 DEF Entries, Absent

\* Everybody is at home at first, with nothing cached and nothing queued.
LEMMA InitType == Init => TypeInv
<1> SUFFICES ASSUME Init PROVE TypeInv
  OBVIOUS
<1>0. doc \in [Sessions -> Lists]
  BY CreatedLemma DEF Init
<1>1. NoList \in Lists /\ NoObject \in Objects /\ ~NoObject.open
  BY DEF NoList, Lists, Absent, NoObject, Objects
<1>2. TypeOK
  BY <1>0, <1>1 DEF Init, TypeOK
<1>3. Links
  BY <1>1 DEF Init, Links
<1> QED  BY <1>2, <1>3 DEF TypeInv

\* The invariant that the other theorems stand on.
LEMMA TypeInvariant == Spec => []TypeInv
<1>1. Init => TypeInv
  BY InitType
<1>2. TypeInv /\ [Next]_vars => TypeInv'
  BY TypeStep
<1> QED  BY <1>1, <1>2, PTL DEF Spec

\* Every list that is cached, queued or in a document is one, every write is of
\* a session, and a message to nil writes nothing.
THEOREM TypeCorrect == Spec => []TypeOK
<1>1. TypeInv => TypeOK
  BY DEF TypeInv
<1> QED  BY <1>1, TypeInvariant, PTL

\* The sessions a user created or tapped Join for.
Known == [u \in Users |-> tapped[u] \union {s \in Sessions : Host[s] = u}]

\* A list is of such users if it is so by Mentions.
LEMMA KnownLemma ==
    ASSUME NEW l, NEW s \in Sessions
    PROVE  Mentions(l, s) <=> MentionsIn(Known, l, s)
BY DEF Mentions, MentionsIn, Known

\* OnlyJoinedAreListed in terms of them.
LEMMA MentionsKnown ==
    ASSUME TypeOK
    PROVE  OnlyJoinedAreListed <=> ListsWithin(Known, doc, queue, cur, old)
<1>1. ASSUME NEW u \in Users
      PROVE  /\ \A i \in 1 .. Len(queue[u]) : queue[u][i].session \in Sessions
             /\ cur[u].session # None => cur[u].session \in Sessions
             /\ old[u].session # None => old[u].session \in Sessions
  <2>1. queue[u] \in Seq(Lines)
    BY DEF TypeOK, Lines
  <2>2. \A i \in 1 .. Len(queue[u]) : queue[u][i] \in Lines
    BY <2>1
  <2>3. cur[u] \in Objects /\ old[u] \in Objects
    BY DEF TypeOK
  <2> QED  BY <2>2, <2>3 DEF Lines, Objects
<1> QED
  BY <1>1, KnownLemma DEF OnlyJoinedAreListed, ListsWithin, QueueWithin, ObjectWithin

\* The Studios that are open after a step were open before it, the earlier one
\* perhaps as the current one, or the end of a join opened one.
StudiosFrom(v) ==
    /\ cur'[v].open =>
         \/ cur[v].open /\ cur'[v].session = cur[v].session
         \/ /\ cur'[v].session = target[v]
            /\ \/ JoinFetched(v) /\ Listed(v, target[v])
               \/ JoinWritten(v) /\ target[v] \in joined[v]
               \/ JoinDone(v)
    /\ old'[v].open =>
         \/ old[v].open /\ old'[v].session = old[v].session
         \/ cur[v].open /\ old'[v].session = cur[v].session

\* Every step leaves the Studio of a user, or opens that of his session, as
\* StudiosFrom says.
LEMMA StudioStep ==
    ASSUME TypeInv, [Next]_vars
    PROVE  \A v \in Users : StudiosFrom(v)
<1> DEFINE Goal == \A v \in Users : StudiosFrom(v)
<1>0. TypeOK /\ Links
  BY DEF TypeInv
<1>o. \A u \in Users : cur[u] \in Objects /\ old[u] \in Objects
  BY <1>0 DEF TypeOK
<1>k. ASSUME \A v \in Users :
               /\ cur'[v].open => cur[v].open /\ cur'[v].session = cur[v].session
               /\ old'[v].open => \/ old[v].open /\ old'[v].session = old[v].session
                                  \/ cur[v].open /\ old'[v].session = cur[v].session
      PROVE  Goal
  BY <1>k DEF StudiosFrom
<1>s. ASSUME UNCHANGED <<cur, old>> PROVE Goal
  BY <1>s DEF StudiosFrom
\* A step on the objects of u only.
<1>u. ASSUME NEW u \in Users, NEW c, NEW o,
             cur' = [cur EXCEPT ![u] = c], old' = [old EXCEPT ![u] = o],
             c.open => cur[u].open /\ c.session = cur[u].session,
             o.open => \/ old[u].open /\ o.session = old[u].session
                       \/ cur[u].open /\ o.session = cur[u].session
      PROVE  Goal
  <2>1. \A v \in Users : /\ cur'[v] = IF v = u THEN c ELSE cur[v]
                         /\ old'[v] = IF v = u THEN o ELSE old[v]
    BY <1>0, <1>u DEF TypeOK
  <2> QED  BY <1>k, <1>u, <2>1
<1>l. ASSUME NEW u \in Users, NEW o \in Objects
      PROVE  /\ RemoveFrom(u, o).open = o.open /\ RemoveFrom(u, o).session = o.session
             /\ Readied(u, o).open = o.open /\ Readied(u, o).session = o.session
             /\ Readied(u, Entered(u, o)).open = o.open
             /\ Readied(u, Entered(u, o)).session = o.session
  <2>1. /\ RemoveFrom(u, o).open = o.open /\ RemoveFrom(u, o).session = o.session
        /\ Readied(u, o).open = o.open /\ Readied(u, o).session = o.session
        /\ Entered(u, o) \in Objects
        /\ Entered(u, o).open = o.open /\ Entered(u, o).session = o.session
    BY <1>0, ObjectLemma
  <2> QED  BY <1>0, <2>1, ObjectLemma
<1>x. ASSUME NEW u \in Users
      PROVE  cur = [cur EXCEPT ![u] = cur[u]] /\ old = [old EXCEPT ![u] = old[u]]
  BY <1>0 DEF TypeOK
<1>1. ASSUME NEW u \in Users, NEW s \in Sessions, TapJoin(u, s) PROVE Goal
  <2>1. old' = old /\ (cur' = cur \/ cur' = [cur EXCEPT ![u] = RemoveFrom(u, cur[u])])
    BY <1>1 DEF TapJoin
  <2>2. /\ RemoveFrom(u, cur[u]).open = cur[u].open
        /\ RemoveFrom(u, cur[u]).session = cur[u].session
    BY <1>l, <1>o
  <2>3. CASE cur' = [cur EXCEPT ![u] = RemoveFrom(u, cur[u])]
    <3> DEFINE c == RemoveFrom(u, cur[u])
    <3>1. cur' = [cur EXCEPT ![u] = c] /\ old' = [old EXCEPT ![u] = old[u]]
          /\ c.open = cur[u].open /\ c.session = cur[u].session
      BY <1>x, <2>1, <2>2, <2>3
    <3> HIDE DEF c
    <3> QED  BY <1>u, <3>1
  <2> QED  BY <1>s, <2>1, <2>3
<1>2. ASSUME NEW u \in Users, JoinFails(u) PROVE Goal
  BY <1>2, <1>s DEF JoinFails
<1>3. ASSUME NEW u \in Users, JoinFetched(u) PROVE Goal
  <2> DEFINE s == target[u]
             b == [session |-> s, open |-> FALSE, switch |-> FALSE,
                   list |-> IF Listed(u, s) THEN Fetched(u, s)
                            ELSE With(Fetched(u, s), u)]
             e == [b EXCEPT !.open = TRUE]
  <2>1. /\ old' = [old EXCEPT ![u] = IF cur[u].open THEN cur[u] ELSE old[u]]
        /\ \/ Listed(u, s) /\ cur' = [cur EXCEPT ![u] = e]
           \/ cur' = [cur EXCEPT ![u] = b]
    BY <1>3 DEF JoinFetched
  <2>2. ~b.open /\ e.session = s
    OBVIOUS
  <2> HIDE DEF b, e
  <2>3. /\ old'[u] = IF cur[u].open THEN cur[u] ELSE old[u]
        /\ cur'[u].open => Listed(u, s) /\ cur'[u].session = s
        /\ \A v \in Users \ {u} : cur'[v] = cur[v] /\ old'[v] = old[v]
    BY <1>0, <2>1, <2>2 DEF TypeOK
  <2> HIDE DEF s
  <2>4. \A v \in Users \ {u} : StudiosFrom(v)
    BY <2>3 DEF StudiosFrom
  <2>5. StudiosFrom(u)
    BY <1>3, <2>3 DEF StudiosFrom, s
  <2> QED  BY <2>4, <2>5
<1>p. ASSUME NEW u \in Users, OpenStudio(u), UNCHANGED old,
             cur[u].session = target[u],
             (JoinWritten(u) /\ target[u] \in joined[u]) \/ JoinDone(u)
      PROVE  Goal
  <2>1. cur'[u].session = target[u] /\ \A v \in Users \ {u} : cur'[v] = cur[v]
    BY <1>0, <1>p, OpenType
  <2>2. \A v \in Users \ {u} : StudiosFrom(v)
    BY <1>p, <2>1 DEF StudiosFrom
  <2>3. StudiosFrom(u)
    BY <1>p, <2>1 DEF StudiosFrom
  <2> QED  BY <2>2, <2>3
<1>4. ASSUME NEW u \in Users, JoinWritten(u) PROVE Goal
  BY <1>0, <1>4, <1>p, <1>s DEF JoinWritten, Links
<1>5. ASSUME NEW u \in Users, JoinDone(u) PROVE Goal
  BY <1>0, <1>5, <1>p DEF JoinDone, Links
<1>6. ASSUME NEW u \in Users, updateUsersStatus(u) PROVE Goal
  <2> DEFINE o == [cur[u] EXCEPT !.switch = ~@]
  <2>1. old' = old /\ cur' = [cur EXCEPT ![u] = Readied(u, o)]
    BY <1>6 DEF updateUsersStatus
  <2>2. o \in Objects /\ o.open = cur[u].open /\ o.session = cur[u].session
    BY <1>o DEF Objects
  <2> HIDE DEF o
  <2>3. Readied(u, o).open = cur[u].open /\ Readied(u, o).session = cur[u].session
    BY <1>l, <2>2
  <2>4. old' = [old EXCEPT ![u] = old[u]]
    BY <1>x, <2>1
  <2> DEFINE c == Readied(u, o)
  <2>5. cur' = [cur EXCEPT ![u] = c] /\ c.open = cur[u].open /\ c.session = cur[u].session
    BY <2>1, <2>3
  <2> HIDE DEF c, Goal
  <2> QED  BY <1>u, <2>4, <2>5
<1>7. ASSUME NEW u \in Users, handleBackgroundStatus(u) PROVE Goal
  <2> DEFINE c == IF cur[u].open THEN RemoveFrom(u, cur[u]) ELSE cur[u]
             o == IF old[u].open THEN RemoveFrom(u, old[u]) ELSE old[u]
  <2>1. cur' = [cur EXCEPT ![u] = c] /\ old' = [old EXCEPT ![u] = o]
    BY <1>7 DEF handleBackgroundStatus
  <2>2. /\ c.open = cur[u].open /\ c.session = cur[u].session
        /\ o.open = old[u].open /\ o.session = old[u].session
    BY <1>l, <1>o
  <2> HIDE DEF c, o
  <2> QED  BY <1>u, <2>1, <2>2
<1>r. ASSUME NEW u \in Users, Restart(u) PROVE Goal
  <2>1. cur' = [cur EXCEPT ![u] = NoObject] /\ old' = [old EXCEPT ![u] = NoObject]
        /\ ~NoObject.open
    BY <1>r DEF Restart, NoObject
  <2> QED  BY <1>u, <2>1
<1>8. ASSUME NEW u \in Users, handleForegroundStatus(u) PROVE Goal
  <2>1. CASE ~login[u] /\ (old[u].open \/ cur[u].open)
    BY <1>8, <1>r, <2>1 DEF handleForegroundStatus
  <2>2. CASE ~(~login[u] /\ (old[u].open \/ cur[u].open))
    <3> DEFINE c == IF cur[u].open THEN Readied(u, Entered(u, cur[u])) ELSE cur[u]
               o == IF old[u].open THEN Readied(u, Entered(u, old[u])) ELSE old[u]
    <3>1. cur' = [cur EXCEPT ![u] = c] /\ old' = [old EXCEPT ![u] = o]
      BY <1>8, <2>2 DEF handleForegroundStatus
    <3>2. /\ c.open = cur[u].open /\ c.session = cur[u].session
          /\ o.open = old[u].open /\ o.session = old[u].session
      BY <1>l, <1>o
    <3> HIDE DEF c, o
    <3> QED  BY <1>u, <3>1, <3>2
  <2> QED  BY <2>1, <2>2
<1>9. ASSUME NEW u \in Users, logOutTapped(u) PROVE Goal
  <2> DEFINE o == IF cur[u].open THEN RemoveFrom(u, cur[u]) ELSE old[u]
  <2>1. cur' = [cur EXCEPT ![u] = NoObject] /\ old' = [old EXCEPT ![u] = o]
        /\ ~NoObject.open
    BY <1>9 DEF logOutTapped, NoObject
  <2>2. \/ cur[u].open /\ o.session = cur[u].session
        \/ o = old[u]
    BY <1>l, <1>o
  <2> HIDE DEF o
  <2> QED  BY <1>u, <2>1, <2>2
<1>10. ASSUME NEW u \in Users, LogIn(u) PROVE Goal
  BY <1>10, <1>s DEF LogIn
<1>11. ASSUME NEW u \in Users, AssignPlayers(u) PROVE Goal
  <2>1. ASSUME NEW o \in Objects, NEW l
        PROVE  /\ [o EXCEPT !.list = l].open = o.open
               /\ [o EXCEPT !.list = l].session = o.session
    BY DEF Objects
  <2>2. CASE cur' = [cur EXCEPT ![u].list = View(u, cur[u].session)] /\ UNCHANGED old
    <3> DEFINE c == [cur[u] EXCEPT !.list = View(u, cur[u].session)]
    <3>1. c.open = cur[u].open /\ c.session = cur[u].session
      BY <1>o, <2>1
    <3>2. cur' = [cur EXCEPT ![u] = c] /\ old' = [old EXCEPT ![u] = old[u]]
      BY <1>x, <2>2
    <3> HIDE DEF c
    <3> QED  BY <1>u, <3>1, <3>2
  <2>3. CASE old' = [old EXCEPT ![u].list = View(u, old[u].session)] /\ UNCHANGED cur
    <3> DEFINE c == [old[u] EXCEPT !.list = View(u, old[u].session)]
    <3>1. c.open = old[u].open /\ c.session = old[u].session
      BY <1>o, <2>1
    <3>2. old' = [old EXCEPT ![u] = c] /\ cur' = [cur EXCEPT ![u] = cur[u]]
      BY <1>x, <2>3
    <3> HIDE DEF c
    <3> QED  BY <1>u, <3>1, <3>2
  <2> QED  BY <1>11, <2>2, <2>3 DEF AssignPlayers
<1>12. ASSUME NEW u \in Users, Commit(u) PROVE Goal
  BY <1>12, <1>s DEF Commit
<1>13. ASSUME NEW u \in Users, Crash(u) PROVE Goal
  BY <1>13, <1>r DEF Crash
<1>14. CASE UNCHANGED vars
  BY <1>14, <1>s DEF vars
<1> QED
  BY <1>1, <1>2, <1>3, <1>4, <1>5, <1>6, <1>7, <1>8, <1>9, <1>10, <1>11, <1>12, <1>13,
     <1>14 DEF Next

\* A join that is under way was before, or is a tap of Join for its session.
\* One that writes or remembers its session did before, or just found its user
\* missing there; without crashes it ends with the session remembered.
JoinFrom(v) ==
    /\ tapped[v] \subseteq tapped'[v]
    /\ joined[v] \subseteq joined'[v]
    /\ joining'[v] # "no" =>
         \/ joining[v] # "no" /\ target'[v] = target[v]
         \/ target'[v] \in tapped'[v]
    /\ joining'[v] \in {"write", "remember"} =>
         /\ target'[v] = target[v]
         /\ joining[v] \in {"write", "remember"} \/ (JoinFetched(v) /\ ~Listed(v, target[v]))
    /\ Faults = {} =>
         (joining[v] \in {"write", "remember"} =>
            target[v] \in joined'[v] \/ joining'[v] \in {"write", "remember"})

\* Every step keeps what a user who is joining has joined or still writes.
LEMMA JoinStep ==
    ASSUME TypeInv, [Next]_vars
    PROVE  \A v \in Users : JoinFrom(v)
<1> DEFINE Goal == \A v \in Users : JoinFrom(v)
<1>0. TypeOK /\ Links
  BY DEF TypeInv
<1>v. ASSUME NEW v \in Users,
             joining'[v] = joining[v], target'[v] = target[v],
             tapped'[v] = tapped[v], joined'[v] = joined[v]
      PROVE  JoinFrom(v)
  BY <1>v DEF JoinFrom
<1>s. ASSUME UNCHANGED <<joining, target, tapped, joined>> PROVE Goal
  BY <1>s, <1>v
\* A step of the join of u: from phase p to phase q.
<1>j. ASSUME NEW u \in Users, NEW q, joining' = [joining EXCEPT ![u] = q],
             UNCHANGED <<target, tapped>>,
             joined' = joined \/ joined' = [joined EXCEPT ![u] = @ \union {target[u]}],
             joining[u] # "no",
             q \in {"write", "remember"} =>
               joining[u] \in {"write", "remember"} \/ (JoinFetched(u) /\ ~Listed(u, target[u])),
             joining[u] \in {"write", "remember"} =>
               target[u] \in joined'[u] \/ q \in {"write", "remember"}
      PROVE  Goal
  <2>1. /\ joining'[u] = q /\ target'[u] = target[u] /\ tapped'[u] = tapped[u]
        /\ joined[u] \subseteq joined'[u]
        /\ \A v \in Users \ {u} :
             /\ joining'[v] = joining[v] /\ target'[v] = target[v]
             /\ tapped'[v] = tapped[v] /\ joined'[v] = joined[v]
    BY <1>0, <1>j DEF TypeOK
  <2>2. JoinFrom(u)
    BY <1>j, <2>1 DEF JoinFrom
  <2> QED  BY <1>v, <2>1, <2>2
<1>1. ASSUME NEW u \in Users, NEW s \in Sessions, TapJoin(u, s) PROVE Goal
  <2>1. /\ joining[u] = "no" /\ joining' = [joining EXCEPT ![u] = "fetch"]
        /\ target' = [target EXCEPT ![u] = s]
        /\ tapped' = [tapped EXCEPT ![u] = @ \union {s}]
        /\ joined' = joined
    BY <1>1 DEF TapJoin
  <2>2. /\ joining'[u] = "fetch" /\ target'[u] = s /\ tapped'[u] = tapped[u] \union {s}
        /\ \A v \in Users \ {u} :
             /\ joining'[v] = joining[v] /\ target'[v] = target[v]
             /\ tapped'[v] = tapped[v] /\ joined'[v] = joined[v]
    BY <1>0, <2>1 DEF TypeOK
  <2>3. JoinFrom(u)
    BY <2>1, <2>2 DEF JoinFrom
  <2> QED  BY <1>v, <2>2, <2>3
<1>2. ASSUME NEW u \in Users, JoinFails(u) PROVE Goal
  BY <1>2, <1>j DEF JoinFails
<1>3. ASSUME NEW u \in Users, JoinFetched(u) PROVE Goal
  <2>1. /\ \/ Listed(u, target[u]) /\ joining' = [joining EXCEPT ![u] = "no"]
           \/ ~Listed(u, target[u]) /\ joining' = [joining EXCEPT ![u] = "write"]
        /\ joining[u] = "fetch" /\ UNCHANGED <<target, joined, tapped>>
    BY <1>3 DEF JoinFetched
  <2> QED  BY <1>3, <1>j, <2>1
<1>4. ASSUME NEW u \in Users, JoinWritten(u) PROVE Goal
  <2>1. /\ \/ target[u] \in joined[u] /\ joining' = [joining EXCEPT ![u] = "no"]
           \/ joining' = [joining EXCEPT ![u] = "remember"]
        /\ joining[u] = "write" /\ UNCHANGED <<target, joined, tapped>>
    BY <1>4 DEF JoinWritten, OpenStudio
  <2>2. CASE target[u] \in joined[u] /\ joining' = [joining EXCEPT ![u] = "no"]
    BY <1>j, <2>1, <2>2
  <2>3. CASE joining' = [joining EXCEPT ![u] = "remember"]
    BY <1>j, <2>1, <2>3
  <2> QED  BY <2>1, <2>2, <2>3
<1>5. ASSUME NEW u \in Users, JoinDone(u) PROVE Goal
  <2>1. /\ joining' = [joining EXCEPT ![u] = "no"]
        /\ joined' = [joined EXCEPT ![u] = @ \union {target[u]}]
        /\ joining[u] = "remember" /\ UNCHANGED <<target, tapped>>
    BY <1>5 DEF JoinDone, OpenStudio
  <2>2. target[u] \in joined'[u]
    BY <1>0, <2>1 DEF TypeOK
  <2> QED  BY <1>j, <2>1, <2>2
<1>6. ASSUME NEW u \in Users, updateUsersStatus(u) PROVE Goal
  BY <1>6, <1>s DEF updateUsersStatus
<1>7. ASSUME NEW u \in Users, handleBackgroundStatus(u) PROVE Goal
  BY <1>7, <1>s DEF handleBackgroundStatus
<1>r. ASSUME NEW u \in Users, Restart(u), Faults = {} => ~login[u] PROVE Goal
  <2>1. /\ joining'[u] = "no" /\ UNCHANGED <<target, tapped, joined>>
        /\ \A v \in Users \ {u} : joining'[v] = joining[v]
    BY <1>0, <1>r DEF Restart, TypeOK
  <2>2. Faults = {} => joining[u] = "no"
    BY <1>0, <1>r DEF Links
  <2>3. JoinFrom(u)
    BY <2>1, <2>2 DEF JoinFrom
  <2> QED  BY <1>v, <2>1, <2>3
<1>8. ASSUME NEW u \in Users, handleForegroundStatus(u) PROVE Goal
  BY <1>8, <1>r, <1>s DEF handleForegroundStatus
<1>9. ASSUME NEW u \in Users, logOutTapped(u) PROVE Goal
  BY <1>9, <1>s DEF logOutTapped
<1>10. ASSUME NEW u \in Users, LogIn(u) PROVE Goal
  BY <1>10, <1>s DEF LogIn
<1>11. ASSUME NEW u \in Users, AssignPlayers(u) PROVE Goal
  BY <1>11, <1>s DEF AssignPlayers
<1>12. ASSUME NEW u \in Users, Commit(u) PROVE Goal
  BY <1>12, <1>s DEF Commit
<1>13. ASSUME NEW u \in Users, Crash(u) PROVE Goal
  BY <1>13, <1>r DEF Crash
<1>14. CASE UNCHANGED vars
  BY <1>14, <1>s DEF vars
<1> QED
  BY <1>1, <1>2, <1>3, <1>4, <1>5, <1>6, <1>7, <1>8, <1>9, <1>10, <1>11, <1>12, <1>13,
     <1>14 DEF Next

\* What a user has tapped Join for, he has tapped Join for from then on, and
\* his joins and Studios are among it.
LEMMA TappedStep ==
    ASSUME TypeInv, TappedInv, [Next]_vars
    PROVE  TappedInv' /\ \A u \in Users : tapped[u] \subseteq tapped'[u]
<1>1. \A u \in Users : StudiosFrom(u) /\ JoinFrom(u)
  BY StudioStep, JoinStep
<1>2. ASSUME NEW u \in Users
      PROVE  /\ tapped[u] \subseteq tapped'[u]
             /\ joining'[u] # "no" => target'[u] \in tapped'[u]
             /\ old'[u].open => old'[u].session \in tapped'[u]
  BY <1>1 DEF StudiosFrom, JoinFrom, TappedInv
<1>3. ASSUME NEW u \in Users PROVE cur'[u].open => cur'[u].session \in tapped'[u]
  <2>1. JoinFetched(u) \/ JoinWritten(u) \/ JoinDone(u) => joining[u] # "no"
    BY DEF JoinFetched, JoinWritten, JoinDone
  <2> QED  BY <1>1, <1>2, <2>1 DEF StudiosFrom, TappedInv
<1> QED  BY <1>2, <1>3 DEF TappedInv

\* No document, no write on its way and no cached copy of a list has an entry
\* of a user who neither created its session nor ever tapped Join for it,
\* whatever stale copies the clients write back.
THEOREM StrangersStayOut == Spec => []OnlyJoinedAreListed
<1>1. Init => TappedInv /\ OnlyJoinedAreListed
  <2> SUFFICES ASSUME Init PROVE TappedInv /\ OnlyJoinedAreListed
    OBVIOUS
  <2>1. ASSUME NEW s \in Sessions PROVE Mentions(doc[s], s)
    BY CreatedLemma DEF Init, Mentions
  <2>2. ASSUME NEW u \in Users
        PROVE  /\ Len(queue[u]) = 0 /\ joining[u] = "no"
               /\ ~cur[u].open /\ cur[u].session = None
               /\ ~old[u].open /\ old[u].session = None
    BY DEF Init, NoObject
  <2>3. TappedInv
    BY <2>2 DEF TappedInv
  <2> QED  BY <2>1, <2>2, <2>3 DEF OnlyJoinedAreListed
<1>2. TypeInv /\ TappedInv /\ OnlyJoinedAreListed /\ [Next]_vars /\ TypeInv' =>
        TappedInv' /\ OnlyJoinedAreListed'
  <2> SUFFICES ASSUME TypeInv, TappedInv, OnlyJoinedAreListed, [Next]_vars, TypeInv'
               PROVE  TappedInv' /\ OnlyJoinedAreListed'
    OBVIOUS
  <2>1. TappedInv' /\ \A u \in Users : tapped[u] \subseteq tapped'[u]
    BY TappedStep
  <2> DEFINE A == [u \in Users |-> tapped'[u] \union {s \in Sessions : Host[s] = u}]
  <2>2. ListsWithin(A, doc, queue, cur, old)
    <3>1. \A u \in Users : Known[u] \subseteq A[u]
      BY <2>1 DEF Known
    <3>2. ListsWithin(Known, doc, queue, cur, old)
      BY MentionsKnown DEF TypeInv
    <3> HIDE DEF A
    <3> QED  BY <3>1, <3>2, WithinMore
  <2>3. \A u \in Users :
          /\ cur[u].open => cur[u].session \in A[u]
          /\ old[u].open => old[u].session \in A[u]
          /\ JoinFetched(u) => target[u] \in A[u]
    BY <2>1 DEF TappedInv, JoinFetched
  <2>4. ListsWithin(A, doc', queue', cur', old')
    <3> HIDE DEF A
    <3> QED  BY <2>2, <2>3, WithinStep
  <2>5. ASSUME NEW l, NEW s \in Sessions PROVE Mentions(l, s)' <=> MentionsIn(A, l, s)
    BY DEF Mentions, MentionsIn
  <2>6. ASSUME NEW u \in Users
        PROVE  /\ \A i \in 1 .. Len(queue'[u]) : queue'[u][i].session \in Sessions
               /\ cur'[u].session # None => cur'[u].session \in Sessions
               /\ old'[u].session # None => old'[u].session \in Sessions
    <3>1. queue'[u] \in Seq(Lines)
      BY DEF TypeInv, TypeOK, Lines
    <3>2. \A i \in 1 .. Len(queue'[u]) : queue'[u][i] \in Lines
      BY <3>1
    <3>3. cur'[u] \in Objects /\ old'[u] \in Objects
      BY DEF TypeInv, TypeOK
    <3> QED  BY <3>2, <3>3 DEF Lines, Objects
  <2> HIDE DEF A
  <2>7. OnlyJoinedAreListed'
    BY <2>4, <2>5, <2>6 DEF OnlyJoinedAreListed, ListsWithin, QueueWithin, ObjectWithin
  <2> QED  BY <2>1, <2>7
<1> QED  BY <1>1, <1>2, TypeInvariant, PTL DEF Spec

\* Without crashes, who is on a list, or is in a Studio, remembers its session or
\* is on the way to.
LEMMA RememberedStep ==
    ASSUME TypeInv, RememberedInv, [Next]_vars, Faults = {}
    PROVE  RememberedInv'
<1> DEFINE A == [u \in Users |-> Remembered(u)]
           B == [u \in Users |-> joined'[u] \union
                   (IF joining'[u] \in {"write", "remember"} THEN {target'[u]} ELSE {})]
<1>1. \A u \in Users : StudiosFrom(u) /\ JoinFrom(u)
  BY StudioStep, JoinStep
<1>2. ListsWithin(A, doc, queue, cur, old)
  BY DEF RememberedInv
<1>3. \A u \in Users : A[u] \subseteq B[u]
  <2> SUFFICES ASSUME NEW u \in Users PROVE A[u] \subseteq B[u]
    OBVIOUS
  <2>1. joined[u] \subseteq joined'[u]
    BY <1>1 DEF JoinFrom
  <2>2. CASE joining[u] \in {"write", "remember"}
    <3>1. target[u] \in joined'[u] \/ joining'[u] \in {"write", "remember"}
      BY <1>1, <2>2 DEF JoinFrom
    <3>2. joining'[u] \in {"write", "remember"} => target'[u] = target[u]
      BY <1>1 DEF JoinFrom
    <3>3. target[u] \in B[u]
      BY <3>1, <3>2
    <3> QED  BY <2>1, <2>2, <3>3 DEF Remembered
  <2>3. CASE joining[u] \notin {"write", "remember"}
    BY <2>1, <2>3 DEF Remembered
  <2> QED  BY <2>2, <2>3
<1>4. ListsWithin(B, doc, queue, cur, old)
  <2> HIDE DEF A, B
  <2> QED  BY <1>2, <1>3, WithinMore
\* A join that finds its user on the list was remembered.
<1>5. ASSUME NEW u \in Users, JoinFetched(u), Listed(u, target[u])
      PROVE  target[u] \in joined[u]
  <2>1. target[u] \in Sessions /\ joining[u] = "fetch"
    BY <1>5 DEF TypeInv, Links, JoinFetched
  <2>2. MentionsIn(A, View(u, target[u]), target[u])
    <3> HIDE DEF A
    <3>1. \/ View(u, target[u]) = doc[target[u]]
          \/ \E i \in 1 .. Len(queue[u]) :
               queue[u][i].session = target[u] /\ View(u, target[u]) = queue[u][i].list
      BY <2>1, ViewLemma DEF TypeInv
    <3> QED  BY <1>2, <2>1, <3>1 DEF ListsWithin, QueueWithin
  <2>3. target[u] \in A[u]
    BY <1>5, <2>2 DEF MentionsIn, Listed, Fetched
  <2> QED  BY <2>1, <2>3 DEF Remembered
\* One that does not is on the way to be.
<1>6. ASSUME NEW u \in Users, JoinFetched(u), ~Listed(u, target[u])
      PROVE  target[u] \in B[u]
  <2>1. joining' = [joining EXCEPT ![u] = "write"] /\ target' = target
    BY <1>6 DEF JoinFetched
  <2>2. joining'[u] = "write"
    BY <2>1 DEF TypeInv, TypeOK
  <2> QED  BY <2>1, <2>2
<1>7. \A u \in Users :
        /\ cur[u].open => cur[u].session \in B[u]
        /\ old[u].open => old[u].session \in B[u]
        /\ JoinFetched(u) /\ ~Listed(u, target[u]) => target[u] \in B[u]
  <2>1. \A u \in Users : joined[u] \subseteq B[u]
    BY <1>1 DEF JoinFrom
  <2> HIDE DEF B
  <2> QED  BY <1>6, <2>1 DEF RememberedInv
<1>8. ListsWithin(B, doc', queue', cur', old')
  <2> HIDE DEF B
  <2> QED  BY <1>4, <1>7, WithinStep
<1>9. [u \in Users |-> Remembered(u)]' = B
  BY DEF Remembered
<1>10. ASSUME NEW u \in Users
       PROVE  /\ cur'[u].open => cur'[u].session \in joined'[u]
              /\ old'[u].open => old'[u].session \in joined'[u]
  <2>1. joined[u] \subseteq joined'[u]
    BY <1>1 DEF JoinFrom
  <2>2. ASSUME JoinDone(u) PROVE target[u] \in joined'[u]
    BY <2>2 DEF JoinDone, TypeInv, TypeOK
  <2> QED  BY <1>1, <1>5, <2>1, <2>2 DEF StudiosFrom, RememberedInv
<1> HIDE DEF B
<1> QED  BY <1>8, <1>9, <1>10 DEF RememberedInv

LEMMA RememberedInvariant == Spec => [](Faults = {} => RememberedInv)
<1>1. Init => RememberedInv
  <2> SUFFICES ASSUME Init PROVE RememberedInv
    OBVIOUS
  <2> DEFINE A == [u \in Users |-> Remembered(u)]
  <2>1. ASSUME NEW s \in Sessions PROVE MentionsIn(A, doc[s], s)
    <3>1. s \in joined[Host[s]] /\ Host[s] \in Users
      BY HostAssumption DEF Init
    <3>2. s \in A[Host[s]]
      BY <3>1 DEF Remembered
    <3> QED  BY <3>2, CreatedLemma DEF Init, MentionsIn
  <2>2. ASSUME NEW u \in Users
        PROVE  /\ Len(queue[u]) = 0
               /\ ~cur[u].open /\ cur[u].session = None
               /\ ~old[u].open /\ old[u].session = None
    BY DEF Init, NoObject
  <2>3. ListsWithin(A, doc, queue, cur, old)
    <3> HIDE DEF A
    <3> QED  BY <2>1, <2>2 DEF ListsWithin, QueueWithin, ObjectWithin
  <2> QED  BY <2>2, <2>3 DEF RememberedInv
<1>2. TypeInv /\ (Faults = {} => RememberedInv) /\ [Next]_vars => (Faults = {} => RememberedInv)'
  BY RememberedStep
<1> QED  BY <1>1, <1>2, TypeInvariant, PTL DEF Spec

\* Without crashes, a user in the Studio of a session finds it among the past
\* sessions, though joinedSessions is written only by a join that finds its user
\* missing from the list, which clients overwrite with what they have cached.
THEOREM StudioRemembered == Spec => []StudioIsRemembered
<1>1. (Faults = {} => RememberedInv) => StudioIsRemembered
  BY DEF RememberedInv, StudioIsRemembered
<1> QED  BY <1>1, RememberedInvariant, PTL

-----------------------------------------------------------------------------
(* Isolated clients.                                                         *)

\* One client at a time has writes on their way.
OneWriter == \A u, v \in Users : queue[u] # <<>> /\ queue[v] # <<>> => u = v

Idle == \A u \in Users : queue[u] = <<>>

\* q has no write of session s, or l is the list of the last one.
NoneOf(q, s) == \A i \in 1 .. Len(q) : q[i].session # s

LastOf(q, s, l) ==
    \E i \in 1 .. Len(q) :
      /\ q[i].session = s /\ q[i].list = l
      /\ \A j \in 1 .. Len(q) : i < j => q[j].session # s

\* F[s] is the list that the document of s will have.
Settles(F) ==
    \A s \in Sessions :
      \/ F[s] = doc[s] /\ \A w \in Users : NoneOf(queue[w], s)
      \/ \E w \in Users : LastOf(queue[w], s, F[s])

\* A scene is active during a join, and who is logged out has no session.
Scenes ==
    \A u \in Users :
      /\ joining[u] # "no" => active[u]
      /\ ~login[u] => ~cur[u].open

\* If all sessions have one name, a join that fails has left none.
SameNames == \A s, t \in Sessions : Name[s] = Name[t]

Arrived(u, s) ==
    Present(u, s) \/ (joining[u] \in {"write", "remember"} /\ target[u] = s)

\* A user is listed once at most, and not in the background: the handlers of all
\* his Studios have taken him off.  Who is in a session, or about to be, is
\* listed, if no join that failed has left it.
ListedIn(F, u) ==
    /\ \A s \in Sessions : Entries(F[s], u) <= 1
    /\ ~active[u] /\ login[u] =>
         /\ cur[u].open => Entries(F[cur[u].session], u) = 0
         /\ old[u].open => Entries(F[old[u].session], u) = 0
    /\ SameNames => \A s \in Sessions : Arrived(u, s) => Entries(F[s], u) > 0

IsolatedInv ==
    Isolated =>
      /\ OneWriter
      /\ Scenes
      /\ \E F \in [Sessions -> Lists] : Settles(F) /\ \A u \in Users : ListedIn(F, u)

\* A write of a sequence is the last one of its session, or another is.
LEMMA LastLemma ==
    ASSUME NEW q \in Seq(Lines), NEW s, ~NoneOf(q, s)
    PROVE  \E i \in 1 .. Len(q) : q[i].session = s /\ LastOf(q, s, q[i].list)
<1> DEFINE T == {i \in 1 .. Len(q) : q[i].session = s}
<1>1. Len(q) \in Nat /\ T \in SUBSET (1 .. Len(q)) /\ T # {}
  BY DEF NoneOf
<1>2. PICK i \in T : \A j \in T : j <= i
  <2> HIDE DEF T
  <2> QED  BY <1>1, GreatestLemma
<1>3. i \in 1 .. Len(q) /\ q[i].session = s
  BY <1>2
<1>4. \A j \in 1 .. Len(q) : i < j => q[j].session # s
  BY <1>1, <1>2
<1> QED  BY <1>3, <1>4 DEF LastOf

\* A client adds writes when nothing else is on its way.
LEMMA EnqueueLemma ==
    ASSUME TypeOK, Idle, NEW u \in Users, NEW q \in Seq(Lines),
           queue' = [queue EXCEPT ![u] = q], doc' = doc
    PROVE  /\ OneWriter'
           /\ \E F \in [Sessions -> Lists] :
                /\ Settles(F)'
                /\ \A s \in Sessions :
                     \/ F[s] = doc[s] /\ NoneOf(q, s)
                     \/ \E i \in 1 .. Len(q) : q[i].session = s /\ F[s] = q[i].list
<1>1. queue'[u] = q /\ \A v \in Users \ {u} : queue'[v] = <<>>
  BY DEF TypeOK, Idle
<1>2. OneWriter'
  BY <1>1 DEF OneWriter
<1>3. ASSUME NEW s \in Sessions
      PROVE  \E l \in Lists :
               \/ l = doc[s] /\ NoneOf(q, s)
               \/ \E i \in 1 .. Len(q) : q[i].session = s /\ l = q[i].list /\ LastOf(q, s, l)
  <2>1. CASE NoneOf(q, s)
    BY <2>1 DEF TypeOK
  <2>2. CASE ~NoneOf(q, s)
    <3>1. PICK i \in 1 .. Len(q) : q[i].session = s /\ LastOf(q, s, q[i].list)
      BY <2>2, LastLemma
    <3>2. q[i] \in Lines
      BY <3>1
    <3>3. q[i].list \in Lists
      BY <3>2 DEF Lines
    <3> QED  BY <3>1, <3>3
  <2> QED  BY <2>1, <2>2
<1> DEFINE F == [s \in Sessions |-> CHOOSE l \in Lists :
                   \/ l = doc[s] /\ NoneOf(q, s)
                   \/ \E i \in 1 .. Len(q) :
                        q[i].session = s /\ l = q[i].list /\ LastOf(q, s, l)]
<1>4. ASSUME NEW s \in Sessions
      PROVE  /\ F[s] \in Lists
             /\ \/ F[s] = doc[s] /\ NoneOf(q, s)
                \/ \E i \in 1 .. Len(q) :
                     q[i].session = s /\ F[s] = q[i].list /\ LastOf(q, s, F[s])
  BY <1>3
<1>5. F \in [Sessions -> Lists]
  BY <1>4
<1>6. PICK G \in [Sessions -> Lists] : G = F
  BY <1>5
<1> HIDE DEF F
<1>7. \A s : \A v \in Users \ {u} : NoneOf(queue'[v], s)
  BY <1>1 DEF NoneOf
<1>8. ASSUME NEW s \in Sessions
      PROVE  \/ G[s] = doc'[s] /\ \A w \in Users : NoneOf(queue'[w], s)
             \/ \E w \in Users : LastOf(queue'[w], s, G[s])
  BY <1>1, <1>4, <1>6, <1>7
<1>9. Settles(G)'
  BY <1>8 DEF Settles, NoneOf, LastOf
<1> QED  BY <1>2, <1>4, <1>6, <1>9

\* The server takes the first write of a queue.
LEMMA CommitLemma ==
    ASSUME TypeOK, OneWriter, NEW u \in Users, Commit(u), NEW F, Settles(F)
    PROVE  OneWriter' /\ Settles(F)'
<1> DEFINE q == queue[u]
           w == q[1]
<1>1. q \in Seq(Lines) /\ q # <<>> /\ queue \in [Users -> Seq(Lines)]
  BY DEF Commit, TypeOK, Lines
<1>2. /\ Tail(q) \in Seq(Lines) /\ Len(q) \in Nat /\ Len(q) >= 1
      /\ Len(Tail(q)) = Len(q) - 1
      /\ \A i \in 1 .. Len(Tail(q)) : Tail(q)[i] = q[i + 1]
      /\ w \in Lines /\ Head(q) = w
  BY <1>1
<1>3. /\ queue'[u] = Tail(q)
      /\ \A v \in Users \ {u} : queue'[v] = <<>> /\ queue[v] = <<>>
  BY <1>1 DEF Commit, OneWriter
<1>4. doc' = [doc EXCEPT ![w.session] = w.list] /\ w.session \in Sessions
  BY <1>2 DEF Commit, Lines
<1>5. \A s : \A v \in Users \ {u} : NoneOf(queue'[v], s)
  BY <1>3 DEF NoneOf
<1>6. ASSUME NEW s \in Sessions
      PROVE  \/ F[s] = doc'[s] /\ \A v \in Users : NoneOf(queue'[v], s)
             \/ \E v \in Users : LastOf(queue'[v], s, F[s])
  <2>1. CASE F[s] = doc[s] /\ \A v \in Users : NoneOf(queue[v], s)
    <3>1. NoneOf(q, s)
      BY <2>1
    <3>2. NoneOf(Tail(q), s) /\ w.session # s
      BY <1>2, <3>1 DEF NoneOf
    <3>3. doc'[s] = doc[s]
      BY <1>4, <3>2 DEF TypeOK
    <3> QED  BY <1>3, <1>5, <2>1, <3>2, <3>3
  <2>2. CASE \E v \in Users : LastOf(queue[v], s, F[s])
    <3>1. LastOf(q, s, F[s])
      BY <1>3, <2>2 DEF LastOf
    <3>2. PICK i \in 1 .. Len(q) :
            /\ q[i].session = s /\ q[i].list = F[s]
            /\ \A j \in 1 .. Len(q) : i < j => q[j].session # s
      BY <3>1 DEF LastOf
    <3>3. CASE i = 1
      <4>1. NoneOf(Tail(q), s)
        BY <1>2, <3>2, <3>3 DEF NoneOf
      <4>2. doc'[s] = F[s]
        BY <1>4, <3>2, <3>3 DEF TypeOK
      <4> QED  BY <1>3, <1>5, <4>1, <4>2
    <3>4. CASE i # 1
      <4>1. i - 1 \in 1 .. Len(Tail(q)) /\ Tail(q)[i - 1] = q[i]
        BY <1>2, <3>4
      <4>2. \A j \in 1 .. Len(Tail(q)) : i - 1 < j => Tail(q)[j].session # s
        BY <1>2, <3>2
      <4>3. LastOf(Tail(q), s, F[s])
        BY <3>2, <4>1, <4>2 DEF LastOf
      <4> QED  BY <1>3, <4>3
    <3> QED  BY <3>3, <3>4
  <2> QED  BY <2>1, <2>2 DEF Settles
<1>7. Settles(F)'
  BY <1>6 DEF Settles, NoneOf, LastOf
<1>8. OneWriter'
  BY <1>3 DEF OneWriter
<1> QED  BY <1>7, <1>8

\* What a step of another client leaves alone.
SameFor(v) ==
    /\ cur'[v].open = cur[v].open /\ cur'[v].session = cur[v].session
    /\ old'[v].open = old[v].open /\ old'[v].session = old[v].session
    /\ active'[v] = active[v] /\ login'[v] = login[v]
    /\ joining'[v] = joining[v] /\ target'[v] = target[v]

LEMMA SameLemma ==
    ASSUME TypeInv, NEW v \in Users, SameFor(v), NEW F, NEW G, ListedIn(F, v),
           \A s \in Sessions : Entries(G[s], v) = Entries(F[s], v)
    PROVE  ListedIn(G, v)'
<1>1. /\ cur[v].open => cur[v].session \in Sessions
      /\ old[v].open => old[v].session \in Sessions
  BY DEF TypeInv, Links
<1>2. \A s \in Sessions : Entries(G[s], v) <= 1
  BY DEF ListedIn
<1>3. ~active'[v] /\ login'[v] =>
        /\ cur'[v].open => Entries(G[cur'[v].session], v) = 0
        /\ old'[v].open => Entries(G[old'[v].session], v) = 0
  BY <1>1 DEF ListedIn, SameFor
<1>4. \A s \in Sessions : Arrived(v, s)' => Arrived(v, s)
  BY DEF SameFor, Arrived, Present
<1>5. SameNames => \A s \in Sessions : Arrived(v, s)' => Entries(G[s], v) > 0
  BY <1>4 DEF ListedIn
<1>6. \A s : Entries(G[s], v)' = Entries(G[s], v)
  BY DEF Entries
<1> QED  BY <1>2, <1>3, <1>5, <1>6 DEF ListedIn, Entries

LEMMA IdleLemma ==
    ASSUME Idle, NEW F, Settles(F), NEW s \in Sessions
    PROVE  F[s] = doc[s]
<1>1. \A l : \A w \in Users : ~LastOf(queue[w], s, l)
  BY DEF Idle, LastOf
<1> QED  BY <1>1 DEF Settles

\* A step that writes nothing.
LEMMA NoWriteStep ==
    ASSUME TypeInv, Isolated, IsolatedInv, UNCHANGED <<doc, queue>>, Scenes',
           NEW u \in Users, \A v \in Users \ {u} : SameFor(v),
           \A F \in [Sessions -> Lists] :
             Settles(F) /\ ListedIn(F, u) => ListedIn(F, u)'
    PROVE  IsolatedInv'
<1>1. PICK F \in [Sessions -> Lists] : Settles(F) /\ \A v \in Users : ListedIn(F, v)
  BY DEF IsolatedInv
<1>2. Settles(F)' /\ OneWriter'
  BY <1>1 DEF Settles, OneWriter, NoneOf, LastOf, IsolatedInv
<1>3. \A v \in Users \ {u} : ListedIn(F, v)'
  BY <1>1, SameLemma
<1>4. ListedIn(F, u)'
  BY <1>1
<1> QED  BY <1>1, <1>2, <1>3, <1>4 DEF IsolatedInv

\* The writes of q edit the lists of the documents for u, who then has as many
\* entries as K has members.
Edits(u, q, K) ==
    \A i \in 1 .. Len(q) :
      /\ \A v \in Users \ {u} : Entries(q[i].list, v) = Entries(doc[q[i].session], v)
      /\ Entries(q[i].list, u) \in K

\* The lists that the writes of q leave.
Leaves(q, F) ==
    \A s \in Sessions :
      \/ F[s] = doc[s] /\ NoneOf(q, s)
      \/ \E i \in 1 .. Len(q) : q[i].session = s /\ F[s] = q[i].list

LEMMA LeavesLemma ==
    ASSUME NEW u \in Users, NEW q, NEW K, Edits(u, q, K), NEW F, Leaves(q, F),
           NEW s \in Sessions
    PROVE  /\ Entries(F[s], u) \in K \/ (F[s] = doc[s] /\ NoneOf(q, s))
           /\ \A v \in Users \ {u} : Entries(F[s], v) = Entries(doc[s], v)
BY DEF Edits, Leaves

\* A step that adds the writes of q to the queues, which are empty.
LEMMA WriteStep ==
    ASSUME TypeInv, Isolated, IsolatedInv, Idle, doc' = doc, Scenes',
           NEW u \in Users, \A v \in Users \ {u} : SameFor(v),
           NEW q \in Seq(Lines), queue' = [queue EXCEPT ![u] = q],
           NEW K \in SUBSET {0, 1}, Edits(u, q, K),
           \A F \in [Sessions -> Lists] :
             Leaves(q, F) /\ (\A s \in Sessions : Entries(F[s], u) <= 1) => ListedIn(F, u)'
    PROVE  IsolatedInv'
<1>1. PICK D \in [Sessions -> Lists] : Settles(D) /\ \A v \in Users : ListedIn(D, v)
  BY DEF IsolatedInv
<1>2. \A s \in Sessions : D[s] = doc[s]
  BY <1>1, IdleLemma
<1>3. PICK F \in [Sessions -> Lists] : Settles(F)' /\ Leaves(q, F) /\ OneWriter'
  BY EnqueueLemma DEF TypeInv, Leaves
<1>4. ASSUME NEW s \in Sessions
      PROVE  /\ Entries(F[s], u) <= 1
             /\ \A v \in Users \ {u} : Entries(F[s], v) = Entries(D[s], v)
  <2>1. /\ Entries(F[s], u) \in K \/ F[s] = D[s]
        /\ \A v \in Users \ {u} : Entries(F[s], v) = Entries(D[s], v)
    BY <1>2, <1>3, LeavesLemma
  <2>2. Entries(D[s], u) <= 1
    BY <1>1 DEF ListedIn
  <2>3. ASSUME Entries(F[s], u) \in K PROVE Entries(F[s], u) <= 1
    <3>1. Entries(F[s], u) \in {0, 1}
      BY <2>3
    <3> QED  BY <3>1
  <2> QED  BY <2>1, <2>2, <2>3
<1>5. \A v \in Users \ {u} : ListedIn(F, v)'
  BY <1>1, <1>4, SameLemma
<1>6. ListedIn(F, u)'
  BY <1>3, <1>4
<1> QED  BY <1>3, <1>5, <1>6 DEF IsolatedInv

\* Edits one after the other.
LEMMA ConcatLemma ==
    ASSUME NEW p \in Seq(Lines), NEW q \in Seq(Lines)
    PROVE  /\ p \o q \in Seq(Lines)
           /\ \A K : \A u \in Users : Edits(u, p, K) /\ Edits(u, q, K) => Edits(u, p \o q, K)
           /\ \A s : NoneOf(p \o q, s) => NoneOf(p, s) /\ NoneOf(q, s)
<1>1. /\ p \o q \in Seq(Lines) /\ Len(p \o q) = Len(p) + Len(q)
      /\ Len(p) \in Nat /\ Len(q) \in Nat
      /\ \A i \in 1 .. Len(p) : (p \o q)[i] = p[i]
      /\ \A i \in 1 .. Len(q) : (p \o q)[Len(p) + i] = q[i]
  OBVIOUS
<1> DEFINE c == p \o q
<1>2. \A i \in 1 .. Len(c) :
        \/ \E j \in 1 .. Len(p) : c[i] = p[j]
        \/ \E j \in 1 .. Len(q) : c[i] = q[j]
  <2> SUFFICES ASSUME NEW i \in 1 .. Len(c), ~(i <= Len(p))
               PROVE  \E j \in 1 .. Len(q) : c[i] = q[j]
    BY <1>1
  <2>1. i - Len(p) \in 1 .. Len(q) /\ Len(p) + (i - Len(p)) = i
    BY <1>1
  <2> QED  BY <1>1, <2>1
<1>3. /\ \A j \in 1 .. Len(p) : \E i \in 1 .. Len(c) : c[i] = p[j]
      /\ \A j \in 1 .. Len(q) : \E i \in 1 .. Len(c) : c[i] = q[j]
  <2>1. ASSUME NEW j \in 1 .. Len(p) PROVE \E i \in 1 .. Len(c) : c[i] = p[j]
    <3>1. j \in 1 .. Len(c) /\ c[j] = p[j]
      BY <1>1
    <3> QED  BY <3>1
  <2>2. ASSUME NEW j \in 1 .. Len(q) PROVE \E i \in 1 .. Len(c) : c[i] = q[j]
    <3>1. Len(p) + j \in 1 .. Len(c) /\ c[Len(p) + j] = q[j]
      BY <1>1
    <3> QED  BY <3>1
  <2> QED  BY <2>1, <2>2
<1>4. c \in Seq(Lines)
  BY <1>1
<1>5. c = p \o q
  OBVIOUS
<1> HIDE DEF c
<1>6. \A K : \A u \in Users : Edits(u, p, K) /\ Edits(u, q, K) => Edits(u, c, K)
  <2> SUFFICES ASSUME NEW u \in Users, NEW K, Edits(u, p, K), Edits(u, q, K)
               PROVE  Edits(u, c, K)
    OBVIOUS
  <2> DEFINE Good(w) ==
               /\ \A v \in Users \ {u} : Entries(w.list, v) = Entries(doc[w.session], v)
               /\ Entries(w.list, u) \in K
  <2>1. /\ \A j \in 1 .. Len(p) : Good(p[j])
        /\ \A j \in 1 .. Len(q) : Good(q[j])
    BY DEF Edits
  <2>2. \A i \in 1 .. Len(c) : Good(c[i])
    <3> HIDE DEF Good
    <3> QED  BY <1>2, <2>1
  <2> QED  BY <2>2 DEF Edits
<1>7. \A s : NoneOf(c, s) => NoneOf(p, s) /\ NoneOf(q, s)
  BY <1>3 DEF NoneOf
<1> QED  BY <1>4, <1>5, <1>6, <1>7

\* One write whose list has k entries of u.
LEMMA OneEdit ==
    ASSUME NEW u \in Users, NEW w \in Lines, NEW K,
           \A v \in Users \ {u} : Entries(w.list, v) = Entries(doc[w.session], v),
           Entries(w.list, u) \in K
    PROVE  <<w>> \in Seq(Lines) /\ Edits(u, <<w>>, K) /\ ~NoneOf(<<w>>, w.session)
BY DEF Edits, NoneOf

LEMMA NoEdit ==
    /\ <<>> \in Seq(Lines)
    /\ \A K : \A u \in Users : Edits(u, <<>>, K)
BY DEF Edits

\* The writes of the handlers, from Session objects that are up to date.
LEMMA LeaveEdits ==
    ASSUME TypeInv, NEW u \in Users, NEW o \in Objects, Fresh(u, o),
           NEW K, IF login[u] THEN 0 \in K
                  ELSE o.session # None => Entries(doc[o.session], u) \in K
    PROVE  /\ Leave(u, o) \in Seq(Lines)
           /\ Edits(u, Leave(u, o), K)
           /\ o.session # None => ~NoneOf(Leave(u, o), o.session)
<1>1. CASE o.session = None
  BY <1>1, NoEdit DEF Leave
<1>2. CASE o.session # None
  <2> DEFINE r == RemoveFrom(u, o)
             w == Write(r)
  <2>1. /\ o.session \in Sessions /\ o.list \in Lists
        /\ o.list = doc[o.session]
    BY <1>2 DEF Objects, Fresh
  <2>2. r \in Objects /\ r.session = o.session
    BY ObjectLemma DEF TypeInv
  <2>3. r.list = IF login[u] THEN Without(o.list, u) ELSE o.list
    BY DEF RemoveFrom, Objects
  <2>4. w.session = o.session /\ w.list = r.list
    BY <2>2 DEF Write
  <2>5. w \in Lines
    BY <2>1, <2>2, <2>4 DEF Write, Lines, Objects
  <2>6. Leave(u, o) = <<w>>
    BY <1>2 DEF Leave
  <2> HIDE DEF r, w
  <2>7. /\ \A v \in Users \ {u} : Entries(w.list, v) = Entries(doc[w.session], v)
        /\ Entries(w.list, u) \in K
    BY <1>2, <2>1, <2>3, <2>4, EditLemma
  <2> QED  BY <2>4, <2>5, <2>6, <2>7, OneEdit
<1> QED  BY <1>1, <1>2

LEMMA EnterEdits ==
    ASSUME TypeInv, NEW u \in Users, NEW o \in Objects, Fresh(u, o),
           o.open => o.session \in Sessions /\ Entries(doc[o.session], u) = 0
    PROVE  /\ Enter(u, o) \in Seq(Lines)
           /\ Edits(u, Enter(u, o), {1})
           /\ o.open => ~NoneOf(Enter(u, o), o.session)
<1>1. CASE ~o.open
  BY <1>1, NoEdit DEF Enter
<1>2. CASE o.open
  <2> DEFINE e == Entered(u, o)
             r == Readied(u, e)
             x == Write(e)
             y == Write(r)
  <2>1. /\ o.session \in Sessions /\ o.list \in Lists
        /\ o.list = doc[o.session] /\ Entries(o.list, u) = 0
    BY <1>2, NoneAssumption DEF Objects, Fresh
  <2>2. e \in Objects /\ e.session = o.session /\ e.list = With(o.list, u)
    BY ObjectLemma DEF TypeInv
  <2>3. r \in Objects /\ r.session = o.session /\ r.list = WithStatus(e.list, u, e.switch)
    <3> HIDE DEF e
    <3> QED  BY <2>2, ObjectLemma DEF TypeInv
  <2>4. /\ x.session = o.session /\ x.list = e.list
        /\ y.session = o.session /\ y.list = r.list
    <3> HIDE DEF e, r
    <3> QED  BY <2>2, <2>3 DEF Write
  <2>5. x \in Lines /\ y \in Lines
    <3> HIDE DEF e, r
    <3> QED  BY <2>1, <2>2, <2>3 DEF Write, Lines, Objects
  <2>6. Enter(u, o) = <<x, y>>
    BY <1>2 DEF Enter
  <2>7. e.list \in Lists /\ e.switch \in BOOLEAN
    BY <2>2 DEF Objects
  <2> HIDE DEF e, r, x, y
  <2>8. /\ \A v \in Users \ {u} : Entries(x.list, v) = Entries(doc[x.session], v)
        /\ Entries(x.list, u) = 1
    BY <2>1, <2>2, <2>4, EditLemma
  <2>9. /\ \A v \in Users \ {u} : Entries(y.list, v) = Entries(doc[y.session], v)
        /\ Entries(y.list, u) = 1
    BY <2>3, <2>4, <2>7, <2>8, EditLemma
  <2>10. /\ <<x, y>> \in Seq(Lines) /\ Len(<<x, y>>) = 2
         /\ <<x, y>>[1] = x /\ <<x, y>>[2] = y
    BY <2>5
  <2>11. Edits(u, <<x, y>>, {1})
    BY <2>8, <2>9, <2>10 DEF Edits
  <2>12. ~NoneOf(<<x, y>>, o.session)
    BY <2>4, <2>10 DEF NoneOf
  <2> QED  BY <1>2, <2>6, <2>10, <2>11, <2>12
<1> QED  BY <1>1, <1>2

\* Every step keeps what isolation gives.
LEMMA IsolatedStep ==
    ASSUME TypeInv, Isolated, IsolatedInv, [Next]_vars
    PROVE  IsolatedInv'
<1>0. /\ TypeOK /\ Links /\ OneWriter /\ Scenes
  BY DEF TypeInv, IsolatedInv
<1>o. ASSUME NEW u \in Users
      PROVE  /\ cur[u] \in Objects /\ old[u] \in Objects /\ queue[u] \in Seq(Lines)
             /\ cur[u].open => cur[u].session \in Sessions
             /\ old[u].open => old[u].session \in Sessions
  BY <1>0 DEF TypeOK, Links, Lines
<1>m. ASSUME NEW u \in Users, MayEdit(u)
      PROVE  /\ Idle /\ queue[u] = <<>> /\ Fresh(u, cur[u]) /\ Fresh(u, old[u])
             /\ \A q \in Seq(Lines) : queue[u] \o q = q
  BY <1>m DEF MayEdit, Idle
\* What the documents say while nothing is on its way.
<1>d. ASSUME Idle, NEW u \in Users
      PROVE  /\ \A s \in Sessions : Entries(doc[s], u) <= 1
             /\ ~active[u] /\ login[u] =>
                  /\ cur[u].open => Entries(doc[cur[u].session], u) = 0
                  /\ old[u].open => Entries(doc[old[u].session], u) = 0
             /\ SameNames => \A s \in Sessions : Arrived(u, s) => Entries(doc[s], u) > 0
  <2>1. PICK F \in [Sessions -> Lists] : Settles(F) /\ ListedIn(F, u)
    BY DEF IsolatedInv
  <2>2. \A s \in Sessions : F[s] = doc[s]
    BY <1>d, <2>1, IdleLemma
  <2> QED  BY <1>o, <2>1, <2>2 DEF ListedIn
<1>n. ASSUME NEW u \in Users, NEW s \in Sessions PROVE Entries(doc[s], u) \in Nat
  BY <1>0, EditLemma DEF TypeOK
\* What is to be shown of the client that steps.
<1>l. ASSUME NEW u \in Users, NEW F, \A s \in Sessions : Entries(F[s], u) <= 1,
             active'[u] \/ ~login'[u],
             SameNames => \A s \in Sessions : Arrived(u, s)' => Entries(F[s], u) > 0
      PROVE  ListedIn(F, u)'
  BY <1>l DEF ListedIn, Entries
<1>1. ASSUME NEW u \in Users, NEW s \in Sessions, TapJoin(u, s) PROVE IsolatedInv'
  <2>1. /\ login[u] /\ active[u] /\ MayEdit(u) /\ doc' = doc
        /\ UNCHANGED <<old, login, active>>
        /\ joining' = [joining EXCEPT ![u] = "fetch"]
        /\ target' = [target EXCEPT ![u] = s]
    BY <1>1 DEF TapJoin
  <2>2. PICK c \in Objects, q \in Seq(Lines) :
          /\ cur' = [cur EXCEPT ![u] = c]
          /\ queue' = [queue EXCEPT ![u] = q]
          /\ c.open = cur[u].open /\ c.session = cur[u].session
          /\ Edits(u, q, {0}) /\ (SameNames => q = <<>>)
    <3>1. CASE OtherSession(u, s)
      <4> DEFINE c == RemoveFrom(u, cur[u])
                 q == Leave(u, cur[u])
      <4>1. cur' = [cur EXCEPT ![u] = c] /\ queue' = [queue EXCEPT ![u] = queue[u] \o q]
        BY <1>1, <3>1 DEF TapJoin
      <4>2. c \in Objects /\ c.open = cur[u].open /\ c.session = cur[u].session
        BY <1>0, <1>o, ObjectLemma
      <4>3. q \in Seq(Lines) /\ Edits(u, q, {0})
        BY <1>m, <1>o, <2>1, LeaveEdits
      <4>4. ~SameNames
        BY <1>o, <3>1 DEF SameNames, OtherSession, Objects
      <4> HIDE DEF c, q
      <4> QED  BY <1>m, <2>1, <4>1, <4>2, <4>3, <4>4
    <3>2. CASE ~OtherSession(u, s)
      <4>1. cur' = cur /\ queue' = queue
        BY <1>1, <3>2 DEF TapJoin
      <4>2. cur' = [cur EXCEPT ![u] = cur[u]] /\ queue' = [queue EXCEPT ![u] = <<>>]
        BY <1>0, <1>m, <2>1, <4>1 DEF TypeOK
      <4> QED  BY <1>o, <4>2, NoEdit
    <3> QED  BY <3>1, <3>2
  <2>3. /\ cur'[u] = c /\ joining'[u] = "fetch"
        /\ \A v \in Users \ {u} : cur'[v] = cur[v] /\ joining'[v] = joining[v]
                                  /\ target'[v] = target[v]
    BY <1>0, <2>1, <2>2 DEF TypeOK
  <2>4. \A v \in Users \ {u} : SameFor(v)
    BY <2>1, <2>3 DEF SameFor
  <2>5. Scenes'
    BY <1>0, <2>1, <2>2, <2>3 DEF Scenes
  <2>6. ASSUME NEW F \in [Sessions -> Lists], Leaves(q, F),
               \A r \in Sessions : Entries(F[r], u) <= 1
        PROVE  ListedIn(F, u)'
    <3>1. SameNames => \A r \in Sessions : F[r] = doc[r]
      BY <2>2, <2>6 DEF Leaves
    <3>2. \A r \in Sessions : Arrived(u, r)' => Arrived(u, r)
      BY <2>1, <2>2, <2>3 DEF Arrived, Present
    <3> QED  BY <1>d, <1>l, <1>m, <2>1, <2>6, <3>1, <3>2
  <2> QED  BY <1>m, <2>1, <2>2, <2>4, <2>5, <2>6, WriteStep
<1>w. ASSUME NEW u \in Users, UNCHANGED <<doc, queue, old>>,
             active' = active \/ active' = [active EXCEPT ![u] = TRUE],
             \A v \in Users \ {u} : SameFor(v), Scenes',
             active'[u] \/ ~login'[u],
             \A s \in Sessions : Arrived(u, s)' => Arrived(u, s)
      PROVE  IsolatedInv'
  <2>1. ASSUME NEW F \in [Sessions -> Lists], ListedIn(F, u) PROVE ListedIn(F, u)'
    <3>1. /\ \A s \in Sessions : Entries(F[s], u) <= 1
          /\ SameNames => \A s \in Sessions : Arrived(u, s) => Entries(F[s], u) > 0
      BY <2>1 DEF ListedIn
    <3> QED  BY <1>l, <1>w, <3>1
  <2> QED  BY <1>w, <2>1, NoWriteStep
<1>2. ASSUME NEW u \in Users, JoinFails(u) PROVE IsolatedInv'
  <2>1. /\ joining[u] = "fetch" /\ joining' = [joining EXCEPT ![u] = "no"]
        /\ UNCHANGED <<doc, queue, cur, old, login, active, target>>
    BY <1>2 DEF JoinFails
  <2>2. joining'[u] = "no" /\ \A v \in Users \ {u} : joining'[v] = joining[v]
    BY <1>0, <2>1 DEF TypeOK
  <2>3. active[u]
    BY <1>0, <2>1 DEF Scenes
  <2>4. \A v \in Users \ {u} : SameFor(v)
    BY <2>1, <2>2 DEF SameFor
  <2>5. Scenes'
    BY <1>0, <2>1, <2>2 DEF Scenes
  <2>6. \A s \in Sessions : Arrived(u, s)' => Arrived(u, s)
    BY <2>1, <2>2 DEF Arrived, Present
  <2> QED  BY <1>w, <2>1, <2>3, <2>4, <2>5, <2>6
<1>3. ASSUME NEW u \in Users, JoinFetched(u) PROVE IsolatedInv'
  <2> DEFINE s == target[u]
             b == [session |-> s, open |-> FALSE, switch |-> FALSE,
                   list |-> IF Listed(u, s) THEN Fetched(u, s)
                            ELSE With(Fetched(u, s), u)]
             e == [b EXCEPT !.open = TRUE]
  <2>1. /\ joining[u] = "fetch" /\ Idle /\ doc' = doc /\ UNCHANGED <<login, active, target>>
        /\ old' = [old EXCEPT ![u] = IF cur[u].open THEN cur[u] ELSE old[u]]
    BY <1>3 DEF JoinFetched, Idle
  <2>2. s \in Sessions /\ login[u] /\ active[u]
    BY <1>0, <2>1 DEF Links, Scenes
  <2>3. Fetched(u, s) = doc[s] /\ doc[s] \in Lists
    <3>1. queue[u] = <<>> /\ doc \in [Sessions -> Lists]
      BY <1>0, <2>1 DEF Idle, TypeOK
    <3>2. {i \in 1 .. Len(queue[u]) : queue[u][i].session = s} = {}
      BY <3>1
    <3> QED  BY <2>2, <3>1, <3>2 DEF Fetched, View
  <2>4. \A v \in Users \ {u} : old'[v] = old[v]
    BY <1>0, <2>1 DEF TypeOK
  <2>5. CASE Listed(u, s)
    <3>1. /\ cur' = [cur EXCEPT ![u] = e] /\ joining' = [joining EXCEPT ![u] = "no"]
          /\ queue' = queue
      BY <1>3, <2>5 DEF JoinFetched
    <3>2. e.open /\ e.session = s
      OBVIOUS
    <3> HIDE DEF e, b
    <3>3. /\ cur'[u] = e /\ joining'[u] = "no"
          /\ \A v \in Users \ {u} : cur'[v] = cur[v] /\ joining'[v] = joining[v]
      BY <1>0, <3>1 DEF TypeOK
    <3>4. \A v \in Users \ {u} : SameFor(v)
      BY <2>1, <2>4, <3>3 DEF SameFor
    <3>5. Scenes'
      BY <1>0, <2>1, <2>2, <3>3 DEF Scenes
    <3>6. Entries(doc[s], u) > 0
      BY <2>3, <2>5 DEF Listed
    <3>7. ASSUME NEW F \in [Sessions -> Lists], Settles(F), ListedIn(F, u)
          PROVE  ListedIn(F, u)'
      <4>1. F[s] = doc[s]
        BY <2>1, <2>2, <3>7, IdleLemma
      <4>2. \A r \in Sessions : Arrived(u, r)' => r = s
        BY <3>2, <3>3 DEF Arrived, Present
      <4>3. \A r \in Sessions : Entries(F[r], u) <= 1
        BY <3>7 DEF ListedIn
      <4>4. active'[u]
        BY <2>1, <2>2
      <4> HIDE DEF s
      <4> QED  BY <1>l, <3>6, <4>1, <4>2, <4>3, <4>4
    <3> QED  BY <2>1, <3>1, <3>4, <3>5, <3>7, NoWriteStep
  <2>6. CASE ~Listed(u, s)
    <3> DEFINE w == Write(b)
    <3>1. /\ cur' = [cur EXCEPT ![u] = b] /\ joining' = [joining EXCEPT ![u] = "write"]
          /\ queue' = [queue EXCEPT ![u] = Append(queue[u], w)]
      BY <1>3, <2>6 DEF JoinFetched
    <3>2. b.list = With(doc[s], u)
      BY <2>3, <2>6
    <3>3. ~b.open /\ b.session = s
      OBVIOUS
    <3> HIDE DEF b
    <3>4. w.session = s /\ w.list = With(doc[s], u) /\ w = [session |-> s, list |-> With(doc[s], u)]
      BY <3>2, <3>3 DEF Write
    <3>6. /\ cur'[u] = b /\ joining'[u] = "write"
          /\ \A v \in Users \ {u} : cur'[v] = cur[v] /\ joining'[v] = joining[v]
      BY <1>0, <3>1 DEF TypeOK
    <3> HIDE DEF s, w
    <3>7. Entries(doc[s], u) = 0
      <4>1. ~(Entries(doc[s], u) > 0)
        BY <2>3, <2>6 DEF Listed
      <4> QED  BY <1>n, <2>2, <4>1
    <3>8. w \in Lines
      BY <2>2, <2>3, <3>4, EditLemma DEF Lines
    <3>5. Append(queue[u], w) = <<w>>
      <4>1. queue[u] = <<>>
        BY <2>1 DEF Idle
      <4>2. Append(<<>>, w) = <<w>>
        BY <3>8
      <4> QED  BY <4>1, <4>2
    <3>9. /\ \A v \in Users \ {u} : Entries(w.list, v) = Entries(doc[w.session], v)
          /\ Entries(w.list, u) \in {1}
      <4>1. /\ Entries(With(doc[s], u), u) = Entries(doc[s], u) + 1
            /\ \A v \in Users \ {u} : Entries(With(doc[s], u), v) = Entries(doc[s], v)
        BY <2>3, EditLemma, TRUE \in BOOLEAN
      <4> QED  BY <3>4, <3>7, <4>1
    <3>10. <<w>> \in Seq(Lines) /\ Edits(u, <<w>>, {1}) /\ ~NoneOf(<<w>>, s)
      BY <3>4, <3>8, <3>9, OneEdit
    <3>11. \A v \in Users \ {u} : SameFor(v)
      BY <2>1, <2>4, <3>6 DEF SameFor
    <3>12. Scenes'
      BY <1>0, <2>1, <2>2, <3>6 DEF Scenes
    <3>13. ASSUME NEW F \in [Sessions -> Lists], Leaves(<<w>>, F),
                  \A r \in Sessions : Entries(F[r], u) <= 1
           PROVE  ListedIn(F, u)'
      <4>1. Entries(F[s], u) \in {1}
        BY <2>2, <3>10, <3>13, LeavesLemma
      <4>2. \A r \in Sessions : Arrived(u, r)' => r = s
        BY <2>1, <3>3, <3>6 DEF Arrived, Present, s
      <4>3. active'[u]
        BY <2>1, <2>2
      <4>4. SameNames => \A r \in Sessions : Arrived(u, r)' => Entries(F[r], u) > 0
        BY <4>1, <4>2
      <4> QED  BY <1>l, <3>13, <4>3, <4>4
    <3>14. queue' = [queue EXCEPT ![u] = <<w>>]
      BY <3>1, <3>5
    <3> QED  BY <2>1, <3>10, <3>11, <3>12, <3>13, <3>14, WriteStep
  <2> QED  BY <2>5, <2>6
\* The Studio opens: who was about to be in the session is in it.
<1>p. ASSUME NEW u \in Users, joining[u] \in {"write", "remember"}, OpenStudio(u),
             UNCHANGED <<doc, queue, old, login, active, target>>
      PROVE  IsolatedInv'
  <2>1. /\ cur'[u].session = cur[u].session /\ cur'[u].open
        /\ \A v \in Users \ {u} : cur'[v] = cur[v]
    BY <1>0, <1>p, OpenType
  <2>2. joining'[u] = "no" /\ \A v \in Users \ {u} : joining'[v] = joining[v]
    BY <1>0, <1>p DEF OpenStudio, TypeOK
  <2>3. active[u] /\ login[u] /\ cur[u].session = target[u]
    BY <1>0, <1>p DEF Scenes, Links
  <2>4. \A v \in Users \ {u} : SameFor(v)
    BY <1>p, <2>1, <2>2 DEF SameFor
  <2>5. Scenes'
    BY <1>0, <1>p, <2>1, <2>2, <2>3 DEF Scenes
  <2>6. \A s \in Sessions : Arrived(u, s)' => Arrived(u, s)
    BY <1>p, <2>1, <2>2, <2>3 DEF Arrived, Present
  <2> QED  BY <1>p, <1>w, <2>3, <2>4, <2>5, <2>6
<1>4. ASSUME NEW u \in Users, JoinWritten(u) PROVE IsolatedInv'
  <2>1. CASE target[u] \in joined[u] /\ OpenStudio(u)
    BY <1>4, <1>p, <2>1 DEF JoinWritten
  <2>2. CASE /\ joining' = [joining EXCEPT ![u] = "remember"]
             /\ UNCHANGED cur
    <3>1. joining[u] = "write" /\ UNCHANGED <<doc, queue, old, login, active, target>>
      BY <1>4 DEF JoinWritten
    <3>2. joining'[u] = "remember" /\ \A v \in Users \ {u} : joining'[v] = joining[v]
      BY <1>0, <2>2 DEF TypeOK
    <3>3. active[u]
      BY <1>0, <3>1 DEF Scenes
    <3>4. \A v \in Users \ {u} : SameFor(v)
      BY <2>2, <3>1, <3>2 DEF SameFor
    <3>5. Scenes'
      BY <1>0, <2>2, <3>1, <3>2, <3>3 DEF Scenes
    <3>6. \A s \in Sessions : Arrived(u, s)' => Arrived(u, s)
      BY <2>2, <3>1, <3>2 DEF Arrived, Present
    <3> QED  BY <1>w, <3>1, <3>3, <3>4, <3>5, <3>6
  <2> QED  BY <1>4, <2>1, <2>2 DEF JoinWritten
<1>5. ASSUME NEW u \in Users, JoinDone(u) PROVE IsolatedInv'
  BY <1>5, <1>p DEF JoinDone
<1>6. ASSUME NEW u \in Users, updateUsersStatus(u) PROVE IsolatedInv'
  <2> DEFINE o == [cur[u] EXCEPT !.switch = ~@]
             r == Readied(u, o)
             w == Write(r)
  <2>1. /\ login[u] /\ active[u] /\ joining[u] = "no" /\ cur[u].open /\ MayEdit(u)
        /\ cur' = [cur EXCEPT ![u] = r]
        /\ queue' = [queue EXCEPT ![u] = Append(queue[u], w)]
        /\ UNCHANGED <<doc, old, login, active, joining, target>>
    BY <1>6 DEF updateUsersStatus
  <2>2. /\ o \in Objects /\ o.open = cur[u].open /\ o.session = cur[u].session
        /\ o.list = cur[u].list /\ o.switch \in BOOLEAN /\ o.list \in Lists
    BY <1>o DEF Objects
  <2> HIDE DEF o
  <2>3. /\ r \in Objects /\ r.session = o.session /\ r.open = o.open
        /\ r.list = WithStatus(o.list, u, o.switch)
    BY <1>0, <2>2, ObjectLemma
  <2> HIDE DEF r
  <2>4. cur[u].session \in Sessions /\ o.list = doc[cur[u].session]
    BY <1>m, <1>o, <2>1, <2>2 DEF Fresh
  <2>5. w.session = cur[u].session /\ w.list = r.list /\ w \in Lines
    BY <2>2, <2>3, <2>4 DEF Write, Lines, Objects
  <2> HIDE DEF w
  <2>6. \A v \in Users : Entries(w.list, v) = Entries(doc[w.session], v)
    <3>1. LET l == WithStatus(o.list, u, o.switch) IN
          /\ Entries(l, u) = Entries(o.list, u)
          /\ \A v \in Users \ {u} : Entries(l, v) = Entries(o.list, v)
      BY <2>2, EditLemma
    <3>2. w.list = WithStatus(o.list, u, o.switch) /\ doc[w.session] = o.list
      BY <2>3, <2>4, <2>5
    <3> QED  BY <3>1, <3>2
  <2>7. Entries(w.list, u) \in {0, 1}
    <3>1. Entries(doc[w.session], u) \in Nat /\ Entries(doc[w.session], u) <= 1
      BY <1>d, <1>m, <1>n, <2>1, <2>4, <2>5
    <3> QED  BY <2>6, <3>1
  <2>8. <<w>> \in Seq(Lines) /\ Edits(u, <<w>>, {0, 1})
    BY <2>5, <2>6, <2>7, OneEdit
  <2>9. queue' = [queue EXCEPT ![u] = <<w>>]
    <3>1. Append(<<>>, w) = <<w>> /\ queue[u] = <<>>
      BY <1>m, <2>1, <2>5
    <3> QED  BY <2>1, <3>1
  <2>10. cur'[u] = r /\ \A v \in Users \ {u} : cur'[v] = cur[v]
    BY <1>0, <2>1 DEF TypeOK
  <2>11. \A v \in Users \ {u} : SameFor(v)
    BY <2>1, <2>10 DEF SameFor
  <2>12. Scenes'
    BY <1>0, <2>1, <2>2, <2>3, <2>10 DEF Scenes
  <2>13. ASSUME NEW F \in [Sessions -> Lists], Leaves(<<w>>, F),
                \A s \in Sessions : Entries(F[s], u) <= 1
         PROVE  ListedIn(F, u)'
    <3>1. \A s \in Sessions : Entries(F[s], u) = Entries(doc[s], u)
      <4> SUFFICES ASSUME NEW s \in Sessions
                   PROVE  Entries(F[s], u) = Entries(doc[s], u)
        OBVIOUS
      <4>1. <<w>>[1] = w /\ Len(<<w>>) = 1
        OBVIOUS
      <4> QED  BY <2>6, <2>13, <4>1 DEF Leaves
    <3>2. \A s \in Sessions : Arrived(u, s)' => Arrived(u, s)
      BY <2>1, <2>2, <2>3, <2>10 DEF Arrived, Present
    <3> QED  BY <1>d, <1>l, <1>m, <2>1, <2>13, <3>1, <3>2
  <2> QED  BY <1>m, <2>1, <2>8, <2>9, <2>11, <2>12, <2>13, WriteStep
\* What the handlers of a client write one after the other.
<1>q. ASSUME NEW u \in Users, NEW p \in Seq(Lines), NEW q \in Seq(Lines), NEW K,
             Edits(u, p, K), Edits(u, q, K), MayEdit(u),
             queue' = [queue EXCEPT ![u] = @ \o p \o q]
      PROVE  /\ p \o q \in Seq(Lines) /\ queue' = [queue EXCEPT ![u] = p \o q]
             /\ Edits(u, p \o q, K)
             /\ \A s : NoneOf(p \o q, s) => NoneOf(p, s) /\ NoneOf(q, s)
  <2>1. queue[u] \o p \o q = p \o q
    BY <1>m, <1>q
  <2> QED  BY <1>q, <2>1, ConcatLemma
<1>7. ASSUME NEW u \in Users, handleBackgroundStatus(u) PROVE IsolatedInv'
  <2> DEFINE c == IF cur[u].open THEN RemoveFrom(u, cur[u]) ELSE cur[u]
             o == IF old[u].open THEN RemoveFrom(u, old[u]) ELSE old[u]
             p == IF old[u].open THEN Leave(u, old[u]) ELSE <<>>
             q == IF cur[u].open THEN Leave(u, cur[u]) ELSE <<>>
  <2>1. /\ active[u] /\ MayEdit(u) /\ joining[u] = "no"
        /\ active' = [active EXCEPT ![u] = FALSE]
        /\ cur' = [cur EXCEPT ![u] = c] /\ old' = [old EXCEPT ![u] = o]
        /\ queue' = [queue EXCEPT ![u] = queue[u] \o p \o q]
        /\ UNCHANGED <<doc, login, joining, target>>
    BY <1>7 DEF handleBackgroundStatus
  <2>2. /\ c.open = cur[u].open /\ c.session = cur[u].session
        /\ o.open = old[u].open /\ o.session = old[u].session
    <3>1. \A x \in Objects : /\ RemoveFrom(u, x).open = x.open
                             /\ RemoveFrom(u, x).session = x.session
      BY <1>0, ObjectLemma
    <3> QED  BY <1>o, <3>1
  <2>3. PICK K \in SUBSET {0, 1} :
          /\ login[u] => K = {0}
          /\ p \in Seq(Lines) /\ Edits(u, p, K)
          /\ q \in Seq(Lines) /\ Edits(u, q, K)
    <3> DEFINE L == IF login[u] THEN {0} ELSE {0, 1}
    <3>1. ASSUME NEW x \in Objects, Fresh(u, x)
          PROVE  Leave(u, x) \in Seq(Lines) /\ Edits(u, Leave(u, x), L)
      <4>1. x.session # None => x.session \in Sessions
        BY DEF Objects
      <4>2. \A s \in Sessions : Entries(doc[s], u) \in {0, 1}
        BY <1>d, <1>m, <1>n, <2>1
      <4>3. IF login[u] THEN 0 \in L ELSE x.session # None => Entries(doc[x.session], u) \in L
        BY <4>1, <4>2
      <4> HIDE DEF L
      <4> QED  BY <3>1, <4>3, LeaveEdits
    <3>2. L \in SUBSET {0, 1} /\ (login[u] => L = {0})
      OBVIOUS
    <3> HIDE DEF L
    <3> QED  BY <1>m, <1>o, <2>1, <3>1, <3>2, NoEdit
  <2>4. /\ cur[u].open /\ login[u] => ~NoneOf(q, cur[u].session)
        /\ old[u].open /\ login[u] => ~NoneOf(p, old[u].session)
    <3>1. ASSUME NEW x \in Objects, Fresh(u, x), x.session \in Sessions, login[u]
          PROVE  ~NoneOf(Leave(u, x), x.session)
      BY <3>1, LeaveEdits, NoneAssumption, 0 \in {0}
    <3> QED  BY <1>m, <1>o, <2>1, <3>1
  <2>5. /\ cur'[u] = c /\ old'[u] = o /\ ~active'[u]
        /\ \A v \in Users \ {u} : cur'[v] = cur[v] /\ old'[v] = old[v] /\ active'[v] = active[v]
    BY <1>0, <2>1 DEF TypeOK
  <2> HIDE DEF c, o, p, q
  <2>6. /\ p \o q \in Seq(Lines) /\ queue' = [queue EXCEPT ![u] = p \o q]
        /\ Edits(u, p \o q, K)
        /\ \A s : NoneOf(p \o q, s) => NoneOf(p, s) /\ NoneOf(q, s)
    BY <1>q, <2>1, <2>3
  <2>7. \A v \in Users \ {u} : SameFor(v)
    BY <2>1, <2>5 DEF SameFor
  <2>8. Scenes'
    BY <1>0, <2>1, <2>2, <2>5 DEF Scenes
  <2>9. ASSUME NEW F \in [Sessions -> Lists], Leaves(p \o q, F),
               \A s \in Sessions : Entries(F[s], u) <= 1
        PROVE  ListedIn(F, u)'
    <3>1. ASSUME login[u], NEW s \in Sessions, ~NoneOf(p \o q, s)
          PROVE  Entries(F[s], u) = 0
      <4>1. Entries(F[s], u) \in K
        BY <2>6, <2>9, <3>1, LeavesLemma
      <4> QED  BY <2>3, <3>1, <4>1
    <3>2. login[u] =>
            /\ cur[u].open => Entries(F[cur[u].session], u) = 0
            /\ old[u].open => Entries(F[old[u].session], u) = 0
      BY <1>o, <2>4, <2>6, <3>1
    <3>3. \A s \in Sessions : ~Arrived(u, s)'
      BY <2>1, <2>5 DEF Arrived, Present
    <3> QED  BY <2>1, <2>2, <2>5, <2>9, <3>2, <3>3 DEF ListedIn, Entries
  <2>10. Idle
    BY <1>m, <2>1
  <2> QED  BY <2>1, <2>3, <2>6, <2>7, <2>8, <2>9, <2>10, WriteStep
\* What the app has in memory is gone; the writes go on.
<1>r. ASSUME NEW u \in Users, Restart(u) PROVE IsolatedInv'
  <2>1. /\ cur' = [cur EXCEPT ![u] = NoObject] /\ old' = [old EXCEPT ![u] = NoObject]
        /\ active' = [active EXCEPT ![u] = TRUE]
        /\ joining' = [joining EXCEPT ![u] = "no"]
        /\ UNCHANGED <<doc, queue, login, target>>
    BY <1>r DEF Restart
  <2>2. /\ ~cur'[u].open /\ active'[u] /\ joining'[u] = "no"
        /\ \A v \in Users \ {u} :
             /\ cur'[v] = cur[v] /\ old'[v] = old[v]
             /\ active'[v] = active[v] /\ joining'[v] = joining[v]
    BY <1>0, <2>1 DEF TypeOK, NoObject
  <2>3. \A v \in Users \ {u} : SameFor(v)
    BY <2>1, <2>2 DEF SameFor
  <2>4. Scenes'
    BY <1>0, <2>1, <2>2 DEF Scenes
  <2>5. ASSUME NEW F \in [Sessions -> Lists], ListedIn(F, u) PROVE ListedIn(F, u)'
    <3>1. \A s \in Sessions : ~Arrived(u, s)'
      BY <2>2 DEF Arrived, Present
    <3>2. \A s \in Sessions : Entries(F[s], u) <= 1
      BY <2>5 DEF ListedIn
    <3> QED  BY <1>l, <2>2, <3>1, <3>2
  <2> QED  BY <2>1, <2>3, <2>4, <2>5, NoWriteStep
<1>8. ASSUME NEW u \in Users, handleForegroundStatus(u) PROVE IsolatedInv'
  <2>1. CASE ~login[u] /\ (old[u].open \/ cur[u].open)
    BY <1>8, <1>r, <2>1 DEF handleForegroundStatus
  <2>2. CASE ~(~login[u] /\ (old[u].open \/ cur[u].open))
    <3> DEFINE c == IF cur[u].open THEN Readied(u, Entered(u, cur[u])) ELSE cur[u]
               o == IF old[u].open THEN Readied(u, Entered(u, old[u])) ELSE old[u]
               p == Enter(u, old[u])
               q == Enter(u, cur[u])
    <3>1. /\ ~active[u] /\ MayEdit(u)
          /\ active' = [active EXCEPT ![u] = TRUE]
          /\ cur' = [cur EXCEPT ![u] = c] /\ old' = [old EXCEPT ![u] = o]
          /\ queue' = [queue EXCEPT ![u] = queue[u] \o p \o q]
          /\ UNCHANGED <<doc, login, joining, target>>
      BY <1>8, <2>2 DEF handleForegroundStatus
    <3>2. /\ c.open = cur[u].open /\ c.session = cur[u].session
          /\ o.open = old[u].open /\ o.session = old[u].session
      <4>1. ASSUME NEW x \in Objects
            PROVE  /\ Readied(u, Entered(u, x)).open = x.open
                   /\ Readied(u, Entered(u, x)).session = x.session
        <5>1. Entered(u, x) \in Objects /\ Entered(u, x).open = x.open
              /\ Entered(u, x).session = x.session
          BY <1>0, ObjectLemma
        <5> QED  BY <1>0, <5>1, ObjectLemma
      <4> QED  BY <1>o, <4>1
    <3>3. /\ p \in Seq(Lines) /\ Edits(u, p, {1})
          /\ q \in Seq(Lines) /\ Edits(u, q, {1})
          /\ cur[u].open => ~NoneOf(q, cur[u].session)
      <4>1. /\ cur[u].open => cur[u].session \in Sessions /\ Entries(doc[cur[u].session], u) = 0
            /\ old[u].open => old[u].session \in Sessions /\ Entries(doc[old[u].session], u) = 0
        BY <1>d, <1>m, <1>o, <2>2, <3>1
      <4> QED  BY <1>m, <1>o, <3>1, <4>1, EnterEdits
    <3>4. /\ cur'[u] = c /\ old'[u] = o /\ active'[u]
          /\ \A v \in Users \ {u} : cur'[v] = cur[v] /\ old'[v] = old[v]
                                    /\ active'[v] = active[v]
      BY <1>0, <3>1 DEF TypeOK
    <3> HIDE DEF c, o, p, q
    <3>5. /\ p \o q \in Seq(Lines) /\ queue' = [queue EXCEPT ![u] = p \o q]
          /\ Edits(u, p \o q, {1})
          /\ \A s : NoneOf(p \o q, s) => NoneOf(p, s) /\ NoneOf(q, s)
      BY <1>q, <3>1, <3>3
    <3>6. \A v \in Users \ {u} : SameFor(v)
      BY <3>1, <3>4 DEF SameFor
    <3>7. Scenes'
      BY <1>0, <3>1, <3>2, <3>4 DEF Scenes
    <3>8. joining[u] = "no"
      BY <1>0, <3>1 DEF Scenes
    <3>9. ASSUME NEW F \in [Sessions -> Lists], Leaves(p \o q, F),
                 \A s \in Sessions : Entries(F[s], u) <= 1
          PROVE  ListedIn(F, u)'
      <4>1. ASSUME NEW s \in Sessions, Arrived(u, s)' PROVE Entries(F[s], u) > 0
        <5>1. cur[u].open /\ cur[u].session = s
          BY <3>1, <3>2, <3>4, <3>8, <4>1 DEF Arrived, Present
        <5>2. Entries(F[s], u) \in {1}
          BY <3>3, <3>5, <3>9, <5>1, LeavesLemma
        <5> QED  BY <5>2
      <4> QED  BY <1>l, <3>4, <3>9, <4>1
    <3>10. Idle
      BY <1>m, <3>1
    <3> QED  BY <3>1, <3>5, <3>6, <3>7, <3>9, <3>10, WriteStep
  <2> QED  BY <2>1, <2>2
<1>9. ASSUME NEW u \in Users, logOutTapped(u) PROVE IsolatedInv'
  <2> DEFINE o == IF cur[u].open THEN RemoveFrom(u, cur[u]) ELSE old[u]
             q == Leave(u, cur[u])
  <2>1. /\ login[u] /\ active[u] /\ joining[u] = "no" /\ MayEdit(u)
        /\ queue' = [queue EXCEPT ![u] = queue[u] \o q \o q]
        /\ old' = [old EXCEPT ![u] = o] /\ cur' = [cur EXCEPT ![u] = NoObject]
        /\ login' = [login EXCEPT ![u] = FALSE]
        /\ UNCHANGED <<doc, active, joining, target>>
    BY <1>9 DEF logOutTapped
  <2>2. q \in Seq(Lines) /\ Edits(u, q, {0})
    BY <1>m, <1>o, <2>1, LeaveEdits
  <2>3. /\ ~cur'[u].open /\ ~login'[u]
        /\ \A v \in Users \ {u} : cur'[v] = cur[v] /\ old'[v] = old[v] /\ login'[v] = login[v]
    BY <1>0, <2>1 DEF TypeOK, NoObject
  <2> HIDE DEF o, q
  <2>4. /\ q \o q \in Seq(Lines) /\ queue' = [queue EXCEPT ![u] = q \o q]
        /\ Edits(u, q \o q, {0})
    BY <1>q, <2>1, <2>2
  <2>5. \A v \in Users \ {u} : SameFor(v)
    BY <2>1, <2>3 DEF SameFor
  <2>6. Scenes'
    BY <1>0, <2>1, <2>3 DEF Scenes
  <2>7. \A s \in Sessions : ~Arrived(u, s)'
    BY <2>1, <2>3 DEF Arrived, Present
  <2>8. \A F : (\A s \in Sessions : Entries(F[s], u) <= 1) => ListedIn(F, u)'
    BY <1>l, <2>3, <2>7
  <2> QED  BY <1>m, <2>1, <2>4, <2>5, <2>6, <2>8, WriteStep
<1>10. ASSUME NEW u \in Users, LogIn(u) PROVE IsolatedInv'
  <2>1. /\ ~login[u] /\ active[u] /\ login' = [login EXCEPT ![u] = TRUE]
        /\ UNCHANGED <<doc, queue, cur, old, active, joining, target>>
    BY <1>10 DEF LogIn
  <2>2. login'[u] /\ \A v \in Users \ {u} : login'[v] = login[v]
    BY <1>0, <2>1 DEF TypeOK
  <2>3. ~cur[u].open
    BY <1>0, <2>1 DEF Scenes
  <2>4. \A v \in Users \ {u} : SameFor(v)
    BY <2>1, <2>2 DEF SameFor
  <2>5. Scenes'
    BY <1>0, <2>1, <2>2 DEF Scenes
  <2>6. \A s \in Sessions : Arrived(u, s)' => Arrived(u, s)
    BY <2>1, <2>3 DEF Arrived, Present
  <2> QED  BY <1>w, <2>1, <2>4, <2>5, <2>6
\* Steps that leave every client where it is.
<1>s. ASSUME \A v \in Users : SameFor(v), UNCHANGED <<doc, queue>>
      PROVE  IsolatedInv'
  <2>1. PICK F \in [Sessions -> Lists] : Settles(F) /\ \A v \in Users : ListedIn(F, v)
    BY DEF IsolatedInv
  <2>2. Settles(F)' /\ OneWriter'
    BY <1>0, <1>s, <2>1 DEF Settles, OneWriter, NoneOf, LastOf
  <2>3. Scenes'
    BY <1>0, <1>s DEF Scenes, SameFor
  <2>4. \A v \in Users : ListedIn(F, v)'
    BY <1>s, <2>1, SameLemma
  <2> QED  BY <2>1, <2>2, <2>3, <2>4 DEF IsolatedInv
<1>11. ASSUME NEW u \in Users, AssignPlayers(u) PROVE IsolatedInv'
  <2>1. PICK l, m : /\ \/ old' = old /\ cur' = [cur EXCEPT ![u].list = l]
                       \/ cur' = cur /\ old' = [old EXCEPT ![u].list = m]
                    /\ UNCHANGED <<doc, queue, login, active, joining, target>>
    BY <1>11 DEF AssignPlayers
  <2>2. ASSUME NEW f \in [Users -> Objects], NEW k, NEW v \in Users
        PROVE  LET g == [f EXCEPT ![u].list = k] IN
               g[v].open = f[v].open /\ g[v].session = f[v].session
    BY DEF Objects
  <2>3. cur \in [Users -> Objects] /\ old \in [Users -> Objects]
    BY <1>0 DEF TypeOK
  <2>4. \A v \in Users : /\ cur'[v].open = cur[v].open /\ cur'[v].session = cur[v].session
                         /\ old'[v].open = old[v].open /\ old'[v].session = old[v].session
    <3>1. CASE old' = old /\ cur' = [cur EXCEPT ![u].list = l]
      <4>1. \A v \in Users : cur'[v].open = cur[v].open /\ cur'[v].session = cur[v].session
        BY <2>2, <2>3, <3>1
      <4> QED  BY <3>1, <4>1
    <3>2. CASE cur' = cur /\ old' = [old EXCEPT ![u].list = m]
      <4>1. \A v \in Users : old'[v].open = old[v].open /\ old'[v].session = old[v].session
        BY <2>2, <2>3, <3>2
      <4> QED  BY <3>2, <4>1
    <3> QED  BY <2>1, <3>1, <3>2
  <2> QED  BY <1>s, <2>1, <2>4 DEF SameFor
<1>12. ASSUME NEW u \in Users, Commit(u) PROVE IsolatedInv'
  <2>1. PICK F \in [Sessions -> Lists] : Settles(F) /\ \A v \in Users : ListedIn(F, v)
    BY DEF IsolatedInv
  <2>2. OneWriter' /\ Settles(F)'
    BY <1>0, <1>12, <2>1, CommitLemma
  <2>3. UNCHANGED <<cur, old, login, active, joining, target>>
    BY <1>12 DEF Commit
  <2>4. Scenes' /\ \A v \in Users : SameFor(v)
    BY <1>0, <2>3 DEF Scenes, SameFor
  <2>5. \A v \in Users : ListedIn(F, v)'
    BY <2>1, <2>4, SameLemma
  <2> QED  BY <2>1, <2>2, <2>4, <2>5 DEF IsolatedInv
<1>13. ASSUME NEW u \in Users, Crash(u) PROVE IsolatedInv'
  BY <1>13, <1>r DEF Crash
<1>14. CASE UNCHANGED vars
  BY <1>14, <1>s DEF vars, SameFor
<1> QED  BY <1>1, <1>2, <1>3, <1>4, <1>5, <1>6, <1>7, <1>8, <1>9, <1>10, <1>11, <1>12,
            <1>13, <1>14 DEF Next

LEMMA IsolatedInit == Init => IsolatedInv
<1> SUFFICES ASSUME Init, Isolated PROVE IsolatedInv
  BY DEF IsolatedInv
<1>1. \A u \in Users : /\ queue[u] = <<>> /\ active[u] /\ login[u] /\ joining[u] = "no"
                       /\ ~cur[u].open
  BY DEF Init, NoObject
<1>2. OneWriter /\ Scenes
  BY <1>1 DEF OneWriter, Scenes
<1>3. Settles(doc)
  BY <1>1 DEF Settles, NoneOf
<1>4. ASSUME NEW u \in Users PROVE ListedIn(doc, u)
  <2>1. \A s \in Sessions : Entries(doc[s], u) <= 1 /\ ~Arrived(u, s)
    BY <1>1, CreatedLemma DEF Init, Arrived, Present
  <2> QED  BY <1>1, <2>1 DEF ListedIn
<1>5. doc \in [Sessions -> Lists]
  BY InitType DEF TypeInv, TypeOK
<1> QED  BY <1>2, <1>3, <1>4, <1>5 DEF IsolatedInv

\* When nothing is on its way, the documents are what they will be.
LEMMA QuietLemma ==
    ASSUME TypeInv, Isolated, IsolatedInv, Quiet, NEW u \in Users
    PROVE  ListedIn(doc, u)
<1>1. PICK F \in [Sessions -> Lists] : Settles(F) /\ ListedIn(F, u)
  BY DEF IsolatedInv
<1>2. Idle
  BY DEF Quiet, Idle
<1>3. \A s \in Sessions : F[s] = doc[s]
  BY <1>1, <1>2, IdleLemma
<1>4. /\ cur[u].open => cur[u].session \in Sessions
      /\ old[u].open => old[u].session \in Sessions
  BY DEF TypeInv, Links
<1> QED  BY <1>1, <1>3, <1>4 DEF ListedIn

\* If clients edit the list only with its last version in hand and nothing on
\* its way, and no failed join makes a user leave, who is in the Studio of a
\* session with the app in front is on its list, whatever crashes: for any users
\* and sessions of one name.
THEOREM PresentStayListed ==
    Isolated /\ SameNames => (Spec => []PresentAreListed)
<1> SUFFICES ASSUME Isolated, SameNames PROVE Spec => []PresentAreListed
  OBVIOUS
<1>1. TypeInv /\ IsolatedInv /\ [Next]_vars => IsolatedInv'
  BY IsolatedStep
<1>2. TypeInv /\ IsolatedInv => PresentAreListed
  <2> SUFFICES ASSUME TypeInv, IsolatedInv, Quiet, NEW u \in Users, NEW s \in Sessions,
                      Present(u, s)
               PROVE  Entries(doc[s], u) > 0
    BY DEF PresentAreListed
  <2>1. ListedIn(doc, u)
    BY QuietLemma
  <2> QED  BY <2>1 DEF ListedIn, Arrived
<1> QED  BY <1>1, <1>2, IsolatedInit, TypeInvariant, PTL DEF Spec

\* With clients that edit so, the handlers of background and foreground, of all
\* Studios, and the joins add one entry of a user at most and take it off when
\* his app goes to the background, for any users, sessions and names, whatever
\* crashes; and without crashes a list has only users who remember its session.
THEOREM NobodyElseListed ==
    Isolated => (Spec => []OnlyPresentAreListed)
<1> SUFFICES ASSUME Isolated PROVE Spec => []OnlyPresentAreListed
  OBVIOUS
<1>1. TypeInv /\ IsolatedInv /\ [Next]_vars => IsolatedInv'
  BY IsolatedStep
<1>2. TypeInv /\ IsolatedInv /\ (Faults = {} => RememberedInv) => OnlyPresentAreListed
  <2> SUFFICES ASSUME TypeInv, IsolatedInv, Faults = {} => RememberedInv, Quiet,
                      NEW u \in Users, NEW s \in Sessions
               PROVE  /\ Entries(doc[s], u) <= 1
                      /\ cur[u].open /\ cur[u].session = s /\ ~Present(u, s) =>
                           Entries(doc[s], u) = 0
                      /\ Faults = {} /\ s \notin joined[u] => Entries(doc[s], u) = 0
    BY DEF OnlyPresentAreListed
  <2>1. ListedIn(doc, u) /\ Scenes
    BY QuietLemma DEF IsolatedInv
  <2>2. cur[u].open /\ cur[u].session = s /\ ~Present(u, s) => ~active[u] /\ login[u]
    BY <2>1 DEF Scenes, Present, TypeInv, TypeOK
  <2>3. ASSUME Faults = {}, s \notin joined[u] PROVE Entries(doc[s], u) = 0
    <3> DEFINE A == [v \in Users |-> Remembered(v)]
    <3>1. MentionsIn(A, doc[s], s) /\ A[u] = Remembered(u)
      BY <2>3 DEF RememberedInv, ListsWithin
    <3>2. joining[u] = "no"
      BY DEF Quiet
    <3> HIDE DEF A
    <3>3. ~(Entries(doc[s], u) > 0)
      BY <2>3, <3>1, <3>2 DEF MentionsIn, Remembered
    <3>4. Entries(doc[s], u) \in Nat
      BY EditLemma, TRUE \in BOOLEAN DEF TypeInv, TypeOK
    <3> QED  BY <3>3, <3>4
  <2> QED  BY <2>1, <2>2, <2>3 DEF ListedIn
<1> QED  BY <1>1, <1>2, IsolatedInit, TypeInvariant, RememberedInvariant, PTL DEF Spec
=============================================================================
