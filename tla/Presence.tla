------------------------------ MODULE Presence ------------------------------
(***************************************************************************)
(* Who is in a session: the field currentPlayerList of a session document, *)
(* which every client changes by copying the list it has cached, editing   *)
(* the copy and writing the WHOLE list back (Session.m, and the join       *)
(* handlers of JoinSessionDetailVC and ViewPastSessionsVC).                *)
(*                                                                         *)
(* A client has one current Session object (ApplicationState) and, once a  *)
(* join completed, a Studio (RecordingSessionVC) with a snapshot listener  *)
(* and observers of the scene's activation.  Neither is ever removed: the  *)
(* Studio of the session a client was in before goes on listening and      *)
(* observing with its own Session object.  One such earlier Studio is      *)
(* modelled, and one join at a time: a user waits for it before tapping    *)
(* Join or Log out again, as the spinner on the screen suggests.           *)
(*                                                                         *)
(* Sessions exist from the beginning, as createNewSession leaves them when *)
(* all its requests are answered: it lists the creator, with status NO,    *)
(* and remembers the session for him, but does not take him into it.  He   *)
(* joins like anyone else.                                                 *)
(*                                                                         *)
(* A list is abstracted to how many entries of each status a user has in   *)
(* it: the order of entries only lays out the table.  Firestore (external) *)
(* commits a client's writes in order, and a listener sees the committed   *)
(* list under the client's own writes that are still pending.              *)
(*                                                                         *)
(* A definition named Wrong_... is a mistake one could make in the code of *)
(* the definition after it; the specification does not use it.             *)
(***************************************************************************)
EXTENDS Naturals, Sequences

CONSTANTS
    Users, Sessions,
    None,       \* no session
    Name,       \* Name[s]: the sessionName of s, which need not be unique
    Host,       \* Host[s]: the user who created s
    Faults,     \* what may go wrong: "crash" or nothing
    Isolated,   \* assume that clients change a list only when they have its
                \* last version and nobody's write is pending, and that a
                \* scene does not deactivate in the middle of a join
    MaxOps      \* bound: what each user does, taps and scene changes

ASSUME NoneAssumption == None \notin Sessions
ASSUME NameAssumption == DOMAIN Name = Sessions
ASSUME HostAssumption == Host \in [Sessions -> Users]
ASSUME FaultsAssumption == Faults \subseteq {"crash"}
ASSUME IsolatedAssumption == Isolated \in BOOLEAN
ASSUME OpsAssumption == MaxOps \in Nat

VARIABLES
    doc,        \* currentPlayerList of each session document
    queue,      \* each client's writes the server has not committed
    cur,        \* ApplicationState.currentSession and, if open, its Studio
    old,        \* the Studio of the session before, still alive
    login,      \* whether NSUserDefaults has the user's uid
    active,     \* whether the app's scene is active
    joining,    \* "no", or the phase of a join: "fetch", "write", "remember"
    target,     \* the session being joined
    pending,    \* writes to commit before the join's own is acknowledged
    joined,     \* joinedSessions of the user document
    tapped,     \* history: the sessions the user ever tapped Join for
    ops         \* what each user has done

vars == <<doc, queue, cur, old, login, active, joining, target, pending, joined, tapped, ops>>

Absent == [standby |-> 0, ready |-> 0]
Lists == [Users -> [standby : Nat, ready : Nat]]
Objects == [session : Sessions \union {None}, list : Lists, switch : BOOLEAN,
            open : BOOLEAN]

NoList == [u \in Users |-> Absent]
NoObject == [session |-> None, list |-> NoList, switch |-> FALSE, open |-> FALSE]

\* The list that createNewSession puts into the new document.
Created(s) == [NoList EXCEPT ![Host[s]].standby = 1]

Init ==
    /\ doc = [s \in Sessions |-> Created(s)]
    /\ queue = [u \in Users |-> <<>>]
    /\ cur = [u \in Users |-> NoObject]
    /\ old = [u \in Users |-> NoObject]
    /\ login = [u \in Users |-> TRUE]
    /\ active = [u \in Users |-> TRUE]
    /\ joining = [u \in Users |-> "no"]
    /\ target = [u \in Users |-> None]
    /\ pending = [u \in Users |-> 0]
    /\ joined = [u \in Users |-> {s \in Sessions : Host[s] = u}]
    /\ tapped = [u \in Users |-> {}]
    /\ ops = [u \in Users |-> 0]

-----------------------------------------------------------------------------
(* The edits of a list, and what a client sees of one.                     *)

Entries(list, u) == list[u].standby + list[u].ready

Wrong_Without(list, u) == [list EXCEPT ![u].standby = 0]

\* removeObject: takes out every entry equal to one with the user's uid.
Without(list, u) == [list EXCEPT ![u] = Absent]

\* Appends an entry, without looking for one.
With(list, u) == [list EXCEPT ![u].standby = @ + 1]

\* Every entry of the user gets the status.
WithStatus(list, u, ready) ==
    LET n == Entries(list, u) IN
    [list EXCEPT ![u] = IF ready THEN [standby |-> 0, ready |-> n]
                                 ELSE [standby |-> n, ready |-> 0]]

Write(o) == [session |-> o.session, list |-> o.list]

\* The client's last pending write of the session's list, else the document.
View(u, s) ==
    LET mine == {i \in 1 .. Len(queue[u]) : queue[u][i].session = s} IN
    IF mine = {} THEN doc[s]
    ELSE queue[u][CHOOSE i \in mine : \A j \in mine : j <= i].list

Fresh(u, o) == o.session # None => o.list = doc[o.session]

\* The assumption of isolation, for what user u is about to do.
MayEdit(u) ==
    Isolated =>
      /\ \A v \in Users : queue[v] = <<>>
      /\ Fresh(u, cur[u]) /\ Fresh(u, old[u])

Act(u) ==
    /\ ops[u] < MaxOps
    /\ ops' = [ops EXCEPT ![u] = @ + 1]

-----------------------------------------------------------------------------
(* Session.m, on a Session object; a message to nil does nothing.          *)

\* The user's uid may be gone: then nobody is found to be removed.
RemoveFrom(u, o) ==
    IF login[u] THEN [o EXCEPT !.list = Without(@, u)] ELSE o

Wrong_Leave(u, o) == <<Write(RemoveFrom(u, o))>>

\* updateCurrentPlayerListWithActivity: NO
Leave(u, o) == IF o.session = None THEN <<>> ELSE <<Write(RemoveFrom(u, o))>>

\* updateCurrentPlayerListWithActivity: YES, then updateSessionActivityStatus
\* with the position of the Studio's switch.
Entered(u, o) == [o EXCEPT !.list = With(@, u)]
Readied(u, o) == [o EXCEPT !.list = WithStatus(@, u, o.switch)]
Enter(u, o) ==
    IF o.open THEN <<Write(Entered(u, o)), Write(Readied(u, Entered(u, o)))>>
    ELSE <<>>

-----------------------------------------------------------------------------
(* Joining.                                                                *)

Wrong_OtherSession(u, s) == TRUE

\* "if joining a different session": by name.
OtherSession(u, s) == cur[u].session # None /\ Name[cur[u].session] # Name[s]

\* joinSession and joinPastSession, up to the first query: the session the
\* user is in is left before the other one is known to exist.
TapJoin(u, s) ==
    /\ Act(u)
    /\ login[u] /\ active[u] /\ joining[u] = "no"
    /\ MayEdit(u)
    /\ \/ /\ OtherSession(u, s)
          /\ cur' = [cur EXCEPT ![u] = RemoveFrom(u, @)]
          /\ queue' = [queue EXCEPT ![u] = @ \o Leave(u, cur[u])]
       \/ ~OtherSession(u, s) /\ UNCHANGED <<cur, queue>>
    /\ joining' = [joining EXCEPT ![u] = "fetch"]
    /\ target' = [target EXCEPT ![u] = s]
    /\ tapped' = [tapped EXCEPT ![u] = @ \union {s}]
    /\ UNCHANGED <<doc, old, login, active, pending, joined>>

\* No such host or session, or a query failed: an alert, nothing is undone.
JoinFails(u) ==
    /\ joining[u] = "fetch"
    /\ joining' = [joining EXCEPT ![u] = "no"]
    /\ UNCHANGED <<doc, queue, cur, old, login, active, target, pending, joined, tapped, ops>>

Wrong_Fetched(u, s) == IF cur[u].session = None THEN View(u, s) ELSE cur[u].list

\* The list in the document that the query brings.
Fetched(u, s) == View(u, s)

\* What the loop over it finds.
Listed(u, s) == Entries(Fetched(u, s), u) > 0

\* The query's answer: the list it brings, with the user appended if absent,
\* is that of a new Session object, and is written if the user was absent.
JoinFetched(u) ==
    LET s == target[u]
        o == [session |-> s, open |-> FALSE, switch |-> FALSE,
              list |-> IF Listed(u, s) THEN Fetched(u, s) ELSE With(Fetched(u, s), u)]
    IN
    /\ joining[u] = "fetch"
    /\ Isolated => \A v \in Users : queue[v] = <<>>
    /\ old' = [old EXCEPT ![u] = IF cur[u].open THEN cur[u] ELSE @]
    /\ \/ /\ Listed(u, s)
          /\ cur' = [cur EXCEPT ![u] = [o EXCEPT !.open = TRUE]]
          /\ joining' = [joining EXCEPT ![u] = "no"]
          /\ UNCHANGED <<queue, pending>>
       \/ /\ ~Listed(u, s)
          /\ cur' = [cur EXCEPT ![u] = o]
          /\ queue' = [queue EXCEPT ![u] = Append(@, Write(o))]
          /\ pending' = [pending EXCEPT ![u] = Len(queue[u]) + 1]
          /\ joining' = [joining EXCEPT ![u] = "write"]
    /\ UNCHANGED <<doc, login, active, target, joined, tapped, ops>>

OpenStudio(u) ==
    /\ cur' = [cur EXCEPT ![u].open = TRUE]
    /\ joining' = [joining EXCEPT ![u] = "no"]

Wrong_JoinWritten(u) ==
    /\ joining[u] = "write" /\ pending[u] = 0
    /\ target[u] \notin joined[u]
    /\ joining' = [joining EXCEPT ![u] = "remember"]
    /\ UNCHANGED <<doc, queue, cur, old, login, active, target, pending, joined, tapped, ops>>

\* The write of the list is acknowledged: the Studio opens at once in a session
\* among the user's joinedSessions, else that is written first.
JoinWritten(u) ==
    /\ joining[u] = "write" /\ pending[u] = 0
    /\ \/ target[u] \in joined[u] /\ OpenStudio(u)
       \/ /\ target[u] \notin joined[u]
          /\ joining' = [joining EXCEPT ![u] = "remember"]
          /\ UNCHANGED cur
    /\ UNCHANGED <<doc, queue, old, login, active, target, pending, joined, tapped, ops>>

Wrong_JoinDone(u) ==
    /\ joining[u] = "remember"
    /\ OpenStudio(u)
    /\ UNCHANGED <<doc, queue, old, login, active, target, pending, joined, tapped, ops>>

\* The write of joinedSessions is acknowledged.
JoinDone(u) ==
    /\ joining[u] = "remember"
    /\ joined' = [joined EXCEPT ![u] = @ \union {target[u]}]
    /\ OpenStudio(u)
    /\ UNCHANGED <<doc, queue, old, login, active, target, pending, ops, tapped>>

-----------------------------------------------------------------------------
(* In the Studio.                                                          *)

\* updateUsersStatus, from the switch.
updateUsersStatus(u) ==
    LET o == [cur[u] EXCEPT !.switch = ~@] IN
    /\ Act(u)
    /\ login[u] /\ active[u] /\ joining[u] = "no" /\ cur[u].open
    /\ MayEdit(u)
    /\ cur' = [cur EXCEPT ![u] = Readied(u, o)]
    /\ queue' = [queue EXCEPT ![u] = Append(@, Write(Readied(u, o)))]
    /\ UNCHANGED <<doc, old, login, active, joining, target, pending, joined, tapped>>

\* The scene deactivates: every Studio that was opened writes.
handleBackgroundStatus(u) ==
    /\ Act(u)
    /\ active[u]
    /\ MayEdit(u)
    /\ Isolated => joining[u] = "no"
    /\ active' = [active EXCEPT ![u] = FALSE]
    /\ old' = [old EXCEPT ![u] = IF @.open THEN RemoveFrom(u, @) ELSE @]
    /\ cur' = [cur EXCEPT ![u] = IF @.open THEN RemoveFrom(u, @) ELSE @]
    /\ queue' = [queue EXCEPT ![u] =
                   @ \o (IF old[u].open THEN Leave(u, old[u]) ELSE <<>>)
                     \o (IF cur[u].open THEN Leave(u, cur[u]) ELSE <<>>)]
    /\ UNCHANGED <<doc, login, joining, target, pending, joined, tapped>>

\* What the app holds in memory is gone.
Restart(u) ==
    /\ cur' = [cur EXCEPT ![u] = NoObject]
    /\ old' = [old EXCEPT ![u] = NoObject]
    /\ active' = [active EXCEPT ![u] = TRUE]
    /\ joining' = [joining EXCEPT ![u] = "no"]
    /\ pending' = [pending EXCEPT ![u] = 0]
    /\ UNCHANGED <<doc, queue, login, target, joined, tapped>>

\* The scene activates.  Without a uid the first Studio's handler puts nil
\* into a dictionary, which ends the app.
handleForegroundStatus(u) ==
    /\ Act(u)
    /\ ~active[u]
    /\ MayEdit(u)
    /\ IF ~login[u] /\ (old[u].open \/ cur[u].open) THEN Restart(u)
       ELSE /\ active' = [active EXCEPT ![u] = TRUE]
            /\ old' = [old EXCEPT ![u] = IF @.open THEN Readied(u, Entered(u, @)) ELSE @]
            /\ cur' = [cur EXCEPT ![u] = IF @.open THEN Readied(u, Entered(u, @)) ELSE @]
            /\ queue' = [queue EXCEPT ![u] = @ \o Enter(u, old[u]) \o Enter(u, cur[u])]
            /\ UNCHANGED <<doc, login, joining, target, pending, joined, tapped>>

\* logOutTapped: the current session is left through HomeSessionVC's copy of
\* the object and again by ApplicationState; its Studio lives on.
logOutTapped(u) ==
    /\ Act(u)
    /\ login[u] /\ active[u] /\ joining[u] = "no"
    /\ MayEdit(u)
    /\ queue' = [queue EXCEPT ![u] = @ \o Leave(u, cur[u]) \o Leave(u, cur[u])]
    /\ old' = [old EXCEPT ![u] = IF cur[u].open THEN RemoveFrom(u, cur[u]) ELSE @]
    /\ cur' = [cur EXCEPT ![u] = NoObject]
    /\ login' = [login EXCEPT ![u] = FALSE]
    /\ UNCHANGED <<doc, active, joining, target, pending, joined, tapped>>

LogIn(u) ==
    /\ Act(u)
    /\ ~login[u] /\ active[u]
    /\ login' = [login EXCEPT ![u] = TRUE]
    /\ UNCHANGED <<doc, queue, cur, old, active, joining, target, pending, joined, tapped>>

Wrong_AssignPlayers(u) ==
    /\ old[u].open /\ old[u].list # View(u, old[u].session)
    /\ old' = [old EXCEPT ![u].list = View(u, old[u].session)]
    /\ UNCHANGED <<doc, queue, cur, login, active, joining, target, pending, joined, tapped, ops>>

\* A Studio's listener: step 2 of its block.
AssignPlayers(u) ==
    /\ \/ /\ cur[u].open /\ cur[u].list # View(u, cur[u].session)
          /\ cur' = [cur EXCEPT ![u].list = View(u, cur[u].session)]
          /\ UNCHANGED old
       \/ /\ old[u].open /\ old[u].list # View(u, old[u].session)
          /\ old' = [old EXCEPT ![u].list = View(u, old[u].session)]
          /\ UNCHANGED cur
    /\ UNCHANGED <<doc, queue, login, active, joining, target, pending, joined, tapped, ops>>

-----------------------------------------------------------------------------
(* The server, and faults.                                                 *)

Commit(u) ==
    /\ queue[u] # <<>>
    /\ LET w == Head(queue[u]) IN doc' = [doc EXCEPT ![w.session] = w.list]
    /\ queue' = [queue EXCEPT ![u] = Tail(@)]
    /\ pending' = [pending EXCEPT ![u] = IF @ = 0 THEN 0 ELSE @ - 1]
    /\ UNCHANGED <<cur, old, login, active, joining, target, joined, tapped, ops>>

Crash(u) ==
    /\ "crash" \in Faults
    /\ Act(u)
    /\ Restart(u)

Next ==
    \E u \in Users :
      \/ \E s \in Sessions : TapJoin(u, s)
      \/ JoinFails(u) \/ JoinFetched(u)
      \/ JoinWritten(u) \/ JoinDone(u)
      \/ updateUsersStatus(u) \/ handleBackgroundStatus(u)
      \/ handleForegroundStatus(u) \/ logOutTapped(u) \/ LogIn(u)
      \/ AssignPlayers(u) \/ Commit(u) \/ Crash(u)

Spec == Init /\ [][Next]_vars

\* While the app's scene is active Firestore sends what it has queued and
\* brings snapshots, and a query is answered; users owe nothing.
FairSpec ==
    /\ Spec
    /\ \A u \in Users :
         /\ WF_vars(active[u] /\ Commit(u))
         /\ WF_vars(active[u] /\ AssignPlayers(u))
         /\ WF_vars(active[u] /\ (JoinFails(u) \/ JoinFetched(u)))
         /\ WF_vars(active[u] /\ (JoinWritten(u) \/ JoinDone(u)))

-----------------------------------------------------------------------------

\* Type correctness.
TypeOK ==
    /\ doc \in [Sessions -> Lists]
    /\ queue \in [Users -> Seq([session : Sessions, list : Lists])]
    /\ cur \in [Users -> Objects]
    /\ old \in [Users -> Objects]
    /\ login \in [Users -> BOOLEAN]
    /\ active \in [Users -> BOOLEAN]
    /\ joining \in [Users -> {"no", "fetch", "write", "remember"}]
    /\ target \in [Users -> Sessions \union {None}]
    /\ pending \in [Users -> Nat]
    /\ joined \in [Users -> SUBSET Sessions]
    /\ tapped \in [Users -> SUBSET Sessions]
    /\ ops \in [Users -> 0 .. MaxOps]

\* Nothing is on its way and every open Studio shows its document.
Quiet ==
    \A u \in Users :
      /\ queue[u] = <<>>
      /\ joining[u] = "no"
      /\ cur[u].open => Fresh(u, cur[u])
      /\ old[u].open => Fresh(u, old[u])

\* Present: in the Studio of s with the app in the foreground.
Present(u, s) == login[u] /\ active[u] /\ cur[u].open /\ cur[u].session = s

\* Who may have an entry in a list, in whatever copy of it: the creator of the
\* session, whom createNewSession lists, and who tapped Join for it.
Mentions(list, s) ==
    \A u \in Users :
      Entries(list, u) > 0 => u = Host[s] \/ s \in tapped[u]

\* No list, in a document, on its way or cached, has an entry of a user who
\* neither created that session nor ever tapped Join for it: stale copies
\* written back, handlers of earlier Studios and crashes bring back players who
\* left, never strangers, and never take one session's players to another.
OnlyJoinedAreListed ==
    /\ \A s \in Sessions : Mentions(doc[s], s)
    /\ \A u \in Users :
         /\ \A i \in 1 .. Len(queue[u]) : Mentions(queue[u][i].list, queue[u][i].session)
         /\ cur[u].session # None => Mentions(cur[u].list, cur[u].session)
         /\ old[u].session # None => Mentions(old[u].list, old[u].session)

\* Without crashes, a user in the Studio of a session finds it among the
\* past sessions: a join writes joinedSessions only on the path that found the
\* user absent from the list, so who is on it, as the creator is from the
\* beginning (CreateSessionDetailVC.m 90), must have been remembered before.
StudioIsRemembered ==
    Faults = {} =>
      \A u \in Users : cur[u].open => cur[u].session \in joined[u]

\* "Return username of all active users from local array that is updated from
\* Firebase whenever there is a change of status" (RecordingSessionVC.m 555):
\* when nothing is on its way, a user present in a session is in its list.
PresentAreListed ==
    Quiet =>
      \A u \in Users, s \in Sessions :
        Present(u, s) => Entries(doc[s], u) > 0

\* When nothing is on its way, the list of a session has one entry of a user
\* at most, and none of one who is in it but whose app is in the background;
\* without crashes, it has none of one who does not remember the session.  It
\* is no list of those present: the creator is on it before he ever joins, and
\* of sessions a user was in before nothing is said: their Studios go on adding
\* him, and may end, once he has logged out, with him on the list.
OnlyPresentAreListed ==
    Quiet =>
      \A u \in Users, s \in Sessions :
        /\ Entries(doc[s], u) <= 1
        /\ cur[u].open /\ cur[u].session = s /\ ~Present(u, s) =>
             Entries(doc[s], u) = 0
        /\ Faults = {} /\ s \notin joined[u] => Entries(doc[s], u) = 0

\* A tap on Join ends: the spinner is stopped, if the app stays in front.
JoinEnds ==
    \A u \in Users : joining[u] # "no" ~> (joining[u] = "no" \/ ~active[u])

\* In the end, with nobody doing anything any more, every user in the
\* foreground is shown what the document says (under the own writes).
ShownListsConverge ==
    <>[](\A u \in Users : active[u] /\ cur[u].open =>
           cur[u].list = View(u, cur[u].session))
=============================================================================
