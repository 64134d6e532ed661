------------------------------ MODULE Accounts ------------------------------
(***************************************************************************)
(* The account of one user and his sessions: those he hosts, and           *)
(* joinedSessions, the list of past sessions in his document, of which     *)
(* every device that he is logged in on keeps a copy in NSUserDefaults.    *)
(*                                                                         *)
(* Signing up makes an account, which Firebase refuses to make twice for   *)
(* one email, and then adds the user's document.  Nothing hears of that    *)
(* write, and nothing makes up for it if the app dies before it or if the  *)
(* answer to the request for the account is lost: logging in takes the     *)
(* first of the documents found, and raises if there is none.              *)
(*                                                                         *)
(* Creating a session is a chain of requests: a query for one of the same  *)
(* name, the new document, and joinedSessions, which is written whole from *)
(* NSUserDefaults.  Joining adds to the list with an array union.  Only    *)
(* logging in reads the list.                                              *)
(*                                                                         *)
(* Firestore keeps the writes that a device has queued when its app dies,  *)
(* and shows a device the documents under its own writes; what died is the *)
(* block that was to hear of a write.                                      *)
(*                                                                         *)
(* Abstracted: passwords, the requests of a join that are about players    *)
(* (those are in Presence), spinners and alerts, a write that the server   *)
(* refuses.  A device has one chain under way at a time.  Sessions are     *)
(* numbered in the order they get their uid.                               *)
(*                                                                         *)
(* A definition named Wrong_... is a mistake one could make in the code of *)
(* the definition after it; the specification does not use it.             *)
(***************************************************************************)
EXTENDS Naturals, Sequences, FiniteSets, SequencesExt

CONSTANTS
    Devices,
    Names,
    NumOthers,  \* sessions 1 .. NumOthers have another host
    Faults,     \* a subset of {"crash", "loss"}: apps die, answers are lost
    Habits,     \* assumptions on the user, a subset of AllHabits
    MaxSessions, MaxMishaps     \* bounds

(***************************************************************************)
(* "patient": the user does not log out while something is under way;      *)
(* "turns":   he uses a device only when the others have nothing to write; *)
(* "fresh":   he creates a session on a device that has the newest list,   *)
(*            after logging in there again if need be.                     *)
(***************************************************************************)
AllHabits == {"patient", "turns", "fresh"}

ASSUME FaultsAssumption == Faults \subseteq {"crash", "loss"}
ASSUME HabitsAssumption == Habits \subseteq AllHabits
ASSUME BoundsAssumption ==
    /\ NumOthers \in Nat /\ MaxSessions \in Nat \ {0} /\ MaxMishaps \in Nat
    /\ NumOthers <= MaxSessions

VARIABLES
    account,        \* whether Firebase has the account
    userDocuments,  \* how many documents of the user the server has
    count,          \* how many sessions have a uid
    name,           \* name[s] of those the user hosts
    documents,      \* hosted sessions with a document on the server
    joinedSessions, \* of the user's document
    login,          \* login[d]: NSUserDefaults has a uid
    defaults,       \* defaults[d]: joinedSessions of NSUserDefaults
    step,           \* step[d]: the answer that the chain of d waits for
    draft,          \* draft[d]: the name of the session that d creates
    queue,          \* queue[d]: the writes that d has not sent
    mishaps         \* how many apps died and answers were lost

userVars == <<account, userDocuments>>
docVars == <<documents, joinedSessions>>
vars == <<userVars, count, name, docVars, login, defaults, step, draft, queue, mishaps>>

Sessions == 1 .. MaxSessions

\* heard: whether a block waits for the acknowledgement.
Writes ==
    [kind : {"user", "add", "list", "union"}, session : Sessions, list : SUBSET Sessions,
     heard : BOOLEAN]

Written(kind, s, list) == [kind |-> kind, session |-> s, list |-> list, heard |-> TRUE]

Init ==
    /\ account = FALSE
    /\ userDocuments = 0
    /\ count = NumOthers
    /\ name \in [Sessions -> Names] /\ \A s, t \in Sessions : name[s] = name[t]
    /\ documents = {}
    /\ joinedSessions = {}
    /\ login = [d \in Devices |-> FALSE]
    /\ defaults = [d \in Devices |-> {}]
    /\ step = [d \in Devices |-> "no"]
    /\ draft \in [Devices -> Names] /\ \A d, e \in Devices : draft[d] = draft[e]
    /\ queue = [d \in Devices |-> <<>>]
    /\ mishaps = 0

\* joinedSessions as d sees it, under its own writes: a "list" takes the place of
\* the document's and of what was written before it.
Seen(d) ==
    LET writes == queue[d]
        IsLost(i) == \E j \in DOMAIN writes : j > i /\ writes[j].kind = "list"
    IN {s \in Sessions :
          \/ s \in joinedSessions /\ ~IsLost(0)
          \/ \E i \in DOMAIN writes :
               /\ writes[i].kind \in {"list", "union"}
               /\ s \in writes[i].list
               /\ ~IsLost(i)}

\* The user starts something on d.
MayStart(d) ==
    /\ login[d]
    /\ step[d] = "no"
    /\ "turns" \in Habits =>
         \A e \in Devices \ {d} : step[e] = "no" /\ queue[e] = <<>>

-----------------------------------------------------------------------------
(* Signing up.                                                             *)

SigningUp(d) == step[d] \in {"account", "made"}

createAccount(d) ==
    /\ ~login[d]
    /\ step[d] = "no"
    /\ step' = [step EXCEPT ![d] = "account"]
    /\ UNCHANGED <<userVars, count, name, docVars, login, defaults, draft, queue, mishaps>>

\* Firebase makes the account; its answer is on the way.
AccountMade(d) ==
    /\ step[d] = "account"
    /\ ~account
    /\ account' = TRUE
    /\ step' = [step EXCEPT ![d] = "made"]
    /\ UNCHANGED <<userDocuments, count, name, docVars, login, defaults, draft, queue, mishaps>>

addUser(d) ==
    queue' = [queue EXCEPT ![d] =
                Append(@, [kind |-> "user", session |-> 1, list |-> {}, heard |-> FALSE])]

Wrong_AccountRefused(d) ==
    /\ step[d] = "account"
    /\ addUser(d)
    /\ step' = [step EXCEPT ![d] = "no"]
    /\ UNCHANGED <<userVars, count, name, docVars, login, defaults, draft, mishaps>>

\* The email has an account, or is none; or the password is too weak; or the
\* request did not reach Firebase.
AccountRefused(d) ==
    /\ step[d] = "account"
    /\ step' = [step EXCEPT ![d] = "no"]
    /\ UNCHANGED <<userVars, count, name, docVars, login, defaults, draft, queue, mishaps>>

\* The block that hears of the account adds the user's document.
AccountHeard(d) ==
    /\ step[d] = "made"
    /\ addUser(d)
    /\ step' = [step EXCEPT ![d] = "no"]
    /\ UNCHANGED <<userVars, count, name, docVars, login, defaults, draft, mishaps>>

\* The account was made, but the answer is lost on the way: the app hears of an
\* error, as above, and adds no document.
AccountLost(d) ==
    /\ "loss" \in Faults
    /\ step[d] = "made"
    /\ mishaps < MaxMishaps
    /\ mishaps' = mishaps + 1
    /\ step' = [step EXCEPT ![d] = "no"]
    /\ UNCHANGED <<userVars, count, name, docVars, login, defaults, draft, queue>>

AddsUser(d) == \E w \in ToSet(queue[d]) : w.kind = "user"

-----------------------------------------------------------------------------
(* Creating a session.                                                     *)

createNewSession(d, n) ==
    /\ MayStart(d)
    /\ "fresh" \in Habits => defaults[d] = Seen(d)
    /\ count < MaxSessions
    /\ step' = [step EXCEPT ![d] = "check"]
    /\ draft' = [draft EXCEPT ![d] = n]
    /\ UNCHANGED <<userVars, count, name, docVars, login, defaults, queue, mishaps>>

Wrong_Hosted(d) == documents \intersect defaults[d]

\* The user's sessions that a query of d finds.
Hosted(d) ==
    documents \union {w.session : w \in {v \in ToSet(queue[d]) : v.kind = "add"}}

\* The query failed, or found a session of that name.
CreateFails(d) ==
    /\ step[d] = "check"
    /\ step' = [step EXCEPT ![d] = "no"]
    /\ UNCHANGED <<userVars, count, name, docVars, login, defaults, draft, queue, mishaps>>

\* The query found none: saveSessionToDatabase.
saveSession(d) ==
    /\ step[d] = "check"
    /\ \A s \in Hosted(d) : name[s] # draft[d]
    /\ count < MaxSessions
    /\ count' = count + 1
    /\ name' = [name EXCEPT ![count'] = draft[d]]
    /\ queue' = [queue EXCEPT ![d] = Append(@, Written("add", count', {}))]
    /\ step' = [step EXCEPT ![d] = "save"]
    /\ UNCHANGED <<userVars, docVars, login, defaults, draft, mishaps>>

Wrong_Remembered(d, s) == {s}

\* What the block of saveSessionToDatabase writes.
Remembered(d, s) == defaults[d] \union {s}

-----------------------------------------------------------------------------
(* Joining, logging in and out.                                            *)

\* The user is in the session; it is remembered if the device does not know it.
joinSession(d, s) ==
    /\ MayStart(d)
    /\ s \in (1 .. NumOthers) \union Hosted(d)
    /\ s \notin defaults[d]
    /\ queue' = [queue EXCEPT ![d] = Append(@, Written("union", s, {s}))]
    /\ step' = [step EXCEPT ![d] = "remember"]
    /\ UNCHANGED <<userVars, count, name, docVars, login, defaults, draft, mishaps>>

\* With no document of the user, documents[0] raises and ends the app.
LogIn(d) ==
    /\ ~login[d]
    /\ ~SigningUp(d)
    /\ userDocuments > 0 \/ AddsUser(d)
    /\ login' = [login EXCEPT ![d] = TRUE]
    /\ defaults' = [defaults EXCEPT ![d] = Seen(d)]
    /\ UNCHANGED <<userVars, count, name, docVars, step, draft, queue, mishaps>>

Wrong_logOut(d) ==
    /\ login[d]
    /\ "patient" \in Habits => step[d] = "no"
    /\ login' = [login EXCEPT ![d] = FALSE]
    /\ UNCHANGED <<userVars, count, name, docVars, defaults, step, draft, queue, mishaps>>

logOut(d) ==
    /\ login[d]
    /\ "patient" \in Habits => step[d] = "no"
    /\ login' = [login EXCEPT ![d] = FALSE]
    /\ defaults' = [defaults EXCEPT ![d] = {}]
    /\ UNCHANGED <<userVars, count, name, docVars, step, draft, queue, mishaps>>

-----------------------------------------------------------------------------
(* Firestore and the system.                                               *)

\* The block that waits for w runs.  The one of a join adds to the array of
\* NSUserDefaults through a proxy, removes the key and stores the proxy: what
\* that still has is the new array or nothing (the framework may also raise,
\* which ends the app: a start anew without the key).
Hear(d, w) ==
    CASE ~w.heard ->
           /\ queue' = [queue EXCEPT ![d] = Tail(@)]
           /\ UNCHANGED <<defaults, step>>
      [] w.heard /\ w.kind = "add" ->
           /\ queue' = [queue EXCEPT ![d] =
                          Append(Tail(@), Written("list", w.session, Remembered(d, w.session)))]
           /\ step' = [step EXCEPT ![d] = "remember"]
           /\ UNCHANGED defaults
      [] w.heard /\ w.kind = "list" ->
           /\ queue' = [queue EXCEPT ![d] = Tail(@)]
           /\ defaults' = [defaults EXCEPT ![d] = w.list]
           /\ step' = [step EXCEPT ![d] = "no"]
      [] w.heard /\ w.kind = "union" ->
           /\ queue' = [queue EXCEPT ![d] = Tail(@)]
           /\ \E left \in {defaults[d] \union w.list, {}} :
                defaults' = [defaults EXCEPT ![d] = left]
           /\ step' = [step EXCEPT ![d] = "no"]

\* The server commits the first write of d and acknowledges it.
Commit(d) ==
    /\ queue[d] # <<>>
    /\ LET w == Head(queue[d]) IN
       /\ userDocuments' = userDocuments + (IF w.kind = "user" THEN 1 ELSE 0)
       /\ documents' = IF w.kind = "add" THEN documents \union {w.session} ELSE documents
       /\ joinedSessions' =
            CASE w.kind \in {"user", "add"} -> joinedSessions
              [] w.kind = "list" -> w.list
              [] w.kind = "union" -> joinedSessions \union w.list
       /\ Hear(d, w)
    /\ UNCHANGED <<account, count, name, login, draft, mishaps>>

\* The app dies and is started again, which reads no list: viewWillAppear
\* finds the uid in NSUserDefaults and goes on as if logged in.
Crash(d) ==
    /\ "crash" \in Faults
    /\ mishaps < MaxMishaps
    /\ mishaps' = mishaps + 1
    /\ step' = [step EXCEPT ![d] = "no"]
    /\ queue' = [queue EXCEPT ![d] =
                   [i \in DOMAIN @ |-> [@[i] EXCEPT !.heard = FALSE]]]
    /\ UNCHANGED <<userVars, count, name, docVars, login, defaults, draft>>

Next ==
    \E d \in Devices :
      \/ createAccount(d) \/ AccountMade(d) \/ AccountRefused(d)
      \/ AccountHeard(d) \/ AccountLost(d)
      \/ \E n \in Names : createNewSession(d, n)
      \/ CreateFails(d) \/ saveSession(d)
      \/ \E s \in Sessions : joinSession(d, s)
      \/ LogIn(d) \/ logOut(d)
      \/ Commit(d) \/ Crash(d)

Spec == Init /\ [][Next]_vars

-----------------------------------------------------------------------------

\* Type correctness; a device that is logged out remembers no sessions.
TypeOK ==
    /\ account \in BOOLEAN
    /\ userDocuments \in Nat
    /\ count \in NumOthers .. MaxSessions
    /\ name \in [Sessions -> Names]
    /\ documents \subseteq Sessions
    /\ joinedSessions \subseteq Sessions
    /\ login \in [Devices -> BOOLEAN]
    /\ defaults \in [Devices -> SUBSET Sessions]
    /\ \A d \in Devices : "patient" \in Habits /\ ~login[d] => defaults[d] = {}
    /\ step \in [Devices -> {"no", "account", "made", "check", "save", "remember"}]
    /\ draft \in [Devices -> Names]
    /\ queue \in [Devices -> Seq(Writes)]
    /\ mishaps \in 0 .. MaxMishaps

\* "verify the duplicate" (CreateSessionDetailVC.m 64): a user does not host
\* two sessions of the same name, though the query and the new document are
\* two requests and a crash may come between, as long as he does not create
\* sessions on two devices at a time.
NamesAreUnique ==
    "turns" \in Habits =>
      \A s, t \in documents : name[s] = name[t] => s = t

\* The user has one document, so that documents[0] (HomeViewController.m 167)
\* is the same on all devices and at all times: never two, on the server or
\* queued, though he may sign up on two devices at a time; one, once a device
\* is logged in; and one for an account, unless an app died or an answer was
\* lost on the way from the account to the document.
UserHasOneDocument ==
    LET all == userDocuments + Cardinality({d \in Devices : AddsUser(d)}) IN
    /\ all <= 1
    /\ (\E d \in Devices : login[d]) => all = 1
    /\ account /\ mishaps = 0 /\ (\A d \in Devices : step[d] # "made") => all = 1

\* The user's sessions as a Catalogue.
UserCatalogue ==
    INSTANCE Catalogue WITH
        Others <- 1 .. NumOthers,
        Titles <- Names,
        hosted <- [s \in documents |-> name[s]],
        past <- joinedSessions

\* For a user who takes turns at his devices and creates sessions where the list
\* is new, three chains of requests, crashes between them and the list that
\* overwrites the document's keep the promise of a Catalogue: no past session
\* is lost, none is remembered that does not exist, and titles are unique.
KeepsACatalogue == UserCatalogue!Spec
=============================================================================
