----------------------------- MODULE Catalogue -----------------------------
(***************************************************************************)
(* What the app promises a user about his sessions: an abstract            *)
(* specification of the sessions that he hosts and of the list of his past *)
(* sessions, which Accounts implements for a user with good habits.        *)
(*                                                                         *)
(* A session is created under a title that none of his has, and keeps it.  *)
(* The list only grows, by sessions that exist.                            *)
(***************************************************************************)
EXTENDS Functions

CONSTANTS
    Sessions,
    Others,     \* those of other hosts
    Titles

VARIABLES
    hosted,     \* the titles of the sessions that the user hosts
    past        \* the sessions that he can go back to

Init ==
    /\ hosted = [s \in {} |-> {}]
    /\ past = {}

Create(s, title) ==
    /\ s \notin DOMAIN hosted
    /\ title \notin Range(hosted)
    /\ hosted' = [t \in DOMAIN hosted \union {s} |-> IF t = s THEN title ELSE hosted[t]]
    /\ UNCHANGED past

Remember ==
    /\ \E joined \in SUBSET (Others \union DOMAIN hosted) : past' = past \union joined
    /\ UNCHANGED hosted

Next ==
    \/ \E s \in Sessions, title \in Titles : Create(s, title)
    \/ Remember

Spec == Init /\ [][Next]_<<hosted, past>>
=============================================================================
