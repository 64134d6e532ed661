------------------------------ MODULE Follower ------------------------------
(***************************************************************************)
(* What the devices of the guests promise: an abstract specification of    *)
(* following a flag that somebody else raises and lowers, which the        *)
(* recorders of the guests implement (Recording).                          *)
(*                                                                         *)
(* The flag has a history.  A follower reads it, forwards, perhaps         *)
(* skipping versions; it becomes active only at reading a version that     *)
(* says so, and at reading one that does not it is inactive.  It may       *)
(* become inactive by itself.                                              *)
(***************************************************************************)
EXTENDS Naturals, Sequences

CONSTANTS
    Followers,
    MayFail     \* whether a follower that reads TRUE may fail to act

VARIABLES
    history,    \* the versions of the flag, oldest first
    position,   \* the version a follower has read
    active

Init ==
    /\ history = <<FALSE>>
    /\ position = [f \in Followers |-> 1]
    /\ active = [f \in Followers |-> FALSE]

Change ==
    /\ \E flag \in BOOLEAN : history' = Append(history, flag)
    /\ UNCHANGED <<position, active>>

Obeys(flag) == IF MayFail THEN {FALSE, flag} ELSE {flag}

Read(f) ==
    /\ \E n \in position[f] .. Len(history) :
         /\ position' = [position EXCEPT ![f] = n]
         /\ \E a \in Obeys(history[n]) : active' = [active EXCEPT ![f] = a]
    /\ UNCHANGED history

Stop(f) ==
    /\ active' = [active EXCEPT ![f] = FALSE]
    /\ UNCHANGED <<history, position>>

Next == Change \/ \E f \in Followers : Read(f) \/ Stop(f)

Spec == Init /\ [][Next]_<<history, position, active>>
=============================================================================
