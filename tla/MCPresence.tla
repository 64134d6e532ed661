----------------------------- MODULE MCPresence -----------------------------
(* Instances of Presence for TLC.                                          *)
EXTENDS Presence

CONSTANTS u1, u2, s1, s2

TwoUsers == {u1, u2}
OneSession == {s1}
TwoSessions == {s1, s2}
OneName == [s \in {s1} |-> "band"]
OneHost == [s \in {s1} |-> u1]
OtherHosts == [s \in {s1, s2} |-> IF s = s1 THEN u1 ELSE u2]
OtherNames == [s \in {s1, s2} |-> IF s = s1 THEN "band" ELSE "choir"]
NoFaults == {}
CrashFault == {"crash"}
=============================================================================
