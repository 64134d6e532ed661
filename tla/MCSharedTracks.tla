--------------------------- MODULE MCSharedTracks ---------------------------
(* Instances of SharedTracks for TLC: two users with a track each.         *)
EXTENDS SharedTracks, TLC

CONSTANTS u1, u2, t1, t2

TwoUsers == {u1, u2}
TwoTracks == {t1, t2}
OwnTracks == (t1 :> u1) @@ (t2 :> u2)
=============================================================================
