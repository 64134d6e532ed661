---------------------------- MODULE MCMergeJobs ----------------------------
(* Instances of MergeJobs for TLC: two tracks, the host's app alone.       *)
EXTENDS MergeJobs

CONSTANTS t1, t2, d1

TwoTracks == {t1, t2}
OneListener == {d1}
Patient == {"patient"}
=============================================================================
