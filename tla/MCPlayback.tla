----------------------------- MODULE MCPlayback -----------------------------
(* An instance of Playback for TLC.                                        *)
EXTENDS Playback

CONSTANTS t1, t2

TwoTracks == {t1, t2}
=============================================================================
