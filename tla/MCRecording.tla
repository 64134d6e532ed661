---------------------------- MODULE MCRecording ----------------------------
(* Instances of Recording for TLC: a host and a guest.                     *)
EXTENDS Recording

CONSTANTS h, g1

OneGuest == {g1}
NoFaults == {}
=============================================================================
