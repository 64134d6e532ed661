------------------------------- MODULE Player -------------------------------
(***************************************************************************)
(* What a play button promises: an abstract specification that the two     *)
(* buttons of the app which start and stop music implement (Playback).     *)
(*                                                                         *)
(* The button is on or off, and answers for some of the tracks that sound. *)
(* Only a tap on it starts what it answers for.  That either ends, or      *)
(* passes out of its reach while the button stays as it is, or is stopped, *)
(* all of it, when the button goes off: nothing that it answers for sounds *)
(* while the button is off, where no tap would stop it.  For which tracks  *)
(* it answers is for the implementation to say: the fewer, the weaker the  *)
(* promise.                                                                *)
(***************************************************************************)
CONSTANT Tracks

VARIABLES
    on,         \* the button offers to stop
    sounding    \* the tracks that sound and that the button answers for

Init ==
    /\ on = FALSE
    /\ sounding = {}

\* Starts the tracks that can be started, from silence or afresh.
Start ==
    /\ on' = TRUE
    /\ sounding' \in SUBSET Tracks

\* Some tracks end, or are no longer for the button to stop.
Fade ==
    /\ sounding' \in SUBSET sounding
    /\ UNCHANGED on

Stop ==
    /\ on' = FALSE
    /\ sounding' = {}

Next == Start \/ Fade \/ Stop

Spec == Init /\ [][Next]_<<on, sounding>>

\* A promise that not every button keeps: it goes off again by itself.
GoesOff == on ~> ~on
=============================================================================
