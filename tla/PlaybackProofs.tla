--------------------------- MODULE PlaybackProofs ---------------------------
(***************************************************************************)
(* Theorems about Playback, for any set of tracks and any bound on taps.   *)
(***************************************************************************)
EXTENDS Playback, TLAPS

USE TapsAssumption

(* At most one timer is orphaned by a tap, which bounds their number.      *)
OrphansAreOfTaps == orphans =< taps

(* playAllTracks keeps the types, whoever calls it.                        *)
LEMMA PlayType ==
    ASSUME MergeOK, OrphansAreOfTaps, Tap,
           NEW flag \in BOOLEAN, NEW picture \in {"play", "pause"}, NEW strays \in BOOLEAN,
           playAllTracks(flag, picture, strays),
           selectedTracks' = selectedTracks, cleared' = cleared, sought' \in BOOLEAN
    PROVE  (MergeOK /\ OrphansAreOfTaps)'
<1> USE DEF MergeOK, OrphansAreOfTaps
<1>1. taps' \in 0 .. MaxTaps /\ taps' = taps + 1
  BY DEF Tap
<1>2. CASE selectedTracks = {}
  <2>1. isMergePlaying' = FALSE /\ button' = "play"
    BY <1>2 DEF playAllTracks
  <2>2. UNCHANGED <<playing, timer, orphans, stray>>
    BY <1>2 DEF playAllTracks, timerVars
  <2>3. isMergePlaying' \in BOOLEAN /\ timer' \in BOOLEAN
    BY <2>1, <2>2, Zenon
  <2>4. orphans' \in 0 .. MaxTaps /\ orphans' =< taps'
    BY <1>1, <2>2
  <2> QED
    BY <1>1, <2>1, <2>2, <2>3, <2>4
<1>3. CASE selectedTracks # {}
  <2>1. playing' \subseteq Tracks /\ stray' \subseteq playing'
    BY <1>3 DEF playAllTracks
  <2>2. /\ isMergePlaying' = flag /\ button' = picture
        /\ timer' = TRUE /\ orphans' \in Nat /\ orphans' =< orphans + 1
    BY <1>3 DEF playAllTracks
  <2> QED
    BY <1>1, <2>1, <2>2
<1> QED
  BY <1>2, <1>3

(* The Merge tab's variables keep their types and bounds.                  *)
LEMMA MergeTypes == Spec => [](MergeOK /\ OrphansAreOfTaps)
<1>1. Init => MergeOK /\ OrphansAreOfTaps
  <2> SUFFICES ASSUME Init
               PROVE  MergeOK /\ OrphansAreOfTaps
    OBVIOUS
  <2>1. isMergePlaying \in BOOLEAN /\ timer \in BOOLEAN /\ sought \in BOOLEAN
    BY DEF Init
  <2>2. button \in {"play", "pause"}
    BY DEF Init
  <2>3. orphans = 0 /\ taps = 0
    BY Zenon DEF Init
  <2>4. orphans \in 0 .. MaxTaps /\ taps \in 0 .. MaxTaps /\ orphans =< taps
    BY <2>3
  <2>5. selectedTracks = {} /\ playing = {} /\ cleared = {} /\ stray = {}
    BY Zenon DEF Init
  <2> QED
    BY <2>1, <2>2, <2>4, <2>5 DEF MergeOK, OrphansAreOfTaps
<1>2. MergeOK /\ OrphansAreOfTaps /\ [Next]_vars => (MergeOK /\ OrphansAreOfTaps)'
  <2> SUFFICES ASSUME MergeOK, OrphansAreOfTaps, [Next]_vars
               PROVE  (MergeOK /\ OrphansAreOfTaps)'
    OBVIOUS
  <2> USE DEF MergeOK, OrphansAreOfTaps
  <2>0. CASE ClickTrackTab /\ UNCHANGED mergeVars
    BY <2>0 DEF mergeVars, timerVars
  <2>1. CASE play
    <3>1. CASE ~isMergePlaying /\ playAllTracks(TRUE, "pause", FALSE)
      BY <2>1, <3>1, PlayType DEF play
    <3>2. CASE isMergePlaying /\ button' = "play" /\ pauseAllTracks
      <4>1. taps' \in 0 .. MaxTaps /\ taps' = taps + 1
        BY <2>1 DEF play, Tap
      <4>2. playing' \subseteq Tracks /\ stray' \subseteq playing'
        BY <3>2 DEF pauseAllTracks
      <4>3. isMergePlaying' = FALSE /\ button' = "play" /\ timer' = FALSE
        BY <3>2 DEF pauseAllTracks
      <4>4. UNCHANGED <<selectedTracks, cleared, sought, orphans>>
        BY <2>1, <3>2 DEF play, pauseAllTracks
      <4>5. isMergePlaying' \in BOOLEAN /\ timer' \in BOOLEAN /\ sought' \in BOOLEAN
        BY <4>3, <4>4, Zenon
      <4>6. orphans' \in 0 .. MaxTaps /\ orphans' =< taps'
        BY <4>1, <4>4
      <4> QED
        BY <4>1, <4>2, <4>3, <4>4, <4>5, <4>6
    <3> QED
      BY <2>1, <3>1, <3>2 DEF play
  <2>2. CASE seek
    BY <2>2, PlayType DEF seek
  <2>3. CASE refresh
    BY <2>3 DEF refresh, timerVars
  <2>4. ASSUME NEW t \in Tracks, didSelectRow(t)
        PROVE  (MergeOK /\ OrphansAreOfTaps)'
    BY <2>4 DEF didSelectRow, timerVars
  <2>5. ASSUME NEW t \in Tracks, didDeselectRow(t)
        PROVE  (MergeOK /\ OrphansAreOfTaps)'
    BY <2>5 DEF didDeselectRow, timerVars
  <2>6. ASSUME NEW t \in Tracks, playAudio(t)
        PROVE  (MergeOK /\ OrphansAreOfTaps)'
    BY <2>6 DEF playAudio, Tap, timerVars
  <2>7. ASSUME NEW t \in Tracks, TrackEnds(t)
        PROVE  (MergeOK /\ OrphansAreOfTaps)'
    BY <2>7 DEF TrackEnds, timerVars
  <2>8. CASE checkPlayback
    BY <2>8 DEF checkPlayback
  <2>9. CASE UNCHANGED vars
    BY <2>9 DEF vars, mergeVars, timerVars
  <2> QED
    BY <2>0, <2>1, <2>2, <2>3, <2>4, <2>5, <2>6, <2>7, <2>8, <2>9 DEF Next, MergeTab
<1> QED
  BY <1>1, <1>2, PTL DEF Spec

(* So do those of the Click Track tab.                                     *)
LEMMA ClickTypes == Spec => []ClickOK
<1>1. Init => ClickOK
  BY Zenon DEF Init, ClickOK
<1>2. ClickOK /\ [Next]_vars => ClickOK'
  <2> SUFFICES ASSUME ClickOK, [Next]_vars
               PROVE  ClickOK'
    OBVIOUS
  <2> USE DEF ClickOK
  <2>1. CASE UNCHANGED clickVars
    BY <2>1 DEF clickVars
  <2>2. CASE playTrack
    BY <2>2, Zenon DEF playTrack
  <2>3. CASE pickSong
    <3>1. sessionPlays' \in BOOLEAN
      BY <2>3, Zenon DEF pickSong
    <3> QED
      BY <2>3, <3>1, Zenon DEF pickSong
  <2>4. CASE tabLoads
    BY <2>4, Zenon DEF tabLoads
  <2>5. CASE studioLoads
    BY <2>5, Zenon DEF studioLoads
  <2>6. CASE studioPlays
    <3>1. clickPlays' \in BOOLEAN /\ cued' \in BOOLEAN /\ sessionPlays' \in BOOLEAN
      BY <2>6, Zenon DEF studioPlays
    <3>2. sessionPlays' => audioPlayer' = "own"
      BY <2>6 DEF studioPlays
    <3> QED
      BY <2>6, <3>1, <3>2, Zenon DEF studioPlays
  <2>7. CASE studioStops
    <3>1. clickPlays' \in BOOLEAN /\ cued' \in BOOLEAN /\ sessionPlays' \in BOOLEAN
      BY <2>7, Zenon DEF studioStops
    <3>2. sessionPlays' => audioPlayer' = "own"
      BY <2>7 DEF studioStops
    <3> QED
      BY <2>7, <3>1, <3>2, Zenon DEF studioStops
  <2>8. CASE ClickEnds
    <3>1. clickPlays' \in BOOLEAN /\ cued' \in BOOLEAN /\ sessionPlays' \in BOOLEAN
      BY <2>8, Zenon DEF ClickEnds
    <3>2. sessionPlays' => audioPlayer' = "own"
      BY <2>8 DEF ClickEnds
    <3> QED
      BY <2>8, <3>1, <3>2, Zenon DEF ClickEnds
  <2> QED
    BY <2>1, <2>2, <2>3, <2>4, <2>5, <2>6, <2>7, <2>8 DEF Next, ClickTrackTab, vars
<1> QED
  BY <1>1, <1>2, PTL DEF Spec

(* Type correctness: no timer, row or tap but those the bounds allow.      *)
THEOREM TypeCorrect == Spec => []TypeOK
BY MergeTypes, ClickTypes, PTL DEF TypeOK

-----------------------------------------------------------------------------
(* The two safety properties, which one pass over the actions proves: a    *)
(* start must find no timer to orphan and no track that it would take for    *)
(* its own, and the end of a playback must leave none of either.             *)
PlaybackInv == PlayingIsWatched /\ StartedCanBePaused

LEMMA PlaybackInvariant == Spec => []PlaybackInv
<1> USE DEF PlaybackInv, PlayingIsWatched, StartedCanBePaused
<1>1. Init => PlaybackInv
  BY DEF Init
<1>2. TypeOK /\ PlaybackInv /\ [Next]_vars => PlaybackInv'
  <2> SUFFICES ASSUME TypeOK, PlaybackInv, [Next]_vars
               PROVE  PlaybackInv'
    OBVIOUS
  <2> USE DEF TypeOK, MergeOK
  <2>0. CASE ClickTrackTab /\ UNCHANGED mergeVars
    BY <2>0 DEF mergeVars, timerVars
  <2>1. CASE play
    <3>1. CASE ~isMergePlaying /\ playAllTracks(TRUE, "pause", FALSE)
      <4>1. playing \subseteq stray /\ (~sought => timer = FALSE /\ orphans = 0)
        BY <3>1
      <4>2. CASE selectedTracks = {}
        BY <2>1, <3>1, <4>1, <4>2 DEF play, playAllTracks, timerVars
      <4>3. CASE selectedTracks # {}
        BY <2>1, <3>1, <4>1, <4>3 DEF play, playAllTracks, timerVars
      <4> QED
        BY <4>2, <4>3
    <3>2. CASE isMergePlaying /\ button' = "play" /\ pauseAllTracks
      BY <2>1, <3>2 DEF play, pauseAllTracks, timerVars
    <3> QED
      BY <2>1, <3>1, <3>2 DEF play
  <2>2. CASE seek
    <3>1. playAllTracks(isMergePlaying, button, ~isMergePlaying)
      BY <2>2 DEF seek
    <3>2. CASE selectedTracks = {}
      BY <2>2, <3>1, <3>2 DEF seek, playAllTracks, timerVars
    <3>3. CASE selectedTracks # {}
      BY <2>2, <3>1, <3>3 DEF seek, playAllTracks, timerVars
    <3> QED
      BY <3>2, <3>3
  <2>3. CASE refresh
    BY <2>3 DEF refresh, timerVars
  <2>4. ASSUME NEW t \in Tracks, didSelectRow(t)
        PROVE  PlaybackInv'
    BY <2>4 DEF didSelectRow, timerVars
  <2>5. ASSUME NEW t \in Tracks, didDeselectRow(t)
        PROVE  PlaybackInv'
    BY <2>5 DEF didDeselectRow, timerVars
  <2>6. ASSUME NEW t \in Tracks, playAudio(t)
        PROVE  PlaybackInv'
    BY <2>6 DEF playAudio, timerVars
  <2>7. ASSUME NEW t \in Tracks, TrackEnds(t)
        PROVE  PlaybackInv'
    BY <2>7 DEF TrackEnds, timerVars
  <2>8. CASE checkPlayback
    BY <2>8 DEF checkPlayback
  <2>9. CASE UNCHANGED vars
    BY <2>9 DEF vars, mergeVars, timerVars
  <2> QED
    BY <2>0, <2>1, <2>2, <2>3, <2>4, <2>5, <2>6, <2>7, <2>8, <2>9 DEF Next, MergeTab
<1> QED
  BY <1>1, <1>2, TypeCorrect, PTL DEF Spec

(* The flag, the button and the timer of the tab never disagree, whatever is *)
(* tapped in whatever order, and until the first rewind or forward no timer  *)
(* is leaked.                                                                *)
THEOREM PlayingStaysWatched == Spec => []PlayingIsWatched
BY PlaybackInvariant, PTL DEF PlaybackInv

(* No track that the play button started, and that was left selected, plays  *)
(* on where the button cannot pause it.                                      *)
THEOREM StartedStayPausable == Spec => []StartedCanBePaused
BY PlaybackInvariant, PTL DEF PlaybackInv

-----------------------------------------------------------------------------
(* Both buttons implement a Player.                                        *)

(* Every step of the Merge tab starts, fades or stops the rows its button  *)
(* answers for, or does not change them: a row that a cell, a rewind or a  *)
(* deselection made a stray is not among them.                             *)
THEOREM MergeTabImplementsPlayer == Spec => MergeTabIsAPlayer
<1>1. Init => MergePlayer!Init
  BY DEF Init, MergePlayer!Init
<1>2. TypeOK /\ PlaybackInv /\ [Next]_vars =>
        [MergePlayer!Next]_<<isMergePlaying, playing \ stray>>
  <2> SUFFICES ASSUME TypeOK, PlaybackInv, [Next]_vars
               PROVE  \/ MergePlayer!Next
                      \/ UNCHANGED <<isMergePlaying, playing \ stray>>
    OBVIOUS
  <2> USE DEF TypeOK, MergeOK, PlaybackInv, StartedCanBePaused, MergePlayer!Next
  <2>0. CASE UNCHANGED mergeVars
    BY <2>0 DEF mergeVars
  <2>1. CASE play
    <3>1. CASE ~isMergePlaying /\ playAllTracks(TRUE, "pause", FALSE)
      <4>1. playing \ stray = {}
        BY <3>1
      <4>2. CASE selectedTracks = {}
        <5>1. MergePlayer!Stop
          BY <3>1, <4>1, <4>2 DEF playAllTracks, MergePlayer!Stop
        <5> QED
          BY <5>1
      <4>3. CASE selectedTracks # {}
        <5>1. MergePlayer!Start
          BY <3>1, <4>3 DEF playAllTracks, MergePlayer!Start
        <5> QED
          BY <5>1
      <4> QED
        BY <4>2, <4>3
    <3>2. CASE isMergePlaying /\ button' = "play" /\ pauseAllTracks
      <4>1. MergePlayer!Stop
        BY <3>2 DEF pauseAllTracks, MergePlayer!Stop
      <4> QED
        BY <4>1
    <3> QED
      BY <2>1, <3>1, <3>2 DEF play
  <2>2. CASE seek
    <3>1. playAllTracks(isMergePlaying, button, ~isMergePlaying)
      BY <2>2 DEF seek
    <3>2. CASE isMergePlaying /\ selectedTracks # {}
      <4>1. MergePlayer!Start
        BY <3>1, <3>2 DEF playAllTracks, MergePlayer!Start
      <4> QED
        BY <4>1
    <3>3. CASE selectedTracks = {}
      <4>1. MergePlayer!Stop
        BY <3>1, <3>3 DEF playAllTracks, MergePlayer!Stop
      <4> QED
        BY <4>1
    <3>4. CASE ~isMergePlaying /\ selectedTracks # {}
      <4>1. playing \ stray = {} /\ playing' \ stray' = {}
        BY <3>1, <3>4 DEF playAllTracks
      <4>2. isMergePlaying' = isMergePlaying
        BY <3>1, <3>4, Zenon DEF playAllTracks
      <4> QED
        BY <4>1, <4>2
    <3> QED
      BY <3>2, <3>3, <3>4
  <2>3. CASE refresh
    <3>1. MergePlayer!Fade
      BY <2>3 DEF refresh, MergePlayer!Fade
    <3> QED
      BY <3>1
  <2>4. ASSUME NEW t \in Tracks, didSelectRow(t)
        PROVE  UNCHANGED <<isMergePlaying, playing \ stray>>
    BY <2>4 DEF didSelectRow
  <2>5. ASSUME NEW t \in Tracks,
               didDeselectRow(t) \/ playAudio(t) \/ TrackEnds(t)
        PROVE  MergePlayer!Fade
    BY <2>5 DEF didDeselectRow, playAudio, TrackEnds, MergePlayer!Fade
  <2>6. CASE checkPlayback
    <3>1. MergePlayer!Stop
      BY <2>6 DEF checkPlayback, MergePlayer!Stop
    <3> QED
      BY <3>1
  <2> QED
    BY <2>0, <2>1, <2>2, <2>3, <2>4, <2>5, <2>6 DEF Next, MergeTab, vars
<1> QED
  BY <1>1, <1>2, TypeCorrect, PlaybackInvariant, PTL
     DEF Spec, MergeTabIsAPlayer, MergePlayer!Spec

(* The player that the Click Track tab has, unless the Studio started it,  *)
(* sounds only while the title offers to stop it.                          *)
ClickInv == clickPlays /\ ~cued => title = "Stop playback"

(* Every step of the Click Track tab starts, fades or stops the player that *)
(* the tab has, or does not change whether it sounds for the button.  Of the *)
(* session's click track, which a picked song leaves playing without the     *)
(* tab, it says nothing.                                                     *)
THEOREM ClickTabImplementsPlayer == Spec => ClickTabIsAPlayer
<1> DEFINE on == title = "Stop playback"
           sounding == IF clickPlays /\ ~cued THEN {Click} ELSE {}
<1>1. Init => ClickPlayer!Init /\ ClickInv
  BY DEF Init, ClickPlayer!Init, ClickInv
<1>2. ClickOK /\ ClickInv /\ [Next]_vars => ClickInv' /\ [ClickPlayer!Next]_<<on, sounding>>
  <2> SUFFICES ASSUME ClickOK, ClickInv, [Next]_vars
               PROVE  ClickInv' /\ (ClickPlayer!Next \/ UNCHANGED <<on, sounding>>)
    OBVIOUS
  <2> USE DEF ClickOK, ClickInv, ClickPlayer!Next
  <2>1. CASE UNCHANGED clickVars
    BY <2>1 DEF clickVars
  <2>2. CASE playTrack
    <3>1. CASE clickPlays /\ clickPlays' = FALSE /\ title' = "Play track"
      <4>1. ClickPlayer!Stop
        BY <3>1 DEF ClickPlayer!Stop
      <4> QED
        BY <3>1, <4>1
    <3>2. CASE title' = "Stop playback"
      <4>1. ClickPlayer!Start
        BY <3>2 DEF ClickPlayer!Start
      <4> QED
        BY <3>2, <4>1
    <3> QED
      BY <2>2, <3>1, <3>2 DEF playTrack
  <2>3. ASSUME title' = title, clickPlays' /\ ~cued' => clickPlays /\ ~cued
        PROVE  ClickInv' /\ ClickPlayer!Next
    <3>1. ClickPlayer!Fade
      BY <2>3 DEF ClickPlayer!Fade
    <3> QED
      BY <2>3, <3>1
  <2>4. CASE pickSong \/ tabLoads
    BY <2>3, <2>4 DEF pickSong, tabLoads
  <2>5. CASE studioLoads
    BY <2>3, <2>5 DEF studioLoads
  <2>6. CASE studioPlays
    BY <2>3, <2>6 DEF studioPlays
  <2>7. CASE studioStops
    BY <2>3, <2>7 DEF studioStops
  <2>8. CASE ClickEnds
    BY <2>3, <2>8 DEF ClickEnds
  <2> QED
    BY <2>1, <2>2, <2>4, <2>5, <2>6, <2>7, <2>8 DEF Next, ClickTrackTab, vars
<1> QED
  BY <1>1, <1>2, ClickTypes, PTL DEF Spec, ClickTabIsAPlayer, ClickPlayer!Spec
=============================================================================
