------------------------------ MODULE Playback ------------------------------
(***************************************************************************)
(* The two tabs that play music, each an implementation of Player.         *)
(*                                                                         *)
(* Playing the selected tracks of the Merge tab together (MergeSessionVC): *)
(* the play/pause button, rewind and forward, the timer that looks once a  *)
(* second whether the music is over, and the players of the rows, which    *)
(* the buttons of the cells (MergeAudioCell) start and stop too.           *)
(*                                                                         *)
(* Playing the click track in its tab (ClickTrackSessionVC): one button,   *)
(* whose title is all that remembers what it did.  Its player is that of   *)
(* the session's click track, which the Studio plays during a take, until  *)
(* the user picks a song, or the Studio's listener is the first to load a  *)
(* new click track: then the tab has a player that only it knows, and the  *)
(* session's plays on without it.                                          *)
(*                                                                         *)
(* scheduledTimer makes the run loop keep a timer until it is invalidated. *)
(* The code invalidates self.playbackTimer, the last one it scheduled: a   *)
(* timer that was replaced fires for ever.                                 *)
(*                                                                         *)
(* Abstracted: positions in the tracks, volumes, the pictures on the cells'*)
(* buttons.  The rows that a refresh brings are the same tracks with new   *)
(* players; a player of a row that is gone plays on while its cell keeps   *)
(* it.                                                                     *)
(*                                                                         *)
(* A definition named Wrong_... is a mistake one could make in the code of *)
(* the definition after it; the specification does not use it.             *)
(***************************************************************************)
EXTENDS Naturals

CONSTANTS
    Tracks,     \* the rows of the Merge tab
    MaxTaps     \* bound: taps that start something

ASSUME TapsAssumption == MaxTaps \in Nat

VARIABLES
    selectedTracks,
    playing,        \* the rows whose players play
    cleared,        \* tracks with a player that plays, of a row that is gone
    isMergePlaying,
    button,         \* what the play button offers: "play" or "pause"
    timer,          \* whether playbackTimer is scheduled
    orphans,        \* scheduled timers that playbackTimer does not name
    stray,          \* history: of the rows that play, those that were
                    \* deselected, or not started by the play button
    sought,         \* history: rewind or forward was tapped
    taps,
    title,          \* of the Click Track tab's button: "Play track" or
                    \* "Stop playback"
    audioPlayer,    \* the tab's player: that of the "session", or its "own"
    clickPlays,     \* whether it plays
    cued,           \* history: it plays because the Studio started it
    sessionPlays    \* whether the session's click track plays, if the tab has
                    \* a player of its own

timerVars == <<timer, orphans>>
mergeVars == <<selectedTracks, playing, cleared, isMergePlaying, button, timerVars, stray,
               sought, taps>>
clickVars == <<title, audioPlayer, clickPlays, cued, sessionPlays>>
vars == <<mergeVars, clickVars>>

Init ==
    /\ selectedTracks = {}
    /\ playing = {}
    /\ cleared = {}
    /\ isMergePlaying = FALSE
    /\ button = "play"
    /\ timer = FALSE
    /\ orphans = 0
    /\ stray = {}
    /\ sought = FALSE
    /\ taps = 0
    /\ title = "Play track"
    /\ audioPlayer = "session"
    /\ clickPlays = FALSE
    /\ cued = FALSE
    /\ sessionPlays = FALSE

Tap ==
    /\ taps < MaxTaps
    /\ taps' = taps + 1

-----------------------------------------------------------------------------
(* The buttons.                                                            *)

\* playAllTracks, with the flag and the button as the caller has set them.  A
\* player that could not be made from its URL is nil and does not start.
playAllTracks(flag, picture, strays) ==
    IF selectedTracks = {}
    THEN /\ isMergePlaying' = FALSE /\ button' = "play"
         /\ UNCHANGED <<playing, timerVars, stray>>
    ELSE /\ \E S \in SUBSET selectedTracks :
              /\ playing' = (playing \ selectedTracks) \union S
              /\ stray' = (stray \ selectedTracks) \union (IF strays THEN S ELSE {})
         /\ timer' = TRUE
         /\ orphans' = orphans + (IF timer THEN 1 ELSE 0)
         /\ isMergePlaying' = flag /\ button' = picture

Wrong_pauseAllTracks ==
    /\ playing' = playing \ selectedTracks
    /\ stray' = stray \ selectedTracks
    /\ isMergePlaying' = FALSE
    /\ UNCHANGED timerVars

pauseAllTracks ==
    /\ playing' = playing \ selectedTracks
    /\ stray' = stray \ selectedTracks
    /\ isMergePlaying' = FALSE
    /\ timer' = FALSE
    /\ UNCHANGED orphans

play ==
    /\ Tap
    /\ \/ ~isMergePlaying /\ playAllTracks(TRUE, "pause", FALSE)
       \/ isMergePlaying /\ button' = "play" /\ pauseAllTracks
    /\ UNCHANGED <<selectedTracks, cleared, sought>>

\* rewind and forward: adjustAllTracks pauses and moves the selected tracks,
\* and playAllTracks starts them all from the beginning.
seek ==
    /\ Tap
    /\ sought' = TRUE
    /\ playAllTracks(isMergePlaying, button, ~isMergePlaying)
    /\ UNCHANGED <<selectedTracks, cleared>>

-----------------------------------------------------------------------------
(* The rows.                                                               *)

didSelectRow(t) ==
    /\ selectedTracks' = selectedTracks \union {t}
    /\ UNCHANGED <<playing, cleared, isMergePlaying, button, timerVars, stray, sought, taps>>

\* Or a swipe that deletes the row.
didDeselectRow(t) ==
    /\ selectedTracks' = selectedTracks \ {t}
    /\ stray' = stray \union ({t} \intersect playing)
    /\ UNCHANGED <<playing, cleared, isMergePlaying, button, timerVars, sought, taps>>

\* The rows and the selection are cleared, and new rows come.
refresh ==
    /\ selectedTracks' = {}
    /\ cleared' = cleared \union playing
    /\ playing' = {}
    /\ stray' = {}
    /\ UNCHANGED <<isMergePlaying, button, timerVars, sought, taps>>

\* playAudio of a cell.
playAudio(t) ==
    /\ Tap
    /\ \/ t \in playing /\ playing' = playing \ {t} /\ stray' = stray \ {t}
       \/ t \notin playing /\ playing' = playing \union {t} /\ stray' = stray \union {t}
    /\ UNCHANGED <<selectedTracks, cleared, isMergePlaying, button, timerVars, sought>>

-----------------------------------------------------------------------------
(* Time.                                                                   *)

Wrong_checkTwice ==
    /\ timer \/ orphans > 0
    /\ orphans' = orphans + 1
    /\ UNCHANGED <<selectedTracks, playing, cleared, isMergePlaying, button, timer, stray,
                   sought, taps>>

Wrong_checkLast ==
    /\ timer \/ orphans > 0
    /\ \E t \in selectedTracks : t \notin playing
    /\ button' = "play" /\ timer' = FALSE /\ isMergePlaying' = FALSE
    /\ UNCHANGED <<selectedTracks, playing, cleared, orphans, stray, sought, taps>>

Wrong_checkAll ==
    /\ timer \/ orphans > 0
    /\ selectedTracks # {} /\ selectedTracks \intersect playing = {}
    /\ button' = "play" /\ timer' = FALSE /\ isMergePlaying' = FALSE
    /\ UNCHANGED <<selectedTracks, playing, cleared, orphans, stray, sought, taps>>

\* Some timer fires, and no selected track plays.
checkPlayback ==
    /\ timer \/ orphans > 0
    /\ selectedTracks \intersect playing = {}
    /\ button' = "play" /\ timer' = FALSE /\ isMergePlaying' = FALSE
    /\ UNCHANGED <<selectedTracks, playing, cleared, orphans, stray, sought, taps>>

TrackEnds(t) ==
    \/ /\ t \in playing
       /\ playing' = playing \ {t} /\ stray' = stray \ {t}
       /\ UNCHANGED <<selectedTracks, cleared, isMergePlaying, button, timerVars, sought, taps>>
    \/ /\ t \in cleared
       /\ cleared' = cleared \ {t}
       /\ UNCHANGED <<selectedTracks, playing, isMergePlaying, button, timerVars, stray,
                      sought, taps>>

-----------------------------------------------------------------------------
(* The Click Track tab.                                                    *)

Wrong_playTrack ==
    /\ clickPlays' = ~clickPlays
    /\ title' = IF title = "Play track" THEN "Stop playback" ELSE "Play track"
    /\ cued' = FALSE
    /\ UNCHANGED <<audioPlayer, sessionPlays>>

\* The button asks the player, not its title, what to do.  A player that could
\* not be made is nil: it does not start, but the title changes.
playTrack ==
    /\ \/ /\ clickPlays
          /\ clickPlays' = FALSE /\ title' = "Play track"
       \/ /\ ~clickPlays
          /\ clickPlays' \in BOOLEAN /\ title' = "Stop playback"
    /\ cued' = FALSE
    /\ UNCHANGED <<audioPlayer, sessionPlays>>

\* A song is picked: a new player takes the place of the tab's, and nothing
\* stops that.  One that the tab alone knew ends with it; the session's click
\* track plays on, for the session and the Studio hold it.
pickSong ==
    /\ audioPlayer' = "own" /\ clickPlays' = FALSE /\ cued' = FALSE
    /\ sessionPlays' = IF audioPlayer = "session" THEN clickPlays ELSE sessionPlays
    /\ UNCHANGED title

\* The tab's listener is the first to see a new click track: the session, the
\* tab and the Studio get it, and the players they had end with them.
tabLoads ==
    /\ audioPlayer' = "session" /\ clickPlays' = FALSE /\ cued' = FALSE
    /\ sessionPlays' = FALSE
    /\ UNCHANGED title

\* The Studio's listener is: the session and the Studio get it, and the tab's
\* listener will not see that it is new.  The tab keeps the player it has.
studioLoads ==
    /\ audioPlayer' = "own"
    /\ sessionPlays' = FALSE
    /\ UNCHANGED <<title, clickPlays, cued>>

\* The Studio starts and stops the session's click track for a take; a guest
\* who is in this tab when the host starts one is taken to the Studio.
studioPlays ==
    /\ \/ /\ audioPlayer = "session"
          /\ clickPlays' \in {TRUE, clickPlays}
          /\ cued' = (clickPlays' /\ (cued \/ ~clickPlays))
          /\ UNCHANGED sessionPlays
       \/ /\ audioPlayer = "own"
          /\ sessionPlays' \in {TRUE, sessionPlays}
          /\ UNCHANGED <<clickPlays, cued>>
    /\ UNCHANGED <<title, audioPlayer>>

studioStops ==
    /\ \/ /\ audioPlayer = "session"
          /\ clickPlays' = FALSE /\ cued' = FALSE
          /\ UNCHANGED sessionPlays
       \/ /\ audioPlayer = "own"
          /\ sessionPlays' = FALSE
          /\ UNCHANGED <<clickPlays, cued>>
    /\ UNCHANGED <<title, audioPlayer>>

\* The players have no delegate that would tell the tab: the title stays.
ClickEnds ==
    /\ \/ /\ clickPlays
          /\ clickPlays' = FALSE /\ cued' = FALSE
          /\ UNCHANGED sessionPlays
       \/ /\ sessionPlays
          /\ sessionPlays' = FALSE
          /\ UNCHANGED <<clickPlays, cued>>
    /\ UNCHANGED <<title, audioPlayer>>

-----------------------------------------------------------------------------

MergeTab ==
    \/ play \/ seek \/ refresh
    \/ \E t \in Tracks : didSelectRow(t) \/ didDeselectRow(t) \/ playAudio(t) \/ TrackEnds(t)
    \/ checkPlayback

ClickTrackTab ==
    \/ playTrack \/ pickSong
    \/ tabLoads \/ studioLoads
    \/ studioPlays \/ studioStops \/ ClickEnds

Next ==
    \/ MergeTab /\ UNCHANGED clickVars
    \/ ClickTrackTab /\ UNCHANGED mergeVars

Spec == Init /\ [][Next]_vars

\* Tracks end and timers fire; users owe nothing.
FairSpec ==
    /\ Spec
    /\ WF_mergeVars(checkPlayback)
    /\ \A t \in Tracks : WF_mergeVars(TrackEnds(t))

-----------------------------------------------------------------------------

MergeOK ==
    /\ selectedTracks \subseteq Tracks
    /\ playing \subseteq Tracks
    /\ cleared \subseteq Tracks
    /\ isMergePlaying \in BOOLEAN
    /\ button \in {"play", "pause"}
    /\ timer \in BOOLEAN
    /\ orphans \in 0 .. MaxTaps
    /\ stray \subseteq playing
    /\ sought \in BOOLEAN
    /\ taps \in 0 .. MaxTaps

ClickOK ==
    /\ title \in {"Play track", "Stop playback"}
    /\ audioPlayer \in {"session", "own"}
    /\ clickPlays \in BOOLEAN
    /\ cued \in BOOLEAN
    /\ sessionPlays \in BOOLEAN
    /\ sessionPlays => audioPlayer = "own"

\* Type correctness.
TypeOK == MergeOK /\ ClickOK

\* While the tab takes the merge to be playing, the button offers to pause it
\* and a timer is scheduled that will find its end; else the button offers to
\* play, whatever of the rows plays on.  Before the first rewind or forward
\* that timer is the only one, and it does not outlive the playback.
PlayingIsWatched ==
    /\ isMergePlaying <=> button = "pause"
    /\ isMergePlaying => timer
    /\ ~sought => orphans = 0 /\ (timer => isMergePlaying)

\* What the play button started and the user left selected can be paused: the
\* tab never takes it for over, nor forgets it at a pause.
StartedCanBePaused ==
    \A t \in playing \ stray : t \in selectedTracks /\ isMergePlaying

\* The button of the Merge tab as a Player: it answers for the rows that it
\* started, as long as they are selected.
MergePlayer ==
    INSTANCE Player WITH on <- isMergePlaying, sounding <- playing \ stray

\* The play button of the Merge tab, with its flag, its timers, rewind and
\* forward, refresh and the cells' own buttons, keeps the promise of a Player.
MergeTabIsAPlayer == MergePlayer!Spec

\* The button of the Click Track tab as a Player of one track: it answers for
\* the player that the tab has, from the tap that starts it.
Click == "click track"
ClickPlayer ==
    INSTANCE Player WITH
        Tracks <- {Click},
        on <- title = "Stop playback",
        sounding <- IF clickPlays /\ ~cued THEN {Click} ELSE {}

\* For the player that the tab has, the button of the Click Track tab keeps the
\* promise too, though it asks that player and not its title what to do, and
\* though the player ends, is replaced, and is started and stopped by the Studio
\* without a word to the tab.  It does NOT keep it for the player that the tab
\* had before a song was picked (ClickTrackSessionVC.m 182): the session's click
\* track then plays on (sessionPlays), and no tap on this button reaches it.  Nor
\* does it promise ClickPlayer!GoesOff: nothing tells it that the track is over.
ClickTabIsAPlayer == ClickPlayer!Spec

\* "NO players are playing" (MergeSessionVC.m 238): once the music is over the
\* button offers to play again, whatever was selected or cleared meanwhile.
ButtonComesBack == isMergePlaying ~> ~isMergePlaying
=============================================================================
