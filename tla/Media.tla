-------------------------------- MODULE Media -------------------------------
(***************************************************************************)
(* What takes the bridge several frames: sound, movies and the guest's own *)
(* menu.  MoviePlayback lets the decoder and the mixer answer in any way,  *)
(* and the bridges are called in any way; no menu is opened while a movie  *)
(* plays.  So each module has every behaviour its component has in the     *)
(* program; one of them runs.                                              *)
(***************************************************************************)
EXTENDS VideoBridge, AudioBridge, MoviePlayback, MenuSession

VARIABLE running \* the component that runs

vars == <<videoVars, audioVars, movieVars, sessionVars, running>>

Init ==
    /\ running \in {"video", "audio", "movie", "session"}
    /\ VideoInit /\ AudioInit /\ MovieInit /\ SessionInit
    /\ running # "video" => file = <<>> /\ start_time = NoPts
    /\ running # "audio" => opened = 0

Next ==
    /\ UNCHANGED running
    /\ \/ running = "video" /\ VideoNext /\ UNCHANGED <<audioVars, movieVars, sessionVars>>
       \/ running = "audio" /\ AudioNext /\ UNCHANGED <<videoVars, movieVars, sessionVars>>
       \/ running = "movie" /\ MovieNext /\ UNCHANGED <<videoVars, audioVars, sessionVars>>
       \/ running = "session" /\ SessionNext /\ UNCHANGED <<videoVars, audioVars, movieVars>>

Spec == Init /\ [][Next]_vars /\ VideoFairness /\ MovieFairness
        /\ (running = "session" => SessionFairness)

\* What no single step may do: a movie's time stamps never go back ("PTS ...
\* never decreases"), also with missing or malformed ones, and the audio device
\* is closed as often as it was opened, also when opening fails half way.
StepsBalance == PtsNeverDecreases /\ DeviceBalanced
=============================================================================
