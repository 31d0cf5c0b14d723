---------------------------- MODULE MediaProofs -----------------------------
(***************************************************************************)
(* Theorems about sound and movies, for every file, handle and channel.    *)
(***************************************************************************)
EXTENDS Media, SequenceTheorems, FiniteSetTheorems, TLAPS

-----------------------------------------------------------------------------
(* The audio bridge.  Effects are on channels and music is the music, so   *)
(* what stop_locked clears is all there is of a handle.                    *)

AudioInv ==
    /\ handles \subseteq Handles
    /\ volume = [h \in Handles |-> volume[h]]
    /\ channel \in [Channels -> Effects \cup {NoHandle}]
    /\ music \in Music \cup {NoHandle} /\ current_music \in Music \cup {NoHandle}
    /\ SoundFollowsHandles

\* stop_locked of a handle that is then open no longer.
LEMMA StopLeavesNothing ==
    ASSUME AudioInv, NEW h \in Handles, StopLocked(h)
    PROVE  /\ channel' \in [Channels -> Effects \cup {NoHandle}]
           /\ \A c \in Channels : channel'[c] \in (handles \ {h}) \cup {NoHandle}
           /\ music' \in {music, NoHandle} /\ music' \in (handles \ {h}) \cup {NoHandle}
           /\ current_music' \in {current_music, NoHandle} /\ current_music' \in (handles \ {h}) \cup {NoHandle}
           /\ music' # NoHandle => current_music' = current_music
<1>1. CASE h \in Effects
  <2>1. h \notin Music /\ h # NoHandle
    BY <1>1, AudioAssumption DEF Handles
  <2> QED BY <1>1, <2>1 DEF StopLocked, AudioInv, SoundFollowsHandles, PlaysOpenHandles
<1>2. CASE h \notin Effects
  <2>1. h \in Music /\ h # NoHandle
    BY <1>2, AudioAssumption DEF Handles
  <2> QED BY <1>2, <2>1 DEF StopLocked, AudioInv, SoundFollowsHandles, PlaysOpenHandles, MusicIsCurrent
<1> QED BY <1>1, <1>2

LEMMA AudioStep == AudioInv /\ [AudioNext]_audioVars => AudioInv'
<1> SUFFICES ASSUME AudioInv, [AudioNext]_audioVars PROVE AudioInv'
  OBVIOUS
<1> USE DEF AudioInv, SoundFollowsHandles, PlaysOpenHandles, MusicIsCurrent
<1>1. CASE OpenAttach \/ OpenOwn \/ OpenDevice \/ OpenFails
  <2>1. UNCHANGED <<handles, volume, current_music, channel, music, musicVolume>>
    BY <1>1 DEF OpenAttach, OpenOwn, OpenDevice, OpenFails, mixer
  <2> QED BY <2>1
<1>2. CASE BridgeClose
  <2>1. /\ handles' = {} /\ channel' = Silence /\ UNCHANGED <<volume, musicVolume>>
        /\ music' = NoHandle /\ current_music' = NoHandle
    BY <1>2 DEF BridgeClose
  <2> QED BY <2>1 DEF Silence
<1>3. ASSUME NEW h \in Handles, OpenHandle(h) PROVE AudioInv'
  <2>1. /\ h \notin handles /\ handles' = handles \cup {h} /\ volume' = [volume EXCEPT ![h] = MaxVolume]
        /\ UNCHANGED <<current_music, channel, music, musicVolume>>
    BY <1>3 DEF OpenHandle, mixer
  <2>2. music # NoHandle => volume'[music] = volume[music]
    BY <2>1
  <2> QED BY <2>1, <2>2
<1>4. ASSUME NEW h \in Handles, PlayEffect(h) PROVE AudioInv'
  BY <1>4 DEF PlayEffect
<1>5. ASSUME NEW h \in Handles, PlayMusic(h) PROVE AudioInv'
  BY <1>5 DEF PlayMusic
<1>6. ASSUME NEW h \in Handles, Stop(h) \/ Close(h) PROVE AudioInv'
  <2>1. /\ h \in handles /\ StopLocked(h) /\ UNCHANGED <<volume, musicVolume>>
        /\ handles \ {h} \subseteq handles' /\ handles' \subseteq handles
    BY <1>6 DEF Stop, Close
  <2>2. /\ channel' \in [Channels -> Effects \cup {NoHandle}]
        /\ \A c \in Channels : channel'[c] \in (handles \ {h}) \cup {NoHandle}
        /\ music' \in {music, NoHandle} /\ music' \in (handles \ {h}) \cup {NoHandle}
        /\ current_music' \in {current_music, NoHandle} /\ current_music' \in (handles \ {h}) \cup {NoHandle}
        /\ music' # NoHandle => current_music' = current_music
    BY <2>1, StopLeavesNothing
  <2> QED BY <2>1, <2>2
<1>7. ASSUME NEW h \in Handles, NEW v \in Volumes, SetVolume(h, v) PROVE AudioInv'
  <2> DEFINE new == IF v < 0 THEN 0 ELSE IF v > MaxVolume THEN MaxVolume ELSE v
  <2>1. /\ volume' = [volume EXCEPT ![h] = new] /\ musicVolume' = IF current_music = h THEN new ELSE musicVolume
        /\ UNCHANGED <<handles, current_music, channel, music>>
    BY <1>7 DEF SetVolume
  <2> HIDE DEF new
  <2> QED BY <2>1
<1>8. ASSUME NEW c \in Channels, ChannelEnds(c) PROVE AudioInv'
  BY <1>8 DEF ChannelEnds
<1>9. CASE MusicEnds
  BY <1>9 DEF MusicEnds
<1>10. CASE UNCHANGED audioVars
  BY <1>10 DEF audioVars, mixer
<1> QED BY <1>1, <1>2, <1>3, <1>4, <1>5, <1>6, <1>7, <1>8, <1>9, <1>10 DEF AudioNext

\* audio_bridge.c: for any number of handles and channels, whatever ends by
\* itself, the mixer plays open handles only, and the music that plays is the
\* one stop, close and set_volume find.
THEOREM NothingFreedIsHeard == AudioSpec => []SoundFollowsHandles
<1>1. AudioInit => AudioInv
  BY DEF AudioInit, AudioInv, Silence, SoundFollowsHandles, PlaysOpenHandles, MusicIsCurrent
<1>2. AudioInv => SoundFollowsHandles
  BY DEF AudioInv
<1> QED BY <1>1, <1>2, AudioStep, PTL DEF AudioSpec

LEMMA DeviceStep ==
    ASSUME opened \in Int, inits \in Int, [AudioNext]_audioVars
    PROVE  /\ opened' \in Int /\ inits' \in Int
           /\ opened' - (IF bridge' \in {"owner"} THEN 1 ELSE 0) = opened - (IF bridge \in {"owner"} THEN 1 ELSE 0)
           /\ inits' - (IF bridge' \in {"opening", "owner"} THEN 1 ELSE 0)
                = inits - (IF bridge \in {"opening", "owner"} THEN 1 ELSE 0)
<1>1. CASE OpenAttach
  BY <1>1 DEF OpenAttach
<1>2. CASE OpenOwn
  BY <1>2 DEF OpenOwn
<1>3. CASE OpenDevice
  BY <1>3 DEF OpenDevice
<1>4. CASE OpenFails
  BY <1>4 DEF OpenFails
<1>5. CASE BridgeClose
  BY <1>5 DEF BridgeClose
<1>6. CASE UNCHANGED <<bridge, opened, inits>>
  BY <1>6
<1>7. AudioNext => OpenAttach \/ OpenOwn \/ OpenDevice \/ OpenFails \/ BridgeClose \/ UNCHANGED <<bridge, opened, inits>>
  BY DEF AudioNext, OpenHandle, PlayEffect, PlayMusic, Stop, Close, SetVolume, ChannelEnds, MusicEnds
<1> QED BY <1>1, <1>2, <1>3, <1>4, <1>5, <1>6, <1>7 DEF audioVars

\* audio_bridge.c opens Mix_Init before the device: whichever of them fails,
\* every call it made is undone once, and the program's own are left alone.
THEOREM DeviceIsBalanced == AudioSpec => DeviceBalanced
<1> DEFINE Counts == opened \in Int /\ inits \in Int
           Balanced == /\ opened' - (IF bridge' \in {"owner"} THEN 1 ELSE 0)
                            = opened - (IF bridge \in {"owner"} THEN 1 ELSE 0)
                       /\ inits' - (IF bridge' \in {"opening", "owner"} THEN 1 ELSE 0)
                            = inits - (IF bridge \in {"opening", "owner"} THEN 1 ELSE 0)
<1>1. AudioInit => Counts
  BY DEF AudioInit
<1>2. Counts /\ [AudioNext]_audioVars => Counts' /\ [Balanced]_audioVars
  BY DeviceStep
<1>3. AudioSpec => [][Balanced]_audioVars
  BY <1>1, <1>2, PTL DEF AudioSpec
<1> QED BY <1>3 DEF DeviceBalanced

-----------------------------------------------------------------------------
(* The movie player.  Guest code runs only when no movie plays; a movie    *)
(* that owes a notification has kept the observer and its done flag; and a *)
(* held button was seen by the game unless its release will be swallowed   *)
(* or its press was lost.                                                  *)

Buttons == [held : BOOLEAN, seen : {"up", "down", "stray"}, lost : BOOLEAN]
PressIsKnown == button.held /\ ~swallow => button.seen = "down" \/ button.lost

MovieInv ==
    /\ active \in BOOLEAN /\ done \in BOOLEAN /\ observer \in BOOLEAN /\ owed \in BOOLEAN
    /\ closing \in BOOLEAN /\ swallow \in BOOLEAN /\ game_music \in BOOLEAN
    /\ audio \in BOOLEAN /\ texture \in BOOLEAN
    /\ button \in Buttons /\ NoStrayRelease
    /\ video \in Nat \cup {NoVideo} /\ stack \in Seq(Frames)
    /\ MovieOwnsItsParts
    /\ owed => active /\ done /\ observer
    /\ PressIsKnown

LEMMA Pushed ==
    ASSUME NEW s \in Seq(Frames), NEW f \in Frames
    PROVE  Append(s, f) \in Seq(Frames) /\ Append(s, f) # <<>> /\ Last(Append(s, f)) = f
BY DEF Last

LEMMA Popped ==
    ASSUME NEW s \in Seq(Frames), s # <<>>
    PROVE  Front(s) \in Seq(Frames)
BY DEF Front

\* The loop goes from one of its halves to the other.
LEMMA StillLooping ==
    ASSUME MovieInv, stack # <<>>, NEW half \in {"loop", "pump"}
    PROVE  GoesOn(half) \in Seq(Frames) /\ GoesOn(half) # <<>> /\ Last(GoesOn(half)) = half
<1>1. Front(stack) \in Seq(Frames) /\ half \in Frames
  BY Popped DEF MovieInv, Frames
<1> QED BY <1>1, Pushed DEF GoesOn

\* movie_close: everything is given back, and the observer told if it is owed.
LEMMA CloseKeeps ==
    ASSUME MovieInv, NEW from \in Seq(Frames), from # <<>>, Last(from) \in {"loop", "pump"},
           MovieClose(from), UNCHANGED game_music
    PROVE  /\ active' \in BOOLEAN /\ done' \in BOOLEAN /\ observer' \in BOOLEAN /\ owed' \in BOOLEAN
           /\ closing' \in BOOLEAN /\ audio' \in BOOLEAN /\ texture' \in BOOLEAN
           /\ video' \in Nat \cup {NoVideo} /\ stack' \in Seq(Frames)
           /\ MovieOwnsItsParts'
           /\ owed' => active' /\ done' /\ observer'
<1>1. CASE closing \/ ~active
  <2>1. stack' = from /\ UNCHANGED <<active, video, audio, texture, done, closing, observer, owed>>
    BY <1>1 DEF MovieClose, movie
  <2>2. Looping'
    BY <2>1 DEF Looping
  <2> QED BY <2>1, <2>2 DEF MovieInv, MovieOwnsItsParts
<1>2. CASE ~closing /\ active
  <2>1. /\ active' = FALSE /\ video' = NoVideo /\ audio' = FALSE /\ texture' = FALSE /\ done' = FALSE
        /\ IF done THEN closing' = observer /\ FireMovieFinish(from, "finish")
                   ELSE stack' = from /\ UNCHANGED <<closing, observer, owed>>
    BY <1>2 DEF MovieClose
  <2>2. MovieOwnsItsParts'
    BY <2>1 DEF MovieOwnsItsParts
  <2>3. CASE done
    <3>1. /\ closing' = observer /\ observer' = FALSE /\ owed' = (owed /\ ~observer)
          /\ stack' = IF observer THEN Append(from, "finish") ELSE from
      BY <2>1, <2>3 DEF FireMovieFinish
    <3>2. owed' = FALSE
      BY <3>1 DEF MovieInv
    <3>3. stack' \in Seq(Frames)
      BY <3>1 DEF MovieInv, Frames
    <3>4. closing' \in BOOLEAN
      BY <3>1 DEF MovieInv
    <3> QED BY <2>1, <2>2, <3>1, <3>2, <3>3, <3>4
  <2>4. CASE ~done
    <3>1. stack' = from /\ UNCHANGED <<closing, observer, owed>>
      BY <2>1, <2>4
    <3>2. ~owed
      BY <2>4 DEF MovieInv
    <3> QED BY <2>1, <2>2, <3>1, <3>2 DEF MovieInv
  <2> QED BY <2>3, <2>4
<1> QED BY <1>1, <1>2

\* sword3_host_play_video_file.
LEMMA PlayKeeps ==
    ASSUME MovieInv, NEW notify \in BOOLEAN, PlayVideoFile(notify)
    PROVE  MovieInv'
<1>1. /\ video' \in 0..MaxFrames /\ audio' \in BOOLEAN /\ texture' = FALSE /\ game_music' = FALSE
      /\ done' = notify /\ active' = TRUE /\ owed' = (notify /\ observer) /\ stack' = Append(stack, "pump")
      /\ UNCHANGED <<closing, observer, swallow, button>>
  BY DEF PlayVideoFile
<1>2. stack' \in Seq(Frames) /\ stack' # <<>> /\ Last(stack') = "pump"
  BY <1>1, Pushed DEF MovieInv, Frames
<1>3. video' \in Nat /\ video' # NoVideo
  BY <1>1, BoundsAssumption
<1>4. MovieOwnsItsParts'
  BY <1>1, <1>2, <1>3 DEF MovieOwnsItsParts, NoStrayRelease, PressIsKnown, Looping
<1>5. owed' \in BOOLEAN /\ (owed' => active' /\ done' /\ observer')
  BY <1>1 DEF MovieInv
<1> QED BY <1>1, <1>2, <1>3, <1>4, <1>5 DEF MovieInv, NoStrayRelease, PressIsKnown

LEMMA MovieStep == MovieInv /\ [MovieNext]_movieVars => MovieInv'
<1> SUFFICES ASSUME MovieInv, [MovieNext]_movieVars PROVE MovieInv'
  OBVIOUS
<1>0. Guest => ~active /\ ~owed
  BY DEF Guest, MovieInv, MovieOwnsItsParts
<1>1. CASE SetMovieUrl
  BY <1>1 DEF SetMovieUrl, MovieInv, MovieOwnsItsParts, NoStrayRelease, PressIsKnown, Looping, movie
<1>2. CASE AddObserver
  <2>1. /\ Guest /\ observer' = TRUE /\ UNCHANGED <<active, video, audio, texture, done, closing, game_music>>
        /\ UNCHANGED <<swallow, button, stack, owed>>
    BY <1>2 DEF AddObserver, movie
  <2> QED BY <1>0, <2>1 DEF MovieInv, MovieOwnsItsParts, NoStrayRelease, PressIsKnown, Looping
<1>3. CASE PlayGameMusic \/ StopMusic
  <2>1. /\ Guest /\ game_music' \in BOOLEAN /\ UNCHANGED <<active, video, audio, texture, done, closing>>
        /\ UNCHANGED <<observer, swallow, button, stack, owed>>
    BY <1>3 DEF PlayGameMusic, StopMusic, movie
  <2> QED BY <1>0, <2>1 DEF MovieInv, MovieOwnsItsParts, NoStrayRelease, PressIsKnown, Looping
<1>4. CASE PlayMovie
  BY <1>4, PlayKeeps DEF PlayMovie
<1>5. CASE PlayFails
  <2>1. /\ Guest /\ game_music' \in BOOLEAN /\ UNCHANGED <<active, video, audio, texture, done, closing>>
        /\ UNCHANGED <<swallow, button>> /\ observer' = FALSE /\ owed' = (owed /\ ~observer)
        /\ stack' = IF observer THEN Append(stack, "direct") ELSE stack
    BY <1>5 DEF PlayFails, FireMovieFinish, movie, MovieInv
  <2>2. stack' \in Seq(Frames)
    BY <2>1, Pushed DEF MovieInv, Frames
  <2>3. ~active /\ owed' = FALSE
    BY <1>0, <2>1
  <2>4. MovieOwnsItsParts'
    BY <2>1, <2>3 DEF MovieInv, MovieOwnsItsParts
  <2> QED BY <2>1, <2>2, <2>3, <2>4 DEF MovieInv, NoStrayRelease, PressIsKnown
<1>6. CASE ForceOpening
  <2>1. CASE PlayVideoFile(FALSE)
    BY <2>1, PlayKeeps
  <2>2. CASE UNCHANGED <<movie, closing, game_music, observer, swallow, button, stack, owed>>
    BY <2>2 DEF MovieInv, MovieOwnsItsParts, NoStrayRelease, PressIsKnown, Looping, movie
  <2> QED BY <1>6, <2>1, <2>2 DEF ForceOpening
<1>7. CASE Pause
  <2>1. UNCHANGED <<movie, closing, observer, stack, owed, game_music, swallow, button>>
    BY <1>0, <1>7 DEF Pause
  <2> QED BY <2>1 DEF MovieInv, MovieOwnsItsParts, NoStrayRelease, PressIsKnown, Looping, movie
<1>8. CASE Return
  <2>1. /\ Guest /\ stack # <<>> /\ stack' = Front(stack) /\ closing' = (closing /\ Last(stack) # "finish")
        /\ UNCHANGED <<active, video, audio, texture, done, game_music, observer, swallow, button, owed>>
    BY <1>8 DEF Return, movie, Guest, Looping
  <2>2. stack' \in Seq(Frames) /\ closing' \in BOOLEAN
    BY <2>1, Popped DEF MovieInv
  <2>3. MovieOwnsItsParts'
    BY <1>0, <2>1 DEF MovieInv, MovieOwnsItsParts
  <2> QED BY <2>1, <2>2, <2>3 DEF MovieInv, NoStrayRelease, PressIsKnown
<1>9. CASE SkipEvent
  <2>1. /\ UNCHANGED game_music /\ stack # <<>> /\ Last(stack) = "pump" /\ stack \in Seq(Frames)
        /\ swallow \in BOOLEAN /\ active \in BOOLEAN
    BY <1>9 DEF SkipEvent, Pumping, MovieInv
  <2>2. MovieClose(stack) \/ UNCHANGED <<movie, closing, observer, stack, owed>>
    BY <1>9 DEF SkipEvent, ConsumeSkip
  <2>3. /\ active' \in BOOLEAN /\ done' \in BOOLEAN /\ observer' \in BOOLEAN /\ owed' \in BOOLEAN
        /\ closing' \in BOOLEAN /\ audio' \in BOOLEAN /\ texture' \in BOOLEAN
        /\ video' \in Nat \cup {NoVideo} /\ stack' \in Seq(Frames)
        /\ MovieOwnsItsParts'
        /\ owed' => active' /\ done' /\ observer'
    <3>1. CASE MovieClose(stack)
      BY <2>1, <3>1, CloseKeeps
    <3>2. CASE UNCHANGED <<movie, closing, observer, stack, owed>>
      BY <2>1, <3>2 DEF MovieInv, MovieOwnsItsParts, Looping, movie
    <3> QED BY <2>2, <3>1, <3>2
  <2>4. CASE ~button.held /\ TakePress /\ ConsumeSkip(TRUE)
    <3>1. swallow' = (swallow \/ active)
      BY <2>1, <2>4, Zenon DEF ConsumeSkip
    <3>2. button' \in Buttons /\ button'.seen # "stray" /\ button'.lost = (~swallow /\ ~active)
      BY <2>1, <2>4 DEF TakePress, MovieInv, Buttons
    <3>3. PressIsKnown' /\ swallow' \in BOOLEAN
      BY <2>1, <3>1, <3>2 DEF PressIsKnown
    <3> QED BY <2>1, <2>3, <3>2, <3>3 DEF MovieInv, NoStrayRelease
  <2>5. ASSUME NEW a \in BOOLEAN, ConsumeSkip(a), UNCHANGED button
        PROVE  MovieInv'
    <3>1. swallow' \in BOOLEAN /\ (swallow => swallow')
      BY <2>1, <2>5, Zenon DEF ConsumeSkip
    <3>2. PressIsKnown' /\ NoStrayRelease' /\ button' \in Buttons
      BY <2>5, <3>1 DEF MovieInv, PressIsKnown, NoStrayRelease
    <3> QED BY <2>1, <2>3, <3>1, <3>2 DEF MovieInv
  <2> QED BY <1>9, <2>4, <2>5 DEF SkipEvent
<1>10. CASE ReleaseInLoop
  <2>1. /\ button' = [button EXCEPT !.held = FALSE] /\ swallow' = FALSE
        /\ UNCHANGED <<active, video, audio, texture, done, closing, game_music, observer, stack, owed>>
    BY <1>10 DEF ReleaseInLoop, movie
  <2>2. button' \in Buttons /\ button'.held = FALSE /\ NoStrayRelease'
    BY <2>1 DEF MovieInv, Buttons, NoStrayRelease
  <2> QED BY <2>1, <2>2 DEF MovieInv, MovieOwnsItsParts, Looping, PressIsKnown
<1>11. CASE Tick
  <2>1. /\ active /\ video # 0 /\ UNCHANGED <<game_music, swallow, button>>
        /\ stack # <<>> /\ Last(stack) = "loop" /\ stack \in Seq(Frames)
    BY <1>11 DEF Tick, Ticking, MovieInv
  <2>2. CASE /\ video' = video - 1 /\ texture' = TRUE /\ stack' = GoesOn("pump")
             /\ UNCHANGED <<active, audio, done, closing, observer, owed>>
    <3>1. video \in Nat /\ video' \in Nat /\ video' # NoVideo
      BY <2>1, <2>2, BoundsAssumption DEF MovieInv, MovieOwnsItsParts
    <3>2. stack' \in Seq(Frames) /\ Looping'
      BY <2>1, <2>2, StillLooping DEF Looping
    <3> QED BY <2>1, <2>2, <3>1, <3>2 DEF MovieInv, MovieOwnsItsParts, NoStrayRelease, PressIsKnown
  <2>3. CASE MovieClose(stack)
    BY <2>1, <2>3, CloseKeeps DEF MovieInv, NoStrayRelease, PressIsKnown
  <2> QED BY <1>11, <2>2, <2>3 DEF Tick
<1>12. CASE Finished
  <2>1. /\ MovieClose(stack) /\ UNCHANGED <<game_music, swallow, button>>
        /\ stack # <<>> /\ Last(stack) = "loop" /\ stack \in Seq(Frames)
    BY <1>12 DEF Finished, Ticking, MovieInv
  <2> QED BY <2>1, CloseKeeps DEF MovieInv, NoStrayRelease, PressIsKnown
<1>13. CASE LoopEnds
  <2>1. /\ ~active /\ stack # <<>> /\ stack' = Front(stack)
        /\ UNCHANGED <<active, video, audio, texture, done, closing, game_music, observer, swallow, button, owed>>
    BY <1>13 DEF LoopEnds, movie, Ticking
  <2>2. stack' \in Seq(Frames)
    BY <2>1, Popped DEF MovieInv
  <2>3. MovieOwnsItsParts'
    BY <2>1 DEF MovieInv, MovieOwnsItsParts
  <2> QED BY <2>1, <2>2, <2>3 DEF MovieInv, NoStrayRelease, PressIsKnown
<1>14. CASE GameButton
  <2>1. UNCHANGED <<active, video, audio, texture, done, closing, game_music, observer, stack, owed>>
    BY <1>14 DEF GameButton, movie
  <2>2. /\ button.held \in BOOLEAN /\ button.lost \in BOOLEAN /\ swallow \in BOOLEAN /\ ~active
        /\ button \in Buttons /\ NoStrayRelease /\ PressIsKnown
    BY <1>0, <1>14 DEF GameButton, MovieInv, Buttons
  <2>3. swallow' = (swallow /\ ~button.held)
    BY <1>14 DEF GameButton
  <2>4. ASSUME button.held
        PROVE  button' \in Buttons /\ NoStrayRelease' /\ PressIsKnown'
    <3>1. button' = [button EXCEPT !.held = FALSE,
                        !.seen = IF swallow THEN @ ELSE IF @ = "down" THEN "up" ELSE "stray"]
      BY <1>14, <2>4 DEF GameButton
    <3>2. button' \in Buttons /\ button'.held = FALSE /\ button'.lost = button.lost
      BY <2>2, <3>1 DEF Buttons
    <3>3. NoStrayRelease'
      BY <2>2, <2>4, <3>1, <3>2 DEF Buttons, NoStrayRelease, PressIsKnown
    <3> QED BY <3>2, <3>3 DEF PressIsKnown
  <2>5. ASSUME ~button.held, swallow
        PROVE  button' \in Buttons /\ NoStrayRelease' /\ PressIsKnown'
    <3>1. TakePress /\ swallow' = TRUE
      BY <1>14, <2>2, <2>3, <2>5 DEF GameButton
    <3>2. button' \in Buttons /\ button'.seen # "stray"
      BY <2>2, <3>1 DEF TakePress, Buttons
    <3> QED BY <3>1, <3>2 DEF PressIsKnown, NoStrayRelease
  <2>6. ASSUME ~button.held, ~swallow
        PROVE  button' \in Buttons /\ NoStrayRelease' /\ PressIsKnown'
    <3>1. button' = [held |-> TRUE, seen |-> "down", lost |-> FALSE]
      BY <1>14, <2>6 DEF GameButton
    <3> QED BY <3>1 DEF PressIsKnown, NoStrayRelease, Buttons
  <2>7. button' \in Buttons /\ NoStrayRelease' /\ PressIsKnown'
    BY <2>2, <2>4, <2>5, <2>6
  <2>8. MovieOwnsItsParts' /\ swallow' \in BOOLEAN
    BY <2>1, <2>2, <2>3 DEF MovieInv, MovieOwnsItsParts, Looping
  <2> QED BY <2>1, <2>7, <2>8 DEF MovieInv
<1>16. CASE QuitEvent
  <2>1. /\ MovieClose(GoesOn("loop")) /\ UNCHANGED <<game_music, swallow, button>> /\ stack # <<>>
    BY <1>16 DEF QuitEvent, Pumping
  <2>2. GoesOn("loop") \in Seq(Frames) /\ GoesOn("loop") # <<>> /\ Last(GoesOn("loop")) = "loop"
    BY <2>1, StillLooping
  <2> QED BY <2>1, <2>2, CloseKeeps DEF MovieInv, NoStrayRelease, PressIsKnown
<1>17. CASE PumpEnds
  <2>1. /\ stack # <<>> /\ stack' = GoesOn("loop")
        /\ UNCHANGED <<active, video, audio, texture, done, closing, game_music, observer, swallow, button, owed>>
    BY <1>17 DEF PumpEnds, Pumping, movie
  <2>2. stack' \in Seq(Frames) /\ Looping'
    BY <2>1, StillLooping DEF Looping
  <2> QED BY <2>1, <2>2 DEF MovieInv, MovieOwnsItsParts, NoStrayRelease, PressIsKnown
<1>15. CASE UNCHANGED movieVars
  BY <1>15 DEF MovieInv, MovieOwnsItsParts, NoStrayRelease, PressIsKnown, Looping, movie, movieVars
<1> QED BY <1>1, <1>2, <1>3, <1>4, <1>5, <1>6, <1>7, <1>8, <1>9, <1>10, <1>11, <1>12, <1>13,
           <1>14, <1>15, <1>16, <1>17 DEF MovieNext

\* sdl_bridge.c's movie_close and what calls it: however a movie ends, and
\* however deep the guest's callbacks nest, it leaves no resource, no waiting
\* guest and no half of the press that skipped it; only a press that was pumped
\* behind the event that ended the movie is lost.
THEOREM MoviesLeaveNothing == MovieSpec => []MovieLeavesNothing
<1>1. MovieInit => MovieInv
  <2> SUFFICES ASSUME MovieInit PROVE MovieInv
    OBVIOUS
  <2>1. button \in Buttons /\ button.held = FALSE /\ NoStrayRelease
    BY DEF MovieInit, Buttons, NoStrayRelease
  <2>2. stack \in Seq(Frames) /\ video = NoVideo
    BY DEF MovieInit
  <2>3. MovieOwnsItsParts
    BY DEF MovieInit, MovieOwnsItsParts
  <2> QED BY <2>1, <2>2, <2>3 DEF MovieInit, MovieInv, PressIsKnown
<1>2. MovieInv => MovieLeavesNothing
  BY DEF MovieInv, MovieLeavesNothing, MovieOwnsItsParts, ObserverIsTold, NoStrayRelease
<1> QED BY <1>1, <1>2, MovieStep, PTL DEF MovieSpec

-----------------------------------------------------------------------------
(* The video bridge.  The decoder is told to drain only after the file has *)
(* been read to its end and nothing is pending.                            *)

VideoTypes ==
    /\ file \in Seq(Packets) /\ position \in 0..Len(file) /\ start_time \in Int \cup {NoPts}
    /\ decoder \in Seq(Packets) /\ out \in Seq(Packets) /\ packet \in Packets
    /\ packet_pending \in BOOLEAN /\ demux_eof \in BOOLEAN /\ draining \in BOOLEAN
    /\ first_pts \in Int \cup {NoPts} /\ last_pts \in Int /\ next_pts \in Int
    /\ have_output_pts \in BOOLEAN
TakenInOrder ==
    /\ Len(Taken) = VideoPackets(position)
    /\ \A i \in 1..position : file[i].video => Taken[VideoPackets(i)] = file[i]
VideoInv ==
    /\ VideoTypes
    /\ calling => status = "PLAYING"
    /\ demux_eof => position = Len(file)
    /\ draining => demux_eof /\ ~packet_pending
    /\ status # "ERROR" => TakenInOrder
    /\ status = "COMPLETE" => position = Len(file) /\ Taken = out
    /\ BufferFits

LEMMA TakenIsSeq ==
    ASSUME VideoTypes
    PROVE  /\ Taken \in Seq(Packets) /\ out \o decoder \in Seq(Packets)
           /\ ~packet_pending => Taken = out \o decoder
           /\ packet_pending => Taken = (out \o decoder) \o <<packet>>
<1>1. out \o decoder \in Seq(Packets)
  BY ConcatProperties DEF VideoTypes
<1>2. CASE packet_pending
  <2>1. Taken = (out \o decoder) \o <<packet>> /\ <<packet>> \in Seq(Packets)
    BY <1>2 DEF Taken, VideoTypes
  <2> QED BY <1>1, <1>2, <2>1, ConcatProperties
<1>3. CASE ~packet_pending
  <2>1. Taken = (out \o decoder) \o <<>>
    BY <1>3 DEF Taken
  <2> QED BY <1>1, <1>3, <2>1, ConcatEmptySeq
<1> QED BY <1>2, <1>3 DEF VideoTypes

LEMMA HandOver ==
    ASSUME NEW o \in Seq(Packets), NEW d \in Seq(Packets), d # <<>>
    PROVE  Append(o, Head(d)) \o Tail(d) = o \o d
<1> DEFINE a == Append(o, Head(d))
<1>1. /\ Head(d) \in Packets /\ Tail(d) \in Seq(Packets) /\ Len(Tail(d)) = Len(d) - 1
      /\ \A i \in 1..Len(Tail(d)) : Tail(d)[i] = d[i + 1]
  BY HeadTailProperties
<1>2. Len(d) \in Nat \ {0} /\ Len(o) \in Nat /\ Head(d) = d[1]
  BY EmptySeq
<1>3. a \in Seq(Packets) /\ Len(a) = Len(o) + 1 /\ \A i \in 1..(Len(o) + 1) : a[i] = IF i <= Len(o) THEN o[i] ELSE Head(d)
  BY <1>1, <1>2
<1> HIDE DEF a
<1> DEFINE t == Tail(d)
           p == a \o t
           q == o \o d
<1>4. p \in Seq(Packets) /\ Len(p) = Len(a) + Len(t) /\ \A i \in 1..(Len(a) + Len(t)) :
         p[i] = IF i <= Len(a) THEN a[i] ELSE t[i - Len(a)]
  BY <1>1, <1>3, ConcatProperties
<1>5. q \in Seq(Packets) /\ Len(q) = Len(o) + Len(d) /\ \A i \in 1..(Len(o) + Len(d)) :
         q[i] = IF i <= Len(o) THEN o[i] ELSE d[i - Len(o)]
  BY ConcatProperties
<1>6. t \in Seq(Packets) /\ Len(t) = Len(d) - 1 /\ \A i \in 1..Len(t) : t[i] = d[i + 1]
  BY <1>1
<1> HIDE DEF t, p, q
<1>7. Len(p) = Len(q)
  BY <1>2, <1>3, <1>4, <1>5, <1>6
<1>8. ASSUME NEW i \in 1..Len(p) PROVE p[i] = q[i]
  <2>1. CASE i <= Len(o)
    <3>0. i <= Len(a) /\ i \in 1..(Len(o) + 1) /\ i \in 1..(Len(a) + Len(t))
      BY <1>2, <1>3, <1>4, <1>6, <2>1
    <3>1. p[i] = a[i] /\ i \in 1..(Len(o) + 1)
      BY <1>4, <3>0
    <3>2. a[i] = o[i]
      BY <1>3, <2>1, <3>1
    <3>3. q[i] = o[i]
      BY <1>2, <1>4, <1>5, <1>7, <2>1
    <3> QED BY <3>1, <3>2, <3>3
  <2>2. CASE i = Len(o) + 1
    BY <1>2, <1>3, <1>4, <1>5, <1>6, <2>2
  <2>3. CASE i > Len(o) + 1
    <3>0. ~(i <= Len(a)) /\ i \in 1..(Len(a) + Len(t)) /\ i - Len(a) = i - (Len(o) + 1) /\ i - (Len(o) + 1) \in 1..Len(t)
      BY <1>2, <1>3, <1>4, <1>6, <2>3
    <3>1. p[i] = t[i - (Len(o) + 1)] /\ i - (Len(o) + 1) \in 1..Len(t)
      BY <1>4, <3>0
    <3>2. t[i - (Len(o) + 1)] = d[i - Len(o)]
      <4>1. t[i - (Len(o) + 1)] = d[(i - (Len(o) + 1)) + 1]
        BY <1>6, <3>1
      <4>2. (i - (Len(o) + 1)) + 1 = i - Len(o)
        BY <1>2, <1>4
      <4> QED BY <4>1, <4>2
    <3> QED BY <1>2, <1>4, <1>5, <1>7, <2>3, <3>1, <3>2
  <2> QED BY <1>2, <1>4, <1>6, <1>3, <2>1, <2>2, <2>3
<1>9. p = q
  BY <1>4, <1>5, <1>7, <1>8, SeqEqual
<1> QED BY <1>9 DEF a, t, p, q

LEMMA SendOn ==
    ASSUME NEW o \in Seq(Packets), NEW d \in Seq(Packets), NEW p \in Packets
    PROVE  o \o Append(d, p) = (o \o d) \o <<p>>
<1>1. Append(d, p) = d \o <<p>> /\ <<p>> \in Seq(Packets)
  OBVIOUS
<1> QED BY <1>1, ConcatAssociative

\* How many video packets there are among the first n.
LEMMA Counted ==
    ASSUME file \in Seq(Packets), NEW n \in 0..Len(file)
    PROVE  /\ VideoPackets(n) \in Nat /\ VideoPackets(0) = 0
           /\ \A i \in 1..n : file[i].video => VideoPackets(i) \in 1..VideoPackets(n)
           /\ n < Len(file) => VideoPackets(n + 1) = VideoPackets(n) + IF file[n + 1].video THEN 1 ELSE 0
<1> DEFINE V(k) == {i \in 1..k : file[i].video}
<1>0. Len(file) \in Nat
  OBVIOUS
<1>1. ASSUME NEW k \in 0..Len(file) PROVE IsFiniteSet(V(k)) /\ Cardinality(V(k)) \in Nat
  <2>1. IsFiniteSet(1..k)
    BY <1>0, FS_Interval
  <2>2. V(k) \in SUBSET (1..k)
    OBVIOUS
  <2> HIDE DEF V
  <2>3. IsFiniteSet(V(k))
    BY <2>1, <2>2, FS_Subset
  <2> QED BY <2>3, FS_CardinalityType
<1>2. \A k : VideoPackets(k) = Cardinality(V(k))
  BY DEF VideoPackets
<1>3. VideoPackets(0) = 0
  <2>1. V(0) = {}
    OBVIOUS
  <2> QED BY <1>2, <2>1, FS_EmptySet
<1>4. ASSUME NEW i \in 1..n, file[i].video PROVE VideoPackets(i) \in 1..VideoPackets(n)
  <2>1. V(i) \in SUBSET V(n) /\ i \in V(i) /\ i \in 0..Len(file)
    BY <1>0, <1>4
  <2> HIDE DEF V
  <2>2. Cardinality(V(i)) <= Cardinality(V(n))
    BY <1>1, <2>1, FS_Subset
  <2>3. Cardinality(V(i)) # 0
    BY <1>1, <2>1, FS_EmptySet
  <2> QED BY <1>1, <1>2, <2>1, <2>2, <2>3
<1>5. ASSUME n < Len(file)
      PROVE  VideoPackets(n + 1) = VideoPackets(n) + IF file[n + 1].video THEN 1 ELSE 0
  <2>1. V(n + 1) = IF file[n + 1].video THEN V(n) \cup {n + 1} ELSE V(n)
    BY <1>0, <1>5
  <2>2. n + 1 \notin V(n)
    BY <1>0
  <2> HIDE DEF V
  <2>3. IsFiniteSet(V(n)) /\ Cardinality(V(n)) \in Nat
    BY <1>1
  <2>4. Cardinality(V(n) \cup {n + 1}) = Cardinality(V(n)) + 1
    BY <2>2, <2>3, FS_AddElement
  <2> QED BY <1>2, <2>1, <2>3, <2>4
<1> QED BY <1>1, <1>2, <1>3, <1>4, <1>5

LEMMA SameTaken ==
    ASSUME TakenInOrder, Taken' = Taken, UNCHANGED <<file, position>>
    PROVE  TakenInOrder'
BY DEF TakenInOrder, VideoPackets

\* frame_pts_seconds.
LEMMA PtsGoOn ==
    ASSUME VideoTypes, NEW pts \in Int \cup {NoPts}
    PROVE  /\ FramePts(pts) \in Int /\ (have_output_pts => FramePts(pts) >= last_pts)
           /\ pts # NoPts => Origin(pts) \in Int
<1> DEFINE raw == IF pts = NoPts THEN (IF have_output_pts THEN next_pts ELSE 0) ELSE pts - Origin(pts)
<1>1. pts # NoPts => Origin(pts) \in Int
  BY VideoAssumption DEF VideoTypes, Origin
<1>2. raw \in Int
  BY <1>1 DEF VideoTypes
<1>3. FramePts(pts) = IF have_output_pts /\ raw < last_pts THEN last_pts
                      ELSE IF ~have_output_pts /\ raw < 0 THEN 0 ELSE raw
  BY DEF FramePts
<1> HIDE DEF raw
<1> QED BY <1>1, <1>2, <1>3 DEF VideoTypes

LEMMA FrameGoesOut ==
    ASSUME VideoInv, OutputFrame
    PROVE  VideoInv' /\ (have_output_pts => last_pts' >= last_pts)
<1>1. /\ calling /\ decoder # <<>> /\ decoder' = Tail(decoder) /\ out' = Append(out, Head(decoder))
      /\ PrepareRgba(Head(decoder).size) /\ Timestamp(Head(decoder).pts) /\ calling' = FALSE
      /\ UNCHANGED <<file, start_time, position, draining, packet, packet_pending, demux_eof, status>>
  BY DEF OutputFrame, HasFrame, demuxer, flags
<1>2. VideoTypes /\ status = "PLAYING" /\ TakenInOrder /\ rgba = rgba_size
  BY <1>1 DEF VideoInv, BufferFits
<1>3. Head(decoder) \in Packets /\ Tail(decoder) \in Seq(Packets) /\ Append(out, Head(decoder)) \in Seq(Packets)
  BY <1>1, <1>2, HeadTailProperties DEF VideoTypes
<1>4. Head(decoder).pts \in Int \cup {NoPts}
  BY <1>3 DEF Packets
<1> DEFINE pts == Head(decoder).pts
<1>5. /\ FramePts(pts) \in Int /\ (have_output_pts => FramePts(pts) >= last_pts)
      /\ pts # NoPts => Origin(pts) \in Int
  BY <1>2, <1>4, PtsGoOn
<1>6. /\ last_pts' = FramePts(pts) /\ next_pts' = FramePts(pts) + Duration /\ have_output_pts' = TRUE
      /\ first_pts' = IF pts # NoPts /\ start_time = NoPts THEN Origin(pts) ELSE first_pts
  BY <1>1 DEF Timestamp
<1> HIDE DEF pts
<1>7. first_pts' \in Int \cup {NoPts} /\ last_pts' \in Int /\ next_pts' \in Int
  BY <1>2, <1>5, <1>6, VideoAssumption DEF VideoTypes
<1>8. VideoTypes'
  BY <1>1, <1>2, <1>3, <1>6, <1>7 DEF VideoTypes
<1>9. out' \o decoder' = out \o decoder
  BY <1>1, <1>2, HandOver DEF VideoTypes
<1>10. Taken' = Taken
  BY <1>1, <1>9 DEF Taken
<1>11. TakenInOrder'
  BY <1>1, <1>2, <1>10, SameTaken
<1>12. BufferFits'
  BY <1>1, <1>2 DEF BufferFits, PrepareRgba
<1> QED BY <1>1, <1>2, <1>5, <1>6, <1>8, <1>11, <1>12 DEF VideoInv

LEMMA PacketIsRead ==
    ASSUME VideoInv, Read
    PROVE  VideoInv'
<1>1. /\ calling /\ ~packet_pending /\ ~demux_eof
      /\ UNCHANGED <<file, start_time, decoder, draining, status, rgba, rgba_size, calling, out>>
      /\ UNCHANGED <<first_pts, last_pts, next_pts, have_output_pts>>
  BY DEF Read, times
<1>2. VideoTypes /\ status = "PLAYING" /\ TakenInOrder /\ rgba = rgba_size /\ ~draining
  BY <1>1 DEF VideoInv, BufferFits
<1>3. position \in 0..Len(file) /\ Len(file) \in Nat /\ file \in Seq(Packets)
  BY <1>2 DEF VideoTypes
<1>4. Taken = out \o decoder /\ Taken \in Seq(Packets)
  BY <1>1, <1>2, TakenIsSeq
<1>5. BufferFits'
  BY <1>1, <1>2 DEF BufferFits
<1>6. CASE position = Len(file)
  <2>1. demux_eof' = TRUE /\ UNCHANGED <<position, packet, packet_pending>>
    BY <1>6 DEF Read
  <2>2. Taken' = Taken
    BY <1>1, <2>1 DEF Taken
  <2>3. TakenInOrder'
    BY <1>1, <1>2, <2>1, <2>2, SameTaken
  <2>4. VideoTypes'
    BY <1>1, <1>2, <2>1 DEF VideoTypes
  <2> QED BY <1>1, <1>2, <1>5, <1>6, <2>1, <2>3, <2>4 DEF VideoInv
<1>7. CASE position # Len(file)
  <2> DEFINE p == file[position + 1]
  <2>1. /\ position' = position + 1 /\ packet' = p /\ packet_pending' = p.video /\ UNCHANGED demux_eof
    BY <1>7 DEF Read
  <2>2. position + 1 \in 1..Len(file) /\ position < Len(file)
    BY <1>3, <1>7
  <2>3. p \in Packets /\ p.video \in BOOLEAN
    <3>1. p \in Packets
      BY <1>3, <2>2, ElementOfSeq
    <3> QED BY <3>1 DEF Packets
  <2> HIDE DEF p
  <2>4. VideoTypes'
    BY <1>1, <1>2, <1>3, <2>1, <2>2, <2>3 DEF VideoTypes
  <2>5. /\ VideoPackets(position) \in Nat
        /\ \A i \in 1..position : file[i].video => VideoPackets(i) \in 1..VideoPackets(position)
        /\ VideoPackets(position + 1) = VideoPackets(position) + IF p.video THEN 1 ELSE 0
    BY <1>3, <2>2, Counted DEF p
  <2>6. \A i : VideoPackets(i)' = VideoPackets(i)
    BY <1>1 DEF VideoPackets
  <2>6a. VideoPackets(position)' = VideoPackets(position + 1)
    BY <1>1, <2>1 DEF VideoPackets
  <2>7. CASE p.video
    <3>1. Taken' = Taken \o <<p>>
      <4>1. Taken' = (out' \o decoder') \o <<packet'>>
        BY <2>1, <2>7 DEF Taken
      <4> QED BY <1>1, <1>4, <2>1, <4>1
    <3>2. /\ Len(Taken') = Len(Taken) + 1 /\ Taken'[Len(Taken) + 1] = p
          /\ \A j \in 1..Len(Taken) : Taken'[j] = Taken[j]
      <4>1. <<p>> \in Seq(Packets) /\ Len(<<p>>) = 1 /\ <<p>>[1] = p /\ Len(Taken) \in Nat
        BY <1>4, <2>3
      <4> DEFINE tk == Taken
                 one == <<p>>
      <4>2. tk \in Seq(Packets) /\ one \in Seq(Packets) /\ Taken' = tk \o one /\ Len(one) = 1 /\ one[1] = p /\ Len(tk) \in Nat
        BY <1>4, <3>1, <4>1
      <4> HIDE DEF tk, one
      <4>3. /\ Len(tk \o one) = Len(tk) + 1
            /\ \A j \in 1..(Len(tk) + 1) : (tk \o one)[j] = IF j <= Len(tk) THEN tk[j] ELSE one[j - Len(tk)]
        <5>1. tk \in Seq(Packets) /\ one \in Seq(Packets)
          BY <4>2
        <5>2. /\ Len(tk \o one) = Len(tk) + Len(one)
              /\ \A j \in 1..(Len(tk) + Len(one)) : (tk \o one)[j] = IF j <= Len(tk) THEN tk[j] ELSE one[j - Len(tk)]
          BY <5>1, ConcatProperties
        <5> QED BY <4>2, <5>2
      <4>4. (tk \o one)[Len(tk) + 1] = p
        BY <4>2, <4>3
      <4>5. \A j \in 1..Len(tk) : (tk \o one)[j] = tk[j]
        BY <4>2, <4>3
      <4> QED BY <4>2, <4>3, <4>4, <4>5 DEF tk
    <3>3. Len(Taken) = VideoPackets(position)
      BY <1>2 DEF TakenInOrder
    <3>4. Len(Taken') = VideoPackets(position)'
      BY <2>5, <2>7, <2>6a, <3>2, <3>3
    <3>5. ASSUME NEW i \in 1..position', file'[i].video PROVE Taken'[VideoPackets(i)'] = file'[i]
      <4>1. CASE i = position + 1
        <5>1. VideoPackets(i)' = Len(Taken) + 1
          BY <2>5, <2>6, <2>7, <3>3, <4>1
        <5> QED BY <1>1, <3>2, <4>1, <5>1 DEF p
      <4>2. CASE i # position + 1
        <5>1. i \in 1..position /\ file[i].video
          BY <1>1, <1>3, <2>1, <3>5, <4>2
        <5>2. VideoPackets(i) \in 1..Len(Taken) /\ Taken[VideoPackets(i)] = file[i]
          BY <1>2, <2>5, <3>3, <5>1 DEF TakenInOrder
        <5> QED BY <1>1, <2>6, <3>2, <5>2
      <4> QED BY <4>1, <4>2
    <3>6. TakenInOrder'
      BY <3>4, <3>5 DEF TakenInOrder
    <3> QED BY <1>1, <1>2, <1>5, <2>1, <2>4, <3>6 DEF VideoInv
  <2>8. CASE ~p.video
    <3>1. Taken' = Taken
      <4>1. VideoTypes' /\ ~packet_pending'
        BY <2>1, <2>4, <2>8
      <4>2. Taken' = (out' \o decoder') \o <<>>
        BY <2>1, <2>8 DEF Taken
      <4> QED BY <1>1, <1>4, <4>2, ConcatEmptySeq
    <3>2. Len(Taken') = VideoPackets(position)'
      BY <1>2, <2>5, <2>8, <2>6a, <3>1 DEF TakenInOrder
    <3>3. ASSUME NEW i \in 1..position', file'[i].video PROVE Taken'[VideoPackets(i)'] = file'[i]
      <4>1. i # position + 1
        BY <1>1, <2>8, <3>3 DEF p
      <4>2. i \in 1..position /\ file[i].video
        BY <1>1, <1>3, <2>1, <3>3, <4>1
      <4> QED BY <1>1, <1>2, <2>6, <3>1, <4>2 DEF TakenInOrder
    <3>4. TakenInOrder'
      BY <3>2, <3>3 DEF TakenInOrder
    <3> QED BY <1>1, <1>2, <1>5, <2>1, <2>4, <3>4 DEF VideoInv
  <2> QED BY <2>7, <2>8
<1> QED BY <1>6, <1>7

\* avcodec_send_packet: what was pending is now the decoder's.
LEMMA PacketIsSent ==
    ASSUME VideoInv, SendPacket
    PROVE  VideoInv'
<1>1. /\ calling /\ packet_pending /\ decoder' = Append(decoder, packet) /\ packet_pending' = FALSE
      /\ UNCHANGED <<file, start_time, position, draining, packet, demux_eof, status, rgba, rgba_size, calling, out>>
      /\ UNCHANGED <<first_pts, last_pts, next_pts, have_output_pts>>
  BY DEF SendPacket, demuxer, times
<1>2. VideoTypes /\ status = "PLAYING" /\ TakenInOrder /\ rgba = rgba_size /\ ~draining
  BY <1>1 DEF VideoInv, BufferFits
<1>3. VideoTypes'
  <2>1. decoder' \in Seq(Packets)
    BY <1>1, <1>2 DEF VideoTypes
  <2> QED BY <1>1, <1>2, <2>1 DEF VideoTypes
<1>4. Taken = (out \o decoder) \o <<packet>>
  BY <1>1, <1>2, TakenIsSeq
<1>5. Taken' = out' \o decoder'
  <2>1. Taken' = (out' \o decoder') \o <<>> /\ out' \in Seq(Packets) /\ decoder' \in Seq(Packets)
    BY <1>1, <1>3 DEF Taken, VideoTypes
  <2> QED BY <2>1, ConcatProperties, ConcatEmptySeq
<1>6. out' \o decoder' = (out \o decoder) \o <<packet>>
  BY <1>1, <1>2, SendOn DEF VideoTypes
<1>7. TakenInOrder'
  BY <1>1, <1>2, <1>4, <1>5, <1>6, SameTaken
<1> QED BY <1>1, <1>2, <1>3, <1>7 DEF VideoInv, BufferFits

LEMMA VideoStep ==
    ASSUME VideoInv, [VideoNext]_videoVars
    PROVE  VideoInv' /\ (have_output_pts => last_pts' >= last_pts)
<1>0. VideoTypes /\ (last_pts' = last_pts => last_pts' >= last_pts)
  BY DEF VideoInv, VideoTypes
<1>1. CASE OutputFrame
  BY <1>1, FrameGoesOut
<1>2. CASE Read
  BY <1>0, <1>2, PacketIsRead DEF Read, times
<1>3. CASE SendPacket
  BY <1>0, <1>3, PacketIsSent DEF SendPacket, times
<1>4. CASE ConversionFails
  <2>1. /\ decoder # <<>> /\ decoder' = Tail(decoder) /\ status' = "ERROR" /\ calling' = FALSE
        /\ UNCHANGED <<file, start_time, position, draining, packet, packet_pending, demux_eof, out>>
        /\ UNCHANGED <<first_pts, last_pts, next_pts, have_output_pts>>
    BY <1>4 DEF ConversionFails, HasFrame, demuxer, flags, times
  <2>2. VideoTypes'
    BY <1>0, <2>1, HeadTailProperties DEF VideoTypes
  <2> QED BY <1>0, <2>1, <2>2 DEF VideoInv, BufferFits
<1>5. CASE Drain \/ NextFrame \/ VideoFinished \/ CallFails \/ Skip \/ UNCHANGED videoVars
  <2>1. /\ UNCHANGED <<file, start_time, position, decoder, packet, packet_pending, demux_eof, out>>
        /\ UNCHANGED <<first_pts, last_pts, next_pts, have_output_pts, rgba, rgba_size>>
    BY <1>5 DEF Drain, NextFrame, VideoFinished, CallFails, Fail, Skip, videoVars, demuxer, flags, times
  <2>2. /\ draining' = draining \/ (draining' = TRUE /\ demux_eof /\ ~packet_pending)
        /\ calling' => status' = "PLAYING"
        /\ status = "ERROR" => status' = "ERROR"
        /\ status' = "COMPLETE" => status = "COMPLETE" \/ (draining /\ decoder = <<>>)
    <3>1. CASE Drain \/ NextFrame \/ Skip
      BY <3>1 DEF Drain, NextFrame, Skip, VideoInv
    <3>2. CASE VideoFinished \/ CallFails
      BY <3>2 DEF VideoFinished, CallFails, Fail, IsEmpty, VideoInv
    <3>3. CASE UNCHANGED videoVars
      BY <3>3 DEF videoVars, VideoInv
    <3> QED BY <1>5, <3>1, <3>2, <3>3
  <2>3. VideoTypes'
    BY <1>0, <2>1, <2>2 DEF VideoTypes
  <2>4. Taken' = Taken
    BY <2>1 DEF Taken
  <2>5. status' # "ERROR" => TakenInOrder'
    BY <2>1, <2>2, <2>4, SameTaken DEF VideoInv
  <2>6. ASSUME status' = "COMPLETE" PROVE position' = Len(file') /\ Taken' = out'
    <3>1. CASE status = "COMPLETE"
      BY <2>1, <2>4, <3>1 DEF VideoInv
    <3>2. CASE draining /\ decoder = <<>>
      <4>1. position = Len(file) /\ ~packet_pending
        BY <3>2 DEF VideoInv
      <4>2. Taken = out
        BY <1>0, <3>2, <4>1, TakenIsSeq, ConcatEmptySeq DEF VideoTypes
      <4> QED BY <2>1, <2>4, <4>1, <4>2
    <3> QED BY <2>2, <2>6, <3>1, <3>2
  <2>7. BufferFits'
    BY <2>1, <2>2 DEF VideoInv, BufferFits
  <2> QED BY <1>0, <2>1, <2>2, <2>3, <2>5, <2>6, <2>7 DEF VideoInv
<1> QED BY <1>1, <1>2, <1>3, <1>4, <1>5 DEF VideoNext, Loop

LEMMA VideoInitial == VideoInit => VideoInv
<1> SUFFICES ASSUME VideoInit PROVE VideoInv
  OBVIOUS
<1>1. VideoTypes
  <2>1. NoPacket \in Packets
    BY DEF NoPacket, Packet, Packets
  <2>2. file \in Seq(Packets) /\ start_time \in Int \cup {NoPts}
    BY VideoAssumption DEF VideoInit
  <2>3. position \in 0..Len(file)
    BY <2>2 DEF VideoInit
  <2>4. <<>> \in Seq(Packets)
    BY EmptySeq
  <2>5. /\ decoder = <<>> /\ out = <<>> /\ packet = NoPacket /\ ~packet_pending /\ ~demux_eof /\ ~draining
        /\ first_pts = NoPts /\ last_pts = 0 /\ next_pts = 0
        /\ packet_pending \in BOOLEAN /\ demux_eof \in BOOLEAN /\ draining \in BOOLEAN /\ have_output_pts \in BOOLEAN
    BY DEF VideoInit
  <2> QED BY <2>1, <2>2, <2>3, <2>4, <2>5 DEF VideoTypes
<1>2. Taken = <<>>
  BY <1>1, TakenIsSeq, ConcatEmptySeq DEF VideoInit, VideoTypes
<1>3. TakenInOrder
  BY <1>1, <1>2, Counted DEF VideoInit, TakenInOrder, VideoTypes
<1> QED BY <1>1, <1>3 DEF VideoInit, VideoInv, BufferFits

\* video_bridge.c, sword3_video_next_frame: for every file, every delay of the
\* decoder and every failure, the frames that are returned are those of the
\* video stream in their order, each in a buffer of its size.
THEOREM EveryFrameArrives == VideoSpec => []FramesArrive
<1>1. VideoInv /\ [VideoNext]_videoVars => VideoInv'
  BY VideoStep
<1>2. VideoInv => FramesArrive
  BY DEF VideoInv, FramesArrive, NothingLost, TakenInOrder
<1> QED BY <1>1, <1>2, VideoInitial, PTL DEF VideoSpec

\* frame_pts_seconds: the time stamps handed out never go back, for any time
\* stamps in the file, missing and malformed ones included.
THEOREM TimeGoesOn == VideoSpec => PtsNeverDecreases
<1>1. VideoInv /\ [VideoNext]_videoVars => VideoInv' /\ [have_output_pts => last_pts' >= last_pts]_videoVars
  BY VideoStep
<1> QED BY <1>1, VideoInitial, PTL DEF VideoSpec, PtsNeverDecreases

-----------------------------------------------------------------------------
(* The composition.                                                        *)

LEMMA ComposedOfThree == Spec => VideoSpec /\ AudioSpec /\ MovieSpec
<1>1. Init => VideoInit /\ AudioInit /\ MovieInit
  BY DEF Init
<1>2. [Next]_vars => [VideoNext]_videoVars /\ [AudioNext]_audioVars /\ [MovieNext]_movieVars
  BY Zenon DEF Next, vars
<1> QED BY <1>1, <1>2, PTL DEF Spec, VideoSpec, AudioSpec, MovieSpec

\* What the game sees and hears of video_bridge.c, audio_bridge.c and the movie
\* player, with every state of each, and what no step of them may do.
THEOREM MediaSafe ==
    Spec => [](FramesArrive /\ SoundFollowsHandles /\ MovieLeavesNothing) /\ StepsBalance
BY ComposedOfThree, EveryFrameArrives, NothingFreedIsHeard, MoviesLeaveNothing,
   TimeGoesOn, DeviceIsBalanced, PTL DEF StepsBalance
=============================================================================
