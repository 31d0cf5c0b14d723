--------------------------- MODULE MoviePlayback ---------------------------
(***************************************************************************)
(* The movie player of the Sword3 port: the blocking playback loop of      *)
(* src/ports/sword3/sdl_bridge.c, and the Objective-C shim's play, pause   *)
(* and finish notification in src/shim/sword3_objc_shim.c, which drive it. *)
(*                                                                         *)
(* Everything runs on the game's thread, but not one thing after another:  *)
(* playing blocks in a loop, the end of a movie calls back into the guest, *)
(* and the guest's callback may play again.  stack is that nesting: a      *)
(* "loop" is movie_run_until_done, which is a "pump" while its             *)
(* movie_pump_skip_events takes events off the queue; a "finish" is the    *)
(* guest's callback run inside movie_close, a "direct" one is run by play  *)
(* when nothing plays.  Rounds of the loop in which no frame is due only   *)
(* pump, and are one pump here.                                            *)
(*                                                                         *)
(* A file is the number of frames it has left (VideoBridge is the decoder  *)
(* in detail); opening one may fail.                                       *)
(***************************************************************************)
EXTENDS Naturals, Sequences, SequencesExt

CONSTANTS
    MaxFrames, \* bound: the longest file, in frames
    MaxDepth,  \* bound: nested loops and callbacks
    NoVideo    \* g_movie.video is NULL

ASSUME BoundsAssumption ==
    MaxFrames \in Nat /\ MaxDepth \in Nat /\ NoVideo \notin Nat

VARIABLES
    active, video, audio, texture, done, \* g_movie
    closing,  \* the static flag of movie_close
    game_music,    \* g_music is loaded and plays
    observer, \* movie_observer: the guest waits for a finish notification
    pending,  \* g_pending_video_path: a movie was named once
    forced,   \* maybe_force_opening has had its one try
    swallow,  \* g_swallow_a_up
    button,   \* the A button: held, what the game has seen of it, and whether
              \* its press was lost: pumped when the movie was over already
    stack,    \* the nesting of loops and callbacks, innermost last
    owed      \* the observer a playing movie has to tell

movie == <<active, video, audio, texture, done>>
movieVars  == <<movie, closing, game_music, observer, pending, forced, swallow, button,
           stack, owed>>
-----------------------------------------------------------------------------
Frames == {"loop", "pump", "finish", "direct"}

MovieTypeOK ==
    /\ active \in BOOLEAN /\ audio \in BOOLEAN /\ texture \in BOOLEAN
    /\ video \in 0..MaxFrames \cup {NoVideo}
    /\ done \in BOOLEAN /\ closing \in BOOLEAN /\ game_music \in BOOLEAN
    /\ observer \in BOOLEAN /\ pending \in BOOLEAN /\ forced \in BOOLEAN
    /\ swallow \in BOOLEAN /\ owed \in BOOLEAN
    /\ button \in [held : BOOLEAN, seen : {"up", "down", "stray"}, lost : BOOLEAN]
    /\ stack \in Seq(Frames) /\ Len(stack) <= MaxDepth + 2

MovieInit ==
    /\ active = FALSE /\ video = NoVideo /\ audio = FALSE /\ texture = FALSE
    /\ done = FALSE /\ closing = FALSE /\ game_music = FALSE
    /\ observer = FALSE /\ pending = FALSE /\ forced = FALSE
    /\ swallow = FALSE /\ owed = FALSE
    /\ button = [held |-> FALSE, seen |-> "up", lost |-> FALSE]
    /\ stack = <<>>

\* The playback loop runs, or guest code: the game's own loop or a callback.
Looping == stack # <<>> /\ Last(stack) \in {"loop", "pump"}
Pumping == stack # <<>> /\ Last(stack) = "pump"
Ticking == stack # <<>> /\ Last(stack) = "loop"
Guest   == ~Looping
Deeper  == Len(stack) < MaxDepth

-----------------------------------------------------------------------------
\* The innermost call goes on in the other half of the loop.
GoesOn(half) == Append(Front(stack), half)

\* fire_movie_finish: the observer is forgotten and then told, in a call of the
\* given kind that returns to from.
FireMovieFinish(from, call) ==
    /\ observer' = FALSE
    /\ stack' = IF observer THEN Append(from, call) ELSE from
    /\ owed' = (owed /\ ~observer)

\* Mutant: the callback is called while the movie still counts as playing.
MovieCloseLate(from) ==
    IF closing \/ ~active
       THEN stack' = from /\ UNCHANGED <<movie, closing, observer, owed>>
       ELSE /\ video' = NoVideo /\ audio' = FALSE /\ texture' = FALSE
            /\ done' = FALSE
            /\ IF done /\ observer
                  THEN closing' = TRUE /\ FireMovieFinish(from, "finish") /\ UNCHANGED active
                  ELSE active' = FALSE /\ stack' = from /\ UNCHANGED <<closing, observer, owed>>

\* movie_close(1), which returns to from: of a movie that plays everything is
\* given back before the callback runs, and closing stays set until it has
\* returned.
MovieClose(from) ==
    IF closing \/ ~active
       THEN stack' = from /\ UNCHANGED <<movie, closing, observer, owed>>
       ELSE /\ active' = FALSE /\ video' = NoVideo /\ audio' = FALSE
            /\ texture' = FALSE /\ done' = FALSE
            /\ IF done
                  THEN closing' = observer /\ FireMovieFinish(from, "finish")
                  ELSE stack' = from /\ UNCHANGED <<closing, observer, owed>>

\* sword3_host_play_video_file, after movie_close(0): guest code never runs
\* while a movie plays, so there is nothing to close.  The audio may be missing.
PlayVideoFile(notify) ==
    /\ Deeper
    /\ video' \in 0..MaxFrames
    /\ audio' \in BOOLEAN
    /\ texture' = FALSE
    /\ game_music' = FALSE \* sword3_host_stop_music
    /\ done' = notify
    /\ active' = TRUE
    /\ owed' = (notify /\ observer)
    /\ stack' = Append(stack, "pump")
    /\ UNCHANGED <<closing, observer, swallow, button>>

-----------------------------------------------------------------------------
\* What nsobject_play is sent to: a player with a path of its own or without.
\* nsobject_set_url remembers a movie's path, and nothing forgets it.
SetMovieUrl ==
    /\ Guest
    /\ pending' = TRUE
    /\ UNCHANGED <<movie, closing, game_music, observer, forced, swallow, button,
                   stack, owed>>

AddObserver ==
    /\ Guest
    /\ observer' = TRUE
    /\ UNCHANGED <<movie, closing, game_music, pending, forced, swallow, button,
                   stack, owed>>

\* nsobject_play of a sound; the old music goes even when the new one fails.
PlayGameMusic ==
    /\ Guest
    /\ game_music' = TRUE
    /\ UNCHANGED <<movie, closing, observer, pending, forced, swallow, button,
                   stack, owed>>

\* nsobject_play of a movie, or of anything else while a movie is pending.
PlayMovie ==
    /\ Guest /\ pending
    /\ PlayVideoFile(TRUE)
    /\ UNCHANGED <<pending, forced>>

\* Nothing could be played: the observer is told at once.
PlayFails ==
    /\ Guest /\ Deeper
    /\ game_music' \in {game_music, FALSE}
    /\ FireMovieFinish(stack, "direct")
    /\ UNCHANGED <<movie, closing, pending, forced, swallow, button>>

\* nsobject_stop.
StopMusic ==
    /\ Guest
    /\ game_music' = FALSE
    /\ UNCHANGED <<movie, closing, observer, pending, forced, swallow, button,
                   stack, owed>>

\* maybe_force_opening, from the event functions: one try, nobody to tell.
ForceOpening ==
    /\ Guest /\ ~forced
    /\ forced' = TRUE
    /\ \/ PlayVideoFile(FALSE)
       \/ UNCHANGED <<movie, closing, game_music, observer, swallow, button, stack,
                      owed>>
    /\ UNCHANGED pending

\* nsobject_pause: sword3_host_stop_video, which only stops a movie that plays.
Pause ==
    /\ Guest
    /\ IF active THEN MovieClose(stack)
                 ELSE UNCHANGED <<movie, closing, observer, stack, owed>>
    /\ UNCHANGED <<game_music, pending, forced, swallow, button>>

\* A finish callback returns, to movie_close or to nsobject_play.
Return ==
    /\ stack # <<>> /\ Guest
    /\ closing' = (closing /\ Last(stack) # "finish")
    /\ stack' = Front(stack)
    /\ UNCHANGED <<movie, game_music, observer, pending, forced, swallow, button,
                   owed>>

-----------------------------------------------------------------------------
\* movie_consume_skip of a press of A (or of what counts as A) or of START:
\* nothing happens when no movie plays.
ConsumeSkip(a) ==
    IF (swallow /\ a) \/ ~active
       THEN UNCHANGED <<swallow, movie, closing, observer, stack, owed>>
       ELSE swallow' = (swallow \/ a) /\ MovieClose(stack)

\* A press of A that the game is not given.
TakePress ==
    button' = [held |-> TRUE, seen |-> IF button.seen = "stray" THEN "up" ELSE button.seen,
               lost |-> ~swallow /\ ~active]

\* movie_pump_skip_events: a press of A or START, or a touch.  Every other event
\* is taken off the queue and forgotten.  It goes on until the queue is empty,
\* also when one of the events has ended the movie.
SkipEvent ==
    /\ Pumping
    /\ \/ ~button.held /\ TakePress /\ ConsumeSkip(TRUE)
       \/ \E a \in BOOLEAN : ConsumeSkip(a) /\ UNCHANGED button \* touch, START
    /\ UNCHANGED <<game_music, pending, forced>>

\* SDL_QUIT: the window was closed; the rest of the queue stays.
QuitEvent ==
    /\ Pumping
    /\ MovieClose(GoesOn("loop"))
    /\ UNCHANGED <<game_music, pending, forced, swallow, button>>

\* A release of A on the queue.
ReleaseInLoop ==
    /\ Pumping /\ button.held
    /\ button' = [button EXCEPT !.held = FALSE]
    /\ swallow' = FALSE
    /\ UNCHANGED <<movie, closing, game_music, observer, pending, forced, stack,
                   owed>>

\* The queue is empty.
PumpEnds ==
    /\ Pumping
    /\ stack' = GoesOn("loop")
    /\ UNCHANGED <<movie, closing, game_music, observer, pending, forced, swallow,
                   button, owed>>

\* movie_present: the next frame is due, and shown in a texture of its size.
Tick ==
    /\ Ticking /\ active /\ video # 0
    /\ \/ /\ video' = video - 1
          /\ texture' = TRUE
          /\ stack' = GoesOn("pump")
          /\ UNCHANGED <<active, audio, done, closing, observer, owed>>
       \/ MovieClose(stack) \* a decoding error, or no texture
    /\ UNCHANGED <<game_music, pending, forced, swallow, button>>

\* Mutant: the last frame stays on the screen.
FinishedStays ==
    /\ Ticking /\ active /\ video = 0
    /\ UNCHANGED movieVars

\* movie_present at the end of the file.
Finished ==
    /\ Ticking /\ active /\ video = 0
    /\ MovieClose(stack)
    /\ UNCHANGED <<game_music, pending, forced, swallow, button>>

\* movie_run_until_done returns to the guest.
LoopEnds ==
    /\ Ticking /\ ~active
    /\ stack' = Front(stack)
    /\ UNCHANGED <<movie, closing, game_music, observer, pending, forced, swallow,
                   button, owed>>

\* rewrite_event of the A button, in the game's own event loop.
GameButton ==
    /\ Guest
    /\ IF button.held
       THEN button' = [button EXCEPT !.held = FALSE,
                          !.seen = IF swallow THEN @ ELSE IF @ = "down" THEN "up" ELSE "stray"]
       ELSE IF swallow THEN TakePress
       ELSE button' = [held |-> TRUE, seen |-> "down", lost |-> FALSE]
    /\ swallow' = (swallow /\ ~button.held)
    /\ UNCHANGED <<movie, closing, game_music, observer, pending, forced, stack,
                   owed>>

MovieNext ==
    \/ SetMovieUrl \/ AddObserver \/ PlayGameMusic \/ PlayMovie \/ PlayFails
    \/ StopMusic \/ ForceOpening \/ Pause \/ Return
    \/ SkipEvent \/ QuitEvent \/ ReleaseInLoop \/ PumpEnds \/ Tick \/ Finished \/ LoopEnds
    \/ GameButton

\* The loop empties the queue, presents a frame every 8 ms and the clock goes
\* on: it decodes, ends and returns.  Nothing is assumed of the guest or of the
\* player, but that the player presses no faster than the queue is read.
MovieFairness ==
    /\ WF_movieVars(PumpEnds) /\ WF_movieVars(Tick)
    /\ WF_movieVars(Finished) /\ WF_movieVars(LoopEnds)

MovieSpec == MovieInit /\ [][MovieNext]_movieVars /\ MovieFairness
-----------------------------------------------------------------------------
\* movie_close gives everything back whatever ended the movie: outside a movie
\* there is no decoder, device or texture, and while one plays there is a
\* decoder and the music is silent.
MovieOwnsItsParts ==
    /\ active <=> video # NoVideo
    /\ ~active => ~audio /\ ~texture /\ ~done
    /\ active => Looping /\ ~game_music

\* A guest that waited for the end of a movie has been told when the call that
\* played it is over: end of file, skip, error and window close alike.
ObserverIsTold == ~Looping => ~owed

\* The press that skips a movie does not act on what comes after it: the game
\* gets no release of A whose press it was not given, with one exception.  The
\* pump takes a press off the queue without a trace when an event before it, of
\* the same batch, has ended the movie; g_swallow_a_up is not set then, and the
\* game gets the release alone.
NoStrayRelease == button.seen = "stray" => button.lost

\* A movie leaves nothing behind, however it ends: no resource, no guest that
\* still waits for its end, no half of the press that skipped it.
MovieLeavesNothing == MovieOwnsItsParts /\ ObserverIsTold /\ NoStrayRelease

\* A movie comes to its end, unless it was started by the finish callback of
\* another one: then closing is still set and movie_close does nothing.
EveryMovieEnds == (active /\ ~closing) ~> ~active
=============================================================================
