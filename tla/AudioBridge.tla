---------------------------- MODULE AudioBridge ----------------------------
(***************************************************************************)
(* The SDL_mixer bridge of the Sword3 port (src/ports/sword3/              *)
(* audio_bridge.c).  Every operation on a handle runs under the bridge's   *)
(* mutex and is one action; SDL_mixer is external: its channels play on    *)
(* and end by themselves, and its calls may fail.                          *)
(***************************************************************************)
EXTENDS Naturals, Integers, FiniteSets

CONSTANTS
    Effects, Music, \* handles by kind
    NoHandle,
    Channels,       \* the mixer's channels
    Volumes,        \* volumes a caller asks for, in and out of range
    MaxVolume       \* MIX_MAX_VOLUME

Handles == Effects \cup Music

ASSUME AudioAssumption ==
    /\ Effects \cap Music = {} /\ NoHandle \notin Handles
    /\ MaxVolume \in Nat

VARIABLES
    bridge,        \* its state, with what it owns
    handles,       \* the bridge's list of handles
    volume,        \* handle->volume
    current_music,
    channel,       \* the mixer: whose chunk a channel plays
    music,         \* the mixer: whose music plays
    musicVolume,   \* the mixer: the volume of the music channel
    opened, inits  \* Mix_OpenAudio and Mix_Init calls not undone yet

mixer == <<channel, music, musicVolume>>
audioVars  == <<bridge, handles, volume, current_music, mixer, opened, inits>>

Silence == [c \in Channels |-> NoHandle]

AudioTypeOK ==
    /\ bridge \in {"closed", "opening", "attached", "owner"}
    /\ handles \subseteq Handles
    /\ volume \in [Handles -> 0..MaxVolume]
    /\ current_music \in Music \cup {NoHandle}
    /\ channel \in [Channels -> Effects \cup {NoHandle}]
    /\ music \in Music \cup {NoHandle}
    /\ musicVolume \in 0..MaxVolume
    /\ opened \in 0..2 /\ inits \in 0..2

\* The program may have opened the mixer for itself.
AudioInit ==
    /\ bridge = "closed"
    /\ handles = {}
    /\ volume = [h \in Handles |-> MaxVolume]
    /\ current_music = NoHandle
    /\ channel = Silence /\ music = NoHandle /\ musicVolume = MaxVolume
    /\ opened \in {0, 1} /\ inits = opened

-----------------------------------------------------------------------------
\* sword3_audio_bridge_open in attach mode, which needs an open mixer.
OpenAttach ==
    /\ bridge = "closed" /\ opened > 0
    /\ bridge' = "attached"
    /\ UNCHANGED <<handles, volume, current_music, mixer, opened, inits>>

\* As owner: Mix_Init first, then the device.
OpenOwn ==
    /\ bridge = "closed"
    /\ bridge' = "opening"
    /\ inits' = inits + 1
    /\ UNCHANGED <<handles, volume, current_music, mixer, opened>>

OpenDevice ==
    /\ bridge = "opening"
    /\ bridge' = "owner"
    /\ opened' = opened + 1
    /\ UNCHANGED <<handles, volume, current_music, mixer, inits>>

\* Mutant: the error path does not undo Mix_Init.
OpenFailsDirty ==
    /\ bridge = "opening"
    /\ bridge' = "closed"
    /\ UNCHANGED <<handles, volume, current_music, mixer, opened, inits>>

\* A codec is missing or the device does not open.
OpenFails ==
    /\ bridge = "opening"
    /\ bridge' = "closed"
    /\ inits' = inits - 1
    /\ UNCHANGED <<handles, volume, current_music, mixer, opened>>

\* sword3_audio_open_file and _memory; a file that does not load is no handle.
OpenHandle(h) ==
    /\ bridge \in {"attached", "owner"} /\ h \notin handles
    /\ handles' = handles \cup {h}
    /\ volume' = [volume EXCEPT ![h] = MaxVolume]
    /\ UNCHANGED <<bridge, current_music, mixer, opened, inits>>

-----------------------------------------------------------------------------
\* sword3_audio_play of an effect: on any free channel, or on none.
PlayEffect(h) ==
    /\ h \in handles \cap Effects
    /\ \E c \in Channels :
          /\ channel[c] = NoHandle
          /\ channel' = [channel EXCEPT ![c] = h]
    /\ UNCHANGED <<bridge, handles, volume, current_music, music, musicVolume,
                   opened, inits>>

\* sword3_audio_play of music; Mix_PlayMusic ends the music that plays before
\* it tries to start the new one.
PlayMusic(h) ==
    /\ h \in handles \cap Music
    /\ musicVolume' = volume[h]
    /\ \/ music' = h /\ current_music' = h
       \/ music' = NoHandle /\ UNCHANGED current_music
    /\ UNCHANGED <<bridge, handles, volume, channel, opened, inits>>

\* Mutant: one channel is halted, not every channel that plays the chunk.
StopLockedOnce(h) ==
    IF h \in Effects
    THEN /\ \/ \E c \in Channels :
                 channel[c] = h /\ channel' = [channel EXCEPT ![c] = NoHandle]
            \/ (\A c \in Channels : channel[c] # h) /\ UNCHANGED channel
         /\ UNCHANGED <<music, current_music>>
    ELSE /\ UNCHANGED channel
         /\ IF current_music = h THEN music' = NoHandle /\ current_music' = NoHandle
            ELSE UNCHANGED <<music, current_music>>

\* stop_locked.
StopLocked(h) ==
    IF h \in Effects
    THEN /\ channel' = [c \in Channels |-> IF channel[c] = h THEN NoHandle ELSE channel[c]]
         /\ UNCHANGED <<music, current_music>>
    ELSE /\ UNCHANGED channel
         /\ IF current_music = h THEN music' = NoHandle /\ current_music' = NoHandle
            ELSE UNCHANGED <<music, current_music>>

Stop(h) ==
    /\ h \in handles
    /\ StopLocked(h)
    /\ UNCHANGED <<bridge, handles, volume, musicVolume, opened, inits>>

SetVolume(h, v) ==
    LET new == IF v < 0 THEN 0 ELSE IF v > MaxVolume THEN MaxVolume ELSE v IN
    /\ h \in handles
    /\ volume' = [volume EXCEPT ![h] = new]
    /\ musicVolume' = IF current_music = h THEN new ELSE musicVolume
    /\ UNCHANGED <<bridge, handles, current_music, channel, music, opened, inits>>

\* sword3_audio_close: unlink, stop, free.
Close(h) ==
    /\ h \in handles
    /\ handles' = handles \ {h}
    /\ StopLocked(h)
    /\ UNCHANGED <<bridge, volume, musicVolume, opened, inits>>

\* sword3_audio_bridge_close closes every handle and what it opened itself.
BridgeClose ==
    /\ bridge \in {"attached", "owner"}
    /\ bridge' = "closed"
    /\ handles' = {}
    /\ channel' = Silence
    /\ music' = IF current_music # NoHandle THEN NoHandle ELSE music
    /\ current_music' = NoHandle
    /\ opened' = IF bridge = "owner" THEN opened - 1 ELSE opened
    /\ inits' = IF bridge = "owner" THEN inits - 1 ELSE inits
    /\ UNCHANGED <<volume, musicVolume>>

-----------------------------------------------------------------------------
(* SDL_mixer's own thread (external): sounds end.                          *)
ChannelEnds(c) ==
    /\ channel[c] # NoHandle
    /\ channel' = [channel EXCEPT ![c] = NoHandle]
    /\ UNCHANGED <<bridge, handles, volume, current_music, music, musicVolume,
                   opened, inits>>

MusicEnds ==
    /\ music # NoHandle
    /\ music' = NoHandle
    /\ UNCHANGED <<bridge, handles, volume, current_music, channel, musicVolume,
                   opened, inits>>

AudioNext ==
    \/ OpenAttach \/ OpenOwn \/ OpenDevice \/ OpenFails \/ BridgeClose
    \/ \E h \in Handles : \/ OpenHandle(h) \/ PlayEffect(h) \/ PlayMusic(h)
                          \/ Stop(h) \/ Close(h)
                          \/ \E v \in Volumes : SetVolume(h, v)
    \/ \E c \in Channels : ChannelEnds(c)
    \/ MusicEnds

AudioSpec == AudioInit /\ [][AudioNext]_audioVars
-----------------------------------------------------------------------------
\* The mixer never plays what has been freed: a chunk on any channel, the music
\* that plays and the handle current_music points to are open handles.
PlaysOpenHandles ==
    /\ \A c \in Channels : channel[c] \in handles \cup {NoHandle}
    /\ music \in handles \cup {NoHandle}
    /\ current_music \in handles \cup {NoHandle}

\* The music that plays is the one stop, close and set_volume find, at the
\* volume of its handle, however often another handle was played or changed.
MusicIsCurrent ==
    music # NoHandle => current_music = music /\ musicVolume = volume[music]

\* What is heard is what the handles say, and never something freed.
SoundFollowsHandles == PlaysOpenHandles /\ MusicIsCurrent

\* "this bridge balances its Mix_Init/Mix_OpenAudio calls during close" and
\* when it cannot open: apart from what an owner has open, the count is the
\* program's.
DeviceBalanced ==
    [][LET own(b, states) == IF b \in states THEN 1 ELSE 0 IN
       /\ opened' - own(bridge', {"owner"}) = opened - own(bridge, {"owner"})
       /\ inits' - own(bridge', {"opening", "owner"})
             = inits - own(bridge, {"opening", "owner"})]_audioVars
=============================================================================
