---------------------------- MODULE VideoBridge ----------------------------
(***************************************************************************)
(* The video decoder of the Sword3 port (src/ports/sword3/video_bridge.c): *)
(* the loop of sword3_video_next_frame between demuxer and decoder, the    *)
(* RGBA buffer and the presentation times.  One action per turn of the     *)
(* loop; libavformat and libavcodec are external and may fail at any call. *)
(***************************************************************************)
EXTENDS Naturals, Integers, Sequences, SequencesExt, FiniteSets

CONSTANTS
    Files,     \* what may be opened: sequences of packets
    NoPts,     \* AV_NOPTS_VALUE
    StartTimes,\* values of stream->start_time, NoPts when the container has none
    Duration,  \* a frame's duration
    Delay      \* frames the decoder keeps back to reorder them

Packet(video, pts, size) == [video |-> video, pts |-> pts, size |-> size]
Packets == [video : BOOLEAN, pts : Int \cup {NoPts}, size : Nat]

ASSUME VideoAssumption ==
    /\ Duration \in Nat /\ Delay \in Nat /\ NoPts \notin Int
    /\ Files \subseteq Seq(Packets) /\ StartTimes \subseteq Int \cup {NoPts}

NoPacket == Packet(FALSE, NoPts, 0)

VARIABLES
    file, start_time, position, \* the demuxer: the file, the packets read
    decoder,        \* packets the decoder has and whose frame is not out yet
    draining,       \* the decoder has been told that no more will come
    packet, packet_pending, demux_eof, drain_sent, status,
    rgba, rgba_size,\* what the RGBA buffer can hold (0: none), what it says
    first_pts, last_pts, next_pts, have_output_pts,
    calling,        \* sword3_video_next_frame is looping
    out             \* the packets whose frames have been returned

demuxer == <<file, start_time, position>>
flags   == <<packet, packet_pending, demux_eof, drain_sent>>
times   == <<first_pts, last_pts, next_pts, have_output_pts>>
videoVars ==
    <<demuxer, decoder, draining, flags, status, rgba, rgba_size, times, calling, out>>

VideoTypeOK ==
    /\ file \in Files /\ start_time \in StartTimes /\ position \in 0..Len(file)
    /\ decoder \in Seq(Range(file)) /\ out \in Seq(Range(file))
    /\ packet \in Range(file) \cup {NoPacket}
    /\ {draining, packet_pending, demux_eof, drain_sent, have_output_pts,
        calling} \subseteq BOOLEAN
    /\ status \in {"PLAYING", "COMPLETE", "SKIPPED", "ERROR"}
    /\ {rgba, rgba_size, last_pts, next_pts} \subseteq Nat

\* sword3_video_open has succeeded.
VideoInit ==
    /\ file \in Files /\ start_time \in StartTimes /\ position = 0
    /\ decoder = <<>> /\ draining = FALSE
    /\ packet = NoPacket
    /\ packet_pending = FALSE /\ demux_eof = FALSE /\ drain_sent = FALSE
    /\ status = "PLAYING"
    /\ rgba = 0 /\ rgba_size = 0
    /\ first_pts = NoPts /\ last_pts = 0 /\ next_pts = 0
    /\ have_output_pts = FALSE
    /\ calling = FALSE /\ out = <<>>

-----------------------------------------------------------------------------
(* The decoder (external): it has a frame once it holds more than it keeps *)
(* back, or once it is draining.                                           *)
HasFrame == decoder # <<>> /\ (draining \/ Len(decoder) > Delay)
IsEmpty  == draining /\ decoder = <<>>
Wants    == ~HasFrame /\ ~IsEmpty

Fail == /\ status' = "ERROR" /\ calling' = FALSE
        /\ UNCHANGED <<rgba, rgba_size>>

\* sword3_video_next_frame is entered; after the end it returns at once.
NextFrame ==
    /\ ~calling /\ status = "PLAYING"
    /\ calling' = TRUE
    /\ UNCHANGED <<demuxer, decoder, draining, flags, status, rgba, rgba_size,
                   times, out>>

-----------------------------------------------------------------------------
\* prepare_rgba: the buffer is kept while the frames have its size.
PrepareRgba(size) ==
    IF rgba # 0 /\ rgba_size = size THEN UNCHANGED <<rgba, rgba_size>>
    ELSE rgba' = size /\ rgba_size' = size

\* frame_pts_seconds: synthesised when missing, relative to the start of the
\* stream, never back.
Origin(pts) == IF start_time # NoPts THEN start_time
               ELSE IF first_pts = NoPts THEN pts ELSE first_pts
FramePts(pts) ==
    LET raw == IF pts = NoPts THEN (IF have_output_pts THEN next_pts ELSE 0)
               ELSE pts - Origin(pts)
    IN  IF have_output_pts /\ raw < last_pts THEN last_pts
        ELSE IF ~have_output_pts /\ raw < 0 THEN 0 ELSE raw

Timestamp(pts) ==
    /\ last_pts' = FramePts(pts)
    /\ next_pts' = FramePts(pts) + Duration
    /\ have_output_pts' = TRUE
    /\ first_pts' = IF pts # NoPts /\ start_time = NoPts THEN Origin(pts) ELSE first_pts

\* avcodec_receive_frame delivers, output_frame converts and returns.
OutputFrame ==
    /\ calling /\ HasFrame
    /\ decoder' = Tail(decoder)
    /\ out' = Append(out, Head(decoder))
    /\ PrepareRgba(Head(decoder).size)
    /\ Timestamp(Head(decoder).pts)
    /\ calling' = FALSE
    /\ UNCHANGED <<demuxer, draining, flags, status>>

\* The frame cannot be converted: the new buffer or the scaler is missing.
\* av_freep has cleared the old buffer when the allocation fails.
ConversionFails ==
    /\ calling /\ HasFrame
    /\ decoder' = Tail(decoder)
    /\ status' = "ERROR" /\ calling' = FALSE
    /\ rgba' \in {rgba, 0}
    /\ UNCHANGED <<demuxer, draining, flags, rgba_size, times, out>>

VideoFinished ==
    /\ calling /\ IsEmpty
    /\ status' = "COMPLETE" /\ calling' = FALSE
    /\ UNCHANGED <<demuxer, decoder, draining, flags, rgba, rgba_size, times, out>>

-----------------------------------------------------------------------------
(* The decoder wants input: the pending packet, the drain request, or the  *)
(* next packet of the file.                                                *)
SendPacket ==
    /\ calling /\ Wants /\ packet_pending
    /\ decoder' = Append(decoder, packet)
    /\ packet_pending' = FALSE
    /\ UNCHANGED <<demuxer, draining, packet, demux_eof, drain_sent, status,
                   rgba, rgba_size, times, calling, out>>

\* Mutant: the end of the file is taken for the end of the video.
DrainDropsFrames ==
    /\ calling /\ Wants /\ ~packet_pending /\ demux_eof
    /\ status' = "COMPLETE" /\ calling' = FALSE
    /\ UNCHANGED <<demuxer, decoder, draining, flags, rgba, rgba_size, times, out>>

Drain ==
    /\ calling /\ Wants /\ ~packet_pending /\ demux_eof /\ ~drain_sent
    /\ draining' = TRUE /\ drain_sent' = TRUE
    /\ UNCHANGED <<demuxer, decoder, packet, packet_pending, demux_eof, status,
                   rgba, rgba_size, times, calling, out>>

\* Mutant: the loop asks the demuxer again after its end.
ReadEofForgotten ==
    /\ calling /\ Wants /\ ~packet_pending /\ ~demux_eof
    /\ position < Len(file)
    /\ position' = position + 1
    /\ packet' = file[position + 1]
    /\ packet_pending' = file[position + 1].video
    /\ UNCHANGED <<file, start_time, demux_eof, decoder, draining, drain_sent, status, rgba,
                   rgba_size, times, calling, out>>

\* av_read_frame; packets of the other streams are dropped.
Read ==
    /\ calling /\ Wants /\ ~packet_pending /\ ~demux_eof
    /\ IF position = Len(file)
          THEN demux_eof' = TRUE /\ UNCHANGED <<position, packet, packet_pending>>
          ELSE /\ position' = position + 1
               /\ packet' = file[position + 1]
               /\ packet_pending' = file[position + 1].video
               /\ UNCHANGED demux_eof
    /\ UNCHANGED <<file, start_time, decoder, draining, drain_sent, status, rgba, rgba_size,
                   times, calling, out>>

\* Any of the calls above fails, or the decoder asks for input after the drain.
CallFails ==
    /\ calling
    /\ Fail
    /\ UNCHANGED <<demuxer, decoder, draining, flags, times, out>>

\* sword3_video_skip.
Skip ==
    /\ ~calling /\ status = "PLAYING"
    /\ status' = "SKIPPED"
    /\ UNCHANGED <<demuxer, decoder, draining, flags, rgba, rgba_size, times,
                   calling, out>>

Loop == OutputFrame \/ VideoFinished \/ SendPacket \/ Drain \/ Read
VideoNext == NextFrame \/ Loop \/ ConversionFails \/ CallFails \/ Skip

\* A call that has been entered keeps looping until it returns.
VideoFairness == WF_videoVars(Loop)

VideoSpec == VideoInit /\ [][VideoNext]_videoVars /\ VideoFairness
-----------------------------------------------------------------------------
\* What was returned, what is in the decoder and what is pending, and how many
\* of the first n packets of the file are of the video stream.
Taken == out \o decoder \o (IF packet_pending THEN <<packet>> ELSE <<>>)
VideoPackets(n) == Cardinality({i \in 1..n : file[i].video})

\* No frame is lost, repeated or reordered on the way from the file to the
\* caller, whatever the decoder keeps back: the k-th packet that was taken is
\* the k-th of the video stream, as far as the file has been read, and a video
\* that is complete has been returned to its last frame.
NothingLost ==
    status # "ERROR" =>
        /\ Len(Taken) = VideoPackets(position)
        /\ \A i \in 1..position : file[i].video => Taken[VideoPackets(i)] = file[i]
        /\ status = "COMPLETE" => position = Len(file) /\ Taken = out

\* "The pixel pointer remains valid": sws_scale never writes a frame into a
\* buffer made for another size.
BufferFits == status # "ERROR" => rgba = rgba_size

\* Every frame of the file arrives, once, in order, in a buffer of its size.
FramesArrive == NothingLost /\ BufferFits

\* "PTS ... never decreases", also with missing or malformed timestamps.
PtsNeverDecreases == [][have_output_pts => last_pts' >= last_pts]_videoVars

\* sword3_video_next_frame returns.
NextFrameReturns == calling ~> ~calling
=============================================================================
