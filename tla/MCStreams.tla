------------------------------ MODULE MCStreams ------------------------------
(***************************************************************************)
(* The two streams of networkframeStream.cpp, of which main builds one.    *)
(* They share the build, so whether the flags may be kept in registers.    *)
(***************************************************************************)
EXTENDS VideoStream

VARIABLES stream, ffOwner, loop, seen, ffRunning, ffReading, ffWriting, connected, open

ffVars == <<ffOwner, loop, seen, ffRunning, ffReading, ffWriting, connected, open>>

FFmpeg == INSTANCE FFmpegStream WITH
  owner <- ffOwner, is_running <- ffRunning, is_reading <- ffReading,
  is_writing <- ffWriting

IsVideo == stream = "video"
IsFFmpeg == stream = "ffmpeg"

StreamsInit == stream \in {"video", "ffmpeg"} /\ Init /\ FFmpeg!Init

StreamsNext ==
  /\ \/ IsVideo /\ Next /\ UNCHANGED ffVars
     \/ IsFFmpeg /\ FFmpeg!Next /\ UNCHANGED vars
  /\ UNCHANGED stream

\* The fairness of the stream that main built.
StreamsSpec ==
  /\ StreamsInit /\ [][StreamsNext]_<<stream, vars, ffVars>>
  /\ WF_vars(IsVideo /\ Reader) /\ WF_vars(IsVideo /\ Writer)
  /\ WF_vars(IsVideo /\ owner # "live" /\ Destructor)
  /\ WF_ffVars(IsFFmpeg /\ FFmpeg!Owner)
  /\ \A t \in FFmpeg!Threads : WF_ffVars(IsFFmpeg /\ FFmpeg!Turn(t))

\* No thread runs on a video stream whose members are gone, no loop of the FFmpeg
\* reader runs when its socket is closed and the reader goes, and whichever end
\* connected, no socket is left open when the stream is gone.
TornDownInOrder ==
  JoinedBeforeDestroyed /\ FFmpeg!LoopsEndBeforeReader /\ FFmpeg!SocketsClosed

\* The destructor returns unless an optimised build lets a connected loop spin.
DestructorReturns == IsFFmpeg => FFmpeg!DestructorReturns
=============================================================================
