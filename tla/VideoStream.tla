---------------------------- MODULE VideoStream ----------------------------
(***************************************************************************)
(* cjunk/practice/networkframeStream.cpp: NetworkVideoStreamObservable.    *)
(* The owner constructs the stream, writes into it, may stop it and        *)
(* destroys it; two threads move bytes between the socket and the stream's *)
(* two buffers.                                                            *)
(*                                                                         *)
(* The flags are plain bools, written by one thread and read by another.   *)
(* The owner's stores become visible one by one.  A loop reads the flags   *)
(* again after a call into boost::asio; a turn that calls nothing, because *)
(* is_reading_ or is_writing_ is false, an optimising build may compile    *)
(* into a loop that never looks at the flags again.                        *)
(***************************************************************************)
EXTENDS Integers

CONSTANTS MaxBuffer,  \* kMaxBuffer, the most bytes a streambuf holds
          MaxInFlight \* bound: bytes of the peer that wait in the socket

ASSUME StreamAssumption == MaxBuffer \in Nat \ {0} /\ MaxInFlight \in Nat \ {0}

VARIABLES
  optimised,               \* whether this build does that
  owner,                   \* what the owning thread is doing
  reader, writer,          \* read_thread_ and write_thread_
  is_running, is_reading, is_writing, is_connected, is_disconnected,
  read_buffer, write_buffer,   \* bytes in the streambufs
  peer, inFlight           \* the other end, and its bytes not yet read

flags == <<is_running, is_reading, is_writing>>
connection == <<is_connected, is_disconnected>>
threads == <<reader, writer>>
buffers == <<read_buffer, write_buffer>>
network == <<peer, inFlight>>
vars == <<optimised, owner, threads, flags, connection, buffers, network>>

Init ==
  /\ optimised \in BOOLEAN
  /\ owner = "construct" /\ reader = "none" /\ writer = "none"
  /\ is_running = FALSE /\ is_reading = FALSE /\ is_writing = FALSE
  /\ is_connected = FALSE /\ is_disconnected = FALSE
  /\ read_buffer = 0 /\ write_buffer = 0
  /\ peer = "open" /\ inFlight = 0

-----------------------------------------------------------------------------
(* The owner *)

\* resolve or connect reports an error: the constructor returns early.
ConstructFails ==
  /\ owner = "construct" /\ owner' = "live"
  /\ UNCHANGED <<optimised, threads, flags, connection, buffers, network>>

Construct ==
  /\ owner = "construct" /\ owner' = "live"
  /\ is_connected' = TRUE /\ is_disconnected' = FALSE
  /\ is_running' = TRUE /\ is_reading' = TRUE /\ is_writing' = TRUE
  /\ reader' = "test" /\ writer' = "test"
  /\ UNCHANGED <<optimised, buffers, network>>

\* write(data): a byte that does not fit is dropped by the ostream.  Nothing
\* orders it with a write_loop that is using the same streambuf: what the
\* buffer then holds is anybody's guess.
Write ==
  /\ owner = "live" /\ is_connected
  /\ write_buffer' \in IF writer = "io" THEN 0 .. MaxBuffer
                       ELSE IF write_buffer < MaxBuffer THEN {write_buffer + 1}
                       ELSE {write_buffer}
  /\ UNCHANGED <<optimised, owner, threads, flags, connection, read_buffer, network>>

\* NetworkStreamBase::stop, of a stream that goes on existing: its loops end
\* when they next look at the flag, and say nothing.
stop ==
  /\ owner = "live" /\ is_running' = FALSE
  /\ UNCHANGED <<optimised, owner, threads, is_reading, is_writing, connection,
                 buffers, network>>

\* Slip: the flag that ends the loops is not cleared.
ClearButRunning ==
  /\ owner \in {"live", "clearing"} /\ owner' = "clearing"
  /\ \/ is_reading' = FALSE /\ UNCHANGED is_writing
     \/ is_writing' = FALSE /\ UNCHANGED is_reading
  /\ UNCHANGED <<optimised, is_running, threads, connection, buffers, network>>

\* The destructor clears the flags; the stores may become visible in any order.
Clear ==
  /\ owner \in {"live", "clearing"} /\ owner' = "clearing"
  /\ \/ is_running' = FALSE /\ UNCHANGED <<is_reading, is_writing>>
     \/ is_reading' = FALSE /\ UNCHANGED <<is_running, is_writing>>
     \/ is_writing' = FALSE /\ UNCHANGED <<is_running, is_reading>>
  /\ UNCHANGED <<optimised, threads, connection, buffers, network>>

\* Slip: join is skipped, and aborts, once the connection is lost.
JoinReadIfConnected ==
  /\ owner = "clearing" /\ ~is_running /\ ~is_reading /\ ~is_writing
  /\ reader \in {"none", "done"}
  /\ owner' = IF ~is_connected THEN "aborted" ELSE "joinWrite"
  /\ UNCHANGED <<optimised, threads, flags, connection, buffers, network>>

\* read_thread_.join(): a thread that was never started makes join throw, and
\* an exception that leaves a destructor ends the program.
JoinRead ==
  /\ owner = "clearing" /\ ~is_running /\ ~is_reading /\ ~is_writing
  /\ reader \in {"none", "done"}
  /\ owner' = IF reader = "none" THEN "aborted" ELSE "joinWrite"
  /\ UNCHANGED <<optimised, threads, flags, connection, buffers, network>>

\* Slip: write_thread_ is detached, not joined.
JoinWriteDetached ==
  /\ owner = "joinWrite" /\ owner' = "destroyed"
  /\ UNCHANGED <<optimised, threads, flags, connection, buffers, network>>

\* write_thread_.join(), after which the members are destroyed.
JoinWrite ==
  /\ owner = "joinWrite" /\ writer = "done" /\ owner' = "destroyed"
  /\ UNCHANGED <<optimised, threads, flags, connection, buffers, network>>

\* Where a loop goes from if (is_reading_) or if (is_writing_).
Gate(flag) == IF flag THEN {"io"} ELSE IF optimised THEN {"test", "stuck"} ELSE {"test"}

-----------------------------------------------------------------------------
(* read_loop *)

\* while (is_running_) and if (is_reading_), each read on its own.
ReadTest ==
  /\ \/ reader = "test" /\ reader' = IF is_running THEN "gate" ELSE "done"
     \/ reader = "gate" /\ reader' \in Gate(is_reading)
  /\ UNCHANGED <<optimised, owner, writer, flags, connection, buffers, network>>

\* read(..., transfer_at_least(1)) fills the buffer with what has arrived; a
\* buffer that is already full makes it return at once, with no error.
Read ==
  /\ reader = "io" /\ reader' = "test"
  /\ \/ /\ read_buffer = MaxBuffer
        /\ UNCHANGED <<read_buffer, inFlight>>
     \/ \E n \in 1 .. inFlight :
          /\ read_buffer + n <= MaxBuffer
          /\ read_buffer' = read_buffer + n
          /\ inFlight' = inFlight - n
  /\ UNCHANGED <<optimised, owner, writer, flags, connection, write_buffer, peer>>

\* Slip: the error ends the loop but is not recorded.
ReadErrorSilent ==
  /\ reader = "io" /\ read_buffer < MaxBuffer /\ inFlight = 0 /\ peer = "closed"
  /\ reader' = "done" /\ is_reading' = FALSE
  /\ UNCHANGED <<optimised, owner, writer, is_running, is_writing, connection,
                 buffers, network>>

ReadError ==
  /\ reader = "io" /\ read_buffer < MaxBuffer /\ inFlight = 0 /\ peer = "closed"
  /\ reader' = "done" /\ is_reading' = FALSE
  /\ is_connected' = FALSE /\ is_disconnected' = TRUE
  /\ UNCHANGED <<optimised, owner, writer, is_running, is_writing,
                 buffers, network>>

-----------------------------------------------------------------------------
(* write_loop *)

WriteTest ==
  /\ \/ writer = "test" /\ writer' = IF is_running THEN "gate" ELSE "done"
     \/ writer = "gate" /\ writer' \in Gate(is_writing)
  /\ UNCHANGED <<optimised, owner, reader, flags, connection, buffers, network>>

\* write(..., transfer_at_least(1)): an empty buffer is no error and no wait;
\* the kernel may still take bytes for a peer that has closed.
Send ==
  /\ writer = "io" /\ writer' = "test"
  /\ \/ write_buffer = 0 /\ UNCHANGED write_buffer
     \/ \E n \in 1 .. write_buffer : write_buffer' = write_buffer - n
  /\ UNCHANGED <<optimised, owner, reader, flags, connection, read_buffer, network>>

SendError ==
  /\ writer = "io" /\ write_buffer > 0 /\ peer = "closed"
  /\ writer' = "done" /\ is_writing' = FALSE
  /\ is_connected' = FALSE /\ is_disconnected' = TRUE
  /\ UNCHANGED <<optimised, owner, reader, is_running, is_reading,
                 buffers, network>>

-----------------------------------------------------------------------------
PeerSends ==
  /\ peer = "open" /\ inFlight < MaxInFlight
  /\ inFlight' = inFlight + 1
  /\ UNCHANGED <<optimised, owner, threads, flags, connection, buffers, peer>>

PeerCloses ==
  /\ peer = "open" /\ peer' = "closed"
  /\ UNCHANGED <<optimised, owner, threads, flags, connection, buffers, inFlight>>

Constructor == ConstructFails \/ Construct
Destructor == Clear \/ JoinRead \/ JoinWrite
Reader == ReadTest \/ Read \/ ReadError
Writer == WriteTest \/ Send \/ SendError

\* A loop that no longer looks at its flags turns on the spot.
Spin == "stuck" \in {reader, writer} /\ UNCHANGED vars

\* Nothing is left to do: the stream is gone, or the program with it.
Over == owner \in {"destroyed", "aborted"} /\ UNCHANGED vars

Next ==
  \/ owner # "aborted" /\ (Constructor \/ Write \/ stop \/ Destructor \/ Reader \/ Writer
                             \/ PeerSends \/ PeerCloses)
  \/ Spin \/ Over

\* The scheduler runs the two threads and a destructor once it has begun.  A
\* peer may be silent forever, and the owner need never destroy the stream.
Spec ==
  /\ Init /\ [][Next]_vars
  /\ WF_vars(Reader) /\ WF_vars(Writer)
  /\ WF_vars(owner # "live" /\ Destructor)

-----------------------------------------------------------------------------
\* No thread runs on a stream whose members are gone.
JoinedBeforeDestroyed ==
  owner = "destroyed" => reader = "done" /\ writer = "done"

\* The destructor ends the program only for a stream that never connected; a
\* connection lost later, seen by either thread or by none, is torn down.
AbortsOnlyUnconnected ==
  owner = "aborted" => ~is_connected /\ ~is_disconnected

\* A destructor that waits for a thread blocked in read gets through once the
\* peer closes, with whatever the two buffers hold, if the flags are read again.
CloseReleasesDestructor ==
  (~optimised /\ owner \in {"clearing", "joinWrite"} /\ reader # "none" /\ peer = "closed")
    ~> owner = "destroyed"

\* The end of the peer is noticed as long as what it sent fits the read buffer,
\* which nobody empties, unless stop() makes the reader end before it comes to
\* that: a stopped stream never says that it lost its peer.
CloseIsNoticed ==
  (/\ owner = "live" /\ is_connected /\ peer = "closed"
   /\ read_buffer + inFlight < MaxBuffer)
    ~> \/ is_disconnected \/ owner # "live"
       \/ ~is_running /\ reader = "done"
=============================================================================
