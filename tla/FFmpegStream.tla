---------------------------- MODULE FFmpegStream ----------------------------
(***************************************************************************)
(* cjunk/practice/networkframeStream.cpp: FFmpegNetworkStream, which owns  *)
(* a FFmpegNetworkStreamReader with two threads and a                      *)
(* FFmpegNetworkStreamWriter with none (its start is empty).               *)
(*                                                                         *)
(* The input and output of the two loops is compiled out, so a connected   *)
(* loop spins without calling anything.  The flags are plain bools: an     *)
(* optimising build may keep such a loop's flags in registers, so in one   *)
(* build every turn re-reads them and in another a connected loop may go   *)
(* on with what it read before; a loop that sleeps re-reads them.          *)
(***************************************************************************)
EXTENDS Naturals

VARIABLES
  optimised,     \* whether this build may keep the flags in registers
  owner,         \* what the thread that owns the stream is doing
  loop,          \* read_thread_ and write_thread_ of the reader
  seen,          \* the is_running_ each loop last read
  is_running, is_reading, is_writing,    \* flags of the reader
  connected,     \* is_connected_ of the reader and of the writer
  open           \* whether the socket of each is open

flags == <<is_running, is_reading, is_writing>>
vars == <<optimised, owner, loop, seen, flags, connected, open>>

Threads == {"read", "write"}
Ends == {"reader", "writer"}
Init ==
  /\ optimised \in BOOLEAN
  /\ owner = "construct"
  /\ loop = [t \in Threads |-> "none"] /\ seen = [t \in Threads |-> FALSE]
  /\ is_running = FALSE /\ is_reading = FALSE /\ is_writing = FALSE
  /\ connected = [e \in Ends |-> FALSE] /\ open = [e \in Ends |-> FALSE]

-----------------------------------------------------------------------------
\* What a constructor leaves: if it fails to resolve or to connect, an
\* unconnected end, which is not reported to the stream.
Connect(e) == \E c \in BOOLEAN : /\ connected' = [connected EXCEPT ![e] = c]
                                /\ open' = [open EXCEPT ![e] = c]

ConstructReader ==
  /\ owner = "construct" /\ owner' = "constructWriter" /\ Connect("reader")
  /\ UNCHANGED <<optimised, loop, seen, flags>>

ConstructWriter ==
  /\ owner = "constructWriter" /\ owner' = "start" /\ Connect("writer")
  /\ UNCHANGED <<optimised, loop, seen, flags>>

\* reader_.start() starts both threads; writer_.start() does nothing.
Start ==
  /\ owner = "start" /\ owner' = "live"
  /\ is_running' = TRUE /\ is_reading' = TRUE /\ is_writing' = TRUE
  /\ loop' = [t \in Threads |-> "test"]
  /\ UNCHANGED <<optimised, seen, connected, open>>

\* Slip: stop leaves the flag that ends the loops alone.
StopButRunning ==
  /\ owner \in {"live", "stopping"}
  /\ is_reading' = FALSE /\ is_writing' = FALSE
  /\ owner' = "joinRead"
  /\ UNCHANGED <<optimised, loop, seen, is_running, connected, open>>

\* reader_.stop(): the stores become visible before the joins.
Stop ==
  /\ \/ owner = "live" /\ owner' = "stopping"
        /\ is_running' = FALSE /\ UNCHANGED <<is_reading, is_writing>>
     \/ owner = "stopping" /\ owner' = "joinRead"
        /\ is_reading' = FALSE /\ is_writing' = FALSE /\ UNCHANGED is_running
  /\ UNCHANGED <<optimised, loop, seen, connected, open>>

\* read_thread_.join(), write_thread_.join(), then writer_.stop().
Join ==
  /\ \/ owner = "joinRead" /\ loop["read"] = "done" /\ owner' = "joinWrite"
     \/ owner = "joinWrite" /\ loop["write"] = "done" /\ owner' = "destroyWriter"
  /\ UNCHANGED <<optimised, loop, seen, flags, connected, open>>

\* ~FFmpegNetworkStreamReader and ~FFmpegNetworkStreamWriter.
Close(e) == open' = [open EXCEPT ![e] = IF connected[e] THEN FALSE ELSE @]

\* The members go in the reverse of their order.
DestroyWriter ==
  /\ owner = "destroyWriter" /\ Close("writer") /\ owner' = "destroyReader"
  /\ UNCHANGED <<optimised, loop, seen, flags, connected>>

DestroyReader ==
  /\ owner = "destroyReader" /\ Close("reader") /\ owner' = "over"
  /\ UNCHANGED <<optimised, loop, seen, flags, connected>>

-----------------------------------------------------------------------------
\* while (is_running_)
Test(t) ==
  /\ loop[t] = "test"
  /\ loop' = [loop EXCEPT ![t] = IF is_running THEN "body" ELSE "done"]
  /\ seen' = [seen EXCEPT ![t] = is_running]
  /\ UNCHANGED <<optimised, owner, flags, connected, open>>

\* The body does nothing but sleep, if not connected or told to pause, before
\* the loop tests again.
Body(t) ==
  /\ loop[t] = "body"
  /\ loop' = [loop EXCEPT ![t] = "test"]
  /\ UNCHANGED <<optimised, owner, seen, flags, connected, open>>

\* A loop that does not sleep may go on with the flags it holds in registers.
Spin(t) ==
  /\ optimised /\ connected["reader"]
  /\ loop[t] = "test" /\ seen[t]
  /\ loop' = [loop EXCEPT ![t] = "body"]
  /\ UNCHANGED <<optimised, owner, seen, flags, connected, open>>

\* read_loop and write_loop differ only in the flag that makes them sleep.
Turn(t) == Test(t) \/ Body(t) \/ Spin(t)

\* The constructor of the stream, then its destructor.
Owner ==
  \/ ConstructReader \/ ConstructWriter \/ Start
  \/ Stop \/ Join \/ DestroyWriter \/ DestroyReader

Over == owner = "over" /\ UNCHANGED vars

Next == Owner \/ (\E t \in Threads : Turn(t)) \/ Over

\* main destroys the stream as soon as it is built; the scheduler runs all
\* three threads.
Spec ==
  /\ Init /\ [][Next]_vars
  /\ WF_vars(Owner) /\ \A t \in Threads : WF_vars(Turn(t))

-----------------------------------------------------------------------------
\* No loop is running when the socket it may use is closed and the reader goes.
LoopsEndBeforeReader ==
  owner \in {"destroyReader", "over"} => \A t \in Threads : loop[t] = "done"

\* Whatever connected, no socket is left open when the stream is gone.
SocketsClosed == owner = "over" => open = [e \in Ends |-> FALSE]

\* The destructor returns in a build that reads the flags again, and in every
\* build if the reader never connected, because its loops then sleep.
DestructorReturns ==
  (~optimised \/ (owner # "construct" /\ ~connected["reader"])) ~> (owner = "over")
=============================================================================
