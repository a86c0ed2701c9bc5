---------------------------- MODULE SocketThread ----------------------------
(***************************************************************************)
(* cjunk/practice/UDPServer2.cc: a Socket and the SocketThread that calls  *)
(* its callback with every datagram, as test_socket_thread uses them.  The *)
(* datagrams are counted.  Any of them may be lost, "hello" included.      *)
(* m_running is a plain bool that two threads use; every turn of the loop  *)
(* makes calls the compiler cannot see through, so each turn reads it.     *)
(***************************************************************************)
EXTENDS Naturals

CONSTANT MaxDatagrams    \* bound: datagrams that ever reach the socket

VARIABLES
  main,        \* what test_socket_thread does next
  thread,      \* where run is
  m_running,
  sock,        \* whether the descriptor is open
  waiting,     \* datagrams in the socket's buffer
  arrived,     \* history: datagrams that reached the socket
  late         \* history: callbacks made after m_running was cleared

udpVars == <<main, thread, m_running, sock, waiting, arrived, late>>

UdpInit ==
  /\ main = "Socket" /\ thread = "none" /\ m_running = FALSE /\ sock = FALSE
  /\ waiting = 0 /\ arrived = 0 /\ late = 0

Alive == main # "exited"

\* exit(1): the process is gone, threads and all.
exit == main' = "exited" /\ UNCHANGED <<thread, m_running, sock, waiting, arrived, late>>

\* socket and bind, either of which may fail.
Socket ==
  /\ main = "Socket"
  /\ \/ /\ sock' = TRUE /\ main' = "SocketThread"
        /\ UNCHANGED <<thread, m_running, waiting, arrived, late>>
     \/ exit

Start ==
  /\ main = "SocketThread" /\ main' = "send"
  /\ m_running' = TRUE /\ thread' = "test"
  /\ UNCHANGED <<sock, waiting, arrived, late>>

\* A datagram reaches the socket.
Arrive ==
  /\ arrived < MaxDatagrams
  /\ arrived' = arrived + 1 /\ waiting' = waiting + 1

\* s.send("hello") goes to the socket's own port.
send ==
  /\ main = "send" /\ main' = "stop"
  /\ Arrive \/ UNCHANGED <<waiting, arrived>>
  /\ UNCHANGED <<thread, m_running, sock, late>>

\* Slip: the destructor joins without clearing m_running.
StopButRunning ==
  /\ main = "stop" /\ main' = "join"
  /\ UNCHANGED <<thread, m_running, sock, waiting, arrived, late>>

Stop ==
  /\ main = "stop" /\ main' = "join"
  /\ m_running' = FALSE
  /\ UNCHANGED <<thread, sock, waiting, arrived, late>>

\* Slip: the thread is detached.
JoinDetached ==
  /\ main = "join" /\ main' = "close"
  /\ UNCHANGED <<thread, m_running, sock, waiting, arrived, late>>

Join ==
  /\ main = "join" /\ thread = "done" /\ main' = "close"
  /\ UNCHANGED <<thread, m_running, sock, waiting, arrived, late>>

Close ==
  /\ main = "close" /\ main' = "over"
  /\ sock' = FALSE
  /\ UNCHANGED <<thread, m_running, waiting, arrived, late>>

Test ==
  /\ thread = "test"
  /\ thread' = IF m_running THEN "recvfrom" ELSE "done"
  /\ UNCHANGED <<main, m_running, sock, waiting, arrived, late>>

\* recvfrom waits for a datagram.
recvfrom ==
  /\ thread = "recvfrom" /\ waiting > 0
  /\ waiting' = waiting - 1 /\ thread' = "recv"
  /\ UNCHANGED <<main, m_running, sock, arrived, late>>

\* It may also fail, and then the process ends.
RecvfromFails == thread = "recvfrom" /\ exit

\* socket->recv(data)
Callback ==
  /\ thread = "recv" /\ thread' = "test"
  /\ late' = IF m_running THEN late ELSE late + 1
  /\ UNCHANGED <<main, m_running, sock, waiting, arrived>>

Peer == sock /\ Arrive /\ UNCHANGED <<main, thread, m_running, sock, late>>

Main == Socket \/ Start \/ send \/ Stop \/ Join \/ Close
Run == Test \/ recvfrom \/ Callback

\* The program is over, or waits for a datagram nobody sends.
Rest ==
  /\ ~Alive \/ main = "over" \/ (main = "join" /\ thread = "recvfrom" /\ waiting = 0)
  /\ UNCHANGED udpVars

UdpNext ==
  \/ Alive /\ (Main \/ Run \/ RecvfromFails \/ Peer)
  \/ Rest

\* Both threads run; no call need fail, and the network owes the program nothing.
UdpFairness == WF_udpVars(Alive /\ Main) /\ WF_udpVars(Alive /\ Run)

UdpSpec == UdpInit /\ [][UdpNext]_udpVars /\ UdpFairness

-----------------------------------------------------------------------------
\* recvfrom and the callback only ever use an open socket that still exists,
\* and at most one callback is made after the destructor cleared m_running.
SocketOutlivesThread ==
  /\ (Alive /\ thread \in {"test", "recvfrom", "recv"}) => sock
  /\ late <= 1

\* A destructor that has begun to wait returns if a datagram is there.
DatagramReleasesDestructor ==
  (main = "join" /\ waiting > 0) ~> (main \in {"over", "exited"})
=============================================================================
