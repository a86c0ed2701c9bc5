------------------------------ MODULE MCTasks ------------------------------
(***************************************************************************)
(* The programs with a task or a thread, and sendFile: a behaviour is one  *)
(* of one of them.  Variables of the same name stand for what that program *)
(* calls so; those it does not have are Idle.                              *)
(***************************************************************************)
EXTENDS ParticleFilter

CONSTANTS Chars, Byte255, EOF, MaxTyped, MaxQueue, MaxDatagrams, NumFiles

ASSUME InputAssumption == EOF \notin Chars

VARIABLES
  program,
  main, late, m_running, stdin, ended, typed,
  task, m_queue, alive, c, printed, pastEnd,
  thread, sock, waiting, arrived,
  io, policy, running, mode,
  at, open, files, fds, status

Input == INSTANCE StandardInput
Udp == INSTANCE SocketThread
Async == INSTANCE AsyncIo
SF == INSTANCE SendFile

Idle == 0
sendVars == <<at, open, files, fds, status>>
ownInput == <<task, m_queue, alive, c, printed, pastEnd>>
ownUdp == <<thread, sock, waiting, arrived>>
ownAsync == <<io, policy, running, mode>>
inputVars == <<main, late, m_running, stdin, ended, typed, ownInput>>
udpVars == <<main, late, m_running, ownUdp>>
ioVars == <<main, late, stdin, ended, typed, ownAsync>>
taskVars == <<program, vars, main, late, m_running, stdin, ended, typed,
              ownInput, ownUdp, ownAsync, sendVars>>

TasksInit ==
  /\ program \in {"ParticleFilter", "StandardInput", "UDPServer2", "asyncio", "sendFile"}
  /\ Init /\ (program # "ParticleFilter" => num_iterations = 0)
  /\ \/ program = "StandardInput" /\ Input!Init
     \/ program = "UDPServer2" /\ Udp!UdpInit
     \/ program = "asyncio" /\ Async!IoInit
     \/ program \in {"ParticleFilter", "sendFile"} /\ main = "none" /\ late = Idle
  /\ program \notin {"StandardInput", "UDPServer2"} => m_running = Idle
  /\ program \notin {"StandardInput", "asyncio"} =>
       stdin = Idle /\ ended = Idle /\ typed = Idle
  /\ program # "StandardInput" =>
       /\ task = Idle /\ m_queue = Idle /\ alive = Idle
       /\ c = Idle /\ printed = Idle /\ pastEnd = Idle
  /\ program # "UDPServer2" =>
       thread = Idle /\ sock = Idle /\ waiting = Idle /\ arrived = Idle
  /\ program # "asyncio" => io = Idle /\ policy = Idle /\ running = Idle /\ mode = Idle
  /\ IF program = "sendFile" THEN SF!SendInit
     ELSE at = Idle /\ open = Idle /\ files = Idle /\ fds = Idle /\ status = Idle

TasksNext ==
  /\ \/ /\ program = "ParticleFilter" /\ Next
        /\ UNCHANGED <<main, late, m_running, stdin, ended, typed,
                       ownInput, ownUdp, ownAsync, sendVars>>
     \/ /\ program = "StandardInput" /\ Input!Next
        /\ UNCHANGED <<vars, ownUdp, ownAsync, sendVars>>
     \/ /\ program = "UDPServer2" /\ Udp!UdpNext
        /\ UNCHANGED <<vars, stdin, ended, typed, ownInput, ownAsync, sendVars>>
     \/ /\ program = "asyncio" /\ Async!IoNext
        /\ UNCHANGED <<vars, m_running, ownInput, ownUdp, sendVars>>
     \/ /\ program = "sendFile" /\ SF!SendNext
        /\ UNCHANGED <<vars, main, late, m_running, stdin, ended, typed,
                       ownInput, ownUdp, ownAsync>>
  /\ UNCHANGED program

\* The fairness of each program's own specification.
TasksSpec ==
  /\ TasksInit /\ [][TasksNext]_taskVars
  /\ WF_vars(program = "ParticleFilter" /\ Run)
  /\ \A f \in 1 .. NumParticles * MaxIterations :
       WF_vars(program = "ParticleFilter" /\ f \in DOMAIN futures /\ update(f))
  /\ WF_inputVars(program = "StandardInput" /\ Input!Main)
  /\ WF_inputVars(program = "StandardInput" /\ Input!Task)
  /\ WF_udpVars(program = "UDPServer2" /\ Udp!Alive /\ Udp!Main)
  /\ WF_udpVars(program = "UDPServer2" /\ Udp!Alive /\ Udp!Run)
  /\ WF_ioVars(program = "asyncio" /\ Async!Main)
  /\ WF_ioVars(program = "asyncio" /\ Async!Io)

-----------------------------------------------------------------------------
\* run_pf ends.
FilterEnds == (program = "ParticleFilter") ~> (pc \in Ends)

\* Every byte read from stdin is queued or printed, once and in order.
NothingLost == program = "StandardInput" => Input!NothingLost

\* The task takes at most one byte after m_running is cleared.
OneLateRead == program = "StandardInput" => Input!OneLateRead

\* The destructor of StandardInput returns once there is a byte or the end.
DestructorReturns ==
  (program = "StandardInput" /\ main = "wait" /\ (ended \/ stdin # <<>>)) ~> (main = "over")

\* The thread uses an open socket only, and makes at most one late callback.
SocketOutlivesThread == program = "UDPServer2" => Udp!SocketOutlivesThread

\* The destructor of SocketThread returns if a datagram is there.
DatagramReleasesDestructor ==
  (program = "UDPServer2" /\ main = "join" /\ waiting > 0) ~> (main \in {"over", "exited"})

\* asyncio leaves the terminal in its normal mode, having taken at most one
\* character too many; it completes once there is a character or the end.
MainCompletes ==
  (program = "asyncio" /\ main = "wait" /\ (ended \/ stdin > 0 \/ policy = "deferred"))
    ~> (main = "complete" /\ mode = "normal" /\ late <= 1)

\* main of sendFile exits before it sends anything.
NothingIsSent == program = "sendFile" => SF!NothingIsSent
=============================================================================
