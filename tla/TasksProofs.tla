----------------------------- MODULE TasksProofs -----------------------------
(***************************************************************************)
(* The programs with a task or a thread, and sendFile, for every number of *)
(* particles, iterations, bytes, datagrams and files.                      *)
(***************************************************************************)
EXTENDS MCTasks, WellFoundedInduction, TLAPS

(* UDPServer2 *)

\* The destructor is past join only if run has left its loop; a late callback
\* is followed by the test that ends the loop.
UdpInv ==
  /\ thread \in {"none", "test", "recvfrom", "recv", "done"}
  /\ late \in {0, 1}
  /\ main \in {"Socket", "SocketThread"} => thread = "none" /\ late = 0
  /\ main \in {"SocketThread", "send", "stop", "join"} => sock = TRUE
  /\ main \in {"close", "over"} => thread = "done"
  /\ main \in {"Socket", "SocketThread", "send", "stop", "join", "close", "over", "exited"}
  /\ late = 1 => m_running = FALSE /\ thread \in {"test", "done"}

LEMMA UdpStepInv == ASSUME UdpInv, Udp!UdpNext PROVE UdpInv'
<1> USE DEF UdpInv, Udp!Alive, Udp!exit
<1>1. CASE main # "exited" /\ Udp!Main
  BY <1>1 DEF Udp!Main, Udp!Socket, Udp!Start, Udp!send, Udp!Stop, Udp!Join, Udp!Close
<1>2. CASE main # "exited" /\ Udp!Run
  BY <1>2 DEF Udp!Run, Udp!Test, Udp!recvfrom, Udp!Callback
<1>3. CASE Udp!RecvfromFails \/ Udp!Peer
  BY <1>3 DEF Udp!RecvfromFails, Udp!Peer
<1>4. CASE Udp!Rest
  BY <1>4 DEF Udp!Rest, Udp!udpVars
<1> QED
  BY <1>1, <1>2, <1>3, <1>4 DEF Udp!UdpNext

-----------------------------------------------------------------------------
(* asyncio *)

\* io is past normal() only with the terminal put back, and a character read
\* late is followed by the test that ends its loop.
AsyncInv ==
  /\ io \in {"raw", "test", "getch", "normal", "done"}
  /\ late \in {0, 1}
  /\ late = 1 => running = FALSE /\ io \in {"test", "normal", "done"}
  /\ io \in {"raw", "done"} => mode = "normal"
  /\ main = "complete" => io = "done"

LEMMA AsyncStepInv == ASSUME AsyncInv, Async!IoNext PROVE AsyncInv'
<1> USE DEF AsyncInv
<1>1. CASE Async!Main
  BY <1>1 DEF Async!Main, Async!wait_for, Async!clear, Async!wait
<1>2. CASE Async!Io
  BY <1>2 DEF Async!Io, Async!raw, Async!test, Async!getch, Async!normal
<1>3. CASE Async!Type \/ Async!End
  BY <1>3 DEF Async!Type, Async!End
<1>4. CASE UNCHANGED Async!ioVars
  BY <1>4 DEF Async!ioVars
<1> QED
  BY <1>1, <1>2, <1>3, <1>4 DEF Async!IoNext

-----------------------------------------------------------------------------
(* sendFile *)

\* Up to the first file both vectors are empty; the temporary File closes that
\* file before the FileDescriptor made for it is destroyed.
SendInv ==
  /\ at \in {"Socket", "Server", "Listen", "Accept", "File"} => files = <<>> /\ fds = <<>>
  /\ at = "~File" => fds = <<>> /\ \E d \in open : files = <<d>>
  /\ at = "FileDescriptor" => fds = <<>> /\ \E d : d \notin open /\ files = <<d>>
  /\ at = "exited" => status = 1 /\ (fds = <<>> \/ \E d : fds = <<d>>)
  /\ at \in {"Socket", "Server", "Listen", "Accept", "File", "~File", "FileDescriptor",
             "exited"}

LEMMA SendStepInv == ASSUME SendInv, SF!SendNext PROVE SendInv'
<1> USE DEF SendInv
<1>1. CASE SF!Socket \/ SF!Accept
  BY <1>1 DEF SF!Socket, SF!Accept, SF!Acquire, SF!exit
<1>2. CASE SF!Server \/ SF!Listen
  BY <1>2 DEF SF!Server, SF!Listen, SF!Configure, SF!exit
<1>3. CASE SF!File
  <2>1. PICK d : d = SF!LowestFree
    OBVIOUS
  <2> QED
    BY <1>3, <2>1 DEF SF!File, SF!exit
<1>4. CASE SF!DestroyFile
  <2>1. PICK d \in open : files = <<d>>
    BY <1>4 DEF SF!DestroyFile
  <2>2. files[Len(files)] = d
    BY <2>1
  <2> QED
    BY <1>4, <2>1, <2>2 DEF SF!DestroyFile, SF!Release
<1>5. CASE SF!FileDescriptor
  <2>1. PICK d : d \notin open /\ files = <<d>>
    BY <1>5 DEF SF!FileDescriptor
  <2>2. files[Len(files)] = d
    BY <2>1
  <2>3. fds = <<>> /\ fds' = <<d>>
    BY <1>5, <2>2 DEF SF!FileDescriptor
  <2>4. at' = "exited" /\ status' = 1
    BY <1>5, <2>1, <2>2 DEF SF!FileDescriptor, SF!Release
  <2> QED
    BY <2>3, <2>4
<1>6. CASE UNCHANGED SF!sendVars
  BY <1>6 DEF SF!sendVars
<1> QED
  BY <1>1, <1>2, <1>3, <1>4, <1>5, <1>6 DEF SF!SendNext

-----------------------------------------------------------------------------
(* StandardInput *)

\* A set of numbers that is not empty has a least member: what a counterexample
\* to a statement about all numbers is found with.
LEMMA Least ==
  ASSUME NEW T, T \subseteq Nat, T # {}
  PROVE  \E x \in T : \A y \in T : x <= y
<1>1. PICK x \in T : \A y \in T : ~ (<<y, x>> \in OpToRel(<, Nat))
  BY NatLessThanWellFounded, WFMin
<1>2. \A y \in T : ~ (y < x)
  BY <1>1 DEF OpToRel
<1> QED
  BY <1>2

\* The function Visible is defined with, up to m: Extend is one turn.
Extend(t, b) == IF b = Byte255 THEN t ELSE Append(t, b)
IsKept(k, s, m) ==
  k = [n \in 0 .. m |-> IF n = 0 THEN <<>>
                        ELSE IF s[n] = Byte255 THEN k[n - 1]
                        ELSE Append(k[n - 1], s[n])]

LEMMA KeptValues ==
  ASSUME NEW k, NEW s, NEW m \in Nat, IsKept(k, s, m)
  PROVE  k[0] = <<>> /\ \A n \in 1 .. m : k[n] = Extend(k[n - 1], s[n])
<1> DEFINE body(n) == IF n = 0 THEN <<>>
                      ELSE IF s[n] = Byte255 THEN k[n - 1] ELSE Append(k[n - 1], s[n])
<1>1. \A n \in 0 .. m : k[n] = body(n)
  BY DEF IsKept
<1> QED
  BY <1>1 DEF Extend

LEMMA KeptFrom ==
  ASSUME NEW k, NEW s, NEW m \in Nat,
         k = [n \in 0 .. m |-> k[n]], k[0] = <<>>,
         \A n \in 1 .. m : k[n] = Extend(k[n - 1], s[n])
  PROVE  IsKept(k, s, m)
<1> DEFINE body(n) == IF n = 0 THEN <<>>
                      ELSE IF s[n] = Byte255 THEN k[n - 1] ELSE Append(k[n - 1], s[n])
<1>1. \A n \in 0 .. m : k[n] = body(n)
  BY DEF Extend
<1>2. k = [n \in 0 .. m |-> body(n)]
  BY <1>1
<1> QED
  BY <1>2 DEF IsKept

LEMMA KeptExists ==
  ASSUME NEW s, NEW m \in Nat
  PROVE  \E k : IsKept(k, s, m)
<1> DEFINE T == {n \in Nat : ~ \E k : IsKept(k, s, n)}
<1> SUFFICES ASSUME T # {} PROVE FALSE
  OBVIOUS
<1>1. PICK x \in T : \A y \in T : x <= y
  <2> HIDE DEF T
  <2>1. T \subseteq Nat
    BY DEF T
  <2> QED
    BY <2>1, Least
<1>2. CASE x = 0
  <2> DEFINE k == [n \in 0 .. 0 |-> <<>>]
  <2>1. k = [n \in 0 .. 0 |-> k[n]] /\ k[0] = <<>>
    OBVIOUS
  <2>2. \A n \in 1 .. 0 : k[n] = Extend(k[n - 1], s[n])
    OBVIOUS
  <2> HIDE DEF k
  <2>3. IsKept(k, s, 0)
    BY <2>1, <2>2, KeptFrom
  <2> QED
    BY <1>1, <1>2, <2>3
<1>3. CASE x # 0
  <2>1. PICK m0 \in Nat : m0 = x - 1
    BY <1>3
  <2>2. PICK k0 : IsKept(k0, s, m0)
    BY <1>1, <2>1
  <2>3. k0[0] = <<>> /\ \A n \in 1 .. m0 : k0[n] = Extend(k0[n - 1], s[n])
    BY <2>2, KeptValues
  <2> DEFINE k == [n \in 0 .. x |-> IF n = x THEN Extend(k0[m0], s[x]) ELSE k0[n]]
  <2>4. k = [n \in 0 .. x |-> k[n]] /\ k[0] = <<>>
    BY <2>3, <1>3
  <2>5. \A n \in 1 .. x : k[n] = Extend(k[n - 1], s[n])
    BY <2>1, <2>3
  <2> HIDE DEF k
  <2>6. IsKept(k, s, x)
    BY <2>4, <2>5, KeptFrom
  <2> QED
    BY <1>1, <2>6
<1> QED
  BY <1>2, <1>3

\* Visible(s) is the last value of some such function.
LEMMA VisibleKept ==
  ASSUME NEW s, Len(s) \in Nat
  PROVE  \E k : IsKept(k, s, Len(s)) /\ Input!Visible(s) = k[Len(s)]
<1> DEFINE kept == CHOOSE k : IsKept(k, s, Len(s))
<1>1. IsKept(kept, s, Len(s))
  BY KeptExists
<1>2. Input!Visible(s) = kept[Len(s)]
  BY DEF Input!Visible, IsKept
<1> QED
  BY <1>1, <1>2

\* Two of them agree as long as the sequences do.
LEMMA KeptAgree ==
  ASSUME NEW s, NEW t, NEW m \in Nat, NEW l \in Nat, NEW k, NEW h, m <= l,
         IsKept(k, s, m), IsKept(h, t, l), \A n \in 1 .. m : s[n] = t[n]
  PROVE  k[m] = h[m]
<1> DEFINE T == {n \in 0 .. m : k[n] # h[n]}
<1> SUFFICES ASSUME T # {} PROVE FALSE
  OBVIOUS
<1>1. PICK x \in T : \A y \in T : x <= y
  <2> HIDE DEF T
  <2>1. T \subseteq Nat
    BY DEF T
  <2> QED
    BY <2>1, Least
<1>2. /\ k[0] = <<>> /\ h[0] = <<>>
      /\ \A n \in 1 .. m : k[n] = Extend(k[n - 1], s[n])
      /\ \A n \in 1 .. l : h[n] = Extend(h[n - 1], t[n])
  BY KeptValues
<1>3. x \in 1 .. m /\ x - 1 \in 0 .. m /\ k[x - 1] = h[x - 1]
  BY <1>1, <1>2
<1>4. k[x] = Extend(k[x - 1], s[x]) /\ h[x] = Extend(h[x - 1], t[x])
  BY <1>2, <1>3
<1> QED
  BY <1>1, <1>3, <1>4

\* A byte more is seen or, if it is 255, not.
LEMMA VisibleAppend ==
  ASSUME NEW S, NEW s \in Seq(S), NEW b \in S
  PROVE  Input!Visible(Append(s, b)) = Extend(Input!Visible(s), b)
<1> DEFINE t == Append(s, b)
<1>1. /\ Len(s) \in Nat /\ Len(t) = Len(s) + 1 /\ t[Len(t)] = b
      /\ \A n \in 1 .. Len(s) : s[n] = t[n]
  OBVIOUS
<1> HIDE DEF t
<1>2. PICK k : IsKept(k, s, Len(s)) /\ Input!Visible(s) = k[Len(s)]
  BY <1>1, VisibleKept
<1>3. PICK h : IsKept(h, t, Len(t)) /\ Input!Visible(t) = h[Len(t)]
  BY <1>1, VisibleKept
<1>4. k[Len(s)] = h[Len(s)]
  BY <1>1, <1>2, <1>3, KeptAgree
<1>5. h[Len(t)] = Extend(h[Len(t) - 1], t[Len(t)])
  BY <1>1, <1>3, KeptValues
<1> QED
  BY <1>1, <1>2, <1>3, <1>4, <1>5 DEF t

LEMMA PopKeepsOrder ==
  ASSUME NEW p \in Seq(Chars), NEW q \in Seq(Chars), NEW r \in Seq(Chars), q # <<>>
  PROVE  Append(p, Head(q)) \o Tail(q) \o r = p \o q \o r
<1>1. Append(p, Head(q)) \o Tail(q) = p \o q
  OBVIOUS
<1> QED
  BY <1>1

LEMMA PushKeepsOrder ==
  ASSUME NEW p \in Seq(Chars), NEW q \in Seq(Chars), NEW b \in Chars
  PROVE  p \o Append(q, b) \o <<>> = p \o q \o <<b>>
<1>1. p \o q \in Seq(Chars) /\ p \o Append(q, b) \in Seq(Chars)
  OBVIOUS
<1>2. p \o Append(q, b) = Append(p \o q, b)
  OBVIOUS
<1>3. Append(p \o q, b) = p \o q \o <<b>>
  BY <1>1
<1> QED
  BY <1>1, <1>2, <1>3

\* What is on its way to main, the byte the task is about to push included.
Pending == IF task = "push" THEN <<c>> ELSE <<>>

\* A byte taken for EOF was the byte 255, so what the task holds while it is
\* about to push is the last byte it read.
InputInv ==
  /\ task \in {"test", "fread", "push", "done"}
  /\ late \in {0, 1}
  /\ late = 1 => m_running = FALSE /\ task \in {"test", "push", "done"}
  /\ stdin \in Seq(Chars) /\ typed \in Seq(Chars)
  /\ m_queue \in Seq(Chars) /\ printed \in Seq(Chars)
  /\ task = "push" => c \in Chars
  /\ pastEnd \in BOOLEAN
  /\ Input!NothingLost

\* The lemma is about what NothingLost compares.
LEMMA LostNothing ==
  Input!NothingLost <=>
    (~pastEnd => Input!Visible(typed) = Input!Visible(printed \o m_queue \o Pending))
  BY DEF Input!NothingLost, Pending

LEMMA HasCharInv == ASSUME InputInv, Input!hasChar \/ Input!Destruct \/ Input!DestroyMembers
                    PROVE  InputInv'
<1>1. /\ UNCHANGED <<task, m_queue, c, stdin, typed, printed, pastEnd, late>>
      /\ m_running' = m_running \/ m_running' = FALSE
  BY DEF Input!hasChar, Input!Destruct, Input!DestroyMembers, Input!outside
<1>2. Input!NothingLost'
  BY <1>1 DEF InputInv, Input!NothingLost
<1> QED
  BY <1>1, <1>2 DEF InputInv

LEMMA PopCharInv == ASSUME InputInv, Input!popChar PROVE InputInv'
<1>1. /\ m_queue # <<>> /\ m_queue' = Tail(m_queue)
      /\ printed' = IF pastEnd THEN printed ELSE Append(printed, Head(m_queue))
      /\ UNCHANGED <<task, m_running, c, stdin, typed, pastEnd, late>>
  BY DEF Input!popChar, Input!outside
<1>2. m_queue' \in Seq(Chars) /\ printed' \in Seq(Chars)
  BY <1>1 DEF InputInv
<1>3. Input!NothingLost'
  <2> SUFFICES ASSUME ~pastEnd
               PROVE  Input!Visible(typed') = Input!Visible(printed' \o m_queue' \o Pending')
    BY <1>1 DEF Input!NothingLost, Pending
  <2>1. Pending \in Seq(Chars) /\ Pending' = Pending
    BY <1>1 DEF InputInv, Pending
  <2>2. printed' \o m_queue' \o Pending = printed \o m_queue \o Pending
    <3>1. printed' \o m_queue' \o Pending
          = Append(printed, Head(m_queue)) \o Tail(m_queue) \o Pending
      BY <1>1
    <3>2. printed \in Seq(Chars) /\ m_queue \in Seq(Chars)
      BY DEF InputInv
    <3>3. Append(printed, Head(m_queue)) \o Tail(m_queue) \o Pending
          = printed \o m_queue \o Pending
      BY <1>1, <2>1, <3>2, PopKeepsOrder
    <3> QED
      BY <3>1, <3>3
  <2> QED
    BY <1>1, <2>1, <2>2, LostNothing DEF InputInv
<1> QED
  BY <1>1, <1>2, <1>3 DEF InputInv

LEMMA FreadInv == ASSUME InputInv, Input!Fread PROVE InputInv'
<1>1. /\ task = "fread" /\ task' = IF c' = EOF THEN "test" ELSE "push"
      /\ late' = IF m_running THEN late ELSE late + 1
      /\ UNCHANGED <<m_running, m_queue, printed>>
  BY DEF Input!Fread
<1>2. late' \in {0, 1} /\ (late' = 1 => m_running' = FALSE /\ task' \in {"test", "push", "done"})
  BY <1>1 DEF InputInv
<1>3. CASE stdin # <<>> /\ UNCHANGED pastEnd
  <2>1. PICK b \in Chars : b = Head(stdin)
    BY <1>3 DEF InputInv
  <2>2. /\ stdin' = Tail(stdin) /\ typed' = Append(typed, b)
        /\ c' = b \/ (c' = EOF /\ b = Byte255)
    BY <1>3, <2>1 DEF Input!Fread
  <2>3. /\ stdin' \in Seq(Chars) /\ typed' \in Seq(Chars)
        /\ task' = "push" => c' = b
    BY <1>1, <1>3, <2>1, <2>2, InputAssumption DEF InputInv
  <2>4. Input!NothingLost'
    <3> SUFFICES ASSUME ~pastEnd
                 PROVE  Input!Visible(typed') = Input!Visible(printed \o m_queue \o Pending')
      BY <1>1, <1>3 DEF Input!NothingLost, Pending
    <3> DEFINE q == printed \o m_queue
    <3>1. q \in Seq(Chars) /\ q \o <<>> = q /\ q \o <<b>> = Append(q, b) /\ Pending = <<>>
      BY <1>1, <2>1 DEF InputInv, Pending
    <3>2. Input!Visible(typed) = Input!Visible(q)
      BY <3>1, LostNothing DEF InputInv
    <3>3. /\ Input!Visible(typed') = Extend(Input!Visible(typed), b)
          /\ Input!Visible(Append(q, b)) = Extend(Input!Visible(q), b)
      BY <2>1, <2>2, <3>1, VisibleAppend DEF InputInv
    <3> HIDE DEF q
    <3>4. CASE c' = EOF
      <4>1. b = Byte255 /\ Pending' = <<>>
        BY <3>4, <1>1, <2>1, <2>2, InputAssumption DEF Pending
      <4> QED
        BY <3>1, <3>2, <3>3, <4>1 DEF Extend, q
    <3>5. CASE c' # EOF
      <4>1. Pending' = <<b>>
        BY <3>5, <1>1, <2>2 DEF Pending
      <4> QED
        BY <3>1, <3>2, <3>3, <4>1 DEF q
    <3> QED
      BY <3>4, <3>5
  <2> QED
    BY <1>1, <1>2, <1>3, <2>3, <2>4 DEF InputInv
<1>4. CASE pastEnd' = TRUE /\ c' \in Chars \cup {EOF} /\ UNCHANGED <<stdin, typed>>
  <2>1. Input!NothingLost'
    BY <1>4 DEF Input!NothingLost
  <2> QED
    BY <1>1, <1>2, <1>4, <2>1 DEF InputInv
<1> QED
  BY <1>3, <1>4 DEF Input!Fread

LEMMA PushInv == ASSUME InputInv, Input!Push PROVE InputInv'
<1>1. /\ task = "push" /\ task' = "test" /\ m_queue' = Append(m_queue, c)
      /\ UNCHANGED <<m_running, c, stdin, typed, printed, pastEnd, late>>
  BY DEF Input!Push, Input!outside
<1>2. c \in Chars /\ m_queue' \in Seq(Chars)
  BY <1>1 DEF InputInv
<1>3. printed' \o m_queue' \o <<>> = printed \o m_queue \o <<c>>
  <2>1. printed' \o m_queue' \o <<>> = printed \o Append(m_queue, c) \o <<>>
    BY <1>1
  <2>2. printed \in Seq(Chars) /\ m_queue \in Seq(Chars)
    BY DEF InputInv
  <2>3. printed \o Append(m_queue, c) \o <<>> = printed \o m_queue \o <<c>>
    BY <1>2, <2>2, PushKeepsOrder
  <2> QED
    BY <2>1, <2>3
<1>4. Pending = <<c>> /\ Pending' = <<>>
  BY <1>1 DEF Pending
<1>5. Input!NothingLost'
  BY <1>1, <1>3, <1>4, LostNothing DEF InputInv, Input!NothingLost
<1> QED
  BY <1>1, <1>2, <1>5 DEF InputInv

LEMMA InputStepInv == ASSUME InputInv, Input!Next PROVE InputInv'
<1>1. CASE Input!Test
  <2>1. Input!NothingLost'
    BY <1>1 DEF Input!Test, Input!outside, InputInv, Input!NothingLost
  <2> QED
    BY <1>1, <2>1 DEF Input!Test, Input!outside, InputInv
<1>2. CASE Input!Type \/ Input!End
  <2>1. stdin' \in Seq(Chars)
        /\ UNCHANGED <<task, m_running, m_queue, c, typed, printed, pastEnd, late>>
    <3>1. CASE Input!Type
      BY <3>1 DEF Input!Type, InputInv
    <3>2. CASE Input!End
      BY <3>2 DEF Input!End, InputInv
    <3> QED
      BY <1>2, <3>1, <3>2
  <2>2. Input!NothingLost'
    BY <2>1 DEF InputInv, Input!NothingLost
  <2> QED
    BY <2>1, <2>2 DEF InputInv
<1>3. CASE Input!Over
  BY <1>3 DEF Input!Over, Input!vars, Input!outside, InputInv, Input!NothingLost
<1> QED
  BY <1>1, <1>2, <1>3, HasCharInv, PopCharInv, FreadInv, PushInv
  DEF Input!Next, Input!Main, Input!Task

-----------------------------------------------------------------------------
(* ParticleFilter *)

Future == [particle : Particles, state : {"running", "ready", "failed", "invalid"}]

FilterTypes ==
  /\ num_iterations \in Nat /\ i \in {0, 1} /\ i <= num_iterations /\ j \in Particles
  /\ pc \in {"launch", "get", "weights", "unwind"} \cup Ends
  /\ futures \in Seq(Future)
  /\ updates \in [Particles -> Nat]

\* futures grows and is never cleared: the futures of the second iteration come
\* after those of the first, whose results have all been taken, and run_pf does
\* not get beyond the first of these.
FuturesInv ==
  /\ \A f \in DOMAIN futures :
       futures[f].particle = IF f <= NumParticles THEN f - 1 ELSE f - 1 - NumParticles
  /\ i = 0 => Len(futures) <= NumParticles
  /\ i = 1 => /\ Len(futures) >= NumParticles
              /\ \A f \in 1 .. NumParticles : futures[f].state = "invalid"
  /\ pc = "launch" => Len(futures) = (IF i = 0 THEN j ELSE NumParticles + j)
                      /\ (j # 0 => i < num_iterations)
  /\ pc = "get" => /\ i = 1 => j = 0
                   /\ i = 0 => /\ Len(futures) = NumParticles
                               /\ \A f \in 1 .. j : futures[f].state = "invalid"
  /\ pc = "weights" => /\ i = 0 /\ j = 0 /\ i < num_iterations
                       /\ Len(futures) = NumParticles
                       /\ \A f \in 1 .. NumParticles : futures[f].state = "invalid"
  /\ pc = "get" => i < num_iterations
  /\ pc \in {"returned", "unwound"} => \A f \in DOMAIN futures : futures[f].state # "running"
  /\ pc = "returned" => i = num_iterations

\* In the first iteration a particle is updated once, before its future is taken.
UpdatesInv ==
  /\ i = 0 /\ pc \in {"launch", "get", "weights"} =>
       \A p \in Particles :
         updates[p] = IF /\ p + 1 \in DOMAIN futures
                         /\ futures[p + 1].state \in {"ready", "invalid"}
                      THEN 1 ELSE 0
  /\ i = 1 => weights = [k \in 1 .. NumParticles |-> 1]

FilterInv == FilterTypes /\ FuturesInv /\ UpdatesInv

LEMMA NextParticle ==
  \A p \in Particles : (p + 1) % NumParticles = IF p + 1 = NumParticles THEN 0 ELSE p + 1
  BY FilterAssumption DEF Particles

LEMMA LaunchInv == ASSUME FilterInv, Launch PROVE FilterInv'
<1> DEFINE new == [particle |-> j, state |-> "running"]
<1>1. /\ pc = "launch" /\ i < num_iterations /\ i \in {0, 1} /\ j \in Particles
      /\ NumParticles \in Nat \ {0} /\ futures \in Seq(Future)
      /\ Len(futures) = (IF i = 0 THEN j ELSE NumParticles + j)
  BY FilterAssumption DEF Launch, FilterInv, FilterTypes, FuturesInv
<1>2. new \in Future
  BY <1>1 DEF Future
<1>3. /\ futures' = Append(futures, new) /\ futures' \in Seq(Future)
      /\ Len(futures') = Len(futures) + 1 /\ DOMAIN futures' = 1 .. Len(futures) + 1
      /\ futures'[Len(futures) + 1] = new
      /\ \A f \in 1 .. Len(futures) : futures'[f] = futures[f]
  BY <1>1, <1>2 DEF Launch
<1>4. /\ UNCHANGED <<num_iterations, i, updates, weights>>
      /\ j' = IF j + 1 = NumParticles THEN 0 ELSE j + 1
      /\ pc' = IF j + 1 = NumParticles THEN "get" ELSE "launch"
  BY <1>1, NextParticle DEF Launch
<1>5. DOMAIN futures = 1 .. Len(futures) /\ Len(futures) \in Nat
  BY <1>1
<1>6. FilterTypes'
  BY <1>1, <1>3, <1>4 DEF FilterInv, FilterTypes, Particles
<1>7. FuturesInv'
  <2>1. \A f \in DOMAIN futures' :
          futures'[f].particle = IF f <= NumParticles THEN f - 1 ELSE f - 1 - NumParticles
    <3> SUFFICES ASSUME NEW f \in 1 .. Len(futures) + 1
                 PROVE  futures'[f].particle
                        = IF f <= NumParticles THEN f - 1 ELSE f - 1 - NumParticles
      BY <1>3
    <3>1. CASE f = Len(futures) + 1
      BY <1>1, <1>3, <3>1 DEF Particles
    <3>2. CASE f \in 1 .. Len(futures)
      BY <1>3, <1>5, <3>2 DEF FilterInv, FuturesInv
    <3> QED
      BY <1>5, <3>1, <3>2
  <2>2. i = 0 => Len(futures') <= NumParticles
    BY <1>1, <1>3 DEF Particles
  <2>3. i = 1 => /\ Len(futures') >= NumParticles
                 /\ \A f \in 1 .. NumParticles : futures'[f].state = "invalid"
    BY <1>1, <1>3, <1>5 DEF FilterInv, FuturesInv, Particles
  <2>4. pc' = "launch" => Len(futures') = (IF i = 0 THEN j' ELSE NumParticles + j')
    BY <1>1, <1>3, <1>4 DEF Particles
  <2>5. pc' = "get" => j' = 0 /\ (i = 0 => Len(futures') = NumParticles)
    BY <1>1, <1>3, <1>4 DEF Particles
  <2> QED
    BY <1>1, <1>4, <2>1, <2>2, <2>3, <2>4, <2>5 DEF FuturesInv
<1>8. UpdatesInv'
  <2>1. ASSUME i = 0, NEW p \in Particles
        PROVE  (p + 1 \in DOMAIN futures' /\ futures'[p + 1].state \in {"ready", "invalid"})
               <=> (p + 1 \in DOMAIN futures /\ futures[p + 1].state \in {"ready", "invalid"})
    BY <1>1, <1>3, <1>5, <2>1 DEF Particles
  <2> QED
    BY <1>1, <1>4, <2>1 DEF FilterInv, UpdatesInv
<1> QED
  BY <1>6, <1>7, <1>8 DEF FilterInv

LEMMA SetState ==
  ASSUME NEW f \in DOMAIN futures, futures \in Seq(Future), NEW s,
         s \in {"running", "ready", "failed", "invalid"},
         futures' = [futures EXCEPT ![f].state = s]
  PROVE  /\ futures' \in Seq(Future) /\ Len(futures') = Len(futures)
         /\ DOMAIN futures' = 1 .. Len(futures) /\ DOMAIN futures = 1 .. Len(futures)
         /\ Len(futures) \in Nat
         /\ \A g \in DOMAIN futures : /\ futures'[g].particle = futures[g].particle
                                      /\ g # f => futures'[g] = futures[g]
         /\ futures'[f].state = s
<1> DEFINE new == [futures[f] EXCEPT !.state = s]
<1>1. futures' = [futures EXCEPT ![f] = new]
  OBVIOUS
<1>2. futures[f] \in Future
  OBVIOUS
<1>3. new \in Future /\ new.particle = futures[f].particle /\ new.state = s
  BY <1>2 DEF Future
<1> HIDE DEF new
<1> QED
  BY <1>1, <1>3

LEMMA GetInv == ASSUME FilterInv, Get PROVE FilterInv'
<1>1. /\ pc = "get" /\ i \in {0, 1} /\ j \in Particles /\ NumParticles \in Nat \ {0}
      /\ futures \in Seq(Future) /\ j + 1 \in 1 .. NumParticles
  BY FilterAssumption DEF Get, FilterInv, FilterTypes, Particles
<1>2. i = 0 /\ Len(futures) = NumParticles
  <2>1. CASE i = 1
    <3>1. futures[j + 1].state = "invalid"
      BY <1>1, <2>1 DEF FilterInv, FuturesInv
    <3> QED
      BY <3>1 DEF Get
  <2> QED
    BY <1>1, <2>1 DEF FilterInv, FuturesInv
<1>3. j + 1 \in DOMAIN futures
  BY <1>1, <1>2
<1>4. futures' = [futures EXCEPT ![j + 1].state = "invalid"]
  BY DEF Get
<1>5. /\ futures' \in Seq(Future) /\ Len(futures') = Len(futures)
      /\ DOMAIN futures' = 1 .. Len(futures) /\ DOMAIN futures = 1 .. Len(futures)
      /\ \A g \in DOMAIN futures : /\ futures'[g].particle = futures[g].particle
                                   /\ g # j + 1 => futures'[g] = futures[g]
      /\ futures'[j + 1].state = "invalid"
  BY <1>1, <1>3, <1>4, SetState
<1>6. /\ UNCHANGED <<num_iterations, i, updates, weights>>
      /\ j' = IF j + 1 = NumParticles THEN 0 ELSE j + 1
      /\ \/ /\ futures[j + 1].state = "ready"
            /\ pc' = IF j + 1 = NumParticles THEN "weights" ELSE "get"
         \/ pc' \in {"unwind", "terminated"}
  BY <1>1, NextParticle DEF Get
<1>7. FilterTypes'
  BY <1>1, <1>5, <1>6 DEF FilterInv, FilterTypes, Particles, Ends
<1>8. FuturesInv'
  <2>1. \A f \in DOMAIN futures' :
          futures'[f].particle = IF f <= NumParticles THEN f - 1 ELSE f - 1 - NumParticles
    BY <1>5 DEF FilterInv, FuturesInv
  <2>2. \A f \in 1 .. j + 1 : futures'[f].state = "invalid"
    <3>1. \A f \in 1 .. j : futures[f].state = "invalid"
      BY <1>1, <1>2 DEF FilterInv, FuturesInv
    <3> SUFFICES ASSUME NEW f \in 1 .. j + 1 PROVE futures'[f].state = "invalid"
      OBVIOUS
    <3>2. f \in DOMAIN futures /\ (f # j + 1 => f \in 1 .. j)
      BY <1>1, <1>2, <1>5 DEF Particles
    <3> QED
      BY <1>5, <3>1, <3>2
  <2>3. i < num_iterations
    BY <1>1 DEF FilterInv, FuturesInv
  <2> QED
    BY <1>1, <1>2, <1>5, <1>6, <2>1, <2>2, <2>3 DEF FuturesInv, Particles
<1>9. UpdatesInv'
  <2>1. ASSUME NEW p \in Particles, futures[j + 1].state = "ready"
        PROVE  (p + 1 \in DOMAIN futures' /\ futures'[p + 1].state \in {"ready", "invalid"})
               <=> (p + 1 \in DOMAIN futures /\ futures[p + 1].state \in {"ready", "invalid"})
    <3>1. p + 1 \in DOMAIN futures /\ p + 1 \in DOMAIN futures'
      BY <1>1, <1>2, <1>5 DEF Particles
    <3>2. CASE p = j
      <4>1. futures'[p + 1].state = "invalid" /\ futures[p + 1].state = "ready"
        BY <1>5, <2>1, <3>2
      <4> QED
        BY <3>1, <4>1
    <3>3. CASE p # j
      <4>1. p + 1 # j + 1
        BY <1>1, <3>3 DEF Particles
      <4>2. futures'[p + 1] = futures[p + 1]
        BY <1>5, <3>1, <4>1
      <4> QED
        BY <3>1, <4>2
    <3> QED
      BY <3>2, <3>3
  <2>2. CASE futures[j + 1].state = "ready"
    BY <1>1, <1>2, <1>6, <2>1, <2>2 DEF FilterInv, UpdatesInv
  <2>3. CASE pc' \in {"unwind", "terminated"}
    BY <1>2, <1>6, <2>3 DEF FilterInv, UpdatesInv
  <2> QED
    BY <1>6, <2>2, <2>3
<1> QED
  BY <1>7, <1>8, <1>9 DEF FilterInv

LEMMA GetInvalidInv == ASSUME FilterInv, GetInvalid PROVE FilterInv'
  BY DEF FilterInv, GetInvalid, FilterTypes, FuturesInv, UpdatesInv, Ends

LEMMA CollectWeightsInv == ASSUME FilterInv, CollectWeights PROVE FilterInv'
<1>1. /\ i = 0 /\ j = 0 /\ i < num_iterations /\ Len(futures) = NumParticles
      /\ \A f \in 1 .. NumParticles : futures[f].state = "invalid"
      /\ futures \in Seq(Future) /\ NumParticles \in Nat \ {0}
  BY FilterAssumption DEF CollectWeights, FilterInv, FilterTypes, FuturesInv
<1>2. /\ pc' = "launch" /\ i' = 1
      /\ UNCHANGED <<num_iterations, j, futures, updates>>
  BY <1>1 DEF CollectWeights
<1>3. FilterTypes'
  BY <1>1, <1>2 DEF FilterInv, FilterTypes
<1>4. FuturesInv'
  BY <1>1, <1>2 DEF FilterInv, FuturesInv
<1>5. \A k \in 1 .. NumParticles : updates[k - 1] = 1
  <2> SUFFICES ASSUME NEW k \in 1 .. NumParticles PROVE updates[k - 1] = 1
    OBVIOUS
  <2>1. PICK p \in Particles : p = k - 1
    BY <1>1 DEF Particles
  <2>2. p + 1 = k /\ p + 1 \in DOMAIN futures /\ futures[p + 1].state = "invalid"
    BY <1>1, <2>1 DEF Particles
  <2>3. updates[p] = 1
    BY <1>1, <2>2 DEF CollectWeights, FilterInv, UpdatesInv
  <2> QED
    BY <2>1, <2>3
<1>6. UpdatesInv'
  BY <1>2, <1>5 DEF CollectWeights, UpdatesInv
<1> QED
  BY <1>3, <1>4, <1>6 DEF FilterInv

LEMMA ReturnInv == ASSUME FilterInv, Return PROVE FilterInv'
<1>1. /\ pc = "launch" /\ pc' = "returned" /\ i = num_iterations
      /\ UNCHANGED <<num_iterations, i, j, futures, updates, weights>>
  BY DEF Return
<1>2. j = 0 /\ Len(futures) = (IF i = 0 THEN 0 ELSE NumParticles)
  BY <1>1, FilterAssumption DEF FilterInv, FilterTypes, FuturesInv, Particles
<1>3. \A f \in DOMAIN futures : futures[f].state # "running"
  BY <1>2 DEF FilterInv, FilterTypes, FuturesInv
<1>4. FilterTypes' /\ UpdatesInv'
  BY <1>1 DEF FilterInv, FilterTypes, UpdatesInv, Ends
<1>5. FuturesInv'
  BY <1>1, <1>3 DEF FilterInv, FuturesInv
<1> QED
  BY <1>4, <1>5 DEF FilterInv

LEMMA UnwindInv == ASSUME FilterInv, Unwind PROVE FilterInv'
  BY DEF FilterInv, Unwind, FilterTypes, FuturesInv, UpdatesInv, Ends

LEMMA UpdateInv == ASSUME FilterInv, NEW f \in DOMAIN futures, update(f) PROVE FilterInv'
<1>1. PICK s \in {"ready", "failed"} :
        /\ futures' = [futures EXCEPT ![f].state = s]
        /\ s = "ready" => updates' = [updates EXCEPT ![futures[f].particle] = @ + 1]
        /\ s = "failed" => updates' = updates
  BY DEF update
<1>2. /\ futures[f].state = "running" /\ futures \in Seq(Future)
      /\ UNCHANGED <<num_iterations, pc, i, j, weights>>
  BY DEF update, FilterInv, FilterTypes
<1>3. /\ futures' \in Seq(Future) /\ Len(futures') = Len(futures)
      /\ DOMAIN futures' = 1 .. Len(futures) /\ DOMAIN futures = 1 .. Len(futures)
      /\ Len(futures) \in Nat
      /\ \A g \in DOMAIN futures : /\ futures'[g].particle = futures[g].particle
                                   /\ g # f => futures'[g] = futures[g]
      /\ futures'[f].state = s
  BY <1>1, <1>2, SetState
<1>4. futures[f].particle \in Particles
  <2>1. futures[f] \in Future
    BY <1>2
  <2> QED
    BY <2>1 DEF Future
<1>5. updates' \in [Particles -> Nat]
  <2>1. updates \in [Particles -> Nat]
    BY DEF FilterInv, FilterTypes
  <2>2. PICK p \in Particles : p = futures[f].particle
    BY <1>4
  <2>3. CASE s = "ready"
    BY <1>1, <2>1, <2>2, <2>3
  <2> QED
    BY <1>1, <2>1, <2>3
<1>6. FilterTypes'
  BY <1>2, <1>3, <1>5 DEF FilterInv, FilterTypes
<1>7. \A g \in DOMAIN futures :
        /\ futures[g].state = "invalid" => futures'[g].state = "invalid"
        /\ futures[g].state # "running" => futures'[g].state # "running"
  BY <1>2, <1>3
<1>8. FuturesInv'
  <2>1. \A g \in DOMAIN futures' :
          futures'[g].particle = IF g <= NumParticles THEN g - 1 ELSE g - 1 - NumParticles
    BY <1>3 DEF FilterInv, FuturesInv
  <2>2. i = 1 => \A g \in 1 .. NumParticles : futures'[g].state = "invalid"
    BY <1>3, <1>7, FilterAssumption DEF FilterInv, FuturesInv
  <2>3. pc = "get" /\ i = 0 => \A g \in 1 .. j : futures'[g].state = "invalid"
    <3> SUFFICES ASSUME pc = "get", i = 0, NEW g \in 1 .. j
                 PROVE  futures'[g].state = "invalid"
      OBVIOUS
    <3>1. Len(futures) = NumParticles /\ futures[g].state = "invalid"
      BY DEF FilterInv, FuturesInv
    <3>2. j \in 0 .. NumParticles - 1
      BY DEF FilterInv, FilterTypes, Particles
    <3>3. g \in DOMAIN futures
      BY <1>3, <3>1, <3>2
    <3> QED
      BY <1>7, <3>1, <3>3
  <2>4. pc = "weights" => \A g \in 1 .. NumParticles : futures'[g].state = "invalid"
    BY <1>3, <1>7 DEF FilterInv, FuturesInv
  <2>5. pc \in {"returned", "unwound"} =>
          \A g \in DOMAIN futures' : futures'[g].state # "running"
    BY <1>3, <1>7 DEF FilterInv, FuturesInv
  <2> QED
    BY <1>2, <1>3, <2>1, <2>2, <2>3, <2>4, <2>5 DEF FilterInv, FuturesInv
<1>9. UpdatesInv'
  <2> SUFFICES ASSUME i = 0, pc \in {"launch", "get", "weights"}, NEW p \in Particles
               PROVE  updates'[p] = IF /\ p + 1 \in DOMAIN futures'
                                       /\ futures'[p + 1].state \in {"ready", "invalid"}
                                    THEN 1 ELSE 0
    BY <1>2 DEF FilterInv, UpdatesInv
  <2>1. f <= NumParticles /\ futures[f].particle = f - 1
    <3>1. Len(futures) <= NumParticles /\ f \in 1 .. Len(futures)
      BY <1>3 DEF FilterInv, FuturesInv
    <3>2. f <= NumParticles
      BY <1>3, <3>1, FilterAssumption
    <3> QED
      BY <3>2 DEF FilterInv, FuturesInv
  <2>2. updates[p] = IF /\ p + 1 \in DOMAIN futures
                        /\ futures[p + 1].state \in {"ready", "invalid"}
                     THEN 1 ELSE 0
    BY DEF FilterInv, UpdatesInv
  <2>3. CASE p + 1 = f
    <3>1. updates[p] = 0 /\ p = futures[f].particle
      BY <1>2, <2>1, <2>2, <2>3 DEF Particles
    <3>2. updates'[p] = IF s = "ready" THEN 1 ELSE 0
      BY <1>1, <3>1 DEF FilterInv, FilterTypes
    <3> QED
      BY <1>1, <1>3, <2>3, <3>2
  <2>4. CASE p + 1 # f
    <3>1. p # futures[f].particle
      <4>1. f \in Int /\ p \in Int
        BY <1>3, FilterAssumption DEF Particles
      <4> QED
        BY <2>1, <2>4, <4>1
    <3>2. updates'[p] = updates[p]
      <4>1. updates \in [Particles -> Nat]
        BY DEF FilterInv, FilterTypes
      <4>2. PICK q \in Particles : q = futures[f].particle
        BY <1>4
      <4>3. CASE s = "ready"
        BY <1>1, <3>1, <4>1, <4>2, <4>3
      <4> QED
        BY <1>1, <4>3
    <3> QED
      BY <1>3, <2>2, <2>4, <3>2
  <2> QED
    BY <2>3, <2>4
<1> QED
  BY <1>6, <1>8, <1>9 DEF FilterInv

LEMMA FilterInitInv == Init => FilterInv
<1> SUFFICES ASSUME Init PROVE FilterInv
  OBVIOUS
<1>1. FilterTypes
  BY FilterAssumption DEF Init, FilterTypes, Particles
<1>2. FuturesInv
  BY FilterAssumption DEF Init, FuturesInv
<1>3. UpdatesInv
  BY DEF Init, UpdatesInv
<1> QED
  BY <1>1, <1>2, <1>3 DEF FilterInv

LEMMA FilterStutterInv == ASSUME FilterInv, UNCHANGED vars PROVE FilterInv'
<1>1. FilterTypes'
  BY DEF vars, FilterInv, FilterTypes
<1>2. FuturesInv'
  BY DEF vars, FilterInv, FuturesInv
<1>3. UpdatesInv'
  BY DEF vars, FilterInv, UpdatesInv
<1> QED
  BY <1>1, <1>2, <1>3 DEF FilterInv

LEMMA FilterStepInv == ASSUME FilterInv, Next PROVE FilterInv'
<1>1. CASE Over
  BY <1>1, FilterStutterInv DEF Over
<1> QED
  BY <1>1, LaunchInv, GetInv, GetInvalidInv, CollectWeightsInv, ReturnInv, UnwindInv,
     UpdateInv DEF Next, Run

-----------------------------------------------------------------------------
(* One program of the five *)

TasksInv ==
  /\ FilterInv
  /\ program = "StandardInput" => InputInv
  /\ program = "UDPServer2" => UdpInv
  /\ program = "asyncio" => AsyncInv
  /\ program = "sendFile" => SendInv

LEMMA TasksInitInv == TasksInit => TasksInv
<1> SUFFICES ASSUME TasksInit PROVE TasksInv
  OBVIOUS
<1>1. FilterInv
  BY FilterInitInv DEF TasksInit
<1>2. ASSUME program = "StandardInput" PROVE InputInv
  <2>1. Input!Init
    BY <1>2 DEF TasksInit
  <2>2. printed \o m_queue \o Pending = typed
    BY <2>1 DEF Input!Init, Pending
  <2>3. Input!NothingLost
    BY <2>2, LostNothing
  <2>4. /\ task = "test" /\ late = 0 /\ stdin = <<>> /\ typed = <<>>
        /\ m_queue = <<>> /\ printed = <<>> /\ pastEnd = FALSE
    BY <2>1 DEF Input!Init
  <2>5. /\ stdin \in Seq(Chars) /\ typed \in Seq(Chars)
        /\ m_queue \in Seq(Chars) /\ printed \in Seq(Chars)
    BY <2>4
  <2>6. pastEnd \in BOOLEAN
    BY <2>4
  <2> QED
    BY <2>3, <2>4, <2>5, <2>6 DEF InputInv
<1>3. ASSUME program = "UDPServer2" PROVE UdpInv
  <2>1. Udp!UdpInit
    BY <1>3 DEF TasksInit
  <2> QED
    BY <2>1 DEF Udp!UdpInit, UdpInv
<1>4. ASSUME program = "asyncio" PROVE AsyncInv
  <2>1. Async!IoInit
    BY <1>4 DEF TasksInit
  <2> QED
    BY <2>1 DEF Async!IoInit, AsyncInv
<1>5. ASSUME program = "sendFile" PROVE SendInv
  <2>1. SF!SendInit
    BY <1>5 DEF TasksInit
  <2> QED
    BY <2>1 DEF SF!SendInit, SendInv
<1> QED
  BY <1>1, <1>2, <1>3, <1>4, <1>5 DEF TasksInv

LEMMA TasksStutterInv == ASSUME TasksInv, UNCHANGED taskVars PROVE TasksInv'
<1> USE DEF taskVars, ownInput, ownUdp, ownAsync, sendVars
<1>1. FilterInv'
  BY FilterStutterInv DEF TasksInv
<1>2. program' = "StandardInput" => InputInv'
  BY DEF TasksInv, InputInv, Input!NothingLost
<1>3. program' = "UDPServer2" => UdpInv'
  BY DEF TasksInv, UdpInv
<1>4. program' = "asyncio" => AsyncInv'
  BY DEF TasksInv, AsyncInv
<1>5. program' = "sendFile" => SendInv'
  BY DEF TasksInv, SendInv
<1> QED
  BY <1>1, <1>2, <1>3, <1>4, <1>5 DEF TasksInv

\* A step is one of the program's own.
LEMMA TasksStepInv == ASSUME TasksInv, TasksNext PROVE TasksInv'
<1>1. program' = program
  BY DEF TasksNext
<1>2. FilterInv'
  <2>1. CASE Next
    BY <2>1, FilterStepInv DEF TasksInv
  <2>2. CASE UNCHANGED vars
    BY <2>2, FilterStutterInv DEF TasksInv
  <2> QED
    BY <2>1, <2>2 DEF TasksNext
<1>3. program = "StandardInput" => InputInv'
  BY InputStepInv DEF TasksInv, TasksNext
<1>4. program = "UDPServer2" => UdpInv'
  BY UdpStepInv DEF TasksInv, TasksNext
<1>5. program = "asyncio" => AsyncInv'
  BY AsyncStepInv DEF TasksInv, TasksNext
<1>6. program = "sendFile" => SendInv'
  BY SendStepInv DEF TasksInv, TasksNext
<1> QED
  BY <1>1, <1>2, <1>3, <1>4, <1>5, <1>6 DEF TasksInv

LEMMA TasksInvariance == TasksSpec => []TasksInv
<1>1. TasksInv /\ [TasksNext]_taskVars => TasksInv'
  BY TasksStepInv, TasksStutterInv
<1> QED
  BY <1>1, TasksInitInv, PTL DEF TasksSpec

\* However many bytes are typed and whatever the uninitialised bytes of c are, each
\* byte read before the end is queued or printed once and in order, except 255.
THEOREM NothingLostTheorem == TasksSpec => []NothingLost
<1>1. TasksInv => NothingLost
  BY DEF TasksInv, InputInv, NothingLost
<1> QED
  BY <1>1, TasksInvariance, PTL

\* inputCharTask reads at most once more after ~StandardInput cleared m_running.
THEOREM OneLateReadTheorem == TasksSpec => []OneLateRead
<1>1. TasksInv => OneLateRead
  BY DEF TasksInv, InputInv, OneLateRead, Input!OneLateRead
<1> QED
  BY <1>1, TasksInvariance, PTL

\* SocketThread::run uses the Socket only while it is open, and calls back at most
\* once after the destructor cleared m_running, however many datagrams arrive.
THEOREM SocketTheorem == TasksSpec => []SocketOutlivesThread
<1>1. TasksInv => SocketOutlivesThread
  BY DEF TasksInv, UdpInv, SocketOutlivesThread, Udp!SocketOutlivesThread, Udp!Alive
<1> QED
  BY <1>1, TasksInvariance, PTL

\* main of sendFile exits in its first turn, whatever the number of turns and
\* whichever descriptors were open at its start.
THEOREM NothingIsSentTheorem == TasksSpec => []NothingIsSent
<1>1. TasksInv => NothingIsSent
  <2> SUFFICES ASSUME SendInv PROVE SF!NothingIsSent
    BY DEF TasksInv, NothingIsSent
  <2>1. fds = <<>> \/ \E d : fds = <<d>>
    BY DEF SendInv
  <2>2. Len(fds) <= 1
    <3>1. CASE fds = <<>>
      BY <3>1
    <3>2. CASE fds # <<>>
      <4>1. PICK d : fds = <<d>>
        BY <2>1, <3>2
      <4>2. Len(fds) = 1
        BY <4>1
      <4> QED
        BY <4>2
    <3> QED
      BY <3>1, <3>2
  <2> QED
    BY <2>2 DEF SendInv, SF!NothingIsSent
<1> QED
  BY <1>1, TasksInvariance, PTL

\* main of asyncio has completed only with the terminal in its normal mode, and at
\* most one character was taken after running was cleared: the safety half of
\* MainCompletes.
ModeRestored ==
  program = "asyncio" => late <= 1 /\ (main = "complete" => mode = "normal")

\* However io is scheduled, deferred or not, and whenever a key is pressed.
THEOREM ModeTheorem == TasksSpec => []ModeRestored
<1>1. TasksInv => ModeRestored
  BY DEF TasksInv, AsyncInv, ModeRestored
<1> QED
  BY <1>1, TasksInvariance, PTL

\* For every number of particles and iterations: no two tasks of run_pf update a
\* particle at once, and none runs while weights are collected or run_pf is left.
THEOREM TasksApartTheorem == TasksSpec => []TasksStayApart
<1>1. FilterInv => TasksStayApart
  <2> SUFFICES ASSUME FilterInv PROVE TasksStayApart
    OBVIOUS
  <2>1. ASSUME NEW f \in DOMAIN futures, NEW g \in DOMAIN futures,
               futures[f] = futures[g], futures[f].state = "running"
        PROVE  f = g
    <3>1. f \in Nat \ {0} /\ g \in Nat \ {0} /\ f <= Len(futures) /\ g <= Len(futures)
          /\ Len(futures) \in Nat
      BY DEF FilterInv, FilterTypes
    <3>2. (f <= NumParticles) <=> (g <= NumParticles)
      <4>1. CASE i = 0
        BY <3>1, <4>1, FilterAssumption DEF FilterInv, FuturesInv
      <4>2. CASE i = 1
        <5>1. f \notin 1 .. NumParticles /\ g \notin 1 .. NumParticles
          BY <2>1, <4>2 DEF FilterInv, FuturesInv
        <5> QED
          BY <3>1, <5>1, FilterAssumption
      <4> QED
        BY <4>1, <4>2 DEF FilterInv, FilterTypes
    <3>3. /\ futures[f].particle = IF f <= NumParticles THEN f - 1 ELSE f - 1 - NumParticles
          /\ futures[g].particle = IF g <= NumParticles THEN g - 1 ELSE g - 1 - NumParticles
      BY DEF FilterInv, FuturesInv
    <3> QED
      BY <2>1, <3>1, <3>2, <3>3, FilterAssumption
  <2>2. ASSUME pc \in {"weights", "returned", "unwound"}, NEW f \in DOMAIN futures
        PROVE  futures[f].state # "running"
    <3>1. CASE pc = "weights"
      <4>1. f \in 1 .. NumParticles
        BY <3>1 DEF FilterInv, FilterTypes, FuturesInv
      <4> QED
        BY <3>1, <4>1 DEF FilterInv, FuturesInv
    <3>2. CASE pc \in {"returned", "unwound"}
      BY <3>2 DEF FilterInv, FuturesInv
    <3> QED
      BY <2>2, <3>1, <3>2
  <2>3. pc \in {"weights", "returned", "unwound"} => \A p \in Particles : ~Running(p)
    BY <2>2 DEF Running
  <2> QED
    BY <2>1, <2>3 DEF TasksStayApart
<1> QED
  BY <1>1, TasksInvariance, PTL DEF TasksInv

\* The weights collected in an iteration count exactly the updates up to it.
THEOREM WeightsTheorem == TasksSpec => []WeightsAreCurrent
<1>1. FilterInv => WeightsAreCurrent
  BY DEF FilterInv, FilterTypes, UpdatesInv, WeightsAreCurrent
<1> QED
  BY <1>1, TasksInvariance, PTL DEF TasksInv

\* futures is never cleared, so run_pf collects weights at most once, and returns
\* only if it was asked for at most one iteration.
OneIterationAtMost == i <= 1 /\ (pc = "returned" => num_iterations <= 1)

\* For every number of particles and iterations, and whichever updates fail.
THEOREM OneIterationTheorem == TasksSpec => []OneIterationAtMost
<1>1. FilterInv => OneIterationAtMost
  BY DEF FilterInv, FilterTypes, FuturesInv, OneIterationAtMost
<1> QED
  BY <1>1, TasksInvariance, PTL DEF TasksInv
=============================================================================
