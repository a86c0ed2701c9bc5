---------------------------- MODULE StandardInput ----------------------------
(***************************************************************************)
(* cjunk/practice/asyncStdin.cc: main reads characters that a task started *)
(* with std::async takes from stdin, then destroys the StandardInput.      *)
(*                                                                         *)
(* The task's int c is never initialised and fread stores one byte of it.  *)
(* A byte compares equal to EOF only if it is 255 and the three bytes      *)
(* fread does not write happen to be 255 too; at the end of the input      *)
(* nothing is stored at all, so c is then anything.                        *)
(*                                                                         *)
(* Every critical section of m_mutex is one action: none of them waits.    *)
(***************************************************************************)
EXTENDS Naturals, Sequences

CONSTANTS
  Chars,       \* the bytes of the input
  Byte255,     \* the one of Chars whose value is that of EOF in its low byte
  EOF,         \* no member of Chars
  MaxTyped,    \* bound: bytes typed
  MaxQueue     \* bound: how far the task runs ahead after the input's end

VARIABLES
  main,        \* what the main thread does
  task,        \* where inputCharTask is
  m_running, m_queue,
  alive,       \* whether m_condition and m_mutex exist
  c,           \* the task's local variable
  stdin,       \* bytes typed and not read yet
  ended,       \* whether the input has ended
  typed,       \* history: all bytes read from stdin by the task
  printed,     \* history: the characters main popped before pastEnd
  pastEnd,     \* history: whether fread has met the end of the input
  late         \* history: times fread returned after m_running was cleared

outside == <<stdin, ended>>
vars == <<main, task, m_running, m_queue, alive, c, outside, typed, printed, pastEnd, late>>

Init ==
  /\ main = "has" /\ task = "test"
  /\ m_running = TRUE /\ m_queue = <<>> /\ alive = TRUE
  /\ c \in Chars \cup {EOF}
  /\ stdin = <<>> /\ ended = FALSE
  /\ typed = <<>> /\ printed = <<>> /\ pastEnd = FALSE /\ late = 0

-----------------------------------------------------------------------------
\* while (si.hasChar()), after the second main sleeps.
hasChar ==
  /\ main = "has"
  /\ main' = IF m_queue # <<>> THEN "pop" ELSE "destroy"
  /\ UNCHANGED <<task, m_running, m_queue, alive, c, outside, typed, printed, pastEnd, late>>

\* Slip: the front is read and not removed.
popCharKept ==
  /\ main = "pop" /\ main' = "has"
  /\ m_queue # <<>>
  /\ printed' = IF pastEnd THEN printed ELSE Append(printed, Head(m_queue))
  /\ UNCHANGED <<task, m_running, m_queue, alive, c, outside, typed, pastEnd, late>>

\* popChar, whose front() and pop() need a queue that is not empty.
popChar ==
  /\ main = "pop" /\ main' = "has"
  /\ m_queue # <<>>
  /\ printed' = IF pastEnd THEN printed ELSE Append(printed, Head(m_queue))
  /\ m_queue' = Tail(m_queue)
  /\ UNCHANGED <<task, m_running, alive, c, outside, typed, pastEnd, late>>

\* Slip: the destructor does not stop the task.
DestructRunning ==
  /\ main = "destroy" /\ main' = "members"
  /\ UNCHANGED <<task, m_running, m_queue, alive, c, outside, typed, printed, pastEnd, late>>

\* ~StandardInput, its body.
Destruct ==
  /\ main = "destroy" /\ main' = "members"
  /\ m_running' = FALSE
  /\ UNCHANGED <<task, m_queue, alive, c, outside, typed, printed, pastEnd, late>>

\* The members go in the reverse of their order: m_condition and m_mutex first,
\* then m_future, whose destructor waits for the task.
DestroyMembers ==
  /\ \/ main = "members" /\ main' = "wait" /\ alive' = FALSE
     \/ main = "wait" /\ task = "done" /\ main' = "over" /\ UNCHANGED alive
  /\ UNCHANGED <<task, m_running, m_queue, c, outside, typed, printed, pastEnd, late>>

-----------------------------------------------------------------------------
\* Slip: the loop does not look at m_running.
TestNothing ==
  /\ task = "test" /\ task' = "fread"
  /\ UNCHANGED <<main, m_running, m_queue, alive, c, outside, typed, printed, pastEnd, late>>

\* while (m_running)
Test ==
  /\ task = "test"
  /\ task' = IF m_running THEN "fread" ELSE "done"
  /\ UNCHANGED <<main, m_running, m_queue, alive, c, outside, typed, printed, pastEnd, late>>

\* fread waits for a byte or for the end, and the result is compared with EOF.
Fread ==
  /\ task = "fread"
  /\ \/ /\ stdin # <<>>
        /\ stdin' = Tail(stdin) /\ typed' = Append(typed, Head(stdin))
        /\ c' \in {Head(stdin)} \cup (IF Head(stdin) = Byte255 THEN {EOF} ELSE {})
        /\ UNCHANGED pastEnd
     \/ /\ stdin = <<>> /\ ended
        /\ Len(m_queue) < MaxQueue \/ ~m_running
        /\ c' \in Chars \cup {EOF} /\ pastEnd' = TRUE
        /\ UNCHANGED <<stdin, typed>>
  /\ task' = IF c' = EOF THEN "test" ELSE "push"
  /\ late' = IF m_running THEN late ELSE late + 1
  /\ UNCHANGED <<main, m_running, m_queue, alive, ended, printed>>

\* Lock, push, notify (nobody waits on m_condition), unlock.
Push ==
  /\ task = "push" /\ task' = "test"
  /\ m_queue' = Append(m_queue, c)
  /\ UNCHANGED <<main, m_running, alive, c, outside, typed, printed, pastEnd, late>>

-----------------------------------------------------------------------------
\* Whoever is at the other end of stdin.
Type ==
  /\ ~ended /\ Len(stdin) + Len(typed) < MaxTyped
  /\ \E b \in Chars : stdin' = Append(stdin, b)
  /\ UNCHANGED <<main, task, m_running, m_queue, alive, c, ended, typed, printed, pastEnd, late>>

End ==
  /\ ~ended /\ ended' = TRUE
  /\ UNCHANGED <<main, task, m_running, m_queue, alive, c, stdin, typed, printed, pastEnd, late>>

Main == hasChar \/ popChar \/ Destruct \/ DestroyMembers
Task == Test \/ Fread \/ Push
Over == main = "over" /\ UNCHANGED vars

Next == Main \/ Task \/ Type \/ End \/ Over

\* The two threads run; the user owes the program nothing.
Spec == Init /\ [][Next]_vars /\ WF_vars(Main) /\ WF_vars(Task)

-----------------------------------------------------------------------------
\* What is left of s without the byte 255.
Visible(s) ==
  LET kept[n \in 0 .. Len(s)] ==
        IF n = 0 THEN <<>>
        ELSE IF s[n] = Byte255 THEN kept[n - 1]
        ELSE Append(kept[n - 1], s[n])
  IN  kept[Len(s)]

\* Until the input ends, every byte read is queued or printed, once and in
\* order; only the byte 255 can be taken for EOF and dropped.
NothingLost ==
  ~pastEnd => Visible(typed)
              = Visible(printed \o m_queue \o (IF task = "push" THEN <<c>> ELSE <<>>))

\* Once m_running is cleared the task takes at most one more byte, so it locks
\* the mutex that is already destroyed at most once.
OneLateRead == late <= 1

\* The destructor returns if there is a byte to read or the input has ended.
DestructorReturns ==
  (main = "wait" /\ (ended \/ stdin # <<>>)) ~> (main = "over")
=============================================================================
