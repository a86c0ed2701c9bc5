------------------------------ MODULE AsyncIo ------------------------------
(***************************************************************************)
(* cjunk/practice/asyncio.cc: main runs io with std::async for five        *)
(* seconds, clears running and waits.  std::async is called without a      *)
(* policy, so it may start a thread or defer io to the call of wait.       *)
(* raw() and normal() are declared nowhere: they stand for what sets and   *)
(* restores the mode of the terminal.                                      *)
(***************************************************************************)
EXTENDS Naturals

CONSTANT MaxTyped    \* bound: characters typed

VARIABLES
  main, io,    \* where the two functions are
  policy,      \* what std::async chose
  running,
  mode,        \* of the terminal
  stdin,       \* characters typed and not read yet
  ended,       \* whether the input has ended
  typed,       \* history: characters typed
  late         \* history: characters read after running was cleared

ioVars == <<main, io, policy, running, mode, stdin, ended, typed, late>>

IoInit ==
  /\ main = "wait_for" /\ io = "raw" /\ policy \in {"async", "deferred"}
  /\ running = TRUE /\ mode = "normal"
  /\ stdin = 0 /\ ended = FALSE /\ typed = 0 /\ late = 0

\* io runs in its own thread, or in main's once main waits for it.
Scheduled == policy = "async" \/ main = "wait"

\* wait_for ends after five seconds, or at once if io is deferred.
wait_for ==
  /\ main = "wait_for" /\ main' = "running"
  /\ UNCHANGED <<io, policy, running, mode, stdin, ended, typed, late>>

\* Slip: running is left alone.
clearNothing ==
  /\ main = "running" /\ main' = "wait"
  /\ UNCHANGED <<io, policy, running, mode, stdin, ended, typed, late>>

clear ==
  /\ main = "running" /\ main' = "wait"
  /\ running' = FALSE
  /\ UNCHANGED <<io, policy, mode, stdin, ended, typed, late>>

wait ==
  /\ main = "wait" /\ io = "done" /\ main' = "complete"
  /\ UNCHANGED <<io, policy, running, mode, stdin, ended, typed, late>>

raw ==
  /\ Scheduled /\ io = "raw" /\ io' = "test"
  /\ mode' = "raw"
  /\ UNCHANGED <<main, policy, running, stdin, ended, typed, late>>

test ==
  /\ io = "test" /\ io' = IF running THEN "getch" ELSE "normal"
  /\ UNCHANGED <<main, policy, running, mode, stdin, ended, typed, late>>

\* std::cin.get waits for a character; at the end of the input it returns
\* at once, now and every time after.
getch ==
  /\ io = "getch" /\ io' = "test"
  /\ \/ /\ stdin > 0 /\ stdin' = stdin - 1
        /\ late' = IF running THEN late ELSE late + 1
     \/ stdin = 0 /\ ended /\ UNCHANGED <<stdin, late>>
  /\ UNCHANGED <<main, policy, running, mode, ended, typed>>

normal ==
  /\ io = "normal" /\ io' = "done"
  /\ mode' = "normal"
  /\ UNCHANGED <<main, policy, running, stdin, ended, typed, late>>

\* Whoever types.
Type ==
  /\ ~ended /\ typed < MaxTyped
  /\ typed' = typed + 1 /\ stdin' = stdin + 1
  /\ UNCHANGED <<main, io, policy, running, mode, ended, late>>

End == ~ended /\ ended' = TRUE /\ UNCHANGED <<main, io, policy, running, mode, stdin, typed, late>>

Main == wait_for \/ clear \/ wait
Io == raw \/ test \/ getch \/ normal

IoNext == Main \/ Io \/ Type \/ End \/ (main = "complete" /\ UNCHANGED ioVars)

\* main's clock goes on and io is scheduled; nobody has to type.
IoFairness == WF_ioVars(Main) /\ WF_ioVars(Io)

IoSpec == IoInit /\ [][IoNext]_ioVars /\ IoFairness

-----------------------------------------------------------------------------
\* main completes if there is a character to read or the input has ended, and
\* without either if io was deferred.  io has then put the terminal back, and
\* took at most one character after running was cleared.
MainCompletes ==
  (main = "wait" /\ (ended \/ stdin > 0 \/ policy = "deferred"))
    ~> (main = "complete" /\ mode = "normal" /\ late <= 1)
=============================================================================
