------------------------------ MODULE SendFile ------------------------------
(***************************************************************************)
(* cjunk/practice/sendFile.cc: main accepts a connection, collects open    *)
(* files and would then send a message.  Every object closes its           *)
(* descriptor when it is destroyed, the temporaries whose copies go into   *)
(* the vectors included, and a close that fails ends the process.          *)
(*                                                                         *)
(* Any system call may fail.  The kernel gives out the lowest descriptor   *)
(* that is free; 0, 1 and 2 may be closed when the program starts.         *)
(***************************************************************************)
EXTENDS Naturals, Sequences, FiniteSets

CONSTANT NumFiles    \* how often the loop turns; 10 in the code

VARIABLES
  at,         \* what main does next
  open,       \* the descriptors that are open
  files,      \* the descriptors in the FileVector
  fds,        \* those in the FileDescriptorVector
  status      \* of the process once it ended

sendVars == <<at, open, files, fds, status>>

SendInit ==
  /\ at = "Socket" /\ open \in SUBSET {0, 1, 2}
  /\ files = <<>> /\ fds = <<>> /\ status = 0

LowestFree == CHOOSE d \in 0 .. Cardinality(open) :
                d \notin open /\ \A e \in 0 .. d - 1 : e \in open

\* The message on stderr and exit(1).
exit == at' = "exited" /\ status' = 1 /\ UNCHANGED <<open, files, fds>>

\* A constructor or a function of Server that makes a descriptor.
Acquire(step, next) ==
  /\ at = step
  /\ \/ open' = open \cup {LowestFree} /\ at' = next /\ UNCHANGED <<files, fds, status>>
     \/ exit

\* bind and listen.
Configure(step, next) ==
  /\ at = step
  /\ \/ at' = next /\ UNCHANGED <<open, files, fds, status>>
     \/ exit

\* close in a destructor.
Release(d, next) ==
  IF d \in open
  THEN open' = open \ {d} /\ at' = next /\ UNCHANGED status
  ELSE at' = "exited" /\ status' = 1 /\ UNCHANGED open

Socket == Acquire("Socket", "Server")
Server == Configure("Server", "Listen")
Listen == Configure("Listen", "Accept")
Accept == Acquire("Accept", "File")

\* files.Add: the File that is copied into the vector ...
File ==
  /\ at = "File"
  /\ \/ /\ open' = open \cup {LowestFree} /\ files' = Append(files, LowestFree)
        /\ at' = "~File" /\ UNCHANGED <<fds, status>>
     \/ exit

\* Slip: the vector takes the file over and nothing is destroyed.
DestroyFileMoved ==
  /\ at = "~File" /\ at' = "FileDescriptor"
  /\ UNCHANGED <<open, files, fds, status>>

\* ... and its destruction.
DestroyFile ==
  /\ at = "~File"
  /\ Release(files[Len(files)], "FileDescriptor")
  /\ UNCHANGED <<files, fds>>

\* fds.Add(files.fd(i)): the same for the FileDescriptor.  After the last turn
\* comes the message.
FileDescriptor ==
  /\ at = "FileDescriptor"
  /\ fds' = Append(fds, files[Len(files)])
  /\ Release(files[Len(files)], IF Len(fds) + 1 = NumFiles THEN "sendmsg" ELSE "File")
  /\ UNCHANGED files

SendNext ==
  \/ Socket \/ Server \/ Listen \/ Accept \/ File \/ DestroyFile \/ FileDescriptor
  \/ at \in {"exited", "sendmsg"} /\ UNCHANGED sendVars

SendSpec == SendInit /\ [][SendNext]_sendVars

-----------------------------------------------------------------------------
\* main never gets to sendmsg: whatever calls succeed, the first file is closed
\* with the temporary it was opened in, and the FileDescriptor made for it
\* closes it again and exits.  Nothing else is closed in its place.
NothingIsSent ==
  /\ at # "sendmsg" /\ Len(fds) <= 1
  /\ fds # <<>> => (at = "exited" /\ status = 1)
=============================================================================
