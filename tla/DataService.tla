----------------------------- MODULE DataService -----------------------------
(***************************************************************************)
(* cjunk/practice/test_tornadoService.py: instance() opens a SQLite file,  *)
(* runs a fixed script of client calls on it and returns an HTTP server.   *)
(* The file outlives the process: instances crash, restart, and two may    *)
(* run on the same file.                                                   *)
(*                                                                         *)
(* A client call passes through InterfaceLayer, Controller, BusinessLogic  *)
(* and Database unchanged; what it does is one or two statements, each in  *)
(* a transaction of its own.  SQLite serialises transactions and undoes    *)
(* one that a crash interrupts.                                            *)
(***************************************************************************)
EXTENDS Naturals, Sequences

CONSTANTS
  Instances,
  MaxStarts     \* bound: how often instances are started

ASSUME ServiceAssumption == MaxStarts \in Nat \ {0}

VARIABLES
  table,        \* the rows of table data: id -> data
  sequence,     \* the largest id AUTOINCREMENT has given out
  outcome,      \* what became of each instance
  pc,           \* the next line of its script
  readBack,     \* the id that the call in progress still reads, or failed to, or 0
  spoiled,      \* history: whether row 1 was already deleted when it started
  starts        \* history: how often an instance was started

database == <<table, sequence>>
vars == <<database, outcome, pc, readBack, spoiled, starts>>

Add(d) == [call |-> "add", id |-> 0, data |-> d]
Read(i) == [call |-> "get", id |-> i, data |-> ""]

\* The client calls instance() makes before it opens the server.
Script ==
  << Add("data1"), Add("data2"), Add("data3"), Read(1), Read(2), Read(3),
     [call |-> "update", id |-> 1, data |-> "data1 updated"], Read(1),
     [call |-> "delete", id |-> 1, data |-> ""],
     [call |-> "get_all", id |-> 0, data |-> ""],
     [call |-> "serve", id |-> 0, data |-> ""] >>

Init ==
  /\ table = <<>> /\ sequence = 0
  /\ outcome = [p \in Instances |-> "down"] /\ pc = [p \in Instances |-> 1]
  /\ readBack = [p \in Instances |-> 0] /\ spoiled = [p \in Instances |-> FALSE]
  /\ starts = 0

-----------------------------------------------------------------------------
\* connect, and CREATE TABLE IF NOT EXISTS.
Start(p) ==
  /\ outcome[p] \notin {"running", "serving"} /\ starts < MaxStarts
  /\ outcome' = [outcome EXCEPT ![p] = "running"]
  /\ pc' = [pc EXCEPT ![p] = 1] /\ readBack' = [readBack EXCEPT ![p] = 0]
  /\ spoiled' = [spoiled EXCEPT ![p] = sequence >= 1 /\ 1 \notin DOMAIN table]
  /\ starts' = starts + 1
  /\ UNCHANGED database

\* The process is killed; what it committed stays.
Crash(p) ==
  /\ outcome[p] \in {"running", "serving"}
  /\ outcome' = [outcome EXCEPT ![p] = "down"]
  /\ UNCHANGED <<database, pc, readBack, spoiled, starts>>

Calls(p, call) == outcome[p] = "running" /\ readBack[p] = 0 /\ Script[pc[p]].call = call

Advance(p) == pc' = [pc EXCEPT ![p] = @ + 1] /\ UNCHANGED outcome

\* The table with one more row, or with another one of that id.
WithRow(id, data) ==
  [k \in DOMAIN table \cup {id} |-> IF k = id THEN data ELSE table[k]]

\* INSERT and commit; the controller reads the row lastrowid back.
add_data(p) ==
  /\ Calls(p, "add")
  /\ table' = WithRow(sequence + 1, Script[pc[p]].data)
  /\ sequence' = sequence + 1
  /\ readBack' = [readBack EXCEPT ![p] = sequence + 1]
  /\ UNCHANGED <<outcome, pc, spoiled, starts>>

\* Slip: an update inserts the row it does not find.
update_data_upsert(p) ==
  /\ Calls(p, "update")
  /\ LET call == Script[pc[p]]
     IN /\ table' = WithRow(call.id, call.data)
        /\ readBack' = [readBack EXCEPT ![p] = call.id]
  /\ UNCHANGED <<sequence, outcome, pc, spoiled, starts>>

\* UPDATE, which touches no row if there is none, commit, and the read back.
update_data(p) ==
  /\ Calls(p, "update")
  /\ LET call == Script[pc[p]]
     IN /\ table' = IF call.id \in DOMAIN table
                    THEN [table EXCEPT ![call.id] = call.data] ELSE table
        /\ readBack' = [readBack EXCEPT ![p] = call.id]
  /\ UNCHANGED <<sequence, outcome, pc, spoiled, starts>>

\* Slip: the WHERE clause is lost.
delete_data_all(p) ==
  /\ Calls(p, "delete") /\ Advance(p)
  /\ table' = <<>>
  /\ UNCHANGED <<sequence, readBack, spoiled, starts>>

\* DELETE and commit.
delete_data(p) ==
  /\ Calls(p, "delete") /\ Advance(p)
  /\ table' = [k \in DOMAIN table \ {Script[pc[p]].id} |-> table[k]]
  /\ UNCHANGED <<sequence, readBack, spoiled, starts>>

\* Slip: the row a write call reads back is not looked at.
get_data_lenient(p) ==
  /\ \/ readBack[p] # 0 /\ outcome[p] = "running"
     \/ Calls(p, "get")
  /\ Advance(p)
  /\ readBack' = [readBack EXCEPT ![p] = 0]
  /\ UNCHANGED <<database, spoiled, starts>>

\* SELECT ... WHERE id=?, on its own or at the end of a call that wrote.  Without
\* a row fetchone gives None, which the DTO cannot index.
get_data(p) ==
  /\ \/ readBack[p] # 0 /\ outcome[p] = "running"
     \/ Calls(p, "get")
  /\ LET id == IF readBack[p] # 0 THEN readBack[p] ELSE Script[pc[p]].id
     IN \/ id \in DOMAIN table
           /\ Advance(p) /\ readBack' = [readBack EXCEPT ![p] = 0]
        \/ id \notin DOMAIN table
           /\ outcome' = [outcome EXCEPT ![p] = "TypeError"]
           /\ readBack' = [readBack EXCEPT ![p] = id] /\ UNCHANGED pc
  /\ UNCHANGED <<database, spoiled, starts>>

\* SELECT *: any number of rows will do.
get_all_data(p) ==
  /\ Calls(p, "get_all") /\ Advance(p)
  /\ UNCHANGED <<database, readBack, spoiled, starts>>

\* HTTPServer(('', 8000), ...) fails while another instance holds the port.
serve(p) ==
  /\ Calls(p, "serve")
  /\ outcome' = [outcome EXCEPT ![p] =
       IF \E q \in Instances : outcome[q] = "serving" THEN "OSError" ELSE "serving"]
  /\ UNCHANGED <<database, pc, readBack, spoiled, starts>>

Step(p) ==
  add_data(p) \/ update_data(p) \/ delete_data(p) \/ get_data(p) \/ get_all_data(p) \/ serve(p)

Over == starts = MaxStarts /\ (\A p \in Instances : outcome[p] # "running") /\ UNCHANGED vars

Next == (\E p \in Instances : Start(p) \/ Crash(p) \/ Step(p)) \/ Over

Spec == Init /\ [][Next]_vars

-----------------------------------------------------------------------------
\* An id that was given out and whose row is gone never names a row again,
\* whatever crashes and restarts happen.
IdsNeverReused ==
  [][\A k \in 1 .. sequence : k \notin DOMAIN table => k \notin DOMAIN table']_vars

\* The DTO meets a missing row only if that is row 1 and some instance deleted
\* it, even when two scripts interleave and one fails in its add_data.
MissingRowIsRow1 ==
  \A p \in Instances :
    outcome[p] = "TypeError" => readBack[p] = 1 /\ 1 \notin DOMAIN table

\* On a database only it has used an instance gets as far as the server, which
\* is what test_server asserts for :memory:.  Once row 1 is deleted no start on
\* the file ever serves: the script's get_data(1) fails every time.
ServesUntilSpoiled ==
  \A p \in Instances :
    /\ starts = 1 => outcome[p] \in {"down", "running", "serving"}
    /\ spoiled[p] => outcome[p] # "serving"
=============================================================================
