----------------------------- MODULE StoreProofs -----------------------------
(***************************************************************************)
(* What is stored and looked up again.  The table of data_service, for any *)
(* number of instances and of starts: only row 1 is ever missing, ids are  *)
(* not reused, and a start on a file without row 1 never serves.  The two  *)
(* caches of the generated module simple.cpp: that of its code objects,    *)
(* for any lines, growth and number of tracebacks, and that of its         *)
(* globals, for any dictionaries and number of changes.                    *)
(***************************************************************************)
EXTENDS CodeCache, DictCache, DataService, TLAPS

(* The table of data_service. *)

Outcomes == {"down", "running", "serving", "TypeError", "OSError"}

TypeOK ==
  /\ sequence \in Nat /\ starts \in Nat
  /\ outcome \in [Instances -> Outcomes] /\ pc \in [Instances -> 1 .. 11]
  /\ readBack \in [Instances -> Nat] /\ spoiled \in [Instances -> BOOLEAN]

\* Row 1 was there once and is gone.
Row1Gone == sequence >= 1 /\ 1 \notin DOMAIN table

\* Row 1 is the only one that is ever missing.
Rows ==
  /\ DOMAIN table \subseteq 1 .. sequence
  /\ \A k \in 1 .. sequence : k \notin DOMAIN table => k = 1

\* What an instance knows of the file from where it is in its script.
Progress(p) ==
  /\ readBack[p] <= sequence
  /\ outcome[p] = "TypeError" => readBack[p] = 1 /\ Row1Gone
  /\ outcome[p] \in {"running", "serving"} =>
       /\ readBack[p] # 0 => pc[p] \in {1, 2, 3, 7}
       /\ sequence >= 3 \/ sequence >= pc[p] \/ (readBack[p] = 0 /\ sequence + 1 >= pc[p])
       /\ spoiled[p] => Row1Gone /\ pc[p] <= 4
  /\ outcome[p] = "serving" => pc[p] = 11

\* The first instance that is started is alone, and deletes row 1 at line 9.
FirstStart ==
  /\ starts = 0 => sequence = 0 /\ \A p \in Instances : outcome[p] = "down"
  /\ starts = 1 => \A p \in Instances : outcome[p] # "down" =>
       /\ outcome[p] \in {"running", "serving"}
       /\ \A r \in Instances : r # p => outcome[r] = "down"
       /\ Row1Gone => pc[p] >= 10

ServiceInv == TypeOK /\ Rows /\ FirstStart /\ \A p \in Instances : Progress(p)

-----------------------------------------------------------------------------
\* Which lines of the script make which call, and for which row.
LEMMA ScriptIs ==
  /\ \A k \in 1 .. 11 :
       /\ Script[k].call = "add" <=> k \in 1 .. 3
       /\ Script[k].call = "get" <=> k \in {4, 5, 6, 8}
       /\ Script[k].call = "update" <=> k = 7
       /\ Script[k].call = "delete" <=> k = 9
       /\ Script[k].call = "get_all" <=> k = 10
       /\ Script[k].call = "serve" <=> k = 11
  /\ Script[4].id = 1 /\ Script[5].id = 2 /\ Script[6].id = 3 /\ Script[8].id = 1
  /\ Script[7].id = 1 /\ Script[9].id = 1
<1>1. \A k \in 1 .. 11 : k \in {1, 2, 3, 4, 5, 6, 7, 8, 9, 10, 11}
  OBVIOUS
<1>2. /\ Script[1].call = "add" /\ Script[2].call = "add" /\ Script[3].call = "add"
      /\ Script[4].call = "get" /\ Script[5].call = "get" /\ Script[6].call = "get"
      /\ Script[7].call = "update" /\ Script[8].call = "get" /\ Script[9].call = "delete"
      /\ Script[10].call = "get_all" /\ Script[11].call = "serve"
  BY DEF Script, Add, Read
<1>3. /\ Script[4].id = 1 /\ Script[5].id = 2 /\ Script[6].id = 3 /\ Script[8].id = 1
      /\ Script[7].id = 1 /\ Script[9].id = 1
  BY DEF Script, Add, Read
<1> QED
  BY <1>1, <1>2, <1>3

LEMMA InitInv == Init => ServiceInv
  BY DEF Init, ServiceInv, TypeOK, Rows, FirstStart, Progress, Outcomes, Row1Gone

\* An instance that takes no step keeps what it knows, as long as ids grow and
\* row 1 does not come back.
LEMMA OthersKeep ==
  ASSUME TypeOK, NEW r \in Instances, Progress(r),
         sequence' \in Nat, sequence' >= sequence, Row1Gone => Row1Gone',
         outcome'[r] = outcome[r], pc'[r] = pc[r], readBack'[r] = readBack[r],
         spoiled'[r] = spoiled[r]
  PROVE  Progress(r)'
<1>1. sequence \in Nat /\ pc[r] \in 1 .. 11 /\ readBack[r] \in Nat
  BY DEF TypeOK
<1> QED
  BY <1>1 DEF Progress

\* What an instance's step has to keep, when it only changes its own entries.
LEMMA OwnStep ==
  ASSUME ServiceInv, NEW p \in Instances, TypeOK', Rows', FirstStart', Progress(p)',
         sequence' >= sequence, Row1Gone => Row1Gone',
         \A r \in Instances : r # p =>
           /\ outcome'[r] = outcome[r] /\ pc'[r] = pc[r]
           /\ readBack'[r] = readBack[r] /\ spoiled'[r] = spoiled[r]
  PROVE  ServiceInv'
<1>1. ASSUME NEW r \in Instances, r # p PROVE Progress(r)'
  BY <1>1, OthersKeep DEF ServiceInv, TypeOK
<1> QED
  BY <1>1 DEF ServiceInv

LEMMA StartKeeps ==
  ASSUME ServiceInv, NEW p \in Instances, Start(p) \/ Crash(p) PROVE ServiceInv'
<1>1. TypeOK /\ Rows /\ FirstStart /\ Progress(p)
  BY DEF ServiceInv
<1>2. UNCHANGED <<table, sequence>> /\ Row1Gone' = Row1Gone
  BY DEF Start, Crash, database, Row1Gone
<1>3. TypeOK'
  <2>1. spoiled' \in [Instances -> BOOLEAN]
    <3>1. PICK b \in BOOLEAN : b = (sequence >= 1 /\ 1 \notin DOMAIN table)
      OBVIOUS
    <3>2. spoiled' = [spoiled EXCEPT ![p] = b] \/ spoiled' = spoiled
      BY <3>1 DEF Start, Crash
    <3> QED
      BY <1>1, <3>2 DEF TypeOK
  <2>2. outcome' \in [Instances -> Outcomes] /\ pc' \in [Instances -> 1 .. 11]
    BY <1>1 DEF Start, Crash, TypeOK, Outcomes
  <2>3. readBack' \in [Instances -> Nat] /\ starts' \in Nat
    BY <1>1 DEF Start, Crash, TypeOK
  <2> QED
    BY <1>1, <1>2, <2>1, <2>2, <2>3 DEF TypeOK
<1>4. Rows'
  BY <1>1, <1>2 DEF Rows
<1>5. FirstStart'
  <2>1. CASE Start(p)
    <3>1. CASE starts = 0
      <4>1. sequence = 0 /\ ~Row1Gone' /\ starts' = 1
        BY <1>1, <1>2, <2>1, <3>1 DEF FirstStart, Row1Gone, Start
      <4>2. outcome'[p] = "running" /\ \A r \in Instances : r # p => outcome'[r] = "down"
        BY <1>1, <2>1, <3>1 DEF FirstStart, Start, TypeOK
      <4> QED
        BY <4>1, <4>2 DEF FirstStart
    <3>2. CASE starts # 0
      <4>1. starts' # 0 /\ starts' # 1
        BY <1>1, <2>1, <3>2 DEF Start, TypeOK
      <4> QED
        BY <4>1 DEF FirstStart
    <3> QED
      BY <3>1, <3>2
  <2>2. CASE Crash(p)
    <3>1. /\ starts' = starts /\ pc' = pc /\ outcome'[p] = "down"
          /\ \A r \in Instances : r # p => outcome'[r] = outcome[r]
      BY <1>1, <2>2 DEF Crash, TypeOK
    <3> QED
      BY <1>1, <1>2, <3>1 DEF FirstStart
  <2> QED
    BY <2>1, <2>2
<1>6. Progress(p)'
  <2>1. CASE Start(p)
    <3>1. /\ outcome'[p] = "running" /\ pc'[p] = 1 /\ readBack'[p] = 0
          /\ spoiled'[p] = Row1Gone
      BY <1>1, <2>1 DEF Start, TypeOK, Row1Gone
    <3> QED
      BY <1>1, <1>2, <3>1 DEF Progress, TypeOK
  <2>2. CASE Crash(p)
    <3>1. outcome'[p] = "down" /\ readBack' = readBack
      BY <1>1, <2>2 DEF Crash, TypeOK
    <3> QED
      BY <1>1, <1>2, <3>1 DEF Progress
  <2> QED
    BY <2>1, <2>2
<1>7. \A r \in Instances : r # p =>
        /\ outcome'[r] = outcome[r] /\ pc'[r] = pc[r]
        /\ readBack'[r] = readBack[r] /\ spoiled'[r] = spoiled[r]
  BY <1>1 DEF Start, Crash, TypeOK
<1>8. sequence' >= sequence
  BY <1>1, <1>2 DEF TypeOK
<1> QED
  BY <1>2, <1>3, <1>4, <1>5, <1>6, <1>7, <1>8, OwnStep

\* The calls that write: a row for a new id, for an id there is, or none for 1.
LEMMA WriteKeeps ==
  ASSUME ServiceInv, NEW p \in Instances, add_data(p) \/ update_data(p) \/ delete_data(p)
  PROVE  ServiceInv'
<1>1. TypeOK /\ Rows /\ FirstStart /\ Progress(p)
  BY DEF ServiceInv
<1>2. /\ sequence \in Nat /\ starts \in Nat /\ pc[p] \in 1 .. 11 /\ readBack[p] = 0
      /\ outcome[p] = "running" /\ spoiled' = spoiled /\ starts' = starts /\ outcome' = outcome
  BY <1>1 DEF TypeOK, add_data, update_data, delete_data, Calls, Advance
<1>3. ASSUME add_data(p)
      PROVE  /\ pc[p] \in 1 .. 3 /\ DOMAIN table' = DOMAIN table \cup {sequence + 1}
             /\ sequence' = sequence + 1 /\ pc' = pc
             /\ readBack' = [readBack EXCEPT ![p] = sequence + 1]
  BY <1>2, <1>3, ScriptIs DEF add_data, Calls, WithRow
<1>4. ASSUME update_data(p)
      PROVE  /\ pc[p] = 7 /\ DOMAIN table' = DOMAIN table
             /\ sequence' = sequence /\ pc' = pc
             /\ readBack' = [readBack EXCEPT ![p] = 1]
  BY <1>2, <1>4, ScriptIs DEF update_data, Calls
<1>5. ASSUME delete_data(p)
      PROVE  /\ pc[p] = 9 /\ DOMAIN table' = DOMAIN table \ {1}
             /\ sequence' = sequence /\ pc' = [pc EXCEPT ![p] = 10]
             /\ readBack' = readBack
  <2>1. pc[p] = 9
    BY <1>2, <1>5, ScriptIs DEF delete_data, Calls
  <2>2. pc[p] + 1 = 10 /\ Script[pc[p]].id = 1
    BY <2>1, ScriptIs
  <2> QED
    BY <1>5, <2>1, <2>2 DEF delete_data, Advance
<1>6. /\ sequence' \in Nat /\ sequence' >= sequence
      /\ Row1Gone => Row1Gone'
      /\ Row1Gone' => Row1Gone \/ delete_data(p)
  BY <1>1, <1>2, <1>3, <1>4, <1>5 DEF Row1Gone, Rows
<1>7. TypeOK'
  <2>1. pc' \in [Instances -> 1 .. 11]
    BY <1>1, <1>3, <1>4, <1>5 DEF TypeOK
  <2>2. readBack' \in [Instances -> Nat]
    BY <1>1, <1>2, <1>3, <1>4, <1>5 DEF TypeOK
  <2> QED
    BY <1>1, <1>2, <1>6, <2>1, <2>2 DEF TypeOK
<1>8. Rows'
  BY <1>1, <1>2, <1>3, <1>4, <1>5 DEF Rows
<1>9. pc[p] >= 9 => ~add_data(p) /\ ~update_data(p)
  BY <1>2, <1>3, <1>4
<1>10. /\ \A r \in Instances : r # p => pc'[r] = pc[r] /\ readBack'[r] = readBack[r]
       /\ delete_data(p) => pc'[p] = 10
       /\ ~delete_data(p) => pc' = pc
  BY <1>1, <1>3, <1>4, <1>5 DEF TypeOK
<1>11. FirstStart'
  <2>1. starts # 0
    BY <1>1, <1>2 DEF FirstStart
  <2>2. ASSUME starts = 1, NEW r \in Instances, outcome[r] # "down"
        PROVE  /\ outcome[r] \in {"running", "serving"}
               /\ \A q \in Instances : q # r => outcome[q] = "down"
               /\ Row1Gone' => pc'[r] >= 10
    <3>1. r = p
      BY <1>1, <1>2, <2>2 DEF FirstStart
    <3>2. Row1Gone' => pc'[r] >= 10
      BY <1>1, <1>2, <1>6, <1>10, <2>2, <3>1 DEF FirstStart
    <3> QED
      BY <1>1, <2>2, <3>2 DEF FirstStart
  <2> QED
    BY <1>2, <2>1, <2>2 DEF FirstStart
<1>12. Progress(p)'
  <2>1. CASE add_data(p)
    <3>1. readBack'[p] = sequence + 1 /\ pc'[p] = pc[p]
      BY <1>1, <1>3, <2>1 DEF TypeOK
    <3>2. sequence' = sequence + 1 /\ pc[p] \in 1 .. 3 /\ sequence' >= pc[p]
      BY <1>1, <1>2, <1>3, <2>1 DEF Progress
    <3>3. spoiled[p] => Row1Gone' /\ pc'[p] <= 4
      BY <1>1, <1>2, <1>6, <3>1, <3>2 DEF Progress
    <3>4. outcome'[p] = "running" /\ spoiled'[p] = spoiled[p] /\ pc'[p] \in {1, 2, 3, 7}
      BY <1>2, <3>1, <3>2
    <3>5. readBack'[p] <= sequence' /\ sequence' >= pc'[p]
      BY <1>2, <3>1, <3>2
    <3> QED
      BY <3>3, <3>4, <3>5 DEF Progress
  <2>2. CASE update_data(p)
    <3>1. readBack'[p] = 1 /\ pc'[p] = 7 /\ sequence' >= 3 /\ ~spoiled[p]
      BY <1>1, <1>2, <1>4, <2>2 DEF TypeOK, Progress
    <3> QED
      BY <1>2, <1>6, <3>1 DEF Progress
  <2>3. CASE delete_data(p)
    <3>1. readBack'[p] = 0 /\ pc'[p] = 10 /\ sequence' >= 3 /\ ~spoiled[p]
      BY <1>1, <1>2, <1>5, <2>3 DEF TypeOK, Progress
    <3>2. outcome'[p] = "running" /\ ~spoiled'[p]
      BY <1>2, <3>1
    <3>3. readBack'[p] <= sequence'
      BY <1>6, <3>1
    <3> QED
      BY <3>1, <3>2, <3>3 DEF Progress
  <2> QED
    BY <2>1, <2>2, <2>3
<1> QED
  BY <1>2, <1>6, <1>7, <1>8, <1>10, <1>11, <1>12, OwnStep

\* A read that finds no row looked for row 1, since every other id that an
\* instance asks for was given out before.
LEMMA ReadKeeps ==
  ASSUME ServiceInv, NEW p \in Instances, get_data(p)
  PROVE  ServiceInv'
<1> DEFINE id == IF readBack[p] # 0 THEN readBack[p] ELSE Script[pc[p]].id
<1>1. TypeOK /\ Rows /\ FirstStart /\ Progress(p)
  BY DEF ServiceInv
<1>2. /\ sequence \in Nat /\ pc[p] \in 1 .. 11 /\ readBack[p] \in Nat
      /\ outcome[p] = "running" /\ UNCHANGED <<table, sequence, spoiled, starts>>
  BY <1>1 DEF TypeOK, get_data, Calls, database
<1>3. pc[p] \in {1, 2, 3, 4, 5, 6, 7, 8} /\ (readBack[p] = 0 => pc[p] \in {4, 5, 6, 8})
  <2>1. readBack[p] # 0 => pc[p] \in {1, 2, 3, 7}
    BY <1>1, <1>2 DEF Progress
  <2>2. readBack[p] = 0 => pc[p] \in {4, 5, 6, 8}
    BY <1>2, ScriptIs DEF get_data, Calls
  <2> QED
    BY <2>1, <2>2
<1>4. id \in 1 .. sequence
  <2>1. CASE readBack[p] # 0
    BY <1>1, <1>2, <2>1 DEF Progress
  <2>2. CASE readBack[p] = 0
    <3>1. sequence >= 3
      BY <1>1, <1>2, <1>3, <2>2 DEF Progress
    <3>2. Script[pc[p]].id \in {1, 2, 3}
      BY <1>3, <2>2, ScriptIs
    <3> QED
      BY <1>2, <2>2, <3>1, <3>2
  <2> QED
    BY <2>1, <2>2
<1>5. Row1Gone' = Row1Gone /\ Rows' /\ sequence' \in Nat /\ sequence' >= sequence
  BY <1>1, <1>2 DEF Row1Gone, Rows
<1>6. spoiled[p] /\ readBack[p] = 0 => id \notin DOMAIN table
  <2> SUFFICES ASSUME spoiled[p], readBack[p] = 0 PROVE id \notin DOMAIN table
    OBVIOUS
  <2>1. Row1Gone /\ pc[p] = 4
    BY <1>1, <1>2, <1>3 DEF Progress
  <2> QED
    BY <2>1, ScriptIs DEF Row1Gone
<1>7. CASE id \in DOMAIN table
  <2>1. /\ pc' = [pc EXCEPT ![p] = pc[p] + 1] /\ outcome' = outcome
        /\ readBack' = [readBack EXCEPT ![p] = 0]
    BY <1>7 DEF get_data, Advance
  <2>2. TypeOK'
    <3>1. pc[p] + 1 \in 1 .. 11
      BY <1>3
    <3> QED
      BY <1>1, <1>2, <2>1, <3>1 DEF TypeOK
  <2>3. pc'[p] = pc[p] + 1 /\ readBack'[p] = 0
    BY <1>1, <2>1 DEF TypeOK
  <2>4. FirstStart'
    <3>1. \A r \in Instances : pc[r] \in 1 .. 11 /\ (r # p => pc'[r] = pc[r])
      BY <1>1, <2>1 DEF TypeOK
    <3>2. \A r \in Instances : pc[r] >= 10 => pc'[r] >= 10
      BY <1>3, <3>1
    <3> QED
      BY <1>1, <1>2, <1>5, <2>1, <3>2 DEF FirstStart
  <2>5. Progress(p)'
    <3>1. outcome'[p] = "running" /\ spoiled'[p] = spoiled[p] /\ sequence' = sequence
      BY <1>2, <2>1
    <3>2. sequence >= 3 \/ sequence + 1 >= pc'[p]
      BY <1>1, <1>2, <1>3, <2>3 DEF Progress
    <3>3. spoiled[p] => Row1Gone /\ readBack[p] # 0 /\ pc[p] <= 4
      BY <1>1, <1>2, <1>6, <1>7 DEF Progress
    <3>4. spoiled[p] => Row1Gone' /\ pc'[p] <= 4
      <4>1. readBack[p] # 0 => pc[p] \in {1, 2, 3, 7}
        BY <1>1, <1>2 DEF Progress
      <4> QED
        BY <1>2, <1>5, <2>3, <3>3, <4>1
    <3> QED
      BY <1>2, <2>3, <3>1, <3>2, <3>4 DEF Progress
  <2>6. \A r \in Instances : r # p =>
          /\ outcome'[r] = outcome[r] /\ pc'[r] = pc[r]
          /\ readBack'[r] = readBack[r] /\ spoiled'[r] = spoiled[r]
    BY <1>1, <1>2, <2>1 DEF TypeOK
  <2> QED
    BY <1>5, <2>2, <2>4, <2>5, <2>6, OwnStep
<1>8. CASE id \notin DOMAIN table
  <2>1. id = 1 /\ Row1Gone
    BY <1>1, <1>2, <1>4, <1>8 DEF Rows, Row1Gone
  <2>2. /\ outcome' = [outcome EXCEPT ![p] = "TypeError"] /\ pc' = pc
        /\ readBack' = [readBack EXCEPT ![p] = 1]
    <3> HIDE DEF id
    <3>1. /\ outcome' = [outcome EXCEPT ![p] = "TypeError"] /\ pc' = pc
          /\ readBack' = [readBack EXCEPT ![p] = id]
      BY <1>8 DEF get_data, id
    <3> QED
      BY <2>1, <3>1
  <2>3. TypeOK'
    BY <1>1, <1>2, <2>2 DEF TypeOK, Outcomes
  <2>4. FirstStart'
    <3>1. starts # 0 /\ starts # 1
      BY <1>1, <1>2, <1>3, <2>1 DEF FirstStart
    <3> QED
      BY <1>2, <3>1 DEF FirstStart
  <2>5. Progress(p)'
    <3>1. outcome'[p] = "TypeError" /\ readBack'[p] = 1
      BY <1>1, <2>2 DEF TypeOK
    <3>2. Row1Gone' /\ 1 <= sequence'
      BY <1>2, <1>5, <2>1 DEF Row1Gone
    <3> QED
      BY <3>1, <3>2 DEF Progress
  <2>6. \A r \in Instances : r # p =>
          /\ outcome'[r] = outcome[r] /\ pc'[r] = pc[r]
          /\ readBack'[r] = readBack[r] /\ spoiled'[r] = spoiled[r]
    BY <1>1, <1>2, <2>2 DEF TypeOK
  <2> QED
    BY <1>5, <2>3, <2>4, <2>5, <2>6, OwnStep
<1> QED
  BY <1>7, <1>8

\* The end of the script: a read of any number of rows, and the server.
LEMMA EndKeeps ==
  ASSUME ServiceInv, NEW p \in Instances, get_all_data(p) \/ serve(p)
  PROVE  ServiceInv'
<1>1. TypeOK /\ Rows /\ FirstStart /\ Progress(p)
  BY DEF ServiceInv
<1>2. /\ sequence \in Nat /\ pc[p] \in {10, 11} /\ readBack[p] = 0
      /\ outcome[p] = "running" /\ UNCHANGED <<table, sequence, readBack, spoiled, starts>>
  BY <1>1, ScriptIs DEF TypeOK, get_all_data, serve, Calls, database
<1>3. /\ Row1Gone' = Row1Gone /\ Rows' /\ sequence' \in Nat /\ sequence' >= sequence
      /\ sequence' >= 3 /\ ~spoiled[p]
  BY <1>1, <1>2 DEF Row1Gone, Rows, Progress
<1>4. CASE get_all_data(p)
  <2>1. pc[p] = 10 /\ pc' = [pc EXCEPT ![p] = 11] /\ outcome' = outcome
    <3>1. pc[p] = 10
      BY <1>2, <1>4, ScriptIs DEF get_all_data, Calls
    <3> QED
      BY <1>4, <3>1 DEF get_all_data, Advance
  <2>2. TypeOK'
    BY <1>1, <1>2, <2>1 DEF TypeOK
  <2>3. FirstStart'
    <3>1. \A r \in Instances : pc[r] >= 10 => pc'[r] >= 10
      BY <1>1, <2>1 DEF TypeOK
    <3> QED
      BY <1>1, <1>2, <1>3, <2>1, <3>1 DEF FirstStart
  <2>4. Progress(p)'
    <3>1. outcome'[p] = "running" /\ ~spoiled'[p] /\ readBack'[p] = 0
      BY <1>2, <1>3, <2>1
    <3> QED
      BY <1>3, <3>1 DEF Progress
  <2>5. \A r \in Instances : r # p =>
          /\ outcome'[r] = outcome[r] /\ pc'[r] = pc[r]
          /\ readBack'[r] = readBack[r] /\ spoiled'[r] = spoiled[r]
    BY <1>1, <1>2, <2>1 DEF TypeOK
  <2> QED
    BY <1>3, <2>2, <2>3, <2>4, <2>5, OwnStep
<1>5. CASE serve(p)
  <2>1. PICK o \in {"serving", "OSError"} :
          /\ outcome' = [outcome EXCEPT ![p] = o]
          /\ o = "OSError" => \E q \in Instances : outcome[q] = "serving"
    BY <1>5 DEF serve
  <2>2. pc' = pc /\ pc[p] = 11 /\ outcome'[p] = o
    BY <1>1, <1>2, <1>5, <2>1, ScriptIs DEF serve, Calls, TypeOK
  <2>3. TypeOK'
    BY <1>1, <1>2, <2>1, <2>2 DEF TypeOK, Outcomes
  <2>4. \A r \in Instances : r # p =>
          /\ outcome'[r] = outcome[r] /\ pc'[r] = pc[r]
          /\ readBack'[r] = readBack[r] /\ spoiled'[r] = spoiled[r]
    BY <1>1, <1>2, <2>1, <2>2 DEF TypeOK
  <2>5. FirstStart'
    <3>1. starts # 0
      BY <1>1, <1>2 DEF FirstStart
    <3>2. ASSUME starts = 1
          PROVE  o = "serving" /\ \A r \in Instances : r # p => outcome[r] = "down"
      BY <1>1, <1>2, <2>1, <3>2 DEF FirstStart
    <3>3. ASSUME starts = 1, NEW q \in Instances, outcome'[q] # "down"
          PROVE  q = p /\ outcome'[q] = "serving" /\ pc'[q] >= 10
      BY <2>2, <2>4, <3>2, <3>3
    <3>4. starts = 1 => \A r \in Instances : r # p => outcome'[r] = "down"
      BY <2>4, <3>2
    <3> QED
      BY <1>2, <3>1, <3>3, <3>4 DEF FirstStart
  <2>6. Progress(p)'
    <3>1. outcome'[p] # "TypeError" /\ ~spoiled'[p] /\ readBack'[p] = 0 /\ pc'[p] = 11
      BY <1>2, <1>3, <2>1, <2>2
    <3>2. readBack'[p] <= sequence' /\ sequence' >= 3
      BY <1>3, <3>1
    <3> QED
      BY <3>1, <3>2 DEF Progress
  <2> QED
    BY <1>3, <2>3, <2>4, <2>5, <2>6, OwnStep
<1> QED
  BY <1>4, <1>5

LEMMA InvStep == ServiceInv /\ [Next]_vars => ServiceInv'
<1> SUFFICES ASSUME ServiceInv, [Next]_vars PROVE ServiceInv'
  OBVIOUS
<1>1. ASSUME NEW p \in Instances, Start(p) \/ Crash(p) \/ Step(p) PROVE ServiceInv'
  BY <1>1, StartKeeps, WriteKeeps, ReadKeeps, EndKeeps DEF Step
<1>2. CASE UNCHANGED vars
  BY <1>2 DEF vars, database, ServiceInv, TypeOK, Rows, FirstStart, Progress, Row1Gone
<1> QED
  BY <1>1, <1>2 DEF Next, Over

LEMMA ServiceInvariant == Spec => []ServiceInv
  BY InitInv, InvStep, PTL DEF Spec

\* However many instances share the file, crash and restart, the DTO meets a
\* missing row only where row 1 was deleted.
THEOREM OnlyRow1IsMissing == Spec => []MissingRowIsRow1
<1>1. ServiceInv => MissingRowIsRow1
  BY DEF ServiceInv, Progress, Row1Gone, MissingRowIsRow1
<1> QED
  BY <1>1, ServiceInvariant, PTL

\* The first start on a file serves or is killed, and a start on a file whose
\* row 1 is gone never serves, whatever the other instances do.
THEOREM SpoiledNeverServes == Spec => []ServesUntilSpoiled
<1>1. ServiceInv => ServesUntilSpoiled
  <2> SUFFICES ASSUME ServiceInv, NEW p \in Instances
               PROVE  /\ starts = 1 => outcome[p] \in {"down", "running", "serving"}
                      /\ spoiled[p] => outcome[p] # "serving"
    BY DEF ServesUntilSpoiled
  <2>1. starts = 1 => outcome[p] \in {"down", "running", "serving"}
    BY DEF ServiceInv, FirstStart
  <2>2. spoiled[p] => outcome[p] # "serving"
    BY DEF ServiceInv, Progress
  <2> QED
    BY <2>1, <2>2
<1> QED
  BY <1>1, ServiceInvariant, PTL

\* AUTOINCREMENT never gives out an id again: a row that is gone stays gone.
THEOREM IdsTheorem == Spec => IdsNeverReused
<1>1. ServiceInv /\ [Next]_vars
        => [\A k \in 1 .. sequence : k \notin DOMAIN table => k \notin DOMAIN table']_vars
  <2> SUFFICES ASSUME ServiceInv, Next, NEW k \in 1 .. sequence, k \notin DOMAIN table
               PROVE  k \notin DOMAIN table'
    BY DEF vars, database
  <2>1. ASSUME NEW p \in Instances, Start(p) \/ Crash(p) PROVE table' = table
    BY <2>1 DEF Start, Crash, database
  <2>2. ASSUME NEW p \in Instances, get_data(p) \/ get_all_data(p) \/ serve(p)
        PROVE  table' = table
    BY <2>2 DEF get_data, get_all_data, serve, database
  <2>3. ASSUME NEW p \in Instances, add_data(p) PROVE k \notin DOMAIN table'
    <3>1. DOMAIN table' = DOMAIN table \cup {sequence + 1} /\ sequence \in Nat
      BY <2>3 DEF add_data, WithRow, ServiceInv, TypeOK
    <3> QED
      BY <3>1
  <2>4. ASSUME NEW p \in Instances, update_data(p) PROVE DOMAIN table' = DOMAIN table
    BY <2>4 DEF update_data
  <2>5. ASSUME NEW p \in Instances, delete_data(p) PROVE DOMAIN table' \subseteq DOMAIN table
    BY <2>5 DEF delete_data
  <2>6. Over => table' = table
    BY DEF Over, vars, database
  <2> QED
    BY <2>1, <2>2, <2>3, <2>4, <2>5, <2>6 DEF Next, Step
<1> QED
  BY <1>1, ServiceInvariant, PTL DEF Spec, IdsNeverReused

------------------------------------------------------------------------------
(* The code object cache.  The strengthening says what the bisection has   *)
(* narrowed the line down to, and that only a line that is not cached is   *)
(* inserted.                                                               *)
Searching == step \in {"find", "insert"}

\* The loop of __pyx_bisect_code_objects, with what Meet relies on: mid is the
\* entry that start and end met at, or the one before it.
LoopInv ==
  Searching =>
    /\ start <= end /\ end <= count - 1
    /\ code_line <= entries[end].code_line
    /\ start > 0 => entries[start - 1].code_line < code_line
    /\ start = end => mid \in {start - 1, start}

\* Who owns what, and what is not in the cache yet.
CallInv ==
  /\ max_count # 0 => count >= 1
  /\ step # "idle" => code_line \in Lines
  /\ step \in {"find", "found", "insert", "place"} => max_count # 0
  /\ step \in {"idle", "find", "found", "make"} => py_code = 0
  /\ step \in {"make", "made", "insert", "place"} =>
       code_line = 0 \/ \A k \in 0 .. count - 1 : entries[k].code_line # code_line
  /\ step \in {"insert", "place"} => code_line # 0
  /\ step \in {"made", "insert", "place"} =>
       py_code # 0 /\ made[py_code] = code_line /\ ~Cached(py_code)

CacheInv == CacheTypeOK /\ CacheSorted /\ BisectFinds /\ RefsExact /\ LoopInv /\ CallInv

USE CacheAssumption

LEMMA CacheInitInv == CacheInit => CacheInv
  <1> SUFFICES ASSUME CacheInit PROVE CacheInv
    OBVIOUS
  <1>1. CacheTypeOK
    BY DEF CacheInit, CacheTypeOK, Entry
  <1>2. CacheSorted /\ BisectFinds /\ RefsExact /\ LoopInv /\ CallInv
    BY DEF CacheInit, CacheSorted, BisectFinds, RefsExact, LoopInv, CallInv, Searching, Cached
  <1> QED
    BY <1>1, <1>2 DEF CacheInv

\* What arithmetic needs of CacheTypeOK.
LEMMA CacheNumbers ==
  CacheTypeOK =>
    /\ count \in Nat /\ max_count \in Nat /\ code_line \in Int
    /\ start \in Nat /\ mid \in Nat /\ end \in Int /\ pos \in Nat
    /\ \A k \in 0 .. count - 1 : entries[k].code_line \in Int
  <1> SUFFICES ASSUME CacheTypeOK
               PROVE /\ code_line \in Int
                     /\ \A k \in 0 .. count - 1 : entries[k].code_line \in Int
    BY DEF CacheTypeOK
  <1>1. \A k \in 0 .. count - 1 : entries[k].code_line \in Lines
    BY DEF CacheTypeOK
  <1>2. code_line \in Lines \cup {0}
    BY DEF CacheTypeOK
  <1>3. \A l \in Lines \cup {0} : l \in Int
    OBVIOUS
  <1> QED
    BY <1>1, <1>2, <1>3

\* CacheTypeOK after a step that makes no code object.
LEMMA TypesKept ==
  ASSUME CacheTypeOK, made' = made,
         count' \in Nat, max_count' \in Nat, count' <= max_count',
         refs' \in Seq(Nat), Len(refs') = Len(made),
         entries' \in [0 .. count' - 1 -> [code_line : Lines, code_object : 1 .. Len(made)]],
         step' \in {"idle", "find", "found", "make", "made", "insert", "place", "finish"},
         code_line' \in Lines \cup {0},
         start' \in Nat, mid' \in Nat, end' \in Int, pos' \in Nat,
         py_code' \in 0 .. Len(made)
  PROVE  CacheTypeOK'
  BY DEF CacheTypeOK

LEMMA AddTracebackInv ==
  ASSUME CacheInv, NEW l \in Lines, AddTraceback(l) PROVE CacheInv'
  <1> USE DEF CacheInv, AddTraceback, cache, objects, bisection
  <1>0. l \in Int /\ code_line' = l /\ UNCHANGED <<entries, count, made, refs, py_code, max_count>>
    OBVIOUS
  <1>1. CacheTypeOK'
    <2>1. /\ start' \in Nat /\ mid' \in Nat /\ end' \in Int /\ pos' \in Nat
          /\ step' \in {"make", "found", "find"}
      BY CacheNumbers DEF Bisect
    <2> HIDE DEF AddTraceback
    <2>2. /\ count' \in Nat /\ max_count' \in Nat /\ count' <= max_count'
          /\ refs' \in Seq(Nat) /\ Len(refs') = Len(made) /\ py_code' \in 0 .. Len(made)
      BY <1>0 DEF CacheTypeOK
    <2>3. entries' \in [0 .. count' - 1 -> [code_line : Lines, code_object : 1 .. Len(made)]]
      BY <1>0 DEF CacheTypeOK
    <2> QED
      BY <1>0, <2>1, <2>2, <2>3, TypesKept
  <1>2. CacheSorted' /\ RefsExact'
    BY DEF CacheSorted, RefsExact, Cached, CacheTypeOK, CallInv
  <1>3. BisectFinds'
    <2> SUFFICES ASSUME step' \in {"found", "place"} PROVE BisectFinds'
      BY DEF BisectFinds
    <2>1. pos' = count /\ count - 1 >= 0 /\ l > entries[count - 1].code_line
      BY DEF Bisect
    <2> SUFFICES ASSUME NEW k \in 0 .. count - 1
                 PROVE entries[k].code_line < l /\ k < count
      BY <1>0, <2>1, CacheNumbers DEF BisectFinds
    <2>2. k = count - 1 \/ entries[k].code_line < entries[count - 1].code_line
      BY CacheNumbers DEF CacheSorted
    <2> QED
      BY <1>0, <2>1, <2>2, CacheNumbers
  <1>4. LoopInv'
    <2> SUFFICES ASSUME step' \in {"find", "insert"} PROVE LoopInv'
      BY DEF LoopInv, Searching
    <2>1. start' = 0 /\ mid' = 0 /\ end' = count - 1 /\ max_count # 0
      BY DEF Bisect
    <2>2. count >= 1 /\ ~(l > entries[count - 1].code_line)
      BY <2>1, CacheNumbers DEF Bisect, CallInv
    <2>3. l <= entries[count - 1].code_line
      BY <1>0, <2>2, CacheNumbers
    <2> QED
      BY <1>0, <2>1, <2>2, <2>3, CacheNumbers DEF LoopInv
  <1>5. CallInv'
    <2>1. max_count = 0 => count = 0
      BY DEF CacheTypeOK
    <2>2. step' \notin {"made", "insert", "place"} /\ py_code = 0
      BY DEF Bisect, CallInv
    <2>3. step' = "make" => l = 0 \/ count = 0
      BY <2>1 DEF Bisect
    <2>4. step' \in {"find", "found"} => max_count # 0
      BY DEF Bisect
    <2> QED
      BY <1>0, <2>2, <2>3, <2>4 DEF CallInv
  <1> QED
    BY <1>1, <1>2, <1>3, <1>4, <1>5

LEMMA HalveInv == ASSUME CacheInv, Halve PROVE CacheInv'
  <1> USE DEF CacheInv, Halve, cache, objects
  <1> DEFINE m == Middle
  <1>0. m \in Nat /\ start <= m /\ m < end /\ start < end /\ end < count
    BY CacheNumbers DEF LoopInv, Searching, Middle
  <1>u. mid' = m /\ UNCHANGED <<entries, count, max_count, made, refs, code_line, py_code>>
    OBVIOUS
  <1>m. entries[m].code_line \in Int /\ m \in 0 .. count - 1
    BY <1>0, CacheNumbers
  <1> HIDE DEF m
  <1>1. CacheTypeOK'
    <2>1. start' \in Nat /\ end' \in Int /\ pos' \in Nat
      BY <1>0, CacheNumbers DEF BisectReturns, m
    <2>2. step' \in {"find", "insert", "found", "place"}
      BY DEF BisectReturns
    <2> QED
      BY <1>0, <1>u, <2>1, <2>2 DEF CacheTypeOK
  <1>2. CacheSorted' /\ RefsExact'
    BY <1>u DEF CacheSorted, RefsExact, Cached
  <1>a. CASE code_line < entries[m].code_line /\ end' = m /\ UNCHANGED <<start, pos, step>>
    <2>1. BisectFinds' /\ CallInv'
      BY <1>a, <1>u DEF BisectFinds, CallInv, Cached
    <2>2. LoopInv'
      BY <1>a, <1>u, <1>0, <1>m, CacheNumbers DEF LoopInv, Searching
    <2> QED
      BY <1>1, <1>2, <2>1, <2>2
  <1>b. CASE code_line > entries[m].code_line /\ start' = m + 1 /\ UNCHANGED <<end, pos, step>>
    <2>1. BisectFinds' /\ CallInv'
      BY <1>b, <1>u DEF BisectFinds, CallInv, Cached
    <2>2. LoopInv'
      BY <1>b, <1>u, <1>0, <1>m, CacheNumbers DEF LoopInv, Searching
    <2> QED
      BY <1>1, <1>2, <2>1, <2>2
  <1>c. CASE code_line = entries[m].code_line /\ BisectReturns(m) /\ UNCHANGED <<start, end>>
    <2>0. LoopInv'
      BY <1>c DEF LoopInv, Searching, BisectReturns
    <2>1. CallInv'
      BY <1>c, <1>u DEF CallInv, Cached, BisectReturns
    <2>2. \A k \in 0 .. count - 1 : (entries[k].code_line < code_line) = (k < m)
      BY <1>c, <1>m, <1>0, CacheNumbers DEF CacheSorted
    <2>3. BisectFinds'
      BY <1>c, <1>u, <1>0, <2>2, CacheNumbers DEF BisectFinds, BisectReturns
    <2> QED
      BY <1>1, <1>2, <2>0, <2>1, <2>3
  <1> QED
    BY <1>a, <1>b, <1>c DEF m

LEMMA MeetInv == ASSUME CacheInv, Meet PROVE CacheInv'
  <1> USE DEF CacheInv, Meet, cache, objects
  <1>u. UNCHANGED <<entries, count, max_count, made, refs, code_line, py_code, start, mid, end>>
    OBVIOUS
  <1>0. start = end /\ mid \in {start - 1, start} /\ start \in 0 .. count - 1
    BY CacheNumbers DEF LoopInv, Searching
  <1>1. CacheTypeOK'
    BY <1>u DEF CacheTypeOK, BisectReturns
  <1>2. CacheSorted' /\ RefsExact'
    BY <1>u DEF CacheSorted, RefsExact, Cached
  <1>3. BisectFinds'
    <2>1. /\ code_line <= entries[start].code_line
          /\ start > 0 => entries[start - 1].code_line < code_line
      BY <1>0 DEF LoopInv, Searching
    <2>2. CASE mid = start
      BY <2>1, <2>2, <1>0, <1>u, CacheNumbers DEF BisectFinds, BisectReturns, CacheSorted
    <2>3. CASE mid = start - 1
      <3>1. start > 0 /\ start - 1 \in 0 .. count - 1
        BY <2>3, <1>0, CacheNumbers
      <3>2. ~(code_line <= entries[mid].code_line) /\ pos' = start
        BY <2>1, <2>3, <3>1, CacheNumbers DEF BisectReturns
      <3>3. \A k \in 0 .. count - 1 : (entries[k].code_line < code_line) = (k < start)
        BY <2>1, <3>1, <1>0, CacheNumbers DEF CacheSorted
      <3> QED
        BY <3>2, <3>3, <1>0, <1>u, CacheNumbers DEF BisectFinds
    <2> QED
      BY <2>2, <2>3, <1>0
  <1>4. LoopInv' /\ CallInv'
    BY <1>u DEF LoopInv, CallInv, Searching, Cached, BisectReturns
  <1> QED
    BY <1>1, <1>2, <1>3, <1>4

LEMMA FoundInv == ASSUME CacheInv, Found PROVE CacheInv'
  <1> USE DEF CacheInv, Found, cache, bisection
  <1>u. UNCHANGED <<entries, count, max_count, made, code_line, start, mid, end, pos>>
    OBVIOUS
  <1>1. CASE pos >= count \/ entries[pos].code_line # code_line
    <2>0. step' = "make" /\ UNCHANGED <<py_code, refs>>
      BY <1>1
    <2>1. CacheTypeOK' /\ CacheSorted' /\ RefsExact'
      BY <1>u, <2>0 DEF CacheTypeOK, CacheSorted, RefsExact, Cached
    <2>2. BisectFinds' /\ LoopInv'
      BY <2>0 DEF BisectFinds, LoopInv, Searching
    <2>3. \A k \in 0 .. count - 1 : entries[k].code_line # code_line
      <3> TAKE k \in 0 .. count - 1
      <3>1. (entries[k].code_line < code_line) = (k < pos) /\ pos <= count
        BY DEF BisectFinds
      <3>2. pos < k => entries[pos].code_line < entries[k].code_line
        BY CacheNumbers DEF CacheSorted
      <3>3. pos < count => ~(entries[pos].code_line < code_line)
        BY CacheNumbers DEF BisectFinds
      <3> QED
        BY <1>1, <3>1, <3>2, <3>3, CacheNumbers
    <2>4. CallInv'
      BY <1>u, <2>0, <2>3 DEF CallInv
    <2> QED
      BY <2>1, <2>2, <2>4
  <1>2. CASE ~(pos >= count \/ entries[pos].code_line # code_line)
    <2> DEFINE c == entries[pos].code_object
    <2>0. pos \in 0 .. count - 1 /\ c \in 1 .. Len(made) /\ Cached(c) /\ py_code = 0
      BY <1>2, CacheNumbers DEF CacheTypeOK, CallInv, Cached
    <2>1. step' = "finish" /\ py_code' = c /\ refs' = [refs EXCEPT ![c] = refs[c] + 1]
      BY <1>2
    <2> HIDE DEF c
    <2>2. CacheTypeOK'
      BY <1>u, <2>0, <2>1 DEF CacheTypeOK
    <2>3. CacheSorted' /\ BisectFinds' /\ LoopInv' /\ CallInv'
      BY <1>u, <2>1 DEF CacheSorted, BisectFinds, LoopInv, Searching, CallInv
    <2>4. RefsExact'
      <3>1. \A d \in 1 .. Len(made) : refs'[d] = IF d = c THEN refs[d] + 1 ELSE refs[d]
        BY <2>1 DEF CacheTypeOK
      <3>2. \A d \in 1 .. Len(made) : Cached(d)' = Cached(d)
        BY <1>u DEF Cached
      <3>3. \A d \in 1 .. Len(made) : refs[d] = IF Cached(d) THEN 1 ELSE 0
        BY <2>0 DEF RefsExact
      <3>4. \A d \in 1 .. Len(made) :
              refs'[d] = (IF Cached(d)' THEN 1 ELSE 0) + (IF py_code' = d THEN 1 ELSE 0)
        BY <2>0, <2>1, <3>1, <3>2, <3>3
      <3> QED
        BY <1>u, <3>4 DEF RefsExact
    <2> QED
      BY <2>2, <2>3, <2>4
  <1> QED
    BY <1>1, <1>2

LEMMA MakeInv == ASSUME CacheInv, Make PROVE CacheInv'
  <1> USE DEF CacheInv, Make, cache, objects, bisection
  <1>u. UNCHANGED <<entries, count, max_count, code_line, start, mid, end, pos>>
    OBVIOUS
  <1>1. CASE step' = "finish" /\ UNCHANGED <<objects, py_code>>
    <2>1. CacheTypeOK'
      BY <1>1, <1>u DEF CacheTypeOK
    <2>2. CacheSorted' /\ BisectFinds' /\ LoopInv' /\ CallInv'
      BY <1>1, <1>u DEF CacheSorted, BisectFinds, LoopInv, Searching, CallInv
    <2>3. RefsExact'
      BY <1>1, <1>u DEF RefsExact, Cached
    <2> QED
      BY <2>1, <2>2, <2>3
  <1>2. CASE /\ made' = Append(made, code_line) /\ refs' = Append(refs, 1)
             /\ py_code' = Len(made) + 1 /\ step' = "made"
    <2> DEFINE n == Len(made)
    <2>0. n \in Nat /\ made \in Seq(Lines) /\ refs \in Seq(Nat) /\ Len(refs) = n
      BY DEF CacheTypeOK
    <2>1. code_line \in Lines
      BY DEF CallInv
    <2>2. /\ made' \in Seq(Lines) /\ Len(made') = n + 1 /\ made'[n + 1] = code_line
          /\ \A d \in 1 .. n : made'[d] = made[d]
      BY <1>2, <2>0, <2>1
    <2>3. /\ refs' \in Seq(Nat) /\ Len(refs') = n + 1 /\ refs'[n + 1] = 1
          /\ \A d \in 1 .. n : refs'[d] = refs[d]
      BY <1>2, <2>0
    <2>4. \A k \in 0 .. count - 1 : entries[k].code_object \in 1 .. n
      BY DEF CacheTypeOK
    <2> HIDE DEF n
    <2>5. entries \in [0 .. count - 1 -> [code_line : Lines, code_object : 1 .. n + 1]]
      <3>1. entries \in [0 .. count - 1 -> [code_line : Lines, code_object : 1 .. n]]
        BY DEF CacheTypeOK, n
      <3>2. 1 .. n \subseteq 1 .. n + 1
        BY <2>0
      <3> QED
        BY <3>1, <3>2
    <2>6. CacheTypeOK'
      BY <1>2, <1>u, <2>0, <2>2, <2>3, <2>5 DEF CacheTypeOK, n
    <2>7. CacheSorted'
      BY <1>u, <2>2, <2>4 DEF CacheSorted
    <2>8. ~Cached(n + 1) /\ py_code = 0
      BY <2>0, <2>4 DEF Cached, CallInv
    <2>c. \A d : Cached(d)' = Cached(d)
      BY <1>u DEF Cached
    <2>9. RefsExact'
      <3> SUFFICES ASSUME NEW d \in 1 .. n + 1
                   PROVE refs'[d] = (IF Cached(d)' THEN 1 ELSE 0) + (IF py_code' = d THEN 1 ELSE 0)
        BY <2>2 DEF RefsExact
      <3>1. CASE d = n + 1
        BY <1>2, <2>3, <2>8, <2>c, <3>1 DEF n
      <3>2. CASE d \in 1 .. n
        <4>1. refs[d] = IF Cached(d) THEN 1 ELSE 0
          BY <2>8, <3>2, <2>0 DEF RefsExact, n
        <4> QED
          BY <1>2, <2>0, <2>3, <2>c, <3>2, <4>1 DEF n
      <3> QED
        BY <3>1, <3>2, <2>0
    <2>10. BisectFinds' /\ LoopInv'
      BY <1>2 DEF BisectFinds, LoopInv, Searching
    <2>11. CallInv'
      <3>1. code_line = 0 \/ \A k \in 0 .. count - 1 : entries[k].code_line # code_line
        BY DEF CallInv
      <3>2. (py_code # 0 /\ made[py_code] = code_line /\ ~Cached(py_code))'
        <4>1. py_code' = n + 1 /\ n + 1 # 0
          BY <1>2, <2>0 DEF n
        <4>2. made'[py_code'] = code_line'
          BY <1>u, <2>2, <4>1
        <4>3. ~Cached(py_code)'
          BY <1>u, <2>8, <4>1 DEF Cached
        <4> QED
          BY <4>1, <4>2, <4>3
      <3>3. max_count # 0 => count >= 1
        BY DEF CallInv
      <3> QED
        BY <1>2, <1>u, <2>1, <3>1, <3>2, <3>3 DEF CallInv
    <2> QED
      BY <2>6, <2>7, <2>9, <2>10, <2>11
  <1> QED
    BY <1>1, <1>2

LEMMA FinishInv == ASSUME CacheInv, Finish PROVE CacheInv'
  <1> USE DEF CacheInv, Finish, cache, bisection
  <1>u. /\ UNCHANGED <<entries, count, max_count, made, code_line, start, mid, end, pos>>
        /\ step' = "idle" /\ py_code' = 0
    OBVIOUS
  <1>c. \A d : Cached(d)' = Cached(d)
    BY <1>u DEF Cached
  <1>1. CASE py_code = 0
    BY <1>1, <1>u, <1>c DEF CacheTypeOK, CacheSorted, BisectFinds, RefsExact, LoopInv,
      Searching, CallInv
  <1>2. CASE py_code # 0
    <2>0. py_code \in 1 .. Len(made) /\ refs' = [refs EXCEPT ![py_code] = refs[py_code] - 1]
      BY <1>2 DEF CacheTypeOK
    <2>1. refs \in [1 .. Len(made) -> Nat] /\ refs \in Seq(Nat) /\ Len(refs) = Len(made)
      BY DEF CacheTypeOK
    <2>2. refs[py_code] = (IF Cached(py_code) THEN 1 ELSE 0) + 1
      BY <2>0 DEF RefsExact
    <2>3. refs[py_code] - 1 \in Nat
      BY <2>2
    <2>4. \A d \in 1 .. Len(made) : refs'[d] = IF d = py_code THEN refs[d] - 1 ELSE refs[d]
      BY <2>0, <2>1
    <2>5. RefsExact'
      <3> SUFFICES ASSUME NEW d \in 1 .. Len(made) PROVE refs'[d] = IF Cached(d) THEN 1 ELSE 0
        BY <1>u, <1>c DEF RefsExact, CacheTypeOK
      <3>1. refs[d] = (IF Cached(d) THEN 1 ELSE 0) + (IF py_code = d THEN 1 ELSE 0)
        BY DEF RefsExact
      <3> QED
        BY <2>4, <3>1
    <2>6. refs' \in Seq(Nat) /\ Len(refs') = Len(refs)
      BY <2>0, <2>1, <2>3
    <2>7. CacheTypeOK'
      BY <1>u, <2>6 DEF CacheTypeOK
    <2>8. CacheSorted' /\ BisectFinds' /\ LoopInv' /\ CallInv'
      BY <1>u DEF CacheSorted, BisectFinds, LoopInv, Searching, CallInv
    <2> QED
      BY <2>5, <2>7, <2>8
  <1> QED
    BY <1>1, <1>2

\* A new entry at pos, which BisectFinds says is where its line belongs, and the
\* reference it owns.  The first array is the case count = 0.
Placed(p) ==
  /\ p <= count /\ \A k \in 0 .. count - 1 : (entries[k].code_line < code_line) = (k < p)
  /\ entries' = [k \in 0 .. count |-> IF k < p THEN entries[k]
                                      ELSE IF k = p THEN Entry(code_line, py_code)
                                      ELSE entries[k - 1]]
  /\ count' = count + 1 /\ max_count' \in Nat /\ count' <= max_count' /\ max_count' # 0
  /\ refs' = [refs EXCEPT ![py_code] = refs[py_code] + 1]
  /\ UNCHANGED <<made, code_line, start, mid, end, pos, py_code>>

LEMMA NewEntryInv ==
  ASSUME CacheInv, step \in {"made", "place"}, step' = "finish", code_line # 0,
         NEW p \in Nat, Placed(p)
  PROVE  CacheInv'
  <1> USE DEF CacheInv
  <1> DEFINE E == [code_line : Lines, code_object : 1 .. Len(made)]
             e == Entry(code_line, py_code)
  <1>0. count \in Nat /\ code_line \in Int /\ code_line \in Lines
    BY CacheNumbers DEF CallInv
  <1>c. /\ p <= count /\ count' = count + 1
        /\ max_count' \in Nat /\ count' <= max_count' /\ max_count' # 0
    BY DEF Placed
  <1>u. UNCHANGED <<made, code_line, start, mid, end, pos, py_code>>
    BY DEF Placed
  <1>1. py_code \in 1 .. Len(made) /\ made[py_code] = code_line /\ ~Cached(py_code)
    BY DEF CacheTypeOK, CallInv
  <1>2. e \in E /\ e.code_line = code_line /\ e.code_object = py_code
    BY <1>0, <1>1 DEF Entry
  <1>3. \A k \in 0 .. count - 1 : entries[k] \in E
    BY DEF CacheTypeOK
  <1>e. \A k \in 0 .. count : entries'[k] = IF k < p THEN entries[k]
                                            ELSE IF k = p THEN e ELSE entries[k - 1]
    BY DEF Placed
  <1> HIDE DEF E, e
  <1>4. entries' \in [0 .. count -> E]
    <2>1. \A k \in 0 .. count : entries'[k] \in E
      BY <1>0, <1>2, <1>3, <1>c, <1>e
    <2>2. entries' = [k \in 0 .. count |-> entries'[k]]
      BY DEF Placed
    <2> QED
      BY <2>1, <2>2
  <1>5. refs \in Seq(Nat) /\ Len(refs) = Len(made)
    BY DEF CacheTypeOK
  <1>6. refs' \in Seq(Nat) /\ Len(refs') = Len(made)
    <2>1. refs' = [refs EXCEPT ![py_code] = refs[py_code] + 1]
      BY DEF Placed
    <2> QED
      BY <1>1, <1>5, <2>1
  <1>7. CacheTypeOK'
    <2>1. entries' \in [0 .. count' - 1 -> [code_line : Lines, code_object : 1 .. Len(made')]]
      <3>1. count' - 1 = count /\ made' = made
        BY <1>0, <1>c, <1>u
      <3> QED
        BY <1>4, <3>1 DEF E
    <2>2. /\ code_line' \in Lines \cup {0} /\ py_code' \in 0 .. Len(made)
          /\ start' \in Nat /\ mid' \in Nat /\ end' \in Int /\ pos' \in Nat
      BY <1>0, <1>u DEF CacheTypeOK
    <2>3. count' \in Nat /\ made' = made
      BY <1>0, <1>c, <1>u
    <2> QED
      BY <1>6, <1>c, <2>1, <2>2, <2>3, TypesKept
  <1>8. CacheSorted'
    <2> SUFFICES /\ \A j, k \in 0 .. count : j < k => entries'[j].code_line < entries'[k].code_line
                 /\ \A k \in 0 .. count : made[entries'[k].code_object] = entries'[k].code_line
      <3>1. count' - 1 = count /\ made' = made
        BY <1>0, <1>c, <1>u
      <3> QED
        BY <3>1 DEF CacheSorted
    <2>1. \A k \in 0 .. count - 1 : entries[k].code_line # code_line
      BY DEF CallInv
    <2>2. ASSUME NEW k \in 0 .. count - 1, k >= p PROVE code_line < entries[k].code_line
      <3>1. entries[k].code_line \in Int
        BY CacheNumbers
      <3>2. ~(k < p)
        BY <1>0, <2>2
      <3>3. ~(entries[k].code_line < code_line)
        BY <3>2 DEF Placed
      <3> QED
        BY <1>0, <2>1, <3>1, <3>3
    <2>3. ASSUME NEW j \in 0 .. count, NEW k \in 0 .. count, j < k
          PROVE entries'[j].code_line < entries'[k].code_line
      <3>1. CASE k < p
        BY <1>e, <2>3, <3>1, <1>0, <1>c DEF CacheSorted
      <3>2. CASE k = p
        <4>1. entries'[j] = entries[j] /\ entries'[k] = e /\ j \in 0 .. count - 1 /\ j < p
          BY <1>e, <1>0, <1>c, <2>3, <3>2
        <4>2. entries[j].code_line < code_line
          BY <4>1 DEF Placed
        <4> QED
          BY <1>2, <4>1, <4>2
      <3>3. CASE k > p /\ j < p
        <4>1. /\ entries'[j] = entries[j] /\ j \in 0 .. count - 1
              /\ entries'[k] = entries[k - 1] /\ k - 1 \in 0 .. count - 1
              /\ j < p /\ ~(k - 1 < p)
          BY <1>e, <1>0, <1>c, <2>3, <3>3
        <4>2. entries[j].code_line < code_line
          BY <4>1 DEF Placed
        <4>3. code_line < entries[k - 1].code_line
          BY <2>2, <4>1
        <4>4. entries[j].code_line \in Int /\ entries[k - 1].code_line \in Int
          BY <4>1, CacheNumbers
        <4> QED
          BY <1>0, <4>1, <4>2, <4>3, <4>4
      <3>4. CASE k > p /\ j = p
        <4>1. /\ entries'[j] = e /\ entries'[k] = entries[k - 1]
              /\ k - 1 \in 0 .. count - 1 /\ k - 1 >= p
          BY <1>e, <1>0, <1>c, <2>3, <3>4
        <4> QED
          BY <1>2, <2>2, <4>1
      <3>5. CASE k > p /\ j > p
        BY <1>e, <2>3, <3>5, <1>0 DEF CacheSorted
      <3>6. j \in Int /\ k \in Int
        BY <1>0
      <3>7. (k < p \/ k = p \/ k > p) /\ (j < p \/ j = p \/ j > p)
        BY <3>6
      <3> QED
        BY <3>1, <3>2, <3>3, <3>4, <3>5, <3>7
    <2>4. ASSUME NEW k \in 0 .. count
          PROVE made[entries'[k].code_object] = entries'[k].code_line
      <3>1. CASE k = p
        BY <1>e, <1>1, <1>2, <3>1
      <3>2. CASE k # p
        <4>1. PICK b \in 0 .. count - 1 : entries'[k] = entries[b]
          BY <1>e, <1>0, <1>c, <3>2
        <4> QED
          BY <4>1 DEF CacheSorted
      <3> QED
        BY <3>1, <3>2
    <2> QED
      BY <2>3, <2>4
  <1>9. ASSUME NEW d \in 1 .. Len(made)
        PROVE Cached(d)' = (Cached(d) \/ d = py_code)
    <2>1. ASSUME Cached(d) PROVE Cached(d)'
      <3>1. PICK k \in 0 .. count - 1 : entries[k].code_object = d
        BY <2>1 DEF Cached
      <3>2. CASE k < p
        BY <3>1, <3>2, <1>e, <1>0, <1>c DEF Cached
      <3>3. CASE k >= p
        <4>1. k + 1 \in 0 .. count' - 1 /\ entries'[k + 1] = entries[k]
          BY <3>3, <1>e, <1>0, <1>c
        <4> QED
          BY <4>1, <3>1 DEF Cached
      <3> QED
        BY <3>2, <3>3
    <2>2. d = py_code => Cached(d)'
      <3>1. p \in 0 .. count' - 1 /\ entries'[p].code_object = py_code
        BY <1>e, <1>2, <1>0, <1>c
      <3> QED
        BY <3>1 DEF Cached
    <2>3. Cached(d)' => Cached(d) \/ d = py_code
      BY <1>e, <1>2, <1>0, <1>c DEF Cached
    <2> QED
      BY <2>1, <2>2, <2>3 DEF Cached
  <1>10. RefsExact'
    <2> SUFFICES ASSUME NEW d \in 1 .. Len(made)
                 PROVE refs'[d] = (IF Cached(d)' THEN 1 ELSE 0) + (IF py_code = d THEN 1 ELSE 0)
      BY <1>u DEF RefsExact
    <2>1. refs'[d] = IF d = py_code THEN refs[d] + 1 ELSE refs[d]
      BY <1>1, <1>5 DEF Placed
    <2>2. refs[d] = (IF Cached(d) THEN 1 ELSE 0) + (IF py_code = d THEN 1 ELSE 0)
      BY DEF RefsExact
    <2>3. CASE d = py_code
      <3>1. ~Cached(d) /\ Cached(d)'
        BY <1>1, <1>9, <2>3
      <3> QED
        BY <2>1, <2>2, <2>3, <3>1
    <2>4. CASE d # py_code
      BY <1>9, <2>1, <2>2, <2>4
    <2> QED
      BY <2>3, <2>4
  <1>11. BisectFinds' /\ LoopInv' /\ CallInv'
    <2>1. BisectFinds' /\ LoopInv'
      BY DEF BisectFinds, LoopInv, Searching
    <2>2. max_count' # 0 => count' >= 1
      BY <1>0, <1>c
    <2> QED
      BY <1>0, <1>u, <2>1, <2>2 DEF CallInv
  <1> QED
    BY <1>7, <1>8, <1>10, <1>11

LEMMA InsertInv == ASSUME CacheInv, Insert PROVE CacheInv'
  <1> USE DEF CacheInv, Insert, cache, bisection
  <1>u. UNCHANGED <<made, code_line, py_code>>
    OBVIOUS
  <1>c. code_line \in Lines /\ code_line \in Int
    BY CacheNumbers DEF CallInv
  <1>1. CASE step' = "finish" /\ UNCHANGED <<cache, refs, bisection>>
    <2>1. CacheTypeOK' /\ CacheSorted'
      BY <1>1, <1>u DEF CacheTypeOK, CacheSorted
    <2>2. BisectFinds' /\ LoopInv' /\ CallInv'
      BY <1>1, <1>u DEF BisectFinds, LoopInv, Searching, CallInv
    <2>3. RefsExact'
      BY <1>1, <1>u DEF RefsExact, Cached
    <2> QED
      BY <2>1, <2>2, <2>3
  <1>2. CASE /\ code_line # 0 /\ max_count = 0
             /\ entries' = [k \in 0 .. 0 |-> Entry(code_line, py_code)]
             /\ count' = 1 /\ max_count' = Growth
             /\ refs' = [refs EXCEPT ![py_code] = refs[py_code] + 1]
             /\ step' = "finish" /\ UNCHANGED bisection
    <2>1. count = 0
      BY <1>2 DEF CacheTypeOK
    <2>2. entries' = [k \in 0 .. count |-> IF k < 0 THEN entries[k]
                                           ELSE IF k = 0 THEN Entry(code_line, py_code)
                                           ELSE entries[k - 1]]
      BY <1>2, <2>1
    <2>3. Growth \in Nat /\ Growth >= 1
      OBVIOUS
    <2>4. 0 <= count /\ \A k \in 0 .. count - 1 : (entries[k].code_line < code_line) = (k < 0)
      BY <2>1
    <2>5. count' = count + 1 /\ max_count' \in Nat /\ count' <= max_count' /\ max_count' # 0
      BY <1>2, <2>1, <2>3
    <2>6. UNCHANGED <<made, code_line, start, mid, end, pos, py_code>>
      BY <1>2, <1>u
    <2>7. Placed(0)
      BY <1>2, <2>2, <2>4, <2>5, <2>6 DEF Placed
    <2> QED
      BY <1>2, <2>7, NewEntryInv
  <1>3. CASE /\ code_line # 0 /\ max_count # 0
             /\ Bisect("insert", code_line) /\ UNCHANGED <<cache, refs>>
    <2>0. start' = 0 /\ mid' = 0 /\ end' = count - 1 /\ count >= 1
      BY <1>3 DEF Bisect, CallInv
    <2>1. CacheTypeOK'
      <3> HIDE DEF Insert
      <3>1. /\ start' \in Nat /\ mid' \in Nat /\ end' \in Int /\ pos' \in Nat
            /\ step' \in {"insert", "place"}
        BY <1>3, <2>0, CacheNumbers DEF Bisect
      <3>2. UNCHANGED <<entries, count, max_count, refs, made, code_line, py_code>>
        BY <1>3, <1>u
      <3> QED
        BY <3>1, <3>2, TypesKept DEF CacheTypeOK
    <2>2. CacheSorted' /\ RefsExact'
      BY <1>3, <1>u DEF CacheSorted, RefsExact, Cached
    <2>3. CallInv'
      BY <1>3, <1>u DEF CallInv, Bisect, Cached
    <2>u. UNCHANGED <<entries, count, code_line>>
      BY <1>3, <1>u
    <2>s. CacheSorted
      OBVIOUS
    <2> HIDE DEF Insert
    <2>4. CASE code_line > entries[count - 1].code_line
      <3>1. pos' = count /\ step' = "place"
        BY <1>3, <2>0, <2>4, CacheNumbers DEF Bisect
      <3>2. ASSUME NEW k \in 0 .. count - 1 PROVE entries[k].code_line < code_line
        <4>1. k = count - 1 \/ entries[k].code_line < entries[count - 1].code_line
          BY <2>s, CacheNumbers DEF CacheSorted
        <4> QED
          BY <2>0, <2>4, <4>1, CacheNumbers
      <3>3. BisectFinds'
        BY <2>u, <3>1, <3>2, CacheNumbers DEF BisectFinds
      <3>4. LoopInv'
        BY <3>1 DEF LoopInv, Searching
      <3> QED
        BY <2>1, <2>2, <2>3, <3>3, <3>4
    <2>5. CASE ~(code_line > entries[count - 1].code_line)
      <3>1. step' = "insert" /\ code_line <= entries[count - 1].code_line
        BY <1>3, <2>0, <2>5, CacheNumbers DEF Bisect
      <3>2. BisectFinds'
        BY <3>1 DEF BisectFinds
      <3>3. LoopInv'
        BY <2>0, <2>u, <3>1, CacheNumbers DEF LoopInv, Searching
      <3> QED
        BY <2>1, <2>2, <2>3, <3>2, <3>3
    <2> QED
      BY <2>4, <2>5
  <1> QED
    BY <1>1, <1>2, <1>3

\* The line is not cached, so no code object is ever replaced.
LEMMA PlaceInv == ASSUME CacheInv, Place PROVE CacheInv'
  <1> USE DEF CacheInv, Place, cache, bisection
  <1>u. UNCHANGED <<made, code_line, start, mid, end, pos, py_code>> /\ step' = "finish"
    OBVIOUS
  <1>0. ~(pos < count /\ entries[pos].code_line = code_line) /\ code_line # 0 /\ max_count # 0
    BY CacheNumbers DEF CallInv
  <1>1. CASE count = max_count /\ UNCHANGED <<cache, refs>>
    <2>1. CacheTypeOK' /\ CacheSorted'
      BY <1>1, <1>u DEF CacheTypeOK, CacheSorted
    <2>2. BisectFinds' /\ LoopInv'
      BY <1>1, <1>u DEF BisectFinds, LoopInv, Searching
    <2>3. RefsExact'
      BY <1>1, <1>u DEF RefsExact, Cached
    <2>4. CallInv'
      BY <1>1, <1>u DEF CallInv
    <2> QED
      BY <2>1, <2>2, <2>3, <2>4
  <1>2. CASE PlaceBelow
    <2>1. /\ pos \in Nat /\ pos <= count
          /\ \A k \in 0 .. count - 1 : (entries[k].code_line < code_line) = (k < pos)
      BY CacheNumbers DEF BisectFinds
    <2>2. count' = count + 1 /\ max_count' \in Nat /\ count' <= max_count' /\ max_count' # 0
      <3>1. count \in Nat /\ max_count \in Nat /\ count <= max_count /\ Growth \in Nat \ {0}
        BY DEF CacheTypeOK
      <3> QED
        BY <1>0, <1>2, <3>1 DEF PlaceBelow
    <2>3. /\ refs' = [refs EXCEPT ![py_code] = refs[py_code] + 1]
          /\ entries' = [k \in 0 .. count |-> IF k < pos THEN entries[k]
                                              ELSE IF k = pos THEN Entry(code_line, py_code)
                                              ELSE entries[k - 1]]
      BY <1>2 DEF PlaceBelow
    <2> QED
      <3>1. Placed(pos)
        BY <1>u, <2>1, <2>2, <2>3 DEF Placed
      <3> QED
        BY <1>0, <1>u, <2>1, <3>1, NewEntryInv
  <1> QED
    BY <1>0, <1>1, <1>2

LEMMA CacheNextInv == CacheInv /\ [CacheNext]_cacheVars => CacheInv'
  <1> SUFFICES ASSUME CacheInv, [CacheNext]_cacheVars PROVE CacheInv'
    OBVIOUS
  <1>1. CASE UNCHANGED cacheVars
    <2> USE <1>1 DEF cacheVars, cache, objects, bisection, CacheInv
    <2>1. CacheTypeOK' /\ CacheSorted'
      BY DEF CacheTypeOK, CacheSorted
    <2>2. BisectFinds' /\ LoopInv'
      BY DEF BisectFinds, LoopInv, Searching
    <2>3. RefsExact'
      BY DEF RefsExact, Cached
    <2>4. CallInv'
      BY DEF CallInv, Cached, Searching
    <2> QED
      BY <2>1, <2>2, <2>3, <2>4
  <1>2. CASE \E l \in Lines : AddTraceback(l)
    BY <1>2, AddTracebackInv
  <1>3. CASE Halve \/ Meet \/ Found \/ Make \/ Insert \/ Place \/ Finish
    BY <1>3, HalveInv, MeetInv, FoundInv, MakeInv, InsertInv, PlaceInv, FinishInv
  <1> QED
    BY <1>1, <1>2, <1>3 DEF CacheNext

\* Whatever lines are traced and whichever allocations fail, the code cache stays
\* sorted and holds each line once, with a code object made for it.
THEOREM CacheStaysSorted == CacheSpec => []CacheSorted
  <1>1. CacheInv => CacheSorted
    BY DEF CacheInv
  <1> QED
    BY <1>1, CacheInitInv, CacheNextInv, PTL DEF CacheSpec

\* Every search of the code cache ends at the place of its line.
THEOREM BisectionIsRight == CacheSpec => []BisectFinds
  <1>1. CacheInv => BisectFinds
    BY DEF CacheInv
  <1> QED
    BY <1>1, CacheInitInv, CacheNextInv, PTL DEF CacheSpec

\* The cache and the call own exactly the references that each code object has.
THEOREM ReferencesAreExact == CacheSpec => []RefsExact
  <1>1. CacheInv => RefsExact
    BY DEF CacheInv
  <1> QED
    BY <1>1, CacheInitInv, CacheNextInv, PTL DEF CacheSpec

-----------------------------------------------------------------------------
(* The lookup of a global.  The strengthening: a version names one state   *)
(* of one dictionary, and the cached value is that of the cached version   *)
(* unless the lookup at that version failed, when it is none.              *)
VersionsInv ==
  /\ issued \in Nat /\ version \in [Dicts -> 1 .. issued]
  /\ value \in [Dicts -> Nat] /\ pyx_d \in Dicts
  /\ dict_version \in 0 .. issued /\ dict_cached_value \in Nat /\ failed \in 0 .. issued
  /\ \A d, e \in Dicts : d # e => version[d] # version[e]

DictInv ==
  /\ VersionsInv
  /\ \A d \in Dicts : version[d] = dict_version =>
       \/ dict_cached_value = value[d]
       \/ dict_cached_value = 0 /\ failed = dict_version
  /\ GlobalIsCurrent

LEMMA DictInitInv == DictInit => DictInv
  BY DEF DictInit, DictInv, VersionsInv, GlobalIsCurrent

LEMMA ChangeInv == ASSUME DictInv, NEW d \in Dicts, Change(d) PROVE DictInv'
  <1> USE DEF DictInv, Change
  <1>1. issued' = issued + 1 /\ issued' \in Nat
    BY DEF VersionsInv
  <1>2. \A e \in Dicts : version'[e] = IF e = d THEN issued + 1 ELSE version[e]
    BY DEF VersionsInv
  <1>3. value' \in [Dicts -> Nat] /\ \A e \in Dicts : e # d => value'[e] = value[e]
    BY <1>1 DEF VersionsInv
  <1>4. VersionsInv'
    <2>1. version' \in [Dicts -> 1 .. issued']
      BY <1>1, <1>2 DEF VersionsInv
    <2>2. \A e \in Dicts : version[e] # issued + 1
      BY DEF VersionsInv
    <2> QED
      BY <1>1, <1>2, <1>3, <2>1, <2>2 DEF VersionsInv
  <1>5. dict_version # issued + 1
    BY DEF VersionsInv
  <1>6. GlobalIsCurrent'
    BY DEF GlobalIsCurrent
  <1> QED
    BY <1>2, <1>3, <1>4, <1>5, <1>6

LEMMA LookupInv == ASSUME DictInv, GetModuleGlobalName PROVE DictInv'
  <1>1. UNCHANGED <<value, version, issued, built_in, pyx_d>>
    BY DEF GetModuleGlobalName
  <1>2. GetBuiltinName' = GetBuiltinName /\ Result(value[pyx_d])' = Result(value[pyx_d])
    BY <1>1 DEF Result, GetBuiltinName
  <1>3. Result(0) = GetBuiltinName
    BY DEF Result
  <1>4. CASE /\ dict_version = version[pyx_d] /\ got' = Result(dict_cached_value)
             /\ UNCHANGED <<dict_version, dict_cached_value, failed>>
    <2>1. VersionsInv'
      BY <1>1, <1>4 DEF DictInv, VersionsInv
    <2>2. got' = Result(value[pyx_d]) \/ (failed = version[pyx_d] /\ got' = GetBuiltinName)
      BY <1>3, <1>4 DEF DictInv, VersionsInv
    <2> QED
      BY <1>1, <1>2, <1>4, <2>1, <2>2 DEF DictInv, GlobalIsCurrent
  <1>5. CASE UPDATE_DICT_CACHE(value[pyx_d]) /\ got' = Result(value[pyx_d]) /\ UNCHANGED failed
    <2>1. VersionsInv'
      BY <1>1, <1>5 DEF DictInv, VersionsInv, UPDATE_DICT_CACHE
    <2>2. \A d \in Dicts : version[d] = version[pyx_d] => d = pyx_d
      BY DEF DictInv, VersionsInv
    <2> QED
      BY <1>1, <1>2, <1>5, <2>1, <2>2 DEF DictInv, GlobalIsCurrent, UPDATE_DICT_CACHE
  <1>6. CASE UPDATE_DICT_CACHE(0) /\ got' = Raised /\ failed' = version[pyx_d]
    <2>1. VersionsInv'
      BY <1>1, <1>6 DEF DictInv, VersionsInv, UPDATE_DICT_CACHE
    <2> QED
      BY <1>1, <1>6, <2>1 DEF DictInv, GlobalIsCurrent, UPDATE_DICT_CACHE, Raised
  <1> QED
    BY <1>4, <1>5, <1>6 DEF GetModuleGlobalName, LookUp

\* However the module's dictionary is changed or replaced and whichever lookups in
\* it fail, a lookup returns what it holds at that time, or what the builtins hold
\* if one failed since the dictionary was last changed.
THEOREM LookupsAreCurrent == DictSpec => []GlobalIsCurrent
  <1>1. DictInv /\ [DictNext]_dictVars => DictInv'
    <2> SUFFICES ASSUME DictInv, [DictNext]_dictVars PROVE DictInv'
      OBVIOUS
    <2>1. CASE \E d \in Dicts : Change(d)
      BY <2>1, ChangeInv
    <2>2. CASE Reimport
      BY <2>2 DEF Reimport, DictInv, VersionsInv, GlobalIsCurrent, Nothing
    <2>3. CASE GetModuleGlobalName
      BY <2>3, LookupInv
    <2>4. CASE UNCHANGED dictVars
      BY <2>4 DEF dictVars, DictInv, VersionsInv, GlobalIsCurrent, Result, GetBuiltinName
    <2> QED
      BY <2>1, <2>2, <2>3, <2>4 DEF DictNext
  <1>2. DictInv => GlobalIsCurrent
    BY DEF DictInv
  <1> QED
    BY <1>1, <1>2, DictInitInv, PTL DEF DictSpec
==============================================================================
