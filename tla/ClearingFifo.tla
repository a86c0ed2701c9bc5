---------------------------- MODULE ClearingFifo ----------------------------
(***************************************************************************)
(* What the queue of queue.h promises: a first-in first-out queue that     *)
(* starts again empty when the item that would fill it arrives.  Its items *)
(* can be replaced in place and can be given another size, and it can be   *)
(* given room.  If the old room and the new are too much for its indices,  *)
(* junk may get between the items.  Once it is broken (a caller left what  *)
(* C defines) nothing is promised.                                         *)
(***************************************************************************)
EXTENDS Naturals, Sequences

CONSTANTS Item, Junk, Limit

VARIABLES q, room, size, got, broken

cfVars == <<q, room, size, got, broken>>

Init == q = <<>> /\ room \in Nat \ {0} /\ ~broken

Put(v) ==
  /\ q' = IF Len(q) + 1 = room THEN <<>> ELSE Append(q, v)
  /\ UNCHANGED <<room, size, got, broken>>

Take ==
  /\ q # <<>> /\ q' = Tail(q) /\ got' = Head(q)
  /\ UNCHANGED <<room, size, broken>>

Clear == q' = <<>> /\ UNCHANGED <<room, size, got, broken>>

Replace ==
  /\ \E k \in DOMAIN q, v \in Item : q' = [q EXCEPT ![k] = v]
  /\ UNCHANGED <<room, size, got, broken>>

Grow == room' > room /\ UNCHANGED <<q, size, got, broken>>

\* n items of junk after the first k items of q.
Inserted(k, n) ==
  [i \in 1 .. Len(q) + n |->
     IF i <= k THEN q[i] ELSE IF i <= k + n THEN Junk ELSE q[i - n]]

\* The room that is added ends up among the items.
Stretch ==
  /\ room' > room /\ room + room' > Limit
  /\ \E k \in DOMAIN q : q' = Inserted(k, room' - room)
  /\ UNCHANGED <<size, got, broken>>

\* The items are of another size from now on, so none is what was put.
Reshape ==
  /\ size' # size /\ q' = [k \in DOMAIN q |-> Junk]
  /\ UNCHANGED <<room, got, broken>>

Break == ~broken /\ broken'

Next ==
  /\ ~broken
  /\ \/ Take \/ Clear \/ Replace \/ Grow \/ Stretch \/ Reshape \/ Break
     \/ \E v \in Item : Put(v)

Spec == Init /\ [][Next]_cfVars
=============================================================================
