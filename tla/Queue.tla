------------------------------- MODULE Queue -------------------------------
(***************************************************************************)
(* cjunk/practice/queue.h: a ring of elementCapacity elements.  begin =    *)
(* end means empty and nothing ever sets isFull, because the space that    *)
(* enqueue computes is at least 1.                                         *)
(*                                                                         *)
(* The uint16_t arithmetic is modulo Width, that of what malloc is asked   *)
(* for included.  A copy to or from places that were not allocated is      *)
(* undefined in C; the model stops there.  The offset of an element is an  *)
(* int, so that a queue of 2^31 bytes or more is left out, and so is one   *)
(* of capacity 0, which every operation would divide by.                   *)
(***************************************************************************)
EXTENDS Integers, Sequences

CONSTANTS
  Width,          \* 2^16
  Capacities,     \* the capacities callers ask for
  ElementSizes,
  Elements,       \* what callers enqueue
  Garbage         \* what nobody stored

ASSUME QueueAssumption ==
  /\ Width \in Nat
  /\ Capacities \subseteq Nat \ {0} /\ \A c \in Capacities : c < Width
  /\ ElementSizes \subseteq Nat \ {0}
  /\ \A c \in Capacities, s \in ElementSizes : 2 * c * s < Width * Width

VARIABLES
  begin, end, isFull, elementSize, elementCapacity,
  pDataArray,     \* its elements
  allocated,      \* the bytes behind it
  pData,          \* where the last caller of dequeue found its element
  undefined       \* whether C stopped defining what happens

queueVars ==
  <<begin, end, isFull, elementSize, elementCapacity, pDataArray, allocated, pData,
    undefined>>

QueueInit ==
  /\ begin = 0 /\ end = 0 /\ isFull = FALSE
  /\ elementSize \in ElementSizes /\ elementCapacity \in Capacities
  /\ pDataArray = [k \in 0 .. elementCapacity - 1 |-> Garbage]
  /\ allocated = elementSize * elementCapacity
  /\ pData = Garbage /\ undefined = FALSE

uint16(x) == x % Width

IsEmpty == begin = end
IsFull == isFull
GetSize == uint16(end - begin)

\* Slip: one index too many.
GetDataOneMore(index) ==
  IF index > end - begin THEN <<>> ELSE <<pDataArray[begin + index]>>

\* The element behind the pointer returned; none for NULL.  end - begin is an
\* int, negative when the elements wrap around.
GetData(index) ==
  IF index >= end - begin THEN <<>> ELSE <<pDataArray[begin + index]>>

\* A copy to or from this place leaves what was allocated.
Beyond(place) == (place + 1) * elementSize > allocated

Enqueue(v) ==
  LET availableSpace == uint16(elementCapacity - ((begin + end) % elementCapacity))
      stores == ~isFull /\ availableSpace # 0
  IN  /\ isFull' = (isFull \/ availableSpace = 0)
      /\ end' = IF stores THEN (end + 1) % elementCapacity ELSE end
      /\ pDataArray' = IF stores THEN [pDataArray EXCEPT ![end] = v] ELSE pDataArray
      /\ undefined' = (stores /\ Beyond(end))
      /\ UNCHANGED <<begin, elementSize, elementCapacity, allocated, pData>>

\* The test of the space comes after that of begin = end and never succeeds.
Dequeue ==
  /\ begin # end
  /\ begin' = (begin + 1) % elementCapacity
  /\ pData' = pDataArray[begin]
  /\ undefined' = Beyond(begin)
  /\ UNCHANGED <<end, isFull, elementSize, elementCapacity, pDataArray, allocated>>

Clear ==
  /\ begin' = 0 /\ end' = 0 /\ isFull' = FALSE
  /\ UNCHANGED <<elementSize, elementCapacity, pDataArray, allocated, pData, undefined>>

SetData(index, v) ==
  /\ index < end - begin
  /\ pDataArray' = [pDataArray EXCEPT ![begin + index] = v]
  /\ undefined' = Beyond(begin + index)
  /\ UNCHANGED <<begin, end, isFull, elementSize, elementCapacity, allocated, pData>>

\* malloc, whose argument is a uint16_t, and the copy of the whole old array.
Reallocate(newCapacity, newSize) ==
  /\ allocated' = uint16(newCapacity * newSize)
  /\ undefined' = \/ elementSize * elementCapacity > allocated
                  \/ elementSize * elementCapacity > uint16(newCapacity * newSize)

\* Slip: the size is not compared with the new capacity.
SetCapacityUnchecked(newCapacity) ==
  /\ Reallocate(newCapacity, elementSize)
  /\ elementCapacity' = newCapacity
  /\ pDataArray' = [k \in 0 .. newCapacity - 1 |->
                      IF k < elementCapacity THEN pDataArray[k] ELSE Garbage]
  /\ UNCHANGED <<begin, end, isFull, elementSize, pData>>

\* Returns early, also if malloc fails: no step.
SetCapacity(newCapacity) ==
  /\ GetSize <= newCapacity
  /\ Reallocate(newCapacity, elementSize)
  /\ elementCapacity' = newCapacity
  /\ pDataArray' = [k \in 0 .. newCapacity - 1 |->
                      IF k < elementCapacity THEN pDataArray[k] ELSE Garbage]
  /\ UNCHANGED <<begin, end, isFull, elementSize, pData>>

\* The bytes stay where they were, so the elements of the new size are others.
SetElementSize(newSize) ==
  /\ GetSize <= elementCapacity
  /\ Reallocate(elementCapacity, newSize)
  /\ elementSize' = newSize
  /\ pDataArray' = [k \in DOMAIN pDataArray |->
                      IF newSize = elementSize THEN pDataArray[k] ELSE Garbage]
  /\ UNCHANGED <<begin, end, isFull, elementCapacity, pData>>

QueueNext ==
  \/ /\ ~undefined
     /\ \/ Dequeue \/ Clear
        \/ \E v \in Elements :
             Enqueue(v) \/ \E k \in 0 .. elementCapacity - 1 : SetData(k, v)
        \/ \E c \in Capacities : SetCapacity(c)
        \/ \E s \in ElementSizes : SetElementSize(s)
  \/ undefined /\ UNCHANGED queueVars

QueueSpec == QueueInit /\ [][QueueNext]_queueVars

-----------------------------------------------------------------------------
\* The elements between begin and end, around the end of the array.
Held ==
  [k \in 1 .. (end - begin) % elementCapacity |->
     pDataArray[(begin + k - 1) % elementCapacity]]

Promise == INSTANCE ClearingFifo WITH
  Item <- Elements \cup {Garbage}, Junk <- Garbage, Limit <- Width,
  room <- elementCapacity, size <- elementSize, got <- pData,
  q <- IF undefined THEN <<>> ELSE Held, broken <- undefined

\* The queue is first-in first-out through every wrap-around and change of
\* capacity, and the element that would fill it empties it instead: with begin
\* = end it counts as empty again, and all the others are lost.  Only when the
\* old capacity and the new add up to more than 2^16 may setCapacity take a
\* queue that wraps around for one that fits; what nobody stored then stands
\* between its elements, whose order is kept.
ImplementsClearingFifo == Promise!Spec

\* What can be asked of the queue agrees with what it holds: it is empty when
\* begin = end, never full, getData finds the element of that index or nothing,
\* and getSize is right until the elements wrap around, when getData finds none.
AnswersAgree ==
  ~undefined =>
    /\ IsEmpty <=> Held = <<>>
    /\ ~IsFull
    /\ GetSize = Len(Held) <=> begin <= end
    /\ \A k \in 0 .. elementCapacity :
         GetData(k) = IF begin <= end /\ k < Len(Held) THEN <<Held[k + 1]>> ELSE <<>>
=============================================================================
