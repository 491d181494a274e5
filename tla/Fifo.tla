---------------------------------- MODULE Fifo ----------------------------------
(***************************************************************************)
(* The template util::fifo of source/core/coretmpl.h: a ring of a fixed    *)
(* number of places between m_head and m_tail, with a flag that tells an   *)
(* empty one from a full one.  Its parameters say whether a write into a   *)
(* full one, and a read from an empty one, wrap around.                    *)
(***************************************************************************)
EXTENDS Integers, SequencesExt

CONSTANTS Size, Values

ASSUME FifoAssumption == Size \in Nat \ {0}

Slots == 0 .. (Size - 1)

VARIABLES
  wraps,           \* the parameters WriteWrap and ReadWrap
  slots,           \* the array
  f_head, f_tail,  \* m_head, m_tail
  m_empty,
  queue            \* history: what was put in and not taken out

fifoVars == <<wraps, slots, f_head, f_tail, m_empty, queue>>

FifoInit ==
  /\ wraps \in [write : BOOLEAN, read : BOOLEAN]
  /\ slots \in {[k \in Slots |-> v] : v \in Values}
  /\ f_head = 0 /\ f_tail = 0 /\ m_empty = TRUE /\ queue = <<>>

full      == ~m_empty /\ f_head = f_tail
Wrapped(k) == (k + 1) % Size

(* Mutant: a write to a full one is dropped only if the head is at the     *)
(* start of the array.                                                     *)
EnqueueAtEnd(v) ==
  /\ IF wraps.write \/ m_empty \/ f_tail # 0
     THEN /\ slots' = [slots EXCEPT ![f_tail] = v]
          /\ f_tail' = Wrapped(f_tail) /\ m_empty' = FALSE
     ELSE UNCHANGED <<slots, f_tail, m_empty>>
  /\ queue' = IF Len(queue) < Size THEN Append(queue, v)
              ELSE IF wraps.write THEN <<v>> ELSE queue
  /\ UNCHANGED <<wraps, f_head>>

(* A write that wraps leaves what was written last, and nothing else.      *)
enqueue(v) ==
  /\ IF wraps.write \/ m_empty \/ f_head # f_tail
     THEN /\ slots' = [slots EXCEPT ![f_tail] = v]
          /\ f_tail' = Wrapped(f_tail) /\ m_empty' = FALSE
     ELSE UNCHANGED <<slots, f_tail, m_empty>>
  /\ queue' = IF Len(queue) < Size THEN Append(queue, v)
              ELSE IF wraps.write THEN <<v>> ELSE queue
  /\ UNCHANGED <<wraps, f_head>>

(* A read that wraps brings back all that the other places hold.           *)
dequeue ==
  /\ IF wraps.read \/ ~m_empty
     THEN f_head' = Wrapped(f_head) /\ m_empty' = (f_head' = f_tail)
     ELSE UNCHANGED <<f_head, m_empty>>
  /\ queue' = IF queue # <<>> THEN Tail(queue)
              ELSE IF wraps.read THEN [k \in 1 .. (Size - 1) |-> slots[(f_head + k) % Size]]
              ELSE queue
  /\ UNCHANGED <<wraps, slots, f_tail>>

(* What the next write will overwrite; of a full one it is the oldest.     *)
poke(v) ==
  /\ slots' = [slots EXCEPT ![f_tail] = v]
  /\ queue' = IF Len(queue) = Size THEN [queue EXCEPT ![1] = v] ELSE queue
  /\ UNCHANGED <<wraps, f_head, f_tail, m_empty>>

clear ==
  /\ f_head' = 0 /\ f_tail' = 0 /\ m_empty' = TRUE /\ queue' = <<>>
  /\ UNCHANGED <<wraps, slots>>

FifoNext == dequeue \/ clear \/ \E v \in Values : enqueue(v) \/ poke(v)

FifoSpec == FifoInit /\ [][FifoNext]_fifoVars

---------------------------------------------------------------------------------
(* The ring is a bounded queue: between the head and the tail is what was  *)
(* enqueued and not dequeued, the oldest first, an enqueue into a full one *)
(* and a dequeue from an empty one change nothing unless they wrap, and    *)
(* full and empty are never taken for one another.                         *)
FifoIsQueue ==
  LET n == IF m_empty THEN 0 ELSE IF f_tail > f_head THEN f_tail - f_head
                             ELSE f_tail + Size - f_head
  IN  /\ queue = [k \in 1 .. n |-> slots[(f_head + k - 1) % Size]]
      /\ full <=> Len(queue) = Size
      /\ m_empty => f_head = f_tail
=================================================================================
