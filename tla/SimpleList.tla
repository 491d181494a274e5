------------------------------- MODULE SimpleList -------------------------------
(***************************************************************************)
(* The template simple_list of source/core/coretmpl.h, a list linked by a  *)
(* pointer m_next in the objects themselves, with fixed_allocator, which   *)
(* keeps its free objects in one.  The subdevices of a device and the      *)
(* entries of an address map are such lists.                               *)
(*                                                                         *)
(* An object leaves a list with its m_next as it was, and goes into        *)
(* another list or is freed; the m_next of freed objects is Null here.     *)
(***************************************************************************)
EXTENDS Integers, SequencesExt

CONSTANTS
  Objects, Lists,
  Pool,            \* of the lists, the m_freelist of the allocator
  Null

ASSUME SimpleListAssumption == Pool \in Lists /\ Null \notin Objects /\ IsFiniteSet(Objects)

VARIABLES
  m_next,          \* object -> object or Null
  m_head, m_tail,  \* list -> object or Null
  m_count,         \* list -> number of its objects
  alive,           \* the objects that are allocated
  order            \* history: list -> its objects, in the order asked for

listVars == <<m_next, m_head, m_tail, m_count, alive, order>>

Listed   == UNION {ToSet(order[l]) : l \in Lists}
Loose(o) == o \in alive \ Listed

ListInit ==
  /\ m_next = [o \in Objects |-> Null]
  /\ m_head = [l \in Lists |-> Null] /\ m_tail = [l \in Lists |-> Null]
  /\ m_count = [l \in Lists |-> 0]
  /\ alive = {} /\ order = [l \in Lists |-> <<>>]

(* The objects of the list as every loop over it meets them.               *)
Walk(l) ==
  LET w[i \in 1 .. Cardinality(Objects)] ==
        IF i = 1 THEN m_head[l] ELSE IF w[i - 1] = Null THEN Null ELSE m_next[w[i - 1]]
      met == {i \in DOMAIN w : w[i] # Null}
  IN  [i \in 1 .. Cardinality(met) |-> w[i]]

Has(l, o)    == o \in ToSet(Walk(l))
indexof(l, o) == IF Has(l, o) THEN (CHOOSE i \in DOMAIN Walk(l) : Walk(l)[i] = o) - 1 ELSE -1
find(l, n)   == IF n + 1 \in DOMAIN Walk(l) THEN Walk(l)[n + 1] ELSE Null
Prev(l, o)   == find(l, indexof(l, o) - 1)

---------------------------------------------------------------------------------
prepend(l, o) ==
  /\ Loose(o)
  /\ m_next' = [m_next EXCEPT ![o] = m_head[l]]
  /\ m_head' = [m_head EXCEPT ![l] = o]
  /\ m_tail' = IF m_tail[l] = Null THEN [m_tail EXCEPT ![l] = o] ELSE m_tail
  /\ m_count' = [m_count EXCEPT ![l] = @ + 1]
  /\ order' = [order EXCEPT ![l] = <<o>> \o @]
  /\ UNCHANGED alive

append(l, o) ==
  /\ Loose(o)
  /\ m_next' = IF m_tail[l] # Null THEN [m_next EXCEPT ![m_tail[l]] = o, ![o] = Null]
                                   ELSE [m_next EXCEPT ![o] = Null]
  /\ m_head' = IF m_tail[l] = Null THEN [m_head EXCEPT ![l] = o] ELSE m_head
  /\ m_tail' = [m_tail EXCEPT ![l] = o]
  /\ m_count' = [m_count EXCEPT ![l] = @ + 1]
  /\ order' = [order EXCEPT ![l] = Append(@, o)]
  /\ UNCHANGED alive

(* detach_all of k: its objects go to the head or to the tail of l.        *)
prepend_list(l, k) ==
  /\ l # k /\ m_count[k] # 0
  /\ m_next' = [m_next EXCEPT ![m_tail[k]] = m_head[l]]
  /\ m_head' = [m_head EXCEPT ![k] = Null, ![l] = m_head[k]]
  /\ m_tail' = [m_tail EXCEPT ![k] = Null, ![l] = IF @ = Null THEN m_tail[k] ELSE @]
  /\ m_count' = [m_count EXCEPT ![k] = 0, ![l] = @ + m_count[k]]
  /\ order' = [order EXCEPT ![k] = <<>>, ![l] = order[k] \o @]
  /\ UNCHANGED alive

append_list(l, k) ==
  /\ l # k /\ m_count[k] # 0
  /\ m_next' = IF m_tail[l] # Null THEN [m_next EXCEPT ![m_tail[l]] = m_head[k]] ELSE m_next
  /\ m_head' = [m_head EXCEPT ![k] = Null, ![l] = IF m_tail[l] # Null THEN @ ELSE m_head[k]]
  /\ m_tail' = [m_tail EXCEPT ![k] = Null, ![l] = m_tail[k]]
  /\ m_count' = [m_count EXCEPT ![k] = 0, ![l] = @ + m_count[k]]
  /\ order' = [order EXCEPT ![k] = <<>>, ![l] = @ \o order[k]]
  /\ UNCHANGED alive

(* After, or before, an object of the list.                                *)
insert_after(l, o, p) ==
  /\ Loose(o) /\ p \in ToSet(order[l])
  /\ m_next' = [m_next EXCEPT ![o] = m_next[p], ![p] = o]
  /\ m_tail' = IF m_tail[l] = p THEN [m_tail EXCEPT ![l] = o] ELSE m_tail
  /\ m_count' = [m_count EXCEPT ![l] = @ + 1]
  /\ order' = [order EXCEPT ![l] = InsertAt(@, indexof(l, p) + 2, o)]
  /\ UNCHANGED <<m_head, alive>>

insert_before(l, o, p) ==
  /\ Loose(o) /\ p \in ToSet(order[l])
  /\ m_next' = IF Prev(l, p) = Null THEN [m_next EXCEPT ![o] = p]
                                    ELSE [m_next EXCEPT ![o] = p, ![Prev(l, p)] = o]
  /\ m_head' = IF m_head[l] = p THEN [m_head EXCEPT ![l] = o] ELSE m_head
  /\ m_count' = [m_count EXCEPT ![l] = @ + 1]
  /\ order' = [order EXCEPT ![l] = InsertAt(@, indexof(l, p) + 1, o)]
  /\ UNCHANGED <<m_tail, alive>>

(* What is replaced is freed; if it is not there, nothing is replaced.     *)
replace_and_remove(l, o, p) ==
  \/ p # o /\ Loose(p) /\ append(l, o)
  \/ /\ Loose(o) /\ p \in ToSet(order[l])
     /\ m_next' = IF Prev(l, p) = Null
                  THEN [m_next EXCEPT ![o] = m_next[p], ![p] = Null]
                  ELSE [m_next EXCEPT ![o] = m_next[p], ![Prev(l, p)] = o, ![p] = Null]
     /\ m_head' = IF Prev(l, p) = Null THEN [m_head EXCEPT ![l] = o] ELSE m_head
     /\ m_tail' = IF m_tail[l] = p THEN [m_tail EXCEPT ![l] = o] ELSE m_tail
     /\ alive' = alive \ {p}
     /\ order' = [order EXCEPT ![l] = ReplaceAt(@, indexof(l, p) + 1, o)]
     /\ UNCHANGED m_count

(* Mutant: the tail stays at the object that leaves.                       *)
DetachKeepsTail(l, o, left) ==
  /\ m_next' = IF Prev(l, o) # Null
               THEN [m_next EXCEPT ![Prev(l, o)] = m_next[o], ![o] = left]
               ELSE [m_next EXCEPT ![o] = left]
  /\ m_head' = IF Prev(l, o) # Null THEN m_head ELSE [m_head EXCEPT ![l] = m_next[o]]
  /\ m_count' = [m_count EXCEPT ![l] = @ - 1]
  /\ order' = [order EXCEPT ![l] = RemoveAt(@, indexof(l, o) + 1)]
  /\ UNCHANGED m_tail

(* `left' is what its m_next is afterwards.                                *)
Detach(l, o, left) ==
  /\ m_next' = IF Prev(l, o) # Null
               THEN [m_next EXCEPT ![Prev(l, o)] = m_next[o], ![o] = left]
               ELSE [m_next EXCEPT ![o] = left]
  /\ m_head' = IF Prev(l, o) # Null THEN m_head ELSE [m_head EXCEPT ![l] = m_next[o]]
  /\ m_tail' = IF m_tail[l] = o THEN [m_tail EXCEPT ![l] = Prev(l, o)] ELSE m_tail
  /\ m_count' = [m_count EXCEPT ![l] = @ - 1]
  /\ order' = [order EXCEPT ![l] = RemoveAt(@, indexof(l, o) + 1)]

detach(l, o) == o \in ToSet(order[l]) /\ Detach(l, o, m_next[o]) /\ UNCHANGED alive

(* An object that is in no list is freed all the same.                     *)
remove(l, o) ==
  /\ alive' = alive \ {o}
  /\ \/ o \in ToSet(order[l]) /\ Detach(l, o, Null)
     \/ /\ Loose(o) /\ m_next' = [m_next EXCEPT ![o] = Null]
        /\ UNCHANGED <<m_head, m_tail, m_count, order>>

reset(l) ==
  /\ order[l] # <<>>
  /\ m_head' = [m_head EXCEPT ![l] = Null] /\ m_tail' = [m_tail EXCEPT ![l] = Null]
  /\ m_count' = [m_count EXCEPT ![l] = 0]
  /\ alive' = alive \ ToSet(order[l])
  /\ order' = [order EXCEPT ![l] = <<>>]
  /\ m_next' = [o \in Objects |-> IF o \in ToSet(order[l]) THEN Null ELSE m_next[o]]

(* detach_head of the free list, and a new object when it is empty.        *)
alloc ==
  LET o == m_head[Pool]
  IN  IF o # Null
      THEN /\ m_head' = [m_head EXCEPT ![Pool] = m_next[o]]
           /\ m_tail' = IF m_next[o] = Null THEN [m_tail EXCEPT ![Pool] = Null] ELSE m_tail
           /\ m_count' = [m_count EXCEPT ![Pool] = @ - 1]
           /\ order' = [order EXCEPT ![Pool] = Tail(@)]
           /\ UNCHANGED <<m_next, alive>>
      ELSE /\ \E n \in Objects \ alive : alive' = alive \cup {n}
           /\ UNCHANGED <<m_next, m_head, m_tail, m_count, order>>

reclaim(o)     == append(Pool, o)
reclaim_all(l) == append_list(Pool, l)

ListNext ==
  \/ alloc
  \/ \E o \in Objects : reclaim(o)
  \/ \E l \in Lists \ {Pool} :
       \/ reset(l) \/ reclaim_all(l)
       \/ \E k \in Lists \ {Pool} : prepend_list(l, k) \/ append_list(l, k)
       \/ \E o \in Objects : \/ prepend(l, o) \/ append(l, o) \/ detach(l, o) \/ remove(l, o)
                             \/ \E p \in Objects : \/ insert_after(l, o, p) \/ insert_before(l, o, p)
                                                   \/ replace_and_remove(l, o, p)

ListSpec == ListInit /\ [][ListNext]_listVars

---------------------------------------------------------------------------------
(* Whatever the operations and their order, each list holds the objects    *)
(* put into it in the order asked for: the pointers from its head meet     *)
(* exactly them and end at its tail, the count is theirs, no object is in  *)
(* two lists, and none that is linked was freed; a position found by       *)
(* indexof is that of find.                                                *)
ListsKeepOrder ==
  \A l \in Lists :
    /\ Walk(l) = order[l] /\ m_count[l] = Len(order[l])
    /\ m_tail[l] = IF order[l] = <<>> THEN Null ELSE Last(order[l])
    /\ order[l] # <<>> => m_next[m_tail[l]] = Null
    /\ ToSet(order[l]) \subseteq alive
    /\ \A k \in Lists \ {l} : ToSet(order[l]) \cap ToSet(order[k]) = {}
    /\ \A o \in ToSet(order[l]) : find(l, indexof(l, o)) = o
=================================================================================
