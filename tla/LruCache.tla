-------------------------------- MODULE LruCache --------------------------------
(***************************************************************************)
(* The template util::lru_cache_map of source/core/coretmpl.h: a map of    *)
(* bounded size that drops what was used longest ago.  Its elements are    *)
(* the nodes of a list, in the order of their use; m_mapping is a set of   *)
(* iterators into that list, sorted by key.  Values are left out.          *)
(***************************************************************************)
EXTENDS Integers, SequencesExt, Subsequences

CONSTANTS
  Keys,        \* numbers, as they compare
  m_max_size

ASSUME LruCacheAssumption == Keys \subseteq Nat /\ m_max_size \in Nat \ {0}

Nodes == 1 .. (m_max_size + 1)    \* of the list; freed ones are used again
End   == 0

VARIABLES
  m_elements,  \* the nodes, those used last at the end
  key,         \* node -> its key
  m_mapping,   \* the set of nodes
  m_size,
  hinted,      \* history: every position given to m_mapping.insert was valid
  recent       \* history: the keys in the order of their last use

cacheVars == <<m_elements, key, m_mapping, m_size, hinted, recent>>

CacheInit ==
  /\ m_elements = <<>> /\ m_mapping = {} /\ m_size = 0
  /\ key = [n \in Nodes |-> 0]
  /\ hinted = TRUE /\ recent = <<>>

Lowest(S) == CHOOSE n \in S : \A m \in S : key[n] <= key[m]

(* Where a key is, or would be, in the order of the mapping.               *)
lower_bound(k) ==
  LET at == {n \in m_mapping : key[n] >= k} IN IF at = {} THEN End ELSE Lowest(at)
NextOf(n)      ==
  LET at == {m \in m_mapping : key[m] > key[n]} IN IF at = {} THEN End ELSE Lowest(at)
Found(k)       == {n \in m_mapping : key[n] = k}

(* splice: the element becomes the last one.                               *)
Freshen(n) ==
  /\ m_elements' = Append(Without(m_elements, {n}), n)
  /\ UNCHANGED <<key, m_mapping, m_size, hinted>>

(* Mutant: the position in the mapping is not looked after.                *)
DropOldest(existing) ==
  LET oldest == Head(m_elements)
  IN  IF m_max_size <= m_size
      THEN [elements |-> Tail(m_elements), mapping |-> m_mapping \ {oldest},
            size |-> m_size - 1, existing |-> existing]
      ELSE [elements |-> m_elements, mapping |-> m_mapping, size |-> m_size,
            existing |-> existing]

(* The first elements are dropped; the position moves on if it is that of  *)
(* one of them.  One is enough: the size is never beyond the maximum.      *)
make_space(existing) ==
  LET oldest == Head(m_elements)
  IN  IF m_max_size <= m_size
      THEN [elements |-> Tail(m_elements), mapping |-> m_mapping \ {oldest},
            size |-> m_size - 1,
            existing |-> IF existing = oldest THEN NextOf(existing) ELSE existing]
      ELSE [elements |-> m_elements, mapping |-> m_mapping, size |-> m_size,
            existing |-> existing]

(* The new element goes to the end, and its iterator into the mapping at   *)
(* the position found before there was space.                              *)
InsertNew(k) ==
  LET room == make_space(lower_bound(k))
      n    == Min(Nodes \ ToSet(m_elements))
  IN  /\ m_elements' = Append(room.elements, n)
      /\ key' = [key EXCEPT ![n] = k]
      /\ m_mapping' = room.mapping \cup {n}
      /\ m_size' = room.size + 1
      /\ hinted' = (hinted /\ room.existing \in room.mapping \cup {End})

Use(k) ==
  LET others == Without(recent, {k})
  IN  recent' = Append(IF Len(others) = m_max_size THEN Tail(others) ELSE others, k)

(* operator[], insert and emplace: what is there is freshened.             *)
insert(k) ==
  /\ IF Found(k) # {} THEN Freshen(lower_bound(k)) ELSE InsertNew(k)
  /\ Use(k)

(* at, which throws if there is nothing, and find.                         *)
find_key(k) ==
  IF Found(k) # {} THEN Freshen(lower_bound(k)) /\ Use(k) ELSE UNCHANGED cacheVars

erase_key(k) ==
  /\ Found(k) # {}
  /\ m_elements' = Without(m_elements, Found(k))
  /\ m_mapping' = m_mapping \ Found(k)
  /\ m_size' = m_size - 1
  /\ recent' = Without(recent, {k})
  /\ UNCHANGED <<key, hinted>>

(* erase, of the elements from one iterator up to another.                 *)
erase_range(first, last) ==
  /\ 1 <= first /\ first < last /\ last <= Len(m_elements) + 1
  /\ LET gone == {m_elements[i] : i \in first .. (last - 1)}
     IN  /\ m_elements' = Without(m_elements, gone)
         /\ m_mapping' = m_mapping \ gone
         /\ m_size' = m_size - Cardinality(gone)
         /\ recent' = Without(recent, {key[n] : n \in gone})
  /\ UNCHANGED <<key, hinted>>

clear_cache ==
  /\ m_elements' = <<>> /\ m_mapping' = {} /\ m_size' = 0 /\ recent' = <<>>
  /\ UNCHANGED <<key, hinted>>

CacheNext ==
  \/ clear_cache
  \/ \E k \in Keys : insert(k) \/ find_key(k) \/ erase_key(k)
  \/ \E first, last \in 1 .. (m_max_size + 1) : erase_range(first, last)

CacheSpec == CacheInit /\ [][CacheNext]_cacheVars

---------------------------------------------------------------------------------
(* The two structures agree whatever is inserted, looked for, erased and   *)
(* dropped: the mapping has exactly the iterators of the elements, one for *)
(* a key, at most m_max_size of them, no position that is handed to it     *)
(* belongs to an element dropped meanwhile, and what is there is what was  *)
(* used last, by any operation that freshens, in that order: the cache     *)
(* "drops least-recently used items if necessary on insert".               *)
CacheCoherent ==
  /\ m_mapping = ToSet(m_elements)
  /\ m_size = Len(m_elements) /\ m_size = Cardinality(m_mapping) /\ m_size <= m_max_size
  /\ \A m, n \in m_mapping : key[m] = key[n] => m = n
  /\ hinted
  /\ [i \in DOMAIN m_elements |-> key[m_elements[i]]] = recent
=================================================================================
