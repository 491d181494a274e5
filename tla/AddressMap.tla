------------------------------- MODULE AddressMap -------------------------------
(***************************************************************************)
(* What one address_table promises to the address_space that owns it: a    *)
(* function from addresses to entries.  Mapping a static entry (unmapped,  *)
(* nop, a bank) changes the mapped addresses and no other; installing a    *)
(* handler gives all the mapped addresses one handler entry that no        *)
(* address used before.  The two-level table, the reference counts, the    *)
(* shared subtables and their merging are absent: AddressTable implements  *)
(* this module.                                                            *)
(***************************************************************************)
CONSTANTS
  Addresses,       \* the addresses of the space
  Regions,         \* the sets of addresses one call can map
  StaticEntries,   \* entries below STATIC_COUNT that can be mapped
  DynamicEntries,  \* entries STATIC_COUNT .. SUBTABLE_BASE - 1
  UnmappedEntry    \* STATIC_UNMAP

VARIABLES
  mapping,         \* address -> entry
  failed           \* "no", or why an exception left the table

mapVars == <<mapping, failed>>

Mapped(map) == {map[x] : x \in Addresses}

(* The map after the addresses of a set got entry e.                       *)
After(map, set, e) == [x \in Addresses |-> IF x \in set THEN e ELSE map[x]]

MapInit ==
  /\ mapping = [x \in Addresses |-> UnmappedEntry]
  /\ failed = "no"

MapStatic(R, e) ==
  /\ failed = "no"
  /\ e \in StaticEntries
  /\ mapping' = After(mapping, R, e)
  /\ UNCHANGED failed

Install(R, h) ==
  /\ failed = "no"
  /\ h \in DynamicEntries \ Mapped(mapping)
  /\ mapping' = After(mapping, R, h)
  /\ UNCHANGED failed

(* No handler is left: refused, and only when each one is in use.          *)
OutOfHandlers ==
  /\ failed = "no"
  /\ DynamicEntries \subseteq Mapped(mapping)
  /\ failed' = "out of handlers"
  /\ UNCHANGED mapping

(* A table that runs out of subtables on the way leaves a part of the      *)
(* request done, never anything else.                                      *)
Interrupted(R, e) ==
  /\ failed = "no"
  /\ failed' = "interrupted"
  /\ e \in StaticEntries \cup (DynamicEntries \ Mapped(mapping))
  /\ LET changed(new, old) == {x \in Addresses : new[x] # old[x]}
         done == changed(mapping', mapping)
     IN  done \subseteq R /\ mapping' = After(mapping, done, e)

MapNext ==
  \/ OutOfHandlers
  \/ \E R \in Regions :
       \/ \E e \in StaticEntries : MapStatic(R, e) \/ Interrupted(R, e)
       \/ \E h \in DynamicEntries : Install(R, h) \/ Interrupted(R, h)

MapSpec == MapInit /\ [][MapNext]_mapVars

=================================================================================
