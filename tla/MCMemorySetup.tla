------------------------------ MODULE MCMemorySetup ------------------------------
(* Instances of MemorySetup for TLC: two spaces, of which the first has    *)
(* the ROM region of its device; every map of up to two entries out of a   *)
(* catalogue in the first one, or of three of the more common ones, and of *)
(* one entry in the other.                                                 *)
EXTENDS MemorySetup

CONSTANTS rom, s, b

TwoSpaces == 1 .. 2
OneRegion == [r \in {rom} |-> 2]
RomOfOne  == [z \in TwoSpaces |-> IF z = 1 THEN rom ELSE None]

Entry(start, end, read, write) ==
  [start |-> start, end |-> end, mirror |-> {}, read |-> read, write |-> write,
   share |-> None, region |-> None, offset |-> 0, tag |-> None, memory |-> None]

Common ==
  {Entry(2, 3, "RAM", "RAM"), Entry(2, 5, "NONE", "RAM"), Entry(4, 4, "RAM", "HANDLER"),
   Entry(5, 7, "RAM", "RAM"), Entry(1, 3, "ROM", "NONE"),
   [Entry(2, 3, "RAM", "RAM") EXCEPT !.mirror = {2}],
   [Entry(4, 5, "RAM", "RAM") EXCEPT !.share = s],
   [Entry(2, 3, "RAM", "NONE") EXCEPT !.share = s],
   [Entry(5, 6, "ROM", "NONE") EXCEPT !.region = rom],
   [Entry(2, 3, "BANK", "BANK") EXCEPT !.tag = b],
   [Entry(6, 7, "BANK", "RAM") EXCEPT !.tag = b]}

(* At the region and in the first chunk, with mirrors on two bits, at      *)
(* mirrors of other entries, of other lengths, and beyond the region.      *)
Catalogue == Common \cup
  {Entry(0, 1, "ROM", "RAM"), Entry(1, 1, "RAM", "NONE"), Entry(0, 3, "NONE", "RAM"),
   [Entry(6, 7, "ROM", "NONE") EXCEPT !.region = rom, !.offset = 1],
   [Entry(2, 2, "RAM", "NONE") EXCEPT !.mirror = {0, 2}],
   [Entry(0, 1, "BANK", "RAM") EXCEPT !.tag = b, !.mirror = {1}],
   [Entry(5, 6, "BANK", "NONE") EXCEPT !.tag = b],
   [Entry(4, 7, "RAM", "NONE") EXCEPT !.share = s],
   [Entry(4, 7, "ROM", "NONE") EXCEPT !.share = s, !.region = rom]}

Others ==
  {Entry(2, 3, "ROM", "NONE"),
   [Entry(0, 2, "RAM", "NONE") EXCEPT !.share = s],
   [Entry(4, 7, "BANK", "NONE") EXCEPT !.tag = b]}

SmallMaps ==
  {<<m, <<e>>>> : m \in (UNION {[1 .. n -> Catalogue] : n \in 1 .. 2}) \cup [1 .. 3 -> Common],
                  e \in Others}

SomeRanges == {[start |-> 2, end |-> 3, mirror |-> {}], [start |-> 2, end |-> 2, mirror |-> {2}]}
==================================================================================
