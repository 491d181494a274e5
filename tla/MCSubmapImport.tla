----------------------------- MODULE MCSubmapImport -----------------------------
(* Instances of SubmapImport for TLC: a space of a cpu, which a board owns *)
(* together with a chip that has an inner chip; address maps of up to two  *)
(* entries out of a catalogue, and an internal map of up to one.           *)
EXTENDS SubmapImport

CONSTANTS board, cpu, chip, subchip

Tags    == {"", "chip", "inner", "nothing"}
Owners  == [d \in {board, cpu, chip, subchip} |-> IF d = board THEN None ELSE IF d = subchip THEN chip ELSE board]
Lookups ==
  [d \in {board, cpu, chip, subchip} |-> [t \in Tags |->
     CASE t = "" -> d
       [] t = "chip" /\ d = board -> chip
       [] t = "inner" /\ d = chip -> subchip
       [] OTHER -> None]]

ByteAt(start, end, name) == rw(NewEntry(start, end), 1, "", name)
Of(es) == [global |-> {}, entries |-> es]

InnerMap == Of(<<ByteAt(0, 1, "x"), r(NewEntry(1, 1), 1, "", "y")>>)

ChipMaps ==
  {Of(<<ByteAt(0, 0, "p"), w(NewEntry(1, 3), 1, "", "q"), ByteAt(5, 5, "o")>>),
   Of(<<ByteAt(0, 3, "p"), mirror(ByteAt(4, 4, "q"), {1}), select(ByteAt(8, 8, "s"), {1})>>),
   Of(<<umask(ByteAt(0, 3, "p"), 2, {0}), umask(rw(NewEntry(0, 3), 1, "", "q"), 2, {1})>>),
   Of(<<ByteAt(0, 15, "p"), m(NewEntry(2, 3), "inner", None, InnerMap)>>),
   Of(<<ByteAt(0, 7, "p"), umask(m(NewEntry(0, 7), "inner", None, InnerMap), 2, {1})>>),
   Of(<<umask(ByteAt(0, 7, "p"), 8, {0})>>),
   Of(<<mask(ByteAt(0, 7, "p"), {0, 2}), ByteAt(9, 9, "o")>>),
   Of(<<mirror(ByteAt(0, 0, "p"), {1}), ByteAt(1, 1, "q")>>),
   Of(<<ram(NewEntry(4, 11)), rw(NewEntry(0, 3), 2, "", "h")>>),
   Of(<<ByteAt(2, 2, "p"), m(NewEntry(0, 3), "nothing", None, InnerMap)>>)}

Places ==
  {NewEntry(0, 15), mirror(NewEntry(0, 7), {3}), NewEntry(4, 11),
   umask(NewEntry(0, 15), 2, {0}), umask(NewEntry(4, 11), 2, {1}),
   umask(NewEntry(0, 15), 4, {0, 1}), umask(NewEntry(0, 7), 4, {2, 3}),
   umask(NewEntry(8, 15), 4, {3}), umask(NewEntry(0, 7), 4, {0, 1, 2})}

Submaps == {m(p, "chip", None, c) : p \in Places, c \in ChipMaps}
Plain   == {ram(NewEntry(0, 15)), noprw(NewEntry(8, 11)), ByteAt(5, 6, "f"), ByteAt(5, 9, "f")}

AddressMaps ==
  {None} \cup {Of(<<s>>) : s \in Submaps} \cup {Of(<<p, s>>) : p \in Plain, s \in Submaps}
         \cup {Of(<<s, p>>) : p \in Plain, s \in Submaps}

(* Maps that are wrong, or that only the installation refuses.             *)
Odd ==
  {Of(<<ByteAt(5, 4, "f")>>), Of(<<ram(NewEntry(1, 2))>>), Of(<<mirror(ByteAt(4, 7, "f"), {2})>>),
   Of(<<mask(ByteAt(0, 3, "f"), {0, 2})>>), Of(<<r(NewEntry(0, 0), 1, "nothing", "f")>>), Of(<<cswidth(umask(ByteAt(0, 7, "f"), 4, {0, 2}), 2)>>),
   Of(<<cswidth(umask(ByteAt(0, 7, "f"), 4, {0, 1}), 2)>>), Of(<<rw(NewEntry(0, 7), 8, "", "f")>>),
   Of(<<nopr(m(NewEntry(0, 3), "chip", None, InnerMap))>>),
   [global |-> 0 .. 2, entries |-> <<ByteAt(0, 7, "f"), mirror(mask(ByteAt(0, 3, "g"), {0, 1}), {3})>>],
   [global |-> 0 .. 2, entries |-> <<mirror(ByteAt(4, 5, "f"), {2})>>],
   [global |-> 0 .. 2, entries |-> <<m(NewEntry(0, 7), "", chip, InnerMap)>>]}

Internals == {None, Of(<<ByteAt(4, 4, "i")>>), Of(<<m(NewEntry(8, 15), "", chip, InnerMap)>>),
              Of(<<m(NewEntry(8, 15), "chip", None, InnerMap)>>)}

SomeConfigs ==
  [addrmap : AddressMaps, default : {None}, internal : Internals]
    \cup [addrmap : {None}, default : Odd, internal : Internals]

Late ==
  {[entry |-> m(umask(NewEntry(4, 11), 2, {0}), "", None, InnerMap), device |-> chip],
   [entry |-> m(NewEntry(2, 5), "", None, InnerMap), device |-> chip]}
=================================================================================
