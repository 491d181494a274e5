------------------------------ MODULE SpaceAccess ------------------------------
(***************************************************************************)
(* Accesses to an address space, from the call of a CPU core down to the   *)
(* delegates of the devices: the accessors of address_space_specific.h,    *)
(* the handlers and the watchpoints of source/emucore/memory/emumem.cpp.   *)
(* A delegate is called in the middle of an access and may install         *)
(* handlers or set watchpoints there; so may the debugger's hook.          *)
(***************************************************************************)
EXTENDS Accessors

CONSTANTS
  Installs,        \* requests for handlers: [dir, bytes, dev] and the range
  BankRange,       \* where RAM is installed, for both directions
  Unmapped,        \* a range that is unmapped
  Inputs,          \* the accesses that are followed step by step
  AllInputs,       \* every access, for the accessors alone
  MaxChanges,      \* bound: changes of handlers or watchpoints
  MaxAccesses      \* bound: accesses made

Tables     == {"read", "write", "setoffset"}
Directions == {"read", "write"}

ASSUME SpaceAccessAssumption ==
  /\ \A i \in Installs :
       i.dir \in Tables /\ i.bytes \in {1, 2, 4, 8} /\ AcceptsHandler(i.bytes, i, Bits)
  /\ AcceptsRange(BankRange, Bits) /\ AcceptsRange(Unmapped, Bits)
  /\ \A a \in Inputs \cup AllInputs :
       IsAccess(a) /\ a.dir \in Directions /\ a.address \in Addresses
  /\ MaxChanges \in Nat /\ MaxAccesses \in Nat

VARIABLES
  tables,          \* m_read, m_write, m_setoffset
  m_live_lookup,   \* for each direction: its table, or the watchpoint table
  access,          \* the access in progress
  native,          \* the native access in progress, inside it
  book,            \* history: what was installed where
  asked,           \* history: the watchpoints last asked for, and not lost
  changes, accesses

vars == <<big, tables, m_live_lookup, access, native, book, asked, changes, accesses>>

None      == [pc |-> "none"]
Idle      == access = None
InNative  == native # None

---------------------------------------------------------------------------------
(* The history: the units of each row, as the requests mean them.  A unit  *)
(* whose registers the code loses track of is not `sure' any more.         *)

RowBits == {k \in Bits : 2^k < W}

(* Every address of the range reaches a register of its own.               *)
Plain(i) ==
  i.mirror \cup i.select = {} /\ ChangingBits(i.start, i.end) \subseteq AddressMask(i)

(* The units of n bytes that a request places in a row, numbered in the    *)
(* order of their addresses.                                               *)
NewUnits(i, row) ==
  LET lanes  == Lanes(i)
      mask   == AddressMask(i)
      places == {p \in 0 .. (W \div i.bytes - 1) : Unit(i.bytes, p) \cap lanes # {}}
      cs     == IF i.cs = 0 THEN i.bytes ELSE i.cs
      mult   == PowerOf2(Cardinality(places))
      rowoff == And((row - Row(i.start)) * W, mask) \div W
      Nth(p) == Cardinality({q \in places : IF big THEN q > p ELSE q < p})
  IN  IF i.bytes = W \/ i.dir = "setoffset"
      THEN {[dev |-> i.dev, lanes |-> AllLanes, cs |-> AllLanes, reg |-> rowoff,
             narrow |-> FALSE, start |-> Row(i.start), mask |-> mask, even |-> TRUE,
             plain |-> Plain(i), sure |-> TRUE]}
      ELSE {[dev |-> i.dev, lanes |-> Unit(i.bytes, p), cs |-> Unit(cs, p \div (cs \div i.bytes)),
             reg |-> rowoff * mult + Nth(p),
             narrow |-> TRUE, start |-> Row(i.start), mask |-> mask,
             even |-> mult * i.bytes = W, plain |-> Plain(i),
             sure |-> Cardinality(places) = 1 \/ RowBits \subseteq mask] : p \in places}

(* The registers of a unit that stays are kept: the request has the base   *)
(* and the address mask it had, or neither has mirrors or masks anything   *)
(* and the base is the same or the units of that device fill the row.      *)
Keeps(unit, i) ==
  \/ unit.start = Row(i.start) /\ unit.mask = AddressMask(i)
  \/ /\ Plain(i) /\ unit.plain
     /\ unit.start = Row(i.start) \/ unit.even

Booked(i, row, units) ==
  LET new  == NewUnits(i, row)
      stay == {x \in units : x.narrow /\ \A y \in new : x.lanes \cap y.lanes = {}}
  IN  new \cup {[x EXCEPT !.sure = @ /\ Keeps(x, i),
                          !.start = Row(i.start), !.mask = AddressMask(i)] : x \in stay}

BankUnit(row) ==
  [dev |-> "ram", lanes |-> AllLanes, cs |-> AllLanes, reg |-> row - Row(BankRange.start),
   narrow |-> FALSE, start |-> Row(BankRange.start), mask |-> Bits, even |-> TRUE,
   plain |-> TRUE, sure |-> TRUE]

---------------------------------------------------------------------------------
(* What changes the space.  The handler of a row in use may be gone when   *)
(* the change is made from inside an access, or be another one already:    *)
(* `alive' says whether some row has kept it.                              *)

Init ==
  /\ big \in BOOLEAN
  /\ tables = [d \in Tables |-> NewTable]
  /\ m_live_lookup = [d \in Directions |-> "table"]
  /\ access = None /\ native = None
  /\ book = [d \in Tables |-> [row \in Rows |-> {}]]
  /\ asked = [d \in Directions |-> "table"]
  /\ changes = 0 /\ accesses = 0

CanChange == changes < MaxChanges /\ changes' = changes + 1

(* install_read_handler, install_write_handler: 8, 16, 32 or 64 bits wide. *)
Install(i) ==
  /\ CanChange /\ Fits(tables[i.dir], i)
  /\ tables' = [tables EXCEPT ![i.dir] =
                  IF i.dir = "setoffset" THEN InstallSetOffset(@, i, i.dev)
                                         ELSE InstallHandler(@, i, i.bytes, i.dev)]
  /\ book' = [book EXCEPT ![i.dir] =
                [row \in Rows |-> IF row \in RowsOf(i) THEN Booked(i, row, @[row]) ELSE @[row]]]
  /\ UNCHANGED <<big, m_live_lookup, asked>>

InstallRam ==
  /\ CanChange
  /\ tables' = [d \in Tables |-> IF d \in Directions THEN InstallBank(tables[d], BankRange)
                                                     ELSE tables[d]]
  /\ book' = [d \in Tables |-> [row \in Rows |->
                IF d \in Directions /\ row \in RowsOf(BankRange) THEN {BankUnit(row)}
                ELSE book[d][row]]]
  /\ UNCHANGED <<big, m_live_lookup, asked>>

UnmapRange(d) ==
  /\ CanChange
  /\ tables' = [tables EXCEPT ![d] = Unmap(@, Unmapped)]
  /\ book' = [book EXCEPT ![d] = [row \in Rows |-> IF row \in RowsOf(Unmapped) THEN {}
                                                   ELSE @[row]]]
  /\ UNCHANGED <<big, m_live_lookup, asked>>

Watched(d) == InNative /\ native.pc = "serve" /\ native.watched /\ access.dir = d

(* What is asked for while the handler of a watched access runs is lost.   *)
EnableWatchpoints(d, on) ==
  /\ CanChange
  /\ m_live_lookup' = [m_live_lookup EXCEPT ![d] = IF on THEN "watchpoints" ELSE "table"]
  /\ asked' = IF Watched(d) THEN asked ELSE [asked EXCEPT ![d] = m_live_lookup'[d]]
  /\ UNCHANGED <<big, tables, book>>

Change ==
  \/ \E i \in Installs : Install(i)
  \/ InstallRam
  \/ \E d \in Directions : UnmapRange(d) \/ \E on \in BOOLEAN : EnableWatchpoints(d, on)

NoChange ==
  UNCHANGED <<big, tables, m_live_lookup, book, asked, changes>>

---------------------------------------------------------------------------------
(* An access, one native access after the other.                           *)

Begin(a) ==
  /\ Idle /\ accesses < MaxAccesses /\ accesses' = accesses + 1
  /\ access' = [pc |-> "busy", dir |-> a.dir,
                todo |-> IF a.dir = "read" THEN read_direct(a) ELSE write_direct(a)]
  /\ UNCHANGED native /\ NoChange

(* The handler of the row is looked up once; `want' is what it is to do.   *)
Serve(n, watched, oldtable) ==
  LET u == tables[access.dir]
      e == u.entry[n.row]
      h == u.handlers[e]
      o == HandlerOffset(h, n.row)
  IN  [pc       |-> "serve",
       row      |-> n.row,
       lanes    |-> n.lanes,
       entry    |-> e,
       stub     |-> h.delegate = "stub",
       offset   |-> o,
       index    |-> 0,
       watched  |-> watched,
       oldtable |-> oldtable,
       want     |-> CallsOf(h, n.row, n.lanes),
       calls    |-> <<>>,
       alive    |-> TRUE]

(* read_native, write_native: under watchpoints every row is that of       *)
(* watchpoint_r or watchpoint_w.                                           *)
StartNative ==
  /\ ~Idle /\ ~InNative
  /\ LET n == Head(access.todo)
     IN  native' = IF m_live_lookup[access.dir] = "watchpoints"
                   THEN [pc |-> "hook"] ELSE Serve(n, FALSE, "table")
  /\ UNCHANGED <<access, accesses>> /\ NoChange

(* Mutant: the live table is noted before the hook runs.                   *)
ReturnFromHookEarlyTable ==
  /\ InNative /\ native.pc = "hook"
  /\ native' = Serve(Head(access.todo), TRUE, "watchpoints")
  /\ m_live_lookup' = [m_live_lookup EXCEPT ![access.dir] = "table"]
  /\ UNCHANGED <<big, tables, book, asked, changes, access, accesses>>

(* The hook is over: the watchpoint handler makes the access again with    *)
(* the real table live.                                                    *)
ReturnFromHook ==
  /\ InNative /\ native.pc = "hook"
  /\ native' = Serve(Head(access.todo), TRUE, m_live_lookup[access.dir])
  /\ m_live_lookup' = [m_live_lookup EXCEPT ![access.dir] = "table"]
  /\ UNCHANGED <<big, tables, book, asked, changes, access, accesses>>

Running == tables[access.dir].handlers[native.entry]

(* The next unit the stub finds, reading the subunits as they are now.     *)
NextUnits ==
  {i \in DOMAIN Running.subs : i > native.index /\ Chosen(Running.subs[i], native.lanes)}

MoreToCall ==
  IF native.stub THEN NextUnits # {} ELSE native.index = 0 /\ native.want # {}

(* A delegate is called; what it changes, it changes before it returns.    *)
CallDelegate ==
  /\ InNative /\ native.pc = "serve" /\ MoreToCall
  /\ LET i == IF native.stub THEN Min(NextUnits) ELSE 1
         c == IF native.stub
              THEN <<i, UnitCall(Running.subs[i], native.offset, native.lanes)>>
              ELSE CHOOSE w \in native.want : TRUE
         u == tables'[access.dir]
     IN  /\ NoChange \/ (c[2].dev # "ram" /\ Change)
         /\ native' = [native EXCEPT
              !.index = i,
              !.calls = Append(@, c),
              !.alive = @ /\ \/ native.entry \in Static
                             \/ \E row \in Rows : {tables[access.dir].entry[row], u.entry[row]}
                                                   = {native.entry}]
  /\ UNCHANGED <<access, accesses>>

EndNative ==
  /\ InNative /\ native.pc = "serve" /\ ~MoreToCall
  /\ native' = None
  /\ m_live_lookup' = IF native.watched
                      THEN [m_live_lookup EXCEPT ![access.dir] = native.oldtable]
                      ELSE m_live_lookup
  /\ access' = IF Len(access.todo) = 1 THEN None ELSE [access EXCEPT !.todo = Tail(@)]
  /\ UNCHANGED <<big, tables, book, asked, changes, accesses>>

(* Between two accesses, or from the hook of the debugger.                 *)
ChangeOutside ==
  /\ Idle \/ (InNative /\ native.pc = "hook")
  /\ Change
  /\ UNCHANGED <<access, native, accesses>>

Next ==
  \/ \E a \in Inputs : Begin(a)
  \/ StartNative \/ ReturnFromHook \/ CallDelegate \/ EndNative
  \/ ChangeOutside

Spec == Init /\ [][Next]_vars

---------------------------------------------------------------------------------
UnitsOf(h, row) ==
  LET offset == HandlerOffset(h, row)
  IN  IF h.delegate = "none" THEN {}
      ELSE IF h.delegate # "stub"
      THEN {[dev |-> h.delegate, lanes |-> AllLanes, cs |-> AllLanes, reg |-> offset]}
      ELSE {[dev |-> si.delegate, lanes |-> si.data, cs |-> si.csmask,
             reg |-> UnitCall(si, offset, {}).reg] : si \in ToSet(h.subs)}

SameUnit(x, b) ==
  x.dev = b.dev /\ x.lanes = b.lanes /\ x.cs = b.cs /\ (b.sure => x.reg = b.reg)

(* Handlers of different widths installed over one another on the same     *)
(* rows, mirrored, on parts of the bus or of a row: each lane of every row *)
(* belongs to the device that was installed there last, and reaches the    *)
(* register its request means, also after later requests took lanes or     *)
(* rows of the same handler entry away.                                    *)
UnitsAreWhereInstalled ==
  /\ \A x \in Addresses :
       set_address(tables["setoffset"], x) =
         {[dev |-> b.dev, reg |-> b.reg, lanes |-> AllLanes] : b \in book["setoffset"][Row(x)]}
  /\ \A d \in Directions : \A row \in Rows :
    LET units == UnitsOf(tables[d].handlers[tables[d].entry[row]], row)
    IN  /\ Cardinality(units) = Cardinality(book[d][row])
        /\ \A b \in book[d][row] : \E x \in units : SameUnit(x, b)

(* m_invsubmask is, as it is declared, the inverted mask of the populated  *)
(* subunits: what no unit drives reads as unmapped, and nothing else.      *)
InvsubmaskIsInverted ==
  \A d \in Directions : \A e \in Dynamic :
    LET h == tables[d].handlers[e]
    IN  h.populated /\ h.subs # <<>> => h.invsubmask = AllLanes \ LanesOf(h.subs)

(* Accesses of every width, alignment and mask come down to native ones    *)
(* that touch the bytes asked for, each once and in its place.             *)
AccessesSplitExactly ==
  Idle /\ changes = 0 =>
    \A a \in AllInputs : /\ SplitsExactly(a, read_direct(a))
                         /\ SplitsExactly(a, write_direct(a))

(* A native access that has begun is finished on the handler it found: the *)
(* delegates it calls may install others on the same row, on other lanes,  *)
(* in any order; as long as the handler is mapped on some row all its      *)
(* units are called, each once and in turn, with the register it had.      *)
(* Only when nothing maps it any more are the units that remain left out,  *)
(* or those of the handler that got its entry called.                      *)
FinishesOnItsHandler ==
  InNative /\ native.pc = "serve" /\ ~MoreToCall /\ native.alive =>
    /\ ToSet(native.calls) = native.want
    /\ \A j, k \in DOMAIN native.calls : j < k => native.calls[j][1] < native.calls[k][1]

(* Between accesses the watchpoints are as they were asked for last, other *)
(* than from the handler of a watched access: what the hook asks for in    *)
(* the middle of an access survives the restoring of the table.            *)
WatchpointsAsAsked == Idle => m_live_lookup = asked

================================================================================
