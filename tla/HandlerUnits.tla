------------------------------ MODULE HandlerUnits ------------------------------
(***************************************************************************)
(* The handler entries of an address table (classes handler_entry,         *)
(* handler_entry_read and handler_entry_write of                           *)
(* source/emucore/memory/emumem.cpp): a handler as wide as the bus, or up  *)
(* to eight narrower ones, the subunits, behind a stub.  A handler entry   *)
(* is a record h, a member function an operator on it.  A table u has the  *)
(* entry of every row, the handlers and the free list; how its cells,      *)
(* subtables and reference counts keep that map is the business of         *)
(* AddressTable.                                                           *)
(*                                                                         *)
(* A mask of data bits is the set of its lanes and a shift counts lanes, a *)
(* mask of address bits is the set of its bits.                            *)
(***************************************************************************)
EXTENDS InstallChecks, Integers, SequencesExt, Subsequences

CONSTANT SUBTABLE_BASE \* first index that is not that of an entry

VARIABLES
  big            \* is m_endianness ENDIANNESS_BIG: set once, at construction

STATIC_BANK1 == 1
STATIC_UNMAP == 2
STATIC_COUNT == 3
Static       == {STATIC_BANK1, STATIC_UNMAP}
Dynamic      == STATIC_COUNT .. (SUBTABLE_BASE - 1)

ASSUME HandlersAssumption == SUBTABLE_BASE \in Nat /\ SUBTABLE_BASE > STATIC_COUNT

Entries == Static \cup Dynamic
Rows    == 0 .. (2^AddrBits \div W - 1)

And(x, B)     == ValueOf(SetBits(x % 2^AddrBits) \cap B)
Shr(B, n)     == {k \in Bits : \E b \in B : 2^b = n * 2^k}     \* B divided by n
Ascending(S)  == Keep([k \in 1 .. (Max(S \cup {0}) + 1) |-> k - 1], S)
Unit(n, u)    == (u * n) .. (u * n + n - 1)
LanesOf(subs) == UNION {subs[i].data : i \in DOMAIN subs}

NewHandler ==
  [populated |-> FALSE, addrstart |-> 0, addrmask |-> Bits, bytemask |-> Bits,
   delegate |-> "none", subs |-> <<>>, invsubmask |-> {}]

(* offset(): what of the address reaches the delegate, in rows.            *)
HandlerOffset(h, row) == And(row * W - h.addrstart, h.addrmask) \div W

(* Mutant: the base address moves and the subunits are not told.           *)
ReconfigureNothing(h, start) == h

reconfigure_subunits(h, start) ==
  [h EXCEPT !.subs =
     [i \in DOMAIN h.subs |->
        [h.subs[i] EXCEPT !.offset = @ + (start - h.addrstart) \div h.subs[i].size]]]

configure(h, start, mask) ==
  LET moved == IF h.populated /\ h.subs # <<>> THEN reconfigure_subunits(h, start) ELSE h
  IN  [moved EXCEPT !.populated = TRUE, !.addrstart = start,
                    !.addrmask = mask, !.bytemask = mask]

expand_bytemask(h, previous) == [h EXCEPT !.bytemask = @ \cup previous]

deconfigure(h) == [h EXCEPT !.populated = FALSE, !.subs = <<>>]

clear_conflicting_subunits(h, lanes) ==
  LET kept == Keep(h.subs, {si \in ToSet(h.subs) : si.data \cap lanes = {}})
  IN  [h EXCEPT !.subs = kept, !.invsubmask = AllLanes \ LanesOf(kept)]

(* Always so without subunits.                                             *)
overriden_by_mask(h, lanes) ==
  \A i \in DOMAIN h.subs : h.subs[i].data \cap lanes # {}

PowerOf2(n) == 2^Min({k \in 0 .. 3 : 2^k >= n})

(* The units of n bytes of the mask, in the order of their addresses, each *)
(* with the registers of its handler that it reaches.  The inverse mask is *)
(* taken with the width of the new units, whatever that of the others.     *)
configure_subunits(h, lanes, n, cs, dev) ==
  LET maxunits   == W \div n
      places     == Keep([k \in 1 .. maxunits |-> IF big THEN maxunits - k ELSE k - 1],
                         {u \in 0 .. (maxunits - 1) : Unit(n, u) \cap lanes # {}})
      multiplier == PowerOf2(Len(places))
      new        == [k \in DOMAIN places |->
                       [addrmask   |-> Shr(h.bytemask, maxunits \div multiplier),
                        data       |-> Unit(n, places[k]),
                        csmask     |-> Unit(cs, places[k] \div (cs \div n)),
                        offset     |-> k - 1,
                        multiplier |-> multiplier,
                        size       |-> n,
                        shift      |-> places[k] * n,
                        delegate   |-> dev]]
      all        == h.subs \o new
  IN  [h EXCEPT
         !.subs = all,
         !.invsubmask = {l \in AllLanes : \A i \in DOMAIN all :
                                            l - all[i].shift \notin 0 .. (n - 1)}]

(* A delegate as wide as the bus is called as it is, for a narrower one    *)
(* the stub that calls the subunits.                                       *)
set_delegate(h, lanes, n, cs, dev) ==
  IF n = W THEN [h EXCEPT !.delegate = dev]
           ELSE [configure_subunits(h, lanes, n, cs, dev) EXCEPT !.delegate = "stub"]

(* What the stubs pass on: the register, and the lanes of the mask that    *)
(* the delegate's own width leaves; a write passes the same lanes of data. *)
UnitCall(si, offset, lanes) ==
  [dev   |-> si.delegate,
   reg   |-> And(offset * si.multiplier + si.offset, si.addrmask),
   lanes |-> {l - si.shift : l \in {x \in lanes : x - si.shift \in 0 .. (si.size - 1)}}]

Chosen(si, lanes) == lanes \cap si.csmask # {}

WholeCall(h, offset, lanes) == [dev |-> h.delegate, reg |-> offset, lanes |-> lanes]

StubCalls(h, offset, lanes) ==
  {<<i, UnitCall(h.subs[i], offset, lanes)>> : i \in {k \in DOMAIN h.subs : Chosen(h.subs[k], lanes)}}

(* Every call that an access of a row makes, if nothing changes meanwhile, *)
(* with the number of the unit it is for.                                  *)
CallsOf(h, row, lanes) ==
  LET offset == HandlerOffset(h, row)
  IN  CASE h.delegate = "none" -> {}
      []   h.delegate = "stub" -> StubCalls(h, offset, lanes)
      []   OTHER               -> {<<1, WholeCall(h, offset, lanes)>>}

---------------------------------------------------------------------------------
(* The table.                                                              *)

NewTable ==
  [entry    |-> [row \in Rows |-> STATIC_UNMAP],
   handlers |-> [e \in Entries |->
                   CASE e = STATIC_UNMAP -> [NewHandler EXCEPT !.populated = TRUE]
                   []   e = STATIC_BANK1 -> [NewHandler EXCEPT !.delegate = "ram"]
                   []   OTHER            -> NewHandler],
   free     |-> Ascending(Dynamic)]

(* handler_unref: an entry that no row has any more is free again.         *)
PopulateRow(v, row, e) ==
  LET old  == v.entry[row]
      map  == [v.entry EXCEPT ![row] = e]
      dead == old \in Dynamic /\ \A x \in Rows : map[x] # old
  IN  IF dead THEN [entry    |-> map,
                    handlers |-> [v.handlers EXCEPT ![old] = deconfigure(@)],
                    free     |-> <<old>> \o v.free]
              ELSE [v EXCEPT !.entry = map]

Populate(u, rows, e) ==
  LET One(v, row) == PopulateRow(v, row, e) IN FoldLeft(One, u, Ascending(rows))

(* adjust_addresses and the mirrors: the rows of a request.                *)
RowsOf(r) ==
  LET base(row) == ValueOf(SetBits(row * W) \ (r.mirror \cup r.select)) \div W
  IN  {row \in Rows : base(row) \in Row(r.start) .. Row(r.end)}

Lanes(r) == {IF big THEN W - 1 - k ELSE k : k \in ServedBytes(big, W, r)}

(* get_free_handler: the first free entry is that of a new handler.        *)
TakeEntry(u, h) ==
  [entry |-> u.entry, handlers |-> [u.handlers EXCEPT ![Head(u.free)] = h], free |-> Tail(u.free)]

(* Mutant: the old handler is changed in place, the optimisation that the  *)
(* code leaves out because rows outside the request may have it too.       *)
PartialInPlace(u, rows, e, r, lanes) ==
  LET old == u.handlers[e]
      h   == expand_bytemask(configure(clear_conflicting_subunits(old, lanes),
                                       Row(r.start) * W, AddressMask(r)), old.bytemask)
  IN  [table |-> [u EXCEPT !.handlers[e] = h], entry |-> e]

(* The rows of entry e, which keep some of its subunits, get a copy        *)
(* without the units the request takes.                                    *)
SetupPartial(u, rows, e, r, lanes) ==
  LET old  == u.handlers[e]
      new  == Head(u.free)
      h    == configure(clear_conflicting_subunits(old, lanes), Row(r.start) * W,
                        AddressMask(r))
      done == Populate(TakeEntry(u, h), rows, new)
  IN  [table |-> [done EXCEPT !.handlers[new] = expand_bytemask(@, old.bytemask)],
       entry |-> new]

(* Every row of the request whose entry keeps nothing.                     *)
SetupOverride(u, rows, r) ==
  LET new == Head(u.free)
      h   == configure(u.handlers[new], Row(r.start) * W, AddressMask(r))
  IN  [table |-> Populate(TakeEntry(u, h), rows, new), entry |-> new]

(* The rows of the request that have entry e, unless the entries ran out.  *)
SetupRest(u, rest, r, lanes, a, e) ==
  IF ~a.fits \/ a.table.free = <<>> THEN [a EXCEPT !.fits = FALSE]
  ELSE LET s == SetupPartial(a.table, {row \in rest : u.entry[row] = e}, e, r, lanes)
       IN  [fits |-> TRUE, table |-> s.table, entries |-> a.entries \cup {s.entry}]

(* setup_range: the rows whose entry is overridden get one new handler,    *)
(* the others a changed copy of the one they have, entry after entry.  A   *)
(* request for the whole bus finds every entry overridden.  `fits' says    *)
(* that there was an entry for each of them.                               *)
SetupRange(u, r, lanes) ==
  LET over    == {row \in RowsOf(r) :
                    \/ u.entry[row] \in Static
                    \/ overriden_by_mask(u.handlers[u.entry[row]], lanes)}
      rest    == RowsOf(r) \ over
      partial == Ascending({u.entry[row] : row \in rest})
      first   == IF over = {} \/ u.free = <<>>
                 THEN [fits |-> over = {}, table |-> u, entries |-> {}]
                 ELSE LET s == SetupOverride(u, over, r)
                      IN  [fits |-> TRUE, table |-> s.table, entries |-> {s.entry}]
      Next(a, e) == SetupRest(u, rest, r, lanes, a, e)
  IN  FoldLeft(Next, first, partial)

(* Without an entry the request is a fatal error, which ends the machine.  *)
Fits(u, r) == SetupRange(u, r, Lanes(r)).fits

(* The proxy: each of the entries gets the delegate.                       *)
InstallHandler(u, r, n, dev) ==
  LET lanes == Lanes(r)
      setup == SetupRange(u, r, lanes)
      cs    == IF r.cs = 0 THEN n ELSE r.cs
  IN  [setup.table EXCEPT !.handlers =
         [e \in Entries |-> IF e \in setup.entries
                            THEN set_delegate(@[e], lanes, n, cs, dev) ELSE @[e]]]

(* A setoffset handler takes whole rows: it has no units.                  *)
InstallSetOffset(u, r, dev) ==
  LET setup == SetupRange(u, r, Lanes(r))
  IN  [setup.table EXCEPT !.handlers =
         [e \in Entries |-> IF e \in setup.entries THEN [@[e] EXCEPT !.delegate = dev]
                                                   ELSE @[e]]]

(* A bank behind the range, or nothing.                                    *)
InstallBank(u, r) ==
  Populate([u EXCEPT !.handlers[STATIC_BANK1] = configure(@, r.start, AddressMask(r))],
           RowsOf(r), STATIC_BANK1)

Unmap(u, r) == Populate(u, RowsOf(r), STATIC_UNMAP)
=================================================================================
