# Formal models of remame

remame is the core of an arcade machine emulator, cut out of MAME and
restructured: devices in a hierarchy, a machine that starts, runs and resets
them, and the memory system through which they reach RAM, ROM and each other.
The repository has no scheduler, no save files, no inputs, no video and no CPU;
what is there is `source/core` (the machine, times, fast arithmetic,
containers, delegates), `source/emucore` (devices), `source/emucore/memory`
(the memory system), one driver and one test.

This directory holds TLA+ modules that model the program's logic, TLC
configurations that check them on small instances, and TLAPS proofs for every
value of the constants. `PROJECT.json` lists the components, the runs, the
hazards, and for every definition the lines of source it stands for.

Paths below are relative to the repository, `emumem.cpp` is
`source/emucore/memory/emumem.cpp`.

## 1. Inventory

Everything runs on one thread. There are no locks and no messages; what makes
the code hard is (a) callbacks that make requests in the middle of a timeslice,
a frame update or a reset, which are served later and elsewhere, (b) caches of
derived data (fetch windows, periods, derived clocks, bank bases, reference
counts) that have to be told of every change, (c) operations that are retried
(the start of a device, a save) and (d) arithmetic of fixed width.

| Component | State it keeps | Operations | Interacts with | Hard behaviour | What makes it correct |
|---|---|---|---|---|---|
| Running machine (`source/core/machine.cpp`) | phase, paused, exit and hard reset pending, one slot for a scheduled save or load, the soft reset timer | start, run, pause and resume, hard and soft reset, exit, scheduled and immediate save and load | devices (start, reset, stop), scheduler, save manager, memory manager | requests from callbacks; a wait for anonymous timers with a time limit; resume and pause behind a request | nothing is lost or left pending; the loop ends when asked |
| Device start (`machine.cpp` `start_all_devices`, `device_t::start`) | `m_started`, the counts of failed starts of this pass and the last | passes over the hierarchy, rescheduling, giving up | every device | retry until no progress | starts what can be started and nothing else; ends |
| Device clocks (`source/emucore/device.cpp`) | configured, unscaled and scaled clock, period | set clock, set unscaled, set scale, notify, save, load | owner and sub-devices, attotime | derived values pushed down a tree; a start that comes after the change; saved without the period | children follow owners; whoever started knows its clock; ticks are not lost |
| Device lifecycle (`device.cpp`, `device.h`, `machine.cpp`) | `m_config_complete`, `m_machine`, `m_started`, lists of notifiers | configure, resolve, start, reset, NVRAM, pre-save, post-load, stop | machine, memory, save manager, hooks of every device | order of hooks and notifiers, failures and retries in the middle | each hook once and in its place; nobody called without a machine; an exit reaches all |
| Device tree (`device.h`, `device.cpp`) | sub-devices, remembered tags | look up by tag, add, iterate by type and interface | everything that names a device | relative tags with carets, remembered results, depth limits | a lookup gives what a search gives; a visit is depth first |
| Time (`source/core/attotime.*`, `fastmath*.h`) | none | +, -, *, /, ticks | clocks, scheduler | carries, rounding, saturation, 32-bit words | exact sums and products; nearest quotients; ticks come back |
| Address table (`emumem.cpp` `address_table`) | level-1 and level-2 tables, subtable use counts, handler reference counts, free list | map a range with mirrors, install a handler, look up | address space, handlers | shared subtables, copy on write, merging, quick mapping of mirrors, exhaustion | a call changes the addresses of its range and no other; counts are exact; "out of" is true |
| Fetches and banks (`direct_read_data`, `memory_bank`) | live window, cached ranges per entry, bank base, entries, references | fetch, invalidate, map, set base, set and configure entries, reload | address table, address space, save manager | two levels of cache over two kinds of change | no window on a base the bank no longer has; cached ranges tell the truth |
| Memory of the spaces (`memory_manager::initialize`, `address_space::prepare_map` to `locate_memory`) | regions, shares, blocks, banks, entries with their memory | prepare, populate, allocate, locate; install RAM later | address maps, devices, regions | overlapping entries, blocks grown over neighbours, shares over spaces, banks found by range | accesses stay inside memory; RAM is backed; shares agree; reads find writes |
| Handlers narrower than the bus (`handler_entry`, `setup_range_masked`) | subunits with offsets, shifts and masks | combine, overwrite, relocate and remove subunits; the stubs | address table, accesses in progress | overlapping unit masks, handlers replaced while their stub runs | each lane reaches the register of the handler installed last |
| Address maps (`address_map.*`) | list of entries, global mask | build, import submaps, check, populate | memory of the spaces, device tree | submaps on some lanes, nested, dynamic; what the check lets pass | the import says what the map said; a map that passes installs |
| Watchpoints (`emumem.cpp` 560–880) | live table or watchpoint table | switch around an access | accesses, debugger's hook | enabling from inside a hook or a handler | the table that is live is the one asked for |
| Accessors (`address_space_specific.h`) | none | read and write of every width and alignment | lookup, handlers | masks and shifts of unaligned accesses in both byte orders | each byte asked for is touched once, in its place |
| Memory interface (`dimemory.*`) | spaces of a device | pass on, translate | devices, spaces | – | – |
| Save registration (`save.h`) | list of items | register | everything | – | header only |
| Containers (`coretmpl.h`) | links, head, tail, count; ring; mapping and order of use | insert, replace, detach, remove, recycle; enqueue, dequeue, poke; find, insert, erase | device tree, address maps, memory | the last object, the full ring, space made under an iterator | each is the sequence it stands for |
| Fast arithmetic (`fastmath*.h`) | none | products, divisions, remainders, shifts, counts | times, everything | three implementations, operands at the edge | all builds give the same, and the right thing |
| Delegates, definitions, driver, entry point | – | – | – | casts; data | – |

The hazards of this code, each at its line and with the properties that watch
it, are in `PROJECT.json`.

## 2. Modules

| Module | Models |
|---|---|
| `AddressBits` | addresses, mirrors, valid requests and `check_optimize_mirror` |
| `AddressMap` | abstract: what an `address_table` promises, a map from addresses to entries |
| `AddressTable` | `address_table` in full, shown to implement `AddressMap` |
| `DirectRead` | `direct_read_data`, `memory_bank` and the invalidations of `address_space`, over the flat map |
| `MemorySetup` | the four stages of `memory_manager::initialize`, and RAM installed afterwards |
| `InstallChecks` | what an address space accepts at an installation, and on which lanes it then is (`check_optimize_all`, unit masks) |
| `HandlerUnits` | `handler_entry` with its subunits; installation over a flat table of rows |
| `Accessors` | `read_direct`, `write_direct`, `set_address` |
| `SpaceAccess` | accesses step by step over `Accessors` and `HandlerUnits`, with watchpoints and with delegates that install handlers |
| `SubmapImport` | `address_map`: construction, import of submaps, validity check, population |
| `RunningMachine` | `running_machine`: phases, loop, requests |
| `StartOrder` | abstract: what `start_all_devices` promises |
| `DeviceStart` | `start_all_devices`, shown to implement `StartOrder` |
| `DeviceLifecycle` | the hooks and notifiers of all devices from configuration to stop, around `DeviceStart` |
| `DeviceTree` | the hierarchy: tags, lookups, iterators |
| `DeviceClock` | the clocks of the device hierarchy |
| `Attotime` | `attotime` arithmetic over the words of `fastmath.h` |
| `FastMath`, `FastMathGcc`, `FastMathVc`, `Instructions`, `BuildsOfFastMath` | `fastmath.h`, the assembler of its variants, the instructions they use, and all of them compared |
| `SimpleList`, `Fifo`, `LruCache` | the containers of `coretmpl.h` |
| `MC...` | instances of these for TLC |
| `Subsequences` | the elements of a sequence that are in a set, or not in it, by a recursive function, for the modules that theorems are about |
| `ExtremeLemmas` | lemmas: what `Keep` and `Without` leave of a sequence, `Min` and `Max` of finite sets of integers, induction over numbers and over the passes of a loop, counting |
| `FoldInduction` | lemma: a fold over a sequence goes through one value per element |
| `AddressTableProofs`, `AccessProofs`, `MemorySetupProofs`, `DeviceLifecycleProofs`, `DeviceClockProofs`, `CoreProofs` | theorems: about the table; `SpaceAccess` and `DirectRead`; the memory of the spaces; `DeviceStart` and the life of devices; clocks; the machine, the containers and the times of `source/core` |

Composition: `SpaceAccess` extends `Accessors`, which extends `HandlerUnits`,
which extends `InstallChecks` and `Subsequences` (as do `MemorySetup` and
`LruCache`); `SubmapImport` uses the same checks, so that what
one calls installable the other installs. `DeviceLifecycle` extends
`DeviceStart` and keeps its refinement of `StartOrder`. `MCStructures` puts the
small parts of the core side by side, one at a time.

### Correspondence with the code

**AddressTable.** The table is a record whose fields are the members of the
class: level-1 and level-2 cells, `subtable` use counts and checksum flags,
handler reference counts, the free list. Operators carry the names of the
member functions and say what these make of the record; `MapRange` is
`map_range`, `SetupRangeSolid` is `setup_range_solid`. A loop is a fold whose body
has a name of its own (`RepointCell`, `FillCell`, `MirrorTo`...). An exception
leaves the record as far as it got, with the reason in it. The actions are the two calls
an address space makes. Lookups are `lookup(u, a)`, compared with the abstract
map by the refinement.

**DirectRead.** `window` is the live range, entry and pointer, `ranges` the
cached ranges of every bank, `base`, `curentry`, `slots` and `refs` are the
members of `memory_bank`, `map` and `conf` the read table and the range each
bank's handler entry was configured with. One action for each way of mapping (by tag, by
pointer, write side only, handler, handler narrower than the bus), for
`set_base`, `set_entry`, `configure_entry` and the reload of a state, and for a
fetch, which is `set_direct_region` when it is outside the window; the next-state
relation is `ReadNext`, the specification `ReadSpec`. A
pointer is what memory it leads to; the offset is dropped. The ranges of
entries that are not banks are dropped, since their windows are empty.

**HandlerUnits, Accessors, SpaceAccess.** A table has the entry of each row (a
bus-wide unit of addresses), the handlers and the free list. A mask of data is
a set of lanes, that is bytes, counted from the least significant. Operators
carry the names of the member functions; `SetupOverride` and `SetupPartial` are
the two halves of `setup_range_masked`; a request that finds no free handler is
a fatal error and no step (`Fits`). An access is a record on its way: the
native accesses it is split into, for the one in progress the entry that was
looked up, the subunit its stub has come to and whether it is watched. A
delegate may change handlers or watchpoints before it returns; so may the
debugger's hook. The values that are read are left out: a delegate is the
device, the register and the lanes it is called with. `book` is a history of
what the requests mean.

**SubmapImport.** `list` is the list of entries that is being imported, `at`
the entry that `import_submaps` has come to; an operator carries the name of
each builder method. `Decode` is the reference: what the map says of a byte
when the submaps are followed instead of imported. The stages are creation,
import, population, and maps that drivers install later.

**MemorySetup.** `stage` and `space` are where `initialize` is; each stage
goes over the spaces. `entries` are the maps with `m_memory`, `sharelist`,
`blocklist` and `banklist` the members of the manager, `table` the flat map of
each space and direction. `AllocateHardcoded` is the first half of
`allocate_memory` up to its loop, `AllocateBlock` one turn of the loop.
`Install` is `install_ram`, `install_rom` or `install_writeonly` after
initialization. Addresses are bytes. `Copies` are the addresses of a range and
its mirrors, all of which a table maps (`populate_range_mirrored`), while a bank
is found by the range alone (`bank_find_anonymous`) and its memory is that of the
range alone. Maps are as `adjust_addresses` leaves them and as
`check_optimize_mirror` lets them pass. Handlers of devices only take addresses
away from banks; masks and address shifts are in `SubmapImport`.

**RunningMachine.** `control` is where `run()` is: inside a timeslice, a frame
update, at the test of the loop, at the pending request, in a reset, leaving.
Requests are actions that can happen wherever callbacks run. `waited` counts
timeslices since the request, in place of the emulated time compared with one
second. The scheduler is not in the repository: of it there are the number of
anonymous timers (which `can_save` asks for) and the soft reset timer.

**DeviceStart.** One action per device the pass comes to: skip it, start it,
reschedule it, fail. What a device needs is any relation; the order of devices
is the order of `device_iterator`.

**DeviceLifecycle.** `stage` is how far `run()` is, `op` the operation on all
devices in progress, `todo` the hooks it has yet to call. Each hook is a step,
and may throw; `call_notifiers` and the recursion of `reset` are in the order of
`todo`. `notifiers` are the lists of callbacks; each device registers one of its
own for each occasion, also in an attempt to start that fails
(`early`). Interfaces of a device are one; the order in which save_manager calls
its callbacks is assumed, since `save.cpp` is not in the repository.

**DeviceTree.** A string is a sequence of colons, carets and names. `subtag`,
`subdevice_slow` and the iterators are translated with their loops; the
reference is the plain search and the plain depth-first sequence.

**DeviceClock.** The hierarchy is a parameter. Each of `set_clock`,
`set_unscaled_clock`, `set_clock_scale`, `start`, a save and a load is an
action that includes the notification of everything below. The devices are
numbered as the hierarchy is built, an owner before what it owns. The scale is a
fraction in place of a double. Products wrap at `Modulus`, as in the code, and so do
the whole seconds of `clocks_to_attotime`, which then get a sign; a quotient that
does not fit stops the program where the division is assembler (`Stops`, the
builds with GCC or for 32 bits) and loses its high word elsewhere. The property
asks both, the build being a bound variable of it.

**Attotime.** The operators follow the code's steps: split at the square root
of a second, multiply and divide word by word, carry, saturate at `never`.
`Root`, `MaxSeconds` and `Span` are parameters, 10^9, 10^9 and 2^32 in the
code.

**FastMath and its variants.** Each function as the implementation has it: C++
with casts that cut, assembler as the instructions of the processor on pairs of
words (`Instructions`, external), with the trap of a division as a result.

**SimpleList, Fifo, LruCache.** Objects, places and nodes are what they are in
the code; `order`, `queue` and `recent` are histories of what was asked for.

## 3. Runs

| Run | Question | Bounds, and why they are enough |
|---|---|---|
| `address_table` | Do counts, free list and cells stay exact, and does each call map its range and no other, through sharing, merging, copying and running out? | 16 addresses in 4 blocks of 4; 2 subtables and 2 handlers, so that both run out and merging is forced; 8 requests: inside a block, across blocks with both edges, mirrors inside and across blocks, the quick mapping; 4 calls, the least at which a subtable is shared, opened, merged and reused |
| `direct_read` | Can a window or a cached range outlive what it was derived from? | 4 addresses in 2 blocks, 1 bank, 2 pointers, 1 entry; two spaces, one with narrow handlers and installs by pointer; no bound on the number of calls: the state space is finite. Pointers are symmetric |
| `memory_setup` | Whatever the maps, does every access end in its memory, and does RAM installed later move nothing else? | every map of up to 3 of 11 common entries (overlapping, nested, next to each other, mirrored, sharing, of the region, straddling it, a bank at two places) and of up to 2 of 20 (in the first chunk, with two mirrors, at mirrors of others, of other lengths, with a share beyond its region), and another space with ROM, a share of another length or a bank; chunks of 2 addresses of 8, so that blocks grow over neighbours; 3 banks, so that they run out; 2 installs, one of them mirrored, so that one finds the bank of the other or of an entry |
| `submap_import` | Does the import say what the map said, does the internal map prevail, and does a map that passes the check install? | 16 addresses, a bus of 4 bytes in either order; maps of one submap (9 places: whole, mirrored, shifted, on 1 to 3 lanes) of 10 contents, nested ones and missing devices among them, with one other entry before or after, an internal map, one dynamic submap; 12 maps that are wrong in some way |
| `accesses` | Does every lane reach the register its last handler put there, do accesses of every kind touch the bytes asked for, and do they end well when handlers and watchpoints change under them? | 4 rows of 4 bytes, either order; 4 handler entries, enough for most sequences and too few for some; 12 handlers of 1, 2 and 4 bytes, RAM, unmapping; 3 changes, the least to combine two handlers and take one away, and 1 access of three in between; all accesses of every width, alignment and mask for the accessors by themselves |
| `machine` | Are requests served, resets made, exits reached? | 2 files, automatic save on, a load at start; a second of 1 timeslice, 1 anonymous timer at once, 3 requests: one pending, one that replaces it, one that interferes |
| `device_lifecycle` | Does the start end with exactly what can be started, are hooks and notifiers in order, and does an exit reach every device, whatever throws? | 3 devices in each of their 2 hierarchies, each of the 512 relations of need between them, callbacks registered early or not: chains against the order need 3 passes, a rescheduled device registers up to 3 times |
| `structures` | Are lists, caches, rings, lookups, iterators, times and the arithmetic of every build what they stand for? Do clocks follow their owners, and is a started device told? | 4 objects in 2 lists and a pool; a cache of 2 of 4 keys; a ring of 3, wrapping or not; hierarchies of up to 5 devices with 2 names, 11 tags; words of 4 bits (all operands, shifts 0 to 3) and counts over 16 bits; times of up to 8 seconds of 36 attoseconds with every factor of a word of 64, down to 3 seconds below zero; a chain of 3 devices with clocks of 3 Hz and of three halves of the owner's, scales of 1 and 1.5, and words of 8, so that the product of three times wraps and a change may stop in the middle or go to the end; 14 numbers of ticks up to 100, below and beyond a second, 3 seconds (`MaxTime`), half a word and words of seconds of each clock |

Four runs end in a violation, each with one property that quotes what the code
or a comment in it says:

- `machine_stuck`: a paused machine with a save or load that waits does not
  exit: the loop goes on while the request is pending, and the request waits for
  a timer that fires in time that does not pass.
- `machine_immediate`: `immediate_save` and `immediate_load` are documented as
  done at once ("jump right into the save, anonymous timers can't hurt us!"); while an
  anonymous timer is pending the transfer is put off like a scheduled one
  (machine.cpp:904-912), and may then be replaced by another request.
- `mixed_units`: with handlers of different widths on a row, `m_invsubmask` is
  computed with the width of the newest, so that it is not the inverted mask of
  the populated subunits.
- `submap_mirrors`: the import of a submap that is on some lanes of the bus
  multiplies addresses by the ratio and divides mirrors by it.

Other behaviour that a reader may not expect is pinned by a condition in a
property that holds; without the condition TLC finds the counterexample:

- a live window outlives a mapping of another entry over its addresses, because
  `invalidate_read_caches(entry)` asks for the new entry only (emumem.cpp:2527),
  although a comment says "recompute any direct access on this space"
  (`WindowGoesWrongOnlyByMapping` names this as the one way to go wrong);
- a bank installed by pointer adds no reference, so that `set_base` does not
  reach the windows of that space (`NoStaleBase` is about spaces that refer);
- the period of a clock is not saved with it, so that after a load it belongs to
  another clock (`loaded` in `DeviceClock`'s `TicksAreKept`);
- ticks of 2^32 seconds and more lose their whole words of seconds, or stop the
  program; from 10^9 seconds the time is never, from 2^31 it is negative
  (`span` and `MaxTime` in `TicksAreKept`);
- a quotient by one is an attosecond too long, and one by an odd factor rounds
  up just below the half (`QuotientIsClose` asks for no more than close); a
  product of a time below zero is never (`ProductIsExact`);
- handlers narrower than the bus leave cached ranges that intersect them
  (`CachedRangesTruthful` is about the other spaces, `WideSpaces`);
- ROM that starts inside the region of its device and ends beyond it gets no
  memory (`Straddled` in `RamIsBacked`);
- nothing merges into a block of the first chunk: `curblockstart - 1` wraps
  (`Plain` in `WritesAreRead`, which is about spaces without regions, shares and
  named banks); an address that is a copy of one address for one entry and of another
  for a second one cannot be the same memory for both (`OneImage` there);
- a bank takes the memory of the first entry with its start, even of a shorter
  one (`ShorterEntryAt` in `AccessesStayInside`); that is also how ROM without
  memory may read another entry's (`Straddles` in `Plain`);
- a bank has the length of the range it was made for, and its handler is
  configured for the last of the entries of a space that name it: a longer one,
  or one that is not a multiple of the rounded size apart, leaves its memory. 0 to
  2 and 5 to 7 name one bank of three bytes, and an access to 0 ends three bytes
  into it (`Misfits` in `AccessesStayInside`);
- an entry with a share takes the memory of the share, whatever their lengths, and
  is not asked to be inside the region it names (`emumem.cpp:1546`; the validity
  check skips shares as well, `address_map.cpp:727`), so that this memory may be
  shorter than the entry (`TooShort` in `AccessesStayInside`);
- RAM installed at the range of an anonymous bank takes this bank, and what other
  mirrors of the range show goes where the bank goes (`CopyOf` in
  `InstallsStayInside`);
- a request replaces the one that is pending (`RequestsServed` counts it as
  served when it is replaced), and one put off by `immediate_save` may be as well;
- a hard reset asked for before the loop begins is forgotten
  (`StopsWhenAsked` is about requests made in the loop);
- the product of a derived clock wraps in 32 bits (`DerivedClocksFollow` is
  stated with the wrapped product);
- the registers of narrow units are shifted wrongly when another handler with
  another base joins them, unless they fill the row, and under mirrors (`Keeps`
  in `SpaceAccess`); a range within part of a row gives all its units the same
  register (`sure`); the select mask of a mirrored unit is too wide, because
  `expand_bytemask` comes before `set_delegate`; a narrow handler over RAM on
  some lanes unmaps the other lanes;
- the entry whose stub runs may be freed or reused by a delegate: then the rest
  of its units are skipped, or those of another handler are called (`alive` in
  `FinishesOnItsHandler`); watchpoints asked for by the handler of a watched
  access are lost (`asked` in `WatchpointsAsAsked`);
- the import drops the chip select width of a submap entry without unit mask,
  looks tags of submaps up from the owner of the map and not from the device
  the entry names (`SameLookups`), and is not exact where `SoundMap` says;
  `prepare_map` silently repairs mirrors and ends that the validity check flags,
  and refuses a unit mask that fits without being repeated (`Overlooked`); the
  call of that check in `dimemory.cpp` is commented out;
- a device that registers callbacks and is then rescheduled has registered them
  twice, and is called twice (`HooksInOrder` says so); devices that never
  started are stopped as well; a failure of `memory_manager::initialize` comes
  before the exit notifiers are there, and leaves `m_machine` set
  (`ExitReachesAll` begins after);
- carets that climb above the root lose the leading colon of the tag, and
  `siblingtag` does not know a caret that `siblingdevice` does; a full ring with
  `WriteWrap` keeps only what is written last, a read from an empty one with
  `ReadWrap` brings old places back, and a poke into a full one overwrites the
  oldest; an object that is not in the list is not inserted before anything, and
  `remove` frees it; the assignment operators of `simple_list` and
  `lru_cache_map` return nothing;
- counting the leading zeros of zero does not end in C++ and gives 32 in
  assembler, a division whose quotient does not fit is cut in C++ and traps in
  assembler, and shifts are valid from 0 to 31 (`SameResults`).

### Fairness

`RunningMachine` has weak fairness on `Run`, because `run()` is a loop that
goes on unless it is left, and on `FireReset`, because the scheduler fires the
timers that are due when time passes. None is assumed of callbacks: drivers
need never ask for anything, and an anonymous timer need never fire.
`RequestsServed` holds by the time limit and not by the timers.
`DeviceLifecycle` has weak fairness on `Proceed`: the sequential code of `run()`
and of the loops over devices goes on by itself. Failures, requests and leaving
the loop are not in it: they need never come. `StartupEnds` and `ExitReachesAll`
are the properties that use it. The other modules have no liveness properties and
no fairness; that the loop of `allocate_memory` ends is seen in the state space
of `memory_setup`, which would be infinite otherwise.

## 4. Proofs

| Theorem | Says, for every value of the constants |
|---|---|
| `AddressTableProofs!TableStaysSound` | the inductive invariant of the table |
| `AddressTableProofs!CountsStayExact` | `CountsExact`: reference counts, use counts and the free list |
| `AddressTableProofs!ExhaustionIsGenuine` | `ExhaustionGenuine`: running out of subtables is never a merge missed |
| `AddressTableProofs!TableImplementsMap` | `ImplementsMap`: `AddressTable` implements `AddressMap` |
| `AccessProofs!TypeCorrect` | type correctness (no run checks the types by themselves); the derived range stays inside the space |
| `AccessProofs!BaseNeverStale` | `NoStaleBase`: a live window on a bank that the space refers to has the base of the bank |
| `AccessProofs!RangesStayTruthful` | `CachedRangesTruthful` |
| `AccessProofs!WindowsOpenTruthfully` | `WindowGoesWrongOnlyByMapping` |
| `AccessProofs!AccessesSplit` | `AccessesSplitExactly` |
| `AccessProofs!AccessesFinish` | `FinishesOnItsHandler` |
| `AccessProofs!WatchpointsHold` | `WatchpointsAsAsked` |
| `MemorySetupProofs!SharesHold` | `SharesAgree` |
| `MemorySetupProofs!RamHolds` | `RamIsBacked` |
| `MemorySetupProofs!InstallsHold` | `InstallsStayInside`, an action property |
| `MemorySetupProofs!AccessesHold` | `AccessesStayInside` |
| `MemorySetupProofs!WritesHold` | `WritesAreRead` |
| `CoreProofs!FifoHolds` | `FifoIsQueue` |
| `CoreProofs!CacheHolds` | `CacheCoherent` |
| `CoreProofs!ListsHold` | `ListsKeepOrder` |
| `CoreProofs!TimesHold` | `ResultsAreExact` |
| `CoreProofs!TypesCorrect` | type correctness, with it that no request is older than a second at the top of the loop |
| `CoreProofs!NothingLeftPending` | `LeavesNothingPending` |
| `CoreProofs!WaitingMachineRuns` | `WaitsOnlyWhileRunning` |
| `DeviceLifecycleProofs!TypeCorrect` | type correctness |
| `DeviceLifecycleProofs!StartsExactly` | `StartsWhatCanBe` |
| `DeviceLifecycleProofs!PassesKeepPromise` | `DeviceStart` implements `StartOrder` |
| `DeviceLifecycleProofs!LifeStarts` | `StartsWhatCanBe` and the refinement of `StartOrder` hold in the whole life of the devices |
| `DeviceLifecycleProofs!CallsFind` | `CallsFindTheMachine` |
| `DeviceLifecycleProofs!HooksKeepTheirOrder` | `HooksInOrder` |
| `DeviceLifecycleProofs!ExitLeavesNone` | what is over leaves no device with a machine, the safety half of `ExitReachesAll` |
| `DeviceClockProofs!ClocksAreKept` | the inductive invariant of the clocks, types among it |
| `DeviceClockProofs!StartedDevicesAreTold` | `StartedDevicesKnow` |
| `DeviceClockProofs!TicksAlwaysComeBack` | `TicksAreKept` |
| `DeviceClockProofs!DerivedClocksAlwaysFollow` | `DerivedClocksFollow` |

They rest on the modules' named assumptions about constants and on nothing
else.

- *AddressTable.* Between calls the books balance (`Kept`): the references a
  handler has are the level-1 cells and the cells of subtables in use that hold
  it, the users of a subtable the level-1 cells that name it, a handler without
  references is on the free list once, and a checksum that is valid is that of
  the cells. `CountsExact` alone is not inductive: merging compares
  checksums first, so that it misses nothing only if these hold, and a call that
  fails leaves a handler that was taken and is not mapped anywhere, the set `X` of
  `Kept(t, X)`. Inside a call the books are ahead by what was counted in advance
  (`Books`, as `handler_ref` takes all references before the cells are
  overwritten), and the proof goes through the code from the inside outwards:
  a cell, a subtable released, opened, copied or merged, a block, a range, the
  copies. Every loop is a fold; `FoldInduction` gives the values it goes through,
  one for each pass, and `LoopInduction` the induction over the passes.
  For the refinement, addresses are sets of bits: the base of a copy is a set of
  mirror bits, counting goes through every one of these sets once (`CopiesAreAll`), a
  range with mirror bits added is a range of the cells asked for, and two
  copies with different high bits are in different blocks. The quick way
  to map another copy compares the *number* of an old level-1 entry, which may by
  then be a subtable that was freed and taken again; `Like` says why it is
  right all the same: whatever names that number has, outside of the columns
  that are being mapped, the cells the earlier block had.
- *DirectRead.* `NoStaleBase` is inductive together with the types and with the
  fact that a live window is a window on a bank: `set_base`,
  `set_entry` and a reload empty the windows of the referring spaces, and
  installing by tag adds the reference and empties the window of the space with
  it. `CachedRangesTruthful` needs that a range taken into the cache maps
  wholly to its bank, which is what `derive_range` scans for, and that
  `remove_intersecting_ranges` drops a cached range that any mirror image of a
  new mapping meets: the lemma about `Copies` and `Region`. The scans are
  written as extremes of finite sets; `ExtremeLemmas` says where these lie.
- *SpaceAccess, the split.* The addresses are a row and a lane in it, and the
  code accesses one row, two, or as many as the target reaches into. Each byte
  of the target lies in exactly one of these rows, also when they wrap at the
  end of the space (`Wrapped`, since the number of rows divides that of the
  addresses), and the shift of `read_direct` brings it to the lane that is at the address of the
  byte in either order; rows of which no byte is asked for are left out. No
  state is involved but the byte order, which is chosen once.
- *SpaceAccess, the handlers.* `FinishesOnItsHandler` needs that a request
  changes no handler that a row outside of it still has: an entry is free or
  mapped, never both, and is on the free list once; the entries a request sets
  up come from the free list; the copy for the rows of an entry is a new entry;
  and an entry freed on the way has no row left. From there `alive` implies that
  the entry of the native access has the handler it had, and the stub, which
  looks for its next unit by number, has called those before it and
  no other. The units of one handler have numbers, so that what is called is in
  order.
- *SpaceAccess, watchpoints.* Outside of a watched access the live table is the
  one asked for; during one, for its direction, the one asked for is what the
  end of the access puts back (`oldtable`), and for the other direction the live
  table stays the one asked for.
- *MemorySetup.* Six invariants. `SetupInv` follows the entries and the shares
  through the stages: no share has memory before the allocation; an entry that
  names a share and has no region of its own has no memory or that of the share; from the end of the
  allocation of its space on, an entry that needs memory has it. The loops over
  the entries are folds, and what one pass gives is never taken back (`Grew`).
  `BanksInv` follows the banks: a bank without a tag belongs to one space and is
  for one range, and a table leads to it only if it refers to the table
  (`MappedOK`); so looking for a bank by its range finds one of the same space and
  range, and an install changes the addresses it maps and the further copies of that
  bank, no others (`Apart`). A bank without memory comes from an entry of its range
  (`Sourced`), which has memory when its space is located unless it is ROM that
  straddles its region. That the lists of banks and entries are sequences is part
  of the invariant. `RoomInv` says that memory is only given where there is enough of
  it (`Enough`): the memory of an entry, whether of its region, of its share or a
  part of a block, has as many bytes as the entry, that of a share as many as any
  entry that names it, and what a block stands for as many as the block; or it is
  the memory of a share that is too short from the start, as entries of the share
  differ in length or reach beyond their region (`Lacks`, `Odd`). `ReachInv`
  says the same of the base of a bank, unless a shorter entry starts where it does,
  and that the table leads to a bank from copies of the ranges it is mapped for
  (its own with any mirror, or those of the entries of the space that name it) and
  its handler is configured for one of them. So an address is a copy of one range, and
  the handler masks by the rounded size of another: for a bank with a tag the
  two agree unless `Misfits`. For one without, how far a copy is from its original is a
  multiple of the rounded size, as no mirror has a bit below it (`MirrorOffset`,
  which is what `check_optimize_mirror` is for), and masking gives back the place in the
  range (`OffsetIs`; that the rounded size exists is `RoundedUpIs`). `PlainInv` is about the spaces whose entries name no region,
  share or bank, before anything is installed later. Each of their blocks is
  whole chunks, with at least one chunk between it and the others and every entry
  that still wants memory, and an entry that has memory lies in a block, at its
  place in it. The block that grows around an entry takes in all that wants
  memory in its chunks or next to them, in one pass over the entries after the
  other: an entry is taken once and stays taken, so that as many passes as there are
  entries are enough, which is a counting argument over the entries taken so
  far (`SpanSettles`). That an entry starts behind the first chunk is needed
  there, as a span at chunk 0 takes nothing. `BackedInv` says that a bank without a
  tag comes from an entry of its range and has the memory of one that starts where it
  does, and that what is mapped to it are copies of entries of its range (`Imaged`).
  Each such entry has memory too, so it is in a block with the start of
  the bank, and an access ends where its block has the address it is a copy of
  (`ReachPlain`). By `OneImage` that is the same address for reading and writing,
  which is in one block only (`OneBlock`).
  All six were model-checked on the instance of `memory_setup` as well. Assumed is what the
  declarations and the checks of the code say: there is a space, numbers are
  numbers, an entry is a record of the fields the code has, one that says bank
  has a tag, ranges begin before they end, are inside the address space and have
  mirrors outside of the bits they set or change (`check_optimize_all` and
  `check_optimize_mirror` end the program otherwise), and a region is not the number
  of a block. Of the lengths of shares and banks, and of shares and regions,
  nothing is assumed.
- *Containers.* Between head and tail of the ring are as many places as the queue
  is long, each once (`Ring`), whatever has wrapped. In the cache the list holds the
  nodes of the mapping, each once and the one used last at the end, different
  nodes have different keys, and the free node that an insertion takes is
  there because the list is never longer than the maximum; the hint of an
  insertion is valid because `make_space` moves it on when it drops its node.
  A `simple_list` is a chain of links from its head to its tail, and no object is in
  two of them or in one twice (`ListsKept`): each operation inserts, removes or
  replaces an object in a chain or puts one chain behind another, and leaves
  the others alone. The walk along `m_next` (`WalkIs`) meets the chain and no
  more: a chain in which no object occurs twice is no longer than there are
  objects, which are finitely many.
- *Attotime.* The invariant is that a time is normalised, and `never` when its
  seconds say so. Products and quotients are followed from word to word: each
  step splits a number into quotient and rest by the square root of a second or by
  the factor, and the carries add up to the quotient and rest of the whole. No
  product of 64 bits is cut on the way, since `Root` is at most `MaxSeconds`
  and four times `MaxSeconds` is at most `Span`, as 10^9, 10^9 and 2^32 are; a
  negative time multiplied is cut at 2^32 and comes out as `never`. Assumed besides
  is that factors have 32 bits and the other operands are times.
- *RunningMachine.* `LeavesNothingPending` and the types depend on each other
  through the age of the request: the invariant is `TypeOK`, with
  `OldOnlyInLoop` (a request can only be as old as the limit inside the loop,
  before the request is looked at) and `IdleIsBlank` (without a request there is
  no file and no age).
- *DeviceStart.* The invariant counts: `Counted` ties `failed_starts` to the
  devices rescheduled in this pass, and the count of the last pass to what was
  started when this one began, `Ended` says of every
  outcome what was true when it was reached, `Minimal` that everything started
  could be. A circular dependency is reported only after a pass that started
  nothing, so that every device that is left needs one that is left.
- *DeviceLifecycle.* What an operation calls is a word, and `called` followed by
  `todo` is that whole word from the moment the operation begins
  (`OperationsAre`), so that an order of calls is a fact about words: of `ForAll`
  (hooks of all devices), `CallEach` (a list of callbacks, in which that of
  the machine calls all devices) and `reset`. The last is a recursive function over
  the hierarchy. Devices are numbered with owners first, so the values are
  followed from the last device to the first: what is called in the reset of a
  device are the hooks of the devices below it, the devices below two
  subdevices are different, and all are below the root; hence each hook
  once (`ResetOnce`) and linked hooks in order (`ResetOrdered`). `HooksInOrder` and
  `CallsFindTheMachine` are not inductive: the words come from the lists of
  callbacks, and the invariant `LifeInv` says what these lists look like at each
  stage (`ListsAre`: the machine's own callback first in the lists for reset and
  save and so last in that for the exit; the banks first and the machine last in
  that for a load) and which devices then have a machine and are started
  (`DevicesAre`; during an exit those whose last hook was not called). `LifeInv`
  was model-checked on the instance of `device_lifecycle` before it was proved.
  The assumption is that there is a root device.
- *DeviceClock.* `Follow` computes the new clock of each device from its owner's;
  `DownTheHierarchy` says that such a function exists, as an owner comes before
  what it owns, and is the one computed. The invariant adds to the
  types that the period is that of the clock and that a derived clock has an
  owner. That ticks come back is arithmetic: a clock below one second's worth of
  attoseconds has a period of at least one, and clock times period is at most a
  second (`PeriodFits`); the sign of the seconds is undone (`SignsUndo`); and what
  is divided by the clock and cut at a word is cut at their product
  (`DividedTwice`).

Only model-checked:

- `UnitsAreWhereInstalled` of `SpaceAccess`: masks and shifts of bits, on which the
  solver does not get further than single cases.
- `SubmapImport` and `DeviceTree`, whose operators recurse over submaps and over
  the hierarchy, and build functions with `@@`; `FastMath`, which uses bits of
  words.
- All liveness: `RequestsServed`, `StopsWhenAsked`, `SoftResetHappens`,
  `StartupEnds`, and of `ExitReachesAll` that the exit comes to its end.

## 5. Not modelled

- Delegates: conversions of member function pointers, without behaviour over
  time. Save registration: only a header is here. The memory interface passes
  calls on. The Exidy driver is data, the program entry is empty.
- Of the machine: the rewinder, logging, the HTTP interface; that a request
  replaces the one that is pending (machine.cpp:620) is in the model and is the
  design of the single slot. Exceptions thrown by exit notifiers are not caught
  by `run()` and end the program. Of attotime: text, doubles, and the division
  of negative times, whose result depends on the build; of fast math
  `recip_approx`, an approximation in floating point.
- Of the memory system: address shifts other than 0 in the accessors, accesses
  that a delegate makes while it is called, what is left of a table after running
  out of handlers on narrow installs (a fatal error, which `AddressTable` has),
  delegates that are not bound; of the
  validity check of maps the regions, the shares and the overlaps.
- Of devices: debug setup, the validity check, and the check that a device
  registers something to save.
- Of containers: copies, moves and swaps of whole containers, lists appended to
  themselves, and the removal of an object that is in another list, which
  `SimpleList` leaves out: its callers remove what they found in the list.

## 6. Plan

Done, in this order: the address table and its promise; fetches and banks; the
running machine; the start of devices; times; clocks; memory of the spaces;
address maps; handlers narrower than the bus with accessors and watchpoints;
containers, the device tree and fast arithmetic; the lifecycle of devices.

Modules of one component share a run where they share a next-state relation, the
small parts of the core, clocks among them, share `structures`, and a run that ends in a violation
gives way once the finding is stated as a condition of a property that holds.

Left: the masks of the units in `UnitsAreWhereInstalled`.
