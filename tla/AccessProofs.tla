--------------------------- MODULE AccessProofs ---------------------------
(***************************************************************************)
(* Proofs about SpaceAccess and DirectRead, for every width of the bus and *)
(* of the addresses, both byte orders, every set of requests, of accesses  *)
(* and of banks and every bound.                                           *)
(*                                                                         *)
(* An access needs that its rows wrap like the addresses do; a native      *)
(* access is finished on its handler because an entry is never given out   *)
(* again while a row has it; the tables are live as they were asked for    *)
(* outside a watched access.                                               *)
(*                                                                         *)
(* A window of opcode fetches needs that the window is on the bank of the  *)
(* entry it was derived for: the base is then the bank's (NoStaleBase),    *)
(* and with it cached ranges are true of the map (CachedRangesTruthful),   *)
(* so that a window goes wrong only by mapping                             *)
(* (WindowGoesWrongOnlyByMapping).                                         *)
(***************************************************************************)
EXTENDS SpaceAccess, DirectRead, ExtremeLemmas

---------------------------------------------------------------------------------
(* The watchpoints.                                                        *)

LiveTables == {"table", "watchpoints"}

(* What a native access knows while its handler runs.                      *)
ServeShape(n) ==
  n = [pc |-> "serve", row |-> n.row, lanes |-> n.lanes, entry |-> n.entry, stub |-> n.stub,
       offset |-> n.offset, index |-> n.index, watched |-> n.watched, oldtable |-> n.oldtable,
       want |-> n.want, calls |-> n.calls, alive |-> n.alive]

Serving  == InNative /\ native.pc = "serve"
InWatched == Serving /\ native.watched = TRUE

(* An access is in progress around every native access.                    *)
Nested ==
  /\ access # None => access = [pc |-> "busy", dir |-> access.dir, todo |-> access.todo]
  /\ access # None => access.dir \in Directions
  /\ native # None => /\ access # None
                      /\ native.pc = "hook" \/ ServeShape(native)

(* Only the table of the access that is watched is not the one asked for,  *)
(* and that one is remembered.                                             *)
WatchInv ==
  /\ Nested
  /\ m_live_lookup \in [Directions -> LiveTables] /\ asked \in [Directions -> LiveTables]
  /\ ~InWatched => m_live_lookup = asked
  /\ InWatched => /\ native.oldtable = asked[access.dir]
                  /\ \A d \in Directions \ {access.dir} : m_live_lookup[d] = asked[d]

(* No watchpoint is on at first, and none was asked for.                   *)
LEMMA WatchInit == Init => WatchInv
BY DEF Init, WatchInv, Nested, InWatched, Serving, InNative, None, Directions, LiveTables

(* A change of the space leaves the accesses alone, and what it asks for   *)
(* of the watchpoints is lost only for the table of a watched access.      *)
LEMMA ChangeWatch ==
  ASSUME WatchInv, Change
  PROVE  /\ m_live_lookup' \in [Directions -> LiveTables] /\ asked' \in [Directions -> LiveTables]
         /\ ~InWatched => m_live_lookup' = asked'
         /\ InWatched => /\ asked'[access.dir] = asked[access.dir]
                         /\ \A d \in Directions \ {access.dir} : m_live_lookup'[d] = asked'[d]
<1>1. CASE UNCHANGED <<m_live_lookup, asked>>
  BY <1>1 DEF WatchInv
<1>2. ASSUME NEW d \in Directions, NEW on \in BOOLEAN, EnableWatchpoints(d, on)
      PROVE  /\ m_live_lookup' \in [Directions -> LiveTables] /\ asked' \in [Directions -> LiveTables]
             /\ ~InWatched => m_live_lookup' = asked'
             /\ InWatched => /\ asked'[access.dir] = asked[access.dir]
                             /\ \A x \in Directions \ {access.dir} : m_live_lookup'[x] = asked'[x]
  <2> DEFINE v == IF on THEN "watchpoints" ELSE "table"
  <2>1. v \in LiveTables
    BY DEF LiveTables
  <2>2. /\ m_live_lookup' = [m_live_lookup EXCEPT ![d] = v]
        /\ asked' = IF Watched(d) THEN asked ELSE [asked EXCEPT ![d] = m_live_lookup'[d]]
    BY <1>2 DEF EnableWatchpoints
  <2>3. Watched(d) <=> InWatched /\ access.dir = d
    BY DEF Watched, InWatched, Serving
  <2> HIDE DEF v
  <2>4. QED BY <2>1, <2>2, <2>3 DEF WatchInv, Nested, InWatched, Serving, InNative
<1>3. QED BY <1>1, <1>2 DEF Change, Install, InstallRam, UnmapRange

(* Every step keeps what WatchInv says of the tables.                      *)
LEMMA WatchStep == WatchInv /\ [Next]_vars => WatchInv'
<1> SUFFICES ASSUME WatchInv, [Next]_vars PROVE WatchInv'
  OBVIOUS
<1> USE DEF Nested, InWatched, Serving, InNative
<1>1. ASSUME NEW a \in Inputs, Begin(a) PROVE WatchInv'
  <2>1. a.dir \in Directions /\ access = None
    BY <1>1, SpaceAccessAssumption DEF Begin, Idle
  <2>2. native = None /\ native' = None
    BY <1>1, <2>1 DEF Begin, WatchInv
  <2>3. access'.dir = a.dir /\ access' = [pc |-> "busy", dir |-> access'.dir, todo |-> access'.todo]
    BY <1>1 DEF Begin
  <2>4. UNCHANGED <<m_live_lookup, asked>>
    BY <1>1 DEF Begin, NoChange
  <2>5. QED BY <2>1, <2>2, <2>3, <2>4 DEF WatchInv
<1>2. ASSUME StartNative PROVE WatchInv'
  <2>1. native = None /\ access # None /\ access' = access
    BY <1>2 DEF StartNative, Idle
  <2>2. UNCHANGED <<m_live_lookup, asked>>
    BY <1>2 DEF StartNative, NoChange
  <2>3. \/ native' = [pc |-> "hook"]
        \/ ServeShape(native') /\ native'.pc = "serve" /\ native'.watched = FALSE
    BY <1>2 DEF StartNative, Serve, ServeShape
  <2>4. native'.pc = "hook" => native' # None /\ native'.pc # "serve"
    BY DEF None
  <2>5. QED BY <2>1, <2>2, <2>3, <2>4 DEF WatchInv, None
<1>3. ASSUME ReturnFromHook PROVE WatchInv'
  <2>1. native # None /\ native.pc = "hook" /\ access' = access /\ asked' = asked
    BY <1>3 DEF ReturnFromHook
  <2>2. access # None /\ access.dir \in Directions /\ m_live_lookup = asked
    BY <2>1 DEF WatchInv
  <2>3. /\ ServeShape(native') /\ native' # None /\ native'.pc = "serve"
        /\ native'.watched = TRUE /\ native'.oldtable = m_live_lookup[access.dir]
    BY <1>3 DEF ReturnFromHook, Serve, ServeShape, None
  <2>4. m_live_lookup' = [m_live_lookup EXCEPT ![access.dir] = "table"]
    BY <1>3 DEF ReturnFromHook
  <2>5. m_live_lookup' \in [Directions -> LiveTables]
    BY <2>2, <2>4 DEF WatchInv, LiveTables
  <2>6. QED BY <2>1, <2>2, <2>3, <2>4, <2>5 DEF WatchInv
<1>4. ASSUME CallDelegate PROVE WatchInv'
  <2>1. native # None /\ native.pc = "serve" /\ ServeShape(native) /\ access' = access
    BY <1>4 DEF CallDelegate, WatchInv
  <2>2. /\ ServeShape(native') /\ native' # None /\ native'.pc = "serve"
        /\ native'.watched = native.watched /\ native'.oldtable = native.oldtable
    BY <1>4, <2>1 DEF CallDelegate, ServeShape, None
  <2>3. (UNCHANGED <<m_live_lookup, asked>>) \/ Change
    BY <1>4 DEF CallDelegate, NoChange
  <2>4. CASE UNCHANGED <<m_live_lookup, asked>>
    BY <2>1, <2>2, <2>4 DEF WatchInv
  <2>5. CASE Change
    BY <2>1, <2>2, <2>5, ChangeWatch DEF WatchInv
  <2>6. QED BY <2>3, <2>4, <2>5
<1>5. ASSUME EndNative PROVE WatchInv'
  <2>1. native # None /\ native.pc = "serve" /\ native' = None /\ asked' = asked
    BY <1>5 DEF EndNative
  <2>2. access # None /\ access.dir \in Directions
    BY <2>1 DEF WatchInv
  <2>3. m_live_lookup' = asked
    <3>1. CASE native.watched = TRUE
      <4>1. m_live_lookup' = [m_live_lookup EXCEPT ![access.dir] = asked[access.dir]]
        BY <1>5, <2>1, <3>1 DEF EndNative, WatchInv
      <4>2. QED BY <2>1, <2>2, <3>1, <4>1 DEF WatchInv
    <3>2. CASE ~native.watched
      BY <1>5, <2>1, <3>2 DEF EndNative, WatchInv
    <3>3. QED BY <3>1, <3>2
  <2>4. access' = None \/ access' = [access EXCEPT !.todo = Tail(@)]
    BY <1>5 DEF EndNative
  <2>5. access' # None => access' = [pc |-> "busy", dir |-> access'.dir, todo |-> access'.todo]
                          /\ access'.dir \in Directions
    BY <2>2, <2>4 DEF WatchInv
  <2>6. QED BY <2>1, <2>3, <2>5 DEF WatchInv
<1>6. ASSUME ChangeOutside PROVE WatchInv'
  <2>1. Change /\ UNCHANGED <<access, native>>
    BY <1>6 DEF ChangeOutside
  <2>2. QED BY <2>1, ChangeWatch DEF WatchInv
<1>7. ASSUME UNCHANGED vars PROVE WatchInv'
  BY <1>7 DEF vars, WatchInv
<1>8. QED BY <1>1, <1>2, <1>3, <1>4, <1>5, <1>6, <1>7 DEF Next

(* Between accesses the table that is live is the one asked for last,      *)
(* whatever the hook and the handlers asked for meanwhile: the restoring   *)
(* of watchpoint_r and watchpoint_w loses nothing else.                    *)
THEOREM WatchpointsHold == Spec => []WatchpointsAsAsked
<1>1. WatchInv => WatchpointsAsAsked
  BY DEF WatchInv, Nested, InWatched, Serving, InNative, Idle, WatchpointsAsAsked
<1>2. QED BY <1>1, WatchInit, WatchStep, PTL DEF Spec

---------------------------------------------------------------------------------
(* The accessors.  A native access is Native of a row; those an access     *)
(* makes are the rows from that of its address on, and the shift changes   *)
(* by the width of a row from one to the next.                             *)

RowCount == 2^AddrBits \div W

(* The rows are as many as their number, and fill the space.               *)
LEMMA RowsFill ==
  /\ 2^AddrBits \in Nat \ {0} /\ RowCount \in Nat \ {0} /\ W * RowCount = 2^AddrBits
  /\ Rows = 0 .. (RowCount - 1) /\ IsFiniteSet(Rows) /\ Cardinality(Rows) = RowCount
<1>1. AddrBits \in Nat \ {0} /\ W \in {1, 2, 4, 8} /\ W <= 2^AddrBits
  BY AddrBitsAssumption, WidthAssumption
<1>2. 2^AddrBits \in Nat \ {0}
  BY <1>1, PowersOfTwo
<1>3. PICK q \in Nat \ {0} : 2^AddrBits = W * q
  <2> DEFINE p == 2^(AddrBits - 1)
  <2>1. p \in Nat \ {0} /\ 2^AddrBits = 2 * p
    <3>1. AddrBits - 1 \in Nat /\ (AddrBits - 1) + 1 = AddrBits
      BY <1>1
    <3>2. QED BY <3>1, PowersOfTwo
  <2>2. CASE AddrBits = 1
    <3>1. p = 1
      BY <2>2, PowersOfTwo
    <3> HIDE DEF p
    <3>2. (W = 1 /\ 2^AddrBits = W * 2) \/ (W = 2 /\ 2^AddrBits = W * 1)
      BY <1>1, <2>1, <3>1
    <3>3. QED BY <3>2
  <2>3. CASE AddrBits # 1
    <3> DEFINE s == 2^((AddrBits - 1) - 1)
    <3>1. s \in Nat \ {0} /\ p = 2 * s
      <4>1. (AddrBits - 1) - 1 \in Nat /\ ((AddrBits - 1) - 1) + 1 = AddrBits - 1
        BY <1>1, <2>3
      <4>2. QED BY <4>1, PowersOfTwo
    <3>2. CASE AddrBits = 2
      <4>1. s = 1
        BY <3>2, PowersOfTwo
      <4> HIDE DEF p, s
      <4>2. \/ W = 1 /\ 2^AddrBits = W * 4
            \/ W = 2 /\ 2^AddrBits = W * 2
            \/ W = 4 /\ 2^AddrBits = W * 1
        BY <1>1, <2>1, <3>1, <4>1
      <4>3. QED BY <4>2
    <3>3. CASE AddrBits # 2
      <4> DEFINE z == 2^(((AddrBits - 1) - 1) - 1)
      <4>1. z \in Nat \ {0} /\ s = 2 * z
        <5>1. /\ ((AddrBits - 1) - 1) - 1 \in Nat
              /\ (((AddrBits - 1) - 1) - 1) + 1 = (AddrBits - 1) - 1
          BY <1>1, <2>3, <3>3
        <5>2. QED BY <5>1, PowersOfTwo
      <4> HIDE DEF p, s, z
      <4>2. 2^AddrBits = 8 * z
        BY <2>1, <3>1, <4>1
      <4>3. \/ W = 1 /\ 2^AddrBits = W * (8 * z)
            \/ W = 2 /\ 2^AddrBits = W * (4 * z)
            \/ W = 4 /\ 2^AddrBits = W * (2 * z)
            \/ W = 8 /\ 2^AddrBits = W * z
        BY <1>1, <4>1, <4>2
      <4>4. 8 * z \in Nat \ {0} /\ 4 * z \in Nat \ {0} /\ 2 * z \in Nat \ {0}
        BY <4>1
      <4>5. QED BY <4>1, <4>3, <4>4
    <3>4. QED BY <3>2, <3>3
  <2>4. QED BY <2>2, <2>3
<1>4. RowCount = q
  <2>1. \A w \in {1, 2, 4, 8} : (w * q) \div w = q
    OBVIOUS
  <2>2. QED BY <1>1, <1>3, <2>1 DEF RowCount
<1>5. Rows = 0 .. (RowCount - 1)
  BY DEF Rows, RowCount
<1>6. IsFiniteSet(0 .. (q - 1)) /\ Cardinality(0 .. (q - 1)) = q
  <2>1. 0 \in Int /\ q - 1 \in Int /\ 0 <= q - 1 + 1 /\ (q - 1) - 0 + 1 = q
    OBVIOUS
  <2>2. QED BY <2>1, FS_Interval
<1>7. QED BY <1>2, <1>3, <1>4, <1>5, <1>6

(* What is left of a row when the rows wrap at the end of the space.       *)
LEMMA RowsWrap ==
  ASSUME NEW m \in Nat, NEW j \in 0 .. (W - 1)
  PROVE  /\ m % Cardinality(Rows) \in Rows
         /\ (m % Cardinality(Rows)) * W + j = (m * W + j) % 2^AddrBits
<1> DEFINE q == RowCount
           r == m % q
           d == m \div q
<1>1. q \in Nat \ {0} /\ W * q = 2^AddrBits /\ Rows = 0 .. (q - 1) /\ Cardinality(Rows) = q
  BY RowsFill
<1>2. W \in {1, 2, 4, 8}
  BY WidthAssumption
<1> HIDE DEF q
<1>3. r \in 0 .. (q - 1) /\ d \in Nat /\ m = q * d + r
  BY <1>1
<1> HIDE DEF r, d
<1>4. r * W + j \in 0 .. (W * q - 1)
  <2>1. \A w \in {1, 2, 4, 8} : \A i \in 0 .. (w - 1) : r * w + i \in 0 .. (w * q - 1)
    BY <1>1, <1>3
  <2>2. QED BY <1>2, <2>1
<1>5. m * W + j = d * (W * q) + (r * W + j)
  <2>1. q * d \in Nat
    BY <1>1, <1>3
  <2>2. d * (W * q) = W * (q * d)
    BY <1>1, <1>2, <1>3
  <2> DEFINE e == q * d
  <2>3. e \in Nat /\ m = e + r
    BY <1>3, <2>1
  <2> HIDE DEF e
  <2>4. \A w \in {1, 2, 4, 8} : (e + r) * w = w * e + r * w
    BY <1>3, <2>3
  <2>5. m * W = W * e + r * W
    BY <1>2, <2>3, <2>4
  <2>6. W * e \in Nat /\ r * W \in Nat
    BY <1>2, <1>3, <2>3
  <2>7. QED BY <2>2, <2>5, <2>6 DEF e
<1>6. (m * W + j) % (W * q) = r * W + j
  <2> DEFINE n == W * q
             x == r * W + j
  <2>1. n \in Nat \ {0} /\ x \in 0 .. (n - 1)
    BY <1>1, <1>4, RowsFill
  <2> HIDE DEF n, x
  <2>2. (d * n + x) % n = x
    BY <1>3, <2>1, DivisionIsUnique
  <2>3. QED BY <1>5, <2>2 DEF n, x
<1>7. r \in Rows
  BY <1>1, <1>3
<1>8. QED BY <1>1, <1>6, <1>7 DEF r

(* Where the byte t of the target lies in the rows from that of the        *)
(* address on, and the native access of row k of these.                    *)
From(a)      == a.address % W
Place(a, t)  == From(a) + (IF big THEN a.bytes - 1 - t ELSE t)
Shift(a, k)  == (IF big THEN W - a.bytes - From(a) ELSE From(a)) + k * (IF big THEN W ELSE 0 - W)
RowOf(a, k)  == Native(Row(a.address) + k, Shift(a, k), a.mask)

(* The row an address is in, as a quotient.                                *)
LEMMA QuotientIs ==
  ASSUME NEW p \in Nat, NEW k \in Nat
  PROVE  p - k * W \in 0 .. (W - 1) <=> k = p \div W
<1>1. \A w \in {1, 2, 4, 8} : p - k * w \in 0 .. (w - 1) <=> k = p \div w
  OBVIOUS
<1>2. QED BY <1>1, WidthAssumption

(* An access is for at least one of at most eight bytes, from a lane of a  *)
(* row on.                                                                 *)
LEMMA AccessNumbers ==
  ASSUME NEW a, IsAccess(a), a.address \in Addresses
  PROVE  /\ a.address \in Nat /\ a.bytes \in {1, 2, 4, 8} /\ From(a) \in 0 .. (W - 1)
         /\ Row(a.address) \in Nat /\ a.address = Row(a.address) * W + From(a)
         /\ a.mask \subseteq 0 .. (a.bytes - 1) /\ a.mask # {}
<1>1. a.address \in Nat
  BY RowsFill DEF Addresses
<1>2. W \in Nat /\ W # 0
  BY WidthAssumption
<1>3. /\ a.address \div W \in Nat /\ a.address % W \in 0 .. (W - 1)
      /\ a.address = (a.address \div W) * W + (a.address % W)
  BY <1>1, <1>2, Division
<1>4. QED BY <1>1, <1>3 DEF IsAccess, Row, From

(* Byte t comes to a lane of one row, the one it lies in, and that lane is *)
(* at the address of the byte.                                             *)
LEMMA ByteLiesInRow ==
  ASSUME NEW a, IsAccess(a), a.address \in Addresses, big \in BOOLEAN,
         NEW t \in 0 .. (a.bytes - 1), NEW k \in Nat
  PROVE  /\ Place(a, t) \in Nat
         /\ t + Shift(a, k) \in AllLanes <=> k = Place(a, t) \div W
         /\ t + Shift(a, k) \in AllLanes =>
              ByteOfLane(RowOf(a, k), t + Shift(a, k)) = ByteOf(a, t)
<1> DEFINE n == a.bytes
           f == From(a)
           s == Shift(a, k)
           p == Place(a, t)
           l == t + s
           j == p - k * W
           m == Row(a.address)
<1>1. /\ a.address \in Nat /\ n \in {1, 2, 4, 8} /\ f \in 0 .. (W - 1) /\ m \in Nat
      /\ a.address = m * W + f
  BY AccessNumbers
<1>2. W \in {1, 2, 4, 8}
  BY WidthAssumption
<1>3. k * W \in Nat /\ m * W \in Nat /\ k * (0 - W) = 0 - k * W /\ (m + k) * W = m * W + k * W
  <2>1. \A w \in {1, 2, 4, 8} :
          /\ k * w \in Nat /\ m * w \in Nat /\ k * (0 - w) = 0 - k * w
          /\ (m + k) * w = m * w + k * w
    BY <1>1
  <2>2. QED BY <1>2, <2>1
<1> DEFINE kw == k * W
           mw == m * W
           off == IF big THEN n - 1 - t ELSE t
<1>4. off \in Nat /\ p = f + off
  BY <1>1 DEF Place
<1>5. p \in Nat
  BY <1>1, <1>2, <1>4
<1>6. l = IF big THEN W - 1 - j ELSE j
  <2>1. s = IF big THEN W - n - f + kw ELSE f - kw
    <3>1. CASE big
      BY <1>3, <3>1 DEF Shift
    <3>2. CASE ~big
      <4>1. s = f + k * (0 - W)
        BY <3>2 DEF Shift
      <4> HIDE DEF s, f
      <4>2. QED BY <1>1, <1>2, <1>3, <3>2, <4>1
    <3>3. QED BY <3>1, <3>2
  <2> HIDE DEF s, n, f, p
  <2>2. kw \in Nat
    BY <1>3
  <2>3. j = p - kw
    OBVIOUS
  <2> HIDE DEF kw, j
  <2>4. CASE big
    BY <1>1, <1>2, <1>4, <2>1, <2>2, <2>3, <2>4
  <2>5. CASE ~big
    BY <1>1, <1>2, <1>4, <2>1, <2>2, <2>3, <2>5
  <2>6. QED BY <2>4, <2>5
<1>7. l \in 0 .. (W - 1) <=> j \in 0 .. (W - 1)
  <2>1. j \in Int
    BY <1>2, <1>3, <1>5
  <2> HIDE DEF l, j
  <2>2. QED BY <1>2, <1>6, <2>1
<1>8. l \in AllLanes <=> k = p \div W
  <2>1. j \in 0 .. (W - 1) <=> k = p \div W
    BY <1>5, QuotientIs
  <2>2. QED BY <1>7, <2>1 DEF AllLanes
<1>9. ASSUME l \in AllLanes PROVE ByteOfLane(RowOf(a, k), l) = ByteOf(a, t)
  <2>1. j \in 0 .. (W - 1)
    BY <1>7, <1>9 DEF AllLanes
  <2>2. (IF big THEN W - 1 - l ELSE l) = j
    <3> HIDE DEF l, j
    <3>1. QED BY <1>2, <1>6, <2>1
  <2>3. ByteOfLane(RowOf(a, k), l) = ((m + k) % Cardinality(Rows)) * W + j
    <3>1. RowOf(a, k).row = (m + k) % Cardinality(Rows)
      BY DEF RowOf, Native
    <3> HIDE DEF l, j, m
    <3>2. QED BY <2>2, <3>1 DEF ByteOfLane
  <2>4. ((m + k) % Cardinality(Rows)) * W + j = ((m + k) * W + j) % 2^AddrBits
    <3>1. m + k \in Nat
      BY <1>1
    <3> HIDE DEF m, j
    <3>2. QED BY <2>1, <3>1, RowsWrap
  <2>5. (m + k) * W + j = a.address + off
    <3>1. j = p - kw /\ kw \in Nat /\ mw \in Nat /\ (m + k) * W = mw + kw /\ a.address = mw + f
      BY <1>1, <1>3
    <3> HIDE DEF j, kw, mw, m, f, p, off
    <3>2. QED BY <1>1, <1>2, <1>4, <1>5, <3>1
  <2>6. QED BY <2>3, <2>4, <2>5 DEF ByteOf
<1>10. QED BY <1>5, <1>8, <1>9

(* The native accesses that reach a byte of the row are those of m rows.   *)
RowsAre(a, m, natives, o) ==
  /\ o \in [1 .. Len(natives) -> 0 .. (m - 1)]
  /\ \A i \in 1 .. Len(natives) : natives[i] = RowOf(a, o[i])
  /\ \A i, j \in 1 .. Len(natives) : o[i] = o[j] => i = j
  /\ \A k \in 0 .. (m - 1) :
       RowOf(a, k).lanes # {} => \E i \in 1 .. Len(natives) : o[i] = k

(* Those of enough rows split the access as they should.                   *)
LEMMA EnoughRows ==
  ASSUME NEW a, IsAccess(a), a.address \in Addresses, big \in BOOLEAN, NEW m \in Nat \ {0},
         \A t \in 0 .. (a.bytes - 1) : Place(a, t) \div W < m,
         NEW T, NEW natives \in Seq(T), NEW o, RowsAre(a, m, natives, o)
  PROVE  SplitsExactly(a, natives)
<1> DEFINE D == DOMAIN natives
<1>1. D = 1 .. Len(natives) /\ Len(natives) \in Nat /\ IsFiniteSet(D)
  <2>1. D = 1 .. Len(natives) /\ Len(natives) \in Nat
    OBVIOUS
  <2>2. 1 \in Int /\ Len(natives) \in Int
    BY <2>1
  <2>3. QED BY <2>1, <2>2, FS_Interval
<1>2. \A i \in D : natives[i].shift = Shift(a, o[i]) /\ natives[i] = RowOf(a, o[i]) /\ o[i] \in Nat
                   /\ natives[i].lanes = {t + Shift(a, o[i]) : t \in a.mask} \cap AllLanes
  BY <1>1 DEF RowsAre, RowOf, Native
<1>3. a.mask \subseteq 0 .. (a.bytes - 1) /\ a.bytes \in Nat
  BY AccessNumbers
<1>4. ASSUME NEW t \in 0 .. (a.bytes - 1)
      PROVE  LET of == {k \in D : Feeds(natives[k], t)}
             IN  /\ Cardinality(of) <= 1
                 /\ t \in a.mask =>
                      \E k \in of : /\ t + natives[k].shift \in natives[k].lanes
                                    /\ ByteOfLane(natives[k], t + natives[k].shift) = ByteOf(a, t)
  <2> DEFINE of == {k \in D : Feeds(natives[k], t)}
             q  == Place(a, t) \div W
  <2>1. \A i \in of : o[i] = q
    BY <1>2, ByteLiesInRow DEF Feeds
  <2>2. \A i, j \in of : i = j
    BY <1>1, <2>1 DEF RowsAre
  <2>3. Cardinality(of) <= 1
    <3>1. ASSUME of = {} PROVE Cardinality(of) <= 1
      <4>1. Cardinality(of) = 0
        BY <3>1, FS_EmptySet
      <4> HIDE DEF of
      <4>2. QED BY <4>1
    <3>2. ASSUME NEW i \in of PROVE Cardinality(of) = 1
      <4>1. of = {i}
        BY <2>2
      <4> HIDE DEF of
      <4>2. QED BY <4>1, FS_Singleton
    <3> HIDE DEF of
    <3>3. QED BY <3>1, <3>2
  <2>4. ASSUME t \in a.mask
        PROVE  \E k \in of : /\ t + natives[k].shift \in natives[k].lanes
                             /\ ByteOfLane(natives[k], t + natives[k].shift) = ByteOf(a, t)
    <3>1. q \in Nat /\ q \in 0 .. (m - 1)
      <4>1. Place(a, t) \in Nat /\ W \in Nat /\ W # 0
        BY ByteLiesInRow, WidthAssumption
      <4>2. q \in Nat /\ q < m
        BY <4>1, Division
      <4> HIDE DEF q
      <4>3. QED BY <4>2
    <3>2. t + Shift(a, q) \in AllLanes
      BY <3>1, ByteLiesInRow
    <3>3. RowOf(a, q).lanes # {}
      BY <2>4, <3>2 DEF RowOf, Native
    <3>4. PICK i \in D : o[i] = q
      BY <1>1, <3>1, <3>3 DEF RowsAre
    <3>5. i \in of /\ t + natives[i].shift \in natives[i].lanes
      BY <1>2, <2>4, <3>2, <3>4 DEF Feeds
    <3>6. ByteOfLane(natives[i], t + natives[i].shift) = ByteOf(a, t)
      <4>1. natives[i] = RowOf(a, q) /\ natives[i].shift = Shift(a, q)
        BY <1>2, <3>4
      <4>2. ByteOfLane(RowOf(a, q), t + Shift(a, q)) = ByteOf(a, t)
        BY <3>1, <3>2, ByteLiesInRow
      <4>3. QED BY <4>1, <4>2
    <3>7. QED BY <3>5, <3>6
  <2>5. QED BY <2>3, <2>4
<1>5. ASSUME NEW k \in D, NEW l \in natives[k].lanes PROVE l - natives[k].shift \in a.mask
  <2>1. PICK t \in a.mask : l = t + Shift(a, o[k])
    BY <1>2
  <2>2. Shift(a, o[k]) \in Int
    <3>1. W \in Int /\ From(a) \in Int /\ a.bytes \in Int /\ o[k] \in Int
      BY <1>2, AccessNumbers, WidthAssumption
    <3>2. o[k] * W \in Int /\ o[k] * (0 - W) \in Int
      BY <3>1
    <3>3. QED BY <3>1, <3>2 DEF Shift
  <2>3. t \in Int
    BY <1>3
  <2>4. l - natives[k].shift = t
    BY <1>2, <2>1, <2>2, <2>3
  <2>5. QED BY <2>4
<1>6. QED BY <1>4, <1>5 DEF SplitsExactly

NativeAccesses == [row : Rows, shift : Int, lanes : SUBSET AllLanes]

(* What an access asks of one row is a native access.                      *)
LEMMA RowIsNative ==
  ASSUME NEW a, IsAccess(a), a.address \in Addresses, big \in BOOLEAN, NEW k \in Nat
  PROVE  RowOf(a, k) \in NativeAccesses
<1>1. /\ From(a) \in Int /\ a.bytes \in Int /\ W \in Int /\ W # 0 /\ Row(a.address) + k \in Nat
      /\ k * W \in Int /\ k * (0 - W) \in Int
  BY AccessNumbers, WidthAssumption
<1>2. Shift(a, k) \in Int
  BY <1>1 DEF Shift
<1>3. 0 \in 0 .. (W - 1)
  BY WidthAssumption
<1>4. (Row(a.address) + k) % Cardinality(Rows) \in Rows
  BY <1>1, <1>3, RowsWrap
<1>5. QED BY <1>2, <1>4 DEF RowOf, Native, NativeAccesses

(* Only rows that are touched are accessed.                                *)
LEMMA TouchingRows ==
  ASSUME NEW a, IsAccess(a), a.address \in Addresses, big \in BOOLEAN, NEW m \in Nat \ {0},
         NEW rows, rows = [k \in 1 .. m |-> RowOf(a, k - 1)]
  PROVE  Touching(rows) \in Seq(NativeAccesses) /\ \E o : RowsAre(a, m, Touching(rows), o)
<1> DEFINE S == {n \in ToSet(rows) : n.lanes # {}}
           w == Keep(rows, S)
<1>1. \A k \in 1 .. m : k - 1 \in Nat /\ rows[k] = RowOf(a, k - 1) /\ rows[k] \in NativeAccesses
  BY RowIsNative
<1>2. rows \in Seq(NativeAccesses) /\ Len(rows) = m /\ DOMAIN rows = 1 .. m
  <2>1. rows \in [1 .. m -> NativeAccesses]
    BY <1>1
  <2>2. QED BY <2>1
<1>3. w \in Seq(NativeAccesses) /\ w = Touching(rows)
  BY <1>2, KeepIs DEF Touching
<1>4. PICK o : Picks(rows, S, m, w, o)
  BY <1>2, KeepIs
<1> DEFINE q == [i \in 1 .. Len(w) |-> o[i] - 1]
<1> HIDE DEF w, S
<1>5. \A i \in 1 .. Len(w) : o[i] \in 1 .. m /\ q[i] = o[i] - 1 /\ q[i] \in 0 .. (m - 1) /\ w[i] = rows[o[i]]
  <2>1. \A i \in 1 .. Len(w) : o[i] \in 1 .. m /\ w[i] = rows[o[i]]
    BY <1>4 DEF Picks
  <2>2. \A x \in 1 .. m : x - 1 \in 0 .. (m - 1)
    OBVIOUS
  <2>3. QED BY <2>1, <2>2
<1>6. q \in [1 .. Len(w) -> 0 .. (m - 1)]
  BY <1>5
<1> HIDE DEF q
<1>7. \A i \in 1 .. Len(w) : w[i] = RowOf(a, q[i])
  BY <1>1, <1>5
<1>8. \A i, j \in 1 .. Len(w) : q[i] = q[j] => i = j
  <2> TAKE i, j \in 1 .. Len(w)
  <2>1. q[i] = q[j] => o[i] = o[j]
    BY <1>5
  <2>2. o[i] = o[j] => ~(i < j) /\ ~(j < i)
    <3>1. o[i] \in Nat /\ o[j] \in Nat
      BY <1>5
    <3>2. (i < j => o[i] < o[j]) /\ (j < i => o[j] < o[i])
      BY <1>4 DEF Picks
    <3>3. QED BY <3>1, <3>2
  <2>3. Len(w) \in Nat
    BY <1>3
  <2>4. QED BY <2>1, <2>2, <2>3
<1>9. ASSUME NEW k \in 0 .. (m - 1), RowOf(a, k).lanes # {}
      PROVE  \E i \in 1 .. Len(w) : q[i] = k
  <2>1. k + 1 \in 1 .. m /\ (k + 1) - 1 = k
    OBVIOUS
  <2>2. rows[k + 1] = RowOf(a, k)
    BY <1>1, <2>1
  <2>3. rows[k + 1] \in S
    BY <1>2, <1>9, <2>1, <2>2 DEF ToSet, S
  <2>4. PICK i \in 1 .. Len(w) : o[i] = k + 1
    BY <1>4, <2>1, <2>3 DEF Picks
  <2>5. QED BY <1>5, <2>1, <2>4
<1>10. RowsAre(a, m, w, q)
  BY <1>6, <1>7, <1>8, <1>9 DEF RowsAre
<1>11. QED BY <1>3, <1>10

(* An aligned address is at the start of a unit of its width in the row.   *)
LEMMA AlignedInRow ==
  ASSUME NEW a, IsAccess(a), a.address \in Addresses, a.aligned
  PROVE  /\ a.address % a.bytes = 0
         /\ a.bytes <= W => From(a) + a.bytes <= W
         /\ a.bytes > W => From(a) = 0
<1>1. a.address % a.bytes = 0
  BY DEF IsAccess
<1>2. a.address \in Nat /\ a.bytes \in {1, 2, 4, 8} /\ W \in {1, 2, 4, 8}
  BY AccessNumbers, WidthAssumption
<1>3. \A x \in Nat, n, w \in {1, 2, 4, 8} :
        x % n = 0 => (n <= w => (x % w) + n <= w) /\ (n > w => x % w = 0)
  OBVIOUS
<1>4. QED BY <1>1, <1>2, <1>3 DEF From

(* Every access is made of native ones, at least one, that split it.       *)
LEMMA AccessSplits ==
  ASSUME NEW a, IsAccess(a), a.address \in Addresses, big \in BOOLEAN
  PROVE  /\ read_direct(a) \in Seq(NativeAccesses) /\ read_direct(a) # <<>>
         /\ SplitsExactly(a, read_direct(a))
<1> DEFINE n == a.bytes
           f == From(a)
           m == Row(a.address)
<1>1. /\ n \in {1, 2, 4, 8} /\ f \in 0 .. (W - 1) /\ m \in Nat /\ W \in {1, 2, 4, 8}
      /\ a.mask \subseteq 0 .. (n - 1) /\ a.mask # {} /\ f = a.address % W
  BY AccessNumbers, WidthAssumption DEF From
<1>2. ASSUME NEW t \in 0 .. (n - 1)
      PROVE  Place(a, t) \in 0 .. (f + n - 1)
  <2>1. (IF big THEN n - 1 - t ELSE t) \in 0 .. (n - 1)
    BY <1>1
  <2> HIDE DEF n, f
  <2>2. QED BY <1>1, <2>1 DEF Place, n, f
<1>3. ASSUME NEW natives, NEW c \in Nat \ {0}, NEW o, natives \in Seq(NativeAccesses),
             RowsAre(a, c, natives, o), f + n <= c * W
      PROVE  natives # <<>> /\ SplitsExactly(a, natives)
  <2>1. \A t \in 0 .. (n - 1) : Place(a, t) \div W < c
    <3>1. \A w \in {1, 2, 4, 8}, p \in Nat : p < c * w => p \div w < c
      OBVIOUS
    <3>2. c * W \in Nat
      BY <1>1
    <3> HIDE DEF n, f
    <3>3. ASSUME NEW t \in 0 .. (n - 1) PROVE Place(a, t) < c * W /\ Place(a, t) \in Nat
      <4> DEFINE cw == c * W
      <4>1. cw \in Nat /\ f + n <= cw
        BY <1>3, <3>2
      <4>2. f \in Nat /\ n \in Nat /\ Place(a, t) \in 0 .. (f + n - 1)
        BY <1>1, <1>2
      <4> HIDE DEF cw
      <4>3. Place(a, t) < cw /\ Place(a, t) \in Nat
        BY <4>1, <4>2
      <4>4. QED BY <4>3 DEF cw
    <3>4. QED BY <1>1, <3>1, <3>3
  <2>2. SplitsExactly(a, natives)
    BY <1>3, <2>1, EnoughRows
  <2>3. PICK t \in a.mask : t \in 0 .. (n - 1)
    BY <1>1
  <2>4. \E k \in DOMAIN natives : TRUE
    BY <2>2, <2>3 DEF SplitsExactly
  <2>5. QED BY <2>2, <2>4
<1>4. CASE FitsOneRow(a)
  <2> DEFINE d == IF a.aligned THEN (a.address % W) - (a.address % n) ELSE a.address % W
  <2>1. d = f /\ f + n <= W
    <3>1. CASE a.aligned /\ n <= W
      BY <1>1, <3>1, AlignedInRow DEF From
    <3>2. CASE a.aligned /\ n > W
      BY <1>1, <1>4, <3>2 DEF FitsOneRow
    <3>3. CASE ~a.aligned
      BY <1>1, <1>4, <3>3 DEF FitsOneRow
    <3>4. QED BY <1>1, <3>1, <3>2, <3>3
  <2>2. OneRowAccess(a) = <<RowOf(a, 0)>>
    <3>1. Shift(a, 0) = IF big THEN W - n - d ELSE d
      <4>1. 0 * W = 0 /\ 0 * (0 - W) = 0
        BY <1>1
      <4>2. From(a) = d /\ From(a) \in Int /\ W - a.bytes - From(a) \in Int
        BY <1>1, <2>1
      <4> HIDE DEF d
      <4>3. QED BY <4>1, <4>2 DEF Shift
    <3>2. m + 0 = m
      BY <1>1
    <3> HIDE DEF m
    <3>3. QED BY <3>1, <3>2 DEF OneRowAccess, RowOf, m
  <2> DEFINE o == [i \in 1 .. 1 |-> 0]
  <2>3. <<RowOf(a, 0)>> \in Seq(NativeAccesses)
    BY RowIsNative
  <2>4. RowsAre(a, 1, <<RowOf(a, 0)>>, o)
    <3>1. Len(<<RowOf(a, 0)>>) = 1 /\ <<RowOf(a, 0)>>[1] = RowOf(a, 0) /\ 0 .. (1 - 1) = {0}
          /\ 1 .. 1 = {1}
      OBVIOUS
    <3>2. QED BY <3>1 DEF RowsAre
  <2>5. f + n <= 1 * W
    BY <1>1, <2>1
  <2> HIDE DEF o, f, n
  <2>6. read_direct(a) = <<RowOf(a, 0)>>
    BY <1>4, <2>2 DEF read_direct
  <2>7. PICK c \in Nat \ {0} : c = 1
    OBVIOUS
  <2>8. <<RowOf(a, 0)>> # <<>> /\ SplitsExactly(a, <<RowOf(a, 0)>>)
    BY <1>3, <2>3, <2>4, <2>5, <2>7
  <2>9. QED BY <2>3, <2>6, <2>8
<1>5. CASE ~FitsOneRow(a) /\ n <= W
  <2> DEFINE rows == [k \in 1 .. 2 |-> RowOf(a, k - 1)]
             first == IF big THEN (W - a.bytes) - f ELSE f
  <2>1. TwoRows(a) = Touching(rows)
    <3>1. /\ Shift(a, 0) = first
          /\ Shift(a, 1) = IF big THEN first + W ELSE first - W
      <4>1. 0 * W = 0 /\ 0 * (0 - W) = 0 /\ 1 * W = W /\ 1 * (0 - W) = 0 - W
        BY <1>1
      <4>2. QED BY <1>1, <4>1 DEF Shift
    <3>2. m + 0 = m
      BY <1>1
    <3>3. rows = <<RowOf(a, 0), RowOf(a, 1)>>
      <4>1. 1 .. 2 = {1, 2} /\ 1 - 1 = 0 /\ 2 - 1 = 1
        OBVIOUS
      <4>2. QED BY <4>1
    <3>4. RowOf(a, 0) = Native(m, first, a.mask)
      BY <3>1, <3>2 DEF RowOf
    <3>5. RowOf(a, 1) = Native(m + 1, IF big THEN first + W ELSE first - W, a.mask)
      BY <3>1 DEF RowOf
    <3> HIDE DEF rows, m
    <3>6. QED BY <3>3, <3>4, <3>5 DEF TwoRows, m, From
  <2>2. read_direct(a) = Touching(rows)
    BY <1>5, <2>1 DEF read_direct
  <2>3. f + n <= 2 * W
    BY <1>1, <1>5
  <2>4. PICK c \in Nat \ {0} : c = 2
    OBVIOUS
  <2>5. rows = [k \in 1 .. c |-> RowOf(a, k - 1)] /\ f + n <= c * W
    BY <2>3, <2>4
  <2> HIDE DEF rows, f, n
  <2>6. Touching(rows) \in Seq(NativeAccesses) /\ \E o : RowsAre(a, c, Touching(rows), o)
    BY <2>5, TouchingRows
  <2>7. QED BY <1>3, <2>2, <2>5, <2>6
<1>6. CASE ~FitsOneRow(a) /\ n > W
  <2> DEFINE last == IF ~a.aligned /\ f # 0 THEN n \div W ELSE n \div W - 1
             c    == last + 1
             rows == [k \in 1 .. c |-> RowOf(a, k - 1)]
             first == IF big THEN 0 - (n - (W - f)) ELSE f
             step == IF big THEN W ELSE 0 - W
  <2>1. c \in Nat \ {0} /\ f + n <= c * W
    <3>1. n \div W \in Nat /\ n = (n \div W) * W /\ n \div W # 0
      BY <1>1, <1>6
    <3>2. CASE ~a.aligned /\ f # 0
      <4>1. c = n \div W + 1
        BY <3>2
      <4> DEFINE e == n \div W
      <4>2. (e + 1) * W = e * W + W
        BY <1>1, <3>1
      <4> HIDE DEF e
      <4>3. QED BY <1>1, <3>1, <4>1, <4>2 DEF e
    <3>3. CASE ~(~a.aligned /\ f # 0)
      <4>1. f = 0
        BY <1>6, <3>3, AlignedInRow
      <4>2. c = n \div W
        BY <3>1, <3>3
      <4>3. QED BY <1>1, <3>1, <4>1, <4>2
    <3>4. QED BY <3>2, <3>3
  <2>2. ManyRows(a) = Touching(rows)
    <3>1. ASSUME NEW k \in 1 .. c
          PROVE  RowOf(a, k - 1) = Native(m + k - 1, first + (k - 1) * step, a.mask)
      <4>1. k \in Nat /\ k - 1 \in Nat /\ m + k - 1 = m + (k - 1)
        BY <1>1, <2>1
      <4>2. Shift(a, k - 1) = first + (k - 1) * step
        <5>1. first = IF big THEN W - n - f ELSE f
          BY <1>1
        <5> HIDE DEF n, f, first
        <5>2. QED BY <5>1 DEF Shift, n, f
      <4> HIDE DEF m, c, first, step
      <4>3. QED BY <4>1, <4>2 DEF RowOf, m
    <3>2. rows = [k \in 1 .. c |-> Native(m + k - 1, first + (k - 1) * step, a.mask)]
      <4> DEFINE X(k) == RowOf(a, k - 1)
                 Y(k) == Native(m + k - 1, first + (k - 1) * step, a.mask)
      <4>1. \A k \in 1 .. c : X(k) = Y(k)
        BY <3>1
      <4> HIDE DEF X, Y, c
      <4>2. [k \in 1 .. c |-> X(k)] = [k \in 1 .. c |-> Y(k)]
        BY <4>1
      <4>3. QED BY <4>2 DEF X, Y
    <3>3. ManyRows(a) = Touching([k \in 1 .. c |-> Native(m + k - 1, first + (k - 1) * step, a.mask)])
      BY DEF ManyRows, From
    <3>4. QED BY <3>2, <3>3
  <2>3. read_direct(a) = Touching(rows)
    BY <1>1, <1>6, <2>2 DEF read_direct
  <2> HIDE DEF c, f, n, rows
  <2>4. Touching(rows) \in Seq(NativeAccesses) /\ \E o : RowsAre(a, c, Touching(rows), o)
    BY <2>1, TouchingRows DEF rows
  <2>5. QED BY <1>3, <2>1, <2>3, <2>4
<1>7. QED BY <1>1, <1>4, <1>5, <1>6

(* The byte order is chosen once.                                          *)
LEMMA EndianStep == Spec => [](big \in BOOLEAN)
<1>1. Init => big \in BOOLEAN
  BY DEF Init
<1>2. big \in BOOLEAN /\ [Next]_vars => (big \in BOOLEAN)'
  BY DEF Next, vars, Begin, StartNative, ReturnFromHook, CallDelegate, EndNative, ChangeOutside,
         NoChange, Change, Install, InstallRam, UnmapRange, EnableWatchpoints
<1>3. QED BY <1>1, <1>2, PTL DEF Spec

(* Accesses of every width, alignment, address and mask, on every bus and  *)
(* in both byte orders, come down to native ones that touch the bytes      *)
(* asked for, each once and in its place, also where they wrap around.     *)
THEOREM AccessesSplit == Spec => []AccessesSplitExactly
<1>1. big \in BOOLEAN => AccessesSplitExactly
  <2> SUFFICES ASSUME big \in BOOLEAN, NEW a \in AllInputs
               PROVE  SplitsExactly(a, read_direct(a)) /\ SplitsExactly(a, write_direct(a))
    BY DEF AccessesSplitExactly
  <2>1. IsAccess(a) /\ a.address \in Addresses
    BY SpaceAccessAssumption
  <2>2. QED BY <2>1, AccessSplits DEF write_direct
<1>2. QED BY <1>1, EndianStep, PTL

---------------------------------------------------------------------------------
(* The tables.  A row has the same entry before and after a change only if *)
(* the change leaves the handler of that entry alone.                      *)

(* The elements of a set of numbers in order: each of them, once.          *)
LEMMA AscendingIs ==
  ASSUME NEW N \in Nat, NEW S \in SUBSET (0 .. N)
  PROVE  /\ Ascending(S) \in Seq(Nat)
         /\ \A i \in 1 .. Len(Ascending(S)) : Ascending(S)[i] \in S
         /\ \A i, j \in 1 .. Len(Ascending(S)) : i < j => Ascending(S)[i] # Ascending(S)[j]
         /\ \A x \in S : \E i \in 1 .. Len(Ascending(S)) : Ascending(S)[i] = x
<1> DEFINE m == Max(S \cup {0}) + 1
           s == [k \in 1 .. m |-> k - 1]
           w == Keep(s, S)
<1>1. m \in Nat /\ \A x \in S : x + 1 \in 1 .. m
  <2>1. S \cup {0} \in SUBSET (0 .. N) /\ S \cup {0} # {}
    OBVIOUS
  <2> DEFINE g == Max(S \cup {0})
  <2>2. g \in S \cup {0} /\ \A y \in S \cup {0} : g >= y
    BY <2>1, MaxIsGreatest
  <2> HIDE DEF g
  <2>3. g \in 0 .. N /\ \A x \in S : x \in Nat /\ x <= g
    BY <2>2
  <2>4. g + 1 \in Nat /\ \A x \in S : x + 1 \in 1 .. (g + 1)
    BY <2>3
  <2>5. QED BY <2>4 DEF g
<1> HIDE DEF m
<1>2. s \in Seq(Nat) /\ Len(s) = m
  BY <1>1
<1>3. w \in Seq(Nat) /\ w = Ascending(S)
  BY <1>2, KeepIs DEF Ascending, m
<1>4. PICK o : Picks(s, S, m, w, o)
  BY <1>2, KeepIs
<1> HIDE DEF w
<1>5. \A i \in 1 .. Len(w) : o[i] \in 1 .. m /\ w[i] = s[o[i]] /\ w[i] \in S
  BY <1>4 DEF Picks
<1>6. \A k \in 1 .. m : s[k] = k - 1
  OBVIOUS
<1> HIDE DEF s
<1>7. \A i, j \in 1 .. Len(w) : i < j => w[i] # w[j]
  <2> TAKE i, j \in 1 .. Len(w)
  <2> HAVE i < j
  <2>1. o[i] < o[j]
    BY <1>4 DEF Picks
  <2>2. w[i] = o[i] - 1 /\ w[j] = o[j] - 1 /\ o[i] \in 1 .. m /\ o[j] \in 1 .. m
    BY <1>5, <1>6
  <2>3. QED BY <1>1, <2>1, <2>2
<1>8. ASSUME NEW x \in S PROVE \E i \in 1 .. Len(w) : w[i] = x
  <2>1. x + 1 \in 1 .. m /\ s[x + 1] = x
    BY <1>1, <1>6
  <2>2. PICK i \in 1 .. Len(w) : o[i] = x + 1
    BY <1>4, <2>1 DEF Picks
  <2>3. QED BY <1>5, <2>1, <2>2
<1>9. QED BY <1>3, <1>5, <1>7, <1>8

Mapped(u, rows) == {u.entry[x] : x \in rows}

IsSequence(s) == s \in Seq({s[i] : i \in DOMAIN s})

(* The units of a handler are in a row.                                    *)
HandlerOK(h) == {"delegate", "subs"} \subseteq DOMAIN h /\ IsSequence(h.subs)

(* A sequence of the library is one in the sense of the invariant.         *)
LEMMA SequenceIs ==
  ASSUME NEW T, NEW s \in Seq(T)
  PROVE  IsSequence(s)
<1>1. s \in [1 .. Len(s) -> T] /\ Len(s) \in Nat
  OBVIOUS
<1>2. s \in [1 .. Len(s) -> {s[i] : i \in DOMAIN s}]
  BY <1>1
<1> DEFINE R == {s[i] : i \in DOMAIN s}
<1>3. s \in [1 .. Len(s) -> R]
  BY <1>2
<1> HIDE DEF R
<1>4. s \in Seq(R)
  BY <1>1, <1>3
<1>5. QED BY <1>4 DEF IsSequence, R

(* The units of a handler are numbered from 1.                             *)
LEMMA UnitNumbers ==
  ASSUME NEW h, HandlerOK(h)
  PROVE  DOMAIN h.subs \subseteq Nat \ {0}
<1> DEFINE R == {h.subs[i] : i \in DOMAIN h.subs}
<1>1. h.subs \in Seq(R)
  BY DEF HandlerOK, IsSequence
<1> HIDE DEF R
<1>2. DOMAIN h.subs = 1 .. Len(h.subs) /\ Len(h.subs) \in Nat
  BY <1>1
<1>3. QED BY <1>2

(* What the member functions of a handler do to it leaves them so.         *)
LEMMA DelegateOK ==
  ASSUME NEW h, HandlerOK(h), NEW dev
  PROVE  HandlerOK([h EXCEPT !.delegate = dev])
BY DEF HandlerOK

(* A mask widened for another mapping leaves a handler.                    *)
LEMMA ExpandOK ==
  ASSUME NEW h, HandlerOK(h), NEW B
  PROVE  HandlerOK(expand_bytemask(h, B))
BY DEF HandlerOK, expand_bytemask

(* So does taking the units of a handler apart.                            *)
LEMMA DeconfigureOK ==
  ASSUME NEW h, HandlerOK(h)
  PROVE  HandlerOK(deconfigure(h))
<1>1. IsSequence(<<>>)
  <2>1. <<>> \in Seq({})
    OBVIOUS
  <2>2. QED BY <2>1, SequenceIs
<1> DEFINE z == deconfigure(h)
<1>2. z = [h EXCEPT !.populated = FALSE, !.subs = <<>>]
  BY DEF deconfigure
<1> HIDE DEF z
<1>3. DOMAIN z = DOMAIN h /\ z.subs = <<>>
  BY <1>2 DEF HandlerOK
<1>4. HandlerOK(z)
  BY <1>1, <1>3 DEF HandlerOK
<1>5. QED BY <1>4 DEF z

(* So does removing the units that a new one is in the way of.             *)
LEMMA ClearOK ==
  ASSUME NEW h, HandlerOK(h), NEW lanes
  PROVE  HandlerOK(clear_conflicting_subunits(h, lanes))
<1> DEFINE R == {h.subs[i] : i \in DOMAIN h.subs}
           S == {si \in ToSet(h.subs) : si.data \cap lanes = {}}
           kept == Keep(h.subs, S)
           rest == AllLanes \ LanesOf(kept)
           z == clear_conflicting_subunits(h, lanes)
<1>1. z = [h EXCEPT !.subs = kept, !.invsubmask = rest]
  BY DEF clear_conflicting_subunits
<1>2. h.subs \in Seq(R)
  BY DEF HandlerOK, IsSequence
<1> HIDE DEF R, S, rest, z
<1>3. kept \in Seq(R)
  BY <1>2, KeepIs
<1> HIDE DEF kept
<1>4. IsSequence(kept)
  BY <1>3, SequenceIs
<1>5. DOMAIN z = DOMAIN h /\ z.subs = kept
  BY <1>1 DEF HandlerOK
<1>6. HandlerOK(z)
  BY <1>4, <1>5 DEF HandlerOK
<1>7. QED BY <1>6 DEF z

(* So does setting up the units for a mask, which keeps the delegate.      *)
LEMMA ConfigureOK ==
  ASSUME NEW h, HandlerOK(h), NEW start, NEW mask
  PROVE  HandlerOK(configure(h, start, mask)) /\ configure(h, start, mask).delegate = h.delegate
<1> DEFINE subs == [i \in DOMAIN h.subs |->
                     [h.subs[i] EXCEPT !.offset = @ + (start - h.addrstart) \div h.subs[i].size]]
           moved == IF h.populated /\ h.subs # <<>> THEN reconfigure_subunits(h, start) ELSE h
           z == configure(h, start, mask)
<1>1. moved = h \/ moved = [h EXCEPT !.subs = subs]
  BY DEF reconfigure_subunits
<1>2. z = [moved EXCEPT !.populated = TRUE, !.addrstart = start, !.addrmask = mask, !.bytemask = mask]
  BY DEF configure
<1>3. IsSequence(subs)
  <2> DEFINE R == {h.subs[i] : i \in DOMAIN h.subs}
             T == {subs[i] : i \in DOMAIN subs}
  <2>1. h.subs \in Seq(R)
    BY DEF HandlerOK, IsSequence
  <2> HIDE DEF R
  <2>2. DOMAIN h.subs = 1 .. Len(h.subs) /\ Len(h.subs) \in Nat
    BY <2>1
  <2>3. subs \in [1 .. Len(h.subs) -> T]
    BY <2>2
  <2> HIDE DEF T, subs
  <2>4. subs \in Seq(T)
    BY <2>2, <2>3
  <2>5. QED BY <2>4, SequenceIs
<1> HIDE DEF moved, z, subs
<1>4. HandlerOK(moved) /\ moved.delegate = h.delegate
  <2>1. CASE moved = h
    BY <2>1
  <2>2. CASE moved = [h EXCEPT !.subs = subs]
    <3>1. DOMAIN moved = DOMAIN h /\ moved.subs = subs /\ moved.delegate = h.delegate
      BY <2>2 DEF HandlerOK
    <3>2. QED BY <1>3, <3>1 DEF HandlerOK
  <2>3. QED BY <1>1, <2>1, <2>2
<1>5. DOMAIN z = DOMAIN moved /\ z.subs = moved.subs /\ z.delegate = moved.delegate
  BY <1>2, <1>4 DEF HandlerOK
<1>6. HandlerOK(z) /\ z.delegate = h.delegate
  BY <1>4, <1>5 DEF HandlerOK
<1>7. QED BY <1>6 DEF z

(* A handler of the full width or units of a smaller one, set for lanes,   *)
(* leave a handler.                                                        *)
LEMMA SetDelegateOK ==
  ASSUME NEW h, HandlerOK(h), NEW lanes, NEW k \in {1, 2, 4, 8}, NEW cs, NEW dev
  PROVE  HandlerOK(set_delegate(h, lanes, k, cs, dev))
<1>1. CASE k = W
  BY <1>1, DelegateOK DEF set_delegate
<1>2. CASE k # W
  <2> DEFINE maxunits   == W \div k
             order      == [j \in 1 .. maxunits |-> IF big THEN maxunits - j ELSE j - 1]
             S          == {u \in 0 .. (maxunits - 1) : Unit(k, u) \cap lanes # {}}
             places     == Keep(order, S)
             multiplier == PowerOf2(Len(places))
             new        == [j \in DOMAIN places |->
                              [addrmask   |-> Shr(h.bytemask, maxunits \div multiplier),
                               data       |-> Unit(k, places[j]),
                               csmask     |-> Unit(cs, places[j] \div (cs \div k)),
                               offset     |-> j - 1,
                               multiplier |-> multiplier,
                               size       |-> k,
                               shift      |-> places[j] * k,
                               delegate   |-> dev]]
             all        == h.subs \o new
             inv        == {l \in AllLanes : \A i \in DOMAIN all : l - all[i].shift \notin 0 .. (k - 1)}
             z          == configure_subunits(h, lanes, k, cs, dev)
  <2>1. z = [h EXCEPT !.subs = all, !.invsubmask = inv]
    BY DEF configure_subunits
  <2>2. maxunits \in Nat
    BY WidthAssumption
  <2>3. order \in Seq(Int)
    <3> HIDE DEF maxunits
    <3>1. \A j \in 1 .. maxunits : (IF big THEN maxunits - j ELSE j - 1) \in Int
      BY <2>2
    <3>2. order \in [1 .. maxunits -> Int]
      BY <3>1
    <3> HIDE DEF order
    <3>3. QED BY <2>2, <3>2
  <2> HIDE DEF order, S, maxunits, z, inv
  <2>4. places \in Seq(Int)
    BY <2>3, KeepIs
  <2> HIDE DEF places
  <2> DEFINE T == {new[j] : j \in DOMAIN new}
             R == {h.subs[i] : i \in DOMAIN h.subs}
  <2> HIDE DEF multiplier
  <2>5. Len(places) \in Nat /\ DOMAIN places = 1 .. Len(places)
    BY <2>4
  <2>6. new \in [1 .. Len(places) -> T]
    BY <2>5
  <2> HIDE DEF new
  <2>a. new \in Seq(T)
    <3> HIDE DEF T
    <3>1. QED BY <2>5, <2>6
  <2>7. h.subs \in Seq(R)
    BY DEF HandlerOK, IsSequence
  <2> HIDE DEF T, R
  <2>8. all \in Seq(R \cup T)
    <3>1. h.subs \in Seq(R \cup T) /\ new \in Seq(R \cup T)
      BY <2>a, <2>7
    <3>2. QED BY <3>1
  <2> HIDE DEF all
  <2>9. IsSequence(all)
    BY <2>8, SequenceIs
  <2>10. DOMAIN z = DOMAIN h /\ z.subs = all
    BY <2>1 DEF HandlerOK
  <2>11. HandlerOK(z)
    BY <2>9, <2>10 DEF HandlerOK
  <2>12. QED BY <1>2, <2>11, DelegateOK DEF set_delegate, z
<1>3. QED BY <1>1, <1>2

(* An entry is free or mapped, never both, and free once.  Nothing is      *)
(* narrower than the bus behind a bank, nor where nothing is.              *)
TableOK(u) ==
  /\ u = [entry |-> u.entry, handlers |-> u.handlers, free |-> u.free]
  /\ u.entry \in [Rows -> Entries]
  /\ u.handlers = [e \in Entries |-> u.handlers[e]]
  /\ u.free \in Seq(Dynamic)
  /\ \A i, j \in 1 .. Len(u.free) : i < j => u.free[i] # u.free[j]
  /\ \A i \in 1 .. Len(u.free) : u.free[i] \notin Mapped(u, Rows)
  /\ \A e \in Entries : HandlerOK(u.handlers[e])
  /\ \A e \in Static : u.handlers[e].delegate # "stub"

IsFree(u, e) == \E i \in 1 .. Len(u.free) : u.free[i] = e

(* The static entries and the dynamic ones are told apart by their         *)
(* numbers.                                                                *)
LEMMA EntryNumbers ==
  /\ Static \subseteq Entries /\ Dynamic \subseteq Entries /\ Static \cap Dynamic = {}
  /\ Entries = Static \cup Dynamic /\ STATIC_BANK1 \in Static /\ STATIC_UNMAP \in Static
  /\ STATIC_BANK1 # STATIC_UNMAP
BY DEF Entries, Static, Dynamic, STATIC_BANK1, STATIC_UNMAP, STATIC_COUNT

(* One row gets entry e: a handler that stays mapped, and that of e, are   *)
(* left alone.                                                             *)
LEMMA PopulateRowKeeps ==
  ASSUME NEW v, TableOK(v), NEW row \in Rows, NEW e \in Entries, ~IsFree(v, e),
         NEW z, z = PopulateRow(v, row, e)
  PROVE  /\ TableOK(z) /\ ~IsFree(z, e)
         /\ z.entry = [v.entry EXCEPT ![row] = e]
         /\ \A d \in Static \cup {e} \cup Mapped(z, Rows) : z.handlers[d] = v.handlers[d]
<1> DEFINE old  == v.entry[row]
           cells  == [v.entry EXCEPT ![row] = e]
           dead == old \in Dynamic /\ \A x \in Rows : cells[x] # old
<1>1. cells \in [Rows -> Entries] /\ cells[row] = e /\ \A x \in Rows : x # row => cells[x] = v.entry[x]
  BY DEF TableOK
<1>2. z = IF dead THEN [entry    |-> cells,
                        handlers |-> [v.handlers EXCEPT ![old] = deconfigure(@)],
                        free     |-> <<old>> \o v.free]
                  ELSE [v EXCEPT !.entry = cells]
  BY DEF PopulateRow
<1>3. \A x \in Rows : cells[x] = e \/ cells[x] \in Mapped(v, Rows)
  BY <1>1 DEF Mapped
<1>4. CASE ~dead
  <2>1. /\ z = [entry |-> cells, handlers |-> v.handlers, free |-> v.free]
        /\ z.entry = cells /\ z.handlers = v.handlers /\ z.free = v.free
    BY <1>2, <1>4 DEF TableOK
  <2>2. \A i \in 1 .. Len(z.free) : z.free[i] \notin Mapped(z, Rows)
    BY <1>3, <2>1 DEF TableOK, IsFree, Mapped
  <2>3. TableOK(z)
    <3>1. z = [entry |-> z.entry, handlers |-> z.handlers, free |-> z.free]
      BY <2>1
    <3>2. z.entry \in [Rows -> Entries]
      BY <1>1, <2>1
    <3>3. /\ z.handlers = [d \in Entries |-> z.handlers[d]] /\ z.free \in Seq(Dynamic)
          /\ \A i, j \in 1 .. Len(z.free) : i < j => z.free[i] # z.free[j]
          /\ \A d \in Entries : HandlerOK(z.handlers[d])
          /\ \A d \in Static : z.handlers[d].delegate # "stub"
      <4>1. z.handlers = v.handlers /\ z.free = v.free
        BY <2>1
      <4>2. QED BY <4>1 DEF TableOK
    <3>4. QED BY <2>2, <3>1, <3>2, <3>3 DEF TableOK
  <2>4. ~IsFree(z, e)
    BY <2>1 DEF IsFree
  <2>5. QED BY <2>1, <2>3, <2>4
<1>5. CASE dead
  <2>1. z = [entry |-> cells, handlers |-> [v.handlers EXCEPT ![old] = deconfigure(@)],
             free |-> <<old>> \o v.free]
    BY <1>2, <1>5
  <2>2. /\ z.entry = cells /\ z.handlers = [v.handlers EXCEPT ![old] = deconfigure(@)]
        /\ z.free = <<old>> \o v.free
    BY <2>1
  <2>3. old \in Dynamic /\ old # e /\ old \notin Mapped(z, Rows) /\ old \in Mapped(v, Rows)
    BY <1>1, <1>5, <2>2 DEF Mapped
  <2>4. v.free \in Seq(Dynamic) /\ Len(v.free) \in Nat
    BY DEF TableOK
  <2>5. /\ z.free \in Seq(Dynamic) /\ Len(z.free) = Len(v.free) + 1
        /\ z.free[1] = old /\ \A i \in 2 .. Len(z.free) : z.free[i] = v.free[i - 1]
    BY <2>2, <2>3, <2>4
  <2>6. \A i \in 1 .. Len(z.free) : i = 1 \/ (i \in 2 .. Len(z.free) /\ i - 1 \in 1 .. Len(v.free))
    BY <2>4, <2>5
  <2>7. \A i \in 1 .. Len(z.free) : z.free[i] \notin Mapped(z, Rows) /\ z.free[i] # e
    <3> TAKE i \in 1 .. Len(z.free)
    <3>1. CASE i = 1
      BY <2>3, <2>5, <3>1
    <3>2. CASE i # 1
      <4>1. z.free[i] = v.free[i - 1] /\ i - 1 \in 1 .. Len(v.free)
        BY <2>5, <2>6, <3>2
      <4>2. z.free[i] # e /\ z.free[i] \notin Mapped(v, Rows)
        BY <4>1 DEF TableOK, IsFree
      <4>3. QED BY <1>3, <2>2, <4>2 DEF Mapped
    <3>3. QED BY <3>1, <3>2
  <2>8. \A i, j \in 1 .. Len(z.free) : i < j => z.free[i] # z.free[j]
    <3> TAKE i, j \in 1 .. Len(z.free)
    <3> HAVE i < j
    <3>1. j # 1 /\ z.free[j] = v.free[j - 1] /\ j - 1 \in 1 .. Len(v.free)
      BY <2>4, <2>5, <2>6
    <3>2. CASE i = 1
      BY <2>3, <2>5, <3>1, <3>2 DEF TableOK
    <3>3. CASE i # 1
      <4>1. z.free[i] = v.free[i - 1] /\ i - 1 \in 1 .. Len(v.free) /\ i - 1 < j - 1
        BY <2>4, <2>5, <2>6, <3>3
      <4>2. QED BY <3>1, <4>1 DEF TableOK
    <3>4. QED BY <3>2, <3>3
  <2>9. /\ z.handlers = [d \in Entries |-> z.handlers[d]]
        /\ \A d \in Entries : d # old => z.handlers[d] = v.handlers[d]
    BY <2>2 DEF TableOK
  <2>10. \A d \in Static \cup {e} \cup Mapped(z, Rows) : d \in Entries /\ d # old
    <3>1. Mapped(z, Rows) \subseteq Entries
      BY <1>1, <2>2 DEF Mapped
    <3>2. QED BY <2>3, <3>1, EntryNumbers
  <2>11. /\ \A d \in Entries : HandlerOK(z.handlers[d])
         /\ \A d \in Static : z.handlers[d].delegate # "stub"
    <3>1. old \in Entries /\ z.handlers[old] = deconfigure(v.handlers[old])
      BY <2>2, <2>3, EntryNumbers DEF TableOK
    <3>2. HandlerOK(z.handlers[old])
      BY <3>1, DeconfigureOK DEF TableOK
    <3>3. \A d \in Entries : HandlerOK(z.handlers[d])
      BY <2>9, <3>2 DEF TableOK
    <3>4. QED BY <2>9, <2>10, <3>3 DEF TableOK
  <2>12. TableOK(z)
    BY <1>1, <2>1, <2>2, <2>5, <2>7, <2>8, <2>9, <2>11 DEF TableOK
  <2>13. QED BY <2>2, <2>7, <2>9, <2>10, <2>12 DEF IsFree
<1>6. QED BY <1>4, <1>5

PopulateStep(e, b, c, d, v, row) == PopulateRow(v, row, e)

PopulateFold == INSTANCE FoldInduction WITH Op <- PopulateStep

(* The rows have entry e, and every entry that another row keeps, and e,   *)
(* has the handler it had.                                                 *)
Populated(u, z, rows, e) ==
  /\ TableOK(z)
  /\ \A x \in Rows : z.entry[x] = IF x \in rows THEN e ELSE u.entry[x]
  /\ \A d \in Static \cup {e} \cup Mapped(u, Rows \ rows) : z.handlers[d] = u.handlers[d]

(* The rows get entry e one after the other.                               *)
LEMMA PopulateKeeps ==
  ASSUME NEW u, TableOK(u), NEW rows \in SUBSET Rows, NEW e \in Entries, ~IsFree(u, e),
         NEW z, z = Populate(u, rows, e)
  PROVE  Populated(u, z, rows, e)
<1> DEFINE s == Ascending(rows)
           n == Len(s)
           Keeping == Static \cup {e} \cup Mapped(u, Rows \ rows)
<1>1. /\ s \in Seq(Nat) /\ n \in Nat /\ DOMAIN s = 1 .. n
      /\ \A i \in 1 .. n : s[i] \in rows
      /\ \A x \in rows : \E i \in 1 .. n : s[i] = x
  <2>1. RowCount \in Nat /\ rows \in SUBSET (0 .. RowCount)
    <3>1. RowCount \in Nat /\ Rows = 0 .. (RowCount - 1)
      BY RowsFill
    <3>2. 0 .. (RowCount - 1) \subseteq 0 .. RowCount
      BY <3>1
    <3>3. QED BY <3>1, <3>2
  <2>2. /\ Ascending(rows) \in Seq(Nat)
        /\ \A i \in 1 .. Len(Ascending(rows)) : Ascending(rows)[i] \in rows
        /\ \A x \in rows : \E i \in 1 .. Len(Ascending(rows)) : Ascending(rows)[i] = x
    BY <2>1, AscendingIs
  <2> HIDE DEF s
  <2>3. s \in Seq(Nat) => n \in Nat /\ DOMAIN s = 1 .. n
    OBVIOUS
  <2>4. QED BY <2>2, <2>3 DEF s
<1>2. z = PopulateFold!Fold(e, 0, 0, 0, u, s)
  BY DEF Populate, FoldLeft, MapThenFoldSet, PopulateFold!Fold, PopulateFold!Last, PopulateStep, Max
<1> HIDE DEF s, n
<1>3. PopulateFold!Induction(n)
  BY <1>1, LoopInduction DEF PopulateFold!Induction
<1>4. PICK g : PopulateFold!Passes(e, 0, 0, 0, u, s, n, g) /\ g[n] = z
  BY <1>1, <1>2, <1>3, PopulateFold!FoldPasses DEF n
<1> DEFINE Done(k) == {s[i] : i \in 1 .. k}
           J(k) == /\ TableOK(g[k]) /\ ~IsFree(g[k], e)
                   /\ \A x \in Rows : g[k].entry[x] = IF x \in Done(k) THEN e ELSE u.entry[x]
                   /\ \A d \in Keeping : g[k].handlers[d] = u.handlers[d]
           P == {k \in 0 .. n : J(k)}
<1>5. 0 \in P
  <2>1. g[0] = u
    BY <1>4 DEF PopulateFold!Passes
  <2>2. Done(0) = {}
    OBVIOUS
  <2>3. 0 \in 0 .. n
    BY <1>1
  <2>4. QED BY <2>1, <2>2, <2>3
<1>6. ASSUME NEW k \in 0 .. (n - 1), k \in P PROVE k + 1 \in P
  <2> DEFINE m == k + 1
             row == s[m]
  <2>a. J(k)
    BY <1>6
  <2>b. m \in 1 .. n /\ m \in 0 .. n /\ m - 1 = k
    BY <1>1
  <2>1. m \in 1 .. n /\ m \in 0 .. n /\ m - 1 = k /\ J(k)
    BY <2>a, <2>b
  <2>2. row \in rows /\ row \in Rows
    BY <1>1, <2>1
  <2>3. g[m] = PopulateRow(g[k], row, e)
    BY <1>4, <2>1 DEF PopulateFold!Passes, PopulateStep
  <2>4. Done(m) = Done(k) \cup {row}
    <3>1. 1 .. m = (1 .. k) \cup {m}
      BY <2>1
    <3> HIDE DEF m
    <3>2. QED BY <3>1
  <2> HIDE DEF row, m
  <2>5. /\ TableOK(g[m]) /\ ~IsFree(g[m], e)
        /\ g[m].entry = [g[k].entry EXCEPT ![row] = e]
        /\ \A d \in Static \cup {e} \cup Mapped(g[m], Rows) : g[m].handlers[d] = g[k].handlers[d]
    BY <2>1, <2>2, <2>3, PopulateRowKeeps
  <2>6. \A x \in Rows : g[m].entry[x] = IF x \in Done(m) THEN e ELSE u.entry[x]
    <3>1. g[k].entry \in [Rows -> Entries]
      BY <2>1 DEF TableOK
    <3>2. \A x \in Rows : g[m].entry[x] = IF x = row THEN e ELSE g[k].entry[x]
      BY <2>5, <3>1
    <3> HIDE DEF Done
    <3>3. QED BY <2>1, <2>4, <3>2
  <2>7. \A d \in Keeping : g[m].handlers[d] = u.handlers[d]
    <3>1. \A x \in Rows \ rows : x \notin Done(m)
      BY <1>1, <2>1
    <3>2. \A x \in Rows \ rows : g[m].entry[x] = u.entry[x]
      <4> HIDE DEF Done
      <4>1. QED BY <2>6, <3>1
    <3>3. Mapped(u, Rows \ rows) \subseteq Mapped(g[m], Rows)
      BY <3>2 DEF Mapped
    <3>4. QED BY <2>1, <2>5, <3>3
  <2> HIDE DEF Done, Keeping
  <2>8. J(m)
    BY <2>5, <2>6, <2>7
  <2>9. QED BY <2>1, <2>8 DEF m
<1>7. n \in P
  <2> HIDE DEF P
  <2>1. QED BY <1>1, <1>5, <1>6, LoopInduction
<1>8. \A x \in Rows : x \in Done(n) <=> x \in rows
  BY <1>1
<1> HIDE DEF Done
<1>9. QED BY <1>4, <1>7, <1>8 DEF Populated

(* Rows get a new entry: none had it before, and every entry that another  *)
(* row keeps has the handler it had.                                       *)
Assigned(u, v, rows, new) ==
  /\ TableOK(v) /\ new \in Dynamic /\ new \notin Mapped(u, Rows)
  /\ \A x \in Rows : v.entry[x] = IF x \in rows THEN new ELSE u.entry[x]
  /\ \A d \in Static \cup Mapped(u, Rows \ rows) : v.handlers[d] = u.handlers[d]

(* Rows mapped to a handler taken from the free list have it, and the      *)
(* others keep theirs.                                                     *)
LEMMA AssignNew ==
  ASSUME NEW u, TableOK(u), u.free # <<>>, NEW rows \in SUBSET Rows, NEW h, HandlerOK(h), NEW z,
         z = Populate(TakeEntry(u, h), rows, Head(u.free))
  PROVE  Assigned(u, z, rows, Head(u.free))
<1> DEFINE new == Head(u.free)
           v == TakeEntry(u, h)
<1>1. /\ u.free \in Seq(Dynamic) /\ Len(u.free) \in Nat \ {0} /\ new = u.free[1]
      /\ new \in Dynamic /\ new \in Entries /\ new \notin Static
  <2>1. u.free \in Seq(Dynamic) /\ Len(u.free) \in Nat \ {0}
    BY DEF TableOK
  <2>2. new = u.free[1] /\ u.free[1] \in Dynamic
    BY <2>1
  <2>3. QED BY <2>1, <2>2, EntryNumbers
<1>2. new \notin Mapped(u, Rows)
  <2>1. 1 \in 1 .. Len(u.free)
    BY <1>1
  <2>2. QED BY <1>1, <2>1 DEF TableOK
<1>3. /\ v = [entry |-> u.entry, handlers |-> [u.handlers EXCEPT ![new] = h], free |-> Tail(u.free)]
      /\ v.entry = u.entry /\ v.handlers = [u.handlers EXCEPT ![new] = h] /\ v.free = Tail(u.free)
  BY DEF TakeEntry
<1> HIDE DEF new, v
<1>4. /\ v.free \in Seq(Dynamic) /\ Len(v.free) = Len(u.free) - 1
      /\ \A i \in 1 .. Len(v.free) : i + 1 \in 1 .. Len(u.free) /\ v.free[i] = u.free[i + 1]
  BY <1>1, <1>3
<1>5. \A i \in 1 .. Len(v.free) : v.free[i] # new /\ v.free[i] \notin Mapped(u, Rows)
  <2> TAKE i \in 1 .. Len(v.free)
  <2>1. 1 \in 1 .. Len(u.free) /\ 1 < i + 1 /\ i + 1 \in 1 .. Len(u.free)
    BY <1>1, <1>4
  <2>2. u.free[1] # u.free[i + 1] /\ u.free[i + 1] \notin Mapped(u, Rows)
    BY <2>1 DEF TableOK
  <2>3. QED BY <1>1, <1>4, <2>2
<1>6. \A i, j \in 1 .. Len(v.free) : i < j => v.free[i] # v.free[j]
  <2> TAKE i, j \in 1 .. Len(v.free)
  <2> HAVE i < j
  <2>1. i + 1 < j + 1 /\ i + 1 \in 1 .. Len(u.free) /\ j + 1 \in 1 .. Len(u.free)
    BY <1>1, <1>4
  <2>2. u.free[i + 1] # u.free[j + 1]
    BY <2>1 DEF TableOK
  <2>3. QED BY <1>4, <2>2
<1>7. \A d \in Entries : d # new => v.handlers[d] = u.handlers[d]
  BY <1>3 DEF TableOK
<1>8. TableOK(v)
  <2>1. v.handlers = [d \in Entries |-> v.handlers[d]]
    BY <1>3 DEF TableOK
  <2>2. /\ \A d \in Entries : HandlerOK(v.handlers[d])
        /\ \A d \in Static : v.handlers[d].delegate # "stub"
    <3>1. v.handlers[new] = h
      BY <1>1, <1>3 DEF TableOK
    <3>2. \A d \in Entries : HandlerOK(v.handlers[d])
      BY <1>7, <3>1 DEF TableOK
    <3>3. QED BY <1>1, <1>7, <3>2, EntryNumbers DEF TableOK
  <2>3. \A i \in 1 .. Len(v.free) : v.free[i] \notin Mapped(v, Rows)
    BY <1>3, <1>5 DEF Mapped
  <2>4. v = [entry |-> v.entry, handlers |-> v.handlers, free |-> v.free]
    BY <1>3
  <2>5. v.entry \in [Rows -> Entries]
    BY <1>3 DEF TableOK
  <2>6. QED BY <1>4, <1>6, <2>1, <2>2, <2>3, <2>4, <2>5 DEF TableOK
<1>9. z = Populate(v, rows, new) /\ ~IsFree(v, new)
  BY <1>5 DEF IsFree, v, new
<1>10. /\ TableOK(z)
       /\ \A x \in Rows : z.entry[x] = IF x \in rows THEN new ELSE v.entry[x]
       /\ \A d \in Static \cup {new} \cup Mapped(v, Rows \ rows) : z.handlers[d] = v.handlers[d]
  <2>1. new \in Entries /\ ~IsFree(v, new) /\ z = Populate(v, rows, new)
    BY <1>1, <1>9
  <2>2. Populated(v, z, rows, new)
    BY <1>8, <2>1, PopulateKeeps
  <2>3. QED BY <2>2 DEF Populated
<1>11. \A d \in Static \cup Mapped(u, Rows \ rows) : z.handlers[d] = u.handlers[d]
  <2>1. Mapped(v, Rows \ rows) = Mapped(u, Rows \ rows)
    BY <1>3 DEF Mapped
  <2>2. \A d \in Static \cup Mapped(u, Rows \ rows) : d \in Entries /\ d # new
    BY <1>1, <1>2, EntryNumbers DEF Mapped, TableOK
  <2>3. QED BY <1>7, <1>10, <2>1, <2>2
<1>12. QED BY <1>1, <1>2, <1>3, <1>10, <1>11 DEF Assigned, new

(* A changed copy for the rows of an entry, or one for rows that keep      *)
(* nothing of theirs.                                                      *)
LEMMA PartialAssigns ==
  ASSUME NEW u, TableOK(u), u.free # <<>>, NEW rows \in SUBSET Rows, NEW e \in Entries, NEW r, NEW lanes,
         NEW s, s = SetupPartial(u, rows, e, r, lanes)
  PROVE  Assigned(u, s.table, rows, s.entry)
<1> DEFINE old == u.handlers[e]
           new == Head(u.free)
           h == configure(clear_conflicting_subunits(old, lanes), Row(r.start) * W, AddressMask(r))
           done == Populate(TakeEntry(u, h), rows, new)
           z == [done EXCEPT !.handlers[new] = expand_bytemask(@, old.bytemask)]
<1>1. s.table = z /\ s.entry = new
  BY DEF SetupPartial
<1>a. HandlerOK(h)
  <2> DEFINE c == clear_conflicting_subunits(old, lanes)
             start == Row(r.start) * W
             mask == AddressMask(r)
  <2>1. HandlerOK(c)
    BY ClearOK DEF TableOK
  <2> HIDE DEF c, start, mask
  <2>2. HandlerOK(configure(c, start, mask))
    BY <2>1, ConfigureOK
  <2>3. QED BY <2>2 DEF c, start, mask
<1>2. Assigned(u, done, rows, new)
  <2> HIDE DEF h
  <2>1. QED BY <1>a, AssignNew
<1> HIDE DEF old, new, h, done
<1>3. /\ z = [entry |-> done.entry, handlers |-> [done.handlers EXCEPT ![new] = expand_bytemask(@, old.bytemask)],
              free |-> done.free]
      /\ z.entry = done.entry /\ z.free = done.free
      /\ z.handlers = [done.handlers EXCEPT ![new] = expand_bytemask(@, old.bytemask)]
  <2>1. done = [entry |-> done.entry, handlers |-> done.handlers, free |-> done.free]
    BY <1>2 DEF Assigned, TableOK
  <2>2. z = [entry |-> done.entry, handlers |-> [done.handlers EXCEPT ![new] = expand_bytemask(@, old.bytemask)],
              free |-> done.free]
    BY <2>1
  <2> HIDE DEF z
  <2>3. QED BY <2>2
<1> HIDE DEF z
<1>4. /\ \A d \in Entries : d # new => z.handlers[d] = done.handlers[d]
      /\ z.handlers = [d \in Entries |-> z.handlers[d]]
  BY <1>2, <1>3 DEF Assigned, TableOK
<1>5. \A d \in Static \cup Mapped(u, Rows \ rows) : d \in Entries /\ d # new
  BY <1>2, EntryNumbers DEF Assigned, Mapped, TableOK
<1>6. TableOK(z)
  <2>1. /\ \A d \in Entries : HandlerOK(z.handlers[d])
        /\ \A d \in Static : z.handlers[d].delegate # "stub"
    <3>1. new \in Entries /\ TableOK(done)
      BY <1>2, EntryNumbers DEF Assigned
    <3> DEFINE B == old.bytemask
    <3> HIDE DEF B
    <3>2. z.handlers[new] = expand_bytemask(done.handlers[new], B)
      BY <1>3, <3>1 DEF TableOK, B
    <3>3. HandlerOK(z.handlers[new])
      BY <3>1, <3>2, ExpandOK DEF TableOK
    <3>4. \A d \in Entries : HandlerOK(z.handlers[d])
      BY <1>4, <3>1, <3>3 DEF TableOK
    <3>5. QED BY <1>4, <1>5, <3>1, <3>4 DEF TableOK
  <2>2. \A i \in 1 .. Len(z.free) : z.free[i] \notin Mapped(z, Rows)
    BY <1>2, <1>3 DEF Assigned, TableOK, Mapped
  <2>3. z = [entry |-> z.entry, handlers |-> z.handlers, free |-> z.free]
    BY <1>3
  <2>4. /\ z.entry \in [Rows -> Entries] /\ z.free \in Seq(Dynamic)
        /\ \A i, j \in 1 .. Len(z.free) : i < j => z.free[i] # z.free[j]
    BY <1>2, <1>3 DEF Assigned, TableOK
  <2>5. QED BY <1>4, <2>1, <2>2, <2>3, <2>4 DEF TableOK
<1>7. Assigned(u, z, rows, new)
  BY <1>2, <1>3, <1>4, <1>5, <1>6 DEF Assigned
<1>8. QED BY <1>1, <1>7

(* The rows of a request that starts anew have the handler set up for it,  *)
(* and the others keep theirs.                                             *)
LEMMA OverrideAssigns ==
  ASSUME NEW u, TableOK(u), u.free # <<>>, NEW rows \in SUBSET Rows, NEW r,
         NEW s, s = SetupOverride(u, rows, r)
  PROVE  Assigned(u, s.table, rows, s.entry)
<1> DEFINE new == Head(u.free)
           h == configure(u.handlers[new], Row(r.start) * W, AddressMask(r))
           z == Populate(TakeEntry(u, h), rows, new)
<1>1. s.table = z /\ s.entry = new
  BY DEF SetupOverride
<1>a. HandlerOK(h)
  <2> DEFINE start == Row(r.start) * W
             mask == AddressMask(r)
  <2>1. new \in Entries
    BY EntryNumbers DEF TableOK
  <2>2. HandlerOK(u.handlers[new])
    BY <2>1 DEF TableOK
  <2> HIDE DEF new, start, mask
  <2>3. HandlerOK(configure(u.handlers[new], start, mask))
    BY <2>2, ConfigureOK
  <2>4. QED BY <2>3 DEF start, mask
<1>2. Assigned(u, z, rows, new)
  <2> HIDE DEF h
  <2>1. QED BY <1>a, AssignNew
<1>3. QED BY <1>1, <1>2

SetupFold == INSTANCE FoldInduction WITH Op <- SetupRest

(* What a request leaves: its rows have another entry, one of those it     *)
(* set up, and every entry that a row outside it keeps has the handler it  *)
(* had and is not one of them.                                             *)
Ranged(u, s, rows) ==
  /\ TableOK(s.table) /\ s.entries \subseteq Dynamic
  /\ \A x \in rows : s.table.entry[x] # u.entry[x]
  /\ \A x \in Rows \ rows : s.table.entry[x] = u.entry[x]
  /\ \A d \in Static \cup Mapped(u, Rows \ rows) :
       s.table.handlers[d] = u.handlers[d] /\ d \notin s.entries

(* The rows of the entries that are done have another one, the others of   *)
(* the rest the one they had.                                              *)
SetUp(u, a, rows, rest, done) ==
  /\ a = [fits |-> a.fits, table |-> a.table, entries |-> a.entries]
  /\ a.fits =>
       /\ TableOK(a.table) /\ a.entries \subseteq Dynamic
       /\ \A x \in rows \ rest : a.table.entry[x] # u.entry[x]
       /\ \A x \in rest : u.entry[x] \in done => a.table.entry[x] # u.entry[x]
       /\ \A x \in rest : u.entry[x] \notin done => a.table.entry[x] = u.entry[x]
       /\ \A x \in Rows \ rows : a.table.entry[x] = u.entry[x]
       /\ \A d \in Static \cup Mapped(u, Rows \ rows) :
            a.table.handlers[d] = u.handlers[d] /\ d \notin a.entries

(* One more entry of the rest.                                             *)
LEMMA SetupRestKeeps ==
  ASSUME NEW u, TableOK(u), NEW rows \in SUBSET Rows, NEW rest \in SUBSET rows, NEW done,
         NEW r, NEW lanes, NEW a, SetUp(u, a, rows, rest, done), NEW e \in Entries, e \notin done,
         NEW z, z = SetupRest(u, rest, r, lanes, a, e)
  PROVE  SetUp(u, z, rows, rest, done \cup {e})
<1> DEFINE mine == {row \in rest : u.entry[row] = e}
           s == SetupPartial(a.table, mine, e, r, lanes)
<1>1. CASE ~a.fits \/ a.table.free = <<>>
  <2>1. z = [a EXCEPT !.fits = FALSE]
    BY <1>1 DEF SetupRest
  <2>2. a = [fits |-> a.fits, table |-> a.table, entries |-> a.entries]
    BY DEF SetUp
  <2>3. z = [fits |-> FALSE, table |-> a.table, entries |-> a.entries]
    BY <2>1, <2>2
  <2>4. z = [fits |-> z.fits, table |-> z.table, entries |-> z.entries] /\ z.fits = FALSE
    BY <2>3
  <2>5. QED BY <2>4 DEF SetUp
<1>2. CASE a.fits /\ a.table.free # <<>>
  <2>1. z = [fits |-> TRUE, table |-> s.table, entries |-> a.entries \cup {s.entry}]
    BY <1>2 DEF SetupRest
  <2>2. mine \in SUBSET Rows /\ TableOK(a.table) /\ s = SetupPartial(a.table, mine, e, r, lanes)
    BY <1>2 DEF SetUp
  <2> HIDE DEF s
  <2>3. /\ z = [fits |-> z.fits, table |-> z.table, entries |-> z.entries]
        /\ z.table = s.table /\ z.entries = a.entries \cup {s.entry}
    BY <2>1
  <2>a. \A x \in rest : x \in mine <=> u.entry[x] = e
    OBVIOUS
  <2>b. mine \subseteq rest
    OBVIOUS
  <2> HIDE DEF mine
  <2>4. Assigned(a.table, s.table, mine, s.entry)
    BY <1>2, <2>2, PartialAssigns
  <2> DEFINE old == a.table
             new == s.table
             fresh == s.entry
  <2>5. /\ TableOK(new) /\ fresh \in Dynamic /\ \A x \in Rows : old.entry[x] # fresh
        /\ \A x \in Rows : new.entry[x] = IF x \in mine THEN fresh ELSE old.entry[x]
        /\ \A d \in Static \cup Mapped(old, Rows \ mine) : new.handlers[d] = old.handlers[d]
    BY <2>4 DEF Assigned, Mapped
  <2>6. /\ a.entries \subseteq Dynamic
        /\ \A x \in rows \ rest : old.entry[x] # u.entry[x]
        /\ \A x \in rest : u.entry[x] \in done => old.entry[x] # u.entry[x]
        /\ \A x \in rest : u.entry[x] \notin done => old.entry[x] = u.entry[x]
        /\ \A x \in Rows \ rows : old.entry[x] = u.entry[x]
        /\ \A d \in Static \cup Mapped(u, Rows \ rows) :
             old.handlers[d] = u.handlers[d] /\ d \notin a.entries
    BY <1>2 DEF SetUp
  <2> HIDE DEF old, new, fresh
  <2>7. \A x \in rows \ rest : new.entry[x] # u.entry[x]
    BY <2>5, <2>6, <2>b
  <2>8. \A x \in rest : u.entry[x] \in done \cup {e} => new.entry[x] # u.entry[x]
    <3> TAKE x \in rest
    <3> HAVE u.entry[x] \in done \cup {e}
    <3>1. x \in Rows
      OBVIOUS
    <3>2. CASE u.entry[x] = e
      BY <2>5, <2>6, <2>a, <3>1, <3>2
    <3>3. CASE u.entry[x] # e
      BY <2>5, <2>6, <2>a, <3>1, <3>3
    <3>4. QED BY <3>2, <3>3
  <2>9. \A x \in rest : u.entry[x] \notin done \cup {e} => new.entry[x] = u.entry[x]
    BY <2>5, <2>6, <2>a
  <2>10. \A x \in Rows \ rows : new.entry[x] = u.entry[x]
    BY <2>5, <2>6, <2>b
  <2>11. \A d \in Static \cup Mapped(u, Rows \ rows) :
           new.handlers[d] = u.handlers[d] /\ d \notin a.entries \cup {fresh}
    <3>1. Mapped(u, Rows \ rows) \subseteq Mapped(old, Rows \ mine)
      BY <2>6, <2>b DEF Mapped
    <3>2. \A d \in Mapped(u, Rows \ rows) : d # fresh
      BY <2>5, <2>6 DEF Mapped
    <3>3. \A d \in Static : d # fresh
      BY <2>5, EntryNumbers
    <3>4. QED BY <2>5, <2>6, <3>1, <3>2, <3>3
  <2>12. z.table = new /\ z.entries = a.entries \cup {fresh}
    BY <2>3 DEF new, fresh
  <2>13. z.entries \subseteq Dynamic /\ TableOK(z.table)
    BY <2>5, <2>6, <2>12
  <2>14. QED BY <2>3, <2>7, <2>8, <2>9, <2>10, <2>11, <2>12, <2>13 DEF SetUp
<1>3. QED BY <1>1, <1>2

(* A request gives its rows other entries and leaves the handlers that     *)
(* rows outside it keep alone.                                             *)
LEMMA SetupRangeKeeps ==
  ASSUME NEW u, TableOK(u), NEW r, NEW lanes,
         NEW z, z = SetupRange(u, r, lanes), z.fits
  PROVE  Ranged(u, z, RowsOf(r))
<1> DEFINE rows == RowsOf(r)
           over == {row \in rows :
                      \/ u.entry[row] \in Static
                      \/ overriden_by_mask(u.handlers[u.entry[row]], lanes)}
           rest == rows \ over
           E == {u.entry[row] : row \in rest}
           s == Ascending(E)
           n == Len(s)
           first == IF over = {} \/ u.free = <<>>
                    THEN [fits |-> over = {}, table |-> u, entries |-> {}]
                    ELSE LET o == SetupOverride(u, over, r)
                         IN  [fits |-> TRUE, table |-> o.table, entries |-> {o.entry}]
<1>1. z = SetupFold!Fold(u, rest, r, lanes, first, s)
  BY DEF SetupRange, FoldLeft, MapThenFoldSet, SetupFold!Fold, SetupFold!Last, Max
<1>2. rows \in SUBSET Rows /\ over \subseteq rows /\ rest \in SUBSET rows /\ rows \ rest = over
  BY DEF RowsOf
<1>a. \A x \in rest : u.entry[x] \in E
  OBVIOUS
<1>b. E \in SUBSET Entries
  BY <1>2 DEF TableOK
<1> HIDE DEF rows, over, rest, E
<1>3. /\ s \in Seq(Nat) /\ n \in Nat /\ DOMAIN s = 1 .. n
      /\ \A i \in 1 .. n : s[i] \in E
      /\ \A i, j \in 1 .. n : i < j => s[i] # s[j]
      /\ \A x \in E : \E i \in 1 .. n : s[i] = x
  <2>1. SUBTABLE_BASE \in Nat /\ Entries \subseteq 0 .. SUBTABLE_BASE
    BY HandlersAssumption DEF Entries, Static, Dynamic, STATIC_BANK1, STATIC_UNMAP, STATIC_COUNT
  <2>2. E \in SUBSET (0 .. SUBTABLE_BASE)
    BY <1>b, <2>1
  <2>3. /\ Ascending(E) \in Seq(Nat)
        /\ \A i \in 1 .. Len(Ascending(E)) : Ascending(E)[i] \in E
        /\ \A i, j \in 1 .. Len(Ascending(E)) : i < j => Ascending(E)[i] # Ascending(E)[j]
        /\ \A x \in E : \E i \in 1 .. Len(Ascending(E)) : Ascending(E)[i] = x
    BY <2>1, <2>2, AscendingIs
  <2> HIDE DEF s
  <2>4. s \in Seq(Nat) => n \in Nat /\ DOMAIN s = 1 .. n
    OBVIOUS
  <2>5. QED BY <2>3, <2>4 DEF s
<1>4. SetUp(u, first, rows, rest, {})
  <2>1. CASE over = {}
    <3>1. first = [fits |-> TRUE, table |-> u, entries |-> {}]
      BY <2>1
    <3> HIDE DEF first
    <3>2. /\ first = [fits |-> first.fits, table |-> first.table, entries |-> first.entries]
          /\ first.table = u /\ first.entries = {}
      BY <3>1
    <3>3. QED BY <1>2, <2>1, <3>2 DEF SetUp
  <2>2. CASE over # {} /\ u.free = <<>>
    <3>1. first = [fits |-> FALSE, table |-> u, entries |-> {}]
      BY <2>2
    <3> HIDE DEF first
    <3>2. /\ first = [fits |-> first.fits, table |-> first.table, entries |-> first.entries]
          /\ first.fits = FALSE
      BY <3>1
    <3>3. QED BY <3>2 DEF SetUp
  <2>3. CASE over # {} /\ u.free # <<>>
    <3> DEFINE o == SetupOverride(u, over, r)
    <3>1. first = [fits |-> TRUE, table |-> o.table, entries |-> {o.entry}]
      BY <2>3
    <3>2. over \in SUBSET Rows /\ o = SetupOverride(u, over, r)
      BY <1>2
    <3> HIDE DEF first, o
    <3>3. /\ first = [fits |-> first.fits, table |-> first.table, entries |-> first.entries]
          /\ first.table = o.table /\ first.entries = {o.entry}
      BY <3>1
    <3>4. Assigned(u, o.table, over, o.entry)
      BY <2>3, <3>2, OverrideAssigns
    <3> DEFINE new == o.table
               fresh == o.entry
    <3>5. /\ TableOK(new) /\ fresh \in Dynamic /\ \A x \in Rows : u.entry[x] # fresh
          /\ \A x \in Rows : new.entry[x] = IF x \in over THEN fresh ELSE u.entry[x]
          /\ \A d \in Static \cup Mapped(u, Rows \ over) : new.handlers[d] = u.handlers[d]
      BY <3>4 DEF Assigned, Mapped
    <3> HIDE DEF new, fresh
    <3>6. first.table = new /\ first.entries = {fresh}
      BY <3>3 DEF new, fresh
    <3>7. \A d \in Static \cup Mapped(u, Rows \ rows) : new.handlers[d] = u.handlers[d] /\ d # fresh
      <4>1. Mapped(u, Rows \ rows) \subseteq Mapped(u, Rows \ over)
        BY <1>2 DEF Mapped
      <4>2. \A d \in Mapped(u, Rows \ rows) : d # fresh
        BY <3>5 DEF Mapped
      <4>3. QED BY <3>5, <4>1, <4>2, EntryNumbers
    <3>8. \A x \in rows \ rest : new.entry[x] # u.entry[x]
      BY <1>2, <3>5
    <3>9. /\ \A x \in rest : new.entry[x] = u.entry[x]
          /\ \A x \in Rows \ rows : new.entry[x] = u.entry[x]
      BY <1>2, <3>5
    <3>10. QED BY <3>3, <3>5, <3>6, <3>7, <3>8, <3>9 DEF SetUp
  <2>4. QED BY <2>1, <2>2, <2>3
<1> HIDE DEF first, s, n
<1>5. SetupFold!Induction(n)
  BY <1>3, LoopInduction DEF SetupFold!Induction
<1>6. PICK g : SetupFold!Passes(u, rest, r, lanes, first, s, n, g) /\ g[n] = z
  BY <1>1, <1>3, <1>5, SetupFold!FoldPasses DEF n
<1> DEFINE Done(k) == {s[i] : i \in 1 .. k}
           P == {k \in 0 .. n : SetUp(u, g[k], rows, rest, Done(k))}
<1>7. 0 \in P
  <2>1. g[0] = first
    BY <1>6 DEF SetupFold!Passes
  <2>2. Done(0) = {} /\ 0 \in 0 .. n
    BY <1>3
  <2>3. QED BY <1>4, <2>1, <2>2
<1>8. ASSUME NEW k \in 0 .. (n - 1), k \in P PROVE k + 1 \in P
  <2> DEFINE m == k + 1
             e == s[m]
  <2>1. m \in 1 .. n /\ m \in 0 .. n /\ m - 1 = k /\ k \in 0 .. n
    BY <1>3
  <2>2. g[m] = SetupRest(u, rest, r, lanes, g[k], e)
    BY <1>6, <2>1 DEF SetupFold!Passes
  <2>3. Done(m) = Done(k) \cup {e}
    <3>1. 1 .. m = (1 .. k) \cup {m}
      BY <2>1
    <3> HIDE DEF m
    <3>2. QED BY <3>1
  <2>4. e \notin Done(k)
    <3>1. \A i \in 1 .. k : i \in 1 .. n /\ i < m
      BY <1>3, <2>1
    <3> HIDE DEF m
    <3>2. \A i \in 1 .. k : s[i] # s[m]
      BY <1>3, <2>1, <3>1
    <3>3. QED BY <3>2
  <2>5. SetUp(u, g[k], rows, rest, Done(k))
    BY <1>8
  <2>a. e \in Entries
    BY <1>3, <1>b, <2>1
  <2> HIDE DEF e, m, Done
  <2>6. SetUp(u, g[m], rows, rest, Done(k) \cup {e})
    BY <1>2, <2>2, <2>4, <2>5, <2>a, SetupRestKeeps
  <2>7. m \in P
    BY <2>1, <2>3, <2>6
  <2>8. QED BY <2>7 DEF m
<1>9. n \in P
  <2> HIDE DEF P
  <2>1. QED BY <1>3, <1>7, <1>8, LoopInduction
<1>10. \A x \in rest : u.entry[x] \in Done(n)
  <2>1. \A y \in E : y \in Done(n)
    BY <1>3
  <2> HIDE DEF Done
  <2>2. QED BY <1>a, <2>1
<1> HIDE DEF Done
<1>11. SetUp(u, z, rows, rest, Done(n))
  BY <1>6, <1>9
<1>12. \A x \in rows : z.table.entry[x] # u.entry[x]
  BY <1>10, <1>11 DEF SetUp
<1>13. Ranged(u, z, rows)
  BY <1>11, <1>12 DEF SetUp, Ranged
<1>14. QED BY <1>13 DEF rows

(* What a change of a table does to the accesses in progress: a row that   *)
(* keeps its entry keeps the handler.                                      *)
Survives(u, v) ==
  /\ TableOK(v)
  /\ \A x \in Rows : v.entry[x] = u.entry[x] /\ u.entry[x] \in Dynamic =>
       v.handlers[u.entry[x]] = u.handlers[u.entry[x]]

(* The entries of a request get their delegate, the others stay.           *)
LEMMA InstallSurvives ==
  ASSUME NEW u, TableOK(u), NEW s, NEW rows \in SUBSET Rows, Ranged(u, s, rows), NEW g, NEW v,
         \A e \in s.entries : HandlerOK(g[e]),
         v = [s.table EXCEPT !.handlers = [e \in Entries |-> IF e \in s.entries THEN g[e] ELSE @[e]]]
  PROVE  Survives(u, v)
<1> DEFINE t == s.table
           hs == [e \in Entries |-> IF e \in s.entries THEN g[e] ELSE t.handlers[e]]
<1>1. TableOK(t) /\ s.entries \subseteq Dynamic
  BY DEF Ranged
<1>2. v = [t EXCEPT !.handlers = hs]
  <2>1. t = [entry |-> t.entry, handlers |-> t.handlers, free |-> t.free]
    BY <1>1 DEF TableOK
  <2>2. QED BY <2>1
<1> HIDE DEF t, hs
<1>3. v = [entry |-> t.entry, handlers |-> hs, free |-> t.free]
  BY <1>1, <1>2 DEF TableOK
<1>4. /\ v = [entry |-> v.entry, handlers |-> v.handlers, free |-> v.free]
      /\ v.entry = t.entry /\ v.handlers = hs /\ v.free = t.free
  BY <1>3
<1>5. /\ v.handlers = [e \in Entries |-> v.handlers[e]]
      /\ \A e \in Entries : e \notin s.entries => v.handlers[e] = t.handlers[e]
  BY <1>4 DEF hs
<1>6. TableOK(v)
  <2>1. \A e \in Static : v.handlers[e] = t.handlers[e]
    BY <1>1, <1>5, EntryNumbers
  <2>2. /\ \A e \in Entries : HandlerOK(v.handlers[e])
        /\ \A e \in Static : v.handlers[e].delegate # "stub"
    <3>1. \A e \in Entries : e \in s.entries => v.handlers[e] = g[e]
      BY <1>4 DEF hs
    <3>2. QED BY <1>1, <1>5, <2>1, <3>1 DEF TableOK
  <2>3. \A i \in 1 .. Len(v.free) : v.free[i] \notin Mapped(v, Rows)
    BY <1>1, <1>4 DEF TableOK, Mapped
  <2>4. /\ v.entry \in [Rows -> Entries] /\ v.free \in Seq(Dynamic)
        /\ \A i, j \in 1 .. Len(v.free) : i < j => v.free[i] # v.free[j]
    BY <1>1, <1>4 DEF TableOK
  <2>5. QED BY <1>4, <1>5, <2>2, <2>3, <2>4 DEF TableOK
<1>7. ASSUME NEW x \in Rows, v.entry[x] = u.entry[x]
      PROVE  v.handlers[u.entry[x]] = u.handlers[u.entry[x]]
  <2>1. t.entry[x] = u.entry[x]
    BY <1>4, <1>7
  <2>2. x \notin rows
    BY <2>1 DEF Ranged, t
  <2>3. u.entry[x] \in Mapped(u, Rows \ rows)
    BY <2>2 DEF Mapped
  <2>4. t.handlers[u.entry[x]] = u.handlers[u.entry[x]] /\ u.entry[x] \notin s.entries
    BY <2>3 DEF Ranged, t
  <2>5. u.entry[x] \in Entries
    BY DEF TableOK
  <2>6. QED BY <1>5, <2>4, <2>5
<1>8. QED BY <1>6, <1>7 DEF Survives

(* Installing the handler of a device leaves the handlers of the rows      *)
(* outside alone (install_read_handler, install_write_handler).            *)
LEMMA HandlerSurvives ==
  ASSUME NEW u, TableOK(u), NEW r, Fits(u, r), NEW k \in {1, 2, 4, 8}, NEW dev
  PROVE  Survives(u, InstallHandler(u, r, k, dev))
<1> DEFINE lanes == Lanes(r)
           s == SetupRange(u, r, lanes)
           cs == IF r.cs = 0 THEN k ELSE r.cs
           g == [e \in Entries |-> set_delegate(s.table.handlers[e], lanes, k, cs, dev)]
           v == [s.table EXCEPT !.handlers = [e \in Entries |-> IF e \in s.entries THEN g[e] ELSE @[e]]]
<1>1. RowsOf(r) \in SUBSET Rows
  BY DEF RowsOf
<1>2. Ranged(u, s, RowsOf(r))
  <2>1. s.fits
    BY DEF Fits
  <2> HIDE DEF lanes
  <2>2. QED BY <2>1, SetupRangeKeeps
<1>3. InstallHandler(u, r, k, dev) = v
  <2>1. s.table = [entry |-> s.table.entry, handlers |-> s.table.handlers, free |-> s.table.free]
    BY <1>2 DEF Ranged, TableOK
  <2>2. InstallHandler(u, r, k, dev) =
          [s.table EXCEPT !.handlers =
             [e \in Entries |-> IF e \in s.entries
                                THEN set_delegate(@[e], lanes, k, cs, dev) ELSE @[e]]]
    BY DEF InstallHandler
  <2> HIDE DEF s, lanes, cs
  <2>3. QED BY <2>1, <2>2
<1>a. \A e \in s.entries : HandlerOK(g[e])
  <2> TAKE e \in s.entries
  <2>1. e \in Entries /\ HandlerOK(s.table.handlers[e])
    BY <1>2, EntryNumbers DEF Ranged, TableOK
  <2> HIDE DEF s, lanes, cs
  <2>2. HandlerOK(set_delegate(s.table.handlers[e], lanes, k, cs, dev))
    BY <2>1, SetDelegateOK
  <2>3. QED BY <2>1, <2>2
<1> HIDE DEF s, g
<1>4. Survives(u, v)
  BY <1>1, <1>2, <1>a, InstallSurvives
<1>5. QED BY <1>3, <1>4

(* So does installing a device that is given the address alone.            *)
LEMMA SetOffsetSurvives ==
  ASSUME NEW u, TableOK(u), NEW r, Fits(u, r), NEW dev
  PROVE  Survives(u, InstallSetOffset(u, r, dev))
<1> DEFINE s == SetupRange(u, r, Lanes(r))
           g == [e \in Entries |-> [s.table.handlers[e] EXCEPT !.delegate = dev]]
           v == [s.table EXCEPT !.handlers = [e \in Entries |-> IF e \in s.entries THEN g[e] ELSE @[e]]]
<1>1. RowsOf(r) \in SUBSET Rows
  BY DEF RowsOf
<1>2. Ranged(u, s, RowsOf(r))
  <2>1. s.fits
    BY DEF Fits
  <2> DEFINE lanes == Lanes(r)
  <2> HIDE DEF lanes
  <2>2. Ranged(u, SetupRange(u, r, lanes), RowsOf(r)) \/ ~SetupRange(u, r, lanes).fits
    BY SetupRangeKeeps
  <2>3. QED BY <2>1, <2>2 DEF lanes
<1>3. InstallSetOffset(u, r, dev) = v
  <2>1. s.table = [entry |-> s.table.entry, handlers |-> s.table.handlers, free |-> s.table.free]
    BY <1>2 DEF Ranged, TableOK
  <2>2. InstallSetOffset(u, r, dev) =
          [s.table EXCEPT !.handlers =
             [e \in Entries |-> IF e \in s.entries THEN [@[e] EXCEPT !.delegate = dev] ELSE @[e]]]
    BY DEF InstallSetOffset
  <2> HIDE DEF s
  <2>3. QED BY <2>1, <2>2
<1>a. \A e \in s.entries : HandlerOK(g[e])
  <2> TAKE e \in s.entries
  <2>1. e \in Entries /\ HandlerOK(s.table.handlers[e])
    BY <1>2, EntryNumbers DEF Ranged, TableOK
  <2> HIDE DEF s
  <2>2. QED BY <2>1, DelegateOK
<1> HIDE DEF s, g
<1>4. Survives(u, v)
  BY <1>1, <1>2, <1>a, InstallSurvives
<1>5. QED BY <1>3, <1>4

(* A bank, or nothing, behind the rows.                                    *)
LEMMA StaticSurvives ==
  ASSUME NEW u, TableOK(u), NEW rows \in SUBSET Rows, NEW e \in Static, NEW z,
         z = Populate(u, rows, e)
  PROVE  Survives(u, z)
<1>1. e \in Entries /\ e \notin Dynamic
  BY EntryNumbers
<1>2. ~IsFree(u, e)
  BY <1>1 DEF IsFree, TableOK
<1>3. Populated(u, z, rows, e)
  BY <1>1, <1>2, PopulateKeeps
<1>4. ASSUME NEW x \in Rows, z.entry[x] = u.entry[x], u.entry[x] \in Dynamic
      PROVE  z.handlers[u.entry[x]] = u.handlers[u.entry[x]]
  <2>1. x \notin rows
    BY <1>1, <1>3, <1>4 DEF Populated
  <2>2. u.entry[x] \in Mapped(u, Rows \ rows)
    BY <2>1 DEF Mapped
  <2>3. QED BY <1>3, <2>2 DEF Populated
<1>5. QED BY <1>3, <1>4 DEF Survives, Populated

(* So does mapping a bank (install_bank_generic).                          *)
LEMMA BankSurvives ==
  ASSUME NEW u, TableOK(u), NEW r
  PROVE  Survives(u, InstallBank(u, r))
<1> DEFINE h == u.handlers[STATIC_BANK1]
           c == configure(h, r.start, AddressMask(r))
           v == [u EXCEPT !.handlers[STATIC_BANK1] = c]
           z == Populate(v, RowsOf(r), STATIC_BANK1)
<1>1. InstallBank(u, r) = z
  BY DEF InstallBank
<1>2. HandlerOK(c) /\ c.delegate # "stub"
  <2> DEFINE start == r.start
             mask == AddressMask(r)
  <2>1. HandlerOK(h) /\ h.delegate # "stub"
    BY EntryNumbers DEF TableOK
  <2> HIDE DEF h, start, mask
  <2>2. HandlerOK(configure(h, start, mask)) /\ configure(h, start, mask).delegate = h.delegate
    BY <2>1, ConfigureOK
  <2>3. QED BY <2>1, <2>2 DEF start, mask
<1> HIDE DEF c
<1>3. /\ v = [entry |-> u.entry, handlers |-> [u.handlers EXCEPT ![STATIC_BANK1] = c], free |-> u.free]
      /\ v.entry = u.entry /\ v.free = u.free /\ v.handlers = [u.handlers EXCEPT ![STATIC_BANK1] = c]
  <2>1. u = [entry |-> u.entry, handlers |-> u.handlers, free |-> u.free]
    BY DEF TableOK
  <2>2. v = [entry |-> u.entry, handlers |-> [u.handlers EXCEPT ![STATIC_BANK1] = c], free |-> u.free]
    BY <2>1
  <2> HIDE DEF v
  <2>3. QED BY <2>2
<1> HIDE DEF v
<1>4. /\ v.handlers = [e \in Entries |-> v.handlers[e]]
      /\ v.handlers[STATIC_BANK1] = c
      /\ \A e \in Entries : e # STATIC_BANK1 => v.handlers[e] = u.handlers[e]
  BY <1>3, EntryNumbers DEF TableOK
<1>5. TableOK(v)
  <2>1. /\ \A e \in Entries : HandlerOK(v.handlers[e])
        /\ \A e \in Static : v.handlers[e].delegate # "stub"
    BY <1>2, <1>4, EntryNumbers DEF TableOK
  <2>2. \A i \in 1 .. Len(v.free) : v.free[i] \notin Mapped(v, Rows)
    BY <1>3 DEF TableOK, Mapped
  <2>3. v = [entry |-> v.entry, handlers |-> v.handlers, free |-> v.free]
    BY <1>3
  <2>4. /\ v.entry \in [Rows -> Entries] /\ v.free \in Seq(Dynamic)
        /\ \A i, j \in 1 .. Len(v.free) : i < j => v.free[i] # v.free[j]
    BY <1>3 DEF TableOK
  <2>5. QED BY <1>4, <2>1, <2>2, <2>3, <2>4 DEF TableOK
<1>6. RowsOf(r) \in SUBSET Rows /\ z = Populate(v, RowsOf(r), STATIC_BANK1)
  BY DEF RowsOf
<1> HIDE DEF z
<1>7. Survives(v, z)
  BY <1>5, <1>6, StaticSurvives, EntryNumbers
<1>8. \A x \in Rows : u.entry[x] \in Dynamic => u.entry[x] \in Entries /\ u.entry[x] # STATIC_BANK1
  BY EntryNumbers
<1>9. QED BY <1>1, <1>3, <1>4, <1>7, <1>8 DEF Survives

(* So does unmapping (unmap_generic).                                      *)
LEMMA UnmapSurvives ==
  ASSUME NEW u, TableOK(u), NEW r
  PROVE  Survives(u, Unmap(u, r))
<1>1. RowsOf(r) \in SUBSET Rows
  BY DEF RowsOf
<1>2. QED BY <1>1, StaticSurvives, EntryNumbers DEF Unmap

(* No row is mapped at first.                                              *)
LEMMA NewTableOK == TableOK(NewTable)
<1> DEFINE u == NewTable
           free == Ascending(Dynamic)
           entry == [row \in Rows |-> STATIC_UNMAP]
           H(e) == CASE e = STATIC_UNMAP -> [NewHandler EXCEPT !.populated = TRUE]
                   []   e = STATIC_BANK1 -> [NewHandler EXCEPT !.delegate = "ram"]
                   []   OTHER            -> NewHandler
           handlers == [e \in Entries |-> H(e)]
<1>1. free \in Seq(Dynamic) /\ \A i, j \in 1 .. Len(free) : i < j => free[i] # free[j]
  <2>1. SUBTABLE_BASE \in Nat /\ Dynamic \in SUBSET (0 .. SUBTABLE_BASE)
    BY HandlersAssumption DEF Dynamic, STATIC_COUNT
  <2>2. /\ Ascending(Dynamic) \in Seq(Nat)
        /\ \A i \in 1 .. Len(Ascending(Dynamic)) : Ascending(Dynamic)[i] \in Dynamic
        /\ \A i, j \in 1 .. Len(Ascending(Dynamic)) : i < j => Ascending(Dynamic)[i] # Ascending(Dynamic)[j]
    BY <2>1, AscendingIs
  <2> HIDE DEF free
  <2>3. free \in Seq(Nat) /\ \A i \in 1 .. Len(free) : free[i] \in Dynamic
    BY <2>2 DEF free
  <2>4. free \in Seq(Dynamic)
    BY <2>3
  <2>5. QED BY <2>2, <2>4 DEF free
<1>2. u = [entry |-> entry, handlers |-> handlers, free |-> free]
  BY DEF NewTable
<1>3. (\A e \in Entries : HandlerOK(H(e))) /\ \A e \in Static : H(e).delegate # "stub"
  <2>1. NewHandler = [populated |-> FALSE, addrstart |-> 0, addrmask |-> Bits, bytemask |-> Bits,
                      delegate |-> "none", subs |-> <<>>, invsubmask |-> {}]
    BY DEF NewHandler
  <2> DEFINE a == [NewHandler EXCEPT !.populated = TRUE]
             b == [NewHandler EXCEPT !.delegate = "ram"]
  <2>2. {"delegate", "subs"} \subseteq DOMAIN NewHandler /\ NewHandler.subs = <<>>
    BY <2>1
  <2>3. HandlerOK(NewHandler)
    <3>1. <<>> \in Seq({})
      OBVIOUS
    <3>2. IsSequence(<<>>)
      BY <3>1, SequenceIs
    <3>3. QED BY <2>2, <3>2 DEF HandlerOK
  <2>4. HandlerOK(a) /\ a.delegate # "stub"
    BY <2>1, <2>3 DEF HandlerOK
  <2>5. HandlerOK(b) /\ b.delegate # "stub"
    BY <2>1, <2>3 DEF HandlerOK
  <2>6. \A e \in Static : H(e) = a \/ H(e) = b
    BY DEF Static
  <2>7. \A e \in Entries : H(e) = a \/ H(e) = b \/ H(e) = NewHandler
    OBVIOUS
  <2> HIDE DEF H, a, b
  <2>8. QED BY <2>3, <2>4, <2>5, <2>6, <2>7
<1> HIDE DEF u, free, H
<1>4. /\ u = [entry |-> u.entry, handlers |-> u.handlers, free |-> u.free]
      /\ u.entry = entry /\ u.handlers = handlers /\ u.free = free
  BY <1>2
<1>5. \A x \in Rows : u.entry[x] = STATIC_UNMAP
  BY <1>4
<1>6. \A i \in 1 .. Len(u.free) : u.free[i] \notin Mapped(u, Rows)
  <2>1. \A i \in 1 .. Len(u.free) : u.free[i] \in Dynamic
    BY <1>1, <1>4
  <2>2. QED BY <1>5, <2>1, EntryNumbers DEF Mapped
<1>7. u.entry \in [Rows -> Entries]
  BY <1>4, EntryNumbers
<1>8. /\ \A e \in Entries : HandlerOK(u.handlers[e])
      /\ \A e \in Static : u.handlers[e].delegate # "stub"
  BY <1>3, <1>4, EntryNumbers
<1>9. u.handlers = [e \in Entries |-> u.handlers[e]]
  BY <1>4
<1>10. QED BY <1>1, <1>4, <1>6, <1>7, <1>8, <1>9 DEF TableOK, u

---------------------------------------------------------------------------------
(* A native access and the handler it found.                               *)

(* A stub has called the units up to the index, each once and in turn.     *)
StubServed(n, h) ==
  /\ n.want = StubCalls(h, n.offset, n.lanes)
  /\ n.calls \in Seq(n.want)
  /\ \A w \in n.want : w[1] <= n.index => \E j \in 1 .. Len(n.calls) : n.calls[j] = w
  /\ \A j \in 1 .. Len(n.calls) : n.calls[j][1] <= n.index
  /\ \A j, k \in 1 .. Len(n.calls) : j < k => n.calls[j][1] < n.calls[k][1]

(* A handler as wide as the bus has one delegate to call at most.          *)
WholeServed(n) ==
  \/ n.index = 0 /\ n.calls = <<>> /\ (n.want = {} \/ \E c : n.want = {c})
  \/ n.index = 1 /\ \E c : n.want = {c} /\ n.calls = <<c>>

InService(n) ==
  /\ n.index \in Nat
  /\ n.stub = TRUE => n.entry \in Dynamic
  /\ n.stub = FALSE => WholeServed(n)
  /\ n.stub \in BOOLEAN /\ n.alive \in BOOLEAN

FinishInv ==
  /\ big \in BOOLEAN
  /\ tables = [d \in Tables |-> tables[d]] /\ \A d \in Tables : TableOK(tables[d])
  /\ access # None => access.todo \in Seq(NativeAccesses) /\ access.todo # <<>>
  /\ Serving => /\ InService(native)
                /\ native.stub = TRUE /\ native.alive = TRUE => StubServed(native, Running)

(* The stub finds its next unit: none is skipped and none comes twice.     *)
LEMMA OneMoreUnit ==
  ASSUME NEW h, HandlerOK(h), NEW n, StubServed(n, h), n.index \in Nat,
         NEW S, S = {i \in DOMAIN h.subs : i > n.index /\ Chosen(h.subs[i], n.lanes)}, S # {},
         NEW c, c = <<Min(S), UnitCall(h.subs[Min(S)], n.offset, n.lanes)>>,
         NEW m, m.want = n.want, m.offset = n.offset, m.lanes = n.lanes,
         m.index = Min(S), m.calls = Append(n.calls, c)
  PROVE  StubServed(m, h)
<1> DEFINE x == Min(S)
           C == n.calls
           D == m.calls
<1>1. S \in SUBSET Nat
  BY UnitNumbers
<1>2. x \in S /\ \A y \in S : x <= y
  BY <1>1, MinIsLeast
<1>3. x \in Nat /\ x > n.index /\ x \in DOMAIN h.subs /\ Chosen(h.subs[x], n.lanes)
  BY <1>1, <1>2
<1>4. c = <<x, UnitCall(h.subs[x], n.offset, n.lanes)>>
  OBVIOUS
<1> HIDE DEF x
<1>5. c \in n.want /\ c[1] = x
  <2>1. c \in {<<i, UnitCall(h.subs[i], n.offset, n.lanes)>> :
                 i \in {k \in DOMAIN h.subs : Chosen(h.subs[k], n.lanes)}}
    BY Zenon, <1>3, <1>4
  <2>2. c[1] = x
    BY <1>4
  <2>3. QED BY <2>1, <2>2 DEF StubServed, StubCalls
<1>6. \A w \in n.want : w[1] \in Nat /\ (w[1] <= x => w[1] <= n.index \/ w = c)
  <2> TAKE w \in n.want
  <2>1. PICK i \in DOMAIN h.subs : /\ Chosen(h.subs[i], n.lanes)
                                   /\ w = <<i, UnitCall(h.subs[i], n.offset, n.lanes)>>
    BY DEF StubServed, StubCalls
  <2>2. w[1] = i /\ i \in Nat
    BY <2>1, UnitNumbers
  <2>3. i > n.index => x <= i
    BY <1>2, <2>1
  <2>4. i = x => w = c
    BY <1>4, <2>1
  <2>5. QED BY <1>3, <2>2, <2>3, <2>4
<1>7. C \in Seq(n.want) /\ Len(C) \in Nat
  BY DEF StubServed
<1>a. D = Append(C, c)
  OBVIOUS
<1> DEFINE T == n.want
<1> HIDE DEF C, D, T
<1>8. /\ D \in Seq(T) /\ Len(D) = Len(C) + 1 /\ D[Len(C) + 1] = c
      /\ \A j \in 1 .. Len(C) : D[j] = C[j]
  <2>1. C \in Seq(T) /\ c \in T
    BY <1>5, <1>7 DEF T
  <2>2. QED BY <1>a, <2>1
<1>9. \A j \in 1 .. Len(D) : j \in 1 .. Len(C) \/ j = Len(C) + 1
  BY <1>7, <1>8
<1>10. \A j \in 1 .. Len(C) : C[j] \in n.want /\ C[j][1] \in Nat /\ C[j][1] <= n.index
  <2> TAKE j \in 1 .. Len(C)
  <2>1. C[j] \in n.want
    BY <1>7
  <2>2. C[j][1] <= n.index
    BY DEF StubServed, C
  <2>3. QED BY <1>6, <2>1, <2>2
<1>11. \A w \in n.want : w[1] <= x => \E j \in 1 .. Len(D) : D[j] = w
  <2> TAKE w \in n.want
  <2> HAVE w[1] <= x
  <2>1. CASE w = c
    <3>1. Len(C) + 1 \in 1 .. Len(D)
      BY <1>7, <1>8
    <3>2. D[Len(C) + 1] = w
      BY <1>8, <2>1
    <3>3. QED BY <3>1, <3>2
  <2>2. CASE w[1] <= n.index
    <3>1. PICK j \in 1 .. Len(C) : C[j] = w
      BY <2>2 DEF StubServed, C
    <3>2. j \in 1 .. Len(D) /\ D[j] = w
      BY <1>7, <1>8, <3>1
    <3>3. QED BY <3>2
  <2>3. QED BY <1>6, <2>1, <2>2
<1>12. \A j \in 1 .. Len(D) : D[j][1] <= x
  BY <1>3, <1>5, <1>8, <1>9, <1>10
<1>13. \A j, k \in 1 .. Len(D) : j < k => D[j][1] < D[k][1]
  <2> TAKE j, k \in 1 .. Len(D)
  <2> HAVE j < k
  <2>1. j \in 1 .. Len(C)
    BY <1>7, <1>8, <1>9
  <2>2. CASE k \in 1 .. Len(C)
    BY <1>8, <2>1, <2>2 DEF StubServed, C
  <2>3. CASE k = Len(C) + 1
    BY <1>3, <1>5, <1>8, <1>10, <2>1, <2>3
  <2>4. QED BY <1>9, <2>2, <2>3
<1>14. D \in Seq(m.want) /\ m.want = StubCalls(h, m.offset, m.lanes) /\ m.index = x
  BY <1>8 DEF StubServed, x, T
<1>15. QED BY <1>11, <1>12, <1>13, <1>14 DEF StubServed, D

(* Whatever changes the space leaves the handlers that stay mapped alone.  *)
LEMMA ChangeSurvives ==
  ASSUME FinishInv, Change \/ NoChange
  PROVE  /\ tables' = [d \in Tables |-> tables'[d]]
         /\ \A d \in Tables : Survives(tables[d], tables'[d])
         /\ big' = big
<1>1. /\ tables = [d \in Tables |-> tables[d]] /\ \A d \in Tables : TableOK(tables[d])
      /\ Directions \subseteq Tables
  BY DEF FinishInv, Directions, Tables
<1>2. \A d \in Tables : Survives(tables[d], tables[d])
  BY <1>1 DEF Survives
<1>3. CASE NoChange
  BY <1>1, <1>2, <1>3 DEF NoChange
<1>4. ASSUME NEW i \in Installs, Install(i)
      PROVE  /\ tables' = [d \in Tables |-> tables'[d]]
             /\ \A d \in Tables : Survives(tables[d], tables'[d])
             /\ big' = big
  <2> DEFINE u == tables[i.dir]
             v == IF i.dir = "setoffset" THEN InstallSetOffset(u, i, i.dev)
                                         ELSE InstallHandler(u, i, i.bytes, i.dev)
  <2>1. i.dir \in Tables /\ i.bytes \in {1, 2, 4, 8}
    BY SpaceAccessAssumption
  <2>2. tables' = [tables EXCEPT ![i.dir] = v] /\ Fits(u, i) /\ big' = big
    BY <1>1, <1>4, <2>1 DEF Install
  <2>3. TableOK(u)
    BY <1>1, <2>1
  <2> HIDE DEF u
  <2>4. Survives(u, InstallSetOffset(u, i, i.dev))
    <3> DEFINE dev == i.dev
    <3> HIDE DEF dev
    <3>1. Survives(u, InstallSetOffset(u, i, dev))
      BY <2>2, <2>3, SetOffsetSurvives
    <3>2. QED BY <3>1 DEF dev
  <2>5. Survives(u, InstallHandler(u, i, i.bytes, i.dev))
    <3> DEFINE dev == i.dev
               k == i.bytes
    <3> HIDE DEF dev, k
    <3>1. k \in {1, 2, 4, 8}
      BY <2>1 DEF k
    <3>2. Survives(u, InstallHandler(u, i, k, dev))
      BY <2>2, <2>3, <3>1, HandlerSurvives
    <3>3. QED BY <3>2 DEF dev, k
  <2>6. Survives(u, v)
    BY <2>4, <2>5
  <2> HIDE DEF v
  <2>7. tables'[i.dir] = v /\ \A d \in Tables : d # i.dir => tables'[d] = tables[d]
    BY <1>1, <2>1, <2>2
  <2>8. tables' = [d \in Tables |-> tables'[d]]
    BY <1>1, <2>2
  <2>9. QED BY <1>2, <2>2, <2>6, <2>7, <2>8 DEF u
<1>5. CASE InstallRam
  <2>1. /\ tables' = [d \in Tables |-> IF d \in Directions THEN InstallBank(tables[d], BankRange)
                                                           ELSE tables[d]]
        /\ big' = big
    BY <1>5 DEF InstallRam
  <2>2. \A d \in Tables : tables'[d] = IF d \in Directions THEN InstallBank(tables[d], BankRange)
                                                           ELSE tables[d]
    BY <2>1
  <2>3. ASSUME NEW d \in Tables PROVE Survives(tables[d], tables'[d])
    <3>1. CASE d \in Directions
      <4>1. Survives(tables[d], InstallBank(tables[d], BankRange))
        BY <1>1, BankSurvives
      <4>2. QED BY <2>2, <3>1, <4>1
    <3>2. CASE d \notin Directions
      BY <1>2, <2>2, <3>2
    <3>3. QED BY <3>1, <3>2
  <2>4. tables' = [d \in Tables |-> tables'[d]]
    BY <2>1
  <2>5. QED BY <2>1, <2>3, <2>4
<1>6. ASSUME NEW d \in Directions, UnmapRange(d)
      PROVE  /\ tables' = [x \in Tables |-> tables'[x]]
             /\ \A x \in Tables : Survives(tables[x], tables'[x])
             /\ big' = big
  <2>1. tables' = [tables EXCEPT ![d] = Unmap(tables[d], Unmapped)] /\ big' = big
    BY <1>1, <1>6 DEF UnmapRange
  <2>2. Survives(tables[d], Unmap(tables[d], Unmapped))
    BY <1>1, UnmapSurvives
  <2>3. /\ tables'[d] = Unmap(tables[d], Unmapped)
        /\ \A x \in Tables : x # d => tables'[x] = tables[x]
    BY <1>1, <2>1
  <2>4. tables' = [x \in Tables |-> tables'[x]]
    BY <1>1, <2>1
  <2>5. QED BY <1>2, <2>1, <2>2, <2>3, <2>4
<1>7. ASSUME NEW d \in Directions, NEW on \in BOOLEAN, EnableWatchpoints(d, on)
      PROVE  tables' = tables /\ big' = big
  BY <1>7 DEF EnableWatchpoints
<1>8. CASE tables' = tables /\ big' = big
  BY <1>1, <1>2, <1>8
<1>9. QED BY <1>3, <1>4, <1>5, <1>6, <1>7, <1>8 DEF Change

(* Nothing is in progress at first, and no row is mapped.                  *)
LEMMA FinishInit == Init => FinishInv
<1> SUFFICES ASSUME Init PROVE FinishInv
  OBVIOUS
<1>1. big \in BOOLEAN /\ access = None /\ native = None /\ tables = [d \in Tables |-> NewTable]
  BY DEF Init
<1>2. \A d \in Tables : tables[d] = NewTable
  BY <1>1
<1>3. tables = [d \in Tables |-> tables[d]]
  BY <1>1
<1>4. \A d \in Tables : TableOK(tables[d])
  BY <1>2, NewTableOK
<1>5. QED BY <1>1, <1>3, <1>4 DEF FinishInv, Serving, InNative

(* The handler that a native access finds, with nothing called yet.        *)
LEMMA ServeBegins ==
  ASSUME FinishInv, WatchInv, access # None, UNCHANGED <<tables, access>>, NEW watched, NEW old,
         native' = Serve(Head(access.todo), watched, old)
  PROVE  InService(native') /\ (native'.stub = TRUE /\ native'.alive = TRUE => StubServed(native', Running'))
<1> DEFINE n == Head(access.todo)
           u == tables[access.dir]
           e == u.entry[n.row]
           h == u.handlers[e]
           o == HandlerOffset(h, n.row)
           lanes == n.lanes
           row == n.row
           m == native'
<1>1. n \in NativeAccesses
  BY DEF FinishInv
<1>2. access.dir \in Tables
  BY DEF WatchInv, Nested, Directions, Tables
<1>3. TableOK(u)
  BY <1>2 DEF FinishInv
<1>4. row \in Rows
  BY <1>1 DEF NativeAccesses
<1>5. e \in Entries /\ HandlerOK(h) /\ (e \in Static => h.delegate # "stub")
  BY <1>3, <1>4 DEF TableOK
<1>6. m = [pc |-> "serve", row |-> row, lanes |-> lanes, entry |-> e, stub |-> h.delegate = "stub",
           offset |-> o, index |-> 0, watched |-> watched, oldtable |-> old,
           want |-> CallsOf(h, row, lanes), calls |-> <<>>, alive |-> TRUE]
  BY DEF Serve
<1>7. Running' = h \/ m.entry # e
  BY DEF Running
<1> HIDE DEF m, h, e, u, row, lanes, n
<1>8. /\ m.entry = e /\ m.lanes = lanes /\ m.index = 0 /\ m.calls = <<>> /\ m.offset = o
      /\ m.want = CallsOf(h, row, lanes) /\ m.alive = TRUE
  BY <1>6
<1>9. m.stub = (h.delegate = "stub")
  BY <1>6
<1>10. Running' = h
  BY <1>7, <1>8
<1>11. CASE h.delegate = "stub"
  <2>1. m.stub = TRUE
    BY <1>9, <1>11
  <2>2. m.want = StubCalls(h, o, lanes)
    BY <1>8, <1>11 DEF CallsOf, row
  <2>3. \A w \in m.want : ~ (w[1] <= 0)
    <3> TAKE w \in m.want
    <3>1. PICK i \in DOMAIN h.subs : w = <<i, UnitCall(h.subs[i], o, lanes)>>
      BY <2>2 DEF StubCalls
    <3>2. i \in Nat \ {0} /\ w[1] = i
      BY <1>5, <3>1, UnitNumbers
    <3>3. QED BY <3>2
  <2>4. e \in Dynamic
    BY <1>5, <1>11, EntryNumbers
  <2>5. StubServed(m, h)
    <3>1. m.calls \in Seq(m.want) /\ Len(m.calls) = 0
      BY <1>8
    <3>2. m.want = StubCalls(h, m.offset, m.lanes)
      BY <1>8, <2>2
    <3>3. 1 .. Len(m.calls) = {}
      BY <3>1
    <3>4. QED BY <1>8, <2>3, <3>1, <3>2, <3>3 DEF StubServed
  <2>6. InService(m)
    <3>1. m.index \in Nat /\ m.entry \in Dynamic
      BY <1>8, <2>4
    <3>2. m.stub # FALSE /\ m.stub \in BOOLEAN /\ m.alive \in BOOLEAN
      BY Zenon, <1>8, <2>1
    <3>3. QED BY <3>1, <3>2 DEF InService
  <2>7. QED BY <1>10, <2>5, <2>6 DEF m
<1>12. CASE h.delegate # "stub"
  <2>1. m.stub = FALSE
    BY <1>9, <1>12
  <2>2. m.want = {} \/ \E c : m.want = {c}
    <3>1. CASE h.delegate = "none"
      BY <1>8, <3>1 DEF CallsOf
    <3>2. CASE h.delegate # "none"
      <4> DEFINE c == WholeCall(h, o, lanes)
      <4>1. CallsOf(h, row, lanes) = {<<1, c>>}
        BY <1>12, <3>2 DEF CallsOf, row
      <4> HIDE DEF c
      <4>2. m.want = {<<1, c>>}
        BY <1>8, <4>1
      <4>3. QED BY <4>2
    <3>3. QED BY <3>1, <3>2
  <2>3. WholeServed(m)
    BY <1>8, <2>2 DEF WholeServed
  <2>4. InService(m)
    <3>1. m.index \in Nat
      BY <1>8
    <3>2. m.stub # TRUE /\ m.stub \in BOOLEAN /\ m.alive \in BOOLEAN
      BY Zenon, <1>8, <2>1
    <3>3. QED BY <2>3, <3>1, <3>2 DEF InService
  <2>5. QED BY <2>1, <2>4 DEF m
<1>13. QED BY <1>11, <1>12

(* One more call.                                                          *)
LEMMA CallKeeps ==
  ASSUME FinishInv, WatchInv, CallDelegate
  PROVE  InService(native') /\ (native'.stub = TRUE /\ native'.alive = TRUE => StubServed(native', Running'))
<1> DEFINE n == native
           m == native'
           i == IF native.stub THEN Min(NextUnits) ELSE 1
           c == IF native.stub
                THEN <<i, UnitCall(Running.subs[i], native.offset, native.lanes)>>
                ELSE CHOOSE w \in native.want : TRUE
           t == tables[access.dir]
           u == tables'[access.dir]
           kept == \/ native.entry \in Static
                   \/ \E row \in Rows : {t.entry[row], u.entry[row]} = {native.entry}
           calls == Append(native.calls, c)
           alive == native.alive /\ kept
<1>1. /\ native # None /\ native.pc = "serve" /\ ServeShape(native) /\ MoreToCall
      /\ access.dir \in Tables /\ access' = access
  BY DEF CallDelegate, InNative, WatchInv, Nested, Directions, Tables
<1>2. Change \/ NoChange
  BY DEF CallDelegate
<1>3. InService(n) /\ (n.stub = TRUE /\ n.alive = TRUE => StubServed(n, Running))
  BY <1>1 DEF FinishInv, Serving, InNative
<1>4. Survives(t, u) /\ TableOK(t)
  BY <1>1, <1>2, ChangeSurvives DEF FinishInv
<1>5. m = [native EXCEPT !.index = i, !.calls = calls, !.alive = alive]
  BY DEF CallDelegate
<1>6. Running = t.handlers[n.entry] /\ Running' = u.handlers[m.entry]
  BY <1>1 DEF Running
<1>7. n.stub = TRUE => i = Min(NextUnits) /\ c = <<i, UnitCall(Running.subs[i], n.offset, n.lanes)>>
  OBVIOUS
<1>8. n.stub = FALSE => i = 1 /\ c = CHOOSE w \in n.want : TRUE
  OBVIOUS
<1>9. n.stub = TRUE => NextUnits # {}
  BY <1>1 DEF MoreToCall
<1>10. n.stub = FALSE => n.index = 0 /\ n.want # {}
  BY <1>1 DEF MoreToCall
<1>11. NextUnits = {x \in DOMAIN Running.subs : x > n.index /\ Chosen(Running.subs[x], n.lanes)}
  BY DEF NextUnits
<1> HIDE DEF n, m, i, c, t, u, calls, alive
<1>12. /\ m.entry = n.entry /\ m.lanes = n.lanes /\ m.offset = n.offset /\ m.want = n.want
       /\ m.index = i /\ m.calls = calls
  BY <1>1, <1>5 DEF ServeShape, n
<1>13. m.stub = n.stub /\ m.alive = alive
  BY <1>1, <1>5 DEF ServeShape, n
<1>14. n.stub \in BOOLEAN /\ n.alive \in BOOLEAN /\ n.index \in Nat
  BY <1>3 DEF InService
<1>15. alive \in BOOLEAN /\ (alive = TRUE => n.alive = TRUE /\ kept)
  BY <1>14 DEF alive, n
<1>16. CASE n.stub = TRUE
  <2>1. n.entry \in Dynamic /\ n.entry \in Entries /\ n.entry \notin Static
    BY <1>3, <1>16, EntryNumbers DEF InService
  <2>2. HandlerOK(Running)
    BY <1>4, <1>6, <2>1 DEF TableOK
  <2>3. i \in Nat
    <3>1. NextUnits \in SUBSET Nat
      BY <1>11, <2>2, UnitNumbers
    <3>2. QED BY <1>7, <1>9, <1>16, <3>1, MinIsLeast
  <2>4. InService(m)
    BY <1>12, <1>13, <1>14, <1>15, <1>16, <2>1, <2>3 DEF InService
  <2>5. ASSUME alive = TRUE PROVE StubServed(m, Running')
    <3>1. StubServed(n, Running)
      BY <1>3, <1>15, <1>16, <2>5
    <3>2. Running' = Running
      <4>1. PICK row \in Rows : {t.entry[row], u.entry[row]} = {n.entry}
        BY <1>15, <2>1, <2>5 DEF n
      <4>2. t.entry[row] = n.entry /\ u.entry[row] = n.entry
        BY <4>1
      <4>3. u.handlers[n.entry] = t.handlers[n.entry]
        BY <1>4, <2>1, <4>2 DEF Survives
      <4>4. QED BY <1>6, <1>12, <4>3
    <3> DEFINE h == Running
               S == NextUnits
    <3>3. /\ S = {x \in DOMAIN h.subs : x > n.index /\ Chosen(h.subs[x], n.lanes)} /\ S # {}
          /\ c = <<Min(S), UnitCall(h.subs[Min(S)], n.offset, n.lanes)>> /\ i = Min(S)
      BY <1>7, <1>9, <1>11, <1>16
    <3>4. HandlerOK(h) /\ StubServed(n, h)
      BY <2>2, <3>1
    <3>5. m.calls = Append(n.calls, c)
      BY <1>12 DEF calls, n
    <3> HIDE DEF h, S
    <3>6. StubServed(m, h)
      BY <1>12, <1>14, <3>3, <3>4, <3>5, OneMoreUnit
    <3>7. QED BY <3>2, <3>6 DEF h
  <2>6. QED BY <1>13, <2>4, <2>5 DEF m
<1>17. CASE n.stub = FALSE
  <2>1. WholeServed(n) /\ n.index = 0 /\ n.want # {}
    BY <1>3, <1>10, <1>17 DEF InService
  <2>2. PICK w : n.want = {w}
    BY <2>1 DEF WholeServed
  <2>3. n.calls = <<>>
    BY <2>1 DEF WholeServed
  <2>4. c = w
    BY <1>8, <1>17, <2>2
  <2>5. calls = <<w>>
    BY <2>3, <2>4 DEF calls, n
  <2>6. WholeServed(m)
    BY <1>8, <1>12, <1>17, <2>2, <2>5 DEF WholeServed
  <2>7. InService(m)
    <3>1. m.index \in Nat
      BY <1>8, <1>12, <1>17
    <3>2. m.stub # TRUE /\ m.stub \in BOOLEAN /\ m.alive \in BOOLEAN
      BY Zenon, <1>13, <1>15, <1>17
    <3>3. QED BY <2>6, <3>1, <3>2 DEF InService
  <2>8. QED BY <1>13, <1>17, <2>7 DEF m
<1>18. QED BY <1>14, <1>16, <1>17

(* Every step keeps the handler of a native access, and what its stub has  *)
(* called.                                                                 *)
LEMMA FinishStep == FinishInv /\ WatchInv /\ [Next]_vars => FinishInv'
<1> SUFFICES ASSUME FinishInv, WatchInv, [Next]_vars PROVE FinishInv'
  OBVIOUS
<1>1. ASSUME UNCHANGED <<big, tables>>
      PROVE  /\ big' \in BOOLEAN
             /\ tables' = [d \in Tables |-> tables'[d]] /\ \A d \in Tables : TableOK(tables'[d])
  BY <1>1 DEF FinishInv
<1>2. ASSUME Change \/ NoChange
      PROVE  /\ big' \in BOOLEAN
             /\ tables' = [d \in Tables |-> tables'[d]] /\ \A d \in Tables : TableOK(tables'[d])
  BY <1>2, ChangeSurvives DEF FinishInv, Survives
<1>3. ASSUME NEW a \in Inputs, Begin(a) PROVE FinishInv'
  <2>1. access = None /\ NoChange /\ native' = native
    BY <1>3 DEF Begin, Idle
  <2>2. native' = None
    BY <2>1 DEF WatchInv, Nested
  <2>3. access'.todo = read_direct(a)
    BY <1>3 DEF Begin, write_direct
  <2>4. IsAccess(a) /\ a.address \in Addresses /\ big \in BOOLEAN
    BY SpaceAccessAssumption DEF FinishInv
  <2>5. read_direct(a) \in Seq(NativeAccesses) /\ read_direct(a) # <<>>
    BY <2>4, AccessSplits
  <2>6. UNCHANGED <<big, tables>>
    BY <2>1 DEF NoChange
  <2>7. access'.todo \in Seq(NativeAccesses) /\ access'.todo # <<>>
    BY <2>3, <2>5
  <2>8. QED BY <1>1, <2>2, <2>6, <2>7 DEF FinishInv, Serving, InNative
<1>4. ASSUME StartNative PROVE FinishInv'
  <2>1. access # None /\ access' = access /\ UNCHANGED <<big, tables>>
    BY <1>4 DEF StartNative, Idle, NoChange
  <2>2. native' = [pc |-> "hook"] \/ native' = Serve(Head(access.todo), FALSE, "table")
    BY <1>4 DEF StartNative
  <2>3. CASE native' = [pc |-> "hook"]
    <3>1. native'.pc # "serve"
      BY <2>3
    <3>2. QED BY <1>1, <2>1, <3>1 DEF FinishInv, Serving
  <2>4. CASE native' = Serve(Head(access.todo), FALSE, "table")
    <3>1. /\ InService(native')
          /\ native'.stub = TRUE /\ native'.alive = TRUE => StubServed(native', Running')
      BY <2>1, <2>4, ServeBegins
    <3>2. QED BY <1>1, <2>1, <3>1 DEF FinishInv
  <2>5. QED BY <2>2, <2>3, <2>4
<1>5. ASSUME ReturnFromHook PROVE FinishInv'
  <2>1. native # None /\ access' = access /\ UNCHANGED <<big, tables>>
    BY <1>5 DEF ReturnFromHook, InNative
  <2>2. access # None
    BY <2>1 DEF WatchInv, Nested
  <2>3. native' = Serve(Head(access.todo), TRUE, m_live_lookup[access.dir])
    BY <1>5 DEF ReturnFromHook
  <2>4. /\ InService(native')
        /\ native'.stub = TRUE /\ native'.alive = TRUE => StubServed(native', Running')
    BY <2>1, <2>2, <2>3, ServeBegins
  <2>5. QED BY <1>1, <2>1, <2>4 DEF FinishInv
<1>6. ASSUME CallDelegate PROVE FinishInv'
  <2>1. access' = access /\ (Change \/ NoChange)
    BY <1>6 DEF CallDelegate
  <2>2. /\ InService(native')
        /\ native'.stub = TRUE /\ native'.alive = TRUE => StubServed(native', Running')
    BY <1>6, CallKeeps
  <2>3. QED BY <1>2, <2>1, <2>2 DEF FinishInv
<1>7. ASSUME EndNative PROVE FinishInv'
  <2>1. native' = None /\ UNCHANGED <<big, tables>>
    BY <1>7 DEF EndNative
  <2>2. access # None
    BY <1>7 DEF EndNative, InNative, WatchInv, Nested
  <2>3. access' # None => access'.todo \in Seq(NativeAccesses) /\ access'.todo # <<>>
    <3> DEFINE todo == access.todo
    <3>1. todo \in Seq(NativeAccesses) /\ todo # <<>>
      BY <2>2 DEF FinishInv
    <3>2. access = [pc |-> "busy", dir |-> access.dir, todo |-> todo]
      BY <2>2 DEF WatchInv, Nested
    <3>3. access' # None => Len(todo) # 1 /\ access' = [access EXCEPT !.todo = Tail(todo)]
      BY <1>7 DEF EndNative
    <3> HIDE DEF todo
    <3>4. Len(todo) # 1 => Tail(todo) \in Seq(NativeAccesses) /\ Tail(todo) # <<>>
      <4>1. Len(todo) \in Nat \ {0} /\ Tail(todo) \in Seq(NativeAccesses)
            /\ Len(Tail(todo)) = Len(todo) - 1
        BY <3>1
      <4>2. Len(todo) # 1 => Len(Tail(todo)) # 0
        BY <4>1
      <4>3. QED BY <4>1, <4>2
    <3>5. access' # None => access'.todo = Tail(todo)
      BY <3>2, <3>3
    <3>6. QED BY <3>3, <3>4, <3>5
  <2>4. QED BY <1>1, <2>1, <2>3 DEF FinishInv, Serving, InNative
<1>8. ASSUME ChangeOutside PROVE FinishInv'
  <2>1. Change /\ UNCHANGED <<access, native>>
    BY <1>8 DEF ChangeOutside
  <2>2. ~Serving
    BY <1>8 DEF ChangeOutside, Serving, Idle, WatchInv, Nested, InNative
  <2>3. ~Serving'
    BY <2>1, <2>2 DEF Serving, InNative
  <2>4. QED BY <1>2, <2>1, <2>3 DEF FinishInv
<1>9. ASSUME UNCHANGED vars PROVE FinishInv'
  BY <1>9 DEF vars, FinishInv, Serving, InNative, Running
<1>10. QED BY <1>3, <1>4, <1>5, <1>6, <1>7, <1>8, <1>9 DEF Next

(* A native access is finished on the handler it found when it began: the  *)
(* units the stub of that handler had are called, each once and in turn,   *)
(* whatever the delegates it calls install meanwhile, on the same row or   *)
(* on others, as long as one row that had the handler never loses it.      *)
THEOREM AccessesFinish == Spec => []FinishesOnItsHandler
<1>1. FinishInv /\ WatchInv => FinishesOnItsHandler
  <2> SUFFICES ASSUME FinishInv, WatchInv, InNative, native.pc = "serve", ~MoreToCall, native.alive
               PROVE  /\ ToSet(native.calls) = native.want
                      /\ \A j, k \in DOMAIN native.calls : j < k => native.calls[j][1] < native.calls[k][1]
    BY DEF FinishesOnItsHandler
  <2> DEFINE n == native
  <2>1. InService(n) /\ (n.stub = TRUE /\ n.alive = TRUE => StubServed(n, Running))
    BY DEF FinishInv, Serving
  <2>2. n.alive = TRUE /\ n.stub \in BOOLEAN /\ n.index \in Nat
    BY <2>1 DEF InService
  <2>3. CASE n.stub = TRUE
    <3>1. StubServed(n, Running) /\ n.entry \in Dynamic
      BY <2>1, <2>2, <2>3 DEF InService
    <3>2. NextUnits = {}
      BY <2>3 DEF MoreToCall
    <3>3. access.dir \in Tables
      BY DEF WatchInv, Nested, InNative, Directions, Tables
    <3>4. HandlerOK(Running)
      <4>1. TableOK(tables[access.dir]) /\ n.entry \in Entries
        BY <3>1, <3>3, EntryNumbers DEF FinishInv
      <4>2. QED BY <4>1 DEF TableOK, Running
    <3>5. \A w \in n.want : w[1] <= n.index
      <4> TAKE w \in n.want
      <4> DEFINE h == Running
      <4>1. PICK i \in DOMAIN h.subs : /\ Chosen(h.subs[i], n.lanes)
                                       /\ w = <<i, UnitCall(h.subs[i], n.offset, n.lanes)>>
        BY <3>1 DEF StubServed, StubCalls
      <4>2. ~ (i > n.index)
        BY <3>2, <4>1 DEF NextUnits
      <4>3. i \in Nat /\ w[1] = i
        BY <3>4, <4>1, UnitNumbers
      <4>4. QED BY <2>2, <4>2, <4>3
    <3>6. /\ n.calls \in Seq(n.want)
          /\ \A w \in n.want : \E j \in 1 .. Len(n.calls) : n.calls[j] = w
          /\ \A j, k \in 1 .. Len(n.calls) : j < k => n.calls[j][1] < n.calls[k][1]
      BY <3>1, <3>5 DEF StubServed
    <3> DEFINE C == n.calls
               T == n.want
    <3> HIDE DEF C, T, n
    <3>7. C \in Seq(T) => DOMAIN C = 1 .. Len(C) /\ \A j \in 1 .. Len(C) : C[j] \in T
      OBVIOUS
    <3>8. ToSet(C) = T
      BY <3>6, <3>7 DEF ToSet, C, T
    <3>9. QED BY <3>6, <3>7, <3>8 DEF C, T, n
  <2>4. CASE n.stub = FALSE
    <3>1. WholeServed(n)
      BY <2>1, <2>4 DEF InService
    <3>2. ~ (n.index = 0 /\ n.want # {})
      BY <2>4 DEF MoreToCall
    <3> HIDE DEF n
    <3>3. CASE n.calls = <<>> /\ n.want = {}
      BY <3>3 DEF ToSet, n
    <3>4. ASSUME NEW c, n.want = {c}, n.calls = <<c>>
          PROVE  ToSet(n.calls) = n.want /\ DOMAIN n.calls = {1}
      BY <3>4 DEF ToSet
    <3>5. QED BY <3>1, <3>2, <3>3, <3>4 DEF WholeServed, n
  <2>5. QED BY <2>2, <2>3, <2>4
<1>2. Init => FinishInv /\ WatchInv
  BY FinishInit, WatchInit
<1>3. FinishInv /\ WatchInv /\ [Next]_vars => (FinishInv /\ WatchInv)'
  BY FinishStep, WatchStep
<1>4. QED BY <1>1, <1>2, <1>3, PTL DEF Spec

---------------------------------------------------------------------------------
(* The range derived around an address is a range of addresses, and all of *)
(* it has the entry of that address (address_table::derive_range).         *)
LEMMA DerivedRangeIsUniform ==
  ASSUME NEW m \in [Addresses -> ReadEntries], NEW c, NEW a \in Addresses
  PROVE  LET g == derive_range(m, c, a)
         IN  /\ g \in Ranges
             /\ \A x \in g.start .. g.end : m[x] = m[a]
<1> DEFINE top == 2^AddrBits - 1
           B == ScanBack(m, c, a)
           F == ScanAhead(m, c, a)
<1>1. top \in Nat /\ a \in 0 .. top
  BY AddrBitsAssumption DEF Addresses
<1>2. B \in SUBSET Nat /\ a \in B
  BY <1>1 DEF ScanBack
<1>3. F \in SUBSET (0 .. top) /\ a \in F
  BY <1>1 DEF ScanAhead
<1>4. Min(B) \in B
  BY <1>2, MinIsLeast
<1>5. Max(F) \in F
  BY <1>1, <1>3, MaxIsGreatest
<1>6. Min(B) \in 0 .. a /\ \A y \in Min(B) .. a : m[y] = m[a]
  BY <1>4 DEF ScanBack
<1>7. Max(F) \in a .. top /\ \A y \in a .. Max(F) : m[y] = m[a]
  BY <1>5 DEF ScanAhead
<1>8. Min(B) \in Addresses /\ Max(F) \in Addresses
  BY <1>1, <1>6, <1>7 DEF Addresses
<1>9. \A x \in Min(B) .. Max(F) : x \in Min(B) .. a \/ x \in a .. Max(F)
  BY <1>1, <1>6, <1>7
<1>10. QED BY <1>6, <1>7, <1>8, <1>9 DEF derive_range, Ranges

---------------------------------------------------------------------------------
(* What a step closes, removes or maps anew keeps its type.                *)
LEMMA ClosedTypes ==
  ASSUME NEW w \in Windows
  PROVE  Closed(w) \in Windows
BY DEF Windows, Closed

(* Closing the windows and removing the ranges that a request touches.     *)
LEMMA InvalidateTypes ==
  ASSUME TypeOK, NEW s \in Spaces, NEW r, NEW e, InvalidateCaches(s, r, e)
  PROVE  /\ window' \in [Spaces -> Windows]
         /\ ranges' \in [Spaces -> [Banks -> SUBSET Ranges]]
<1>1. RemoveIntersecting(ranges[s], r) \in [Banks -> SUBSET Ranges]
  BY DEF TypeOK, RemoveIntersecting
<1>2. ranges' \in [Spaces -> [Banks -> SUBSET Ranges]]
  BY <1>1 DEF TypeOK, InvalidateCaches
<1>3. (IF window[s].entry = e THEN Closed(window[s]) ELSE window[s]) \in Windows
  BY ClosedTypes DEF TypeOK
<1>4. window' \in [Spaces -> Windows]
  BY <1>3 DEF TypeOK, InvalidateCaches
<1>5. QED BY <1>2, <1>4

(* Mapping a request.                                                      *)
LEMMA PopulateTypes ==
  ASSUME TypeOK, NEW s \in Spaces, NEW r, NEW e \in ReadEntries, PopulateFlat(s, r, e)
  PROVE  map' \in [Spaces -> [Addresses -> ReadEntries]]
BY DEF TypeOK, PopulateFlat

(* Closing the windows of the spaces that refer to some banks.             *)
LEMMA FlushTypes ==
  ASSUME TypeOK, NEW bs \in SUBSET Banks, Flush(bs)
  PROVE  window' \in [Spaces -> Windows]
<1>1. \A s \in Spaces : window[s] \in Windows /\ Closed(window[s]) \in Windows
  BY ClosedTypes DEF TypeOK
<1>2. QED BY <1>1 DEF Flush

(* What is mapped keeps the types.                                         *)
LEMMA MappingKeepsTypes ==
  ASSUME TypeOK, NEW s \in Spaces, Mapping(s)
  PROVE  TypeOK'
<1>1. PICK r \in CallRequests[s] :
         \/ MapOther(s, r)
         \/ InstallMasked(s, r)
         \/ \E b \in Banks : \/ InstallBankTag(s, r, b)
                             \/ InstallBankPointer(s, r, b)
                             \/ InstallBankWrite(s, r, b)
  BY DEF Mapping
<1>2. CASE MapOther(s, r)
  BY <1>2, InvalidateTypes, PopulateTypes DEF MapOther, TypeOK, ReadEntries
<1>3. CASE InstallMasked(s, r)
  <2>1. PopulateFlat(s, OptimizeMirror(r), Other)
    BY <1>3 DEF InstallMasked
  <2>2. map' \in [Spaces -> [Addresses -> ReadEntries]]
    BY <2>1, PopulateTypes DEF ReadEntries
  <2>3. UNCHANGED <<window, ranges, base, slots, curentry, refs>>
    BY <1>3 DEF InstallMasked
  <2>4. QED BY <2>2, <2>3 DEF TypeOK
<1>4. ASSUME NEW b \in Banks, MapBank(s, r, b), refs' \in [Banks -> SUBSET Spaces]
      PROVE  TypeOK'
  BY <1>4, InvalidateTypes, PopulateTypes DEF MapBank, TypeOK, ReadEntries
<1>5. ASSUME NEW b \in Banks, InstallBankTag(s, r, b) PROVE TypeOK'
  BY <1>4, <1>5 DEF InstallBankTag, TypeOK
<1>6. ASSUME NEW b \in Banks, InstallBankPointer(s, r, b) PROVE TypeOK'
  BY <1>4, <1>6 DEF InstallBankPointer, TypeOK
<1>7. ASSUME NEW b \in Banks, InstallBankWrite(s, r, b) PROVE TypeOK'
  BY <1>7, InvalidateTypes DEF InstallBankWrite, TypeOK
<1>8. QED BY <1>1, <1>2, <1>3, <1>5, <1>6, <1>7

(* So does switching or reloading a bank.                                  *)
LEMMA BankingKeepsTypes ==
  ASSUME TypeOK, Banking
  PROVE  TypeOK'
<1>1. ASSUME NEW b \in Banks, NEW p \in Pointers, set_base(b, p) PROVE TypeOK'
  BY <1>1, FlushTypes DEF set_base, TypeOK
<1>2. ASSUME NEW b \in Banks, NEW n \in Slots, set_entry(b, n) PROVE TypeOK'
  <2>1. window' \in [Spaces -> Windows]
    BY <1>2, FlushTypes DEF set_entry
  <2>2. slots[b][n] \in Pointers \cup {NULL}
    BY DEF TypeOK
  <2>3. base' \in [Banks -> Pointers \cup {NULL}]
    BY <1>2, <2>2 DEF set_entry, TypeOK
  <2>4. curentry' \in [Banks -> Slots \cup {Unspecified}]
    BY <1>2 DEF set_entry, TypeOK
  <2>5. QED BY <1>2, <2>1, <2>3, <2>4 DEF set_entry, TypeOK
<1>3. ASSUME NEW b \in Banks, NEW n \in Slots, NEW p \in Pointers, configure_entry(b, n, p)
      PROVE  TypeOK'
  BY <1>3 DEF configure_entry, TypeOK
<1>4. ASSUME NEW loaded \in [Banks -> Slots \cup {Unspecified}], bank_reattach(loaded)
      PROVE  TypeOK'
  <2>1. base' \in [Banks -> Pointers \cup {NULL}]
    <3>1. ASSUME NEW b \in Banks PROVE Reattached(b, loaded) \in Pointers \cup {NULL}
      <4>1. CASE loaded[b] = Unspecified
        BY <4>1 DEF Reattached, TypeOK
      <4>2. CASE loaded[b] \in Slots
        <5>1. slots[b] \in [Slots -> Pointers \cup {NULL}]
          BY DEF TypeOK
        <5>2. base[b] \in Pointers \cup {NULL}
          BY DEF TypeOK
        <5>3. QED BY <4>2, <5>1, <5>2 DEF Reattached
      <4>3. QED BY <4>1, <4>2
    <3>2. QED BY <1>4, <3>1 DEF bank_reattach
  <2>2. QED BY <1>4, <2>1, FlushTypes DEF bank_reattach, TypeOK
<1>5. QED BY <1>1, <1>2, <1>3, <1>4 DEF Banking

(* So does a fetch.                                                        *)
LEMMA FetchKeepsTypes ==
  ASSUME TypeOK, NEW s \in Spaces, NEW a \in Addresses, Fetch(s, a)
  PROVE  TypeOK'
<1> DEFINE b == map[s][a]
<1>1. CASE b \in Banks /\ OpenWindow(s, b, a)
  <2>1. PICK g \in find_range(s, b, a) :
          /\ ranges' = [ranges EXCEPT ![s][b] = @ \cup {g}]
          /\ window' = [window EXCEPT ![s] = [start |-> g.start, end |-> g.end,
                                              entry |-> b, ptr |-> base[b]]]
    BY <1>1 DEF OpenWindow
  <2>2. derive_range(map[s], conf[s][b], a) \in Ranges
    BY DerivedRangeIsUniform DEF TypeOK
  <2>3. g \in Ranges
    <3>1. Covering(ranges[s][b], a) \subseteq Ranges
      BY <1>1 DEF Covering, TypeOK
    <3>2. QED BY <2>1, <2>2, <3>1 DEF find_range
  <2>4. g.start \in Nat /\ g.end \in Nat
    BY <2>3 DEF Ranges, Addresses
  <2>5. base[b] \in Pointers \cup {NULL}
    BY <1>1 DEF TypeOK
  <2>6. window' \in [Spaces -> Windows]
    <3>1. [start |-> g.start, end |-> g.end, entry |-> b, ptr |-> base[b]] \in Windows
      BY <1>1, <2>4, <2>5 DEF Windows, ReadEntries
    <3>2. QED BY <2>1, <3>1 DEF TypeOK
  <2>7. ranges' \in [Spaces -> [Banks -> SUBSET Ranges]]
    BY <1>1, <2>1, <2>3 DEF TypeOK
  <2>8. QED BY <2>6, <2>7 DEF TypeOK, Fetch
<1>2. CASE b \notin Banks /\ set_direct_region(s, a)
  <2>1. b \in ReadEntries
    BY DEF TypeOK
  <2>2. [window[s] EXCEPT !.entry = b] \in Windows
    <3>1. window[s] \in Windows
      BY DEF TypeOK
    <3>2. QED BY <2>1, <3>1 DEF Windows
  <2>3. window' \in [Spaces -> Windows]
    <3>1. window' = [window EXCEPT ![s] = Closed([@ EXCEPT !.entry = b])]
      BY <1>2 DEF set_direct_region
    <3>2. Closed([window[s] EXCEPT !.entry = b]) \in Windows
      BY <2>2, ClosedTypes
    <3>3. QED BY <3>1, <3>2 DEF TypeOK
  <2>4. UNCHANGED ranges
    BY <1>2 DEF set_direct_region
  <2>5. QED BY <2>3, <2>4 DEF TypeOK, Fetch
<1>3. QED BY <1>1, <1>2 DEF Fetch, set_direct_region

(* Every pointer, range, window and reference is one of the kinds the code *)
(* has, whatever is mapped, switched, reloaded and fetched.                *)
THEOREM TypeCorrect == ReadSpec => []TypeOK
<1>1. ReadInit => TypeOK
  BY DEF ReadInit, TypeOK, ReadEntries, Windows
<1>2. TypeOK /\ [ReadNext]_readVars => TypeOK'
  <2> SUFFICES ASSUME TypeOK, [ReadNext]_readVars PROVE TypeOK'
    OBVIOUS
  <2>1. CASE UNCHANGED readVars
    BY <2>1 DEF readVars, TypeOK
  <2>2. QED BY <2>1, BankingKeepsTypes, MappingKeepsTypes, FetchKeepsTypes DEF ReadNext
<1>3. QED BY <1>1, <1>2, PTL DEF ReadSpec

---------------------------------------------------------------------------------
(* A live window is a window on a bank: only fetching opens one.           *)
LiveOnBank == \A s \in Spaces : Live(s) => window[s].entry \in Banks

BaseInv == TypeOK /\ LiveOnBank /\ NoStaleBase

(* A closed window has no address in it.                                   *)
LEMMA ClosedIsEmpty == \A w \in Windows : InWindow(Closed(w)) = {}
BY DEF InWindow, Closed, Windows

(* What the invariant says of one window.                                  *)
WindowOK(w, s) ==
  InWindow(w) # {} =>
    /\ w.entry \in Banks
    /\ s \in refs[w.entry] => w.ptr \in {base[w.entry], NULL}

(* The two parts of the invariant, window by window.                       *)
LEMMA BaseInvByWindow ==
  (LiveOnBank /\ NoStaleBase) <=> \A s \in Spaces : WindowOK(window[s], s)
BY DEF LiveOnBank, NoStaleBase, Live, WindowOK

(* A mapping may only add the mapped space to the references of the bank,  *)
(* and closes its window if that window is on the bank.                    *)
LEMMA InvalidateKeepsBase ==
  ASSUME BaseInv, NEW s \in Spaces, NEW r, NEW e, InvalidateCaches(s, r, e),
         UNCHANGED base,
         \A b \in Banks : b # e => refs'[b] = refs[b],
         e \in Banks => \/ refs'[e] = refs[e]
                        \/ refs'[e] = refs[e] \cup {s}
  PROVE  LiveOnBank' /\ NoStaleBase'
<1> SUFFICES ASSUME NEW z \in Spaces PROVE WindowOK(window[z], z)'
  BY DEF LiveOnBank, NoStaleBase, Live, WindowOK
<1>1. window[z] \in Windows /\ WindowOK(window[z], z)
  BY BaseInvByWindow DEF BaseInv, TypeOK
<1>2. window'[z] = window[z] \/ InWindow(window'[z]) = {}
  BY <1>1, ClosedIsEmpty DEF InvalidateCaches, BaseInv, TypeOK
<1>3. z = s /\ window'[z] = window[z] /\ InWindow(window[z]) # {} => window[z].entry # e
  <2>1. CASE z = s /\ window[s].entry = e
    <3>1. window'[s] = Closed(window[s])
      BY <2>1 DEF InvalidateCaches, BaseInv, TypeOK
    <3>2. QED BY <1>1, <2>1, <3>1, ClosedIsEmpty
  <2>2. QED BY <2>1
<1>4. QED BY <1>1, <1>2, <1>3 DEF WindowOK
(* Whatever is mapped, no window keeps a base it should not have.          *)
LEMMA MappingKeepsBase ==
  ASSUME BaseInv, NEW s \in Spaces, Mapping(s)
  PROVE  LiveOnBank' /\ NoStaleBase'
<1>1. PICK r \in CallRequests[s] :
         \/ MapOther(s, r)
         \/ InstallMasked(s, r)
         \/ \E b \in Banks : \/ InstallBankTag(s, r, b)
                             \/ InstallBankPointer(s, r, b)
                             \/ InstallBankWrite(s, r, b)
  BY DEF Mapping
<1>2. CASE MapOther(s, r)
  BY <1>2, InvalidateKeepsBase DEF MapOther
<1>3. CASE InstallMasked(s, r)
  <2>1. UNCHANGED <<window, base, refs>>
    BY <1>3 DEF InstallMasked
  <2>2. QED BY <2>1 DEF BaseInv, LiveOnBank, NoStaleBase, Live
<1>4. ASSUME NEW b \in Banks, InstallBankTag(s, r, b)
      PROVE  LiveOnBank' /\ NoStaleBase'
  <2>1. InvalidateCaches(s, OptimizeMirror(r), b) /\ UNCHANGED base
    BY <1>4 DEF InstallBankTag, MapBank
  <2>2. refs' = [refs EXCEPT ![b] = @ \cup {s}]
    BY <1>4 DEF InstallBankTag
  <2>3. refs'[b] = refs[b] \cup {s} /\ \A c \in Banks : c # b => refs'[c] = refs[c]
    BY <2>2 DEF BaseInv, TypeOK
  <2>4. QED BY <2>1, <2>3, InvalidateKeepsBase
<1>5. ASSUME NEW b \in Banks, InstallBankPointer(s, r, b)
      PROVE  LiveOnBank' /\ NoStaleBase'
  <2>1. InvalidateCaches(s, OptimizeMirror(r), b) /\ UNCHANGED <<base, refs>>
    BY <1>5 DEF InstallBankPointer, MapBank
  <2>2. QED BY <2>1, InvalidateKeepsBase
<1>6. ASSUME NEW b \in Banks, InstallBankWrite(s, r, b)
      PROVE  LiveOnBank' /\ NoStaleBase'
  <2>1. InvalidateCaches(s, OptimizeMirror(r), b) /\ UNCHANGED base
    BY <1>6 DEF InstallBankWrite
  <2>2. refs' = [refs EXCEPT ![b] = @ \cup {s}]
    BY <1>6 DEF InstallBankWrite
  <2>3. refs'[b] = refs[b] \cup {s} /\ \A c \in Banks : c # b => refs'[c] = refs[c]
    BY <2>2 DEF BaseInv, TypeOK
  <2>4. QED BY <2>1, <2>3, InvalidateKeepsBase
<1>7. QED BY <1>1, <1>2, <1>3, <1>4, <1>5, <1>6

(* Switching the banks bs closes the window of every space that refers to  *)
(* one of them; the base of every other bank stays, or had no memory.      *)
LEMMA FlushKeepsBase ==
  ASSUME BaseInv, NEW bs \in SUBSET Banks, Flush(bs), UNCHANGED refs,
         \A b \in Banks \ bs : base'[b] = base[b]
  PROVE  LiveOnBank' /\ NoStaleBase'
<1> SUFFICES ASSUME NEW z \in Spaces PROVE WindowOK(window[z], z)'
  BY DEF LiveOnBank, NoStaleBase, Live, WindowOK
<1>1. window[z] \in Windows /\ WindowOK(window[z], z)
  BY BaseInvByWindow DEF BaseInv, TypeOK
<1>2. CASE \E b \in bs : z \in refs[b]
  <2>1. InWindow(window'[z]) = {}
    BY <1>1, <1>2, ClosedIsEmpty DEF Flush
  <2>2. QED BY <2>1 DEF WindowOK
<1>3. CASE ~ \E b \in bs : z \in refs[b]
  <2>1. window'[z] = window[z]
    BY <1>3 DEF Flush
  <2>2. QED BY <1>1, <1>3, <2>1 DEF WindowOK
<1>4. QED BY <1>2, <1>3

(* Nor does it when a bank is switched or a state is loaded.               *)
LEMMA BankingKeepsBase ==
  ASSUME BaseInv, Banking
  PROVE  LiveOnBank' /\ NoStaleBase'
<1>1. ASSUME NEW b \in Banks, NEW p \in Pointers, set_base(b, p)
      PROVE  LiveOnBank' /\ NoStaleBase'
  <2>1. Flush({b}) /\ UNCHANGED refs /\ base' = [base EXCEPT ![b] = p]
    BY <1>1 DEF set_base
  <2>2. \A c \in Banks \ {b} : base'[c] = base[c]
    BY <2>1 DEF BaseInv, TypeOK
  <2>3. QED BY <2>1, <2>2, FlushKeepsBase
<1>2. ASSUME NEW b \in Banks, NEW n \in Slots, set_entry(b, n)
      PROVE  LiveOnBank' /\ NoStaleBase'
  <2>1. Flush({b}) /\ UNCHANGED refs /\ base' = [base EXCEPT ![b] = slots[b][n]]
    BY <1>2 DEF set_entry
  <2>2. \A c \in Banks \ {b} : base'[c] = base[c]
    BY <2>1 DEF BaseInv, TypeOK
  <2>3. QED BY <2>1, <2>2, FlushKeepsBase
<1>3. ASSUME NEW b \in Banks, NEW n \in Slots, NEW p \in Pointers, configure_entry(b, n, p)
      PROVE  LiveOnBank' /\ NoStaleBase'
  <2>1. UNCHANGED <<window, refs>>
    BY <1>3 DEF configure_entry
  <2>2. \A c \in Banks : base'[c] = base[c] \/ base[c] = NULL
    BY <1>3 DEF configure_entry, BaseInv, TypeOK
  <2>3. QED BY <2>1, <2>2 DEF BaseInv, LiveOnBank, NoStaleBase, Live
<1>4. ASSUME NEW loaded \in [Banks -> Slots \cup {Unspecified}], bank_reattach(loaded)
      PROVE  LiveOnBank' /\ NoStaleBase'
  <2> DEFINE bs == {b \in Banks : loaded[b] # Unspecified}
  <2>1. Flush(bs) /\ UNCHANGED refs
    BY <1>4 DEF bank_reattach
  <2>2. \A c \in Banks \ bs : base'[c] = base[c]
    BY <1>4 DEF bank_reattach, Reattached
  <2>3. QED BY <2>1, <2>2, FlushKeepsBase
<1>5. QED BY <1>1, <1>2, <1>3, <1>4 DEF Banking

(* Nor does a fetch open one on a base the bank does not have.             *)
LEMMA FetchKeepsBase ==
  ASSUME BaseInv, NEW s \in Spaces, NEW a \in Addresses, Fetch(s, a)
  PROVE  LiveOnBank' /\ NoStaleBase'
<1> SUFFICES ASSUME NEW z \in Spaces PROVE WindowOK(window[z], z)'
  BY DEF LiveOnBank, NoStaleBase, Live, WindowOK
<1> DEFINE b == map[s][a]
<1>1. window[z] \in Windows /\ WindowOK(window[z], z) /\ UNCHANGED <<base, refs>>
  BY BaseInvByWindow DEF BaseInv, TypeOK, Fetch
<1>2. CASE b \in Banks /\ OpenWindow(s, b, a)
  <2>1. PICK g : window' = [window EXCEPT ![s] = [start |-> g.start, end |-> g.end,
                                                  entry |-> b, ptr |-> base[b]]]
    BY <1>2 DEF OpenWindow
  <2>2. CASE z = s
    <3>1. window'[z].entry = b /\ window'[z].ptr = base[b]
      BY <2>1, <2>2 DEF BaseInv, TypeOK
    <3>2. QED BY <1>1, <1>2, <3>1 DEF WindowOK
  <2>3. CASE z # s
    BY <1>1, <2>1, <2>3 DEF BaseInv, TypeOK, WindowOK
  <2>4. QED BY <2>2, <2>3
<1>3. CASE b \notin Banks /\ set_direct_region(s, a)
  <2>1. window' = [window EXCEPT ![s] = Closed([@ EXCEPT !.entry = b])]
    BY <1>3 DEF set_direct_region
  <2>2. window'[s] = Closed([window[s] EXCEPT !.entry = b])
    BY <2>1 DEF BaseInv, TypeOK
  <2>3. [window[s] EXCEPT !.entry = b] \in Windows
    <3>1. window[s] \in Windows /\ b \in ReadEntries
      BY DEF BaseInv, TypeOK
    <3>2. QED BY <3>1 DEF Windows
  <2>4. CASE z = s
    BY <2>2, <2>3, <2>4, ClosedIsEmpty DEF WindowOK
  <2>5. CASE z # s
    BY <1>1, <2>1, <2>5 DEF BaseInv, TypeOK, WindowOK
  <2>6. QED BY <2>4, <2>5
<1>4. QED BY <1>2, <1>3 DEF Fetch, set_direct_region

(* A space that refers to a bank never fetches through a base the bank no  *)
(* longer has: set_base, set_entry and bank_reattach close its window, and *)
(* every way of gaining a reference closes it too (memory_bank,            *)
(* address_space::install_bank_generic, direct_read_data).                 *)
THEOREM BaseNeverStale == ReadSpec => []NoStaleBase
<1>1. ReadInit => BaseInv
  <2>1. ReadInit => TypeOK
    BY DEF ReadInit, TypeOK, ReadEntries, Windows
  <2>2. ReadInit => LiveOnBank /\ NoStaleBase
    BY DEF ReadInit, LiveOnBank, NoStaleBase, Live, InWindow
  <2>3. QED BY <2>1, <2>2 DEF BaseInv
<1>2. BaseInv /\ [ReadNext]_readVars => LiveOnBank' /\ NoStaleBase'
  <2> SUFFICES ASSUME BaseInv, [ReadNext]_readVars PROVE LiveOnBank' /\ NoStaleBase'
    OBVIOUS
  <2>1. CASE UNCHANGED readVars
    BY <2>1 DEF readVars, BaseInv, LiveOnBank, NoStaleBase, Live
  <2>2. QED BY <2>1, BankingKeepsBase, MappingKeepsBase, FetchKeepsBase DEF ReadNext
<1>3. QED BY <1>1, <1>2, TypeCorrect, PTL DEF ReadSpec, BaseInv

---------------------------------------------------------------------------------
(* The end of a request stays an address when the range swallows mirror    *)
(* bits (address_space::check_optimize_mirror).                            *)
LEMMA OptimizedIsARange ==
  ASSUME NEW r \in Requests
  PROVE  OptimizeMirror(r).start \in Addresses /\ OptimizeMirror(r).end \in Addresses
<1> DEFINE top == 2^AddrBits - 1
           V(run) == {a \in Addresses : SetBits(a) \subseteq SetBits(r.end) \cup run}
<1>1. r.start \in Addresses /\ r.end \in Addresses
  BY DEF Requests
<1>2. top \in Nat /\ Addresses = 0 .. top
  BY <1>1, AddrBitsAssumption DEF Addresses
<1>3. ASSUME NEW run PROVE ValueOf(SetBits(r.end) \cup run) \in Addresses
  <2>1. V(run) \in SUBSET (0 .. top) /\ r.end \in V(run)
    BY <1>1, <1>2
  <2>2. Max(V(run)) \in V(run)
    BY <1>2, <2>1, MaxIsGreatest
  <2>3. QED BY <2>2 DEF ValueOf
<1>4. QED BY <1>1, <1>3 DEF OptimizeMirror

(* A cached range that no copy of the request touches keeps its addresses  *)
(* out of the request's region.                                            *)
LEMMA UntouchedIsOutside ==
  ASSUME NEW o, o.start \in Addresses, o.end \in Addresses,
         NEW g \in Ranges, Untouched(o, g), NEW x \in g.start .. g.end
  PROVE  x \notin Region(o)
<1> SUFFICES ASSUME NEW k \in Copies(o), x \in (o.start + k) .. (o.end + k) PROVE FALSE
  BY DEF Region
<1>1. /\ o.start \in Int /\ o.end \in Int /\ k \in Int
      /\ g.start \in Int /\ g.end \in Int
  BY DEF Copies, Addresses, Ranges
<1>2. Intersects(g, o.start + k, o.end + k)
  BY <1>1 DEF Intersects
<1>3. QED BY <1>2 DEF Untouched

(* Mapping a region and forgetting the ranges it touches leaves only true  *)
(* ranges behind, whichever entry is mapped.                               *)
LEMMA RemapKeepsRanges ==
  ASSUME TypeOK, CachedRangesTruthful, NEW s \in Spaces, NEW r \in Requests, NEW e, NEW f,
         map' = map \/ PopulateFlat(s, OptimizeMirror(r), e),
         InvalidateCaches(s, OptimizeMirror(r), f)
  PROVE  CachedRangesTruthful'
<1> DEFINE o == OptimizeMirror(r)
<1> SUFFICES ASSUME NEW z \in WideSpaces, NEW b \in Banks, NEW g \in ranges'[z][b],
                    NEW x \in g.start .. g.end
             PROVE  map'[z][x] = b
  BY DEF CachedRangesTruthful
<1>0. z \in Spaces
  BY DEF WideSpaces
<1>1. g \in ranges[z][b] /\ (z = s => Untouched(o, g))
  <2>1. ranges'[z] = IF z = s THEN RemoveIntersecting(ranges[s], o) ELSE ranges[z]
    BY <1>0 DEF InvalidateCaches, TypeOK
  <2>2. QED BY <2>1 DEF RemoveIntersecting
<1>2. g \in Ranges /\ x \in Addresses /\ map[z][x] = b
  <2>1. g \in Ranges
    BY <1>0, <1>1 DEF TypeOK
  <2>2. x \in Addresses
    BY <2>1, AddrBitsAssumption DEF Ranges, Addresses
  <2>3. QED BY <1>1, <2>1, <2>2 DEF CachedRangesTruthful
<1>3. CASE z = s /\ PopulateFlat(s, o, e)
  <2>1. x \notin Region(o)
    BY <1>1, <1>2, <1>3, OptimizedIsARange, UntouchedIsOutside
  <2>2. map'[s] = [y \in Addresses |-> IF y \in Region(o) THEN e ELSE map[s][y]]
    BY <1>3 DEF PopulateFlat, TypeOK
  <2>3. QED BY <1>2, <1>3, <2>1, <2>2
<1>4. CASE z # s /\ PopulateFlat(s, o, e)
  BY <1>0, <1>2, <1>4 DEF PopulateFlat, TypeOK
<1>5. CASE map' = map
  BY <1>2, <1>5
<1>6. QED BY <1>3, <1>4, <1>5

(* Mapping removes the cached ranges it makes untrue.                      *)
LEMMA MappingKeepsRanges ==
  ASSUME TypeOK, CachedRangesTruthful, NEW s \in Spaces, Mapping(s)
  PROVE  CachedRangesTruthful'
<1>1. PICK r \in CallRequests[s] :
         \/ MapOther(s, r)
         \/ InstallMasked(s, r)
         \/ \E b \in Banks : \/ InstallBankTag(s, r, b)
                             \/ InstallBankPointer(s, r, b)
                             \/ InstallBankWrite(s, r, b)
  BY DEF Mapping
<1>2. r \in Requests
  BY DirectReadAssumption
<1>3. CASE MapOther(s, r)
  BY <1>2, <1>3, RemapKeepsRanges DEF MapOther
<1>4. CASE InstallMasked(s, r)
  <2>1. s \in NarrowSpaces /\ UNCHANGED ranges
        /\ map' = [map EXCEPT ![s] = map'[s]]
    BY <1>4 DEF InstallMasked, PopulateFlat, TypeOK
  <2>2. \A z \in WideSpaces : z # s /\ map'[z] = map[z]
    BY <2>1 DEF WideSpaces, TypeOK
  <2>3. QED BY <2>1, <2>2 DEF CachedRangesTruthful
<1>5. ASSUME NEW b \in Banks, MapBank(s, r, b) PROVE CachedRangesTruthful'
  BY <1>2, <1>5, RemapKeepsRanges DEF MapBank
<1>6. ASSUME NEW b \in Banks, InstallBankWrite(s, r, b) PROVE CachedRangesTruthful'
  BY <1>2, <1>6, RemapKeepsRanges DEF InstallBankWrite
<1>7. QED BY <1>1, <1>3, <1>4, <1>5, <1>6 DEF InstallBankTag, InstallBankPointer

(* What a fetch finds or derives is a range of the entry it is for.        *)
LEMMA FoundRangeIsTruthful ==
  ASSUME TypeOK, CachedRangesTruthful, NEW s \in WideSpaces, NEW a \in Addresses,
         map[s][a] \in Banks, NEW g \in find_range(s, map[s][a], a)
  PROVE  \A x \in g.start .. g.end : map[s][x] = map[s][a]
<1> DEFINE b == map[s][a]
<1>1. CASE g \in Covering(ranges[s][b], a)
  <2>1. g \in ranges[s][b]
    BY <1>1 DEF Covering
  <2>2. QED BY <2>1 DEF CachedRangesTruthful
<1>2. CASE g = derive_range(map[s], conf[s][b], a)
  <2>1. map[s] \in [Addresses -> ReadEntries]
    BY DEF TypeOK, WideSpaces
  <2>2. QED BY <1>2, <2>1, DerivedRangeIsUniform
<1>3. QED BY <1>1, <1>2 DEF find_range

(* A fetch caches only what it has derived from the map.                   *)
LEMMA FetchKeepsRanges ==
  ASSUME TypeOK, CachedRangesTruthful, NEW s \in Spaces, NEW a \in Addresses, Fetch(s, a)
  PROVE  CachedRangesTruthful'
<1> DEFINE b == map[s][a]
<1>1. UNCHANGED map
  BY DEF Fetch
<1>2. CASE b \in Banks /\ OpenWindow(s, b, a)
  <2>1. PICK g \in find_range(s, b, a) : ranges' = [ranges EXCEPT ![s][b] = @ \cup {g}]
    BY <1>2 DEF OpenWindow
  <2>2. s \in WideSpaces => \A x \in g.start .. g.end : map[s][x] = b
    BY <1>2, FoundRangeIsTruthful
  <2>3. \A z \in WideSpaces, c \in Banks : \A h \in ranges'[z][c] :
          h \in ranges[z][c] \/ (z = s /\ c = b /\ h = g)
    BY <2>1 DEF TypeOK, WideSpaces
  <2>4. QED BY <1>1, <2>2, <2>3 DEF CachedRangesTruthful
<1>3. CASE b \notin Banks /\ set_direct_region(s, a)
  BY <1>1, <1>3 DEF set_direct_region, CachedRangesTruthful
<1>4. QED BY <1>2, <1>3 DEF Fetch, set_direct_region

(* Switching banks maps nothing.                                           *)
LEMMA BankingKeepsRanges ==
  ASSUME CachedRangesTruthful, Banking
  PROVE  CachedRangesTruthful'
<1>1. UNCHANGED <<map, ranges>>
  BY DEF Banking, set_base, set_entry, configure_entry, bank_reattach
<1>2. QED BY <1>1 DEF CachedRangesTruthful

(* In a space whose handlers all have the full width of the bus, mapping   *)
(* over a part of a cached range, mirrored or not, removes the range       *)
(* (populate_range_mirrored, remove_intersecting_ranges).                  *)
THEOREM RangesStayTruthful == ReadSpec => []CachedRangesTruthful
<1>1. ReadInit => CachedRangesTruthful
  BY DEF ReadInit, CachedRangesTruthful, WideSpaces
<1>2. TypeOK /\ CachedRangesTruthful /\ [ReadNext]_readVars => CachedRangesTruthful'
  <2> SUFFICES ASSUME TypeOK, CachedRangesTruthful, [ReadNext]_readVars PROVE CachedRangesTruthful'
    OBVIOUS
  <2>1. CASE UNCHANGED readVars
    BY <2>1 DEF readVars, CachedRangesTruthful
  <2>2. QED BY <2>1, MappingKeepsRanges, BankingKeepsRanges, FetchKeepsRanges DEF ReadNext
<1>3. QED BY <1>1, <1>2, TypeCorrect, PTL DEF ReadSpec

---------------------------------------------------------------------------------
(* A step that opens no window leaves every window as it was or closes it. *)
LEMMA NoWindowOpened ==
  ASSUME TypeOK, NEW z \in Spaces, Truthful(z), map'[z] = map[z],
         window'[z] = window[z] \/ InWindow(window'[z]) = {}
  PROVE  Truthful(z)'
BY DEF Truthful

(* No mapping opens a window.                                              *)
LEMMA MappingOpensNone ==
  ASSUME TypeOK, NEW s \in Spaces, Mapping(s), NEW z \in Spaces
  PROVE  window'[z] = window[z] \/ InWindow(window'[z]) = {}
<1>1. ASSUME NEW r, NEW e, InvalidateCaches(s, r, e)
      PROVE  window'[z] = window[z] \/ InWindow(window'[z]) = {}
  BY <1>1, ClosedIsEmpty DEF InvalidateCaches, TypeOK
<1>2. (\E r, e : InvalidateCaches(s, r, e)) \/ UNCHANGED window
  BY DEF Mapping, MapOther, InstallMasked, InstallBankTag, InstallBankPointer,
         InstallBankWrite, MapBank
<1>3. QED BY <1>1, <1>2

(* No bank switch opens one.                                               *)
LEMMA BankingOpensNone ==
  ASSUME TypeOK, Banking, NEW z \in Spaces
  PROVE  window'[z] = window[z] \/ InWindow(window'[z]) = {}
<1>1. (\E bs : Flush(bs)) \/ UNCHANGED window
  BY DEF Banking, set_base, set_entry, configure_entry, bank_reattach
<1>2. QED BY <1>1, ClosedIsEmpty DEF Flush, TypeOK

(* The window a fetch opens is a range of the entry it was for.            *)
LEMMA FetchOpensTruthfully ==
  ASSUME TypeOK, CachedRangesTruthful, NEW s \in Spaces, NEW a \in Addresses, Fetch(s, a),
         NEW z \in WideSpaces, Truthful(z), map'[z] = map[z]
  PROVE  Truthful(z)'
<1> DEFINE b == map[s][a]
<1>0. z \in Spaces
  BY DEF WideSpaces
<1>1. CASE b \in Banks /\ OpenWindow(s, b, a)
  <2>1. PICK g \in find_range(s, b, a) :
          window' = [window EXCEPT ![s] = [start |-> g.start, end |-> g.end,
                                           entry |-> b, ptr |-> base[b]]]
    BY <1>1 DEF OpenWindow
  <2>2. s \in WideSpaces => \A x \in g.start .. g.end : map[s][x] = b
    BY <1>1, FoundRangeIsTruthful
  <2>3. CASE z = s
    <3>1. window'[s] = [start |-> g.start, end |-> g.end, entry |-> b, ptr |-> base[b]]
      BY <2>1 DEF TypeOK
    <3>2. QED BY <2>2, <2>3, <3>1 DEF Truthful, InWindow
  <2>4. CASE z # s
    BY <1>0, <2>1, <2>4 DEF TypeOK, Truthful
  <2>5. QED BY <2>3, <2>4
<1>2. CASE b \notin Banks /\ set_direct_region(s, a)
  <2>1. window' = [window EXCEPT ![s] = Closed([@ EXCEPT !.entry = b])]
    BY <1>2 DEF set_direct_region
  <2>2. [window[s] EXCEPT !.entry = b] \in Windows
    <3>1. window[s] \in Windows /\ b \in ReadEntries
      BY DEF TypeOK
    <3>2. QED BY <3>1 DEF Windows
  <2>3. window'[z] = window[z] \/ InWindow(window'[z]) = {}
    BY <1>0, <2>1, <2>2, ClosedIsEmpty DEF TypeOK
  <2>4. QED BY <1>0, <2>3, NoWindowOpened
<1>3. QED BY <1>1, <1>2 DEF Fetch, set_direct_region

(* In a space whose handlers all have the full width of the bus, no fetch, *)
(* bank switch or state load makes a window reach beyond its bank: only    *)
(* mapping something else under an open window does (set_direct_region,    *)
(* find_range, derive_range).                                              *)
THEOREM WindowsOpenTruthfully == ReadSpec => WindowGoesWrongOnlyByMapping
<1> DEFINE Step == \A s \in WideSpaces : Truthful(s) /\ map'[s] = map[s] => Truthful(s)'
<1>1. TypeOK /\ CachedRangesTruthful /\ [ReadNext]_readVars => [Step]_readVars
  <2> SUFFICES ASSUME TypeOK, CachedRangesTruthful, ReadNext,
                      NEW z \in WideSpaces, Truthful(z), map'[z] = map[z]
               PROVE  Truthful(z)'
    OBVIOUS
  <2>1. z \in Spaces
    BY DEF WideSpaces
  <2>2. CASE Banking
    BY <2>1, <2>2, BankingOpensNone, NoWindowOpened
  <2>3. ASSUME NEW s \in Spaces, Mapping(s) PROVE Truthful(z)'
    BY <2>1, <2>3, MappingOpensNone, NoWindowOpened
  <2>4. ASSUME NEW s \in Spaces, NEW a \in Addresses, Fetch(s, a) PROVE Truthful(z)'
    BY <2>4, FetchOpensTruthfully
  <2>5. QED BY <2>2, <2>3, <2>4 DEF ReadNext
<1>2. QED BY <1>1, TypeCorrect, RangesStayTruthful, PTL DEF ReadSpec, WindowGoesWrongOnlyByMapping
================================================================================
