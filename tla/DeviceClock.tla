------------------------------- MODULE DeviceClock -------------------------------
(***************************************************************************)
(* The clocks of the devices, of source/emucore/device.cpp: a clock is     *)
(* configured in hertz or as a ratio of the owner's clock, scaled, and     *)
(* kept together with its period; a change goes down the hierarchy, and a  *)
(* device that is started is told of it.  A saved state holds the clocks.  *)
(***************************************************************************)
EXTENDS Integers

CONSTANTS
  N,                 \* the number of devices
  Owner,             \* the hierarchy: an owner comes before its devices
  None,              \* the owner of the root
  Clocks,            \* what a clock is configured as, see Hz and DerivedClock
  Scales,            \* scale factors, as fractions <<p, q>>
  Modulus,           \* 2^32
  Second,            \* attoseconds in a second
  MaxTime,           \* ATTOTIME_MAX_SECONDS: a time of as many is never
  Ticks              \* numbers of ticks that are converted, a bound

Hz(f)              == [derived |-> FALSE, num |-> f, den |-> 1]
DerivedClock(n, d) == [derived |-> TRUE,  num |-> n, den |-> d]

Devices == 1 .. N

ASSUME DeviceClockAssumption ==
  /\ N \in Nat /\ Owner \in [Devices -> Devices \cup {None}]
  /\ \A d \in Devices : Owner[d] # None => Owner[d] < d
  /\ \A c \in Clocks : c.num \in 0 .. (Modulus - 1) /\ c.den \in Nat \ {0}
  /\ <<1, 1>> \in Scales
  /\ Modulus \in Nat /\ Second \in Nat /\ Modulus <= Second
  /\ MaxTime \in Nat \ {0} /\ MaxTime <= Modulus \div 2
  /\ Ticks \subseteq Nat
  /\ Scales \subseteq Nat \X (Nat \ {0})

VARIABLES
  configured,   \* m_configured_clock
  unscaled,     \* m_unscaled_clock
  clock,        \* m_clock
  scale,        \* m_clock_scale
  period,       \* m_attoseconds_per_clock
  started,      \* m_started
  told,         \* the clock the device knew when it was last told
  saved,        \* a saved state, or None
  loaded        \* history: devices whose clock is one that a load brought

clockVars == <<configured, unscaled, clock, scale, period, started, told, saved, loaded>>

---------------------------------------------------------------------------------
(* A product beyond a word is undefined in C++; the 64-bit builds convert  *)
(* it to a wider integer and keep the low word.                            *)
Scaled(hz, s) == ((hz * s[1]) \div s[2]) % Modulus

Period(hz) == IF hz = 0 THEN 0 ELSE Second \div hz

(* The product of the owner's clock is one of 32 bits.                     *)
Derived(c, hz) == ((hz * c.num) % Modulus) \div c.den

(* The clocks after those of d are set to u and c: the devices that derive *)
(* theirs follow, from the top; a device whose unscaled clock comes out as *)
(* before is left alone, and what is below it.  touched are the others.    *)
Follow(d, u, c) ==
  LET new[x \in Devices] ==
        LET o   == Owner[x]
            old == [touched |-> FALSE, unscaled |-> unscaled[x], clock |-> clock[x]]
        IN  IF x = d THEN [touched |-> TRUE, unscaled |-> u, clock |-> c]
            ELSE IF o = None \/ x < d \/ ~configured[x].derived THEN old
            ELSE IF ~new[o].touched THEN old
            ELSE LET hz == Derived(configured[x], new[o].clock)
                 IN  IF hz = unscaled[x] THEN old
                     ELSE [touched |-> TRUE, unscaled |-> hz, clock |-> Scaled(hz, scale[x])]
  IN  new

(* Mutant: only the devices right below are recalculated.                  *)
UpdateChildrenOnly(d, u, c) ==
  LET new == [x \in Devices |->
                IF x = d THEN [touched |-> TRUE, unscaled |-> u, clock |-> c]
                ELSE IF Owner[x] = d /\ configured[x].derived
                     THEN LET hz == Derived(configured[x], c)
                          IN  [touched |-> TRUE, unscaled |-> hz, clock |-> Scaled(hz, scale[x])]
                ELSE [touched |-> FALSE, unscaled |-> unscaled[x], clock |-> clock[x]]]
  IN  /\ unscaled' = [x \in Devices |-> new[x].unscaled]
      /\ clock'    = [x \in Devices |-> new[x].clock]
      /\ period'   = [x \in Devices |-> IF new[x].touched THEN Period(new[x].clock)
                                                          ELSE period[x]]
      /\ told'     = [x \in Devices |-> IF new[x].touched /\ x \in started
                                        THEN new[x].clock ELSE told[x]]
      /\ loaded'   = {x \in loaded : ~new[x].touched}

(* Mutant: the devices below are not told, and their periods stay.         *)
UpdateSilently(d, u, c) ==
  LET new == Follow(d, u, c)
  IN  /\ unscaled' = [x \in Devices |-> new[x].unscaled]
      /\ clock'    = [x \in Devices |-> new[x].clock]
      /\ period'   = [period EXCEPT ![d] = Period(c)]
      /\ told'     = IF d \in started THEN [told EXCEPT ![d] = c] ELSE told
      /\ loaded'   = {x \in loaded : ~new[x].touched}

Update(d, u, c) ==
  LET new == Follow(d, u, c)
  IN  /\ unscaled' = [x \in Devices |-> new[x].unscaled]
      /\ clock'    = [x \in Devices |-> new[x].clock]
      /\ period'   = [x \in Devices |-> IF new[x].touched THEN Period(new[x].clock)
                                                          ELSE period[x]]
      /\ told'     = [x \in Devices |-> IF new[x].touched /\ x \in started
                                        THEN new[x].clock ELSE told[x]]
      /\ loaded'   = {x \in loaded : ~new[x].touched}
---------------------------------------------------------------------------------
(* The constructor: each clock is derived from the owner's, unscaled.      *)
ClockInit ==
  /\ configured \in [Devices -> Clocks]
  /\ \A d \in Devices : configured[d].derived => Owner[d] # None
  /\ LET hz[d \in Devices] == IF configured[d].derived
                              THEN Derived(configured[d], hz[Owner[d]]) ELSE configured[d].num
     IN  unscaled = hz /\ clock = hz /\ period = [d \in Devices |-> Period(hz[d])]
  /\ scale = [d \in Devices |-> <<1, 1>>]
  /\ started = {}
  /\ told = [d \in Devices |-> 0]
  /\ saved = None /\ loaded = {}

(* "Do nothing if no actual change."                                       *)
ChangeUnscaled(d, hz) ==
  IF hz = unscaled[d] THEN UNCHANGED <<unscaled, clock, period, told, loaded>>
  ELSE Update(d, hz, Scaled(hz, scale[d]))

(* Also on a device with a derived clock, until the owner's changes.       *)
set_unscaled_clock(d, hz) ==
  /\ ChangeUnscaled(d, hz)
  /\ UNCHANGED <<configured, scale, started, saved>>

(* Mutant: a derived clock is left to the next change of the owner's.      *)
DeriveLater(d, c) ==
  /\ c.derived => Owner[d] # None
  /\ configured' = [configured EXCEPT ![d] = c]
  /\ ChangeUnscaled(d, IF c.derived THEN unscaled[d] ELSE c.num)
  /\ UNCHANGED <<scale, started, saved>>

set_clock(d, c) ==
  /\ c.derived => Owner[d] # None
  /\ configured' = [configured EXCEPT ![d] = c]
  /\ ChangeUnscaled(d, IF c.derived THEN Derived(c, clock[Owner[d]]) ELSE c.num)
  /\ UNCHANGED <<scale, started, saved>>

set_clock_scale(d, s) ==
  /\ s # scale[d]
  /\ scale' = [scale EXCEPT ![d] = s]
  /\ Update(d, unscaled[d], Scaled(unscaled[d], s))
  /\ UNCHANGED <<configured, started, saved>>

(* device_t::start, once: the device is told of its clock.                 *)
start(d) ==
  /\ d \notin started
  /\ started' = started \cup {d}
  /\ told' = [told EXCEPT ![d] = clock[d]]
  /\ UNCHANGED <<configured, unscaled, clock, scale, period, saved, loaded>>

(* The items registered by start, of all devices, and nothing else.        *)
save ==
  /\ started = Devices
  /\ saved' = [unscaled |-> unscaled, clock |-> clock, scale |-> scale]
  /\ UNCHANGED <<configured, unscaled, clock, scale, period, started, told, loaded>>

load ==
  /\ started = Devices /\ saved # None
  /\ unscaled' = saved.unscaled /\ clock' = saved.clock /\ scale' = saved.scale
  /\ loaded' = Devices
  /\ UNCHANGED <<configured, period, started, told, saved>>

ClockNext ==
  \/ \E d \in Devices :
       \/ \E c \in Clocks : set_clock(d, c) \/ (~c.derived /\ set_unscaled_clock(d, c.num))
       \/ \E s \in Scales : set_clock_scale(d, s)
       \/ start(d)
  \/ save \/ load

ClockSpec == ClockInit /\ [][ClockNext]_clockVars

---------------------------------------------------------------------------------
(* clocks_to_attotime and attotime_to_clocks.  The seconds are the         *)
(* quotient of divu_64x32_rem, of 32 bits, taken with a sign.  A quotient  *)
(* that does not fit keeps its low word in the C++ of fastmath.h; the      *)
(* assembler (divl) stops the program.                                     *)
Never == [seconds |-> MaxTime, attoseconds |-> 0]
Stops == [stops |-> TRUE]

Signed(w)   == IF w >= Modulus \div 2 THEN w - Modulus ELSE w
Unsigned(i) == IF i < 0 THEN i + Modulus ELSE i

(* Mutant: the ticks of a whole second are all taken for attoseconds.      *)
TicksOfASecond(d, n, divl) ==
  IF clock[d] = 0 THEN Never
  ELSE IF n <= clock[d] THEN [seconds |-> 0, attoseconds |-> n * period[d]]
  ELSE IF divl /\ n \div clock[d] >= Modulus THEN Stops
  ELSE [seconds |-> Signed((n \div clock[d]) % Modulus), attoseconds |-> (n % clock[d]) * period[d]]

clocks_to_attotime(d, n, divl) ==
  IF clock[d] = 0 THEN Never
  ELSE IF n < clock[d] THEN [seconds |-> 0, attoseconds |-> n * period[d]]
  ELSE IF divl /\ n \div clock[d] >= Modulus THEN Stops
  ELSE [seconds |-> Signed((n \div clock[d]) % Modulus), attoseconds |-> (n % clock[d]) * period[d]]

attotime_to_clocks(d, t) ==
  IF clock[d] = 0 THEN 0
  ELSE Unsigned(t.seconds) * clock[d] + t.attoseconds \div period[d]

---------------------------------------------------------------------------------
(* A change of a clock, wherever in the hierarchy and however it comes     *)
(* about, reaches at once every clock that is derived from it, and a clock *)
(* that becomes derived follows its owner from then on.                    *)
DerivedClocksFollow ==
  [][~load => \A d \in Devices : configured'[d].derived =>
       LET o == Owner[d]
       IN  clock'[o] # clock[o] \/ configured'[d] # configured[d] =>
             unscaled'[d] = Derived(configured'[d], clock'[o])]_clockVars

(* "If the device has already started, make sure it knows about the new    *)
(* clock": no device runs on with a clock it was not told of, although the *)
(* recalculation stops wherever a clock comes out as before; only a load   *)
(* brings clocks nobody is told of, until they are set again.              *)
StartedDevicesKnow == \A d \in started \ loaded : told[d] = clock[d]

(* Ticks of a running clock become a time and the time the same ticks, but *)
(* for whole multiples of a word of seconds, which get lost, and unless a  *)
(* load brought the clock without its period.  Below MaxTime it is an   *)
(* ordinary time, with less than a second beside its whole seconds; beyond *)
(* that it is never, or negative, and still the ticks come back from it    *)
(* (clocks_to_attotime).                                                   *)
TicksAreKept ==
  \A d \in Devices \ loaded, n \in Ticks, divl \in BOOLEAN :
    LET t    == clocks_to_attotime(d, n, divl)
        span == clock[d] * Modulus
    IN  clock[d] > 0 /\ (divl => n < span) =>
          /\ t # Stops
          /\ t.attoseconds \in 0 .. (Second - 1)
          /\ period[d] > 0 /\ attotime_to_clocks(d, t) = n % span
          /\ n < clock[d] * MaxTime => t.seconds \in 0 .. (MaxTime - 1)

=================================================================================
