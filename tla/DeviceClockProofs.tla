--------------------------- MODULE DeviceClockProofs ---------------------------
(***************************************************************************)
(* What holds of the clocks of the devices for every hierarchy, every set  *)
(* of clocks and scales and every width of a word.                         *)
(***************************************************************************)
EXTENDS DeviceClock, ExtremeLemmas

Hertz == 0 .. (Modulus - 1)

(* Products keep the order of their factors.                               *)
LEMMA ProductsKeepOrder ==
  ASSUME NEW a \in Nat, NEW b \in Nat, NEW c \in Nat, a <= b
  PROVE  a * c <= b * c /\ c * a <= c * b
OBVIOUS

(* A quotient is bounded as what is divided is.                            *)
LEMMA QuotientIsBounded ==
  ASSUME NEW a \in Nat, NEW b \in Nat, NEW c \in Nat, c # 0, a <= b * c
  PROVE  a \div c \in 0 .. b
<1>1. PICK q \in Nat, r \in 0 .. (c - 1) : q = a \div c /\ a = q * c + r
  BY Division
<1>2. ASSUME b < q PROVE FALSE
  <2>1. (b + 1) * c <= q * c
    BY <1>2, ProductsKeepOrder
  <2>2. (b + 1) * c = b * c + c
    OBVIOUS
  <2>3. b * c \in Nat /\ q * c \in Nat
    OBVIOUS
  <2>4. QED BY <1>1, <2>1, <2>2, <2>3
<1>3. QED BY <1>1, <1>2

(* The period of a clock fits: clock * period is at most a second.         *)
LEMMA PeriodFits ==
  ASSUME NEW hz \in Hertz, hz # 0
  PROVE  Period(hz) \in Nat \ {0} /\ hz * Period(hz) <= Second
<1>1. Second \in Nat /\ hz \in Nat /\ hz < Second
  BY DeviceClockAssumption DEF Hertz
<1> DEFINE p == Second \div hz
<1>2. p \in Nat /\ Second % hz \in 0 .. (hz - 1) /\ Second = p * hz + (Second % hz)
  BY <1>1, Division
<1>3. p # 0
  BY <1>1, <1>2
<1>4. p * hz = hz * p
  BY <1>1, <1>2
<1>5. p * hz <= Second
  BY <1>1, <1>2
<1>6. QED BY <1>2, <1>3, <1>4, <1>5 DEF Period

(* A scaled clock is a word.                                               *)
LEMMA ScaledIsAWord ==
  ASSUME NEW hz \in Hertz, NEW s \in Scales
  PROVE  Scaled(hz, s) \in Hertz
<1>1. s[1] \in Nat /\ s[2] \in Nat /\ s[2] # 0 /\ hz \in Nat /\ Modulus \in Nat /\ Modulus # 0
  BY DeviceClockAssumption DEF Hertz
<1>2. hz * s[1] \in Nat
  BY <1>1
<1>3. (hz * s[1]) \div s[2] \in Nat
  BY <1>1, <1>2, Division
<1>4. QED BY <1>1, <1>3, Division DEF Scaled, Hertz

(* A derived clock is a word.                                              *)
LEMMA DerivedIsAWord ==
  ASSUME NEW c \in Clocks, NEW hz \in Hertz
  PROVE  Derived(c, hz) \in Hertz
<1>1. c.num \in Nat /\ c.den \in Nat /\ c.den # 0 /\ hz \in Nat /\ Modulus \in Nat /\ Modulus # 0
  BY DeviceClockAssumption DEF Hertz
<1>2. PICK w \in 0 .. (Modulus - 1) : w = (hz * c.num) % Modulus
  <2>1. hz * c.num \in Nat
    BY <1>1
  <2>2. QED BY <1>1, <2>1, Division
<1>3. w \in Nat /\ w * 1 <= w * c.den
  BY <1>1, ProductsKeepOrder
<1>4. w \div c.den \in 0 .. w
  BY <1>1, <1>3, QuotientIsBounded
<1>5. QED BY <1>1, <1>2, <1>4 DEF Derived, Hertz

--------------------------------------------------------------------------------
(* What is computed from the top of the hierarchy down, for every device a *)
(* value made of that of its owner, is well defined.                       *)
ComputedDown(f, H, G) ==
  \A x \in Devices : /\ Owner[x] = None => f[x] = H[x]
                     /\ Owner[x] # None => f[x] = G[x][f[Owner[x]]]

(* Values that each device computes from its owner's exist for all         *)
(* devices: an owner comes before what it owns.                            *)
LEMMA DownTheHierarchy ==
  ASSUME NEW V, NEW H \in [Devices -> V], NEW G \in [Devices -> [V -> V]]
  PROVE  \E f \in [Devices -> V] : ComputedDown(f, H, G)
<1> DEFINE Good(f, n) ==
             \A x \in 1 .. n : f[x] = IF Owner[x] = None THEN H[x] ELSE G[x][f[Owner[x]]]
           S == {n \in Nat : n <= N => \E f \in [1 .. n -> V] : Good(f, n)}
<1>1. 0 \in S
  <2>1. [x \in 1 .. 0 |-> 0] \in [1 .. 0 -> V]
    OBVIOUS
  <2>2. Good([x \in 1 .. 0 |-> 0], 0)
    OBVIOUS
  <2>3. QED BY <2>1, <2>2
<1>2. ASSUME NEW n \in S PROVE n + 1 \in S
  <2>0. n \in Nat /\ N \in Nat
    BY DeviceClockAssumption
  <2>1. SUFFICES ASSUME n + 1 <= N PROVE \E g \in [1 .. (n + 1) -> V] : Good(g, n + 1)
    OBVIOUS
  <2>2. PICK f \in [1 .. n -> V] : Good(f, n)
    BY <2>1, DeviceClockAssumption
  <2> DEFINE v == IF Owner[n + 1] = None THEN H[n + 1] ELSE G[n + 1][f[Owner[n + 1]]]
             g == [x \in 1 .. (n + 1) |-> IF x = n + 1 THEN v ELSE f[x]]
  <2>3. \A x \in 1 .. (n + 1) : x \in Devices /\ (Owner[x] # None => Owner[x] \in 1 .. (x - 1))
    <3>1. ASSUME NEW x \in 1 .. (n + 1) PROVE x \in Devices
      BY <2>0, <2>1 DEF Devices
    <3>2. ASSUME NEW x \in 1 .. (n + 1), Owner[x] # None PROVE Owner[x] \in 1 .. (x - 1)
      <4>1. Owner[x] \in Devices /\ Owner[x] < x
        BY <3>1, <3>2, DeviceClockAssumption
      <4>2. QED BY <4>1, <2>0 DEF Devices
    <3>3. QED BY <3>1, <3>2
  <2>4. v \in V
    <3>1. CASE Owner[n + 1] = None
      BY <2>3, <3>1
    <3>2. CASE Owner[n + 1] # None
      <4>1. Owner[n + 1] \in 1 .. n
        BY <2>3, <3>2
      <4>2. n + 1 \in Devices /\ f[Owner[n + 1]] \in V
        BY <2>2, <2>3, <4>1
      <4>3. QED BY <3>2, <4>2
    <3>3. QED BY <3>1, <3>2
  <2>5. g \in [1 .. (n + 1) -> V]
    BY <2>2, <2>4
  <2>6. ASSUME NEW x \in 1 .. (n + 1)
        PROVE  g[x] = IF Owner[x] = None THEN H[x] ELSE G[x][g[Owner[x]]]
    <3>1. Owner[x] # None => g[Owner[x]] = f[Owner[x]]
      BY <2>3
    <3>2. CASE x = n + 1
      BY <3>1, <3>2
    <3>3. CASE x # n + 1
      <4>1. x \in 1 .. n
        BY <2>0, <3>3
      <4>2. g[x] = f[x]
        BY <3>3
      <4>3. QED BY <2>2, <3>1, <4>1, <4>2
    <3>4. QED BY <3>2, <3>3
  <2>7. QED BY <2>5, <2>6
<1> HIDE DEF S
<1>3. \A n \in Nat : n \in S
  <2>1. S \in SUBSET Nat
    BY DEF S
  <2>2. QED BY <1>1, <1>2, <2>1, SetInduction
<1>4. N \in S /\ N \in Nat
  BY <1>3, DeviceClockAssumption
<1>5. QED BY <1>4 DEF S, Devices, ComputedDown

(* What every device has when its owner has it, all devices have.          *)
LEMMA DownToAll ==
  ASSUME NEW T \in SUBSET Devices,
         \A x \in Devices : (Owner[x] # None => Owner[x] \in T) => x \in T
  PROVE  T = Devices
<1> DEFINE S == {n \in Nat : \A x \in Devices : x < n => x \in T}
<1>1. 0 \in S
  BY DEF Devices
<1>2. ASSUME NEW n \in S PROVE n + 1 \in S
  <2>1. ASSUME NEW x \in Devices, x < n + 1 PROVE x \in T
    <3>1. ASSUME Owner[x] # None PROVE Owner[x] \in T
      <4>1. Owner[x] \in Devices /\ Owner[x] < x
        BY <3>1, DeviceClockAssumption
      <4>2. QED BY <1>2, <2>1, <4>1 DEF Devices
    <3>2. QED BY <3>1
  <2>2. QED BY <2>1
<1> HIDE DEF S
<1>3. \A n \in Nat : n \in S
  <2>1. S \in SUBSET Nat
    BY DEF S
  <2>2. QED BY <1>1, <1>2, <2>1, SetInduction
<1>4. N + 1 \in S /\ N \in Nat
  BY <1>3, DeviceClockAssumption
<1>5. \A x \in Devices : x \in T
  <2>1. \A x \in Devices : x < N + 1 => x \in T
    BY <1>4 DEF S
  <2>2. QED BY <1>4, <2>1 DEF Devices
<1>6. QED BY <1>5

--------------------------------------------------------------------------------
(* The inductive invariant: the types, that a derived clock has an owner,  *)
(* that a period is that of its clock and that a started device knows its  *)
(* clock, both but for the devices a load has given another clock.         *)

TypeOK ==
  /\ configured \in [Devices -> Clocks]
  /\ unscaled \in [Devices -> Hertz] /\ clock \in [Devices -> Hertz]
  /\ scale \in [Devices -> Scales]
  /\ period \in [Devices -> Nat] /\ told \in [Devices -> Nat]
  /\ started \subseteq Devices /\ loaded \subseteq Devices
  /\ saved # None => saved \in [unscaled : [Devices -> Hertz], clock : [Devices -> Hertz],
                                scale : [Devices -> Scales]]

OwnersAreThere == \A d \in Devices : configured[d].derived => Owner[d] # None

PeriodsFit == \A d \in Devices \ loaded : period[d] = Period(clock[d])

IInv == TypeOK /\ OwnersAreThere /\ PeriodsFit /\ StartedDevicesKnow

Clocked == [touched : BOOLEAN, unscaled : Hertz, clock : Hertz]

Left(x) == [touched |-> FALSE, unscaled |-> unscaled[x], clock |-> clock[x]]

(* The clocks after a change: those of the device itself, of the devices   *)
(* that are left as they were, and of those that follow their owner.       *)
Followed(new, d, u, c) ==
  /\ new \in [Devices -> Clocked]
  /\ \A x \in Devices :
       new[x] =
         IF x = d THEN [touched |-> TRUE, unscaled |-> u, clock |-> c]
         ELSE IF Owner[x] = None \/ x < d \/ ~configured[x].derived THEN Left(x)
         ELSE IF ~new[Owner[x]].touched THEN Left(x)
         ELSE LET hz == Derived(configured[x], new[Owner[x]].clock)
              IN  IF hz = unscaled[x] THEN Left(x)
                  ELSE [touched |-> TRUE, unscaled |-> hz, clock |-> Scaled(hz, scale[x])]

(* Follow, device by device: d has the clock set, and what derives its     *)
(* clock from a device that got a new one gets one too, if it differs.     *)
LEMMA FollowIs ==
  ASSUME TypeOK, NEW d \in Devices, NEW u \in Hertz, NEW c \in Hertz
  PROVE  Followed(Follow(d, u, c), d, u, c)
<1> DEFINE Set == [touched |-> TRUE, unscaled |-> u, clock |-> c]
           Near(x, o) ==
             IF ~o.touched THEN Left(x)
             ELSE LET hz == Derived(configured[x], o.clock)
                  IN  IF hz = unscaled[x] THEN Left(x)
                      ELSE [touched |-> TRUE, unscaled |-> hz, clock |-> Scaled(hz, scale[x])]
           Alone(x) == Owner[x] = None \/ x < d \/ ~configured[x].derived
           H == [x \in Devices |-> IF x = d THEN Set ELSE Left(x)]
           G == [x \in Devices |-> [o \in Clocked |->
                   IF x = d THEN Set ELSE IF Alone(x) THEN Left(x) ELSE Near(x, o)]]
           E(f, x) == IF x = d THEN Set ELSE IF Alone(x) THEN Left(x) ELSE Near(x, f[Owner[x]])
<1>1. Set \in Clocked /\ \A x \in Devices : Left(x) \in Clocked
  BY DEF TypeOK, Clocked, Left
<1>2. ASSUME NEW x \in Devices, NEW o \in Clocked PROVE Near(x, o) \in Clocked
  <2>1. CASE ~o.touched
    BY <1>1, <2>1
  <2>2. CASE o.touched
    <3> DEFINE hz == Derived(configured[x], o.clock)
    <3>1. hz \in Hertz
      BY DerivedIsAWord DEF Clocked, TypeOK
    <3>2. Scaled(hz, scale[x]) \in Hertz
      BY <3>1, ScaledIsAWord DEF TypeOK
    <3>3. [touched |-> TRUE, unscaled |-> hz, clock |-> Scaled(hz, scale[x])] \in Clocked
      BY <3>1, <3>2 DEF Clocked
    <3>4. QED BY <1>1, <2>2, <3>3
  <2>3. QED BY <2>1, <2>2
<1>3. H \in [Devices -> Clocked] /\ G \in [Devices -> [Clocked -> Clocked]]
  BY <1>1, <1>2
<1>4. PICK f \in [Devices -> Clocked] : ComputedDown(f, H, G)
  <2> HIDE DEF H, G
  <2>1. QED BY <1>3, DownTheHierarchy
<1>5. ASSUME NEW x \in Devices PROVE f[x] = E(f, x)
  <2>1. CASE Owner[x] = None
    BY <1>4, <2>1 DEF ComputedDown
  <2>2. CASE Owner[x] # None
    <3>1. Owner[x] \in Devices
      BY <2>2, DeviceClockAssumption
    <3>2. f[Owner[x]] \in Clocked
      BY <1>4, <3>1
    <3>3. f[x] = G[x][f[Owner[x]]]
      BY <1>4, <2>2 DEF ComputedDown
    <3>4. QED BY <3>2, <3>3
  <2>3. QED BY <2>1, <2>2
<1>6. f = [x \in Devices |-> E(f, x)]
  <2> HIDE DEF E
  <2>1. QED BY <1>4, <1>5
<1>7. Follow(d, u, c) = CHOOSE g : g = [x \in Devices |-> E(g, x)]
  BY DEF Follow, Left
<1>8. Follow(d, u, c) = [x \in Devices |-> E(Follow(d, u, c), x)]
  <2> DEFINE Solves(g) == g = [x \in Devices |-> E(g, x)]
  <2> HIDE DEF E
  <2>1. Solves(f)
    BY <1>6
  <2>2. Follow(d, u, c) = CHOOSE g : Solves(g)
    BY <1>7 DEF E
  <2> HIDE DEF Solves
  <2>3. Solves(Follow(d, u, c))
    BY <2>1, <2>2
  <2>4. QED BY <2>3 DEF Solves
<1>9. \A x \in Devices : Follow(d, u, c)[x] = E(Follow(d, u, c), x)
  <2> HIDE DEF E
  <2>1. QED BY <1>8
<1>10. Follow(d, u, c) \in [Devices -> Clocked]
  <2> DEFINE T == {x \in Devices : Follow(d, u, c)[x] \in Clocked}
  <2>1. ASSUME NEW x \in Devices, Owner[x] # None => Owner[x] \in T PROVE x \in T
    <3>1. E(Follow(d, u, c), x) \in Clocked
      BY <1>1, <1>2, <2>1
    <3>2. QED BY <1>9, <3>1
  <2>2. T = Devices
    <3> HIDE DEF T
    <3>1. T \in SUBSET Devices
      BY DEF T
    <3>2. QED BY <2>1, <3>1, DownToAll
  <2> HIDE DEF E
  <2>3. QED BY <1>8, <2>2
<1>11. QED BY <1>9, <1>10 DEF Followed

ClocksTyped ==
  /\ unscaled \in [Devices -> Hertz] /\ clock \in [Devices -> Hertz]
  /\ period \in [Devices -> Nat] /\ told \in [Devices -> Nat]
  /\ loaded \subseteq Devices

(* What is derived from a clock that changed follows it.                   *)
Follows(d) ==
  \A x \in Devices :
    configured[x].derived /\ x # d /\ clock'[Owner[x]] # clock[Owner[x]] =>
      unscaled'[x] = Derived(configured[x], clock'[Owner[x]])

(* An update keeps periods and what devices know in step with the clocks,  *)
(* reaches what is derived, and leaves the devices above alone.            *)
LEMMA UpdateIs ==
  ASSUME TypeOK, OwnersAreThere, PeriodsFit, StartedDevicesKnow,
         NEW d \in Devices, NEW u \in Hertz, NEW c \in Hertz,
         Update(d, u, c), UNCHANGED started
  PROVE  /\ ClocksTyped' /\ PeriodsFit' /\ StartedDevicesKnow'
         /\ Follows(d)
         /\ unscaled'[d] = u
         /\ \A x \in Devices : x < d => clock'[x] = clock[x]
<1> DEFINE new == Follow(d, u, c)
<1>1. Followed(new, d, u, c)
  BY FollowIs
<1>2. /\ unscaled' = [x \in Devices |-> new[x].unscaled]
      /\ clock'    = [x \in Devices |-> new[x].clock]
      /\ period'   = [x \in Devices |-> IF new[x].touched THEN Period(new[x].clock) ELSE period[x]]
      /\ told'     = [x \in Devices |-> IF new[x].touched /\ x \in started
                                        THEN new[x].clock ELSE told[x]]
      /\ loaded'   = {x \in loaded : ~new[x].touched}
  BY DEF Update
<1> HIDE DEF new
<1>3. \A x \in Devices : /\ new[x].unscaled \in Hertz /\ new[x].clock \in Hertz
                         /\ new[x].touched \in BOOLEAN
  BY <1>1 DEF Followed, Clocked
<1>0. \A x : Left(x).touched = FALSE /\ Left(x).unscaled = unscaled[x] /\ Left(x).clock = clock[x]
  BY DEF Left
<1>4. ASSUME NEW x \in Devices, ~new[x].touched
      PROVE  new[x].unscaled = unscaled[x] /\ new[x].clock = clock[x]
  <2>1. new[x] = Left(x)
    BY <1>1, <1>4 DEF Followed
  <2>2. QED BY <1>0, <2>1
<1>5. \A hz \in Hertz : Period(hz) \in Nat
  BY PeriodFits DEF Period
<1>6. ASSUME NEW x \in Devices, x < d PROVE ~new[x].touched
  <2>1. x # d
    BY <1>6 DEF Devices
  <2>2. new[x] = Left(x)
    BY <1>1, <1>6, <2>1 DEF Followed
  <2>3. QED BY <1>0, <2>2
<1>7. ASSUME NEW x \in Devices, configured[x].derived, x # d, new[Owner[x]].touched
      PROVE  new[x].unscaled = Derived(configured[x], new[Owner[x]].clock)
  <2>1. Owner[x] # None /\ Owner[x] \in Devices /\ Owner[x] < x
    BY <1>7, DeviceClockAssumption DEF OwnersAreThere
  <2>2. ~(x < d)
    BY <1>6, <1>7, <2>1, DeviceClockAssumption DEF Devices
  <2> DEFINE hz == Derived(configured[x], new[Owner[x]].clock)
  <2>3. new[x] = IF hz = unscaled[x] THEN Left(x)
                 ELSE [touched |-> TRUE, unscaled |-> hz, clock |-> Scaled(hz, scale[x])]
    BY <1>1, <1>7, <2>1, <2>2 DEF Followed
  <2>4. QED BY <1>0, <2>3
<1>8. ClocksTyped'
  BY <1>2, <1>3, <1>5 DEF ClocksTyped, TypeOK, Hertz
<1>9. PeriodsFit'
  BY <1>2, <1>3, <1>4 DEF PeriodsFit, TypeOK
<1>10. StartedDevicesKnow'
  BY <1>2, <1>3, <1>4 DEF StartedDevicesKnow, TypeOK
<1>11. Follows(d)
  <2>1. SUFFICES ASSUME NEW x \in Devices, configured[x].derived, x # d,
                        clock'[Owner[x]] # clock[Owner[x]]
                 PROVE  unscaled'[x] = Derived(configured[x], clock'[Owner[x]])
    BY DEF Follows
  <2>2. Owner[x] \in Devices
    BY <2>1, DeviceClockAssumption DEF OwnersAreThere
  <2>3. new[Owner[x]].touched
    BY <1>2, <1>4, <2>1, <2>2
  <2>4. QED BY <1>2, <1>7, <2>1, <2>2, <2>3
<1>12. unscaled'[d] = u
  BY <1>1, <1>2 DEF Followed
<1>13. \A x \in Devices : x < d => clock'[x] = clock[x]
  BY <1>2, <1>4, <1>6
<1>14. QED BY <1>8, <1>9, <1>10, <1>11, <1>12, <1>13

(* The same of a change of the unscaled clock, when it is one.             *)
LEMMA ChangeIs ==
  ASSUME TypeOK, OwnersAreThere, PeriodsFit, StartedDevicesKnow,
         NEW d \in Devices, NEW hz \in Hertz, ChangeUnscaled(d, hz), UNCHANGED started
  PROVE  /\ ClocksTyped' /\ PeriodsFit' /\ StartedDevicesKnow'
         /\ Follows(d)
         /\ unscaled'[d] = hz
         /\ \A x \in Devices : x < d => clock'[x] = clock[x]
<1>1. CASE hz = unscaled[d]
  <2>1. UNCHANGED <<unscaled, clock, period, told, loaded>>
    BY <1>1 DEF ChangeUnscaled
  <2>2. ClocksTyped' /\ PeriodsFit' /\ StartedDevicesKnow'
    BY <2>1 DEF TypeOK, ClocksTyped, PeriodsFit, StartedDevicesKnow
  <2>3. QED BY <1>1, <2>1, <2>2 DEF Follows
<1>2. CASE hz # unscaled[d]
  <2>1. Update(d, hz, Scaled(hz, scale[d])) /\ Scaled(hz, scale[d]) \in Hertz
    BY <1>2, ScaledIsAWord DEF ChangeUnscaled, TypeOK
  <2>2. QED BY <2>1, UpdateIs
<1>3. QED BY <1>1, <1>2

--------------------------------------------------------------------------------
(* The clocks of the constructor come from the top of the hierarchy.       *)
LEMMA InitIsTyped == ClockInit => IInv
<1> SUFFICES ASSUME ClockInit PROVE IInv
  OBVIOUS
<1> DEFINE E(f, x) == IF configured[x].derived
                      THEN Derived(configured[x], f[Owner[x]]) ELSE configured[x].num
           H == [x \in Devices |-> configured[x].num]
           G == [x \in Devices |-> [o \in Hertz |->
                   IF configured[x].derived THEN Derived(configured[x], o)
                   ELSE configured[x].num]]
           hz == CHOOSE f : f = [x \in Devices |-> E(f, x)]
<1>1. configured \in [Devices -> Clocks] /\ OwnersAreThere
  BY DEF ClockInit, OwnersAreThere
<1>2. H \in [Devices -> Hertz] /\ G \in [Devices -> [Hertz -> Hertz]]
  BY <1>1, DerivedIsAWord, DeviceClockAssumption DEF Hertz
<1>3. PICK f \in [Devices -> Hertz] : ComputedDown(f, H, G)
  <2> HIDE DEF H, G
  <2>1. QED BY <1>2, DownTheHierarchy
<1>4. ASSUME NEW x \in Devices PROVE f[x] = E(f, x)
  <2>1. CASE Owner[x] = None
    BY <1>1, <1>3, <2>1 DEF ComputedDown, OwnersAreThere
  <2>2. CASE Owner[x] # None
    <3>1. Owner[x] \in Devices
      BY <2>2, DeviceClockAssumption
    <3>2. f[Owner[x]] \in Hertz
      BY <1>3, <3>1
    <3>3. f[x] = G[x][f[Owner[x]]]
      BY <1>3, <2>2 DEF ComputedDown
    <3>4. QED BY <3>2, <3>3
  <2>3. QED BY <2>1, <2>2
<1>5. f = [x \in Devices |-> E(f, x)]
  <2> HIDE DEF E
  <2>1. QED BY <1>3, <1>4
<1>6. hz = [x \in Devices |-> E(hz, x)]
  <2> HIDE DEF E
  <2>1. QED BY <1>5
<1>7. hz \in [Devices -> Hertz]
  <2> DEFINE T == {x \in Devices : hz[x] \in Hertz}
  <2>1. ASSUME NEW x \in Devices, Owner[x] # None => Owner[x] \in T PROVE x \in T
    <3>1. hz[x] = E(hz, x)
      <4> HIDE DEF E
      <4>1. QED BY <1>6
    <3> HIDE DEF hz
    <3>2. CASE configured[x].derived
      <4>1. hz[Owner[x]] \in Hertz
        BY <1>1, <2>1, <3>2 DEF OwnersAreThere
      <4>2. QED BY <1>1, <3>1, <3>2, <4>1, DerivedIsAWord
    <3>3. CASE ~configured[x].derived
      BY <1>1, <3>1, <3>3, DeviceClockAssumption DEF Hertz
    <3>4. QED BY <3>2, <3>3
  <2>2. T = Devices
    <3> HIDE DEF T
    <3>1. T \in SUBSET Devices
      BY DEF T
    <3>2. QED BY <2>1, <3>1, DownToAll
  <2> HIDE DEF E
  <2>3. QED BY <1>6, <2>2
<1>8. /\ unscaled = hz /\ clock = hz /\ period = [d \in Devices |-> Period(hz[d])]
      /\ scale = [d \in Devices |-> <<1, 1>>]
      /\ started = {} /\ told = [d \in Devices |-> 0] /\ saved = None /\ loaded = {}
  BY DEF ClockInit
<1> HIDE DEF hz
<1>9. \A n \in Hertz : Period(n) \in Nat
  BY PeriodFits DEF Period
<1>10. TypeOK
  BY <1>1, <1>7, <1>8, <1>9, DeviceClockAssumption DEF TypeOK
<1>11. QED BY <1>1, <1>7, <1>8, <1>10 DEF IInv, PeriodsFit, StartedDevicesKnow

--------------------------------------------------------------------------------
(* Every step keeps the invariant and lets derived clocks follow.          *)
FollowStep ==
  ~load => \A d \in Devices : configured'[d].derived =>
    LET o == Owner[d]
    IN  clock'[o] # clock[o] \/ configured'[d] # configured[d] =>
          unscaled'[d] = Derived(configured'[d], clock'[o])

(* set_clock keeps the invariant, and the clocks that change are those of  *)
(* the subtree that derives from it.                                       *)
LEMMA SetClockKeeps ==
  ASSUME IInv, NEW d \in Devices, NEW c \in Clocks, set_clock(d, c)
  PROVE  IInv' /\ FollowStep
<1> DEFINE hz == IF c.derived THEN Derived(c, clock[Owner[d]]) ELSE c.num
<1>1. /\ c.derived => Owner[d] # None
      /\ configured' = [configured EXCEPT ![d] = c]
      /\ ChangeUnscaled(d, hz) /\ UNCHANGED <<scale, started, saved>>
  BY DEF set_clock
<1>2. Owner[d] # None => Owner[d] \in Devices /\ Owner[d] < d
  BY DeviceClockAssumption
<1>3. hz \in Hertz
  BY <1>1, <1>2, DerivedIsAWord, DeviceClockAssumption DEF Hertz, IInv, TypeOK
<1>4. /\ ClocksTyped' /\ PeriodsFit' /\ StartedDevicesKnow' /\ Follows(d)
      /\ unscaled'[d] = hz
      /\ \A x \in Devices : x < d => clock'[x] = clock[x]
  <2> HIDE DEF hz
  <2>1. QED BY <1>1, <1>3, ChangeIs DEF IInv
<1>5. TypeOK'
  BY <1>1, <1>4 DEF IInv, TypeOK, ClocksTyped
<1>6. OwnersAreThere'
  BY <1>1 DEF IInv, TypeOK, OwnersAreThere
<1>7. FollowStep
  <2>1. SUFFICES ASSUME NEW x \in Devices, configured'[x].derived,
                        clock'[Owner[x]] # clock[Owner[x]] \/ configured'[x] # configured[x]
                 PROVE  unscaled'[x] = Derived(configured'[x], clock'[Owner[x]])
    BY DEF FollowStep
  <2>2. CASE x = d
    BY <1>1, <1>2, <1>4, <2>1, <2>2 DEF IInv, TypeOK
  <2>3. CASE x # d
    BY <1>1, <1>4, <2>1, <2>3 DEF IInv, TypeOK, Follows
  <2>4. QED BY <2>2, <2>3
<1>8. QED BY <1>4, <1>5, <1>6, <1>7 DEF IInv

(* Where the configured clocks stay, the device itself has nothing to      *)
(* follow: its owner is above it.                                          *)
LEMMA FollowsIsEnough ==
  ASSUME IInv, NEW d \in Devices, Follows(d), UNCHANGED configured,
         \A x \in Devices : x < d => clock'[x] = clock[x]
  PROVE  FollowStep
<1>1. SUFFICES ASSUME NEW x \in Devices, configured[x].derived,
                      clock'[Owner[x]] # clock[Owner[x]]
               PROVE  unscaled'[x] = Derived(configured[x], clock'[Owner[x]])
  BY DEF FollowStep
<1>2. Owner[x] \in Devices /\ Owner[x] < x
  BY <1>1, DeviceClockAssumption DEF IInv, OwnersAreThere
<1>3. QED BY <1>1, <1>2 DEF Follows

(* set_unscaled_clock keeps the invariant, and the derived clocks follow.  *)
LEMMA SetUnscaledKeeps ==
  ASSUME IInv, NEW d \in Devices, NEW hz \in Hertz, set_unscaled_clock(d, hz)
  PROVE  IInv' /\ FollowStep
<1>1. ChangeUnscaled(d, hz) /\ UNCHANGED <<configured, scale, started, saved>>
  BY DEF set_unscaled_clock
<1>2. /\ ClocksTyped' /\ PeriodsFit' /\ StartedDevicesKnow' /\ Follows(d)
      /\ \A x \in Devices : x < d => clock'[x] = clock[x]
  BY <1>1, ChangeIs DEF IInv
<1>3. TypeOK' /\ OwnersAreThere'
  BY <1>1, <1>2 DEF IInv, TypeOK, ClocksTyped, OwnersAreThere
<1>4. QED BY <1>1, <1>2, <1>3, FollowsIsEnough DEF IInv

(* set_clock_scale keeps the invariant, and the derived clocks follow.     *)
LEMMA SetScaleKeeps ==
  ASSUME IInv, NEW d \in Devices, NEW s \in Scales, set_clock_scale(d, s)
  PROVE  IInv' /\ FollowStep
<1>1. /\ scale' = [scale EXCEPT ![d] = s]
      /\ Update(d, unscaled[d], Scaled(unscaled[d], s))
      /\ UNCHANGED <<configured, started, saved>>
  BY DEF set_clock_scale
<1>2. unscaled[d] \in Hertz /\ Scaled(unscaled[d], s) \in Hertz
  BY ScaledIsAWord DEF IInv, TypeOK
<1>3. /\ ClocksTyped' /\ PeriodsFit' /\ StartedDevicesKnow' /\ Follows(d)
      /\ \A x \in Devices : x < d => clock'[x] = clock[x]
  BY <1>1, <1>2, UpdateIs DEF IInv
<1>4. TypeOK' /\ OwnersAreThere'
  BY <1>1, <1>3 DEF IInv, TypeOK, ClocksTyped, OwnersAreThere
<1>5. QED BY <1>1, <1>3, <1>4, FollowsIsEnough DEF IInv

(* Every step keeps the invariant, and derived clocks follow in it.        *)
LEMMA StepKeeps == IInv /\ ClockNext => IInv' /\ FollowStep
<1> SUFFICES ASSUME IInv, ClockNext PROVE IInv' /\ FollowStep
  OBVIOUS
<1>1. ASSUME NEW d \in Devices, NEW c \in Clocks, set_clock(d, c) PROVE IInv' /\ FollowStep
  BY <1>1, SetClockKeeps
<1>2. ASSUME NEW d \in Devices, NEW c \in Clocks, set_unscaled_clock(d, c.num)
      PROVE  IInv' /\ FollowStep
  <2>1. c.num \in Hertz
    BY DeviceClockAssumption DEF Hertz
  <2>2. QED BY <1>2, <2>1, SetUnscaledKeeps
<1>3. ASSUME NEW d \in Devices, NEW s \in Scales, set_clock_scale(d, s)
      PROVE  IInv' /\ FollowStep
  BY <1>3, SetScaleKeeps
<1>4. ASSUME NEW d \in Devices, start(d) PROVE IInv' /\ FollowStep
  <2>1. IInv'
    BY <1>4 DEF start, IInv, TypeOK, OwnersAreThere, PeriodsFit, StartedDevicesKnow, Hertz
  <2>2. QED BY <1>4, <2>1 DEF start, FollowStep
<1>5. ASSUME save PROVE IInv' /\ FollowStep
  <2>1. IInv'
    BY <1>5 DEF save, IInv, TypeOK, OwnersAreThere, PeriodsFit, StartedDevicesKnow
  <2>2. QED BY <1>5, <2>1 DEF save, FollowStep
<1>6. ASSUME load PROVE IInv' /\ FollowStep
  <2>1. IInv'
    BY <1>6 DEF load, IInv, TypeOK, OwnersAreThere, PeriodsFit, StartedDevicesKnow
  <2>2. QED BY <1>6, <2>1 DEF FollowStep
<1>7. QED BY <1>1, <1>2, <1>3, <1>4, <1>5, <1>6 DEF ClockNext

(* So does a step in which nothing changes.                                *)
LEMMA StutteringKeeps == IInv /\ UNCHANGED clockVars => IInv'
BY DEF clockVars, IInv, TypeOK, OwnersAreThere, PeriodsFit, StartedDevicesKnow

(* The clocks, their periods and what the devices know of them, in every   *)
(* state of every machine.                                                 *)
THEOREM ClocksAreKept == ClockSpec => []IInv
<1>1. IInv /\ [ClockNext]_clockVars => IInv'
  BY StepKeeps, StutteringKeeps
<1>2. QED BY <1>1, InitIsTyped, PTL DEF ClockSpec

(* "If the device has already started, make sure it knows about the new    *)
(* clock", of every hierarchy: all changes of device_t::set_clock,         *)
(* set_unscaled_clock, set_clock_scale and those that follow from them.    *)
THEOREM StartedDevicesAreTold == ClockSpec => []StartedDevicesKnow
<1>1. IInv => StartedDevicesKnow
  BY DEF IInv
<1>2. QED BY <1>1, ClocksAreKept, PTL

(* A number divided twice, by a and the quotient by b, is cut by a * b.     *)
LEMMA DividedTwice ==
  ASSUME NEW n \in Nat, NEW a \in Nat \ {0}, NEW b \in Nat \ {0}
  PROVE  ((n \div a) % b) * a + (n % a) = n % (a * b)
<1> DEFINE q == n \div a  r == n % a  k == q \div b  w == q % b
<1>1. q \in Nat /\ r \in 0 .. (a - 1) /\ n = q * a + r
  BY Division
<1> HIDE DEF q, r
<1>2. k \in Nat /\ w \in 0 .. (b - 1) /\ q = k * b + w
  BY <1>1, Division
<1> HIDE DEF k, w
<1>3. q * a = k * (a * b) + w * a
  <2>1. (k * b + w) * a = k * (a * b) + w * a
    BY <1>2
  <2>2. QED BY <1>2, <2>1
<1>4. a * b \in Nat /\ w * a \in Nat
  BY <1>2
<1>5. w * a + r \in 0 .. (a * b - 1)
  <2>1. (w + 1) * a <= b * a
    BY <1>2, ProductsKeepOrder
  <2>2. (w + 1) * a = w * a + a /\ b * a = a * b
    BY <1>2
  <2>3. QED BY <1>1, <1>4, <2>1, <2>2
<1>6. n = k * (a * b) + (w * a + r)
  <2>1. k * (a * b) \in Nat
    BY <1>2, <1>4
  <2>2. QED BY <1>1, <1>3, <1>4, <2>1
<1>7. n % (a * b) = w * a + r
  BY <1>2, <1>4, <1>5, <1>6, DivisionIsUnique
<1>8. QED BY <1>7 DEF q, r, w

(* Clocks and their periods where a time is not brought by a load.         *)
Running(hz, p) ==
  /\ hz \in Nat \ {0} /\ p \in Nat \ {0} /\ hz * p \in Nat /\ hz * p <= Second

(* The ticks beyond the whole seconds are less than a second, and their    *)
(* attoseconds are so many periods.                                        *)
LEMMA TicksWithinASecond ==
  ASSUME NEW hz, NEW p, Running(hz, p), NEW r \in 0 .. (hz - 1)
  PROVE  r * p \in 0 .. (Second - 1) /\ (r * p) \div p = r
<1>1. hz \in Nat \ {0} /\ p \in Nat \ {0} /\ hz * p \in Nat /\ hz * p <= Second
  BY DEF Running
<1>2. Second \in Nat
  BY DeviceClockAssumption
<1>3. (r + 1) * p <= hz * p /\ (r + 1) * p = r * p + p /\ r * p \in Nat
  BY <1>1, ProductsKeepOrder
<1>4. r * p < Second
  BY <1>1, <1>2, <1>3
<1>5. (r * p + 0) \div p = r
  BY <1>1, DivisionIsUnique
<1>6. QED BY <1>2, <1>3, <1>4, <1>5

(* The seconds keep their word through the sign.                           *)
LEMMA SignsUndo ==
  ASSUME NEW w \in 0 .. (Modulus - 1)
  PROVE  /\ Unsigned(Signed(w)) = w /\ Signed(w) \in Int
         /\ w < MaxTime => Signed(w) = w
<1>1. Modulus \in Nat /\ Modulus # 0
  BY DeviceClockAssumption
<1>2. Modulus \div 2 \in Nat /\ MaxTime \in Nat /\ MaxTime <= Modulus \div 2
  BY <1>1, DeviceClockAssumption
<1>3. QED BY <1>1, <1>2 DEF Signed, Unsigned

(* clocks_to_attotime and attotime_to_clocks undo each other, for every    *)
(* clock of a word and any number of ticks, up to words of seconds.        *)
THEOREM TicksAlwaysComeBack == ClockSpec => []TicksAreKept
<1>1. IInv => TicksAreKept
  <2> DEFINE t(d, n, divl) == clocks_to_attotime(d, n, divl)
             span(d) == clock[d] * Modulus
  <2>1. SUFFICES ASSUME IInv, NEW d \in Devices \ loaded, NEW n \in Ticks, NEW divl \in BOOLEAN,
                        clock[d] > 0, divl => n < span(d)
                 PROVE  /\ t(d, n, divl) # Stops
                        /\ t(d, n, divl).attoseconds \in 0 .. (Second - 1)
                        /\ period[d] > 0 /\ attotime_to_clocks(d, t(d, n, divl)) = n % span(d)
                        /\ n < clock[d] * MaxTime =>
                             t(d, n, divl).seconds \in 0 .. (MaxTime - 1)
    BY DEF TicksAreKept
  <2> DEFINE hz == clock[d]  p == period[d]  r == n % hz  q == n \div hz  w == q % Modulus
  <2>2. hz \in Hertz /\ hz # 0 /\ p = Period(hz) /\ n \in Nat
    BY <2>1, DeviceClockAssumption DEF IInv, TypeOK, PeriodsFit, Hertz
  <2>3. Running(hz, p)
    <3>1. p \in Nat \ {0} /\ hz * p <= Second /\ hz \in Nat
      BY <2>2, PeriodFits DEF Hertz
    <3>2. hz * p \in Nat
      BY <3>1
    <3>3. QED BY <2>2, <3>1, <3>2 DEF Running
  <2>4. Modulus \in Nat \ {0} /\ MaxTime \in Nat \ {0} /\ hz \in Nat \ {0} /\ p \in Nat \ {0}
    BY <2>2, <2>3, DeviceClockAssumption DEF Hertz, Running
  <2>5. hz = clock[d] /\ p = period[d]
    OBVIOUS
  <2> HIDE DEF hz, p
  <2>6. q \in Nat /\ r \in 0 .. (hz - 1) /\ n = q * hz + r
    BY <2>2, <2>4, Division
  <2>7. w * hz + r = n % (hz * Modulus)
    BY <2>2, <2>4, DividedTwice
  <2> HIDE DEF q, r
  <2>8. w \in 0 .. (Modulus - 1) /\ (q < Modulus => w = q)
    <3>1. w \in 0 .. (Modulus - 1)
      BY <2>4, <2>6, Division
    <3>2. ASSUME q < Modulus PROVE w = q
      <4>1. (0 * Modulus + q) % Modulus = q
        BY <2>4, <2>6, <3>2, DivisionIsUnique
      <4>2. QED BY <2>4, <2>6, <4>1
    <3>3. QED BY <3>1, <3>2
  <2> HIDE DEF w
  <2>9. ASSUME NEW b \in Nat, n < hz * b PROVE q < b
    <3>1. SUFFICES ASSUME b <= q PROVE FALSE
      BY <2>6, <2>9
    <3>2. b * hz <= q * hz /\ b * hz = hz * b /\ b * hz \in Nat /\ q * hz \in Nat
      BY <2>4, <2>6, <3>1, ProductsKeepOrder
    <3>3. QED BY <2>2, <2>6, <2>9, <3>2
  <2>10. n < hz => q = 0 /\ r = n
    <3>1. SUFFICES ASSUME n < hz PROVE q = 0 /\ r = n
      OBVIOUS
    <3>2. (0 * hz + n) \div hz = 0 /\ (0 * hz + n) % hz = n
      BY <2>2, <2>4, <3>1, DivisionIsUnique
    <3>3. QED BY <2>2, <2>4, <3>2 DEF q, r
  <2>11. t(d, n, divl) = [seconds |-> Signed(w), attoseconds |-> r * p]
    <3>1. CASE n < hz
      <4>1. w = 0 /\ r = n
        BY <2>4, <2>6, <2>8, <2>10, <3>1
      <4>2. Signed(0) = 0
        BY <2>4, SignsUndo
      <4>3. QED BY <2>4, <2>5, <3>1, <4>1, <4>2 DEF clocks_to_attotime
    <3>2. CASE ~(n < hz)
      <4>1. divl => q < Modulus
        BY <2>1, <2>4, <2>5, <2>9
      <4>2. ~(divl /\ q >= Modulus)
        BY <2>4, <2>6, <4>1
      <4>3. QED BY <2>4, <2>5, <3>2, <4>2 DEF clocks_to_attotime, q, r, w
    <3>3. QED BY <3>1, <3>2
  <2>12. r * p \in 0 .. (Second - 1) /\ (r * p) \div p = r
    BY <2>3, <2>6, TicksWithinASecond
  <2>13. attotime_to_clocks(d, t(d, n, divl)) = n % (hz * Modulus)
    <3>1. attotime_to_clocks(d, t(d, n, divl)) = Unsigned(Signed(w)) * hz + (r * p) \div p
      BY <2>4, <2>5, <2>11 DEF attotime_to_clocks
    <3>2. QED BY <2>7, <2>8, <2>12, <3>1, SignsUndo
  <2>14. n < hz * MaxTime => Signed(w) \in 0 .. (MaxTime - 1)
    <3>1. SUFFICES ASSUME n < hz * MaxTime PROVE Signed(w) \in 0 .. (MaxTime - 1)
      OBVIOUS
    <3>2. q < MaxTime
      BY <2>4, <2>9, <3>1
    <3>3. MaxTime <= Modulus
      BY <2>4, DeviceClockAssumption
    <3>4. w = q
      BY <2>4, <2>6, <2>8, <3>2, <3>3
    <3>5. QED BY <2>4, <2>6, <2>8, <3>2, <3>4, SignsUndo
  <2>15. t(d, n, divl) # Stops
    BY <2>11 DEF Stops
  <2>16. QED BY <2>4, <2>5, <2>11, <2>12, <2>13, <2>14, <2>15
<1>2. QED BY <1>1, ClocksAreKept, PTL

(* A change of a clock reaches every clock derived from it, through the    *)
(* whole hierarchy (update_clock_below and the calls it makes).            *)
THEOREM DerivedClocksAlwaysFollow == ClockSpec => DerivedClocksFollow
<1>1. IInv /\ [ClockNext]_clockVars => [FollowStep]_clockVars
  BY StepKeeps
<1>2. QED BY <1>1, ClocksAreKept, PTL DEF ClockSpec, DerivedClocksFollow, FollowStep
================================================================================
